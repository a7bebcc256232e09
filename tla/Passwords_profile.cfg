\* The profile update, against the answer it gives.
CONSTANTS
    Users = {u1}
    Passwords = {p1, p2}
    Unknown = Unknown
    Requests = {r1}
SPECIFICATION Spec
PROPERTIES ProfileKeepsSignIn
