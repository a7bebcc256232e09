\* One user's requests, three at a time; two passwords tell old from new.
CONSTANTS
    Users = {u1}
    Passwords = {p1, p2}
    Unknown = Unknown
    Requests = {r1, r2, r3}
SPECIFICATION Spec
SYMMETRY Symmetry
INVARIANTS TypeOK QuietPasswordIsKnown QuietChangeWorks QuietResetIsSpent
