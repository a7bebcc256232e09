\* Three requests at a time for one address; two codes may be mailed in turn.
CONSTANTS
    Emails = {e1}
    Codes = {c1, c2}
    NoCode = NoCode
    Requests = {r1, r2, r3}
    OtpTTL = 2
    FlagTTL = 3
SPECIFICATION FairSpec
INVARIANTS TypeOK AccountsAreVerified QuietStagesAgree
PROPERTIES LeftoversDie
