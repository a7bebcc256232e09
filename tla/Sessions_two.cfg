\* Two users share the tables and draw keys from one supply.
CONSTANTS
    Users = {u1, u2}
    NoUser = NoUser
    Requests = {r1, r2}
    Keys = {k1, k2}
    RowIds = {i1, i2}
    NoRow = NoRow
    AccessTTL = 1
    RefreshTTL = 3
SPECIFICATION Spec
SYMMETRY UserSymmetry
INVARIANTS TypeOK KeyPairIntact QuietStoresAgree KeysBelongToOneUser
