\* Two requests at a time, over each other's transactions.
CONSTANTS
    Keys = {k1, k2}
    Products = {p1}
    Users = {u1}
    Requests = {r1, r2}
    MaxFiles = 2
    MaxByHand = 0
    None = None
    Unknown = Unknown
SPECIFICATION Spec
SYMMETRY Symmetry
INVARIANTS TypeOK RowHasFile
PROPERTIES LifeSpec
