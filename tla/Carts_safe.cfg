\* Two users, two requests over one connection to Redis.
CONSTANTS
    Users = {u1, u2}
    Products = {p1}
    Requests = {r1, r2}
    Quantities = {1, 2}
    MaxQuantity = 2
    MaxServed = 3
    None = None
SPECIFICATION Spec
SYMMETRY Symmetry
INVARIANTS TypeOK BoughtWithinCredits
PROPERTIES OptimisticLock
