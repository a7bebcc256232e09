\* Two writers of one product, and the filling of the cache.
CONSTANTS
    Products = {p1}
    Values = {v1, v2}
    Shops = {s1, s2}
    Requests = {r1, r2}
    Fillings = {f1}
    PoolSize = 3
    None = None
    Alien = Alien
SPECIFICATION Spec
SYMMETRY Symmetry
INVARIANTS TypeOK DetailsExist QuietDocsAgree DetailsAgree
PROPERTIES UpdatesStoreWhatWasSent
