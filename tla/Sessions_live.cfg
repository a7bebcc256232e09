\* One user; access tokens of two ticks, so that a key may be cached late. Liveness, without symmetry.
CONSTANTS
    Users = {u1}
    NoUser = NoUser
    Requests = {r1, r2}
    Keys = {k1, k2}
    RowIds = {i1, i2}
    NoRow = NoRow
    AccessTTL = 2
    RefreshTTL = 1
SPECIFICATION FairSpec
PROPERTIES StrandedKeyDiesOut
INVARIANTS CachedKeyOutlivesTokens
