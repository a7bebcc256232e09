\* One request after the other, with up to two files each, and the route /media/delete.
CONSTANTS
    Keys = {k1, k2, k3}
    Products = {p1}
    Users = {u1}
    Requests = {r1}
    MaxFiles = 2
    MaxByHand = 1
    None = None
    Unknown = Unknown
SPECIFICATION Spec
SYMMETRY Symmetry
INVARIANTS RemovalsBeforeCommit QuietFilesHaveRows QuietLinksHaveRows
PROPERTIES LifeSpec
