\* As many requests as connections; liveness, without symmetry.
CONSTANTS
    Products = {p1}
    Values = {v1}
    Shops = {s1}
    Requests = {r1, r2}
    Fillings = {f1}
    PoolSize = 2
    None = None
    Alien = Alien
SPECIFICATION LiveSpec
PROPERTIES AnswersCome FillingsEnd
