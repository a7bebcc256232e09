\* Three requests race for two places of one counter; a window is two seconds of three
\* ticks, so that TTL rounds to 2, 1 and 0.  Liveness, therefore without symmetry.
CONSTANTS
    Addresses = {a1}
    Requests = {r1, r2, r3}
    Limit = 2
    Second = 3
    Window = 6
SPECIFICATION FairSpec
INVARIANTS TypeOK AtMostLimit
PROPERTIES NoEarlyReset DecidedOnMortalCounter WindowsEnd
