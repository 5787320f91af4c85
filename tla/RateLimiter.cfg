\* Three clients, a map of two, two requests at a time, limiter on and off.
SPECIFICATION Spec
CONSTANTS
    c1 = c1
    c2 = c2
    c3 = c3
    p1 = p1
    w1 = w1
    w2 = w2
    Clients = {c1, c2, c3}
    Proxies = {p1}
    Malformed = malformed
    Empty = empty
    Workers = {w1, w2}
    Written <- MCWritten
    Routes <- MCRoutes
    Rates = {0, 2}
    Bursts = {2}
    IdleEviction = 2
    JanitorInterval = 1
    HardCap = 2
    MaxDelay = 1
    MaxClock = 4
    None = none
CHECK_DEADLOCK FALSE
INVARIANTS
    TypeOK
    WithinCap
    KeyedByOrigin
    OneBucketEach
    Reaped


SYMMETRY MCSymmetry
