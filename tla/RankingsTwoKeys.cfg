\* Two keys, whose mutexes and files are independent.
SPECIFICATION FairSpec
CONSTANTS
    p1 = p1
    p2 = p2
    c1 = c1
    c2 = c2
    c3 = c3
    v1 = v1
    v2 = v2
    Procs = {p1}
    Callers = {c1, c2}
    Home <- MCHomeOne
    Requests <- MCTwoKeys
    UnsafeCups <- MCUnsafe
    Bodies = {v1}
    NullBody = null
    Torn = torn
    None = none
    TTL = 0
    MaxClock = 0
PROPERTIES
    EveryCallReturns
