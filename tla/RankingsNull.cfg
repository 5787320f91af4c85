\* The upstream may answer the JSON document null.
SPECIFICATION Spec
CONSTANTS
    p1 = p1
    p2 = p2
    c1 = c1
    c2 = c2
    c3 = c3
    v1 = v1
    v2 = v2
    Procs = {p1}
    Callers = {c1, c2}
    Home <- MCHomeOne
    Requests <- MCOneKey
    UnsafeCups <- MCUnsafe
    Bodies = {null}
    NullBody = null
    Torn = torn
    None = none
    TTL = 0
    MaxClock = 1
INVARIANTS
    NoRedundantLoad
