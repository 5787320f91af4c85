\* Three callers in two processes, one key, two successive payloads.
SPECIFICATION Spec
CONSTANTS
    p1 = p1
    p2 = p2
    c1 = c1
    c2 = c2
    c3 = c3
    v1 = v1
    v2 = v2
    Procs = {p1, p2}
    Callers = {c1, c2, c3}
    Home <- MCHome
    Requests <- MCOneKey
    UnsafeCups <- MCUnsafe
    Bodies = {v1, v2}
    NullBody = null
    Torn = torn
    None = none
    TTL = 0
    MaxClock = 1
SYMMETRY MCSymmetry
INVARIANTS
    TypeOK
    SingleFlight
    NoRedundantLoad
    FilesWhole
PROPERTIES
    RefinesMemo
