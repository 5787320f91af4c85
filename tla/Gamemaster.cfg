\* A server with two overlapping refreshers and a fetch-gm, any of which may die.
SPECIFICATION MCFairSpec
CONSTANTS
    server = server
    command = command
    loop = loop
    debug = debug
    fetch = fetch
    v1 = v1
    v2 = v2
    Procs = {server, command}
    Refreshers = {loop, debug, fetch}
    Home <- MCHome
    Own = {loop, fetch}
    Commands = {command}
    Crashing = {server, command}
    Versions = {v1, v2}
    Torn = torn
    None = none
    TagsAlways = TRUE
    MaxPublishes = 2
INVARIANTS
    ServingHasSnapshot
    FileWhole
    EtagNamesSnapshot
PROPERTIES
    Converges
