\* Four pool members, two opponents and two slots, cancelled at any moment.
SPECIFICATION FairSpec
CONSTANTS
    PoolSize = 4
    MetaSize = 2
    NumCPU = 2
    Ratings <- MCRatings
    Failed = failed
    None = none
    Sims <- MCSims
    SpeciesOf <- MCSpecies
    Required <- MCRequired
    Modes = {"0s", "all_pareto", "unknown"}
CHECK_DEADLOCK FALSE
INVARIANTS
    MatrixSound
    FailuresCounted
    SearchComplete
PROPERTIES
    SearchEnds
