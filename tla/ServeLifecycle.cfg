\* Every choice of listeners, limiter and deadline, and every defect of one field.
SPECIFICATION FairSpec
CONSTANTS
    RefreshGrace = 1
    Grace <- MCGrace
    Budget <- MCBudget
    Configs <- MCConfigs
    CIDRs = {"10.0.0.0/8"}
    BootstrapRetries = 3
    BackoffBase = 1
    BackoffFactor = 2
INVARIANTS
    StartsWholeOrNot
    DoneMeansQuiet
    GracesKept
PROPERTIES
    ShutsDown
