\* Calls of the tools that compute from one look at the gamemaster, and diff-gm.
\* A call ends, so deadlock is not checked.
SPECIFICATION Spec
CHECK_DEADLOCK FALSE
CONSTANTS
    None = None
    Docs = {}
    Lists <- MCLists
    MaxIV = 2
    MinLevel = 2
    NoXLMaxLevel = 80
    MaxLevel = 102
    CP <- MCCP
    Product <- MCProduct
    LeagueCP <- MCLeagueCP
    masterLeagueCap = 10000
    IVFloor <- MCIVFloor
    maxEvolutionDepth = 2
    maxPreEvolutionDepth = 3
    Scenarios <- MCScenarios
    defaultMetaTopN = 2
    defaultTargetPercentOfBest = 95
INVARIANT PricesAgree LevelsFound EvolutionsFollowed RolesEarned DiffTellsApart
