\* One call while the gamemaster is refreshed to and fro.
SPECIFICATION Spec
CONSTANTS
    MaxPoolSize = 4
    autoEvolveMaxDepth = 2
    Docs <- MCDocs
    Recommended <- MCRecommended
    Calls <- MCCalls
    CPCap = 5
    Scores = {1, 2}
    None = none
CHECK_DEADLOCK FALSE
INVARIANTS
    IndicesAgree
    BanHonoured
    RestrictionsHold
    EvolvesAsFarAsFits
    BestAffordable
