\* The fighting tools against refreshes, failed fetches and a context that ends.
\* A call ends, so deadlock is not checked.
SPECIFICATION Spec
CHECK_DEADLOCK FALSE
CONSTANTS
    None = None
    Docs <- MCDocs
    Lists <- MCLists
    Requests <- MCRequests
    Rating <- MCRating
    TeamSize = 2
    Threshold = 400
    MaxCandidates = 1
INVARIANT FormsMatch RestrictionsKept CoverageSound CountersComplete
