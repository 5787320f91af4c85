\* pvp_rank and pvp_rank_batch against refreshes, failed fetches and a context
\* that ends.  A call ends, so deadlock is not checked.
SPECIFICATION Spec
CHECK_DEADLOCK FALSE
CONSTANTS
    None = None
    Docs <- MCDocs
    Lists <- MCLists
    Requests <- MCRequests
    Rating <- MCRating
    MetaTop = 20
INVARIANT AlternativesSound CupsAgree BatchFailures
