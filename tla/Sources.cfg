SPECIFICATION FairSpec
CONSTANTS
    None = None
    Error = Error
    h1 = h1
    h2 = h2
    h3 = h3
    c1 = c1
    c2 = c2
    c3 = c3
    Callers <- MCCallers
    Hosts <- MCHosts
    DNS <- MCDNS
    Lists <- MCLists
    TTLs = {0, 1}
    MaxEntries = 2
    MaxTime = 2
INVARIANTS
    CacheBounded
    LeanLookups
    AcceptedIsVetted
PROPERTIES
    EvictsExpiredFirst
    ResolveEnds
    AnswersFresh
