SPECIFICATION Spec
CONSTANTS
    None = None
    k1 = k1
    k2 = k2
    i1 = i1
    e1 = e1
    e2 = e2
    Requests = {r1, r2}
    Keys <- MCOneKey
    IdemKeys <- MCIdemKeys
    Engines <- MCOneEngine
    Kinds <- MCOneKind
    MaxFiles = 0
    ResultTTL = 1
    Retention = 2
    MaxRetry = 0
    MaxTime = 0
    Inputs <- DedupeOneCaller
    DefaultEngine = e1
    HTTPSources = {}
    MaxBlobBytes = 0
    MaxTotalBytes = 0
    Workers = {w1}
    WorkerEngines = {e1}
    MaxRequeues = 0
    Readers = {}
INVARIANT
    WorkRunsOnce
