SPECIFICATION FairSpec
CONSTANTS
    None = None
    k1 = k1
    k2 = k2
    i1 = i1
    e1 = e1
    e2 = e2
    Requests = {r1, r2}
    Keys <- MCKeys
    IdemKeys <- MCIdemKeys
    Engines <- MCEngines
    Kinds <- MCTwoKinds
    MaxFiles = 2
    ResultTTL = 1
    Retention = 2
    MaxRetry = 0
    MaxTime = 2
    Inputs <- SubmitInputs
    DefaultEngine = e1
    HTTPSources = {}
    MaxBlobBytes = 2
    MaxTotalBytes = 3
    Workers = {}
    WorkerEngines = {}
    MaxRequeues = 0
    Readers = {}
INVARIANTS
    AnswerIsMine
    NoPartialTask
    SlotKeepsToken
PROPERTY
    SubmitAnswered
