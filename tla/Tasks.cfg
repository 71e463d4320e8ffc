SPECIFICATION FairSpec
CONSTANTS
    None = None
    k1 = k1
    k2 = k2
    i1 = i1
    e1 = e1
    e2 = e2
    Requests = {r1}
    Keys <- MCKeys
    IdemKeys <- MCIdemKeys
    Engines <- MCEngines
    Kinds <- MCTwoKinds
    MaxFiles = 1
    ResultTTL = 1
    Retention = 2
    MaxRetry = 1
    MaxTime = 2
    Inputs <- WorkInputs
    DefaultEngine = e1
    HTTPSources = {}
    MaxBlobBytes = 0
    MaxTotalBytes = 0
    Workers = {w1, w2}
    WorkerEngines = {e1}
    MaxRequeues = 1
    Readers = {d1}
INVARIANTS
    OneWorkerPerTask
    CompletedPair
    ReadIsolation
    FreshResultTyped
    SuccessIsFinal
PROPERTIES
    ResultFrozen
    AcceptedSettles
