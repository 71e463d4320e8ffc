SPECIFICATION FairSpec
CONSTANTS
    Canon <- MCCanon
    ToLower <- MCToLower
    ValidHeaders = {"X-Token", "x-token", "Authorization", "X-Api-Key"}
    ValidNames = {"e1", "e2"}
    DefaultTimeout = 3
    Slack = 2
    Starts <- MCStarts
    Requests = {r1, r2}
    DefaultGrace = 2
    WorkerDrain = 2
    StopBy = 1
    MaxTime = 5
INVARIANTS
    TypeOK
    OrderlyStop
    PartsAgree
    TasksKeepStore
PROPERTIES
    StopEnds
