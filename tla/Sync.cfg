SPECIFICATION FairSpec
CONSTANTS
    Requests <- MCRequests
    MaxFiles = 2
    Threshold = 1
INVARIANTS
    TypeOK
    CleanSendIsWhole
    OkMeansWhole
    NothingHeld
    SpoolExact
PROPERTIES
    CallsAnswered
    ProducersUnwind
