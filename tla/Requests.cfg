SPECIFICATION FairSpec
CONSTANTS
    e1 = e1
    e2 = e2
    redis = redis
    r1 = r1
    r2 = r2
    ProbeOrder <- MCProbeOrder
    Throttled = {e1}
    RequiredSets <- MCRequiredSets
    Limits = {2, 3}
    Requests = {r1, r2}
    Arrivals <- MCArrivals
    Settings <- MCSettings
    Burst = 1
    Statuses = {200, 422}
INVARIANTS
    LogTellsTruth
    ReadinessTellsTruth
PROPERTIES
    RequestsEnd
