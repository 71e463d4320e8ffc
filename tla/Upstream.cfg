SPECIFICATION FairSpec
CONSTANTS
    Calls = {c1, c2, c3}
    Probes = {p1, p2}
    Threshold = 2
    MaxRequests = 1
    Interval = 0
    OpenFor = 1
    Unlimited = Unlimited
    RateLimits = {0, Unlimited}
    RequestTimeout = 1
    ReadyTimeout = 1
    MaxTime = 3
INVARIANTS
    RatePaced
PROPERTIES
    OpensOnFailures
    HalfOpenLeaves
    CallsReturn
