CONSTANTS
    TabIds = {1}
    MaxIncarnation = 2
    v1 = v1
    v2 = v2
    site = site
    Versions = {v1, v2}
    NoVersion = NoVersion
    MaxGeneration = 9
    Sites = {site}
    HealthWindow = 1
    HeartbeatTimeout = 1
    IdMax = 20
    DrainTimeout = 1
    Plans <- OneTabPlans
    MaxDelay = 0
    MaxRequests = 2
SPECIFICATION FairSpec
\* A coordinator that shut down does nothing more.
CHECK_DEADLOCK FALSE
INVARIANTS
    AuthorityIsLive
PROPERTIES
    StepsAreEarned
    DrainResolves
