CONSTANTS
    TabIds = {1, 2}
    MaxIncarnation = 1
    v1 = v1
    v2 = v2
    site = site
    Versions = {v1, v2}
    NoVersion = NoVersion
    MaxGeneration = 9
    Sites = {}
    HealthWindow = 1
    HeartbeatTimeout = 1
    IdMax = 20
    DrainTimeout = 1
    Plans <- TabPlans
    MaxDelay = 0
    MaxRequests = 2
SPECIFICATION Spec
\* A coordinator that shut down does nothing more.
CHECK_DEADLOCK FALSE
INVARIANTS
    AuthorityIsLive
    RollbackIsFenced
    StaleEventsAreHarmless
