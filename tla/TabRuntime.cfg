SPECIFICATION Spec
CONSTANTS
    Requests = {1, 2}
    MaxIncidents = 2
    MaxAttempts = 1
CHECK_DEADLOCK FALSE
INVARIANTS
    WorkerIsOneAndConfined
    NothingLeaks
    RetiredMeansGone
    NothingIsStuck
