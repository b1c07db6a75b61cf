\* Two callers retire at the same time, one of them retries; three threads let
\* a retry start while the thread before it still reports.  Or a Host with one
\* more client: the handoff and the client's cleanup are the two tickets.
CONSTANTS
    Callers = {gui, lifecycle, launcher}
    Retriers = {gui}
    Gui = gui
    Lifecycle = lifecycle
    Threads = {r1, r2, r3}
    MaxTickets = 2
    MaxRetries = 1
    MaxStartFailures = 1
    MaximumPendingOperations = 1
    MaxOperations = 3
    MaxIncidents = 2
SPECIFICATION HostFairSpec
\* main returns from a clean shutdown and the process ends.
CHECK_DEADLOCK FALSE
INVARIANTS
    RetirementIsOrderly
    HostEndsCleanly
PROPERTIES
    EverythingIsReported
