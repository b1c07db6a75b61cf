\* One write in progress and two behind it, the fourth refused until there is
\* room; one waits in writeAll, one has a gate.
CONSTANTS
    Operations = {w1, w2, w3, w4}
    Synchronous = {w3}
    Gated = {w2}
    NoOperation = NoOperation
    MaxPending = 3
SPECIFICATION FairPipeSpec
\* A closed transport does nothing more.
CHECK_DEADLOCK FALSE
INVARIANTS
    WritesAreAccountedFor
PROPERTIES
    SettledIsFinal
    CloseReturns
