\* Two sessions, the second after or in place of the first.
CONSTANTS
    MaxQueuedCommands = 2
    Budgets <- MCBudgets
    MaxRequests = 2
SPECIFICATION FairSpec
\* A controller nobody calls any more does nothing.
CHECK_DEADLOCK FALSE
INVARIANTS
    SessionIsConsistent
PROPERTIES
    UnboundIsSilent
    SessionMovesOn
