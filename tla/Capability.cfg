SPECIFICATION CapabilitySpec
CONSTANTS
    Tabs = {t1, t2}
    Runtimes = {a, b}
    TabOf <- MCTabOf
    NoRuntime = NoRuntime
    NoOp = NoOp
    MaxRequests = 3
    Plans <- MCPlans
    a = a
    b = b
    t1 = t1
    t2 = t2
SYMMETRY Symmetry
CHECK_DEADLOCK FALSE
INVARIANTS
    DialogAndRuntimesAreAccountedFor
    NothingIsStuck
    GesturesAreSpentOnce
