CONSTANTS
    b1 = b1
    b2 = b2
    b3 = b3
    host1 = host1
    host2 = host2
    app1 = app1
    app2 = app2
    Brokers = {b1, b2, b3}
    Apps = {app1, app2}
    Processes = {host1, host2}
    Keys = {"k", "l"}
    Values = {"v", "w"}
    AppOf <- MCAppOf
    ProcessOf <- MCProcessOf
    Root = Root
    None = None
    Absent = Absent
    Quota = 2
    MaxOperations = 2
    MaxCrashes = 1
SPECIFICATION Spec
INVARIANT AnswersAreKept
PROPERTY RefusedCreateRestores
CHECK_DEADLOCK FALSE
