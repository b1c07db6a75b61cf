SPECIFICATION Spec
CONSTANTS
    TabIds = {1, 2, 3}
    NewTab = "newtab"
    Parsed <- MCParsed
    WorkerPatterns <- MCWorkerPatterns
    QmlDemoRoutes <- MCQmlDemoRoutes
    WebPath <- MCWebPath
    AppId = "p"
    MaxOpenTabs = 2
    MaxRecentlyClosed = 1
    MaxHistoryEntries = 2
    Starts <- MCStarts
    MaxFaults = 1
    MaxEpochs = 3
CHECK_DEADLOCK FALSE
INVARIANTS
    WindowShowsTheActiveTab
    TabsAreTruthful
PROPERTIES
    SessionIsKept
