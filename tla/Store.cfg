CONSTANTS
    Versions = {v1, v2, v3}
    NoVersion = NoVersion
    MaxGeneration = 5
    Hosts = {h1, h2}
    NoHost = NoHost
    NoPackage = NoPackage
    Orphan = Orphan
    MaximumArchiveBytes = 3
    MaximumEntries = 2
    MaximumEntryBytes = 2
    MaximumTotalBytes = 3
    MaximumCompressionRatio = 2
    \* Two entries of two bytes make a sum that wraps around to zero.
    QWordMax = 3
    Plans <- AllPlans
    Packages <- PackageKinds
SPECIFICATION InstallSpec
CHECK_DEADLOCK FALSE
SYMMETRY Symmetry
INVARIANTS
    RecordIsSound
    InstallationIsSound
    ArchiveIsBounded
PROPERTIES
    SelectionIsDeliberate
    PublishedIsAuthentic
