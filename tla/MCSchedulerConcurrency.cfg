SPECIFICATION FairSpec
CONSTANTS
    NumUnits = 5
    NumHosts = 1
    UnitHost <- MCUnitHost
    AllowSets <- MCAllHosts
    Scopes = {"ok"}
    Modes = {"connect"}
    MaxPackets = 5
    Concurrency = 2
    Workers = 1
    FlushBatch = 1
    MaxEvents = 1
    ProgressEvery = 9
    Candidates = 0
    KeepEvidence = FALSE
    Inventory = FALSE
    DiscoveryCost = 0
    MaxRuns = 2
    MaxCrashes = 0
INVARIANT CrashLossBounded
PROPERTY RunsEnd
CHECK_DEADLOCK FALSE
