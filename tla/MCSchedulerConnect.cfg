SPECIFICATION Spec
CONSTANTS
    NumUnits = 3
    NumHosts = 1
    UnitHost <- MCUnitHost
    AllowSets <- MCAllHosts
    Scopes = {"ok"}
    Modes = {"connect"}
    MaxPackets = 4
    Concurrency = 2
    Workers = 1
    FlushBatch = 2
    MaxEvents = 2
    ProgressEvery = 2
    Candidates = 1
    KeepEvidence = FALSE
    Inventory = FALSE
    DiscoveryCost = 0
    MaxRuns = 2
    MaxCrashes = 1
INVARIANT TypeOK
INVARIANT DoneIsDurable
INVARIANT CompletedCoversPlan
INVARIANT TerminalIsLast
INVARIANT ReprobedOnlyAfterCrash
INVARIANT CancelStartsNothingNew
PROPERTY DoneNeverReprobed
CHECK_DEADLOCK FALSE
