SPECIFICATION Spec
CONSTANTS
    NumUnits = 3
    NumHosts = 2
    UnitHost <- MCUnitHost
    AllowSets <- MCNarrowed
    Scopes = {"ok", "expired"}
    Modes = {"syn"}
    MaxPackets = 7
    Concurrency = 1
    Workers = 1
    FlushBatch = 1
    MaxEvents = 2
    ProgressEvery = 1
    Candidates = 1
    KeepEvidence = TRUE
    Inventory = TRUE
    DiscoveryCost = 2
    MaxRuns = 2
    MaxCrashes = 1
INVARIANT CitedEvidenceStored
INVARIANT StartedOnceAndFirst
INVARIANT StatusBackedByLog
INVARIANT EmissionWithinBudget
PROPERTY ScopeRespected
PROPERTY LogAppendOnly
CHECK_DEADLOCK FALSE
