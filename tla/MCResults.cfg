SPECIFICATION Spec
CONSTANTS
    scan = scan
    other = other
    Writers = {scan, other}
    Digests = {1}
    Fanout <- MCFanout
    States = {1, 2}
    Plans <- MCPlans
    Seen <- MCSeen
    Baselines <- MCBaselines
    MaxEvents = 4
INVARIANT FoldIsBelief
INVARIANT DiffInventsNothing
INVARIANT EvidenceServed
CHECK_DEADLOCK FALSE
