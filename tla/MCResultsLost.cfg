SPECIFICATION Spec
CONSTANTS
    scan = scan
    other = other
    Writers = {scan, other}
    Digests = {1}
    Fanout <- MCFanout
    States = {1, 2}
    Plans <- MCPlans
    Seen <- MCSeen
    Baselines <- MCBaselines
    MaxEvents = 4
CHECK_DEADLOCK FALSE
INVARIANT OkIsNeverLost
