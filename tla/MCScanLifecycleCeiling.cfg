SPECIFICATION Spec
CONSTANTS
    NoProc = NoProc
    Procs = {p1, p2}
    NumUnits = 3
    MaxPackets = 2
    OpenMayFail = FALSE
    MaxOps = 3
    MaxCrashes = 0
INVARIANT CeilingHolds
CHECK_DEADLOCK FALSE
