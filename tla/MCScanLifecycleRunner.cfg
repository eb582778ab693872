SPECIFICATION Spec
CONSTANTS
    NoProc = NoProc
    Procs = {p1, p2}
    NumUnits = 2
    MaxPackets = 1
    OpenMayFail = FALSE
    MaxOps = 3
    MaxCrashes = 0
INVARIANT RunningHasRunner
CHECK_DEADLOCK FALSE
