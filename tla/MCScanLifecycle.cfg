SPECIFICATION FairSpec
CONSTANTS
    NoProc = NoProc
    Procs = {p1, p2}
    NumUnits = 2
    MaxPackets = 3
    OpenMayFail = TRUE
    MaxOps = 4
    MaxCrashes = 1
INVARIANT TypeOK
INVARIANT OneRunAtATime
PROPERTY AcquireFirst
PROPERTY CancelEndsRun
CHECK_DEADLOCK FALSE
