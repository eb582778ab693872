SPECIFICATION Spec
CONSTANTS
    Procs = {p1, p2, p3}
    Keys = {k1, k2}
    Plans = {x, y}
    ScanIds = {s1, s2, s3}
    NoScan = NoScan
SYMMETRY Symmetry
INVARIANT TypeOK
INVARIANT OneScanPerKey
PROPERTY ImplementsPromise
CHECK_DEADLOCK FALSE
