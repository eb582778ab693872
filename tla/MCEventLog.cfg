SPECIFICATION Spec
CONSTANTS
    NoHandle = NoHandle
    Handles = {h1, h2}
    Readers = {r1}
    GroupSize = 2
    PageSize = 2
    Kinds = {"durable", "group"}
    MaxAppends = 4
    MaxCrashes = 1
SYMMETRY Symmetry
INVARIANT TypeOK
INVARIANT GapFree
INVARIANT IndexCurrent
INVARIANT AckedSurvives
INVARIANT ReaderSeesPrefix
PROPERTY AppendOnly
CHECK_DEADLOCK FALSE
