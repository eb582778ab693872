SPECIFICATION Spec
CONSTANTS
    host = host
    denied = denied
    loopback = loopback
    v6 = v6
    Targets <- MCTargets
    Reserved <- MCReserved
    Version6 <- MCVersion6
    Manifest <- MCManifest
    Scopes <- MCScopes
    FirstCounter = 7
    Span = 2
    MaxReplies = 2
    MaxId = 3
    MaxStray = 2
INVARIANT TypeOK
INVARIANT EmissionAuthorised
INVARIANT AnswersAreTheirOwn
PROPERTY ProbesEnd
PROPERTY DropEnds
CHECK_DEADLOCK FALSE
