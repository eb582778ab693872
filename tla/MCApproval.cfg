SPECIFICATION Spec
CONSTANTS
    AddressBits = 4
    MaxPort = 3
    Reserved = {0, 15}
    MAX_TARGETS = 4
    Handlers = {h1, h2}
    Principals = {alice}
    wide = wide
    respelled = respelled
    narrow = narrow
    large = large
    version6 = version6
    broad = broad
    edited = edited
    Requests <- MCRequests
    Arguments <- MCArguments
    Manifests <- MCManifests
    Document <- MCDocument
    Threshold = 2
    Ttl = 2
    MaxClock = 2
    MaxIssued = 2
    MaxBoots = 2
SYMMETRY symmetry
INVARIANT TypeOK
INVARIANT OneUseBeforeExpiry
INVARIANT WideScansApproved
INVARIANT RecordedPlansLawful
