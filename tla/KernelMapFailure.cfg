SPECIFICATION Spec
CONSTANTS
    pta = pta
    hello = hello
    shared = shared
    multi = multi
    Uuid <- MCSmallUuid
    Ptas <- MCPtas
    Images <- MCSmallImages
    Early <- MCEarlyPlain
    Params <- MCParams
    CancelIds = {c1}
    MaxSessions = 2
    MaxInstances = 2
    IdMax = 2
    MaxMapped = 1
    ReeHost = FALSE
    GuestBuild = FALSE
INVARIANT
    RunningTaIsMapped
