SPECIFICATION FairSpec
CONSTANTS
    pta = pta
    hello = hello
    shared = shared
    multi = multi
    Uuid <- MCSmallUuid
    Ptas <- MCPtas
    Images <- MCSmallImages
    Early <- MCEarlyPlain
    Params <- MCSmallParams
    CancelIds = {c1, c2}
    MaxSessions = 2
    MaxInstances = 2
    IdMax = 3
    MaxMapped = 1
    ReeHost = FALSE
    GuestBuild = FALSE
PROPERTIES
    CallsReturn
    LoadsEnd
    CancelledLoadHasNoEffect
    ImplementsService
