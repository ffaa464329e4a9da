SPECIFICATION Spec
CONSTANTS
    pta = pta
    hello = hello
    shared = shared
    multi = multi
    Uuid <- MCUuid
    Ptas <- MCPtas
    Images <- MCImages
    Early <- MCEarly
    Params <- MCParams
    CancelIds = {c1}
    MaxSessions = 2
    MaxInstances = 2
    IdMax = 3
    MaxMapped = 1
    ReeHost = TRUE
    GuestBuild = FALSE
INVARIANTS
    TypeOK
    ReadySessionHasLiveInstance
    SessionCountExact
    OneLiveSingle
    OneSessionUnlessMulti
    RunningInstanceIsLive
    NothingHeldWhenIdle
PROPERTY
    PanicPoisonsItsInstanceOnly
