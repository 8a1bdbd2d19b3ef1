SPECIFICATION Spec
CONSTANTS
    r1 = r1
    r2 = r2
    r3 = r3
    None = None
    Requests = {r1, r2}
    Leavers = {r1, r2}
    Keys = {1, 2}
    MLXKeys = {}
    Opts <- MCOpts
    KeepAlives = {0}
    DefaultKeepAlive = 1
    Forever = 2
    MaxQueue = 1
    ConfiguredMax = 0
    ModelsPerGPU = 1
    GPUs = 2
    RefMax = 4
    PingFails = TRUE
    StartFails = TRUE
    LoadOutcomes = {"ok", "full", "err"}
    WaitFails = TRUE
    Deletable = {1}
    MaxStops = 1
    CanShutDown = FALSE
SYMMETRY RequestSymmetry
INVARIANTS
    TypeOK
    LoadedIsAlive
    NoStrandedProcess
    ActiveLoadingIsPending
    RefCountExact
    AtMostOneAnswer
PROPERTIES
    NeverOverwritten
    DeletesOnlyUnloaded
CHECK_DEADLOCK FALSE
