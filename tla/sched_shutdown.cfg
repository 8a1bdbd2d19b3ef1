SPECIFICATION MixedSpec
CONSTANTS
    r1 = r1
    r2 = r2
    r3 = r3
    None = None
    Requests = {r1, r2}
    Leavers = {}
    Keys = {1, 2}
    MLXKeys = {2}
    Opts = {1}
    KeepAlives = {1}
    DefaultKeepAlive = 1
    Forever = 2
    MaxQueue = 6
    ConfiguredMax = 2
    ModelsPerGPU = 3
    GPUs = 1
    RefMax = 4
    PingFails = FALSE
    StartFails = TRUE
    LoadOutcomes = {"ok", "full"}
    WaitFails = FALSE
    Deletable = {}
    MaxStops = 0
    CanShutDown = TRUE
INVARIANTS
    OneOwner
PROPERTIES
    SchedulerStops
CHECK_DEADLOCK FALSE
