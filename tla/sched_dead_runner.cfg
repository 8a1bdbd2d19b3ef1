SPECIFICATION Spec
CONSTANTS
    r1 = r1
    r2 = r2
    r3 = r3
    None = None
    Requests = {r1, r2}
    Leavers = {r1, r2}
    Keys = {1, 2}
    MLXKeys = {}
    Opts = {1}
    KeepAlives = {1}
    DefaultKeepAlive = 1
    Forever = 2
    MaxQueue = 6
    ConfiguredMax = 1
    ModelsPerGPU = 3
    GPUs = 1
    RefMax = 4
    PingFails = FALSE
    StartFails = FALSE
    LoadOutcomes = {"ok"}
    WaitFails = FALSE
    Deletable = {}
    MaxStops = 0
    CanShutDown = FALSE
SYMMETRY RequestSymmetry
INVARIANTS
    UsedRunnerIsLoaded
CHECK_DEADLOCK FALSE
