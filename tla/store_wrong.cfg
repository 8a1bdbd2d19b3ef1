SPECIFICATION Spec
CONSTANTS
    None = None
    Torn = Torn
    p1 = p1
    p2 = p2
    a = a
    b = b
    Procs = {p1}
    Names = {1}
    Layers = {a, b}
    NoPrune = FALSE
    MaxOps = 2
    MaxFaults = 2
    MaxCrashes = 0
SYMMETRY Symmetry
INVARIANT WrongDownloadedAgain
CHECK_DEADLOCK FALSE
