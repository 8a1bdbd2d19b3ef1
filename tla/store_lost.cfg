SPECIFICATION Spec
CONSTANTS
    None = None
    Torn = Torn
    p1 = p1
    p2 = p2
    a = a
    b = b
    Procs = {p1, p2}
    Names = {1, 2}
    Layers = {a, b}
    NoPrune = FALSE
    MaxOps = 2
    MaxFaults = 0
    MaxCrashes = 0
SYMMETRY Symmetry
INVARIANT LayersExist
CHECK_DEADLOCK FALSE
