SPECIFICATION Spec
CONSTANTS
    None = None
    Torn = Torn
    p1 = p1
    p2 = p2
    a = a
    b = b
    Procs = {p1, p2}
    Names = {1, 2}
    Layers = {a, b}
    NoPrune = FALSE
    MaxOps = 3
    MaxFaults = 2
    MaxCrashes = 1
CONSTRAINT UntilRaced
SYMMETRY Symmetry
INVARIANTS
    TypeOK
    LostOnlyByRace
    WrongOnlyIfAbandoned
CHECK_DEADLOCK FALSE
