SPECIFICATION Spec
CONSTANTS
    None = None
    q1 = q1
    q2 = q2
    q3 = q3
    Requests = {q1, q2}
    Leavers = {}
    Shapes <- MCShapes
    Vocab = {1}
    MaxHeld = 1
    Windows = {1, 100}
    MultiUser = {FALSE, TRUE}
    NumSlots = 2
    NumCtx = 3
    BatchSize = 2
    CachePadding = 2
    MaxInt = 100
    CanShift = TRUE
    MaxInflight = 4
INVARIANTS
    TokensResolved
CHECK_DEADLOCK FALSE
