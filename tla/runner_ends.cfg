SPECIFICATION FairSpec
CONSTANTS
    None = None
    q1 = q1
    q2 = q2
    q3 = q3
    Requests = {q1, q2, q3}
    Leavers = {q1}
    Shapes <- MCLongShapes
    Vocab = {1}
    MaxHeld = 1
    Windows = {100}
    MultiUser = {TRUE}
    NumSlots = 2
    NumCtx = 3
    BatchSize = 2
    CachePadding = 2
    MaxInt = 100
    CanShift = TRUE
    MaxInflight = 4
PROPERTIES
    EveryoneEnds
CHECK_DEADLOCK FALSE
