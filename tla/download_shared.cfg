SPECIFICATION FairSpec
CONSTANTS
    None = None
    Torn = Torn
    c1 = c1
    c2 = c2
    Clients = {c1, c2}
    NumParts = 2
    Size <- MCSize
    MaxTries = 2
    MaxFaults = 1
    MaxCrashes = 1
    NoPrune = {TRUE, FALSE}
    PrepareFails = TRUE
INVARIANTS
    TypeOK
    SingleWriter
    PartFilesTruthful
    ReferencesExact
    CancelSetByRun
PROPERTY
    RenamedWhole
    ImplementsSharedTransfer
    PreparedAnswers
CHECK_DEADLOCK FALSE
