SPECIFICATION FairSpec
CONSTANTS
    None = None
    Torn = Torn
    c1 = c1
    c2 = c2
    Clients = {c1, c2}
    NumParts = 2
    Size <- MCSize
    MaxTries = 2
    MaxFaults = 0
    MaxCrashes = 0
    NoPrune = {TRUE, FALSE}
    PrepareFails = TRUE
PROPERTIES
    JoinedReturns
CHECK_DEADLOCK FALSE
