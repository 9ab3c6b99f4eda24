SPECIFICATION Spec
CONSTANTS
    Clients = {"c", "d"}
    Connects <- PlainConnects
    Publications <- SomeMessages
    InflightMax = 1
    MaySlow = FALSE
    MayShare = {FALSE}
    FullAt = {"store"}
    OldVersions = {3, 6}
    MaxMsgs = 4
    MaxOps = 3
    MaxStarts = 2
    Horizon = 2
INVARIANTS
    
    RefsExact
    
    DumpAgrees
CHECK_DEADLOCK FALSE
