SPECIFICATION FairSpec
CONSTANTS
    Slots = {1, 2, 3}
    Ids = {"x", "y"}
    Scenarios <- BothScenarios
    Never = 9
    GlobalExpiry = 0
    MaxConnections = 2
    KickOffline = FALSE
INVARIANTS
    
    WillFate
PROPERTIES
    
    SessionsEnd
CHECK_DEADLOCK FALSE
