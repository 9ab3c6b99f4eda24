SPECIFICATION PartSpec
CONSTANTS
    Qos = {1, 2}
    DeliveryQos = {}
    SendMax = 1
    ReceiveMax = 0
    MaxPublish = 2
    MaxDeliver = 0
    MaxBreaks = 2
    MaxPings = 0
    MaxSubscribe = 0
INVARIANTS
    PublishedAsTold
    NoStranded
    
    ConnectedIsTold
    Watched
PROPERTIES
    RetriesPaced
    Reconnects
CHECK_DEADLOCK FALSE
