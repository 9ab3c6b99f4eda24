SPECIFICATION MCSpec
CONSTANTS
    InMax = 2
    OutMax = 2
    QueueMax = 1
    Mqtt5 = FALSE
    MaySlow = FALSE
    InKinds <- TwoQos
    MaxMid = 4
    Window = 4
    MaxMsgs = 4
    MaxBreaks = 2
INVARIANTS
    InOrder
    RoutedOnce
PROPERTIES
    AllDelivered
    EventuallyRouted
CHECK_DEADLOCK FALSE
