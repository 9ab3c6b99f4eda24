SPECIFICATION Spec
CONSTANTS
    InMax = 2
    OutMax = 2
    QueueMax = 1
    Mqtt5 = FALSE
    MaySlow = TRUE
    InKinds <- LargeQos2
    MaxMid = 4
    Window = 4
    MaxMsgs = 3
    MaxBreaks = 1
INVARIANTS
    NothingLost
CHECK_DEADLOCK FALSE
