CONSTANTS
    InflightMax = 1
    QueueMax = 2
    QueueQos0 = FALSE
    StoreTimeout = 1
    SlowLimit = 1
    MaxMid = 6
    PublishKinds <- AdaptiveKinds
    RetainedKinds <- NoKinds
    ClientRefuses = FALSE
    MaxMsgs = 3
    MaxBreaks = 0
SPECIFICATION FairSpec
PROPERTIES
    SmallEventuallyDelivered
