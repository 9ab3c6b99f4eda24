CONSTANTS
    InflightMax = 2
    QueueMax = 2
    QueueQos0 = FALSE
    StoreTimeout = 1
    SlowLimit = 1
    MaxMid = 6
    PublishKinds <- AdaptiveKinds
    RetainedKinds <- NoKinds
    ClientRefuses = FALSE
    MaxMsgs = 4
    MaxBreaks = 1
SPECIFICATION Spec
INVARIANTS
    NoSilentLoss
