SPECIFICATION MCSpec
CONSTANTS
    InflightMax = 2
    QueueMax = 2
    QueueQos0 = FALSE
    StoreTimeout = 1
    SlowLimit = 1
    MaxMid = 6
    PublishKinds <- PlainKinds
    RetainedKinds <- NoKinds
    ClientRefuses = FALSE
    MaxMsgs = 5
    MaxBreaks = 2
INVARIANTS
    ExactlyOnce
    NothingVanishes
    NobodyWaits
    CountsExact
    UnsentAreLast
    StorageOldestFirst
CHECK_DEADLOCK FALSE
