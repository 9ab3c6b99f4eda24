SPECIFICATION MCSpec
CONSTANTS
    SlowLimit = 5
    InitialLat = 7
    Thresholds = {0, 1}
    Steps = {5}
    MaxTime = 26
    MaxSamples = 7
    MaxUnacked = 2
    MaxConnects = 2
INVARIANTS
    ThresholdIsRecentMean
    
    HeldOnlyWithinLimit
    StreamsIntact
    Utf8Exact
PROPERTIES
    ModeFollowsMean
CHECK_DEADLOCK FALSE
