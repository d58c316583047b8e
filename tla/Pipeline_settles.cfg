SPECIFICATION FairSpec
CONSTANTS
    Vehicles = {1}
    Levels = {1}
    Threshold = 1
    FullBattery = 2
    LostAfter = 1
    Capacity = 1
    BatchSize = 1
    MaxFrames = 2
    MaxFailures = 1
    MaxTime = 2
    None = None
INVARIANTS
    FramesAccounted
    DropsShownOrComing
    TypeOK
    LostHasAlert
PROPERTIES
    StoreSettles
    SilenceReachesGraph
    LostShowsRevision
CHECK_DEADLOCK FALSE
