SPECIFICATION Spec
CONSTANTS
    Vehicles = {1}
    Levels = {}
    Threshold = 1
    FullBattery = 2
    LostAfter = 1
    Capacity = 2
    BatchSize = 2
    MaxFrames = 2
    MaxFailures = 0
    MaxTime = 3
    None = None
PROPERTY SilenceIsTheSignal
CHECK_DEADLOCK FALSE
