SPECIFICATION MCSpec
CONSTANTS
    Keys = {"color", "depth"}
    Turns = 2
    Pans = 2
    Distances = {1, 2}
    Streams = {"color", "depth"}
    SyncTolerance = 1
    MaxSensorAge = 1
    SensorTimeout = 2
    VlmTimeout = 3
    ClassicalTimeout = 2
    TfHistory = 4
    Utterances <- Says
    LoopFaults = TRUE
    Standoffs = 3
    PoseTimeout = 2
    HoldFor = 2
INVARIANTS
    SensesAreCurrent
    NothingIsLeftBehind
PROPERTIES
    VerdictIsTruthful
    EveryoneComesBack
CHECK_DEADLOCK FALSE
