SPECIFICATION FairSpec
CONSTANTS
    QueuedSteps = 3
    RefillSteps = 1
    BlendSteps = 1
    HoldSteps = 1
    RampSteps = 2
    ConfirmSteps = 1
    DelaySteps = 1
    ChunkSamples = 2
    Threshold = 1
    PredictionRows = 4
    SensorLag = 1
    MaxPredictions <- ThreeThenOne
    MaxSamples = 7
    MaxSessions = 2
INVARIANTS
    CloseCanEnd
    NeverLate
    EveryStreamIsEnded
PROPERTIES
    ClosingEnds
CHECK_DEADLOCK FALSE
