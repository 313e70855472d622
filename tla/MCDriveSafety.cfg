SPECIFICATION DriveSpec
CONSTANTS
    Speeds <- MCSpeeds
    Publishing <- MCPublishing
    Timeout <- MCTimeout
    MaxSpeed = 2
    MaxAccel = 1
    NavigationPriority = TRUE
    QueueDepth = 1
    MaxGap = 2
    MaxClears = 1
INVARIANTS
    StopHolds
    NoRevivedCommand
    DeadMan
PROPERTIES
    SmoothOutput
