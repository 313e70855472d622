SPECIFICATION Spec
CONSTANTS
    dry = dry
    live = live
    Goals <- TwoGoals
    Pipeline <- ShortPipeline
    LiveGoals <- LiveOnly
    SpeechEnabled = TRUE
    SendFaults = TRUE
    ResultFaults = TRUE
INVARIANTS
    ParentOutlivesChild
    SingleOwner
PROPERTIES
    AcceptedWithStopClear
    RefinesLifecycle
