SPECIFICATION FairSpec
CONSTANTS
    mine = mine
    voice = voice
    Goals <- OwnAndVoice
    Own <- OneOwn
    Content <- AllDiffer
    Requests <- TasksOrManual
    MaxLate = 1
    Faults = TRUE
INVARIANTS
    ManualExcludesTask
    OwnGoalIsTracked
PROPERTIES
    HaltDrainsEverything
    OwnTaskEnds
CHECK_DEADLOCK FALSE
