SPECIFICATION FairSpec
CONSTANTS
    first = first
    second = second
    trial = trial
    Sessions <- AllGoals
    DryRuns <- OnlyTrial
    Limits <- TwoSessionsOrOneStream
INVARIANTS
    OneSession
    StreamIsWhole
PROPERTIES
    NormalModeAfterSession
    SessionEnds
CHECK_DEADLOCK FALSE
