SPECIFICATION FairSpec
CONSTANTS
    dry = dry
    live = live
    Goals <- OneGoal
    Pipeline <- FullPipeline
    LiveGoals <- LiveOnly
    SpeechEnabled = TRUE
    SendFaults = TRUE
    ResultFaults = TRUE
INVARIANTS
    StagesInOrder
    OutcomeIsTruthful
PROPERTIES
    GoalEndsOrBlocks
    GoalEndsIfChildrenCooperate
