SPECIFICATION FairSpec
CONSTANTS
    cup = cup
    walk = walk
    Episodes <- TwoEpisodes
    Pick <- OnlyCup
    DryRun <- OnlyWalk
    MaxSamples = 3
    MaxFaults = 2
INVARIANTS
    EndLeavesNothing
    OutcomeMatchesFiles
    NobodyElseMovesTheArms
PROPERTIES
    PublishedForGood
    GoalEnds
