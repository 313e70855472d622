SPECIFICATION MCSpec
CONSTANTS
    gripper = gripper
    shoulder = shoulder
    pan = pan
    leader = leader
    arm = arm
    head = head
    Joints <- OneJoint
    Groups <- OneGroup
    GroupOf <- AllInLeader
    MaxRaw = 2
    WrapLimit = 1
    Coverage <- OneStep
    Reference <- NoReference
    Faults = {"save", "unlink"}
INVARIANTS
    SavedSessionRestores
    FinalizedIsPublished
    RobotRestarts
