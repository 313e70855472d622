------------------------- MODULE MCServoCalibration -------------------------
(***************************************************************************)
(* A leader arm, one group of one joint, whose files may fail; and, never  *)
(* at the same time, a robot with an arm and a head, whose files do not.   *)
(* Ranges of MaxRaw 2 with WrapLimit 1 have samples that are too far apart.*)
(***************************************************************************)
EXTENDS ServoCalibration

CONSTANTS gripper, shoulder, pan, leader, arm, head

OneJoint == {gripper}
OneGroup == {leader}
AllInLeader == [j \in Joints |-> leader]
OneStep == [j \in Joints |-> 1]
NoReference == [j \in Joints |-> None]

VARIABLES part, robotMode, robotSession, robotReleased, robotSaveError,
          robotSaved, robotResult, robotLinked

robotVars == <<robotMode, robotSession, robotReleased, robotSaveError,
               robotSaved, robotResult, robotLinked>>

Robot == INSTANCE ServoCalibration WITH
    Joints <- {shoulder, pan}, Groups <- {arm, head},
    GroupOf <- [j \in {shoulder, pan} |-> IF j = pan THEN head ELSE arm],
    MaxRaw <- 2, WrapLimit <- 1, Coverage <- [j \in {shoulder, pan} |-> 1],
    Reference <- [j \in {shoulder, pan} |-> 0], Faults <- {},
    mode <- robotMode, session <- robotSession, released <- robotReleased,
    saveError <- robotSaveError, saved <- robotSaved, result <- robotResult,
    linked <- robotLinked

MCInit == part \in {"leader", "robot"} /\ Init /\ Robot!Init

MCNext ==
    /\ UNCHANGED part
    /\ \/ part = "leader" /\ Next /\ UNCHANGED robotVars
       \/ part = "robot" /\ Robot!Next /\ UNCHANGED vars

MCSpec == MCInit /\ [][MCNext]_<<part, vars, robotVars>>

(* The leader alone.                                                       *)
LeaderSpec == MCInit /\ part = "leader" /\ [][MCNext]_<<part, vars, robotVars>>

(* The server of the robot, whose saves succeed, starts again on its files *)
(* wherever it stopped or died.                                            *)
RobotRestarts == Robot!RestartRecovers

=============================================================================
