---------------------------- MODULE PoseServers ----------------------------
(***************************************************************************)
(* The two programs that take joints to a stored pose, one trajectory at a *)
(* time: xlerobot_manipulation/src/maintenance_preset_server.cpp, an       *)
(* action for the operator, and startup_ready_pose.cpp, which moves head,  *)
(* right arm and gripper once when the robot is started.                   *)
(*                                                                         *)
(* The preset runs in a thread of its own, which nothing catches for: to   *)
(* ask a trajectory to stop whose result has just come in throws, and the  *)
(* process ends.  The startup pose takes results in its only thread, while *)
(* it waits for them, and cannot meet that.                                *)
(*                                                                         *)
(* Controllers and joint states are external.                              *)
(***************************************************************************)
EXTENDS Naturals, Sequences

VARIABLES
    preset,     \* the preset server
    ready       \* the startup pose

NotMoving == {"none", "rejected", "succeeded", "failed"}
NoTrajectory == [state |-> "none", asked |-> FALSE]
Sent == [state |-> "sent", asked |-> FALSE]

(* A trajectory whose end was not seen may go on.                          *)
LeftMoving(trajectory, seen) ==
    IF trajectory.state \in NotMoving THEN {}
    ELSE {[asked |-> trajectory.asked, seen |-> seen]}

InitPreset ==
    preset = [pc         |-> "idle",    \* "dead": the process has ended
              canceling  |-> FALSE,
              trajectory |-> NoTrajectory,
              adrift     |-> {},
              told       |-> "none"]

InitReady ==
    ready = [pc         |-> "off",
             legs       |-> << >>,
             trajectory |-> NoTrajectory,
             adrift     |-> {},
             status     |-> "WARN"]

-----------------------------------------------------------------------------
EndPreset(told) ==
    preset' = [preset EXCEPT !.pc = "idle", !.told = told, !.trajectory = NoTrajectory,
                 !.adrift = LeftMoving(preset.trajectory, preset.pc # "response")]

(* busy_ refuses a second goal.                                            *)
StartPreset ==
    /\ preset.pc = "idle"
    /\ preset' = [preset EXCEPT !.pc = "start", !.canceling = FALSE,
                                !.told = "none", !.adrift = {}]

CancelPreset ==
    /\ preset.pc \notin {"idle", "dead"}
    /\ preset' = [preset EXCEPT !.canceling = TRUE]

(* A dry run; or execution disabled, or no controller; or canceled before  *)
(* anything moved.                                                         *)
SendPreset ==
    /\ preset.pc = "start"
    /\ \/ \E told \in {"succeeded", "aborted"} : EndPreset(told)
       \/ preset.canceling /\ EndPreset("canceled")
       \/ /\ ~preset.canceling
          /\ preset' = [preset EXCEPT !.pc = "response", !.trajectory = Sent]

(* The response is waited for whether or not the goal is canceled; one     *)
(* that is late has nobody to take it.                                     *)
AwaitPresetResponse ==
    /\ preset.pc = "response"
    /\ \/ EndPreset("aborted")
       \/ /\ preset.trajectory.state = "live"
          /\ preset' = [preset EXCEPT !.pc = "result"]

(* The result, or a cancellation, or the deadline.                         *)
AwaitPresetResult ==
    /\ preset.pc = "result"
    /\ \/ preset.trajectory.state = "succeeded" /\ EndPreset("succeeded")
       \/ preset.trajectory.state = "failed" /\ EndPreset("aborted")
       \/ preset.trajectory.state = "live" /\ preset' = [preset EXCEPT !.pc = "ask"]

(* What is not there at the deadline, or when the goal is canceling, is    *)
(* asked to stop; it may have come in meanwhile.                           *)
AskPreset ==
    /\ preset.pc = "ask"
    /\ IF preset.trajectory.state \in NotMoving
       THEN preset' = [preset EXCEPT !.pc = "dead"]
       ELSE \E told \in {"aborted"} \cup IF preset.canceling THEN {"canceled"} ELSE {} :
              preset' = [preset EXCEPT !.pc = "idle", !.trajectory = NoTrajectory,
                           !.told = told,
                           !.adrift = {[asked |-> TRUE, seen |-> TRUE]}]

PresetStep == SendPreset \/ AwaitPresetResponse \/ AwaitPresetResult \/ AskPreset

-----------------------------------------------------------------------------
EndReady(status) ==
    ready' = [ready EXCEPT !.pc = "done", !.status = status,
                !.trajectory = NoTrajectory,
                !.adrift = LeftMoving(ready.trajectory, ready.pc # "response")]

StartReady == ready.pc = "off" /\ ready' = [ready EXCEPT !.pc = "joints"]

(* initialize: disabled, or no joint states in time; head only for         *)
(* collection.                                                             *)
AwaitJoints ==
    /\ ready.pc = "joints"
    /\ \/ \E status \in {"OK", "ERROR"} : EndReady(status)
       \/ \E legs \in {<<"head">>, <<"head", "arm", "gripper">>} :
            ready' = [ready EXCEPT !.pc = "leg", !.legs = legs]

LegDone ==
    IF Len(ready.legs) = 1 THEN EndReady("OK")
    ELSE ready' = [ready EXCEPT !.pc = "leg", !.legs = Tail(@)]

(* move_if_needed: there already, or no controller, or a trajectory.       *)
SendReadyLeg ==
    /\ ready.pc = "leg"
    /\ \/ LegDone \/ EndReady("ERROR")
       \/ ready' = [ready EXCEPT !.pc = "response", !.trajectory = Sent]

AwaitReadyResponse ==
    /\ ready.pc = "response"
    /\ \/ EndReady("ERROR")
       \/ /\ ready.trajectory.state = "live"
          /\ ready' = [ready EXCEPT !.pc = "result"]

AwaitReadyResult ==
    /\ ready.pc = "result"
    /\ \/ /\ ready.trajectory.state = "succeeded"
          /\ ready' = [ready EXCEPT !.pc = "arrive"]
       \/ ready.trajectory.state = "failed" /\ EndReady("ERROR")
       \/ ready' = [ready EXCEPT !.pc = "done", !.status = "ERROR",
                      !.trajectory = NoTrajectory,
                      !.adrift = LeftMoving([ready.trajectory EXCEPT !.asked = TRUE], TRUE)]

(* Two seconds for the measured joints to be at the target.                *)
AwaitArrivalAtPose ==
    /\ ready.pc = "arrive"
    /\ LegDone \/ EndReady("ERROR")

ReadyStep ==
    \/ AwaitJoints \/ SendReadyLeg \/ AwaitReadyResponse \/ AwaitReadyResult
    \/ AwaitArrivalAtPose

-----------------------------------------------------------------------------
(* The controllers (external): a result is asked for after the response.   *)
Controlled(p) ==
    {[p EXCEPT !.adrift = @ \ {t}] : t \in p.adrift} \cup
    CASE p.trajectory.state = "sent" ->
           {[p EXCEPT !.trajectory.state = s] : s \in {"live", "rejected"}}
      [] p.trajectory.state = "live" /\ p.pc # "response" ->
           {[p EXCEPT !.trajectory.state = s] : s \in {"succeeded", "failed"}}
      [] OTHER -> {}

NextPreset ==
    StartPreset \/ CancelPreset \/ PresetStep \/ preset' \in Controlled(preset)

NextReady == StartReady \/ ReadyStep \/ ready' \in Controlled(ready)

PoseFairness == WF_preset(PresetStep) /\ WF_ready(ReadyStep)

-----------------------------------------------------------------------------
(* The joints of the next leg move only when those of the leg before have  *)
(* come to their end, and the robot is called ready, or a preset reached,  *)
(* only when nothing moves any more; a trajectory that was known to run    *)
(* and was given up has been asked to stop, and a process that died leaves *)
(* none.  (One that was given up before it was accepted is the exception.) *)
PosesAreMinded ==
    /\ ready.pc \in {"leg", "arrive"} => ready.trajectory.state \in NotMoving
    /\ ready.status = "OK" => ready.adrift = {}
    /\ preset.told = "succeeded" => preset.adrift = {}
    /\ preset.pc \in {"start", "dead"} => preset.trajectory.state \in NotMoving
    /\ \A t \in ready.adrift \cup preset.adrift : t.seen => t.asked

PosesAreOver == preset.pc \in {"idle", "dead"} /\ ready.pc \in {"off", "done"}

=============================================================================
