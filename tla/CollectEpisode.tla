--------------------------- MODULE CollectEpisode ---------------------------
(***************************************************************************)
(* The coordinator of demonstrations: xlerobot_commissioning/              *)
(* collection_node.py, composed with the recorder.                         *)
(*                                                                         *)
(* One goal takes the leader arm, the follower arm and the recorder from   *)
(* preparation to a published episode: it runs child actions, hands the    *)
(* leader from its position controller to the operator, and calls four     *)
(* services whose answers may be lost.  Whatever fails, it releases what   *)
(* it may own and refuses further goals if it cannot be sure.  Beside the  *)
(* thread of the goal there are the services of the operator (Home, end,   *)
(* cancel, release of torque, reset) and a timer that keeps teleoperation  *)
(* alive between two episodes.                                             *)
(*                                                                         *)
(* The arms and the child actions are external.  A call of one service is  *)
(* served before a later call of the same service; a call that timed out   *)
(* may have been served, be served later, or be lost.  The leases that end *)
(* teleoperation and torque by themselves are left out: they only take     *)
(* away.                                                                   *)
(***************************************************************************)
EXTENDS EpisodeRecorder

CONSTANTS
    Pick,         \* the episodes that start with detection and preparation
    DryRun,       \* those that only walk through the phases
    MaxFaults     \* bound: calls that fail or time out

ASSUME KindsAssumption == Pick \subseteq Episodes /\ DryRun \subseteq Episodes
ASSUME FaultsAssumption == MaxFaults \in Nat

VARIABLES
    pc,           \* where the thread of the goal is
    goal,         \* the episode of that goal, or None
    cancelAsked,  \* is_cancel_requested
    beginAsked, finishAsked,      \* _begin_requested, _finish_requested
    why,          \* what ends the goal before its success
    unclean,      \* cleanup_errors is not empty
    owns,         \* what the goal may hold: teleop, torque, leader, recorder
    blocked,      \* _cleanup_blocked
    recovery,     \* where release_torque or reset is
    torqueReleased, resetReady,
    postTeleop,   \* _post_recording_teleop
    stopIdle,     \* _stop_idle_teleop_on_start
    child,        \* each child action at its server
    device,       \* what each service last put into effect
    overdue,      \* the value of a call that timed out and may yet be served
    faults,
    outcome       \* how the last goal of each episode ended

requests == <<cancelAsked, beginAsked, finishAsked>>
verdict  == <<why, unclean>>
safety   == <<blocked, recovery, torqueReleased, resetReady>>
idleTeleop == <<postTeleop, stopIdle>>
hardware == <<device, overdue, faults>>
vars == <<recorder, pc, goal, requests, verdict, owns, safety, idleTeleop,
          child, hardware, outcome>>

Services == {"teleop", "torque", "leader", "follower"}
Children == {"detect", "prepare", "align"}

Init ==
    /\ RecorderInit
    /\ pc = "idle" /\ goal = None
    /\ cancelAsked = FALSE /\ beginAsked = FALSE /\ finishAsked = FALSE
    /\ why = "none" /\ unclean = FALSE /\ owns = {}
    /\ blocked = FALSE /\ recovery = "idle"
    /\ torqueReleased = FALSE /\ resetReady = FALSE
    /\ postTeleop = FALSE /\ stopIdle = FALSE
    /\ child = [c \in Children |-> "none"]
    /\ device = [s \in Services |-> IF s = "follower" THEN "on" ELSE "off"]
    /\ overdue = [s \in Services |-> "none"]
    /\ faults = 0
    /\ outcome = [e \in Episodes |-> "none"]

-----------------------------------------------------------------------------
(* Calls: _service *)

Succeeds(s, v) ==
    /\ device' = [device EXCEPT ![s] = v]
    /\ overdue' = [overdue EXCEPT ![s] = "none"]
    /\ UNCHANGED faults

(* The call is refused, or its answer never comes.                         *)
Fails(s, v) ==
    /\ faults < MaxFaults /\ faults' = faults + 1
    /\ \/ device' = [device EXCEPT ![s] = v]
          /\ overdue' = [overdue EXCEPT ![s] = "none"]
       \/ UNCHANGED <<device, overdue>>
       \/ overdue' = [overdue EXCEPT ![s] = v] /\ UNCHANGED device

(* A request is served after its caller gave up (external).                *)
ServeLate(s) ==
    /\ overdue[s] # "none"
    /\ device' = [device EXCEPT ![s] = overdue[s]]
    /\ overdue' = [overdue EXCEPT ![s] = "none"]
    /\ UNCHANGED <<recorder, pc, goal, requests, verdict, owns, safety,
                   idleTeleop, child, faults, outcome>>

Fault == faults < MaxFaults /\ faults' = faults + 1

-----------------------------------------------------------------------------
(* The thread of the goal *)

(* An exception leads to the release of everything that may be owned.      *)
Raise(reason) ==
    /\ why' = reason
    /\ pc' = "endTeleop"
    /\ postTeleop' = FALSE

(* goal: one at a time, and none when ownership is in doubt or torque is   *)
(* released and was not reset.                                             *)
Admits == /\ goal = None /\ ~blocked /\ recovery = "idle"
          /\ (torqueReleased => resetReady)

Goal(e) ==
    /\ Admits
    /\ goal' = e /\ pc' = "start"
    /\ cancelAsked' = FALSE /\ UNCHANGED <<beginAsked, finishAsked>>
    /\ why' = "none" /\ unclean' = FALSE
    /\ IF e \notin DryRun /\ postTeleop
       THEN postTeleop' = FALSE /\ stopIdle' = TRUE
       ELSE UNCHANGED idleTeleop
    /\ child' = [c \in Children |-> "none"]
    /\ outcome' = [outcome EXCEPT ![e] = "none"]
    /\ recorded' = [recorded EXCEPT ![e] = "none"]
    /\ UNCHANGED <<recording, episode, flags, tape, hand, files, owns, safety,
                   hardware>>

Start ==
    /\ pc = "start"
    /\ beginAsked' = FALSE /\ finishAsked' = FALSE /\ UNCHANGED cancelAsked
    /\ IF cancelAsked THEN Raise("canceled") /\ UNCHANGED stopIdle
       ELSE /\ pc' = IF goal \in DryRun THEN "succeed"
                     ELSE IF stopIdle THEN "stopIdle" ELSE "rearm"
            /\ UNCHANGED <<why, idleTeleop>>
    /\ UNCHANGED <<recorder, goal, unclean, owns, safety, child, hardware,
                   outcome>>

(* The recorder's goal is ours and has not ended.                          *)
RecorderLives == recording # "idle" /\ episode = goal

(* What is called in order, and where it leads.  A failed call of a goal   *)
(* raises; one that may have taken effect is owned beforehand.             *)
Calls == [
    stopIdle   |-> [on |-> "teleop",   to |-> "off", next |-> "rearm"],
    power      |-> [on |-> "follower", to |-> "on",  next |-> "preflight"],
    unpower    |-> [on |-> "follower", to |-> "off", next |-> "failed"],
    freeTeleop |-> [on |-> "teleop",   to |-> "off", next |-> "limp"],
    limp       |-> [on |-> "torque",   to |-> "off", next |-> "seize"],
    seize      |-> [on |-> "leader",   to |-> "on",  next |-> "hold"],
    hold       |-> [on |-> "torque",   to |-> "on",  next |-> "move"],
    free       |-> [on |-> "leader",   to |-> "off", next |-> "enable"],
    enable     |-> [on |-> "teleop",   to |-> "on",  next |-> "limber"],
    limber     |-> [on |-> "torque",   to |-> "off", next |-> "record"]]

(* _deactivate_leader asks for nothing if it finds nothing to deactivate.  *)
Idle(s) == s = "leader" /\ device["leader"] = "off"

Call ==
    /\ pc \in DOMAIN Calls
    /\ pc \in {"free", "enable"} => ~cancelAsked
    /\ pc = "free" => RecorderLives
    /\ LET c == Calls[pc]
       IN  \/ /\ IF pc = "free" /\ Idle(c.on) THEN UNCHANGED hardware
                                              ELSE Succeeds(c.on, c.to)
              /\ IF c.next = "failed"
                 THEN Raise("failed") /\ UNCHANGED stopIdle
                 ELSE /\ pc' = c.next
                      /\ stopIdle' = (stopIdle /\ pc # "stopIdle")
                      /\ UNCHANGED <<why, postTeleop>>
              /\ owns' = CASE pc = "seize" -> owns \cup {"leader"}
                           [] pc = "enable" -> owns \cup {"teleop"}
                           [] pc = "free" -> owns \ {"leader"}
                           [] pc = "limber" -> owns \ {"torque"}
                           [] OTHER -> owns
              /\ IF pc = "power"
                 THEN torqueReleased' = FALSE /\ resetReady' = FALSE
                 ELSE UNCHANGED <<torqueReleased, resetReady>>
              /\ UNCHANGED blocked
           \/ /\ Fails(c.on, c.to)
              /\ IF pc = "power"
                 THEN pc' = "unpower" /\ UNCHANGED <<why, postTeleop>>
                 ELSE Raise("failed")
              /\ owns' = CASE pc = "seize" -> owns \cup {"leader"}
                           [] pc = "enable" -> owns \cup {"teleop"}
                           [] OTHER -> owns
              /\ resetReady' = (resetReady /\ pc # "power")
              /\ blocked' = (blocked \/ pc = "freeTeleop")
              /\ UNCHANGED <<stopIdle, torqueReleased>>
    /\ UNCHANGED <<recorder, goal, requests, unclean, recovery, child,
                   outcome>>

(* _rearm_after_reset: power only after a reset.                           *)
Rearm ==
    /\ pc = "rearm"
    /\ pc' = IF torqueReleased THEN "power" ELSE "preflight"
    /\ UNCHANGED <<recorder, goal, requests, verdict, owns, safety,
                   idleTeleop, child, hardware, outcome>>

(* Steps without a call, each with its ways out.                           *)
Leave(p) == pc' = p /\ UNCHANGED <<why, postTeleop>>

(* _preflight and _acquire_leader look at the controllers.                 *)
LeaderIsPassive == device["leader"] = "off"
Preflight ==
    /\ pc \in {"preflight", "acquire"}
    /\ \/ /\ LeaderIsPassive /\ ~(cancelAsked /\ pc = "preflight")
          /\ Leave(CASE pc = "acquire" -> "freeTeleop"
                     [] pc = "preflight" /\ goal \in Pick -> "detect"
                     [] OTHER -> "recorder")
       \/ cancelAsked /\ pc = "preflight" /\ Raise("canceled")
       \/ Raise("failed")
    /\ UNCHANGED <<recorder, goal, requests, unclean, owns, safety, stopIdle,
                   child, hardware, outcome>>

(* _action: children are started, watched, and drained when one fails, the *)
(* parent is canceled or a deadline passes.  Preparation and alignment run *)
(* side by side (_prepare_pair): alignment starts once preparation has     *)
(* announced its target.                                                   *)
Team == IF pc = "detect" THEN {"detect"}
        ELSE IF goal \in Pick THEN {"prepare", "align"} ELSE {"align"}
Settled(c) == child[c] \in {"none", "done", "bad"}

SendChild(c) ==
    /\ pc \in {"detect", "move"} /\ c \in Team /\ child[c] = "none"
    /\ c = "align" /\ goal \in Pick => child["prepare"] \in {"live", "done"}
    /\ ~cancelAsked
    /\ child' = [child EXCEPT ![c] = "sent"]
    /\ UNCHANGED <<recorder, pc, goal, requests, verdict, owns, safety,
                   idleTeleop, hardware, outcome>>

(* A child at its server (external).                                       *)
ChildStep(c) ==
    /\ \/ child[c] = "sent" /\ child' = [child EXCEPT ![c] = "live"]
       \/ child[c] = "sent" /\ child' = [child EXCEPT ![c] = "bad"]
       \/ child[c] = "live" /\ child' = [child EXCEPT ![c] = "done"]
       \/ child[c] = "live" /\ child' = [child EXCEPT ![c] = "bad"]
    /\ UNCHANGED <<recorder, pc, goal, requests, verdict, owns, safety,
                   idleTeleop, hardware, outcome>>

TeamDone ==
    /\ pc \in {"detect", "move"}
    /\ \A c \in Team : child[c] = "done"
    /\ pc' = IF pc = "detect" THEN "recorder" ELSE "home"
    /\ UNCHANGED <<recorder, goal, requests, verdict, owns, safety,
                   idleTeleop, child, hardware, outcome>>

(* Mutant: a failed child is not noticed.                                  *)
TeamStopsOnlyAsked ==
    /\ pc \in {"detect", "move"} /\ cancelAsked
    /\ why' = "canceled" /\ pc' = "drain"
    /\ UNCHANGED <<recorder, goal, requests, unclean, owns, safety,
                   idleTeleop, child, hardware, outcome>>

(* A failure of a child, a deadline or a lost lease; or a cancellation.    *)
TeamStops ==
    /\ pc \in {"detect", "move"}
    /\ \E reason \in {"failed", "canceled"} :
         /\ reason = "canceled" => cancelAsked
         /\ why' = reason
    /\ pc' = "drain"
    /\ UNCHANGED <<recorder, goal, requests, unclean, owns, safety,
                   idleTeleop, child, hardware, outcome>>

Drained ==
    /\ pc = "drain"
    /\ \A c \in Children : Settled(c)
    /\ Raise(why)
    /\ UNCHANGED <<recorder, goal, requests, unclean, owns, safety, stopIdle,
                   child, hardware, outcome>>

(* Mutant: a child whose end is unknown does not block the node.           *)
DrainFailsForgiving ==
    /\ pc = "drain"
    /\ \E c \in Children : ~Settled(c)
    /\ Fault /\ UNCHANGED <<device, overdue>>
    /\ Raise("failed")
    /\ UNCHANGED <<recorder, goal, requests, unclean, owns, safety, stopIdle,
                   child, outcome>>

(* The goal response or the terminal result does not come: the ownership   *)
(* of the child is unknown.                                                *)
DrainFails ==
    /\ pc = "drain"
    /\ \E c \in Children : ~Settled(c)
    /\ Fault /\ UNCHANGED <<device, overdue>>
    /\ blocked' = TRUE
    /\ Raise("failed")
    /\ UNCHANGED <<recorder, goal, requests, unclean, owns, recovery,
                   torqueReleased, resetReady, stopIdle, child, outcome>>

-----------------------------------------------------------------------------
(* The recorder, from the coordinator *)

(* _start_recorder: the response may be lost, with or without the goal.    *)
StartRecorder ==
    /\ pc = "recorder"
    /\ \/ /\ ~cancelAsked /\ Reserve(goal)
          /\ owns' = owns \cup {"recorder"} /\ Leave("admission")
          /\ UNCHANGED <<blocked, hardware>>
       \/ /\ ~cancelAsked /\ (Reserve(goal) \/ UNCHANGED recorder)
          /\ Fault /\ UNCHANGED <<device, overdue>>
          /\ blocked' = TRUE /\ Raise("failed") /\ UNCHANGED owns
       \/ /\ IF cancelAsked THEN Raise("canceled")
                            ELSE ~AdmitsRecording /\ Raise("failed")
          /\ UNCHANGED <<recorder, owns, blocked, hardware>>
    /\ UNCHANGED <<goal, requests, unclean, recovery, torqueReleased,
                   resetReady, stopIdle, child, outcome>>

(* require_recorder_running, _raise_if_canceled and the deadlines: the     *)
(* waits of the goal end early in any of three ways.                       *)
Unwatched == {"enable", "stopping", "markStop"}
Waits == {"admission", "home", "markStart", "first", "free", "enable",
          "record", "stopping", "markStop", "finalize"}
GiveUp ==
    /\ pc \in Waits
    /\ \/ cancelAsked /\ Raise("canceled") /\ UNCHANGED owns
       \/ /\ ~RecorderLives /\ pc \notin Unwatched
          /\ Raise("failed") /\ owns' = owns \ {"recorder"}
       \/ pc \in {"admission", "home", "first", "free"} /\ Raise("failed")
          /\ UNCHANGED owns
    /\ UNCHANGED <<recorder, goal, requests, unclean, safety, stopIdle, child,
                   hardware, outcome>>

(* The end of the recording is noticed before a cancellation.              *)
Goes == \/ pc = "record"
        \/ ~cancelAsked /\ (pc = "stopping" \/ RecorderLives)

(* Admission is over once the recorder is ready; Home is awaited; then the *)
(* first frame; then the operator or the duration ends the recording.      *)
Wait ==
    /\ pc \in {"admission", "home", "first", "record", "stopping"} /\ Goes
    /\ CASE pc = "admission" -> recording = "ready" /\ pc' = "acquire"
         [] pc = "home" -> beginAsked /\ pc' = "markStart"
         [] pc = "first" -> FirstFrameReported /\ pc' = "free"
         [] pc = "record" -> pc' = "stopping"
         [] pc = "stopping" -> pc' = "markStop"
    /\ postTeleop' = (postTeleop \/ pc = "stopping")
    /\ owns' = IF pc = "admission" THEN owns \cup {"torque"} ELSE owns
    /\ UNCHANGED <<recorder, goal, requests, verdict, safety, stopIdle, child,
                   hardware, outcome>>

(* Refreshing the lease of torque or teleoperation fails.                  *)
HeartbeatFails ==
    /\ pc \in {"home", "first", "record"}
    /\ \/ pc = "record" /\ Fails("teleop", "on")
       \/ pc # "record" /\ Fails("torque", "on")
    /\ Raise("failed")
    /\ UNCHANGED <<recorder, goal, requests, unclean, owns, safety, stopIdle,
                   child, outcome>>

(* The answer of the recorder's services may be lost or negative.          *)
MarkEvent ==
    /\ pc \in {"markStart", "markStop"} /\ ~cancelAsked
    /\ LET Accepted == IF pc = "markStart" THEN StartAccepted(goal)
                                           ELSE StopAccepted(goal)
           Mark == IF pc = "markStart" THEN MarkStart(goal) ELSE MarkStop(goal)
       IN  \/ /\ Mark
              /\ Leave(IF pc = "markStart" THEN "first" ELSE "finalize")
              /\ UNCHANGED hardware
           \/ /\ Fault /\ UNCHANGED <<device, overdue>>
              /\ Mark \/ UNCHANGED recorder
              /\ Raise("failed")
           \/ ~Accepted /\ hand = None /\ Raise("failed")
              /\ UNCHANGED <<recorder, hardware>>
    /\ UNCHANGED <<goal, requests, unclean, owns, safety, stopIdle, child,
                   outcome>>

(* Whatever finalize answers, the terminal result decides.                 *)
Finalize ==
    /\ pc = "finalize" /\ ~cancelAsked
    /\ \/ FinalizeRecording(goal) /\ UNCHANGED hardware
       \/ /\ Fault /\ UNCHANGED <<device, overdue>>
          /\ FinalizeRecording(goal) \/ UNCHANGED recorder
       \/ ~FinalizeAccepted(goal) /\ UNCHANGED <<recorder, hardware>>
    /\ pc' = "result"
    /\ UNCHANGED <<goal, requests, verdict, owns, safety, idleTeleop, child,
                   outcome>>

AwaitResult ==
    /\ pc \in {"result", "insist"}
    /\ \/ /\ ~RecorderLives
          /\ owns' = owns \ {"recorder"}
          /\ IF recorded[goal] = "succeeded" THEN Leave("succeed")
                                             ELSE Raise("failed")
          /\ UNCHANGED <<recorder, blocked, hardware>>
       \/ (* overdue: the recorder is canceled, and awaited once more      *)
          /\ RecorderLives /\ pc = "result"
          /\ Fault /\ UNCHANGED <<device, overdue>>
          /\ CancelRecording /\ Leave("insist")
          /\ UNCHANGED <<owns, blocked>>
       \/ /\ RecorderLives /\ pc = "insist"
          /\ Fault /\ UNCHANGED <<device, overdue>>
          /\ blocked' = TRUE /\ Raise("failed")
          /\ UNCHANGED <<recorder, owns>>
    /\ UNCHANGED <<goal, requests, unclean, recovery, torqueReleased,
                   resetReady, stopIdle, child, outcome>>

-----------------------------------------------------------------------------
(* The end of the goal *)

(* _release_controls: each release is tried, whatever the others did.      *)
Releases == [
    endTeleop |-> [on |-> "teleop", next |-> "endTorque"],
    endTorque |-> [on |-> "torque", next |-> "endLeader"],
    endLeader |-> [on |-> "leader", next |-> "endRecorder"]]

ReleaseControl ==
    /\ pc \in DOMAIN Releases
    /\ LET r == Releases[pc]
       IN  /\ pc' = r.next
           /\ IF r.on \notin owns
              THEN UNCHANGED <<owns, unclean, blocked, hardware>>
              ELSE \/ /\ IF Idle(r.on) THEN UNCHANGED hardware
                                       ELSE Succeeds(r.on, "off")
                      /\ owns' = owns \ {r.on}
                      /\ UNCHANGED <<unclean, blocked>>
                   \/ /\ Fails(r.on, "off")
                      /\ unclean' = TRUE /\ blocked' = TRUE
                      /\ owns' = IF r.on = "leader" THEN owns
                                                    ELSE owns \ {r.on}
    /\ UNCHANGED <<recorder, goal, requests, why, recovery, torqueReleased,
                   resetReady, idleTeleop, child, outcome>>

(* _cancel_recorder                                                        *)
ReleaseRecorder ==
    /\ pc = "endRecorder"
    /\ IF "recorder" \in owns
       THEN CancelRecording /\ pc' = "endResult"
       ELSE UNCHANGED recorder /\ pc' = "end"
    /\ UNCHANGED <<goal, requests, verdict, owns, safety, idleTeleop, child,
                   hardware, outcome>>

(* Mutant: any end of the recorder is taken for its cancellation.          *)
AwaitRecorderTrusting ==
    /\ pc = "endResult" /\ ~RecorderLives
    /\ owns' = owns \ {"recorder"}
    /\ pc' = "end"
    /\ UNCHANGED <<recorder, goal, requests, verdict, safety, idleTeleop,
                   child, hardware, outcome>>

(* Only a recording that ended canceled is known to be incomplete.         *)
AwaitRecorder ==
    /\ pc = "endResult"
    /\ \/ /\ ~RecorderLives
          /\ LET retained == recorded[goal] = "canceled"
             IN  unclean' = (unclean \/ ~retained)
                 /\ blocked' = (blocked \/ ~retained)
          /\ UNCHANGED hardware
       \/ /\ RecorderLives
          /\ Fault /\ UNCHANGED <<device, overdue>>
          /\ unclean' = TRUE /\ blocked' = TRUE
    /\ owns' = owns \ {"recorder"}
    /\ pc' = "end"
    /\ UNCHANGED <<recorder, goal, requests, why, recovery, torqueReleased,
                   resetReady, idleTeleop, child, outcome>>

EndGoal ==
    /\ pc \in {"succeed", "end"}
    /\ outcome' = [outcome EXCEPT ![goal] =
                     CASE pc = "succeed" -> "succeeded"
                       [] pc = "end" /\ why = "canceled" /\ ~unclean ->
                            "canceled"
                       [] OTHER -> "aborted"]
    /\ goal' = None /\ pc' = "idle"
    /\ owns' = owns \cap {"leader"}
    /\ finishAsked' = FALSE /\ UNCHANGED <<cancelAsked, beginAsked>>
    /\ UNCHANGED <<recorder, verdict, safety, idleTeleop, child, hardware>>

GoalThread ==
    \/ Start \/ Call \/ Rearm \/ Preflight \/ TeamDone \/ TeamStops
    \/ \E c \in Children : SendChild(c)
    \/ Drained \/ DrainFails \/ StartRecorder \/ GiveUp \/ Wait
    \/ HeartbeatFails \/ MarkEvent \/ Finalize \/ AwaitResult
    \/ ReleaseControl \/ ReleaseRecorder \/ AwaitRecorder \/ EndGoal

-----------------------------------------------------------------------------
(* The operator and the timer *)

(* cancel: until the end of the recording has begun.  A goal that is being *)
(* cleaned up accepts it too, to no effect.                                *)
Cancelable == {"start", "stopIdle", "rearm", "power", "preflight", "detect",
               "recorder", "admission", "acquire", "freeTeleop", "limp",
               "seize", "hold", "move", "drain", "home", "markStart", "first",
               "free", "enable", "limber", "record"}
Cancel ==
    /\ pc \in Cancelable
    /\ cancelAsked' = TRUE /\ UNCHANGED <<beginAsked, finishAsked>>
    /\ UNCHANGED <<recorder, pc, goal, verdict, owns, safety, idleTeleop,
                   child, hardware, outcome>>

(* request_begin: Home is heard only while it is awaited.                  *)
RequestBegin ==
    /\ pc = "home"
    /\ beginAsked' = TRUE /\ UNCHANGED <<cancelAsked, finishAsked>>
    /\ UNCHANGED <<recorder, pc, goal, verdict, owns, safety, idleTeleop,
                   child, hardware, outcome>>

(* request_finalize: only while recording.                                 *)
RequestFinalize ==
    /\ pc = "record"
    /\ finishAsked' = TRUE /\ UNCHANGED <<cancelAsked, beginAsked>>
    /\ UNCHANGED <<recorder, pc, goal, verdict, owns, safety, idleTeleop,
                   child, hardware, outcome>>

(* _idle_teleop_heartbeat holds the session lock during its call.          *)
IdleHeartbeat ==
    /\ postTeleop
    /\ \/ Succeeds("teleop", "on") /\ UNCHANGED postTeleop
       \/ Fails("teleop", "on") /\ postTeleop' = FALSE
    /\ UNCHANGED <<recorder, pc, goal, requests, verdict, owns, safety,
                   stopIdle, child, outcome>>

(* Mutant: the timer goes on keeping teleoperation alive.                  *)
BeginReleaseKeepingAlive ==
    /\ goal = None /\ recovery = "idle"
    /\ recovery' = "teleop"
    /\ torqueReleased' = TRUE /\ resetReady' = FALSE
    /\ UNCHANGED <<recorder, pc, goal, requests, verdict, owns, blocked,
                   idleTeleop, child, hardware, outcome>>

(* release_torque: everything is switched off, as far as it will go.       *)
BeginRelease ==
    /\ goal = None /\ recovery = "idle"
    /\ recovery' = "teleop"
    /\ torqueReleased' = TRUE /\ resetReady' = FALSE
    /\ postTeleop' = FALSE
    /\ UNCHANGED <<recorder, pc, goal, requests, verdict, owns, blocked,
                   stopIdle, child, hardware, outcome>>

ReleaseOrder == [teleop |-> "leader", leader |-> "torque",
                 torque |-> "follower", follower |-> "idle"]
Release ==
    /\ recovery \in DOMAIN ReleaseOrder
    /\ \/ /\ IF Idle(recovery) THEN UNCHANGED hardware
                               ELSE Succeeds(recovery, "off")
          /\ owns' = IF recovery = "leader" THEN owns \ {"leader"} ELSE owns
       \/ Fails(recovery, "off") /\ UNCHANGED owns
    /\ recovery' = ReleaseOrder[recovery]
    /\ UNCHANGED <<recorder, pc, goal, requests, verdict, blocked,
                   torqueReleased, resetReady, idleTeleop, child, outcome>>

(* reset: teleoperation, the follower, the torque and the controller of    *)
(* the leader are each confirmed to be off, in this order, or it fails.    *)
BeginReset ==
    /\ goal = None /\ recovery = "idle" /\ torqueReleased
    /\ resetReady' = FALSE
    /\ recovery' = IF blocked THEN "idle" ELSE "resetTeleop"
    /\ UNCHANGED <<recorder, pc, goal, requests, verdict, owns, blocked,
                   torqueReleased, idleTeleop, child, hardware, outcome>>

Resets == [resetTeleop   |-> [on |-> "teleop",   next |-> "resetFollower"],
           resetFollower |-> [on |-> "follower", next |-> "resetTorque"],
           resetTorque   |-> [on |-> "torque",   next |-> "resetLeader"],
           resetLeader   |-> [on |-> "leader",   next |-> "done"]]
Reset ==
    /\ recovery \in DOMAIN Resets
    /\ LET r == Resets[recovery]
           next == IF r.next = "done" THEN "idle" ELSE r.next
       IN  IF r.on \in {"follower", "leader"}
           THEN /\ recovery' = IF device[r.on] = "off" THEN next ELSE "idle"
                /\ resetReady' = (device[r.on] = "off" /\ r.next = "done")
                /\ UNCHANGED hardware
           ELSE /\ \/ Succeeds(r.on, "off") /\ recovery' = next
                   \/ Fails(r.on, "off") /\ recovery' = "idle"
                /\ UNCHANGED resetReady
    /\ UNCHANGED <<recorder, pc, goal, requests, verdict, owns, blocked,
                   torqueReleased, idleTeleop, child, outcome>>

(* The whole program ends, with the arms, and starts again on its files.   *)
Restart ==
    /\ RecorderDies
    /\ pc' = "idle" /\ goal' = None
    /\ cancelAsked' = FALSE /\ beginAsked' = FALSE /\ finishAsked' = FALSE
    /\ why' = "none" /\ unclean' = FALSE /\ owns' = {}
    /\ blocked' = FALSE /\ recovery' = "idle"
    /\ torqueReleased' = FALSE /\ resetReady' = FALSE
    /\ postTeleop' = FALSE /\ stopIdle' = FALSE
    /\ child' = [c \in Children |-> "none"]
    /\ device' = [s \in Services |-> IF s = "follower" THEN "on" ELSE "off"]
    /\ overdue' = [s \in Services |-> "none"]
    /\ UNCHANGED <<faults, outcome>>

RecorderRuns ==
    /\ RecorderStep
    /\ UNCHANGED <<pc, goal, requests, verdict, owns, safety, idleTeleop,
                   child, hardware, outcome>>

Review ==
    /\ \E e \in Episodes : ReviewEpisode(e)
    /\ UNCHANGED <<pc, goal, requests, verdict, owns, safety, idleTeleop,
                   child, hardware, outcome>>

Next ==
    \/ \E e \in Episodes : Goal(e)
    \/ GoalThread
    \/ \E c \in Children : ChildStep(c)
    \/ \E s \in Services : ServeLate(s)
    \/ Cancel \/ RequestBegin \/ RequestFinalize \/ IdleHeartbeat
    \/ BeginRelease \/ Release \/ BeginReset \/ Reset
    \/ Restart \/ RecorderRuns \/ Review

Spec == Init /\ [][Next]_vars

(* The threads run, and none of their waits is without a deadline; child   *)
(* actions end.                                                            *)
FairSpec ==
    /\ Spec
    /\ WF_vars(GoalThread) /\ WF_vars(RecorderThread /\ RecorderRuns)
    /\ WF_vars(AppendSample /\ RecorderRuns)
    /\ \A c \in Children : WF_vars(ChildStep(c))

-----------------------------------------------------------------------------
(* Properties *)

TypeOK ==
    /\ RecorderTypeOK
    /\ pc \in DOMAIN Calls \cup DOMAIN Releases \cup Waits \cup
             {"idle", "start", "rearm", "preflight", "detect", "recorder",
              "acquire", "move", "drain", "result", "insist", "succeed",
              "endRecorder", "endResult", "end"}
    /\ goal \in Episodes \cup {None}
    /\ cancelAsked \in BOOLEAN /\ beginAsked \in BOOLEAN
    /\ finishAsked \in BOOLEAN /\ unclean \in BOOLEAN /\ blocked \in BOOLEAN
    /\ torqueReleased \in BOOLEAN /\ resetReady \in BOOLEAN
    /\ postTeleop \in BOOLEAN /\ stopIdle \in BOOLEAN
    /\ why \in {"none", "failed", "canceled"}
    /\ owns \subseteq {"teleop", "torque", "leader", "recorder"}
    /\ recovery \in {"idle"} \cup DOMAIN ReleaseOrder \cup DOMAIN Resets
    /\ child \in [Children -> {"none", "sent", "live", "done", "bad"}]
    /\ device \in [Services -> {"on", "off"}]
    /\ overdue \in [Services -> {"none", "on", "off"}]
    /\ faults \in 0 .. MaxFaults
    /\ outcome \in [Episodes -> {"none"} \cup Results]

(* Unless the node refuses further goals, a goal that has ended leaves     *)
(* nothing behind: no child action, no recording, nothing it thinks it     *)
(* owns and no torque on the leader.  (Teleoperation stays on for the      *)
(* operator to put things back, and its lease ends it; the position        *)
(* controller of the leader may yet be switched on by a late request.)     *)
EndLeavesNothing ==
    goal = None /\ ~blocked =>
        /\ \A c \in Children : Settled(c)
        /\ recording = "idle"
        /\ owns = {} /\ device["torque"] = "off"

(* What the operator is told of an episode is true of its files: if it     *)
(* succeeded a whole episode is published and selected, and if it was      *)
(* canceled the recorder never got as far as publishing it.                *)
OutcomeMatchesFiles ==
    /\ PublishedIsWhole
    /\ \A e \in Episodes \ DryRun :
        /\ outcome[e] = "succeeded" => disk[e].state = "complete"
                                         /\ review[e] # "none"
        /\ outcome[e] = "canceled" => recorded[e] \in {"none", "canceled"}

(* The follower never follows a leader that its position controller        *)
(* drives, and after a reset nothing holds or moves the arms until the     *)
(* next goal, not even a request of an earlier goal that is served late.   *)
(* (If the request for power and the one that takes it back are both lost, *)
(* the first may still be served after the reset.)                         *)
NobodyElseMovesTheArms ==
    /\ device["teleop"] = "on" => device["leader"] = "off"
    /\ resetReady /\ goal = None =>
        /\ device["teleop"] = "off" /\ device["torque"] = "off"
        /\ device["follower"] = "on" => faults >= 2

(* Every goal ends, whatever fails, and whether or not the operator ever   *)
(* answers.                                                                *)
GoalEnds == goal # None ~> goal = None

=============================================================================
