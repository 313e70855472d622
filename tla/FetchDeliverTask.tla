-------------------------- MODULE FetchDeliverTask --------------------------
(***************************************************************************)
(* The fetch-and-deliver orchestrator: xlerobot_task/fetch_deliver_task_   *)
(* node.py.                                                                *)
(*                                                                         *)
(* One ROS 2 node serves the ExecuteTask action.  It admits one goal at a  *)
(* time, runs the goal through a fixed pipeline of child actions, and,     *)
(* when the goal is canceled or a deadline passes, it must prove that the  *)
(* child it started has stopped before it reports a terminal state.  The   *)
(* callbacks (admission, cancellation, manual-control service and         *)
(* stop-state subscription) run on other threads of the executor while     *)
(* execute() is blocked in a wait.                                         *)
(*                                                                         *)
(* Time is abstract: a deadline may pass at any step at which the code     *)
(* reads the clock.  A child is abstracted to what its action server can   *)
(* do; everything it computes is one of a few outcomes.                    *)
(***************************************************************************)
EXTENDS Naturals, FiniteSets, Sequences

CONSTANTS
    Goals,          \* the goals clients send during the behaviour
    Pipeline,       \* the stages in order; see FullPipeline
    LiveGoals,      \* those of them with dry_run = false
    SpeechEnabled,  \* the speech_enabled parameter
    SendFaults,     \* the calls and futures of a child goal may raise
    ResultFaults    \* a result future may raise or carry STATUS_UNKNOWN

ASSUME GoalsAssumption ==
    /\ LiveGoals \subseteq Goals
    /\ "nobody" \notin Goals /\ "manual" \notin Goals
ASSUME ParametersAssumption ==
    /\ SpeechEnabled \in BOOLEAN
    /\ SendFaults \in BOOLEAN
    /\ ResultFaults \in BOOLEAN

VARIABLES
    goalActive,      \* _goal_active
    manualReserved,  \* _manual_reserved
    blocked,         \* _blocked_reason is not empty
    stopReceived,    \* _stop_state_received
    stopLatched,     \* _stop_latched
    status,          \* the action server's status of each goal
    pc,              \* where the thread serving each goal is
    stage,           \* the pipeline stage that thread is in
    code,            \* the error code it carries or has reported
    op,              \* the ChildOperation of _run_child_action
    child,           \* what each stage's action server does for each goal
    cancelCall,      \* a thread is inside cancel_callback for the goal
    announced        \* the terminal status published on /task/events

node  == <<goalActive, manualReserved, blocked>>
stop  == <<stopReceived, stopLatched>>
goal  == <<status, pc, stage, code>>
vars  == <<node, stop, goal, op, child, cancelCall, announced>>

-----------------------------------------------------------------------------
(* The pipeline *)

(* The sequence execute() spells out.  A dry run moves no head, and speech *)
(* may be disabled by configuration.                                       *)
FullPipeline == <<"auto_localize", "navigate_to_named_place", "head_preset",
                  "detect_object", "grasp_object", "scan_for_person",
                  "approach_target", "speak_text", "handover_object">>

Stages == 1 .. Len(Pipeline)
Complete == Len(Pipeline) + 1

Optional == {"auto_localize", "head_preset", "speak_text"}

(* Shorter pipelines keep what the steps below rely on: localization comes *)
(* first, and a stage that may be left out is followed by one that may not.*)
ASSUME PipelineAssumption ==
    /\ Pipeline \in Seq({FullPipeline[i] : i \in 1 .. 9})
    /\ Len(Pipeline) > 1
    /\ Pipeline[1] = "auto_localize"
    /\ \A k \in Stages : Pipeline[k] \in Optional =>
         k + 1 \in Stages /\ Pipeline[k + 1] \notin Optional

Runs(g, k) ==
    /\ Pipeline[k] = "head_preset" => g \in LiveGoals
    /\ Pipeline[k] = "speak_text" => SpeechEnabled

(* The stage that follows k                                                *)
Following(g, k) ==
    IF k + 1 \in Stages /\ ~Runs(g, k + 1) THEN k + 2 ELSE k + 1

(* Stages that wait for a measurement after their child has succeeded: the *)
(* scan-map check after AutoLocalize and the head arrival check.           *)
Settles(g, k) ==
    g \in LiveGoals /\ Pipeline[k] \in {"auto_localize", "head_preset"}

-----------------------------------------------------------------------------
(* Vocabulary *)

TerminalStatus == {"succeeded", "canceled", "aborted"}
StatusValues == {"unsent", "rejected", "accepted", "executing", "canceling"}
                    \cup TerminalStatus
PcValues == {"idle", "sampling", "ready", "notReady", "queued", "call",
             "waitSend", "waitResult", "settle", "cancelSend", "cancelResult",
             "drainSend", "drainResult", "held", "complete", "except",
             "terminate", "finally", "done"}
(* Every code of a TaskFailure other than CANCELED is a FAILURE; any other *)
(* exception is an EXCEPTION.                                              *)
Codes == {"NONE", "CANCELED", "FAILURE", "EXCEPTION"}
SendValues == {"none", "pending", "accepted", "refused", "failed"}
Outcomes == {"ok", "error", "canceled"}
ResultValues == {"none", "pending", "unproven"} \cup Outcomes
ChildValues == {"none", "queued", "running", "refused"} \cup Outcomes
Announcements == {"none", "SUCCEEDED", "CANCELED", "FAILED"}

(* The two futures of an operation, and whether its child has been asked   *)
(* to cancel, or the request raised before it was out.  The operation      *)
(* lives as long as _run_child_action does.                                *)
Ops == [send : SendValues, result : ResultValues, asked : {"no", "yes", "raised"}]
NoOp == [send |-> "none", result |-> "none", asked |-> "no"]

SetOp(g, o) == op' = [op EXCEPT ![g] = o]

(* is_cancel_requested of the goal handle                                  *)
CancelRequested(g) == status[g] = "canceling"

(* The child may act on the robot now or later.                            *)
MayMove(g, k) == child[g][k] \in {"queued", "running"}

Goto(g, p) == pc' = [pc EXCEPT ![g] = p]

(* raise TaskFailure(c): control reaches the except clause of execute().   *)
Raise(g, c) ==
    /\ Goto(g, "except")
    /\ code' = [code EXCEPT ![g] = c]

(* A terminal status is published on /task/events.  RUNNING events leave   *)
(* no trace in this module.                                                *)
Announce(g, s) == announced' = [announced EXCEPT ![g] = s]

-----------------------------------------------------------------------------
Init ==
    /\ goalActive = FALSE
    /\ manualReserved = FALSE
    /\ blocked = FALSE
    /\ stopReceived = FALSE
    /\ stopLatched = FALSE
    /\ status = [g \in Goals |-> "unsent"]
    /\ pc = [g \in Goals |-> "idle"]
    /\ stage = [g \in Goals |-> 1]
    /\ code = [g \in Goals |-> "NONE"]
    /\ op = [g \in Goals |-> NoOp]
    /\ child = [g \in Goals |-> [k \in Stages |-> "none"]]
    /\ cancelCall = [g \in Goals |-> FALSE]
    /\ announced = [g \in Goals |-> "none"]

-----------------------------------------------------------------------------
(* Admission: goal_callback *)

(* Faulty variant: manual control is not consulted.                        *)
BusyWithoutManual == goalActive \/ blocked

Busy == goalActive \/ manualReserved \/ blocked

(* The first critical section.  A dry run is accepted at once; a live goal *)
(* owns the node while its readiness is sampled.                           *)
GoalReject(g) ==
    /\ pc[g] = "idle"
    /\ Busy
    /\ Goto(g, "done")
    /\ status' = [status EXCEPT ![g] = "rejected"]
    /\ UNCHANGED <<node, stop, stage, code, op, child, cancelCall, announced>>

GoalClaim(g) ==
    /\ pc[g] = "idle"
    /\ ~Busy
    /\ goalActive' = TRUE
    /\ IF g \in LiveGoals
         THEN Goto(g, "sampling") /\ UNCHANGED status
         ELSE /\ Goto(g, "queued")
              /\ status' = [status EXCEPT ![g] = "accepted"]
    /\ UNCHANGED <<manualReserved, blocked, stop, stage, code, op, child,
                   cancelCall, announced>>

(* _live_readiness, outside the critical section: the stop state and the   *)
(* block are read under the lock; whatever else it reads (diagnostics,     *)
(* joint state, cameras, action servers) may be fresh or not.              *)
LiveReadiness(g) ==
    /\ pc[g] = "sampling"
    /\ \E restReady \in BOOLEAN :
         Goto(g, IF restReady /\ stopReceived /\ ~stopLatched /\ ~blocked
                   THEN "ready" ELSE "notReady")
    /\ UNCHANGED <<node, stop, status, stage, code, op, child, cancelCall, announced>>

(* Faulty variant: trusts the stop state sampled before.                   *)
StopBlockedStale == ~stopReceived \/ blocked

StopBlocked == ~stopReceived \/ stopLatched \/ blocked

(* The second critical section: the stop state is read again.              *)
GoalAccept(g) ==
    /\ pc[g] = "ready"
    /\ ~StopBlocked
    /\ Goto(g, "queued")
    /\ status' = [status EXCEPT ![g] = "accepted"]
    /\ UNCHANGED <<node, stop, stage, code, op, child, cancelCall, announced>>

GoalGiveUp(g) ==
    /\ \/ pc[g] = "notReady"
       \/ pc[g] = "ready" /\ StopBlocked
    /\ goalActive' = FALSE
    /\ Goto(g, "done")
    /\ status' = [status EXCEPT ![g] = "rejected"]
    /\ UNCHANGED <<manualReserved, blocked, stop, stage, code, op, child,
                   cancelCall, announced>>

(* _on_stop_state: the latched topic of the drive safety node.             *)
OnStopState ==
    /\ stopReceived' = TRUE
    /\ stopLatched' \in BOOLEAN
    /\ UNCHANGED <<node, goal, op, child, cancelCall, announced>>

(* _set_manual_control: acquire is refused while anything else owns the    *)
(* robot; release always succeeds.                                         *)
ManualAcquire ==
    /\ ~Busy
    /\ manualReserved' = TRUE
    /\ UNCHANGED <<goalActive, blocked, stop, goal, op, child, cancelCall, announced>>

ManualRelease ==
    /\ manualReserved' = FALSE
    /\ UNCHANGED <<goalActive, blocked, stop, goal, op, child, cancelCall, announced>>

-----------------------------------------------------------------------------
(* Cancellation of the parent: the action server checks that the goal is   *)
(* active, calls cancel_callback, and moves the goal to CANCELING only     *)
(* after the callback has returned, if the goal is still active then.      *)

Active(g) == status[g] \in {"accepted", "executing"}

CancelCallback(g) ==
    /\ Active(g)
    /\ ~cancelCall[g]
    /\ cancelCall' = [cancelCall EXCEPT ![g] = TRUE]
    /\ UNCHANGED <<node, stop, goal, op, child, announced>>

CancelCommit(g) ==
    /\ cancelCall[g]
    /\ cancelCall' = [cancelCall EXCEPT ![g] = FALSE]
    /\ status' = [status EXCEPT ![g] = IF Active(g) THEN "canceling" ELSE @]
    /\ UNCHANGED <<node, stop, pc, stage, code, op, child, announced>>

-----------------------------------------------------------------------------
(* execute(): entry and the pipeline *)

(* The execute callback starts: event state reset, RUNNING published, and  *)
(* localization is judged from the last AMCL pose and scan-map sample.     *)
Execute(g) ==
    /\ pc[g] = "queued"
    /\ status' = [status EXCEPT ![g] = IF @ = "accepted" THEN "executing" ELSE @]
    /\ \E localized \in BOOLEAN :
         stage' = [stage EXCEPT ![g] = IF localized THEN 2 ELSE 1]
    /\ Goto(g, "call")
    /\ UNCHANGED <<node, stop, code, op, child, cancelCall, announced>>

(* The checks made before a child is started (_check_parent; its server is *)
(* unavailable; the deadline has passed) or an exception out of            *)
(* send_goal_async: none of them leaves anything running.                  *)
CallFails(g) ==
    /\ pc[g] = "call"
    /\ \/ CancelRequested(g) /\ Raise(g, "CANCELED")
       \/ ~CancelRequested(g) /\ Raise(g, "FAILURE")
       \/ Raise(g, "EXCEPTION")
    /\ UNCHANGED <<node, stop, status, stage, op, child, cancelCall, announced>>

(* feedback "waiting_for_server", then send_goal_async                     *)
CallSends(g) ==
    /\ pc[g] = "call"
    /\ ~CancelRequested(g)
    /\ Goto(g, "waitSend")
    /\ SetOp(g, [NoOp EXCEPT !.send = "pending"])
    /\ child' = [child EXCEPT ![g][stage[g]] = "queued"]
    /\ UNCHANGED <<node, stop, status, stage, code, cancelCall, announced>>

(* _block_after_incomplete_cancel followed by the drain                    *)
BlockAndDrain(g) ==
    /\ blocked' = TRUE
    /\ Goto(g, "drainSend")

(* Faulty variants: the child is abandoned without being canceled; no      *)
(* deadline is applied.                                                    *)
WaitGivesUpAbandoning(g) ==
    /\ pc[g] \in {"waitSend", "waitResult"}
    /\ Raise(g, IF CancelRequested(g) THEN "CANCELED" ELSE "FAILURE")
    /\ SetOp(g, NoOp)
    /\ UNCHANGED <<node, stop, status, stage, child, cancelCall, announced>>

WaitGivesUpWithoutDeadline(g) ==
    /\ pc[g] \in {"waitSend", "waitResult"}
    /\ CancelRequested(g)
    /\ code' = [code EXCEPT ![g] = "CANCELED"]
    /\ Goto(g, "cancelSend")
    /\ UNCHANGED <<node, stop, status, stage, op, child, cancelCall, announced>>

(* _wait_future leaves its wait because the parent was canceled or the     *)
(* stage deadline has passed, whether or not the future is done.           *)
WaitGivesUp(g) ==
    /\ pc[g] \in {"waitSend", "waitResult"}
    /\ code' = [code EXCEPT ![g] = IF CancelRequested(g) THEN "CANCELED"
                                                         ELSE "FAILURE"]
    /\ Goto(g, "cancelSend")
    /\ UNCHANGED <<node, stop, status, stage, op, child, cancelCall, announced>>

(* The goal response arrives in time.  A raising future, or a raising      *)
(* get_result_async, blocks the node and drains the child.                 *)
GoalResponse(g) ==
    /\ pc[g] = "waitSend"
    /\ ~CancelRequested(g)
    /\ \/ /\ op[g].send = "refused"
          /\ Raise(g, "FAILURE")
          /\ SetOp(g, NoOp)
          /\ UNCHANGED blocked
       \/ /\ op[g].send = "accepted"
          /\ Goto(g, "waitResult")
          /\ SetOp(g, [op[g] EXCEPT !.result = "pending"])
          /\ UNCHANGED <<blocked, code>>
       \/ /\ op[g].send = "failed" \/ (SendFaults /\ op[g].send = "accepted")
          /\ BlockAndDrain(g)
          /\ UNCHANGED <<op, code>>
    /\ UNCHANGED <<goalActive, manualReserved, stop, status, stage, child,
                   cancelCall, announced>>

(* The next stage, or the measurement this one still waits for.            *)
Advance(g) ==
    IF Following(g, stage[g]) = Complete
      THEN Goto(g, "complete") /\ UNCHANGED stage
      ELSE /\ Goto(g, "call")
           /\ stage' = [stage EXCEPT ![g] = Following(g, stage[g])]

(* Faulty variant: only the arrival of a result counts, not what it says.  *)
ChildResultUnchecked(g) ==
    /\ pc[g] = "waitResult"
    /\ ~CancelRequested(g)
    /\ op[g].result \in Outcomes
    /\ Advance(g)
    /\ SetOp(g, NoOp)
    /\ UNCHANGED <<node, stop, status, code, child, cancelCall, announced>>

(* The result arrives in time: success moves on, a child that failed or    *)
(* was canceled on its own fails the task, and a result that does not      *)
(* prove the child stopped blocks the node and drains the child.           *)
ChildResult(g) ==
    /\ pc[g] = "waitResult"
    /\ ~CancelRequested(g)
    /\ \/ /\ op[g].result = "ok"
          /\ IF Settles(g, stage[g])
               THEN Goto(g, "settle") /\ UNCHANGED stage
               ELSE Advance(g)
          /\ SetOp(g, NoOp)
          /\ UNCHANGED <<blocked, code>>
       \/ /\ op[g].result \in {"error", "canceled"}
          /\ Raise(g, "FAILURE")
          /\ SetOp(g, NoOp)
          /\ UNCHANGED <<blocked, stage>>
       \/ /\ op[g].result = "unproven"
          /\ BlockAndDrain(g)
          /\ UNCHANGED <<stage, op, code>>
    /\ UNCHANGED <<goalActive, manualReserved, stop, status, child, cancelCall, announced>>

(* _wait_for_scan_map_consistency and _wait_for_detection_head             *)
Settled(g) ==
    /\ pc[g] = "settle"
    /\ ~CancelRequested(g)
    /\ Advance(g)
    /\ UNCHANGED <<node, stop, status, code, op, child, cancelCall, announced>>

SettleFails(g) ==
    /\ pc[g] = "settle"
    /\ Raise(g, IF CancelRequested(g) THEN "CANCELED" ELSE "FAILURE")
    /\ UNCHANGED <<node, stop, status, stage, op, child, cancelCall, announced>>

-----------------------------------------------------------------------------
(* _cancel_operation_and_wait: one deadline for the goal response, the     *)
(* cancel acknowledgement and the terminal result.                         *)

(* The goal response is in hand: a refused child has nothing to stop; an   *)
(* accepted one is asked to cancel, its result requested if it was not.    *)
CancelRequestOp(o) ==
    [o EXCEPT !.result = IF @ = "none" THEN "pending" ELSE @, !.asked = "yes"]

(* cancel_goal_async() raises: the child learns nothing.                   *)
CancelRaisesOp(o) ==
    [o EXCEPT !.result = IF @ = "none" THEN "pending" ELSE @,
              !.asked = IF @ = "no" THEN "raised" ELSE @]

CancelChild(g) ==
    /\ pc[g] = "cancelSend"
    /\ \/ /\ op[g].send = "refused"
          /\ Goto(g, "except")
          /\ SetOp(g, NoOp)
          /\ UNCHANGED blocked
       \/ /\ op[g].send = "accepted"
          /\ SetOp(g, CancelRequestOp(op[g]))
          /\ Goto(g, "cancelResult")
          /\ UNCHANGED blocked
       \/ /\ \/ op[g].send \in {"pending", "failed"} /\ UNCHANGED op
             \/ /\ SendFaults /\ op[g].send = "accepted"
                /\ \/ op[g].result = "none" /\ UNCHANGED op
                   \/ SetOp(g, CancelRaisesOp(op[g]))
          /\ BlockAndDrain(g)
    /\ UNCHANGED <<goalActive, manualReserved, stop, status, stage, code,
                   child, cancelCall, announced>>

(* Faulty variant: takes the end of the wait for the end of the child.     *)
CancelResultTrusting(g) ==
    /\ pc[g] = "cancelResult"
    /\ Goto(g, "except")
    /\ SetOp(g, NoOp)
    /\ UNCHANGED <<node, stop, status, stage, code, child, cancelCall, announced>>

(* Only a terminal result counts as proof; the acknowledgement does not.   *)
CancelResult(g) ==
    /\ pc[g] = "cancelResult"
    /\ \/ /\ op[g].result \in Outcomes
          /\ Goto(g, "except")
          /\ SetOp(g, NoOp)
          /\ UNCHANGED blocked
       \/ /\ op[g].result \in {"pending", "unproven"}
          /\ BlockAndDrain(g)
          /\ UNCHANGED op
    /\ UNCHANGED <<goalActive, manualReserved, stop, status, stage, code,
                   child, cancelCall, announced>>

(* Faulty variant: drains without asking the child to cancel.              *)
DrainSendPassive(g) ==
    /\ pc[g] = "drainSend"
    /\ \/ /\ op[g].send = "refused"
          /\ Raise(g, "FAILURE")
          /\ SetOp(g, NoOp)
       \/ /\ op[g].send = "accepted"
          /\ SetOp(g, [op[g] EXCEPT !.result = IF @ = "none" THEN "pending" ELSE @])
          /\ Goto(g, "drainResult")
          /\ UNCHANGED code
       \/ /\ op[g].send = "failed"
          /\ Goto(g, "held")
          /\ UNCHANGED <<op, code>>
    /\ UNCHANGED <<node, stop, status, stage, child, cancelCall, announced>>

(* _drain_operation_until_terminal: unbounded waits, each ending either    *)
(* with proof that the child stopped or with the goal held until restart.  *)
(* A request to cancel that raises is logged, and the child waited for.    *)
DrainSend(g) ==
    /\ pc[g] = "drainSend"
    /\ \/ /\ op[g].send = "refused"
          /\ Raise(g, "FAILURE")
          /\ SetOp(g, NoOp)
       \/ /\ op[g].send = "accepted"
          /\ \/ SetOp(g, IF op[g].result \in {"none", "pending"}
                           THEN CancelRequestOp(op[g]) ELSE op[g])
             \/ /\ SendFaults /\ op[g].result \in {"none", "pending"}
                /\ SetOp(g, CancelRaisesOp(op[g]))
          /\ Goto(g, "drainResult")
          /\ UNCHANGED code
       \/ /\ \/ op[g].send = "failed"
             \/ SendFaults /\ op[g].send = "accepted" /\ op[g].result = "none"
          /\ Goto(g, "held")
          /\ UNCHANGED <<op, code>>
    /\ UNCHANGED <<node, stop, status, stage, child, cancelCall, announced>>

DrainResult(g) ==
    /\ pc[g] = "drainResult"
    /\ \/ /\ op[g].result \in Outcomes
          /\ Raise(g, "FAILURE")
          /\ SetOp(g, NoOp)
       \/ /\ op[g].result = "unproven"
          /\ Goto(g, "held")
          /\ UNCHANGED <<op, code>>
    /\ UNCHANGED <<node, stop, status, stage, child, cancelCall, announced>>

-----------------------------------------------------------------------------
(* The end of execute() *)

(* Last feedback and last look at the parent; then SUCCEEDED is published  *)
(* before the goal handle makes its transition.                            *)
Finish(g) ==
    /\ pc[g] = "complete"
    /\ \/ /\ Raise(g, IF CancelRequested(g) THEN "CANCELED" ELSE "FAILURE")
          /\ UNCHANGED announced
       \/ /\ ~CancelRequested(g)
          /\ Goto(g, "terminate")
          /\ code' = [code EXCEPT ![g] = "NONE"]
          /\ Announce(g, "SUCCEEDED")
    /\ UNCHANGED <<node, stop, status, stage, op, child, cancelCall>>

(* The except clauses: a TaskFailure is reported as CANCELED exactly when  *)
(* the parent was canceled; any other exception fails the goal.            *)
ReportedCode(g) ==
    IF CancelRequested(g) /\ code[g] # "EXCEPTION" THEN "CANCELED" ELSE "FAILURE"

HandleFailure(g) ==
    /\ pc[g] = "except"
    /\ code' = [code EXCEPT ![g] = ReportedCode(g)]
    /\ Announce(g, IF ReportedCode(g) = "CANCELED" THEN "CANCELED" ELSE "FAILED")
    /\ Goto(g, "terminate")
    /\ UNCHANGED <<node, stop, status, stage, op, child, cancelCall>>

(* Faulty variant: looks at the cancel request again at the last moment.   *)
TerminateRechecking(g) ==
    /\ pc[g] = "terminate"
    /\ status' = [status EXCEPT ![g] =
                    IF CancelRequested(g) THEN "canceled"
                    ELSE IF code[g] = "NONE" THEN "succeeded" ELSE "aborted"]
    /\ Goto(g, "finally")
    /\ UNCHANGED <<node, stop, stage, code, op, child, cancelCall, announced>>

(* goal_handle.succeed(), canceled() or abort()                            *)
Terminate(g) ==
    /\ pc[g] = "terminate"
    /\ status' = [status EXCEPT ![g] =
                    CASE code[g] = "NONE" -> "succeeded"
                      [] code[g] = "CANCELED" -> "canceled"
                      [] OTHER -> "aborted"]
    /\ Goto(g, "finally")
    /\ UNCHANGED <<node, stop, stage, code, op, child, cancelCall, announced>>

(* The finally clause: a blocked node keeps its ownership flag.            *)
Release(g) ==
    /\ pc[g] = "finally"
    /\ goalActive' = IF blocked THEN goalActive ELSE FALSE
    /\ Goto(g, "done")
    /\ UNCHANGED <<manualReserved, blocked, stop, status, stage, code, op,
                   child, cancelCall, announced>>

-----------------------------------------------------------------------------
(* The child action servers and their transport (external) *)

ChildAnswer(g) ==
    /\ child[g][stage[g]] = "queued"
    /\ \E c \in {"running", "refused"} : child' = [child EXCEPT ![g][stage[g]] = c]
    /\ UNCHANGED <<node, stop, goal, op, cancelCall, announced>>

ChildFinish(g) ==
    /\ child[g][stage[g]] = "running"
    /\ \E c \in Outcomes : child' = [child EXCEPT ![g][stage[g]] = c]
    /\ UNCHANGED <<node, stop, goal, op, cancelCall, announced>>

DeliverSend(g) ==
    /\ op[g].send = "pending"
    /\ child[g][stage[g]] # "queued"
    /\ SetOp(g, [op[g] EXCEPT !.send = IF child[g][stage[g]] = "refused"
                                         THEN "refused" ELSE "accepted"])
    /\ UNCHANGED <<node, stop, goal, child, cancelCall, announced>>

DeliverResult(g) ==
    /\ op[g].result = "pending"
    /\ child[g][stage[g]] \in Outcomes
    /\ SetOp(g, [op[g] EXCEPT !.result = child[g][stage[g]]])
    /\ UNCHANGED <<node, stop, goal, child, cancelCall, announced>>

(* A future raises, or the result says STATUS_UNKNOWN, whatever the child  *)
(* is doing.                                                               *)
SendFault(g) ==
    /\ SendFaults
    /\ op[g].send = "pending"
    /\ SetOp(g, [op[g] EXCEPT !.send = "failed"])
    /\ UNCHANGED <<node, stop, goal, child, cancelCall, announced>>

ResultFault(g) ==
    /\ ResultFaults
    /\ op[g].result = "pending"
    /\ SetOp(g, [op[g] EXCEPT !.result = "unproven"])
    /\ UNCHANGED <<node, stop, goal, child, cancelCall, announced>>

-----------------------------------------------------------------------------
Admission(g) ==
    GoalReject(g) \/ GoalClaim(g) \/ LiveReadiness(g) \/ GoalAccept(g)
        \/ GoalGiveUp(g)

Cancellation(g) == CancelCallback(g) \/ CancelCommit(g)

(* The thread inside execute()                                             *)
ExecuteStep(g) ==
    \/ Execute(g) \/ CallFails(g) \/ CallSends(g) \/ WaitGivesUp(g)
    \/ GoalResponse(g) \/ ChildResult(g) \/ Settled(g) \/ SettleFails(g)
    \/ CancelChild(g) \/ CancelResult(g) \/ DrainSend(g) \/ DrainResult(g)
    \/ Finish(g) \/ HandleFailure(g) \/ Terminate(g) \/ Release(g)

Child(g) == ChildAnswer(g) \/ ChildFinish(g)

Transport(g) ==
    DeliverSend(g) \/ DeliverResult(g) \/ SendFault(g) \/ ResultFault(g)

Next ==
    \/ OnStopState \/ ManualAcquire \/ ManualRelease
    \/ \E g \in Goals :
         \/ Admission(g) \/ Cancellation(g) \/ ExecuteStep(g)
         \/ Child(g) \/ Transport(g)

Spec == Init /\ [][Next]_vars

(* Fairness.  The executor keeps running callbacks and every wait of       *)
(* execute() has a finite deadline, so its thread always moves on unless   *)
(* it is in an unbounded drain; a goal that was claimed is answered; a     *)
(* cancel request that was received is processed.                          *)
NodeFairness ==
    \A g \in Goals :
      /\ WF_vars(ExecuteStep(g))
      /\ WF_vars(LiveReadiness(g) \/ GoalAccept(g) \/ GoalGiveUp(g))
      /\ WF_vars(CancelCommit(g))

FairSpec == Spec /\ NodeFairness

(* Cooperative children: requests are answered, responses arrive, and a    *)
(* child that has been asked to cancel ends.  Nothing is assumed of a      *)
(* child that was not asked.                                               *)
ChildFairness ==
    \A g \in Goals :
      /\ WF_vars(ChildAnswer(g))
      /\ WF_vars(op[g].asked = "yes" /\ ChildFinish(g))
      /\ WF_vars(DeliverSend(g))
      /\ WF_vars(DeliverResult(g))

CooperativeSpec == FairSpec /\ ChildFairness

-----------------------------------------------------------------------------
(* Properties *)

(* Every variable holds a value of its kind.                               *)
TypeOK ==
    /\ goalActive \in BOOLEAN
    /\ manualReserved \in BOOLEAN
    /\ blocked \in BOOLEAN
    /\ stopReceived \in BOOLEAN
    /\ stopLatched \in BOOLEAN
    /\ status \in [Goals -> StatusValues]
    /\ pc \in [Goals -> PcValues]
    /\ stage \in [Goals -> Stages]
    /\ code \in [Goals -> Codes]
    /\ op \in [Goals -> Ops]
    /\ child \in [Goals -> [Stages -> ChildValues]]
    /\ cancelCall \in [Goals -> BOOLEAN]
    /\ announced \in [Goals -> Announcements]

(* The goal is being vetted or served, or something it started may move.   *)
Serving(g) == pc[g] \notin {"idle", "done"}
Owns(g) == Serving(g) \/ \E k \in Stages : MayMove(g, k)

(* A goal reported as ended has no child that may still act on the robot:  *)
(* whatever mixture of cancellation, timeout, late goal response, raising  *)
(* future and unprovable result ended it.                                  *)
ParentOutlivesChild ==
    \A g \in Goals : status[g] \in TerminalStatus =>
        \A k \in Stages : ~MayMove(g, k)

(* The robot has one owner: no two goals are vetted or served, or have a   *)
(* child that may move, at the same time, no goal has two such children,   *)
(* and manual control is granted only while no goal owns the robot.        *)
SingleOwner ==
    /\ \A g, h \in Goals : Owns(g) /\ Owns(h) => g = h
    /\ \A g \in Goals, j, k \in Stages : MayMove(g, j) /\ MayMove(g, k) => j = k
    /\ manualReserved => \A g \in Goals : ~Owns(g)

(* A stage is started only after every earlier stage this goal needs has   *)
(* succeeded; AutoLocalize alone may be absent (already localized).        *)
StagesInOrder ==
    \A g \in Goals, j, k \in Stages :
        /\ j < k
        /\ Runs(g, j)
        /\ child[g][k] # "none"
        => child[g][j] = "ok" \/ (j = 1 /\ child[g][j] = "none")

(* A goal succeeds only if its whole pipeline succeeded, its cancellation  *)
(* is honest (canceled() is reached only from CANCELING, where it is a     *)
(* legal transition), and the one terminal status on /task/events is the   *)
(* one the action server reports.                                          *)
OutcomeIsTruthful ==
    \A g \in Goals :
        /\ status[g] = "succeeded" =>
             \A k \in Stages \ {1} : Runs(g, k) => child[g][k] = "ok"
        /\ (pc[g] = "terminate" /\ code[g] = "CANCELED") => status[g] = "canceling"
        /\ status[g] \in TerminalStatus =>
             announced[g] = CASE status[g] = "succeeded" -> "SUCCEEDED"
                              [] status[g] = "canceled" -> "CANCELED"
                              [] status[g] = "aborted" -> "FAILED"

(* Once a cancellation could not be completed in time, neither a new goal  *)
(* nor manual control is ever admitted again, not even after the late      *)
(* child has stopped and its goal has ended.                               *)
BlockedAdmitsNothing ==
    [][blocked => /\ blocked'
                  /\ manualReserved' => manualReserved
                  /\ \A g \in Goals : Owns(g)' => Owns(g)]_vars

(* A live goal is accepted only on a stop state that is known and clear at *)
(* the moment of acceptance, although readiness was sampled earlier and    *)
(* outside the lock.                                                       *)
AcceptedWithStopClear ==
    [][\A g \in LiveGoals :
         status[g] = "unsent" /\ status'[g] = "accepted" =>
             stopReceived /\ ~stopLatched]_vars

(* The node implements the abstract life cycle.                            *)
Servers == {g \in Goals : Serving(g)}

RobotOwner == IF manualReserved THEN "manual"
              ELSE IF Servers = {} THEN "nobody"
              ELSE CHOOSE g \in Servers : TRUE

GoalPhase(g) == CASE status[g] = "unsent" /\ pc[g] = "idle" -> "new"
                  [] status[g] = "unsent" /\ pc[g] # "idle" -> "vetting"
                  [] status[g] \in {"accepted", "executing", "canceling"} -> "active"
                  [] OTHER -> status[g]

Moving == {g \in Goals : \E k \in Stages : MayMove(g, k)}

Lifecycle == INSTANCE TaskLifecycle WITH
    Goals <- Goals,
    Nobody <- "nobody",
    Manual <- "manual",
    owner <- RobotOwner,
    phase <- [g \in Goals |-> GoalPhase(g)],
    moving <- Moving,
    closed <- blocked

RefinesLifecycle == Lifecycle!Spec

(* Liveness.  Whatever the children do, an accepted goal ends or the node  *)
(* declares itself blocked: no wait of execute() is left without an exit.  *)
GoalEndsOrBlocks ==
    \A g \in Goals : status[g] = "accepted" ~>
        (status[g] \in TerminalStatus \/ blocked)

(* The drain waits, without a deadline, for a child that could not be      *)
(* asked to stop: every request to cancel raised.                          *)
DrainsUnasked(g) == pc[g] = "drainResult" /\ op[g].asked = "raised"

(* With cooperative children, an accepted goal ends, even after the node   *)
(* is blocked, unless the proof that its child stopped was lost, or the    *)
(* child could not be asked to stop, because the request itself raised.    *)
GoalEndsIfChildrenCooperate ==
    ChildFairness =>
        \A g \in Goals : status[g] = "accepted" ~>
            (status[g] \in TerminalStatus \/ pc[g] = "held" \/ DrainsUnasked(g))

=============================================================================
