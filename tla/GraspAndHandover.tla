------------------------- MODULE GraspAndHandover -------------------------
(***************************************************************************)
(* The two servers that move the right arm for a task:                     *)
(* xlerobot_manipulation/src/grasp_object_server.cpp (GraspObject and      *)
(* PrepareGrasp, one reservation for both) and handover_object_server.cpp. *)
(*                                                                         *)
(* A worker thread walks a fixed route of steps.  A step computes or waits *)
(* on its own, or is a child action: a trajectory, the learned policy, the *)
(* verification of the grasp, which runs on while the gripper is measured. *)
(* cancel_active_ holds the function that asks the child to stop; the      *)
(* worker calls it when it gives up, a thread of the executor in           *)
(* handle_cancel, which copies it under its mutex and calls the copy after *)
(* that, whatever the worker has done meanwhile.  Goals, cancellations and *)
(* the answers of children come in one at a time: the node has only its    *)
(* default callback group, which is mutually exclusive.  The action client *)
(* forgets a child with its result, and to ask a forgotten child throws;   *)
(* so does canceled() on a goal that nobody asked to cancel.  Thrown where *)
(* nothing catches it, either ends the process.                            *)
(*                                                                         *)
(* Controllers, policy, verification and planner are external.             *)
(***************************************************************************)
EXTENDS Naturals, Sequences

VARIABLE arm

Attempts == 2                                   \* kMaximumGraspAttempts
Idling == {"plan", "settle", "held", "wait", "measure"}      \* no child action
ChildEnded == {"none", "rejected", "succeeded", "failed", "canceled"}

(* What a goal does, in the order of the code.                             *)
Prepare == <<"plan", "gripper", "pregrasp", "settle">>
Check == <<"ready", "verify", "measure", "judge", "head">>
Route(kind, dry) ==
    CASE kind = "act" ->
           IF dry THEN <<"plan", "policy">> ELSE Prepare \o <<"policy">> \o Check
      [] kind = "prepare" -> IF dry THEN <<"plan">> ELSE Prepare
      [] kind = "classical" ->
           IF dry THEN <<"plan", "plan", "plan">>
           ELSE <<"gripper", "plan", "pregrasp", "settle", "plan", "descend",
                  "settle", "close", "plan", "lift", "settle">> \o Check
      [] kind = "handover" ->
           IF dry THEN << >>
           ELSE <<"held", "pose", "wait", "release", "ready", "close">>

NoChild == [state |-> "none", asked |-> FALSE]

InitArm ==
    arm = [pc      |-> "idle",     \* "dead": the process has ended
           kind    |-> "act",
           route   |-> << >>,
           at      |-> 1,
           attempt |-> 1,
           cancel  |-> "none",     \* "called": in handle_cancel; "canceling"
           call    |-> "none",     \* whom handle_cancel is about to ask
           child   |-> NoChild,
           active  |-> FALSE,      \* cancel_active_ is set
           image   |-> FALSE,      \* the verification has its wrist image
           closed  |-> FALSE,      \* the gripper was measured fully closed
           verdict |-> "none",     \* of this attempt: held or empty
           adrift  |-> {},         \* what the last goal left that may move
           told    |-> "none"]

Step(a) == a.route[a.at]
AskChild(a) == [a EXCEPT !.child.asked = TRUE]

(* The function that handle_cancel has copied when the worker lets go of   *)
(* the child: it will ask one that the client has forgotten, or a stray.   *)
Copied(a) ==
    IF a.call # "child" THEN a.call
    ELSE IF a.child.state \in ChildEnded THEN "gone" ELSE "stray"

(* The goal ends and its reservation with it; a child whose end was not    *)
(* seen may go on.                                                         *)
EndArm(a, told) ==
    [a EXCEPT !.pc = "idle", !.told = told, !.child = NoChild, !.active = FALSE,
              !.call = Copied(a),
              !.adrift = IF a.child.state \in ChildEnded THEN {}
                         ELSE {[asked |-> a.child.asked,
                                seen |-> a.pc # "response"]}]

(* A failure is reported as a cancellation once the goal is canceling.     *)
FailArm(a) == EndArm(a, IF a.cancel = "canceling" THEN "canceled" ELSE "aborted")

(* A child that was canceled: failure.canceled, whoever asked.             *)
Die(a) == [a EXCEPT !.pc = "dead"]
ChildCanceled(a) ==
    IF a.cancel = "canceling" THEN EndArm(a, "canceled") ELSE Die(a)

(* cancel_active_child and throw; on a child that has just ended the       *)
(* client throws first, and that is an internal error.                     *)
GiveUpChild(a) ==
    IF a.child.state \in ChildEnded THEN EndArm(a, "aborted") ELSE FailArm(AskChild(a))

(* The next step; the verdict is awaited of the child that already runs.   *)
GoTo(a, i) ==
    LET judges == a.route[i] = "judge"
    IN  [a EXCEPT !.at = i, !.active = judges,
                  !.pc = IF judges THEN "result" ELSE "step"]

Onwards(a) ==
    IF a.at < Len(a.route) THEN GoTo(a, a.at + 1)
    ELSE IF a.verdict = "empty" THEN FailArm(a) ELSE EndArm(a, "succeeded")

(* An empty hand: once more from the start, or raise the head and fail.    *)
VerificationFailed(a) ==
    IF a.attempt < Attempts
    THEN [GoTo(a, 1) EXCEPT !.attempt = @ + 1, !.verdict = "none"]
    ELSE [GoTo(a, Len(a.route)) EXCEPT !.verdict = "empty"]

-----------------------------------------------------------------------------
(* handle_goal refuses a second goal while one is reserved.                *)
StartArm ==
    /\ arm.pc = "idle" /\ arm.call = "none"
    /\ \E kind \in {"act", "prepare", "classical", "handover"}, dry \in BOOLEAN :
         LET a == [arm EXCEPT !.kind = kind, !.route = Route(kind, dry), !.at = 1,
                              !.attempt = 1, !.cancel = "none", !.told = "none",
                              !.verdict = "none", !.image = FALSE]
         IN  arm' = IF a.route = << >> THEN EndArm(a, "succeeded") ELSE GoTo(a, 1)

(* handle_cancel, one request at a time: cancel_active_ is copied, ...     *)
CancelArm ==
    /\ arm.pc \notin {"idle", "dead"} /\ arm.cancel = "none" /\ arm.call = "none"
    /\ arm' = [arm EXCEPT !.cancel = "called",
                          !.call = IF arm.active THEN "child" ELSE "none"]

(* ... and the copy is called, which nothing catches for.  The child it    *)
(* asks may be gone by now, and the next one sent.                         *)
CallArmCancel ==
    /\ arm.pc # "dead" /\ arm.call # "none"
    /\ \/ /\ arm.call = "child" /\ arm.child.state \notin ChildEnded
          /\ arm' = [AskChild(arm) EXCEPT !.call = "none"]
       \/ arm.call = "stray" /\ arm' = [arm EXCEPT !.call = "none"]
       \/ /\ arm.call = "gone" \/ (arm.call = "child" /\ arm.child.state \in ChildEnded)
          /\ arm' = Die(arm)

(* Then the goal is canceling, if it has not ended.                        *)
ArmIsCanceling ==
    /\ arm.pc \notin {"idle", "dead"} /\ arm.cancel = "called" /\ arm.call = "none"
    /\ arm' = [arm EXCEPT !.cancel = "canceling"]

(* Planning, settling, holding still or measuring: done, or the deadline,  *)
(* a refusal, a stale state, a cancellation.  The wait before the release  *)
(* ends early only when the goal is canceled.  A verification that runs    *)
(* is asked to stop.                                                       *)
WorkAlone ==
    /\ arm.pc = "step" /\ Step(arm) \in Idling
    /\ \/ \E closed \in IF Step(arm) = "measure" THEN BOOLEAN ELSE {arm.closed} :
            arm' = Onwards([arm EXCEPT !.closed = closed])
       \/ /\ Step(arm) = "wait" => arm.cancel = "canceling"
          /\ arm' = FailArm(AskChild(arm))

(* wait_for_action and async_send_goal.                                    *)
SendChild ==
    /\ arm.pc = "step" /\ Step(arm) \notin Idling
    /\ \/ arm' = [arm EXCEPT !.pc = "response", !.image = FALSE, !.call = Copied(arm),
                             !.child = [state |-> "sent", asked |-> FALSE]]
       \/ arm' = FailArm(arm)

(* The response to the goal.  A refusal fails the goal; what is not there  *)
(* is given up, with nobody to take the answer; only the handover looks,   *)
(* before it goes on, whether it was canceled meanwhile.                   *)
AwaitChildResponse ==
    /\ arm.pc = "response"
    /\ \/ arm' = FailArm(arm)
       \/ /\ arm.child.state = "live"
          /\ arm' = IF arm.kind = "handover" /\ arm.cancel = "canceling"
                    THEN FailArm([AskChild(arm) EXCEPT !.pc = "result"])
                    ELSE [arm EXCEPT !.active = TRUE,
                            !.pc = IF Step(arm) = "verify" THEN "image"
                                   ELSE "result"]

(* The verification has one second to take its picture.                    *)
AwaitImage ==
    /\ arm.pc = "image"
    /\ \/ arm.image /\ arm' = Onwards(arm)
       \/ arm' = GiveUpChild(arm)

(* The worker takes the result, or found none and gives up: the goal is    *)
(* canceling or the time is up.                                            *)
AwaitChildResult ==
    /\ arm.pc = "result" /\ Step(arm) # "judge"
    /\ \/ arm.child.state = "succeeded" /\ arm' = Onwards(arm)
       \/ arm.child.state = "failed" /\ arm' = FailArm(arm)
       \/ arm.child.state = "canceled" /\ arm' = ChildCanceled(arm)
       \/ arm' = GiveUpChild(arm)

(* finish_grasp_verification: a hand reported empty is believed only if    *)
(* the gripper was closed all the way.                                     *)
JudgeGrasp ==
    /\ arm.pc = "result" /\ Step(arm) = "judge"
    /\ \/ /\ arm.child.state \in {"succeeded", "failed"}
          /\ arm' = IF arm.closed THEN VerificationFailed(arm)
                    ELSE Onwards([arm EXCEPT !.verdict = "held"])
       \/ /\ arm.child.state = "succeeded"
          /\ arm' = Onwards([arm EXCEPT !.verdict = "held"])
       \/ arm.child.state \in {"succeeded", "failed"} /\ arm' = FailArm(arm)
       \/ arm.child.state = "canceled" /\ arm' = ChildCanceled(arm)
       \/ arm' = GiveUpChild(arm)

ArmStep ==
    \/ WorkAlone \/ SendChild \/ AwaitChildResponse \/ AwaitImage
    \/ AwaitChildResult \/ JudgeGrasp

(* The child actions (external): they accept or refuse, and end in any way *)
(* (also canceled by others, as when a controller is deactivated); the     *)
(* verification says when it has its picture.  A result is asked for only  *)
(* after the response.                                                     *)
ChildServer ==
    \/ /\ arm.child.state = "sent"
       /\ \E s \in {"live", "rejected"} : arm' = [arm EXCEPT !.child.state = s]
    \/ /\ arm.child.state = "live" /\ arm.pc \notin {"response", "dead"}
       /\ arm.call = "none"
       /\ \E s \in {"succeeded", "failed", "canceled"} :
            arm' = [arm EXCEPT !.child.state = s]
    \/ arm.pc = "image" /\ arm.child.state = "live" /\ arm' = [arm EXCEPT !.image = TRUE]
    \/ \E c \in arm.adrift : arm' = [arm EXCEPT !.adrift = @ \ {c}]

NextArm ==
    \/ StartArm \/ CancelArm \/ CallArmCancel \/ ArmIsCanceling
    \/ ArmStep \/ ChildServer

ArmFairness == WF_arm(ArmStep)

-----------------------------------------------------------------------------
(* The arm is told to move only when what it was told before has ended,    *)
(* and nothing runs that could not be stopped but the verification while   *)
(* the gripper is measured.  Of an ended goal nothing moves that was known *)
(* to run and was not asked to stop (what was given up before it was       *)
(* accepted is the exception), and of a process that died nothing at all,  *)
(* unless it died of a cancellation that had copied the function of an     *)
(* earlier child, and called it after the worker had sent this one.        *)
ArmIsMinded ==
    /\ arm.pc = "step" /\ Step(arm) # "measure" => arm.child.state \in ChildEnded
    /\ arm.pc \in {"image", "result"} => arm.active
    /\ \A c \in arm.adrift : c.seen => c.asked
    /\ arm.pc = "dead" => arm.child.state \in ChildEnded \/ arm.call = "gone"

(* A grasp is reported only if the attempt it ends with was judged to hold *)
(* the object, whatever the attempt before was judged; and it is given up  *)
(* for an empty hand only if the gripper was closed all the way in the     *)
(* last attempt, which is not the first.                                   *)
GraspIsJudged ==
    /\ arm.told = "succeeded" /\ "judge" \in {arm.route[i] : i \in DOMAIN arm.route}
         => arm.verdict = "held"
    /\ arm.verdict = "empty" => arm.closed /\ arm.attempt = Attempts

ArmIsOver == arm.pc \in {"idle", "dead"}

=============================================================================
