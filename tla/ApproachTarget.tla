--------------------------- MODULE ApproachTarget ---------------------------
(***************************************************************************)
(* Driving up to a person: xlerobot_navigation/src/                        *)
(* approach_target_server.cpp.                                             *)
(*                                                                         *)
(* A worker thread goes through the standoffs, the one asked for first:    *)
(* has Nav2 compute a path, drives, and on a failure backs up once and     *)
(* tries the same standoff again; then it takes the next.  cancel_active_  *)
(* holds the function that asks the child to stop, for the worker and for  *)
(* handle_cancel, which copies it under its mutex and calls the copy after *)
(* that.  Goals, cancellations and Nav2's answers come in one at a time    *)
(* (one callback group, mutually exclusive).  The action client forgets a  *)
(* child with its result, and asking a forgotten child throws: an internal *)
(* error in the worker, the end of the process in handle_cancel.           *)
(*                                                                         *)
(* Nav2 and the transforms are external.                                   *)
(***************************************************************************)
EXTENDS Naturals

CONSTANT Standoffs          \* how many candidates there are

ASSUME StandoffsAssumption == Standoffs \in Nat \ {0}

VARIABLE approach

AtRest == {"none", "rejected", "succeeded", "failed", "canceled"}
NoMove == [of |-> "none", state |-> "none", asked |-> FALSE]

InitApproach ==
    approach = [pc        |-> "idle",   \* "dead": the process has ended
                dry       |-> FALSE,
                candidate |-> 1,
                backedUp  |-> FALSE,
                cancel    |-> "none",   \* "called": in handle_cancel; "canceling"
                call      |-> "none",   \* whom handle_cancel is about to ask
                child     |-> NoMove,
                active    |-> FALSE,    \* cancel_active_ is set
                adrift    |-> {},       \* given up by this goal, may move
                told      |-> "none"]

AskMove(a) == [a EXCEPT !.child.asked = TRUE]

(* A child that is left behind, and with it the function to cancel it that *)
(* handle_cancel may have copied.  A path that is computed moves nothing.  *)
Leave(a) ==
    [a EXCEPT !.child = NoMove, !.active = FALSE,
              !.call = IF @ # "child" THEN @
                       ELSE IF a.child.state \in AtRest THEN "gone" ELSE "stray",
              !.adrift = IF a.child.state \in AtRest \/ a.child.of = "path" THEN @
                 ELSE @ \cup {[of |-> a.child.of, asked |-> a.child.asked,
                               seen |-> a.pc # "response"]}]

EndApproach(a, told) == [Leave(a) EXCEPT !.pc = "idle", !.told = told]

(* A failure is reported as a cancellation once the goal is canceling.     *)
FailApproach(a, told) ==
    EndApproach(a, IF a.cancel = "canceling" THEN "canceled" ELSE told)

(* check_parent with a child that is active: ask it, and throw; the client *)
(* throws first if the child has just ended.                               *)
Obey(a) ==
    IF a.child.state \in AtRest THEN EndApproach(a, "aborted")
    ELSE EndApproach(AskMove(a), "canceled")

NextStandoff(a) ==
    IF a.candidate < Standoffs
    THEN [Leave(a) EXCEPT !.pc = "plan", !.candidate = @ + 1]
    ELSE FailApproach(a, "aborted")

(* A drive that failed: one backup for the goal, then the next standoff.   *)
DriveFailed(a) ==
    IF a.backedUp THEN NextStandoff(a)
    ELSE [Leave(a) EXCEPT !.pc = "backup", !.backedUp = TRUE]

SendMove(a, of) ==
    [a EXCEPT !.pc = "response",
              !.child = [of |-> of, state |-> "sent", asked |-> FALSE]]

-----------------------------------------------------------------------------
(* handle_goal refuses a second goal while one is reserved; the target may *)
(* be too far, unknown, or execution disabled.                             *)
StartApproach ==
    /\ approach.pc = "idle" /\ approach.call = "none"
    /\ \E dry \in BOOLEAN :
         LET a == [approach EXCEPT !.pc = "plan", !.dry = dry, !.candidate = 1,
                     !.backedUp = FALSE, !.cancel = "none", !.adrift = {},
                     !.told = "none"]
         IN  approach' \in {a, EndApproach(a, "aborted")}

(* handle_cancel, one request at a time: cancel_active_ is copied, ...     *)
CancelApproach ==
    /\ approach.pc \notin {"idle", "dead"}
    /\ approach.cancel = "none" /\ approach.call = "none"
    /\ approach' = [approach EXCEPT
                      !.cancel = "called",
                      !.call = IF approach.active THEN "child" ELSE "none"]

(* ... and the copy is called, which nothing catches for.  The child it    *)
(* asks may be gone by now, and the next one sent.                         *)
CallApproachCancel ==
    /\ approach.pc # "dead" /\ approach.call # "none"
    /\ \/ /\ approach.call = "child" /\ approach.child.state \notin AtRest
          /\ approach' = [AskMove(approach) EXCEPT !.call = "none"]
       \/ approach.call = "stray" /\ approach' = [approach EXCEPT !.call = "none"]
       \/ /\ \/ approach.call = "gone"
             \/ approach.call = "child" /\ approach.child.state \in AtRest
          /\ approach' = [approach EXCEPT !.pc = "dead"]

(* Then the goal is canceling, if it has not ended.                        *)
ApproachIsCanceling ==
    /\ approach.pc \notin {"idle", "dead"}
    /\ approach.cancel = "called" /\ approach.call = "none"
    /\ approach' = [approach EXCEPT !.cancel = "canceling"]

(* The top of the loop; the pose of the robot or the planner may be        *)
(* unavailable.                                                            *)
Plan ==
    /\ approach.pc = "plan"
    /\ \/ approach' = FailApproach(approach, "unavailable")
       \/ /\ approach.cancel # "canceling"
          /\ approach' \in {NextStandoff(approach), SendMove(approach, "path")}

(* There is a path: drive, unless the time for all drives is over.         *)
Drive ==
    /\ approach.pc = "drive"
    /\ \/ approach' \in {FailApproach(approach, told) : told \in {"aborted", "unavailable"}}
       \/ approach.cancel # "canceling" /\ approach' = SendMove(approach, "nav")

BackUp ==
    /\ approach.pc = "backup"
    /\ \/ approach.cancel = "canceling" /\ approach' = EndApproach(approach, "canceled")
       \/ approach' = NextStandoff(approach)
       \/ approach.cancel # "canceling" /\ approach' = SendMove(approach, "backup")

WithoutMove(a) == IF a.child.of = "nav" THEN DriveFailed(a) ELSE NextStandoff(a)

(* The response to a goal.  A drive's is waited for even if the goal is    *)
(* canceled; what is given up has nobody to take the answer.               *)
AwaitAcceptance ==
    /\ approach.pc = "response"
    /\ \/ approach.child.state = "rejected" /\ approach' = WithoutMove(approach)
       \/ approach.child.state = "sent" /\ approach' = WithoutMove(approach)
       \/ /\ approach.cancel = "canceling" /\ approach.child.of # "nav"
          /\ approach' = EndApproach(approach, "canceled")
       \/ /\ approach.child.state = "live"
          /\ LET a == [approach EXCEPT !.pc = "result"]
             IN  approach' = IF approach.child.of = "nav" /\ approach.cancel = "canceling"
                             THEN Obey(a) ELSE [a EXCEPT !.active = TRUE]

(* The result of a child, whoever ended it.                                *)
Arrived(a) ==
    CASE a.child.of = "path" ->
           IF a.child.state # "succeeded" THEN NextStandoff(a)
           ELSE IF a.dry THEN EndApproach(a, "succeeded")
           ELSE [Leave(a) EXCEPT !.pc = "drive"]
      [] a.child.of = "backup" ->
           IF a.child.state = "succeeded" THEN [Leave(a) EXCEPT !.pc = "plan"]
           ELSE IF a.child.state = "canceled" /\ a.cancel = "canceling"
                THEN EndApproach(a, "canceled")
           ELSE NextStandoff(a)
      [] a.child.of = "nav" ->
           CASE a.child.state = "succeeded" -> EndApproach(a, "succeeded")
             [] a.child.state = "failed" -> DriveFailed(a)
             [] a.child.state = "canceled" ->      \* canceled() needs a request
                  IF a.cancel = "canceling" THEN EndApproach(a, "canceled")
                  ELSE [a EXCEPT !.pc = "dead"]

(* The result, or a cancellation, or the deadline: the drive is asked and  *)
(* waited for; a path and a backup are asked, and that is all.             *)
AwaitArrival ==
    /\ approach.pc = "result"
    /\ \/ approach.child.state \in AtRest /\ approach' = Arrived(approach)
       \/ approach.cancel = "canceling" /\ approach' = Obey(approach)
       \/ approach' = IF approach.child.state \in AtRest
                      THEN EndApproach(approach, "aborted")
                      ELSE IF approach.child.of = "nav"
                      THEN [AskMove(approach) EXCEPT !.pc = "stop"]
                      ELSE NextStandoff(AskMove(approach))

(* Two seconds for the drive to stop.  It is asked twice, and may have     *)
(* ended when it is asked again.                                           *)
AwaitStandstill ==
    /\ approach.pc = "stop"
    /\ \/ approach.cancel = "canceling" /\ approach' = Obey(approach)
       \/ approach.child.state \in AtRest /\ approach' = DriveFailed(approach)
       \/ approach.child.state \in AtRest /\ approach' = EndApproach(approach, "aborted")
       \/ /\ approach.child.state \notin AtRest
          /\ approach' = FailApproach(approach, "unavailable")

ApproachStep ==
    \/ Plan \/ Drive \/ BackUp
    \/ AwaitAcceptance \/ AwaitArrival \/ AwaitStandstill

(* Nav2 (external) answers, and ends what runs, also when others cancel    *)
(* it; a result is asked for only after the response.                      *)
MoveServer ==
    \/ /\ approach.child.state = "sent"
       /\ \E s \in {"live", "rejected"} :
            approach' = [approach EXCEPT !.child.state = s]
    \/ /\ approach.child.state = "live" /\ approach.pc # "response"
       /\ approach.call = "none"
       /\ \E s \in {"succeeded", "failed", "canceled"} :
            approach' = [approach EXCEPT !.child.state = s]
    \/ \E m \in approach.adrift : approach' = [approach EXCEPT !.adrift = @ \ {m}]

NextApproach ==
    \/ StartApproach \/ CancelApproach \/ CallApproachCancel
    \/ ApproachIsCanceling \/ ApproachStep \/ MoveServer

ApproachFairness == WF_approach(ApproachStep)

-----------------------------------------------------------------------------
(* What was known to run and was given up has been asked to stop.  While   *)
(* the goal goes on, only a backup of this kind may move beside what it    *)
(* does next, and a drive that was given up before it was accepted (nobody *)
(* takes its answer); a drive that was known to run is left only by a goal *)
(* that ends, and that never as a success.  A process that died leaves     *)
(* nothing that was not asked, and moves nothing itself, unless it died of *)
(* a cancellation that had copied the function of an earlier child, and    *)
(* called it after the worker had sent this one.                           *)
ApproachIsMinded ==
    /\ \A m \in approach.adrift :
         m.seen => /\ m.asked
                   /\ m.of = "nav" => /\ approach.pc \in {"idle", "dead"}
                                      /\ approach.told \in {"canceled", "unavailable"}
    /\ approach.pc \in {"plan", "drive", "backup", "dead"} =>
         \/ approach.child.state \in AtRest
         \/ approach.pc = "dead" /\ approach.call = "gone"

ApproachIsOver == approach.pc \in {"idle", "dead"}

=============================================================================
