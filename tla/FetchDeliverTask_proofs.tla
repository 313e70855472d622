----------------------- MODULE FetchDeliverTask_proofs -----------------------
(***************************************************************************)
(* Proofs about the fetch-and-deliver server, for every set of goals, every*)
(* admissible pipeline and every choice of fault parameters.               *)
(***************************************************************************)
EXTENDS FetchDeliverTask, TLAPS

-----------------------------------------------------------------------------
(* The pipeline *)

(* There is a second stage, which Execute starts at when it skips the      *)
(* first.                                                                  *)
LEMMA PipelineLength == Len(Pipeline) \in Nat /\ 1 \in Stages /\ 2 \in Stages
  BY PipelineAssumption DEF Stages

(* The stage that follows is a stage, or there is none left.               *)
LEMMA FollowingIsStage ==
  ASSUME NEW g \in Goals, NEW k \in Stages
  PROVE  Following(g, k) \in Stages \cup {Complete}
<1>1. CASE k + 1 \in Stages /\ ~Runs(g, k + 1)
  <2>1. Pipeline[k + 1] \in Optional
    BY <1>1 DEF Runs, Optional
  <2>2. (k + 1) + 1 \in Stages
    BY <1>1, <2>1, PipelineAssumption
  <2>3. (k + 1) + 1 = k + 2
    BY DEF Stages
  <2> QED
    BY <1>1, <2>2, <2>3 DEF Following
<1>2. CASE ~(k + 1 \in Stages /\ ~Runs(g, k + 1))
  <2>1. Following(g, k) = k + 1
    BY <1>2 DEF Following
  <2>2. k + 1 \in Stages \cup {Complete}
    BY PipelineLength DEF Stages, Complete
  <2> QED
    BY <2>1, <2>2
<1> QED
  BY <1>1, <1>2

(* Advancing keeps the stage a stage and the control point a known one.    *)
LEMMA AdvanceTypes ==
  ASSUME NEW g \in Goals, TypeOK, Advance(g)
  PROVE  stage' \in [Goals -> Stages] /\ pc' \in [Goals -> PcValues]
<1>1. stage[g] \in Stages
  BY DEF TypeOK
<1>2. Following(g, stage[g]) \in Stages \cup {Complete}
  BY <1>1, FollowingIsStage
<1> QED
  BY <1>2 DEF Advance, Goto, TypeOK, PcValues

-----------------------------------------------------------------------------
(* Type correctness *)

(* The operations are closed under what the node and the transport do.     *)
LEMMA OpTypes ==
  /\ NoOp \in Ops
  /\ [NoOp EXCEPT !.send = "pending"] \in Ops
  /\ \A o \in Ops :
       /\ CancelRequestOp(o) \in Ops /\ CancelRaisesOp(o) \in Ops
       /\ \A s \in SendValues : [o EXCEPT !.send = s] \in Ops
       /\ \A r \in ResultValues : [o EXCEPT !.result = r] \in Ops
<1>1. NoOp \in Ops /\ [NoOp EXCEPT !.send = "pending"] \in Ops
  BY DEF NoOp, Ops, SendValues, ResultValues
<1>2. ASSUME NEW o \in Ops PROVE CancelRequestOp(o) \in Ops /\ CancelRaisesOp(o) \in Ops
  <2>1. CASE o.result = "none"
    BY <2>1 DEF CancelRequestOp, CancelRaisesOp, Ops, ResultValues
  <2>2. CASE o.result # "none"
    BY <2>2 DEF CancelRequestOp, CancelRaisesOp, Ops
  <2> QED
    BY <2>1, <2>2
<1>3. ASSUME NEW o \in Ops
      PROVE  /\ \A s \in SendValues : [o EXCEPT !.send = s] \in Ops
             /\ \A r \in ResultValues : [o EXCEPT !.result = r] \in Ops
  BY DEF Ops
<1> QED
  BY <1>1, <1>2, <1>3

(* An operation is replaced by an operation: whole, by a new result, or by *)
(* a new goal response.                                                    *)
LEMMA OpReplaced ==
  ASSUME NEW g \in Goals, TypeOK, NEW o \in Ops, SetOp(g, o)
  PROVE  op' \in [Goals -> Ops]
  BY DEF SetOp, TypeOK

LEMMA ResultReplaced ==
  ASSUME NEW g \in Goals, TypeOK, NEW r \in ResultValues,
         SetOp(g, [op[g] EXCEPT !.result = r])
  PROVE  op' \in [Goals -> Ops]
<1> DEFINE o == [op[g] EXCEPT !.result = r]
<1>1. o \in Ops
  BY OpTypes DEF TypeOK
<1> HIDE DEF o
<1> QED
  BY <1>1, OpReplaced DEF o

LEMMA SendReplaced ==
  ASSUME NEW g \in Goals, TypeOK, NEW r \in SendValues,
         SetOp(g, [op[g] EXCEPT !.send = r])
  PROVE  op' \in [Goals -> Ops]
<1> DEFINE o == [op[g] EXCEPT !.send = r]
<1>1. o \in Ops
  BY OpTypes DEF TypeOK
<1> HIDE DEF o
<1> QED
  BY <1>1, OpReplaced DEF o

LEMMA TypeInit == Init => TypeOK
<1> SUFFICES ASSUME Init PROVE TypeOK
  OBVIOUS
<1>1. op \in [Goals -> Ops] /\ stage \in [Goals -> Stages]
  BY OpTypes, PipelineLength DEF Init
<1>2. child \in [Goals -> [Stages -> ChildValues]]
  BY DEF Init, ChildValues
<1> QED
  BY <1>1, <1>2
     DEF Init, TypeOK, StatusValues, PcValues, Codes, Announcements

LEMMA TypeNext == TypeOK /\ [Next]_vars => TypeOK'
<1> SUFFICES ASSUME TypeOK, [Next]_vars PROVE TypeOK'
  OBVIOUS
<1> USE DEF TypeOK
<1>1. CASE UNCHANGED vars
  BY <1>1 DEF vars, node, stop, goal
<1>2. CASE OnStopState \/ ManualAcquire \/ ManualRelease
  BY <1>2 DEF OnStopState, ManualAcquire, ManualRelease, node, stop, goal
<1>3. ASSUME NEW g \in Goals, Admission(g) PROVE TypeOK'
  BY <1>3 DEF Admission, GoalReject, GoalClaim, LiveReadiness, GoalAccept,
       GoalGiveUp, Goto, StatusValues, PcValues, node, stop, goal
<1>4. ASSUME NEW g \in Goals, Cancellation(g) PROVE TypeOK'
  BY <1>4 DEF Cancellation, CancelCallback, CancelCommit, StatusValues,
       TerminalStatus, node, stop, goal
<1>5. ASSUME NEW g \in Goals, ExecuteStep(g) PROVE TypeOK'
  <2> USE DEF Goto, Raise, PcValues, Codes, node, stop, goal
  <2>0. /\ op[g] \in Ops
        /\ stage[g] \in Stages
        /\ NoOp \in Ops
        /\ [NoOp EXCEPT !.send = "pending"] \in Ops
        /\ CancelRequestOp(op[g]) \in Ops
        /\ CancelRaisesOp(op[g]) \in Ops
    BY OpTypes DEF ResultValues
  <2>1. CASE Execute(g)
    BY <2>1, PipelineLength DEF Execute, StatusValues
  <2>2. CASE CallFails(g)
    BY <2>2 DEF CallFails
  <2>3. CASE CallSends(g)
    <3>1. op' \in [Goals -> Ops]
      BY <2>3, <2>0, OpReplaced DEF CallSends
    <3> QED
      BY <2>3, <2>0, <3>1 DEF CallSends, ChildValues
  <2>4. CASE WaitGivesUp(g)
    BY <2>4 DEF WaitGivesUp
  <2>5. CASE GoalResponse(g)
    <3>1. op' \in [Goals -> Ops]
      <4>1. CASE SetOp(g, NoOp)
        BY <2>0, <4>1, OpReplaced
      <4>2. CASE SetOp(g, [op[g] EXCEPT !.result = "pending"])
        BY <4>2, ResultReplaced DEF ResultValues
      <4>3. CASE op' = op
        BY <4>3
      <4> QED
        BY <2>5, <4>1, <4>2, <4>3 DEF GoalResponse
    <3> QED
      BY <2>5, <3>1 DEF GoalResponse, BlockAndDrain
  <2>6. CASE ChildResult(g)
    <3>1. op' \in [Goals -> Ops]
      BY <2>6, <2>0, OpReplaced DEF ChildResult
    <3> QED
      BY <2>6, <3>1, AdvanceTypes DEF ChildResult, BlockAndDrain
  <2>7. CASE Settled(g)
    BY <2>7, AdvanceTypes DEF Settled
  <2>8. CASE SettleFails(g)
    BY <2>8 DEF SettleFails
  <2>9. CASE CancelChild(g)
    <3>1. op' \in [Goals -> Ops]
      BY <2>9, <2>0, OpReplaced DEF CancelChild
    <3> QED
      BY <2>9, <3>1 DEF CancelChild, BlockAndDrain
  <2>10. CASE CancelResult(g)
    <3>1. op' \in [Goals -> Ops]
      BY <2>10, <2>0, OpReplaced DEF CancelResult
    <3> QED
      BY <2>10, <3>1 DEF CancelResult, BlockAndDrain
  <2>11. CASE DrainSend(g)
    <3>1. op' \in [Goals -> Ops]
      <4> DEFINE o == IF op[g].result \in {"none", "pending"}
                        THEN CancelRequestOp(op[g]) ELSE op[g]
      <4>1. CASE SetOp(g, o)
        <5>1. o \in Ops
          BY <2>0
        <5> QED
          BY <4>1, <5>1, OpReplaced
      <4>2. CASE SetOp(g, NoOp)
        BY <2>0, <4>2, OpReplaced
      <4>3. CASE SetOp(g, CancelRaisesOp(op[g]))
        BY <2>0, <4>3, OpReplaced
      <4>4. CASE op' = op
        BY <4>4
      <4> QED
        BY <2>11, <4>1, <4>2, <4>3, <4>4 DEF DrainSend
    <3> QED
      BY <2>11, <3>1 DEF DrainSend
  <2>12. CASE DrainResult(g)
    <3>1. op' \in [Goals -> Ops]
      BY <2>12, <2>0, OpReplaced DEF DrainResult
    <3> QED
      BY <2>12, <3>1 DEF DrainResult
  <2>13. CASE Finish(g)
    BY <2>13 DEF Finish, Announce, Announcements
  <2>14. CASE HandleFailure(g)
    BY <2>14 DEF HandleFailure, ReportedCode, Announce, Announcements
  <2>15. CASE Terminate(g)
    BY <2>15 DEF Terminate, StatusValues, TerminalStatus
  <2>16. CASE Release(g)
    BY <2>16 DEF Release
  <2> QED
    BY <1>5, <2>1, <2>2, <2>3, <2>4, <2>5, <2>6, <2>7, <2>8, <2>9, <2>10,
       <2>11, <2>12, <2>13, <2>14, <2>15, <2>16 DEF ExecuteStep
<1>6. ASSUME NEW g \in Goals, Child(g) \/ Transport(g) PROVE TypeOK'
  <2> USE DEF node, stop, goal
  <2>1. CASE ChildAnswer(g)
    BY <2>1 DEF ChildAnswer, ChildValues
  <2>2. CASE ChildFinish(g)
    BY <2>2 DEF ChildFinish, ChildValues
  <2>3. CASE DeliverSend(g)
    <3> DEFINE s == IF child[g][stage[g]] = "refused" THEN "refused" ELSE "accepted"
    <3>1. s \in SendValues
      BY DEF SendValues
    <3>2. op' \in [Goals -> Ops]
      BY <2>3, <3>1, SendReplaced DEF DeliverSend
    <3> QED
      BY <2>3, <3>2 DEF DeliverSend
  <2>4. CASE DeliverResult(g)
    <3> DEFINE r == child[g][stage[g]]
    <3>1. r \in ResultValues
      BY <2>4 DEF DeliverResult, ResultValues
    <3>2. op' \in [Goals -> Ops]
      BY <2>4, <3>1, ResultReplaced DEF DeliverResult
    <3> QED
      BY <2>4, <3>2 DEF DeliverResult
  <2>5. CASE SendFault(g)
    <3>1. op' \in [Goals -> Ops]
      BY <2>5, SendReplaced DEF SendFault, SendValues
    <3> QED
      BY <2>5, <3>1 DEF SendFault
  <2>6. CASE ResultFault(g)
    <3>1. op' \in [Goals -> Ops]
      BY <2>6, ResultReplaced DEF ResultFault, ResultValues
    <3> QED
      BY <2>6, <3>1 DEF ResultFault
  <2> QED
    BY <1>6, <2>1, <2>2, <2>3, <2>4, <2>5, <2>6 DEF Child, Transport
<1> QED
  BY <1>1, <1>2, <1>3, <1>4, <1>5, <1>6 DEF Next

(* Every variable always holds a value of its kind; in particular the      *)
(* pipeline position never leaves the pipeline.                            *)
THEOREM TypeCorrect == Spec => []TypeOK
<1>1. Init => TypeOK
  BY TypeInit
<1>2. TypeOK /\ [Next]_vars => TypeOK'
  BY TypeNext
<1> QED
  BY <1>1, <1>2, PTL DEF Spec

-----------------------------------------------------------------------------
(* The inductive invariant.  SingleOwner and ParentOutlivesChild say       *)
(* nothing of the futures execute() waits on, and are not inductive: that  *)
(* a child has stopped is known to the node only through them.             *)

(* The control points between claiming the node and answering the client,  *)
(* those at which a child may be active, and those of an admitted goal.    *)
Vetting(g) == pc[g] \in {"sampling", "ready", "notReady"}
InChildCall(g) == pc[g] \in {"waitSend", "waitResult", "cancelSend", "cancelResult",
                             "drainSend", "drainResult", "held"}
Admitted(g) == InChildCall(g) \/ pc[g] \in {"queued", "call", "settle", "complete",
                                            "except", "terminate"}

(* _goal_active covers every goal from its claim to its finally clause, and*)
(* excludes manual control.                                                *)
FlagCoversGoals ==
  /\ \A g \in Goals : Serving(g) => goalActive
  /\ \A g, h \in Goals : Serving(g) /\ Serving(h) => g = h
  /\ goalActive => ~manualReserved

(* A child may move only while execute() is in the call that started it.   *)
ChildIsWatched(g) ==
  \A k \in Stages : MayMove(g, k) => k = stage[g] /\ InChildCall(g)

(* What the futures of a call say of its child is true of the child.       *)
FuturesAreTrue(g) ==
  /\ ~InChildCall(g) => op[g] = NoOp
  /\ op[g].send = "refused" => child[g][stage[g]] = "refused"
  /\ op[g].result \in Outcomes => child[g][stage[g]] = op[g].result

(* The status of the goal handle follows the control point.                *)
StatusFollowsControl(g) ==
  /\ pc[g] = "idle" => status[g] = "unsent"
  /\ Vetting(g) => status[g] = "unsent"
  /\ Admitted(g) => status[g] \in {"accepted", "executing", "canceling"}
  /\ pc[g] = "finally" => status[g] \in TerminalStatus
  /\ pc[g] = "done" => status[g] \in TerminalStatus \cup {"rejected"}

GoalInv(g) == ChildIsWatched(g) /\ FuturesAreTrue(g) /\ StatusFollowsControl(g)

IInv ==
  /\ TypeOK
  /\ FlagCoversGoals
  /\ \A g \in Goals : GoalInv(g)

-----------------------------------------------------------------------------
(* What a step of one goal leaves alone *)

SameGoal(h) ==
  /\ pc'[h] = pc[h]
  /\ status'[h] = status[h]
  /\ stage'[h] = stage[h]
  /\ op'[h] = op[h]
  /\ child'[h] = child[h]

GoalStep(g) ==
  Admission(g) \/ Cancellation(g) \/ ExecuteStep(g) \/ Child(g) \/ Transport(g)

LEMMA OtherGoalsUntouched ==
  ASSUME TypeOK, NEW g \in Goals, NEW h \in Goals, h # g, GoalStep(g)
  PROVE  SameGoal(h)
<1> USE DEF SameGoal, TypeOK, Goto, SetOp, Raise, node, stop, goal
<1>1. CASE Admission(g)
  BY <1>1 DEF Admission, GoalReject, GoalClaim, LiveReadiness, GoalAccept,
       GoalGiveUp
<1>2. CASE Cancellation(g)
  BY <1>2 DEF Cancellation, CancelCallback, CancelCommit
<1>3. CASE Execute(g) \/ CallFails(g) \/ CallSends(g) \/ WaitGivesUp(g)
  BY <1>3 DEF Execute, CallFails, CallSends, WaitGivesUp
<1>4. CASE GoalResponse(g) \/ ChildResult(g) \/ Settled(g) \/ SettleFails(g)
  BY <1>4 DEF GoalResponse, ChildResult, Settled, SettleFails, Advance,
       BlockAndDrain
<1>5. CASE CancelChild(g) \/ CancelResult(g) \/ DrainSend(g) \/ DrainResult(g)
  BY <1>5 DEF CancelChild, CancelResult, DrainSend, DrainResult, BlockAndDrain
<1>6. CASE Finish(g) \/ HandleFailure(g) \/ Terminate(g) \/ Release(g)
  BY <1>6 DEF Finish, HandleFailure, Terminate, Release
<1>7. CASE Child(g) \/ Transport(g)
  BY <1>7 DEF Child, ChildAnswer, ChildFinish, Transport, DeliverSend,
       DeliverResult, SendFault, ResultFault
<1> QED
  BY <1>1, <1>2, <1>3, <1>4, <1>5, <1>6, <1>7 DEF GoalStep, ExecuteStep

LEMMA GoalInvOfSameGoal ==
  ASSUME NEW h \in Goals, GoalInv(h), SameGoal(h)
  PROVE  GoalInv(h)'
  BY DEF GoalInv, SameGoal, ChildIsWatched, FuturesAreTrue,
         StatusFollowsControl, MayMove, InChildCall, Vetting, Admitted

-----------------------------------------------------------------------------
(* Each step of a goal keeps the invariant of that goal.  As far as its    *)
(* child is concerned, a step stays outside a call, stays inside one, or   *)
(* leaves one with proof that the child has stopped.                       *)

CallInv(g) == ChildIsWatched(g) /\ FuturesAreTrue(g)

LEMMA OutsideCall ==
  ASSUME IInv, NEW g \in Goals, ~InChildCall(g), ~InChildCall(g)',
         child'[g] = child[g], op'[g] = op[g]
  PROVE  CallInv(g)'
  BY DEF IInv, GoalInv, CallInv, ChildIsWatched, FuturesAreTrue, MayMove, NoOp,
         Outcomes

LEMMA InsideCall ==
  ASSUME IInv, NEW g \in Goals, InChildCall(g), InChildCall(g)',
         child'[g] = child[g], stage'[g] = stage[g],
         op'[g].send = op[g].send,
         op'[g].result = op[g].result \/ op'[g].result \notin Outcomes
  PROVE  CallInv(g)'
  BY DEF IInv, GoalInv, CallInv, ChildIsWatched, FuturesAreTrue, MayMove

LEMMA CallLeft ==
  ASSUME IInv, NEW g \in Goals, InChildCall(g), ~InChildCall(g)',
         op[g].send = "refused" \/ op[g].result \in Outcomes,
         child'[g] = child[g], op'[g] = NoOp
  PROVE  CallInv(g)'
  BY DEF IInv, GoalInv, CallInv, ChildIsWatched, FuturesAreTrue, MayMove, NoOp,
         Outcomes

(* What the steps do to the operation                                      *)
LEMMA OpValue ==
  ASSUME TypeOK, NEW g \in Goals
  PROVE  /\ \A o : SetOp(g, o) => op'[g] = o
         /\ op[g] \in Ops
  BY DEF SetOp, TypeOK

LEMMA AwaitedOp ==
  ASSUME NEW o \in Ops
  PROVE  /\ [o EXCEPT !.result = "pending"].send = o.send
         /\ [o EXCEPT !.result = "pending"].result \notin Outcomes
         /\ CancelRequestOp(o).send = o.send
         /\ \/ CancelRequestOp(o).result = o.result
            \/ CancelRequestOp(o).result \notin Outcomes
         /\ CancelRaisesOp(o).send = o.send
         /\ \/ CancelRaisesOp(o).result = o.result
            \/ CancelRaisesOp(o).result \notin Outcomes
  BY DEF Ops, CancelRequestOp, CancelRaisesOp, Outcomes

LEMMA AdmissionKeepsGoalInv ==
  ASSUME IInv, NEW g \in Goals, Admission(g)
  PROVE  GoalInv(g)'
<1> USE DEF Goto, node, stop, goal
<1>1. pc[g] \in {"idle", "sampling", "ready", "notReady"}
  BY DEF Admission, GoalReject, GoalClaim, LiveReadiness, GoalAccept, GoalGiveUp
<1>2. pc'[g] \in {"sampling", "ready", "notReady", "queued", "done"}
  BY DEF Admission, GoalReject, GoalClaim, LiveReadiness, GoalAccept,
     GoalGiveUp, IInv, TypeOK
<1>3. UNCHANGED <<op, child>>
  BY DEF Admission, GoalReject, GoalClaim, LiveReadiness, GoalAccept, GoalGiveUp
<1>4. CallInv(g)'
  <2>1. ~InChildCall(g) /\ ~InChildCall(g)'
    BY <1>1, <1>2 DEF InChildCall
  <2> QED
    BY <1>3, <2>1, OutsideCall
<1>5. StatusFollowsControl(g)'
  <2> USE DEF IInv, GoalInv, TypeOK, StatusFollowsControl, Vetting, Admitted,
              InChildCall
  <2>1. CASE GoalReject(g) \/ GoalGiveUp(g)
    BY <2>1 DEF GoalReject, GoalGiveUp
  <2>2. CASE GoalClaim(g)
    BY <2>2 DEF GoalClaim
  <2>3. CASE LiveReadiness(g)
    BY <2>3 DEF LiveReadiness
  <2>4. CASE GoalAccept(g)
    BY <2>4 DEF GoalAccept
  <2> QED
    BY <2>1, <2>2, <2>3, <2>4 DEF Admission
<1> QED
  BY <1>4, <1>5 DEF GoalInv, CallInv

LEMMA CancellationKeepsGoalInv ==
  ASSUME IInv, NEW g \in Goals, Cancellation(g)
  PROVE  GoalInv(g)'
  BY DEF Cancellation, CancelCallback, CancelCommit, Active, IInv, GoalInv, TypeOK,
         ChildIsWatched, FuturesAreTrue, StatusFollowsControl, MayMove,
         InChildCall, Vetting, Admitted, TerminalStatus, node, stop, goal

LEMMA ExecuteStepKeepsStatus ==
  ASSUME IInv, NEW g \in Goals, ExecuteStep(g)
  PROVE  StatusFollowsControl(g)'
<1> USE DEF IInv, GoalInv, TypeOK, Goto, Raise, StatusFollowsControl, Vetting,
            Admitted, InChildCall, node, stop, goal
<1>1. CASE Execute(g)
  BY <1>1 DEF Execute
<1>2. CASE CallFails(g) \/ CallSends(g) \/ WaitGivesUp(g)
  BY <1>2 DEF CallFails, CallSends, WaitGivesUp
<1>3. CASE GoalResponse(g)
  BY <1>3 DEF GoalResponse, BlockAndDrain
<1>4. CASE ChildResult(g)
  BY <1>4 DEF ChildResult, Advance, BlockAndDrain
<1>5. CASE Settled(g) \/ SettleFails(g)
  BY <1>5 DEF Settled, SettleFails, Advance
<1>6. CASE CancelChild(g) \/ CancelResult(g)
  BY <1>6 DEF CancelChild, CancelResult, BlockAndDrain
<1>7. CASE DrainSend(g) \/ DrainResult(g)
  BY <1>7 DEF DrainSend, DrainResult
<1>8. CASE Finish(g) \/ HandleFailure(g)
  BY <1>8 DEF Finish, HandleFailure
<1>9. CASE Terminate(g)
  BY <1>9 DEF Terminate, TerminalStatus
<1>10. CASE Release(g)
  BY <1>10 DEF Release
<1> QED
  BY <1>1, <1>2, <1>3, <1>4, <1>5, <1>6, <1>7, <1>8, <1>9, <1>10 DEF ExecuteStep

LEMMA ExecuteStepKeepsCallInv ==
  ASSUME IInv, NEW g \in Goals, ExecuteStep(g)
  PROVE  CallInv(g)'
<1> USE DEF Goto, Raise, InChildCall, node, stop, goal
<1>0. TypeOK /\ op[g] \in Ops /\ pc \in [Goals -> PcValues]
  BY DEF IInv, TypeOK
<1>1. CASE Execute(g) \/ CallFails(g) \/ Settled(g) \/ SettleFails(g)
             \/ Finish(g) \/ HandleFailure(g) \/ Terminate(g) \/ Release(g)
  <2> USE DEF Execute, CallFails, Settled, SettleFails, Advance, Finish,
              HandleFailure, Terminate, Release
  <2>1. ~InChildCall(g) /\ ~InChildCall(g)'
    BY <1>0, <1>1
  <2>2. UNCHANGED <<op, child>>
    BY <1>1
  <2> QED
    BY <2>1, <2>2, OutsideCall
<1>2. CASE CallSends(g)
  <2>1. op'[g] = [NoOp EXCEPT !.send = "pending"] /\ pc'[g] = "waitSend"
    BY <1>0, <1>2, OpValue DEF CallSends
  <2>2. op'[g].send = "pending" /\ op'[g].result = "none"
    BY <2>1 DEF NoOp
  <2>3. ChildIsWatched(g)'
    BY <1>0, <1>2, <2>1 DEF CallSends, ChildIsWatched, MayMove, IInv, GoalInv, TypeOK
  <2> QED
    BY <2>1, <2>2, <2>3 DEF CallInv, FuturesAreTrue, Outcomes
<1>3. CASE WaitGivesUp(g)
  <2>1. InChildCall(g) /\ InChildCall(g)'
    BY <1>0, <1>3 DEF WaitGivesUp
  <2> QED
    BY <1>3, <2>1, InsideCall DEF WaitGivesUp
<1>4. ASSUME ChildResult(g) \/ CancelChild(g) \/ CancelResult(g) \/ DrainSend(g)
               \/ DrainResult(g) \/ GoalResponse(g)
      PROVE  CallInv(g)'
  <2> USE DEF ChildResult, CancelChild, CancelResult, DrainSend, DrainResult,
              GoalResponse, BlockAndDrain, Advance
  <2>1. InChildCall(g) /\ child' = child
    BY <1>4
  <2>2. CASE ~InChildCall(g)'
    <3>1. SetOp(g, NoOp) /\ (op[g].send = "refused" \/ op[g].result \in Outcomes)
      BY <1>0, <1>4, <2>2 DEF Outcomes
    <3>2. op'[g] = NoOp
      BY <1>0, <3>1, OpValue
    <3> QED
      BY <2>1, <2>2, <3>1, <3>2, CallLeft
  <2>3. CASE InChildCall(g)'
    <3>0. stage' = stage
      BY <1>0, <1>4, <2>3
    <3>1. /\ op'[g].send = op[g].send
          /\ op'[g].result = op[g].result \/ op'[g].result \notin Outcomes
      BY <1>0, <1>4, <2>3, OpValue, AwaitedOp
    <3> QED
      BY <2>1, <2>3, <3>0, <3>1, InsideCall
  <2> QED
    BY <2>2, <2>3
<1> QED
  BY <1>1, <1>2, <1>3, <1>4 DEF ExecuteStep

LEMMA ExecuteStepKeepsGoalInv ==
  ASSUME IInv, NEW g \in Goals, ExecuteStep(g)
  PROVE  GoalInv(g)'
  BY ExecuteStepKeepsStatus, ExecuteStepKeepsCallInv DEF GoalInv, CallInv

LEMMA ChildKeepsGoalInv ==
  ASSUME IInv, NEW g \in Goals, Child(g) \/ Transport(g)
  PROVE  GoalInv(g)'
<1> USE DEF IInv, GoalInv, TypeOK, SetOp, ChildIsWatched, FuturesAreTrue,
            StatusFollowsControl, MayMove, InChildCall, Vetting, Admitted,
            NoOp, Outcomes, node, stop, goal
<1>1. CASE ChildAnswer(g)
  BY <1>1 DEF ChildAnswer
<1>2. CASE ChildFinish(g)
  BY <1>2 DEF ChildFinish
<1>3. CASE DeliverSend(g)
  BY <1>3 DEF DeliverSend
<1>4. CASE DeliverResult(g)
  BY <1>4 DEF DeliverResult
<1>5. CASE SendFault(g)
  BY <1>5 DEF SendFault
<1>6. CASE ResultFault(g)
  BY <1>6 DEF ResultFault
<1> QED
  BY <1>1, <1>2, <1>3, <1>4, <1>5, <1>6 DEF Child, Transport

-----------------------------------------------------------------------------
(* The ownership flag *)

LEMMA AdmissionKeepsFlag ==
  ASSUME IInv, NEW g \in Goals, Admission(g)
  PROVE  FlagCoversGoals'
<1> USE DEF Goto, IInv, TypeOK, FlagCoversGoals, Serving, stop
<1>1. CASE GoalReject(g)
  BY <1>1 DEF GoalReject, node
<1>2. CASE GoalClaim(g)
  BY <1>2 DEF GoalClaim, Busy
<1>3. CASE LiveReadiness(g)
  BY <1>3 DEF LiveReadiness, node
<1>4. CASE GoalAccept(g)
  BY <1>4 DEF GoalAccept, node
<1>5. CASE GoalGiveUp(g)
  BY <1>5 DEF GoalGiveUp
<1> QED
  BY <1>1, <1>2, <1>3, <1>4, <1>5 DEF Admission

(* Inside execute() the goal is served throughout; only Release ends that. *)
LEMMA ExecuteStepServes ==
  ASSUME TypeOK, NEW g \in Goals, ExecuteStep(g), ~Release(g)
  PROVE  Serving(g) /\ Serving(g)' /\ UNCHANGED <<goalActive, manualReserved>>
<1> USE DEF TypeOK, Serving, Goto, Raise, node, stop, goal
<1>1. CASE Execute(g) \/ CallFails(g) \/ CallSends(g) \/ WaitGivesUp(g)
  BY <1>1 DEF Execute, CallFails, CallSends, WaitGivesUp
<1>2. CASE GoalResponse(g) \/ ChildResult(g) \/ Settled(g) \/ SettleFails(g)
  BY <1>2 DEF GoalResponse, ChildResult, Settled, SettleFails, Advance,
       BlockAndDrain
<1>3. CASE CancelChild(g) \/ CancelResult(g) \/ DrainSend(g) \/ DrainResult(g)
  BY <1>3 DEF CancelChild, CancelResult, DrainSend, DrainResult, BlockAndDrain
<1>4. CASE Finish(g) \/ HandleFailure(g) \/ Terminate(g)
  BY <1>4 DEF Finish, HandleFailure, Terminate
<1> QED
  BY <1>1, <1>2, <1>3, <1>4 DEF ExecuteStep

LEMMA ExecuteStepKeepsFlag ==
  ASSUME IInv, NEW g \in Goals, ExecuteStep(g)
  PROVE  FlagCoversGoals'
<1>1. CASE Release(g)
  BY <1>1 DEF Release, Goto, IInv, TypeOK, FlagCoversGoals, Serving
<1>2. CASE ~Release(g)
  <2>1. Serving(g) /\ Serving(g)' /\ UNCHANGED <<goalActive, manualReserved>>
    BY <1>2, ExecuteStepServes DEF IInv
  <2>2. \A h \in Goals : h # g => pc'[h] = pc[h]
    BY OtherGoalsUntouched DEF IInv, SameGoal, GoalStep
  <2> QED
    BY <2>1, <2>2 DEF IInv, FlagCoversGoals, Serving
<1> QED
  BY <1>1, <1>2

LEMMA OthersKeepFlag ==
  ASSUME IInv, NEW g \in Goals, Cancellation(g) \/ Child(g) \/ Transport(g)
  PROVE  FlagCoversGoals'
  BY DEF Cancellation, CancelCallback, CancelCommit, Child, ChildAnswer,
         ChildFinish, Transport, DeliverSend, DeliverResult, SendFault,
         ResultFault, IInv, FlagCoversGoals, Serving, node, goal

-----------------------------------------------------------------------------
(* The invariant is inductive *)

LEMMA InitIInv == Init => IInv
<1> SUFFICES ASSUME Init PROVE IInv
  OBVIOUS
<1>1. TypeOK
  BY TypeInit
<1>2. FlagCoversGoals
  BY DEF Init, FlagCoversGoals, Serving
<1>3. ASSUME NEW g \in Goals PROVE GoalInv(g)
  BY PipelineLength DEF Init, GoalInv, ChildIsWatched, FuturesAreTrue, StatusFollowsControl,
         MayMove, InChildCall, Vetting, Admitted, NoOp, Outcomes
<1> QED
  BY <1>1, <1>2, <1>3 DEF IInv

LEMMA NextIInv == IInv /\ [Next]_vars => IInv'
<1> SUFFICES ASSUME IInv, [Next]_vars PROVE IInv'
  OBVIOUS
<1>1. TypeOK'
  BY TypeNext DEF IInv
<1>2. CASE UNCHANGED vars \/ OnStopState \/ ManualAcquire \/ ManualRelease
  <2>1. \A h \in Goals : SameGoal(h)
    BY <1>2 DEF SameGoal, vars, OnStopState, ManualAcquire, ManualRelease, goal
  <2>2. \A h \in Goals : GoalInv(h)'
    BY <2>1, GoalInvOfSameGoal DEF IInv
  <2>3. FlagCoversGoals'
    BY <1>2 DEF IInv, TypeOK, FlagCoversGoals, Serving, Busy, vars, OnStopState,
         ManualAcquire, ManualRelease, node, goal
  <2> QED
    BY <1>1, <2>2, <2>3 DEF IInv
<1>3. ASSUME NEW g \in Goals, GoalStep(g) PROVE IInv'
  <2>1. GoalInv(g)'
    BY <1>3, AdmissionKeepsGoalInv, CancellationKeepsGoalInv,
       ExecuteStepKeepsGoalInv, ChildKeepsGoalInv DEF GoalStep
  <2>2. ASSUME NEW h \in Goals, h # g PROVE GoalInv(h)'
    <3>1. SameGoal(h)
      BY <1>3, <2>2, OtherGoalsUntouched DEF IInv
    <3> QED
      BY <3>1, GoalInvOfSameGoal DEF IInv
  <2>3. FlagCoversGoals'
    BY <1>3, AdmissionKeepsFlag, ExecuteStepKeepsFlag, OthersKeepFlag
       DEF GoalStep
  <2> QED
    BY <1>1, <2>1, <2>2, <2>3 DEF IInv
<1> QED
  BY <1>2, <1>3 DEF Next, GoalStep

LEMMA Invariance == Spec => []IInv
  BY InitIInv, NextIInv, PTL DEF Spec

-----------------------------------------------------------------------------
(* Safety *)

LEMMA OwnsOnlyWhileServing ==
  ASSUME IInv, NEW g \in Goals, Owns(g)
  PROVE  Serving(g)
  BY DEF IInv, GoalInv, ChildIsWatched, InChildCall, Owns, Serving

(* A goal that ended left nothing behind that may still move the robot.    *)
THEOREM ParentOutlivesChildren == Spec => []ParentOutlivesChild
<1>1. IInv => ParentOutlivesChild
  BY DEF IInv, GoalInv, ChildIsWatched, StatusFollowsControl, Admitted,
         TerminalStatus, ParentOutlivesChild
<1> QED
  BY <1>1, Invariance, PTL

(* The robot has one owner, a goal or manual control, at any time.         *)
THEOREM OneOwner == Spec => []SingleOwner
<1>1. IInv => SingleOwner
  <2> SUFFICES ASSUME IInv PROVE SingleOwner
    OBVIOUS
  <2>1. \A g \in Goals : Owns(g) => Serving(g)
    BY OwnsOnlyWhileServing
  <2>2. \A g \in Goals, j, k \in Stages : MayMove(g, j) /\ MayMove(g, k) => j = k
    BY DEF IInv, GoalInv, ChildIsWatched
  <2> QED
    BY <2>1, <2>2 DEF IInv, TypeOK, FlagCoversGoals, SingleOwner
<1> QED
  BY <1>1, Invariance, PTL

-----------------------------------------------------------------------------
(* Steps *)

(* Once the node is blocked it stays so, whatever ends, and nobody becomes *)
(* the owner of the robot again.                                           *)
THEOREM BlockedForGood == Spec => BlockedAdmitsNothing
<1> DEFINE Step == /\ blocked'
                   /\ manualReserved' => manualReserved
                   /\ \A g \in Goals : Owns(g)' => Owns(g)
<1>1. ASSUME IInv, IInv', [Next]_vars, blocked PROVE Step
  <2>1. \A g \in Goals : Owns(g)' => Serving(g)'
    BY <1>1 DEF IInv, GoalInv, ChildIsWatched, InChildCall, Owns, Serving
  <2>2. CASE UNCHANGED vars \/ OnStopState \/ ManualAcquire \/ ManualRelease
    <3>1. blocked' /\ pc' = pc /\ (manualReserved' => manualReserved)
      <4>1. CASE UNCHANGED vars
        BY <1>1, <4>1 DEF vars, node, goal
      <4>2. CASE OnStopState
        BY <1>1, <4>2 DEF OnStopState, node, goal
      <4>3. CASE ManualAcquire
        BY <1>1, <4>3 DEF ManualAcquire, Busy, goal
      <4>4. CASE ManualRelease
        BY <1>1, <4>4 DEF ManualRelease, goal
      <4> QED
        BY <2>2, <4>1, <4>2, <4>3, <4>4
    <3> QED
      BY <2>1, <3>1 DEF Owns, Serving
  <2>3. ASSUME NEW g \in Goals, GoalStep(g) PROVE Step
    <3>1. \A h \in Goals : h # g => Serving(h)' = Serving(h)
      BY <1>1, <2>3, OtherGoalsUntouched DEF IInv, SameGoal, Serving
    <3>2. CASE Admission(g)
      <4>1. UNCHANGED <<blocked, manualReserved>>
        BY <3>2 DEF Admission, GoalReject, GoalClaim, LiveReadiness, GoalAccept,
             GoalGiveUp, node
      <4>2. Serving(g)' => Serving(g)
        BY <1>1, <3>2 DEF Admission, GoalReject, GoalClaim, LiveReadiness,
             GoalAccept, GoalGiveUp, Busy, Goto, IInv, TypeOK, Serving
      <4> QED
        BY <1>1, <2>1, <3>1, <4>1, <4>2 DEF Owns
    <3>3. CASE ExecuteStep(g)
      <4>1. blocked' /\ manualReserved' = manualReserved
        BY <1>1, <3>3 DEF ExecuteStep, Execute, CallFails, CallSends, WaitGivesUp,
             GoalResponse, ChildResult, Settled, SettleFails, CancelChild,
             CancelResult, DrainSend, DrainResult, Finish, HandleFailure,
             Terminate, Release, BlockAndDrain, node
      <4>2. Serving(g)' => Serving(g)
        <5>1. CASE Release(g)
          BY <5>1 DEF Release, Serving
        <5>2. CASE ~Release(g)
          BY <1>1, <3>3, <5>2, ExecuteStepServes DEF IInv
        <5> QED
          BY <5>1, <5>2
      <4> QED
        BY <1>1, <2>1, <3>1, <4>1, <4>2 DEF Owns
    <3>4. CASE Cancellation(g) \/ Child(g) \/ Transport(g)
      <4>1. UNCHANGED <<blocked, manualReserved, pc>>
        BY <3>4 DEF Cancellation, CancelCallback, CancelCommit, Child, ChildAnswer,
             ChildFinish, Transport, DeliverSend, DeliverResult, SendFault,
             ResultFault, node, goal
      <4> QED
        BY <1>1, <2>1, <4>1 DEF Owns, Serving
    <3> QED
      BY <2>3, <3>2, <3>3, <3>4 DEF GoalStep
  <2> QED
    BY <1>1, <2>2, <2>3 DEF Next, GoalStep
<1> QED
  BY <1>1, Invariance, PTL DEF Spec, BlockedAdmitsNothing

(* The stop state is clear at the very step at which a live goal is        *)
(* accepted.                                                               *)
THEOREM StopClearAtAcceptance == Spec => AcceptedWithStopClear
<1> DEFINE Step == \A g \in LiveGoals :
                     status[g] = "unsent" /\ status'[g] = "accepted" =>
                         stopReceived /\ ~stopLatched
<1>1. ASSUME IInv, [Next]_vars PROVE Step
  <2> SUFFICES ASSUME NEW g \in LiveGoals, status[g] = "unsent",
                      status'[g] = "accepted"
               PROVE  stopReceived /\ ~stopLatched
    OBVIOUS
  <2>0. g \in Goals /\ TypeOK
    BY <1>1, GoalsAssumption DEF IInv
  <2>1. CASE UNCHANGED vars \/ OnStopState \/ ManualAcquire \/ ManualRelease
    BY <2>1 DEF vars, OnStopState, ManualAcquire, ManualRelease, goal
  <2>2. ASSUME NEW h \in Goals, GoalStep(h) PROVE stopReceived /\ ~stopLatched
    <3>1. h = g
      BY <2>0, <2>2, OtherGoalsUntouched DEF SameGoal
    <3>2. CASE Admission(g)
      BY <2>0, <3>2 DEF TypeOK, Admission, GoalReject, GoalClaim, LiveReadiness,
           GoalAccept, GoalGiveUp, StopBlocked
    <3>3. CASE Cancellation(g)
      BY <2>0, <3>3 DEF TypeOK, Cancellation, CancelCallback, CancelCommit, goal
    <3>4. CASE ExecuteStep(g)
      BY <1>1, <2>0, <3>4 DEF TypeOK, ExecuteStep, Execute, CallFails, CallSends,
           WaitGivesUp, GoalResponse, ChildResult, Settled, SettleFails,
           CancelChild, CancelResult, DrainSend, DrainResult, Finish,
           HandleFailure, Terminate, Release
    <3>5. CASE Child(g) \/ Transport(g)
      BY <3>5 DEF Child, ChildAnswer, ChildFinish, Transport, DeliverSend,
           DeliverResult, SendFault, ResultFault, goal
    <3> QED
      BY <2>2, <3>1, <3>2, <3>3, <3>4, <3>5 DEF GoalStep
  <2> QED
    BY <1>1, <2>1, <2>2 DEF Next, GoalStep
<1> QED
  BY <1>1, Invariance, PTL DEF Spec, AcceptedWithStopClear

-----------------------------------------------------------------------------
(* Refinement: the server implements TaskLifecycle.  Every step is a step  *)
(* of the abstract life cycle, seen through Lifecycle's mapping, or leaves *)
(* it unchanged.                                                           *)


-----------------------------------------------------------------------------
(* What the invariant says of the mapped state *)

OwnerFacts ==
  /\ manualReserved => RobotOwner = "manual" /\ Servers = {}
  /\ \A g \in Goals : Serving(g) => RobotOwner = g /\ Servers = {g}
  /\ ~manualReserved /\ Servers = {} => RobotOwner = "nobody"

PhaseFacts ==
  \A g \in Goals :
    /\ pc[g] = "idle" => GoalPhase(g) = "new"
    /\ Vetting(g) => GoalPhase(g) = "vetting"
    /\ Admitted(g) => GoalPhase(g) = "active"
    /\ pc[g] \in {"finally", "done"} => GoalPhase(g) = status[g]

MovingFacts ==
  \A g \in Goals : g \in Moving <=> MayMove(g, stage[g]) /\ InChildCall(g)

MapInv == IInv /\ OwnerFacts /\ PhaseFacts /\ MovingFacts

LEMMA MappedState == IInv => MapInv
<1> SUFFICES ASSUME IInv PROVE OwnerFacts /\ PhaseFacts /\ MovingFacts
  BY DEF MapInv
<1>1. OwnerFacts
  <2>1. manualReserved => Servers = {}
    BY DEF IInv, TypeOK, FlagCoversGoals, Servers
  <2>2. ASSUME NEW g \in Goals, Serving(g) PROVE RobotOwner = g /\ Servers = {g}
    <3>1. Servers = {g}
      BY <2>2 DEF IInv, FlagCoversGoals, Servers
    <3>2. ~manualReserved
      BY <2>2 DEF IInv, FlagCoversGoals
    <3> QED
      BY <3>1, <3>2 DEF RobotOwner
  <2> QED
    BY <2>1, <2>2 DEF OwnerFacts, RobotOwner
<1>2. PhaseFacts
  <2> SUFFICES ASSUME NEW g \in Goals
               PROVE  /\ pc[g] = "idle" => GoalPhase(g) = "new"
                      /\ Vetting(g) => GoalPhase(g) = "vetting"
                      /\ Admitted(g) => GoalPhase(g) = "active"
                      /\ pc[g] \in {"finally", "done"} => GoalPhase(g) = status[g]
    BY DEF PhaseFacts
  <2>1. StatusFollowsControl(g)
    BY DEF IInv, GoalInv
  <2>2. CASE pc[g] = "idle"
    BY <2>1, <2>2 DEF StatusFollowsControl, GoalPhase, Vetting, Admitted, InChildCall
  <2>3. CASE Vetting(g)
    BY <2>1, <2>3 DEF StatusFollowsControl, GoalPhase, Vetting, Admitted, InChildCall
  <2>4. CASE Admitted(g)
    BY <2>1, <2>4 DEF StatusFollowsControl, GoalPhase, Vetting, Admitted, InChildCall
  <2>5. CASE pc[g] \in {"finally", "done"}
    BY <2>1, <2>5 DEF StatusFollowsControl, GoalPhase, Vetting, Admitted,
         InChildCall, TerminalStatus
  <2> QED
    BY <2>2, <2>3, <2>4, <2>5
<1>3. MovingFacts
  BY DEF IInv, GoalInv, TypeOK, ChildIsWatched, MovingFacts, Moving
<1> QED
  BY <1>1, <1>2, <1>3

(* Every goal is at one of four places.                                    *)
LEMMA Places ==
  ASSUME TypeOK, NEW g \in Goals
  PROVE  pc[g] = "idle" \/ Vetting(g) \/ Admitted(g) \/ pc[g] \in {"finally", "done"}
  BY DEF TypeOK, PcValues, Vetting, Admitted, InChildCall

-----------------------------------------------------------------------------
(* The mapped state across a step *)

Phases == [g \in Goals |-> GoalPhase(g)]

LEMMA OwnerFollowsServing ==
  ASSUME \A h \in Goals : Serving(h)' = Serving(h), manualReserved' = manualReserved
  PROVE  RobotOwner' = RobotOwner
<1>1. Servers' = Servers
  BY DEF Servers
<1> QED
  BY <1>1 DEF RobotOwner

LEMMA MovingFollowsChildren == child' = child => Moving' = Moving
  BY DEF Moving, MayMove

LEMMA PhasesKept ==
  ASSUME \A h \in Goals : GoalPhase(h)' = GoalPhase(h)
  PROVE  Phases' = Phases
  BY DEF Phases

LEMMA PhaseChanged ==
  ASSUME NEW g \in Goals, NEW p,
         \A h \in Goals : h # g => GoalPhase(h)' = GoalPhase(h),
         GoalPhase(g)' = p
  PROVE  Phases' = [Phases EXCEPT ![g] = p]
  BY DEF Phases

LEMMA OthersKeepPlace ==
  ASSUME TypeOK, NEW g \in Goals, GoalStep(g), NEW h \in Goals, h # g
  PROVE  /\ GoalPhase(h)' = GoalPhase(h)
         /\ Serving(h)' = Serving(h)
         /\ (h \in Moving)' = (h \in Moving)
<1>1. SameGoal(h)
  BY OtherGoalsUntouched
<1> QED
  BY <1>1 DEF SameGoal, GoalPhase, Serving, Moving, MayMove

-----------------------------------------------------------------------------
(* Steps of execute() *)

(* Between its entry and its terminal transition, execute() closes the     *)
(* server down at most.                                                    *)
LEMMA ExecuteMaps ==
  ASSUME MapInv, MapInv', NEW g \in Goals, ExecuteStep(g),
         ~CallSends(g), ~Terminate(g), ~Release(g)
  PROVE  Lifecycle!CloseDown(g) \/ UNCHANGED Lifecycle!lifecycle
<1>0. IInv /\ TypeOK /\ PhaseFacts /\ PhaseFacts' /\ OwnerFacts
  BY DEF MapInv, IInv
<1>1. Admitted(g) /\ Admitted(g)'
  <2> USE DEF Goto, Raise, Admitted, InChildCall, TypeOK
  <2>1. CASE Execute(g) \/ CallFails(g) \/ WaitGivesUp(g)
    BY <1>0, <2>1 DEF Execute, CallFails, WaitGivesUp
  <2>2. CASE GoalResponse(g) \/ ChildResult(g) \/ Settled(g) \/ SettleFails(g)
    BY <1>0, <2>2 DEF GoalResponse, ChildResult, Settled, SettleFails, Advance,
         BlockAndDrain
  <2>3. CASE CancelChild(g) \/ CancelResult(g) \/ DrainSend(g) \/ DrainResult(g)
    BY <1>0, <2>3 DEF CancelChild, CancelResult, DrainSend, DrainResult,
         BlockAndDrain, goal
  <2>4. CASE Finish(g) \/ HandleFailure(g)
    BY <1>0, <2>4 DEF Finish, HandleFailure
  <2> QED
    BY <2>1, <2>2, <2>3, <2>4 DEF ExecuteStep
<1>2. child' = child /\ (blocked' = blocked \/ blocked' = TRUE)
  BY DEF ExecuteStep, Execute, CallFails, WaitGivesUp, GoalResponse, ChildResult,
     Settled, SettleFails, CancelChild, CancelResult, DrainSend, DrainResult,
     Finish, HandleFailure, BlockAndDrain, node
<1>3. Serving(g) /\ Serving(g)' /\ manualReserved' = manualReserved
  BY <1>0, ExecuteStepServes
<1>4. RobotOwner' = RobotOwner /\ RobotOwner = g
  <2>1. \A h \in Goals : Serving(h)' = Serving(h)
    BY <1>0, <1>3, OthersKeepPlace DEF GoalStep, Serving
  <2> QED
    BY <1>0, <1>3, <2>1, OwnerFollowsServing DEF OwnerFacts
<1>5. GoalPhase(g) = "active" /\ GoalPhase(g)' = "active"
  BY <1>0, <1>1 DEF PhaseFacts
<1>6. Phases' = Phases
  BY <1>0, <1>5, OthersKeepPlace, PhasesKept DEF GoalStep
<1>7. Moving' = Moving
  BY <1>2, MovingFollowsChildren
<1> QED
  BY <1>2, <1>4, <1>5, <1>6, <1>7
     DEF Phases, Lifecycle!CloseDown, Lifecycle!lifecycle

LEMMA CallSendsMaps ==
  ASSUME MapInv, MapInv', NEW g \in Goals, CallSends(g)
  PROVE  Lifecycle!StartChild(g)
<1>0. TypeOK /\ TypeOK' /\ PhaseFacts /\ PhaseFacts' /\ OwnerFacts /\ MovingFacts /\ MovingFacts'
  BY DEF MapInv, IInv
<1>1. /\ pc[g] = "call" /\ pc'[g] = "waitSend" /\ child'[g][stage[g]] = "queued"
      /\ UNCHANGED <<manualReserved, blocked, stage>>
  BY <1>0 DEF CallSends, Goto, TypeOK, node
<1>2. Serving(g) /\ Serving(g)' /\ Admitted(g) /\ Admitted(g)'
  BY <1>1 DEF Serving, Admitted, InChildCall
<1>3. RobotOwner' = RobotOwner /\ RobotOwner = g
  <2>1. \A h \in Goals : Serving(h)' = Serving(h)
    BY <1>0, <1>2, OthersKeepPlace DEF GoalStep, ExecuteStep, Serving
  <2> QED
    BY <1>0, <1>1, <1>2, <2>1, OwnerFollowsServing DEF OwnerFacts
<1>4. GoalPhase(g) = "active" /\ Phases' = Phases
  <2>1. GoalPhase(g) = "active" /\ GoalPhase(g)' = "active"
    BY <1>0, <1>2 DEF PhaseFacts
  <2> QED
    BY <1>0, <2>1, OthersKeepPlace, PhasesKept DEF GoalStep, ExecuteStep
<1>5. Moving = {}
  <2>1. \A h \in Goals : h \in Moving => Serving(h)
    BY <1>0 DEF MovingFacts, InChildCall, Serving
  <2>2. \A h \in Goals : Serving(h) => h = g
    BY <1>0, <1>2 DEF OwnerFacts
  <2>3. g \notin Moving
    BY <1>0, <1>1 DEF MovingFacts, InChildCall
  <2> QED
    BY <2>1, <2>2, <2>3 DEF Moving
<1>6. Moving' = {g}
  <2>1. g \in Moving'
    BY <1>0, <1>1 DEF MovingFacts, InChildCall, MayMove
  <2>2. \A h \in Goals : h # g => h \notin Moving'
    BY <1>0, <1>5, OthersKeepPlace DEF GoalStep, ExecuteStep
  <2> QED
    BY <2>1, <2>2 DEF Moving
<1> QED
  BY <1>1, <1>3, <1>4, <1>5, <1>6 DEF Phases, Lifecycle!StartChild

LEMMA TerminateMaps ==
  ASSUME MapInv, MapInv', NEW g \in Goals, Terminate(g)
  PROVE  Lifecycle!End(g)
<1>0. TypeOK /\ PhaseFacts /\ PhaseFacts' /\ OwnerFacts /\ MovingFacts
  BY DEF MapInv, IInv
<1>1. /\ pc[g] = "terminate" /\ pc'[g] = "finally"
      /\ status'[g] \in Lifecycle!Ended
      /\ UNCHANGED <<manualReserved, blocked, child>>
  BY <1>0 DEF Terminate, Goto, TypeOK, node, Lifecycle!Ended
<1>2. Serving(g) /\ Serving(g)' /\ Admitted(g) /\ ~InChildCall(g)
  BY <1>1 DEF Serving, Admitted, InChildCall
<1>3. RobotOwner' = RobotOwner /\ RobotOwner = g
  <2>1. \A h \in Goals : Serving(h)' = Serving(h)
    BY <1>0, <1>2, OthersKeepPlace DEF GoalStep, ExecuteStep, Serving
  <2> QED
    BY <1>0, <1>1, <1>2, <2>1, OwnerFollowsServing DEF OwnerFacts
<1>4. GoalPhase(g) = "active" /\ GoalPhase(g)' = status'[g]
  BY <1>0, <1>1, <1>2 DEF PhaseFacts
<1>5. Phases' = [Phases EXCEPT ![g] = status'[g]]
  BY <1>0, <1>4, OthersKeepPlace, PhaseChanged DEF GoalStep, ExecuteStep
<1>6. Moving' = Moving /\ g \notin Moving
  BY <1>0, <1>1, <1>2, MovingFollowsChildren DEF MovingFacts
<1> QED
  BY <1>1, <1>3, <1>4, <1>5, <1>6 DEF Phases, Lifecycle!End

LEMMA ReleaseMaps ==
  ASSUME MapInv, MapInv', NEW g \in Goals, Release(g)
  PROVE  Lifecycle!Release(g)
<1>0. IInv /\ TypeOK /\ PhaseFacts /\ PhaseFacts' /\ OwnerFacts /\ OwnerFacts'
  BY DEF MapInv, IInv
<1>1. /\ pc[g] = "finally" /\ pc'[g] = "done" /\ status' = status
      /\ UNCHANGED <<manualReserved, blocked, child>>
  BY <1>0 DEF Release, Goto, TypeOK
<1>2. Serving(g) /\ ~Serving(g)'
  BY <1>1 DEF Serving
<1>3. RobotOwner = g /\ RobotOwner' = "nobody"
  <2>1. \A h \in Goals : ~Serving(h)'
    <3>1. \A h \in Goals : h # g => ~Serving(h)
      BY <1>0, <1>2 DEF IInv, FlagCoversGoals
    <3> QED
      BY <1>0, <1>2, <3>1, OthersKeepPlace DEF GoalStep, ExecuteStep
  <2>2. ~manualReserved'
    BY <1>0, <1>1, <1>2 DEF IInv, TypeOK, FlagCoversGoals
  <2> QED
    BY <1>0, <1>2, <2>1, <2>2 DEF OwnerFacts, Servers
<1>4. GoalPhase(g) = status[g] /\ GoalPhase(g)' = status[g]
  BY <1>0, <1>1 DEF PhaseFacts
<1>5. status[g] \in Lifecycle!Ended
  BY <1>0, <1>1 DEF IInv, GoalInv, StatusFollowsControl, TerminalStatus, Lifecycle!Ended
<1>6. Phases' = Phases
  BY <1>0, <1>4, OthersKeepPlace, PhasesKept DEF GoalStep, ExecuteStep
<1> QED
  BY <1>1, <1>3, <1>4, <1>5, <1>6, MovingFollowsChildren
     DEF Phases, Lifecycle!Release

-----------------------------------------------------------------------------
(* Admission, cancellation, children and manual control *)

LEMMA AdmissionMaps ==
  ASSUME MapInv, MapInv', NEW g \in Goals, Admission(g)
  PROVE  \/ Lifecycle!Claim(g) \/ Lifecycle!Accept(g) \/ Lifecycle!Refuse(g)
         \/ UNCHANGED Lifecycle!lifecycle
<1>0. /\ IInv /\ TypeOK /\ PhaseFacts /\ PhaseFacts' /\ OwnerFacts /\ OwnerFacts'
      /\ MovingFacts
  BY DEF MapInv, IInv
<1>1. UNCHANGED <<child, blocked, manualReserved>>
  BY DEF Admission, GoalReject, GoalClaim, LiveReadiness, GoalAccept, GoalGiveUp, node
<1>2. Moving' = Moving
  BY <1>1, MovingFollowsChildren
<1>3. /\ \A h \in Goals : h # g => GoalPhase(h)' = GoalPhase(h)
      /\ \A h \in Goals : h # g => Serving(h)' = Serving(h)
  BY <1>0, OthersKeepPlace DEF GoalStep
<1> USE DEF Goto, TypeOK
<1>4. CASE GoalReject(g)
  <2>1. pc[g] = "idle" /\ pc'[g] = "done" /\ status'[g] = "rejected"
    BY <1>0, <1>4 DEF GoalReject
  <2>2. ~Serving(g) /\ ~Serving(g)'
    BY <2>1 DEF Serving
  <2>3. \A h \in Goals : Serving(h)' = Serving(h)
    BY <1>3, <2>2 DEF Serving
  <2>4. RobotOwner' = RobotOwner
    BY <1>1, <2>3, OwnerFollowsServing
  <2>5. RobotOwner # g
    <3>1. CASE manualReserved
      BY <1>0, <3>1, GoalsAssumption DEF OwnerFacts
    <3>2. CASE ~manualReserved /\ Servers = {}
      BY <1>0, <3>2, GoalsAssumption DEF OwnerFacts
    <3>3. ASSUME NEW h \in Servers PROVE RobotOwner # g
      BY <1>0, <2>2, <3>3 DEF OwnerFacts, Servers
    <3> QED
      BY <3>1, <3>2, <3>3
  <2>6. GoalPhase(g) = "new" /\ GoalPhase(g)' = "rejected"
    BY <1>0, <2>1 DEF PhaseFacts
  <2>7. Phases' = [Phases EXCEPT ![g] = "rejected"]
    BY <1>3, <2>6, PhaseChanged
  <2> QED
    BY <1>1, <1>2, <2>4, <2>5, <2>6, <2>7 DEF Phases, Lifecycle!Refuse
<1>5. CASE GoalClaim(g)
  <2>1. /\ pc[g] = "idle" /\ ~goalActive /\ ~manualReserved /\ ~blocked
        /\ \/ pc'[g] = "sampling" \/ pc'[g] = "queued"
    BY <1>0, <1>5 DEF GoalClaim, Busy
  <2>2. \A h \in Goals : ~Serving(h)
    BY <1>0, <2>1 DEF IInv, FlagCoversGoals
  <2>3. RobotOwner = "nobody" /\ RobotOwner' = g
    <3>1. Serving(g)'
      BY <2>1 DEF Serving
    <3> QED
      BY <1>0, <2>1, <2>2, <3>1 DEF OwnerFacts, Servers
  <2>4. Moving = {}
    <3>1. \A h \in Goals : h \in Moving => Serving(h)
      BY <1>0 DEF MovingFacts, InChildCall, Serving
    <3> QED
      BY <2>2, <3>1 DEF Moving
  <2>5. GoalPhase(g) = "new" /\ GoalPhase(g)' \in {"vetting", "active"}
    BY <1>0, <2>1 DEF PhaseFacts, Vetting, Admitted
  <2>6. Phases' = [Phases EXCEPT ![g] = GoalPhase(g)']
    BY <1>3, PhaseChanged
  <2> QED
    BY <1>1, <1>2, <2>1, <2>3, <2>4, <2>5, <2>6
       DEF Phases, Lifecycle!Claim, Lifecycle!Free
<1>6. ASSUME LiveReadiness(g) \/ GoalAccept(g) \/ GoalGiveUp(g)
      PROVE  \/ Lifecycle!Accept(g) \/ Lifecycle!Refuse(g)
             \/ UNCHANGED Lifecycle!lifecycle
  <2>1. Vetting(g) /\ Serving(g)
    BY <1>6 DEF LiveReadiness, GoalAccept, GoalGiveUp, Vetting, Serving
  <2>2. RobotOwner = g /\ GoalPhase(g) = "vetting"
    BY <1>0, <2>1 DEF OwnerFacts, PhaseFacts
  <2>3. CASE LiveReadiness(g)
    <3>1. Vetting(g)' /\ Serving(g)'
      BY <1>0, <2>3 DEF LiveReadiness, Vetting, Serving
    <3>2. RobotOwner' = g /\ GoalPhase(g)' = "vetting"
      BY <1>0, <3>1 DEF OwnerFacts, PhaseFacts
    <3>3. Phases' = Phases
      BY <1>3, <2>2, <3>2, PhasesKept
    <3> QED
      BY <1>1, <1>2, <2>2, <3>2, <3>3 DEF Phases, Lifecycle!lifecycle
  <2>4. CASE GoalAccept(g)
    <3>1. pc'[g] = "queued"
      BY <1>0, <2>4 DEF GoalAccept
    <3>2. RobotOwner' = g /\ GoalPhase(g)' = "active"
      BY <1>0, <3>1 DEF OwnerFacts, PhaseFacts, Admitted, Serving
    <3>3. Phases' = [Phases EXCEPT ![g] = "active"]
      BY <1>3, <3>2, PhaseChanged
    <3> QED
      BY <1>1, <1>2, <2>2, <3>2, <3>3 DEF Phases, Lifecycle!Accept
  <2>5. CASE GoalGiveUp(g)
    <3>1. pc'[g] = "done" /\ status'[g] = "rejected"
      BY <1>0, <2>5 DEF GoalGiveUp
    <3>2. RobotOwner' = "nobody"
      <4>1. \A h \in Goals : ~Serving(h)'
        <5>1. \A h \in Goals : h # g => ~Serving(h)
          BY <1>0, <2>1 DEF IInv, FlagCoversGoals
        <5> QED
          BY <1>3, <3>1, <5>1 DEF Serving
      <4>2. ~manualReserved'
        BY <1>0, <1>1, <2>1 DEF IInv, FlagCoversGoals
      <4> QED
        BY <1>0, <4>1, <4>2 DEF OwnerFacts, Servers
    <3>3. GoalPhase(g)' = "rejected"
      BY <1>0, <3>1 DEF PhaseFacts
    <3>4. Phases' = [Phases EXCEPT ![g] = "rejected"]
      BY <1>3, <3>3, PhaseChanged
    <3> QED
      BY <1>1, <1>2, <2>2, <3>2, <3>4 DEF Phases, Lifecycle!Refuse
  <2> QED
    BY <1>6, <2>3, <2>4, <2>5
<1> QED
  BY <1>4, <1>5, <1>6 DEF Admission

LEMMA CancellationMaps ==
  ASSUME MapInv, MapInv', NEW g \in Goals, Cancellation(g)
  PROVE  UNCHANGED Lifecycle!lifecycle
<1>0. IInv /\ TypeOK /\ PhaseFacts /\ PhaseFacts' /\ StatusFollowsControl(g)
  BY DEF MapInv, IInv, GoalInv
<1>1. UNCHANGED <<pc, child, blocked, manualReserved>>
  BY DEF Cancellation, CancelCallback, CancelCommit, node, goal
<1>2. GoalPhase(g)' = GoalPhase(g)
  <2>1. CASE status'[g] = status[g]
    BY <1>1, <2>1 DEF GoalPhase
  <2>2. CASE status'[g] # status[g]
    <3>1. status[g] \in {"accepted", "executing"} /\ status'[g] = "canceling"
      BY <1>0, <2>2 DEF Cancellation, CancelCallback, CancelCommit, Active, TypeOK, goal
    <3> QED
      BY <3>1 DEF GoalPhase
  <2> QED
    BY <2>1, <2>2
<1>3. Phases' = Phases
  BY <1>0, <1>2, OthersKeepPlace, PhasesKept DEF GoalStep
<1>4. \A h \in Goals : Serving(h)' = Serving(h)
  BY <1>1 DEF Serving
<1> QED
  BY <1>1, <1>3, <1>4, OwnerFollowsServing, MovingFollowsChildren
     DEF Phases, Lifecycle!lifecycle

LEMMA ChildMaps ==
  ASSUME MapInv, MapInv', NEW g \in Goals, Child(g) \/ Transport(g)
  PROVE  Lifecycle!ChildStops(g) \/ UNCHANGED Lifecycle!lifecycle
<1>0. IInv /\ TypeOK /\ MovingFacts /\ MovingFacts'
  BY DEF MapInv, IInv
<1>1. UNCHANGED <<pc, status, stage, blocked, manualReserved>>
  BY DEF Child, ChildAnswer, ChildFinish, Transport, DeliverSend, DeliverResult,
     SendFault, ResultFault, node, goal
<1>2. RobotOwner' = RobotOwner
  BY <1>1, OwnerFollowsServing DEF Serving
<1>3. Phases' = Phases
  BY <1>1, PhasesKept DEF GoalPhase
<1>4. Moving' = Moving \/ (g \in Moving /\ Moving' = Moving \ {g})
  <2>1. \A h \in Goals : h # g => (h \in Moving)' = (h \in Moving)
    BY <1>0, OthersKeepPlace DEF GoalStep
  <2>2. CASE g \in Moving' \/ g \notin Moving
    <3>1. g \in Moving' => g \in Moving
      BY <1>0, <1>1, <2>2 DEF Child, ChildAnswer, ChildFinish, Transport,
         DeliverSend, DeliverResult, SendFault, ResultFault, MovingFacts, MayMove,
         InChildCall, TypeOK
    <3> QED
      BY <2>1, <2>2, <3>1 DEF Moving
  <2>3. CASE g \notin Moving' /\ g \in Moving
    BY <2>1, <2>3 DEF Moving
  <2> QED
    BY <2>2, <2>3
<1> QED
  BY <1>1, <1>2, <1>3, <1>4 DEF Phases, Lifecycle!ChildStops, Lifecycle!lifecycle

LEMMA ManualMaps ==
  ASSUME MapInv, MapInv', ManualAcquire \/ ManualRelease
  PROVE  \/ Lifecycle!TakeManual \/ Lifecycle!GiveManualBack
         \/ UNCHANGED Lifecycle!lifecycle
<1>0. IInv /\ TypeOK /\ OwnerFacts /\ OwnerFacts' /\ MovingFacts
  BY DEF MapInv, IInv
<1>1. UNCHANGED <<pc, status, stage, child, blocked>>
  BY DEF ManualAcquire, ManualRelease, goal
<1>2. Phases' = Phases /\ Moving' = Moving
  BY <1>1, PhasesKept, MovingFollowsChildren DEF GoalPhase
<1>3. CASE ManualAcquire
  <2>1. ~goalActive /\ ~manualReserved /\ ~blocked /\ manualReserved'
    BY <1>3 DEF ManualAcquire, Busy
  <2>2. \A h \in Goals : ~Serving(h)
    BY <1>0, <2>1 DEF IInv, FlagCoversGoals
  <2>3. RobotOwner = "nobody" /\ RobotOwner' = "manual"
    BY <1>0, <2>1, <2>2 DEF OwnerFacts, Servers
  <2>4. Moving = {}
    BY <1>0, <2>2 DEF MovingFacts, Moving, InChildCall, Serving
  <2> QED
    BY <1>1, <1>2, <2>1, <2>3, <2>4 DEF Phases, Lifecycle!TakeManual, Lifecycle!Free
<1>4. CASE ManualRelease /\ manualReserved
  <2>1. Servers' = Servers /\ ~manualReserved'
    BY <1>1, <1>4 DEF ManualRelease, Servers, Serving
  <2>2. RobotOwner = "manual" /\ RobotOwner' = "nobody"
    BY <1>0, <1>4, <2>1 DEF OwnerFacts
  <2> QED
    BY <1>1, <1>2, <2>2 DEF Phases, Lifecycle!GiveManualBack
<1>5. CASE ManualRelease /\ ~manualReserved
  <2>1. manualReserved' = manualReserved /\ \A h \in Goals : Serving(h)' = Serving(h)
    BY <1>0, <1>1, <1>5 DEF ManualRelease, Serving, TypeOK
  <2>2. RobotOwner' = RobotOwner
    BY <2>1, OwnerFollowsServing
  <2> QED
    BY <1>1, <1>2, <2>2 DEF Phases, Lifecycle!lifecycle
<1> QED
  BY <1>3, <1>4, <1>5

LEMMA StutteringMaps ==
  ASSUME UNCHANGED vars \/ OnStopState
  PROVE  UNCHANGED Lifecycle!lifecycle
<1>1. UNCHANGED <<pc, status, child, blocked, manualReserved>>
  BY DEF vars, OnStopState, node, goal
<1> QED
  BY <1>1, PhasesKept, OwnerFollowsServing, MovingFollowsChildren
     DEF Phases, GoalPhase, Serving, Lifecycle!lifecycle

-----------------------------------------------------------------------------
(* The node implements the abstract life cycle: at every step the robot's  *)
(* owner, the phase of each goal and the goals that still move the robot   *)
(* change only as TaskLifecycle allows.                                    *)
THEOREM Refinement == Spec => RefinesLifecycle
<1>1. Init => Lifecycle!Init
  <2> SUFFICES ASSUME Init PROVE Lifecycle!Init
    OBVIOUS
  <2>1. Servers = {} /\ Moving = {}
    BY DEF Init, Servers, Serving, Moving, MayMove
  <2>2. RobotOwner = "nobody"
    BY <2>1 DEF Init, RobotOwner
  <2>3. \A g \in Goals : GoalPhase(g) = "new"
    BY DEF Init, GoalPhase
  <2> QED
    BY <2>1, <2>2, <2>3 DEF Init, Lifecycle!Init
<1>2. MapInv /\ MapInv' /\ [Next]_vars => [Lifecycle!Next]_(Lifecycle!lifecycle)
  <2> SUFFICES ASSUME MapInv, MapInv', [Next]_vars
               PROVE  [Lifecycle!Next]_(Lifecycle!lifecycle)
    OBVIOUS
  <2>1. CASE UNCHANGED vars \/ OnStopState
    BY <2>1, StutteringMaps
  <2>2. CASE ManualAcquire \/ ManualRelease
    BY <2>2, ManualMaps DEF Lifecycle!Next
  <2>3. ASSUME NEW g \in Goals, Admission(g)
        PROVE  [Lifecycle!Next]_(Lifecycle!lifecycle)
    BY <2>3, AdmissionMaps DEF Lifecycle!Next
  <2>4. ASSUME NEW g \in Goals, Cancellation(g) \/ Child(g) \/ Transport(g)
        PROVE  [Lifecycle!Next]_(Lifecycle!lifecycle)
    BY <2>4, CancellationMaps, ChildMaps DEF Lifecycle!Next
  <2>5. ASSUME NEW g \in Goals, ExecuteStep(g)
        PROVE  [Lifecycle!Next]_(Lifecycle!lifecycle)
    BY <2>5, ExecuteMaps, CallSendsMaps, TerminateMaps, ReleaseMaps
       DEF Lifecycle!Next
  <2> QED
    BY <2>1, <2>2, <2>3, <2>4, <2>5 DEF Next
<1>3. Spec => []MapInv
  BY Invariance, MappedState, PTL
<1> QED
  BY <1>1, <1>2, <1>3, PTL DEF Spec, RefinesLifecycle, Lifecycle!Spec

-----------------------------------------------------------------------------
(* The order of the stages and the truth of what is reported.              *)
(* StagesInOrder and OutcomeIsTruthful speak of the children only.  What   *)
(* execute() knows of them is the stage it is in, the control point and    *)
(* the code it carries; the invariant below says what these stand for.     *)


-----------------------------------------------------------------------------
(* The invariant *)

(* A stage is behind a goal that is past it: its child succeeded, the goal *)
(* did not need it, or it is the localization that was there already.      *)
Behind(g, j) ==
  Runs(g, j) => child[g][j] = "ok" \/ (j = 1 /\ child[g][j] = "none")

AllBehind(g) == \A j \in Stages : Behind(g, j)

Before(g) == pc[g] \in {"idle", "queued"} \/ Vetting(g)

(* The stage splits the pipeline into what is behind and what is untouched.*)
StageSplits(g) ==
  /\ \A j \in Stages : j < stage[g] => Behind(g, j)
  /\ \A k \in Stages : k > stage[g] => child[g][k] = "none"
  /\ Before(g) => \A k \in Stages : child[g][k] = "none"
  /\ pc[g] = "call" => child[g][stage[g]] = "none"
  /\ pc[g] = "settle" => child[g][stage[g]] = "ok"

(* The pipeline is behind a goal that is to succeed.                       *)
SuccessIsEarned(g) ==
  /\ pc[g] = "complete" => AllBehind(g)
  /\ pc[g] = "terminate" /\ code[g] = "NONE" => AllBehind(g)
  /\ status[g] = "succeeded" => AllBehind(g)

(* What is announced is what the goal handle is about to be, and then is.  *)
AnnouncedAs(g) == CASE code[g] = "NONE" -> "SUCCEEDED"
                    [] code[g] = "CANCELED" -> "CANCELED"
                    [] OTHER -> "FAILED"

AnnouncementHolds(g) ==
  /\ pc[g] = "terminate" => announced[g] = AnnouncedAs(g)
  /\ pc[g] = "terminate" /\ code[g] = "CANCELED" => status[g] = "canceling"
  /\ status[g] = "succeeded" => announced[g] = "SUCCEEDED"
  /\ status[g] = "canceled" => announced[g] = "CANCELED"
  /\ status[g] = "aborted" => announced[g] = "FAILED"

OutcomeInv(g) == StageSplits(g) /\ SuccessIsEarned(g) /\ AnnouncementHolds(g)

OInv == IInv /\ \A g \in Goals : OutcomeInv(g)

-----------------------------------------------------------------------------
(* The pipeline *)

(* The stage that follows k is a later one, and skips only a stage the     *)
(* goal does not need.                                                     *)
LEMMA FollowingSkips ==
  ASSUME NEW g \in Goals, NEW k \in Stages
  PROVE  /\ Following(g, k) \in Nat /\ k < Following(g, k)
         /\ \A j \in Stages : k < j /\ j < Following(g, k) => ~Runs(g, j)
<1>1. Stages \subseteq Nat
  BY PipelineLength DEF Stages
<1>2. CASE k + 1 \in Stages /\ ~Runs(g, k + 1)
  <2>1. Following(g, k) = k + 2
    BY <1>2 DEF Following
  <2>2. \A j \in Stages : k < j /\ j < k + 2 => j = k + 1
    BY <1>1
  <2> QED
    BY <1>1, <1>2, <2>1, <2>2
<1>3. CASE ~(k + 1 \in Stages /\ ~Runs(g, k + 1))
  <2>1. Following(g, k) = k + 1
    BY <1>3 DEF Following
  <2>2. \A j \in Stages : ~(k < j /\ j < k + 1)
    BY <1>1
  <2> QED
    BY <1>1, <2>1, <2>2
<1> QED
  BY <1>2, <1>3

(* Advancing from a stage that succeeded leaves it behind.                 *)
LEMMA AdvanceSplits ==
  ASSUME IInv, NEW g \in Goals, StageSplits(g), child[g][stage[g]] = "ok",
         Advance(g), child' = child, pc[g] \notin {"idle", "queued"}, ~Vetting(g)
  PROVE  StageSplits(g)' /\ (pc'[g] = "complete" => AllBehind(g)')
<1> DEFINE k == stage[g]
           f == Following(g, k)
<1>1. k \in Stages /\ Stages \subseteq Nat
  BY PipelineLength DEF IInv, TypeOK, Stages
<1>2. f \in Nat /\ k < f /\ \A j \in Stages : k < j /\ j < f => ~Runs(g, j)
  BY <1>1, FollowingSkips
<1>3. ASSUME NEW j \in Stages, j < f PROVE Behind(g, j)'
  <2>1. CASE j < k
    BY <2>1 DEF StageSplits, Behind, Runs
  <2>2. CASE j = k
    BY <2>2 DEF Behind, Runs
  <2>3. CASE k < j
    BY <1>2, <1>3, <2>3 DEF Behind, Runs
  <2>4. j \in Nat /\ k \in Nat
    BY <1>1
  <2> HIDE DEF k
  <2> QED
    BY <2>1, <2>2, <2>3, <2>4
<1>4. CASE f = Complete
  <2>1. pc'[g] = "complete" /\ stage' = stage
    BY <1>4 DEF Advance, Goto, IInv, TypeOK
  <2>2. AllBehind(g)'
    BY <1>3, <1>4, <1>1, PipelineLength DEF AllBehind, Complete, Stages
  <2> QED
    BY <2>1, <2>2 DEF StageSplits, Before, Vetting, Behind, Runs
<1>5. CASE f # Complete
  <2>1. pc'[g] = "call" /\ stage'[g] = f /\ f \in Stages
    BY <1>5, <1>1, FollowingIsStage DEF Advance, Goto, IInv, TypeOK
  <2>2. ASSUME NEW j \in Stages, j >= f PROVE child[g][j] = "none"
    <3>1. j \in Nat /\ k \in Nat
      BY <1>1
    <3>2. j > k
      <4> HIDE DEF f, k
      <4> QED
        BY <1>2, <2>2, <3>1
    <3> QED
      BY <3>2 DEF StageSplits
  <2> HIDE DEF f, k
  <2> QED
    BY <1>1, <1>3, <2>1, <2>2 DEF StageSplits, Before, Vetting
<1> QED
  BY <1>4, <1>5

-----------------------------------------------------------------------------
(* What a step of one goal leaves alone *)

SameOutcome(h) == code'[h] = code[h] /\ announced'[h] = announced[h]

LEMMA OtherOutcomesUntouched ==
  ASSUME TypeOK, NEW g \in Goals, NEW h \in Goals, h # g, GoalStep(g)
  PROVE  SameOutcome(h)
<1> USE DEF SameOutcome, TypeOK, Raise, Announce, goal
<1>1. CASE Admission(g) \/ Cancellation(g) \/ Child(g) \/ Transport(g)
  BY <1>1 DEF Admission, GoalReject, GoalClaim, LiveReadiness, GoalAccept,
       GoalGiveUp, Cancellation, CancelCallback, CancelCommit, Child,
       ChildAnswer, ChildFinish, Transport, DeliverSend, DeliverResult,
       SendFault, ResultFault
<1>2. CASE ExecuteStep(g)
  BY <1>2 DEF ExecuteStep, Execute, CallFails, CallSends, WaitGivesUp,
       GoalResponse, ChildResult, Settled, SettleFails, CancelChild,
       CancelResult, DrainSend, DrainResult, Finish, HandleFailure, Terminate,
       Release
<1> QED
  BY <1>1, <1>2 DEF GoalStep

LEMMA OutcomeInvOfSameGoal ==
  ASSUME NEW h \in Goals, OutcomeInv(h), SameGoal(h), SameOutcome(h)
  PROVE  OutcomeInv(h)'
  BY DEF OutcomeInv, StageSplits, SuccessIsEarned, AnnouncementHolds, AnnouncedAs,
         AllBehind, Behind, Before, Vetting, Runs, SameGoal, SameOutcome

-----------------------------------------------------------------------------
(* Each step of a goal keeps the invariant of that goal.                   *)

(* A step that starts nothing, ends nothing and does not reach a control   *)
(* point that promises more                                                *)
LEMMA StillSplits ==
  ASSUME NEW g \in Goals, StageSplits(g), child'[g] = child[g],
         stage'[g] = stage[g], Before(g)' => Before(g),
         pc'[g] \notin {"call", "settle"}
  PROVE  StageSplits(g)'
  BY DEF StageSplits, Behind, Runs

(* A step that moves the control of a goal that has not ended, and neither *)
(* completes nor decides its outcome                                       *)
LEMMA StillUndecided ==
  ASSUME NEW g \in Goals, AnnouncementHolds(g), SuccessIsEarned(g),
         status'[g] \notin TerminalStatus, pc'[g] \notin {"complete", "terminate"}
  PROVE  AnnouncementHolds(g)' /\ SuccessIsEarned(g)'
  BY DEF AnnouncementHolds, SuccessIsEarned, TerminalStatus

LEMMA AdmissionKeepsOutcome ==
  ASSUME OInv, NEW g \in Goals, Admission(g)
  PROVE  OutcomeInv(g)'
<1> USE DEF OInv, IInv, GoalInv, TypeOK, StatusFollowsControl, Goto, node, stop, goal
<1>1. /\ Before(g) /\ child' = child /\ stage' = stage
      /\ pc'[g] \in {"sampling", "ready", "notReady", "queued", "done"}
  BY DEF Admission, GoalReject, GoalClaim, LiveReadiness, GoalAccept,
     GoalGiveUp, Before, Vetting
<1>2. status'[g] \in {"unsent", "accepted", "rejected"}
  BY <1>1 DEF Admission, GoalReject, GoalClaim, LiveReadiness, GoalAccept,
     GoalGiveUp, Vetting
<1>3. StageSplits(g)'
  BY <1>1, StillSplits DEF OutcomeInv
<1>4. AnnouncementHolds(g)' /\ SuccessIsEarned(g)'
  BY <1>1, <1>2, StillUndecided DEF OutcomeInv, TerminalStatus
<1> QED
  BY <1>3, <1>4 DEF OutcomeInv

LEMMA CancellationKeepsOutcome ==
  ASSUME OInv, NEW g \in Goals, Cancellation(g)
  PROVE  OutcomeInv(g)'
<1>1. UNCHANGED <<pc, stage, code, child, announced>>
  BY DEF Cancellation, CancelCallback, CancelCommit, goal
<1>2. status'[g] = status[g] \/ status'[g] = "canceling"
  BY DEF Cancellation, CancelCallback, CancelCommit, goal, OInv, IInv, TypeOK
<1>3. StageSplits(g)'
  BY <1>1 DEF OInv, OutcomeInv, StageSplits, Behind, Before, Vetting, Runs
<1>4. SuccessIsEarned(g)' /\ AnnouncementHolds(g)'
  BY <1>1, <1>2 DEF OInv, OutcomeInv, SuccessIsEarned, AnnouncementHolds,
     AnnouncedAs, AllBehind, Behind, Runs
<1> QED
  BY <1>3, <1>4 DEF OutcomeInv

(* What the child does cannot undo what is behind, nor start what is not.  *)
LEMMA ChildKeepsOutcome ==
  ASSUME OInv, NEW g \in Goals, Child(g) \/ Transport(g)
  PROVE  OutcomeInv(g)'
<1>1. UNCHANGED <<pc, stage, status, code, announced>>
  BY DEF Child, ChildAnswer, ChildFinish, Transport, DeliverSend, DeliverResult,
     SendFault, ResultFault, goal
<1>2. /\ stage[g] \in Stages
      /\ \A k \in Stages : k # stage[g] => child'[g][k] = child[g][k]
      /\ child'[g] = child[g] \/ child[g][stage[g]] \in {"queued", "running"}
  BY DEF Child, ChildAnswer, ChildFinish, Transport, DeliverSend, DeliverResult,
     SendFault, ResultFault, OInv, IInv, TypeOK
<1>3. CASE child'[g] = child[g]
  BY <1>1, <1>3 DEF OInv, OutcomeInv, StageSplits, SuccessIsEarned,
     AnnouncementHolds, AnnouncedAs, AllBehind, Behind, Before, Vetting, Runs
<1>4. CASE child[g][stage[g]] \in {"queued", "running"}
  <2>2. InChildCall(g)
    BY <1>2, <1>4 DEF OInv, IInv, GoalInv, ChildIsWatched, MayMove
  <2>3. pc[g] \notin {"complete", "terminate", "call", "settle"} /\ ~Before(g)
    BY <2>2 DEF InChildCall, Before, Vetting
  <2>4. status[g] \notin TerminalStatus
    BY <2>2 DEF OInv, IInv, GoalInv, StatusFollowsControl, Admitted, TerminalStatus
  <2>5. SuccessIsEarned(g)' /\ AnnouncementHolds(g)'
    BY <1>1, <2>3, <2>4, StillUndecided DEF OInv, OutcomeInv
  <2>6. \A j \in Stages : j < stage[g] => j # stage[g]
    BY <1>2 DEF Stages
  <2>7. \A j \in Stages : j > stage[g] => j # stage[g]
    BY <1>2 DEF Stages
  <2>8. StageSplits(g)'
    BY <1>1, <1>2, <2>3, <2>6, <2>7 DEF OInv, OutcomeInv, StageSplits, Behind,
       Before, Vetting, Runs
  <2> QED
    BY <2>5, <2>8 DEF OutcomeInv
<1> QED
  BY <1>2, <1>3, <1>4

(* The control points a step inside execute() may reach                    *)
LEMMA ExecuteStepKeepsOutcome ==
  ASSUME OInv, NEW g \in Goals, ExecuteStep(g)
  PROVE  OutcomeInv(g)'
<1> USE DEF Goto, Raise, node, stop, goal
<1>0. /\ TypeOK /\ GoalInv(g) /\ StageSplits(g) /\ SuccessIsEarned(g)
      /\ AnnouncementHolds(g) /\ pc \in [Goals -> PcValues]
      /\ stage[g] \in Stages /\ status \in [Goals -> StatusValues]
      /\ code \in [Goals -> Codes] /\ announced \in [Goals -> Announcements]
      /\ child \in [Goals -> [Stages -> ChildValues]]
  BY DEF OInv, IInv, OutcomeInv, TypeOK
<1>1. CASE Execute(g)
  <2>1. /\ child' = child /\ pc'[g] = "call" /\ stage'[g] \in {1, 2}
        /\ \A k \in Stages : child[g][k] = "none"
    BY <1>0, <1>1 DEF Execute, TypeOK, StageSplits, Before
  <2>2. \A j \in Stages : j < stage'[g] => j = 1
    BY <2>1 DEF Stages
  <2>3. StageSplits(g)'
    BY <2>1, <2>2, PipelineLength DEF StageSplits, Behind, Before, Vetting
  <2>4. status'[g] \notin TerminalStatus
    BY <1>0, <1>1 DEF Execute, GoalInv, StatusFollowsControl, Admitted, TerminalStatus
  <2> QED
    BY <1>0, <2>1, <2>3, <2>4, StillUndecided DEF OutcomeInv
<1>2. CASE CallSends(g)
  <2>1. /\ pc[g] = "call" /\ pc'[g] = "waitSend" /\ stage' = stage /\ status' = status
        /\ \A k \in Stages : k # stage[g] => child'[g][k] = child[g][k]
    BY <1>0, <1>2 DEF CallSends
  <2>2. \A j \in Stages : j < stage[g] \/ j > stage[g] => j # stage[g]
    BY <1>0 DEF Stages
  <2>3. StageSplits(g)'
    BY <1>0, <2>1, <2>2 DEF StageSplits, Behind, Before, Vetting, Runs
  <2>4. status'[g] \notin TerminalStatus
    BY <1>0, <2>1 DEF GoalInv, StatusFollowsControl, Admitted, TerminalStatus
  <2> QED
    BY <1>0, <2>1, <2>3, <2>4, StillUndecided DEF OutcomeInv
<1>3. CASE \/ CallFails(g) \/ WaitGivesUp(g) \/ GoalResponse(g) \/ SettleFails(g)
           \/ CancelChild(g) \/ CancelResult(g) \/ DrainSend(g) \/ DrainResult(g)
  <2>1. /\ child' = child /\ stage' = stage /\ status' = status
        /\ InChildCall(g) \/ pc[g] \in {"call", "settle"}
        /\ InChildCall(g)' \/ pc'[g] = "except"
    BY <1>0, <1>3 DEF CallFails, WaitGivesUp, GoalResponse, SettleFails,
       CancelChild, CancelResult, DrainSend, DrainResult, BlockAndDrain, InChildCall
  <2>2. status'[g] \notin TerminalStatus
    BY <1>0, <2>1 DEF GoalInv, StatusFollowsControl, Admitted, TerminalStatus
  <2>3. /\ ~Before(g)'
        /\ pc'[g] \notin {"complete", "terminate", "call", "settle"}
    BY <2>1 DEF InChildCall, Before, Vetting
  <2> QED
    BY <1>0, <2>1, <2>2, <2>3, StillSplits, StillUndecided DEF OutcomeInv
<1>4. CASE ChildResult(g) \/ Settled(g)
  <2>1. /\ child' = child /\ status' = status
        /\ pc[g] \in {"waitResult", "settle"}
    BY <1>4 DEF ChildResult, Settled
  <2>2. status'[g] \notin TerminalStatus
    BY <1>0, <2>1 DEF GoalInv, StatusFollowsControl, Admitted, InChildCall, TerminalStatus
  <2>3. CASE Advance(g) /\ child[g][stage[g]] = "ok"
    <3>1. StageSplits(g)' /\ (pc'[g] = "complete" => AllBehind(g)')
      BY <1>0, <2>1, <2>3, AdvanceSplits DEF OInv, Vetting
    <3>2. pc'[g] \in {"complete", "call"}
      BY <1>0, <2>3 DEF Advance
    <3> QED
      BY <2>2, <3>1, <3>2
         DEF OutcomeInv, SuccessIsEarned, AnnouncementHolds, TerminalStatus
  <2>4. CASE pc'[g] = "settle" /\ stage' = stage /\ child[g][stage[g]] = "ok"
    <3>1. StageSplits(g)'
      BY <1>0, <2>1, <2>4 DEF StageSplits, Behind, Before, Vetting, Runs
    <3> QED
      BY <1>0, <2>2, <2>4, <3>1, StillUndecided DEF OutcomeInv
  <2>5. CASE pc'[g] \in {"except", "drainSend"} /\ stage' = stage
    <3>1. ~Before(g)'
      BY <2>5 DEF Before, Vetting
    <3> QED
      BY <1>0, <2>1, <2>2, <2>5, <3>1, StillSplits, StillUndecided DEF OutcomeInv
  <2> QED
    BY <1>0, <1>4, <2>3, <2>4, <2>5
       DEF ChildResult, Settled, BlockAndDrain, GoalInv, FuturesAreTrue,
           StageSplits, Outcomes
<1>5. CASE Finish(g) \/ HandleFailure(g)
  <2>1. /\ UNCHANGED <<child, stage, status>> /\ pc[g] \in {"complete", "except"}
        /\ pc'[g] \in {"except", "terminate"}
    BY <1>0, <1>5 DEF Finish, HandleFailure
  <2>2. status[g] \in {"accepted", "executing", "canceling"}
    BY <1>0, <2>1 DEF GoalInv, StatusFollowsControl, Admitted
  <2>3. StageSplits(g)'
    BY <1>0, <2>1, StillSplits DEF Before, Vetting
  <2>4. pc'[g] = "terminate" =>
          /\ announced'[g] = AnnouncedAs(g)'
          /\ code'[g] = "CANCELED" => status[g] = "canceling"
          /\ code'[g] = "NONE" => pc[g] = "complete"
    BY <1>0, <1>5 DEF Finish, HandleFailure, ReportedCode, Announce, AnnouncedAs,
       CancelRequested
  <2>5. AllBehind(g) => AllBehind(g)'
    BY <2>1 DEF AllBehind, Behind, Runs
  <2> QED
    BY <1>0, <2>1, <2>2, <2>3, <2>4, <2>5
       DEF OutcomeInv, SuccessIsEarned, AnnouncementHolds
<1>6. CASE Terminate(g)
  <2>1. /\ UNCHANGED <<child, stage, code, announced>> /\ pc[g] = "terminate"
        /\ pc'[g] = "finally"
        /\ status'[g] = CASE code[g] = "NONE" -> "succeeded"
                          [] code[g] = "CANCELED" -> "canceled"
                          [] OTHER -> "aborted"
    BY <1>0, <1>6 DEF Terminate
  <2>2. StageSplits(g)'
    BY <1>0, <2>1, StillSplits DEF Before, Vetting
  <2>3. AllBehind(g) => AllBehind(g)'
    BY <2>1 DEF AllBehind, Behind, Runs
  <2> QED
    BY <1>0, <2>1, <2>2, <2>3
       DEF OutcomeInv, SuccessIsEarned, AnnouncementHolds, AnnouncedAs
<1>7. CASE Release(g)
  <2>1. /\ UNCHANGED <<child, stage, code, announced, status>>
        /\ pc[g] = "finally" /\ pc'[g] = "done"
    BY <1>0, <1>7 DEF Release
  <2>2. StageSplits(g)'
    BY <1>0, <2>1, StillSplits DEF Before, Vetting
  <2>3. AllBehind(g) => AllBehind(g)'
    BY <2>1 DEF AllBehind, Behind, Runs
  <2> QED
    BY <1>0, <2>1, <2>2, <2>3 DEF OutcomeInv, SuccessIsEarned, AnnouncementHolds
<1> QED
  BY <1>1, <1>2, <1>3, <1>4, <1>5, <1>6, <1>7 DEF ExecuteStep

-----------------------------------------------------------------------------
(* The invariant is inductive *)

LEMMA InitOInv == Init => OInv
<1> SUFFICES ASSUME Init PROVE OInv
  OBVIOUS
<1>1. ASSUME NEW g \in Goals PROVE OutcomeInv(g)
  <2>1. StageSplits(g)
    BY PipelineLength DEF Init, StageSplits, Behind, Stages
  <2> QED
    BY <2>1 DEF Init, OutcomeInv, SuccessIsEarned, AnnouncementHolds
<1> QED
  BY <1>1, InitIInv DEF OInv

LEMMA NextOInv == OInv /\ [Next]_vars => OInv'
<1> SUFFICES ASSUME OInv, [Next]_vars PROVE OInv'
  OBVIOUS
<1>1. IInv'
  BY NextIInv DEF OInv
<1>2. CASE UNCHANGED vars \/ OnStopState \/ ManualAcquire \/ ManualRelease
  <2>1. \A h \in Goals : SameGoal(h) /\ SameOutcome(h)
    BY <1>2 DEF SameGoal, SameOutcome, vars, OnStopState, ManualAcquire,
       ManualRelease, goal
  <2>2. \A h \in Goals : OutcomeInv(h)'
    BY <2>1, OutcomeInvOfSameGoal DEF OInv
  <2> QED
    BY <1>1, <2>2 DEF OInv
<1>3. ASSUME NEW g \in Goals, GoalStep(g) PROVE OInv'
  <2>1. OutcomeInv(g)'
    BY <1>3, AdmissionKeepsOutcome, CancellationKeepsOutcome,
       ExecuteStepKeepsOutcome, ChildKeepsOutcome DEF GoalStep
  <2>2. ASSUME NEW h \in Goals, h # g PROVE OutcomeInv(h)'
    <3>1. SameGoal(h) /\ SameOutcome(h)
      BY <1>3, <2>2, OtherGoalsUntouched, OtherOutcomesUntouched DEF OInv, IInv
    <3> QED
      BY <3>1, OutcomeInvOfSameGoal DEF OInv
  <2> QED
    BY <1>1, <2>1, <2>2 DEF OInv
<1> QED
  BY <1>2, <1>3 DEF Next, GoalStep

LEMMA OutcomeInvariance == Spec => []OInv
  BY InitOInv, NextOInv, PTL DEF Spec

-----------------------------------------------------------------------------
(* Safety *)

(* No stage is started before every earlier stage its goal needs has       *)
(* succeeded.                                                              *)
THEOREM StagesRunInOrder == Spec => []StagesInOrder
<1>1. ASSUME OInv PROVE StagesInOrder
  <2> SUFFICES ASSUME NEW g \in Goals, NEW j \in Stages, NEW k \in Stages, j < k,
                      Runs(g, j), child[g][k] # "none"
               PROVE  child[g][j] = "ok" \/ (j = 1 /\ child[g][j] = "none")
    BY DEF StagesInOrder
  <2>1. ~(k > stage[g]) /\ stage[g] \in Stages
    BY <1>1 DEF OInv, IInv, TypeOK, OutcomeInv, StageSplits
  <2>2. j < stage[g]
    BY <2>1 DEF Stages
  <2> QED
    BY <1>1, <2>2 DEF OInv, OutcomeInv, StageSplits, Behind
<1> QED
  BY <1>1, OutcomeInvariance, PTL

(* A success is the success of the whole pipeline, a cancellation follows  *)
(* a request, and the event on /task/events agrees with the action server. *)
THEOREM OutcomesAreTruthful == Spec => []OutcomeIsTruthful
<1>1. ASSUME OInv PROVE OutcomeIsTruthful
  BY <1>1 DEF OInv, OutcomeInv, SuccessIsEarned, AllBehind, Behind,
     AnnouncementHolds, OutcomeIsTruthful, TerminalStatus
<1> QED
  BY <1>1, OutcomeInvariance, PTL

=============================================================================
