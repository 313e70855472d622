-------------------------- MODULE StreamingExecutor --------------------------
(***************************************************************************)
(* The motor side of a learned policy: xlerobot_manipulation/src/          *)
(* streaming_joint_executor.cpp, with streaming_validator.cpp and          *)
(* controller_mode_manager.cpp.                                            *)
(*                                                                         *)
(* An action goal reserves the node, switches the arm from its normal      *)
(* controllers to the policy controller, and arms a session.  The policy   *)
(* publishes chunks of joint positions on a topic; a callback validates    *)
(* each chunk and queues its samples, and the goal's worker thread sends   *)
(* the samples to the controller one at a time.  Any rejected chunk faults *)
(* the session.  However the session ends, the worker holds the arm and    *)
(* switches the normal controllers back before it reports.                 *)
(*                                                                         *)
(* The worker and the callback share the session under a lock; one action  *)
(* stands for each critical section, and for each stretch of the worker    *)
(* between two of them.  Time is abstract: a freshness check, watchdog or  *)
(* service deadline may go either way, except that a session lasts no more *)
(* than MaxLoops rounds of its loop.                                       *)
(***************************************************************************)
EXTENDS Naturals, Sequences, FiniteSets

CONSTANTS
    Sessions,    \* the goals clients send; each names its own session
    DryRuns,     \* those of them that only ask for a plan
    Limits       \* the bounds a behaviour may have: which goals are sent,
                 \* and the most of chunks, samples and rounds

ASSUME SessionsAssumption ==
    DryRuns \subseteq Sessions /\ "no session" \notin Sessions
ASSUME LimitsAssumption ==
    Limits \subseteq [clients : SUBSET Sessions, seq : Nat,
                      samples : Nat \ {0}, horizon : Nat \ {0}, loops : Nat]

VARIABLES
    reserved,   \* goal_reserved_
    active,     \* active_session_, or NoSession
    status,     \* the action server's status of each goal
    pc,         \* where the worker serving each goal is
    target,     \* the mode that worker is switching to
    why,        \* how its goal will end
    session,    \* what the callback and the worker share of each session
    hand,       \* the sample the worker has taken from the queue
    due,        \* the time of the next sample has come
    finalSeen,  \* the worker's copy of final_received
    finalSent,  \* final_sent
    loops,      \* rounds of the session loop so far
    sent,       \* how many samples of each session were published
    command,    \* the last command on the policy controller's topic
    mode,       \* the controllers that are active
    requests,   \* switch requests the controller manager has not served
    limits      \* the bounds of this behaviour

worker == <<status, pc, target, why>>
round  == <<hand, due, finalSeen, finalSent, loops>>
stream == <<session, round, sent, command>>
arm    == <<mode, requests>>
vars   == <<reserved, active, worker, stream, arm, limits>>

MaxSeq     == limits.seq      \* bound: highest sequence number a producer sends
MaxSamples == limits.samples  \* bound: most samples in a chunk
MaxHorizon == limits.horizon  \* max_queue_horizon_s, in samples
MaxLoops   == limits.loops    \* max_duration, in rounds of the session loop

-----------------------------------------------------------------------------
NoSession == "no session"
NoSample == [seq |-> 0, index |-> 0]
NoCommand == [by |-> NoSession, kind |-> "none", sample |-> NoSample]

Ended == {"succeeded", "canceled", "aborted"}
StatusValues == {"unsent", "rejected", "executing", "canceling"} \cup Ended
Reasons == {"none", "complete", "canceled", "failed", "backend"}
Modes == {"normal", "policy", "mixed"}
PcValues == {"idle", "plan", "context", "list", "wait", "verify", "subscriber",
             "check", "take", "publish", "final", "round", "hold", "report",
             "reset", "release", "done"}

(* Samples are numbered within their chunk, from 1.                        *)
Samples == [seq : 0 .. MaxSeq, index : 1 .. MaxSamples]
Chunks == [session : Sessions, seq : 0 .. MaxSeq, samples : 1 .. MaxSamples,
           final : BOOLEAN, sound : BOOLEAN]

(* accepted counts chunks and is the sequence number the validator expects *)
(* next; total counts their samples, and is kept for the properties.       *)
Shared == [accepted : Nat, total : Nat, final : BOOLEAN, faulted : BOOLEAN,
           queue : Seq(Samples)]
NewSession == [accepted |-> 0, total |-> 0, final |-> FALSE, faulted |-> FALSE,
               queue |-> <<>>]

Goto(g, p) == pc' = [pc EXCEPT ![g] = p]
EndWith(g, p, reason) == Goto(g, p) /\ why' = [why EXCEPT ![g] = reason]

Init ==
    /\ reserved = FALSE
    /\ active = NoSession
    /\ status = [g \in Sessions |-> "unsent"]
    /\ pc = [g \in Sessions |-> "idle"]
    /\ target = [g \in Sessions |-> "policy"]
    /\ why = [g \in Sessions |-> "none"]
    /\ session = [g \in Sessions |-> NewSession]
    /\ hand = <<>>
    /\ due = FALSE
    /\ finalSeen = FALSE
    /\ finalSent = FALSE
    /\ loops = 0
    /\ sent = [g \in Sessions |-> 0]
    /\ command = NoCommand
    /\ mode = "normal"
    /\ requests = <<>>
    /\ limits \in Limits

-----------------------------------------------------------------------------
(* Admission and what precedes the session *)

(* Faulty variant: any number of goals at a time.                          *)
HandleGoalUnreserved(g) ==
    /\ pc[g] = "idle" /\ g \in limits.clients
    /\ reserved' = TRUE
    /\ status' = [status EXCEPT ![g] = "executing"]
    /\ Goto(g, "plan")
    /\ UNCHANGED <<active, target, why, stream, arm>>

(* handle_goal and handle_accepted                                         *)
HandleGoal(g) ==
    /\ pc[g] = "idle" /\ g \in limits.clients
    /\ reserved' = TRUE
    /\ IF reserved
         THEN /\ status' = [status EXCEPT ![g] = "rejected"]
              /\ Goto(g, "done")
         ELSE /\ status' = [status EXCEPT ![g] = "executing"]
              /\ Goto(g, "plan")
    /\ UNCHANGED <<active, target, why, stream, arm>>

(* handle_cancel accepts every request.                                    *)
HandleCancel(g) ==
    /\ status[g] = "executing"
    /\ status' = [status EXCEPT ![g] = "canceling"]
    /\ UNCHANGED <<reserved, active, pc, target, why, stream, arm>>

(* A dry run succeeds once its plan is valid; any goal may turn out not to *)
(* be executable.                                                          *)
CheckPlan(g) ==
    /\ pc[g] = "plan"
    /\ \/ EndWith(g, "report", "failed")
       \/ g \in DryRuns /\ EndWith(g, "report", "complete")
       \/ g \notin DryRuns /\ Goto(g, "context") /\ UNCHANGED why
    /\ UNCHANGED <<reserved, active, status, target, stream, arm>>

(* Wait for fresh joint state that matches the pregrasp start context.     *)
AwaitContext(g) ==
    /\ pc[g] = "context"
    /\ \/ status[g] = "canceling" /\ EndWith(g, "report", "canceled") /\ UNCHANGED target
       \/ /\ status[g] # "canceling"
          /\ \/ EndWith(g, "report", "failed") /\ UNCHANGED target
             \/ /\ Goto(g, "list")
                /\ target' = [target EXCEPT ![g] = "policy"]
                /\ UNCHANGED why
    /\ UNCHANGED <<reserved, active, status, stream, arm>>

-----------------------------------------------------------------------------
(* switch_mode of the controller mode manager, on the worker's thread *)

Armed(g) == active = g

(* Faulty variant: the outcome of the way back is not looked at.           *)
SwitchEndsIgnoring(g, switched) ==
    IF target[g] = "policy"
      THEN IF switched THEN Goto(g, "subscriber") /\ UNCHANGED why
                       ELSE EndWith(g, "report", "backend")
      ELSE Goto(g, "report") /\ UNCHANGED why

(* A switch to the policy controller leads to the session, or aborts.  One *)
(* back to the normal controllers leads to the report; an armed session    *)
(* that cannot be restored reports that instead of its own outcome.        *)
SwitchEnds(g, switched) ==
    IF target[g] = "policy"
      THEN IF switched THEN Goto(g, "subscriber") /\ UNCHANGED why
                       ELSE EndWith(g, "report", "backend")
      ELSE IF switched \/ ~Armed(g) THEN Goto(g, "report") /\ UNCHANGED why
                                    ELSE EndWith(g, "report", "backend")

(* Services are missing or the list times out; the controllers are in the  *)
(* mode already; or a strict switch is requested.                          *)
ListControllers(g) ==
    /\ pc[g] = "list"
    /\ \/ SwitchEnds(g, FALSE) /\ UNCHANGED requests
       \/ mode = target[g] /\ SwitchEnds(g, TRUE) /\ UNCHANGED requests
       \/ /\ mode # target[g]
          /\ Goto(g, "wait")
          /\ requests' = Append(requests, [to |-> target[g], by |-> g])
          /\ UNCHANGED why
    /\ UNCHANGED <<reserved, active, status, target, stream, mode>>

(* The wait for the response times out; the request stays where it is.     *)
SwitchTimesOut(g) ==
    /\ pc[g] = "wait"
    /\ SwitchEnds(g, FALSE)
    /\ UNCHANGED <<reserved, active, status, target, stream, arm>>

(* A positive response is checked against the controllers' states.         *)
VerifyMode(g) ==
    /\ pc[g] = "verify"
    /\ \/ SwitchEnds(g, FALSE)
       \/ mode = target[g] /\ SwitchEnds(g, TRUE)
    /\ UNCHANGED <<reserved, active, status, target, stream, arm>>

(* The controller manager (external) serves requests in order.  A strict   *)
(* switch to controllers that are active already fails; any may fail; and  *)
(* the response may come too late for the worker that waits for it.        *)
ServeSwitch ==
    /\ requests # <<>>
    /\ requests' = Tail(requests)
    /\ LET r == Head(requests)
           awaited == pc[r.by] = "wait" /\ target[r.by] = r.to
       IN  \/ /\ mode # r.to
              /\ mode' = r.to
              /\ awaited
              /\ Goto(r.by, "verify")
              /\ UNCHANGED why
           \/ /\ awaited
              /\ SwitchEnds(r.by, FALSE)
              /\ UNCHANGED mode
           \/ /\ mode' \in {mode, r.to}
              /\ UNCHANGED <<pc, why>>
    /\ UNCHANGED <<reserved, active, status, target, stream>>

(* The policy controller drops out on its own (external).                  *)
ControllerFails ==
    /\ mode = "policy"
    /\ mode' = "mixed"
    /\ UNCHANGED <<reserved, active, worker, stream, requests>>

-----------------------------------------------------------------------------
(* The session *)

(* The policy controller subscribes to the commands and the measured state *)
(* is one the validator can begin from; then the session is armed.         *)
ArmSession(g) ==
    /\ pc[g] = "subscriber"
    /\ \/ /\ EndWith(g, "list", "failed")
          /\ target' = [target EXCEPT ![g] = "normal"]
          /\ UNCHANGED <<active, round>>
       \/ /\ Goto(g, "check")
          /\ active' = g
          /\ hand' = <<>> /\ due' = TRUE /\ loops' = 0
          /\ finalSeen' = FALSE /\ finalSent' = FALSE
          /\ UNCHANGED <<target, why>>
    /\ UNCHANGED <<reserved, status, session, sent, command, arm>>

(* on_chunk.  The validator accepts the exact next chunk of this session,  *)
(* if it is sound (its source, age, period, layout and positions are) and  *)
(* fits the queue, and nothing after the final one.                        *)
Valid(c) ==
    LET s == session[active]
    IN  /\ ~s.final
        /\ c.session = active
        /\ c.seq = s.accepted
        /\ c.sound
        /\ Len(s.queue) + c.samples <= MaxHorizon

Accepted(s, c) ==
    [accepted |-> s.accepted + 1,
     total |-> s.total + c.samples,
     final |-> c.final,
     faulted |-> s.faulted,
     queue |-> s.queue \o [i \in 1 .. c.samples |-> [seq |-> c.seq, index |-> i]]]

Faulted(s) ==
    [accepted |-> s.accepted, total |-> s.total, final |-> s.final,
     faulted |-> TRUE, queue |-> <<>>]

(* Faulty variant: a rejected chunk empties the queue and is forgotten.    *)
OnChunkForgiving(c) ==
    /\ active # NoSession
    /\ ~session[active].faulted
    /\ session' = [session EXCEPT ![active] =
                     IF Valid(c) THEN Accepted(@, c) ELSE [@ EXCEPT !.queue = <<>>]]
    /\ UNCHANGED <<reserved, active, worker, round, sent, command, arm>>

OnChunk(c) ==
    /\ active # NoSession
    /\ ~session[active].faulted
    /\ session' = [session EXCEPT ![active] =
                     IF Valid(c) THEN Accepted(@, c) ELSE Faulted(@)]
    /\ UNCHANGED <<reserved, active, worker, round, sent, command, arm>>

(* The round begins: the clock is read, and the session ends if it was     *)
(* canceled, the joint state is stale, nobody listens to the commands, or  *)
(* the policy mode is found to be lost.                                    *)
CheckSession(g) ==
    /\ pc[g] = "check"
    /\ \/ status[g] = "canceling" /\ EndWith(g, "hold", "canceled") /\ UNCHANGED due
       \/ /\ status[g] # "canceling"
          /\ \/ EndWith(g, "hold", "failed") /\ UNCHANGED due
             \/ /\ Goto(g, "take")
                /\ due' \in {d \in BOOLEAN : due => d}
                /\ UNCHANGED why
    /\ UNCHANGED <<reserved, active, status, target, session, hand, finalSeen,
                   finalSent, loops, sent, command, arm>>

(* First critical section: a faulted session ends; a sample that is due is *)
(* taken; an empty queue ends the session if the producer has been silent, *)
(* and the sample just taken is lost.                                      *)
Take(g) ==
    /\ pc[g] = "take"
    /\ LET s == session[g]
           takes == s.queue # <<>> /\ due
           left == IF takes THEN Tail(s.queue) ELSE s.queue
       IN  IF s.faulted
             THEN EndWith(g, "hold", "failed") /\ UNCHANGED <<session, hand, finalSeen>>
             ELSE /\ session' = [session EXCEPT ![g].queue = left]
                  /\ finalSeen' = s.final
                  /\ \/ /\ Goto(g, "publish")
                        /\ hand' = IF takes THEN <<Head(s.queue)>> ELSE <<>>
                        /\ UNCHANGED why
                     \/ /\ ~s.final /\ left = <<>>
                        /\ EndWith(g, "hold", "failed")
                        /\ UNCHANGED hand
    /\ UNCHANGED <<reserved, active, status, target, due, finalSent, loops, sent,
                   command, arm>>

(* The sample is published; the next one is due a sample period later.     *)
PublishSample(g) ==
    /\ pc[g] = "publish"
    /\ IF hand # <<>>
         THEN /\ command' = [by |-> g, kind |-> "sample", sample |-> Head(hand)]
              /\ sent' = [sent EXCEPT ![g] = @ + 1]
              /\ due' = FALSE
         ELSE UNCHANGED <<command, sent, due>>
    /\ hand' = <<>>
    /\ Goto(g, "round")
    /\ UNCHANGED <<reserved, active, status, target, why, session, finalSeen,
                   finalSent, loops, arm>>

(* Faulty variants: an empty queue after the final chunk is the end, even  *)
(* before the last sample's period is over; no session is too long.        *)
EndRoundEarly(g) ==
    /\ pc[g] = "round"
    /\ loops' = loops + 1
    /\ finalSent' = (finalSent \/ (finalSeen /\ session[g].queue = <<>>))
    /\ IF finalSent' THEN EndWith(g, "hold", "complete")
       ELSE IF loops >= MaxLoops THEN EndWith(g, "hold", "failed")
       ELSE Goto(g, "check") /\ UNCHANGED why
    /\ UNCHANGED <<reserved, active, status, target, session, hand, due, finalSeen,
                   sent, command, arm>>

EndRoundUntimed(g) ==
    /\ pc[g] = "round"
    /\ finalSent' = (finalSent \/ (finalSeen /\ session[g].queue = <<>>))
    /\ IF finalSent' /\ due THEN EndWith(g, "hold", "complete")
       ELSE Goto(g, "check") /\ UNCHANGED why
    /\ UNCHANGED <<reserved, active, status, target, session, hand, due, finalSeen,
                   loops, sent, command, arm>>

(* Second critical section and the end of the round: the stream is over    *)
(* when the queue is empty after the final chunk and the last sample has   *)
(* had its period, as of the time read at the start of the round.          *)
EndRound(g) ==
    /\ pc[g] = "round"
    /\ loops' = loops + 1
    /\ finalSent' = (finalSent \/ (finalSeen /\ session[g].queue = <<>>))
    /\ IF finalSent' /\ due THEN EndWith(g, "hold", "complete")
       ELSE IF loops >= MaxLoops THEN EndWith(g, "hold", "failed")
       ELSE Goto(g, "check") /\ UNCHANGED why
    /\ UNCHANGED <<reserved, active, status, target, session, hand, due, finalSeen,
                   sent, command, arm>>

-----------------------------------------------------------------------------
(* The end of the goal *)

(* publish_hold, then the way back to the normal controllers; the loop and *)
(* its variables are left behind.                                          *)
Hold(g) ==
    /\ pc[g] = "hold"
    /\ command' = [by |-> g, kind |-> "hold", sample |-> NoSample]
    /\ target' = [target EXCEPT ![g] = "normal"]
    /\ Goto(g, "list")
    /\ hand' = <<>> /\ due' = FALSE /\ loops' = 0
    /\ finalSeen' = FALSE /\ finalSent' = FALSE
    /\ UNCHANGED <<reserved, active, status, why, session, sent, arm>>

Outcome(g) == CASE why[g] = "complete" -> "succeeded"
                [] why[g] = "canceled" -> "canceled"
                [] OTHER -> "aborted"

Report(g) ==
    /\ pc[g] = "report"
    /\ status' = [status EXCEPT ![g] = Outcome(g)]
    /\ Goto(g, "reset")
    /\ UNCHANGED <<reserved, active, target, why, stream, arm>>

ResetSession(g) ==
    /\ pc[g] = "reset"
    /\ active' = IF active = g THEN NoSession ELSE active
    /\ Goto(g, "release")
    /\ UNCHANGED <<reserved, status, target, why, stream, arm>>

(* The reservation guard goes out of scope.                                *)
Release(g) ==
    /\ pc[g] = "release"
    /\ reserved' = FALSE
    /\ Goto(g, "done")
    /\ UNCHANGED <<active, status, target, why, stream, arm>>

-----------------------------------------------------------------------------
(* The thread inside execute()                                             *)
Worker(g) ==
    /\ UNCHANGED limits
    /\ \/ CheckPlan(g) \/ AwaitContext(g) \/ ListControllers(g)
       \/ SwitchTimesOut(g) \/ VerifyMode(g) \/ ArmSession(g) \/ CheckSession(g)
       \/ Take(g) \/ PublishSample(g) \/ EndRound(g) \/ Hold(g) \/ Report(g)
       \/ ResetSession(g) \/ Release(g)

Environment ==
    /\ UNCHANGED limits
    /\ \/ ServeSwitch \/ ControllerFails
       \/ \E g \in Sessions : HandleGoal(g) \/ HandleCancel(g)
       \/ \E c \in Chunks : OnChunk(c)

Next == Environment \/ \E g \in Sessions : Worker(g)

Spec == Init /\ [][Next]_vars

(* The worker's thread runs, and none of its waits is without a deadline.  *)
FairSpec == Spec /\ \A g \in Sessions : WF_vars(Worker(g))

-----------------------------------------------------------------------------
(* Properties *)

(* Every variable holds a value of its kind, and no queue is longer than   *)
(* the horizon the validator enforces.                                     *)
TypeOK ==
    /\ limits \in Limits
    /\ reserved \in BOOLEAN
    /\ active \in Sessions \cup {NoSession}
    /\ status \in [Sessions -> StatusValues]
    /\ pc \in [Sessions -> PcValues]
    /\ target \in [Sessions -> {"policy", "normal"}]
    /\ why \in [Sessions -> Reasons]
    /\ session \in [Sessions -> Shared]
    /\ \A g \in Sessions : Len(session[g].queue) <= MaxHorizon
    /\ hand \in Seq(Samples) /\ Len(hand) <= 1
    /\ due \in BOOLEAN
    /\ finalSeen \in BOOLEAN
    /\ finalSent \in BOOLEAN
    /\ loops \in 0 .. MaxLoops + 1
    /\ sent \in [Sessions -> Nat]
    /\ command \in [by : Sessions \cup {NoSession}, kind : {"none", "sample", "hold"},
                    sample : Samples \cup {NoSample}]
    /\ mode \in Modes
    /\ requests \in Seq([to : {"policy", "normal"}, by : Sessions])

(* The arm has one policy session: no two goals are past admission at once,*)
(* and the session chunks go to is that of a goal still being served.      *)
Serving(g) == pc[g] \notin {"idle", "done"}

OneSession ==
    /\ \A g, h \in Sessions : Serving(g) /\ Serving(h) => g = h
    /\ active # NoSession => Serving(active)

(* A session succeeds only if its whole stream, up to the final chunk, was *)
(* published; not if an extra chunk faulted it just before the end.        *)
WholeStreamOnSuccess ==
    \A g \in Sessions \ DryRuns :
        status[g] = "succeeded" =>
            session[g].final /\ sent[g] = session[g].total

(* Unless a chunk was rejected, every sample that was accepted is still    *)
(* queued, in the worker's hand, or published, while the session runs; and *)
(* from the last one published on they follow each other as they were sent.*)
Successor(p, q) ==
    \/ q.seq = p.seq /\ q.index = p.index + 1
    \/ q.seq = p.seq + 1 /\ q.index = 1
Ahead(g) == hand \o session[g].queue

NoSampleLost ==
    \A g \in Sessions :
        /\ active = g
        /\ pc[g] \in {"check", "take", "publish", "round"}
        /\ ~session[g].faulted
        => LET line == IF sent[g] = 0 THEN Ahead(g)
                       ELSE <<command.sample>> \o Ahead(g)
           IN  /\ sent[g] + Len(Ahead(g)) = session[g].total
               /\ \A i \in 1 .. Len(line) - 1 : Successor(line[i], line[i + 1])
               /\ sent[g] = 0 /\ line # <<>> => line[1] = [seq |-> 0, index |-> 1]

(* The stream of a session is played whole and in order, whatever chunks   *)
(* arrive: nothing that was accepted gets lost while the session runs, and *)
(* success means that all of it was published.                             *)
StreamIsWhole == WholeStreamOnSuccess /\ NoSampleLost

(* When an armed session ends, the normal controllers are active again and *)
(* no request can take them away, unless the goal reports a backend        *)
(* failure or three goals have.  So much it takes: a goal can then find    *)
(* the arm in policy mode through a switch that was served late, have a    *)
(* late switch back served meanwhile, and yet a late switch to policy mode *)
(* is to come; nothing withdraws a request whose wait timed out.           *)
ThreeBackendFailures ==
    \E f, h, k \in Sessions :
        f # h /\ h # k /\ f # k /\ \A g \in {f, h, k} : why[g] = "backend"

NormalModeAfterSession ==
    [][\A g \in Sessions :
         /\ active = g
         /\ status[g] \notin Ended /\ status'[g] \in Ended
         /\ why[g] # "backend" /\ ~ThreeBackendFailures
         => mode = "normal" /\ \A i \in 1 .. Len(requests) : requests[i].to # "policy"]_vars

(* Every goal that is admitted ends, and gives the reservation back, even  *)
(* if no chunk ever arrives, chunks never cease, or no switch is served.   *)
SessionEnds ==
    \A g \in Sessions :
        status[g] = "executing" ~> (status[g] \in Ended /\ pc[g] = "done")

=============================================================================
