------------------------------ MODULE ActPolicy ------------------------------
(***************************************************************************)
(* The learned policy: xlerobot_policy/act_policy_node.py with its queue   *)
(* and act_http.py, composed with what takes its chunks.                   *)
(*                                                                         *)
(* One goal asks for a first prediction, starts a session of the executor  *)
(* and streams the governed rows in chunks, while a second thread asks for *)
(* further predictions from fresh observations.  All it knows of the       *)
(* executor it knows from feedback, which arrives late; from it it derives *)
(* the step a new prediction continues at.                                 *)
(***************************************************************************)
EXTENDS RealtimeQueue, PolicyCapture

CONSTANTS
    ChunkSamples,    \* executor_chunk_samples
    Threshold,       \* publish_queue_threshold_s, in rows
    PredictionRows,  \* bound: rows of a prediction
    SensorLag,       \* bound: how many steps an observation may be behind
    MaxPredictions,  \* bound: the predictions of each goal
    MaxSamples       \* bound: max_duration times control_hz

(* A prediction that is empty is refused (postprocess.py:16).              *)
ASSUME PolicyAssumption ==
    /\ {ChunkSamples, Threshold, SensorLag, MaxSamples, MaxSessions}
         \subseteq Nat
    /\ PredictionRows \in Nat \ {0}
    /\ MaxPredictions \in [Sessions -> Nat]

VARIABLES
    pc,             \* where the thread of the goal is
    current,        \* the session of the goal, or of the last one
    cancelRequested,
    seen,           \* ExecutorFeedback
    feedback,       \* the last feedback sent and not yet delivered, if any
    predictions,    \* prediction_id of the next
    pending,        \* the prediction asked for and the one that is ready
    piece,          \* rows emitted for the next chunk
    sequence,
    topic,          \* chunks published and not yet taken
    outcome         \* of the last goal

thread == <<pc, current, cancelRequested, piece, sequence, outcome>>
inference == <<predictions, pending>>
messages == <<seen, feedback, topic>>
vars == <<sink, queue, thread, inference, messages>>

Feedback == [ready : BOOLEAN, accepted : Nat, executed : Nat, queued : Nat]
Prediction == [id : Nat, step : Nat, observed : Nat, rows : Seq(Row)]
Message == [session : Sessions, sequence : Nat, samples : Nat, final : BOOLEAN]

Unseen == [ready |-> FALSE, accepted |-> 0, executed |-> 0, queued |-> 0]

Init ==
    /\ SinkInit /\ QueueInit
    /\ pc = "idle" /\ current = 0 /\ cancelRequested = FALSE
    /\ seen = Unseen /\ feedback = {}
    /\ predictions = 1 /\ pending = {}
    /\ piece = 0 /\ sequence = 0 /\ topic = << >>
    /\ outcome = "none"

(* The executor's goal was accepted and its handle is known.               *)
Handled == pc \in {"ready", "transport", "stream", "emit", "accept", "result"}

(* A failure ends the goal.  A handle that is known is asked to cancel.    *)
EndGoal(status) ==
    /\ pc' = "idle" /\ outcome' = status
    /\ cancelRequested' = FALSE /\ piece' = 0
    /\ pending' = {}
    /\ UNCHANGED <<current, sequence, predictions>>
(* Mutant: a session that was asked for is left to itself.                 *)
AskCancelOfUnstarted == asked' = IF pc = "ready" THEN asked \cup {current} ELSE asked

AskCancel == asked' = IF Handled THEN asked \cup {current} ELSE asked
Fail ==
    /\ EndGoal(IF cancelRequested THEN "canceled" ELSE "aborted")
    /\ AskCancel
    /\ UNCHANGED <<live, goals, server, session, chunks, executed, failure,
                   dry, replay, queue, messages>>

(* A cancellation is noticed in every wait (_check_cancel); so is the end  *)
(* of the executor (raise_if_failed); every wait has a deadline, and       *)
(* prediction, sensors and start context may fail.                         *)
Waits == {"context", "response", "ready", "stream", "accept", "result"}
NoticeCancel == pc \in Waits /\ cancelRequested /\ Fail
NoticeEnd ==
    /\ pc \in {"response", "ready", "stream", "accept"}
    /\ goals[current] \in {"rejected", "aborted", "canceled"}
    /\ Fail
GiveUp == pc \in Waits \cup {"infer", "send"} /\ Fail

-----------------------------------------------------------------------------
(* goal_callback: one goal at a time.                                      *)
Goal(d) ==
    /\ pc = "idle" /\ current < MaxSessions
    /\ current' = current + 1
    /\ dry' = (IF d THEN dry \cup {current + 1} ELSE dry)
    /\ pc' = IF d THEN "send" ELSE "context"
    /\ outcome' = "none" /\ sequence' = 0 /\ predictions' = 1
    /\ UNCHANGED <<live, goals, asked, server, session, chunks, executed,
                   failure, replay, queue, cancelRequested, piece, pending,
                   messages>>

(* cancel_callback                                                         *)
Cancel ==
    /\ pc # "idle" /\ cancelRequested' = TRUE
    /\ UNCHANGED <<sink, queue, pc, current, piece, sequence, outcome,
                   inference, messages>>

(* The start context is checked and the sensors are synchronous.           *)
Snapshot ==
    /\ pc = "context" /\ ~cancelRequested
    /\ pc' = "infer"
    /\ UNCHANGED <<sink, queue, current, cancelRequested, piece, sequence,
                   outcome, inference, messages>>

(* A prediction at a step: its rows, from one of which on it closes.       *)
Predictions(step) ==
    {[i \in 1 .. PredictionRows |-> [step |-> step + i - 1,
                                     close |-> i >= from]] :
        from \in {2, PredictionRows + 1}}

(* The first prediction fills an empty queue.                              *)
Infer ==
    /\ pc = "infer"
    /\ \E rows \in Predictions(0) : raw' = Segment(rows, 0)
    /\ hold' = 0 /\ emitted' = 0 /\ lastPrediction' = 1 /\ locked' = FALSE
    /\ phase' = "OPENING" /\ ramp' = 0 /\ confirmed' = 0
    /\ pc' = "send"
    /\ UNCHANGED <<sink, current, cancelRequested, piece, sequence, outcome,
                   inference, messages>>

(* _start_executor: the goal is sent, and its response awaited.            *)
SendGoal ==
    /\ pc = "send"
    /\ goals' = [goals EXCEPT ![current] = "sent"]
    /\ seen' = Unseen /\ feedback' = {}
    /\ pc' = "response"
    /\ UNCHANGED <<live, asked, server, session, chunks, executed, failure,
                   dry, replay, queue, current, cancelRequested, piece,
                   sequence, outcome, inference, topic>>

Response ==
    /\ pc = "response"
    /\ goals[current] \notin {"sent", "rejected"}
    /\ pc' = IF current \in dry THEN "result" ELSE "ready"
    /\ UNCHANGED <<sink, queue, current, cancelRequested, piece, sequence,
                   outcome, inference, messages>>

(* _wait_executor_ready; _wait_chunk_transport is a wait that only fails.  *)
Ready ==
    /\ pc = "ready" /\ seen.ready /\ ~cancelRequested
    /\ pc' = "stream"
    /\ UNCHANGED <<sink, queue, current, cancelRequested, piece, sequence,
                   outcome, inference, messages>>

-----------------------------------------------------------------------------
(* _stream_realtime *)

(* _snapshot and the submission, also while a prediction is ready that the *)
(* queue has not needed yet: the observation may be old, and the step it   *)
(* is taken for is the last one reported.                                  *)
FreshSteps ==
    LET now == IF session = current THEN executed ELSE seen.executed
    IN  {n \in 0 .. now : n + SensorLag >= now}

Observe ==
    /\ pc = "stream" /\ ~cancelRequested
    /\ ~locked /\ predictions < MaxPredictions[current]
    /\ \A p \in pending : p.rows # << >>
    /\ \E step \in FreshSteps :
         pending' = pending \cup {[id |-> predictions + 1, step |-> step,
                                  observed |-> seen.executed, rows |-> << >>]}
    /\ predictions' = predictions + 1
    /\ UNCHANGED <<sink, queue, thread, messages>>

(* The thread of the pool: the prediction arrives, and takes the place of  *)
(* one that was not merged.                                                *)
Predict ==
    /\ \E p \in pending :
         /\ p.rows = << >>
         /\ \E rows \in Predictions(p.step) :
              pending' = {[p EXCEPT !.rows = rows]}
    /\ UNCHANGED <<sink, queue, thread, predictions, messages>>

(* Mutant: only what was executed is skipped, not what is still queued.    *)
FutureStepExecuted == seen.executed

(* _future_step                                                            *)
FutureStep == seen.executed + seen.queued + Len(raw) + hold

Refill ==
    /\ pc = "stream" /\ ~cancelRequested
    /\ NeedsRefill
    /\ \E p \in pending : /\ p.rows # << >>
                         /\ Merge(p.rows, p.id, FutureStep - p.observed)
                         /\ pending' = pending \ {p}
    /\ UNCHANGED <<sink, thread, predictions, messages>>

(* _wait_queue_room, then emit.                                            *)
MakeRoom ==
    /\ pc = "stream" /\ ~cancelRequested
    /\ seen.queued <= Threshold
    /\ pc' = "emit"
    /\ UNCHANGED <<sink, queue, current, cancelRequested, piece, sequence,
                   outcome, inference, messages>>

Emit ==
    /\ pc = "emit" /\ piece < ChunkSamples
    /\ \E near \in BOOLEAN : EmitRow(near)
    /\ piece' = piece + 1
    /\ UNCHANGED <<sink, pc, current, cancelRequested, sequence, outcome,
                   inference, messages>>

(* Nothing is left to emit: round again.                                   *)
EmitNothing ==
    /\ pc = "emit" /\ piece = 0 /\ ~Emits
    /\ pc' = "stream"
    /\ UNCHANGED <<sink, queue, current, cancelRequested, piece, sequence,
                   outcome, inference, messages>>

(* The piece is published, unless it exceeds the duration of the goal.     *)
Publish ==
    /\ pc = "emit" /\ piece > 0 /\ (piece = ChunkSamples \/ ~Emits)
    /\ emitted <= MaxSamples
    /\ topic' = Append(topic, [session |-> current, sequence |-> sequence,
                               samples |-> piece, final |-> Complete])
    /\ piece' = 0 /\ pc' = "accept"
    /\ UNCHANGED <<sink, queue, current, cancelRequested, sequence, outcome,
                   inference, seen, feedback>>

TooLong ==
    /\ pc = "emit" /\ emitted > MaxSamples
    /\ Fail

(* _wait_chunk_acceptance: by feedback, or by a successful result.         *)
Accepted ==
    /\ pc = "accept"
    /\ seen.accepted > sequence \/ goals[current] = "succeeded"
    /\ sequence' = sequence + 1
    /\ pc' = IF Complete THEN "result" ELSE "stream"
    /\ pending' = IF Complete THEN {} ELSE pending
    /\ UNCHANGED <<sink, queue, current, cancelRequested, piece, outcome,
                   predictions, messages>>

(* The result of the executor is the result of the goal.                   *)
AwaitResult ==
    /\ pc = "result" /\ goals[current] \in Ended
    /\ EndGoal(goals[current])
    /\ UNCHANGED <<sink, queue, messages>>

GoalThread ==
    \/ Snapshot \/ Infer \/ SendGoal \/ Response \/ Ready \/ Observe \/ Refill
    \/ MakeRoom \/ Emit \/ EmitNothing \/ Publish \/ TooLong \/ Accepted
    \/ AwaitResult \/ NoticeCancel \/ NoticeEnd

-----------------------------------------------------------------------------
(* Messages *)

(* The executor reports what it has, from time to time.                    *)
Report ==
    /\ server \in {"armed", "writing"} /\ session = current
    /\ LET now == [ready |-> TRUE, accepted |-> Len(chunks),
                   executed |-> executed, queued |-> Samples - executed]
       IN  /\ feedback # {now} /\ (feedback # {} \/ seen # now)
           /\ feedback' = {now}
    /\ UNCHANGED <<sink, queue, thread, inference, seen, topic>>

Deliver ==
    /\ \E f \in feedback : seen' = f
    /\ feedback' = {}
    /\ UNCHANGED <<sink, queue, thread, inference, topic>>

Take ==
    /\ topic # << >>
    /\ TakeChunk(Head(topic)) /\ topic' = Tail(topic)
    /\ UNCHANGED <<queue, thread, inference, seen, feedback>>

Executor ==
    /\ \/ \E s \in Sessions : ServeGoal(s)
       \/ Arm \/ Execute \/ Decide \/ WriteReplay
    /\ UNCHANGED <<queue, thread, inference, messages>>

Next ==
    \/ \E d \in BOOLEAN : Goal(d)
    \/ Cancel \/ GoalThread \/ GiveUp \/ Predict
    \/ Executor \/ Report \/ Deliver \/ Take

Spec == Init /\ [][Next]_vars

(* The thread runs, messages arrive, the executor executes and the sink    *)
(* ends a session that failed; that a deadline passes is not assumed.      *)
FairSpec ==
    /\ Spec
    /\ WF_vars(GoalThread) /\ WF_vars(Take) /\ WF_vars(Report)
    /\ WF_vars(Deliver) /\ WF_vars(Execute /\ Executor)
    /\ WF_vars(WriteReplay /\ Executor) /\ WF_vars(failure /\ Decide /\ Executor)

-----------------------------------------------------------------------------
(* Properties *)

SinkTypeOK ==
    /\ live \in BOOLEAN /\ failure \in BOOLEAN
    /\ goals \in [Sessions -> {"none", "sent", "accepted", "rejected"}
                               \cup Ended]
    /\ asked \subseteq Sessions /\ dry \subseteq Sessions
    /\ server \in {"idle", "arming", "armed", "writing"}
    /\ session \in {0} \cup Sessions
    /\ chunks \in Seq(Chunk) /\ executed \in 0 .. Samples
    /\ replay \in Seq(Chunk)
ThreadTypeOK ==
    /\ pc \in Waits \cup {"idle", "infer", "send", "emit"}
    /\ current \in {0} \cup Sessions /\ cancelRequested \in BOOLEAN
    /\ sequence \in Nat /\ piece \in 0 .. ChunkSamples
    /\ outcome \in {"none"} \cup Ended
MessagesTypeOK ==
    /\ seen \in Feedback /\ feedback \subseteq Feedback
    /\ predictions \in Nat /\ pending \subseteq Prediction
    /\ topic \in Seq(Message)
TypeOK == QueueTypeOK /\ SinkTypeOK /\ ThreadTypeOK /\ MessagesTypeOK

(* Until the gripper closes, a row is commanded no later than the step it  *)
(* was predicted for, apart from the age of the observation, however old   *)
(* the feedback the prediction was aligned by; and that feedback counts    *)
(* every row that was emitted.                                             *)
NeverLate ==
    /\ ~locked =>
          \A i \in DOMAIN raw : raw[i].step + SensorLag >= emitted + i - 1
    /\ pc = "stream" => seen.executed + seen.queued = emitted

(* When a goal has ended, no session stays open that has taken chunks and  *)
(* was neither finished nor asked to cancel.                               *)
EveryStreamIsEnded ==
    pc = "idle" /\ server = "armed" /\ chunks # << >> /\ ~FinalReceived =>
        session \in asked

(* Once the gripper closes the stream comes to its end, without any        *)
(* deadline: the rows that are left suffice, and producer and executor do  *)
(* not wait for each other.                                                *)
ClosingEnds ==
    (pc \in {"stream", "emit", "accept"} /\ locked) ~> pc \in {"idle", "result"}

=============================================================================
