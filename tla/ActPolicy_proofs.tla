--------------------------- MODULE ActPolicy_proofs ---------------------------
(***************************************************************************)
(* What the learned policy counts, and what it leaves behind: however old  *)
(* the feedback of the executor is, whenever a goal fails, and for any     *)
(* sizes of queue, prediction, chunk and lag.                              *)
(***************************************************************************)
EXTENDS ActPolicy, SequenceTheorems, TLAPS

-----------------------------------------------------------------------------
(* The queue alone, whoever merges into it and whenever.                   *)

(* The lesser of two numbers is one of them and no more than either.       *)
LEMMA LeastOfTwo ==
    ASSUME NEW a \in Nat, NEW b \in Nat
    PROVE  Least(a, b) \in Nat /\ Least(a, b) <= a /\ Least(a, b) <= b
  BY DEF Least

(* What is taken of a prediction is a sequence of its rows.                *)
LEMMA SegmentType ==
    ASSUME NEW rows \in Seq(Row), NEW offset \in Nat, offset < Len(rows)
    PROVE  Segment(rows, offset) \in Seq(Row)
<1> DEFINE n == Least(Len(rows), offset + QueuedSteps)
<1>1. Len(rows) \in Nat /\ offset + QueuedSteps \in Nat
  BY QueueAssumption, LenProperties
<1>2. n \in Nat /\ n <= Len(rows)
  BY <1>1, LeastOfTwo
<1>3. \A i \in (offset + 1) .. n : rows[i] \in Row
  <2> TAKE i \in (offset + 1) .. n
  <2>1. i \in 1 .. Len(rows)
    BY <1>1, <1>2
  <2> QED BY <2>1, ElementOfSeq
<1>4. SubSeq(rows, offset + 1, n) \in Seq(Row)
  BY <1>2, <1>3, SubSeqProperties
<1> QED BY <1>4 DEF Segment

(* Of two rows the blend is a row.                                         *)
LEMMA MixType ==
    ASSUME NEW old \in Row, NEW new \in Row
    PROVE  Mix(old, new) \in Row
<1>1. Least(old.step, new.step) \in Nat
  BY LeastOfTwo DEF Row
<1>2. old.close \/ new.close \in BOOLEAN
  BY DEF Row
<1> QED BY <1>1, <1>2 DEF Mix, Row

(* Blending a segment into the tail gives a queue.                         *)
LEMMA BlendedType ==
    ASSUME NEW tail \in Seq(Row), NEW segment \in Seq(Row)
    PROVE  Blended(tail, segment) \in Seq(Row)
<1> DEFINE b == Least(BlendSteps, Least(Len(tail), Len(segment)))
           start == Len(tail) - b
           n == Len(tail) + Len(segment) - b
           value(i) == CASE i <= start -> tail[i]
                         [] i > start /\ i <= Len(tail) -> Mix(tail[i], segment[i - start])
                         [] OTHER -> segment[i - start]
<1>1. Len(tail) \in Nat /\ Len(segment) \in Nat /\ BlendSteps \in Nat
  BY QueueAssumption, LenProperties
<1>2. b \in Nat /\ b <= Len(tail) /\ b <= Len(segment)
  <2> DEFINE c == Least(Len(tail), Len(segment))
  <2>1. c \in Nat /\ c <= Len(tail) /\ c <= Len(segment)
    BY <1>1, LeastOfTwo
  <2> HIDE DEF c
  <2>2. Least(BlendSteps, c) \in Nat /\ Least(BlendSteps, c) <= c
    BY <1>1, <2>1, LeastOfTwo
  <2>3. b = Least(BlendSteps, c)
    BY DEF c
  <2> HIDE DEF b
  <2> QED BY <1>1, <2>1, <2>2, <2>3
<1> HIDE DEF b
<1>3. ASSUME NEW i \in 1 .. n PROVE value(i) \in Row
  <2>1. CASE i <= start
    <3>1. i \in 1 .. Len(tail)
      BY <1>1, <1>2, <2>1
    <3>2. tail[i] \in Row
      BY <3>1, ElementOfSeq
    <3> QED BY <1>1, <1>2, <2>1, <3>2
  <2>2. CASE i > start
    <3>1. i - start \in 1 .. Len(segment)
      BY <1>1, <1>2, <2>2
    <3>2. segment[i - start] \in Row
      BY <3>1, ElementOfSeq
    <3>3. CASE i <= Len(tail)
      <4>1. i \in 1 .. Len(tail)
        BY <1>1, <3>3
      <4>2. tail[i] \in Row
        BY <4>1, ElementOfSeq
      <4>3. Mix(tail[i], segment[i - start]) \in Row
        BY <3>2, <4>2, MixType
      <4>4. ~(i <= start)
        BY <1>1, <1>2, <2>2
      <4> QED BY <2>2, <3>3, <4>3, <4>4
    <3>4. CASE ~(i <= Len(tail))
      <4>1. ~(i <= start)
        BY <1>1, <1>2, <2>2
      <4> QED BY <3>2, <3>4, <4>1
    <3> QED BY <3>3, <3>4
  <2> QED BY <1>1, <1>2, <2>1, <2>2
<1>4. n \in Nat
  BY <1>1, <1>2
<1>5. [i \in 1 .. n |-> value(i)] \in Seq(Row)
  <2> HIDE DEF value, n
  <2> QED BY <1>3, <1>4, IsASeq
<1> QED BY <1>5 DEF Blended, b

-----------------------------------------------------------------------------
(* What one row does to the governor: the phase stays, or the ramp begins  *)
(* or goes on by one; and a ramp that is over is closed.                   *)
LEMMA Governed ==
    ASSUME QueueTypeOK, NEW closing \in BOOLEAN, Govern(closing)
    PROVE  /\ phase' \in {"OPENING", "CLOSING", "CLOSED"}
           /\ ramp' \in Nat /\ confirmed' \in Nat
           /\ phase' = "OPENING" => phase = "OPENING"
           /\ phase = "OPENING" /\ phase' = "CLOSING" => ramp' = 1
           /\ phase = "CLOSING" /\ phase' = "CLOSING" =>
                ramp' = ramp + 1 /\ ramp' < RampSteps
           /\ phase = "CLOSED" => phase' = "CLOSED"
<1> DEFINE count == IF closing THEN confirmed + 1 ELSE 0
<1> USE QueueAssumption DEF QueueTypeOK
<1>1. count \in Nat
  OBVIOUS
<1>2. CASE phase = "OPENING" /\ count >= ConfirmSteps
  BY <1>1, <1>2 DEF Govern
<1>3. CASE phase = "OPENING" /\ count < ConfirmSteps
  <2>1. ~(count >= ConfirmSteps)
    BY <1>1, <1>3
  <2> QED BY <1>1, <1>3, <2>1 DEF Govern
<1>4. CASE phase = "CLOSING"
  BY <1>4 DEF Govern, Ramped
<1>5. CASE phase = "CLOSED"
  BY <1>5 DEF Govern
<1> QED BY <1>1, <1>2, <1>3, <1>4, <1>5

(* One row leaves: either it repeats, or the queue is one row shorter.     *)
LEMMA OneRowLess ==
    ASSUME QueueTypeOK, NEW near \in BOOLEAN, EmitRow(near)
    PROVE  /\ raw' \in Seq(Row)
           /\ IF hold > 0 THEN raw' = raw ELSE Len(raw') = Len(raw) - 1
<1>1. CASE hold > 0
  BY <1>1 DEF EmitRow, QueueTypeOK
<1>2. CASE ~(hold > 0)
  <2>1. raw # << >> /\ raw' = Tail(raw)
    BY <1>2 DEF EmitRow, Emits
  <2> QED BY <1>2, <2>1, HeadTailProperties DEF QueueTypeOK
<1> QED BY <1>1, <1>2

(* Whether a row calls for closing is yes or no.                           *)
LEMMA EmitGoverns ==
    ASSUME NEW near \in BOOLEAN, EmitRow(near)
    PROVE  \E closing \in BOOLEAN : Govern(closing)
<1>1. (hold = 0 /\ MayClose(raw[1], raw', near)) \in BOOLEAN
  OBVIOUS
<1>2. Govern(hold = 0 /\ MayClose(raw[1], raw', near))
  BY DEF EmitRow
<1> QED BY <1>1, <1>2

-----------------------------------------------------------------------------
LEMMA EmitKeeps ==
    ASSUME QueueTypeOK, CloseCanEnd, NEW near \in BOOLEAN, EmitRow(near)
    PROVE  QueueTypeOK' /\ CloseCanEnd'
<1> USE QueueAssumption, RampAssumption
<1> PICK closing \in BOOLEAN : Govern(closing)
  BY EmitGoverns
<1>1. /\ phase' \in {"OPENING", "CLOSING", "CLOSED"}
      /\ ramp' \in Nat /\ confirmed' \in Nat
      /\ phase' = "OPENING" => phase = "OPENING"
      /\ phase = "OPENING" /\ phase' = "CLOSING" => ramp' = 1
      /\ phase = "CLOSING" /\ phase' = "CLOSING" =>
           ramp' = ramp + 1 /\ ramp' < RampSteps
      /\ phase = "CLOSED" => phase' = "CLOSED"
  BY Governed
<1>2. /\ raw' \in Seq(Row)
      /\ IF hold > 0 THEN raw' = raw ELSE Len(raw') = Len(raw) - 1
  BY OneRowLess
<1>3. /\ emitted' = emitted + 1 /\ lastPrediction' = lastPrediction
      /\ locked' = (locked \/ (phase = "OPENING" /\ phase' # "OPENING"))
      /\ hold' = IF phase = "OPENING" /\ phase' # "OPENING" THEN HoldSteps
                 ELSE IF hold > 0 THEN hold - 1 ELSE 0
      /\ Emits
  BY DEF EmitRow
<1>4. QueueTypeOK'
  <2>1. hold' \in Nat
    BY <1>3 DEF QueueTypeOK
  <2>2. locked' \in BOOLEAN
    BY <1>3 DEF QueueTypeOK
  <2>3. emitted' \in Nat /\ lastPrediction' \in Nat
    BY <1>3 DEF QueueTypeOK
  <2> QED BY <1>1, <1>2, <2>1, <2>2, <2>3 DEF QueueTypeOK
<1>5. locked' <=> phase' # "OPENING"
  BY <1>1, <1>3 DEF CloseCanEnd
<1>6. Len(raw) \in Nat /\ Len(raw') \in Nat
  BY <1>2, LenProperties DEF QueueTypeOK
<1>7. ASSUME phase' = "CLOSING" PROVE RampSteps - ramp' <= hold' + Len(raw')
  <2>1. CASE phase = "OPENING"
    BY <1>1, <1>3, <1>6, <1>7, <2>1
  <2>2. CASE phase = "CLOSING"
    <3>1. RampSteps - ramp <= hold + Len(raw) /\ ramp' = ramp + 1
      BY <1>1, <1>7, <2>2 DEF CloseCanEnd
    <3>2. hold' + Len(raw') = hold + Len(raw) - 1
      BY <1>2, <1>3, <1>6, <2>2 DEF QueueTypeOK
    <3> QED BY <1>6, <3>1, <3>2 DEF QueueTypeOK
  <2>3. CASE phase = "CLOSED"
    BY <1>1, <1>7, <2>3
  <2> QED BY <2>1, <2>2, <2>3 DEF QueueTypeOK
<1> QED BY <1>4, <1>5, <1>7 DEF CloseCanEnd

LEMMA MergeKeeps ==
    ASSUME QueueTypeOK, CloseCanEnd,
           NEW rows \in Seq(Row), NEW id \in Nat, NEW offset \in Nat,
           Merge(rows, id, offset)
    PROVE  QueueTypeOK' /\ CloseCanEnd'
<1>1. hold' = hold /\ emitted' = emitted /\ locked' = locked /\ phase' = phase
        /\ ramp' = ramp /\ confirmed' = confirmed
  BY DEF Merge
<1>2. lastPrediction' \in Nat
  BY DEF Merge, QueueTypeOK
<1>3. raw' \in Seq(Row)
  <2>1. CASE Accepts(id) /\ ~(offset >= Len(rows))
    <3>1. offset < Len(rows)
      BY <2>1, LenProperties
    <3>2. raw' = Blended(raw, Segment(rows, offset))
      BY <2>1 DEF Merge
    <3> QED BY <3>1, <3>2, SegmentType, BlendedType DEF QueueTypeOK
  <2>2. CASE ~(Accepts(id) /\ ~(offset >= Len(rows)))
    BY <2>2 DEF Merge, QueueTypeOK
  <2> QED BY <2>1, <2>2
<1>4. phase = "CLOSING" => raw' = raw
  BY DEF Merge, Accepts, CloseCanEnd
<1>5. QueueTypeOK'
  BY <1>1, <1>2, <1>3 DEF QueueTypeOK
<1>6. CloseCanEnd'
  BY <1>1, <1>4 DEF CloseCanEnd
<1> QED BY <1>5, <1>6

(* No prediction is merged once the gripper closes, and every row that     *)
(* leaves advances the ramp: together they are inductive.                  *)
THEOREM QueueInvariant == QueueSpec => [](QueueTypeOK /\ CloseCanEnd)
<1>1. QueueInit => QueueTypeOK /\ CloseCanEnd
  <2> SUFFICES ASSUME QueueInit PROVE QueueTypeOK /\ CloseCanEnd
    OBVIOUS
  <2>1. QueueTypeOK
    BY EmptySeq DEF QueueInit, QueueTypeOK
  <2>2. CloseCanEnd
    BY DEF QueueInit, CloseCanEnd
  <2> QED BY <2>1, <2>2
<1>2. QueueTypeOK /\ CloseCanEnd /\ [QueueNext]_queue => (QueueTypeOK /\ CloseCanEnd)'
  <2> SUFFICES ASSUME QueueTypeOK, CloseCanEnd, [QueueNext]_queue
               PROVE  (QueueTypeOK /\ CloseCanEnd)'
    OBVIOUS
  <2>1. CASE ResetQueue
    BY <2>1, EmptySeq DEF ResetQueue, QueueTypeOK, CloseCanEnd
  <2>2. ASSUME NEW rows \in Seq(Row), NEW id \in Nat, NEW offset \in Nat,
               Merge(rows, id, offset)
        PROVE  (QueueTypeOK /\ CloseCanEnd)'
    BY <2>2, MergeKeeps
  <2>3. ASSUME NEW near \in BOOLEAN, EmitRow(near)
        PROVE  (QueueTypeOK /\ CloseCanEnd)'
    BY <2>3, EmitKeeps
  <2>4. CASE UNCHANGED queue
    BY <2>4 DEF queue, QueueTypeOK, CloseCanEnd
  <2> QED BY <2>1, <2>2, <2>3, <2>4 DEF QueueNext
<1> QED BY <1>1, <1>2, PTL DEF QueueSpec

(* merge_prediction, emit and reset keep every part of the queue's state   *)
(* of its type, whatever is predicted and whenever.                        *)
THEOREM QueueIsTyped == QueueSpec => []QueueTypeOK
  BY QueueInvariant, PTL

(* Once emit begins to close the gripper, the repetitions and the rows     *)
(* that are left suffice to end the ramp, although no prediction is taken  *)
(* any more.                                                               *)
THEOREM ClosingCanEnd == QueueSpec => []CloseCanEnd
  BY QueueInvariant, PTL

-----------------------------------------------------------------------------
(* Stretches of the goal's thread.                                         *)
Early == {"context", "infer", "send"}
Streaming == {"stream", "emit", "accept"}

(* The executor was asked for a session that is streamed to.               *)
Begun == pc \in Streaming \cup {"response", "ready"} /\ current \notin dry

(* What is known of the executor, or about to be.                          *)
Reports == {seen} \cup feedback

(* The chunks under way to the session of the goal.                        *)
Mine == {i \in DOMAIN topic : topic[i].session = current}

-----------------------------------------------------------------------------
(* The server's session is the one it accepted.                            *)
SessionInv ==
    /\ server = "idle" <=> session = 0
    /\ session # 0 => goals[session] = "accepted"
    /\ server \in {"idle", "arming"} => chunks = << >> /\ executed = 0
    /\ \A s \in Sessions : s > current => goals[s] = "none"
    /\ pc \in Early => goals[current] = "none"
    /\ pc = "response" => goals[current] # "none"
    /\ pc \in Streaming \cup {"ready", "result"} =>
         goals[current] \notin {"none", "sent"}

(* A session that chunks reached, or are on their way to, is streamed to,  *)
(* or is over, or was asked to cancel.                                     *)
Fed(s) ==
    \/ session = s /\ chunks # << >>
    \/ \E i \in DOMAIN topic : topic[i].session = s
StreamInv ==
    \A s \in Sessions : Fed(s) =>
        \/ s \in asked \/ goals[s] \in Ended
        \/ s = current /\ pc \in Streaming \cup {"result"}

(* What the thread has in hand where.                                      *)
ThreadInv ==
    /\ pc # "idle" => current # 0
    /\ \A s \in dry : s <= current
    /\ pc \in {"context", "infer", "ready"} \cup Streaming => current \notin dry
    /\ pc # "emit" => piece = 0
    /\ pc \in Early \cup {"response", "ready"} => sequence = 0
    /\ pc = "send" /\ current \notin dry => emitted = 0
    /\ Begun /\ pc \notin Streaming => emitted = 0
    /\ pc \notin Streaming => pending = {}

(* Feedback is never ahead of the executor, nor behind what was known.     *)
FeedInv ==
    /\ (current # 0 /\ goals[current] = "sent")
         \/ (session = current /\ server = "arming") =>
            seen = Unseen /\ feedback = {}
    /\ session = current /\ session # 0 =>
         \A f \in Reports : f.executed <= executed /\ f.accepted <= Len(chunks)
    /\ \A f \in feedback : seen.accepted <= f.accepted

(* One chunk is under way at most, and only while it is waited for.        *)
TransitInv ==
    /\ \A i \in DOMAIN topic : topic[i].session <= current
    /\ pc \in Early \cup {"response", "ready", "stream", "emit"} => Mine = {}
    /\ pc = "accept" => \A i \in Mine : topic[i].sequence = sequence
    /\ pc = "accept" => \A i, j \in Mine : i = j

(* What the executor has taken is what was emitted, but for the rows in    *)
(* hand and the chunk under way.                                           *)
TakenInv ==
    Begun /\ session = current =>
        /\ Len(chunks) <= sequence + 1
        /\ Len(chunks) = sequence + 1 =>
             pc = "accept" /\ Mine = {} /\ Samples = emitted
        /\ Len(chunks) = sequence /\ pc = "accept" =>
             \A i \in Mine : Samples + topic[i].samples = emitted
        /\ Len(chunks) = sequence /\ pc # "accept" => Samples = emitted - piece

(* And so is what is known of it, once it is known to have been taken.     *)
KnownInv ==
    Begun =>
        \A f \in Reports :
            /\ f.accepted <= sequence + 1
            /\ f.accepted = sequence + 1 =>
                 pc = "accept" /\ Mine = {} /\ f.executed + f.queued = emitted
            /\ pc # "accept" =>
                 f.accepted = sequence /\ f.executed + f.queued = emitted - piece

(* After the final chunk there is nothing left to emit.                    *)
FinalInv ==
    Begun =>
        /\ \A i \in Mine : topic[i].final => Complete
        /\ session = current /\ FinalReceived => pc = "accept" /\ Complete
        /\ goals[current] = "succeeded" => pc = "accept" /\ Complete

(* Rows are aligned with the steps they are commanded at.                  *)
RowsInv ==
    ~locked =>
        /\ hold = 0
        /\ \A i \in DOMAIN raw : raw[i].step + SensorLag >= emitted + i - 1
PendingInv ==
    \A p \in pending :
        /\ p.observed <= emitted
        /\ p.step + SensorLag >= p.observed
        /\ \A i \in DOMAIN p.rows : p.rows[i].step = p.step + i - 1

IInv ==
    /\ TypeOK /\ CloseCanEnd
    /\ SessionInv /\ StreamInv /\ ThreadInv /\ FeedInv /\ TransitInv
    /\ TakenInv /\ KnownInv /\ FinalInv /\ RowsInv /\ PendingInv

-----------------------------------------------------------------------------
(* Sequences of messages and of chunks.                                    *)

LEMMA TailOf ==
    ASSUME NEW S, NEW t \in Seq(S), t # << >>
    PROVE  /\ Tail(t) \in Seq(S) /\ Head(t) = t[1] /\ t[1] \in S
           /\ 1 \in DOMAIN t
           /\ \A i \in DOMAIN Tail(t) :
                i + 1 \in DOMAIN t /\ i + 1 # 1 /\ Tail(t)[i] = t[i + 1]
<1>1. Tail(t) \in Seq(S) /\ Len(Tail(t)) = Len(t) - 1 /\ Head(t) = t[1]
        /\ \A i \in 1 .. Len(Tail(t)) : Tail(t)[i] = t[i + 1]
  BY HeadTailProperties
<1>2. Len(t) \in Nat /\ Len(t) > 0
  BY EmptySeq, LenProperties
<1>3. DOMAIN t = 1 .. Len(t) /\ DOMAIN Tail(t) = 1 .. Len(Tail(t))
  BY <1>1, LenProperties
<1>4. 1 \in DOMAIN t /\ t[1] \in S
  BY <1>2, <1>3, ElementOfSeq
<1> QED BY <1>1, <1>2, <1>3, <1>4

LEMMA AppendOf ==
    ASSUME NEW S, NEW t \in Seq(S), NEW e \in S
    PROVE  /\ Append(t, e) \in Seq(S) /\ Append(t, e) # << >>
           /\ Len(t) \in Nat /\ Len(Append(t, e)) = Len(t) + 1
           /\ Last(Append(t, e)) = e
           /\ \A i \in DOMAIN Append(t, e) :
                \/ i \in DOMAIN t /\ Append(t, e)[i] = t[i]
                \/ i = Len(t) + 1 /\ Append(t, e)[i] = e
<1>1. Append(t, e) \in Seq(S) /\ Len(Append(t, e)) = Len(t) + 1
        /\ Len(t) \in Nat
        /\ \A i \in 1 .. Len(t) : Append(t, e)[i] = t[i]
        /\ Append(t, e)[Len(t) + 1] = e
  BY AppendProperties, LenProperties
<1>2. DOMAIN t = 1 .. Len(t) /\ DOMAIN Append(t, e) = 1 .. Len(t) + 1
  BY <1>1, LenProperties
<1>3. Append(t, e) # << >>
  BY <1>1, EmptySeq
<1> QED BY <1>1, <1>2, <1>3 DEF Last

LEMMA SamplesAreCounted == TypeOK => Samples \in Nat /\ Len(chunks) \in Nat
<1> SUFFICES ASSUME TypeOK PROVE Samples \in Nat /\ Len(chunks) \in Nat
  OBVIOUS
<1>1. chunks \in Seq(Chunk) /\ Len(chunks) \in Nat
  BY LenProperties DEF TypeOK, SinkTypeOK
<1>2. CASE chunks = << >>
  BY <1>1, <1>2 DEF Samples
<1>3. CASE chunks # << >>
  <2>1. Len(chunks) \in 1 .. Len(chunks)
    BY <1>1, <1>3, EmptySeq
  <2>2. Last(chunks) \in Chunk
    BY <1>1, <2>1, ElementOfSeq DEF Last
  <2> QED BY <1>1, <1>3, <2>2 DEF Samples, Chunk
<1> QED BY <1>2, <1>3

(* A chunk that is taken is counted.                                       *)
LEMMA OneChunkMore ==
    ASSUME TypeOK, NEW n \in Nat, NEW final \in BOOLEAN,
           chunks' = Append(chunks, [upto |-> Samples + n, final |-> final])
    PROVE  /\ chunks' \in Seq(Chunk) /\ chunks' # << >>
           /\ Len(chunks') = Len(chunks) + 1
           /\ Samples' = Samples + n /\ Samples' \in Nat
           /\ FinalReceived' <=> final
<1> DEFINE c == [upto |-> Samples + n, final |-> final]
<1>1. Samples \in Nat /\ chunks \in Seq(Chunk)
  BY SamplesAreCounted DEF TypeOK, SinkTypeOK
<1>2. c \in Chunk /\ c.upto = Samples + n /\ c.final = final
  BY <1>1 DEF Chunk
<1>3. chunks' = Append(chunks, c)
  OBVIOUS
<1> HIDE DEF c
<1>4. /\ chunks' \in Seq(Chunk) /\ chunks' # << >>
      /\ Len(chunks') = Len(chunks) + 1 /\ Last(chunks') = c
  BY <1>1, <1>2, <1>3, AppendOf
<1> QED BY <1>1, <1>2, <1>4 DEF Samples, FinalReceived

-----------------------------------------------------------------------------

(* What steps there are, seen from the executor.                           *)

(* A session ends; it succeeds only after its final chunk, or as a dry     *)
(* run.                                                                    *)
Ends ==
    /\ server # "idle"
    /\ \E status \in Ended :
         /\ EndSession(status)
         /\ status = "succeeded" =>
              server # "arming" /\ (session \in dry \/ FinalReceived)
Arms ==
    /\ server = "arming" /\ server' = "armed"
    /\ chunks' = << >> /\ executed' = 0
    /\ UNCHANGED <<live, goals, asked, session, dry>>
Writes ==
    /\ server = "armed" /\ server' = "writing"
    /\ UNCHANGED <<live, goals, asked, session, chunks, executed, dry>>
Serves == \E s \in Sessions : ServeGoal(s)

thoughts == <<queue, thread, inference, messages>>

LEMMA ExecutorSteps ==
    ASSUME Executor
    PROVE  /\ UNCHANGED thoughts
           /\ Serves \/ Arms \/ Ends \/ Execute \/ Writes
<1>1. Arm => Arms \/ Ends
  BY DEF Arm, Arms, Ends, Ended
<1>2. Decide => Ends \/ Writes
  BY DEF Decide, Ends, Writes, Ended
<1>3. WriteReplay => Ends
  BY DEF WriteReplay, Ends, Ended
<1> QED BY <1>1, <1>2, <1>3 DEF Executor, Serves, thoughts

(* The steps that leave what takes the chunks alone.                       *)
Quiet ==
    \/ Cancel \/ Snapshot \/ Infer \/ Response \/ Ready \/ Observe \/ Predict
    \/ Refill \/ MakeRoom \/ Emit \/ EmitNothing \/ Publish \/ Accepted
    \/ AwaitResult \/ Report \/ Deliver

LEMMA QuietSteps ==
    ASSUME Quiet
    PROVE  /\ UNCHANGED sink /\ UNCHANGED current
           /\ pc' \in Early => pc \in Early
           /\ pc' = "response" => pc = "response"
           /\ pc' \in Streaming \cup {"ready", "result"} =>
                \/ pc \in Streaming \cup {"ready", "result"}
                \/ pc = "response" /\ goals[current] # "sent"
<1> USE DEF sink, Early, Streaming
<1>1. CASE Cancel BY <1>1 DEF Cancel
<1>2. CASE Snapshot BY <1>2 DEF Snapshot
<1>3. CASE Infer BY <1>3 DEF Infer
<1>4. CASE Response BY <1>4 DEF Response
<1>5. CASE Ready BY <1>5 DEF Ready
<1>6. CASE Observe BY <1>6 DEF Observe, thread
<1>7. CASE Predict BY <1>7 DEF Predict, thread
<1>8. CASE Refill BY <1>8 DEF Refill, thread
<1>9. CASE MakeRoom BY <1>9 DEF MakeRoom
<1>10. CASE Emit BY <1>10 DEF Emit
<1>11. CASE EmitNothing BY <1>11 DEF EmitNothing
<1>12. CASE Publish BY <1>12 DEF Publish
<1>13. CASE Accepted BY <1>13 DEF Accepted
<1>14. CASE AwaitResult BY <1>14 DEF AwaitResult, EndGoal
<1>15. CASE Report BY <1>15 DEF Report, thread
<1>16. CASE Deliver BY <1>16 DEF Deliver, thread
<1> QED BY <1>1, <1>2, <1>3, <1>4, <1>5, <1>6, <1>7, <1>8, <1>9, <1>10,
           <1>11, <1>12, <1>13, <1>14, <1>15, <1>16 DEF Quiet

LEMMA NextSteps ==
    ASSUME Next
    PROVE  \/ \E d \in BOOLEAN : Goal(d)
           \/ pc # "idle" /\ Fail
           \/ SendGoal \/ Quiet \/ Executor \/ Take
  BY DEF Next, GoalThread, NoticeCancel, NoticeEnd, GiveUp, TooLong, Waits,
         Quiet

(* What is taken belongs to the session, and is the chunk that comes next. *)
Takes(m) ==
    /\ Hears /\ m.session = session /\ m.sequence = Len(chunks)
    /\ chunks' = Append(chunks, [upto |-> Samples + m.samples,
                                 final |-> m.final])
    /\ executed' = IF live THEN executed ELSE Samples + m.samples

LEMMA TakeSteps ==
    ASSUME TypeOK, Take
    PROVE  /\ UNCHANGED <<live, goals, asked, server, session, dry>>
           /\ UNCHANGED <<queue, thread, inference, seen, feedback>>
           /\ topic' = Tail(topic) /\ topic[1] \in Message
           /\ topic' \in Seq(Message) /\ 1 \in DOMAIN topic
           /\ \A i \in DOMAIN topic' :
                i + 1 \in DOMAIN topic /\ i + 1 # 1 /\ topic'[i] = topic[i + 1]
           /\ Takes(topic[1]) \/ UNCHANGED <<chunks, executed>>
<1>1. topic \in Seq(Message) /\ topic # << >> /\ topic' = Tail(topic)
        /\ TakeChunk(Head(topic))
  BY DEF Take, TypeOK, MessagesTypeOK
<1>2. /\ topic' \in Seq(Message) /\ Head(topic) = topic[1]
      /\ topic[1] \in Message /\ 1 \in DOMAIN topic
      /\ \A i \in DOMAIN topic' :
           i + 1 \in DOMAIN topic /\ i + 1 # 1 /\ topic'[i] = topic[i + 1]
  BY <1>1, TailOf
<1>3. /\ UNCHANGED <<live, goals, asked, server, session, dry>>
      /\ Takes(topic[1]) \/ UNCHANGED <<chunks, executed>>
  BY <1>1, <1>2 DEF TakeChunk, Takes, sink
<1> QED BY <1>1, <1>2, <1>3 DEF Take

-----------------------------------------------------------------------------

LEMMA CurrentIsSession ==
    ASSUME TypeOK
    PROVE  current \in Nat /\ (current # 0 => current \in Sessions)
  BY PolicyAssumption DEF TypeOK, ThreadTypeOK, Sessions

LEMMA SessionIsKept ==
    ASSUME IInv, Next
    PROVE  SessionInv'
<1>0. /\ SinkTypeOK /\ current \in Nat /\ SessionInv /\ TypeOK
      /\ pc # "idle" => current \in Sessions
  BY PolicyAssumption DEF IInv, TypeOK, ThreadTypeOK, ThreadInv, Sessions
<1> USE DEF SessionInv
<1>1. ASSUME NEW d \in BOOLEAN, Goal(d) PROVE SessionInv'
  <2>1. current + 1 \in Sessions /\ current' = current + 1
    BY <1>0, <1>1, PolicyAssumption DEF Goal, Sessions
  <2>2. goals[current + 1] = "none" /\ \A s \in Sessions : s > current' => s > current
    BY <1>0, <2>1 DEF Sessions
  <2>3. UNCHANGED <<goals, server, session, chunks, executed>>
    BY <1>1 DEF Goal
  <2>4. pc' \in {"send", "context"}
    BY <1>1 DEF Goal
  <2> QED BY <1>0, <2>1, <2>2, <2>3, <2>4 DEF Early, Streaming
<1>2. CASE pc # "idle" /\ Fail
  BY <1>0, <1>2 DEF Fail, EndGoal, Early, Streaming
<1>3. CASE SendGoal
  <2>1. /\ goals' = [goals EXCEPT ![current] = "sent"] /\ goals[current] = "none"
        /\ current \in Sessions /\ pc' = "response"
        /\ UNCHANGED <<server, session, chunks, executed, current>>
    BY <1>0, <1>3 DEF SendGoal, Early
  <2>2. session # current
    BY <1>0, <2>1 DEF Sessions
  <2>3. \A s \in Sessions : s # current => goals'[s] = goals[s]
    BY <1>0, <2>1 DEF SinkTypeOK
  <2>4. session # 0 => session \in Sessions /\ goals'[session] = "accepted"
    BY <1>0, <2>2, <2>3 DEF SinkTypeOK
  <2>5. \A s \in Sessions : s > current => goals'[s] = "none"
    BY <1>0, <2>3
  <2>6. goals'[current] # "none"
    BY <1>0, <2>1 DEF SinkTypeOK
  <2> QED BY <1>0, <2>1, <2>4, <2>5, <2>6 DEF Early, Streaming
<1>4. CASE Quiet
  <2>1. UNCHANGED <<goals, server, session, chunks, executed, current>>
    BY <1>4, QuietSteps DEF sink
  <2> QED BY <1>0, <1>4, <2>1, QuietSteps
<1>5. CASE Executor
  <2>0. current' = current /\ pc' = pc
    BY <1>5, ExecutorSteps DEF thoughts, thread
  <2>1. CASE Serves
    <3> PICK s \in Sessions : ServeGoal(s)
      BY <2>1 DEF Serves
    <3>1. /\ goals[s] = "sent" /\ UNCHANGED <<chunks, executed>>
          /\ \/ /\ goals' = [goals EXCEPT ![s] = "accepted"]
                /\ server = "idle" /\ server' = "arming" /\ session' = s
             \/ /\ goals' = [goals EXCEPT ![s] = "rejected"]
                /\ UNCHANGED <<server, session>>
      BY DEF ServeGoal, Reserves
    <3>2. /\ \A q \in Sessions : q # s => goals'[q] = goals[q]
          /\ s # 0
      <4>1. s # 0
        BY PolicyAssumption DEF Sessions
      <4>2. goals \in [Sessions -> {"none", "sent", "accepted", "rejected"} \cup Ended]
        BY <1>0 DEF SinkTypeOK
      <4> QED BY <3>1, <4>1, <4>2
    <3>3. \A q \in Sessions : q > current => q # s
      BY <1>0, <3>1
    <3>4. pc \in Early => s # current
      BY <1>0, <3>1
    <3>5. session' # 0 => goals'[session'] = "accepted"
      <4>1. session # s
        BY <1>0, <3>1, <3>2
      <4> QED BY <1>0, <3>1, <3>2, <4>1 DEF SinkTypeOK
    <3>6. s = current => goals'[current] \notin {"none", "sent"}
      BY <1>0, <3>1 DEF SinkTypeOK
    <3>7. pc # "idle" => current \in Sessions
      BY <1>0
    <3> QED BY <1>0, <2>0, <3>1, <3>2, <3>3, <3>4, <3>5, <3>6, <3>7
            DEF Early, Streaming
  <2>2. CASE Arms
    BY <1>0, <2>0, <2>2 DEF Arms
  <2>3. CASE Ends
    <3> PICK status \in Ended : EndSession(status)
      BY <2>3 DEF Ends
    <3>1. /\ session # 0 /\ session \in Sessions /\ goals[session] = "accepted"
      BY <1>0, <2>3 DEF Ends, SinkTypeOK
    <3>2. /\ \A q \in Sessions : q # session => goals'[q] = goals[q]
          /\ server' = "idle" /\ session' = 0 /\ chunks' = << >> /\ executed' = 0
      BY <1>0 DEF EndSession, SinkTypeOK
    <3>3. goals'[session] \notin {"none", "sent"}
      BY <1>0, <3>1 DEF EndSession, SinkTypeOK, Ended
    <3> QED BY <1>0, <2>0, <3>1, <3>2, <3>3 DEF Early, Streaming
  <2>4. CASE Execute
    BY <1>0, <2>0, <2>4 DEF Execute
  <2>5. CASE Writes
    BY <1>0, <2>0, <2>5 DEF Writes
  <2> QED BY <1>5, <2>1, <2>2, <2>3, <2>4, <2>5, ExecutorSteps
<1>6. CASE Take
  <2>1. Takes(topic[1]) \/ UNCHANGED <<chunks, executed>>
    BY <1>0, <1>6, TakeSteps
  <2>2. UNCHANGED <<goals, server, session, pc, current>>
    BY <1>0, <1>6, TakeSteps DEF thread
  <2>3. Takes(topic[1]) => server \notin {"idle", "arming"}
    BY DEF Takes, Hears
  <2> QED BY <1>0, <2>1, <2>2, <2>3
<1> QED BY <1>1, <1>2, <1>3, <1>4, <1>5, <1>6, NextSteps

(* A session is fed only while it is streamed to, and the end of the goal  *)
(* asks it to cancel.                                                      *)
LEMMA StreamIsKept ==
    ASSUME IInv, Next
    PROVE  StreamInv'
<1>0. /\ SinkTypeOK /\ current \in Nat /\ SessionInv /\ TypeOK /\ StreamInv
      /\ pc # "idle" => current \in Sessions
      /\ topic \in Seq(Message)
  BY PolicyAssumption DEF IInv, TypeOK, ThreadTypeOK, MessagesTypeOK,
                          ThreadInv, Sessions
<1> SUFFICES ASSUME NEW s \in Sessions, Fed(s)'
             PROVE  \/ s \in asked' \/ goals'[s] \in Ended
                    \/ s = current' /\ pc' \in Streaming \cup {"result"}
  BY DEF StreamInv
<1> USE DEF Streaming
<1>1. ASSUME NEW d \in BOOLEAN, Goal(d) PROVE s \in asked' \/ goals'[s] \in Ended
  BY <1>0, <1>1 DEF Goal, messages, Fed, StreamInv
<1>2. CASE pc # "idle" /\ Fail
  <2>1. Fed(s)
    BY <1>2 DEF Fail, messages, Fed
  <2>2. asked' = IF Handled THEN asked \cup {current} ELSE asked
    BY <1>2 DEF Fail, AskCancel
  <2> QED BY <1>0, <1>2, <2>1, <2>2 DEF StreamInv, Fail, Handled
<1>3. CASE SendGoal
  <2>1. Fed(s)
    BY <1>3 DEF SendGoal, Fed
  <2>2. /\ goals' = [goals EXCEPT ![current] = "sent"] /\ goals[current] = "none"
        /\ pc = "send" /\ asked' = asked
    BY <1>0, <1>3 DEF SendGoal, SessionInv, Early
  <2>3. s \in asked \/ goals[s] \in Ended
    BY <1>0, <2>1, <2>2 DEF StreamInv
  <2>4. goals[s] \in Ended => s # current
    BY <2>2 DEF Ended
  <2> QED BY <1>0, <2>2, <2>3, <2>4 DEF SinkTypeOK
<1>4. CASE Quiet
  <2>0. UNCHANGED <<goals, asked, session, chunks, current>>
    BY <1>4, QuietSteps DEF sink
  <2>1. CASE Publish
    <3>1. /\ pc' = "accept" /\ topic' = Append(topic, [session |-> current,
                sequence |-> sequence, samples |-> piece, final |-> Complete])
          /\ current \in Sessions /\ pc = "emit"
      BY <1>0, <2>1 DEF Publish
    <3> DEFINE m == [session |-> current, sequence |-> sequence,
                     samples |-> piece, final |-> Complete]
    <3>2. m \in Message /\ m.session = current
      BY <3>1 DEF Message, IInv, TypeOK, ThreadTypeOK, Complete
    <3>3. topic' = Append(topic, m)
      BY <3>1
    <3> HIDE DEF m
    <3>4. \A i \in DOMAIN topic' :
            \/ i \in DOMAIN topic /\ topic'[i] = topic[i]
            \/ topic'[i] = m
      BY <1>0, <3>2, <3>3, AppendOf
    <3>5. Fed(s) \/ s = current
      BY <2>0, <3>2, <3>4 DEF Fed
    <3> QED BY <1>0, <2>0, <3>1, <3>5 DEF StreamInv
  <2>2. CASE ~Publish
    <3>1. topic' = topic
      BY <1>4, <2>2 DEF Quiet, Cancel, Snapshot, Infer, Response, Ready, Observe,
           Predict, Refill, MakeRoom, Emit, EmitNothing, Accepted, AwaitResult,
           Report, Deliver, messages
    <3>2. Fed(s)
      BY <2>0, <3>1 DEF Fed
    <3>3. pc \in Streaming \cup {"result"} =>
            pc' \in Streaming \cup {"result"} \/ goals[current] \in Ended
      BY <1>4, <2>2 DEF Quiet, Cancel, Snapshot, Infer, Response, Ready, Observe,
           Predict, Refill, MakeRoom, Emit, EmitNothing, Accepted, AwaitResult,
           Report, Deliver, thread
    <3> QED BY <1>0, <2>0, <3>2, <3>3 DEF StreamInv
  <2> QED BY <2>1, <2>2
<1>5. CASE Executor
  <2>0. current' = current /\ pc' = pc /\ topic' = topic
    BY <1>5, ExecutorSteps DEF thoughts, thread, messages
  <2>1. CASE Serves
    <3> PICK q \in Sessions : ServeGoal(q)
      BY <2>1 DEF Serves
    <3>1. /\ goals[q] = "sent" /\ UNCHANGED <<chunks, asked>>
          /\ session' = session \/ server = "idle"
          /\ \/ goals' = [goals EXCEPT ![q] = "accepted"]
             \/ goals' = [goals EXCEPT ![q] = "rejected"]
      BY DEF ServeGoal, Reserves
    <3>2. Fed(s)
      BY <1>0, <2>0, <3>1 DEF Fed, SessionInv
    <3>3. goals[s] \in Ended => goals'[s] = goals[s]
      BY <1>0, <3>1 DEF Ended, SinkTypeOK
    <3> QED BY <1>0, <2>0, <3>1, <3>2, <3>3 DEF StreamInv
  <2>2. CASE Arms
    BY <1>0, <2>0, <2>2 DEF Arms, Fed, StreamInv
  <2>3. CASE Ends
    <3> PICK status \in Ended : EndSession(status)
      BY <2>3 DEF Ends
    <3>1. /\ goals' = [goals EXCEPT ![session] = status]
          /\ session' = 0 /\ chunks' = << >> /\ asked' = asked
      BY DEF EndSession
    <3>2. Fed(s)
      BY <2>0, <3>1 DEF Fed
    <3>3. goals[s] \in Ended => goals'[s] \in Ended
      BY <1>0, <3>1 DEF SinkTypeOK
    <3> QED BY <1>0, <2>0, <3>1, <3>2, <3>3 DEF StreamInv
  <2>4. CASE Execute
    BY <1>0, <2>0, <2>4 DEF Execute, Fed, StreamInv
  <2>5. CASE Writes
    BY <1>0, <2>0, <2>5 DEF Writes, Fed, StreamInv
  <2> QED BY <1>5, <2>1, <2>2, <2>3, <2>4, <2>5, ExecutorSteps
<1>6. CASE Take
  <2>1. /\ UNCHANGED <<goals, asked, session, pc, current>>
        /\ 1 \in DOMAIN topic
        /\ \A i \in DOMAIN topic' :
             i + 1 \in DOMAIN topic /\ topic'[i] = topic[i + 1]
        /\ Takes(topic[1]) \/ UNCHANGED chunks
    BY <1>0, <1>6, TakeSteps DEF thread
  <2>2. Takes(topic[1]) => topic[1].session = session
    BY DEF Takes
  <2>3. Fed(s)
    BY <2>1, <2>2 DEF Fed
  <2> QED BY <1>0, <2>1, <2>3 DEF StreamInv
<1> QED BY <1>1, <1>2, <1>3, <1>4, <1>5, <1>6, NextSteps

LEMMA ThreadIsKept ==
    ASSUME IInv, Next
    PROVE  ThreadInv'
<1>0. /\ ThreadInv /\ TypeOK /\ current \in Nat
      /\ sequence \in Nat /\ piece \in Nat /\ emitted \in Nat
  BY PolicyAssumption DEF IInv, TypeOK, ThreadTypeOK, QueueTypeOK, Sessions
<1> USE DEF ThreadInv, Early, Begun, Streaming
<1>1. ASSUME NEW d \in BOOLEAN, Goal(d) PROVE ThreadInv'
  <2>1. /\ current' = current + 1 /\ pc = "idle" /\ sequence' = 0
        /\ dry' = (IF d THEN dry \cup {current + 1} ELSE dry)
        /\ pc' = (IF d THEN "send" ELSE "context")
        /\ UNCHANGED <<piece, pending>>
    BY <1>1 DEF Goal
  <2>2. \A s \in dry' : s <= current'
    <3>1. \A s \in dry : s \in Nat
      BY <1>0, PolicyAssumption DEF TypeOK, SinkTypeOK, Sessions
    <3> QED BY <1>0, <2>1, <3>1
  <2>3. pc' = "context" => current' \notin dry'
    BY <1>0, <2>1
  <2>4. pc' = "send" => current' \in dry'
    BY <2>1
  <2> QED BY <1>0, <2>1, <2>2, <2>3, <2>4
<1>2. CASE pc # "idle" /\ Fail
  BY <1>0, <1>2 DEF Fail, EndGoal
<1>3. CASE SendGoal
  BY <1>0, <1>3 DEF SendGoal, queue, inference
<1>4. CASE Quiet
  <2>0. dry' = dry /\ current' = current
    BY <1>4, QuietSteps DEF sink
  <2> USE <1>0, <2>0 DEF queue, inference, thread
  <2>1. CASE Cancel BY <2>1 DEF Cancel
  <2>2. CASE Snapshot BY <2>2 DEF Snapshot
  <2>3. CASE Infer BY <2>3 DEF Infer
  <2>4. CASE Response BY <2>4 DEF Response
  <2>5. CASE Ready BY <2>5 DEF Ready
  <2>6. CASE Observe BY <2>6 DEF Observe
  <2>7. CASE Predict BY <2>7 DEF Predict
  <2>8. CASE Refill BY <2>8 DEF Refill, Merge
  <2>9. CASE MakeRoom BY <2>9 DEF MakeRoom
  <2>10. CASE Emit BY <2>10 DEF Emit
  <2>11. CASE EmitNothing BY <2>11 DEF EmitNothing
  <2>12. CASE Publish BY <2>12 DEF Publish
  <2>13. CASE Accepted BY <2>13 DEF Accepted
  <2>14. CASE AwaitResult BY <2>14 DEF AwaitResult, EndGoal
  <2>15. CASE Report BY <2>15 DEF Report
  <2>16. CASE Deliver BY <2>16 DEF Deliver
  <2> QED BY <1>4, <2>1, <2>2, <2>3, <2>4, <2>5, <2>6, <2>7, <2>8, <2>9,
             <2>10, <2>11, <2>12, <2>13, <2>14, <2>15, <2>16 DEF Quiet
<1>5. CASE Executor
  <2>1. UNCHANGED <<queue, thread, inference>> /\ dry' = dry
    BY <1>5, ExecutorSteps DEF thoughts, Serves, ServeGoal, Arms, Ends,
       EndSession, Execute, Writes
  <2> QED BY <1>0, <2>1 DEF queue, thread, inference
<1>6. CASE Take
  BY <1>0, <1>6, TakeSteps DEF queue, thread, inference
<1> QED BY <1>1, <1>2, <1>3, <1>4, <1>5, <1>6, NextSteps

LEMMA FeedIsKept ==
    ASSUME IInv, Next
    PROVE  FeedInv'
<1>0. /\ TypeOK /\ SinkTypeOK /\ MessagesTypeOK /\ SessionInv /\ FeedInv
      /\ current \in Nat /\ (pc # "idle" => current # 0)
      /\ Samples \in Nat /\ Len(chunks) \in Nat
      /\ executed \in Nat /\ executed <= Samples
  BY SMTT(20), PolicyAssumption, SamplesAreCounted
     DEF IInv, TypeOK, ThreadTypeOK, ThreadInv, SinkTypeOK, Sessions
<1> USE DEF FeedInv, Reports
<1>1. ASSUME NEW d \in BOOLEAN, Goal(d) PROVE FeedInv'
  <2>1. /\ current' = current + 1 /\ current + 1 \in Sessions
        /\ UNCHANGED <<goals, session, server, chunks, executed, seen, feedback>>
    BY <1>0, <1>1, PolicyAssumption DEF Goal, messages, Sessions
  <2>2. goals[current + 1] = "none" /\ session # current + 1
    BY <1>0, <2>1 DEF SessionInv
  <2> QED BY <1>0, <2>1, <2>2
<1>2. CASE pc # "idle" /\ Fail
  BY <1>0, <1>2 DEF Fail, EndGoal, messages
<1>3. CASE SendGoal
  <2>1. /\ seen' = Unseen /\ feedback' = {} /\ current' = current
        /\ UNCHANGED <<session, server, chunks, executed>>
        /\ current # 0 /\ goals[current] = "none"
    BY <1>0, <1>3 DEF SendGoal, SessionInv, Early
  <2>2. session # current
    BY <1>0, <2>1 DEF SessionInv
  <2> QED BY <2>1, <2>2
<1>4. CASE Quiet
  <2>0. UNCHANGED <<goals, session, server, chunks, executed, current>>
    BY <1>4, QuietSteps DEF sink
  <2>1. CASE Report
    <3> DEFINE now == [ready |-> TRUE, accepted |-> Len(chunks),
                       executed |-> executed, queued |-> Samples - executed]
    <3>1. /\ server \in {"armed", "writing"} /\ session = current
          /\ feedback' = {now} /\ seen' = seen
      BY <2>1 DEF Report
    <3>2. goals[current] = "accepted" /\ current # 0
      BY <1>0, <3>1 DEF SessionInv
    <3>3. now.executed = executed /\ now.accepted = Len(chunks)
      OBVIOUS
    <3> HIDE DEF now
    <3>4. seen.accepted <= Len(chunks) /\ seen.executed <= executed
      BY <1>0, <3>1, <3>2
    <3> QED BY <1>0, <2>0, <3>1, <3>2, <3>3, <3>4
  <2>2. CASE Deliver
    <3> PICK f \in feedback : seen' = f
      BY <2>2 DEF Deliver
    <3>1. feedback' = {}
      BY <2>2 DEF Deliver
    <3> QED BY <1>0, <2>0, <3>1
  <2>3. CASE ~(Report \/ Deliver)
    <3>1. UNCHANGED <<seen, feedback>>
      BY <1>4, <2>3 DEF Quiet, Cancel, Snapshot, Infer, Response, Ready, Observe,
           Predict, Refill, MakeRoom, Emit, EmitNothing, Publish, Accepted,
           AwaitResult, messages
    <3> QED BY <1>0, <2>0, <3>1
  <2> QED BY <2>1, <2>2, <2>3
<1>5. CASE Executor
  <2>0. UNCHANGED <<current, seen, feedback>>
    BY <1>5, ExecutorSteps DEF thoughts, thread, messages
  <2>1. CASE Serves
    <3> PICK q \in Sessions : ServeGoal(q)
      BY <2>1 DEF Serves
    <3>1. /\ goals[q] = "sent" /\ UNCHANGED <<chunks, executed>> /\ q # 0
          /\ \/ /\ goals' = [goals EXCEPT ![q] = "accepted"]
                /\ server = "idle" /\ server' = "arming" /\ session' = q
             \/ /\ goals' = [goals EXCEPT ![q] = "rejected"]
                /\ UNCHANGED <<server, session>>
      BY PolicyAssumption DEF ServeGoal, Reserves, Sessions
    <3>2. current # 0 /\ goals'[current] = "sent" => goals[current] = "sent"
      BY <1>0, <3>1, CurrentIsSession DEF SinkTypeOK
    <3>3. CASE session' = session
      BY <1>0, <2>0, <3>1, <3>2, <3>3 DEF SessionInv
    <3>4. CASE session' = q /\ session' # session
      <4>1. q = current => seen = Unseen /\ feedback = {}
        BY <1>0, <3>1
      <4>2. Unseen.executed = 0 /\ Unseen.accepted = 0
        BY DEF Unseen
      <4> QED BY <1>0, <2>0, <3>1, <3>2, <3>4, <4>1, <4>2
    <3> QED BY <3>1, <3>3, <3>4
  <2>2. CASE Arms
    <3>1. /\ server = "arming" /\ server' = "armed" /\ chunks' = << >>
          /\ executed' = 0 /\ UNCHANGED <<goals, session>>
          /\ chunks = << >> /\ executed = 0
      BY <1>0, <2>2 DEF Arms, SessionInv
    <3> QED BY <1>0, <2>0, <3>1
  <2>3. CASE Ends
    <3> PICK status \in Ended : EndSession(status)
      BY <2>3 DEF Ends
    <3>1. /\ goals' = [goals EXCEPT ![session] = status]
          /\ session' = 0 /\ server' = "idle"
      BY DEF EndSession
    <3>2. goals'[current] = "sent" /\ current # 0 => goals[current] = "sent"
      BY <1>0, <3>1 DEF SinkTypeOK, Ended
    <3> QED BY <1>0, <2>0, <3>1, <3>2
  <2>4. CASE Execute
    <3>1. executed' = executed + 1 /\ server = "armed"
            /\ UNCHANGED <<goals, server, session, chunks>>
      BY <2>4 DEF Execute
    <3>2. \A f \in Reports : f.executed \in Nat
      BY <1>0 DEF MessagesTypeOK, Feedback
    <3> QED BY <1>0, <2>0, <3>1, <3>2
  <2>5. CASE Writes
    BY <1>0, <2>0, <2>5 DEF Writes
  <2> QED BY <1>5, <2>1, <2>2, <2>3, <2>4, <2>5, ExecutorSteps
<1>6. CASE Take
  <2>1. /\ UNCHANGED <<goals, server, session, current, seen, feedback>>
        /\ topic[1] \in Message
    BY <1>0, <1>6, TakeSteps DEF thread
  <2>2. CASE UNCHANGED <<chunks, executed>>
    BY <1>0, <2>1, <2>2
  <2>3. CASE Takes(topic[1])
    <3>1. topic[1].samples \in Nat /\ topic[1].final \in BOOLEAN
      BY <2>1 DEF Message
    <3>2. Len(chunks') = Len(chunks) + 1
      BY <1>0, <2>3, <3>1, OneChunkMore DEF Takes
    <3>3. executed' \in Nat /\ executed' >= executed
      BY <1>0, <2>3, <3>1 DEF Takes
    <3>4. server # "arming"
      BY <2>3 DEF Takes, Hears
    <3>5. \A f \in Reports : f.executed \in Nat /\ f.accepted \in Nat
      BY <1>0 DEF MessagesTypeOK, Feedback
    <3>6. Reports' = Reports
      BY <2>1
    <3>7. session = current /\ session # 0 =>
            \A f \in Reports : f.executed <= executed' /\ f.accepted <= Len(chunks')
      BY <1>0, <3>2, <3>3, <3>5
    <3> QED BY <1>0, <2>1, <3>4, <3>6, <3>7
  <2> QED BY <1>0, <1>6, <2>2, <2>3, TakeSteps
<1> QED BY <1>1, <1>2, <1>3, <1>4, <1>5, <1>6, NextSteps

(* The steps that leave the messages to the executor alone.                *)
LEMMA TopicIsKept ==
    ASSUME Quiet, ~Publish
    PROVE  topic' = topic
  BY DEF Quiet, Cancel, Snapshot, Infer, Response, Ready, Observe, Predict,
         Refill, MakeRoom, Emit, EmitNothing, Accepted, AwaitResult, Report,
         Deliver, messages

(* A chunk that is published is the only one of its session under way.     *)
LEMMA OneMessageMore ==
    ASSUME IInv, Publish
    PROVE  /\ pc = "emit" /\ pc' = "accept" /\ current # 0
           /\ topic' \in Seq(Message) /\ Mine = {}
           /\ \A i \in DOMAIN topic' :
                \/ i \in DOMAIN topic /\ topic'[i] = topic[i]
                \/ /\ i = Len(topic) + 1
                   /\ topic'[i] = [session |-> current, sequence |-> sequence,
                                   samples |-> piece, final |-> Complete]
           /\ \A i \in Mine' :
                /\ i = Len(topic) + 1
                /\ topic'[i].sequence = sequence /\ topic'[i].samples = piece
                /\ topic'[i].final = Complete
<1> DEFINE m == [session |-> current, sequence |-> sequence,
                 samples |-> piece, final |-> Complete]
<1>1. pc = "emit" /\ pc' = "accept" /\ topic' = Append(topic, m) /\ current' = current
  BY DEF Publish
<1>2. current # 0 /\ topic \in Seq(Message) /\ Mine = {} /\ TypeOK
  BY <1>1 DEF IInv, ThreadInv, TransitInv, TypeOK, MessagesTypeOK
<1>3. m \in Message
  <2>1. current \in Sessions /\ sequence \in Nat /\ Complete \in BOOLEAN
    BY <1>2, CurrentIsSession DEF TypeOK, ThreadTypeOK, Complete
  <2>2. piece \in Nat
    BY <1>2, PolicyAssumption DEF TypeOK, ThreadTypeOK
  <2> QED BY <2>1, <2>2 DEF Message
<1>4. /\ m.session = current /\ m.sequence = sequence /\ m.samples = piece
      /\ m.final = Complete
  OBVIOUS
<1>5. /\ topic' \in Seq(Message)
      /\ \A i \in DOMAIN topic' :
           \/ i \in DOMAIN topic /\ topic'[i] = topic[i]
           \/ i = Len(topic) + 1 /\ topic'[i] = m
  <2> HIDE DEF m
  <2> QED BY <1>1, <1>2, <1>3, AppendOf
<1>6. \A i \in Mine' : i = Len(topic) + 1 /\ topic'[i] = m
  <2> HIDE DEF m
  <2> QED BY <1>1, <1>2, <1>5 DEF Mine
<1> QED BY <1>1, <1>2, <1>4, <1>5, <1>6

(* Once a chunk is known to be taken it is not under way any more, unless  *)
(* the executor has succeeded.                                             *)
LEMMA AcceptedIsTaken ==
    ASSUME IInv, Accepted
    PROVE  /\ pc = "accept" /\ Begun
           /\ pc' = IF Complete THEN "result" ELSE "stream"
           /\ sequence' = sequence + 1 /\ piece' = piece
           /\ ~Complete => /\ seen.accepted = sequence + 1 /\ Mine = {}
                           /\ seen.executed + seen.queued = emitted
                           /\ goals[current] # "succeeded"
<1>1. /\ pc = "accept" /\ pc' = IF Complete THEN "result" ELSE "stream"
      /\ sequence' = sequence + 1 /\ piece' = piece
      /\ seen.accepted > sequence \/ goals[current] = "succeeded"
  BY DEF Accepted
<1>2. Begun
  BY <1>1 DEF IInv, ThreadInv, Begun, Streaming
<1>3. goals[current] = "succeeded" => Complete
  BY <1>2 DEF IInv, FinalInv
<1>4. /\ seen.accepted <= sequence + 1
      /\ seen.accepted = sequence + 1 =>
           Mine = {} /\ seen.executed + seen.queued = emitted
  BY <1>2 DEF IInv, KnownInv, Reports
<1>5. seen.accepted \in Nat /\ sequence \in Nat
  BY DEF IInv, TypeOK, ThreadTypeOK, MessagesTypeOK, Feedback
<1>6. seen.accepted > sequence => seen.accepted = sequence + 1
  BY <1>4, <1>5
<1> QED BY <1>1, <1>2, <1>3, <1>4, <1>6

(* A chunk that is taken from the topic leaves the others.                 *)
LEMMA MineShrinks ==
    ASSUME TypeOK, Take
    PROVE  /\ \A i \in Mine' : i \in Nat /\ i + 1 # 1 /\ i + 1 \in Mine
                                /\ topic'[i] = topic[i + 1]
           /\ topic[1].session = current => 1 \in Mine
<1>1. /\ topic' \in Seq(Message) /\ 1 \in DOMAIN topic /\ current' = current
      /\ \A i \in DOMAIN topic' :
           i + 1 \in DOMAIN topic /\ i + 1 # 1 /\ topic'[i] = topic[i + 1]
  BY TakeSteps DEF thread
<1>2. \A i \in DOMAIN topic' : i \in Nat
  BY <1>1, LenProperties
<1> QED BY <1>1, <1>2 DEF Mine

LEMMA TransitIsKept ==
    ASSUME IInv, Next
    PROVE  TransitInv'
<1>0. /\ TypeOK /\ TransitInv /\ ThreadInv /\ current \in Nat
      /\ topic \in Seq(Message)
      /\ \A i \in DOMAIN topic : topic[i].session \in Nat
  <2>1. TypeOK /\ TransitInv /\ ThreadInv /\ topic \in Seq(Message)
    BY DEF IInv, TypeOK, MessagesTypeOK
  <2>2. \A i \in DOMAIN topic : topic[i].session \in Nat
    <3> SUFFICES ASSUME NEW i \in DOMAIN topic PROVE topic[i].session \in Nat
      OBVIOUS
    <3>1. topic[i] \in Message
      BY <2>1, ElementOfSeq, LenProperties
    <3>2. \A s \in Sessions : s \in Nat
      BY PolicyAssumption DEF Sessions
    <3> QED BY <3>1, <3>2 DEF Message
  <2> QED BY <2>1, <2>2, CurrentIsSession
<1> USE DEF TransitInv, Early
<1>1. ASSUME NEW d \in BOOLEAN, Goal(d) PROVE TransitInv'
  <2>1. current' = current + 1 /\ topic' = topic /\ pc' \in {"send", "context"}
    BY <1>1 DEF Goal, messages
  <2>2. \A i \in DOMAIN topic' : topic'[i].session <= current'
                                   /\ topic'[i].session # current'
    BY <1>0, <2>1
  <2>3. Mine' = {}
    BY <2>2 DEF Mine
  <2> QED BY <2>1, <2>2, <2>3
<1>2. CASE pc # "idle" /\ Fail
  BY <1>0, <1>2 DEF Fail, EndGoal, messages
<1>3. CASE SendGoal
  BY <1>0, <1>3 DEF SendGoal, Mine
<1>4. CASE Quiet
  <2>0. current' = current
    BY <1>4, QuietSteps
  <2>1. CASE Publish
    <3>1. \A i \in DOMAIN topic' : topic'[i].session <= current'
      <4> SUFFICES ASSUME NEW i \in DOMAIN topic'
                   PROVE  topic'[i].session <= current
        BY <2>0
      <4>1. \/ i \in DOMAIN topic /\ topic'[i] = topic[i]
            \/ topic'[i].session = current
        BY <2>1, OneMessageMore
      <4> QED BY <1>0, <4>1
    <3>2. sequence' = sequence
      BY <2>1 DEF Publish
    <3>3. pc' = "accept" /\ \A i \in Mine' : i = Len(topic) + 1
                              /\ topic'[i].sequence = sequence
      BY <2>1, OneMessageMore
    <3> QED BY <3>1, <3>2, <3>3
  <2>2. CASE Accepted
    <3>1. topic' = topic /\ Mine' = Mine
      BY <2>0, <1>4, <2>2, TopicIsKept DEF Accepted, Mine, messages
    <3>2. pc' = "result" \/ (pc' = "stream" /\ Mine = {})
      BY <2>2, AcceptedIsTaken
    <3> QED BY <1>0, <2>0, <3>1, <3>2
  <2>3. CASE ~(Publish \/ Accepted)
    <3>1. topic' = topic /\ Mine' = Mine
      BY <2>0, <1>4, <2>3, TopicIsKept DEF Mine
    <3>2. /\ pc' \in Early \cup {"response", "ready", "stream", "emit"} =>
               pc \in Early \cup {"response", "ready", "stream", "emit"}
          /\ pc' = "accept" => pc = "accept" /\ sequence' = sequence
      BY <1>4, <2>3 DEF Quiet, Cancel, Snapshot, Infer, Response, Ready, Observe,
         Predict, Refill, MakeRoom, Emit, EmitNothing, AwaitResult, EndGoal,
         Report, Deliver, thread
    <3> QED BY <1>0, <2>0, <3>1, <3>2
  <2> QED BY <2>1, <2>2, <2>3
<1>5. CASE Executor
  <2>1. UNCHANGED <<topic, current, pc, sequence>>
    BY <1>5, ExecutorSteps DEF thoughts, thread, messages
  <2> QED BY <1>0, <2>1 DEF Mine
<1>6. CASE Take
  <2>1. /\ UNCHANGED <<current, pc, sequence>>
        /\ \A i \in DOMAIN topic' :
             i + 1 \in DOMAIN topic /\ topic'[i] = topic[i + 1]
    BY <1>0, <1>6, TakeSteps DEF thread
  <2>2. \A i \in Mine' : i \in Nat /\ i + 1 \in Mine /\ topic'[i] = topic[i + 1]
    BY <1>0, <1>6, MineShrinks
  <2>3. \A i \in DOMAIN topic' : topic'[i].session <= current'
    BY <1>0, <2>1
  <2>4. Mine = {} => Mine' = {}
    BY <2>2
  <2>5. pc = "accept" => \A i \in Mine' : topic'[i].sequence = sequence
    BY <1>0, <2>2
  <2>6. pc = "accept" => \A i, j \in Mine' : i = j
    <3> SUFFICES ASSUME pc = "accept", NEW i \in Mine', NEW j \in Mine'
                 PROVE  i = j
      OBVIOUS
    <3>1. i + 1 = j + 1 /\ i \in Nat /\ j \in Nat
      BY <1>0, <2>2
    <3> QED BY <3>1
  <2> QED BY <1>0, <2>1, <2>3, <2>4, <2>5, <2>6
<1> QED BY <1>1, <1>2, <1>3, <1>4, <1>5, <1>6, NextSteps

(* Begun stretches begin where the goal is sent.                           *)
LEMMA BegunBefore ==
    ASSUME IInv, Next, Begun'
    PROVE  \/ SendGoal
           \/ Begun /\ dry' = dry /\ current' = current
<1> USE DEF Begun, Streaming
<1>1. ASSUME NEW d \in BOOLEAN, Goal(d) PROVE FALSE
  BY <1>1 DEF Goal
<1>2. CASE pc # "idle" /\ Fail
  BY <1>2 DEF Fail, EndGoal
<1>3. CASE Quiet
  <2>1. dry' = dry /\ current' = current
    BY <1>3, QuietSteps DEF sink
  <2>2. pc \in Streaming \cup {"response", "ready"}
    BY <1>3, <2>1 DEF Quiet, Cancel, Snapshot, Infer, Response, Ready, Observe,
       Predict, Refill, MakeRoom, Emit, EmitNothing, Publish, Accepted,
       AwaitResult, EndGoal, Report, Deliver, thread
  <2> QED BY <2>1, <2>2
<1>4. CASE Executor
  <2>1. UNCHANGED <<pc, current>>
    BY <1>4, ExecutorSteps DEF thoughts, thread
  <2>2. dry' = dry
    BY <1>4, ExecutorSteps DEF Serves, ServeGoal, Arms, Ends, EndSession,
                               Execute, Writes
  <2> QED BY <2>1, <2>2
<1>5. CASE Take
  BY <1>5, TakeSteps DEF thread, IInv
<1> QED BY <1>1, <1>2, <1>3, <1>4, <1>5, NextSteps

(* The rows that are emitted are in hand until they are published.         *)
LEMMA RowsInHand ==
    ASSUME IInv, Quiet, ~Publish, ~Accepted, Begun, Begun'
    PROVE  /\ sequence' = sequence /\ emitted' - piece' = emitted - piece
           /\ pc' = "accept" <=> pc = "accept"
           /\ pc = "accept" => emitted' = emitted
<1>0. emitted \in Nat /\ piece \in Nat
  BY PolicyAssumption DEF IInv, TypeOK, QueueTypeOK, ThreadTypeOK
<1> USE <1>0 DEF Begun, Streaming, queue, thread
<1>1. CASE Cancel BY <1>1 DEF Cancel
<1>2. CASE Snapshot BY <1>2 DEF Snapshot
<1>3. CASE Infer BY <1>3 DEF Infer
<1>4. CASE Response BY <1>4 DEF Response
<1>5. CASE Ready BY <1>5 DEF Ready
<1>6. CASE Observe BY <1>6 DEF Observe
<1>7. CASE Predict BY <1>7 DEF Predict
<1>8. CASE Refill BY <1>8 DEF Refill, Merge
<1>9. CASE MakeRoom BY <1>9 DEF MakeRoom
<1>10. CASE Emit
  <2>1. emitted' = emitted + 1 /\ piece' = piece + 1 /\ sequence' = sequence
          /\ pc' = pc /\ pc = "emit"
    BY <1>10 DEF Emit, EmitRow
  <2> QED BY <2>1
<1>11. CASE EmitNothing BY <1>11 DEF EmitNothing
<1>12. CASE AwaitResult BY <1>12 DEF AwaitResult, EndGoal
<1>13. CASE Report BY <1>13 DEF Report
<1>14. CASE Deliver BY <1>14 DEF Deliver
<1> QED BY <1>1, <1>2, <1>3, <1>4, <1>5, <1>6, <1>7, <1>8, <1>9, <1>10,
           <1>11, <1>12, <1>13, <1>14 DEF Quiet

LEMMA TakenIsKept ==
    ASSUME IInv, Next
    PROVE  TakenInv'
<1>0. /\ TypeOK /\ SessionInv /\ ThreadInv /\ TransitInv /\ TakenInv
      /\ Samples \in Nat /\ Len(chunks) \in Nat /\ sequence \in Nat
      /\ emitted \in Nat /\ piece \in Nat
  BY PolicyAssumption, SamplesAreCounted
     DEF IInv, TypeOK, ThreadTypeOK, QueueTypeOK
<1> SUFFICES ASSUME Begun', session' = current'
             PROVE  TakenInv'
  BY DEF TakenInv
<1>1. CASE SendGoal
  <2>1. UNCHANGED <<session, current>> /\ goals[current] = "none" /\ current # 0
    BY <1>0, <1>1 DEF SendGoal, SessionInv, ThreadInv, Early
  <2> QED BY <1>0, <2>1 DEF SessionInv
<1>2. CASE ~SendGoal /\ Quiet
  <2>0. /\ Begun /\ dry' = dry /\ current' = current
        /\ UNCHANGED <<session, chunks, Samples>> /\ session = current
    BY <1>2, BegunBefore, QuietSteps DEF sink, Samples
  <2>1. CASE Publish
    <3>1. /\ pc = "emit" /\ pc' = "accept"
          /\ \A i \in Mine' : topic'[i].samples = piece
      BY <2>1, OneMessageMore
    <3>2. UNCHANGED <<sequence, emitted>>
      BY <2>1 DEF Publish, queue
    <3>3. /\ Len(chunks) <= sequence + 1 /\ Len(chunks) # sequence + 1
          /\ Len(chunks) = sequence => Samples = emitted - piece
      BY <1>0, <2>0, <3>1 DEF TakenInv
    <3>4. Len(chunks) = sequence => Samples + piece = emitted
      BY <1>0, <3>3
    <3> QED BY <1>0, <2>0, <3>1, <3>2, <3>3, <3>4 DEF TakenInv
  <2>2. CASE Accepted
    <3>1. /\ sequence' = sequence + 1 /\ piece' = 0 /\ UNCHANGED emitted
      <4>1. piece = 0
        BY <1>0, <2>2 DEF ThreadInv, Accepted
      <4> QED BY <2>2, <4>1 DEF Accepted, queue
    <3>2. ~Complete /\ pc' = "stream"
      BY <2>2, AcceptedIsTaken DEF Begun, Streaming
    <3>3. /\ Len(chunks) <= sequence + 1
          /\ Len(chunks) = sequence + 1 => Samples = emitted
      BY <1>0, <2>0 DEF TakenInv
    <3>4. /\ Len(chunks) <= sequence' + 1 /\ Len(chunks) # sequence' + 1
          /\ Len(chunks) = sequence' => Samples = emitted - 0
      BY <1>0, <3>1, <3>3
    <3> QED BY <2>0, <3>1, <3>2, <3>4 DEF TakenInv
  <2>3. CASE ~(Publish \/ Accepted)
    <3>1. /\ sequence' = sequence /\ emitted' - piece' = emitted - piece
          /\ pc' = "accept" <=> pc = "accept"
          /\ pc = "accept" => emitted' = emitted
      BY <1>2, <2>0, <2>3, RowsInHand
    <3>2. topic' = topic /\ Mine' = Mine
      BY <1>2, <2>0, <2>3, TopicIsKept DEF Mine
    <3> QED BY <1>0, <2>0, <3>1, <3>2 DEF TakenInv
  <2> QED BY <2>1, <2>2, <2>3
<1>3. CASE ~SendGoal /\ Executor
  <2>0. /\ Begun /\ current # 0
        /\ UNCHANGED <<current, pc, topic, Mine, sequence, piece, emitted>>
    BY <1>0, <1>3, BegunBefore, ExecutorSteps
       DEF thoughts, thread, messages, queue, Mine, Begun, ThreadInv, Streaming
  <2>1. CASE Serves
    <3> PICK q \in Sessions : ServeGoal(q)
      BY <2>1 DEF Serves
    <3>1. /\ goals[q] = "sent" /\ UNCHANGED <<chunks, Samples>>
          /\ \/ server = "idle" /\ session' = q
             \/ UNCHANGED session
      BY DEF ServeGoal, Reserves, Samples
    <3>2. CASE session' = session
      BY <1>0, <2>0, <3>1, <3>2 DEF TakenInv
    <3>3. CASE server = "idle" /\ session' = q
      <4>1. chunks = << >> /\ Samples = 0 /\ Len(chunks) = 0
        BY <1>0, <3>3 DEF SessionInv, Samples
      <4>2. q = current
        BY <2>0, <3>3
      <4>3. pc = "response"
        BY <1>0, <2>0, <3>1, <4>2 DEF SessionInv, Begun
      <4>4. sequence = 0 /\ piece = 0 /\ emitted = 0
        BY <1>0, <2>0, <4>3 DEF ThreadInv, Streaming
      <4> QED BY <2>0, <3>1, <4>1, <4>3, <4>4 DEF TakenInv
    <3> QED BY <3>1, <3>2, <3>3
  <2>2. CASE Arms
    <3>1. /\ UNCHANGED <<session, chunks>>
      BY <1>0, <2>2 DEF Arms, SessionInv
    <3> QED BY <1>0, <2>0, <3>1 DEF TakenInv, Samples
  <2>3. CASE Ends
    <3>1. session' = 0
      BY <2>3 DEF Ends, EndSession
    <3> QED BY <2>0, <3>1
  <2>4. CASE Execute
    BY <1>0, <2>0, <2>4 DEF Execute, TakenInv, Samples
  <2>5. CASE Writes
    BY <1>0, <2>0, <2>5 DEF Writes, TakenInv, Samples
  <2> QED BY <1>3, <2>1, <2>2, <2>3, <2>4, <2>5, ExecutorSteps
<1>4. CASE ~SendGoal /\ Take
  <2>0. /\ Begun
        /\ UNCHANGED <<session, current, pc, sequence, piece, emitted>>
        /\ session = current /\ topic[1] \in Message
    BY <1>0, <1>4, BegunBefore, TakeSteps DEF thread, queue
  <2>1. \A i \in Mine' : i + 1 # 1 /\ i + 1 \in Mine /\ topic'[i] = topic[i + 1]
    BY <1>0, <1>4, MineShrinks
  <2>2. CASE UNCHANGED <<chunks, executed>>
    <3>1. Samples' = Samples
      BY <2>2 DEF Samples
    <3> QED BY <1>0, <2>0, <2>1, <2>2, <3>1 DEF TakenInv
  <2>3. CASE Takes(topic[1])
    <3>1. 1 \in Mine
      BY <1>0, <1>4, <2>0, <2>3, MineShrinks DEF Takes
    <3>2. pc = "accept"
      BY <1>0, <2>0, <3>1 DEF TransitInv, Begun, Streaming
    <3>3. Mine' = {}
      <4> SUFFICES ASSUME NEW i \in Mine' PROVE FALSE
        OBVIOUS
      <4> QED BY <1>0, <2>1, <3>1, <3>2 DEF TransitInv
    <3>4. Len(chunks) = sequence /\ Samples + topic[1].samples = emitted
      BY <1>0, <2>0, <2>3, <3>1, <3>2 DEF TransitInv, Takes, TakenInv
    <3>5. Len(chunks') = Len(chunks) + 1 /\ Samples' = Samples + topic[1].samples
      BY <1>0, <2>0, <2>3, OneChunkMore DEF Takes, Message
    <3> QED BY <1>0, <2>0, <3>2, <3>3, <3>4, <3>5 DEF TakenInv
  <2> QED BY <1>0, <1>4, <2>2, <2>3, TakeSteps
<1>5. CASE ~SendGoal /\ ~Quiet /\ ~Executor /\ ~Take
  BY <1>5, NextSteps DEF Goal, Fail, EndGoal, Begun, Streaming
<1> QED BY <1>1, <1>2, <1>3, <1>4, <1>5

LEMMA KnownIsKept ==
    ASSUME IInv, Next
    PROVE  KnownInv'
<1>0. /\ TypeOK /\ SessionInv /\ ThreadInv /\ TransitInv /\ TakenInv
      /\ KnownInv /\ FeedInv
      /\ Samples \in Nat /\ Len(chunks) \in Nat /\ sequence \in Nat
      /\ emitted \in Nat /\ piece \in Nat /\ executed \in Nat
      /\ \A f \in Reports : f \in Feedback
  BY PolicyAssumption, SamplesAreCounted
     DEF IInv, TypeOK, ThreadTypeOK, QueueTypeOK, MessagesTypeOK, SinkTypeOK,
         Reports
<1> SUFFICES ASSUME Begun' PROVE KnownInv'
  BY DEF KnownInv
<1>1. CASE SendGoal
  <2>1. Reports' = {Unseen} /\ pc = "send" /\ pc' = "response"
          /\ UNCHANGED <<current, dry, sequence, piece, emitted>>
    BY <1>1 DEF SendGoal, Reports, queue
  <2>2. sequence = 0 /\ piece = 0 /\ emitted = 0
    BY <1>0, <2>1 DEF ThreadInv, Early, Begun
  <2> QED BY <2>1, <2>2 DEF KnownInv, Unseen
<1>2. CASE ~SendGoal /\ Quiet
  <2>0. /\ Begun /\ dry' = dry /\ current' = current
    BY <1>2, BegunBefore
  <2>1. CASE Publish
    <3>1. /\ pc = "emit" /\ pc' = "accept"
          /\ UNCHANGED <<sequence, emitted, Reports>>
      BY <2>1 DEF Publish, queue, Reports
    <3>2. \A f \in Reports : f.accepted = sequence
      BY <1>0, <2>0, <3>1 DEF KnownInv
    <3> QED BY <1>0, <3>1, <3>2 DEF KnownInv
  <2>2. CASE Accepted
    <3>1. /\ sequence' = sequence + 1 /\ piece' = 0
          /\ UNCHANGED <<emitted, Reports>>
      <4>1. piece = 0
        BY <1>0, <2>2 DEF ThreadInv, Accepted
      <4> QED BY <2>2, <4>1 DEF Accepted, queue, messages, Reports
    <3>2. /\ pc' = "stream" /\ seen.accepted = sequence + 1
          /\ seen.executed + seen.queued = emitted
      BY <2>2, AcceptedIsTaken DEF Begun, Streaming
    <3>3. \A f \in Reports : f.accepted >= sequence + 1
      BY <1>0, <3>2 DEF FeedInv, Reports, Feedback
    <3>4. \A f \in Reports : f.accepted = sequence + 1
                               /\ f.executed + f.queued = emitted
      <4> SUFFICES ASSUME NEW f \in Reports
                   PROVE  f.accepted = sequence + 1
                            /\ f.executed + f.queued = emitted
        OBVIOUS
      <4>1. f.accepted \in Nat /\ f.accepted <= sequence + 1
        BY <1>0, <2>0 DEF KnownInv, Feedback
      <4>2. f.accepted = sequence + 1
        BY <1>0, <3>3, <4>1
      <4> QED BY <2>0, <1>0, <4>2 DEF KnownInv
    <3> QED BY <1>0, <3>1, <3>2, <3>4 DEF KnownInv
  <2>3. CASE ~(Publish \/ Accepted)
    <3>1. /\ sequence' = sequence /\ emitted' - piece' = emitted - piece
          /\ pc' = "accept" <=> pc = "accept"
          /\ pc = "accept" => emitted' = emitted
      BY <1>2, <2>0, <2>3, RowsInHand
    <3>2. topic' = topic /\ Mine' = Mine
      BY <1>2, <2>0, <2>3, TopicIsKept DEF Mine
    <3>3. CASE Report
      <4> DEFINE now == [ready |-> TRUE, accepted |-> Len(chunks),
                         executed |-> executed, queued |-> Samples - executed]
      <4>1. /\ session = current /\ Reports' \subseteq Reports \cup {now}
        BY <3>3 DEF Report, Reports
      <4>2. seen.accepted <= Len(chunks) /\ seen.accepted \in Nat
        BY <1>0, <2>0, <4>1 DEF FeedInv, Reports, ThreadInv, Feedback, Begun,
                                Streaming
      <4>3. now.executed + now.queued = Samples /\ now.accepted = Len(chunks)
        BY <1>0
      <4> HIDE DEF now
      <4>4. /\ now.accepted <= sequence + 1
            /\ now.accepted = sequence + 1 =>
                 /\ pc = "accept" /\ Mine = {}
                 /\ now.executed + now.queued = emitted
        BY <1>0, <2>0, <4>1, <4>3 DEF TakenInv
      <4>5. pc # "accept" => Len(chunks) = sequence
        BY <1>0, <2>0, <4>1, <4>2 DEF TakenInv, KnownInv, Reports
      <4>6. pc # "accept" => now.accepted = sequence
                               /\ now.executed + now.queued = emitted - piece
        BY <1>0, <2>0, <4>1, <4>3, <4>5 DEF TakenInv
      <4>7. \A f \in Reports :
              /\ f.accepted <= sequence + 1
              /\ f.accepted = sequence + 1 =>
                   pc = "accept" /\ Mine = {} /\ f.executed + f.queued = emitted
              /\ pc # "accept" => f.accepted = sequence
                                    /\ f.executed + f.queued = emitted - piece
        BY <1>0, <2>0 DEF KnownInv
      <4> QED BY <3>1, <3>2, <4>1, <4>4, <4>6, <4>7 DEF KnownInv
    <3>4. CASE ~Report
      <4>1. Reports' \subseteq Reports
        BY <1>2, <2>3, <3>4 DEF Quiet, Cancel, Snapshot, Infer, Response, Ready,
           Observe, Predict, Refill, MakeRoom, Emit, EmitNothing, AwaitResult,
           Deliver, messages, Reports
      <4> QED BY <1>0, <2>0, <3>1, <3>2, <4>1 DEF KnownInv
    <3> QED BY <3>3, <3>4
  <2> QED BY <2>1, <2>2, <2>3
<1>3. CASE ~SendGoal /\ Executor
  <2>1. /\ Begun
        /\ UNCHANGED <<current, pc, Mine, sequence, piece, emitted, Reports>>
    BY <1>3, BegunBefore, ExecutorSteps
       DEF thoughts, thread, messages, queue, Mine, Reports
  <2> QED BY <1>0, <2>1 DEF KnownInv
<1>4. CASE ~SendGoal /\ Take
  <2>1. /\ Begun
        /\ UNCHANGED <<current, pc, sequence, piece, emitted, Reports>>
    BY <1>0, <1>4, BegunBefore, TakeSteps DEF thread, queue, Reports
  <2>2. Mine = {} => Mine' = {}
    BY <1>0, <1>4, MineShrinks
  <2> QED BY <1>0, <2>1, <2>2 DEF KnownInv
<1>5. CASE ~SendGoal /\ ~Quiet /\ ~Executor /\ ~Take
  BY <1>5, NextSteps DEF Goal, Fail, EndGoal, Begun, Streaming
<1> QED BY <1>1, <1>2, <1>3, <1>4, <1>5

LEMMA FinalIsKept ==
    ASSUME IInv, Next
    PROVE  FinalInv'
<1>0. /\ TypeOK /\ SinkTypeOK /\ SessionInv /\ ThreadInv /\ TransitInv
      /\ FinalInv
  BY DEF IInv, TypeOK
<1> SUFFICES ASSUME Begun' PROVE FinalInv'
  BY DEF FinalInv
<1>1. CASE SendGoal
  <2>1. /\ pc = "send" /\ current # 0 /\ goals[current] = "none"
        /\ goals' = [goals EXCEPT ![current] = "sent"]
        /\ UNCHANGED <<session, chunks, current, topic>>
    BY <1>0, <1>1 DEF SendGoal, SessionInv, ThreadInv, Early
  <2>2. session # current /\ Mine' = {} /\ goals'[current] # "succeeded"
    BY <1>0, <2>1, CurrentIsSession DEF SessionInv, TransitInv, Mine, Early,
                                        SinkTypeOK
  <2> QED BY <2>1, <2>2 DEF FinalInv
<1>2. CASE ~SendGoal /\ Quiet
  <2>0. /\ Begun /\ dry' = dry /\ current' = current
        /\ UNCHANGED <<session, goals, FinalReceived>>
    BY <1>2, BegunBefore, QuietSteps DEF sink, FinalReceived
  <2>1. CASE Publish
    <3>1. /\ pc = "emit" /\ pc' = "accept" /\ Complete' = Complete
          /\ \A i \in Mine' : topic'[i].final = Complete
      BY <2>1, OneMessageMore DEF Publish, queue, Complete
    <3> QED BY <1>0, <2>0, <3>1 DEF FinalInv
  <2>2. CASE Accepted
    <3>1. ~Complete /\ pc = "accept"
      BY <2>2, AcceptedIsTaken DEF Begun, Streaming
    <3>2. topic' = topic /\ Mine' = Mine
      BY <2>0, <2>2 DEF Accepted, messages, Mine
    <3> QED BY <1>0, <2>0, <3>1, <3>2 DEF FinalInv
  <2>3. CASE ~(Publish \/ Accepted)
    <3>1. topic' = topic /\ Mine' = Mine
      BY <1>2, <2>0, <2>3, TopicIsKept DEF Mine
    <3>2. CASE pc = "accept"
      <4>1. pc' = "accept" /\ Complete' = Complete
        <5>1. pc' = "accept"
          BY <1>2, <2>0, <2>3, <3>2, RowsInHand
        <5>2. UNCHANGED queue
          BY <1>2, <2>3, <3>2 DEF Quiet, Cancel, Snapshot, Infer, Response,
             Ready, Observe, Predict, Refill, MakeRoom, Emit, EmitNothing,
             AwaitResult, Report, Deliver
        <5> QED BY <5>1, <5>2 DEF queue, Complete
      <4> QED BY <1>0, <2>0, <3>1, <4>1 DEF FinalInv
    <3>3. CASE pc # "accept"
      <4>1. Mine = {}
        BY <1>0, <2>0, <3>3 DEF TransitInv, Begun, Streaming
      <4> QED BY <1>0, <2>0, <3>1, <3>3, <4>1 DEF FinalInv
    <3> QED BY <3>2, <3>3
  <2> QED BY <2>1, <2>2, <2>3
<1>3. CASE ~SendGoal /\ Executor
  <2>0. /\ Begun /\ current # 0 /\ current \in Sessions /\ current \notin dry
        /\ UNCHANGED <<current, pc, topic, Mine, Complete>>
    BY <1>0, <1>3, BegunBefore, ExecutorSteps, CurrentIsSession
       DEF thoughts, thread, messages, queue, Mine, Begun, ThreadInv,
           Streaming, Complete
  <2>1. CASE Serves
    <3> PICK q \in Sessions : ServeGoal(q)
      BY <2>1 DEF Serves
    <3>1. /\ UNCHANGED FinalReceived
          /\ \/ server = "idle" /\ session' = q
             \/ UNCHANGED session
          /\ \/ goals' = [goals EXCEPT ![q] = "accepted"]
             \/ goals' = [goals EXCEPT ![q] = "rejected"]
      BY DEF ServeGoal, Reserves, FinalReceived
    <3>2. goals'[current] = "succeeded" => goals[current] = "succeeded"
      BY <1>0, <2>0, <3>1 DEF SinkTypeOK
    <3>3. session' = current /\ FinalReceived' => session = current /\ FinalReceived
      BY <1>0, <3>1 DEF SessionInv, FinalReceived
    <3> QED BY <1>0, <2>0, <3>2, <3>3 DEF FinalInv
  <2>2. CASE Arms
    <3>1. ~FinalReceived' /\ UNCHANGED goals
      BY <2>2 DEF Arms, FinalReceived
    <3> QED BY <1>0, <2>0, <3>1 DEF FinalInv
  <2>3. CASE Ends
    <3> PICK status \in Ended :
               /\ EndSession(status)
               /\ status = "succeeded" =>
                    server # "arming" /\ (session \in dry \/ FinalReceived)
      BY <2>3 DEF Ends
    <3>1. ~FinalReceived'
      BY DEF EndSession, FinalReceived
    <3>2. goals'[current] = "succeeded" /\ goals[current] # "succeeded" =>
            session = current /\ FinalReceived
      BY <1>0, <2>0 DEF EndSession, SinkTypeOK
    <3>3. goals'[current] = "succeeded" => pc = "accept" /\ Complete
      BY <1>0, <2>0, <3>2 DEF FinalInv
    <3> QED BY <1>0, <2>0, <3>1, <3>3 DEF FinalInv
  <2>4. CASE Execute
    BY <1>0, <2>0, <2>4 DEF Execute, FinalInv, FinalReceived
  <2>5. CASE Writes
    BY <1>0, <2>0, <2>5 DEF Writes, FinalInv, FinalReceived
  <2> QED BY <1>3, <2>1, <2>2, <2>3, <2>4, <2>5, ExecutorSteps
<1>4. CASE ~SendGoal /\ Take
  <2>0. /\ Begun /\ topic[1] \in Message
        /\ UNCHANGED <<goals, session, current, pc, Complete>>
    BY <1>0, <1>4, BegunBefore, TakeSteps DEF thread, queue, Complete
  <2>1. \A i \in Mine' : i + 1 \in Mine /\ topic'[i] = topic[i + 1]
    BY <1>0, <1>4, MineShrinks
  <2>2. \A i \in Mine' : topic'[i].final => Complete
    BY <1>0, <2>0, <2>1 DEF FinalInv
  <2>3. CASE UNCHANGED <<chunks, executed>>
    <3>1. FinalReceived' = FinalReceived
      BY <2>3 DEF FinalReceived
    <3> QED BY <1>0, <2>0, <2>2, <3>1 DEF FinalInv
  <2>4. CASE Takes(topic[1])
    <3>1. FinalReceived' <=> topic[1].final
      BY <1>0, <2>0, <2>4, OneChunkMore DEF Takes, Message
    <3>2. session = current => 1 \in Mine
      BY <1>0, <1>4, <2>4, MineShrinks DEF Takes
    <3>3. session = current => pc = "accept"
      BY <1>0, <2>0, <3>2 DEF TransitInv, Begun, Streaming
    <3> QED BY <1>0, <2>0, <2>2, <3>1, <3>2, <3>3 DEF FinalInv
  <2> QED BY <1>0, <1>4, <2>3, <2>4, TakeSteps
<1>5. CASE ~SendGoal /\ ~Quiet /\ ~Executor /\ ~Take
  BY <1>5, NextSteps DEF Goal, Fail, EndGoal, Begun, Streaming
<1> QED BY <1>1, <1>2, <1>3, <1>4, <1>5

-----------------------------------------------------------------------------
(* Rows                                                                    *)

LEMMA PredictionIsTyped ==
    ASSUME NEW step \in Nat, NEW rows \in Predictions(step)
    PROVE  /\ rows \in Seq(Row) /\ rows # << >> /\ 0 < Len(rows)
           /\ \A i \in DOMAIN rows : rows[i].step = step + i - 1
<1> PICK from \in {2, PredictionRows + 1} :
      rows = [i \in 1 .. PredictionRows |->
                [step |-> step + i - 1, close |-> i >= from]]
  BY DEF Predictions
<1> DEFINE row(i) == [step |-> step + i - 1, close |-> i >= from]
<1>1. PredictionRows \in Nat /\ PredictionRows > 0
  BY PolicyAssumption
<1>2. \A i \in 1 .. PredictionRows : row(i) \in Row /\ row(i).step = step + i - 1
  BY <1>1 DEF Row
<1>3. rows = [i \in 1 .. PredictionRows |-> row(i)]
  OBVIOUS
<1> HIDE DEF row
<1>6. rows \in Seq(Row)
  <2>1. [i \in 1 .. PredictionRows |-> row(i)] \in Seq(Row)
    BY <1>1, <1>2, IsASeq
  <2> QED BY <1>3, <2>1
<1>4. Len(rows) = PredictionRows /\ DOMAIN rows = 1 .. PredictionRows
  BY <1>1, <1>3, <1>6, LenProperties
<1>5. rows # << >>
  BY <1>1, <1>4, EmptySeq
<1> QED BY <1>1, <1>2, <1>3, <1>4, <1>5, <1>6

LEMMA SegmentRows ==
    ASSUME NEW rows \in Seq(Row), NEW offset \in Nat, offset < Len(rows)
    PROVE  \A j \in DOMAIN Segment(rows, offset) :
             /\ j \in Nat /\ offset + j \in DOMAIN rows
             /\ Segment(rows, offset)[j] = rows[offset + j]
<1> DEFINE n == Least(Len(rows), offset + QueuedSteps)
<1>1. Len(rows) \in Nat /\ offset + QueuedSteps \in Nat
        /\ DOMAIN rows = 1 .. Len(rows)
  BY QueueAssumption, LenProperties
<1>2. n \in Nat /\ n <= Len(rows)
  BY <1>1, LeastOfTwo
<1> HIDE DEF n
<1>3. Segment(rows, offset) = SubSeq(rows, offset + 1, n)
  BY DEF Segment, n
<1>4. \A i \in (offset + 1) .. n : rows[i] \in Row
  <2> TAKE i \in (offset + 1) .. n
  <2>1. i \in 1 .. Len(rows)
    BY <1>1, <1>2
  <2> QED BY <2>1, ElementOfSeq
<1>5. /\ SubSeq(rows, offset + 1, n) \in Seq(Row)
      /\ Len(SubSeq(rows, offset + 1, n)) =
           IF offset + 1 <= n THEN n - (offset + 1) + 1 ELSE 0
      /\ \A j \in 1 .. n - (offset + 1) + 1 :
           SubSeq(rows, offset + 1, n)[j] = rows[offset + 1 + j - 1]
  BY <1>2, <1>4, SubSeqProperties
<1> DEFINE s == SubSeq(rows, offset + 1, n)
<1> HIDE DEF s
<1>6. /\ DOMAIN s \subseteq 1 .. n - (offset + 1) + 1
      /\ \A j \in 1 .. n - (offset + 1) + 1 : s[j] = rows[offset + 1 + j - 1]
  <2>1. DOMAIN s = 1 .. Len(s)
    BY <1>5, LenProperties DEF s
  <2>2. Len(s) = IF offset + 1 <= n THEN n - (offset + 1) + 1 ELSE 0
    BY <1>5 DEF s
  <2>3. 1 .. Len(s) \subseteq 1 .. n - (offset + 1) + 1
    BY <1>2, <2>2
  <2> QED BY <1>5, <2>1, <2>3 DEF s
<1>7. SUFFICES ASSUME NEW j \in 1 .. n - (offset + 1) + 1
               PROVE  /\ j \in Nat /\ offset + j \in DOMAIN rows
                      /\ offset + 1 + j - 1 = offset + j
  BY <1>3, <1>6 DEF s
<1> QED BY <1>1, <1>2

(* The rows from the offset on are as old as the first of them all.        *)
LEMMA SegmentInTime ==
    ASSUME NEW rows \in Seq(Row), NEW offset \in Nat, offset < Len(rows),
           NEW step \in Nat, NEW observed \in Nat, NEW lag \in Nat,
           step + lag >= observed,
           \A i \in DOMAIN rows : rows[i].step = step + i - 1
    PROVE  \A j \in DOMAIN Segment(rows, offset) :
             Segment(rows, offset)[j].step + lag >= observed + offset + j - 1
<1> SUFFICES ASSUME NEW j \in DOMAIN Segment(rows, offset)
             PROVE  Segment(rows, offset)[j].step + lag
                      >= observed + offset + j - 1
  OBVIOUS
<1>1. /\ j \in Nat /\ offset + j \in DOMAIN rows
      /\ Segment(rows, offset)[j] = rows[offset + j]
  BY SegmentRows
<1>2. rows[offset + j].step = step + (offset + j) - 1
  BY <1>1
<1> QED BY <1>1, <1>2

(* What is blended into the tail of rows that are not late, and is not     *)
(* late itself from there on, leaves none late.                            *)
LEMMA BlendedInTime ==
    ASSUME NEW tail \in Seq(Row), NEW segment \in Seq(Row), NEW e \in Nat,
           NEW lag \in Nat,
           \A i \in DOMAIN tail : tail[i].step + lag >= e + i - 1,
           \A j \in DOMAIN segment :
             segment[j].step + lag >= e + Len(tail) + j - 1
    PROVE  \A i \in DOMAIN Blended(tail, segment) :
             Blended(tail, segment)[i].step + lag >= e + i - 1
<1> DEFINE b == Least(BlendSteps, Least(Len(tail), Len(segment)))
           start == Len(tail) - b
           n == Len(tail) + Len(segment) - b
           value(i) == CASE i <= start -> tail[i]
                         [] i > start /\ i <= Len(tail) -> Mix(tail[i], segment[i - start])
                         [] OTHER -> segment[i - start]
<1>1. /\ Len(tail) \in Nat /\ Len(segment) \in Nat /\ BlendSteps \in Nat
      /\ DOMAIN tail = 1 .. Len(tail) /\ DOMAIN segment = 1 .. Len(segment)
  BY QueueAssumption, LenProperties
<1>2. b \in Nat /\ b <= Len(tail) /\ b <= Len(segment)
  <2> DEFINE c == Least(Len(tail), Len(segment))
  <2>1. c \in Nat /\ c <= Len(tail) /\ c <= Len(segment)
    BY <1>1, LeastOfTwo
  <2> HIDE DEF c
  <2>2. Least(BlendSteps, c) \in Nat /\ Least(BlendSteps, c) <= c
    BY <1>1, <2>1, LeastOfTwo
  <2>3. b = Least(BlendSteps, c)
    BY DEF c
  <2> HIDE DEF b
  <2> QED BY <1>1, <2>1, <2>2, <2>3
<1> HIDE DEF b
<1>3. \A i \in 1 .. Len(segment) :
        segment[i].step \in Nat /\ segment[i].step + lag >= e + Len(tail) + i - 1
  <2> SUFFICES ASSUME NEW i \in 1 .. Len(segment)
               PROVE  segment[i].step \in Nat
                        /\ segment[i].step + lag >= e + Len(tail) + i - 1
    OBVIOUS
  <2>1. segment[i] \in Row
    BY ElementOfSeq
  <2> QED BY <1>1, <2>1 DEF Row
<1>4. \A i \in 1 .. Len(tail) :
        tail[i].step \in Nat /\ tail[i].step + lag >= e + i - 1
  <2> SUFFICES ASSUME NEW i \in 1 .. Len(tail)
               PROVE  tail[i].step \in Nat /\ tail[i].step + lag >= e + i - 1
    OBVIOUS
  <2>1. tail[i] \in Row
    BY ElementOfSeq
  <2> QED BY <1>1, <2>1 DEF Row
<1>5. ASSUME NEW i \in 1 .. n PROVE value(i).step + lag >= e + i - 1
  <2>1. CASE i <= start
    <3>1. i \in 1 .. Len(tail)
      BY <1>1, <1>2, <2>1
    <3>2. value(i) = tail[i]
      BY <1>1, <1>2, <2>1
    <3> HIDE DEF value
    <3> QED BY <3>1, <3>2, <1>4
  <2>2. CASE i > start
    <3>1. i - start \in 1 .. Len(segment)
      BY <1>1, <1>2, <2>2
    <3>2. segment[i - start].step + lag >= e + i - 1
      <4>1. /\ segment[i - start].step \in Nat
            /\ segment[i - start].step + lag >= e + Len(tail) + (i - start) - 1
        BY <1>3, <3>1
      <4> QED BY <4>1, <1>1, <1>2
    <3>3. ~(i <= start)
      BY <1>1, <1>2, <2>2
    <3>4. CASE i <= Len(tail)
      <4>1. i \in 1 .. Len(tail)
        BY <1>1, <3>4
      <4>2. value(i) = Mix(tail[i], segment[i - start])
        BY <2>2, <3>3, <3>4
      <4>3. \/ value(i).step = tail[i].step
            \/ value(i).step = segment[i - start].step
        BY <4>2 DEF Mix, Least
      <4> QED BY <1>4, <3>2, <4>1, <4>3
    <3>5. CASE ~(i <= Len(tail))
      BY <2>2, <3>2, <3>3, <3>5
    <3> QED BY <3>4, <3>5
  <2> QED BY <1>1, <1>2, <2>1, <2>2
<1>6. Blended(tail, segment) = [i \in 1 .. n |-> value(i)]
  BY DEF Blended, b
<1> HIDE DEF value, n
<1> QED BY <1>5, <1>6

(* Where a new prediction continues, as it is known while nothing is in    *)
(* hand and nothing under way: at the end of the queue.                    *)
LEMMA FutureStepIsKnown ==
    ASSUME IInv, pc = "stream", ~locked
    PROVE  FutureStep = emitted + Len(raw)
<1>1. Begun /\ piece = 0 /\ hold = 0 /\ emitted \in Nat /\ seen \in Feedback
        /\ Len(raw) \in Nat
  BY LenProperties DEF IInv, ThreadInv, Begun, Streaming, RowsInv, TypeOK,
                       QueueTypeOK, MessagesTypeOK
<1>2. seen.executed + seen.queued = emitted - piece
  BY <1>1 DEF IInv, KnownInv, Reports
<1> QED BY <1>1, <1>2 DEF FutureStep, Feedback

LEMMA RefillIsAligned ==
    ASSUME IInv, Refill
    PROVE  /\ pc = "stream" /\ ~locked
           /\ \E p \in pending :
                /\ p.rows \in Seq(Row) /\ p.id \in Nat
                /\ FutureStep - p.observed \in Nat
                /\ Merge(p.rows, p.id, FutureStep - p.observed)
                /\ \A i \in DOMAIN p.rows :
                     p.rows[i].step = p.step + i - 1
                /\ p.step \in Nat /\ p.observed \in Nat
                /\ p.step + SensorLag >= p.observed
<1>1. pc = "stream" /\ ~locked
  BY DEF Refill, NeedsRefill
<1>2. PICK p \in pending : Merge(p.rows, p.id, FutureStep - p.observed)
  BY DEF Refill
<1>3. /\ p.rows \in Seq(Row) /\ p.id \in Nat
      /\ p.step \in Nat /\ p.observed \in Nat
  BY DEF IInv, TypeOK, MessagesTypeOK, Prediction
<1>4. /\ p.observed <= emitted /\ p.step + SensorLag >= p.observed
      /\ \A i \in DOMAIN p.rows : p.rows[i].step = p.step + i - 1
  BY DEF IInv, PendingInv
<1>5. emitted \in Nat /\ Len(raw) \in Nat
  BY LenProperties DEF IInv, TypeOK, QueueTypeOK
<1>6. FutureStep - p.observed \in Nat
  BY <1>1, <1>3, <1>4, <1>5, FutureStepIsKnown
<1> QED BY <1>1, <1>2, <1>3, <1>4, <1>6

(* The steps that change the queue.                                        *)
LEMMA QueueSteps ==
    ASSUME IInv, Next
    PROVE  Infer \/ Refill \/ Emit \/ UNCHANGED queue
<1>1. ASSUME NEW d \in BOOLEAN, Goal(d) PROVE UNCHANGED queue
  BY <1>1 DEF Goal
<1>2. CASE Fail
  BY <1>2 DEF Fail
<1>3. CASE SendGoal
  BY <1>3 DEF SendGoal
<1>4. CASE Quiet
  BY <1>4 DEF Quiet, Cancel, Snapshot, Response, Ready, Observe, Predict,
     MakeRoom, EmitNothing, Publish, Accepted, AwaitResult, Report, Deliver
<1>5. CASE Executor
  BY <1>5, ExecutorSteps DEF thoughts
<1>6. CASE Take
  BY <1>6, TakeSteps DEF IInv
<1> QED BY <1>1, <1>2, <1>3, <1>4, <1>5, <1>6, NextSteps

(* The first prediction fills the queue from its first row.                *)
LEMMA FirstRows ==
    ASSUME Infer
    PROVE  /\ raw' \in Seq(Row) /\ hold' = 0 /\ emitted' = 0
           /\ lastPrediction' = 1 /\ locked' = FALSE
           /\ phase' = "OPENING" /\ ramp' = 0 /\ confirmed' = 0
           /\ \A i \in DOMAIN raw' : i \in Nat /\ raw'[i].step = i - 1
<1>1. /\ hold' = 0 /\ emitted' = 0 /\ lastPrediction' = 1 /\ locked' = FALSE
      /\ phase' = "OPENING" /\ ramp' = 0 /\ confirmed' = 0
  BY DEF Infer
<1>2. PICK rows \in Predictions(0) : raw' = Segment(rows, 0)
  BY DEF Infer
<1>3. /\ rows \in Seq(Row) /\ 0 < Len(rows)
      /\ \A i \in DOMAIN rows : rows[i].step = 0 + i - 1
  BY PredictionIsTyped
<1>4. raw' \in Seq(Row)
  BY <1>2, <1>3, SegmentType
<1>5. \A j \in DOMAIN raw' :
        j \in Nat /\ 0 + j \in DOMAIN rows /\ raw'[j] = rows[0 + j]
  BY <1>2, <1>3, SegmentRows
<1>6. ASSUME NEW j \in DOMAIN raw' PROVE j \in Nat /\ raw'[j].step = j - 1
  <2>1. j \in Nat /\ 0 + j \in DOMAIN rows /\ raw'[j] = rows[0 + j]
    BY <1>5
  <2>2. 0 + j = j
    BY <2>1
  <2> QED BY <1>3, <2>1, <2>2
<1> QED BY <1>1, <1>4, <1>6

LEMMA QueueIsKept ==
    ASSUME IInv, Next
    PROVE  QueueTypeOK' /\ CloseCanEnd'
<1>0. QueueTypeOK /\ CloseCanEnd
  BY DEF IInv, TypeOK
<1>1. CASE Infer
  BY <1>1, FirstRows DEF QueueTypeOK, CloseCanEnd
<1>2. CASE Refill
  <2> PICK p \in pending :
        /\ p.rows \in Seq(Row) /\ p.id \in Nat
        /\ FutureStep - p.observed \in Nat
        /\ Merge(p.rows, p.id, FutureStep - p.observed)
    BY <1>2, RefillIsAligned
  <2> QED BY <1>0, MergeKeeps
<1>3. CASE Emit
  <2> PICK near \in BOOLEAN : EmitRow(near)
    BY <1>3 DEF Emit
  <2> QED BY <1>0, EmitKeeps
<1>4. CASE UNCHANGED queue
  BY <1>0, <1>4 DEF queue, QueueTypeOK, CloseCanEnd
<1> QED BY <1>1, <1>2, <1>3, <1>4, QueueSteps

LEMMA RowsAreKept ==
    ASSUME IInv, Next
    PROVE  RowsInv'
<1>0. /\ QueueTypeOK /\ RowsInv /\ SensorLag \in Nat
      /\ raw \in Seq(Row) /\ emitted \in Nat /\ Len(raw) \in Nat
      /\ DOMAIN raw = 1 .. Len(raw)
  BY PolicyAssumption, LenProperties DEF IInv, TypeOK, QueueTypeOK
<1> SUFFICES ASSUME ~locked' PROVE RowsInv'
  BY DEF RowsInv
<1>1. CASE Infer
  <2>1. hold' = 0 /\ emitted' = 0
          /\ \A i \in DOMAIN raw' : i \in Nat /\ raw'[i].step = i - 1
    BY <1>1, FirstRows
  <2> QED BY <1>0, <2>1 DEF RowsInv
<1>2. CASE Refill
  <2>0. /\ pc = "stream" /\ ~locked
    BY <1>2, RefillIsAligned
  <2> PICK p \in pending :
        /\ p.rows \in Seq(Row) /\ p.id \in Nat
        /\ FutureStep - p.observed \in Nat
        /\ Merge(p.rows, p.id, FutureStep - p.observed)
        /\ \A i \in DOMAIN p.rows : p.rows[i].step = p.step + i - 1
        /\ p.step \in Nat /\ p.observed \in Nat
        /\ p.step + SensorLag >= p.observed
    BY <1>2, RefillIsAligned
  <2>6. FutureStep = emitted + Len(raw)
    BY <2>0, FutureStepIsKnown
  <2> DEFINE offset == emitted + Len(raw) - p.observed
  <2>1. UNCHANGED <<hold, emitted>> /\ hold = 0
          /\ (raw' = raw \/ (/\ ~(offset >= Len(p.rows))
                             /\ raw' = Blended(raw, Segment(p.rows, offset))))
    BY <1>0, <2>0, <2>6 DEF Merge, RowsInv
  <2>2. offset \in Nat /\ p.observed + offset = emitted + Len(raw)
    BY <1>0, <2>6
  <2> HIDE DEF offset
  <2>3. \A i \in DOMAIN raw : raw[i].step + SensorLag >= emitted + i - 1
    BY <1>0, <2>0 DEF RowsInv
  <2>4. CASE raw' = raw
    BY <2>1, <2>3, <2>4 DEF RowsInv
  <2>5. CASE /\ ~(offset >= Len(p.rows))
             /\ raw' = Blended(raw, Segment(p.rows, offset))
    <3>1. offset < Len(p.rows)
      BY <2>2, <2>5, LenProperties
    <3> DEFINE segment == Segment(p.rows, offset)
    <3>2. segment \in Seq(Row)
      BY <2>2, <3>1, SegmentType
    <3>3. \A j \in DOMAIN segment :
            segment[j].step + SensorLag >= emitted + Len(raw) + j - 1
      <4>1. \A j \in DOMAIN segment :
              segment[j].step + SensorLag >= p.observed + offset + j - 1
        BY <1>0, <2>2, <3>1, SegmentInTime
      <4> QED BY <2>2, <4>1
    <3> HIDE DEF segment
    <3>4. \A i \in DOMAIN Blended(raw, segment) :
            Blended(raw, segment)[i].step + SensorLag >= emitted + i - 1
      BY <1>0, <2>3, <3>2, <3>3, BlendedInTime
    <3>5. raw' = Blended(raw, segment)
      BY <2>5 DEF segment
    <3> QED BY <2>1, <3>4, <3>5 DEF RowsInv
  <2> QED BY <2>1, <2>4, <2>5
<1>3. CASE Emit
  <2> PICK near \in BOOLEAN : EmitRow(near)
    BY <1>3 DEF Emit
  <2>1. ~locked /\ emitted' = emitted + 1
    BY DEF EmitRow
  <2>2. hold = 0 /\ raw # << >> /\ raw' = Tail(raw) /\ hold' = 0
    <3>1. hold = 0
      BY <1>0, <2>1 DEF RowsInv
    <3>2. raw # << >> /\ raw' = Tail(raw)
      BY <3>1 DEF EmitRow, Emits
    <3>3. ~(phase = "OPENING" /\ phase' # "OPENING")
      BY DEF EmitRow
    <3>4. hold' = 0
      BY <3>1, <3>3 DEF EmitRow
    <3> QED BY <3>1, <3>2, <3>4
  <2>3. \A i \in DOMAIN raw' : i + 1 \in DOMAIN raw /\ raw'[i] = raw[i + 1]
          /\ i \in Nat
    <3>1. Tail(raw) \in Seq(Row)
            /\ \A i \in DOMAIN Tail(raw) :
                 i + 1 \in DOMAIN raw /\ i + 1 # 1 /\ Tail(raw)[i] = raw[i + 1]
      BY <1>0, <2>2, TailOf
    <3>2. \A i \in DOMAIN Tail(raw) : i \in Nat
      BY <3>1, LenProperties
    <3> QED BY <2>2, <3>1, <3>2
  <2>4. \A i \in DOMAIN raw : raw[i].step + SensorLag >= emitted + i - 1
    BY <1>0, <2>1 DEF RowsInv
  <2>5. ASSUME NEW i \in DOMAIN raw'
        PROVE  raw'[i].step + SensorLag >= emitted' + i - 1
    <3>1. raw[i + 1].step + SensorLag >= emitted + (i + 1) - 1
      BY <2>3, <2>4
    <3>2. raw'[i] = raw[i + 1] /\ i \in Nat
      BY <2>3
    <3>3. emitted + (i + 1) - 1 = emitted' + i - 1
      BY <1>0, <2>1, <3>2
    <3> QED BY <3>1, <3>2, <3>3
  <2> QED BY <2>2, <2>5 DEF RowsInv
<1>4. CASE UNCHANGED queue
  BY <1>0, <1>4 DEF queue, RowsInv
<1> QED BY <1>1, <1>2, <1>3, <1>4, QueueSteps

(* An observation is of what was executed when it was asked for, or of     *)
(* something a little older.                                               *)
LEMMA ObservedInTime ==
    ASSUME IInv, Observe
    PROVE  \E step \in Nat :
             /\ pending' = pending \cup
                  {[id |-> predictions + 1, step |-> step,
                    observed |-> seen.executed, rows |-> << >>]}
             /\ seen.executed \in Nat /\ seen.executed <= emitted
             /\ step + SensorLag >= seen.executed
<1> DEFINE now == IF session = current THEN executed ELSE seen.executed
<1>0. /\ pc = "stream" /\ Begun /\ current # 0 /\ piece = 0
  BY DEF Observe, IInv, ThreadInv, Begun, Streaming
<1>1. /\ seen \in Feedback /\ executed \in Nat /\ emitted \in Nat
      /\ SensorLag \in Nat
  <2>1. TypeOK /\ Samples \in Nat
    BY SamplesAreCounted DEF IInv
  <2> QED BY <2>1, PolicyAssumption
          DEF TypeOK, SinkTypeOK, QueueTypeOK, MessagesTypeOK
<1>2. now \in Nat /\ seen.executed <= now
  BY <1>0, <1>1 DEF IInv, FeedInv, Reports, Feedback
<1>3. seen.executed <= emitted
  <2>1. seen.executed + seen.queued = emitted - piece
    BY <1>0 DEF IInv, KnownInv, Reports
  <2> QED BY <1>0, <1>1, <2>1 DEF Feedback
<1>4. PICK step \in FreshSteps :
        pending' = pending \cup
          {[id |-> predictions + 1, step |-> step,
            observed |-> seen.executed, rows |-> << >>]}
  BY DEF Observe
<1>5. step \in Nat /\ step + SensorLag >= now
  <2>1. step \in 0 .. now /\ step + SensorLag >= now
    BY DEF FreshSteps
  <2> QED BY <1>2, <2>1
<1>6. seen.executed \in Nat
  BY <1>1 DEF Feedback
<1> HIDE DEF now
<1>7. step + SensorLag >= seen.executed
  BY <1>1, <1>2, <1>5, <1>6
<1> QED BY <1>3, <1>4, <1>5, <1>6, <1>7

(* What pending predictions there are after a step.                        *)
LEMMA PendingSteps ==
    ASSUME IInv, Next
    PROVE  pending' \subseteq pending \/ Observe \/ Predict
<1>1. ASSUME NEW d \in BOOLEAN, Goal(d) PROVE pending' = pending
  BY <1>1 DEF Goal
<1>2. CASE Fail
  BY <1>2 DEF Fail, EndGoal
<1>3. CASE SendGoal
  BY <1>3 DEF SendGoal, inference
<1>4. CASE Quiet
  BY <1>4 DEF Quiet, Cancel, Snapshot, Infer, Response, Ready, Refill,
     MakeRoom, Emit, EmitNothing, Publish, Accepted, AwaitResult, EndGoal,
     Report, Deliver, inference
<1>5. CASE Executor
  BY <1>5, ExecutorSteps DEF thoughts, inference
<1>6. CASE Take
  BY <1>6, TakeSteps DEF IInv, inference
<1> QED BY <1>1, <1>2, <1>3, <1>4, <1>5, <1>6, NextSteps

LEMMA PendingIsKept ==
    ASSUME IInv, Next
    PROVE  PendingInv'
<1>0. /\ TypeOK /\ PendingInv /\ ThreadInv /\ emitted \in Nat
      /\ \A p \in pending : p.observed \in Nat /\ p.step \in Nat
  BY DEF IInv, TypeOK, QueueTypeOK, MessagesTypeOK, Prediction
<1>1. CASE Observe
  <2> PICK step \in Nat :
        /\ pending' = pending \cup
             {[id |-> predictions + 1, step |-> step,
               observed |-> seen.executed, rows |-> << >>]}
        /\ seen.executed \in Nat /\ seen.executed <= emitted
        /\ step + SensorLag >= seen.executed
    BY <1>1, ObservedInTime
  <2>1. emitted' = emitted
    BY <1>1 DEF Observe, queue
  <2> QED BY <1>0, <2>1 DEF PendingInv
<1>2. CASE Predict
  <2> PICK p \in pending : \E rows \in Predictions(p.step) :
        pending' = {[p EXCEPT !.rows = rows]}
    BY <1>2 DEF Predict
  <2> PICK rows \in Predictions(p.step) : pending' = {[p EXCEPT !.rows = rows]}
    OBVIOUS
  <2>1. emitted' = emitted
    BY <1>2 DEF Predict, queue
  <2>2. \A i \in DOMAIN rows : rows[i].step = p.step + i - 1
    BY <1>0, PredictionIsTyped
  <2>3. p \in Prediction
    BY <1>0 DEF TypeOK, MessagesTypeOK
  <2>4. \A q \in pending' : /\ q.observed = p.observed /\ q.step = p.step
                           /\ q.rows = rows
    BY <2>3 DEF Prediction
  <2> QED BY <1>0, <2>1, <2>2, <2>4 DEF PendingInv
<1>3. CASE ~Observe /\ ~Predict
  <2>1. pending' \subseteq pending
    BY <1>3, PendingSteps
  <2>2. CASE Infer
    <3>1. pending = {}
      BY <1>0, <2>2 DEF Infer, ThreadInv, Streaming
    <3> QED BY <2>1, <3>1 DEF PendingInv
  <2>3. CASE ~Infer
    <3>1. emitted' \in Nat /\ emitted' >= emitted
      <4>1. CASE Refill
        BY <1>0, <4>1 DEF Refill, Merge
      <4>2. CASE Emit
        BY <1>0, <4>2 DEF Emit, EmitRow
      <4>3. CASE UNCHANGED queue
        BY <1>0, <4>3 DEF queue
      <4> QED BY <2>3, <4>1, <4>2, <4>3, QueueSteps
    <3>2. ASSUME NEW p \in pending PROVE p.observed <= emitted'
      <4>1. p.observed \in Nat /\ p.observed <= emitted
        BY <1>0 DEF PendingInv
      <4> QED BY <1>0, <3>1, <4>1
    <3> QED BY <1>0, <2>1, <3>2 DEF PendingInv
  <2> QED BY <2>2, <2>3
<1> QED BY <1>1, <1>2, <1>3

-----------------------------------------------------------------------------
(* Types                                                                   *)

LEMMA EmptySamples ==
    /\ << >> \in Seq(Chunk)
    /\ chunks = << >> /\ executed = 0 => executed \in 0 .. Samples
    /\ chunks' = << >> /\ executed' = 0 => executed' \in 0 .. Samples'
<1>1. << >> \in Seq(Chunk)
  BY EmptySeq
<1>2. chunks = << >> => Samples = 0
  BY DEF Samples
<1>3. chunks' = << >> => Samples' = 0
  BY DEF Samples
<1> QED BY <1>1, <1>2, <1>3

LEMMA SinkStaysTyped ==
    ASSUME IInv, Next
    PROVE  SinkTypeOK'
<1>0. /\ TypeOK /\ SinkTypeOK /\ SessionInv /\ ThreadInv
      /\ Samples \in Nat /\ current \in Nat
      /\ current # 0 => current \in Sessions
  BY SamplesAreCounted, CurrentIsSession DEF IInv, TypeOK
<1> USE DEF SinkTypeOK
<1>1. ASSUME NEW d \in BOOLEAN, Goal(d) PROVE SinkTypeOK'
  <2>1. current + 1 \in Sessions
    BY <1>0, <1>1, PolicyAssumption DEF Goal, Sessions
  <2> QED BY <1>0, <1>1, <2>1 DEF Goal, Samples
<1>2. CASE pc # "idle" /\ Fail
  BY <1>0, <1>2 DEF Fail, AskCancel, ThreadInv, Samples
<1>3. CASE SendGoal
  BY <1>0, <1>3 DEF SendGoal, Samples
<1>4. CASE Quiet
  BY <1>0, <1>4, QuietSteps DEF sink, Samples
<1>5. CASE Executor
  <2>0. ASSUME NEW status \in Ended, server # "idle", EndSession(status),
               replay' \in Seq(Chunk)
        PROVE  SinkTypeOK'
    <3>1. goals' = [goals EXCEPT ![session] = status] /\ session \in Sessions
      BY <1>0, <2>0 DEF EndSession, SessionInv
    <3>2. /\ chunks' = << >> /\ executed' = 0 /\ failure' = FALSE
          /\ server' = "idle" /\ session' = 0 /\ UNCHANGED <<live, asked, dry>>
      BY <2>0 DEF EndSession
    <3>3. chunks' \in Seq(Chunk) /\ executed' \in 0 .. Samples'
      BY <3>2, EmptySamples
    <3>4. goals' \in [Sessions -> {"none", "sent", "accepted", "rejected"}
                                    \cup Ended]
      BY <1>0, <2>0, <3>1
    <3> QED BY <1>0, <2>0, <3>2, <3>3, <3>4
  <2>1. ASSUME NEW s \in Sessions, ServeGoal(s) PROVE SinkTypeOK'
    BY <1>0, <2>1 DEF ServeGoal, Samples
  <2>2. CASE Arm
    <3>1. CASE /\ server' = "armed" /\ chunks' = << >> /\ executed' = 0
               /\ failure' = FALSE
               /\ UNCHANGED <<live, goals, asked, session, dry, replay>>
      <4>1. chunks' \in Seq(Chunk) /\ executed' \in 0 .. Samples'
        BY <3>1, EmptySamples
      <4> QED BY <1>0, <3>1, <4>1
    <3>2. CASE EndSession("aborted") /\ UNCHANGED replay
      BY <1>0, <2>0, <2>2, <3>2 DEF Arm, Ended
    <3> QED BY <2>2, <3>1, <3>2 DEF Arm
  <2>3. CASE Execute
    <3>1. /\ executed < Samples /\ executed' = executed + 1
          /\ UNCHANGED <<live, goals, asked, server, session, chunks, failure,
                         dry, replay>>
      BY <2>3 DEF Execute
    <3>2. Samples' = Samples
      BY <3>1 DEF Samples
    <3>3. executed' \in 0 .. Samples
      BY <1>0, <3>1
    <3> QED BY <1>0, <3>1, <3>2, <3>3
  <2>4. CASE Decide
    <3>1. CASE \E status \in Ended : EndSession(status) /\ UNCHANGED replay
      BY <1>0, <2>0, <2>4, <3>1 DEF Decide
    <3>2. CASE /\ server' = "writing"
               /\ UNCHANGED <<live, goals, asked, session, chunks, executed,
                              failure, dry, replay>>
      BY <1>0, <3>2 DEF Samples
    <3> QED BY <2>4, <3>1, <3>2 DEF Decide, Ended
  <2>5. CASE WriteReplay
    <3>1. server # "idle" /\ \E status \in Ended : EndSession(status)
      BY <2>5 DEF WriteReplay, Ended
    <3>2. replay' \in Seq(Chunk)
      BY <1>0, <2>5 DEF WriteReplay
    <3> QED BY <2>0, <3>1, <3>2
  <2> QED BY <1>5, <2>1, <2>2, <2>3, <2>4, <2>5 DEF Executor
<1>6. CASE Take
  <2>1. /\ UNCHANGED <<live, goals, asked, server, session, dry>>
        /\ topic[1] \in Message
        /\ Takes(topic[1]) \/ UNCHANGED <<chunks, executed>>
    BY <1>0, <1>6, TakeSteps
  <2>2. failure' \in BOOLEAN /\ replay' = replay
    BY <1>0, <1>6 DEF Take, TakeChunk, sink
  <2>3. CASE UNCHANGED <<chunks, executed>>
    BY <1>0, <2>1, <2>2, <2>3 DEF Samples
  <2>4. CASE Takes(topic[1])
    <3>1. topic[1].samples \in Nat /\ topic[1].final \in BOOLEAN
      BY <2>1 DEF Message
    <3>2. /\ chunks' \in Seq(Chunk) /\ Samples' = Samples + topic[1].samples
      BY <1>0, <2>4, <3>1, OneChunkMore DEF Takes
    <3>3. executed' \in 0 .. Samples'
      <4>1. executed' = executed \/ executed' = Samples + topic[1].samples
        BY <2>4 DEF Takes
      <4> QED BY <1>0, <3>1, <3>2, <4>1
    <3> QED BY <1>0, <2>1, <2>2, <3>2, <3>3
  <2> QED BY <2>1, <2>3, <2>4
<1> QED BY <1>1, <1>2, <1>3, <1>4, <1>5, <1>6, NextSteps

LEMMA ThreadStaysTyped ==
    ASSUME IInv, Next
    PROVE  ThreadTypeOK'
<1>0. /\ TypeOK /\ ThreadTypeOK /\ ChunkSamples \in Nat /\ MaxSessions \in Nat
      /\ 0 \in 0 .. ChunkSamples
  BY PolicyAssumption DEF IInv, TypeOK
<1> USE DEF ThreadTypeOK, Waits
<1>1. ASSUME NEW d \in BOOLEAN, Goal(d) PROVE ThreadTypeOK'
  <2>1. current + 1 \in Sessions
    BY <1>0, <1>1, CurrentIsSession DEF Goal, Sessions
  <2> QED BY <1>0, <1>1, <2>1 DEF Goal
<1>2. CASE pc # "idle" /\ Fail
  <2>1. /\ pc' = "idle" /\ cancelRequested' = FALSE /\ piece' = 0
        /\ outcome' \in Ended /\ UNCHANGED <<current, sequence>>
    BY <1>2 DEF Fail, EndGoal, Ended
  <2> QED BY <1>0, <2>1
<1>3. CASE SendGoal
  BY <1>0, <1>3 DEF SendGoal
<1>4. CASE Quiet
  <2> USE <1>0 DEF thread
  <2>1. CASE Cancel BY <2>1 DEF Cancel
  <2>2. CASE Snapshot BY <2>2 DEF Snapshot
  <2>3. CASE Infer BY <2>3 DEF Infer
  <2>4. CASE Response BY <2>4 DEF Response
  <2>5. CASE Ready BY <2>5 DEF Ready
  <2>6. CASE Observe BY <2>6 DEF Observe
  <2>7. CASE Predict BY <2>7 DEF Predict
  <2>8. CASE Refill BY <2>8 DEF Refill
  <2>9. CASE MakeRoom BY <2>9 DEF MakeRoom
  <2>10. CASE Emit BY <2>10 DEF Emit
  <2>11. CASE EmitNothing BY <2>11 DEF EmitNothing
  <2>12. CASE Publish BY <2>12 DEF Publish
  <2>13. CASE Accepted BY <2>13 DEF Accepted
  <2>14. CASE AwaitResult
    <3>1. /\ pc' = "idle" /\ cancelRequested' = FALSE /\ piece' = 0
          /\ outcome' \in Ended /\ UNCHANGED <<current, sequence>>
      BY <2>14 DEF AwaitResult, EndGoal
    <3> QED BY <3>1
  <2>15. CASE Report BY <2>15 DEF Report
  <2>16. CASE Deliver BY <2>16 DEF Deliver
  <2> QED BY <1>4, <2>1, <2>2, <2>3, <2>4, <2>5, <2>6, <2>7, <2>8, <2>9,
             <2>10, <2>11, <2>12, <2>13, <2>14, <2>15, <2>16 DEF Quiet
<1>5. CASE Executor
  BY <1>0, <1>5, ExecutorSteps DEF thoughts, thread
<1>6. CASE Take
  BY <1>0, <1>6, TakeSteps DEF thread
<1> QED BY <1>1, <1>2, <1>3, <1>4, <1>5, <1>6, NextSteps

LEMMA MessagesStayTyped ==
    ASSUME IInv, Next
    PROVE  MessagesTypeOK'
<1>0. /\ TypeOK /\ MessagesTypeOK
      /\ Samples \in Nat /\ Len(chunks) \in Nat /\ executed \in 0 .. Samples
  BY SamplesAreCounted DEF IInv, TypeOK, SinkTypeOK
<1> USE DEF MessagesTypeOK
<1>1. ASSUME NEW d \in BOOLEAN, Goal(d) PROVE MessagesTypeOK'
  BY <1>0, <1>1 DEF Goal, messages
<1>2. CASE pc # "idle" /\ Fail
  BY <1>0, <1>2 DEF Fail, EndGoal, messages
<1>3. CASE SendGoal
  <2>1. Unseen \in Feedback
    BY DEF Unseen, Feedback
  <2> QED BY <1>0, <1>3, <2>1 DEF SendGoal, inference
<1>4. CASE Quiet
  <2>1. CASE Observe
    <3> PICK step \in Nat :
          /\ pending' = pending \cup
               {[id |-> predictions + 1, step |-> step,
                 observed |-> seen.executed, rows |-> << >>]}
          /\ seen.executed \in Nat
      BY <2>1, ObservedInTime
    <3>1. [id |-> predictions + 1, step |-> step,
           observed |-> seen.executed, rows |-> << >>] \in Prediction
      BY <1>0, EmptySeq DEF Prediction
    <3>2. pending' \subseteq Prediction
      BY <1>0, <3>1
    <3> QED BY <1>0, <2>1, <3>2 DEF Observe, messages
  <2>2. CASE Predict
    <3> PICK p \in pending : \E rows \in Predictions(p.step) :
          pending' = {[p EXCEPT !.rows = rows]}
      BY <2>2 DEF Predict
    <3> PICK rows \in Predictions(p.step) : pending' = {[p EXCEPT !.rows = rows]}
      OBVIOUS
    <3>1. p \in Prediction /\ p.step \in Nat
      BY <1>0 DEF Prediction
    <3>2. rows \in Seq(Row)
      BY <3>1, PredictionIsTyped
    <3>3. pending' \subseteq Prediction
      BY <3>1, <3>2 DEF Prediction
    <3> QED BY <1>0, <2>2, <3>3 DEF Predict, messages
  <2>3. CASE Publish
    BY <1>0, <2>3, OneMessageMore DEF Publish, inference
  <2>4. CASE Report
    <3>1. [ready |-> TRUE, accepted |-> Len(chunks), executed |-> executed,
           queued |-> Samples - executed] \in Feedback
      BY <1>0 DEF Feedback
    <3> QED BY <1>0, <2>4, <3>1 DEF Report, inference
  <2>5. CASE Deliver
    BY <1>0, <2>5 DEF Deliver, inference
  <2>6. CASE ~(Observe \/ Predict \/ Publish \/ Report \/ Deliver)
    <3>1. UNCHANGED messages
      BY <1>4, <2>6 DEF Quiet, Cancel, Snapshot, Infer, Response, Ready, Refill,
         MakeRoom, Emit, EmitNothing, Accepted, AwaitResult
    <3>2. UNCHANGED predictions /\ pending' \subseteq pending
      BY <1>4, <2>6 DEF Quiet, Cancel, Snapshot, Infer, Response, Ready, Refill,
         MakeRoom, Emit, EmitNothing, Accepted, AwaitResult, EndGoal, inference
    <3> QED BY <1>0, <3>1, <3>2 DEF messages
  <2> QED BY <2>1, <2>2, <2>3, <2>4, <2>5, <2>6
<1>5. CASE Executor
  BY <1>0, <1>5, ExecutorSteps DEF thoughts, inference, messages
<1>6. CASE Take
  BY <1>0, <1>6, TakeSteps DEF inference
<1> QED BY <1>1, <1>2, <1>3, <1>4, <1>5, <1>6, NextSteps

-----------------------------------------------------------------------------
LEMMA InitIInv == Init => IInv
<1> SUFFICES ASSUME Init PROVE IInv
  OBVIOUS
<1> USE DEF Init, SinkInit, QueueInit
<1>1. QueueTypeOK /\ CloseCanEnd
  BY EmptySeq DEF QueueTypeOK, CloseCanEnd
<1>2. Samples = 0 /\ ~FinalReceived /\ Mine = {}
  BY EmptySeq DEF Samples, FinalReceived, Mine
<1>3. SinkTypeOK
  <2>1. chunks \in Seq(Chunk) /\ executed \in 0 .. Samples /\ replay \in Seq(Chunk)
    BY EmptySamples
  <2>2. goals \in [Sessions -> {"none", "sent", "accepted", "rejected"}
                                \cup Ended]
    OBVIOUS
  <2> QED BY <2>1, <2>2 DEF SinkTypeOK
<1>4. ThreadTypeOK
  <2>1. piece \in 0 .. ChunkSamples /\ sequence \in Nat
    BY PolicyAssumption
  <2> QED BY <2>1 DEF ThreadTypeOK, Waits
<1>5. MessagesTypeOK
  BY EmptySeq DEF MessagesTypeOK, Unseen, Feedback
<1>6. SessionInv
  BY PolicyAssumption DEF SessionInv, Early, Streaming, Sessions
<1>7. ThreadInv /\ ~Begun
  BY DEF ThreadInv, Begun, Early, Streaming
<1>8. \A i \in DOMAIN topic : FALSE
  BY EmptySeq
<1>9. StreamInv
  BY <1>8 DEF StreamInv, Fed
<1>10. FeedInv
  BY DEF FeedInv, Reports
<1>11. TransitInv
  BY <1>2, <1>8 DEF TransitInv, Early
<1>12. TakenInv /\ KnownInv /\ FinalInv
  BY <1>7 DEF TakenInv, KnownInv, FinalInv
<1>13. RowsInv
  <2>1. \A i \in DOMAIN raw : FALSE
    BY EmptySeq
  <2> QED BY <2>1 DEF RowsInv
<1>14. PendingInv
  BY DEF PendingInv
<1> QED BY <1>1, <1>3, <1>4, <1>5, <1>6, <1>7, <1>9, <1>10, <1>11, <1>12,
           <1>13, <1>14 DEF IInv, TypeOK

LEMMA StutterIInv == IInv /\ UNCHANGED vars => IInv'
<1> SUFFICES ASSUME IInv, UNCHANGED vars PROVE IInv'
  OBVIOUS
<1>1. UNCHANGED <<sink, queue, thread, inference, messages>>
  BY DEF vars
<1> USE <1>1 DEF sink, queue, thread, inference, messages
<1>2. Mine' = Mine /\ Samples' = Samples /\ FinalReceived' = FinalReceived
        /\ Complete' = Complete /\ Begun' = Begun /\ Reports' = Reports
  BY DEF Mine, Samples, FinalReceived, Complete, Begun, Reports
<1>3. TypeOK'
  BY <1>2 DEF IInv, TypeOK, QueueTypeOK, SinkTypeOK, ThreadTypeOK, MessagesTypeOK
<1>4. CloseCanEnd' /\ SessionInv' /\ ThreadInv'
  BY <1>2 DEF IInv, CloseCanEnd, SessionInv, ThreadInv
<1>5. StreamInv'
  BY DEF IInv, StreamInv, Fed
<1>6. FeedInv' /\ TransitInv'
  BY <1>2 DEF IInv, FeedInv, TransitInv
<1>7. TakenInv' /\ KnownInv' /\ FinalInv'
  BY <1>2 DEF IInv, TakenInv, KnownInv, FinalInv
<1>8. RowsInv' /\ PendingInv'
  BY DEF IInv, RowsInv, PendingInv
<1> QED BY <1>3, <1>4, <1>5, <1>6, <1>7, <1>8 DEF IInv

LEMMA NextIInv == IInv /\ [Next]_vars => IInv'
<1> SUFFICES ASSUME IInv, Next PROVE IInv'
  BY StutterIInv
<1>1. TypeOK' /\ CloseCanEnd'
  BY QueueIsKept, SinkStaysTyped, ThreadStaysTyped, MessagesStayTyped DEF TypeOK
<1> QED BY <1>1, SessionIsKept, StreamIsKept, ThreadIsKept, FeedIsKept,
           TransitIsKept, TakenIsKept, KnownIsKept, FinalIsKept, RowsAreKept,
           PendingIsKept DEF IInv

LEMMA Invariant == Spec => []IInv
  BY InitIInv, NextIInv, PTL DEF Spec

(* The goal's thread, the inference, the feedback, the chunks and what the *)
(* executor has of them keep their types; it never executed more samples   *)
(* than it was given (act_policy_node.py, policy_capture_sink.py).         *)
THEOREM PolicyIsTyped == Spec => []TypeOK
<1>1. IInv => TypeOK
  BY DEF IInv
<1> QED BY <1>1, Invariant, PTL

(* Whatever the session does, once emit begins to close the gripper the    *)
(* rows that are left suffice to end the ramp.                             *)
THEOREM PolicyCanClose == Spec => []CloseCanEnd
<1>1. IInv => CloseCanEnd
  BY DEF IInv
<1> QED BY <1>1, Invariant, PTL

(* _future_step aligns a prediction by feedback that may be old, and still *)
(* no row is commanded later than the step it was predicted for, but for   *)
(* the age of its observation; and between two chunks that feedback counts *)
(* every row that was emitted.                                             *)
THEOREM NoRowIsLate == Spec => []NeverLate
<1>1. IInv => NeverLate
  <2> SUFFICES ASSUME IInv PROVE NeverLate
    OBVIOUS
  <2>1. ~locked =>
          \A i \in DOMAIN raw : raw[i].step + SensorLag >= emitted + i - 1
    BY DEF IInv, RowsInv
  <2>2. pc = "stream" => seen.executed + seen.queued = emitted
    <3> SUFFICES ASSUME pc = "stream"
                 PROVE  seen.executed + seen.queued = emitted
      OBVIOUS
    <3>1. Begun /\ piece = 0
      BY DEF IInv, ThreadInv, Begun, Streaming
    <3>2. seen.executed + seen.queued = emitted - piece
      BY <3>1 DEF IInv, KnownInv, Reports
    <3> QED BY <3>1, <3>2 DEF IInv, TypeOK, QueueTypeOK
  <2> QED BY <2>1, <2>2 DEF NeverLate
<1> QED BY <1>1, Invariant, PTL

(* However a goal ends, a session that has taken chunks and was not        *)
(* finished was asked to cancel (execute's except, _request_executor_cancel). *)
THEOREM StreamsAreEnded == Spec => []EveryStreamIsEnded
<1>1. IInv => EveryStreamIsEnded
  <2> SUFFICES ASSUME IInv, pc = "idle", server = "armed", chunks # << >>
               PROVE  session \in asked
    BY DEF EveryStreamIsEnded
  <2>1. session \in Sessions /\ goals[session] = "accepted"
    BY DEF IInv, SessionInv, TypeOK, SinkTypeOK
  <2>2. Fed(session)
    BY DEF Fed
  <2>3. goals[session] \notin Ended
    BY <2>1 DEF Ended
  <2> QED BY <2>1, <2>2, <2>3 DEF IInv, StreamInv, Streaming
<1> QED BY <1>1, Invariant, PTL

=============================================================================
