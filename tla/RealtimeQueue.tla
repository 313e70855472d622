---------------------------- MODULE RealtimeQueue ----------------------------
(***************************************************************************)
(* The local queue of a learned policy: xlerobot_policy/realtime_queue.py  *)
(* with the gripper governor of postprocess.py.                            *)
(*                                                                         *)
(* Predictions are rows for successive steps.  A new prediction is aligned *)
(* with the end of the queue and blended into its tail; rows leave through *)
(* the governor, which keeps the gripper open until it may close, then     *)
(* closes it over a ramp.  From the moment it starts to close no           *)
(* prediction is taken any more: the row is repeated for a while, then the *)
(* rest of the queue follows.                                              *)
(*                                                                         *)
(* A row is the step it was predicted for and whether it closes the        *)
(* gripper.  The delay before the gripper may close is counted in rows; it *)
(* looks ahead over the whole queue, as the default of 100 rows does.      *)
(***************************************************************************)
EXTENDS Naturals, Sequences

CONSTANTS
    QueuedSteps,  \* queued_action_steps: most rows taken of a prediction
    RefillSteps,  \* refill_threshold_steps
    BlendSteps,
    HoldSteps,    \* close_hold_steps
    RampSteps,    \* close_ramp_steps
    ConfirmSteps, \* close_confirm_steps
    DelaySteps    \* min_close_delay_s, in rows

ASSUME QueueAssumption ==
    /\ {QueuedSteps, RefillSteps, BlendSteps, HoldSteps, DelaySteps}
         \subseteq Nat
    /\ RampSteps \in Nat \ {0} /\ ConfirmSteps \in Nat \ {0}
    /\ RefillSteps > 0 /\ RefillSteps < QueuedSteps

(* The code does not check that the ramp ends within the repetitions; its  *)
(* defaults (8 rows of 30) are such.                                       *)
ASSUME RampAssumption == RampSteps <= HoldSteps + 1

VARIABLES
    raw,            \* rows not yet committed
    hold,           \* _hold_remaining
    emitted,        \* _emitted_samples
    lastPrediction, \* _last_prediction_id plus one
    locked,         \* _locked_after_close
    phase, ramp, confirmed    \* of the governor

queue == <<raw, hold, emitted, lastPrediction, locked, phase, ramp, confirmed>>

Row == [step : Nat, close : BOOLEAN]

QueueInit ==
    /\ raw = << >> /\ hold = 0 /\ emitted = 0 /\ lastPrediction = 0
    /\ locked = FALSE /\ phase = "OPENING" /\ ramp = 0 /\ confirmed = 0

ResetQueue ==
    /\ raw' = << >> /\ hold' = 0 /\ emitted' = 0 /\ lastPrediction' = 0
    /\ locked' = FALSE /\ phase' = "OPENING" /\ ramp' = 0 /\ confirmed' = 0

NeedsRefill == ~locked /\ Len(raw) <= RefillSteps
Complete == locked /\ phase = "CLOSED" /\ hold = 0 /\ raw = << >>

Least(a, b) == IF a <= b THEN a ELSE b

(* Of a blended row both halves count: the earlier step, either intent.    *)
Mix(old, new) == [step |-> Least(old.step, new.step),
                  close |-> old.close \/ new.close]

(* The rows from the offset on; the first of them go into the tail.        *)
Segment(rows, offset) ==
    SubSeq(rows, offset + 1, Least(Len(rows), offset + QueuedSteps))
Blended(tail, segment) ==
    LET b == Least(BlendSteps, Least(Len(tail), Len(segment)))
        start == Len(tail) - b
    IN  [i \in 1 .. Len(tail) + Len(segment) - b |->
           CASE i <= start -> tail[i]
             [] i > start /\ i <= Len(tail) -> Mix(tail[i], segment[i - start])
             [] OTHER -> segment[i - start]]

(* merge_prediction: a prediction that is late or comes after the closing  *)
(* changes nothing; one that ends before the queue does is only counted.   *)
Accepts(id) == ~locked /\ id > lastPrediction
Merge(rows, id, offset) ==
    /\ IF Accepts(id)
       THEN /\ lastPrediction' = id
            /\ raw' = IF offset >= Len(rows) THEN raw
                      ELSE Blended(raw, Segment(rows, offset))
       ELSE UNCHANGED <<lastPrediction, raw>>
    /\ UNCHANGED <<hold, emitted, locked, phase, ramp, confirmed>>

(* One row of emit: a repetition, or the next of the queue; through the    *)
(* governor.  Whether the arm is near its lowest point is data.            *)
Emits == hold > 0 \/ raw # << >>
MayClose(row, rest, near) ==
    /\ near /\ emitted >= DelaySteps
    /\ row.close \/ \E i \in DOMAIN rest : rest[i].close
Ramped == IF ramp + 1 >= RampSteps THEN "CLOSED" ELSE "CLOSING"

(* The governor, at a row that does or does not call for closing.          *)
Govern(closing) ==
    LET count == IF closing THEN confirmed + 1 ELSE 0
    IN  CASE phase = "OPENING" /\ count >= ConfirmSteps ->
               phase' = (IF RampSteps = 1 THEN "CLOSED" ELSE "CLOSING")
                 /\ ramp' = 1 /\ confirmed' = count
          [] phase = "OPENING" /\ count < ConfirmSteps ->
               confirmed' = count /\ UNCHANGED <<phase, ramp>>
          [] phase = "CLOSING" ->
               phase' = Ramped /\ ramp' = ramp + 1 /\ UNCHANGED confirmed
          [] OTHER -> UNCHANGED <<phase, ramp, confirmed>>

(* Mutant: the closing row is not repeated.                                *)
EmitRowOnce(near) ==
    /\ Emits
    /\ raw' = IF hold > 0 THEN raw ELSE Tail(raw)
    /\ emitted' = emitted + 1
    /\ Govern(hold = 0 /\ MayClose(raw[1], raw', near))
    /\ locked' = (locked \/ (phase = "OPENING" /\ phase' # "OPENING"))
    /\ UNCHANGED <<hold, lastPrediction>>

EmitRow(near) ==
    /\ Emits
    /\ raw' = IF hold > 0 THEN raw ELSE Tail(raw)
    /\ emitted' = emitted + 1
    /\ Govern(hold = 0 /\ MayClose(raw[1], raw', near))
    /\ LET closes == phase = "OPENING" /\ phase' # "OPENING"
       IN  /\ locked' = (locked \/ closes)
           /\ hold' = IF closes THEN HoldSteps
                      ELSE IF hold > 0 THEN hold - 1 ELSE 0
    /\ UNCHANGED lastPrediction

QueueNext ==
    \/ ResetQueue
    \/ \E rows \in Seq(Row), id \in Nat, offset \in Nat :
         Merge(rows, id, offset)
    \/ \E near \in BOOLEAN : EmitRow(near)

QueueSpec == QueueInit /\ [][QueueNext]_queue

-----------------------------------------------------------------------------
(* Properties *)

QueueTypeOK ==
    /\ raw \in Seq(Row) /\ hold \in Nat /\ emitted \in Nat
    /\ lastPrediction \in Nat /\ locked \in BOOLEAN
    /\ phase \in {"OPENING", "CLOSING", "CLOSED"}
    /\ ramp \in Nat /\ confirmed \in Nat

(* Once the gripper closes, what the queue still holds is enough to end    *)
(* the ramp: no more predictions are taken, so a ramp that outlasts the    *)
(* queue would never end and neither would the goal.                       *)
CloseCanEnd ==
    /\ locked <=> phase # "OPENING"
    /\ phase = "CLOSING" => RampSteps - ramp <= hold + Len(raw)

=============================================================================
