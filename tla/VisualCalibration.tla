------------------------- MODULE VisualCalibration -------------------------
(***************************************************************************)
(* A visual calibration sweep of xlerobot_calibration_tools: the node that *)
(* moves the head or the right arm through its poses (head_auto_node.py),  *)
(* the progress it keeps on disk (head_auto.py, handeye_auto.py), and the  *)
(* collector that saves one synchronized sample per pose                   *)
(* (collector_node.py, sample_set.py).                                     *)
(*                                                                         *)
(* The session's lock is never held over a wait, and every section under   *)
(* it ends with a save, so the document in memory and the one on disk are  *)
(* the same between two steps.  What the sweep cannot see is when its      *)
(* requests are served: a capture it gave up may still add a row, a motion *)
(* it gave up may still run, and both may outlive the process.             *)
(***************************************************************************)
EXTENDS Naturals, Sequences, FiniteSets, SequencesExt, FiniteSetsExt

CONSTANTS
    PoseCount,      \* poses of a sweep
    FitCount,       \* hand-eye: the first poses fit, the others validate
    HeadRequired,   \* head: rows a solution needs
    MaxSessions     \* bound: how often the node is killed and started again,
                    \* or a session is archived for a fresh one

ASSUME SweepAssumption ==
    /\ PoseCount \in Nat \ {0} /\ FitCount \in 1..PoseCount
    /\ HeadRequired \in Nat /\ MaxSessions \in Nat

VARIABLE sweep

SweepPoses == 1..PoseCount
Ready == 0              \* the ready pose the arm returns to
Nowhere == PoseCount + 1

Handeye == sweep.kind = "right_handeye"
IsFit(p) == p <= FitCount
Required == IF Handeye THEN PoseCount ELSE HeadRequired

-----------------------------------------------------------------------------
(* The progress document: captured poses, the pending capture, and as much *)
(* of samples.yaml as it has accounted for (sample_count, sample_sha256).  *)

InitSweep ==
    \E kind \in {"head_camera", "right_handeye"} :
      sweep = [kind |-> kind, phase |-> "IDLE", captured |-> {}, pending |-> {},
               known |-> 0, rows |-> << >>, fit |-> {}, draft |-> << >>,
               pc |-> "idle", busy |-> FALSE, canceled |-> FALSE, frozen |-> FALSE,
               todo |-> {}, motionUnconfirmed |-> FALSE, captureUnconfirmed |-> FALSE,
               motion |-> "none", goal |-> Ready, stray |-> FALSE,
               at |-> Ready, calls |-> {}, reply |-> {},
               up |-> TRUE, sessions |-> 0]

Moving(s) == s.motion = "live" \/ s.stray

(* reconcile: what is on disk is what the document knows, or one row more  *)
(* that carries the pending capture's job.  Empty when it raises.          *)
Reconciled(s) ==
    IF Len(s.rows) = s.known THEN {[s EXCEPT !.pending = {}]}
    ELSE IF /\ Len(s.rows) = s.known + 1
            /\ s.pending = {Last(s.rows).job}
         THEN {[s EXCEPT !.captured = @ \cup s.pending,
                         !.known = Len(s.rows), !.pending = {}]}
         ELSE {}

Skipped(s, p) == [s EXCEPT !.pending = {}, !.captured = @ \ {p}]

(* execute's two exception handlers and its finally.  pause keeps the      *)
(* pending capture: begin looks for its row.                               *)
Ended(s, phase) ==
    [s EXCEPT !.phase = phase, !.pc = "idle", !.busy = FALSE,
              !.canceled = FALSE, !.todo = {}, !.frozen = FALSE]
Paused(s) == Ended(s, "PAUSED")
Failed(s) == Ended(s, "ERROR")
Completed(s) == Ended(s, "COMPLETED")

(* freeze_fit: the fit is solved once, from exactly the fitting poses and  *)
(* before any held-out row exists; afterwards only compared.  Empty when   *)
(* it raises, which the solver's own quality gate may also do.             *)
FitRows(s) ==
    {s.rows[i] : i \in {j \in DOMAIN s.rows : IsFit(s.rows[j].job)}}
UniqueJobs(s) ==
    \A i, j \in DOMAIN s.rows : s.rows[i].job = s.rows[j].job => i = j

FreezeFit(s) ==
    IF ~UniqueJobs(s) \/ Cardinality(FitRows(s)) # FitCount THEN {}
    ELSE IF s.fit # {}
         THEN IF s.fit = FitRows(s) THEN {s} ELSE {}
         ELSE IF \E i \in DOMAIN s.rows : ~IsFit(s.rows[i].job) THEN {}
              ELSE {[s EXCEPT !.fit = FitRows(s)]}

(* validate_heldout: enough held-out rows, each taken after every fitting  *)
(* row; finish_validation judges the frozen fit by them.                   *)
HeldOutIsLater(s) ==
    /\ Len(s.rows) - Cardinality(FitRows(s)) >= PoseCount - FitCount
    /\ \A i, j \in DOMAIN s.rows :
         IsFit(s.rows[i].job) /\ ~IsFit(s.rows[j].job) => i < j
FinishValidation(s) == {t \in FreezeFit(s) : HeldOutIsLater(t)}

-----------------------------------------------------------------------------
(* Goals, cancellation and the reset service.                              *)

FreeIfIdle(s) == s.up /\ ~s.busy /\ ~s.motionUnconfirmed
Free(s) == s.up /\ ~s.busy /\ ~s.motionUnconfirmed /\ ~s.captureUnconfirmed

AcceptSweep ==
    /\ Free(sweep) /\ sweep.phase # "COMPLETED"
    /\ sweep' = [sweep EXCEPT !.busy = TRUE, !.pc = "begin", !.canceled = FALSE]

CancelSweep ==
    /\ sweep.busy /\ ~sweep.canceled
    /\ sweep' = [sweep EXCEPT !.canceled = TRUE]

(* restart moves the whole capture directory away; the draft stays.        *)
Archived(s) == [s EXCEPT !.phase = "IDLE", !.rows = << >>, !.known = 0,
                         !.captured = {}, !.pending = {}, !.fit = {}]

ResetSession ==
    /\ Free(sweep) /\ sweep.sessions < MaxSessions
    /\ ~(sweep.phase = "IDLE" /\ sweep.known = 0)
    /\ sweep' = [Archived(sweep) EXCEPT !.sessions = @ + 1]

-----------------------------------------------------------------------------
(* The execute thread.                                                     *)

Remaining(s) ==
    {[t EXCEPT !.phase = "IDLE", !.todo = SweepPoses \ t.captured] : t \in Reconciled(s)}

Begin ==
    /\ sweep.pc = "begin"
    /\ IF Remaining(sweep) = {} THEN sweep' = Failed(sweep)
       ELSE \E s \in Remaining(sweep) : sweep' = [s EXCEPT !.pc = "next"]

Freezing == Handeye /\ ~sweep.frozen /\ sweep.todo # {} /\ ~IsFit(Min(sweep.todo))

Freeze ==
    /\ sweep.pc = "next" /\ Freezing
    /\ \/ \E s \in FreezeFit(sweep) :
            sweep' = [s EXCEPT !.phase = "SOLVING", !.frozen = TRUE]
       \/ sweep' = Failed(sweep)    \* too few fitting rows, or a bad fit

(* move: a request out of which only a terminal state leads; whatever else *)
(* ends the wait leaves the motion unconfirmed.                            *)
MovedTo(s, p) ==
    {[s EXCEPT !.pc = "asked", !.motionUnconfirmed = TRUE,
               !.motion = "asked", !.goal = p]}

RequestPose ==
    /\ sweep.pc = "next" /\ sweep.todo # {} /\ ~Freezing
    /\ \/ sweep' = Paused(sweep)    \* canceled, or no motion controller
       \/ /\ ~sweep.canceled
          /\ \E s \in MovedTo(sweep, Min(sweep.todo)) :
               sweep' = [s EXCEPT !.phase = "MOVING"]

PoseAnswered ==
    /\ sweep.pc = "asked"
    /\ \/ /\ sweep.motion \in {"live", "done", "failed"}
          /\ sweep' = [sweep EXCEPT !.pc = "moving"]
       \/ /\ sweep.motion = "refused"
          /\ sweep' = Paused([sweep EXCEPT !.motion = "none",
                                           !.motionUnconfirmed = FALSE])
       \/ /\ sweep.motion \in {"asked", "live"}     \* no answer in 5 s
          /\ sweep' = Paused(sweep)

(* The sweep was canceled, or the motion is late: ask it to stop.          *)
StopPose ==
    /\ sweep.pc = "moving"
    /\ sweep' = [sweep EXCEPT !.pc = "stopping"]

GiveUpAndForget(s) == Paused([s EXCEPT !.motionUnconfirmed = FALSE])
GiveUpPose(s) == Paused(s)
StopIsWaitedFor(s) == FALSE
StopIsLate(s) == s.pc = "stopping" /\ s.motion = "live"

PoseEnds ==
    /\ sweep.pc \in {"moving", "stopping"}
    /\ \/ /\ sweep.motion \in {"done", "failed"}
          /\ LET s == [sweep EXCEPT !.motion = "none", !.motionUnconfirmed = FALSE]
             IN  sweep' =
                   IF s.canceled \/ s.pc = "stopping" \/ sweep.motion = "failed"
                   THEN Paused(s)
                   ELSE IF s.phase = "RETURNING" THEN Completed(s)
                        ELSE [s EXCEPT !.pc = "waiting", !.phase = "WAITING"]
       \/ StopIsLate(sweep) /\ sweep' = GiveUpPose(sweep)

(* The pending capture is on disk before its request leaves.               *)
Prepared(s, p) == [s EXCEPT !.phase = "CAPTURING", !.pending = {p}]
CaptureRequested(s, p) ==
    [Prepared(s, p) EXCEPT !.captureUnconfirmed = TRUE, !.pc = "reply",
                           !.calls = @ \cup {[job |-> p, orphan |-> FALSE]}]

(* wait_target: three current frames of the whole board, or skip the pose. *)
WaitTarget ==
    /\ sweep.pc = "waiting"
    /\ \/ /\ sweep.canceled /\ sweep' = Paused(sweep)
       \/ /\ ~sweep.canceled
          /\ LET p == Min(sweep.todo)
             IN  \/ sweep' = [Skipped(sweep, p) EXCEPT !.todo = @ \ {p}, !.pc = "next"]
                 \/ sweep' = CaptureRequested(sweep, p)
                 \/ sweep' = Paused(sweep)  \* no collector

(* captured: an answer alone is no proof, the row must be on disk.         *)
CaptureSaved(s, p) == {t \in Reconciled(s) : p \in t.captured}

CaptureAnswered ==
    /\ sweep.pc = "reply"
    /\ \/ sweep.reply = {} /\ sweep' = Paused(sweep)    \* no answer in 5 s
       \/ \E r \in sweep.reply :
            LET p    == Min(sweep.todo)
                s    == [sweep EXCEPT !.reply = {}, !.captureUnconfirmed = FALSE]
                next == {[t EXCEPT !.todo = @ \ {p}, !.pc = "next"] :
                           t \in CASE r = "close" -> {Skipped(s, p)}
                                   [] r = "error" -> {Skipped(t, p) : t \in Reconciled(s)}
                                   [] r = "saved" -> CaptureSaved(s, p)}
            IN  IF next = {} THEN sweep' = Failed(s) ELSE sweep' \in next

(* capture_finished: the answer of a capture execute no longer waits for.  *)
LateCapture ==
    /\ sweep.pc # "reply" /\ sweep.reply # {}
    /\ sweep' = [sweep EXCEPT !.reply = {}, !.captureUnconfirmed = FALSE]

Solve ==
    /\ sweep.pc = "next" /\ sweep.todo = {}
    /\ \/ sweep.canceled /\ sweep' = Paused(sweep)
       \/ ~sweep.canceled /\ sweep' = Failed(sweep)     \* too few rows, bad quality
       \/ /\ ~sweep.canceled /\ sweep.known >= Required
          /\ \E s \in IF Handeye THEN FinishValidation(sweep) ELSE {sweep} :
               sweep' = [s EXCEPT !.pc = "save",
                                  !.phase = IF Handeye THEN "VALIDATING" ELSE "SOLVING"]

(* The draft is saved before the arm returns; a failed return pauses the   *)
(* sweep, and continuing solves it again.                                  *)
SaveDraft ==
    /\ sweep.pc = "save"
    /\ IF sweep.canceled THEN sweep' = Paused(sweep)
       ELSE LET saved == [sweep EXCEPT !.draft = <<[rows |-> sweep.rows, fit |-> sweep.fit]>>,
                                       !.phase = "RETURNING"]
            IN  sweep' \in MovedTo(saved, Ready) \cup {Paused(saved)}

-----------------------------------------------------------------------------
(* The motion controller takes one goal at a time; the collector serves    *)
(* captures one at a time, whenever it comes to them.                      *)

ServePose ==
    \/ /\ sweep.motion = "asked"
       /\ sweep' = IF sweep.stray THEN [sweep EXCEPT !.motion = "refused"]
                   ELSE [sweep EXCEPT !.motion = "live", !.at = Nowhere]
    \/ /\ sweep.motion = "live"
       /\ sweep' \in {[sweep EXCEPT !.motion = "done", !.at = sweep.goal],
                      [sweep EXCEPT !.motion = "failed"]}
    \/ /\ sweep.stray /\ sweep' = [sweep EXCEPT !.stray = FALSE]

(* An observation is as old as its stamp, never restamped, but nothing in  *)
(* the collector says whether the arm moves or which pose it is in.        *)
Snapshot(call) == [job |-> call.job, at |-> sweep.at, still |-> ~Moving(sweep),
                   orphan |-> call.orphan]
TooClose(row) ==
    row.still /\ \E i \in DOMAIN sweep.rows :
                   sweep.rows[i].still /\ sweep.rows[i].at = row.at

ServeCapture ==
    \E call \in sweep.calls :
      LET row   == Snapshot(call)
          close == TooClose(row)
          told(r) == IF call.orphan THEN sweep.reply ELSE {r}
          s     == [sweep EXCEPT !.calls = @ \ {call}]
      IN  \/ sweep' = [s EXCEPT !.reply = told("error")]    \* no board in sight
          \/ /\ close /\ sweep' = [s EXCEPT !.reply = told("close")]
          \/ /\ ~close
             /\ sweep' = [s EXCEPT !.rows = Append(@, row), !.reply = told("saved")]

(* The node is killed and started again: a motion it had asked for may run *)
(* on, a capture may still be served.  The new process restores its        *)
(* progress, and refuses to start over rows it cannot account for.         *)
RestartNode ==
    /\ sweep.up /\ sweep.sessions < MaxSessions
    /\ \E kept \in SUBSET sweep.calls, runs \in BOOLEAN :
         LET s == [sweep EXCEPT
                     !.pc = "idle", !.busy = FALSE, !.canceled = FALSE,
                     !.todo = {}, !.frozen = FALSE, !.motionUnconfirmed = FALSE,
                     !.captureUnconfirmed = FALSE, !.reply = {},
                     !.motion = "none", !.sessions = @ + 1,
                     !.stray = runs /\ sweep.motion \in {"asked", "live"},
                     !.at = IF runs /\ sweep.motion = "asked" THEN Nowhere ELSE @,
                     !.calls = {[c EXCEPT !.orphan = TRUE] : c \in kept}]
         IN  IF Reconciled(s) = {} THEN sweep' = [s EXCEPT !.up = FALSE]
             ELSE \E t \in Reconciled(s) :
                    sweep' = IF t.phase \in {"COMPLETED", "ERROR", "IDLE"} THEN t
                             ELSE [t EXCEPT !.phase = "PAUSED"]

Execute ==
    \/ Begin \/ Freeze \/ RequestPose \/ PoseAnswered \/ StopPose \/ PoseEnds
    \/ WaitTarget \/ CaptureAnswered \/ Solve \/ SaveDraft

NextSweep ==
    \/ AcceptSweep \/ CancelSweep \/ ResetSession \/ Execute
    \/ LateCapture \/ ServePose \/ ServeCapture \/ RestartNode

SweepFairness == WF_sweep(Execute)

-----------------------------------------------------------------------------
(* The rows a sweep fits are of an arm at rest in the pose whose job they  *)
(* carry, also when a capture was given up and served late.  (A capture of *)
(* a killed process is the exception: the new one knows nothing of it.)    *)
RowsAreTrue ==
    \A i \in DOMAIN sweep.rows :
      LET row == sweep.rows[i]
      IN  row.orphan \/ (row.still /\ row.at = row.job)

(* A motion that may still run has an owner: the goal, or the mark that    *)
(* keeps every later goal and reset out.                                   *)
MotionIsOwned ==
    sweep.motion # "none" => sweep.busy \/ sweep.motionUnconfirmed

(* A draft rests on enough different poses, and a hand-eye draft was fitted*)
(* to all the fitting poses before the first held-out row was taken, and   *)
(* validated on all the others.  (Job names repeat over processes, so a    *)
(* row left by a killed one is the exception here too.)                    *)
DraftIsProven ==
    \A d \in ToSet(sweep.draft) :
      (\A i \in DOMAIN d.rows : ~d.rows[i].orphan) =>
      LET jobs == [i \in DOMAIN d.rows |-> d.rows[i].job]
      IN  /\ Cardinality(ToSet(jobs)) >= Required
          /\ Handeye => /\ d.fit = ToSet(SubSeq(d.rows, 1, FitCount))
                        /\ {jobs[i] : i \in 1..FitCount} = {p \in SweepPoses : IsFit(p)}

(* A sweep that says it is complete has saved its draft and has put the    *)
(* arm back in its ready pose.                                             *)
CompleteIsReady ==
    sweep.phase = "COMPLETED" => sweep.draft # << >> /\ sweep.at = Ready

(* Every sweep ends, whatever the controller and the collector do.         *)
SweepEnds == sweep.busy ~> ~sweep.busy

=============================================================================
