-------------------------- MODULE ServoCalibration --------------------------
(***************************************************************************)
(* Capturing the zero and the range of every servo:                        *)
(* xlerobot_feetech/src/servo_calibration_session.cpp (the session) and    *)
(* servo_calibration_server.cpp (the node around it).                      *)
(*                                                                         *)
(* The operator works one group of joints at a time: release its torque,   *)
(* capture its zero pose, record its ranges while moving it by hand, and   *)
(* finish it; when every group is done, FINALIZE publishes result.yaml.    *)
(* The session is saved to session.yaml after each step and about once per *)
(* second of recording, so that a restarted server can go on from it.      *)
(*                                                                         *)
(* The node has one thread: a service call or a timer callback is one      *)
(* action, save that the process may die between publishing the result and *)
(* saving the session.  Replacing session.yaml is atomic (a rename), and   *)
(* so is publishing result.yaml (a hard link to the temporary file).       *)
(*                                                                         *)
(* An absent session.yaml is the session of a new capture, which restoring *)
(* nothing leaves; an absent result.yaml is NoResult.                      *)
(***************************************************************************)
EXTENDS Integers

CONSTANTS
    Joints,     \* the joints of this robot, or of a leader arm
    Groups,     \* right_arm, left_arm and head, or leader
    GroupOf,    \* the group of each joint
    MaxRaw,     \* the highest encoder value (4095)
    WrapLimit,  \* the largest credible change between two samples (2048)
    Coverage,   \* the range each joint has to cover, in encoder values
    Reference,  \* the zeros of the calibration in use, None without one
    Faults      \* what may fail: "save", "unlink" (removing a temporary file)

None == -1
Raw == 0 .. MaxRaw
OptionalRaw == Raw \cup {None}
Invalid == MaxRaw + 1

NoGroup == "no group"

ASSUME JointsAssumption ==
    /\ Joints # {}
    /\ GroupOf \in [Joints -> Groups]
    /\ NoGroup \notin Groups
ASSUME EncoderAssumption ==
    /\ MaxRaw \in Nat
    /\ WrapLimit \in Nat
    /\ Coverage \in [Joints -> Nat]
    /\ Reference \in [Joints -> Raw] \/ Reference = [j \in Joints |-> None]
ASSUME FaultsAssumption == Faults \subseteq {"save", "unlink"}

VARIABLES
    mode,       \* "down", "ready", or "publishing" inside a FINALIZE
    session,    \* the session in memory
    released,   \* released_groups_
    saveError,  \* persistence_error_ is set
    saved,      \* the session in session.yaml
    result,     \* result.yaml
    linked      \* result.yaml.tmp is still a link to result.yaml

vars == <<mode, session, released, saveError, saved, result, linked>>

-----------------------------------------------------------------------------
(* Sessions *)

Phases == {"IDLE", "ZERO_CAPTURED", "RANGE_RECORDING", "PAUSED",
           "RANGE_CAPTURED", "FINALIZED"}
Rows == [zero : OptionalRaw, low : OptionalRaw, high : OptionalRaw,
         last : OptionalRaw, captured : BOOLEAN, fault : BOOLEAN]
SessionType == [rows : [Joints -> Rows], phase : Phases,
                active : Groups \cup {NoGroup}]

EmptyRow(zero) == [zero |-> zero, low |-> None, high |-> None, last |-> None,
                   captured |-> FALSE, fault |-> FALSE]
NewSession == [rows |-> [j \in Joints |-> EmptyRow(None)], phase |-> "IDLE",
               active |-> NoGroup]

InGroup(g) == {j \in Joints : GroupOf[j] = g}
Recording(s) == s.phase = "RANGE_RECORDING"
RecordingOf(s, g) == Recording(s) /\ s.active = g

(* A position of each joint of the group: a missing reply is None.         *)
Samples(g) == [InGroup(g) -> OptionalRaw \cup {Invalid}]

(* Faulty variant: a finalized session may be changed.                     *)
MayChangeFinalized(s, g) == Recording(s) => s.active = g

(* check_group_change                                                      *)
MayChange(s, g) == s.phase # "FINALIZED" /\ (Recording(s) => s.active = g)

Spans(j, row) == row.high - row.low >= Coverage[j]

(* A range that may be called complete, and may be published.              *)
Sufficient(j, row) ==
    /\ None \notin {row.zero, row.low, row.high}
    /\ ~row.fault
    /\ row.low <= row.zero /\ row.zero <= row.high
    /\ Spans(j, row)

AllCaptured(rows) == \A j \in Joints : rows[j].captured /\ Sufficient(j, rows[j])

Jumped(row, p) ==
    row.last # None /\ (p - row.last > WrapLimit \/ row.last - p > WrapLimit)

(* One sample of a joint whose group records.                              *)
Sampled(row, p) ==
    IF p = None THEN row
    ELSE IF p \notin Raw
    THEN [row EXCEPT !.fault = TRUE, !.captured = FALSE]
    ELSE LET faulty == row.fault \/ Jumped(row, p) IN
         [row EXCEPT
            !.last = p,
            !.fault = faulty,
            !.captured = row.captured /\ ~Jumped(row, p),
            !.low = IF faulty \/ (row.low # None /\ row.low <= p) THEN @ ELSE p,
            !.high = IF faulty \/ (row.high # None /\ row.high >= p) THEN @ ELSE p]

(* The rows of g become R(j), the others stay.                             *)
InRows(s, g, R(_)) ==
    [j \in Joints |-> IF GroupOf[j] = g THEN R(j) ELSE s.rows[j]]

(* observe: only a recording group takes its samples.                      *)
Observed(s, g, x) ==
    IF RecordingOf(s, g)
    THEN [s EXCEPT !.rows = InRows(s, g, LAMBDA j : Sampled(s.rows[j], x[j]))]
    ELSE s

ZerosSet(s, g, zeros) ==
    [rows |-> InRows(s, g, LAMBDA j : EmptyRow(zeros[j])),
     phase |-> "ZERO_CAPTURED", active |-> g]

Started(s, g, x) ==
    Observed([rows |-> s.rows, phase |-> "RANGE_RECORDING", active |-> g], g, x)

Finished(s, g) ==
    [rows |-> InRows(s, g, LAMBDA j : [s.rows[j] EXCEPT !.captured = TRUE]),
     phase |-> "RANGE_CAPTURED", active |-> NoGroup]

Paused(s) == [s EXCEPT !.phase = "PAUSED"]

Reset(s, g) ==
    LET mine == s.active \in {g, NoGroup} IN
    [rows |-> InRows(s, g, LAMBDA j : EmptyRow(None)),
     phase |-> IF mine THEN "IDLE" ELSE s.phase,
     active |-> IF mine THEN NoGroup ELSE s.active]

Finalized(s) == [rows |-> s.rows, phase |-> "FINALIZED", active |-> NoGroup]

-----------------------------------------------------------------------------
(* Files *)

Results == [Joints -> [zero : OptionalRaw, low : OptionalRaw, high : OptionalRaw]]
Published(rows) == [j \in Joints |-> [zero |-> rows[j].zero, low |-> rows[j].low,
                                      high |-> rows[j].high]]
NoResult == Published(NewSession.rows)

(* What restore demands of session.yaml.                                   *)
RowRestores(j, row) ==
    /\ (row.low = None) = (row.high = None)
    /\ row.low # None => row.zero # None /\ row.low <= row.high
    /\ row.captured => Sufficient(j, row)

Restorable(s) ==
    /\ s.phase \in {"RANGE_RECORDING", "PAUSED", "ZERO_CAPTURED"} => s.active # NoGroup
    /\ s.phase \in {"FINALIZED", "RANGE_CAPTURED"} => s.active = NoGroup
    /\ \A j \in Joints : RowRestores(j, s.rows[j])
    /\ s.phase = "FINALIZED" => \A j \in Joints : s.rows[j].captured

(* A restarted process never resumes sampling.                             *)
Restored(s) == IF Recording(s) THEN Paused(s) ELSE s

(* recover_finalized_result: the result must be exactly what was captured. *)
Adoptable(rows, res) == AllCaptured(rows) /\ res = Published(rows)

(* Whether the server starts on the files it finds.                        *)
Startable ==
    /\ Restorable(saved)
    /\ result # NoResult => Adoptable(saved.rows, result)
    /\ saved.phase = "FINALIZED" => result # NoResult

(* The session it starts with.                                             *)
Recovered == IF result = NoResult THEN Restored(saved) ELSE Finalized(saved)

-----------------------------------------------------------------------------
(* How a command ends *)

Init ==
    /\ mode = "down"
    /\ session = NewSession
    /\ released = {}
    /\ saveError = FALSE
    /\ saved = NewSession
    /\ result = NoResult
    /\ linked = FALSE

Save(s) == session' = s /\ saved' = s /\ saveError' = FALSE

PauseUnsaved(s) == session' = Paused(s) /\ saveError' = TRUE /\ UNCHANGED saved

(* A command that throws leaves the session s.  While it records, the      *)
(* handler saves it, or pauses it because it cannot.                       *)
Rejected(s) ==
    \/ ~Recording(s) /\ session' = s /\ UNCHANGED <<saveError, saved>>
    \/ Recording(s) /\ Save(s)
    \/ Recording(s) /\ "save" \in Faults /\ PauseUnsaved(s)

(* A command that succeeds saves its session; failing that, it throws.     *)
Persisted(s) == Save(s) \/ ("save" \in Faults /\ Rejected(s))

(* Faulty variant: the session stays in memory.                            *)
KeptInMemory(s) == session' = s /\ UNCHANGED <<saveError, saved>>

Ready == mode = "ready"
Serve == Ready /\ UNCHANGED <<mode, released, result, linked>>

-----------------------------------------------------------------------------
(* Commands *)

(* Any command the checks refuse before it changes the session.            *)
Refuse == Serve /\ Rejected(session)

(* SCAN: only a recording group takes the samples, and nothing is saved    *)
(* unless an earlier failure to save has to be reported.                   *)
Scan(g) ==
    /\ Serve
    /\ \E x \in Samples(g) :
        LET s == Observed(session, g, x) IN
        IF saveError THEN Rejected(s)
        ELSE session' = s /\ UNCHANGED <<saveError, saved>>

(* RELEASE_TORQUE                                                          *)
Release(g) ==
    /\ Ready
    /\ MayChange(session, g) /\ ~Recording(session)
    /\ released' \in {released \cup {g}, released \ {g}}
    /\ UNCHANGED <<mode, session, saveError, saved, result, linked>>

MaySetZeros(g) ==
    /\ MayChange(session, g) /\ ~Recording(session)
    /\ g \in released

(* CAPTURE_ZERO: every joint of the group answers, or nothing changes.     *)
CaptureZero(g) ==
    /\ Serve
    /\ MaySetZeros(g)
    /\ \E x \in [InGroup(g) -> Raw] : Persisted(ZerosSet(session, g, x))

(* USE_EXISTING_ZERO                                                       *)
UseExistingZero(g) ==
    /\ Serve
    /\ MaySetZeros(g)
    /\ Reference \in [Joints -> Raw]
    /\ Persisted(ZerosSet(session, g, Reference))

MayStart(s, g, x) ==
    /\ ~Recording(s)
    /\ \A j \in InGroup(g) :
        s.rows[j].zero # None /\ ~s.rows[j].fault /\ x[j] \in Raw

(* START_RANGE: asked again of a group that records, it takes one more     *)
(* sample and throws.                                                      *)
StartRange(g) ==
    /\ Serve
    /\ MayChange(session, g)
    /\ g \in released
    /\ \E x \in Samples(g) :
        \/ MayStart(session, g, x) /\ Persisted(Started(session, g, x))
        \/ Recording(session) /\ Rejected(Observed(session, g, x))

MayFinish(s, g, x) ==
    \A j \in InGroup(g) : x[j] \in Raw /\ Sufficient(j, s.rows[j])

(* Faulty variant: the finished group stays active.                        *)
FinishRangeStaysActive(g) ==
    /\ Serve
    /\ RecordingOf(session, g)
    /\ \E x \in Samples(g) :
        LET s == Observed(session, g, x) IN
        IF MayFinish(s, g, x)
        THEN Persisted([Finished(s, g) EXCEPT !.active = g])
        ELSE Rejected(s)

(* FINISH_RANGE: never from a stale read; refused, it goes on recording.   *)
FinishRange(g) ==
    /\ Serve
    /\ RecordingOf(session, g)
    /\ \E x \in Samples(g) :
        LET s == Observed(session, g, x) IN
        IF MayFinish(s, g, x) THEN Persisted(Finished(s, g)) ELSE Rejected(s)

(* Faulty variant: the pause is not saved.                                 *)
PauseRangeUnsaved(g) ==
    /\ Serve
    /\ RecordingOf(session, g)
    /\ KeptInMemory(Paused(session))

(* PAUSE_RANGE                                                             *)
PauseRange(g) ==
    /\ Serve
    /\ RecordingOf(session, g)
    /\ Persisted(Paused(session))

(* RESET_GROUP                                                             *)
ResetGroup(g) ==
    /\ Serve
    /\ MayChange(session, g)
    /\ Persisted(Reset(session, g))

(* FINALIZE up to the link that publishes the result.  If the temporary    *)
(* file then stays, the command throws with the result published.          *)
Finalize ==
    /\ Ready
    /\ session.phase \notin {"FINALIZED", "RANGE_RECORDING"}
    /\ AllCaptured(session.rows)
    /\ result = NoResult
    /\ result' = Published(session.rows)
    /\ \/ /\ mode' = "publishing"
          /\ session' = Finalized(session)
          /\ UNCHANGED linked
       \/ /\ "unlink" \in Faults
          /\ linked' = TRUE
          /\ UNCHANGED <<mode, session>>
    /\ UNCHANGED <<released, saveError, saved>>

(* The end of FINALIZE.                                                    *)
SaveFinalized ==
    /\ mode = "publishing"
    /\ mode' = "ready"
    /\ Persisted(session)
    /\ UNCHANGED <<released, result, linked>>

(* FINALIZE with a result already there: the link is refused, after the    *)
(* temporary file has been written.                                        *)
FinalizeAgain ==
    /\ Ready
    /\ session.phase \notin {"FINALIZED", "RANGE_RECORDING"}
    /\ AllCaptured(session.rows)
    /\ result # NoResult
    /\ result' = IF linked THEN Published(session.rows) ELSE result
    /\ UNCHANGED <<mode, session, released, saveError, saved, linked>>

-----------------------------------------------------------------------------
(* The timer, and the life of the process *)

(* sample_range, every 50 ms; it saves about once per second.              *)
SampleRange ==
    /\ Serve
    /\ Recording(session)
    /\ \E x \in Samples(session.active) :
        LET s == Observed(session, session.active, x) IN
        \/ session' = s /\ UNCHANGED <<saveError, saved>>
        \/ Save(s)
        \/ "save" \in Faults /\ PauseUnsaved(s)

Exit(file) ==
    /\ mode' = "down"
    /\ session' = NewSession
    /\ released' = {}
    /\ saveError' = FALSE
    /\ saved' = file
    /\ UNCHANGED result

(* The destructor saves the session once more, if it can.                  *)
Shutdown ==
    /\ Ready
    /\ Exit(session) \/ ("save" \in Faults /\ Exit(saved))
    /\ UNCHANGED linked

(* The temporary file of a result may outlive the process.                 *)
Crash ==
    /\ mode # "down"
    /\ Exit(saved)
    /\ linked' \in IF mode = "publishing" THEN {linked, TRUE} ELSE {linked}

(* Faulty variant: a result is adopted whatever session.yaml holds.        *)
StartupTrusting ==
    /\ mode = "down"
    /\ Restorable(saved)
    /\ mode' = "ready"
    /\ Save(Recovered)
    /\ UNCHANGED <<released, result, linked>>

(* The constructor; if it throws, the process ends and changes nothing.    *)
Startup ==
    /\ mode = "down"
    /\ Startable
    /\ mode' = "ready"
    /\ Save(Recovered)
    /\ UNCHANGED <<released, result, linked>>

(* --fresh archives the directory of both files before the server starts.  *)
Fresh ==
    /\ mode = "down"
    /\ saved' = NewSession
    /\ result' = NoResult
    /\ linked' = FALSE
    /\ UNCHANGED <<mode, session, released, saveError>>

Next ==
    \/ Refuse
    \/ \E g \in Groups : Scan(g)
    \/ \E g \in Groups : Release(g)
    \/ \E g \in Groups : CaptureZero(g)
    \/ \E g \in Groups : UseExistingZero(g)
    \/ \E g \in Groups : StartRange(g)
    \/ \E g \in Groups : FinishRange(g)
    \/ \E g \in Groups : PauseRange(g)
    \/ \E g \in Groups : ResetGroup(g)
    \/ Finalize
    \/ SaveFinalized
    \/ FinalizeAgain
    \/ SampleRange
    \/ Shutdown
    \/ Crash
    \/ Startup
    \/ Fresh

Spec == Init /\ [][Next]_vars

-----------------------------------------------------------------------------
(* Properties *)

TypeOK ==
    /\ mode \in {"down", "ready", "publishing"}
    /\ session \in SessionType
    /\ released \subseteq Groups
    /\ saveError \in BOOLEAN
    /\ saved \in SessionType
    /\ result \in Results
    /\ linked \in BOOLEAN

(* Whatever was saved, and whenever, restore accepts it.                   *)
SavedSessionRestores == Restorable(saved)

(* "A restarted process never resumes sampling or assumes the torque       *)
(* state": a group is recorded only after this process released it.        *)
RecordingIsReleased == Recording(session) => session.active \in released

(* A session that calls itself finalized is the one that was published,    *)
(* whatever was interrupted, in memory and in the file.                    *)
IsPublished(s) == s.phase = "FINALIZED" => Adoptable(s.rows, result)
FinalizedIsPublished == IsPublished(session) /\ IsPublished(saved)

(* "Covers interruption after publishing result.yaml but before saving     *)
(* FINALIZED to session.yaml": as long as saves succeed, a server that     *)
(* stopped anywhere starts again on its files.                             *)
RestartRecovers == mode = "down" => Startable

(* "Creating a hard link is atomic and refuses an existing result": once   *)
(* published, a result changes only when it is archived.                   *)
ResultNeverChanges == [][result # NoResult => result' \in {result, NoResult}]_vars

=============================================================================
