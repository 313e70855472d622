----------------------- MODULE ServoCalibration_proofs -----------------------
(* Proofs about ServoCalibration: what is saved can always be restored, a  *)
(* group has its zeros together, and, when saving does not fail, a server  *)
(* that stopped anywhere starts again.                                     *)
EXTENDS ServoCalibration, TLAPS

(* A recording group has its zeros; with Restorable this is inductive.     *)
ZerosBeforeRange(s) ==
    Recording(s) => \A j \in Joints : GroupOf[j] = s.active => s.rows[j].zero # None

Sound(s) == s \in SessionType /\ Restorable(s) /\ ZerosBeforeRange(s)

USE DEF None, Raw, OptionalRaw, Invalid

(* A sample leaves a row a row, and its zero alone.                        *)
LEMMA SampledIsRow ==
    ASSUME NEW row \in Rows, NEW p \in OptionalRaw \cup {Invalid}
    PROVE  Sampled(row, p) \in Rows /\ Sampled(row, p).zero = row.zero
<1>1. Jumped(row, p) \in BOOLEAN
  BY DEF Jumped
<1> QED
  BY <1>1, EncoderAssumption DEF Sampled, Rows

(* A sample of a joint that has its zero keeps what restore demands.       *)
LEMMA SampledRestores ==
    ASSUME NEW j \in Joints, NEW row \in Rows, row.zero # None, RowRestores(j, row),
           NEW p \in OptionalRaw \cup {Invalid}
    PROVE  RowRestores(j, Sampled(row, p))
<1>1. Coverage[j] \in Nat
  BY EncoderAssumption
<1>2. CASE p = None
  BY <1>2 DEF Sampled
<1>3. CASE p # None /\ p \notin Raw
  BY <1>3 DEF Sampled, RowRestores, Rows
<1>4. CASE p \in Raw
  <2>1. CASE row.fault \/ Jumped(row, p)
    BY <1>4, <2>1 DEF Sampled, RowRestores, Sufficient, Rows
  <2>2. CASE ~row.fault /\ ~Jumped(row, p)
    BY <1>1, <1>4, <2>2, EncoderAssumption
    DEF Sampled, RowRestores, Sufficient, Spans, Rows
  <2> QED
    BY <2>1, <2>2
<1> QED
  BY <1>2, <1>3, <1>4 

(* An empty row restores.                                                  *)
LEMMA EmptyRowRestores ==
    ASSUME NEW j \in Joints, NEW zero \in OptionalRaw
    PROVE  EmptyRow(zero) \in Rows /\ RowRestores(j, EmptyRow(zero))
BY DEF EmptyRow, Rows, RowRestores

LEMMA NewSessionIsSound == Sound(NewSession) /\ ~Recording(NewSession)
BY EmptyRowRestores, JointsAssumption
DEF Sound, NewSession, SessionType, Restorable, ZerosBeforeRange, Recording, Phases

(* Each change of a session keeps it sound.                                *)
LEMMA ObservedIsSound ==
    ASSUME NEW s, Sound(s), NEW g \in Groups, NEW x \in Samples(g)
    PROVE  /\ Sound(Observed(s, g, x))
           /\ Observed(s, g, x).phase = s.phase
           /\ Observed(s, g, x).active = s.active
<1>1. CASE ~RecordingOf(s, g)
  BY <1>1 DEF Observed
<1>2. CASE RecordingOf(s, g)
  <2> DEFINE r == [j \in Joints |->
                    IF GroupOf[j] = g THEN Sampled(s.rows[j], x[j]) ELSE s.rows[j]]
  <2>1. Observed(s, g, x) = [s EXCEPT !.rows = r]
    BY <1>2 DEF Observed, InRows
  <2>2. Observed(s, g, x) = [rows |-> r, phase |-> s.phase, active |-> s.active]
    BY <2>1 DEF Sound, SessionType
  <2>3. ASSUME NEW j \in Joints
        PROVE  r[j] \in Rows /\ RowRestores(j, r[j]) /\ r[j].zero = s.rows[j].zero
    <3>1. s.rows[j] \in Rows /\ RowRestores(j, s.rows[j])
      BY DEF Sound, SessionType, Restorable
    <3>2. CASE GroupOf[j] = g
      <4>1. x[j] \in OptionalRaw \cup {Invalid}
        BY <3>2 DEF Samples, InGroup
      <4>2. s.rows[j].zero # None
        BY <1>2, <3>2 DEF Sound, ZerosBeforeRange, RecordingOf
      <4> QED
        BY <3>1, <3>2, <4>1, <4>2, SampledIsRow, SampledRestores
    <3> QED
      BY <3>1, <3>2
  <2>4. r \in [Joints -> Rows]
    BY <2>3
  <2> HIDE DEF r
  <2>5. s.phase = "RANGE_RECORDING"
    BY <1>2 DEF RecordingOf, Recording
  <2> QED
    BY <2>2, <2>3, <2>4, <2>5
    DEF Sound, SessionType, Restorable, ZerosBeforeRange, Recording
<1> QED
  BY <1>1, <1>2

LEMMA ZerosSetIsSound ==
    ASSUME NEW s, Sound(s), NEW g \in Groups,
           NEW zeros, \A j \in InGroup(g) : zeros[j] \in OptionalRaw
    PROVE  Sound(ZerosSet(s, g, zeros)) /\ ZerosSet(s, g, zeros).phase = "ZERO_CAPTURED"
<1> DEFINE r == [j \in Joints |->
                  IF GroupOf[j] = g THEN EmptyRow(zeros[j]) ELSE s.rows[j]]
<1>1. ZerosSet(s, g, zeros) = [rows |-> r, phase |-> "ZERO_CAPTURED", active |-> g]
  BY DEF ZerosSet, InRows
<1>2. ASSUME NEW j \in Joints PROVE r[j] \in Rows /\ RowRestores(j, r[j])
  BY EmptyRowRestores DEF Sound, SessionType, Restorable, InGroup
<1>3. r \in [Joints -> Rows]
  BY <1>2
<1> HIDE DEF r
<1> QED
  BY <1>1, <1>2, <1>3, JointsAssumption
  DEF Sound, SessionType, Restorable, ZerosBeforeRange, Recording, Phases

LEMMA StartedIsSound ==
    ASSUME NEW s, Sound(s), NEW g \in Groups, NEW x \in Samples(g), MayStart(s, g, x)
    PROVE  Sound(Started(s, g, x)) /\ Started(s, g, x).phase = "RANGE_RECORDING"
<1> DEFINE t == [rows |-> s.rows, phase |-> "RANGE_RECORDING", active |-> g]
<1>1. \A j \in Joints : GroupOf[j] = g => s.rows[j].zero # None
  BY DEF MayStart, InGroup
<1>2. Sound(t)
  BY <1>1, JointsAssumption
  DEF Sound, SessionType, Restorable, ZerosBeforeRange, Recording, Phases
<1> HIDE DEF t
<1>3. Sound(Observed(t, g, x)) /\ Observed(t, g, x).phase = t.phase
  BY <1>2, ObservedIsSound
<1> QED
  BY <1>3 DEF Started, t

LEMMA FinishedIsSound ==
    ASSUME NEW s, Sound(s), NEW g \in Groups, NEW x, MayFinish(s, g, x)
    PROVE  Sound(Finished(s, g)) /\ Finished(s, g).phase = "RANGE_CAPTURED"
<1> DEFINE r == [j \in Joints |-> IF GroupOf[j] = g
                                  THEN [s.rows[j] EXCEPT !.captured = TRUE]
                                  ELSE s.rows[j]]
<1>1. Finished(s, g) = [rows |-> r, phase |-> "RANGE_CAPTURED", active |-> NoGroup]
  BY DEF Finished, InRows
<1>2. ASSUME NEW j \in Joints PROVE r[j] \in Rows /\ RowRestores(j, r[j])
  <2>1. s.rows[j] \in Rows /\ RowRestores(j, s.rows[j])
    BY DEF Sound, SessionType, Restorable
  <2>2. CASE GroupOf[j] = g
    <3>1. Sufficient(j, s.rows[j])
      BY <2>2 DEF MayFinish, InGroup
    <3> QED
      BY <2>1, <2>2, <3>1 DEF RowRestores, Sufficient, Spans, Rows
  <2> QED
    BY <2>1, <2>2
<1>3. r \in [Joints -> Rows]
  BY <1>2
<1> HIDE DEF r
<1> QED
  BY <1>1, <1>2, <1>3
  DEF Sound, SessionType, Restorable, ZerosBeforeRange, Recording, Phases

LEMMA PausedIsSound ==
    ASSUME NEW s, Sound(s), Recording(s)
    PROVE  Sound(Paused(s)) /\ ~Recording(Paused(s))
<1>1. Paused(s) = [rows |-> s.rows, phase |-> "PAUSED", active |-> s.active]
  BY DEF Paused, Sound, SessionType
<1> QED
  BY <1>1 DEF Sound, SessionType, Restorable, ZerosBeforeRange, Recording, Phases

LEMMA ResetIsSound ==
    ASSUME NEW s, Sound(s), NEW g \in Groups, MayChange(s, g)
    PROVE  Sound(Reset(s, g)) /\ Reset(s, g).phase # "FINALIZED"
<1> DEFINE r == [j \in Joints |->
                  IF GroupOf[j] = g THEN EmptyRow(None) ELSE s.rows[j]]
           mine == s.active \in {g, NoGroup}
<1>1. Reset(s, g) = [rows |-> r,
                     phase |-> IF mine THEN "IDLE" ELSE s.phase,
                     active |-> IF mine THEN NoGroup ELSE s.active]
  BY DEF Reset, InRows
<1>2. ASSUME NEW j \in Joints PROVE r[j] \in Rows /\ RowRestores(j, r[j])
  BY EmptyRowRestores DEF Sound, SessionType, Restorable
<1>3. r \in [Joints -> Rows]
  BY <1>2
<1> HIDE DEF r
<1>4. ~mine => ~Recording(s)
  BY DEF MayChange
<1> QED
  BY <1>1, <1>2, <1>3, <1>4
  DEF Sound, SessionType, Restorable, ZerosBeforeRange, Recording, Phases, MayChange

LEMMA FinalizedIsSound ==
    ASSUME NEW s, Sound(s), AllCaptured(s.rows)
    PROVE  Sound(Finalized(s)) /\ Finalized(s).rows = s.rows
BY DEF Finalized, Sound, SessionType, Restorable, ZerosBeforeRange, Recording, Phases,
       AllCaptured

-----------------------------------------------------------------------------
(* Types, and what is saved *)

Inv == TypeOK /\ Sound(session) /\ Sound(saved)

(* However a command ends, both sessions are sound.                        *)
LEMMA AnyEndIsSound ==
    ASSUME NEW s, Sound(s), Sound(saved), saveError \in BOOLEAN,
           Persisted(s) \/ Rejected(s)
    PROVE  Sound(session') /\ Sound(saved') /\ saveError' \in BOOLEAN
<1>1. CASE Save(s)
  BY <1>1 DEF Save
<1>2. CASE ~Recording(s) /\ session' = s /\ UNCHANGED <<saveError, saved>>
  BY <1>2
<1>3. CASE Recording(s) /\ PauseUnsaved(s)
  BY <1>3, PausedIsSound DEF PauseUnsaved
<1> QED
  BY <1>1, <1>2, <1>3 DEF Persisted, Rejected

LEMMA PublishedType ==
    ASSUME NEW rows \in [Joints -> Rows]
    PROVE  Published(rows) \in Results
BY DEF Published, Results, Rows

LEMMA InitInv == Init => Inv
<1> SUFFICES ASSUME Init PROVE Inv
  OBVIOUS
<1>1. Sound(session) /\ Sound(saved)
  BY NewSessionIsSound DEF Init
<1>2. NewSession.rows \in [Joints -> Rows]
  BY NewSessionIsSound DEF Sound, SessionType
<1>3. result \in Results
  BY <1>2, PublishedType DEF Init, NoResult
<1> QED
  BY <1>1, <1>3 DEF Init, Inv, TypeOK, Sound

(* A handler that leaves the process and the result alone.                 *)
LEMMA ServePreserves ==
    ASSUME Inv, Serve, Sound(session'), Sound(saved'), saveError' \in BOOLEAN
    PROVE  Inv'
BY DEF Inv, TypeOK, Serve, Ready, Sound

LEMMA NextInv == Inv /\ [Next]_vars => Inv'
<1> SUFFICES ASSUME Inv, [Next]_vars PROVE Inv'
  OBVIOUS
<1> USE DEF Inv
<1>0. /\ Sound(session) /\ Sound(saved) /\ saveError \in BOOLEAN
      /\ session.rows \in [Joints -> Rows] /\ saved.rows \in [Joints -> Rows]
  BY DEF TypeOK, SessionType
<1>1. CASE Refuse
  BY <1>0, <1>1, AnyEndIsSound, ServePreserves DEF Refuse
<1>2. ASSUME NEW g \in Groups, Scan(g) PROVE Inv'
  <2>1. PICK x \in Samples(g) :
          LET s == Observed(session, g, x) IN
          IF saveError THEN Rejected(s)
          ELSE session' = s /\ UNCHANGED <<saveError, saved>>
    BY <1>2 DEF Scan
  <2>2. Sound(Observed(session, g, x))
    BY <1>0, ObservedIsSound
  <2>3. Sound(session') /\ Sound(saved') /\ saveError' \in BOOLEAN
    BY <1>0, <2>1, <2>2, AnyEndIsSound
  <2> QED
    BY <1>2, <2>3, ServePreserves DEF Scan
<1>3. ASSUME NEW g \in Groups, Release(g) PROVE Inv'
  BY <1>0, <1>3 DEF Release, Ready, TypeOK
<1>4. ASSUME NEW g \in Groups, CaptureZero(g) PROVE Inv'
  <2>1. PICK x \in [InGroup(g) -> Raw] : Persisted(ZerosSet(session, g, x))
    BY <1>4 DEF CaptureZero
  <2>2. Sound(ZerosSet(session, g, x))
    BY <1>0, ZerosSetIsSound
  <2> QED
    BY <1>0, <1>4, <2>1, <2>2, AnyEndIsSound, ServePreserves DEF CaptureZero
<1>5. ASSUME NEW g \in Groups, UseExistingZero(g) PROVE Inv'
  <2>1. Sound(ZerosSet(session, g, Reference))
    BY <1>0, <1>5, ZerosSetIsSound DEF UseExistingZero, InGroup
  <2> QED
    BY <1>0, <1>5, <2>1, AnyEndIsSound, ServePreserves DEF UseExistingZero
<1>6. ASSUME NEW g \in Groups, StartRange(g) PROVE Inv'
  <2>1. PICK x \in Samples(g) :
          \/ MayStart(session, g, x) /\ Persisted(Started(session, g, x))
          \/ Recording(session) /\ Rejected(Observed(session, g, x))
    BY <1>6 DEF StartRange
  <2>2. MayStart(session, g, x) => Sound(Started(session, g, x))
    BY <1>0, StartedIsSound
  <2>3. Sound(Observed(session, g, x))
    BY <1>0, ObservedIsSound
  <2> QED
    BY <1>0, <1>6, <2>1, <2>2, <2>3, AnyEndIsSound, ServePreserves DEF StartRange
<1>7. ASSUME NEW g \in Groups, FinishRange(g) PROVE Inv'
  <2>1. PICK x \in Samples(g) :
          LET s == Observed(session, g, x) IN
          IF MayFinish(s, g, x) THEN Persisted(Finished(s, g)) ELSE Rejected(s)
    BY <1>7 DEF FinishRange
  <2> DEFINE s == Observed(session, g, x)
  <2>2. Sound(s)
    BY <1>0, ObservedIsSound
  <2>3. MayFinish(s, g, x) => Sound(Finished(s, g))
    BY <2>2, FinishedIsSound
  <2> HIDE DEF s
  <2>4. Sound(session') /\ Sound(saved') /\ saveError' \in BOOLEAN
    BY <1>0, <2>1, <2>2, <2>3, AnyEndIsSound DEF s
  <2> QED
    BY <1>7, <2>4, ServePreserves DEF FinishRange
<1>8. ASSUME NEW g \in Groups, PauseRange(g) PROVE Inv'
  <2>1. Sound(Paused(session))
    BY <1>0, <1>8, PausedIsSound DEF PauseRange, RecordingOf
  <2> QED
    BY <1>0, <1>8, <2>1, AnyEndIsSound, ServePreserves DEF PauseRange
<1>9. ASSUME NEW g \in Groups, ResetGroup(g) PROVE Inv'
  <2>1. Sound(Reset(session, g))
    BY <1>0, <1>9, ResetIsSound DEF ResetGroup
  <2> QED
    BY <1>0, <1>9, <2>1, AnyEndIsSound, ServePreserves DEF ResetGroup
<1>10. CASE Finalize
  <2>1. Sound(session')
    BY <1>0, <1>10, FinalizedIsSound DEF Finalize
  <2>2. result' \in Results
    BY <1>0, <1>10, PublishedType DEF Finalize
  <2> QED
    BY <1>10, <2>1, <2>2 DEF Finalize, TypeOK, Sound, Ready
<1>11. CASE SaveFinalized
  <2>1. Sound(session') /\ Sound(saved') /\ saveError' \in BOOLEAN
    BY <1>0, <1>11, AnyEndIsSound DEF SaveFinalized
  <2> QED
    BY <1>11, <2>1 DEF SaveFinalized, TypeOK, Sound
<1>12. CASE FinalizeAgain
  <2>1. result' \in Results
    BY <1>0, <1>12, PublishedType DEF FinalizeAgain, TypeOK
  <2> QED
    BY <1>12, <2>1 DEF FinalizeAgain, TypeOK
<1>13. CASE SampleRange
  <2>1. session.active \in Groups
    BY <1>0, <1>13 DEF SampleRange, Recording, Sound, Restorable, SessionType
  <2>2. PICK x \in Samples(session.active) :
          LET s == Observed(session, session.active, x) IN
          \/ session' = s /\ UNCHANGED <<saveError, saved>>
          \/ Save(s)
          \/ "save" \in Faults /\ PauseUnsaved(s)
    BY <1>13 DEF SampleRange
  <2> DEFINE s == Observed(session, session.active, x)
  <2>3. Sound(s) /\ Recording(s)
    BY <1>0, <1>13, <2>1, ObservedIsSound DEF SampleRange, Recording
  <2> HIDE DEF s
  <2>4. Sound(session') /\ Sound(saved') /\ saveError' \in BOOLEAN
    BY <1>0, <2>2, <2>3, PausedIsSound DEF s, Save, PauseUnsaved
  <2> QED
    BY <1>13, <2>4, ServePreserves DEF SampleRange
<1>14. CASE Shutdown
  BY <1>0, <1>14, NewSessionIsSound DEF Shutdown, Exit, TypeOK, Sound
<1>15. CASE Crash
  BY <1>0, <1>15, NewSessionIsSound DEF Crash, Exit, TypeOK, Sound
<1>16. CASE Startup
  <2>1. Sound(Recovered)
    BY <1>0, <1>16, PausedIsSound, FinalizedIsSound
    DEF Startup, Startable, Adoptable, Recovered, Restored
  <2> QED
    BY <1>16, <2>1 DEF Startup, Save, TypeOK, Sound
<1>17. CASE Fresh
  BY <1>0, <1>17, NewSessionIsSound, PublishedType
  DEF Fresh, NoResult, TypeOK, Sound, SessionType
<1>18. CASE UNCHANGED vars
  BY <1>18 DEF vars, TypeOK, Sound, SessionType, Restorable, ZerosBeforeRange,
               RowRestores, Sufficient, Spans, Recording
<1> QED
  BY <1>1, <1>2, <1>3, <1>4, <1>5, <1>6, <1>7, <1>8, <1>9, <1>10, <1>11, <1>12,
     <1>13, <1>14, <1>15, <1>16, <1>17, <1>18 DEF Next

(* Every variable keeps its type, the rows of both sessions included.      *)
THEOREM TypeCorrect == Spec => []TypeOK
<1>1. Inv => TypeOK
  BY DEF Inv
<1> QED
  BY <1>1, InitInv, NextInv, PTL DEF Spec

(* Whatever steps, failed saves and crashes came before, the session file  *)
(* passes the checks of restore.                                           *)
THEOREM SavedAlwaysRestores == Spec => []SavedSessionRestores
<1>1. Inv => SavedSessionRestores
  BY DEF Inv, Sound, SavedSessionRestores
<1> QED
  BY <1>1, InitInv, NextInv, PTL DEF Spec

-----------------------------------------------------------------------------
(* Recording and torque *)

(* A step leaves a recording group in released: a group starts only when   *)
(* it is there, leaves it only while none records, and a restarted process *)
(* starts paused.                                                          *)
LEMMA NextReleased ==
    Inv /\ RecordingIsReleased /\ [Next]_vars => RecordingIsReleased'
<1> SUFFICES ASSUME Inv, RecordingIsReleased, [Next]_vars
             PROVE  RecordingIsReleased'
  OBVIOUS
<1> DEFINE Safe(s) == Recording(s) => s.active \in released
<1>0. Sound(session) /\ Safe(session)
  BY DEF Inv, RecordingIsReleased
<1>a. ASSUME NEW s, Safe(s), Sound(s), Persisted(s) \/ Rejected(s),
             released' = released
      PROVE  RecordingIsReleased'
  BY <1>a, PausedIsSound
  DEF Persisted, Rejected, Save, PauseUnsaved, RecordingIsReleased
<1>b. ASSUME NEW g \in Groups, NEW x \in Samples(g)
      PROVE  Safe(Observed(session, g, x)) /\ Sound(Observed(session, g, x))
  BY <1>0, ObservedIsSound DEF Recording
<1>1. CASE Refuse
  BY <1>0, <1>1, <1>a DEF Refuse, Serve
<1>2. ASSUME NEW g \in Groups, Scan(g) PROVE RecordingIsReleased'
  <2>1. PICK x \in Samples(g) :
          LET s == Observed(session, g, x) IN
          IF saveError THEN Rejected(s)
          ELSE session' = s /\ UNCHANGED <<saveError, saved>>
    BY <1>2 DEF Scan
  <2> QED
    BY <1>2, <1>a, <1>b, <2>1 DEF Scan, Serve, RecordingIsReleased
<1>3. ASSUME NEW g \in Groups, Release(g) PROVE RecordingIsReleased'
  BY <1>3 DEF Release, RecordingIsReleased, Recording
<1>4. ASSUME NEW g \in Groups, CaptureZero(g) PROVE RecordingIsReleased'
  <2>1. PICK x \in [InGroup(g) -> Raw] : Persisted(ZerosSet(session, g, x))
    BY <1>4 DEF CaptureZero
  <2>2. Sound(ZerosSet(session, g, x)) /\ Safe(ZerosSet(session, g, x))
    BY <1>0, ZerosSetIsSound DEF Recording
  <2> QED
    BY <1>4, <1>a, <2>1, <2>2 DEF CaptureZero, Serve
<1>5. ASSUME NEW g \in Groups, UseExistingZero(g) PROVE RecordingIsReleased'
  <2>1. Sound(ZerosSet(session, g, Reference)) /\ Safe(ZerosSet(session, g, Reference))
    BY <1>0, <1>5, ZerosSetIsSound DEF UseExistingZero, InGroup, Recording
  <2> QED
    BY <1>5, <1>a, <2>1 DEF UseExistingZero, Serve
<1>6. ASSUME NEW g \in Groups, StartRange(g) PROVE RecordingIsReleased'
  <2>1. PICK x \in Samples(g) :
          \/ MayStart(session, g, x) /\ Persisted(Started(session, g, x))
          \/ Recording(session) /\ Rejected(Observed(session, g, x))
    BY <1>6 DEF StartRange
  <2>2. ASSUME MayStart(session, g, x)
        PROVE  Sound(Started(session, g, x)) /\ Safe(Started(session, g, x))
    <3> DEFINE t == [rows |-> session.rows, phase |-> "RANGE_RECORDING", active |-> g]
    <3>1. Started(session, g, x).active = g
      BY DEF Started, Observed
    <3> QED
      BY <1>0, <1>6, <2>2, <3>1, StartedIsSound DEF StartRange
  <2> QED
    BY <1>6, <1>a, <1>b, <2>1, <2>2 DEF StartRange, Serve
<1>7. ASSUME NEW g \in Groups, FinishRange(g) PROVE RecordingIsReleased'
  <2>1. PICK x \in Samples(g) :
          LET s == Observed(session, g, x) IN
          IF MayFinish(s, g, x) THEN Persisted(Finished(s, g)) ELSE Rejected(s)
    BY <1>7 DEF FinishRange
  <2> DEFINE s == Observed(session, g, x)
  <2>2. Sound(s) /\ Safe(s)
    BY <1>b
  <2>3. MayFinish(s, g, x) => Sound(Finished(s, g)) /\ Safe(Finished(s, g))
    BY <2>2, FinishedIsSound DEF Finished, Recording
  <2> HIDE DEF s
  <2> QED
    BY <1>7, <1>a, <2>1, <2>2, <2>3 DEF FinishRange, Serve, s
<1>8. ASSUME NEW g \in Groups, PauseRange(g) PROVE RecordingIsReleased'
  <2>1. Sound(Paused(session)) /\ Safe(Paused(session))
    BY <1>0, <1>8, PausedIsSound DEF PauseRange, RecordingOf
  <2> QED
    BY <1>8, <1>a, <2>1 DEF PauseRange, Serve
<1>9. ASSUME NEW g \in Groups, ResetGroup(g) PROVE RecordingIsReleased'
  <2>1. Sound(Reset(session, g)) /\ Safe(Reset(session, g))
    BY <1>0, <1>9, ResetIsSound DEF ResetGroup, Reset, Recording
  <2> QED
    BY <1>9, <1>a, <2>1 DEF ResetGroup, Serve
<1>10. CASE Finalize
  BY <1>10 DEF Finalize, Finalized, RecordingIsReleased, Recording
<1>11. CASE SaveFinalized
  BY <1>0, <1>11, <1>a DEF SaveFinalized
<1>12. CASE SampleRange
  <2>1. session.active \in Groups
    BY <1>0, <1>12 DEF SampleRange, Recording, Sound, Restorable, SessionType
  <2>2. PICK x \in Samples(session.active) :
          LET s == Observed(session, session.active, x) IN
          \/ session' = s /\ UNCHANGED <<saveError, saved>>
          \/ Save(s)
          \/ "save" \in Faults /\ PauseUnsaved(s)
    BY <1>12 DEF SampleRange
  <2> DEFINE s == Observed(session, session.active, x)
  <2>3. Sound(s) /\ Recording(s) /\ Safe(s)
    BY <1>0, <1>12, <1>b, <2>1, ObservedIsSound DEF SampleRange, Recording
  <2> HIDE DEF s
  <2>4. session' = s \/ session' = Paused(s)
    BY <2>2 DEF s, Save, PauseUnsaved
  <2> QED
    BY <1>12, <2>3, <2>4, PausedIsSound DEF SampleRange, Serve, RecordingIsReleased
<1>13. CASE Startup
  <2>1. ~Recording(Recovered)
    BY <1>13, PausedIsSound DEF Startup, Recovered, Restored, Finalized, Recording, Inv
  <2> QED
    BY <1>13, <2>1 DEF Startup, Save, RecordingIsReleased
<1>14. CASE Shutdown \/ Crash
  BY <1>14, NewSessionIsSound DEF Shutdown, Crash, Exit, RecordingIsReleased
<1>15. CASE FinalizeAgain \/ Fresh \/ UNCHANGED vars
  BY <1>15 DEF FinalizeAgain, Fresh, vars, RecordingIsReleased, Recording
<1> QED
  BY <1>1, <1>2, <1>3, <1>4, <1>5, <1>6, <1>7, <1>8, <1>9, <1>10, <1>11, <1>12,
     <1>13, <1>14, <1>15 DEF Next

(* A group is recorded only after this process, not an earlier one, has    *)
(* released its torque.                                                    *)
THEOREM OnlyReleasedGroupsRecord == Spec => []RecordingIsReleased
<1>1. Init => RecordingIsReleased
  BY NewSessionIsSound DEF Init, RecordingIsReleased
<1> QED
  BY <1>1, InitInv, NextInv, NextReleased, PTL DEF Spec

-----------------------------------------------------------------------------
(* Restarting *)

FilesAgree ==
    /\ result # NoResult => Adoptable(saved.rows, result)
    /\ saved.phase = "FINALIZED" => result # NoResult

(* The file is the session, but for what a recording group sampled since;  *)
(* a session with a result is finalized.                                   *)
Current ==
    /\ FilesAgree
    /\ mode = "ready" => /\ ~Recording(session) => saved = session
                         /\ result # NoResult => session.phase = "FINALIZED"
    /\ mode = "publishing" => /\ session.phase = "FINALIZED"
                              /\ session.rows = saved.rows
                              /\ result # NoResult

LEMMA PublishedIsAResult ==
    ASSUME NEW rows \in [Joints -> Rows], AllCaptured(rows)
    PROVE  Published(rows) # NoResult
<1>1. PICK j \in Joints : TRUE
  BY JointsAssumption
<1>2. Published(rows)[j].zero # None
  BY <1>1 DEF AllCaptured, Sufficient, Published
<1>3. NoResult[j].zero = None
  BY <1>1 DEF NoResult, Published, NewSession, EmptyRow
<1> QED
  BY <1>2, <1>3

(* A handler that saves keeps the file current.                            *)
LEMMA SavingKeepsCurrent ==
    ASSUME Faults = {}, Current, Serve, session.phase # "FINALIZED",
           NEW s, s.phase # "FINALIZED", Persisted(s) \/ (Recording(s) /\ Rejected(s))
    PROVE  Current'
<1>1. Save(s)
  BY DEF Persisted, Rejected
<1>2. mode = "ready" /\ mode' = "ready" /\ result' = result
  BY DEF Serve, Ready
<1>3. result = NoResult
  BY <1>2 DEF Current
<1> QED
  BY <1>1, <1>2, <1>3 DEF Save, Current, FilesAgree

(* A step that changes nothing, or only samples, keeps the file current.   *)
LEMMA SamplingKeepsCurrent ==
    ASSUME Current, Serve, UNCHANGED saved,
           session' = session \/ (Recording(session) /\ Recording(session'))
    PROVE  Current'
BY DEF Current, FilesAgree, Serve, Ready, Adoptable, AllCaptured, Sufficient, Spans,
       Recording, NoResult, Published

LEMMA NextCurrent ==
    ASSUME Faults = {}
    PROVE  Inv /\ Current /\ [Next]_vars => Current'
<1> SUFFICES ASSUME Inv, Current, [Next]_vars PROVE Current'
  OBVIOUS
<1>0. /\ Sound(session) /\ Sound(saved)
      /\ session.rows \in [Joints -> Rows]
  BY DEF Inv, TypeOK, SessionType
<1>b. ASSUME NEW g \in Groups, NEW x \in Samples(g)
      PROVE  /\ Sound(Observed(session, g, x))
             /\ Observed(session, g, x).phase = session.phase
             /\ ~Recording(session) => Observed(session, g, x) = session
  BY <1>0, ObservedIsSound DEF Observed, RecordingOf
<1>1. CASE Refuse
  <2>1. CASE Recording(session)
    BY <1>1, <2>1, SavingKeepsCurrent DEF Refuse, Recording
  <2>2. CASE ~Recording(session)
    BY <1>1, <2>2, SamplingKeepsCurrent DEF Refuse, Rejected
  <2> QED
    BY <2>1, <2>2
<1>2. ASSUME NEW g \in Groups, Scan(g) PROVE Current'
  <2>1. PICK x \in Samples(g) :
          LET s == Observed(session, g, x) IN
          IF saveError THEN Rejected(s)
          ELSE session' = s /\ UNCHANGED <<saveError, saved>>
    BY <1>2 DEF Scan
  <2> DEFINE s == Observed(session, g, x)
  <2>2. /\ s.phase = session.phase
        /\ ~Recording(session) => s = session
    BY <1>b
  <2>3. Serve
    BY <1>2 DEF Scan
  <2> HIDE DEF s
  <2>4. CASE saveError /\ Recording(session)
    BY <2>1, <2>2, <2>3, <2>4, SavingKeepsCurrent DEF s, Recording
  <2>5. CASE saveError /\ ~Recording(session)
    BY <2>1, <2>2, <2>3, <2>5, SamplingKeepsCurrent DEF s, Rejected
  <2>6. CASE ~saveError
    BY <2>1, <2>2, <2>3, <2>6, SamplingKeepsCurrent DEF s, Recording
  <2> QED
    BY <2>4, <2>5, <2>6
<1>3. ASSUME NEW g \in Groups, Release(g) PROVE Current'
  BY <1>3 DEF Release, Current, FilesAgree
<1>4. ASSUME NEW g \in Groups, CaptureZero(g) PROVE Current'
  <2>1. PICK x \in [InGroup(g) -> Raw] : Persisted(ZerosSet(session, g, x))
    BY <1>4 DEF CaptureZero
  <2>2. ZerosSet(session, g, x).phase # "FINALIZED"
    BY <1>0, ZerosSetIsSound
  <2> QED
    BY <1>4, <2>1, <2>2, SavingKeepsCurrent DEF CaptureZero, MaySetZeros, MayChange
<1>5. ASSUME NEW g \in Groups, UseExistingZero(g) PROVE Current'
  <2>1. ZerosSet(session, g, Reference).phase # "FINALIZED"
    BY <1>0, <1>5, ZerosSetIsSound DEF UseExistingZero, InGroup
  <2> QED
    BY <1>5, <2>1, SavingKeepsCurrent DEF UseExistingZero, MaySetZeros, MayChange
<1>6. ASSUME NEW g \in Groups, StartRange(g) PROVE Current'
  <2>1. PICK x \in Samples(g) :
          \/ MayStart(session, g, x) /\ Persisted(Started(session, g, x))
          \/ Recording(session) /\ Rejected(Observed(session, g, x))
    BY <1>6 DEF StartRange
  <2>2. MayStart(session, g, x) => Started(session, g, x).phase # "FINALIZED"
    BY <1>0, StartedIsSound
  <2>3. Observed(session, g, x).phase = session.phase
    BY <1>b
  <2>4. Serve /\ session.phase # "FINALIZED"
    BY <1>6 DEF StartRange, MayChange
  <2> QED
    BY <2>1, <2>2, <2>3, <2>4, SavingKeepsCurrent DEF Recording
<1>7. ASSUME NEW g \in Groups, FinishRange(g) PROVE Current'
  <2>1. PICK x \in Samples(g) :
          LET s == Observed(session, g, x) IN
          IF MayFinish(s, g, x) THEN Persisted(Finished(s, g)) ELSE Rejected(s)
    BY <1>7 DEF FinishRange
  <2> DEFINE s == Observed(session, g, x)
  <2>2. Sound(s) /\ Recording(s)
    BY <1>7, <1>b DEF FinishRange, RecordingOf, Recording
  <2>3. MayFinish(s, g, x) => Finished(s, g).phase # "FINALIZED"
    BY <2>2, FinishedIsSound
  <2> HIDE DEF s
  <2>4. Serve /\ session.phase # "FINALIZED"
    BY <1>7 DEF FinishRange, RecordingOf, Recording
  <2> QED
    BY <2>1, <2>2, <2>3, <2>4, SavingKeepsCurrent DEF s, Recording
<1>8. ASSUME NEW g \in Groups, PauseRange(g) PROVE Current'
  <2>1. Paused(session).phase # "FINALIZED"
    BY <1>0 DEF Paused, Sound, SessionType
  <2> QED
    BY <1>8, <2>1, SavingKeepsCurrent DEF PauseRange, RecordingOf, Recording
<1>9. ASSUME NEW g \in Groups, ResetGroup(g) PROVE Current'
  <2>1. MayChange(session, g)
    BY <1>9 DEF ResetGroup
  <2>2. Reset(session, g).phase # "FINALIZED"
    BY <1>0, <2>1, ResetIsSound
  <2> QED
    BY <1>9, <2>1, <2>2, SavingKeepsCurrent DEF ResetGroup, MayChange
<1>10. CASE Finalize
  <2>1. saved = session
    BY <1>10 DEF Finalize, Ready, Current, Recording
  <2>2. result' # NoResult
    BY <1>0, <1>10, PublishedIsAResult DEF Finalize
  <2>3. Finalized(session).phase = "FINALIZED" /\ Finalized(session).rows = session.rows
    BY DEF Finalized
  <2>4. mode' = "publishing" /\ session' = Finalized(session) /\ saved' = saved
    BY <1>10 DEF Finalize
  <2>5. Adoptable(saved'.rows, result')
    BY <1>10, <2>1, <2>4 DEF Finalize, Adoptable
  <2>6. NoResult' = NoResult
    BY DEF NoResult, Published, NewSession
  <2> HIDE DEF NoResult
  <2> QED
    BY <2>1, <2>2, <2>3, <2>4, <2>5, <2>6 DEF Current, FilesAgree
<1>11. CASE SaveFinalized
  <2>1. /\ mode = "publishing" /\ mode' = "ready" /\ result' = result
        /\ session' = session /\ saved' = session
    BY <1>11 DEF SaveFinalized, Persisted, Save
  <2> QED
    BY <2>1 DEF Current, FilesAgree, Adoptable
<1>12. CASE FinalizeAgain
  BY <1>12 DEF FinalizeAgain, Ready, Current
<1>13. CASE SampleRange
  <2>1. session.active \in Groups
    BY <1>0, <1>13 DEF SampleRange, Recording, Sound, Restorable, SessionType
  <2>2. PICK x \in Samples(session.active) :
          LET s == Observed(session, session.active, x) IN
          \/ session' = s /\ UNCHANGED <<saveError, saved>>
          \/ Save(s)
          \/ "save" \in Faults /\ PauseUnsaved(s)
    BY <1>13 DEF SampleRange
  <2> DEFINE s == Observed(session, session.active, x)
  <2>3. Recording(s)
    BY <1>13, <1>b, <2>1 DEF SampleRange, Recording
  <2> HIDE DEF s
  <2>4. Serve /\ Recording(session)
    BY <1>13 DEF SampleRange
  <2>5. CASE session' = s /\ UNCHANGED <<saveError, saved>>
    BY <2>3, <2>4, <2>5, SamplingKeepsCurrent
  <2>6. CASE Save(s)
    BY <2>3, <2>4, <2>6, SavingKeepsCurrent DEF Persisted, Recording
  <2> QED
    BY <2>2, <2>5, <2>6 DEF s
<1>14. CASE Shutdown
  <2>1. /\ mode = "ready" /\ mode' = "down" /\ saved' = session /\ result' = result
    BY <1>14 DEF Shutdown, Ready, Exit
  <2> QED
    BY <2>1 DEF Current, FilesAgree, Recording
<1>15. CASE Crash
  <2>1. mode' = "down" /\ saved' = saved /\ result' = result
    BY <1>15 DEF Crash, Exit
  <2> QED
    BY <2>1 DEF Current, FilesAgree
<1>16. CASE Startup
  <2>1. /\ mode' = "ready" /\ result' = result
        /\ session' = Recovered /\ saved' = Recovered
    BY <1>16 DEF Startup, Save
  <2>2. result # NoResult => /\ Recovered.phase = "FINALIZED"
                             /\ Recovered.rows = saved.rows
    BY DEF Recovered, Finalized
  <2>3. result = NoResult => Recovered.phase # "FINALIZED"
    BY <1>0 DEF Recovered, Restored, Paused, Current, FilesAgree, Sound, SessionType
  <2> QED
    BY <2>1, <2>2, <2>3 DEF Current, FilesAgree
<1>17. CASE Fresh
  <2>1. mode' = "down" /\ saved' = NewSession /\ result' = NoResult
    BY <1>17 DEF Fresh
  <2>2. NewSession.phase # "FINALIZED"
    BY DEF NewSession
  <2> QED
    BY <2>1, <2>2 DEF Current, FilesAgree
<1>18. CASE UNCHANGED vars
  BY <1>18 DEF vars, Current, FilesAgree, Recording
<1> QED
  BY <1>1, <1>2, <1>3, <1>4, <1>5, <1>6, <1>7, <1>8, <1>9, <1>10, <1>11, <1>12,
     <1>13, <1>14, <1>15, <1>16, <1>17, <1>18 DEF Next

(* When nothing fails to be saved, a server that stopped or died anywhere, *)
(* between publishing the result and saving the session included, starts   *)
(* again on the files it left.                                             *)
THEOREM ServerRestarts ==
    ASSUME Faults = {}
    PROVE  Spec => []RestartRecovers
<1>1. Init => Current
  BY NewSessionIsSound DEF Init, Current, FilesAgree, NewSession
<1>2. Inv /\ Current => RestartRecovers
  BY DEF Inv, Sound, Current, FilesAgree, RestartRecovers, Startable
<1> QED
  BY <1>1, <1>2, InitInv, NextInv, NextCurrent, PTL DEF Spec

-----------------------------------------------------------------------------
(* Finalized sessions *)

Final(s) == s.phase = "FINALIZED"

(* While the server runs, only a finalized session has a finalized file:   *)
(* what is saved over it never goes back.  A server that is down holds no  *)
(* finalized session.                                                      *)
FinalStays ==
    /\ FinalizedIsPublished
    /\ mode # "down" => (Final(saved) => Final(session))
    /\ mode = "down" => ~Final(session)

(* What the next state has to satisfy, of the two sessions it holds        *)
LEMMA PublishedNext ==
    /\ IsPublished(session)' <=> (Final(session') => Adoptable(session'.rows, result'))
    /\ IsPublished(saved)' <=> (Final(saved') => Adoptable(saved'.rows, result'))
BY DEF IsPublished, Final, Adoptable, AllCaptured, Sufficient, Spans, Published

(* A command that is only served while the session is open, and leaves it  *)
(* open, however it ends                                                   *)
LEMMA OpenStaysOpen ==
    ASSUME FinalStays, Serve, ~Final(session),
           NEW s, ~Final(s), Sound(s), Persisted(s) \/ Rejected(s)
    PROVE  FinalStays'
<1>1. /\ session' = s \/ session' = Paused(s)
      /\ saved' = saved \/ saved' = s
  BY DEF Persisted, Rejected, Save, PauseUnsaved
<1>2. ~Final(Paused(s))
  BY DEF Paused, Sound, SessionType, Final
<1>3. mode = "ready" /\ mode' = "ready"
  BY DEF Serve, Ready
<1> QED
  BY <1>1, <1>2, <1>3 DEF FinalStays, FinalizedIsPublished, IsPublished, Final

(* A step that changes at most the rows of a session still being recorded  *)
LEMMA SampledStaysOpen ==
    ASSUME FinalStays, Serve, UNCHANGED saved,
           session' = session \/ (Recording(session) /\ Recording(session'))
    PROVE  FinalStays'
<1>1. mode = "ready" /\ mode' = "ready" /\ result' = result
  BY DEF Serve, Ready
<1>2. CASE session' = session
  BY <1>1, <1>2 DEF FinalStays, FinalizedIsPublished, IsPublished, Final,
     Adoptable, AllCaptured, Sufficient, Spans, Published
<1>3. CASE Recording(session) /\ Recording(session')
  BY <1>1, <1>3 DEF FinalStays, FinalizedIsPublished, IsPublished, Final, Recording
<1> QED
  BY <1>2, <1>3

LEMMA NextFinalStays == Inv /\ FinalStays /\ [Next]_vars => FinalStays'
<1> SUFFICES ASSUME Inv, FinalStays, [Next]_vars PROVE FinalStays'
  OBVIOUS
<1>0. /\ Sound(session) /\ Sound(saved)
      /\ session.rows \in [Joints -> Rows]
  BY DEF Inv, TypeOK, SessionType
<1>b. ASSUME NEW g \in Groups, NEW x \in Samples(g)
      PROVE  /\ Sound(Observed(session, g, x))
             /\ Observed(session, g, x).phase = session.phase
             /\ ~Recording(session) => Observed(session, g, x) = session
  BY <1>0, ObservedIsSound DEF Observed, RecordingOf
<1>1. CASE Refuse
  <2>1. CASE Recording(session)
    BY <1>0, <1>1, <2>1, OpenStaysOpen DEF Refuse, Recording, Final
  <2>2. CASE ~Recording(session)
    BY <1>1, <2>2, SampledStaysOpen DEF Refuse, Rejected
  <2> QED
    BY <2>1, <2>2
<1>2. ASSUME NEW g \in Groups, Scan(g) PROVE FinalStays'
  <2>1. PICK x \in Samples(g) :
          LET s == Observed(session, g, x) IN
          IF saveError THEN Rejected(s)
          ELSE session' = s /\ UNCHANGED <<saveError, saved>>
    BY <1>2 DEF Scan
  <2> DEFINE s == Observed(session, g, x)
  <2>2. /\ Sound(s) /\ s.phase = session.phase
        /\ ~Recording(session) => s = session
    BY <1>b
  <2>3. Serve
    BY <1>2 DEF Scan
  <2> HIDE DEF s
  <2>4. CASE saveError /\ Recording(session)
    BY <2>1, <2>2, <2>3, <2>4, OpenStaysOpen DEF s, Recording, Final
  <2>5. CASE saveError /\ ~Recording(session)
    BY <2>1, <2>2, <2>3, <2>5, SampledStaysOpen DEF s, Rejected
  <2>6. CASE ~saveError
    BY <2>1, <2>2, <2>3, <2>6, SampledStaysOpen DEF s, Recording
  <2> QED
    BY <2>4, <2>5, <2>6
<1>3. ASSUME NEW g \in Groups, Release(g) PROVE FinalStays'
  BY <1>3 DEF Release, FinalStays, FinalizedIsPublished, IsPublished, Final,
     Adoptable, AllCaptured, Sufficient, Spans, Published
<1>4. ASSUME NEW g \in Groups, CaptureZero(g) PROVE FinalStays'
  <2>1. PICK x \in [InGroup(g) -> Raw] : Persisted(ZerosSet(session, g, x))
    BY <1>4 DEF CaptureZero
  <2>2. /\ Sound(ZerosSet(session, g, x))
        /\ ~Final(ZerosSet(session, g, x))
    BY <1>0, ZerosSetIsSound DEF Final
  <2> QED
    BY <1>4, <2>1, <2>2, OpenStaysOpen DEF CaptureZero, MaySetZeros, MayChange, Final
<1>5. ASSUME NEW g \in Groups, UseExistingZero(g) PROVE FinalStays'
  <2>1. /\ Sound(ZerosSet(session, g, Reference))
        /\ ~Final(ZerosSet(session, g, Reference))
    BY <1>0, <1>5, ZerosSetIsSound DEF UseExistingZero, InGroup, Final
  <2> QED
    BY <1>5, <2>1, OpenStaysOpen DEF UseExistingZero, MaySetZeros, MayChange, Final
<1>6. ASSUME NEW g \in Groups, StartRange(g) PROVE FinalStays'
  <2>1. PICK x \in Samples(g) :
          \/ MayStart(session, g, x) /\ Persisted(Started(session, g, x))
          \/ Recording(session) /\ Rejected(Observed(session, g, x))
    BY <1>6 DEF StartRange
  <2>2. MayStart(session, g, x) =>
          Sound(Started(session, g, x)) /\ ~Final(Started(session, g, x))
    BY <1>0, StartedIsSound DEF Final
  <2>3. Sound(Observed(session, g, x)) /\ Observed(session, g, x).phase = session.phase
    BY <1>b
  <2>4. Serve /\ ~Final(session)
    BY <1>6 DEF StartRange, MayChange, Final
  <2> QED
    BY <2>1, <2>2, <2>3, <2>4, OpenStaysOpen DEF Final
<1>7. ASSUME NEW g \in Groups, FinishRange(g) PROVE FinalStays'
  <2>1. PICK x \in Samples(g) :
          LET s == Observed(session, g, x) IN
          IF MayFinish(s, g, x) THEN Persisted(Finished(s, g)) ELSE Rejected(s)
    BY <1>7 DEF FinishRange
  <2> DEFINE s == Observed(session, g, x)
  <2>2. Sound(s) /\ s.phase = session.phase
    BY <1>b
  <2>3. MayFinish(s, g, x) => Sound(Finished(s, g)) /\ ~Final(Finished(s, g))
    BY <2>2, FinishedIsSound DEF Final
  <2> HIDE DEF s
  <2>4. Serve /\ ~Final(session)
    BY <1>7 DEF FinishRange, RecordingOf, Recording, Final
  <2> QED
    BY <2>1, <2>2, <2>3, <2>4, OpenStaysOpen DEF s, Final
<1>8. ASSUME NEW g \in Groups, PauseRange(g) PROVE FinalStays'
  <2>1. /\ Sound(Paused(session)) /\ ~Final(Paused(session))
    BY <1>0, <1>8, PausedIsSound
    DEF PauseRange, RecordingOf, Paused, Sound, SessionType, Final
  <2> QED
    BY <1>8, <2>1, OpenStaysOpen DEF PauseRange, RecordingOf, Recording, Final
<1>9. ASSUME NEW g \in Groups, ResetGroup(g) PROVE FinalStays'
  <2>1. Sound(Reset(session, g)) /\ ~Final(Reset(session, g))
    BY <1>0, <1>9, ResetIsSound DEF ResetGroup, Final
  <2> QED
    BY <1>9, <2>1, OpenStaysOpen DEF ResetGroup, MayChange, Final
<1>10. CASE Finalize
  <2>1. ~Final(session) /\ ~Final(saved) /\ saved' = saved
    BY <1>10 DEF Finalize, Ready, FinalStays, Final
  <2>2. CASE session' = session
    BY <2>1, <2>2 DEF FinalStays, FinalizedIsPublished, IsPublished, Final
  <2>3. CASE session' = Finalized(session)
    <3>1. Adoptable(session'.rows, result') /\ Final(session')
      BY <1>10, <2>3 DEF Finalize, Finalized, Adoptable, Final
    <3> QED
      BY <1>10, <2>1, <3>1, PublishedNext DEF Finalize, Ready, FinalStays, FinalizedIsPublished, Final
  <2> QED
    BY <1>10, <2>2, <2>3 DEF Finalize
<1>11. CASE SaveFinalized
  <2>1. /\ result' = result /\ mode # "down"
        /\ saved' = saved \/ saved' = session
        /\ session' = session \/ session' = Paused(session)
        /\ session' = session \/ Recording(session)
    BY <1>11 DEF SaveFinalized, Persisted, Rejected, Save, PauseUnsaved
  <2>2. Recording(session) => ~Final(Paused(session)) /\ ~Final(session)
    BY <1>0, PausedIsSound DEF Paused, Sound, SessionType, Final, Recording
  <2>3. IsPublished(session)' /\ IsPublished(saved)'
    BY <2>1, <2>2, PublishedNext DEF FinalStays, FinalizedIsPublished, IsPublished, Final
  <2>4. mode' = "ready"
    BY <1>11 DEF SaveFinalized
  <2> QED
    BY <2>1, <2>2, <2>3, <2>4 DEF FinalStays, FinalizedIsPublished, Final
<1>12. CASE FinalizeAgain
  <2>1. ~Final(session) /\ ~Final(saved) /\ UNCHANGED <<session, saved>>
    BY <1>12 DEF FinalizeAgain, Ready, FinalStays, Final
  <2> QED
    BY <2>1 DEF FinalStays, FinalizedIsPublished, IsPublished, Final
<1>13. CASE SampleRange
  <2>1. session.active \in Groups
    BY <1>0, <1>13 DEF SampleRange, Recording, Sound, Restorable, SessionType
  <2>2. PICK x \in Samples(session.active) :
          LET s == Observed(session, session.active, x) IN
          \/ session' = s /\ UNCHANGED <<saveError, saved>>
          \/ Save(s)
          \/ "save" \in Faults /\ PauseUnsaved(s)
    BY <1>13 DEF SampleRange
  <2> DEFINE s == Observed(session, session.active, x)
  <2>3. Sound(s) /\ Recording(s)
    BY <1>13, <1>b, <2>1 DEF SampleRange, Recording
  <2> HIDE DEF s
  <2>4. Serve /\ Recording(session)
    BY <1>13 DEF SampleRange
  <2>5. CASE session' = s /\ UNCHANGED <<saveError, saved>>
    BY <2>3, <2>4, <2>5, SampledStaysOpen
  <2>6. CASE Save(s) \/ ("save" \in Faults /\ PauseUnsaved(s))
    BY <2>3, <2>4, <2>6, OpenStaysOpen DEF Persisted, Rejected, Recording, Final
  <2> QED
    BY <2>2, <2>5, <2>6 DEF s
<1>14. CASE Shutdown \/ Crash
  <2>1. /\ mode' = "down" /\ result' = result /\ session' = NewSession
        /\ saved' = saved \/ saved' = session
    BY <1>14 DEF Shutdown, Crash, Exit
  <2>2. ~Final(NewSession)
    BY DEF NewSession, Final
  <2> QED
    BY <2>1, <2>2 DEF FinalStays, FinalizedIsPublished, IsPublished, Final
<1>15. CASE Startup
  <2>1. /\ result' = result /\ session' = Recovered /\ saved' = Recovered
        /\ mode' = "ready"
    BY <1>15 DEF Startup, Save
  <2>2. Final(Recovered) => Recovered.rows = saved.rows /\ Adoptable(saved.rows, result)
    <3>1. CASE result = NoResult
      BY <1>0, <1>15, <3>1
      DEF Startup, Startable, Recovered, Restored, Paused, Sound, SessionType, Final
    <3>2. CASE result # NoResult
      BY <1>15, <3>2 DEF Startup, Startable, Recovered, Finalized
    <3> QED
      BY <3>1, <3>2
  <2> QED
    BY <2>1, <2>2, PublishedNext DEF FinalStays, FinalizedIsPublished, Final
<1>16. CASE Fresh
  <2>1. mode' = "down" /\ mode = "down" /\ session' = session /\ saved' = NewSession
    BY <1>16 DEF Fresh
  <2>2. ~Final(NewSession)
    BY DEF NewSession, Final
  <2>3. ~Final(session)
    BY <2>1 DEF FinalStays
  <2> QED
    BY <2>1, <2>2, <2>3 DEF FinalStays, FinalizedIsPublished, IsPublished, Final
<1>17. CASE UNCHANGED vars
  BY <1>17 DEF vars, FinalStays, FinalizedIsPublished, IsPublished, Final,
     Adoptable, AllCaptured, Sufficient, Spans, Published
<1> QED
  BY <1>1, <1>2, <1>3, <1>4, <1>5, <1>6, <1>7, <1>8, <1>9, <1>10, <1>11, <1>12,
     <1>13, <1>14, <1>15, <1>16, <1>17 DEF Next

(* Whatever fails and wherever the process dies, a session that calls      *)
(* itself finalized, in memory or in the file, is the result on the disk.  *)
THEOREM FinalizedAlwaysPublished == Spec => []FinalizedIsPublished
<1>1. Init => FinalStays
  BY DEF Init, FinalStays, FinalizedIsPublished, IsPublished, NewSession, Final
<1>2. FinalStays => FinalizedIsPublished
  BY DEF FinalStays
<1> QED
  BY <1>1, <1>2, InitInv, NextInv, NextFinalStays, PTL DEF Spec

=============================================================================
