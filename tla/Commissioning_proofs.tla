----------------------- MODULE Commissioning_proofs -----------------------
(***************************************************************************)
(* That what is solved, shown as current and published was measured as it  *)
(* says, that what is selected is whole, and that no motion of a sweep     *)
(* goes on unanswered for: for any number of poses, places, versions and   *)
(* mishaps.  First the sweep, then the drafts of a site and of a unit with *)
(* the catalog both publish into, then the store with the workbench.       *)
(***************************************************************************)
EXTENDS MCCommissioning, FiniteSetTheorems, SequenceTheorems, WellFoundedInduction,
        NaturalsInduction, TLAPS

(* At most one of something, and programs of a few steps.                  *)
Maybe(S) == {<< >>} \cup {<<x>> : x \in S}

(* One tuple after another.                                                *)
LEMMA Joined ==
  ASSUME NEW S, NEW s \in Seq(S), NEW t \in Seq(S), NEW u \in Seq(S),
         Len(u) = Len(s) + Len(t), \A i \in 1..Len(s) : s[i] = u[i],
         \A i \in 1..Len(t) : t[i] = u[Len(s) + i]
  PROVE  s \o t = u
<1>1. /\ s \o t \in Seq(S) /\ Len(s \o t) = Len(s) + Len(t)
      /\ \A i \in 1..Len(s) + Len(t) :
           (s \o t)[i] = IF i <= Len(s) THEN s[i] ELSE t[i - Len(s)]
  BY ConcatProperties
<1>2. Len(s) \in Nat /\ Len(t) \in Nat
  BY LenProperties
<1>3. ASSUME NEW i \in 1..Len(u) PROVE (s \o t)[i] = u[i]
  <2>1. CASE i <= Len(s)
    BY <1>1, <1>2, <2>1
  <2>2. CASE ~(i <= Len(s))
    <3>1. i - Len(s) \in 1..Len(t) /\ Len(s) + (i - Len(s)) = i
      BY <1>2, <2>2
    <3>2. t[i - Len(s)] = u[i]
      BY <3>1
    <3> QED BY <1>1, <1>2, <2>2, <3>2
  <2> QED BY <2>1, <2>2
<1> QED BY <1>1, <1>2, <1>3, SeqEqual

LEMMA JoinedPrograms ==
  ASSUME NEW a, NEW b, NEW c, NEW d, NEW e
  PROVE  <<a, b>> \o <<c, d, e>> = <<a, b, c, d, e>>
<1> DEFINE S == {a, b, c, d, e}
           s == <<a, b>>
           t == <<c, d, e>>
           u == <<a, b, c, d, e>>
<1>1. s \in Seq(S) /\ t \in Seq(S) /\ u \in Seq(S)
  OBVIOUS
<1>2. Len(s) = 2 /\ Len(t) = 3 /\ Len(u) = 5
  OBVIOUS
<1>3. /\ s[1] = u[1] /\ s[2] = u[2]
      /\ t[1] = u[3] /\ t[2] = u[4] /\ t[3] = u[5]
  OBVIOUS
<1> HIDE DEF S, s, t, u
<1>4. /\ \A i \in 1..Len(s) : s[i] = u[i]
      /\ \A i \in 1..Len(t) : t[i] = u[Len(s) + i]
  BY <1>2, <1>3
<1>5. Len(u) = Len(s) + Len(t)
  BY <1>2
<1>6. s \o t = u
  BY <1>1, <1>4, <1>5, Joined
<1> QED BY <1>6 DEF s, t, u

LEMMA JoinedPairs ==
  ASSUME NEW a, NEW b, NEW c, NEW d
  PROVE  <<a, b>> \o <<c, d>> = <<a, b, c, d>>
<1> DEFINE S == {a, b, c, d}
           s == <<a, b>>
           t == <<c, d>>
           u == <<a, b, c, d>>
<1>1. s \in Seq(S) /\ t \in Seq(S) /\ u \in Seq(S)
  OBVIOUS
<1>2. Len(s) = 2 /\ Len(t) = 2 /\ Len(u) = 4
  OBVIOUS
<1>3. /\ s[1] = u[1] /\ s[2] = u[2]
      /\ t[1] = u[3] /\ t[2] = u[4]
  OBVIOUS
<1> HIDE DEF S, s, t, u
<1>4. /\ \A i \in 1..Len(s) : s[i] = u[i]
      /\ \A i \in 1..Len(t) : t[i] = u[Len(s) + i]
  BY <1>2, <1>3
<1>5. Len(u) = Len(s) + Len(t)
  BY <1>2
<1>6. s \o t = u
  BY <1>1, <1>4, <1>5, Joined
<1> QED BY <1>6 DEF s, t, u

LEMMA JoinedWithOne ==
  ASSUME NEW a, NEW b, NEW c
  PROVE  <<a, b>> \o <<c>> = <<a, b, c>>
<1> DEFINE S == {a, b, c}
           s == <<a, b>>
           t == <<c>>
           u == <<a, b, c>>
<1>1. s \in Seq(S) /\ t \in Seq(S) /\ u \in Seq(S)
  OBVIOUS
<1>2. Len(s) = 2 /\ Len(t) = 1 /\ Len(u) = 3
  OBVIOUS
<1>3. /\ s[1] = u[1] /\ s[2] = u[2]
      /\ t[1] = u[3]
  OBVIOUS
<1> HIDE DEF S, s, t, u
<1>4. /\ \A i \in 1..Len(s) : s[i] = u[i]
      /\ \A i \in 1..Len(t) : t[i] = u[Len(s) + i]
  BY <1>2, <1>3
<1>5. Len(u) = Len(s) + Len(t)
  BY <1>2
<1>6. s \o t = u
  BY <1>1, <1>4, <1>5, Joined
<1> QED BY <1>6 DEF s, t, u

LEMMA FiveAndOne ==
  ASSUME NEW a, NEW b, NEW c, NEW d, NEW e, NEW f
  PROVE  <<a, b, c, d, e>> \o <<f>> = <<a, b, c, d, e, f>>
<1> DEFINE S == {a, b, c, d, e, f}
           s == <<a, b, c, d, e>>
           t == <<f>>
           u == <<a, b, c, d, e, f>>
<1>1. s \in Seq(S) /\ t \in Seq(S) /\ u \in Seq(S)
  OBVIOUS
<1>2. Len(s) = 5 /\ Len(t) = 1 /\ Len(u) = 6
  OBVIOUS
<1>3. /\ s[1] = u[1] /\ s[2] = u[2] /\ s[3] = u[3] /\ s[4] = u[4] /\ s[5] = u[5]
      /\ t[1] = u[6]
  OBVIOUS
<1> HIDE DEF S, s, t, u
<1>4. /\ \A i \in 1..Len(s) : s[i] = u[i]
      /\ \A i \in 1..Len(t) : t[i] = u[Len(s) + i]
  BY <1>2, <1>3
<1>5. Len(u) = Len(s) + Len(t)
  BY <1>2
<1>6. s \o t = u
  BY <1>1, <1>4, <1>5, Joined
<1> QED BY <1>6 DEF s, t, u

LEMMA OneAndSix ==
  ASSUME NEW a, NEW b, NEW c, NEW d, NEW e, NEW f, NEW g
  PROVE  <<a>> \o <<b, c, d, e, f, g>> = <<a, b, c, d, e, f, g>>
<1> DEFINE S == {a, b, c, d, e, f, g}
           s == <<a>>
           t == <<b, c, d, e, f, g>>
           u == <<a, b, c, d, e, f, g>>
<1>1. s \in Seq(S) /\ t \in Seq(S) /\ u \in Seq(S)
  OBVIOUS
<1>2. Len(s) = 1 /\ Len(t) = 6 /\ Len(u) = 7
  OBVIOUS
<1>3. /\ s[1] = u[1]
      /\ t[1] = u[2] /\ t[2] = u[3] /\ t[3] = u[4] /\ t[4] = u[5] /\ t[5] = u[6] /\ t[6] = u[7]
  OBVIOUS
<1> HIDE DEF S, s, t, u
<1>4. /\ \A i \in 1..Len(s) : s[i] = u[i]
      /\ \A i \in 1..Len(t) : t[i] = u[Len(s) + i]
  BY <1>2, <1>3
<1>5. Len(u) = Len(s) + Len(t)
  BY <1>2
<1>6. s \o t = u
  BY <1>1, <1>4, <1>5, Joined
<1> QED BY <1>6 DEF s, t, u

LEMMA OneAndTwo ==
  ASSUME NEW a, NEW b, NEW c
  PROVE  <<a>> \o <<b, c>> = <<a, b, c>>
<1> DEFINE S == {a, b, c}
           s == <<a>>
           t == <<b, c>>
           u == <<a, b, c>>
<1>1. s \in Seq(S) /\ t \in Seq(S) /\ u \in Seq(S)
  OBVIOUS
<1>2. Len(s) = 1 /\ Len(t) = 2 /\ Len(u) = 3
  OBVIOUS
<1>3. /\ s[1] = u[1]
      /\ t[1] = u[2] /\ t[2] = u[3]
  OBVIOUS
<1> HIDE DEF S, s, t, u
<1>4. /\ \A i \in 1..Len(s) : s[i] = u[i]
      /\ \A i \in 1..Len(t) : t[i] = u[Len(s) + i]
  BY <1>2, <1>3
<1>5. Len(u) = Len(s) + Len(t)
  BY <1>2
<1>6. s \o t = u
  BY <1>1, <1>4, <1>5, Joined
<1> QED BY <1>6 DEF s, t, u

LEMMA ThreeAndThree ==
  ASSUME NEW a, NEW b, NEW c, NEW d, NEW e, NEW f
  PROVE  <<a, b, c>> \o <<d, e, f>> = <<a, b, c, d, e, f>>
<1> DEFINE S == {a, b, c, d, e, f}
           s == <<a, b, c>>
           t == <<d, e, f>>
           u == <<a, b, c, d, e, f>>
<1>1. s \in Seq(S) /\ t \in Seq(S) /\ u \in Seq(S)
  OBVIOUS
<1>2. Len(s) = 3 /\ Len(t) = 3 /\ Len(u) = 6
  OBVIOUS
<1>3. /\ s[1] = u[1] /\ s[2] = u[2] /\ s[3] = u[3]
      /\ t[1] = u[4] /\ t[2] = u[5] /\ t[3] = u[6]
  OBVIOUS
<1> HIDE DEF S, s, t, u
<1>4. /\ \A i \in 1..Len(s) : s[i] = u[i]
      /\ \A i \in 1..Len(t) : t[i] = u[Len(s) + i]
  BY <1>2, <1>3
<1>5. Len(u) = Len(s) + Len(t)
  BY <1>2
<1>6. s \o t = u
  BY <1>1, <1>4, <1>5, Joined
<1> QED BY <1>6 DEF s, t, u

LEMMA TailOfProgram ==
  /\ \A a :
       /\ Head(<<a>>) = a /\ Tail(<<a>>) = << >>
       /\ <<a>> # << >>
  /\ \A a, b :
       /\ Head(<<a, b>>) = a /\ Tail(<<a, b>>) = <<b>>
       /\ <<a, b>> # << >>
  /\ \A a, b, c :
       /\ Head(<<a, b, c>>) = a /\ Tail(<<a, b, c>>) = <<b, c>>
       /\ <<a, b, c>> # << >>
  /\ \A a, b, c, d :
       /\ Head(<<a, b, c, d>>) = a /\ Tail(<<a, b, c, d>>) = <<b, c, d>>
       /\ <<a, b, c, d>> # << >>
  /\ \A a, b, c, d, e :
       /\ Head(<<a, b, c, d, e>>) = a /\ Tail(<<a, b, c, d, e>>) = <<b, c, d, e>>
       /\ <<a, b, c, d, e>> # << >>
  /\ \A a, b, c, d, e, f :
       /\ Head(<<a, b, c, d, e, f>>) = a /\ Tail(<<a, b, c, d, e, f>>) = <<b, c, d, e, f>>
       /\ <<a, b, c, d, e, f>> # << >>
  /\ \A a, b, c, d, e, f, g :
       /\ Head(<<a, b, c, d, e, f, g>>) = a /\ Tail(<<a, b, c, d, e, f, g>>) = <<b, c, d, e, f, g>>
       /\ <<a, b, c, d, e, f, g>> # << >>
OBVIOUS

-----------------------------------------------------------------------------
LEMMA LeastElement ==
  ASSUME NEW S \in SUBSET Nat, S # {}
  PROVE  Min(S) \in S /\ \A x \in S : Min(S) <= x
<1>1. IsWellFoundedOn(OpToRel(<, Nat), Nat)
  BY NatLessThanWellFounded
<1>2. \E m \in S : \A y \in S : ~ (<<y, m>> \in OpToRel(<, Nat))
  <2> DEFINE R == OpToRel(<, Nat)
  <2>1. IsWellFoundedOn(R, Nat)
    BY <1>1
  <2> HIDE DEF R
  <2>2. \E m \in S : \A y \in S : ~ (<<y, m>> \in R)
    BY <2>1, WFMin
  <2> QED BY <2>2 DEF R
<1>3. PICK m \in S : \A y \in S : ~ (<<y, m>> \in OpToRel(<, Nat))
  BY <1>2
<1>4. \A y \in S : m <= y
  <2> SUFFICES ASSUME NEW y \in S, ~(m <= y) PROVE FALSE
    OBVIOUS
  <2>1. y < m /\ y \in Nat /\ m \in Nat
    OBVIOUS
  <2>2. <<y, m>> \in OpToRel(<, Nat)
    BY <2>1 DEF OpToRel
  <2> QED BY <2>2, <1>3
<1> QED BY <1>4 DEF Min

-----------------------------------------------------------------------------
Phases == {"IDLE", "MOVING", "WAITING", "CAPTURING", "SOLVING", "VALIDATING",
           "RETURNING", "PAUSED", "ERROR", "COMPLETED"}
Row == [job : SweepPoses, at : 0..PoseCount + 1, still : BOOLEAN, orphan : BOOLEAN]
SavedDraft == [rows : Seq(Row), fit : SUBSET Row]
MovingPc == {"asked", "moving", "stopping"}
Resting == {"begin", "next", "waiting", "reply", "save"}
Motions == {"none", "asked", "live", "done", "failed", "refused"}

SweepRecord ==
    [kind : {"head_camera", "right_handeye"}, phase : Phases,
     captured : SUBSET SweepPoses, pending : SUBSET SweepPoses, known : Nat,
     rows : Seq(Row), fit : SUBSET Row, draft : Seq(SavedDraft),
     pc : {"idle"} \cup Resting \cup MovingPc,
     busy : BOOLEAN, canceled : BOOLEAN, frozen : BOOLEAN, todo : SUBSET SweepPoses,
     motionUnconfirmed : BOOLEAN, captureUnconfirmed : BOOLEAN, motion : Motions,
     goal : 0..PoseCount, stray : BOOLEAN, at : 0..PoseCount + 1,
     calls : SUBSET [job : SweepPoses, orphan : BOOLEAN],
     reply : SUBSET {"saved", "close", "error"}, up : BOOLEAN, sessions : Nat]

(* What holds of a sweep whether it is at work or not.                     *)
MotionMarked(s) ==
    /\ s.motionUnconfirmed <=> s.motion # "none"
    /\ s.motion \in {"live", "done", "failed"} => ~s.stray
    /\ s.motion = "done" => s.at = s.goal

CaptureMarked(s) ==
    /\ s.captureUnconfirmed => s.motion = "none"
    /\ s.reply # {} => s.captureUnconfirmed
    /\ \A c \in s.calls : ~c.orphan =>
         /\ s.captureUnconfirmed /\ s.reply = {}
         /\ s.at = c.job /\ ~s.stray

RowsTrue(s) ==
    \A i \in DOMAIN s.rows :
      s.rows[i].orphan \/ (s.rows[i].still /\ s.rows[i].at = s.rows[i].job)

NoOrphans(rows) == \A i \in DOMAIN rows : ~rows[i].orphan

Accounted(s) ==
    NoOrphans(s.rows) =>
      /\ s.known <= Len(s.rows) /\ Len(s.rows) <= s.known + 1
      /\ UniqueJobs(s)
      /\ \A i \in 1..s.known : s.rows[i].job \in s.captured
      /\ \A c \in s.calls : ~c.orphan =>
           Len(s.rows) = s.known /\ c.job \notin s.captured
      /\ "close" \in s.reply \/ "error" \in s.reply => Len(s.rows) = s.known

RequiredBy(kind) == IF kind = "right_handeye" THEN PoseCount ELSE HeadRequired

Proven(kind, d) ==
    NoOrphans(d.rows) =>
      LET jobs == [i \in DOMAIN d.rows |-> d.rows[i].job]
      IN  /\ Cardinality(ToSet(jobs)) >= RequiredBy(kind)
          /\ kind = "right_handeye" =>
               /\ d.fit = ToSet(SubSeq(d.rows, 1, FitCount))
               /\ {jobs[i] : i \in 1..FitCount} = {p \in SweepPoses : IsFit(p)}

DraftsProven(s) == \A d \in ToSet(s.draft) : Proven(s.kind, d)

Settled(s) ==
    /\ s \in SweepRecord /\ MotionMarked(s) /\ CaptureMarked(s)
    /\ RowsTrue(s) /\ Accounted(s) /\ DraftsProven(s)

(* What the execute thread knows at each of its points.                    *)
AtRest(s) ==
    /\ s.busy <=> s.pc # "idle"
    /\ s.pc \in Resting => s.motion = "none"
    /\ s.pc \in {"moving", "stopping"} => s.motion \in {"live", "done", "failed"}
    /\ s.pc = "asked" => s.motion # "none"
    /\ s.captureUnconfirmed => s.pc \in {"reply", "idle"}
    /\ s.pc = "reply" => s.captureUnconfirmed

OnItsWay(s) ==
    /\ s.pc \in MovingPc =>
         \/ s.phase = "MOVING" /\ s.todo # {} /\ s.goal = Min(s.todo)
         \/ s.phase = "RETURNING" /\ s.goal = Ready /\ s.draft # << >>
    /\ s.pc \in {"waiting", "reply"} => s.todo # {}
    /\ s.pc = "waiting" => ~s.stray /\ s.at = Min(s.todo)
    /\ s.phase = "COMPLETED" =>
         s.pc = "idle" /\ s.motion = "none" /\ s.draft # << >> /\ s.at = Ready

ToCapture(s) ==
    /\ s.todo \cap s.captured = {}
    /\ s.pc = "reply" => s.pending = {Min(s.todo)}
    /\ NoOrphans(s.rows) /\ s.pc \in {"next", "waiting", "save"} \cup MovingPc =>
         Len(s.rows) = s.known

Solved(s) ==
    s.pc = "save" /\ NoOrphans(s.rows) =>
      /\ Len(s.rows) >= RequiredBy(s.kind)
      /\ s.kind = "right_handeye" =>
           /\ s.fit = FitRows(s) /\ Cardinality(FitRows(s)) = FitCount
           /\ HeldOutIsLater(s)

AtWork(s) == AtRest(s) /\ OnItsWay(s) /\ ToCapture(s) /\ Solved(s)

SweepInv == Settled(sweep) /\ AtWork(sweep)

-----------------------------------------------------------------------------
Alike(s, t) ==
    /\ t.kind = s.kind /\ t.captured = s.captured /\ t.known = s.known
    /\ t.rows = s.rows /\ t.draft = s.draft /\ t.motion = s.motion
    /\ t.motionUnconfirmed = s.motionUnconfirmed /\ t.goal = s.goal
    /\ t.captureUnconfirmed = s.captureUnconfirmed /\ t.stray = s.stray
    /\ t.at = s.at /\ t.calls = s.calls /\ t.reply = s.reply

LEMMA SettledFrame ==
  ASSUME NEW s, Settled(s), NEW t \in SweepRecord,
         Alike(s, t)
  PROVE  Settled(t)
<1>1. MotionMarked(t) /\ CaptureMarked(t)
  BY DEF Alike, Settled, MotionMarked, CaptureMarked
<1>2. RowsTrue(t)
  BY DEF Alike, Settled, RowsTrue
<1>3. Accounted(t)
  BY DEF Alike, Settled, Accounted, UniqueJobs
<1>4. DraftsProven(t)
  BY DEF Alike, Settled, DraftsProven
<1> QED BY <1>1, <1>2, <1>3, <1>4 DEF Settled

LEMMA EndedIsSound ==
  ASSUME NEW s, Settled(s), NEW phase \in {"PAUSED", "ERROR"}
  PROVE  Settled(Ended(s, phase)) /\ AtWork(Ended(s, phase))
<1> DEFINE t == Ended(s, phase)
<1>0. s \in SweepRecord
  BY DEF Settled
<1>1. t \in SweepRecord
  BY ZenonT(40), <1>0 DEF SweepRecord, Ended, Phases
<1>2. Alike(s, t)
  BY <1>0 DEF Alike, SweepRecord, Ended
<1>3. t.pc = "idle" /\ t.busy = FALSE /\ t.phase = phase /\ t.todo = {}
  BY <1>0 DEF SweepRecord, Ended
<1> HIDE DEF t
<1>4. Settled(t)
  BY <1>1, <1>2, SettledFrame
<1>5. AtWork(t)
  BY <1>3 DEF AtWork, AtRest, OnItsWay, ToCapture, Solved, Resting, MovingPc
<1> QED BY <1>4, <1>5 DEF t

LEMMA MotionTaken ==
  ASSUME NEW s, Settled(s)
  PROVE  LET t == [s EXCEPT !.motion = "none", !.motionUnconfirmed = FALSE]
         IN  /\ Settled(t)
             /\ t.draft = s.draft /\ t.at = s.at
<1> DEFINE t == [s EXCEPT !.motion = "none", !.motionUnconfirmed = FALSE]
<1>0. s \in SweepRecord
  BY DEF Settled
<1>1. t \in SweepRecord
  BY <1>0 DEF SweepRecord, Motions
<1>2. /\ t.kind = s.kind /\ t.captured = s.captured /\ t.known = s.known
      /\ t.rows = s.rows /\ t.draft = s.draft /\ t.motion = "none"
      /\ t.motionUnconfirmed = FALSE /\ t.goal = s.goal
      /\ t.captureUnconfirmed = s.captureUnconfirmed /\ t.stray = s.stray
      /\ t.at = s.at /\ t.calls = s.calls /\ t.reply = s.reply
  BY <1>0 DEF SweepRecord
<1> HIDE DEF t
<1>3. MotionMarked(t) /\ CaptureMarked(t)
  BY <1>2 DEF Settled, MotionMarked, CaptureMarked
<1>4. RowsTrue(t)
  BY <1>2 DEF Settled, RowsTrue
<1>5. Accounted(t)
  BY <1>2 DEF Settled, Accounted, UniqueJobs
<1>6. DraftsProven(t)
  BY <1>2 DEF Settled, DraftsProven
<1>7. Settled(t)
  BY <1>1, <1>3, <1>4, <1>5, <1>6 DEF Settled
<1> QED BY <1>2, <1>7 DEF t

(* Whoever takes an answer takes the mark of its request away.             *)
Answered(s) == [s EXCEPT !.reply = {}, !.captureUnconfirmed = FALSE]

LEMMA AnswerTaken ==
  ASSUME NEW s, Settled(s), s.reply # {}
  PROVE  Settled(Answered(s))
<1> DEFINE t == Answered(s)
<1>0. s \in SweepRecord
  BY DEF Settled
<1>1. t \in SweepRecord
  BY <1>0 DEF SweepRecord, Answered
<1>2. /\ t.kind = s.kind /\ t.captured = s.captured /\ t.known = s.known
      /\ t.rows = s.rows /\ t.draft = s.draft /\ t.motion = s.motion
      /\ t.motionUnconfirmed = s.motionUnconfirmed /\ t.goal = s.goal
      /\ t.captureUnconfirmed = FALSE /\ t.stray = s.stray
      /\ t.at = s.at /\ t.calls = s.calls /\ t.reply = {}
  BY <1>0 DEF SweepRecord, Answered
<1>3. \A c \in s.calls : c.orphan
  BY DEF Settled, CaptureMarked
<1> HIDE DEF t
<1>4. MotionMarked(t) /\ CaptureMarked(t)
  BY <1>2, <1>3 DEF Settled, MotionMarked, CaptureMarked
<1>5. RowsTrue(t)
  BY <1>2 DEF Settled, RowsTrue
<1>6. Accounted(t)
  BY <1>2, <1>3 DEF Settled, Accounted, UniqueJobs
<1>7. DraftsProven(t)
  BY <1>2 DEF Settled, DraftsProven
<1>8. Settled(t)
  BY <1>1, <1>4, <1>5, <1>6, <1>7 DEF Settled
<1> QED BY <1>8 DEF t

(* What Reconciled leaves alone, and what it establishes.                  *)
LEMMA ReconciledFields ==
  ASSUME NEW s \in SweepRecord, NEW t \in Reconciled(s)
  PROVE  /\ t \in SweepRecord
         /\ t.kind = s.kind /\ t.rows = s.rows /\ t.draft = s.draft
         /\ t.fit = s.fit /\ t.motion = s.motion
         /\ t.motionUnconfirmed = s.motionUnconfirmed /\ t.goal = s.goal
         /\ t.captureUnconfirmed = s.captureUnconfirmed /\ t.stray = s.stray
         /\ t.at = s.at /\ t.calls = s.calls /\ t.reply = s.reply
         /\ t.pc = s.pc /\ t.busy = s.busy /\ t.phase = s.phase /\ t.todo = s.todo
         /\ t.pending = {} /\ t.known = Len(s.rows)
         /\ \/ s.known = Len(s.rows) /\ t.captured = s.captured
            \/ /\ Len(s.rows) = s.known + 1 /\ s.pending = {s.rows[Len(s.rows)].job}
               /\ t.captured = s.captured \cup s.pending
<1>1. Len(s.rows) \in Nat /\ s.known \in Nat
  BY DEF SweepRecord
<1>2. CASE Len(s.rows) = s.known
  <2>1. t = [s EXCEPT !.pending = {}]
    BY <1>1, <1>2 DEF Reconciled
  <2>2. t \in SweepRecord
    BY <2>1 DEF SweepRecord
  <2> QED BY <1>2, <2>1, <2>2 DEF SweepRecord
<1>3. CASE Len(s.rows) # s.known
  <2>1. /\ Len(s.rows) = s.known + 1 /\ s.pending = {s.rows[Len(s.rows)].job}
        /\ t = [s EXCEPT !.captured = @ \cup s.pending,
                         !.known = Len(s.rows), !.pending = {}]
    BY <1>1, <1>3 DEF Reconciled, Last
  <2>2. t \in SweepRecord
    BY <1>1, <2>1 DEF SweepRecord
  <2>3. /\ t.kind = s.kind /\ t.rows = s.rows /\ t.draft = s.draft
        /\ t.fit = s.fit /\ t.motion = s.motion
        /\ t.motionUnconfirmed = s.motionUnconfirmed /\ t.goal = s.goal
        /\ t.captureUnconfirmed = s.captureUnconfirmed /\ t.stray = s.stray
        /\ t.at = s.at /\ t.calls = s.calls /\ t.reply = s.reply
        /\ t.pc = s.pc /\ t.busy = s.busy /\ t.phase = s.phase /\ t.todo = s.todo
    BY <2>1 DEF SweepRecord
  <2>4. /\ t.pending = {} /\ t.known = Len(s.rows)
        /\ t.captured = s.captured \cup s.pending
    BY <2>1 DEF SweepRecord
  <2> QED BY <2>1, <2>2, <2>3, <2>4
<1> QED BY <1>2, <1>3

LEMMA ReconciledIsSettled ==
  ASSUME NEW s, Settled(s), NEW t \in Reconciled(s)
  PROVE  Settled(t)
<1>0. s \in SweepRecord
  BY DEF Settled
<1>1. /\ t \in SweepRecord
      /\ t.kind = s.kind /\ t.rows = s.rows /\ t.draft = s.draft
      /\ t.motion = s.motion
      /\ t.motionUnconfirmed = s.motionUnconfirmed /\ t.goal = s.goal
      /\ t.captureUnconfirmed = s.captureUnconfirmed /\ t.stray = s.stray
      /\ t.at = s.at /\ t.calls = s.calls /\ t.reply = s.reply
      /\ t.known = Len(s.rows)
  BY <1>0, ReconciledFields
<1>2. \/ s.known = Len(s.rows) /\ t.captured = s.captured
      \/ /\ Len(s.rows) = s.known + 1 /\ s.pending = {s.rows[Len(s.rows)].job}
         /\ t.captured = s.captured \cup s.pending
  BY <1>0, ReconciledFields
<1>3. MotionMarked(t) /\ CaptureMarked(t)
  BY <1>1 DEF Settled, MotionMarked, CaptureMarked
<1>4. RowsTrue(t)
  BY <1>1 DEF Settled, RowsTrue
<1>5. Accounted(t)
  <2> SUFFICES ASSUME NoOrphans(s.rows)
               PROVE  /\ UniqueJobs(s)
                      /\ \A i \in 1..t.known : t.rows[i].job \in t.captured
                      /\ \A c \in t.calls : ~c.orphan =>
                           Len(t.rows) = t.known /\ c.job \notin t.captured
    BY <1>0, <1>1 DEF Accounted, UniqueJobs, SweepRecord
  <2>1. /\ UniqueJobs(s)
        /\ \A i \in 1..s.known : s.rows[i].job \in s.captured
        /\ \A c \in s.calls : ~c.orphan =>
             Len(s.rows) = s.known /\ c.job \notin s.captured
    BY DEF Settled, Accounted
  <2>2. s.known \in Nat /\ Len(s.rows) \in Nat
    BY <1>0 DEF SweepRecord
  <2>3. \A i \in 1..t.known : t.rows[i].job \in t.captured
    BY <1>1, <1>2, <2>1, <2>2
  <2>4. \A c \in t.calls : ~c.orphan =>
           Len(t.rows) = t.known /\ c.job \notin t.captured
    BY <1>1, <1>2, <2>1, <2>2
  <2> QED BY <2>1, <2>3, <2>4
<1>6. DraftsProven(t)
  BY <1>1 DEF Settled, DraftsProven
<1> QED BY <1>1, <1>3, <1>4, <1>5, <1>6 DEF Settled

-----------------------------------------------------------------------------
(* The actions, one lemma each.                                            *)

LEMMA SweepFields ==
  ASSUME SweepInv
  PROVE  /\ sweep \in SweepRecord /\ Settled(sweep)
         /\ SweepPoses \subseteq Nat /\ sweep.todo \subseteq SweepPoses
         /\ sweep.todo # {} => Min(sweep.todo) \in sweep.todo
<1>1. sweep \in SweepRecord /\ Settled(sweep)
  BY DEF SweepInv, Settled
<1>2. SweepPoses \subseteq Nat
  BY SweepAssumption DEF SweepPoses
<1>3. sweep.todo \subseteq SweepPoses
  BY <1>1 DEF SweepRecord
<1> QED BY <1>1, <1>2, <1>3, LeastElement

LEMMA StopsSound ==
  ASSUME SweepInv, sweep' = Paused(sweep) \/ sweep' = Failed(sweep)
  PROVE  SweepInv'
<1>1. Settled(sweep)
  BY DEF SweepInv
<1> QED BY <1>1, EndedIsSound DEF SweepInv, Paused, Failed

LEMMA AcceptSweepSound ==
  ASSUME SweepInv, AcceptSweep
  PROVE  SweepInv'
<1>1. sweep \in SweepRecord /\ Settled(sweep)
  BY SweepFields
<1>2. sweep' = [sweep EXCEPT !.busy = TRUE, !.pc = "begin", !.canceled = FALSE]
  BY DEF AcceptSweep
<1>3. sweep' \in SweepRecord
  BY <1>1, <1>2 DEF SweepRecord, Resting
<1>4. Settled(sweep')
  <2>1. Alike(sweep, sweep')
    BY <1>1, <1>2 DEF Alike, SweepRecord
  <2> QED BY <1>1, <1>3, <2>1, SettledFrame
<1>5. /\ sweep'.pc = "begin" /\ sweep'.busy = TRUE /\ sweep'.phase = sweep.phase
      /\ sweep'.todo = sweep.todo /\ sweep'.captured = sweep.captured
      /\ sweep'.motion = sweep.motion
      /\ sweep'.captureUnconfirmed = sweep.captureUnconfirmed
  BY <1>1, <1>2 DEF SweepRecord
<1>6. AtWork(sweep')
  BY <1>1, <1>5 DEF SweepInv, Settled, MotionMarked, AtWork, AtRest, OnItsWay,
     ToCapture, Solved, Resting, MovingPc, AcceptSweep, Free
<1> QED BY <1>4, <1>6 DEF SweepInv

LEMMA BeginSound ==
  ASSUME SweepInv, Begin
  PROVE  SweepInv'
<1>1. sweep \in SweepRecord /\ Settled(sweep) /\ sweep.pc = "begin"
  BY SweepFields DEF Begin
<1>2. CASE Remaining(sweep) = {}
  BY <1>2, StopsSound DEF Begin
<1>3. ASSUME NEW t \in Reconciled(sweep),
             sweep' = [[t EXCEPT !.phase = "IDLE", !.todo = SweepPoses \ t.captured]
                         EXCEPT !.pc = "next"]
      PROVE  SweepInv'
  <2>1. t \in SweepRecord /\ Settled(t)
    BY <1>1, ReconciledFields, ReconciledIsSettled
  <2>2. sweep' \in SweepRecord
    BY ZenonT(40), <1>3, <2>1 DEF SweepRecord, Phases, Resting
  <2>3. Settled(sweep')
    <3>1. Alike(t, sweep')
      BY <1>3, <2>1 DEF Alike, SweepRecord
    <3> QED BY <2>1, <2>2, <3>1, SettledFrame
  <2>4. /\ sweep'.pc = "next" /\ sweep'.phase = "IDLE" /\ sweep'.busy = t.busy
        /\ sweep'.todo = SweepPoses \ t.captured /\ sweep'.captured = t.captured
        /\ sweep'.motion = t.motion /\ sweep'.rows = t.rows /\ sweep'.known = t.known
        /\ sweep'.captureUnconfirmed = t.captureUnconfirmed
    BY <1>3, <2>1 DEF SweepRecord
  <2>5. /\ t.busy = sweep.busy /\ t.motion = sweep.motion /\ t.known = Len(t.rows)
        /\ t.captureUnconfirmed = sweep.captureUnconfirmed
    BY <1>1, ReconciledFields
  <2>6. AtWork(sweep')
    BY <1>1, <2>4, <2>5 DEF SweepInv, AtWork, AtRest, OnItsWay, ToCapture, Solved,
       Resting, MovingPc
  <2> QED BY <2>3, <2>6 DEF SweepInv
<1>4. CASE Remaining(sweep) # {}
  <2>1. PICK s \in Remaining(sweep) : sweep' = [s EXCEPT !.pc = "next"]
    BY <1>4 DEF Begin
  <2>2. PICK t \in Reconciled(sweep) :
          s = [t EXCEPT !.phase = "IDLE", !.todo = SweepPoses \ t.captured]
    BY DEF Remaining
  <2> QED BY <1>3, <2>1, <2>2
<1> QED BY <1>2, <1>4

LEMMA CancelSweepSound ==
  ASSUME SweepInv, CancelSweep
  PROVE  SweepInv'
<1>1. sweep \in SweepRecord /\ Settled(sweep)
  BY SweepFields
<1>2. sweep' = [sweep EXCEPT !.canceled = TRUE]
  BY DEF CancelSweep
<1>3. sweep' \in SweepRecord /\ Alike(sweep, sweep')
  BY <1>1, <1>2 DEF Alike, SweepRecord
<1>4. /\ sweep'.pc = sweep.pc /\ sweep'.busy = sweep.busy /\ sweep'.phase = sweep.phase
      /\ sweep'.todo = sweep.todo /\ sweep'.pending = sweep.pending
      /\ sweep'.fit = sweep.fit
  BY <1>1, <1>2 DEF SweepRecord
<1>5. AtWork(sweep')
  BY <1>3, <1>4 DEF Alike, SweepInv, AtWork, AtRest, OnItsWay, ToCapture, Solved,
     FitRows, HeldOutIsLater
<1> QED BY <1>1, <1>3, <1>5, SettledFrame DEF SweepInv

LEMMA ResetSessionSound ==
  ASSUME SweepInv, ResetSession
  PROVE  SweepInv'
<1>1. sweep \in SweepRecord /\ Settled(sweep)
  BY SweepFields
<1>2. sweep' = [Archived(sweep) EXCEPT !.sessions = sweep.sessions + 1]
  BY <1>1 DEF ResetSession, Archived, SweepRecord
<1>3. sweep' \in SweepRecord
  <2>1. << >> \in Seq(Row)
    OBVIOUS
  <2>2. Archived(sweep) \in SweepRecord
    BY <1>1, <2>1 DEF Archived, SweepRecord, Phases
  <2> DEFINE a == Archived(sweep)
  <2>3. a \in SweepRecord /\ sweep' = [a EXCEPT !.sessions = sweep.sessions + 1]
    BY <1>2, <2>2
  <2>4. sweep.sessions + 1 \in Nat
    BY <1>1 DEF SweepRecord
  <2> HIDE DEF a
  <2> QED BY <2>3, <2>4 DEF SweepRecord
<1>4. /\ sweep'.kind = sweep.kind /\ sweep'.captured = {} /\ sweep'.known = 0
      /\ sweep'.rows = << >> /\ sweep'.draft = sweep.draft /\ sweep'.motion = sweep.motion
      /\ sweep'.motionUnconfirmed = sweep.motionUnconfirmed /\ sweep'.goal = sweep.goal
      /\ sweep'.captureUnconfirmed = sweep.captureUnconfirmed
      /\ sweep'.stray = sweep.stray /\ sweep'.at = sweep.at
      /\ sweep'.calls = sweep.calls /\ sweep'.reply = sweep.reply
  BY <1>1, <1>2 DEF Archived, SweepRecord
<1>5. /\ sweep'.pc = sweep.pc /\ sweep'.busy = sweep.busy /\ sweep'.phase = "IDLE"
      /\ sweep'.todo = sweep.todo /\ sweep'.pending = {}
  BY <1>1, <1>2 DEF Archived, SweepRecord
<1>6. ~sweep.busy /\ ~sweep.captureUnconfirmed
  BY DEF ResetSession, Free
<1>7. \A c \in sweep.calls : c.orphan
  BY <1>1, <1>6 DEF Settled, CaptureMarked
<1>8. MotionMarked(sweep') /\ CaptureMarked(sweep')
  BY <1>1, <1>4 DEF Settled, MotionMarked, CaptureMarked
<1>9. RowsTrue(sweep')
  BY <1>4 DEF RowsTrue
<1>10. Accounted(sweep')
  BY <1>4, <1>7 DEF Accounted, UniqueJobs
<1>11. DraftsProven(sweep')
  BY <1>1, <1>4 DEF Settled, DraftsProven
<1>12. AtWork(sweep')
  BY <1>4, <1>5, <1>6 DEF SweepInv, AtWork, AtRest, OnItsWay, ToCapture, Solved,
     Resting, MovingPc
<1> QED BY <1>3, <1>8, <1>9, <1>10, <1>11, <1>12 DEF SweepInv, Settled

(* A fit that is kept or made is of all the fitting rows there are.        *)
LEMMA FreezeFitFields ==
  ASSUME NEW s \in SweepRecord, NEW t \in FreezeFit(s)
  PROVE  /\ UniqueJobs(s) /\ Cardinality(FitRows(s)) = FitCount
         /\ t \in SweepRecord /\ Alike(s, t) /\ t.fit = FitRows(s)
         /\ t.pc = s.pc /\ t.busy = s.busy /\ t.phase = s.phase /\ t.todo = s.todo
         /\ t.pending = s.pending
<1>1. UniqueJobs(s) /\ Cardinality(FitRows(s)) = FitCount
  BY DEF FreezeFit
<1>2. FitRows(s) \subseteq Row
  BY DEF FitRows, SweepRecord
<1>3. CASE t = s /\ s.fit = FitRows(s)
  BY <1>1, <1>3 DEF Alike
<1>4. CASE t = [s EXCEPT !.fit = FitRows(s)]
  <2>1. t \in SweepRecord
    BY <1>2, <1>4 DEF SweepRecord
  <2>2. /\ Alike(s, t) /\ t.fit = FitRows(s)
        /\ t.pc = s.pc /\ t.busy = s.busy /\ t.phase = s.phase /\ t.todo = s.todo
        /\ t.pending = s.pending
    BY <1>4 DEF Alike, SweepRecord
  <2> QED BY <1>1, <2>1, <2>2
<1>5. (t = s /\ s.fit = FitRows(s)) \/ t = [s EXCEPT !.fit = FitRows(s)]
  BY DEF FreezeFit
<1> QED BY <1>3, <1>4, <1>5

LEMMA FreezeSound ==
  ASSUME SweepInv, Freeze
  PROVE  SweepInv'
<1>1. sweep \in SweepRecord /\ Settled(sweep) /\ sweep.pc = "next"
  BY SweepFields DEF Freeze
<1>2. ASSUME NEW s \in FreezeFit(sweep),
             sweep' = [s EXCEPT !.phase = "SOLVING", !.frozen = TRUE]
      PROVE  SweepInv'
  <2>1. /\ s \in SweepRecord /\ Alike(sweep, s)
        /\ s.pc = sweep.pc /\ s.busy = sweep.busy /\ s.todo = sweep.todo
    BY <1>1, FreezeFitFields
  <2>2. sweep' \in SweepRecord /\ Alike(s, sweep')
    BY ZenonT(40), <1>2, <2>1 DEF Alike, SweepRecord, Phases
  <2>3. /\ sweep'.pc = "next" /\ sweep'.busy = sweep.busy /\ sweep'.phase = "SOLVING"
        /\ sweep'.todo = sweep.todo
    BY <1>1, <1>2, <2>1 DEF SweepRecord
  <2>4. Alike(sweep, sweep')
    BY <2>1, <2>2 DEF Alike
  <2>5. AtWork(sweep')
    BY <1>1, <2>3, <2>4 DEF Alike, SweepInv, AtWork, AtRest, OnItsWay, ToCapture,
       Solved, Resting, MovingPc
  <2> QED BY <1>1, <2>2, <2>4, <2>5, SettledFrame DEF SweepInv
<1> QED BY <1>2, StopsSound DEF Freeze

(* A motion is asked for: of the next pose, or of the ready pose with the  *)
(* draft just saved.                                                       *)
LEMMA MoveIsSound ==
  ASSUME NEW s, Settled(s), NEW g \in 0..PoseCount, NEW phase \in {"MOVING", "RETURNING"},
         s.motion = "none", ~s.captureUnconfirmed, s.busy,
         s.todo \cap s.captured = {}, NoOrphans(s.rows) => Len(s.rows) = s.known,
         \/ phase = "MOVING" /\ s.todo # {} /\ g = Min(s.todo)
         \/ phase = "RETURNING" /\ g = Ready /\ s.draft # << >>,
         NEW t,
         t = [s EXCEPT !.phase = phase, !.pc = "asked", !.motionUnconfirmed = TRUE,
                       !.motion = "asked", !.goal = g]
  PROVE  Settled(t) /\ AtWork(t)
<1>1. s \in SweepRecord
  BY DEF Settled
<1>2. t \in SweepRecord
  BY ZenonT(40), <1>1 DEF SweepRecord, Phases, MovingPc, Motions
<1>3. /\ t.kind = s.kind /\ t.captured = s.captured /\ t.known = s.known
      /\ t.rows = s.rows /\ t.draft = s.draft /\ t.motion = "asked"
      /\ t.motionUnconfirmed = TRUE /\ t.goal = g
      /\ t.captureUnconfirmed = s.captureUnconfirmed /\ t.stray = s.stray
      /\ t.at = s.at /\ t.calls = s.calls /\ t.reply = s.reply
  BY <1>1 DEF SweepRecord
<1>4. t.phase = phase /\ t.pc = "asked" /\ t.todo = s.todo /\ t.busy = s.busy
  BY <1>1 DEF SweepRecord
<1>5. MotionMarked(t) /\ CaptureMarked(t)
  BY <1>3 DEF Settled, MotionMarked, CaptureMarked
<1>6. RowsTrue(t)
  BY <1>3 DEF Settled, RowsTrue
<1>7. Accounted(t)
  BY <1>3 DEF Settled, Accounted, UniqueJobs
<1>8. DraftsProven(t)
  BY <1>3 DEF Settled, DraftsProven
<1>9. AtWork(t)
  BY <1>1, <1>3, <1>4 DEF AtWork, AtRest, OnItsWay, ToCapture, Solved, Resting, MovingPc,
     SweepRecord
<1> QED BY <1>2, <1>5, <1>6, <1>7, <1>8, <1>9 DEF Settled

LEMMA RequestPoseSound ==
  ASSUME SweepInv, RequestPose
  PROVE  SweepInv'
<1>1. /\ sweep \in SweepRecord /\ Settled(sweep) /\ sweep.pc = "next"
      /\ sweep.todo # {} /\ Min(sweep.todo) \in sweep.todo
      /\ sweep.todo \subseteq SweepPoses
  BY SweepFields DEF RequestPose
<1>2. ASSUME NEW s \in MovedTo(sweep, Min(sweep.todo)),
             sweep' = [s EXCEPT !.phase = "MOVING"]
      PROVE  SweepInv'
  <2>1. sweep' = [sweep EXCEPT !.phase = "MOVING", !.pc = "asked",
                               !.motionUnconfirmed = TRUE,
                               !.motion = "asked", !.goal = Min(sweep.todo)]
    BY <1>1, <1>2 DEF MovedTo, SweepRecord
  <2>2. Min(sweep.todo) \in 0..PoseCount
    BY <1>1, SweepAssumption DEF SweepPoses
  <2>3. /\ sweep.motion = "none" /\ ~sweep.captureUnconfirmed /\ sweep.busy
        /\ sweep.todo \cap sweep.captured = {}
        /\ NoOrphans(sweep.rows) => Len(sweep.rows) = sweep.known
    BY <1>1 DEF SweepInv, AtWork, AtRest, ToCapture, Resting
  <2> QED BY <1>1, <2>1, <2>2, <2>3, MoveIsSound DEF SweepInv
<1> QED BY <1>2, StopsSound DEF RequestPose

LEMMA PoseAnsweredSound ==
  ASSUME SweepInv, PoseAnswered
  PROVE  SweepInv'
<1>1. /\ sweep \in SweepRecord /\ Settled(sweep) /\ sweep.pc = "asked"
  BY SweepFields DEF PoseAnswered
<1>2. CASE /\ sweep.motion \in {"live", "done", "failed"}
           /\ sweep' = [sweep EXCEPT !.pc = "moving"]
  <2>1. sweep' \in SweepRecord /\ Alike(sweep, sweep')
    BY <1>1, <1>2 DEF Alike, SweepRecord, MovingPc
  <2>2. /\ sweep'.pc = "moving" /\ sweep'.busy = sweep.busy
        /\ sweep'.phase = sweep.phase /\ sweep'.todo = sweep.todo
    BY <1>1, <1>2 DEF SweepRecord
  <2>3. AtWork(sweep')
    BY <1>1, <1>2, <2>1, <2>2 DEF Alike, SweepInv, AtWork, AtRest, OnItsWay, ToCapture,
       Solved, Resting, MovingPc
  <2> QED BY <1>1, <2>1, <2>3, SettledFrame DEF SweepInv
<1>3. CASE sweep' = Paused([sweep EXCEPT !.motion = "none", !.motionUnconfirmed = FALSE])
  BY <1>1, <1>3, MotionTaken, EndedIsSound DEF SweepInv, Paused
<1> QED BY <1>2, <1>3, StopsSound DEF PoseAnswered

LEMMA StopPoseSound ==
  ASSUME SweepInv, StopPose
  PROVE  SweepInv'
<1>1. /\ sweep \in SweepRecord /\ Settled(sweep) /\ sweep.pc = "moving"
      /\ sweep' = [sweep EXCEPT !.pc = "stopping"]
  BY SweepFields DEF StopPose
<1>2. sweep' \in SweepRecord /\ Alike(sweep, sweep')
  BY <1>1 DEF Alike, SweepRecord, MovingPc
<1>3. /\ sweep'.pc = "stopping" /\ sweep'.busy = sweep.busy
      /\ sweep'.phase = sweep.phase /\ sweep'.todo = sweep.todo
  BY <1>1 DEF SweepRecord
<1>4. AtWork(sweep')
  BY <1>1, <1>2, <1>3 DEF Alike, SweepInv, AtWork, AtRest, OnItsWay, ToCapture, Solved,
     Resting, MovingPc
<1> QED BY <1>1, <1>2, <1>4, SettledFrame DEF SweepInv

LEMMA PoseEndsSound ==
  ASSUME SweepInv, PoseEnds
  PROVE  SweepInv'
<1> DEFINE s == [sweep EXCEPT !.motion = "none", !.motionUnconfirmed = FALSE]
<1>1. /\ sweep \in SweepRecord /\ Settled(sweep) /\ sweep.pc \in {"moving", "stopping"}
      /\ sweep.todo # {} => Min(sweep.todo) \in sweep.todo
  BY SweepFields DEF PoseEnds
<1>2. /\ Settled(s) /\ s \in SweepRecord
      /\ s.motion = "none" /\ s.draft = sweep.draft /\ s.at = sweep.at
      /\ s.stray = sweep.stray /\ s.todo = sweep.todo /\ s.phase = sweep.phase
      /\ s.captured = sweep.captured /\ s.rows = sweep.rows /\ s.known = sweep.known
      /\ s.captureUnconfirmed = sweep.captureUnconfirmed /\ s.busy = sweep.busy
  BY <1>1, MotionTaken DEF Settled, SweepRecord
<1>3. /\ sweep.motion \in {"live", "done", "failed"} /\ ~sweep.stray
      /\ sweep.motion = "done" => sweep.at = sweep.goal
  BY <1>1 DEF SweepInv, AtWork, AtRest, Settled, MotionMarked
<1>4. \/ sweep.phase = "MOVING" /\ sweep.todo # {} /\ sweep.goal = Min(sweep.todo)
      \/ sweep.phase = "RETURNING" /\ sweep.goal = Ready /\ sweep.draft # << >>
  BY <1>1 DEF SweepInv, AtWork, OnItsWay, MovingPc
<1>5. ~sweep.captureUnconfirmed /\ sweep.busy
  BY <1>1 DEF SweepInv, AtWork, AtRest
<1>6. /\ sweep.todo \cap sweep.captured = {}
      /\ NoOrphans(sweep.rows) => Len(sweep.rows) = sweep.known
  BY <1>1 DEF SweepInv, AtWork, ToCapture, MovingPc
<1>7. CASE sweep' = Paused(s)
  BY <1>2, <1>7, EndedIsSound DEF SweepInv, Paused
<1>8. CASE sweep.motion = "done" /\ sweep.phase = "RETURNING" /\ sweep' = Completed(s)
  <2> HIDE DEF s
  <2>1. sweep' \in SweepRecord /\ Alike(s, sweep')
    BY ZenonT(40), <1>2, <1>8 DEF Alike, SweepRecord, Completed, Ended, Phases
  <2>2. /\ sweep'.pc = "idle" /\ sweep'.busy = FALSE /\ sweep'.phase = "COMPLETED"
        /\ sweep'.todo = {}
    BY <1>2, <1>8 DEF SweepRecord, Completed, Ended
  <2>3. AtWork(sweep')
    BY <1>2, <1>3, <1>4, <1>8, <2>1, <2>2 DEF Alike, AtWork, AtRest, OnItsWay, ToCapture,
       Solved, Resting, MovingPc
  <2> QED BY <1>2, <2>1, <2>3, SettledFrame DEF SweepInv
<1>9. CASE /\ sweep.motion = "done" /\ sweep.phase # "RETURNING"
           /\ sweep' = [s EXCEPT !.pc = "waiting", !.phase = "WAITING"]
  <2> HIDE DEF s
  <2>1. sweep' \in SweepRecord /\ Alike(s, sweep')
    BY ZenonT(40), <1>2, <1>9 DEF Alike, SweepRecord, Phases, Resting
  <2>2. /\ sweep'.pc = "waiting" /\ sweep'.busy = s.busy /\ sweep'.phase = "WAITING"
        /\ sweep'.todo = s.todo
    BY <1>2, <1>9 DEF SweepRecord
  <2>7. sweep.at = Min(sweep.todo) /\ sweep.todo # {}
    BY <1>3, <1>4, <1>9
  <2>3. /\ sweep'.at = Min(sweep'.todo) /\ ~sweep'.stray /\ sweep'.todo # {}
        /\ sweep'.motion = "none" /\ sweep'.busy /\ ~sweep'.captureUnconfirmed
    BY <1>2, <1>3, <1>5, <2>1, <2>2, <2>7 DEF Alike
  <2>4. /\ sweep'.todo \cap sweep'.captured = {}
        /\ NoOrphans(sweep'.rows) => Len(sweep'.rows) = sweep'.known
    BY <1>2, <1>6, <2>1, <2>2 DEF Alike
  <2>5. AtWork(sweep')
    BY <2>2, <2>3, <2>4 DEF AtWork, AtRest, OnItsWay, ToCapture, Solved, Resting,
       MovingPc
  <2> QED BY <1>2, <2>1, <2>5, SettledFrame DEF SweepInv
<1>10. CASE sweep' = GiveUpPose(sweep)
  BY <1>10, StopsSound DEF GiveUpPose
<1>11. CASE sweep.motion \in {"done", "failed"} /\
            sweep' = IF s.canceled \/ s.pc = "stopping" \/ sweep.motion = "failed"
                     THEN Paused(s)
                     ELSE IF s.phase = "RETURNING" THEN Completed(s)
                          ELSE [s EXCEPT !.pc = "waiting", !.phase = "WAITING"]
  <2> HIDE DEF s
  <2> QED BY <1>2, <1>7, <1>8, <1>9, <1>11
<1> QED BY <1>10, <1>11 DEF PoseEnds

LEMMA WaitTargetSound ==
  ASSUME SweepInv, WaitTarget
  PROVE  SweepInv'
<1> DEFINE p == Min(sweep.todo)
<1>1. /\ sweep \in SweepRecord /\ Settled(sweep) /\ sweep.pc = "waiting"
      /\ sweep.todo # {} /\ p \in sweep.todo /\ p \in SweepPoses
  BY SweepFields DEF WaitTarget, SweepInv, AtWork, OnItsWay
<1>2. /\ sweep.motion = "none" /\ ~sweep.captureUnconfirmed /\ sweep.busy
      /\ ~sweep.stray /\ sweep.at = p
      /\ sweep.todo \cap sweep.captured = {}
      /\ NoOrphans(sweep.rows) => Len(sweep.rows) = sweep.known
  BY <1>1 DEF SweepInv, AtWork, AtRest, OnItsWay, ToCapture, Resting
<1>3. sweep.captured \ {p} = sweep.captured
  BY <1>1, <1>2
<1> HIDE DEF p
<1>4. CASE sweep' = [Skipped(sweep, p) EXCEPT !.todo = @ \ {p}, !.pc = "next"]
  <2>1. sweep' \in SweepRecord /\ Alike(sweep, sweep')
    BY <1>1, <1>3, <1>4 DEF Alike, SweepRecord, Skipped, Resting
  <2>2. /\ sweep'.pc = "next" /\ sweep'.busy = sweep.busy /\ sweep'.phase = sweep.phase
        /\ sweep'.todo = sweep.todo \ {p}
    BY <1>1, <1>4 DEF SweepRecord, Skipped
  <2>3. AtWork(sweep')
    BY <1>1, <1>2, <2>1, <2>2 DEF Alike, SweepInv, AtWork, AtRest, OnItsWay, ToCapture,
       Solved, Resting, MovingPc
  <2> QED BY <1>1, <2>1, <2>3, SettledFrame DEF SweepInv
<1>5. CASE sweep' = CaptureRequested(sweep, p)
  <2> DEFINE call == [job |-> p, orphan |-> FALSE]
  <2>1. sweep' = [sweep EXCEPT !.phase = "CAPTURING", !.pending = {p},
                               !.captureUnconfirmed = TRUE, !.pc = "reply",
                               !.calls = sweep.calls \cup {call}]
    BY <1>1, <1>5 DEF CaptureRequested, Prepared, SweepRecord
  <2>2. call \in [job : SweepPoses, orphan : BOOLEAN] /\ call.job = p /\ ~call.orphan
    BY <1>1
  <2> HIDE DEF call
  <2>3. sweep' \in SweepRecord
    <3>1. sweep.calls \cup {call} \subseteq [job : SweepPoses, orphan : BOOLEAN]
      BY <1>1, <2>2 DEF SweepRecord
    <3>2. {p} \subseteq SweepPoses
      BY <1>1
    <3> QED BY ZenonT(40), <1>1, <2>1, <3>1, <3>2
        DEF SweepRecord, Phases, Resting
  <2>4. /\ sweep'.kind = sweep.kind /\ sweep'.captured = sweep.captured
        /\ sweep'.known = sweep.known /\ sweep'.rows = sweep.rows
        /\ sweep'.draft = sweep.draft /\ sweep'.motion = sweep.motion
        /\ sweep'.motionUnconfirmed = sweep.motionUnconfirmed /\ sweep'.goal = sweep.goal
        /\ sweep'.captureUnconfirmed = TRUE
        /\ sweep'.stray = sweep.stray /\ sweep'.at = sweep.at
        /\ sweep'.calls = sweep.calls \cup {call} /\ sweep'.reply = sweep.reply
    BY <1>1, <2>1 DEF SweepRecord
  <2>5. /\ sweep'.pc = "reply" /\ sweep'.busy = sweep.busy /\ sweep'.phase = "CAPTURING"
        /\ sweep'.todo = sweep.todo /\ sweep'.pending = {p}
    BY <1>1, <2>1 DEF SweepRecord
  <2>6. sweep.reply = {} /\ \A c \in sweep.calls : c.orphan
    BY <1>1, <1>2 DEF Settled, CaptureMarked
  <2>7. MotionMarked(sweep')
    BY <1>1, <2>4 DEF Settled, MotionMarked
  <2>8. CaptureMarked(sweep')
    BY <1>2, <2>2, <2>4, <2>6 DEF CaptureMarked
  <2>9. RowsTrue(sweep')
    BY <1>1, <2>4 DEF Settled, RowsTrue
  <2>10. Accounted(sweep')
    <3>1. p \notin sweep.captured
      BY <1>1, <1>2
    <3> QED BY <1>1, <1>2, <2>2, <2>4, <2>6, <3>1 DEF Settled, Accounted, UniqueJobs
  <2>11. DraftsProven(sweep')
    BY <1>1, <2>4 DEF Settled, DraftsProven
  <2>12. AtWork(sweep')
    BY <1>1, <1>2, <2>4, <2>5 DEF AtWork, AtRest, OnItsWay, ToCapture, Solved,
       Resting, MovingPc, p
  <2> QED BY <2>3, <2>7, <2>8, <2>9, <2>10, <2>11, <2>12 DEF SweepInv, Settled
<1>6. CASE sweep' = Paused(sweep)
  BY <1>6, StopsSound
<1> QED BY <1>4, <1>5, <1>6 DEF WaitTarget, p

LEMMA LateCaptureSound ==
  ASSUME SweepInv, LateCapture
  PROVE  SweepInv'
<1>1. /\ sweep \in SweepRecord /\ Settled(sweep)
      /\ sweep.pc # "reply" /\ sweep.reply # {} /\ sweep' = Answered(sweep)
  BY SweepFields DEF LateCapture, Answered
<1>2. Settled(sweep')
  BY <1>1, AnswerTaken
<1>3. /\ sweep'.pc = sweep.pc /\ sweep'.busy = sweep.busy /\ sweep'.phase = sweep.phase
      /\ sweep'.todo = sweep.todo /\ sweep'.pending = sweep.pending
      /\ sweep'.fit = sweep.fit /\ sweep'.captureUnconfirmed = FALSE
      /\ sweep'.motion = sweep.motion /\ sweep'.goal = sweep.goal
      /\ sweep'.draft = sweep.draft /\ sweep'.at = sweep.at /\ sweep'.stray = sweep.stray
      /\ sweep'.captured = sweep.captured /\ sweep'.rows = sweep.rows
      /\ sweep'.known = sweep.known /\ sweep'.kind = sweep.kind
  BY <1>1 DEF SweepRecord, Answered
<1>4. AtWork(sweep')
  BY <1>1, <1>3 DEF SweepInv, AtWork, AtRest, OnItsWay, ToCapture, Solved, FitRows,
     HeldOutIsLater
<1> QED BY <1>2, <1>4 DEF SweepInv

(* The next pose, once the answer has been dealt with.                     *)
LEMMA NextPoseIsSound ==
  ASSUME NEW s, Settled(s), s.busy, s.motion = "none", ~s.captureUnconfirmed,
         NEW todo \in SUBSET SweepPoses, todo \cap s.captured = {},
         NoOrphans(s.rows) => Len(s.rows) = s.known,
         s.phase # "COMPLETED"
  PROVE  LET t == [s EXCEPT !.todo = todo, !.pc = "next"]
         IN  Settled(t) /\ AtWork(t)
<1> DEFINE t == [s EXCEPT !.todo = todo, !.pc = "next"]
<1>1. s \in SweepRecord
  BY DEF Settled
<1>2. t \in SweepRecord /\ Alike(s, t)
  BY <1>1 DEF Alike, SweepRecord, Resting
<1>3. t.pc = "next" /\ t.busy = s.busy /\ t.phase = s.phase /\ t.todo = todo
  BY <1>1 DEF SweepRecord
<1> HIDE DEF t
<1>4. Settled(t)
  BY <1>2, SettledFrame
<1>5. AtWork(t)
  BY <1>2, <1>3 DEF Alike, AtWork, AtRest, OnItsWay, ToCapture, Solved, Resting, MovingPc
<1> QED BY <1>4, <1>5 DEF t

LEMMA SkippedIsSettled ==
  ASSUME NEW s, Settled(s), NEW p, NoOrphans(s.rows) => p \notin s.captured
  PROVE  LET t == Skipped(s, p)
         IN  /\ Settled(t) /\ t.busy = s.busy /\ t.phase = s.phase
             /\ t.todo = s.todo /\ t.motion = s.motion
             /\ t.captureUnconfirmed = s.captureUnconfirmed
             /\ t.rows = s.rows /\ t.known = s.known /\ t.captured = s.captured \ {p}
<1> DEFINE t == Skipped(s, p)
<1>1. s \in SweepRecord
  BY DEF Settled
<1>2. t \in SweepRecord
  BY <1>1 DEF Skipped, SweepRecord
<1>3. /\ t.kind = s.kind /\ t.captured = s.captured \ {p} /\ t.known = s.known
      /\ t.rows = s.rows /\ t.draft = s.draft /\ t.motion = s.motion
      /\ t.motionUnconfirmed = s.motionUnconfirmed /\ t.goal = s.goal
      /\ t.captureUnconfirmed = s.captureUnconfirmed /\ t.stray = s.stray
      /\ t.at = s.at /\ t.calls = s.calls /\ t.reply = s.reply
  BY <1>1 DEF Skipped, SweepRecord
<1>4. t.busy = s.busy /\ t.phase = s.phase /\ t.todo = s.todo
  BY <1>1 DEF Skipped, SweepRecord
<1> HIDE DEF t
<1>5. MotionMarked(t) /\ CaptureMarked(t)
  BY <1>3 DEF Settled, MotionMarked, CaptureMarked
<1>6. RowsTrue(t)
  BY <1>3 DEF Settled, RowsTrue
<1>7. Accounted(t)
  <2>1. CASE NoOrphans(s.rows)
    <3>1. s.captured \ {p} = s.captured
      BY <2>1
    <3> QED BY <1>3, <3>1 DEF Settled, Accounted, UniqueJobs
  <2>2. CASE ~NoOrphans(s.rows)
    BY <1>3, <2>2 DEF Accounted
  <2> QED BY <2>1, <2>2
<1>8. DraftsProven(t)
  BY <1>3 DEF Settled, DraftsProven
<1>9. Settled(t)
  BY <1>2, <1>5, <1>6, <1>7, <1>8 DEF Settled
<1> QED BY <1>3, <1>4, <1>9 DEF t

LEMMA CaptureAnsweredSound ==
  ASSUME SweepInv, CaptureAnswered
  PROVE  SweepInv'
<1> DEFINE p == Min(sweep.todo)
           s == Answered(sweep)
           rest == sweep.todo \ {p}
<1>1. /\ sweep \in SweepRecord /\ Settled(sweep) /\ sweep.pc = "reply"
      /\ sweep.todo # {} /\ p \in sweep.todo /\ rest \in SUBSET SweepPoses
  BY SweepFields DEF CaptureAnswered, SweepInv, AtWork, OnItsWay
<1>2. /\ sweep.motion = "none" /\ sweep.busy /\ sweep.phase # "COMPLETED"
      /\ sweep.pending = {p} /\ sweep.todo \cap sweep.captured = {}
  BY <1>1 DEF SweepInv, AtWork, AtRest, OnItsWay, ToCapture, Resting
<1>3. p \notin sweep.captured /\ rest \cap sweep.captured = {}
      /\ rest \cap (sweep.captured \cup {p}) = {}
  BY <1>1, <1>2
<1>4. CASE sweep.reply = {} /\ sweep' = Paused(sweep)
  BY <1>4, StopsSound
<1>5. ASSUME NEW r \in sweep.reply,
             LET next == {[t EXCEPT !.todo = @ \ {p}, !.pc = "next"] :
                           t \in CASE r = "close" -> {Skipped(s, p)}
                                   [] r = "error" -> {Skipped(t, p) : t \in Reconciled(s)}
                                   [] r = "saved" -> CaptureSaved(s, p)}
             IN  IF next = {} THEN sweep' = Failed(s) ELSE sweep' \in next
      PROVE  SweepInv'
  <2>1. Settled(s)
    BY <1>1, <1>5, AnswerTaken
  <2>2. /\ s \in SweepRecord /\ s.motion = "none" /\ s.busy /\ s.phase # "COMPLETED"
        /\ s.pending = {p} /\ s.captured = sweep.captured /\ s.rows = sweep.rows
        /\ s.known = sweep.known /\ s.todo = sweep.todo /\ s.captureUnconfirmed = FALSE
    <3>1. s \in SweepRecord
      BY <2>1 DEF Settled
    <3>2. /\ s.motion = "none" /\ s.busy /\ s.phase # "COMPLETED"
          /\ s.pending = sweep.pending /\ s.captured = sweep.captured
          /\ s.rows = sweep.rows
          /\ s.known = sweep.known /\ s.todo = sweep.todo /\ s.captureUnconfirmed = FALSE
      BY <1>1, <1>2 DEF Answered, SweepRecord
    <3> QED BY <1>2, <3>1, <3>2
  <2>0. s \in SweepRecord
    BY <2>2
  <2> HIDE DEF s, p, rest
  <2>3. \A t \in Reconciled(s) :
          /\ t \in SweepRecord /\ Settled(t) /\ t.motion = "none" /\ t.busy
          /\ t.phase # "COMPLETED" /\ t.todo = sweep.todo
          /\ t.captureUnconfirmed = FALSE /\ Len(t.rows) = t.known
          /\ rest \cap t.captured = {}
    <3> SUFFICES ASSUME NEW t \in Reconciled(s)
                 PROVE  /\ t \in SweepRecord /\ Settled(t) /\ t.motion = "none" /\ t.busy
                        /\ t.phase # "COMPLETED" /\ t.todo = sweep.todo
                        /\ t.captureUnconfirmed = FALSE /\ Len(t.rows) = t.known
                        /\ rest \cap t.captured = {}
      OBVIOUS
    <3>1. Settled(t)
      BY <2>1, ReconciledIsSettled
    <3>2. /\ t \in SweepRecord /\ t.motion = s.motion /\ t.busy = s.busy
          /\ t.phase = s.phase /\ t.todo = s.todo
          /\ t.captureUnconfirmed = s.captureUnconfirmed
          /\ t.rows = s.rows /\ t.known = Len(s.rows)
      BY <2>0, ReconciledFields
    <3>3. t.captured = s.captured \/ t.captured = s.captured \cup s.pending
      BY <2>0, ReconciledFields
    <3>4. rest \cap t.captured = {}
      BY <1>3, <2>2, <3>3
    <3> QED BY <2>2, <3>1, <3>2, <3>4
  <2>4. CASE sweep' = Failed(s)
    BY <2>1, <2>4, EndedIsSound DEF SweepInv, Failed
  <2>5. ASSUME NEW t, Settled(t), t.motion = "none", t.busy, t.phase # "COMPLETED",
               t.todo = sweep.todo, t.captureUnconfirmed = FALSE,
               NoOrphans(t.rows) => Len(t.rows) = t.known,
               rest \cap t.captured = {},
               sweep' = [t EXCEPT !.todo = @ \ {p}, !.pc = "next"]
        PROVE  SweepInv'
    <3>1. t \in SweepRecord
      BY <2>5 DEF Settled
    <3>2. sweep' = [t EXCEPT !.todo = rest, !.pc = "next"]
      BY <2>5, <3>1 DEF SweepRecord, rest
    <3>3. ~t.captureUnconfirmed
      BY <2>5
    <3>4. /\ Settled([t EXCEPT !.todo = rest, !.pc = "next"])
          /\ AtWork([t EXCEPT !.todo = rest, !.pc = "next"])
      BY <1>1, <2>5, <3>3, NextPoseIsSound
    <3> QED BY <3>2, <3>4 DEF SweepInv
  <2>6. ASSUME r = "close",
               sweep' = [Skipped(s, p) EXCEPT !.todo = @ \ {p}, !.pc = "next"]
        PROVE  SweepInv'
    <3>1. NoOrphans(sweep.rows) => Len(sweep.rows) = sweep.known
      BY <1>1, <1>5, <2>6 DEF Settled, Accounted
    <3> DEFINE t == Skipped(s, p)
    <3>2. /\ Settled(t) /\ t.busy = s.busy /\ t.phase = s.phase
          /\ t.todo = s.todo /\ t.motion = s.motion
          /\ t.captureUnconfirmed = s.captureUnconfirmed
          /\ t.rows = s.rows /\ t.known = s.known /\ t.captured = s.captured \ {p}
      BY ZenonT(40), <1>3, <2>1, <2>2, SkippedIsSettled
    <3>3. sweep' = [t EXCEPT !.todo = @ \ {p}, !.pc = "next"]
      BY <2>6
    <3> HIDE DEF t
    <3>4. rest \cap t.captured = {}
      BY <1>3, <2>2, <3>2
    <3> QED BY <2>2, <2>5, <3>1, <3>2, <3>3, <3>4
  <2>7. ASSUME NEW u \in Reconciled(s), r = "error",
               sweep' = [Skipped(u, p) EXCEPT !.todo = @ \ {p}, !.pc = "next"]
        PROVE  SweepInv'
    <3>1. /\ Settled(u) /\ u.motion = "none" /\ u.busy
          /\ u.phase # "COMPLETED" /\ u.todo = sweep.todo
          /\ u.captureUnconfirmed = FALSE /\ Len(u.rows) = u.known
          /\ rest \cap u.captured = {}
      BY <2>3
    <3>2. NoOrphans(u.rows) => p \notin u.captured
      <4>1. NoOrphans(sweep.rows) => Len(sweep.rows) = sweep.known
        BY <1>1, <1>5, <2>7 DEF Settled, Accounted
      <4>2. /\ u.rows = s.rows
            /\ u.captured = s.captured \/ Len(s.rows) = s.known + 1
        BY <2>2, ReconciledFields
      <4>3. s.known \in Nat
        BY <2>2 DEF SweepRecord
      <4> QED BY <1>3, <2>2, <4>1, <4>2, <4>3
    <3> DEFINE t == Skipped(u, p)
    <3>3. /\ Settled(t) /\ t.busy = u.busy /\ t.phase = u.phase
          /\ t.todo = u.todo /\ t.motion = u.motion
          /\ t.captureUnconfirmed = u.captureUnconfirmed
          /\ t.rows = u.rows /\ t.known = u.known /\ t.captured = u.captured \ {p}
      BY <3>1, <3>2, SkippedIsSettled
    <3>4. sweep' = [t EXCEPT !.todo = @ \ {p}, !.pc = "next"]
      BY <2>7
    <3> HIDE DEF t
    <3>5. rest \cap t.captured = {}
      BY <3>1, <3>3
    <3> QED BY <2>5, <3>1, <3>3, <3>4, <3>5
  <2>8. ASSUME NEW t \in CaptureSaved(s, p), 
               sweep' = [t EXCEPT !.todo = @ \ {p}, !.pc = "next"]
        PROVE  SweepInv'
    <3>1. t \in Reconciled(s)
      BY <2>8 DEF CaptureSaved
    <3> QED BY <2>3, <2>5, <2>8, <3>1
  <2> DEFINE dealt == CASE r = "close" -> {Skipped(s, p)}
                        [] r = "error" -> {Skipped(t, p) : t \in Reconciled(s)}
                        [] r = "saved" -> CaptureSaved(s, p)
  <2>9. r = "close" \/ r = "error" \/ r = "saved"
    BY <1>1, <1>5 DEF SweepRecord
  <2>10. \/ sweep' = Failed(s)
         \/ \E t \in dealt : sweep' = [t EXCEPT !.todo = @ \ {p}, !.pc = "next"]
    <3> HIDE DEF dealt
    <3>1. LET next == {[t EXCEPT !.todo = @ \ {p}, !.pc = "next"] : t \in dealt}
          IN  IF next = {} THEN sweep' = Failed(s) ELSE sweep' \in next
      BY <1>5 DEF dealt
    <3> QED BY <3>1
  <2>11. ASSUME NEW t \in dealt, sweep' = [t EXCEPT !.todo = @ \ {p}, !.pc = "next"]
         PROVE  SweepInv'
    <3>1. CASE r = "close"
      <4>1. t = Skipped(s, p)
        BY <2>11, <3>1
      <4> QED BY <2>6, <2>11, <3>1, <4>1
    <3>2. CASE r = "error"
      <4>1. PICK u \in Reconciled(s) : t = Skipped(u, p)
        BY <2>11, <3>2
      <4> QED BY <2>7, <2>11, <3>2, <4>1
    <3>3. CASE r = "saved"
      <4>1. t \in CaptureSaved(s, p)
        BY <2>11, <3>3
      <4> QED BY <2>8, <2>11, <4>1
    <3> QED BY <2>9, <3>1, <3>2, <3>3
  <2> QED BY <2>4, <2>10, <2>11
<1> QED BY <1>4, <1>5 DEF CaptureAnswered, Answered

-----------------------------------------------------------------------------
(* Counting rows: the jobs of a session are as many as its rows, and a     *)
(* fit that is all of them that fit, before all that do not, is a prefix.  *)

LEMMA JobsAreCounted ==
  ASSUME NEW s \in SweepRecord, UniqueJobs(s), NEW jobs,
         jobs = [i \in DOMAIN s.rows |-> s.rows[i].job]
  PROVE  Cardinality(ToSet(jobs)) = Len(s.rows)
<1> DEFINE n == Len(s.rows)
<1>1. n \in Nat /\ DOMAIN s.rows = 1..n
  BY DEF SweepRecord
<1>2. jobs \in Surjection(1..n, ToSet(jobs))
  BY <1>1 DEF Surjection, ToSet
<1>3. jobs \in Injection(1..n, ToSet(jobs))
  BY <1>1, <1>2 DEF Injection, Surjection, UniqueJobs, IsInjective
<1>4. IsFiniteSet(1..n) /\ Cardinality(1..n) = n
  BY <1>1, FS_Interval
<1> QED BY <1>2, <1>3, <1>4, FS_Surjection

LEMMA FitIsCounted ==
  ASSUME NEW s \in SweepRecord, UniqueJobs(s), NEW I,
         I = {i \in DOMAIN s.rows : IsFit(s.rows[i].job)}
  PROVE  /\ IsFiniteSet(I) /\ Cardinality(I) = Cardinality(FitRows(s))
         /\ FitRows(s) = {s.rows[i] : i \in I}
<1> DEFINE f == [i \in I |-> s.rows[i]]
           n == Len(s.rows)
<1>1. n \in Nat /\ DOMAIN s.rows = 1..n
  BY DEF SweepRecord
<1> HIDE DEF n
<1>2. IsFiniteSet(1..n)
  <2>1. n \in Int /\ 1 \in Int
    BY <1>1
  <2> QED BY <2>1, FS_Interval
<1>3. IsFiniteSet(I)
  BY <1>1, <1>2, FS_Subset
<1>4. FitRows(s) = {s.rows[i] : i \in I}
  BY DEF FitRows
<1>5. f \in Surjection(I, FitRows(s))
  BY <1>4 DEF Surjection
<1>6. f \in Injection(I, FitRows(s))
  <2>1. \A i, j \in I : s.rows[i] = s.rows[j] => i = j
    BY DEF UniqueJobs
  <2> QED BY <1>5, <2>1 DEF Injection, Surjection, IsInjective
<1> QED BY <1>3, <1>4, <1>5, <1>6, FS_Surjection

LEMMA InitialSegment ==
  ASSUME NEW n \in Nat, NEW I \in SUBSET (1..n),
         \A i \in I, j \in 1..n : j < i => j \in I
  PROVE  I = 1..Cardinality(I) /\ Cardinality(I) \in Nat
<1>1. IsFiniteSet(1..n)
  BY FS_Interval
<1>2. IsFiniteSet(I)
  BY <1>1, FS_Subset
<1> DEFINE k == Cardinality(I)
<1>3. k \in Nat
  BY <1>2, FS_CardinalityType
<1>4. IsFiniteSet(1..k) /\ Cardinality(1..k) = k
  BY <1>3, FS_Interval
<1> HIDE DEF k
<1>5. I \subseteq 1..k
  <2> SUFFICES ASSUME NEW i \in I, i > k PROVE FALSE
    BY <1>3
  <2>1. i \in Nat /\ 1..i \subseteq I
    OBVIOUS
  <2>2. IsFiniteSet(1..i) /\ Cardinality(1..i) = i
    BY <2>1, <1>3, FS_Interval
  <2>3. Cardinality(1..i) <= Cardinality(I)
    BY <1>2, <2>1, FS_Subset
  <2> QED BY <1>3, <2>1, <2>2, <2>3 DEF k
<1>6. Cardinality(1..k) = Cardinality(I)
  BY <1>4 DEF k
<1>7. I = 1..k
  BY <1>4, <1>5, <1>6, FS_Subset
<1> QED BY <1>3, <1>7 DEF k

LEMMA FrozenPrefix ==
  ASSUME NEW s \in SweepRecord, UniqueJobs(s), HeldOutIsLater(s),
         Cardinality(FitRows(s)) = FitCount
  PROVE  /\ FitCount <= Len(s.rows)
         /\ FitRows(s) = {s.rows[i] : i \in 1..FitCount}
         /\ {s.rows[i].job : i \in 1..FitCount} = {p \in SweepPoses : IsFit(p)}
<1> DEFINE n == Len(s.rows)
           I == {i \in DOMAIN s.rows : IsFit(s.rows[i].job)}
           P == {p \in SweepPoses : IsFit(p)}
           f == [i \in 1..FitCount |-> s.rows[i].job]
<1>1. n \in Nat /\ DOMAIN s.rows = 1..n /\ s.rows \in Seq(Row)
  BY DEF SweepRecord
<1>2. FitCount \in Nat /\ PoseCount \in Nat /\ FitCount <= PoseCount
  BY SweepAssumption
<1>3. I \in SUBSET (1..n)
  BY <1>1
<1>4. \A i \in I, j \in 1..n : j < i => j \in I
  <2> SUFFICES ASSUME NEW i \in I, NEW j \in 1..n, j < i, j \notin I PROVE FALSE
    OBVIOUS
  <2>1. i \in DOMAIN s.rows /\ j \in DOMAIN s.rows
    BY <1>1
  <2>2. IsFit(s.rows[i].job) /\ ~IsFit(s.rows[j].job)
    BY <2>1
  <2>3. i < j
    BY <2>1, <2>2 DEF HeldOutIsLater
  <2> QED BY <1>1, <2>3
<1>5. Cardinality(I) = FitCount /\ FitRows(s) = {s.rows[i] : i \in I}
  BY FitIsCounted
<1>6. I = 1..FitCount
  <2> HIDE DEF I, n
  <2> QED BY <1>1, <1>3, <1>4, <1>5, InitialSegment
<1>7. FitCount <= n
  <2>1. CASE FitCount = 0
    BY <1>1, <2>1
  <2>2. CASE FitCount # 0
    <3>1. FitCount \in I
      BY <1>2, <1>6, <2>2
    <3> QED BY <1>1, <1>3, <3>1
  <2> QED BY <2>1, <2>2
<1>8. P = 1..FitCount
  BY <1>2 DEF SweepPoses, IsFit
<1>9. f \in [1..FitCount -> P]
  <2> SUFFICES ASSUME NEW i \in 1..FitCount PROVE s.rows[i].job \in P
    OBVIOUS
  <2>1. i \in DOMAIN s.rows /\ IsFit(s.rows[i].job)
    BY <1>6
  <2>2. s.rows[i] \in Row
    BY <1>1, <2>1
  <2> QED BY <2>1, <2>2 DEF Row
<1>10. f \in Injection(1..FitCount, P)
  <2>1. \A i, j \in 1..FitCount : s.rows[i].job = s.rows[j].job => i = j
    BY <1>1, <1>6 DEF UniqueJobs
  <2> QED BY <1>9, <2>1 DEF Injection, IsInjective
<1>11. IsFiniteSet(P) /\ IsFiniteSet(1..FitCount)
  <2>1. IsFiniteSet(1..FitCount)
    BY <1>2, FS_Interval
  <2> HIDE DEF P
  <2> QED BY <1>8, <2>1
<1>12. f \in Surjection(1..FitCount, P)
  <2> HIDE DEF f, P
  <2> QED BY <1>8, <1>10, <1>11, FS_Injection
<1>13. {s.rows[i].job : i \in 1..FitCount} = P
  <2>1. \A p \in P : \E i \in 1..FitCount : s.rows[i].job = p
    BY <1>12 DEF Surjection
  <2>2. \A i \in 1..FitCount : s.rows[i].job \in P
    BY <1>9
  <2> QED BY <2>1, <2>2
<1> QED BY <1>5, <1>6, <1>7, <1>13

(* The draft that is saved is proven.                                      *)
LEMMA SolvedIsProven ==
  ASSUME NEW s, Settled(s), AtWork(s), s.pc = "save",
         NEW d, d = [rows |-> s.rows, fit |-> s.fit]
  PROVE  Proven(s.kind, d)
<1> DEFINE jobs == [i \in DOMAIN s.rows |-> s.rows[i].job]
<1> SUFFICES ASSUME NoOrphans(s.rows)
             PROVE  /\ Cardinality(ToSet(jobs)) >= RequiredBy(s.kind)
                    /\ s.kind = "right_handeye" =>
                         /\ s.fit = ToSet(SubSeq(s.rows, 1, FitCount))
                         /\ {jobs[i] : i \in 1..FitCount} = {p \in SweepPoses : IsFit(p)}
  BY DEF Proven
<1>1. s \in SweepRecord /\ UniqueJobs(s)
  BY DEF Settled, Accounted
<1>2. /\ Len(s.rows) >= RequiredBy(s.kind)
      /\ s.kind = "right_handeye" =>
           /\ s.fit = FitRows(s) /\ Cardinality(FitRows(s)) = FitCount
           /\ HeldOutIsLater(s)
  BY DEF AtWork, Solved
<1>3. Cardinality(ToSet(jobs)) = Len(s.rows)
  BY <1>1, JobsAreCounted
<1>4. ASSUME s.kind = "right_handeye"
      PROVE  /\ s.fit = ToSet(SubSeq(s.rows, 1, FitCount))
             /\ {jobs[i] : i \in 1..FitCount} = {p \in SweepPoses : IsFit(p)}
  <2>1. /\ FitCount <= Len(s.rows)
        /\ FitRows(s) = {s.rows[i] : i \in 1..FitCount}
        /\ {s.rows[i].job : i \in 1..FitCount} = {p \in SweepPoses : IsFit(p)}
    BY <1>1, <1>2, <1>4, FrozenPrefix
  <2>2. FitCount \in Nat /\ 1 <= FitCount
    BY SweepAssumption
  <2>3. s.rows \in Seq(Row) /\ DOMAIN s.rows = 1..Len(s.rows) /\ Len(s.rows) \in Nat
    BY <1>1 DEF SweepRecord
  <2>4. SubSeq(s.rows, 1, FitCount) = [i \in 1..FitCount |-> s.rows[i]]
    BY <2>1, <2>2, <2>3
  <2>5. ToSet(SubSeq(s.rows, 1, FitCount)) = {s.rows[i] : i \in 1..FitCount}
    BY <2>4 DEF ToSet
  <2>6. \A i \in 1..FitCount : jobs[i] = s.rows[i].job
    BY <2>1, <2>2, <2>3
  <2>7. {jobs[i] : i \in 1..FitCount} = {s.rows[i].job : i \in 1..FitCount}
    <3> HIDE DEF jobs
    <3> QED BY <2>6
  <2> QED BY <1>2, <1>4, <2>1, <2>5, <2>7
<1> QED BY <1>2, <1>3, <1>4

LEMMA SolveSound ==
  ASSUME SweepInv, Solve
  PROVE  SweepInv'
<1>1. /\ sweep \in SweepRecord /\ Settled(sweep) /\ sweep.pc = "next"
      /\ sweep.todo = {}
  BY SweepFields DEF Solve
<1>2. ASSUME sweep.known >= Required,
             NEW s \in IF Handeye THEN FinishValidation(sweep) ELSE {sweep},
             sweep' = [s EXCEPT !.pc = "save",
                                !.phase = IF Handeye THEN "VALIDATING" ELSE "SOLVING"]
      PROVE  SweepInv'
  <2>1. CASE Handeye
    <3>1. s \in FreezeFit(sweep) /\ HeldOutIsLater(s)
      BY <1>2, <2>1 DEF FinishValidation
    <3>2. /\ UniqueJobs(sweep) /\ Cardinality(FitRows(sweep)) = FitCount
          /\ s \in SweepRecord /\ Alike(sweep, s) /\ s.fit = FitRows(sweep)
          /\ s.pc = sweep.pc /\ s.busy = sweep.busy /\ s.phase = sweep.phase
          /\ s.todo = sweep.todo
      BY <1>1, <3>1, FreezeFitFields
    <3>3. sweep' = [s EXCEPT !.pc = "save", !.phase = "VALIDATING"]
      BY <1>2, <2>1
    <3>4. sweep' \in SweepRecord /\ Alike(s, sweep')
      BY ZenonT(40), <3>2, <3>3 DEF Alike, SweepRecord, Phases, Resting
    <3>5. /\ sweep'.pc = "save" /\ sweep'.busy = sweep.busy
          /\ sweep'.phase = "VALIDATING" /\ sweep'.todo = {}
          /\ sweep'.fit = FitRows(sweep)
      BY <1>1, <3>2, <3>3 DEF SweepRecord
    <3>6. Alike(sweep, sweep')
      BY <3>2, <3>4 DEF Alike
    <3>7. AtRest(sweep') /\ OnItsWay(sweep') /\ ToCapture(sweep')
      BY <1>1, <3>5, <3>6 DEF Alike, SweepInv, AtWork, AtRest, OnItsWay, ToCapture,
         Resting, MovingPc
    <3>8. Solved(sweep')
      <4>1. FitRows(sweep') = FitRows(sweep) /\ HeldOutIsLater(sweep')
        BY <3>1, <3>2, <3>6 DEF Alike, FitRows, HeldOutIsLater
      <4>2. NoOrphans(sweep.rows) => Len(sweep.rows) = sweep.known
        BY <1>1 DEF SweepInv, AtWork, ToCapture
      <4>3. Required = RequiredBy(sweep.kind)
        BY DEF Required, RequiredBy, Handeye
      <4>4. NoOrphans(sweep'.rows) => Len(sweep'.rows) >= RequiredBy(sweep'.kind)
        BY <1>2, <3>6, <4>2, <4>3 DEF Alike
      <4> QED BY <3>2, <3>5, <4>1, <4>4 DEF Solved
    <3> QED BY <1>1, <3>4, <3>6, <3>7, <3>8, SettledFrame DEF SweepInv, AtWork
  <2>2. CASE ~Handeye
    <3>1. sweep' = [sweep EXCEPT !.pc = "save", !.phase = "SOLVING"]
      BY <1>2, <2>2
    <3>2. sweep' \in SweepRecord /\ Alike(sweep, sweep')
      BY ZenonT(40), <1>1, <3>1 DEF Alike, SweepRecord, Phases, Resting
    <3>3. /\ sweep'.pc = "save" /\ sweep'.busy = sweep.busy
          /\ sweep'.phase = "SOLVING" /\ sweep'.todo = {}
      BY <1>1, <3>1 DEF SweepRecord
    <3>4. AtRest(sweep') /\ OnItsWay(sweep') /\ ToCapture(sweep')
      BY <1>1, <3>2, <3>3 DEF Alike, SweepInv, AtWork, AtRest, OnItsWay, ToCapture,
         Resting, MovingPc
    <3>5. Solved(sweep')
      <4>1. NoOrphans(sweep.rows) => Len(sweep.rows) = sweep.known
        BY <1>1 DEF SweepInv, AtWork, ToCapture
      <4>2. Required = RequiredBy(sweep.kind) /\ sweep.kind # "right_handeye"
        BY <2>2 DEF Required, RequiredBy, Handeye
      <4>3. NoOrphans(sweep'.rows) => Len(sweep'.rows) >= RequiredBy(sweep'.kind)
        BY <1>2, <3>2, <4>1, <4>2 DEF Alike
      <4> QED BY <3>2, <4>2, <4>3 DEF Alike, Solved
    <3> QED BY <1>1, <3>2, <3>4, <3>5, SettledFrame DEF SweepInv, AtWork
  <2> QED BY <2>1, <2>2
<1> QED BY <1>2, StopsSound DEF Solve

LEMMA SaveDraftSound ==
  ASSUME SweepInv, SaveDraft
  PROVE  SweepInv'
<1> DEFINE d == [rows |-> sweep.rows, fit |-> sweep.fit]
           saved == [sweep EXCEPT !.draft = <<d>>, !.phase = "RETURNING"]
<1>1. sweep \in SweepRecord /\ Settled(sweep) /\ AtWork(sweep) /\ sweep.pc = "save"
  BY SweepFields DEF SaveDraft, SweepInv
<1>2. CASE sweep.canceled
  BY <1>2, StopsSound DEF SaveDraft
<1>3. CASE ~sweep.canceled
  <2>1. sweep' \in MovedTo(saved, Ready) \cup {Paused(saved)}
    BY <1>3 DEF SaveDraft
  <2>2. d \in SavedDraft /\ d.rows = sweep.rows /\ d.fit = sweep.fit
    BY <1>1 DEF SavedDraft, SweepRecord
  <2>3. Proven(sweep.kind, d)
    BY <1>1, SolvedIsProven
  <2> HIDE DEF d
  <2>4. saved \in SweepRecord
    <3>1. <<d>> \in Seq(SavedDraft)
      BY <2>2
    <3> QED BY <1>1, <3>1 DEF SweepRecord, Phases
  <2>5. /\ saved.kind = sweep.kind /\ saved.captured = sweep.captured
        /\ saved.known = sweep.known /\ saved.rows = sweep.rows
        /\ saved.draft = <<d>> /\ saved.motion = sweep.motion
        /\ saved.motionUnconfirmed = sweep.motionUnconfirmed /\ saved.goal = sweep.goal
        /\ saved.captureUnconfirmed = sweep.captureUnconfirmed
        /\ saved.stray = sweep.stray /\ saved.at = sweep.at
        /\ saved.calls = sweep.calls /\ saved.reply = sweep.reply
    BY <1>1 DEF SweepRecord
  <2>6. /\ saved.busy = sweep.busy /\ saved.todo = sweep.todo
    BY <1>1 DEF SweepRecord
  <2> HIDE DEF saved
  <2>7. MotionMarked(saved) /\ CaptureMarked(saved)
    BY <1>1, <2>5 DEF Settled, MotionMarked, CaptureMarked
  <2>8. RowsTrue(saved)
    BY <1>1, <2>5 DEF Settled, RowsTrue
  <2>9. Accounted(saved)
    BY <1>1, <2>5 DEF Settled, Accounted, UniqueJobs
  <2>10. DraftsProven(saved)
    <3>1. ToSet(saved.draft) = {d}
      BY <2>5 DEF ToSet
    <3> QED BY <2>3, <2>5, <3>1 DEF DraftsProven
  <2>11. Settled(saved)
    BY <2>4, <2>7, <2>8, <2>9, <2>10 DEF Settled
  <2>12. CASE sweep' = Paused(saved)
    BY <2>11, <2>12, EndedIsSound DEF SweepInv, Paused
  <2>13. CASE sweep' \in MovedTo(saved, Ready)
    <3>1. sweep' = [saved EXCEPT !.pc = "asked", !.motionUnconfirmed = TRUE,
                                 !.motion = "asked", !.goal = Ready]
      BY <2>13 DEF MovedTo
    <3>2. sweep' = [saved EXCEPT !.phase = "RETURNING", !.pc = "asked",
                                 !.motionUnconfirmed = TRUE,
                                 !.motion = "asked", !.goal = Ready]
      <4>1. saved.phase = "RETURNING"
        BY <1>1 DEF saved, SweepRecord
      <4> QED BY <2>4, <3>1, <4>1 DEF SweepRecord
    <3>3. Ready \in 0..PoseCount
      BY SweepAssumption DEF Ready
    <3>4. /\ saved.motion = "none" /\ ~saved.captureUnconfirmed /\ saved.busy
          /\ saved.todo \cap saved.captured = {} /\ saved.draft # << >>
          /\ NoOrphans(saved.rows) => Len(saved.rows) = saved.known
      BY <1>1, <2>5, <2>6 DEF AtWork, AtRest, ToCapture, Resting
    <3> QED BY <2>11, <3>2, <3>3, <3>4, MoveIsSound DEF SweepInv
  <2> QED BY <2>1, <2>12, <2>13
<1> QED BY <1>2, <1>3

LEMMA ServePoseSound ==
  ASSUME SweepInv, ServePose
  PROVE  SweepInv'
<1>1. sweep \in SweepRecord /\ Settled(sweep) /\ AtWork(sweep)
  BY SweepFields DEF SweepInv
<1>2. ASSUME sweep.motion \in {"asked", "live"},
             NEW m \in {"refused", "live", "done", "failed"}, NEW at \in 0..PoseCount + 1,
             m # "refused" => ~sweep.stray, m = "done" => at = sweep.goal,
             m = "refused" => sweep.motion = "asked" /\ at = sweep.at,
             sweep' = [sweep EXCEPT !.motion = m, !.at = at]
      PROVE  SweepInv'
  <2>1. sweep' \in SweepRecord
    BY <1>1, <1>2 DEF SweepRecord, Motions
  <2>2. /\ sweep'.kind = sweep.kind /\ sweep'.captured = sweep.captured
        /\ sweep'.known = sweep.known /\ sweep'.rows = sweep.rows
        /\ sweep'.draft = sweep.draft /\ sweep'.motion = m
        /\ sweep'.motionUnconfirmed = sweep.motionUnconfirmed /\ sweep'.goal = sweep.goal
        /\ sweep'.captureUnconfirmed = sweep.captureUnconfirmed
        /\ sweep'.stray = sweep.stray /\ sweep'.at = at
        /\ sweep'.calls = sweep.calls /\ sweep'.reply = sweep.reply
    BY <1>1, <1>2 DEF SweepRecord
  <2>3. /\ sweep'.pc = sweep.pc /\ sweep'.busy = sweep.busy /\ sweep'.phase = sweep.phase
        /\ sweep'.todo = sweep.todo /\ sweep'.pending = sweep.pending
        /\ sweep'.fit = sweep.fit
    BY <1>1, <1>2 DEF SweepRecord
  <2>4. /\ ~sweep.captureUnconfirmed /\ sweep.reply = {} /\ sweep.motionUnconfirmed
        /\ \A c \in sweep.calls : c.orphan
    BY <1>1, <1>2 DEF Settled, MotionMarked, CaptureMarked
  <2>5. /\ sweep.pc \notin Resting /\ sweep.phase # "COMPLETED"
        /\ sweep.pc \in {"moving", "stopping"} => m # "refused"
    BY <1>1, <1>2 DEF AtWork, AtRest, OnItsWay
  <2>6. MotionMarked(sweep') /\ CaptureMarked(sweep')
    BY <1>2, <2>2, <2>4 DEF MotionMarked, CaptureMarked
  <2>7. RowsTrue(sweep')
    BY <1>1, <2>2 DEF Settled, RowsTrue
  <2>8. Accounted(sweep')
    BY <1>1, <2>2 DEF Settled, Accounted, UniqueJobs
  <2>9. DraftsProven(sweep')
    BY <1>1, <2>2 DEF Settled, DraftsProven
  <2>10. AtRest(sweep')
    BY <1>1, <1>2, <2>2, <2>3, <2>4, <2>5 DEF AtWork, AtRest
  <2>11. OnItsWay(sweep')
    BY <1>1, <2>2, <2>3, <2>5 DEF AtWork, OnItsWay, Resting
  <2>12. ToCapture(sweep') /\ Solved(sweep')
    BY <1>1, <2>2, <2>3, <2>5 DEF AtWork, ToCapture, Solved, Resting
  <2> QED BY <2>1, <2>6, <2>7, <2>8, <2>9, <2>10, <2>11, <2>12
          DEF SweepInv, Settled, AtWork
<1>3. CASE sweep.motion = "asked" /\ sweep' = IF sweep.stray
             THEN [sweep EXCEPT !.motion = "refused"]
             ELSE [sweep EXCEPT !.motion = "live", !.at = Nowhere]
  <2>1. CASE sweep.stray
    <3>1. sweep' = [sweep EXCEPT !.motion = "refused", !.at = sweep.at]
      BY <1>1, <1>3, <2>1 DEF SweepRecord
    <3>2. sweep.at \in 0..PoseCount + 1
      BY <1>1 DEF SweepRecord
    <3> QED BY <1>2, <1>3, <3>1, <3>2
  <2>2. CASE ~sweep.stray
    <3>1. Nowhere \in 0..PoseCount + 1
      BY SweepAssumption DEF Nowhere
    <3> QED BY <1>2, <1>3, <2>2, <3>1
  <2> QED BY <2>1, <2>2
<1>4. CASE sweep.motion = "live" /\
           sweep' \in {[sweep EXCEPT !.motion = "done", !.at = sweep.goal],
                       [sweep EXCEPT !.motion = "failed"]}
  <2>1. ~sweep.stray
    BY <1>1, <1>4 DEF Settled, MotionMarked
  <2>2. sweep.at \in 0..PoseCount + 1 /\ sweep.goal \in 0..PoseCount + 1
    BY <1>1, SweepAssumption DEF SweepRecord
  <2>3. CASE sweep' = [sweep EXCEPT !.motion = "done", !.at = sweep.goal]
    BY <1>2, <1>4, <2>1, <2>2, <2>3
  <2>4. CASE sweep' = [sweep EXCEPT !.motion = "failed"]
    <3>1. sweep' = [sweep EXCEPT !.motion = "failed", !.at = sweep.at]
      BY <1>1, <2>4 DEF SweepRecord
    <3> QED BY <1>2, <1>4, <2>1, <2>2, <3>1
  <2> QED BY <1>4, <2>3, <2>4
<1>5. CASE sweep' = [sweep EXCEPT !.stray = FALSE]
  <2>1. sweep' \in SweepRecord
    BY <1>1, <1>5 DEF SweepRecord
  <2>2. /\ sweep'.kind = sweep.kind /\ sweep'.captured = sweep.captured
        /\ sweep'.known = sweep.known /\ sweep'.rows = sweep.rows
        /\ sweep'.draft = sweep.draft /\ sweep'.motion = sweep.motion
        /\ sweep'.motionUnconfirmed = sweep.motionUnconfirmed /\ sweep'.goal = sweep.goal
        /\ sweep'.captureUnconfirmed = sweep.captureUnconfirmed
        /\ sweep'.stray = FALSE /\ sweep'.at = sweep.at
        /\ sweep'.calls = sweep.calls /\ sweep'.reply = sweep.reply
    BY <1>1, <1>5 DEF SweepRecord
  <2>3. /\ sweep'.pc = sweep.pc /\ sweep'.busy = sweep.busy /\ sweep'.phase = sweep.phase
        /\ sweep'.todo = sweep.todo /\ sweep'.pending = sweep.pending
        /\ sweep'.fit = sweep.fit
    BY <1>1, <1>5 DEF SweepRecord
  <2>4. MotionMarked(sweep') /\ CaptureMarked(sweep')
    BY <1>1, <2>2 DEF Settled, MotionMarked, CaptureMarked
  <2>5. RowsTrue(sweep')
    BY <1>1, <2>2 DEF Settled, RowsTrue
  <2>6. Accounted(sweep')
    BY <1>1, <2>2 DEF Settled, Accounted, UniqueJobs
  <2>7. DraftsProven(sweep')
    BY <1>1, <2>2 DEF Settled, DraftsProven
  <2>8. AtWork(sweep')
    BY <1>1, <2>2, <2>3 DEF AtWork, AtRest, OnItsWay, ToCapture, Solved, FitRows,
       HeldOutIsLater
  <2> QED BY <2>1, <2>4, <2>5, <2>6, <2>7, <2>8 DEF SweepInv, Settled
<1> QED BY <1>3, <1>4, <1>5 DEF ServePose

LEMMA ServeCaptureSound ==
  ASSUME SweepInv, ServeCapture
  PROVE  SweepInv'
<1>1. sweep \in SweepRecord /\ Settled(sweep) /\ AtWork(sweep)
  BY SweepFields DEF SweepInv
<1>2. ASSUME NEW call \in sweep.calls, NEW r \in {"error", "close", "saved"},
             NEW rows, NEW reply,
             reply = IF call.orphan THEN sweep.reply ELSE {r},
             \/ r # "saved" /\ rows = sweep.rows
             \/ r = "saved" /\ rows = Append(sweep.rows, Snapshot(call)),
             sweep' = [sweep EXCEPT !.calls = @ \ {call}, !.rows = rows, !.reply = reply]
      PROVE  SweepInv'
  <2> DEFINE row == Snapshot(call)
  <2>1. call \in [job : SweepPoses, orphan : BOOLEAN]
    BY <1>1, <1>2 DEF SweepRecord
  <2>2. /\ row \in Row /\ row.job = call.job /\ row.orphan = call.orphan
        /\ row.at = sweep.at /\ row.still = ~Moving(sweep)
    BY <1>1, <2>1 DEF Snapshot, Row, SweepRecord, Moving
  <2> HIDE DEF row
  <2>3. /\ sweep.rows \in Seq(Row) /\ Len(sweep.rows) \in Nat /\ sweep.known \in Nat
        /\ DOMAIN sweep.rows = 1..Len(sweep.rows)
    BY <1>1 DEF SweepRecord
  <2>4. \/ r # "saved" /\ rows = sweep.rows
        \/ /\ r = "saved" /\ Len(rows) = Len(sweep.rows) + 1
           /\ DOMAIN rows = 1..(Len(sweep.rows) + 1)
           /\ rows[Len(sweep.rows) + 1] = row
           /\ \A i \in 1..Len(sweep.rows) : rows[i] = sweep.rows[i]
    BY <1>2, <2>2, <2>3 DEF row
  <2>5. rows \in Seq(Row)
    BY SMTT(20), <1>2, <2>2, <2>3 DEF row
  <2>6. reply \in SUBSET {"saved", "close", "error"}
    BY <1>1, <1>2 DEF SweepRecord
  <2>7. sweep' \in SweepRecord
    BY ZenonT(40), <1>1, <1>2, <2>5, <2>6 DEF SweepRecord
  <2>8. /\ sweep'.kind = sweep.kind /\ sweep'.captured = sweep.captured
        /\ sweep'.known = sweep.known /\ sweep'.rows = rows
        /\ sweep'.draft = sweep.draft /\ sweep'.motion = sweep.motion
        /\ sweep'.motionUnconfirmed = sweep.motionUnconfirmed /\ sweep'.goal = sweep.goal
        /\ sweep'.captureUnconfirmed = sweep.captureUnconfirmed
        /\ sweep'.stray = sweep.stray /\ sweep'.at = sweep.at
        /\ sweep'.calls = sweep.calls \ {call} /\ sweep'.reply = reply
    BY <1>1, <1>2 DEF SweepRecord
  <2>9. /\ sweep'.pc = sweep.pc /\ sweep'.busy = sweep.busy /\ sweep'.phase = sweep.phase
        /\ sweep'.todo = sweep.todo /\ sweep'.pending = sweep.pending
        /\ sweep'.fit = sweep.fit
    BY <1>1, <1>2 DEF SweepRecord
  <2>10. ASSUME ~call.orphan
         PROVE  /\ sweep.captureUnconfirmed /\ sweep.reply = {}
                /\ sweep.at = call.job /\ ~Moving(sweep)
                /\ sweep.pc \in {"reply", "idle"}
                /\ \A c \in sweep'.calls : c.orphan
    <3>1. /\ sweep.captureUnconfirmed /\ sweep.reply = {}
          /\ sweep.at = call.job /\ ~sweep.stray /\ sweep.motion = "none"
      BY <1>1, <1>2, <2>10 DEF Settled, CaptureMarked
    <3>2. ASSUME NEW c \in sweep.calls, ~c.orphan PROVE c = call
      <4>1. c.job = call.job
        BY <1>1, <3>1, <3>2 DEF Settled, CaptureMarked
      <4>2. c \in [job : SweepPoses, orphan : BOOLEAN]
        BY <1>1, <3>2 DEF SweepRecord
      <4> QED BY <2>1, <2>10, <3>2, <4>1, <4>2
    <3>3. sweep.pc \in {"reply", "idle"}
      BY <1>1, <3>1 DEF AtWork, AtRest
    <3> QED BY <2>8, <3>1, <3>2, <3>3 DEF Moving
  <2>11. MotionMarked(sweep')
    BY <1>1, <2>8 DEF Settled, MotionMarked
  <2>12. CaptureMarked(sweep')
    <3>1. CASE call.orphan
      BY <1>1, <1>2, <2>8, <3>1 DEF Settled, CaptureMarked
    <3>2. CASE ~call.orphan
      BY <1>1, <2>8, <2>10, <3>2 DEF Settled, CaptureMarked
    <3> QED BY <3>1, <3>2
  <2>13. RowsTrue(sweep')
    <3>1. row.orphan \/ (row.still /\ row.at = row.job)
      BY <2>2, <2>10
    <3>2. \A i \in 1..Len(sweep.rows) : sweep.rows[i].orphan
            \/ (sweep.rows[i].still /\ sweep.rows[i].at = sweep.rows[i].job)
      BY <1>1, <2>3 DEF Settled, RowsTrue
    <3>3. ASSUME NEW i \in DOMAIN rows
          PROVE  rows[i].orphan \/ (rows[i].still /\ rows[i].at = rows[i].job)
      BY SMTT(20), <2>3, <2>4, <3>1, <3>2
    <3> QED BY <2>8, <3>3 DEF RowsTrue
  <2>14. Accounted(sweep')
    <3>1. CASE rows = sweep.rows /\ r # "saved"
      <4>1. CASE call.orphan
        BY <1>1, <1>2, <2>8, <3>1, <4>1 DEF Settled, Accounted, UniqueJobs
      <4>2. CASE ~call.orphan
        BY <1>1, <1>2, <2>8, <2>10, <3>1, <4>2 DEF Settled, Accounted, UniqueJobs
      <4> QED BY <4>1, <4>2
    <3>2. CASE /\ r = "saved" /\ Len(rows) = Len(sweep.rows) + 1
               /\ DOMAIN rows = 1..(Len(sweep.rows) + 1)
               /\ rows[Len(sweep.rows) + 1] = row
               /\ \A i \in 1..Len(sweep.rows) : rows[i] = sweep.rows[i]
      <4> SUFFICES ASSUME NoOrphans(rows)
                   PROVE  /\ sweep.known <= Len(rows) /\ Len(rows) <= sweep.known + 1
                          /\ UniqueJobs(sweep')
                          /\ \A i \in 1..sweep.known : rows[i].job \in sweep.captured
                          /\ \A c \in sweep'.calls : c.orphan
                          /\ "close" \notin reply /\ "error" \notin reply
        BY <2>8 DEF Accounted
      <4>1. Len(sweep.rows) + 1 \in DOMAIN rows
        BY <2>3, <3>2
      <4>2. ~call.orphan
        BY <2>2, <3>2, <4>1 DEF NoOrphans
      <4>3. NoOrphans(sweep.rows)
        BY <2>3, <3>2 DEF NoOrphans
      <4>4. /\ Len(sweep.rows) = sweep.known /\ call.job \notin sweep.captured
            /\ UniqueJobs(sweep)
            /\ \A i \in 1..sweep.known : sweep.rows[i].job \in sweep.captured
        BY <1>1, <1>2, <4>2, <4>3 DEF Settled, Accounted
      <4>5. UniqueJobs(sweep')
        <5> SUFFICES ASSUME NEW i \in DOMAIN rows, NEW j \in DOMAIN rows,
                            rows[i].job = rows[j].job
                     PROVE  i = j
          BY <2>8 DEF UniqueJobs
        <5>1. CASE i \in 1..Len(sweep.rows) /\ j \in 1..Len(sweep.rows)
          BY <2>3, <3>2, <4>4, <5>1 DEF UniqueJobs
        <5>2. CASE i = Len(sweep.rows) + 1 /\ j \in 1..Len(sweep.rows)
          BY <2>2, <3>2, <4>4, <5>2
        <5>3. CASE i \in 1..Len(sweep.rows) /\ j = Len(sweep.rows) + 1
          BY <2>2, <3>2, <4>4, <5>3
        <5> QED BY SMTT(20), <2>3, <3>2, <5>1, <5>2, <5>3
      <4>6. \A i \in 1..sweep.known : rows[i].job \in sweep.captured
        BY <3>2, <4>4
      <4> QED BY <1>2, <2>3, <2>10, <3>2, <4>2, <4>4, <4>5, <4>6
    <3> QED BY <2>4, <3>1, <3>2
  <2>15. DraftsProven(sweep')
    BY <1>1, <2>8 DEF Settled, DraftsProven
  <2>16. AtRest(sweep') /\ OnItsWay(sweep')
    BY <1>1, <2>8, <2>9 DEF AtWork, AtRest, OnItsWay
  <2>17. NoOrphans(rows) /\ sweep.pc \notin {"reply", "idle"} => rows = sweep.rows
    <3> SUFFICES ASSUME NoOrphans(rows), sweep.pc \notin {"reply", "idle"},
                        rows # sweep.rows
                 PROVE  FALSE
      OBVIOUS
    <3>1. Len(sweep.rows) + 1 \in DOMAIN rows /\ rows[Len(sweep.rows) + 1] = row
      BY <2>3, <2>4
    <3> QED BY <2>2, <2>10, <3>1 DEF NoOrphans
  <2>18. ToCapture(sweep')
    BY <1>1, <2>8, <2>9, <2>17 DEF AtWork, ToCapture, MovingPc
  <2>19. Solved(sweep')
    <3>1. rows = sweep.rows => FitRows(sweep') = FitRows(sweep)
                               /\ (HeldOutIsLater(sweep) => HeldOutIsLater(sweep'))
      BY <2>8 DEF FitRows, HeldOutIsLater
    <3> QED BY <1>1, <2>8, <2>9, <2>17, <3>1 DEF AtWork, Solved
  <2> QED BY <2>7, <2>11, <2>12, <2>13, <2>14, <2>15, <2>16, <2>18, <2>19
          DEF SweepInv, Settled, AtWork
<1>3. PICK call \in sweep.calls :
        LET row   == Snapshot(call)
            close == TooClose(row)
            told(r) == IF call.orphan THEN sweep.reply ELSE {r}
            s     == [sweep EXCEPT !.calls = @ \ {call}]
        IN  \/ sweep' = [s EXCEPT !.reply = told("error")]
            \/ close /\ sweep' = [s EXCEPT !.reply = told("close")]
            \/ /\ ~close
               /\ sweep' = [s EXCEPT !.rows = Append(@, row), !.reply = told("saved")]
  BY DEF ServeCapture
<1> DEFINE told(r) == IF call.orphan THEN sweep.reply ELSE {r}
<1>4. CASE sweep' = [[sweep EXCEPT !.calls = @ \ {call}] EXCEPT !.reply = told("error")]
  <2>1. sweep' = [sweep EXCEPT !.calls = @ \ {call}, !.rows = sweep.rows,
                               !.reply = told("error")]
    BY <1>1, <1>4 DEF SweepRecord
  <2> QED BY <1>2, <2>1
<1>5. CASE sweep' = [[sweep EXCEPT !.calls = @ \ {call}] EXCEPT !.reply = told("close")]
  <2>1. sweep' = [sweep EXCEPT !.calls = @ \ {call}, !.rows = sweep.rows,
                               !.reply = told("close")]
    BY <1>1, <1>5 DEF SweepRecord
  <2> QED BY <1>2, <2>1
<1>6. CASE sweep' = [[sweep EXCEPT !.calls = @ \ {call}]
                       EXCEPT !.rows = Append(@, Snapshot(call)), !.reply = told("saved")]
  <2>1. sweep' = [sweep EXCEPT !.calls = @ \ {call},
                               !.rows = Append(sweep.rows, Snapshot(call)),
                               !.reply = told("saved")]
    BY <1>1, <1>6 DEF SweepRecord
  <2> QED BY <1>2, <2>1
<1> QED BY <1>3, <1>4, <1>5, <1>6

LEMMA RestartNodeSound ==
  ASSUME SweepInv, RestartNode
  PROVE  SweepInv'
<1>1. sweep \in SweepRecord /\ Settled(sweep) /\ AtWork(sweep)
  BY SweepFields DEF SweepInv
<1>2. PICK kept \in SUBSET sweep.calls, runs \in BOOLEAN :
        LET s == [sweep EXCEPT
                    !.pc = "idle", !.busy = FALSE, !.canceled = FALSE,
                    !.todo = {}, !.frozen = FALSE, !.motionUnconfirmed = FALSE,
                    !.captureUnconfirmed = FALSE, !.reply = {},
                    !.motion = "none", !.sessions = @ + 1,
                    !.stray = runs /\ sweep.motion \in {"asked", "live"},
                    !.at = IF runs /\ sweep.motion = "asked" THEN Nowhere ELSE @,
                    !.calls = {[c EXCEPT !.orphan = TRUE] : c \in kept}]
        IN  IF Reconciled(s) = {} THEN sweep' = [s EXCEPT !.up = FALSE]
            ELSE \E t \in Reconciled(s) :
                   sweep' = IF t.phase \in {"COMPLETED", "ERROR", "IDLE"} THEN t
                            ELSE [t EXCEPT !.phase = "PAUSED"]
  BY DEF RestartNode
<1> DEFINE orphans == {[c EXCEPT !.orphan = TRUE] : c \in kept}
           at == IF runs /\ sweep.motion = "asked" THEN Nowhere ELSE sweep.at
           stray == runs /\ sweep.motion \in {"asked", "live"}
           s == [sweep EXCEPT
                    !.pc = "idle", !.busy = FALSE, !.canceled = FALSE,
                    !.todo = {}, !.frozen = FALSE, !.motionUnconfirmed = FALSE,
                    !.captureUnconfirmed = FALSE, !.reply = {},
                    !.motion = "none", !.sessions = @ + 1,
                    !.stray = stray, !.at = at, !.calls = orphans]
<1>3. /\ orphans \subseteq [job : SweepPoses, orphan : BOOLEAN]
      /\ \A c \in orphans : c.orphan
  <2>1. kept \subseteq [job : SweepPoses, orphan : BOOLEAN]
    BY <1>1, <1>2 DEF SweepRecord
  <2> QED BY <2>1
<1>4. at \in 0..PoseCount + 1 /\ stray \in BOOLEAN
  <2>1. Nowhere \in 0..PoseCount + 1
    BY SweepAssumption DEF Nowhere
  <2> QED BY <1>1, <2>1 DEF SweepRecord
<1>5. sweep.motion = "none" => at = sweep.at
  OBVIOUS
<1>6. \/ sweep' = [s EXCEPT !.up = FALSE]
      \/ \E t \in Reconciled(s) :
           sweep' = IF t.phase \in {"COMPLETED", "ERROR", "IDLE"} THEN t
                    ELSE [t EXCEPT !.phase = "PAUSED"]
  <2>1. IF Reconciled(s) = {} THEN sweep' = [s EXCEPT !.up = FALSE]
        ELSE \E t \in Reconciled(s) :
               sweep' = IF t.phase \in {"COMPLETED", "ERROR", "IDLE"} THEN t
                        ELSE [t EXCEPT !.phase = "PAUSED"]
    BY <1>2
  <2> HIDE DEF s
  <2> QED BY <2>1
<1> HIDE DEF orphans, at, stray
<1>7. s \in SweepRecord
  <2>1. sweep.sessions + 1 \in Nat
    BY <1>1 DEF SweepRecord
  <2> DEFINE a == [sweep EXCEPT
                    !.pc = "idle", !.busy = FALSE, !.canceled = FALSE,
                    !.todo = {}, !.frozen = FALSE, !.motionUnconfirmed = FALSE,
                    !.captureUnconfirmed = FALSE, !.reply = {}]
  <2>2. a \in SweepRecord /\ a.sessions = sweep.sessions
    BY ZenonT(40), <1>1 DEF SweepRecord
  <2>3. s = [a EXCEPT !.motion = "none", !.sessions = sweep.sessions + 1,
                      !.stray = stray, !.at = at, !.calls = orphans]
    BY <1>1 DEF SweepRecord
  <2> HIDE DEF a, s
  <2> QED BY ZenonT(40), <1>3, <1>4, <2>1, <2>2, <2>3 DEF SweepRecord, Motions
<1>8. /\ s.kind = sweep.kind /\ s.captured = sweep.captured
      /\ s.known = sweep.known /\ s.rows = sweep.rows
      /\ s.draft = sweep.draft /\ s.motion = "none"
      /\ s.motionUnconfirmed = FALSE /\ s.captureUnconfirmed = FALSE
      /\ s.stray = stray /\ s.at = at
      /\ s.calls = orphans /\ s.reply = {}
      /\ s.pc = "idle" /\ s.busy = FALSE /\ s.todo = {} /\ s.phase = sweep.phase
  BY <1>1 DEF SweepRecord
<1> HIDE DEF s
<1>9. MotionMarked(s) /\ CaptureMarked(s)
  BY <1>3, <1>8 DEF MotionMarked, CaptureMarked
<1>10. RowsTrue(s)
  BY <1>1, <1>8 DEF Settled, RowsTrue
<1>11. Accounted(s)
  BY <1>1, <1>3, <1>8 DEF Settled, Accounted, UniqueJobs
<1>12. DraftsProven(s)
  BY <1>1, <1>8 DEF Settled, DraftsProven
<1>13. Settled(s)
  BY <1>7, <1>9, <1>10, <1>11, <1>12 DEF Settled
<1>14. s.phase = "COMPLETED" => s.draft # << >> /\ s.at = Ready
  BY <1>1, <1>5, <1>8 DEF AtWork, OnItsWay
<1>15. ASSUME NEW t, t \in SweepRecord, Alike(s, t),
              t.pc = "idle", t.busy = FALSE, t.todo = {},
              t.phase = "COMPLETED" => s.phase = "COMPLETED"
       PROVE  AtWork(t)
  BY <1>8, <1>14, <1>15 DEF Alike, AtWork, AtRest, OnItsWay, ToCapture, Solved, Resting,
     MovingPc
<1>16. CASE sweep' = [s EXCEPT !.up = FALSE]
  <2>1. sweep' \in SweepRecord /\ Alike(s, sweep')
    BY <1>7, <1>16 DEF Alike, SweepRecord
  <2>2. sweep'.pc = "idle" /\ sweep'.busy = FALSE /\ sweep'.todo = {}
        /\ sweep'.phase = s.phase
    BY <1>7, <1>8, <1>16 DEF SweepRecord
  <2> QED BY <1>13, <1>15, <2>1, <2>2, SettledFrame DEF SweepInv
<1>17. ASSUME NEW t \in Reconciled(s),
              sweep' = IF t.phase \in {"COMPLETED", "ERROR", "IDLE"} THEN t
                       ELSE [t EXCEPT !.phase = "PAUSED"]
       PROVE  SweepInv'
  <2>1. t \in SweepRecord /\ Settled(t)
    BY <1>7, <1>13, ReconciledFields, ReconciledIsSettled
  <2>2. sweep' \in SweepRecord /\ Alike(t, sweep')
    BY SMTT(20), <1>17, <2>1 DEF Alike, SweepRecord, Phases
  <2>3. Settled(sweep')
    BY <2>1, <2>2, SettledFrame
  <2>4. /\ t.pc = "idle" /\ t.busy = FALSE /\ t.todo = {} /\ t.phase = s.phase
        /\ t.motion = "none" /\ t.captureUnconfirmed = FALSE
        /\ t.draft = s.draft /\ t.at = s.at
    BY <1>7, <1>8, ReconciledFields
  <2>5. /\ sweep'.pc = "idle" /\ sweep'.busy = FALSE /\ sweep'.todo = {}
        /\ sweep'.phase = "COMPLETED" => s.phase = "COMPLETED"
    BY <1>17, <2>1, <2>4 DEF SweepRecord
  <2>6. AtWork(sweep')
    BY <1>14, <2>2, <2>4, <2>5 DEF Alike, AtWork, AtRest, OnItsWay, ToCapture, Solved,
       Resting, MovingPc
  <2> QED BY <2>3, <2>6 DEF SweepInv
<1> QED BY <1>6, <1>16, <1>17

LEMMA SweepStarts == InitSweep => SweepInv
<1> SUFFICES ASSUME InitSweep PROVE SweepInv
  OBVIOUS
<1>1. PICK kind \in {"head_camera", "right_handeye"} :
      sweep = [kind |-> kind, phase |-> "IDLE", captured |-> {}, pending |-> {},
               known |-> 0, rows |-> << >>, fit |-> {}, draft |-> << >>,
               pc |-> "idle", busy |-> FALSE, canceled |-> FALSE, frozen |-> FALSE,
               todo |-> {}, motionUnconfirmed |-> FALSE, captureUnconfirmed |-> FALSE,
               motion |-> "none", goal |-> Ready, stray |-> FALSE,
               at |-> Ready, calls |-> {}, reply |-> {},
               up |-> TRUE, sessions |-> 0]
  BY DEF InitSweep
<1>2. << >> \in Seq(Row) /\ << >> \in Seq(SavedDraft)
  OBVIOUS
<1>3. Ready \in 0..PoseCount /\ Ready \in 0..PoseCount + 1
  BY SweepAssumption DEF Ready
<1>4. sweep \in SweepRecord
  BY <1>1, <1>2, <1>3 DEF SweepRecord, Phases, Motions
<1>5. MotionMarked(sweep) /\ CaptureMarked(sweep) /\ RowsTrue(sweep)
  BY <1>1 DEF MotionMarked, CaptureMarked, RowsTrue
<1>6. Accounted(sweep) /\ DraftsProven(sweep)
  BY <1>1 DEF Accounted, UniqueJobs, DraftsProven, ToSet
<1>7. AtWork(sweep)
  BY <1>1 DEF AtWork, AtRest, OnItsWay, ToCapture, Solved, Resting, MovingPc
<1> QED BY <1>4, <1>5, <1>6, <1>7 DEF SweepInv, Settled

LEMMA SweepStep == SweepInv /\ NextSweep => SweepInv'
<1> SUFFICES ASSUME SweepInv, NextSweep PROVE SweepInv'
  OBVIOUS
<1>1. ASSUME Execute PROVE SweepInv'
  BY <1>1, BeginSound, FreezeSound, RequestPoseSound, PoseAnsweredSound, StopPoseSound,
     PoseEndsSound, WaitTargetSound, CaptureAnsweredSound, SolveSound, SaveDraftSound
     DEF Execute
<1> QED BY <1>1, AcceptSweepSound, CancelSweepSound, ResetSessionSound, LateCaptureSound,
           ServePoseSound, ServeCaptureSound, RestartNodeSound DEF NextSweep

LEMMA SweepIsTrue ==
  SweepInv => RowsAreTrue /\ DraftIsProven /\ MotionIsOwned /\ CompleteIsReady
<1> SUFFICES ASSUME SweepInv
             PROVE  RowsAreTrue /\ DraftIsProven /\ MotionIsOwned /\ CompleteIsReady
  OBVIOUS
<1>1. RowsAreTrue
  BY DEF SweepInv, Settled, RowsTrue, RowsAreTrue
<1>2. DraftIsProven
  BY DEF SweepInv, Settled, DraftsProven, Proven, NoOrphans, DraftIsProven, Required,
     RequiredBy, Handeye
<1>3. MotionIsOwned
  BY DEF SweepInv, Settled, MotionMarked, MotionIsOwned
<1>4. CompleteIsReady
  BY DEF SweepInv, AtWork, OnItsWay, CompleteIsReady
<1> QED BY <1>1, <1>2, <1>3, <1>4

-----------------------------------------------------------------------------
(* The catalog, with bundles out of B.                                     *)
CatalogRecord(B) ==
    [versions : [Publications -> Maybe(B)],
     current : Publications \cup {NoPublication},
     active : Publications \cup {NoPublication},
     index : SUBSET Publications, leftover : BOOLEAN]

PublishProgram(v, b) ==
    <<FileOp("publish", v, <<b>>), FileOp("index", v, << >>), FileOp("link", v, << >>),
      FileOp("current", v, << >>), FileOp("active", v, << >>)>>
IndexProgram(v) ==
    <<FileOp("index", v, << >>), FileOp("link", v, << >>),
      FileOp("current", v, << >>), FileOp("active", v, << >>)>>
CurrentProgram(v) == <<FileOp("current", v, << >>), FileOp("active", v, << >>)>>
ActiveProgram(v) == <<FileOp("active", v, << >>)>>

Underway(c, op, v) ==
    v \in Published(c) /\
      op \in {IndexProgram(v), Activation(v), CurrentProgram(v), ActiveProgram(v)}

CatalogInv(B, c) == c \in CatalogRecord(B) /\ NothingDangles(c)

LEMMA CreateThenActivate ==
  ASSUME NEW v, NEW b
  PROVE  Create(v, b) \o Activation(v) = PublishProgram(v, b)
BY JoinedPrograms DEF Create, Activation, PublishProgram

LEMMA PublishStep ==
  ASSUME NEW B, NEW c, CatalogInv(B, c), NEW v \in Publications, NEW b \in B,
         NEW d \in CatalogStep(c, FileOp("publish", v, <<b>>))
  PROVE  CatalogInv(B, d) /\ v \in Published(d) /\ Published(c) \subseteq Published(d)
<1>1. d = [c EXCEPT !.versions[v] = <<b>>]
  BY DEF CatalogStep, FileOp
<1>2. c \in CatalogRecord(B) /\ NothingDangles(c) /\ <<b>> \in Maybe(B) /\ <<b>> # << >>
  BY DEF CatalogInv, Maybe
<1>3. d \in CatalogRecord(B)
  BY <1>1, <1>2 DEF CatalogRecord
<1>4. /\ d.versions = [c.versions EXCEPT ![v] = <<b>>] /\ d.current = c.current
      /\ d.active = c.active /\ d.index = c.index
  BY <1>1, <1>2 DEF CatalogRecord
<1>5. c.versions \in [Publications -> Maybe(B)]
  BY <1>2 DEF CatalogRecord
<1>6. v \in Published(d) /\ Published(c) \subseteq Published(d)
  BY <1>2, <1>4, <1>5 DEF Published
<1> QED BY <1>2, <1>3, <1>4, <1>6 DEF CatalogInv, NothingDangles

LEMMA PointerStep ==
  ASSUME NEW B, NEW c, CatalogInv(B, c), NEW v \in Published(c),
         NEW what \in {"index", "link", "current", "active"},
         NEW d \in CatalogStep(c, FileOp(what, v, << >>))
  PROVE  CatalogInv(B, d) /\ Published(d) = Published(c)
<1>1. c \in CatalogRecord(B) /\ NothingDangles(c) /\ v \in Publications
  BY DEF CatalogInv, Published
<1>2. /\ d \in CatalogRecord(B) /\ d.versions = c.versions
      /\ d.current \in {c.current, v} /\ d.active \in {c.active, v}
      /\ d.index \in {c.index, c.index \cup {v}}
  <2>1. CASE what = "index"
    <3>1. d = [c EXCEPT !.index = @ \cup {v}]
      BY <2>1 DEF CatalogStep, FileOp
    <3> QED BY <1>1, <3>1 DEF CatalogRecord
  <2>2. CASE what = "link"
    <3>1. d = [c EXCEPT !.leftover = TRUE]
      BY <2>2 DEF CatalogStep, FileOp
    <3> QED BY <1>1, <3>1 DEF CatalogRecord
  <2>3. CASE what = "current"
    <3>1. d = [c EXCEPT !.current = v, !.leftover = FALSE]
      BY <2>3 DEF CatalogStep, FileOp
    <3> QED BY <1>1, <3>1 DEF CatalogRecord
  <2>4. CASE what = "active"
    <3>1. d = [c EXCEPT !.active = v]
      BY <2>4 DEF CatalogStep, FileOp
    <3> QED BY <1>1, <3>1 DEF CatalogRecord
  <2> QED BY <2>1, <2>2, <2>3, <2>4
<1>3. Published(d) = Published(c)
  BY <1>2 DEF Published
<1> QED BY <1>1, <1>2, <1>3 DEF CatalogInv, NothingDangles

(* A program of the catalog: what its next step leaves.                    *)
LEMMA ProgramStep ==
  ASSUME NEW B, NEW c, CatalogInv(B, c), NEW op, NEW v \in Publications,
         (\E b \in B : op = PublishProgram(v, b)) \/ Underway(c, op, v)
  PROVE  /\ op # << >> /\ Head(op).do \in CatalogSteps
         /\ \A d \in CatalogStep(c, Head(op)) :
              CatalogInv(B, d) /\ (Tail(op) = << >> \/ Underway(d, Tail(op), v))
<1>1. ASSUME NEW b \in B, op = PublishProgram(v, b)
      PROVE  /\ op # << >> /\ Head(op).do \in CatalogSteps
             /\ \A d \in CatalogStep(c, Head(op)) :
                  CatalogInv(B, d) /\ (Tail(op) = << >> \/ Underway(d, Tail(op), v))
  <2>1. /\ Head(op) = FileOp("publish", v, <<b>>) /\ Tail(op) = IndexProgram(v)
        /\ op # << >>
    BY <1>1, TailOfProgram DEF PublishProgram, IndexProgram
  <2>2. Head(op).do \in CatalogSteps
    BY <2>1 DEF FileOp, CatalogSteps
  <2> QED BY <2>1, <2>2, PublishStep DEF Underway
<1>2. ASSUME v \in Published(c), NEW what \in {"index", "link", "current", "active"},
             Head(op) = FileOp(what, v, << >>), op # << >>,
             Tail(op) = << >> \/ Underway(c, Tail(op), v)
      PROVE  /\ op # << >> /\ Head(op).do \in CatalogSteps
             /\ \A d \in CatalogStep(c, Head(op)) :
                  CatalogInv(B, d) /\ (Tail(op) = << >> \/ Underway(d, Tail(op), v))
  <2>1. Head(op).do \in CatalogSteps
    BY <1>2 DEF FileOp, CatalogSteps
  <2> QED BY <1>2, <2>1, PointerStep DEF Underway
<1>3. CASE Underway(c, op, v)
  <2>1. v \in Published(c)
    BY <1>3 DEF Underway
  <2>2. CASE op = IndexProgram(v)
    <3>1. /\ Head(op) = FileOp("index", v, << >>) /\ Tail(op) = Activation(v)
          /\ op # << >>
      BY <2>2, TailOfProgram DEF IndexProgram, Activation
    <3> QED BY <1>2, <2>1, <3>1 DEF Underway
  <2>3. CASE op = Activation(v)
    <3>1. /\ Head(op) = FileOp("link", v, << >>) /\ Tail(op) = CurrentProgram(v)
          /\ op # << >>
      BY <2>3, TailOfProgram DEF Activation, CurrentProgram
    <3> QED BY <1>2, <2>1, <3>1 DEF Underway
  <2>4. CASE op = CurrentProgram(v)
    <3>1. /\ Head(op) = FileOp("current", v, << >>) /\ Tail(op) = ActiveProgram(v)
          /\ op # << >>
      BY <2>4, TailOfProgram DEF CurrentProgram, ActiveProgram
    <3> QED BY <1>2, <2>1, <3>1 DEF Underway
  <2>5. CASE op = ActiveProgram(v)
    <3>1. Head(op) = FileOp("active", v, << >>) /\ Tail(op) = << >> /\ op # << >>
      BY <2>5, TailOfProgram DEF ActiveProgram
    <3> QED BY <1>2, <2>1, <3>1
  <2> QED BY <1>3, <2>2, <2>3, <2>4, <2>5 DEF Underway
<1> QED BY <1>1, <1>3

LEMMA DeathStep ==
  ASSUME NEW B, NEW c, CatalogInv(B, c), NEW d \in AfterDeath(c)
  PROVE  CatalogInv(B, d)
<1>1. d = c \/ d = [c EXCEPT !.leftover = FALSE]
  BY DEF AfterDeath
<1>2. CASE d = [c EXCEPT !.leftover = FALSE]
  <2>1. /\ d \in CatalogRecord(B) /\ d.versions = c.versions
        /\ d.current = c.current /\ d.active = c.active /\ d.index = c.index
    BY <1>2 DEF CatalogRecord, CatalogInv
  <2> QED BY <2>1 DEF CatalogInv, NothingDangles, Published
<1> QED BY <1>1, <1>2

LEMMA EmptyIsSound ==
  ASSUME NEW B PROVE CatalogInv(B, EmptyCatalog)
<1>1. EmptyCatalog \in CatalogRecord(B)
  BY DEF EmptyCatalog, CatalogRecord, Maybe
<1>2. NothingDangles(EmptyCatalog)
  BY DEF EmptyCatalog, NothingDangles
<1> QED BY <1>1, <1>2 DEF CatalogInv

-----------------------------------------------------------------------------
(* A site.  What the manager's program has still to do, and what holds of  *)
(* the draft meanwhile.                                                    *)

Evidence == [hand : BOOLEAN, touched : BOOLEAN, pose : Nat, map : Nat]
Trip == [place : Places, pose : Nat, arrived : BOOLEAN]
SiteBundle ==
    [image : Nat, yaml : Nat, places : [Places -> Nat],
     results : [Places -> Maybe(Evidence)], torn : SUBSET Places]

Reached(e, pose, map) == e.hand \/ e.touched \/ (e.pose = pose /\ e.map = map)

GoodSites ==
    {b \in SiteBundle :
       /\ b.image = b.yaml
       /\ \A p \in Places : b.places[p] # NoPose /\ p \notin b.torn =>
            Reached(b.results[p][1], b.places[p], b.yaml)}

SiteRecord(op) ==
    [phase : {"build", "validate"}, slam : Nat, localized : BOOLEAN,
     image : Nat, yaml : Nat, places : [Places -> Nat],
     results : [Places -> Maybe(Evidence)], navMap : Nat, navPlaces : [Places -> Nat],
     trip : Maybe(Trip), touched : SUBSET Places, torn : SUBSET Places,
     op : {op}, poses : Nat, deaths : Nat, catalog : CatalogRecord(GoodSites)]

Forgotten(s) == \A p \in Places : s.results[p] = NoEvidence

ResetStep == Edit("reset", "", 0)
UnlinkStep == Edit("unlink", "", 0)
CopyImage(m) == Edit("image", "", m)
CopyYaml(m) == Edit("yaml", "", m)

SavingMap(s) ==
    /\ s.phase = "build"
    /\ \E m \in Nat :
         \/ s.op = <<ResetStep, UnlinkStep, CopyImage(m), CopyYaml(m)>>
         \/ s.op = <<UnlinkStep, CopyImage(m), CopyYaml(m)>> /\ Forgotten(s)
         \/ /\ s.op = <<CopyImage(m), CopyYaml(m)>> /\ Forgotten(s)
            /\ s.image = NoMap /\ s.yaml = NoMap
         \/ s.op = <<CopyYaml(m)>> /\ Forgotten(s) /\ s.image = m /\ s.yaml = NoMap

SettingPlace(s) ==
    \E p \in Places, v \in Nat :
      /\ s.op = <<Edit("places", p, v), Edit("forget", p, 0)>>
      /\ s.phase = "validate" /\ v # NoPose => p \in s.touched

Forgetting(s, p) == s.op = <<Edit("forget", p, 0)>>

Recording(s) ==
    \E p \in Places, e \in Evidence :
      s.op = Record(p, e) /\ Reached(e, s.places[p], s.yaml)

Publishing(s) ==
    \E v \in Publications :
      (\E b \in GoodSites : s.op = PublishProgram(v, b)) \/ Underway(s.catalog, s.op, v)

AtSomething(s) ==
    \/ s.op = << >> \/ SavingMap(s) \/ SettingPlace(s) \/ Recording(s) \/ Publishing(s)
    \/ \E p \in Places : Forgetting(s, p)

(* The evidence of the draft, and the map it is of.                        *)
DraftIsReached(s) ==
    /\ s.image # NoMap /\ s.yaml # NoMap => s.image = s.yaml
    /\ \A p \in Places :
         s.results[p] # NoEvidence /\ s.places[p] # NoPose /\ p \notin s.torn =>
           Reached(s.results[p][1], s.places[p], s.yaml) \/ Forgetting(s, p)

(* What the navigator drives by.                                           *)
NavigatorIsCurrent(s) ==
    /\ s.phase = "validate" =>
         /\ s.navMap = s.yaml
         /\ \A p \in Places \ s.touched :
              s.places[p] # NoPose => s.navPlaces[p] = s.places[p]
    /\ s.trip # << >> =>
         s.phase = "validate" /\ s.trip[1].pose = s.navPlaces[s.trip[1].place]

SiteInv ==
    /\ site \in SiteRecord(site.op) /\ NothingDangles(site.catalog)
    /\ AtSomething(site) /\ DraftIsReached(site) /\ NavigatorIsCurrent(site)

LEMMA BeginProgram ==
  ASSUME SiteInv, site.op = << >>, NEW prog, NEW touched \in SUBSET Places,
         site.touched \subseteq touched, NEW poses \in Nat,
         site' = [site EXCEPT !.op = prog, !.touched = touched, !.poses = poses],
         AtSomething(site')
  PROVE  SiteInv'
<1>1. site \in SiteRecord(<< >>)
  BY DEF SiteInv
<1>2. /\ site'.phase = site.phase /\ site'.image = site.image /\ site'.yaml = site.yaml
      /\ site'.places = site.places /\ site'.results = site.results
      /\ site'.navMap = site.navMap /\ site'.navPlaces = site.navPlaces
      /\ site'.trip = site.trip /\ site'.touched = touched /\ site'.torn = site.torn
      /\ site'.op = prog /\ site'.catalog = site.catalog
  BY <1>1 DEF SiteRecord
<1>3. site' \in SiteRecord(site'.op)
  BY <1>1 DEF SiteRecord
<1>4. DraftIsReached(site')
  <2>1. \A p \in Places : ~Forgetting(site, p)
    BY TailOfProgram DEF Forgetting
  <2> QED BY <1>2, <2>1 DEF SiteInv, DraftIsReached
<1>5. NavigatorIsCurrent(site')
  BY <1>2 DEF SiteInv, NavigatorIsCurrent
<1> QED BY <1>2, <1>3, <1>4, <1>5 DEF SiteInv

LEMMA BeginOnly ==
  ASSUME SiteInv, site.op = << >>, NEW prog, site' = Begun(prog), AtSomething(site')
  PROVE  SiteInv'
<1>1. site \in SiteRecord(<< >>)
  BY DEF SiteInv
<1>2. site.touched \in SUBSET Places /\ site.poses \in Nat
  BY <1>1 DEF SiteRecord
<1>3. site' = [site EXCEPT !.op = prog, !.touched = site.touched, !.poses = site.poses]
  BY <1>1 DEF Begun, SiteRecord
<1> QED BY <1>2, <1>3, BeginProgram

LEMMA SaveMapSound ==
  ASSUME SiteInv, SaveMap
  PROVE  SiteInv'
<1>1. site \in SiteRecord(<< >>) /\ site.op = << >> /\ site.phase = "build"
  BY DEF SiteInv, SaveMap
<1>2. SaveMapProgram = <<ResetStep, UnlinkStep, CopyImage(site.slam), CopyYaml(site.slam)>>
  BY JoinedPairs DEF SaveMapProgram, CopyMap, ResetStep, UnlinkStep, CopyImage, CopyYaml
<1>3. site' = Begun(SaveMapProgram)
  BY DEF SaveMap
<1>4. site'.op = SaveMapProgram /\ site'.phase = "build" /\ site.slam \in Nat
  BY <1>1, <1>3 DEF Begun, SiteRecord
<1>5. AtSomething(site')
  BY <1>2, <1>4 DEF AtSomething, SavingMap
<1> QED BY <1>1, <1>3, <1>5, BeginOnly

LEMMA SetPlaceSound ==
  ASSUME SiteInv, SetPlace
  PROVE  SiteInv'
<1>1. site \in SiteRecord(<< >>) /\ site.op = << >>
  BY DEF SiteInv, SetPlace
<1>2. PICK p \in Places :
         site' = [site EXCEPT
           !.op = SetPlaceProgram(p, site.poses + 1), !.poses = @ + 1,
           !.touched = IF site.phase = "validate" THEN @ \cup {p} ELSE @]
  BY DEF SetPlace
<1> DEFINE touched == IF site.phase = "validate" THEN site.touched \cup {p}
                      ELSE site.touched
           poses == site.poses + 1
           prog == SetPlaceProgram(p, poses)
<1>3. /\ touched \in SUBSET Places /\ site.touched \subseteq touched
      /\ poses \in Nat /\ poses # NoPose
  BY <1>1 DEF SiteRecord, NoPose
<1>4. site.phase = "validate" => p \in touched
  OBVIOUS
<1>5. site' = [site EXCEPT !.op = prog, !.touched = touched, !.poses = poses]
  BY <1>1, <1>2 DEF SiteRecord
<1> HIDE DEF touched, poses
<1>6. site'.op = prog /\ site'.phase = site.phase /\ site'.touched = touched
  BY <1>1, <1>5 DEF SiteRecord
<1>7. AtSomething(site')
  BY <1>3, <1>4, <1>6 DEF AtSomething, SettingPlace, SetPlaceProgram
<1> HIDE DEF prog
<1> QED BY <1>1, <1>3, <1>5, <1>7, BeginProgram

LEMMA RemovePlaceSound ==
  ASSUME SiteInv, RemovePlace
  PROVE  SiteInv'
<1>1. site \in SiteRecord(<< >>) /\ site.op = << >>
  BY DEF SiteInv, RemovePlace
<1>2. PICK p \in Places : site' = Begun(RemovePlaceProgram(p))
  BY DEF RemovePlace
<1>3. site'.op = RemovePlaceProgram(p)
  BY <1>1, <1>2 DEF Begun, SiteRecord
<1>4. AtSomething(site')
  BY <1>3 DEF AtSomething, SettingPlace, RemovePlaceProgram, NoPose
<1> QED BY <1>1, <1>2, <1>4, BeginOnly

LEMMA RecordByHandSound ==
  ASSUME SiteInv, RecordByHand
  PROVE  SiteInv'
<1>1. site \in SiteRecord(<< >>) /\ site.op = << >>
  BY DEF SiteInv, RecordByHand
<1> DEFINE e == [hand |-> TRUE, touched |-> FALSE, pose |-> NoPose, map |-> NoMap]
<1>2. PICK p \in Places : site' = Begun(Record(p, e))
  BY DEF RecordByHand
<1>3. site'.op = Record(p, e)
  BY <1>1, <1>2 DEF Begun, SiteRecord
<1>4. e \in Evidence /\ Reached(e, site'.places[p], site'.yaml)
  BY DEF Evidence, Reached, NoPose, NoMap
<1>5. AtSomething(site')
  BY <1>3, <1>4 DEF AtSomething, Recording
<1> HIDE DEF e
<1> QED BY <1>1, <1>2, <1>5, BeginOnly

(* What is published is the draft, when nobody is at work on it.           *)
LEMMA BundleIsGood ==
  ASSUME SiteInv, site.op = << >>, SiteReady
  PROVE  Bundle \in GoodSites
<1>1. site \in SiteRecord(<< >>)
  BY DEF SiteInv
<1>2. Bundle \in SiteBundle
  BY <1>1 DEF Bundle, SiteBundle, SiteRecord
<1>3. \A p \in Places : ~Forgetting(site, p)
  BY TailOfProgram DEF Forgetting
<1>4. site.image = site.yaml
  BY DEF SiteInv, DraftIsReached, SiteReady
<1>5. \A p \in Places : site.places[p] # NoPose /\ p \notin site.torn =>
            Reached(site.results[p][1], site.places[p], site.yaml)
  BY <1>3 DEF SiteInv, DraftIsReached, SiteReady, Known
<1> QED BY <1>2, <1>4, <1>5 DEF GoodSites, Bundle

LEMMA FinalizeAndActivateSound ==
  ASSUME SiteInv, FinalizeAndActivate
  PROVE  SiteInv'
<1>1. site \in SiteRecord(<< >>) /\ site.op = << >> /\ SiteReady
  BY DEF SiteInv, FinalizeAndActivate
<1>2. PICK v \in Unpublished(site.catalog) :
        site' = Begun(Create(v, Bundle) \o Activation(v))
  BY DEF FinalizeAndActivate
<1>3. v \in Publications
  BY DEF Unpublished
<1>4. site'.op = PublishProgram(v, Bundle)
  BY <1>1, <1>2, CreateThenActivate DEF Begun, SiteRecord
<1>5. AtSomething(site')
  BY <1>1, <1>3, <1>4, BundleIsGood DEF AtSomething, Publishing
<1> QED BY <1>1, <1>2, <1>5, BeginOnly

LEMMA ActivateVersionSound ==
  ASSUME SiteInv, ActivateVersion
  PROVE  SiteInv'
<1>1. site \in SiteRecord(<< >>) /\ site.op = << >>
  BY DEF SiteInv, ActivateVersion
<1>2. PICK v \in Published(site.catalog) : site' = Begun(Activation(v))
  BY DEF ActivateVersion
<1>3. site'.op = Activation(v) /\ site'.catalog = site.catalog
  BY <1>1, <1>2 DEF Begun, SiteRecord
<1>4. v \in Publications
  BY DEF Published
<1>5. AtSomething(site')
  BY <1>3, <1>4 DEF AtSomething, Publishing, Underway
<1> QED BY <1>1, <1>2, <1>5, BeginOnly

LEMMA RebuildIndexSound ==
  ASSUME SiteInv, RebuildIndex
  PROVE  SiteInv'
<1>1. site \in SiteRecord(<< >>) /\ site.op = << >>
  BY DEF SiteInv, RebuildIndex
<1>2. site' = [site EXCEPT !.catalog = RebuiltIndex(@)]
  BY DEF RebuildIndex
<1>3. site.catalog \in CatalogRecord(GoodSites) /\ NothingDangles(site.catalog)
  BY <1>1 DEF SiteRecord, SiteInv
<1> DEFINE d == RebuiltIndex(site.catalog)
<1>4. /\ d \in CatalogRecord(GoodSites) /\ d.versions = site.catalog.versions
      /\ d.current = site.catalog.current /\ d.active = site.catalog.active
      /\ d.index = Published(site.catalog)
  BY <1>3 DEF RebuiltIndex, CatalogRecord, Published
<1>5. NothingDangles(d)
  BY <1>3, <1>4 DEF NothingDangles, Published
<1>6. /\ site' \in SiteRecord(<< >>) /\ site'.op = << >> /\ site'.catalog = d
      /\ site'.phase = site.phase /\ site'.image = site.image /\ site'.yaml = site.yaml
      /\ site'.places = site.places /\ site'.results = site.results
      /\ site'.navMap = site.navMap /\ site'.navPlaces = site.navPlaces
      /\ site'.trip = site.trip /\ site'.touched = site.touched /\ site'.torn = site.torn
  BY <1>1, <1>2, <1>4 DEF SiteRecord
<1> HIDE DEF d
<1>7. AtSomething(site')
  BY <1>6 DEF AtSomething
<1>8. DraftIsReached(site')
  <2>1. \A p \in Places : ~Forgetting(site, p)
    BY <1>1, TailOfProgram DEF Forgetting
  <2> QED BY <2>1, <1>6 DEF SiteInv, DraftIsReached
<1>9. NavigatorIsCurrent(site')
  BY <1>6 DEF SiteInv, NavigatorIsCurrent
<1> QED BY <1>5, <1>6, <1>7, <1>8, <1>9 DEF SiteInv

(* A step of the manager that edits the draft has one outcome.             *)
LEMMA OneOutcome ==
  ASSUME ManagerStep, NEW t, Edited(Head(site.op)) = {t}
  PROVE  site' = [t EXCEPT !.op = Tail(@)]
BY DEF ManagerStep

(* The draft's files after such a step; the rest of the site as it was.    *)
Drafted(image, yaml, places, results, torn) ==
    [site EXCEPT !.image = image, !.yaml = yaml, !.places = places,
                 !.results = results, !.torn = torn]

LEMMA EditKeepsTheRest ==
  ASSUME SiteInv, ManagerStep,
         NEW image \in Nat, NEW yaml \in Nat, NEW places \in [Places -> Nat],
         NEW results \in [Places -> Maybe(Evidence)], NEW torn \in SUBSET Places,
         Edited(Head(site.op)) = {Drafted(image, yaml, places, results, torn)}
  PROVE  /\ site' \in SiteRecord(site'.op) /\ NothingDangles(site'.catalog)
         /\ site'.image = image /\ site'.yaml = yaml /\ site'.places = places
         /\ site'.results = results /\ site'.torn = torn
         /\ site'.op = Tail(site.op) /\ site'.phase = site.phase
         /\ site'.navMap = site.navMap /\ site'.navPlaces = site.navPlaces
         /\ site'.trip = site.trip /\ site'.touched = site.touched
<1>1. site \in SiteRecord(site.op) /\ NothingDangles(site.catalog)
  BY DEF SiteInv
<1> DEFINE t == Drafted(image, yaml, places, results, torn)
<1>2. site' = [t EXCEPT !.op = Tail(@)]
  BY OneOutcome
<1>3. /\ t \in SiteRecord(site.op)
      /\ t.image = image /\ t.yaml = yaml /\ t.places = places
      /\ t.results = results /\ t.torn = torn
      /\ t.op = site.op /\ t.phase = site.phase
      /\ t.navMap = site.navMap /\ t.navPlaces = site.navPlaces
      /\ t.trip = site.trip /\ t.touched = site.touched /\ t.catalog = site.catalog
  BY <1>1 DEF SiteRecord, Drafted
<1> HIDE DEF t
<1>4. /\ site' \in SiteRecord(Tail(site.op))
      /\ site'.image = t.image /\ site'.yaml = t.yaml /\ site'.places = t.places
      /\ site'.results = t.results /\ site'.torn = t.torn
      /\ site'.op = Tail(t.op) /\ site'.phase = t.phase
      /\ site'.navMap = t.navMap /\ site'.navPlaces = t.navPlaces
      /\ site'.trip = t.trip /\ site'.touched = t.touched /\ site'.catalog = t.catalog
  BY <1>2, <1>3 DEF SiteRecord
<1> QED BY <1>1, <1>3, <1>4

LEMMA SavingMapStep ==
  ASSUME SiteInv, ManagerStep, SavingMap(site)
  PROVE  SiteInv'
<1>1. site \in SiteRecord(site.op) /\ site.phase = "build"
  BY DEF SiteInv, SavingMap
<1>2. /\ site.image \in Nat /\ site.yaml \in Nat /\ site.places \in [Places -> Nat]
      /\ site.results \in [Places -> Maybe(Evidence)] /\ site.torn \in SUBSET Places
      /\ [p \in Places |-> NoEvidence] \in [Places -> Maybe(Evidence)]
      /\ NoMap \in Nat
  BY <1>1 DEF SiteRecord, Maybe, NoEvidence, NoMap
<1>3. PICK m \in Nat :
         \/ site.op = <<ResetStep, UnlinkStep, CopyImage(m), CopyYaml(m)>>
         \/ site.op = <<UnlinkStep, CopyImage(m), CopyYaml(m)>> /\ Forgotten(site)
         \/ /\ site.op = <<CopyImage(m), CopyYaml(m)>> /\ Forgotten(site)
            /\ site.image = NoMap /\ site.yaml = NoMap
         \/ /\ site.op = <<CopyYaml(m)>> /\ Forgotten(site)
            /\ site.image = m /\ site.yaml = NoMap
  BY DEF SavingMap
<1>4. ASSUME site'.phase = "build", site'.trip = site.trip, SavingMap(site') \/ site'.op = << >>,
             site' \in SiteRecord(site'.op), NothingDangles(site'.catalog), Forgotten(site'),
             site'.image # NoMap /\ site'.yaml # NoMap => site'.image = site'.yaml
      PROVE  SiteInv'
  <2>1. DraftIsReached(site')
    BY <1>4 DEF DraftIsReached, Forgotten
  <2>2. NavigatorIsCurrent(site')
    BY <1>1, <1>4 DEF NavigatorIsCurrent, SiteInv
  <2>3. AtSomething(site')
    BY <1>4 DEF AtSomething
  <2> QED BY <1>4, <2>1, <2>2, <2>3 DEF SiteInv
<1>5. CASE site.op = <<ResetStep, UnlinkStep, CopyImage(m), CopyYaml(m)>>
  <2>1. Head(site.op) = ResetStep /\ Tail(site.op) = <<UnlinkStep, CopyImage(m), CopyYaml(m)>>
    BY <1>5, TailOfProgram
  <2>2. Edited(ResetStep) = {[site EXCEPT !.results = [p \in Places |-> NoEvidence]]}
    BY DEF Edited, ResetStep, Edit, CatalogSteps
  <2>3. Edited(Head(site.op)) =
          
            {Drafted(site.image, site.yaml, site.places, [p \in Places |-> NoEvidence], site.torn)}
    BY <1>1, <2>1, <2>2 DEF SiteRecord, Drafted
  <2>4. /\ site' \in SiteRecord(site'.op) /\ NothingDangles(site'.catalog)
        /\ site'.image = site.image /\ site'.yaml = site.yaml
        /\ site'.results = [p \in Places |-> NoEvidence]
        /\ site'.op = Tail(site.op) /\ site'.phase = site.phase /\ site'.trip = site.trip
    BY <1>2, <2>3, EditKeepsTheRest
  <2>5. Forgotten(site')
    BY <2>4 DEF Forgotten
  <2>6. SavingMap(site')
    BY <1>1, <2>1, <2>4, <2>5 DEF SavingMap
  <2>7. site'.image # NoMap /\ site'.yaml # NoMap => site'.image = site'.yaml
    BY <2>4 DEF SiteInv, DraftIsReached
  <2> QED BY <1>1, <1>4, <2>4, <2>5, <2>6, <2>7
<1>6. CASE site.op = <<UnlinkStep, CopyImage(m), CopyYaml(m)>> /\ Forgotten(site)
  <2>1. Head(site.op) = UnlinkStep /\ Tail(site.op) = <<CopyImage(m), CopyYaml(m)>>
    BY <1>6, TailOfProgram
  <2>2. Edited(UnlinkStep) = {[site EXCEPT !.image = NoMap, !.yaml = NoMap]}
    BY DEF Edited, UnlinkStep, Edit, CatalogSteps
  <2>3. Edited(Head(site.op)) =
          
            {Drafted(NoMap, NoMap, site.places, site.results, site.torn)}
    BY <1>1, <2>1, <2>2 DEF SiteRecord, Drafted
  <2>4. /\ site' \in SiteRecord(site'.op) /\ NothingDangles(site'.catalog)
        /\ site'.image = NoMap /\ site'.yaml = NoMap /\ site'.results = site.results
        /\ site'.op = Tail(site.op) /\ site'.phase = site.phase /\ site'.trip = site.trip
    BY <1>2, <2>3, EditKeepsTheRest
  <2>5. Forgotten(site')
    BY <1>6, <2>4 DEF Forgotten
  <2>6. SavingMap(site')
    BY <1>1, <2>1, <2>4, <2>5 DEF SavingMap
  <2> QED BY <1>1, <1>4, <2>4, <2>5, <2>6
<1>7. CASE /\ site.op = <<CopyImage(m), CopyYaml(m)>> /\ Forgotten(site)
           /\ site.image = NoMap /\ site.yaml = NoMap
  <2>1. Head(site.op) = CopyImage(m) /\ Tail(site.op) = <<CopyYaml(m)>>
    BY <1>7, TailOfProgram
  <2>2. Edited(CopyImage(m)) = {[site EXCEPT !.image = m]}
    BY DEF Edited, CopyImage, Edit, CatalogSteps
  <2>3. Edited(Head(site.op)) =
          
            {Drafted(m, site.yaml, site.places, site.results, site.torn)}
    BY <1>1, <2>1, <2>2 DEF SiteRecord, Drafted
  <2>4. /\ site' \in SiteRecord(site'.op) /\ NothingDangles(site'.catalog)
        /\ site'.image = m /\ site'.yaml = site.yaml /\ site'.results = site.results
        /\ site'.op = Tail(site.op) /\ site'.phase = site.phase /\ site'.trip = site.trip
    BY <1>2, <2>3, EditKeepsTheRest
  <2>5. Forgotten(site')
    BY <1>7, <2>4 DEF Forgotten
  <2>6. SavingMap(site')
    BY <1>1, <1>7, <2>1, <2>4, <2>5 DEF SavingMap
  <2> QED BY <1>1, <1>4, <1>7, <2>4, <2>5, <2>6
<1>8. CASE /\ site.op = <<CopyYaml(m)>> /\ Forgotten(site)
           /\ site.image = m /\ site.yaml = NoMap
  <2>1. Head(site.op) = CopyYaml(m) /\ Tail(site.op) = << >>
    BY <1>8, TailOfProgram
  <2>2. Edited(CopyYaml(m)) = {[site EXCEPT !.yaml = m]}
    BY DEF Edited, CopyYaml, Edit, CatalogSteps
  <2>3. Edited(Head(site.op)) =
          
            {Drafted(site.image, m, site.places, site.results, site.torn)}
    BY <1>1, <2>1, <2>2 DEF SiteRecord, Drafted
  <2>4. /\ site' \in SiteRecord(site'.op) /\ NothingDangles(site'.catalog)
        /\ site'.image = site.image /\ site'.yaml = m /\ site'.results = site.results
        /\ site'.op = Tail(site.op) /\ site'.phase = site.phase /\ site'.trip = site.trip
    BY <1>2, <2>3, EditKeepsTheRest
  <2>5. Forgotten(site')
    BY <1>8, <2>4 DEF Forgotten
  <2> QED BY <1>1, <1>4, <1>8, <2>1, <2>4, <2>5
<1> QED BY <1>3, <1>5, <1>6, <1>7, <1>8

LEMMA SettingPlaceStep ==
  ASSUME SiteInv, ManagerStep, SettingPlace(site)
  PROVE  SiteInv'
<1>1. site \in SiteRecord(site.op)
  BY DEF SiteInv
<1>2. /\ site.image \in Nat /\ site.yaml \in Nat /\ site.places \in [Places -> Nat]
      /\ site.results \in [Places -> Maybe(Evidence)] /\ site.torn \in SUBSET Places
  BY <1>1 DEF SiteRecord
<1>3. PICK p \in Places, v \in Nat :
        /\ site.op = <<Edit("places", p, v), Edit("forget", p, 0)>>
        /\ site.phase = "validate" /\ v # NoPose => p \in site.touched
  BY DEF SettingPlace
<1> DEFINE places == [site.places EXCEPT ![p] = v]
<1>4. /\ places \in [Places -> Nat] /\ places[p] = v
      /\ \A q \in Places \ {p} : places[q] = site.places[q]
  BY <1>2
<1>5. Head(site.op) = Edit("places", p, v) /\ Tail(site.op) = <<Edit("forget", p, 0)>>
  BY <1>3, TailOfProgram
<1>6. Edited(Edit("places", p, v)) = {[site EXCEPT !.places[p] = v]}
  BY DEF Edited, Edit, CatalogSteps
<1>7. Edited(Head(site.op)) =
        {Drafted(site.image, site.yaml, places, site.results, site.torn)}
  BY <1>1, <1>5, <1>6 DEF SiteRecord, Drafted
<1> HIDE DEF places
<1>8. /\ site' \in SiteRecord(site'.op) /\ NothingDangles(site'.catalog)
      /\ site'.image = site.image /\ site'.yaml = site.yaml /\ site'.places = places
      /\ site'.results = site.results /\ site'.torn = site.torn
      /\ site'.op = Tail(site.op) /\ site'.phase = site.phase
      /\ site'.navMap = site.navMap /\ site'.navPlaces = site.navPlaces
      /\ site'.trip = site.trip /\ site'.touched = site.touched
  <2>1. places \in [Places -> Nat]
    BY <1>4
  <2> QED BY <1>2, <1>7, <2>1, EditKeepsTheRest
<1>9. Forgetting(site', p)
  BY <1>5, <1>8 DEF Forgetting
<1>10. AtSomething(site')
  BY <1>9 DEF AtSomething
<1>11. \A q \in Places : ~Forgetting(site, q)
  BY <1>3, TailOfProgram DEF Forgetting
<1>12. DraftIsReached(site')
  BY <1>4, <1>8, <1>9, <1>11 DEF SiteInv, DraftIsReached
<1>13. NavigatorIsCurrent(site')
  BY <1>3, <1>4, <1>8 DEF SiteInv, NavigatorIsCurrent
<1> QED BY <1>8, <1>10, <1>12, <1>13 DEF SiteInv

LEMMA ForgettingStep ==
  ASSUME SiteInv, ManagerStep, NEW p \in Places, Forgetting(site, p)
  PROVE  SiteInv'
<1>1. site \in SiteRecord(site.op)
  BY DEF SiteInv
<1>2. /\ site.image \in Nat /\ site.yaml \in Nat /\ site.places \in [Places -> Nat]
      /\ site.results \in [Places -> Maybe(Evidence)] /\ site.torn \in SUBSET Places
  BY <1>1 DEF SiteRecord
<1> DEFINE results == [site.results EXCEPT ![p] = NoEvidence]
<1>3. /\ results \in [Places -> Maybe(Evidence)] /\ results[p] = NoEvidence
      /\ \A q \in Places \ {p} : results[q] = site.results[q]
  BY <1>2 DEF Maybe, NoEvidence
<1>4. Head(site.op) = Edit("forget", p, 0) /\ Tail(site.op) = << >>
  BY TailOfProgram DEF Forgetting
<1>5. Edited(Edit("forget", p, 0)) = {[site EXCEPT !.results[p] = NoEvidence]}
  BY DEF Edited, Edit, CatalogSteps
<1>6. Edited(Head(site.op)) =
        {Drafted(site.image, site.yaml, site.places, results, site.torn)}
  BY <1>1, <1>4, <1>5 DEF SiteRecord, Drafted
<1> HIDE DEF results
<1>7. /\ site' \in SiteRecord(site'.op) /\ NothingDangles(site'.catalog)
      /\ site'.image = site.image /\ site'.yaml = site.yaml /\ site'.places = site.places
      /\ site'.results = results /\ site'.torn = site.torn
      /\ site'.op = Tail(site.op) /\ site'.phase = site.phase
      /\ site'.navMap = site.navMap /\ site'.navPlaces = site.navPlaces
      /\ site'.trip = site.trip /\ site'.touched = site.touched
  BY <1>2, <1>3, <1>6, EditKeepsTheRest
<1>8. AtSomething(site')
  BY <1>4, <1>7 DEF AtSomething
<1>9. \A q \in Places \ {p} : ~Forgetting(site, q)
  <2>1. \A q \in Places : Forgetting(site, q) => Edit("forget", q, 0) = Edit("forget", p, 0)
    BY <1>4, TailOfProgram DEF Forgetting
  <2>2. \A q : Edit("forget", q, 0).files[1] = q
    BY DEF Edit
  <2> QED BY <2>1, <2>2
<1>10. DraftIsReached(site')
  BY <1>3, <1>7, <1>9 DEF SiteInv, DraftIsReached
<1>11. NavigatorIsCurrent(site')
  BY <1>7 DEF SiteInv, NavigatorIsCurrent
<1> QED BY <1>7, <1>8, <1>10, <1>11 DEF SiteInv

LEMMA RecordingStep ==
  ASSUME SiteInv, ManagerStep, Recording(site)
  PROVE  SiteInv'
<1>1. site \in SiteRecord(site.op)
  BY DEF SiteInv
<1>2. /\ site.image \in Nat /\ site.yaml \in Nat /\ site.places \in [Places -> Nat]
      /\ site.results \in [Places -> Maybe(Evidence)] /\ site.torn \in SUBSET Places
  BY <1>1 DEF SiteRecord
<1>3. PICK p \in Places, e \in Evidence :
        site.op = Record(p, e) /\ Reached(e, site.places[p], site.yaml)
  BY DEF Recording
<1> DEFINE results == [site.results EXCEPT ![p] = <<e>>]
           torn == site.torn \ {p}
           step == [do |-> "record", v |-> 0, files |-> <<p, e>>]
<1>4. /\ results \in [Places -> Maybe(Evidence)] /\ results[p][1] = e
      /\ \A q \in Places \ {p} : results[q] = site.results[q]
  BY <1>2 DEF Maybe
<1>5. Head(site.op) = step /\ Tail(site.op) = << >>
  BY <1>3, TailOfProgram DEF Record
<1>6. step.do = "record" /\ step.files[1] = p /\ step.files[2] = e
  OBVIOUS
<1> HIDE DEF step
<1>7. Edited(step) = {[site EXCEPT !.results[p] = <<e>>, !.torn = @ \ {p}]}
  BY <1>6 DEF Edited, CatalogSteps
<1>8. Edited(Head(site.op)) =
        {Drafted(site.image, site.yaml, site.places, results, torn)}
  BY <1>1, <1>5, <1>7 DEF SiteRecord, Drafted
<1>9. torn \in SUBSET Places /\ \A q \in Places \ {p} : q \in torn <=> q \in site.torn
  BY <1>2
<1> HIDE DEF results, torn
<1>10. /\ site' \in SiteRecord(site'.op) /\ NothingDangles(site'.catalog)
      /\ site'.image = site.image /\ site'.yaml = site.yaml /\ site'.places = site.places
      /\ site'.results = results /\ site'.torn = torn
      /\ site'.op = Tail(site.op) /\ site'.phase = site.phase
      /\ site'.navMap = site.navMap /\ site'.navPlaces = site.navPlaces
      /\ site'.trip = site.trip /\ site'.touched = site.touched
  <2>1. results \in [Places -> Maybe(Evidence)]
    BY <1>4
  <2>2. torn \in SUBSET Places
    BY <1>9
  <2> QED BY <1>2, <1>8, <2>1, <2>2, EditKeepsTheRest
<1>11. AtSomething(site')
  BY <1>5, <1>10 DEF AtSomething
<1>12. \A q \in Places : ~Forgetting(site, q)
  <2>1. \A q : Edit("forget", q, 0).do = "forget"
    BY DEF Edit
  <2> QED BY <1>5, <1>6, <2>1, TailOfProgram DEF Forgetting
<1>13. DraftIsReached(site')
  BY <1>3, <1>4, <1>9, <1>10, <1>12 DEF SiteInv, DraftIsReached
<1>14. NavigatorIsCurrent(site')
  BY <1>10 DEF SiteInv, NavigatorIsCurrent
<1> QED BY <1>10, <1>11, <1>13, <1>14 DEF SiteInv

LEMMA PublishingStep ==
  ASSUME SiteInv, ManagerStep, Publishing(site)
  PROVE  SiteInv'
<1>1. /\ site \in SiteRecord(site.op) /\ CatalogInv(GoodSites, site.catalog)
      /\ DraftIsReached(site) /\ NavigatorIsCurrent(site)
  BY DEF SiteInv, SiteRecord, CatalogInv
<1>2. PICK v \in Publications :
        (\E b \in GoodSites : site.op = PublishProgram(v, b))
          \/ Underway(site.catalog, site.op, v)
  BY DEF Publishing
<1>3. /\ site.op # << >> /\ Head(site.op).do \in CatalogSteps
      /\ \A d \in CatalogStep(site.catalog, Head(site.op)) :
           CatalogInv(GoodSites, d)
             /\ (Tail(site.op) = << >> \/ Underway(d, Tail(site.op), v))
  BY <1>1, <1>2, ProgramStep
<1> DEFINE outcomes == CatalogStep(site.catalog, Head(site.op))
<1>4. Edited(Head(site.op)) = {[site EXCEPT !.catalog = c] : c \in outcomes}
  BY <1>3 DEF Edited, CatalogSteps
<1>5. \A p \in Places : ~Forgetting(site, p)
  <2>1. \A q : Edit("forget", q, 0).do = "forget"
    BY DEF Edit
  <2>2. \A q : Head(<<Edit("forget", q, 0)>>).do = "forget"
    BY <2>1, TailOfProgram
  <2> QED BY <1>3, <2>2 DEF Forgetting, CatalogSteps
<1>6. ASSUME NEW d, CatalogInv(GoodSites, d), NEW op,
             op = << >> \/ Underway(d, op, v),
             site' = [[site EXCEPT !.catalog = d] EXCEPT !.op = op]
      PROVE  SiteInv'
  <2>1. d \in CatalogRecord(GoodSites) /\ NothingDangles(d)
    BY <1>6 DEF CatalogInv
  <2>2. /\ site' \in SiteRecord(op) /\ site'.op = op /\ site'.catalog = d
        /\ site'.phase = site.phase /\ site'.image = site.image /\ site'.yaml = site.yaml
        /\ site'.places = site.places /\ site'.results = site.results
        /\ site'.navMap = site.navMap /\ site'.navPlaces = site.navPlaces
        /\ site'.trip = site.trip /\ site'.touched = site.touched /\ site'.torn = site.torn
    BY <1>1, <1>6, <2>1 DEF SiteRecord
  <2>3. AtSomething(site')
    BY <1>2, <1>6, <2>2 DEF AtSomething, Publishing
  <2>4. DraftIsReached(site')
    BY <1>1, <1>5, <2>2 DEF DraftIsReached
  <2>5. NavigatorIsCurrent(site')
    BY <1>1, <2>2 DEF NavigatorIsCurrent
  <2> QED BY <2>1, <2>2, <2>3, <2>4, <2>5 DEF SiteInv
<1>7. CASE outcomes = {}
  <2>1. site' = [site EXCEPT !.op = << >>]
    BY <1>4, <1>7 DEF ManagerStep
  <2>2. site' = [[site EXCEPT !.catalog = site.catalog] EXCEPT !.op = << >>]
    BY <1>1, <2>1 DEF SiteRecord
  <2> QED BY <1>1, <1>6, <2>2
<1>8. CASE outcomes # {}
  <2>1. PICK d \in outcomes : site' = [[site EXCEPT !.catalog = d] EXCEPT !.op = Tail(@)]
    <3> HIDE DEF outcomes
    <3>1. Edited(Head(site.op)) # {}
      BY <1>4, <1>8
    <3>2. PICK t \in Edited(Head(site.op)) : site' = [t EXCEPT !.op = Tail(@)]
      BY <3>1 DEF ManagerStep
    <3> QED BY <1>4, <3>2
  <2>2. [site EXCEPT !.catalog = d].op = site.op
    BY <1>1 DEF SiteRecord
  <2>3. site' = [[site EXCEPT !.catalog = d] EXCEPT !.op = Tail(site.op)]
    BY <2>1, <2>2
  <2> QED BY <1>3, <1>6, <2>3
<1> QED BY <1>7, <1>8

LEMMA ManagerStepSound ==
  ASSUME SiteInv, ManagerStep
  PROVE  SiteInv'
BY SavingMapStep, SettingPlaceStep, ForgettingStep, RecordingStep, PublishingStep
   DEF SiteInv, AtSomething, ManagerStep

(* A death leaves the draft as it was: what it leaves of a place that was  *)
(* set or removed and whose evidence still stands is torn.                 *)
LEMMA ManagerDiesSound ==
  ASSUME SiteInv, ManagerDies
  PROVE  SiteInv'
<1>1. /\ site \in SiteRecord(site.op) /\ CatalogInv(GoodSites, site.catalog)
      /\ DraftIsReached(site) /\ NavigatorIsCurrent(site)
  BY DEF SiteInv, SiteRecord, CatalogInv
<1> DEFINE tears == Head(site.op).do = "forget"
                      /\ site.results[Head(site.op).files[1]] # NoEvidence
           torn == IF tears THEN site.torn \cup {Head(site.op).files[1]} ELSE site.torn
<1>2. PICK c \in AfterDeath(site.catalog) :
        site' = [site EXCEPT
           !.op = << >>, !.deaths = @ + 1, !.catalog = c,
           !.torn = IF tears THEN @ \cup {Head(site.op).files[1]} ELSE @]
  BY DEF ManagerDies
<1>3. CatalogInv(GoodSites, c)
  BY <1>1, DeathStep
<1>4. \A p : Edit("forget", p, 0).do = "forget" /\ Edit("forget", p, 0).files[1] = p
  BY DEF Edit
<1>5. ASSUME NEW p, Forgetting(site, p)
      PROVE  Head(site.op).do = "forget" /\ Head(site.op).files[1] = p
  BY <1>4, <1>5, TailOfProgram DEF Forgetting
<1>6. tears => \E p \in Places : Forgetting(site, p)
  <2> SUFFICES ASSUME Head(site.op).do = "forget"
               PROVE  \E p \in Places : Forgetting(site, p)
    OBVIOUS
  <2>1. \A p, v : /\ Edit("places", p, v).do = "places"
        /\ CopyImage(v).do = "image" /\ CopyYaml(v).do = "yaml"
        /\ ResetStep.do = "reset" /\ UnlinkStep.do = "unlink"
    BY DEF Edit, CopyImage, CopyYaml, ResetStep, UnlinkStep
  <2>2. ~SavingMap(site)
    BY <2>1, TailOfProgram DEF SavingMap
  <2>3. ~SettingPlace(site)
    BY <2>1, TailOfProgram DEF SettingPlace
  <2>4. ~Recording(site)
    <3>1. \A p, e : Head(Record(p, e)).do = "record"
      BY TailOfProgram DEF Record
    <3> QED BY <3>1 DEF Recording
  <2>5. ~Publishing(site)
    <3>1. Publishing(site) => Head(site.op).do \in CatalogSteps
      BY <1>1, ProgramStep DEF Publishing
    <3> QED BY <3>1 DEF CatalogSteps
  <2>6. site.op # << >>
    BY DEF ManagerDies
  <2> QED BY <2>2, <2>3, <2>4, <2>5, <2>6 DEF SiteInv, AtSomething
<1>7. torn \in SUBSET Places /\ site.torn \subseteq torn
  BY <1>1, <1>5, <1>6 DEF SiteRecord
<1>8. \A p \in Places : Forgetting(site, p) => p \in torn \/ site.results[p] = NoEvidence
  BY <1>5
<1>9. site' = [site EXCEPT !.op = << >>, !.deaths = @ + 1, !.catalog = c, !.torn = torn]
  BY <1>1, <1>2 DEF SiteRecord
<1> HIDE DEF torn, tears
<1>a. c \in CatalogRecord(GoodSites) /\ torn \in SUBSET Places
  BY <1>3, <1>7 DEF CatalogInv
<1>b. site \in SiteRecord(site.op)
  BY <1>1
<1> DEFINE deaths == site.deaths + 1
<1>c. deaths \in Nat
  BY <1>b DEF SiteRecord
<1>d. site' = [site EXCEPT !.op = << >>, !.deaths = deaths, !.catalog = c, !.torn = torn]
  BY <1>9
<1> HIDE DEF deaths
<1>10. /\ site' \in SiteRecord(<< >>) /\ site'.op = << >> /\ site'.catalog = c
      /\ site'.phase = site.phase /\ site'.image = site.image /\ site'.yaml = site.yaml
      /\ site'.places = site.places /\ site'.results = site.results
      /\ site'.navMap = site.navMap /\ site'.navPlaces = site.navPlaces
      /\ site'.trip = site.trip /\ site'.touched = site.touched /\ site'.torn = torn
  BY <1>a, <1>b, <1>c, <1>d DEF SiteRecord
<1>11. AtSomething(site')
  BY <1>10 DEF AtSomething
<1>12. DraftIsReached(site')
  BY <1>1, <1>7, <1>8, <1>10 DEF DraftIsReached
<1>13. NavigatorIsCurrent(site')
  BY <1>1, <1>10 DEF NavigatorIsCurrent
<1> QED BY <1>3, <1>10, <1>11, <1>12, <1>13 DEF SiteInv, CatalogInv

(* Launches, mapping and driving leave the draft and the catalog alone.    *)
LEMMA DraftUntouched ==
  ASSUME SiteInv, site' \in SiteRecord(site.op),
         site'.op = site.op, site'.catalog = site.catalog,
         site'.image = site.image, site'.yaml = site.yaml,
         site'.places = site.places, site'.results = site.results,
         site'.torn = site.torn, NavigatorIsCurrent(site'), AtSomething(site')
  PROVE  SiteInv'
<1>1. DraftIsReached(site')
  BY DEF SiteInv, DraftIsReached, Forgetting
<1> QED BY <1>1 DEF SiteInv

LEMMA LaunchValidationSound ==
  ASSUME SiteInv, LaunchValidation
  PROVE  SiteInv'
<1>1. site \in SiteRecord(site.op) /\ site.op = << >>
  BY DEF SiteInv, LaunchValidation
<1> DEFINE t == [site EXCEPT !.phase = "validate", !.localized = FALSE,
                             !.trip = << >>, !.touched = {}]
<1>2. /\ t \in SiteRecord(site.op) /\ t.phase = "validate" /\ t.trip = << >>
      /\ t.touched = {} /\ t.op = site.op /\ t.catalog = site.catalog
      /\ t.image = site.image /\ t.yaml = site.yaml /\ t.places = site.places
      /\ t.results = site.results /\ t.torn = site.torn
  BY <1>1 DEF SiteRecord, Maybe
<1>3. site' = [t EXCEPT !.navMap = site.yaml, !.navPlaces = site.places]
  BY DEF LaunchValidation
<1> HIDE DEF t
<1>4. /\ site' \in SiteRecord(site.op) /\ site'.phase = t.phase /\ site'.trip = t.trip
      /\ site'.touched = t.touched /\ site'.op = t.op /\ site'.catalog = t.catalog
      /\ site'.image = t.image /\ site'.yaml = t.yaml /\ site'.places = t.places
      /\ site'.results = t.results /\ site'.torn = t.torn
      /\ site'.navMap = site.yaml /\ site'.navPlaces = site.places
  BY <1>1, <1>2, <1>3 DEF SiteRecord
<1>5. NavigatorIsCurrent(site')
  BY <1>2, <1>4 DEF NavigatorIsCurrent
<1>6. AtSomething(site')
  BY <1>1, <1>2, <1>4 DEF AtSomething
<1> QED BY <1>2, <1>4, <1>5, <1>6, DraftUntouched

LEMMA LaunchBuildSound ==
  ASSUME SiteInv, LaunchBuild
  PROVE  SiteInv'
<1>1. site \in SiteRecord(site.op) /\ site.op = << >>
  BY DEF SiteInv, LaunchBuild
<1>2. site' = [site EXCEPT !.phase = "build", !.localized = FALSE,
                           !.trip = << >>, !.touched = {}, !.slam = @ + 1]
  BY DEF LaunchBuild
<1> DEFINE t == [site EXCEPT !.phase = "build", !.localized = FALSE, !.trip = << >>]
<1>a. /\ t \in SiteRecord(site.op) /\ t.phase = "build" /\ t.trip = << >>
      /\ t.op = site.op /\ t.catalog = site.catalog
      /\ t.image = site.image /\ t.yaml = site.yaml /\ t.places = site.places
      /\ t.results = site.results /\ t.torn = site.torn
  BY <1>1 DEF SiteRecord, Maybe
<1> DEFINE slam == t.slam + 1
<1>b. site' = [t EXCEPT !.touched = {}, !.slam = slam]
  BY <1>2
<1> HIDE DEF t
<1>c. slam \in Nat
  BY <1>a DEF SiteRecord
<1> HIDE DEF slam
<1>3. /\ site' \in SiteRecord(site.op) /\ site'.phase = "build" /\ site'.trip = << >>
      /\ site'.op = site.op /\ site'.catalog = site.catalog
      /\ site'.image = site.image /\ site'.yaml = site.yaml /\ site'.places = site.places
      /\ site'.results = site.results /\ site'.torn = site.torn
  BY <1>a, <1>b, <1>c DEF SiteRecord
<1>4. NavigatorIsCurrent(site')
  BY <1>3 DEF NavigatorIsCurrent
<1>5. AtSomething(site')
  BY <1>1, <1>3 DEF AtSomething
<1> QED BY <1>3, <1>4, <1>5, DraftUntouched

LEMMA ResetMappingSound ==
  ASSUME SiteInv, ResetMapping
  PROVE  SiteInv'
<1>1. site \in SiteRecord(site.op)
  BY DEF SiteInv
<1>2. site' = [site EXCEPT !.slam = @ + 1]
  BY DEF ResetMapping
<1>3. /\ site' \in SiteRecord(site.op) /\ site'.phase = site.phase /\ site'.trip = site.trip
      /\ site'.op = site.op /\ site'.catalog = site.catalog
      /\ site'.image = site.image /\ site'.yaml = site.yaml /\ site'.places = site.places
      /\ site'.results = site.results /\ site'.torn = site.torn
      /\ site'.navMap = site.navMap /\ site'.navPlaces = site.navPlaces
      /\ site'.touched = site.touched
  BY <1>1, <1>2 DEF SiteRecord
<1>4. NavigatorIsCurrent(site')
  BY <1>3 DEF NavigatorIsCurrent, SiteInv
<1>5. AtSomething(site')
  BY <1>3 DEF SiteInv, AtSomething, SavingMap, SettingPlace, Forgetting, Recording,
              Publishing, Forgotten
<1> QED BY <1>3, <1>4, <1>5, DraftUntouched

LEMMA ValidateLocalizationSound ==
  ASSUME SiteInv, ValidateLocalization
  PROVE  SiteInv'
<1>1. site \in SiteRecord(site.op)
  BY DEF SiteInv
<1>2. site' = [site EXCEPT !.localized = TRUE]
  BY DEF ValidateLocalization
<1>3. /\ site' \in SiteRecord(site.op) /\ site'.phase = site.phase /\ site'.trip = site.trip
      /\ site'.op = site.op /\ site'.catalog = site.catalog
      /\ site'.image = site.image /\ site'.yaml = site.yaml /\ site'.places = site.places
      /\ site'.results = site.results /\ site'.torn = site.torn
      /\ site'.navMap = site.navMap /\ site'.navPlaces = site.navPlaces
      /\ site'.touched = site.touched
  BY <1>1, <1>2 DEF SiteRecord
<1>4. NavigatorIsCurrent(site')
  BY <1>3 DEF NavigatorIsCurrent, SiteInv
<1>5. AtSomething(site')
  BY <1>3 DEF SiteInv, AtSomething, SavingMap, SettingPlace, Forgetting, Recording,
              Publishing, Forgotten
<1> QED BY <1>3, <1>4, <1>5, DraftUntouched

(* The trip is to the pose the navigator read at its launch.               *)
LEMMA TripSound ==
  ASSUME SiteInv, NEW trip \in Maybe(Trip),
         trip # << >> => site.phase = "validate" /\ trip[1].pose = site.navPlaces[trip[1].place],
         site' = [site EXCEPT !.trip = trip]
  PROVE  SiteInv'
<1>1. site \in SiteRecord(site.op)
  BY DEF SiteInv
<1>2. /\ site' \in SiteRecord(site.op) /\ site'.phase = site.phase /\ site'.trip = trip
      /\ site'.op = site.op /\ site'.catalog = site.catalog
      /\ site'.image = site.image /\ site'.yaml = site.yaml /\ site'.places = site.places
      /\ site'.results = site.results /\ site'.torn = site.torn
      /\ site'.navMap = site.navMap /\ site'.navPlaces = site.navPlaces
      /\ site'.touched = site.touched
  BY <1>1 DEF SiteRecord
<1>3. NavigatorIsCurrent(site')
  BY <1>2 DEF NavigatorIsCurrent, SiteInv
<1>4. AtSomething(site')
  BY <1>2 DEF SiteInv, AtSomething, SavingMap, SettingPlace, Forgetting, Recording,
              Publishing, Forgotten
<1> QED BY <1>2, <1>3, <1>4, DraftUntouched

LEMMA ValidatePlaceSound ==
  ASSUME SiteInv, ValidatePlace
  PROVE  SiteInv'
<1>1. site \in SiteRecord(site.op) /\ site.phase = "validate"
  BY DEF SiteInv, ValidatePlace
<1>2. PICK p \in Places :
        site' = [site EXCEPT !.trip =
                   <<[place |-> p, pose |-> site.navPlaces[p], arrived |-> FALSE]>>]
  BY DEF ValidatePlace
<1> DEFINE t == [place |-> p, pose |-> site.navPlaces[p], arrived |-> FALSE]
<1>3. t \in Trip /\ t.pose = site.navPlaces[t.place]
  BY <1>1 DEF SiteRecord, Trip
<1> HIDE DEF t
<1>4. <<t>> \in Maybe(Trip) /\ <<t>>[1] = t
  BY <1>3 DEF Maybe
<1>5. site' = [site EXCEPT !.trip = <<t>>]
  BY <1>2 DEF t
<1> QED BY <1>1, <1>3, <1>4, <1>5, TripSound

LEMMA OnlyReplaced ==
  ASSUME NEW t, NEW u
  PROVE  [<<t>> EXCEPT ![1] = u] = <<u>>
<1>1. DOMAIN <<t>> = {1} /\ DOMAIN <<u>> = {1}
  OBVIOUS
<1>2. [<<t>> EXCEPT ![1] = u] = [i \in {1} |-> u]
  BY <1>1
<1>3. <<u>> = [i \in {1} |-> u]
  BY <1>1
<1> QED BY <1>2, <1>3

LEMMA TripEndsSound ==
  ASSUME SiteInv, TripEnds
  PROVE  SiteInv'
<1>1. site \in SiteRecord(site.op) /\ site.trip # << >> /\ NavigatorIsCurrent(site)
  BY DEF SiteInv, TripEnds
<1>2. PICK t \in Trip : site.trip = <<t>>
  BY <1>1 DEF SiteRecord, Maybe
<1> DEFINE u == [t EXCEPT !.arrived = TRUE]
<1>3. u \in Trip /\ u.pose = t.pose /\ u.place = t.place
  BY DEF Trip
<1>4. [site.trip EXCEPT ![1].arrived = TRUE] = <<u>>
  <2>1. <<t>>[1] = t
    OBVIOUS
  <2>2. [<<t>> EXCEPT ![1].arrived = TRUE] = [<<t>> EXCEPT ![1] = u]
    BY <2>1
  <2> QED BY <1>2, <2>2, OnlyReplaced
<1>5. CASE site' = [site EXCEPT !.trip[1].arrived = TRUE]
  <2>1. site' = [site EXCEPT !.trip = <<u>>]
    BY <1>1, <1>4, <1>5 DEF SiteRecord
  <2>2. <<u>> \in Maybe(Trip) /\ <<u>>[1] = u
    BY <1>3 DEF Maybe
  <2>3. site.phase = "validate" /\ u.pose = site.navPlaces[u.place]
    BY <1>1, <1>2, <1>3 DEF NavigatorIsCurrent
  <2> HIDE DEF u
  <2> QED BY <2>1, <2>2, <2>3, TripSound
<1>6. CASE site' = [site EXCEPT !.trip = << >>]
  <2>1. << >> \in Maybe(Trip)
    BY DEF Maybe
  <2> QED BY <1>6, <2>1, TripSound
<1> QED BY <1>5, <1>6 DEF TripEnds

(* What is recorded of a trip whose place was not touched is the pose the  *)
(* draft has, on the map the draft has.                                    *)
LEMMA RecordTripSound ==
  ASSUME SiteInv, RecordTrip
  PROVE  SiteInv'
<1>1. /\ site \in SiteRecord(<< >>) /\ site.trip # << >> /\ NavigatorIsCurrent(site)
      /\ site.op = << >>
  BY DEF SiteInv, RecordTrip
<1>2. PICK t \in Trip : site.trip = <<t>>
  BY <1>1 DEF SiteRecord, Maybe
<1> DEFINE e == [hand |-> FALSE, touched |-> t.place \in site.touched,
                 pose |-> t.pose, map |-> site.navMap]
           prog == IF Known(t.place) THEN Record(t.place, e) ELSE << >>
<1>3. /\ t.place \in Places /\ t.pose = site.navPlaces[t.place] /\ t.pose \in Nat
      /\ site.phase = "validate"
  BY <1>1, <1>2 DEF NavigatorIsCurrent, Trip
<1>4. e \in Evidence
  BY <1>1, <1>3 DEF SiteRecord, Evidence
<1>5. Known(t.place) => Reached(e, site.places[t.place], site.yaml)
  BY <1>1, <1>3 DEF NavigatorIsCurrent, Reached, Known
<1>6. site' = [site EXCEPT !.trip = << >>, !.op = prog]
  BY <1>2 DEF RecordTrip
<1> HIDE DEF e
<1>7. /\ site' \in SiteRecord(prog) /\ site'.phase = site.phase /\ site'.trip = << >>
      /\ site'.op = prog /\ site'.catalog = site.catalog
      /\ site'.image = site.image /\ site'.yaml = site.yaml /\ site'.places = site.places
      /\ site'.results = site.results /\ site'.torn = site.torn
      /\ site'.navMap = site.navMap /\ site'.navPlaces = site.navPlaces
      /\ site'.touched = site.touched
  BY <1>1, <1>6 DEF SiteRecord, Maybe
<1>8. AtSomething(site')
  BY <1>3, <1>4, <1>5, <1>7 DEF AtSomething, Recording
<1> HIDE DEF prog
<1>9. NavigatorIsCurrent(site')
  BY <1>1, <1>7 DEF NavigatorIsCurrent
<1>10. DraftIsReached(site')
  <2>1. \A p \in Places : ~Forgetting(site, p)
    BY <1>1, TailOfProgram DEF Forgetting
  <2> QED BY <1>7, <2>1 DEF SiteInv, DraftIsReached
<1> QED BY <1>7, <1>8, <1>9, <1>10 DEF SiteInv

LEMMA SiteStarts == InitSite => SiteInv
<1> SUFFICES ASSUME InitSite PROVE SiteInv
  OBVIOUS
<1>1. EmptyCatalog \in CatalogRecord(GoodSites) /\ NothingDangles(EmptyCatalog)
  BY EmptyIsSound DEF CatalogInv
<1>2. /\ site \in SiteRecord(<< >>) /\ site.op = << >> /\ site.catalog = EmptyCatalog
      /\ site.image = NoMap /\ site.results = [p \in Places |-> NoEvidence]
      /\ site.phase = "build" /\ site.trip = << >>
  BY <1>1 DEF InitSite, SiteRecord, Maybe, NoMap, NoPose, NoEvidence
<1>3. AtSomething(site) /\ DraftIsReached(site) /\ NavigatorIsCurrent(site)
  BY <1>2 DEF AtSomething, DraftIsReached, NavigatorIsCurrent
<1> QED BY <1>1, <1>2, <1>3 DEF SiteInv

LEMMA SiteStep == SiteInv /\ NextSite => SiteInv'
BY SaveMapSound, SetPlaceSound, RemovePlaceSound, RecordByHandSound,
   FinalizeAndActivateSound, ActivateVersionSound, RebuildIndexSound, ManagerStepSound,
   ManagerDiesSound, LaunchValidationSound, LaunchBuildSound, ResetMappingSound,
   ValidateLocalizationSound, ValidatePlaceSound, TripEndsSound, RecordTripSound
   DEF NextSite, Manager

LEMMA SiteIsTrue == SiteInv => PublishedPlaceWasReached /\ PublishedMapIsWhole
<1> SUFFICES ASSUME SiteInv PROVE PublishedPlaceWasReached /\ PublishedMapIsWhole
  OBVIOUS
<1>1. site.catalog.versions \in [Publications -> Maybe(GoodSites)]
  BY DEF SiteInv, SiteRecord, CatalogRecord
<1>2. \A b \in PublishedSites : b \in GoodSites
  BY <1>1 DEF PublishedSites, Published, Maybe
<1> QED BY <1>2 DEF PublishedPlaceWasReached, PublishedMapIsWhole, GoodSites, Reached, SiteInv

-----------------------------------------------------------------------------
(* A unit's calibration.  What the tool has still to write, and what holds *)
(* of the draft meanwhile.                                                 *)

UnitParts == [components : [Workflows -> Maybe(BOOLEAN)], stale : SUBSET Workflows]
GoodUnits ==
    {b \in UnitParts : \A w \in Workflows \ b.stale : b.components[w] = <<TRUE>>}

UnitRecord(op) ==
    [captureOnly : BOOLEAN, exported : Maybe(BOOLEAN),
     components : [Workflows -> Maybe(BOOLEAN)], status : [Workflows -> BOOLEAN],
     op : {op}, stale : SUBSET Workflows, saves : Nat, deaths : Nat,
     catalog : CatalogRecord(GoodUnits)]

ScoreStep(w, g) == Write("status", w, g)
ExportStep == Write("export", BaseGeometry, TRUE)

Scoring(u, w, g) == u.op = <<ScoreStep(w, g)>> \/ u.op = <<ScoreStep(w, g), ExportStep>>

Saving(u) ==
    \E w \in Workflows, g \in BOOLEAN :
      \/ u.op = <<Write("component", w, g), ScoreStep(w, g)>>
      \/ u.op = <<Write("component", w, g), ScoreStep(w, g), ExportStep>>
      \/ Scoring(u, w, g) /\ u.components[w] = <<g>>

PublishingUnit(u) ==
    \E v \in Publications :
      (\E b \in GoodUnits : u.op = PublishProgram(v, b)) \/ Underway(u.catalog, u.op, v)

AtWriting(u) ==
    u.op = << >> \/ Saving(u) \/ u.op = <<ExportStep>> \/ PublishingUnit(u)

(* A status that says passed is of the component that is there, but while  *)
(* the new one is being written and where a death left the old one.        *)
DraftPassed(u) ==
    \A w \in Workflows \ u.stale :
      u.status[w] => u.components[w] = <<TRUE>> \/ \E g \in BOOLEAN : Scoring(u, w, g)

UnitInv ==
    /\ unit \in UnitRecord(unit.op) /\ NothingDangles(unit.catalog)
    /\ AtWriting(unit) /\ DraftPassed(unit)

LEMMA QualityIsKept ==
  ASSUME NEW what, NEW w, NEW g \in BOOLEAN
  PROVE  /\ (Write(what, w, g).v = 1) = g /\ Write(what, w, g).do = what
         /\ Write(what, w, g).files[1] = w
<1>1. CASE g = TRUE
  BY <1>1 DEF Write
<1>2. CASE g = FALSE
  BY <1>2 DEF Write
<1> QED BY <1>1, <1>2

LEMMA BeginUnit ==
  ASSUME UnitInv, unit.op = << >>, NEW prog, NEW saves \in Nat,
         unit' = [unit EXCEPT !.op = prog, !.saves = saves], AtWriting(unit')
  PROVE  UnitInv'
<1>1. unit \in UnitRecord(<< >>)
  BY DEF UnitInv
<1>2. /\ unit' \in UnitRecord(prog) /\ unit'.op = prog /\ unit'.catalog = unit.catalog
      /\ unit'.components = unit.components /\ unit'.status = unit.status
      /\ unit'.stale = unit.stale
  BY <1>1 DEF UnitRecord
<1>3. DraftPassed(unit')
  <2>1. \A w, g : ~Scoring(unit, w, g)
    BY TailOfProgram DEF Scoring
  <2> QED BY <1>2, <2>1 DEF UnitInv, DraftPassed
<1> QED BY <1>2, <1>3 DEF UnitInv

LEMMA SaveComponentSound ==
  ASSUME UnitInv, NEW w \in Workflows, NEW more,
         more = << >> \/ more = <<ExportStep>>, SaveComponent(w, more)
  PROVE  UnitInv'
<1>1. unit \in UnitRecord(<< >>) /\ unit.op = << >>
  BY DEF UnitInv, SaveComponent
<1>2. PICK g \in BOOLEAN :
        unit' = [unit EXCEPT !.op = SaveProgram(w, g) \o more, !.saves = @ + 1]
  BY DEF SaveComponent, Qualities
<1> DEFINE prog == SaveProgram(w, g) \o more
           saves == unit.saves + 1
<1>3. saves \in Nat
  BY <1>1 DEF UnitRecord
<1>4. unit' = [unit EXCEPT !.op = prog, !.saves = saves]
  BY <1>2
<1> HIDE DEF saves
<1>5. \/ prog = <<Write("component", w, g), ScoreStep(w, g)>>
      \/ prog = <<Write("component", w, g), ScoreStep(w, g), ExportStep>>
  <2>1. CASE more = << >>
    <3>1. \A a, b : <<a, b>> \o << >> = <<a, b>>
      <4> TAKE a, b
      <4>1. <<a, b>> \in Seq({a, b})
        OBVIOUS
      <4> QED BY <4>1, ConcatEmptySeq
    <3> QED BY <2>1, <3>1 DEF SaveProgram, ScoreStep
  <2>2. CASE more = <<ExportStep>>
    BY <2>2, JoinedWithOne DEF SaveProgram, ScoreStep
  <2> QED BY <2>1, <2>2
<1> HIDE DEF prog
<1>6. unit'.op = prog
  BY <1>1, <1>4 DEF UnitRecord
<1>7. AtWriting(unit')
  BY <1>5, <1>6 DEF AtWriting, Saving
<1> QED BY <1>1, <1>3, <1>4, <1>7, BeginUnit

LEMMA ActivateUnitSound ==
  ASSUME UnitInv, ActivateUnit
  PROVE  UnitInv'
<1>1. unit \in UnitRecord(<< >>) /\ unit.op = << >> /\ UnitReady
  BY DEF UnitInv, ActivateUnit
<1> DEFINE b == [components |-> unit.components, stale |-> unit.stale]
<1>2. PICK v \in Unpublished(unit.catalog) :
        unit' = [unit EXCEPT !.op = Create(v, b) \o Activation(v)]
  BY DEF ActivateUnit
<1>3. v \in Publications
  BY DEF Unpublished
<1>4. b \in GoodUnits
  <2>1. \A w, g : ~Scoring(unit, w, g)
    BY <1>1, TailOfProgram DEF Scoring
  <2>2. b \in UnitParts
    BY <1>1 DEF UnitRecord, UnitParts
  <2> QED BY <1>1, <2>1, <2>2 DEF GoodUnits, UnitInv, DraftPassed, UnitReady
<1> HIDE DEF b
<1> DEFINE prog == Create(v, b) \o Activation(v)
<1>5. prog = PublishProgram(v, b)
  BY CreateThenActivate
<1>6. unit' = [unit EXCEPT !.op = prog, !.saves = unit.saves]
  BY <1>1, <1>2 DEF UnitRecord
<1> HIDE DEF prog
<1>7. unit'.op = prog /\ unit.saves \in Nat
  BY <1>1, <1>6 DEF UnitRecord
<1>8. AtWriting(unit')
  BY <1>3, <1>4, <1>5, <1>7 DEF AtWriting, PublishingUnit
<1> QED BY <1>1, <1>6, <1>7, <1>8, BeginUnit

LEMMA ActivateUnitVersionSound ==
  ASSUME UnitInv, ActivateUnitVersion
  PROVE  UnitInv'
<1>1. unit \in UnitRecord(<< >>) /\ unit.op = << >>
  BY DEF UnitInv, ActivateUnitVersion
<1>2. PICK v \in Published(unit.catalog) : unit' = [unit EXCEPT !.op = Activation(v)]
  BY DEF ActivateUnitVersion
<1>3. v \in Publications
  BY DEF Published
<1> DEFINE prog == Activation(v)
<1>4. unit' = [unit EXCEPT !.op = prog, !.saves = unit.saves]
  BY <1>1, <1>2 DEF UnitRecord
<1>5. unit'.op = Activation(v) /\ unit.saves \in Nat /\ unit'.catalog = unit.catalog
  BY <1>1, <1>4 DEF UnitRecord
<1>6. AtWriting(unit')
  BY <1>3, <1>5 DEF AtWriting, PublishingUnit, Underway
<1> HIDE DEF prog
<1> QED BY <1>1, <1>4, <1>5, <1>6, BeginUnit

(* A step of the tool that writes to the draft has one outcome.            *)
Rewritten(exported, components, status, stale) ==
    [unit EXCEPT !.exported = exported, !.components = components,
                 !.status = status, !.stale = stale]

LEMMA WriteKeepsTheRest ==
  ASSUME UnitInv, ToolStep, NEW exported \in Maybe(BOOLEAN),
         NEW components \in [Workflows -> Maybe(BOOLEAN)],
         NEW status \in [Workflows -> BOOLEAN], NEW stale \in SUBSET Workflows,
         Written(Head(unit.op)) = {Rewritten(exported, components, status, stale)}
  PROVE  /\ unit' \in UnitRecord(unit'.op) /\ NothingDangles(unit'.catalog)
         /\ unit'.components = components /\ unit'.status = status
         /\ unit'.stale = stale /\ unit'.op = Tail(unit.op)
         /\ unit'.catalog = unit.catalog
<1>1. unit \in UnitRecord(unit.op) /\ NothingDangles(unit.catalog)
  BY DEF UnitInv
<1> DEFINE t == Rewritten(exported, components, status, stale)
<1>2. unit' = [t EXCEPT !.op = Tail(@)]
  BY DEF ToolStep
<1>3. /\ t \in UnitRecord(unit.op) /\ t.components = components /\ t.status = status
      /\ t.stale = stale /\ t.op = unit.op /\ t.catalog = unit.catalog
  BY <1>1 DEF UnitRecord, Rewritten
<1> HIDE DEF t
<1>4. /\ unit' \in UnitRecord(Tail(unit.op)) /\ unit'.components = t.components
      /\ unit'.status = t.status /\ unit'.stale = t.stale
      /\ unit'.op = Tail(t.op) /\ unit'.catalog = t.catalog
  BY <1>2, <1>3 DEF UnitRecord
<1> QED BY <1>1, <1>3, <1>4

LEMMA SavingStep ==
  ASSUME UnitInv, ToolStep, Saving(unit)
  PROVE  UnitInv'
<1>1. unit \in UnitRecord(unit.op) /\ DraftPassed(unit)
  BY DEF UnitInv
<1>2. /\ unit.exported \in Maybe(BOOLEAN) /\ unit.stale \in SUBSET Workflows
      /\ unit.components \in [Workflows -> Maybe(BOOLEAN)]
      /\ unit.status \in [Workflows -> BOOLEAN]
  BY <1>1 DEF UnitRecord
<1>3. PICK w \in Workflows, g \in BOOLEAN :
        \/ unit.op = <<Write("component", w, g), ScoreStep(w, g)>>
        \/ unit.op = <<Write("component", w, g), ScoreStep(w, g), ExportStep>>
        \/ Scoring(unit, w, g) /\ unit.components[w] = <<g>>
  BY DEF Saving
<1>4. CASE \/ unit.op = <<Write("component", w, g), ScoreStep(w, g)>>
           \/ unit.op = <<Write("component", w, g), ScoreStep(w, g), ExportStep>>
  <2> DEFINE components == [unit.components EXCEPT ![w] = <<g>>]
  <2>1. /\ components \in [Workflows -> Maybe(BOOLEAN)] /\ components[w] = <<g>>
        /\ \A x \in Workflows \ {w} : components[x] = unit.components[x]
    BY <1>2 DEF Maybe
  <2>2. /\ Head(unit.op) = Write("component", w, g)
        /\ Tail(unit.op) = <<ScoreStep(w, g)>> \/ Tail(unit.op) = <<ScoreStep(w, g), ExportStep>>
    <3>1. CASE unit.op = <<Write("component", w, g), ScoreStep(w, g)>>
      BY <3>1, TailOfProgram
    <3>2. CASE unit.op = <<Write("component", w, g), ScoreStep(w, g), ExportStep>>
      BY <3>2, TailOfProgram
    <3> QED BY <1>4, <3>1, <3>2
  <2>3. Written(Write("component", w, g)) = {[unit EXCEPT !.components[w] = <<g>>]}
    <3> DEFINE s == Write("component", w, g)
    <3>1. s.do = "component" /\ s.files[1] = w /\ (s.v = 1) = g
      BY QualityIsKept
    <3> HIDE DEF s
    <3>2. Written(s) = {[unit EXCEPT !.components[s.files[1]] = <<s.v = 1>>]}
      BY <3>1 DEF Written, CatalogSteps
    <3> QED BY <3>1, <3>2 DEF s
  <2>4. Written(Head(unit.op)) = {Rewritten(unit.exported, components, unit.status, unit.stale)}
    BY <1>1, <2>2, <2>3 DEF UnitRecord, Rewritten
  <2>5. components \in [Workflows -> Maybe(BOOLEAN)]
    BY <2>1
  <2> HIDE DEF components
  <2>6. /\ unit' \in UnitRecord(unit'.op) /\ NothingDangles(unit'.catalog)
        /\ unit'.components = components /\ unit'.status = unit.status
        /\ unit'.stale = unit.stale /\ unit'.op = Tail(unit.op)
    BY <1>2, <2>4, <2>5, WriteKeepsTheRest
  <2>7. Scoring(unit', w, g)
    BY <2>2, <2>6 DEF Scoring
  <2>8. AtWriting(unit')
    BY <2>1, <2>6, <2>7 DEF AtWriting, Saving
  <2>9. \A x, h : ~Scoring(unit, x, h)
    <3>1. \A x, h : ScoreStep(x, h).do = "status"
      BY DEF ScoreStep, Write
    <3>2. Write("component", w, g).do = "component"
      BY DEF Write
    <3> QED BY <2>2, <3>1, <3>2, TailOfProgram DEF Scoring
  <2>10. DraftPassed(unit')
    BY <1>1, <2>1, <2>6, <2>7, <2>9 DEF DraftPassed
  <2> QED BY <2>6, <2>8, <2>10 DEF UnitInv
<1>5. CASE Scoring(unit, w, g) /\ unit.components[w] = <<g>>
  <2> DEFINE status == [unit.status EXCEPT ![w] = g]
             stale == unit.stale \ {w}
  <2>1. /\ status \in [Workflows -> BOOLEAN] /\ status[w] = g
        /\ \A x \in Workflows \ {w} : status[x] = unit.status[x]
        /\ stale \in SUBSET Workflows
        /\ \A x \in Workflows \ {w} : x \in stale <=> x \in unit.stale
    BY <1>2
  <2>2. Head(unit.op) = ScoreStep(w, g) /\ Tail(unit.op) \in {<< >>, <<ExportStep>>}
    <3>1. CASE unit.op = <<ScoreStep(w, g)>>
      BY <3>1, TailOfProgram
    <3>2. CASE unit.op = <<ScoreStep(w, g), ExportStep>>
      BY <3>2, TailOfProgram
    <3> QED BY <1>5, <3>1, <3>2 DEF Scoring
  <2>3. Written(ScoreStep(w, g)) = {[unit EXCEPT !.status[w] = g, !.stale = @ \ {w}]}
    <3> DEFINE s == ScoreStep(w, g)
    <3>1. s.do = "status" /\ s.files[1] = w /\ (s.v = 1) = g
      BY QualityIsKept DEF ScoreStep
    <3> HIDE DEF s
    <3>2. Written(s) = {[unit EXCEPT !.status[s.files[1]] = (s.v = 1),
                                      !.stale = @ \ {s.files[1]}]}
      BY <3>1 DEF Written, CatalogSteps
    <3> QED BY <3>1, <3>2 DEF s
  <2>4. Written(Head(unit.op)) = {Rewritten(unit.exported, unit.components, status, stale)}
    BY <1>1, <2>2, <2>3 DEF UnitRecord, Rewritten
  <2>5. status \in [Workflows -> BOOLEAN]
    BY <2>1
  <2>6. stale \in SUBSET Workflows
    BY <2>1
  <2> HIDE DEF status, stale
  <2>7. /\ unit' \in UnitRecord(unit'.op) /\ NothingDangles(unit'.catalog)
        /\ unit'.components = unit.components /\ unit'.status = status
        /\ unit'.stale = stale /\ unit'.op = Tail(unit.op)
    BY <1>2, <2>4, <2>5, <2>6, WriteKeepsTheRest
  <2>8. AtWriting(unit')
    BY <2>2, <2>7 DEF AtWriting
  <2>9. \A x \in Workflows \ {w}, h \in BOOLEAN : ~Scoring(unit, x, h)
    <3>1. \A x, h : Scoring(unit, x, h) => ScoreStep(x, h) = ScoreStep(w, g)
      BY <2>2, TailOfProgram DEF Scoring
    <3>2. \A x, h : ScoreStep(x, h).files[1] = x
      BY DEF ScoreStep, Write
    <3> QED BY <3>1, <3>2
  <2>10. ASSUME NEW x \in Workflows \ unit'.stale, unit'.status[x]
         PROVE  unit'.components[x] = <<TRUE>>
    <3>1. CASE x = w
      <4>1. g = TRUE
        BY <2>1, <2>7, <2>10, <3>1
      <4> QED BY <1>5, <2>7, <3>1, <4>1
    <3>2. CASE x # w
      <4>1. x \in Workflows \ unit.stale /\ unit.status[x]
        BY <2>1, <2>7, <2>10, <3>2
      <4>2. \A h \in BOOLEAN : ~Scoring(unit, x, h)
        BY <2>9, <3>2
      <4> QED BY <1>1, <2>7, <4>1, <4>2 DEF DraftPassed
    <3> QED BY <3>1, <3>2
  <2>11. DraftPassed(unit')
    BY <2>10 DEF DraftPassed
  <2> QED BY <2>7, <2>8, <2>11 DEF UnitInv
<1> QED BY <1>3, <1>4, <1>5

LEMMA ExportingStep ==
  ASSUME UnitInv, ToolStep, unit.op = <<ExportStep>>
  PROVE  UnitInv'
<1>1. unit \in UnitRecord(unit.op) /\ DraftPassed(unit)
  BY DEF UnitInv
<1>2. /\ unit.stale \in SUBSET Workflows
      /\ unit.components \in [Workflows -> Maybe(BOOLEAN)]
      /\ unit.status \in [Workflows -> BOOLEAN]
  BY <1>1 DEF UnitRecord
<1> DEFINE exported == unit.components[BaseGeometry]
<1>3. exported \in Maybe(BOOLEAN)
  BY <1>2, CalibrationAssumption
<1>4. Head(unit.op) = ExportStep /\ Tail(unit.op) = << >>
  BY TailOfProgram
<1>5. Written(ExportStep) = {[unit EXCEPT !.exported = exported]}
  BY DEF Written, ExportStep, Write, CatalogSteps
<1>6. Written(Head(unit.op)) =
        {Rewritten(exported, unit.components, unit.status, unit.stale)}
  BY <1>1, <1>4, <1>5 DEF UnitRecord, Rewritten
<1> HIDE DEF exported
<1>7. /\ unit' \in UnitRecord(unit'.op) /\ NothingDangles(unit'.catalog)
      /\ unit'.components = unit.components /\ unit'.status = unit.status
      /\ unit'.stale = unit.stale /\ unit'.op = Tail(unit.op)
  BY <1>2, <1>3, <1>6, WriteKeepsTheRest
<1>8. AtWriting(unit')
  BY <1>4, <1>7 DEF AtWriting
<1>9. \A x, h : ~Scoring(unit, x, h)
  <2>1. \A x, h : ScoreStep(x, h).do = "status"
    BY DEF ScoreStep, Write
  <2>2. ExportStep.do = "export"
    BY DEF ExportStep, Write
  <2> QED BY <1>4, <2>1, <2>2, TailOfProgram DEF Scoring
<1>10. DraftPassed(unit')
  BY <1>1, <1>7, <1>9 DEF DraftPassed
<1> QED BY <1>7, <1>8, <1>10 DEF UnitInv

LEMMA PublishingUnitStep ==
  ASSUME UnitInv, ToolStep, PublishingUnit(unit)
  PROVE  UnitInv'
<1>1. /\ unit \in UnitRecord(unit.op) /\ CatalogInv(GoodUnits, unit.catalog)
      /\ DraftPassed(unit)
  BY DEF UnitInv, UnitRecord, CatalogInv
<1>2. PICK v \in Publications :
        (\E b \in GoodUnits : unit.op = PublishProgram(v, b))
          \/ Underway(unit.catalog, unit.op, v)
  BY DEF PublishingUnit
<1>3. /\ unit.op # << >> /\ Head(unit.op).do \in CatalogSteps
      /\ \A d \in CatalogStep(unit.catalog, Head(unit.op)) :
           CatalogInv(GoodUnits, d)
             /\ (Tail(unit.op) = << >> \/ Underway(d, Tail(unit.op), v))
  BY <1>1, <1>2, ProgramStep
<1> DEFINE outcomes == CatalogStep(unit.catalog, Head(unit.op))
<1>4. Written(Head(unit.op)) = {[unit EXCEPT !.catalog = c] : c \in outcomes}
  BY <1>3 DEF Written, CatalogSteps
<1>5. \A w, g : ~Scoring(unit, w, g)
  <2>1. \A w, g : ScoreStep(w, g).do = "status"
    BY DEF ScoreStep, Write
  <2>2. \A w, g : Scoring(unit, w, g) => Head(unit.op).do = "status"
    BY <2>1, TailOfProgram DEF Scoring
  <2> QED BY <1>3, <2>2 DEF CatalogSteps
<1>6. ASSUME NEW d, CatalogInv(GoodUnits, d), NEW op,
             op = << >> \/ Underway(d, op, v),
             unit' = [[unit EXCEPT !.catalog = d] EXCEPT !.op = op]
      PROVE  UnitInv'
  <2>1. d \in CatalogRecord(GoodUnits) /\ NothingDangles(d)
    BY <1>6 DEF CatalogInv
  <2>2. /\ unit' \in UnitRecord(op) /\ unit'.op = op /\ unit'.catalog = d
        /\ unit'.components = unit.components /\ unit'.status = unit.status
        /\ unit'.stale = unit.stale
    BY <1>1, <1>6, <2>1 DEF UnitRecord
  <2>3. AtWriting(unit')
    BY <1>2, <1>6, <2>2 DEF AtWriting, PublishingUnit
  <2>4. DraftPassed(unit')
    BY <1>1, <1>5, <2>2 DEF DraftPassed
  <2> QED BY <2>1, <2>2, <2>3, <2>4 DEF UnitInv
<1>7. CASE outcomes = {}
  <2>1. unit' = [unit EXCEPT !.op = << >>]
    BY <1>4, <1>7 DEF ToolStep
  <2>2. unit' = [[unit EXCEPT !.catalog = unit.catalog] EXCEPT !.op = << >>]
    BY <1>1, <2>1 DEF UnitRecord
  <2> QED BY <1>1, <1>6, <2>2
<1>8. CASE outcomes # {}
  <2>1. PICK d \in outcomes : unit' = [[unit EXCEPT !.catalog = d] EXCEPT !.op = Tail(@)]
    <3> HIDE DEF outcomes
    <3>1. Written(Head(unit.op)) # {}
      BY <1>4, <1>8
    <3>2. PICK t \in Written(Head(unit.op)) : unit' = [t EXCEPT !.op = Tail(@)]
      BY <3>1 DEF ToolStep
    <3> QED BY <1>4, <3>2
  <2>2. [unit EXCEPT !.catalog = d].op = unit.op
    BY <1>1 DEF UnitRecord
  <2>3. unit' = [[unit EXCEPT !.catalog = d] EXCEPT !.op = Tail(unit.op)]
    BY <2>1, <2>2
  <2> QED BY <1>3, <1>6, <2>3
<1> QED BY <1>7, <1>8

LEMMA ToolDiesSound ==
  ASSUME UnitInv, ToolDies
  PROVE  UnitInv'
<1>1. /\ unit \in UnitRecord(unit.op) /\ CatalogInv(GoodUnits, unit.catalog)
      /\ DraftPassed(unit)
  BY DEF UnitInv, UnitRecord, CatalogInv
<1> DEFINE scores == Head(unit.op).do = "status"
           stale == IF scores THEN unit.stale \cup {Head(unit.op).files[1]} ELSE unit.stale
           deaths == unit.deaths + 1
<1>2. PICK c \in AfterDeath(unit.catalog) :
        unit' = [unit EXCEPT
           !.op = << >>, !.deaths = @ + 1, !.catalog = c,
           !.stale = IF scores THEN @ \cup {Head(unit.op).files[1]} ELSE @]
  BY DEF ToolDies
<1>3. CatalogInv(GoodUnits, c)
  BY <1>1, DeathStep
<1>4. \A w, g : ScoreStep(w, g).do = "status" /\ ScoreStep(w, g).files[1] = w
  BY DEF ScoreStep, Write
<1>5. ASSUME NEW w, NEW g, Scoring(unit, w, g)
      PROVE  scores /\ Head(unit.op).files[1] = w
  BY <1>4, <1>5, TailOfProgram DEF Scoring
<1>6. scores => \E w \in Workflows : Head(unit.op).files[1] = w
  <2> SUFFICES ASSUME scores PROVE \E w \in Workflows, g \in BOOLEAN : Scoring(unit, w, g)
    BY <1>5
  <2>1. \A w, g : Write("component", w, g).do = "component" /\ ExportStep.do = "export"
    BY DEF Write, ExportStep
  <2>2. unit.op # << >>
    BY DEF ToolDies
  <2>3. ~PublishingUnit(unit)
    <3>1. PublishingUnit(unit) => Head(unit.op).do \in CatalogSteps
      BY <1>1, ProgramStep DEF PublishingUnit
    <3> QED BY <3>1 DEF CatalogSteps
  <2>4. unit.op # <<ExportStep>>
    BY <2>1, TailOfProgram
  <2> QED BY <2>1, <2>2, <2>3, <2>4, TailOfProgram DEF UnitInv, AtWriting, Saving
<1>7. unit' = [unit EXCEPT !.op = << >>, !.deaths = deaths, !.catalog = c, !.stale = stale]
  BY <1>1, <1>2 DEF UnitRecord
<1>8. \A w, g : Scoring(unit, w, g) => w \in stale
  BY <1>5
<1>9. stale \in SUBSET Workflows /\ unit.stale \subseteq stale
  BY <1>1, <1>6 DEF UnitRecord
<1>10. deaths \in Nat /\ c \in CatalogRecord(GoodUnits)
  BY <1>1, <1>3 DEF UnitRecord, CatalogInv
<1> HIDE DEF stale, scores, deaths
<1>11. /\ unit' \in UnitRecord(<< >>) /\ unit'.op = << >> /\ unit'.catalog = c
      /\ unit'.components = unit.components /\ unit'.status = unit.status
      /\ unit'.stale = stale
  BY <1>1, <1>7, <1>9, <1>10 DEF UnitRecord
<1>12. AtWriting(unit')
  BY <1>11 DEF AtWriting
<1>13. DraftPassed(unit')
  BY <1>1, <1>8, <1>9, <1>11 DEF DraftPassed
<1> QED BY <1>3, <1>11, <1>12, <1>13 DEF UnitInv, CatalogInv

LEMMA UnitStarts == InitUnit => UnitInv
<1> SUFFICES ASSUME InitUnit PROVE UnitInv
  OBVIOUS
<1>1. EmptyCatalog \in CatalogRecord(GoodUnits) /\ NothingDangles(EmptyCatalog)
  BY EmptyIsSound DEF CatalogInv
<1>2. /\ unit \in UnitRecord(<< >>) /\ unit.op = << >> /\ unit.catalog = EmptyCatalog
      /\ unit.status = [w \in Workflows |-> FALSE]
  BY <1>1 DEF InitUnit, UnitRecord, Maybe
<1> QED BY <1>1, <1>2 DEF UnitInv, AtWriting, DraftPassed

LEMMA UnitStep == UnitInv /\ NextUnit => UnitInv'
<1> SUFFICES ASSUME UnitInv, NextUnit PROVE UnitInv'
  OBVIOUS
<1>1. CASE ImportResult \/ SolveSamples
  BY <1>1, SaveComponentSound DEF ImportResult, SolveSamples
<1>2. CASE SaveBaseGeometry
  BY <1>2, SaveComponentSound, CalibrationAssumption DEF SaveBaseGeometry, Exported, ExportStep
<1>3. CASE ToolStep
  BY <1>3, SavingStep, ExportingStep, PublishingUnitStep DEF ToolStep, UnitInv, AtWriting
<1> QED BY <1>1, <1>2, <1>3, ActivateUnitSound, ActivateUnitVersionSound, ToolDiesSound
        DEF NextUnit

LEMMA UnitIsTrue == UnitInv => PublishedPassed
<1> SUFFICES ASSUME UnitInv PROVE PublishedPassed
  OBVIOUS
<1>1. unit.catalog.versions \in [Publications -> Maybe(GoodUnits)]
  BY DEF UnitInv, UnitRecord, CatalogRecord
<1>2. \A v \in Published(unit.catalog) : unit.catalog.versions[v][1] \in GoodUnits
  BY <1>1 DEF Published, Maybe
<1> QED BY <1>2 DEF PublishedPassed, GoodUnits, UnitInv

-----------------------------------------------------------------------------
(* The calibration store and the workbench on top of it.                   *)

Values == [Components -> Nat]
Rendering == [of : Versions, values : Values]
AnyVersion == Versions \cup {NoVersion}

FileSteps ==
    {s \in [do : {"publish", "link", "aside", "read", "out", "in", "verify"},
            v : Nat, values : Values] :
       s.do \in {"publish", "link"} => s.v \in Versions}
Programs == Seq(FileSteps)

Rescues ==
    {r \in [mode : {"none", "select", "switch"}, to : AnyVersion] :
       r.mode # "none" => r.to \in Versions}

StoreRecord ==
    [versions : [Versions -> Maybe(Values)], active : Versions,
     runtime : Maybe(Rendering), previous : Maybe(Rendering), draft : Values,
     op : [Actors -> Programs], rescue : [Actors -> Rescues],
     from : [Actors -> AnyVersion], session : Components \cup {"none"},
     running : BOOLEAN, predecessor : Nat, result : Nat,
     progress : Maybe([basis : Nat, completed : BOOLEAN]),
     receipt : [Components -> Maybe([on : Nat, result : Nat])],
     basis : [1..MaxRevisions -> Nat], handmade : SUBSET Nat, reused : SUBSET Nat,
     revisions : Nat, operations : Nat, mishaps : Nat,
     alone : [Actors -> BOOLEAN], before : [Actors -> AnyVersion],
     target : [Actors -> AnyVersion], rescued : [Actors -> BOOLEAN], torn : BOOLEAN]

(* A directory with a rendering has that of a version that is there.       *)
IsRendering(s, d) ==
    d # << >> => /\ s.versions[d[1].of] # << >>
                 /\ d[1].values = s.versions[d[1].of][1]
DirectoriesWhole(s) ==
    /\ s.versions[s.active] # << >>
    /\ IsRendering(s, s.runtime) /\ IsRendering(s, s.previous)

(* What is moved in was rendered from a version read before.               *)
Ordered(op, from) ==
    \A i \in 1..Len(op) : op[i].do = "in" =>
      from # NoVersion \/ \E j \in 1..(i - 1) : op[j].do = "read"
ReadsFirst(s) ==
    \A a \in Actors : /\ s.from[a] # NoVersion => s.versions[s.from[a]] # << >>
                      /\ Ordered(s.op[a], s.from[a])

(* What is left of an operation on its way to version u.                   *)
LinkStep(u) == Step("link", u, Imported)
AsideStep(u) == Step("aside", u, Imported)
ReadStep == Step("read", 0, Imported)
OutStep == Step("out", 0, Imported)
InStep == Step("in", 0, Imported)
VerifyStep == Step("verify", 0, Imported)

AtLink(op, u) ==
    \/ op = <<LinkStep(u), AsideStep(u), ReadStep, OutStep, InStep>>
    \/ op = <<LinkStep(u), AsideStep(u), ReadStep, OutStep, InStep, VerifyStep>>
AtAside(op, u) ==
    \/ op = <<AsideStep(u), ReadStep, OutStep, InStep>>
    \/ op = <<AsideStep(u), ReadStep, OutStep, InStep, VerifyStep>>
AtRead(op) ==
    op = <<ReadStep, OutStep, InStep>> \/ op = <<ReadStep, OutStep, InStep, VerifyStep>>
AtOut(op) == op = <<OutStep, InStep>> \/ op = <<OutStep, InStep, VerifyStep>>
AtIn(op) == op = <<InStep>> \/ op = <<InStep, VerifyStep>>
AtVerify(op) == op = <<VerifyStep>>

Selected(s, u) == s.active = u /\ s.runtime # << >> /\ s.runtime[1].of = u

Towards(s, a, u) ==
    /\ u \in Versions /\ s.versions[u] # << >>
    /\ \/ AtLink(s.op[a], u)
       \/ AtAside(s.op[a], u) /\ s.active = u
       \/ AtRead(s.op[a]) /\ s.active = u /\ s.runtime = << >>
       \/ /\ AtOut(s.op[a]) \/ AtIn(s.op[a])
          /\ s.active = u /\ s.runtime = << >> /\ s.from[a] = u
       \/ AtVerify(s.op[a]) /\ Selected(s, u)

AtPublish(s, a, u) ==
    /\ u \in Versions /\ s.versions[u] = << >>
    /\ \E values \in Values :
         s.op[a] = <<Step("publish", u, values), LinkStep(u), AsideStep(u), ReadStep,
                     OutStep, InStep, VerifyStep>>

(* An operation that was left alone is on its way to its target, or, once  *)
(* it had to be rescued, back to what it found.                            *)
Promise(s, a) ==
    s.alone[a] /\ s.op[a] # << >> =>
      /\ \A c \in Actors \ {a} : s.op[c] = << >>
      /\ s.target[a] # NoVersion =>
           /\ s.before[a] \in Versions /\ s.versions[s.before[a]] # << >>
           /\ ~s.rescued[a] => s.rescue[a].mode # "none" /\ s.rescue[a].to = s.before[a]
           /\ s.rescued[a] => Towards(s, a, s.before[a])
           /\ ~s.rescued[a] => \/ Towards(s, a, s.target[a])
                               \/ AtPublish(s, a, s.target[a])

(* What a sweep measured last, and what was accepted of it.                *)
Elsewhere(s) == s.handmade \cup s.reused
SolvedOn(s, r, servo) ==
    r \in Elsewhere(s) \/ (r \in 1..s.revisions /\ s.basis[r] = servo)
ResultsAreOf(s) ==
    /\ s.revisions <= MaxRevisions
    /\ s.session = "head_camera" => s.progress # << >>
    /\ s.progress # << >> =>
         (s.progress[1].completed => SolvedOn(s, s.draft["head_camera"], s.progress[1].basis))
    /\ s.receipt["head_camera"] # << >> /\ s.receipt["head_camera"][1].on # NoRevision =>
         SolvedOn(s, s.receipt["head_camera"][1].result, s.receipt["head_camera"][1].on)

StoreInv(s) ==
    /\ s \in StoreRecord /\ DirectoriesWhole(s) /\ ReadsFirst(s)
    /\ (\A a \in Actors : Promise(s, a)) /\ ~s.torn /\ ResultsAreOf(s)

(* Two states of the store with the same measurements, or the same files   *)
(* and operations.                                                         *)
SameResults(s, t) ==
    /\ t.draft = s.draft /\ t.session = s.session /\ t.progress = s.progress
    /\ t.receipt = s.receipt /\ t.basis = s.basis /\ t.handmade = s.handmade
    /\ t.reused = s.reused /\ t.revisions = s.revisions
SameFiles(s, t) ==
    /\ t.versions = s.versions /\ t.active = s.active /\ t.runtime = s.runtime
    /\ t.previous = s.previous
SamePrograms(s, t) ==
    /\ t.op = s.op /\ t.rescue = s.rescue /\ t.from = s.from /\ t.alone = s.alone
    /\ t.before = s.before /\ t.target = s.target /\ t.rescued = s.rescued
    /\ t.torn = s.torn

LEMMA ResultsKept ==
  ASSUME NEW s, NEW t, ResultsAreOf(s), SameResults(s, t)
  PROVE  ResultsAreOf(t)
BY DEF ResultsAreOf, SameResults, SolvedOn, Elsewhere

LEMMA StoreKept ==
  ASSUME NEW s, NEW t, StoreInv(s), SameFiles(s, t), SamePrograms(s, t)
  PROVE  /\ DirectoriesWhole(t) /\ ReadsFirst(t) /\ (\A a \in Actors : Promise(t, a))
         /\ ~t.torn
<1>1. DirectoriesWhole(t)
  BY DEF StoreInv, DirectoriesWhole, IsRendering, SameFiles
<1>2. ReadsFirst(t)
  BY DEF StoreInv, ReadsFirst, SameFiles, SamePrograms
<1>3. ASSUME NEW a \in Actors PROVE Promise(t, a)
  BY DEF StoreInv, Promise, Towards, AtPublish, Selected, SameFiles, SamePrograms
<1> QED BY <1>1, <1>2, <1>3 DEF StoreInv, SamePrograms

(* The programs of the store, step by step.                                *)
LEMMA ValuesKnown == Imported \in Values
BY DEF Imported, Values, NoRevision

LEMMA FileStepsKnown ==
  /\ \A u \in Versions : LinkStep(u) \in FileSteps /\ AsideStep(u) \in FileSteps
  /\ ReadStep \in FileSteps /\ OutStep \in FileSteps
  /\ InStep \in FileSteps /\ VerifyStep \in FileSteps
  /\ \A u \in Versions, values \in Values : Step("publish", u, values) \in FileSteps
BY ValuesKnown, StoreAssumption
   DEF FileSteps, LinkStep, AsideStep, ReadStep, OutStep, InStep, VerifyStep, Step

LEMMA ProgramsAre ==
  ASSUME NEW u, NEW values
  PROVE  /\ Select(u) = <<LinkStep(u), AsideStep(u)>>
         /\ RenderActive = <<ReadStep, OutStep, InStep>>
         /\ Select(u) \o RenderActive
              = <<LinkStep(u), AsideStep(u), ReadStep, OutStep, InStep>>
         /\ Switch(u)
              = <<LinkStep(u), AsideStep(u), ReadStep, OutStep, InStep, VerifyStep>>
         /\ Publish(u, values) \o Switch(u)
              = <<Step("publish", u, values), LinkStep(u), AsideStep(u), ReadStep, OutStep,
                  InStep, VerifyStep>>
         /\ Publish(u, values) \o Select(u)
              = <<Step("publish", u, values), LinkStep(u), AsideStep(u)>>
         /\ Publish(u, values) \o Select(u) \o RenderActive
              = <<Step("publish", u, values), LinkStep(u), AsideStep(u), ReadStep, OutStep,
                  InStep>>
<1>1. Select(u) = <<LinkStep(u), AsideStep(u)>>
  BY DEF Select, LinkStep, AsideStep
<1>2. RenderActive = <<ReadStep, OutStep, InStep>>
  BY DEF RenderActive, ReadStep, OutStep, InStep
<1>3. VerifyRuntime = <<VerifyStep>>
  BY DEF VerifyRuntime, VerifyStep
<1>4. Publish(u, values) = <<Step("publish", u, values)>>
  BY DEF Publish
<1>5. Select(u) \o RenderActive
        = <<LinkStep(u), AsideStep(u), ReadStep, OutStep, InStep>>
  BY <1>1, <1>2, JoinedPrograms
<1>6. Switch(u)
        = <<LinkStep(u), AsideStep(u), ReadStep, OutStep, InStep, VerifyStep>>
  BY <1>3, <1>5, FiveAndOne DEF Switch
<1>7. Publish(u, values) \o Switch(u)
        = <<Step("publish", u, values), LinkStep(u), AsideStep(u), ReadStep, OutStep,
            InStep, VerifyStep>>
  BY <1>4, <1>6, OneAndSix
<1>8. Publish(u, values) \o Select(u)
        = <<Step("publish", u, values), LinkStep(u), AsideStep(u)>>
  BY <1>1, <1>4, OneAndTwo
<1>9. Publish(u, values) \o Select(u) \o RenderActive
        = <<Step("publish", u, values), LinkStep(u), AsideStep(u), ReadStep, OutStep, InStep>>
  BY <1>2, <1>8, ThreeAndThree
<1> QED BY <1>1, <1>2, <1>5, <1>6, <1>7, <1>8, <1>9

(* A program that can be begun or fallen back on.                          *)
Sound(p) == p \in Programs /\ p # << >> /\ \A from : Ordered(p, from)

LEMMA ProgramsSound ==
  ASSUME NEW u \in Versions, NEW values \in Values
  PROVE  /\ Sound(Select(u)) /\ Sound(RenderActive) /\ Sound(Select(u) \o RenderActive)
         /\ Sound(Switch(u)) /\ Sound(Publish(u, values) \o Switch(u))
         /\ Sound(Publish(u, values) \o Select(u))
         /\ Sound(Publish(u, values) \o Select(u) \o RenderActive)
<1> DEFINE p == Step("publish", u, values)
<1>1. /\ LinkStep(u) \in FileSteps /\ AsideStep(u) \in FileSteps /\ ReadStep \in FileSteps
      /\ OutStep \in FileSteps /\ InStep \in FileSteps /\ VerifyStep \in FileSteps
      /\ p \in FileSteps
  BY FileStepsKnown
<1>2. /\ LinkStep(u).do # "in" /\ AsideStep(u).do # "in" /\ ReadStep.do = "read"
      /\ OutStep.do # "in" /\ InStep.do = "in" /\ VerifyStep.do # "in" /\ p.do # "in"
  BY DEF LinkStep, AsideStep, ReadStep, OutStep, InStep, VerifyStep, Step
<1>3. Sound(Select(u))
  <2>1. Select(u) = <<LinkStep(u), AsideStep(u)>>
    BY ProgramsAre
  <2> QED BY <1>1, <1>2, <2>1 DEF Sound, Programs, Ordered
<1>4. Sound(RenderActive)
  <2>1. RenderActive = <<ReadStep, OutStep, InStep>>
    BY ProgramsAre
  <2> QED BY <1>1, <1>2, <2>1 DEF Sound, Programs, Ordered
<1>5. Sound(Select(u) \o RenderActive)
  <2>1. Select(u) \o RenderActive
          = <<LinkStep(u), AsideStep(u), ReadStep, OutStep, InStep>>
    BY ProgramsAre
  <2> QED BY <1>1, <1>2, <2>1 DEF Sound, Programs, Ordered
<1>6. Sound(Switch(u))
  <2>1. Switch(u)
          = <<LinkStep(u), AsideStep(u), ReadStep, OutStep, InStep, VerifyStep>>
    BY ProgramsAre
  <2> QED BY <1>1, <1>2, <2>1 DEF Sound, Programs, Ordered
<1>7. Sound(Publish(u, values) \o Switch(u))
  <2>1. Publish(u, values) \o Switch(u)
          = <<p, LinkStep(u), AsideStep(u), ReadStep, OutStep, InStep, VerifyStep>>
    BY ProgramsAre
  <2> QED BY <1>1, <1>2, <2>1 DEF Sound, Programs, Ordered
<1>8. Sound(Publish(u, values) \o Select(u))
  <2>1. Publish(u, values) \o Select(u) = <<p, LinkStep(u), AsideStep(u)>>
    BY ProgramsAre
  <2> QED BY <1>1, <1>2, <2>1 DEF Sound, Programs, Ordered
<1>9. Sound(Publish(u, values) \o Select(u) \o RenderActive)
  <2>1. Publish(u, values) \o Select(u) \o RenderActive
          = <<p, LinkStep(u), AsideStep(u), ReadStep, OutStep, InStep>>
    BY ProgramsAre
  <2> QED BY <1>1, <1>2, <2>1 DEF Sound, Programs, Ordered
<1> QED BY <1>3, <1>4, <1>5, <1>6, <1>7, <1>8, <1>9

(* An operation begins: nothing of the files changes yet.                  *)
LEMMA StartedFacts ==
  ASSUME StoreInv(bundle), NEW a \in Actors, NEW program \in Programs,
         NEW rescue \in Rescues, NEW v \in AnyVersion,
         bundle' = Started(a, program, rescue, v)
  PROVE  /\ bundle' \in StoreRecord /\ SameFiles(bundle, bundle')
         /\ SameResults(bundle, bundle')
         /\ bundle'.op = [bundle.op EXCEPT ![a] = program]
         /\ bundle'.rescue = [bundle.rescue EXCEPT ![a] = rescue]
         /\ bundle'.rescued = [bundle.rescued EXCEPT ![a] = FALSE]
         /\ bundle'.before = [bundle.before EXCEPT ![a] = bundle.active]
         /\ bundle'.target = [bundle.target EXCEPT ![a] = v]
         /\ bundle'.from = bundle.from /\ bundle'.torn = bundle.torn
         /\ \A b \in Actors : bundle'.alone[b] =
              (b = a /\ \A c \in Actors \ {a} : bundle.op[c] = << >>)
<1> DEFINE op == [bundle.op EXCEPT ![a] = program]
           rescues == [bundle.rescue EXCEPT ![a] = rescue]
           rescued == [bundle.rescued EXCEPT ![a] = FALSE]
           before == [bundle.before EXCEPT ![a] = bundle.active]
           target == [bundle.target EXCEPT ![a] = v]
           n == bundle.operations + 1
           alone == [b \in Actors |-> b = a /\ \A c \in Actors \ {a} : bundle.op[c] = << >>]
<1>1. bundle \in StoreRecord
  BY DEF StoreInv
<1>2. /\ op \in [Actors -> Programs] /\ rescues \in [Actors -> Rescues]
      /\ rescued \in [Actors -> BOOLEAN] /\ before \in [Actors -> AnyVersion]
      /\ target \in [Actors -> AnyVersion] /\ n \in Nat /\ alone \in [Actors -> BOOLEAN]
  <2>1. /\ bundle.op \in [Actors -> Programs] /\ bundle.rescue \in [Actors -> Rescues]
        /\ bundle.rescued \in [Actors -> BOOLEAN] /\ bundle.before \in [Actors -> AnyVersion]
        /\ bundle.target \in [Actors -> AnyVersion] /\ bundle.operations \in Nat
        /\ bundle.active \in AnyVersion
    BY <1>1 DEF StoreRecord, AnyVersion
  <2> QED BY <2>1
<1>3. bundle' = [bundle EXCEPT !.op = op, !.rescue = rescues, !.operations = n,
                               !.rescued = rescued, !.before = before, !.target = target,
                               !.alone = alone]
  BY <1>1 DEF Started, StoreRecord
<1>4. \A b \in Actors : alone[b] = (b = a /\ \A c \in Actors \ {a} : bundle.op[c] = << >>)
  OBVIOUS
<1> HIDE DEF op, rescues, rescued, before, target, n, alone
<1>5. /\ bundle'.op = op /\ bundle'.rescue = rescues /\ bundle'.rescued = rescued
      /\ bundle'.before = before /\ bundle'.target = target /\ bundle'.alone = alone
      /\ bundle'.from = bundle.from /\ bundle'.torn = bundle.torn
      /\ SameFiles(bundle, bundle') /\ SameResults(bundle, bundle')
  BY <1>1, <1>3 DEF StoreRecord, SameFiles, SameResults
<1>6. bundle' \in StoreRecord
  <2> DEFINE s == [bundle EXCEPT !.op = op, !.rescue = rescues, !.operations = n,
                                 !.rescued = rescued]
  <2>1. s \in StoreRecord
    BY <1>1, <1>2 DEF StoreRecord
  <2>2. bundle' = [s EXCEPT !.before = before, !.target = target, !.alone = alone]
    BY <1>1, <1>3 DEF StoreRecord
  <2> HIDE DEF s
  <2>3. [s EXCEPT !.before = before, !.target = target, !.alone = alone] \in StoreRecord
    BY <1>2, <2>1 DEF StoreRecord
  <2> QED BY <2>2, <2>3
<1> QED BY <1>4, <1>5, <1>6 DEF op, rescues, rescued, before, target

LEMMA StartedSound ==
  ASSUME StoreInv(bundle), NEW a \in Actors, NEW program, Sound(program),
         NEW rescue \in Rescues, NEW v \in AnyVersion,
         bundle.op[a] = << >>, bundle' = Started(a, program, rescue, v),
         v # NoVersion =>
           /\ rescue.mode # "none" /\ rescue.to = bundle.active
           /\ \/ bundle.versions[v] # << >> /\ AtLink(program, v)
              \/ /\ bundle.versions[v] = << >>
                 /\ \E values \in Values :
                      program = <<Step("publish", v, values), LinkStep(v), AsideStep(v),
                                  ReadStep, OutStep, InStep, VerifyStep>>
  PROVE  StoreInv(bundle')
<1>1. /\ bundle' \in StoreRecord /\ SameFiles(bundle, bundle')
      /\ SameResults(bundle, bundle')
      /\ bundle'.op = [bundle.op EXCEPT ![a] = program]
      /\ bundle'.rescue = [bundle.rescue EXCEPT ![a] = rescue]
      /\ bundle'.rescued = [bundle.rescued EXCEPT ![a] = FALSE]
      /\ bundle'.before = [bundle.before EXCEPT ![a] = bundle.active]
      /\ bundle'.target = [bundle.target EXCEPT ![a] = v]
      /\ bundle'.from = bundle.from /\ bundle'.torn = bundle.torn
      /\ \A b \in Actors : bundle'.alone[b] =
           (b = a /\ \A c \in Actors \ {a} : bundle.op[c] = << >>)
  BY StartedFacts DEF Sound
<1>2. /\ bundle.op \in [Actors -> Programs] /\ bundle.rescue \in [Actors -> Rescues]
      /\ bundle.rescued \in [Actors -> BOOLEAN] /\ bundle.before \in [Actors -> AnyVersion]
      /\ bundle.target \in [Actors -> AnyVersion] /\ bundle.active \in Versions
  BY DEF StoreInv, StoreRecord
<1>3. /\ bundle'.op[a] = program /\ bundle'.rescue[a] = rescue
      /\ bundle'.rescued[a] = FALSE /\ bundle'.before[a] = bundle.active
      /\ bundle'.target[a] = v
      /\ \A c \in Actors \ {a} : bundle'.op[c] = bundle.op[c]
  BY <1>1, <1>2
<1>4. bundle'.versions = bundle.versions /\ bundle'.active = bundle.active
  BY <1>1 DEF SameFiles
<1>5. DirectoriesWhole(bundle')
  BY <1>1 DEF StoreInv, DirectoriesWhole, IsRendering, SameFiles
<1>6. ReadsFirst(bundle')
  <2> SUFFICES ASSUME NEW c \in Actors
               PROVE  /\ bundle'.from[c] # NoVersion => bundle'.versions[bundle'.from[c]] # << >>
                      /\ Ordered(bundle'.op[c], bundle'.from[c])
    BY DEF ReadsFirst
  <2>1. /\ bundle.from[c] # NoVersion => bundle.versions[bundle.from[c]] # << >>
        /\ Ordered(bundle.op[c], bundle.from[c])
    BY DEF StoreInv, ReadsFirst
  <2>2. Ordered(bundle'.op[c], bundle'.from[c])
    BY <1>1, <1>3, <2>1 DEF Sound
  <2> QED BY <1>1, <1>4, <2>1, <2>2
<1>7. ASSUME NEW c \in Actors PROVE Promise(bundle', c)
  <2>1. CASE c # a
    BY <1>1, <2>1 DEF Promise
  <2>2. CASE c = a
    <3> SUFFICES ASSUME bundle'.alone[a]
                 PROVE  /\ \A d \in Actors \ {a} : bundle'.op[d] = << >>
                        /\ v # NoVersion =>
                             /\ bundle.active \in Versions
                             /\ bundle.versions[bundle.active] # << >>
                             /\ rescue.mode # "none" /\ rescue.to = bundle.active
                             /\ Towards(bundle', a, v) \/ AtPublish(bundle', a, v)
      BY <1>3, <1>4, <2>2 DEF Promise
    <3>1. \A d \in Actors \ {a} : bundle'.op[d] = << >>
      <4>1. \A d \in Actors \ {a} : bundle.op[d] = << >>
        BY <1>1
      <4> QED BY <1>3, <4>1
    <3>2. bundle.versions[bundle.active] # << >>
      BY DEF StoreInv, DirectoriesWhole
    <3>3. ASSUME v # NoVersion PROVE Towards(bundle', a, v) \/ AtPublish(bundle', a, v)
      BY <1>3, <1>4, <3>3 DEF Towards, AtPublish, AnyVersion
    <3> QED BY <1>2, <3>1, <3>2, <3>3
  <2> QED BY <2>1, <2>2
<1>8. ResultsAreOf(bundle')
  BY <1>1, ResultsKept DEF StoreInv
<1> QED BY <1>1, <1>5, <1>6, <1>7, <1>8 DEF StoreInv

LEMMA BeginningsSound ==
  ASSUME StoreInv(bundle), NEW a \in Actors, Operation(a) \/ CommandLine
  PROVE  StoreInv(bundle')
<1>1. /\ bundle \in StoreRecord /\ bundle.active \in Versions /\ bundle.draft \in Values
      /\ bundle.runtime \in Maybe(Rendering) /\ NoVersion \in AnyVersion
      /\ Versions \subseteq AnyVersion /\ bundle.versions \in [Versions -> Maybe(Values)]
  BY DEF StoreInv, StoreRecord, AnyVersion
<1>2. bundle.active # NoVersion
  BY <1>1, StoreAssumption DEF NoVersion
<1>3. NoRescue \in Rescues /\ SwitchBack \in Rescues
  BY <1>1, <1>2 DEF NoRescue, SwitchBack, Rescues, AnyVersion
<1>4. SwitchBack.mode # "none" /\ SwitchBack.to = bundle.active
  BY <1>2 DEF SwitchBack
<1>5. \A v \in Versions : Exists(v) <=> bundle.versions[v] # << >>
  BY StoreAssumption DEF Exists, NoVersion
<1>6. CASE ReplaceFromDraft(a)
  <2>1. PICK v \in Versions, names \in SUBSET Components \ {{}} :
          /\ Idle(a) /\ Verifies /\ ~Exists(v)
          /\ bundle' = Started(a,
               Publish(v, [c \in Components |-> IF c \in names THEN bundle.draft[c]
                                                ELSE bundle.runtime[1].values[c]])
                 \o Switch(v),
               [mode |-> "switch", to |-> bundle.active], v)
    BY <1>6 DEF ReplaceFromDraft
  <2> DEFINE values == [c \in Components |-> IF c \in names THEN bundle.draft[c]
                                             ELSE bundle.runtime[1].values[c]]
             rescue == [mode |-> "switch", to |-> bundle.active]
             program == Publish(v, values) \o Switch(v)
  <2>2. bundle.op[a] = << >> /\ bundle.versions[v] = << >>
    BY <1>5, <2>1 DEF Idle
  <2>3. values \in Values
    <3>1. bundle.runtime[1].values \in Values
      BY <1>1, <2>1 DEF Verifies, Maybe, Rendering
    <3> QED BY <1>1, <3>1 DEF Values
  <2>4. rescue \in Rescues /\ rescue.mode # "none" /\ rescue.to = bundle.active
    BY <1>1 DEF Rescues
  <2>5. bundle' = Started(a, program, rescue, v)
    BY <2>1
  <2> HIDE DEF values, rescue
  <2>6. program = <<Step("publish", v, values), LinkStep(v), AsideStep(v),
                    ReadStep, OutStep, InStep, VerifyStep>>
    BY ProgramsAre
  <2>7. Sound(program)
    BY <2>3, ProgramsSound
  <2> HIDE DEF program
  <2>8. v \in AnyVersion
    BY <1>1
  <2>9. \E vals \in Values :
          program = <<Step("publish", v, vals), LinkStep(v), AsideStep(v),
                      ReadStep, OutStep, InStep, VerifyStep>>
    BY <2>3, <2>6
  <2> QED BY <2>2, <2>4, <2>5, <2>7, <2>8, <2>9, StartedSound
<1>7. CASE SwitchTo(a)
  <2>1. PICK v \in Versions : /\ Idle(a) /\ Exists(v)
                              /\ bundle' = Started(a, Switch(v), SwitchBack, v)
    BY <1>7 DEF SwitchTo
  <2>2. bundle.op[a] = << >> /\ bundle.versions[v] # << >>
    BY <1>5, <2>1 DEF Idle
  <2>3. Sound(Switch(v))
    BY ProgramsSound, ValuesKnown
  <2>4. AtLink(Switch(v), v)
    BY ProgramsAre DEF AtLink
  <2>5. v \in AnyVersion
    BY <1>1
  <2> QED BY <1>3, <1>4, <2>1, <2>2, <2>3, <2>4, <2>5, StartedSound
<1>8. ASSUME NEW b \in Actors, NEW program, bundle.op[b] = << >>, Sound(program),
             bundle' = Started(b, program, NoRescue, NoVersion)
      PROVE  StoreInv(bundle')
  BY <1>1, <1>3, <1>8, StartedSound
<1>9. CASE Activate(a)
  <2>1. PICK v \in Versions :
          /\ Idle(a)
          /\ bundle' = Started(a, Publish(v, bundle.draft) \o Select(v)
                                    \o IF a = "web" THEN RenderActive ELSE << >>,
                               NoRescue, NoVersion)
    BY <1>9 DEF Activate
  <2>2. Sound(Publish(v, bundle.draft) \o Select(v))
        /\ Sound(Publish(v, bundle.draft) \o Select(v) \o RenderActive)
    BY <1>1, ProgramsSound
  <2>3. Publish(v, bundle.draft) \o Select(v) \o << >> = Publish(v, bundle.draft) \o Select(v)
    BY <2>2, ConcatEmptySeq DEF Sound, Programs
  <2>4. bundle.op[a] = << >>
    BY <2>1 DEF Idle
  <2>5. CASE a = "web"
    BY <1>8, <2>1, <2>2, <2>4, <2>5
  <2>6. CASE a # "web"
    BY <1>8, <2>1, <2>2, <2>3, <2>4, <2>6
  <2> QED BY <2>5, <2>6
<1>10. CASE CommandLine
  <2>1. "cli" \in Actors
    BY DEF Actors
  <2>2. CASE ImportRuntime
    <3>1. PICK v \in Versions :
            /\ Idle("cli")
            /\ bundle' = Started("cli", Publish(v, Imported) \o Select(v) \o RenderActive,
                                 NoRescue, NoVersion)
      BY <2>2 DEF ImportRuntime
    <3>2. Sound(Publish(v, Imported) \o Select(v) \o RenderActive)
      BY ProgramsSound, ValuesKnown
    <3>3. bundle.op["cli"] = << >>
      BY <3>1 DEF Idle
    <3> QED BY <1>8, <2>1, <3>1, <3>2, <3>3
  <2>3. CASE Rollback
    <3>1. PICK v \in Versions :
            Idle("cli") /\ bundle' = Started("cli", Select(v), NoRescue, NoVersion)
      BY <2>3 DEF Rollback
    <3>2. Sound(Select(v))
      BY ProgramsSound, ValuesKnown
    <3>3. bundle.op["cli"] = << >>
      BY <3>1 DEF Idle
    <3> QED BY <1>8, <2>1, <3>1, <3>2, <3>3
  <2>4. CASE Idle("cli") /\ bundle' = Started("cli", RenderActive, NoRescue, NoVersion)
    <3>1. Sound(RenderActive)
      BY ProgramsSound, ValuesKnown, StoreAssumption
    <3>2. bundle.op["cli"] = << >>
      BY <2>4 DEF Idle
    <3> QED BY <1>8, <2>1, <2>4, <3>1, <3>2
  <2> QED BY <1>10, <2>2, <2>3, <2>4 DEF CommandLine
<1> QED BY <1>6, <1>7, <1>9, <1>10 DEF Operation

(* One file step, and what it does to the files.                           *)
Becomes(a, step, b) ==
    \/ /\ step.do = "publish" /\ ~Exists(step.v)
       /\ b = [bundle EXCEPT !.versions[step.v] = <<step.values>>]
    \/ step.do = "link" /\ Exists(step.v) /\ b = [bundle EXCEPT !.active = step.v]
    \/ step.do = "aside" /\ b = Aside(bundle)
    \/ /\ step.do = "read" /\ Exists(bundle.active)
       /\ b = [bundle EXCEPT !.from[a] = bundle.active]
    \/ step.do = "out" /\ b = Aside([bundle EXCEPT !.previous = << >>])
    \/ /\ step.do = "in" /\ bundle.runtime = << >>
       /\ b = [bundle EXCEPT !.previous = << >>, !.runtime = Rendered(bundle.from[a])]
    \/ step.do = "verify" /\ Verifies /\ b = bundle

LEMMA DoneCases ==
  ASSUME NEW a, NEW step \in FileSteps, NEW b
  PROVE  b \in Done(a, step) <=> Becomes(a, step, b)
<1>1. step.do \in {"publish", "link", "aside", "read", "out", "in", "verify"}
  BY DEF FileSteps
<1> HIDE DEF Exists, Aside, Rendered, Verifies
<1>2. CASE step.do = "publish" BY <1>2 DEF Done, Becomes
<1>3. CASE step.do = "link" BY <1>3 DEF Done, Becomes
<1>4. CASE step.do = "aside" BY <1>4 DEF Done, Becomes
<1>5. CASE step.do = "read" BY <1>5 DEF Done, Becomes
<1>6. CASE step.do = "out" BY <1>6 DEF Done, Becomes
<1>7. CASE step.do = "in" BY <1>7 DEF Done, Becomes
<1>8. CASE step.do = "verify" BY <1>8 DEF Done, Becomes
<1> QED BY <1>1, <1>2, <1>3, <1>4, <1>5, <1>6, <1>7, <1>8

LEMMA AsideFacts ==
  ASSUME NEW s \in StoreRecord
  PROVE  /\ Aside(s) \in StoreRecord /\ Aside(s).runtime = << >>
         /\ Aside(s).previous = IF s.runtime = << >> THEN s.previous ELSE s.runtime
         /\ Aside(s).versions = s.versions /\ Aside(s).active = s.active
         /\ SameResults(s, Aside(s)) /\ SamePrograms(s, Aside(s))
<1>1. CASE s.runtime = << >>
  BY <1>1 DEF Aside, SameResults, SamePrograms
<1>2. CASE s.runtime # << >>
  <2>1. Aside(s) = [s EXCEPT !.previous = s.runtime, !.runtime = << >>]
    BY <1>2 DEF Aside
  <2>2. << >> \in Maybe(Rendering) /\ s.runtime \in Maybe(Rendering)
    BY DEF StoreRecord, Maybe
  <2>3. [s EXCEPT !.previous = s.runtime, !.runtime = << >>] \in StoreRecord
    BY <2>2 DEF StoreRecord
  <2> QED BY SMTT(20), <1>2, <2>1, <2>3
        DEF StoreRecord, SameResults, SamePrograms
<1> QED BY <1>1, <1>2

(* Everything of the operations but what was read.                         *)
SameAims(s, t) ==
    /\ t.op = s.op /\ t.rescue = s.rescue /\ t.alone = s.alone /\ t.before = s.before
    /\ t.target = s.target /\ t.rescued = s.rescued /\ t.torn = s.torn

LEMMA DoneFacts ==
  ASSUME StoreInv(bundle), NEW a \in Actors, bundle.op[a] # << >>,
         NEW b \in Done(a, Head(bundle.op[a]))
  PROVE  /\ b \in StoreRecord /\ DirectoriesWhole(b)
         /\ SameResults(bundle, b) /\ SameAims(bundle, b)
         /\ \A v \in Versions : bundle.versions[v] # << >> => b.versions[v] # << >>
         /\ b.from = IF Head(bundle.op[a]).do = "read"
                     THEN [bundle.from EXCEPT ![a] = bundle.active] ELSE bundle.from
<1> DEFINE op == bundle.op[a]
           step == Head(op)
<1>1. /\ bundle \in StoreRecord /\ bundle.active \in Versions
      /\ bundle.from \in [Actors -> AnyVersion] /\ bundle.op \in [Actors -> Programs]
      /\ bundle.versions \in [Versions -> Maybe(Values)]
      /\ bundle.runtime \in Maybe(Rendering) /\ bundle.previous \in Maybe(Rendering)
  BY DEF StoreInv, StoreRecord
<1>2. op \in Programs
  BY <1>1
<1>3. step \in FileSteps
  BY <1>2, HeadTailProperties DEF Programs
<1>4. step = op[1] /\ 1 \in 1..Len(op)
  BY <1>2, EmptySeq, LenProperties DEF Programs
<1>5. /\ DirectoriesWhole(bundle)
      /\ bundle.from[a] # NoVersion => bundle.versions[bundle.from[a]] # << >>
      /\ Ordered(op, bundle.from[a])
  BY DEF StoreInv, ReadsFirst
<1>6. step.do = "in" => /\ bundle.from[a] \in Versions
                        /\ bundle.versions[bundle.from[a]] # << >>
  BY <1>1, <1>4, <1>5 DEF Ordered, AnyVersion
<1>7. /\ step.do \in {"publish", "link", "aside", "read", "out", "in", "verify"}
      /\ step.do \in {"publish", "link"} => step.v \in Versions
      /\ step.values \in Values
  BY <1>3 DEF FileSteps
<1> HIDE DEF op, step
<1>8. b \in Done(a, step)
  BY DEF op, step
<1>91. Becomes(a, step, b)
  BY <1>3, <1>8, DoneCases
<1>9. CASE step.do = "publish"
  <2>1. ~Exists(step.v) /\ b = [bundle EXCEPT !.versions[step.v] = <<step.values>>]
    BY <1>91, <1>9 DEF Becomes
  <2> DEFINE versions == [bundle.versions EXCEPT ![step.v] = <<step.values>>]
  <2>2. versions \in [Versions -> Maybe(Values)]
    BY <1>1, <1>7 DEF Maybe
  <2>3. \A v \in Versions : bundle.versions[v] # << >> => versions[v] = bundle.versions[v]
    BY <1>1, <1>7, <1>9, <2>1, StoreAssumption DEF Exists, NoVersion
  <2>4. b = [bundle EXCEPT !.versions = versions]
    BY <1>1, <2>1 DEF StoreRecord
  <2> HIDE DEF versions
  <2>5. /\ b \in StoreRecord /\ b.versions = versions /\ b.active = bundle.active
        /\ b.runtime = bundle.runtime /\ b.previous = bundle.previous
        /\ b.from = bundle.from /\ SameResults(bundle, b) /\ SameAims(bundle, b)
    BY <1>1, <2>2, <2>4 DEF StoreRecord, SameResults, SameAims
  <2>6. DirectoriesWhole(b)
    BY <1>1, <1>5, <2>3, <2>5 DEF DirectoriesWhole, IsRendering, Maybe, Rendering
  <2> QED BY <1>9, <2>3, <2>5, <2>6 DEF step, op
<1>10. CASE step.do = "link"
  <2>1. Exists(step.v) /\ b = [bundle EXCEPT !.active = step.v]
    BY <1>91, <1>10 DEF Becomes
  <2>2. bundle.versions[step.v] # << >>
    BY <2>1 DEF Exists
  <2>3. /\ b \in StoreRecord /\ b.versions = bundle.versions /\ b.active = step.v
        /\ b.runtime = bundle.runtime /\ b.previous = bundle.previous
        /\ b.from = bundle.from /\ SameResults(bundle, b) /\ SameAims(bundle, b)
    BY <1>1, <1>7, <1>10, <2>1 DEF StoreRecord, SameResults, SameAims
  <2>4. DirectoriesWhole(b)
    BY <1>5, <2>2, <2>3 DEF DirectoriesWhole, IsRendering
  <2> QED BY <1>10, <2>3, <2>4 DEF step, op
<1>11. CASE step.do = "aside"
  <2>1. b = Aside(bundle)
    BY <1>91, <1>11 DEF Becomes
  <2>2. /\ b \in StoreRecord /\ b.versions = bundle.versions /\ b.active = bundle.active
        /\ b.runtime = << >>
        /\ b.previous = IF bundle.runtime = << >> THEN bundle.previous ELSE bundle.runtime
        /\ b.from = bundle.from /\ SameResults(bundle, b) /\ SameAims(bundle, b)
    BY <1>1, <2>1, AsideFacts DEF SamePrograms, SameAims
  <2>3. DirectoriesWhole(b)
    BY <1>5, <2>2 DEF DirectoriesWhole, IsRendering
  <2> QED BY <1>11, <2>2, <2>3 DEF step, op
<1>12. CASE step.do = "read"
  <2>1. b = [bundle EXCEPT !.from[a] = bundle.active]
    BY <1>91, <1>12 DEF Becomes
  <2> DEFINE from == [bundle.from EXCEPT ![a] = bundle.active]
  <2>2. from \in [Actors -> AnyVersion]
    BY <1>1 DEF AnyVersion
  <2>3. b = [bundle EXCEPT !.from = from]
    BY <1>1, <2>1 DEF StoreRecord
  <2> HIDE DEF from
  <2>4. /\ b \in StoreRecord /\ b.versions = bundle.versions /\ b.active = bundle.active
        /\ b.runtime = bundle.runtime /\ b.previous = bundle.previous
        /\ b.from = from /\ SameResults(bundle, b) /\ SameAims(bundle, b)
    BY <1>1, <2>2, <2>3 DEF StoreRecord, SameResults, SameAims
  <2>5. DirectoriesWhole(b)
    BY <1>5, <2>4 DEF DirectoriesWhole, IsRendering
  <2> QED BY <1>12, <2>4, <2>5 DEF step, op, from
<1>13. CASE step.do = "out"
  <2> DEFINE s == [bundle EXCEPT !.previous = << >>]
  <2>1. b = Aside(s)
    BY <1>91, <1>13 DEF Becomes
  <2>2. << >> \in Maybe(Rendering)
    BY DEF Maybe
  <2>3. /\ s \in StoreRecord /\ s.versions = bundle.versions /\ s.active = bundle.active
        /\ s.runtime = bundle.runtime /\ s.previous = << >> /\ s.from = bundle.from
        /\ SameResults(bundle, s) /\ SameAims(bundle, s)
    BY <1>1, <2>2 DEF StoreRecord, SameResults, SameAims
  <2> HIDE DEF s
  <2>4. /\ b \in StoreRecord /\ b.versions = s.versions /\ b.active = s.active
        /\ b.runtime = << >>
        /\ b.previous = IF s.runtime = << >> THEN s.previous ELSE s.runtime
        /\ SameResults(s, b) /\ SamePrograms(s, b)
    BY <2>1, <2>3, AsideFacts
  <2>5. DirectoriesWhole(b)
    BY <1>5, <2>3, <2>4 DEF DirectoriesWhole, IsRendering
  <2>6. b.from = bundle.from /\ SameResults(bundle, b) /\ SameAims(bundle, b)
    BY <2>3, <2>4 DEF SameResults, SameAims, SamePrograms
  <2> QED BY <1>13, <2>3, <2>4, <2>5, <2>6 DEF step, op
<1>14. CASE step.do = "in"
  <2> DEFINE r == Rendered(bundle.from[a])
  <2>1. b = [bundle EXCEPT !.previous = << >>, !.runtime = r]
    BY <1>91, <1>14 DEF Becomes
  <2>2. bundle.versions[bundle.from[a]][1] \in Values
    BY <1>1, <1>6, <1>14 DEF Maybe
  <2>3. /\ r \in Maybe(Rendering) /\ << >> \in Maybe(Rendering)
        /\ r # << >> /\ r[1].of = bundle.from[a]
        /\ r[1].values = bundle.versions[bundle.from[a]][1]
    BY <1>6, <1>14, <2>2 DEF Rendered, Maybe, Rendering
  <2> HIDE DEF r
  <2>4. /\ b \in StoreRecord /\ b.versions = bundle.versions /\ b.active = bundle.active
        /\ b.runtime = r /\ b.previous = << >>
        /\ b.from = bundle.from /\ SameResults(bundle, b) /\ SameAims(bundle, b)
    BY <1>1, <2>1, <2>3 DEF StoreRecord, SameResults, SameAims
  <2>5. DirectoriesWhole(b)
    BY <1>5, <1>6, <1>14, <2>3, <2>4 DEF DirectoriesWhole, IsRendering
  <2> QED BY <1>14, <2>4, <2>5 DEF step, op
<1>15. CASE step.do = "verify"
  <2>1. b = bundle
    BY <1>91, <1>15 DEF Becomes
  <2> QED BY <1>1, <1>5, <1>15, <2>1 DEF SameResults, SameAims, step, op
<1> QED BY <1>7, <1>9, <1>10, <1>11, <1>12, <1>13, <1>14, <1>15

(* The end of an operation.                                                *)
LEMMA FinishedFacts ==
  ASSUME NEW a \in Actors, NEW t \in StoreRecord
  PROVE  /\ t.op[a] # << >> => Finished(a, t) = t
         /\ t.op[a] = << >> =>
              /\ Finished(a, t) \in StoreRecord /\ SameFiles(t, Finished(a, t))
              /\ SameResults(t, Finished(a, t))
              /\ Finished(a, t).op = t.op /\ Finished(a, t).alone = t.alone
              /\ \A c \in Actors \ {a} :
                   /\ Finished(a, t).rescue[c] = t.rescue[c]
                   /\ Finished(a, t).from[c] = t.from[c]
                   /\ Finished(a, t).rescued[c] = t.rescued[c]
                   /\ Finished(a, t).before[c] = t.before[c]
                   /\ Finished(a, t).target[c] = t.target[c]
              /\ Finished(a, t).from[a] = NoVersion
              /\ (t.alone[a] /\ t.target[a] # NoVersion => Whole(a, t))
                 => Finished(a, t).torn = t.torn
<1>1. t.op[a] # << >> => Finished(a, t) = t
  BY DEF Finished
<1>2. ASSUME t.op[a] = << >>
      PROVE  /\ Finished(a, t) \in StoreRecord /\ SameFiles(t, Finished(a, t))
             /\ SameResults(t, Finished(a, t))
             /\ Finished(a, t).op = t.op /\ Finished(a, t).alone = t.alone
             /\ \A c \in Actors \ {a} :
                  /\ Finished(a, t).rescue[c] = t.rescue[c]
                  /\ Finished(a, t).from[c] = t.from[c]
                  /\ Finished(a, t).rescued[c] = t.rescued[c]
                  /\ Finished(a, t).before[c] = t.before[c]
                  /\ Finished(a, t).target[c] = t.target[c]
             /\ Finished(a, t).from[a] = NoVersion
             /\ (t.alone[a] /\ t.target[a] # NoVersion => Whole(a, t))
                => Finished(a, t).torn = t.torn
  <2> DEFINE torn == t.torn \/ (t.alone[a] /\ t.target[a] # NoVersion /\ ~Whole(a, t))
             rescue == [t.rescue EXCEPT ![a] = NoRescue]
             from == [t.from EXCEPT ![a] = NoVersion]
             rescued == [t.rescued EXCEPT ![a] = FALSE]
             before == [t.before EXCEPT ![a] = NoVersion]
             target == [t.target EXCEPT ![a] = NoVersion]
             u == [t EXCEPT !.torn = torn, !.rescue = rescue, !.from = from]
             v == [u EXCEPT !.rescued = rescued, !.before = before, !.target = target]
  <2>1. /\ t.torn \in BOOLEAN /\ t.rescue \in [Actors -> Rescues]
        /\ t.from \in [Actors -> AnyVersion] /\ t.rescued \in [Actors -> BOOLEAN]
        /\ t.before \in [Actors -> AnyVersion] /\ t.target \in [Actors -> AnyVersion]
        /\ NoVersion \in AnyVersion /\ NoRescue \in Rescues
    BY DEF StoreRecord, AnyVersion, Rescues, NoRescue
  <2>2. /\ torn \in BOOLEAN /\ rescue \in [Actors -> Rescues]
        /\ from \in [Actors -> AnyVersion] /\ rescued \in [Actors -> BOOLEAN]
        /\ before \in [Actors -> AnyVersion] /\ target \in [Actors -> AnyVersion]
    BY <2>1
  <2>3. Finished(a, t) = v
    BY <1>2 DEF Finished, StoreRecord
  <2>4. /\ \A c \in Actors \ {a} :
             /\ rescue[c] = t.rescue[c] /\ from[c] = t.from[c]
             /\ rescued[c] = t.rescued[c] /\ before[c] = t.before[c]
             /\ target[c] = t.target[c]
        /\ from[a] = NoVersion
    BY <2>1
  <2>5. (t.alone[a] /\ t.target[a] # NoVersion => Whole(a, t)) => torn = t.torn
    BY <2>1
  <2> HIDE DEF torn, rescue, from, rescued, before, target
  <2>6. u \in StoreRecord
    BY <2>2 DEF StoreRecord
  <2>7. /\ SameFiles(t, u) /\ SameResults(t, u) /\ u.op = t.op /\ u.alone = t.alone
        /\ u.torn = torn /\ u.rescue = rescue /\ u.from = from
    BY DEF StoreRecord, SameFiles, SameResults
  <2> HIDE DEF u
  <2>8. v \in StoreRecord
    BY <2>2, <2>6 DEF StoreRecord
  <2>9. /\ SameFiles(u, v) /\ SameResults(u, v) /\ v.op = u.op /\ v.alone = u.alone
        /\ v.torn = u.torn /\ v.rescue = u.rescue /\ v.from = u.from
        /\ v.rescued = rescued /\ v.before = before /\ v.target = target
    BY <2>6 DEF StoreRecord, SameFiles, SameResults
  <2> HIDE DEF v
  <2>10. SameFiles(t, v) /\ SameResults(t, v)
    BY <2>7, <2>9 DEF SameFiles, SameResults
  <2> QED BY <2>3, <2>4, <2>5, <2>7, <2>8, <2>9, <2>10
<1> QED BY <1>1, <1>2

LEMMA FinishedSound ==
  ASSUME NEW a \in Actors, NEW t \in StoreRecord, bundle' = Finished(a, t),
         DirectoriesWhole(t), ReadsFirst(t), \A c \in Actors : Promise(t, c), ~t.torn,
         ResultsAreOf(t),
         t.op[a] = << >> => (t.alone[a] /\ t.target[a] # NoVersion => Whole(a, t))
  PROVE  StoreInv(bundle')
<1>1. CASE t.op[a] # << >>
  BY <1>1, FinishedFacts DEF StoreInv
<1>2. CASE t.op[a] = << >>
  <2>1. /\ bundle' \in StoreRecord /\ SameFiles(t, bundle') /\ SameResults(t, bundle')
        /\ bundle'.op = t.op /\ bundle'.alone = t.alone
        /\ \A c \in Actors \ {a} :
             /\ bundle'.rescue[c] = t.rescue[c] /\ bundle'.from[c] = t.from[c]
             /\ bundle'.rescued[c] = t.rescued[c] /\ bundle'.before[c] = t.before[c]
             /\ bundle'.target[c] = t.target[c]
        /\ bundle'.from[a] = NoVersion
    BY <1>2, FinishedFacts
  <2>6. bundle'.torn = t.torn
    BY <1>2, FinishedFacts
  <2>2. DirectoriesWhole(bundle')
    BY <2>1 DEF DirectoriesWhole, IsRendering, SameFiles
  <2>3. ReadsFirst(bundle')
    <3> SUFFICES ASSUME NEW c \in Actors
                 PROVE  /\ bundle'.from[c] # NoVersion =>
                             bundle'.versions[bundle'.from[c]] # << >>
                        /\ Ordered(bundle'.op[c], bundle'.from[c])
      BY DEF ReadsFirst
    <3>1. CASE c = a
      <4>1. Ordered(<< >>, NoVersion)
        BY DEF Ordered
      <4> QED BY <1>2, <2>1, <3>1, <4>1
    <3>2. CASE c # a
      BY <2>1, <3>2 DEF ReadsFirst, SameFiles
    <3> QED BY <3>1, <3>2
  <2>4. ASSUME NEW c \in Actors PROVE Promise(bundle', c)
    <3>1. CASE c = a
      BY <1>2, <2>1, <3>1 DEF Promise
    <3>2. CASE c # a
      BY <2>1, <3>2 DEF Promise, Towards, AtPublish, Selected, SameFiles
    <3> QED BY <3>1, <3>2
  <2>5. ResultsAreOf(bundle')
    BY <2>1, ResultsKept
  <2> QED BY <2>1, <2>2, <2>3, <2>4, <2>5, <2>6 DEF StoreInv
<1> QED BY <1>1, <1>2

LEMMA StepsAre ==
  \A u : /\ LinkStep(u).do = "link" /\ LinkStep(u).v = u /\ AsideStep(u).do = "aside"
         /\ ReadStep.do = "read" /\ OutStep.do = "out" /\ InStep.do = "in"
         /\ VerifyStep.do = "verify"
BY DEF LinkStep, AsideStep, ReadStep, OutStep, InStep, VerifyStep, Step

(* What comes next, and what is left after it.                             *)
LEMMA HeadsAre ==
  ASSUME NEW op, NEW u
  PROVE  /\ AtLink(op, u) => op # << >> /\ Head(op) = LinkStep(u) /\ AtAside(Tail(op), u)
         /\ AtAside(op, u) => op # << >> /\ Head(op) = AsideStep(u) /\ AtRead(Tail(op))
         /\ AtRead(op) => op # << >> /\ Head(op) = ReadStep /\ AtOut(Tail(op))
         /\ AtOut(op) => op # << >> /\ Head(op) = OutStep /\ AtIn(Tail(op))
         /\ AtIn(op) => /\ op # << >> /\ Head(op) = InStep
                        /\ Tail(op) = << >> \/ AtVerify(Tail(op))
         /\ AtVerify(op) => op # << >> /\ Head(op) = VerifyStep /\ Tail(op) = << >>
<1>1. ASSUME AtLink(op, u) PROVE op # << >> /\ Head(op) = LinkStep(u) /\ AtAside(Tail(op), u)
  <2>1. CASE op = <<LinkStep(u), AsideStep(u), ReadStep, OutStep, InStep>>
    <3>1. op # << >> /\ Head(op) = LinkStep(u) /\ Tail(op) = <<AsideStep(u), ReadStep, OutStep, InStep>>
      BY <2>1, TailOfProgram
    <3> QED BY <3>1 DEF AtAside
  <2>2. CASE op = <<LinkStep(u), AsideStep(u), ReadStep, OutStep, InStep, VerifyStep>>
    <3>1. op # << >> /\ Head(op) = LinkStep(u) /\ Tail(op) = <<AsideStep(u), ReadStep, OutStep, InStep, VerifyStep>>
      BY <2>2, TailOfProgram
    <3> QED BY <3>1 DEF AtAside
  <2> QED BY <1>1, <2>1, <2>2 DEF AtLink
<1>2. ASSUME AtAside(op, u) PROVE op # << >> /\ Head(op) = AsideStep(u) /\ AtRead(Tail(op))
  <2>1. CASE op = <<AsideStep(u), ReadStep, OutStep, InStep>>
    <3>1. op # << >> /\ Head(op) = AsideStep(u) /\ Tail(op) = <<ReadStep, OutStep, InStep>>
      BY <2>1, TailOfProgram
    <3> QED BY <3>1 DEF AtRead
  <2>2. CASE op = <<AsideStep(u), ReadStep, OutStep, InStep, VerifyStep>>
    <3>1. op # << >> /\ Head(op) = AsideStep(u) /\ Tail(op) = <<ReadStep, OutStep, InStep, VerifyStep>>
      BY <2>2, TailOfProgram
    <3> QED BY <3>1 DEF AtRead
  <2> QED BY <1>2, <2>1, <2>2 DEF AtAside
<1>3. ASSUME AtRead(op) PROVE op # << >> /\ Head(op) = ReadStep /\ AtOut(Tail(op))
  <2>1. CASE op = <<ReadStep, OutStep, InStep>>
    <3>1. op # << >> /\ Head(op) = ReadStep /\ Tail(op) = <<OutStep, InStep>>
      BY <2>1, TailOfProgram
    <3> QED BY <3>1 DEF AtOut
  <2>2. CASE op = <<ReadStep, OutStep, InStep, VerifyStep>>
    <3>1. op # << >> /\ Head(op) = ReadStep /\ Tail(op) = <<OutStep, InStep, VerifyStep>>
      BY <2>2, TailOfProgram
    <3> QED BY <3>1 DEF AtOut
  <2> QED BY <1>3, <2>1, <2>2 DEF AtRead
<1>4. ASSUME AtOut(op) PROVE op # << >> /\ Head(op) = OutStep /\ AtIn(Tail(op))
  <2>1. CASE op = <<OutStep, InStep>>
    <3>1. op # << >> /\ Head(op) = OutStep /\ Tail(op) = <<InStep>>
      BY <2>1, TailOfProgram
    <3> QED BY <3>1 DEF AtIn
  <2>2. CASE op = <<OutStep, InStep, VerifyStep>>
    <3>1. op # << >> /\ Head(op) = OutStep /\ Tail(op) = <<InStep, VerifyStep>>
      BY <2>2, TailOfProgram
    <3> QED BY <3>1 DEF AtIn
  <2> QED BY <1>4, <2>1, <2>2 DEF AtOut
<1>5. ASSUME AtIn(op) PROVE op # << >> /\ Head(op) = InStep /\ (Tail(op) = << >> \/ AtVerify(Tail(op)))
  <2>1. CASE op = <<InStep>>
    <3>1. op # << >> /\ Head(op) = InStep /\ Tail(op) = << >>
      BY <2>1, TailOfProgram
    <3> QED BY <3>1 DEF AtVerify
  <2>2. CASE op = <<InStep, VerifyStep>>
    <3>1. op # << >> /\ Head(op) = InStep /\ Tail(op) = <<VerifyStep>>
      BY <2>2, TailOfProgram
    <3> QED BY <3>1 DEF AtVerify
  <2> QED BY <1>5, <2>1, <2>2 DEF AtIn
<1>6. AtVerify(op) => op # << >> /\ Head(op) = VerifyStep /\ Tail(op) = << >>
  BY TailOfProgram DEF AtVerify
<1> QED BY <1>1, <1>2, <1>3, <1>4, <1>5, <1>6

(* Where an operation is on its way, by the step that comes next.          *)
LEMMA TowardsHeads ==
  ASSUME NEW a, NEW u, Towards(bundle, a, u)
  PROVE  LET op == bundle.op[a] IN
         /\ op # << >>
         /\ \/ Head(op) = LinkStep(u) /\ AtAside(Tail(op), u)
            \/ /\ Head(op) = AsideStep(u) /\ AtRead(Tail(op)) /\ bundle.active = u
            \/ /\ Head(op) = ReadStep /\ AtOut(Tail(op)) /\ bundle.active = u
               /\ bundle.runtime = << >>
            \/ /\ \/ Head(op) = OutStep /\ AtIn(Tail(op))
                  \/ Head(op) = InStep /\ (Tail(op) = << >> \/ AtVerify(Tail(op)))
               /\ bundle.active = u /\ bundle.runtime = << >> /\ bundle.from[a] = u
            \/ Head(op) = VerifyStep /\ Tail(op) = << >> /\ Selected(bundle, u)
<1> DEFINE op == bundle.op[a]
<1>1. \/ AtLink(op, u)
      \/ AtAside(op, u) /\ bundle.active = u
      \/ AtRead(op) /\ bundle.active = u /\ bundle.runtime = << >>
      \/ /\ AtOut(op) \/ AtIn(op)
         /\ bundle.active = u /\ bundle.runtime = << >> /\ bundle.from[a] = u
      \/ AtVerify(op) /\ Selected(bundle, u)
  BY DEF Towards
<1> HIDE DEF op
<1> QED BY <1>1, HeadsAre DEF op

LEMMA TowardsStep ==
  ASSUME StoreInv(bundle), NEW a \in Actors, NEW u, Towards(bundle, a, u),
         NEW b \in Done(a, Head(bundle.op[a])),
         NEW t, t.op[a] = Tail(bundle.op[a]), t.versions = b.versions,
         t.active = b.active, t.runtime = b.runtime, t.from = b.from
  PROVE  IF t.op[a] = << >> THEN Selected(t, u) ELSE Towards(t, a, u)
<1> DEFINE op == bundle.op[a]
           step == Head(op)
<1>1. /\ bundle \in StoreRecord /\ op \in Programs /\ u \in Versions
      /\ bundle.from \in [Actors -> AnyVersion]
      /\ bundle.versions[u] # << >>
  BY DEF StoreInv, StoreRecord, Towards
<1>2. op # << >>
  BY TowardsHeads
<1>3. step \in FileSteps
  BY <1>1, <1>2, HeadTailProperties DEF Programs
<1>4. \/ step = LinkStep(u) /\ AtAside(Tail(op), u)
      \/ step = AsideStep(u) /\ AtRead(Tail(op)) /\ bundle.active = u
      \/ /\ step = ReadStep /\ AtOut(Tail(op)) /\ bundle.active = u
         /\ bundle.runtime = << >>
      \/ /\ step = OutStep /\ AtIn(Tail(op))
         /\ bundle.active = u /\ bundle.runtime = << >> /\ bundle.from[a] = u
      \/ /\ step = InStep /\ (Tail(op) = << >> \/ AtVerify(Tail(op)))
         /\ bundle.active = u /\ bundle.runtime = << >> /\ bundle.from[a] = u
      \/ step = VerifyStep /\ Tail(op) = << >> /\ Selected(bundle, u)
  BY TowardsHeads
<1>5. b \in StoreRecord /\ t.versions[u] # << >>
  BY <1>1, <1>2, DoneFacts
<1>6. Becomes(a, step, b)
  BY <1>3, DoneCases
<1>7. t.op[a] = Tail(op)
  OBVIOUS
<1> HIDE DEF op, step
<1>8. CASE step = LinkStep(u) /\ AtAside(Tail(op), u)
  <2>1. b = [bundle EXCEPT !.active = u]
    BY <1>6, <1>8, StepsAre DEF Becomes
  <2>2. t.active = u
    BY <1>1, <2>1 DEF StoreRecord
  <2>3. t.op[a] # << >>
    BY <1>7, <1>8, HeadsAre
  <2> QED BY <1>1, <1>5, <1>7, <1>8, <2>2, <2>3 DEF Towards
<1>9. CASE step = AsideStep(u) /\ AtRead(Tail(op)) /\ bundle.active = u
  <2>1. b = Aside(bundle)
    BY <1>6, <1>9, StepsAre DEF Becomes
  <2>2. t.active = u /\ t.runtime = << >>
    BY <1>1, <1>9, <2>1, AsideFacts
  <2>3. t.op[a] # << >>
    BY <1>7, <1>9, HeadsAre
  <2> QED BY <1>1, <1>5, <1>7, <1>9, <2>2, <2>3 DEF Towards
<1>10. CASE /\ step = ReadStep /\ AtOut(Tail(op)) /\ bundle.active = u
            /\ bundle.runtime = << >>
  <2>1. b = [bundle EXCEPT !.from[a] = bundle.active]
    BY <1>6, <1>10, StepsAre DEF Becomes
  <2>2. t.active = u /\ t.runtime = << >> /\ t.from[a] = u
    BY <1>1, <1>10, <2>1 DEF StoreRecord
  <2>3. t.op[a] # << >>
    BY <1>7, <1>10, HeadsAre
  <2> QED BY <1>1, <1>5, <1>7, <1>10, <2>2, <2>3 DEF Towards
<1>11. CASE /\ step = OutStep /\ AtIn(Tail(op))
            /\ bundle.active = u /\ bundle.runtime = << >> /\ bundle.from[a] = u
  <2> DEFINE s == [bundle EXCEPT !.previous = << >>]
  <2>1. b = Aside(s)
    BY <1>6, <1>11, StepsAre DEF Becomes
  <2>2. << >> \in Maybe(Rendering)
    BY DEF Maybe
  <2>3. /\ s \in StoreRecord /\ s.active = u /\ s.runtime = << >> /\ s.from = bundle.from
    BY <1>1, <1>11, <2>2 DEF StoreRecord
  <2> HIDE DEF s
  <2>4. t.active = u /\ t.runtime = << >> /\ t.from[a] = u
    BY <1>11, <2>1, <2>3, AsideFacts DEF SamePrograms
  <2>5. t.op[a] # << >>
    BY <1>7, <1>11, HeadsAre
  <2> QED BY <1>1, <1>5, <1>7, <1>11, <2>4, <2>5 DEF Towards
<1>12. CASE /\ step = InStep /\ (Tail(op) = << >> \/ AtVerify(Tail(op)))
            /\ bundle.active = u /\ bundle.runtime = << >> /\ bundle.from[a] = u
  <2>1. b = [bundle EXCEPT !.previous = << >>, !.runtime = Rendered(u)]
    BY <1>6, <1>12, StepsAre DEF Becomes
  <2>2. t.active = u /\ t.runtime = Rendered(u)
    BY <1>1, <1>12, <2>1 DEF StoreRecord
  <2>3. Selected(t, u)
    BY <2>2 DEF Selected, Rendered
  <2> QED BY <1>1, <1>5, <1>7, <1>12, <2>3 DEF Towards
<1>13. CASE step = VerifyStep /\ Tail(op) = << >> /\ Selected(bundle, u)
  <2>1. b = bundle
    BY <1>6, <1>13, StepsAre DEF Becomes
  <2> QED BY <1>7, <1>13, <2>1 DEF Selected
<1> QED BY <1>4, <1>8, <1>9, <1>10, <1>11, <1>12, <1>13

(* Nothing on that way can fail by itself.                                 *)
LEMMA TowardsGoesOn ==
  ASSUME StoreInv(bundle), NEW a \in Actors, NEW u, Towards(bundle, a, u)
  PROVE  Done(a, Head(bundle.op[a])) # {}
<1> DEFINE op == bundle.op[a]
           step == Head(op)
<1>1. /\ bundle \in StoreRecord /\ op \in Programs /\ u \in Versions
      /\ bundle.versions[u] # << >>
  BY DEF StoreInv, StoreRecord, Towards
<1>2. op # << >>
  BY TowardsHeads
<1>3. step \in FileSteps
  BY <1>1, <1>2, HeadTailProperties DEF Programs
<1>4. Exists(u)
  BY <1>1, StoreAssumption DEF Exists, NoVersion
<1>5. \/ step = LinkStep(u)
      \/ step = AsideStep(u)
      \/ step = ReadStep /\ bundle.active = u
      \/ step = OutStep
      \/ step = InStep /\ bundle.runtime = << >>
      \/ step = VerifyStep /\ Selected(bundle, u)
  BY TowardsHeads
<1> HIDE DEF op, step
<1>6. \E b : Becomes(a, step, b)
  <2>1. CASE step = LinkStep(u)
    <3>1. step.do = "link" /\ step.v = u
      BY <2>1, StepsAre
    <3>2. Becomes(a, step, [bundle EXCEPT !.active = step.v])
      BY <1>4, <3>1 DEF Becomes
    <3> QED BY <3>2
  <2>2. CASE step = AsideStep(u)
    BY <2>2, StepsAre DEF Becomes
  <2>3. CASE step = ReadStep /\ bundle.active = u
    BY <1>4, <2>3, StepsAre DEF Becomes
  <2>4. CASE step = OutStep
    BY <2>4, StepsAre DEF Becomes
  <2>5. CASE step = InStep /\ bundle.runtime = << >>
    BY <2>5, StepsAre DEF Becomes
  <2>6. CASE step = VerifyStep /\ Selected(bundle, u)
    BY <1>4, <2>6, StepsAre DEF Becomes, Selected, Verifies
  <2> QED BY <1>5, <2>1, <2>2, <2>3, <2>4, <2>5, <2>6
<1>7. \E b : b \in Done(a, step)
  BY <1>3, <1>6, DoneCases
<1> QED BY <1>7 DEF step, op

LEMMA OrderedTail ==
  ASSUME NEW op \in Programs, op # << >>, NEW from, NEW later, Ordered(op, from),
         from # NoVersion => later # NoVersion,
         Head(op).do = "read" => later # NoVersion
  PROVE  Ordered(Tail(op), later)
<1>1. /\ Tail(op) \in Seq(FileSteps) /\ Len(Tail(op)) = Len(op) - 1 /\ Len(op) \in Nat
      /\ \A i \in 1..Len(Tail(op)) : Tail(op)[i] = op[i + 1]
      /\ Head(op) = op[1]
  BY HeadTailProperties, LenProperties DEF Programs
<1> SUFFICES ASSUME NEW i \in 1..Len(Tail(op)), Tail(op)[i].do = "in", later = NoVersion
             PROVE  \E j \in 1..(i - 1) : Tail(op)[j].do = "read"
  BY DEF Ordered
<1>2. i + 1 \in 1..Len(op) /\ op[i + 1].do = "in" /\ from = NoVersion
  BY <1>1
<1>3. PICK j \in 1..((i + 1) - 1) : op[j].do = "read"
  BY <1>2 DEF Ordered
<1>4. j # 1
  BY <1>1, <1>3
<1>5. j - 1 \in 1..(i - 1) /\ j - 1 \in 1..Len(Tail(op)) /\ (j - 1) + 1 = j
  BY <1>1, <1>3, <1>4
<1>6. Tail(op)[j - 1].do = "read"
  BY <1>1, <1>3, <1>5
<1> QED BY <1>5, <1>6

(* The step of an operation that nobody else is in.                        *)
LEMMA OnlyOne ==
  ASSUME StoreInv(bundle), NEW a \in Actors, bundle.op[a] # << >>,
         NEW c \in Actors, c # a, bundle.alone[c]
  PROVE  bundle.op[c] = << >>
<1>1. Promise(bundle, c) /\ a \in Actors \ {c}
  BY DEF StoreInv
<1> QED BY <1>1 DEF Promise

LEMMA FileStepSound ==
  ASSUME StoreInv(bundle), NEW a \in Actors, FileStep(a)
  PROVE  StoreInv(bundle')
<1>1. bundle.op[a] # << >>
  BY DEF FileStep
<1>2. PICK b \in Done(a, Head(bundle.op[a])) :
        bundle' = Finished(a, [b EXCEPT !.op[a] = Tail(@)])
  BY DEF FileStep
<1>3. /\ b \in StoreRecord /\ DirectoriesWhole(b)
      /\ SameResults(bundle, b) /\ SameAims(bundle, b)
      /\ \A v \in Versions : bundle.versions[v] # << >> => b.versions[v] # << >>
      /\ b.from = IF Head(bundle.op[a]).do = "read"
                  THEN [bundle.from EXCEPT ![a] = bundle.active] ELSE bundle.from
  BY <1>1, DoneFacts
<1>4. /\ bundle \in StoreRecord /\ bundle.op \in [Actors -> Programs]
      /\ bundle.active \in Versions /\ bundle.versions[bundle.active] # << >>
      /\ bundle.from \in [Actors -> AnyVersion] /\ bundle.active # NoVersion
      /\ bundle.op[a] \in Programs /\ bundle.target \in [Actors -> AnyVersion]
      /\ bundle.before \in [Actors -> AnyVersion]
  BY StoreAssumption DEF StoreInv, StoreRecord, DirectoriesWhole, NoVersion
<1> DEFINE op == [b.op EXCEPT ![a] = Tail(bundle.op[a])]
           t == [b EXCEPT !.op = op]
<1>5. Tail(bundle.op[a]) \in Programs
  BY <1>1, <1>4, HeadTailProperties DEF Programs
<1>6. b.op = bundle.op
  BY <1>3 DEF SameAims
<1>7. /\ op \in [Actors -> Programs] /\ op[a] = Tail(bundle.op[a])
      /\ \A c \in Actors \ {a} : op[c] = bundle.op[c]
  BY <1>4, <1>5, <1>6
<1>8. bundle' = Finished(a, t)
  BY <1>2, <1>3, <1>6 DEF StoreRecord
<1> HIDE DEF op
<1>9. /\ t \in StoreRecord /\ SameFiles(b, t) /\ SameResults(b, t) /\ t.op = op
      /\ t.rescue = b.rescue /\ t.alone = b.alone /\ t.before = b.before
      /\ t.target = b.target /\ t.rescued = b.rescued /\ t.torn = b.torn
      /\ t.from = b.from
  BY <1>3, <1>7 DEF StoreRecord, SameFiles, SameResults
<1> HIDE DEF t
<1>10. /\ t.rescue = bundle.rescue /\ t.alone = bundle.alone /\ t.before = bundle.before
       /\ t.target = bundle.target /\ t.rescued = bundle.rescued /\ t.torn = bundle.torn
  BY <1>3, <1>9 DEF SameAims
<1>11. DirectoriesWhole(t)
  BY <1>3, <1>9 DEF DirectoriesWhole, IsRendering, SameFiles
<1>12. \A v \in Versions : bundle.versions[v] # << >> => t.versions[v] # << >>
  BY <1>3, <1>9 DEF SameFiles
<1>13. ReadsFirst(t)
  <2> SUFFICES ASSUME NEW c \in Actors
               PROVE  /\ t.from[c] # NoVersion => t.versions[t.from[c]] # << >>
                      /\ Ordered(t.op[c], t.from[c])
    BY DEF ReadsFirst
  <2>1. /\ bundle.from[c] # NoVersion => bundle.versions[bundle.from[c]] # << >>
        /\ Ordered(bundle.op[c], bundle.from[c])
    BY DEF StoreInv, ReadsFirst
  <2>2. /\ c = a /\ Head(bundle.op[a]).do = "read" => t.from[c] = bundle.active
        /\ c # a \/ Head(bundle.op[a]).do # "read" => t.from[c] = bundle.from[c]
    BY <1>3, <1>4, <1>9
  <2>3. t.from[c] # NoVersion => t.versions[t.from[c]] # << >>
    BY <1>4, <1>12, <2>1, <2>2 DEF AnyVersion
  <2>4. Ordered(t.op[c], t.from[c])
    <3>1. CASE c = a
      <4>1. /\ bundle.from[a] # NoVersion => t.from[a] # NoVersion
            /\ Head(bundle.op[a]).do = "read" => t.from[a] # NoVersion
        BY <1>4, <2>2, <3>1
      <4> QED BY <1>1, <1>4, <1>7, <1>9, <2>1, <3>1, <4>1, OrderedTail
    <3>2. CASE c # a
      BY <1>7, <1>9, <2>1, <2>2, <3>2
    <3> QED BY <3>1, <3>2
  <2> QED BY <2>3, <2>4
<1>14. ASSUME NEW u, Towards(bundle, a, u)
       PROVE  IF t.op[a] = << >> THEN Selected(t, u) ELSE Towards(t, a, u)
  <2>1. /\ t.op[a] = Tail(bundle.op[a]) /\ t.versions = b.versions
        /\ t.active = b.active /\ t.runtime = b.runtime /\ t.from = b.from
    BY <1>7, <1>9 DEF SameFiles
  <2> QED BY <1>14, <2>1, TowardsStep
<1>15. ASSUME NEW u, AtPublish(bundle, a, u)
       PROVE  t.op[a] # << >> /\ Towards(t, a, u)
  <2>1. u \in Versions
    BY <1>15 DEF AtPublish
  <2>2. PICK values \in Values :
          bundle.op[a] = <<Step("publish", u, values), LinkStep(u), AsideStep(u), ReadStep,
                           OutStep, InStep, VerifyStep>>
    BY <1>15 DEF AtPublish
  <2>3. /\ Head(bundle.op[a]) = Step("publish", u, values)
        /\ t.op[a] = <<LinkStep(u), AsideStep(u), ReadStep, OutStep, InStep, VerifyStep>>
    BY <1>7, <1>9, <2>2, TailOfProgram
  <2>4. AtLink(t.op[a], u)
    BY <2>3 DEF AtLink
  <2>5. Step("publish", u, values) \in FileSteps
    BY <2>1, FileStepsKnown
  <2>6. Becomes(a, Step("publish", u, values), b)
    BY <2>3, <2>5, DoneCases
  <2>7. b = [bundle EXCEPT !.versions[u] = <<values>>]
    BY <2>6 DEF Becomes, Step
  <2>8. bundle.versions \in [Versions -> Maybe(Values)]
    BY <1>4 DEF StoreRecord
  <2>9. b.versions[u] = <<values>>
    BY <1>4, <2>1, <2>7, <2>8 DEF StoreRecord
  <2>10. t.versions[u] # << >>
    BY <1>9, <2>9 DEF SameFiles
  <2> QED BY <2>1, <2>4, <2>10, HeadsAre DEF Towards
<1>16. Promise(bundle, a)
  BY DEF StoreInv
<1>17. ASSUME NEW c \in Actors PROVE Promise(t, c)
  <2>1. CASE c # a
    <3>1. bundle.alone[c] => t.op[c] = << >>
      BY <1>1, <1>7, <1>9, <2>1, OnlyOne
    <3> QED BY <1>10, <3>1 DEF Promise
  <2>2. CASE c = a
    <3> SUFFICES ASSUME bundle.alone[a], t.op[a] # << >>
                 PROVE  /\ \A d \in Actors \ {a} : t.op[d] = << >>
                        /\ bundle.target[a] # NoVersion =>
                             /\ bundle.before[a] \in Versions
                             /\ t.versions[bundle.before[a]] # << >>
                             /\ ~bundle.rescued[a] => /\ bundle.rescue[a].mode # "none"
                                                      /\ bundle.rescue[a].to = bundle.before[a]
                             /\ bundle.rescued[a] => Towards(t, a, bundle.before[a])
                             /\ ~bundle.rescued[a] => \/ Towards(t, a, bundle.target[a])
                                                      \/ AtPublish(t, a, bundle.target[a])
      BY <1>10, <2>2 DEF Promise
    <3>1. \A d \in Actors \ {a} : t.op[d] = << >>
      BY <1>1, <1>7, <1>9, <1>16 DEF Promise
    <3> SUFFICES ASSUME bundle.target[a] # NoVersion
                 PROVE  /\ bundle.before[a] \in Versions
                        /\ t.versions[bundle.before[a]] # << >>
                        /\ ~bundle.rescued[a] => /\ bundle.rescue[a].mode # "none"
                                                 /\ bundle.rescue[a].to = bundle.before[a]
                        /\ bundle.rescued[a] => Towards(t, a, bundle.before[a])
                        /\ ~bundle.rescued[a] => Towards(t, a, bundle.target[a])
      BY <3>1
    <3>2. /\ bundle.before[a] \in Versions /\ bundle.versions[bundle.before[a]] # << >>
          /\ ~bundle.rescued[a] => /\ bundle.rescue[a].mode # "none"
                                   /\ bundle.rescue[a].to = bundle.before[a]
          /\ bundle.rescued[a] => Towards(bundle, a, bundle.before[a])
          /\ ~bundle.rescued[a] => \/ Towards(bundle, a, bundle.target[a])
                                   \/ AtPublish(bundle, a, bundle.target[a])
      BY <1>1, <1>16 DEF Promise
    <3> QED BY <1>12, <1>14, <1>15, <3>2
  <2> QED BY <2>1, <2>2
<1>18. ASSUME t.op[a] = << >>, t.alone[a], t.target[a] # NoVersion PROVE Whole(a, t)
  <2>1. /\ bundle.rescued[a] => Towards(bundle, a, bundle.before[a])
        /\ ~bundle.rescued[a] => \/ Towards(bundle, a, bundle.target[a])
                                 \/ AtPublish(bundle, a, bundle.target[a])
    BY <1>1, <1>10, <1>16, <1>18 DEF Promise
  <2>2. /\ bundle.rescued[a] => Selected(t, bundle.before[a])
        /\ ~bundle.rescued[a] => Selected(t, bundle.target[a])
    BY <1>14, <1>15, <1>18, <2>1
  <2> QED BY <1>10, <2>2 DEF Whole, Selected
<1>19. ResultsAreOf(t)
  <2>1. ResultsAreOf(b)
    BY <1>3, ResultsKept DEF StoreInv
  <2> QED BY <1>9, <2>1, ResultsKept
<1>20. ~t.torn
  BY <1>10 DEF StoreInv
<1> QED BY <1>8, <1>9, <1>11, <1>13, <1>17, <1>18, <1>19, <1>20, FinishedSound

(* A step raises: what is left of the operation gives way to its rescue.   *)
LEMMA RescueSound ==
  ASSUME NEW r \in Rescues
  PROVE  /\ Rescue(r) \in Programs /\ \A from : Ordered(Rescue(r), from)
         /\ r.mode # "none" => Rescue(r) # << >> /\ AtLink(Rescue(r), r.to)
<1>1. r.mode \in {"none", "select", "switch"} /\ (r.mode # "none" => r.to \in Versions)
  BY DEF Rescues
<1>2. CASE r.mode = "none"
  <2>1. Rescue(r) = << >>
    BY <1>2 DEF Rescue
  <2>2. << >> \in Programs /\ \A from : Ordered(<< >>, from)
    BY DEF Programs, Ordered
  <2> QED BY <1>2, <2>1, <2>2
<1>3. CASE r.mode = "select"
  <2>1. Rescue(r) = Select(r.to) \o RenderActive
    BY <1>3 DEF Rescue
  <2>2. Sound(Select(r.to) \o RenderActive)
    BY <1>1, <1>3, ProgramsSound, ValuesKnown
  <2>3. AtLink(Select(r.to) \o RenderActive, r.to)
    BY ProgramsAre DEF AtLink
  <2> QED BY <2>1, <2>2, <2>3 DEF Sound
<1>4. CASE r.mode = "switch"
  <2>1. Rescue(r) = Switch(r.to)
    BY <1>4 DEF Rescue
  <2>2. Sound(Switch(r.to))
    BY <1>1, <1>4, ProgramsSound, ValuesKnown
  <2>3. AtLink(Switch(r.to), r.to)
    BY ProgramsAre DEF AtLink
  <2> QED BY <2>1, <2>2, <2>3 DEF Sound
<1> QED BY <1>1, <1>2, <1>3, <1>4

LEMMA MishapFacts ==
  ASSUME NEW a \in Actors, bundle \in StoreRecord
  PROVE  /\ Mishap(a) \in StoreRecord /\ SameFiles(bundle, Mishap(a))
         /\ SameResults(bundle, Mishap(a))
         /\ Mishap(a).op = bundle.op /\ Mishap(a).rescue = bundle.rescue
         /\ Mishap(a).from = bundle.from /\ Mishap(a).before = bundle.before
         /\ Mishap(a).target = bundle.target /\ Mishap(a).rescued = bundle.rescued
         /\ Mishap(a).torn = bundle.torn
         /\ \A c \in Actors : Mishap(a).alone[c] => bundle.alone[c]
         /\ Mishap(a).alone[a] => ~bundle.rescued[a]
<1> DEFINE n == bundle.mishaps + 1
           alone == [bundle.alone EXCEPT ![a] = @ /\ ~bundle.rescued[a]]
<1>1. bundle.alone \in [Actors -> BOOLEAN] /\ bundle.mishaps \in Nat
  BY DEF StoreRecord
<1>2. /\ n \in Nat /\ alone \in [Actors -> BOOLEAN]
      /\ \A c \in Actors : alone[c] => bundle.alone[c]
      /\ alone[a] => ~bundle.rescued[a]
  <2>1. n \in Nat
    BY <1>1
  <2>2. alone \in [Actors -> BOOLEAN]
    BY <1>1
  <2>3. alone[a] = (bundle.alone[a] /\ ~bundle.rescued[a])
    BY <1>1
  <2>4. \A c \in Actors : c # a => alone[c] = bundle.alone[c]
    BY <1>1
  <2> HIDE DEF alone, n
  <2> QED BY <2>1, <2>2, <2>3, <2>4
<1>3. Mishap(a) = [bundle EXCEPT !.mishaps = n, !.alone = alone]
  BY DEF Mishap, StoreRecord
<1> HIDE DEF n, alone
<1>4. Mishap(a) \in StoreRecord
  BY ZenonT(40), <1>2, <1>3 DEF StoreRecord
<1>5. /\ SameFiles(bundle, Mishap(a)) /\ SameResults(bundle, Mishap(a))
      /\ Mishap(a).op = bundle.op /\ Mishap(a).rescue = bundle.rescue
      /\ Mishap(a).from = bundle.from /\ Mishap(a).before = bundle.before
      /\ Mishap(a).target = bundle.target /\ Mishap(a).rescued = bundle.rescued
      /\ Mishap(a).torn = bundle.torn /\ Mishap(a).alone = alone
  BY <1>3 DEF StoreRecord, SameFiles, SameResults
<1> QED BY <1>2, <1>4, <1>5

LEMMA RaiseSound ==
  ASSUME StoreInv(bundle), NEW a \in Actors, bundle.op[a] # << >>,
         NEW s \in StoreRecord, bundle' = Raise(a, s),
         SameFiles(bundle, s), SameResults(bundle, s),
         s.op = bundle.op, s.rescue = bundle.rescue, s.from = bundle.from,
         s.before = bundle.before, s.target = bundle.target,
         s.rescued = bundle.rescued, s.torn = bundle.torn,
         \A c \in Actors : s.alone[c] => bundle.alone[c],
         s.alone[a] => ~bundle.rescued[a] \/ Done(a, Head(bundle.op[a])) = {}
  PROVE  StoreInv(bundle')
<1> DEFINE back == Head(s.op[a]).do = "in" /\ s.runtime = << >>
           b == IF back THEN [s EXCEPT !.runtime = s.previous, !.previous = << >>] ELSE s
           r == s.rescue[a]
           op == [s.op EXCEPT ![a] = Rescue(r)]
           rescued == [s.rescued EXCEPT ![a] = TRUE]
           rescue == [s.rescue EXCEPT ![a] = IF r.mode = "switch" THEN SwitchBack ELSE NoRescue]
           t == [b EXCEPT !.op = op, !.rescued = rescued, !.rescue = rescue]
<1>1. /\ bundle \in StoreRecord /\ bundle.op \in [Actors -> Programs]
      /\ bundle.active \in Versions /\ bundle.rescue \in [Actors -> Rescues]
      /\ bundle.rescued \in [Actors -> BOOLEAN] /\ r \in Rescues
      /\ s.previous \in Maybe(Rendering)
  BY DEF StoreInv, StoreRecord
<1>2. Rescue(r) \in Programs /\ (\A from : Ordered(Rescue(r), from))
      /\ (r.mode # "none" => Rescue(r) # << >> /\ AtLink(Rescue(r), r.to))
  BY <1>1, RescueSound
<1>3. SwitchBack \in Rescues /\ NoRescue \in Rescues
  BY <1>1 DEF NoRescue, SwitchBack, Rescues, AnyVersion
<1>4. /\ b \in StoreRecord /\ b.op = s.op /\ b.rescued = s.rescued /\ b.rescue = s.rescue
      /\ b.versions = s.versions /\ b.active = s.active /\ SameResults(s, b)
      /\ b.alone = s.alone /\ b.from = s.from /\ b.before = s.before
      /\ b.target = s.target /\ b.torn = s.torn
      /\ \/ b.runtime = s.runtime /\ b.previous = s.previous
         \/ b.runtime = s.previous /\ b.previous = << >>
  <2>1. CASE ~back
    <3>1. b = s
      BY <2>1
    <3> HIDE DEF b
    <3> QED BY <3>1 DEF SameResults
  <2>2. CASE back
    <3>1. b = [s EXCEPT !.runtime = s.previous, !.previous = << >>]
      BY <2>2
    <3> HIDE DEF b
    <3>2. << >> \in Maybe(Rendering)
      BY DEF Maybe
    <3>3. b \in StoreRecord
      BY <1>1, <3>1, <3>2 DEF StoreRecord
    <3> QED BY SMTT(20), <1>1, <3>1, <3>3 DEF StoreRecord, SameResults
  <2> QED BY <2>1, <2>2
<1>5. bundle' = Finished(a, t)
  <2>1. bundle' = Finished(a, [b EXCEPT !.op[a] = Rescue(r), !.rescued[a] = TRUE,
                     !.rescue[a] = IF @.mode = "switch" THEN SwitchBack ELSE NoRescue])
    BY DEF Raise
  <2> HIDE DEF b
  <2> QED BY <1>4, <2>1 DEF StoreRecord
<1> HIDE DEF b
<1>6. /\ op \in [Actors -> Programs] /\ op[a] = Rescue(r)
      /\ \A c \in Actors \ {a} : op[c] = bundle.op[c]
  BY <1>1, <1>2
<1>7. rescue \in [Actors -> Rescues] /\ \A c \in Actors \ {a} : rescue[c] = bundle.rescue[c]
  BY <1>1, <1>3
<1>8. /\ rescued \in [Actors -> BOOLEAN] /\ rescued[a] = TRUE
      /\ \A c \in Actors \ {a} : rescued[c] = bundle.rescued[c]
  BY <1>1
<1> HIDE DEF op, rescue, rescued
<1>9. t \in StoreRecord
  BY <1>4, <1>6, <1>7, <1>8 DEF StoreRecord
<1>10. /\ SameFiles(b, t) /\ SameResults(b, t) /\ t.op = op /\ t.rescue = rescue
       /\ t.alone = s.alone /\ t.before = bundle.before /\ t.target = bundle.target
       /\ t.rescued = rescued /\ t.torn = bundle.torn /\ t.from = bundle.from
  BY <1>4 DEF StoreRecord, SameFiles, SameResults
<1> HIDE DEF t
<1>11. DirectoriesWhole(t)
  <2>1. DirectoriesWhole(bundle)
    BY DEF StoreInv
  <2> QED BY <1>4, <1>10, <2>1 DEF DirectoriesWhole, IsRendering, SameFiles
<1>12. t.versions = bundle.versions
  BY <1>4, <1>10 DEF SameFiles
<1>13. ReadsFirst(t)
  <2> SUFFICES ASSUME NEW c \in Actors
               PROVE  /\ t.from[c] # NoVersion => t.versions[t.from[c]] # << >>
                      /\ Ordered(t.op[c], t.from[c])
    BY DEF ReadsFirst
  <2>1. /\ bundle.from[c] # NoVersion => bundle.versions[bundle.from[c]] # << >>
        /\ Ordered(bundle.op[c], bundle.from[c])
    BY DEF StoreInv, ReadsFirst
  <2>2. Ordered(t.op[c], t.from[c])
    BY <1>2, <1>6, <1>10, <2>1
  <2> QED BY <1>10, <1>12, <2>1, <2>2
<1>14. Promise(bundle, a)
  BY DEF StoreInv
<1>15. ASSUME s.alone[a], bundle.target[a] # NoVersion
       PROVE  /\ bundle.before[a] \in Versions /\ bundle.versions[bundle.before[a]] # << >>
              /\ r.mode # "none" /\ r.to = bundle.before[a]
  <2>1. bundle.alone[a]
    BY <1>15
  <2>2. ~bundle.rescued[a]
    <3> SUFFICES ASSUME bundle.rescued[a] PROVE FALSE
      OBVIOUS
    <3>1. Towards(bundle, a, bundle.before[a])
      BY <1>14, <1>15, <2>1 DEF Promise
    <3>2. Done(a, Head(bundle.op[a])) = {}
      BY <1>15
    <3> QED BY <3>1, <3>2, TowardsGoesOn
  <2> QED BY <1>14, <1>15, <2>1, <2>2 DEF Promise
<1>16. ASSUME NEW c \in Actors PROVE Promise(t, c)
  <2>1. CASE c # a
    <3>1. s.alone[c] => t.op[c] = << >>
      BY <1>6, <1>10, <2>1, OnlyOne
    <3> QED BY <1>10, <3>1 DEF Promise
  <2>2. CASE c = a
    <3> SUFFICES ASSUME s.alone[a], t.op[a] # << >>
                 PROVE  /\ \A d \in Actors \ {a} : t.op[d] = << >>
                        /\ bundle.target[a] # NoVersion =>
                             /\ bundle.before[a] \in Versions
                             /\ t.versions[bundle.before[a]] # << >>
                             /\ Towards(t, a, bundle.before[a])
      BY <1>8, <1>10, <2>2 DEF Promise
    <3>1. \A d \in Actors \ {a} : t.op[d] = << >>
      BY <1>6, <1>10, <1>14 DEF Promise
    <3>2. ASSUME bundle.target[a] # NoVersion PROVE Towards(t, a, bundle.before[a])
      <4>1. AtLink(t.op[a], bundle.before[a])
        BY <1>2, <1>6, <1>10, <1>15, <3>2
      <4> QED BY <1>12, <1>15, <3>2, <4>1 DEF Towards
    <3> QED BY <1>12, <1>15, <3>1, <3>2
  <2> QED BY <2>1, <2>2
<1>17. ASSUME t.op[a] = << >>, t.alone[a], t.target[a] # NoVersion PROVE Whole(a, t)
  BY <1>2, <1>6, <1>10, <1>15, <1>17
<1>18. ResultsAreOf(t)
  <2>1. ResultsAreOf(s)
    BY ResultsKept DEF StoreInv
  <2>2. ResultsAreOf(b)
    BY <1>4, <2>1, ResultsKept
  <2> QED BY <1>10, <2>2, ResultsKept
<1>19. ~t.torn
  BY <1>10 DEF StoreInv
<1> QED BY <1>5, <1>9, <1>11, <1>13, <1>16, <1>17, <1>18, <1>19, FinishedSound

LEMMA StepRaisesSound ==
  ASSUME StoreInv(bundle), NEW a \in Actors, StepRaises(a)
  PROVE  StoreInv(bundle')
<1>1. bundle \in StoreRecord /\ bundle.op[a] # << >>
  BY DEF StepRaises, StoreInv
<1>2. CASE Done(a, Head(bundle.op[a])) = {} /\ bundle' = Raise(a, bundle)
  <2>1. SameFiles(bundle, bundle) /\ SameResults(bundle, bundle)
    BY DEF SameFiles, SameResults
  <2> QED BY <1>1, <1>2, <2>1, RaiseSound
<1>3. CASE bundle' = Raise(a, Mishap(a))
  BY <1>1, <1>3, MishapFacts, RaiseSound
<1> QED BY <1>2, <1>3 DEF StepRaises

LEMMA ProcessDiesSound ==
  ASSUME StoreInv(bundle), NEW a \in Actors, ProcessDies(a)
  PROVE  StoreInv(bundle')
<1> DEFINE op == [bundle.op EXCEPT ![a] = << >>]
           rescue == [bundle.rescue EXCEPT ![a] = NoRescue]
           from == [bundle.from EXCEPT ![a] = NoVersion]
           rescued == [bundle.rescued EXCEPT ![a] = FALSE]
           before == [bundle.before EXCEPT ![a] = NoVersion]
           target == [bundle.target EXCEPT ![a] = NoVersion]
           n == bundle.mishaps + 1
           u == [bundle EXCEPT !.op = op, !.rescue = rescue, !.from = from]
           v == [u EXCEPT !.rescued = rescued, !.before = before, !.target = target,
                          !.mishaps = n]
<1>1. /\ bundle \in StoreRecord /\ bundle.op \in [Actors -> Programs]
      /\ bundle.rescue \in [Actors -> Rescues] /\ bundle.from \in [Actors -> AnyVersion]
      /\ bundle.rescued \in [Actors -> BOOLEAN] /\ bundle.before \in [Actors -> AnyVersion]
      /\ bundle.target \in [Actors -> AnyVersion] /\ bundle.mishaps \in Nat
      /\ NoVersion \in AnyVersion /\ NoRescue \in Rescues /\ << >> \in Programs
  BY DEF StoreInv, StoreRecord, AnyVersion, NoRescue, Rescues, Programs
<1>2. /\ op \in [Actors -> Programs] /\ rescue \in [Actors -> Rescues]
      /\ from \in [Actors -> AnyVersion] /\ rescued \in [Actors -> BOOLEAN]
      /\ before \in [Actors -> AnyVersion] /\ target \in [Actors -> AnyVersion] /\ n \in Nat
  BY <1>1
<1>3. /\ op[a] = << >> /\ from[a] = NoVersion
      /\ \A c \in Actors \ {a} :
           /\ op[c] = bundle.op[c] /\ rescue[c] = bundle.rescue[c]
           /\ from[c] = bundle.from[c] /\ rescued[c] = bundle.rescued[c]
           /\ before[c] = bundle.before[c] /\ target[c] = bundle.target[c]
  BY <1>1
<1>4. bundle' = v
  BY <1>1 DEF ProcessDies, StoreRecord
<1> HIDE DEF op, rescue, from, rescued, before, target, n
<1>5. u \in StoreRecord
  BY <1>1, <1>2 DEF StoreRecord
<1>6. /\ SameFiles(bundle, u) /\ SameResults(bundle, u) /\ u.op = op /\ u.rescue = rescue
      /\ u.from = from /\ u.alone = bundle.alone /\ u.torn = bundle.torn
  BY <1>1 DEF StoreRecord, SameFiles, SameResults
<1> HIDE DEF u
<1>7. v \in StoreRecord
  BY <1>2, <1>5 DEF StoreRecord
<1>8. /\ SameFiles(u, v) /\ SameResults(u, v) /\ v.op = op /\ v.rescue = rescue
      /\ v.from = from /\ v.alone = bundle.alone /\ v.torn = bundle.torn
      /\ v.rescued = rescued /\ v.before = before /\ v.target = target
  BY <1>5, <1>6 DEF StoreRecord, SameFiles, SameResults
<1> HIDE DEF v
<1>9. SameFiles(bundle, v)
  BY <1>6, <1>8 DEF SameFiles
<1>10. DirectoriesWhole(v)
  BY <1>9 DEF StoreInv, DirectoriesWhole, IsRendering, SameFiles
<1>11. ReadsFirst(v)
  <2> SUFFICES ASSUME NEW c \in Actors
               PROVE  /\ v.from[c] # NoVersion => v.versions[v.from[c]] # << >>
                      /\ Ordered(v.op[c], v.from[c])
    BY DEF ReadsFirst
  <2>1. CASE c = a
    <3>1. Ordered(<< >>, NoVersion)
      BY DEF Ordered
    <3> QED BY <1>3, <1>8, <2>1, <3>1
  <2>2. CASE c # a
    BY <1>3, <1>8, <1>9, <2>2 DEF StoreInv, ReadsFirst, SameFiles
  <2> QED BY <2>1, <2>2
<1>12. ASSUME NEW c \in Actors PROVE Promise(v, c)
  <2>1. CASE c = a
    BY <1>3, <1>8, <2>1 DEF Promise
  <2>2. CASE c # a
    <3>1. bundle.alone[c] => v.op[c] = << >>
      BY <1>3, <1>8, <2>2, OnlyOne DEF ProcessDies
    <3> QED BY <1>8, <3>1 DEF Promise
  <2> QED BY <2>1, <2>2
<1>13. ResultsAreOf(v)
  <2>1. ResultsAreOf(u)
    BY <1>6, ResultsKept DEF StoreInv
  <2> QED BY <1>8, <2>1, ResultsKept
<1> QED BY <1>4, <1>7, <1>8, <1>10, <1>11, <1>12, <1>13 DEF StoreInv

-----------------------------------------------------------------------------
(* Drafts and sessions leave the files alone.                              *)
LEMMA SolvedGrows ==
  ASSUME NEW s, NEW t, Elsewhere(s) \subseteq Elsewhere(t),
         s.revisions \in Nat, t.revisions \in Nat, s.revisions <= t.revisions,
         \A x \in 1..s.revisions : t.basis[x] = s.basis[x]
  PROVE  \A r, servo : SolvedOn(s, r, servo) => SolvedOn(t, r, servo)
BY DEF SolvedOn

LEMMA WorkKept ==
  ASSUME StoreInv(bundle), bundle' \in StoreRecord, SameFiles(bundle, bundle'),
         SamePrograms(bundle, bundle'), ResultsAreOf(bundle')
  PROVE  StoreInv(bundle')
BY StoreKept DEF StoreInv

(* Whoever measures, measures a new revision.                              *)
LEMMA MeasuredFacts ==
  ASSUME StoreInv(bundle), NEW c \in Components, NEW handmade \in BOOLEAN,
         bundle.revisions < MaxRevisions
  PROVE  LET t == Measured(bundle, c, handmade)
             r == bundle.revisions + 1
         IN  /\ t \in StoreRecord /\ SameFiles(bundle, t) /\ SamePrograms(bundle, t)
             /\ t.revisions = r /\ r \in 1..MaxRevisions
             /\ t.session = bundle.session /\ t.progress = bundle.progress
             /\ t.receipt = bundle.receipt /\ t.reused = bundle.reused
             /\ t.draft = [bundle.draft EXCEPT ![c] = r]
             /\ t.handmade = IF handmade THEN bundle.handmade \cup {r} ELSE bundle.handmade
             /\ c # "servo" => t.basis[r] = bundle.draft["servo"]
             /\ \A x, servo : SolvedOn(bundle, x, servo) => SolvedOn(t, x, servo)
<1> DEFINE r == bundle.revisions + 1
           on == IF c = "servo" THEN NoRevision ELSE bundle.draft["servo"]
           draft == [bundle.draft EXCEPT ![c] = r]
           byhand == IF handmade THEN bundle.handmade \cup {r} ELSE bundle.handmade
           basis == [bundle.basis EXCEPT ![r] = on]
           t == Measured(bundle, c, handmade)
<1>1. /\ bundle \in StoreRecord /\ bundle.draft \in [Components -> Nat]
      /\ bundle.basis \in [1..MaxRevisions -> Nat] /\ bundle.revisions \in Nat
      /\ bundle.handmade \in SUBSET Nat
  BY DEF StoreInv, StoreRecord, Values
<1>2. r \in Nat /\ r \in 1..MaxRevisions /\ bundle.revisions <= r
      /\ r \notin 1..bundle.revisions /\ 1..bundle.revisions \subseteq 1..MaxRevisions
  BY <1>1, StoreAssumption
<1>3. on \in Nat
  BY <1>1 DEF NoRevision, Components
<1>4. draft \in Values
  BY <1>1, <1>2 DEF Values
<1>5. byhand \in SUBSET Nat /\ bundle.handmade \subseteq byhand
  BY <1>1, <1>2
<1>6. /\ basis \in [1..MaxRevisions -> Nat] /\ basis[r] = on
      /\ \A x \in 1..bundle.revisions : basis[x] = bundle.basis[x]
  BY <1>1, <1>2, <1>3
<1>7. t = [bundle EXCEPT !.revisions = r, !.draft = draft, !.handmade = byhand,
                         !.basis = basis]
  BY <1>1 DEF Measured, StoreRecord
<1>8. c # "servo" => on = bundle.draft["servo"]
  OBVIOUS
<1> HIDE DEF r, on, draft, byhand, basis, t
<1>9. t \in StoreRecord
  BY <1>1, <1>2, <1>4, <1>5, <1>6, <1>7 DEF StoreRecord
<1>10. /\ SameFiles(bundle, t) /\ SamePrograms(bundle, t)
       /\ t.revisions = r /\ t.session = bundle.session /\ t.progress = bundle.progress
       /\ t.receipt = bundle.receipt /\ t.reused = bundle.reused
       /\ t.draft = draft /\ t.handmade = byhand /\ t.basis = basis
  BY <1>1, <1>7 DEF StoreRecord, SameFiles, SamePrograms
<1>11. Elsewhere(bundle) \subseteq Elsewhere(t)
  BY <1>5, <1>10 DEF Elsewhere
<1>12. \A x, servo : SolvedOn(bundle, x, servo) => SolvedOn(t, x, servo)
  BY <1>1, <1>2, <1>6, <1>10, <1>11, SolvedGrows
<1> QED BY <1>2, <1>6, <1>8, <1>9, <1>10, <1>12 DEF r, draft, byhand, t

LEMMA SaveByHandSound ==
  ASSUME StoreInv(bundle), SaveByHand
  PROVE  StoreInv(bundle')
<1>1. PICK c \in Components : /\ bundle.revisions < MaxRevisions
                              /\ bundle' = Measured(bundle, c, TRUE)
  BY DEF SaveByHand
<1> DEFINE r == bundle.revisions + 1
<1>2. /\ bundle' \in StoreRecord /\ SameFiles(bundle, bundle')
      /\ SamePrograms(bundle, bundle')
      /\ bundle'.revisions = r /\ r \in 1..MaxRevisions
      /\ bundle'.session = bundle.session /\ bundle'.progress = bundle.progress
      /\ bundle'.receipt = bundle.receipt
      /\ bundle'.draft = [bundle.draft EXCEPT ![c] = r]
      /\ bundle'.handmade = bundle.handmade \cup {r}
      /\ \A x, servo : SolvedOn(bundle, x, servo) => SolvedOn(bundle', x, servo)
  BY <1>1, MeasuredFacts
<1> HIDE DEF r
<1>3. bundle.draft \in [Components -> Nat]
  BY DEF StoreInv, StoreRecord, Values
<1>4. bundle'.draft["head_camera"] = bundle.draft["head_camera"]
      \/ bundle'.draft["head_camera"] = r
  BY <1>2, <1>3 DEF Components
<1>5. \A servo : SolvedOn(bundle', r, servo)
  BY <1>2 DEF SolvedOn, Elsewhere
<1>6. ResultsAreOf(bundle)
  BY DEF StoreInv
<1>7. bundle'.revisions <= MaxRevisions
  BY <1>2, StoreAssumption
<1>8. ResultsAreOf(bundle')
  BY <1>2, <1>4, <1>5, <1>6, <1>7 DEF ResultsAreOf
<1> QED BY <1>2, <1>8, WorkKept

LEMMA StartSessionSound ==
  ASSUME StoreInv(bundle), StartSession
  PROVE  StoreInv(bundle')
<1>1. PICK stage \in Components, fresh \in BOOLEAN :
        bundle' = [bundle EXCEPT
           !.session = stage, !.running = TRUE,
           !.predecessor = IF stage = "servo" THEN NoRevision ELSE bundle.draft["servo"],
           !.result = IF stage = "servo" /\ fresh THEN NoRevision ELSE @,
           !.progress = IF stage = "servo" \/ (@ # << >> /\ ~fresh) THEN @
                        ELSE <<[basis |-> bundle.draft["servo"], completed |-> FALSE]>>]
  BY DEF StartSession
<1> DEFINE predecessor == IF stage = "servo" THEN NoRevision ELSE bundle.draft["servo"]
           result == IF stage = "servo" /\ fresh THEN NoRevision ELSE bundle.result
           begun == <<[basis |-> bundle.draft["servo"], completed |-> FALSE]>>
           progress == IF stage = "servo" \/ (bundle.progress # << >> /\ ~fresh)
                       THEN bundle.progress ELSE begun
           u == [bundle EXCEPT !.session = stage, !.running = TRUE]
           v == [u EXCEPT !.predecessor = predecessor, !.result = result,
                          !.progress = progress]
<1>2. /\ bundle \in StoreRecord /\ bundle.draft \in [Components -> Nat]
      /\ bundle.result \in Nat
      /\ bundle.progress \in Maybe([basis : Nat, completed : BOOLEAN])
      /\ ResultsAreOf(bundle)
  BY DEF StoreInv, StoreRecord, Values
<1>3. /\ predecessor \in Nat /\ result \in Nat
      /\ begun \in Maybe([basis : Nat, completed : BOOLEAN])
      /\ begun # << >> /\ ~begun[1].completed
  BY <1>2 DEF NoRevision, Components, Maybe
<1>4. /\ stage = "head_camera" => progress # << >>
      /\ progress = bundle.progress \/ progress = begun
  BY <1>3 DEF Components
<1>5. bundle' = v
  BY <1>1, <1>2 DEF StoreRecord
<1> HIDE DEF predecessor, result, begun, progress
<1>6. u \in StoreRecord
  BY <1>2 DEF StoreRecord
<1>7. v \in StoreRecord
  <2> HIDE DEF u
  <2> QED BY <1>2, <1>3, <1>4, <1>6 DEF StoreRecord
<1>8. /\ SameFiles(bundle, v) /\ SamePrograms(bundle, v)
      /\ v.draft = bundle.draft /\ v.session = stage /\ v.progress = progress
      /\ v.receipt = bundle.receipt /\ v.basis = bundle.basis
      /\ v.handmade = bundle.handmade /\ v.reused = bundle.reused
      /\ v.revisions = bundle.revisions
  BY <1>2 DEF StoreRecord, SameFiles, SamePrograms
<1> HIDE DEF u, v
<1>9. ResultsAreOf(v)
  BY <1>2, <1>3, <1>4, <1>8 DEF ResultsAreOf, SolvedOn, Elsewhere
<1> QED BY <1>5, <1>7, <1>8, <1>9, WorkKept

LEMMA SessionEndsSound ==
  ASSUME StoreInv(bundle), StopSession \/ SessionExits
  PROVE  StoreInv(bundle')
<1>1. bundle \in StoreRecord /\ ResultsAreOf(bundle)
  BY DEF StoreInv
<1>2. PICK session \in {bundle.session, "none"} :
        bundle' = [bundle EXCEPT !.session = session, !.running = FALSE]
  <2>1. CASE StopSession
    BY <2>1 DEF StopSession
  <2>2. CASE SessionExits
    <3>1. bundle' = [bundle EXCEPT !.session = bundle.session, !.running = FALSE]
      BY <1>1, <2>2 DEF SessionExits, StoreRecord
    <3> QED BY <3>1
  <2> QED BY <2>1, <2>2
<1>3. bundle' \in StoreRecord
  <2>1. session \in Components \cup {"none"}
    BY <1>1 DEF StoreRecord
  <2> QED BY <1>1, <1>2, <2>1 DEF StoreRecord
<1>4. /\ SameFiles(bundle, bundle') /\ SamePrograms(bundle, bundle')
      /\ bundle'.draft = bundle.draft /\ bundle'.progress = bundle.progress
      /\ bundle'.receipt = bundle.receipt /\ bundle'.basis = bundle.basis
      /\ bundle'.handmade = bundle.handmade /\ bundle'.reused = bundle.reused
      /\ bundle'.revisions = bundle.revisions
      /\ bundle'.session \in {bundle.session, "none"}
  BY <1>1, <1>2 DEF StoreRecord, SameFiles, SamePrograms
<1>5. ResultsAreOf(bundle')
  BY <1>1, <1>4 DEF ResultsAreOf, SolvedOn, Elsewhere
<1> QED BY <1>3, <1>4, <1>5, WorkKept

(* A sweep ends on the predecessors it was begun on.                       *)
LEMMA SessionResultSound ==
  ASSUME StoreInv(bundle), SessionResult
  PROVE  StoreInv(bundle')
<1> DEFINE r == bundle.revisions + 1
<1>1. /\ bundle \in StoreRecord /\ bundle.draft \in [Components -> Nat]
      /\ bundle.revisions \in Nat /\ bundle.revisions < MaxRevisions
      /\ bundle.progress \in Maybe([basis : Nat, completed : BOOLEAN])
      /\ ResultsAreOf(bundle)
  BY DEF StoreInv, StoreRecord, Values, SessionResult
<1>2. r \in Nat /\ r \in 1..MaxRevisions /\ r <= MaxRevisions
  BY <1>1, StoreAssumption
<1>3. CASE bundle' = [bundle EXCEPT !.revisions = @ + 1, !.result = bundle.revisions + 1]
  <2>1. bundle' = [bundle EXCEPT !.revisions = r, !.result = r]
    BY <1>1, <1>3 DEF StoreRecord
  <2> HIDE DEF r
  <2>2. bundle' \in StoreRecord
    BY <1>1, <1>2, <2>1 DEF StoreRecord
  <2>3. /\ SameFiles(bundle, bundle') /\ SamePrograms(bundle, bundle')
        /\ bundle'.draft = bundle.draft /\ bundle'.session = bundle.session
        /\ bundle'.progress = bundle.progress /\ bundle'.receipt = bundle.receipt
        /\ bundle'.basis = bundle.basis /\ bundle'.handmade = bundle.handmade
        /\ bundle'.reused = bundle.reused /\ bundle'.revisions = r
    BY <1>1, <2>1 DEF StoreRecord, SameFiles, SamePrograms
  <2>4. bundle.revisions <= r
    BY <1>1 DEF r
  <2>5. Elsewhere(bundle) \subseteq Elsewhere(bundle')
    BY <2>3 DEF Elsewhere
  <2>6. \A x, servo : SolvedOn(bundle, x, servo) => SolvedOn(bundle', x, servo)
    BY <1>1, <1>2, <2>3, <2>4, <2>5, SolvedGrows
  <2>7. ResultsAreOf(bundle')
    BY <1>1, <1>2, <2>3, <2>6 DEF ResultsAreOf
  <2> QED BY <2>2, <2>3, <2>7, WorkKept
<1>4. CASE /\ bundle.session = "head_camera"
           /\ bundle.draft["servo"] = bundle.progress[1].basis
           /\ bundle' = [Measured(bundle, "head_camera", FALSE)
                           EXCEPT !.progress[1].completed = TRUE]
  <2> DEFINE m == Measured(bundle, "head_camera", FALSE)
             progress == <<[bundle.progress[1] EXCEPT !.completed = TRUE]>>
  <2>1. /\ m \in StoreRecord /\ SameFiles(bundle, m) /\ SamePrograms(bundle, m)
        /\ m.revisions = r /\ m.session = bundle.session /\ m.progress = bundle.progress
        /\ m.receipt = bundle.receipt /\ m.reused = bundle.reused
        /\ m.draft = [bundle.draft EXCEPT !["head_camera"] = r]
        /\ m.handmade = bundle.handmade
        /\ m.basis[r] = bundle.draft["servo"]
        /\ \A x, servo : SolvedOn(bundle, x, servo) => SolvedOn(m, x, servo)
    <3>1. "head_camera" \in Components
      BY DEF Components
    <3> QED BY <1>1, <3>1, MeasuredFacts
  <2>2. bundle.progress # << >>
    BY <1>1, <1>4 DEF ResultsAreOf
  <2>3. /\ progress \in Maybe([basis : Nat, completed : BOOLEAN])
        /\ progress # << >> /\ progress[1].basis = bundle.progress[1].basis
        /\ bundle' = [m EXCEPT !.progress = progress]
    <3>1. PICK p \in [basis : Nat, completed : BOOLEAN] : bundle.progress = <<p>>
      BY <1>1, <2>2 DEF Maybe
    <3> DEFINE q == [p EXCEPT !.completed = TRUE]
    <3>2. q \in [basis : Nat, completed : BOOLEAN] /\ q.basis = p.basis
      BY <3>1
    <3>3. <<p>>[1] = p /\ bundle.progress[1].basis = p.basis
      BY <3>1
    <3>8. progress = <<q>>
      BY <3>3, <3>1
    <3>9. [m.progress EXCEPT ![1].completed = TRUE] = [<<p>> EXCEPT ![1] = q]
      BY <2>1, <3>1, <3>3
    <3>10. \A y : [<<p>> EXCEPT ![1] = y] = <<y>>
      OBVIOUS
    <3> HIDE DEF q
    <3>4. progress = [m.progress EXCEPT ![1].completed = TRUE]
      BY <3>8, <3>9, <3>10
    <3>5. bundle' = [m EXCEPT !.progress = [m.progress EXCEPT ![1].completed = TRUE]]
      BY <1>4, <2>1 DEF StoreRecord
    <3>6. progress \in Maybe([basis : Nat, completed : BOOLEAN])
      BY <3>2, <3>8 DEF Maybe
    <3>7. progress # << >> /\ progress[1].basis = bundle.progress[1].basis
      BY <3>2, <3>3, <3>8
    <3> QED BY <3>4, <3>5, <3>6, <3>7
  <2> HIDE DEF m, progress, r
  <2>4. bundle' \in StoreRecord
    BY <2>1, <2>3 DEF StoreRecord
  <2>5. /\ SameFiles(m, bundle') /\ SamePrograms(m, bundle')
        /\ bundle'.draft = m.draft /\ bundle'.session = m.session
        /\ bundle'.progress = progress /\ bundle'.receipt = m.receipt
        /\ bundle'.basis = m.basis /\ bundle'.handmade = m.handmade
        /\ bundle'.reused = m.reused /\ bundle'.revisions = m.revisions
    BY <2>1, <2>3 DEF StoreRecord, SameFiles, SamePrograms
  <2>6. SameFiles(bundle, bundle') /\ SamePrograms(bundle, bundle')
    BY <2>1, <2>5 DEF SameFiles, SamePrograms
  <2>7. bundle'.draft["head_camera"] = r
    BY <1>1, <2>1, <2>5 DEF Components
  <2>8. r \in 1..bundle'.revisions
    BY <1>2, <2>1, <2>5
  <2>9. SolvedOn(bundle', r, progress[1].basis)
    BY <1>4, <2>1, <2>3, <2>5, <2>8 DEF SolvedOn
  <2>10. \A x, servo : SolvedOn(bundle, x, servo) => SolvedOn(bundle', x, servo)
    BY <2>1, <2>5 DEF SolvedOn, Elsewhere
  <2>11. ResultsAreOf(bundle')
    BY <1>1, <1>2, <2>1, <2>3, <2>5, <2>7, <2>9, <2>10 DEF ResultsAreOf
  <2> QED BY <2>4, <2>6, <2>11, WorkKept
<1> QED BY <1>3, <1>4 DEF SessionResult

(* A result is accepted on the predecessors that are the drafts now.       *)
LEMMA SaveResultSound ==
  ASSUME StoreInv(bundle), SaveResult
  PROVE  StoreInv(bundle')
<1>1. /\ bundle \in StoreRecord /\ bundle.draft \in [Components -> Nat]
      /\ bundle.result \in Nat /\ bundle.predecessor \in Nat
      /\ bundle.receipt \in [Components -> Maybe([on : Nat, result : Nat])]
      /\ bundle.progress \in Maybe([basis : Nat, completed : BOOLEAN])
      /\ ResultsAreOf(bundle)
  BY DEF StoreInv, StoreRecord, Values
<1>2. CASE bundle' = [bundle EXCEPT
               !.draft["servo"] = bundle.result,
               !.receipt["servo"] = <<[on |-> NoRevision, result |-> bundle.result]>>]
  <2> DEFINE draft == [bundle.draft EXCEPT !["servo"] = bundle.result]
             accepted == <<[on |-> NoRevision, result |-> bundle.result]>>
             receipt == [bundle.receipt EXCEPT !["servo"] = accepted]
  <2>1. /\ draft \in Values /\ draft["head_camera"] = bundle.draft["head_camera"]
    BY <1>1 DEF Values, Components
  <2>2. accepted \in Maybe([on : Nat, result : Nat])
    BY <1>1 DEF Maybe, NoRevision
  <2>3. bundle' = [bundle EXCEPT !.draft = draft, !.receipt = receipt]
    BY <1>1, <1>2 DEF StoreRecord
  <2> HIDE DEF draft, accepted
  <2>4. /\ receipt \in [Components -> Maybe([on : Nat, result : Nat])]
        /\ receipt["head_camera"] = bundle.receipt["head_camera"]
    BY <1>1, <2>2 DEF Components
  <2> HIDE DEF receipt
  <2>5. bundle' \in StoreRecord
    BY <1>1, <2>1, <2>3, <2>4 DEF StoreRecord
  <2>6. /\ SameFiles(bundle, bundle') /\ SamePrograms(bundle, bundle')
        /\ bundle'.draft = draft /\ bundle'.session = bundle.session
        /\ bundle'.progress = bundle.progress /\ bundle'.receipt = receipt
        /\ bundle'.basis = bundle.basis /\ bundle'.handmade = bundle.handmade
        /\ bundle'.reused = bundle.reused /\ bundle'.revisions = bundle.revisions
    BY <1>1, <2>3 DEF StoreRecord, SameFiles, SamePrograms
  <2>7. ResultsAreOf(bundle')
    BY <1>1, <2>1, <2>4, <2>6 DEF ResultsAreOf, SolvedOn, Elsewhere
  <2> QED BY <2>5, <2>6, <2>7, WorkKept
<1>3. CASE /\ bundle.session = "head_camera" /\ PredecessorsKept
           /\ bundle.progress[1].completed
           /\ bundle.progress[1].basis = bundle.draft["servo"]
           /\ bundle' = [bundle EXCEPT
               !.receipt["head_camera"] =
                 <<[on |-> bundle.predecessor, result |-> bundle.draft["head_camera"]]>>]
  <2> DEFINE accepted == [on |-> bundle.predecessor, result |-> bundle.draft["head_camera"]]
             receipt == [bundle.receipt EXCEPT !["head_camera"] = <<accepted>>]
  <2>1. SolvedOn(bundle, bundle.draft["head_camera"], bundle.predecessor)
    BY <1>1, <1>3 DEF ResultsAreOf, PredecessorsKept
  <2>2. /\ accepted \in [on : Nat, result : Nat] /\ accepted.on = bundle.predecessor
        /\ accepted.result = bundle.draft["head_camera"]
    BY <1>1 DEF Components
  <2>3. bundle' = [bundle EXCEPT !.receipt = receipt]
    BY <1>1, <1>3 DEF StoreRecord
  <2> HIDE DEF accepted
  <2>4. /\ receipt \in [Components -> Maybe([on : Nat, result : Nat])]
        /\ receipt["head_camera"] = <<accepted>>
    BY <1>1, <2>2 DEF Components, Maybe
  <2> HIDE DEF receipt
  <2>5. bundle' \in StoreRecord
    BY <1>1, <2>3, <2>4 DEF StoreRecord
  <2>6. /\ SameFiles(bundle, bundle') /\ SamePrograms(bundle, bundle')
        /\ bundle'.draft = bundle.draft /\ bundle'.session = bundle.session
        /\ bundle'.progress = bundle.progress /\ bundle'.receipt = receipt
        /\ bundle'.basis = bundle.basis /\ bundle'.handmade = bundle.handmade
        /\ bundle'.reused = bundle.reused /\ bundle'.revisions = bundle.revisions
    BY <1>1, <2>3 DEF StoreRecord, SameFiles, SamePrograms
  <2>7. \A x, servo : SolvedOn(bundle, x, servo) => SolvedOn(bundle', x, servo)
    BY <2>6 DEF SolvedOn, Elsewhere
  <2>8. bundle'.receipt["head_camera"][1] = accepted
    BY <2>4, <2>6
  <2>9. ResultsAreOf(bundle')
    BY <1>1, <2>1, <2>2, <2>6, <2>7, <2>8 DEF ResultsAreOf
  <2> QED BY <2>5, <2>6, <2>9, WorkKept
<1> QED BY <1>2, <1>3 DEF SaveResult

(* What is copied back is known to be.                                     *)
LEMMA ReuseSound ==
  ASSUME StoreInv(bundle), Reuse
  PROVE  StoreInv(bundle')
<1>1. PICK c \in Components :
        /\ Verifies
        /\ bundle' = [bundle EXCEPT
             !.draft[c] = bundle.runtime[1].values[c],
             !.reused = @ \cup {bundle.runtime[1].values[c]},
             !.receipt[c] = <<[on |-> NoRevision, result |-> bundle.runtime[1].values[c]]>>]
  BY DEF Reuse
<1>2. /\ bundle \in StoreRecord /\ bundle.draft \in [Components -> Nat]
      /\ bundle.receipt \in [Components -> Maybe([on : Nat, result : Nat])]
      /\ bundle.runtime \in Maybe(Rendering) /\ bundle.reused \in SUBSET Nat
      /\ bundle.revisions \in Nat /\ ResultsAreOf(bundle)
  BY DEF StoreInv, StoreRecord, Values
<1> DEFINE x == bundle.runtime[1].values[c]
           draft == [bundle.draft EXCEPT ![c] = x]
           accepted == [on |-> NoRevision, result |-> x]
           receipt == [bundle.receipt EXCEPT ![c] = <<accepted>>]
           reused == bundle.reused \cup {x}
<1>3. x \in Nat
  BY <1>1, <1>2 DEF Verifies, Maybe, Rendering, Values
<1>4. bundle' = [bundle EXCEPT !.draft = draft, !.reused = reused, !.receipt = receipt]
  BY <1>1, <1>2 DEF StoreRecord
<1> HIDE DEF x
<1>5. /\ draft \in Values /\ draft["head_camera"] \in {x, bundle.draft["head_camera"]}
      /\ reused \in SUBSET Nat
  BY <1>2, <1>3 DEF Values, Components
<1>6. accepted \in [on : Nat, result : Nat] /\ accepted.on = NoRevision
  BY <1>3 DEF NoRevision
<1> HIDE DEF accepted, draft
<1>7. /\ receipt \in [Components -> Maybe([on : Nat, result : Nat])]
      /\ \/ receipt["head_camera"] = <<accepted>>
         \/ receipt["head_camera"] = bundle.receipt["head_camera"]
  BY <1>2, <1>6 DEF Components, Maybe
<1>8. x \in reused /\ bundle.reused \subseteq reused
  OBVIOUS
<1> HIDE DEF receipt, reused
<1>9. bundle' \in StoreRecord
  BY <1>2, <1>4, <1>5, <1>7 DEF StoreRecord
<1>10. /\ SameFiles(bundle, bundle') /\ SamePrograms(bundle, bundle')
       /\ bundle'.draft = draft /\ bundle'.session = bundle.session
       /\ bundle'.progress = bundle.progress /\ bundle'.receipt = receipt
       /\ bundle'.basis = bundle.basis /\ bundle'.handmade = bundle.handmade
       /\ bundle'.reused = reused /\ bundle'.revisions = bundle.revisions
  BY <1>2, <1>4 DEF StoreRecord, SameFiles, SamePrograms
<1>11. \A y, servo : SolvedOn(bundle, y, servo) => SolvedOn(bundle', y, servo)
  BY <1>8, <1>10 DEF SolvedOn, Elsewhere
<1>12. \A servo : SolvedOn(bundle', x, servo)
  BY <1>8, <1>10 DEF SolvedOn, Elsewhere
<1>13. receipt["head_camera"] = <<accepted>> => receipt["head_camera"][1].on = NoRevision
  BY <1>6
<1>14. ResultsAreOf(bundle')
  BY <1>2, <1>5, <1>7, <1>10, <1>11, <1>12, <1>13 DEF ResultsAreOf
<1> QED BY <1>9, <1>10, <1>14, WorkKept

-----------------------------------------------------------------------------
LEMMA StoreStarts == InitBundle => StoreInv(bundle)
<1> SUFFICES ASSUME InitBundle PROVE StoreInv(bundle)
  OBVIOUS
<1>1. /\ bundle.versions = [v \in Versions |-> IF v = 1 THEN <<Imported>> ELSE << >>]
      /\ bundle.active = 1 /\ bundle.runtime = <<[of |-> 1, values |-> Imported]>>
      /\ bundle.previous = << >> /\ bundle.draft = [c \in Components |-> NoRevision]
      /\ bundle.op = [a \in Actors |-> << >>] /\ bundle.rescue = [a \in Actors |-> NoRescue]
      /\ bundle.from = [a \in Actors |-> NoVersion]
      /\ bundle.session = "none" /\ bundle.progress = << >>
      /\ bundle.receipt = [c \in Components |-> << >>] /\ bundle.revisions = 0
      /\ bundle.torn = FALSE
  BY DEF InitBundle
<1>2. bundle \in StoreRecord
  <2>1. /\ [v \in Versions |-> IF v = 1 THEN <<Imported>> ELSE << >>]
             \in [Versions -> Maybe(Values)]
        /\ 1 \in Versions
        /\ <<[of |-> 1, values |-> Imported]>> \in Maybe(Rendering)
    BY ValuesKnown, StoreAssumption DEF Maybe, Rendering
  <2>2. << >> \in Maybe(Rendering) /\ << >> \in Programs
    BY DEF Maybe, Programs
  <2>3. << >> \in Maybe([basis : Nat, completed : BOOLEAN])
    BY DEF Maybe
  <2>4. [c \in Components |-> << >>] \in [Components -> Maybe([on : Nat, result : Nat])]
    BY DEF Maybe
  <2>5. [c \in Components |-> NoRevision] \in Values
    BY DEF Values, NoRevision
  <2>6. [a \in Actors |-> NoRescue] \in [Actors -> Rescues]
    BY DEF NoRescue, Rescues, AnyVersion
  <2>7. [a \in Actors |-> NoVersion] \in [Actors -> AnyVersion]
    BY DEF AnyVersion
  <2>8. [r \in 1..MaxRevisions |-> NoRevision] \in [1..MaxRevisions -> Nat]
    BY DEF NoRevision
  <2>9. [a \in Actors |-> << >>] \in [Actors -> Programs]
    BY <2>2
  <2>10. [a \in Actors |-> FALSE] \in [Actors -> BOOLEAN]
    OBVIOUS
  <2>11. NoRevision \in Nat
    BY DEF NoRevision
  <2> HIDE DEF Imported
  <2> QED BY <2>1, <2>2, <2>3, <2>4, <2>5, <2>6, <2>7, <2>8, <2>9, <2>10, <2>11
          DEF InitBundle, StoreRecord
<1>3. DirectoriesWhole(bundle)
  BY <1>1, StoreAssumption DEF DirectoriesWhole, IsRendering
<1>4. ReadsFirst(bundle)
  BY <1>1 DEF ReadsFirst, Ordered
<1>5. \A a \in Actors : Promise(bundle, a)
  BY <1>1 DEF Promise
<1>6. ResultsAreOf(bundle)
  BY <1>1, StoreAssumption DEF ResultsAreOf, Components
<1> QED BY <1>1, <1>2, <1>3, <1>4, <1>5, <1>6 DEF StoreInv

LEMMA StoreStep == StoreInv(bundle) /\ (NextStore \/ NextWorkbench) => StoreInv(bundle')
<1> SUFFICES ASSUME StoreInv(bundle), NextStore \/ NextWorkbench
             PROVE  StoreInv(bundle')
  OBVIOUS
<1>1. ASSUME NEW a \in Actors, Operation(a) \/ Program(a) PROVE StoreInv(bundle')
  BY <1>1, BeginningsSound, FileStepSound, StepRaisesSound, ProcessDiesSound DEF Program
<1>2. CASE CommandLine
  <2>1. "cli" \in Actors
    BY DEF Actors
  <2> QED BY <1>2, <2>1, BeginningsSound
<1>3. CASE NextStore
  BY <1>1, <1>2, <1>3, SaveByHandSound DEF NextStore
<1>4. CASE NextWorkbench
  <2>1. "web" \in Actors
    BY DEF Actors
  <2> QED BY <1>1, <1>4, <2>1, SaveByHandSound, StartSessionSound, SessionEndsSound,
             SessionResultSound, SaveResultSound, ReuseSound DEF NextWorkbench, Program
<1> QED BY <1>3, <1>4

LEMMA StoreIsTrue ==
  StoreInv(bundle) => LaunchesWhole /\ AllOrNothing /\ MeasuredIsCompatible
<1> SUFFICES ASSUME StoreInv(bundle)
             PROVE  LaunchesWhole /\ AllOrNothing /\ MeasuredIsCompatible
  OBVIOUS
<1>1. LaunchesWhole
  BY DEF LaunchesWhole, Gate, Verifies, StoreInv, DirectoriesWhole, IsRendering
<1>2. AllOrNothing
  BY DEF AllOrNothing, StoreInv
<1>3. MeasuredIsCompatible
  <2> SUFFICES ASSUME bundle.draft["head_camera"] \notin bundle.reused,
                      Current("head_camera"), bundle.draft["servo"] # NoRevision,
                      bundle.draft["head_camera"] \notin bundle.handmade
               PROVE  bundle.basis[bundle.draft["head_camera"]] = bundle.draft["servo"]
    BY DEF MeasuredIsCompatible, CurrentIsCompatible
  <2>1. /\ bundle.receipt["head_camera"] # << >>
        /\ bundle.receipt["head_camera"][1].result = bundle.draft["head_camera"]
        /\ bundle.receipt["head_camera"][1].on = bundle.draft["servo"]
    BY DEF Current
  <2> QED BY <2>1 DEF StoreInv, ResultsAreOf, SolvedOn, Elsewhere
<1> QED BY <1>1, <1>2, <1>3
-----------------------------------------------------------------------------
(* All parts together: each takes its own steps and leaves the others be.  *)
CommissioningInv == SweepInv /\ StoreInv(bundle) /\ SiteInv /\ UnitInv

LEMMA SweepRests == SweepInv /\ UNCHANGED sweep => SweepInv'
BY DEF SweepInv

LEMMA StoreRests == StoreInv(bundle) /\ UNCHANGED bundle => StoreInv(bundle')
BY DEF StoreInv

LEMMA SiteRests == SiteInv /\ UNCHANGED site => SiteInv'
BY DEF SiteInv

LEMMA UnitRests == UnitInv /\ UNCHANGED unit => UnitInv'
BY DEF UnitInv

LEMMA CommissioningStarts == MCInit => CommissioningInv
BY SweepStarts, StoreStarts, SiteStarts, UnitStarts DEF MCInit, CommissioningInv

LEMMA CommissioningStep ==
  CommissioningInv /\ [MCNext]_<<part, sweep, bundle, site, unit>> => CommissioningInv'
<1> SUFFICES ASSUME CommissioningInv, [MCNext]_<<part, sweep, bundle, site, unit>>
             PROVE  CommissioningInv'
  OBVIOUS
<1>1. SweepInv /\ StoreInv(bundle) /\ SiteInv /\ UnitInv
  BY DEF CommissioningInv
<1>2. (NextSweep \/ UNCHANGED sweep) => SweepInv'
  BY <1>1, SweepStep, SweepRests
<1>3. (NextStore \/ NextWorkbench \/ UNCHANGED bundle) => StoreInv(bundle')
  BY <1>1, StoreStep, StoreRests
<1>4. (NextSite \/ UNCHANGED site) => SiteInv'
  BY <1>1, SiteStep, SiteRests
<1>5. (NextUnit \/ UNCHANGED unit) => UnitInv'
  BY <1>1, UnitStep, UnitRests
<1>6. SweepInv' /\ StoreInv(bundle') /\ SiteInv' /\ UnitInv'
  BY <1>2, <1>3, <1>4, <1>5 DEF MCNext
<1> QED BY <1>6 DEF CommissioningInv

LEMMA CommissioningIsSound == MCSpec => []CommissioningInv
<1>1. MCInit => CommissioningInv
  BY CommissioningStarts
<1>2. CommissioningInv /\ [MCNext]_<<part, sweep, bundle, site, unit>> => CommissioningInv'
  BY CommissioningStep
<1> QED BY <1>1, <1>2, PTL DEF MCSpec

(* No motion of a sweep goes on that no motion request of it answers for,  *)
(* and no sweep says it is complete before the arm is back, whatever order *)
(* the answers of the pose server, the captures and the stops arrive in    *)
(* (_handle_pose_result, _stop_pose and _finish of the sweep).             *)
THEOREM MotionIsAlwaysMinded == MCSpec => []MotionIsMinded
<1>1. CommissioningInv => MotionIsMinded
  BY SweepIsTrue DEF CommissioningInv, MotionIsMinded
<1> QED BY <1>1, CommissioningIsSound, PTL

(* Every row of a sweep was measured on a resting arm, every draft passed  *)
(* on rows it was not solved from, a head calibration shown as current     *)
(* that was not copied back was solved on the servos that are drafted now, *)
(* a published place was reached on the map it is published with, and the  *)
(* components of a published calibration passed.                           *)
THEOREM EvidenceIsAlwaysTrue == MCSpec => []EvidenceIsTrue
<1>1. CommissioningInv => EvidenceIsTrue
  BY SweepIsTrue, StoreIsTrue, SiteIsTrue, UnitIsTrue DEF CommissioningInv, EvidenceIsTrue
<1> QED BY <1>1, CommissioningIsSound, PTL

(* Whatever step of the store fails and wherever a process dies: a runtime *)
(* that passes the gate of a launch is the active version's rendering, an  *)
(* operation nobody interfered with leaves its target or what it found,    *)
(* and a published map is of one piece.                                    *)
THEOREM SelectionIsAlwaysWhole == MCSpec => []SelectedIsWhole
<1>1. CommissioningInv => SelectedIsWhole
  BY StoreIsTrue, SiteIsTrue DEF CommissioningInv, SelectedIsWhole
<1> QED BY <1>1, CommissioningIsSound, PTL

=============================================================================
