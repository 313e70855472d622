------------------------- MODULE MotionGuards_proofs -------------------------
(***************************************************************************)
(* Proofs about the two programs every motion goes through: the drive      *)
(* command arbiter, for every set of speeds, every timeout, limit, queue   *)
(* depth and timer gap; and the streaming executor of the arm, for every   *)
(* set of goals and every bound on chunks, samples, queue and rounds.      *)
(***************************************************************************)
EXTENDS DriveSafety, StreamingExecutor, SequenceTheorems, TLAPS

-----------------------------------------------------------------------------
(* Lines of samples *)

Sample == [seq : Nat, index : Nat]
First == [seq |-> 0, index |-> 1]

(* Samples that follow each other as they were sent                        *)
Chain(line) == \A i \in 1 .. Len(line) - 1 : Successor(line[i], line[i + 1])

(* A chain that begins with the first sample of all if nothing was         *)
(* published, and ends where the next chunk continues it                   *)
Ordered(line, n, accepted) ==
    /\ Chain(line)
    /\ n = 0 /\ line # <<>> => line[1] = First
    /\ line # <<>> => line[Len(line)].seq + 1 = accepted
    /\ line = <<>> => accepted = 0

ChunkOf(a, m) == [i \in 1 .. m |-> [seq |-> a, index |-> i]]

(* A chunk is a chain of samples.                                          *)
LEMMA ChunkIsSamples ==
    ASSUME NEW a \in Nat, NEW m \in Nat \ {0}
    PROVE  /\ ChunkOf(a, m) \in Seq(Sample) /\ Len(ChunkOf(a, m)) = m
           /\ Chain(ChunkOf(a, m))
           /\ ChunkOf(a, m)[1] = [seq |-> a, index |-> 1]
           /\ ChunkOf(a, m)[m].seq = a
<1> DEFINE c == ChunkOf(a, m)
<1>1. \A i \in 1 .. m : c[i].seq = a /\ c[i].index = i /\ c[i] \in Sample
  BY DEF ChunkOf, Sample
<1>2. c \in [1 .. m -> Sample]
  BY <1>1 DEF ChunkOf
<1>3. c \in Seq(Sample) /\ Len(c) = m
  BY <1>2
<1> HIDE DEF c
<1>4. ASSUME NEW i \in 1 .. Len(c) - 1 PROVE Successor(c[i], c[i + 1])
  <2>1. i \in 1 .. m /\ i + 1 \in 1 .. m
    BY <1>3
  <2> QED
    BY <1>1, <2>1 DEF Successor
<1>5. 1 \in 1 .. m /\ m \in 1 .. m
  OBVIOUS
<1>6. c[1] = [seq |-> a, index |-> 1] /\ c[m].seq = a
  BY <1>1, <1>5 DEF Sample
<1>7. Chain(c)
  BY <1>4 DEF Chain
<1> QED
  BY <1>3, <1>6, <1>7 DEF c

(* A chain is prolonged by one that continues it.                          *)
LEMMA ChainProlonged ==
    ASSUME NEW s \in Seq(Sample), NEW t \in Seq(Sample), Chain(s), Chain(t),
           s # <<>> /\ t # <<>> => Successor(s[Len(s)], t[1])
    PROVE  Chain(s \o t)
<1>1. Len(s) \in Nat /\ Len(t) \in Nat /\ Len(s \o t) = Len(s) + Len(t)
  OBVIOUS
<1>2. ASSUME NEW i \in 1 .. Len(s \o t) - 1
      PROVE  Successor((s \o t)[i], (s \o t)[i + 1])
  <2>1. CASE i + 1 <= Len(s)
    <3>1. (s \o t)[i] = s[i] /\ (s \o t)[i + 1] = s[i + 1]
      BY <1>1, <2>1
    <3> QED
      BY <1>1, <2>1, <3>1 DEF Chain
  <2>2. CASE i = Len(s)
    <3>1. (s \o t)[i] = s[i] /\ (s \o t)[i + 1] = t[1]
      BY <1>1, <2>2
    <3>2. s # <<>> /\ t # <<>>
      BY <1>1, <2>2
    <3> QED
      BY <2>2, <3>1, <3>2
  <2>3. CASE i > Len(s)
    <3>1. (s \o t)[i] = t[i - Len(s)] /\ (s \o t)[i + 1] = t[i + 1 - Len(s)]
      BY <1>1, <2>3
    <3>2. i - Len(s) \in 1 .. Len(t) - 1 /\ (i - Len(s)) + 1 = i + 1 - Len(s)
      BY <1>1, <2>3
    <3> QED
      BY <3>1, <3>2 DEF Chain
  <2> QED
    BY <1>1, <2>1, <2>2, <2>3
<1> QED
  BY <1>2 DEF Chain

(* An accepted chunk prolongs the line of a session.                       *)
LEMMA AcceptedKeepsOrder ==
    ASSUME NEW line \in Seq(Sample), NEW n \in Nat, NEW a \in Nat,
           NEW m \in Nat \ {0}, Ordered(line, n, a)
    PROVE  Ordered(line \o ChunkOf(a, m), n, a + 1)
<1> DEFINE c == ChunkOf(a, m)
<1>1. /\ c \in Seq(Sample) /\ Len(c) = m /\ Chain(c)
      /\ c[1] = [seq |-> a, index |-> 1] /\ c[m].seq = a
  BY ChunkIsSamples
<1> HIDE DEF c
<1>2. ASSUME line # <<>> PROVE Successor(line[Len(line)], c[1])
  BY <1>1, <1>2 DEF Ordered, Successor
<1>3. Chain(line \o c)
  BY <1>1, <1>2, ChainProlonged DEF Ordered
<1>4. Len(line \o c) = Len(line) + m /\ Len(line) \in Nat
  BY <1>1
<1>5. (line \o c)[Len(line \o c)] = c[m]
  BY <1>1, <1>4
<1>6. line \o c # <<>>
  BY <1>4
<1>7. ASSUME n = 0 PROVE (line \o c)[1] = First
  <2>1. CASE line = <<>>
    BY <1>1, <2>1 DEF Ordered, First
  <2>2. CASE line # <<>>
    BY <1>1, <1>7, <2>2 DEF Ordered, First
  <2> QED
    BY <2>1, <2>2
<1> QED
  BY <1>1, <1>3, <1>5, <1>6, <1>7 DEF Ordered, c

(* What was published last is the head of the line; publishing the next    *)
(* sample drops it.                                                        *)
LEMMA PublishedKeepsOrder ==
    ASSUME NEW p \in Sample, NEW h \in Sample, NEW q \in Seq(Sample),
           NEW n \in Nat, NEW a \in Nat,
           Ordered(<<p>> \o (<<h>> \o q), n, a)
    PROVE  Ordered(<<h>> \o q, n + 1, a)
<1> DEFINE s == <<h>> \o q
           t == <<p>> \o s
<1>1. /\ s \in Seq(Sample) /\ t \in Seq(Sample) /\ Len(s) = Len(q) + 1
      /\ Len(t) = Len(s) + 1 /\ Len(s) \in Nat /\ Len(q) \in Nat
  OBVIOUS
<1>2. \A i \in 1 .. Len(s) : t[i + 1] = s[i]
  OBVIOUS
<1>3. Ordered(t, n, a)
  OBVIOUS
<1> HIDE DEF s, t
<1>4. Chain(s)
  <2> SUFFICES ASSUME NEW i \in 1 .. Len(s) - 1 PROVE Successor(s[i], s[i + 1])
    BY DEF Chain
  <2>1. i + 1 \in 1 .. Len(t) - 1 /\ i \in 1 .. Len(s) /\ i + 1 \in 1 .. Len(s)
    BY <1>1
  <2>2. Successor(t[i + 1], t[(i + 1) + 1])
    BY <1>3, <2>1 DEF Ordered, Chain
  <2> QED
    BY <1>2, <2>1, <2>2
<1>5. s # <<>> /\ t # <<>> /\ t[Len(t)] = s[Len(s)]
  BY <1>1, <1>2
<1>6. Ordered(s, n + 1, a)
  BY <1>3, <1>4, <1>5 DEF Ordered
<1> QED
  BY <1>6 DEF s

-----------------------------------------------------------------------------
(* One session: the invariant, and what a step does to it                  *)

Looping == {"check", "take", "publish", "round"}
Switching == {"list", "wait", "verify"}

(* The session of a goal is armed between these control points.            *)
ArmedAt(g) ==
    \/ pc[g] \in Looping \cup {"hold", "report", "reset"}
    \/ pc[g] \in Switching /\ target[g] = "normal"

Request == [to : {"policy", "normal"}, by : Sessions]

Owning ==
    /\ pc \in [Sessions -> PcValues]
    /\ target \in [Sessions -> {"policy", "normal"}]
    /\ active \in Sessions \cup {NoSession}
    /\ requests \in Seq(Request)

(* goal_reserved_ covers a goal from its admission to the end of execute().*)
Exclusive ==
    /\ \A g \in Sessions : Serving(g) => reserved
    /\ \A g, h \in Sessions : Serving(g) /\ Serving(h) => g = h
    /\ active # NoSession => ArmedAt(active)
    /\ \A g \in Sessions : pc[g] \in Looping \cup {"hold"} => active = g

OwnerInv == Owning /\ Exclusive

USE DEF NoSession

(* A step of the thread of g, while g is served                            *)
LEMMA ServedStepKeepsOwner ==
    ASSUME OwnerInv, NEW g \in Sessions, Serving(g), Serving(g)',
           NEW p \in PcValues, Goto(g, p), reserved' = reserved,
           target' \in [Sessions -> {"policy", "normal"}],
           requests' \in Seq(Request),
           active' = active \/ active' = g,
           active' = g => ArmedAt(g)',
           p \in Looping \cup {"hold"} => active' = g
    PROVE  OwnerInv'
<1>1. pc' \in [Sessions -> PcValues] /\ pc'[g] = p
      /\ \A h \in Sessions : h # g => pc'[h] = pc[h]
  BY DEF Goto, OwnerInv, Owning
<1>2. \A h \in Sessions : Serving(h)' <=> Serving(h)
  BY <1>1 DEF Serving
<1>3. active # NoSession => active \in Sessions /\ active = g
  BY DEF OwnerInv, Owning, Exclusive, ArmedAt, Serving, Looping, Switching
<1>4. Owning'
  BY <1>1 DEF OwnerInv, Owning
<1>5. active' # NoSession => active' = g
  BY <1>3
<1>6. \A h \in Sessions : pc'[h] \in Looping \cup {"hold"} => active' = h
  BY <1>1, <1>3 DEF OwnerInv, Exclusive, Serving, Looping
<1> QED
  BY <1>2, <1>4, <1>5, <1>6 DEF OwnerInv, Exclusive

(* Control points at which the goal of the thread is served                *)
LEMMA ServedPoints ==
    ASSUME NEW g, pc[g] \notin {"idle", "done"}
    PROVE  Serving(g)
BY DEF Serving

(* The two ways a switch ends: the thread goes on, with the session or to  *)
(* the report.                                                             *)
LEMMA SwitchEndGoes ==
    ASSUME NEW g \in Sessions, NEW b \in BOOLEAN, SwitchEnds(g, b)
    PROVE  \/ target[g] = "policy" /\ Goto(g, "subscriber")
           \/ Goto(g, "report")
BY DEF SwitchEnds, EndWith

LEMMA SwitchEndKeepsOwner ==
    ASSUME OwnerInv, NEW g \in Sessions, NEW b \in BOOLEAN, SwitchEnds(g, b),
           pc[g] \in Switching, UNCHANGED <<reserved, active, target>>,
           requests' \in Seq(Request)
    PROVE  OwnerInv'
<1>1. Serving(g) /\ pc \in [Sessions -> PcValues]
      /\ target' \in [Sessions -> {"policy", "normal"}]
  BY DEF OwnerInv, Owning, Serving, Switching
<1>2. CASE Goto(g, "report")
  <2>1. Serving(g)' /\ pc'[g] = "report" /\ "report" \in PcValues
    BY <1>1, <1>2 DEF Goto, Serving, PcValues
  <2>2. active' = g => ArmedAt(g)'
    BY <2>1 DEF ArmedAt
  <2> QED
    BY <1>1, <1>2, <2>1, <2>2, ServedStepKeepsOwner DEF Looping
<1>3. CASE target[g] = "policy" /\ Goto(g, "subscriber")
  <2>1. Serving(g)' /\ pc'[g] = "subscriber" /\ "subscriber" \in PcValues
    BY <1>1, <1>3 DEF Goto, Serving, PcValues
  <2>2. active # g
    BY <1>3, SessionsAssumption
       DEF OwnerInv, Exclusive, ArmedAt, Switching, Looping
  <2> QED
    BY <1>1, <1>3, <2>1, <2>2, ServedStepKeepsOwner DEF Looping
<1> QED
  BY <1>2, <1>3, SwitchEndGoes

LEMMA WorkerKeepsOwner ==
    ASSUME OwnerInv, NEW g \in Sessions, Worker(g)
    PROVE  OwnerInv'
<1> USE DEF arm, stream, round
<1>0. /\ pc \in [Sessions -> PcValues]
      /\ target \in [Sessions -> {"policy", "normal"}]
      /\ requests \in Seq(Request)
      /\ g # NoSession
  BY SessionsAssumption DEF OwnerInv, Owning
<1>1. CASE CheckPlan(g) \/ AwaitContext(g)
  <2>1. PICK p \in {"report", "context", "list"} : Goto(g, p)
    BY <1>1 DEF CheckPlan, AwaitContext, EndWith
  <2>2. /\ pc[g] \in {"plan", "context"} /\ UNCHANGED <<reserved, active, requests>>
        /\ target' \in [Sessions -> {"policy", "normal"}]
    BY <1>0, <1>1 DEF CheckPlan, AwaitContext
  <2>3. active # g
    BY <1>0, <2>2 DEF OwnerInv, Exclusive, ArmedAt, Looping, Switching
  <2>4. Serving(g) /\ Serving(g)' /\ p \in PcValues
    BY <1>0, <2>1, <2>2 DEF Serving, Goto, PcValues
  <2> QED
    BY <1>0, <2>1, <2>2, <2>3, <2>4, ServedStepKeepsOwner DEF Looping
<1>2. CASE ListControllers(g)
  <2>1. CASE \E b \in BOOLEAN : SwitchEnds(g, b) /\ UNCHANGED requests
    BY <1>0, <1>2, <2>1, SwitchEndKeepsOwner DEF ListControllers, Switching
  <2>2. CASE Goto(g, "wait") /\ requests' = Append(requests, [to |-> target[g], by |-> g])
    <3> DEFINE r == [to |-> target[g], by |-> g]
    <3>0. r \in Request
      BY <1>0 DEF Request
    <3>1. requests' \in Seq(Request)
      <4>1. requests' = Append(requests, r)
        BY <2>2
      <4> HIDE DEF r
      <4> QED
        BY <1>0, <3>0, <4>1, AppendProperties
    <3>2. Serving(g) /\ Serving(g)' /\ "wait" \in PcValues
      BY <1>0, <1>2, <2>2 DEF ListControllers, Serving, Goto, PcValues
    <3>3. active' = g => ArmedAt(g)'
      BY <1>0, <1>2, <2>2
         DEF ListControllers, OwnerInv, Exclusive, ArmedAt, Looping, Switching, Goto
    <3> QED
      BY <1>0, <1>2, <2>2, <3>1, <3>2, <3>3, ServedStepKeepsOwner
         DEF ListControllers, Looping
  <2> QED
    BY <1>2, <2>1, <2>2 DEF ListControllers
<1>3. CASE SwitchTimesOut(g)
  BY <1>0, <1>3, SwitchEndKeepsOwner DEF SwitchTimesOut, Switching
<1>4. CASE VerifyMode(g)
  <2>1. \E b \in BOOLEAN : SwitchEnds(g, b)
    BY <1>4 DEF VerifyMode
  <2> QED
    BY <1>0, <1>4, <2>1, SwitchEndKeepsOwner DEF VerifyMode, Switching
<1>5. CASE ArmSession(g)
  <2>1. CASE EndWith(g, "list", "failed") /\ target' = [target EXCEPT ![g] = "normal"]
             /\ UNCHANGED active
    <3>1. Serving(g) /\ Serving(g)' /\ "list" \in PcValues
      BY <1>0, <1>5, <2>1 DEF ArmSession, Serving, EndWith, Goto, PcValues
    <3>2. active # g
      BY <1>0, <1>5 DEF ArmSession, OwnerInv, Exclusive, ArmedAt, Looping, Switching
    <3> QED
      BY <1>0, <1>5, <2>1, <3>1, <3>2, ServedStepKeepsOwner
         DEF ArmSession, EndWith, Looping
  <2>2. CASE Goto(g, "check") /\ active' = g /\ UNCHANGED target
    <3>1. Serving(g) /\ Serving(g)' /\ "check" \in PcValues /\ ArmedAt(g)'
      BY <1>0, <1>5, <2>2
         DEF ArmSession, Serving, Goto, PcValues, ArmedAt, Looping
    <3> QED
      BY <1>0, <1>5, <2>2, <3>1, ServedStepKeepsOwner DEF ArmSession
  <2> QED
    BY <1>5, <2>1, <2>2 DEF ArmSession
<1>6. CASE CheckSession(g) \/ Take(g) \/ PublishSample(g) \/ EndRound(g)
  <2>1. PICK p \in Looping \cup {"hold"} : Goto(g, p)
    BY <1>6 DEF CheckSession, Take, PublishSample, EndRound, EndWith, Looping
  <2>2. /\ pc[g] \in Looping /\ UNCHANGED <<reserved, active, target, requests>>
    BY <1>6 DEF CheckSession, Take, PublishSample, EndRound, Looping
  <2>3. p \in PcValues /\ Serving(g) /\ Serving(g)' /\ ArmedAt(g)' /\ active = g
    BY <1>0, <2>1, <2>2
       DEF Serving, Goto, PcValues, ArmedAt, Looping, OwnerInv, Exclusive
  <2> QED
    BY <1>0, <2>1, <2>2, <2>3, ServedStepKeepsOwner
<1>7. CASE Hold(g)
  <2>1. /\ Serving(g) /\ Serving(g)' /\ "list" \in PcValues /\ ArmedAt(g)'
        /\ target' \in [Sessions -> {"policy", "normal"}]
    BY <1>0, <1>7 DEF Hold, Serving, Goto, PcValues, ArmedAt, Switching
  <2> QED
    BY <1>0, <1>7, <2>1, ServedStepKeepsOwner DEF Hold, Looping
<1>8. CASE Report(g)
  <2>1. Serving(g) /\ Serving(g)' /\ "reset" \in PcValues /\ ArmedAt(g)'
    BY <1>0, <1>8 DEF Report, Serving, Goto, PcValues, ArmedAt
  <2> QED
    BY <1>0, <1>8, <2>1, ServedStepKeepsOwner DEF Report, Looping
<1>9. CASE ResetSession(g)
  <2>1. /\ pc[g] = "reset" /\ pc' = [pc EXCEPT ![g] = "release"]
        /\ UNCHANGED <<reserved, target, requests>>
    BY <1>9 DEF ResetSession, Goto
  <2>2. active' = NoSession
    BY <1>9, <2>1 DEF ResetSession, OwnerInv, Owning, Exclusive, ArmedAt, Serving,
       Looping, Switching
  <2>3. Owning'
    BY <1>0, <2>1, <2>2 DEF Owning, PcValues
  <2>4. \A h \in Sessions : Serving(h)' <=> Serving(h)
    BY <1>0, <2>1 DEF Serving
  <2>5. \A h \in Sessions : pc'[h] \notin Looping \cup {"hold"}
    BY <1>0, <2>1, <2>4 DEF OwnerInv, Exclusive, Serving, Looping
  <2> QED
    BY <2>1, <2>2, <2>3, <2>4, <2>5 DEF OwnerInv, Exclusive
<1>10. CASE Release(g)
  <2>1. /\ pc[g] = "release" /\ pc' = [pc EXCEPT ![g] = "done"]
        /\ UNCHANGED <<active, target, requests>>
    BY <1>10 DEF Release, Goto
  <2>2. \A h \in Sessions : ~Serving(h)'
    BY <1>0, <2>1 DEF OwnerInv, Exclusive, Serving
  <2>3. active = NoSession
    BY <2>1 DEF OwnerInv, Owning, Exclusive, ArmedAt, Serving, Looping, Switching
  <2>4. Owning'
    BY <1>0, <2>1, <2>3 DEF Owning, PcValues
  <2> QED
    BY <2>1, <2>2, <2>3, <2>4 DEF OwnerInv, Exclusive, Serving, Looping
<1> QED
  BY <1>1, <1>2, <1>3, <1>4, <1>5, <1>6, <1>7, <1>8, <1>9, <1>10 DEF Worker

LEMMA EnvironmentKeepsOwner == OwnerInv /\ Environment => OwnerInv'
<1> SUFFICES ASSUME OwnerInv, Environment PROVE OwnerInv'
  OBVIOUS
<1> USE DEF worker, arm, stream, round
<1>0. /\ pc \in [Sessions -> PcValues]
      /\ target \in [Sessions -> {"policy", "normal"}]
      /\ requests \in Seq(Request)
  BY DEF OwnerInv, Owning
<1>1. ASSUME UNCHANGED <<reserved, active, target, pc>>,
             requests' \in Seq(Request)
      PROVE  OwnerInv'
  BY <1>1 DEF OwnerInv, Owning, Exclusive, ArmedAt, Serving
<1>2. CASE ServeSwitch
  <2>1. /\ Head(requests) \in Request /\ requests' \in Seq(Request)
        /\ UNCHANGED <<reserved, active, target>>
    BY <1>0, <1>2 DEF ServeSwitch
  <2>2. PICK g \in Sessions :
          \/ pc[g] = "wait" /\ Goto(g, "verify")
          \/ pc[g] = "wait" /\ SwitchEnds(g, FALSE)
          \/ UNCHANGED pc
    <3>1. Head(requests).by \in Sessions
      BY <2>1 DEF Request
    <3> QED
      BY <1>2, <3>1 DEF ServeSwitch
  <2>3. CASE UNCHANGED pc
    BY <1>1, <2>1, <2>3
  <2>4. CASE pc[g] = "wait" /\ SwitchEnds(g, FALSE)
    BY <2>1, <2>4, SwitchEndKeepsOwner DEF Switching
  <2>5. CASE pc[g] = "wait" /\ Goto(g, "verify")
    <3>1. Serving(g) /\ Serving(g)' /\ "verify" \in PcValues
      BY <1>0, <2>5 DEF Serving, Goto, PcValues
    <3>2. active = g => ArmedAt(g)'
      BY <1>0, <2>1, <2>5, SessionsAssumption
         DEF OwnerInv, Exclusive, ArmedAt, Looping, Switching, Goto
    <3> QED
      BY <1>0, <2>1, <2>5, <3>1, <3>2, ServedStepKeepsOwner DEF Looping
  <2> QED
    BY <2>2, <2>3, <2>4, <2>5
<1>3. CASE ControllerFails
  BY <1>0, <1>1, <1>3 DEF ControllerFails
<1>4. ASSUME NEW g \in Sessions, HandleGoal(g) PROVE OwnerInv'
  <2>1. /\ pc[g] = "idle" /\ reserved' /\ UNCHANGED <<active, target, requests>>
        /\ \/ reserved /\ pc' = [pc EXCEPT ![g] = "done"]
           \/ ~reserved /\ pc' = [pc EXCEPT ![g] = "plan"]
    BY <1>4 DEF HandleGoal, Goto
  <2>2. active # g
    BY <2>1, SessionsAssumption DEF OwnerInv, Exclusive, ArmedAt, Looping, Switching
  <2>3. Owning'
    BY <1>0, <2>1 DEF OwnerInv, Owning, PcValues
  <2>4. active' # NoSession => ArmedAt(active)'
    BY <1>0, <2>1, <2>2 DEF OwnerInv, Owning, Exclusive, ArmedAt
  <2>5. \A h \in Sessions : pc'[h] \in Looping \cup {"hold"} => active' = h
    BY <1>0, <2>1 DEF OwnerInv, Exclusive, Looping
  <2>6. \A h, k \in Sessions : Serving(h)' /\ Serving(k)' => h = k
    BY <1>0, <2>1 DEF OwnerInv, Exclusive, Serving
  <2> QED
    BY <2>1, <2>3, <2>4, <2>5, <2>6 DEF OwnerInv, Exclusive
<1>5. ASSUME NEW g \in Sessions, HandleCancel(g) PROVE OwnerInv'
  BY <1>0, <1>1, <1>5 DEF HandleCancel
<1>6. ASSUME NEW c \in Chunks, OnChunk(c) PROVE OwnerInv'
  BY <1>0, <1>1, <1>6 DEF OnChunk
<1> QED
  BY <1>2, <1>3, <1>4, <1>5, <1>6 DEF Environment

LEMMA OwnerInvariance == Spec => []OwnerInv
<1>1. Init => OwnerInv
  <2> SUFFICES ASSUME Init PROVE OwnerInv
    OBVIOUS
  <2>1. Owning
    <3>1. requests \in Seq(Request)
      BY EmptySeq DEF Init
    <3>2. pc \in [Sessions -> PcValues]
      BY DEF Init, PcValues
    <3> QED
      BY <3>1, <3>2 DEF Init, Owning
  <2>2. Exclusive
    BY DEF Init, Exclusive, Serving, Looping
  <2> QED
    BY <2>1, <2>2 DEF OwnerInv
<1>2. OwnerInv /\ [Next]_vars => OwnerInv'
  <2> SUFFICES ASSUME OwnerInv, [Next]_vars PROVE OwnerInv'
    OBVIOUS
  <2>1. CASE UNCHANGED vars
    BY <2>1 DEF vars, worker, arm, OwnerInv, Owning, Exclusive, ArmedAt, Serving
  <2> QED
    BY <2>1, EnvironmentKeepsOwner, WorkerKeepsOwner DEF Next
<1> QED
  BY <1>1, <1>2, PTL DEF Spec

(* No two goals are past admission at once, and the session that chunks go *)
(* to is that of the goal being served.                                    *)
THEOREM OneSessionAtATime == Spec => []OneSession
<1>1. OwnerInv => OneSession
  BY DEF OwnerInv, Exclusive, OneSession, ArmedAt, Serving, Looping, Switching
<1> QED
  BY <1>1, OwnerInvariance, PTL

-----------------------------------------------------------------------------
(* The stream of a session: the invariant.  StreamIsWhole says nothing of  *)
(* the copies the worker keeps of the session (finalSeen, finalSent, due), *)
(* by which it decides that the stream is over.                            *)

SharedState == [accepted : Nat, total : Nat, final : BOOLEAN, faulted : BOOLEAN,
                queue : Seq(Sample)]

StreamTypes ==
    /\ limits \in Limits
    /\ session \in [Sessions -> SharedState]
    /\ sent \in [Sessions -> Nat]
    /\ hand \in Seq(Sample)
    /\ command.sample \in Sample
    /\ due \in BOOLEAN /\ finalSeen \in BOOLEAN /\ finalSent \in BOOLEAN
    /\ status \in [Sessions -> StatusValues]
    /\ why \in [Sessions -> Reasons]

NotArmed(g) ==
    \/ pc[g] \in {"idle", "plan", "context", "subscriber"}
    \/ pc[g] \in Switching /\ target[g] = "policy"

(* Before it is armed a session is new; a goal that is to succeed has sent *)
(* everything, after its loop; only its own end gives a goal a status.     *)
GoalStream(g) ==
    /\ NotArmed(g) => session[g] = NewSession /\ sent[g] = 0 /\ why[g] = "none"
    /\ g \notin DryRuns /\ why[g] = "complete" =>
         session[g].final /\ sent[g] = session[g].total
    /\ why[g] = "complete" => pc[g] \notin Looping
    /\ status[g] \in Ended => pc[g] \in {"reset", "release", "done"}
    /\ status[g] = "succeeded" => why[g] = "complete"

LineOf(n, p, ahead) == IF n = 0 THEN ahead ELSE <<p>> \o ahead

(* What was accepted was published or is ahead, in order.                  *)
InLine(s, n, p, ahead) ==
    /\ n + Len(ahead) = s.total
    /\ Ordered(LineOf(n, p, ahead), n, s.accepted)

(* In the loop: what the worker has seen of the end of the stream is true. *)
LoopStream(g) ==
    /\ pc[g] = "publish" => hand = <<>> \/ \E x \in Sample : hand = <<x>>
    /\ pc[g] # "publish" => hand = <<>>
    /\ ~session[g].faulted => InLine(session[g], sent[g], command.sample, Ahead(g))
    /\ finalSeen => session[g].final
    /\ pc[g] \in {"check", "take"} /\ finalSent /\ ~session[g].faulted =>
         session[g].final /\ session[g].queue = <<>>
    /\ pc[g] \in {"publish", "round"} /\ finalSent =>
         session[g].final /\ hand = <<>> /\ sent[g] = session[g].total
    /\ pc[g] \in {"publish", "round"} /\ due /\ hand = <<>> /\ finalSeen =>
         sent[g] = session[g].total

StreamInv ==
    /\ StreamTypes
    /\ \A g \in Sessions : GoalStream(g)
    /\ \A g \in Sessions : pc[g] \in Looping => LoopStream(g)

SInv == OwnerInv /\ StreamInv

-----------------------------------------------------------------------------
(* What steps leave alone *)

SameSession(h) ==
    /\ pc'[h] = pc[h] /\ target'[h] = target[h] /\ why'[h] = why[h]
    /\ status'[h] = status[h] /\ session'[h] = session[h] /\ sent'[h] = sent[h]

LEMMA SameSessionKeepsGoal ==
    ASSUME NEW h \in Sessions, GoalStream(h), SameSession(h)
    PROVE  GoalStream(h)'
BY DEF GoalStream, SameSession, NotArmed, NewSession

(* A step of the goal being served, which no other goal takes part in      *)
LEMMA ServedStepKeepsStream ==
    ASSUME SInv, NEW g \in Sessions, Serving(g), StreamTypes', GoalStream(g)',
           \A h \in Sessions : h # g => SameSession(h),
           pc'[g] \in Looping => LoopStream(g)'
    PROVE  StreamInv'
<1>1. ASSUME NEW h \in Sessions, h # g PROVE GoalStream(h)' /\ pc'[h] \notin Looping
  <2>1. pc'[h] \notin Looping
    BY <1>1 DEF SInv, OwnerInv, Exclusive, SameSession, Serving, Looping
  <2> QED
    BY <1>1, <2>1, SameSessionKeepsGoal DEF SInv, StreamInv
<1> QED
  BY <1>1 DEF StreamInv

(* Outside its loop, a goal's control may move.                            *)
LEMMA ControlKeepsStream ==
    ASSUME SInv, NEW g \in Sessions, Serving(g), UNCHANGED stream,
           UNCHANGED limits,
           status' \in [Sessions -> StatusValues], why' \in [Sessions -> Reasons],
           GoalStream(g)', pc'[g] \notin Looping,
           \A h \in Sessions : h # g =>
             /\ pc'[h] = pc[h] /\ target'[h] = target[h]
             /\ why'[h] = why[h] /\ status'[h] = status[h]
    PROVE  StreamInv'
<1>1. StreamTypes'
  BY DEF SInv, StreamInv, StreamTypes, stream, round
<1>2. \A h \in Sessions : h # g => SameSession(h)
  BY DEF SameSession, stream
<1> QED
  BY <1>1, <1>2, ServedStepKeepsStream

-----------------------------------------------------------------------------
(* Records of what is shared *)

LEMMA SharedQueue ==
    ASSUME NEW s \in SharedState, NEW q \in Seq(Sample)
    PROVE  /\ [s EXCEPT !.queue = q] \in SharedState
           /\ [s EXCEPT !.queue = q].queue = q
           /\ [s EXCEPT !.queue = q].total = s.total
           /\ [s EXCEPT !.queue = q].accepted = s.accepted
           /\ [s EXCEPT !.queue = q].final = s.final
           /\ [s EXCEPT !.queue = q].faulted = s.faulted
BY DEF SharedState

(* The queue of a session, and the line, are sequences of samples.         *)
LEMMA LineIsSamples ==
    ASSUME NEW n \in Nat, NEW p \in Sample, NEW ahead \in Seq(Sample)
    PROVE  LineOf(n, p, ahead) \in Seq(Sample)
BY DEF LineOf

(* InLine reads the two counts of a session only.                          *)
LEMMA InLineOfCounts ==
    ASSUME NEW s, NEW t, NEW n, NEW p, NEW ahead, InLine(s, n, p, ahead),
           t.total = s.total, t.accepted = s.accepted
    PROVE  InLine(t, n, p, ahead)
BY DEF InLine

(* Taking a sample from the queue into an empty hand                       *)
LEMMA TakeKeepsLine ==
    ASSUME NEW q \in Seq(Sample), q # <<>>
    PROVE  /\ Head(q) \in Sample /\ Tail(q) \in Seq(Sample)
           /\ <<Head(q)>> \o Tail(q) = <<>> \o q
<1>1. /\ Head(q) \in Sample /\ Tail(q) \in Seq(Sample) /\ Len(q) \in Nat \ {0}
      /\ Len(Tail(q)) = Len(q) - 1
      /\ \A i \in 1 .. Len(Tail(q)) : Tail(q)[i] = q[i + 1]
  BY HeadTailProperties, EmptySeq
<1>2. <<>> \o q = q
  BY ConcatEmptySeq
<1> DEFINE t == <<Head(q)>> \o Tail(q)
<1>3. /\ t \in Seq(Sample) /\ Len(t) = Len(q)
      /\ t[1] = q[1]
      /\ \A i \in 1 .. Len(Tail(q)) : t[i + 1] = Tail(q)[i]
  BY <1>1
<1>4. ASSUME NEW i \in 1 .. Len(q) PROVE t[i] = q[i]
  <2>1. CASE i = 1
    BY <1>3, <2>1
  <2>2. CASE i # 1
    <3>1. i - 1 \in 1 .. Len(Tail(q)) /\ (i - 1) + 1 = i
      BY <1>1, <2>2
    <3> HIDE DEF t
    <3> QED
      BY <1>1, <1>3, <3>1
  <2> QED
    BY <2>1, <2>2
<1> HIDE DEF t
<1>5. t = q
  BY <1>3, <1>4, SeqEqual
<1> QED
  BY <1>1, <1>2, <1>5 DEF t

(* Publishing the sample in the hand                                       *)
LEMMA PublishKeepsLine ==
    ASSUME NEW s, NEW n \in Nat, NEW p \in Sample, NEW h \in Sample,
           NEW q \in Seq(Sample), s.accepted \in Nat, InLine(s, n, p, <<h>> \o q)
    PROVE  InLine(s, n + 1, h, <<>> \o q)
<1>1. <<>> \o q = q /\ Len(<<h>> \o q) = Len(q) + 1 /\ Len(q) \in Nat
  BY ConcatEmptySeq
<1>2. (n + 1) + Len(q) = s.total
  BY <1>1 DEF InLine
<1>3. Ordered(<<h>> \o q, n + 1, s.accepted)
  <2>1. CASE n = 0
    BY <2>1 DEF InLine, LineOf, Ordered
  <2>2. CASE n # 0
    BY <2>2, PublishedKeepsOrder DEF InLine, LineOf
  <2> QED
    BY <2>1, <2>2
<1> QED
  BY <1>1, <1>2, <1>3 DEF InLine, LineOf

LEMMA ConcatOfSamples ==
    \A x, y, z \in Seq(Sample) : (x \o y) \o z = x \o (y \o z)
<1> SUFFICES ASSUME NEW x \in Seq(Sample), NEW y \in Seq(Sample), NEW z \in Seq(Sample)
             PROVE  (x \o y) \o z = x \o (y \o z)
  OBVIOUS
<1> QED
  BY ConcatAssociative

(* Accepting a chunk                                                       *)
LEMMA AcceptKeepsLine ==
    ASSUME NEW n \in Nat, NEW p \in Sample, NEW x \in Seq(Sample),
           NEW s \in SharedState, NEW m \in Nat \ {0}, InLine(s, n, p, x \o s.queue),
           NEW t, t.total = s.total + m, t.accepted = s.accepted + 1,
           t.queue = s.queue \o ChunkOf(s.accepted, m)
    PROVE  InLine(t, n, p, x \o t.queue)
<1> DEFINE c == ChunkOf(s.accepted, m)
           q == s.queue
           ahead == x \o q
           line == LineOf(n, p, ahead)
<1>1. /\ s.accepted \in Nat /\ s.total \in Nat /\ q \in Seq(Sample)
      /\ c \in Seq(Sample) /\ Len(c) = m
  BY ChunkIsSamples DEF SharedState
<1> HIDE DEF c, q
<1>2. ahead \in Seq(Sample) /\ x \o (q \o c) = ahead \o c
  <2>1. ahead \in Seq(Sample)
    BY <1>1, ConcatProperties
  <2>2. (x \o q) \o c = x \o (q \o c)
    BY <1>1, ConcatOfSamples
  <2> QED
    BY <2>1, <2>2
<1>3. Len(ahead \o c) = Len(ahead) + m /\ Len(ahead) \in Nat
  <2> HIDE DEF ahead
  <2> QED
    BY <1>1, <1>2, ConcatProperties, LenProperties
<1>4. n + Len(ahead) = s.total /\ Ordered(line, n, s.accepted)
  BY DEF InLine, q
<1> HIDE DEF ahead
<1>5. line \in Seq(Sample)
  BY <1>2, LineIsSamples
<1>6. LineOf(n, p, ahead \o c) = line \o c
  <2> DEFINE u == <<p>>
  <2>1. u \in Seq(Sample)
    OBVIOUS
  <2> HIDE DEF u
  <2>0. ahead \in Seq(Sample) /\ c \in Seq(Sample)
    BY <1>1, <1>2
  <2>2. (u \o ahead) \o c = u \o (ahead \o c)
    BY <2>0, <2>1, ConcatOfSamples
  <2>3. LineOf(n, p, ahead \o c) = IF n = 0 THEN ahead \o c ELSE u \o (ahead \o c)
    BY DEF LineOf, u
  <2>4. line = IF n = 0 THEN ahead ELSE u \o ahead
    BY DEF LineOf, u
  <2> HIDE DEF line
  <2> QED
    BY <2>2, <2>3, <2>4
<1>7. Ordered(line \o c, n, s.accepted + 1)
  <2> HIDE DEF line
  <2> QED
    BY <1>1, <1>4, <1>5, AcceptedKeepsOrder DEF c
<1>8. x \o t.queue = ahead \o c
  BY <1>2 DEF q, c
<1>9. n + Len(ahead \o c) = t.total
  BY <1>1, <1>3, <1>4
<1> HIDE DEF line
<1> QED
  BY <1>6, <1>7, <1>8, <1>9 DEF InLine

-----------------------------------------------------------------------------
(* The actions                                                             *)

LEMMA StreamFacts ==
    ASSUME SInv, NEW g \in Sessions
    PROVE  /\ session[g] \in SharedState /\ sent[g] \in Nat
           /\ session[g].queue \in Seq(Sample)
           /\ session[g].accepted \in Nat /\ session[g].total \in Nat
           /\ session[g].final \in BOOLEAN /\ session[g].faulted \in BOOLEAN
           /\ pc \in [Sessions -> PcValues]
           /\ target \in [Sessions -> {"policy", "normal"}]
           /\ status \in [Sessions -> StatusValues]
           /\ why \in [Sessions -> Reasons]
           /\ GoalStream(g)
           /\ g # NoSession
           /\ pc[g] \in Looping => LoopStream(g) /\ active = g
BY SessionsAssumption
   DEF SInv, StreamInv, StreamTypes, OwnerInv, Owning, Exclusive, SharedState

(* What the next state has to satisfy, of the values it holds              *)
LEMMA InLineNext ==
    ASSUME NEW g \in Sessions
    PROVE  InLine(session[g], sent[g], command.sample, Ahead(g))'
             <=> InLine(session'[g], sent'[g], command'.sample,
                        hand' \o session'[g].queue)
BY DEF InLine, Ahead, LineOf, Ordered, Chain, Successor, First

(* Nothing of the stream changes.                                          *)
LEMMA LoopUntouched ==
    ASSUME NEW g \in Sessions, LoopStream(g), UNCHANGED stream, pc'[g] = pc[g]
    PROVE  LoopStream(g)'
<1>1. UNCHANGED <<session, sent, command, hand, due, finalSeen, finalSent>>
  BY DEF stream, round
<1>2. ASSUME ~session'[g].faulted
      PROVE  InLine(session[g], sent[g], command.sample, Ahead(g))'
  BY <1>1, <1>2, InLineNext DEF LoopStream, Ahead
<1> QED
  BY <1>1, <1>2 DEF LoopStream

LEMMA AdmissionKeepsStream ==
    ASSUME SInv, NEW g \in Sessions, HandleGoal(g) \/ HandleCancel(g), UNCHANGED limits
    PROVE  StreamInv'
<1>1. UNCHANGED stream /\ UNCHANGED <<target, why>>
  BY DEF HandleGoal, HandleCancel
<1>2. /\ pc[g] \in PcValues /\ pc \in [Sessions -> PcValues]
      /\ status \in [Sessions -> StatusValues]
  BY StreamFacts
<1>3. status' \in [Sessions -> StatusValues]
  BY <1>2 DEF HandleGoal, HandleCancel, StatusValues
<1>4. StreamTypes'
  BY <1>1, <1>3 DEF SInv, StreamInv, StreamTypes, stream, round
<1>5. ASSUME NEW h \in Sessions PROVE GoalStream(h)'
  <2>1. /\ pc'[h] = pc[h] \/ (pc[h] = "idle" /\ pc'[h] \in {"plan", "done"})
        /\ status'[h] = status[h] \/ (status'[h] \notin Ended /\ pc[h] # "done")
           \/ status'[h] \notin Ended
    BY <1>2 DEF HandleGoal, HandleCancel, Goto, Ended
  <2>2. status'[h] = "succeeded" => status[h] = "succeeded"
    BY <2>1 DEF Ended
  <2>3. GoalStream(h)
    BY StreamFacts
  <2>4. NotArmed(h)' => NotArmed(h)
    BY <1>1, <2>1 DEF NotArmed, Switching
  <2>5. pc'[h] \in Looping => pc[h] \in Looping
    BY <2>1 DEF Looping
  <2>6. status'[h] \in Ended => status[h] \in Ended /\ pc'[h] = pc[h]
    BY <2>1, <2>3 DEF GoalStream
  <2>7. NewSession' = NewSession
    BY DEF NewSession
  <2> QED
    BY <1>1, <2>2, <2>3, <2>4, <2>5, <2>6, <2>7 DEF GoalStream, stream
<1>6. ASSUME NEW h \in Sessions, pc'[h] \in Looping PROVE LoopStream(h)'
  <2>1. pc'[h] = pc[h]
    BY <1>2, <1>6 DEF HandleGoal, HandleCancel, Goto, Looping
  <2>2. LoopStream(h)
    BY <1>6, <2>1, StreamFacts
  <2> QED
    BY ZenonT(40), <1>1, <2>1, <2>2
       DEF LoopStream, stream, round, InLine, LineOf, Ordered, Chain, Successor, Ahead
<1> QED
  BY <1>4, <1>5, <1>6 DEF StreamInv

LEMMA ChunkKeepsStream ==
    ASSUME SInv, NEW c \in Chunks, OnChunk(c), UNCHANGED limits,
           NEW a \in Sessions, active = a
    PROVE  StreamInv'
<1> DEFINE s == session[a]
<1>1. /\ a \in Sessions /\ ArmedAt(a) /\ ~s.faulted
      /\ UNCHANGED <<pc, target, why, status, round, sent, command>>
      /\ session' = [session EXCEPT ![a] = IF Valid(c) THEN Accepted(s, c) ELSE Faulted(s)]
  BY DEF OnChunk, SInv, OwnerInv, Owning, Exclusive, worker
<1>2. /\ s \in SharedState /\ s.accepted \in Nat /\ s.total \in Nat
      /\ s.queue \in Seq(Sample) /\ session \in [Sessions -> SharedState]
      /\ sent[a] \in Nat /\ GoalStream(a)
      /\ pc[a] \in Looping => LoopStream(a)
  BY <1>1, StreamFacts DEF SInv, StreamInv, StreamTypes
<1>3. c.samples \in Nat \ {0} /\ c.final \in BOOLEAN
  BY LimitsAssumption DEF SInv, StreamInv, StreamTypes, Chunks, MaxSamples, MaxSeq
<1>4. ~NotArmed(a)
  BY <1>1 DEF ArmedAt, NotArmed, Looping, Switching
<1>5. session'[a] = (IF Valid(c) THEN Accepted(s, c) ELSE Faulted(s))
  BY <1>1, <1>2
<1>6. ASSUME NEW h \in Sessions, h # a PROVE GoalStream(h)' /\ pc'[h] \notin Looping
  <2>1. SameSession(h)
    BY <1>1, <1>2, <1>6 DEF SameSession
  <2>2. pc[h] \notin Looping
    BY <1>6 DEF SInv, OwnerInv, Exclusive
  <2> QED
    BY <1>1, <2>1, <2>2, SameSessionKeepsGoal DEF SInv, StreamInv
<1>7. CASE Valid(c)
  <2>1. ~s.final /\ c.seq = s.accepted
    BY <1>7 DEF Valid
  <2> DEFINE t == Accepted(s, c)
             k == ChunkOf(s.accepted, c.samples)
  <2>2. /\ t.total = s.total + c.samples /\ t.accepted = s.accepted + 1
        /\ t.final = c.final /\ t.faulted = s.faulted /\ t.queue = s.queue \o k
    BY <2>1 DEF Accepted, ChunkOf
  <2>3. k \in Seq(Sample)
    BY <1>2, <1>3, ChunkIsSamples
  <2>4. t \in SharedState
    <3>1. t = [accepted |-> s.accepted + 1, total |-> s.total + c.samples,
               final |-> c.final, faulted |-> s.faulted, queue |-> s.queue \o k]
      BY <2>1 DEF Accepted, ChunkOf
    <3>2. s.queue \o k \in Seq(Sample) /\ s.faulted \in BOOLEAN
      BY <1>2, <2>3, ConcatProperties DEF SharedState
    <3> HIDE DEF k, t
    <3> QED
      BY <1>2, <1>3, <3>1, <3>2 DEF SharedState
  <2>5. session'[a] = t
    BY <1>5, <1>7
  <2> HIDE DEF t, k
  <2>6. StreamTypes'
    <3>1. session' = [session EXCEPT ![a] = t]
      BY <1>1, <1>7 DEF t
    <3>2. session' \in [Sessions -> SharedState]
      BY <1>1, <1>2, <2>4, <3>1
    <3> QED
      BY <1>1, <3>2 DEF SInv, StreamInv, StreamTypes, round
  <2>7. GoalStream(a)'
    BY <1>1, <1>2, <1>4, <2>1 DEF GoalStream, NotArmed, Switching
  <2>8. ASSUME pc[a] \in Looping PROVE LoopStream(a)'
    <3>1. LoopStream(a) /\ ~finalSeen
      BY <1>2, <2>1, <2>8 DEF LoopStream
    <3>2. InLine(s, sent[a], command.sample, hand \o s.queue)
      BY <1>1, <3>1 DEF LoopStream, Ahead
    <3>3. InLine(t, sent[a], command.sample, hand \o t.queue)
      BY <1>2, <1>3, <2>2, <3>2, AcceptKeepsLine DEF k, SInv, StreamInv, StreamTypes
    <3>4. pc[a] \in {"check", "take", "publish", "round"}
      BY <2>8 DEF Looping
    <3>5. ~finalSent
      BY <1>1, <2>1, <3>1, <3>4 DEF LoopStream
    <3>6. InLine(session[a], sent[a], command.sample, Ahead(a))'
      BY <1>1, <2>5, <3>3, InLineNext DEF round
    <3> QED
      BY <1>1, <3>1, <3>5, <3>6 DEF LoopStream, round
  <2> QED
    BY <1>1, <1>6, <2>6, <2>7, <2>8 DEF StreamInv
<1>8. CASE ~Valid(c)
  <2> DEFINE t == Faulted(s)
  <2>1. /\ t.total = s.total /\ t.final = s.final /\ t.faulted
        /\ t \in SharedState
    BY <1>2, EmptySeq DEF Faulted, SharedState
  <2>2. session'[a] = t /\ session' = [session EXCEPT ![a] = t]
    BY <1>1, <1>5, <1>8
  <2> HIDE DEF t
  <2>3. StreamTypes'
    BY <1>1, <1>2, <2>1, <2>2 DEF SInv, StreamInv, StreamTypes, round
  <2>4. GoalStream(a)'
    BY <1>1, <1>2, <1>4, <2>1, <2>2 DEF GoalStream, NotArmed, Switching
  <2>5. pc[a] \in Looping => LoopStream(a)'
    BY <1>1, <1>2, <2>1, <2>2 DEF LoopStream, round
  <2> QED
    BY <1>1, <1>6, <2>3, <2>4, <2>5 DEF StreamInv
<1> QED
  BY <1>7, <1>8

(* Outside the loop                                                        *)
LEMMA SwitchEndKeepsStream ==
    ASSUME SInv, NEW g \in Sessions, NEW b \in BOOLEAN, SwitchEnds(g, b),
           pc[g] \in Switching, UNCHANGED <<stream, limits, status, target>>
    PROVE  StreamInv'
<1>1. /\ pc \in [Sessions -> PcValues] /\ why \in [Sessions -> Reasons]
      /\ target \in [Sessions -> {"policy", "normal"}]
      /\ status \in [Sessions -> StatusValues] /\ GoalStream(g)
  BY StreamFacts
<1>2. /\ why' \in [Sessions -> Reasons]
      /\ \A h \in Sessions : h # g => pc'[h] = pc[h] /\ why'[h] = why[h]
      /\ why'[g] = why[g] \/ why'[g] = "backend"
      /\ pc'[g] \in {"subscriber", "report"}
      /\ pc'[g] = "subscriber" => target[g] = "policy" /\ why'[g] = why[g]
  BY <1>1 DEF SwitchEnds, EndWith, Goto, Reasons
<1>3. session' = session /\ sent' = sent
  BY DEF stream
<1>4. GoalStream(g)'
  <2>1. status'[g] \notin Ended
    BY <1>1 DEF GoalStream, Switching
  <2>2. NotArmed(g)' => NotArmed(g) /\ why'[g] = why[g]
    BY <1>2 DEF NotArmed, Switching
  <2>3. NewSession' = NewSession
    BY DEF NewSession
  <2> QED
    BY <1>1, <1>2, <1>3, <2>1, <2>2, <2>3 DEF GoalStream, Looping, Ended
<1> QED
  BY <1>1, <1>2, <1>4, ControlKeepsStream DEF Serving, Switching, Looping

LEMMA OutsideLoopKeepsStream ==
    ASSUME SInv, NEW g \in Sessions, UNCHANGED limits,
           \/ CheckPlan(g) \/ AwaitContext(g) \/ ListControllers(g)
           \/ SwitchTimesOut(g) \/ VerifyMode(g) \/ Report(g)
           \/ ResetSession(g) \/ Release(g)
    PROVE  StreamInv'
<1>0. /\ pc \in [Sessions -> PcValues] /\ why \in [Sessions -> Reasons]
      /\ target \in [Sessions -> {"policy", "normal"}]
      /\ status \in [Sessions -> StatusValues] /\ GoalStream(g)
      /\ NewSession' = NewSession
  BY StreamFacts DEF NewSession
<1>1. CASE CheckPlan(g)
  <2>1. /\ pc[g] = "plan" /\ UNCHANGED <<stream, status, target>>
        /\ why' \in [Sessions -> Reasons] /\ pc'[g] \in {"report", "context"}
        /\ pc'[g] = "context" => why'[g] = why[g]
        /\ why'[g] = "complete" => g \in DryRuns \/ why[g] = "complete"
        /\ \A h \in Sessions : h # g => pc'[h] = pc[h] /\ why'[h] = why[h]
    BY <1>0, <1>1 DEF CheckPlan, EndWith, Goto, Reasons
  <2>2. NotArmed(g) /\ session[g] = NewSession /\ sent[g] = 0 /\ why[g] = "none"
    BY <1>0, <2>1 DEF NotArmed, GoalStream
  <2>3. GoalStream(g)'
    BY <1>0, <2>1, <2>2 DEF GoalStream, NotArmed, Switching, Looping, Ended, stream
  <2> QED
    BY <1>0, <2>1, <2>3, ControlKeepsStream DEF Serving, Looping
<1>2. CASE AwaitContext(g)
  <2>1. /\ pc[g] = "context" /\ UNCHANGED <<stream, status>>
        /\ why' \in [Sessions -> Reasons] /\ pc'[g] \in {"report", "list"}
        /\ pc'[g] = "list" => why'[g] = why[g]
        /\ why'[g] # "complete" \/ why'[g] = why[g]
        /\ \A h \in Sessions : h # g => /\ pc'[h] = pc[h] /\ why'[h] = why[h]
                                        /\ target'[h] = target[h]
    BY <1>0, <1>2 DEF AwaitContext, EndWith, Goto, Reasons
  <2>2. NotArmed(g) /\ session[g] = NewSession /\ sent[g] = 0 /\ why[g] = "none"
    BY <1>0, <2>1 DEF NotArmed, GoalStream
  <2>3. GoalStream(g)'
    BY <1>0, <2>1, <2>2 DEF GoalStream, NotArmed, Switching, Looping, Ended, stream
  <2> QED
    BY <1>0, <2>1, <2>3, ControlKeepsStream DEF Serving, Looping
<1>3. CASE ListControllers(g)
  <2>1. /\ pc[g] \in Switching /\ UNCHANGED <<stream, status, target>>
        /\ pc[g] = "list"
    BY <1>3 DEF ListControllers, Switching
  <2>2. CASE \E b \in BOOLEAN : SwitchEnds(g, b)
    BY <2>1, <2>2, SwitchEndKeepsStream
  <2>3. CASE Goto(g, "wait") /\ UNCHANGED why
    <3>1. GoalStream(g)'
      BY <1>0, <2>1, <2>3
         DEF Goto, GoalStream, NotArmed, Switching, Looping, Ended, stream
    <3> QED
      BY <1>0, <2>1, <2>3, <3>1, ControlKeepsStream DEF Goto, Serving, Looping
  <2> QED
    BY <1>3, <2>2, <2>3 DEF ListControllers
<1>4. CASE SwitchTimesOut(g) \/ VerifyMode(g)
  <2>1. /\ pc[g] \in Switching /\ UNCHANGED <<stream, status, target>>
        /\ \E b \in BOOLEAN : SwitchEnds(g, b)
    BY <1>4 DEF SwitchTimesOut, VerifyMode, Switching
  <2> QED
    BY <2>1, SwitchEndKeepsStream
<1>5. CASE Report(g)
  <2>1. /\ pc[g] = "report" /\ UNCHANGED <<stream, why, target>>
        /\ pc'[g] = "reset" /\ status' \in [Sessions -> StatusValues]
        /\ status'[g] = "succeeded" => why[g] = "complete"
        /\ \A h \in Sessions : h # g => pc'[h] = pc[h] /\ status'[h] = status[h]
    BY <1>0, <1>5 DEF Report, Outcome, Goto, StatusValues, Ended
  <2>2. GoalStream(g)'
    BY <1>0, <2>1 DEF GoalStream, NotArmed, Switching, Looping, stream
  <2> QED
    BY <1>0, <2>1, <2>2, ControlKeepsStream DEF Serving, Looping
<1>6. CASE ResetSession(g) \/ Release(g)
  <2>1. /\ pc[g] \in {"reset", "release"} /\ UNCHANGED <<stream, why, target, status>>
        /\ pc'[g] \in {"release", "done"}
        /\ \A h \in Sessions : h # g => pc'[h] = pc[h]
    BY <1>0, <1>6 DEF ResetSession, Release, Goto
  <2>2. GoalStream(g)'
    BY <1>0, <2>1 DEF GoalStream, NotArmed, Switching, Looping, stream
  <2> QED
    BY <1>0, <2>1, <2>2, ControlKeepsStream DEF Serving, Looping
<1> QED
  BY <1>1, <1>2, <1>3, <1>4, <1>5, <1>6

LEMMA ServeKeepsStream ==
    ASSUME SInv, UNCHANGED limits, ServeSwitch \/ ControllerFails
    PROVE  StreamInv'
<1>1. UNCHANGED <<stream, status, target>>
  BY DEF ServeSwitch, ControllerFails, worker
<1>2. ASSUME UNCHANGED <<pc, why>> PROVE StreamInv'
  <2>1. StreamTypes'
    BY <1>1, <1>2 DEF SInv, StreamInv, StreamTypes, stream, round
  <2>2. ASSUME NEW h \in Sessions
        PROVE  GoalStream(h)' /\ (pc'[h] \in Looping => LoopStream(h)')
    <3>1. SameSession(h)
      BY <1>1, <1>2 DEF SameSession, stream
    <3>2. pc[h] \in Looping => LoopStream(h)
      BY StreamFacts
    <3> QED
      BY <1>1, <1>2, <3>1, <3>2, SameSessionKeepsGoal, LoopUntouched
         DEF SInv, StreamInv
  <2> QED
    BY <2>1, <2>2 DEF StreamInv
<1>3. CASE ControllerFails
  BY <1>2, <1>3 DEF ControllerFails, worker
<1>4. CASE ServeSwitch
  <2>1. requests \in Seq(Request) /\ requests # <<>>
    BY <1>4 DEF ServeSwitch, SInv, OwnerInv, Owning
  <2>2. Head(requests) \in Request
    BY <2>1, HeadTailProperties
  <2>3. PICK g \in Sessions :
          \/ pc[g] = "wait" /\ Goto(g, "verify") /\ UNCHANGED why
          \/ pc[g] = "wait" /\ SwitchEnds(g, FALSE)
          \/ UNCHANGED <<pc, why>>
    <3>1. Head(requests).by \in Sessions
      BY <2>2 DEF Request
    <3> QED
      BY <1>4, <3>1 DEF ServeSwitch
  <2>4. CASE pc[g] = "wait" /\ SwitchEnds(g, FALSE)
    BY <1>1, <2>4, SwitchEndKeepsStream DEF Switching
  <2>5. CASE pc[g] = "wait" /\ Goto(g, "verify") /\ UNCHANGED why
    <3>0. /\ pc \in [Sessions -> PcValues] /\ why \in [Sessions -> Reasons]
          /\ status \in [Sessions -> StatusValues] /\ GoalStream(g)
          /\ NewSession' = NewSession
      BY StreamFacts DEF NewSession
    <3>1. GoalStream(g)'
      BY <1>1, <2>5, <3>0
         DEF Goto, GoalStream, NotArmed, Switching, Looping, Ended, stream
    <3> QED
      BY <1>1, <2>5, <3>0, <3>1, ControlKeepsStream DEF Goto, Serving, Looping
  <2> QED
    BY <1>2, <2>3, <2>4, <2>5
<1> QED
  BY <1>3, <1>4

-----------------------------------------------------------------------------
(* The loop                                                                *)

LEMMA NewSessionInLine ==
    ASSUME NEW p
    PROVE  InLine(NewSession, 0, p, <<>> \o <<>>)
<1>1. <<>> \o <<>> = <<>> /\ Len(<<>>) = 0
  OBVIOUS
<1>2. Ordered(<<>>, 0, 0)
  BY DEF Ordered, Chain
<1> QED
  BY <1>1, <1>2 DEF InLine, LineOf, NewSession

LEMMA ArmKeepsStream ==
    ASSUME SInv, NEW g \in Sessions, ArmSession(g), UNCHANGED limits
    PROVE  StreamInv'
<1>0. /\ pc \in [Sessions -> PcValues] /\ why \in [Sessions -> Reasons]
      /\ target \in [Sessions -> {"policy", "normal"}]
      /\ status \in [Sessions -> StatusValues] /\ GoalStream(g)
      /\ NewSession' = NewSession
  BY StreamFacts DEF NewSession
<1>1. /\ pc[g] = "subscriber" /\ UNCHANGED <<status, session, sent, command>>
      /\ Serving(g)
  BY DEF ArmSession, Serving
<1>2. /\ session[g] = NewSession /\ sent[g] = 0 /\ why[g] = "none"
      /\ status[g] \notin Ended
  BY <1>0, <1>1 DEF GoalStream, NotArmed
<1>3. CASE /\ EndWith(g, "list", "failed") /\ target' = [target EXCEPT ![g] = "normal"]
           /\ UNCHANGED round
  <2>1. /\ pc'[g] = "list" /\ target'[g] = "normal" /\ why'[g] = "failed"
        /\ why' \in [Sessions -> Reasons]
        /\ \A h \in Sessions : h # g => /\ pc'[h] = pc[h] /\ why'[h] = why[h]
                                        /\ target'[h] = target[h]
    BY <1>0, <1>3 DEF EndWith, Goto, Reasons
  <2>2. GoalStream(g)'
    BY <1>1, <1>2, <2>1 DEF GoalStream, NotArmed, Switching, Ended
  <2> QED
    BY <1>0, <1>1, <1>3, <2>1, <2>2, ControlKeepsStream DEF Looping, stream
<1>4. CASE /\ Goto(g, "check") /\ UNCHANGED <<target, why>>
           /\ hand' = <<>> /\ due' = TRUE /\ finalSeen' = FALSE /\ finalSent' = FALSE
  <2>1. pc'[g] = "check" /\ \A h \in Sessions : h # g => SameSession(h)
    BY <1>0, <1>1, <1>4 DEF Goto, SameSession
  <2>2. StreamTypes'
    BY <1>1, <1>4, EmptySeq DEF SInv, StreamInv, StreamTypes
  <2>3. GoalStream(g)'
    BY <1>1, <1>2, <1>4, <2>1 DEF GoalStream, NotArmed, Switching, Ended
  <2>4. InLine(session'[g], sent'[g], command'.sample, hand' \o session'[g].queue)
    <3>1. session'[g] = NewSession /\ NewSession.queue = <<>> /\ sent'[g] = 0
      BY <1>1, <1>2 DEF NewSession
    <3> QED
      BY <1>4, <3>1, NewSessionInLine
  <2>5. LoopStream(g)'
    BY <1>4, <2>1, <2>4, InLineNext DEF LoopStream
  <2> QED
    BY <1>1, <2>1, <2>2, <2>3, <2>5, ServedStepKeepsStream
<1> QED
  BY <1>3, <1>4 DEF ArmSession

(* A step of the loop: the goal is still to end.                           *)
LEMMA LoopStepKeepsGoal ==
    ASSUME SInv, NEW g \in Sessions, pc[g] \in Looping,
           pc'[g] \in Looping \cup {"hold"}, status'[g] = status[g],
           \/ why'[g] # "complete"
           \/ pc'[g] = "hold" /\ session'[g].final /\ sent'[g] = session'[g].total
    PROVE  GoalStream(g)'
<1>1. status[g] \notin Ended
  BY StreamFacts DEF GoalStream, Looping
<1> QED
  BY <1>1 DEF GoalStream, NotArmed, Looping, Switching, Ended

LEMMA LoopFacts ==
    ASSUME SInv, NEW g \in Sessions, pc[g] \in Looping
    PROVE  /\ Serving(g) /\ LoopStream(g) /\ why[g] # "complete"
           /\ session \in [Sessions -> SharedState]
           /\ sent \in [Sessions -> Nat] /\ hand \in Seq(Sample)
           /\ command.sample \in Sample
           /\ finalSent \in BOOLEAN
BY StreamFacts
   DEF SInv, StreamInv, StreamTypes, Serving, Looping, GoalStream

LEMMA CheckKeepsStream ==
    ASSUME SInv, NEW g \in Sessions, CheckSession(g), UNCHANGED limits
    PROVE  StreamInv'
<1>1. /\ pc[g] = "check" /\ pc[g] \in Looping
      /\ UNCHANGED <<status, target, session, hand, finalSeen, finalSent, sent, command>>
  BY DEF CheckSession, Looping
<1>2. /\ pc \in [Sessions -> PcValues] /\ why \in [Sessions -> Reasons]
      /\ Serving(g) /\ LoopStream(g) /\ why[g] # "complete"
  BY <1>1, StreamFacts, LoopFacts
<1>3. /\ pc'[g] \in {"hold", "take"} /\ why'[g] # "complete"
      /\ why' \in [Sessions -> Reasons] /\ due' \in BOOLEAN
      /\ \A h \in Sessions : h # g => SameSession(h)
  BY <1>1, <1>2
     DEF CheckSession, EndWith, Goto, Reasons, SameSession, SInv, StreamInv, StreamTypes
<1>4. StreamTypes'
  BY <1>1, <1>3 DEF SInv, StreamInv, StreamTypes
<1>5. GoalStream(g)'
  BY <1>1, <1>3, LoopStepKeepsGoal DEF Looping
<1>6. ASSUME pc'[g] \in Looping PROVE LoopStream(g)'
  <2>1. pc'[g] = "take"
    BY <1>3, <1>6 DEF Looping
  <2>2. ASSUME ~session'[g].faulted
        PROVE  InLine(session[g], sent[g], command.sample, Ahead(g))'
    BY <1>1, <1>2, <2>2, InLineNext DEF LoopStream, Ahead
  <2> QED
    BY <1>1, <1>2, <2>1, <2>2 DEF LoopStream
<1> QED
  BY <1>2, <1>3, <1>4, <1>5, <1>6, ServedStepKeepsStream

LEMMA TakeKeepsStream ==
    ASSUME SInv, NEW g \in Sessions, Take(g), UNCHANGED limits
    PROVE  StreamInv'
<1> DEFINE s == session[g]
           takes == s.queue # <<>> /\ due
           left == IF takes THEN Tail(s.queue) ELSE s.queue
<1>1. /\ pc[g] = "take" /\ pc[g] \in Looping
      /\ UNCHANGED <<status, target, due, finalSent, sent, command>>
  BY DEF Take, Looping
<1>2. /\ pc \in [Sessions -> PcValues] /\ why \in [Sessions -> Reasons]
      /\ Serving(g) /\ LoopStream(g) /\ why[g] # "complete"
      /\ s \in SharedState /\ s.queue \in Seq(Sample) /\ s.final \in BOOLEAN
      /\ session \in [Sessions -> SharedState] /\ hand = <<>>
      /\ sent[g] \in Nat
  BY <1>1, StreamFacts, LoopFacts DEF LoopStream
<1>3. CASE s.faulted
  <2>1. /\ EndWith(g, "hold", "failed") /\ UNCHANGED <<session, hand, finalSeen>>
    BY <1>3 DEF Take
  <2>2. /\ pc'[g] = "hold" /\ why'[g] # "complete" /\ why' \in [Sessions -> Reasons]
        /\ \A h \in Sessions : h # g => SameSession(h)
    BY <1>1, <1>2, <2>1 DEF EndWith, Goto, Reasons, SameSession
  <2>3. StreamTypes'
    BY <1>1, <2>1, <2>2 DEF SInv, StreamInv, StreamTypes
  <2>4. GoalStream(g)'
    BY <1>1, <2>2, LoopStepKeepsGoal
  <2> QED
    BY <1>2, <2>2, <2>3, <2>4, ServedStepKeepsStream DEF Looping
<1>4. CASE ~s.faulted
  <2> DEFINE t == [s EXCEPT !.queue = left]
  <2>1. left \in Seq(Sample)
    BY <1>2, TakeKeepsLine
  <2>2. /\ session' = [session EXCEPT ![g] = t] /\ finalSeen' = s.final
        /\ \/ /\ Goto(g, "publish") /\ UNCHANGED why
              /\ hand' = IF takes THEN <<Head(s.queue)>> ELSE <<>>
           \/ EndWith(g, "hold", "failed") /\ UNCHANGED hand
    BY <1>4 DEF Take
  <2>3. /\ t \in SharedState /\ t.queue = left /\ t.total = s.total
        /\ t.accepted = s.accepted /\ t.final = s.final
    <3> HIDE DEF left, s
    <3> QED
      BY <1>2, <2>1, SharedQueue
  <2>4. takes => Head(s.queue) \in Sample /\ <<Head(s.queue)>> \o left = <<>> \o s.queue
    BY <1>2, TakeKeepsLine
  <2>5. InLine(s, sent[g], command.sample, <<>> \o s.queue)
    BY <1>2, <1>4 DEF LoopStream, Ahead
  <2>10. <<>> \o s.queue = s.queue /\ Len(s.queue) \in Nat
         /\ (s.queue = <<>> => Len(s.queue) = 0)
    BY <1>2, ConcatEmptySeq
  <2>11. s.queue = <<>> => sent[g] = s.total
    <3>1. SUFFICES ASSUME s.queue = <<>> PROVE sent[g] = s.total
      OBVIOUS
    <3> QED
      BY <1>2, <2>5, <2>10, <3>1 DEF InLine
  <2>12. finalSent => s.final /\ s.queue = <<>>
    BY <1>1, <1>2, <1>4 DEF LoopStream
  <2>13. ~takes => left = s.queue
    OBVIOUS
  <2>14. takes => s.queue # <<>>
    OBVIOUS
  <2>15. due /\ ~takes => s.queue = <<>>
    OBVIOUS
  <2> HIDE DEF t, left
  <2>6. /\ session'[g] = t /\ pc'[g] \in {"publish", "hold"}
        /\ why'[g] # "complete" /\ why' \in [Sessions -> Reasons]
        /\ \A h \in Sessions : h # g => SameSession(h)
    BY <1>1, <1>2, <2>2 DEF EndWith, Goto, Reasons, SameSession
  <2>7. StreamTypes'
    <3>1. session' \in [Sessions -> SharedState]
      BY <1>2, <2>2, <2>3
    <3>2. hand' \in Seq(Sample)
      <4> DEFINE x == Head(s.queue)
      <4>1. (takes /\ hand' = <<x>>) \/ hand' = <<>>
        BY <1>2, <2>2
      <4>2. takes => x \in Sample
        BY <2>4
      <4> HIDE DEF x, takes, s
      <4>3. CASE hand' = <<>>
        BY <4>3, EmptySeq
      <4>4. CASE takes /\ hand' = <<x>>
        <5>1. \A y \in Sample : <<y>> \in Seq(Sample)
          OBVIOUS
        <5> QED
          BY <4>2, <4>4, <5>1
      <4> QED
        BY <4>1, <4>3, <4>4
    <3>3. finalSeen' \in BOOLEAN
      <4> HIDE DEF s
      <4> QED
        BY <1>2, <2>2
    <3> QED
      BY <1>1, <2>6, <3>1, <3>2, <3>3 DEF SInv, StreamInv, StreamTypes
  <2>8. GoalStream(g)'
    BY <1>1, <2>6, LoopStepKeepsGoal DEF Looping
  <2>9. ASSUME pc'[g] \in Looping PROVE LoopStream(g)'
    <3>1. /\ pc'[g] = "publish"
          /\ hand' = IF takes THEN <<Head(s.queue)>> ELSE <<>>
      BY <1>2, <2>2, <2>6, <2>9 DEF Looping, EndWith, Goto
    <3>2. hand' \o left = <<>> \o s.queue
      BY <2>4, <2>13, <3>1
    <3>3. InLine(t, sent[g], command.sample, hand' \o t.queue)
      <4>1. InLine(t, sent[g], command.sample, <<>> \o s.queue)
        BY <2>3, <2>5, InLineOfCounts
      <4> QED
        BY <2>3, <3>2, <4>1
    <3>4. InLine(session[g], sent[g], command.sample, Ahead(g))'
      BY <1>1, <2>6, <3>3, InLineNext
    <3>5. hand' = <<>> \/ \E x \in Sample : hand' = <<x>>
      BY <2>4, <3>1
    <3>6. hand' = <<>> => ~takes
      BY <3>1
    <3>7. finalSent => hand' = <<>> /\ s.final /\ sent[g] = s.total
      BY <2>11, <2>12, <2>14, <3>1
    <3>8. due /\ hand' = <<>> => sent[g] = s.total
      BY <2>11, <2>15, <3>6
    <3> HIDE DEF takes, s
    <3> QED
      BY <1>1, <2>2, <2>3, <2>6, <3>1, <3>4, <3>5, <3>7, <3>8 DEF LoopStream
  <2> QED
    BY <1>2, <2>6, <2>7, <2>8, <2>9, ServedStepKeepsStream
<1> QED
  BY <1>3, <1>4

LEMMA PublishKeepsStream ==
    ASSUME SInv, NEW g \in Sessions, PublishSample(g), UNCHANGED limits
    PROVE  StreamInv'
<1>1. /\ pc[g] = "publish" /\ pc[g] \in Looping /\ hand' = <<>> /\ Goto(g, "round")
      /\ UNCHANGED <<status, target, why, session, finalSeen, finalSent>>
  BY DEF PublishSample, Looping
<1>2. /\ pc \in [Sessions -> PcValues]
      /\ Serving(g) /\ LoopStream(g) /\ why[g] # "complete"
      /\ session[g] \in SharedState /\ session[g].queue \in Seq(Sample)
      /\ session[g].accepted \in Nat /\ sent \in [Sessions -> Nat]
      /\ command.sample \in Sample
  BY <1>1, StreamFacts, LoopFacts
<1>3. pc'[g] = "round"
  BY <1>1, <1>2 DEF Goto
<1>4. GoalStream(g)'
  BY <1>1, <1>2, <1>3, LoopStepKeepsGoal DEF Looping
<1>5. CASE hand = <<>>
  <2>1. UNCHANGED <<command, sent, due, hand>>
    BY <1>1, <1>5 DEF PublishSample
  <2>2. StreamTypes' /\ \A h \in Sessions : h # g => SameSession(h)
    BY <1>1, <1>2, <2>1
       DEF SInv, StreamInv, StreamTypes, SameSession, Goto
  <2>3. ASSUME ~session'[g].faulted
        PROVE  InLine(session[g], sent[g], command.sample, Ahead(g))'
    BY <1>1, <1>2, <2>1, <2>3, InLineNext DEF LoopStream, Ahead
  <2>4. LoopStream(g)'
    BY <1>1, <1>2, <1>3, <2>1, <2>3 DEF LoopStream
  <2> QED
    BY <1>2, <1>4, <2>2, <2>4, ServedStepKeepsStream
<1>6. CASE hand # <<>>
  <2>1. PICK x \in Sample : hand = <<x>>
    BY <1>1, <1>2, <1>6 DEF LoopStream
  <2>2. /\ command'.sample = x /\ sent' = [sent EXCEPT ![g] = @ + 1] /\ due' = FALSE
    BY <1>6, <2>1 DEF PublishSample
  <2>3. /\ sent' \in [Sessions -> Nat] /\ sent'[g] = sent[g] + 1 /\ sent[g] \in Nat
        /\ \A h \in Sessions : h # g => SameSession(h)
    BY <1>1, <1>2, <2>2 DEF SameSession, Goto
  <2>4. StreamTypes'
    BY <1>1, <2>1, <2>2, <2>3, EmptySeq DEF SInv, StreamInv, StreamTypes
  <2>5. ASSUME ~session'[g].faulted
        PROVE  InLine(session[g], sent[g], command.sample, Ahead(g))'
    <3>1. InLine(session[g], sent[g], command.sample, <<x>> \o session[g].queue)
      BY <1>1, <1>2, <2>1, <2>5 DEF LoopStream, Ahead
    <3>2. InLine(session[g], sent[g] + 1, x, <<>> \o session[g].queue)
      BY <1>2, <2>1, <2>3, <3>1, PublishKeepsLine
    <3> QED
      BY <1>1, <2>2, <2>3, <3>2, InLineNext
  <2>6. ~finalSent
    BY <1>1, <1>2, <1>6 DEF LoopStream
  <2>7. LoopStream(g)'
    BY <1>1, <1>2, <1>3, <2>2, <2>5, <2>6 DEF LoopStream
  <2> QED
    BY <1>2, <1>4, <2>3, <2>4, <2>7, ServedStepKeepsStream
<1> QED
  BY <1>5, <1>6

LEMMA EndRoundKeepsStream ==
    ASSUME SInv, NEW g \in Sessions, EndRound(g), UNCHANGED limits
    PROVE  StreamInv'
<1> DEFINE s == session[g]
<1>1. /\ pc[g] = "round" /\ pc[g] \in Looping
      /\ UNCHANGED <<status, target, session, hand, due, finalSeen, sent, command>>
      /\ finalSent' = (finalSent \/ (finalSeen /\ s.queue = <<>>))
  BY DEF EndRound, Looping
<1>2. /\ pc \in [Sessions -> PcValues] /\ why \in [Sessions -> Reasons]
      /\ Serving(g) /\ LoopStream(g) /\ why[g] # "complete"
      /\ s.queue \in Seq(Sample) /\ sent[g] \in Nat /\ hand = <<>>
      /\ finalSent \in BOOLEAN /\ finalSeen \in BOOLEAN /\ s.total \in Nat
  BY <1>1, StreamFacts, LoopFacts DEF LoopStream, SInv, StreamInv, StreamTypes
<1>3. \/ finalSent' /\ due /\ EndWith(g, "hold", "complete")
      \/ EndWith(g, "hold", "failed")
      \/ Goto(g, "check") /\ UNCHANGED why
  BY DEF EndRound
<1>4. /\ pc'[g] \in {"hold", "check"} /\ why' \in [Sessions -> Reasons]
      /\ why'[g] = "complete" => pc'[g] = "hold" /\ finalSent' /\ due
      /\ \A h \in Sessions : h # g => SameSession(h)
  BY <1>1, <1>2, <1>3 DEF EndWith, Goto, Reasons, SameSession
<1>5. StreamTypes'
  <2>1. finalSent' \in BOOLEAN
    BY <1>1, <1>2
  <2> QED
    BY <1>1, <1>4, <2>1 DEF SInv, StreamInv, StreamTypes
<1>6. finalSent' /\ due => s.final /\ sent[g] = s.total
  BY <1>1, <1>2 DEF LoopStream
<1>7. GoalStream(g)'
  BY <1>1, <1>4, <1>6, LoopStepKeepsGoal DEF Looping
<1>8. ASSUME pc'[g] \in Looping PROVE LoopStream(g)'
  <2>1. pc'[g] = "check"
    BY <1>4, <1>8 DEF Looping
  <2>2. ASSUME ~s.faulted
        PROVE  InLine(s, sent[g], command.sample, <<>> \o s.queue)
    BY <1>2, <2>2 DEF LoopStream, Ahead
  <2>3. ASSUME ~s.faulted PROVE InLine(session[g], sent[g], command.sample, Ahead(g))'
    BY <1>1, <1>2, <2>2, <2>3, InLineNext
  <2>4. ASSUME ~s.faulted, finalSent' PROVE s.final /\ s.queue = <<>>
    <3>1. CASE finalSent
      <4>1. s.final /\ sent[g] = s.total
        BY <1>1, <1>2, <3>1 DEF LoopStream
      <4>2. sent[g] + Len(<<>> \o s.queue) = s.total
        BY <2>2, <2>4 DEF InLine
      <4>3. <<>> \o s.queue = s.queue /\ Len(s.queue) \in Nat
        BY <1>2, ConcatEmptySeq
      <4>4. Len(s.queue) = 0
        BY <1>2, <4>1, <4>2, <4>3
      <4> HIDE DEF s
      <4> QED
        BY <1>2, <4>1, <4>4, EmptySeq
    <3>2. CASE finalSeen /\ s.queue = <<>>
      BY <1>2, <3>2 DEF LoopStream
    <3> QED
      BY <1>1, <2>4, <3>1, <3>2
  <2> QED
    BY <1>1, <1>2, <2>1, <2>3, <2>4 DEF LoopStream
<1> QED
  BY <1>2, <1>4, <1>5, <1>7, <1>8, ServedStepKeepsStream

LEMMA HoldKeepsStream ==
    ASSUME SInv, NEW g \in Sessions, Hold(g), UNCHANGED limits
    PROVE  StreamInv'
<1>1. /\ pc[g] = "hold" /\ Serving(g) /\ UNCHANGED <<status, why, session, sent>>
      /\ command'.sample = NoSample /\ hand' = <<>> /\ due' = FALSE
      /\ finalSeen' = FALSE /\ finalSent' = FALSE
  BY DEF Hold, Serving
<1>2. /\ pc \in [Sessions -> PcValues] /\ GoalStream(g)
      /\ target \in [Sessions -> {"policy", "normal"}]
  BY StreamFacts
<1>3. /\ pc'[g] = "list" /\ target'[g] = "normal"
      /\ \A h \in Sessions : h # g => SameSession(h)
  BY <1>1, <1>2 DEF Hold, Goto, SameSession
<1>4. StreamTypes'
  <2>1. NoSample \in Sample
    BY DEF NoSample, Sample
  <2> QED
    BY <1>1, <2>1, EmptySeq DEF SInv, StreamInv, StreamTypes
<1>5. GoalStream(g)'
  BY <1>1, <1>2, <1>3 DEF GoalStream, NotArmed, Switching, Looping
<1> QED
  BY <1>1, <1>3, <1>4, <1>5, ServedStepKeepsStream DEF Looping

-----------------------------------------------------------------------------
(* The theorem                                                             *)

LEMMA StreamStep == SInv /\ Next => StreamInv'
<1> SUFFICES ASSUME SInv, Next PROVE StreamInv'
  OBVIOUS
<1>1. UNCHANGED limits
  BY DEF Next, Environment, Worker
<1>2. CASE Environment
  <2>1. ASSUME NEW c \in Chunks, OnChunk(c) PROVE StreamInv'
    <3>1. PICK a \in Sessions : active = a
      BY <2>1 DEF OnChunk, SInv, OwnerInv, Owning
    <3> QED
      BY <1>1, <2>1, <3>1, ChunkKeepsStream
  <2> QED
    BY <1>1, <1>2, <2>1, ServeKeepsStream, AdmissionKeepsStream DEF Environment
<1>3. ASSUME NEW g \in Sessions, Worker(g) PROVE StreamInv'
  BY <1>1, <1>3, OutsideLoopKeepsStream, ArmKeepsStream, CheckKeepsStream,
     TakeKeepsStream, PublishKeepsStream, EndRoundKeepsStream, HoldKeepsStream
     DEF Worker
<1> QED
  BY <1>2, <1>3 DEF Next

LEMMA StreamInvariance == Spec => []SInv
<1>1. Init => StreamInv
  <2> SUFFICES ASSUME Init PROVE StreamInv
    OBVIOUS
  <2>1. NewSession \in SharedState
    BY EmptySeq DEF NewSession, SharedState
  <2>2. NoCommand.sample \in Sample
    BY DEF NoCommand, NoSample, Sample
  <2>3. StreamTypes
    BY <2>1, <2>2, EmptySeq DEF Init, StreamTypes, StatusValues, Reasons
  <2>4. ASSUME NEW g \in Sessions PROVE GoalStream(g) /\ pc[g] \notin Looping
    BY DEF Init, GoalStream, Looping, Ended
  <2> QED
    BY <2>3, <2>4 DEF StreamInv
<1>2. SInv /\ [Next]_vars => StreamInv'
  <2> SUFFICES ASSUME SInv, UNCHANGED vars PROVE StreamInv'
    BY StreamStep
  <2>1. /\ UNCHANGED stream
        /\ UNCHANGED <<session, hand, due, finalSeen, finalSent, sent, command>>
        /\ UNCHANGED <<pc, target, why, status, limits>>
    BY DEF vars, worker, stream, round
  <2>2. StreamTypes'
    BY <2>1 DEF SInv, StreamInv, StreamTypes
  <2>3. ASSUME NEW h \in Sessions
        PROVE  GoalStream(h)' /\ (pc'[h] \in Looping => LoopStream(h)')
    BY <2>1, SameSessionKeepsGoal, LoopUntouched DEF SInv, StreamInv, SameSession
  <2> QED
    BY <2>2, <2>3 DEF StreamInv
<1>3. OwnerInv /\ StreamInv <=> SInv
  BY DEF SInv
<1> QED
  BY <1>1, <1>2, <1>3, OwnerInvariance, PTL DEF Spec

(* While a session runs and no chunk was rejected, every accepted sample   *)
(* was published or is still ahead, in order; and a session that succeeds  *)
(* has published all of its stream up to the final chunk.                  *)
THEOREM StreamsAreWhole == Spec => []StreamIsWhole
<1>1. SInv => WholeStreamOnSuccess
  BY DEF SInv, StreamInv, GoalStream, WholeStreamOnSuccess
<1>2. SInv => NoSampleLost
  <2> SUFFICES ASSUME SInv, NEW g \in Sessions,
                      pc[g] \in {"check", "take", "publish", "round"},
                      ~session[g].faulted
               PROVE  LET line == IF sent[g] = 0 THEN Ahead(g)
                                  ELSE <<command.sample>> \o Ahead(g)
                      IN  /\ sent[g] + Len(Ahead(g)) = session[g].total
                          /\ \A i \in 1 .. Len(line) - 1 : Successor(line[i], line[i + 1])
                          /\ sent[g] = 0 /\ line # <<>> => line[1] = First
    BY DEF NoSampleLost, First
  <2>1. InLine(session[g], sent[g], command.sample, Ahead(g))
    BY StreamFacts DEF LoopStream, Looping
  <2> QED
    BY <2>1 DEF InLine, Ordered, Chain, LineOf
<1> QED
  BY <1>1, <1>2, StreamInvariance, PTL DEF StreamIsWhole

-----------------------------------------------------------------------------
(* The arm's mode: requests that outlive their goals                       *)

(* q holds a request to policy mode; one by h; one to policy mode that     *)
(* precedes one to normal mode; and the other way about.                   *)
Asks(q) == \E i \in 1 .. Len(q) : q[i].to = "policy"
AsksFor(q, h) == \E i \in 1 .. Len(q) : q[i].to = "policy" /\ q[i].by = h
OutAndBack(q) ==
    \E i, j \in 1 .. Len(q) : i < j /\ q[i].to = "policy" /\ q[j].to = "normal"
BackAndOut(q) ==
    \E i, j \in 1 .. Len(q) : i < j /\ q[i].to = "normal" /\ q[j].to = "policy"

(* The goal failed at a switch, and its request to policy mode is no more. *)
Failed(h) == why[h] = "backend"
Spent(h) == Failed(h) /\ ~AsksFor(requests, h)
OneSpent == \E h \in Sessions : Spent(h)
TwoSpent == \E h, k \in Sessions : h # k /\ Spent(h) /\ Spent(k)

(* The goal entered policy mode and has not come back.                     *)
Inside(g) ==
    \/ pc[g] \in Looping \cup {"subscriber", "hold"}
    \/ pc[g] \in Switching /\ target[g] = "normal"
SomeInside == \E g \in Sessions : Inside(g)
InPolicy == mode = "policy" \/ SomeInside

FailedEnds ==
    \A h \in Sessions : Failed(h) => pc[h] \in {"report", "reset", "release", "done"}

(* A request to policy mode is the last one and its goal waits for it, or  *)
(* its goal has failed; and no goal makes two.                             *)
AskedAndFailed ==
    \A i \in 1 .. Len(requests) :
        requests[i].to = "policy" =>
            \/ Failed(requests[i].by)
            \/ /\ i = Len(requests)
               /\ pc[requests[i].by] = "wait" /\ target[requests[i].by] = "policy"
AskedOnce ==
    \A i, j \in 1 .. Len(requests) :
        i < j /\ requests[i].to = "policy" /\ requests[j].to = "policy"
            => requests[i].by # requests[j].by

(* How many failed switches it takes to get the requests that are there    *)
Residue ==
    /\ InPolicy /\ Asks(requests) => OneSpent
    /\ OutAndBack(requests) => OneSpent
    /\ InPolicy /\ BackAndOut(requests) => TwoSpent
    /\ mode = "normal" /\ SomeInside /\ Asks(requests) => TwoSpent

SwitchInv ==
    /\ why \in [Sessions -> Reasons]
    /\ FailedEnds /\ AskedAndFailed /\ AskedOnce /\ Residue

(* The arm is as NormalModeAfterSession wants it.                          *)
Restored == (mode = "normal" /\ ~Asks(requests)) \/ ThreeBackendFailures
RestoredInv ==
    \A g \in Sessions :
        active = g /\ pc[g] = "report" /\ ~Failed(g) => Restored

ModeInv == OwnerInv /\ SwitchInv /\ RestoredInv

(* Goals stay failed, and a spent goal stays spent unless it asks again.   *)
LEMMA FailuresStay ==
    ASSUME \A h \in Sessions : Failed(h) => Failed(h)'
    PROVE  /\ ThreeBackendFailures => ThreeBackendFailures'
           /\ (\A h \in Sessions : AsksFor(requests, h)' => AsksFor(requests, h)) =>
                /\ \A h \in Sessions : Spent(h) => Spent(h)'
                /\ OneSpent => OneSpent'
                /\ TwoSpent => TwoSpent'
<1>1. ThreeBackendFailures => ThreeBackendFailures'
  BY DEF ThreeBackendFailures, Failed
<1>2. ASSUME \A h \in Sessions : AsksFor(requests, h)' => AsksFor(requests, h)
      PROVE  \A h \in Sessions : Spent(h) => Spent(h)'
  BY <1>2 DEF Spent
<1> QED
  BY <1>1, <1>2 DEF OneSpent, TwoSpent

(* What the queue holds                                                    *)
LEMMA RequestsOfGoals ==
    ASSUME OwnerInv
    PROVE  \A i \in 1 .. Len(requests) :
             requests[i].by \in Sessions /\ requests[i].to \in {"policy", "normal"}
<1>1. requests \in Seq(Request)
  BY DEF OwnerInv, Owning
<1>2. \A i \in 1 .. Len(requests) : requests[i] \in Request
  BY <1>1
<1> QED
  BY <1>2 DEF Request

(* A request to policy mode that is left while nobody waits for one means  *)
(* a failure besides the spent goals.                                      *)
LEMMA TwoSpentAndAsked ==
    ASSUME OwnerInv, SwitchInv, TwoSpent, Asks(requests),
           \A h \in Sessions : ~(pc[h] = "wait" /\ target[h] = "policy")
    PROVE  ThreeBackendFailures
<1>1. PICK h, k \in Sessions : h # k /\ Spent(h) /\ Spent(k)
  BY DEF TwoSpent
<1>2. PICK i \in 1 .. Len(requests) : requests[i].to = "policy"
  BY DEF Asks
<1>3. requests[i].by \in Sessions
  BY RequestsOfGoals
<1>4. Failed(requests[i].by)
  BY <1>2, <1>3 DEF SwitchInv, AskedAndFailed
<1>5. requests[i].by # h /\ requests[i].by # k
  BY <1>1, <1>2 DEF Spent, AsksFor
<1>6. why[h] = "backend" /\ why[k] = "backend" /\ why[requests[i].by] = "backend"
  BY <1>1, <1>4 DEF Spent, Failed
<1> QED
  BY <1>1, <1>3, <1>5, <1>6 DEF ThreeBackendFailures

(* A step that leaves the queue alone, and at which no goal enters unless  *)
(* the arm is in policy mode                                               *)
LEMMA QuietStep ==
    ASSUME SwitchInv, requests' = requests,
           mode' = mode \/ (mode = "policy" /\ mode' = "mixed"),
           \A h \in Sessions : Failed(h) => Failed(h)',
           SomeInside' => SomeInside \/ mode' = "policy",
           mode' = "policy" => mode = "policy"
    PROVE  /\ Residue' /\ AskedOnce'
           /\ Restored => Restored'
<1>1. \A h \in Sessions : AsksFor(requests, h)' <=> AsksFor(requests, h)
  BY DEF AsksFor
<1>2. /\ OneSpent => OneSpent'
      /\ TwoSpent => TwoSpent'
      /\ ThreeBackendFailures => ThreeBackendFailures'
  BY <1>1, FailuresStay
<1>3. /\ Asks(requests)' <=> Asks(requests)
      /\ OutAndBack(requests)' <=> OutAndBack(requests)
      /\ BackAndOut(requests)' <=> BackAndOut(requests)
  BY DEF Asks, OutAndBack, BackAndOut
<1>4. InPolicy' => InPolicy
  BY DEF InPolicy
<1>5. mode' = "normal" /\ SomeInside' => mode = "normal" /\ SomeInside
  OBVIOUS
<1>6. AskedOnce'
  BY DEF SwitchInv, AskedOnce
<1>7. mode = "normal" /\ ~Asks(requests) => Restored'
  <2> SUFFICES ASSUME mode = "normal", ~Asks(requests) PROVE Restored'
    OBVIOUS
  <2>1. mode' = "normal"
    OBVIOUS
  <2> QED
    BY <1>3, <2>1 DEF Restored
<1> QED
  BY <1>2, <1>3, <1>4, <1>5, <1>6, <1>7 DEF SwitchInv, Residue, Restored

(* The thread of g takes a step that asks for no switch.                   *)
LEMMA ThreadStep ==
    ASSUME ModeInv, NEW g \in Sessions, requests' = requests, mode' = mode,
           why' \in [Sessions -> Reasons],
           \A h \in Sessions : h # g =>
             /\ pc'[h] = pc[h] /\ why'[h] = why[h] /\ target'[h] = target[h]
             /\ active' = h => active = h,
           Failed(g) => Failed(g)',
           Failed(g)' => pc'[g] \in {"report", "reset", "release", "done"},
           pc[g] = "wait" /\ target[g] = "policy" => Failed(g)',
           Inside(g)' => Inside(g) \/ mode = "policy",
           \/ pc'[g] # "report" \/ active' # g \/ Failed(g)' \/ Restored
    PROVE  SwitchInv' /\ RestoredInv'
<1>1. \A h \in Sessions : h # g => (Failed(h)' <=> Failed(h)) /\ (Inside(h)' <=> Inside(h))
  BY DEF Failed, Inside
<1>2. \A h \in Sessions : Failed(h) => Failed(h)'
  BY <1>1
<1>3. SomeInside' => SomeInside \/ mode' = "policy"
  BY <1>1 DEF SomeInside
<1>4. Residue' /\ AskedOnce' /\ (Restored => Restored')
  <2>1. SwitchInv /\ (mode' = "policy" => mode = "policy")
    BY DEF ModeInv
  <2> QED
    BY <1>2, <1>3, <2>1, QuietStep
<1>5. FailedEnds'
  BY <1>1 DEF FailedEnds, ModeInv, SwitchInv
<1>6. AskedAndFailed'
  <2> SUFFICES ASSUME NEW i \in 1 .. Len(requests), requests[i].to = "policy",
                      ~Failed(requests[i].by)'
               PROVE  /\ i = Len(requests)
                      /\ pc'[requests[i].by] = "wait"
                      /\ target'[requests[i].by] = "policy"
    BY DEF AskedAndFailed
  <2>1. requests[i].by \in Sessions
    BY RequestsOfGoals DEF ModeInv
  <2>2. /\ i = Len(requests)
        /\ pc[requests[i].by] = "wait" /\ target[requests[i].by] = "policy"
    BY <1>2, <2>1 DEF ModeInv, SwitchInv, AskedAndFailed
  <2>3. requests[i].by # g
    BY <2>2
  <2> QED
    BY <2>1, <2>2, <2>3
<1>7. RestoredInv'
  BY <1>1, <1>4 DEF RestoredInv, ModeInv
<1> QED
  BY <1>4, <1>5, <1>6, <1>7 DEF SwitchInv

(* A switch ends.                                                          *)
LEMMA SwitchEndStep ==
    ASSUME ModeInv, NEW g \in Sessions, NEW b \in BOOLEAN, SwitchEnds(g, b),
           pc[g] \in Switching, b => mode = target[g],
           pc[g] = "wait" => ~b,
           requests' = requests, mode' = mode, UNCHANGED <<active, target>>
    PROVE  SwitchInv' /\ RestoredInv'
<1>0. /\ why \in [Sessions -> Reasons] /\ pc \in [Sessions -> PcValues]
      /\ target[g] \in {"policy", "normal"} /\ ~Failed(g)
  BY DEF ModeInv, SwitchInv, OwnerInv, Owning, FailedEnds, Switching
<1>1. /\ why' \in [Sessions -> Reasons]
      /\ \A h \in Sessions : h # g => pc'[h] = pc[h] /\ why'[h] = why[h]
      /\ pc'[g] \in {"report", "subscriber"}
      /\ Failed(g)' => pc'[g] = "report"
      /\ target[g] = "policy" /\ ~b => Failed(g)'
      /\ pc'[g] = "subscriber" => b /\ target[g] = "policy"
      /\ pc'[g] = "report" /\ ~Failed(g)' => target[g] = "normal" /\ (b \/ active # g)
  BY <1>0 DEF SwitchEnds, EndWith, Goto, Reasons, Failed, Armed
<1>2. Inside(g)' => mode = "policy"
  BY <1>1 DEF Inside, Looping, Switching
<1>3. ASSUME target[g] = "normal", mode = "normal" PROVE Restored
  <2>1. Inside(g) /\ Serving(g)
    BY <1>3 DEF Inside, Serving, Switching
  <2>2. \A h \in Sessions : ~(pc[h] = "wait" /\ target[h] = "policy")
    BY <1>3, <2>1 DEF ModeInv, OwnerInv, Exclusive, Serving
  <2>3. Asks(requests) => TwoSpent
    BY <1>3, <2>1 DEF ModeInv, SwitchInv, Residue, SomeInside
  <2> QED
    BY <1>3, <2>2, <2>3, TwoSpentAndAsked DEF Restored, ModeInv
<1>4. \/ pc'[g] # "report" \/ active' # g \/ Failed(g)' \/ Restored
  BY <1>1, <1>3
<1> QED
  BY <1>0, <1>1, <1>2, <1>4, ThreadStep

(* The thread of g asks for a switch and waits.                            *)
LEMMA AskStep ==
    ASSUME ModeInv, NEW g \in Sessions, pc[g] = "list", mode # target[g],
           Goto(g, "wait"),
           requests' = Append(requests, [to |-> target[g], by |-> g]),
           UNCHANGED <<why, mode, active, target>>
    PROVE  SwitchInv' /\ RestoredInv'
<1> DEFINE n == Len(requests)
<1>0. /\ pc \in [Sessions -> PcValues] /\ requests \in Seq(Request)
      /\ target[g] \in {"policy", "normal"} /\ ~Failed(g) /\ Serving(g)
      /\ n \in Nat
  <2>1. pc \in [Sessions -> PcValues] /\ requests \in Seq(Request)
        /\ target[g] \in {"policy", "normal"}
    BY DEF ModeInv, OwnerInv, Owning
  <2>2. ~Failed(g) /\ Serving(g)
    BY DEF ModeInv, SwitchInv, FailedEnds, Serving
  <2> QED
    BY <2>1, <2>2
<1>1. /\ pc'[g] = "wait" /\ \A h \in Sessions : h # g => pc'[h] = pc[h]
      /\ \A h \in Sessions : Failed(h)' <=> Failed(h)
  BY <1>0 DEF Goto, Failed
<1>2. /\ Len(requests') = n + 1
      /\ \A i \in 1 .. n : requests'[i] = requests[i]
      /\ requests'[n + 1].to = target[g] /\ requests'[n + 1].by = g
  BY <1>0
<1> HIDE DEF n
<1>ix. n \in Nat /\ \A i \in 1 .. n + 1 : i \in 1 .. n \/ i = n + 1
  BY <1>0
<1>3. \A i \in 1 .. n : requests[i].to = "policy" =>
        Failed(requests[i].by) /\ requests[i].by # g
  <2> SUFFICES ASSUME NEW i \in 1 .. n, requests[i].to = "policy"
               PROVE  Failed(requests[i].by) /\ requests[i].by # g
    OBVIOUS
  <2>1. requests[i].by \in Sessions
    BY RequestsOfGoals DEF ModeInv, n
  <2>2. pc[requests[i].by] # "wait"
    BY <1>0, <2>1 DEF ModeInv, OwnerInv, Exclusive, Serving
  <2>3. Failed(requests[i].by)
    BY <2>1, <2>2 DEF ModeInv, SwitchInv, AskedAndFailed, n
  <2> QED
    BY <1>0, <2>3
<1>4. FailedEnds' /\ why' \in [Sessions -> Reasons]
  BY <1>0, <1>1 DEF ModeInv, SwitchInv, FailedEnds
<1>5. AskedAndFailed'
  <2> SUFFICES ASSUME NEW i \in 1 .. n + 1, requests'[i].to = "policy",
                      why'[requests'[i].by] # "backend"
               PROVE  /\ i = n + 1
                      /\ pc'[requests'[i].by] = "wait"
                      /\ target'[requests'[i].by] = "policy"
    BY <1>2 DEF AskedAndFailed, Failed
  <2>1. CASE i \in 1 .. n
    <3>1. requests'[i] = requests[i]
      BY <1>2, <2>1
    <3>2. Failed(requests[i].by)
      BY <1>3, <2>1, <3>1
    <3> QED
      BY <3>1, <3>2 DEF Failed
  <2>2. CASE i = n + 1
    BY <1>1, <1>2, <2>2
  <2> QED
    BY <1>ix, <2>1, <2>2
<1>6. AskedOnce'
  <2> SUFFICES ASSUME NEW i \in 1 .. n + 1, NEW j \in 1 .. n + 1, i < j,
                      requests'[i].to = "policy", requests'[j].to = "policy"
               PROVE  requests'[i].by # requests'[j].by
    BY <1>2 DEF AskedOnce
  <2>1. i \in 1 .. n /\ requests'[i] = requests[i]
    BY <1>0, <1>2
  <2>2. CASE j = n + 1
    BY <1>2, <1>3, <2>1, <2>2
  <2>3. CASE j \in 1 .. n
    BY <1>2, <2>1, <2>3 DEF ModeInv, SwitchInv, AskedOnce, n
  <2> QED
    BY <1>ix, <2>2, <2>3
<1>7. \A h \in Sessions : h # g => (AsksFor(requests, h)' <=> AsksFor(requests, h))
  BY <1>0, <1>2 DEF AsksFor, n
<1>8. \A h \in Sessions : Spent(h) => Spent(h)'
  <2> SUFFICES ASSUME NEW h \in Sessions, Spent(h) PROVE Spent(h)'
    OBVIOUS
  <2>1. h # g
    BY <1>0 DEF Spent
  <2> QED
    BY <1>1, <1>7, <2>1 DEF Spent
<1>9. (OneSpent => OneSpent') /\ (TwoSpent => TwoSpent')
  BY <1>8 DEF OneSpent, TwoSpent
<1>10. Residue'
  <2>1. CASE target[g] = "policy"
    <3>1. ~SomeInside'
      <4> SUFFICES ASSUME NEW h \in Sessions, Inside(h)' PROVE FALSE
        BY DEF SomeInside
      <4>1. CASE h = g
        BY <1>1, <2>1, <4>1 DEF Inside, Looping
      <4>2. CASE h # g
        BY <1>0, <1>1, <4>2
           DEF Inside, Looping, Switching, ModeInv, OwnerInv, Exclusive, Serving
      <4> QED
        BY <4>1, <4>2
    <3>2. ~InPolicy'
      BY <2>1, <3>1 DEF InPolicy
    <3>3. OutAndBack(requests)' => OutAndBack(requests)
      <4> SUFFICES ASSUME NEW i \in 1 .. n + 1, NEW j \in 1 .. n + 1, i < j,
                          requests'[i].to = "policy", requests'[j].to = "normal"
                   PROVE  OutAndBack(requests)
        BY <1>2 DEF OutAndBack
      <4>1. j # n + 1
        BY <1>2, <2>1
      <4>2. i \in 1 .. n /\ j \in 1 .. n
        BY <1>0, <4>1
      <4> QED
        BY <1>2, <4>2 DEF OutAndBack, n
    <3> QED
      BY <1>9, <3>1, <3>2, <3>3 DEF Residue, ModeInv, SwitchInv
  <2>2. CASE target[g] = "normal"
    <3>1. Inside(g)
      BY <2>2 DEF Inside, Switching
    <3>2. Asks(requests)' => Asks(requests)
      <4> SUFFICES ASSUME NEW i \in 1 .. n + 1, requests'[i].to = "policy"
                   PROVE  Asks(requests)
        BY <1>2 DEF Asks
      <4>1. i \in 1 .. n
        BY <1>0, <1>2, <2>2
      <4> QED
        BY <1>2, <4>1 DEF Asks, n
    <3>3. BackAndOut(requests)' => BackAndOut(requests)
      <4> SUFFICES ASSUME NEW i \in 1 .. n + 1, NEW j \in 1 .. n + 1, i < j,
                          requests'[i].to = "normal", requests'[j].to = "policy"
                   PROVE  BackAndOut(requests)
        BY <1>2 DEF BackAndOut
      <4>1. j # n + 1
        BY <1>2, <2>2
      <4>2. i \in 1 .. n /\ j \in 1 .. n
        BY <1>0, <4>1
      <4> QED
        BY <1>2, <4>2 DEF BackAndOut, n
    <3>4. OutAndBack(requests)' => Asks(requests)'
      BY DEF OutAndBack, Asks
    <3>5. InPolicy /\ SomeInside
      BY <3>1 DEF InPolicy, SomeInside
    <3>6. /\ Asks(requests) => OneSpent
          /\ BackAndOut(requests) => TwoSpent
          /\ mode = "normal" /\ Asks(requests) => TwoSpent
      BY <3>5 DEF Residue, ModeInv, SwitchInv
    <3> QED
      BY <1>9, <3>2, <3>3, <3>4, <3>6 DEF Residue
  <2> QED
    BY <1>0, <2>1, <2>2
<1>11. RestoredInv'
  <2> SUFFICES ASSUME NEW h \in Sessions, pc'[h] = "report" PROVE FALSE
    BY DEF RestoredInv
  <2>1. h # g /\ pc[h] = "report"
    BY <1>1
  <2> QED
    BY <1>0, <2>1 DEF ModeInv, OwnerInv, Exclusive, Serving
<1> QED
  BY <1>4, <1>5, <1>6, <1>10, <1>11 DEF SwitchInv

(* The controller manager serves the request at the head of the queue.     *)
LEMMA ServeStep == ASSUME ModeInv, ServeSwitch PROVE SwitchInv' /\ RestoredInv'
<1> DEFINE r == Head(requests)
           n == Len(requests)
<1> USE DEF stream, round
<1>0. /\ pc \in [Sessions -> PcValues] /\ why \in [Sessions -> Reasons]
      /\ requests \in Seq(Request) /\ requests # <<>> /\ n \in Nat \ {0}
      /\ requests' = Tail(requests)
  <2>1. pc \in [Sessions -> PcValues] /\ requests \in Seq(Request)
    BY DEF ModeInv, OwnerInv, Owning
  <2>2. requests # <<>> /\ requests' = Tail(requests)
    BY DEF ServeSwitch
  <2>3. why \in [Sessions -> Reasons]
    BY DEF ModeInv, SwitchInv
  <2> QED
    BY <2>1, <2>2, <2>3
<1>1. /\ r = requests[1] /\ Len(requests') = n - 1
      /\ \A i \in 1 .. n - 1 : requests'[i] = requests[i + 1]
  BY <1>0
<1>2. PICK o \in Sessions :
        o = r.by /\ r.to \in {"policy", "normal"} /\ target[o] \in {"policy", "normal"}
  <2>1. r.by \in Sessions /\ r.to \in {"policy", "normal"}
    BY <1>0, <1>1, RequestsOfGoals DEF ModeInv
  <2> QED
    BY <2>1 DEF ModeInv, OwnerInv, Owning
<1>3. UNCHANGED <<active, target>> /\ mode' \in {mode, r.to}
  BY DEF ServeSwitch
<1>4. \/ pc[o] = "wait" /\ target[o] = r.to /\ Goto(o, "verify") /\ UNCHANGED why
      \/ pc[o] = "wait" /\ target[o] = r.to /\ SwitchEnds(o, FALSE)
      \/ UNCHANGED <<pc, why>>
  BY <1>2 DEF ServeSwitch
<1> HIDE DEF r, n
<1>5. /\ why' \in [Sessions -> Reasons]
      /\ \A h \in Sessions : h # o => pc'[h] = pc[h] /\ why'[h] = why[h]
      /\ \/ pc[o] = "wait" /\ target[o] = r.to /\ pc'[o] = "verify" /\ why'[o] = why[o]
         \/ /\ pc[o] = "wait" /\ target[o] = r.to /\ pc'[o] = "report"
            /\ active = o => Failed(o)'
         \/ pc'[o] = pc[o] /\ why'[o] = why[o]
  <2>1. CASE /\ pc[o] = "wait" /\ target[o] = r.to
             /\ Goto(o, "verify") /\ UNCHANGED why
    BY <1>0, <1>2, <2>1 DEF Goto
  <2>2. CASE pc[o] = "wait" /\ target[o] = r.to /\ SwitchEnds(o, FALSE)
    <3>1. pc' = [pc EXCEPT ![o] = "report"]
      BY <2>2 DEF SwitchEnds, EndWith, Goto
    <3>2. \/ why' = why /\ active # o
          \/ why' = [why EXCEPT ![o] = "backend"]
      BY <2>2 DEF SwitchEnds, EndWith, Armed
    <3> QED
      BY <1>0, <1>2, <2>2, <3>1, <3>2 DEF Failed, Reasons
  <2>3. CASE UNCHANGED <<pc, why>>
    BY <1>0, <2>3
  <2> QED
    BY <1>4, <2>1, <2>2, <2>3
<1>6. pc[o] = "wait" => ~Failed(o)
  BY <1>2 DEF ModeInv, SwitchInv, FailedEnds
<1>7. \A h \in Sessions : Failed(h) => Failed(h)'
  BY <1>5, <1>6 DEF Failed
<1>8. SomeInside' => SomeInside
  <2> SUFFICES ASSUME NEW h \in Sessions, Inside(h)' PROVE Inside(h)
    BY DEF SomeInside
  <2>1. CASE h # o
    BY <1>3, <1>5, <2>1 DEF Inside
  <2>2. CASE h = o
    BY <1>3, <1>5, <2>2 DEF Inside, Looping, Switching
  <2> QED
    BY <2>1, <2>2
<1>9. /\ Asks(requests)' => Asks(requests)
      /\ \A h : AsksFor(requests, h)' => AsksFor(requests, h)
      /\ OutAndBack(requests)' => OutAndBack(requests)
      /\ BackAndOut(requests)' => BackAndOut(requests)
  <2>1. \A i \in 1 .. n - 1 : i + 1 \in 1 .. n
    BY <1>0
  <2>2. \A i, j \in 1 .. n - 1 : i < j => i + 1 < j + 1
    OBVIOUS
  <2>3. Len(requests) = n
    BY DEF n
  <2>4. Asks(requests)' => Asks(requests)
    BY <1>1, <2>1, <2>3 DEF Asks
  <2>5. \A h : AsksFor(requests, h)' => AsksFor(requests, h)
    BY <1>1, <2>1, <2>3 DEF AsksFor
  <2>6. OutAndBack(requests)' => OutAndBack(requests)
    BY <1>1, <2>1, <2>2, <2>3 DEF OutAndBack
  <2>7. BackAndOut(requests)' => BackAndOut(requests)
    BY <1>1, <2>1, <2>2, <2>3 DEF BackAndOut
  <2> QED
    BY <2>4, <2>5, <2>6, <2>7
<1>10. /\ \A h \in Sessions : Spent(h) => Spent(h)'
       /\ OneSpent => OneSpent'
       /\ TwoSpent => TwoSpent'
       /\ ThreeBackendFailures => ThreeBackendFailures'
  BY <1>7, <1>9, FailuresStay
<1>11. \A i, j \in 1 .. n :
         i < j /\ requests[i].to = "policy" /\ requests[j].to = "policy"
             => requests[i].by # requests[j].by
  BY DEF ModeInv, SwitchInv, AskedOnce, n
<1>12. AskedOnce'
  <2> SUFFICES ASSUME NEW i \in 1 .. n - 1, NEW j \in 1 .. n - 1, i < j,
                      requests'[i].to = "policy", requests'[j].to = "policy"
               PROVE  requests'[i].by # requests'[j].by
    BY <1>1 DEF AskedOnce
  <2>1. i + 1 \in 1 .. n /\ j + 1 \in 1 .. n /\ i + 1 < j + 1
    BY <1>0
  <2> QED
    BY <1>1, <1>11, <2>1
<1>13. FailedEnds'
  BY <1>5, <1>6 DEF FailedEnds, Failed, ModeInv, SwitchInv
<1>14. r.to = "policy" => \A i \in 1 .. n - 1 :
                             requests'[i].to = "policy" => requests'[i].by # o
  <2> SUFFICES ASSUME r.to = "policy", NEW i \in 1 .. n - 1, requests'[i].to = "policy"
               PROVE  requests'[i].by # o
    OBVIOUS
  <2>1. 1 \in 1 .. n /\ i + 1 \in 1 .. n /\ 1 < i + 1
    BY <1>0
  <2> QED
    BY <1>1, <1>2, <1>11, <2>1
<1>15. AskedAndFailed'
  <2> SUFFICES ASSUME NEW i \in 1 .. n - 1, requests'[i].to = "policy",
                      why'[requests'[i].by] # "backend"
               PROVE  /\ i = n - 1
                      /\ pc'[requests'[i].by] = "wait"
                      /\ target'[requests'[i].by] = "policy"
    BY <1>1 DEF AskedAndFailed, Failed
  <2>1. i + 1 \in 1 .. n /\ requests'[i] = requests[i + 1]
    BY <1>0, <1>1
  <2>2. requests[i + 1].by \in Sessions
    BY <2>1, RequestsOfGoals DEF ModeInv, n
  <2>3. ~Failed(requests[i + 1].by)
    BY <1>7, <2>1, <2>2 DEF Failed
  <2>4. /\ i + 1 = n
        /\ pc[requests[i + 1].by] = "wait" /\ target[requests[i + 1].by] = "policy"
    BY <2>1, <2>3 DEF ModeInv, SwitchInv, AskedAndFailed, n
  <2>5. requests[i + 1].by # o \/ target[o] # r.to
    BY <1>2, <1>14, <2>1, <2>4
  <2>6. pc'[requests[i + 1].by] = pc[requests[i + 1].by]
    <3>1. CASE requests[i + 1].by # o
      BY <1>5, <2>2, <3>1
    <3>2. CASE requests[i + 1].by = o
      <4>1. pc'[o] = pc[o]
        BY <1>5, <2>5, <3>2
      <4> QED
        BY <3>2, <4>1
    <3> QED
      BY <3>1, <3>2
  <2>7. i = n - 1
    BY <1>0, <2>4
  <2> QED
    BY <1>3, <2>1, <2>4, <2>6, <2>7
<1>16. Residue'
  <2>1. ASSUME r.to = "policy", Failed(o) PROVE Residue'
    <3>1. AsksFor(requests, o) /\ ~AsksFor(requests, o)'
      <4>1. 1 \in 1 .. n
        BY <1>0
      <4> QED
        BY <1>1, <1>2, <1>14, <2>1, <4>1 DEF AsksFor, n
    <3>2. ~Spent(o) /\ Spent(o)'
      BY <1>2, <1>7, <2>1, <3>1 DEF Spent
    <3>3. OneSpent' /\ (OneSpent => TwoSpent')
      BY <1>2, <1>10, <3>2 DEF OneSpent, TwoSpent
    <3>4. BackAndOut(requests)' => OutAndBack(requests)
      <4> SUFFICES ASSUME NEW i \in 1 .. n - 1, requests'[i].to = "normal"
                   PROVE  OutAndBack(requests)
        BY <1>1 DEF BackAndOut
      <4>1. 1 \in 1 .. n /\ i + 1 \in 1 .. n /\ 1 < i + 1
        BY <1>0
      <4> QED
        BY <1>1, <2>1, <4>1 DEF OutAndBack, n
    <3>5. mode' = "normal" => mode = "normal"
      BY <1>3, <2>1
    <3> QED
      BY <1>8, <1>9, <1>10, <3>3, <3>4, <3>5 DEF Residue, ModeInv, SwitchInv
  <2>2. ASSUME r.to = "policy", ~Failed(o) PROVE Residue'
    <3>1. n = 1
      <4>1. 1 \in 1 .. n
        BY <1>0
      <4> QED
        BY <1>1, <1>2, <2>2, <4>1 DEF ModeInv, SwitchInv, AskedAndFailed, n
    <3>2. \A i \in 1 .. Len(requests') : FALSE
      BY <1>1, <3>1
    <3> QED
      BY <3>2 DEF Residue, Asks, OutAndBack, BackAndOut
  <2>3. ASSUME r.to = "normal" PROVE Residue'
    <3>1. Asks(requests)' => BackAndOut(requests)
      <4> SUFFICES ASSUME NEW i \in 1 .. n - 1, requests'[i].to = "policy"
                   PROVE  BackAndOut(requests)
        BY <1>1 DEF Asks
      <4>1. 1 \in 1 .. n /\ i + 1 \in 1 .. n /\ 1 < i + 1
        BY <1>0
      <4> QED
        BY <1>1, <2>3, <4>1 DEF BackAndOut, n
    <3>2. (InPolicy' => InPolicy) /\ (SomeInside' => InPolicy)
      BY <1>3, <1>8, <2>3 DEF InPolicy
    <3> QED
      BY <1>9, <1>10, <3>1, <3>2 DEF Residue, ModeInv, SwitchInv
  <2> QED
    BY <1>2, <2>1, <2>2, <2>3
<1>17. Restored => Restored'
  <2> SUFFICES ASSUME mode = "normal", ~Asks(requests) PROVE Restored'
    BY <1>10 DEF Restored
  <2>1. r.to # "policy"
    <3>1. 1 \in 1 .. n
      BY <1>0
    <3> QED
      BY <1>1, <3>1 DEF Asks, n
  <2> QED
    BY <1>2, <1>3, <1>9, <2>1 DEF Restored
<1>18. RestoredInv'
  <2> SUFFICES ASSUME NEW h \in Sessions, active' = h, pc'[h] = "report", ~Failed(h)'
               PROVE  Restored'
    BY DEF RestoredInv
  <2>1. pc[h] = "report" /\ active = h /\ ~Failed(h)
    <3>1. active = h /\ ~Failed(h)
      BY <1>3, <1>7
    <3>2. CASE h # o
      BY <1>5, <3>1, <3>2
    <3>3. CASE h = o
      <4>1. pc'[o] = pc[o]
        BY <1>5, <3>1, <3>3
      <4> QED
        BY <3>1, <3>3, <4>1
    <3> QED
      BY <3>1, <3>2, <3>3
  <2> QED
    BY <1>17, <2>1 DEF ModeInv, RestoredInv
<1> QED
  BY <1>5, <1>12, <1>13, <1>15, <1>16, <1>18 DEF SwitchInv

(* One step of a goal's thread                                             *)
LEMMA WorkerKeepsMode ==
    ASSUME ModeInv, NEW g \in Sessions, Worker(g)
    PROVE  SwitchInv' /\ RestoredInv'
<1> USE DEF stream, round, arm
<1>0. /\ pc \in [Sessions -> PcValues] /\ why \in [Sessions -> Reasons]
      /\ target \in [Sessions -> {"policy", "normal"}]
      /\ Failed(g) => pc[g] \in {"report", "reset", "release", "done"}
      /\ ~ (pc[g] \in {"plan", "context"} /\ active = g)
  <2>1. /\ pc \in [Sessions -> PcValues] /\ why \in [Sessions -> Reasons]
        /\ target \in [Sessions -> {"policy", "normal"}]
        /\ Failed(g) => pc[g] \in {"report", "reset", "release", "done"}
    BY DEF ModeInv, SwitchInv, OwnerInv, Owning, FailedEnds
  <2>2. active = g => ArmedAt(g)
    BY SessionsAssumption DEF ModeInv, OwnerInv, Exclusive
  <2> QED
    BY <2>1, <2>2 DEF ArmedAt, Looping, Switching
<1>1. CASE CheckPlan(g)
  <2>1. /\ pc[g] = "plan" /\ UNCHANGED <<requests, mode, active, target>>
        /\ why' \in [Sessions -> Reasons]
        /\ \A h \in Sessions : h # g => pc'[h] = pc[h] /\ why'[h] = why[h]
        /\ pc'[g] \in {"report", "context"} /\ why'[g] \in {"failed", "complete", why[g]}
    BY <1>0, <1>1 DEF CheckPlan, EndWith, Goto, Reasons
  <2>2. ~Failed(g) /\ ~Failed(g)' /\ ~Inside(g)' /\ active' # g
    BY <1>0, <2>1 DEF Failed, Inside, Looping, Switching
  <2> QED
    BY <2>1, <2>2, ThreadStep
<1>2. CASE AwaitContext(g)
  <2>1. /\ pc[g] = "context" /\ UNCHANGED <<requests, mode, active>>
        /\ why' \in [Sessions -> Reasons]
        /\ \A h \in Sessions : h # g => /\ pc'[h] = pc[h] /\ why'[h] = why[h]
                                        /\ target'[h] = target[h]
        /\ why'[g] \in {"failed", "canceled", why[g]}
        /\ pc'[g] = "report" \/ (pc'[g] = "list" /\ target'[g] = "policy")
    BY <1>0, <1>2 DEF AwaitContext, EndWith, Goto, Reasons
  <2>2. ~Failed(g) /\ ~Failed(g)' /\ ~Inside(g)' /\ active' # g
    BY <1>0, <2>1 DEF Failed, Inside, Looping, Switching
  <2> QED
    BY <2>1, <2>2, ThreadStep
<1>3. CASE ListControllers(g)
  <2>1. pc[g] = "list" /\ UNCHANGED <<mode, active, target>>
    BY <1>3 DEF ListControllers
  <2>2. \/ SwitchEnds(g, FALSE) /\ UNCHANGED requests
        \/ mode = target[g] /\ SwitchEnds(g, TRUE) /\ UNCHANGED requests
        \/ /\ mode # target[g] /\ Goto(g, "wait") /\ UNCHANGED why
           /\ requests' = Append(requests, [to |-> target[g], by |-> g])
    BY <1>3 DEF ListControllers
  <2> QED
    BY <2>1, <2>2, AskStep, SwitchEndStep DEF Switching
<1>4. CASE SwitchTimesOut(g)
  BY <1>4, SwitchEndStep DEF SwitchTimesOut, Switching
<1>5. CASE VerifyMode(g)
  <2>1. /\ pc[g] = "verify" /\ UNCHANGED <<mode, active, target, requests>>
        /\ SwitchEnds(g, FALSE) \/ (mode = target[g] /\ SwitchEnds(g, TRUE))
    BY <1>5 DEF VerifyMode
  <2> QED
    BY <2>1, SwitchEndStep DEF Switching
<1>6. CASE ArmSession(g)
  <2>1. /\ pc[g] = "subscriber" /\ UNCHANGED <<mode, requests>>
        /\ why' \in [Sessions -> Reasons]
        /\ \A h \in Sessions : h # g => /\ pc'[h] = pc[h] /\ why'[h] = why[h]
                                        /\ target'[h] = target[h]
                                        /\ active' = h => active = h
        /\ why'[g] \in {"failed", why[g]} /\ pc'[g] \in {"list", "check"}
    BY <1>0, <1>6 DEF ArmSession, EndWith, Goto, Reasons
  <2>2. ~Failed(g) /\ ~Failed(g)' /\ Inside(g)
    BY <1>0, <2>1 DEF Failed, Inside
  <2> QED
    BY <2>1, <2>2, ThreadStep
<1>7. CASE CheckSession(g) \/ Take(g) \/ PublishSample(g) \/ EndRound(g)
  <2>1. /\ pc[g] \in Looping /\ UNCHANGED <<mode, requests, active, target>>
        /\ why' \in [Sessions -> Reasons]
        /\ \A h \in Sessions : h # g => pc'[h] = pc[h] /\ why'[h] = why[h]
        /\ why'[g] \in {"failed", "canceled", "complete", why[g]}
        /\ pc'[g] \in Looping \cup {"hold"}
    BY <1>0, <1>7
       DEF CheckSession, Take, PublishSample, EndRound, EndWith, Goto, Reasons, Looping
  <2>2. ~Failed(g) /\ ~Failed(g)' /\ Inside(g)
    BY <1>0, <2>1 DEF Failed, Inside, Looping
  <2> QED
    BY <2>1, <2>2, ThreadStep DEF Looping
<1>8. CASE Hold(g)
  <2>1. /\ pc[g] = "hold" /\ UNCHANGED <<mode, requests, active, why>>
        /\ \A h \in Sessions : h # g => pc'[h] = pc[h] /\ target'[h] = target[h]
        /\ pc'[g] = "list"
    BY <1>0, <1>8 DEF Hold, Goto
  <2>2. ~Failed(g) /\ ~Failed(g)' /\ Inside(g)
    BY <1>0, <2>1 DEF Failed, Inside
  <2> QED
    BY <1>0, <2>1, <2>2, ThreadStep
<1>9. CASE Report(g) \/ ResetSession(g) \/ Release(g)
  <2>1. /\ pc[g] \in {"report", "reset", "release"}
        /\ UNCHANGED <<mode, requests, why, target>>
        /\ \A h \in Sessions : h # g => pc'[h] = pc[h] /\ (active' = h => active = h)
        /\ pc'[g] \in {"reset", "release", "done"}
    BY <1>0, <1>9, SessionsAssumption DEF Report, ResetSession, Release, Goto
  <2>2. Failed(g)' = Failed(g) /\ ~Inside(g)'
    BY <2>1 DEF Failed, Inside, Looping, Switching
  <2> QED
    BY <1>0, <2>1, <2>2, ThreadStep
<1> QED
  BY <1>1, <1>2, <1>3, <1>4, <1>5, <1>6, <1>7, <1>8, <1>9 DEF Worker

(* One step of anyone                                                      *)
LEMMA ModeStep == ModeInv /\ [Next]_vars => SwitchInv' /\ RestoredInv'
<1> SUFFICES ASSUME ModeInv, [Next]_vars PROVE SwitchInv' /\ RestoredInv'
  OBVIOUS
<1> USE DEF worker, stream, round, arm
<1>0. pc \in [Sessions -> PcValues] /\ SwitchInv
  BY DEF ModeInv, OwnerInv, Owning
<1>1. ASSUME UNCHANGED <<why, target, requests, pc, active>>,
             mode' = mode \/ (mode = "policy" /\ mode' = "mixed")
      PROVE  SwitchInv' /\ RestoredInv'
  <2>1. \A h \in Sessions : (Failed(h)' <=> Failed(h)) /\ (Inside(h)' <=> Inside(h))
    BY <1>1 DEF Failed, Inside
  <2>2. SomeInside' => SomeInside
    BY <2>1 DEF SomeInside
  <2>3. mode' = "policy" => mode = "policy"
    BY <1>1
  <2>4. Residue' /\ AskedOnce' /\ (Restored => Restored')
    BY <1>0, <1>1, <2>1, <2>2, <2>3, QuietStep
  <2>5. FailedEnds' /\ AskedAndFailed' /\ why' \in [Sessions -> Reasons]
    BY <1>0, <1>1 DEF SwitchInv, FailedEnds, AskedAndFailed, Failed
  <2>6. RestoredInv'
    BY <1>1, <2>1, <2>4 DEF ModeInv, RestoredInv
  <2> QED
    BY <2>4, <2>5, <2>6 DEF SwitchInv
<1>2. CASE UNCHANGED vars
  BY <1>1, <1>2 DEF vars
<1>3. ASSUME NEW g \in Sessions, Worker(g) PROVE SwitchInv' /\ RestoredInv'
  BY <1>3, WorkerKeepsMode
<1>4. CASE ServeSwitch
  BY <1>4, ServeStep
<1>5. CASE ControllerFails
  BY <1>1, <1>5 DEF ControllerFails
<1>6. ASSUME NEW g \in Sessions, HandleGoal(g) PROVE SwitchInv' /\ RestoredInv'
  <2>1. /\ pc[g] = "idle" /\ UNCHANGED <<active, target, requests, why, mode>>
        /\ \A h \in Sessions : h # g => pc'[h] = pc[h]
        /\ pc'[g] \in {"done", "plan"}
    BY <1>0, <1>6 DEF HandleGoal, Goto
  <2>2. ~Failed(g) /\ ~Failed(g)' /\ ~Inside(g)'
    BY <1>0, <2>1 DEF Failed, Inside, Looping, Switching, SwitchInv, FailedEnds
  <2>3. why' \in [Sessions -> Reasons]
    BY <1>0, <2>1 DEF SwitchInv
  <2> QED
    BY <2>1, <2>2, <2>3, ThreadStep
<1>7. ASSUME NEW g \in Sessions, HandleCancel(g) PROVE SwitchInv' /\ RestoredInv'
  BY <1>1, <1>7 DEF HandleCancel
<1>8. ASSUME NEW c \in Chunks, OnChunk(c) PROVE SwitchInv' /\ RestoredInv'
  BY <1>1, <1>8 DEF OnChunk
<1> QED
  BY <1>2, <1>3, <1>4, <1>5, <1>6, <1>7, <1>8 DEF Next, Environment

LEMMA ModeInvariance == Spec => []ModeInv
<1>1. Init => SwitchInv /\ RestoredInv
  <2> SUFFICES ASSUME Init PROVE SwitchInv /\ RestoredInv
    OBVIOUS
  <2>1. \A i \in 1 .. Len(requests) : FALSE
    <3>1. requests = << >> /\ Len(requests) = 0
      BY DEF Init
    <3> QED
      BY <3>1
  <2>2. why \in [Sessions -> Reasons] /\ \A g \in Sessions : ~Failed(g) /\ pc[g] = "idle"
    BY DEF Init, Failed, Reasons
  <2> QED
    BY <2>1, <2>2 DEF SwitchInv, RestoredInv, FailedEnds, AskedAndFailed, AskedOnce,
       Residue, Asks, OutAndBack, BackAndOut
<1>2. OwnerInv /\ SwitchInv /\ RestoredInv /\ [Next]_vars => SwitchInv' /\ RestoredInv'
  BY ModeStep DEF ModeInv
<1> QED
  BY <1>1, <1>2, OwnerInvariance, PTL DEF Spec, ModeInv

(* However late the controller manager serves its requests: a goal whose   *)
(* armed session ends leaves the normal controllers active and no request  *)
(* that takes them away, unless it or three goals failed at a switch.      *)
THEOREM NormalModeIsRestored == Spec => NormalModeAfterSession
<1>1. ASSUME ModeInv, SInv, [Next]_vars, NEW g \in Sessions, active = g,
             status[g] \notin Ended, status'[g] \in Ended,
             why[g] # "backend", ~ThreeBackendFailures
      PROVE  mode = "normal" /\ \A i \in 1 .. Len(requests) : requests[i].to # "policy"
  <2>1. pc[g] = "report"
    <3> USE DEF worker, stream, round, arm
    <3>0. status \in [Sessions -> StatusValues]
      BY <1>1 DEF SInv, StreamInv, StreamTypes
    <3>1. CASE UNCHANGED vars
      BY <1>1, <3>1 DEF vars
    <3>2. ASSUME NEW h \in Sessions, Report(h) PROVE pc[g] = "report"
      <4>1. h = g
        BY <1>1, <3>0, <3>2 DEF Report
      <4> QED
        BY <3>2, <4>1 DEF Report
    <3>3. CASE UNCHANGED status
      BY <1>1, <3>3
    <3>4. ASSUME NEW h \in Sessions, HandleGoal(h) \/ HandleCancel(h) PROVE pc[g] = "report"
      BY <1>1, <3>0, <3>4 DEF HandleGoal, HandleCancel, Ended
    <3>5. ASSUME NEW h \in Sessions, Worker(h) PROVE Report(h) \/ UNCHANGED status
      BY <3>5 DEF Worker, CheckPlan, AwaitContext, ListControllers, SwitchTimesOut,
         VerifyMode, ArmSession, CheckSession, Take, PublishSample, EndRound, Hold,
         ResetSession, Release
    <3>6. ServeSwitch \/ ControllerFails \/ (\E c \in Chunks : OnChunk(c)) => UNCHANGED status
      BY DEF ServeSwitch, ControllerFails, OnChunk
    <3> QED
      BY <1>1, <3>1, <3>2, <3>3, <3>4, <3>5, <3>6 DEF Next, Environment
  <2>2. mode = "normal" /\ ~Asks(requests)
    BY <1>1, <2>1 DEF ModeInv, RestoredInv, Restored, Failed
  <2> QED
    BY <2>2 DEF Asks
<1>2. ModeInv /\ SInv /\ [Next]_vars =>
        [\A g \in Sessions :
           /\ active = g
           /\ status[g] \notin Ended /\ status'[g] \in Ended
           /\ why[g] # "backend" /\ ~ThreeBackendFailures
           => mode = "normal" /\ \A i \in 1 .. Len(requests) : requests[i].to # "policy"]_vars
  BY <1>1
<1> QED
  BY <1>2, ModeInvariance, StreamInvariance, PTL DEF Spec, NormalModeAfterSession

-----------------------------------------------------------------------------
(* The drive command arbiter: limits *)

(* Clamp bounds, and keeps what is within the bound.                       *)
LEMMA ClampBounds ==
  ASSUME NEW x \in Int, NEW limit \in Nat
  PROVE  /\ Clamp(x, limit) \in -limit .. limit
         /\ x \in -limit .. limit => Clamp(x, limit) = x
  BY DEF Clamp

(* The change the acceleration limit allows for the elapsed time.          *)
LEMMA AllowedChange ==
  ASSUME NEW t \in Nat
  PROVE  MaxAccel * t \in Nat
  BY SpeedAssumption

(* A limited speed is within the speed limit, and within the change the    *)
(* acceleration limit allows, if the previous one was within the limit.    *)
LEMMA LimitedBounds ==
  ASSUME NEW v \in Int, previous \in -MaxSpeed .. MaxSpeed, since \in Nat
  PROVE  /\ Limited(v) \in -MaxSpeed .. MaxSpeed
         /\ ticked /\ since > 0 =>
              Limited(v) - previous \in -(MaxAccel * since) .. MaxAccel * since
<1> DEFINE wanted == Clamp(v, MaxSpeed)
           change == MaxAccel * since
           step == Clamp(wanted - previous, change)
<1>1. MaxSpeed \in Nat /\ change \in Nat /\ previous \in Int
  BY AllowedChange, SpeedAssumption
<1>2. wanted \in -MaxSpeed .. MaxSpeed
  BY <1>1, ClampBounds
<1>3. step \in -change .. change
  <2> HIDE DEF wanted, change
  <2>1. wanted - previous \in Int
    BY <1>1, <1>2
  <2> QED
    BY <1>1, <2>1, ClampBounds
<1>4. previous + step \in -MaxSpeed .. MaxSpeed
  <2> HIDE DEF wanted, change
  <2> QED
    BY <1>1, <1>2 DEF Clamp
<1>5. Limited(v) = IF ticked /\ since > 0 THEN previous + step ELSE wanted
  BY DEF Limited
<1> HIDE DEF wanted, change, step
<1>6. ticked /\ since > 0 => Limited(v) - previous = step
  BY <1>1, <1>3, <1>5
<1> QED
  BY <1>2, <1>3, <1>4, <1>5, <1>6 DEF change

-----------------------------------------------------------------------------
(* Type correctness *)

(* What the sources send while they publish                                *)
LEMMA SentIsCommand ==
  ASSUME DriveTypeOK,
         NEW c \in [finite : {TRUE}, speed : Speeds, gen : {generation}]
                     \cup [finite : {FALSE}, speed : {0}, gen : {generation}]
  PROVE  c \in Commands
  BY DEF DriveTypeOK, Commands

LEMMA NoneTypes == EmptySlot \in Slots /\ NoDriver \in Drivers
  BY BoundAssumption DEF EmptySlot, NoDriver, Slots, Drivers

LEMMA SlotFields ==
  ASSUME NEW r \in Slots
  PROVE  /\ r.speed \in Int /\ r.gen \in 0 .. MaxClears /\ r.age \in Nat
         /\ \A a \in Nat : [r EXCEPT !.age = a] \in Slots
  BY SpeedAssumption DEF Slots

LEMMA DriverAges ==
  ASSUME NEW d \in Drivers
  PROVE  d.age \in Nat /\ [d EXCEPT !.age = d.age + 1] \in Drivers
  BY DEF Drivers

LEMMA AgingIsAge ==
  ASSUME NEW s \in Sources, NEW a \in Nat
  PROVE  Aging(s, a) \in Nat
  BY DEF Aging

(* Queueing a sample, and dropping the oldest one, leaves a queue.         *)
LEMMA ReaderQueue ==
  ASSUME NEW S, NEW q \in Seq(S), NEW c \in S
  PROVE  Append(q, c) \in Seq(S) /\ Tail(Append(q, c)) \in Seq(S)
<1>1. Append(q, c) \in Seq(S) /\ Append(q, c) # <<>>
  BY AppendProperties
<1> QED
  BY <1>1, HeadTailProperties

LEMMA OnCommandTypes ==
  ASSUME DriveTypeOK, NEW s \in Sources, NEW c \in Commands, OnCommand(s, c)
  PROVE  slot' \in [Sources -> Slots]
<1> DEFINE kept == [received |-> TRUE, speed |-> c.speed, gen |-> c.gen, age |-> 0]
<1>1. kept \in Slots
  BY DEF Commands, Slots
<1>2. slot \in [Sources -> Slots]
  BY DEF DriveTypeOK, Slots
<1> HIDE DEF kept
<1>3. slot' = slot \/ slot' = [slot EXCEPT ![s] = kept]
        \/ slot' = [slot EXCEPT ![s] = EmptySlot]
  BY DEF OnCommand, Update, kept
<1> QED
  BY <1>1, <1>2, <1>3, NoneTypes

LEMMA TypeInit == InitDrive => DriveTypeOK
<1> SUFFICES ASSUME InitDrive PROVE DriveTypeOK
  OBVIOUS
<1>1. slot \in [Sources -> Slots] /\ driver \in Drivers
  BY NoneTypes DEF InitDrive
<1>2. queue \in [Sources -> Seq(Commands)] /\ leftover \in [Sources -> Seq(Commands)]
  BY DEF InitDrive
<1>3. generation \in 0 .. MaxClears /\ since \in 0 .. MaxGap
  BY BoundAssumption DEF InitDrive
<1>4. stopped \in BOOLEAN /\ ticked \in BOOLEAN
  BY DEF InitDrive
<1>5. previous \in Int /\ output \in Int
  BY DEF InitDrive
<1> QED
  BY <1>1, <1>2, <1>3, <1>4, <1>5 DEF DriveTypeOK

LEMMA TypeNext == DriveTypeOK /\ [NextDrive]_drive => DriveTypeOK'
<1> SUFFICES ASSUME DriveTypeOK, [NextDrive]_drive PROVE DriveTypeOK'
  OBVIOUS
<1> USE DEF DriveTypeOK
<1>1. CASE UNCHANGED drive
  BY <1>1 DEF drive
<1>2. CASE SetStop
  <2>1. slot' \in [Sources -> Slots]
    BY <1>2, NoneTypes DEF SetStop, Forget
  <2>2. driver' \in Drivers
    BY <1>2, NoneTypes DEF SetStop
  <2> QED
    BY <1>2, <2>1, <2>2 DEF SetStop, Forget
<1>3. CASE ClearStop
  <2>1. slot' \in [Sources -> Slots]
    BY <1>3, NoneTypes DEF ClearStop, Forget
  <2>2. generation' \in 0 .. MaxClears
    BY <1>3, BoundAssumption DEF ClearStop, ResetSubscriptions
  <2>3. queue' \in [Sources -> Seq(Commands)] /\ leftover' \in [Sources -> Seq(Commands)]
    BY <1>3 DEF ClearStop, ResetSubscriptions
  <2> QED
    <3>0. stopped' \in BOOLEAN
      BY <1>3 DEF ClearStop
    <3>1. previous' \in Int
      BY <1>3 DEF ClearStop, Forget
    <3>2. UNCHANGED <<since, ticked, output, driver>>
      BY <1>3 DEF ClearStop
    <3> QED
      BY <2>1, <2>2, <2>3, <3>0, <3>1, <3>2
<1>4. CASE Elapse
  <2>1. slot' \in [Sources -> Slots]
    <3>1. ASSUME NEW s \in Sources
          PROVE  [slot[s] EXCEPT !.age = Aging(s, slot[s].age)] \in Slots
      <4>1. slot[s] \in Slots
        OBVIOUS
      <4> QED
        BY <4>1, SlotFields, AgingIsAge
    <3> QED
      BY <1>4, <3>1 DEF Elapse
  <2>2. driver' \in Drivers
    <3>1. [driver EXCEPT !.age = driver.age + 1] \in Drivers
      BY DriverAges
    <3> QED
      BY <1>4, <3>1 DEF Elapse
  <2>3. since' \in 0 .. MaxGap
    BY <1>4, BoundAssumption DEF Elapse
  <2> QED
    BY <1>4, <2>1, <2>2, <2>3 DEF Elapse
<1>5. CASE Tick
  <2>1. output' \in Int /\ driver' \in Drivers
    <3>1. ASSUME NEW s \in Sources, output' = Limited(slot[s].speed),
                 driver' = [source |-> s, gen |-> slot[s].gen, age |-> slot[s].age]
          PROVE  output' \in Int /\ driver' \in Drivers
      <4>1. slot[s].speed \in Int /\ slot[s].gen \in 0 .. MaxClears /\ slot[s].age \in Nat
        <5>1. slot[s] \in Slots
          OBVIOUS
        <5> QED
          BY <5>1, SlotFields
      <4>2. since \in Nat /\ MaxAccel * since \in Nat
        <5>1. since \in Nat
          BY BoundAssumption
        <5> QED
          BY <5>1, AllowedChange
      <4>3. Limited(slot[s].speed) \in Int
        <5> DEFINE change == MaxAccel * since
        <5>1. change \in Nat
          BY <4>2
        <5> HIDE DEF change
        <5>2. Limited(slot[s].speed) =
                 LET wanted == Clamp(slot[s].speed, MaxSpeed)
                 IN  IF ticked /\ since > 0
                       THEN previous + Clamp(wanted - previous, change) ELSE wanted
          BY DEF Limited, change
        <5> QED
          BY <4>1, <5>1, <5>2, SpeedAssumption DEF Clamp
      <4> QED
        BY <3>1, <4>1, <4>3 DEF Drivers
    <3>2. CASE output' = 0 /\ driver' = NoDriver
      BY <3>2, NoneTypes
    <3> QED
      BY <1>5, <3>1, <3>2 DEF Tick
  <2> QED
    BY <1>5, <2>1, BoundAssumption DEF Tick
<1>6. ASSUME NEW s \in Sources, Deliver(s) PROVE DriveTypeOK'
  <2>1. Head(queue[s]) \in Commands /\ Tail(queue[s]) \in Seq(Commands)
    BY <1>6 DEF Deliver
  <2>2. slot' \in [Sources -> Slots]
    BY <1>6, <2>1, OnCommandTypes DEF Deliver
  <2> QED
    BY <1>6, <2>1, <2>2 DEF Deliver
<1>7. ASSUME NEW s \in Sources, DeliverLeftover(s) PROVE DriveTypeOK'
  <2>1. Head(leftover[s]) \in Commands
    BY <1>7 DEF DeliverLeftover
  <2>2. slot' \in [Sources -> Slots]
    BY <1>7, <2>1, OnCommandTypes DEF DeliverLeftover
  <2> QED
    <3>1. leftover' \in [Sources -> Seq(Commands)]
      <4>1. <<>> \in Seq(Commands)
        OBVIOUS
      <4> QED
        BY <1>7, <4>1 DEF DeliverLeftover
    <3> QED
      BY <1>7, <2>2, <3>1 DEF DeliverLeftover
<1>8. ASSUME NEW s \in Publishing, Send(s) PROVE DriveTypeOK'
  <2>0. s \in Sources
    BY SourceAssumption
  <2>1. queue' \in [Sources -> Seq(Commands)]
    <3>0. queue[s] \in Seq(Commands)
      BY <2>0
    <3>1. ASSUME NEW c \in Commands
          PROVE  /\ Append(queue[s], c) \in Seq(Commands)
                 /\ Tail(Append(queue[s], c)) \in Seq(Commands)
      BY <3>0, ReaderQueue
    <3>2. PICK c \in Commands :
            \/ queue' = [queue EXCEPT ![s] = Append(queue[s], c)]
            \/ queue' = [queue EXCEPT ![s] = Tail(Append(queue[s], c))]
      BY <1>8, SentIsCommand DEF Send
    <3> QED
      BY <3>1, <3>2
  <2> QED
    BY <1>8, <2>1 DEF Send
<1> QED
  BY <1>1, <1>2, <1>3, <1>4, <1>5, <1>6, <1>7, <1>8 DEF NextDrive

(* Every variable always holds a value of its kind.                        *)
THEOREM TypeCorrect == DriveSpec => []DriveTypeOK
  BY TypeInit, TypeNext, PTL DEF DriveSpec

-----------------------------------------------------------------------------
(* The inductive invariant *)

(* While the stop is latched nothing drives the base and nothing is kept.  *)
Latched ==
  stopped => /\ output = 0
             /\ previous = 0
             /\ driver = NoDriver
             /\ \A s \in Sources : ~slot[s].received

(* What is kept was sent since the stop was last cleared.                  *)
Current ==
  /\ driver.source # "none" => driver.gen = generation
  /\ \A s \in Sources : slot[s].received => slot[s].gen = generation

(* The command behind the output was fresh at the last tick.               *)
FreshAtTick ==
  /\ output # 0 => driver.source # "none"
  /\ driver.source # "none" => driver.age <= Timeout[driver.source] + since

(* The arbiter limits the change of what was really published.             *)
PreviousIsOutput ==
  /\ previous = output
  /\ output \in -MaxSpeed .. MaxSpeed

IInv == DriveTypeOK /\ Latched /\ Current /\ FreshAtTick /\ PreviousIsOutput

Kept == Latched /\ Current /\ FreshAtTick /\ PreviousIsOutput

LEMMA CommandStepKeeps ==
  ASSUME IInv, NEW s \in Sources, NEW c \in Commands, OnCommand(s, c),
         UNCHANGED <<stopped, previous, generation, since, ticked, output, driver>>
  PROVE  Kept'
<1>0. DriveTypeOK /\ slot \in [Sources -> Slots]
  BY DEF IInv, DriveTypeOK
<1>1. /\ stopped => slot' = slot
      /\ \A h \in Sources : slot'[h] = slot[h] \/ ~slot'[h].received
                              \/ (slot'[h].gen = c.gen /\ c.gen = generation)
  BY <1>0 DEF OnCommand, Update, EmptySlot
<1>2. Latched' /\ Current'
  BY <1>1 DEF IInv, Latched, Current
<1>3. FreshAtTick' /\ PreviousIsOutput'
  BY DEF IInv, FreshAtTick, PreviousIsOutput
<1> QED
  BY <1>2, <1>3 DEF Kept

LEMMA TickKeeps ==
  ASSUME IInv, Tick
  PROVE  Kept'
<1>0. /\ DriveTypeOK /\ since \in Nat /\ previous \in -MaxSpeed .. MaxSpeed
      /\ slot \in [Sources -> Slots]
      /\ UNCHANGED <<stopped, slot, generation>>
      /\ previous' = output' /\ since' = 0
  BY BoundAssumption DEF IInv, DriveTypeOK, PreviousIsOutput, Tick
<1>1. ASSUME ~stopped, NEW s \in Sources, Chosen(s),
             output' = Limited(slot[s].speed),
             driver' = [source |-> s, gen |-> slot[s].gen, age |-> slot[s].age]
      PROVE  Kept'
  <2>1. slot[s] \in Slots
    BY <1>0
  <2>2. slot[s].speed \in Int /\ slot[s].age \in Nat
    BY <2>1, SlotFields
  <2>3. slot[s].received /\ slot[s].age <= Timeout[s]
    BY <1>1 DEF Chosen, Fresh
  <2>4. output' \in -MaxSpeed .. MaxSpeed
    BY <1>0, <1>1, <2>2, LimitedBounds
  <2>5. driver'.source = s /\ driver'.gen = slot[s].gen /\ driver'.age = slot[s].age
    BY <1>1
  <2>6. Timeout[s] + 0 = Timeout[s] /\ s # "none"
    BY SourceAssumption DEF Sources
  <2>7. Latched' /\ PreviousIsOutput'
    BY <1>0, <1>1, <2>4 DEF Latched, PreviousIsOutput
  <2>8. Current'
    BY <1>0, <2>3, <2>5 DEF IInv, Current
  <2>9. FreshAtTick'
    BY <1>0, <2>3, <2>5, <2>6 DEF FreshAtTick
  <2> QED
    BY <2>7, <2>8, <2>9 DEF Kept
<1>2. CASE output' = 0 /\ driver' = NoDriver
  <2>1. 0 \in -MaxSpeed .. MaxSpeed /\ driver'.source = "none"
    BY <1>2, SpeedAssumption DEF NoDriver
  <2>2. Latched'
    BY <1>0, <1>2 DEF IInv, Latched
  <2>3. Current'
    BY <1>0, <2>1 DEF IInv, Current
  <2>4. FreshAtTick' /\ PreviousIsOutput'
    BY <1>0, <1>2, <2>1 DEF FreshAtTick, PreviousIsOutput
  <2> QED
    BY <2>2, <2>3, <2>4 DEF Kept
<1> QED
  BY <1>1, <1>2 DEF Tick

LEMMA InitIInv == InitDrive => IInv
<1> SUFFICES ASSUME InitDrive PROVE IInv
  OBVIOUS
<1>1. 0 \in -MaxSpeed .. MaxSpeed /\ NoDriver.source = "none" /\ ~EmptySlot.received
  BY SpeedAssumption DEF NoDriver, EmptySlot
<1> QED
  BY <1>1, TypeInit DEF InitDrive, IInv, Latched, Current, FreshAtTick, PreviousIsOutput

LEMMA NextIInv == IInv /\ [NextDrive]_drive => IInv'
<1> SUFFICES ASSUME IInv, [NextDrive]_drive PROVE Kept'
  BY TypeNext DEF IInv, Kept
<1>0. /\ DriveTypeOK
      /\ 0 \in -MaxSpeed .. MaxSpeed
      /\ NoDriver.source = "none" /\ ~EmptySlot.received
  BY SpeedAssumption DEF IInv, NoDriver, EmptySlot
<1>1. CASE UNCHANGED drive
  BY <1>1 DEF drive, IInv, Kept, Latched, Current, FreshAtTick, PreviousIsOutput
<1>2. CASE SetStop
  <2>1. output' = 0 /\ driver' = NoDriver /\ since' = since /\ generation' = generation
    BY <1>2 DEF SetStop
  <2>2. previous' = 0 /\ \A s \in Sources : ~slot'[s].received
    BY <1>0, <1>2 DEF SetStop, Forget, IInv, Latched
  <2> QED
    BY <1>0, <2>1, <2>2 DEF Kept, Latched, Current, FreshAtTick, PreviousIsOutput
<1>3. CASE ClearStop
  <2>1. previous' = 0 /\ \A s \in Sources : ~slot'[s].received
    BY <1>0, <1>3 DEF ClearStop, Forget
  <2>2. output' = 0 /\ driver' = NoDriver
    BY <1>3 DEF ClearStop, IInv, Latched
  <2> QED
    BY <1>0, <2>1, <2>2 DEF Kept, Latched, Current, FreshAtTick, PreviousIsOutput
<1>4. CASE Elapse
  <2>1. /\ UNCHANGED <<stopped, output, previous, generation>>
        /\ since' = since + 1
    BY <1>4 DEF Elapse
  <2>2. \A s \in Sources : /\ slot'[s].received = slot[s].received
                           /\ slot'[s].gen = slot[s].gen
    <3>1. ASSUME NEW s \in Sources, NEW a
          PROVE  /\ [slot[s] EXCEPT !.age = a].received = slot[s].received
                 /\ [slot[s] EXCEPT !.age = a].gen = slot[s].gen
      <4>1. slot[s] \in Slots
        BY <1>0 DEF DriveTypeOK
      <4> QED
        BY <4>1 DEF Slots
    <3> QED
      BY <1>4, <3>1 DEF Elapse
  <2>3. /\ driver'.source = driver.source /\ driver'.gen = driver.gen
        /\ driver.source = "none" => driver' = driver
        /\ driver.source # "none" => driver'.age = driver.age + 1
    <3>1. driver \in Drivers
      BY <1>0 DEF DriveTypeOK
    <3> QED
      BY <1>4, <3>1 DEF Elapse, Drivers
  <2>4. Latched'
    BY <1>0, <2>1, <2>2, <2>3 DEF IInv, Latched
  <2>5. Current' /\ PreviousIsOutput'
    BY <2>1, <2>2, <2>3 DEF IInv, Current, PreviousIsOutput
  <2>6. FreshAtTick'
    <3>1. driver.age \in Nat /\ since \in Nat
      <4>1. driver \in Drivers /\ since \in 0 .. MaxGap
        BY <1>0 DEF DriveTypeOK
      <4>2. driver.age \in Nat
        BY <4>1, DriverAges
      <4>3. since \in Nat
        BY <4>1, BoundAssumption
      <4> QED
        BY <4>2, <4>3
    <3>2. driver.source # "none" => Timeout[driver.source] \in Nat
      BY <1>0, SourceAssumption DEF DriveTypeOK, Drivers
    <3> QED
      BY <2>1, <2>3, <3>1, <3>2 DEF IInv, FreshAtTick
  <2> QED
    BY <2>4, <2>5, <2>6 DEF Kept
<1>5. CASE Tick
  BY <1>5, TickKeeps
<1>6. ASSUME NEW s \in Sources, Deliver(s) PROVE Kept'
  <2>1. Head(queue[s]) \in Commands
    <3>1. queue[s] \in Seq(Commands) /\ queue[s] # <<>>
      BY <1>0, <1>6 DEF Deliver, DriveTypeOK
    <3> QED
      BY <3>1, HeadTailProperties
  <2> QED
    BY <1>6, <2>1, CommandStepKeeps DEF Deliver
<1>7. ASSUME NEW s \in Sources, DeliverLeftover(s) PROVE Kept'
  <2>1. Head(leftover[s]) \in Commands
    <3>1. leftover[s] \in Seq(Commands) /\ leftover[s] # <<>>
      BY <1>0, <1>7 DEF DeliverLeftover, DriveTypeOK
    <3> QED
      BY <3>1, HeadTailProperties
  <2> QED
    BY <1>7, <2>1, CommandStepKeeps DEF DeliverLeftover
<1>8. ASSUME NEW s \in Publishing, Send(s) PROVE Kept'
  BY <1>8 DEF Send, IInv, Kept, Latched, Current, FreshAtTick, PreviousIsOutput
<1> QED
  BY <1>1, <1>2, <1>3, <1>4, <1>5, <1>6, <1>7, <1>8 DEF NextDrive

LEMMA Invariance == DriveSpec => []IInv
  BY InitIInv, NextIInv, PTL DEF DriveSpec

-----------------------------------------------------------------------------
(* Safety *)

(* While the stop is latched the base has been told to stand still and no  *)
(* command is kept.                                                        *)
THEOREM StopIsHeld == DriveSpec => []StopHolds
<1>1. IInv => StopHolds
  BY DEF IInv, Latched, StopHolds
<1> QED
  BY <1>1, Invariance, PTL

(* A command sent before the stop was cleared never moves the base.        *)
THEOREM NothingRevived == DriveSpec => []NoRevivedCommand
<1>1. IInv => NoRevivedCommand
  BY DEF IInv, Current, NoRevivedCommand
<1> QED
  BY <1>1, Invariance, PTL

(* A silent source moves the base for its timeout and one timer gap at     *)
(* most.                                                                   *)
THEOREM SilenceStops == DriveSpec => []DeadMan
<1>1. IInv => DeadMan
  <2> SUFFICES ASSUME IInv, output # 0
               PROVE  /\ driver.source # "none"
                      /\ driver.age <= Timeout[driver.source] + MaxGap
    BY DEF DeadMan
  <2>1. driver.source # "none" /\ driver.age <= Timeout[driver.source] + since
    BY DEF IInv, FreshAtTick
  <2>2. /\ driver.age \in Nat /\ Timeout[driver.source] \in Nat
        /\ since \in Nat /\ MaxGap \in Nat /\ since <= MaxGap
    BY <2>1, DriverAges, SourceAssumption, BoundAssumption DEF IInv, DriveTypeOK, Drivers
  <2> QED
    BY <2>1, <2>2
<1> QED
  BY <1>1, Invariance, PTL

(* The published speed respects the speed limit and changes no faster than *)
(* the acceleration limit, except to stand still and at the first tick.    *)
THEOREM OutputIsSmooth == DriveSpec => SmoothOutput
<1> DEFINE Step == /\ output' \in -MaxSpeed .. MaxSpeed
                   /\ output' # output /\ output' # 0 /\ ticked /\ since > 0 =>
                        output' - output \in -(MaxAccel * since) .. MaxAccel * since
<1>1. ASSUME IInv, IInv', [NextDrive]_drive PROVE Step
  <2>1. output' \in -MaxSpeed .. MaxSpeed
    BY <1>1 DEF IInv, PreviousIsOutput
  <2>2. CASE output' = output \/ output' = 0
    BY <2>1, <2>2
  <2>3. CASE output' # output /\ output' # 0
    <3>1. Tick
      BY <1>1, <2>3 DEF NextDrive, drive, SetStop, ClearStop, Elapse, Deliver,
         DeliverLeftover, Send
    <3>2. PICK s \in Sources : output' = Limited(slot[s].speed)
      BY <2>3, <3>1 DEF Tick
    <3>3. slot[s] \in Slots
      BY <1>1 DEF IInv, DriveTypeOK
    <3>4. slot[s].speed \in Int
      BY <3>3, SlotFields
    <3>5. previous = output /\ previous \in -MaxSpeed .. MaxSpeed /\ since \in Nat
      BY <1>1, BoundAssumption DEF IInv, PreviousIsOutput, DriveTypeOK
    <3> QED
      BY <2>1, <3>2, <3>4, <3>5, LimitedBounds
  <2> QED
    BY <2>2, <2>3
<1> QED
  BY <1>1, Invariance, PTL DEF DriveSpec, SmoothOutput

===============================================================================
