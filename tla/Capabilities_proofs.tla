-------------------------- MODULE Capabilities_proofs --------------------------
(***************************************************************************)
(* Proofs about the capability servers, for any camera streams, views,     *)
(* deadlines, utterances and standoffs: a model is given what is there to  *)
(* judge, a verdict is one somebody reached, and what a server has started *)
(* it ends or has asked to end.                                            *)
(***************************************************************************)
EXTENDS MCCapabilities, FiniteSetTheorems, SequenceTheorems,
        WellFoundedInduction, TLAPS

-----------------------------------------------------------------------------
(* The inductive invariants *)

(* A stream's frames are of one capture, and what is stored is never       *)
(* fresher than what is still on its way.                                  *)
Uniform(S) == \A f, g \in S : f = g
InOrder(k) ==
    /\ Uniform(latest[k]) /\ Uniform(camera[k])
    /\ (\E f \in latest[k] : f.fresh) => \A f \in camera[k] : f.fresh

SearchTypes ==
    /\ TypeOK
    /\ latest \in [Keys -> SUBSET Frame] /\ camera \in [Keys -> SUBSET Frame]
    /\ cancelRequested \in BOOLEAN /\ childAsked \in BOOLEAN
    /\ command \in {"zero", "back"} /\ view \in {"idle", "snapshot", "detect"}

(* A child runs for a call that waits for it, a call belongs to a stage    *)
(* that makes one, and the robot drives back only in its retreat.          *)
OneChild ==
    /\ child \in {"sent", "live"} => childCall # "none"
    /\ childCall # "none" => Calling
    /\ command = "zero" \/ stage = "retreat"

(* The view server works for the coordinator, which waits in its view: the *)
(* robot stands still, and so do the frames that are captured meanwhile.   *)
ViewStandsStill ==
    view # "idle" =>
        /\ stage = "view" /\ child = "live"
        /\ \A k \in Keys : \A f \in latest[k] \cup camera[k] : f.fresh => f.still
ViewIsFresh == view = "detect" => Fresh

(* The search goes home after its last view, and has found nobody only     *)
(* after it.                                                               *)
EveryViewTaken ==
    /\ stage \in {"home", "select"} => turn = Turns /\ pan = Pans
    /\ why = "notFound" =>
         stage = "failed" /\ candidates = {} /\ turn = Turns /\ pan = Pans

SearchInv ==
    /\ SearchTypes /\ OneChild /\ ViewStandsStill /\ ViewIsFresh
    /\ EveryViewTaken /\ \A k \in Keys : InOrder(k)

-----------------------------------------------------------------------------
(* The frame it works on is as old as it was when it was picked, and as    *)
(* the language model has taken since.                                     *)
DetectionInv ==
    /\ detect \in {"idle", "snapshot", "vlm", "transform", "sam2", "gpd"}
    /\ spent \in Nat /\ since \in Nat /\ picked \in Nat
    /\ frames \in [Streams -> SUBSET Nat]
    /\ \A s \in Streams : \A a \in frames[s] : a <= MaxSensorAge + 1 + Forgotten
    /\ detect \in {"vlm", "transform"} => picked <= spent + MaxSensorAge + SyncTolerance
    /\ detected = "forgotten" => detect = "idle"
    /\ NoFrameIsForgotten

(* While a goal is served the hand is as it was when somebody asked, and   *)
(* so is every image that is not from before.                              *)
VerificationInv ==
    /\ verify \in {"idle", "image", "vlm"} /\ inHand \in BOOLEAN
    /\ image \in [{"flight", "last"} -> Images]
    /\ evidence \in [asked : BOOLEAN, seen : BOOLEAN]
    /\ verify # "idle" =>
         /\ evidence.asked = inHand
         /\ \A i \in {"flight", "last"} : image[i].new => image[i].hand = inHand
    /\ verify = "vlm" /\ evidence.seen => evidence.asked
    /\ verified = "grasped" => verify = "idle"
    /\ GraspIsSeen

SightInv == DetectionInv /\ VerificationInv

-----------------------------------------------------------------------------
(* A goal that is on its way, or runs, has its call; a speech that was     *)
(* given up since the wake word was noted.                                 *)
CallsMatch ==
    /\ \A s \in Slots : s \in wire => call[s] = "response"
    /\ speaker = "assistant" => call["say"] = "result"
    /\ task = "assistant" => call["do"] = "result"
    /\ task = "abandoned" => asked
    /\ speaker = "abandoned" \/ "oldSay" \in wire => given

(* The loop has a call for speech where it speaks, and one for the task    *)
(* where it has accepted it.                                               *)
LoopCalls ==
    /\ pc \notin Speaking => call["say"] = "idle"
    /\ pc # "accept" => call["do"] = "idle"

(* A generator's file is whole when the generator has succeeded.           *)
DraftIsWhole == process = "succeeded" => draft # "partial"

VoiceInv ==
    /\ VoiceTypeOK /\ asked \in BOOLEAN /\ CallsMatch /\ LoopCalls /\ DraftIsWhole

-----------------------------------------------------------------------------
(* How the servers say that a goal of theirs has ended.                    *)
Told == {"none", "succeeded", "aborted", "unavailable", "timeout", "canceled"}

(* A trip: a leg that is not known to have ended is one the worker waits   *)
(* for, or has asked to stop.                                              *)
Trips ==
    [pc : {"idle", "dead", "start", "send", "response", "result", "stop", "dock"},
     stage : {"navigate", "backup", "spin", "correct", "respin"},
     attempt : {1, 2}, docks : BOOLEAN, canceling : BOOLEAN,
     why : {"none", "canceled", "timeout"},
     leg : [of : {"none", "nav", "backup", "spin"},
            state : Quiet \cup {"sent", "live"}, asked : BOOLEAN],
     adrift : SUBSET [of : {"none", "nav", "backup", "spin"}, told : Told,
                      asked : BOOLEAN, seen : BOOLEAN],
     told : Told]

LegIsMinded(t) ==
    /\ t.pc \notin {"response", "result", "stop"} => t.leg.state \in Quiet
    /\ t.pc = "stop" => t.leg.asked
LeftAsked(t) ==
    \A a \in t.adrift : a.seen => a.asked /\ (a.of = "nav" => a.told = "unavailable")
TripInv(t) == t \in Trips /\ LegIsMinded(t) /\ LeftAsked(t)

(* An approach: of what it has left while it goes on, no drive was known   *)
(* to run.                                                                 *)
Approaches ==
    [pc : {"idle", "dead", "plan", "drive", "backup", "response", "result", "stop"},
     dry : BOOLEAN, candidate : Nat, backedUp : BOOLEAN,
     cancel : {"none", "called", "canceling"},
     call : {"none", "child", "gone", "stray"},
     child : [of : {"none", "path", "nav", "backup"},
              state : AtRest \cup {"sent", "live"}, asked : BOOLEAN],
     active : BOOLEAN,
     adrift : SUBSET [of : {"none", "path", "nav", "backup"}, asked : BOOLEAN,
                      seen : BOOLEAN],
     told : Told]

MoveIsMinded(a) ==
    /\ a.pc \notin {"response", "result", "stop"} =>
         a.child.state \in AtRest \/ (a.pc = "dead" /\ a.call = "gone")
    /\ a.pc = "stop" => a.child.asked
    /\ a.pc = "response" => a.child.of # "none" /\ a.child.state # "none"
    /\ a.pc \in {"result", "stop"} =>
         a.child.of # "none" /\ a.child.state \notin {"none", "sent", "rejected"}
MovesLeftAsked(a) ==
    \A m \in a.adrift :
      m.seen => /\ m.asked
                /\ m.of = "nav" => /\ a.pc \in {"idle", "dead"}
                                   /\ a.told \in {"canceled", "unavailable"}
ApproachInv(a) == a \in Approaches /\ MoveIsMinded(a) /\ MovesLeftAsked(a)

-----------------------------------------------------------------------------
(* The localizer: what the tracker has counted as held, with the gap it    *)
(* would count next, lies after the last pose that was not good.           *)
Localizers ==
    [pc : {"idle", "dead", "scatter", "send", "response", "spin", "stop",
           "settle", "activate"},
     canceling : BOOLEAN,
     spin : [state : SpinEnded \cup {"sent", "live"}, asked : BOOLEAN],
     pose : [have : BOOLEAN, good : BOOLEAN, age : Nat, new : BOOLEAN],
     turned : BOOLEAN, looked : BOOLEAN, previous : Nat, hold : Nat, bad : Nat,
     why : {"none", "canceled", "timeout", "converged"},
     adrift : SUBSET [asked : BOOLEAN, seen : BOOLEAN],
     told : Told]

HeldSinceBad(l) ==
    /\ l.hold <= HoldFor /\ l.previous <= l.bad /\ l.bad <= Forever
    /\ l.previous <= PoseTimeout => l.hold + l.previous <= l.bad
Earned(l) ==
    l.why = "converged" => /\ l.pc \in {"stop", "settle", "activate", "dead"}
                           /\ l.bad >= HoldFor /\ l.turned
SpinIsMinded(l) ==
    /\ l.pc \notin {"response", "spin", "stop"} => l.spin.state \in SpinEnded
    /\ l.pc = "stop" => l.spin.asked
    /\ \A s \in l.adrift : s.seen => s.asked
    /\ l.told = "succeeded" => l.adrift = {}
LocalizerInv(l) == l \in Localizers /\ HeldSinceBad(l) /\ Earned(l) /\ SpinIsMinded(l)

-----------------------------------------------------------------------------
(* The arm: where its routes lead, what runs at which step of them, and    *)
(* what was judged by then.                                                *)
Steps == Idling \cup {"gripper", "pregrasp", "policy", "ready", "verify", "judge",
                      "head", "descend", "close", "lift", "pose", "release"}
IsRoute(r) ==
    /\ r \in Seq(Steps)
    /\ \A i \in 1 .. Len(r) :
         /\ r[i] = "verify" => i < Len(r) /\ r[i + 1] = "measure"
         /\ r[i] = "measure" => i < Len(r) /\ r[i + 1] = "judge"
         /\ r[i] = "judge" => i + 1 = Len(r) /\ r[i + 1] = "head"
Judges(r) == \E i \in 1 .. Len(r) : r[i] = "judge"

Arms ==
    [pc : {"idle", "dead", "step", "response", "image", "result"},
     kind : {"act", "prepare", "classical", "handover"},
     route : Seq(Steps), at : Nat \ {0}, attempt : {1, 2},
     cancel : {"none", "called", "canceling"},
     call : {"none", "child", "gone", "stray"},
     child : [state : ChildEnded \cup {"sent", "live"}, asked : BOOLEAN],
     active : BOOLEAN, image : BOOLEAN, closed : BOOLEAN,
     verdict : {"none", "held", "empty"},
     adrift : SUBSET [asked : BOOLEAN, seen : BOOLEAN],
     told : Told]

OnRoute(a) ==
    /\ IsRoute(a.route)
    /\ a.pc \notin {"idle", "dead"} => a.at <= Len(a.route)
    /\ a.pc = "image" => Step(a) = "verify"
ChildIsMinded(a) ==
    /\ a.pc = "idle" => a.child.state \in ChildEnded
    /\ a.pc = "dead" => a.child.state \in ChildEnded \/ a.call = "gone"
    /\ a.pc = "step" /\ Step(a) # "measure" => a.child.state \in ChildEnded
    /\ a.pc \in {"image", "result"} => a.active
    /\ \A c \in a.adrift : c.seen => c.asked
Judged(a) ==
    /\ a.told = "succeeded" => a.pc \in {"idle", "dead"}
    /\ a.told = "succeeded" /\ Judges(a.route) => a.verdict = "held"
    /\ a.pc \notin {"idle", "dead"} /\ Judges(a.route) /\ a.at = Len(a.route) =>
         a.verdict \in {"held", "empty"}
    /\ a.verdict = "empty" =>
         /\ a.closed /\ a.attempt = Attempts
         /\ a.pc \notin {"idle", "dead"} => a.at = Len(a.route) /\ Step(a) = "head"
ArmInv(a) == a \in Arms /\ OnRoute(a) /\ ChildIsMinded(a) /\ Judged(a)

-----------------------------------------------------------------------------
(* The stored poses *)
Trajectories == [state : NotMoving \cup {"sent", "live"}, asked : BOOLEAN]
LeftTrajectories == SUBSET [asked : BOOLEAN, seen : BOOLEAN]

PresetInv(p) ==
    /\ p \in [pc : {"idle", "dead", "start", "response", "result", "ask"},
              canceling : BOOLEAN, trajectory : Trajectories,
              adrift : LeftTrajectories, told : Told]
    /\ p.pc \in {"idle", "start", "dead"} => p.trajectory.state \in NotMoving
    /\ p.told = "succeeded" => p.adrift = {}
    /\ \A t \in p.adrift : t.seen => t.asked

Legs == {"head", "arm", "gripper"}
ReadyInv(r) ==
    /\ r \in [pc : {"off", "joints", "leg", "response", "result", "arrive", "done"},
              legs : Seq(Legs), trajectory : Trajectories,
              adrift : LeftTrajectories, status : {"WARN", "OK", "ERROR"}]
    /\ r.pc \in {"leg", "response", "result", "arrive"} => r.legs # << >>
    /\ r.pc \notin {"response", "result"} => r.trajectory.state \in NotMoving
    /\ r.status = "OK" => r.adrift = {}
    /\ \A t \in r.adrift : t.seen => t.asked

Inv ==
    /\ SearchInv /\ SightInv /\ VoiceInv /\ TripInv(trip) /\ ApproachInv(approach)
    /\ LocalizerInv(loc) /\ ArmInv(arm) /\ PresetInv(preset) /\ ReadyInv(ready)

-----------------------------------------------------------------------------
(* Driving to a named place *)

(* A trip ends at rest, with nobody to take an answer, or with its leg     *)
(* asked to stop.                                                          *)
LEMMA TripEnds ==
  ASSUME NEW t \in Trips, NEW told \in Told,
         \/ t.leg.state \in Quiet
         \/ t.pc = "response"
         \/ t.leg.asked /\ (t.leg.of = "nav" => told = "unavailable")
  PROVE  TripInv(EndTrip(t, told))
<1> DEFINE u == EndTrip(t, told)
           a == [of |-> t.leg.of, told |-> told, asked |-> t.leg.asked,
                 seen |-> t.pc # "response"]
<1>1. NoLeg \in [of : {"none", "nav", "backup", "spin"},
                 state : Quiet \cup {"sent", "live"}, asked : BOOLEAN]
  BY DEF NoLeg, Quiet
<1>2. a \in [of : {"none", "nav", "backup", "spin"}, told : Told,
             asked : BOOLEAN, seen : BOOLEAN]
  BY DEF Trips
<1>3. u.adrift = IF t.leg.state \in Quiet THEN {} ELSE {a}
  BY DEF EndTrip, Trips
<1>4. u \in Trips
  <2>1. u = [t EXCEPT !.pc = "idle", !.told = told, !.leg = NoLeg, !.why = "none",
                      !.adrift = u.adrift]
    BY <1>3 DEF EndTrip, Trips
  <2>2. u.adrift \in SUBSET [of : {"none", "nav", "backup", "spin"}, told : Told,
                            asked : BOOLEAN, seen : BOOLEAN]
    BY <1>2, <1>3
  <2> HIDE DEF u
  <2> QED BY <1>1, <2>1, <2>2 DEF Trips
<1>5. LegIsMinded(u)
  BY DEF EndTrip, Trips, LegIsMinded, NoLeg, Quiet
<1>6. LeftAsked(u)
  <2>1. CASE t.leg.state \in Quiet
    BY <1>3, <2>1 DEF LeftAsked
  <2>2. CASE t.leg.state \notin Quiet
    <3>1. a.seen => a.asked /\ (a.of = "nav" => a.told = "unavailable")
      BY <2>2
    <3>2. u.adrift = {a}
      BY <1>3, <2>2
    <3> HIDE DEF u, a
    <3> QED BY <3>1, <3>2 DEF LeftAsked
  <2> QED BY <2>1, <2>2
<1> QED
  BY <1>4, <1>5, <1>6 DEF TripInv

(* It goes on only at rest.                                                *)
LEMMA TripGoesOn ==
  ASSUME NEW t \in Trips, t.leg.state \in Quiet, LeftAsked(t),
         NEW next \in {"navigate", "backup", "spin", "correct", "respin"}
  PROVE  TripInv(SendStage(t, next)) /\ SendStage(t, next) \in Trips
  BY DEF SendStage, Trips, TripInv, LegIsMinded, LeftAsked

LEMMA StageIsFollowed ==
  ASSUME NEW t \in Trips, t.leg.state \in Quiet, LeftAsked(t), NEW u \in AfterStage(t)
  PROVE  TripInv(u)
<1>1. \A told \in Told : TripInv(EndTrip(t, told))
  BY TripEnds
<1>2. \A next \in {"navigate", "backup", "spin", "correct", "respin"} :
        TripInv(SendStage(t, next))
  BY TripGoesOn
<1>3. TripInv([t EXCEPT !.pc = "dock"])
  BY DEF TripInv, Trips, LegIsMinded, LeftAsked
<1>4. TripInv([SendStage(t, "navigate") EXCEPT !.attempt = 2])
  BY DEF SendStage, TripInv, Trips, LegIsMinded, LeftAsked
<1>5. t.stage \in {"navigate", "backup", "spin", "correct", "respin"}
  BY DEF Trips
<1>6. \/ u \in {EndTrip(t, "succeeded"), EndTrip(t, "unavailable"), EndTrip(t, "aborted")}
      \/ u \in {SendStage(t, "spin"), SendStage(t, "respin"), SendStage(t, "correct")}
      \/ u = [t EXCEPT !.pc = "dock"]
      \/ u = [SendStage(t, "navigate") EXCEPT !.attempt = 2]
  <2>1. CASE t.stage = "navigate"
    BY <2>1 DEF AfterStage
  <2>2. CASE t.stage = "backup"
    BY <2>2 DEF AfterStage
  <2>3. CASE t.stage = "correct"
    BY <2>3 DEF AfterStage
  <2>4. CASE t.stage = "spin"
    BY <2>4 DEF AfterStage
  <2>5. CASE t.stage = "respin"
    BY <2>5 DEF AfterStage
  <2> QED BY <1>5, <2>1, <2>2, <2>3, <2>4, <2>5
<1> QED BY <1>1, <1>2, <1>3, <1>4, <1>6 DEF Told

LEMMA FailureIsFollowed ==
  ASSUME NEW t \in Trips, t.leg.state \in Quiet, LeftAsked(t), NEW u \in AfterFailure(t)
  PROVE  TripInv(u)
<1>1. \A told \in Told : TripInv(EndTrip(t, told))
  BY TripEnds
<1>2. TripInv(SendStage(t, "backup"))
  BY TripGoesOn
<1>3. \/ u \in AfterStage(t) \/ u = SendStage(t, "backup") \/ u = EndTrip(t, "aborted")
  BY DEF AfterFailure
<1> QED BY <1>1, <1>2, <1>3, StageIsFollowed DEF Told

LEMMA AskedLeg ==
  ASSUME NEW t \in Trips
  PROVE  /\ AskLeg(t) \in Trips /\ AskLeg(t).leg.asked /\ AskLeg(t).adrift = t.adrift
         /\ AskLeg(t).leg.of = t.leg.of /\ AskLeg(t).pc = t.pc
  BY DEF AskLeg, Trips

LEMMA TripNext == TripInv(trip) /\ [NextTrip]_trip => TripInv(trip)'
<1> SUFFICES ASSUME TripInv(trip), NextTrip PROVE TripInv(trip')
  OBVIOUS
<1>0. trip \in Trips /\ LegIsMinded(trip) /\ LeftAsked(trip)
  BY DEF TripInv
<1>1. CASE StartTrip
  <2>1. PICK docks \in BOOLEAN :
         trip' = [trip EXCEPT !.pc = "start", !.docks = docks, !.told = "none",
                              !.stage = "navigate", !.attempt = 1,
                              !.canceling = FALSE]
    BY <1>1 DEF StartTrip
  <2> QED BY <1>0, <1>1, <2>1 DEF StartTrip, TripInv, Trips, LegIsMinded, LeftAsked, Told
<1>2. CASE CancelTrip
  BY <1>0, <1>2 DEF CancelTrip, TripInv, Trips, LegIsMinded, LeftAsked
<1>3. CASE Resolve
  <2>1. trip.leg.state \in Quiet
    BY <1>0, <1>3 DEF Resolve, LegIsMinded
  <2> QED BY <1>0, <1>3, <2>1, TripEnds, TripGoesOn DEF Resolve, Told
<1>4. CASE SendLeg
  <2>1. trip.leg.state \in Quiet
    BY <1>0, <1>4 DEF SendLeg, LegIsMinded
  <2>2. Leg[trip.stage] \in {"nav", "backup", "spin"}
    BY <1>0 DEF Leg, Trips
  <2>3. TripInv([trip EXCEPT !.pc = "response",
                  !.leg = [of |-> Leg[trip.stage], state |-> "sent", asked |-> FALSE]])
    BY <1>0, <2>2 DEF TripInv, Trips, LegIsMinded, LeftAsked
  <2> QED BY <1>0, <1>4, <2>1, <2>3, TripEnds, StageIsFollowed DEF SendLeg, Told
<1>5. CASE AwaitLegResponse
  <2>1. TripInv([trip EXCEPT !.pc = "result"])
    BY <1>0 DEF TripInv, Trips, LegIsMinded, LeftAsked
  <2> QED BY <1>0, <1>5, <2>1, TripEnds DEF AwaitLegResponse, Told, Quiet
<1>6. CASE AwaitLegResult
  <2> DEFINE w == IF trip.canceling THEN "canceled" ELSE "timeout"
  <2>1. trip.pc = "result" /\ w \in {"canceled", "timeout"}
    BY <1>6 DEF AwaitLegResult
  <2>2. CASE trip.leg.state = "succeeded" /\ trip' \in AfterStage(trip)
    BY <1>0, <2>2, StageIsFollowed DEF Quiet
  <2>3. CASE /\ trip.leg.state = "failed"
             /\ trip' \in IF trip.leg.of = "nav" THEN AfterFailure(trip)
                          ELSE {EndTrip(trip, "aborted")}
    BY <1>0, <2>3, FailureIsFollowed, TripEnds DEF Quiet, Told
  <2>4. CASE /\ trip.leg.state \notin Quiet /\ trip.leg.of = "nav"
             /\ trip' = [AskLeg(trip) EXCEPT !.pc = "stop", !.why = w]
    <3> DEFINE u == AskLeg(trip)
    <3>1. u \in Trips /\ u.leg.asked /\ LeftAsked(u)
      BY <1>0, AskedLeg DEF LeftAsked
    <3>2. trip' = [u EXCEPT !.pc = "stop", !.why = w]
      BY <2>4
    <3> HIDE DEF u, w
    <3> QED BY <2>1, <3>1, <3>2 DEF TripInv, Trips, LegIsMinded, LeftAsked
  <2>5. CASE /\ trip.leg.state \notin Quiet /\ trip.leg.of # "nav"
             /\ trip' = EndTrip(AskLeg(trip), w)
    BY <1>0, <2>1, <2>5, AskedLeg, TripEnds DEF Told
  <2>6. CASE trip.leg.state \in Quiet /\ trip' = [trip EXCEPT !.pc = "dead"]
    BY <1>0, <2>6 DEF TripInv, Trips, LegIsMinded, LeftAsked
  <2> QED BY <1>6, <2>2, <2>3, <2>4, <2>5, <2>6 DEF AwaitLegResult
<1>7. CASE AwaitLegStop
  <2>1. CASE trip.leg.state \in Quiet
    BY <1>0, <1>7, <2>1, TripEnds, FailureIsFollowed DEF AwaitLegStop, Told
  <2>2. CASE trip.leg.state \notin Quiet
    <3>1. trip.leg.asked /\ trip' = EndTrip(trip, "unavailable")
      BY <1>0, <1>7, <2>2 DEF AwaitLegStop, LegIsMinded
    <3> QED BY <1>0, <3>1, TripEnds DEF Told
  <2> QED BY <2>1, <2>2
<1>8. CASE Dock
  <2>1. trip.leg.state \in Quiet
    BY <1>0, <1>8 DEF Dock, LegIsMinded
  <2> QED BY <1>0, <1>8, <2>1, TripEnds DEF Dock, Told
<1>9. CASE LegServer
  <2>1. ASSUME NEW s \in {"live", "rejected"}, trip.leg.state = "sent",
               trip' = [trip EXCEPT !.leg.state = s]
        PROVE  TripInv(trip')
    BY <1>0, <2>1 DEF TripInv, Trips, LegIsMinded, LeftAsked, Quiet
  <2>2. ASSUME NEW s \in {"succeeded", "failed"}, trip.leg.state = "live",
               trip' = [trip EXCEPT !.leg.state = s]
        PROVE  TripInv(trip')
    BY <1>0, <2>2 DEF TripInv, Trips, LegIsMinded, LeftAsked, Quiet
  <2>3. ASSUME NEW a \in trip.adrift, trip' = [trip EXCEPT !.adrift = @ \ {a}]
        PROVE  TripInv(trip')
    BY <1>0, <2>3 DEF TripInv, Trips, LegIsMinded, LeftAsked
  <2> QED BY <1>9, <2>1, <2>2, <2>3 DEF LegServer
<1> QED
  BY <1>1, <1>2, <1>3, <1>4, <1>5, <1>6, <1>7, <1>8, <1>9 DEF NextTrip, TripStep

-----------------------------------------------------------------------------
(* Driving up to a person *)

(* What an approach that goes on has left: no drive that was known to run. *)
LeftSoFar(a) == \A m \in a.adrift : m.seen => m.asked /\ m.of # "nav"

(* When a child may be left: at rest, a path, or nobody takes its answer.  *)
Harmless(a) == a.child.state \in AtRest \/ a.child.of = "path" \/ a.pc = "response"

LEMMA NoMoveIsAtRest ==
  /\ NoMove \in [of : {"none", "path", "nav", "backup"},
                 state : AtRest \cup {"sent", "live"}, asked : BOOLEAN]
  /\ NoMove.state \in AtRest
  BY DEF NoMove, AtRest

LEMMA ChildIsLeft ==
  ASSUME NEW a \in Approaches
  PROVE  /\ Leave(a) \in Approaches /\ Leave(a).child = NoMove
         /\ Leave(a).candidate = a.candidate
         /\ \A m \in Leave(a).adrift :
              \/ m \in a.adrift
              \/ /\ a.child.state \notin AtRest /\ a.child.of # "path"
                 /\ m.of = a.child.of /\ m.asked = a.child.asked
                 /\ m.seen = (a.pc # "response")
<1> DEFINE m == [of |-> a.child.of, asked |-> a.child.asked, seen |-> a.pc # "response"]
           drift == IF a.child.state \in AtRest \/ a.child.of = "path"
                    THEN a.adrift ELSE a.adrift \cup {m}
           whom == IF a.call # "child" THEN a.call
                   ELSE IF a.child.state \in AtRest THEN "gone" ELSE "stray"
<1>1. Leave(a) = [a EXCEPT !.child = NoMove, !.active = FALSE, !.call = whom,
                           !.adrift = drift]
  BY DEF Leave, Approaches
<1>2. m \in [of : {"none", "path", "nav", "backup"}, asked : BOOLEAN, seen : BOOLEAN]
  BY DEF Approaches
<1>3. drift \in SUBSET [of : {"none", "path", "nav", "backup"}, asked : BOOLEAN,
                        seen : BOOLEAN]
  BY <1>2 DEF Approaches
<1>6. whom \in {"none", "child", "gone", "stray"}
  BY DEF Approaches
<1> HIDE DEF m, drift, whom
<1>4. /\ Leave(a) \in Approaches /\ Leave(a).child = NoMove
      /\ Leave(a).candidate = a.candidate /\ Leave(a).adrift = drift
  BY <1>1, <1>3, <1>6, NoMoveIsAtRest DEF Approaches
<1>5. ASSUME NEW x \in drift, x \notin a.adrift
      PROVE  /\ a.child.state \notin AtRest /\ a.child.of # "path"
             /\ x.of = a.child.of /\ x.asked = a.child.asked
             /\ x.seen = (a.pc # "response")
  BY <1>5 DEF drift, m
<1> QED BY <1>4, <1>5

(* The goal ends: its child is harmless, or was asked, and a drive that    *)
(* may still move is reported.                                             *)
LEMMA ApproachEnds ==
  ASSUME NEW a \in Approaches, LeftSoFar(a), NEW told \in Told,
         \/ Harmless(a)
         \/ a.child.asked /\ (a.child.of = "nav" => told \in {"canceled", "unavailable"})
  PROVE  ApproachInv(EndApproach(a, told))
<1> DEFINE l == Leave(a)
           u == EndApproach(a, told)
<1>1. /\ l \in Approaches /\ l.child = NoMove
      /\ \A m \in l.adrift : m.seen =>
           m.asked /\ (m.of = "nav" => told \in {"canceled", "unavailable"})
  BY ChildIsLeft DEF LeftSoFar, Harmless
<1>2. u = [l EXCEPT !.pc = "idle", !.told = told]
  BY DEF EndApproach
<1> HIDE DEF l, u
<1>3. u \in Approaches /\ u.pc = "idle" /\ u.told = told /\ u.child = NoMove
      /\ u.adrift = l.adrift
  BY <1>1, <1>2 DEF Approaches
<1> QED
  BY <1>1, <1>3, NoMoveIsAtRest DEF ApproachInv, MoveIsMinded, MovesLeftAsked, u

LEMMA ApproachFails ==
  ASSUME NEW a \in Approaches, LeftSoFar(a), NEW told \in Told,
         \/ Harmless(a)
         \/ a.child.asked /\ (a.child.of = "nav" => told \in {"canceled", "unavailable"})
  PROVE  ApproachInv(FailApproach(a, told))
<1>1. CASE a.cancel = "canceling"
  BY <1>1, ApproachEnds DEF FailApproach, Told
<1>2. CASE a.cancel # "canceling"
  BY <1>2, ApproachEnds DEF FailApproach
<1> QED BY <1>1, <1>2

(* The goal goes on past a child that is harmless, or a backup that was    *)
(* asked.                                                                  *)
LEMMA ApproachGoesOn ==
  ASSUME NEW a \in Approaches, LeftSoFar(a),
         Harmless(a) \/ (a.child.asked /\ a.child.of # "nav")
  PROVE  /\ ApproachInv(NextStandoff(a)) /\ ApproachInv(DriveFailed(a))
         /\ ApproachInv([Leave(a) EXCEPT !.pc = "drive"])
         /\ ApproachInv([Leave(a) EXCEPT !.pc = "plan"])
<1> DEFINE l == Leave(a)
<1>1. l \in Approaches /\ l.child = NoMove /\ LeftSoFar(l) /\ l.candidate = a.candidate
  BY ChildIsLeft DEF LeftSoFar, Harmless
<1>2. NextStandoff(a) = IF a.candidate < Standoffs
                        THEN [l EXCEPT !.pc = "plan", !.candidate = @ + 1]
                        ELSE FailApproach(a, "aborted")
  BY DEF NextStandoff
<1>3. DriveFailed(a) = IF a.backedUp THEN NextStandoff(a)
                       ELSE [l EXCEPT !.pc = "backup", !.backedUp = TRUE]
  BY DEF DriveFailed
<1>4. ApproachInv(FailApproach(a, "aborted"))
  BY ApproachFails DEF Told
<1> HIDE DEF l
<1>5. ASSUME NEW u \in Approaches, u.pc \in {"plan", "backup", "drive"},
             u.child = l.child, u.adrift = l.adrift
      PROVE  ApproachInv(u)
  BY <1>1, <1>5, NoMoveIsAtRest DEF ApproachInv, MoveIsMinded, MovesLeftAsked, LeftSoFar
<1>6. ApproachInv([l EXCEPT !.pc = "plan", !.candidate = l.candidate + 1])
  <2>1. l.candidate \in Nat
    BY <1>1 DEF Approaches
  <2> DEFINE n == l.candidate + 1
             u == [l EXCEPT !.pc = "plan", !.candidate = n]
  <2>2. n \in Nat
    BY <2>1
  <2> HIDE DEF n
  <2>3. u \in Approaches /\ u.pc = "plan" /\ u.child = l.child /\ u.adrift = l.adrift
    BY <1>1, <2>2 DEF Approaches
  <2> HIDE DEF u
  <2>4. ApproachInv(u)
    BY <1>5, <2>3
  <2> QED BY <2>4 DEF u, n
<1>7. ApproachInv([l EXCEPT !.pc = "backup", !.backedUp = TRUE])
  BY <1>1, <1>5 DEF Approaches
<1>8. /\ ApproachInv([l EXCEPT !.pc = "drive"])
      /\ ApproachInv([l EXCEPT !.pc = "plan"])
  BY <1>1, <1>5 DEF Approaches
<1> QED BY <1>2, <1>3, <1>4, <1>6, <1>7, <1>8 DEF l

LEMMA AskedMove ==
  ASSUME NEW a \in Approaches
  PROVE  /\ AskMove(a) \in Approaches /\ AskMove(a).child.asked
         /\ AskMove(a).child.of = a.child.of /\ AskMove(a).child.state = a.child.state
         /\ AskMove(a).pc = a.pc /\ AskMove(a).adrift = a.adrift
         /\ AskMove(a).told = a.told
  BY DEF AskMove, Approaches

LEMMA ApproachObeys ==
  ASSUME NEW a \in Approaches, LeftSoFar(a)
  PROVE  ApproachInv(Obey(a))
<1>1. CASE a.child.state \in AtRest
  BY <1>1, ApproachEnds DEF Obey, Harmless, Told
<1>2. CASE a.child.state \notin AtRest
  <2>1. AskMove(a) \in Approaches /\ LeftSoFar(AskMove(a)) /\ AskMove(a).child.asked
    BY AskedMove DEF LeftSoFar
  <2> QED BY <1>2, <2>1, ApproachEnds DEF Obey, Told
<1> QED BY <1>1, <1>2

LEMMA MoveIsSent ==
  ASSUME NEW a \in Approaches, LeftSoFar(a), NEW of \in {"path", "nav", "backup"}
  PROVE  ApproachInv(SendMove(a, of))
<1>1. /\ SendMove(a, of) \in Approaches /\ SendMove(a, of).pc = "response"
      /\ SendMove(a, of).child.of = of /\ SendMove(a, of).child.state = "sent"
      /\ SendMove(a, of).adrift = a.adrift
  BY DEF SendMove, Approaches
<1> QED
  BY <1>1 DEF ApproachInv, MoveIsMinded, MovesLeftAsked, LeftSoFar, AtRest

(* The result of a child that has come to rest.                            *)
LEMMA ResultIsTaken ==
  ASSUME NEW a \in Approaches, LeftSoFar(a), a.child.state \in AtRest,
         a.pc = "result", MoveIsMinded(a)
  PROVE  ApproachInv(Arrived(a))
<1>1. \A told \in Told : ApproachInv(EndApproach(a, told))
  BY ApproachEnds DEF Harmless
<1>2. /\ ApproachInv(NextStandoff(a)) /\ ApproachInv(DriveFailed(a))
      /\ ApproachInv([Leave(a) EXCEPT !.pc = "drive"])
      /\ ApproachInv([Leave(a) EXCEPT !.pc = "plan"])
  BY ApproachGoesOn DEF Harmless
<1>3. ApproachInv([a EXCEPT !.pc = "dead"])
  BY DEF ApproachInv, Approaches, MoveIsMinded, MovesLeftAsked, LeftSoFar
<1>4. a.child.of \in {"path", "nav", "backup"}
      /\ a.child.state \in {"succeeded", "failed", "canceled"}
  BY DEF Approaches, AtRest, MoveIsMinded
<1>5. CASE a.child.of = "path"
  BY <1>1, <1>2, <1>5 DEF Arrived, Told
<1>6. CASE a.child.of = "backup"
  BY <1>1, <1>2, <1>6 DEF Arrived, Told
<1>7. CASE a.child.of = "nav"
  <2>1. CASE a.child.state = "succeeded"
    BY <1>1, <1>7, <2>1 DEF Arrived, Told
  <2>2. CASE a.child.state = "failed"
    BY <1>2, <1>7, <2>2 DEF Arrived
  <2>3. CASE a.child.state = "canceled"
    BY <1>1, <1>3, <1>7, <2>3 DEF Arrived, Told
  <2> QED BY <1>4, <2>1, <2>2, <2>3
<1> QED BY <1>4, <1>5, <1>6, <1>7

LEMMA ApproachNext == ApproachInv(approach) /\ [NextApproach]_approach => ApproachInv(approach)'
<1> SUFFICES ASSUME ApproachInv(approach), NextApproach PROVE ApproachInv(approach')
  OBVIOUS
<1>0. approach \in Approaches /\ MoveIsMinded(approach) /\ MovesLeftAsked(approach)
  BY DEF ApproachInv
<1>a. approach.pc \notin {"idle", "dead"} => LeftSoFar(approach)
  BY <1>0 DEF MovesLeftAsked, LeftSoFar
<1>b. approach.pc \notin {"response", "result", "stop", "dead"} => Harmless(approach)
  BY <1>0 DEF MoveIsMinded, Harmless
<1>1. CASE StartApproach
  <2>1. PICK dry \in BOOLEAN :
          LET a == [approach EXCEPT !.pc = "plan", !.dry = dry, !.candidate = 1,
                      !.backedUp = FALSE, !.cancel = "none", !.adrift = {},
                      !.told = "none"]
          IN  approach' \in {a, EndApproach(a, "aborted")}
    BY <1>1 DEF StartApproach
  <2> DEFINE a == [approach EXCEPT !.pc = "plan", !.dry = dry, !.candidate = 1,
                     !.backedUp = FALSE, !.cancel = "none", !.adrift = {},
                     !.told = "none"]
  <2>2. approach.child.state \in AtRest
    BY <1>0, <1>1 DEF StartApproach, MoveIsMinded
  <2>3. /\ a \in Approaches /\ a.pc = "plan" /\ a.child = approach.child /\ a.adrift = {}
    BY <1>0 DEF Approaches, Told
  <2>4. approach' \in {a, EndApproach(a, "aborted")}
    BY <2>1
  <2> HIDE DEF a
  <2>5. ApproachInv(a) /\ LeftSoFar(a) /\ Harmless(a)
    BY <2>2, <2>3 DEF ApproachInv, MoveIsMinded, MovesLeftAsked, LeftSoFar, Harmless
  <2> QED BY <2>3, <2>4, <2>5, ApproachEnds DEF Told
<1>2. CASE CancelApproach
  <2>1. PICK whom \in {"child", "none"} :
          approach' = [approach EXCEPT !.cancel = "called", !.call = whom]
    BY <1>2 DEF CancelApproach
  <2>2. approach.pc # "dead"
    BY <1>2 DEF CancelApproach
  <2> QED BY <1>0, <2>1, <2>2 DEF ApproachInv, Approaches, MoveIsMinded, MovesLeftAsked
<1>11. CASE CallApproachCancel
  <2>1. approach.pc # "dead"
    BY <1>11 DEF CallApproachCancel
  <2>2. ASSUME approach' = [AskMove(approach) EXCEPT !.call = "none"]
        PROVE  ApproachInv(approach')
    <3> DEFINE a == AskMove(approach)
    <3>1. ApproachInv(a) /\ a.pc # "dead"
      BY <1>0, <2>1, AskedMove DEF ApproachInv, MoveIsMinded, MovesLeftAsked
    <3>2. approach' = [a EXCEPT !.call = "none"]
      BY <2>2
    <3> HIDE DEF a
    <3> QED BY <3>1, <3>2 DEF ApproachInv, Approaches, MoveIsMinded, MovesLeftAsked
  <2>3. ASSUME approach' = [approach EXCEPT !.call = "none"]
        PROVE  ApproachInv(approach')
    BY <1>0, <2>1, <2>3 DEF ApproachInv, Approaches, MoveIsMinded, MovesLeftAsked
  <2>4. ASSUME approach.call = "gone" \/ approach.child.state \in AtRest,
               approach' = [approach EXCEPT !.pc = "dead"]
        PROVE  ApproachInv(approach')
    <3>2. /\ approach' \in Approaches /\ approach'.pc = "dead"
          /\ approach'.child = approach.child /\ approach'.call = approach.call
          /\ approach'.adrift = approach.adrift /\ approach'.told = approach.told
      BY <1>0, <2>4 DEF Approaches
    <3> QED BY <1>0, <2>4, <3>2 DEF ApproachInv, MoveIsMinded, MovesLeftAsked
  <2> QED BY <1>11, <2>2, <2>3, <2>4 DEF CallApproachCancel
<1>3. CASE ApproachIsCanceling
  BY <1>0, <1>3 DEF ApproachIsCanceling, ApproachInv, Approaches, MoveIsMinded, MovesLeftAsked
<1>4. CASE Plan
  BY <1>0, <1>a, <1>b, <1>4, ApproachFails, ApproachGoesOn, MoveIsSent DEF Plan, Told
<1>5. CASE Drive
  BY <1>0, <1>a, <1>b, <1>5, ApproachFails, MoveIsSent DEF Drive, Told
<1>6. CASE BackUp
  BY <1>0, <1>a, <1>b, <1>6, ApproachEnds, ApproachGoesOn, MoveIsSent DEF BackUp, Told
<1>7. CASE AwaitAcceptance
  <2>1. approach.pc = "response" /\ LeftSoFar(approach) /\ Harmless(approach)
    BY <1>a, <1>7 DEF AwaitAcceptance, Harmless
  <2>2. ApproachInv(WithoutMove(approach)) /\ ApproachInv(EndApproach(approach, "canceled"))
    BY <1>0, <2>1, ApproachGoesOn, ApproachEnds DEF WithoutMove, Told
  <2> DEFINE a == [approach EXCEPT !.pc = "result"]
  <2>3. a \in Approaches /\ LeftSoFar(a)
    BY <1>0, <2>1 DEF Approaches, LeftSoFar
  <2>4. ApproachInv(Obey(a))
    <3> HIDE DEF a
    <3> QED BY <2>3, ApproachObeys
  <2>5. approach.child.state = "live" => ApproachInv([a EXCEPT !.active = TRUE])
    BY <1>0, <2>1 DEF ApproachInv, Approaches, MoveIsMinded, MovesLeftAsked, LeftSoFar
  <2>6. \/ approach' = WithoutMove(approach) \/ approach' = EndApproach(approach, "canceled")
        \/ approach' = Obey(a)
        \/ approach.child.state = "live" /\ approach' = [a EXCEPT !.active = TRUE]
    BY <1>7 DEF AwaitAcceptance
  <2> HIDE DEF a
  <2> QED BY <2>2, <2>4, <2>5, <2>6
<1>8. CASE AwaitArrival
  <2>1. approach.pc = "result" /\ LeftSoFar(approach)
    BY <1>a, <1>8 DEF AwaitArrival
  <2>2. CASE approach.child.state \in AtRest
    <3>1. ApproachInv(Arrived(approach)) /\ ApproachInv(EndApproach(approach, "aborted"))
      BY <1>0, <2>1, <2>2, ResultIsTaken, ApproachEnds DEF Told, Harmless
    <3> QED BY <1>0, <1>8, <2>1, <2>2, <3>1, ApproachObeys DEF AwaitArrival
  <2>3. CASE approach.child.state \notin AtRest
    <3> DEFINE a == AskMove(approach)
    <3>1. /\ a \in Approaches /\ LeftSoFar(a) /\ a.child.asked /\ a.pc = "result"
          /\ a.child.of = approach.child.of /\ a.child.state = approach.child.state
      BY <1>0, <2>1, AskedMove DEF LeftSoFar
    <3>2. \/ approach' = Obey(approach)
          \/ approach.child.of = "nav" /\ approach' = [a EXCEPT !.pc = "stop"]
          \/ approach.child.of # "nav" /\ approach' = NextStandoff(a)
      BY <1>8, <2>3 DEF AwaitArrival
    <3> HIDE DEF a
    <3>3. ApproachInv([a EXCEPT !.pc = "stop"])
      BY <1>0, <2>1, <3>1 DEF ApproachInv, Approaches, MoveIsMinded, MovesLeftAsked, LeftSoFar
    <3>4. approach.child.of # "nav" => ApproachInv(NextStandoff(a))
      BY <3>1, ApproachGoesOn
    <3> QED BY <1>0, <2>1, <3>2, <3>3, <3>4, ApproachObeys
  <2> QED BY <2>2, <2>3
<1>9. CASE AwaitStandstill
  <2>1. approach.pc = "stop" /\ LeftSoFar(approach) /\ approach.child.asked
    BY <1>0, <1>a, <1>9 DEF AwaitStandstill, MoveIsMinded
  <2>2. ApproachInv(Obey(approach)) /\ ApproachInv(FailApproach(approach, "unavailable"))
    BY <1>0, <2>1, ApproachObeys, ApproachFails DEF Told
  <2>3. approach.child.state \in AtRest =>
          /\ ApproachInv(DriveFailed(approach))
          /\ ApproachInv(EndApproach(approach, "aborted"))
    BY <1>0, <2>1, ApproachGoesOn, ApproachEnds DEF Told, Harmless
  <2> QED BY <1>9, <2>2, <2>3 DEF AwaitStandstill
<1>10. CASE MoveServer
  <2>1. ASSUME NEW s \in {"live", "rejected"}, approach.child.state = "sent",
               approach' = [approach EXCEPT !.child.state = s]
        PROVE  ApproachInv(approach')
    BY <1>0, <2>1 DEF ApproachInv, Approaches, MoveIsMinded, MovesLeftAsked, AtRest
  <2>2. ASSUME NEW s \in {"succeeded", "failed", "canceled"}, approach.child.state = "live",
               approach' = [approach EXCEPT !.child.state = s]
        PROVE  ApproachInv(approach')
    BY <1>0, <2>2 DEF ApproachInv, Approaches, MoveIsMinded, MovesLeftAsked, AtRest
  <2>3. ASSUME NEW m \in approach.adrift,
               approach' = [approach EXCEPT !.adrift = @ \ {m}]
        PROVE  ApproachInv(approach')
    BY <1>0, <2>3 DEF ApproachInv, Approaches, MoveIsMinded, MovesLeftAsked
  <2> QED BY <1>10, <2>1, <2>2, <2>3 DEF MoveServer
<1> QED
  BY <1>1, <1>2, <1>3, <1>4, <1>5, <1>6, <1>7, <1>8, <1>9, <1>10, <1>11
  DEF NextApproach, ApproachStep

-----------------------------------------------------------------------------
(* Finding the robot on the map *)

(* A goal ends when its spin has, with nobody to take an answer, or with   *)
(* the spin asked to stop; as a success only when it has ended.            *)
LEMMA LocalizingEnds ==
  ASSUME NEW l \in Localizers, HeldSinceBad(l), NEW told \in Told,
         \/ l.spin.state \in SpinEnded
         \/ told # "succeeded" /\ (l.pc = "response" \/ l.spin.asked)
  PROVE  LocalizerInv(EndLocalizing(l, told))
<1> DEFINE s == [asked |-> l.spin.asked, seen |-> l.pc # "response"]
           drift == IF l.spin.state \in SpinEnded THEN {} ELSE {s}
           u == EndLocalizing(l, told)
<1>1. s \in [asked : BOOLEAN, seen : BOOLEAN]
  BY DEF Localizers
<1>2. drift \in SUBSET [asked : BOOLEAN, seen : BOOLEAN]
  BY <1>1
<1>3. /\ \A x \in drift : x.seen => x.asked
      /\ told = "succeeded" => drift = {}
  <2>1. CASE l.spin.state \in SpinEnded
    BY <2>1
  <2>2. CASE l.spin.state \notin SpinEnded
    <3>1. s.seen => s.asked
      BY <2>2
    <3>2. told # "succeeded" /\ drift = {s}
      BY <2>2
    <3> HIDE DEF s
    <3> QED BY <3>1, <3>2
  <2> QED BY <2>1, <2>2
<1>4. u = [l EXCEPT !.pc = "idle", !.told = told, !.spin = NoSpin, !.why = "none",
                    !.adrift = drift]
  BY DEF EndLocalizing, Localizers
<1> HIDE DEF s, drift, u
<1>5. NoSpin \in [state : SpinEnded \cup {"sent", "live"}, asked : BOOLEAN]
      /\ NoSpin.state \in SpinEnded
  BY DEF NoSpin, SpinEnded
<1>6. /\ u \in Localizers /\ u.pc = "idle" /\ u.told = told /\ u.spin = NoSpin
      /\ u.why = "none" /\ u.adrift = drift
      /\ u.hold = l.hold /\ u.previous = l.previous /\ u.bad = l.bad
  BY <1>2, <1>4, <1>5 DEF Localizers
<1>7. HeldSinceBad(u)
  BY <1>6 DEF HeldSinceBad
<1>8. Earned(u)
  BY <1>6 DEF Earned
<1>9. SpinIsMinded(u)
  BY <1>3, <1>5, <1>6 DEF SpinIsMinded
<1> QED BY <1>6, <1>7, <1>8, <1>9 DEF LocalizerInv, u

LEMMA LocalizingGivesUp ==
  ASSUME NEW l \in Localizers, HeldSinceBad(l), NEW u \in GiveUpLocalizing(l),
         l.spin.state \in SpinEnded \/ l.pc = "response"
  PROVE  LocalizerInv(u)
<1>1. u \in {EndLocalizing(l, "aborted"), EndLocalizing(l, "canceled")}
  BY DEF GiveUpLocalizing
<1> QED BY <1>1, LocalizingEnds DEF Told

(* The spin is asked to stop, unless it has just ended.                    *)
LEMMA SpinIsStopped ==
  ASSUME NEW l \in Localizers, HeldSinceBad(l), SpinIsMinded(l), l.pc = "spin",
         NEW reason \in {"canceled", "timeout", "converged"},
         reason = "converged" => l.bad >= HoldFor /\ l.turned
  PROVE  LocalizerInv(StopSpin(l, reason))
<1>1. CASE l.spin.state \in SpinEnded
  <2> DEFINE u == [l EXCEPT !.pc = "dead", !.why = reason]
  <2>1. /\ u \in Localizers /\ u.pc = "dead" /\ u.why = reason /\ u.spin = l.spin
        /\ u.adrift = l.adrift /\ u.told = l.told /\ u.turned = l.turned
        /\ u.hold = l.hold /\ u.previous = l.previous /\ u.bad = l.bad
    BY DEF Localizers
  <2> HIDE DEF u
  <2>2. LocalizerInv(u)
    BY <1>1, <2>1 DEF LocalizerInv, HeldSinceBad, Earned, SpinIsMinded
  <2> QED BY <1>1, <2>2 DEF StopSpin, u
<1>2. CASE l.spin.state \notin SpinEnded
  <2> DEFINE u == [l EXCEPT !.pc = "stop", !.why = reason, !.spin.asked = TRUE]
  <2>1. /\ u \in Localizers /\ u.pc = "stop" /\ u.why = reason /\ u.spin.asked
        /\ u.adrift = l.adrift /\ u.told = l.told /\ u.turned = l.turned
        /\ u.hold = l.hold /\ u.previous = l.previous /\ u.bad = l.bad
    BY DEF Localizers
  <2> HIDE DEF u
  <2>2. LocalizerInv(u)
    BY <1>2, <2>1 DEF LocalizerInv, HeldSinceBad, Earned, SpinIsMinded
  <2> QED BY <1>2, <2>2 DEF StopSpin, u
<1> QED BY <1>1, <1>2

(* The tracker counts no more than the time since the last pose that was   *)
(* not good, also when it counts a gap.                                    *)
LEMMA TrackerIsUpdated ==
  ASSUME NEW l \in Localizers, HeldSinceBad(l)
  PROVE  /\ Looked(l) \in Localizers /\ HeldSinceBad(Looked(l))
         /\ Looked(l).pc = l.pc /\ Looked(l).why = l.why /\ Looked(l).spin = l.spin
         /\ Looked(l).adrift = l.adrift /\ Looked(l).told = l.told
         /\ Looked(l).turned = l.turned
         /\ Converged(Looked(l)) => Looked(l).bad >= HoldFor /\ Looked(l).turned
<1> DEFINE gap == l.previous
           held == IF gap > PoseTimeout THEN 0 ELSE l.hold
           within == l.pose.good /\ l.turned
           bad == IF within THEN l.bad ELSE 0
           hold == IF ~within THEN 0
                   ELSE IF held + gap < HoldFor THEN held + gap ELSE HoldFor
           u == Looked(l)
<1>1. /\ HoldFor \in Nat /\ PoseTimeout \in Nat /\ l.hold \in Nat
      /\ l.previous \in Nat /\ l.bad \in Nat
  BY LocalizerAssumption DEF Localizers
<1>2. u = [l EXCEPT !.pose.new = FALSE, !.looked = TRUE, !.previous = 0,
                    !.bad = bad, !.hold = hold]
  BY DEF Looked, Localizers
<1>3. /\ bad \in Nat /\ hold \in Nat /\ hold <= HoldFor /\ hold <= bad
      /\ bad <= Forever /\ 0 <= bad
  BY <1>1 DEF HeldSinceBad, Forever
<1> HIDE DEF bad, hold, u
<1>4. /\ u \in Localizers /\ u.previous = 0 /\ u.bad = bad /\ u.hold = hold
      /\ u.pc = l.pc /\ u.why = l.why /\ u.spin = l.spin
      /\ u.adrift = l.adrift /\ u.told = l.told /\ u.turned = l.turned
  BY <1>2, <1>3 DEF Localizers
<1>5. HeldSinceBad(u)
  BY <1>1, <1>3, <1>4 DEF HeldSinceBad
<1>6. Converged(u) => u.bad >= HoldFor /\ u.turned
  BY <1>1, <1>3, <1>4 DEF Converged
<1> QED BY <1>4, <1>5, <1>6 DEF u

LEMMA LocalizerNext == LocalizerInv(loc) /\ [NextLocalizer]_loc => LocalizerInv(loc)'
<1> SUFFICES ASSUME LocalizerInv(loc), NextLocalizer PROVE LocalizerInv(loc')
  OBVIOUS
<1>0. loc \in Localizers /\ HeldSinceBad(loc) /\ Earned(loc) /\ SpinIsMinded(loc)
  BY DEF LocalizerInv
<1>a. loc.pc \notin {"response", "spin", "stop"} => loc.spin.state \in SpinEnded
  BY <1>0 DEF SpinIsMinded
<1>b. /\ HoldFor \in Nat /\ PoseTimeout \in Nat /\ loc.hold \in Nat
      /\ loc.previous \in Nat /\ loc.bad \in Nat
  BY <1>0, LocalizerAssumption DEF Localizers
<1>1. CASE StartLocalizing
  <2> DEFINE l == [loc EXCEPT !.canceling = FALSE, !.told = "none", !.adrift = {}]
             u == [l EXCEPT !.pc = "scatter", !.pose.have = FALSE, !.pose.good = FALSE]
  <2>1. /\ l \in Localizers /\ l.spin = loc.spin /\ l.hold = loc.hold /\ l.pc = loc.pc
        /\ l.previous = loc.previous /\ l.bad = loc.bad /\ l.why = loc.why
        /\ l.adrift = {} /\ l.told = "none"
    BY <1>0 DEF Localizers, Told
  <2>2. loc.pc = "idle" /\ loc' \in {EndLocalizing(l, "succeeded"), EndLocalizing(l, "aborted"), u}
    BY <1>1 DEF StartLocalizing
  <2> HIDE DEF l
  <2>3. HeldSinceBad(l)
    BY <1>0, <2>1 DEF HeldSinceBad
  <2>4. LocalizerInv(u)
    <3>1. /\ u \in Localizers /\ u.spin = l.spin /\ u.hold = l.hold /\ u.pc = "scatter"
          /\ u.previous = l.previous /\ u.bad = l.bad /\ u.why = l.why
          /\ u.adrift = l.adrift /\ u.told = l.told
      BY <2>1 DEF Localizers
    <3> HIDE DEF u
    <3> QED BY <1>0, <1>a, <2>1, <2>2, <2>3, <3>1
        DEF LocalizerInv, HeldSinceBad, Earned, SpinIsMinded
  <2> HIDE DEF u
  <2> QED BY <1>a, <2>1, <2>2, <2>3, <2>4, LocalizingEnds DEF Told
<1>2. CASE CancelLocalizing
  BY <1>0, <1>2 DEF CancelLocalizing, LocalizerInv, Localizers, HeldSinceBad, Earned, SpinIsMinded
<1>3. CASE Scatter
  <2>1. loc.pc = "scatter" /\ loc.why # "converged"
    BY <1>0, <1>3 DEF Scatter, Earned
  <2>2. LocalizerInv([loc EXCEPT !.pc = "send", !.pose.have = FALSE, !.pose.good = FALSE])
    BY <1>0, <2>1 DEF LocalizerInv, Localizers, HeldSinceBad, Earned, SpinIsMinded
  <2> QED BY <1>0, <1>a, <1>3, <2>1, <2>2, LocalizingGivesUp DEF Scatter
<1>4. CASE SendSpin
  <2>1. loc.pc = "send" /\ loc.why # "converged"
    BY <1>0, <1>4 DEF SendSpin, Earned
  <2> DEFINE u == [loc EXCEPT !.pc = "response", !.turned = FALSE, !.hold = 0,
                              !.spin.state = "sent"]
  <2>2. /\ u \in Localizers /\ u.hold = 0 /\ u.pc = "response" /\ u.why = loc.why
        /\ u.previous = loc.previous /\ u.bad = loc.bad /\ u.told = loc.told
        /\ u.adrift = loc.adrift
    BY <1>0 DEF Localizers
  <2>3. loc' \in GiveUpLocalizing(loc) \/ loc' = u
    BY <1>4 DEF SendSpin
  <2> HIDE DEF u
  <2>4. HeldSinceBad(u)
    BY <1>0, <1>b, <2>2 DEF HeldSinceBad
  <2>5. LocalizerInv(u)
    BY <1>0, <2>1, <2>2, <2>4 DEF LocalizerInv, Earned, SpinIsMinded
  <2> QED BY <1>0, <1>a, <2>1, <2>3, <2>5, LocalizingGivesUp
<1>5. CASE AwaitSpinResponse
  <2>1. loc.pc = "response" /\ loc.why # "converged"
    BY <1>0, <1>5 DEF AwaitSpinResponse, Earned
  <2>2. LocalizerInv([loc EXCEPT !.spin.state = "sent"])
    BY <1>0, <2>1 DEF LocalizerInv, Localizers, HeldSinceBad, Earned, SpinIsMinded
  <2> DEFINE u == [loc EXCEPT !.pc = "spin", !.pose.new = FALSE,
                              !.looked = FALSE, !.previous = 0, !.bad = Forever]
  <2>3. Forever \in Nat /\ loc.hold <= Forever
    BY <1>0, <1>b DEF Forever, HeldSinceBad
  <2>4. /\ u \in Localizers /\ u.hold = loc.hold /\ u.pc = "spin" /\ u.why = loc.why
        /\ u.previous = 0 /\ u.bad = Forever /\ u.told = loc.told
        /\ u.adrift = loc.adrift
    BY <1>0, <2>3 DEF Localizers
  <2>5. \/ loc' \in GiveUpLocalizing(loc) \/ loc' = [loc EXCEPT !.spin.state = "sent"]
        \/ loc' = u
    BY <1>5 DEF AwaitSpinResponse
  <2> HIDE DEF u
  <2>6. HeldSinceBad(u)
    BY <1>0, <1>b, <2>3, <2>4 DEF HeldSinceBad
  <2>7. LocalizerInv(u)
    BY <1>0, <2>1, <2>4, <2>6 DEF LocalizerInv, Earned, SpinIsMinded
  <2> QED BY <1>0, <2>1, <2>2, <2>5, <2>7, LocalizingGivesUp
<1>6. CASE PollPose
  <2>1. loc.pc = "spin" /\ loc.why # "converged"
    BY <1>0, <1>6 DEF PollPose, Earned
  <2>2. /\ Looked(loc) \in Localizers /\ HeldSinceBad(Looked(loc))
        /\ Looked(loc).pc = "spin" /\ Looked(loc).why = loc.why
        /\ SpinIsMinded(Looked(loc)) /\ Looked(loc).spin = loc.spin
        /\ Converged(Looked(loc)) => Looked(loc).bad >= HoldFor /\ Looked(loc).turned
    BY <1>0, <2>1, TrackerIsUpdated DEF SpinIsMinded
  <2> DEFINE cold == [loc EXCEPT !.hold = 0]
  <2>3. /\ cold \in Localizers /\ cold.hold = 0 /\ cold.pc = "spin" /\ cold.why = loc.why
        /\ cold.previous = loc.previous /\ cold.bad = loc.bad /\ cold.told = loc.told
        /\ cold.adrift = loc.adrift /\ cold.spin = loc.spin
    BY <1>0, <2>1 DEF Localizers
  <2>4. \/ loc' = StopSpin(loc, "canceled")
        \/ Converged(Looked(loc)) /\ loc' = StopSpin(Looked(loc), "converged")
        \/ \E l \in {Looked(loc), cold, loc} :
             loc' = IF l.spin.state \in SpinEnded THEN EndLocalizing(l, "aborted") ELSE l
    BY <1>6 DEF PollPose
  <2> HIDE DEF cold
  <2>5. HeldSinceBad(cold) /\ SpinIsMinded(cold)
    BY <1>0, <1>b, <2>1, <2>3 DEF HeldSinceBad, SpinIsMinded
  <2>6. ASSUME NEW l \in {Looked(loc), cold, loc},
               loc' = IF l.spin.state \in SpinEnded THEN EndLocalizing(l, "aborted") ELSE l
        PROVE  LocalizerInv(loc')
    <3>1. /\ l \in Localizers /\ HeldSinceBad(l) /\ SpinIsMinded(l)
          /\ l.pc = "spin" /\ l.why # "converged"
      BY <1>0, <2>1, <2>2, <2>3, <2>5
    <3>2. CASE l.spin.state \in SpinEnded
      BY <2>6, <3>1, <3>2, LocalizingEnds DEF Told
    <3>3. CASE l.spin.state \notin SpinEnded
      BY <2>6, <3>1, <3>3 DEF LocalizerInv, Earned
    <3> QED BY <3>2, <3>3
  <2>7. LocalizerInv(StopSpin(loc, "canceled"))
    BY <1>0, <2>1, SpinIsStopped
  <2>8. Converged(Looked(loc)) => LocalizerInv(StopSpin(Looked(loc), "converged"))
    BY <2>2, SpinIsStopped
  <2> QED BY <2>4, <2>6, <2>7, <2>8
<1>7. CASE RunOut
  <2>1. CASE loc.pc = "spin" /\ loc' = StopSpin(loc, "timeout")
    BY <1>0, <2>1, SpinIsStopped
  <2>2. CASE loc.spin.state = "rejected" /\ loc' = EndLocalizing(loc, "aborted")
    BY <1>0, <2>2, LocalizingEnds DEF Told, SpinEnded
  <2> QED BY <1>7, <2>1, <2>2 DEF RunOut
<1>8. CASE AwaitSpinStop
  <2>1. loc.pc = "stop" /\ loc.spin.asked
    BY <1>0, <1>8 DEF AwaitSpinStop, SpinIsMinded
  <2>2. \/ loc' \in {EndLocalizing(loc, "canceled"), EndLocalizing(loc, "aborted")}
        \/ loc.spin.state \in SpinEnded /\ loc' = [loc EXCEPT !.pc = "settle"]
    BY <1>8 DEF AwaitSpinStop
  <2>3. loc.spin.state \in SpinEnded => LocalizerInv([loc EXCEPT !.pc = "settle"])
    BY <1>0, <2>1 DEF LocalizerInv, Localizers, HeldSinceBad, Earned, SpinIsMinded
  <2> QED BY <1>0, <2>1, <2>2, <2>3, LocalizingEnds DEF Told
<1>9. CASE ComeToRest
  <2>1. loc.pc = "settle" /\ loc.spin.state \in SpinEnded
    BY <1>a, <1>9 DEF ComeToRest
  <2>2. LocalizerInv([loc EXCEPT !.pc = "activate"])
    BY <1>0, <2>1 DEF LocalizerInv, Localizers, HeldSinceBad, Earned, SpinIsMinded
  <2> QED BY <1>0, <1>9, <2>1, <2>2, LocalizingGivesUp DEF ComeToRest
<1>10. CASE Activate
  <2>1. loc.spin.state \in SpinEnded
    BY <1>a, <1>10 DEF Activate
  <2> QED BY <1>0, <1>10, <2>1, LocalizingGivesUp, LocalizingEnds DEF Activate, Told
<1>11. CASE PoseComes
  <2>1. PICK good \in BOOLEAN :
          loc' = [loc EXCEPT !.pose = [have |-> TRUE, good |-> good, age |-> 0, new |-> TRUE]]
    BY <1>11 DEF PoseComes
  <2> QED BY <1>0, <2>1 DEF LocalizerInv, Localizers, HeldSinceBad, Earned, SpinIsMinded
<1>12. CASE SpinServer
  <2>1. ASSUME NEW s \in {"live", "rejected"}, loc.spin.state = "sent",
               loc' = [loc EXCEPT !.spin.state = s]
        PROVE  LocalizerInv(loc')
    BY <1>0, <2>1 DEF LocalizerInv, Localizers, HeldSinceBad, Earned, SpinIsMinded, SpinEnded
  <2>2. CASE loc' = [loc EXCEPT !.spin.state = "ended"]
    BY <1>0, <2>2 DEF LocalizerInv, Localizers, HeldSinceBad, Earned, SpinIsMinded, SpinEnded
  <2>3. CASE loc' = [loc EXCEPT !.turned = TRUE]
    BY <1>0, <2>3 DEF LocalizerInv, Localizers, HeldSinceBad, Earned, SpinIsMinded
  <2>4. ASSUME NEW s \in loc.adrift, loc' = [loc EXCEPT !.adrift = @ \ {s}]
        PROVE  LocalizerInv(loc')
    BY <1>0, <2>4 DEF LocalizerInv, Localizers, HeldSinceBad, Earned, SpinIsMinded
  <2> QED BY <1>12, <2>1, <2>2, <2>3, <2>4 DEF SpinServer
<1>13. CASE TimePasses
  <2> DEFINE age == Aged(loc.pose.age)
             bad == Aged(loc.bad)
             previous == IF loc.looked THEN Aged(loc.previous) ELSE loc.previous
  <2>1. loc' = [loc EXCEPT !.pose.age = age, !.bad = bad, !.previous = previous]
    BY <1>0, <1>13 DEF TimePasses, Localizers
  <2>2. age \in Nat
    BY <1>0 DEF Aged, Localizers
  <2>3. bad \in Nat /\ previous \in Nat
    BY <1>b DEF Aged
  <2>4. previous <= bad /\ bad <= Forever /\ loc.bad <= bad
    BY <1>0, <1>b DEF Aged, HeldSinceBad, Forever
  <2>5. previous <= PoseTimeout => loc.hold + previous <= bad
    BY <1>0, <1>b DEF Aged, HeldSinceBad, Forever
  <2> HIDE DEF age, bad, previous
  <2>6. /\ loc' \in Localizers /\ loc'.bad = bad /\ loc'.previous = previous
        /\ loc'.hold = loc.hold /\ loc'.pc = loc.pc /\ loc'.why = loc.why
        /\ loc'.turned = loc.turned /\ loc'.spin = loc.spin
        /\ loc'.adrift = loc.adrift /\ loc'.told = loc.told
    BY <1>0, <2>1, <2>2, <2>3 DEF Localizers
  <2>7. HeldSinceBad(loc')
    BY <1>0, <2>4, <2>5, <2>6 DEF HeldSinceBad
  <2>8. Earned(loc')
    BY <1>0, <1>b, <2>3, <2>4, <2>6 DEF Earned
  <2>9. SpinIsMinded(loc')
    BY <1>0, <2>6 DEF SpinIsMinded
  <2> QED BY <2>6, <2>7, <2>8, <2>9 DEF LocalizerInv
<1> QED
  BY <1>1, <1>2, <1>3, <1>4, <1>5, <1>6, <1>7, <1>8, <1>9, <1>10, <1>11, <1>12, <1>13
  DEF NextLocalizer, LocalizerStep

-----------------------------------------------------------------------------
(* The arm: its routes *)

(* A verification is followed by the measurement of the gripper, that by   *)
(* the verdict, and that by raising the head, which is the last step.      *)
Plain(r) ==
    r \in Seq(Steps) /\ \A i \in 1 .. Len(r) : r[i] \notin {"verify", "measure", "judge"}

LEMMA PlainIsRoute ==
  ASSUME NEW r, Plain(r)
  PROVE  IsRoute(r)
  BY DEF Plain, IsRoute

LEMMA PlainTogether ==
  ASSUME NEW r, NEW s, Plain(r), Plain(s)
  PROVE  Plain(r \o s)
<1>1. /\ r \o s \in Seq(Steps) /\ Len(r \o s) = Len(r) + Len(s)
      /\ \A i \in 1 .. Len(r) + Len(s) :
           (r \o s)[i] = IF i <= Len(r) THEN r[i] ELSE s[i - Len(r)]
  BY ConcatProperties DEF Plain
<1>2. Len(r) \in Nat /\ Len(s) \in Nat
  BY LenProperties DEF Plain
<1> QED
  BY <1>1, <1>2 DEF Plain

LEMMA CheckedIsRoute ==
  ASSUME NEW r, Plain(r)
  PROVE  IsRoute(r \o Check)
<1>1. /\ Check \in Seq(Steps) /\ Len(Check) = 5
      /\ Check[1] = "ready" /\ Check[2] = "verify" /\ Check[3] = "measure"
      /\ Check[4] = "judge" /\ Check[5] = "head"
  BY DEF Check, Steps, Idling
<1>2. Len(r) \in Nat /\ r \in Seq(Steps)
  BY LenProperties DEF Plain
<1>3. /\ r \o Check \in Seq(Steps) /\ Len(r \o Check) = Len(r) + Len(Check)
      /\ \A i \in 1 .. Len(r) + Len(Check) :
           (r \o Check)[i] = IF i <= Len(r) THEN r[i] ELSE Check[i - Len(r)]
  BY <1>1, <1>2, ConcatProperties
<1> SUFFICES ASSUME NEW w, NEW n, w = r \o Check, n = Len(r)
             PROVE  IsRoute(w)
  OBVIOUS
<1>4. /\ w[n + 1] = "ready" /\ w[n + 2] = "verify" /\ w[n + 3] = "measure"
      /\ w[n + 4] = "judge" /\ w[n + 5] = "head"
      /\ w \in Seq(Steps) /\ Len(w) = n + 5
  BY <1>1, <1>2, <1>3
<1>5. \A i \in 1 .. n : w[i] \notin {"verify", "measure", "judge"}
  BY <1>1, <1>2, <1>3 DEF Plain
<1> SUFFICES ASSUME NEW i \in 1 .. Len(w)
             PROVE  /\ w[i] = "verify" => i < Len(w) /\ w[i + 1] = "measure"
                    /\ w[i] = "measure" => i < Len(w) /\ w[i + 1] = "judge"
                    /\ w[i] = "judge" => i + 1 = Len(w) /\ w[i + 1] = "head"
  BY <1>4 DEF IsRoute
<1>6. \/ i \in 1 .. n \/ i = n + 1 \/ i = n + 2 \/ i = n + 3 \/ i = n + 4
      \/ i = n + 5
  <2>1. n \in Nat /\ i \in 1 .. n + 5 /\ i \in Int
    BY <1>2, <1>4
  <2> QED BY <2>1
<1>7. /\ (n + 2) + 1 = n + 3 /\ (n + 3) + 1 = n + 4 /\ (n + 4) + 1 = n + 5
      /\ n + 2 < n + 5 /\ n + 3 < n + 5
  BY <1>2
<1> QED BY <1>4, <1>5, <1>6, <1>7

LEMMA RoutesAreRoutes ==
  ASSUME NEW kind \in {"act", "prepare", "classical", "handover"}, NEW dry \in BOOLEAN
  PROVE  IsRoute(Route(kind, dry)) /\ Route(kind, dry) \in Seq(Steps)
<1>1. /\ Plain(<< >>) /\ Plain(<<"plan">>) /\ Plain(<<"plan", "policy">>)
      /\ Plain(<<"plan", "plan", "plan">>) /\ Plain(<<"policy">>)
  BY DEF Plain, Steps, Idling
<1>2. Plain(<<"held", "pose", "wait", "release", "ready", "close">>)
  BY DEF Plain, Steps, Idling
<1>3. Plain(Prepare)
  BY DEF Prepare, Plain, Steps, Idling
<1>4. Plain(<<"gripper", "plan", "pregrasp", "settle", "plan", "descend",
              "settle", "close", "plan", "lift", "settle">>)
  BY DEF Plain, Steps, Idling
<1>5. Plain(Prepare \o <<"policy">>)
  BY <1>1, <1>3, PlainTogether
<1>6. IsRoute(Prepare \o <<"policy">> \o Check)
  BY <1>5, CheckedIsRoute
<1>7. IsRoute(<<"gripper", "plan", "pregrasp", "settle", "plan", "descend",
                "settle", "close", "plan", "lift", "settle">> \o Check)
  BY <1>4, CheckedIsRoute
<1>8. IsRoute(Route(kind, dry))
  <2>1. CASE kind = "act"
    BY <1>1, <1>6, <2>1, PlainIsRoute DEF Route
  <2>2. CASE kind = "prepare"
    BY <1>1, <1>3, <2>2, PlainIsRoute DEF Route
  <2>3. CASE kind = "classical"
    BY <1>1, <1>7, <2>3, PlainIsRoute DEF Route
  <2>4. CASE kind = "handover"
    BY <1>1, <1>2, <2>4, PlainIsRoute DEF Route
  <2> QED BY <2>1, <2>2, <2>3, <2>4
<1> QED BY <1>8 DEF IsRoute

-----------------------------------------------------------------------------
(* The arm: its steps *)

(* A goal that is served                                                   *)
Running(a) ==
    /\ a \in Arms /\ IsRoute(a.route) /\ a.at <= Len(a.route) /\ a.told # "succeeded"
    /\ \A c \in a.adrift : c.seen => c.asked
    /\ Judges(a.route) /\ a.at = Len(a.route) => a.verdict \in {"held", "empty"}
    /\ a.verdict = "empty" =>
         a.closed /\ a.attempt = Attempts /\ a.at = Len(a.route) /\ Step(a) = "head"

LEMMA ServedIsRunning ==
  ASSUME NEW a, ArmInv(a), a.pc \notin {"idle", "dead"}
  PROVE  Running(a)
  BY DEF ArmInv, OnRoute, ChildIsMinded, Judged, Running

LEMMA NoChildHasEnded ==
  /\ NoChild \in [state : ChildEnded \cup {"sent", "live"}, asked : BOOLEAN]
  /\ NoChild.state \in ChildEnded
  BY DEF NoChild, ChildEnded

(* A goal ends when its child has, with nobody to take an answer, or with  *)
(* the child asked to stop; with success only if it was judged.            *)
LEMMA ArmEnds ==
  ASSUME NEW a \in Arms, IsRoute(a.route), NEW told \in Told,
         a.child.state \in ChildEnded \/ a.pc = "response" \/ a.child.asked,
         told = "succeeded" /\ Judges(a.route) => a.verdict = "held",
         a.verdict = "empty" => a.closed /\ a.attempt = Attempts
  PROVE  ArmInv(EndArm(a, told))
<1> DEFINE c == [asked |-> a.child.asked, seen |-> a.pc # "response"]
           drift == IF a.child.state \in ChildEnded THEN {} ELSE {c}
           whom == Copied(a)
           u == EndArm(a, told)
<1>1. c \in [asked : BOOLEAN, seen : BOOLEAN]
  BY DEF Arms
<1>2. drift \in SUBSET [asked : BOOLEAN, seen : BOOLEAN]
  BY <1>1
<1>3. \A x \in drift : x.seen => x.asked
  <2>1. CASE a.child.state \in ChildEnded
    BY <2>1
  <2>2. CASE a.child.state \notin ChildEnded
    <3>1. (c.seen => c.asked) /\ drift = {c}
      BY <2>2
    <3> HIDE DEF c, drift
    <3> QED BY <3>1
  <2> QED BY <2>1, <2>2
<1>4. u = [a EXCEPT !.pc = "idle", !.told = told, !.child = NoChild, !.active = FALSE,
                    !.call = whom, !.adrift = drift]
  BY DEF EndArm, Arms
<1>9. whom \in {"none", "child", "gone", "stray"}
  BY DEF Copied, Arms
<1> HIDE DEF c, drift, whom, u
<1>5. /\ u \in Arms /\ u.pc = "idle" /\ u.told = told /\ u.child = NoChild
      /\ u.adrift = drift /\ u.route = a.route /\ u.verdict = a.verdict
      /\ u.closed = a.closed /\ u.attempt = a.attempt
  BY <1>2, <1>4, <1>9, NoChildHasEnded DEF Arms
<1>6. OnRoute(u)
  BY <1>5 DEF OnRoute
<1>7. ChildIsMinded(u)
  BY <1>3, <1>5, NoChildHasEnded DEF ChildIsMinded
<1>8. Judged(u)
  BY <1>5 DEF Judged
<1> QED BY <1>5, <1>6, <1>7, <1>8 DEF ArmInv, u

LEMMA ArmFails ==
  ASSUME NEW a, Running(a),
         a.child.state \in ChildEnded \/ a.pc = "response" \/ a.child.asked
  PROVE  /\ ArmInv(FailArm(a)) /\ ArmInv(EndArm(a, "aborted"))
         /\ ArmInv(EndArm(a, "canceled"))
<1>1. ArmInv(EndArm(a, "aborted")) /\ ArmInv(EndArm(a, "canceled"))
  BY ArmEnds DEF Running, Told
<1> QED BY <1>1 DEF FailArm

LEMMA ChildIsAsked ==
  ASSUME NEW a, Running(a)
  PROVE  /\ Running(AskChild(a)) /\ AskChild(a).child.asked
         /\ AskChild(a).child.state = a.child.state
         /\ AskChild(a).pc = a.pc /\ AskChild(a).at = a.at
         /\ AskChild(a).route = a.route /\ AskChild(a).active = a.active
<1> DEFINE u == AskChild(a)
<1>1. /\ u \in Arms /\ u.child.asked /\ u.child.state = a.child.state
      /\ u.pc = a.pc /\ u.at = a.at /\ u.route = a.route /\ u.active = a.active
      /\ u.told = a.told /\ u.adrift = a.adrift /\ u.verdict = a.verdict
      /\ u.closed = a.closed /\ u.attempt = a.attempt
  BY DEF AskChild, Arms, Running
<1> HIDE DEF u
<1>2. Running(u)
  BY <1>1 DEF Running, Step
<1> QED BY <1>1, <1>2 DEF u

LEMMA ChildIsGivenUp ==
  ASSUME NEW a, Running(a)
  PROVE  ArmInv(GiveUpChild(a))
<1>1. Running(AskChild(a)) /\ AskChild(a).child.asked
  BY ChildIsAsked
<1>2. ArmInv(FailArm(AskChild(a)))
  BY <1>1, ArmFails
<1>3. a.child.state \in ChildEnded => ArmInv(EndArm(a, "aborted"))
  BY ArmFails
<1> QED BY <1>2, <1>3 DEF GiveUpChild

(* The next step begins with no child that runs, unless the gripper is     *)
(* measured or the verdict is awaited.                                     *)
LEMMA ArmGoesTo ==
  ASSUME NEW a \in Arms, IsRoute(a.route), a.told # "succeeded",
         \A c \in a.adrift : c.seen => c.asked,
         NEW i \in 1 .. Len(a.route),
         a.route[i] \in {"measure", "judge"} \/ a.child.state \in ChildEnded
  PROVE  LET u == GoTo(a, i)
         IN  /\ u \in Arms /\ u.at = i /\ u.route = a.route /\ u.verdict = a.verdict
             /\ u.attempt = a.attempt /\ u.closed = a.closed /\ u.told = a.told
             /\ u.pc \in {"step", "result"} /\ OnRoute(u) /\ ChildIsMinded(u)
<1> DEFINE judges == a.route[i] = "judge"
           next == IF judges THEN "result" ELSE "step"
           u == GoTo(a, i)
<1>1. u = [a EXCEPT !.at = i, !.active = judges, !.pc = next]
  BY DEF GoTo
<1>2. i \in Nat \ {0} /\ judges \in BOOLEAN /\ next \in {"step", "result"}
  BY LenProperties DEF IsRoute
<1>3. next = "step" => ~judges
  OBVIOUS
<1>4. next = "result" => judges
  OBVIOUS
<1>5. judges <=> a.route[i] = "judge"
  OBVIOUS
<1> HIDE DEF u, judges, next
<1>6. /\ u \in Arms /\ u.at = i /\ u.route = a.route /\ u.verdict = a.verdict
      /\ u.attempt = a.attempt /\ u.closed = a.closed /\ u.told = a.told
      /\ u.pc = next /\ u.active = judges /\ u.child = a.child /\ u.adrift = a.adrift
  BY <1>1, <1>2 DEF Arms
<1>7. OnRoute(u)
  <2>1. Len(a.route) \in Nat /\ i <= Len(a.route) /\ u.pc # "image"
    BY <1>2, <1>6, LenProperties DEF IsRoute
  <2> QED BY <1>6, <2>1 DEF OnRoute
<1>8. ChildIsMinded(u)
  BY <1>2, <1>3, <1>4, <1>5, <1>6 DEF ChildIsMinded, Step
<1> QED BY <1>2, <1>6, <1>7, <1>8 DEF u

(* What follows a step that is done                                        *)
LEMMA ArmGoesOn ==
  ASSUME NEW a, Running(a),
         Step(a) \in {"verify", "measure"} \/ a.child.state \in ChildEnded,
         Step(a) = "judge" => a.verdict = "held"
  PROVE  ArmInv(Onwards(a))
<1>0. /\ a \in Arms /\ IsRoute(a.route) /\ a.route \in Seq(Steps)
      /\ Len(a.route) \in Nat /\ a.at \in 1 .. Len(a.route)
  BY LenProperties DEF Running, IsRoute, Arms
<1>1. /\ Step(a) = "verify" => a.at < Len(a.route) /\ a.route[a.at + 1] = "measure"
      /\ Step(a) = "measure" => a.at < Len(a.route) /\ a.route[a.at + 1] = "judge"
  BY <1>0 DEF IsRoute, Step
<1>2. CASE a.at < Len(a.route)
  <2>1. a.at + 1 \in 1 .. Len(a.route)
    BY <1>0, <1>2
  <2> DEFINE u == GoTo(a, a.at + 1)
  <2>2. /\ u \in Arms /\ u.at = a.at + 1 /\ u.route = a.route /\ u.verdict = a.verdict
        /\ u.attempt = a.attempt /\ u.closed = a.closed /\ u.told = a.told
        /\ u.pc \in {"step", "result"} /\ OnRoute(u) /\ ChildIsMinded(u)
    BY <1>0, <1>1, <2>1, ArmGoesTo DEF Running
  <2>3. Judges(a.route) /\ a.at + 1 = Len(a.route) => a.verdict = "held"
    BY <1>0 DEF IsRoute, Judges, Step
  <2>4. a.verdict # "empty"
    BY <1>0, <1>2 DEF Running
  <2> HIDE DEF u
  <2>5. Judged(u)
    BY <2>2, <2>3, <2>4 DEF Judged, Running
  <2> QED BY <1>2, <2>2, <2>5 DEF ArmInv, Onwards, u
<1>3. CASE ~(a.at < Len(a.route))
  <2>1. a.at = Len(a.route) /\ a.child.state \in ChildEnded
    BY <1>0, <1>1, <1>3
  <2>2. a.verdict # "empty" => ArmInv(EndArm(a, "succeeded"))
    BY <1>0, <2>1, ArmEnds DEF Running, Told
  <2>3. ArmInv(FailArm(a))
    BY <2>1, ArmFails
  <2> QED BY <1>3, <2>2, <2>3 DEF Onwards
<1> QED BY <1>2, <1>3

(* After an empty hand: from the start again, or on to the last step.      *)
LEMMA EmptyHandIsJudged ==
  ASSUME NEW a, Running(a), Step(a) = "judge", a.child.state \in ChildEnded, a.closed
  PROVE  ArmInv(VerificationFailed(a))
<1>0. /\ a \in Arms /\ IsRoute(a.route) /\ a.route \in Seq(Steps)
      /\ Len(a.route) \in Nat /\ a.at \in 1 .. Len(a.route) /\ a.told # "succeeded"
      /\ \A c \in a.adrift : c.seen => c.asked
      /\ a.attempt \in {1, 2}
  BY LenProperties DEF Running, IsRoute, Arms
<1>1. /\ a.at + 1 = Len(a.route) /\ a.route[Len(a.route)] = "head"
      /\ 1 \in 1 .. Len(a.route) /\ Len(a.route) \in 1 .. Len(a.route)
  BY <1>0 DEF IsRoute, Step
<1>2. CASE a.attempt < Attempts
  <2> DEFINE v == GoTo(a, 1)
             u == [v EXCEPT !.attempt = @ + 1, !.verdict = "none"]
  <2>1. /\ v \in Arms /\ v.at = 1 /\ v.route = a.route
        /\ v.attempt = a.attempt /\ v.told = a.told
        /\ v.pc \in {"step", "result"} /\ OnRoute(v) /\ ChildIsMinded(v)
    BY <1>0, <1>1, ArmGoesTo
  <2>2. a.attempt + 1 = 2
    BY <1>0, <1>2 DEF Attempts
  <2>3. VerificationFailed(a) = u
    BY <1>2 DEF VerificationFailed
  <2> HIDE DEF v
  <2>4. /\ u \in Arms /\ u.at = 1 /\ u.route = a.route /\ u.told = a.told
        /\ u.pc = v.pc /\ u.verdict = "none" /\ u.active = v.active
        /\ u.child = v.child /\ u.adrift = v.adrift
    <3>1. v.attempt + 1 \in {1, 2}
      BY <2>1, <2>2
    <3> QED BY <2>1, <3>1 DEF Arms
  <2> HIDE DEF u
  <2>5. OnRoute(u) /\ ChildIsMinded(u)
    BY <2>1, <2>4 DEF OnRoute, ChildIsMinded, Step
  <2>6. Judged(u)
    BY <1>0, <1>1, <2>4 DEF Judged
  <2> QED BY <2>3, <2>4, <2>5, <2>6 DEF ArmInv
<1>3. CASE ~(a.attempt < Attempts)
  <2> DEFINE v == GoTo(a, Len(a.route))
             u == [v EXCEPT !.verdict = "empty"]
  <2>1. /\ v \in Arms /\ v.at = Len(a.route) /\ v.route = a.route
        /\ v.attempt = a.attempt /\ v.told = a.told /\ v.closed = a.closed
        /\ v.pc \in {"step", "result"} /\ OnRoute(v) /\ ChildIsMinded(v)
    BY <1>0, <1>1, ArmGoesTo
  <2>2. a.attempt = Attempts
    BY <1>0, <1>3 DEF Attempts
  <2>3. VerificationFailed(a) = u
    BY <1>3 DEF VerificationFailed
  <2> HIDE DEF v
  <2>4. /\ u \in Arms /\ u.at = Len(a.route) /\ u.route = a.route /\ u.told = a.told
        /\ u.pc = v.pc /\ u.verdict = "empty" /\ u.active = v.active
        /\ u.child = v.child /\ u.adrift = v.adrift /\ u.closed = a.closed
        /\ u.attempt = a.attempt
    BY <2>1 DEF Arms
  <2> HIDE DEF u
  <2>5. OnRoute(u) /\ ChildIsMinded(u)
    BY <2>1, <2>4 DEF OnRoute, ChildIsMinded, Step
  <2>6. Judged(u)
    BY <1>0, <1>1, <2>2, <2>4 DEF Judged, Step
  <2> QED BY <2>3, <2>4, <2>5, <2>6 DEF ArmInv
<1> QED BY <1>2, <1>3

(* The process ends when its child had ended, or while it asks another one.*)
LEMMA ArmDies ==
  ASSUME NEW a, Running(a) \/ ArmInv(a),
         a.child.state \in ChildEnded \/ a.call = "gone"
  PROVE  ArmInv(Die(a))
<1> DEFINE u == Die(a)
<1>1. /\ u \in Arms /\ u.pc = "dead" /\ u.route = a.route /\ u.told = a.told
      /\ u.verdict = a.verdict /\ u.child = a.child /\ u.adrift = a.adrift
      /\ u.closed = a.closed /\ u.attempt = a.attempt /\ u.call = a.call
  BY DEF Die, Arms, Running, ArmInv
<1> HIDE DEF u
<1>2. /\ IsRoute(a.route) /\ \A c \in a.adrift : c.seen => c.asked
      /\ a.told = "succeeded" /\ Judges(a.route) => a.verdict = "held"
      /\ a.verdict = "empty" => a.closed /\ a.attempt = Attempts
  BY DEF ArmInv, OnRoute, ChildIsMinded, Judged, Running
<1>3. ArmInv(u)
  BY <1>1, <1>2 DEF ArmInv, OnRoute, ChildIsMinded, Judged
<1> QED BY <1>3 DEF u

LEMMA ChildWasCanceled ==
  ASSUME NEW a, Running(a), a.child.state \in ChildEnded
  PROVE  ArmInv(ChildCanceled(a))
  BY ArmDies, ArmFails DEF ChildCanceled

(* The invariant says nothing about what is asked.                         *)
LEMMA ArmIsAsked ==
  ASSUME NEW a, ArmInv(a), NEW c \in {"called", "canceling"}
  PROVE  ArmInv([a EXCEPT !.cancel = c]) /\ ArmInv(AskChild(a))
<1> DEFINE u == [a EXCEPT !.cancel = c]
           v == AskChild(a)
<1>1. /\ u \in Arms /\ u.pc = a.pc /\ u.route = a.route /\ u.told = a.told
      /\ u.verdict = a.verdict /\ u.child = a.child /\ u.adrift = a.adrift
      /\ u.closed = a.closed /\ u.attempt = a.attempt /\ u.at = a.at
      /\ u.active = a.active /\ u.call = a.call
  BY DEF ArmInv, Arms
<1>2. /\ v \in Arms /\ v.pc = a.pc /\ v.route = a.route /\ v.told = a.told
      /\ v.verdict = a.verdict /\ v.child.state = a.child.state /\ v.adrift = a.adrift
      /\ v.closed = a.closed /\ v.attempt = a.attempt /\ v.at = a.at
      /\ v.active = a.active /\ v.call = a.call
  BY DEF AskChild, ArmInv, Arms
<1> HIDE DEF u, v
<1>3. ArmInv(u)
  BY <1>1 DEF ArmInv, OnRoute, ChildIsMinded, Judged, Step
<1>4. ArmInv(v)
  BY <1>2 DEF ArmInv, OnRoute, ChildIsMinded, Judged, Step
<1> QED BY <1>3, <1>4 DEF u, v

(* While the process lives it says nothing of whom a cancellation asks.    *)
LEMMA ArmIsCalled ==
  ASSUME NEW a, ArmInv(a), a.pc # "dead", NEW c \in {"none", "child", "gone", "stray"}
  PROVE  ArmInv([a EXCEPT !.call = c])
<1> DEFINE u == [a EXCEPT !.call = c]
<1>1. /\ u \in Arms /\ u.pc = a.pc /\ u.route = a.route /\ u.told = a.told
      /\ u.verdict = a.verdict /\ u.child = a.child /\ u.adrift = a.adrift
      /\ u.closed = a.closed /\ u.attempt = a.attempt /\ u.at = a.at
      /\ u.active = a.active
  BY DEF ArmInv, Arms
<1> HIDE DEF u
<1>2. ArmInv(u)
  BY <1>1 DEF ArmInv, OnRoute, ChildIsMinded, Judged, Step
<1> QED BY <1>2 DEF u

(* What the worker has written down since the step began                   *)
LEMMA ArmNotes ==
  ASSUME NEW a, Running(a), a.verdict # "empty"
  PROVE  /\ \A closed \in BOOLEAN :
              LET u == [a EXCEPT !.closed = closed]
              IN  Running(u) /\ Step(u) = Step(a) /\ u.child = a.child
                  /\ u.verdict = a.verdict
         /\ LET u == [a EXCEPT !.verdict = "held"]
            IN  Running(u) /\ Step(u) = Step(a) /\ u.child = a.child
                /\ u.verdict = "held"
<1>1. ASSUME NEW closed \in BOOLEAN
      PROVE  LET u == [a EXCEPT !.closed = closed]
             IN  Running(u) /\ Step(u) = Step(a) /\ u.child = a.child
                 /\ u.verdict = a.verdict
  <2> DEFINE u == [a EXCEPT !.closed = closed]
  <2>1. /\ u \in Arms /\ u.route = a.route /\ u.told = a.told /\ u.at = a.at
        /\ u.verdict = a.verdict /\ u.adrift = a.adrift /\ u.child = a.child
    BY DEF Running, Arms
  <2> HIDE DEF u
  <2>2. Running(u) /\ Step(u) = Step(a)
    BY <2>1 DEF Running, Step
  <2> QED BY <2>1, <2>2 DEF u
<1>2. LET u == [a EXCEPT !.verdict = "held"]
      IN  Running(u) /\ Step(u) = Step(a) /\ u.child = a.child
          /\ u.verdict = "held"
  <2> DEFINE u == [a EXCEPT !.verdict = "held"]
  <2>1. /\ u \in Arms /\ u.route = a.route /\ u.told = a.told /\ u.at = a.at
        /\ u.verdict = "held" /\ u.adrift = a.adrift /\ u.child = a.child
    BY DEF Running, Arms
  <2> HIDE DEF u
  <2>2. Running(u) /\ Step(u) = Step(a)
    BY <2>1 DEF Running, Step
  <2> QED BY <2>1, <2>2 DEF u
<1> QED BY <1>1, <1>2

LEMMA ArmStarts ==
  ASSUME ArmInv(arm), StartArm
  PROVE  ArmInv(arm')
<1>0. /\ arm \in Arms /\ arm.pc = "idle" /\ arm.child.state \in ChildEnded
      /\ \A c \in arm.adrift : c.seen => c.asked
  BY DEF ArmInv, StartArm, ChildIsMinded
<1>1. PICK kind \in {"act", "prepare", "classical", "handover"}, dry \in BOOLEAN :
        LET a == [arm EXCEPT !.kind = kind, !.route = Route(kind, dry), !.at = 1,
                             !.attempt = 1, !.cancel = "none", !.told = "none",
                             !.verdict = "none", !.image = FALSE]
        IN  arm' = IF a.route = << >> THEN EndArm(a, "succeeded") ELSE GoTo(a, 1)
  BY DEF StartArm
<1>2. IsRoute(Route(kind, dry)) /\ Route(kind, dry) \in Seq(Steps)
  BY RoutesAreRoutes
<1> SUFFICES ASSUME NEW route, IsRoute(route), route \in Seq(Steps),
                    route = Route(kind, dry)
             PROVE  ArmInv(arm')
  BY <1>2
<1> DEFINE a == [arm EXCEPT !.kind = kind, !.route = route, !.at = 1,
                            !.attempt = 1, !.cancel = "none", !.told = "none",
                            !.verdict = "none", !.image = FALSE]
<1>3. /\ a \in Arms /\ a.route = route /\ a.told = "none" /\ a.verdict = "none"
      /\ a.child = arm.child /\ a.adrift = arm.adrift
  <2>1. 1 \in Nat \ {0} /\ "none" \in Told
    BY DEF Told
  <2> DEFINE b1 == [arm EXCEPT !.kind = kind]
             b2 == [b1 EXCEPT !.route = route]
             b3 == [b2 EXCEPT !.at = 1]
             b4 == [b3 EXCEPT !.attempt = 1]
             b5 == [b4 EXCEPT !.cancel = "none"]
             b6 == [b5 EXCEPT !.told = "none"]
             b7 == [b6 EXCEPT !.verdict = "none"]
  <2>2. a = [b7 EXCEPT !.image = FALSE]
    BY <1>0 DEF Arms
  <2>3. b1 \in Arms
    BY <1>0 DEF Arms
  <2> HIDE DEF b1
  <2>4. b2 \in Arms
    BY <2>3 DEF Arms
  <2> HIDE DEF b2
  <2>5. b3 \in Arms
    BY <2>1, <2>4 DEF Arms
  <2> HIDE DEF b3
  <2>6. b4 \in Arms
    BY <2>5 DEF Arms
  <2> HIDE DEF b4
  <2>7. b5 \in Arms
    BY <2>6 DEF Arms
  <2> HIDE DEF b5
  <2>8. b6 \in Arms
    BY <2>1, <2>7 DEF Arms
  <2> HIDE DEF b6
  <2>9. b7 \in Arms
    BY <2>8 DEF Arms
  <2> HIDE DEF b7
  <2>10. \A b \in Arms : [b EXCEPT !.image = FALSE] \in Arms
    BY DEF Arms
  <2>11. [b7 EXCEPT !.image = FALSE] \in Arms
    BY <2>9, <2>10
  <2>12. a \in Arms
    <3> HIDE DEF a
    <3> QED BY <2>2, <2>11
  <2> QED BY <1>0, <2>12 DEF Arms
<1>4. arm' = IF a.route = << >> THEN EndArm(a, "succeeded") ELSE GoTo(a, 1)
  BY <1>1
<1> HIDE DEF a
<1>5. CASE route = << >>
  <2>1. ~Judges(route)
    BY <1>5 DEF Judges
  <2> QED BY <1>0, <1>3, <1>4, <1>5, <2>1, ArmEnds DEF Told
<1>6. CASE route # << >>
  <2>1. Len(route) \in Nat \ {0} /\ 1 \in 1 .. Len(route)
    BY <1>6, LenProperties, EmptySeq
  <2> DEFINE u == GoTo(a, 1)
  <2>2. /\ u \in Arms /\ u.at = 1 /\ u.route = route /\ u.verdict = "none"
        /\ u.told = "none" /\ u.pc \in {"step", "result"}
        /\ OnRoute(u) /\ ChildIsMinded(u)
    BY <1>0, <1>3, <2>1, ArmGoesTo
  <2> HIDE DEF u
  <2>3. Judged(u)
    BY <2>1, <2>2 DEF Judged, Judges, IsRoute
  <2> QED BY <1>3, <1>4, <1>6, <2>2, <2>3 DEF ArmInv, u
<1> QED BY <1>5, <1>6

LEMMA ArmSteps ==
  ASSUME ArmInv(arm), ArmStep
  PROVE  ArmInv(arm')
<1>1. ASSUME arm.pc \notin {"idle", "dead"}
      PROVE  Running(arm)
  BY <1>1, ServedIsRunning
<1>2. CASE WorkAlone
  <2>1. /\ arm.pc = "step" /\ Step(arm) \in Idling /\ Running(arm)
        /\ Step(arm) \notin {"judge", "verify", "head"}
        /\ Step(arm) = "measure" \/ arm.child.state \in ChildEnded
    BY <1>1, <1>2 DEF WorkAlone, Idling, ArmInv, ChildIsMinded
  <2>2. arm.verdict # "empty" /\ arm.closed \in BOOLEAN
    BY <2>1 DEF Running, Arms
  <2>3. ASSUME NEW closed \in BOOLEAN, arm' = Onwards([arm EXCEPT !.closed = closed])
        PROVE  ArmInv(arm')
    <3> DEFINE u == [arm EXCEPT !.closed = closed]
    <3>1. Running(u) /\ Step(u) = Step(arm) /\ u.child = arm.child
      BY <2>1, <2>2, ArmNotes
    <3> HIDE DEF u
    <3>2. ArmInv(Onwards(u))
      BY <2>1, <3>1, ArmGoesOn
    <3> QED BY <2>3, <3>2 DEF u
  <2>4. ArmInv(FailArm(AskChild(arm)))
    BY <2>1, ChildIsAsked, ArmFails
  <2>5. \/ \E closed \in BOOLEAN : arm' = Onwards([arm EXCEPT !.closed = closed])
        \/ arm' = FailArm(AskChild(arm))
    BY <1>2, <2>2 DEF WorkAlone
  <2> QED BY <2>3, <2>4, <2>5
<1>3. CASE SendChild
  <2>1. /\ arm.pc = "step" /\ Running(arm) /\ arm.child.state \in ChildEnded
    BY <1>1, <1>3 DEF SendChild, Idling, ArmInv, ChildIsMinded
  <2> DEFINE whom == Copied(arm)
             u == [arm EXCEPT !.pc = "response", !.image = FALSE, !.call = whom,
                              !.child = [state |-> "sent", asked |-> FALSE]]
  <2>5. whom \in {"none", "child", "gone", "stray"}
    BY <2>1 DEF Copied, Running, Arms
  <2>3. arm' = u \/ arm' = FailArm(arm)
    BY <1>3 DEF SendChild
  <2> HIDE DEF whom
  <2>2. /\ u \in Arms /\ u.pc = "response" /\ u.route = arm.route /\ u.told = arm.told
        /\ u.verdict = arm.verdict /\ u.adrift = arm.adrift
        /\ u.closed = arm.closed /\ u.attempt = arm.attempt /\ u.at = arm.at
    BY <2>5 DEF ArmInv, Arms
  <2> HIDE DEF u
  <2>4. ArmInv(u)
    BY <2>1, <2>2 DEF ArmInv, OnRoute, ChildIsMinded, Judged, Step
  <2> QED BY <2>1, <2>3, <2>4, ArmFails
<1>4. CASE AwaitChildResponse
  <2>1. arm.pc = "response" /\ Running(arm)
    BY <1>1, <1>4 DEF AwaitChildResponse
  <2> DEFINE b == AskChild(arm)
             u == [b EXCEPT !.pc = "result"]
             next == IF Step(arm) = "verify" THEN "image" ELSE "result"
             v == [arm EXCEPT !.active = TRUE, !.pc = next]
  <2>2. arm' = FailArm(arm) \/ arm' = FailArm(u) \/ arm' = v
    BY <1>4 DEF AwaitChildResponse
  <2>3. Running(b) /\ b.child.asked
    BY <2>1, ChildIsAsked
  <2> HIDE DEF b
  <2>4. /\ u \in Arms /\ u.route = b.route /\ u.told = b.told /\ u.at = b.at
        /\ u.verdict = b.verdict /\ u.adrift = b.adrift /\ u.child = b.child
        /\ u.closed = b.closed /\ u.attempt = b.attempt
    BY <2>3 DEF Running, Arms
  <2> HIDE DEF u
  <2>5. ArmInv(FailArm(u))
    <3>1. Running(u)
      BY <2>3, <2>4 DEF Running, Step
    <3> QED BY <2>3, <2>4, <3>1, ArmFails
  <2>6. next \in {"image", "result"} /\ (next = "image" => Step(arm) = "verify")
    OBVIOUS
  <2> HIDE DEF next
  <2>7. /\ v \in Arms /\ v.pc = next /\ v.route = arm.route /\ v.told = arm.told
        /\ v.verdict = arm.verdict /\ v.adrift = arm.adrift /\ v.active
        /\ v.closed = arm.closed /\ v.attempt = arm.attempt /\ v.at = arm.at
    BY <2>6 DEF ArmInv, Arms
  <2> HIDE DEF v
  <2>8. ArmInv(v)
    BY <2>1, <2>6, <2>7 DEF ArmInv, OnRoute, ChildIsMinded, Judged, Step
  <2> QED BY <2>1, <2>2, <2>5, <2>8, ArmFails
<1>5. CASE AwaitImage
  <2>1. arm.pc = "image" /\ Running(arm) /\ Step(arm) = "verify"
    BY <1>1, <1>5 DEF AwaitImage, ArmInv, OnRoute
  <2> QED BY <1>5, <2>1, ArmGoesOn, ChildIsGivenUp DEF AwaitImage
<1>6. CASE AwaitChildResult
  <2>1. arm.pc = "result" /\ Running(arm) /\ Step(arm) # "judge"
    BY <1>1, <1>6 DEF AwaitChildResult
  <2>2. \/ arm.child.state \in ChildEnded
           /\ arm' \in {Onwards(arm), FailArm(arm), ChildCanceled(arm)}
        \/ arm' = GiveUpChild(arm)
    BY <1>6 DEF AwaitChildResult, ChildEnded
  <2> QED BY <2>1, <2>2, ArmGoesOn, ArmFails, ChildWasCanceled, ChildIsGivenUp
<1>7. CASE JudgeGrasp
  <2>1. arm.pc = "result" /\ Running(arm) /\ Step(arm) = "judge"
    BY <1>1, <1>7 DEF JudgeGrasp
  <2> DEFINE u == [arm EXCEPT !.verdict = "held"]
  <2>2. \/ /\ arm.child.state \in ChildEnded
           /\ \/ arm.closed /\ arm' = VerificationFailed(arm)
              \/ arm' \in {Onwards(u), FailArm(arm), ChildCanceled(arm)}
        \/ arm' = GiveUpChild(arm)
    BY <1>7 DEF JudgeGrasp, ChildEnded
  <2>3. Running(u) /\ Step(u) = "judge" /\ u.child = arm.child /\ u.verdict = "held"
    BY <2>1, ArmNotes DEF Running
  <2> HIDE DEF u
  <2>4. arm.child.state \in ChildEnded => ArmInv(Onwards(u))
    BY <2>3, ArmGoesOn
  <2> QED
    BY <2>1, <2>2, <2>4, EmptyHandIsJudged, ArmFails, ChildWasCanceled, ChildIsGivenUp
<1> QED
  BY <1>2, <1>3, <1>4, <1>5, <1>6, <1>7 DEF ArmStep

(* Who works for the arm, and who asks it to stop                          *)
LEMMA ArmNext ==
  ASSUME ArmInv(arm), NextArm \/ UNCHANGED arm
  PROVE  ArmInv(arm')
<1>1. CASE UNCHANGED arm
  BY <1>1
<1>2. CASE CancelArm
  <2>1. PICK whom \in {"child", "none"} :
          arm' = [arm EXCEPT !.cancel = "called", !.call = whom]
    BY <1>2 DEF CancelArm
  <2> DEFINE u == [arm EXCEPT !.cancel = "called"]
  <2>2. ArmInv(u)
    BY ArmIsAsked
  <2>3. u.pc # "dead" /\ arm' = [u EXCEPT !.call = whom]
    BY <1>2, <2>1 DEF CancelArm, ArmInv, Arms
  <2> HIDE DEF u
  <2> QED BY <2>2, <2>3, ArmIsCalled
<1>5. CASE CallArmCancel
  <2>1. arm.pc # "dead"
    BY <1>5 DEF CallArmCancel
  <2> DEFINE u == AskChild(arm)
  <2>2. ArmInv(u)
    BY ArmIsAsked
  <2>4. u.pc # "dead"
    BY <2>1 DEF AskChild, ArmInv, Arms
  <2>3. \/ arm' = [u EXCEPT !.call = "none"] \/ arm' = [arm EXCEPT !.call = "none"]
        \/ /\ arm.call = "gone" \/ arm.child.state \in ChildEnded
           /\ arm' = Die(arm)
    BY <1>5 DEF CallArmCancel
  <2> HIDE DEF u
  <2> QED BY <2>1, <2>2, <2>3, <2>4, ArmIsCalled, ArmDies
<1>3. CASE ArmIsCanceling
  BY <1>3, ArmIsAsked DEF ArmIsCanceling
<1>4. CASE ChildServer
  <2>1. ASSUME NEW s \in {"live", "rejected", "succeeded", "failed", "canceled"},
               arm.child.state \notin ChildEnded,
               arm' = [arm EXCEPT !.child.state = s]
        PROVE  ArmInv(arm')
    <3>1. /\ arm' \in Arms /\ arm'.pc = arm.pc /\ arm'.route = arm.route
          /\ arm'.told = arm.told /\ arm'.at = arm.at /\ arm'.active = arm.active
          /\ arm'.verdict = arm.verdict /\ arm'.adrift = arm.adrift
          /\ arm'.closed = arm.closed /\ arm'.attempt = arm.attempt
          /\ arm'.call = arm.call
      BY <2>1 DEF ArmInv, Arms, ChildEnded
    <3> QED BY <2>1, <3>1 DEF ArmInv, OnRoute, ChildIsMinded, Judged, Step
  <2>2. CASE arm' = [arm EXCEPT !.image = TRUE]
    <3>1. /\ arm' \in Arms /\ arm'.pc = arm.pc /\ arm'.route = arm.route
          /\ arm'.told = arm.told /\ arm'.at = arm.at /\ arm'.active = arm.active
          /\ arm'.verdict = arm.verdict /\ arm'.adrift = arm.adrift
          /\ arm'.closed = arm.closed /\ arm'.attempt = arm.attempt
          /\ arm'.call = arm.call
          /\ arm'.child = arm.child
      BY <2>2 DEF ArmInv, Arms
    <3> QED BY <3>1 DEF ArmInv, OnRoute, ChildIsMinded, Judged, Step
  <2>3. ASSUME NEW c \in arm.adrift, arm' = [arm EXCEPT !.adrift = @ \ {c}]
        PROVE  ArmInv(arm')
    <3>1. /\ arm' \in Arms /\ arm'.pc = arm.pc /\ arm'.route = arm.route
          /\ arm'.told = arm.told /\ arm'.at = arm.at /\ arm'.active = arm.active
          /\ arm'.verdict = arm.verdict /\ arm'.adrift \subseteq arm.adrift
          /\ arm'.closed = arm.closed /\ arm'.attempt = arm.attempt
          /\ arm'.call = arm.call
          /\ arm'.child = arm.child
      BY <2>3 DEF ArmInv, Arms
    <3> QED BY <3>1 DEF ArmInv, OnRoute, ChildIsMinded, Judged, Step
  <2>4. \/ /\ arm.child.state \notin ChildEnded
           /\ \E s \in {"live", "rejected", "succeeded", "failed", "canceled"} :
                arm' = [arm EXCEPT !.child.state = s]
        \/ arm' = [arm EXCEPT !.image = TRUE]
        \/ \E c \in arm.adrift : arm' = [arm EXCEPT !.adrift = @ \ {c}]
    BY <1>4 DEF ChildServer, ChildEnded
  <2> QED BY <2>1, <2>2, <2>3, <2>4
<1> QED BY <1>1, <1>2, <1>3, <1>4, <1>5, ArmStarts, ArmSteps DEF NextArm

LEMMA ArmBegins ==
  ASSUME InitArm
  PROVE  ArmInv(arm)
<1>1. << >> \in Seq(Steps) /\ Len(<< >>) = 0 /\ arm.route = << >>
  BY DEF InitArm
<1>2. arm \in Arms /\ arm.child = NoChild
  BY <1>1, NoChildHasEnded DEF InitArm, Arms, Told
<1>3. IsRoute(arm.route) /\ ~Judges(arm.route)
  BY <1>1 DEF IsRoute, Judges
<1> QED
  BY <1>2, <1>3, NoChildHasEnded DEF InitArm, ArmInv, OnRoute, ChildIsMinded, Judged

(* What the runs check of the arm                                          *)
LEMMA ArmIsRight ==
  ASSUME ArmInv(arm)
  PROVE  ArmIsMinded /\ GraspIsJudged
<1>1. arm.route \in Seq(Steps) /\ DOMAIN arm.route = 1 .. Len(arm.route)
  BY LenProperties DEF ArmInv, OnRoute, IsRoute
<1>2. "judge" \in {arm.route[i] : i \in DOMAIN arm.route} => Judges(arm.route)
  BY <1>1 DEF Judges
<1> QED
  BY <1>2 DEF ArmInv, ChildIsMinded, Judged, ArmIsMinded, GraspIsJudged

-----------------------------------------------------------------------------
(* The stored poses *)

(* A trajectory is left that nobody knew to run, or that was asked to stop.*)
LEMMA LeftAreAsked ==
  ASSUME NEW t \in Trajectories, NEW seen \in BOOLEAN,
         t.state \in NotMoving \/ ~seen \/ t.asked
  PROVE  /\ LeftMoving(t, seen) \in LeftTrajectories
         /\ \A x \in LeftMoving(t, seen) : x.seen => x.asked
         /\ t.state \in NotMoving => LeftMoving(t, seen) = {}
<1> DEFINE c == [asked |-> t.asked, seen |-> seen]
<1>1. c \in [asked : BOOLEAN, seen : BOOLEAN]
  BY DEF Trajectories
<1>2. LeftMoving(t, seen) = IF t.state \in NotMoving THEN {} ELSE {c}
  BY DEF LeftMoving
<1>3. t.state \notin NotMoving => (c.seen => c.asked)
  OBVIOUS
<1> HIDE DEF c
<1> QED
  BY <1>1, <1>2, <1>3 DEF LeftTrajectories

LEMMA NothingMovesYet ==
  /\ NoTrajectory \in Trajectories /\ NoTrajectory.state \in NotMoving
  /\ Sent \in Trajectories
  /\ {} \in LeftTrajectories
  BY DEF NoTrajectory, Sent, Trajectories, NotMoving, LeftTrajectories

LEMMA PresetEnds ==
  ASSUME PresetInv(preset), NEW told \in Told, EndPreset(told),
         preset.trajectory.state \in NotMoving
           \/ (preset.pc = "response" /\ told # "succeeded")
  PROVE  PresetInv(preset')
<1> DEFINE left == LeftMoving(preset.trajectory, preset.pc # "response")
<1>1. /\ left \in LeftTrajectories /\ \A x \in left : x.seen => x.asked
      /\ preset.trajectory.state \in NotMoving => left = {}
  BY LeftAreAsked DEF PresetInv
<1>2. preset' = [preset EXCEPT !.pc = "idle", !.told = told,
                   !.trajectory = NoTrajectory, !.adrift = left]
  BY DEF EndPreset
<1> HIDE DEF left
<1> QED BY <1>1, <1>2, NothingMovesYet DEF PresetInv

LEMMA PresetNext ==
  ASSUME PresetInv(preset), NextPreset \/ UNCHANGED preset
  PROVE  PresetInv(preset')
<1>1. CASE UNCHANGED preset
  BY <1>1
<1>2. CASE StartPreset
  BY <1>2, NothingMovesYet DEF StartPreset, PresetInv, Told
<1>3. CASE CancelPreset
  BY <1>3 DEF CancelPreset, PresetInv
<1>4. CASE SendPreset
  <2>1. preset.pc = "start" /\ preset.trajectory.state \in NotMoving
    BY <1>4 DEF SendPreset, PresetInv
  <2>2. \/ \E told \in Told : EndPreset(told)
        \/ preset' = [preset EXCEPT !.pc = "response", !.trajectory = Sent]
    BY <1>4 DEF SendPreset, Told
  <2>3. CASE preset' = [preset EXCEPT !.pc = "response", !.trajectory = Sent]
    BY <2>3, NothingMovesYet DEF PresetInv
  <2>4. \A told \in Told : EndPreset(told) => PresetInv(preset')
    BY <2>1, PresetEnds
  <2> QED BY <2>2, <2>3, <2>4
<1>5. CASE AwaitPresetResponse
  BY <1>5, PresetEnds DEF AwaitPresetResponse, PresetInv, Told
<1>6. CASE AwaitPresetResult
  <2>1. \/ /\ preset.trajectory.state \in NotMoving
           /\ \E told \in Told : EndPreset(told)
        \/ preset.pc = "result" /\ preset' = [preset EXCEPT !.pc = "ask"]
    BY <1>6 DEF AwaitPresetResult, Told, NotMoving
  <2>2. CASE preset.pc = "result" /\ preset' = [preset EXCEPT !.pc = "ask"]
    BY <2>2 DEF PresetInv
  <2>3. preset.trajectory.state \in NotMoving =>
          \A told \in Told : EndPreset(told) => PresetInv(preset')
    BY PresetEnds
  <2> QED BY <2>1, <2>2, <2>3
<1>7. CASE AskPreset
  <2>1. CASE preset.trajectory.state \in NotMoving
    BY <1>7, <2>1 DEF AskPreset, PresetInv
  <2>2. CASE preset.trajectory.state \notin NotMoving
    <3>1. PICK told \in {"aborted", "canceled"} :
            preset' = [preset EXCEPT !.pc = "idle", !.trajectory = NoTrajectory,
                         !.told = told, !.adrift = {[asked |-> TRUE, seen |-> TRUE]}]
      BY <1>7, <2>2 DEF AskPreset
    <3> DEFINE left == {[asked |-> TRUE, seen |-> TRUE]}
    <3>2. left \in LeftTrajectories /\ \A x \in left : x.seen => x.asked
      BY DEF LeftTrajectories
    <3>3. told \in Told /\ told # "succeeded"
      BY DEF Told
    <3>4. preset' = [preset EXCEPT !.pc = "idle", !.trajectory = NoTrajectory,
                       !.told = told, !.adrift = left]
      BY <3>1
    <3> HIDE DEF left
    <3> QED BY <3>2, <3>3, <3>4, NothingMovesYet DEF PresetInv
  <2> QED BY <2>1, <2>2
<1>8. CASE preset' \in Controlled(preset)
  <2>1. ASSUME NEW t \in preset.adrift, preset' = [preset EXCEPT !.adrift = @ \ {t}]
        PROVE  PresetInv(preset')
    BY <2>1 DEF PresetInv, LeftTrajectories
  <2>2. ASSUME NEW s \in {"live", "rejected", "succeeded", "failed"},
               preset.trajectory.state \notin NotMoving,
               preset' = [preset EXCEPT !.trajectory.state = s]
        PROVE  PresetInv(preset')
    <3>1. [preset.trajectory EXCEPT !.state = s] \in Trajectories
      BY DEF PresetInv, Trajectories, NotMoving
    <3>2. preset' = [preset EXCEPT !.trajectory = [preset.trajectory EXCEPT !.state = s]]
      BY <2>2 DEF PresetInv
    <3> QED BY <2>2, <3>1, <3>2 DEF PresetInv
  <2>3. \/ \E t \in preset.adrift : preset' = [preset EXCEPT !.adrift = @ \ {t}]
        \/ /\ preset.trajectory.state \notin NotMoving
           /\ \E s \in {"live", "rejected", "succeeded", "failed"} :
                preset' = [preset EXCEPT !.trajectory.state = s]
    <3>1. CASE preset.trajectory.state = "sent"
      BY <1>8, <3>1 DEF Controlled, NotMoving
    <3>2. CASE preset.trajectory.state = "live"
      BY <1>8, <3>2 DEF Controlled, NotMoving
    <3>3. CASE preset.trajectory.state \notin {"sent", "live"}
      BY <1>8, <3>3 DEF Controlled
    <3> QED BY <3>1, <3>2, <3>3
  <2> QED BY <2>1, <2>2, <2>3
<1> QED
  BY <1>1, <1>2, <1>3, <1>4, <1>5, <1>6, <1>7, <1>8 DEF NextPreset, PresetStep

LEMMA ReadyEnds ==
  ASSUME ReadyInv(ready), NEW status \in {"WARN", "OK", "ERROR"}, EndReady(status),
         ready.trajectory.state \in NotMoving \/ (ready.pc = "response" /\ status # "OK")
  PROVE  ReadyInv(ready')
<1> DEFINE left == LeftMoving(ready.trajectory, ready.pc # "response")
<1>1. /\ left \in LeftTrajectories /\ \A x \in left : x.seen => x.asked
      /\ ready.trajectory.state \in NotMoving => left = {}
  BY LeftAreAsked DEF ReadyInv
<1>2. ready' = [ready EXCEPT !.pc = "done", !.status = status,
                  !.trajectory = NoTrajectory, !.adrift = left]
  BY DEF EndReady
<1> HIDE DEF left
<1> QED BY <1>1, <1>2, NothingMovesYet DEF ReadyInv

LEMMA LegIsDone ==
  ASSUME ReadyInv(ready), ready.pc \in {"leg", "arrive"}, LegDone
  PROVE  ReadyInv(ready')
<1>1. ready.legs # << >> /\ ready.legs \in Seq(Legs) /\ ready.trajectory.state \in NotMoving
  BY DEF ReadyInv
<1>2. CASE EndReady("OK")
  <2>1. "OK" \in {"WARN", "OK", "ERROR"}
    OBVIOUS
  <2> HIDE <1>1
  <2>2. ready.trajectory.state \in NotMoving
    BY <1>1
  <2> QED BY <1>2, <2>1, <2>2, ReadyEnds
<1>3. CASE Len(ready.legs) # 1 /\ ready' = [ready EXCEPT !.pc = "leg", !.legs = Tail(@)]
  <2>1. /\ Tail(ready.legs) \in Seq(Legs) /\ Len(Tail(ready.legs)) = Len(ready.legs) - 1
        /\ Len(ready.legs) \in Nat
    BY <1>1, HeadTailProperties, LenProperties
  <2>2. Len(ready.legs) # 0 /\ Len(<< >>) = 0
    BY <1>1, EmptySeq
  <2>3. Tail(ready.legs) # << >>
    <3> SUFFICES ASSUME Tail(ready.legs) = << >>
                 PROVE  FALSE
      OBVIOUS
    <3>1. Len(Tail(ready.legs)) = 0
      BY <2>2, Zenon
    <3> HIDE <2>2
    <3>2. Len(ready.legs) - 1 = 0
      BY <2>1, <3>1, Zenon
    <3> QED BY <1>3, <2>1, <3>2
  <2> QED BY <1>1, <1>3, <2>1, <2>3 DEF ReadyInv
<1> QED BY <1>2, <1>3 DEF LegDone

LEMMA ReadyNext ==
  ASSUME ReadyInv(ready), NextReady \/ UNCHANGED ready
  PROVE  ReadyInv(ready')
<1>1. CASE UNCHANGED ready
  BY <1>1
<1>2. CASE StartReady
  BY <1>2 DEF StartReady, ReadyInv
<1>3. CASE AwaitJoints
  <2>1. ready.pc = "joints" /\ ready.trajectory.state \in NotMoving
    BY <1>3 DEF AwaitJoints, ReadyInv
  <2>2. <<"head">> \in Seq(Legs) /\ <<"head", "arm", "gripper">> \in Seq(Legs)
    BY DEF Legs
  <2>3. <<"head">> # << >> /\ <<"head", "arm", "gripper">> # << >>
    OBVIOUS
  <2>4. ASSUME NEW legs \in {<<"head">>, <<"head", "arm", "gripper">>},
               ready' = [ready EXCEPT !.pc = "leg", !.legs = legs]
        PROVE  ReadyInv(ready')
    <3>1. legs \in Seq(Legs) /\ legs # << >>
      BY <2>2, <2>3
    <3> QED BY <2>1, <2>4, <3>1 DEF ReadyInv
  <2>5. \A status \in {"OK", "ERROR"} : EndReady(status) => ReadyInv(ready')
    BY <2>1, ReadyEnds
  <2> QED BY <1>3, <2>4, <2>5 DEF AwaitJoints
<1>4. CASE SendReadyLeg
  <2>1. ready.pc = "leg" /\ ready.trajectory.state \in NotMoving
    BY <1>4 DEF SendReadyLeg, ReadyInv
  <2>2. CASE ready' = [ready EXCEPT !.pc = "response", !.trajectory = Sent]
    BY <2>1, <2>2, NothingMovesYet DEF ReadyInv
  <2> QED BY <1>4, <2>1, <2>2, ReadyEnds, LegIsDone DEF SendReadyLeg
<1>5. CASE AwaitReadyResponse
  <2>1. CASE ready.pc = "response" /\ ready' = [ready EXCEPT !.pc = "result"]
    BY <2>1 DEF ReadyInv
  <2> QED BY <1>5, <2>1, ReadyEnds DEF AwaitReadyResponse
<1>6. CASE AwaitReadyResult
  <2>1. CASE ready.trajectory.state = "succeeded" /\ ready.pc = "result"
             /\ ready' = [ready EXCEPT !.pc = "arrive"]
    BY <2>1 DEF ReadyInv, NotMoving
  <2> DEFINE t == [ready.trajectory EXCEPT !.asked = TRUE]
             left == LeftMoving(t, TRUE)
  <2>2. t \in Trajectories /\ t.asked
    BY DEF ReadyInv, Trajectories
  <2> HIDE DEF t
  <2>3. left \in LeftTrajectories /\ \A x \in left : x.seen => x.asked
    BY <2>2, LeftAreAsked
  <2> HIDE DEF left
  <2>4. CASE ready' = [ready EXCEPT !.pc = "done", !.status = "ERROR",
                         !.trajectory = NoTrajectory, !.adrift = left]
    BY <2>3, <2>4, NothingMovesYet DEF ReadyInv
  <2>5. CASE ready.trajectory.state = "failed" /\ EndReady("ERROR")
    BY <2>5, ReadyEnds DEF NotMoving
  <2> QED BY <1>6, <2>1, <2>4, <2>5 DEF AwaitReadyResult, t, left
<1>7. CASE AwaitArrivalAtPose
  <2>1. ready.pc = "arrive" /\ ready.trajectory.state \in NotMoving
    BY <1>7 DEF AwaitArrivalAtPose, ReadyInv
  <2> QED BY <1>7, <2>1, ReadyEnds, LegIsDone DEF AwaitArrivalAtPose
<1>8. CASE ready' \in Controlled(ready)
  <2>1. ASSUME NEW t \in ready.adrift, ready' = [ready EXCEPT !.adrift = @ \ {t}]
        PROVE  ReadyInv(ready')
    BY <2>1 DEF ReadyInv, LeftTrajectories
  <2>2. ASSUME NEW s \in {"live", "rejected", "succeeded", "failed"},
               ready.trajectory.state \notin NotMoving,
               ready' = [ready EXCEPT !.trajectory.state = s]
        PROVE  ReadyInv(ready')
    <3>1. [ready.trajectory EXCEPT !.state = s] \in Trajectories
      BY DEF ReadyInv, Trajectories, NotMoving
    <3>2. ready' = [ready EXCEPT !.trajectory = [ready.trajectory EXCEPT !.state = s]]
      BY <2>2 DEF ReadyInv
    <3> QED BY <2>2, <3>1, <3>2 DEF ReadyInv
  <2>3. \/ \E t \in ready.adrift : ready' = [ready EXCEPT !.adrift = @ \ {t}]
        \/ /\ ready.trajectory.state \notin NotMoving
           /\ \E s \in {"live", "rejected", "succeeded", "failed"} :
                ready' = [ready EXCEPT !.trajectory.state = s]
    <3>1. CASE ready.trajectory.state = "sent"
      BY <1>8, <3>1 DEF Controlled, NotMoving
    <3>2. CASE ready.trajectory.state = "live"
      BY <1>8, <3>2 DEF Controlled, NotMoving
    <3>3. CASE ready.trajectory.state \notin {"sent", "live"}
      BY <1>8, <3>3 DEF Controlled
    <3> QED BY <3>1, <3>2, <3>3
  <2> QED BY <2>1, <2>2, <2>3
<1> QED
  BY <1>1, <1>2, <1>3, <1>4, <1>5, <1>6, <1>7, <1>8 DEF NextReady, ReadyStep

LEMMA PosesBegin ==
  ASSUME InitPreset, InitReady
  PROVE  PresetInv(preset) /\ ReadyInv(ready)
<1>1. PresetInv(preset)
  BY NothingMovesYet DEF InitPreset, PresetInv, Told
<1>2. << >> \in Seq(Legs)
  OBVIOUS
<1>3. ReadyInv(ready)
  BY <1>2, NothingMovesYet DEF InitReady, ReadyInv
<1> QED BY <1>1, <1>3

(* What the runs check of the poses                                        *)
LEMMA PosesAreRight ==
  ASSUME PresetInv(preset), ReadyInv(ready)
  PROVE  PosesAreMinded
  BY DEF PresetInv, ReadyInv, PosesAreMinded

-----------------------------------------------------------------------------
(* The voice: the speech output *)

SpeechInv == SpeechTypeOK /\ DraftIsWhole

LEMMA SpeechEnds ==
  ASSUME SpeechInv, EndSpeech
  PROVE  SpeechInv' /\ speaker' = "none"
  BY DEF EndSpeech, SpeechInv, SpeechTypeOK, DraftIsWhole, Processes

LEMMA SpeechIsAdmitted ==
  ASSUME SpeechInv, NEW c \in Clients, AdmitSpeech(c)
  PROVE  SpeechInv' /\ speaker = "none" /\ speaker' = c
  BY DEF AdmitSpeech, SpeechInv, SpeechTypeOK, DraftIsWhole

(* A step of the speech output lets go of its speaker at most.             *)
LEMMA SpeechSteps ==
  ASSUME SpeechInv, SpeechStep
  PROVE  SpeechInv' /\ speaker' \in {speaker, "none"}
<1>1. CASE EndSpeech
  BY <1>1, SpeechEnds
<1>2. CASE PlanSpeech /\ ~EndSpeech
  BY <1>2 DEF PlanSpeech, SpeechInv, SpeechTypeOK, DraftIsWhole
<1>3. CASE Spawn /\ ~EndSpeech
  BY <1>3 DEF Spawn, SpeechInv, SpeechTypeOK, DraftIsWhole, Processes
<1>4. CASE Poll /\ ~EndSpeech
  BY <1>4 DEF Poll, SpeechInv, SpeechTypeOK, DraftIsWhole, Processes
<1>5. CASE Exit
  BY <1>5 DEF Exit, SpeechInv, SpeechTypeOK, DraftIsWhole, Processes
<1>6. CASE CancelCallback
  BY <1>6 DEF CancelCallback, SpeechInv, SpeechTypeOK, DraftIsWhole, Processes
<1>7. CASE CancelCommit
  BY <1>7 DEF CancelCommit, SpeechInv, SpeechTypeOK, DraftIsWhole
<1> QED
  BY <1>1, <1>2, <1>3, <1>4, <1>5, <1>6, <1>7 DEF SpeechStep, SpeechThread

-----------------------------------------------------------------------------
(* The voice: its calls, and its loop *)

LEMMA VoiceParts ==
  VoiceInv <=> /\ SpeechInv /\ CallsMatch /\ LoopCalls
               /\ pc \in Speaking \cup Ended
                         \cup {"wait", "record", "transcribe", "parse"}
               /\ call \in [Slots -> {"idle", "start", "response", "result", "done"}]
               /\ wire \subseteq {"say", "oldSay", "do", "oldDo"} /\ given \in BOOLEAN
               /\ task \in Mine \cup {"none"} /\ asked \in BOOLEAN
  BY DEF VoiceInv, VoiceTypeOK, SpeechInv

LEMMA SpeechGoesOn ==
  ASSUME VoiceInv, SpeechInv', speaker' \in {speaker, "none"},
         UNCHANGED <<assistant, calls, stop, taskServer>>
  PROVE  VoiceInv'
<1>1. UNCHANGED <<pc, call, wire, given, task, asked>>
  BY DEF assistant, calls, taskServer
<1> QED
  BY <1>1, VoiceParts DEF VoiceInv, VoiceTypeOK, SpeechInv, CallsMatch, LoopCalls

LEMMA CallSteps ==
  ASSUME VoiceInv, CallStep
  PROVE  VoiceInv'
<1>0. Slots = {"say", "do"}
  BY DEF Slots
<1>1. ASSUME NEW s \in Slots, SendCall(s)
      PROVE  VoiceInv'
  <2>1. UNCHANGED <<pc, given, task, asked, speaker, process, draft, cached, canceling,
                    overtaken, cancelSpeech>>
    BY <1>1 DEF SendCall, taskServer, speech
  <2>2. \/ call' = [call EXCEPT ![s] = "done"] /\ wire' = wire
        \/ call' = [call EXCEPT ![s] = "response"] /\ wire' = wire \cup {s}
    BY <1>1 DEF SendCall, CallEnds
  <2>3. call[s] = "start"
    BY <1>1 DEF SendCall
  <2>4. SpeechTypeOK'
    BY <1>0, <2>1, <2>2, <2>3 DEF VoiceInv, VoiceTypeOK, SpeechTypeOK
  <2>5. VoiceTypeOK'
    BY <1>0, <2>1, <2>2, <2>3, <2>4 DEF VoiceInv, VoiceTypeOK
  <2>6. CallsMatch'
    BY <1>0, <2>1, <2>2, <2>3 DEF VoiceInv, VoiceTypeOK, CallsMatch
  <2>7. LoopCalls' /\ DraftIsWhole' /\ asked' \in BOOLEAN
    BY <1>0, <2>1, <2>2, <2>3 DEF VoiceInv, VoiceTypeOK, LoopCalls, DraftIsWhole
  <2> QED BY <2>5, <2>6, <2>7 DEF VoiceInv
<1>2. ASSUME NEW s \in Slots, GiveUpResponse(s)
      PROVE  VoiceInv'
  <2>1. UNCHANGED <<pc, asked, process, draft, cached, canceling,
                    overtaken, cancelSpeech>>
    BY <1>2 DEF GiveUpResponse, assistant
  <2>2. /\ call[s] = "response" /\ call' = [call EXCEPT ![s] = "done"]
        /\ given' = (given \/ s = "say")
        /\ wire' = IF s \in wire THEN (wire \ {s}) \cup {Old(s)} ELSE wire
    BY <1>2 DEF GiveUpResponse, CallEnds
  <2>3. speaker' = speaker /\ task' = task
    BY <1>2, <2>2 DEF GiveUpResponse, VoiceInv, CallsMatch
  <2>4. Old(s) \in {"oldSay", "oldDo"} /\ (Old(s) = "oldSay" => s = "say")
    BY DEF Old
  <2>5. SpeechTypeOK'
    BY <1>0, <2>1, <2>2, <2>3, <2>4 DEF VoiceInv, VoiceTypeOK, SpeechTypeOK
  <2>6. VoiceTypeOK'
    BY <1>0, <2>1, <2>2, <2>3, <2>4, <2>5 DEF VoiceInv, VoiceTypeOK
  <2>7. CallsMatch'
    BY <1>0, <2>1, <2>2, <2>3, <2>4 DEF VoiceInv, VoiceTypeOK, CallsMatch
  <2>8. LoopCalls' /\ DraftIsWhole' /\ asked' \in BOOLEAN
    BY <1>0, <2>1, <2>2, <2>3, <2>4 DEF VoiceInv, VoiceTypeOK, LoopCalls, DraftIsWhole
  <2> QED BY <2>6, <2>7, <2>8 DEF VoiceInv
<1>3. CASE GiveUpSpeech
  <2>1. UNCHANGED <<pc, wire, task, asked, process, draft, cached, cancelSpeech>>
    BY <1>3 DEF GiveUpSpeech, assistant, taskServer
  <2>2. /\ call["say"] = "result" /\ call' = [call EXCEPT !["say"] = "done"]
        /\ given' = TRUE
        /\ \/ canceling' = "callback" /\ overtaken' = FALSE
           \/ canceling' = canceling /\ overtaken' = overtaken
        /\ speaker' = IF speaker = "assistant" THEN "abandoned" ELSE speaker
    BY <1>3 DEF GiveUpSpeech, CallEnds
  <2>3. VoiceTypeOK'
    BY <1>0, <2>1, <2>2 DEF VoiceInv, VoiceTypeOK, SpeechTypeOK, LoopCalls, Clients
  <2>4. CallsMatch'
    BY <1>0, <2>1, <2>2 DEF VoiceInv, VoiceTypeOK, CallsMatch
  <2>5. LoopCalls' /\ DraftIsWhole' /\ asked' \in BOOLEAN
    BY <1>0, <2>1, <2>2 DEF VoiceInv, VoiceTypeOK, LoopCalls, DraftIsWhole
  <2> QED BY <2>3, <2>4, <2>5 DEF VoiceInv
<1>4. CASE GiveUpTask
  <2>1. UNCHANGED <<pc, wire, given, speaker, process, draft, cached, canceling,
                    overtaken, cancelSpeech>>
    BY <1>4 DEF GiveUpTask, assistant, speech
  <2>2. /\ call["do"] = "result" /\ call' = [call EXCEPT !["do"] = "done"]
        /\ \/ task = "assistant" /\ task' = "abandoned" /\ asked' = TRUE
           \/ task # "assistant" /\ task' = task /\ asked' = asked
    BY <1>4 DEF GiveUpTask, CallEnds
  <2>3. VoiceTypeOK'
    BY <1>0, <2>1, <2>2 DEF VoiceInv, VoiceTypeOK, SpeechTypeOK, LoopCalls, Mine
  <2>4. CallsMatch'
    BY <1>0, <2>1, <2>2 DEF VoiceInv, VoiceTypeOK, CallsMatch
  <2>5. LoopCalls' /\ DraftIsWhole' /\ asked' \in BOOLEAN
    BY <1>0, <2>1, <2>2 DEF VoiceInv, VoiceTypeOK, LoopCalls, DraftIsWhole
  <2> QED BY <2>3, <2>4, <2>5 DEF VoiceInv
<1>5. CASE SpeechDone \/ TaskDone
  <2>1. UNCHANGED <<pc, wire, given, task, asked, speaker, process, draft, cached,
                    canceling, overtaken, cancelSpeech>>
    BY <1>5 DEF SpeechDone, TaskDone, assistant, speech, taskServer
  <2>2. \/ /\ call["say"] = "result" /\ speaker # "assistant"
           /\ call' = [call EXCEPT !["say"] = "done"]
        \/ /\ call["do"] = "result" /\ task # "assistant"
           /\ call' = [call EXCEPT !["do"] = "done"]
    BY <1>5 DEF SpeechDone, TaskDone, CallEnds
  <2> QED
    BY <1>0, <2>1, <2>2
    DEF VoiceInv, VoiceTypeOK, SpeechTypeOK, CallsMatch, LoopCalls, DraftIsWhole
<1> QED
  BY <1>1, <1>2, <1>3, <1>4, <1>5 DEF CallStep, GiveUp

LEMMA ServersStep ==
  ASSUME VoiceInv, ServerStep \/ TaskEnds \/ OtherSpeech
  PROVE  VoiceInv'
<1>0. Slots = {"say", "do"}
  BY DEF Slots
<1>1. ASSUME NEW s \in {"say", "oldSay"}, SpeechRequest(s)
      PROVE  VoiceInv'
  <2>1. UNCHANGED <<pc, given, task, asked>> /\ s \in wire
    BY <1>1 DEF SpeechRequest, assistant, taskServer
  <2>2. CASE Admitted(s) /\ AdmitSpeech(IF s = "say" THEN "assistant" ELSE "abandoned")
    <3>1. SpeechInv' /\ speaker' = IF s = "say" THEN "assistant" ELSE "abandoned"
      BY <2>2, SpeechIsAdmitted, VoiceParts DEF Clients
    <3>2. /\ wire' = wire \ {s}
          /\ call' = IF s = "say" THEN [call EXCEPT !["say"] = "result"] ELSE call
      BY <1>0, <2>2 DEF Admitted
    <3> QED
      BY <1>0, <2>1, <3>1, <3>2
      DEF VoiceInv, VoiceTypeOK, SpeechInv, CallsMatch, LoopCalls
  <2>3. CASE speaker # "none" /\ Refused(s) /\ UNCHANGED speech
    <3>1. UNCHANGED <<speaker, process, draft, cached, canceling, overtaken, cancelSpeech>>
      BY <2>3 DEF speech
    <3>2. /\ wire' = wire \ {s}
          /\ call' = IF s = "say" THEN [call EXCEPT !["say"] = "done"] ELSE call
      BY <1>0, <2>3 DEF Refused
    <3> QED
      BY <1>0, <2>1, <3>1, <3>2
      DEF VoiceInv, VoiceTypeOK, SpeechTypeOK, CallsMatch, LoopCalls, DraftIsWhole
  <2> QED BY <1>1, <2>2, <2>3 DEF SpeechRequest
<1>2. ASSUME NEW s \in {"do", "oldDo"}, TaskRequest(s)
      PROVE  VoiceInv'
  <2>1. /\ UNCHANGED <<pc, given, speaker, process, draft, cached, canceling, overtaken,
                       cancelSpeech>>
        /\ s \in wire /\ wire' = wire \ {s}
    BY <1>2 DEF TaskRequest, assistant, speech, Admitted, Refused
  <2>2. \/ /\ call' = IF s = "do" THEN [call EXCEPT !["do"] = "result"] ELSE call
           /\ task' = IF s = "do" THEN "assistant" ELSE "unseen"
           /\ asked' = FALSE /\ task = "none"
        \/ /\ call' = IF s = "do" THEN [call EXCEPT !["do"] = "done"] ELSE call
           /\ task' = task /\ asked' = asked
    BY <1>0, <1>2 DEF TaskRequest, Admitted, Refused
  <2>3. VoiceTypeOK'
    BY <1>0, <2>1, <2>2 DEF VoiceInv, VoiceTypeOK, SpeechTypeOK, LoopCalls, Mine
  <2>4. CallsMatch'
    BY <1>0, <2>1, <2>2 DEF VoiceInv, VoiceTypeOK, CallsMatch
  <2>5. s = "do" => call["do"] = "response" /\ pc = "accept"
    BY <1>0, <2>1 DEF VoiceInv, CallsMatch, LoopCalls
  <2>6. LoopCalls'
    BY <1>0, <2>1, <2>2, <2>5 DEF VoiceInv, VoiceTypeOK, LoopCalls
  <2>7. DraftIsWhole' /\ asked' \in BOOLEAN
    BY <2>1, <2>2 DEF VoiceInv, DraftIsWhole
  <2> QED BY <2>3, <2>4, <2>6, <2>7 DEF VoiceInv
<1>3. CASE TaskEnds
  <2>1. /\ UNCHANGED <<pc, call, wire, given, speaker, process, draft, cached, canceling,
                       overtaken, cancelSpeech>>
        /\ task' = "none" /\ asked' = FALSE
    BY <1>3 DEF TaskEnds, assistant, calls, speech
  <2>2. VoiceTypeOK'
    BY <2>1 DEF VoiceInv, VoiceTypeOK, SpeechTypeOK, LoopCalls
  <2>3. CallsMatch'
    BY <2>1 DEF VoiceInv, VoiceTypeOK, CallsMatch
  <2>4. LoopCalls' /\ DraftIsWhole' /\ asked' \in BOOLEAN
    BY <2>1 DEF VoiceInv, VoiceTypeOK, LoopCalls, DraftIsWhole
  <2> QED BY <2>2, <2>3, <2>4 DEF VoiceInv
<1>4. CASE OtherSpeech
  <2>1. UNCHANGED <<pc, call, wire, given, task, asked>>
    BY <1>4 DEF OtherSpeech, assistant, calls, taskServer
  <2>2. CASE AdmitSpeech("other")
    <3>1. SpeechInv' /\ speaker' = "other"
      BY <2>2, SpeechIsAdmitted, VoiceParts DEF Clients
    <3> QED
      BY <2>1, <3>1
      DEF VoiceInv, VoiceTypeOK, SpeechInv, CallsMatch, LoopCalls
  <2>3. CASE AskSpeech("other")
    <3>1. SpeechInv' /\ speaker' = speaker
      BY <2>3, VoiceParts DEF AskSpeech, SpeechInv, SpeechTypeOK, DraftIsWhole
    <3> QED
      BY <2>1, <3>1
      DEF VoiceInv, VoiceTypeOK, SpeechInv, CallsMatch, LoopCalls
  <2> QED BY <1>4, <2>2, <2>3 DEF OtherSpeech
<1> QED
  BY <1>1, <1>2, <1>3, <1>4 DEF ServerStep

LEMMA LoopSteps ==
  ASSUME VoiceInv, Wake \/ LoopStep \/ LoopDies \/ Stop
  PROVE  VoiceInv'
<1>0. Slots = {"say", "do"} /\ Ended = {"dead", "stopped"}
      /\ Speaking = {"ack", "cue", "sorry", "accept", "prompt", "reason"}
  BY DEF Slots, Ended, Speaking
<1>1. UNCHANGED <<wire, task, speaker, process, draft, cached, canceling, overtaken,
                  cancelSpeech>>
  BY DEF Wake, LoopStep, LoopDies, Stop, Acknowledged, Cued, Recorded, Transcribed,
         Parsed, Apologized, Joined, Prompted, Stopped, assistant, calls, taskServer,
         speech
<1>2. CASE Stop
  <2>1. UNCHANGED <<pc, call, given>> /\ (asked => asked') /\ asked' \in BOOLEAN
    BY <1>2 DEF Stop, assistant, calls, VoiceInv
  <2> QED
    BY <1>1, <2>1
    DEF VoiceInv, VoiceTypeOK, SpeechTypeOK, CallsMatch, LoopCalls, DraftIsWhole
<1>3. CASE Wake
  <2>1. /\ pc = "wait" /\ pc' = "ack" /\ call' = [call EXCEPT !["say"] = "start"]
        /\ given' = ("oldSay" \in wire \/ speaker = "abandoned") /\ asked' = asked
    BY <1>3 DEF Wake, Say, Goto, taskServer
  <2> QED
    BY <1>0, <1>1, <2>1
    DEF VoiceInv, VoiceTypeOK, SpeechTypeOK, CallsMatch, LoopCalls, DraftIsWhole
<1>4. ASSUME LoopStep \/ LoopDies
      PROVE  VoiceInv'
  <2>1. given' = given /\ asked' = asked
    BY <1>4 DEF LoopStep, LoopDies, Acknowledged, Cued, Recorded, Transcribed, Parsed,
                Apologized, Joined, Prompted, Stopped, taskServer, calls
  <2>2. \/ /\ pc \in {"wait", "record", "transcribe"} /\ call' = call
           /\ pc' \in Ended \cup {"transcribe", "parse"}
        \/ /\ pc \in {"transcribe", "parse"} /\ pc' = "sorry"
           /\ call' = [call EXCEPT !["say"] = "start"]
        \/ /\ pc \in {"ack", "prompt"} /\ pc' \in {"cue", "reason"}
           /\ call["say"] = "done" /\ call' = [call EXCEPT !["say"] = "start"]
        \/ /\ pc \in {"cue", "sorry", "reason"} /\ call["say"] = "done"
           /\ pc' \in Ended \cup {"record", "wait"}
           /\ call' = [call EXCEPT !["say"] = "idle"]
        \/ /\ pc = "parse" /\ pc' = "accept" /\ call' = [s \in Slots |-> "start"]
        \/ /\ pc = "accept" /\ \A s \in Slots : call[s] = "done"
           /\ \/ /\ pc' = "prompt"
                 /\ call' = [call EXCEPT !["say"] = "start", !["do"] = "idle"]
              \/ pc' = "wait" /\ call' = [s \in Slots |-> "idle"]
    BY <1>0, <1>4
    DEF LoopStep, LoopDies, Acknowledged, Cued, Recorded, Transcribed, Parsed,
        Apologized, Joined, Prompted, Stopped, Say, Goto, Listen, calls
  <2> QED
    BY <1>0, <1>1, <2>1, <2>2
    DEF VoiceInv, VoiceTypeOK, SpeechTypeOK, CallsMatch, LoopCalls, DraftIsWhole
<1> QED BY <1>2, <1>3, <1>4

LEMMA VoiceNext ==
  ASSUME VoiceInv, NextVoice \/ UNCHANGED voice
  PROVE  VoiceInv'
<1>1. CASE UNCHANGED voice
  BY <1>1
  DEF voice, assistant, calls, taskServer, speech, VoiceInv, VoiceTypeOK, SpeechTypeOK,
      CallsMatch, LoopCalls, DraftIsWhole
<1>2. CASE SpeechStep /\ UNCHANGED <<assistant, calls, stop, taskServer>>
  BY <1>2, SpeechSteps, SpeechGoesOn, VoiceParts
<1> QED
  BY <1>1, <1>2, CallSteps, ServersStep, LoopSteps DEF NextVoice

LEMMA VoiceBegins ==
  ASSUME InitVoice
  PROVE  VoiceInv
  BY DEF InitVoice, InitSpeech, VoiceInv, VoiceTypeOK, SpeechTypeOK, CallsMatch,
         LoopCalls, DraftIsWhole, Slots, Speaking, Ended, Mine, Clients, Processes

(* What the runs check of the voice                                        *)
LEMMA VoiceIsRight ==
  ASSUME VoiceInv
  PROVE  RecordsInSilence /\ TaskIsMinded /\ CacheIsWhole
  BY DEF VoiceInv, VoiceTypeOK, SpeechTypeOK, CallsMatch, LoopCalls, RecordsInSilence,
         TaskIsMinded, CacheIsWhole, Slots, Speaking

-----------------------------------------------------------------------------
(* What is seen: the least and the greatest of some numbers *)

LEMMA LeastOfSome ==
  ASSUME NEW S \in SUBSET Nat, S # {}
  PROVE  Min(S) \in S /\ \A x \in S : Min(S) <= x
<1> DEFINE R == OpToRel(<, Nat)
<1>1. IsWellFoundedOn(R, Nat)
  BY NatLessThanWellFounded
<1> HIDE DEF R
<1>2. PICK m \in S : \A y \in S : ~ (<<y, m>> \in R)
  BY <1>1, WFMin
<1>3. \A y \in S : m <= y
  <2> SUFFICES ASSUME NEW y \in S, ~(m <= y)
               PROVE  FALSE
    OBVIOUS
  <2>1. y < m /\ y \in Nat /\ m \in Nat
    OBVIOUS
  <2>2. <<y, m>> \in R
    BY <2>1 DEF R, OpToRel
  <2> QED BY <2>2, <1>2
<1> QED BY <1>3 DEF Min

(* The greatest of a bounded set is what is farthest below the least bound.*)
LEMMA GreatestOfSome ==
  ASSUME NEW S \in SUBSET Nat, S # {}, NEW n \in Nat, \A x \in S : x <= n
  PROVE  Max(S) \in S /\ \A x \in S : x <= Max(S)
<1> DEFINE T == {b \in Nat : \A x \in S : x <= b}
<1>1. T \in SUBSET Nat /\ n \in T
  OBVIOUS
<1>2. Min(T) \in T /\ \A b \in T : Min(T) <= b
  BY <1>1, LeastOfSome
<1>3. PICK m \in Nat : m = Min(T) /\ (\A x \in S : x <= m) /\ \A b \in T : m <= b
  BY <1>2
<1>4. m \in S
  <2> SUFFICES ASSUME m \notin S
               PROVE  FALSE
    OBVIOUS
  <2>1. \A x \in S : x < m /\ x \in Nat
    BY <1>3
  <2>2. m - 1 \in Nat /\ \A x \in S : x <= m - 1
    <3>1. PICK x \in S : x < m /\ x \in Nat
      BY <2>1
    <3> QED BY <2>1, <3>1
  <2>3. m - 1 \in T
    BY <2>2
  <2> HIDE DEF T
  <2> QED BY <1>3, <2>3
<1>5. \A y \in S : m >= y
  BY <1>3
<1> QED
  BY <1>4, <1>5 DEF Max

LEMMA OlderIsBounded ==
  ASSUME NEW a \in Nat
  PROVE  Older(a) \in Nat /\ Older(a) <= a + 1 /\ Older(a) <= Forgotten
<1>1. Forgotten \in Nat
  BY DetectionAssumption DEF Forgotten
<1>2. Min({a + 1, Forgotten}) \in Nat /\ \A x \in {a + 1, Forgotten} : Min({a + 1, Forgotten}) <= x
  BY <1>1, LeastOfSome
<1> QED BY <1>2 DEF Older

-----------------------------------------------------------------------------
(* What is seen: detection *)

LEMMA DetectionEnds ==
  ASSUME DetectionInv, NEW how, EndDetection(how),
         how = "forgotten" => spent + MaxSensorAge + SyncTolerance > TfHistory
  PROVE  DetectionInv'
  BY DEF EndDetection, DetectionInv, NoFrameIsForgotten

LEMMA DetectionProceeds ==
  ASSUME DetectionInv, detect # "idle", NEW next \in {"sam2", "gpd"}, Proceed(next)
  PROVE  DetectionInv'
  BY DEF Proceed, DetectionInv, NoFrameIsForgotten

LEMMA FramesAreOfTheMoment ==
  ASSUME DetectionInv, Max(Ages) - Min(Ages) <= SyncTolerance,
         Min(Ages) <= MaxSensorAge, NEW a \in Ages
  PROVE  a \in Nat /\ a <= MaxSensorAge + SyncTolerance
<1>1. MaxSensorAge \in Nat /\ SyncTolerance \in Nat /\ Forgotten \in Nat
  BY DetectionAssumption DEF Forgotten
<1>2. Ages \in SUBSET Nat /\ Ages # {} /\ \A x \in Ages : x <= MaxSensorAge + 1 + Forgotten
  BY DEF DetectionInv, Ages
<1>3. MaxSensorAge + 1 + Forgotten \in Nat
  BY <1>1
<1>4. Max(Ages) \in Nat /\ a <= Max(Ages) /\ Min(Ages) \in Nat /\ a \in Nat
  BY <1>2, <1>3, LeastOfSome, GreatestOfSome
<1> QED BY <1>1, <1>4

LEMMA DetectionNext ==
  ASSUME DetectionInv, NextDetection \/ UNCHANGED detection
  PROVE  DetectionInv'
<1>0. /\ MaxSensorAge \in Nat /\ SyncTolerance \in Nat /\ Forgotten \in Nat
      /\ TfHistory \in Nat /\ SensorTimeout \in Nat
  BY DetectionAssumption DEF Forgotten
<1>1. CASE UNCHANGED detection
  BY <1>1 DEF detection, DetectionInv, NoFrameIsForgotten
<1>2. CASE Detect
  BY <1>2 DEF Detect, DetectionInv, NoFrameIsForgotten
<1>3. CASE Snapshot
  <2>1. CASE EndDetection("canceled") \/ EndDetection("timeout")
    BY <2>1, DetectionEnds
  <2>2. CASE ~(EndDetection("canceled") \/ EndDetection("timeout"))
    <3>1. /\ detect = "snapshot" /\ detect' = "vlm" /\ spent' = 0
          /\ UNCHANGED <<backend, since, frames, detected>>
          /\ Max(Ages) - Min(Ages) <= SyncTolerance /\ Min(Ages) <= MaxSensorAge
          /\ picked' \in Ages
      BY <1>3, <2>2 DEF Snapshot
    <3>2. picked' \in Nat /\ picked' <= MaxSensorAge + SyncTolerance
      BY <3>1, FramesAreOfTheMoment
    <3>3. picked' <= spent' + MaxSensorAge + SyncTolerance /\ spent' \in Nat
      BY <1>0, <3>1, <3>2
    <3> QED BY <3>1, <3>2, <3>3 DEF DetectionInv, NoFrameIsForgotten
  <2> QED BY <2>1, <2>2
<1>4. CASE Ground
  <2>1. CASE EndDetection("notFound") \/ EndDetection("backend") \/ EndDetection("canceled")
    BY <2>1, DetectionEnds
  <2>2. CASE /\ detect = "vlm" /\ detect' = "transform"
             /\ UNCHANGED <<backend, since, spent, frames, picked, detected>>
    BY <2>2 DEF DetectionInv, NoFrameIsForgotten
  <2> QED BY <1>4, <2>1, <2>2 DEF Ground
<1>5. CASE LookupTransform
  <2>1. detect = "transform" /\ picked <= spent + MaxSensorAge + SyncTolerance
        /\ picked \in Nat /\ spent \in Nat
    BY <1>5 DEF LookupTransform, DetectionInv
  <2>2. picked > TfHistory => spent + MaxSensorAge + SyncTolerance > TfHistory
    BY <1>0, <2>1
  <2>3. \/ \E how \in {"found", "unavailable", "notFound"} : EndDetection(how)
        \/ picked > TfHistory /\ EndDetection("forgotten")
        \/ Proceed("sam2")
    BY <1>5 DEF LookupTransform
  <2>4. \A how \in {"found", "unavailable", "notFound"} :
          EndDetection(how) => DetectionInv'
    BY DetectionEnds
  <2> QED BY <2>1, <2>2, <2>3, <2>4, DetectionEnds, DetectionProceeds
<1>6. CASE Segment \/ PlanGrasp
  <2>1. /\ detect # "idle"
        /\ \/ \E how \in {"found", "notFound", "backend", "canceled"} : EndDetection(how)
           \/ Proceed("gpd")
    BY <1>6 DEF Segment, PlanGrasp
  <2>2. \A how \in {"found", "notFound", "backend", "canceled"} :
          EndDetection(how) => DetectionInv'
    BY DetectionEnds
  <2> QED BY <2>1, <2>2, DetectionProceeds
<1>7. CASE SightTick
  <2>1. /\ detect # "idle" /\ spent < Deadline /\ spent' = spent + 1
        /\ since' = Min({since + 1, SensorTimeout})
        /\ frames' = [s \in Streams |-> {Older(a) : a \in frames[s]}]
        /\ picked' = IF detect = "snapshot" THEN picked ELSE Older(picked)
        /\ UNCHANGED <<detect, backend, detected>>
    BY <1>7 DEF SightTick
  <2>2. detect = "transform" => Deadline = 0
    BY DEF Deadline
  <2>3. detect # "transform" /\ detected # "forgotten" /\ spent \in Nat /\ picked \in Nat
    BY <2>1, <2>2 DEF DetectionInv
  <2>4. since' \in Nat
    <3>1. since + 1 \in Nat
      BY DEF DetectionInv
    <3>2. {since + 1, SensorTimeout} \in SUBSET Nat /\ {since + 1, SensorTimeout} # {}
      BY <1>0, <3>1
    <3> QED BY <2>1, <3>2, LeastOfSome
  <2>5. /\ picked' \in Nat
        /\ detect = "vlm" => picked' <= spent' + MaxSensorAge + SyncTolerance
    <3>1. Older(picked) \in Nat /\ Older(picked) <= picked + 1
      BY <2>3, OlderIsBounded
    <3>2. detect = "vlm" => picked <= spent + MaxSensorAge + SyncTolerance
      BY DEF DetectionInv
    <3> QED BY <1>0, <2>1, <2>3, <3>1, <3>2
  <2>6. /\ frames' \in [Streams -> SUBSET Nat]
        /\ \A s \in Streams : \A a \in frames'[s] : a <= MaxSensorAge + 1 + Forgotten
    <3>1. ASSUME NEW s \in Streams
          PROVE  /\ {Older(a) : a \in frames[s]} \in SUBSET Nat
                 /\ \A b \in {Older(a) : a \in frames[s]} : b <= MaxSensorAge + 1 + Forgotten
      <4>1. \A a \in frames[s] : Older(a) \in Nat /\ Older(a) <= Forgotten
        BY OlderIsBounded DEF DetectionInv
      <4>2. \A b \in Nat : b <= Forgotten => b <= MaxSensorAge + 1 + Forgotten
        BY <1>0
      <4> QED BY <4>1, <4>2
    <3> QED BY <2>1, <3>1
  <2> QED
    BY <2>1, <2>3, <2>4, <2>5, <2>6 DEF DetectionInv, NoFrameIsForgotten
<1>8. ASSUME NEW s \in Streams, StoreFrame(s)
      PROVE  DetectionInv'
  <2>1. PICK a \in 0 .. MaxSensorAge + 1 : frames' = [frames EXCEPT ![s] = {a}]
    BY <1>8 DEF StoreFrame
  <2>2. UNCHANGED <<detect, backend, since, spent, picked, detected>>
    BY <1>8 DEF StoreFrame
  <2>3. a \in Nat /\ a <= MaxSensorAge + 1 + Forgotten
    BY <1>0
  <2>4. /\ frames' \in [Streams -> SUBSET Nat]
        /\ \A t \in Streams : \A b \in frames'[t] : b <= MaxSensorAge + 1 + Forgotten
    BY <2>1, <2>3 DEF DetectionInv
  <2> QED BY <2>2, <2>4 DEF DetectionInv, NoFrameIsForgotten
<1> QED
  BY <1>1, <1>2, <1>3, <1>4, <1>5, <1>6, <1>7, <1>8 DEF NextDetection, DetectionStep

-----------------------------------------------------------------------------
(* What is seen: the grasp *)

LEMMA VerificationEnds ==
  ASSUME VerificationInv, NEW how, EndVerification(how),
         how = "grasped" => evidence.asked
  PROVE  VerificationInv'
  BY DEF EndVerification, VerificationInv, GraspIsSeen

LEMMA VerificationNext ==
  ASSUME VerificationInv, NextVerification \/ UNCHANGED verification
  PROVE  VerificationInv'
<1>0. NoImage \in Images /\ ~NoImage.new
      /\ \A i \in Images : i \in [hand : BOOLEAN, new : BOOLEAN, there : BOOLEAN]
  BY DEF NoImage, Images
<1>1. CASE UNCHANGED verification
  BY <1>1 DEF verification, VerificationInv, GraspIsSeen
<1>2. CASE Hand
  BY <1>2 DEF Hand, VerificationInv, GraspIsSeen
<1>3. CASE Verify
  <2>1. /\ verify' = "image" /\ evidence' = [asked |-> inHand, seen |-> FALSE]
        /\ image' = [i \in {"flight", "last"} |-> [image[i] EXCEPT !.new = FALSE]]
        /\ verified' = "none" /\ inHand' = inHand
    BY <1>3 DEF Verify, VerificationInv
  <2>2. \A i \in {"flight", "last"} : image'[i] \in Images /\ ~image'[i].new
    BY <2>1 DEF VerificationInv, Images
  <2>3. image' \in [{"flight", "last"} -> Images]
    BY <2>1, <2>2
  <2> QED BY <2>1, <2>2, <2>3 DEF VerificationInv, GraspIsSeen
<1>4. CASE TakeImage
  <2> DEFINE shot == [hand |-> inHand, new |-> TRUE, there |-> TRUE]
  <2>1. image' = [image EXCEPT !["flight"] = shot]
        /\ UNCHANGED <<verify, inHand, evidence, verified>>
    BY <1>4 DEF TakeImage
  <2>2. shot \in Images /\ shot.hand = inHand
    BY DEF Images, VerificationInv
  <2> HIDE DEF shot
  <2> QED BY <2>1, <2>2 DEF VerificationInv, GraspIsSeen
<1>5. CASE _on_image
  <2>1. image' = [flight |-> NoImage, last |-> image["flight"]]
        /\ UNCHANGED <<verify, inHand, evidence, verified>>
    BY <1>5 DEF _on_image
  <2>2. /\ image' \in [{"flight", "last"} -> Images]
        /\ image'["flight"] = NoImage /\ image'["last"] = image["flight"]
    BY <1>0, <2>1 DEF VerificationInv
  <2> QED BY <1>0, <2>1, <2>2 DEF VerificationInv, GraspIsSeen
<1>6. CASE FreshImage
  <2>1. CASE EndVerification("canceled") \/ EndVerification("timeout")
    BY <2>1, VerificationEnds
  <2>2. CASE /\ verify = "image" /\ image["last"].new /\ verify' = "vlm"
             /\ evidence' = [evidence EXCEPT !.seen = image["last"].hand]
             /\ UNCHANGED <<inHand, image, verified>>
    <3>1. image["last"].hand = inHand /\ evidence.asked = inHand /\ inHand \in BOOLEAN
          /\ verified # "grasped"
      BY <2>2 DEF VerificationInv
    <3>2. evidence' \in [asked : BOOLEAN, seen : BOOLEAN] /\ evidence'.asked = inHand
          /\ evidence'.seen = inHand
      BY <2>2, <3>1 DEF VerificationInv
    <3> QED BY <2>2, <3>1, <3>2 DEF VerificationInv, GraspIsSeen
  <2> QED BY <1>6, <2>1, <2>2 DEF FreshImage
<1>7. CASE Judge
  <2>1. verify = "vlm" /\ (evidence.seen => evidence.asked)
    BY <1>7 DEF Judge, VerificationInv
  <2>2. \/ evidence.seen /\ EndVerification("grasped")
        \/ \E how \in {"notFound", "backend"} : EndVerification(how)
    BY <1>7 DEF Judge
  <2>3. \A how \in {"notFound", "backend"} : EndVerification(how) => VerificationInv'
    BY VerificationEnds
  <2> QED BY <2>1, <2>2, <2>3, VerificationEnds
<1> QED
  BY <1>1, <1>2, <1>3, <1>4, <1>5, <1>6, <1>7 DEF NextVerification

LEMMA SightNext ==
  ASSUME SightInv, NextDetection \/ NextVerification \/ UNCHANGED sight
  PROVE  SightInv'
<1>1. NextDetection => UNCHANGED verification
  BY DEF NextDetection, DetectionStep, Detect, Snapshot, Ground, LookupTransform, Segment,
         PlanGrasp, SightTick, StoreFrame, EndDetection, Proceed
<1>2. NextVerification => UNCHANGED detection
  BY DEF NextVerification, Hand, Verify, TakeImage, _on_image, FreshImage, Judge,
         EndVerification
<1> QED
  BY <1>1, <1>2, DetectionNext, VerificationNext DEF SightInv, sight

LEMMA SightBegins ==
  ASSUME InitSight
  PROVE  SightInv
<1>1. DetectionInv
  BY DEF InitSight, DetectionInv, NoFrameIsForgotten
<1>2. VerificationInv
  <2>1. NoImage \in Images
    BY DEF NoImage, Images
  <2>2. image \in [{"flight", "last"} -> Images]
    BY <2>1 DEF InitSight
  <2> QED BY <2>2 DEF InitSight, VerificationInv, GraspIsSeen
<1> QED BY <1>1, <1>2 DEF SightInv

-----------------------------------------------------------------------------
(* The search for a person: the coordinator *)

Stages == Moves \cup {"idle", "start", "retreat", "settle", "view", "select", "failed"}
Calls == {"none", "response", "result", "drainResponse", "drainResult", "held"}
ChildStates == {"none", "sent", "rejected", "live"} \cup Terminal

(* What the invariant says of the coordinator and its child                *)
CoordinatorTypes ==
    /\ stage \in Stages /\ turn \in 1 .. Turns /\ pan \in 1 .. Pans
    /\ childCall \in Calls /\ child \in ChildStates /\ candidates \subseteq Distances
    /\ cancelRequested \in BOOLEAN /\ childAsked \in BOOLEAN
    /\ command \in {"zero", "back"}
PerceptionTypes ==
    /\ latest \in [Keys -> SUBSET Frame] /\ camera \in [Keys -> SUBSET Frame]
    /\ view \in {"idle", "snapshot", "detect"}
CoordinatorInv == CoordinatorTypes /\ OneChild /\ EveryViewTaken
PerceptionInv ==
    PerceptionTypes /\ ViewStandsStill /\ ViewIsFresh /\ \A k \in Keys : InOrder(k)

LEMMA SearchParts ==
  /\ SearchInv <=> CoordinatorInv /\ PerceptionInv
  /\ SearchInv' <=> CoordinatorInv' /\ PerceptionInv'
BY DEF SearchInv, SearchTypes, TypeOK, CoordinatorInv, CoordinatorTypes, PerceptionInv,
       PerceptionTypes, Stages, Calls, ChildStates

(* Where nobody looks, or the coordinator still waits for the view, its    *)
(* steps do not disturb what is seen.                                      *)
LEMMA PerceptionRests ==
  ASSUME PerceptionInv, UNCHANGED perception,
         view # "idle" => stage' = "view" /\ child' = "live"
  PROVE  PerceptionInv'
<1>1. UNCHANGED <<view, latest, camera>>
  BY DEF perception
<1> QED
  BY <1>1
  DEF PerceptionInv, PerceptionTypes, ViewStandsStill, ViewIsFresh, InOrder, Fresh

LEMMA CoordinatorRests ==
  ASSUME CoordinatorInv, UNCHANGED <<coordinator, children>>
  PROVE  CoordinatorInv'
  BY DEF coordinator, children, CoordinatorInv, CoordinatorTypes, OneChild,
         EveryViewTaken, Calling

(* A failure is noted when no child runs any more.                         *)
LEMMA FailureIsNoted ==
  ASSUME SearchInv, NEW reason, Raise(reason), child' = child,
         child \notin {"sent", "live"}, childAsked' \in BOOLEAN,
         UNCHANGED <<turn, pan, candidates, cancelRequested>>,
         command' = command \/ command' = "zero", stage = "retreat" => command' = "zero",
         reason = "notFound" => candidates = {} /\ turn = Turns /\ pan = Pans,
         UNCHANGED perception
  PROVE  SearchInv'
<1>1. why' = reason /\ stage' = "failed" /\ childCall' = "none"
  BY DEF Raise
<1>2. CoordinatorInv /\ PerceptionInv
  BY SearchParts
<1>3. CoordinatorTypes'
  BY <1>1, <1>2 DEF CoordinatorInv, CoordinatorTypes, Stages, Calls
<1>4. OneChild'
  BY <1>1, <1>2 DEF CoordinatorInv, OneChild, CoordinatorTypes, Calling
<1>5. EveryViewTaken'
  BY <1>1, <1>2 DEF CoordinatorInv, EveryViewTaken
<1>6. PerceptionInv'
  BY <1>2, PerceptionRests DEF PerceptionInv, ViewStandsStill
<1> QED BY <1>3, <1>4, <1>5, <1>6, SearchParts DEF CoordinatorInv

LEMMA GoalEnds ==
  ASSUME SearchInv, NEW status, NEW distance, EndGoal(status, distance),
         stage \in {"start", "select", "failed"}, UNCHANGED <<command, child, childAsked>>,
         UNCHANGED perception
  PROVE  SearchInv'
<1>1. /\ stage' = "idle" /\ childCall' = "none" /\ cancelRequested' = FALSE
      /\ why' = "none" /\ UNCHANGED <<turn, pan, candidates>>
  BY DEF EndGoal
<1>2. CoordinatorInv /\ PerceptionInv
  BY SearchParts
<1>3. CoordinatorTypes'
  BY <1>1, <1>2 DEF CoordinatorInv, CoordinatorTypes, Stages, Calls
<1>4. child \notin {"sent", "live"} /\ command = "zero"
  BY <1>2 DEF CoordinatorInv, OneChild, Calling, Moves
<1>5. OneChild' /\ EveryViewTaken'
  BY <1>1, <1>4 DEF OneChild, EveryViewTaken
<1>6. PerceptionInv'
  BY <1>2, <1>4, PerceptionRests DEF PerceptionInv, ViewStandsStill
<1> QED BY <1>2, <1>3, <1>5, <1>6, SearchParts DEF CoordinatorInv

LEMMA GoalSteps ==
  ASSUME SearchInv, Goal \/ CancelGoal \/ Start \/ Retreat \/ Settle \/ Select \/ Fail
  PROVE  SearchInv'
<1>0. CoordinatorInv /\ PerceptionInv
  BY SearchParts
<1>1. /\ UNCHANGED <<child, childAsked, perception>> /\ childAsked' \in BOOLEAN
      /\ ~CancelGoal =>
           /\ stage \in {"idle", "start", "retreat", "settle", "select", "failed"}
           /\ child \notin {"sent", "live"} /\ childCall = "none"
  <2>1. UNCHANGED <<child, childAsked, perception>>
    BY DEF Goal, CancelGoal, Start, Retreat, Settle, Select, Fail, children
  <2>2. ~CancelGoal =>
          stage \in {"idle", "start", "retreat", "settle", "select", "failed"}
    BY DEF Goal, Start, Retreat, Settle, Select, Fail
  <2> QED
    BY <1>0, <2>1, <2>2 DEF CoordinatorInv, CoordinatorTypes, OneChild, Calling, Moves
<1>2. view # "idle" => stage = "view" /\ child = "live"
  BY <1>0 DEF PerceptionInv, ViewStandsStill
<1>3. CASE Goal
  <2>1. /\ stage = "idle" /\ stage' = "start" /\ turn' = 1 /\ pan' = 1 /\ candidates' = {}
        /\ UNCHANGED <<cancelRequested, why, command, childCall>>
    BY <1>3 DEF Goal, children
  <2>2. CoordinatorTypes'
    BY <1>0, <1>1, <2>1, SearchAssumption DEF CoordinatorInv, CoordinatorTypes, Stages
  <2>3. OneChild' /\ EveryViewTaken'
    BY <1>0, <1>1, <2>1 DEF CoordinatorInv, OneChild, EveryViewTaken, Goal, CancelGoal
  <2> QED
    BY <1>0, <1>1, <1>2, <2>1, <2>2, <2>3, PerceptionRests, SearchParts
    DEF CoordinatorInv
<1>4. CASE CancelGoal
  <2>1. /\ cancelRequested' = TRUE
        /\ UNCHANGED <<stage, turn, pan, why, candidates, command, childCall>>
    BY <1>4 DEF CancelGoal, children
  <2>2. CoordinatorInv'
    BY <1>0, <1>1, <2>1
    DEF CoordinatorInv, CoordinatorTypes, OneChild, EveryViewTaken, Calling
  <2> QED BY <1>0, <1>1, <1>2, <2>1, <2>2, PerceptionRests, SearchParts
<1>5. ASSUME ~CancelGoal, NEW next \in {"retreat", "spin", "view"}, stage' = next,
             UNCHANGED <<turn, pan, candidates, cancelRequested, why, childCall>>,
             command' \in {"zero", "back"}, command' = "zero" \/ next = "retreat",
             stage \in {"start", "retreat", "settle"}
      PROVE  SearchInv'
  <2>1. CoordinatorTypes'
    BY <1>0, <1>1, <1>5 DEF CoordinatorInv, CoordinatorTypes, Stages, Moves
  <2>2. OneChild'
    BY <1>0, <1>1, <1>5 DEF CoordinatorInv, OneChild, Calling
  <2>3. EveryViewTaken'
    BY <1>0, <1>5 DEF CoordinatorInv, EveryViewTaken
  <2> QED
    BY <1>0, <1>1, <1>2, <1>5, <2>1, <2>2, <2>3, PerceptionRests, SearchParts
    DEF CoordinatorInv
<1>6. ~CancelGoal => (command = "zero" \/ stage = "retreat") /\ command \in {"zero", "back"}
  BY <1>0 DEF CoordinatorInv, OneChild, CoordinatorTypes
<1>7. CASE Start /\ ~CancelGoal
  <2>1. CASE Raise("canceled")
    BY <1>0, <1>1, <1>7, <2>1, FailureIsNoted DEF Start, Raise, EndGoal
  <2>2. CASE EndGoal("dryRun", 0) /\ UNCHANGED command
    BY <1>1, <1>7, <2>2, GoalEnds DEF Start
  <2>3. CASE ~(EndGoal("dryRun", 0) /\ UNCHANGED command) /\ ~Raise("canceled")
    <3>1. /\ stage = "start" /\ stage' = "retreat"
          /\ UNCHANGED <<turn, pan, candidates, cancelRequested, why, command, childCall>>
      BY <1>7, <2>3 DEF Start
    <3> QED BY <1>5, <1>6, <1>7, <3>1
  <2> QED BY <2>1, <2>2, <2>3
<1>8. CASE Retreat /\ ~CancelGoal
  <2>1. stage = "retreat" /\ UNCHANGED <<turn, pan, candidates, cancelRequested>>
    BY <1>8 DEF Retreat
  <2>2. CASE Raise("canceled") /\ command' = "zero"
    BY <1>1, <1>8, <2>1, <2>2, FailureIsNoted
  <2>3. \/ command' = "back" /\ stage' = "retreat" /\ UNCHANGED <<why, childCall>>
        \/ Raise("canceled") /\ command' = "zero"
        \/ command' = "zero" /\ stage' = "spin" /\ UNCHANGED <<why, childCall>>
    BY <1>8 DEF Retreat
  <2> QED BY <1>5, <1>8, <2>1, <2>2, <2>3
<1>9. CASE Settle /\ ~CancelGoal
  <2>1. stage = "settle" /\ UNCHANGED <<turn, pan, candidates, cancelRequested, command>>
    BY <1>9 DEF Settle
  <2>2. CASE Raise("canceled")
    BY <1>1, <1>9, <2>1, <2>2, FailureIsNoted
  <2>3. Raise("canceled") \/ (stage' = "view" /\ UNCHANGED <<why, childCall>>)
    BY <1>9 DEF Settle
  <2> QED BY <1>5, <1>6, <1>9, <2>1, <2>2, <2>3
<1>10. CASE Select /\ ~CancelGoal
  <2>1. /\ stage = "select" /\ command' = command
        /\ \/ \E reason \in {"notFound", "canceled"} :
                /\ Raise(reason) /\ (reason = "notFound" => candidates = {})
                /\ UNCHANGED <<turn, pan, candidates, cancelRequested>>
           \/ EndGoal("succeeded", Min(candidates))
    BY <1>10 DEF Select
  <2>2. turn = Turns /\ pan = Pans
    BY <1>0, <2>1 DEF CoordinatorInv, EveryViewTaken
  <2>3. CASE EndGoal("succeeded", Min(candidates))
    BY <1>1, <2>1, <2>3, GoalEnds
  <2>4. ASSUME NEW reason \in {"notFound", "canceled"}, Raise(reason),
               reason = "notFound" => candidates = {},
               UNCHANGED <<turn, pan, candidates, cancelRequested>>
        PROVE  SearchInv'
    BY <1>1, <1>10, <2>1, <2>2, <2>4, FailureIsNoted
  <2> QED BY <2>1, <2>3, <2>4
<1>11. CASE Fail /\ ~CancelGoal
  <2>1. stage = "failed" /\ command' = command /\ Failed
    BY <1>11 DEF Fail
  <2> QED BY <1>1, <2>1, GoalEnds DEF Failed
<1> QED BY <1>3, <1>4, <1>7, <1>8, <1>9, <1>10, <1>11

-----------------------------------------------------------------------------
(* The search for a person: its child actions *)

(* The call goes on waiting; what it waits for is as it was.               *)
LEMMA CallGoesOn ==
  ASSUME SearchInv, childCall # "none", childCall' \in Calls \ {"none"},
         childAsked' \in BOOLEAN, why' = why \/ why' \in {"canceled", "timeout"},
         UNCHANGED <<stage, turn, pan, candidates, cancelRequested, command, child>>,
         UNCHANGED perception
  PROVE  SearchInv'
<1>1. CoordinatorInv /\ PerceptionInv
  BY SearchParts
<1>2. CoordinatorTypes'
  BY <1>1 DEF CoordinatorInv, CoordinatorTypes
<1>3. stage \in Moves \cup {"view"} /\ why # "notFound"
  BY <1>1 DEF CoordinatorInv, OneChild, EveryViewTaken, Calling, Moves
<1>4. OneChild'
  BY <1>1, <1>3 DEF CoordinatorInv, OneChild, Calling
<1>5. EveryViewTaken'
  BY <1>1, <1>3 DEF CoordinatorInv, EveryViewTaken
<1>6. PerceptionInv'
  BY <1>1, PerceptionRests DEF PerceptionInv, ViewStandsStill
<1> QED BY <1>2, <1>4, <1>5, <1>6, SearchParts DEF CoordinatorInv

(* After a view the head sweeps on, then the body turns, then it is over.  *)
LEMMA ViewsAdvance ==
  ASSUME CoordinatorInv, Calling, Advance
  PROVE  /\ stage' \in {"head", "settle", "select", "spin", "home"}
         /\ turn' \in 1 .. Turns /\ pan' \in 1 .. Pans
         /\ stage' \in {"home", "select"} => turn' = Turns /\ pan' = Pans
<1>1. /\ turn \in 1 .. Turns /\ pan \in 1 .. Pans /\ Turns \in Nat /\ Pans \in Nat
      /\ stage = "home" => turn = Turns /\ pan = Pans
  BY SearchAssumption DEF CoordinatorInv, CoordinatorTypes, EveryViewTaken
<1>2. CASE stage = "spin"
  BY <1>1, <1>2 DEF Advance
<1>3. CASE stage = "head"
  BY <1>1, <1>3 DEF Advance
<1>4. CASE stage = "home"
  BY <1>1, <1>4 DEF Advance
<1>5. CASE stage = "view" /\ pan < Pans
  BY <1>1, <1>5 DEF Advance
<1>6. CASE stage = "view" /\ pan = Pans /\ turn < Turns
  BY <1>1, <1>6 DEF Advance
<1>7. CASE stage = "view" /\ pan = Pans /\ turn = Turns
  <2>1. stage' = "home" /\ UNCHANGED <<turn, pan>>
    BY <1>1, <1>7 DEF Advance
  <2> QED BY <1>1, <1>7, <2>1
<1>8. stage \in {"spin", "head", "home", "view"}
  BY DEF Calling, Moves
<1> QED BY <1>1, <1>2, <1>3, <1>4, <1>5, <1>6, <1>7, <1>8

LEMMA CallStepsOn ==
  ASSUME SearchInv, Send \/ AwaitResponse \/ DrainResponse \/ AwaitResult \/ DrainResult
                    \/ Hold
  PROVE  SearchInv'
<1>0. CoordinatorInv /\ PerceptionInv
  BY SearchParts
<1>1. /\ UNCHANGED <<cancelRequested, command, perception>>
      /\ stage \in Moves \cup {"view"} /\ stage # "retreat" /\ why # "notFound"
  <2>1. UNCHANGED <<cancelRequested, command, perception>>
    BY DEF Send, AwaitResponse, DrainResponse, AwaitResult, DrainResult, Hold, coordinator
  <2>2. Calling
    BY <1>0
    DEF Send, AwaitResponse, DrainResponse, AwaitResult, DrainResult, Hold, OneChild,
        CoordinatorInv
  <2> QED
    BY <1>0, <2>1, <2>2 DEF Calling, Moves, CoordinatorInv, EveryViewTaken
<1>2. ASSUME NEW reason, reason # "notFound", Raise(reason), child' = child,
             child \notin {"sent", "live"}, UNCHANGED <<turn, pan, candidates>>,
             childAsked' = childAsked
      PROVE  SearchInv'
  <2>1. childAsked' \in BOOLEAN
    BY <1>0, <1>2 DEF CoordinatorInv, CoordinatorTypes
  <2> QED BY <1>1, <1>2, <2>1, FailureIsNoted
<1>3. CASE Send
  <2>1. /\ childCall = "none" /\ UNCHANGED <<turn, pan, candidates>>
        /\ child \notin {"sent", "live"}
    BY <1>0, <1>3 DEF Send, CoordinatorInv, OneChild
  <2>2. CASE \E reason \in {"canceled", "unavailable"} :
               Raise(reason) /\ UNCHANGED <<child, childAsked>>
    BY <1>2, <2>1, <2>2
  <2>3. CASE /\ child' = "sent" /\ childAsked' = FALSE /\ childCall' = "response"
             /\ UNCHANGED <<stage, why>>
    <3>1. CoordinatorTypes'
      BY <1>0, <1>1, <2>1, <2>3 DEF CoordinatorInv, CoordinatorTypes, Calls, ChildStates
    <3>2. OneChild' /\ EveryViewTaken'
      BY <1>0, <1>1, <2>1, <2>3 DEF CoordinatorInv, OneChild, EveryViewTaken, Calling
    <3>3. PerceptionInv'
      BY <1>0, <1>1, <2>1, PerceptionRests DEF PerceptionInv, ViewStandsStill
    <3> QED BY <3>1, <3>2, <3>3, SearchParts DEF CoordinatorInv
  <2> QED BY <1>3, <2>2, <2>3 DEF Send
<1>4. CASE AwaitResponse
  <2>1. /\ childCall = "response" /\ UNCHANGED <<turn, pan, candidates, child, childAsked>>
        /\ childAsked \in BOOLEAN
    BY <1>0, <1>4 DEF AwaitResponse, CoordinatorInv, CoordinatorTypes
  <2>2. CASE child = "rejected" /\ Raise("backend")
    BY <1>2, <2>1, <2>2
  <2>3. CASE /\ childCall' \in {"result", "drainResponse"} /\ stage' = stage
             /\ why' = why \/ why' \in {"canceled", "timeout"}
    BY <1>1, <2>1, <2>3, CallGoesOn DEF Calls
  <2> QED BY <1>4, <2>2, <2>3 DEF AwaitResponse
<1>5. CASE DrainResponse
  <2>1. childCall = "drainResponse" /\ UNCHANGED <<turn, pan, candidates, child>>
    BY <1>5 DEF DrainResponse
  <2>2. CASE child = "rejected" /\ Raise(why) /\ childAsked' = childAsked
    BY <1>1, <1>2, <2>1, <2>2
  <2>3. CASE childCall' = "drainResult" /\ childAsked' \in BOOLEAN /\ UNCHANGED <<stage, why>>
    BY <1>1, <2>1, <2>3, CallGoesOn DEF Calls
  <2> QED BY <1>5, <2>2, <2>3 DEF DrainResponse
<1>6. CASE AwaitResult
  <2>1. childCall = "result" /\ child' = child
    BY <1>6 DEF AwaitResult
  <2>2. CASE /\ child \in {"aborted", "canceled"} /\ Raise("backend")
             /\ UNCHANGED <<turn, pan, candidates, childAsked>>
    BY <1>2, <2>1, <2>2
  <2>3. CASE /\ why' \in {"canceled", "timeout"} /\ childCall' = "drainResult"
             /\ childAsked' \in BOOLEAN /\ UNCHANGED <<stage, turn, pan, candidates>>
    BY <1>1, <2>1, <2>3, CallGoesOn DEF Calls
  <2>4. ASSUME child \in {"succeeded", "notFound"}, Advance, childCall' = "none",
               NEW d \in Distances, candidates' \subseteq candidates \cup {d},
               UNCHANGED <<why, childAsked>>
        PROVE  SearchInv'
    <3>1. /\ stage' \in {"head", "settle", "select", "spin", "home"}
          /\ turn' \in 1 .. Turns /\ pan' \in 1 .. Pans
          /\ stage' \in {"home", "select"} => turn' = Turns /\ pan' = Pans
      BY <1>0, <1>1, <2>4, ViewsAdvance DEF Calling
    <3>2. CoordinatorTypes'
      BY <1>0, <1>1, <2>1, <2>4, <3>1
      DEF CoordinatorInv, CoordinatorTypes, Stages, Moves, Calls
    <3>3. OneChild'
      BY <1>0, <1>1, <2>1, <2>4 DEF CoordinatorInv, CoordinatorTypes, OneChild
    <3>4. EveryViewTaken'
      BY <1>1, <2>4, <3>1 DEF EveryViewTaken
    <3>5. PerceptionInv'
      BY <1>0, <1>1, <2>4, PerceptionRests DEF PerceptionInv, ViewStandsStill
    <3> QED BY <3>2, <3>3, <3>4, <3>5, SearchParts DEF CoordinatorInv
  <2>5. \/ /\ child \in {"aborted", "canceled"} /\ Raise("backend")
           /\ UNCHANGED <<turn, pan, candidates, childAsked>>
        \/ /\ why' \in {"canceled", "timeout"} /\ childCall' = "drainResult"
           /\ childAsked' \in BOOLEAN /\ UNCHANGED <<stage, turn, pan, candidates>>
        \/ /\ child \in {"succeeded", "notFound"} /\ Advance /\ childCall' = "none"
           /\ \E d \in Distances : candidates' \subseteq candidates \cup {d}
           /\ UNCHANGED <<why, childAsked>>
    BY <1>6 DEF AwaitResult
  <2> QED BY <2>2, <2>3, <2>4, <2>5
<1>7. CASE DrainResult
  BY <1>1, <1>2, <1>7 DEF DrainResult, Terminal
<1>8. CASE Hold
  <2>1. /\ childCall # "none" /\ childCall' = "held" /\ childAsked' \in BOOLEAN
        /\ UNCHANGED <<stage, turn, pan, candidates, cancelRequested, command, child, why>>
    BY <1>0, <1>8 DEF Hold, coordinator, CoordinatorInv, CoordinatorTypes
  <2> QED BY <1>1, <2>1, CallGoesOn DEF Calls
<1> QED BY <1>3, <1>4, <1>5, <1>6, <1>7, <1>8

-----------------------------------------------------------------------------
(* The search for a person: the servers *)

(* A server answers for a child that was sent or runs.                     *)
LEMMA ChildAnswers ==
  ASSUME CoordinatorInv, child \in {"sent", "live"}, NEW state \in ChildStates,
         Answer(state), UNCHANGED coordinator
  PROVE  CoordinatorInv'
<1>1. /\ child' = state /\ UNCHANGED <<childCall, childAsked, stage, turn, pan, why,
                                       cancelRequested, candidates, command>>
  BY DEF Answer, coordinator
<1> QED
  BY <1>1 DEF CoordinatorInv, CoordinatorTypes, OneChild, EveryViewTaken, Calling

LEMMA MovesAnswer ==
  ASSUME SearchInv, Move
  PROVE  SearchInv'
<1>0. CoordinatorInv /\ PerceptionInv
  BY SearchParts
<1>1. /\ stage \in Moves /\ UNCHANGED <<coordinator, perception>>
      /\ child \in {"sent", "live"}
      /\ \E state \in {"live", "rejected", "succeeded", "aborted", "canceled"} :
           Answer(state)
  BY DEF Move
<1>2. CoordinatorInv'
  BY <1>0, <1>1, ChildAnswers DEF ChildStates, Terminal
<1>3. PerceptionInv'
  BY <1>0, <1>1, PerceptionRests DEF PerceptionInv, ViewStandsStill, Moves
<1> QED BY <1>2, <1>3, SearchParts

(* From the beginning of a view on no frame counts that was there before.  *)
LEMMA ViewBegins ==
  ASSUME SearchInv, BeginView
  PROVE  SearchInv'
<1>0. CoordinatorInv /\ PerceptionInv
  BY SearchParts
<1>1. /\ stage = "view" /\ child = "sent" /\ UNCHANGED coordinator
      /\ \E state \in {"live", "rejected"} : Answer(state)
  BY DEF BeginView
<1>2. CoordinatorInv'
  BY <1>0, <1>1, ChildAnswers DEF ChildStates
<1>3. view = "idle"
  BY <1>0, <1>1 DEF PerceptionInv, ViewStandsStill
<1>4. CASE Answer("rejected") /\ UNCHANGED perception
  BY <1>0, <1>2, <1>3, <1>4, PerceptionRests, SearchParts
<1>5. CASE /\ Answer("live") /\ view' = "snapshot"
           /\ latest' = [k \in Keys |-> {[f EXCEPT !.fresh = FALSE] : f \in latest[k]}]
           /\ camera' = [k \in Keys |-> {[f EXCEPT !.fresh = FALSE] : f \in camera[k]}]
  <2>1. stage' = "view" /\ child' = "live"
    BY <1>1, <1>5 DEF Answer, coordinator
  <2>2. ASSUME NEW S \in SUBSET Frame, Uniform(S)
        PROVE  LET T == {[f EXCEPT !.fresh = FALSE] : f \in S}
               IN  T \in SUBSET Frame /\ Uniform(T) /\ \A f \in T : ~f.fresh
    BY <2>2 DEF Frame, Uniform
  <2>3. ASSUME NEW k \in Keys
        PROVE  /\ latest'[k] \in SUBSET Frame /\ camera'[k] \in SUBSET Frame
               /\ Uniform(latest'[k]) /\ Uniform(camera'[k])
               /\ \A f \in latest'[k] \cup camera'[k] : ~f.fresh
    <3>1. latest[k] \in SUBSET Frame /\ camera[k] \in SUBSET Frame
          /\ Uniform(latest[k]) /\ Uniform(camera[k])
      BY <1>0 DEF PerceptionInv, PerceptionTypes, InOrder
    <3> QED BY <1>5, <2>2, <3>1
  <2>4. PerceptionTypes'
    BY <1>5, <2>3 DEF PerceptionTypes
  <2>5. \A k \in Keys : InOrder(k)'
    BY <2>3 DEF InOrder
  <2>6. ViewStandsStill' /\ ViewIsFresh'
    BY <1>5, <2>1, <2>3 DEF ViewStandsStill, ViewIsFresh
  <2> QED BY <1>2, <2>4, <2>5, <2>6, SearchParts DEF PerceptionInv
<1> QED BY <1>4, <1>5 DEF BeginView

LEMMA ViewGoesOn ==
  ASSUME SearchInv, ViewServer
  PROVE  SearchInv'
<1>0. CoordinatorInv /\ PerceptionInv
  BY SearchParts
<1>1. view # "idle" /\ stage = "view" /\ child = "live"
  BY <1>0 DEF ViewServer, ViewSnapshot, DetectPeople, PerceptionInv, ViewStandsStill
<1>2. ASSUME NEW state \in Terminal, EndView(state)
      PROVE  SearchInv'
  <2>1. /\ Answer(state) /\ view' = "idle" /\ UNCHANGED <<latest, camera, coordinator>>
    BY <1>2 DEF EndView
  <2>2. CoordinatorInv'
    BY <1>0, <1>1, <2>1, ChildAnswers DEF ChildStates
  <2>3. PerceptionInv'
    BY <1>0, <2>1
    DEF PerceptionInv, PerceptionTypes, ViewStandsStill, ViewIsFresh, InOrder
  <2> QED BY <2>2, <2>3, SearchParts
<1>3. CASE Fresh /\ view' = "detect" /\ UNCHANGED <<coordinator, children, latest, camera>>
  <2>1. CoordinatorInv'
    BY <1>0, <1>3, CoordinatorRests
  <2>2. stage' = stage /\ child' = child
    BY <1>3 DEF coordinator, children
  <2>3. PerceptionInv'
    BY <1>0, <1>1, <1>3, <2>2
    DEF PerceptionInv, PerceptionTypes, ViewStandsStill, ViewIsFresh, InOrder, Fresh
  <2> QED BY <2>1, <2>3, SearchParts
<1>4. \/ \E state \in Terminal : EndView(state)
      \/ Fresh /\ view' = "detect" /\ UNCHANGED <<coordinator, children, latest, camera>>
  BY DEF ViewServer, ViewSnapshot, DetectPeople, Terminal
<1> QED BY <1>2, <1>3, <1>4

(* While the view server works the robot stands still, and so does what is *)
(* captured.                                                               *)
LEMMA FrameIsCaptured ==
  ASSUME SearchInv, NEW k \in Keys, Capture(k)
  PROVE  SearchInv'
<1>0. CoordinatorInv /\ PerceptionInv
  BY SearchParts
<1> DEFINE shot == [still |-> ~Moving, fresh |-> TRUE]
<1>1. camera' = [camera EXCEPT ![k] = {shot}]
      /\ UNCHANGED <<coordinator, children, view, latest>>
  BY DEF Capture
<1>2. CoordinatorInv'
  BY <1>0, <1>1, CoordinatorRests
<1>3. UNCHANGED <<stage, child, view, latest>>
  BY <1>1 DEF coordinator, children
<1>4. shot \in Frame /\ shot.fresh /\ (view # "idle" => shot.still)
  <2>1. view # "idle" => ~Moving
    BY <1>0 DEF CoordinatorInv, OneChild, PerceptionInv, ViewStandsStill, Moving, Moves
  <2>2. Moving \in BOOLEAN
    BY DEF Moving
  <2> QED BY <2>1, <2>2 DEF Frame
<1> HIDE DEF shot
<1>5. PerceptionTypes'
  BY <1>0, <1>1, <1>3, <1>4 DEF PerceptionInv, PerceptionTypes
<1>6. \A j \in Keys : camera'[j] = IF j = k THEN {shot} ELSE camera[j]
  BY <1>0, <1>1 DEF PerceptionInv, PerceptionTypes
<1>7. ASSUME NEW j \in Keys
      PROVE  InOrder(j)'
  BY <1>0, <1>3, <1>4, <1>6 DEF PerceptionInv, InOrder, Uniform
<1>8. ViewStandsStill'
  BY <1>0, <1>3, <1>4, <1>6 DEF PerceptionInv, ViewStandsStill
<1>9. ViewIsFresh'
  BY <1>0, <1>3 DEF PerceptionInv, ViewIsFresh, Fresh
<1> QED BY <1>2, <1>5, <1>7, <1>8, <1>9, SearchParts DEF PerceptionInv

LEMMA FrameIsStored ==
  ASSUME SearchInv, NEW k \in Keys, Store(k)
  PROVE  SearchInv'
<1>0. CoordinatorInv /\ PerceptionInv
  BY SearchParts
<1>1. /\ camera[k] # {} /\ latest' = [latest EXCEPT ![k] = camera[k]]
      /\ camera' = [camera EXCEPT ![k] = {}]
      /\ UNCHANGED <<coordinator, children, view>>
  BY DEF Store
<1>2. CoordinatorInv'
  BY <1>0, <1>1, CoordinatorRests
<1>3. UNCHANGED <<stage, child, view>>
  BY <1>1 DEF coordinator, children
<1>4. PerceptionTypes'
  BY <1>0, <1>1, <1>3 DEF PerceptionInv, PerceptionTypes
<1>5. \A j \in Keys : /\ latest'[j] = IF j = k THEN camera[j] ELSE latest[j]
                      /\ camera'[j] = IF j = k THEN {} ELSE camera[j]
  BY <1>0, <1>1 DEF PerceptionInv, PerceptionTypes
<1>6. ASSUME NEW j \in Keys
      PROVE  InOrder(j)'
  BY <1>0, <1>5 DEF PerceptionInv, InOrder, Uniform
<1>7. ViewStandsStill'
  BY <1>0, <1>3, <1>5 DEF PerceptionInv, ViewStandsStill
<1>8. ViewIsFresh'
  BY <1>0, <1>1, <1>3, <1>5 DEF PerceptionInv, ViewIsFresh, Fresh, InOrder
<1> QED BY <1>2, <1>4, <1>6, <1>7, <1>8, SearchParts DEF PerceptionInv

LEMMA SearchNext ==
  ASSUME SearchInv, Next \/ UNCHANGED vars
  PROVE  SearchInv'
<1>1. CASE UNCHANGED vars
  <2>1. UNCHANGED <<coordinator, children>> /\ UNCHANGED perception
    BY <1>1 DEF vars
  <2>2. CoordinatorInv /\ PerceptionInv
    BY SearchParts
  <2>3. stage' = stage /\ child' = child
    BY <2>1 DEF coordinator, children
  <2>4. view # "idle" => stage' = "view" /\ child' = "live"
    BY <2>2, <2>3 DEF PerceptionInv, ViewStandsStill
  <2> QED BY <2>1, <2>2, <2>4, CoordinatorRests, PerceptionRests, SearchParts
<1> QED
  BY <1>1, GoalSteps, CallStepsOn, MovesAnswer, ViewBegins, ViewGoesOn, FrameIsCaptured,
     FrameIsStored
  DEF Next, Coordinator

LEMMA SearchBegins ==
  ASSUME Init
  PROVE  SearchInv
<1>1. 1 \in 1 .. Turns /\ 1 \in 1 .. Pans
  BY SearchAssumption
<1>2. CoordinatorInv
  BY <1>1
  DEF Init, CoordinatorInv, CoordinatorTypes, OneChild, EveryViewTaken, Stages, Calls,
      ChildStates
<1>3. PerceptionInv
  BY DEF Init, PerceptionInv, PerceptionTypes, ViewStandsStill, ViewIsFresh, InOrder, Uniform
<1> QED BY <1>2, <1>3, SearchParts

(* What the runs check of the search                                       *)
LEMMA SearchIsRight ==
  ASSUME SearchInv
  PROVE  StillViews /\ NothingOutlivesTheSearch
<1>1. StillViews
  BY DEF SearchInv, ViewStandsStill, ViewIsFresh, Fresh, InOrder, Uniform, StillViews
<1>2. NothingOutlivesTheSearch
  BY DEF SearchInv, OneChild, Calling, Moves, NothingOutlivesTheSearch
<1> QED BY <1>1, <1>2

(* What the search reports, it reports of the step it ends with.           *)
LEMMA VerdictIsTrue ==
  ASSUME SearchInv, Next, outcome' # outcome
  PROVE  CASE outcome'.status = "succeeded" ->
                \A d \in candidates : outcome'.distance <= d
           [] outcome'.status = "notFound" ->
                candidates = {} /\ turn = Turns /\ pan = Pans
           [] outcome'.status = "canceled" -> cancelRequested
           [] OTHER -> TRUE
<1>1. \/ \E status \in {"none", "dryRun", "aborted"} :
           outcome' = [status |-> status, distance |-> 0]
      \/ Select /\ candidates # {} /\ EndGoal("succeeded", Min(candidates))
      \/ Fail
  <2>1. Goal => outcome' = [status |-> "none", distance |-> 0]
    BY DEF Goal
  <2>2. Start => outcome' = [status |-> "dryRun", distance |-> 0]
    BY DEF Start, EndGoal
  <2>3. Select => candidates # {} /\ EndGoal("succeeded", Min(candidates))
    BY DEF Select
  <2>4. ~(CancelGoal \/ Retreat \/ Settle)
    BY DEF CancelGoal, Retreat, Settle
  <2>5. ~(Send \/ AwaitResponse \/ DrainResponse \/ AwaitResult \/ DrainResult \/ Hold)
    BY DEF Send, AwaitResponse, DrainResponse, AwaitResult, DrainResult, Hold, coordinator
  <2>6. ~(Move \/ BeginView \/ ViewServer)
    BY DEF Move, BeginView, ViewServer, ViewSnapshot, DetectPeople, EndView, coordinator
  <2>7. ~(\E k \in Keys : Capture(k) \/ Store(k))
    BY DEF Capture, Store, coordinator
  <2> QED BY <2>1, <2>2, <2>3, <2>4, <2>5, <2>6, <2>7 DEF Next, Coordinator
<1>2. CASE \E status \in {"none", "dryRun", "aborted"} :
             outcome' = [status |-> status, distance |-> 0]
  BY <1>2
<1>3. CASE candidates # {} /\ EndGoal("succeeded", Min(candidates))
  <2>1. candidates \in SUBSET Nat
    BY SearchAssumption DEF SearchInv, SearchTypes, TypeOK
  <2>2. outcome'.status = "succeeded" /\ outcome'.distance = Min(candidates)
    BY <1>3 DEF EndGoal
  <2> QED BY <1>3, <2>1, <2>2, LeastOfSome
<1>4. CASE Fail
  <2>1. outcome'.status = IF cancelRequested THEN "canceled"
                          ELSE IF why = "notFound" THEN "notFound" ELSE "aborted"
    BY <1>4 DEF Fail, Failed, EndGoal
  <2>2. why = "notFound" => candidates = {} /\ turn = Turns /\ pan = Pans
    BY DEF SearchInv, EveryViewTaken
  <2> QED BY <2>1, <2>2
<1> QED BY <1>1, <1>2, <1>3, <1>4

-----------------------------------------------------------------------------
(* All of them *)

LEMMA OthersBegin ==
  ASSUME InitTrip, InitApproach, InitLocalizer
  PROVE  TripInv(trip) /\ ApproachInv(approach) /\ LocalizerInv(loc)
<1>1. TripInv(trip)
  BY DEF InitTrip, NoLeg, TripInv, Trips, LegIsMinded, LeftAsked, Quiet, Told
<1>2. ApproachInv(approach)
  BY DEF InitApproach, NoMove, ApproachInv, Approaches, MoveIsMinded, MovesLeftAsked,
         AtRest, Told
<1>3. LocalizerInv(loc)
  <2>1. /\ PoseTimeout \in Nat /\ HoldFor \in Nat /\ Forever \in Nat
    BY LocalizerAssumption DEF Forever
  <2>2. loc \in Localizers
    BY <2>1 DEF InitLocalizer, NoSpin, NoPose, Localizers, SpinEnded, Told
  <2>3. 0 <= HoldFor /\ 0 <= Forever
    BY <2>1
  <2> QED
    BY <2>1, <2>2, <2>3
    DEF InitLocalizer, NoSpin, LocalizerInv, HeldSinceBad, Earned, SpinIsMinded, SpinEnded
<1> QED BY <1>1, <1>2, <1>3

LEMMA EveryoneBegins == MCInit => Inv
<1> SUFFICES ASSUME MCInit
             PROVE  Inv
  OBVIOUS
<1>1. SearchInv /\ SightInv /\ VoiceInv
  BY SearchBegins, SightBegins, VoiceBegins DEF MCInit
<1>2. TripInv(trip) /\ ApproachInv(approach) /\ LocalizerInv(loc)
  BY OthersBegin DEF MCInit
<1>3. ArmInv(arm) /\ PresetInv(preset) /\ ReadyInv(ready)
  BY ArmBegins, PosesBegin DEF MCInit
<1> QED BY <1>1, <1>2, <1>3 DEF Inv

(* Each of them, whatever the others do meanwhile: they share nothing.     *)
everything == <<part, vars, sight, voice, trip, approach, loc, arm, preset, ready>>
Together ==
    /\ [Next]_vars /\ [NextDetection \/ NextVerification]_sight /\ [NextVoice]_voice
    /\ [NextTrip]_trip /\ [NextApproach]_approach /\ [NextLocalizer]_loc
    /\ [NextArm]_arm /\ [NextPreset]_preset /\ [NextReady]_ready

LEMMA OneIsTogether == [MCNext]_everything => Together
<1>1. MCNext => Together
  BY DEF MCNext, Together
<1>2. UNCHANGED everything => Together
  BY DEF everything, Together
<1> QED BY <1>1, <1>2

LEMMA EveryoneSteps == Inv /\ Together => Inv'
<1> SUFFICES ASSUME Inv, Together
             PROVE  Inv'
  OBVIOUS
<1>1. SearchInv'
  BY SearchNext DEF Inv, Together
<1>2. SightInv'
  BY SightNext DEF Inv, Together
<1>3. VoiceInv'
  BY VoiceNext DEF Inv, Together
<1>4. TripInv(trip)' /\ ApproachInv(approach)' /\ LocalizerInv(loc)'
  BY TripNext, ApproachNext, LocalizerNext DEF Inv, Together
<1>5. ArmInv(arm')
  BY ArmNext DEF Inv, Together
<1>6. PresetInv(preset') /\ ReadyInv(ready')
  BY PresetNext, ReadyNext DEF Inv, Together
<1> QED BY <1>1, <1>2, <1>3, <1>4, <1>5, <1>6 DEF Inv

LEMMA EveryoneIsRight == Inv => SensesAreCurrent /\ NothingIsLeftBehind
<1> SUFFICES ASSUME Inv
             PROVE  SensesAreCurrent /\ NothingIsLeftBehind
  OBVIOUS
<1>1. StillViews /\ NothingOutlivesTheSearch
  BY SearchIsRight DEF Inv
<1>2. GraspIsSeen /\ NoFrameIsForgotten
  BY DEF Inv, SightInv, DetectionInv, VerificationInv
<1>3. RecordsInSilence /\ TaskIsMinded /\ CacheIsWhole
  BY VoiceIsRight DEF Inv
<1>4. TripIsMinded
  BY DEF Inv, TripInv, LegIsMinded, LeftAsked, TripIsMinded
<1>5. ApproachIsMinded
  BY DEF Inv, ApproachInv, MoveIsMinded, MovesLeftAsked, ApproachIsMinded
<1>6. LocalizerIsMinded /\ LocalizationIsEarned
  BY DEF Inv, LocalizerInv, Earned, SpinIsMinded, LocalizerIsMinded, LocalizationIsEarned
<1>7. ArmIsMinded /\ GraspIsJudged
  BY ArmIsRight DEF Inv
<1>8. PosesAreMinded
  BY PosesAreRight DEF Inv
<1> QED
  BY <1>1, <1>2, <1>3, <1>4, <1>5, <1>6, <1>7, <1>8
  DEF SensesAreCurrent, NothingIsLeftBehind

(* The inductive invariants hold, whichever server is at work.             *)
THEOREM CapabilitiesKeepInv == MCSpec => []Inv
<1>1. Inv /\ [MCNext]_everything => Inv'
  BY OneIsTogether, EveryoneSteps
<1> QED
  BY <1>1, EveryoneBegins, PTL DEF MCSpec, everything

(* What is judged is what is there: only frames of a robot that stands     *)
(* still, an image since somebody asked, a transform that is still known,  *)
(* silence before the recording, a verdict before a grasp is reported, and *)
(* held poses before the robot is called localized.                        *)
THEOREM CapabilitiesSeeWhatIsThere == MCSpec => []SensesAreCurrent
<1>1. Inv => SensesAreCurrent
  BY EveryoneIsRight
<1> QED BY <1>1, CapabilitiesKeepInv, PTL

(* No server leaves running what it has started and known to run, without  *)
(* having asked it to end.                                                 *)
THEOREM CapabilitiesLeaveNothing == MCSpec => []NothingIsLeftBehind
<1>1. Inv => NothingIsLeftBehind
  BY EveryoneIsRight
<1> QED BY <1>1, CapabilitiesKeepInv, PTL

(* The search reports the nearest person it has seen, nobody only after    *)
(* the last view, and a cancellation only if there was one.                *)
THEOREM SearchTellsTheTruth == MCSpec => VerdictIsTruthful
<1>1. Inv /\ [MCNext]_everything =>
        [outcome' # outcome =>
           CASE outcome'.status = "succeeded" ->
                  \A d \in candidates : outcome'.distance <= d
             [] outcome'.status = "notFound" ->
                  candidates = {} /\ turn = Turns /\ pan = Pans
             [] outcome'.status = "canceled" -> cancelRequested
             [] OTHER -> TRUE]_vars
  <2> SUFFICES ASSUME Inv, Next, outcome' # outcome
               PROVE  CASE outcome'.status = "succeeded" ->
                             \A d \in candidates : outcome'.distance <= d
                        [] outcome'.status = "notFound" ->
                             candidates = {} /\ turn = Turns /\ pan = Pans
                        [] outcome'.status = "canceled" -> cancelRequested
                        [] OTHER -> TRUE
    BY OneIsTogether DEF Together
  <2> QED BY VerdictIsTrue DEF Inv
<1> QED
  BY <1>1, CapabilitiesKeepInv, PTL DEF MCSpec, VerdictIsTruthful, everything

(* And so it is when all the servers are at work at once, in any order or  *)
(* in the same step.                                                       *)
THEOREM CapabilitiesTogether ==
  MCInit /\ [][Together]_everything => [](SensesAreCurrent /\ NothingIsLeftBehind)
<1>1. Inv /\ [Together]_everything => Inv'
  <2>1. UNCHANGED everything => Together
    BY DEF everything, Together
  <2> QED BY <2>1, EveryoneSteps
<1> QED
  BY <1>1, EveryoneBegins, EveryoneIsRight, PTL

=============================================================================
