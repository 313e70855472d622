------------------------ MODULE CollectEpisode_proofs ------------------------
(***************************************************************************)
(* What the coordinator of demonstrations leaves behind, what it reports,  *)
(* which arms may move and what is on disk: for any episodes, any number   *)
(* of faults and of samples.                                               *)
(***************************************************************************)
EXTENDS CollectEpisode, SequenceTheorems, FiniteSetTheorems, TLAPS

-----------------------------------------------------------------------------
(* Stretches of the goal's thread.                                         *)

(* Nothing is owned yet.                                                   *)
Early == {"start", "stopIdle", "rearm", "power", "unpower", "preflight",
          "detect", "recorder"}
(* The torque of the leader may be on.                                     *)
Gripped == {"acquire", "freeTeleop", "limp", "seize", "hold", "move", "home",
            "markStart", "first", "free", "enable", "limber"}
(* It was switched off.                                                    *)
Let == {"record", "stopping", "markStop", "finalize", "result", "insist",
        "succeed"}
Releasing == DOMAIN Releases \cup {"endRecorder", "endResult", "end"}
(* Teleoperation is off, and the leader may be under its controller.       *)
Driven == {"limp", "seize", "hold", "move", "home", "markStart", "first",
           "free"}
(* Power was looked at.                                                    *)
Powered == Gripped \cup (Let \ {"succeed"})
             \cup {"preflight", "detect", "recorder", "admission", "drain"}

(* A service is off, and no request that may yet be served turns it on.    *)
Off(s) == device[s] = "off" /\ overdue[s] # "on"
TorqueIsOff == Off("torque")
TeleopIsOff == Off("teleop")
LeaderIsOff == Off("leader")

-----------------------------------------------------------------------------
(* The recorder: what its thread has claimed, and what its tape looks like *)

Whole(t) ==
    /\ Len(t) >= 4 /\ t[1] = "start" /\ t[Len(t)] = "stop"
    /\ \A i \in 2 .. Len(t) - 1 : t[i] = "sample"
Open(t) ==
    Len(t) >= 1 /\ t[1] = "start" /\ \A i \in 2 .. Len(t) : t[i] = "sample"
Closed(t) ==
    /\ Len(t) >= 2 /\ t[1] = "start" /\ t[Len(t)] = "stop"
    /\ \A i \in 2 .. Len(t) - 1 : t[i] = "sample"

TapeInOrder ==
    /\ tape = << >> \/ Open(tape) \/ Closed(tape)
    /\ armed => Open(tape)

FilesFollowThread ==
    /\ recording = "idle" <=> episode = None
    /\ recording \in {"waiting", "ready", "sampling", "committing"} =>
         disk[episode].state = "recording"
    /\ recording = "keeping" => disk[episode].state = "complete"
    /\ \A e \in Episodes : recorded[e] = "succeeded" =>
         disk[e].state = "complete" /\ review[e] # "none"

RecorderInv ==
    RecorderTypeOK /\ TapeInOrder /\ FilesFollowThread /\ PublishedIsWhole

-----------------------------------------------------------------------------
(* The coordinator *)

PlaceOfGoal ==
    /\ pc = "idle" <=> goal = None
    /\ goal # None => outcome[goal] = "none"
    /\ recovery # "idle" => goal = None
    /\ blocked /\ goal # None =>
         pc \in Releasing /\ (why = "failed" \/ unclean)
    /\ goal # None /\ pc \notin Releasing =>
         ~unclean /\ (why = "none" \/ pc = "drain")

(* What is owned, by where the thread is.                                  *)
Ownership ==
    /\ goal = None /\ ~blocked => owns = {}
    /\ pc \in Early => owns = {}
    /\ pc \in Gripped => "torque" \in owns
    /\ pc \in Let \cup {"endLeader", "endRecorder", "endResult", "end"} =>
         "torque" \notin owns
    /\ pc \in Let \cup {"enable", "limber", "endRecorder", "endResult", "end"} =>
         "leader" \notin owns \/ blocked
    /\ pc \in {"succeed", "end"} => "recorder" \notin owns

TorqueIsOwned == "torque" \notin owns /\ ~blocked => TorqueIsOff

(* A recording that runs belongs to the goal, which owns it or is blocked. *)
RecorderIsOwned ==
    /\ recording # "idle" /\ ~blocked => "recorder" \in owns
    /\ recording # "idle" /\ goal # None => episode = goal

ChildrenAreMinded ==
    ~blocked => \A c \in Children :
        \/ Settled(c)
        \/ pc = "drain"
        \/ pc \in {"detect", "move"} /\ c \in Team

(* Teleoperation and the controller of the leader exclude each other, with *)
(* the requests that may yet be served and the timer that repeats one.     *)
OneLeads ==
    /\ LeaderIsOff \/ (TeleopIsOff /\ ~postTeleop)
    /\ pc \in Driven => TeleopIsOff
    /\ pc \in {"hold", "move", "home", "markStart", "first", "free"} =>
         overdue["leader"] # "on"
    /\ pc \in {"enable", "limber", "record", "stopping"} => LeaderIsOff
    /\ pc \notin {"idle", "start", "markStop", "finalize", "result", "insist",
                  "succeed"} => ~postTeleop
    /\ pc = "start" /\ goal \notin DryRun => ~postTeleop

(* After a reset: what a late request could still undo.                    *)
FollowerStaysOff == device["follower"] = "on" => faults >= 2
ResetHolds ==
    /\ torqueReleased => ~postTeleop /\ pc \notin Powered
    /\ resetReady \/ recovery \in DOMAIN Resets => torqueReleased
    /\ resetReady \/ recovery \in {"resetFollower", "resetTorque", "resetLeader"} =>
         TeleopIsOff
    /\ resetReady \/ recovery = "resetLeader" => TorqueIsOff
    /\ resetReady \/ recovery \in {"resetTorque", "resetLeader"} =>
         FollowerStaysOff
    /\ overdue["follower"] = "on" => faults >= IF pc = "unpower" THEN 1 ELSE 2
    /\ pc = "unpower" => faults >= 1 /\ ~resetReady

(* What was reported, and what will be.                                    *)
ReportIsTrue ==
    /\ pc = "succeed" => goal \in DryRun \/ recorded[goal] = "succeeded"
    /\ \A e \in Episodes \ DryRun : outcome[e] = "succeeded" =>
         disk[e].state = "complete" /\ review[e] # "none"
    /\ \A e \in Episodes : outcome[e] = "canceled" =>
         recorded[e] \in {"none", "canceled"}
    /\ recording # "idle" => outcome[episode] # "canceled"
    /\ goal # None /\ "recorder" \notin owns /\ why # "failed" /\ ~unclean
         /\ pc # "succeed" => recorded[goal] \in {"none", "canceled"}

IInv ==
    /\ TypeOK /\ RecorderInv /\ PlaceOfGoal /\ Ownership /\ TorqueIsOwned
    /\ RecorderIsOwned /\ ChildrenAreMinded /\ OneLeads /\ ResetHolds
    /\ ReportIsTrue

-----------------------------------------------------------------------------
(* The recorder's own steps, whoever asks for them.                        *)
Forget(e) ==
    /\ recorded' = [recorded EXCEPT ![e] = "none"]
    /\ UNCHANGED <<recording, episode, flags, tape, hand, files>>
RecorderMove ==
    \/ RecorderStep \/ CancelRecording \/ RecorderDies
    \/ \E e \in Episodes :
         \/ Reserve(e) \/ Forget(e) \/ MarkStart(e) \/ MarkStop(e)
         \/ FinalizeRecording(e) \/ ReviewEpisode(e)
    \/ UNCHANGED recorder

(* Every step of the whole is one of them.                                 *)
LEMMA OnlyTheseMove ==
    ASSUME TypeOK, PlaceOfGoal, [Next]_vars
    PROVE  RecorderMove
<1> USE DEF recorder, flags, files
<1>0. goal # None => goal \in Episodes
  BY DEF TypeOK
<1>1. ASSUME NEW e \in Episodes, Goal(e) PROVE RecorderMove
  BY <1>1 DEF Goal, RecorderMove, Forget
<1>2. CASE GoalThread
  <2>1. CASE StartRecorder
    BY <1>0, <2>1 DEF StartRecorder, RecorderMove, PlaceOfGoal
  <2>2. CASE MarkEvent
    BY <1>0, <2>2 DEF MarkEvent, RecorderMove, PlaceOfGoal
  <2>3. CASE Finalize
    BY <1>0, <2>3 DEF Finalize, RecorderMove, PlaceOfGoal
  <2>4. CASE AwaitResult \/ ReleaseRecorder
    BY <2>4 DEF AwaitResult, ReleaseRecorder, RecorderMove
  <2>5. CASE \/ Start \/ Call \/ Rearm \/ Preflight \/ TeamDone \/ TeamStops
             \/ \E c \in Children : SendChild(c)
             \/ Drained \/ DrainFails \/ GiveUp \/ Wait \/ HeartbeatFails
             \/ ReleaseControl \/ AwaitRecorder \/ EndGoal
    BY <2>5 DEF Start, Call, Rearm, Preflight, TeamDone, TeamStops, SendChild,
       Drained, DrainFails, GiveUp, Wait, HeartbeatFails, ReleaseControl,
       AwaitRecorder, EndGoal, RecorderMove
  <2> QED BY <1>2, <2>1, <2>2, <2>3, <2>4, <2>5 DEF GoalThread
<1>3. CASE Restart \/ RecorderRuns \/ Review
  BY <1>3 DEF Restart, RecorderRuns, Review, RecorderMove
<1>4. CASE \/ \E c \in Children : ChildStep(c)
           \/ \E s \in Services : ServeLate(s)
           \/ Cancel \/ RequestBegin \/ RequestFinalize \/ IdleHeartbeat
           \/ BeginRelease \/ Release \/ BeginReset \/ Reset
  BY <1>4 DEF ChildStep, ServeLate, Cancel, RequestBegin, RequestFinalize,
     IdleHeartbeat, BeginRelease, Release, BeginReset, Reset, RecorderMove
<1>5. CASE UNCHANGED vars
  BY <1>5 DEF vars, RecorderMove
<1> QED BY <1>1, <1>2, <1>3, <1>4, <1>5 DEF Next

-----------------------------------------------------------------------------
(* A boundary or a sample goes to the end of the tape.                     *)
LEMMA Appended ==
    ASSUME NEW t \in Tapes,
           NEW x \in {"start", "sample", "stop"}
    PROVE  /\ Append(t, x) \in Tapes
           /\ Len(Append(t, x)) = Len(t) + 1 /\ Len(t) \in Nat
           /\ \A i \in 1 .. Len(t) : Append(t, x)[i] = t[i]
           /\ Append(t, x)[Len(t) + 1] = x
  BY AppendProperties, LenProperties DEF Tapes

(* The recorder keeps every part of its state of its type.                 *)
LEMMA RecorderTypes ==
    ASSUME RecorderTypeOK, FilesFollowThread, RecorderMove
    PROVE  RecorderTypeOK'
<1> USE EpisodesAssumption DEF RecorderTypeOK, Results
<1>1. recording # "idle" => episode \in Episodes
  BY DEF FilesFollowThread
<1>2. ASSUME NEW status \in Results, End(status), recording # "idle",
             review' \in [Episodes -> {"none", "kept", "decided"}]
      PROVE  RecorderTypeOK'
  <2>1. disk' \in [Episodes -> [state : {"none", "recording", "failed", "complete"},
                               tape : Tapes]]
    BY <1>1, <1>2 DEF End, Write
  <2>2. recorded' \in [Episodes -> {"none"} \cup Results]
    BY <1>1, <1>2 DEF End
  <2>3. stop' \in BOOLEAN
    BY <1>2 DEF End
  <2>4. tape' = tape /\ hand' = hand /\ sampleError' = sampleError
    BY <1>2 DEF End
  <2> QED BY <1>2, <2>1, <2>2, <2>3, <2>4 DEF End
<1>3. CASE RecorderThread
  <2>1. CASE Begin
    <3>1. CASE Claim(episode) /\ recording' = "waiting"
      BY <1>1, <2>1, <3>1, EmptySeq DEF Tapes, Begin, Claim, End
    <3> QED BY <1>2, <2>1, <3>1 DEF Begin
  <2>2. CASE AwaitInputs
    BY <1>2, <2>2 DEF AwaitInputs, flags, files
  <2>3. CASE AwaitStart
    BY <1>2, <2>3 DEF AwaitStart, flags, files
  <2>4. CASE Decide
    BY <1>2, <2>4 DEF Decide, files
  <2>5. CASE Commit
    <3>1. CASE /\ Write(episode, "complete")
               /\ recording' = "keeping"
               /\ UNCHANGED <<episode, flags, tape, hand, review, recorded>>
      BY <1>1, <2>5, <3>1 DEF Commit, Write, flags
    <3> QED BY <1>2, <2>5, <3>1 DEF Commit
  <2>6. CASE Keep
    <3>1. review' \in [Episodes -> {"none", "kept", "decided"}]
      BY <2>6 DEF Keep
    <3> QED BY <1>2, <2>6, <3>1 DEF Keep
  <2> QED BY <1>3, <2>1, <2>2, <2>3, <2>4, <2>5, <2>6 DEF RecorderThread
<1>4. CASE TakeSample \/ AppendSample
  <2>1. CASE TakeSample
    BY <2>1 DEF TakeSample, files
  <2>2. CASE AppendSample
    <3>1. tape' \in Tapes
      BY <2>2, Appended DEF AppendSample
    <3>2. armed' \in BOOLEAN /\ stop' \in BOOLEAN /\ sampleError' \in BOOLEAN
      BY <2>2 DEF AppendSample
    <3> QED BY <2>2, <3>1, <3>2 DEF AppendSample, files
  <2> QED BY <1>4, <2>1, <2>2
<1>5. CASE CancelRecording \/ RecorderDies
  BY <1>5, EmptySeq DEF Tapes, CancelRecording, RecorderDies, files
<1>6. ASSUME NEW e \in Episodes, Reserve(e) \/ Forget(e) \/ ReviewEpisode(e)
      PROVE  RecorderTypeOK'
  BY <1>6 DEF Reserve, Forget, ReviewEpisode, files, flags
<1>7. ASSUME NEW e \in Episodes,
             MarkStart(e) \/ MarkStop(e) \/ FinalizeRecording(e)
      PROVE  RecorderTypeOK'
  <2>1. tape' \in Tapes
    BY ZenonT(40), <1>7, Appended DEF MarkStart, MarkStop, FinalizeRecording
  <2>2. armed' \in BOOLEAN /\ stop' \in BOOLEAN /\ sampleError' \in BOOLEAN
    BY <1>7 DEF MarkStart, MarkStop, FinalizeRecording
  <2> QED BY <1>7, <2>1, <2>2 DEF MarkStart, MarkStop, FinalizeRecording, files
<1>8. CASE UNCHANGED recorder
  BY <1>8 DEF recorder, flags, files
<1> QED BY <1>3, <1>4, <1>5, <1>6, <1>7, <1>8
        DEF RecorderMove, RecorderStep

-----------------------------------------------------------------------------
LEMMA OpenAfterStart == Open(Append(<< >>, "start"))
<1>1. Append(<< >>, "start") = <<"start">>
  OBVIOUS
<1> QED BY <1>1 DEF Open

LEMMA OpenAfterSample ==
    ASSUME NEW t \in Tapes, Open(t)
    PROVE  Open(Append(t, "sample"))
  BY Appended DEF Open

LEMMA ClosedAfterStop ==
    ASSUME NEW t \in Tapes, Open(t)
    PROVE  Closed(Append(t, "stop"))
  BY Appended DEF Open, Closed

(* What a tape says of its boundaries.                                     *)
LEMMA MarkedMeans ==
    ASSUME RecorderTypeOK, TapeInOrder
    PROVE  /\ ~Marked("start") => tape = << >>
           /\ Marked("stop") => Closed(tape)
<1>1. Len(tape) \in Nat
  BY LenProperties DEF RecorderTypeOK, Tapes
<1>2. Open(tape) \/ Closed(tape) => Marked("start")
  BY <1>1 DEF Open, Closed, Marked, Contains
<1>3. Marked("stop") => tape # << >> /\ ~Open(tape)
  BY <1>1 DEF Open, Marked, Contains
<1> QED BY <1>2, <1>3 DEF TapeInOrder

(* Samples are appended and the end is marked only while the tape is open: *)
(* the timer, the services and the thread keep it in order together.       *)
LEMMA TapeKeeps ==
    ASSUME RecorderTypeOK, TapeInOrder, RecorderMove
    PROVE  TapeInOrder'
<1> USE DEF TapeInOrder
<1>0. UNCHANGED tape /\ (armed' => armed) => TapeInOrder'
  OBVIOUS
<1>1. CASE RecorderThread
  <2>1. CASE Begin
    BY <1>0, <2>1 DEF Begin, End
  <2>2. CASE ~Begin
    BY <1>0, <1>1, <2>2 DEF RecorderThread, AwaitInputs, AwaitStart, Decide,
       Commit, Keep, End, flags
  <2> QED BY <2>1, <2>2
<1>2. CASE TakeSample
  BY <1>0, <1>2 DEF TakeSample
<1>3. CASE AppendSample
  <2>1. CASE UNCHANGED tape
    BY <1>0, <1>3, <2>1 DEF AppendSample
  <2>2. CASE tape' = Append(tape, "sample") /\ armed /\ UNCHANGED armed
    BY <2>2, OpenAfterSample DEF RecorderTypeOK
  <2> QED BY <1>3, <2>1, <2>2 DEF AppendSample
<1>4. CASE CancelRecording \/ UNCHANGED recorder
  BY <1>0, <1>4 DEF CancelRecording, recorder, flags
<1>5. CASE RecorderDies
  BY <1>5 DEF RecorderDies
<1>6. ASSUME NEW e \in Episodes,
             Reserve(e) \/ Forget(e) \/ ReviewEpisode(e) \/ FinalizeRecording(e)
      PROVE  TapeInOrder'
  BY <1>0, <1>6 DEF Reserve, Forget, ReviewEpisode, FinalizeRecording, flags
<1>7. ASSUME NEW e \in Episodes, MarkStart(e) PROVE TapeInOrder'
  <2>1. CASE Marked("start")
    BY <1>0, <1>7, <2>1 DEF MarkStart
  <2>2. CASE ~Marked("start")
    BY <1>7, <2>2, MarkedMeans, OpenAfterStart DEF MarkStart
  <2> QED BY <2>1, <2>2
<1>8. ASSUME NEW e \in Episodes, MarkStop(e) PROVE TapeInOrder'
  <2>1. CASE Marked("stop")
    BY <1>0, <1>8, <2>1 DEF MarkStop
  <2>2. CASE ~Marked("stop")
    BY <1>8, <2>2, ClosedAfterStop DEF MarkStop, StopAccepted, RecorderTypeOK
  <2> QED BY <2>1, <2>2
<1> QED BY <1>1, <1>2, <1>3, <1>4, <1>5, <1>6, <1>7, <1>8
        DEF RecorderMove, RecorderStep

(* A tape that may be published has its boundaries and two samples.        *)
LEMMA PublishableIsWhole ==
    ASSUME RecorderTypeOK, TapeInOrder, Publishable
    PROVE  Whole(tape)
<1> DEFINE S == {i \in DOMAIN tape : tape[i] = "sample"}
<1>1. Len(tape) \in Nat /\ DOMAIN tape = 1 .. Len(tape)
  BY LenProperties DEF RecorderTypeOK, Tapes
<1>2. Closed(tape)
  BY MarkedMeans DEF Publishable
<1>3. S = 2 .. Len(tape) - 1
  BY <1>1, <1>2 DEF Closed
<1>4. Cardinality(S) = Len(tape) - 2
  <2>1. Len(tape) >= 2 /\ Len(tape) - 1 \in Int
    BY <1>1, <1>2 DEF Closed
  <2>2. Cardinality(2 .. Len(tape) - 1)
          = IF 2 > Len(tape) - 1 THEN 0 ELSE Len(tape) - 1 - 2 + 1
    BY <2>1, FS_Interval
  <2> HIDE DEF S
  <2> QED BY <1>1, <1>3, <2>1, <2>2
<1>5. Cardinality(S) - 1 >= 1
  BY DEF Publishable, Frames
<1>6. Len(tape) >= 4
  <2> HIDE DEF S
  <2> QED BY <1>1, <1>4, <1>5
<1> QED BY <1>2, <1>6 DEF Closed, Whole

LEMMA PublishedMeansWhole ==
    PublishedIsWhole <=>
        \A e \in Episodes : disk[e].state = "complete" => Whole(disk[e].tape)
  BY DEF PublishedIsWhole, Whole

-----------------------------------------------------------------------------
(* What a step does to the files of an episode.                            *)
FileStep(e) ==
    \/ disk'[e] = disk[e]
    \/ /\ disk[e].state \in {"none", "recording"}
       /\ disk'[e].state # "complete"
    \/ /\ disk[e].state = "recording"
       /\ Publishable /\ disk'[e] = [state |-> "complete", tape |-> tape]

LEMMA EndOnDisk ==
    ASSUME RecorderTypeOK, NEW status, End(status), recording # "idle",
           FilesFollowThread, NEW e \in Episodes
    PROVE  \/ disk'[e] = disk[e]
           \/ disk[e].state = "recording" /\ disk'[e].state = "failed"
<1>1. episode \in Episodes
  BY DEF FilesFollowThread, RecorderTypeOK
<1>2. CASE disk[episode].state = "recording" /\ recording # "reserved"
  BY <1>1, <1>2 DEF End, Write, RecorderTypeOK
<1>3. CASE ~(disk[episode].state = "recording" /\ recording # "reserved")
  <2>1. UNCHANGED disk
    BY <1>3 DEF End
  <2> QED BY <2>1
<1> QED BY <1>2, <1>3

LEMMA OnDisk ==
    ASSUME RecorderTypeOK, FilesFollowThread, RecorderMove,
           NEW e \in Episodes
    PROVE  FileStep(e)
<1>0. disk' = disk => FileStep(e)
  BY DEF FileStep
<1>1. recording # "idle" => episode \in Episodes
  BY DEF FilesFollowThread, RecorderTypeOK
<1>2. ASSUME NEW status, End(status), recording # "idle" PROVE FileStep(e)
  BY <1>2, EndOnDisk DEF FileStep
<1>3. CASE RecorderThread
  <2>1. CASE Begin
    <3>1. CASE Claim(episode) /\ recording' = "waiting"
      BY <1>1, <2>1, <3>1 DEF Begin, Claim, FileStep, RecorderTypeOK
    <3> QED BY <1>2, <2>1, <3>1 DEF Begin
  <2>2. CASE AwaitInputs \/ AwaitStart \/ Decide \/ Keep
    BY <1>0, <1>2, <2>2 DEF AwaitInputs, AwaitStart, Decide, Keep, files
  <2>3. CASE Commit
    <3>1. CASE Publishable /\ Write(episode, "complete")
      BY <1>1, <2>3, <3>1 DEF Commit, Write, FileStep, FilesFollowThread,
         RecorderTypeOK
    <3> QED BY <1>2, <2>3, <3>1 DEF Commit
  <2> QED BY <1>3, <2>1, <2>2, <2>3 DEF RecorderThread
<1>4. CASE \/ TakeSample \/ AppendSample \/ CancelRecording \/ RecorderDies
           \/ UNCHANGED recorder
  BY <1>0, <1>4 DEF TakeSample, AppendSample, CancelRecording, RecorderDies,
     recorder, files
<1>5. ASSUME NEW x \in Episodes,
             \/ Reserve(x) \/ Forget(x) \/ MarkStart(x) \/ MarkStop(x)
             \/ FinalizeRecording(x) \/ ReviewEpisode(x)
      PROVE  FileStep(e)
  BY <1>0, <1>5 DEF Reserve, Forget, MarkStart, MarkStop, FinalizeRecording,
     ReviewEpisode, files
<1> QED BY <1>3, <1>4, <1>5 DEF RecorderMove, RecorderStep

(* Only a whole tape becomes a complete episode, which is not written      *)
(* again.                                                                  *)
LEMMA PublishedKeeps ==
    ASSUME RecorderInv, RecorderMove
    PROVE  PublishedIsWhole'
<1> SUFFICES ASSUME NEW e \in Episodes, disk'[e].state = "complete"
             PROVE  Whole(disk'[e].tape)
  BY PublishedMeansWhole DEF PublishedIsWhole, Whole
<1>1. FileStep(e)
  BY OnDisk DEF RecorderInv
<1>2. CASE disk'[e] = disk[e]
  BY <1>2, PublishedMeansWhole DEF RecorderInv
<1>3. CASE Publishable /\ disk'[e] = [state |-> "complete", tape |-> tape]
  BY <1>3, PublishableIsWhole DEF RecorderInv
<1> QED BY <1>1, <1>2, <1>3 DEF FileStep

(* The default selection gives way to a person's.                          *)
LEMMA ReviewsKeep ==
    ASSUME RecorderTypeOK, FilesFollowThread, RecorderMove,
           NEW e \in Episodes
    PROVE  /\ review[e] = "decided" => review'[e] = "decided"
           /\ review[e] # "none" => review'[e] # "none"
<1>0. review' = review =>
        /\ review[e] = "decided" => review'[e] = "decided"
        /\ review[e] # "none" => review'[e] # "none"
  OBVIOUS
<1>1. CASE Keep
  BY <1>1 DEF Keep, RecorderTypeOK
<1>2. CASE RecorderThread /\ ~Keep
  BY <1>0, <1>2 DEF RecorderThread, Begin, AwaitInputs, AwaitStart, Decide,
     Commit, files
<1>3. CASE \/ TakeSample \/ AppendSample \/ CancelRecording \/ RecorderDies
           \/ UNCHANGED recorder
  BY <1>0, <1>3 DEF TakeSample, AppendSample, CancelRecording, RecorderDies,
     recorder, files
<1>4. ASSUME NEW x \in Episodes,
             \/ Reserve(x) \/ Forget(x) \/ MarkStart(x) \/ MarkStop(x)
             \/ FinalizeRecording(x)
      PROVE  review' = review
  BY <1>4 DEF Reserve, Forget, MarkStart, MarkStop, FinalizeRecording, files
<1>5. ASSUME NEW x \in Episodes, ReviewEpisode(x)
      PROVE  /\ review[e] = "decided" => review'[e] = "decided"
             /\ review[e] # "none" => review'[e] # "none"
  BY <1>5 DEF ReviewEpisode, RecorderTypeOK
<1> QED BY <1>0, <1>1, <1>2, <1>3, <1>4, <1>5 DEF RecorderMove, RecorderStep

-----------------------------------------------------------------------------
(* The thread of a recording goes on, or ends, or has just been reserved.  *)
LEMMA EndFollows ==
    ASSUME RecorderTypeOK, FilesFollowThread, NEW status, End(status),
           recording # "idle", status # "succeeded",
           \A e \in Episodes : review[e] # "none" => review'[e] # "none"
    PROVE  FilesFollowThread'
<1>1. episode \in Episodes
  BY DEF FilesFollowThread, RecorderTypeOK
<1>2. recording' = "idle" /\ episode' = None
        /\ recorded' = [recorded EXCEPT ![episode] = status]
  BY DEF End
<1>3. ASSUME NEW e \in Episodes, recorded'[e] = "succeeded"
      PROVE  disk'[e].state = "complete" /\ review'[e] # "none"
  <2>1. recorded[e] = "succeeded"
    BY <1>1, <1>2, <1>3 DEF RecorderTypeOK
  <2> QED BY <1>3, <2>1, EndOnDisk DEF FilesFollowThread
<1> QED BY <1>2, <1>3 DEF FilesFollowThread

LEMMA ThreadFollows ==
    ASSUME RecorderInv, RecorderThread
    PROVE  FilesFollowThread'
<1> USE EpisodesAssumption DEF RecorderInv
<1>1. recording # "idle" => episode \in Episodes
  BY DEF FilesFollowThread, RecorderTypeOK
<1>2. RecorderMove
  BY DEF RecorderMove, RecorderStep
<1>3. \A e \in Episodes : review[e] # "none" => review'[e] # "none"
  BY <1>2, ReviewsKeep
<1>4. ASSUME NEW status \in {"canceled", "aborted"}, End(status), recording # "idle"
      PROVE  FilesFollowThread'
  BY <1>3, <1>4, EndFollows
<1>5. CASE Begin
  <2>1. CASE /\ Claim(episode) /\ recording' = "waiting"
             /\ UNCHANGED <<episode, review, recorded>>
    <3>1. episode \in Episodes /\ disk'[episode].state = "recording"
      BY <1>1, <1>5, <2>1 DEF Begin, Claim, RecorderTypeOK
    <3>2. \A e \in Episodes : disk[e].state = "complete" => disk'[e] = disk[e]
      BY <1>1, <1>5, <2>1 DEF Begin, Claim, RecorderTypeOK
    <3> QED BY <2>1, <3>1, <3>2 DEF FilesFollowThread
  <2> QED BY <1>4, <1>5, <2>1 DEF Begin
<1>6. CASE AwaitInputs \/ AwaitStart
  <2>1. CASE /\ recording \in {"waiting", "ready"}
             /\ recording' \in {"ready", "sampling"}
             /\ UNCHANGED <<episode, files, recorded>>
    BY <1>6, <2>1 DEF files, FilesFollowThread
  <2> QED BY <1>4, <1>6, <2>1 DEF AwaitInputs, AwaitStart
<1>7. CASE Decide
  <2>1. CASE recording' = "committing" /\ UNCHANGED <<episode, files, recorded>>
    BY <1>7, <2>1 DEF Decide, files, FilesFollowThread
  <2> QED BY <1>4, <1>7, <2>1 DEF Decide
<1>8. CASE Commit
  <2>1. CASE /\ Write(episode, "complete") /\ recording' = "keeping"
             /\ UNCHANGED <<episode, flags, tape, hand, review, recorded>>
    <3>1. disk' = [disk EXCEPT ![episode] = [state |-> "complete", tape |-> tape]]
      BY <2>1 DEF Write
    <3>2. episode \in Episodes /\ disk'[episode].state = "complete"
      BY <1>1, <1>8, <3>1 DEF Commit, RecorderTypeOK
    <3>3. \A e \in Episodes : disk[e].state = "complete" =>
                                disk'[e].state = "complete"
      BY <1>1, <1>8, <3>1 DEF Commit, RecorderTypeOK
    <3> QED BY <2>1, <3>2, <3>3 DEF FilesFollowThread
  <2> QED BY <1>4, <1>8, <2>1 DEF Commit
<1>9. CASE Keep
  <2>1. CASE End("aborted")
    BY <1>4, <1>9, <2>1 DEF Keep
  <2>2. CASE /\ review' = (IF review[episode] = "none"
                           THEN [review EXCEPT ![episode] = "kept"] ELSE review)
             /\ End("succeeded")
    <3>1. episode \in Episodes /\ disk[episode].state = "complete"
      BY <1>1, <1>9 DEF Keep, FilesFollowThread
    <3>2. disk' = disk /\ recording' = "idle" /\ episode' = None
            /\ recorded' = [recorded EXCEPT ![episode] = "succeeded"]
      BY <2>2, <3>1 DEF End
    <3>3. review'[episode] # "none"
      BY <2>2, <3>1 DEF RecorderTypeOK
    <3> QED BY <1>3, <3>1, <3>2, <3>3 DEF FilesFollowThread, RecorderTypeOK
  <2> QED BY <1>9, <2>1, <2>2 DEF Keep
<1> QED BY <1>5, <1>6, <1>7, <1>8, <1>9 DEF RecorderThread

LEMMA RecorderKeeps ==
    ASSUME RecorderInv, RecorderMove
    PROVE  RecorderInv'
<1> USE EpisodesAssumption
<1>1. \A e \in Episodes : review[e] # "none" => review'[e] # "none"
  BY ReviewsKeep DEF RecorderInv
<1>2. ASSUME UNCHANGED <<recording, episode, disk>>,
             \A e \in Episodes : recorded'[e] \in {recorded[e], "none"}
      PROVE  FilesFollowThread'
  BY <1>1, <1>2 DEF FilesFollowThread, RecorderInv
<1>3. FilesFollowThread'
  <2>1. CASE RecorderThread
    BY <2>1, ThreadFollows
  <2>2. CASE TakeSample \/ AppendSample \/ CancelRecording \/ UNCHANGED recorder
    BY <1>2, <2>2 DEF TakeSample, AppendSample, CancelRecording, recorder, files
  <2>3. CASE RecorderDies
    BY <2>3 DEF RecorderDies, files, FilesFollowThread, RecorderInv
  <2>4. ASSUME NEW e \in Episodes, Reserve(e) PROVE FilesFollowThread'
    BY <2>4 DEF Reserve, files, FilesFollowThread, RecorderInv, RecorderTypeOK
  <2>5. ASSUME NEW e \in Episodes,
               \/ Forget(e) \/ MarkStart(e) \/ MarkStop(e)
               \/ FinalizeRecording(e) \/ ReviewEpisode(e)
        PROVE  FilesFollowThread'
    BY <1>2, <2>5 DEF Forget, MarkStart, MarkStop, FinalizeRecording,
       ReviewEpisode, files, RecorderInv, RecorderTypeOK
  <2> QED BY <2>1, <2>2, <2>3, <2>4, <2>5 DEF RecorderMove, RecorderStep
<1>4. RecorderTypeOK' /\ TapeInOrder' /\ PublishedIsWhole'
  BY RecorderTypes, TapeKeeps, PublishedKeeps DEF RecorderInv
<1> QED BY <1>3, <1>4 DEF RecorderInv

-----------------------------------------------------------------------------
(* The tables of calls, by row.                                            *)

CallPlaces == {"stopIdle", "power", "unpower", "freeTeleop", "limp", "seize",
               "hold", "free", "enable", "limber"}
CallRow(s, v, n) ==
    \/ pc = "stopIdle" /\ s = "teleop" /\ v = "off" /\ n = "rearm"
    \/ pc = "power" /\ s = "follower" /\ v = "on" /\ n = "preflight"
    \/ pc = "unpower" /\ s = "follower" /\ v = "off" /\ n = "failed"
    \/ pc = "freeTeleop" /\ s = "teleop" /\ v = "off" /\ n = "limp"
    \/ pc = "limp" /\ s = "torque" /\ v = "off" /\ n = "seize"
    \/ pc = "seize" /\ s = "leader" /\ v = "on" /\ n = "hold"
    \/ pc = "hold" /\ s = "torque" /\ v = "on" /\ n = "move"
    \/ pc = "free" /\ s = "leader" /\ v = "off" /\ n = "enable"
    \/ pc = "enable" /\ s = "teleop" /\ v = "on" /\ n = "limber"
    \/ pc = "limber" /\ s = "torque" /\ v = "off" /\ n = "record"
ReleaseRow(s, n) ==
    \/ pc = "endTeleop" /\ s = "teleop" /\ n = "endTorque"
    \/ pc = "endTorque" /\ s = "torque" /\ n = "endLeader"
    \/ pc = "endLeader" /\ s = "leader" /\ n = "endRecorder"
ResetRow(s, n) ==
    \/ recovery = "resetTeleop" /\ s = "teleop" /\ n = "resetFollower"
    \/ recovery = "resetFollower" /\ s = "follower" /\ n = "resetTorque"
    \/ recovery = "resetTorque" /\ s = "torque" /\ n = "resetLeader"
    \/ recovery = "resetLeader" /\ s = "leader" /\ n = "done"
OrderRow(n) ==
    \/ recovery = "teleop" /\ n = "leader"
    \/ recovery = "leader" /\ n = "torque"
    \/ recovery = "torque" /\ n = "follower"
    \/ recovery = "follower" /\ n = "idle"

LEMMA Tables ==
    /\ DOMAIN Calls = CallPlaces
    /\ DOMAIN Releases = {"endTeleop", "endTorque", "endLeader"}
    /\ DOMAIN Resets = {"resetTeleop", "resetFollower", "resetTorque",
                        "resetLeader"}
    /\ DOMAIN ReleaseOrder = {"teleop", "leader", "torque", "follower"}
  BY DEF Calls, CallPlaces, Releases, Resets, ReleaseOrder

LEMMA CallTable ==
    ASSUME pc \in DOMAIN Calls
    PROVE  CallRow(Calls[pc].on, Calls[pc].to, Calls[pc].next)
  BY DEF Calls, CallRow

LEMMA ReleaseTable ==
    ASSUME pc \in DOMAIN Releases
    PROVE  ReleaseRow(Releases[pc].on, Releases[pc].next)
  BY DEF Releases, ReleaseRow

LEMMA ResetTable ==
    ASSUME recovery \in DOMAIN Resets
    PROVE  ResetRow(Resets[recovery].on, Resets[recovery].next)
  BY DEF Resets, ResetRow

LEMMA OrderTable ==
    ASSUME recovery \in DOMAIN ReleaseOrder
    PROVE  OrderRow(ReleaseOrder[recovery])
  BY DEF ReleaseOrder, OrderRow

-----------------------------------------------------------------------------
(* The coordinator: types *)

HardwareTypeOK ==
    /\ device \in [Services -> {"on", "off"}]
    /\ overdue \in [Services -> {"none", "on", "off"}]
    /\ faults \in 0 .. MaxFaults

(* Which call each step may make, and who turns a service on.              *)
Asks(s, v) == Succeeds(s, v) \/ Fails(s, v)
AsksOn(s) ==
    \/ s = "torque" /\ Call /\ pc = "hold"
    \/ s = "torque" /\ HeartbeatFails /\ pc \in {"home", "first"}
    \/ s = "teleop" /\ Call /\ pc = "enable"
    \/ s = "teleop" /\ HeartbeatFails /\ pc = "record"
    \/ s = "teleop" /\ IdleHeartbeat
    \/ s = "leader" /\ Call /\ pc = "seize"
    \/ s = "follower" /\ Call /\ pc = "power"
HardwareMove ==
    \/ UNCHANGED hardware
    \/ Fault /\ UNCHANGED <<device, overdue>>
    \/ \E s \in Services, v \in {"on", "off"} :
         Asks(s, v) /\ (v = "on" => AsksOn(s))
    \/ \E s \in Services : ServeLate(s)
    \/ Restart

LEMMA OnlyTheseCall ==
    ASSUME [Next]_vars
    PROVE  HardwareMove
<1> USE DEF HardwareMove
<1>1. CASE Call
  <2>1. CallRow(Calls[pc].on, Calls[pc].to, Calls[pc].next)
    BY <1>1, CallTable DEF Call
  <2>2. Asks(Calls[pc].on, Calls[pc].to) \/ UNCHANGED hardware
    BY <1>1 DEF Call, Asks
  <2>3. Calls[pc].on \in Services /\ Calls[pc].to \in {"on", "off"}
    BY <2>1 DEF CallRow, Services
  <2>4. Calls[pc].to = "on" => AsksOn(Calls[pc].on)
    BY <1>1, <2>1 DEF CallRow, AsksOn
  <2> QED BY <2>2, <2>3, <2>4
<1>2. CASE HeartbeatFails \/ IdleHeartbeat
  <2>1. \/ Asks("teleop", "on") /\ AsksOn("teleop")
        \/ Asks("torque", "on") /\ AsksOn("torque")
    BY <1>2 DEF HeartbeatFails, IdleHeartbeat, Asks, AsksOn
  <2>2. "teleop" \in Services /\ "torque" \in Services
    BY DEF Services
  <2> QED BY <2>1, <2>2
<1>3. CASE ReleaseControl
  <2>1. Releases[pc].on \in Services
    BY <1>3, ReleaseTable DEF ReleaseControl, ReleaseRow, Services
  <2> QED BY <1>3, <2>1 DEF ReleaseControl, Asks
<1>4. CASE Release
  <2>1. recovery \in Services
    BY <1>4, Tables DEF Release, Services
  <2> QED BY <1>4, <2>1 DEF Release, Asks
<1>5. CASE Reset
  <2>1. Resets[recovery].on \in Services
    BY <1>5, ResetTable DEF Reset, ResetRow, Services
  <2> QED BY <1>5, <2>1 DEF Reset, Asks
<1>6. CASE \/ DrainFails \/ StartRecorder \/ MarkEvent \/ Finalize
           \/ AwaitResult \/ AwaitRecorder
  BY <1>6 DEF DrainFails, StartRecorder, MarkEvent, Finalize, AwaitResult,
     AwaitRecorder
<1>7. CASE \/ \E e \in Episodes : Goal(e)
           \/ Start \/ Rearm \/ Preflight \/ TeamDone \/ TeamStops
           \/ \E c \in Children : SendChild(c) \/ ChildStep(c)
           \/ Drained \/ GiveUp \/ Wait \/ ReleaseRecorder \/ EndGoal
           \/ Cancel \/ RequestBegin \/ RequestFinalize
           \/ BeginRelease \/ BeginReset \/ RecorderRuns \/ Review
  BY <1>7 DEF Goal, Start, Rearm, Preflight, TeamDone, TeamStops, SendChild,
     ChildStep, Drained, GiveUp, Wait, ReleaseRecorder, EndGoal, Cancel,
     RequestBegin, RequestFinalize, BeginRelease, BeginReset, RecorderRuns,
     Review
<1>8. CASE UNCHANGED vars
  BY <1>8 DEF vars
<1> QED BY <1>1, <1>2, <1>3, <1>4, <1>5, <1>6, <1>7, <1>8 DEF Next, GoalThread

LEMMA HardwareTypes ==
    ASSUME HardwareTypeOK, HardwareMove
    PROVE  HardwareTypeOK' /\ faults' >= faults
<1> USE FaultsAssumption DEF HardwareTypeOK
<1>1. ASSUME NEW s \in Services, NEW v \in {"on", "off"}, Asks(s, v)
      PROVE  HardwareTypeOK' /\ faults' >= faults
  <2>1. faults' \in 0 .. MaxFaults /\ faults' >= faults
    BY <1>1 DEF Asks, Succeeds, Fails
  <2>2. device' \in [Services -> {"on", "off"}]
    BY <1>1 DEF Asks, Succeeds, Fails
  <2>3. overdue' \in [Services -> {"none", "on", "off"}]
    BY <1>1 DEF Asks, Succeeds, Fails
  <2> QED BY <2>1, <2>2, <2>3
<1>2. ASSUME NEW s \in Services, ServeLate(s)
      PROVE  HardwareTypeOK' /\ faults' >= faults
  BY <1>2 DEF ServeLate
<1>3. CASE Restart
  BY <1>3 DEF Restart, Services
<1>4. CASE UNCHANGED hardware \/ (Fault /\ UNCHANGED <<device, overdue>>)
  BY <1>4 DEF hardware, Fault
<1> QED BY <1>1, <1>2, <1>3, <1>4 DEF HardwareMove

(* A call that succeeds leaves nothing overdue behind.                     *)
LEMMA TurnedOff ==
    ASSUME HardwareTypeOK, NEW s \in Services, Succeeds(s, "off")
    PROVE  Off(s)'
  BY DEF HardwareTypeOK, Succeeds, Off

(* What is off stays off, unless somebody asks for it.                     *)
LEMMA OffUnlessAsked ==
    ASSUME HardwareTypeOK, HardwareMove, NEW s \in Services, Off(s),
           ~AsksOn(s), s = "follower" => ~Restart
    PROVE  Off(s)'
<1> USE DEF HardwareTypeOK, Off
<1>1. ASSUME NEW t \in Services, NEW v \in {"on", "off"}, Asks(t, v),
             t # s \/ v = "off"
      PROVE  Off(s)'
  BY <1>1 DEF Asks, Succeeds, Fails
<1>2. ASSUME NEW t \in Services, ServeLate(t) PROVE Off(s)'
  BY <1>2 DEF ServeLate
<1>3. CASE Restart
  BY <1>3 DEF Restart
<1>4. CASE UNCHANGED hardware \/ (Fault /\ UNCHANGED <<device, overdue>>)
  BY <1>4 DEF hardware
<1> QED BY <1>1, <1>2, <1>3, <1>4 DEF HardwareMove

(* Where the thread of the goal and that of the recovery may be.           *)
Places == CallPlaces \cup {"endTeleop", "endTorque", "endLeader"}
            \cup {"admission", "home", "markStart", "first", "record",
                  "stopping", "markStop", "finalize", "idle", "start", "rearm",
                  "preflight", "detect", "recorder", "acquire", "move",
                  "drain", "result", "insist", "succeed", "endRecorder",
                  "endResult", "end"}
Recoveries == {"idle", "teleop", "leader", "torque", "follower",
               "resetTeleop", "resetFollower", "resetTorque", "resetLeader"}

LEMMA SetsOfPlaces ==
    /\ DOMAIN Calls \cup DOMAIN Releases \cup Waits \cup
         {"idle", "start", "rearm", "preflight", "detect", "recorder",
          "acquire", "move", "drain", "result", "insist", "succeed",
          "endRecorder", "endResult", "end"} = Places
    /\ {"idle"} \cup DOMAIN ReleaseOrder \cup DOMAIN Resets = Recoveries
  BY Tables DEF Places, Recoveries, Waits, CallPlaces

(* What is moved by whom, as far as types go.                              *)
LEMMA PlaceTypes ==
    ASSUME pc \in Places, [Next]_vars
    PROVE  pc' \in Places
<1>1. CASE Call
  <2>1. CallRow(Calls[pc].on, Calls[pc].to, Calls[pc].next)
    BY <1>1, CallTable DEF Call
  <2>2. pc' \in {Calls[pc].next, "unpower", "endTeleop"}
    BY <1>1 DEF Call, Raise
  <2>3. Calls[pc].next = "failed" => pc' \in {"unpower", "endTeleop"}
    BY <1>1, <2>1 DEF Call, Raise, CallRow
  <2> QED BY <2>1, <2>2, <2>3 DEF CallRow, Places, CallPlaces
<1>2. CASE ReleaseControl
  BY <1>2, ReleaseTable DEF ReleaseControl, ReleaseRow, Places
<1>3. CASE Start \/ Rearm \/ Preflight \/ TeamDone \/ TeamStops
  BY <1>3 DEF Start, Rearm, Preflight, TeamDone, TeamStops, Raise, Leave,
     Places, CallPlaces
<1>4. CASE Drained \/ DrainFails \/ StartRecorder \/ GiveUp \/ HeartbeatFails
  BY <1>4 DEF Drained, DrainFails, StartRecorder, GiveUp, HeartbeatFails, Raise,
     Leave, Places
<1>5. CASE Wait
  BY <1>5 DEF Wait, Places, CallPlaces
<1>6. CASE MarkEvent \/ Finalize \/ AwaitResult
  BY <1>6 DEF MarkEvent, Finalize, AwaitResult, Raise, Leave, Places
<1>7. CASE ReleaseRecorder \/ AwaitRecorder \/ EndGoal \/ Restart
  BY <1>7 DEF ReleaseRecorder, AwaitRecorder, EndGoal, Restart, Places
<1>8. ASSUME NEW e \in Episodes, Goal(e) PROVE pc' \in Places
  BY <1>8 DEF Goal, Places
<1>9. CASE \/ \E c \in Children : SendChild(c) \/ ChildStep(c)
           \/ \E s \in Services : ServeLate(s)
           \/ Cancel \/ RequestBegin \/ RequestFinalize \/ IdleHeartbeat
           \/ BeginRelease \/ Release \/ BeginReset \/ Reset
           \/ RecorderRuns \/ Review \/ UNCHANGED vars
  BY <1>9 DEF SendChild, ChildStep, ServeLate, Cancel, RequestBegin,
     RequestFinalize, IdleHeartbeat, BeginRelease, Release, BeginReset, Reset,
     RecorderRuns, Review, vars
<1> QED BY <1>1, <1>2, <1>3, <1>4, <1>5, <1>6, <1>7, <1>8, <1>9
        DEF Next, GoalThread

FlagsTypeOK ==
    /\ cancelAsked \in BOOLEAN /\ beginAsked \in BOOLEAN
    /\ finishAsked \in BOOLEAN /\ unclean \in BOOLEAN /\ blocked \in BOOLEAN
    /\ torqueReleased \in BOOLEAN /\ resetReady \in BOOLEAN
    /\ postTeleop \in BOOLEAN /\ stopIdle \in BOOLEAN
RestTypeOK ==
    /\ goal \in Episodes \cup {None}
    /\ why \in {"none", "failed", "canceled"}
    /\ owns \subseteq {"teleop", "torque", "leader", "recorder"}
    /\ recovery \in Recoveries
    /\ child \in [Children -> {"none", "sent", "live", "done", "bad"}]
    /\ outcome \in [Episodes -> {"none"} \cup Results]

LEMMA PartsOfTypeOK ==
    /\ TypeOK <=> /\ RecorderTypeOK /\ pc \in Places
                  /\ FlagsTypeOK /\ RestTypeOK /\ HardwareTypeOK
    /\ TypeOK' <=> /\ RecorderTypeOK' /\ pc' \in Places
                   /\ FlagsTypeOK' /\ RestTypeOK' /\ HardwareTypeOK'
  BY SetsOfPlaces DEF TypeOK, FlagsTypeOK, RestTypeOK, HardwareTypeOK

LEMMA FlagTypes ==
    ASSUME FlagsTypeOK, [Next]_vars
    PROVE  FlagsTypeOK'
<1> USE DEF FlagsTypeOK, requests, verdict, safety, idleTeleop
<1>1. CASE Call
  BY <1>1 DEF Call, Raise
<1>2. CASE ReleaseControl
  BY <1>2 DEF ReleaseControl
<1>3. CASE Start \/ Rearm \/ Preflight \/ TeamDone \/ TeamStops
  BY ZenonT(40), <1>3 DEF Start, Rearm, Preflight, TeamDone, TeamStops,
       Raise, Leave
<1>4. CASE Drained \/ DrainFails \/ StartRecorder \/ GiveUp \/ HeartbeatFails
  BY ZenonT(40), <1>4 DEF Drained, DrainFails, StartRecorder, GiveUp,
       HeartbeatFails, Raise, Leave
<1>5. CASE Wait
  BY <1>5 DEF Wait
<1>6. CASE MarkEvent \/ Finalize \/ AwaitResult
  BY ZenonT(40), <1>6 DEF MarkEvent, Finalize, AwaitResult, Raise, Leave
<1>7. CASE ReleaseRecorder \/ AwaitRecorder \/ EndGoal \/ Restart
  BY <1>7 DEF ReleaseRecorder, AwaitRecorder, EndGoal, Restart
<1>8. ASSUME NEW e \in Episodes, Goal(e) PROVE FlagsTypeOK'
  BY <1>8 DEF Goal
<1>9. CASE \/ \E c \in Children : SendChild(c) \/ ChildStep(c)
           \/ \E s \in Services : ServeLate(s)
  BY <1>9 DEF SendChild, ChildStep, ServeLate
<1>11. CASE Cancel \/ RequestBegin \/ RequestFinalize \/ IdleHeartbeat
  BY <1>11 DEF Cancel, RequestBegin, RequestFinalize, IdleHeartbeat
<1>10. CASE \/ BeginRelease \/ Release \/ BeginReset \/ Reset
            \/ RecorderRuns \/ Review \/ UNCHANGED vars
  BY ZenonT(40), <1>10 DEF BeginRelease, Release, BeginReset, Reset,
       RecorderRuns, Review, vars
<1> QED BY <1>1, <1>2, <1>3, <1>4, <1>5, <1>6, <1>7, <1>8, <1>9, <1>10, <1>11
        DEF Next, GoalThread

LEMMA RestTypes ==
    ASSUME RestTypeOK, [Next]_vars
    PROVE  RestTypeOK'
<1> USE DEF RestTypeOK, requests, verdict, safety, idleTeleop
<1>1. CASE Call
  BY <1>1 DEF Call, Raise
<1>2. CASE ReleaseControl
  BY <1>2 DEF ReleaseControl
<1>3. CASE Start \/ Rearm \/ Preflight \/ TeamDone \/ TeamStops
  BY <1>3 DEF Start, Rearm, Preflight, TeamDone, TeamStops, Raise, Leave
<1>4. CASE Drained \/ DrainFails \/ StartRecorder \/ GiveUp \/ HeartbeatFails
  BY <1>4 DEF Drained, DrainFails, StartRecorder, GiveUp, HeartbeatFails, Raise,
     Leave
<1>5. CASE Wait
  BY <1>5 DEF Wait
<1>6. CASE MarkEvent \/ Finalize \/ AwaitResult
  BY <1>6 DEF MarkEvent, Finalize, AwaitResult, Raise, Leave
<1>7. CASE ReleaseRecorder \/ AwaitRecorder \/ EndGoal \/ Restart
  <2>1. outcome' \in [Episodes -> {"none"} \cup Results]
    BY <1>7 DEF ReleaseRecorder, AwaitRecorder, EndGoal, Restart, Results
  <2> QED BY <1>7, <2>1 DEF ReleaseRecorder, AwaitRecorder, EndGoal, Restart,
          Recoveries, Children
<1>8. ASSUME NEW e \in Episodes, Goal(e) PROVE RestTypeOK'
  BY <1>8 DEF Goal
<1>9. CASE \/ \E c \in Children : SendChild(c) \/ ChildStep(c)
           \/ \E s \in Services : ServeLate(s)
           \/ Cancel \/ RequestBegin \/ RequestFinalize \/ IdleHeartbeat
  BY <1>9 DEF SendChild, ChildStep, ServeLate, Cancel, RequestBegin,
     RequestFinalize, IdleHeartbeat
<1>10. CASE BeginRelease \/ BeginReset
  BY <1>10 DEF BeginRelease, BeginReset, Recoveries
<1>11. CASE Release
  BY <1>11, OrderTable DEF Release, OrderRow, Recoveries
<1>12. CASE Reset
  <2>1. ResetRow(Resets[recovery].on, Resets[recovery].next)
    BY <1>12, ResetTable DEF Reset
  <2>2. recovery' \in Recoveries
    BY <1>12, <2>1 DEF Reset, ResetRow, Recoveries
  <2> QED BY <1>12, <2>2 DEF Reset
<1>13. CASE RecorderRuns \/ Review \/ UNCHANGED vars
  BY <1>13 DEF RecorderRuns, Review, vars
<1> QED BY <1>1, <1>2, <1>3, <1>4, <1>5, <1>6, <1>7, <1>8, <1>9, <1>10, <1>11,
        <1>12, <1>13 DEF Next, GoalThread

LEMMA CoordinatorTypes ==
    ASSUME TypeOK, RecorderTypeOK', [Next]_vars
    PROVE  TypeOK'
  BY PartsOfTypeOK, PlaceTypes, FlagTypes, RestTypes, OnlyTheseCall,
     HardwareTypes

-----------------------------------------------------------------------------
(* The coordinator: its place, and what it owns.                           *)

LEMMA PlaceKeeps ==
    ASSUME TypeOK, PlaceOfGoal, [Next]_vars
    PROVE  PlaceOfGoal'
<1> USE EpisodesAssumption DEF PlaceOfGoal, verdict, safety
<1>t. /\ FlagsTypeOK /\ goal \in Episodes \cup {None}
      /\ outcome \in [Episodes -> {"none"} \cup Results]
  BY PartsOfTypeOK DEF RestTypeOK
<1>r. Releasing = {"endTeleop", "endTorque", "endLeader", "endRecorder",
                   "endResult", "end"}
  BY Tables DEF Releasing
<1>1. ASSUME NEW e \in Episodes, Goal(e) PROVE PlaceOfGoal'
  BY <1>t, <1>1 DEF Goal, Admits, safety
<1>2. CASE Call
  <2>1. CallRow(Calls[pc].on, Calls[pc].to, Calls[pc].next)
    BY <1>2, CallTable DEF Call
  <2>2. pc' # "idle" /\ pc # "idle" /\ pc \notin Releasing
    BY <1>2, <1>r, <2>1 DEF Call, CallRow, Raise
  <2>3. blocked' => pc' = "endTeleop" /\ why' = "failed"
    BY <1>2, <1>t, <2>2 DEF Call, Raise, FlagsTypeOK
  <2>4. pc # "drain" /\ (pc' = "endTeleop" \/ why' = why)
    BY <1>2, <2>1 DEF Call, CallRow, Raise
  <2> QED BY <1>2, <1>r, <2>2, <2>3, <2>4 DEF Call
<1>3. CASE Start \/ Rearm \/ Preflight \/ TeamDone \/ TeamStops \/ Drained
  BY <1>3, <1>r DEF Start, Rearm, Preflight, TeamDone, TeamStops, Drained, Raise,
     Leave
<1>4. CASE DrainFails \/ StartRecorder
  BY <1>4, <1>r DEF DrainFails, StartRecorder, Raise, Leave
<1>5. CASE GiveUp \/ Wait \/ HeartbeatFails
  <2>1. CASE GiveUp
    BY <1>r, <2>1 DEF GiveUp, Waits, Raise
  <2>2. CASE Wait
    BY <1>r, <2>2 DEF Wait
  <2>3. CASE HeartbeatFails
    BY <1>r, <2>3 DEF HeartbeatFails, Raise
  <2> QED BY <1>5, <2>1, <2>2, <2>3
<1>6. CASE MarkEvent \/ Finalize \/ AwaitResult
  BY <1>6, <1>r DEF MarkEvent, Finalize, AwaitResult, Raise, Leave
<1>7. CASE ReleaseControl
  <2>1. ReleaseRow(Releases[pc].on, Releases[pc].next)
    BY <1>7, ReleaseTable DEF ReleaseControl
  <2> QED BY <1>7, <1>r, <2>1 DEF ReleaseControl, ReleaseRow
<1>8. CASE ReleaseRecorder \/ AwaitRecorder
  BY <1>8, <1>r, <1>t DEF ReleaseRecorder, AwaitRecorder, FlagsTypeOK
<1>9. CASE EndGoal \/ Restart
  BY <1>9 DEF EndGoal, Restart
<1>10. CASE \/ \E c \in Children : SendChild(c) \/ ChildStep(c)
            \/ \E s \in Services : ServeLate(s)
            \/ Cancel \/ RequestBegin \/ RequestFinalize \/ IdleHeartbeat
            \/ RecorderRuns \/ Review \/ UNCHANGED vars
  BY <1>10 DEF SendChild, ChildStep, ServeLate, Cancel, RequestBegin,
     RequestFinalize, IdleHeartbeat, RecorderRuns, Review, vars
<1>11. CASE BeginRelease \/ Release \/ BeginReset \/ Reset
  BY <1>11, Tables DEF BeginRelease, Release, BeginReset, Reset
<1> QED BY <1>1, <1>2, <1>3, <1>4, <1>5, <1>6, <1>7, <1>8, <1>9, <1>10, <1>11
        DEF Next, GoalThread

LEMMA OwnershipKeeps ==
    ASSUME TypeOK, PlaceOfGoal, Ownership, [Next]_vars
    PROVE  Ownership'
<1> USE DEF Ownership, verdict, safety, Early, Gripped, Let
<1>t. FlagsTypeOK /\ pc \in Places
  BY PartsOfTypeOK
<1>r. Releasing = {"endTeleop", "endTorque", "endLeader", "endRecorder",
                   "endResult", "end"}
  BY Tables DEF Releasing
<1>b. goal # None /\ pc \notin Releasing => ~blocked
  BY DEF PlaceOfGoal
<1>1. ASSUME NEW e \in Episodes, Goal(e) PROVE Ownership'
  BY <1>1 DEF Goal, Admits
<1>2. CASE Call
  <2>1. CallRow(Calls[pc].on, Calls[pc].to, Calls[pc].next)
    BY <1>2, CallTable DEF Call
  <2>2. pc # "idle" /\ goal # None /\ goal' = goal /\ pc \notin Releasing
    BY <1>2, <1>r, <2>1 DEF Call, CallRow, PlaceOfGoal
  <2>3. CASE pc' = "endTeleop"
    BY <2>2, <2>3
  <2>4. CASE pc' # "endTeleop"
    <3>1. \/ pc' = Calls[pc].next /\ blocked' = blocked
             /\ owns' = CASE pc = "seize" -> owns \cup {"leader"}
                          [] pc = "enable" -> owns \cup {"teleop"}
                          [] pc = "free" -> owns \ {"leader"}
                          [] pc = "limber" -> owns \ {"torque"}
                          [] OTHER -> owns
          \/ pc = "power" /\ pc' = "unpower" /\ owns' = owns
      BY <1>2, <2>4 DEF Call, Raise
    <3> QED BY <1>b, <2>1, <2>2, <3>1 DEF CallRow
  <2> QED BY <2>3, <2>4
<1>3. CASE Start \/ Rearm \/ Preflight \/ TeamDone \/ TeamStops \/ Drained
  <2>1. CASE Start \/ Rearm
    BY <2>1 DEF Start, Rearm, Raise, PlaceOfGoal
  <2>2. CASE Preflight
    <3>1. /\ pc' \in {"detect", "recorder", "endTeleop"} \/ pc = "acquire"
          /\ pc = "acquire" => pc' \in {"freeTeleop", "endTeleop"}
      BY <2>2 DEF Preflight, Raise, Leave
    <3> QED BY <2>2, <3>1 DEF Preflight, PlaceOfGoal
  <2>3. CASE TeamDone \/ TeamStops \/ Drained
    BY <2>3 DEF TeamDone, TeamStops, Drained, Raise, PlaceOfGoal
  <2> QED BY <1>3, <2>1, <2>2, <2>3
<1>4. CASE DrainFails \/ StartRecorder
  BY <1>4 DEF DrainFails, StartRecorder, Raise, Leave, PlaceOfGoal
<1>5. CASE GiveUp \/ Wait \/ HeartbeatFails
  BY <1>5, <1>b, <1>r DEF GiveUp, Wait, Waits, HeartbeatFails, Raise, PlaceOfGoal
<1>6. CASE MarkEvent \/ Finalize \/ AwaitResult
  BY <1>6, <1>b, <1>r DEF MarkEvent, Finalize, AwaitResult, Raise, Leave,
     PlaceOfGoal
<1>7. CASE ReleaseControl
  <2>1. ReleaseRow(Releases[pc].on, Releases[pc].next)
    BY <1>7, ReleaseTable DEF ReleaseControl
  <2> QED BY <1>7, <2>1 DEF ReleaseControl, ReleaseRow, PlaceOfGoal
<1>8. CASE ReleaseRecorder \/ AwaitRecorder
  BY <1>8, <1>t DEF ReleaseRecorder, AwaitRecorder, FlagsTypeOK, PlaceOfGoal
<1>9. CASE EndGoal \/ Restart
  BY <1>9 DEF EndGoal, Restart
<1>10. CASE \/ \E c \in Children : SendChild(c) \/ ChildStep(c)
            \/ \E s \in Services : ServeLate(s)
            \/ Cancel \/ RequestBegin \/ RequestFinalize \/ IdleHeartbeat
            \/ RecorderRuns \/ Review \/ UNCHANGED vars
  BY <1>10 DEF SendChild, ChildStep, ServeLate, Cancel, RequestBegin,
     RequestFinalize, IdleHeartbeat, RecorderRuns, Review, vars
<1>11. CASE BeginRelease \/ Release \/ BeginReset \/ Reset
  BY <1>11, Tables DEF BeginRelease, Release, BeginReset, Reset, PlaceOfGoal
<1> QED BY <1>1, <1>2, <1>3, <1>4, <1>5, <1>6, <1>7, <1>8, <1>9, <1>10, <1>11
        DEF Next, GoalThread

(* Only a restart takes a block back.                                      *)
LEMMA BlockStays ==
    ASSUME FlagsTypeOK, [Next]_vars, blocked
    PROVE  blocked' \/ Restart
<1> USE DEF FlagsTypeOK, safety
<1>1. CASE Call \/ ReleaseControl \/ AwaitRecorder
  BY <1>1 DEF Call, ReleaseControl, AwaitRecorder
<1>2. CASE \/ DrainFails \/ StartRecorder \/ AwaitResult
           \/ \E e \in Episodes : Goal(e)
  BY <1>2 DEF DrainFails, StartRecorder, AwaitResult, Goal
<1>3. CASE \/ Start \/ Rearm \/ Preflight \/ TeamDone \/ TeamStops
           \/ \E c \in Children : SendChild(c) \/ ChildStep(c)
           \/ Drained \/ GiveUp \/ Wait \/ HeartbeatFails
           \/ MarkEvent \/ Finalize \/ ReleaseRecorder \/ EndGoal
  BY <1>3 DEF Start, Rearm, Preflight, TeamDone, TeamStops, SendChild,
     ChildStep, Drained, GiveUp, Wait, HeartbeatFails, MarkEvent, Finalize,
     ReleaseRecorder, EndGoal
<1>4. CASE \/ \E s \in Services : ServeLate(s)
           \/ Cancel \/ RequestBegin \/ RequestFinalize \/ IdleHeartbeat
           \/ BeginRelease \/ Release \/ BeginReset \/ Reset
           \/ RecorderRuns \/ Review \/ UNCHANGED vars
  BY <1>4 DEF ServeLate, Cancel, RequestBegin, RequestFinalize, IdleHeartbeat,
     BeginRelease, Release, BeginReset, Reset, RecorderRuns, Review, vars
<1> QED BY <1>1, <1>2, <1>3, <1>4 DEF Next, GoalThread

(* Torque is given up by switching it off, or the node is blocked.         *)
LEMMA TorqueKeeps ==
    ASSUME TypeOK, PlaceOfGoal, Ownership, TorqueIsOwned, [Next]_vars
    PROVE  TorqueIsOwned'
<1> USE DEF TorqueIsOwned, TorqueIsOff, verdict, safety
<1>t. FlagsTypeOK /\ HardwareTypeOK /\ pc \in Places
  BY PartsOfTypeOK
<1>m. HardwareMove
  BY OnlyTheseCall
<1>s. "torque" \in Services /\ "torque" # "follower"
  BY DEF Services
<1> SUFFICES ASSUME "torque" \notin owns', ~blocked'
             PROVE  Off("torque")'
  OBVIOUS
<1>1. CASE Restart
  BY <1>1 DEF Restart, Off, Services
<1>2. CASE "torque" \notin owns /\ ~blocked
  <2>1. ~AsksOn("torque")
    BY <1>2 DEF AsksOn, Ownership, Gripped
  <2> QED BY <1>2, <1>m, <1>s, <1>t, <2>1, OffUnlessAsked
<1>3. CASE "torque" \in owns /\ ~Restart
  <2>1. CASE Call
    <3>1. CallRow(Calls[pc].on, Calls[pc].to, Calls[pc].next)
      BY <2>1, CallTable DEF Call
    <3>2. pc = "limber" /\ Succeeds("torque", "off")
      BY <1>3, <2>1, <3>1 DEF Call, CallRow
    <3> QED BY <1>s, <1>t, <3>2, TurnedOff
  <2>2. CASE ReleaseControl
    <3>1. ReleaseRow(Releases[pc].on, Releases[pc].next)
      BY <2>2, ReleaseTable DEF ReleaseControl
    <3>2. Succeeds("torque", "off")
      BY <1>3, <2>2, <3>1 DEF ReleaseControl, ReleaseRow, Idle
    <3> QED BY <1>s, <1>t, <3>2, TurnedOff
  <2>3. CASE EndGoal
    BY <1>3, <2>3 DEF EndGoal, Ownership, Let
  <2>4. CASE GiveUp \/ Wait \/ AwaitResult \/ AwaitRecorder \/ StartRecorder \/ Release
    BY <1>3, <2>4 DEF GiveUp, Wait, AwaitResult, AwaitRecorder, StartRecorder, Release
  <2>5. CASE \/ \E e \in Episodes : Goal(e)
             \/ Start \/ Rearm \/ Preflight \/ TeamDone \/ TeamStops
             \/ \E c \in Children : SendChild(c) \/ ChildStep(c)
             \/ Drained \/ DrainFails \/ HeartbeatFails
             \/ MarkEvent \/ Finalize \/ ReleaseRecorder
    BY <1>3, <2>5 DEF Goal, Start, Rearm, Preflight, TeamDone, TeamStops,
       SendChild, ChildStep, Drained, DrainFails, HeartbeatFails, MarkEvent,
       Finalize, ReleaseRecorder
  <2>6. CASE \/ \E s \in Services : ServeLate(s)
             \/ Cancel \/ RequestBegin \/ RequestFinalize \/ IdleHeartbeat
             \/ BeginRelease \/ BeginReset \/ Reset
             \/ RecorderRuns \/ Review \/ UNCHANGED vars
    BY <1>3, <2>6 DEF ServeLate, Cancel, RequestBegin, RequestFinalize,
       IdleHeartbeat, BeginRelease, BeginReset, Reset, RecorderRuns, Review, vars
  <2> QED BY <1>3, <2>1, <2>2, <2>3, <2>4, <2>5, <2>6 DEF Next, GoalThread
<1> QED BY <1>1, <1>2, <1>3, <1>t, BlockStays

(* A recording goes on under its name, or was just reserved.               *)
LEMMA RecordingGoesOn ==
    ASSUME RecorderMove, recording' # "idle"
    PROVE  \/ recording # "idle" /\ episode' = episode
           \/ \E e \in Episodes : Reserve(e) /\ episode' = e
<1>1. CASE RecorderStep
  BY <1>1 DEF RecorderStep, RecorderThread, Begin, AwaitInputs, AwaitStart,
     Decide, Commit, Keep, TakeSample, AppendSample, End
<1>2. CASE CancelRecording \/ RecorderDies \/ UNCHANGED recorder
  BY <1>2 DEF CancelRecording, RecorderDies, recorder
<1>3. ASSUME NEW e \in Episodes,
             \/ Forget(e) \/ MarkStart(e) \/ MarkStop(e)
             \/ FinalizeRecording(e) \/ ReviewEpisode(e)
      PROVE  UNCHANGED <<recording, episode>>
  BY <1>3 DEF Forget, MarkStart, MarkStop, FinalizeRecording, ReviewEpisode
<1>4. ASSUME NEW e \in Episodes, Reserve(e) PROVE episode' = e
  BY <1>4 DEF Reserve
<1> QED BY <1>1, <1>2, <1>3, <1>4 DEF RecorderMove

LEMMA OnlyOneReserves ==
    ASSUME [Next]_vars, NEW e \in Episodes, Reserve(e)
    PROVE  StartRecorder /\ e = goal
<1> USE DEF recorder
<1>1. recording = "idle" /\ recording' = "reserved" /\ episode' = e
  BY DEF Reserve, AdmitsRecording
<1>2. CASE StartRecorder
  BY <1>1, <1>2 DEF StartRecorder, Reserve
<1>3. CASE RecorderRuns
  BY <1>1, <1>3 DEF RecorderRuns, RecorderStep, RecorderThread, Begin,
     AwaitInputs, AwaitStart, Decide, Commit, Keep, TakeSample, AppendSample,
     Active
<1>4. CASE \/ MarkEvent \/ Finalize \/ AwaitResult \/ ReleaseRecorder
           \/ Review \/ Restart
  BY <1>1, <1>4 DEF MarkEvent, Finalize, AwaitResult, ReleaseRecorder, Review,
     Restart, MarkStart, MarkStop, FinalizeRecording, CancelRecording,
     ReviewEpisode, RecorderDies
<1>5. ASSUME NEW x \in Episodes, Goal(x) PROVE recording' = recording
  BY <1>5 DEF Goal
<1>6. CASE \/ Start \/ Call \/ Rearm \/ Preflight \/ TeamDone \/ TeamStops
           \/ \E c \in Children : SendChild(c) \/ ChildStep(c)
           \/ Drained \/ DrainFails \/ GiveUp \/ Wait \/ HeartbeatFails
           \/ ReleaseControl \/ AwaitRecorder \/ EndGoal
  BY <1>1, <1>6 DEF Start, Call, Rearm, Preflight, TeamDone, TeamStops,
     SendChild, ChildStep, Drained, DrainFails, GiveUp, Wait, HeartbeatFails,
     ReleaseControl, AwaitRecorder, EndGoal
<1>7. CASE \/ \E s \in Services : ServeLate(s)
           \/ Cancel \/ RequestBegin \/ RequestFinalize \/ IdleHeartbeat
           \/ BeginRelease \/ Release \/ BeginReset \/ Reset
           \/ UNCHANGED vars
  BY <1>1, <1>7 DEF ServeLate, Cancel, RequestBegin, RequestFinalize,
     IdleHeartbeat, BeginRelease, Release, BeginReset, Reset, vars
<1> QED BY <1>1, <1>2, <1>3, <1>4, <1>5, <1>6, <1>7 DEF Next, GoalThread

(* No recording runs that is not the goal's, or is owned by nobody.        *)
LEMMA RecorderOwnedKeeps ==
    ASSUME TypeOK, PlaceOfGoal, Ownership, RecorderIsOwned, [Next]_vars
    PROVE  RecorderIsOwned'
<1> USE DEF RecorderIsOwned, verdict, safety, recorder
<1>t. FlagsTypeOK /\ pc \in Places
  BY PartsOfTypeOK
<1>m. RecorderMove
  BY OnlyTheseMove
<1> SUFFICES ASSUME recording' # "idle"
             PROVE  /\ ~blocked' => "recorder" \in owns'
                    /\ goal' # None => episode' = goal'
  OBVIOUS
<1>1. CASE Restart
  BY <1>1 DEF Restart, RecorderDies
<1>2. CASE StartRecorder
  <2>1. goal' = goal /\ goal # None
    BY <1>2 DEF StartRecorder, PlaceOfGoal
  <2>2. CASE UNCHANGED recorder
    BY <1>2, <2>1, <2>2 DEF StartRecorder
  <2>3. CASE Reserve(goal)
    <3>1. episode' = goal
      BY <2>3 DEF Reserve
    <3>2. recording = "idle"
      BY <2>3 DEF Reserve, AdmitsRecording
    <3> QED BY <1>2, <2>1, <3>1, <3>2 DEF StartRecorder
  <2> QED BY <1>2, <2>2, <2>3 DEF StartRecorder
<1>3. CASE ~Restart /\ ~StartRecorder
  <2>1. recording # "idle" /\ episode' = episode
    <3>1. ASSUME NEW e \in Episodes PROVE ~Reserve(e)
      BY <1>3, OnlyOneReserves
    <3> QED BY <1>m, <3>1, RecordingGoesOn
  <2>2. ASSUME NEW e \in Episodes, Goal(e) PROVE FALSE
    BY <2>1, <2>2 DEF Goal, Admits, Ownership
  <2>3. CASE GiveUp \/ AwaitResult \/ AwaitRecorder
    <3>1. RecorderLives
      BY <2>1, <2>3 DEF GiveUp, Waits, AwaitResult, AwaitRecorder, RecorderLives, PlaceOfGoal
    <3> QED BY <1>t, <2>1, <2>3, <3>1 DEF GiveUp, AwaitResult, AwaitRecorder, FlagsTypeOK
  <2>4. CASE Call \/ ReleaseControl
    <3>1. "recorder" \in owns => "recorder" \in owns' \/ blocked'
      <4>1. CASE Call
        BY <4>1 DEF Call
      <4>2. CASE ReleaseControl
        BY <4>2, ReleaseTable DEF ReleaseControl, ReleaseRow
      <4> QED BY <2>4, <4>1, <4>2
    <3>2. goal' = goal
      BY <2>4 DEF Call, ReleaseControl
    <3> QED BY <1>3, <1>t, <2>1, <3>1, <3>2, BlockStays
  <2>5. CASE EndGoal
    BY <2>1, <2>5 DEF EndGoal, Ownership
  <2>6. CASE \/ Start \/ Rearm \/ Preflight \/ TeamDone \/ TeamStops
             \/ \E c \in Children : SendChild(c) \/ ChildStep(c)
             \/ Drained \/ DrainFails \/ Wait \/ HeartbeatFails
             \/ MarkEvent \/ Finalize \/ ReleaseRecorder
    <3>1. goal' = goal /\ ("recorder" \in owns => "recorder" \in owns')
      BY <2>6 DEF Start, Rearm, Preflight, TeamDone, TeamStops, SendChild,
         ChildStep, Drained, DrainFails, Wait, HeartbeatFails, MarkEvent,
         Finalize, ReleaseRecorder
    <3> QED BY <1>3, <1>t, <2>1, <3>1, BlockStays
  <2>7. CASE \/ \E s \in Services : ServeLate(s)
             \/ Cancel \/ RequestBegin \/ RequestFinalize \/ IdleHeartbeat
             \/ BeginRelease \/ Release \/ BeginReset \/ Reset
             \/ RecorderRuns \/ Review \/ UNCHANGED vars
    <3>1. goal' = goal /\ ("recorder" \in owns => "recorder" \in owns')
      BY <2>7 DEF ServeLate, Cancel, RequestBegin, RequestFinalize,
         IdleHeartbeat, BeginRelease, Release, BeginReset, Reset, RecorderRuns,
         Review, vars
    <3> QED BY <1>3, <1>t, <2>1, <3>1, BlockStays
  <2> QED BY <1>3, <2>2, <2>3, <2>4, <2>5, <2>6, <2>7 DEF Next, GoalThread
<1> QED BY <1>1, <1>2, <1>3

(* Child actions run only while the thread waits for them, or is about to  *)
(* drain them.                                                             *)
LEMMA ChildrenKeep ==
    ASSUME TypeOK, PlaceOfGoal, ChildrenAreMinded, [Next]_vars
    PROVE  ChildrenAreMinded'
<1> USE DEF ChildrenAreMinded, Settled, Team
<1>t. FlagsTypeOK /\ child \in [Children -> {"none", "sent", "live", "done", "bad"}]
  BY PartsOfTypeOK DEF RestTypeOK
<1> SUFFICES ASSUME ~blocked', NEW c \in Children
             PROVE  \/ Settled(c)'
                    \/ pc' = "drain"
                    \/ pc' \in {"detect", "move"} /\ c \in Team'
  OBVIOUS
<1>1. CASE Restart
  BY <1>1 DEF Restart
<1>2. ASSUME NEW e \in Episodes, Goal(e) PROVE Settled(c)'
  BY <1>2 DEF Goal
<1>b. ~Restart => ~blocked
  BY <1>t, BlockStays
<1>3. CASE TeamDone \/ TeamStops \/ Drained \/ DrainFails
  <2>1. ~blocked
    BY <1>3 DEF TeamDone, TeamStops, Drained, DrainFails, safety
  <2>2. CASE TeamStops \/ DrainFails
    BY <2>2 DEF TeamStops, DrainFails
  <2>3. CASE TeamDone
    <3>1. Settled(c)
      BY <2>1, <2>3 DEF TeamDone
    <3> QED BY <2>3, <3>1 DEF TeamDone
  <2>4. CASE Drained
    BY <2>4 DEF Drained
  <2> QED BY <1>3, <2>2, <2>3, <2>4
<1>4. ASSUME NEW d \in Children, SendChild(d) \/ ChildStep(d)
      PROVE  \/ Settled(c)'
             \/ pc' = "drain"
             \/ pc' \in {"detect", "move"} /\ c \in Team'
  <2>1. child[c] \in {"none", "done", "bad"} /\ child'[c] \notin {"none", "done", "bad"}
          => SendChild(d) /\ d = c
    BY <1>4, <1>t DEF SendChild, ChildStep
  <2>2. pc' = pc /\ goal' = goal
    BY <1>4 DEF SendChild, ChildStep
  <2>3. CASE child[c] \in {"none", "done", "bad"}
    BY <1>4, <2>1, <2>2, <2>3 DEF SendChild
  <2>4. CASE child[c] \notin {"none", "done", "bad"}
    BY <1>4, <1>b, <2>2, <2>4 DEF SendChild, ChildStep, Restart, PlaceOfGoal
  <2> QED BY <2>3, <2>4
<1>5. CASE \/ Start \/ Call \/ Rearm \/ Preflight \/ StartRecorder
           \/ GiveUp \/ Wait \/ HeartbeatFails \/ MarkEvent \/ Finalize
           \/ AwaitResult \/ ReleaseControl \/ ReleaseRecorder
           \/ AwaitRecorder \/ EndGoal
  <2>1. child' = child /\ pc \notin {"detect", "move", "drain"}
    <3>1. CASE Call \/ ReleaseControl
      BY <3>1, Tables DEF Call, ReleaseControl, CallPlaces
    <3>2. CASE ~(Call \/ ReleaseControl)
      BY <1>5, <3>2 DEF Start, Rearm, Preflight, StartRecorder, GiveUp, Wait, Waits,
         HeartbeatFails, MarkEvent, Finalize, AwaitResult, ReleaseRecorder,
         AwaitRecorder, EndGoal
    <3> QED BY <3>1, <3>2
  <2>2. CASE Restart
    BY <1>1, <2>2
  <2> QED BY <1>b, <2>1, <2>2
<1>6. CASE \/ \E s \in Services : ServeLate(s)
           \/ Cancel \/ RequestBegin \/ RequestFinalize \/ IdleHeartbeat
           \/ BeginRelease \/ Release \/ BeginReset \/ Reset
           \/ RecorderRuns \/ Review \/ UNCHANGED vars
  <2>1. UNCHANGED <<child, pc, goal>>
    BY <1>6 DEF ServeLate, Cancel, RequestBegin, RequestFinalize,
       IdleHeartbeat, BeginRelease, Release, BeginReset, Reset, RecorderRuns,
       Review, vars
  <2> QED BY <1>1, <1>b, <2>1
<1> QED BY <1>1, <1>2, <1>3, <1>4, <1>5, <1>6 DEF Next, GoalThread

-----------------------------------------------------------------------------
(* The way of the goal's thread.                                           *)
Along ==
    \/ pc = "start" /\ pc' \in {"succeed", "stopIdle", "rearm"}
    \/ pc = "stopIdle" /\ pc' = "rearm"
    \/ pc = "rearm" /\ pc' \in {"power", "preflight"}
    \/ pc = "power" /\ pc' \in {"preflight", "unpower"}
    \/ pc = "preflight" /\ pc' \in {"detect", "recorder"}
    \/ pc = "detect" /\ pc' \in {"recorder", "drain"}
    \/ pc = "recorder" /\ pc' = "admission"
    \/ pc = "admission" /\ pc' = "acquire"
    \/ pc = "acquire" /\ pc' = "freeTeleop"
    \/ pc = "freeTeleop" /\ pc' = "limp"
    \/ pc = "limp" /\ pc' = "seize"
    \/ pc = "seize" /\ pc' = "hold"
    \/ pc = "hold" /\ pc' = "move"
    \/ pc = "move" /\ pc' \in {"home", "drain"}
    \/ pc = "home" /\ pc' = "markStart"
    \/ pc = "markStart" /\ pc' = "first"
    \/ pc = "first" /\ pc' = "free"
    \/ pc = "free" /\ pc' = "enable"
    \/ pc = "enable" /\ pc' = "limber"
    \/ pc = "limber" /\ pc' = "record"
    \/ pc = "record" /\ pc' = "stopping"
    \/ pc = "stopping" /\ pc' = "markStop"
    \/ pc = "markStop" /\ pc' = "finalize"
    \/ pc = "finalize" /\ pc' = "result"
    \/ pc = "result" /\ pc' \in {"insist", "succeed"}
    \/ pc = "insist" /\ pc' = "succeed"
    \/ pc = "endTeleop" /\ pc' = "endTorque"
    \/ pc = "endTorque" /\ pc' = "endLeader"
    \/ pc = "endLeader" /\ pc' = "endRecorder"
    \/ pc = "endRecorder" /\ pc' \in {"endResult", "end"}
    \/ pc = "endResult" /\ pc' = "end"

LEMMA ThreadMoves ==
    ASSUME [Next]_vars
    PROVE  \/ pc' = pc
           \/ \E e \in Episodes : Goal(e)
           \/ EndGoal
           \/ Restart
           \/ pc' = "endTeleop" /\ postTeleop' = FALSE
           \/ Along
<1> USE DEF Along
<1>1. CASE Call
  <2>1. CallRow(Calls[pc].on, Calls[pc].to, Calls[pc].next)
    BY <1>1, CallTable DEF Call
  <2>2. \/ pc' = Calls[pc].next /\ Calls[pc].next # "failed"
        \/ pc = "power" /\ pc' = "unpower"
        \/ pc' = "endTeleop" /\ postTeleop' = FALSE
    BY <1>1 DEF Call, Raise
  <2> QED BY <2>1, <2>2 DEF CallRow
<1>2. CASE ReleaseControl
  BY <1>2, ReleaseTable DEF ReleaseControl, ReleaseRow
<1>3. CASE Start \/ Rearm \/ Preflight \/ TeamDone \/ TeamStops
  BY <1>3 DEF Start, Rearm, Preflight, TeamDone, TeamStops, Raise, Leave
<1>4. CASE Drained \/ DrainFails \/ StartRecorder \/ GiveUp \/ HeartbeatFails
  BY <1>4 DEF Drained, DrainFails, StartRecorder, GiveUp, HeartbeatFails, Raise,
     Leave
<1>5. CASE Wait
  BY <1>5 DEF Wait
<1>6. CASE MarkEvent \/ Finalize \/ AwaitResult
  BY <1>6 DEF MarkEvent, Finalize, AwaitResult, Raise, Leave
<1>7. CASE ReleaseRecorder \/ AwaitRecorder
  BY <1>7 DEF ReleaseRecorder, AwaitRecorder
<1>8. CASE \/ \E c \in Children : SendChild(c) \/ ChildStep(c)
           \/ \E s \in Services : ServeLate(s)
           \/ Cancel \/ RequestBegin \/ RequestFinalize \/ IdleHeartbeat
           \/ BeginRelease \/ Release \/ BeginReset \/ Reset
           \/ RecorderRuns \/ Review \/ UNCHANGED vars
  BY <1>8 DEF SendChild, ChildStep, ServeLate, Cancel, RequestBegin,
     RequestFinalize, IdleHeartbeat, BeginRelease, Release, BeginReset, Reset,
     RecorderRuns, Review, vars
<1> QED BY <1>1, <1>2, <1>3, <1>4, <1>5, <1>6, <1>7, <1>8 DEF Next, GoalThread

(* The goal changes where it is admitted and where it ends.                *)
LEMMA GoalStays ==
    ASSUME [Next]_vars, goal' # goal
    PROVE  (\E e \in Episodes : Goal(e)) \/ EndGoal \/ Restart
<1>1. CASE \/ Start \/ Call \/ Rearm \/ Preflight \/ TeamDone \/ TeamStops
           \/ \E c \in Children : SendChild(c) \/ ChildStep(c)
           \/ Drained \/ DrainFails \/ StartRecorder \/ GiveUp \/ Wait
           \/ HeartbeatFails
  BY <1>1 DEF Start, Call, Rearm, Preflight, TeamDone, TeamStops, SendChild,
     ChildStep, Drained, DrainFails, StartRecorder, GiveUp, Wait, HeartbeatFails
<1>2. CASE \/ MarkEvent \/ Finalize \/ AwaitResult \/ ReleaseControl
           \/ ReleaseRecorder \/ AwaitRecorder
  BY <1>2 DEF MarkEvent, Finalize, AwaitResult, ReleaseControl,
     ReleaseRecorder, AwaitRecorder
<1>3. CASE \/ \E s \in Services : ServeLate(s)
           \/ Cancel \/ RequestBegin \/ RequestFinalize \/ IdleHeartbeat
           \/ BeginRelease \/ Release \/ BeginReset \/ Reset
           \/ RecorderRuns \/ Review \/ UNCHANGED vars
  BY <1>3 DEF ServeLate, Cancel, RequestBegin, RequestFinalize, IdleHeartbeat,
     BeginRelease, Release, BeginReset, Reset, RecorderRuns, Review, vars
<1> QED BY <1>1, <1>2, <1>3 DEF Next, GoalThread

(* The timer that keeps teleoperation alive is started at one place.       *)
LEMMA TimerStarts ==
    ASSUME FlagsTypeOK, [Next]_vars, postTeleop'
    PROVE  postTeleop \/ (Wait /\ pc = "stopping" /\ pc' = "markStop")
<1> USE DEF FlagsTypeOK, idleTeleop
<1>1. CASE Call
  BY <1>1 DEF Call, Raise
<1>2. CASE Start \/ Rearm \/ Preflight \/ TeamDone \/ TeamStops \/ Drained
  BY <1>2 DEF Start, Rearm, Preflight, TeamDone, TeamStops, Drained, Raise, Leave
<1>3. CASE DrainFails \/ StartRecorder \/ GiveUp \/ HeartbeatFails
  BY <1>3 DEF DrainFails, StartRecorder, GiveUp, HeartbeatFails, Raise, Leave
<1>4. CASE Wait
  BY <1>4 DEF Wait
<1>5. CASE MarkEvent \/ Finalize \/ AwaitResult
  BY <1>5 DEF MarkEvent, Finalize, AwaitResult, Raise, Leave
<1>6. CASE ReleaseControl \/ ReleaseRecorder \/ AwaitRecorder \/ EndGoal \/ Restart
  BY <1>6 DEF ReleaseControl, ReleaseRecorder, AwaitRecorder, EndGoal, Restart
<1>7. ASSUME NEW e \in Episodes, Goal(e) PROVE postTeleop
  BY <1>7 DEF Goal
<1>8. CASE \/ \E c \in Children : SendChild(c) \/ ChildStep(c)
           \/ \E s \in Services : ServeLate(s)
           \/ Cancel \/ RequestBegin \/ RequestFinalize \/ IdleHeartbeat
           \/ BeginRelease \/ Release \/ BeginReset \/ Reset
           \/ RecorderRuns \/ Review \/ UNCHANGED vars
  BY <1>8 DEF SendChild, ChildStep, ServeLate, Cancel, RequestBegin,
     RequestFinalize, IdleHeartbeat, BeginRelease, Release, BeginReset, Reset,
     RecorderRuns, Review, vars
<1> QED BY <1>1, <1>2, <1>3, <1>4, <1>5, <1>6, <1>7, <1>8 DEF Next, GoalThread

(* A request to turn a service on becomes overdue only after it was made.  *)
LEMMA OverdueUnlessAsked ==
    ASSUME HardwareTypeOK, HardwareMove, NEW s \in Services,
           overdue[s] # "on", ~AsksOn(s)
    PROVE  overdue'[s] # "on"
<1> USE DEF HardwareTypeOK
<1>1. ASSUME NEW t \in Services, NEW v \in {"on", "off"}, Asks(t, v),
             t # s \/ v = "off"
      PROVE  overdue'[s] # "on"
  BY <1>1 DEF Asks, Succeeds, Fails
<1>2. ASSUME NEW t \in Services, ServeLate(t) PROVE overdue'[s] # "on"
  BY <1>2 DEF ServeLate
<1>3. CASE Restart
  BY <1>3 DEF Restart
<1>4. CASE UNCHANGED hardware \/ (Fault /\ UNCHANGED <<device, overdue>>)
  BY <1>4 DEF hardware
<1> QED BY <1>1, <1>2, <1>3, <1>4 DEF HardwareMove

(* The calls that hand the leader over.                                    *)
LEMMA HandOver ==
    ASSUME Call, pc' # "endTeleop"
    PROVE  /\ pc = "freeTeleop" => Succeeds("teleop", "off")
           /\ pc = "seize" => Succeeds("leader", "on")
           /\ pc = "free" => \/ Succeeds("leader", "off")
                             \/ device["leader"] = "off" /\ UNCHANGED hardware
<1>1. CallRow(Calls[pc].on, Calls[pc].to, Calls[pc].next)
  BY CallTable DEF Call
<1>2. CASE pc = "freeTeleop"
  <2>1. Calls[pc].on = "teleop" /\ Calls[pc].to = "off"
    BY <1>1, <1>2 DEF CallRow
  <2>2. Succeeds(Calls[pc].on, Calls[pc].to)
    BY <1>2 DEF Call, Raise
  <2> QED BY <1>2, <2>1, <2>2
<1>3. CASE pc = "seize"
  <2>1. Calls[pc].on = "leader" /\ Calls[pc].to = "on"
    BY <1>1, <1>3 DEF CallRow
  <2>2. Succeeds(Calls[pc].on, Calls[pc].to)
    BY <1>3 DEF Call, Raise
  <2> QED BY <1>3, <2>1, <2>2
<1>4. CASE pc = "free"
  <2>1. Calls[pc].on = "leader" /\ Calls[pc].to = "off"
    BY <1>1, <1>4 DEF CallRow
  <2>2. \/ Succeeds(Calls[pc].on, Calls[pc].to)
        \/ Idle(Calls[pc].on) /\ UNCHANGED hardware
    BY <1>4 DEF Call, Raise
  <2> QED BY <1>4, <2>1, <2>2 DEF Idle
<1> QED BY <1>2, <1>3, <1>4

(* Whose step it is that moves the thread on.                              *)
LEMMA ActsAt ==
    ASSUME PlaceOfGoal, [Next]_vars, pc' # pc, pc' # "idle"
    PROVE  /\ pc \notin {"succeed", "end"}
           /\ pc = "start" => Start
           /\ pc \in CallPlaces =>
                Call \/ (pc \in {"free", "enable"} /\ pc' = "endTeleop")
           /\ pc = "rearm" => Rearm
           /\ pc \in {"preflight", "acquire"} => Preflight
           /\ pc = "recorder" => StartRecorder
           /\ pc \in {"result", "insist"} => AwaitResult
           /\ pc \in {"endTeleop", "endTorque", "endLeader"} => ReleaseControl
           /\ pc = "endRecorder" => ReleaseRecorder
           /\ pc = "endResult" => AwaitRecorder
<1> USE DEF CallPlaces
<1>1. CASE Call \/ ReleaseControl
  BY <1>1, Tables DEF Call, ReleaseControl
<1>2. CASE GiveUp \/ HeartbeatFails \/ Drained \/ DrainFails \/ EndGoal \/ Restart
  BY <1>2 DEF GiveUp, Waits, HeartbeatFails, Drained, DrainFails, EndGoal,
     Restart, Raise
<1>3. CASE Start \/ Rearm \/ Preflight \/ TeamDone \/ TeamStops
  BY <1>3 DEF Start, Rearm, Preflight, TeamDone, TeamStops
<1>4. CASE \/ StartRecorder \/ Wait \/ MarkEvent \/ Finalize \/ AwaitResult
           \/ ReleaseRecorder \/ AwaitRecorder
  BY <1>4 DEF StartRecorder, Wait, MarkEvent, Finalize, AwaitResult,
     ReleaseRecorder, AwaitRecorder
<1>5. ASSUME NEW e \in Episodes, Goal(e) PROVE pc = "idle"
  BY <1>5 DEF Goal, Admits, PlaceOfGoal
<1>6. CASE \/ \E c \in Children : SendChild(c) \/ ChildStep(c)
           \/ \E s \in Services : ServeLate(s)
           \/ Cancel \/ RequestBegin \/ RequestFinalize \/ IdleHeartbeat
           \/ BeginRelease \/ Release \/ BeginReset \/ Reset
           \/ RecorderRuns \/ Review \/ UNCHANGED vars
  BY <1>6 DEF SendChild, ChildStep, ServeLate, Cancel, RequestBegin,
     RequestFinalize, IdleHeartbeat, BeginRelease, Release, BeginReset, Reset,
     RecorderRuns, Review, vars
<1> QED BY <1>1, <1>2, <1>3, <1>4, <1>5, <1>6 DEF Next, GoalThread

(* The follower never follows a leader that is driven: neither now nor     *)
(* once a request that is overdue has been served.                         *)
LEMMA OneLeadsKeeps ==
    ASSUME TypeOK, PlaceOfGoal, OneLeads, [Next]_vars
    PROVE  OneLeads'
<1>t. FlagsTypeOK /\ HardwareTypeOK /\ pc \in Places
  BY PartsOfTypeOK
<1>m. HardwareMove
  BY OnlyTheseCall
<1>s. /\ "teleop" \in Services /\ "teleop" # "follower"
      /\ "leader" \in Services /\ "leader" # "follower"
  BY DEF Services
<1>r. CASE Restart
  BY <1>r DEF Restart, OneLeads, TeleopIsOff, LeaderIsOff, Off, Driven, Services
<1>teleop. ASSUME Off("teleop"), ~AsksOn("teleop") PROVE Off("teleop")'
  BY <1>teleop, <1>m, <1>s, <1>t, OffUnlessAsked
<1>leader. ASSUME Off("leader"), ~AsksOn("leader") PROVE Off("leader")'
  BY <1>leader, <1>m, <1>s, <1>t, OffUnlessAsked
<1>timer. postTeleop' => postTeleop \/ (pc = "stopping" /\ pc' = "markStop")
  BY <1>t, TimerStarts
<1>goal. ASSUME NEW e \in Episodes, Goal(e)
         PROVE  pc' = "start" /\ goal' = e /\ (e \notin DryRun => ~postTeleop')
  BY <1>goal, <1>t DEF Goal, FlagsTypeOK, idleTeleop
<1>1. (LeaderIsOff \/ (TeleopIsOff /\ ~postTeleop))'
  <2>1. CASE Off("leader")
    <3>1. CASE Call /\ pc = "seize"
      <4>1. Off("teleop") /\ ~postTeleop
        BY <3>1 DEF OneLeads, TeleopIsOff, Driven
      <4>2. ~AsksOn("teleop")
        BY <3>1, <4>1 DEF AsksOn, IdleHeartbeat
      <4> QED BY <1>teleop, <1>timer, <3>1, <4>1, <4>2 DEF TeleopIsOff
    <3> QED BY <1>leader, <2>1, <3>1 DEF AsksOn, LeaderIsOff
  <2>2. CASE ~Off("leader")
    <3>1. Off("teleop") /\ ~postTeleop /\ pc \notin {"enable", "limber", "record", "stopping"}
      BY <2>2 DEF OneLeads, LeaderIsOff, TeleopIsOff
    <3>2. ~AsksOn("teleop")
      BY <3>1 DEF AsksOn, IdleHeartbeat
    <3> QED BY <1>teleop, <1>timer, <3>1, <3>2 DEF TeleopIsOff
  <2> QED BY <2>1, <2>2
<1>2. (pc \in Driven => TeleopIsOff)'
  <2> SUFFICES ASSUME pc' \in Driven, ~Restart PROVE Off("teleop")'
    BY <1>r DEF TeleopIsOff, OneLeads
  <2>1. CASE pc \in Driven
    <3>1. Off("teleop") /\ ~AsksOn("teleop")
      BY <2>1 DEF OneLeads, TeleopIsOff, Driven, AsksOn, IdleHeartbeat
    <3> QED BY <1>teleop, <3>1
  <2>2. CASE pc \notin Driven
    <3>1. pc = "freeTeleop" /\ pc' = "limp"
      BY <2>2, ThreadMoves DEF Driven, Along, Goal, EndGoal
    <3>2. Succeeds("teleop", "off")
      BY <3>1, ActsAt, HandOver DEF CallPlaces
    <3> QED BY <1>s, <1>t, <3>2, TurnedOff
  <2> QED BY <2>1, <2>2
<1>3. (pc \in {"hold", "move", "home", "markStart", "first", "free"} =>
         overdue["leader"] # "on")'
  <2> DEFINE H == {"hold", "move", "home", "markStart", "first", "free"}
  <2> SUFFICES ASSUME pc' \in H, ~Restart PROVE overdue'["leader"] # "on"
    BY <1>r DEF OneLeads
  <2>1. CASE pc \in H
    <3>1. overdue["leader"] # "on" /\ ~AsksOn("leader")
      BY <2>1 DEF OneLeads, AsksOn
    <3> QED BY <1>m, <1>s, <1>t, <3>1, OverdueUnlessAsked
  <2>2. CASE pc \notin H
    <3>1. pc = "seize" /\ pc' = "hold"
      BY <2>2, ThreadMoves DEF Along, Goal, EndGoal
    <3>2. Succeeds("leader", "on")
      BY <3>1, ActsAt, HandOver DEF CallPlaces
    <3> QED BY <1>s, <1>t, <3>2 DEF Succeeds, HardwareTypeOK
  <2> QED BY <2>1, <2>2
<1>4. (pc \in {"enable", "limber", "record", "stopping"} => LeaderIsOff)'
  <2> DEFINE L == {"enable", "limber", "record", "stopping"}
  <2> SUFFICES ASSUME pc' \in L, ~Restart PROVE Off("leader")'
    BY <1>r DEF LeaderIsOff, OneLeads
  <2>1. CASE pc \in L
    <3>1. Off("leader") /\ ~AsksOn("leader")
      BY <2>1 DEF OneLeads, LeaderIsOff, AsksOn
    <3> QED BY <1>leader, <3>1
  <2>2. CASE pc \notin L
    <3>1. pc = "free" /\ pc' = "enable"
      BY <2>2, ThreadMoves DEF Along, Goal, EndGoal
    <3>2. \/ Succeeds("leader", "off")
          \/ device["leader"] = "off" /\ UNCHANGED hardware
      BY <3>1, ActsAt, HandOver DEF CallPlaces
    <3>3. overdue["leader"] # "on"
      BY <3>1 DEF OneLeads
    <3> QED BY <1>s, <1>t, <3>2, <3>3, TurnedOff DEF hardware, Off
  <2> QED BY <2>1, <2>2
<1>5. (pc \notin {"idle", "start", "markStop", "finalize", "result", "insist",
                  "succeed"} => ~postTeleop)'
  <2> SUFFICES ASSUME postTeleop',
                      pc' \notin {"idle", "start", "markStop", "finalize",
                                 "result", "insist", "succeed"}
               PROVE  FALSE
    OBVIOUS
  <2>1. postTeleop
    BY <1>timer
  <2>2. pc \in {"idle", "start", "markStop", "finalize", "result", "insist",
                "succeed"}
    BY <2>1 DEF OneLeads
  <2>3. pc = "start" /\ pc' \in {"stopIdle", "rearm"}
    BY <2>2, ThreadMoves DEF Along, Goal, EndGoal, Restart
  <2>4. Start /\ goal \notin DryRun
    BY <2>3, ActsAt DEF Start, Raise
  <2> QED BY <2>1, <2>3, <2>4 DEF OneLeads
<1>6. (pc = "start" /\ goal \notin DryRun => ~postTeleop)'
  <2> SUFFICES ASSUME postTeleop', pc' = "start", goal' \notin DryRun
               PROVE  FALSE
    OBVIOUS
  <2>1. ~EndGoal /\ ~Restart /\ ~\E e \in Episodes : Goal(e)
    BY <1>goal DEF EndGoal, Restart
  <2>2. pc = "start" /\ goal' = goal
    BY <2>1, ThreadMoves, GoalStays DEF Along
  <2> QED BY <1>timer, <2>2 DEF OneLeads
<1> QED BY <1>1, <1>2, <1>3, <1>4, <1>5, <1>6 DEF OneLeads

(* Who changes what release_torque and reset remember.                     *)
PowerCalled ==
    /\ Call /\ pc = "power"
    /\ recovery' = recovery /\ resetReady' = FALSE
    /\ pc' = "preflight" => torqueReleased' = FALSE
    /\ torqueReleased' => torqueReleased
LEMMA SafetyMoves ==
    ASSUME FlagsTypeOK, [Next]_vars
    PROVE  \/ UNCHANGED <<recovery, torqueReleased, resetReady>>
           \/ PowerCalled
           \/ BeginRelease \/ Release \/ BeginReset \/ Reset \/ Restart
<1> USE DEF safety
<1>1. CASE Call
  <2>1. CallRow(Calls[pc].on, Calls[pc].to, Calls[pc].next)
    BY <1>1, CallTable DEF Call
  <2>2. CASE pc = "power"
    BY <1>1, <2>1, <2>2 DEF Call, CallRow, PowerCalled, Raise, FlagsTypeOK
  <2>3. CASE pc # "power"
    BY <1>1, <2>3 DEF Call, FlagsTypeOK
  <2> QED BY <2>2, <2>3
<1>2. CASE \/ Start \/ Rearm \/ Preflight \/ TeamDone \/ TeamStops
           \/ \E c \in Children : SendChild(c) \/ ChildStep(c)
           \/ Drained \/ DrainFails \/ StartRecorder \/ GiveUp \/ Wait
           \/ HeartbeatFails
  BY <1>2 DEF Start, Rearm, Preflight, TeamDone, TeamStops, SendChild,
     ChildStep, Drained, DrainFails, StartRecorder, GiveUp, Wait, HeartbeatFails
<1>3. CASE \/ MarkEvent \/ Finalize \/ AwaitResult \/ ReleaseControl
           \/ ReleaseRecorder \/ AwaitRecorder \/ EndGoal
           \/ \E e \in Episodes : Goal(e)
  BY <1>3 DEF MarkEvent, Finalize, AwaitResult, ReleaseControl,
     ReleaseRecorder, AwaitRecorder, EndGoal, Goal
<1>4. CASE \/ \E s \in Services : ServeLate(s)
           \/ Cancel \/ RequestBegin \/ RequestFinalize \/ IdleHeartbeat
           \/ RecorderRuns \/ Review \/ UNCHANGED vars
  BY <1>4 DEF ServeLate, Cancel, RequestBegin, RequestFinalize, IdleHeartbeat,
     RecorderRuns, Review, vars
<1> QED BY <1>1, <1>2, <1>3, <1>4 DEF Next, GoalThread

(* The follower is powered by the goal, or by a request that was overdue.  *)
LEMMA FollowerMoves ==
    ASSUME HardwareTypeOK, HardwareMove, device'["follower"] = "on",
           device["follower"] # "on", ~Restart, ~AsksOn("follower")
    PROVE  overdue["follower"] = "on"
<1> USE DEF HardwareTypeOK
<1>0. "follower" \in Services
  BY DEF Services
<1>1. ASSUME NEW t \in Services, NEW v \in {"on", "off"}, Asks(t, v),
             v = "on" => AsksOn(t)
      PROVE  overdue["follower"] = "on"
  BY <1>0, <1>1 DEF Asks, Succeeds, Fails
<1>2. ASSUME NEW t \in Services, ServeLate(t)
      PROVE  overdue["follower"] = "on"
  BY <1>0, <1>2 DEF ServeLate
<1>3. CASE UNCHANGED hardware \/ (Fault /\ UNCHANGED <<device, overdue>>)
  BY <1>3 DEF hardware
<1> QED BY <1>1, <1>2, <1>3 DEF HardwareMove

(* A step of the reset goes on only if it has seen its service off.        *)
LEMMA ResetConfirms ==
    ASSUME HardwareTypeOK, Reset, recovery' # "idle" \/ resetReady'
    PROVE  /\ \/ recovery = "resetTeleop" /\ recovery' = "resetFollower"
                 /\ Succeeds("teleop", "off") /\ resetReady' = resetReady
              \/ recovery = "resetFollower" /\ recovery' = "resetTorque"
                 /\ device["follower"] = "off" /\ UNCHANGED hardware
                 /\ resetReady' = FALSE
              \/ recovery = "resetTorque" /\ recovery' = "resetLeader"
                 /\ Succeeds("torque", "off") /\ resetReady' = resetReady
              \/ recovery = "resetLeader" /\ recovery' = "idle"
                 /\ UNCHANGED hardware
              \/ resetReady /\ resetReady' /\ recovery' = "idle"
<1>1. ResetRow(Resets[recovery].on, Resets[recovery].next)
  BY ResetTable DEF Reset
<1>2. CASE recovery = "resetTeleop"
  BY <1>1, <1>2 DEF Reset, ResetRow
<1>3. CASE recovery = "resetFollower"
  BY <1>1, <1>3 DEF Reset, ResetRow
<1>4. CASE recovery = "resetTorque"
  BY <1>1, <1>4 DEF Reset, ResetRow
<1>5. CASE recovery = "resetLeader"
  BY <1>1, <1>5 DEF Reset, ResetRow
<1> QED BY <1>1, <1>2, <1>3, <1>4, <1>5 DEF ResetRow

LEMMA PowerIsAsked ==
    ASSUME Call, pc \in {"power", "unpower"}
    PROVE  /\ pc = "power" => \/ Succeeds("follower", "on") /\ pc' = "preflight"
                              \/ Fails("follower", "on") /\ pc' = "unpower"
           /\ pc = "unpower" => Asks("follower", "off") /\ pc' = "endTeleop"
<1>1. CallRow(Calls[pc].on, Calls[pc].to, Calls[pc].next)
  BY CallTable DEF Call
<1>2. CASE pc = "power"
  BY <1>1, <1>2 DEF Call, CallRow
<1>3. CASE pc = "unpower"
  BY <1>1, <1>3 DEF Call, CallRow, Raise, Asks
<1> QED BY <1>2, <1>3

(* After a reset nothing comes back by itself.                             *)
LEMMA ResetKeeps ==
    ASSUME TypeOK, PlaceOfGoal, OneLeads, ResetHolds, [Next]_vars
    PROVE  ResetHolds'
<1>t. FlagsTypeOK /\ HardwareTypeOK /\ pc \in Places
  BY PartsOfTypeOK
<1>m. HardwareMove
  BY OnlyTheseCall
<1>s. /\ "teleop" \in Services /\ "teleop" # "follower"
      /\ "torque" \in Services /\ "torque" # "follower"
      /\ "follower" \in Services
  BY DEF Services
<1>f. faults' \in Nat /\ faults \in Nat /\ faults' >= faults
  BY <1>m, <1>t, FaultsAssumption, HardwareTypes DEF HardwareTypeOK
<1>p. /\ Powered = Gripped \cup {"record", "stopping", "markStop", "finalize",
                                 "result", "insist", "preflight", "detect",
                                 "recorder", "admission", "drain"}
      /\ DOMAIN Resets = {"resetTeleop", "resetFollower", "resetTorque",
                          "resetLeader"}
  BY Tables DEF Powered, Let
<1>r. CASE Restart
  BY <1>r, <1>p DEF Restart, ResetHolds, TeleopIsOff, TorqueIsOff, Off, Gripped,
     Services
<1>g. recovery # "idle" => goal = None /\ pc = "idle"
  BY DEF PlaceOfGoal
<1>b. goal = None => pc = "idle"
  BY DEF PlaceOfGoal
<1>q. BeginRelease \/ BeginReset => goal = None /\ recovery = "idle"
  BY DEF BeginRelease, BeginReset
<1>h. /\ Release => recovery \in {"teleop", "leader", "torque", "follower"}
      /\ Reset => recovery \in DOMAIN Resets
  BY Tables DEF Release, Reset
<1>1. (torqueReleased => ~postTeleop /\ pc \notin Powered)'
  <2> SUFFICES ASSUME torqueReleased', ~Restart
               PROVE  ~postTeleop' /\ pc' \notin Powered
    BY <1>r DEF ResetHolds, Powered
  <2>1. CASE BeginRelease
    BY <1>b, <1>p, <1>q, <2>1 DEF BeginRelease, Gripped
  <2>2. CASE ~BeginRelease
    <3>1. torqueReleased
      BY <1>t, <2>2, SafetyMoves DEF PowerCalled, Release, BeginReset, Reset
    <3>2. ~postTeleop /\ pc \notin Powered
      BY <3>1 DEF ResetHolds
    <3>3. ~postTeleop'
      BY <1>p, <1>t, <3>2, TimerStarts
    <3>4. ASSUME pc' \in Powered PROVE FALSE
      <4>1. \/ pc = "rearm" /\ pc' = "preflight"
            \/ pc = "power" /\ pc' = "preflight"
        BY <1>p, <3>2, <3>4, ThreadMoves DEF Along, Goal, EndGoal, Gripped
      <4>2. CASE pc = "rearm"
        BY <3>1, <4>1, <4>2, ActsAt DEF Rearm
      <4>3. CASE pc = "power"
        <5>1. Call
          BY <4>1, <4>3, ActsAt DEF CallPlaces
        <5>2. torqueReleased' = FALSE
          BY <4>1, <4>3, <5>1 DEF Call, Raise, CallRow, Calls
        <5> QED BY <5>2
      <4> QED BY <4>1, <4>2, <4>3
    <3> QED BY <3>3, <3>4
  <2> QED BY <2>1, <2>2
<1>2. (resetReady \/ recovery \in DOMAIN Resets => torqueReleased)'
  <2> SUFFICES ASSUME resetReady' \/ recovery' \in DOMAIN Resets, ~Restart
               PROVE  torqueReleased'
    BY <1>r DEF ResetHolds
  <2>1. CASE UNCHANGED <<recovery, torqueReleased, resetReady>>
    BY <2>1 DEF ResetHolds
  <2>2. CASE PowerCalled
    BY <1>b, <1>g, <1>p, <2>2 DEF PowerCalled
  <2>3. CASE BeginRelease \/ BeginReset
    BY <2>3 DEF BeginRelease, BeginReset
  <2>4. CASE Release
    BY <1>p, <2>4, OrderTable DEF Release, OrderRow, ResetHolds
  <2>5. CASE Reset
    BY <1>h, <2>5 DEF Reset, ResetHolds
  <2> QED BY <1>t, <2>1, <2>2, <2>3, <2>4, <2>5, SafetyMoves
<1>a. ASSUME torqueReleased
      PROVE  /\ Off("teleop") => Off("teleop")'
             /\ Off("torque") => Off("torque")'
  <2>1. ~postTeleop /\ pc \notin Powered
    BY <1>a DEF ResetHolds
  <2>2. ~AsksOn("teleop") /\ ~AsksOn("torque")
    BY <1>p, <2>1 DEF AsksOn, IdleHeartbeat, Gripped
  <2> QED BY <1>m, <1>s, <1>t, <2>2, OffUnlessAsked
<1>w. ASSUME resetReady' \/ recovery' \in DOMAIN Resets, ~Restart
      PROVE  \/ Reset
             \/ BeginReset /\ resetReady' = FALSE
                  /\ recovery' \in {"idle", "resetTeleop"}
             \/ /\ resetReady' => resetReady
                /\ recovery' \in DOMAIN Resets => recovery' = recovery
  <2>1. CASE PowerCalled
    BY <2>1 DEF PowerCalled
  <2>2. CASE BeginRelease
    BY <1>p, <2>2 DEF BeginRelease
  <2>3. CASE BeginReset
    BY <2>3 DEF BeginReset
  <2>4. CASE Release
    BY <1>p, <2>4, OrderTable DEF Release, OrderRow
  <2> QED BY <1>w, <1>t, <2>1, <2>2, <2>3, <2>4, SafetyMoves
<1>3. (resetReady \/ recovery \in {"resetFollower", "resetTorque", "resetLeader"}
         => TeleopIsOff)'
  <2> SUFFICES ASSUME ~Restart,
                      \/ resetReady'
                      \/ recovery' \in {"resetFollower", "resetTorque", "resetLeader"}
               PROVE  Off("teleop")'
    BY <1>r DEF ResetHolds, TeleopIsOff
  <2>1. CASE Reset
    <3>1. torqueReleased
      BY <1>h, <2>1 DEF ResetHolds
    <3>2. CASE Succeeds("teleop", "off")
      BY <1>s, <1>t, <3>2, TurnedOff
    <3>3. CASE ~Succeeds("teleop", "off")
      <4>1. Off("teleop")
        BY <1>t, <2>1, <3>3, ResetConfirms DEF ResetHolds, TeleopIsOff
      <4> QED BY <1>a, <3>1, <4>1
    <3> QED BY <3>2, <3>3
  <2>2. CASE ~Reset
    <3>1. resetReady \/ recovery \in {"resetFollower", "resetTorque", "resetLeader"}
      BY <1>p, <1>w, <2>2
    <3>2. torqueReleased /\ Off("teleop")
      BY <1>p, <3>1 DEF ResetHolds, TeleopIsOff
    <3> QED BY <1>a, <3>2
  <2> QED BY <2>1, <2>2
<1>4. (resetReady \/ recovery = "resetLeader" => TorqueIsOff)'
  <2> SUFFICES ASSUME ~Restart, resetReady' \/ recovery' = "resetLeader"
               PROVE  Off("torque")'
    BY <1>r DEF ResetHolds, TorqueIsOff
  <2>1. CASE Reset
    <3>1. torqueReleased
      BY <1>h, <2>1 DEF ResetHolds
    <3>2. CASE Succeeds("torque", "off")
      BY <1>s, <1>t, <3>2, TurnedOff
    <3>3. CASE ~Succeeds("torque", "off")
      <4>1. Off("torque")
        BY <1>t, <2>1, <3>3, ResetConfirms DEF ResetHolds, TorqueIsOff
      <4> QED BY <1>a, <3>1, <4>1
    <3> QED BY <3>2, <3>3
  <2>2. CASE ~Reset
    <3>1. resetReady \/ recovery = "resetLeader"
      BY <1>p, <1>w, <2>2
    <3>2. torqueReleased /\ Off("torque")
      BY <1>p, <3>1 DEF ResetHolds, TorqueIsOff
    <3> QED BY <1>a, <3>2
  <2> QED BY <2>1, <2>2
<1>5. (resetReady \/ recovery \in {"resetTorque", "resetLeader"}
         => FollowerStaysOff)'
  <2> SUFFICES ASSUME ~Restart, device'["follower"] = "on",
                      \/ resetReady'
                      \/ recovery' \in {"resetTorque", "resetLeader"}
               PROVE  faults' >= 2
    BY <1>r DEF ResetHolds, FollowerStaysOff
  <2>1. ~AsksOn("follower")
    <3> SUFFICES ASSUME AsksOn("follower") PROVE FALSE
      OBVIOUS
    <3>1. Call /\ pc = "power"
      BY DEF AsksOn
    <3>2. resetReady' = FALSE /\ recovery' = recovery
      BY <3>1, <1>t, SafetyMoves DEF Call, PowerCalled
    <3> QED BY <1>g, <3>1, <3>2
  <2>2. pc # "unpower"
    <3>1. resetReady' => resetReady \/ Reset
      BY <1>w
    <3>2. recovery' \in DOMAIN Resets => recovery \in DOMAIN Resets \/ BeginReset
      BY <1>h, <1>w
    <3> QED BY <1>b, <1>g, <1>h, <1>p, <1>q, <3>1, <3>2 DEF ResetHolds
  <2>3. CASE overdue["follower"] = "on"
    BY <1>f, <2>2, <2>3 DEF ResetHolds
  <2>4. CASE overdue["follower"] # "on"
    <3>1. device["follower"] = "on"
      BY <1>m, <1>t, <2>1, <2>4, FollowerMoves
    <3>2. CASE Reset
      <4>1. resetReady \/ recovery \in {"resetTorque", "resetLeader"}
        BY <1>t, <3>1, <3>2, ResetConfirms
      <4> QED BY <1>f, <3>1, <4>1 DEF ResetHolds, FollowerStaysOff
    <3>3. CASE ~Reset
      <4>1. resetReady \/ recovery \in {"resetTorque", "resetLeader"}
        BY <1>p, <1>w, <3>3
      <4> QED BY <1>f, <3>1, <4>1 DEF ResetHolds, FollowerStaysOff
    <3> QED BY <3>2, <3>3
  <2> QED BY <2>3, <2>4
<1>6. (overdue["follower"] = "on" => faults >= IF pc = "unpower" THEN 1 ELSE 2)'
  <2> SUFFICES ASSUME ~Restart, overdue'["follower"] = "on"
               PROVE  faults' >= IF pc' = "unpower" THEN 1 ELSE 2
    BY <1>r DEF ResetHolds
  <2>1. CASE AsksOn("follower")
    <3>1. Call /\ pc = "power"
      BY <2>1 DEF AsksOn
    <3>2. Fails("follower", "on") /\ pc' = "unpower"
      BY <1>s, <1>t, <3>1, PowerIsAsked DEF Succeeds, HardwareTypeOK
    <3> QED BY <1>f, <3>2 DEF Fails
  <2>2. CASE ~AsksOn("follower")
    <3>1. faults >= IF pc = "unpower" THEN 1 ELSE 2
      BY <1>m, <1>s, <1>t, <2>2, OverdueUnlessAsked DEF ResetHolds
    <3>2. CASE pc = "unpower" /\ pc' # "unpower"
      <4>1. pc' = "idle" => EndGoal \/ Restart
        BY <3>2, ThreadMoves DEF Along, Goal
      <4>2. Call
        BY <3>2, <4>1, ActsAt DEF CallPlaces, EndGoal
      <4>3. Fails("follower", "off")
        BY <1>s, <1>t, <3>2, <4>2, PowerIsAsked DEF Asks, Succeeds, HardwareTypeOK
      <4> QED BY <1>f, <3>1, <3>2, <4>3 DEF Fails
    <3> QED BY <1>f, <3>1, <3>2
  <2> QED BY <2>1, <2>2
<1>7. (pc = "unpower" => faults >= 1 /\ ~resetReady)'
  <2> SUFFICES ASSUME pc' = "unpower" PROVE faults' >= 1 /\ ~resetReady'
    OBVIOUS
  <2>1. CASE pc = "unpower"
    <3>1. faults >= 1 /\ ~resetReady
      BY <2>1 DEF ResetHolds
    <3>2. ~Reset /\ ~Restart
      BY <1>g, <1>h, <1>p, <2>1 DEF Restart
    <3>3. ~resetReady'
      BY <1>w, <3>1, <3>2
    <3>4. faults' >= 1
      BY <1>f, <3>1
    <3> QED BY <3>3, <3>4
  <2>2. CASE pc # "unpower"
    <3>1. pc = "power"
      BY <2>2, ThreadMoves DEF Along, Goal, EndGoal, Restart
    <3>2. Call
      BY <3>1, ActsAt DEF CallPlaces
    <3>3. Fails("follower", "on")
      BY <3>1, <3>2, PowerIsAsked
    <3>4. faults' >= 1
      BY <1>f, <3>3 DEF Fails
    <3>5. ~resetReady'
      BY <3>1, <3>2 DEF Call
    <3> QED BY <3>4, <3>5
  <2> QED BY <2>1, <2>2
<1> QED BY <1>1, <1>2, <1>3, <1>4, <1>5, <1>6, <1>7 DEF ResetHolds

-----------------------------------------------------------------------------
(* What is reported                                                        *)

(* What became of a recording is noted when it ends, and forgotten when    *)
(* the next goal for it is sent.                                           *)
LEMMA RecorderNotes ==
    ASSUME RecorderTypeOK, FilesFollowThread, [Next]_vars, NEW e \in Episodes
    PROVE  \/ recorded'[e] = recorded[e]
           \/ recorded'[e] = "none" /\ (Goal(e) \/ (StartRecorder /\ e = goal))
           \/ recording # "idle" /\ e = episode
<1> USE DEF recorder
<1>1. ASSUME NEW status, End(status)
      PROVE  recorded'[e] = recorded[e] \/ e = episode
  BY <1>1 DEF End, RecorderTypeOK
<1>2. CASE RecorderRuns
  BY <1>1, <1>2 DEF RecorderRuns, RecorderStep, RecorderThread, Begin,
     AwaitInputs, AwaitStart, Decide, Commit, Keep, TakeSample, AppendSample
<1>3. ASSUME NEW x \in Episodes, Goal(x)
      PROVE  recorded'[e] = recorded[e] \/ (recorded'[e] = "none" /\ x = e)
  BY <1>3 DEF Goal, RecorderTypeOK
<1>4. CASE StartRecorder
  BY <1>4 DEF StartRecorder, Reserve, RecorderTypeOK
<1>5. CASE \/ MarkEvent \/ Finalize \/ AwaitResult \/ ReleaseRecorder
           \/ Review \/ Restart
  BY <1>5 DEF MarkEvent, Finalize, AwaitResult, ReleaseRecorder, Review,
     Restart, MarkStart, MarkStop, FinalizeRecording, CancelRecording,
     ReviewEpisode, RecorderDies
<1>6. CASE \/ Start \/ Call \/ Rearm \/ Preflight \/ TeamDone \/ TeamStops
           \/ \E c \in Children : SendChild(c) \/ ChildStep(c)
           \/ Drained \/ DrainFails \/ GiveUp \/ Wait \/ HeartbeatFails
           \/ ReleaseControl \/ AwaitRecorder \/ EndGoal
  BY <1>6 DEF Start, Call, Rearm, Preflight, TeamDone, TeamStops, SendChild,
     ChildStep, Drained, DrainFails, GiveUp, Wait, HeartbeatFails,
     ReleaseControl, AwaitRecorder, EndGoal
<1>7. CASE \/ \E s \in Services : ServeLate(s)
           \/ Cancel \/ RequestBegin \/ RequestFinalize \/ IdleHeartbeat
           \/ BeginRelease \/ Release \/ BeginReset \/ Reset
           \/ UNCHANGED vars
  BY <1>7 DEF ServeLate, Cancel, RequestBegin, RequestFinalize, IdleHeartbeat,
     BeginRelease, Release, BeginReset, Reset, vars
<1> QED BY <1>2, <1>3, <1>4, <1>5, <1>6, <1>7 DEF Next, GoalThread

(* Outcomes are written when a goal is admitted and when it ends.          *)
LEMMA OutcomeStays ==
    ASSUME [Next]_vars, outcome' # outcome
    PROVE  (\E e \in Episodes : Goal(e)) \/ EndGoal
<1>1. CASE \/ Start \/ Call \/ Rearm \/ Preflight \/ TeamDone \/ TeamStops
           \/ \E c \in Children : SendChild(c) \/ ChildStep(c)
           \/ Drained \/ DrainFails \/ StartRecorder \/ GiveUp \/ Wait
           \/ HeartbeatFails
  BY <1>1 DEF Start, Call, Rearm, Preflight, TeamDone, TeamStops, SendChild,
     ChildStep, Drained, DrainFails, StartRecorder, GiveUp, Wait, HeartbeatFails
<1>2. CASE \/ MarkEvent \/ Finalize \/ AwaitResult \/ ReleaseControl
           \/ ReleaseRecorder \/ AwaitRecorder \/ Restart
  BY <1>2 DEF MarkEvent, Finalize, AwaitResult, ReleaseControl,
     ReleaseRecorder, AwaitRecorder, Restart
<1>3. CASE \/ \E s \in Services : ServeLate(s)
           \/ Cancel \/ RequestBegin \/ RequestFinalize \/ IdleHeartbeat
           \/ BeginRelease \/ Release \/ BeginReset \/ Reset
           \/ RecorderRuns \/ Review \/ UNCHANGED vars
  BY <1>3 DEF ServeLate, Cancel, RequestBegin, RequestFinalize, IdleHeartbeat,
     BeginRelease, Release, BeginReset, Reset, RecorderRuns, Review, vars
<1> QED BY <1>1, <1>2, <1>3 DEF Next, GoalThread

(* Once something has gone wrong, the goal does not forget it.             *)
LEMMA FaultIsRemembered ==
    ASSUME TypeOK, PlaceOfGoal, [Next]_vars, goal # None, goal' = goal
    PROVE  /\ why = "failed" => why' = "failed"
           /\ unclean => unclean'
<1> USE DEF verdict
<1>t. FlagsTypeOK
  BY PartsOfTypeOK
<1>r. Releasing = {"endTeleop", "endTorque", "endLeader", "endRecorder",
                   "endResult", "end"}
  BY Tables DEF Releasing
<1>p. why = "failed" \/ unclean => pc \in Releasing \cup {"drain"}
  BY DEF PlaceOfGoal
<1>1. CASE Call
  BY <1>1, <1>p, <1>r, Tables DEF Call, CallPlaces
<1>2. CASE ReleaseControl
  BY <1>2 DEF ReleaseControl
<1>3. CASE Drained \/ DrainFails
  BY <1>3 DEF Drained, DrainFails, Raise
<1>4. CASE Start \/ Rearm \/ Preflight \/ TeamDone \/ TeamStops
  BY <1>4, <1>p, <1>r DEF Start, Rearm, Preflight, TeamDone, TeamStops
<1>5. CASE StartRecorder \/ GiveUp \/ Wait \/ HeartbeatFails
  BY <1>5, <1>p, <1>r DEF StartRecorder, GiveUp, Waits, Wait, HeartbeatFails
<1>6. CASE MarkEvent \/ Finalize \/ AwaitResult
  BY <1>6, <1>p, <1>r DEF MarkEvent, Finalize, AwaitResult
<1>7. CASE ReleaseRecorder \/ AwaitRecorder
  BY <1>7, <1>t DEF ReleaseRecorder, AwaitRecorder, FlagsTypeOK
<1>8. CASE EndGoal \/ Restart
  BY <1>8, EpisodesAssumption DEF EndGoal, Restart
<1>9. ASSUME NEW e \in Episodes, Goal(e) PROVE FALSE
  BY <1>9 DEF Goal, Admits
<1>10. CASE \/ \E c \in Children : SendChild(c) \/ ChildStep(c)
            \/ \E s \in Services : ServeLate(s)
            \/ Cancel \/ RequestBegin \/ RequestFinalize \/ IdleHeartbeat
            \/ BeginRelease \/ Release \/ BeginReset \/ Reset
            \/ RecorderRuns \/ Review \/ UNCHANGED vars
  BY <1>10 DEF SendChild, ChildStep, ServeLate, Cancel, RequestBegin,
     RequestFinalize, IdleHeartbeat, BeginRelease, Release, BeginReset, Reset,
     RecorderRuns, Review, vars
<1> QED BY <1>1, <1>2, <1>3, <1>4, <1>5, <1>6, <1>7, <1>8, <1>9, <1>10
        DEF Next, GoalThread

(* The recorder is let go of only when it has ended, or in anger.          *)
LEMMA RecorderLetGo ==
    ASSUME PlaceOfGoal, RecorderIsOwned, [Next]_vars, goal # None, goal' = goal,
           "recorder" \in owns, "recorder" \notin owns', ~Restart, ~EndGoal
    PROVE  \/ why' = "failed"
           \/ pc' = "succeed"
           \/ unclean'
           \/ recorded' = recorded /\ recorded[goal] = "canceled"
<1> USE DEF recorder
<1>1. CASE Call
  BY <1>1 DEF Call
<1>2. CASE ReleaseControl
  BY <1>2, ReleaseTable DEF ReleaseControl, ReleaseRow
<1>3. CASE GiveUp \/ Wait \/ StartRecorder \/ Release
  BY <1>3 DEF GiveUp, Wait, StartRecorder, Release, Raise
<1>4. CASE AwaitResult
  BY <1>4 DEF AwaitResult, Leave, Raise
<1>5. CASE AwaitRecorder
  BY <1>5 DEF AwaitRecorder
<1>6. CASE \/ Start \/ Rearm \/ Preflight \/ TeamDone \/ TeamStops
           \/ \E c \in Children : SendChild(c) \/ ChildStep(c)
           \/ Drained \/ DrainFails \/ HeartbeatFails
           \/ MarkEvent \/ Finalize \/ ReleaseRecorder
           \/ \E e \in Episodes : Goal(e)
  BY <1>6 DEF Start, Rearm, Preflight, TeamDone, TeamStops, SendChild,
     ChildStep, Drained, DrainFails, HeartbeatFails, MarkEvent, Finalize,
     ReleaseRecorder, Goal
<1>7. CASE \/ \E s \in Services : ServeLate(s)
           \/ Cancel \/ RequestBegin \/ RequestFinalize \/ IdleHeartbeat
           \/ BeginRelease \/ BeginReset \/ Reset
           \/ RecorderRuns \/ Review \/ UNCHANGED vars
  BY <1>7 DEF ServeLate, Cancel, RequestBegin, RequestFinalize, IdleHeartbeat,
     BeginRelease, BeginReset, Reset, RecorderRuns, Review, vars
<1> QED BY <1>1, <1>2, <1>3, <1>4, <1>5, <1>6, <1>7 DEF Next, GoalThread

(* The end of a goal is reported as it was.                                *)
LEMMA ReportKeeps ==
    ASSUME IInv, [Next]_vars
    PROVE  ReportIsTrue'
<1> USE EpisodesAssumption
<1>t. /\ TypeOK /\ RecorderInv /\ PlaceOfGoal /\ Ownership /\ RecorderIsOwned
      /\ ReportIsTrue
  BY DEF IInv
<1>x. /\ RecorderTypeOK /\ FilesFollowThread
      /\ goal \in Episodes \cup {None} /\ episode \in Episodes \cup {None}
      /\ outcome \in [Episodes -> {"none"} \cup Results]
      /\ recorded \in [Episodes -> {"none"} \cup Results]
  BY <1>t, PartsOfTypeOK DEF RestTypeOK, RecorderInv, RecorderTypeOK
<1>m. RecorderMove
  BY <1>t, OnlyTheseMove
<1>n. \A e \in Episodes :
        \/ recorded'[e] = recorded[e]
        \/ recorded'[e] = "none" /\ (Goal(e) \/ (StartRecorder /\ e = goal))
        \/ recording # "idle" /\ e = episode
  BY <1>x, RecorderNotes
<1>r. Releasing = {"endTeleop", "endTorque", "endLeader", "endRecorder",
                   "endResult", "end"}
  BY Tables DEF Releasing
<1>b. goal # None /\ recording # "idle" /\ "recorder" \notin owns =>
        /\ pc \in Releasing /\ (why = "failed" \/ unclean)
        /\ episode = goal
  BY <1>t DEF RecorderIsOwned, PlaceOfGoal
<1>g. ASSUME NEW e \in Episodes, Goal(e)
      PROVE  /\ pc' = "start" /\ goal' = e /\ goal = None
             /\ outcome' = [outcome EXCEPT ![e] = "none"]
             /\ recorded' = [recorded EXCEPT ![e] = "none"]
             /\ UNCHANGED <<recording, episode, disk, review>>
  BY <1>g DEF Goal, Admits, files
<1>e. ASSUME EndGoal
      PROVE  /\ pc \in {"succeed", "end"} /\ pc' = "idle" /\ goal' = None
             /\ goal \in Episodes /\ "recorder" \notin owns
             /\ outcome' = [outcome EXCEPT ![goal] =
                              CASE pc = "succeed" -> "succeeded"
                                [] pc = "end" /\ why = "canceled" /\ ~unclean ->
                                     "canceled"
                                [] OTHER -> "aborted"]
             /\ UNCHANGED <<recording, episode, disk, review, recorded>>
  BY <1>e, <1>t, <1>x DEF EndGoal, PlaceOfGoal, Ownership, recorder, files
<1>1. (pc = "succeed" => goal \in DryRun \/ recorded[goal] = "succeeded")'
  <2> SUFFICES ASSUME pc' = "succeed"
               PROVE  goal' \in DryRun \/ recorded'[goal'] = "succeeded"
    OBVIOUS
  <2>1. goal' = goal
    BY <1>e, <1>g, GoalStays DEF Restart
  <2>2. CASE pc = "succeed"
    <3>1. goal \in Episodes /\ recording = "idle"
      BY <1>b, <1>r, <1>t, <1>x, <2>2 DEF PlaceOfGoal, Ownership
    <3>2. recorded'[goal] = recorded[goal]
      BY <1>g, <1>n, <2>2, <3>1 DEF StartRecorder
    <3> QED BY <1>t, <2>1, <2>2, <3>2 DEF ReportIsTrue
  <2>3. CASE pc # "succeed"
    <3>1. pc \in {"start", "result", "insist"}
      BY <1>e, <1>g, <2>3, ThreadMoves DEF Along, Restart
    <3>2. Start \/ AwaitResult
      BY <1>t, <2>3, <3>1, ActsAt
    <3> QED BY <2>1, <3>1, <3>2 DEF Start, Raise, AwaitResult, Leave, recorder
  <2> QED BY <2>2, <2>3
<1>2. (\A e \in Episodes \ DryRun : outcome[e] = "succeeded" =>
         disk[e].state = "complete" /\ review[e] # "none")'
  <2> SUFFICES ASSUME NEW e \in Episodes \ DryRun, outcome'[e] = "succeeded"
               PROVE  disk'[e].state = "complete" /\ review'[e] # "none"
    OBVIOUS
  <2>1. CASE outcome[e] = "succeeded"
    <3>1. disk[e].state = "complete" /\ review[e] # "none"
      BY <1>t, <2>1 DEF ReportIsTrue
    <3>2. FileStep(e) /\ review'[e] # "none"
      BY <1>m, <1>x, <3>1, OnDisk, ReviewsKeep
    <3> QED BY <3>1, <3>2 DEF FileStep
  <2>2. CASE outcome[e] # "succeeded"
    <3>1. EndGoal /\ e = goal /\ pc = "succeed"
      <4>1. EndGoal
        BY <1>g, <1>x, <2>2, OutcomeStays
      <4> QED BY <1>e, <1>x, <2>2, <4>1
    <3>2. recorded[goal] = "succeeded"
      BY <1>t, <3>1 DEF ReportIsTrue
    <3> QED BY <1>e, <1>x, <3>1, <3>2 DEF FilesFollowThread
  <2> QED BY <2>1, <2>2
<1>3. (\A e \in Episodes : outcome[e] = "canceled" =>
         recorded[e] \in {"none", "canceled"})'
  <2> SUFFICES ASSUME NEW e \in Episodes, outcome'[e] = "canceled"
               PROVE  recorded'[e] \in {"none", "canceled"}
    OBVIOUS
  <2>1. CASE outcome[e] = "canceled"
    <3>1. ~(recording # "idle" /\ e = episode)
      BY <1>t, <2>1 DEF ReportIsTrue
    <3> QED BY <1>n, <1>t, <2>1, <3>1 DEF ReportIsTrue
  <2>2. CASE outcome[e] # "canceled"
    <3>1. EndGoal
      BY <1>g, <1>x, <2>2, OutcomeStays
    <3>2. e = goal /\ pc = "end" /\ why = "canceled" /\ ~unclean
      BY <1>e, <1>x, <2>2, <3>1
    <3> QED BY <1>e, <1>t, <3>1, <3>2 DEF ReportIsTrue
  <2> QED BY <2>1, <2>2
<1>4. (recording # "idle" => outcome[episode] # "canceled")'
  <2> SUFFICES ASSUME recording' # "idle", outcome'[episode'] = "canceled"
               PROVE  FALSE
    OBVIOUS
  <2>1. CASE recording # "idle" /\ episode' = episode
    <3>1. episode \in Episodes /\ outcome[episode] # "canceled"
      BY <1>t, <1>x, <2>1 DEF ReportIsTrue, FilesFollowThread
    <3>2. EndGoal
      BY <1>g, <1>x, <2>1, <3>1, OutcomeStays
    <3>3. why = "failed" \/ unclean
      BY <1>b, <1>e, <2>1, <3>2
    <3>4. episode = goal
      BY <1>b, <1>e, <2>1, <3>2
    <3> QED BY <1>e, <1>x, <2>1, <3>2, <3>3, <3>4
  <2>2. ASSUME NEW e \in Episodes, Reserve(e), episode' = e
        PROVE  FALSE
    <3>1. StartRecorder /\ e = goal /\ goal # None
      BY <1>x, <2>2, OnlyOneReserves
    <3>2. outcome' = outcome /\ outcome[goal] = "none"
      BY <1>t, <3>1 DEF StartRecorder, PlaceOfGoal
    <3> QED BY <2>2, <3>1, <3>2
  <2> QED BY <1>m, <2>1, <2>2, RecordingGoesOn
<1>5. (goal # None /\ "recorder" \notin owns /\ why # "failed" /\ ~unclean
         /\ pc # "succeed" => recorded[goal] \in {"none", "canceled"})'
  <2> SUFFICES ASSUME goal' # None, "recorder" \notin owns', why' # "failed",
                      ~unclean', pc' # "succeed"
               PROVE  recorded'[goal'] \in {"none", "canceled"}
    OBVIOUS
  <2>1. ASSUME NEW e \in Episodes, Goal(e)
        PROVE  recorded'[goal'] \in {"none", "canceled"}
    BY <1>g, <1>x, <2>1
  <2>2. CASE goal' = goal /\ goal # None
    <3>0. ~Restart /\ ~EndGoal /\ goal \in Episodes
      BY <1>x, <2>2 DEF Restart, EndGoal
    <3>1. why # "failed" /\ ~unclean
      BY <1>t, <2>2, FaultIsRemembered
    <3>2. pc # "succeed"
      <4>1. pc' # "idle"
        BY <1>t, <2>2, <3>0, ThreadMoves DEF Along, Goal, Admits, PlaceOfGoal
      <4> QED BY <1>t, <4>1, ActsAt
    <3>3. CASE "recorder" \in owns
      BY <1>t, <2>2, <3>0, <3>3, RecorderLetGo
    <3>4. CASE "recorder" \notin owns
      <4>1. ~(recording # "idle" /\ goal = episode)
        BY <1>b, <2>2, <3>1, <3>4
      <4> QED BY <1>n, <1>t, <2>2, <3>0, <3>1, <3>2, <3>4, <4>1 DEF ReportIsTrue
    <3> QED BY <3>3, <3>4
  <2> QED BY <1>e, <1>x, <2>1, <2>2, GoalStays DEF Restart
<1> QED BY <1>1, <1>2, <1>3, <1>4, <1>5 DEF ReportIsTrue

-----------------------------------------------------------------------------
(* The invariant                                                           *)

LEMMA InitHolds == Init => IInv
<1> SUFFICES ASSUME Init PROVE IInv
  OBVIOUS
<1> USE EpisodesAssumption DEF Init, RecorderInit
<1>1. RecorderTypeOK
  BY EmptySeq DEF RecorderTypeOK, Tapes
<1>2. pc \in Places /\ FlagsTypeOK
  BY DEF Places, FlagsTypeOK
<1>3. RestTypeOK
  BY DEF RestTypeOK, Recoveries, Children
<1>4. HardwareTypeOK
  BY FaultsAssumption DEF HardwareTypeOK, Services
<1>5. RecorderInv
  BY <1>1 DEF RecorderInv, TapeInOrder, FilesFollowThread, PublishedIsWhole
<1>6. PlaceOfGoal /\ ReportIsTrue
  BY DEF PlaceOfGoal, ReportIsTrue
<1>7. Ownership /\ TorqueIsOwned /\ RecorderIsOwned
  BY DEF Ownership, Early, Gripped, Let, TorqueIsOwned, TorqueIsOff, Off,
     RecorderIsOwned, Services
<1>8. ChildrenAreMinded
  BY DEF ChildrenAreMinded, Settled
<1>9. OneLeads
  BY DEF OneLeads, Driven, LeaderIsOff, TeleopIsOff, Off, Services
<1>10. ResetHolds
  BY Tables DEF ResetHolds, Services
<1> QED BY <1>1, <1>2, <1>3, <1>4, <1>5, <1>6, <1>7, <1>8, <1>9, <1>10,
        PartsOfTypeOK DEF IInv

LEMMA StepHolds == IInv /\ [Next]_vars => IInv'
<1> SUFFICES ASSUME IInv, [Next]_vars PROVE IInv'
  OBVIOUS
<1>1. RecorderMove
  BY OnlyTheseMove DEF IInv
<1>2. RecorderInv' /\ RecorderTypeOK'
  BY <1>1, RecorderKeeps DEF IInv, RecorderInv
<1>3. TypeOK'
  BY <1>2, CoordinatorTypes DEF IInv
<1>4. PlaceOfGoal' /\ Ownership' /\ TorqueIsOwned'
  BY PlaceKeeps, OwnershipKeeps, TorqueKeeps DEF IInv
<1>5. RecorderIsOwned' /\ ChildrenAreMinded'
  BY RecorderOwnedKeeps, ChildrenKeep DEF IInv
<1>6. OneLeads' /\ ResetHolds' /\ ReportIsTrue'
  BY OneLeadsKeeps, ResetKeeps, ReportKeeps DEF IInv
<1> QED BY <1>2, <1>3, <1>4, <1>5, <1>6 DEF IInv

(* The inductive invariant of the coordinator and its recorder is an invariant, whatever *)
(* children, services, people and restarts do.                                           *)
THEOREM InvariantHolds == Spec => []IInv
  BY InitHolds, StepHolds, PTL DEF Spec

(* Every variable of the coordinator and the recorder keeps to its type    *)
(* (collection_node.py, record_episode_node.py).                           *)
THEOREM TypeCorrect == Spec => []TypeOK
<1>1. IInv => TypeOK
  BY DEF IInv
<1> QED BY <1>1, InvariantHolds, PTL

(* A goal that ends without blocking the node leaves no child action, no   *)
(* recording, no torque on the leader and nothing it thinks it owns,       *)
(* however its calls failed (execute and its finally in                    *)
(* collection_node.py).                                                    *)
THEOREM NothingIsLeft == Spec => []EndLeavesNothing
<1>1. IInv => EndLeavesNothing
  <2> SUFFICES ASSUME IInv, goal = None, ~blocked
               PROVE  /\ \A c \in Children : Settled(c)
                      /\ recording = "idle"
                      /\ owns = {} /\ device["torque"] = "off"
    BY DEF EndLeavesNothing
  <2>1. pc = "idle" /\ owns = {}
    BY DEF IInv, PlaceOfGoal, Ownership
  <2>2. \A c \in Children : Settled(c)
    BY <2>1 DEF IInv, ChildrenAreMinded
  <2>3. recording = "idle" /\ device["torque"] = "off"
    BY <2>1 DEF IInv, RecorderIsOwned, TorqueIsOwned, TorqueIsOff, Off
  <2> QED BY <2>1, <2>2, <2>3
<1> QED BY <1>1, InvariantHolds, PTL

(* An episode that was reported as succeeded is whole, published and       *)
(* selected, and one reported as canceled was never published: the result  *)
(* of the goal, the recorder's and the directory agree.                    *)
THEOREM ReportedIsTrue == Spec => []OutcomeMatchesFiles
<1>1. IInv => OutcomeMatchesFiles
  BY DEF IInv, OutcomeMatchesFiles, ReportIsTrue, RecorderInv
<1> QED BY <1>1, InvariantHolds, PTL

(* The follower never follows a leader that its controller drives, and     *)
(* what reset confirmed holds until the next goal: the order in which the  *)
(* coordinator calls its services is enough, whichever answers are lost.   *)
THEOREM ArmsAreStill == Spec => []NobodyElseMovesTheArms
<1>1. IInv => NobodyElseMovesTheArms
  <2> SUFFICES ASSUME IInv PROVE NobodyElseMovesTheArms
    OBVIOUS
  <2>1. device["teleop"] = "on" => device["leader"] = "off"
    BY DEF IInv, OneLeads, LeaderIsOff, TeleopIsOff, Off
  <2>2. resetReady =>
          /\ device["teleop"] = "off" /\ device["torque"] = "off"
          /\ device["follower"] = "on" => faults >= 2
    BY DEF IInv, ResetHolds, TeleopIsOff, TorqueIsOff, Off, FollowerStaysOff
  <2> QED BY <2>1, <2>2 DEF NobodyElseMovesTheArms
<1> QED BY <1>1, InvariantHolds, PTL

(* A directory that was published is never written again, and the default  *)
(* selection gives way to a person's (episode_io.py,                       *)
(* default_selection.py).                                                  *)
THEOREM PublishedStays == Spec => PublishedForGood
<1>1. IInv /\ [Next]_vars =>
        [\A e \in Episodes :
           /\ disk[e].state = "complete" => disk'[e] = disk[e]
           /\ review[e] = "decided" => review'[e] = "decided"]_recorder
  <2> SUFFICES ASSUME IInv, [Next]_vars, NEW e \in Episodes
               PROVE  /\ disk[e].state = "complete" => disk'[e] = disk[e]
                      /\ review[e] = "decided" => review'[e] = "decided"
    OBVIOUS
  <2>1. RecorderMove /\ RecorderTypeOK /\ FilesFollowThread
    BY OnlyTheseMove DEF IInv, RecorderInv
  <2>2. FileStep(e)
    BY <2>1, OnDisk
  <2>3. review[e] = "decided" => review'[e] = "decided"
    BY <2>1, ReviewsKeep
  <2> QED BY <2>2, <2>3 DEF FileStep
<1> QED BY <1>1, InvariantHolds, PTL DEF Spec, PublishedForGood

=============================================================================
