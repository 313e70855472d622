--------------------------- MODULE EpisodeRecorder ---------------------------
(***************************************************************************)
(* The recorder of demonstrations: xlerobot_dataset_tools/                 *)
(* record_episode_node.py with episode_io.py (the files of an episode),    *)
(* default_selection.py (an episode is kept unless a person says no) and   *)
(* review_node.py.                                                         *)
(*                                                                         *)
(* An action goal reserves the recorder, claims a directory and runs until *)
(* it is finalized or canceled.  The sampling timer and the two services   *)
(* belong to one callback group and never overlap; the thread of the goal  *)
(* runs beside them.  Two locks serialize single steps: one guards the     *)
(* flags, one the files.  A timer that has taken a sample may be overtaken *)
(* before it appends it.                                                   *)
(***************************************************************************)
EXTENDS Integers, Sequences, FiniteSets, SequencesExt

CONSTANTS
    Episodes,     \* the identifiers episodes are given
    MaxSamples    \* bound: most samples of one episode

None == "none"

ASSUME EpisodesAssumption == None \notin Episodes

VARIABLES
    recording,    \* where the thread of the goal is
    episode,      \* episode_id, or None
    cancelRequested, committing, armed,
    stop,         \* the event that ends the recording
    sampleError,
    tape,         \* what the writer holds: boundaries and samples, in order
    hand,         \* the episode whose sample the timer has taken, or None
    disk,         \* the directory of each episode
    review,       \* its selection: none, the default, a person's
    recorded      \* what became of the last goal for it

flags == <<cancelRequested, committing, armed, stop, sampleError>>
files == <<disk, review>>
recorder == <<recording, episode, flags, tape, hand, files, recorded>>

Results == {"succeeded", "canceled", "aborted"}

RecorderInit ==
    /\ recording = "idle" /\ episode = None
    /\ cancelRequested = FALSE /\ committing = FALSE /\ armed = FALSE
    /\ stop = FALSE /\ sampleError = FALSE
    /\ tape = << >> /\ hand = None
    /\ disk = [e \in Episodes |-> [state |-> "none", tape |-> << >>]]
    /\ review = [e \in Episodes |-> "none"]
    /\ recorded = [e \in Episodes |-> "none"]

-----------------------------------------------------------------------------
Marked(boundary) == Contains(tape, boundary)

(* Of two samples in succession the first becomes a frame.                 *)
Frames(t) == Cardinality({i \in DOMAIN t : t[i] = "sample"}) - 1
FirstFrameReported == Frames(tape) >= 1

(* active: from the claim of the directory until the goal has ended.       *)
Active(e) == episode = e /\ recording \notin {"idle", "reserved"}

Write(e, state) == disk' = [disk EXCEPT ![e] = [state |-> state, tape |-> tape]]

-----------------------------------------------------------------------------
(* goal: one goal at a time.                                               *)
AdmitsRecording == recording = "idle"
Reserve(e) ==
    /\ AdmitsRecording
    /\ recording' = "reserved" /\ episode' = e
    /\ cancelRequested' = FALSE /\ committing' = FALSE
    /\ recorded' = [recorded EXCEPT ![e] = "none"]
    /\ UNCHANGED <<armed, stop, sampleError, tape, hand, files>>

(* cancel: not once the commit was decided.                                *)
CancelRecording ==
    /\ cancelRequested' = (cancelRequested
                              \/ (recording # "idle" /\ ~committing))
    /\ UNCHANGED <<recording, episode, committing, armed, stop, sampleError,
                   tape, hand, files, recorded>>

(* The end of execute, with its finally.  What the writer claimed and did  *)
(* not publish stays behind as failed.                                     *)
End(status) ==
    /\ recording' = "idle" /\ episode' = None
    /\ cancelRequested' = FALSE /\ committing' = FALSE /\ armed' = FALSE
    /\ stop' = (stop \/ recording \in {"waiting", "ready", "sampling",
                                       "committing"})
    /\ IF disk[episode].state = "recording" /\ recording # "reserved"
       THEN Write(episode, "failed") ELSE UNCHANGED disk
    /\ recorded' = [recorded EXCEPT ![episode] = status]
    /\ UNCHANGED <<sampleError, tape, hand>>

(* The directory is claimed only if nothing of this name exists, complete  *)
(* or not.                                                                 *)
Claim(e) ==
    /\ disk[e].state = "none"
    /\ disk' = [disk EXCEPT ![e] = [state |-> "recording", tape |-> << >>]]

Begin ==
    /\ recording = "reserved"
    /\ \/ /\ Claim(episode)
          /\ recording' = "waiting"
          /\ armed' = FALSE /\ stop' = FALSE /\ sampleError' = FALSE
          /\ tape' = << >>
          /\ UNCHANGED <<episode, cancelRequested, committing, hand, review,
                         recorded>>
       \/ End("aborted") /\ UNCHANGED review

(* Every input is fresh; or one is missing for too long.                   *)
AwaitInputs ==
    /\ recording = "waiting"
    /\ \/ cancelRequested /\ End("canceled") /\ UNCHANGED review
       \/ ~cancelRequested /\ End("aborted") /\ UNCHANGED review
       \/ /\ ~cancelRequested /\ recording' = "ready"
          /\ UNCHANGED <<episode, flags, tape, hand, files, recorded>>

(* The start is awaited, no longer than the preparation may take.          *)
AwaitStart ==
    /\ recording = "ready"
    /\ \/ cancelRequested /\ End("canceled") /\ UNCHANGED review
       \/ ~cancelRequested /\ ~armed /\ End("aborted") /\ UNCHANGED review
       \/ /\ ~cancelRequested /\ armed /\ recording' = "sampling"
          /\ UNCHANGED <<episode, flags, tape, hand, files, recorded>>

(* The stop was set, a cancellation was requested, or the fail-safe        *)
(* deadline has passed: whether to commit is decided once.                 *)
Decide ==
    /\ recording = "sampling"
    /\ \/ cancelRequested /\ End("canceled") /\ UNCHANGED review
       \/ ~cancelRequested /\ (sampleError \/ ~stop)
          /\ End("aborted") /\ UNCHANGED review
       \/ /\ ~cancelRequested /\ ~sampleError /\ stop
          /\ recording' = "committing" /\ committing' = TRUE /\ armed' = FALSE
          /\ UNCHANGED <<episode, cancelRequested, stop, sampleError, tape,
                         hand, files, recorded>>

(* finish: the directory is published by one rename.                       *)
Publishable ==
    ~sampleError /\ Marked("start") /\ Marked("stop") /\ Frames(tape) >= 1
Commit ==
    /\ recording = "committing"
    /\ \/ /\ Publishable
          /\ Write(episode, "complete")
          /\ recording' = "keeping"
          /\ UNCHANGED <<episode, flags, tape, hand, review, recorded>>
       \/ End("aborted") /\ UNCHANGED review

(* Mutant: the default selection replaces what a person decided.           *)
KeepAlways ==
    /\ recording = "keeping"
    /\ review' = [review EXCEPT ![episode] = "kept"]
    /\ End("succeeded")

(* keep_new_episode links its selection into place: an existing one stays. *)
Keep ==
    /\ recording = "keeping"
    /\ \/ /\ review' = IF review[episode] = "none"
                       THEN [review EXCEPT ![episode] = "kept"] ELSE review
          /\ End("succeeded")
       \/ End("aborted") /\ UNCHANGED review

-----------------------------------------------------------------------------
(* The sampling timer: the sample is taken under one lock and appended     *)
(* under the other.                                                        *)
TakeSample ==
    /\ hand = None /\ episode # None /\ Active(episode)
    /\ armed /\ ~stop /\ Len(tape) < MaxSamples + 1
    /\ \/ hand' = episode /\ UNCHANGED <<stop, sampleError>>
       \/ sampleError' = TRUE /\ stop' = TRUE /\ UNCHANGED hand
    /\ UNCHANGED <<recording, episode, cancelRequested, committing, armed,
                   tape, files, recorded>>

AppendSample ==
    /\ hand # None
    /\ hand' = None
    /\ IF stop \/ ~armed \/ episode # hand
       THEN UNCHANGED <<tape, armed, stop, sampleError>>
       ELSE \/ tape' = Append(tape, "sample")
               /\ UNCHANGED <<armed, stop, sampleError>>
            \/ /\ sampleError' = TRUE /\ armed' = FALSE /\ stop' = TRUE
               /\ UNCHANGED tape
    /\ UNCHANGED <<recording, episode, cancelRequested, committing, files,
                   recorded>>

(* mark_event: the start and the end of the recording, each once; what is  *)
(* repeated is answered again.                                             *)
MayMark(e) == Active(e) /\ ~stop /\ ~committing /\ hand = None
StartAccepted(e) ==
    MayMark(e) /\ (~Marked("start") \/ (armed /\ Marked("start")))
StopAccepted(e) ==
    MayMark(e) /\ (Marked("stop") \/ (armed /\ Marked("start")))

MarkStart(e) ==
    /\ StartAccepted(e)
    /\ IF Marked("start") THEN UNCHANGED <<tape, armed, sampleError>>
       ELSE /\ tape' = Append(tape, "start")
            /\ armed' = TRUE /\ sampleError' = FALSE
    /\ UNCHANGED <<recording, episode, cancelRequested, committing, stop,
                   hand, files, recorded>>

MarkStop(e) ==
    /\ StopAccepted(e)
    /\ IF Marked("stop") THEN UNCHANGED <<tape, armed>>
       ELSE tape' = Append(tape, "stop") /\ armed' = FALSE
    /\ UNCHANGED <<recording, episode, cancelRequested, committing, stop,
                   sampleError, hand, files, recorded>>

(* finalize: only after the end was marked.                                *)
FinalizeAccepted(e) == Active(e) /\ Marked("stop") /\ hand = None
FinalizeRecording(e) ==
    /\ FinalizeAccepted(e)
    /\ armed' = FALSE /\ stop' = TRUE
    /\ UNCHANGED <<recording, episode, cancelRequested, committing,
                   sampleError, tape, hand, files, recorded>>

(* A person selects or rejects a complete episode, before or after the     *)
(* recorder has kept it.                                                   *)
ReviewEpisode(e) ==
    /\ disk[e].state = "complete"
    /\ review' = [review EXCEPT ![e] = "decided"]
    /\ UNCHANGED <<recording, episode, flags, tape, hand, disk, recorded>>

(* The process dies: what is on disk stays.                                *)
RecorderDies ==
    /\ recording' = "idle" /\ episode' = None
    /\ cancelRequested' = FALSE /\ committing' = FALSE /\ armed' = FALSE
    /\ stop' = FALSE /\ sampleError' = FALSE
    /\ tape' = << >> /\ hand' = None
    /\ UNCHANGED <<files, recorded>>

RecorderThread ==
    Begin \/ AwaitInputs \/ AwaitStart \/ Decide \/ Commit \/ Keep
RecorderStep == RecorderThread \/ TakeSample \/ AppendSample

-----------------------------------------------------------------------------
(* Properties *)

Tapes == Seq({"start", "sample", "stop"})

RecorderTypeOK ==
    /\ recording \in {"idle", "reserved", "waiting", "ready", "sampling",
                      "committing", "keeping"}
    /\ episode \in Episodes \cup {None} /\ hand \in Episodes \cup {None}
    /\ cancelRequested \in BOOLEAN /\ committing \in BOOLEAN
    /\ armed \in BOOLEAN /\ stop \in BOOLEAN /\ sampleError \in BOOLEAN
    /\ tape \in Tapes
    /\ disk \in [Episodes -> [state : {"none", "recording", "failed",
                                       "complete"},
                              tape : Tapes]]
    /\ review \in [Episodes -> {"none", "kept", "decided"}]
    /\ recorded \in [Episodes -> {"none"} \cup Results]

(* A published episode begins and ends with its boundaries and holds at    *)
(* least one frame and nothing else: no sample crosses the end of the      *)
(* recording, whichever thread comes first, and no failed or interrupted   *)
(* recording is published.                                                 *)
PublishedIsWhole ==
    \A e \in Episodes : disk[e].state = "complete" =>
        LET t == disk[e].tape
        IN  /\ Len(t) >= 4 /\ t[1] = "start" /\ t[Len(t)] = "stop"
            /\ \A i \in 2 .. Len(t) - 1 : t[i] = "sample"

(* A published episode is never touched again, and the recorder never      *)
(* overrides what a person decided about it.                               *)
PublishedForGood ==
    [][\A e \in Episodes :
         /\ disk[e].state = "complete" => disk'[e] = disk[e]
         /\ review[e] = "decided" => review'[e] = "decided"]_recorder

=============================================================================
