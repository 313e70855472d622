--------------------------- MODULE VoiceAssistant ---------------------------
(***************************************************************************)
(* The voice assistant: xlerobot_voice/voice_assistant_node.py, audio.py,  *)
(* intent.py and task_adapter.py, composed with the speech output it       *)
(* speaks through.                                                         *)
(*                                                                         *)
(* One thread loops: wake word, acknowledgement, cue, recording,           *)
(* transcription, intent, task, prompts.  The task is sent and awaited by  *)
(* a thread of its own while the acceptance is spoken.  Every call of an   *)
(* action is given up after a time, and what was given up goes on.         *)
(*                                                                         *)
(* Models of speech and language, the microphone and the task server are   *)
(* external.  Of the requests that were given up before they were answered *)
(* one of each kind is kept on its way, and a request to cancel a speech   *)
(* is lost when another one is being served.                               *)
(***************************************************************************)
EXTENDS SpeakText

CONSTANTS
    Utterances,   \* what may be said: is it heard, and is it a command
    LoopFaults    \* the microphone, a model or a future may raise

VARIABLES
    pc,           \* where _run_loop is
    call,         \* where _call_action is, for speech and for the task
    wire,         \* goals on their way to their servers
    given,        \* a speech was given up since the wake word, or not over
    result,       \* of the task
    stop,         \* stop_event
    task,         \* whose task runs at the task server
    asked         \* it was asked to cancel

assistant == <<pc, result>>
calls == <<call, wire, given>>
taskServer == <<task, asked>>
voice == <<assistant, calls, stop, taskServer, speech>>

Slots == {"say", "do"}
Mine == {"assistant", "abandoned", "unseen"}
Speaking == {"ack", "cue", "sorry", "accept", "prompt", "reason"}
Ended == {"dead", "stopped"}

InitVoice ==
    /\ InitSpeech
    /\ pc = "wait" /\ result = "none"
    /\ call = [s \in Slots |-> "idle"] /\ wire = {} /\ given = FALSE
    /\ stop = FALSE
    /\ task = "none" /\ asked = FALSE

-----------------------------------------------------------------------------
(* The calls of actions: _call_action *)

Old(s) == IF s = "say" THEN "oldSay" ELSE "oldDo"
CallEnds(s) == call' = [call EXCEPT ![s] = "done"]
TaskGets(s, r) == result' = IF s = "do" THEN r ELSE result

(* Whoever asks for the goal of a call that was given up is nobody's.      *)
SendCall(s) ==
    /\ call[s] = "start"
    /\ \/ CallEnds(s) /\ UNCHANGED wire
       \/ call' = [call EXCEPT ![s] = "response"] /\ wire' = wire \cup {s}
    /\ UNCHANGED <<pc, result, given, stop, taskServer, speech>>

(* The response is overdue, or the node stops: the goal is left to itself. *)
GiveUpResponse(s) ==
    /\ call[s] = "response"
    /\ CallEnds(s) /\ given' = (given \/ s = "say")
    /\ wire' = IF s \in wire THEN (wire \ {s}) \cup {Old(s)} ELSE wire
    /\ speaker' = IF s = "say" /\ speaker = "assistant" THEN "abandoned"
                                                        ELSE speaker
    /\ task' = IF s = "do" /\ task = "assistant" THEN "unseen" ELSE task
    /\ UNCHANGED <<assistant, stop, asked, plan, process,
                   draft, cached, canceling, overtaken, cancelSpeech>>

(* The result is overdue, or the node stops: the goal is asked to cancel.  *)
GiveUpSpeech ==
    /\ call["say"] = "result" /\ CallEnds("say")
    /\ given' = TRUE
    /\ IF speaker = "assistant" /\ canceling = "none"
       THEN canceling' = "callback" /\ overtaken' = FALSE
       ELSE UNCHANGED <<canceling, overtaken>>
    /\ speaker' = IF speaker = "assistant" THEN "abandoned" ELSE speaker
    /\ UNCHANGED <<assistant, wire, stop, taskServer, plan,
                   process, draft, cached, cancelSpeech>>

GiveUpTask ==
    /\ call["do"] = "result" /\ CallEnds("do")
    /\ IF task = "assistant" THEN task' = "abandoned" /\ asked' = TRUE
                             ELSE UNCHANGED <<task, asked>>
    /\ UNCHANGED <<assistant, wire, given, stop, speech>>

(* A result arrives.  Success and a cancellation are alike: nothing is     *)
(* said.                                                                   *)
SpeechDone ==
    /\ call["say"] = "result" /\ speaker # "assistant"
    /\ CallEnds("say")
    /\ UNCHANGED <<assistant, wire, given, stop, taskServer, speech>>

TaskDone ==
    /\ call["do"] = "result" /\ task # "assistant"
    /\ CallEnds("do")
    /\ result' \in {"over", "failed"}
    /\ UNCHANGED <<pc, wire, given, stop, taskServer, speech>>

GiveUp == (\E s \in Slots : GiveUpResponse(s)) \/ GiveUpSpeech \/ GiveUpTask
CallStep ==
    (\E s \in Slots : SendCall(s)) \/ GiveUp \/ SpeechDone \/ TaskDone

-----------------------------------------------------------------------------
(* The servers see the goals *)

Refused(s) == /\ wire' = wire \ {s}
              /\ call' = IF s \in Slots THEN [call EXCEPT ![s] = "done"]
                                        ELSE call
Admitted(s) == /\ wire' = wire \ {s}
               /\ call' = IF s \in Slots THEN [call EXCEPT ![s] = "result"]
                                         ELSE call

SpeechRequest(s) ==
    /\ s \in wire \cap {"say", "oldSay"}
    /\ \/ /\ Admitted(s)
          /\ AdmitSpeech(IF s = "say" THEN "assistant" ELSE "abandoned")
       \/ speaker # "none" /\ Refused(s) /\ UNCHANGED speech
    /\ UNCHANGED <<assistant, given, stop, taskServer>>

(* The task server (external), which others use as well and which refuses  *)
(* for their sake; speech of others.                                       *)
TaskRequest(s) ==
    /\ s \in wire \cap {"do", "oldDo"}
    /\ \/ /\ task = "none" /\ Admitted(s)
          /\ task' = IF s = "do" THEN "assistant" ELSE "unseen"
          /\ asked' = FALSE
       \/ Refused(s) /\ UNCHANGED <<task, asked>>
    /\ UNCHANGED <<assistant, given, stop, speech>>

TaskEnds ==
    /\ task # "none" /\ task' = "none" /\ asked' = FALSE
    /\ UNCHANGED <<assistant, calls, stop, speech>>

OtherSpeech ==
    /\ AdmitSpeech("other") \/ AskSpeech("other")
    /\ UNCHANGED <<assistant, calls, stop, taskServer>>

-----------------------------------------------------------------------------
(* _run_loop *)

Goto(p) == pc' = p
Say(p) == Goto(p) /\ call' = [call EXCEPT !["say"] = "start"]
Listen == Goto("wait")

Wake ==
    /\ pc = "wait" /\ ~stop
    /\ Say("ack")
    /\ given' = ("oldSay" \in wire \/ speaker = "abandoned")
    /\ UNCHANGED <<result, wire, stop, taskServer, speech>>

(* The microphone is open while the cue is spoken; what it heard by then   *)
(* is dropped.                                                             *)
Acknowledged ==
    /\ pc = "ack" /\ call["say"] = "done" /\ Say("cue")
    /\ UNCHANGED <<result, wire, given, stop, taskServer,
                   speech>>

Cued ==
    /\ pc = "cue" /\ call["say"] = "done"
    /\ call' = [call EXCEPT !["say"] = "idle"]
    /\ IF stop THEN Goto("stopped")
               ELSE Goto("record")
    /\ UNCHANGED <<result, wire, given, stop, taskServer, speech>>

(* CommandRecorder.record ends with silence or after a time.               *)
Recorded ==
    /\ pc = "record"
    /\ IF stop THEN Goto("stopped")
               ELSE Goto("transcribe")
    /\ UNCHANGED <<result, calls, stop, taskServer, speech>>

(* transcript_is_acceptable: by the evidence of the recognizer alone.      *)
transcript_is_acceptable(u) == u.heard

(* normalize_intent: a supported, concrete and confident intent.           *)
normalize_intent(u) == u.supported /\ u.concrete /\ u.confident

Transcribed ==
    /\ pc = "transcribe"
    /\ \E u \in Utterances :
         IF transcript_is_acceptable(u)
         THEN Goto("parse") /\ UNCHANGED call
         ELSE Say("sorry")
    /\ UNCHANGED <<result, wire, given, stop, taskServer, speech>>

(* _execute_task_with_parallel_ack starts both threads.                    *)
Parsed ==
    /\ pc = "parse"
    /\ \E u \in Utterances :
         IF normalize_intent(u)
         THEN /\ Goto("accept")
              /\ call' = [s \in Slots |-> "start"]
         ELSE Say("sorry")
    /\ UNCHANGED <<result, wire, given, stop, taskServer, speech>>

Apologized ==
    /\ pc = "sorry" /\ call["say"] = "done" /\ Listen
    /\ call' = [call EXCEPT !["say"] = "idle"]
    /\ UNCHANGED <<result, wire, given, stop, taskServer, speech>>

(* The loop waits for the thread of the task, however long.                *)
Joined ==
    /\ pc = "accept" /\ \A s \in Slots : call[s] = "done"
    /\ IF result \in {"none", "failed"}
       THEN /\ Goto("prompt")
            /\ call' = [call EXCEPT !["say"] = "start", !["do"] = "idle"]
       ELSE Listen /\ call' = [s \in Slots |-> "idle"]
    /\ result' = "none"
    /\ UNCHANGED <<wire, given, stop, taskServer, speech>>

(* task_failure_prompts: the stage that failed, and the reason.            *)
Prompted ==
    /\ pc \in {"prompt", "reason"} /\ call["say"] = "done"
    /\ IF pc = "prompt" THEN Say("reason")
       ELSE Listen /\ call' = [call EXCEPT !["say"] = "idle"]
    /\ UNCHANGED <<result, wire, given, stop, taskServer, speech>>

Stopped ==
    /\ pc = "wait" /\ stop /\ Goto("stopped")
    /\ UNCHANGED <<result, calls, stop, taskServer, speech>>

(* Nothing in the loop catches what the microphone or a model raises: the  *)
(* thread is gone, and the last state stays published.                     *)
LoopDies ==
    /\ LoopFaults /\ pc \in {"wait", "record", "transcribe"}
    /\ Goto("dead")
    /\ UNCHANGED <<result, calls, stop, taskServer, speech>>

(* destroy_node: the accepted goals are asked to cancel.                   *)
Stop ==
    /\ ~stop /\ stop' = TRUE
    /\ asked' = (asked \/ (call["do"] = "result" /\ task = "assistant"))
    /\ UNCHANGED <<assistant, calls, task, speech>>

LoopStep ==
    \/ Acknowledged \/ Cued \/ Recorded \/ Transcribed \/ Parsed
    \/ Apologized \/ Joined \/ Prompted \/ Stopped

ServerStep ==
    \/ \E s \in {"say", "oldSay"} : SpeechRequest(s)
    \/ \E s \in {"do", "oldDo"} : TaskRequest(s)

NextVoice ==
    \/ Wake \/ LoopStep \/ LoopDies \/ Stop \/ CallStep
    \/ ServerStep \/ TaskEnds \/ OtherSpeech
    \/ /\ SpeechStep
       /\ UNCHANGED <<assistant, calls, stop, taskServer>>

(* The threads of the assistant run; nothing is asked of the servers, for  *)
(* every wait of the assistant is bounded.                                 *)
VoiceFairness == WF_voice(LoopStep) /\ WF_voice(CallStep)

-----------------------------------------------------------------------------
(* Properties *)

VoiceTypeOK ==
    /\ SpeechTypeOK
    /\ pc \in Speaking \cup Ended \cup {"wait", "record", "transcribe", "parse"}
    /\ call \in [Slots -> {"idle", "start", "response", "result", "done"}]
    /\ wire \subseteq {"say", "oldSay", "do", "oldDo"} /\ given \in BOOLEAN
    /\ task \in Mine \cup {"none"}

(* A command is not recorded while the assistant itself speaks: its cue    *)
(* has ended before, unless it was given up.                               *)
RecordsInSilence ==
    pc = "record" /\ speaker \in {"assistant", "abandoned"} =>
        given

(* A task of the assistant that runs is awaited by it or was asked to      *)
(* cancel, unless its acceptance was never observed: also when the node    *)
(* stops, or its loop has died.                                            *)
TaskIsMinded ==
    task \in {"assistant", "abandoned"} =>
        asked \/ call["do"] \in {"response", "result"}

(* Whenever a generator is ended, by itself, by its deadline or by a       *)
(* request to cancel, only a whole file is kept for the next time.         *)
CacheIsWhole == cached # "partial"

(* The assistant waits for a wake word, or has said that it stopped.       *)
Listens == pc \in Ended \cup {"wait"}

=============================================================================
