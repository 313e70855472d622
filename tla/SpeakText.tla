----------------------------- MODULE SpeakText -----------------------------
(***************************************************************************)
(* The speech output: xlerobot_voice/speak_text_node.py.                   *)
(*                                                                         *)
(* One goal at a time is spoken by processes that run one after the other: *)
(* a player for each recorded part and, for a part that was never spoken   *)
(* before, a generator whose file is kept for the next time.  The thread   *)
(* of the goal polls its process; a cancel request is served by a thread   *)
(* of its own, which ends the process before the goal knows that it is     *)
(* canceled.  The processes and rclpy are external.                        *)
(***************************************************************************)
EXTENDS Naturals, Sequences

VARIABLES
    speaker,       \* whose goal is active: _goal_active
    plan,          \* the processes that are still to run
    process,       \* the one that runs or ran last: _process
    draft,         \* the temporary file of the generator
    cached,        \* the generated file in the cache
    canceling,     \* where the request to cancel a goal is
    overtaken,     \* that goal has ended meanwhile
    cancelSpeech   \* is_cancel_requested

speech == <<speaker, plan, process, draft, cached, canceling, overtaken,
            cancelSpeech>>

Clients == {"assistant", "abandoned", "other"}
Processes == {"none", "alive", "succeeded", "failed"}

InitSpeech ==
    /\ speaker = "none" /\ plan = << >> /\ process = "none"
    /\ draft = "none" /\ cached = "none"
    /\ canceling = "none" /\ overtaken = FALSE /\ cancelSpeech = FALSE

(* goal_callback                                                           *)
AdmitSpeech(c) ==
    /\ speaker = "none"
    /\ speaker' = c
    /\ plan' = <<"validate">>
    /\ UNCHANGED <<process, draft, cached, canceling, overtaken, cancelSpeech>>

(* The end of execute, whatever the outcome: it makes sure that the        *)
(* process has ended, and removes what the generator was writing.          *)
EndSpeech ==
    /\ speaker' = "none" /\ plan' = << >>
    /\ process' = "none" /\ draft' = "none" /\ cancelSpeech' = FALSE
    /\ overtaken' = (canceling # "none")
    /\ UNCHANGED <<cached, canceling>>

(* Which processes a text takes: _play_preset, _play_hybrid and            *)
(* _play_generated.  A preset or a prefix is recorded; any other text has  *)
(* to be generated unless it was before.                                   *)
Plans ==
    {<<"play">>} \cup
    (IF cached = "none" THEN {<<"make", "play">>, <<"play", "make", "play">>}
                        ELSE {<<"play", "play">>})

(* A dry run and a backend that is off end the goal here.                  *)
PlanSpeech ==
    /\ speaker # "none" /\ plan = <<"validate">>
    /\ \/ EndSpeech
       \/ /\ plan' \in Plans
          /\ UNCHANGED <<speaker, process, draft, cached, canceling,
                         overtaken, cancelSpeech>>

Playing == speaker # "none" /\ plan # << >> /\ plan # <<"validate">>

(* _run_process starts one; the program or its file may be missing.        *)
Spawn ==
    /\ Playing /\ process = "none"
    /\ \/ /\ process' = "alive"
          /\ draft' = IF Head(plan) = "make" THEN "partial" ELSE draft
          /\ UNCHANGED <<speaker, plan, cached, canceling, overtaken,
                         cancelSpeech>>
       \/ EndSpeech

(* The process ends by itself (external).                                  *)
Exit ==
    /\ process = "alive"
    /\ \/ /\ process' = "succeeded"
          /\ draft' = IF draft = "partial" THEN "whole" ELSE draft
       \/ process' = "failed" /\ UNCHANGED draft
    /\ UNCHANGED <<speaker, plan, cached, canceling, overtaken, cancelSpeech>>

(* One look at the process, and what follows its end.  A deadline or a     *)
(* cancellation terminates it.                                             *)
Poll ==
    /\ Playing
    /\ \/ process = "alive" /\ EndSpeech
       \/ process = "failed" /\ EndSpeech
       \/ process = "succeeded" /\ cancelSpeech /\ EndSpeech
       \/ /\ process = "succeeded" /\ ~cancelSpeech
          /\ IF Len(plan) = 1 THEN EndSpeech
             ELSE /\ plan' = Tail(plan) /\ process' = "none"
                  /\ cached' = IF Head(plan) = "make" THEN draft ELSE cached
                  /\ draft' = "none"
                  /\ UNCHANGED <<speaker, canceling, overtaken, cancelSpeech>>

(* A request to cancel the active goal arrives.                            *)
AskSpeech(c) ==
    /\ canceling = "none" /\ speaker = c
    /\ canceling' = "callback" /\ overtaken' = FALSE
    /\ UNCHANGED <<speaker, plan, process, draft, cached, cancelSpeech>>

(* cancel_callback ends whatever process runs by now ...                   *)
CancelCallback ==
    /\ canceling = "callback" /\ canceling' = "commit"
    /\ process' = IF process = "alive" THEN "failed" ELSE process
    /\ UNCHANGED <<speaker, plan, draft, cached, overtaken, cancelSpeech>>

(* ... and only then does rclpy mark the goal, if it is still active.      *)
CancelCommit ==
    /\ canceling = "commit" /\ canceling' = "none"
    /\ cancelSpeech' = (cancelSpeech \/ ~overtaken) /\ overtaken' = FALSE
    /\ UNCHANGED <<speaker, plan, process, draft, cached>>

SpeechThread == PlanSpeech \/ Spawn \/ Poll
SpeechStep == SpeechThread \/ Exit \/ CancelCallback \/ CancelCommit

SpeechTypeOK ==
    /\ speaker \in Clients \cup {"none"} /\ process \in Processes
    /\ draft \in {"none", "partial", "whole"} /\ cached \in {"none", "whole"}
    /\ canceling \in {"none", "callback", "commit"}
    /\ overtaken \in BOOLEAN /\ cancelSpeech \in BOOLEAN

=============================================================================
