---------------------------- MODULE PolicyCapture ----------------------------
(***************************************************************************)
(* What takes the chunks of a policy: xlerobot_policy/                     *)
(* policy_capture_sink.py, which records them for a replay and moves       *)
(* nothing.                                                                *)
(*                                                                         *)
(* One session at a time is reserved, armed once the joints are known, fed *)
(* by chunks and written to its file after the final one.  When live, the  *)
(* streaming executor stands in its place (external here): chunks are      *)
(* taken in the same way, but samples are executed one after the other and *)
(* nothing is written.                                                     *)
(***************************************************************************)
EXTENDS Naturals, Sequences, SequencesExt

CONSTANT MaxSessions    \* bound: sessions asked for

Sessions == 1 .. MaxSessions

VARIABLES
    live,          \* the executor, not the sink
    goals,         \* the goal of each session at the server
    asked,         \* the sessions whose cancellation was requested
    server,        \* where the thread of the goal is
    session,       \* the session it is for, or 0
    chunks,        \* the chunks taken: the samples up to its end, its final flag
    executed,      \* samples executed, or taken as executed
    failure,
    dry,           \* the sessions that are dry runs
    replay         \* the chunks of the file, if there is one

sink == <<live, goals, asked, server, session, chunks, executed, failure,
          dry, replay>>

Ended == {"succeeded", "canceled", "aborted"}

SinkInit ==
    /\ live \in BOOLEAN
    /\ goals = [s \in Sessions |-> "none"] /\ asked = {}
    /\ server = "idle" /\ session = 0 /\ chunks = << >> /\ executed = 0
    /\ failure = FALSE /\ dry = {} /\ replay = << >>

(* A chunk counts the samples of those before it too: sample_count adds    *)
(* them up whenever it is asked, which comes to the same.                  *)
Chunk == [upto : Nat, final : BOOLEAN]
Samples == IF chunks = << >> THEN 0 ELSE Last(chunks).upto
FinalReceived == chunks # << >> /\ Last(chunks).final

-----------------------------------------------------------------------------
(* _goal_callback: one session, and only while there is no file.  A dry    *)
(* run is for the executor alone.                                          *)
Reserves(s) == server = "idle" /\ (live \/ (replay = << >> /\ s \notin dry))
ServeGoal(s) ==
    /\ goals[s] = "sent"
    /\ IF Reserves(s)
       THEN /\ goals' = [goals EXCEPT ![s] = "accepted"]
            /\ server' = "arming" /\ session' = s
       ELSE /\ goals' = [goals EXCEPT ![s] = "rejected"]
            /\ UNCHANGED <<server, session>>
    /\ UNCHANGED <<live, asked, chunks, executed, failure, dry, replay>>

(* The end of _execute, with its finally.                                  *)
EndSession(status) ==
    /\ goals' = [goals EXCEPT ![session] = status]
    /\ server' = "idle" /\ session' = 0
    /\ chunks' = << >> /\ executed' = 0 /\ failure' = FALSE
    /\ UNCHANGED <<live, asked, dry>>

(* The joints are fresh and at the start of the policy; or they are not.   *)
Arm ==
    /\ server = "arming"
    /\ \/ /\ server' = "armed" /\ chunks' = << >> /\ executed' = 0
          /\ failure' = FALSE
          /\ UNCHANGED <<live, goals, asked, session, dry, replay>>
       \/ EndSession("aborted") /\ UNCHANGED replay

(* accept: a chunk of this session, in sequence.  Any other one ends the   *)
(* session.  Nothing is heard before it is armed or after a failure.       *)
Hears == server \in {"armed", "writing"} /\ ~failure
TakeChunk(m) ==
    IF ~Hears THEN UNCHANGED sink
    ELSE /\ IF m.session = session /\ m.sequence = Len(chunks)
            THEN /\ chunks' = Append(chunks, [upto |-> Samples + m.samples,
                                              final |-> m.final])
                 /\ executed' = IF live THEN executed ELSE Samples + m.samples
                 /\ UNCHANGED failure
            ELSE failure' = TRUE /\ UNCHANGED <<chunks, executed>>
         /\ UNCHANGED <<live, goals, asked, server, session, dry, replay>>

(* A sample is executed (external).                                        *)
Execute ==
    /\ live /\ server = "armed" /\ executed < Samples
    /\ executed' = executed + 1
    /\ UNCHANGED <<live, goals, asked, server, session, chunks, failure, dry,
                   replay>>

(* The loop of _execute ends: canceled, which may be seen late; failed; at *)
(* the deadline; or after the final chunk.                                 *)
Decide ==
    /\ server = "armed"
    /\ \/ session \in asked /\ EndSession("canceled") /\ UNCHANGED replay
       \/ /\ failure \/ ~FinalReceived \/ live
          /\ EndSession("aborted") /\ UNCHANGED replay
       \/ /\ ~failure
          /\ session \in dry \/ (FinalReceived /\ executed = Samples)
          /\ \/ live /\ EndSession("succeeded") /\ UNCHANGED replay
             \/ /\ ~live /\ server' = "writing"
                /\ UNCHANGED <<live, goals, asked, session, chunks, executed,
                               failure, dry, replay>>

(* write_replay: the file is exposed by one rename, or not at all.         *)
WriteReplay ==
    /\ server = "writing"
    /\ \/ /\ replay = << >> /\ FinalReceived /\ replay' = chunks
          /\ EndSession("succeeded")
       \/ EndSession("aborted") /\ UNCHANGED replay

=============================================================================
