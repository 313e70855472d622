---------------------------- MODULE PersonSearch ----------------------------
(***************************************************************************)
(* The search for a person: xlerobot_task/person_search_node.py, which     *)
(* moves the base and the head from view to view, composed with            *)
(* xlerobot_perception/scan_for_person_node.py, which looks for people in  *)
(* one view, and rgbd/frame_buffer.py, which gives it frames.              *)
(*                                                                         *)
(* The coordinator runs one child action at a time and does not let go of  *)
(* it before it knows that it has ended; if that cannot be known it holds  *)
(* its goal until the program is restarted.  Camera frames are captured    *)
(* all the time, also while the robot moves, and arrive late.              *)
(*                                                                         *)
(* The controllers of head and base and the detector are external.  What a *)
(* frame shows is reduced to whether the robot stood still when it was     *)
(* captured, and its stamp to whether that was after the view began.       *)
(***************************************************************************)
EXTENDS Naturals, FiniteSets, FiniteSetsExt

CONSTANTS
    Keys,         \* the streams of the camera: colour, depth, info
    Turns,        \* number of body_turns_rad
    Pans,         \* number of scan_pan_rad
    Distances     \* what a person's distance may be

ASSUME SearchAssumption ==
    Turns \in Nat \ {0} /\ Pans \in Nat \ {0} /\ Distances \subseteq Nat

VARIABLES
    stage,           \* of the coordinator's goal
    turn, pan,       \* the view it is at
    childCall,       \* where _call is
    child,           \* the child action at its server
    childAsked,      \* its cancellation was requested
    cancelRequested,
    why,             \* the failure that ends the goal
    candidates,      \* the distances of the views that found someone
    command,         \* the last one on /cmd_vel_teleop
    view,            \* where the view server is
    latest,          \* its frame buffer
    camera,          \* frames captured and not yet stored
    outcome          \* of the last goal

coordinator == <<stage, turn, pan, cancelRequested, why, candidates, command,
                 outcome>>
children == <<childCall, child, childAsked>>
perception == <<view, latest, camera>>
vars == <<coordinator, children, perception>>

Frame == [still : BOOLEAN, fresh : BOOLEAN]
Moves == {"spin", "head", "home"}
Terminal == {"succeeded", "notFound", "aborted", "canceled"}

Init ==
    /\ stage = "idle" /\ turn = 1 /\ pan = 1
    /\ childCall = "none" /\ child = "none" /\ childAsked = FALSE
    /\ cancelRequested = FALSE /\ why = "none" /\ candidates = {}
    /\ command = "zero"
    /\ view = "idle"
    /\ latest = [k \in Keys |-> {}] /\ camera = [k \in Keys |-> {}]
    /\ outcome = [status |-> "none", distance |-> 0]

-----------------------------------------------------------------------------
(* The goal *)

(* The end of execute: a cancellation that was requested wins over any     *)
(* failure, and none is reported that was not.                             *)
EndGoal(status, distance) ==
    /\ stage' = "idle" /\ childCall' = "none"
    /\ outcome' = [status |-> status, distance |-> distance]
    /\ cancelRequested' = FALSE /\ why' = "none"
    /\ UNCHANGED <<turn, pan, candidates>>
Failed == EndGoal(IF cancelRequested THEN "canceled"
                  ELSE IF why = "notFound" THEN "notFound" ELSE "aborted", 0)

Raise(reason) == why' = reason /\ stage' = "failed" /\ childCall' = "none"

(* goal_callback: one search at a time.  A dry run only says that it might.*)
Goal ==
    /\ stage = "idle"
    /\ stage' = "start" /\ turn' = 1 /\ pan' = 1 /\ candidates' = {}
    /\ outcome' = [status |-> "none", distance |-> 0]
    /\ UNCHANGED <<cancelRequested, why, command, children, perception>>

CancelGoal ==
    /\ stage # "idle" /\ cancelRequested' = TRUE
    /\ UNCHANGED <<stage, turn, pan, why, candidates, command, outcome,
                   children, perception>>

Start ==
    /\ stage = "start"
    /\ \/ cancelRequested /\ Raise("canceled")
          /\ UNCHANGED <<turn, pan, candidates, cancelRequested, command, outcome>>
       \/ ~cancelRequested /\ EndGoal("dryRun", 0) /\ UNCHANGED command
       \/ /\ ~cancelRequested /\ stage' = "retreat"
          /\ UNCHANGED <<turn, pan, candidates, cancelRequested, why, command,
                         outcome, childCall>>
    /\ UNCHANGED <<child, childAsked, perception>>

(* _manual_retreat: backwards until the distance is covered or for a time; *)
(* its last command is to stop, however it ends.                           *)
Retreat ==
    /\ stage = "retreat"
    /\ \/ /\ ~cancelRequested
          /\ command' = "back" /\ UNCHANGED <<stage, why, childCall>>
       \/ cancelRequested /\ command' = "zero" /\ Raise("canceled")
       \/ command' = "zero" /\ stage' = "spin" /\ UNCHANGED <<why, childCall>>
    /\ UNCHANGED <<turn, pan, candidates, cancelRequested, outcome, child,
                   childAsked, perception>>

(* _wait_settle                                                            *)
Settle ==
    /\ stage = "settle"
    /\ \/ cancelRequested /\ Raise("canceled")
       \/ stage' = "view" /\ UNCHANGED <<why, childCall>>
    /\ UNCHANGED <<turn, pan, candidates, cancelRequested, command, outcome,
                   child, childAsked, perception>>

(* After the last view: the nearest of all of them.                        *)
Select ==
    /\ stage = "select"
    /\ \/ candidates = {} /\ Raise("notFound")
          /\ UNCHANGED <<turn, pan, candidates, cancelRequested, outcome>>
       \/ candidates # {} /\ cancelRequested /\ Raise("canceled")
          /\ UNCHANGED <<turn, pan, candidates, cancelRequested, outcome>>
       \/ candidates # {} /\ ~cancelRequested
          /\ EndGoal("succeeded", Min(candidates))
    /\ UNCHANGED <<command, child, childAsked, perception>>

Fail ==
    /\ stage = "failed" /\ Failed
    /\ UNCHANGED <<command, child, childAsked, perception>>

-----------------------------------------------------------------------------
(* A child action: _call *)

Calling == stage \in Moves \cup {"view"}

(* The server is awaited, and the goal is sent.                            *)
Send ==
    /\ Calling /\ childCall = "none"
    /\ \/ Raise(IF cancelRequested THEN "canceled" ELSE "unavailable")
          /\ UNCHANGED <<child, childAsked>>
       \/ /\ ~cancelRequested
          /\ child' = "sent" /\ childAsked' = FALSE /\ childCall' = "response"
          /\ UNCHANGED <<stage, why>>
    /\ UNCHANGED <<turn, pan, candidates, cancelRequested, command, outcome,
                   perception>>

(* _wait_goal_response: a cancellation or the deadline makes it wait for   *)
(* the response all the same.                                              *)
AwaitResponse ==
    /\ childCall = "response"
    /\ \/ /\ child \notin {"sent", "rejected"} /\ ~cancelRequested
          /\ childCall' = "result" /\ UNCHANGED <<stage, why>>
       \/ child = "rejected" /\ ~cancelRequested /\ Raise("backend")
       \/ /\ why' = IF cancelRequested THEN "canceled" ELSE "timeout"
          /\ childCall' = "drainResponse" /\ UNCHANGED stage
    /\ UNCHANGED <<turn, pan, candidates, cancelRequested, command, outcome,
                   child, childAsked, perception>>

(* _cancel_pending_goal_and_wait_terminal.  The request to cancel may      *)
(* raise, and the child is waited for all the same.                        *)
DrainResponse ==
    /\ childCall = "drainResponse" /\ child # "sent"
    /\ IF child = "rejected"
       THEN Raise(why) /\ UNCHANGED childAsked
       ELSE childCall' = "drainResult" /\ childAsked' \in BOOLEAN /\ UNCHANGED <<stage, why>>
    /\ UNCHANGED <<turn, pan, candidates, cancelRequested, command, outcome,
                   child, perception>>

(* Mutant: the last turn of the body is left out.                          *)
AdvanceShort ==
    CASE stage = "spin" -> stage' = "head" /\ UNCHANGED <<turn, pan>>
      [] stage = "head" -> stage' = "settle" /\ UNCHANGED <<turn, pan>>
      [] stage = "home" -> stage' = "select" /\ UNCHANGED <<turn, pan>>
      [] stage = "view" /\ pan < Pans ->
           stage' = "head" /\ pan' = pan + 1 /\ UNCHANGED turn
      [] stage = "view" /\ pan = Pans /\ turn + 1 < Turns ->
           stage' = "spin" /\ pan' = 1 /\ turn' = turn + 1
      [] OTHER -> stage' = "home" /\ UNCHANGED <<turn, pan>>

(* The order of the views: the head sweeps, then the body turns.           *)
Advance ==
    CASE stage = "spin" -> stage' = "head" /\ UNCHANGED <<turn, pan>>
      [] stage = "head" -> stage' = "settle" /\ UNCHANGED <<turn, pan>>
      [] stage = "home" -> stage' = "select" /\ UNCHANGED <<turn, pan>>
      [] stage = "view" /\ pan < Pans ->
           stage' = "head" /\ pan' = pan + 1 /\ UNCHANGED turn
      [] stage = "view" /\ pan = Pans /\ turn < Turns ->
           stage' = "spin" /\ pan' = 1 /\ turn' = turn + 1
      [] OTHER -> stage' = "home" /\ UNCHANGED <<turn, pan>>

(* Mutant: after the deadline of its result a child is let go of.          *)
AwaitResultForgetting ==
    /\ childCall = "result"
    /\ \/ /\ ~cancelRequested
          /\ \/ child = "succeeded"
             \/ child = "notFound" /\ stage = "view"
          /\ Advance /\ childCall' = "none"
          /\ \E d \in Distances :
               candidates' = IF stage = "view" /\ child = "succeeded"
                             THEN candidates \cup {d} ELSE candidates
          /\ UNCHANGED why
       \/ /\ Raise(IF cancelRequested THEN "canceled" ELSE "timeout")
          /\ UNCHANGED <<turn, pan, candidates>>
    /\ UNCHANGED <<cancelRequested, command, outcome, child, childAsked,
                   perception>>

(* _wait_result, _require_success and what execute makes of a view.  Here, *)
(* too, the request to cancel may raise.                                   *)
AwaitResult ==
    /\ childCall = "result"
    /\ \/ /\ ~cancelRequested
          /\ \/ child = "succeeded"
             \/ child = "notFound" /\ stage = "view"
          /\ Advance /\ childCall' = "none"
          /\ \E d \in Distances :
               candidates' = IF stage = "view" /\ child = "succeeded"
                             THEN candidates \cup {d} ELSE candidates
          /\ UNCHANGED <<why, childAsked>>
       \/ /\ ~cancelRequested
          /\ child \in {"aborted", "canceled"} /\ Raise("backend")
          /\ UNCHANGED <<turn, pan, candidates, childAsked>>
       \/ /\ why' = IF cancelRequested THEN "canceled" ELSE "timeout"
          /\ childCall' = "drainResult" /\ childAsked' \in BOOLEAN
          /\ UNCHANGED <<stage, turn, pan, candidates>>
    /\ UNCHANGED <<cancelRequested, command, outcome, child, perception>>

(* Mutant: the result of a canceled child must not be a success.           *)
DrainResultUnlessSuccess ==
    /\ childCall = "drainResult" /\ child \in Terminal \ {"succeeded"}
    /\ Raise(why)
    /\ UNCHANGED <<turn, pan, candidates, cancelRequested, command, outcome,
                   child, childAsked, perception>>

(* _cancel_child_and_wait_terminal: for as long as it takes.               *)
DrainResult ==
    /\ childCall = "drainResult" /\ child \in Terminal
    /\ Raise(why)
    /\ UNCHANGED <<turn, pan, candidates, cancelRequested, command, outcome,
                   child, childAsked, perception>>

(* _hold_until_shutdown: a response or a result is lost for good.          *)
Hold ==
    /\ childCall \in {"response", "result", "drainResponse", "drainResult"}
    /\ childCall' = "held"
    /\ childAsked' \in {childAsked, child # "sent"}
    /\ UNCHANGED <<coordinator, child, perception>>

Coordinator ==
    \/ Start \/ Retreat \/ Settle \/ Select \/ Fail
    \/ Send \/ AwaitResponse \/ DrainResponse \/ AwaitResult \/ DrainResult

-----------------------------------------------------------------------------
(* The servers of head and base (external) *)

Answer(state) == child' = state /\ UNCHANGED <<childCall, childAsked>>
Move ==
    /\ stage \in Moves
    /\ \/ child = "sent" /\ (Answer("live") \/ Answer("rejected"))
       \/ child = "live" /\ (Answer("succeeded") \/ Answer("aborted"))
       \/ child = "live" /\ childAsked /\ Answer("canceled")
    /\ UNCHANGED <<coordinator, perception>>

(* The robot moves while a command or a trajectory is carried out.         *)
Moving == command = "back" \/ (stage \in Moves /\ child = "live")

-----------------------------------------------------------------------------
(* The view server: scan_for_person_node *)

(* goal_callback: one view at a time.  From now on only frames count that  *)
(* are captured from now on.                                               *)
BeginView ==
    /\ stage = "view" /\ child = "sent"
    /\ \/ /\ view = "idle" /\ Answer("live")
          /\ view' = "snapshot"
          /\ latest' = [k \in Keys |-> {[f EXCEPT !.fresh = FALSE] :
                                          f \in latest[k]}]
          /\ camera' = [k \in Keys |-> {[f EXCEPT !.fresh = FALSE] :
                                          f \in camera[k]}]
       \/ Answer("rejected") /\ UNCHANGED perception
    /\ UNCHANGED coordinator

EndView(answer) ==
    /\ Answer(answer) /\ view' = "idle"
    /\ UNCHANGED <<latest, camera, coordinator>>

(* Mutant: one fresh stream is enough.                                     *)
FreshSomewhere ==
    /\ \A k \in Keys : latest[k] # {}
    /\ \E k \in Keys : \E f \in latest[k] : f.fresh

(* wait_snapshot: all three streams, each captured after the action began; *)
(* a backend that is off, and a missing frame, transform or camera.        *)
Fresh == \A k \in Keys : \E f \in latest[k] : f.fresh
ViewSnapshot ==
    /\ view = "snapshot"
    /\ \/ Fresh /\ view' = "detect"
          /\ UNCHANGED <<coordinator, children, latest, camera>>
       \/ EndView(IF childAsked THEN "canceled" ELSE "aborted")

(* The detector cannot be interrupted; the frames it works on are kept.    *)
DetectPeople ==
    /\ view = "detect"
    /\ \/ EndView("succeeded")
       \/ ~childAsked /\ EndView("notFound")
       \/ EndView(IF childAsked THEN "canceled" ELSE "aborted")

ViewServer == ViewSnapshot \/ DetectPeople

(* A frame is captured, and stored later; the newest one stays.            *)
Capture(k) ==
    /\ camera' = [camera EXCEPT ![k] = {[still |-> ~Moving, fresh |-> TRUE]}]
    /\ UNCHANGED <<coordinator, children, view, latest>>

Store(k) ==
    /\ camera[k] # {}
    /\ latest' = [latest EXCEPT ![k] = camera[k]]
    /\ camera' = [camera EXCEPT ![k] = {}]
    /\ UNCHANGED <<coordinator, children, view>>

Next ==
    \/ Goal \/ CancelGoal \/ Coordinator \/ Hold
    \/ Move \/ BeginView \/ ViewServer
    \/ \E k \in Keys : Capture(k) \/ Store(k)

Spec == Init /\ [][Next]_vars

(* The thread of the goal runs and servers answer.                         *)
SearchFairness ==
    /\ WF_vars(Coordinator) /\ WF_vars(Move)
    /\ WF_vars(BeginView) /\ WF_vars(ViewServer)

FairSpec == Spec /\ SearchFairness

-----------------------------------------------------------------------------
(* Properties *)

TypeOK ==
    /\ stage \in Moves \cup {"idle", "start", "retreat", "settle", "view",
                             "select", "failed"}
    /\ turn \in 1 .. Turns /\ pan \in 1 .. Pans
    /\ childCall \in {"none", "response", "result", "drainResponse", "drainResult",
                 "held"}
    /\ child \in {"none", "sent", "rejected", "live"} \cup Terminal
    /\ candidates \subseteq Distances
    /\ \A k \in Keys : latest[k] \subseteq Frame /\ camera[k] \subseteq Frame

(* People are looked for only in frames that were captured while the robot *)
(* stood still.                                                            *)
StillViews ==
    view = "detect" => \A k \in Keys : \A f \in latest[k] : f.still

(* A goal that has ended leaves neither a child action nor a command to    *)
(* move behind.                                                            *)
NothingOutlivesTheSearch ==
    stage = "idle" => child \notin {"sent", "live"} /\ command = "zero"

(* What the search reports is true: nobody was found only after every view *)
(* was taken, and it was canceled only if somebody asked.                  *)
VerdictIsTruthful ==
    [][outcome' # outcome =>
         CASE outcome'.status = "succeeded" ->
                \A d \in candidates : outcome'.distance <= d
           [] outcome'.status = "notFound" ->
                candidates = {} /\ turn = Turns /\ pan = Pans
           [] outcome'.status = "canceled" -> cancelRequested
           [] OTHER -> TRUE]_vars

(* A search is over also when it is known to be held.                      *)
SearchIsOver == stage = "idle" \/ childCall = "held"

=============================================================================
