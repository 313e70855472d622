-------------------------- MODULE OperatorConsole --------------------------
(***************************************************************************)
(* The operator console in the operator workspace: xlerobot_hmi/operator_  *)
(* console.py and manual_control.py.                                       *)
(*                                                                         *)
(* A gateway between browsers and the robot.  Two threads share its state: *)
(* the aiohttp loop runs one coroutine per request, which gives way at     *)
(* every await, and one ROS thread delivers events and results.  The       *)
(* console tracks the task it submitted and the task of any other client,  *)
(* owns one manual action or one joystick session at a time, reserves the  *)
(* task server for it, and latches or clears the stop of the base.         *)
(*                                                                         *)
(* The task server, the drive-safety node, the action servers of manual    *)
(* control and the wires between them are external: they are modelled by   *)
(* what the console can observe of them.  Services answer in the order in  *)
(* which they were called, an answer may come after the caller gave up,    *)
(* and events arrive in order but at any time.                             *)
(***************************************************************************)
EXTENDS Naturals, Sequences, FiniteSets

CONSTANTS
    Goals,      \* the ExecuteTask goals of the behaviour
    Own,        \* those submitted through this console
    Content,    \* what a goal asks for: goals may ask for the same
    Requests,   \* the sets of requests browsers may make in a behaviour
    MaxLate,    \* service calls that time out, at most
    Faults      \* futures may raise, results may have no terminal status

None == "none"

ASSUME GoalsAssumption == Own \subseteq Goals /\ None \notin Goals
ASSUME RequestsAssumption ==
    Requests \subseteq SUBSET {"task", "action", "teleop", "clear", "halt"}
ASSUME BoundsAssumption == MaxLate \in Nat /\ Faults \in BOOLEAN

VARIABLES
    goal,       \* ExecuteTask server: what became of each goal
    asked,      \* ... the goals that were asked to cancel
    reserved,   \* ... _manual_reserved
    latch,      \* drive_safety: the stop of the base
    device,     \* the goal of the manual action at its action server
    events,     \* /task/events not yet delivered
    cancels,    \* cancel requests not yet served
    calls,      \* set_manual_control requests not yet served
    stops,      \* set_stop requests not yet served
    latchMsg,   \* the last /drive_safety/stop_latched not yet delivered
    late,       \* how many calls have timed out
    reply,      \* the goal-response future of each own goal
    result,     \* its result future
    submit,     \* where submit_task is for each own goal
    active,     \* active_task
    external,   \* external_task
    owned,      \* _owned_task_ids
    serverId,   \* active_server_task_id
    handle,     \* active_goal_handle
    cancelFlag, \* _task_cancel_requested
    pc,         \* manual action, joystick session and clearing of the stop
    preempt,    \* ManualControlCoordinator._cancel_requested
    moving,     \* _teleop_was_active
    reservedSeen,  \* ManualControlCoordinator._reserved
    latchSeen,  \* ManualControlCoordinator._drive_stop_latched
    halt,       \* where operator_stop_base is
    uses        \* the requests of this behaviour

server == <<goal, asked, reserved>>
tracks == <<active, external, owned, serverId, handle, cancelFlag>>
tasks  == <<goal, asked, events, cancels, reply, result, submit, tracks>>
manual == <<pc, preempt, moving, reservedSeen, device>>
drive  == <<latch, latchMsg, latchSeen, stops>>
vars == <<goal, asked, reserved, latch, device, events, cancels, calls, stops,
          latchMsg, late, reply, result, submit, tracks, pc, preempt, moving,
          reservedSeen, latchSeen, halt, uses>>

-----------------------------------------------------------------------------
(* Vocabulary *)

Verdicts == {"SUCCEEDED", "FAILED", "CANCELED"}
Terminal == Verdicts \cup {"REJECTED"}
Statuses == Terminal \cup {"ACCEPTING", "RUNNING", "ACCEPTANCE_UNKNOWN",
                           "RESULT_UNKNOWN"}
GoalStates == {"unsent", "sent", "running", "refused"}
                  \cup Verdicts \cup {"ended"}
(* The terminal event of a goal is out before its action has ended.        *)
Closing == Verdicts

TaskRecord == [goal : Goals, status : Statuses]
NoTask == [goal |-> None, status |-> "REJECTED"]
TaskEvents == [goal : Goals, status : {"RUNNING"} \cup Verdicts]

Owners == {"action", "teleop", "clear"}
(* A caller that has stopped waiting is nobody.                            *)
Waiters == Owners \cup {"halt", "nobody"}

Live(record) == record.status \notin Terminal

(* task_active, of task_snapshot: a task that has not ended comes first.   *)
task_active == Live(active) \/ Live(external)

action_active == pc["action"] # "idle"
teleop_active == pc["teleop"] # "idle"

(* ManualControlCoordinator.idle                                           *)
operator_idle ==
    ~task_active /\ ~action_active /\ ~teleop_active /\ ~reservedSeen

(* _goal_active of the task server                                         *)
Busy == \E g \in Goals : goal[g] \in {"running"} \cup Closing

Init ==
    /\ goal = [g \in Goals |-> "unsent"]
    /\ asked = {} /\ cancels = {}
    /\ reserved = FALSE /\ reservedSeen = FALSE
    /\ latch \in {"latched", "clear"}
    /\ latchMsg = "none" /\ latchSeen = latch
    /\ device = "none"
    /\ events = << >> /\ calls = << >> /\ stops = << >>
    /\ late = 0
    /\ reply = [g \in Own |-> "none"]
    /\ result = [g \in Own |-> "none"]
    /\ submit = [g \in Own |-> "idle"]
    /\ active = NoTask /\ external = NoTask
    /\ owned = {} /\ serverId = None /\ handle = None
    /\ cancelFlag = FALSE
    /\ pc = [o \in Owners |-> "idle"]
    /\ preempt = FALSE /\ moving = FALSE
    /\ halt = "idle"
    /\ uses \in Requests

-----------------------------------------------------------------------------
(* The task server and its other clients (external) *)

Publish(g, s) == events' = Append(events, [goal |-> g, status |-> s])

(* The server admits one goal, and none beside manual control or a stop.   *)
(* The console does not see how another client sends its goal.             *)
Admit(g) ==
    /\ goal[g] = (IF g \in Own THEN "sent" ELSE "unsent")
    /\ ~Busy /\ ~reserved /\ latch = "clear"
    /\ goal' = [goal EXCEPT ![g] = "running"]
    /\ Publish(g, "RUNNING")
    /\ reply' = IF g \in Own /\ reply[g] = "pending"
                THEN [reply EXCEPT ![g] = "accepted"] ELSE reply
    /\ UNCHANGED <<asked, cancels, result, submit, tracks, reserved, calls,
                   manual, drive, late, halt, uses>>

(* It may refuse a goal for these and for other reasons.                   *)
Refuse(g) ==
    /\ goal[g] = "sent"
    /\ goal' = [goal EXCEPT ![g] = "refused"]
    /\ reply' = IF g \in Own /\ reply[g] = "pending"
                THEN [reply EXCEPT ![g] = "rejected"] ELSE reply
    /\ UNCHANGED <<asked, events, cancels, result, submit, tracks, reserved,
                   calls, manual, drive, late, halt, uses>>

(* The goal-response future raises, whatever the server does.              *)
LoseReply(g) ==
    /\ Faults /\ reply[g] = "pending"
    /\ reply' = [reply EXCEPT ![g] = "lost"]
    /\ UNCHANGED <<goal, asked, events, cancels, result, submit, tracks,
                   reserved, calls, manual, drive, late, halt, uses>>

(* cancel_callback announces RUNNING from a thread of its own, also when   *)
(* the terminal event is already out.                                      *)
ServeCancel(g) ==
    /\ g \in cancels
    /\ cancels' = cancels \ {g}
    /\ IF goal[g] \in {"running"} \cup Closing /\ g \notin asked
       THEN asked' = asked \cup {g} /\ Publish(g, "RUNNING")
       ELSE UNCHANGED <<asked, events>>
    /\ UNCHANGED <<goal, reply, result, submit, tracks, reserved, calls,
                   manual, drive, late, halt, uses>>

Finish(g) ==
    /\ goal[g] = "running"
    /\ \E v \in Verdicts :
         /\ v = "CANCELED" /\ g \in Own => g \in asked
         /\ goal' = [goal EXCEPT ![g] = v]
         /\ Publish(g, v)
    /\ UNCHANGED <<asked, cancels, reply, result, submit, tracks, reserved,
                   calls, manual, drive, late, halt, uses>>

(* The action ends, and with it the result future of the console.          *)
Close(g) ==
    /\ goal[g] \in Closing
    /\ goal' = [goal EXCEPT ![g] = "ended"]
    /\ result' = IF g \in Own THEN [result EXCEPT ![g] = goal[g]] ELSE result
    /\ UNCHANGED <<asked, events, cancels, reply, submit, tracks, reserved,
                   calls, manual, drive, late, halt, uses>>

-----------------------------------------------------------------------------
(* What the console records of tasks *)

(* _finish_task                                                            *)
FinishTask(status) ==
    IF Live(active)
    THEN /\ active' = [active EXCEPT !.status = status]
         /\ serverId' = None /\ handle' = None /\ cancelFlag' = FALSE
    ELSE UNCHANGED <<active, serverId, handle, cancelFlag>>

(* _mark_task_result_unknown and _mark_task_acceptance_unknown             *)
MarkUnknown(status) ==
    active' = IF Live(active) THEN [active EXCEPT !.status = status]
                              ELSE active

(* An event of a goal the console does not know, while it waits to learn   *)
(* the identity of its own, is taken for its own if it asks for the same.  *)
Adopts(e) ==
    /\ active.status \in {"ACCEPTING", "ACCEPTANCE_UNKNOWN"}
    /\ e.goal \notin owned
    /\ Content[e.goal] = Content[active.goal]

(* Mutant: the end of an own task is left to its result.                  *)
_on_task_event_of_others(e) ==
    /\ owned' = owned \cup (IF Adopts(e) THEN {e.goal} ELSE {})
    /\ external' = IF e.goal \in owned' \/ Live(active) THEN external
                   ELSE [goal |-> e.goal, status |-> e.status]
    /\ UNCHANGED <<active, serverId, handle, cancelFlag>>

_on_task_event(e) ==
    LET ours == Adopts(e) \/ e.goal \in owned
    IN  /\ IF Adopts(e) THEN owned' = owned \cup {e.goal}
                        ELSE owned' = owned
        /\ IF ours /\ Live(active) /\ e.status \in Terminal
           THEN FinishTask(e.status) /\ UNCHANGED external
           ELSE /\ serverId' = IF Adopts(e) THEN e.goal ELSE serverId
                /\ active' = IF ours /\ active.status \in
                                  {"ACCEPTING", "ACCEPTANCE_UNKNOWN",
                                   "RESULT_UNKNOWN"}
                             THEN [active EXCEPT !.status = e.status]
                             ELSE active
                /\ external' = IF ours \/ Live(active) THEN external
                               ELSE [goal |-> e.goal, status |-> e.status]
                /\ UNCHANGED <<handle, cancelFlag>>

(* A running task preempts manual control.                                 *)
request_cancel == preempt' = (preempt \/ action_active)

DeliverEvent ==
    /\ events # << >>
    /\ events' = Tail(events)
    /\ _on_task_event(Head(events))
    /\ IF Head(events).status = "RUNNING"
       THEN moving' = FALSE /\ request_cancel
       ELSE UNCHANGED <<moving, preempt>>
    /\ UNCHANGED <<server, cancels, reply, result, submit, calls, pc,
                   reservedSeen, device, drive, late, halt, uses>>

(* The result callback reads the result, whichever task is active by now.  *)
_on_task_result(g) ==
    /\ result[g] \in Verdicts /\ submit[g] = "watching"
    /\ submit' = [submit EXCEPT ![g] = "done"]
    /\ \/ FinishTask(result[g])
       \/ /\ Faults /\ MarkUnknown("RESULT_UNKNOWN")
          /\ UNCHANGED <<serverId, handle, cancelFlag>>
    /\ UNCHANGED <<server, events, cancels, reply, result, external, owned,
                   calls, manual, drive, late, halt, uses>>

-----------------------------------------------------------------------------
(* submit_task and cancel_task *)

Submit(g) ==
    /\ "task" \in uses
    /\ submit[g] = "idle"
    /\ ~action_active /\ ~teleop_active /\ latchSeen = "clear"
    /\ ~Live(active) /\ ~Live(external)
    /\ active' = [goal |-> g, status |-> "ACCEPTING"]
    /\ handle' = None /\ serverId' = None /\ cancelFlag' = FALSE
    /\ submit' = [submit EXCEPT ![g] = "sending"]
    /\ UNCHANGED <<server, events, cancels, reply, result, external, owned,
                   calls, manual, drive, late, halt, uses>>

SendGoal(g) ==
    /\ submit[g] = "sending"
    /\ \/ /\ goal' = [goal EXCEPT ![g] = "sent"]
          /\ reply' = [reply EXCEPT ![g] = "pending"]
          /\ submit' = [submit EXCEPT ![g] = "waiting"]
          /\ UNCHANGED <<active, serverId, handle, cancelFlag>>
       \/ (* the server is unavailable, or the goal cannot be sent         *)
          /\ FinishTask("FAILED")
          /\ submit' = [submit EXCEPT ![g] = "done"]
          /\ UNCHANGED <<goal, reply>>
    /\ UNCHANGED <<asked, reserved, events, cancels, result, external, owned,
                   calls, manual, drive, late, halt, uses>>

(* The response is overdue: the goal will be canceled if it is accepted.   *)
AcceptTimeout(g) ==
    /\ submit[g] = "waiting" /\ reply[g] = "pending"
    /\ cancelFlag' = TRUE
    /\ UNCHANGED <<server, events, cancels, reply, result, submit, active,
                   external, owned, serverId, handle, calls, manual, drive,
                   late, halt, uses>>

(* Mutant: an acceptance that raised is taken for a goal that failed.      *)
ResumeForgetting(g) ==
    /\ submit[g] = "waiting" /\ reply[g] = "lost"
    /\ FinishTask("FAILED")
    /\ submit' = [submit EXCEPT ![g] = "done"]
    /\ UNCHANGED <<server, events, cancels, reply, result, external, owned,
                   calls, manual, drive, late, halt, uses>>

Resume(g) ==
    /\ submit[g] = "waiting" /\ reply[g] # "pending"
    /\ CASE reply[g] = "lost" ->
              /\ MarkUnknown("ACCEPTANCE_UNKNOWN")
              /\ submit' = [submit EXCEPT ![g] = "done"]
              /\ UNCHANGED <<owned, serverId, handle, cancelFlag, cancels>>
         [] reply[g] = "rejected" ->
              /\ FinishTask("REJECTED")
              /\ submit' = [submit EXCEPT ![g] = "done"]
              /\ UNCHANGED <<owned, cancels>>
         [] OTHER ->
              /\ owned' = owned \cup {g}
              /\ IF Live(active)
                 THEN /\ handle' = g /\ serverId' = g
                      /\ active' = [active EXCEPT !.status = "RUNNING"]
                      /\ submit' = [submit EXCEPT ![g] = "watching"]
                      /\ cancels' = IF cancelFlag THEN cancels \cup {g}
                                                  ELSE cancels
                 ELSE /\ submit' = [submit EXCEPT ![g] = "done"]
                      /\ UNCHANGED <<handle, serverId, active, cancels>>
              /\ UNCHANGED cancelFlag
    /\ UNCHANGED <<server, events, reply, result, external, calls, manual,
                   drive, late, halt, uses>>

(* Cancel the task of this console, through its handle if it has one, or   *)
(* through the identity an event revealed.                                 *)
CancelLocal ==
    /\ Live(active)
    /\ IF handle = None
       THEN /\ cancelFlag' = TRUE
            /\ cancels' = cancels \cup ({serverId} \ {None})
       ELSE cancels' = cancels \cup {handle} /\ UNCHANGED cancelFlag

CancelExternal ==
    /\ Live(external)
    /\ cancels' = cancels \cup {external.goal}
    /\ UNCHANGED cancelFlag

cancel_task ==
    /\ CancelLocal \/ CancelExternal
    /\ UNCHANGED <<server, events, reply, result, submit, active, external,
                   owned, serverId, handle, calls, manual, drive, late, halt,
                   uses>>

-----------------------------------------------------------------------------
(* The reservation of the task server *)

Goto(o, p) == pc' = [pc EXCEPT ![o] = p]

(* _set_manual_reservation and _release_teleop_session: the lock admits    *)
(* its holders in the order in which they asked, each awaits one answer,   *)
(* and the server answers in order, so that one queue stands for both.     *)
Reserve(o, want) == calls' = Append(calls, [want |-> want, who |-> o])

CallStop(who, want) == stops' = Append(stops, [want |-> want, who |-> who])

(* finish_action: the coordinator forgets the owner and its cancellation.  *)
Leave(o) ==
    /\ Goto(o, "idle")
    /\ preempt' = IF o = "action" THEN FALSE ELSE preempt

(* The server reserves for one owner, and releases whoever asks.  The stop *)
(* is cleared only once the reservation is granted.                        *)
ServeReservation ==
    /\ calls # << >>
    /\ calls' = Tail(calls)
    /\ LET c == Head(calls)
           granted == c.want => ~Busy /\ ~reserved
       IN  /\ reserved' = IF granted THEN c.want ELSE reserved
           /\ reservedSeen' = IF c.who # "nobody" /\ granted THEN c.want
                                                            ELSE reservedSeen
           /\ IF c.who = "nobody" THEN UNCHANGED <<pc, preempt>>
              ELSE IF c.want /\ granted
              THEN Goto(c.who, "held") /\ UNCHANGED preempt
              ELSE Leave(c.who)
           /\ IF c.who = "clear" /\ c.want /\ granted
              THEN CallStop("clear", "clear") ELSE UNCHANGED stops
    /\ UNCHANGED <<tasks, moving, device, latch, latchMsg, latchSeen, late,
                   halt, uses>>

(* Whoever awaits an answer gives up.  Its request may be lost or be       *)
(* served later.  What could not be released stays owned: the console      *)
(* fails closed.  A failed clearing latches the stop again.                *)
ReservationTimeout ==
    /\ late < MaxLate /\ late' = late + 1
    /\ \E i \in 1 .. Len(calls) :
         LET c == calls[i]
         IN  /\ c.who # "nobody"
             /\ \A k \in 1 .. i - 1 : calls[k].who = "nobody"
             /\ \/ calls' = [calls EXCEPT ![i].who = "nobody"]
                \/ calls' = SubSeq(calls, 1, i - 1)
                               \o SubSeq(calls, i + 1, Len(calls))
             /\ IF c.want \/ pc[c.who] = "rerelease"
                THEN Leave(c.who) /\ UNCHANGED stops
                ELSE /\ UNCHANGED preempt
                     /\ IF c.who = "clear"
                        THEN Goto("clear", "relatch")
                             /\ CallStop("clear", "latched")
                        ELSE Goto(c.who, "stuck") /\ UNCHANGED stops
    /\ UNCHANGED <<tasks, reserved, moving, reservedSeen, device, latch,
                   latchMsg, latchSeen, halt, uses>>

-----------------------------------------------------------------------------
(* Localization, navigation and presets: _run_operator_action *)

BeginAction ==
    /\ "action" \in uses
    /\ latchSeen = "clear" /\ ~task_active /\ ~teleop_active
    /\ ~action_active
    /\ Goto("action", "acquire") /\ preempt' = FALSE
    /\ Reserve("action", TRUE)
    /\ device' = "none"
    /\ UNCHANGED <<tasks, reserved, moving, reservedSeen, drive, late, halt,
                   uses>>

ReleaseAction == Goto("action", "release") /\ Reserve("action", FALSE)

ActionSend ==
    /\ pc["action"] = "held"
    /\ \/ /\ Goto("action", "accepting") /\ device' = "sent"
          /\ UNCHANGED calls
       \/ ReleaseAction /\ UNCHANGED device
    /\ UNCHANGED <<tasks, reserved, preempt, moving, reservedSeen, drive,
                   late, halt, uses>>

(* The response is awaited without a bound: the goal is drained.           *)
ActionAnswered ==
    /\ device = "sent"
    /\ device' \in {"live", "refused"}
    /\ IF pc["action"] # "accepting" THEN UNCHANGED <<pc, calls>>
       ELSE IF device' = "live"
       THEN Goto("action", "running") /\ UNCHANGED calls
       ELSE ReleaseAction
    /\ UNCHANGED <<tasks, reserved, preempt, moving, reservedSeen, drive,
                   late, halt, uses>>

(* Mutant: an action that is overdue is given up instead of drained.       *)
ActionTimeoutReleasing ==
    /\ pc["action"] \in {"accepting", "running"}
    /\ ReleaseAction
    /\ UNCHANGED <<tasks, reserved, preempt, moving, reservedSeen, device,
                   drive, late, halt, uses>>

(* A deadline passes: the action is canceled and drained.                  *)
ActionTimeout ==
    /\ pc["action"] \in {"accepting", "running"}
    /\ preempt' = TRUE
    /\ UNCHANGED <<tasks, reserved, calls, pc, moving, reservedSeen, device,
                   drive, late, halt, uses>>

ActionCancel ==
    /\ pc["action"] = "running" /\ preempt /\ device = "live"
    /\ device' = "canceling"
    /\ UNCHANGED <<tasks, reserved, calls, pc, preempt, moving, reservedSeen,
                   drive, late, halt, uses>>

(* Only a terminal status releases the reservation and the ownership.      *)
ActionEnds ==
    /\ device \in {"live", "canceling"}
    /\ device' = "ended"
    /\ IF pc["action"] = "running" THEN ReleaseAction
                                   ELSE UNCHANGED <<pc, calls>>
    /\ UNCHANGED <<tasks, reserved, preempt, moving, reservedSeen, drive,
                   late, halt, uses>>

ActionUnproven ==
    /\ Faults /\ pc["action"] \in {"accepting", "running"}
    /\ Goto("action", "stuck")
    /\ UNCHANGED <<tasks, reserved, calls, preempt, moving, reservedSeen,
                   device, drive, late, halt, uses>>

-----------------------------------------------------------------------------
(* The joystick: base_teleop *)

(* claim_teleop follows the look at the stop without giving way.           *)
ClaimTeleop ==
    /\ "teleop" \in uses
    /\ latchSeen = "clear"
    /\ ~task_active /\ ~teleop_active /\ ~action_active /\ ~reservedSeen
    /\ Goto("teleop", "acquire") /\ Reserve("teleop", TRUE)
    /\ UNCHANGED <<tasks, reserved, preempt, moving, reservedSeen, device,
                   drive, late, halt, uses>>

LeaveTeleop ==
    /\ moving' = FALSE
    /\ Goto("teleop", "release") /\ Reserve("teleop", FALSE)

(* command_teleop looks at the task and at the stop again.                 *)
CommandTeleop ==
    /\ pc["teleop"] = "held"
    /\ IF task_active \/ action_active \/ latchSeen # "clear"
       THEN LeaveTeleop
       ELSE moving' = TRUE /\ UNCHANGED <<pc, calls>>
    /\ UNCHANGED <<tasks, reserved, preempt, reservedSeen, device, drive,
                   late, halt, uses>>

(* The browser leaves or falls silent, or the stop closes the socket.      *)
EndTeleop ==
    /\ pc["teleop"] = "held"
    /\ LeaveTeleop
    /\ UNCHANGED <<tasks, reserved, preempt, reservedSeen, device, drive,
                   late, halt, uses>>

-----------------------------------------------------------------------------
(* The stop of the base: operator_stop_base and operator_clear_base_stop *)

BeginClear ==
    /\ "clear" \in uses
    /\ operator_idle /\ pc["clear"] = "idle"
    /\ Goto("clear", "acquire") /\ Reserve("clear", TRUE)
    /\ UNCHANGED <<tasks, reserved, preempt, moving, reservedSeen, device,
                   drive, late, halt, uses>>

BeginHalt ==
    /\ "halt" \in uses
    /\ halt \notin {"latching", "draining"}
    /\ halt' = "latching"
    /\ CallStop("halt", "latched")
    /\ UNCHANGED <<tasks, reserved, calls, manual, latch, latchMsg,
                   latchSeen, late, uses>>

(* After the stop was cleared, or latched again, the reservation goes.     *)
ReleaseClear(p) == Goto("clear", p) /\ Reserve("clear", FALSE)

(* drive_safety serves set_stop (external).  A caller that still waits     *)
(* notes the state it asked for.                                           *)
ServeStop ==
    /\ stops # << >>
    /\ stops' = Tail(stops)
    /\ LET c == Head(stops)
       IN  /\ latch' = c.want
           /\ latchMsg' = IF c.want = latch THEN latchMsg ELSE c.want
           /\ latchSeen' = IF c.who = "nobody" THEN latchSeen ELSE c.want
           /\ CASE c.who = "nobody" -> UNCHANGED <<pc, calls, moving, halt>>
                [] c.who = "halt" ->
                     /\ moving' = FALSE /\ halt' = "draining"
                     /\ UNCHANGED <<pc, calls>>
                [] c.who = "clear" ->
                     /\ ReleaseClear(IF c.want = "clear" THEN "release"
                                                         ELSE "rerelease")
                     /\ UNCHANGED <<moving, halt>>
    /\ UNCHANGED <<tasks, reserved, preempt, reservedSeen, device, late,
                   uses>>

StopTimeout ==
    /\ late < MaxLate /\ late' = late + 1
    /\ \E i \in 1 .. Len(stops) :
         LET given == [stops EXCEPT ![i].who = "nobody"]
         IN  \/ /\ stops[i].who = "halt"
                /\ stops' = given /\ halt' = "idle"
                /\ UNCHANGED <<pc, calls>>
             \/ /\ stops[i].who = "clear" /\ pc["clear"] = "relatch"
                /\ stops' = given /\ ReleaseClear("rerelease")
                /\ UNCHANGED halt
             \/ /\ stops[i].who = "clear" /\ pc["clear"] # "relatch"
                /\ stops' = Append(given, [want |-> "latched",
                                           who |-> "clear"])
                /\ Goto("clear", "relatch")
                /\ UNCHANGED <<calls, halt>>
    /\ UNCHANGED <<tasks, reserved, preempt, moving, reservedSeen, device,
                   latch, latchMsg, latchSeen, uses>>

_on_drive_stop_latched ==
    /\ latchMsg # "none"
    /\ latchSeen' = latchMsg /\ latchMsg' = "none"
    /\ UNCHANGED <<tasks, reserved, calls, manual, latch, stops, late, halt,
                   uses>>

(* One round of the drain: every manual action and the tracked task are    *)
(* asked to stop, and a session that could not be released is tried again. *)
HaltDrains ==
    /\ halt = "draining"
    /\ request_cancel
    /\ \/ /\ task_active
          /\ IF Live(active) THEN CancelLocal ELSE CancelExternal
          /\ UNCHANGED <<pc, calls>>
       \/ /\ ~task_active /\ pc["teleop"] = "stuck"
          /\ Goto("teleop", "release") /\ Reserve("teleop", FALSE)
          /\ UNCHANGED <<cancels, cancelFlag>>
       \/ /\ ~task_active /\ action_active
          /\ UNCHANGED <<pc, calls, cancels, cancelFlag>>
    /\ UNCHANGED <<server, events, reply, result, submit, active, external,
                   owned, serverId, handle, moving, reservedSeen, device,
                   drive, late, halt, uses>>

(* Mutant: the answer does not wait for the manual action.                 *)
HaltAnswersEarly ==
    /\ halt = "draining"
    /\ ~task_active /\ ~teleop_active
    /\ halt' = "answered"
    /\ UNCHANGED <<tasks, reserved, calls, manual, drive, late, uses>>

(* The answer: the base is latched and nothing is under way.               *)
HaltAnswers ==
    /\ halt = "draining"
    /\ ~task_active /\ ~action_active /\ ~teleop_active
    /\ halt' = "answered"
    /\ UNCHANGED <<tasks, reserved, calls, manual, drive, late, uses>>

HaltGivesUp ==
    /\ halt = "draining"
    /\ halt' = "idle"
    /\ UNCHANGED <<tasks, reserved, calls, manual, drive, late, uses>>

-----------------------------------------------------------------------------
ServerStep(g) ==
    \/ Admit(g) \/ Refuse(g) \/ ServeCancel(g)
    \/ Finish(g) \/ Close(g)

SubmitStep(g) ==
    \/ Submit(g) \/ SendGoal(g) \/ LoseReply(g) \/ AcceptTimeout(g)
    \/ Resume(g) \/ _on_task_result(g)

ReservationStep ==
    ServeReservation \/ ReservationTimeout

ActionStep ==
    \/ BeginAction \/ ActionSend \/ ActionAnswered \/ ActionTimeout
    \/ ActionCancel \/ ActionEnds \/ ActionUnproven

TeleopStep == ClaimTeleop \/ CommandTeleop \/ EndTeleop

StopStep ==
    \/ ServeStop \/ StopTimeout \/ _on_drive_stop_latched
    \/ BeginClear \/ BeginHalt \/ HaltDrains \/ HaltAnswers \/ HaltGivesUp

Next ==
    \/ \E g \in Goals : ServerStep(g)
    \/ \E g \in Own : SubmitStep(g)
    \/ DeliverEvent \/ cancel_task
    \/ ReservationStep \/ ActionStep \/ TeleopStep \/ StopStep

Spec == Init /\ [][Next]_vars

(* The task server answers and ends its goals, the ROS thread runs, and a  *)
(* coroutine whose await is over is resumed.                               *)
Fairness ==
    /\ \A g \in Goals : WF_vars(Admit(g) \/ Refuse(g)) /\ WF_vars(Finish(g))
                          /\ WF_vars(Close(g))
    /\ \A g \in Own : WF_vars(SendGoal(g)) /\ WF_vars(Resume(g))
                        /\ WF_vars(_on_task_result(g))
    /\ WF_vars(DeliverEvent)

FairSpec == Spec /\ Fairness

-----------------------------------------------------------------------------
(* Properties *)

TypeOK ==
    /\ uses \in Requests
    /\ goal \in [Goals -> GoalStates] /\ asked \subseteq Goals
    /\ cancels \subseteq Goals
    /\ reserved \in BOOLEAN /\ reservedSeen \in BOOLEAN
    /\ latch \in {"latched", "clear"}
    /\ latchMsg \in {"latched", "clear", "none"}
    /\ latchSeen \in {"latched", "clear"}
    /\ device \in {"none", "sent", "live", "canceling", "refused", "ended"}
    /\ events \in Seq(TaskEvents)
    /\ calls \in Seq([want : BOOLEAN, who : Owners \cup {"nobody"}])
    /\ stops \in Seq([want : {"latched", "clear"}, who : Waiters])
    /\ late \in 0 .. MaxLate
    /\ reply \in [Own -> {"none", "pending", "accepted", "rejected", "lost"}]
    /\ result \in [Own -> {"none"} \cup Verdicts]
    /\ submit \in [Own -> {"idle", "sending", "waiting",
                            "watching", "done"}]
    /\ active \in TaskRecord \cup {NoTask}
    /\ external \in TaskRecord \cup {NoTask}
    /\ owned \subseteq Goals
    /\ serverId \in Goals \cup {None} /\ handle \in Goals \cup {None}
    /\ cancelFlag \in BOOLEAN
    /\ pc \in [Owners -> {"idle", "acquire", "held", "accepting", "running",
                           "release", "relatch", "rerelease", "stuck"}]
    /\ preempt \in BOOLEAN /\ moving \in BOOLEAN
    /\ halt \in {"idle", "latching", "draining", "answered"}

(* Manual control may move the robot now, or when its server gets to it.   *)
ManualMotion == moving \/ device \in {"sent", "live", "canceling"}

(* While a manual action or the joystick may move the robot no task runs:  *)
(* reservations that are granted, refused, lost or released late, the stop *)
(* of the base and the admission of goals from every client work together. *)
(* It holds while at most one call times out; with two, a clearing of the  *)
(* stop may release what another owner was granted meanwhile.              *)
ManualExcludesTask == ~(ManualMotion /\ Busy)

(* A goal sent through the console is tracked until the server has ended   *)
(* it: no lost response, late response, event or result makes the console  *)
(* take a task that may still run for finished.  This is about the news of *)
(* the goal itself: late news of an earlier goal of the console is taken   *)
(* for news of the current one.                                            *)
OwnGoalIsTracked ==
    \A g \in Own : goal[g] \in {"sent", "running"} =>
                      active.goal = g /\ Live(active)

(* When the stop of the base answers that it has drained, no goal of the   *)
(* console and no manual motion is left, whatever was being accepted,      *)
(* timed out or released meanwhile.                                        *)
HaltDrainsEverything ==
    [][halt' = "answered" /\ halt # "answered" =>
         /\ ~ManualMotion
         /\ \A g \in Own : goal[g] \notin {"sent", "running"}]_vars

(* A task of the console does not stay open: whichever of response, events *)
(* and result are lost or late, its record ends.  The one exception is the *)
(* one the code names: an acceptance that could not be observed, of a goal *)
(* that was never admitted.                                                *)
OwnTaskEnds ==
    Live(active) ~> \/ ~Live(active)
                    \/ /\ active.status = "ACCEPTANCE_UNKNOWN"
                       /\ goal[active.goal] = "refused"

=============================================================================
