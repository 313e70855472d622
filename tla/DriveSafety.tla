----------------------------- MODULE DriveSafety -----------------------------
(***************************************************************************)
(* The drive command arbiter and the node around it: xlerobot_base/src/    *)
(* drive_arbiter.cpp and drive_safety_node.cpp.                            *)
(*                                                                         *)
(* Three sources publish velocity commands.  The node keeps the last       *)
(* finite command of each, chooses a fresh one by priority at every timer  *)
(* tick, limits it, and publishes it to the wheels.  A software stop       *)
(* latches: it zeroes the base at once and forgets every command, and when *)
(* it is cleared nothing that was sent before may move the base again.     *)
(*                                                                         *)
(* The node runs on a single-threaded executor, so callbacks do not        *)
(* interleave; what interleaves is their order with the publishers, the    *)
(* clock and the readers' queues.  One velocity component stands for both, *)
(* which the code treats alike; speeds and times are integers.             *)
(***************************************************************************)
EXTENDS Integers, Sequences

CONSTANTS
    Speeds,              \* the finite speeds that sources command
    Publishing,          \* the sources that publish during the behaviour
    Timeout,             \* for how long a command of each source is fresh
    MaxSpeed,            \* max_linear_mps
    MaxAccel,            \* max_linear_accel_mps2, per unit of time
    NavigationPriority,  \* navigation_has_priority
    QueueDepth,          \* history depth of the command subscriptions
    MaxGap,              \* bound: longest time between two timer callbacks
    MaxClears            \* bound: how often the stop is cleared

Sources == {"docking", "navigation", "teleop"}

ASSUME SpeedAssumption ==
    /\ Speeds \subseteq Int
    /\ MaxSpeed \in Nat \ {0}
    /\ MaxAccel \in Nat \ {0}
ASSUME SourceAssumption ==
    /\ Publishing \subseteq Sources
    /\ Timeout \in [Sources -> Nat \ {0}]
    /\ NavigationPriority \in BOOLEAN
ASSUME BoundAssumption ==
    /\ QueueDepth \in Nat \ {0}
    /\ MaxGap \in Nat \ {0}
    /\ MaxClears \in Nat

VARIABLES
    stopped,      \* stopped_ of the arbiter
    slot,         \* the TimedCommand of each source
    previous,     \* previous_output_
    generation,   \* command_subscription_generation_
    queue,        \* the samples waiting in each source's current reader
    leftover,     \* a sample of a replaced reader the executor still handles
    since,        \* time since the last timer tick
    ticked,       \* last_publish_s_ is positive
    output,       \* the speed last published to the base controller
    driver        \* the command behind that output: source, generation, age

drive == <<stopped, slot, previous, generation, queue, leftover, since,
          ticked, output, driver>>

-----------------------------------------------------------------------------
(* Commands carry the generation of the reader they were queued in, which  *)
(* is the number of times the stop had been cleared when they were sent.   *)
Commands == [finite : BOOLEAN, speed : Speeds \cup {0}, gen : 0 .. MaxClears]

Slots == [received : BOOLEAN, speed : Speeds \cup {0}, gen : 0 .. MaxClears,
          age : Nat]
Drivers == [source : Sources \cup {"none"}, gen : 0 .. MaxClears, age : Nat]

EmptySlot == [received |-> FALSE, speed |-> 0, gen |-> 0, age |-> 0]

(* The age from which a command of any source is stale is all that matters *)
Aging(s, a) == IF a > Timeout[s] THEN a ELSE a + 1

(* Faulty variant: a command that was received never goes stale.           *)
FreshForever(s) == slot[s].received

Fresh(s) == slot[s].received /\ slot[s].age <= Timeout[s]

NoDriver == [source |-> "none", gen |-> 0, age |-> 0]

Clamp(x, limit) == IF x > limit THEN limit ELSE IF x < -limit THEN -limit ELSE x

InitDrive ==
    /\ stopped = FALSE
    /\ slot = [s \in Sources |-> EmptySlot]
    /\ previous = 0
    /\ generation = 0
    /\ queue = [s \in Sources |-> <<>>]
    /\ leftover = [s \in Sources |-> <<>>]
    /\ since = 0
    /\ ticked = FALSE
    /\ output = 0
    /\ driver = NoDriver

-----------------------------------------------------------------------------
(* The publishers (external): the reader keeps the last QueueDepth samples.*)
Send(s) ==
    /\ \E c \in [finite : {TRUE}, speed : Speeds, gen : {generation}]
                 \cup [finite : {FALSE}, speed : {0}, gen : {generation}] :
         LET q == Append(queue[s], c)
         IN  queue' = [queue EXCEPT ![s] =
                         IF Len(q) > QueueDepth THEN Tail(q) ELSE q]
    /\ UNCHANGED <<stopped, slot, previous, generation, leftover, since,
                   ticked, output, driver>>

(* update_navigation, update_docking, update_teleop: nothing is kept while *)
(* stopped, and a command that is not finite invalidates its source.       *)
Update(s, c) ==
    slot' = IF stopped THEN slot
            ELSE [slot EXCEPT ![s] =
                    IF c.finite
                      THEN [received |-> TRUE, speed |-> c.speed,
                            gen |-> c.gen, age |-> 0]
                      ELSE EmptySlot]

(* Faulty variant: no comparison of generations.                           *)
OnCommandAlways(s, c) == Update(s, c)

(* The callback of a subscription compares the generation it was created   *)
(* with to the current one.                                                *)
OnCommand(s, c) == IF c.gen = generation THEN Update(s, c) ELSE UNCHANGED slot

Deliver(s) ==
    /\ queue[s] # <<>>
    /\ OnCommand(s, Head(queue[s]))
    /\ queue' = [queue EXCEPT ![s] = Tail(@)]
    /\ UNCHANGED <<stopped, previous, generation, leftover, since, ticked,
                   output, driver>>

(* The executor had found the replaced reader ready before it was replaced.*)
DeliverLeftover(s) ==
    /\ leftover[s] # <<>>
    /\ OnCommand(s, Head(leftover[s]))
    /\ leftover' = [leftover EXCEPT ![s] = <<>>]
    /\ UNCHANGED <<stopped, previous, generation, queue, since, ticked,
                   output, driver>>

-----------------------------------------------------------------------------
(* The stop service *)

(* set_stopped: a change of the latch, either way, forgets every command.  *)
Forget ==
    /\ slot' = [s \in Sources |-> EmptySlot]
    /\ previous' = 0

(* Faulty variant: leaves the last output to the next timer tick.          *)
SetStopDeferred ==
    /\ stopped' = TRUE
    /\ IF stopped THEN UNCHANGED <<slot, previous>> ELSE Forget
    /\ UNCHANGED <<output, driver, generation, queue, leftover, since, ticked>>

(* Stopping publishes zero at once, past the acceleration limit, also when *)
(* the stop was latched already.                                           *)
SetStop ==
    /\ stopped' = TRUE
    /\ IF stopped THEN UNCHANGED <<slot, previous>> ELSE Forget
    /\ output' = 0
    /\ driver' = NoDriver
    /\ UNCHANGED <<generation, queue, leftover, since, ticked>>

(* reset_command_subscriptions: the queued samples go with their readers,  *)
(* except one the executor is already about to take.                       *)
ResetSubscriptions ==
    /\ generation' = generation + 1
    /\ queue' = [s \in Sources |-> <<>>]
    /\ \E ready \in SUBSET Sources :
         leftover' = [s \in Sources |->
                        IF s \in ready /\ queue[s] # <<>>
                          THEN <<Head(queue[s])>> ELSE <<>>]

ClearStop ==
    /\ stopped
    /\ generation < MaxClears
    /\ stopped' = FALSE
    /\ Forget
    /\ ResetSubscriptions
    /\ UNCHANGED <<since, ticked, output, driver>>

-----------------------------------------------------------------------------
(* Time and the timer *)

(* Time passes; the timer callback is never later than MaxGap.             *)
Elapse ==
    /\ since < MaxGap
    /\ since' = since + 1
    /\ slot' = [s \in Sources |->
                  IF slot[s].received
                    THEN [slot[s] EXCEPT !.age = Aging(s, @)] ELSE slot[s]]
    /\ driver' = IF driver.source = "none" THEN driver
                 ELSE [driver EXCEPT !.age = @ + 1]
    /\ UNCHANGED <<stopped, previous, generation, queue, leftover, ticked,
                   output>>

(* choose_desired: docking first, then navigation and teleop in the        *)
(* configured order.                                                       *)
Order == IF NavigationPriority THEN <<"docking", "navigation", "teleop">>
                               ELSE <<"docking", "teleop", "navigation">>

Chosen(s) ==
    /\ Fresh(s)
    /\ \A i, j \in 1 .. 3 : Order[j] = s /\ i < j => ~Fresh(Order[i])

(* Faulty variant: limits the change once per tick, not per unit of time.  *)
LimitedPerGap(v) ==
    LET target == Clamp(v, MaxSpeed)
    IN  IF ticked THEN previous + Clamp(target - previous, MaxAccel * MaxGap)
                  ELSE target

(* apply_limits: the first tick has no interval to limit the change over.  *)
Limited(v) ==
    LET target == Clamp(v, MaxSpeed)
    IN  IF ticked /\ since > 0
          THEN previous + Clamp(target - previous, MaxAccel * since)
          ELSE target

(* publish_command: select, then publish                                   *)
Tick ==
    /\ IF ~stopped /\ \E s \in Sources : Fresh(s)
         THEN \E s \in Sources :
                /\ Chosen(s)
                /\ output' = Limited(slot[s].speed)
                /\ driver' = [source |-> s, gen |-> slot[s].gen,
                              age |-> slot[s].age]
         ELSE output' = 0 /\ driver' = NoDriver
    /\ previous' = output'
    /\ since' = 0
    /\ ticked' = TRUE
    /\ UNCHANGED <<stopped, slot, generation, queue, leftover>>

-----------------------------------------------------------------------------
NextDrive ==
    \/ SetStop \/ ClearStop \/ Elapse \/ Tick
    \/ \E s \in Sources : Deliver(s) \/ DeliverLeftover(s)
    \/ \E s \in Publishing : Send(s)

DriveSpec == InitDrive /\ [][NextDrive]_drive

-----------------------------------------------------------------------------
(* Properties *)

(* Every variable holds a value of its kind.                               *)
DriveTypeOK ==
    /\ stopped \in BOOLEAN
    /\ slot \in [Sources -> Slots]
    /\ previous \in Int
    /\ generation \in 0 .. MaxClears
    /\ queue \in [Sources -> Seq(Commands)]
    /\ leftover \in [Sources -> Seq(Commands)]
    /\ since \in 0 .. MaxGap
    /\ ticked \in BOOLEAN
    /\ output \in Int
    /\ driver \in Drivers

(* While the stop is latched the base has been told to stand still, and no *)
(* command is kept for later.                                              *)
StopHolds ==
    stopped => /\ output = 0
               /\ previous = 0
               /\ \A s \in Sources : ~slot[s].received

(* No command sent before the last clearing of the stop moves the base, or *)
(* can still be chosen: not one that was kept, not one that was queued, not*)
(* one the executor was about to handle.                                   *)
NoRevivedCommand ==
    /\ driver.source # "none" => driver.gen = generation
    /\ \A s \in Sources : slot[s].received => slot[s].gen = generation

(* A source that falls silent moves the base no longer than its timeout    *)
(* and the longest gap between two ticks.                                  *)
DeadMan ==
    output # 0 => /\ driver.source # "none"
                  /\ driver.age <= Timeout[driver.source] + MaxGap

(* The base is never told to change speed faster than the limits allow,    *)
(* except to stand still and except by the very first command; and it is   *)
(* never told to exceed its speed limit.                                   *)
SmoothOutput ==
    [][/\ output' \in -MaxSpeed .. MaxSpeed
       /\ output' # output /\ output' # 0 /\ ticked /\ since > 0 =>
            output' - output \in -(MaxAccel * since) .. MaxAccel * since]_drive

=============================================================================
