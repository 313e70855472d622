---------------------------- MODULE TaskLifecycle ----------------------------
(***************************************************************************)
(* What the ExecuteTask server promises its clients and the operators of   *)
(* the robot, without its pipeline, threads, futures or timeouts: the      *)
(* robot has one owner at a time, a goal ends only when nothing it started *)
(* can still move the robot, and once the server has closed itself down    *)
(* nobody becomes its owner again.                                         *)
(***************************************************************************)
CONSTANTS
    Goals,
    Nobody, Manual      \* two owners that are no goals

VARIABLES
    owner,      \* the goal being served, Manual, or Nobody
    phase,      \* how far each goal has come
    moving,     \* the goals with a child action that may move the robot
    closed      \* the server admits nothing until it is restarted

lifecycle == <<owner, phase, moving, closed>>

Ended == {"succeeded", "canceled", "aborted"}

Init ==
    /\ owner = Nobody
    /\ phase = [g \in Goals |-> "new"]
    /\ moving = {}
    /\ closed = FALSE

(* Whoever becomes the owner finds the robot free and at rest.             *)
Free == owner = Nobody /\ ~closed /\ moving = {}

Claim(g) ==
    /\ Free
    /\ phase[g] = "new"
    /\ owner' = g
    /\ \E p \in {"vetting", "active"} : phase' = [phase EXCEPT ![g] = p]
    /\ UNCHANGED <<moving, closed>>

Accept(g) ==
    /\ owner = g
    /\ phase[g] = "vetting"
    /\ phase' = [phase EXCEPT ![g] = "active"]
    /\ UNCHANGED <<owner, moving, closed>>

Refuse(g) ==
    /\ phase[g] \in {"new", "vetting"}
    /\ owner' = IF owner = g THEN Nobody ELSE owner
    /\ phase' = [phase EXCEPT ![g] = "rejected"]
    /\ UNCHANGED <<moving, closed>>

StartChild(g) ==
    /\ owner = g
    /\ phase[g] = "active"
    /\ moving = {}
    /\ moving' = {g}
    /\ UNCHANGED <<owner, phase, closed>>

ChildStops(g) ==
    /\ g \in moving
    /\ moving' = moving \ {g}
    /\ UNCHANGED <<owner, phase, closed>>

CloseDown(g) ==
    /\ owner = g
    /\ phase[g] = "active"
    /\ closed' = TRUE
    /\ UNCHANGED <<owner, phase, moving>>

End(g) ==
    /\ owner = g
    /\ phase[g] = "active"
    /\ g \notin moving
    /\ \E e \in Ended : phase' = [phase EXCEPT ![g] = e]
    /\ UNCHANGED <<owner, moving, closed>>

Release(g) ==
    /\ owner = g
    /\ phase[g] \in Ended
    /\ owner' = Nobody
    /\ UNCHANGED <<phase, moving, closed>>

TakeManual ==
    /\ Free
    /\ owner' = Manual
    /\ UNCHANGED <<phase, moving, closed>>

GiveManualBack ==
    /\ owner = Manual
    /\ owner' = Nobody
    /\ UNCHANGED <<phase, moving, closed>>

Next ==
    \/ TakeManual \/ GiveManualBack
    \/ \E g \in Goals :
         \/ Claim(g) \/ Accept(g) \/ Refuse(g) \/ StartChild(g)
         \/ ChildStops(g) \/ CloseDown(g) \/ End(g) \/ Release(g)

Spec == Init /\ [][Next]_lifecycle

=============================================================================
