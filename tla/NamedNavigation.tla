-------------------------- MODULE NamedNavigation --------------------------
(***************************************************************************)
(* Driving to a named place: xlerobot_navigation/src/                      *)
(* named_navigation_server.cpp.                                            *)
(*                                                                         *)
(* One goal at a time is served by a worker thread that sends the legs of  *)
(* the trip to three actions of Nav2, one after the other: to the predock  *)
(* pose (with one backup and a second attempt), a spin, a correction if    *)
(* the robot came to stand beside the place; then it docks with velocities *)
(* of its own.  Every wait of the worker has a deadline.  What it gives up *)
(* may still be accepted, and what it asks to stop may still move.         *)
(*                                                                         *)
(* Nav2 and the transforms are external; poses are free choices.           *)
(***************************************************************************)
EXTENDS Naturals

VARIABLE trip

Quiet == {"none", "rejected", "succeeded", "failed"}   \* no leg that moves
NoLeg == [of |-> "none", state |-> "none", asked |-> FALSE]

(* Which action a stage uses.                                              *)
Leg == [navigate |-> "nav", backup |-> "backup", spin |-> "spin",
        correct |-> "nav", respin |-> "spin"]

InitTrip ==
    trip = [pc       |-> "idle",   \* "dead": the process has ended
            stage    |-> "navigate",
            attempt  |-> 1,
            docks    |-> FALSE,    \* the place is docked to
            canceling |-> FALSE,
            why      |-> "none",   \* a leg is stopped: canceled or timeout
            leg      |-> NoLeg,
            adrift   |-> {},       \* what the last trip left that may move
            told     |-> "none"]   \* how the last trip ended

(* handle_goal refuses a second goal while one is reserved.                *)
StartTrip ==
    /\ trip.pc = "idle"
    /\ \E docks \in BOOLEAN :
         trip' = [trip EXCEPT !.pc = "start", !.docks = docks, !.told = "none",
                              !.stage = "navigate", !.attempt = 1,
                              !.canceling = FALSE]

CancelTrip ==
    /\ trip.pc \notin {"idle", "dead"} /\ trip' = [trip EXCEPT !.canceling = TRUE]

(* The goal ends; a leg whose end was not seen may go on.  (No trip looks  *)
(* at what an earlier one left, so that of the last one stands for all.)   *)
EndTrip(t, told) ==
    [t EXCEPT !.pc = "idle", !.told = told, !.leg = NoLeg, !.why = "none",
              !.adrift = IF t.leg.state \in Quiet THEN {}
                 ELSE {[of |-> t.leg.of, told |-> told, asked |-> t.leg.asked,
                        seen |-> t.pc # "response"]}]

SendStage(t, stage) == [t EXCEPT !.pc = "send", !.stage = stage, !.why = "none"]

(* An unknown place, a dry run, execution disabled, or already there.      *)
Resolve ==
    /\ trip.pc = "start"
    /\ trip' \in {EndTrip(trip, "aborted"), EndTrip(trip, "succeeded"),
                  SendStage(trip, "navigate")}

(* Where the trip goes on when a stage is done.  The pose of the robot is  *)
(* waited for after a spin and a correction, unless the goal is canceled.  *)
AfterStage(t) ==
    CASE t.stage = "navigate" ->
           {IF t.docks THEN SendStage(t, "spin") ELSE EndTrip(t, "succeeded")}
      [] t.stage = "backup" ->
           {[SendStage(t, "navigate") EXCEPT !.attempt = 2]}
      [] t.stage = "correct" ->
           {EndTrip(t, "unavailable")} \cup
           IF t.canceling THEN {} ELSE {SendStage(t, "respin")}
      [] t.stage \in {"spin", "respin"} ->
           {EndTrip(t, "unavailable")} \cup
           IF t.canceling THEN {}
           ELSE {[t EXCEPT !.pc = "dock"],
                 IF t.stage = "spin" THEN SendStage(t, "correct")
                 ELSE EndTrip(t, "aborted")}

(* A predock that failed with the robot at rest: it may be close enough,   *)
(* or there is a backup and a second attempt; a correction is not retried. *)
AfterFailure(t) ==
    IF t.stage = "navigate"
    THEN AfterStage(t) \cup
         {IF t.attempt = 1 THEN SendStage(t, "backup") ELSE EndTrip(t, "aborted")}
    ELSE {EndTrip(t, "aborted")}

(* The action may be unavailable or the time for all attempts be up, and a *)
(* spin may not be needed.                                                 *)
SendLeg ==
    /\ trip.pc = "send"
    /\ LET leg == Leg[trip.stage]
       IN  \/ trip' = EndTrip(trip, "unavailable")
           \/ trip.stage = "navigate" /\ trip' = EndTrip(trip, "timeout")
           \/ leg = "spin" /\ trip' \in AfterStage(trip)
           \/ trip' = [trip EXCEPT !.pc = "response",
                         !.leg = [of |-> leg, state |-> "sent", asked |-> FALSE]]

(* wait_future: a response that is there is taken, even if the goal is     *)
(* canceled; what is not is given up, with nobody to take the answer.      *)
AwaitLegResponse ==
    /\ trip.pc = "response"
    /\ \/ trip.leg.state = "rejected" /\ trip' = EndTrip(trip, "aborted")
       \/ /\ trip.leg.state \notin {"sent", "rejected"}
          /\ trip' = [trip EXCEPT !.pc = "result"]
       \/ trip' = EndTrip(trip, IF trip.canceling THEN "canceled" ELSE "timeout")

(* The end of the leg, or a cancellation, or a deadline.  The end of a     *)
(* predock is waited for, that of a backup or a spin is not.  The action   *)
(* client has forgotten a leg whose result has just come in: to ask it     *)
(* throws, nothing in the worker catches, and the process ends.            *)
AskLeg(t) == [t EXCEPT !.leg.asked = TRUE]
AwaitLegResult ==
    /\ trip.pc = "result"
    /\ LET why == IF trip.canceling THEN "canceled" ELSE "timeout"
       IN  \/ trip.leg.state = "succeeded" /\ trip' \in AfterStage(trip)
           \/ /\ trip.leg.state = "failed"
              /\ trip' \in IF trip.leg.of = "nav" THEN AfterFailure(trip)
                           ELSE {EndTrip(trip, "aborted")}
           \/ /\ trip.leg.state \notin Quiet
              /\ trip' = IF trip.leg.of = "nav"
                         THEN [AskLeg(trip) EXCEPT !.pc = "stop", !.why = why]
                         ELSE EndTrip(AskLeg(trip), why)
           \/ trip.leg.state \in Quiet /\ trip' = [trip EXCEPT !.pc = "dead"]

(* cancel_nav_and_wait, and what its caller makes of it.                   *)
AwaitLegStop ==
    /\ trip.pc = "stop"
    /\ \/ /\ trip.leg.state \in Quiet
          /\ trip' \in IF trip.why = "canceled" THEN {EndTrip(trip, "canceled")}
                       ELSE AfterFailure(trip)
       \/ trip.leg.state \notin Quiet /\ trip' = EndTrip(trip, "unavailable")

(* Docking stops the base whichever way it ends.                           *)
Dock ==
    /\ trip.pc = "dock"
    /\ \E told \in {"canceled", "timeout", "unavailable", "aborted", "succeeded"} :
         /\ told = "canceled" => trip.canceling
         /\ trip' = EndTrip(trip, told)

TripStep ==
    Resolve \/ SendLeg \/ AwaitLegResponse \/ AwaitLegResult \/ AwaitLegStop \/ Dock

(* Nav2 (external) answers, and ends what runs.                            *)
LegServer ==
    \/ /\ trip.leg.state = "sent"
       /\ \E s \in {"live", "rejected"} : trip' = [trip EXCEPT !.leg.state = s]
    \/ /\ trip.leg.state = "live"
       /\ \E s \in {"succeeded", "failed"} : trip' = [trip EXCEPT !.leg.state = s]
    \/ \E a \in trip.adrift : trip' = [trip EXCEPT !.adrift = @ \ {a}]

NextTrip == StartTrip \/ CancelTrip \/ TripStep \/ LegServer

TripFairness == WF_trip(TripStep)

-----------------------------------------------------------------------------
(* A trip goes on, or docks, only when the leg before has ended.  Of an    *)
(* ended trip nothing moves that was known to run and was not asked to     *)
(* stop, and a predock that may still move was reported as such.  (What    *)
(* was given up before it was accepted is the exception: nobody takes its  *)
(* answer; and a backup or a spin may go on after a goal that reports its  *)
(* cancellation.)                                                          *)
TripIsMinded ==
    /\ trip.pc \in {"send", "dock", "dead"} => trip.leg.state \in Quiet
    /\ \A a \in trip.adrift :
         a.seen => a.asked /\ (a.of = "nav" => a.told = "unavailable")

TripIsOver == trip.pc \in {"idle", "dead"}

=============================================================================
