---------------------------- MODULE AutoLocalizer ----------------------------
(***************************************************************************)
(* Finding the robot on the map: xlerobot_navigation/src/                  *)
(* auto_localizer_server.cpp with the ConvergenceTracker of                *)
(* localization_core.cpp.                                                  *)
(*                                                                         *)
(* A worker thread scatters AMCL's particles, has Nav2 spin the robot and  *)
(* polls the latest pose of AMCL until it was good for a while; then it    *)
(* stops the spin, waits for the wheels to rest, looks at the pose once    *)
(* more and activates navigation.  Nothing in the worker catches: to ask   *)
(* a spin to stop whose result has just come in ends the process.          *)
(*                                                                         *)
(* The control period is shorter than the unit of time here, so that a     *)
(* pose is looked at in the unit in which it comes.  AMCL, Nav2 and the    *)
(* wheels are external.                                                    *)
(***************************************************************************)
EXTENDS Naturals

CONSTANTS
    PoseTimeout,    \* amcl_pose_timeout_s
    HoldFor         \* convergence.hold_s

ASSUME LocalizerAssumption == PoseTimeout \in Nat /\ HoldFor \in Nat \ {0}

VARIABLE loc

SpinEnded == {"none", "rejected", "ended"}
NoSpin == [state |-> "none", asked |-> FALSE]
NoPose == [have |-> FALSE, good |-> FALSE, age |-> 0, new |-> FALSE]
Forever == PoseTimeout + HoldFor + 1         \* where counting of time stops

InitLocalizer ==
    loc = [pc        |-> "idle",    \* "dead": the process has ended
           canceling |-> FALSE,
           spin      |-> NoSpin,
           pose      |-> NoPose,    \* of AMCL, and whether the worker has seen it
           turned    |-> FALSE,     \* the spin has covered min_rotation_rad
           looked    |-> FALSE,     \* at a pose, since the spin began,
           previous  |-> 0,         \* and how old that one is
           hold      |-> 0,         \* hold_elapsed_s_
           bad       |-> Forever,   \* since a pose was seen that is not good
           why       |-> "none",    \* why the spin is stopped
           adrift    |-> {},        \* what the last goal left that may turn
           told      |-> "none"]

(* The goal ends; a spin whose end was not seen may go on.                 *)
EndLocalizing(l, told) ==
    [l EXCEPT !.pc = "idle", !.told = told, !.spin = NoSpin, !.why = "none",
              !.adrift = IF l.spin.state \in SpinEnded THEN {}
                         ELSE {[asked |-> l.spin.asked,
                                seen |-> l.pc # "response"]}]

GiveUpLocalizing(l) ==
    {EndLocalizing(l, "aborted")} \cup
    IF l.canceling THEN {EndLocalizing(l, "canceled")} ELSE {}

-----------------------------------------------------------------------------
(* handle_goal refuses a second goal while one is reserved.                *)
StartLocalizing ==
    /\ loc.pc = "idle"
    /\ LET l == [loc EXCEPT !.canceling = FALSE, !.told = "none", !.adrift = {}]
       IN  \/ loc' \in {EndLocalizing(l, "succeeded"),        \* a dry run
                        EndLocalizing(l, "aborted")}          \* not enabled
           \/ loc' = [l EXCEPT !.pc = "scatter", !.pose.have = FALSE,
                               !.pose.good = FALSE]

CancelLocalizing ==
    /\ loc.pc \notin {"idle", "dead"} /\ loc' = [loc EXCEPT !.canceling = TRUE]

(* The service of AMCL, and reset_localization_sample.                     *)
Scatter ==
    /\ loc.pc = "scatter"
    /\ \/ loc' \in GiveUpLocalizing(loc)
       \/ loc' = [loc EXCEPT !.pc = "send", !.pose.have = FALSE, !.pose.good = FALSE]

SendSpin ==
    /\ loc.pc = "send"
    /\ \/ loc' \in GiveUpLocalizing(loc)
       \/ loc' = [loc EXCEPT !.pc = "response", !.turned = FALSE, !.hold = 0,
                             !.spin.state = "sent"]

(* A spin that is refused is sent again, until the time is up.             *)
AwaitSpinResponse ==
    /\ loc.pc = "response"
    /\ \/ loc.spin.state = "sent" /\ loc' \in GiveUpLocalizing(loc)
       \/ loc.spin.state = "rejected" /\ loc' = [loc EXCEPT !.spin.state = "sent"]
       \/ /\ loc.spin.state = "live"
          /\ loc' = [loc EXCEPT !.pc = "spin", !.pose.new = FALSE,
                                !.looked = FALSE, !.previous = 0, !.bad = Forever]

(* cancel_spin_and_wait begins.                                            *)
StopSpin(l, why) ==
    IF l.spin.state \in SpinEnded THEN [l EXCEPT !.pc = "dead", !.why = why]
    ELSE [l EXCEPT !.pc = "stop", !.why = why, !.spin.asked = TRUE]

(* ConvergenceTracker::update.  After a gap the time held starts again, and *)
(* then the gap is counted.                                                *)
Looked(l) ==
    LET gap    == l.previous
        held   == IF gap > PoseTimeout THEN 0 ELSE l.hold
        within == l.pose.good /\ l.turned
    IN  [l EXCEPT !.pose.new = FALSE, !.looked = TRUE, !.previous = 0,
                  !.bad = IF within THEN @ ELSE 0,
                  !.hold = IF ~within THEN 0
                           ELSE IF held + gap < HoldFor THEN held + gap ELSE HoldFor]

Converged(l) == l.hold = HoldFor /\ l.pose.good /\ l.turned

(* One turn of the loop.                                                   *)
PollPose ==
    /\ loc.pc = "spin"
    /\ IF loc.canceling THEN loc' = StopSpin(loc, "canceled")
       ELSE IF loc.pose.have /\ loc.pose.new /\ Converged(Looked(loc))
       THEN loc' = StopSpin(Looked(loc), "converged")
       ELSE LET l == CASE loc.pose.have /\ loc.pose.new -> Looked(loc)
                       [] loc.pose.have /\ loc.pose.age > PoseTimeout ->
                            [loc EXCEPT !.hold = 0]
                       [] OTHER -> loc
            IN  loc' = IF l.spin.state \in SpinEnded THEN EndLocalizing(l, "aborted")
                       ELSE l

(* The deadline: of the loop, in a turn that has found nothing else to do, *)
(* and of a spin that is refused again and again.                          *)
RunOut ==
    \/ /\ loc.pc = "spin" /\ ~loc.canceling /\ ~loc.pose.new
       /\ loc' = StopSpin(loc, "timeout")
    \/ /\ loc.pc = "response" /\ loc.spin.state = "rejected"
       /\ loc' = EndLocalizing(loc, "aborted")

(* The spin has stopped, or two seconds are over.                          *)
AwaitSpinStop ==
    /\ loc.pc = "stop"
    /\ \/ loc.why = "canceled" /\ loc' = EndLocalizing(loc, "canceled")
       \/ loc.why = "timeout" /\ loc' = EndLocalizing(loc, "aborted")
       \/ /\ loc.why = "converged"
          /\ loc' = IF loc.spin.state \in SpinEnded THEN [loc EXCEPT !.pc = "settle"]
                    ELSE EndLocalizing(loc, "aborted")

(* The wheels rest, and the latest pose is still fresh and good.           *)
ComeToRest ==
    /\ loc.pc = "settle"
    /\ \/ loc' \in GiveUpLocalizing(loc)
       \/ /\ loc.pose.have /\ loc.pose.good /\ loc.pose.age <= PoseTimeout
          /\ loc' = [loc EXCEPT !.pc = "activate"]

(* ensure_navigation_active, one or two services.                          *)
Activate ==
    /\ loc.pc = "activate"
    /\ loc' \in GiveUpLocalizing(loc) \cup {EndLocalizing(loc, "succeeded")}

LocalizerStep ==
    \/ Scatter \/ SendSpin \/ AwaitSpinResponse
    \/ PollPose \/ AwaitSpinStop \/ ComeToRest \/ Activate

(* AMCL, Nav2 and time (external).                                         *)
PoseComes ==
    /\ loc.pc \notin {"idle", "dead"}
    /\ \E good \in BOOLEAN :
         loc' = [loc EXCEPT !.pose = [have |-> TRUE, good |-> good, age |-> 0,
                                      new |-> TRUE]]

SpinServer ==
    \/ /\ loc.spin.state = "sent"
       /\ \E s \in {"live", "rejected"} : loc' = [loc EXCEPT !.spin.state = s]
    \/ /\ loc.spin.state = "live" /\ loc.pc \in {"spin", "stop"}
       /\ \/ loc' = [loc EXCEPT !.spin.state = "ended"]
          \/ loc' = [loc EXCEPT !.turned = TRUE]
    \/ \E s \in loc.adrift : loc' = [loc EXCEPT !.adrift = @ \ {s}]

Aged(t) == IF t < Forever THEN t + 1 ELSE t
TimePasses ==
    /\ loc.pc \in {"spin", "stop", "settle"}
    /\ loc.pc = "spin" => ~loc.pose.new
    /\ loc' = [loc EXCEPT !.pose.age = Aged(@), !.bad = Aged(@),
                 !.previous = IF loc.looked THEN Aged(@) ELSE @]

NextLocalizer ==
    \/ StartLocalizing \/ CancelLocalizing \/ LocalizerStep \/ RunOut
    \/ PoseComes \/ SpinServer \/ TimePasses

(* The deadline passes once and for all: who comes to it again and         *)
(* again takes it.                                                         *)
LocalizerFairness == WF_loc(LocalizerStep) /\ SF_loc(RunOut)

-----------------------------------------------------------------------------
(* A spin is stopped as converged only when no pose was seen for the time  *)
(* to hold that was not good, after half a turn: however late poses come,  *)
(* whatever gap the tracker counts, and whatever an earlier spin had held. *)
LocalizationIsEarned ==
    loc.why = "converged" => loc.bad >= HoldFor /\ loc.turned

(* The robot is taken to rest, and navigation is activated, only when the  *)
(* spin has ended; a spin that was known to run is left behind asked to    *)
(* stop, and never by a goal that succeeds.  (One that was given up before *)
(* it was accepted is the exception, and so is one that has been asked by  *)
(* a goal that reports its cancellation.)                                  *)
LocalizerIsMinded ==
    /\ loc.pc \in {"settle", "activate", "dead"} => loc.spin.state \in SpinEnded
    /\ \A s \in loc.adrift : s.seen => s.asked
    /\ loc.told = "succeeded" => loc.adrift = {}

LocalizerIsOver == loc.pc \in {"idle", "dead"}

=============================================================================
