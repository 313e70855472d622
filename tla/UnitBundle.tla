---------------------------- MODULE UnitBundle ----------------------------
(***************************************************************************)
(* The calibration configuration of one robot                              *)
(* (xlerobot_calibration_tools): immutable versions, the active pointer,   *)
(* the runtime directory rendered from it (bundle.py), the workbench that  *)
(* runs one capture session at a time and accepts its results              *)
(* (workbench.py), the command line that uses the same store without the   *)
(* workbench's locks (public_cli.py), and the gate every launch passes     *)
(* (runtime_gate.py).                                                      *)
(*                                                                         *)
(* A store operation is a program of file steps; a step may raise, and the *)
(* operation's rescue runs instead of what was left, or the process may    *)
(* die, and nothing runs.  Calibrated values are revision numbers.  Two    *)
(* components stand for all: the servos, and the head camera that was      *)
(* solved on top of them.                                                  *)
(***************************************************************************)
EXTENDS Naturals, Sequences, FiniteSets

CONSTANTS
    Versions,        \* version numbers, 1 imported when the store begins
    MaxRevisions,    \* bound: revisions anybody ever measures
    MaxOperations,   \* bound: store operations begun
    MaxMishaps       \* bound: steps that raise, processes that die

ASSUME StoreAssumption ==
    Versions \subseteq Nat \ {0} /\ 1 \in Versions /\ MaxRevisions \in Nat

VARIABLE bundle

Actors == {"web", "cli"}
Components == {"servo", "head_camera"}
NoRevision == 0
NoVersion == 0
NoRescue == [mode |-> "none", to |-> NoVersion]
Imported == [c \in Components |-> NoRevision]

InitBundle ==
    bundle = [versions |-> [v \in Versions |-> IF v = 1 THEN <<Imported>> ELSE << >>],
              active |-> 1, runtime |-> <<[of |-> 1, values |-> Imported]>>,
              previous |-> << >>, draft |-> [c \in Components |-> NoRevision],
              op |-> [a \in Actors |-> << >>],
              rescue |-> [a \in Actors |-> NoRescue],
              from |-> [a \in Actors |-> NoVersion],
              session |-> "none", running |-> FALSE, predecessor |-> NoRevision,
              result |-> NoRevision, progress |-> << >>,
              receipt |-> [c \in Components |-> << >>],
              basis |-> [r \in 1..MaxRevisions |-> NoRevision], handmade |-> {},
              reused |-> {},
              revisions |-> 0, operations |-> 0, mishaps |-> 0,
              alone |-> [a \in Actors |-> FALSE], before |-> [a \in Actors |-> NoVersion],
              target |-> [a \in Actors |-> NoVersion],
              rescued |-> [a \in Actors |-> FALSE], torn |-> FALSE]

Exists(v) == v # NoVersion /\ bundle.versions[v] # << >>

(* verify_runtime: the runtime is there and is the active version's.       *)
VerifiesFiles == Exists(bundle.active) /\ bundle.runtime # << >>
Verifies ==
    /\ Exists(bundle.active) /\ bundle.runtime # << >>
    /\ bundle.runtime[1].of = bundle.active

-----------------------------------------------------------------------------
(* The programs of the store.                                              *)

Step(what, v, values) == [do |-> what, v |-> v, values |-> values]
Select(v) == <<Step("link", v, Imported), Step("aside", v, Imported)>>
RenderActive == <<Step("read", 0, Imported), Step("out", 0, Imported),
                  Step("in", 0, Imported)>>
Publish(v, values) == <<Step("publish", v, values)>>
VerifyRuntime == <<Step("verify", 0, Imported)>>

Switch(v) == Select(v) \o RenderActive \o VerifyRuntime
SwitchBack == IF bundle.active = NoVersion THEN NoRescue
              ELSE [mode |-> "select", to |-> bundle.active]

(* What an exception leaves to do: switch restores the selection it found, *)
(* replace_from_draft switches back to the version it replaced.            *)
RescueSelects(r) == IF r.mode = "none" THEN << >> ELSE Select(r.to)
Rescue(r) == CASE r.mode = "none" -> << >>
               [] r.mode = "select" -> Select(r.to) \o RenderActive
               [] r.mode = "switch" -> Switch(r.to)

Started(a, program, rescue, v) ==
    [bundle EXCEPT !.op[a] = program, !.rescue[a] = rescue,
                   !.operations = @ + 1, !.rescued[a] = FALSE,
                   !.before[a] = bundle.active, !.target[a] = v,
                   !.alone = [b \in Actors |->
                       b = a /\ \A c \in Actors \ {a} : bundle.op[c] = << >>]]

Idle(a) ==
    /\ bundle.op[a] = << >> /\ bundle.operations < MaxOperations
    /\ a = "web" => bundle.session = "none"   \* operation_impl

ReplaceFromDraft(a) ==
    \E v \in Versions, names \in SUBSET Components \ {{}} :
      /\ Idle(a) /\ Verifies /\ ~Exists(v)
      /\ \A c \in names : bundle.draft[c] # NoRevision
      /\ bundle' = Started(a,
           Publish(v, [c \in Components |-> IF c \in names THEN bundle.draft[c]
                                            ELSE bundle.runtime[1].values[c]])
             \o Switch(v),
           [mode |-> "switch", to |-> bundle.active], v)

SwitchTo(a) ==
    \E v \in Versions : /\ Idle(a) /\ Exists(v)
                        /\ bundle' = Started(a, Switch(v), SwitchBack, v)

DraftComplete == \A c \in Components : bundle.draft[c] # NoRevision

(* activate is the one operation with no way back: the workbench renders   *)
(* after it, the command line leaves that to a render of its own.          *)
Activate(a) ==
    \E v \in Versions :
      /\ Idle(a) /\ ~Exists(v) /\ DraftComplete
      /\ bundle' = Started(a, Publish(v, bundle.draft) \o Select(v)
                                \o IF a = "web" THEN RenderActive ELSE << >>,
                           NoRescue, NoVersion)

ImportRuntime ==
    \E v \in Versions :
      /\ Idle("cli") /\ ~Exists(v)
      /\ bundle' = Started("cli", Publish(v, Imported) \o Select(v) \o RenderActive,
                           NoRescue, NoVersion)

Rollback ==
    \E v \in Versions :
      Idle("cli") /\ Exists(v) /\ bundle' = Started("cli", Select(v), NoRescue, NoVersion)

CommandLine ==
    \/ ImportRuntime \/ Rollback
    \/ Idle("cli") /\ bundle' = Started("cli", RenderActive, NoRescue, NoVersion)

-----------------------------------------------------------------------------
(* One file step.  Empty when it raises.                                   *)

Aside(b) == IF b.runtime = << >> THEN b
            ELSE [b EXCEPT !.previous = b.runtime, !.runtime = << >>]

Rendered(v) == <<[of |-> v, values |-> bundle.versions[v][1]]>>

Done(a, step) ==
    CASE step.do = "publish" ->
           IF Exists(step.v) THEN {}
           ELSE {[bundle EXCEPT !.versions[step.v] = <<step.values>>]}
      [] step.do = "link" ->
           IF Exists(step.v) THEN {[bundle EXCEPT !.active = step.v]} ELSE {}
      [] step.do = "aside" -> {Aside(bundle)}
      [] step.do = "read" ->
           IF Exists(bundle.active) THEN {[bundle EXCEPT !.from[a] = bundle.active]} ELSE {}
      [] step.do = "out" -> {Aside([bundle EXCEPT !.previous = << >>])}
      [] step.do = "in" ->
           IF bundle.runtime # << >> THEN {}
           ELSE {[bundle EXCEPT !.previous = << >>, !.runtime = Rendered(bundle.from[a])]}
      [] step.do = "verify" -> IF Verifies THEN {bundle} ELSE {}

(* An operation that nobody interfered with leaves either its target or    *)
(* what it found, selected and rendered; torn remembers that one did not.  *)
Whole(a, b) ==
    LET v == IF b.rescued[a] THEN b.before[a] ELSE b.target[a]
    IN  b.active = v /\ b.runtime # << >> /\ b.runtime[1].of = v

Finished(a, b) ==
    IF b.op[a] # << >> THEN b
    ELSE [b EXCEPT !.torn = @ \/ (b.alone[a] /\ b.target[a] # NoVersion /\ ~Whole(a, b)),
                   !.rescue[a] = NoRescue, !.from[a] = NoVersion, !.rescued[a] = FALSE,
                   !.before[a] = NoVersion, !.target[a] = NoVersion]

FileStep(a) ==
    /\ bundle.op[a] # << >>
    /\ \E b \in Done(a, Head(bundle.op[a])) :
         bundle' = Finished(a, [b EXCEPT !.op[a] = Tail(@)])

(* The exception unwinds: a render puts back the directory it moved aside, *)
(* and the operation's rescue begins.                                      *)
Raise(a, s) ==
    LET step == Head(s.op[a])
        b == IF step.do = "in" /\ s.runtime = << >>
             THEN [s EXCEPT !.runtime = s.previous, !.previous = << >>]
             ELSE s
    IN  Finished(a, [b EXCEPT !.op[a] = Rescue(s.rescue[a]),
                              !.rescued[a] = TRUE,
                              !.rescue[a] = IF @.mode = "switch" THEN SwitchBack ELSE NoRescue])

(* Who is struck again in a rescue has no claim to be left alone.          *)
Mishap(a) == [bundle EXCEPT !.mishaps = @ + 1, !.alone[a] = @ /\ ~bundle.rescued[a]]

StepRaises(a) ==
    /\ bundle.op[a] # << >>
    /\ \/ Done(a, Head(bundle.op[a])) = {} /\ bundle' = Raise(a, bundle)
       \/ bundle.mishaps < MaxMishaps /\ bundle' = Raise(a, Mishap(a))

ProcessDies(a) ==
    /\ bundle.op[a] # << >> /\ bundle.mishaps < MaxMishaps
    /\ bundle' = [bundle EXCEPT !.op[a] = << >>, !.rescue[a] = NoRescue,
                                !.from[a] = NoVersion, !.rescued[a] = FALSE,
                                !.before[a] = NoVersion, !.target[a] = NoVersion,
                                !.mishaps = @ + 1]

-----------------------------------------------------------------------------
(* Drafts, and the workbench's capture sessions.                           *)

Measured(b, c, handmade) ==
    LET r == b.revisions + 1
    IN  [b EXCEPT !.revisions = r, !.draft[c] = r,
                  !.handmade = IF handmade THEN @ \cup {r} ELSE @,
                  !.basis[r] = IF c = "servo" THEN NoRevision ELSE b.draft["servo"]]

SaveByHand ==   \* the command line's servo and head-camera
    \E c \in Components :
      /\ bundle.revisions < MaxRevisions
      /\ bundle' = Measured(bundle, c, TRUE)

ResumeIssue ==
    bundle.progress # << >> /\ bundle.progress[1].basis # bundle.draft["servo"]

(* start: refused while a process is kept, without passing predecessors,   *)
(* and for a sweep whose predecessors have changed, unless it begins anew. *)
StartSession ==
    \E stage \in Components, fresh \in BOOLEAN :
      /\ bundle.op["web"] = << >> /\ bundle.session = "none"
      /\ stage = "head_camera" =>
           bundle.draft["servo"] # NoRevision /\ ~(ResumeIssue /\ ~fresh)
      /\ bundle' = [bundle EXCEPT
           !.session = stage, !.running = TRUE,
           !.predecessor = IF stage = "servo" THEN NoRevision ELSE bundle.draft["servo"],
           !.result = IF stage = "servo" /\ fresh THEN NoRevision ELSE @,
           !.progress = IF stage = "servo" \/ (@ # << >> /\ ~fresh) THEN @
                        ELSE <<[basis |-> bundle.draft["servo"], completed |-> FALSE]>>]

StopSession ==
    /\ bundle.session # "none"
    /\ bundle' = [bundle EXCEPT !.session = "none", !.running = FALSE]

SessionExits ==
    /\ bundle.running /\ bundle' = [bundle EXCEPT !.running = FALSE]

(* The capture tools themselves: the servo tool writes its result file, a  *)
(* sweep saves its draft and then its progress, on unchanged predecessors. *)
SessionResult ==
    /\ bundle.running /\ bundle.revisions < MaxRevisions
    /\ \/ /\ bundle.session = "servo"
          /\ bundle' = [bundle EXCEPT !.revisions = @ + 1, !.result = bundle.revisions + 1]
       \/ /\ bundle.session = "head_camera" /\ ~bundle.progress[1].completed
          /\ bundle.draft["servo"] = bundle.progress[1].basis
          /\ bundle' = [Measured(bundle, "head_camera", FALSE)
                          EXCEPT !.progress[1].completed = TRUE]

PredecessorsKept == bundle.predecessor = bundle.draft["servo"]

SaveResult ==
    /\ bundle.running
    /\ \/ /\ bundle.session = "servo" /\ bundle.result # NoRevision
          /\ bundle' = [bundle EXCEPT
               !.draft["servo"] = bundle.result,
               !.receipt["servo"] = <<[on |-> NoRevision, result |-> bundle.result]>>]
       \/ /\ bundle.session = "head_camera" /\ PredecessorsKept
          /\ bundle.progress[1].completed
          /\ bundle.progress[1].basis = bundle.draft["servo"]
          /\ bundle' = [bundle EXCEPT
               !.receipt["head_camera"] =
                 <<[on |-> bundle.predecessor, result |-> bundle.draft["head_camera"]]>>]

Reuse ==
    \E c \in Components :
      /\ bundle.op["web"] = << >> /\ bundle.session = "none" /\ Verifies
      /\ bundle.runtime[1].values[c] # NoRevision
      /\ bundle' = [bundle EXCEPT
           !.draft[c] = bundle.runtime[1].values[c],
           !.reused = @ \cup {bundle.runtime[1].values[c]},
           !.receipt[c] = <<[on |-> NoRevision, result |-> bundle.runtime[1].values[c]]>>]

(* snapshot: a result is shown as current when its receipt names the       *)
(* drafts that are there now.                                              *)
CurrentResult(c) ==
    bundle.receipt[c] # << >> /\ bundle.receipt[c][1].result = bundle.draft[c]
Current(c) ==
    /\ bundle.receipt[c] # << >> /\ bundle.receipt[c][1].result = bundle.draft[c]
    /\ c = "head_camera" => bundle.receipt[c][1].on = bundle.draft["servo"]

Operation(a) == ReplaceFromDraft(a) \/ SwitchTo(a) \/ Activate(a)
Program(a) == FileStep(a) \/ StepRaises(a) \/ ProcessDies(a)

(* runtime_gate.verify: what every launch of the robot asks first.         *)
Gate == Verifies

(* The store under both its users, and the workbench with its sessions.    *)
NextStore ==
    SaveByHand \/ CommandLine \/ \E a \in Actors : Operation(a) \/ Program(a)
NextWorkbench ==
    \/ Operation("web") \/ FileStep("web") \/ SaveByHand \/ StartSession
    \/ StopSession \/ SessionExits \/ SessionResult \/ SaveResult \/ Reuse

-----------------------------------------------------------------------------
(* A runtime that passes the gate of a launch is the selected version's    *)
(* own rendering, whoever else is at work on the store and wherever a step *)
(* failed or died.                                                         *)
LaunchesWhole ==
    Gate => bundle.runtime[1].values = bundle.versions[bundle.active][1]

(* A switch or a replacement that nobody interferes with succeeds, and its *)
(* version is active and rendered, or fails, and so is the one it found.   *)
AllOrNothing == ~bundle.torn

(* A head calibration shown as current was solved on the servo draft that  *)
(* is there now (one saved by hand in mid-session is the operator's own).  *)
CurrentIsCompatible ==
    /\ Current("head_camera") /\ bundle.draft["servo"] # NoRevision
    /\ bundle.draft["head_camera"] \notin bundle.handmade
    => bundle.basis[bundle.draft["head_camera"]] = bundle.draft["servo"]

(* The same, but of what an earlier version was copied back from.          *)
MeasuredIsCompatible ==
    bundle.draft["head_camera"] \notin bundle.reused => CurrentIsCompatible

=============================================================================
