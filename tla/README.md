# Formal models of the xlerobot home-service software

These TLA+ modules model the parts of `ros2_ws` that decide when the robot may
move, what it reports, and what it keeps on disk. TLC checks each of them on
small instances; TLAPS proves safety properties of the core ones for every
value of the constants.

| Module | Code | Role |
| --- | --- | --- |
| `TaskLifecycle` | (abstract) | what the `ExecuteTask` server promises |
| `FetchDeliverTask` | `xlerobot_task/fetch_deliver_task_node.py`, `flow.py` | the orchestrator, every handler and wait |
| `DriveSafety` | `xlerobot_base`: `drive_arbiter.cpp`, `drive_safety_node.cpp` | the velocity arbiter and its stop latch |
| `StreamingExecutor` | `xlerobot_manipulation`: `streaming_joint_executor.cpp`, `streaming_validator.cpp`, `controller_mode_manager.cpp` | the motor side of a learned policy |
| `ServoCalibration` | `xlerobot_feetech`: `servo_calibration_session.cpp`, `servo_calibration_server.cpp` | capture of servo zeros and ranges, across restarts |
| `OperatorConsole` | `xlerobot_hmi`: `operator_console.py`, `manual_control.py` | tasks, manual control and the stop of the base, from browsers |
| `EpisodeRecorder` | `xlerobot_dataset_tools`: `record_episode_node.py`, `episode_io.py`, `default_selection.py`, `review_node.py` | the files of a demonstration |
| `CollectEpisode` (extends it) | `xlerobot_commissioning/collection_node.py` | the coordinator of demonstrations |
| `RealtimeQueue` | `xlerobot_policy`: `realtime_queue.py`, `postprocess.py` | queue and gripper governor of a learned policy |
| `PolicyCapture` | `policy_capture_sink.py` | what takes the chunks of a policy |
| `ActPolicy` (extends both) | `act_policy_node.py`, `act_http.py` | the learned policy's goal and inference |
| `PersonSearch` | `xlerobot_task/person_search_node.py`, `xlerobot_perception`: `scan_for_person_node.py`, `frame_buffer.py` | the search, its child actions, the frames it judges |
| `ObjectDetection` | `detect_object_node.py`, `verify_grasp_node.py`, `frame_buffer.py` | pictures, slow models and forgotten transforms |
| `NamedNavigation` | `xlerobot_navigation/src/named_navigation_server.cpp` | the legs of a trip and what it leaves running |
| `ApproachTarget` | `approach_target_server.cpp` | driving up to a person, standoff after standoff |
| `AutoLocalizer` | `auto_localizer_server.cpp`, `localization_core.cpp` | the spin that finds the robot on the map |
| `GraspAndHandover` | `xlerobot_manipulation/src`: `grasp_object_server.cpp`, `handover_object_server.cpp` | the steps of the arm and the child each one has |
| `PoseServers` | `maintenance_preset_server.cpp`, `startup_ready_pose.cpp` | stored poses |
| `SpeakText` | `xlerobot_voice/speak_text_node.py` | speech, its processes and its cache |
| `VoiceAssistant` (extends it) | `voice_assistant_node.py`, `audio.py`, `intent.py`, `task_adapter.py` | the dialogue loop |
| `VisualCalibration` | `xlerobot_calibration_tools`: `head_auto_node.py`, `head_auto.py`, `handeye_auto.py`, `collector_node.py`, `sample_set.py`; `calibration_pose_server.cpp` | a calibration sweep and its progress on disk |
| `UnitBundle` | `bundle.py`, `workbench.py`, `runtime_gate.py`, `public_cli.py` | the calibration store and its two users |
| `ArtifactCatalog` | `xlerobot_assets/catalog.py` | immutable versions as sequences of file steps |
| `SiteAssets` (extends it) | `xlerobot_commissioning`: `site_assets.py`, `site_manager_node.py`; handlers of `operator_console.py` | the draft of a site and its evidence |
| `CalibrationAssets` (extends it) | `calibration_assets.py`, `calibration_node.py` | the draft of a unit's calibration |
| `FetchDeliverTask_proofs`, `MotionGuards_proofs`, `ServoCalibration_proofs`, `ActPolicy_proofs`, `CollectEpisode_proofs`, `OperatorConsole_proofs`, `Capabilities_proofs`, `Commissioning_proofs` | | theorems and proofs |
| `MC*` | | instances for TLC |

`PROJECT.json` maps every definition to the source lines it stands for, and
lists the runs, the mutants that show each property can fail, the hazards and
the theorems.

    tlc -workers 2 -config MCTaskOwnership.cfg MCFetchDeliverTask
    tlapm FetchDeliverTask_proofs.tla


## 1. Inventory

The system is a ROS 2 workspace: one process per node, actions for anything
that takes time, services for switches, topics for measurements, commands and
events. Nodes have no shared memory, except through files. Inside a node,
callbacks run on executor threads and share state under locks.

    browsers -- operator console --ExecuteTask--> task node <-- voice assistant
                  |   |                             |  nine child actions
                  |   |SetBool manual reservation   v
                  |   +------------------------> navigation, perception,
                  |teleop, stop                  grasp, person search, approach,
                  |                              speech, handover, localization
                  v                                 |
             drive safety node <---- velocity ------+ (Nav2, docking)
                  |                                 |
                  v                                 v  policy goals
             base controller        ACT policy --chunks--> streaming executor
                                                              |
                                     controller manager <-----+ --> arm

    operator console --> collection coordinator --> recorder --> episodes
                     --> site manager, calibration tools --> drafts --> catalog
                     --> calibration workbench --> unit store --> runtime --> gate

Each entry below gives the state, the operations, what is hard, and what
makes the component correct.

**Task node** (modelled). State: the ownership flag, the manual reservation,
the blocked reason, the last stop state, and one execution thread per goal with
the child operation it waits for. Operations: `goal_callback`,
`cancel_callback`, `execute`, the manual-control service, the stop-state
subscription. Hard: admission reads state in two critical sections with
an unlocked sampling in between; a cancel or deadline can arrive
before the child has answered, while it runs, or when its result is in flight;
a result may not prove that the child stopped. Correct when a goal that is
reported as ended has nothing running, the robot has one owner, stages run in
order, the reported outcome is the true one, and a node that has lost track of
a child admits nothing more.

**Drive arbiter and drive safety node** (modelled). State: the latch, one timed
command per source, the previous output, the generation of the subscriptions.
Operations: three command callbacks, the stop service, the timer. Hard: samples
queued in readers outlive the latch; sources fall silent; the acceleration limit
depends on the time since the last tick. Correct when a latched stop holds,
nothing sent before it was cleared moves the base, silence stops the
base, and its speed changes smoothly.

**Streaming executor** (modelled). State: the reservation, the active session
(queue, counts, fault, final flag), the controllers' mode. Operations: goal,
cancel and chunk callbacks, and the worker thread. Hard: the worker and the chunk
callback interleave between two critical sections per round; controller
switches time out but may be served later; producers send anything. Correct
when there is one session, samples are played in order and none is lost, success
means the whole stream was played, the normal controllers come back, and every
goal ends.

**Operator console and manual control** (partly modelled). State: the console's
own task, an external task, the identities it owns, the manual owner, the
teleoperation session, the stop of the base as seen and as asked for.
Operations: one coroutine per request on the web thread, subscriptions and
results on the ROS thread. Hard: goal responses, events, feedback and results of
one task arrive in any order; identities are learned from events; two
locks guard one decision; services answer after their caller gave up. Correct
when motion has one source, the console never takes a running task for
finished, and the stop drains all it started. Health, history, the collection
pages and the web client only show state.

**Episode collection coordinator, recorder and review** (modelled; the batch
conversion is not). State: the session and what it may own (leader torque,
controllers, teleoperation, the recorder), the cleanup block; in the recorder
the reservation, flags, samples, files. Hard: cleanup that fails halfway,
services served late, a sampling timer beside finalization, restarts. Correct
when an episode that is reported succeeded is complete on disk, a published one
never changes, a goal that has ended leaves nothing enabled, and every goal ends.

**ACT policy node, realtime queue and capture sink** (modelled). State: the outer
goal, the executor goal, the inference thread, the queue of predicted rows, the
gripper governor, the sink's session. Hard: cancellation while the executor's
goal is being accepted; predictions aligned to stale feedback; a queue that is
not refilled once the gripper closes; ownership released before the executor
has ended. Correct when no row is commanded late, no stream is left open, and a
gripper that began to close closes.

**Person search and its perception server** (modelled). State: the active goal
and one child operation; the latest frames. Hard: waits for an end that may
never come, frames captured while the robot moved. Correct when it never ends
while its child may move the robot, judges only still views, and tells its
parent what it saw.

**Object detection and grasp verification** (partly modelled). State: the frames,
the stages of a detection, the transform buffer. Hard: pictures arrive late,
models take longer than transforms are kept. Correct when what is judged is what
is there. The models' answers and the geometry are numeric.

**Named navigation server** (modelled). State: the trip's place, the leg on its
way, the goal of the action server. Operations: predock with one backup and a second
attempt, spin, correction, docking. Hard: a leg given up before it was accepted;
cancel requests whose end is not awaited. Correct when the next leg starts on a
robot at rest, an ended trip has asked everything it knew of to stop, and every trip
ends.

**Approach target server** (modelled). State: the standoff on trial, whether it
backed up, the child operation and the function that cancels it. Operations: goal and
cancel callbacks, a worker that plans, drives, backs up once, takes the next
standoff. Hard: a child's result and the request to cancel it cross; a drive given up
before it was accepted. Correct when a drive that was known to run is never left by
a goal that goes on, and every goal ends.

**Auto localizer and scan-map consistency** (partly modelled). State: the spin, the
latest pose of AMCL, the convergence tracker. Hard: poses come late or stop, and the
tracker counts time between the ones it sees. Correct when a spin is only called
converged on a pose that stayed good, and the robot rests before navigation is
activated. The scan-map score is numeric.

**Grasp object and handover servers** (grasp partly modelled, handover modelled).
State: the step, the attempt, the child operation, the verification and the gripper's
measurement beside it. Operations: goal and cancel callbacks of three actions, a
worker per goal. Hard: the verification and the measurement end in either order; a
cancellation while a child is accepted, or has just ended. Correct when the arm moves
only after its last motion ended, and a grasp is reported on the verdict of its last
attempt. The plan validator is geometry.

**Maintenance presets and startup pose** (modelled). State: the trajectory on its way;
for the startup pose also the legs that are left. Hard: as above. Correct when a leg
starts after the one before, and ready means that nothing moves.

**Voice assistant and speech output** (modelled). State: the dialogue's place, two
calls of actions, the speech process, the cache. Hard: calls that are given up
and go on; a process ended by a callback before its thread knows. Correct when
every running task is minded, nothing partial is cached, the assistant does not
record itself, and it listens again.

**Visual calibration sweep and sample collector** (modelled). State: a progress
document saved under a lock, the captured rows, the draft. Hard: motion and
capture requests that are given up and served later, restarts, job names that
repeat. Correct when rows are of an arm at rest in the pose they name, a draft
rests on enough of them, the motion has an owner and the sweep ends.

**Unit calibration store, workbench and gate** (partly modelled). State: versions,
the active pointer, the rendered runtime, the draft, receipts, one session.
Hard: file steps that raise or die in the middle, a command line that takes none
of the workbench's locks. Correct when what a launch accepts is the selected
version, an operation is all or nothing, and what is shown as current rests on
its predecessors.

**Site assets, calibration assets and artifact catalog** (modelled; export is
not). State: files. Hard: a crash between any two file operations. Correct when
a published artifact is whole and its evidence is of what it is published with.

**Servo calibration session and server** (modelled). State: a capture per
joint, the phase and active group, the released groups, a session file, an
immutable result. Operations: nine commands, the sampling timer, start and exit. Hard: any
order of steps, encoder faults, restarts. Correct when every saved session can
be restored and a published result is exactly the completed session.

Not modelled, and why: section 6.


## 2. Plan

The order was by what the code could do to the robot, then by what it could do
to the data the robot is built on.

1. `FetchDeliverTask` with its abstract specification, `DriveSafety`,
   `StreamingExecutor`, `ServoCalibration`; their proofs.
2. `OperatorConsole`, against what a task server and a voice client may do.
3. `EpisodeRecorder` and `CollectEpisode`, composed.
4. `RealtimeQueue`, `PolicyCapture` and `ActPolicy`, composed.
5. `PersonSearch`, `ObjectDetection`, `NamedNavigation`, `SpeakText` and
   `VoiceAssistant`; `ApproachTarget`, `AutoLocalizer`, `GraspAndHandover`,
   `PoseServers`.
6. `VisualCalibration`, `UnitBundle`, `ArtifactCatalog`, `SiteAssets`,
   `CalibrationAssets`.

All of it is done, and every safety property of the passing runs is proved too
(`RobotRestarts` as the theorem it is an instance of). Next in line: the composition
of `ActPolicy` with `StreamingExecutor` instead of its stand-in.


## 3. The modules and the code

### FetchDeliverTask

One `pc` per goal says where the thread that serves it stands; the callbacks of
other threads are separate actions. Between two actions, the code holds no lock and
any other thread may run.

| Actions | Code |
| --- | --- |
| `GoalReject`, `GoalClaim`, `LiveReadiness`, `GoalAccept`, `GoalGiveUp` | `goal_callback`: first lock, sampling, second lock |
| `OnStopState`, `ManualAcquire`, `ManualRelease` | `_on_stop_state`, `_set_manual_control` |
| `CancelCallback`, `CancelCommit` | `cancel_callback`, and the action server's own transition after it |
| `Execute`, `CallFails`, `CallSends` | `execute` up to the wait, `_call`, `_run_child_action` |
| `GoalResponse`, `ChildResult`, `WaitGivesUp` | the two calls of `_wait_future` |
| `Settled`, `SettleFails` | `_wait_for_scan_map_consistency`, `_wait_for_detection_head` |
| `CancelChild`, `CancelResult` | `_cancel_operation_and_wait` |
| `BlockAndDrain`, `DrainSend`, `DrainResult` | `_block_after_incomplete_cancel`, `_drain_operation_until_terminal` |
| `Finish`, `HandleFailure`, `Terminate`, `Release` | the end of `execute`, its except and finally clauses |
| `ChildAnswer`, `ChildFinish`, `DeliverSend`, `DeliverResult`, `SendFault`, `ResultFault` | external: child servers and the futures of `rclpy` |

Abstractions. A deadline may pass whenever the code reads the clock. The rest of
readiness (diagnostics, cameras, joint state) is a free choice. A child ends with
success, an error, or canceled. A success whose payload the code refuses (an error
code, another backend) is the outcome `error`. The acknowledgement of a cancel request
is not modelled because the code does not use what it says. Each call of the library
that the code guards with a catch clause may raise (`SendFaults`), the request to
cancel among them (`CancelRaisesOp`): while the goal cancels its child that blocks the
node, while it drains it is logged, and the thread waits for a child that was not
asked. Left out: request validation (a refused request changes nothing), RUNNING
events and feedback, the observation attached to events, the readiness topic, and
shutdown: once `rclpy.ok()` is false every wait returns and the process ends.

`TaskLifecycle` is the abstract specification: an owner, a phase per goal, the
set of goals with something moving, and a flag that closes the server for good.
The refinement maps the owner to the goal whose `pc` is between admission and
release, and the phase to the action server's status.

### DriveSafety

The node runs on a single-threaded executor, so each callback is one action.
What is nondeterministic is the order of callbacks, sends and time. A command
carries the generation of the reader it was queued in. `ClearStop` discards the
readers' queues but leaves, for any set of readers, a sample that the executor
had already found ready: the generation check in the callback exists for this.
One speed stands for the linear and the angular component, which the code
treats alike; times and speeds are integers. Ages count time since
reception, as the code does: a command that waited in a queue is younger than
its message. The stop state's republication and the diagnostics are left out.

### StreamingExecutor

The worker's program counter moves from one critical section to the next.
`Take` and `EndRound` are the two locked parts of a round of `run_session`,
`CheckSession` and `PublishSample` the unlocked ones, and `OnChunk` is the
callback. `ListControllers`, `SwitchTimesOut` and `VerifyMode` are
`switch_mode`; `ServeSwitch` is the controller manager, which serves requests
in order, possibly after the worker has given up. A chunk is its session, its
sequence number, its length, whether it is final, and whether everything else
the validator looks at is in order. The queue horizon is counted in
samples. Left out: shutdown, feedback, the counters of the result.

### ServoCalibration

The node spins on one thread, so each command is one action, with the samples
it reads as its input and the success of its save as its outcome; the exception
is `FINALIZE`, which is cut where a crash shows (`Finalize`, `SaveFinalized`).
The functions of the session are operators on a session record (`Observed`,
`ZerosSet`, `Started`, `Finished`, `Paused`, `Reset`, `Finalized`), and
`Persisted` and `Rejected` are the two ends of `step`: a handler that returns
saves, and a handler that throws saves too while a group records.
`Refuse` stands for every command that is refused with nothing changed.

`session.yaml` holds a session record; a missing file is `NewSession`, since
starting without a file and restoring that record are the same. `Startable` is
what the constructor checks, and when it fails the server does not start.
`Fresh` is `tools/calibrate capture servo --fresh`, which moves both files away
before the server starts. `Faults` says what may fail: `"save"` is replacing
`session.yaml`, `"unlink"` the removal of the temporary file after the result was
linked to it. Left out: positions and the online flag (every command that looks
at them has just read the group, so they are its input), the origin of a zero,
layout checks, messages, and the ports. A rename is taken to survive a power
loss whole; the code does not sync files.

### OperatorConsole

The console has two threads. On the web thread a request is a coroutine that
gives way at every `await`; on the ROS thread events, feedback and results come
in. `SendGoal`, `Resume` and the steps of a halt are stretches of one coroutine
between two awaits; the locks are held over a whole such stretch and are not
variables. A service is a queue of calls that is served in order (`calls`, `stops`,
`cancels`); its answer may come after the caller has given up, `MaxLate` times. With
`Faults` a goal's future may raise, and a result may carry no terminal status.
Events are delivered in order, at any time. The task server, the
drive-safety node and the manual servers are external and small: they do what
`FetchDeliverTask` and `DriveSafety` promise, and a voice client sends goals too.
`Content` says which goals ask for the same thing, because the console
recognizes its own task in an event by comparing contents. `Requests` says which kinds of
request a behaviour may have.

### EpisodeRecorder and CollectEpisode

The recorder's goal has a thread of its own beside one callback group for the
sampling timer and the two services; a timer that has taken a sample may be
overtaken before it appends it (`AppendSample`). An episode on disk is what its
metadata say (`recording` to `complete`) and its samples; beside it there is a
review. `RecorderDies` ends the recorder anywhere. The coordinator's `pc` runs through tables of calls (`Calls`),
waits for a person (`Waits`) and releases (`Releases`), so that one action per
kind stands for the many places that do the same thing. A service call
that timed out is `overdue`: it was lost, or it is served later, before a newer
call of the same service. `MaxFaults` counts what goes wrong. Left out: leases (they only take
away), the alignment arithmetic, and restarts of the coordinator, after which its
in-memory ownership is gone by design and the leases decide.

### RealtimeQueue, PolicyCapture and ActPolicy

A row is the step it was predicted for and whether it closes the gripper.
`Merge` aligns a prediction with the end of the queue and blends; a blended row
keeps the earlier step, which is the pessimistic choice for `NeverLate`.
`EmitRow` takes a row through the governor (`Govern`), with the ramp and the repetitions. `PolicyCapture` is
the sink that takes the place of the executor in a dry run; a live session is
the same chunk admission with samples executed one by one; a chunk is kept with
the number of samples up to its end, which `sample_count` adds up. `ActPolicy` has the
goal's thread, the inference thread and the feedback, which lags behind by any
number of rows. Observations, joint values and the HTTP protocol are reduced to
the step at which a prediction continues (`SensorLag` is the age of the
observation in steps). Observations come in while an earlier prediction waits to be
merged, and the next prediction then replaces it, as in the code.

### PersonSearch, ObjectDetection, NamedNavigation, SpeakText, VoiceAssistant

`PersonSearch` goes through turns and pans; `Coordinator` is one stretch of its
thread between two waits. A child that was given up is drained, and a drain
that cannot end holds the goal (`childCall = "held"`); a request to cancel may raise, so
that a child is drained that was not asked. The frame buffer keeps, per
stream, the latest frame: whether the robot stood still, and whether it was
captured since the view began. `ObjectDetection` counts time in ticks:
a frame's age, what the models spent, what the transform buffer keeps.
`NamedNavigation` has one leg at a time on its way (`leg`) and what was given up
in `adrift`; of several trips, only the leftover of the last is kept.
`SpeakText` has a player or generator process beside the goal's thread, and a
cancel callback that ends the process before the thread knows. `VoiceAssistant`
loops from wake word to prompts with at most two calls at a time: the task's, which
has its own thread, and speech. What it gives up goes on as
`"abandoned"`.

### ApproachTarget, AutoLocalizer, GraspAndHandover, PoseServers

These servers, and `NamedNavigation`, are C++ workers with one child action at a
time. The `active` flag is `cancel_active_`, the function that asks the child to
stop; what a goal gives up goes to `adrift`, with whether it was seen to run and
whether it was asked to stop. A child that is given up before its acceptance is known
is abandoned unseen: nobody takes the answer.

Two facts of the action library are modelled because the code meets them. The client
forgets a goal when its result has come in, and `async_cancel_goal` on a forgotten
goal throws; the server throws when `canceled()` is called on a goal that nobody asked
to cancel. Where the worker has a catch clause the goal ends with an internal error;
in `handle_cancel`, in the workers of `NamedNavigation`, `AutoLocalizer` and
the preset server, and in a catch clause itself, nothing catches and the process ends:
`pc = "dead"`. The properties say what is still true then.

`GraspAndHandover` is a table of routes: `Route` is the sequence of steps of a goal's
kind, and one action per kind of step stands for the many places that do the same.
`ApproachTarget` walks the candidates of the standoff; `Nav2` may fail, refuse or stay
silent. In both, `handle_cancel` copies `cancel_active_` under its mutex, and calls
the copy after it has let go of the mutex, which is two actions (`CancelArm`,
`CallArmCancel`; `CancelApproach`, `CallApproachCancel`). Between them the worker goes
on; the field `call` says whom the copy will ask: the `child`, a `stray` one that the
worker has given up meanwhile, or one that is `gone`, because its result was taken:
that call ends the process, also when the next child has been sent. No other callback
runs in between: the nodes create no callback groups, and the default one is mutually
exclusive, so that no goal is admitted and no result comes in. The other servers of
this section do nothing in `handle_cancel` but accept. `AutoLocalizer` counts time in
ticks; `previous` and `hold` are the tracker's own measure, `bad` a history variable:
the time since a pose was seen that was not good. The two differ. After a gap that is
longer than `amcl_pose_timeout_s` the tracker is reset, and the next pose adds the gap
to the new hold, so one good pose after a long silence is enough to converge. What
holds, and is stated (`LocalizationIsEarned`), is that no pose that was *seen* in that
time was bad.

### VisualCalibration, UnitBundle, ArtifactCatalog, SiteAssets, CalibrationAssets

`VisualCalibration` keeps in one record the progress document, which memory and
disk agree on between two steps, and what the process does not know: requests
that were given up and may still be served. `RestartNode` is a new process on the
same file.

A store operation of `UnitBundle`, `SiteAssets`, `CalibrationAssets` is a *program*:
a sequence of file steps. Starting the operation loads it; `FileStep`,
`ManagerStep` or `ToolStep` executes its first step; a death (`ProcessDies`,
`ManagerDies`, `ToolDies`) drops what is left; and in `UnitBundle` a step may raise
(`StepRaises`), which replaces what is left by the rescue the code has for it. The
two users of the unit store (workbench and command line) have one program each
and interleave. `ArtifactCatalog` holds the steps of creating and selecting a
version, which the site manager and the calibration tools share. Values are revision
numbers, so that "the same configuration" is equality. In `UnitBundle` two
components stand for all: the servos, and the head camera that was solved on top of
them.


## 4. Runs

| Run | Instance | What it shows |
| --- | --- | --- |
| `task_ownership` | a live and a dry goal, two stages (localize, hand over), all faults | ownership, proof of stop, stop latch, refinement |
| `task_pipeline` | one live goal, all nine stages, all faults | order, honest outcome, termination |
| `drive_safety` | two publishers, depth 1, gap 2, one clearing | latch, no revived command, dead man, smooth output |
| `arm_streaming` | two goals with a chunk each, or a goal and a dry run with sequence numbers to 2, two samples per chunk, horizon 3 | one session, whole streams, controllers restored, termination |
| `servo_restart` | an arm joint and a head joint, three encoder positions, no failing save, crashes anywhere; or a leader of one joint whose saves and removals may fail | saved sessions restore, the server restarts, finalized means published |
| `servo_result` | one joint, removals may fail | **violation**: a published result is rewritten |
| `operator_console` | a goal of the console and one of a voice client, the stop, joystick and manual actions | motion has one source, the own task is tracked and ends, the stop drains |
| `collection` | a pick episode and a dry walk, three samples, two faults | nothing is left behind, files are as reported, every goal ends |
| `act_policy` | two goals, three predictions and one, ramp of 2 | no row late, no stream open, closing ends |
| `capabilities` | ten parts, one at a time: search, detect, verify, voice, drive, approach, localize, arm, preset, ready | current senses, nothing left behind, true verdicts, everyone comes back |
| `commissioning` | sweep, store, workbench, site and unit, one at a time, with a death and an exception | true evidence, whole selections, owned motion, sweeps end |
| `workbench_reuse` | the workbench alone, with four revisions | **violation**: a copied calibration is certified |

Two runs are findings. In `servo_result`, `atomic_yaml` publishes `result.yaml` as a hard
link to `result.yaml.tmp` and then removes the latter. If the removal fails, the
command throws, the session is not finalized, and the two names are one file. A
group can then be reset and captured again, and the next `FINALIZE` truncates and
rewrites the temporary file, that is the result, before its link is refused. The
comment beside the link says that an existing result is refused. It takes
a failing removal; without one the result stays, because the
session is finalized in memory at once and a restarted server adopts the result
or does not start.

In `workbench_reuse` a head calibration H1, solved on the servo draft S1, was published.
The servos are measured again (S2), a sweep is run to its end on S2, and its session
is stopped. `reuse` copies H1 from the active version into the draft, rightly without
a predecessor in its receipt. Then a session is resumed: its progress says COMPLETED,
on S2, so nothing is solved again, and `save_result` accepts it. That checks the
predecessor of the progress document, which is S2, but not that the draft is what the
sweep saved, and so writes a receipt that certifies H1 on S2; the page shows it as
current (`CurrentIsCompatible`; a draft that is accepted while there is no servo draft is
not covered). The comment in `reuse` and
`docs/en/calibration-workbench.md` say that such a copy is not certified. What the code
does keep is `MeasuredIsCompatible`, the same of every calibration that was not copied
back (the history field `reused` records those that were); it is in
`EvidenceIsTrue`. The run `commissioning`, with three revisions, is too short for the
trace; the divergence came up when the proof of `CurrentIsCompatible` failed.

`capabilities` and `commissioning` hold servers that do not talk to each other; the
variable `part` picks one for a behaviour, so their states add up and do not
multiply, and one property names what all of them owe (`NothingIsLeftBehind`,
`SelectedIsWhole`): its conjuncts are defined in the modules.

**Bounds and why they suffice.** Ownership is a relation between two goals, so
two goals give every conflict; the third contender, manual control, is always
there. The short pipeline has a first stage that may be skipped and that
settles, and a last one, so a goal has an earlier child and a current one. The
full pipeline with one goal covers the order of stages and the stages that are
left out. In `DriveSafety` one clearing separates before from after, depth 1
makes readers drop samples, and a gap of 2 is longer than one source's timeout
and as long as the other's. `MaxClears` only bounds the generation counter. In
`StreamingExecutor` two chunks after the first are enough for a gap, a duplicate
and a chunk after the final one; horizon 3 is reached by two chunks; two sessions
give a late request of one a chance to hit the next (longer queues of late
requests are the subject of a theorem, see section 5). `MaxLoops` stands
for `max_duration`: both the bound of the counter and the code's own limit. In
`ServoCalibration` two groups give every change of the active group, two joints
of one group a frame that is only partly read; with three positions and
`WrapLimit` 1, a jump from one end to the other is a fault, as a change of more
than 2048 of 4096 is. The run holds a second instance of the module, a
robot with two groups whose saves succeed (`RobotRestarts` is `RestartRecovers` of it); the leader,
whose files may fail, has one joint, since which step fails matters there and not which joint; section 5
proves `FinalizedIsPublished` for any joints and faults. With failing saves, `RestartRecovers` does not hold
and is not claimed: the result may have been published from a session that
never reached the file.

In `OperatorConsole` one own goal and one foreign goal are what an event can be
confused between; one late answer is what can meet the next request; tasks are
driven in different behaviours from the manual parts except for the stop and the
joystick. The goals differ in content. With identical contents
TLC finds `OwnGoalIsTracked`, `HaltDrainsEverything` and `OwnTaskEnds` violated (the
voice client's goal is adopted for the console's) while `ManualExcludesTask` still
holds: the code documents matching by content, so the instance excludes it. The other
two bounds exclude behaviours of the code that TLC shows when they are raised, and
that deserve a fix:

- With `MaxLate = 2`, `ManualExcludesTask` is violated. A clearing of the stop whose
  first release times out latches the stop again and then releases once more
  (`operator_console.py:2492`), whoever has the reservation by then. If the first
  release was served after all, another manual action can reserve and start in
  between; if the call that latches the stop times out as well, nothing keeps the task
  server from admitting a goal while that action moves. The comment at
  `fetch_deliver_task_node.py:486` relies on the console to serialize acquire and
  release. Section 5 proves that it takes two calls that time out.
- With two own goals (`Own <- OwnAndVoice`), `OwnGoalIsTracked` is violated. A terminal
  event of any task the console ever owned ends the record of whichever task is active
  (`operator_console.py:757`), and so does a result. A result travels apart from the
  events, so that the first task can be finished, and the next one submitted, before
  the events of the first are delivered. They set the new record to RUNNING and end
  it, and its goal is sent and runs without a record.

In `CollectEpisode` two faults are the least that make a cleanup fail after a step
failed; three samples are more than the recorder needs to
publish. `ActPolicy` has a queue of three rows that refills at one, a ramp of
two and one repetition, which is the edge of `RampAssumption`; predictions of
four rows overlap the queue. In `ObjectDetection` the transform history (4) is
shorter than the models' timeouts together, as the defaults (10 s against
30 s and more) are. In `ApproachTarget` three standoffs are one that is tried
again after the backup, one that is not, and a last one. In `AutoLocalizer` a pose
timeout and a hold of two ticks each let a gap be shorter and longer than either.
The two attempts of a grasp are the code's own number. In `VisualCalibration` three poses, two of them fitted,
are a proper split. One death, one exception and two operations are enough for an
operation to find what another left; `MaxRevisions`, `MaxPoses`, `MaxMaps` and
`MaxSaves` bound the values that can be told apart, and the `store` part takes one
revision less. A symmetric pair of places shows that evidence is per place.

**Exceptions the properties name.** Each is a case the code itself gives up on, and is
stated where the property is: calibration rows and captures of a killed process
(`orphan`); evidence passed by hand, or touched between launch and record, and places
a death tore (`PublishedPlaceWasReached`); a component whose status a death left stale
(`PublishedPassed`); drafts saved on the command line in mid-session
(`CurrentIsCompatible`) and copies of earlier versions (`MeasuredIsCompatible`); legs,
tasks and speech that were given up before their acceptance was observed, and the
un-awaited end of a backup or spin (`TripIsMinded`, `TaskIsMinded`); a backup that was
asked to stop, and a drive whose acceptance was not observed (`ApproachIsMinded`); a
spin given up before its acceptance, or asked to stop by a goal that reports its
cancellation (`LocalizerIsMinded`); motions of the arm and trajectories given up
before their acceptance (`ArmIsMinded`, `PosesAreMinded`); a process that died of a
cancellation which had copied the function of one child and called it when the next
had been sent (`ArmIsMinded`, `ApproachIsMinded`); a child that is drained after the
request to cancel it has raised (`GoalEndsIfChildrenCooperate`); two lost calls of the
same switch (`NobodyElseMovesTheArms`); switches of three goals that failed
(`NormalModeAfterSession`); an acceptance the console could not observe
(`OwnTaskEnds`).

**Deadlock** is checked in the task, drive, servo and collection runs. The others
say `CHECK_DEADLOCK FALSE`: their clients have a bounded number of requests,
sessions, rounds, predictions or operations, and the system stops when all of them
were served. (`servo_result` and `workbench_reuse` are looked at for their violations only.)

**Fairness.** `FetchDeliverTask!FairSpec` assumes weak fairness of each goal's
`ExecuteStep`, of the answer to a goal that was claimed, and of a cancel request
that was received. The node runs on a multi-threaded executor with reentrant
callbacks and every bounded wait of `execute` polls a clock, so its thread is
never stopped by something it waits for, except in the drain, where the
disjuncts are disabled until the future is there. Nothing is assumed of
children in `GoalEndsOrBlocks`. In `GoalEndsIfChildrenCooperate` they answer,
their responses arrive, and a child that was asked to cancel ends: a child
that was not asked may run forever. Hence the two exceptions of that property: a goal
that holds on because it cannot observe its child, and one that drains a child whose
request to cancel has raised (`DrainsUnasked`). `StreamingExecutor!FairSpec` assumes only that
the worker's thread runs; the controller manager need not serve anything.

`OperatorConsole!FairSpec`: coroutines are resumed, delivered futures run their
callbacks, and the task server admits or refuses, finishes and closes its goals,
which is what `FetchDeliverTask` promises. `CollectEpisode!FairSpec`: the threads of
the goal and of the recorder run, and children end or refuse within their timeouts;
no service is fair and no person ever answers. `ActPolicy!FairSpec`: the goal's
thread runs, chunks and feedback are delivered, the executor executes what it
took and ends a session that failed; that a deadline passes is not assumed. `SearchFairness` assumes the
coordinator, the view server and the motions of controllers that accepted them;
`VoiceFairness`, `TripFairness`, `ApproachFairness`, `ArmFairness`, `PoseFairness`,
`LocalizerFairness` and `SweepFairness` only the node's own threads:
their waits have deadlines. One action has strong fairness, `RunOut` of
`AutoLocalizer`: the deadline of the spin is one point in time, which passes however
often the worker is elsewhere when it does. The other runs state safety only.

**Mutants.** Each property has a faulty variant of a modelled definition beside
the original (`...Trusting`, `...Stale`, `...Deferred` and so on) under which TLC
finds it violated: a dropped check, a missing reset, a swapped order.

The type invariants document the variables; no run lists one. For `FetchDeliverTask`,
`DriveSafety`, `ServoCalibration`, `RealtimeQueue` and `CollectEpisode` they are
theorems; for commissioning and the capability servers the records of the parts are
conjuncts of the proved invariant.


## 5. Proofs

`FetchDeliverTask_proofs` proves, for every set of goals, every pipeline that
`PipelineAssumption` allows and every choice of faults: `TypeOK`,
`ParentOutlivesChild`, `SingleOwner`, `BlockedAdmitsNothing` and
`AcceptedWithStopClear`. None of the middle three is inductive. The
inductive invariant adds, per goal, what the thread's place says about its child
operation: a child may move only while its call runs, and what the two futures
say of it is true (`ChildIsWatched`, `FuturesAreTrue`), and the status follows
the place (`StatusFollowsControl`); and `FlagCoversGoals`: a goal that is being
served, one at most, has the ownership flag, and the flag excludes manual
control. `ParentOutlivesChild` follows because a terminal status is only given at
a place where nothing moves.

It also proves the refinement, `Spec => Lifecycle!Spec`: with the same invariant, each action maps to one step of `TaskLifecycle` or a stutter.

For `StagesInOrder` and `OutcomeIsTruthful` the same invariant is extended by `OutcomeInv`: the stage a goal is at splits its
pipeline into stages that succeeded and stages that were never called
(`StageSplits`); the code `SUCCEEDED` is only set behind the last stage
(`SuccessIsEarned`); what was announced is what the thread is about to report
(`AnnouncementHolds`).

`MotionGuards_proofs` is about the two programs that every motion goes through. Of
`DriveSafety` it proves all four properties of the run and the types, for any
speeds, timeouts, depths and bounds. The invariant adds `FreshAtTick`, that a
driver's age is covered by its timeout plus the time since the last tick, and
`PreviousIsOutput`, that the limit is applied to what was really published.

Of `StreamingExecutor` it proves `OneSession`, `StreamIsWhole` and
`NormalModeAfterSession`, for any goals, chunks and bounds. `OwnerInv` ties the reservation and the active session to the
place of the worker's thread. `SInv` adds, for a session in its loop, that the samples
published last, in hand and queued form one chain that starts at the first sample
and ends where the next chunk must continue (`InLine`); and that the worker's copies
are true: once it has seen the final chunk there is nothing left that it does not
know of (`LoopStream`). `StreamIsWhole` says nothing of these copies, which is why
it is not inductive. Five lemmas about chains of samples carry the steps that queue,
take and publish.

The third property came out of its proof with one more exception. A switch whose wait
times out leaves its request with the controller manager
(`controller_mode_manager.cpp:73`), and nothing withdraws it. Three requests to policy
mode that were left that way, and a late one back to the normal controllers
among them, can let a later goal find the arm in policy mode, start at once, have the late switch back served during its
session, find the normal controllers active when it ends, report success, and
then lose them to the last of the three. TLC finds the trace with five goals; no
run has as many, and the property had no such exception before. Three goals is exactly
what it takes, which is what `SwitchInv` counts: a request to policy mode belongs to a goal
that failed, or waits last in the queue (`AskedAndFailed`); while the arm is in
policy mode or a goal has not come back from it, a request to policy mode that is
still there means that another goal's was served late, and one behind a
request to the normal controllers means that two were (`Residue`).

`ServoCalibration_proofs` proves, for any joints, groups and encoder range, that
types hold, that what was saved always passes `restore`
(`SavedSessionRestores`), that only released groups record
(`RecordingIsReleased`), and that a finalized session is the published one whatever
fails (`FinalizedIsPublished`). The invariant of the first two is `Sound` of the
session in memory and of the one in the file: restorable, and a recording group has
its zeros, without which a sample could leave a range with no zero. One lemma per
function of the session says that it preserves `Sound`. `FinalStays` adds that a
finalized file belongs to a finalized session. When nothing fails
(`Faults = {}`), `RestartRecovers` is proved from `Current`: outside of
recording the file is the session, and a session with a result is finalized.

`ActPolicy_proofs` proves all three invariants of the run and the types. For the queue
alone (`QueueSpec`, whatever predictions come in): `CloseCanEnd`, because while the
gripper closes, ramp, repetitions and rows left add up. It needs `RampAssumption`,
that the ramp is no longer than the repetitions and one row; the code's parameters
can be set otherwise and are not checked (the defaults are 8 and 30). For the
policy with what takes its chunks, for any sizes of queue, prediction, chunk and lag:
`NeverLate` and `EveryStreamIsEnded`. The policy derives the step a prediction
continues at (`_future_step`) from feedback that may be arbitrarily old, so the
argument is an account of every row: what the executor has taken is what was
emitted, less the rows in hand and the one chunk that may be under way
(`TakenInv`, `TransitInv`), and so is what is known of it once it is known to have
been taken (`KnownInv`); nothing known is ahead of the executor (`FeedInv`); a
session that succeeded has nothing left to emit (`FinalInv`), which is why the other
way out of `_wait_chunk_acceptance` does no harm. With that `FutureStep` is the end
of the queue, and blending keeps the rows in time (`BlendedInTime`).
`EveryStreamIsEnded` follows from `StreamInv`: a session with a chunk in hand or on
its way is streamed to, over, or asked to cancel.

`CollectEpisode_proofs` proves, for any episodes, any number of faults, late requests
and restarts of the recorder, the types, `EndLeavesNothing`, `OutcomeMatchesFiles`,
`NobodyElseMovesTheArms` and `PublishedForGood`. Nothing here is inductive by itself,
because the thread of the goal, the recorder, the switches with requests that are
served late and the three recovery services all move at once. The inductive invariant
has the recorder on its own (`RecorderInv`: the tape opens, samples and closes, and the
files follow the place of the recorder's thread), and for the coordinator: where the
thread is says what is owned (`Ownership`); what is not owned is off and no overdue
request will switch it on (`TorqueIsOwned`, where off is `Off`, the state and the
requests together); a recording belongs to the goal that owns it
(`RecorderIsOwned`); a child that may move is minded (`ChildrenAreMinded`);
teleoperation and the leader's controller exclude each other with what is overdue for
them and the timer that repeats one (`OneLeads`); what a late request can still undo
after a reset, counted in faults (`ResetHolds`); and what was reported, and what can
still be, agrees with the files (`ReportIsTrue`).

`OperatorConsole_proofs` proves `ManualExcludesTask`, for any goals, clients and
requests, in two forms: with any number of calls that time out, as long as a failed
clearing of the stop releases only once the stop is latched again and no call that
clears it is left (`RelatchedFirst`); and without that assumption until a second call
has timed out (`late <= 1`), where the first form's assumption is proved. Section 4
says what happens with a second one. The task server does not know
who reserves and who releases, so the argument is about its queue: for every request
of a motion in it, no release is behind it, or it will be refused because the
reservation is taken and nothing before it gives it back, or the stop is latched for
good (`NoReleaseBehind`); while a clearing waits or has the reservation, every
release in the queue is its own (`ClearingExcludes`); a call that clears the stop is
awaited or followed by one that latches it (`ClearIsFollowed`); so that a motion that
was granted its place keeps it, or the latched stop keeps tasks out in its stead
(`MotionIsCovered`). Every owner has at most one call in the queue
(`CallsHavePlace`), which is what the lock around the calls is for.

The same module proves `OwnGoalIsTracked` and `HaltDrainsEverything`. `TrackInv` says
that neither an event, a response nor a result says more than the server has done
(`EventsAreTrue`, `AnswersAreTrue`), that what the console records and takes for its
own was submitted by it (`RecordsAreOwn`), and that the record is open before the goal
is sent and until the console has learnt of a refusal (`SubmissionIsRecorded`).
Hence an open record is always the record of the goal that is awaited, and only news
of the end of an *earlier* own goal could close it. Section 4 shows that the code is
open to such news, so the first form assumes it away, for any number of goals
(`NoOldNews`: while a task is open no terminal event and no result of another own
goal is left); with one own goal the assumption holds by itself, which is the second
form and what the run checks. Both assume that no other client asks for what the
console asks for (`NoTwins`; goals of the console may ask for the same): the code
matches by content. That the stop finds no manual motion (`HaltDrainsMotion`) needs no
assumption, not even the one on clearing: `PlaceInv` follows the places of the two
owners that move the robot and not the reservation.

`Commissioning_proofs` proves all three invariants of the run `commissioning`, for
any number of poses, versions, places, workflows, revisions, operations, exceptions
and deaths, under `SweepAssumption` (some poses are fitted),
`StoreAssumption` (versions are positive numbers and one is installed) and
`CalibrationAssumption` (the base geometry is a workflow). The parts do not
interact, so the invariant is one for each.

- `SweepInv`, for `MotionIsMinded` and for rows and drafts: what the process knows is
  kept apart from what may still happen. A request that is not confirmed is marked
  before it is sent, and only its answer takes the mark away (`MotionMarked`,
  `CaptureMarked`); the place of the execute thread says where the arm is or will be
  (`OnItsWay`); rows and the jobs recorded as captured differ by at most the one in
  flight (`Accounted`). A draft is proven because a fit is frozen before any
  held-out pose is captured, so that the rows it is solved from are a prefix of the
  rows (`FrozenPrefix`, by induction on numbers). Rows of a killed process make
  the count unknown, which is why it is claimed of drafts without them. `FitRows` is
  a set of rows, which is all the code's selection by pose depends on.
- `SiteInv` and `UnitInv` say what the program of file steps that is under way has still
  to do, and what holds of the draft meanwhile: evidence that stands is of the pose and
  the map of the draft, or the next step forgets it (`DraftIsReached`); a status
  that says passed is of its component, or the next step writes it
  (`DraftPassed`). Lemmas about the catalog are shared: what it holds is good, and
  no pointer dangles wherever a death cuts a program (`ProgramStep`, `DeathStep`).
- `StoreInv`, for the store with both of its users: each directory renders a
  version that exists (`DirectoriesWhole`), what is moved in was rendered from a
  version that was read before (`ReadsFirst`), and `Promise`: an operation that
  nobody interfered with is at a point of the way to its target from where the steps left lead there, or, once
  a step raised, on the way back. A second exception during the rescue is the one
  case the code has no answer to; it counts as interference. `ResultsAreOf` ties
  receipts and progress to the servo draft that each revision was solved on.

`Capabilities_proofs` proves `SensesAreCurrent`, `NothingIsLeftBehind` and
`VerdictIsTruthful`, for any turns and pans, distances, streams, ages, timeouts,
utterances, standoffs and faults of the loop. The ten servers share nothing, so
there is one invariant for each, and besides `MCSpec`, where one of them is at work,
`CapabilitiesTogether` has all of them at work at once: any step of the
whole that is, for each server, a step of its own or none.

- `SearchInv`: a child runs only for a call that waits for it (`OneChild`); while the
  view server works the coordinator waits in its view and the robot stands still, and
  so do the frames captured meanwhile (`ViewStandsStill`). A frame that is stored is
  never fresher than what is on its way (`InOrder`), so that waiting for a fresh frame
  is enough. The stages that follow the last view are only reached
  there (`EveryViewTaken`), which makes "nobody" an answer about every view. That the nearest
  candidate is chosen needs lemmas about the least of a set of numbers
  (`LeastOfSome`), proved by well-founded induction.
- `SightInv`: the frame that is worked on is no older than what was spent on
  it, the allowed age and the allowed skew together; no image that is newer than the
  question shows another hand than the one that was asked about.
- `VoiceInv`: every call of the loop matches what the servers hold for it
  (`CallsMatch`), and a generator that succeeded has written its whole file.
- `TripInv`, `ApproachInv`, `ArmInv`, `PresetInv`, `ReadyInv`: where the worker is says
  whether its child can still be moving, and what was left behind was asked to stop.
  A dead process has a child that moves only if its `call` was `gone`.
  For the arm, a route leads from `verify` over `measure` and `judge` to `head`
  (`IsRoute`), hence a goal that is reported as grasped has a verdict (`Judged`).
- `LocalizerInv`: what the tracker has counted as held, plus the gap it would count
  next, lies after the last pose that was not good (`HeldSinceBad`).

`BlockedAdmitsNothing` and `RecordingIsReleased` are proved and in no run.

Only model-checked: liveness, which is out of TLAPS's reach. `RobotRestarts` is
`RestartRecovers` of an instance of `ServoCalibration` whose saves succeed:
`ServerRestarts` proves it for every instance, but the prover does not carry a theorem
over to an `INSTANCE`, so the theorem does not name the run's property.


## 6. Not modelled

- *Perception algorithms, calibration solvers, hover check, quality gates,
  the scan-map score, docking arithmetic, poses of standoffs, the grasp plan
  validator*: floating-point geometry. Where a decision hangs on them it is a free
  choice.
- *Servo bus driver, hardware interface, leader teleoperation, lidar driver*:
  serial protocols and control loops. What they leave open (no reply, expired
  leases) is an input elsewhere.
- *Policy replay check, batch conversion, catalog export*: offline tools over
  finished files.
- *Web client, history, command line of tasks; the health, history, collection and
  static pages of the console*: views, with no decisions.
- *Staging a draft for one capture, the leader's and hover session, and the session
  proxy of the workbench*: the capture sessions that are modelled stand for them.
- *Bringup, description, interfaces, inference services, shell tools*:
  configuration and neural networks.
- Everywhere: request validation that changes nothing, log texts, feedback
  that nobody decides on, and node shutdown except where files remain.
