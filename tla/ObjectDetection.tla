-------------------------- MODULE ObjectDetection --------------------------
(***************************************************************************)
(* Looking at one object: xlerobot_perception/detect_object_node.py, which *)
(* finds it and plans a grasp with one of three back ends, and             *)
(* verify_grasp_node.py, which looks whether the hand holds it.            *)
(*                                                                         *)
(* Both wait for pictures taken after they were asked, and then ask slow   *)
(* models.  Time matters: pictures arrive late and grow old, a picture     *)
(* becomes a place in the robot's frame by the transform of its moment,    *)
(* and the buffer of transforms forgets.  Time is counted in ticks.        *)
(*                                                                         *)
(* The models, the camera and the transform listener are external.         *)
(***************************************************************************)
EXTENDS Naturals, FiniteSets, FiniteSetsExt

CONSTANTS
    Streams,        \* color, depth and info of the camera
    SyncTolerance,  \* sync_tolerance_s
    MaxSensorAge,   \* max_sensor_age_s
    SensorTimeout,  \* sensor_timeout_s
    VlmTimeout,     \* vlm_timeout_s
    ClassicalTimeout,  \* of the segmentation and of the grasp planner
    TfHistory       \* how long the buffer keeps a transform

ASSUME DetectionAssumption ==
    {SyncTolerance, MaxSensorAge, SensorTimeout, VlmTimeout,
     ClassicalTimeout, TfHistory} \subseteq Nat

VARIABLES
    detect,      \* where the DetectObject goal is
    backend,     \* its grasp_backend
    since,       \* ticks since it began
    spent,       \* ticks it has waited for the model it asks
    frames,      \* the age of the last frame of each stream, if there is one
    picked,      \* the age of the frame it works on
    detected,    \* how the last goal ended
    verify,      \* where the VerifyGrasp goal is
    inHand,      \* whether the hand holds the object
    image,       \* the wrist images: the one in flight and the last one
    evidence,    \* the hand when the goal began, and in the chosen image
    verified     \* how the last goal ended

detection == <<detect, backend, since, spent, frames, picked, detected>>
verification == <<verify, inHand, image, evidence, verified>>
sight == <<detection, verification>>

Backends == {"act", "centroid", "gpd"}
Forgotten == TfHistory + 1
Older(a) == Min({a + 1, Forgotten})
NoImage == [hand |-> FALSE, new |-> FALSE, there |-> FALSE]
Images == [hand : BOOLEAN, new : BOOLEAN, there : BOOLEAN]

InitSight ==
    /\ detect = "idle" /\ backend = "act" /\ since = 0 /\ spent = 0
    /\ frames = [s \in Streams |-> {}] /\ picked = 0 /\ detected = "none"
    /\ verify = "idle" /\ inHand = FALSE
    /\ image = [flight |-> NoImage, last |-> NoImage]
    /\ evidence = [asked |-> FALSE, seen |-> FALSE] /\ verified = "none"

-----------------------------------------------------------------------------
(* DetectObject *)

(* goal_callback: one goal at a time.                                      *)
Detect ==
    /\ detect = "idle"
    /\ detect' = "snapshot" /\ backend' \in Backends
    /\ since' = 0 /\ spent' = 0 /\ picked' = 0 /\ detected' = "none"
    /\ UNCHANGED <<frames, verification>>

EndDetection(outcome) ==
    /\ detect' = "idle" /\ detected' = outcome
    /\ UNCHANGED <<backend, since, spent, frames, picked, verification>>
Proceed(stage) ==
    /\ detect' = stage /\ spent' = 0
    /\ UNCHANGED <<backend, since, frames, picked, detected, verification>>

(* A frame is stored some time after its moment.                           *)
StoreFrame(s) ==
    /\ \E a \in 0 .. MaxSensorAge + 1 : frames' = [frames EXCEPT ![s] = {a}]
    /\ UNCHANGED <<detect, backend, since, spent, picked, detected, verification>>

Ages == UNION {frames[s] : s \in Streams}

(* Mutant: the frames may be from before the action, and older.            *)
SnapshotStale ==
    /\ detect = "snapshot"
    /\ \/ /\ \A s \in Streams : frames[s] # {}
          /\ Max(Ages) - Min(Ages) <= SyncTolerance
          /\ detect' = "vlm" /\ spent' = 0 /\ picked' \in Ages
          /\ UNCHANGED <<backend, since, frames, detected, verification>>
       \/ EndDetection("canceled")
       \/ since = SensorTimeout /\ EndDetection("timeout")

(* wait_snapshot: frames of all streams, of one moment, after the action   *)
(* began, and current.                                                     *)
Snapshot ==
    /\ detect = "snapshot"
    /\ \/ /\ \A s \in Streams : frames[s] # {}
          /\ Max(Ages) - Min(Ages) <= SyncTolerance
          /\ Max(Ages) <= since /\ Min(Ages) <= MaxSensorAge
          /\ detect' = "vlm" /\ spent' = 0 /\ picked' \in Ages
          /\ UNCHANGED <<backend, since, frames, detected, verification>>
       \/ EndDetection("canceled")
       \/ since = SensorTimeout /\ EndDetection("timeout")

(* The language model finds the object, does not, or fails.  A requested   *)
(* cancellation is noticed after each model.                               *)
Ground ==
    /\ detect = "vlm"
    /\ \/ /\ detect' = "transform"
          /\ UNCHANGED <<backend, since, spent, frames, picked, detected,
                         verification>>
       \/ EndDetection("notFound") \/ EndDetection("backend")
       \/ EndDetection("canceled")

(* _act_target and the first half of _classical_geometry: the transform of *)
(* the moment of the frame.                                                *)
LookupTransform ==
    /\ detect = "transform"
    /\ \/ picked > TfHistory /\ EndDetection("forgotten")
       \/ /\ picked <= TfHistory
          /\ IF backend = "act" THEN EndDetection("found") ELSE Proceed("sam2")
       \/ EndDetection("unavailable") \/ EndDetection("notFound")

(* The segmentation, refine_object_cloud and the centroid grasp.           *)
Segment ==
    /\ detect = "sam2"
    /\ \/ IF backend = "gpd" THEN Proceed("gpd") ELSE EndDetection("found")
       \/ EndDetection("notFound") \/ EndDetection("backend")
       \/ EndDetection("canceled")

PlanGrasp ==
    /\ detect = "gpd"
    /\ \/ EndDetection("found")
       \/ EndDetection("backend")
       \/ EndDetection("canceled")

(* Time passes; every wait has a deadline.                                 *)
Deadline == CASE detect = "snapshot" -> SensorTimeout
              [] detect = "vlm" -> VlmTimeout
              [] detect \in {"sam2", "gpd"} -> ClassicalTimeout
              [] OTHER -> 0
SightTick ==
    /\ detect # "idle" /\ spent < Deadline
    /\ spent' = spent + 1
    /\ since' = Min({since + 1, SensorTimeout})
    /\ frames' = [s \in Streams |-> {Older(a) : a \in frames[s]}]
    /\ picked' = IF detect = "snapshot" THEN picked ELSE Older(picked)
    /\ UNCHANGED <<detect, backend, detected, verification>>

-----------------------------------------------------------------------------
(* VerifyGrasp *)

(* The arm takes or loses the object before anybody asks (external).       *)
Hand ==
    /\ verify = "idle" /\ inHand' = ~inHand
    /\ UNCHANGED <<verify, image, evidence, verified, detection>>

Verify ==
    /\ verify = "idle" /\ verify' = "image"
    /\ evidence' = [asked |-> inHand, seen |-> FALSE]
    /\ image' = [i \in DOMAIN image |-> [image[i] EXCEPT !.new = FALSE]]
    /\ verified' = "none"
    /\ UNCHANGED <<inHand, detection>>

(* A wrist image is taken, and arrives (_on_image).                        *)
TakeImage ==
    /\ image' = [image EXCEPT !.flight =
                    [hand |-> inHand, new |-> TRUE, there |-> TRUE]]
    /\ UNCHANGED <<verify, inHand, evidence, verified, detection>>
_on_image ==
    /\ image.flight.there
    /\ image' = [flight |-> NoImage, last |-> image.flight]
    /\ UNCHANGED <<verify, inHand, evidence, verified, detection>>

EndVerification(outcome) ==
    /\ verify' = "idle" /\ verified' = outcome
    /\ UNCHANGED <<inHand, image, evidence, detection>>

(* _fresh_image                                                            *)
FreshImage ==
    /\ verify = "image"
    /\ \/ /\ image.last.there /\ image.last.new
          /\ verify' = "vlm"
          /\ evidence' = [evidence EXCEPT !.seen = image.last.hand]
          /\ UNCHANGED <<inHand, image, verified, detection>>
       \/ EndVerification("canceled") \/ EndVerification("timeout")

(* The model sees what the image shows, or is unsure.  Nobody asks again   *)
(* for a cancellation.                                                     *)
Judge ==
    /\ verify = "vlm"
    /\ \/ evidence.seen /\ EndVerification("grasped")
       \/ EndVerification("notFound") \/ EndVerification("backend")

DetectionStep == Snapshot \/ Ground \/ LookupTransform \/ Segment \/ PlanGrasp
NextDetection ==
    Detect \/ DetectionStep \/ SightTick \/ \E s \in Streams : StoreFrame(s)
NextVerification ==
    Hand \/ Verify \/ TakeImage \/ _on_image \/ FreshImage \/ Judge

SightTypeOK ==
    /\ detect \in {"idle", "snapshot", "vlm", "transform", "sam2", "gpd"}
    /\ backend \in Backends /\ since \in 0 .. SensorTimeout
    /\ picked \in 0 .. Forgotten /\ Ages \subseteq 0 .. Forgotten
    /\ verify \in {"idle", "image", "vlm"}
    /\ image.flight \in Images /\ image.last \in Images

(* An object that was found is lost to a forgotten transform only if the  *)
(* language model alone took longer than the buffer keeps them: neither    *)
(* old frames nor the models that come after it are to blame.  (It may:    *)
(* by default the model has 30 s and the buffer keeps 10 s.)               *)
NoFrameIsForgotten ==
    detected = "forgotten" => spent + MaxSensorAge + SyncTolerance > TfHistory

(* A grasp is confirmed by an image of the hand as it was when somebody    *)
(* asked, not by one that was on its way from before.                      *)
GraspIsSeen == verified = "grasped" => evidence.asked

=============================================================================
