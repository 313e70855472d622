--------------------------- MODULE MCCapabilities ---------------------------
(***************************************************************************)
(* The capability servers that do not talk to each other, one of them at a *)
(* time: the search for a person, looking at an object, driving to a named *)
(* place or up to a person, finding the robot on the map, the arm that     *)
(* grasps and hands over, the stored poses, and the voice.                 *)
(***************************************************************************)
EXTENDS PersonSearch, ObjectDetection, VoiceAssistant, NamedNavigation,
        ApproachTarget, AutoLocalizer, GraspAndHandover,
        PoseServers

VARIABLE part

Says == {[heard |-> TRUE, supported |-> TRUE, concrete |-> TRUE,
          confident |-> c] : c \in BOOLEAN}
        \cup {[heard |-> FALSE, supported |-> TRUE, concrete |-> TRUE,
               confident |-> TRUE]}

MCInit ==
    /\ part \in {"search", "detect", "verify", "voice", "drive", "approach",
                "localize", "arm", "preset", "ready"}
    /\ Init /\ InitSight /\ InitVoice /\ InitTrip /\ InitApproach
    /\ InitLocalizer /\ InitArm /\ InitPreset /\ InitReady

MCNext ==
    /\ UNCHANGED part
    /\ \/ /\ part = "search" /\ Next
          /\ UNCHANGED <<sight, voice, trip, approach, loc, arm, preset, ready>>
       \/ /\ part = "detect" /\ NextDetection
          /\ UNCHANGED <<vars, voice, trip, approach, loc, arm, preset, ready>>
       \/ /\ part = "verify" /\ NextVerification
          /\ UNCHANGED <<vars, voice, trip, approach, loc, arm, preset, ready>>
       \/ /\ part = "voice" /\ NextVoice
          /\ UNCHANGED <<vars, sight, trip, approach, loc, arm, preset, ready>>
       \/ /\ part = "drive" /\ NextTrip
          /\ UNCHANGED <<vars, sight, voice, approach, loc, arm, preset, ready>>
       \/ /\ part = "approach" /\ NextApproach
          /\ UNCHANGED <<vars, sight, voice, trip, loc, arm, preset, ready>>
       \/ /\ part = "localize" /\ NextLocalizer
          /\ UNCHANGED <<vars, sight, voice, trip, approach, arm, preset, ready>>
       \/ /\ part = "arm" /\ NextArm
          /\ UNCHANGED <<vars, sight, voice, trip, approach, loc, preset, ready>>
       \/ /\ part = "preset" /\ NextPreset
          /\ UNCHANGED <<vars, sight, voice, trip, approach, loc, arm, ready>>
       \/ /\ part = "ready" /\ NextReady
          /\ UNCHANGED <<vars, sight, voice, trip, approach, loc, arm, preset>>

MCSpec ==
    /\ MCInit
    /\ [][MCNext]_<<part, vars, sight, voice, trip, approach, loc, arm, preset,
                    ready>>
    /\ SearchFairness /\ VoiceFairness /\ TripFairness /\ ApproachFairness
    /\ LocalizerFairness /\ ArmFairness /\ PoseFairness

(* What a model is given to judge is what is there: views of a robot that  *)
(* stands still, the hand as it is since somebody asked, an object whose   *)
(* place can still be told, no voice but the speaker's; and a grasp is     *)
(* reported on the verdict of its last attempt.                            *)
SensesAreCurrent ==
    /\ StillViews /\ GraspIsSeen /\ NoFrameIsForgotten /\ RecordsInSilence
    /\ GraspIsJudged /\ LocalizationIsEarned

(* What a server has started it ends, or has asked to end, and of what was *)
(* ended early nothing is kept.                                            *)
NothingIsLeftBehind ==
    /\ NothingOutlivesTheSearch /\ TripIsMinded /\ TaskIsMinded /\ CacheIsWhole
    /\ ApproachIsMinded /\ LocalizerIsMinded /\ ArmIsMinded /\ PosesAreMinded

(* The search ends or says that it holds its goal, every trip ends, a goal *)
(* of the arm ends or its process does, and the assistant listens again    *)
(* after every wake word: whatever their servers do, but that those of the *)
(* search answer and end, asked or not, because it waits for them without  *)
(* a deadline.                                                             *)
EveryoneComesBack ==
    []<>(/\ SearchIsOver /\ TripIsOver /\ ApproachIsOver /\ LocalizerIsOver
         /\ ArmIsOver /\ PosesAreOver /\ Listens)

=============================================================================
