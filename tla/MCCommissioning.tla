-------------------------- MODULE MCCommissioning --------------------------
(***************************************************************************)
(* Commissioning a robot, one part at a time: a visual calibration sweep,  *)
(* the store of calibrated runtimes under its two users, the workbench     *)
(* with its sessions, the draft of a unit's calibration, and the draft of  *)
(* a site.                                                                 *)
(***************************************************************************)
EXTENDS VisualCalibration, UnitBundle, SiteAssets, CalibrationAssets

VARIABLE part

MCInit ==
    /\ part \in {"sweep", "store", "workbench", "site", "unit"}
    /\ InitSweep /\ InitBundle /\ InitSite /\ InitUnit
    /\ part = "sweep" \/ sweep.kind = "head_camera"
    /\ part = "unit" \/ ~unit.captureOnly

MCNext ==
    /\ UNCHANGED part
    /\ \/ part = "sweep" /\ NextSweep /\ UNCHANGED <<bundle, site, unit>>
       \/ /\ part = "store" /\ NextStore /\ UNCHANGED <<sweep, site, unit>>
          /\ bundle'.revisions < MaxRevisions   \* here one less is enough
       \/ part = "workbench" /\ NextWorkbench /\ UNCHANGED <<sweep, site, unit>>
       \/ part = "site" /\ NextSite /\ UNCHANGED <<sweep, bundle, unit>>
       \/ part = "unit" /\ NextUnit /\ UNCHANGED <<sweep, bundle, site>>

MCSpec ==
    MCInit /\ [][MCNext]_<<part, sweep, bundle, site, unit>> /\ SweepFairness

(* The workbench alone, for a run with one more revision.                  *)
WorkbenchSpec ==
    MCInit /\ part = "workbench" /\ [][MCNext]_<<part, sweep, bundle, site, unit>>

(* What is solved, shown as current and published was measured as it says: *)
(* rows of a resting arm, a draft of its own predecessors, a place reached *)
(* on the map it is published with, components that passed.                *)
EvidenceIsTrue ==
    RowsAreTrue /\ DraftIsProven /\ MeasuredIsCompatible
    /\ PublishedPlaceWasReached /\ PublishedPassed

(* Whatever raises or dies on the way, what is selected is whole: a runtime*)
(* that passes the gate is the active version's, an operation leaves its   *)
(* target or what it found, a map is of one piece, no pointer dangles.     *)
SelectedIsWhole == LaunchesWhole /\ AllOrNothing /\ PublishedMapIsWhole

(* No motion of the calibration goes on that nobody answers for, and a     *)
(* sweep that says it is complete has put the arm back.                    *)
MotionIsMinded == MotionIsOwned /\ CompleteIsReady

=============================================================================
