---------------------------- MODULE SiteAssets ----------------------------
(***************************************************************************)
(* Commissioning a site: the draft of a map, its named places and the      *)
(* evidence that each was reached (site_assets.py), the single-threaded    *)
(* manager that edits and publishes it (site_manager_node.py), and the     *)
(* console handlers that build the map, set places, drive to them and      *)
(* record that (operator_console.py).  Building and validating are two     *)
(* launches; the navigator of the second keeps the map and the places it   *)
(* read when it was launched.                                              *)
(***************************************************************************)
EXTENDS ArtifactCatalog

CONSTANTS
    Places,       \* ids of named places
    MaxPoses,     \* bound: poses ever recorded
    MaxMaps,      \* bound: maps ever begun by SLAM
    MaxDeaths     \* bound: operations of the manager cut short

VARIABLE site

NoPose == 0
NoMap == 0
NoEvidence == << >>

InitSite ==
    site = [phase |-> "build", slam |-> 1, localized |-> FALSE,
            image |-> NoMap, yaml |-> NoMap, places |-> [p \in Places |-> NoPose],
            results |-> [p \in Places |-> NoEvidence],
            navMap |-> NoMap, navPlaces |-> [p \in Places |-> NoPose],
            trip |-> << >>, touched |-> {}, torn |-> {}, op |-> << >>,
            poses |-> 0, deaths |-> 0, catalog |-> EmptyCatalog]

Edit(what, p, value) == [do |-> what, v |-> value, files |-> <<p>>]
Known(p) == site.places[p] # NoPose

(* ready: a map, some place, and every place's evidence passed.            *)
SiteReady ==
    /\ site.yaml # NoMap /\ site.image # NoMap
    /\ \E p \in Places : Known(p)
    /\ \A p \in Places : Known(p) => site.results[p] # NoEvidence

Begun(program) == [site EXCEPT !.op = program]

-----------------------------------------------------------------------------
(* The manager's services.  It is single-threaded: one program at a time.  *)

(* save_map copies the live map.  The evidence is of the map it replaces,  *)
(* and goes first; no file of the old map survives beside one of the new.  *)
CopyMap == <<Edit("image", "", site.slam), Edit("yaml", "", site.slam)>>
SaveMapOver == <<Edit("reset", "", 0)>> \o CopyMap
SaveMapKeepsEvidence == <<Edit("unlink", "", 0)>> \o CopyMap
SaveMapProgram == <<Edit("reset", "", 0), Edit("unlink", "", 0)>> \o CopyMap

SaveMap ==
    /\ site.op = << >> /\ site.phase = "build"
    /\ site' = Begun(SaveMapProgram)

(* A pose set while the navigator is up is not the one it drives to:       *)
(* touched, until the next launch.                                         *)
SetPlaceOnly(p, pose) == <<Edit("places", p, pose)>>
SetPlaceProgram(p, pose) == <<Edit("places", p, pose), Edit("forget", p, 0)>>

SetPlace ==
    /\ site.op = << >> /\ site.poses < MaxPoses
    /\ \E p \in Places :
         site' = [site EXCEPT
           !.op = SetPlaceProgram(p, site.poses + 1), !.poses = @ + 1,
           !.touched = IF site.phase = "validate" THEN @ \cup {p} ELSE @]

RemovePlaceProgram(p) == <<Edit("places", p, NoPose), Edit("forget", p, 0)>>

RemovePlace ==
    /\ site.op = << >>
    /\ \E p \in Places : Known(p) /\ site' = Begun(RemovePlaceProgram(p))

Record(p, evidence) == <<[do |-> "record", v |-> 0, files |-> <<p, evidence>>]>>

RecordByHand ==
    /\ site.op = << >>
    /\ \E p \in Places :
         Known(p) /\ site' = Begun(Record(p, [hand |-> TRUE, touched |-> FALSE,
                                              pose |-> NoPose, map |-> NoMap]))

Bundle == [image |-> site.image, yaml |-> site.yaml, places |-> site.places,
           results |-> site.results, torn |-> site.torn]

FinalizeAndActivate ==
    /\ site.op = << >> /\ SiteReady
    /\ \E v \in Unpublished(site.catalog) :
         site' = Begun(Create(v, Bundle) \o Activation(v))

ActivateVersion ==
    /\ site.op = << >>
    /\ \E v \in Published(site.catalog) : site' = Begun(Activation(v))

RebuildIndex ==
    /\ site.op = << >> /\ site.catalog.index # Published(site.catalog)
    /\ site' = [site EXCEPT !.catalog = RebuiltIndex(@)]

(* One file step; a program that raises is over, and so is a dead one's.   *)
Edited(s) ==
    CASE s.do = "reset" -> {[site EXCEPT !.results = [p \in Places |-> NoEvidence]]}
      [] s.do = "unlink" -> {[site EXCEPT !.image = NoMap, !.yaml = NoMap]}
      [] s.do = "image" -> {[site EXCEPT !.image = s.v]}
      [] s.do = "yaml" -> {[site EXCEPT !.yaml = s.v]}
      [] s.do = "places" -> {[site EXCEPT !.places[s.files[1]] = s.v]}
      [] s.do = "forget" -> {[site EXCEPT !.results[s.files[1]] = NoEvidence]}
      [] s.do = "record" -> {[site EXCEPT !.results[s.files[1]] = <<s.files[2]>>,
                                          !.torn = @ \ {s.files[1]}]}
      [] s.do \in CatalogSteps ->
           {[site EXCEPT !.catalog = c] : c \in CatalogStep(site.catalog, s)}

ManagerStep ==
    /\ site.op # << >>
    /\ IF Edited(Head(site.op)) = {} THEN site' = [site EXCEPT !.op = << >>]
       ELSE \E t \in Edited(Head(site.op)) : site' = [t EXCEPT !.op = Tail(@)]

ManagerDies ==
    /\ site.op # << >> /\ site.deaths < MaxDeaths
    /\ \E c \in AfterDeath(site.catalog) :
         site' = [site EXCEPT
           !.op = << >>, !.deaths = @ + 1, !.catalog = c,
           !.torn = IF Head(site.op).do = "forget" /\ site.results[Head(site.op).files[1]] # NoEvidence
                    THEN @ \cup {Head(site.op).files[1]} ELSE @]

-----------------------------------------------------------------------------
(* Launches, mapping and driving, as the console handles them.             *)

(* A launch for validation reads the draft's map and places.               *)
LaunchValidation ==
    /\ site.op = << >> /\ site.yaml # NoMap /\ site.image # NoMap
    /\ site' = [site EXCEPT !.phase = "validate", !.localized = FALSE,
                            !.trip = << >>, !.touched = {},
                            !.navMap = site.yaml, !.navPlaces = site.places]

LaunchBuild ==
    /\ site.op = << >> /\ site.phase = "validate" /\ site.slam < MaxMaps
    /\ site' = [site EXCEPT !.phase = "build", !.localized = FALSE,
                            !.trip = << >>, !.touched = {}, !.slam = @ + 1]

ResetMapping ==
    /\ site.phase = "build" /\ site.slam < MaxMaps
    /\ site' = [site EXCEPT !.slam = @ + 1]

ValidateLocalization ==
    /\ site.phase = "validate" /\ ~site.localized
    /\ site' = [site EXCEPT !.localized = TRUE]

ValidatePlace ==
    /\ site.phase = "validate" /\ site.localized /\ site.trip = << >>
    /\ \E p \in Places :
         /\ Known(p) /\ site.navPlaces[p] # NoPose
         /\ site' = [site EXCEPT !.trip =
                       <<[place |-> p, pose |-> site.navPlaces[p], arrived |-> FALSE]>>]

TripEnds ==
    /\ site.trip # << >> /\ ~site.trip[1].arrived
    /\ site' \in {[site EXCEPT !.trip[1].arrived = TRUE],
                  [site EXCEPT !.trip = << >>]}

(* The console reports the trip; a place removed meanwhile is refused.     *)
RecordTrip ==
    /\ site.trip # << >> /\ site.trip[1].arrived /\ site.op = << >>
    /\ LET t == site.trip[1]
           evidence == [hand |-> FALSE, touched |-> t.place \in site.touched,
                        pose |-> t.pose, map |-> site.navMap]
       IN  site' = [site EXCEPT
             !.trip = << >>,
             !.op = IF Known(t.place) THEN Record(t.place, evidence) ELSE << >>]

Manager ==
    \/ SaveMap \/ SetPlace \/ RemovePlace \/ RecordByHand \/ FinalizeAndActivate
    \/ ActivateVersion \/ RebuildIndex \/ ManagerStep \/ ManagerDies

NextSite ==
    \/ Manager \/ LaunchValidation \/ LaunchBuild \/ ResetMapping
    \/ ValidateLocalization \/ ValidatePlace \/ TripEnds \/ RecordTrip

-----------------------------------------------------------------------------
PublishedSites ==
    {site.catalog.versions[v][1] : v \in Published(site.catalog)}

(* Every place of a published site was driven to, at the pose and on the   *)
(* map it is published with.  (Not so: what was passed by hand, a pose set *)
(* after the navigator had read its places, and one whose old evidence a   *)
(* death in mid-edit left standing.)                                       *)
PublishedPlaceWasReached ==
    \A b \in PublishedSites : \A p \in Places :
      LET e == b.results[p][1]
      IN  b.places[p] # NoPose /\ p \notin b.torn /\ ~e.hand /\ ~e.touched =>
            e.pose = b.places[p] /\ e.map = b.yaml

(* The image and the description of a published map are of one map, and of *)
(* whatever died, both pointers name published versions.                   *)
PublishedMapIsWhole ==
    /\ \A b \in PublishedSites : b.image = b.yaml
    /\ NothingDangles(site.catalog)

=============================================================================
