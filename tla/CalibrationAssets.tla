------------------------- MODULE CalibrationAssets -------------------------
(***************************************************************************)
(* The calibration draft of a unit in the commissioning catalog: each tool *)
(* saves one component and then the draft's status, and the complete draft *)
(* is published as one version (calibration_assets.py,                     *)
(* calibration_node.py).  One tool runs at a time.                         *)
(***************************************************************************)
EXTENDS ArtifactCatalog

CONSTANTS
    Workflows,          \* components of a unit calibration
    BaseGeometry,       \* the one fitted from distances measured by hand
    MaxSaves,           \* bound: components ever saved
    MaxToolDeaths       \* bound: operations of a tool cut short

ASSUME CalibrationAssumption == BaseGeometry \in Workflows

VARIABLE unit

InitUnit ==
    \E only \in BOOLEAN :
      unit = [captureOnly |-> only, exported |-> << >>, components |-> [w \in Workflows |-> << >>],
            status |-> [w \in Workflows |-> FALSE], op |-> << >>,
            stale |-> {}, saves |-> 0, deaths |-> 0, catalog |-> EmptyCatalog]

Write(what, w, good) == [do |-> what, v |-> IF good THEN 1 ELSE 0, files |-> <<w>>]

(* save_component validates before it writes anything; a result that is    *)
(* well formed but of poor quality is saved, and its status says so.       *)
SaveBestStatus(w, good) ==
    <<Write("component", w, good), Write("status", w, good \/ unit.status[w])>>
SaveProgram(w, good) == <<Write("component", w, good), Write("status", w, good)>>

(* validate_component: what is not well formed is never saved.             *)
Qualities == BOOLEAN

SaveComponent(w, more) ==
    /\ unit.op = << >> /\ unit.saves < MaxSaves
    /\ \E good \in Qualities :
         unit' = [unit EXCEPT !.op = SaveProgram(w, good) \o more, !.saves = @ + 1]

(* A capture-only tool takes nothing from elsewhere and publishes nothing; *)
(* the base fit it makes itself also becomes the result file of its capture.*)
ImportResult == \E w \in Workflows : ~unit.captureOnly /\ SaveComponent(w, << >>)

Exported == IF unit.captureOnly THEN <<Write("export", BaseGeometry, TRUE)>> ELSE << >>

SaveBaseGeometry == SaveComponent(BaseGeometry, Exported)

SolveSamples ==
    \E w \in Workflows \ {BaseGeometry} : ~unit.captureOnly /\ SaveComponent(w, << >>)

UnitReady == \A w \in Workflows : unit.status[w]

ActivateUnit ==
    /\ unit.op = << >> /\ ~unit.captureOnly /\ UnitReady
    /\ \E v \in Unpublished(unit.catalog) :
         unit' = [unit EXCEPT !.op =
           Create(v, [components |-> unit.components, stale |-> unit.stale])
             \o Activation(v)]

ActivateUnitVersion ==
    /\ unit.op = << >> /\ ~unit.captureOnly
    /\ \E v \in Published(unit.catalog) : unit' = [unit EXCEPT !.op = Activation(v)]

Written(s) ==
    CASE s.do = "component" -> {[unit EXCEPT !.components[s.files[1]] = <<s.v = 1>>]}
      [] s.do = "status" -> {[unit EXCEPT !.status[s.files[1]] = (s.v = 1),
                                          !.stale = @ \ {s.files[1]}]}
      [] s.do = "export" -> {[unit EXCEPT !.exported = unit.components[BaseGeometry]]}
      [] s.do \in CatalogSteps ->
           {[unit EXCEPT !.catalog = c] : c \in CatalogStep(unit.catalog, s)}

ToolStep ==
    /\ unit.op # << >>
    /\ IF Written(Head(unit.op)) = {} THEN unit' = [unit EXCEPT !.op = << >>]
       ELSE \E t \in Written(Head(unit.op)) : unit' = [t EXCEPT !.op = Tail(@)]

ToolDies ==
    /\ unit.op # << >> /\ unit.deaths < MaxToolDeaths
    /\ \E c \in AfterDeath(unit.catalog) :
         unit' = [unit EXCEPT
           !.op = << >>, !.deaths = @ + 1, !.catalog = c,
           !.stale = IF Head(unit.op).do = "status" THEN @ \cup {Head(unit.op).files[1]} ELSE @]

NextUnit ==
    \/ ImportResult \/ SaveBaseGeometry \/ SolveSamples
    \/ ActivateUnit \/ ActivateUnitVersion \/ ToolStep \/ ToolDies

-----------------------------------------------------------------------------
(* Every component of a published calibration passed its quality check     *)
(* (but one whose status a death between the two writes left behind).      *)
PublishedPassed ==
    /\ \A v \in Published(unit.catalog) :
         LET b == unit.catalog.versions[v][1]
         IN  \A w \in Workflows \ b.stale : b.components[w] = <<TRUE>>
    /\ NothingDangles(unit.catalog)

=============================================================================
