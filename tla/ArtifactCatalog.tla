-------------------------- MODULE ArtifactCatalog --------------------------
(***************************************************************************)
(* The catalog of immutable artifact versions (xlerobot_assets/catalog.py) *)
(* as its clients use it: an operation is a sequence of file steps, and    *)
(* the process may die between any two of them.                            *)
(***************************************************************************)
EXTENDS Naturals, Sequences, FiniteSets

CONSTANT Publications   \* version numbers, in the order of their timestamps

NoPublication == 0

EmptyCatalog ==
    [versions |-> [v \in Publications |-> << >>], current |-> NoPublication,
     active |-> NoPublication, index |-> {}, leftover |-> FALSE]

Published(c) == {v \in Publications : c.versions[v] # << >>}
Unpublished(c) == {v \in Publications \ Published(c) :
                     \A w \in Publications \ Published(c) : v <= w}

(* create and activate.  The pointer is replaced before the record of what *)
(* is active; an earlier life's temporary link with this process id stands *)
(* in the way of a new one.                                                *)
FileOp(what, v, files) == [do |-> what, v |-> v, files |-> files]
IndexFirst(v, files) == <<FileOp("index", v, << >>), FileOp("publish", v, <<files>>)>>
Create(v, files) == <<FileOp("publish", v, <<files>>), FileOp("index", v, << >>)>>
Activation(v) == <<FileOp("link", v, << >>), FileOp("current", v, << >>),
                   FileOp("active", v, << >>)>>

CatalogStep(c, s) ==
    CASE s.do = "publish" -> IF s.v \in Published(c) THEN {}
                             ELSE {[c EXCEPT !.versions[s.v] = s.files]}
      [] s.do = "index" -> {[c EXCEPT !.index = @ \cup {s.v}]}
      [] s.do = "link" -> IF s.v \in Published(c) /\ ~c.leftover
                          THEN {[c EXCEPT !.leftover = TRUE]} ELSE {}
      [] s.do = "current" -> {[c EXCEPT !.current = s.v, !.leftover = FALSE]}
      [] s.do = "active" -> {[c EXCEPT !.active = s.v]}

CatalogSteps == {"publish", "index", "link", "current", "active"}

(* A new process may have the process id of the one that died.             *)
AfterDeath(c) == {c, [c EXCEPT !.leftover = FALSE]}

RebuiltIndex(c) == [c EXCEPT !.index = Published(c)]

(* Both pointers name published versions, and the index nothing else.      *)
NothingDangles(c) ==
    /\ {c.current, c.active} \ {NoPublication} \subseteq Published(c)
    /\ c.index \subseteq Published(c)

=============================================================================
