------------------------- MODULE MCFetchDeliverTask -------------------------
(* Instances of the fetch-and-deliver server: a dry run and a live goal    *)
(* that compete for it on a short pipeline, and one live goal on the whole *)
(* pipeline.                                                               *)
EXTENDS FetchDeliverTask

CONSTANTS dry, live

TwoGoals == {dry, live}
OneGoal == {live}
LiveOnly == {live}

ShortPipeline == <<"auto_localize", "handover_object">>

=============================================================================
