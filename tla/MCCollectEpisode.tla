-------------------------- MODULE MCCollectEpisode --------------------------
(* An episode that starts with detection, and a walk through the phases.   *)
EXTENDS CollectEpisode

CONSTANTS cup, walk

TwoEpisodes == {cup, walk}
OnlyCup == {cup}
OnlyWalk == {walk}

=============================================================================
