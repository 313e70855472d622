----------------------------- MODULE MCActPolicy -----------------------------
(* Of two goals the first refreshes its prediction twice.                   *)
EXTENDS ActPolicy

ThreeThenOne == <<3, 1>>

=============================================================================
