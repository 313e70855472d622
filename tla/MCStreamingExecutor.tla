------------------------ MODULE MCStreamingExecutor ------------------------
(* Clients compete for the arm, and a further one only asks for a plan,    *)
(* while producers publish chunks of any session, in any order and any     *)
(* number.  Either two goals contend with a short stream each, or one    *)
(* goal has a long one.                                                    *)
EXTENDS StreamingExecutor

CONSTANTS first, second, trial

AllGoals == {first, second, trial}
OnlyTrial == {trial}

TwoSessionsOrOneStream ==
    {[clients |-> {first, second},
      seq |-> 0, samples |-> 1, horizon |-> 1, loops |-> 1],
     [clients |-> {first, trial},
      seq |-> 2, samples |-> 2, horizon |-> 3, loops |-> 5]}

=============================================================================
