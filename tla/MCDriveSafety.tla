---------------------------- MODULE MCDriveSafety ----------------------------
(* Navigation and docking publish fast, reversing and broken commands      *)
(* while an operator stops and clears the base.                            *)
EXTENDS DriveSafety

MCSpeeds == {-2, 3}
MCPublishing == {"docking", "navigation"}
MCTimeout == [docking |-> 1, navigation |-> 2, teleop |-> 1]

=============================================================================
