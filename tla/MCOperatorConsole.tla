------------------------- MODULE MCOperatorConsole -------------------------
(* The console submits goals while a voice client submits one.             *)
EXTENDS OperatorConsole

CONSTANTS mine, voice

OwnAndVoice == {mine, voice}
OneOwn == {mine}

(* Tasks are driven apart from manual control, whose parts compete.        *)
TasksOrManual == {{"task", "halt"}, {"task", "teleop"},
                  {"action", "teleop", "clear", "halt"}}

(* Whether two goals ask for the same.                                     *)
AllDiffer == [g \in Goals |-> g]

=============================================================================
