------------------------------ MODULE MCClient ------------------------------
(* Constants of the model-checking runs of Client.                          *)
EXTENDS Client

CONSTANTS drive, main_, update_

MCThreads == {drive, main_, update_}

\* A corridor of three cells: east along it, back along it, and a plan of one
\* cell (the robot is at its goal).
Corridor == {<<0, 0>>, <<0, 1>>, <<0, 2>>}
CorridorPlans ==
  { << <<0, 0>>, <<0, 1>>, <<0, 2>> >>,
    << <<0, 1>>, <<0, 2>> >>,
    << <<0, 2>>, <<0, 1>> >>,
    << <<0, 1>> >> }

\* A square, crossed diagonally.
Square == {<<0, 0>>, <<0, 1>>, <<1, 0>>, <<1, 1>>}
SquarePlans ==
  { << <<0, 0>>, <<1, 1>> >>, << <<1, 1>>, <<0, 0>> >> }

Origin == <<0, 0>>
ForwardBack == {1, -1}
Speeds == {1, 0, -1}
Forward == {1}

\* Bound: behaviours are followed up to the first fault.
FaultFree == faults = {}

RaceCommands == {"path", "spin", "quit"}
PathQuit == {"path", "quit"}
AllCommands == {"path", "spin", "velocity", "direction", "quit"}
=============================================================================
