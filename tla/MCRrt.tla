-------------------------------- MODULE MCRrt --------------------------------
(* Constants of the model-checking run of Rrt.                              *)
EXTENDS Rrt

(* Floors of four rows and columns, so that a cell beside a goal three rows  *)
(* and columns away is close to it: a bend with a dead end that a greedy walk *)
(* falls into, and two rooms with a wall between them.                       *)
DeadEnd == {<<0, 0>>, <<1, 1>>, <<1, 2>>, <<2, 0>>, <<3, 1>>, <<3, 2>>, <<3, 3>>}
Rooms == {<<0, 0>>, <<0, 1>>, <<3, 2>>, <<3, 3>>}
MCFloors == {DeadEnd, Rooms}

\* No other robot, one beside the way, and one on the start.
MCRobotMarks == {{}, {<<1, 1>>}, {<<0, 0>>}}

\* A position on both floors, and one that is a wall on the second; goals in
\* the opposite corner, on the start, and inside a wall.
MCStarts == {<<0, 0>>, <<1, 2>>}
MCGoals == {<<3, 3>>, <<0, 0>>, <<3, 0>>}
=============================================================================
