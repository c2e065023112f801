------------------------------- MODULE MCAStar -------------------------------
(* Constants of the model-checking runs of AStar.                           *)
EXTENDS AStar

\* Every 3 by 3 floor whose corners are free.
Corners == {0, 2} \X {0, 2}
MCMaps == {Corners \cup s : s \in SUBSET (Cells \ Corners)}

\* From two corners, an edge and the centre; to a corner, to the centre, which
\* half of the floors wall off, and to a goal off the floor.
MCStarts == {<<0, 0>>, <<1, 2>>, <<1, 1>>, <<2, 0>>}
MCGoals == {<<2, 2>>, <<1, 1>>, <<0, 9>>}
=============================================================================
