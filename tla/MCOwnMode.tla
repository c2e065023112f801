------------------------------ MODULE MCOwnMode ------------------------------
(* Constants of the model-checking runs of OwnMode.                         *)
EXTENDS OwnMode

CONSTANTS drive, planner, display, main_

MCThreads == {drive, planner, display, main_}

\* A corridor of three cells and the only path between each two of them.
Corridor == {<<0, 0>>, <<0, 1>>, <<0, 2>>}
CorridorPlans ==
  { << <<0, 0>> >>, << <<0, 0>>, <<0, 1>> >>, << <<0, 0>>, <<0, 1>>, <<0, 2>> >>,
    << <<0, 1>> >>, << <<0, 1>>, <<0, 0>> >>, << <<0, 1>>, <<0, 2>> >>,
    << <<0, 2>> >>, << <<0, 2>>, <<0, 1>> >>, << <<0, 2>>, <<0, 1>>, <<0, 0>> >> }

\* Two of its cells: a step, a turn round and a rest.
Short == {<<0, 0>>, <<0, 1>>}
ShortPlans == { p \in CorridorPlans : \A i \in 1..Len(p) : p[i] \in Short }
\* The west end, and a goal that is not on the floor.
Ends == {<<0, 0>>, <<7, 7>>}
Origin == <<0, 0>>
Forward == {1}
=============================================================================
