------------------------------ MODULE MCServer ------------------------------
(* Constants of the model-checking runs of Server.                          *)
EXTENDS Server, TLC

CONSTANTS a, b

MCClients == {a, b}
Ids == Permutations(MCClients)

\* Two cells that touch at their corners between two walls: robots pass the
\* walls diagonally.
Diagonal == {<<0, 1>>, <<1, 0>>}

\* For the progress of the planners one cell will do.
NoWalls == {}
Origin == {<<0, 0>>}

\* On two by two cells every two cells are neighbours, and A* takes one step.
MCRoutes ==
  UNION { {p \in [1..n -> Cells] : IsRoute(p, p[1], Cells)} : n \in 1..2 }

\* Bound: a client that has left is followed while its planner sends to it; before and
\* after that nothing depends on it but the typed command, which ends the server.
LeftWhileSending == \A c \in gone : pl[c].pc = "send"

East == {<<1, 1>>}
NoClients == {}
OneClient == {a}
=============================================================================
