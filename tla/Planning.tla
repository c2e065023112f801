------------------------------ MODULE Planning ------------------------------
(***************************************************************************)
(* What grid_analyzer.h promises of astar_path: "Returns an A* Path from   *)
(* init to goal based on grid member.  If a Path cannot be found from init *)
(* to goal, it will return a path to the next-closest position to goal";   *)
(* and, through the reference it takes, the goal is overwritten by the end *)
(* of the path.                                                            *)
(***************************************************************************)
EXTENDS Grid

CONSTANTS Maps,    \* the sets of free cells a floor may have
          Starts,  \* the cells a robot may be on
          Goals    \* the goals a robot may have, on the floor or off it

VARIABLES free, init, goal, result
vars == <<free, init, goal, result>>

Init ==
  /\ free \in Maps /\ init \in Starts /\ goal \in Goals
  /\ result = << >>

\* No free cell outside s borders on a cell of s.
Closed(s) == \A c \in s : Block(c) \cap free \subseteq s

(* The goal is out of reach: it lies outside a closed set of cells that      *)
(* contains init, and c is one of the cells of this set closest to it.       *)
NextBest(c) ==
  \E s \in SUBSET Cells :
    /\ init \in s /\ Closed(s) /\ goal \notin s /\ c \in s
    /\ \A d \in s : Dist2(c, goal) <= Dist2(d, goal)

Return ==
  /\ result = << >>
  /\ IsRoute(result', init, free)
  /\ goal' = result'[Len(result')]
  /\ goal' = goal \/ NextBest(goal')
  /\ UNCHANGED <<free, init>>

Next == Return
Spec == Init /\ [][Next]_vars
=============================================================================
