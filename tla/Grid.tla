-------------------------------- MODULE Grid --------------------------------
(***************************************************************************)
(* The floor as the planner sees it: a Rows by Cols grid whose cells are   *)
(* free (' ' in the map) or not (a wall, or another robot's mark), and     *)
(* what a route over it is.                                                *)
(***************************************************************************)
EXTENDS Integers, Sequences

CONSTANTS Rows, Cols

ASSUME GridAssumption == Rows \in Nat \ {0} /\ Cols \in Nat \ {0}

Cells == (0..(Rows - 1)) \X (0..(Cols - 1))

(* adjacentPositions cuts the block of nine cells around p off at the first  *)
(* row and column; positionValid cuts it off at the last ones.              *)
FirstOf(x) == IF x = 0 THEN 0 ELSE x - 1

\* Variant with a bug: the block is not cut off at the first column.
Block_NoClip(p) ==
  { q \in (FirstOf(p[1])..(p[1] + 1)) \X ((p[2] - 1)..(p[2] + 1)) :
      q # p /\ q[1] < Rows /\ q[2] < Cols }

\* The cells adjacentPositions looks up in the map.
Block(p) ==
  { q \in (FirstOf(p[1])..(p[1] + 1)) \X (FirstOf(p[2])..(p[2] + 1)) :
      q # p /\ q[1] < Rows /\ q[2] < Cols }

\* The square of getEuclideanDistance.
Dist2(a, b) == (a[1] - b[1]) * (a[1] - b[1]) + (a[2] - b[2]) * (a[2] - b[2])

(* A route leads from a, in steps to one of the eight neighbouring cells and *)
(* never over the same cell twice, over free cells; the cell it starts from  *)
(* need not be free.                                                         *)
IsRoute(p, a, free) ==
  /\ Len(p) >= 1 /\ p[1] = a
  /\ \A i \in 2..Len(p) : p[i] \in free /\ p[i] \in Block(p[i - 1])
  /\ \A i, j \in 1..Len(p) : p[i] = p[j] => i = j

(* For the arguments that a search ends: tuple r is smaller than s in the    *)
(* first place they differ in.                                              *)
Below(r, s) ==
  \E i \in DOMAIN r : r[i] < s[i] /\ \A j \in 1..(i - 1) : r[j] = s[j]
=============================================================================
