--------------------------------- MODULE Rrt ---------------------------------
(***************************************************************************)
(* Grid_Analyzer::rrt_path: build_rrt grows a tree by walking greedily     *)
(* from its nodes to cells drawn at random, until one is close to the      *)
(* goal.  A walk leaves dots on the map, and clears the map when it ends.  *)
(*                                                                         *)
(* The caller holds the mutex that guards the grid.  The position and the  *)
(* goal are references to the agent's; other threads assign them without   *)
(* that mutex: Reposition and Retarget, at most MaxChanges times.          *)
(***************************************************************************)
EXTENDS Grid, FiniteSets

CONSTANTS Floors,        \* the sets of cells that are not walls ('#')
          RobotMarks,    \* the sets of cells the caller marked other robots on
          Starts, Goals, \* positions and goals an agent may have
          MaxChanges,    \* bound: how often others assign position or goal
          MaxNodes       \* bound: no walk starts from a tree with more nodes

ASSUME RrtAssumption ==
  /\ Floors \subseteq SUBSET Cells
  /\ RobotMarks \subseteq SUBSET Cells
  /\ Starts \subseteq Cells
  /\ Goals \subseteq Int \X Int
  /\ MaxChanges \in Nat /\ MaxNodes \in Nat

VARIABLES
  before,   \* history: the map, and the goal, the search was called with
  walls,    \* the cells that are '#'
  free,     \* the cells that are ' '
  init,     \* the agent's position, by reference
  goal,     \* the agent's goal, by reference
  tree,     \* Tree::nodes; parents by index
  subset,   \* cstate_subset: the cells still to be drawn
  inc,      \* subset_size_increment
  side,     \* the shorter side of the first rectangle, for close_distance
  sample,   \* sampled_state
  walk,     \* the path connect_for_rrt has walked so far
  current,  \* the node being traced
  result,   \* the path to return
  changes,  \* how often other threads have assigned position or goal
  pc

vars == <<before, walls, free, init, goal, tree, subset, inc, side, sample,
          walk, current, result, changes, pc>>

grid == <<walls, free>>
agent == <<init, goal>>
sampling == <<subset, inc, sample>>
answer == <<current, result>>

-----------------------------------------------------------------------------
\* Variant with a bug: the last row and the last column are left out.
Rect_Strict(n) ==
  { c \in Cells : \A x \in 1..2 :
      /\ init[x] - n <= c[x] \/ goal[x] - n <= c[x]
      /\ c[x] < init[x] + n \/ c[x] < goal[x] + n }

\* The rectangle spanned by position and goal, n cells larger on every side.
Rect(n) ==
  { c \in Cells : \A x \in 1..2 :
      /\ init[x] - n <= c[x] \/ goal[x] - n <= c[x]
      /\ c[x] <= init[x] + n \/ c[x] <= goal[x] + n }

\* From here on a larger increment makes the rectangle no larger.
MaxIncrement == Rows + Cols

\* How many rows (x = 1) or columns (x = 2) position and goal span.
Span(x) == 1 + (IF init[x] > goal[x] THEN init[x] - goal[x] ELSE goal[x] - init[x])

\* At most 0.3 (SAMPLE_CLOSE_DISTANCE) of the shorter side away from g.
Close(c, g) == 100 * Dist2(c, g) <= 9 * side * side

InTree(c) == \E i \in 1..Len(tree) : tree[i].cell = c

\* Tree::find: the first of the nodes on cell c.
Find(nodes, c) ==
  CHOOSE i \in 1..Len(nodes) :
    nodes[i].cell = c /\ \A j \in 1..(i - 1) : nodes[j].cell # c

\* Variant with a bug: the farthest node.
Nearest_Farthest(c) ==
  CHOOSE i \in 1..Len(tree) :
    \A j \in 1..Len(tree) : Dist2(tree[j].cell, c) <= Dist2(tree[i].cell, c)

\* The first of the nodes closest to cell c.
Nearest(c) ==
  CHOOSE i \in 1..Len(tree) :
    /\ \A j \in 1..Len(tree) : Dist2(tree[i].cell, c) <= Dist2(tree[j].cell, c)
    /\ \A j \in 1..(i - 1) : Dist2(tree[i].cell, c) < Dist2(tree[j].cell, c)

\* Variant with a bug: a node's parent is the node added before it.
Grafted_Previous ==
  tree \o [ j \in 1..(Len(walk) - 1) |->
            [cell |-> walk[j + 1], parent |-> Len(tree) + j - 1] ]

\* Variant with a bug: one further, a node is its own parent.
Grafted_Itself ==
  tree \o [ j \in 1..(Len(walk) - 1) |->
            [cell |-> walk[j + 1],
             parent |-> IF InTree(walk[j]) THEN Find(tree, walk[j])
                                           ELSE Len(tree) + j] ]

(* The cells of the walk after the first become nodes, each below the node   *)
(* Tree::find returns for the cell before it: one in the tree already, or    *)
(* the one just added for that cell.                                         *)
Grafted ==
  tree \o [ j \in 1..(Len(walk) - 1) |->
            [cell |-> walk[j + 1],
             parent |-> IF InTree(walk[j]) THEN Find(tree, walk[j])
                                           ELSE Len(tree) + j - 1] ]

-----------------------------------------------------------------------------
Init ==
  /\ \E floor \in Floors, marks \in RobotMarks :
       /\ walls = Cells \ floor
       /\ free = floor \ marks
  /\ init \in Starts /\ goal \in Goals
  /\ before = [walls |-> walls, free |-> free, goal |-> goal]
  /\ tree = << [cell |-> init, parent |-> 1] >>
  /\ inc = 0 /\ subset = Rect(0) \cap free
  /\ side = IF Span(1) < Span(2) THEN Span(1) ELSE Span(2)
  /\ sample = init /\ walk = << >>
  /\ current = 1 /\ result = << >>
  /\ changes = 0 /\ pc = "sample"

\* One cell is left to draw: begin again with a larger rectangle.
Enlarge ==
  /\ pc = "sample" /\ \E c \in subset : subset = {c}
  /\ inc' = IF inc < MaxIncrement THEN inc + 1 ELSE inc
  /\ subset' = Rect(inc') \cap free
  /\ UNCHANGED <<before, grid, agent, tree, side, sample, walk, answer, changes, pc>>

\* No cell is left to draw: rand() % 0.
DivideByZero ==
  /\ pc = "sample" /\ subset = {}
  /\ pc' = "crashed"
  /\ UNCHANGED <<before, grid, agent, tree, sampling, side, walk, answer, changes>>

\* connect_for_rrt marks a cell; a mark on a wall replaces it.
Dot(c) == free' = free \ {c} /\ walls' = walls \ {c}

\* The walk towards cell c starts from the node nearest to it.
StartWalk(c) ==
  LET near == tree[Nearest(c)].cell
  IN  walk' = << near >> /\ Dot(near)

Draw ==
  /\ pc = "sample" /\ Len(tree) <= MaxNodes
  /\ \E s \in subset :
       subset # {s} /\ sample' = s /\ StartWalk(s)
  /\ pc' = "walk"
  /\ UNCHANGED <<before, agent, tree, subset, inc, side, answer, changes>>

Target == IF pc = "walk" THEN sample ELSE goal
Here == walk[Len(walk)]
Walking == pc \in {"walk", "last"}

(* The free neighbours, and the first of those closest to the target in the  *)
(* order adjacentPositions lists them.                                       *)
Steps == Block(Here) \cap free
Best(c) ==
  \A d \in Steps \ {c} :
    \/ Dist2(c, Target) < Dist2(d, Target)
    \/ /\ Dist2(c, Target) = Dist2(d, Target)
       /\ c[1] < d[1] \/ (c[1] = d[1] /\ c[2] < d[2])

Step ==
  /\ Walking /\ Here # Target
  /\ \E c \in Steps : Best(c) /\ walk' = Append(walk, c) /\ Dot(c)
  /\ UNCHANGED <<before, agent, tree, sampling, side, answer, changes, pc>>

\* The walk is over: on its target, or with nowhere to go.
Arrived == Walking /\ (Here = Target \/ Steps = {})

\* grid->clear()
Clear == free' = Cells \ walls /\ UNCHANGED walls

\* The walk to a sample joins the tree; a sample close to the goal is the last.
Graft ==
  /\ pc = "walk" /\ Arrived
  /\ tree' = Grafted /\ walk' = << >> /\ Clear
  /\ subset' = subset \ {sample}
  /\ pc' = IF Close(sample, goal) THEN "approach" ELSE "sample"
  /\ UNCHANGED <<before, agent, inc, side, sample, answer, changes>>

\* If the goal is not in the tree, walk to it.
Approach ==
  /\ pc = "approach"
  /\ IF InTree(goal)
     THEN pc' = "choose" /\ UNCHANGED <<walk, grid>>
     ELSE pc' = "last" /\ StartWalk(goal)
  /\ UNCHANGED <<before, agent, tree, sampling, side, answer, changes>>

\* Variant with a bug: the dots of the last walk stay on the map.
GraftLast_Keeps ==
  /\ pc = "last" /\ Arrived
  /\ tree' = Grafted /\ walk' = << >>
  /\ pc' = "choose"
  /\ UNCHANGED <<before, grid, agent, sampling, side, answer, changes>>

GraftLast ==
  /\ pc = "last" /\ Arrived
  /\ tree' = Grafted /\ walk' = << >> /\ Clear
  /\ pc' = "choose"
  /\ UNCHANGED <<before, agent, sampling, side, answer, changes>>

(* A goal that is not in the tree is replaced by the next best position; the *)
(* nodes' hvalues and gvalues are all 0, so no tie is broken by them.        *)
Choose ==
  /\ pc = "choose"
  /\ goal' = IF InTree(goal) THEN goal ELSE tree[Nearest(goal)].cell
  /\ pc' = "find"
  /\ UNCHANGED <<before, grid, init, tree, sampling, side, walk, answer, changes>>

\* Tree::find has no return for a position that is not in the tree.
FindGoal ==
  /\ pc = "find"
  /\ IF InTree(goal)
     THEN current' = Find(tree, goal) /\ pc' = "trace"
     ELSE pc' = "lost" /\ UNCHANGED current
  /\ UNCHANGED <<before, grid, agent, tree, sampling, side, walk, result, changes>>

\* Follow the parents back to the root; reverse() has the root come first.
Trace ==
  /\ pc = "trace"
  /\ result' = << tree[current].cell >> \o result
  /\ IF tree[current].cell = tree[1].cell
     THEN pc' = "returned" /\ UNCHANGED current
     ELSE pc' = "trace" /\ current' = tree[current].parent
  /\ UNCHANGED <<before, grid, agent, tree, sampling, side, walk, changes>>

\* Another thread assigns the agent's goal, or its position.
Changed ==
  /\ changes < MaxChanges /\ pc \notin {"returned", "crashed", "lost"}
  /\ changes' = changes + 1
  /\ UNCHANGED <<before, grid, tree, sampling, side, walk, answer, pc>>
Retarget == Changed /\ goal' \in Goals /\ UNCHANGED init
Reposition == Changed /\ init' \in Starts /\ UNCHANGED goal

Search ==
  \/ Enlarge \/ DivideByZero \/ Draw \/ Step \/ Graft \/ Approach
  \/ GraftLast \/ Choose \/ FindGoal \/ Trace
Next == Search \/ Retarget \/ Reposition

Spec == Init /\ [][Next]_vars

-----------------------------------------------------------------------------
(* Properties.                                                              *)

Nodes == [cell : Cells, parent : Nat \ {0}]
Maps == [walls : SUBSET Cells, free : SUBSET Cells, goal : Goals]

\* Every variable stays in its range.
TypeOK ==
  /\ before \in Maps
  /\ walls \subseteq Cells /\ free \subseteq Cells
  /\ init \in Starts /\ goal \in Goals \cup Cells
  /\ tree \in Seq(Nodes) /\ tree # << >>
  /\ \A i \in 2..Len(tree) : tree[i].parent < i
  /\ subset \subseteq Cells /\ inc \in 0..MaxIncrement
  /\ side \in Nat \ {0} /\ sample \in Cells
  /\ walk \in Seq(Cells) /\ (Walking => walk # << >>)
  /\ current \in 1..Len(tree) /\ result \in Seq(Cells)
  /\ changes \in 0..MaxChanges
  /\ pc \in {"sample", "walk", "approach", "last", "choose", "find", "trace",
             "returned", "crashed", "lost"}

(* The path returned leads from where the robot was when the search began,   *)
(* in single steps and never twice over a cell, over cells that were no      *)
(* walls; although cells join the tree several times over.                   *)
ResultIsRoute ==
  pc = "returned" => IsRoute(result, tree[1].cell, Cells \ before.walls)

(* "Find the closest we can get to the goal": no cell the search has seen is *)
(* closer to the goal it was asked for than the end of the path.             *)
EndsClosest ==
  pc = "returned" /\ changes = 0 =>
    \A i \in 1..Len(tree) :
      Dist2(result[Len(result)], before.goal) <= Dist2(tree[i].cell, before.goal)

(* The search ends only when a cell close to the goal has been drawn.  A     *)
(* goal inside a wall that is thicker than close_distance is never given up: *)
(* the search goes on for ever, with the planners' mutex held.               *)
ReturnsOnlyIfClose ==
  pc \in {"returned", "lost"} /\ changes = 0 =>
    \E c \in Cells \ walls : Close(c, before.goal)

(* What such a search does for ever: every step, its own or another thread's, *)
(* lowers a rank of naturals, in the first place it changes, except that the *)
(* search takes all that is free for its rectangle once more.  What is left  *)
(* to spend is the other threads' assignments, the enlargements of the       *)
(* rectangle, the cells to draw, the stages of a walk or of the end, and     *)
(* the free cells a walk can go on to.                                       *)
Stage ==
  CASE pc = "sample" -> 7
    [] pc = "walk" -> 6
    [] pc = "approach" -> 5
    [] pc = "last" -> 4
    [] pc = "choose" -> 3
    [] pc = "find" -> 2
    [] pc = "trace" -> 1
    [] OTHER -> 0
Rank == << MaxChanges - changes, MaxIncrement - inc, Cardinality(subset), Stage,
           IF pc = "trace" THEN current ELSE Cardinality(free) >>
RankIsNatural == Rank \in [1..5 -> Nat]
DrawsFromAllAgain == Enlarge /\ inc = MaxIncrement /\ subset' = free
RankFalls == [][Below(Rank', Rank) \/ DrawsFromAllAgain]_vars

(* The search divides by zero only if the robot's own cell was not free when *)
(* it began, and looks for a goal that is not in the tree only if another    *)
(* thread assigned it in between.                                            *)
FailsForAReason ==
  /\ pc = "crashed" /\ changes = 0 => tree[1].cell \notin before.free
  /\ pc = "lost" => changes > 0

(* The search gives the map back without its dots, but without the marks of  *)
(* the other robots too; the only wall it may have erased is the robot's     *)
(* own cell.                                                                 *)
MapComesBackClear ==
  pc = "returned" =>
    /\ free = Cells \ walls
    /\ walls \subseteq before.walls /\ before.walls \ walls \subseteq {tree[1].cell}
=============================================================================
