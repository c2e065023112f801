----------------------------- MODULE Rrt_proofs -----------------------------
(* Correctness of the random search, for every floor, robot marks, position  *)
(* and goal, and whatever cells are drawn.                                   *)
EXTENDS Rrt, FiniteSetTheorems, WellFoundedInduction, SequenceTheorems, TLAPS

(* Distances, and smallest elements.                                        *)

\* A set of naturals that is not empty has a smallest element.
LEMMA SmallestExists ==
  ASSUME NEW T \in SUBSET Nat, T # {}
  PROVE  \E x \in T : \A y \in T : x <= y
PROOF
  <1> DEFINE below(i) == {m \in T : m <= i}
             family   == {below(i) : i \in T}
  <1>1. \A i \in T : IsFiniteSet(below(i))
    BY FS_BoundedSetOfNaturals
  <1>2. family \subseteq FiniteSubsetsOf(Nat) /\ family # {}
    BY <1>1 DEF FiniteSubsetsOf
  <1>3. PICK s \in family : \A t \in family : << t, s >> \notin StrictSubsetOrdering(Nat)
    BY <1>2, FS_StrictSubsetOrderingWellFounded, WFMin
  <1>4. PICK x \in T : s = below(x)
    BY <1>3
  <1>5. ASSUME NEW y \in T, y < x
        PROVE  FALSE
    <2>1. below(y) \in family
      OBVIOUS
    <2>a. x \in Nat /\ y \in Nat /\ \A m \in T : m \in Nat /\ (m <= y => m <= x)
      BY <1>5
    <2>b. x <= x /\ ~(x <= y)
      BY <1>5, <2>a
    <2>2. below(y) \subseteq s /\ x \in s /\ x \notin below(y)
      BY <1>4, <2>a, <2>b
    <2>3. << below(y), s >> \in StrictSubsetOrdering(Nat)
      BY <2>2, <1>4 DEF StrictSubsetOrdering
    <2> QED
      BY <1>3, <2>1, <2>3
  <1> QED
    BY <1>5

LEMMA SquareIsNat ==
  ASSUME NEW x \in Int
  PROVE  x * x \in Nat
PROOF
  <1>1. CASE x >= 0
    BY <1>1
  <1>2. CASE x < 0
    <2>1. x * x = (-x) * (-x) /\ -x \in Nat
      BY <1>2
    <2> QED
      BY <2>1
  <1> QED
    BY <1>1, <1>2

LEMMA Dist2IsNat ==
  ASSUME NEW a \in Int \X Int, NEW b \in Int \X Int
  PROVE  Dist2(a, b) \in Nat
PROOF
  <1>1. a[1] - b[1] \in Int /\ a[2] - b[2] \in Int
    OBVIOUS
  <1>2. (a[1] - b[1]) * (a[1] - b[1]) \in Nat /\ (a[2] - b[2]) * (a[2] - b[2]) \in Nat
    BY <1>1, SquareIsNat
  <1> QED
    BY <1>2 DEF Dist2

\* Of finitely many distances there is a first among the smallest.
LEMMA FirstSmallest ==
  ASSUME NEW n \in Nat \ {0}, NEW d \in [1..n -> Nat]
  PROVE  \E i \in 1..n :
           /\ \A j \in 1..n : d[i] <= d[j]
           /\ \A j \in 1..(i - 1) : d[i] < d[j]
PROOF
  <1>1. PICK x \in {d[i] : i \in 1..n} : \A y \in {d[i] : i \in 1..n} : x <= y
    <2>1. {d[i] : i \in 1..n} \subseteq Nat /\ d[1] \in {d[i] : i \in 1..n}
      OBVIOUS
    <2> QED
      BY <2>1, SmallestExists
  <1>2. PICK i \in {j \in 1..n : d[j] = x} : \A j \in {m \in 1..n : d[m] = x} : i <= j
    <2>1. {j \in 1..n : d[j] = x} \subseteq Nat /\ {j \in 1..n : d[j] = x} # {}
      BY <1>1
    <2> QED
      BY <2>1, SmallestExists
  <1>3. ASSUME NEW j \in 1..n
        PROVE  d[i] <= d[j]
    BY <1>1, <1>2
  <1>4. ASSUME NEW j \in 1..(i - 1)
        PROVE  d[i] < d[j]
    <2>1. j \in 1..n /\ j < i /\ ~(i <= j)
      BY <1>2
    <2>2. d[j] # x
      BY <1>2, <2>1
    <2>3. d[i] = x /\ d[i] \in Nat /\ d[j] \in Nat /\ x <= d[j]
      BY <1>1, <1>2, <2>1
    <2> QED
      BY <2>2, <2>3
  <1> QED
    BY <1>2, <1>3, <1>4

Root == tree[1].cell
Floor == Cells \ before.walls

\* Node i is the one Tree::find returns for its cell.
First(t, i) == \A j \in 1..(i - 1) : t[j].cell # t[i].cell

(* Each node but the root lies beside its parent, and the parent is a node   *)
(* Tree::find returns; cells may occur more than once.                       *)
Chained(t) ==
  \A i \in 2..Len(t) :
    /\ t[i].parent \in 1..(i - 1) /\ First(t, t[i].parent)
    /\ t[i].cell \in Block(t[t[i].parent].cell) \cap (Floor \cup {Root})

\* The only wall lost is the root, and a cell is not both ' ' and '#'.
MapInv ==
  /\ walls \subseteq before.walls /\ before.walls \ walls \subseteq {Root}
  /\ free \subseteq Cells \ walls
  /\ before.free \subseteq Cells \ before.walls
  /\ pc \in {"sample", "crashed"} => free = before.free \/ free = Cells \ walls
  /\ pc \in {"approach", "choose", "find", "trace", "returned", "lost"} => free = Cells \ walls

(* A walk starts from a cell of the tree, goes on to cells that were free,   *)
(* and to no cell twice, because its dots are not free.                      *)
WalkInv ==
  Walking =>
    /\ InTree(walk[1])
    /\ \A j \in 1..Len(walk) : walk[j] \notin free
    /\ \A j \in 2..Len(walk) : walk[j] \in Block(walk[j - 1]) \cap (Cells \ walls)
    /\ \A i, j \in 1..Len(walk) : walk[i] = walk[j] => i = j

(* What is traced so far goes on from current, over cells that do not occur  *)
(* up to current in the tree.                                                *)
TraceInv ==
  /\ pc \notin {"trace", "returned"} => result = << >>
  /\ pc = "trace" =>
       /\ First(tree, current)
       /\ \A i \in 1..Len(result) :
            result[i] \in Floor /\ \A m \in 1..current : tree[m].cell # result[i]
       /\ \A i \in 2..Len(result) : result[i] \in Block(result[i - 1])
       /\ \A i, j \in 1..Len(result) : result[i] = result[j] => i = j
       /\ result # << >> => result[1] \in Block(tree[current].cell)

\* A goal nobody has assigned is the one asked for, then a closest cell seen.
Settled(g) ==
  InTree(g) /\ \A i \in 1..Len(tree) :
    Dist2(g, before.goal) <= Dist2(tree[i].cell, before.goal)
GoalInv ==
  changes = 0 =>
    /\ pc \notin {"find", "trace", "returned"} => goal = before.goal
    /\ pc \in {"find", "trace", "returned"} => Settled(goal)
    /\ pc = "trace" /\ result = << >> => tree[current].cell = goal
    /\ pc \in {"trace", "returned"} /\ result # << >> => result[Len(result)] = goal
    /\ pc = "returned" => result # << >>
    /\ pc # "lost"

\* The sampling ends with a cell close to the goal.
CloseInv ==
  /\ subset \subseteq Cells \ walls
  /\ pc = "walk" => sample \in subset
  /\ changes = 0 /\ pc \notin {"sample", "walk", "crashed"} =>
       \E c \in Cells \ walls : Close(c, before.goal)

\* A robot on a free cell always leaves one to draw.
DrawInv ==
  changes = 0 /\ Root \in before.free =>
    /\ init = Root
    /\ pc = "sample" => subset # {}
    /\ pc = "walk" => \E c \in subset : c # sample
    /\ pc # "crashed"

RrtInv ==
  /\ TypeOK /\ Chained(tree) /\ MapInv /\ WalkInv /\ TraceInv /\ ResultIsRoute
  /\ GoalInv /\ CloseInv /\ DrawInv

-----------------------------------------------------------------------------
(* The operators the search is built from.                                  *)

LEMMA PairsOfInt == Cells \subseteq Int \X Int /\ Goals \subseteq Int \X Int
PROOF
  BY GridAssumption, RrtAssumption DEF Cells

LEMMA TypedNodes ==
  ASSUME TypeOK
  PROVE  /\ tree \in Seq(Nodes) /\ Len(tree) \in Nat \ {0}
         /\ goal \in Int \X Int /\ before.goal \in Int \X Int
         /\ \A i \in 1..Len(tree) : tree[i] \in Nodes /\ tree[i].cell \in Cells
         /\ Root \in Cells
PROOF
  <1>1. tree \in Seq(Nodes) /\ tree # << >> /\ goal \in Goals \cup Cells /\ before \in Maps
    BY DEF TypeOK
  <1>2. Len(tree) \in Nat \ {0} /\ goal \in Int \X Int /\ before.goal \in Int \X Int
    BY <1>1, PairsOfInt DEF Maps
  <1>3. ASSUME NEW i \in 1..Len(tree)
        PROVE  tree[i] \in Nodes /\ tree[i].cell \in Cells
    <2>1. tree[i] \in Nodes
      BY <1>1
    <2> QED
      BY <2>1 DEF Nodes
  <1> QED
    BY <1>1, <1>2, <1>3 DEF Root

\* find_nearest_neighbor finds a node, and none is closer.
LEMMA NearestIsNearest ==
  ASSUME TypeOK, NEW c \in Int \X Int
  PROVE  /\ Nearest(c) \in 1..Len(tree)
         /\ \A j \in 1..Len(tree) : Dist2(tree[Nearest(c)].cell, c) <= Dist2(tree[j].cell, c)
PROOF
  <1> DEFINE d == [i \in 1..Len(tree) |-> Dist2(tree[i].cell, c)]
  <1>1. Len(tree) \in Nat \ {0} /\ d \in [1..Len(tree) -> Nat]
    <2>1. \A i \in 1..Len(tree) : tree[i].cell \in Int \X Int
      BY TypedNodes, PairsOfInt
    <2> QED
      BY <2>1, TypedNodes, Dist2IsNat
  <1>2. PICK i \in 1..Len(tree) : /\ \A j \in 1..Len(tree) : d[i] <= d[j]
                                  /\ \A j \in 1..(i - 1) : d[i] < d[j]
    <2> HIDE DEF d
    <2> QED
      BY <1>1, FirstSmallest
  <1>3. \A j \in 1..(i - 1) : j \in 1..Len(tree)
    BY <1>1
  <1> QED
    BY <1>2, <1>3 DEF Nearest

\* Tree::find finds the first node of a cell in the tree.
LEMMA FindFinds ==
  ASSUME TypeOK, NEW c, InTree(c)
  PROVE  /\ Find(tree, c) \in 1..Len(tree)
         /\ tree[Find(tree, c)].cell = c /\ First(tree, Find(tree, c))
PROOF
  <1>1. Len(tree) \in Nat
    BY TypedNodes
  <1>2. PICK i \in {j \in 1..Len(tree) : tree[j].cell = c} :
             \A j \in {m \in 1..Len(tree) : tree[m].cell = c} : i <= j
    <2>1. {j \in 1..Len(tree) : tree[j].cell = c} \subseteq Nat
          /\ {j \in 1..Len(tree) : tree[j].cell = c} # {}
      BY <1>1 DEF InTree
    <2> QED
      BY <2>1, SmallestExists
  <1>3. ASSUME NEW j \in 1..(i - 1)
        PROVE  tree[j].cell # c
    <2>1. j \in 1..Len(tree) /\ ~(i <= j)
      BY <1>1
    <2> QED
      BY <1>2, <2>1
  <1> QED
    BY <1>2, <1>3 DEF Find, First

LEMMA BlockIsCells ==
  ASSUME NEW p \in Cells
  PROVE  Block(p) \subseteq Cells
PROOF
  <1> SUFFICES ASSUME NEW q \in Block(p)
               PROVE  q \in Cells
    OBVIOUS
  <1>1. /\ q \in (FirstOf(p[1])..(p[1] + 1)) \X (FirstOf(p[2])..(p[2] + 1))
        /\ q[1] < Rows /\ q[2] < Cols /\ p[1] \in Nat /\ p[2] \in Nat
    BY GridAssumption DEF Block, Cells
  <1>2. q = << q[1], q[2] >> /\ q[1] \in 0..(Rows - 1) /\ q[2] \in 0..(Cols - 1)
    BY <1>1, GridAssumption DEF FirstOf
  <1> QED
    BY <1>2 DEF Cells

-----------------------------------------------------------------------------
(* What a walk adds to the tree.                                            *)

\* The walk of connect_for_rrt, seen from the tree it starts from.
LEMMA GraftedTree ==
  ASSUME TypeOK, Chained(tree), MapInv, WalkInv, Walking
  PROVE  /\ Grafted \in Seq(Nodes) /\ Grafted # << >>
         /\ Len(Grafted) = Len(tree) + Len(walk) - 1
         /\ \A i \in 1..Len(tree) : Grafted[i] = tree[i]
         /\ \A i \in 2..Len(Grafted) : Grafted[i].parent < i
         /\ Chained(Grafted)
PROOF
  <1> DEFINE parent(j) == IF InTree(walk[j]) THEN Find(tree, walk[j]) ELSE Len(tree) + j - 1
             node(j) == [cell |-> walk[j + 1], parent |-> parent(j)]
             new == [j \in 1..(Len(walk) - 1) |-> node(j)]
             n == Len(tree)
             g == Grafted
  <1>1. /\ n \in Nat \ {0} /\ tree \in Seq(Nodes)
        /\ walk \in Seq(Cells) /\ Len(walk) \in Nat \ {0}
        /\ \A j \in 1..Len(walk) : walk[j] \in Cells
    BY TypedNodes DEF TypeOK
  <1>2. ASSUME NEW j \in 1..(Len(walk) - 1)
        PROVE  /\ parent(j) \in 1..(n + j - 1) /\ parent(j) \in Nat \ {0}
               /\ InTree(walk[j]) =>
                    /\ parent(j) \in 1..n /\ tree[parent(j)].cell = walk[j]
                    /\ First(tree, parent(j))
               /\ ~InTree(walk[j]) => j # 1 /\ parent(j) = n + j - 1
    <2>1. InTree(walk[j]) =>
            /\ parent(j) \in 1..n /\ tree[parent(j)].cell = walk[j]
            /\ First(tree, parent(j))
      BY FindFinds
    <2>2. ~InTree(walk[j]) => j # 1 /\ parent(j) = n + j - 1
      BY DEF WalkInv
    <2> HIDE DEF parent
    <2> QED
      BY <1>1, <2>1, <2>2
  <1>3. \A j \in 1..(Len(walk) - 1) : node(j) \in Nodes
    <2> HIDE DEF parent
    <2> QED
      BY <1>1, <1>2 DEF Nodes
  <1>4. /\ new \in Seq(Nodes) /\ Len(new) = Len(walk) - 1
        /\ \A j \in 1..(Len(walk) - 1) : new[j] = node(j)
    <2> HIDE DEF node
    <2>1. new \in [1..(Len(walk) - 1) -> Nodes] /\ Len(walk) - 1 \in Nat
      BY <1>1, <1>3
    <2> QED
      BY <2>1
  <1>5. g = tree \o new
    BY DEF Grafted
  <1> HIDE DEF g, new, node, parent
  <1>6. /\ g \in Seq(Nodes) /\ Len(g) = n + Len(walk) - 1
        /\ \A i \in 1..n : g[i] = tree[i]
        /\ \A j \in 1..(Len(walk) - 1) : g[n + j] = node(j)
    <2>1. /\ g \in Seq(Nodes) /\ Len(g) = n + Len(new)
          /\ \A i \in 1..(n + Len(new)) : g[i] = IF i <= n THEN tree[i] ELSE new[i - n]
      BY <1>1, <1>4, <1>5, ConcatProperties
    <2>2. ASSUME NEW j \in 1..(Len(walk) - 1)
          PROVE  g[n + j] = new[j]
      <3>1. n + j \in 1..(n + Len(new)) /\ ~(n + j <= n) /\ (n + j) - n = j
        BY <1>1, <1>4
      <3> QED
        BY <2>1, <3>1
    <2>3. n + Len(new) = n + Len(walk) - 1
      BY <1>1, <1>4
    <2>4. \A i \in 1..n : g[i] = tree[i]
      <3>1. \A i \in 1..n : i \in 1..(n + Len(new)) /\ i <= n
        BY <1>1, <1>4
      <3> QED
        BY <2>1, <3>1
    <2>5. \A j \in 1..(Len(walk) - 1) : g[n + j] = node(j)
      BY <1>4, <2>2
    <2> QED
      BY <2>1, <2>3, <2>4, <2>5
  <1>7. ASSUME NEW j \in 1..(Len(walk) - 1)
        PROVE  g[n + j].cell = walk[j + 1] /\ g[n + j].parent = parent(j)
    <2>1. g[n + j] = node(j)
      BY <1>6
    <2> QED
      BY <2>1 DEF node
  <1>8. ASSUME NEW i \in 2..n
        PROVE  /\ g[i].parent \in 1..(i - 1) /\ First(g, g[i].parent)
               /\ g[i].cell \in Block(g[g[i].parent].cell) \cap (Floor \cup {Root})
    <2>1. /\ tree[i].parent \in 1..(i - 1) /\ First(tree, tree[i].parent)
          /\ tree[i].cell \in Block(tree[tree[i].parent].cell) \cap (Floor \cup {Root})
      BY DEF Chained
    <2>2. /\ g[i] = tree[i] /\ g[tree[i].parent] = tree[tree[i].parent]
          /\ \A j \in 1..(tree[i].parent - 1) : g[j] = tree[j]
      BY <1>1, <1>6, <2>1
    <2> QED
      BY <2>1, <2>2 DEF First
  <1>9. ASSUME NEW j \in 1..(Len(walk) - 1)
        PROVE  /\ g[n + j].parent \in 1..(n + j - 1) /\ First(g, g[n + j].parent)
               /\ g[n + j].cell \in Block(g[g[n + j].parent].cell) \cap (Floor \cup {Root})
    <2>1. /\ g[n + j].cell = walk[j + 1] /\ g[n + j].parent = parent(j)
          /\ parent(j) \in 1..(n + j - 1)
      BY <1>2, <1>7
    <2>2. walk[j + 1] \in Block(walk[j]) \cap (Cells \ walls)
      <3>1. j + 1 \in 2..Len(walk) /\ (j + 1) - 1 = j
        BY <1>1
      <3> QED
        BY <3>1 DEF WalkInv
    <2>3. walk[j + 1] \in Floor \cup {Root}
      BY <2>2 DEF MapInv, Floor
    <2>4. g[parent(j)].cell = walk[j] /\ First(g, parent(j))
      <3>1. CASE InTree(walk[j])
        <4>1. /\ parent(j) \in 1..n /\ tree[parent(j)].cell = walk[j]
              /\ First(tree, parent(j))
          BY <1>2, <3>1
        <4>2. g[parent(j)] = tree[parent(j)] /\ \A i \in 1..(parent(j) - 1) : g[i] = tree[i]
          BY <1>1, <1>6, <4>1
        <4> QED
          BY <4>1, <4>2 DEF First
      <3>2. CASE ~InTree(walk[j])
        <4>1. parent(j) = n + (j - 1) /\ j - 1 \in 1..(Len(walk) - 1) /\ (j - 1) + 1 = j
          BY <1>1, <1>2, <3>2
        <4>2. g[parent(j)].cell = walk[j]
          BY <1>7, <4>1
        <4>3. ASSUME NEW i \in 1..(parent(j) - 1)
              PROVE  g[i].cell # walk[j]
          <5>1. CASE i <= n
            <6>1. i \in 1..n /\ g[i] = tree[i]
              BY <1>1, <1>6, <5>1
            <6> QED
              BY <3>2, <6>1 DEF InTree
          <5>2. CASE i > n
            <6> DEFINE m == i - n
            <6>1. m \in 1..(Len(walk) - 1) /\ n + m = i /\ m + 1 \in 1..Len(walk) /\ m + 1 # j
                  /\ j \in 1..Len(walk)
              BY <1>1, <4>1, <5>2
            <6> HIDE DEF m
            <6>2. g[i].cell = walk[m + 1]
              BY <1>7, <6>1
            <6> QED
              BY <6>1, <6>2 DEF WalkInv
          <5> QED
            BY <1>1, <4>1, <5>1, <5>2
        <4> QED
          BY <4>2, <4>3 DEF First
      <3> QED
        BY <3>1, <3>2
    <2> QED
      BY <2>1, <2>2, <2>3, <2>4
  <1>10. g[1] = tree[1]
    BY <1>1, <1>6
  <1>11. ASSUME NEW i \in 2..Len(g)
         PROVE  /\ g[i].parent \in 1..(i - 1) /\ First(g, g[i].parent)
                /\ g[i].cell \in Block(g[g[i].parent].cell) \cap (Floor \cup {Root})
    <2>1. CASE i <= n
      BY <1>1, <1>8, <2>1
    <2>2. CASE i > n
      <3> DEFINE j == i - n
      <3>1. j \in 1..(Len(walk) - 1) /\ n + j = i
        BY <1>1, <1>6, <2>2
      <3> HIDE DEF j
      <3> QED
        BY <1>9, <3>1
    <2> QED
      BY <1>1, <2>1, <2>2
  <1>12. \A i \in 2..Len(g) : g[i].parent < i
    BY <1>1, <1>6, <1>11
  <1>13. Chained(g)
    BY <1>11 DEF Chained
  <1>14. Grafted = g
    BY DEF g
  <1> HIDE DEF n
  <1>15. g # << >>
    BY <1>1, <1>6 DEF n
  <1> QED
    BY <1>6, <1>12, <1>13, <1>14, <1>15 DEF n

-----------------------------------------------------------------------------
(* The invariant.                                                           *)

LEMMA RectHasInit ==
  ASSUME init \in Cells, NEW n \in Nat
  PROVE  init \in Rect(n)
PROOF
  <1>1. \A x \in 1..2 : init[x] \in Int
    BY GridAssumption DEF Cells
  <1>2. \A x \in 1..2 : init[x] - n <= init[x] /\ init[x] <= init[x] + n
    BY <1>1
  <1> QED
    BY <1>2 DEF Rect

LEMMA SpanIsPositive ==
  ASSUME init \in Int \X Int, goal \in Int \X Int, NEW x \in 1..2
  PROVE  Span(x) \in Nat \ {0}
PROOF
  <1>1. init[x] \in Int /\ goal[x] \in Int
    BY x \in {1, 2}
  <1>2. CASE init[x] > goal[x]
    BY <1>1, <1>2 DEF Span
  <1>3. CASE ~(init[x] > goal[x])
    BY <1>1, <1>3 DEF Span
  <1> QED
    BY <1>2, <1>3

LEMMA InitInv == Init => RrtInv
PROOF
  <1> SUFFICES ASSUME Init
               PROVE  RrtInv
    OBVIOUS
  <1>1. PICK floor \in Floors, marks \in RobotMarks : walls = Cells \ floor /\ free = floor \ marks
    BY DEF Init
  <1>2. /\ init \in Starts /\ init \in Cells /\ goal \in Goals
        /\ before = [walls |-> walls, free |-> free, goal |-> goal]
        /\ tree = << [cell |-> init, parent |-> 1] >>
        /\ inc = 0 /\ subset = Rect(0) \cap free
        /\ side = (IF Span(1) < Span(2) THEN Span(1) ELSE Span(2))
        /\ sample = init /\ walk = << >> /\ current = 1 /\ result = << >>
        /\ changes = 0 /\ pc = "sample"
    BY RrtAssumption DEF Init
  <1>3. walls \subseteq Cells /\ free \subseteq Cells \ walls
    BY <1>1, RrtAssumption
  <1>4. /\ tree \in Seq(Nodes) /\ Len(tree) = 1 /\ tree[1] = [cell |-> init, parent |-> 1]
        /\ Root = init /\ tree # << >>
    BY <1>2 DEF Nodes, Root
  <1>5. side \in Nat \ {0}
    BY <1>2, PairsOfInt, SpanIsPositive
  <1>6. inc \in 0..MaxIncrement /\ before \in Maps
    <2>1. MaxIncrement \in Nat
      BY GridAssumption DEF MaxIncrement
    <2> QED
      BY <1>2, <1>3, <2>1 DEF Maps
  <1>7. TypeOK
    BY <1>2, <1>3, <1>4, <1>5, <1>6, RrtAssumption DEF TypeOK, Walking
  <1>8. Chained(tree) /\ MapInv /\ WalkInv
    BY <1>2, <1>3, <1>4 DEF Chained, MapInv, WalkInv, Walking
  <1>9. TraceInv /\ ResultIsRoute /\ GoalInv /\ CloseInv
    BY <1>2, <1>3 DEF TraceInv, ResultIsRoute, GoalInv, CloseInv
  <1>10. DrawInv
    BY <1>2, <1>4, RectHasInit DEF DrawInv
  <1> QED
    BY <1>7, <1>8, <1>9, <1>10 DEF RrtInv

LEMMA EnlargeInv ==
  ASSUME RrtInv, Enlarge
  PROVE  RrtInv'
PROOF
  <1>1. TypeOK /\ Chained(tree) /\ MapInv /\ WalkInv /\ TraceInv /\ ResultIsRoute /\ GoalInv
        /\ CloseInv /\ DrawInv
    BY DEF RrtInv
  <1>2. /\ pc = "sample"
        /\ inc' = IF inc < MaxIncrement THEN inc + 1 ELSE inc
        /\ subset' = Rect(inc') \cap free
        /\ UNCHANGED <<before, walls, free, init, goal, tree, side, sample, walk, current,
                       result, changes, pc>>
    BY DEF Enlarge, grid, agent, answer
  <1>3. MaxIncrement \in Nat /\ inc \in 0..MaxIncrement
    BY <1>1, GridAssumption DEF MaxIncrement, TypeOK
  <1>4. inc' \in 0..MaxIncrement
    BY <1>2, <1>3
  <1>5. free \subseteq Cells \ walls /\ subset' \subseteq free /\ subset' \subseteq Cells
    BY <1>1, <1>2 DEF MapInv
  <1>6. TypeOK'
    BY <1>1, <1>2, <1>4, <1>5 DEF TypeOK, Walking
  <1>7. Root' = Root
    BY <1>2 DEF Root
  <1>8. Chained(tree)' /\ MapInv' /\ WalkInv'
    BY <1>1, <1>2, <1>7 DEF Chained, First, Floor, MapInv, WalkInv, Walking, InTree
  <1>9. TraceInv' /\ ResultIsRoute' /\ GoalInv'
    BY <1>1, <1>2 DEF TraceInv, ResultIsRoute, GoalInv, Settled
  <1>10. CloseInv'
    BY <1>2, <1>5 DEF CloseInv
  <1>11. DrawInv'
    <2> SUFFICES ASSUME changes = 0, Root \in before.free
                 PROVE  init = Root /\ subset' # {}
      BY <1>2, <1>7 DEF DrawInv
    <2>1. init = Root /\ init \in Cells
      BY <1>1, <1>2, TypedNodes DEF DrawInv
    <2>2. init \in free
      BY <1>1, <1>2, <2>1 DEF MapInv
    <2>3. init \in Rect(inc')
      <3>1. \A n \in Nat : init \in Rect(n)
        BY <2>1, RectHasInit
      <3>2. inc' \in Nat
        BY <1>3, <1>4
      <3> QED
        BY <3>1, <3>2
    <2> QED
      BY <1>2, <2>1, <2>2, <2>3
  <1> QED
    BY <1>6, <1>8, <1>9, <1>10, <1>11 DEF RrtInv

LEMMA DivideByZeroInv ==
  ASSUME RrtInv, DivideByZero
  PROVE  RrtInv'
PROOF
  <1>1. TypeOK /\ Chained(tree) /\ MapInv /\ WalkInv /\ TraceInv /\ ResultIsRoute /\ GoalInv
        /\ CloseInv /\ DrawInv
    BY DEF RrtInv
  <1>2. /\ pc = "sample" /\ subset = {} /\ pc' = "crashed"
        /\ UNCHANGED <<before, walls, free, init, goal, tree, subset, inc, sample, side, walk,
                       current, result, changes>>
    BY DEF DivideByZero, grid, agent, answer, sampling
  <1>3. Root' = Root
    BY <1>2 DEF Root
  <1>4. TypeOK'
    BY <1>1, <1>2 DEF TypeOK, Walking
  <1>5. Chained(tree)' /\ MapInv' /\ WalkInv'
    BY <1>1, <1>2, <1>3 DEF Chained, First, Floor, MapInv, WalkInv, Walking
  <1>6. TraceInv' /\ ResultIsRoute' /\ GoalInv'
    BY <1>1, <1>2 DEF TraceInv, ResultIsRoute, GoalInv
  <1>7. CloseInv' /\ DrawInv'
    BY <1>1, <1>2, <1>3 DEF CloseInv, DrawInv
  <1> QED
    BY <1>4, <1>5, <1>6, <1>7 DEF RrtInv

\* The first dot of a walk is on a node of the tree: a wall only if it is the root.
LEMMA WalkStarts ==
  ASSUME TypeOK, Chained(tree), MapInv, NEW c \in Int \X Int, StartWalk(c)
  PROVE  /\ walk' \in Seq(Cells) /\ Len(walk') = 1 /\ walk' # << >>
         /\ walk'[1] \in Cells /\ InTree(walk'[1]) /\ walk'[1] \notin free'
         /\ free' \subseteq Cells \ walls' /\ free' \subseteq free
         /\ walls' \subseteq walls /\ walls \ walls' \subseteq {Root}
PROOF
  <1> DEFINE near == tree[Nearest(c)].cell
  <1>1. Nearest(c) \in 1..Len(tree) /\ near \in Cells /\ InTree(near)
    BY NearestIsNearest, TypedNodes DEF InTree
  <1>2. walk' = << near >> /\ free' = free \ {near} /\ walls' = walls \ {near}
    BY DEF StartWalk, Dot
  <1>3. near \in Floor \cup {Root}
    <2>1. CASE Nearest(c) = 1
      BY <2>1 DEF Root
    <2>2. CASE Nearest(c) # 1
      <3>1. Nearest(c) \in 2..Len(tree)
        BY <1>1, <2>2
      <3> QED
        BY <3>1 DEF Chained
    <2> QED
      BY <2>1, <2>2
  <1> HIDE DEF near
  <1>4. walls \ walls' \subseteq {Root}
    BY <1>2, <1>3 DEF MapInv, Floor
  <1>5. walk' \in Seq(Cells) /\ Len(walk') = 1 /\ walk'[1] = near /\ walk' # << >>
    BY <1>1, <1>2
  <1> QED
    BY <1>1, <1>2, <1>4, <1>5 DEF MapInv

LEMMA DrawsInv ==
  ASSUME RrtInv, Draw
  PROVE  RrtInv'
PROOF
  <1>1. TypeOK /\ Chained(tree) /\ MapInv /\ WalkInv /\ TraceInv /\ ResultIsRoute /\ GoalInv
        /\ CloseInv /\ DrawInv
    BY DEF RrtInv
  <1>2. PICK s \in subset : subset # {s} /\ sample' = s /\ StartWalk(s)
    BY DEF Draw
  <1>3. /\ pc = "sample" /\ pc' = "walk"
        /\ UNCHANGED <<before, init, goal, tree, subset, inc, side, current, result, changes>>
    BY DEF Draw, agent, answer
  <1>4. s \in Cells /\ s \in Int \X Int
    BY <1>1, PairsOfInt DEF TypeOK
  <1>5. /\ walk' \in Seq(Cells) /\ Len(walk') = 1 /\ walk' # << >>
        /\ walk'[1] \in Cells /\ InTree(walk'[1]) /\ walk'[1] \notin free'
        /\ free' \subseteq Cells \ walls' /\ free' \subseteq free
        /\ walls' \subseteq walls /\ walls \ walls' \subseteq {Root}
    BY <1>1, <1>2, <1>4, WalkStarts
  <1>6. TypeOK'
    BY <1>1, <1>2, <1>3, <1>4, <1>5 DEF TypeOK, Walking
  <1>7. Root' = Root
    BY <1>3 DEF Root
  <1>8. Chained(tree)'
    BY <1>1, <1>3, <1>7 DEF Chained, First, Floor
  <1>9. MapInv'
    BY <1>1, <1>3, <1>5, <1>7 DEF MapInv
  <1>10. WalkInv'
    BY <1>3, <1>5 DEF WalkInv, InTree
  <1>11. TraceInv' /\ ResultIsRoute' /\ GoalInv'
    BY <1>1, <1>3 DEF TraceInv, ResultIsRoute, GoalInv
  <1>12. CloseInv' /\ DrawInv'
    BY <1>1, <1>2, <1>3, <1>5, <1>7 DEF CloseInv, DrawInv
  <1> QED
    BY <1>6, <1>8, <1>9, <1>10, <1>11, <1>12 DEF RrtInv

LEMMA StepInv ==
  ASSUME RrtInv, Step
  PROVE  RrtInv'
PROOF
  <1>1. TypeOK /\ Chained(tree) /\ MapInv /\ WalkInv /\ TraceInv /\ ResultIsRoute /\ GoalInv
        /\ CloseInv /\ DrawInv
    BY DEF RrtInv
  <1>2. PICK c \in Steps : walk' = Append(walk, c) /\ free' = free \ {c} /\ walls' = walls \ {c}
    BY DEF Step, Dot
  <1>3. /\ Walking
        /\ UNCHANGED <<before, init, goal, tree, subset, inc, sample, side, current, result,
                       changes, pc>>
    BY DEF Step, agent, sampling, answer
  <1>4. /\ walk \in Seq(Cells) /\ Len(walk) \in Nat \ {0}
        /\ c \in free /\ c \in Cells /\ c \in Block(walk[Len(walk)]) /\ c \notin walls
    BY <1>1, <1>2, <1>3 DEF TypeOK, Steps, Here, MapInv
  <1>5. /\ walk' \in Seq(Cells) /\ walk' # << >> /\ Len(walk') = Len(walk) + 1
        /\ \A i \in 1..Len(walk) : walk'[i] = walk[i]
        /\ walk'[Len(walk) + 1] = c
    BY <1>2, <1>4
  <1>6. walls' = walls
    BY <1>2, <1>4
  <1>7. TypeOK'
    BY <1>1, <1>2, <1>3, <1>5, <1>6 DEF TypeOK, Walking
  <1>8. Root' = Root
    BY <1>3 DEF Root
  <1>9. Chained(tree)'
    BY <1>1, <1>3, <1>8 DEF Chained, First, Floor
  <1>10. MapInv'
    BY <1>1, <1>2, <1>3, <1>6, <1>8 DEF MapInv, Walking
  <1>11. \A i \in 1..Len(walk') : i \in 1..Len(walk) \/ i = Len(walk) + 1
    BY <1>4, <1>5
  <1>12. WalkInv'
    <2>1. /\ InTree(walk[1])
          /\ \A j \in 1..Len(walk) : walk[j] \notin free
          /\ \A j \in 2..Len(walk) : walk[j] \in Block(walk[j - 1]) \cap (Cells \ walls)
          /\ \A i, j \in 1..Len(walk) : walk[i] = walk[j] => i = j
      BY <1>1, <1>3 DEF WalkInv
    <2>2. InTree(walk[1])' /\ walk'[1] = walk[1]
      BY <1>3, <1>4, <1>5, <2>1 DEF InTree
    <2>3. \A j \in 1..Len(walk') : walk'[j] \notin free'
      BY <1>2, <1>5, <1>11, <2>1
    <2>4. ASSUME NEW j \in 2..Len(walk')
          PROVE  walk'[j] \in Block(walk'[j - 1]) \cap (Cells \ walls')
      <3>1. CASE j = Len(walk) + 1
        <4>1. j - 1 = Len(walk) /\ walk'[j - 1] = walk[Len(walk)]
          BY <1>4, <1>5, <3>1
        <4> QED
          BY <1>4, <1>5, <1>6, <3>1, <4>1
      <3>2. CASE j # Len(walk) + 1
        <4>1. j \in 2..Len(walk) /\ j \in 1..Len(walk) /\ j - 1 \in 1..Len(walk)
          BY <1>4, <1>5, <3>2
        <4>2. walk'[j] = walk[j] /\ walk'[j - 1] = walk[j - 1]
          BY <1>5, <4>1
        <4> QED
          BY <1>6, <2>1, <4>1, <4>2
      <3> QED
        BY <3>1, <3>2
    <2>5. ASSUME NEW i \in 1..Len(walk'), NEW j \in 1..Len(walk'), walk'[i] = walk'[j]
          PROVE  i = j
      BY <1>4, <1>5, <1>11, <2>1, <2>5
    <2> QED
      BY <2>2, <2>3, <2>4, <2>5 DEF WalkInv
  <1>13. TraceInv' /\ ResultIsRoute'
    BY <1>1, <1>3 DEF TraceInv, ResultIsRoute, Walking
  <1>14. GoalInv'
    BY <1>1, <1>3 DEF GoalInv, Walking
  <1>15. CloseInv' /\ DrawInv'
    BY <1>1, <1>3, <1>6, <1>8 DEF CloseInv, DrawInv, Walking, Close
  <1> QED
    BY <1>7, <1>9, <1>10, <1>12, <1>13, <1>14, <1>15 DEF RrtInv

\* What both ends of a walk do to the tree and to the map.
LEMMA GraftsInv ==
  ASSUME RrtInv, Walking, tree' = Grafted, walk' = << >>, Clear, ~Walking',
         UNCHANGED <<before, goal>>
  PROVE  /\ tree' \in Seq(Nodes) /\ tree' # << >> /\ Len(tree') \in Nat
         /\ \A i \in 2..Len(tree') : tree'[i].parent < i
         /\ \A i \in 1..Len(tree) : i \in 1..Len(tree') /\ tree'[i] = tree[i]
         /\ Root' = Root /\ Chained(tree)' /\ MapInv' /\ WalkInv'
PROOF
  <1>1. TypeOK /\ Chained(tree) /\ MapInv /\ WalkInv
    BY DEF RrtInv
  <1>2. /\ Grafted \in Seq(Nodes) /\ Grafted # << >>
        /\ Len(Grafted) = Len(tree) + Len(walk) - 1
        /\ \A i \in 1..Len(tree) : Grafted[i] = tree[i]
        /\ \A i \in 2..Len(Grafted) : Grafted[i].parent < i
        /\ Chained(Grafted)
    BY <1>1, GraftedTree
  <1>3. Len(tree) \in Nat \ {0} /\ Len(walk) \in Nat \ {0}
    BY <1>1, TypedNodes DEF TypeOK
  <1>4. \A i \in 1..Len(tree) : i \in 1..Len(Grafted)
    BY <1>2, <1>3
  <1>5. Root' = Root
    BY <1>2, <1>3 DEF Root
  <1>6. Chained(tree)'
    BY <1>2, <1>5 DEF Chained, First, Floor
  <1>7. MapInv'
    BY <1>1, <1>5 DEF MapInv, Clear, TypeOK
  <1> QED
    BY <1>2, <1>4, <1>5, <1>6, <1>7 DEF WalkInv

LEMMA GraftInv ==
  ASSUME RrtInv, Graft
  PROVE  RrtInv'
PROOF
  <1>1. TypeOK /\ Chained(tree) /\ MapInv /\ WalkInv /\ TraceInv /\ ResultIsRoute /\ GoalInv
        /\ CloseInv /\ DrawInv
    BY DEF RrtInv
  <1>2. /\ pc = "walk" /\ tree' = Grafted /\ walk' = << >>
        /\ walls' = walls /\ free' = Cells \ walls
        /\ subset' = subset \ {sample}
        /\ pc' = (IF Close(sample, goal) THEN "approach" ELSE "sample")
        /\ UNCHANGED <<before, init, goal, inc, side, sample, current, result, changes>>
    BY DEF Graft, Clear, agent, answer
  <1>3. Walking /\ ~Walking' /\ Clear
    BY <1>2 DEF Walking, Clear
  <1>4. /\ tree' \in Seq(Nodes) /\ tree' # << >> /\ Len(tree') \in Nat
        /\ \A i \in 2..Len(tree') : tree'[i].parent < i
        /\ \A i \in 1..Len(tree) : i \in 1..Len(tree') /\ tree'[i] = tree[i]
        /\ Root' = Root /\ Chained(tree)' /\ MapInv' /\ WalkInv'
    BY <1>2, <1>3, GraftsInv
  <1>5. TypeOK'
    <2>1. current' \in 1..Len(tree') /\ walk' \in Seq(Cells)
      BY <1>1, <1>2, <1>4 DEF TypeOK
    <2>2. free' \subseteq Cells /\ subset' \subseteq Cells
      BY <1>1, <1>2 DEF TypeOK
    <2> QED
      BY <1>1, <1>2, <1>3, <1>4, <2>1, <2>2 DEF TypeOK
  <1>6. TraceInv' /\ ResultIsRoute' /\ GoalInv'
    BY <1>1, <1>2 DEF TraceInv, ResultIsRoute, GoalInv
  <1>7. CloseInv'
    <2>1. subset' \subseteq Cells \ walls' /\ sample \in Cells \ walls
      BY <1>1, <1>2 DEF CloseInv
    <2>2. ASSUME changes = 0, pc' = "approach"
          PROVE  Close(sample, before.goal)
      BY <1>1, <1>2, <2>2 DEF GoalInv
    <2>3. Close(sample, before.goal)' <=> Close(sample, before.goal)
      BY <1>2 DEF Close
    <2>4. changes' = 0 /\ pc' = "approach" => \E c \in Cells \ walls' : Close(c, before.goal)'
      BY <1>2, <2>1, <2>2, <2>3
    <2> QED
      BY <1>2, <2>1, <2>4 DEF CloseInv
  <1>8. DrawInv'
    BY <1>1, <1>2, <1>4 DEF DrawInv
  <1> QED
    BY <1>4, <1>5, <1>6, <1>7, <1>8 DEF RrtInv

LEMMA ApproachInv ==
  ASSUME RrtInv, Approach
  PROVE  RrtInv'
PROOF
  <1>1. TypeOK /\ Chained(tree) /\ MapInv /\ WalkInv /\ TraceInv /\ ResultIsRoute /\ GoalInv
        /\ CloseInv /\ DrawInv
    BY DEF RrtInv
  <1>2. /\ pc = "approach"
        /\ UNCHANGED <<before, init, goal, tree, subset, inc, sample, side, current, result,
                       changes>>
    BY DEF Approach, agent, sampling, answer
  <1>3. Root' = Root
    BY <1>2 DEF Root
  <1>4. CASE pc' = "choose" /\ UNCHANGED <<walk, walls, free>>
    <2>1. TypeOK'
      BY <1>1, <1>2, <1>4 DEF TypeOK, Walking
    <2>2. Chained(tree)' /\ MapInv' /\ WalkInv'
      BY <1>1, <1>2, <1>3, <1>4 DEF Chained, First, Floor, MapInv, WalkInv, Walking
    <2>3. TraceInv' /\ ResultIsRoute' /\ GoalInv'
      BY <1>1, <1>2, <1>4 DEF TraceInv, ResultIsRoute, GoalInv
    <2>4. CloseInv' /\ DrawInv'
      BY <1>1, <1>2, <1>3, <1>4 DEF CloseInv, DrawInv, Close
    <2> QED
      BY <2>1, <2>2, <2>3, <2>4 DEF RrtInv
  <1>5. CASE pc' = "last" /\ StartWalk(goal)
    <2>1. goal \in Int \X Int
      BY <1>1, TypedNodes
    <2>2. /\ walk' \in Seq(Cells) /\ Len(walk') = 1 /\ walk' # << >>
          /\ walk'[1] \in Cells /\ InTree(walk'[1]) /\ walk'[1] \notin free'
          /\ free' \subseteq Cells \ walls' /\ free' \subseteq free
          /\ walls' \subseteq walls /\ walls \ walls' \subseteq {Root}
      BY <1>1, <1>5, <2>1, WalkStarts
    <2>3. TypeOK'
      BY <1>1, <1>2, <1>5, <2>2 DEF TypeOK, Walking
    <2>4. Chained(tree)'
      BY <1>1, <1>2, <1>3 DEF Chained, First, Floor
    <2>5. MapInv'
      BY <1>1, <1>2, <1>3, <1>5, <2>2 DEF MapInv
    <2>6. WalkInv'
      BY <1>2, <1>5, <2>2 DEF WalkInv, InTree
    <2>7. TraceInv' /\ ResultIsRoute' /\ GoalInv'
      BY <1>1, <1>2, <1>5 DEF TraceInv, ResultIsRoute, GoalInv
    <2>8. CloseInv' /\ DrawInv'
      BY <1>1, <1>2, <1>3, <1>5, <2>2 DEF CloseInv, DrawInv, Close
    <2> QED
      BY <2>3, <2>4, <2>5, <2>6, <2>7, <2>8 DEF RrtInv
  <1> QED
    BY <1>4, <1>5 DEF Approach, grid

LEMMA GraftLastInv ==
  ASSUME RrtInv, GraftLast
  PROVE  RrtInv'
PROOF
  <1>1. TypeOK /\ Chained(tree) /\ MapInv /\ WalkInv /\ TraceInv /\ ResultIsRoute /\ GoalInv
        /\ CloseInv /\ DrawInv
    BY DEF RrtInv
  <1>2. /\ pc = "last" /\ tree' = Grafted /\ walk' = << >> /\ pc' = "choose"
        /\ walls' = walls /\ free' = Cells \ walls
        /\ UNCHANGED <<before, init, goal, subset, inc, side, sample, current, result, changes>>
    BY DEF GraftLast, Clear, agent, answer, sampling
  <1>3. Walking /\ ~Walking' /\ Clear
    BY <1>2 DEF Walking, Clear
  <1>4. /\ tree' \in Seq(Nodes) /\ tree' # << >> /\ Len(tree') \in Nat
        /\ \A i \in 2..Len(tree') : tree'[i].parent < i
        /\ \A i \in 1..Len(tree) : i \in 1..Len(tree') /\ tree'[i] = tree[i]
        /\ Root' = Root /\ Chained(tree)' /\ MapInv' /\ WalkInv'
    BY <1>2, <1>3, GraftsInv
  <1>5. TypeOK'
    <2>1. current' \in 1..Len(tree') /\ walk' \in Seq(Cells)
      BY <1>1, <1>2, <1>4 DEF TypeOK
    <2>2. free' \subseteq Cells
      BY <1>2
    <2> QED
      BY <1>1, <1>2, <1>3, <1>4, <2>1, <2>2 DEF TypeOK
  <1>6. TraceInv' /\ ResultIsRoute' /\ GoalInv'
    BY <1>1, <1>2 DEF TraceInv, ResultIsRoute, GoalInv
  <1>7. CloseInv' /\ DrawInv'
    BY <1>1, <1>2, <1>4 DEF CloseInv, DrawInv, Close
  <1> QED
    BY <1>4, <1>5, <1>6, <1>7 DEF RrtInv

LEMMA ChooseInv ==
  ASSUME RrtInv, Choose
  PROVE  RrtInv'
PROOF
  <1>1. TypeOK /\ Chained(tree) /\ MapInv /\ WalkInv /\ TraceInv /\ ResultIsRoute /\ GoalInv
        /\ CloseInv /\ DrawInv
    BY DEF RrtInv
  <1>2. /\ pc = "choose" /\ pc' = "find"
        /\ goal' = (IF InTree(goal) THEN goal ELSE tree[Nearest(goal)].cell)
        /\ UNCHANGED <<before, walls, free, init, tree, subset, inc, sample, side, walk,
                       current, result, changes>>
    BY DEF Choose, grid, sampling, answer
  <1>3. goal \in Int \X Int /\ before.goal \in Int \X Int
    BY <1>1, TypedNodes
  <1>4. /\ Nearest(goal) \in 1..Len(tree) /\ tree[Nearest(goal)].cell \in Cells
        /\ \A j \in 1..Len(tree) : Dist2(tree[Nearest(goal)].cell, goal) <= Dist2(tree[j].cell, goal)
    BY <1>1, <1>3, NearestIsNearest, TypedNodes
  <1>5. TypeOK'
    BY <1>1, <1>2, <1>4 DEF TypeOK, Walking
  <1>6. Root' = Root
    BY <1>2 DEF Root
  <1>7. Chained(tree)' /\ MapInv' /\ WalkInv'
    BY <1>1, <1>2, <1>6 DEF Chained, First, Floor, MapInv, WalkInv, Walking
  <1>8. TraceInv' /\ ResultIsRoute'
    BY <1>1, <1>2 DEF TraceInv, ResultIsRoute
  <1>9. GoalInv'
    <2> SUFFICES ASSUME changes = 0
                 PROVE  Settled(goal)'
      BY <1>1, <1>2 DEF GoalInv, TraceInv
    <2>1. goal = before.goal
      BY <1>1, <1>2 DEF GoalInv
    <2>2. CASE InTree(goal)
      <3>1. Dist2(goal, goal) = 0
        <4>1. goal[1] \in Int /\ goal[2] \in Int
          BY <1>3
        <4> QED
          BY <4>1 DEF Dist2
      <3>2. \A i \in 1..Len(tree) : Dist2(tree[i].cell, goal) \in Nat
        BY <1>1, <1>3, TypedNodes, PairsOfInt, Dist2IsNat
      <3>3. \A i \in 1..Len(tree) : Dist2(goal, goal) <= Dist2(tree[i].cell, goal)
        BY <3>1, <3>2
      <3> QED
        BY <1>2, <2>1, <2>2, <3>3 DEF Settled, InTree
    <2>3. CASE ~InTree(goal)
      <3>1. goal' = tree[Nearest(goal)].cell
        BY <1>2, <2>3
      <3> QED
        BY <1>2, <1>4, <2>1, <3>1 DEF Settled, InTree
    <2> QED
      BY <2>2, <2>3
  <1>10. CloseInv' /\ DrawInv'
    BY <1>1, <1>2, <1>6 DEF CloseInv, DrawInv, Close
  <1> QED
    BY <1>5, <1>7, <1>8, <1>9, <1>10 DEF RrtInv

LEMMA FindGoalInv ==
  ASSUME RrtInv, FindGoal
  PROVE  RrtInv'
PROOF
  <1>1. TypeOK /\ Chained(tree) /\ MapInv /\ WalkInv /\ TraceInv /\ ResultIsRoute /\ GoalInv
        /\ CloseInv /\ DrawInv
    BY DEF RrtInv
  <1>2. /\ pc = "find"
        /\ UNCHANGED <<before, walls, free, init, goal, tree, subset, inc, sample, side, walk,
                       result, changes>>
        /\ \/ InTree(goal) /\ current' = Find(tree, goal) /\ pc' = "trace"
           \/ ~InTree(goal) /\ current' = current /\ pc' = "lost"
    BY DEF FindGoal, grid, agent, sampling
  <1>3. result = << >>
    BY <1>1, <1>2 DEF TraceInv
  <1>4. InTree(goal) => /\ current' \in 1..Len(tree) /\ tree[current'].cell = goal
                        /\ First(tree, current')
    BY <1>1, <1>2, FindFinds
  <1>5. current' \in 1..Len(tree)
    BY <1>1, <1>2, <1>4 DEF TypeOK
  <1>6. TypeOK'
    BY <1>1, <1>2, <1>5 DEF TypeOK, Walking
  <1>7. Root' = Root
    BY <1>2 DEF Root
  <1>8. Chained(tree)' /\ MapInv' /\ WalkInv'
    BY <1>1, <1>2, <1>7 DEF Chained, First, Floor, MapInv, WalkInv, Walking
  <1>9. First(tree, current') => First(tree, current)'
    BY <1>2 DEF First
  <1>10. TraceInv' /\ ResultIsRoute'
    <2>1. CASE pc' = "trace"
      <3>1. result' = << >> /\ Len(result') = 0 /\ First(tree, current)'
        BY <1>2, <1>3, <1>4, <1>9, <2>1
      <3> QED
        BY <2>1, <3>1 DEF TraceInv, ResultIsRoute
    <2>2. CASE pc' = "lost"
      BY <1>2, <1>3, <2>2 DEF TraceInv, ResultIsRoute
    <2> QED
      BY <1>2, <2>1, <2>2
  <1>11. GoalInv'
    <2> SUFFICES ASSUME changes = 0
                 PROVE  Settled(goal)' /\ pc' = "trace" /\ tree'[current'].cell = goal'
      BY <1>2, <1>3 DEF GoalInv
    <2>1. Settled(goal) /\ InTree(goal)
      BY <1>1, <1>2 DEF GoalInv, Settled
    <2>2. Settled(goal)'
      BY <1>2, <2>1 DEF Settled, InTree
    <2> QED
      BY <1>2, <1>4, <2>1, <2>2
  <1>12. CloseInv' /\ DrawInv'
    BY <1>1, <1>2, <1>7 DEF CloseInv, DrawInv, Close
  <1> QED
    BY <1>6, <1>8, <1>10, <1>11, <1>12 DEF RrtInv

LEMMA TraceStepInv ==
  ASSUME RrtInv, Trace
  PROVE  RrtInv'
PROOF
  <1> DEFINE c == tree[current].cell
  <1>1. TypeOK /\ Chained(tree) /\ MapInv /\ WalkInv /\ TraceInv /\ ResultIsRoute /\ GoalInv
        /\ CloseInv /\ DrawInv
    BY DEF RrtInv
  <1>2. /\ pc = "trace" /\ result' = << c >> \o result
        /\ UNCHANGED <<before, walls, free, init, goal, tree, subset, inc, sample, side, walk,
                       changes>>
        /\ \/ c = Root /\ pc' = "returned" /\ current' = current
           \/ c # Root /\ pc' = "trace" /\ current' = tree[current].parent
    BY DEF Trace, grid, agent, sampling, Root
  <1>3. /\ current \in 1..Len(tree) /\ c \in Cells /\ result \in Seq(Cells) /\ Len(tree) \in Nat
        /\ Root \in Cells
    <2>1. current \in 1..Len(tree) /\ result \in Seq(Cells)
      BY <1>1 DEF TypeOK
    <2> QED
      BY <1>1, <2>1, TypedNodes
  <1>a. First(tree, current) /\ \A m \in 1..(current - 1) : tree[m].cell # c
    BY <1>1, <1>2 DEF TraceInv, First
  <1>b. /\ \A i \in 1..Len(result) :
             result[i] \in Floor /\ \A m \in 1..current : tree[m].cell # result[i]
        /\ \A i \in 2..Len(result) : result[i] \in Block(result[i - 1])
        /\ \A i, j \in 1..Len(result) : result[i] = result[j] => i = j
        /\ result # << >> => result[1] \in Block(c)
    BY <1>1, <1>2 DEF TraceInv
  <1>c. current # 1 => /\ tree[current].parent \in 1..(current - 1)
                       /\ tree[current].parent \in 1..Len(tree)
                       /\ First(tree, tree[current].parent)
                       /\ c \in Block(tree[tree[current].parent].cell) \cap (Floor \cup {Root})
    <2> SUFFICES ASSUME current # 1
                 PROVE  /\ tree[current].parent \in 1..(current - 1)
                        /\ tree[current].parent \in 1..Len(tree)
                        /\ First(tree, tree[current].parent)
                        /\ c \in Block(tree[tree[current].parent].cell) \cap (Floor \cup {Root})
      OBVIOUS
    <2>1. current \in 2..Len(tree)
      BY <1>3
    <2>2. /\ tree[current].parent \in 1..(current - 1) /\ First(tree, tree[current].parent)
          /\ c \in Block(tree[tree[current].parent].cell) \cap (Floor \cup {Root})
      BY <1>1, <2>1 DEF Chained
    <2>3. tree[current].parent \in 1..Len(tree)
      BY <1>3, <2>2
    <2> QED
      BY <2>2, <2>3
  <1>d. current = 1 => c = Root
    BY DEF Root
  <1> HIDE DEF c
  <1>4. /\ result' \in Seq(Cells) /\ Len(result') = Len(result) + 1 /\ result'[1] = c
        /\ \A i \in 1..Len(result) : result'[i + 1] = result[i]
    BY <1>2, <1>3
  <1>5. \A i \in 1..Len(result') : i = 1 \/ (i - 1 \in 1..Len(result) /\ result'[i] = result[i - 1])
    <2> TAKE i \in 1..Len(result')
    <2>1. CASE i # 1
      <3>1. i - 1 \in 1..Len(result) /\ (i - 1) + 1 = i
        BY <1>3, <1>4, <2>1
      <3> QED
        BY <1>4, <3>1
    <2> QED
      BY <2>1
  <1>6. \A i \in 2..Len(result') : result'[i] \in Floor \cap Block(result'[i - 1])
    <2> TAKE i \in 2..Len(result')
    <2>1. i - 1 \in 1..Len(result) /\ result'[i] = result[i - 1] /\ result[i - 1] \in Floor
      BY <1>3, <1>4, <1>5, <1>b
    <2>2. CASE i = 2
      <3>1. i - 1 = 1 /\ result # << >>
        BY <1>3, <2>1, <2>2
      <3> QED
        BY <1>4, <1>b, <2>1, <3>1
    <2>3. CASE i # 2
      <3>1. i - 1 \in 2..Len(result) /\ (i - 1) - 1 \in 1..Len(result) /\ i - 1 \in 1..Len(result')
        BY <1>3, <1>4, <2>1, <2>3
      <3>2. result'[i - 1] = result[(i - 1) - 1]
        BY <1>5, <2>3, <3>1
      <3> QED
        BY <1>b, <2>1, <3>1, <3>2
    <2> QED
      BY <2>2, <2>3
  <1>7. \A i \in 1..Len(result) : result[i] # c
    BY <1>3, <1>b DEF c
  <1>8. ASSUME NEW i \in 1..Len(result'), NEW j \in 1..Len(result'), result'[i] = result'[j]
        PROVE  i = j
    <2>1. CASE i = 1 \/ j = 1
      BY <1>4, <1>5, <1>7, <1>8, <2>1
    <2>2. CASE i # 1 /\ j # 1
      <3>1. i - 1 \in 1..Len(result) /\ j - 1 \in 1..Len(result) /\ result[i - 1] = result[j - 1]
        BY <1>5, <1>8, <2>2
      <3>2. i - 1 = j - 1
        BY <1>b, <3>1
      <3> QED
        BY <3>2
    <2> QED
      BY <2>1, <2>2
  <1>9. Root' = Root /\ Floor' = Floor
    BY <1>2 DEF Root, Floor
  <1>10. Chained(tree)' /\ MapInv' /\ WalkInv'
    <2>1. Chained(tree)'
      BY <1>1, <1>2, <1>9 DEF Chained, First
    <2>2. MapInv' /\ WalkInv'
      BY <1>1, <1>2, <1>9 DEF MapInv, WalkInv, Walking
    <2> QED
      BY <2>1, <2>2
  <1>11. GoalInv'
    <2> SUFFICES ASSUME changes = 0
                 PROVE  /\ Settled(goal)' /\ result' # << >> /\ result'[Len(result')] = goal'
      BY <1>2 DEF GoalInv
    <2>1. Settled(goal) /\ (result = << >> => c = goal) /\ (result # << >> => result[Len(result)] = goal)
      BY <1>1, <1>2 DEF GoalInv, c
    <2>2. result' # << >> /\ result'[Len(result')] = goal
      <3>1. CASE result = << >>
        BY <1>4, <2>1, <3>1
      <3>2. CASE result # << >>
        <4>1. Len(result) \in 1..Len(result)
          BY <1>3, <3>2
        <4> QED
          BY <1>3, <1>4, <2>1, <3>2, <4>1
      <3> QED
        BY <3>1, <3>2
    <2>3. Settled(goal)'
      BY <1>2, <2>1 DEF Settled, InTree
    <2> QED
      BY <1>2, <2>2, <2>3
  <1>12. CloseInv' /\ DrawInv'
    BY <1>1, <1>2, <1>9 DEF CloseInv, DrawInv, Close
  <1>13. CASE c = Root
    <2>1. IsRoute(result', Root, Floor)
      BY <1>3, <1>4, <1>6, <1>8, <1>13 DEF IsRoute
    <2>2. IsRoute(result, tree[1].cell, Cells \ before.walls)'
      BY <1>2, <2>1 DEF Root, Floor, IsRoute
    <2>3. pc' = "returned" /\ current' = current
      BY <1>2, <1>13
    <2>4. TypeOK'
      BY <1>1, <1>2, <1>4, <2>3 DEF TypeOK, Walking
    <2>5. TraceInv' /\ ResultIsRoute'
      BY <2>2, <2>3 DEF TraceInv, ResultIsRoute
    <2> QED
      BY <1>10, <1>11, <1>12, <2>4, <2>5 DEF RrtInv
  <1>14. CASE c # Root
    <2>1. /\ pc' = "trace" /\ current' \in 1..(current - 1) /\ current' \in 1..Len(tree)
          /\ First(tree, current') /\ c \in Block(tree[current'].cell) \cap Floor
      BY <1>2, <1>14, <1>c, <1>d
    <2>2. PICK p \in 1..(current - 1) : p = current'
      BY <2>1
    <2>3. ASSUME NEW i \in 1..Len(result'), NEW m \in 1..p
          PROVE  tree[m].cell # result'[i]
      <3>1. m \in 1..(current - 1) /\ m \in 1..current
        BY <1>3
      <3>2. CASE i = 1
        BY <1>4, <1>a, <3>1, <3>2
      <3>3. CASE i # 1
        BY <1>5, <1>b, <3>1, <3>3
      <3> QED
        BY <3>2, <3>3
    <2>4. \A i \in 1..Len(result') : result'[i] \in Floor
      BY <1>4, <1>5, <1>b, <2>1
    <2>5. First(tree, current)'
      BY <1>2, <2>1 DEF First
    <2>6. TraceInv'
      <3>1. \A i \in 1..Len(result') :
              result'[i] \in Floor' /\ \A m \in 1..current' : tree'[m].cell # result'[i]
        BY <1>2, <1>9, <2>2, <2>3, <2>4
      <3>2. \A i \in 2..Len(result') : result'[i] \in Block(result'[i - 1])
        BY <1>6
      <3>3. result'[1] \in Block(tree'[current'].cell)
        BY <1>2, <1>4, <2>1
      <3> QED
        BY <1>8, <2>1, <2>5, <3>1, <3>2, <3>3 DEF TraceInv
    <2>7. TypeOK'
      BY <1>1, <1>2, <1>4, <2>1 DEF TypeOK, Walking
    <2>8. ResultIsRoute'
      BY <2>1 DEF ResultIsRoute
    <2> QED
      BY <1>10, <1>11, <1>12, <2>6, <2>7, <2>8 DEF RrtInv
  <1> QED
    BY <1>13, <1>14

LEMMA ChangedInv ==
  ASSUME RrtInv, Changed, goal' \in Goals \cup Cells, init' \in Starts
  PROVE  RrtInv'
PROOF
  <1>1. TypeOK /\ Chained(tree) /\ MapInv /\ WalkInv /\ TraceInv /\ ResultIsRoute /\ CloseInv
    BY DEF RrtInv
  <1>2. /\ changes < MaxChanges /\ changes' = changes + 1 /\ pc # "returned"
        /\ UNCHANGED <<before, walls, free, tree, subset, inc, sample, side, walk, current,
                       result, pc>>
    BY DEF Changed, grid, sampling, answer
  <1>3. changes' \in 0..MaxChanges /\ changes' # 0
    BY <1>1, <1>2, RrtAssumption DEF TypeOK
  <1>4. TypeOK'
    BY <1>1, <1>2, <1>3 DEF TypeOK, Walking
  <1>5. Root' = Root
    BY <1>2 DEF Root
  <1>6. Chained(tree)'
    BY <1>1, <1>2, <1>5 DEF Chained, First, Floor
  <1>7. MapInv' /\ WalkInv'
    BY <1>1, <1>2, <1>5 DEF MapInv, WalkInv, Walking, InTree
  <1>8. TraceInv' /\ ResultIsRoute'
    BY <1>1, <1>2 DEF TraceInv, First, Floor, ResultIsRoute
  <1>9. GoalInv' /\ CloseInv' /\ DrawInv'
    BY <1>1, <1>2, <1>3 DEF GoalInv, CloseInv, DrawInv
  <1> QED
    BY <1>4, <1>6, <1>7, <1>8, <1>9 DEF RrtInv

LEMMA NextInv ==
  ASSUME RrtInv, [Next]_vars
  PROVE  RrtInv'
PROOF
  <1>1. CASE Search
    BY <1>1, EnlargeInv, DivideByZeroInv, DrawsInv, StepInv, GraftInv, ApproachInv,
       GraftLastInv, ChooseInv, FindGoalInv, TraceStepInv DEF Search
  <1>2. CASE Retarget
    <2>1. Changed /\ goal' \in Goals \cup Cells /\ init' \in Starts
      BY <1>2 DEF Retarget, RrtInv, TypeOK
    <2> QED
      BY <2>1, ChangedInv
  <1>3. CASE Reposition
    <2>1. Changed /\ goal' \in Goals \cup Cells /\ init' \in Starts
      BY <1>3 DEF Reposition, RrtInv, TypeOK
    <2> QED
      BY <2>1, ChangedInv
  <1>4. CASE UNCHANGED vars
    <2>1. UNCHANGED <<before, walls, free, init, goal, tree, subset, inc, sample, side, walk,
                      current, result, changes, pc>>
      BY <1>4 DEF vars
    <2>2. Root' = Root
      BY <2>1 DEF Root
    <2>3. TypeOK' /\ Chained(tree)'
      BY <2>1, <2>2 DEF RrtInv, TypeOK, Walking, Chained, First, Floor
    <2>4. MapInv' /\ WalkInv'
      BY <2>1, <2>2 DEF RrtInv, MapInv, WalkInv, Walking, InTree
    <2>5. TraceInv' /\ ResultIsRoute'
      BY <2>1 DEF RrtInv, TraceInv, First, Floor, ResultIsRoute
    <2>6. GoalInv' /\ CloseInv' /\ DrawInv'
      BY <2>1, <2>2 DEF RrtInv, GoalInv, Settled, InTree, CloseInv, DrawInv, Close
    <2> QED
      BY <2>3, <2>4, <2>5, <2>6 DEF RrtInv
  <1> QED
    BY <1>1, <1>2, <1>3, <1>4 DEF Next

LEMMA RrtAlways == Spec => []RrtInv
PROOF
  <1> QED
    BY InitInv, NextInv, PTL DEF Spec

-----------------------------------------------------------------------------
(* The rank.                                                                *)

\* Sets of cells are finite; a smaller one has fewer cells.
LEMMA CellsAreFinite ==
  ASSUME NEW s \in SUBSET Cells
  PROVE  IsFiniteSet(s) /\ Cardinality(s) \in Nat
PROOF
  <1>1. IsFiniteSet(0..(Rows - 1)) /\ IsFiniteSet(0..(Cols - 1))
    BY GridAssumption, FS_Interval
  <1>2. IsFiniteSet(Cells)
    BY <1>1, FS_Product DEF Cells
  <1>3. IsFiniteSet(s)
    BY <1>2, FS_Subset
  <1> QED
    BY <1>3, FS_CardinalityType

LEMMA OneFewer ==
  ASSUME NEW s \in SUBSET Cells, NEW c \in s
  PROVE  Cardinality(s \ {c}) < Cardinality(s)
PROOF
  <1>1. IsFiniteSet(s) /\ Cardinality(s) \in Nat
    BY CellsAreFinite
  <1>2. Cardinality(s \ {c}) = Cardinality(s) - 1
    BY <1>1, FS_RemoveElement
  <1> QED
    BY <1>1, <1>2

\* The largest rectangle has all cells in it.
LEMMA LargestRect ==
  ASSUME init \in Cells
  PROVE  Cells \subseteq Rect(MaxIncrement)
PROOF
  <1> SUFFICES ASSUME NEW c \in Cells
               PROVE  c \in Rect(MaxIncrement)
    OBVIOUS
  <1>1. PICK a, b \in Nat : c = <<a, b>> /\ a < Rows /\ b < Cols
    BY GridAssumption DEF Cells
  <1>2. PICK d, e \in Nat : init = <<d, e>> /\ d < Rows /\ e < Cols
    BY GridAssumption DEF Cells
  <1>3. PICK n \in Nat : n = MaxIncrement /\ n >= Rows /\ n >= Cols
    BY GridAssumption DEF MaxIncrement
  <1>4. d - n <= a /\ a <= d + n /\ e - n <= b /\ b <= e + n
    BY <1>1, <1>2, <1>3, GridAssumption
  <1>5. ASSUME NEW x \in 1..2
        PROVE  init[x] - n <= c[x] /\ c[x] <= init[x] + n
    <2>1. CASE x = 1
      BY <1>1, <1>2, <1>4, <2>1
    <2>2. CASE x = 2
      BY <1>1, <1>2, <1>4, <2>2
    <2> QED
      BY <2>1, <2>2
  <1> QED
    BY <1>3, <1>5 DEF Rect

\* The places of the rank are naturals.
LEMMA RankParts ==
  ASSUME TypeOK
  PROVE  RankIsNatural
PROOF
  <1>1. MaxChanges - changes \in Nat
    BY RrtAssumption DEF TypeOK
  <1>2. MaxIncrement - inc \in Nat
    BY GridAssumption DEF TypeOK, MaxIncrement
  <1>3. Cardinality(subset) \in Nat /\ Cardinality(free) \in Nat
    BY CellsAreFinite DEF TypeOK
  <1>4. Stage \in Nat
    BY DEF Stage
  <1>5. current \in Nat
    <2>1. current \in 1..Len(tree) /\ tree \in Seq(Nodes)
      BY DEF TypeOK
    <2> QED
      BY <2>1
  <1> QED
    BY <1>1, <1>2, <1>3, <1>4, <1>5 DEF RankIsNatural, Rank

\* A step that leaves the drawing alone lowers the rank if it ends a stage or
\* is one of its steps.
LEMMA StageFalls ==
  ASSUME UNCHANGED <<changes, inc, subset>>,
         Stage' < Stage \/ (Stage' = Stage /\ Rank'[5] < Rank[5])
  PROVE  Below(Rank', Rank)
PROOF
  <1>1. /\ Rank'[1] = Rank[1] /\ Rank'[2] = Rank[2] /\ Rank'[3] = Rank[3]
        /\ Rank'[4] = Stage' /\ Rank[4] = Stage /\ DOMAIN Rank' = 1..5
    BY DEF Rank
  <1> HIDE DEF Rank
  <1>2. CASE Stage' < Stage
    <2>1. \A j \in 1..(4 - 1) : Rank'[j] = Rank[j]
      BY <1>1
    <2>2. Rank'[4] < Rank[4] /\ 4 \in DOMAIN Rank'
      BY <1>1, <1>2
    <2> QED
      BY <2>1, <2>2 DEF Below
  <1>3. CASE Stage' = Stage /\ Rank'[5] < Rank[5]
    <2>1. \A j \in 1..(5 - 1) : Rank'[j] = Rank[j]
      BY <1>1, <1>3
    <2>2. Rank'[5] < Rank[5] /\ 5 \in DOMAIN Rank'
      BY <1>1, <1>3
    <2> QED
      BY <2>1, <2>2 DEF Below
  <1> QED
    BY <1>2, <1>3

\* Every step lowers the rank, or draws from all that is free again.
LEMMA StepFalls ==
  ASSUME RrtInv, Next
  PROVE  Below(Rank', Rank) \/ DrawsFromAllAgain
PROOF
  <1>1. TypeOK /\ Chained(tree) /\ CloseInv
    BY DEF RrtInv
  <1>2. /\ free \subseteq Cells /\ subset \subseteq Cells /\ init \in Cells
        /\ inc \in 0..MaxIncrement /\ changes \in 0..MaxChanges
        /\ MaxIncrement \in Nat /\ MaxChanges \in Nat
    BY <1>1, GridAssumption, RrtAssumption DEF TypeOK, MaxIncrement
  <1>3. DOMAIN Rank' = 1..5
    BY DEF Rank
  <1>4. CASE Enlarge
    <2>1. /\ subset' = Rect(inc') \cap free /\ changes' = changes
          /\ inc' = IF inc < MaxIncrement THEN inc + 1 ELSE inc
      BY <1>4 DEF Enlarge
    <2>2. CASE inc < MaxIncrement
      <3>1. inc' = inc + 1
        BY <2>1, <2>2
      <3>2. Rank'[1] = Rank[1] /\ Rank'[2] = MaxIncrement - inc' /\ Rank[2] = MaxIncrement - inc
        BY <2>1 DEF Rank, MaxIncrement
      <3>3. Rank'[2] < Rank[2] /\ \A j \in 1..(2 - 1) : Rank'[j] = Rank[j]
        BY <1>2, <3>1, <3>2
      <3>4. 2 \in DOMAIN Rank'
        BY <1>3
      <3> QED
        BY <3>3, <3>4 DEF Below
    <2>3. CASE ~(inc < MaxIncrement)
      <3>1. inc = MaxIncrement /\ inc' = inc
        BY <1>2, <2>1, <2>3
      <3>2. subset' = free
        BY <1>2, <2>1, <3>1, LargestRect
      <3> QED
        BY <1>4, <3>1, <3>2 DEF DrawsFromAllAgain
    <2> QED
      BY <2>2, <2>3
  <1>5. CASE DivideByZero \/ Draw \/ Approach \/ GraftLast \/ Choose \/ FindGoal
    <2>1. UNCHANGED <<changes, inc, subset>>
      BY <1>5 DEF DivideByZero, Draw, Approach, GraftLast, Choose, FindGoal, sampling
    <2>2. \/ pc = "sample" /\ pc' \in {"crashed", "walk"}
          \/ pc = "approach" /\ pc' \in {"choose", "last"}
          \/ pc = "last" /\ pc' = "choose"
          \/ pc = "choose" /\ pc' = "find"
          \/ pc = "find" /\ pc' \in {"trace", "lost"}
      BY <1>5 DEF DivideByZero, Draw, Approach, GraftLast, Choose, FindGoal
    <2>3. Stage' < Stage
      BY <2>2 DEF Stage
    <2> QED
      BY <2>1, <2>3, StageFalls
  <1>6. CASE Step
    <2>1. PICK c \in Steps : free' = free \ {c}
      BY <1>6 DEF Step, Dot
    <2>2. /\ UNCHANGED <<changes, inc, subset>> /\ pc' = pc /\ pc \in {"walk", "last"}
      BY <1>6 DEF Step, sampling, Walking
    <2>3. c \in free
      BY <2>1 DEF Steps
    <2>4. Cardinality(free') < Cardinality(free)
      BY <1>2, <2>1, <2>3, OneFewer
    <2>5. Stage' = Stage /\ Rank'[5] < Rank[5]
      BY <2>2, <2>4 DEF Stage, Rank
    <2> QED
      BY <2>2, <2>5, StageFalls
  <1>7. CASE Graft
    <2>1. /\ subset' = subset \ {sample} /\ UNCHANGED <<changes, inc>> /\ pc = "walk"
      BY <1>7 DEF Graft
    <2>2. sample \in subset
      BY <1>1, <2>1 DEF CloseInv
    <2>3. Cardinality(subset') < Cardinality(subset)
      BY <1>2, <2>1, <2>2, OneFewer
    <2>4. Rank'[1] = Rank[1] /\ Rank'[2] = Rank[2] /\ Rank'[3] < Rank[3]
      BY <2>1, <2>3 DEF Rank, MaxIncrement
    <2>5. 3 \in DOMAIN Rank' /\ \A j \in 1..(3 - 1) : Rank'[j] = Rank[j]
      BY <1>3, <2>4
    <2> QED
      BY <2>4, <2>5 DEF Below
  <1>8. CASE Trace
    <2>1. pc = "trace" /\ UNCHANGED <<changes, inc, subset>>
      BY <1>8 DEF Trace, sampling
    <2>2. CASE tree[current].cell = tree[1].cell
      <3>1. pc' = "returned"
        BY <1>8, <2>2 DEF Trace
      <3>2. Stage = 1 /\ Stage' = 0
        BY <2>1, <3>1 DEF Stage
      <3> QED
        BY <2>1, <3>2, StageFalls
    <2>3. CASE tree[current].cell # tree[1].cell
      <3>1. pc' = "trace" /\ current' = tree[current].parent
        BY <1>8, <2>3 DEF Trace
      <3>2. current \in 2..Len(tree)
        <4>1. current \in 1..Len(tree) /\ tree \in Seq(Nodes)
          BY <1>1 DEF TypeOK
        <4> QED
          BY <2>3, <4>1
      <3>3. current' \in 1..(current - 1)
        BY <1>1, <3>1, <3>2 DEF Chained
      <3>4. current' < current
        BY <3>2, <3>3
      <3>5. Stage' = Stage /\ Rank'[5] < Rank[5]
        BY <2>1, <3>1, <3>4 DEF Stage, Rank
      <3> QED
        BY <2>1, <3>5, StageFalls
    <2> QED
      BY <2>2, <2>3
  <1>9. CASE Retarget \/ Reposition
    <2>1. changes' = changes + 1
      BY <1>9 DEF Retarget, Reposition, Changed
    <2>2. Rank'[1] = MaxChanges - changes' /\ Rank[1] = MaxChanges - changes
      BY DEF Rank
    <2>3. Rank'[1] < Rank[1] /\ \A j \in 1..(1 - 1) : Rank'[j] = Rank[j]
      BY <1>2, <2>1, <2>2
    <2>4. 1 \in DOMAIN Rank'
      BY <1>3
    <2> QED
      BY <2>3, <2>4 DEF Below
  <1> QED
    BY <1>4, <1>5, <1>6, <1>7, <1>8, <1>9 DEF Next, Search

-----------------------------------------------------------------------------
(* The theorems.                                                            *)

\* Every variable of the search stays in its range.
THEOREM TypeCorrect == Spec => []TypeOK
PROOF
  <1>1. RrtInv => TypeOK
    BY DEF RrtInv
  <1> QED
    BY <1>1, RrtAlways, PTL

\* rrt_path returns a route over cells that were no walls, from the root of
\* its tree, although cells join the tree more than once and walks cross it.
THEOREM ReturnsRoutes == Spec => []ResultIsRoute
PROOF
  <1>1. RrtInv => ResultIsRoute
    BY DEF RrtInv
  <1> QED
    BY <1>1, RrtAlways, PTL

\* No cell the search has seen is closer to the goal than the path's end.
THEOREM EndsAtClosest == Spec => []EndsClosest
PROOF
  <1>1. RrtInv => EndsClosest
    <2> SUFFICES ASSUME RrtInv, pc = "returned", changes = 0, NEW i \in 1..Len(tree)
                 PROVE  Dist2(result[Len(result)], before.goal) <= Dist2(tree[i].cell, before.goal)
      BY DEF EndsClosest
    <2> QED
      BY DEF RrtInv, GoalInv, Settled
  <1> QED
    BY <1>1, RrtAlways, PTL

\* With no cell close to the goal that is no wall, rrt_path never returns.
THEOREM NeverGivesUp == Spec => []ReturnsOnlyIfClose
PROOF
  <1>1. RrtInv => ReturnsOnlyIfClose
    BY DEF RrtInv, ReturnsOnlyIfClose, CloseInv
  <1> QED
    BY <1>1, RrtAlways, PTL

\* A robot on a free cell never makes the search divide by zero, and a goal
\* nobody assigned is in the tree when it is looked for.
THEOREM FailsForReasons == Spec => []FailsForAReason
PROOF
  <1>1. RrtInv => FailsForAReason
    <2> SUFFICES ASSUME RrtInv
                 PROVE  FailsForAReason
      OBVIOUS
    <2>1. changes \in Nat
      BY RrtAssumption DEF RrtInv, TypeOK
    <2>2. pc = "lost" => changes # 0
      BY DEF RrtInv, GoalInv
    <2>3. pc = "crashed" /\ changes = 0 => Root \notin before.free
      BY DEF RrtInv, DrawInv
    <2> QED
      BY <2>1, <2>2, <2>3 DEF FailsForAReason, Root
  <1> QED
    BY <1>1, RrtAlways, PTL

\* The map comes back without dots and marks, and at most the root's wall lost.
THEOREM MapIsClear == Spec => []MapComesBackClear
PROOF
  <1>1. RrtInv => MapComesBackClear
    BY DEF RrtInv, MapInv, MapComesBackClear, Root
  <1> QED
    BY <1>1, RrtAlways, PTL

\* The places of the rank are never negative.
THEOREM RankStaysNatural == Spec => []RankIsNatural
PROOF
  <1>1. RrtInv => RankIsNatural
    BY RankParts DEF RrtInv
  <1> QED
    BY <1>1, RrtAlways, PTL

\* Walks, approach and trace all come to an end, and so do the assignments of others
\* and the enlargements of the rectangle: a build_rrt that never returns goes on
\* drawing from all the free cells of the map, again and again.
THEOREM SearchRunsDown == Spec => RankFalls
PROOF
  <1>1. RrtInv /\ [Next]_vars => [Below(Rank', Rank) \/ DrawsFromAllAgain]_vars
    BY StepFalls
  <1> QED
    BY <1>1, RrtAlways, PTL DEF Spec, RankFalls
=============================================================================
