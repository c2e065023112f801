---------------------------- MODULE AStar_proofs ----------------------------
(* Correctness of the search, for every floor, start and goal, and that it   *)
(* keeps the promise of the header file.                                    *)
EXTENDS AStar, FiniteSetTheorems, WellFoundedInduction, SequenceTheorems, TLAPS

(* Distances, and smallest elements.                                        *)

\* A set of naturals that is not empty has a smallest element.
LEMMA SmallestExists ==
  ASSUME NEW T \in SUBSET Nat, T # {}
  PROVE  \E x \in T : \A y \in T : x <= y
PROOF
  <1> DEFINE below(i) == {m \in T : m <= i}
             family   == {below(i) : i \in T}
  <1>1. \A i \in T : IsFiniteSet(below(i))
    BY FS_BoundedSetOfNaturals
  <1>2. family \subseteq FiniteSubsetsOf(Nat) /\ family # {}
    BY <1>1 DEF FiniteSubsetsOf
  <1>3. PICK s \in family : \A t \in family : << t, s >> \notin StrictSubsetOrdering(Nat)
    BY <1>2, FS_StrictSubsetOrderingWellFounded, WFMin
  <1>4. PICK x \in T : s = below(x)
    BY <1>3
  <1>5. ASSUME NEW y \in T, y < x
        PROVE  FALSE
    <2>1. below(y) \in family
      OBVIOUS
    <2>a. x \in Nat /\ y \in Nat /\ \A m \in T : m \in Nat /\ (m <= y => m <= x)
      BY <1>5
    <2>b. x <= x /\ ~(x <= y)
      BY <1>5, <2>a
    <2>2. below(y) \subseteq s /\ x \in s /\ x \notin below(y)
      BY <1>4, <2>a, <2>b
    <2>3. << below(y), s >> \in StrictSubsetOrdering(Nat)
      BY <2>2, <1>4 DEF StrictSubsetOrdering
    <2> QED
      BY <1>3, <2>1, <2>3
  <1> QED
    BY <1>5

LEMMA SquareIsNat ==
  ASSUME NEW x \in Int
  PROVE  x * x \in Nat
PROOF
  <1>1. CASE x >= 0
    BY <1>1
  <1>2. CASE x < 0
    <2>1. x * x = (-x) * (-x) /\ -x \in Nat
      BY <1>2
    <2> QED
      BY <2>1
  <1> QED
    BY <1>1, <1>2

LEMMA Dist2IsNat ==
  ASSUME NEW a \in Int \X Int, NEW b \in Int \X Int
  PROVE  Dist2(a, b) \in Nat
PROOF
  <1>1. a[1] - b[1] \in Int /\ a[2] - b[2] \in Int
    OBVIOUS
  <1>2. (a[1] - b[1]) * (a[1] - b[1]) \in Nat /\ (a[2] - b[2]) * (a[2] - b[2]) \in Nat
    BY <1>1, SquareIsNat
  <1> QED
    BY <1>2 DEF Dist2

Searching == pc \in {"search", "expand", "best"}

Queued == ToSet(queue)

\* Every free cell next to node i is in the tree.
Explored(i) == \A c \in Block(tree[i].cell) \cap free : InTree(c)

\* The tree: no cell twice, and each node but the root next to its parent.
TreeInv ==
  /\ tree[1].cell = init
  /\ \A i, j \in 1..Len(tree) : tree[i].cell = tree[j].cell => i = j
  /\ \A i \in 2..Len(tree) :
       /\ tree[i].parent \in 1..(i - 1)
       /\ tree[i].cell \in free \cap Block(tree[tree[i].parent].cell)

\* The part of the path traced so far: a route that goes on from current.
TraceInv ==
  /\ Searching => result = << >>
  /\ pc = "trace" =>
       /\ \A i \in 1..Len(result) : \E n \in (current + 1)..Len(tree) : tree[n].cell = result[i]
       /\ \A i \in 2..Len(result) : result[i] \in free \cap Block(result[i - 1])
       /\ \A i, j \in 1..Len(result) : result[i] = result[j] => i = j
       /\ result # << >> => result[1] \in free \cap Block(tree[current].cell)

\* A node is in the queue, being expanded, or explored.
QueueInv ==
  /\ Searching =>
       \A i \in 1..Len(tree) :
         i \in Queued \/ (pc = "expand" /\ i = current) \/ Explored(i)
  /\ pc = "expand" =>
       /\ k \in 1..8
       /\ \A n \in 1..(k - 1) :
            Neighbour(tree[current].cell, n) \in Block(tree[current].cell) \cap free
              => InTree(Neighbour(tree[current].cell, n))
  /\ pc = "best" => queue = << >>

\* The goal is out of reach and c as close to it as one gets (Planning!NextBest).
Closest(c) ==
  \E s \in SUBSET Cells :
    /\ init \in s /\ \A d \in s : Block(d) \cap free \subseteq s
    /\ asked \notin s /\ c \in s
    /\ \A d \in s : Dist2(c, asked) <= Dist2(d, asked)

\* A goal nobody has assigned: it is the one asked for, and a node on it is queued.
Fresh ==
  /\ goal = asked
  /\ \A i \in 1..Len(tree) : tree[i].h = Dist2(tree[i].cell, goal)
  /\ \A i \in 1..Len(tree) : tree[i].cell = goal => i \in Queued

Found == goal = asked \/ Closest(goal)

GoalInv ==
  retargets = 0 =>
    /\ Searching =>
         \/ Fresh
         \/ pc = "search" /\ queue # << >> /\ tree[Head(queue)].cell = goal /\ Found
    /\ pc = "best" =>
         /\ Fresh /\ scan.e = goal
         /\ \A i \in 1..Len(tree) :
              i < scan.i => Dist2(tree[scan.nb].cell, goal) <= Dist2(tree[i].cell, goal)
    /\ pc \in {"trace", "returned"} =>
         /\ Found
         /\ result = << >> => pc = "trace" /\ tree[current].cell = goal
         /\ result # << >> => result[Len(result)] = goal

AStarInv ==
  TypeOK /\ TreeInv /\ TraceInv /\ ResultIsRoute /\ QueueInv /\ GoalInv

-----------------------------------------------------------------------------
(* Facts about neighbours and sequences.                                    *)

\* Every cell of the block is one of the eight neighbours.
LEMMA BlockIsNeighbours ==
  ASSUME NEW p \in Cells, NEW q \in Block(p)
  PROVE  q \in Cells /\ \E n \in 1..8 : q = Neighbour(p, n)
PROOF
  <1>1. /\ p[1] \in Nat /\ p[2] \in Nat /\ p = << p[1], p[2] >>
        /\ q[1] \in Nat /\ q[2] \in Nat /\ q = << q[1], q[2] >>
        /\ q[1] \in {p[1] - 1, p[1], p[1] + 1} /\ q[2] \in {p[2] - 1, p[2], p[2] + 1}
        /\ q # p /\ q[1] < Rows /\ q[2] < Cols
    BY GridAssumption DEF Block, Cells, FirstOf
  <1>2. q \in Cells
    BY <1>1, GridAssumption DEF Cells
  <1>3. \A n \in 1..8 : Neighbour(p, n) = << p[1] + Offsets[n][1], p[2] + Offsets[n][2] >>
    BY DEF Neighbour
  <1>4. /\ Neighbour(p, 1) = << p[1] - 1, p[2] - 1 >> /\ Neighbour(p, 2) = << p[1] - 1, p[2] >>
        /\ Neighbour(p, 3) = << p[1] - 1, p[2] + 1 >> /\ Neighbour(p, 4) = << p[1], p[2] - 1 >>
        /\ Neighbour(p, 5) = << p[1], p[2] + 1 >> /\ Neighbour(p, 6) = << p[1] + 1, p[2] - 1 >>
        /\ Neighbour(p, 7) = << p[1] + 1, p[2] >> /\ Neighbour(p, 8) = << p[1] + 1, p[2] + 1 >>
    BY <1>1, <1>3 DEF Offsets
  <1> QED
    BY <1>1, <1>2, <1>4

LEMMA ToSetByLength ==
  ASSUME NEW S, NEW q \in Seq(S)
  PROVE  ToSet(q) = {q[i] : i \in 1..Len(q)}
PROOF
  <1>1. DOMAIN q = 1..Len(q)
    OBVIOUS
  <1> QED
    BY <1>1 DEF ToSet

\* Inserting n somewhere: what is before it stays, what is behind it moves on.
LEMMA InsertAtElements ==
  ASSUME NEW S, NEW q \in Seq(S), NEW n \in S, NEW i \in 1..(Len(q) + 1)
  PROVE  /\ InsertAt(q, i, n) \in Seq(S) /\ Len(InsertAt(q, i, n)) = Len(q) + 1
         /\ \A j \in 1..(Len(q) + 1) :
              InsertAt(q, i, n)[j] = IF j < i THEN q[j] ELSE IF j = i THEN n ELSE q[j - 1]
PROOF
  <1> DEFINE left == SubSeq(q, 1, i - 1)
             right == SubSeq(q, i, Len(q))
             r == InsertAt(q, i, n)
  <1>1. left \in Seq(S) /\ Len(left) = i - 1 /\ \A j \in 1..(i - 1) : left[j] = q[j]
    BY SubSeqProperties
  <1>2. /\ right \in Seq(S) /\ Len(right) = Len(q) - i + 1
        /\ \A j \in 1..(Len(q) - i + 1) : right[j] = q[i + j - 1]
    BY SubSeqProperties
  <1>3. r = (left \o << n >>) \o right
    BY DEF InsertAt
  <1> HIDE DEF left, right, r
  <1>4. left \o << n >> \in Seq(S) /\ Len(left \o << n >>) = i
        /\ \A j \in 1..i : (left \o << n >>)[j] = IF j < i THEN q[j] ELSE n
    BY <1>1
  <1>5. r \in Seq(S) /\ Len(r) = Len(q) + 1
        /\ \A j \in 1..(Len(q) + 1) : r[j] = IF j < i THEN q[j] ELSE IF j = i THEN n ELSE q[j - 1]
    <2> DEFINE front == left \o << n >>
    <2>1. /\ front \in Seq(S) /\ Len(front) = i /\ r = front \o right
          /\ \A j \in 1..i : front[j] = IF j < i THEN q[j] ELSE n
      BY <1>3, <1>4
    <2> HIDE DEF front
    <2>2. /\ r \in Seq(S) /\ Len(r) = i + Len(right)
          /\ \A j \in 1..(i + Len(right)) :
                r[j] = IF j <= i THEN front[j] ELSE right[j - i]
      BY <1>2, <2>1, ConcatProperties
    <2>3. \A j \in 1..(Len(q) + 1) : j > i => right[j - i] = q[j - 1]
      <3> TAKE j \in 1..(Len(q) + 1)
      <3> HAVE j > i
      <3>1. j - i \in 1..(Len(q) - i + 1) /\ i + (j - i) - 1 = j - 1
        OBVIOUS
      <3> QED
        BY <1>2, <3>1
    <2> QED
      BY <1>2, <2>1, <2>2, <2>3
  <1> QED
    BY <1>5 DEF r

\* Inserting n somewhere keeps the elements and adds n.
LEMMA InsertAtToSet ==
  ASSUME NEW S, NEW q \in Seq(S), NEW n \in S, NEW i \in 1..(Len(q) + 1)
  PROVE  /\ InsertAt(q, i, n) \in Seq(S)
         /\ ToSet(InsertAt(q, i, n)) = ToSet(q) \cup {n}
PROOF
  <1> DEFINE r == InsertAt(q, i, n)
  <1>5. r \in Seq(S) /\ Len(r) = Len(q) + 1
        /\ \A j \in 1..(Len(q) + 1) : r[j] = IF j < i THEN q[j] ELSE IF j = i THEN n ELSE q[j - 1]
    BY InsertAtElements
  <1> HIDE DEF r
  <1>6. ASSUME NEW x \in S, NEW j \in 1..Len(r), r[j] = x
        PROVE  x = n \/ \E m \in 1..Len(q) : q[m] = x
    <2>1. CASE j < i
      BY <1>5, <1>6, <2>1
    <2>2. CASE j = i
      BY <1>5, <1>6, <2>2
    <2>3. CASE j > i
      <3>1. j - 1 \in 1..Len(q) /\ q[j - 1] = x
        BY <1>5, <1>6, <2>3
      <3> QED
        BY <3>1
    <2> QED
      BY <2>1, <2>2, <2>3
  <1>7. r[i] = n /\ i \in 1..Len(r)
    BY <1>5
  <1>8. ASSUME NEW m \in 1..Len(q)
        PROVE  \E j \in 1..Len(r) : r[j] = q[m]
    <2>1. CASE m < i
      <3>1. m \in 1..Len(r) /\ r[m] = q[m]
        BY <1>5, <2>1
      <3> QED
        BY <3>1
    <2>2. CASE m >= i
      <3>1. m + 1 \in 1..Len(r) /\ r[m + 1] = q[m]
        BY <1>5, <2>2
      <3> QED
        BY <3>1
    <2> QED
      BY <2>1, <2>2
  <1> QED
    <2>1. ASSUME NEW j \in 1..Len(r)
          PROVE  r[j] \in ToSet(q) \cup {n}
      <3>1. r[j] \in S
        BY <1>5
      <3> QED
        BY <1>6, <3>1 DEF ToSet
    <2>2. n \in ToSet(r) /\ \A m \in 1..Len(q) : q[m] \in ToSet(r)
      BY <1>7, <1>8 DEF ToSet
    <2>3. ToSet(r) = ToSet(q) \cup {n}
      BY <1>5, <2>1, <2>2, ToSetByLength
    <2> QED
      BY <1>5, <2>3 DEF r

\* PriorityQueue::push finds a place: behind cheaper nodes, in front of one that is not.
LEMMA PushPlace ==
  ASSUME NEW S, queue \in Seq(S), NEW n, NEW nodes
  PROVE  \E i \in 1..(Len(queue) + 1) :
           /\ Push(n, nodes) = InsertAt(queue, i, n)
           /\ \A j \in 1..(i - 1) : Costlier(nodes[n], nodes[queue[j]])
           /\ i <= Len(queue) => ~Costlier(nodes[n], nodes[queue[i]])
PROOF
  <1> DEFINE stop(i)  == i <= Len(queue) => ~Costlier(nodes[n], nodes[queue[i]])
             places   == {i \in 1..(Len(queue) + 1) : stop(i)}
             isPlace(i) == /\ \A j \in 1..(i - 1) : Costlier(nodes[n], nodes[queue[j]])
                           /\ stop(i)
             place    == CHOOSE i \in 1..(Len(queue) + 1) : isPlace(i)
  <1>1. Len(queue) \in Nat
    OBVIOUS
  <1>2. Len(queue) + 1 \in places /\ places \subseteq Nat
    BY <1>1
  <1>3. PICK i \in places : \A y \in places : i <= y
    BY <1>2, SmallestExists
  <1>4. ASSUME NEW j \in 1..(i - 1)
        PROVE  Costlier(nodes[n], nodes[queue[j]])
    <2>1. j \notin places /\ j \in 1..(Len(queue) + 1) /\ j <= Len(queue)
      BY <1>1, <1>2, <1>3
    <2> QED
      BY <2>1
  <1>5. isPlace(i) /\ i \in 1..(Len(queue) + 1)
    BY <1>3, <1>4
  <1> HIDE DEF isPlace
  <1>6. place \in 1..(Len(queue) + 1) /\ isPlace(place)
    BY <1>5
  <1>7. Push(n, nodes) = InsertAt(queue, place, n)
    BY DEF Push, isPlace
  <1> HIDE DEF place
  <1> QED
    BY <1>6, <1>7 DEF isPlace

\* PriorityQueue::push adds the node to those queued.
LEMMA PushToSet ==
  ASSUME NEW S, queue \in Seq(S), NEW n \in S, NEW nodes
  PROVE  /\ Push(n, nodes) \in Seq(S)
         /\ ToSet(Push(n, nodes)) = Queued \cup {n}
PROOF
  <1>1. PICK i \in 1..(Len(queue) + 1) : Push(n, nodes) = InsertAt(queue, i, n)
    BY PushPlace
  <1> QED
    BY <1>1, InsertAtToSet DEF Queued

-----------------------------------------------------------------------------
(* The invariant.                                                           *)

Nodes == [cell : Cells, parent : Nat, g : Nat, h : Nat]

LEMMA PairsOfInt == Cells \subseteq Int \X Int /\ Goals \subseteq Int \X Int
PROOF
  BY GridAssumption, AStarAssumption DEF Cells

LEMMA TypedNodes ==
  ASSUME TypeOK
  PROVE  /\ tree \in Seq(Nodes) /\ goal \in Int \X Int
         /\ \A i \in 1..Len(tree) :
              /\ tree[i] \in Nodes /\ tree[i].cell \in Cells /\ tree[i].cell \in Int \X Int
              /\ tree[i].g \in Nat /\ tree[i].h \in Nat
PROOF
  <1>1. tree \in Seq(Nodes) /\ goal \in Int \X Int
    BY PairsOfInt DEF TypeOK, Nodes
  <1>2. ASSUME NEW i \in 1..Len(tree)
        PROVE  /\ tree[i] \in Nodes /\ tree[i].cell \in Cells /\ tree[i].cell \in Int \X Int
               /\ tree[i].g \in Nat /\ tree[i].h \in Nat
    <2>1. tree[i] \in Nodes
      BY <1>1
    <2> QED
      BY <2>1, PairsOfInt DEF Nodes
  <1> QED
    BY <1>1, <1>2

LEMMA NodeType ==
  ASSUME goal \in Goals \cup Cells, NEW c \in Cells, NEW p \in Nat, NEW g \in Nat
  PROVE  /\ Node(c, p, g) \in Nodes
         /\ Node(c, p, g) = [cell |-> c, parent |-> p, g |-> g, h |-> Dist2(c, goal)]
PROOF
  <1>1. Dist2(c, goal) \in Nat
    BY PairsOfInt, Dist2IsNat
  <1> QED
    BY <1>1 DEF Node, Nodes

LEMMA InitInv == Init => AStarInv
PROOF
  <1> SUFFICES ASSUME Init
               PROVE  AStarInv
    OBVIOUS
  <1>1. /\ free \subseteq Cells /\ init \in Cells /\ goal \in Goals /\ asked = goal
        /\ tree = << Node(init, 1, 0) >> /\ queue = << 1 >> /\ current = 1 /\ k = 1
        /\ scan = [i |-> 1, nb |-> 1, e |-> goal]
        /\ result = << >> /\ retargets = 0 /\ pc = "search"
    BY AStarAssumption DEF Init
  <1>2. /\ Node(init, 1, 0) \in Nodes /\ Node(init, 1, 0).cell = init
        /\ Node(init, 1, 0).h = Dist2(init, goal)
    BY <1>1, NodeType
  <1>3. Len(tree) = 1 /\ tree[1] = Node(init, 1, 0) /\ tree \in Seq(Nodes)
    BY <1>1, <1>2
  <1>4. Queued = {1}
    BY <1>1 DEF Queued, ToSet
  <1>5. TypeOK
    BY <1>1, <1>3, AStarAssumption DEF TypeOK, Nodes
  <1>6. TreeInv /\ TraceInv /\ ResultIsRoute
    BY <1>1, <1>2, <1>3 DEF TreeInv, TraceInv, Searching, ResultIsRoute
  <1>7. QueueInv
    BY <1>1, <1>3, <1>4 DEF QueueInv
  <1>8. GoalInv
    BY <1>1, <1>2, <1>3, <1>4 DEF GoalInv, Fresh, Searching
  <1> QED
    BY <1>5, <1>6, <1>7, <1>8 DEF AStarInv

LEMMA PopInv ==
  ASSUME AStarInv, Pop
  PROVE  AStarInv'
PROOF
  <1>1. TypeOK /\ TreeInv /\ TraceInv /\ QueueInv /\ GoalInv
    BY DEF AStarInv
  <1>2. /\ pc = "search" /\ queue # << >>
        /\ current' = Head(queue) /\ queue' = Tail(queue) /\ k' = 1
        /\ pc' = IF tree[Head(queue)].cell = goal THEN "trace" ELSE "expand"
        /\ UNCHANGED <<free, init, asked, goal, tree, scan, result, retargets>>
    BY DEF Pop
  <1>3. queue \in Seq(1..Len(tree))
    BY <1>1 DEF TypeOK
  <1>4. /\ current' \in 1..Len(tree) /\ queue' \in Seq(1..Len(tree))
        /\ Queued \subseteq Queued' \cup {current'}
    <2>1. Head(queue) = queue[1] /\ Len(queue') = Len(queue) - 1
          /\ \A j \in 1..(Len(queue) - 1) : queue'[j] = queue[j + 1]
      BY <1>2, <1>3
    <2>2. ASSUME NEW j \in 1..Len(queue), j # 1
          PROVE  queue[j] \in Queued'
      <3>1. j - 1 \in 1..Len(queue') /\ queue'[j - 1] = queue[j]
        BY <1>3, <2>1, <2>2
      <3> QED
        <4>1. queue' \in Seq(1..Len(tree))
          BY <1>2, <1>3
        <4>2. ToSet(queue') = {queue'[i] : i \in 1..Len(queue')}
          BY <4>1, ToSetByLength
        <4> QED
          BY <3>1, <4>2 DEF Queued
    <2>3. Queued \subseteq Queued' \cup {current'}
      BY <1>2, <2>1, <2>2 DEF Queued, ToSet
    <2> QED
      BY <1>2, <1>3, <2>3
  <1>5. TypeOK'
    BY <1>1, <1>2, <1>4 DEF TypeOK
  <1>6. TreeInv' /\ TraceInv' /\ ResultIsRoute'
    BY <1>1, <1>2 DEF TreeInv, TraceInv, ResultIsRoute, Searching
  <1>7. QueueInv'
    BY <1>1, <1>2, <1>4 DEF QueueInv, Searching, Explored, InTree
  <1>8. GoalInv'
    <2> SUFFICES ASSUME retargets = 0
                 PROVE  GoalInv'
      BY <1>2 DEF GoalInv
    <2>1. CASE tree[Head(queue)].cell = goal
      <3>1. goal = asked \/ Closest(goal)
        BY <1>1, <1>2 DEF GoalInv, Searching, Fresh, Found
      <3>2. Found'
        BY <1>2, <3>1 DEF Found, Closest
      <3>3. pc' = "trace" /\ result' = << >> /\ tree'[current'].cell = goal'
        BY <1>1, <1>2, <2>1 DEF TraceInv, Searching
      <3> QED
        BY <3>2, <3>3 DEF GoalInv, Searching
    <2>2. CASE tree[Head(queue)].cell # goal
      <3>1. Fresh
        BY <1>1, <1>2, <2>2 DEF GoalInv, Searching
      <3>2. Fresh'
        BY <1>2, <1>4, <2>2, <3>1 DEF Fresh
      <3>3. pc' = "expand"
        BY <1>2, <2>2
      <3> QED
        BY <3>2, <3>3 DEF GoalInv, Searching
    <2> QED
      BY <2>1, <2>2
  <1> QED
    BY <1>5, <1>6, <1>7, <1>8 DEF AStarInv

\* A neighbour is added.
LEMMA ExpandAddsInv ==
  ASSUME AStarInv, Expand,
         Neighbour(tree[current].cell, k) \in Block(tree[current].cell) \cap free,
         ~InTree(Neighbour(tree[current].cell, k))
  PROVE  AStarInv'
PROOF
  <1> DEFINE c == Neighbour(tree[current].cell, k)
             nd == Node(c, current, tree[current].g + 1)
             N == Len(tree) + 1
             added(x) == \E i \in 1..N : tree'[i].cell = x
  <1>1. TypeOK /\ TreeInv /\ TraceInv /\ QueueInv /\ GoalInv
    BY DEF AStarInv
  <1>2. /\ pc = "expand" /\ tree' = Append(tree, nd) /\ queue' = Push(Len(tree'), tree')
        /\ k' = k + 1 /\ pc' = (IF k = 8 THEN "search" ELSE "expand")
        /\ UNCHANGED <<free, init, asked, goal, current, scan, result, retargets>>
    BY DEF Expand
  <1>3. c \in Block(tree[current].cell) \cap free /\ c \in Cells /\ ~InTree(c)
    BY <1>1 DEF TypeOK
  <1>4. /\ tree \in Seq(Nodes) /\ tree # << >> /\ current \in 1..Len(tree)
        /\ Len(tree) \in Nat /\ k \in 1..8 /\ tree[current].g + 1 \in Nat
    <2>1. tree \in Seq(Nodes) /\ tree # << >> /\ current \in 1..Len(tree)
      BY <1>1 DEF TypeOK, Nodes
    <2>2. tree[current] \in Nodes
      BY <2>1
    <2>3. k \in 1..8
      BY <1>1, <1>2 DEF QueueInv
    <2> QED
      BY <2>1, <2>2, <2>3 DEF Nodes
  <1>5. /\ nd \in Nodes /\ nd.cell = c /\ nd.parent = current /\ nd.h = Dist2(c, goal)
    <2>1. current \in Nat /\ goal \in Goals \cup Cells
      BY <1>1, <1>4 DEF TypeOK
    <2> QED
      BY <1>3, <1>4, <2>1, NodeType
  <1> HIDE DEF nd, c
  <1>6. /\ tree' \in Seq(Nodes) /\ Len(tree') = N /\ tree'[N] = nd
        /\ \A i \in 1..Len(tree) : tree'[i] = tree[i]
    BY <1>2, <1>4, <1>5
  <1>7. queue \in Seq(1..N) /\ N \in 1..N
    <2>1. queue \in Seq(1..Len(tree)) /\ 1..Len(tree) \subseteq 1..N
      BY <1>1, <1>4 DEF TypeOK
    <2> QED
      BY <1>4, <2>1, SeqMonotonic
  <1>8. queue' = Push(N, Append(tree, nd))
    BY <1>2, <1>6
  <1>9. queue' \in Seq(1..N) /\ Queued' = Queued \cup {N}
    <2>1. /\ Push(N, Append(tree, nd)) \in Seq(1..N)
          /\ ToSet(Push(N, Append(tree, nd))) = Queued \cup {N}
      BY <1>7, PushToSet
    <2> QED
      BY <1>8, <2>1 DEF Queued, ToSet
  <1>10. \A x : added(x) <=> x = c \/ InTree(x)
    BY <1>4, <1>5, <1>6 DEF InTree
  <1>11. TypeOK'
    <2>1. result \in Seq(Cells) /\ retargets \in 0..MaxRetargets
          /\ scan \in [i : Nat \ {0}, nb : 1..N, e : Goals \cup Cells]
      BY <1>1, <1>4 DEF TypeOK
    <2>2. tree' # << >> /\ current' \in 1..N /\ k' \in 1..9
      BY <1>2, <1>4, <1>6
    <2> QED
      BY <1>1, <1>2, <1>6, <1>9, <2>1, <2>2 DEF TypeOK, Nodes
  <1>12. TreeInv'
    <2>1. tree'[1].cell = init'
      BY <1>1, <1>2, <1>4, <1>6 DEF TreeInv
    <2>2. ASSUME NEW i \in 1..N, NEW j \in 1..N, tree'[i].cell = tree'[j].cell
          PROVE  i = j
      <3>1. \A m \in 1..Len(tree) : tree'[m].cell # tree'[N].cell
        BY <1>3, <1>5, <1>6 DEF InTree
      <3>2. CASE i = N \/ j = N
        BY <1>4, <2>2, <3>1, <3>2
      <3>3. CASE i # N /\ j # N
        <4>1. i \in 1..Len(tree) /\ j \in 1..Len(tree)
          BY <1>4, <3>3
        <4>2. tree[i].cell = tree[j].cell
          BY <1>6, <2>2, <4>1
        <4> QED
          BY <1>1, <4>1, <4>2 DEF TreeInv
      <3> QED
        BY <3>2, <3>3
    <2>3. ASSUME NEW i \in 2..N
          PROVE  /\ tree'[i].parent \in 1..(i - 1)
                 /\ tree'[i].cell \in free' \cap Block(tree'[tree'[i].parent].cell)
      <3>1. CASE i = N
        BY <1>2, <1>3, <1>4, <1>5, <1>6, <3>1 DEF c
      <3>2. CASE i # N
        <4>1. i \in 2..Len(tree)
          BY <1>4, <3>2
        <4>2. /\ tree[i].parent \in 1..(i - 1) /\ tree[i].parent \in 1..Len(tree)
              /\ tree[i].cell \in free \cap Block(tree[tree[i].parent].cell)
          BY <1>1, <1>4, <4>1 DEF TreeInv
        <4> QED
          BY <1>2, <1>6, <4>1, <4>2
      <3> QED
        BY <3>1, <3>2
    <2> QED
      BY <1>6, <2>1, <2>2, <2>3 DEF TreeInv
  <1>13. TraceInv' /\ ResultIsRoute'
    BY <1>1, <1>2 DEF TraceInv, ResultIsRoute, Searching
  <1>14. \A i \in 1..Len(tree) : Explored(i) => Explored(i)'
    BY <1>2, <1>6, <1>10 DEF Explored, InTree
  <1>15. \A n \in 1..k : Neighbour(tree[current].cell, n) \in Block(tree[current].cell) \cap free
                         => added(Neighbour(tree[current].cell, n))
    <2>1. \A n \in 1..(k - 1) :
             Neighbour(tree[current].cell, n) \in Block(tree[current].cell) \cap free
               => InTree(Neighbour(tree[current].cell, n))
      BY <1>1, <1>2 DEF QueueInv
    <2>2. added(Neighbour(tree[current].cell, k))
      BY <1>10 DEF c
    <2>3. \A n \in 1..k : n = k \/ n \in 1..(k - 1)
      BY <1>4
    <2> QED
      BY <1>10, <2>1, <2>2, <2>3
  <1>16. QueueInv'
    <2>1. k = 8 => Explored(current)'
      <3> SUFFICES ASSUME k = 8, NEW x \in Block(tree[current].cell) \cap free
                   PROVE  added(x)
        BY <1>2, <1>4, <1>6 DEF Explored, InTree
      <3>1. tree[current].cell \in Cells
        <4>1. tree[current] \in Nodes
          BY <1>4
        <4> QED
          BY <4>1 DEF Nodes
      <3>2. PICK n \in 1..8 : x = Neighbour(tree[current].cell, n)
        BY <3>1, BlockIsNeighbours
      <3> QED
        BY <1>15, <3>2
    <2>2. \A i \in 1..N : i \in Queued' \/ (pc' = "expand" /\ i = current') \/ Explored(i)'
      <3> TAKE i \in 1..N
      <3>1. CASE i = N
        BY <1>9, <3>1
      <3>2. CASE i # N
        <4>1. i \in 1..Len(tree)
          BY <1>4, <3>2
        <4>2. i \in Queued \/ i = current \/ Explored(i)
          BY <1>1, <1>2, <4>1 DEF QueueInv, Searching
        <4> QED
          BY <1>2, <1>9, <1>14, <2>1, <4>1, <4>2
      <3> QED
        BY <3>1, <3>2
    <2>3. pc' = "expand" => k' \in 1..8 /\ k = k' - 1
      BY <1>2, <1>4
    <2>5. tree'[current'].cell = tree[current].cell /\ free' = free
      BY <1>2, <1>4, <1>6
    <2>6. pc' = "expand" => \A n \in 1..(k' - 1) :
            Neighbour(tree'[current'].cell, n) \in Block(tree'[current'].cell) \cap free'
              => added(Neighbour(tree'[current'].cell, n))
      BY <1>15, <2>3, <2>5
    <2>7. pc' # "best"
      BY <1>2
    <2> QED
      BY <1>6, <2>2, <2>3, <2>6, <2>7 DEF QueueInv, InTree
  <1>17. GoalInv'
    <2> SUFFICES ASSUME retargets = 0
                 PROVE  GoalInv'
      BY <1>2 DEF GoalInv
    <2>1. Fresh
      BY <1>1, <1>2 DEF GoalInv, Searching
    <2>2. Fresh'
      <3>1. \A i \in 1..N : i = N \/ i \in 1..Len(tree)
        BY <1>4
      <3>2. \A i \in 1..N : tree'[i].h = Dist2(tree'[i].cell, goal)
        BY <1>5, <1>6, <2>1, <3>1 DEF Fresh
      <3>3. \A i \in 1..N : tree'[i].cell = goal => i \in Queued'
        BY <1>6, <1>9, <2>1, <3>1 DEF Fresh
      <3> QED
        BY <1>2, <1>6, <2>1, <3>2, <3>3 DEF Fresh
    <2>3. pc' \in {"search", "expand"}
      BY <1>2
    <2> QED
      BY <2>2, <2>3 DEF GoalInv, Searching
  <1> QED
    BY <1>11, <1>12, <1>13, <1>16, <1>17 DEF AStarInv

\* The neighbour is no free cell, or in the tree already.
LEMMA ExpandSkipsInv ==
  ASSUME AStarInv, Expand,
         Neighbour(tree[current].cell, k) \notin Block(tree[current].cell) \cap free
           \/ InTree(Neighbour(tree[current].cell, k))
  PROVE  AStarInv'
PROOF
  <1>1. TypeOK /\ TreeInv /\ TraceInv /\ QueueInv /\ GoalInv
    BY DEF AStarInv
  <1>2. /\ pc = "expand" /\ k' = k + 1 /\ pc' = (IF k = 8 THEN "search" ELSE "expand")
        /\ UNCHANGED <<free, init, asked, goal, tree, queue, current, scan, result, retargets>>
    BY DEF Expand
  <1>3. k \in 1..8 /\ Queued' = Queued /\ \A i : Explored(i)' <=> Explored(i)
    BY <1>1, <1>2 DEF QueueInv, Queued, Explored, InTree
  <1>4. TypeOK'
    BY <1>1, <1>2, <1>3 DEF TypeOK
  <1>5. TreeInv' /\ TraceInv' /\ ResultIsRoute'
    BY <1>1, <1>2 DEF TreeInv, TraceInv, ResultIsRoute, Searching
  <1>6. \A n \in 1..k : Neighbour(tree[current].cell, n) \in Block(tree[current].cell) \cap free
                        => InTree(Neighbour(tree[current].cell, n))
    <2>1. \A n \in 1..k : n = k \/ n \in 1..(k - 1)
      BY <1>3
    <2> QED
      BY <1>1, <1>2, <2>1 DEF QueueInv
  <1>7. QueueInv'
    <2>1. k = 8 => Explored(current)
      <3> SUFFICES ASSUME k = 8, NEW x \in Block(tree[current].cell) \cap free
                   PROVE  InTree(x)
        BY DEF Explored
      <3>1. tree[current].cell \in Cells
        BY <1>1, TypedNodes DEF TypeOK
      <3>2. PICK n \in 1..8 : x = Neighbour(tree[current].cell, n)
        BY <3>1, BlockIsNeighbours
      <3> QED
        BY <1>6, <3>2
    <2>2. \A i \in 1..Len(tree) :
            i \in Queued \/ (pc' = "expand" /\ i = current) \/ Explored(i)
      BY <1>1, <1>2, <2>1 DEF QueueInv, Searching
    <2>3. pc' = "expand" => k' \in 1..8 /\ k = k' - 1
      BY <1>2, <1>3
    <2>4. pc' = "expand" => \A n \in 1..(k' - 1) :
            Neighbour(tree[current].cell, n) \in Block(tree[current].cell) \cap free
              => InTree(Neighbour(tree[current].cell, n))
      BY <1>6, <2>3
    <2> QED
      BY <1>2, <1>3, <2>2, <2>3, <2>4 DEF QueueInv, InTree
  <1>8. GoalInv'
    BY <1>1, <1>2, <1>3 DEF GoalInv, Searching, Fresh
  <1> QED
    BY <1>4, <1>5, <1>7, <1>8 DEF AStarInv

LEMMA FindNextBestInv ==
  ASSUME AStarInv, FindNextBest
  PROVE  AStarInv'
PROOF
  <1>1. TypeOK /\ TreeInv /\ TraceInv /\ QueueInv /\ GoalInv
    BY DEF AStarInv
  <1>2. /\ pc = "search" /\ queue = << >> /\ pc' = "best"
        /\ scan' = [i |-> 2, nb |-> 1, e |-> goal]
        /\ UNCHANGED <<free, init, asked, goal, tree, queue, current, k, result, retargets>>
    BY DEF FindNextBest
  <1>3. Queued' = Queued /\ \A i : Explored(i)' <=> Explored(i)
    BY <1>2 DEF Queued, Explored, InTree
  <1>4. 1 \in 1..Len(tree)
    BY <1>1 DEF TypeOK
  <1>5. TypeOK'
    BY <1>1, <1>2, <1>4 DEF TypeOK
  <1>6. TreeInv' /\ TraceInv' /\ ResultIsRoute'
    BY <1>1, <1>2 DEF TreeInv, TraceInv, ResultIsRoute, Searching
  <1>7. QueueInv'
    BY <1>1, <1>2, <1>3 DEF QueueInv, Searching
  <1>8. GoalInv'
    <2> SUFFICES ASSUME retargets = 0
                 PROVE  GoalInv'
      BY <1>2 DEF GoalInv
    <2>1. Fresh
      BY <1>1, <1>2 DEF GoalInv, Searching
    <2>2. Fresh'
      BY <1>2, <1>3, <2>1 DEF Fresh
    <2>3. Dist2(tree[1].cell, goal) <= Dist2(tree[1].cell, goal)
      <3>1. tree[1].cell \in Int \X Int /\ goal \in Int \X Int
        BY <1>1, <1>4, TypedNodes
      <3> QED
        BY <3>1, Dist2IsNat
    <2>4. \A i \in 1..Len(tree) : i < 2 => i = 1
      OBVIOUS
    <2> QED
      BY <1>2, <2>2, <2>3, <2>4 DEF GoalInv, Searching
  <1> QED
    BY <1>5, <1>6, <1>7, <1>8 DEF AStarInv

LEMMA CompareInv ==
  ASSUME AStarInv, Compare
  PROVE  AStarInv'
PROOF
  <1>1. TypeOK /\ TreeInv /\ TraceInv /\ QueueInv /\ GoalInv
    BY DEF AStarInv
  <1> DEFINE best == IF Better(tree[scan.i], tree[scan.nb], scan.e) THEN scan.i ELSE scan.nb
  <1>2. /\ pc = "best" /\ scan.i <= Len(tree)
        /\ scan' = [scan EXCEPT !.i = @ + 1, !.nb = best]
        /\ UNCHANGED <<free, init, asked, goal, tree, queue, current, k, result, retargets, pc>>
    BY DEF Compare
  <1>3. Queued' = Queued /\ \A i : Explored(i)' <=> Explored(i)
    BY <1>2 DEF Queued, Explored, InTree
  <1>4. /\ scan.i \in 1..Len(tree) /\ scan.nb \in 1..Len(tree) /\ best \in 1..Len(tree)
        /\ scan'.i = scan.i + 1 /\ scan'.nb = best /\ scan'.e = scan.e
    BY <1>1, <1>2 DEF TypeOK
  <1>5. TypeOK'
    <2> HIDE DEF best
    <2>1. scan' \in [i : Nat \ {0}, nb : 1..Len(tree), e : Goals \cup Cells]
      <3>1. scan \in [i : Nat \ {0}, nb : 1..Len(tree), e : Goals \cup Cells]
        BY <1>1 DEF TypeOK
      <3>2. scan' = [i |-> scan.i + 1, nb |-> best, e |-> scan.e]
        BY <1>2, <3>1
      <3> QED
        BY <1>4, <3>1, <3>2
    <2> QED
      BY <1>1, <1>2, <2>1 DEF TypeOK
  <1>6. TreeInv' /\ TraceInv' /\ ResultIsRoute'
    BY <1>1, <1>2 DEF TreeInv, TraceInv, ResultIsRoute, Searching
  <1>7. QueueInv'
    BY <1>1, <1>2, <1>3 DEF QueueInv, Searching
  <1>8. GoalInv'
    <2> SUFFICES ASSUME retargets = 0
                 PROVE  GoalInv'
      BY <1>2 DEF GoalInv
    <2> DEFINE d(i) == Dist2(tree[i].cell, goal)
    <2>1. Fresh /\ scan.e = goal /\ \A i \in 1..Len(tree) : i < scan.i => d(scan.nb) <= d(i)
      BY <1>1, <1>2 DEF GoalInv
    <2>2. Fresh'
      BY <1>2, <1>3, <2>1 DEF Fresh
    <2>3. \A i \in 1..Len(tree) : d(i) \in Nat
      <3> TAKE i \in 1..Len(tree)
      <3>1. tree[i].cell \in Int \X Int /\ goal \in Int \X Int
        BY <1>1, TypedNodes
      <3> QED
        BY <3>1, Dist2IsNat
    <2>4. d(best) <= d(scan.nb) /\ d(best) <= d(scan.i)
      <3>1. /\ Better(tree[scan.i], tree[scan.nb], scan.e) => d(scan.i) <= d(scan.nb)
            /\ ~Better(tree[scan.i], tree[scan.nb], scan.e) => d(scan.nb) <= d(scan.i)
        <4>1. /\ tree[scan.i].h = d(scan.i) /\ tree[scan.nb].h = d(scan.nb) /\ scan.e = goal
              /\ d(scan.i) \in Nat /\ d(scan.nb) \in Nat
          BY <1>4, <2>1, <2>3 DEF Fresh
        <4>2. Better(tree[scan.i], tree[scan.nb], scan.e) <=>
                \/ d(scan.i) < d(scan.nb)
                \/ /\ d(scan.i) >= d(scan.nb) /\ d(scan.i) = d(scan.nb)
                   /\ tree[scan.i].g < tree[scan.nb].g
          BY <4>1 DEF Better
        <4> HIDE DEF d
        <4> QED
          BY <4>1, <4>2
      <3> QED
        BY <1>4, <2>3, <3>1
    <2> HIDE DEF d, best
    <2>5. ASSUME NEW i \in 1..Len(tree), i < scan.i + 1
          PROVE  d(best) <= d(i)
      <3>1. CASE i = scan.i
        BY <2>4, <3>1
      <3>2. CASE i < scan.i
        BY <1>4, <2>1, <2>3, <2>4, <3>2
      <3> QED
        BY <1>4, <2>5, <3>1, <3>2
    <2> QED
      BY <1>2, <1>4, <2>1, <2>2, <2>5 DEF GoalInv, Searching, d
  <1> QED
    BY <1>5, <1>6, <1>7, <1>8 DEF AStarInv

LEMMA SettleInv ==
  ASSUME AStarInv, Settle
  PROVE  AStarInv'
PROOF
  <1>1. TypeOK /\ TreeInv /\ TraceInv /\ QueueInv /\ GoalInv
    BY DEF AStarInv
  <1>2. /\ pc = "best" /\ scan.i > Len(tree) /\ pc' = "search"
        /\ goal' = tree[scan.nb].cell /\ current' = scan.nb /\ queue' = << scan.nb >>
        /\ UNCHANGED <<free, init, asked, tree, k, scan, result, retargets>>
    BY DEF Settle
  <1>3. scan.nb \in 1..Len(tree) /\ tree[scan.nb].cell \in Cells
    BY <1>1, TypedNodes DEF TypeOK
  <1>4. queue = << >> /\ Queued = {}
    BY <1>1, <1>2 DEF QueueInv, Queued, ToSet
  <1>5. \A i \in 1..Len(tree) : Explored(i)
    BY <1>1, <1>2, <1>4 DEF QueueInv, Searching
  <1>6. TypeOK'
    BY <1>1, <1>2, <1>3 DEF TypeOK
  <1>7. TreeInv' /\ TraceInv' /\ ResultIsRoute'
    BY <1>1, <1>2 DEF TreeInv, TraceInv, ResultIsRoute, Searching
  <1>8. QueueInv'
    <2>1. \A i \in 1..Len(tree) : Explored(i)'
      BY <1>2, <1>5 DEF Explored, InTree
    <2> QED
      BY <1>2, <2>1 DEF QueueInv
  <1>9. GoalInv'
    <2> SUFFICES ASSUME retargets = 0
                 PROVE  GoalInv'
      BY <1>2 DEF GoalInv
    <2> DEFINE s == {tree[i].cell : i \in 1..Len(tree)}
    <2>1. /\ Fresh /\ goal = asked
          /\ \A i \in 1..Len(tree) :
               i < scan.i => Dist2(tree[scan.nb].cell, goal) <= Dist2(tree[i].cell, goal)
      BY <1>1, <1>2 DEF GoalInv, Fresh
    <2>2. s \in SUBSET Cells
      BY <1>1, TypedNodes
    <2>3. init \in s /\ tree[scan.nb].cell \in s
      <3>1. 1 \in 1..Len(tree)
        BY <1>3
      <3> QED
        BY <1>1, <1>3, <3>1 DEF TreeInv
    <2>4. \A d \in s : Block(d) \cap free \subseteq s
      BY <1>5 DEF Explored, InTree
    <2>5. asked \notin s
      BY <1>4, <2>1 DEF Fresh
    <2>6. \A d \in s : Dist2(tree[scan.nb].cell, asked) <= Dist2(d, asked)
      <3>1. \A i \in 1..Len(tree) : i < scan.i
        BY <1>1, <1>2 DEF TypeOK
      <3> QED
        BY <2>1, <3>1
    <2> HIDE DEF s
    <2>7. Closest(tree[scan.nb].cell)
      BY <2>2, <2>3, <2>4, <2>5, <2>6 DEF Closest
    <2>8. Found'
      BY <1>2, <2>7 DEF Found, Closest
    <2>9. queue' # << >> /\ tree'[Head(queue')].cell = goal'
      BY <1>2
    <2> QED
      BY <1>2, <2>8, <2>9 DEF GoalInv
  <1> QED
    BY <1>6, <1>7, <1>8, <1>9 DEF AStarInv

LEMMA TraceStepInv ==
  ASSUME AStarInv, Trace
  PROVE  AStarInv'
PROOF
  <1> DEFINE c == tree[current].cell
  <1>1. TypeOK /\ TreeInv /\ TraceInv /\ QueueInv /\ GoalInv
    BY DEF AStarInv
  <1>2. /\ pc = "trace" /\ result' = << c >> \o result
        /\ UNCHANGED <<free, init, asked, goal, tree, queue, k, scan, retargets>>
        /\ \/ c = init /\ pc' = "returned" /\ current' = current
           \/ c # init /\ pc' = "trace" /\ current' = tree[current].parent
    BY DEF Trace
  <1>3. current \in 1..Len(tree) /\ c \in Cells /\ result \in Seq(Cells) /\ Len(tree) \in Nat
    <2>1. current \in 1..Len(tree) /\ result \in Seq(Cells) /\ tree \in Seq(Nodes)
      BY <1>1, TypedNodes DEF TypeOK
    <2> QED
      BY <1>1, <2>1, TypedNodes
  <1> HIDE DEF c
  <1>4. /\ result' \in Seq(Cells) /\ Len(result') = Len(result) + 1 /\ result'[1] = c
        /\ \A i \in 1..Len(result) : result'[i + 1] = result[i]
    BY <1>2, <1>3
  <1>5. \A i \in 1..Len(result') : i = 1 \/ (i - 1 \in 1..Len(result) /\ result'[i] = result[i - 1])
    <2> TAKE i \in 1..Len(result')
    <2>1. CASE i # 1
      <3>1. i - 1 \in 1..Len(result) /\ (i - 1) + 1 = i
        BY <1>3, <1>4, <2>1
      <3> QED
        BY <1>4, <3>1
    <2> QED
      BY <2>1
  <1>6. \A i \in 2..Len(result') : result'[i] \in free \cap Block(result'[i - 1])
    <2> TAKE i \in 2..Len(result')
    <2>1. i - 1 \in 1..Len(result) /\ result'[i] = result[i - 1]
      BY <1>3, <1>4, <1>5
    <2>2. CASE i = 2
      BY <1>1, <1>2, <1>3, <1>4, <2>1, <2>2 DEF TraceInv, c
    <2>3. CASE i # 2
      <3>1. i - 1 \in 2..Len(result) /\ (i - 1) - 1 \in 1..Len(result) /\ i - 1 \in 1..Len(result')
        BY <1>3, <1>4, <2>1, <2>3
      <3>2. result'[i - 1] = result[(i - 1) - 1]
        BY <1>5, <2>3, <3>1
      <3> QED
        BY <1>1, <1>2, <2>1, <3>1, <3>2 DEF TraceInv
    <2> QED
      BY <2>2, <2>3
  <1>7. \A i \in 1..Len(result) : result[i] # c
    BY <1>1, <1>2, <1>3 DEF TraceInv, TreeInv, c
  <1>8. ASSUME NEW i \in 1..Len(result'), NEW j \in 1..Len(result'), result'[i] = result'[j]
        PROVE  i = j
    <2>1. CASE i = 1 \/ j = 1
      BY <1>4, <1>5, <1>7, <1>8, <2>1
    <2>2. CASE i # 1 /\ j # 1
      <3>1. i - 1 \in 1..Len(result) /\ j - 1 \in 1..Len(result) /\ result[i - 1] = result[j - 1]
        BY <1>5, <1>8, <2>2
      <3>2. i - 1 = j - 1
        BY <1>1, <1>2, <3>1 DEF TraceInv
      <3> QED
        BY <3>2
    <2> QED
      BY <2>1, <2>2
  <1>9. GoalInv'
    <2> SUFFICES ASSUME retargets = 0
                 PROVE  GoalInv'
      BY <1>2 DEF GoalInv
    <2>1. Found /\ (result = << >> => c = goal) /\ (result # << >> => result[Len(result)] = goal)
      BY <1>1, <1>2 DEF GoalInv, c
    <2>2. result' # << >> /\ result'[Len(result')] = goal
      <3>1. CASE result = << >>
        BY <1>4, <2>1, <3>1
      <3>2. CASE result # << >>
        <4>1. Len(result) \in 1..Len(result)
          BY <1>3, <3>2
        <4> QED
          BY <1>3, <1>4, <2>1, <3>2, <4>1
      <3> QED
        BY <3>1, <3>2
    <2>3. Found'
      BY <1>2, <2>1 DEF Found, Closest
    <2> QED
      BY <1>2, <2>2, <2>3 DEF GoalInv, Searching
  <1>10. QueueInv'
    BY <1>2 DEF QueueInv, Searching
  <1>11. TreeInv'
    BY <1>1, <1>2 DEF TreeInv
  <1>12. CASE c = init
    <2>1. IsRoute(result', init, free)
      BY <1>3, <1>4, <1>6, <1>8, <1>12 DEF IsRoute
    <2>2. TypeOK' /\ TraceInv' /\ ResultIsRoute'
      BY <1>1, <1>2, <1>4, <1>12, <2>1 DEF TypeOK, TraceInv, ResultIsRoute, Searching
    <2> QED
      BY <1>9, <1>10, <1>11, <2>2 DEF AStarInv
  <1>13. CASE c # init
    <2>1. current \in 2..Len(tree)
      BY <1>1, <1>3, <1>13 DEF TreeInv, c
    <2>2. /\ current' \in 1..(current - 1) /\ current' \in 1..Len(tree)
          /\ c \in free \cap Block(tree[current'].cell)
      BY <1>1, <1>2, <1>3, <1>13, <2>1 DEF TreeInv, c
    <2>a. ASSUME NEW n \in current..Len(tree)
          PROVE  n \in (current' + 1)..Len(tree)
      <3>1. PICK m \in 1..(current - 1) : m = current'
        BY <2>2
      <3>2. n \in (m + 1)..Len(tree)
        BY <1>3
      <3> QED
        BY <3>1, <3>2
    <2>3. \A i \in 1..Len(result') :
            \E n \in (current' + 1)..Len(tree) : tree[n].cell = result'[i]
      <3> TAKE i \in 1..Len(result')
      <3>1. CASE i = 1
        <4>1. current \in (current' + 1)..Len(tree)
          BY <1>3, <2>a
        <4> QED
          BY <1>4, <3>1, <4>1 DEF c
      <3>2. CASE i # 1
        <4>1. PICK n \in (current + 1)..Len(tree) : tree[n].cell = result[i - 1]
          BY <1>1, <1>2, <1>5, <3>2 DEF TraceInv
        <4>2. n \in (current' + 1)..Len(tree)
          BY <1>3, <2>a
        <4> QED
          BY <1>5, <3>2, <4>1, <4>2
      <3> QED
        BY <3>1, <3>2
    <2>4. TraceInv'
      BY <1>2, <1>4, <1>6, <1>8, <1>13, <2>2, <2>3 DEF TraceInv, Searching
    <2>5. TypeOK' /\ ResultIsRoute'
      BY <1>1, <1>2, <1>4, <1>13, <2>2 DEF TypeOK, ResultIsRoute
    <2> QED
      BY <1>9, <1>10, <1>11, <2>4, <2>5 DEF AStarInv
  <1> QED
    BY <1>12, <1>13

LEMMA RetargetInv ==
  ASSUME AStarInv, Retarget
  PROVE  AStarInv'
PROOF
  <1>1. TypeOK /\ TreeInv /\ TraceInv /\ QueueInv /\ ResultIsRoute
    BY DEF AStarInv
  <1>2. /\ retargets < MaxRetargets /\ retargets' = retargets + 1 /\ goal' \in Goals
        /\ UNCHANGED <<free, init, asked, tree, queue, current, k, scan, result, pc>>
    BY DEF Retarget
  <1>3. TypeOK' /\ retargets' # 0
    <2>1. retargets' \in 0..MaxRetargets /\ retargets' # 0
      <3>1. retargets \in 0..MaxRetargets /\ MaxRetargets \in Nat
        BY <1>1, AStarAssumption DEF TypeOK
      <3> QED
        BY <1>2, <3>1
    <2> QED
      BY <1>1, <1>2, <2>1 DEF TypeOK
  <1>4. TreeInv' /\ TraceInv' /\ ResultIsRoute' /\ QueueInv'
    BY <1>1, <1>2
       DEF TreeInv, TraceInv, ResultIsRoute, QueueInv, Searching, Queued, Explored, InTree
  <1> QED
    BY <1>3, <1>4 DEF AStarInv, GoalInv

LEMMA NextInv ==
  ASSUME AStarInv, [Next]_vars
  PROVE  AStarInv'
PROOF
  <1>1. CASE UNCHANGED vars
    <2>a. TypeOK'
      BY <1>1 DEF vars, AStarInv, TypeOK
    <2>1. TreeInv' /\ TraceInv' /\ ResultIsRoute'
      BY <1>1 DEF vars, AStarInv, TreeInv, TraceInv, ResultIsRoute, Searching
    <2>2. QueueInv' /\ GoalInv'
      BY <1>1 DEF vars, AStarInv, QueueInv, GoalInv, Searching, Queued, Explored, InTree,
                  Fresh, Found, Closest
    <2> QED
      BY <2>a, <2>1, <2>2 DEF AStarInv
  <1>2. CASE Expand
    BY <1>2, ExpandAddsInv, ExpandSkipsInv
  <1> QED
    BY <1>1, <1>2, PopInv, FindNextBestInv, CompareInv, SettleInv, TraceStepInv, RetargetInv
       DEF Next, Search

LEMMA AStarAlways == Spec => []AStarInv
PROOF
  BY InitInv, NextInv, PTL DEF Spec

-----------------------------------------------------------------------------
(* Sums with square roots.  That one fvalue is not greater than another is   *)
(* transitive: where the root of a exceeds that of c by more than d, there   *)
(* is a fraction p/n in between (FractionTells), and along two comparisons   *)
(* that hold such a bound moves on (BoundMoves).  All in integers.           *)

\* Products of integers grow with their factors.
LEMMA Scaled ==
  ASSUME NEW x \in Int, NEW y \in Int, NEW z \in Int, z >= 0, x <= y
  PROVE  x * z <= y * z
PROOF
  <1>1. (y - x) * z >= 0
    OBVIOUS
  <1>2. (y - x) * z = y * z - x * z
    OBVIOUS
  <1> QED
    BY <1>1, <1>2

LEMMA ScaledUp ==
  ASSUME NEW x \in Int, NEW y \in Int, NEW z \in Int, z >= 1, x < y
  PROVE  x * z < y * z
PROOF
  <1>1. (y - x) * z >= 1
    OBVIOUS
  <1>2. (y - x) * z = y * z - x * z
    OBVIOUS
  <1> QED
    BY <1>1, <1>2

LEMMA Squared ==
  ASSUME NEW x \in Int, NEW y \in Int, x >= 0, x <= y
  PROVE  x * x <= y * y
PROOF
  <1>1. x * x <= y * x
    BY Scaled
  <1>2. x * y <= y * y
    BY Scaled
  <1> QED
    BY <1>1, <1>2

LEMMA SquaredUp ==
  ASSUME NEW x \in Int, NEW y \in Int, x >= 0, x < y
  PROVE  x * x < y * y
PROOF
  <1>1. x * x <= y * x
    BY Scaled
  <1>2. x * y < y * y
    BY ScaledUp
  <1> QED
    BY <1>1, <1>2

\* No square root exceeds another by more than d if that other is by more than -d greater.
LEMMA ExceedsOneWay ==
  ASSUME NEW a \in Nat, NEW b \in Nat, NEW d \in Int, RootExceeds(a, b, d)
  PROVE  ~RootExceeds(b, a, -d)
PROOF
  <1>1. PICK r \in Int : r = a - b - d * d
    OBVIOUS
  <1>2. PICK s \in Int : s = b - a - d * d
    OBVIOUS
  <1>3. (-d) * (-d) = d * d
    OBVIOUS
  <1>4. 4 * (-d) * (-d) * a = 4 * d * d * a /\ 4 * (-d) * (-d) * b = 4 * d * d * b
    OBVIOUS
  <1>5. CASE d > 0
    BY <1>1, <1>2, <1>3, <1>4, <1>5 DEF RootExceeds
  <1>6. CASE d < 0
    BY <1>1, <1>2, <1>3, <1>4, <1>6 DEF RootExceeds
  <1>7. CASE d = 0
    BY <1>7 DEF RootExceeds
  <1> QED
    BY <1>5, <1>6, <1>7

\* p/n is at least the root of b, which the root of a exceeds by d at most: p/n + d is at
\* least the root of a.
LEMMA BoundMoves ==
  ASSUME NEW a \in Nat, NEW b \in Nat, NEW d \in Int, ~RootExceeds(a, b, d),
         NEW n \in Nat, n >= 1, NEW p \in Int, p >= 0, p * p >= b * n * n
  PROVE  p + d * n >= 0 /\ (p + d * n) * (p + d * n) >= a * n * n
PROOF
  <1>1. CASE d >= 0
    <2>1. PICK r \in Int : r = a - b - d * d
      OBVIOUS
    <2>2. ~(r > 0) \/ r * r <= 4 * d * d * b
      BY <1>1, <2>1 DEF RootExceeds
    <2>3. d * n >= 0 /\ n * n >= 1 /\ d * n * p >= 0
      BY <1>1
    <2>4. r * n * n <= 2 * d * n * p
      <3>1. CASE r <= 0
        <4>1. r * (n * n) <= 0 * (n * n)
          BY <2>3, <3>1, Scaled
        <4> QED
          BY <2>3, <4>1
      <3>2. CASE r > 0 /\ 2 * d * n * p < r * n * n
        <4>1. PICK x \in Int : x = 2 * d * n * p
          OBVIOUS
        <4>2. PICK y \in Int : y = r * n * n
          OBVIOUS
        <4>3. x * x < y * y
          BY <2>3, <3>2, <4>1, <4>2, SquaredUp
        <4>4. x * x = (4 * d * d * n * n) * (p * p)
          BY <4>1
        <4>5. y * y = (r * r) * (n * n * n * n)
          BY <4>2
        <4>6. (r * r) * (n * n * n * n) <= (4 * d * d * b) * (n * n * n * n)
          <5>1. n * n * n * n >= 0
            OBVIOUS
          <5> QED
            BY <2>2, <3>2, <5>1, Scaled
        <4>7. (b * n * n) * (4 * d * d * n * n) <= (p * p) * (4 * d * d * n * n)
          <5>1. 4 * d * d * n * n >= 0
            OBVIOUS
          <5> QED
            BY <5>1, Scaled
        <4> QED
          BY <4>3, <4>4, <4>5, <4>6, <4>7
      <3> QED
        BY <2>2, <3>1, <3>2
    <2>5. (p + d * n) * (p + d * n) = p * p + 2 * d * n * p + d * d * n * n
      OBVIOUS
    <2>6. r * n * n = a * n * n - b * n * n - d * d * n * n
      BY <2>1
    <2> QED
      BY <2>3, <2>4, <2>5, <2>6
  <1>2. CASE d < 0
    <2>1. PICK s \in Int : s = b - a - d * d
      OBVIOUS
    <2>2. s >= 0 /\ s * s >= 4 * d * d * a
      BY <1>2, <2>1 DEF RootExceeds
    <2>3. PICK e \in Nat : e = -d /\ e >= 1
      BY <1>2
    <2>4. b = a + e * e + s /\ d * d = e * e /\ d * n = -(e * n)
      BY <2>1, <2>3
    <2>5. PICK u \in Int : u = p - e * n
      BY <2>3
    <2>6. b * n * n = a * n * n + e * e * n * n + s * n * n
      BY <2>4
    <2>7. a * n * n >= 0 /\ s * n * n >= 0 /\ e * n >= 0
      BY <2>2, <2>3
    <2>8. u >= 0
      <3> SUFFICES ASSUME p < e * n
                   PROVE  FALSE
        BY <2>5
      <3>1. p * p < (e * n) * (e * n)
        BY <2>7, SquaredUp
      <3> QED
        BY <2>6, <2>7, <3>1
    <2>9. u * u >= a * n * n
      <3> SUFFICES ASSUME u * u < a * n * n
                   PROVE  FALSE
        OBVIOUS
      <3>1. p * p = u * u + 2 * e * n * u + e * e * n * n
        <4>1. p = u + e * n
          BY <2>5, <2>3
        <4> QED
          BY <4>1
      <3>2. PICK x \in Int : x = 2 * e * n * u
        OBVIOUS
      <3>3. PICK y \in Int : y = s * n * n
        OBVIOUS
      <3>4. y < x /\ 0 <= y
        BY <2>6, <2>7, <3>1, <3>2, <3>3
      <3>5. y * y < x * x
        BY <3>4, SquaredUp
      <3>6. x * x = (u * u) * (4 * e * e * n * n) /\ y * y = (s * s) * (n * n * n * n)
        BY <3>2, <3>3
      <3>7. (u * u) * (4 * e * e * n * n) <= (a * n * n) * (4 * e * e * n * n)
        <4>1. 4 * e * e * n * n >= 0
          OBVIOUS
        <4> QED
          BY <4>1, Scaled
      <3>8. (4 * e * e * a) * (n * n * n * n) <= (s * s) * (n * n * n * n)
        <4>1. n * n * n * n >= 0
          OBVIOUS
        <4>2. 4 * d * d * a = 4 * e * e * a
          BY <2>3
        <4> QED
          BY <2>2, <4>1, <4>2, Scaled
      <3> QED
        BY <3>5, <3>6, <3>7, <3>8
    <2> QED
      BY <2>3, <2>4, <2>5, <2>8, <2>9
  <1> QED
    BY <1>1, <1>2

\* n times the root of c, rounded up.
LEMMA RootFromAbove ==
  ASSUME NEW c \in Nat, NEW n \in Nat, n >= 1
  PROVE  \E p \in Nat : /\ p * p >= c * n * n /\ p <= c * n
                        /\ p * p <= c * n * n + 2 * p
PROOF
  <1> DEFINE T == {p \in Nat : p * p >= c * n * n}
  <1>1. c * n \in T
    <2>1. CASE c = 0
      BY <2>1
    <2>2. CASE c >= 1
      <3>1. 1 * (c * n * n) <= c * (c * n * n)
        <4>1. c * n * n >= 0 /\ c * n * n \in Int
          OBVIOUS
        <4> QED
          BY <2>2, <4>1, Scaled
      <3>2. (c * n) * (c * n) = c * (c * n * n) /\ c * n \in Nat
        OBVIOUS
      <3> QED
        BY <3>1, <3>2
    <2> QED
      BY <2>1, <2>2
  <1>2. PICK p \in T : \A q \in T : p <= q
    BY <1>1, SmallestExists
  <1>3. p \in Nat /\ p * p >= c * n * n /\ p <= c * n
    BY <1>1, <1>2
  <1>4. p * p <= c * n * n + 2 * p
    <2>1. CASE p = 0
      BY <1>3, <2>1
    <2>2. CASE p >= 1
      <3>1. p - 1 \in Nat /\ ~(p - 1 \in T)
        BY <1>2, <1>3, <2>2
      <3>2. (p - 1) * (p - 1) < c * n * n
        BY <3>1
      <3>3. (p - 1) * (p - 1) = p * p - 2 * p + 1
        BY <1>3
      <3> QED
        BY <1>3, <3>2, <3>3
    <2> QED
      BY <1>3, <2>1, <2>2
  <1> QED
    BY <1>3, <1>4

\* If the root of a exceeds that of c by more than d, a fraction tells: it is at least the
\* root of c, and the root of a exceeds it by more than d.
LEMMA FractionTells ==
  ASSUME NEW a \in Nat, NEW c \in Nat, NEW d \in Int, RootExceeds(a, c, d)
  PROVE  \E n, p \in Nat : /\ n >= 1 /\ p * p >= c * n * n
                           /\ ~(p + d * n >= 0 /\ (p + d * n) * (p + d * n) >= a * n * n)
PROOF
  <1>1. CASE d >= 0
    <2>1. PICK r \in Nat : r = a - c - d * d /\ r >= 1 /\ r * r >= 4 * d * d * c + 1
      <3>1. PICK r \in Int : r = a - c - d * d
        OBVIOUS
      <3> QED
        BY <1>1, <3>1 DEF RootExceeds
    <2>2. PICK n \in Nat : n = 4 * r * c + 8 * d * d * c + 1
      <3>1. 4 * r * c >= 0 /\ 8 * d * d * c >= 0
        BY <1>1
      <3> QED
        BY <3>1
    <2>3. n >= 1 /\ n >= 4 * c + 1
      <3>1. 8 * d * d * c >= 0
        BY <1>1
      <3>2. 1 * c <= r * c
        BY <2>1, Scaled
      <3> QED
        BY <2>2, <3>1, <3>2
    <2>4. PICK p \in Nat : /\ p * p >= c * n * n /\ p <= c * n
                           /\ p * p <= c * n * n + 2 * p
      BY <2>3, RootFromAbove
    <2>5. 2 * p <= r * n * n
      <3>1. (4 * c) * n <= n * n
        BY <2>3, Scaled
      <3>2. 1 * (n * n) <= r * (n * n)
        <4>1. n * n >= 0 /\ n * n \in Int
          OBVIOUS
        <4> QED
          BY <2>1, <4>1, Scaled
      <3>3. c * n >= 0
        OBVIOUS
      <3> QED
        BY <2>4, <3>1, <3>2, <3>3
    <2>6. 2 * p + 2 * d * n * p < r * n * n
      <3> SUFFICES ASSUME r * n * n - 2 * p <= 2 * d * n * p
                   PROVE  FALSE
        BY <1>1
      <3>1. PICK x \in Int : x = r * n * n - 2 * p
        OBVIOUS
      <3>2. PICK y \in Int : y = 2 * d * n * p
        OBVIOUS
      <3>3. x * x <= y * y
        BY <2>5, <3>1, <3>2, Squared
      <3>4. x * x = (r * r) * (n * n * n * n) - 4 * p * r * n * n + 4 * p * p
        BY <3>1
      <3>5. y * y = (p * p) * (4 * d * d * n * n)
        BY <3>2
      <3>6. (p * p) * (4 * d * d * n * n) <= (c * n * n + 2 * p) * (4 * d * d * n * n)
        <4>1. 4 * d * d * n * n >= 0
          BY <1>1
        <4> QED
          BY <2>4, <4>1, Scaled
      <3>7. (4 * d * d * c + 1) * (n * n * n * n) <= (r * r) * (n * n * n * n)
        <4>1. n * n * n * n >= 0
          OBVIOUS
        <4> QED
          BY <2>1, <4>1, Scaled
      <3>8. (n * n) * (n * n) <= (4 * p * r + 8 * d * d * p) * (n * n)
        <4>1. p * p >= 0
          OBVIOUS
        <4>2. (c * n * n + 2 * p) * (4 * d * d * n * n)
                = 4 * d * d * c * n * n * n * n + 8 * d * d * p * n * n
          OBVIOUS
        <4>3. (4 * d * d * c + 1) * (n * n * n * n) = 4 * d * d * c * n * n * n * n + n * n * n * n
          OBVIOUS
        <4>4. n * n * n * n <= 4 * p * r * n * n + 8 * d * d * p * n * n
          <5>1. x * x <= 4 * d * d * c * n * n * n * n + 8 * d * d * p * n * n
            <6>1. y * y <= (c * n * n + 2 * p) * (4 * d * d * n * n)
              BY <3>5, <3>6
            <6> QED
              BY <3>3, <4>2, <6>1
          <5>2. 4 * d * d * c * n * n * n * n + n * n * n * n <= (r * r) * (n * n * n * n)
            BY <3>7, <4>3
          <5>3. (r * r) * (n * n * n * n) = x * x + 4 * p * r * n * n - 4 * p * p
            BY <3>4
          <5>4. PICK big \in Int : big = n * n * n * n
            OBVIOUS
          <5>5. PICK cut \in Int : cut = 4 * d * d * c * n * n * n * n
            OBVIOUS
          <5>6. PICK low \in Int : low = 4 * p * r * n * n
            OBVIOUS
          <5>7. PICK more \in Int : more = 8 * d * d * p * n * n
            OBVIOUS
          <5>8. PICK square \in Int : square = x * x
            BY <3>1
          <5>9. square <= cut + more /\ cut + big <= square + low
            BY <4>1, <5>1, <5>2, <5>3, <5>4, <5>5, <5>6, <5>7, <5>8
          <5> QED
            BY <5>4, <5>6, <5>7, <5>9
        <4> QED
          BY <4>4
      <3>9. n * n <= 4 * p * r + 8 * d * d * p
        <4> SUFFICES ASSUME 4 * p * r + 8 * d * d * p < n * n
                     PROVE  FALSE
          OBVIOUS
        <4>1. n * n >= 1 /\ n * n \in Int /\ 4 * p * r + 8 * d * d * p \in Int
          BY <2>3
        <4>2. (4 * p * r + 8 * d * d * p) * (n * n) < (n * n) * (n * n)
          BY <4>1, ScaledUp
        <4> QED
          BY <3>8, <4>2
      <3>10. p * (4 * r + 8 * d * d) <= (c * n) * (4 * r + 8 * d * d)
        <4>1. 4 * r + 8 * d * d >= 0 /\ 4 * r + 8 * d * d \in Int
          BY <1>1
        <4> QED
          BY <2>4, <4>1, Scaled
      <3>11. (c * n) * (4 * r + 8 * d * d) = n * n - n
        BY <2>2
      <3> QED
        BY <2>3, <3>9, <3>10, <3>11
    <2>7. (p + d * n) * (p + d * n) = p * p + 2 * d * n * p + d * d * n * n
      OBVIOUS
    <2>8. r * n * n = a * n * n - c * n * n - d * d * n * n
      BY <2>1
    <2>9. ~(p + d * n >= 0 /\ (p + d * n) * (p + d * n) >= a * n * n)
      BY <2>4, <2>6, <2>7, <2>8
    <2> QED
      BY <2>3, <2>4, <2>9, Zenon
  <1>2. CASE d < 0
    <2>1. PICK e \in Nat : e = -d /\ e >= 1
      BY <1>2
    <2>2. d * d = e * e /\ \A n \in Nat : d * n = -(e * n)
      BY <2>1
    <2>3. CASE c < e * e
      <3>1. PICK n \in Nat : n = 2 * e
        OBVIOUS
      <3>2. PICK p \in Nat : p = 2 * e * e - 1
        <4>1. 1 * e <= e * e
          BY <2>1, Scaled
        <4> QED
          BY <2>1, <4>1
      <3>3. p * p >= c * n * n
        <4>1. c * (4 * e * e) <= (e * e - 1) * (4 * e * e)
          <5>1. 4 * e * e >= 0
            OBVIOUS
          <5> QED
            BY <2>3, <5>1, Scaled
        <4>2. p * p = (e * e - 1) * (4 * e * e) + 1 /\ c * n * n = c * (4 * e * e)
          BY <3>1, <3>2
        <4> QED
          BY <4>1, <4>2
      <3>4. p + d * n = -1
        BY <2>1, <3>1, <3>2
      <3>5. n >= 1 /\ ~(p + d * n >= 0)
        BY <2>1, <3>1, <3>4
      <3> QED
        BY <3>3, <3>5, Zenon
    <2>4. CASE c >= e * e
      <3>1. PICK v \in Int : v = c - a + e * e
        OBVIOUS
      <3>2. PICK s \in Int : s = c - a - e * e
        OBVIOUS
      <3>3. ~(s >= 0 /\ s * s >= 4 * e * e * a)
        <4>1. 4 * d * d * a = 4 * e * e * a /\ s = c - a - d * d
          BY <2>1, <3>2
        <4> QED
          BY <1>2, <4>1 DEF RootExceeds
      <3>4. v < 0 \/ v * v <= 4 * e * e * c - 1
        <4>1. v * v - 4 * e * e * c = s * s - 4 * e * e * a
          BY <3>1, <3>2
        <4>2. ASSUME s < 0, v >= 0
              PROVE  v * v < 4 * e * e * c
          <5>1. v < 2 * (e * e)
            BY <3>1, <3>2, <4>2
          <5>2. v * v < (2 * (e * e)) * (2 * (e * e))
            BY <4>2, <5>1, SquaredUp
          <5>3. (e * e) * (4 * e * e) <= c * (4 * e * e)
            <6>1. 4 * e * e >= 0
              OBVIOUS
            <6> QED
              BY <2>4, <6>1, Scaled
          <5> QED
            BY <5>2, <5>3
        <4> QED
          BY <3>3, <4>1, <4>2
      <3>5. \E n, p \in Nat : /\ n >= 1 /\ p * p >= c * n * n
                              /\ p * p <= c * n * n + 2 * p
                              /\ v * n * n + 2 * p < 2 * e * n * p
        <4>1. CASE v < 0
          <5>1. PICK n \in Nat : n = 2 * c + 1 /\ n >= 1
            OBVIOUS
          <5>2. PICK p \in Nat : /\ p * p >= c * n * n /\ p <= c * n
                                 /\ p * p <= c * n * n + 2 * p
            BY <5>1, RootFromAbove
          <5>3. v * (n * n) <= (-1) * (n * n)
            <6>1. n * n >= 0
              OBVIOUS
            <6> QED
              BY <4>1, <6>1, Scaled
          <5>4. n * n = 2 * c * n + n
            BY <5>1
          <5>5. 2 * e * n * p >= 0
            OBVIOUS
          <5>6. v * n * n + 2 * p < 2 * e * n * p
            BY <5>1, <5>2, <5>3, <5>4, <5>5
          <5> QED
            BY <5>1, <5>2, <5>6, Zenon
        <4>2. CASE v >= 0 /\ v * v <= 4 * e * e * c - 1
          <5>1. PICK n \in Nat : n = 4 * v * c + 4 * c * c + 1 /\ n >= 1
            <6>1. 4 * v * c >= 0 /\ 4 * c * c >= 0
              BY <4>2
            <6> QED
              BY <6>1
          <5>2. PICK p \in Nat : /\ p * p >= c * n * n /\ p <= c * n
                                 /\ p * p <= c * n * n + 2 * p
            BY <5>1, RootFromAbove
          <5>3. v * n * n + 2 * p < 2 * e * n * p
            <6> SUFFICES ASSUME 2 * e * n * p <= v * n * n + 2 * p
                         PROVE  FALSE
              OBVIOUS
            <6>1. PICK x \in Int : x = 2 * e * n * p
              OBVIOUS
            <6>2. PICK y \in Int : y = v * n * n + 2 * p
              OBVIOUS
            <6>3. x * x <= y * y
              <7>1. x >= 0
                BY <6>1
              <7> QED
                BY <6>1, <6>2, <7>1, Squared
            <6>4. x * x = (p * p) * (4 * e * e * n * n)
              BY <6>1
            <6>5. y * y = (v * v) * (n * n * n * n) + 4 * v * n * n * p + 4 * p * p
              BY <6>2
            <6>6. (c * n * n) * (4 * e * e * n * n) <= (p * p) * (4 * e * e * n * n)
              <7>1. 4 * e * e * n * n >= 0
                OBVIOUS
              <7> QED
                BY <5>2, <7>1, Scaled
            <6>7. (v * v) * (n * n * n * n) <= (4 * e * e * c - 1) * (n * n * n * n)
              <7>1. n * n * n * n >= 0
                OBVIOUS
              <7> QED
                BY <4>2, <7>1, Scaled
            <6>8. n * n * n * n <= 4 * v * n * n * p + 4 * p * p
              BY <6>3, <6>4, <6>5, <6>6, <6>7
            <6>9. p * (4 * v * n * n) <= (c * n) * (4 * v * n * n)
              <7>1. 4 * v * n * n >= 0
                BY <4>2
              <7> QED
                BY <5>2, <7>1, Scaled
            <6>10. p * p <= (c * n) * (c * n)
              BY <5>2, Squared
            <6>11. (n * n) * (n * n) <= (4 * v * c * n + 4 * c * c) * (n * n)
              BY <6>8, <6>9, <6>10
            <6>12. n * n <= 4 * v * c * n + 4 * c * c
              <7> SUFFICES ASSUME 4 * v * c * n + 4 * c * c < n * n
                           PROVE  FALSE
                OBVIOUS
              <7>1. n * n >= 1 /\ n * n \in Int /\ 4 * v * c * n + 4 * c * c \in Int
                BY <5>1
              <7>2. (4 * v * c * n + 4 * c * c) * (n * n) < (n * n) * (n * n)
                BY <7>1, ScaledUp
              <7> QED
                BY <6>11, <7>2
            <6>13. n * n = 4 * v * c * n + 4 * c * c * n + n
              BY <5>1
            <6>14. 1 * (4 * c * c) <= n * (4 * c * c)
              <7>1. 4 * c * c >= 0
                OBVIOUS
              <7> QED
                BY <5>1, <7>1, Scaled
            <6> QED
              BY <5>1, <6>12, <6>13, <6>14
          <5> QED
            BY <5>1, <5>2, <5>3
        <4> QED
          BY <3>4, <4>1, <4>2
      <3>6. PICK n, p \in Nat : /\ n >= 1 /\ p * p >= c * n * n
                                /\ p * p <= c * n * n + 2 * p
                                /\ v * n * n + 2 * p < 2 * e * n * p
        BY <3>5
      <3>7. (p + d * n) * (p + d * n) = p * p - 2 * e * n * p + e * e * n * n
        <4>1. p + d * n = p - e * n
          BY <2>1
        <4> QED
          BY <4>1
      <3>8. v * n * n = c * n * n - a * n * n + e * e * n * n
        BY <3>1
      <3>9. ~(p + d * n >= 0 /\ (p + d * n) * (p + d * n) >= a * n * n)
        BY <3>6, <3>7, <3>8
      <3> QED
        BY <3>6, <3>9, Zenon
    <2> QED
      BY <2>3, <2>4
  <1> QED
    BY <1>1, <1>2

LEMMA ExceedsByNoMore ==
  ASSUME NEW a \in Nat, NEW b \in Nat, NEW c \in Nat, NEW d \in Int, NEW e \in Int,
         ~RootExceeds(a, b, d), ~RootExceeds(b, c, e)
  PROVE  ~RootExceeds(a, c, d + e)
PROOF
  <1> SUFFICES ASSUME RootExceeds(a, c, d + e)
               PROVE  FALSE
    OBVIOUS
  <1>1. PICK f \in Int : f = d + e
    OBVIOUS
  <1>2. PICK n, p \in Nat : /\ n >= 1 /\ p * p >= c * n * n
                            /\ ~(p + f * n >= 0 /\ (p + f * n) * (p + f * n) >= a * n * n)
    BY <1>1, FractionTells
  <1>3. PICK q \in Int : q = p + e * n
    OBVIOUS
  <1>4. q >= 0 /\ q * q >= b * n * n
    <2>1. p \in Int /\ p >= 0 /\ n \in Nat /\ n >= 1 /\ p * p >= c * n * n
      BY <1>2
    <2>2. p + e * n >= 0 /\ (p + e * n) * (p + e * n) >= b * n * n
      BY <2>1, BoundMoves, Zenon
    <2> QED
      BY <1>3, <2>2
  <1>5. q + d * n >= 0 /\ (q + d * n) * (q + d * n) >= a * n * n
    <2>1. n \in Nat /\ n >= 1
      BY <1>2
    <2> QED
      BY <1>3, <1>4, <2>1, BoundMoves, Zenon
  <1>6. q + d * n = p + f * n
    BY <1>1, <1>3
  <1> QED
    BY <1>2, <1>5, <1>6

-----------------------------------------------------------------------------
(* The order of the queue.                                                  *)

\* Of two nodes one is not costlier.
LEMMA CostlierOneWay ==
  ASSUME NEW m \in Nodes, NEW n \in Nodes, Costlier(m, n)
  PROVE  ~Costlier(n, m)
PROOF
  <1>1. PICK d \in Int : d = n.g - m.g
    BY DEF Nodes
  <1>2. m.g - n.g = -d /\ m.h \in Nat /\ n.h \in Nat
    BY <1>1 DEF Nodes
  <1>3. RootExceeds(m.h, n.h, d)
    BY <1>1 DEF Costlier
  <1>4. ~RootExceeds(n.h, m.h, -d)
    BY <1>2, <1>3, ExceedsOneWay
  <1> QED
    BY <1>2, <1>4 DEF Costlier

\* If m is not costlier than n and n not than o, then m is not costlier than o.
LEMMA CostlierOrders ==
  ASSUME NEW m \in Nodes, NEW n \in Nodes, NEW o \in Nodes, ~Costlier(m, n), ~Costlier(n, o)
  PROVE  ~Costlier(m, o)
PROOF
  <1>1. PICK d \in Int : d = n.g - m.g
    BY DEF Nodes
  <1>2. PICK e \in Int : e = o.g - n.g
    BY DEF Nodes
  <1>3. o.g - m.g = d + e /\ m.h \in Nat /\ n.h \in Nat /\ o.h \in Nat
    BY <1>1, <1>2 DEF Nodes
  <1>4. ~RootExceeds(m.h, n.h, d) /\ ~RootExceeds(n.h, o.h, e)
    BY <1>1, <1>2 DEF Costlier
  <1>5. ~RootExceeds(m.h, o.h, d + e)
    BY <1>3, <1>4, ExceedsByNoMore
  <1> QED
    BY <1>3, <1>5 DEF Costlier

\* A queue in order stays in order when push adds a node.
LEMMA PushKeepsOrder ==
  ASSUME NEW nodes \in Seq(Nodes), queue \in Seq(1..Len(nodes)), NEW n \in 1..Len(nodes),
         \A i, j \in 1..Len(queue) : i < j => ~Costlier(nodes[queue[i]], nodes[queue[j]]),
         NEW r, r = Push(n, nodes)
  PROVE  \A i, j \in 1..Len(r) : i < j => ~Costlier(nodes[r[i]], nodes[r[j]])
PROOF
  <1>1. PICK x \in 1..(Len(queue) + 1) :
          /\ r = InsertAt(queue, x, n)
          /\ \A j \in 1..(x - 1) : Costlier(nodes[n], nodes[queue[j]])
          /\ x <= Len(queue) => ~Costlier(nodes[n], nodes[queue[x]])
    BY PushPlace
  <1>2. PICK size \in Nat : size = Len(queue)
    OBVIOUS
  <1>3. /\ Len(r) = size + 1
        /\ \A j \in 1..(size + 1) : /\ j < x => r[j] = queue[j]
                                    /\ j = x => r[j] = n
                                    /\ j > x => r[j] = queue[j - 1]
    <2>0. PICK S : S = 1..Len(nodes)
      OBVIOUS
    <2>1. queue \in Seq(S) /\ n \in S /\ x \in 1..(Len(queue) + 1)
      BY <1>1, <2>0
    <2>2. /\ Len(InsertAt(queue, x, n)) = Len(queue) + 1
          /\ \A j \in 1..(Len(queue) + 1) :
                InsertAt(queue, x, n)[j] = IF j < x THEN queue[j] ELSE IF j = x THEN n ELSE queue[j - 1]
      BY <2>1, InsertAtElements
    <2>3. x \in Int
      BY <2>1
    <2>4. /\ Len(r) = size + 1
          /\ \A j \in 1..(size + 1) :
                r[j] = IF j < x THEN queue[j] ELSE IF j = x THEN n ELSE queue[j - 1]
      BY <1>1, <1>2, <2>2, Zenon
    <2> QED
      BY <2>3, <2>4
  <1>4. nodes[n] \in Nodes /\ \A j \in 1..size : nodes[queue[j]] \in Nodes
    BY <1>2
  <1> SUFFICES ASSUME NEW i \in 1..(size + 1), NEW j \in 1..(size + 1), i < j
               PROVE  ~Costlier(nodes[r[i]], nodes[r[j]])
    BY <1>3
  <1>5. x \in Nat /\ x >= 1 /\ x <= size + 1
    BY <1>1, <1>2
  <1>6. CASE j < x
    <2>1. r[i] = queue[i] /\ r[j] = queue[j] /\ i \in 1..size /\ j \in 1..size
      BY <1>3, <1>5, <1>6
    <2> QED
      BY <1>2, <2>1
  <1>7. CASE i < x /\ j = x
    <2>1. r[i] = queue[i] /\ r[j] = n /\ i \in 1..size /\ i \in 1..(x - 1)
      BY <1>3, <1>5, <1>7
    <2>2. Costlier(nodes[n], nodes[queue[i]])
      BY <1>1, <2>1
    <2>3. ~Costlier(nodes[queue[i]], nodes[n])
      BY <1>4, <2>1, <2>2, CostlierOneWay
    <2> QED
      BY <2>1, <2>3
  <1>8. CASE i < x /\ j > x
    <2>1. r[i] = queue[i] /\ r[j] = queue[j - 1] /\ i \in 1..size /\ j - 1 \in 1..size /\ i < j - 1
      BY <1>3, <1>5, <1>8
    <2> QED
      BY <1>2, <2>1
  <1>9. CASE i = x
    <2>1. r[i] = n /\ r[j] = queue[j - 1] /\ j - 1 \in 1..size /\ x \in 1..size /\ x <= j - 1
      BY <1>3, <1>5, <1>9
    <2>2. ~Costlier(nodes[n], nodes[queue[x]])
      BY <1>1, <1>2, <2>1
    <2>3. CASE x = j - 1
      BY <2>1, <2>2, <2>3
    <2>4. CASE x < j - 1
      <3>1. ~Costlier(nodes[queue[x]], nodes[queue[j - 1]])
        BY <1>2, <2>1, <2>4
      <3>2. ~Costlier(nodes[n], nodes[queue[j - 1]])
        BY <1>4, <2>1, <2>2, <3>1, CostlierOrders
      <3> QED
        BY <2>1, <3>2
    <2> QED
      BY <2>1, <2>3, <2>4
  <1>10. CASE i > x
    <2>1. r[i] = queue[i - 1] /\ r[j] = queue[j - 1] /\ i - 1 \in 1..size /\ j - 1 \in 1..size
          /\ i - 1 < j - 1
      BY <1>3, <1>5, <1>10
    <2> QED
      BY <1>2, <2>1
  <1> QED
    BY <1>5, <1>6, <1>7, <1>8, <1>9, <1>10

LEMMA OrderKept ==
  AStarInv /\ QueueIsOrdered /\ [Next]_vars => QueueIsOrdered'
PROOF
  <1> SUFFICES ASSUME AStarInv, QueueIsOrdered, [Next]_vars
               PROVE  QueueIsOrdered'
    OBVIOUS
  <1>1. TypeOK /\ tree \in Seq(Nodes) /\ queue \in Seq(1..Len(tree)) /\ current \in 1..Len(tree)
    BY TypedNodes DEF AStarInv, TypeOK
  <1>2. CASE UNCHANGED <<tree, queue>>
    BY <1>2 DEF QueueIsOrdered
  <1>3. CASE Pop
    <2>1. queue # << >> /\ queue' = Tail(queue) /\ tree' = tree
      BY <1>3 DEF Pop
    <2>2. PICK q : q = Tail(queue)
      OBVIOUS
    <2>3. /\ Len(q) = Len(queue) - 1 /\ \A i \in 1..Len(q) : q[i] = queue[i + 1]
          /\ Len(q) \in Nat /\ Len(queue) \in Nat
      <3>1. queue \in Seq(1..Len(tree)) /\ queue # << >>
        BY <1>1, <2>1
      <3>2. /\ Len(q) = Len(queue) - 1 /\ \A i \in 1..Len(q) : q[i] = queue[i + 1]
            /\ q \in Seq(1..Len(tree))
        BY <2>2, <3>1, HeadTailProperties, Zenon
      <3> QED
        BY <3>1, <3>2
    <2>4. ASSUME NEW i \in 1..Len(q), NEW j \in 1..Len(q), i < j
          PROVE  ~Costlier(tree[q[i]], tree[q[j]])
      <3>1. i + 1 \in 1..Len(queue) /\ j + 1 \in 1..Len(queue) /\ i + 1 < j + 1
        BY <2>3, <2>4
      <3> QED
        BY <2>3, <3>1 DEF QueueIsOrdered
    <2> QED
      BY <2>1, <2>2, <2>4 DEF QueueIsOrdered
  <1>4. CASE Settle
    <2>1. Len(queue') = 1
      BY <1>4 DEF Settle
    <2> QED
      BY <2>1 DEF QueueIsOrdered
  <1>5. CASE Expand /\ ~UNCHANGED <<tree, queue>>
    <2> DEFINE c == Neighbour(tree[current].cell, k)
               nd == Node(c, current, tree[current].g + 1)
    <2>1. /\ c \in Block(tree[current].cell) \cap free
          /\ tree' = Append(tree, nd) /\ queue' = Push(Len(tree'), tree')
      BY <1>5 DEF Expand
    <2>2. nd \in Nodes
      <3>1. free \subseteq Cells /\ goal \in Goals \cup Cells
        BY <1>1 DEF TypeOK
      <3>2. tree[current].g + 1 \in Nat /\ current \in Nat
        <4>1. tree[current].g \in Nat
          BY <1>1, TypedNodes, Zenon
        <4> QED
          BY <1>1, <4>1
      <3>3. c \in free
        BY <2>1
      <3> HIDE DEF c
      <3>4. Node(c, current, tree[current].g + 1) \in Nodes
        BY <3>1, <3>2, <3>3, NodeType
      <3> QED
        BY <3>4
    <2> HIDE DEF c, nd
    <2>3. PICK nodes \in Seq(Nodes) : nodes = Append(tree, nd)
      BY <1>1, <2>2, AppendProperties, Zenon
    <2>4. Len(nodes) = Len(tree) + 1 /\ Len(tree) \in Nat /\ \A i \in 1..Len(tree) : nodes[i] = tree[i]
      BY <1>1, <2>3
    <2>5. queue \in Seq(1..Len(nodes)) /\ Len(nodes) \in 1..Len(nodes)
      <3>1. 1..Len(tree) \subseteq 1..Len(nodes)
        BY <2>4
      <3>2. queue \in Seq(1..Len(nodes))
        BY <1>1, <3>1, SeqMonotonic
      <3> QED
        BY <2>4, <3>2
    <2>6. \A i, j \in 1..Len(queue) : i < j => ~Costlier(nodes[queue[i]], nodes[queue[j]])
      <3>1. \A i \in 1..Len(queue) : nodes[queue[i]] = tree[queue[i]]
        BY <1>1, <2>4
      <3> QED
        BY <3>1 DEF QueueIsOrdered
    <2>7. tree' = nodes /\ queue' = Push(Len(nodes), nodes)
      BY <2>1, <2>3
    <2>8. PICK r : r = Push(Len(nodes), nodes)
      OBVIOUS
    <2>9. \A i, j \in 1..Len(r) : i < j => ~Costlier(nodes[r[i]], nodes[r[j]])
      BY <2>5, <2>6, <2>8, PushKeepsOrder
    <2> QED
      BY <2>7, <2>8, <2>9 DEF QueueIsOrdered
  <1>6. FindNextBest \/ Compare \/ Trace \/ Retarget \/ UNCHANGED vars => UNCHANGED <<tree, queue>>
    BY DEF FindNextBest, Compare, Trace, Retarget, vars
  <1> QED
    BY <1>2, <1>3, <1>4, <1>5, <1>6 DEF Next, Search

-----------------------------------------------------------------------------
(* The rank.                                                                *)

\* What the proofs about the rank need to know of the types.
LEMMA RankTypes ==
  ASSUME TypeOK
  PROVE  /\ queue \in Seq(1..Len(tree)) /\ Len(queue) \in Nat /\ current \in 1..Len(tree)
         /\ Len(tree) \in Nat /\ Len(tree) >= 1 /\ scan.i \in Nat /\ retargets \in Nat
         /\ retargets <= MaxRetargets /\ MaxRetargets \in Nat
PROOF
  <1>1. tree \in Seq(Nodes) /\ tree # << >>
    BY DEF TypeOK, Nodes
  <1>2. scan \in [i : Nat \ {0}, nb : 1..Len(tree), e : Goals \cup Cells]
    BY DEF TypeOK
  <1>3. queue \in Seq(1..Len(tree)) /\ current \in 1..Len(tree) /\ retargets \in 0..MaxRetargets
    BY DEF TypeOK
  <1>4. Len(tree) \in Nat /\ Len(tree) >= 1
    BY <1>1
  <1>5. scan.i \in Nat
    BY <1>2
  <1>6. Len(queue) \in Nat
    BY <1>3
  <1>7. retargets \in Nat /\ retargets <= MaxRetargets /\ MaxRetargets \in Nat
    BY <1>3, AStarAssumption
  <1> QED
    BY <1>3, <1>4, <1>5, <1>6, <1>7

\* find_next_best stops behind the last node.
ScanInv == pc = "best" => scan.i <= Len(tree) + 1

Outside == { c \in Cells : ~InTree(c) }

LEMMA ScanKept ==
  AStarInv /\ ScanInv /\ [Next]_vars => ScanInv'
PROOF
  <1> SUFFICES ASSUME AStarInv, ScanInv, [Next]_vars, pc' = "best"
               PROVE  scan'.i <= Len(tree') + 1
    BY DEF ScanInv
  <1>0. TypeOK
    BY DEF AStarInv
  <1>1. Len(tree) \in Nat /\ Len(tree) >= 1 /\ scan.i \in Nat
    BY <1>0, RankTypes
  <1>2. CASE FindNextBest
    <2>1. scan'.i = 2 /\ tree' = tree
      BY <1>2 DEF FindNextBest
    <2> QED
      BY <1>1, <2>1
  <1>3. CASE Compare
    <2>1. scan'.i = scan.i + 1 /\ scan.i <= Len(tree) /\ tree' = tree
      <3>1. scan \in [i : Nat \ {0}, nb : 1..Len(tree), e : Goals \cup Cells]
        BY <1>0 DEF TypeOK
      <3> QED
        BY <1>3, <3>1 DEF Compare
    <2> QED
      BY <1>1, <2>1
  <1>4. CASE Retarget \/ UNCHANGED vars
    <2>1. pc' = pc /\ scan' = scan /\ tree' = tree
      BY <1>4 DEF Retarget, vars
    <2> QED
      BY <2>1 DEF ScanInv
  <1>5. ~(Pop \/ Expand \/ Settle \/ Trace)
    <2>1. Pop \/ Expand \/ Settle \/ Trace => pc' # "best"
      BY DEF Pop, Expand, Settle, Trace
    <2> QED
      BY <2>1
  <1> QED
    BY <1>2, <1>3, <1>4, <1>5 DEF Next, Search

LEMMA OutsideIsFinite == IsFiniteSet(Outside) /\ Cardinality(Outside) \in Nat
PROOF
  <1>1. IsFiniteSet(0..(Rows - 1)) /\ IsFiniteSet(0..(Cols - 1))
    BY GridAssumption, FS_Interval
  <1>2. IsFiniteSet(Cells)
    BY <1>1, FS_Product DEF Cells
  <1>3. IsFiniteSet(Outside)
    <2>1. Outside \subseteq Cells
      BY DEF Outside
    <2> QED
      BY <1>2, <2>1, FS_Subset
  <1> QED
    BY <1>3, FS_CardinalityType

\* The places of the rank are naturals.
LEMMA RankParts ==
  ASSUME AStarInv, ScanInv
  PROVE  /\ MaxRetargets - retargets \in Nat /\ Stage \in 0..4 /\ StepsLeft \in Nat
         /\ Rank = << MaxRetargets - retargets, Cardinality(Outside), Stage, StepsLeft >>
PROOF
  <1>1. TypeOK /\ QueueInv
    BY DEF AStarInv
  <1>2. MaxRetargets - retargets \in Nat
    BY <1>1, RankTypes
  <1>3. Stage \in 0..4
    BY DEF Stage
  <1>4. StepsLeft \in Nat
    <2>1. /\ current \in Nat /\ Len(tree) \in Nat /\ scan.i \in Nat /\ Len(queue) \in Nat
          /\ pc = "expand" => k \in 1..8
      BY <1>1, RankTypes DEF QueueInv
    <2>2. CASE pc = "trace"
      BY <2>1, <2>2 DEF StepsLeft
    <2>3. CASE pc = "best"
      BY <2>1, <2>3 DEF StepsLeft, ScanInv
    <2>4. CASE pc = "expand"
      BY <2>1, <2>4 DEF StepsLeft
    <2>5. CASE pc \notin {"trace", "best", "expand"}
      BY <2>1, <2>5 DEF StepsLeft
    <2> QED
      BY <2>2, <2>3, <2>4, <2>5
  <1> QED
    BY <1>2, <1>3, <1>4 DEF Rank, Outside

\* A step that adds no node lowers the rank if it ends a stage or is one of its steps.
LEMMA StageFalls ==
  ASSUME tree' = tree, retargets' = retargets,
         Stage' < Stage \/ (Stage' = Stage /\ StepsLeft' < StepsLeft)
  PROVE  Below(Rank', Rank)
PROOF
  <1>1. Cardinality(Outside)' = Cardinality(Outside)
    BY DEF Outside, InTree
  <1>2. /\ Rank'[1] = Rank[1] /\ Rank'[2] = Rank[2] /\ Rank'[3] = Stage' /\ Rank'[4] = StepsLeft'
        /\ Rank[3] = Stage /\ Rank[4] = StepsLeft /\ DOMAIN Rank' = 1..4
    BY <1>1 DEF Rank, Outside
  <1> HIDE DEF Rank
  <1>3. CASE Stage' < Stage
    <2>1. \A j \in 1..(3 - 1) : Rank'[j] = Rank[j]
      BY <1>2
    <2>2. Rank'[3] < Rank[3] /\ 3 \in DOMAIN Rank'
      BY <1>2, <1>3
    <2> QED
      BY <2>1, <2>2 DEF Below
  <1>4. CASE Stage' = Stage /\ StepsLeft' < StepsLeft
    <2>1. \A j \in 1..(4 - 1) : Rank'[j] = Rank[j]
      BY <1>2, <1>4
    <2>2. Rank'[4] < Rank[4] /\ 4 \in DOMAIN Rank'
      BY <1>2, <1>4
    <2> QED
      BY <2>1, <2>2 DEF Below
  <1> QED
    BY <1>3, <1>4

\* Every step of the search, and every assignment of the goal, lowers the rank.
LEMMA StepFalls ==
  ASSUME AStarInv, ScanInv, Next
  PROVE  Below(Rank', Rank)
PROOF
  <1>1. TypeOK /\ TreeInv /\ QueueInv
    BY DEF AStarInv
  <1>2. /\ queue \in Seq(1..Len(tree)) /\ Len(queue) \in Nat /\ current \in Nat
        /\ retargets \in Nat /\ Len(tree) \in Nat /\ scan.i \in Nat
    BY <1>1, RankTypes
  <1>3. CASE Pop
    <2>1. /\ pc = "search" /\ queue # << >> /\ queue' = Tail(queue) /\ k' = 1
          /\ tree' = tree /\ retargets' = retargets /\ goal' = goal
          /\ pc' = IF tree[queue[1]].cell = goal THEN "trace" ELSE "expand"
      BY <1>3 DEF Pop
    <2>2. CASE tree[queue[1]].cell = goal
      <3>1. Stage = 2 /\ Stage' = 1
        BY <2>1, <2>2 DEF Stage
      <3> QED
        BY <2>1, <3>1, StageFalls
    <2>3. CASE tree[queue[1]].cell # goal
      <3>1. Stage = 4 /\ Stage' = 4
        BY <2>1, <2>3 DEF Stage
      <3>2. Len(queue') = Len(queue) - 1
        BY <1>2, <2>1
      <3>3. StepsLeft = 9 * Len(queue) /\ StepsLeft' = 9 * Len(queue') + 9 - 1
        BY <2>1, <2>3 DEF StepsLeft
      <3> QED
        BY <1>2, <2>1, <3>1, <3>2, <3>3, StageFalls
    <2> QED
      BY <2>2, <2>3
  <1>4. CASE Expand /\ UNCHANGED <<tree, queue>>
    <2>1. /\ pc = "expand" /\ k' = k + 1 /\ tree' = tree /\ queue' = queue
          /\ pc' = IF k = 8 THEN "search" ELSE "expand"
          /\ retargets' = retargets /\ k \in 1..8
      BY <1>1, <1>4 DEF Expand, QueueInv
    <2>2. Stage = 4 /\ StepsLeft = 9 * Len(queue) + 9 - k
      BY <2>1 DEF Stage, StepsLeft
    <2>3. Stage' \in {2, 4} /\ (Stage' = 4 => StepsLeft' < StepsLeft)
      <3>1. Stage' \in {2, 4}
        BY <2>1 DEF Stage
      <3>2. CASE k = 8
        <4>1. StepsLeft' = 9 * Len(queue)
          BY <2>1, <3>2 DEF StepsLeft
        <4> QED
          BY <1>2, <2>2, <3>1, <3>2, <4>1
      <3>3. CASE k # 8
        <4>1. StepsLeft' = 9 * Len(queue) + 9 - (k + 1)
          BY <2>1, <3>3 DEF StepsLeft
        <4> QED
          BY <1>2, <2>1, <2>2, <3>1, <4>1
      <3> QED
        BY <3>2, <3>3
    <2> QED
      BY <2>1, <2>2, <2>3, StageFalls
  <1>5. CASE Expand /\ ~UNCHANGED <<tree, queue>>
    <2>1. PICK c : c = Neighbour(tree[current].cell, k)
      OBVIOUS
    <2>2. /\ tree' = Append(tree, Node(c, current, tree[current].g + 1))
          /\ c \in free /\ ~InTree(c) /\ retargets' = retargets
      BY <1>5, <2>1 DEF Expand
    <2>3. PICK n : n = Node(c, current, tree[current].g + 1)
      OBVIOUS
    <2>4. n.cell = c
      BY <2>3 DEF Node
    <2>5. tree' = Append(tree, n)
      BY <2>2, <2>3
    <2>6. Outside' = Outside \ {c} /\ c \in Outside
      <3>1. c \in Cells
        BY <1>1, <2>2 DEF TypeOK
      <3>2. ASSUME NEW d
            PROVE  InTree(d)' <=> InTree(d) \/ d = c
        <4>1. /\ Len(tree') = Len(tree) + 1 /\ tree'[Len(tree) + 1] = n
              /\ \A i \in 1..Len(tree) : tree'[i] = tree[i]
          <5>1. tree \in Seq(Nodes)
            BY <1>1 DEF TypeOK, Nodes
          <5>2. tree' = Append(tree, n)
            BY <2>5
          <5> QED
            BY <5>1, <5>2
        <4>2. ASSUME InTree(d)'
              PROVE  InTree(d) \/ d = c
          <5>1. PICK i \in 1..(Len(tree) + 1) : tree'[i].cell = d
            BY <4>1, <4>2 DEF InTree
          <5>2. CASE i = Len(tree) + 1
            BY <2>4, <4>1, <5>1, <5>2
          <5>3. CASE i # Len(tree) + 1
            <6>1. i \in 1..Len(tree) /\ tree[i].cell = d
              BY <1>2, <4>1, <5>1, <5>3
            <6> QED
              BY <6>1 DEF InTree
          <5> QED
            BY <5>2, <5>3
        <4>3. ASSUME InTree(d)
              PROVE  InTree(d)'
          <5>1. PICK i \in 1..Len(tree) : tree[i].cell = d
            BY <4>3 DEF InTree
          <5>2. i \in 1..Len(tree') /\ tree'[i].cell = d
            BY <1>2, <4>1, <5>1
          <5> QED
            BY <5>2 DEF InTree
        <4>4. ASSUME d = c
              PROVE  InTree(d)'
          <5>1. Len(tree) + 1 \in 1..Len(tree') /\ tree'[Len(tree) + 1].cell = d
            BY <1>2, <2>4, <4>1, <4>4
          <5> QED
            BY <5>1 DEF InTree
        <4> QED
          BY <4>2, <4>3, <4>4
      <3>3. \A d : d \in Outside' <=> d \in Outside /\ d # c
        BY <3>2 DEF Outside
      <3>4. c \in Outside
        BY <2>2, <3>1 DEF Outside
      <3> QED
        BY <3>3, <3>4
    <2>7. PICK s : s = Outside
      OBVIOUS
    <2>8. Cardinality(s \ {c}) = Cardinality(s) - 1 /\ Cardinality(s) \in Nat
      BY <2>6, <2>7, OutsideIsFinite, FS_RemoveElement
    <2>9. Rank'[2] = Cardinality(s \ {c}) /\ Rank[2] = Cardinality(s) /\ Rank'[1] = Rank[1]
      BY <2>2, <2>6, <2>7 DEF Rank, Outside
    <2>10. Rank'[2] < Rank[2] /\ \A j \in 1..(2 - 1) : Rank'[j] = Rank[j]
      BY <2>8, <2>9
    <2>11. 2 \in DOMAIN Rank'
      BY DEF Rank
    <2> QED
      BY <2>10, <2>11 DEF Below
  <1>6. CASE FindNextBest
    <2>1. /\ pc = "search" /\ queue = << >> /\ pc' = "best"
          /\ tree' = tree /\ retargets' = retargets
      BY <1>6 DEF FindNextBest
    <2>2. Stage = 4 /\ Stage' = 3
      BY <2>1 DEF Stage
    <2> QED
      BY <2>1, <2>2, StageFalls
  <1>7. CASE Compare
    <2>1. /\ pc = "best" /\ pc' = "best" /\ scan'.i = scan.i + 1
          /\ tree' = tree /\ retargets' = retargets
      <3>1. scan \in [i : Nat \ {0}, nb : 1..Len(tree), e : Goals \cup Cells]
        BY <1>1 DEF TypeOK
      <3> QED
        BY <1>7, <3>1 DEF Compare
    <2>2. Stage = 3 /\ Stage' = 3
      BY <2>1 DEF Stage
    <2>3. StepsLeft = Len(tree) + 1 - scan.i /\ StepsLeft' = Len(tree) + 1 - scan'.i
      BY <2>1 DEF StepsLeft
    <2> QED
      BY <1>2, <2>1, <2>2, <2>3, StageFalls
  <1>8. CASE Settle
    <2>1. /\ pc = "best" /\ pc' = "search" /\ queue' = << scan.nb >>
          /\ goal' = tree[scan.nb].cell /\ tree' = tree /\ retargets' = retargets
      BY <1>8 DEF Settle
    <2>2. queue'[1] = scan.nb /\ queue' # << >>
      BY <2>1
    <2>3. Stage = 3 /\ Stage' = 2
      BY <2>1, <2>2 DEF Stage
    <2> QED
      BY <2>1, <2>3, StageFalls
  <1>9. CASE Trace
    <2>1. pc = "trace" /\ tree' = tree /\ retargets' = retargets
      BY <1>9 DEF Trace
    <2>2. CASE tree[current].cell = init
      <3>1. pc' = "returned"
        BY <1>9, <2>2 DEF Trace
      <3>2. Stage = 1 /\ Stage' = 0
        BY <2>1, <3>1 DEF Stage
      <3> QED
        BY <2>1, <3>2, StageFalls
    <2>3. CASE tree[current].cell # init
      <3>1. pc' = "trace" /\ current' = tree[current].parent
        BY <1>9, <2>3 DEF Trace
      <3>2. current \in 2..Len(tree)
        BY <1>1, <2>3, RankTypes DEF TreeInv
      <3>3. current' \in 1..(current - 1)
        BY <1>1, <3>1, <3>2 DEF TreeInv
      <3>4. Stage = 1 /\ Stage' = 1 /\ StepsLeft = current /\ StepsLeft' = current'
        BY <2>1, <3>1 DEF Stage, StepsLeft
      <3> QED
        BY <1>2, <2>1, <3>3, <3>4, StageFalls
    <2> QED
      BY <2>2, <2>3
  <1>10. CASE Retarget
    <2>1. retargets' = retargets + 1
      BY <1>10 DEF Retarget
    <2>2. Rank'[1] = MaxRetargets - retargets' /\ Rank[1] = MaxRetargets - retargets
      BY DEF Rank
    <2>3. Rank'[1] < Rank[1] /\ \A j \in 1..(1 - 1) : Rank'[j] = Rank[j]
      BY <1>1, <2>1, <2>2, RankTypes
    <2>4. 1 \in DOMAIN Rank'
      BY DEF Rank
    <2> QED
      BY <2>3, <2>4 DEF Below
  <1> QED
    BY <1>3, <1>4, <1>5, <1>6, <1>7, <1>8, <1>9, <1>10 DEF Next, Search

-----------------------------------------------------------------------------
(* Theorems.                                                                *)

\* Every variable of the search stays in its range.
THEOREM TypeCorrect == Spec => []TypeOK
PROOF
  <1>1. AStarInv => TypeOK
    BY DEF AStarInv
  <1> QED
    BY <1>1, AStarAlways, PTL

\* The path returned is a route over free cells from where the robot is,
\* whatever other threads do to the goal during the search.
THEOREM ReturnsRoutes == Spec => []ResultIsRoute
PROOF
  <1>1. AStarInv => ResultIsRoute
    BY DEF AStarInv
  <1> QED
    BY <1>1, AStarAlways, PTL

\* find_next_best is called only when every free cell that can be reached is
\* in the tree.
THEOREM GivesUpWhenExhausted == Spec => []GivesUpExhausted
PROOF
  <1>1. AStarInv => GivesUpExhausted
    <2> SUFFICES ASSUME AStarInv, pc = "best"
                 PROVE  \A i \in 1..Len(tree) : Explored(i)
      BY DEF GivesUpExhausted, Explored
    <2>1. QueueInv /\ queue = << >>
      BY DEF AStarInv, QueueInv
    <2>2. Queued = {}
      BY <2>1 DEF Queued, ToSet
    <2> QED
      BY <2>1, <2>2 DEF QueueInv, Searching
  <1> QED
    BY <1>1, AStarAlways, PTL

\* PriorityQueue::push, without any sorting, keeps the queue cheapest first, also
\* while another thread moves the goal: a node's fvalue never changes.
THEOREM QueueStaysOrdered == Spec => []QueueIsOrdered
PROOF
  <1>1. Init => QueueIsOrdered
    <2> SUFFICES ASSUME Init
                 PROVE  QueueIsOrdered
      OBVIOUS
    <2>1. Len(queue) = 1
      BY DEF Init
    <2> QED
      BY <2>1 DEF QueueIsOrdered
  <1> QED
    BY <1>1, OrderKept, AStarAlways, PTL DEF Spec

\* find_next_best finds a closest position, if no thread assigned the goal.
THEOREM FindsClosestNode == Spec => []FindsClosestUndisturbed
PROOF
  <1>1. AStarInv => FindsClosestUndisturbed
    <2> SUFFICES ASSUME AStarInv, retargets = 0, pc = "best", scan.i > Len(tree),
                        NEW i \in 1..Len(tree)
                 PROVE  Dist2(tree[scan.nb].cell, scan.e) <= Dist2(tree[i].cell, scan.e)
      BY DEF FindsClosestUndisturbed, FindsClosest
    <2>1. i < scan.i
      BY DEF AStarInv, TypeOK
    <2> QED
      BY <2>1 DEF AStarInv, GoalInv
  <1> QED
    BY <1>1, AStarAlways, PTL

\* The places of the rank are never negative.
THEOREM RankStaysNatural == Spec => []RankIsNatural
PROOF
  <1>1. Init => ScanInv
    BY DEF Init, ScanInv
  <1>2. AStarInv /\ ScanInv => RankIsNatural
    <2> SUFFICES ASSUME AStarInv, ScanInv
                 PROVE  RankIsNatural
      OBVIOUS
    <2>1. /\ Rank = << MaxRetargets - retargets, Cardinality(Outside), Stage, StepsLeft >>
          /\ MaxRetargets - retargets \in Nat /\ Stage \in Nat /\ StepsLeft \in Nat
      BY RankParts
    <2>2. Cardinality(Outside) \in Nat
      BY OutsideIsFinite
    <2> QED
      BY <2>1, <2>2 DEF RankIsNatural
  <1> QED
    BY <1>1, <1>2, ScanKept, AStarAlways, PTL DEF Spec

\* Every step lowers the rank: no search goes on for ever, wherever other threads
\* move the goal meanwhile, as often as MaxRetargets says.
THEOREM SearchRunsDown == Spec => RankFalls
PROOF
  <1>1. Init => ScanInv
    BY DEF Init, ScanInv
  <1>2. AStarInv /\ ScanInv /\ [Next]_vars => [Below(Rank', Rank)]_vars
    BY StepFalls
  <1> QED
    BY <1>1, <1>2, ScanKept, AStarAlways, PTL DEF Spec, RankFalls

\* astar_path keeps the promise of grid_analyzer.h: its return is a step of
\* Planning, everything before it a stutter.
THEOREM SearchKeepsPromise == Spec => KeepsPromise
PROOF
  <1>0. /\ Promise!Cells = Cells
        /\ \A a, b : Promise!Dist2(a, b) = Dist2(a, b)
        /\ \A p : Promise!Block(p) = Block(p)
        /\ \A p, a, f : Promise!IsRoute(p, a, f) <=> IsRoute(p, a, f)
    <2>1. Promise!Cells = Cells /\ \A a, b : Promise!Dist2(a, b) = Dist2(a, b)
      BY DEF Promise!Cells, Cells, Promise!Dist2, Dist2
    <2>2. \A p : Promise!Block(p) = Block(p)
      BY DEF Promise!Block, Block, Promise!FirstOf, FirstOf
    <2> QED
      BY <2>1, <2>2 DEF Promise!IsRoute, IsRoute
  <1>1. Init => Promise!Init
    BY DEF Init, Promise!Init, Kept
  <1>2. ASSUME AStarInv, AStarInv', [Next]_vars
        PROVE  [Promise!Next]_Promise!vars
    <2>1. CASE Pop \/ Expand \/ FindNextBest \/ Compare \/ Settle \/ Retarget
      <3>1. /\ pc # "returned" /\ pc' # "returned"
            /\ UNCHANGED <<free, init, asked>>
        BY <2>1 DEF Pop, Expand, FindNextBest, Compare, Settle, Retarget
      <3> QED
        BY <3>1 DEF Promise!vars, Kept
    <2>2. CASE UNCHANGED vars
      BY <2>2 DEF vars, Promise!vars, Kept
    <2>3. CASE Trace
      <3>1. pc = "trace" /\ ~Kept /\ UNCHANGED <<free, init, asked, goal, retargets>>
        BY <2>3 DEF Trace, Kept
      <3>2. CASE ~Kept'
        BY <3>1, <3>2 DEF Promise!vars
      <3>3. CASE Kept'
        <4>1. pc' = "returned" /\ retargets' = 0
          BY <3>3 DEF Kept
        <4>2. IsRoute(result', init, free)
          BY <1>2, <3>1, <4>1 DEF AStarInv, ResultIsRoute
        <4>3. goal' = result'[Len(result')] /\ Found'
          BY <1>2, <4>1 DEF AStarInv, GoalInv
        <4>4. goal' = asked \/ Closest(goal')
          BY <3>1, <4>3 DEF Found, Closest
        <4>5. goal' = asked \/ Promise!NextBest(goal')
          BY <1>0, <3>1, <4>4 DEF Closest, Promise!NextBest, Promise!Closed
        <4>6. Promise!Return
          BY <1>0, <3>1, <3>3, <4>2, <4>3, <4>5 DEF Promise!Return
        <4> QED
          BY <4>6 DEF Promise!Next
      <3> QED
        BY <3>2, <3>3
    <2> QED
      BY <1>2, <2>1, <2>2, <2>3 DEF Next, Search
  <1> QED
    BY <1>1, <1>2, AStarAlways, PTL DEF Spec, KeepsPromise, Promise!Spec
=============================================================================
