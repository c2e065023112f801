-------------------------------- MODULE AStar --------------------------------
(***************************************************************************)
(* Grid_Analyzer::astar_path.  The search tree is the sequence of nodes in *)
(* the order the code creates them (Tree::nodes); a node is referred to by *)
(* its index.  The queue holds the nodes still to be expanded, cheapest    *)
(* first.                                                                  *)
(*                                                                         *)
(* The planner holds the mutex that guards the grid while it searches, so  *)
(* the map does not change.  The goal is a reference to Agent::goal, which *)
(* other threads assign without that mutex: Retarget, at most MaxRetargets *)
(* times.                                                                  *)
(***************************************************************************)
EXTENDS Grid, FiniteSets, SequencesExt

CONSTANTS Maps, Starts, Goals,   \* the maps, positions and goals considered
          MaxRetargets           \* bound: how often others assign the goal

ASSUME AStarAssumption ==
  /\ Maps \subseteq SUBSET Cells
  /\ Starts \subseteq Cells
  /\ Goals \subseteq Int \X Int
  /\ MaxRetargets \in Nat

VARIABLES
  free,     \* the cells of the map that are ' '
  init,     \* where the search starts
  asked,    \* history: the goal the search was called with
  goal,     \* the goal, by reference
  tree,     \* Tree::nodes
  queue,    \* the priority queue
  current,  \* the node being expanded or traced
  k,        \* the neighbour of current looked at
  scan,     \* the locals of find_next_best: e, nb and the loop index
  result,   \* the path to return
  retargets, \* how often another thread has assigned the goal
  pc

vars == <<free, init, asked, goal, tree, queue, current, k, scan, result,
          retargets, pc>>

-----------------------------------------------------------------------------
\* The neighbours in the order adjacentPositions lists them.
Offsets == << <<-1, -1>>, <<-1, 0>>, <<-1, 1>>, <<0, -1>>,
              <<0, 1>>, <<1, -1>>, <<1, 0>>, <<1, 1>> >>
Neighbour(p, n) == << p[1] + Offsets[n][1], p[2] + Offsets[n][2] >>

Node(c, parent, g) == [cell |-> c, parent |-> parent, g |-> g, h |-> Dist2(c, goal)]

\* Square root of a exceeds square root of b by more than d.
RootExceeds(a, b, d) ==
  LET r == a - b - d * d
      s == b - a - d * d
  IN  IF d >= 0 THEN r > 0 /\ r * r > 4 * d * d * b
                ELSE ~(s >= 0 /\ s * s >= 4 * d * d * a)

\* m's fvalue, the sum of its gvalue and hvalue, is greater than n's.
Costlier(m, n) == RootExceeds(m.h, n.h, n.g - m.g)

InTree(c) == \E i \in 1..Len(tree) : tree[i].cell = c

\* Variant with a bug: the new node goes to the back of the queue.
Push_Back(n, nodes) == Append(queue, n)

\* PriorityQueue::push: in front of the first node that is not cheaper.
Push(n, nodes) ==
  LET place == CHOOSE i \in 1..(Len(queue) + 1) :
                 /\ \A j \in 1..(i - 1) : Costlier(nodes[n], nodes[queue[j]])
                 /\ i <= Len(queue) => ~Costlier(nodes[n], nodes[queue[i]])
  IN  InsertAt(queue, place, n)

-----------------------------------------------------------------------------
Init ==
  /\ free \in Maps /\ init \in Starts /\ goal \in Goals
  /\ asked = goal
  /\ tree = << Node(init, 1, 0) >>
  /\ queue = << 1 >> /\ current = 1 /\ k = 1
  /\ scan = [i |-> 1, nb |-> 1, e |-> goal]
  /\ result = << >> /\ retargets = 0
  /\ pc = "search"

\* Take the cheapest node; when it is the goal the search is over.
Pop ==
  /\ pc = "search" /\ queue # << >>
  /\ current' = Head(queue) /\ queue' = Tail(queue)
  /\ pc' = IF tree[Head(queue)].cell = goal THEN "trace" ELSE "expand"
  /\ k' = 1
  /\ UNCHANGED <<free, init, asked, goal, tree, scan, result, retargets>>

\* Variant with a bug: the last neighbour is not looked at.
Expand_OneShort ==
  /\ pc = "expand"
  /\ LET c == Neighbour(tree[current].cell, k)
         nodes == Append(tree, Node(c, current, tree[current].g + 1))
     IN  IF c \in Block(tree[current].cell) \cap free /\ ~InTree(c)
         THEN tree' = nodes /\ queue' = Push(Len(nodes), nodes)
         ELSE UNCHANGED <<tree, queue>>
  /\ k' = k + 1
  /\ pc' = IF k = 7 THEN "search" ELSE "expand"
  /\ UNCHANGED <<free, init, asked, goal, current, scan, result, retargets>>

\* Add a neighbour of current that is free and not in the tree yet.
Expand ==
  /\ pc = "expand"
  /\ LET c == Neighbour(tree[current].cell, k)
         nodes == Append(tree, Node(c, current, tree[current].g + 1))
     IN  IF c \in Block(tree[current].cell) \cap free /\ ~InTree(c)
         THEN tree' = nodes /\ queue' = Push(Len(nodes), nodes)
         ELSE UNCHANGED <<tree, queue>>
  /\ k' = k + 1
  /\ pc' = IF k = 8 THEN "search" ELSE "expand"
  /\ UNCHANGED <<free, init, asked, goal, current, scan, result, retargets>>

\* The queue is empty: find_next_best, on a copy of the goal.
FindNextBest ==
  /\ pc = "search" /\ queue = << >>
  /\ scan' = [i |-> 2, nb |-> 1, e |-> goal]
  /\ pc' = "best"
  /\ UNCHANGED <<free, init, asked, goal, tree, queue, current, k, result, retargets>>

\* Closer to e, or else of an equal hvalue and a smaller gvalue.
Better(m, n, e) ==
  \/ Dist2(m.cell, e) < Dist2(n.cell, e)
  \/ Dist2(m.cell, e) >= Dist2(n.cell, e) /\ m.h = n.h /\ m.g < n.g

\* Variant with a bug: the index past the better node is kept.
Compare_Next ==
  /\ pc = "best" /\ scan.i <= Len(tree)
  /\ scan' = [scan EXCEPT !.i = @ + 1,
                          !.nb = IF Better(tree[scan.i], tree[@], scan.e)
                                 THEN scan.i + 1 ELSE @]
  /\ UNCHANGED <<free, init, asked, goal, tree, queue, current, k, result, retargets, pc>>

\* Variant with a bug: the node the most steps away is kept.
Compare_Farther ==
  /\ pc = "best" /\ scan.i <= Len(tree)
  /\ scan' = [scan EXCEPT !.i = @ + 1,
                          !.nb = IF tree[scan.i].g > tree[@].g THEN scan.i ELSE @]
  /\ UNCHANGED <<free, init, asked, goal, tree, queue, current, k, result, retargets, pc>>

Compare ==
  /\ pc = "best" /\ scan.i <= Len(tree)
  /\ scan' = [scan EXCEPT !.i = @ + 1,
                          !.nb = IF Better(tree[scan.i], tree[@], scan.e)
                                 THEN scan.i ELSE @]
  /\ UNCHANGED <<free, init, asked, goal, tree, queue, current, k, result, retargets, pc>>

\* Variant with a bug: the node does not go back on the queue.
Settle_NotQueued ==
  /\ pc = "best" /\ scan.i > Len(tree)
  /\ goal' = tree[scan.nb].cell
  /\ current' = scan.nb
  /\ pc' = "search"
  /\ UNCHANGED <<free, init, asked, tree, queue, k, scan, result, retargets>>

\* The best node's cell becomes the goal and the node goes back on the queue.
Settle ==
  /\ pc = "best" /\ scan.i > Len(tree)
  /\ goal' = tree[scan.nb].cell
  /\ current' = scan.nb
  /\ queue' = << scan.nb >>
  /\ pc' = "search"
  /\ UNCHANGED <<free, init, asked, tree, k, scan, result, retargets>>

\* Variant with a bug: the path is not reversed.
Trace_Backwards ==
  /\ pc = "trace"
  /\ result' = Append(result, tree[current].cell)
  /\ IF tree[current].cell = init
     THEN pc' = "returned" /\ UNCHANGED current
     ELSE pc' = "trace" /\ current' = tree[current].parent
  /\ UNCHANGED <<free, init, asked, goal, tree, queue, k, scan, retargets>>

\* Follow the parents back to the root; reverse() has the root come first.
Trace ==
  /\ pc = "trace"
  /\ result' = << tree[current].cell >> \o result
  /\ IF tree[current].cell = init
     THEN pc' = "returned" /\ UNCHANGED current
     ELSE pc' = "trace" /\ current' = tree[current].parent
  /\ UNCHANGED <<free, init, asked, goal, tree, queue, k, scan, retargets>>

\* Another thread assigns the agent's goal.
Retarget ==
  /\ retargets < MaxRetargets /\ pc # "returned"
  /\ retargets' = retargets + 1
  /\ goal' \in Goals
  /\ UNCHANGED <<free, init, asked, tree, queue, current, k, scan, result, pc>>

Search == Pop \/ Expand \/ FindNextBest \/ Compare \/ Settle \/ Trace
Next == Search \/ Retarget

Spec == Init /\ [][Next]_vars
FairSpec == Spec /\ WF_vars(Search)

-----------------------------------------------------------------------------
(* Properties.                                                              *)

\* Every variable stays in its range.
TypeOK ==
  /\ free \subseteq Cells /\ init \in Cells
  /\ asked \in Goals /\ goal \in Goals \cup Cells
  /\ tree \in Seq([cell : Cells, parent : Nat, g : Nat, h : Nat]) /\ tree # << >>
  /\ queue \in Seq(1..Len(tree))
  /\ current \in 1..Len(tree)
  /\ k \in 1..9
  /\ scan \in [i : Nat \ {0}, nb : 1..Len(tree), e : Goals \cup Cells]
  /\ result \in Seq(Cells)
  /\ retargets \in 0..MaxRetargets
  /\ pc \in {"search", "expand", "best", "trace", "returned"}

(* The path returned starts where the robot is and leads over free cells in  *)
(* single steps, whatever happens to the goal meanwhile.                     *)
ResultIsRoute == pc = "returned" => IsRoute(result, init, free)

(* The queue is kept cheapest first by inserting alone: its head is always   *)
(* the node A-star must expand next.                                         *)
QueueIsOrdered ==
  \A i, j \in 1..Len(queue) :
    i < j => ~Costlier(tree[queue[i]], tree[queue[j]])

(* The search gives up only when it has looked at every cell that can be     *)
(* reached: no free cell borders on the tree from outside.                   *)
GivesUpExhausted ==
  pc = "best" =>
    \A i \in 1..Len(tree) : \A c \in Block(tree[i].cell) \cap free : InTree(c)

\* find_next_best "finds the closest position in tree to position e".
FindsClosest ==
  pc = "best" /\ scan.i > Len(tree) =>
    \A i \in 1..Len(tree) :
      Dist2(tree[scan.nb].cell, scan.e) <= Dist2(tree[i].cell, scan.e)

(* find_next_best keeps its comment's word if nobody assigned the goal since *)
(* the search computed its first hvalue; otherwise it need not, because it   *)
(* breaks ties on the hvalues stored in the nodes.                           *)
FindsClosestUndisturbed == retargets = 0 => FindsClosest

(* Every search returns, also if the goal moves while it runs.               *)
Terminates == <>(pc = "returned")

(* Why it does: every step, the search's or another thread's, lowers a rank  *)
(* of naturals, in the first place it changes.  What is left to spend is the *)
(* other threads' assignments; cells outside the tree; the stages of the     *)
(* search, which begins anew only if the goal moved; and the steps of each.  *)
Stage ==
  CASE pc = "returned" -> 0
    [] pc = "trace" -> 1
    [] pc = "search" /\ queue # << >> /\ tree[queue[1]].cell = goal -> 2
    [] pc = "best" -> 3
    [] OTHER -> 4

StepsLeft ==
  CASE pc = "trace" -> current
    [] pc = "best" -> Len(tree) + 1 - scan.i
    [] pc = "expand" -> 9 * Len(queue) + 9 - k
    [] OTHER -> 9 * Len(queue)

Rank == << MaxRetargets - retargets, Cardinality({ c \in Cells : ~InTree(c) }),
           Stage, StepsLeft >>
RankIsNatural == Rank \in [1..4 -> Nat]

RankFalls == [][Below(Rank', Rank)]_vars

(* A search does in one step, its return, what the header file promises; of  *)
(* a search whose goal another thread assigned it promises nothing.          *)
Kept == pc = "returned" /\ retargets = 0
Promise == INSTANCE Planning WITH
  goal   <- IF Kept THEN goal ELSE asked,
  result <- IF Kept THEN result ELSE << >>
KeepsPromise == Promise!Spec
=============================================================================
