---------------------------- MODULE Server_proofs ----------------------------
(* Safety of server mode, for every floor, set of clients, routes and goals. *)
EXTENDS Server, TLAPS

\* The ranges of a planner's and of the display's state (TypeOK).
PlannerStates ==
  [pc : {"sleep", "mark", "column", "set", "send", "exited"},
   todo : SUBSET Clients, who : Clients \cup {Nobody},
   row : -1..(Rows - 1), seen : [Clients -> Positions], newPath : PathsOK]
DisplayStates ==
  [pc : {"top", "first", "firstset", "wait", "rest", "restcolumn", "exited"},
   start : BOOLEAN, show : Clients \cup {Nobody}, todo : SUBSET Clients,
   who : Clients \cup {Nobody}, row : -1..(Rows - 1), newPath : PathsOK]

\* A thread works on the grid exactly while it owns the mutex.
LockInv ==
  /\ \A c \in Clients :
       pl[c].pc \in {"mark", "column", "set", "send"} <=> lock = c
  /\ disp.pc \in {"rest", "restcolumn"} \/ (tcp.pc = "crashed" /\ lock = Display)
       <=> lock = Display

\* The locals of a thread are set where it uses them.
LocalsInv ==
  /\ \A c \in Clients : pl[c].pc \in {"mark", "column", "set", "send"} =>
       /\ pl[c].todo \subseteq Clients \ {c}
       /\ pl[c].pc = "column" => pl[c].who \in pl[c].todo
       /\ pl[c].pc \in {"set", "send"} => pl[c].todo = {} /\ pl[c].newPath # << >>
       /\ \A d \in Clients : pl[c].seen[d] # NoMark => d \in (Clients \ {c}) \ pl[c].todo
  /\ \A c \in Clients : pl[c].pc = "sleep" => pl[c] = PlannerIdle
  /\ disp.pc \in {"first", "firstset", "wait", "rest", "restcolumn"} => disp.show \in Clients
  /\ disp.pc = "firstset" => disp.newPath # << >>
  /\ disp.pc = "restcolumn" => disp.who \in disp.todo
  /\ tcp.pc = "goal" => tcp.from \in Clients

\* While a planner marks, the grid shows the robots it has marked so far.
MarksInv ==
  \A c \in Clients : pl[c].pc \in {"mark", "column", "set", "send"} =>
    \A q \in Cells :
      IF \E d \in Clients \ {c} : pl[c].seen[d] = q
      THEN map[q] \in {d \in Clients \ {c} : pl[c].seen[d] = q}
      ELSE map[q] \in {Empty, Wall}

\* While the display marks, the trail is the path it is about to print.
TrailInv ==
  disp.pc \in {"rest", "restcolumn"} =>
    LET p == path[disp.show]
        on == {p[i] : i \in 1..Len(p)}
    IN  /\ {q \in Cells : map[q] = Trail} \subseteq on
        /\ \A q \in on : map[q] \in {Trail} \cup Clients

ServerInv ==
  TypeOK /\ LockInv /\ LocalsInv /\ MarksInv /\ PathAvoidsRobots /\ TrailInv

-----------------------------------------------------------------------------
(* What a plan is.                                                          *)

\* A plan is a path of one of the forms allowed, and starts where it is asked to.
LEMMA PlansType ==
  ASSUME NEW a \in Positions, NEW g, NEW m, NEW p \in PlansTo(a, g, m)
  PROVE  /\ p \in PathsOK /\ p # << >> /\ p[1] = a
         /\ LastOf(p) \in Positions
         /\ a # NoPosition => p \in Routes
PROOF
  <1>1. CASE a = NoPosition
    <2>1. p = << a >>
      BY <1>1 DEF PlansTo
    <2> QED
      BY <1>1, <2>1 DEF PathsOK, LastOf, Positions
  <1>2. CASE a # NoPosition
    <2>1. p \in Routes /\ p[1] = a
      BY <1>2 DEF PlansTo, IsRoute
    <2>2. p \in Seq(Cells) /\ p # << >>
      BY <2>1, ServerAssumption
    <2>3. LastOf(p) \in Cells
      BY <2>2 DEF LastOf
    <2> QED
      BY <2>1, <2>2, <2>3 DEF PathsOK, Positions
  <1> QED
    BY <1>1, <1>2

\* After its first cell a plan uses empty cells only.
LEMMA PlansAreFree ==
  ASSUME NEW a \in Positions, NEW g, NEW m, NEW p \in PlansTo(a, g, m), NEW i \in 2..Len(p)
  PROVE  p[i] \in Cells /\ m[p[i]] = Empty
PROOF
  BY DEF PlansTo, IsRoute

\* A position is a pair that differs from no mark exactly when it is a cell.
LEMMA PositionsArePairs ==
  /\ NoPosition \notin Cells /\ NoMark \notin Cells
  /\ \A q \in Positions : q[1] \in -1..(Rows - 1) /\ q[2] \in -1..(Cols - 1)
  /\ \A q \in Cells : q[1] \in 0..(Rows - 1) /\ q[2] \in 0..(Cols - 1)
PROOF
  BY GridAssumption DEF Positions, Cells, NoPosition, NoMark

\* What the display draws: the cells of the path are trail or robots, all others not.
LEMMA PathMarkedTrail ==
  ASSUME NEW m \in [Cells -> Contents], NEW p \in Seq(Cells), p # << >>, NEW id \in Clients
  PROVE  /\ PathMarked(m, p, id) \in [Cells -> Contents]
         /\ \A q \in Cells : PathMarked(m, p, id)[q] = Trail => \E i \in 1..Len(p) : p[i] = q
         /\ \A i \in 1..Len(p) : PathMarked(m, p, id)[p[i]] \in {Trail} \cup Clients
PROOF
  <1> DEFINE M == PathMarked(m, p, id)
             tail(q) == \E i \in 2..Len(p) : p[i] = q /\ ~(i = 2 /\ p[1] = q)
  <1>1. \A q \in Cells : M[q] = IF tail(q) THEN Trail
                                ELSE IF p[1] = q THEN id
                                ELSE IF m[q] = Wall THEN Wall ELSE Empty
    BY DEF PathMarked, Cleared
  <1>2. M \in [Cells -> Contents]
    BY <1>1 DEF PathMarked, Contents
  <1>3. Len(p) \in Nat /\ Len(p) >= 1
    OBVIOUS
  <1>4. ASSUME NEW q \in Cells, M[q] = Trail
        PROVE  \E i \in 1..Len(p) : p[i] = q
    <2>1. CASE tail(q)
      BY <2>1, <1>3
    <2>2. CASE ~tail(q)
      BY <2>2, <1>1, <1>4, <1>3, ServerAssumption
    <2> QED
      BY <2>1, <2>2
  <1>5. ASSUME NEW i \in 1..Len(p)
        PROVE  M[p[i]] \in {Trail} \cup Clients
    <2>1. p[i] \in Cells
      OBVIOUS
    <2>2. tail(p[i]) \/ p[1] = p[i]
      BY <1>3
    <2> QED
      BY <2>1, <2>2, <1>1
  <1> QED
    BY <1>2, <1>4, <1>5

-----------------------------------------------------------------------------
LEMMA ServerInitInv == Init => ServerInv
PROOF
  <1> SUFFICES ASSUME Init
               PROVE  ServerInv
    OBVIOUS
  <1> USE ServerAssumption, GridAssumption DEF Init, PlannerIdle, DisplayIdle
  <1>1. TypeOK
    <2>1. map \in [Cells -> Contents]
      BY DEF Contents
    <2>2. pos \in [Clients -> Positions] /\ goal \in [Clients -> Positions \cup Goals]
      BY DEF Positions
    <2>3. path \in [Clients -> PathsOK] /\ << >> \in PathsOK
      BY DEF PathsOK
    <2>4. NoMark \in Positions /\ -1 \in -1..(Rows - 1)
      BY DEF Positions, NoMark, NoPosition
    <2>5. pl \in [Clients -> PlannerStates]
      BY <2>3, <2>4 DEF PlannerStates, DisplayStates
    <2>6. disp \in DisplayStates
      BY <2>3, <2>4 DEF PlannerStates, DisplayStates
    <2>7. backlog \in [Clients -> 0..Capacity]
      OBVIOUS
    <2> QED
      BY <2>1, <2>2, <2>3, <2>5, <2>6, <2>7 DEF TypeOK, PlannerStates, DisplayStates
  <1>2. LockInv
    BY DEF LockInv
  <1>3. LocalsInv /\ MarksInv /\ PathAvoidsRobots /\ TrailInv
    BY DEF LocalsInv, MarksInv, PathAvoidsRobots, TrailInv
  <1> QED
    BY <1>1, <1>2, <1>3 DEF ServerInv

-----------------------------------------------------------------------------
(* A planner's step.                                                        *)

LEMMA PlannersType ==
  ASSUME TypeOK
  PROVE  pl \in [Clients -> PlannerStates] /\ disp \in DisplayStates
PROOF
  BY DEF TypeOK, PlannerStates, DisplayStates

LEMMA LockAndClearInv ==
  ASSUME ServerInv, NEW c \in Clients, LockAndClear(c)
  PROVE  ServerInv'
PROOF
  <1> USE DEF Planner, agents
  <1>1. TypeOK /\ LockInv /\ LocalsInv /\ MarksInv /\ PathAvoidsRobots /\ TrailInv
    BY DEF ServerInv
  <1>2. pl \in [Clients -> PlannerStates] /\ pl[c] = PlannerIdle
    BY <1>1, PlannersType DEF LocalsInv, LockAndClear
  <1>3. /\ pl'[c] = [PlannerIdle EXCEPT !.pc = "mark", !.todo = Clients \ {c}]
        /\ \A e \in Clients \ {c} : pl'[e] = pl[e]
        /\ DOMAIN pl' = Clients
    BY <1>2 DEF LockAndClear
  <1>a. pl'[c].seen = [e \in Clients |-> NoMark]
    BY <1>3 DEF PlannerIdle
  <1>4. \A e \in Clients \ {c} : pl[e].pc \notin {"mark", "column", "set", "send"}
    BY <1>1, ServerAssumption DEF LockInv, LockAndClear
  <1> USE DEF LockAndClear
  <1>5. TypeOK'
    <2>1. map' \in [Cells -> Contents]
      BY <1>1 DEF TypeOK, Cleared, Contents
    <2>2. pl' \in [Clients -> PlannerStates]
      <3>1. pl[c] \in PlannerStates
        BY <1>2
      <3>2. [pl[c] EXCEPT !.pc = "mark", !.todo = Clients \ {c}] \in PlannerStates
        BY <3>1 DEF PlannerStates
      <3> QED
        BY <3>2, <1>2
    <2> QED
      BY <2>1, <2>2, <1>1 DEF TypeOK, PlannerStates
  <1>6. LockInv'
    <2>1. disp.pc \notin {"rest", "restcolumn"} /\ Running
      BY <1>1, ServerAssumption DEF LockInv
    <2> QED
      BY <1>3, <1>4, <2>1, ServerAssumption DEF LockInv, PlannerIdle, Running
  <1>7. LocalsInv'
    BY <1>1, <1>3 DEF LocalsInv, PlannerIdle
  <1>8. MarksInv'
    <2>1. \A e \in Clients : pl'[c].seen[e] = NoMark
      BY <1>a
    <2>2. \A q \in Cells : map'[q] \in {Empty, Wall}
      BY DEF Cleared
    <2> QED
      BY <1>3, <1>4, <2>1, <2>2, PositionsArePairs DEF MarksInv
  <1>9. PathAvoidsRobots' /\ TrailInv'
    BY <1>1, <1>3, ServerAssumption DEF PathAvoidsRobots, TrailInv, PlannerIdle, LockInv
  <1> QED
    BY <1>5, <1>6, <1>7, <1>8, <1>9 DEF ServerInv

LEMMA MarkRowInv ==
  ASSUME ServerInv, NEW c \in Clients, MarkRow(c)
  PROVE  ServerInv'
PROOF
  <1> USE DEF Planner, agents
  <1>1. TypeOK /\ LockInv /\ LocalsInv /\ MarksInv /\ PathAvoidsRobots /\ TrailInv
    BY DEF ServerInv
  <1>2. pl \in [Clients -> PlannerStates] /\ pl[c] \in PlannerStates
    BY <1>1, PlannersType
  <1>3. PICK d \in pl[c].todo :
          pl' = [pl EXCEPT ![c].pc = "column", ![c].who = d, ![c].row = pos[d][1]]
    BY DEF MarkRow
  <1>4. d \in Clients /\ pos[d][1] \in -1..(Rows - 1)
    BY <1>1, <1>2, PositionsArePairs DEF TypeOK, PlannerStates
  <1>5. /\ pl'[c] = [pl[c] EXCEPT !.pc = "column", !.who = d, !.row = pos[d][1]]
        /\ \A e \in Clients \ {c} : pl'[e] = pl[e]
        /\ DOMAIN pl' = Clients
    BY <1>2, <1>3
  <1>6. /\ pl'[c].pc = "column" /\ pl'[c].who = d /\ pl'[c].todo = pl[c].todo
        /\ pl'[c].seen = pl[c].seen /\ pl'[c].newPath = pl[c].newPath
    BY <1>2, <1>5 DEF PlannerStates
  <1> USE DEF MarkRow
  <1>7. TypeOK'
    <2>1. pl' \in [Clients -> PlannerStates]
      <3>1. [pl[c] EXCEPT !.pc = "column", !.who = d, !.row = pos[d][1]] \in PlannerStates
        BY <1>2, <1>4 DEF PlannerStates
      <3> QED
        BY <3>1, <1>2, <1>3
    <2> QED
      BY <2>1, <1>1 DEF TypeOK, PlannerStates
  <1>8. LockInv'
    BY <1>1, <1>5, <1>6 DEF LockInv
  <1>9. LocalsInv'
    BY <1>1, <1>5, <1>6 DEF LocalsInv
  <1>10. MarksInv' /\ TrailInv'
    BY <1>1, <1>5, <1>6 DEF MarksInv, TrailInv
  <1>11. PathAvoidsRobots'
    BY <1>1, <1>5, <1>6 DEF PathAvoidsRobots
  <1> QED
    BY <1>7, <1>8, <1>9, <1>10, <1>11 DEF ServerInv

LEMMA MarkColumnInv ==
  ASSUME ServerInv, NEW c \in Clients, MarkColumn(c)
  PROVE  ServerInv'
PROOF
  <1> DEFINE d == pl[c].who
             q == << pl[c].row, pos[d][2] >>
  <1> USE DEF Planner, agents
  <1>1. TypeOK /\ LockInv /\ LocalsInv /\ MarksInv /\ PathAvoidsRobots /\ TrailInv
    BY DEF ServerInv
  <1>2. pl \in [Clients -> PlannerStates] /\ pl[c] \in PlannerStates /\ pl[c].pc = "column"
    BY <1>1, PlannersType DEF MarkColumn
  <1>3. d \in pl[c].todo /\ d \in Clients \ {c} /\ pl[c].seen[d] = NoMark
    BY <1>1, <1>2 DEF LocalsInv
  <1>4. lock = c /\ \A e \in Clients \ {c} : pl[e].pc \notin {"mark", "column", "set", "send"}
    BY <1>1, <1>2 DEF LockInv
  <1>5. disp.pc \notin {"rest", "restcolumn"}
    BY <1>1, <1>4, ServerAssumption DEF LockInv
  <1>6. CASE q \notin Cells
    <2>1. tcp' = [tcp EXCEPT !.pc = "crashed"] /\ lock # Display
          /\ UNCHANGED <<map, pos, goal, path, which, done, lock, pl, disp, backlog, gone>>
      BY <1>4, <1>6, ServerAssumption DEF MarkColumn, Crash
    <2>2. TypeOK'
      BY <1>1, <2>1 DEF TypeOK
    <2>3. LockInv' /\ LocalsInv'
      BY <1>1, <1>2, <2>1 DEF LockInv, LocalsInv, MarkColumn, Running, TypeOK
    <2>4. MarksInv' /\ PathAvoidsRobots' /\ TrailInv'
      BY <1>1, <2>1 DEF MarksInv, PathAvoidsRobots, TrailInv
    <2> QED
      BY <2>2, <2>3, <2>4 DEF ServerInv
  <1>7. CASE q \in Cells
    <2> DEFINE r == [pl[c] EXCEPT !.pc = "mark", !.todo = @ \ {d}, !.who = Nobody,
                                  !.row = -1, !.seen = [@ EXCEPT ![d] = q]]
    <2>1. /\ map' = [map EXCEPT ![q] = d]
          /\ pl' = [pl EXCEPT ![c] = r]
          /\ UNCHANGED <<pos, goal, path, which, done, lock, disp, tcp, backlog, gone>>
      <3>1. pl' = [pl EXCEPT ![c].pc = "mark", ![c].todo = @ \ {d}, ![c].who = Nobody,
                             ![c].row = -1, ![c].seen[d] = q]
        BY <1>7 DEF MarkColumn
      <3>2. pl' = [pl EXCEPT ![c] = r]
        BY <1>2, <1>3, <3>1 DEF PlannerStates
      <3> QED
        BY <1>7, <3>2 DEF MarkColumn, Marked
    <2>2. pl'[c] = r /\ \A e \in Clients \ {c} : pl'[e] = pl[e]
      BY <1>2, <2>1
    <2>3. /\ r.pc = "mark" /\ r.todo = pl[c].todo \ {d}
          /\ r.seen = [pl[c].seen EXCEPT ![d] = q]
      BY <1>2 DEF PlannerStates
    <2> HIDE DEF r
    <2>4. r \in PlannerStates
      <3>1. q \in Positions /\ -1 \in -1..(Rows - 1)
        BY <1>7, GridAssumption DEF Positions
      <3> QED
        BY <1>2, <3>1 DEF PlannerStates, r
    <2>5. q # NoMark
      BY <1>7, PositionsArePairs
    <2> HIDE DEF q, d
    <2>6. TypeOK'
      <3>1. pl' \in [Clients -> PlannerStates]
        BY <1>2, <2>1, <2>4
      <3>2. map' \in [Cells -> Contents]
        BY <1>1, <1>3, <1>7, <2>1 DEF TypeOK, Contents
      <3> QED
        BY <1>1, <2>1, <3>1, <3>2 DEF TypeOK, PlannerStates
    <2>7. LockInv'
      BY <1>1, <1>2, <2>1, <2>2, <2>3 DEF LockInv
    <2>8. \A e \in Clients : r.seen[e] = IF e = d THEN q ELSE pl[c].seen[e]
      BY <1>2, <2>3 DEF PlannerStates
    <2>9. LocalsInv'
      <3>1. /\ pl[c].todo \subseteq Clients \ {c}
            /\ \A e \in Clients : pl[c].seen[e] # NoMark => e \in (Clients \ {c}) \ pl[c].todo
        BY <1>1, <1>2 DEF LocalsInv
      <3>2. /\ r.todo \subseteq Clients \ {c}
            /\ \A e \in Clients : r.seen[e] # NoMark => e \in (Clients \ {c}) \ r.todo
        BY <1>3, <2>3, <2>8, <3>1
      <3>3. ASSUME NEW e \in Clients, pl'[e].pc \in {"mark", "column", "set", "send"}
            PROVE  /\ pl'[e].todo \subseteq Clients \ {e}
                   /\ pl'[e].pc = "column" => pl'[e].who \in pl'[e].todo
                   /\ pl'[e].pc \in {"set", "send"} => pl'[e].todo = {} /\ pl'[e].newPath # << >>
                   /\ \A f \in Clients :
                        pl'[e].seen[f] # NoMark => f \in (Clients \ {e}) \ pl'[e].todo
        BY <1>4, <2>2, <2>3, <3>2, <3>3
      <3>4. \A e \in Clients : pl'[e].pc = "sleep" => pl'[e] = PlannerIdle
        BY <1>1, <2>2, <2>3 DEF LocalsInv
      <3> QED
        BY <1>1, <2>1, <3>3, <3>4 DEF LocalsInv
    <2>10. MarksInv'
      <3> SUFFICES ASSUME NEW x \in Cells
                   PROVE  IF \E e \in Clients \ {c} : r.seen[e] = x
                          THEN map'[x] \in {e \in Clients \ {c} : r.seen[e] = x}
                          ELSE map'[x] \in {Empty, Wall}
        BY <1>4, <2>2 DEF MarksInv
      <3>1. CASE x = q
        BY <1>1, <1>3, <1>7, <2>1, <2>8, <3>1 DEF TypeOK
      <3>2. CASE x # q
        <4>1. x # NoMark
          BY PositionsArePairs
        <4>2. \A e \in Clients : r.seen[e] = x <=> pl[c].seen[e] = x
          BY <1>3, <2>8, <3>2, <4>1
        <4>3. map'[x] = map[x]
          BY <1>1, <2>1, <3>2 DEF TypeOK
        <4> QED
          BY <1>1, <1>2, <4>2, <4>3 DEF MarksInv
      <3> QED
        BY <3>1, <3>2
    <2>11. PathAvoidsRobots' /\ TrailInv'
      BY <1>1, <1>5, <2>1, <2>2, <2>3 DEF PathAvoidsRobots, TrailInv
    <2> QED
      BY <2>6, <2>7, <2>9, <2>10, <2>11 DEF ServerInv
  <1> QED
    BY <1>6, <1>7

LEMMA PlanPathInv ==
  ASSUME ServerInv, NEW c \in Clients, PlanPath(c)
  PROVE  ServerInv'
PROOF
  <1> USE DEF Planner, agents
  <1>1. TypeOK /\ LockInv /\ LocalsInv /\ MarksInv /\ PathAvoidsRobots /\ TrailInv
    BY DEF ServerInv
  <1>2. /\ pl \in [Clients -> PlannerStates] /\ pl[c] \in PlannerStates
        /\ pl[c].pc = "mark" /\ pl[c].todo = {}
    BY <1>1, PlannersType DEF PlanPath
  <1>3. PICK p \in PlansTo(pos[c], goal[c], map) :
          /\ pl' = [pl EXCEPT ![c].pc = "set", ![c].newPath = p]
          /\ goal' = [goal EXCEPT ![c] = LastOf(p)]
    BY DEF PlanPath
  <1>4. pos[c] \in Positions
    BY <1>1 DEF TypeOK
  <1>5. p \in PathsOK /\ p # << >> /\ LastOf(p) \in Positions
    BY <1>4, PlansType
  <1>6. /\ pl'[c] = [pl[c] EXCEPT !.pc = "set", !.newPath = p]
        /\ \A e \in Clients \ {c} : pl'[e] = pl[e]
        /\ pl' = [pl EXCEPT ![c] = [pl[c] EXCEPT !.pc = "set", !.newPath = p]]
    BY <1>2, <1>3
  <1>7. /\ pl'[c].pc = "set" /\ pl'[c].newPath = p
        /\ pl'[c].seen = pl[c].seen /\ pl'[c].todo = {}
    BY <1>2, <1>6 DEF PlannerStates
  <1>8. UNCHANGED <<map, pos, path, which, done, lock, disp, tcp, backlog, gone>>
    BY DEF PlanPath
  <1>9. TypeOK'
    <2>1. [pl[c] EXCEPT !.pc = "set", !.newPath = p] \in PlannerStates
      BY <1>2, <1>5 DEF PlannerStates
    <2>2. pl' \in [Clients -> PlannerStates]
      BY <1>2, <1>6, <2>1
    <2>3. goal' \in [Clients -> Positions \cup Goals]
      BY <1>1, <1>3, <1>5 DEF TypeOK
    <2> QED
      BY <1>1, <1>8, <2>2, <2>3 DEF TypeOK, PlannerStates
  <1>10. LockInv' /\ LocalsInv'
    BY <1>1, <1>2, <1>5, <1>6, <1>7, <1>8 DEF LockInv, LocalsInv
  <1>11. MarksInv' /\ TrailInv'
    BY <1>1, <1>2, <1>6, <1>7, <1>8 DEF MarksInv, TrailInv
  <1>12. PathAvoidsRobots'
    <2>1. ASSUME NEW i \in 2..Len(p), NEW d \in Clients \ {c}
          PROVE  p[i] # pl[c].seen[d]
      <3>1. p[i] \in Cells /\ map[p[i]] = Empty
        BY <1>4, PlansAreFree
      <3> QED
        BY <1>1, <1>2, <3>1, ServerAssumption DEF MarksInv
    <2> QED
      BY <1>1, <1>6, <1>7, <2>1 DEF PathAvoidsRobots
  <1> QED
    BY <1>9, <1>10, <1>11, <1>12 DEF ServerInv

LEMMA SetPathInv ==
  ASSUME ServerInv, NEW c \in Clients, SetPath(c)
  PROVE  ServerInv'
PROOF
  <1> USE DEF Planner, agents
  <1>1. TypeOK /\ LockInv /\ LocalsInv /\ MarksInv /\ PathAvoidsRobots /\ TrailInv
    BY DEF ServerInv
  <1>2. pl \in [Clients -> PlannerStates] /\ pl[c] \in PlannerStates /\ pl[c].pc = "set"
    BY <1>1, PlannersType DEF SetPath
  <1>3. /\ pl'[c] = [pl[c] EXCEPT !.pc = "send"]
        /\ \A e \in Clients \ {c} : pl'[e] = pl[e]
        /\ pl' = [pl EXCEPT ![c] = [pl[c] EXCEPT !.pc = "send"]]
    BY <1>2 DEF SetPath
  <1>4. /\ pl'[c].pc = "send" /\ pl'[c].newPath = pl[c].newPath
        /\ pl'[c].seen = pl[c].seen /\ pl'[c].todo = pl[c].todo
    BY <1>2, <1>3 DEF PlannerStates
  <1>5. /\ UNCHANGED <<map, pos, goal, which, done, lock, disp, tcp, backlog, gone>>
        /\ path' = [path EXCEPT ![c] = pl[c].newPath]
    BY DEF SetPath
  <1>6. TypeOK'
    <2>1. [pl[c] EXCEPT !.pc = "send"] \in PlannerStates /\ pl[c].newPath \in PathsOK
      BY <1>2 DEF PlannerStates
    <2>2. pl' \in [Clients -> PlannerStates]
      BY <1>2, <1>3, <2>1
    <2>3. path' \in [Clients -> PathsOK]
      BY <1>1, <1>5, <2>1 DEF TypeOK
    <2> QED
      BY <1>1, <1>5, <2>2, <2>3 DEF TypeOK, PlannerStates
  <1>7. LockInv' /\ LocalsInv'
    BY <1>1, <1>2, <1>3, <1>4, <1>5 DEF LockInv, LocalsInv
  <1>8. MarksInv' /\ PathAvoidsRobots'
    BY <1>1, <1>2, <1>3, <1>4, <1>5 DEF MarksInv, PathAvoidsRobots
  <1>9. TrailInv'
    BY <1>1, <1>2, <1>5, ServerAssumption DEF LockInv, TrailInv
  <1> QED
    BY <1>6, <1>7, <1>8, <1>9 DEF ServerInv

LEMMA PlannerIdleState ==
  PlannerIdle \in PlannerStates /\ PlannerIdle.pc = "sleep"
PROOF
  <1>1. << >> \in PathsOK /\ NoMark \in Positions /\ -1 \in -1..(Rows - 1)
    BY GridAssumption DEF PathsOK, Positions, NoMark, NoPosition
  <1> QED
    BY <1>1 DEF PlannerIdle, PlannerStates

LEMMA SendPathInv ==
  ASSUME ServerInv, NEW c \in Clients, SendPath(c)
  PROVE  ServerInv'
PROOF
  <1> DEFINE r == [PlannerIdle EXCEPT !.pc = IF done THEN "exited" ELSE "sleep"]
  <1> USE DEF Planner, agents
  <1>1. TypeOK /\ LockInv /\ LocalsInv /\ MarksInv /\ PathAvoidsRobots /\ TrailInv
    BY DEF ServerInv
  <1>2. pl \in [Clients -> PlannerStates] /\ pl[c].pc = "send" /\ tcp.pc # "crashed"
    BY <1>1, PlannersType DEF SendPath, Running
  <1>3. /\ pl' = [pl EXCEPT ![c] = r] /\ lock' = Nobody
        /\ UNCHANGED <<map, pos, goal, path, which, done, disp, tcp, gone>>
    BY DEF SendPath
  <1>4. pl'[c] = r /\ \A e \in Clients \ {c} : pl'[e] = pl[e]
    BY <1>2, <1>3
  <1>5. r.pc \notin {"mark", "column", "set", "send"} /\ (r.pc = "sleep" => r = PlannerIdle)
    <2>1. CASE done
      BY <2>1 DEF PlannerIdle
    <2>2. CASE ~done
      <3>1. r = [PlannerIdle EXCEPT !.pc = "sleep"]
        BY <2>2
      <3>2. r = PlannerIdle
        BY <3>1, PlannerIdleState DEF PlannerStates
      <3> QED
        BY <3>2, PlannerIdleState
    <2> QED
      BY <2>1, <2>2
  <1>6. lock = c /\ \A e \in Clients \ {c} : pl[e].pc \notin {"mark", "column", "set", "send"}
    BY <1>1, <1>2 DEF LockInv
  <1>7. r \in PlannerStates
    BY PlannerIdleState DEF PlannerStates
  <1> HIDE DEF r
  <1>8. TypeOK'
    <2>1. backlog' \in [Clients -> 0..Capacity]
      <3>1. backlog \in [Clients -> 0..Capacity] /\ Capacity \in Nat
        BY <1>1, ServerAssumption DEF TypeOK
      <3>2. \/ backlog' = backlog
            \/ backlog[c] < Capacity /\ backlog' = [backlog EXCEPT ![c] = backlog[c] + 1]
        BY DEF SendPath
      <3> QED
        BY <3>1, <3>2
    <2>2. pl' \in [Clients -> PlannerStates]
      BY <1>2, <1>3, <1>7
    <2> QED
      BY <1>1, <1>3, <2>1, <2>2 DEF TypeOK, PlannerStates
  <1>9. LockInv'
    BY <1>1, <1>2, <1>3, <1>4, <1>5, <1>6, ServerAssumption DEF LockInv
  <1>10. LocalsInv' /\ MarksInv'
    BY <1>1, <1>3, <1>4, <1>5, <1>6 DEF LocalsInv, MarksInv
  <1>11. PathAvoidsRobots' /\ TrailInv'
    BY <1>1, <1>3, <1>4, <1>5, <1>6 DEF PathAvoidsRobots, TrailInv
  <1> QED
    BY <1>8, <1>9, <1>10, <1>11 DEF ServerInv

\* The process ends: no thread is left, and the rest is as it was.
LEMMA EndsInv ==
  ASSUME ServerInv, NEW how \in {"exited", "sigpipe", "thrown"}, Ends(how)
  PROVE  ServerInv'
PROOF
  <1> DEFINE p == [PlannerIdle EXCEPT !.pc = "exited"]
             d == [DisplayIdle EXCEPT !.pc = "exited"]
  <1>1. TypeOK
    BY DEF ServerInv
  <1>2. p \in PlannerStates /\ p.pc = "exited"
    BY PlannerIdleState DEF PlannerStates
  <1>3. d \in DisplayStates /\ d.pc = "exited"
    <2>1. << >> \in PathsOK /\ -1 \in -1..(Rows - 1)
      BY GridAssumption DEF PathsOK
    <2> QED
      BY <2>1 DEF DisplayIdle, DisplayStates
  <1>4. /\ tcp' = [pc |-> how, from |-> Nobody] /\ lock' = Nobody
        /\ pl' = [c \in Clients |-> p] /\ disp' = d
        /\ UNCHANGED <<map, pos, goal, path, which, done, backlog, gone>>
    BY DEF Ends, agents
  <1> HIDE DEF p, d
  <1>5. pl' \in [Clients -> PlannerStates] /\ \A c \in Clients : pl'[c].pc = "exited"
    BY <1>2, <1>4
  <1>6. TypeOK'
    BY <1>1, <1>3, <1>4, <1>5 DEF TypeOK, PlannerStates, DisplayStates
  <1>7. LockInv' /\ LocalsInv'
    BY <1>3, <1>4, <1>5, ServerAssumption DEF LockInv, LocalsInv
  <1>8. MarksInv' /\ PathAvoidsRobots' /\ TrailInv'
    BY <1>3, <1>4, <1>5 DEF MarksInv, PathAvoidsRobots, TrailInv
  <1> QED
    BY <1>6, <1>7, <1>8 DEF ServerInv

LEMMA PlannerThreadInv ==
  ASSUME ServerInv, NEW c \in Clients, PlannerThread(c)
  PROVE  ServerInv'
PROOF
  BY LockAndClearInv, MarkRowInv, MarkColumnInv, PlanPathInv, SetPathInv, SendPathInv,
     EndsInv DEF PlannerThread, PathSigpipe

-----------------------------------------------------------------------------
(* A step of the display.  The planners' part of the invariant depends on    *)
(* their own state, the mutex and the map.                                  *)

LEMMA MarkPathInv ==
  ASSUME ServerInv, MarkPath
  PROVE  ServerInv'
PROOF
  <1> DEFINE p == path[disp.show]
  <1> USE DEF agents
  <1>1. TypeOK /\ LockInv /\ LocalsInv /\ MarksInv /\ PathAvoidsRobots /\ TrailInv
    BY DEF ServerInv
  <1>2. /\ disp \in DisplayStates /\ disp.pc = "wait" /\ disp.show \in Clients /\ Running
        /\ lock = Nobody /\ lock' = Display
        /\ UNCHANGED <<pos, goal, path, which, done, pl, backlog, gone>>
    BY <1>1, PlannersType DEF MarkPath, Displays, LocalsInv
  <1>3. \A e \in Clients : pl[e].pc \notin {"mark", "column", "set", "send"}
    BY <1>1, <1>2, ServerAssumption DEF LockInv
  <1>4. CASE p # << >> /\ p[1] \in Cells
    <2>1. /\ map' = PathMarked(map, p, disp.show)
          /\ disp' = [disp EXCEPT !.pc = "rest", !.todo = Clients]
          /\ tcp' = tcp
      BY <1>4 DEF MarkPath
    <2>2. disp' \in DisplayStates /\ disp'.pc = "rest" /\ disp'.show = disp.show
      BY <1>2, <2>1 DEF DisplayStates
    <2>3. p \in Seq(Cells)
      BY <1>1, <1>2, <1>4, ServerAssumption, PositionsArePairs DEF TypeOK, PathsOK
    <2>4. /\ map' \in [Cells -> Contents]
          /\ \A q \in Cells : map'[q] = Trail => \E i \in 1..Len(p) : p[i] = q
          /\ \A i \in 1..Len(p) : map'[p[i]] \in {Trail} \cup Clients
      <3>1. map \in [Cells -> Contents]
        BY <1>1 DEF TypeOK
      <3>2. disp.show \in Clients /\ p # << >>
        BY <1>2, <1>4
      <3> HIDE DEF p
      <3> QED
        BY <3>1, <3>2, <2>1, <2>3, PathMarkedTrail
    <2>5. TypeOK'
      BY <1>1, <1>2, <2>1, <2>2, <2>4 DEF TypeOK, DisplayStates
    <2>6. LockInv' /\ LocalsInv' /\ MarksInv'
      BY <1>1, <1>2, <1>3, <2>1, <2>2, ServerAssumption DEF LockInv, LocalsInv, MarksInv
    <2>7. PathAvoidsRobots' /\ TrailInv'
      BY <1>1, <1>2, <1>3, <2>1, <2>2, <2>4 DEF PathAvoidsRobots, TrailInv
    <2> QED
      BY <2>5, <2>6, <2>7 DEF ServerInv
  <1>5. CASE ~(p # << >> /\ p[1] \in Cells)
    <2>1. tcp' = [tcp EXCEPT !.pc = "crashed"] /\ UNCHANGED <<map, disp>>
      BY <1>5 DEF MarkPath, Crash
    <2>2. tcp' = [pc |-> "crashed", from |-> tcp.from]
      BY <1>1, <2>1 DEF TypeOK
    <2>3. TypeOK'
      BY <1>1, <1>2, <2>1, <2>2 DEF TypeOK
    <2>4. LockInv' /\ LocalsInv' /\ MarksInv'
      BY <1>1, <1>2, <1>3, <2>1, <2>2, ServerAssumption DEF LockInv, LocalsInv, MarksInv
    <2>5. PathAvoidsRobots' /\ TrailInv'
      BY <1>1, <1>2, <1>3, <2>1 DEF PathAvoidsRobots, TrailInv
    <2> QED
      BY <2>3, <2>4, <2>5 DEF ServerInv
  <1> QED
    BY <1>4, <1>5

\* Choose, FirstPlan, FirstSetPath and RestRow leave the map and the mutex alone.
LEMMA DisplayAloneInv ==
  ASSUME ServerInv, Choose \/ FirstPlan \/ FirstSetPath \/ RestRow
  PROVE  ServerInv'
PROOF
  <1> USE DEF Displays, agents
  <1>1. TypeOK /\ LockInv /\ LocalsInv /\ MarksInv /\ PathAvoidsRobots /\ TrailInv
    BY DEF ServerInv
  <1>2. disp \in DisplayStates /\ UNCHANGED <<map, pos, which, done, lock, pl, tcp, backlog, gone>>
    BY <1>1, PlannersType DEF Choose, FirstPlan, FirstSetPath, RestRow
  <1>3. MarksInv' /\ PathAvoidsRobots'
    BY <1>1, <1>2 DEF MarksInv, PathAvoidsRobots
  <1>4. CASE Choose
    <2>1. UNCHANGED <<goal, path>> /\ disp.pc = "top"
      BY <1>4 DEF Choose
    <2>2. /\ disp' \in DisplayStates /\ disp'.pc \notin {"rest", "restcolumn", "firstset"}
          /\ disp'.pc \in {"first", "wait"} => disp'.show \in Clients
      BY <1>1, <1>2, <1>4 DEF Choose, DisplayStates, TypeOK
    <2>3. TypeOK' /\ LockInv' /\ LocalsInv' /\ TrailInv'
      BY <1>1, <1>2, <2>1, <2>2 DEF TypeOK, DisplayStates, LockInv, LocalsInv, TrailInv
    <2> QED
      BY <1>3, <2>3 DEF ServerInv
  <1>5. CASE FirstPlan
    <2>1. disp.show \in Clients /\ disp.pc = "first" /\ path' = path
      BY <1>1, <1>5 DEF FirstPlan, LocalsInv
    <2>2. PICK p \in PlansTo(pos[disp.show], goal[disp.show], map) :
            /\ disp' = [disp EXCEPT !.pc = "firstset", !.newPath = p]
            /\ goal' = [goal EXCEPT ![disp.show] = LastOf(p)]
      BY <1>5 DEF FirstPlan
    <2>3. pos[disp.show] \in Positions
      BY <1>1, <2>1 DEF TypeOK
    <2>4. p \in PathsOK /\ p # << >> /\ LastOf(p) \in Positions
      BY <2>3, PlansType
    <2>5. /\ disp' \in DisplayStates /\ disp'.pc = "firstset"
          /\ disp'.show = disp.show /\ disp'.newPath = p
      BY <1>2, <2>2, <2>4 DEF DisplayStates
    <2>6. goal' \in [Clients -> Positions \cup Goals]
      BY <1>1, <2>2, <2>4 DEF TypeOK
    <2>7. TypeOK' /\ LockInv' /\ LocalsInv' /\ TrailInv'
      BY <1>1, <1>2, <2>1, <2>4, <2>5, <2>6
         DEF TypeOK, DisplayStates, LockInv, LocalsInv, TrailInv
    <2> QED
      BY <1>3, <2>7 DEF ServerInv
  <1>6. CASE FirstSetPath
    <2>1. /\ disp.pc = "firstset" /\ goal' = goal
          /\ path' = [path EXCEPT ![disp.show] = disp.newPath]
          /\ disp' = [disp EXCEPT !.pc = "wait", !.start = FALSE, !.newPath = << >>]
      BY <1>6 DEF FirstSetPath
    <2>2. disp.show \in Clients
      BY <1>1, <2>1 DEF LocalsInv
    <2>3. disp' \in DisplayStates /\ disp'.pc = "wait" /\ disp'.show = disp.show
      BY <1>2, <2>1 DEF DisplayStates, PathsOK
    <2>4. path' \in [Clients -> PathsOK]
      BY <1>1, <1>2, <2>1 DEF TypeOK, DisplayStates
    <2>5. TypeOK' /\ LockInv' /\ LocalsInv' /\ TrailInv'
      BY <1>1, <1>2, <2>1, <2>2, <2>3, <2>4
         DEF TypeOK, DisplayStates, LockInv, LocalsInv, TrailInv
    <2> QED
      BY <1>3, <2>5 DEF ServerInv
  <1>7. CASE RestRow
    <2>1. PICK d \in disp.todo :
            disp' = IF d = which THEN [disp EXCEPT !.todo = @ \ {d}]
                    ELSE [disp EXCEPT !.pc = "restcolumn", !.who = d, !.row = pos[d][1]]
      BY <1>7 DEF RestRow
    <2>2. UNCHANGED <<goal, path>> /\ disp.pc = "rest"
      BY <1>7 DEF RestRow
    <2>3. d \in Clients /\ pos[d][1] \in -1..(Rows - 1)
      BY <1>1, <1>2, PositionsArePairs DEF TypeOK, DisplayStates
    <2>4. /\ disp' \in DisplayStates /\ disp'.show = disp.show
          /\ disp'.pc \in {"rest", "restcolumn"}
          /\ disp'.pc = "restcolumn" => disp'.who \in disp'.todo
      BY <1>2, <2>1, <2>2, <2>3 DEF DisplayStates
    <2>5. TypeOK'
      BY <1>1, <1>2, <2>2, <2>4 DEF TypeOK, DisplayStates
    <2>6. LockInv'
      BY <1>1, <1>2, <2>2, <2>4 DEF LockInv
    <2>7. LocalsInv' /\ TrailInv'
      BY <1>1, <1>2, <2>2, <2>4 DEF LocalsInv, TrailInv
    <2> QED
      BY <1>3, <2>5, <2>6, <2>7 DEF ServerInv
  <1> QED
    BY <1>4, <1>5, <1>6, <1>7

LEMMA RestColumnInv ==
  ASSUME ServerInv, RestColumn
  PROVE  ServerInv'
PROOF
  <1> DEFINE q == << disp.row, pos[disp.who][2] >>
  <1> USE DEF Displays, agents
  <1>1. TypeOK /\ LockInv /\ LocalsInv /\ MarksInv /\ PathAvoidsRobots /\ TrailInv
    BY DEF ServerInv
  <1>2. /\ disp \in DisplayStates /\ disp.pc = "restcolumn" /\ lock = Display
        /\ UNCHANGED <<pos, goal, path, which, done, lock, pl, backlog, gone>>
    BY <1>1, PlannersType DEF RestColumn, LockInv
  <1>3. disp.who \in disp.todo /\ disp.who \in Clients
    BY <1>1, <1>2 DEF LocalsInv, DisplayStates
  <1>4. \A e \in Clients : pl[e].pc \notin {"mark", "column", "set", "send"}
    BY <1>1, <1>2, ServerAssumption DEF LockInv
  <1>5. MarksInv' /\ PathAvoidsRobots'
    BY <1>1, <1>2, <1>4 DEF MarksInv, PathAvoidsRobots
  <1>6. CASE q \in Cells
    <2>1. /\ map' = [map EXCEPT ![q] = disp.who] /\ tcp' = tcp
          /\ disp' = [disp EXCEPT !.pc = "rest", !.todo = @ \ {disp.who},
                                  !.who = Nobody, !.row = -1]
      BY <1>6 DEF RestColumn, Marked
    <2>2. disp' \in DisplayStates /\ disp'.pc = "rest" /\ disp'.show = disp.show
      <3>1. -1 \in -1..(Rows - 1)
        BY GridAssumption
      <3> QED
        BY <1>2, <2>1, <3>1 DEF DisplayStates
    <2>3. map' \in [Cells -> Contents]
      BY <1>1, <1>3, <1>6, <2>1 DEF TypeOK, Contents
    <2>4. TypeOK' /\ LockInv' /\ LocalsInv'
      BY <1>1, <1>2, <1>4, <2>1, <2>2, <2>3 DEF TypeOK, DisplayStates, LockInv, LocalsInv
    <2>5. TrailInv'
      <3>1. \A x \in Cells : map'[x] = IF x = q THEN disp.who ELSE map[x]
        BY <1>1, <2>1 DEF TypeOK
      <3>2. disp.who # Trail
        BY <1>3, ServerAssumption
      <3>3. \A i \in 1..Len(path[disp.show]) :
              path[disp.show][i] \in Cells => map'[path[disp.show][i]] \in {Trail} \cup Clients
        BY <1>1, <1>2, <1>3, <3>1 DEF TrailInv
      <3>4. \A i \in 1..Len(path[disp.show]) :
              path[disp.show][i] \notin Cells =>
                map'[path[disp.show][i]] = map[path[disp.show][i]]
        BY <1>1, <1>6, <2>1 DEF TypeOK
      <3> HIDE DEF q
      <3> QED
        BY <1>1, <1>2, <2>2, <3>1, <3>2, <3>3, <3>4 DEF TrailInv
    <2> QED
      BY <1>5, <2>4, <2>5 DEF ServerInv
  <1>7. CASE q \notin Cells
    <2>1. tcp' = [tcp EXCEPT !.pc = "crashed"] /\ UNCHANGED <<map, disp>>
      BY <1>7 DEF RestColumn, Crash
    <2>2. tcp' = [pc |-> "crashed", from |-> tcp.from]
      BY <1>1, <2>1 DEF TypeOK
    <2>3. TypeOK'
      BY <1>1, <1>2, <2>1, <2>2 DEF TypeOK
    <2>4. LockInv' /\ LocalsInv' /\ TrailInv'
      BY <1>1, <1>2, <2>1, <2>2 DEF LockInv, LocalsInv, TrailInv
    <2> QED
      BY <1>5, <2>3, <2>4 DEF ServerInv
  <1> QED
    BY <1>6, <1>7

LEMMA PrintGridInv ==
  ASSUME ServerInv, PrintGrid
  PROVE  ServerInv'
PROOF
  <1> USE DEF Displays, agents
  <1>1. TypeOK /\ LockInv /\ LocalsInv /\ MarksInv /\ PathAvoidsRobots /\ TrailInv
    BY DEF ServerInv
  <1>2. /\ disp.pc = "rest" /\ Running /\ lock = Display /\ lock' = Nobody
        /\ disp' = DisplayIdle
        /\ UNCHANGED <<map, pos, goal, path, which, done, pl, tcp, backlog, gone>>
    BY <1>1 DEF PrintGrid, LockInv
  <1>3. \A e \in Clients : pl[e].pc \notin {"mark", "column", "set", "send"}
    BY <1>1, <1>2, ServerAssumption DEF LockInv
  <1>4. disp' \in DisplayStates /\ disp'.pc = "top"
    BY <1>2, GridAssumption DEF DisplayIdle, DisplayStates, PathsOK
  <1>5. TypeOK' /\ LockInv' /\ LocalsInv' /\ TrailInv'
    <2>1. TypeOK'
      BY <1>1, <1>2, <1>4 DEF TypeOK, DisplayStates
    <2>2. LockInv'
      BY <1>2, <1>3, <1>4, ServerAssumption DEF LockInv, Running
    <2>3. LocalsInv' /\ TrailInv'
      BY <1>1, <1>2, <1>4 DEF LocalsInv, TrailInv
    <2> QED
      BY <2>1, <2>2, <2>3
  <1>6. MarksInv' /\ PathAvoidsRobots'
    BY <1>1, <1>2 DEF MarksInv, PathAvoidsRobots
  <1> QED
    BY <1>5, <1>6 DEF ServerInv

-----------------------------------------------------------------------------
(* A step of the main thread.                                               *)

LEMMA MainWorksInv ==
  ASSUME ServerInv,
         SetGoal \/ Quit \/ \E c \in Clients : SetPosition(c) \/ ChangeView(c)
  PROVE  ServerInv'
PROOF
  <1> USE DEF Selecting, agents
  <1>1. TypeOK /\ LockInv /\ LocalsInv /\ MarksInv /\ PathAvoidsRobots /\ TrailInv
    BY DEF ServerInv
  <1>2. UNCHANGED <<map, path, lock, pl, disp, backlog, gone>> /\ tcp.pc # "crashed"
    BY DEF SetPosition, SetGoal, ChangeView, Quit
  <1>3. MarksInv' /\ PathAvoidsRobots' /\ TrailInv'
    BY <1>1, <1>2 DEF MarksInv, PathAvoidsRobots, TrailInv
  <1>4. ASSUME NEW c \in Clients, SetPosition(c)
        PROVE  TypeOK' /\ LockInv' /\ LocalsInv'
    <2>1. PICK p \in Reports(pos[c]) : pos' = [pos EXCEPT ![c] = p]
      BY <1>4 DEF SetPosition
    <2>2. p \in Cells
      <3>1. pos[c] = NoPosition \/ pos[c] \in Cells
        BY <1>1 DEF TypeOK, Positions
      <3>2. \A b \in Cells : Block(b) \subseteq Cells
        BY GridAssumption DEF Block, Cells, FirstOf
      <3> QED
        BY <2>1, <3>1, <3>2 DEF Reports
    <2>3. pos' \in [Clients -> Positions]
      BY <1>1, <2>1, <2>2 DEF TypeOK, Positions
    <2>4. tcp' = [pc |-> "goal", from |-> c] /\ UNCHANGED <<goal, which, done>>
      BY <1>4 DEF SetPosition
    <2> QED
      BY <1>1, <1>2, <2>3, <2>4 DEF TypeOK, LockInv, LocalsInv
  <1>5. ASSUME SetGoal
        PROVE  TypeOK' /\ LockInv' /\ LocalsInv'
    <2>1. PICK g \in Goals : goal' = [goal EXCEPT ![tcp.from] = g]
      BY <1>5 DEF SetGoal
    <2>2. goal' \in [Clients -> Positions \cup Goals]
      BY <1>1, <2>1 DEF TypeOK
    <2>3. tcp' = [pc |-> "select", from |-> Nobody] /\ UNCHANGED <<pos, which, done>>
      BY <1>5 DEF SetGoal
    <2> QED
      BY <1>1, <1>2, <2>2, <2>3 DEF TypeOK, LockInv, LocalsInv
  <1>6. ASSUME NEW c \in Clients, ChangeView(c)
        PROVE  TypeOK' /\ LockInv' /\ LocalsInv'
    <2>1. which' = c /\ UNCHANGED <<pos, goal, done, tcp>>
      BY <1>6 DEF ChangeView
    <2>2. TypeOK'
      BY <1>1, <1>2, <2>1 DEF TypeOK
    <2>3. LockInv' /\ LocalsInv'
      BY <1>1, <1>2, <2>1 DEF LockInv, LocalsInv
    <2> QED
      BY <2>2, <2>3
  <1>7. ASSUME Quit
        PROVE  TypeOK' /\ LockInv' /\ LocalsInv'
    BY <1>1, <1>2, <1>7 DEF Quit, TypeOK, LockInv, LocalsInv
  <1> QED
    BY <1>3, <1>4, <1>5, <1>6, <1>7 DEF ServerInv

LEMMA MainThreadInv ==
  ASSUME ServerInv, MainThread
  PROVE  ServerInv'
PROOF
  <1>1. CASE CommandSigpipe \/ MessageThrows \/ Exit
    BY <1>1, EndsInv DEF CommandSigpipe, MessageThrows, Exit
  <1>2. CASE ~(CommandSigpipe \/ MessageThrows \/ Exit)
    BY <1>2, MainWorksInv DEF MainThread
  <1> QED
    BY <1>1, <1>2

LEMMA LeaveInv ==
  ASSUME ServerInv, NEW c \in Clients, Leave(c)
  PROVE  ServerInv'
PROOF
  <1>1. /\ UNCHANGED <<map, pos, goal, path, which, done, lock, pl, disp, tcp, backlog>>
        /\ gone' = gone \cup {c}
    BY DEF Leave, agents
  <1>2. TypeOK' /\ LockInv' /\ LocalsInv'
    BY <1>1 DEF ServerInv, TypeOK, LockInv, LocalsInv
  <1>3. MarksInv' /\ PathAvoidsRobots' /\ TrailInv'
    BY <1>1 DEF ServerInv, MarksInv, PathAvoidsRobots, TrailInv
  <1> QED
    BY <1>2, <1>3 DEF ServerInv

-----------------------------------------------------------------------------
LEMMA ServerNextInv ==
  ASSUME ServerInv, [Next]_vars
  PROVE  ServerInv'
PROOF
  <1>1. CASE UNCHANGED vars
    <2>1. TypeOK' /\ LockInv'
      BY <1>1 DEF vars, ServerInv, TypeOK, LockInv
    <2>2. LocalsInv' /\ MarksInv'
      BY <1>1 DEF vars, ServerInv, LocalsInv, MarksInv
    <2>3. PathAvoidsRobots' /\ TrailInv'
      BY <1>1 DEF vars, ServerInv, PathAvoidsRobots, TrailInv
    <2> QED
      BY <2>1, <2>2, <2>3 DEF ServerInv
  <1> QED
    BY <1>1, PlannerThreadInv, DisplayAloneInv, MarkPathInv, RestColumnInv, PrintGridInv,
       MainThreadInv, LeaveInv DEF Next, DisplayThread

LEMMA ServerAlways == Spec => []ServerInv
PROOF
  BY ServerInitInv, ServerNextInv, PTL DEF Spec

\* Every variable of the server stays in its range.
THEOREM TypeCorrect == Spec => []TypeOK
PROOF
  <1>1. ServerInv => TypeOK
    BY DEF ServerInv
  <1> QED
    BY <1>1, ServerAlways, PTL

\* A planner searches a grid with the marks of its own round and no others,
\* however the other planners, the display and the reports interleave.
THEOREM MarksAreTheRobots == Spec => []MarksAreExact
PROOF
  <1>1. ServerInv => MarksAreExact
    BY DEF ServerInv, MarksInv, MarksAreExact
  <1> QED
    BY <1>1, ServerAlways, PTL

\* A path sent to a client leads over no cell another robot was seen on.
THEOREM PathsAvoidRobots == Spec => []PathAvoidsRobots
PROOF
  <1>1. ServerInv => PathAvoidsRobots
    BY DEF ServerInv
  <1> QED
    BY <1>1, ServerAlways, PTL

\* The grid and the path the display prints belong together.
THEOREM PrintsAgree == Spec => []PrintAgrees
PROOF
  <1>1. ServerInv => PrintAgrees
    BY DEF ServerInv, TrailInv, PrintAgrees, Shown, Displays
  <1> QED
    BY <1>1, ServerAlways, PTL

-----------------------------------------------------------------------------
(* The server survives: no thread takes the positions apart again.           *)

LEMMA SettledPlanner ==
  ASSUME ServerInv, Settled, NEW c \in Clients, PlannerThread(c), ~PathSigpipe(c)
  PROVE  Settled'
PROOF
  <1> USE DEF Planner, agents
  <1>1. TypeOK /\ LocalsInv /\ pl \in [Clients -> PlannerStates] /\ pl[c] \in PlannerStates
    BY PlannersType DEF ServerInv
  <1>2. UNCHANGED <<pos, disp>>
    BY DEF PlannerThread, LockAndClear, MarkRow, MarkColumn, PlanPath, SetPath, SendPath
  <1>3. CASE LockAndClear(c) \/ SendPath(c)
    <2>1. pl'[c].pc \notin {"column", "set"} /\ UNCHANGED <<path, tcp>>
          /\ \A e \in Clients \ {c} : pl'[e] = pl[e]
      BY <1>1, <1>3, PlannerIdleState DEF LockAndClear, SendPath, PlannerStates
    <2> QED
      BY <1>2, <2>1 DEF Settled, Running
  <1>4. CASE MarkRow(c)
    <2>1. PICK d \in pl[c].todo :
            pl' = [pl EXCEPT ![c].pc = "column", ![c].who = d, ![c].row = pos[d][1]]
      BY <1>4 DEF MarkRow
    <2>2. pos[d] \in Cells
      BY <1>1 DEF Settled, PlannerStates
    <2>3. pl'[c].pc = "column" /\ pl'[c].row >= 0
          /\ \A e \in Clients \ {c} : pl'[e] = pl[e]
      BY <1>1, <2>1, <2>2, PositionsArePairs DEF PlannerStates
    <2>4. UNCHANGED <<path, tcp>>
      BY <1>4 DEF MarkRow
    <2> QED
      BY <1>2, <2>3, <2>4 DEF Settled, Running
  <1>5. CASE MarkColumn(c)
    <2>1. pl[c].pc = "column" /\ pl[c].who \in Clients /\ pl[c].row \in 0..(Rows - 1)
      BY <1>1, <1>5 DEF MarkColumn, LocalsInv, PlannerStates, Settled
    <2>2. pos[pl[c].who][2] \in 0..(Cols - 1)
      BY <2>1, PositionsArePairs DEF Settled
    <2>3. << pl[c].row, pos[pl[c].who][2] >> \in Cells
      BY <2>1, <2>2 DEF Cells
    <2>4. pl'[c].pc = "mark" /\ UNCHANGED <<path, tcp>>
          /\ \A e \in Clients \ {c} : pl'[e] = pl[e]
      BY <1>1, <1>5, <2>3 DEF MarkColumn, PlannerStates
    <2> QED
      BY <1>2, <2>4 DEF Settled, Running
  <1>6. CASE PlanPath(c)
    <2>1. PICK p \in PlansTo(pos[c], goal[c], map) :
            pl' = [pl EXCEPT ![c].pc = "set", ![c].newPath = p]
      BY <1>6 DEF PlanPath
    <2>2. pos[c] \in Cells /\ pos[c] \in Positions
      BY DEF Settled, Positions
    <2>3. p[1] = pos[c]
      BY <2>2, PlansType
    <2>4. pl'[c].pc = "set" /\ pl'[c].newPath[1] \in Cells
          /\ \A e \in Clients \ {c} : pl'[e] = pl[e]
      BY <1>1, <2>1, <2>2, <2>3 DEF PlannerStates
    <2>5. UNCHANGED <<path, tcp>>
      BY <1>6 DEF PlanPath
    <2> QED
      BY <1>2, <2>4, <2>5 DEF Settled, Running
  <1>7. CASE SetPath(c)
    <2>1. pl[c].newPath # << >> /\ pl[c].newPath[1] \in Cells
      BY <1>1, <1>7 DEF SetPath, LocalsInv, Settled
    <2>2. /\ path'[c] = pl[c].newPath /\ \A e \in Clients \ {c} : path'[e] = path[e]
          /\ pl'[c].pc = "send" /\ \A e \in Clients \ {c} : pl'[e] = pl[e]
          /\ tcp' = tcp
      BY <1>1, <1>7 DEF SetPath, PlannerStates, TypeOK
    <2> QED
      BY <1>2, <2>1, <2>2 DEF Settled, Running
  <1> QED
    BY <1>3, <1>4, <1>5, <1>6, <1>7 DEF PlannerThread

LEMMA SettledDisplay ==
  ASSUME ServerInv, Settled, DisplayThread
  PROVE  Settled'
PROOF
  <1> USE DEF Displays, agents
  <1>1. TypeOK /\ LocalsInv /\ disp \in DisplayStates
    BY PlannersType DEF ServerInv
  <1>2. UNCHANGED <<pos, pl>>
    BY DEF DisplayThread, Choose, FirstPlan, FirstSetPath, MarkPath, RestRow, RestColumn, PrintGrid
  <1>3. CASE Choose \/ PrintGrid
    <2>1. UNCHANGED <<path, tcp>>
      BY <1>3 DEF Choose, PrintGrid
    <2>2. disp'.pc \in {"exited", "first", "wait", "top"}
      <3>1. CASE Choose
        BY <1>1, <3>1 DEF Choose, DisplayStates, TypeOK
      <3>2. CASE PrintGrid
        BY <3>2 DEF PrintGrid, DisplayIdle
      <3> QED
        BY <1>3, <3>1, <3>2
    <2> QED
      BY <1>2, <2>1, <2>2 DEF Settled, Running
  <1>4. CASE FirstPlan
    <2>1. disp.show \in Clients /\ pos[disp.show] \in Cells /\ pos[disp.show] \in Positions
      BY <1>1, <1>4 DEF FirstPlan, LocalsInv, Settled, Positions
    <2>2. PICK p \in PlansTo(pos[disp.show], goal[disp.show], map) :
            disp' = [disp EXCEPT !.pc = "firstset", !.newPath = p]
      BY <1>4 DEF FirstPlan
    <2>3. p[1] \in Cells
      BY <2>1, PlansType
    <2>4. disp'.pc = "firstset" /\ disp'.newPath[1] \in Cells /\ UNCHANGED <<path, tcp>>
      BY <1>1, <1>4, <2>2, <2>3 DEF DisplayStates, FirstPlan
    <2> QED
      BY <1>2, <2>4 DEF Settled, Running
  <1>5. CASE FirstSetPath
    <2>1. /\ disp.show \in Clients /\ disp.newPath # << >> /\ disp.newPath[1] \in Cells
          /\ disp'.pc = "wait" /\ tcp' = tcp
          /\ path' = [path EXCEPT ![disp.show] = disp.newPath]
      BY <1>1, <1>5 DEF FirstSetPath, LocalsInv, Settled, DisplayStates
    <2> QED
      BY <1>1, <1>2, <2>1 DEF Settled, Running, TypeOK
  <1>6. CASE MarkPath
    <2>1. disp.show \in Clients
      BY <1>1, <1>6 DEF MarkPath, LocalsInv
    <2>2. disp'.pc = "rest" /\ UNCHANGED <<path, tcp>>
      BY <1>1, <1>6, <2>1 DEF MarkPath, Settled, DisplayStates
    <2> QED
      BY <1>2, <2>2 DEF Settled, Running
  <1>7. CASE RestRow
    <2>1. PICK d \in disp.todo :
            disp' = IF d = which THEN [disp EXCEPT !.todo = @ \ {d}]
                    ELSE [disp EXCEPT !.pc = "restcolumn", !.who = d, !.row = pos[d][1]]
      BY <1>7 DEF RestRow
    <2>2. pos[d] \in Cells
      BY <1>1 DEF DisplayStates, Settled
    <2>3. disp.pc = "rest" /\ UNCHANGED <<path, tcp>>
      BY <1>7 DEF RestRow
    <2>4. pos[d][1] >= 0
      BY <2>2, PositionsArePairs
    <2>5. \/ disp'.pc = "rest"
          \/ disp'.pc = "restcolumn" /\ disp'.row >= 0
      <3>1. CASE d = which
        BY <1>1, <2>1, <2>3, <3>1 DEF DisplayStates
      <3>2. CASE d # which
        BY <1>1, <2>1, <2>4, <3>2 DEF DisplayStates
      <3> QED
        BY <3>1, <3>2
    <2> QED
      BY <1>2, <2>3, <2>5 DEF Settled, Running
  <1>8. CASE RestColumn
    <2>1. disp.who \in Clients /\ disp.row \in 0..(Rows - 1)
      BY <1>1, <1>8 DEF RestColumn, LocalsInv, DisplayStates, Settled
    <2>2. pos[disp.who][2] \in 0..(Cols - 1)
      BY <2>1, PositionsArePairs DEF Settled
    <2>3. << disp.row, pos[disp.who][2] >> \in Cells
      BY <2>1, <2>2 DEF Cells
    <2>4. disp'.pc = "rest" /\ UNCHANGED <<path, tcp>>
      BY <1>1, <1>8, <2>3 DEF RestColumn, DisplayStates
    <2> QED
      BY <1>2, <2>4 DEF Settled, Running
  <1> QED
    BY <1>3, <1>4, <1>5, <1>6, <1>7, <1>8 DEF DisplayThread

LEMMA SettledMain ==
  ASSUME ServerInv, Settled, MainThread
  PROVE  \/ Settled'
         \/ tcp'.pc \in {"exited", "thrown"}
         \/ tcp'.pc = "sigpipe" /\ gone # {}
PROOF
  <1> USE DEF Selecting, agents
  <1>1. TypeOK
    BY DEF ServerInv
  <1>3. ASSUME NEW c \in Clients, SetPosition(c)
        PROVE  Settled'
    <2>1. PICK p \in Reports(pos[c]) : pos' = [pos EXCEPT ![c] = p]
      BY <1>3 DEF SetPosition
    <2>2. p \in Cells
      <3>1. pos[c] \in Cells
        BY DEF Settled
      <3>2. Block(pos[c]) \subseteq Cells
        BY <3>1, GridAssumption DEF Block, Cells, FirstOf
      <3> QED
        BY <2>1, <3>1, <3>2 DEF Reports
    <2>3. tcp'.pc = "goal" /\ \A e \in Clients : pos'[e] \in Cells
      BY <1>1, <1>3, <2>1, <2>2 DEF SetPosition, Settled, TypeOK
    <2>4. UNCHANGED <<path, pl, disp>>
      BY <1>3 DEF SetPosition
    <2> QED
      BY <2>3, <2>4 DEF Settled, Running
  <1>4. CASE CommandSigpipe \/ MessageThrows \/ Exit
    BY <1>4 DEF CommandSigpipe, MessageThrows, Exit, Ends
  <1>5. CASE SetGoal \/ Quit \/ \E c \in Clients : ChangeView(c)
    <2>1. tcp'.pc = "select" /\ UNCHANGED <<pos, path, pl, disp>>
      BY <1>5 DEF SetGoal, Quit, ChangeView
    <2> QED
      BY <2>1 DEF Settled, Running
  <1> QED
    BY <1>3, <1>4, <1>5 DEF MainThread

\* Once every robot has reported and every path starts on the grid, no mark goes
\* astray and no path that is shown is empty: the server ends only by main's
\* return, by a write to a client that has left, or by a message that throws.
THEOREM SettledIsForEver == Spec => SettledForEver
PROOF
  <1>1. ServerInv /\ [Next]_vars =>
          [Settled => \/ Settled'
                      \/ tcp'.pc \in {"exited", "thrown"}
                      \/ tcp'.pc = "sigpipe" /\ gone # {}]_vars
    <2> SUFFICES ASSUME ServerInv, Next, Settled
                 PROVE  \/ Settled'
                        \/ tcp'.pc \in {"exited", "thrown"}
                        \/ tcp'.pc = "sigpipe" /\ gone # {}
      OBVIOUS
    <2>1. ASSUME NEW c \in Clients, PathSigpipe(c)
          PROVE  tcp'.pc = "sigpipe" /\ gone # {}
      BY <2>1 DEF PathSigpipe, Ends
    <2>2. ASSUME NEW c \in Clients, Leave(c)
          PROVE  Settled'
      BY <2>2 DEF Leave, agents, Settled, Running
    <2> QED
      BY <2>1, <2>2, SettledPlanner, SettledDisplay, SettledMain DEF Next
  <1> QED
    BY <1>1, ServerAlways, PTL DEF Spec, SettledForEver
=============================================================================
