------------------------------- MODULE Server -------------------------------
(***************************************************************************)
(* Server mode (servercontrol.cpp, tcpserver.cpp): a planner thread for    *)
(* each client, the display thread, and the main thread, which runs        *)
(* TcpServer::communicate.  All agents share one Grid.                     *)
(*                                                                         *)
(* Planners and display lock servercontrol.cpp's mutex_agent (lock).  The  *)
(* main thread locks tcpserver.cpp's, which nobody else uses, and          *)
(* setPath, setPosition and setDirection lock agent.cpp's for a single     *)
(* assignment: neither keeps the main thread from changing a position      *)
(* while a planner reads it.                                               *)
(*                                                                         *)
(* Clients plan with A*, here the contract of module Planning.  A client   *)
(* is what the server sees of it: it reports positions and goals, and      *)
(* reads the paths sent to it, unless its command thread has stopped       *)
(* reading (module Client: WaitToFinishDriving of a stranded robot).  It    *)
(* may leave at any time, which closes its connection.  Of its messages     *)
(* only what a report of its own says is taken over here; that one may be   *)
(* cut or typed at the client is in module Session.                        *)
(***************************************************************************)
EXTENDS Grid, FiniteSets

CONSTANTS Clients,     \* the ids of the clients
          Walls,       \* the cells that are '#' in the map file
          Routes,      \* the routes a planner may return
          Goals,       \* the goals clients report
          Stuck,       \* the clients that read nothing any more
          Capacity,    \* bound: the paths their connection holds before send() blocks
          Departures,  \* bound: the clients that leave
          Empty, Wall, Trail,   \* the other contents of a cell: ' ', '#' and PATH
          Display,     \* the display thread, as the owner of the mutex
          Nobody

ASSUME ServerAssumption ==
  /\ Walls \subseteq Cells
  /\ Goals \subseteq Int \X Int
  /\ Routes \subseteq Seq(Cells) /\ \A a \in Cells : << a >> \in Routes
  /\ << >> \notin Routes
  /\ Stuck \subseteq Clients /\ Capacity \in Nat /\ Departures \in Nat
  /\ {Empty, Wall, Trail} \cap Clients = {}
  /\ Empty # Wall /\ Empty # Trail /\ Wall # Trail
  /\ Display \notin Clients /\ Nobody \notin Clients \cup {Display}

\* A position as constructed: that of a robot that has not reported yet.
NoPosition == <<-1, -1>>

VARIABLES
  map,      \* Grid::map, shared by all agents
  pos,      \* Agent::pos of each client's agent
  goal,     \* Agent::goal
  path,     \* Agent::path
  which,    \* TcpServer::which_display
  done,     \* TcpServer::done
  lock,     \* the owner of servercontrol.cpp's mutex_agent
  pl,       \* each planner: where it is, and its locals
  disp,     \* the display thread
  tcp,      \* the main thread
  backlog,  \* the paths sent to each stuck client
  gone      \* the clients that have left

vars == <<map, pos, goal, path, which, done, lock, pl, disp, tcp, backlog, gone>>

agents == <<pos, goal, path>>

NoMark == <<-1, -1>>
PlannerIdle == [pc |-> "sleep", todo |-> {}, who |-> Nobody, row |-> -1,
                seen |-> [d \in Clients |-> NoMark], newPath |-> << >>]

DisplayIdle == [pc |-> "top", start |-> FALSE, show |-> Nobody, todo |-> {},
                who |-> Nobody, row |-> -1, newPath |-> << >>]

Init ==
  /\ map = [q \in Cells |-> IF q \in Walls THEN Wall ELSE Empty]
  /\ pos = [c \in Clients |-> NoPosition]
  /\ goal = [c \in Clients |-> NoPosition]
  /\ path = [c \in Clients |-> << >>]
  /\ which \in Clients
  /\ done = FALSE /\ lock = Nobody
  /\ pl = [c \in Clients |-> PlannerIdle]
  /\ disp = [DisplayIdle EXCEPT !.start = TRUE]
  /\ tcp = [pc |-> "select", from |-> Nobody]
  /\ backlog = [c \in Clients |-> 0]
  /\ gone = {}

-----------------------------------------------------------------------------
(* The grid.                                                                *)

\* Grid::clear: every cell that is not '#' becomes ' '.
Cleared(m) == [q \in Cells |-> IF m[q] = Wall THEN Wall ELSE Empty]

\* Grid::setPos(row, col, x) on a cell of the grid.
Marked(m, q, x) == [m EXCEPT ![q] = x]

\* Grid::markPath.
PathMarked(m, p, id) ==
  [q \in Cells |-> IF \E i \in 2..Len(p) : p[i] = q /\ ~(i = 2 /\ p[1] = q) THEN Trail
                   ELSE IF p[1] = q THEN id
                   ELSE Cleared(m)[q]]

LastOf(p) == p[Len(p)]

\* Variant with a bug: a default position where there is no path.
PlansTo_Default(a, g, m) ==
  LET routes   == {p \in Routes : IsRoute(p, a, {q \in Cells : m[q] = Empty})}
      reaching == {p \in routes : LastOf(p) = g}
  IN  IF a = NoPosition \/ reaching = {} THEN {<< NoPosition >>} ELSE reaching

(***************************************************************************)
(* astar_path from a to g, by its contract: a route over the cells that    *)
(* are ' ' in m, to g, or else to a closest cell that can be reached.      *)
(* From a position not reported yet, which is then the goal as well, it    *)
(* returns at once.                                                        *)
(***************************************************************************)
PlansTo(a, g, m) ==
  LET routes   == {p \in Routes : IsRoute(p, a, {q \in Cells : m[q] = Empty})}
      reaching == {p \in routes : LastOf(p) = g}
  IN  IF a = NoPosition THEN {<< a >>}
      ELSE IF reaching # {} THEN reaching
      ELSE {p \in routes : \A r \in routes : Dist2(LastOf(p), g) <= Dist2(LastOf(r), g)}

\* A mark in front of the grid goes through the word in front of the array of
\* rows, which is no pointer, and an empty path has no first position: the
\* process dies.
Crash == tcp' = [tcp EXCEPT !.pc = "crashed"]

(* The process ends otherwise, and its threads with it: by main's return; by *)
(* SIGPIPE, which a write to a connection raises that the client has closed; *)
(* by what getSendBack throws, for nothing catches it.                      *)
Ends(how) ==
  /\ tcp' = [pc |-> how, from |-> Nobody]
  /\ lock' = Nobody
  /\ pl' = [c \in Clients |-> [PlannerIdle EXCEPT !.pc = "exited"]]
  /\ disp' = [DisplayIdle EXCEPT !.pc = "exited"]
  /\ UNCHANGED <<map, agents, which, done, backlog, gone>>

Running == tcp.pc \in {"select", "goal"}

-----------------------------------------------------------------------------
(* update_path_thread_i(c)                                                  *)

Planner(c, l) == Running /\ pl[c].pc = l

\* Variant with a bug: the grid is not cleared.
LockAndClear_Keeps(c) ==
  /\ Planner(c, "sleep") /\ lock = Nobody
  /\ lock' = c
  /\ pl' = [pl EXCEPT ![c].pc = "mark", ![c].todo = Clients \ {c}]
  /\ UNCHANGED <<map, agents, which, done, disp, tcp, backlog, gone>>

\* Lock, clear the grid.
LockAndClear(c) ==
  /\ Planner(c, "sleep") /\ lock = Nobody
  /\ lock' = c
  /\ map' = Cleared(map)
  /\ pl' = [pl EXCEPT ![c].pc = "mark", ![c].todo = Clients \ {c}]
  /\ UNCHANGED <<agents, which, done, disp, tcp, backlog, gone>>

\* Mark another robot: its row is read, then its column.
MarkRow(c) ==
  /\ Planner(c, "mark")
  /\ \E d \in pl[c].todo :
       pl' = [pl EXCEPT ![c].pc = "column", ![c].who = d, ![c].row = pos[d][1]]
  /\ UNCHANGED <<map, agents, which, done, lock, disp, tcp, backlog, gone>>

MarkColumn(c) ==
  /\ Planner(c, "column")
  /\ LET d == pl[c].who
         q == << pl[c].row, pos[d][2] >>
     IN  IF q \in Cells
         THEN /\ map' = Marked(map, q, d)
              /\ pl' = [pl EXCEPT ![c].pc = "mark", ![c].todo = @ \ {d},
                                  ![c].who = Nobody, ![c].row = -1, ![c].seen[d] = q]
              /\ UNCHANGED tcp
         ELSE Crash /\ UNCHANGED <<map, pl>>
  /\ UNCHANGED <<agents, which, done, lock, disp, backlog, gone>>

\* Plan; the goal is overwritten through the reference.
PlanPath(c) ==
  /\ Planner(c, "mark") /\ pl[c].todo = {}
  /\ \E p \in PlansTo(pos[c], goal[c], map) :
       /\ pl' = [pl EXCEPT ![c].pc = "set", ![c].newPath = p]
       /\ goal' = [goal EXCEPT ![c] = LastOf(p)]
  /\ UNCHANGED <<map, pos, path, which, done, lock, disp, tcp, backlog, gone>>

SetPath(c) ==
  /\ Planner(c, "set")
  /\ path' = [path EXCEPT ![c] = pl[c].newPath]
  /\ pl' = [pl EXCEPT ![c].pc = "send"]
  /\ UNCHANGED <<map, pos, goal, which, done, lock, disp, tcp, backlog, gone>>

\* Variant with a bug: the mutex is not released.
SendPath_KeepsLock(c) ==
  /\ Planner(c, "send")
  /\ IF c \in Stuck \ gone
     THEN backlog[c] < Capacity /\ backlog' = [backlog EXCEPT ![c] = @ + 1]
     ELSE UNCHANGED backlog
  /\ pl' = [pl EXCEPT ![c] = [PlannerIdle EXCEPT !.pc = IF done THEN "exited" ELSE "sleep"]]
  /\ UNCHANGED <<map, agents, which, done, lock, disp, tcp, gone>>

\* sendPath blocks while the connection is full; then the mutex is released.  What
\* is sent to a client that has left is lost, or raises SIGPIPE.
SendPath(c) ==
  /\ Planner(c, "send")
  /\ IF c \in Stuck \ gone
     THEN backlog[c] < Capacity /\ backlog' = [backlog EXCEPT ![c] = @ + 1]
     ELSE UNCHANGED backlog
  /\ lock' = Nobody
  /\ pl' = [pl EXCEPT ![c] = [PlannerIdle EXCEPT !.pc = IF done THEN "exited" ELSE "sleep"]]
  /\ UNCHANGED <<map, agents, which, done, disp, tcp, gone>>

PathSigpipe(c) ==
  /\ Planner(c, "send") /\ c \in gone
  /\ Ends("sigpipe")

PlannerThread(c) ==
  \/ LockAndClear(c) \/ MarkRow(c) \/ MarkColumn(c) \/ PlanPath(c) \/ SetPath(c)
  \/ SendPath(c) \/ PathSigpipe(c)

-----------------------------------------------------------------------------
(* display_menu_thread_i                                                    *)

Displays(l) == Running /\ disp.pc = l

Choose ==
  /\ Displays("top")
  /\ disp' = IF done THEN [disp EXCEPT !.pc = "exited"]
             ELSE [disp EXCEPT !.show = which,
                               !.pc = IF disp.start THEN "first" ELSE "wait"]
  /\ UNCHANGED <<map, agents, which, done, lock, pl, tcp, backlog, gone>>

\* The first time round the display plans itself, without the mutex.
FirstPlan ==
  /\ Displays("first")
  /\ \E p \in PlansTo(pos[disp.show], goal[disp.show], map) :
       /\ disp' = [disp EXCEPT !.pc = "firstset", !.newPath = p]
       /\ goal' = [goal EXCEPT ![disp.show] = LastOf(p)]
  /\ UNCHANGED <<map, pos, path, which, done, lock, pl, tcp, backlog, gone>>

FirstSetPath ==
  /\ Displays("firstset")
  /\ path' = [path EXCEPT ![disp.show] = disp.newPath]
  /\ disp' = [disp EXCEPT !.pc = "wait", !.start = FALSE, !.newPath = << >>]
  /\ UNCHANGED <<map, pos, goal, which, done, lock, pl, tcp, backlog, gone>>

\* Variant with a bug: the display does not lock.
MarkPath_Unlocked ==
  /\ Displays("wait")
  /\ IF path[disp.show] # << >> /\ path[disp.show][1] \in Cells
     THEN /\ map' = PathMarked(map, path[disp.show], disp.show)
          /\ disp' = [disp EXCEPT !.pc = "rest", !.todo = Clients]
          /\ UNCHANGED tcp
     ELSE Crash /\ UNCHANGED <<map, disp>>
  /\ UNCHANGED <<agents, which, done, lock, pl, backlog, gone>>

\* Lock and mark the path of the robot shown.  An empty path throws, outside
\* any handler; a path from nowhere is marked in front of the grid.
MarkPath ==
  /\ Displays("wait") /\ lock = Nobody
  /\ lock' = Display
  /\ IF path[disp.show] # << >> /\ path[disp.show][1] \in Cells
     THEN /\ map' = PathMarked(map, path[disp.show], disp.show)
          /\ disp' = [disp EXCEPT !.pc = "rest", !.todo = Clients]
          /\ UNCHANGED tcp
     ELSE Crash /\ UNCHANGED <<map, disp>>
  /\ UNCHANGED <<agents, which, done, pl, backlog, gone>>

\* "display the rest": which_display is read again for each client.
RestRow ==
  /\ Displays("rest")
  /\ \E d \in disp.todo :
       disp' = IF d = which THEN [disp EXCEPT !.todo = @ \ {d}]
               ELSE [disp EXCEPT !.pc = "restcolumn", !.who = d, !.row = pos[d][1]]
  /\ UNCHANGED <<map, agents, which, done, lock, pl, tcp, backlog, gone>>

RestColumn ==
  /\ Displays("restcolumn")
  /\ LET d == disp.who
         q == << disp.row, pos[d][2] >>
     IN  IF q \in Cells
         THEN /\ map' = Marked(map, q, d)
              /\ disp' = [disp EXCEPT !.pc = "rest", !.todo = @ \ {d},
                                      !.who = Nobody, !.row = -1]
              /\ UNCHANGED tcp
         ELSE Crash /\ UNCHANGED <<map, disp>>
  /\ UNCHANGED <<agents, which, done, lock, pl, backlog, gone>>

\* Print the grid and the path, and release the mutex.
PrintGrid ==
  /\ Displays("rest") /\ disp.todo = {}
  /\ lock' = Nobody
  /\ disp' = DisplayIdle
  /\ UNCHANGED <<map, agents, which, done, pl, tcp, backlog, gone>>

DisplayThread ==
  \/ Choose \/ FirstPlan \/ FirstSetPath \/ MarkPath \/ RestRow \/ RestColumn \/ PrintGrid

-----------------------------------------------------------------------------
(* communicate: select, and one client's message or one line of input.      *)

Selecting == tcp.pc = "select"

\* The cells a robot that was on p may report next: the first report may name
\* any cell of the floor.
Reports(p) == (IF p = NoPosition THEN Cells ELSE {p} \cup Block(p)) \ Walls

\* A report: the position is set, then the goal.
SetPosition(c) ==
  /\ Selecting
  /\ \E p \in Reports(pos[c]) : pos' = [pos EXCEPT ![c] = p]
  /\ tcp' = [pc |-> "goal", from |-> c]
  /\ UNCHANGED <<map, goal, path, which, done, lock, pl, disp, backlog, gone>>

SetGoal ==
  /\ tcp.pc = "goal"
  /\ \E g \in Goals : goal' = [goal EXCEPT ![tcp.from] = g]
  /\ tcp' = [pc |-> "select", from |-> Nobody]
  /\ UNCHANGED <<map, pos, path, which, done, lock, pl, disp, backlog, gone>>

\* 'r': show another robot.
ChangeView(w) ==
  /\ Selecting
  /\ which' = w
  /\ UNCHANGED <<map, agents, done, lock, pl, disp, tcp, backlog, gone>>

\* A typed command that is written to a client that has left.
CommandSigpipe ==
  /\ Selecting /\ gone # {}
  /\ Ends("sigpipe")

\* A message that ends too early makes getSendBack throw.
MessageThrows ==
  /\ Selecting
  /\ Ends("thrown")

\* A client's answer to 'q', or its connection's end.
Quit ==
  /\ Selecting /\ ~done
  /\ done' = TRUE
  /\ UNCHANGED <<map, agents, which, lock, pl, disp, tcp, backlog, gone>>

\* main sleeps, frees the grid and returns, whatever the other threads do.
Exit ==
  /\ Selecting /\ done
  /\ Ends("exited")

MainThread ==
  \/ \E c \in Clients : SetPosition(c) \/ ChangeView(c)
  \/ SetGoal \/ CommandSigpipe \/ MessageThrows \/ Quit \/ Exit

\* A client's process ends, for whatever reason.
Leave(c) ==
  /\ Running /\ c \notin gone /\ Cardinality(gone) < Departures
  /\ gone' = gone \cup {c}
  /\ UNCHANGED <<map, agents, which, done, lock, pl, disp, tcp, backlog>>

-----------------------------------------------------------------------------
Next ==
  \/ \E c \in Clients : PlannerThread(c) \/ Leave(c)
  \/ DisplayThread \/ MainThread

Spec == Init /\ [][Next]_vars

(* Every thread of the server that can run keeps running, and a thread gets  *)
(* a mutex that others release again and again (they sleep in between).      *)
FairSpec ==
  /\ Spec
  /\ \A c \in Clients :
       /\ SF_vars(LockAndClear(c))
       /\ WF_vars(MarkRow(c) \/ MarkColumn(c) \/ PlanPath(c) \/ SetPath(c)
                   \/ SendPath(c) \/ PathSigpipe(c))
  /\ SF_vars(MarkPath)
  /\ WF_vars(Choose \/ FirstPlan \/ FirstSetPath \/ RestRow \/ RestColumn \/ PrintGrid)
  /\ WF_vars(SetGoal)

-----------------------------------------------------------------------------
(* Properties.                                                              *)

Positions == Cells \cup {NoPosition}
Contents == {Empty, Wall, Trail} \cup Clients
PathsOK == Routes \cup {<< >>, << NoPosition >>}

\* Every variable stays in its range.
TypeOK ==
  /\ map \in [Cells -> Contents]
  /\ pos \in [Clients -> Positions]
  /\ goal \in [Clients -> Positions \cup Goals]
  /\ path \in [Clients -> PathsOK]
  /\ which \in Clients /\ done \in BOOLEAN
  /\ lock \in Clients \cup {Display, Nobody}
  /\ pl \in [Clients -> [pc : {"sleep", "mark", "column", "set", "send", "exited"},
                         todo : SUBSET Clients, who : Clients \cup {Nobody},
                         row : -1..(Rows - 1), seen : [Clients -> Positions],
                         newPath : PathsOK]]
  /\ disp \in [pc : {"top", "first", "firstset", "wait", "rest", "restcolumn", "exited"},
               start : BOOLEAN, show : Clients \cup {Nobody}, todo : SUBSET Clients,
               who : Clients \cup {Nobody}, row : -1..(Rows - 1), newPath : PathsOK]
  /\ tcp \in [pc : {"select", "goal", "exited", "crashed", "sigpipe", "thrown"},
              from : Clients \cup {Nobody}]
  /\ backlog \in [Clients -> 0..Capacity]
  /\ gone \subseteq Clients

(* When a planner searches, the grid shows every other robot where the       *)
(* planner read it to be, and nothing else: no mark of another planner's     *)
(* round, no trail of the display, not the robot itself.                     *)
MarksAreExact ==
  \A c \in Clients : pl[c].pc \in {"set", "send"} \/ (pl[c].pc = "mark" /\ pl[c].todo = {}) =>
    \A q \in Cells :
      IF \E d \in Clients \ {c} : pl[c].seen[d] = q
      THEN map[q] \in {d \in Clients \ {c} : pl[c].seen[d] = q}
      ELSE map[q] \in {Empty, Wall}

(* The path a planner sends leads through no cell on which it saw another    *)
(* robot.                                                                   *)
PathAvoidsRobots ==
  \A c \in Clients : pl[c].pc \in {"set", "send"} =>
    \A i \in 2..Len(pl[c].newPath) : \A d \in Clients \ {c} :
      pl[c].newPath[i] # pl[c].seen[d]

(* What the display prints belongs together: the trail on the grid lies on   *)
(* the path it prints beside it, and the path's cells are trail or robots.   *)
Shown == Displays("rest") /\ disp.todo = {}
PrintAgrees ==
  Shown =>
    LET p == path[disp.show]
        on == {p[i] : i \in 1..Len(p)}
    IN  /\ {q \in Cells : map[q] = Trail} \subseteq on
        /\ \A q \in on : map[q] \in {Trail} \cup Clients

(* The positions in use: every robot has reported, every path starts on the  *)
(* grid, and no thread has half of an unreported position in hand.           *)
Settled ==
  /\ Running
  /\ \A c \in Clients :
       /\ pos[c] \in Cells
       /\ path[c] # << >> /\ path[c][1] \in Cells
       /\ pl[c].pc = "column" => pl[c].row >= 0
       /\ pl[c].pc = "set" => pl[c].newPath[1] \in Cells
  /\ disp.pc = "restcolumn" => disp.row >= 0
  /\ disp.pc = "firstset" => disp.newPath[1] \in Cells

(* Once the positions are settled no mark goes astray and no path shown is   *)
(* empty, whatever the planners, the display and main do to the agents and   *)
(* the grid in between: the server runs on, still settled, until main        *)
(* returns, or something is written to a client that has left, or a message  *)
(* makes getSendBack throw.                                                 *)
SettledForEver ==
  [][Settled => \/ Settled'
                \/ tcp'.pc \in {"exited", "thrown"}
                \/ tcp'.pc = "sigpipe" /\ gone # {}]_vars

(* update_path_thread_i "Infinitely updates the agent's path": every planner *)
(* plans again and again until the server ends, or else one client that     *)
(* reads nothing stops them all, its planner blocked for ever in send() with *)
(* the mutex in its hands.                                                  *)
Blocks(d) == pl[d].pc = "send" /\ lock = d /\ backlog[d] = Capacity
PlannersKeepPlanning ==
  \A c \in Clients :
    \/ []<>(pl[c].pc = "set" \/ ~Running \/ done)
    \/ \E d \in Stuck : <>[]Blocks(d)

(* The next says what a comment of the code promises and the code does not   *)
(* keep.                                                                    *)

(* Grid::clear "Clears all the accessible positions in the grid": a wall of  *)
(* the map stays a wall.                                                    *)
WallsStay == \A q \in Walls : map[q] = Wall
=============================================================================
