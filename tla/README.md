# A verification project for irobot_driver

`irobot_driver` drives iRobot Create robots over a grid map. The same program runs in three
modes (`src/src/main.cpp`): **own mode** plans and drives one robot in one process; **client mode**
drives a robot along paths a server sends; **server mode** plans for all connected clients.
The TLA+ modules here model its control code, TLC checks them on small instances, and TLAPS proves
the safety properties for every value of the constants.

Run, in this directory: `tlc -config MCClient_races.cfg MCClient` (and likewise for each run in
`PROJECT.json`), `tlapm Client_proofs.tla` (and each other `*_proofs.tla`).

## 1. Inventory

| Part (sources under `src/src/`) | State | Operations | Interacts with | What is hard | What makes it correct |
|---|---|---|---|---|---|
| Agent and path following (`robot_driver_agent.cpp`, `robot_driver_path.cpp`) | path, position, direction, the flags `driving` and `spinning`, a static mutex | `stepPath`, `step`, `change_direction`, `setPath` | every thread of the process | trylocks nobody looks at, exits without unlock, swallowed exceptions | the tracked pose is the robot's; a path is never a mixture; nobody is stuck for good |
| Robot (`robot.cpp`) | default velocity, the wheels | turns, straight drives, stop, modes, LEDs, songs, sensors | Agent, command threads | signs of velocity and angle; one shared buffer for byte pairs | a turn ends facing the direction asked for, a drive ends on the next cell |
| Client mode (`clientcontrol.cpp`, `tcpclient.cpp`, `udpclient.cpp`) | the agent, sockets, `done` | drive thread, command loop `getCommand`, update thread, UDP thread | server by TCP and UDP | two mutexes with one name guard the same path; busy waits; SIGPIPE | reports are not torn by commands; the path is one plan; waits end |
| Connections (`tcpserver.cpp`, `tcpclient.cpp`) | what is on the way, what the server knows of each client, `done` on both sides | reports, answers, commands, quit, closing | both processes | a `recv` returns any piece of what was sent; fields are cut by hand; an exception or a signal ends a process | what the server shows is what a client reported; nobody ends but for a reason, and then all do |
| Own mode (`owncontrol.cpp`) | the agent, the grid, `done` | planner, display, drive, sensor and input threads | grid analyzer, agent | lock order, a lock that is never released | grid never shared half-written; planning goes on |
| Server mode (`servercontrol.cpp`, `tcpserver.cpp`, `udpserver.cpp`) | one agent per client, a grid shared by all, `which_display` | a planner per client, display, TCP loop, UDP loop | clients by TCP and UDP | several mutexes with one name; marks of robots on the shared grid | a plan avoids the other robots; a display is of one robot |
| Planner (`grid_analyzer.cpp`, tree, queue, stack) | a grid, a search tree, a queue | A*, RRT, next best position | called by the planners with the agent's goal by reference | goal changes in mid-search, termination | a route over free cells to the goal or to the closest reachable cell |
| Grid (`robot_driver_grid.cpp`, `robot_driver_position.cpp`) | cells | load, mark, clear | planners, displays | marks off the grid | marks are taken back |
| Remote control (`guiwindow.cpp`, `get_gui_command` of `tcpclient.cpp`) | fields, the connection, the sensor stream's flag | a callback per button; the client's command loop | Robot, directly or by messages | stacked messages are dropped; a client that sleeps; a server that goes away | the robot does what was pressed last; a quit leaves it at rest |
| Serial port (`rs232.cpp`) and sensors (`robot.cpp`) | a terminal, `sensor_values` | read, write, the thread that reads the stream | Robot | short reads, a header byte that may be data, no check of size or sum, two bytes read apart without a mutex | both bytes of a value are of one sensor and one packet; the thread stays in step with the stream |
| Start (`main.cpp`) | arguments | mode selection, set-up, tear-down | everything | the agent is deleted under detached threads | - |

`PROJECT.json` lists the hazards met while reading, at their lines, with the properties that cover them
or the reason none does.

## 2. Modules

| Module | Models |
|---|---|
| `Motion` | compass directions, the turn table of `change_direction`, the choice of direction in `step`, and what `turnXDegrees` and `driveXDistance` do to a robot on a cell |
| `Agent` | the Agent object, the robot it drives, and the drive thread: `stepPath` with one action per access to shared state |
| `Client` | client mode: extends `Agent` with the command thread (`getCommand` and the tear-down in `main`) and the update thread |
| `OwnMode` | own mode: extends `Agent` with the planner, display and input threads |
| `Grid` | the floor as a set of free cells, the cells `adjacentPositions` looks at, routes |
| `Planning` | what `grid_analyzer.h` promises of `astar_path`, as one atomic step |
| `AStar` | `astar_path`, node by node and neighbour by neighbour; shown to implement `Planning` |
| `Rrt` | `rrt_path` and `build_rrt`: the draws, the greedy walks with their dots on the map, and the tree they are grafted on |
| `Remote` | the remote control (`--gui`): buttons with their fields, the connection, `get_gui_command`, and the calls of `Robot` they lead to |
| `Server` | server mode: a planner for each client, the display, and the main thread with its clients, on the shared grid; plans by the same contract |
| `Sensors` | the sensor stream: the serial line, the thread that reads it with short reads, `sensor_values`, and the callers of `get_sensor_value` |
| `Wire` | the messages from client to server and what `getSendBack` makes of any piece of them: framing, fields, signs, exceptions |
| `Session` | server and clients over TCP: extends `Wire` with reports, commands, answers, quitting, and the end of each process |
| `MCClient`, `MCOwnMode`, `MCAStar`, `MCRrt`, `MCRemote`, `MCServer`, `MCSensors`, `MCSession` | constants for TLC |
| `Agent_proofs` (with `Motion`), `Client_proofs`, `OwnMode_proofs`, `AStar_proofs`, `Rrt_proofs`, `Remote_proofs`, `Server_proofs`, `Streams_proofs` (of `Sensors` and `Session`) | theorems |

`Client` and `OwnMode` extend `Agent`, which extends `Motion`. `AStar`, `Rrt`, `Planning` and `Server` rest
on `Grid`; `AStar` instantiates `Planning`, its abstract specification. `Remote` stands alone: in this mode
no thread but one uses the robot's wheels. So does `Sensors`: nothing that drives a robot reads a sensor. `Session`
composes the two ends of a connection; what the commands do to a robot is `Client`'s subject, what the planners do
to the grid `Server`'s, and `Session` keeps of both what travels and what ends a process (a client that waits for
a drive is `stuck`, a planner's path is a message).

### State and actions against the code

*Mutexes.* `mutex_agent` is a `static` variable of the header `robot_driver_utility.h:173`, so each
source file has its own. `agentLock` is that of `robot_driver_agent.cpp`, `tcpLock` that of
`tcpclient.cpp`, `ownLock` that of `owncontrol.cpp`. The models keep this: two threads that each hold
"the" mutex need not exclude each other.

*The drive thread* (`drv.pc`). The labels follow `stepPath` (`robot_driver_agent.cpp:386-433`):
`enter` is the trylock at 392, `check` the loop condition and the unlock, `relock` the trylock at 401,
`guard` and `commit` lines 405 and 406, `fetch0`/`fetch1` the two `at()` reads, `aim` the choice of
direction in `step`, `turn`/`turning` and `advance`/`moving` the start and the end of the two calls
that last (a turn and a drive sleep while the robot moves), `arrive` line 414, `pop` and `shrink` the two
halves of the `pop_front` at 416 (`robot_driver_path.cpp:47-48`), `pause` the sleep, `release` and `unlock` the end. An `at()` that throws leaves through the empty
handler at 432: the flag stays set, the mutex stays held.

*The robot* (`cell`, `heading`). Not program state but what the program is about; `faults` is a
history variable that names what first parted the tracked pose (`pos`, `direction`) from it.

*Path* (`path`, `deficit`, `size`). A vector, and beside it the number `Path::size` that the loops of `stepPath` and
`markPath` go by. No mutex is common to all users of the vector, so each access to it is a step of its own: `pop_front` erases
the first element and then decrements `size`, `add` increments `size` and then appends, `clear` is its loop of tests and
`pop_back`s with `size = 0` behind it, and the assignment in `setPath` copies the vector and then the number. An element taken
off an empty vector, at either end, brings its size below zero: `Position` has a destructor of its own, the library moves the end
of the vector back by one, and the next `push_back` writes in front of the buffer and brings the size back to zero. `deficit`
counts these. `at()` takes a negative size for a large one and returns what is in memory, any cell in the model; `faults` then
has the cause `ghost`. Two accesses to the vector that overlap (a lost update of its end, a read of a buffer that is being
moved) and what the stray write overwrites are not modelled.

*The command thread* (`main` in `Client`). One group of actions per command of
`TcpClient::getCommand`; `recv` is the point at which it reads a message. A read that returns two
stacked messages is dropped by the code and changes nothing, so it is a stutter. A new path is `LockToClear`,
the loop of `Path::clear` (`TestEmpty`, `PopBack`), `ResetSize`, and for each position `CountPosition` and `AddPosition`.
All of it is under `tcpclient.cpp`'s mutex, which the drive thread's `pop_front` does not take. If that falls between
`clear`'s last test and its `pop_back`, the size of the vector is -1, which as an unsigned number is above 0: the loop
never ends (`Endless`), and the reports, which need the same mutex, stop. `DebtIsPaid` says that this, and a debt that the
first position of the rebuild pays, are the only outcomes, as long as nothing was read through a negative size. What such a
clear goes on taking off is not counted up (bound in `PopBack`). The tear-down deletes the agent under detached threads; the
model stops following them there.

*Own mode* (`OwnMode`). `pl` is the planner: `plan`, then `setPath` as `LockToSetPath` on `agent.cpp`'s mutex and the two
assignments `SetPath` and `SetSize`. `disp` is the display; `markPath` reads as many positions as `size` says, outside any
handler, so a path shorter than that is the end of the process (`threw`). `main` is the user's thread, which takes no mutex.

*The search* (`AStar`). `tree` is `Tree::nodes` in order of creation with parents by index, `queue`
the priority queue as indices, `scan` the locals of `find_next_best`. Values f = g + h are compared
exactly, through squares (`RootExceeds`), where the code compares doubles. The map does not change in
a search because every caller holds the mutex that guards the grid; the goal may (`Retarget`),
because the code passes `Agent::goal` by reference and other threads assign it without that mutex.

*The random tree* (`Rrt`). The cell drawn (`rand()`) is any member of the subset. Cells join the tree more
than once, and the code finds a parent by position: `Find` is the first node with that cell, as in `Tree::find`.
`inc` and `side` hold what the sampling rectangle and `close_distance` are computed from. Two ends have no
continuation in the code: `crashed`, the remainder by a subset of size 0, and `lost`, where `Tree::find` runs off
its end without a return. `Reposition` and `Retarget` assign the references the code holds; within one action
the goal has one value. A tree's size is not bounded in the code: no walk starts once it has `MaxNodes` nodes,
so the model says nothing about termination, and `ReturnsOnlyIfClose` states what is known of it: when the search
can *not* return.

*The remote control* (`Remote`). `network` chooses between the two programs behind the same window: the callbacks
call the robot, or send a message to a client. `pc` is the thread that makes the calls, the client's or the
window's own; `turning` and `waiting` are the sleeps inside a timed turn and inside `fullMode` and `safeMode`.
A message stands for its header and arguments and is received as a whole; a `recv` returns any number of those
that are on the wire, and `get_gui_command` drops them all if it counts two headers. The sensor item is turned
into a sensor by the window and sent as one; `SensorOf` is applied where the message is obeyed. `wheels`,
`stream` and `lit` are the robot's, as the bytes leave them, computed through `getHighAndLowByte` in sixteen bits.
`move` and `item` are history variables: the last call that sets the wheels and whether its message is under way,
obeyed or dropped. Blank fields are empty sequences, because the window asks whether a radius was typed at all and
the client whether it is 0.

*The server* (`Server`). `lock` is the `mutex_agent` of `servercontrol.cpp`, taken by planners and display.
The main thread's is that of `tcpserver.cpp`, which nobody else takes, and `setPosition`, `setPath` and
`setDirection` take that of `agent.cpp` for one assignment; so positions and goals change under a
planner's hands, and each reading of a position is two actions (`MarkRow`, `MarkColumn`), because a
caller reads its row and its column through two calls of `getPosition`. The assignment of a position is
one 8-byte move, hence one action. A planner's search is one action with the contract's result: the main
thread's changes of the goal in mid-search are what `AStar` and `Rrt` are about. A mark off the
grid (a robot that has not reported is at (-1, -1)) goes through the word in front of the array of rows,
and the process dies (`Crash`); so does the display on an empty path. Clients plan with A*; the branch for RRT
is not modelled. `backlog` counts what a client that no longer reads lets pile up: the sockets are
blocking, and `sendPath` is called under the mutex: `Blocks` is a planner that waits there for a client in `Stuck`.
`gone` are the clients whose process has ended (`Leave`, at most `Departures` of them): what is written to them is lost, or is the
SIGPIPE that ends the server, from a planner's thread (`PathSigpipe`) or from `main` (`CommandSigpipe`). `MessageThrows` is an
exception of `getSendBack`, which nothing catches; `Wire` has the messages that raise it. All three are `Ends`, like `main`'s
return: the threads stop where they are. A report is one of a robot's own (`Reports`): a line typed at a client, or the rest of a
report that was cut, may say anything else, and is `Session`'s subject.

*The sensor stream* (`Sensors`). A byte is the packet and the place it comes from, with `gap` if the line lost the byte
before it: values are abstracted to whether they read as a header (19), which the first byte of each packet does and
the places in `looks` do. The port is opened with `O_NDELAY` and `VMIN = VTIME = 0` (`rs232.cpp:115-136`), so a `read`
returns what is there: `Poll` with `line` empty finds in `receive` what was left there, and `PollRest` takes
`Taken` bytes. A `rest` that was filled in part, or from a packet not taken from its first byte, is `Unknown`: its
contents are not followed, which loses nothing, because the properties speak of clean packets only. `Store` writes one
entry of `sensor_values` per step and `CopyFirst`/`CopySecond` read one each, as there is no mutex. `step` and the `clean`
fields are history variables.

*The connection* (`Wire`, `Session`). A text is a sequence of tokens, one per number or `@`; blanks are implied, and a cut
falls between tokens. `Fields` and `Scanned` are the scans of `getSendBack`: a scan that starts at a sign takes nothing, so
that a negative number counts as two fields, the sign's and the digits' (`Scans`), unless it is the default velocity, whose
scan accepts a sign. `Ahead` counts the fields the tokens before a place make, and so says which token a field comes from. `Update` has the exception of `substr` beyond the end, which nothing catches, hence `died`; where a blank at
the end of the text decides, both outcomes are possible. `Pieces` is what one `recv` may return. On the way down a
`recv` returns whole messages, one or several; `Client` has what one of them does.

`TypeLine` is a line typed at a client, which `communicate` sends on as it is if it has one `@` in it
(`tcpclient.cpp:760-789`): a report, a change of the label, a `5` that quits the server, with the newline as one field more and
zero bytes behind it (`TypedLine`). What the server shows of a client until its first report is the agent `main` constructed, at
(-1, -1), in the mode the memory held (`Constructed`, any value); `taken` in `hist` says that a report was taken over. `Settle`
and `Crash` are what `Server` has in detail: a planner that marks a robot off the grid, or a display that shows one before its
planner has a path, ends the server, and until all robots are on the grid and every planner has planned there (`settled`) that may
happen at any time. `CommandThrows` is `getCommand`'s exception, on a message longer than a `recv` takes, which ends the client.
A process that ends takes along what it has not read (`Leave`, `Ends`), and every later write to it is a SIGPIPE (`Sigpipe`,
`PlannerSigpipe`).

## 3. Runs

Bounds are the constants in the `.cfg` files and the definitions in the MC modules.

| Run | Question | Bounds, and why they are enough |
|---|---|---|
| `client_pose` | Which causes part the tracked pose from the robot's? | All five commands, velocities -1, 0, 1, diagonal steps on a square. Followed up to the first fault (`FaultFree`); the property is silent after it. Velocities matter by sign only. |
| `client_races` | Path rebuilds, spins and quitting against drive and update thread | Three cells, plans of one, two and three cells in both directions: a rebuild can hit every line of a step, leave the path empty, and leave one position of another plan; a pop can fall before, into and behind every turn of `clear`'s loop. |
| `own` | The two mutexes of own mode | Two cells with all paths between them, goals at one end and off the floor: a step, a pop and a rest are all the mutexes depend on. |
| `own_plans` (violation) | "Infinitely updates the agent's path" (`owncontrol.cpp:16`) | A corridor of three cells, so that a path can be shortened while a robot is on it. |
| `astar` | Routes, order of the queue, termination, and the promise of the header file | Every 3 by 3 floor with free corners (32), four starts (one may be a wall), three goals: a corner, the centre, which half of the floors wall off, and one off the floor. Another thread moves the goal at most once, at any moment. |
| `rrt` | What is a random tree's path, what does the search leave of the map, and why does it fail? | Two floors of 4 by 4 (the smallest on which a cell beside the goal is close to it without being it): a bend with a dead end, and two rooms. No mark, a mark beside the way, one on the robot's own cell; goals that can be reached, on the start, and in a wall. Every draw; one assignment of position or goal at any moment. No walk starts from a tree of more than four nodes: enough for a cell to join it twice. |
| `remote` | Does the robot do what was pressed last, is it at rest after a quit, and does the quit end the client? | Three presses, of every button: a message that is obeyed, one that is late or dropped, and one after it. Velocities of both signs and one that sixteen bits do not hold, blank and zero radii, turns by angle and by time that turn and that do not. |
| `remote_drive` (violation) | "Drives the robot at a given velocity and radius" (`robot.cpp:542`) | Two drives and a stop. |
| `server` | Is what a planner searches, what it sends and what is printed consistent, and does the server survive? | Two clients, two by two cells with two walls that touch at a corner; on these A* takes at most one step, so routes have one or two cells. One client may leave; it is followed from there while its planner sends to it (`LeftWhileSending`), because before and after that nothing but a typed command, whose SIGPIPE ends the server, depends on whether it has left yet. Followed up to the first lost wall (`WallsStay`). The ids are interchangeable. |
| `server_live` | Does every planner keep planning? | Two clients on one cell, one of which reads nothing any more: progress depends on the mutex and the connections, not on the floor. A connection holds one path; one client, either of them, may leave. |
| `sensors` | Are the two bytes of a value of one sensor and one packet, and does the thread stay in step? | A packet of six bytes with a sensor of one byte and one of two, data that may read as a header at two neighbouring places, a line that holds four bytes (less than a packet, so that bytes are lost and reads come up short), packet numbers modulo 2, one caller (callers do not touch each other). |
| `session` | What does the server know of its clients, why does it end, and who ends with it? | Client `a` reports again and again, with two poses, the second with a goal off the map and a negative velocity before it; `b` reports until a first report was taken over. The agents are constructed in modes 0 and 1, one of which the code knows; the grid has two rows and two columns. `a` is sent changes of the sensor, `b` other commands and paths; two messages on the way up from `a` and one from `b`, one on the way down to `a` and two to `b`. `MaxOdd = 1`: of the things that can go wrong or end the session (a read that ends inside a message, behind a type, before a mode or in the second of two messages; a line typed at a client, a report that is too short or a change of the sensor at `a`, a `5` at `b`; a message that throws; the `q`) one happens, with everything else in any order: each is an exception of a property by itself, and the properties speak of what no such thing has touched. |

What the two violations show is in `PROJECT.json` under `findings`: `own_plans` is a mutex kept for good, in
`remote_drive` two pointers share one static array.

More disagreements between comments and code have no run of their own, because a property that holds says it better:

* "Infinitely updates the agent's path" (`servercontrol.cpp:29`). `sendPath` calls a blocking `send` with the planners'
  mutex, so one client that stops reading stops the planners of all. `PlannersKeepPlanning` names this as the only
  exception. Such a client exists: `getCommand` reads nothing while it waits for a drive that never ends
  (`StrandedForEver`).
* "if tree does not contain the goal, there is no path to the goal" (`grid_analyzer.cpp:574`). The walk to the goal is
  greedy and never turns back: on a floor with a pocket next to the way it ends there, and the goal, which can be
  reached, is replaced. `EndsClosest` is what is left.
* The spin "waits" for the drive (`tcpclient.cpp:313`), but a spin and a step can command the wheels together:
  `PoseExplained` names it among its causes.
* `find_next_best` need not find the closest position if another thread assigned the goal late in a search:
  `FindsClosestUndisturbed` is what is left of its comment.
* A report with a negative number in its position or goal is not taken apart as it was put together: `ViewExplained` is about the fields before it.
* A sensor thread out of step does not find the next header: `PhaseKept`. Nor is there a liveness property to be had
  for it: with a data byte that always reads as a header, or a 19 left in `receive` and a poll that reads nothing,
  it takes every packet from the wrong place for ever.

Two facts of the source that no model depends on: `get_signed_value_16_bit` (`robot_driver_utility.h:129`) returns no
negative number, so the real velocity of a report never has a sign; and `values[0]` is the high byte, which own mode and
the UDP client pass on as the low one (`owncontrol.cpp:157`, `udpclient.cpp:81`).

`CHECK_DEADLOCK FALSE` everywhere: the process exits, a search returns, and in own mode all threads
but the user's can stop for good (that is what `own_plans` shows). In `Sensors` a state without a step does not matter: it
states no liveness.

### Fairness

`Client!FairSpec`: weak fairness for the drive thread and the update thread (threads of a
preemptive scheduler), weak fairness for each step of the command thread that does not wait for
input, and strong fairness for its three lock acquisitions: the update thread releases the
mutex and then sleeps 150 ms (`UPDATE_SERVER_TIME`), so a waiting thread gets it. No fairness for
receiving a command: the server may be silent. `OwnMode!FairSpec` likewise; the user types nothing
by obligation, and the sleeps of planner and display (200 ms, 1 s) justify strong fairness of each
other's acquisitions. `Server!FairSpec`: strong fairness for the acquisitions of planners and display,
which sleep 0.2 s and 1 s between them, weak fairness for the rest of these threads and for the second half
of a report; a path to a client that has left is sent or raises SIGPIPE, whichever it is; none for the user, for quitting, or for
clients that leave; clients outside `Stuck` read what they are sent. `AStar!FairSpec`: the searching thread runs; others need not.
`Remote!FairSpec`: the client's thread runs and its sleeps end; no fairness for the user or for the server's exit.
`Session!FairSpec`: a client's main thread gets to see that the server is gone and to end, or its next report
(150 ms) is the SIGPIPE that ends it; the server's loop serves every client that has sent something or has closed its connection,
and a `main` that has left its loop returns. The weak fairness of `Serve(c) \/ ClientGone(c)` is written out, with what enables
them (`ToServe`) and the steps by what only they and the server's end do (what is on the way up gets shorter, `srv` changes): the
same condition, which TLC evaluates without enumerating the pieces of a text. None for robots, users, planners, or for a client that waits for a drive. `Rrt` and `Sensors` state none.

## 4. Proofs

Every safety property a passing run checks is a theorem, for all floors, plans, velocities, goals, clients, packets and
thread names that satisfy the named assumptions. Some theorems state properties that no run checks, because TLC's time goes to those
that are harder to get right (`ReportsAreExclusive`, `DisplayIsLockedOut`, `GivesUpWhenExhausted`, `NeverGivesUp`, `PathsAvoidRobots`,
and the two `SearchRunsDown`).

* `Agent_proofs`, first part (`Motion`). `TurnFaces`: a turn by the table's angle ends facing the direction asked for at
  any nonzero velocity. `StepReaches`: facing so, the drive ends on the next cell. By cases over
  the eight directions.
* `Agent_proofs`, second part. The drive thread's lemmas, independent of what the other threads do: its locals are
  set where they are used (`AgentInv`), `Drive \in moving` exactly at `turning` and `moving`, and the
  pose invariant that makes `PoseExplained` inductive: as long as there is no fault, only one thread
  commands the wheels, the locals of the step agree with the pose, and the heading has reached
  the direction of the step when the drive starts.
* `Client_proofs`. `TypeCorrect`, `PoseIsExplained`, `ReportsAreExclusive`, `StrandedIsForEver`; and
  the two about the path. `PathIsOnePlan` needs to know what the half-built path and the positions
  still to be added are pieces of: `RebuildInv` (what is in the path is a piece of the plan being added that ends where
  `main.todo` begins; before that, of any plan). Appending moves the end of the piece, popping either end.
  `DebtsArePaid` needs the places of the two threads (`DebtInv`): inside a step the path is empty only if `clear` is at a test or
  the first position has not been added (`StepPlace`); at a `pop_back` with an empty path, whose element a pop has just
  taken, the drive thread is past its step (`ClearPlace`); and where there is a debt, it cannot have begun another
  one (`DebtPlace`). A read through a negative size undoes all three, and so `ghost` ends what is claimed.
* `OwnMode_proofs`. `TypeCorrect`, `GridIsExclusive`, `PoseIsExplained`, `PopsAPosition`,
  `FrozenIsForEver`, `DisplayIsLockedOut`.
* `AStar_proofs`. `TypeCorrect`, `ReturnsRoutes`, `QueueStaysOrdered`, `GivesUpWhenExhausted`, `FindsClosestNode`, and the
  refinement `SearchKeepsPromise`. The invariant: the tree has no cell twice and each node next to its parent
  (`Chained`); a node is in the queue, being expanded, or explored (`QueueInv`), so that an empty queue means
  the tree is closed; what is traced so far is a route that goes on from `current`, because parents precede
  their children (`TraceInv`); and, for a goal nobody assigned, a node on the goal is in the queue until
  it is found, and the goal after `Settle` is a closest cell (`GoalInv`). The place `Push` chooses exists because a
  set of naturals has a smallest element; that is proved from the library's theorem that strict inclusion of
  finite sets is well-founded, its theorems on induction being out of the provers' reach. The queue stays in order because
  `~Costlier` is transitive: that `sqrt(a) <= sqrt(b) + d` and `sqrt(b) <= sqrt(c) + e` give `sqrt(a) <= sqrt(c) + d + e`
  is shown in integers, by a fraction `p / n` so little above `sqrt(c)` that it tells `sqrt(c) + d + e` from
  anything below `sqrt(a)` (`FractionTells`), and which the two comparisons carry to a bound on `a` (`BoundMoves`).
  `SearchRunsDown` and `RankStaysNatural` are what `Terminates` rests on: each step, also another thread's assignment of
  the goal, lowers a tuple of naturals in the first place it changes. A search that was given up begins anew only if the
  goal moved after `Settle`; without that the node settled on is popped next and is the goal.
* `Rrt_proofs`. `TypeCorrect`, `ReturnsRoutes`, `EndsAtClosest`, `NeverGivesUp`, `FailsForReasons`, `MapIsClear`. The invariant:
  a node's parent comes before it and is its neighbour, also if the parent found is another node with the same
  cell than the one the walk came from (`Chained`); the walk is a path over cells that were free and
  meets no cell twice, because its own dots are in its way (`WalkInv`); what is traced never comes back to a cell,
  because `Find` returns the first node with it and the indices fall (`TraceInv`); unless somebody assigns it, the
  goal is the one asked for until it becomes a closest cell of the tree (`GoalInv`); a robot on a free cell always
  leaves a cell to draw (`DrawInv`). `NeverGivesUp` says when the search returns; `SearchRunsDown` what one that does not
  is doing: its rank falls with every step but one, drawing once more from all the free cells of the map, so that walks, the
  approach and the trace end (a walk loses a free cell with each step, the trace goes to earlier nodes).
* `Remote_proofs`. `TypeCorrect`, `FollowsTheButtons`, `QuitLeavesRest`, `OrphanIsForEver`, for any buttons, fields and number of
  presses. The invariant: messages are numbered in the order they were sent, and those in the client's buffer come before
  those on the wire (`Numbered`); a message under way is the last that sets the wheels, or earlier while that one is
  under way too, or later and does not set them (`AllPending`); quit is pressed last (`Closing`). Underneath, two bytes
  carry a number exactly if it fits sixteen bits (`ByteValue`), from which the sense of every turn follows.
* `Server_proofs`. `TypeCorrect`, `MarksAreTheRobots`, `PathsAvoidRobots`, `PrintsAgree`, `SettledIsForEver`. The invariant:
  planners and display are in their critical sections exactly while they own the mutex (`LockInv`); a
  planner has seen exactly the robots it has marked (`LocalsInv`) and the grid shows these and nothing else
  (`MarksInv`); while the display draws, the trail is the path it will print (`TrailInv`). `SettledIsForEver` holds
  from any settled state on, by cases over the actions; the ends of the server it allows are `main`'s return, a SIGPIPE once a client
  has left, and what `getSendBack` throws.
* `Streams_proofs`, first part (`Sensors`). `TypeCorrect`, `PairIsExplained`, `PhaseIsKept`, for any layout of the packet, any data that reads as
  a header, any buffer and any number of callers. Underneath is `LineInv`: bytes on the line at most a packet apart, and the
  one the robot sends next, keep their distance in the stream unless one between them was lost. For the pair: a thread
  that took a header at place 0 finds place 1 and place 2 next (`ThrInv`), hence one packet in `rest`; the entries
  stored so far are this packet's (`StoreInv`), all of them once it polls again; and what a caller copied first is still in the
  array when nothing was stored since (`CopiedInv`). For the phase: the next byte is as far behind the last header as the
  thread has read (`PhaseInv`), and a full round is a packet.
* `Streams_proofs`, second part (`Session`). `SessionTypes`, `ViewIsExplained`, `LabelsFollow`, `EndsAreExplained`, for any number
  of clients, poses, commands and messages under way, and for every piece a `recv` may return. The invariant `SessionInv`:
  on a connection every header begins a whole message, the client's own or one of the kinds typed there (`Upward`, `TypedShape`),
  with the end of the text or another header behind it, wherever reads have cut before (`UpInv`); the last answer on the way names
  the client's sensor, or else the label does (`LabelInv`); and without a reason to end, unless the server crashed at its start,
  every connection begins with a header and carries no `5`, nobody is leaving, and once settled every robot is on the grid
  (`ReasonInv`, `FlagsInv`), because a report that was read as it was sent says a place on it (`ExplainedIsOnGrid`). A piece that begins and
  ends at a message and has one header is one message (`WholePiece`); of a report, the tokens up to the first illegible one
  make one field each, the velocity's sign apart, so that each field is the one it was sent as (`ReportScanned`,
  `ReportExplains`). The row a report was begun with is never of a later pose than its rest (`RowInv`).

The assumptions are those named in the modules: `AgentAssumption`, `ClientAssumption`,
`OwnAssumption`, `GridAssumption`, `AStarAssumption`, `RrtAssumption`, `RemoteAssumption`, `SensorsAssumption`, `WireAssumption`,
`SessionAssumption`, `ServerAssumption` (types, distinct threads and marks, and
that a plan is not empty, which the planner guarantees: `AStar!ResultIsRoute`).

Only model-checked: everything under fairness (`WaitEnds`, `Terminates`, `PlannersKeepPlanning`, `QuitEnds`, `QuitSpreads`),
which is beyond the prover. Of `Terminates` the part without fairness is proved: a search has no infinite sequence of steps.

## 5. Not modelled

* The command `g` (goal) of `getCommand`, `t` and `m` as commands of a client (`Remote` has them as buttons), and songs:
  they do not touch the state the properties are about.
* The handshake of a connection: id, sensor, velocity and algorithm in one message of at most ten bytes, then the name
  of the grid file; neither is framed, and each side reads once. `Session` starts after it.
* The datagram of the UDP client and `UdpServer`, which stores its two numbers for the display: nothing else reads them,
  and the delay between a value by UDP and its label by TCP has no promise to hold it against.
* In `Wire`, cuts inside a number and numbers of several digits (both change values, not what the properties tell apart);
  in `Session`, a main thread of the server that blocks in `send` of a command (`QuitSpreads` names the client that
  causes it). Of the lines typed at a client, those that begin with their `@`, one for each client; one with text before it is
  read with other third characters. `Scans` takes an `@` behind cut text for two fields, although a report ends without a blank,
  where the code makes one of the two with the last number; no property depends on it, since such a piece is `cut`.
* In `Session`, how planning and crashing depend on each other: `Settle` and `Crash` may come at any moment the robots' places
  allow. `PlannerSigpipe` stands also for the command typed for a client that has left.
* In `Client` and `OwnMode`, two accesses to the path's vector at the same moment, its growth under a reader included.
* Torn reads of a position's row and column other than in the report, and of `goal`.
* `astar_path_decomposed`, which nothing calls. RRT as the server's planner: there `build_rrt` clears the grid the
  planner has marked, which `Rrt` shows for the search alone (`MapComesBackClear`).
* In `Server`, behaviours beyond a mark that hits a wall (constraint `WallsStay`): the mark erases the wall for good.
* In `Remote`, split messages, a `recv` that fails or fills the buffer of 255 bytes, failing writes to the serial port,
  and the rounding of `turnXDegreesInYSeconds` in floating point. FLTK and the robot are external.
* Opening and configuring serial ports and sockets, argument parsing, the loading of maps.
* Use of the agent after its deletion, and references into a vector that has grown (`main.cpp:470`): hazards listed,
  their effects undefined.

## 6. Plan

What is left, in this order:

1. The branch for RRT of `Server`: its planners lose their marks in mid-search, so that `MarksAreExact` has to be stated
   for the search that is under way.
2. A refinement of `Remote` with the network against `Remote` without it, up to dropped messages; the abstract planner as
   a specification `Rrt` implements as well.
