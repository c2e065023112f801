------------------------------ MODULE Session ------------------------------
(***************************************************************************)
(* The server and its clients over their TCP connections: the reports of   *)
(* the clients' update threads, the commands typed at the server, the      *)
(* answers to them, the paths that come in between, the lines typed at the *)
(* clients, and how the processes end: TcpServer::communicate,             *)
(* TcpClient::communicate, and main.                                       *)
(*                                                                         *)
(* What is written to a connection arrives in order, but a recv returns    *)
(* any piece of it: less than a message, or several, of which both sides   *)
(* make what module Wire says, or nothing.  On the way down pieces are     *)
(* whole messages (module Client has the commands in detail).              *)
(***************************************************************************)
EXTENDS Wire

CONSTANTS Clients,
          Poses,        \* bound: the poses a reporting client takes, in this order
          Moving,       \* bound: the clients that move on from the first pose; the
                        \* others report once
          Rows, Columns,  \* of the grid
          Constructed,  \* the view of each agent main constructs: at (-1,-1), the mode
                        \* being what the memory held
          Chosen,       \* the sensor the clients were started with
          Commands,     \* bound: the messages that are sent to each client, besides 'q'
          Lines,        \* bound: the lines typed at each client, their '@' left out
          InUp,         \* bound: the messages each connection carries to the server
          InDown,       \* bound: those it carries to each client
          Cuts,         \* bound: the sizes of the pieces that end inside a message
          MaxOdd        \* bound: those pieces, the lines typed at clients, the messages
                        \* that throw, and the 'q', together

\* The messages to a client: a sensor command, 'q', or any other command or path.
Messages == [type : {"sensor"}, sensor : SensorIds] \cup [type : {"other"}]
Quit == [type |-> "quit"]

ASSUME SessionAssumption ==
  /\ Moving \subseteq Clients
  /\ Commands \in [Clients -> SUBSET Messages]
  /\ Lines \in [Clients -> SUBSET Seq(Int)]
  /\ Poses \in Seq([ROW..MODE -> Int]) /\ Poses # << >>
  /\ \A i \in 1..Len(Poses) : Poses[i][ROW] \in Rows /\ Poses[i][COL] \in Columns
  /\ Rows \subseteq Nat /\ Columns \subseteq Nat
  /\ Constructed \in [Clients -> [ROW..MODE -> Int]]
  /\ \A c \in Clients : \A f \in ROW..GCOL : Constructed[c][f] = -1
  /\ SensorIds \subseteq Nat /\ Chosen \in SensorIds
  /\ InUp \in [Clients -> Nat] /\ InDown \in [Clients -> Nat \ {0}]
  /\ Cuts \in [Clients -> SUBSET Nat] /\ MaxOdd \in Nat

VARIABLES
  cl,      \* each client: its main thread, the report its update thread is at, its agent
  srv,     \* the server's main thread
  known,   \* what the server knows of each client
  settled, \* whether every planner has planned with all robots on the grid
  up,      \* what each client has sent and the server has not read
  down,    \* the messages for each client
  cuts,    \* the reads so far that ended inside a message
  hist     \* history, for each client: whether the server has taken over a report,
           \* whether the view comes from a piece that was cut, whether an answer was
           \* not obeyed, what lines were typed (by their kind), whether it has been
           \* told to quit, whether a message made it throw

sessionVars == <<cl, srv, known, settled, up, down, cuts, hist>>

NoReport == 0

\* What is known of a client that has just connected.
Connected(c) ==
  [view |-> Constructed[c], sensor |-> Chosen, done |-> FALSE, died |-> FALSE]

SessionInit ==
  /\ cl = [c \in Clients |-> [pc |-> "run", pose |-> 1, row |-> NoReport, sensor |-> Chosen]]
  /\ known = [c \in Clients |-> Connected(c)]
  /\ srv = "run"
  /\ settled = FALSE
  /\ up = [c \in Clients |-> << >>]
  /\ down = [c \in Clients |-> << >>]
  /\ cuts = 0
  /\ hist = [c \in Clients |-> [taken |-> FALSE, cut |-> FALSE, missed |-> FALSE,
                               typed |-> {}, told |-> FALSE, threw |-> FALSE]]

Open == srv \in {"run", "done"}
Alive(c) == cl[c].pc \in {"run", "stuck"}

\* What counts against MaxOdd.
Odd == cuts + Cardinality({c \in Clients : hist[c].typed # {}})
            + Cardinality({c \in Clients : hist[c].threw})
            + IF \E c \in Clients : hist[c].told THEN 1 ELSE 0

-----------------------------------------------------------------------------
(* A client's update thread and its robot.                                  *)

\* The robot moves on, or the pose changes otherwise.
Move(c) ==
  /\ Alive(c) /\ c \in Moving /\ cl[c].pose < Len(Poses)
  /\ cl' = [cl EXCEPT ![c].pose = @ + 1]
  /\ UNCHANGED <<srv, known, settled, up, down, cuts, hist>>

\* updateServerAgent reads the row first; the drive thread may assign the
\* position before it reads the rest.
ReadRow(c) ==
  /\ Alive(c) /\ cl[c].row = NoReport
  /\ c \in Moving \/ (~hist[c].taken /\ up[c] = << >>)
  /\ cl' = [cl EXCEPT ![c].row = cl[c].pose]
  /\ UNCHANGED <<srv, known, settled, up, down, cuts, hist>>

Mixed(i, j) == << Poses[i][ROW] >> \o Tail(Poses[j])

SendReport(c) ==
  /\ cl[c].row # NoReport /\ cl[c].pc # "ended"
  /\ Open /\ Headers(up[c]) < InUp[c]
  /\ up' = [up EXCEPT ![c] = @ \o Report(Mixed(cl[c].row, cl[c].pose))]
  /\ cl' = [cl EXCEPT ![c].row = NoReport]
  /\ UNCHANGED <<srv, known, settled, down, cuts, hist>>

\* A client's end takes with it what it has not read.
Leave(c) ==
  /\ cl' = [cl EXCEPT ![c].pc = "ended", ![c].row = NoReport]
  /\ down' = [down EXCEPT ![c] = << >>]

\* A report, or a line, to a server that is gone raises SIGPIPE.
Sigpipe(c) ==
  /\ cl[c].pc # "ended" /\ ~Open
  /\ Leave(c)
  /\ UNCHANGED <<srv, known, settled, up, cuts, hist>>

-----------------------------------------------------------------------------
(* A client's main thread.                                                  *)

\* What a message makes of a client, and its answer: 's' changes the sensor,
\* 'q' ends the client; of the others only 'p' matters here, which may wait for
\* a drive that never ends.
After(c, m) ==
  CASE m.type = "sensor" -> {[cl[c] EXCEPT !.sensor = m.sensor]}
    [] m.type = "quit"   -> {[cl[c] EXCEPT !.pc = "leaving"]}
    [] m.type = "other"  -> {cl[c], [cl[c] EXCEPT !.pc = "stuck"]}

Answer(m) ==
  CASE m.type = "sensor" -> SensorAnswer(m.sensor)
    [] m.type = "quit"   -> QuitAnswer
    [] m.type = "other"  -> << >>

\* A recv with one message in it is obeyed, one with several is dropped.
Obey(c) ==
  /\ cl[c].pc = "run" /\ Open /\ Headers(up[c]) < InUp[c]
  /\ \E n \in 1..Len(down[c]) :
       /\ down' = [down EXCEPT ![c] = SubSeq(@, n + 1, Len(@))]
       /\ IF n = 1
          THEN /\ \E k \in After(c, down[c][1]) : cl' = [cl EXCEPT ![c] = k]
               /\ up' = [up EXCEPT ![c] = @ \o Answer(down[c][1])]
          ELSE UNCHANGED <<cl, up>>
  /\ UNCHANGED <<srv, known, settled, cuts, hist>>

\* The spin's wait for the drive ends, if it does (module Client).
Unstick(c) ==
  /\ cl[c].pc = "stuck"
  /\ cl' = [cl EXCEPT ![c].pc = "run"]
  /\ UNCHANGED <<srv, known, settled, up, down, cuts, hist>>

\* getCommand throws, which ends the client: of a message longer than a recv
\* takes, say, it gets the beginning.
CommandThrows(c) ==
  /\ cl[c].pc = "run" /\ Open /\ down[c] # << >> /\ down[c][1].type = "other"
  /\ Odd < MaxOdd
  /\ Leave(c)
  /\ hist' = [hist EXCEPT ![c].threw = TRUE]
  /\ UNCHANGED <<srv, known, settled, up, cuts>>

\* A line with one '@' in it goes to the server (bounds: one for each client; it
\* begins with '@').
TypeLine(c) ==
  /\ cl[c].pc = "run" /\ Open /\ Headers(up[c]) < InUp[c] /\ hist[c].typed = {} /\ Odd < MaxOdd
  /\ \E line \in Lines[c] :
       /\ up' = [up EXCEPT ![c] = @ \o TypedLine(line)]
       /\ hist' = [hist EXCEPT ![c].typed = {TypedLine(line)[2]}]
  /\ UNCHANGED <<cl, srv, known, settled, down, cuts>>

\* recv returns 0 or fails: the server is gone.
ServerGone(c) ==
  /\ cl[c].pc = "run" /\ ~Open
  /\ cl' = [cl EXCEPT ![c].pc = "leaving"]
  /\ UNCHANGED <<srv, known, settled, up, down, cuts, hist>>

\* main returns, which closes the connection.
End(c) ==
  /\ cl[c].pc = "leaving"
  /\ Leave(c)
  /\ UNCHANGED <<srv, known, settled, up, cuts, hist>>

-----------------------------------------------------------------------------
(* The server's main thread and its planners.                               *)

\* The server's end takes with it what it knows and what it has not read.
Ends(how) ==
  /\ srv' = how
  /\ known' = [c \in Clients |-> Connected(c)]
  /\ up' = [c \in Clients |-> << >>]

\* What one recv may return, and whether it is not whole messages: the piece
\* begins inside one, or ends inside one.
Pieces(c) == {SubSeq(up[c], 1, n) : n \in 1..Len(up[c])}
BeginsInside(piece) == piece[1] # At
EndsInside(piece, c) == Len(piece) < Len(up[c]) /\ up[c][Len(piece) + 1] # At
HasAnswer(piece) == \E i \in 1..(Len(piece) - 1) : piece[i] = At /\ piece[i + 1] = 2

\* recv from a client, and getSendBack.
Serve(c) ==
  /\ Open /\ UNCHANGED <<cl, settled, down>>
  /\ \E piece \in Pieces(c) :
       /\ up' = [up EXCEPT ![c] = SubSeq(@, Len(piece) + 1, Len(@))]
       /\ EndsInside(piece, c) => Len(piece) \in Cuts[c] /\ Odd < MaxOdd
       /\ cuts' = IF EndsInside(piece, c) THEN cuts + 1 ELSE cuts
       /\ \E text \in {Text(piece)}, odd \in {BeginsInside(piece) \/ EndsInside(piece, c)} :
            /\ hist' = [hist EXCEPT
                 ![c].taken = @ \/ Kind(text) = 1,
                 ![c].cut = odd \/ (@ /\ Kind(text) # 1),
                 ![c].missed = odd \/ (HasAnswer(piece) /\ Headers(piece) > 1)
                               \/ (@ /\ Kind(text) # 2)]
            /\ \E k \in GetSendBack(text, known[c]) :
                 /\ known' = [known EXCEPT ![c] = k]
                 /\ srv' = IF k.died THEN "died" ELSE IF k.done THEN "done" ELSE srv

\* recv returns 0 or fails: a client is gone, which ends the server.
ClientGone(c) ==
  /\ Open /\ cl[c].pc = "ended" /\ up[c] = << >>
  /\ srv' = "done"
  /\ UNCHANGED <<cl, known, settled, up, down, cuts, hist>>

\* The robots whose view places them on the grid: a planner marks them there, and
\* anywhere else crashes the server, as the display does that shows a robot
\* before its planner has planned (module Server).
OnGrid(view) == view[ROW] \in Rows /\ view[COL] \in Columns

Settle ==
  /\ Open /\ ~settled /\ \A c \in Clients : OnGrid(known[c].view)
  /\ settled' = TRUE
  /\ UNCHANGED <<cl, srv, known, up, down, cuts, hist>>

Crash ==
  /\ Open /\ (~settled \/ \E c \in Clients : ~OnGrid(known[c].view))
  /\ Ends("crashed")
  /\ UNCHANGED <<cl, settled, down, cuts, hist>>

\* A command typed for one client, or a path a planner sends it
\* (bound: while none is on the way).
Send(c) ==
  /\ Open /\ cl[c].pc # "ended" /\ down[c] = << >>
  /\ \E m \in Commands[c] :
       /\ m.type = "sensor" => srv = "run"
       /\ down' = [down EXCEPT ![c] = Append(@, m)]
  /\ UNCHANGED <<cl, srv, known, settled, up, cuts, hist>>

\* 'q' goes to all clients (bound: it is typed once).
TypeQuit ==
  /\ srv = "run" /\ \A c \in Clients : ~hist[c].told /\ Len(down[c]) < InDown[c]
  /\ Odd < MaxOdd
  /\ down' = [c \in Clients |-> IF cl[c].pc = "ended" THEN << >> ELSE Append(down[c], Quit)]
  /\ hist' = [c \in Clients |-> [hist[c] EXCEPT !.told = TRUE]]
  /\ UNCHANGED <<cl, srv, known, settled, up, cuts>>

\* To a client that is gone a path, or a command typed for it, raises SIGPIPE.
PlannerSigpipe(c) ==
  /\ Open /\ cl[c].pc = "ended"
  /\ Ends("died")
  /\ UNCHANGED <<cl, settled, down, cuts, hist>>

\* Variant with a bug: main first waits for the clients to leave.
Exit_Waits ==
  /\ srv = "done" /\ \A c \in Clients : cl[c].pc = "ended"
  /\ Ends("exited")
  /\ UNCHANGED <<cl, settled, down, cuts, hist>>

\* main returns.
Exit ==
  /\ srv = "done"
  /\ Ends("exited")
  /\ UNCHANGED <<cl, settled, down, cuts, hist>>

-----------------------------------------------------------------------------
ClientNext(c) ==
  \/ Move(c) \/ ReadRow(c) \/ SendReport(c) \/ Sigpipe(c)
  \/ Obey(c) \/ Unstick(c) \/ CommandThrows(c) \/ TypeLine(c) \/ ServerGone(c) \/ End(c)

ServerNext ==
  \/ \E c \in Clients :
       \/ Serve(c) \/ ClientGone(c) \/ Send(c) \/ PlannerSigpipe(c)
  \/ TypeQuit \/ Settle \/ Crash \/ Exit

SessionNext == ServerNext \/ \E c \in Clients : ClientNext(c)

SessionSpec == SessionInit /\ [][SessionNext]_sessionVars

(* A thread that can run keeps running, and the server's loop gets to every *)
(* client whose connection has something to read: weak fairness of          *)
(* Serve(c) \/ ClientGone(c), with what enables it written out, and the      *)
(* steps by what only they and the server's end do.                         *)
ToServe(c) == Open /\ (up[c] # << >> \/ (cl[c].pc = "ended" /\ srv = "run"))

FairSpec ==
  /\ SessionSpec
  /\ \A c \in Clients :
       /\ WF_sessionVars(Sigpipe(c) \/ ServerGone(c) \/ End(c))
       /\ \/ []<>~ToServe(c)
          \/ []<><<Len(up[c]') < Len(up[c]) \/ srv' # srv>>_sessionVars
  /\ WF_sessionVars(Exit)

-----------------------------------------------------------------------------
(* Properties.                                                              *)

View == [ROW..MODE -> Int]

\* Every variable stays in its range: whatever pieces are read, the sensor the
\* server shows a client with is one there is.
SessionTypeOK ==
  /\ cl \in [Clients -> [pc : {"run", "stuck", "leaving", "ended"}, pose : 1..Len(Poses),
                         row : 0..Len(Poses), sensor : SensorIds]]
  /\ srv \in {"run", "done", "exited", "died", "crashed"} /\ settled \in BOOLEAN
  /\ \A c \in Clients :
       /\ known[c].view \in View /\ known[c].sensor \in SensorIds
       /\ Headers(up[c]) <= InUp[c] /\ Len(down[c]) <= InDown[c]
  /\ cuts \in Nat

\* The fields of a pose up to the first one the server cannot read: a sign that
\* it does not expect, or a mode it does not know.
Legible(p, f) ==
  /\ \A g \in (ROW..f) \ {DV, MODE} : p[g] >= 0
  /\ f = MODE => p[f] \in Modes

(* Until the server takes over a report, its view of a client is the one     *)
(* main constructed.  From then on, unless the last update came from a piece *)
(* that began or ended inside a message, or a report was typed, what the     *)
(* server shows of a client is, field by field up to the first one it cannot *)
(* read, what one report said: the row of one pose of the client and the     *)
(* rest of the same or a later one (updateServerAgent composes the report    *)
(* while stepPath moves on, getSendBack takes it apart, and reads that join  *)
(* reports lose them whole).                                                 *)
Explained(view) ==
  \E i, j \in 1..Len(Poses) : i <= j /\
    \A f \in ROW..MODE : Legible(Mixed(i, j), f) => view[f] = Mixed(i, j)[f]

ViewExplained ==
  \A c \in Clients : Open /\ ~hist[c].cut /\ 1 \notin hist[c].typed =>
    IF hist[c].taken THEN Explained(known[c].view)
    ELSE known[c].view = Constructed[c]

(* Unless an answer was lost in a piece that was joined or cut, or one was   *)
(* typed at the client, the label the server shows the sensor with is, once  *)
(* it has read the answers on the way, the sensor the client sends the       *)
(* values of.                                                                *)
LastAnswer(c) ==
  LET at == {i \in 1..(Len(up[c]) - 1) : up[c][i] = At /\ up[c][i + 1] = 2}
  IN  IF at = {} THEN known[c].sensor
      ELSE up[c][(CHOOSE i \in at : \A j \in at : j <= i) + 2]

LabelFollows ==
  \A c \in Clients : Open /\ ~hist[c].missed /\ 2 \notin hist[c].typed =>
    LastAnswer(c) = cl[c].sensor

(* The server ends only because 'q' was typed for the clients, a client      *)
(* died of a message, a report or a '5' was typed at one, a recv ended       *)
(* inside a message, or it was at its start: as long as the reads return     *)
(* whole messages, however many at a time, none makes getSendBack throw, is  *)
(* taken for 'q', or takes a robot off the grid once all have been on it.    *)
EndsForAReason ==
  srv # "run" =>
    \/ cuts > 0
    \/ \E c \in Clients : hist[c].told \/ hist[c].threw \/ hist[c].typed \cap {1, 5} # {}
    \/ srv = "crashed" /\ ~settled

(* One client that ends takes every process with it, by the answer to 'q',   *)
(* by its closed connection, or by SIGPIPE, unless a client waits for a      *)
(* drive that does not end: its connection fills up, and the server's main   *)
(* thread may block sending it the 'q'.                                      *)
QuitSpreads ==
  \A c \in Clients :
    cl[c].pc \in {"leaving", "ended"} ~>
      \/ ~Open /\ \A d \in Clients : cl[d].pc = "ended"
      \/ \E d \in Clients : cl[d].pc = "stuck"
=============================================================================
