-------------------------------- MODULE Remote --------------------------------
(***************************************************************************)
(* The graphical remote control (--gui).  The buttons of GUIWindow either  *)
(* call the robot directly (a window on the robot's own computer) or send  *)
(* a message to a client, which reads messages in get_gui_command and      *)
(* makes the call.                                                         *)
(*                                                                         *)
(* The connection delivers messages in order, each as a whole (they are a  *)
(* few bytes).  One recv of the client returns what has arrived by then;   *)
(* get_gui_command obeys it if it is exactly one message, and drops all of *)
(* it if it is more.  While the robot makes a timed turn the client        *)
(* sleeps, and messages pile up.                                           *)
(*                                                                         *)
(* Writes to the serial port succeed, and the robot obeys: it is external, *)
(* as are the buttons' fields, which may hold any number or none.          *)
(***************************************************************************)
EXTENDS Integers, Sequences

CONSTANTS Buttons,     \* what the user may press: a button and its fields
          MaxPresses   \* bound: how often the user presses a button

Ops == {"full", "safe", "stop", "drive", "turn", "turnCW", "turnCCW", "leds",
        "toggle", "choice", "quit"}
Items == 0..34   \* of the sensor menu
NoItem == -1
Unset == 0       \* stands for the value of a field nobody has set

Fields(op) == CASE op = "drive" -> 2
                [] op = "turn" -> 3
                [] op \in {"turnCW", "turnCCW", "choice"} -> 1
                [] op = "leds" -> 4
                [] OTHER -> 0

\* A field is empty or holds a number.
ASSUME RemoteAssumption ==
  /\ \A b \in Buttons :
       /\ b.op \in Ops /\ b = [op |-> b.op, fields |-> b.fields]
       /\ b.fields \in Seq(Seq(Int)) /\ Len(b.fields) = Fields(b.op)
       /\ \A i \in 1..Len(b.fields) : Len(b.fields[i]) <= 1
       /\ b.op = "choice" => \E i \in Items : b.fields = << <<i>> >>
  /\ MaxPresses \in Nat

VARIABLES
  network,   \* GUIWindow::network
  window,    \* "shown", or "closed"
  presses,   \* how many buttons have been pressed
  wire,      \* the connection, window to client: messages not yet received
  peer,      \* the connection's other end, as the client sees it
  pc,        \* where the client is; without network, the window's own thread
  in,        \* the messages the last recv returned
  wheels,    \* the robot: the velocity and the radius it drives with
  stream,    \* the robot: does it stream its sensors
  flag,      \* Robot::sensorsstreaming
  lit,       \* the robot: is any LED on
  sensor,    \* Agent::currentSensor
  move,      \* history: the last call pressed that sets the wheels, its fate
  item       \* history: the item of the sensor menu that was obeyed last

vars == <<network, window, presses, wire, peer, pc, in, wheels, stream, flag,
          lit, sensor, move, item>>

connection == <<network, window, presses, wire, peer>>
lights == <<stream, flag, lit>>
choice == <<sensor, item>>

-----------------------------------------------------------------------------
(* Robot: motion commands are five bytes on the serial port.                 *)

\* The high and the low byte of v, as getHighAndLowByte computes them.
Bytes(v) == [high |-> (v \div 256) % 256, low |-> v % 256]

\* How the robot reads two bytes.
Value(b) == ((256 * b.high + b.low + 32768) % 65536) - 32768

Straight == 32767
Rest == [velocity |-> 0, radius |-> 0]

(* drive(v, r) keeps two pointers to the static array getHighAndLowByte      *)
(* returns, and reads both after the second call.                            *)
DriveCommand(v, r) ==
  LET shared == Bytes(r) IN [velocity |-> Value(shared), radius |-> Value(shared)]

DriveStraight(v) == [velocity |-> Value(Bytes(v)), radius |-> Straight]
TurnClockwise(v) == [velocity |-> Value(Bytes(v)), radius |-> -1]
TurnCounterClockwise(v) == [velocity |-> Value(Bytes(v)), radius |-> 1]

\* Variant with a bug: the sign of the velocity is not considered.
TurnCommand_Forward(degree, v) ==
  IF degree < 0 THEN TurnClockwise(v) ELSE TurnCounterClockwise(v)

\* turnXDegrees: a negative angle and a negative velocity cancel.
TurnCommand(degree, v) ==
  IF (degree < 0) # (v < 0) THEN TurnClockwise(v) ELSE TurnCounterClockwise(v)

(* turnXDegreesInYSeconds: 440 mm are half a turn; the velocity is truncated *)
(* to an integer (its rounding in floating point is not modelled).           *)
SpeedFor(degree, seconds) == (degree * 440) \div (180 * seconds)

-----------------------------------------------------------------------------
(* From a button to a call of Robot.                                         *)

Atoi(field) == IF field = << >> THEN 0 ELSE field[1]
Args(b) == [i \in 1..Len(b.fields) |-> Atoi(b.fields[i])]

Call(op, args) == [op |-> op, args |-> args]

\* Without network, cb_drive_i asks whether the radius field holds anything,
\* and cb_turn_i whether the seconds are 0.
WindowCall(b) ==
  LET a == Args(b) IN
  CASE b.op = "drive" ->
         IF b.fields[2] # << >> THEN Call("drive", a) ELSE Call("straight", <<a[1]>>)
    [] b.op = "turn" ->
         IF a[3] = 0 THEN Call("turnX", <<a[1], a[2]>>) ELSE Call("turnIn", <<a[1], a[3]>>)
    [] OTHER -> Call(b.op, a)

\* An empty field is sent as 0; get_gui_command asks for a radius that is not 0
\* and for seconds, read without a sign, that are positive.
ClientCall(b) ==
  LET a == Args(b) IN
  CASE b.op = "drive" ->
         IF a[2] # 0 THEN Call("drive", a) ELSE Call("straight", <<a[1]>>)
    [] b.op = "turn" ->
         IF a[3] > 0 THEN Call("turnIn", <<a[1], a[3]>>) ELSE Call("turnX", <<a[1], a[2]>>)
    [] OTHER -> Call(b.op, a)

\* turnXDegrees and turnXDegreesInYSeconds do nothing unless they can turn.
Turns(c) ==
  \/ c.op = "turnX" /\ c.args[1] # 0 /\ c.args[2] # 0
  \/ c.op = "turnIn" /\ c.args[1] > 0 /\ c.args[2] > 0
SetsWheels(c) ==
  c.op \in {"stop", "drive", "straight", "turnCW", "turnCCW", "quit"} \/ Turns(c)

\* The sensor the label of a menu item names (robot_driver_utility.h).
Named(i) == IF i < 8 THEN i + 7 ELSE IF i = 8 THEN 14 ELSE i + 8

\* Variant with a bug: the items are one off.
SensorOf_Next(i) == Named(i) + 1

\* The case of item 23, Cliff_Right_Signal, falls through to the next.
SensorOf(i) == IF i = 23 THEN Named(24) ELSE Named(i)

-----------------------------------------------------------------------------
(* The calls.  Each is made with the thread at "ready" or "parse".           *)

Mode(c) ==
  /\ c.op \in {"full", "safe"}
  /\ pc' = "waiting" /\ UNCHANGED <<wheels, lights, choice>>

\* stop, drive, drive_straight, turnClockwise and turnCounterClockwise.
Drive(c) ==
  /\ \/ c.op = "stop" /\ wheels' = Rest
     \/ c.op = "drive" /\ wheels' = DriveCommand(c.args[1], c.args[2])
     \/ c.op = "straight" /\ wheels' = DriveStraight(c.args[1])
     \/ c.op = "turnCW" /\ wheels' = TurnClockwise(c.args[1])
     \/ c.op = "turnCCW" /\ wheels' = TurnCounterClockwise(c.args[1])
  /\ pc' = "ready" /\ UNCHANGED <<lights, choice>>

\* Begin a timed turn and sleep.
Turn(c) ==
  /\ Turns(c)
  /\ \/ c.op = "turnX" /\ wheels' = TurnCommand(c.args[1], c.args[2])
     \/ c.op = "turnIn" /\ wheels' = TurnCounterClockwise(SpeedFor(c.args[1], c.args[2]))
  /\ pc' = "turning" /\ UNCHANGED <<lights, choice>>

NoTurn(c) ==
  /\ c.op \in {"turnX", "turnIn"} /\ ~Turns(c)
  /\ pc' = "ready" /\ UNCHANGED <<wheels, lights, choice>>

\* args: play, advance, color, intensity.
Leds(c) ==
  /\ c.op = "leds"
  /\ lit' = (c.args[1] = 1 \/ c.args[2] = 1 \/ c.args[4] # 0)
  /\ pc' = "ready" /\ UNCHANGED <<wheels, stream, flag, choice>>

\* Variant with a bug: the byte is chosen after the flag has been inverted.
Toggle_FlagFirst(c) ==
  /\ c.op = "toggle"
  /\ flag' = ~flag /\ stream' = flag
  /\ pc' = "ready" /\ UNCHANGED <<wheels, lit, choice>>

Toggle(c) ==
  /\ c.op = "toggle"
  /\ flag' = ~flag /\ stream' = ~flag
  /\ pc' = "ready" /\ UNCHANGED <<wheels, lit, choice>>

Choose(c) ==
  /\ c.op = "choice"
  /\ sensor' = SensorOf(c.args[1]) /\ item' = c.args[1]
  /\ pc' = "ready" /\ UNCHANGED <<wheels, lights>>

\* Variant with a bug: done is not set.
Quit_NotDone(c) ==
  /\ c.op = "quit"
  /\ wheels' = Rest
  /\ flag' = FALSE /\ stream' = (stream /\ ~flag)
  /\ lit' = FALSE
  /\ pc' = "ready" /\ UNCHANGED choice

\* stop, pauseSensorStream, which asks the flag, and leds; then it is done.
Quit(c) ==
  /\ c.op = "quit"
  /\ wheels' = Rest
  /\ flag' = FALSE /\ stream' = (stream /\ ~flag)
  /\ lit' = FALSE
  /\ pc' = "ended" /\ UNCHANGED choice

Do(c) ==
  Mode(c) \/ Drive(c) \/ Turn(c) \/ NoTurn(c) \/ Leds(c) \/ Toggle(c)
          \/ Choose(c) \/ Quit(c)

\* The sleep of a timed turn is over: stop().
EndTurn ==
  /\ pc = "turning"
  /\ wheels' = Rest /\ pc' = "ready"
  /\ UNCHANGED <<connection, in, lights, choice, move>>

\* The second's sleep of fullMode or safeMode is over.
Wake ==
  /\ pc = "waiting"
  /\ pc' = "ready"
  /\ UNCHANGED <<connection, in, wheels, lights, choice, move>>

-----------------------------------------------------------------------------
Init ==
  /\ network \in BOOLEAN
  /\ window = "shown" /\ presses = 0
  /\ wire = << >> /\ peer = "open"
  /\ pc = "ready" /\ in = << >>
  /\ wheels = Rest /\ lit = FALSE
  /\ stream = TRUE /\ flag = TRUE          \* streamSensors()
  /\ sensor = IF network THEN 35 ELSE Unset
  /\ move = [n |-> 0, call |-> Call("stop", << >>), fate |-> "obeyed"]
  /\ item = NoItem

\* A press of button b that makes call c ends the window if it is quit.
Pressed(b, c, fate) ==
  /\ window = "shown" /\ presses < MaxPresses
  /\ presses' = presses + 1
  /\ window' = IF b.op = "quit" THEN "closed" ELSE "shown"
  /\ move' = IF SetsWheels(c) THEN [n |-> presses', call |-> c, fate |-> fate]
                              ELSE move

\* With network the callback sends a message to the client.
Send ==
  /\ network
  /\ \E b \in Buttons :
       /\ Pressed(b, ClientCall(b), "sent")
       /\ wire' = Append(wire, [n |-> presses', button |-> b])
  /\ UNCHANGED <<network, peer, pc, in, wheels, lights, choice>>

\* Without, it calls the robot.
Press ==
  /\ ~network /\ pc = "ready"
  /\ \E b \in Buttons :
       Pressed(b, WindowCall(b), "obeyed") /\ Do(WindowCall(b))
  /\ UNCHANGED <<network, wire, peer, in>>

\* The window is closed, or the program killed, without its quit button.
Close ==
  /\ window = "shown" /\ (network \/ pc = "ready")
  /\ window' = "closed"
  /\ pc' = IF network THEN pc ELSE "ended"
  /\ UNCHANGED <<network, presses, wire, peer, in, wheels, lights, choice, move>>

\* Fl::run returns when no window is shown, and the server exits.
ServerExits ==
  /\ network /\ window = "closed" /\ peer = "open"
  /\ peer' = "closed"
  /\ UNCHANGED <<network, window, presses, wire, pc, in, wheels, lights, choice, move>>

(* recv: what has arrived, one message or more.  Once the connection is      *)
(* closed it returns at once, with nothing.                                  *)
Recv ==
  /\ network /\ pc = "ready"
  /\ \/ \E k \in 1..Len(wire) :
          in' = SubSeq(wire, 1, k) /\ wire' = SubSeq(wire, k + 1, Len(wire))
     \/ wire = << >> /\ peer = "closed" /\ in' = << >> /\ UNCHANGED wire
  /\ pc' = "parse"
  /\ UNCHANGED <<network, window, presses, peer, wheels, lights, choice, move>>

\* get_gui_command, one header in the buffer.
Obey ==
  /\ pc = "parse" /\ Len(in) = 1
  /\ Do(ClientCall(in[1].button))
  /\ in' = << >>
  /\ move' = IF move.n = in[1].n THEN [move EXCEPT !.fate = "obeyed"] ELSE move
  /\ UNCHANGED connection

\* Variant: a recv that returns nothing ends the client.
Ignore_Ends ==
  /\ pc = "parse" /\ Len(in) # 1
  /\ in' = << >> /\ pc' = IF in = << >> THEN "ended" ELSE "ready"
  /\ move' = IF \E i \in 1..Len(in) : in[i].n = move.n
             THEN [move EXCEPT !.fate = "dropped"] ELSE move
  /\ UNCHANGED <<connection, wheels, lights, choice>>

\* More headers, or none.
Ignore ==
  /\ pc = "parse" /\ Len(in) # 1
  /\ in' = << >> /\ pc' = "ready"
  /\ move' = IF \E i \in 1..Len(in) : in[i].n = move.n
             THEN [move EXCEPT !.fate = "dropped"] ELSE move
  /\ UNCHANGED <<connection, wheels, lights, choice>>

Thread == Recv \/ Obey \/ Ignore \/ EndTurn \/ Wake
Next == Thread \/ Send \/ Press \/ Close \/ ServerExits

Spec == Init /\ [][Next]_vars

(* The client's thread runs, and the sleeps end; the user need do nothing,   *)
(* and the server may take as long as it likes to exit.                      *)
FairSpec == Spec /\ WF_vars(Thread)

-----------------------------------------------------------------------------
(* Properties.                                                              *)

Words == { w \in Int : -32768 <= w /\ w <= 32767 }
Command == [velocity : Words, radius : Words]
Calls == [op : Ops \cup {"straight", "turnX", "turnIn"}, args : Seq(Int)]
Messages == [n : 1..MaxPresses, button : Buttons]

\* Every variable stays in its range.
TypeOK ==
  /\ network \in BOOLEAN /\ window \in {"shown", "closed"}
  /\ presses \in 0..MaxPresses
  /\ wire \in Seq(Messages) /\ peer \in {"open", "closed"}
  /\ pc \in {"ready", "parse", "turning", "waiting", "ended"}
  /\ in \in Seq(Messages)
  /\ wheels \in Command
  /\ stream \in BOOLEAN /\ flag \in BOOLEAN /\ lit \in BOOLEAN
  /\ sensor \in {Unset} \cup 7..42 /\ item \in {NoItem} \cup Items
  /\ move \in [n : 0..MaxPresses, call : Calls, fate : {"sent", "obeyed", "dropped"}]

\* Equal in the sixteen bits the robot is sent.
Same(x, y) == (x - y) % 65536 = 0

\* What the comments of robot.h say the wheels do after a call.
Promised(c, w) ==
  /\ c.op \in {"stop", "quit", "turnX", "turnIn"} => w = Rest
  /\ c.op = "straight" => Same(w.velocity, c.args[1]) /\ w.radius = Straight
  /\ c.op = "drive" => Same(w.velocity, c.args[1]) /\ Same(w.radius, c.args[2])
  /\ c.op = "turnCW" => Same(w.velocity, c.args[1]) /\ w.radius = -1
  /\ c.op = "turnCCW" => Same(w.velocity, c.args[1]) /\ w.radius = 1

\* The sense of a turn, counterclockwise positive.
Sense(w) == w.velocity * w.radius

(* The wheels do what was pressed last, unless that message is under way or  *)
(* was dropped, whatever was pressed and dropped before: after a timed turn  *)
(* they rest; during it they turn the right way, at the velocities robot.h   *)
(* admits; but a drive at a radius is another matter (DrivesAsAsked).  The   *)
(* sensor is the one the menu names, except for Cliff_Right_Signal.          *)
Follows ==
  /\ move.fate = "obeyed" /\ pc # "turning" /\ move.call.op # "drive"
       => Promised(move.call, wheels)
  /\ move.fate = "obeyed" /\ pc = "turning" =>
       \/ /\ move.call.op = "turnX"
          /\ -500 <= move.call.args[2] /\ move.call.args[2] <= 500
               => (move.call.args[1] < 0 <=> Sense(wheels) < 0)
       \/ move.call.op = "turnIn"
  /\ item \notin {NoItem, 23} => sensor = Named(item)

(* Once the quit button has been obeyed the robot is left at rest, with its  *)
(* lights and its stream off, however often the stream has been toggled.     *)
EndsAtRest ==
  move.call.op = "quit" /\ move.fate = "obeyed" =>
    pc = "ended" /\ wheels = Rest /\ ~stream /\ ~lit

(* The quit button ends the client, unless its message reached it together   *)
(* with an earlier one; then the client goes on, and so does the robot.      *)
QuitEnds ==
  (move.call.op = "quit" /\ move.fate = "sent")
    ~> (pc = "ended" \/ move.fate = "dropped")

(* A client whose server is gone, and that has nothing left to read, reads   *)
(* nothing for ever: it never ends, and what the robot does it does for good.*)
Orphan ==
  /\ network /\ peer = "closed"
  /\ wire = << >> /\ in = << >> /\ pc \in {"ready", "parse"}
OrphanForEver ==
  [][Orphan => Orphan' /\ UNCHANGED <<wheels, stream, lit>>]_vars

\* drive "drives the robot at a given velocity and radius".
DrivesAsAsked ==
  move.fate = "obeyed" /\ pc # "turning" /\ move.call.op = "drive"
    => Promised(move.call, wheels)
=============================================================================
