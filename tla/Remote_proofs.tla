---------------------------- MODULE Remote_proofs ----------------------------
(* Theorems about Remote, for every set of buttons and fields.              *)
EXTENDS Remote, TLAPS

-----------------------------------------------------------------------------
(* Bytes and calls.                                                         *)

(* Two bytes hold a number in sixteen bits, and exactly if it fits them.     *)
LEMMA ByteValue ==
  ASSUME NEW v \in Int
  PROVE  /\ Value(Bytes(v)) \in Words
         /\ Same(Value(Bytes(v)), v)
         /\ v \in Words => Value(Bytes(v)) = v
<1> DEFINE q == v \div 256
<1>1. q \in Int /\ v = 256 * q + (v % 256)
  BY SMT
<1>2. (q \div 256) \in Int /\ q = 256 * (q \div 256) + (q % 256)
  BY <1>1, SMT
<1>3. PICK k \in Int : 256 * (q % 256) + (v % 256) = v - 65536 * k
  <2>1. 256 * (q % 256) + (v % 256) = v - 65536 * (q \div 256)
    BY <1>1, <1>2, SMT
  <2> QED BY <1>2, <2>1
<1>4. PICK y \in Int : y = v - 65536 * k + 32768 /\ Value(Bytes(v)) = (y % 65536) - 32768
  BY <1>3 DEF Value, Bytes
<1>5. (y % 65536) - 32768 \in Words
  BY SMT DEF Words
<1>6. ((y % 65536) - 32768 - v) % 65536 = 0
  BY <1>4, SMT
<1>7. v \in Words => (y % 65536) - 32768 = v
  <2>1. SUFFICES ASSUME v >= -32768, v <= 32767
                 PROVE  (y % 65536) = v + 32768
    BY SMT DEF Words
  <2>2. y = v - 65536 * k + 32768
    BY <1>4
  <2> QED BY <2>1, <2>2, SMT
<1> QED BY <1>4, <1>5, <1>6, <1>7 DEF Same

\* What a call must bring along to be made.
GoodCall(c) ==
  /\ c \in Calls
  /\ c.op \in {"drive", "turnX", "turnIn"} => c.args[1] \in Int /\ c.args[2] \in Int
  /\ c.op \in {"straight", "turnCW", "turnCCW"} => c.args[1] \in Int
  /\ c.op = "choice" => c.args[1] \in Items

LEMMA ArgsAreIntegers ==
  ASSUME NEW b \in Buttons
  PROVE  /\ Args(b) \in Seq(Int) /\ Len(Args(b)) = Fields(b.op)
         /\ \A i \in 1..Fields(b.op) : Args(b)[i] \in Int
         /\ b.op = "choice" => Args(b)[1] \in Items
<1>1. /\ b.fields \in Seq(Seq(Int)) /\ Len(b.fields) = Fields(b.op)
      /\ \A i \in 1..Len(b.fields) : Len(b.fields[i]) <= 1
      /\ b.op = "choice" => \E i \in Items : b.fields = << <<i>> >>
      /\ b.op \in Ops
  BY RemoteAssumption
<1>2. \A f \in Seq(Int) : Atoi(f) \in Int
  BY DEF Atoi
<1>3. \A i \in 1..Len(b.fields) : Atoi(b.fields[i]) \in Int
  BY <1>1, <1>2
<1>4. Fields(b.op) \in Nat
  BY <1>1
<1>5. Args(b) \in Seq(Int) /\ Len(Args(b)) = Fields(b.op)
      /\ \A i \in 1..Fields(b.op) : Args(b)[i] \in Int
  BY <1>1, <1>3, <1>4 DEF Args
<1>6. ASSUME b.op = "choice"
      PROVE  Args(b)[1] \in Items
  <2>1. PICK i \in Items : b.fields = << <<i>> >>
    BY <1>1, <1>6
  <2>2. Len(b.fields) = 1 /\ b.fields[1] = <<i>>
    BY <2>1
  <2>3. Args(b)[1] = Atoi(<<i>>)
    BY <2>2 DEF Args
  <2>4. <<i>> # << >> /\ <<i>>[1] = i
    OBVIOUS
  <2> QED BY <2>1, <2>3, <2>4 DEF Atoi
<1> QED BY <1>5, <1>6

LEMMA CallsAreGood ==
  ASSUME NEW b \in Buttons
  PROVE  GoodCall(WindowCall(b)) /\ GoodCall(ClientCall(b))
<1> DEFINE a == Args(b)
<1>0. b.op \in Ops
  BY RemoteAssumption
<1>1. a \in Seq(Int)
  BY ArgsAreIntegers
<1>2. CASE b.op = "drive"
  <2>1. Fields(b.op) = 2
    BY <1>2 DEF Fields
  <2>2. a[1] \in Int /\ a[2] \in Int
    BY <2>1, ArgsAreIntegers
  <2> QED BY <1>1, <1>2, <2>2 DEF WindowCall, ClientCall, GoodCall, Calls, Call, Ops
<1>3. CASE b.op = "turn"
  <2>1. Fields(b.op) = 3
    BY <1>3 DEF Fields
  <2>2. a[1] \in Int /\ a[2] \in Int /\ a[3] \in Int
    BY <2>1, ArgsAreIntegers
  <2> QED BY <1>1, <1>3, <2>2 DEF WindowCall, ClientCall, GoodCall, Calls, Call, Ops
<1>4. CASE b.op \notin {"drive", "turn"}
  <2>1. WindowCall(b) = Call(b.op, a) /\ ClientCall(b) = Call(b.op, a)
    BY <1>4 DEF WindowCall, ClientCall
  <2>2. b.op \in {"turnCW", "turnCCW"} => a[1] \in Int
    <3>1. b.op \in {"turnCW", "turnCCW"} => Fields(b.op) = 1
      BY DEF Fields
    <3> QED BY <3>1, ArgsAreIntegers
  <2>3. b.op = "choice" => a[1] \in Items
    BY ArgsAreIntegers
  <2>4. b.op \notin {"turnX", "turnIn", "straight"}
    BY <1>0 DEF Ops
  <2> QED BY <1>0, <1>1, <1>4, <2>1, <2>2, <2>3, <2>4 DEF GoodCall, Calls, Call
<1> QED BY <1>2, <1>3, <1>4

(* The wheels as every motion command sets them are a command of the robot.  *)
LEMMA CommandsAreCommands ==
  ASSUME NEW v \in Int, NEW r \in Int
  PROVE  /\ DriveCommand(v, r) \in Command
         /\ DriveStraight(v) \in Command
         /\ TurnClockwise(v) \in Command
         /\ TurnCounterClockwise(v) \in Command
         /\ TurnCommand(r, v) \in Command
         /\ Rest \in Command
<1>1. Value(Bytes(v)) \in Words /\ Value(Bytes(r)) \in Words
  BY ByteValue
<1>2. Straight \in Words /\ -1 \in Words /\ 1 \in Words /\ 0 \in Words
  BY DEF Straight, Words
<1> QED BY <1>1, <1>2 DEF DriveCommand, DriveStraight, TurnClockwise,
          TurnCounterClockwise, TurnCommand, Rest, Command

-----------------------------------------------------------------------------
(* What a call does.                                                        *)

Sensors == {Unset} \cup 7..42
MenuItems == {NoItem} \cup Items

LEMMA SensorsAreSensors ==
  ASSUME NEW i \in Items
  PROVE  SensorOf(i) \in Sensors /\ (i # 23 => SensorOf(i) = Named(i))
  BY SMT DEF Items, SensorOf, Named, Sensors

\* TypeOK for the variables a call may change.
RobotOK ==
  /\ pc \in {"ready", "parse", "turning", "waiting", "ended"}
  /\ wheels \in Command
  /\ stream \in BOOLEAN /\ flag \in BOOLEAN /\ lit \in BOOLEAN
  /\ sensor \in Sensors /\ item \in MenuItems

LEMMA CallsKeepTypes ==
  ASSUME RobotOK, NEW c, GoodCall(c), Do(c)
  PROVE  RobotOK'
<1> USE DEF RobotOK
<1>1. CASE Mode(c)
  BY <1>1 DEF Mode, lights, choice
<1>2. CASE Drive(c)
  <2>1. wheels' \in Command
    BY <1>2, CommandsAreCommands DEF Drive, GoodCall
  <2> QED BY <1>2, <2>1 DEF Drive, lights, choice
<1>3. CASE Turn(c)
  <2>1. wheels' \in Command
    <3>1. CASE c.op = "turnX"
      BY <1>3, <3>1, CommandsAreCommands DEF Turn, GoodCall
    <3>2. CASE c.op = "turnIn"
      <4>1. c.args[1] \in Int /\ c.args[2] \in Int /\ c.args[2] > 0
        BY <1>3, <3>2 DEF Turn, Turns, GoodCall
      <4>2. PICK s \in Int : s = SpeedFor(c.args[1], c.args[2])
        <5>1. PICK x \in Int, y \in Int : x = c.args[1] * 440 /\ y = 180 * c.args[2] /\ y > 0
          BY <4>1
        <5>2. x \div y \in Int
          BY <5>1, SMT
        <5> QED BY <5>1, <5>2 DEF SpeedFor
      <4> QED BY <1>3, <3>2, <4>2, CommandsAreCommands DEF Turn
    <3> QED BY <1>3, <3>1, <3>2 DEF Turn
  <2> QED BY <1>3, <2>1 DEF Turn, lights, choice
<1>4. CASE NoTurn(c)
  BY <1>4 DEF NoTurn, lights, choice
<1>5. CASE Leds(c)
  BY <1>5 DEF Leds, choice
<1>6. CASE Toggle(c)
  BY <1>6 DEF Toggle, choice
<1>7. CASE Choose(c)
  <2>1. c.args[1] \in Items
    BY <1>7 DEF Choose, GoodCall
  <2> QED BY <1>7, <2>1, SensorsAreSensors DEF Choose, lights, MenuItems
<1>8. CASE Quit(c)
  <2>1. Rest \in Command
    BY CommandsAreCommands
  <2> QED BY <1>8, <2>1 DEF Quit, choice
<1> QED BY <1>1, <1>2, <1>3, <1>4, <1>5, <1>6, <1>7, <1>8 DEF Do

\* The second conjunct of Follows, for the call c.
Turning(c) ==
  \/ c.op = "turnX" /\ (-500 <= c.args[2] /\ c.args[2] <= 500
                         => (c.args[1] < 0 <=> Sense(wheels) < 0))
  \/ c.op = "turnIn"

LEMMA CallsSetWheels ==
  ASSUME NEW c, GoodCall(c), Do(c)
  PROVE  /\ ~SetsWheels(c) => wheels' = wheels /\ pc' # "turning"
         /\ SetsWheels(c) /\ c.op # "drive" /\ pc' # "turning" => Promised(c, wheels')
         /\ pc' = "turning" => Turning(c)'
<1>1. CASE Mode(c) \/ NoTurn(c) \/ Leds(c) \/ Toggle(c) \/ Choose(c)
  BY <1>1 DEF Mode, NoTurn, Leds, Toggle, Choose, SetsWheels, Turns
<1>2. CASE Drive(c)
  <2>1. SetsWheels(c) /\ pc' = "ready"
    BY <1>2 DEF Drive, SetsWheels
  <2>2. CASE c.op = "stop"
    BY <1>2, <2>1, <2>2 DEF Drive, Promised
  <2>3. CASE c.op = "straight"
    BY <1>2, <2>1, <2>3, ByteValue DEF Drive, Promised, DriveStraight, GoodCall
  <2>4. CASE c.op \in {"turnCW", "turnCCW"}
    BY <1>2, <2>1, <2>4, ByteValue DEF Drive, Promised, TurnClockwise,
       TurnCounterClockwise, GoodCall
  <2>5. CASE c.op = "drive"
    BY <2>1, <2>5
  <2> QED BY <1>2, <2>2, <2>3, <2>4, <2>5 DEF Drive
<1>3. CASE Turn(c)
  <2>1. SetsWheels(c) /\ pc' = "turning"
    BY <1>3 DEF Turn, SetsWheels
  <2>2. CASE c.op = "turnIn"
    BY <2>1, <2>2 DEF Turning
  <2>3. CASE c.op = "turnX"
    <3>1. SUFFICES ASSUME -500 <= c.args[2], c.args[2] <= 500
                   PROVE  c.args[1] < 0 <=> Sense(wheels') < 0
      BY <2>1, <2>3 DEF Turning, Sense
    <3>2. PICK d \in Int, v \in Int : d = c.args[1] /\ v = c.args[2]
      BY <2>3 DEF GoodCall
    <3>3. d # 0 /\ v # 0
      BY <1>3, <2>3, <3>2 DEF Turn, Turns
    <3>4. v \in Words
      BY <3>1, <3>2, SMT DEF Words
    <3>5. Value(Bytes(v)) = v
      BY <3>4, ByteValue
    <3>6. wheels' = TurnCommand(d, v)
      BY <1>3, <2>3, <3>2 DEF Turn
    <3>7. Sense(TurnCommand(d, v)) = IF (d < 0) # (v < 0) THEN v * (-1) ELSE v * 1
      BY <3>5 DEF TurnCommand, TurnClockwise, TurnCounterClockwise, Sense
    <3>8. d < 0 <=> Sense(TurnCommand(d, v)) < 0
      BY <3>3, <3>7, SMT
    <3> QED BY <3>2, <3>6, <3>8
  <2> QED BY <1>3, <2>2, <2>3 DEF Turn
<1>4. CASE Quit(c)
  BY <1>4 DEF Quit, SetsWheels, Promised
<1> QED BY <1>1, <1>2, <1>3, <1>4 DEF Do

\* The third conjunct of Follows.
Chosen == item \notin {NoItem, 23} => sensor = Named(item)

LEMMA CallsKeepRest ==
  ASSUME RobotOK, NEW c, GoodCall(c), Do(c), Chosen, stream = flag
  PROVE  /\ Chosen' /\ stream' = flag'
         /\ pc' # "parse"
         /\ c.op = "quit" => pc' = "ended" /\ wheels' = Rest /\ ~stream' /\ ~lit'
<1>1. CASE Mode(c) \/ Drive(c) \/ Turn(c) \/ NoTurn(c)
  BY <1>1 DEF Mode, Drive, Turn, NoTurn, Turns, Chosen, lights, choice
<1>2. CASE Leds(c)
  BY <1>2 DEF Leds, Chosen, choice
<1>3. CASE Toggle(c)
  BY <1>3 DEF Toggle, Chosen, choice
<1>4. CASE Choose(c)
  BY <1>4, SensorsAreSensors DEF Choose, Chosen, lights, GoodCall
<1>5. CASE Quit(c)
  BY <1>5 DEF Quit, Chosen, choice, RobotOK
<1> QED BY <1>1, <1>2, <1>3, <1>4, <1>5 DEF Do

-----------------------------------------------------------------------------
(* Types.                                                                   *)

ConnectionOK ==
  /\ network \in BOOLEAN /\ window \in {"shown", "closed"}
  /\ presses \in 0..MaxPresses
  /\ wire \in Seq(Messages) /\ peer \in {"open", "closed"}
  /\ in \in Seq(Messages)
Moves == [n : 0..MaxPresses, call : Calls, fate : {"sent", "obeyed", "dropped"}]

LEMMA TypeParts == TypeOK <=> ConnectionOK /\ RobotOK /\ move \in Moves
  BY DEF TypeOK, ConnectionOK, RobotOK, Moves, Sensors, MenuItems

LEMMA MessagesInSequences ==
  ASSUME NEW s \in Seq(Messages), NEW i \in 1..Len(s)
  PROVE  /\ s[i] \in Messages /\ s[i].button \in Buttons
         /\ s[i].n \in 1..MaxPresses /\ s[i].n \in Nat
         /\ GoodCall(ClientCall(s[i].button))
<1>1. s[i] \in Messages
  OBVIOUS
<1>2. MaxPresses \in Nat
  BY RemoteAssumption
<1> QED BY <1>1, <1>2, CallsAreGood DEF Messages

LEMMA PressedTypes ==
  ASSUME TypeOK, NEW b \in Buttons, NEW c, GoodCall(c),
         NEW fate \in {"sent", "obeyed"}, Pressed(b, c, fate)
  PROVE  /\ presses' = presses + 1 /\ presses' \in 1..MaxPresses /\ presses' \in Nat
         /\ window = "shown" /\ window' \in {"shown", "closed"}
         /\ move' \in Moves
<1>1. MaxPresses \in Nat
  BY RemoteAssumption
<1>2. presses' = presses + 1 /\ presses' \in 1..MaxPresses /\ presses' \in Nat
  BY <1>1 DEF Pressed, TypeOK
<1>3. move' \in Moves
  BY <1>2, TypeParts DEF Pressed, Moves, GoodCall
<1> QED BY <1>2, <1>3 DEF Pressed

LEMMA TypeStep ==
  TypeOK /\ [Next]_vars => TypeOK'
<1> SUFFICES ASSUME TypeOK, [Next]_vars
             PROVE  ConnectionOK' /\ RobotOK' /\ move' \in Moves
  BY TypeParts DEF TypeOK, ConnectionOK, RobotOK, Moves, Sensors, MenuItems
<1>0. ConnectionOK /\ RobotOK /\ move \in Moves
  BY TypeParts
<1>1. CASE Recv
  <2>1. wire' \in Seq(Messages) /\ in' \in Seq(Messages)
    <3>1. CASE \E k \in 1..Len(wire) :
                 in' = SubSeq(wire, 1, k) /\ wire' = SubSeq(wire, k + 1, Len(wire))
      BY <1>0, <3>1 DEF ConnectionOK
    <3> QED BY <1>0, <1>1, <3>1 DEF Recv, ConnectionOK
  <2> QED BY <1>0, <1>1, <2>1 DEF Recv, ConnectionOK, RobotOK, lights, choice
<1>2. CASE Obey
  <2>1. GoodCall(ClientCall(in[1].button))
    <3>1. in \in Seq(Messages) /\ 1 \in 1..Len(in)
      BY <1>0, <1>2 DEF Obey, ConnectionOK
    <3> QED BY <3>1, MessagesInSequences
  <2>2. RobotOK'
    BY <1>0, <1>2, <2>1, CallsKeepTypes DEF Obey
  <2>3. move' \in Moves
    BY <1>0, <1>2 DEF Obey, Moves
  <2> QED BY <1>0, <1>2, <2>2, <2>3 DEF Obey, ConnectionOK, connection
<1>3. CASE Ignore
  <2>1. move' \in Moves
    BY <1>0, <1>3 DEF Ignore, Moves
  <2> QED BY <1>0, <1>3, <2>1 DEF Ignore, ConnectionOK, RobotOK, connection, lights, choice
<1>4. CASE EndTurn
  BY <1>0, <1>4, CommandsAreCommands
     DEF EndTurn, ConnectionOK, RobotOK, connection, lights, choice
<1>5. CASE Wake
  BY <1>0, <1>5 DEF Wake, ConnectionOK, RobotOK, connection, lights, choice
<1>6. CASE Send
  <2>1. PICK b \in Buttons : /\ Pressed(b, ClientCall(b), "sent")
                             /\ wire' = Append(wire, [n |-> presses', button |-> b])
    BY <1>6 DEF Send
  <2>2. /\ presses' \in 0..MaxPresses /\ window' \in {"shown", "closed"} /\ move' \in Moves
        /\ presses' \in 1..MaxPresses
    BY <2>1, PressedTypes, CallsAreGood
  <2>3. wire' \in Seq(Messages)
    BY <1>0, <2>1, <2>2 DEF ConnectionOK, Messages
  <2> QED BY <1>0, <1>6, <2>2, <2>3 DEF Send, ConnectionOK, RobotOK, lights, choice
<1>7. CASE Press
  <2>1. PICK b \in Buttons : Pressed(b, WindowCall(b), "obeyed") /\ Do(WindowCall(b))
    BY <1>7 DEF Press
  <2>2. /\ presses' \in 0..MaxPresses /\ window' \in {"shown", "closed"} /\ move' \in Moves
    BY <2>1, PressedTypes, CallsAreGood
  <2>3. RobotOK'
    BY <1>0, <2>1, CallsAreGood, CallsKeepTypes
  <2> QED BY <1>0, <1>7, <2>2, <2>3 DEF Press, ConnectionOK
<1>8. CASE Close
  BY <1>0, <1>8 DEF Close, ConnectionOK, RobotOK, lights, choice
<1>9. CASE ServerExits
  BY <1>0, <1>9 DEF ServerExits, ConnectionOK, RobotOK, lights, choice
<1>10. CASE UNCHANGED vars
  BY <1>0, <1>10 DEF vars, ConnectionOK, RobotOK
<1> QED BY <1>1, <1>2, <1>3, <1>4, <1>5, <1>6, <1>7, <1>8, <1>9, <1>10 DEF Next, Thread

LEMMA TypeInit ==
  Init => TypeOK
<1> SUFFICES ASSUME Init PROVE TypeOK
  OBVIOUS
<1>1. Rest \in Command
  BY CommandsAreCommands
<1>2. MaxPresses \in Nat
  BY RemoteAssumption
<1>3. ConnectionOK
  BY <1>2 DEF Init, ConnectionOK
<1>4. RobotOK
  <2>1. 35 \in Sensors /\ Unset \in Sensors /\ NoItem \in MenuItems
    BY SMT DEF Sensors, MenuItems, Unset
  <2> QED BY <1>1, <2>1 DEF Init, RobotOK
<1>5. move \in Moves
  BY <1>2 DEF Init, Moves, Call, Calls, Ops
<1> QED BY <1>3, <1>4, <1>5, TypeParts

(* Every variable stays in its range: so do the wheels, whatever numbers are *)
(* typed into the fields.                                                    *)
THEOREM TypeCorrect == Spec => []TypeOK
  BY TypeInit, TypeStep, PTL DEF Spec

-----------------------------------------------------------------------------
(* The inductive invariant.                                                 *)

\* Messages are numbered in the order they were sent, and only a client that
\* parses holds some.
Ordered(s) == \A i, j \in 1..Len(s) : i < j => s[i].n < s[j].n

Numbered ==
  /\ move.n <= presses
  /\ Ordered(wire) /\ Ordered(in)
  /\ \A i \in 1..Len(in), j \in 1..Len(wire) : in[i].n < wire[j].n
  /\ pc # "parse" => in = << >>
  /\ ~network => wire = << >> /\ in = << >> /\ pc # "parse"

(* A message under way is the last one that sets the wheels, or an earlier   *)
(* one while that is under way too, or a later one that does not set them.   *)
Pending(m) ==
  /\ m.n <= presses
  /\ m.n = move.n => ClientCall(m.button) = move.call
  /\ m.n > move.n => ~SetsWheels(ClientCall(m.button))
  /\ move.fate # "sent" => m.n > move.n

AllPending ==
  /\ SetsWheels(move.call)
  /\ \A i \in 1..Len(wire) : Pending(wire[i])
  /\ \A i \in 1..Len(in) : Pending(in[i])

\* Quit is the last button that is pressed.
Closing ==
  /\ move.call.op = "quit" => window = "closed"
  /\ peer = "closed" => window = "closed"
  /\ stream = flag

IInv == TypeOK /\ Numbered /\ AllPending /\ Closing /\ Follows /\ EndsAtRest

LEMMA FollowsParts ==
  Follows <=> /\ move.fate = "obeyed" /\ pc # "turning" /\ move.call.op # "drive"
                   => Promised(move.call, wheels)
              /\ move.fate = "obeyed" /\ pc = "turning" => Turning(move.call)
              /\ Chosen
  BY DEF Follows, Turning, Chosen

(* What a recv returns and what it leaves.                                   *)
LEMMA Received ==
  ASSUME NEW s \in Seq(Messages), NEW k \in 1..Len(s)
  PROVE  LET a == SubSeq(s, 1, k)
             b == SubSeq(s, k + 1, Len(s))
         IN  /\ Len(a) = k /\ \A i \in 1..k : a[i] = s[i]
             /\ Len(b) = Len(s) - k /\ \A i \in 1..Len(b) : b[i] = s[k + i]
  OBVIOUS

(* What a press does to the history.                                         *)
LEMMA PressedMove ==
  ASSUME TypeOK, Numbered, AllPending, Closing, NEW b \in Buttons,
         NEW c \in {WindowCall(b), ClientCall(b)}, GoodCall(c),
         NEW fate \in {"sent", "obeyed"}, Pressed(b, c, fate)
  PROVE  /\ move.n \in Nat /\ presses \in Nat /\ move'.n <= presses'
         /\ SetsWheels(c) => move'.n = presses + 1 /\ move'.call = c /\ move'.fate = fate
         /\ ~SetsWheels(c) => move' = move
         /\ SetsWheels(move'.call)
         /\ move.call.op # "quit" /\ peer # "closed"
         /\ move'.call.op = "quit" => window' = "closed" /\ c.op = "quit" /\ move'.fate = fate
<1>1. presses' = presses + 1 /\ presses' \in Nat /\ window = "shown"
  BY PressedTypes
<1>2. move.n \in Nat /\ presses \in Nat /\ move.n <= presses
  BY RemoteAssumption DEF TypeOK, Numbered
<1>3. move' = IF SetsWheels(c) THEN [n |-> presses', call |-> c, fate |-> fate] ELSE move
  BY DEF Pressed
<1>4. move.call.op # "quit" /\ peer # "closed"
  BY <1>1 DEF Closing
<1>5. c.op = "quit" => b.op = "quit"
  BY DEF WindowCall, ClientCall, Call
<1>6. b.op = "quit" => window' = "closed"
  BY DEF Pressed
<1>7. CASE SetsWheels(c)
  <2>1. move'.n = presses + 1 /\ move'.call = c /\ move'.fate = fate
    BY <1>1, <1>3, <1>7
  <2> QED BY <1>1, <1>2, <1>4, <1>5, <1>6, <1>7, <2>1
<1>8. CASE ~SetsWheels(c)
  <2>1. move' = move
    BY <1>3, <1>8
  <2>2. move'.n <= presses'
    BY <1>1, <1>2, <2>1
  <2> QED BY <1>2, <1>4, <1>8, <2>1, <2>2 DEF AllPending
<1> QED BY <1>7, <1>8

\* The numbers of messages under way are numbers.
LEMMA NumbersAreNumbers ==
  ASSUME TypeOK
  PROVE  /\ \A i \in 1..Len(wire) : wire[i].n \in Nat
         /\ \A i \in 1..Len(in) : in[i].n \in Nat
         /\ wire \in Seq(Messages) /\ in \in Seq(Messages)
         /\ Len(wire) \in Nat /\ Len(in) \in Nat
  BY MessagesInSequences DEF TypeOK

LEMMA NumberedStep ==
  ASSUME IInv, [Next]_vars
  PROVE  Numbered'
<1> USE DEF IInv
<1>0. /\ \A i \in 1..Len(wire) : wire[i].n \in Nat
      /\ \A i \in 1..Len(in) : in[i].n \in Nat
      /\ wire \in Seq(Messages) /\ in \in Seq(Messages)
      /\ Len(wire) \in Nat /\ Len(in) \in Nat
  BY NumbersAreNumbers
<1>1. CASE Recv
  <2>1. CASE \E k \in 1..Len(wire) :
               in' = SubSeq(wire, 1, k) /\ wire' = SubSeq(wire, k + 1, Len(wire))
    <3>1. PICK k \in 1..Len(wire) :
                 in' = SubSeq(wire, 1, k) /\ wire' = SubSeq(wire, k + 1, Len(wire))
      BY <2>1
    <3>2. PICK a, b : a = in' /\ b = wire'
      OBVIOUS
    <3>3. /\ Len(a) = k /\ \A i \in 1..k : a[i] = wire[i]
          /\ Len(b) = Len(wire) - k
          /\ \A i \in 1..Len(b) : b[i] = wire[k + i]
      BY <1>0, <3>1, <3>2, Received
    <3>4. \A i, j \in 1..Len(wire) : i < j => wire[i].n < wire[j].n
      BY DEF Numbered, Ordered
    <3>5. \A i, j \in 1..Len(a) : i < j => a[i].n < a[j].n
      BY <1>0, <3>3, <3>4
    <3>6. \A i, j \in 1..Len(b) : i < j => b[i].n < b[j].n
      <4>1. SUFFICES ASSUME NEW i \in 1..Len(b), NEW j \in 1..Len(b), i < j
                     PROVE  b[i].n < b[j].n
        OBVIOUS
      <4>2. k + i \in 1..Len(wire) /\ k + j \in 1..Len(wire) /\ k + i < k + j
        BY <1>0, <3>3, <4>1
      <4> QED BY <3>3, <3>4, <4>2
    <3>7. \A i \in 1..Len(a), j \in 1..Len(b) : a[i].n < b[j].n
      <4>1. SUFFICES ASSUME NEW i \in 1..Len(a), NEW j \in 1..Len(b)
                     PROVE  a[i].n < b[j].n
        OBVIOUS
      <4>2. i \in 1..Len(wire) /\ k + j \in 1..Len(wire) /\ i < k + j
        BY <1>0, <3>3, <4>1
      <4> QED BY <3>3, <3>4, <4>2
    <3> QED BY <1>1, <3>2, <3>5, <3>6, <3>7 DEF Recv, Numbered, Ordered
  <2>2. CASE wire = << >> /\ in' = << >> /\ UNCHANGED wire
    BY <1>1, <2>2 DEF Recv, Numbered, Ordered
  <2> QED BY <1>1, <2>1, <2>2 DEF Recv
<1>2. CASE Obey
  <2>1. move'.n = move.n
    BY <1>2 DEF Obey, TypeOK
  <2>2. pc = "parse" /\ in' = << >> /\ UNCHANGED connection
    BY <1>2 DEF Obey
  <2> QED BY <2>1, <2>2 DEF Numbered, Ordered, connection
<1>3. CASE Ignore
  <2>1. move'.n = move.n
    BY <1>3 DEF Ignore, TypeOK
  <2>2. pc = "parse" /\ in' = << >> /\ UNCHANGED connection
    BY <1>3 DEF Ignore
  <2> QED BY <2>1, <2>2 DEF Numbered, Ordered, connection
<1>4. CASE EndTurn \/ Wake \/ Close \/ ServerExits
  BY <1>4 DEF EndTurn, Wake, Close, ServerExits, Numbered, Ordered, connection
<1>5. CASE Send
  <2>1. PICK b \in Buttons : /\ Pressed(b, ClientCall(b), "sent")
                             /\ wire' = Append(wire, [n |-> presses', button |-> b])
    BY <1>5 DEF Send
  <2>2. presses' = presses + 1 /\ presses \in Nat /\ move'.n <= presses'
    BY <2>1, PressedTypes, PressedMove, CallsAreGood
  <2>3. PICK w : w = wire'
    OBVIOUS
  <2>4. /\ Len(w) = Len(wire) + 1
        /\ \A i \in 1..Len(wire) : w[i] = wire[i]
        /\ w[Len(w)].n = presses + 1
    BY <1>0, <2>1, <2>2, <2>3
  <2>5. /\ \A i \in 1..Len(wire) : wire[i].n <= presses
        /\ \A i \in 1..Len(in) : in[i].n <= presses
    BY DEF AllPending, Pending
  <2>6. \A i, j \in 1..Len(w) : i < j => w[i].n < w[j].n
    BY <1>0, <2>2, <2>4, <2>5 DEF Numbered, Ordered
  <2>7. \A i \in 1..Len(in), j \in 1..Len(w) : in[i].n < w[j].n
    <3>1. SUFFICES ASSUME NEW i \in 1..Len(in), NEW j \in 1..Len(w)
                   PROVE  in[i].n < w[j].n
      OBVIOUS
    <3>2. CASE j \in 1..Len(wire)
      BY <2>4, <3>2 DEF Numbered
    <3>3. CASE j \notin 1..Len(wire)
      <4>1. j = Len(w)
        BY <1>0, <2>4, <3>1, <3>3
      <4> QED BY <1>0, <2>2, <2>4, <2>5, <4>1
    <3> QED BY <3>2, <3>3
  <2> QED BY <1>5, <2>2, <2>3, <2>6, <2>7 DEF Send, Numbered, Ordered
<1>6. CASE Press
  <2>1. PICK b \in Buttons : Pressed(b, WindowCall(b), "obeyed") /\ Do(WindowCall(b))
    BY <1>6 DEF Press
  <2>2. move'.n <= presses'
    BY <2>1, PressedMove, CallsAreGood
  <2>3. pc' # "parse"
    BY <2>1, CallsKeepRest, CallsAreGood, TypeParts, FollowsParts DEF Closing
  <2> QED BY <1>6, <2>2, <2>3 DEF Press, Numbered, Ordered
<1>7. CASE UNCHANGED vars
  BY <1>7 DEF vars, Numbered, Ordered
<1> QED BY <1>1, <1>2, <1>3, <1>4, <1>5, <1>6, <1>7 DEF Next, Thread

LEMMA PendingStep ==
  ASSUME IInv, [Next]_vars
  PROVE  AllPending'
<1> USE DEF IInv
<1>0. /\ \A i \in 1..Len(wire) : wire[i].n \in Nat
      /\ \A i \in 1..Len(in) : in[i].n \in Nat
      /\ wire \in Seq(Messages) /\ in \in Seq(Messages)
      /\ Len(wire) \in Nat /\ Len(in) \in Nat
      /\ move.n \in Nat
  BY NumbersAreNumbers, RemoteAssumption DEF TypeOK
<1>1. CASE Recv
  <2>1. \A m : Pending(m) => Pending(m)'
    BY <1>1 DEF Recv, Pending
  <2>2. CASE \E k \in 1..Len(wire) :
               in' = SubSeq(wire, 1, k) /\ wire' = SubSeq(wire, k + 1, Len(wire))
    <3>1. PICK k \in 1..Len(wire) :
                 in' = SubSeq(wire, 1, k) /\ wire' = SubSeq(wire, k + 1, Len(wire))
      BY <2>2
    <3>2. /\ Len(in') = k /\ \A i \in 1..k : in'[i] = wire[i]
          /\ Len(wire') = Len(wire) - k
          /\ \A i \in 1..Len(wire') : wire'[i] = wire[k + i]
      BY <1>0, <3>1, Received
    <3>3. \A i \in 1..Len(in') : Pending(in'[i])
      BY <1>0, <3>2 DEF AllPending
    <3>4. \A i \in 1..Len(wire') : Pending(wire'[i])
      BY <1>0, <3>2 DEF AllPending
    <3> QED BY <1>1, <2>1, <3>3, <3>4 DEF Recv, AllPending, Pending
  <2>3. CASE wire = << >> /\ in' = << >> /\ UNCHANGED wire
    BY <1>1, <2>3 DEF Recv, AllPending
  <2> QED BY <1>1, <2>2, <2>3 DEF Recv
<1>2. CASE Obey \/ Ignore
  <2>1. in' = << >> /\ UNCHANGED connection
    BY <1>2 DEF Obey, Ignore
  <2>2. move'.n = move.n /\ move'.call = move.call
    BY <1>2 DEF Obey, Ignore, TypeOK
  <2>3. \/ move' = move
        \/ \E i \in 1..Len(in) : in[i].n = move.n
    BY <1>2 DEF Obey, Ignore
  <2>4. \A j \in 1..Len(wire) : move'.fate # "sent" => wire[j].n > move.n
    BY <1>0, <2>3 DEF AllPending, Pending, Numbered
  <2>5. \A i \in 1..Len(wire) : Pending(wire[i])'
    BY <2>1, <2>2, <2>4 DEF AllPending, Pending, connection
  <2> QED BY <2>1, <2>2, <2>5 DEF AllPending, connection
<1>3. CASE EndTurn \/ Wake \/ Close \/ ServerExits \/ UNCHANGED vars
  BY <1>3 DEF EndTurn, Wake, Close, ServerExits, vars, AllPending, Pending, connection
<1>4. CASE Send
  <2>1. PICK b \in Buttons : /\ Pressed(b, ClientCall(b), "sent")
                             /\ wire' = Append(wire, [n |-> presses', button |-> b])
    BY <1>4 DEF Send
  <2> DEFINE c == ClientCall(b)
  <2>2. /\ presses' = presses + 1 /\ presses \in Nat /\ move.n <= presses
        /\ SetsWheels(c) => move'.n = presses + 1 /\ move'.call = c /\ move'.fate = "sent"
        /\ ~SetsWheels(c) => move' = move
        /\ SetsWheels(move'.call)
    BY <2>1, PressedTypes, PressedMove, CallsAreGood DEF Numbered
  <2>3. \A m : m.n \in Nat /\ Pending(m) => Pending(m)'
    <3>1. SUFFICES ASSUME NEW m, m.n \in Nat, Pending(m)
                   PROVE  Pending(m)'
      OBVIOUS
    <3>2. CASE SetsWheels(c)
      <4>1. m.n <= presses /\ m.n # move'.n /\ ~(m.n > move'.n) /\ m.n <= presses'
        BY <1>0, <2>2, <3>1, <3>2 DEF Pending
      <4> QED BY <2>2, <3>2, <4>1 DEF Pending
    <3>3. CASE ~SetsWheels(c)
      <4>1. m.n <= presses'
        BY <1>0, <2>2, <3>1 DEF Pending
      <4> QED BY <2>2, <3>1, <3>3, <4>1 DEF Pending
    <3> QED BY <3>2, <3>3
  <2>4. /\ Len(wire') = Len(wire) + 1
        /\ \A i \in 1..Len(wire) : wire'[i] = wire[i]
        /\ wire'[Len(wire')] = [n |-> presses + 1, button |-> b]
    BY <1>0, <2>1, <2>2
  <2>5. \A m : m = [n |-> presses + 1, button |-> b] => Pending(m)'
    BY <1>0, <2>2 DEF Pending
  <2>6. \A i \in 1..Len(wire) : \A m : m = wire[i] => Pending(m)'
    BY <1>0, <2>3 DEF AllPending
  <2>7. \A i \in 1..Len(in) : \A m : m = in[i] => Pending(m)'
    BY <1>0, <2>3 DEF AllPending
  <2>8. \A i \in 1..Len(wire') : \A m : m = wire'[i] => Pending(m)'
    BY <1>0, <2>4, <2>5, <2>6
  <2>9. \A i \in 1..Len(wire') : Pending(wire[i])'
    BY <2>8 DEF Pending
  <2>10. in' = in
    BY <1>4 DEF Send
  <2>11. \A i \in 1..Len(in') : Pending(in[i])'
    BY <2>7, <2>10 DEF Pending
  <2> QED BY <2>2, <2>9, <2>11 DEF AllPending
<1>5. CASE Press
  <2>1. PICK b \in Buttons : Pressed(b, WindowCall(b), "obeyed")
    BY <1>5 DEF Press
  <2>2. SetsWheels(move'.call)
    BY <2>1, PressedMove, CallsAreGood
  <2>3. wire' = << >> /\ in' = << >>
    BY <1>5 DEF Press, Numbered
  <2> QED BY <2>2, <2>3 DEF AllPending
<1> QED BY <1>1, <1>2, <1>3, <1>4, <1>5 DEF Next, Thread

\* The three invariants a reader cares for.
Rests == Closing /\ Follows /\ EndsAtRest

LEMMA RestsStep ==
  ASSUME IInv, [Next]_vars
  PROVE  Rests'
<1> USE DEF IInv, Rests
<1>0. /\ move.fate = "obeyed" /\ pc # "turning" /\ move.call.op # "drive"
           => Promised(move.call, wheels)
      /\ move.fate = "obeyed" /\ pc = "turning" => Turning(move.call)
      /\ Chosen /\ RobotOK /\ move \in Moves
  BY FollowsParts, TypeParts
<1>1. SUFFICES
        /\ Closing' /\ EndsAtRest' /\ Chosen'
        /\ move'.fate = "obeyed" /\ pc' # "turning" /\ move'.call.op # "drive"
             => Promised(move'.call, wheels')
        /\ move'.fate = "obeyed" /\ pc' = "turning" => Turning(move.call)'
  BY DEF Follows, Turning, Chosen
<1>2. CASE Recv \/ Wake \/ Close \/ ServerExits \/ UNCHANGED vars
  <2>1. /\ UNCHANGED <<move, wheels, stream, flag, lit, sensor, item>>
        /\ pc' = "ended" => pc \in {"ready", "ended"}
        /\ pc' # pc => pc # "turning" /\ pc' # "turning" /\ pc # "ended"
    BY <1>2 DEF Recv, Wake, Close, ServerExits, vars, lights, choice
  <2>2. Closing'
    BY <1>2, <2>1 DEF Closing, Recv, Wake, Close, ServerExits, vars, connection
  <2> QED BY <1>0, <2>1, <2>2 DEF EndsAtRest, Chosen, Turning
<1>3. CASE Ignore
  <2>1. /\ UNCHANGED <<connection, wheels, lights, choice>>
        /\ pc = "parse" /\ pc' = "ready"
        /\ move'.call = move.call /\ move'.fate \in {move.fate, "dropped"}
    BY <1>0, <1>3 DEF Ignore, Moves
  <2> QED BY <1>0, <2>1 DEF Closing, EndsAtRest, Chosen, connection, lights, choice
<1>4. CASE EndTurn
  <2>1. /\ pc = "turning" /\ pc' = "ready" /\ wheels' = Rest
        /\ UNCHANGED <<connection, lights, choice, move>>
    BY <1>4 DEF EndTurn
  <2>2. move.fate = "obeyed" => move.call.op \in {"turnX", "turnIn"}
    BY <1>0, <2>1 DEF Turning
  <2>3. move.fate = "obeyed" => Promised(move.call, Rest)
    BY <2>2 DEF Promised
  <2> QED BY <1>0, <2>1, <2>2, <2>3
          DEF Closing, EndsAtRest, Chosen, connection, lights, choice
<1>5. CASE Obey
  <2>1. PICK m \in Messages : m = in[1]
    <3>1. 1 \in 1..Len(in) /\ in \in Seq(Messages)
      BY <1>5, NumbersAreNumbers DEF Obey
    <3> QED BY <3>1, MessagesInSequences
  <2> DEFINE c == ClientCall(m.button)
  <2>2. /\ pc = "parse" /\ Do(c) /\ UNCHANGED connection
        /\ move' = IF move.n = m.n THEN [move EXCEPT !.fate = "obeyed"] ELSE move
    BY <1>5, <2>1 DEF Obey
  <2>3. GoodCall(c)
    BY CallsAreGood DEF Messages
  <2>4. /\ Chosen' /\ stream' = flag'
        /\ c.op = "quit" => pc' = "ended" /\ wheels' = Rest /\ ~stream' /\ ~lit'
    BY <1>0, <2>2, <2>3, CallsKeepRest DEF Closing
  <2>5. /\ ~SetsWheels(c) => wheels' = wheels /\ pc' # "turning"
        /\ SetsWheels(c) /\ c.op # "drive" /\ pc' # "turning" => Promised(c, wheels')
        /\ pc' = "turning" => Turning(c)'
    BY <2>2, <2>3, CallsSetWheels
  <2>6. Pending(m)
    <3>1. 1 \in 1..Len(in)
      BY <1>5 DEF Obey
    <3> QED BY <2>1, <3>1 DEF AllPending
  <2>7. move'.call = move.call
    BY <1>0, <2>2 DEF Moves
  <2>8. Closing'
    BY <2>2, <2>4, <2>7 DEF Closing, connection
  <2>9. CASE move.n = m.n
    <3>1. c = move.call /\ SetsWheels(c)
      BY <2>6, <2>9 DEF Pending, AllPending
    <3>2. EndsAtRest'
      BY <2>4, <2>7, <3>1 DEF EndsAtRest
    <3>3. pc' = "turning" => Turning(move.call)'
      BY <2>5, <2>7, <3>1 DEF Turning
    <3> QED BY <2>4, <2>5, <2>7, <2>8, <3>1, <3>2, <3>3
  <2>10. CASE move.n # m.n
    <3>1. move' = move
      BY <2>2, <2>10
    <3>2. move.fate = "obeyed" => ~SetsWheels(c)
      <4>1. move.fate = "obeyed" => m.n > move.n
        BY <2>6 DEF Pending
      <4> QED BY <2>6, <4>1 DEF Pending
    <3>3. move.fate = "obeyed" => wheels' = wheels /\ pc' # "turning"
      BY <2>5, <3>2
    <3>4. EndsAtRest'
      BY <2>2, <3>1 DEF EndsAtRest
    <3> QED BY <1>0, <2>2, <2>4, <2>8, <3>1, <3>3, <3>4
  <2> QED BY <2>9, <2>10
<1>6. CASE Send
  <2>1. PICK b \in Buttons : Pressed(b, ClientCall(b), "sent")
    BY <1>6 DEF Send
  <2> DEFINE c == ClientCall(b)
  <2>2. /\ SetsWheels(c) => move'.fate = "sent"
        /\ ~SetsWheels(c) => move' = move
        /\ move.call.op # "quit" /\ peer # "closed"
        /\ move'.call.op = "quit" => window' = "closed"
    BY <2>1, PressedMove, CallsAreGood
  <2>3. UNCHANGED <<peer, pc, wheels, stream, flag, lit, sensor, item>>
    BY <1>6 DEF Send, lights, choice
  <2> QED BY <1>0, <2>2, <2>3 DEF Closing, EndsAtRest, Chosen, Turning
<1>7. CASE Press
  <2>1. PICK b \in Buttons : Pressed(b, WindowCall(b), "obeyed") /\ Do(WindowCall(b))
    BY <1>7 DEF Press
  <2> DEFINE c == WindowCall(b)
  <2>2. GoodCall(c)
    BY CallsAreGood
  <2>3. /\ SetsWheels(c) => move'.call = c
        /\ ~SetsWheels(c) => move' = move
        /\ move.call.op # "quit" /\ peer # "closed"
        /\ move'.call.op = "quit" => window' = "closed" /\ c.op = "quit"
    BY <2>1, <2>2, PressedMove
  <2>4. /\ Chosen' /\ stream' = flag'
        /\ c.op = "quit" => pc' = "ended" /\ wheels' = Rest /\ ~stream' /\ ~lit'
    BY <1>0, <2>1, <2>2, CallsKeepRest DEF Closing
  <2>5. /\ ~SetsWheels(c) => wheels' = wheels /\ pc' # "turning"
        /\ SetsWheels(c) /\ c.op # "drive" /\ pc' # "turning" => Promised(c, wheels')
        /\ pc' = "turning" => Turning(c)'
    BY <2>1, <2>2, CallsSetWheels
  <2>6. pc = "ready" /\ peer' = peer
    BY <1>7 DEF Press
  <2>7. Closing' /\ EndsAtRest'
    BY <2>3, <2>4, <2>6 DEF Closing, EndsAtRest
  <2>8. CASE SetsWheels(c)
    <3>1. pc' = "turning" => Turning(move.call)'
      BY <2>3, <2>5, <2>8 DEF Turning
    <3> QED BY <2>3, <2>4, <2>5, <2>7, <2>8, <3>1
  <2>9. CASE ~SetsWheels(c)
    BY <1>0, <2>3, <2>4, <2>5, <2>6, <2>7, <2>9
  <2> QED BY <2>8, <2>9
<1> QED BY <1>2, <1>3, <1>4, <1>5, <1>6, <1>7 DEF Next, Thread

LEMMA Inductive ==
  Spec => []IInv
<1>1. Init => IInv
  <2> SUFFICES ASSUME Init PROVE IInv
    OBVIOUS
  <2>1. TypeOK
    BY TypeInit
  <2>2. Numbered
    BY RemoteAssumption DEF Init, Numbered, Ordered
  <2>3. AllPending
    BY DEF Init, AllPending, SetsWheels, Call
  <2>4. Closing /\ EndsAtRest
    BY DEF Init, Closing, EndsAtRest, Call
  <2>5. Follows
    BY FollowsParts DEF Init, Call, Promised, Chosen
  <2> QED BY <2>1, <2>2, <2>3, <2>4, <2>5 DEF IInv
<1>2. IInv /\ [Next]_vars => IInv'
  BY TypeStep, NumberedStep, PendingStep, RestsStep DEF IInv, Rests
<1> QED BY <1>1, <1>2, PTL DEF Spec

-----------------------------------------------------------------------------
(* What holds for every set of buttons and any number of presses.           *)

(* The wheels do what the last button that was obeyed asks for, unless a     *)
(* later one is under way or was dropped: no earlier message, no turn that   *)
(* ends late and no other button disturbs them.                              *)
THEOREM FollowsTheButtons == Spec => []Follows
  BY Inductive, PTL DEF IInv

(* A quit that was obeyed leaves the robot at rest, its lights and its       *)
(* stream off.                                                               *)
THEOREM QuitLeavesRest == Spec => []EndsAtRest
  BY Inductive, PTL DEF IInv

(* A client whose server is gone reads nothing for ever, and the robot does  *)
(* what it did.                                                              *)
THEOREM OrphanIsForEver == Spec => OrphanForEver
<1>1. ASSUME IInv, Orphan, [Next]_vars
      PROVE  Orphan' /\ UNCHANGED <<wheels, stream, lit>>
  <2> USE <1>1 DEF Orphan
  <2>1. window = "closed" /\ Len(wire) = 0 /\ Len(in) = 0
    BY DEF IInv, Closing
  <2>2. CASE Recv
    BY <2>1, <2>2 DEF Recv, lights, choice
  <2>3. CASE Obey \/ EndTurn \/ Wake \/ Send \/ Press \/ Close \/ ServerExits
    BY <2>1, <2>3 DEF Obey, EndTurn, Wake, Send, Pressed, Press, Close, ServerExits
  <2>4. CASE Ignore \/ UNCHANGED vars
    BY <2>1, <2>4 DEF Ignore, vars, connection, lights
  <2> QED BY <2>2, <2>3, <2>4 DEF Next, Thread
<1>2. IInv /\ [Next]_vars
        => [Orphan => Orphan' /\ UNCHANGED <<wheels, stream, lit>>]_vars
  BY <1>1
<1> QED BY <1>2, Inductive, PTL DEF Spec, OrphanForEver
=============================================================================
