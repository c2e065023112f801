------------------------------ MODULE Sensors ------------------------------
(***************************************************************************)
(* The sensor stream of one robot (robot.cpp, rs232.cpp): the thread that  *)
(* reads the stream from the serial line and stores it in sensor_values,   *)
(* and the threads that ask get_sensor_value for the two bytes of a sensor:*)
(* the sensor thread of own mode or the UDP client, the velocity thread,   *)
(* and the thread that reports to the server.  No mutex guards the array.  *)
(*                                                                         *)
(* A byte stands for where it comes from: the packet and the place in it.  *)
(* Of its value only one thing matters, whether it reads as a header: the  *)
(* first byte of a packet does, and so does any data byte that is 19.      *)
(*                                                                         *)
(* The line is read without waiting (VMIN = VTIME = 0, O_NDELAY): a read   *)
(* returns what is there, possibly nothing, and nobody looks at how much.  *)
(* What it does not fill keeps its old contents; receive is not            *)
(* initialised, so that at first it holds anything.                        *)
(***************************************************************************)
EXTENDS Integers, Sequences

CONSTANTS NumSensors,    \* the sensors of a packet, in its order
          Place,         \* where in rest a sensor's first byte is, counted from 0
          Wide,          \* the sensors of two bytes
          Size,          \* the bytes poll for the rest of a packet asks for
          Lookalikes,    \* the sets of places whose data may read as a header
          Packets,       \* bound: packet numbers are reused
          Buffer,        \* the bytes the line holds before it loses some
          Callers        \* the threads that call get_sensor_value

Sensors == 1..NumSensors

ASSUME SensorsAssumption ==
  /\ NumSensors \in Nat \ {0} /\ Size \in Nat \ {0}
  /\ Wide \subseteq Sensors
  /\ Place \in [Sensors -> 0..(Size - 1)]
  /\ \A s \in Wide : Place[s] + 1 < Size
  /\ Packets \in Nat \ {0} /\ Buffer \in Nat
  /\ \A looks \in Lookalikes : looks \subseteq 0..(Size + 1)

VARIABLES
  line,      \* the bytes on the way from the robot
  next,      \* the byte the robot sends next
  looks,     \* the places of the data bytes that read as a header
  sensorsstreaming,
  thr,       \* the sensor thread: where it is, receive and rest, and how it came by them
  sensor_values,
  get,       \* each caller of get_sensor_value
  step       \* history: the place of the last header taken, whether every read
             \* since has been full, and whether the values stored last are clean

vars == <<line, next, looks, sensorsstreaming, thr, sensor_values, get, step>>

-----------------------------------------------------------------------------
(* Bytes.  gap tells that the line has lost the byte before.                *)

Length == Size + 2
Places == 0..(Length - 1)
Byte == [packet : 0..(Packets - 1), place : Places, gap : BOOLEAN]

\* The contents of what was not read cleanly are not followed.
Unknown == [packet |-> -1, place |-> -1, gap |-> FALSE]

\* The -1 that stands for the second byte of a sensor that has only one.
NoByte == [packet |-> -1, place |-> -2, gap |-> FALSE]

IsHeader(b) == b.place = 0 \/ b.place \in looks

\* The byte after b in the robot's stream, lost tells whether b is.
Following(b, lost) ==
  IF b.place = Length - 1
  THEN [packet |-> (b.packet + 1) % Packets, place |-> 0, gap |-> lost]
  ELSE [packet |-> b.packet, place |-> b.place + 1, gap |-> lost]

\* A byte in memory.
Value(b) == [packet |-> b.packet, place |-> b.place, gap |-> FALSE]

CallerIdle == [pc |-> "idle", which |-> 1, values |-> << NoByte, NoByte >>, clean |-> TRUE]

-----------------------------------------------------------------------------
Init ==
  /\ line = << >>
  /\ next = [packet |-> 0, place |-> 0, gap |-> FALSE]
  /\ looks \in Lookalikes
  /\ sensorsstreaming \in BOOLEAN
  /\ \E h \in BOOLEAN :
       thr = [pc |-> "poll", header |-> h, rest |-> [i \in 1..Size |-> Unknown],
              at |-> 1, clean |-> FALSE]
  /\ sensor_values = [j \in 1..(2 * NumSensors) |-> Unknown]
  /\ get = [c \in Callers |-> CallerIdle]
  /\ step = [header |-> -1, steady |-> FALSE, clean |-> FALSE]

-----------------------------------------------------------------------------
(* The robot and the line.                                                  *)

\* The robot sends packet after packet; the line loses what it cannot hold.
SendByte ==
  /\ Len(line) < Buffer \/ \A i \in 1..Len(line) : ~line[i].gap
  /\ next' = Following(next, Len(line) >= Buffer)
  /\ line' = IF Len(line) < Buffer THEN Append(line, next) ELSE line
  /\ UNCHANGED <<looks, sensorsstreaming, thr, sensor_values, get, step>>

\* toggleSensorStream: the flag changes whether or not the bytes are sent.
Toggle ==
  /\ sensorsstreaming' = ~sensorsstreaming
  /\ UNCHANGED <<line, next, looks, thr, sensor_values, get, step>>

-----------------------------------------------------------------------------
(* get_sensors_thread_i.                                                    *)

\* A poll for one byte: without one, receive keeps what it holds, of which the
\* next poll asks only whether it is a header.
Fresh == line # << >>
HoldsHeader == IF Fresh THEN IsHeader(line[1]) ELSE thr.header
Unread == IF Fresh THEN Tail(line) ELSE line

\* Poll for a header.
Poll ==
  /\ thr.pc = "poll" /\ sensorsstreaming
  /\ line' = Unread
  /\ IF HoldsHeader
     THEN /\ thr' = [thr EXCEPT !.pc = "size", !.header = TRUE,
                                !.clean = Fresh /\ line[1].place = 0]
          /\ step' = [step EXCEPT !.header = IF Fresh THEN line[1].place ELSE -1,
                                  !.steady = Fresh]
     ELSE /\ thr' = [thr EXCEPT !.header = FALSE]
          /\ step' = [step EXCEPT !.steady = @ /\ ~Fresh]
  /\ UNCHANGED <<next, looks, sensorsstreaming, sensor_values, get>>

\* Poll for the size of the rest, which is not looked at.
PollSize ==
  /\ thr.pc = "size"
  /\ LET full == Fresh /\ ~line[1].gap
     IN  /\ thr' = [thr EXCEPT !.pc = "rest", !.header = HoldsHeader, !.clean = @ /\ full]
         /\ step' = [step EXCEPT !.steady = @ /\ full]
  /\ line' = Unread
  /\ UNCHANGED <<next, looks, sensorsstreaming, sensor_values, get>>

\* Variant with a bug: the poll for the rest forgets the checksum.
PollRest_Short ==
  /\ thr.pc = "rest"
  /\ LET n == IF Len(line) < Size - 1 THEN Len(line) ELSE Size - 1
         full == n = Size - 1 /\ \A i \in 1..n : ~line[i].gap
     IN  /\ thr' = [thr EXCEPT !.pc = "store", !.clean = FALSE,
                               !.rest = [i \in 1..Size |-> Unknown]]
         /\ step' = [step EXCEPT !.steady = @ /\ full]
         /\ line' = SubSeq(line, n + 1, Len(line))
  /\ UNCHANGED <<next, looks, sensorsstreaming, sensor_values, get>>

\* Poll for the rest of the packet.
Taken == IF Len(line) < Size THEN Len(line) ELSE Size
Full == Taken = Size /\ \A i \in 1..Size : ~line[i].gap

PollRest ==
  /\ thr.pc = "rest"
  /\ thr' = [thr EXCEPT !.pc = "store", !.clean = @ /\ Full,
                        !.rest = IF thr.clean /\ Full
                                 THEN [i \in 1..Size |-> Value(line[i])]
                                 ELSE [i \in 1..Size |-> Unknown]]
  /\ step' = [step EXCEPT !.steady = @ /\ Full]
  /\ line' = SubSeq(line, Taken + 1, Len(line))
  /\ UNCHANGED <<next, looks, sensorsstreaming, sensor_values, get>>

\* The sensor an entry of sensor_values belongs to, and what is stored there
\* (Stored_Off is a variant with a bug: both entries get the same byte).
SensorAt(j) == (j + 1) \div 2
Stored_Off(j) ==
  LET s == SensorAt(j)
  IN  IF j % 2 = 1 \/ s \in Wide THEN thr.rest[Place[s] + 1] ELSE NoByte
Stored(j) ==
  LET s == SensorAt(j)
  IN  IF j % 2 = 1 THEN thr.rest[Place[s] + 1]
      ELSE IF s \in Wide THEN thr.rest[Place[s] + 2]
      ELSE NoByte

\* Variant with a bug: the loop does not begin at the first entry again.
Store_Runs ==
  /\ thr.pc = "store" /\ thr.at <= 2 * NumSensors
  /\ sensor_values' = [sensor_values EXCEPT ![thr.at] = Stored(thr.at)]
  /\ thr' = [thr EXCEPT !.pc = IF thr.at = 2 * NumSensors THEN "poll" ELSE "store", !.at = @ + 1]
  /\ UNCHANGED <<line, next, looks, sensorsstreaming, get, step>>

\* Store the values, one entry after the other.
Store ==
  /\ thr.pc = "store"
  /\ sensor_values' = [sensor_values EXCEPT ![thr.at] = Stored(thr.at)]
  /\ IF thr.at = 2 * NumSensors
     THEN /\ thr' = [thr EXCEPT !.pc = "poll", !.at = 1]
          /\ step' = [step EXCEPT !.clean = thr.clean]
     ELSE thr' = [thr EXCEPT !.at = @ + 1] /\ UNCHANGED step
  /\ get' = [c \in Callers |-> [get[c] EXCEPT !.clean = @ /\ get[c].pc # "second"]]
  /\ UNCHANGED <<line, next, looks, sensorsstreaming>>

SensorThread == Poll \/ PollSize \/ PollRest \/ Store

-----------------------------------------------------------------------------
(* get_sensor_value: the first entry is copied, then the second, or without *)
(* streaming the result is -1 and -1.                                       *)

Storing == thr.pc = "store" /\ thr.at > 1

CopyFirst(c) ==
  /\ get[c].pc # "second" /\ sensorsstreaming
  /\ \E s \in Sensors :
       get' = [get EXCEPT ![c] = [pc |-> "second", which |-> s,
                                  values |-> << sensor_values[2 * s - 1], NoByte >>,
                                  clean |-> step.clean /\ ~Storing]]
  /\ UNCHANGED <<line, next, looks, sensorsstreaming, thr, sensor_values, step>>

NotStreaming(c) ==
  /\ get[c].pc # "second" /\ ~sensorsstreaming
  /\ get' = [get EXCEPT ![c] = [pc |-> "done", which |-> 1,
                                values |-> << NoByte, NoByte >>, clean |-> FALSE]]
  /\ UNCHANGED <<line, next, looks, sensorsstreaming, thr, sensor_values, step>>

CopySecond(c) ==
  /\ get[c].pc = "second"
  /\ get' = [get EXCEPT ![c] = [get[c] EXCEPT !.pc = "done",
                !.values = << get[c].values[1], sensor_values[2 * get[c].which] >>]]
  /\ UNCHANGED <<line, next, looks, sensorsstreaming, thr, sensor_values, step>>

-----------------------------------------------------------------------------
Next ==
  \/ SendByte \/ Toggle \/ SensorThread
  \/ \E c \in Callers : CopyFirst(c) \/ CopySecond(c) \/ NotStreaming(c)

Spec == Init /\ [][Next]_vars

-----------------------------------------------------------------------------
(* Properties.                                                              *)

Content == {b \in Byte : ~b.gap} \cup {Unknown, NoByte}

\* Every variable stays in its range.
TypeOK ==
  /\ line \in Seq(Byte) /\ Len(line) <= Buffer
  /\ next \in Byte /\ looks \in Lookalikes
  /\ sensorsstreaming \in BOOLEAN
  /\ thr \in [pc : {"poll", "size", "rest", "store"}, header : BOOLEAN,
              rest : [1..Size -> Content], at : 1..(2 * NumSensors), clean : BOOLEAN]
  /\ sensor_values \in [1..(2 * NumSensors) -> Content]
  /\ get \in [Callers -> [pc : {"idle", "second", "done"}, which : Sensors,
                          values : Content \X Content, clean : BOOLEAN]]
  /\ step \in [header : Places \cup {-1}, steady : BOOLEAN, clean : BOOLEAN]

IsPair(v, s) ==
  /\ v[1].packet # -1 /\ v[1].place = Place[s] + 2
  /\ v[2] = IF s \in Wide THEN [packet |-> v[1].packet, place |-> Place[s] + 3, gap |-> FALSE]
                           ELSE NoByte

(* What get_sensor_value returns are the two bytes the robot sent for that  *)
(* sensor in one packet, or one of these happened: the packet stored last   *)
(* was not taken from its first byte, a read of it came up short, the line  *)
(* lost a byte of it, or the sensor thread stored a byte between the caller's*)
(* two copies or had begun to.  Nothing else mixes the bytes of two sensors *)
(* or of two packets, though no mutex guards the array.                     *)
PairExplained ==
  \A c \in Callers : get[c].pc = "done" /\ get[c].clean => IsPair(get[c].values, get[c].which)

(* While the reads are full and no byte is lost, the thread takes its header*)
(* at one and the same place of every packet.  A thread in step stays in    *)
(* step, and a thread that took a data byte for the header never gets into  *)
(* step again: nothing in the code looks at the size or the checksum.  Only *)
(* a poll that reads nothing may find a header where none is, in the byte   *)
(* the last poll left in receive.                                           *)
PhaseKept ==
  [][step.steady /\ step'.header # step.header =>
       IF Fresh THEN line[1].gap ELSE thr.header]_vars
=============================================================================
