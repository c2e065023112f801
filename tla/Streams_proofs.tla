--------------------------- MODULE Streams_proofs ---------------------------
(* The two streams of bytes that are read in pieces, for every value of the  *)
(* constants.  The sensor stream, for any layout of the packet, any buffer   *)
(* and any number of callers: what a clean pair is, and that a thread in     *)
(* step stays in step.  The connections between the server and its clients,  *)
(* for any number of clients, poses and commands and whatever pieces the     *)
(* reads return: what a view and a label say, and why the server ends.       *)
EXTENDS Sensors, Session, FiniteSetTheorems, WellFoundedInduction, SequenceTheorems, TLAPS

\* The bytes that come: those on the line, and the one sent next.
Coming == Append(line, next)

\* Byte b comes d bytes after byte a, none between them lost.
Apart(a, d, b) ==
  IF a.place + d < Length
  THEN b.packet = a.packet /\ b.place = a.place + d
  ELSE b.place = a.place + d - Length

LineInv ==
  \A i, j \in 1..(Len(line) + 1) :
    i < j /\ j - i <= Size /\ (\A m \in (i + 1)..j : ~Coming[m].gap) =>
      Apart(Coming[i], j - i, Coming[j])

-----------------------------------------------------------------------------
(* The constants, and bytes.                                                *)

LEMMA Constants ==
  /\ Size \in Nat /\ Size >= 1 /\ Length \in Nat /\ Length = Size + 2 /\ Length >= 3
  /\ NumSensors \in Nat /\ NumSensors >= 1 /\ Packets \in Nat /\ Packets >= 1
  /\ Buffer \in Nat
PROOF BY SensorsAssumption DEF Length

LEMMA FollowingIsByte ==
  ASSUME NEW b \in Byte, NEW lost \in BOOLEAN
  PROVE  Following(b, lost) \in Byte /\ Following(b, lost).gap = lost
PROOF
  <1>1. b.packet \in 0..(Packets - 1) /\ b.place \in 0..(Length - 1)
    BY DEF Byte, Places
  <1>2. (b.packet + 1) % Packets \in 0..(Packets - 1)
    BY <1>1, Constants
  <1> QED
    BY <1>1, <1>2, Constants DEF Following, Byte, Places

LEMMA FollowingIsOneApart ==
  ASSUME NEW b \in Byte
  PROVE  Apart(b, 1, Following(b, FALSE))
PROOF
  BY Constants DEF Apart, Following, Byte, Places

LEMMA ApartAndFollowing ==
  ASSUME NEW a \in Byte, NEW b \in Byte, NEW d \in 1..(Size - 1), Apart(a, d, b)
  PROVE  Apart(a, d + 1, Following(b, FALSE))
PROOF
  <1>1. a.place \in 0..(Length - 1) /\ b.place \in 0..(Length - 1)
    BY DEF Byte, Places
  <1>2. Length = Size + 2 /\ Size \in Nat
    BY Constants
  <1>3. CASE a.place + d < Length /\ b.place = Length - 1
    BY <1>1, <1>2, <1>3 DEF Apart, Following
  <1>4. CASE a.place + d < Length /\ b.place # Length - 1
    BY <1>1, <1>2, <1>4 DEF Apart, Following
  <1>5. CASE ~(a.place + d < Length)
    <2>1. b.place = a.place + d - Length /\ b.place # Length - 1
      BY <1>1, <1>2, <1>5 DEF Apart
    <2> QED
      BY <1>1, <1>2, <1>5, <2>1 DEF Apart, Following
  <1> QED
    BY <1>3, <1>4, <1>5

LEMMA ComingBytes ==
  ASSUME line \in Seq(Byte), next \in Byte
  PROVE  /\ Coming \in Seq(Byte) /\ Len(Coming) = Len(line) + 1 /\ Len(line) \in Nat
         /\ \A i \in 1..(Len(line) + 1) : Coming[i] \in Byte
         /\ \A i \in 1..Len(line) : Coming[i] = line[i]
         /\ Coming[Len(line) + 1] = next
PROOF BY DEF Coming

\* Reading n bytes moves the others up.
LEMMA ComingMoves ==
  ASSUME line \in Seq(Byte), next \in Byte, NEW n \in 0..Len(line),
         line' = SubSeq(line, n + 1, Len(line)), next' = next
  PROVE  /\ line' \in Seq(Byte) /\ Len(line') = Len(line) - n
         /\ \A i \in 1..(Len(line') + 1) : Coming'[i] = Coming[i + n]
         /\ LineInv => LineInv'
PROOF
  <1>1. line' \in Seq(Byte) /\ Len(line') = Len(line) - n /\ Len(line) \in Nat
    OBVIOUS
  <1>2. \A i \in 1..Len(line') : line'[i] = line[i + n]
    OBVIOUS
  <1>3. \A i \in 1..(Len(line') + 1) : Coming'[i] = Coming[i + n]
    BY <1>1, <1>2 DEF Coming
  <1>4. ASSUME LineInv
        PROVE  LineInv'
    <2> SUFFICES ASSUME NEW i \in 1..(Len(line') + 1), NEW j \in 1..(Len(line') + 1),
                        i < j, j - i <= Size, \A m \in (i + 1)..j : ~Coming'[m].gap
                 PROVE  Apart(Coming'[i], j - i, Coming'[j])
      BY DEF LineInv
    <2>1. i + n \in 1..(Len(line) + 1) /\ j + n \in 1..(Len(line) + 1)
      BY <1>1
    <2>2. i + n < j + n /\ (j + n) - (i + n) = j - i
      BY <1>1
    <2>3. \A m \in ((i + n) + 1)..(j + n) : ~Coming[m].gap
      <3> SUFFICES ASSUME NEW m \in ((i + n) + 1)..(j + n)
                   PROVE  ~Coming[m].gap
        OBVIOUS
      <3>1. m - n \in (i + 1)..j /\ m - n \in 1..(Len(line') + 1) /\ (m - n) + n = m
        BY <1>1
      <3> QED
        BY <3>1, <1>3
    <2>4. Apart(Coming[i + n], j - i, Coming[j + n])
      BY <1>4, <2>1, <2>2, <2>3 DEF LineInv
    <2> QED
      BY <2>4, <1>3
  <1> QED
    BY <1>1, <1>3, <1>4

\* What a poll for one byte does to the line.
LEMMA UnreadMoves ==
  ASSUME line \in Seq(Byte), next \in Byte, line' = Unread, next' = next
  PROVE  /\ line' \in Seq(Byte) /\ Len(line') <= Len(line)
         /\ LineInv => LineInv'
         /\ Fresh => Coming[1] = line[1] /\ Coming'[1] = Coming[2] /\ 2 \in 1..(Len(line) + 1)
         /\ ~Fresh => Coming'[1] = Coming[1]
PROOF
  <1>1. CASE Fresh
    <2>1. Len(line) \in Nat /\ Len(line) >= 1 /\ 1 \in 0..Len(line)
      BY <1>1 DEF Fresh
    <2>2. line' = SubSeq(line, 1 + 1, Len(line))
      BY <1>1, <2>1 DEF Unread, Fresh
    <2>3. /\ line' \in Seq(Byte) /\ Len(line') = Len(line) - 1
          /\ \A i \in 1..(Len(line') + 1) : Coming'[i] = Coming[i + 1]
          /\ LineInv => LineInv'
      BY <2>1, <2>2, ComingMoves
    <2>4. Coming[1] = line[1]
      BY <2>1, ComingBytes
    <2> QED
      BY <1>1, <2>1, <2>3, <2>4
  <1>2. CASE ~Fresh
    <2>1. line' = line
      BY <1>2 DEF Unread
    <2>2. Coming' = Coming
      BY <2>1 DEF Coming
    <2> QED
      BY <1>2, <2>1, <2>2 DEF LineInv
  <1> QED
    BY <1>1, <1>2

-----------------------------------------------------------------------------
(* Type correctness.                                                        *)

LineOK == line \in Seq(Byte) /\ Len(line) <= Buffer /\ next \in Byte

ThrOK ==
  thr \in [pc : {"poll", "size", "rest", "store"}, header : BOOLEAN,
           rest : [1..Size -> Content], at : 1..(2 * NumSensors), clean : BOOLEAN]

ValuesOK == sensor_values \in [1..(2 * NumSensors) -> Content]

GetOK ==
  get \in [Callers -> [pc : {"idle", "second", "done"}, which : Sensors,
                       values : Content \X Content, clean : BOOLEAN]]

StepOK == step \in [header : Places \cup {-1}, steady : BOOLEAN, clean : BOOLEAN]

Parts ==
  /\ LineOK /\ looks \in Lookalikes /\ sensorsstreaming \in BOOLEAN
  /\ ThrOK /\ ValuesOK /\ GetOK /\ StepOK

LEMMA TypeIsParts == TypeOK <=> Parts
PROOF BY DEF TypeOK, Parts, LineOK, ThrOK, ValuesOK, GetOK, StepOK

LEMMA ByteContent ==
  /\ Unknown \in Content /\ NoByte \in Content
  /\ \A b \in Byte : Value(b) \in Content /\ Value(b).place = b.place
                     /\ Value(b).packet = b.packet /\ Value(b).gap = FALSE
PROOF BY DEF Content, Byte, Value

LEMMA FirstByte ==
  ASSUME line \in Seq(Byte), Fresh
  PROVE  Len(line) \in Nat /\ Len(line) >= 1 /\ line[1] \in Byte
PROOF
  <1>1. Len(line) \in Nat /\ Len(line) # 0
    BY DEF Fresh
  <1> QED
    BY <1>1

LEMMA StoredContent ==
  ASSUME ThrOK, NEW j \in 1..(2 * NumSensors)
  PROVE  Stored(j) \in Content /\ SensorAt(j) \in Sensors
PROOF
  <1>1. SensorAt(j) \in Sensors
    BY Constants DEF SensorAt, Sensors
  <1>2. thr.rest \in [1..Size -> Content]
    BY DEF ThrOK
  <1>3. Place[SensorAt(j)] + 1 \in 1..Size
    BY <1>1, SensorsAssumption, Constants
  <1>4. SensorAt(j) \in Wide => Place[SensorAt(j)] + 2 \in 1..Size
    BY <1>3, SensorsAssumption, Constants
  <1> QED
    BY <1>1, <1>2, <1>3, <1>4, ByteContent DEF Stored

LEMMA InitTypes == Init => TypeOK
PROOF
  <1> SUFFICES ASSUME Init
               PROVE  Parts
    BY TypeIsParts
  <1>1. LineOK
    BY Constants DEF Init, LineOK, Byte, Places
  <1>2. ThrOK
    BY Constants, ByteContent DEF Init, ThrOK
  <1>3. ValuesOK
    BY ByteContent DEF Init, ValuesOK
  <1>4. GetOK
    BY Constants, ByteContent DEF Init, GetOK, CallerIdle, Sensors
  <1>5. StepOK
    BY DEF Init, StepOK
  <1> QED
    BY <1>1, <1>2, <1>3, <1>4, <1>5 DEF Init, Parts

LEMMA NextTypes == TypeOK /\ [Next]_vars => TypeOK'
PROOF
  <1>0. Parts' => TypeOK'
    BY DEF TypeOK, Parts, LineOK, ThrOK, ValuesOK, GetOK, StepOK
  <1> SUFFICES ASSUME Parts, [Next]_vars
               PROVE  Parts'
    BY <1>0, TypeIsParts
  <1> USE DEF Parts
  <1>1. CASE SendByte
    <2>b. (Len(line) >= Buffer) \in BOOLEAN /\ next \in Byte
      BY DEF LineOK
    <2>0. next' \in Byte
      BY <1>1, <2>b, FollowingIsByte DEF SendByte
    <2>a. Len(line) \in Nat /\ Append(line, next) \in Seq(Byte)
          /\ Len(Append(line, next)) = Len(line) + 1
      BY DEF LineOK
    <2>1. LineOK'
      BY <1>1, <2>0, <2>a, Constants DEF SendByte, LineOK
    <2> QED
      BY <1>1, <2>1 DEF SendByte, ThrOK, ValuesOK, GetOK, StepOK
  <1>2. CASE Toggle
    BY <1>2 DEF Toggle, LineOK, ThrOK, ValuesOK, GetOK, StepOK
  <1>3. CASE Poll
    <2>1. LineOK'
      BY <1>3, UnreadMoves, Constants DEF Poll, LineOK
    <2>2. Fresh => line[1].place \in Places
      BY FirstByte DEF LineOK, Byte
    <2>3. ThrOK'
      BY <1>3 DEF Poll, ThrOK
    <2>4. StepOK'
      BY <1>3, <2>2 DEF Poll, StepOK, Fresh
    <2> QED
      BY <1>3, <2>1, <2>3, <2>4 DEF Poll, ValuesOK, GetOK
  <1>4. CASE PollSize
    <2>1. LineOK'
      BY <1>4, UnreadMoves, Constants DEF PollSize, LineOK
    <2>2. HoldsHeader \in BOOLEAN /\ Fresh \in BOOLEAN /\ (Fresh => line[1].gap \in BOOLEAN)
      BY FirstByte DEF HoldsHeader, IsHeader, ThrOK, Fresh, LineOK, Byte
    <2>3. ThrOK'
      BY <1>4, <2>2 DEF PollSize, ThrOK
    <2>4. StepOK'
      BY <1>4, <2>2 DEF PollSize, StepOK
    <2> QED
      BY <1>4, <2>1, <2>3, <2>4 DEF PollSize, ValuesOK, GetOK
  <1>5. CASE PollRest
    <2>0. Taken \in 0..Len(line) /\ Len(line) \in Nat
      BY Constants DEF Taken, LineOK
    <2>1. LineOK'
      BY <1>5, <2>0, ComingMoves, Constants DEF PollRest, LineOK
    <2>2. (IF thr.clean /\ Full THEN [i \in 1..Size |-> Value(line[i])]
                                ELSE [i \in 1..Size |-> Unknown]) \in [1..Size -> Content]
      <3>1. ASSUME Full, NEW i \in 1..Size
            PROVE  Value(line[i]) \in Content
        <4>1. line[i] \in Byte
          BY <3>1, Constants DEF Full, Taken, LineOK
        <4> QED
          BY <4>1, ByteContent
      <3> QED
        BY <3>1, ByteContent
    <2>3. Full \in BOOLEAN
      BY DEF Full
    <2>4. ThrOK'
      BY <1>5, <2>2, <2>3 DEF PollRest, ThrOK
    <2>5. StepOK'
      BY <1>5, <2>3 DEF PollRest, StepOK
    <2> QED
      BY <1>5, <2>1, <2>4, <2>5 DEF PollRest, ValuesOK, GetOK
  <1>6. CASE Store
    <2>1. thr.at \in 1..(2 * NumSensors)
      BY DEF ThrOK
    <2>2. ValuesOK'
      BY <1>6, <2>1, StoredContent DEF Store, ValuesOK
    <2>3. ThrOK'
      <3>1. CASE thr.at = 2 * NumSensors
        <4>1. 1 \in 1..(2 * NumSensors)
          BY Constants
        <4> QED
          BY <1>6, <3>1, <4>1 DEF Store, ThrOK
      <3>2. CASE thr.at # 2 * NumSensors
        <4>1. thr.at + 1 \in 1..(2 * NumSensors)
          BY <2>1, <3>2, Constants
        <4> QED
          BY <1>6, <3>2, <4>1 DEF Store, ThrOK
      <3> QED
        BY <3>1, <3>2
    <2>4. StepOK'
      BY <1>6 DEF Store, StepOK, ThrOK
    <2>5. GetOK'
      BY <1>6 DEF Store, GetOK
    <2> QED
      BY <1>6, <2>2, <2>3, <2>4, <2>5 DEF Store, LineOK
  <1>7. ASSUME NEW c \in Callers, CopyFirst(c) \/ CopySecond(c) \/ NotStreaming(c)
        PROVE  Parts'
    <2>1. CASE CopyFirst(c)
      <3>1. \A s \in Sensors : sensor_values[2 * s - 1] \in Content
        BY Constants DEF ValuesOK, Sensors
      <3>2. (step.clean /\ ~Storing) \in BOOLEAN
        BY DEF StepOK
      <3>3. GetOK'
        BY <2>1, <3>1, <3>2, ByteContent DEF CopyFirst, GetOK
      <3> QED
        BY <2>1, <3>3 DEF CopyFirst, LineOK, ThrOK, ValuesOK, StepOK
    <2>2. CASE CopySecond(c)
      <3>1. get[c].which \in Sensors /\ sensor_values[2 * get[c].which] \in Content
        BY Constants DEF ValuesOK, GetOK, Sensors
      <3>a. get' = [get EXCEPT ![c] = [get[c] EXCEPT !.pc = "done",
                      !.values = << get[c].values[1], sensor_values[2 * get[c].which] >>]]
        BY <2>2 DEF CopySecond
      <3>b. << get[c].values[1], sensor_values[2 * get[c].which] >> \in Content \X Content
        BY <3>1 DEF GetOK
      <3>2. GetOK'
        BY <3>a, <3>b DEF GetOK
      <3> QED
        BY <2>2, <3>2 DEF CopySecond, LineOK, ThrOK, ValuesOK, StepOK
    <2>3. CASE NotStreaming(c)
      <3>1. GetOK'
        BY <2>3, Constants, ByteContent DEF NotStreaming, GetOK, Sensors
      <3> QED
        BY <2>3, <3>1 DEF NotStreaming, LineOK, ThrOK, ValuesOK, StepOK
    <2> QED
      BY <1>7, <2>1, <2>2, <2>3
  <1>8. CASE UNCHANGED vars
    BY <1>8 DEF vars, LineOK, ThrOK, ValuesOK, GetOK, StepOK
  <1> QED
    BY <1>1, <1>2, <1>3, <1>4, <1>5, <1>6, <1>7, <1>8 DEF Next, SensorThread

(* Every variable of the sensor stream stays in its range. *)
THEOREM TypeCorrect == Spec => []TypeOK
PROOF BY InitTypes, NextTypes, PTL DEF Spec

-----------------------------------------------------------------------------
(* The bytes that come keep their distance.                                 *)

\* The byte that comes first stays first while the robot sends, or a lost one
\* went before it.
LEMMA FirstStays ==
  ASSUME LineOK, SendByte
  PROVE  Coming'[1] = Coming[1] \/ Coming'[1].gap
PROOF
  <1>0. Len(line) \in Nat /\ line \in Seq(Byte) /\ next \in Byte
    BY DEF LineOK
  <1>1. CASE Len(line) < Buffer
    <2>1. line' = Append(line, next) /\ line' \in Seq(Byte) /\ Len(line') = Len(line) + 1
      BY <1>0, <1>1 DEF SendByte
    <2>2. line'[1] = Coming[1]
      BY <2>1 DEF Coming
    <2>3. Coming'[1] = line'[1]
      BY <1>0, <2>1 DEF Coming
    <2> QED
      BY <2>2, <2>3
  <1>2. CASE ~(Len(line) < Buffer)
    <2>1. line' = line /\ Len(line) >= Buffer
      BY <1>0, <1>2, Constants DEF SendByte
    <2>2. next'.gap = TRUE
      BY <1>0, <2>1, FollowingIsByte DEF SendByte
    <2>3. CASE Len(line) = 0
      BY <1>0, <2>1, <2>2, <2>3 DEF Coming
    <2>4. CASE Len(line) # 0
      BY <1>0, <2>1, <2>4 DEF Coming
    <2> QED
      BY <2>3, <2>4
  <1> QED
    BY <1>1, <1>2

LEMMA LineInit == Init => LineInv
PROOF
  <1> SUFFICES ASSUME Init
               PROVE  LineInv
    OBVIOUS
  <1>1. Len(line) = 0
    BY DEF Init
  <1> QED
    BY <1>1 DEF LineInv

LEMMA LineSends ==
  ASSUME LineOK, LineInv, SendByte
  PROVE  LineInv'
PROOF
  <1>0. Len(line) \in Nat /\ line \in Seq(Byte) /\ next \in Byte
    BY DEF LineOK
  <1>c. /\ \A i \in 1..Len(line) : Coming[i] = line[i]
        /\ Coming[Len(line) + 1] = next
        /\ \A i \in 1..(Len(line) + 1) : Coming[i] \in Byte
    BY <1>0, ComingBytes
  <1>1. CASE Len(line) < Buffer
    <2>1. /\ line' = Append(line, next) /\ line' \in Seq(Byte) /\ Len(line') = Len(line) + 1
          /\ next' = Following(next, FALSE)
      <3>1. (Len(line) >= Buffer) = FALSE
        BY <1>0, <1>1, Constants
      <3>2. next' = Following(next, Len(line) >= Buffer) /\ line' = Append(line, next)
        BY <1>1 DEF SendByte
      <3>3. next' = Following(next, FALSE)
        BY <3>1, <3>2, Zenon
      <3>4. Append(line, next) \in Seq(Byte) /\ Len(Append(line, next)) = Len(line) + 1
        BY <1>0
      <3> QED
        BY <3>2, <3>3, <3>4
    <2>2. \A i \in 1..(Len(line) + 1) : Coming'[i] = Coming[i]
      BY <1>0, <2>1 DEF Coming
    <2>3. Coming'[Len(line) + 2] = next'
      BY <1>0, <2>1 DEF Coming
    <2> SUFFICES ASSUME NEW i \in 1..(Len(line) + 2), NEW j \in 1..(Len(line) + 2),
                        i < j, j - i <= Size, \A m \in (i + 1)..j : ~Coming'[m].gap
                 PROVE  Apart(Coming'[i], j - i, Coming'[j])
      BY <1>0, <2>1 DEF LineInv
    <2>4. i \in 1..(Len(line) + 1) /\ Coming'[i] = Coming[i]
      BY <1>0, <2>2
    <2>5. CASE j # Len(line) + 2
      <3>1. j \in 1..(Len(line) + 1) /\ Coming'[j] = Coming[j]
        BY <1>0, <2>2, <2>5
      <3>2. \A m \in (i + 1)..j : ~Coming[m].gap
        BY <1>0, <2>2, <2>4, <3>1
      <3> QED
        BY <2>4, <3>1, <3>2 DEF LineInv
    <2>6. CASE j = Len(line) + 2 /\ i = Len(line) + 1
      <3>1. j - i = 1
        BY <1>0, <2>6
      <3>2. Coming'[i] = next /\ Coming'[j] = Following(next, FALSE)
        BY <1>c, <2>1, <2>3, <2>4, <2>6
      <3>3. Apart(next, 1, Following(next, FALSE))
        BY <1>0, FollowingIsOneApart
      <3> QED
        BY <3>1, <3>2, <3>3
    <2>7. CASE j = Len(line) + 2 /\ i # Len(line) + 1
      <3>1. /\ i < Len(line) + 1 /\ Len(line) + 1 - i <= Size
            /\ Len(line) + 1 - i \in 1..(Size - 1) /\ j - i = (Len(line) + 1 - i) + 1
            /\ Len(line) + 1 \in 1..(Len(line) + 1)
        BY <1>0, <2>4, <2>7, Constants
      <3>2. \A m \in (i + 1)..(Len(line) + 1) : ~Coming[m].gap
        BY <1>0, <2>2, <2>4, <2>7
      <3>3. Apart(Coming[i], Len(line) + 1 - i, next)
        BY <1>c, <2>4, <3>1, <3>2 DEF LineInv
      <3>4. Apart(Coming[i], (Len(line) + 1 - i) + 1, Following(next, FALSE))
        BY <1>0, <1>c, <2>4, <3>1, <3>3, ApartAndFollowing
      <3> QED
        BY <2>1, <2>3, <2>4, <2>7, <3>1, <3>4
    <2> QED
      BY <2>5, <2>6, <2>7
  <1>2. CASE ~(Len(line) < Buffer)
    <2>1. line' = line /\ Len(line) >= Buffer
      BY <1>0, <1>2, Constants DEF SendByte
    <2>2. next'.gap = TRUE
      BY <1>0, <2>1, FollowingIsByte DEF SendByte
    <2>3. Coming'[Len(line) + 1] = next' /\ \A i \in 1..Len(line) : Coming'[i] = Coming[i]
      BY <1>0, <2>1 DEF Coming
    <2> SUFFICES ASSUME NEW i \in 1..(Len(line) + 1), NEW j \in 1..(Len(line) + 1),
                        i < j, j - i <= Size, \A m \in (i + 1)..j : ~Coming'[m].gap
                 PROVE  Apart(Coming'[i], j - i, Coming'[j])
      BY <2>1 DEF LineInv
    <2>4. j # Len(line) + 1
      <3>1. j \in (i + 1)..j
        BY <1>0
      <3> QED
        BY <2>2, <2>3, <3>1
    <2>5. i \in 1..Len(line) /\ j \in 1..Len(line)
      BY <1>0, <2>4
    <2>6. \A m \in (i + 1)..j : ~Coming[m].gap
      BY <1>0, <2>3, <2>5
    <2> QED
      BY <1>0, <2>3, <2>5, <2>6 DEF LineInv
  <1> QED
    BY <1>1, <1>2

LEMMA LineNext ==
  ASSUME LineOK, LineInv, [Next]_vars
  PROVE  LineInv'
PROOF
  <1>0. line \in Seq(Byte) /\ next \in Byte /\ Len(line) \in Nat
    BY DEF LineOK
  <1>1. CASE SendByte
    BY <1>1, LineSends
  <1>2. CASE Poll \/ PollSize
    BY <1>0, <1>2, UnreadMoves DEF Poll, PollSize
  <1>3. CASE PollRest
    <2>1. Taken \in 0..Len(line)
      BY <1>0, Constants DEF Taken
    <2> QED
      BY <1>0, <1>3, <2>1, ComingMoves DEF PollRest
  <1>4. CASE UNCHANGED <<line, next>>
    BY <1>4 DEF LineInv, Coming
  <1> QED
    BY <1>1, <1>2, <1>3, <1>4
    DEF Next, SensorThread, Toggle, Store, CopyFirst, CopySecond, NotStreaming, vars

-----------------------------------------------------------------------------
(* The thread: a packet it took cleanly is one packet from its third byte.   *)

OnePacket(rest) ==
  \E p \in 0..(Packets - 1) : \A i \in 1..Size :
    rest[i] = [packet |-> p, place |-> i + 1, gap |-> FALSE]

ThrInv ==
  thr.clean =>
    /\ thr.pc = "size" /\ ~Coming[1].gap => Coming[1].place = 1
    /\ thr.pc = "rest" /\ ~Coming[1].gap => Coming[1].place = 2
    /\ thr.pc = "store" => OnePacket(thr.rest)

\* What follows a byte that was read and was not lost.
LEMMA SecondByte ==
  ASSUME LineOK, LineInv, Fresh, ~Coming[2].gap
  PROVE  Apart(line[1], 1, Coming[2])
PROOF
  <1>1. Len(line) \in Nat /\ Len(line) >= 1
    BY FirstByte DEF LineOK
  <1>2. Coming[1] = line[1]
    BY <1>1, ComingBytes DEF LineOK
  <1>3. 1 \in 1..(Len(line) + 1) /\ 2 \in 1..(Len(line) + 1) /\ 1 < 2 /\ 2 - 1 = 1 /\ 1 <= Size
    BY <1>1, Constants
  <1>4. \A m \in (1 + 1)..2 : ~Coming[m].gap
    OBVIOUS
  <1> QED
    BY <1>2, <1>3, <1>4 DEF LineInv

LEMMA ThrNext ==
  ASSUME Parts, LineInv, ThrInv, [Next]_vars
  PROVE  ThrInv'
PROOF
  <1>0. line \in Seq(Byte) /\ next \in Byte /\ Len(line) \in Nat
    BY DEF Parts, LineOK
  <1>1. CASE SendByte
    <2>1. Coming'[1] = Coming[1] \/ Coming'[1].gap
      BY <1>1, FirstStays DEF Parts
    <2>2. thr' = thr
      BY <1>1 DEF SendByte
    <2> QED
      BY <2>1, <2>2 DEF ThrInv
  <1>2. CASE Poll
    <2>1. CASE ~thr'.clean
      BY <2>1 DEF ThrInv
    <2>2. CASE HoldsHeader /\ thr'.clean
      <3>1. thr'.pc = "size" /\ Fresh /\ line[1].place = 0
        BY <1>2, <2>2 DEF Poll, Parts, ThrOK
      <3>2. Coming'[1] = Coming[2]
        BY <1>0, <1>2, <3>1, UnreadMoves DEF Poll
      <3>3. ~Coming[2].gap => Coming[2].place = 1
        <4> SUFFICES ASSUME ~Coming[2].gap
                     PROVE  Coming[2].place = 1
          OBVIOUS
        <4>1. Apart(line[1], 1, Coming[2])
          BY <3>1, SecondByte DEF Parts
        <4> QED
          BY <3>1, <4>1, Constants DEF Apart
      <3> QED
        BY <3>1, <3>2, <3>3 DEF ThrInv
    <2>3. CASE ~HoldsHeader
      <3>1. thr'.pc = "poll"
        BY <1>2, <2>3 DEF Poll, Parts, ThrOK
      <3> QED
        BY <3>1 DEF ThrInv
    <2> QED
      BY <2>1, <2>2, <2>3
  <1>3. CASE PollSize
    <2>1. thr'.pc = "rest" /\ thr.pc = "size"
      BY <1>3 DEF PollSize, Parts, ThrOK
    <2> SUFFICES ASSUME thr'.clean, ~Coming'[1].gap
                 PROVE  Coming'[1].place = 2
      BY <2>1 DEF ThrInv
    <2>2. thr.clean /\ Fresh /\ ~line[1].gap
      BY <1>3 DEF PollSize, Parts, ThrOK
    <2>3. Coming[1] = line[1] /\ Coming'[1] = Coming[2]
      BY <1>0, <1>3, <2>2, UnreadMoves DEF PollSize
    <2>4. line[1].place = 1
      BY <2>1, <2>2, <2>3 DEF ThrInv
    <2>5. Apart(line[1], 1, Coming[2])
      BY <2>2, <2>3, SecondByte DEF Parts
    <2> QED
      BY <2>3, <2>4, <2>5, Constants DEF Apart
  <1>4. CASE PollRest
    <2>1. thr'.pc = "store" /\ thr.pc = "rest"
      BY <1>4 DEF PollRest, Parts, ThrOK
    <2> SUFFICES ASSUME thr'.clean
                 PROVE  OnePacket(thr'.rest)
      BY <2>1 DEF ThrInv
    <2>2. thr.clean /\ Full /\ thr'.rest = [i \in 1..Size |-> Value(line[i])]
      BY <1>4 DEF PollRest, Parts, ThrOK
    <2>3. Size <= Len(line) /\ \A i \in 1..Size : ~line[i].gap
      BY <1>0, <2>2, Constants DEF Full, Taken
    <2>4. \A i \in 1..Size : Coming[i] = line[i] /\ line[i] \in Byte
      BY <1>0, <2>3, Constants, ComingBytes
    <2>5. line[1].place = 2 /\ line[1].packet \in 0..(Packets - 1)
      BY <2>1, <2>2, <2>3, <2>4, Constants DEF ThrInv, Byte
    <2>6. \A i \in 1..Size : line[i].packet = line[1].packet /\ line[i].place = i + 1
      <3> SUFFICES ASSUME NEW i \in 1..Size
                   PROVE  line[i].packet = line[1].packet /\ line[i].place = i + 1
        OBVIOUS
      <3>1. CASE i = 1
        BY <2>5, <3>1
      <3>2. CASE i # 1
        <4>1. /\ 1 \in 1..(Len(line) + 1) /\ i \in 1..(Len(line) + 1)
              /\ 1 < i /\ i - 1 <= Size /\ 2 + (i - 1) < Length /\ 2 + (i - 1) = i + 1
          BY <1>0, <2>3, <3>2, Constants
        <4>2. \A m \in (1 + 1)..i : ~Coming[m].gap
          BY <2>3, <2>4, Constants
        <4>3. Apart(Coming[1], i - 1, Coming[i])
          BY <4>1, <4>2 DEF LineInv, Parts
        <4>4. Coming[1] = line[1] /\ Coming[i] = line[i]
          BY <2>4, Constants
        <4>5. Apart(line[1], i - 1, line[i])
          BY <4>3, <4>4
        <4> QED
          BY <2>5, <4>1, <4>5 DEF Apart
      <3> QED
        BY <3>1, <3>2
    <2>7. \A i \in 1..Size :
            thr'.rest[i] = [packet |-> line[1].packet, place |-> i + 1, gap |-> FALSE]
      <3> SUFFICES ASSUME NEW i \in 1..Size
                   PROVE  Value(line[i]) =
                            [packet |-> line[1].packet, place |-> i + 1, gap |-> FALSE]
        BY <2>2
      <3>1. line[i] \in Byte /\ line[i].packet = line[1].packet /\ line[i].place = i + 1
        BY <2>4, <2>6
      <3> QED
        BY <3>1 DEF Value
    <2> QED
      BY <2>5, <2>7 DEF OnePacket
  <1>5. CASE Store
    <2>1. thr'.clean = thr.clean /\ thr'.rest = thr.rest /\ thr.pc = "store"
          /\ thr'.pc \in {"poll", "store"}
      BY <1>5 DEF Store, Parts, ThrOK
    <2> QED
      BY <2>1 DEF ThrInv, OnePacket
  <1>6. CASE UNCHANGED <<line, next, thr>>
    BY <1>6 DEF ThrInv, Coming
  <1> QED
    BY <1>1, <1>2, <1>3, <1>4, <1>5, <1>6
    DEF Next, SensorThread, Toggle, CopyFirst, CopySecond, NotStreaming, vars

-----------------------------------------------------------------------------
(* The array: what a clean thread has stored, and what the callers copied.   *)

StoreInv ==
  /\ thr.pc # "store" => thr.at = 1
  /\ thr.pc = "store" => \A j \in 1..(thr.at - 1) : sensor_values[j] = Stored(j)
  /\ step.clean /\ ~Storing =>
       \A s \in Sensors : IsPair(<< sensor_values[2 * s - 1], sensor_values[2 * s] >>, s)

CopiedInv ==
  \A c \in Callers : get[c].pc = "second" /\ get[c].clean =>
    step.clean /\ ~Storing /\ get[c].values[1] = sensor_values[2 * get[c].which - 1]

LEMMA Entries ==
  ASSUME NEW s \in Sensors
  PROVE  /\ 2 * s - 1 \in 1..(2 * NumSensors) /\ 2 * s \in 1..(2 * NumSensors)
         /\ SensorAt(2 * s - 1) = s /\ SensorAt(2 * s) = s
         /\ (2 * s - 1) % 2 = 1 /\ (2 * s) % 2 = 0
PROOF BY Constants DEF Sensors, SensorAt

LEMMA StoredPair ==
  ASSUME OnePacket(thr.rest), NEW s \in Sensors
  PROVE  IsPair(<< Stored(2 * s - 1), Stored(2 * s) >>, s)
PROOF
  <1>1. PICK p \in 0..(Packets - 1) : \A i \in 1..Size :
          thr.rest[i] = [packet |-> p, place |-> i + 1, gap |-> FALSE]
    BY DEF OnePacket
  <1>2. Place[s] + 1 \in 1..Size /\ (s \in Wide => Place[s] + 2 \in 1..Size) /\ Place[s] \in Nat
    BY SensorsAssumption, Constants
  <1>3. Stored(2 * s - 1) = [packet |-> p, place |-> Place[s] + 2, gap |-> FALSE]
    <2>1. Stored(2 * s - 1) = thr.rest[Place[s] + 1]
      BY Entries DEF Stored
    <2>2. (Place[s] + 1) + 1 = Place[s] + 2
      BY <1>2
    <2> QED
      BY <1>1, <1>2, <2>1, <2>2
  <1>4. CASE s \in Wide
    <2>1. Stored(2 * s) = thr.rest[Place[s] + 2]
      BY <1>4, Entries DEF Stored
    <2>2. (Place[s] + 2) + 1 = Place[s] + 3
      BY <1>2
    <2>3. Stored(2 * s) = [packet |-> p, place |-> Place[s] + 3, gap |-> FALSE]
      BY <1>1, <1>2, <1>4, <2>1, <2>2
    <2>4. Stored(2 * s - 1).packet = p /\ Stored(2 * s - 1).place = Place[s] + 2 /\ p # -1
      BY <1>3
    <2>5. Stored(2 * s) = [packet |-> Stored(2 * s - 1).packet,
                           place |-> Place[s] + 3, gap |-> FALSE]
      BY <2>3, <2>4
    <2> QED
      BY <1>4, <2>4, <2>5 DEF IsPair
  <1>5. CASE s \notin Wide
    <2>1. Stored(2 * s) = NoByte
      BY <1>5, Entries DEF Stored
    <2> QED
      BY <1>2, <1>3, <1>5, <2>1 DEF IsPair
  <1> QED
    BY <1>4, <1>5

LEMMA StoreNext ==
  ASSUME Parts, ThrInv, StoreInv, [Next]_vars
  PROVE  StoreInv'
PROOF
  <1>1. CASE Poll \/ PollSize \/ PollRest
    <2>1. /\ thr.pc # "store" /\ thr.at = 1 /\ thr'.at = 1
          /\ sensor_values' = sensor_values /\ step'.clean = step.clean
      BY <1>1 DEF Poll, PollSize, PollRest, Parts, ThrOK, StepOK, StoreInv
    <2>2. ~Storing /\ ~Storing'
      BY <2>1 DEF Storing
    <2>3. \A j \in 1..(thr'.at - 1) : FALSE
      BY <2>1
    <2> QED
      BY <2>1, <2>2, <2>3 DEF StoreInv
  <1>2. CASE Store
    <2>0. /\ thr.pc = "store" /\ thr.at \in 1..(2 * NumSensors)
          /\ sensor_values' = [sensor_values EXCEPT ![thr.at] = Stored(thr.at)]
      BY <1>2 DEF Store, Parts, ThrOK
    <2>1. thr'.rest = thr.rest /\ \A j : Stored(j)' = Stored(j)
      BY <1>2 DEF Store, Parts, ThrOK, Stored, SensorAt
    <2>2. \A j \in 1..thr.at : sensor_values'[j] = Stored(j)
      BY <2>0, Constants DEF StoreInv, Parts, ValuesOK
    <2>3. CASE thr.at = 2 * NumSensors
      <3>1. thr'.pc = "poll" /\ thr'.at = 1 /\ step'.clean = thr.clean
        BY <1>2, <2>3 DEF Store, Parts, ThrOK, StepOK
      <3>2. ASSUME thr.clean, NEW s \in Sensors
            PROVE  IsPair(<< sensor_values'[2 * s - 1], sensor_values'[2 * s] >>, s)
        <4>1. OnePacket(thr.rest)
          BY <2>0, <3>2 DEF ThrInv
        <4>2. sensor_values'[2 * s - 1] = Stored(2 * s - 1) /\ sensor_values'[2 * s] = Stored(2 * s)
          BY <2>2, <2>3, Entries
        <4> QED
          BY <4>1, <4>2, StoredPair
      <3> QED
        BY <3>1, <3>2 DEF StoreInv, IsPair
    <2>4. CASE thr.at # 2 * NumSensors
      <3>1. thr'.pc = "store" /\ thr'.at = thr.at + 1 /\ thr'.at - 1 = thr.at /\ thr'.at > 1
        BY <1>2, <2>0, <2>4, Constants DEF Store, Parts, ThrOK
      <3>2. Storing'
        BY <3>1 DEF Storing
      <3> QED
        BY <2>1, <2>2, <3>1, <3>2 DEF StoreInv
    <2> QED
      BY <2>3, <2>4
  <1>3. CASE UNCHANGED <<thr, sensor_values, step>>
    BY <1>3 DEF StoreInv, Stored, SensorAt, Storing, IsPair
  <1> QED
    BY <1>1, <1>2, <1>3
    DEF Next, SensorThread, SendByte, Toggle, CopyFirst, CopySecond, NotStreaming, vars

LEMMA CopiedNext ==
  ASSUME Parts, StoreInv, CopiedInv, PairExplained, [Next]_vars
  PROVE  CopiedInv' /\ PairExplained'
PROOF
  <1>1. CASE Poll \/ PollSize \/ PollRest
    <2>1. /\ get' = get /\ sensor_values' = sensor_values /\ step'.clean = step.clean
          /\ thr.pc # "store" /\ thr'.at = 1
      BY <1>1 DEF Poll, PollSize, PollRest, Parts, ThrOK, StepOK, StoreInv
    <2>2. ~Storing'
      BY <2>1 DEF Storing
    <2> QED
      BY <2>1, <2>2 DEF CopiedInv, PairExplained, IsPair
  <1>2. CASE Store
    <2>1. \A c \in Callers : /\ get'[c].pc = get[c].pc /\ get'[c].which = get[c].which
                             /\ get'[c].values = get[c].values
                             /\ get'[c].clean = (get[c].clean /\ get[c].pc # "second")
      BY <1>2 DEF Store, Parts, GetOK
    <2> QED
      BY <2>1 DEF CopiedInv, PairExplained, IsPair
  <1>3. ASSUME NEW c \in Callers, CopyFirst(c) \/ CopySecond(c) \/ NotStreaming(c)
        PROVE  CopiedInv' /\ PairExplained'
    <2>1. /\ UNCHANGED <<thr, sensor_values, step>>
          /\ \A d \in Callers : d # c => get'[d] = get[d]
      BY <1>3 DEF CopyFirst, CopySecond, NotStreaming, Parts, GetOK
    <2>2. Storing' = Storing
      BY <2>1 DEF Storing
    <2>3. CASE CopyFirst(c)
      <3>1. PICK s \in Sensors :
              get' = [get EXCEPT ![c] = [pc |-> "second", which |-> s,
                                         values |-> << sensor_values[2 * s - 1], NoByte >>,
                                         clean |-> step.clean /\ ~Storing]]
        BY <2>3 DEF CopyFirst
      <3>2. get'[c] = [pc |-> "second", which |-> s,
                       values |-> << sensor_values[2 * s - 1], NoByte >>,
                       clean |-> step.clean /\ ~Storing]
        BY <3>1 DEF Parts, GetOK
      <3>3. /\ get'[c].pc = "second" /\ get'[c].which = s
            /\ get'[c].values[1] = sensor_values[2 * s - 1]
            /\ get'[c].clean = (step.clean /\ ~Storing)
        BY <3>2
      <3> QED
        BY <2>1, <2>2, <3>3 DEF CopiedInv, PairExplained, IsPair
    <2>4. CASE CopySecond(c)
      <3>1. get'[c] = [get[c] EXCEPT !.pc = "done",
              !.values = << get[c].values[1], sensor_values[2 * get[c].which] >>]
        BY <2>4 DEF CopySecond, Parts, GetOK
      <3>2. /\ get'[c].pc = "done" /\ get'[c].which = get[c].which /\ get'[c].clean = get[c].clean
            /\ get'[c].values = << get[c].values[1], sensor_values[2 * get[c].which] >>
            /\ get[c].which \in Sensors /\ get[c].pc = "second"
        BY <2>4, <3>1 DEF CopySecond, Parts, GetOK
      <3>3. get'[c].clean => IsPair(get'[c].values, get'[c].which)
        <4> SUFFICES ASSUME get'[c].clean
                     PROVE  IsPair(get'[c].values, get'[c].which)
          OBVIOUS
        <4>1. step.clean /\ ~Storing /\ get[c].values[1] = sensor_values[2 * get[c].which - 1]
          BY <3>2 DEF CopiedInv
        <4>2. IsPair(<< sensor_values[2 * get[c].which - 1], sensor_values[2 * get[c].which] >>,
                     get[c].which)
          BY <3>2, <4>1 DEF StoreInv
        <4> QED
          BY <3>2, <4>1, <4>2
      <3> QED
        BY <2>1, <2>2, <3>2, <3>3 DEF CopiedInv, PairExplained, IsPair
    <2>5. CASE NotStreaming(c)
      <3>1. get'[c].pc = "done" /\ get'[c].clean = FALSE
        BY <2>5 DEF NotStreaming, Parts, GetOK
      <3> QED
        BY <2>1, <2>2, <3>1 DEF CopiedInv, PairExplained, IsPair
    <2> QED
      BY <1>3, <2>3, <2>4, <2>5
  <1>4. CASE UNCHANGED <<thr, sensor_values, step, get>>
    BY <1>4 DEF CopiedInv, PairExplained, IsPair, Storing
  <1> QED
    BY <1>1, <1>2, <1>3, <1>4 DEF Next, SensorThread, SendByte, Toggle, vars

PairInv == TypeOK /\ LineInv /\ ThrInv /\ StoreInv /\ CopiedInv /\ PairExplained

(* What a caller gets without one of the named mishaps are the two bytes of *)
(* its sensor in one packet, though get_sensor_value takes no mutex.        *)
THEOREM PairIsExplained == Spec => []PairExplained
PROOF
  <1>1. Init => PairInv
    <2> SUFFICES ASSUME Init
                 PROVE  PairInv
      OBVIOUS
    <2>1. thr.pc = "poll" /\ thr.clean = FALSE /\ thr.at = 1 /\ step.clean = FALSE
      BY DEF Init
    <2>2. ThrInv /\ StoreInv
      BY <2>1 DEF ThrInv, StoreInv
    <2>3. \A c \in Callers : get[c].pc = "idle"
      BY DEF Init, CallerIdle
    <2>4. CopiedInv /\ PairExplained
      BY <2>3 DEF CopiedInv, PairExplained
    <2> QED
      BY <2>2, <2>4, InitTypes, LineInit DEF PairInv
  <1>2. PairInv /\ [Next]_vars => PairInv'
    <2> SUFFICES ASSUME PairInv, [Next]_vars
                 PROVE  PairInv'
      OBVIOUS
    <2>1. Parts /\ LineOK
      BY TypeIsParts DEF PairInv, Parts
    <2> QED
      BY <2>1, NextTypes, LineNext, ThrNext, StoreNext, CopiedNext DEF PairInv
  <1>3. PairInv => PairExplained
    BY DEF PairInv
  <1> QED
    BY <1>1, <1>2, <1>3, PTL DEF Spec

-----------------------------------------------------------------------------
(* The phase: in step or out of step, the thread reads every packet alike.  *)

\* Place p of a packet and the places after it, wrapped into the next packet.
Wrapped(p) == IF p < Length THEN p ELSE p - Length

\* What the thread has taken of the packet it is in.
Offset == CASE thr.pc = "size" -> 1 [] thr.pc = "rest" -> 2 [] OTHER -> 0

PhaseInv ==
  step.steady =>
    /\ step.header \in Places
    /\ ~Coming[1].gap => Coming[1].place = Wrapped(step.header + Offset)

LEMMA PhaseNext ==
  ASSUME Parts, LineInv, PhaseInv, [Next]_vars
  PROVE  PhaseInv'
PROOF
  <1>0. line \in Seq(Byte) /\ next \in Byte /\ Len(line) \in Nat
    BY DEF Parts, LineOK
  <1>1. CASE SendByte
    <2>1. Coming'[1] = Coming[1] \/ Coming'[1].gap
      BY <1>1, FirstStays DEF Parts
    <2> QED
      BY <1>1, <2>1 DEF SendByte, PhaseInv, Offset, Wrapped
  <1>2. CASE Poll
    <2> SUFFICES ASSUME step'.steady
                 PROVE  /\ step'.header \in Places
                        /\ ~Coming'[1].gap => Coming'[1].place = Wrapped(step'.header + Offset')
      BY DEF PhaseInv, Wrapped
    <2>1. CASE Fresh
      <3>1. /\ step'.header = line[1].place /\ thr'.pc = "size" /\ line[1] \in Byte
            /\ line[1].place \in Places
        BY <1>0, <1>2, <2>1, FirstByte DEF Poll, Parts, ThrOK, StepOK, Byte
      <3>2. Coming'[1] = Coming[2] /\ Offset' = 1
        BY <1>0, <1>2, <2>1, <3>1, UnreadMoves DEF Poll, Offset
      <3>3. ~Coming[2].gap => Coming[2].place = Wrapped(line[1].place + 1)
        <4> SUFFICES ASSUME ~Coming[2].gap
                     PROVE  Coming[2].place = Wrapped(line[1].place + 1)
          OBVIOUS
        <4>1. Apart(line[1], 1, Coming[2])
          BY <2>1, SecondByte DEF Parts
        <4> QED
          BY <3>1, <4>1, Constants DEF Apart, Wrapped, Places
      <3> QED
        BY <3>1, <3>2, <3>3
    <2>2. CASE ~Fresh
      <3>1. ~HoldsHeader /\ step'.header = step.header /\ step.steady /\ thr'.pc = "poll"
            /\ thr.pc = "poll"
        BY <1>2, <2>2 DEF Poll, Parts, ThrOK, StepOK
      <3>2. Coming'[1] = Coming[1] /\ Offset' = Offset
        BY <1>0, <1>2, <2>2, <3>1, UnreadMoves DEF Poll, Offset
      <3> QED
        BY <3>1, <3>2 DEF PhaseInv
    <2> QED
      BY <2>1, <2>2
  <1>3. CASE PollSize
    <2> SUFFICES ASSUME step'.steady
                 PROVE  /\ step'.header \in Places
                        /\ ~Coming'[1].gap => Coming'[1].place = Wrapped(step'.header + Offset')
      BY DEF PhaseInv, Wrapped
    <2>1. /\ step.steady /\ Fresh /\ ~line[1].gap /\ step'.header = step.header
          /\ thr.pc = "size" /\ thr'.pc = "rest"
      BY <1>3 DEF PollSize, Parts, ThrOK, StepOK
    <2>2. Coming[1] = line[1] /\ Coming'[1] = Coming[2] /\ Offset = 1 /\ Offset' = 2
      BY <1>0, <1>3, <2>1, UnreadMoves DEF PollSize, Offset
    <2>3. line[1].place = Wrapped(step.header + 1) /\ step.header \in Places
      BY <2>1, <2>2 DEF PhaseInv
    <2>4. ~Coming[2].gap => Coming[2].place = Wrapped(step.header + 2)
      BY <2>1, <2>3, SecondByte, Constants DEF Apart, Wrapped, Parts, Places
    <2> QED
      BY <2>1, <2>2, <2>3, <2>4
  <1>4. CASE PollRest
    <2> SUFFICES ASSUME step'.steady
                 PROVE  /\ step'.header \in Places
                        /\ ~Coming'[1].gap => Coming'[1].place = Wrapped(step'.header + Offset')
      BY DEF PhaseInv, Wrapped
    <2>1. /\ step.steady /\ Full /\ step'.header = step.header
          /\ thr.pc = "rest" /\ thr'.pc = "store"
      BY <1>4 DEF PollRest, Parts, ThrOK, StepOK
    <2>2. Taken = Size /\ Size <= Len(line) /\ \A i \in 1..Size : ~line[i].gap
      BY <1>0, <2>1, Constants DEF Full, Taken
    <2>3. /\ Offset = 2 /\ Offset' = 0
          /\ \A i \in 1..(Len(line') + 1) : Coming'[i] = Coming[i + Size]
          /\ Len(line') = Len(line) - Size
      <3>1. line' = SubSeq(line, Size + 1, Len(line)) /\ next' = next
        BY <1>4, <2>2 DEF PollRest
      <3>2. Size \in 0..Len(line)
        BY <1>0, <2>2, Constants
      <3>3. Offset = 2 /\ Offset' = 0
        BY <2>1 DEF Offset
      <3> QED
        BY <1>0, <3>1, <3>2, <3>3, ComingMoves
    <2>4. Coming'[1] = Coming[Size + 1]
      BY <1>0, <2>2, <2>3, Constants
    <2>5. Coming[1] = line[1] /\ line[1].place = Wrapped(step.header + 2) /\ step.header \in Places
      BY <1>0, <2>1, <2>2, <2>3, Constants, ComingBytes DEF PhaseInv
    <2>6. ~Coming[Size + 1].gap => Coming[Size + 1].place = Wrapped(step.header)
      <3> SUFFICES ASSUME ~Coming[Size + 1].gap
                   PROVE  Coming[Size + 1].place = Wrapped(step.header)
        OBVIOUS
      <3>1. \A m \in (1 + 1)..(Size + 1) : ~Coming[m].gap
        <4>1. \A m \in 1..Size : Coming[m] = line[m] /\ ~line[m].gap
          BY <1>0, <2>2, Constants, ComingBytes
        <4>2. \A m \in (1 + 1)..(Size + 1) : m = Size + 1 \/ m \in 1..Size
          BY Constants
        <4> QED
          BY <4>1, <4>2
      <3>2. /\ 1 \in 1..(Len(line) + 1) /\ Size + 1 \in 1..(Len(line) + 1)
            /\ 1 < Size + 1 /\ (Size + 1) - 1 = Size
        BY <1>0, <2>2, Constants
      <3>3. Apart(Coming[1], Size, Coming[Size + 1])
        BY <3>1, <3>2 DEF LineInv
      <3> QED
        BY <2>5, <3>3, Constants DEF Apart, Wrapped, Places
    <2>7. step'.header + 0 = step'.header
      BY <2>1, <2>5, Constants DEF Places
    <2> QED
      BY <2>1, <2>3, <2>4, <2>5, <2>6, <2>7
  <1>5. CASE Store
    <2>1. step'.header = step.header /\ step'.steady = step.steady /\ Offset' = Offset
      BY <1>5 DEF Store, Parts, ThrOK, StepOK, Offset
    <2> QED
      BY <1>5, <2>1 DEF Store, PhaseInv, Coming, Wrapped
  <1>6. CASE UNCHANGED <<line, next, thr, step>>
    BY <1>6 DEF PhaseInv, Coming, Offset, Wrapped
  <1> QED
    BY <1>1, <1>2, <1>3, <1>4, <1>5, <1>6
    DEF Next, SensorThread, Toggle, CopyFirst, CopySecond, NotStreaming, vars

LEMMA PhaseStep ==
  ASSUME Parts, PhaseInv, [Next]_vars
  PROVE  step.steady /\ step'.header # step.header =>
           IF Fresh THEN line[1].gap ELSE thr.header
PROOF
  <1> SUFFICES ASSUME step.steady, step'.header # step.header
               PROVE  IF Fresh THEN line[1].gap ELSE thr.header
    OBVIOUS
  <1>1. Poll /\ HoldsHeader
    BY DEF Next, SensorThread, SendByte, Toggle, Poll, PollSize, PollRest, Store,
           CopyFirst, CopySecond, NotStreaming, vars, Parts, StepOK
  <1>2. CASE Fresh
    <2>1. step'.header = line[1].place /\ thr.pc = "poll"
      BY <1>1, <1>2 DEF Poll, Parts, StepOK
    <2>2. Coming[1] = line[1]
      BY <1>2, FirstByte, ComingBytes DEF Parts, LineOK
    <2>3. Wrapped(step.header + Offset) = step.header
      BY <2>1, Constants DEF PhaseInv, Offset, Wrapped, Places
    <2> QED
      BY <1>2, <2>1, <2>2, <2>3 DEF PhaseInv, Parts, StepOK
  <1>3. CASE ~Fresh
    BY <1>1, <1>3 DEF HoldsHeader
  <1> QED
    BY <1>2, <1>3

(* The thread keeps taking its header at one place of the packet while no   *)
(* byte is lost and its reads are full, wherever that place is.             *)
THEOREM PhaseIsKept == Spec => PhaseKept
PROOF
  <1> DEFINE IInv == TypeOK /\ LineInv /\ PhaseInv
  <1>1. Init => IInv
    <2>1. Init => PhaseInv
      <3>1. Init => ~step.steady
        BY DEF Init
      <3> QED
        BY <3>1 DEF PhaseInv
    <2> QED
      BY <2>1, InitTypes, LineInit
  <1>2. IInv /\ [Next]_vars => IInv'
    BY TypeIsParts, NextTypes, LineNext, PhaseNext DEF Parts
  <1>3. IInv /\ [Next]_vars =>
          [step.steady /\ step'.header # step.header =>
             IF Fresh THEN line[1].gap ELSE thr.header]_vars
    BY TypeIsParts, PhaseStep
  <1> QED
    BY <1>1, <1>2, <1>3, PTL DEF Spec, PhaseKept

-----------------------------------------------------------------------------
(* The connections between the server and its clients.                      *)

\* What a connection carries.
Tokens == Int \cup {At, Nul}

\* The messages of the clients: a report mixes a pose and a later one; of the lines typed
\* at a client, those of the kinds K.
Reports == UNION {{Report(Mixed(i, j)) : i \in 1..j} : j \in 1..Len(Poses)}
SensorAnswers == {SensorAnswer(s) : s \in SensorIds}
TypedLines == {TypedLine(l) : l \in Seq(Int)}
Upward(K) == Reports \cup SensorAnswers \cup {QuitAnswer} \cup {m \in TypedLines : m[2] \in K}

\* Message m stands in the text from place i on, the next one or nothing behind it.
Stands(m, text, i) ==
  /\ i + Len(m) <= Len(text) + 1
  /\ \A j \in 1..Len(m) : text[i + j - 1] = m[j]
  /\ i + Len(m) <= Len(text) => text[i + Len(m)] = At

\* Every header in the text begins a whole message.
Whole(text, K) ==
  \A i \in 1..Len(text) : text[i] = At => \E m \in Upward(K) : Stands(m, text, i)

\* Where the answers to sensor commands begin.
AnswersIn(text) == {i \in 1..(Len(text) - 1) : text[i] = At /\ text[i + 1] = 2}

\* The values of the variables, exactly.
TypeInv ==
  /\ SessionTypeOK
  /\ up \in [Clients -> Seq(Tokens)]
  /\ down \in [Clients -> Seq(Messages \cup {Quit})]
  /\ known \in [Clients -> [view : View, sensor : SensorIds, done : BOOLEAN, died : BOOLEAN]]
  /\ hist \in [Clients -> [taken : BOOLEAN, cut : BOOLEAN, missed : BOOLEAN,
                           typed : SUBSET Int, told : BOOLEAN, threw : BOOLEAN]]

\* A report in the making is of the pose the client has or of an earlier one.
RowInv == \A c \in Clients : cl[c].row <= cl[c].pose

\* What begins on a connection is a whole message.
UpInv == \A c \in Clients : Whole(up[c], hist[c].typed)

\* The server runs on only while no report has killed it and no answer ended it.
FlagsInv ==
  /\ Open => \A c \in Clients : ~known[c].died
  /\ srv = "run" => \A c \in Clients : ~known[c].done

\* Without a reason to end nobody is leaving, every connection begins with a message, none
\* ends the server, and all robots stay on the grid.
Reason ==
  cuts > 0 \/ \E c \in Clients : hist[c].told \/ hist[c].threw \/ hist[c].typed \cap {1, 5} # {}
Quiet(c) ==
  /\ cl[c].pc \notin {"leaving", "ended"}
  /\ \A i \in 1..Len(down[c]) : down[c][i] # Quit
  /\ \A i \in 1..(Len(up[c]) - 1) : up[c][i] = At => up[c][i + 1] # 5
  /\ up[c] # << >> => up[c][1] = At
  /\ settled => OnGrid(known[c].view)
ReasonInv ==
  \/ Reason
  \/ srv = "crashed" /\ ~settled
  \/ srv = "run" /\ \A c \in Clients : Quiet(c)

\* The last answer under way names the client's sensor; without one the server's label does.
Labelled(c) ==
  /\ \A i \in AnswersIn(up[c]) :
       (\A j \in AnswersIn(up[c]) : j <= i) => up[c][i + 2] = cl[c].sensor
  /\ AnswersIn(up[c]) = {} /\ ~hist[c].missed => known[c].sensor = cl[c].sensor
LabelInv == Open => \A c \in Clients : 2 \notin hist[c].typed => Labelled(c)

\* The inductive invariant.
SessionInv ==
  /\ TypeInv /\ RowInv /\ UpInv /\ FlagsInv /\ ReasonInv /\ LabelInv /\ ViewExplained

\* A set of natural numbers has a smallest element.
LEMMA SmallestExists ==
  ASSUME NEW T \in SUBSET Nat, T # {}
  PROVE  \E x \in T : \A y \in T : x <= y
PROOF
  <1> DEFINE below(i) == {m \in T : m <= i}
             family   == {below(i) : i \in T}
  <1>1. \A i \in T : IsFiniteSet(below(i))
    BY FS_BoundedSetOfNaturals
  <1>2. family \subseteq FiniteSubsetsOf(Nat) /\ family # {}
    BY <1>1 DEF FiniteSubsetsOf
  <1>3. PICK s \in family : \A t \in family : << t, s >> \notin StrictSubsetOrdering(Nat)
    BY <1>2, FS_StrictSubsetOrderingWellFounded, WFMin
  <1>4. PICK x \in T : s = below(x)
    BY <1>3
  <1>5. ASSUME NEW y \in T, y < x
        PROVE  FALSE
    <2>1. below(y) \in family
      OBVIOUS
    <2>a. x \in Nat /\ y \in Nat /\ \A m \in T : m \in Nat /\ (m <= y => m <= x)
      BY <1>5
    <2>b. x <= x /\ ~(x <= y)
      BY <1>5, <2>a
    <2>2. below(y) \subseteq s /\ x \in s /\ x \notin below(y)
      BY <1>4, <2>a, <2>b
    <2>3. << below(y), s >> \in StrictSubsetOrdering(Nat)
      BY <2>2, <1>4 DEF StrictSubsetOrdering
    <2> QED
      BY <1>3, <2>1, <2>3
  <1> QED
    BY <1>5

-----------------------------------------------------------------------------
(* Tokens and messages.                                                     *)

\* '@' and the zero byte are no digits.
LEMMA MarksAreNoNumbers == At # Nul /\ \A x \in Int : x # At /\ x # Nul
PROOF BY WireAssumption

LEMMA TokenFacts ==
  /\ At # Nul /\ \A x \in Int : x # At /\ x # Nul
  /\ SensorIds \subseteq Int /\ Len(Poses) \in Nat /\ Len(Poses) >= 1
  /\ \A j \in 1..Len(Poses) : Poses[j] \in View
PROOF
  BY WireAssumption, SessionAssumption DEF View

\* Two sequences joined.
LEMMA Joined ==
  ASSUME NEW S, NEW s \in Seq(S), NEW t \in Seq(S)
  PROVE  /\ s \o t \in Seq(S) /\ Len(s \o t) = Len(s) + Len(t)
         /\ \A i \in 1..Len(s) : (s \o t)[i] = s[i]
         /\ \A i \in 1..Len(t) : (s \o t)[Len(s) + i] = t[i]
PROOF
  <1>1. Len(s) \in Nat /\ Len(t) \in Nat
    OBVIOUS
  <1>2. /\ s \o t \in Seq(S) /\ Len(s \o t) = Len(s) + Len(t)
        /\ \A i \in 1..(Len(s) + Len(t)) :
             (s \o t)[i] = IF i <= Len(s) THEN s[i] ELSE t[i - Len(s)]
    BY ConcatProperties
  <1>3. \A i \in 1..Len(s) : (s \o t)[i] = s[i]
    BY <1>1, <1>2
  <1>4. ASSUME NEW i \in 1..Len(t)
        PROVE  (s \o t)[Len(s) + i] = t[i]
    <2>1. Len(s) + i \in 1..(Len(s) + Len(t)) /\ ~(Len(s) + i <= Len(s)) /\ Len(s) + i - Len(s) = i
      BY <1>1
    <2> QED
      BY <1>2, <2>1
  <1> QED
    BY <1>2, <1>3, <1>4

\* Poses and the mixtures the update thread composes are sequences of eight numbers.
LEMMA PosesAreSequences ==
  ASSUME NEW p \in [1..8 -> Int]
  PROVE  p \in Seq(Int) /\ Len(p) = 8
PROOF
  <1>1. p \in Seq(Int)
    BY SeqDef
  <1>2. DOMAIN p = 1..8 /\ DOMAIN p = 1..Len(p) /\ Len(p) \in Nat
    BY <1>1, LenProperties
  <1>3. 8 \in 1..Len(p) /\ ~(Len(p) + 1 \in 1..8)
    <2>1. \A n \in Nat : Len(p) = n => n + 1 \notin 1..Len(p) /\ 8 \in 1..8
      OBVIOUS
    <2> QED
      BY <1>2, <2>1
  <1> QED
    BY <1>1, <1>2, <1>3

LEMMA MixedFields ==
  ASSUME NEW i \in 1..Len(Poses), NEW j \in 1..Len(Poses)
  PROVE  /\ Poses[i] \in Seq(Int) /\ Len(Poses[i]) = 8
         /\ Mixed(i, j) \in Seq(Int) /\ Len(Mixed(i, j)) = 8
         /\ Mixed(i, j)[1] = Poses[i][1]
         /\ \A f \in 2..8 : Mixed(i, j)[f] = Poses[j][f]
PROOF
  <1>a. Poses[i] \in [1..8 -> Int] /\ Poses[j] \in [1..8 -> Int]
    BY TokenFacts DEF View, ROW, MODE
  <1>p. PICK p : p = Poses[i]
    OBVIOUS
  <1>q. PICK q : q = Poses[j]
    OBVIOUS
  <1>r. PICK r : r = Mixed(i, j)
    OBVIOUS
  <1> DEFINE h == << p[1] >>
             t == Tail(q)
  <1>0. Poses[i] \in Seq(Int) /\ Len(Poses[i]) = 8
    BY <1>a, PosesAreSequences, Zenon
  <1>1. q \in Seq(Int) /\ Len(q) = 8
    BY <1>a, <1>q, PosesAreSequences, Zenon
  <1>2. h \in Seq(Int) /\ Len(h) = 1 /\ h[1] = p[1]
    <2>1. \A g \in [1..8 -> Int] : g[1] \in Int
      OBVIOUS
    <2>2. p[1] \in Int
      BY <1>a, <1>p, <2>1, Zenon
    <2> QED
      BY <2>2
  <1>3. t \in Seq(Int) /\ Len(t) = 7 /\ \A n \in 1..7 : t[n] = q[n + 1]
    <2>a. 8 # 0
      OBVIOUS
    <2>1. q # << >>
      BY <1>1, <2>a, EmptySeq, Zenon
    <2>2. /\ t \in Seq(Int) /\ Len(t) = Len(q) - 1
          /\ \A n \in 1..Len(t) : t[n] = q[n + 1]
      BY <1>1, <2>1, HeadTailProperties
    <2>3. Len(q) - 1 = 7
      BY <1>1
    <2> QED
      BY <2>2, <2>3
  <1>4. r = h \o t
    BY <1>p, <1>q, <1>r DEF Mixed, ROW
  <1> HIDE DEF h, t
  <1>5. /\ r \in Seq(Int) /\ Len(r) = Len(h) + Len(t)
        /\ \A n \in 1..Len(h) : r[n] = h[n]
        /\ \A n \in 1..Len(t) : r[Len(h) + n] = t[n]
    <2>1. h \in Seq(Int) /\ t \in Seq(Int)
      BY <1>2, <1>3
    <2>2. /\ h \o t \in Seq(Int) /\ Len(h \o t) = Len(h) + Len(t)
          /\ \A n \in 1..Len(h) : (h \o t)[n] = h[n]
          /\ \A n \in 1..Len(t) : (h \o t)[Len(h) + n] = t[n]
      BY <2>1, Joined, ConcatProperties
    <2> QED
      BY <1>4, <2>2, Zenon
  <1>6. r[1] = p[1] /\ Len(r) = 8
    BY <1>2, <1>3, <1>5
  <1>7. \A f \in 2..8 : r[f] = q[f]
    <2> SUFFICES ASSUME NEW f \in 2..8
                 PROVE  r[f] = q[f]
      OBVIOUS
    <2>1. f - 1 \in 1..7 /\ 1 + (f - 1) = f /\ (f - 1) + 1 = f
      OBVIOUS
    <2>2. r[1 + (f - 1)] = t[f - 1]
      BY <1>2, <1>3, <1>5, <2>1
    <2>3. t[f - 1] = q[(f - 1) + 1]
      BY <1>3, <2>1
    <2> QED
      BY <2>1, <2>2, <2>3
  <1> QED
    BY <1>p, <1>q, <1>r, <1>0, <1>5, <1>6, <1>7, Zenon

\* The mixture of two poses is a pose.
LEMMA MixedType ==
  ASSUME NEW i \in 1..Len(Poses), NEW j \in 1..Len(Poses)
  PROVE  /\ Mixed(i, j) \in Seq(Int) /\ Mixed(i, j) \in View /\ Len(Mixed(i, j)) = 8
         /\ Mixed(i, i) = Poses[i]
PROOF
  <1>1. Mixed(i, j) \in Seq(Int) /\ Len(Mixed(i, j)) = 8
    BY MixedFields
  <1>2. Mixed(i, j) \in View
    BY <1>1, LenProperties DEF View, ROW, MODE
  <1>3. Mixed(i, i) = Poses[i]
    <2>1. /\ Poses[i] \in Seq(Int) /\ Len(Poses[i]) = 8
          /\ Mixed(i, i) \in Seq(Int) /\ Len(Mixed(i, i)) = 8
          /\ Mixed(i, i)[1] = Poses[i][1]
          /\ \A f \in 2..8 : Mixed(i, i)[f] = Poses[i][f]
      BY MixedFields
    <2>2. \A f \in 1..8 : f = 1 \/ f \in 2..8
      OBVIOUS
    <2>3. \A f \in 1..8 : Mixed(i, i)[f] = Poses[i][f]
      BY <2>1, <2>2
    <2> QED
      BY <2>1, <2>3, SeqEqual
  <1> QED
    BY <1>1, <1>2, <1>3

LEMMA Headed ==
  ASSUME NEW p \in Seq(Int \cup {At}), Len(p) = 8, NEW m, m = << At, 1 >> \o p
  PROVE  /\ m \in Seq(Int \cup {At}) /\ Len(m) = 10 /\ m[1] = At /\ m[2] = 1
         /\ \A f \in 1..8 : m[f + 2] = p[f]
PROOF
  <1> DEFINE h == << At, 1 >>
  <1>2. h \in Seq(Int \cup {At}) /\ Len(h) = 2 /\ h[1] = At /\ h[2] = 1
    OBVIOUS
  <1>3. m = h \o p
    OBVIOUS
  <1> HIDE DEF h
  <1>4. /\ m \in Seq(Int \cup {At}) /\ Len(m) = 10 /\ m[1] = At /\ m[2] = 1
        /\ \A n \in 1..8 : m[2 + n] = p[n]
    <2>1. h \in Seq(Int \cup {At})
      BY <1>2
    <2>2. /\ h \o p \in Seq(Int \cup {At}) /\ Len(h \o p) = Len(h) + Len(p)
          /\ \A n \in 1..(Len(h) + Len(p)) :
               (h \o p)[n] = IF n <= Len(h) THEN h[n] ELSE p[n - Len(h)]
      BY <2>1, ConcatProperties
    <2>3. /\ m \in Seq(Int \cup {At}) /\ Len(m) = Len(h) + Len(p)
          /\ \A n \in 1..(Len(h) + Len(p)) : m[n] = IF n <= Len(h) THEN h[n] ELSE p[n - Len(h)]
      BY <1>3, <2>2, Zenon
    <2>4. /\ 1 \in 1..(2 + 8) /\ 2 \in 1..(2 + 8) /\ 1 <= 2 /\ 2 <= 2
          /\ \A n \in 1..8 : 2 + n \in 1..(2 + 8) /\ ~(2 + n <= 2) /\ 2 + n - 2 = n
      OBVIOUS
    <2>5. /\ m \in Seq(Int \cup {At}) /\ Len(m) = 2 + 8
          /\ \A n \in 1..(2 + 8) : (n <= 2 => m[n] = h[n]) /\ (~(n <= 2) => m[n] = p[n - 2])
      BY <1>2, <2>3
    <2>6. \A n \in 1..8 : m[2 + n] = p[n]
      BY <2>4, <2>5
    <2>7. m[1] = h[1] /\ m[2] = h[2]
      BY <2>5
    <2> QED
      BY <1>2, <2>5, <2>6, <2>7
  <1>5. \A f \in 1..8 : 2 + f = f + 2
    OBVIOUS
  <1> QED
    BY <1>4, <1>5, Zenon

\* A report is a header, a 1, and the fields of a mixture.
LEMMA ReportShape ==
  ASSUME NEW m \in Reports
  PROVE  \E i, j \in 1..Len(Poses) :
           /\ i <= j /\ m = Report(Mixed(i, j))
           /\ m \in Seq(Int \cup {At}) /\ Len(m) = 10 /\ m[1] = At /\ m[2] = 1
           /\ \A f \in 1..8 : m[f + 2] = Mixed(i, j)[f]
PROOF
  <1>1. PICK i, j \in 1..Len(Poses) : i <= j /\ m = Report(Mixed(i, j))
    BY TokenFacts DEF Reports
  <1>a. Mixed(i, j) \in Seq(Int) /\ Len(Mixed(i, j)) = 8
    BY MixedType
  <1>2. Mixed(i, j) \in Seq(Int \cup {At}) /\ Len(Mixed(i, j)) = 8
    BY <1>a
  <1>3. m = << At, 1 >> \o Mixed(i, j)
    BY <1>1 DEF Report
  <1>4. /\ m \in Seq(Int \cup {At}) /\ Len(m) = 10 /\ m[1] = At /\ m[2] = 1
        /\ \A f \in 1..8 : m[f + 2] = Mixed(i, j)[f]
    BY <1>2, <1>3, Headed
  <1> QED
    BY <1>1, <1>4

\* A line typed at a client is a header, numbers, and a zero byte.
LEMMA TypedShape ==
  ASSUME NEW m \in TypedLines
  PROVE  /\ m \in Seq(Tokens) /\ Len(m) \in Nat /\ Len(m) >= 3 /\ m[1] = At
         /\ \A j \in 2..(Len(m) - 1) : m[j] \in Int
         /\ m[Len(m)] = Nul
         /\ m[2] # 0 => Len(m) >= 4
PROOF
  <1>1. PICK l \in Seq(Int) : m = TypedLine(l)
    BY DEF TypedLines
  <1>2. PICK n \in Nat : n = Len(l)
    OBVIOUS
  <1>3. PICK h : h = << At >>
    OBVIOUS
  <1>4. PICK e : e = << Newline, Nul >>
    OBVIOUS
  <1>5. h \in Seq(Tokens) /\ Len(h) = 1 /\ h[1] = At
    BY <1>3 DEF Tokens
  <1>6. e \in Seq(Tokens) /\ Len(e) = 2 /\ e[1] = 0 /\ e[2] = Nul
    BY <1>4 DEF Tokens, Newline
  <1>7. l \in Seq(Tokens) /\ \A j \in 1..n : l[j] \in Int
    BY <1>2 DEF Tokens
  <1>8. PICK b : b = h \o l
    OBVIOUS
  <1>9. /\ b \in Seq(Tokens) /\ Len(b) = 1 + n
        /\ (\A i \in 1..1 : b[i] = h[i])
        /\ \A i \in 1..n : b[1 + i] = l[i]
    <2>1. /\ h \o l \in Seq(Tokens) /\ Len(h \o l) = Len(h) + Len(l)
          /\ \A i \in 1..Len(h) : (h \o l)[i] = h[i]
          /\ \A i \in 1..Len(l) : (h \o l)[Len(h) + i] = l[i]
      <3>1. h \in Seq(Tokens) /\ l \in Seq(Tokens)
        BY <1>5, <1>7
      <3> QED
        BY <3>1, Joined
    <2>2. Len(h) = 1 /\ Len(l) = n
      BY <1>2, <1>5
    <2> QED
      BY <1>8, <2>1, <2>2, Zenon
  <1>10. m = b \o e
    BY <1>1, <1>3, <1>4, <1>8 DEF TypedLine
  <1>11. /\ m \in Seq(Tokens) /\ Len(m) = 1 + n + 2
         /\ \A i \in 1..(1 + n) : m[i] = b[i]
         /\ \A i \in 1..2 : m[1 + n + i] = e[i]
    <2>1. /\ b \o e \in Seq(Tokens) /\ Len(b \o e) = Len(b) + Len(e)
          /\ \A i \in 1..Len(b) : (b \o e)[i] = b[i]
          /\ \A i \in 1..Len(e) : (b \o e)[Len(b) + i] = e[i]
      <3>1. b \in Seq(Tokens) /\ e \in Seq(Tokens)
        BY <1>6, <1>9
      <3> QED
        BY <3>1, Joined
    <2>2. Len(b) = 1 + n /\ Len(e) = 2
      BY <1>6, <1>9
    <2> QED
      BY <1>10, <2>1, <2>2, Zenon
  <1>12. 1 \in 1..1 /\ 1 \in 1..(1 + n) /\ 1 \in 1..2 /\ 2 \in 1..2
    OBVIOUS
  <1>13. m[1] = At
    BY <1>5, <1>9, <1>11
  <1>14. m[1 + n + 1] = 0 /\ m[1 + n + 2] = Nul
    BY <1>6, <1>11, <1>12, Zenon
  <1>15. ASSUME NEW j \in 2..(Len(m) - 1)
         PROVE  m[j] \in Int
    <2>1. CASE j = 1 + n + 1
      BY <1>14, <2>1
    <2>2. CASE j # 1 + n + 1
      <3>1. j - 1 \in 1..n /\ j \in 1..(1 + n) /\ 1 + (j - 1) = j
        BY <1>11, <2>2
      <3>2. m[j] = b[j] /\ b[1 + (j - 1)] = l[j - 1]
        BY <1>9, <1>11, <3>1, Zenon
      <3> QED
        BY <1>7, <3>1, <3>2
    <2> QED
      BY <2>1, <2>2
  <1>16. m[2] # 0 => Len(m) >= 4
    <2>1. CASE n = 0
      BY <1>14, <2>1
    <2>2. CASE n # 0
      BY <1>11, <2>2
    <2> QED
      BY <2>1, <2>2
  <1>17. Len(m) = 1 + n + 2 /\ Len(m) \in Nat /\ Len(m) >= 3
    BY <1>11
  <1> QED
    BY <1>11, <1>13, <1>14, <1>15, <1>16, <1>17

\* A message begins with its only '@', and its second token tells what it is.
LEMMA MessageShape ==
  ASSUME NEW K, NEW m \in Upward(K)
  PROVE  /\ m \in Seq(Tokens) /\ Len(m) \in Nat /\ Len(m) >= 3
         /\ m[1] = At /\ \A j \in 2..Len(m) : m[j] # At
         /\ \/ m \in Reports /\ m[2] = 1 /\ \A j \in 1..Len(m) : m[j] # Nul
            \/ \E s \in SensorIds : /\ m = SensorAnswer(s) /\ Len(m) = 3 /\ m[2] = 2 /\ m[3] = s
                                    /\ \A j \in 1..Len(m) : m[j] # Nul
            \/ m = QuitAnswer /\ Len(m) = 3 /\ m[2] = 5 /\ m[3] = Nul
            \/ m \in TypedLines /\ m[2] \in K
PROOF
  <1>1. CASE m \in Reports
    <2>1. PICK i, j \in 1..Len(Poses) :
            /\ m = Report(Mixed(i, j))
            /\ m \in Seq(Int \cup {At}) /\ Len(m) = 10 /\ m[1] = At /\ m[2] = 1
            /\ \A f \in 1..8 : m[f + 2] = Mixed(i, j)[f]
      BY <1>1, ReportShape
    <2>2. \A f \in 1..8 : Mixed(i, j)[f] \in Int
      BY MixedType
    <2>3. \A n \in 2..10 : m[n] \in Int
      <3> SUFFICES ASSUME NEW n \in 2..10
                   PROVE  m[n] \in Int
        OBVIOUS
      <3>1. CASE n = 2
        BY <2>1, <3>1
      <3>2. CASE n # 2
        <4>1. n - 2 \in 1..8 /\ (n - 2) + 2 = n
          BY <3>2
        <4> QED
          BY <2>1, <2>2, <4>1
      <3> QED
        BY <3>1, <3>2
    <2>4. \A n \in 2..10 : m[n] # At /\ m[n] # Nul
      BY <2>3, MarksAreNoNumbers
    <2>5. \A n \in 1..10 : m[n] # Nul
      <3>1. \A n \in 1..10 : n = 1 \/ n \in 2..10
        OBVIOUS
      <3> QED
        BY <2>1, <2>4, <3>1, MarksAreNoNumbers
    <2>6. m \in Seq(Tokens)
      BY <2>1 DEF Tokens
    <2> QED
      BY <1>1, <2>1, <2>4, <2>5, <2>6
  <1>2. CASE m \in SensorAnswers
    <2>1. PICK s \in SensorIds : m = << At, 2, s >>
      BY <1>2 DEF SensorAnswers, SensorAnswer
    <2>2. s \in Int /\ s # At /\ s # Nul /\ 2 # At /\ 2 # Nul
      BY TokenFacts
    <2>3. /\ m \in Seq(Tokens) /\ Len(m) = 3 /\ m[1] = At /\ m[2] = 2 /\ m[3] = s
          /\ \A j \in 2..3 : m[j] # At
          /\ \A j \in 1..3 : m[j] # Nul
      BY <2>1, <2>2, MarksAreNoNumbers DEF Tokens
    <2> QED
      BY <2>1, <2>3 DEF SensorAnswer
  <1>3. CASE m = QuitAnswer
    <2>1. 5 # At /\ Nul # At
      BY MarksAreNoNumbers
    <2>2. m = << At, 5, Nul >>
      BY <1>3 DEF QuitAnswer
    <2>3. /\ m \in Seq(Tokens) /\ Len(m) = 3
          /\ m[1] = At /\ m[2] = 5 /\ m[3] = Nul
      BY <2>2 DEF Tokens
    <2>4. \A j \in 2..3 : j = 2 \/ j = 3
      OBVIOUS
    <2>5. \A j \in 2..3 : m[j] # At
      BY <2>1, <2>3, <2>4
    <2> QED
      BY <1>3, <2>3, <2>5
  <1>4. CASE m \in TypedLines /\ m[2] \in K
    <2>1. /\ m \in Seq(Tokens) /\ Len(m) \in Nat /\ Len(m) >= 3 /\ m[1] = At
          /\ \A j \in 2..(Len(m) - 1) : m[j] \in Int
          /\ m[Len(m)] = Nul
      BY <1>4, TypedShape
    <2>2. \A j \in 2..Len(m) : j \in 2..(Len(m) - 1) \/ j = Len(m)
      BY <2>1
    <2>3. \A j \in 2..Len(m) : m[j] # At
      BY <2>1, <2>2, MarksAreNoNumbers
    <2> QED
      BY <1>4, <2>1, <2>3
  <1> QED
    BY <1>1, <1>2, <1>3, <1>4 DEF Upward

-----------------------------------------------------------------------------
(* The text of a piece, and the headers in it.                              *)

\* The text of a piece is the piece up to its first zero byte.
LEMMA TextIsPrefix ==
  ASSUME NEW piece \in Seq(Tokens)
  PROVE  \E n \in 0..Len(piece) :
           /\ Text(piece) \in Seq(Int \cup {At}) /\ Len(Text(piece)) = n
           /\ \A i \in 1..n : Text(piece)[i] = piece[i] /\ piece[i] # Nul
           /\ n < Len(piece) => piece[n + 1] = Nul
PROOF
  <1> DEFINE nuls == {i \in 1..Len(piece) : piece[i] = Nul}
             first(i) == piece[i] = Nul /\ \A j \in 1..(i - 1) : piece[j] # Nul
  <1>1. Len(piece) \in Nat /\ \A i \in 1..Len(piece) : piece[i] \in Tokens
    OBVIOUS
  <1>2. CASE nuls = {}
    <2>1. Text(piece) = piece /\ \A i \in 1..Len(piece) : piece[i] # Nul
      BY <1>2 DEF Text
    <2>2. piece \in Seq(Int \cup {At})
      BY <1>1, <2>1 DEF Tokens
    <2> QED
      BY <1>1, <2>1, <2>2
  <1>3. CASE nuls # {}
    <2>1. \E i \in 1..Len(piece) : first(i)
      <3>1. PICK i \in nuls : \A j \in nuls : i <= j
        <4>1. nuls \in SUBSET Nat
          OBVIOUS
        <4> HIDE DEF nuls
        <4> QED
          BY <1>3, <4>1, SmallestExists
      <3>2. \A j \in 1..(i - 1) : j \in 1..Len(piece) /\ ~(i <= j)
        BY <1>1, <3>1
      <3> QED
        BY <1>1, <3>1, <3>2
    <2> DEFINE n == CHOOSE i \in 1..Len(piece) : first(i)
    <2>2. n \in 1..Len(piece) /\ first(n)
      BY <2>1
    <2>3. Text(piece) = SubSeq(piece, 1, n - 1)
      BY <1>3 DEF Text
    <2>4. \A i \in 1..(n - 1) : piece[i] \in Int \cup {At} /\ piece[i] # Nul
      BY <1>1, <2>2 DEF Tokens
    <2>5. n \in Nat /\ n >= 1
      BY <1>1, <2>2
    <2> HIDE DEF n
    <2>6. /\ SubSeq(piece, 1, n - 1) \in Seq(Int \cup {At})
          /\ Len(SubSeq(piece, 1, n - 1)) = n - 1
          /\ \A i \in 1..(n - 1) : SubSeq(piece, 1, n - 1)[i] = piece[i]
      BY <2>4, <2>5, SubSeqProperties
    <2> QED
      BY <1>1, <2>2, <2>3, <2>4, <2>5, <2>6
  <1> QED
    BY <1>2, <1>3

\* How many headers a text has: one, or more than one.
LEMMA HeadersType ==
  ASSUME NEW S, NEW text \in Seq(S)
  PROVE  /\ IsFiniteSet({i \in 1..Len(text) : text[i] = At})
         /\ Headers(text) \in Nat
PROOF
  <1>1. IsFiniteSet(1..Len(text))
    BY FS_Interval
  <1>2. IsFiniteSet({i \in 1..Len(text) : text[i] = At})
    BY <1>1, FS_Subset
  <1> QED
    BY <1>2, FS_CardinalityType DEF Headers

LEMMA OneHeader ==
  ASSUME NEW S, NEW text \in Seq(S), Len(text) >= 1, text[1] = At,
         \A i \in 2..Len(text) : text[i] # At
  PROVE  Headers(text) = 1
PROOF
  <1>1. {i \in 1..Len(text) : text[i] = At} = {1}
    OBVIOUS
  <1> QED
    BY <1>1, FS_Singleton DEF Headers

LEMMA SeveralHeaders ==
  ASSUME NEW S, NEW text \in Seq(S), NEW i \in 1..Len(text), NEW j \in 1..Len(text),
         i # j, text[i] = At, text[j] = At
  PROVE  Headers(text) > 1
PROOF
  <1> DEFINE T == {n \in 1..Len(text) : text[n] = At}
  <1>1. IsFiniteSet(T) /\ Headers(text) \in Nat
    BY HeadersType
  <1>2. i \in T /\ j \in T
    OBVIOUS
  <1>3. Cardinality(T) # 0
    BY <1>1, <1>2, FS_EmptySet
  <1>4. Cardinality(T) # 1
    <2>1. \A x : T # {x}
      BY <1>2
    <2> HIDE DEF T
    <2> QED
      BY <1>1, <2>1, FS_Singleton
  <1> QED
    BY <1>1, <1>3, <1>4 DEF Headers

\* A message brings one header.
LEMMA HeaderAdded ==
  ASSUME NEW s \in Seq(Tokens), NEW K, NEW m \in Upward(K)
  PROVE  Headers(s \o m) = Headers(s) + 1
PROOF
  <1>1. m \in Seq(Tokens) /\ Len(m) >= 3 /\ m[1] = At /\ \A j \in 2..Len(m) : m[j] # At
    BY MessageShape
  <1> DEFINE S == {i \in 1..Len(s) : s[i] = At}
             T == {i \in 1..Len(s \o m) : (s \o m)[i] = At}
  <1>2. /\ Len(s) \in Nat /\ Len(m) \in Nat /\ Len(s \o m) = Len(s) + Len(m)
        /\ \A i \in 1..(Len(s) + Len(m)) :
             (s \o m)[i] = IF i <= Len(s) THEN s[i] ELSE m[i - Len(s)]
    BY <1>1, ConcatProperties
  <1>3. T \subseteq S \cup {Len(s) + 1}
    <2> SUFFICES ASSUME NEW i \in T, ~(i <= Len(s))
                 PROVE  i = Len(s) + 1
      BY <1>2
    <2>1. i - Len(s) \in 1..Len(m) /\ m[i - Len(s)] = At
      BY <1>2
    <2>2. i - Len(s) \notin 2..Len(m)
      BY <1>1, <2>1
    <2> QED
      BY <1>2, <2>1, <2>2
  <1>4. S \cup {Len(s) + 1} \subseteq T
    <2>1. S \subseteq T
      BY <1>2
    <2>2. Len(s) + 1 \in 1..(Len(s) + Len(m)) /\ ~(Len(s) + 1 <= Len(s)) /\ Len(s) + 1 - Len(s) = 1
      BY <1>1, <1>2
    <2>3. Len(s) + 1 \in T
      BY <1>1, <1>2, <2>2
    <2> QED
      BY <2>1, <2>3
  <1>5. IsFiniteSet(S) /\ Len(s) + 1 \notin S
    BY <1>2, HeadersType
  <1>6. T = S \cup {Len(s) + 1}
    BY <1>3, <1>4
  <1> HIDE DEF S, T
  <1>7. Cardinality(T) = Cardinality(S) + 1
    BY <1>5, <1>6, FS_AddElement
  <1> QED
    BY <1>7 DEF S, T, Headers

\* What is left has no more headers than the whole.
LEMMA HeadersDropped ==
  ASSUME NEW s \in Seq(Tokens), NEW n \in 0..Len(s)
  PROVE  /\ SubSeq(s, n + 1, Len(s)) \in Seq(Tokens)
         /\ Len(SubSeq(s, n + 1, Len(s))) = Len(s) - n
         /\ \A i \in 1..(Len(s) - n) : SubSeq(s, n + 1, Len(s))[i] = s[n + i]
         /\ Headers(SubSeq(s, n + 1, Len(s))) <= Headers(s)
PROOF
  <1> DEFINE t == SubSeq(s, n + 1, Len(s))
             S == {i \in 1..Len(s) : s[i] = At}
             T == {i \in 1..Len(t) : t[i] = At}
             f == [i \in T |-> n + i]
  <1>1. /\ t \in Seq(Tokens) /\ Len(t) = Len(s) - n /\ Len(s) \in Nat
        /\ \A i \in 1..(Len(s) - n) : t[i] = s[n + i]
    OBVIOUS
  <1> HIDE DEF t
  <1>2. \A i \in T : n + i \in S
    BY <1>1
  <1>3. \A i, j \in T : f[i] = f[j] => i = j
    BY <1>1
  <1>4. f \in Injection(T, S)
    BY <1>2, <1>3 DEF Injection, IsInjective
  <1>5. Cardinality(T) <= Cardinality(S)
    BY <1>4, FS_Injection, HeadersType
  <1> QED
    BY <1>1, <1>5 DEF t, Headers

-----------------------------------------------------------------------------
(* The fields of a text.                                                    *)

\* What a text is scanned into.
Scannables == Int \cup {At}
FieldSet == [value : Int, part : {"at", "sign", "behind", "whole"}]

\* One token makes one field or two.
LEMMA ScansType ==
  ASSUME NEW x \in Scannables
  PROVE  /\ Scans(x) \in Seq(FieldSet)
         /\ Len(Scans(x)) = IF Splits(x) THEN 2 ELSE 1
         /\ Splits(x) <=> Scans(x)[1].part # "whole"
         /\ x # At /\ x < 0 => /\ Scans(x)[1].part = "sign" /\ Scans(x)[2].value = x
         /\ x # At /\ x >= 0 => Scans(x)[1] = [value |-> x, part |-> "whole"]
PROOF
  <1>1. CASE x = At
    <2>1. Scans(x) = << [value |-> 0, part |-> "at"], [value |-> 0, part |-> "behind"] >>
      BY <1>1 DEF Scans
    <2>2. Splits(x)
      BY <1>1 DEF Splits
    <2>3. [value |-> 0, part |-> "at"] \in FieldSet /\ [value |-> 0, part |-> "behind"] \in FieldSet
      BY DEF FieldSet
    <2> QED
      BY <1>1, <2>1, <2>2, <2>3
  <1>2. CASE x # At
    <2>1. x \in Int
      BY <1>2 DEF Scannables
    <2>2. CASE x < 0
      <3>1. Scans(x) = << [value |-> 0, part |-> "sign"], [value |-> x, part |-> "behind"] >>
        BY <1>2, <2>2 DEF Scans, Splits
      <3>2. Splits(x)
        BY <2>2 DEF Splits
      <3>3. [value |-> 0, part |-> "sign"] \in FieldSet /\ [value |-> x, part |-> "behind"] \in FieldSet
        BY <2>1 DEF FieldSet
      <3> QED
        BY <2>1, <2>2, <3>1, <3>2, <3>3
    <2>3. CASE x >= 0
      <3>1. ~(x < 0)
        BY <2>1, <2>3
      <3>2. ~Splits(x)
        BY <1>2, <3>1 DEF Splits
      <3>3. Scans(x) = << [value |-> x, part |-> "whole"] >>
        BY <1>2, <3>2 DEF Scans
      <3>4. [value |-> x, part |-> "whole"] \in FieldSet
        BY <2>1 DEF FieldSet
      <3> QED
        BY <2>1, <2>3, <3>1, <3>2, <3>3, <3>4
    <2> QED
      BY <2>1, <2>2, <2>3
  <1> QED
    BY <1>1, <1>2

\* The tokens before the i-th that make two fields.
Double(text, i) == {j \in 3..(i - 1) : Splits(text[j])}

\* The fields before a token: their number grows by one or two with every token.
LEMMA AheadIs ==
  ASSUME NEW text \in Seq(Scannables), NEW i \in 3..(Len(text) + 1)
  PROVE  /\ IsFiniteSet(Double(text, i)) /\ Cardinality(Double(text, i)) \in Nat
         /\ Ahead(text, i) = (i - 3) + Cardinality(Double(text, i))
         /\ Ahead(text, i) \in Nat /\ Ahead(text, i) >= i - 3
PROOF
  <1>1. IsFiniteSet(3..(i - 1))
    BY FS_Interval
  <1>2. IsFiniteSet(Double(text, i))
    BY <1>1, FS_Subset DEF Double
  <1>3. Cardinality(Double(text, i)) \in Nat
    BY <1>2, FS_CardinalityType
  <1>4. Ahead(text, i) = (i - 3) + Cardinality(Double(text, i))
    BY DEF Ahead, Double
  <1>5. i - 3 \in Nat
    OBVIOUS
  <1> QED
    BY <1>2, <1>3, <1>4, <1>5

LEMMA AheadGrows ==
  ASSUME NEW text \in Seq(Scannables),
         NEW i \in 3..(Len(text) + 1), NEW j \in 3..(Len(text) + 1), i <= j
  PROVE  Ahead(text, i) <= Ahead(text, j)
PROOF
  <1>1. Double(text, i) \subseteq Double(text, j)
    BY DEF Double
  <1>2. Cardinality(Double(text, i)) <= Cardinality(Double(text, j))
    BY <1>1, AheadIs, FS_Subset
  <1> QED
    BY <1>2, AheadIs

LEMMA AheadStep ==
  ASSUME NEW text \in Seq(Scannables), NEW i \in 3..Len(text)
  PROVE  /\ i \in 3..(Len(text) + 1) /\ i + 1 \in 3..(Len(text) + 1)
         /\ Ahead(text, i + 1) = Ahead(text, i) + Len(Scans(text[i]))
PROOF
  <1>1. i \in 3..(Len(text) + 1) /\ i + 1 \in 3..(Len(text) + 1) /\ text[i] \in Scannables
    OBVIOUS
  <1>2. i \notin Double(text, i) /\ \A j \in 3..(i + 1 - 1) : j = i \/ j \in 3..(i - 1)
    BY DEF Double
  <1>3. CASE Splits(text[i])
    <2>1. Double(text, i + 1) = Double(text, i) \cup {i}
      BY <1>1, <1>2, <1>3 DEF Double
    <2>2. Cardinality(Double(text, i + 1)) = Cardinality(Double(text, i)) + 1
      BY <1>1, <1>2, <2>1, AheadIs, FS_AddElement
    <2>3. Len(Scans(text[i])) = 2
      BY <1>1, <1>3, ScansType
    <2> QED
      BY <1>1, <2>2, <2>3, AheadIs
  <1>4. CASE ~Splits(text[i])
    <2>1. Double(text, i + 1) = Double(text, i)
      BY <1>1, <1>2, <1>4 DEF Double
    <2>3. Len(Scans(text[i])) = 1
      BY <1>1, <1>4, ScansType
    <2>4. /\ Ahead(text, i + 1) = ((i + 1) - 3) + Cardinality(Double(text, i))
          /\ Ahead(text, i) = (i - 3) + Cardinality(Double(text, i))
          /\ Cardinality(Double(text, i)) \in Nat
      BY <1>1, <2>1, AheadIs
    <2> QED
      BY <1>1, <2>3, <2>4
  <1> QED
    BY <1>1, <1>3, <1>4

\* Every field is of one token.
LEMMA FieldPlace ==
  ASSUME NEW text \in Seq(Scannables), Len(text) >= 2,
         NEW f \in 1..Ahead(text, Len(text) + 1)
  PROVE  \E i \in 3..Len(text) : Ahead(text, i) < f /\ f <= Ahead(text, i + 1)
PROOF
  <1> DEFINE T == {i \in 3..(Len(text) + 1) : f <= Ahead(text, i)}
  <1>1. Len(text) + 1 \in 3..(Len(text) + 1) /\ Len(text) \in Nat
    OBVIOUS
  <1>2. T \in SUBSET Nat /\ T # {} /\ f \in Nat /\ f >= 1
    BY <1>1, AheadIs
  <1>3. PICK x \in T : \A y \in T : x <= y
    <2> HIDE DEF T
    <2> QED
      BY <1>2, SmallestExists
  <1>4. x # 3
    <2>1. Double(text, 3) = {}
      BY DEF Double
    <2>2. Cardinality(Double(text, 3)) = 0 /\ 3 \in 3..(Len(text) + 1)
      BY <1>1, <2>1, FS_EmptySet
    <2>3. Ahead(text, 3) = 0
      BY <2>2, AheadIs
    <2> QED
      BY <1>2, <2>3
  <1>5. x - 1 \in 3..Len(text) /\ x - 1 \in 3..(Len(text) + 1) /\ (x - 1) + 1 = x /\ ~(x <= x - 1)
    BY <1>1, <1>4
  <1>6. x - 1 \notin T
    BY <1>3, <1>5
  <1>7. Ahead(text, x - 1) < f
    <2>1. Ahead(text, x - 1) \in Nat
      BY <1>5, AheadIs
    <2>2. ~(f <= Ahead(text, x - 1))
      BY <1>5, <1>6
    <2> QED
      BY <1>2, <2>1, <2>2
  <1> QED
    BY <1>3, <1>5, <1>7

\* A field belongs to one token.
LEMMA FieldAt ==
  ASSUME NEW text \in Seq(Scannables), Len(text) >= 2, NEW i \in 3..Len(text),
         NEW f \in Nat, Ahead(text, i) < f, f <= Ahead(text, i + 1)
  PROVE  /\ f \in 1..Ahead(text, Len(text) + 1)
         /\ Fields(text)[f] = Scans(text[i])[f - Ahead(text, i)]
PROOF
  <1>1. i \in 3..(Len(text) + 1) /\ i + 1 \in 3..(Len(text) + 1) /\ Len(text) + 1 \in 3..(Len(text) + 1)
    OBVIOUS
  <1>2. Ahead(text, i + 1) <= Ahead(text, Len(text) + 1) /\ Ahead(text, i) \in Nat
        /\ Ahead(text, i + 1) \in Nat /\ Ahead(text, Len(text) + 1) \in Nat
    BY <1>1, AheadIs, AheadGrows
  <1>3. f \in 1..Ahead(text, Len(text) + 1)
    BY <1>2
  <1> DEFINE of(k) == Ahead(text, k) < f /\ f <= Ahead(text, k + 1)
             k == CHOOSE k \in 3..Len(text) : of(k)
  <1>4. k \in 3..Len(text) /\ of(k)
    OBVIOUS
  <1>5. Fields(text)[f] = Scans(text[k])[f - Ahead(text, k)]
    BY <1>3 DEF Fields
  <1> HIDE DEF k
  <1>6. k = i
    <2>1. k \in 3..(Len(text) + 1) /\ k + 1 \in 3..(Len(text) + 1) /\ k \in Int /\ i \in Int
      BY <1>4
    <2>2. Ahead(text, k) \in Nat /\ Ahead(text, k + 1) \in Nat
      BY <2>1, AheadIs
    <2>3. ~(k + 1 <= i)
      <3> SUFFICES ASSUME k + 1 <= i PROVE FALSE
        OBVIOUS
      <3>1. Ahead(text, k + 1) <= Ahead(text, i)
        BY <1>1, <2>1, AheadGrows
      <3> QED
        BY <1>2, <1>4, <2>2, <3>1
    <2>4. ~(i + 1 <= k)
      <3> SUFFICES ASSUME i + 1 <= k PROVE FALSE
        OBVIOUS
      <3>1. Ahead(text, i + 1) <= Ahead(text, k)
        BY <1>1, <2>1, AheadGrows
      <3> QED
        BY <1>2, <1>4, <2>2, <3>1
    <2> QED
      BY <2>1, <2>3, <2>4
  <1> QED
    BY <1>3, <1>5, <1>6

LEMMA FieldsType ==
  ASSUME NEW text \in Seq(Scannables), Len(text) >= 2
  PROVE  Fields(text) \in Seq(FieldSet) /\ Len(Fields(text)) = Ahead(text, Len(text) + 1)
PROOF
  <1> DEFINE n == Ahead(text, Len(text) + 1)
  <1>1. n \in Nat /\ Len(text) + 1 \in 3..(Len(text) + 1)
    BY AheadIs
  <1>2. ASSUME NEW f \in 1..n
        PROVE  Fields(text)[f] \in FieldSet
    <2>1. PICK i \in 3..Len(text) : Ahead(text, i) < f /\ f <= Ahead(text, i + 1)
      BY FieldPlace
    <2>2. i \in 3..(Len(text) + 1) /\ text[i] \in Scannables
      OBVIOUS
    <2>3. Ahead(text, i) \in Nat /\ Ahead(text, i + 1) = Ahead(text, i) + Len(Scans(text[i]))
      BY <2>2, AheadIs, AheadStep
    <2>4. Scans(text[i]) \in Seq(FieldSet) /\ Len(Scans(text[i])) \in Nat
      <3>1. Scans(text[i]) \in Seq(FieldSet)
        BY <2>2, ScansType, Zenon
      <3> QED
        BY <3>1, LenProperties
    <2>5. f \in Nat /\ f - Ahead(text, i) \in 1..Len(Scans(text[i]))
      BY <1>1, <2>1, <2>3, <2>4
    <2>6. Fields(text)[f] = Scans(text[i])[f - Ahead(text, i)]
      BY <2>1, <2>5, FieldAt
    <2>7. \A s \in Seq(FieldSet) : \A d \in 1..Len(s) : s[d] \in FieldSet
      OBVIOUS
    <2> QED
      BY <2>4, <2>5, <2>6, <2>7, Zenon
  <1>3. Fields(text) = [f \in 1..n |-> Fields(text)[f]]
    BY DEF Fields
  <1> HIDE DEF n
  <1>4. Fields(text) \in [1..n -> FieldSet]
    BY <1>2, <1>3
  <1>5. Fields(text) \in Seq(FieldSet)
    BY <1>1, <1>4, SeqDef
  <1>6. DOMAIN Fields(text) = 1..n
    BY <1>4
  <1>7. Len(Fields(text)) = n
    BY <1>1, <1>5, <1>6, LenProperties
  <1> QED
    BY <1>5, <1>7 DEF n

\* A sequence without its fifth element.
LEMMA FifthRemoved ==
  ASSUME NEW s \in Seq(FieldSet), Len(s) >= 5
  PROVE  /\ RemoveAt(s, 5) \in Seq(FieldSet) /\ Len(RemoveAt(s, 5)) = Len(s) - 1
         /\ \A f \in 1..(Len(s) - 1) : /\ f < 5 => RemoveAt(s, 5)[f] = s[f]
                                       /\ ~(f < 5) => RemoveAt(s, 5)[f] = s[f + 1]
PROOF
  <1>1. Len(s) \in Nat /\ Len(s) >= 5
    OBVIOUS
  <1>a. PICK a : a = SubSeq(s, 1, 4)
    OBVIOUS
  <1>b. PICK b : b = SubSeq(s, 6, Len(s))
    OBVIOUS
  <1>2. a \in Seq(FieldSet) /\ Len(a) = 4 /\ \A f \in 1..4 : a[f] = s[f]
    BY <1>a
  <1>3. b \in Seq(FieldSet) /\ Len(b) = Len(s) - 5 /\ \A f \in 1..(Len(s) - 5) : b[f] = s[f + 5]
    <2>1. /\ b \in Seq(FieldSet) /\ Len(b) = IF 6 <= Len(s) THEN Len(s) - 6 + 1 ELSE 0
          /\ \A f \in 1..(Len(s) - 5) : b[f] = s[6 + f - 1]
      BY <1>b
    <2>2. \A f \in 1..(Len(s) - 5) : 6 + f - 1 = f + 5
      BY <1>1
    <2>3. \A f \in 1..(Len(s) - 5) : b[f] = s[f + 5]
      <3> SUFFICES ASSUME NEW f \in 1..(Len(s) - 5)
                   PROVE  b[f] = s[f + 5]
        OBVIOUS
      <3>1. b[f] = s[6 + f - 1]
        BY <2>1
      <3>2. 6 + f - 1 = f + 5
        BY <2>2
      <3> QED
        BY <3>1, <3>2, Zenon
    <2>4. Len(b) = Len(s) - 5
      <3>1. Len(b) = IF 6 <= Len(s) THEN Len(s) - 6 + 1 ELSE 0
        BY <2>1, Zenon
      <3>2. \A n \in Nat : n >= 5 => (IF 6 <= n THEN n - 6 + 1 ELSE 0) = n - 5
        OBVIOUS
      <3> QED
        BY <1>1, <3>1, <3>2, Zenon
    <2> QED
      BY <2>1, <2>3, <2>4
  <1>4. RemoveAt(s, 5) = a \o b
    BY <1>a, <1>b DEF RemoveAt
  <1>5. /\ RemoveAt(s, 5) \in Seq(FieldSet) /\ Len(RemoveAt(s, 5)) = Len(s) - 1
        /\ \A f \in 1..(Len(s) - 1) : RemoveAt(s, 5)[f] = IF f <= 4 THEN a[f] ELSE b[f - 4]
    <2>1. /\ a \o b \in Seq(FieldSet) /\ Len(a \o b) = Len(a) + Len(b)
          /\ \A f \in 1..(Len(a) + Len(b)) :
               (a \o b)[f] = IF f <= Len(a) THEN a[f] ELSE b[f - Len(a)]
      BY <1>2, <1>3, ConcatProperties
    <2>2. Len(a) + Len(b) = Len(s) - 1
      BY <1>1, <1>2, <1>3
    <2> QED
      BY <1>2, <1>4, <2>1, <2>2
  <1>6. ASSUME NEW f \in 1..(Len(s) - 1), f < 5
        PROVE  RemoveAt(s, 5)[f] = s[f]
    <2>1. f <= 4 /\ f \in 1..4
      BY <1>1, <1>6
    <2>2. RemoveAt(s, 5)[f] = a[f]
      BY <1>5, <2>1
    <2> QED
      BY <1>2, <2>1, <2>2
  <1>7. ASSUME NEW f \in 1..(Len(s) - 1), ~(f < 5)
        PROVE  RemoveAt(s, 5)[f] = s[f + 1]
    <2>1. ~(f <= 4) /\ f - 4 \in 1..(Len(s) - 5) /\ (f - 4) + 5 = f + 1
      BY <1>1, <1>7
    <2>2. RemoveAt(s, 5)[f] = b[f - 4]
      BY <1>5, <2>1
    <2>3. b[f - 4] = s[(f - 4) + 5]
      BY <1>3, <2>1
    <2> QED
      BY <2>1, <2>2, <2>3
  <1> QED
    BY <1>5, <1>6, <1>7, Zenon

LEMMA ScannedType ==
  ASSUME NEW text \in Seq(Scannables), Len(text) >= 2
  PROVE  /\ Scanned(text) \in Seq(FieldSet)
         /\ Len(Scanned(text)) >= Len(text) - 2
PROOF
  <1> DEFINE all == Fields(text)
  <1>1. all \in Seq(FieldSet) /\ Len(all) = Ahead(text, Len(text) + 1) /\ Len(all) \in Nat
    BY FieldsType
  <1>2. Len(text) + 1 \in 3..(Len(text) + 1) /\ Len(text) \in Nat
    OBVIOUS
  <1>3. Len(all) = (Len(text) + 1 - 3) + Cardinality(Double(text, Len(text) + 1))
        /\ Cardinality(Double(text, Len(text) + 1)) \in Nat
    BY <1>1, <1>2, AheadIs
  <1>4. CASE Len(all) >= 5 /\ all[5].part = "sign"
    <2>1. Scanned(text) = RemoveAt(all, 5)
      BY <1>4 DEF Scanned, DV
    <2>2. RemoveAt(all, 5) \in Seq(FieldSet) /\ Len(RemoveAt(all, 5)) = Len(all) - 1
      BY <1>1, <1>4, FifthRemoved
    <2>3. PICK i \in 3..Len(text) : Ahead(text, i) < 5 /\ 5 <= Ahead(text, i + 1)
      <3>1. 5 \in 1..Ahead(text, Len(text) + 1)
        BY <1>1, <1>4
      <3> QED
        BY <3>1, FieldPlace
    <2>4. Splits(text[i])
      <3> SUFFICES ASSUME ~Splits(text[i]) PROVE FALSE
        OBVIOUS
      <3>1. text[i] \in Scannables /\ i \in 3..(Len(text) + 1)
        OBVIOUS
      <3>2. Len(Scans(text[i])) = 1 /\ Scans(text[i])[1].part = "whole"
        BY <3>1, ScansType
      <3>3. Ahead(text, i + 1) = Ahead(text, i) + 1 /\ Ahead(text, i) \in Nat
        BY <3>1, <3>2, AheadIs, AheadStep
      <3>4. 5 - Ahead(text, i) = 1
        BY <2>3, <3>3
      <3>5. all[5] = Scans(text[i])[5 - Ahead(text, i)]
        BY <2>3, FieldAt
      <3> QED
        BY <1>4, <3>2, <3>4, <3>5
    <2>5. i \in Double(text, Len(text) + 1)
      BY <1>2, <2>4 DEF Double
    <2>6. Cardinality(Double(text, Len(text) + 1)) # 0
      BY <1>2, <2>5, AheadIs, FS_EmptySet
    <2> QED
      BY <1>1, <1>2, <1>3, <2>1, <2>2, <2>6
  <1>5. CASE ~(Len(all) >= 5 /\ all[5].part = "sign")
    <2>1. Scanned(text) = all
      BY <1>5 DEF Scanned, DV
    <2> QED
      BY <1>1, <1>2, <1>3, <2>1
  <1> QED
    BY <1>4, <1>5

-----------------------------------------------------------------------------
(* The fields of a report: token i is its (i - 2)-th number, the velocity,  *)
(* which may have a sign, the 7th token.                                    *)

\* The tokens of a report behind its header.
Numbers(text) == \A i \in 3..10 : text[i] \in Int

\* No sign stands where none may up to the i-th token.
Plain(text, i) == \A j \in 3..i : j # 7 => text[j] >= 0

\* The fields a sign of the default velocity adds before the i-th token.
Shift(text, i) == IF i > 7 /\ text[7] < 0 THEN 1 ELSE 0

LEMMA ReportAhead ==
  ASSUME NEW text \in Seq(Scannables), Len(text) = 10, Numbers(text),
         NEW i \in 3..11, Plain(text, i - 1)
  PROVE  Ahead(text, i) = i - 3 + Shift(text, i)
PROOF
  <1>1. i \in 3..(Len(text) + 1) /\ i \in Int
    OBVIOUS
  <1>2. ASSUME NEW j \in 3..(i - 1)
        PROVE  Splits(text[j]) <=> j = 7 /\ text[7] < 0
    <2>1. text[j] \in Int /\ (j # 7 => text[j] >= 0)
      <3>1. j \in 3..10
        BY <1>1
      <3>2. text[j] \in Int
        BY <3>1 DEF Numbers
      <3>3. j # 7 => text[j] >= 0
        BY DEF Plain
      <3> QED
        BY <3>2, <3>3
    <2>2. PICK x \in Int : x = text[j]
      BY <2>1
    <2>3. Splits(x) <=> x < 0
      BY <2>2, MarksAreNoNumbers DEF Splits
    <2>4. j # 7 => ~(x < 0)
      BY <2>1, <2>2
    <2> QED
      BY <2>2, <2>3, <2>4, Zenon
  <1>4. CASE i > 7 /\ text[7] < 0
    <2>1. 7 \in 3..(i - 1)
      BY <1>1, <1>4
    <2>3. Double(text, i) = {7}
      BY <1>2, <1>4, <2>1 DEF Double
    <2>4. Cardinality(Double(text, i)) = 1
      BY <2>3, FS_Singleton
    <2>5. Ahead(text, i) = (i - 3) + 1
      BY <1>1, <2>4, AheadIs
    <2> QED
      BY <1>1, <1>4, <2>5 DEF Shift
  <1>5. CASE ~(i > 7 /\ text[7] < 0)
    <2>1. \A j \in 3..(i - 1) : j = 7 => i > 7
      BY <1>1
    <2>2. Double(text, i) = {}
      BY <1>2, <1>5, <2>1 DEF Double
    <2>3. Cardinality(Double(text, i)) = 0
      BY <2>2, FS_EmptySet
    <2>4. Ahead(text, i) = (i - 3) + 0
      BY <1>1, <2>3, AheadIs
    <2> QED
      BY <1>1, <1>5, <2>4 DEF Shift
  <1> QED
    BY <1>4, <1>5

\* The fields of the i-th token.
LEMMA ReportField ==
  ASSUME NEW text \in Seq(Scannables), Len(text) = 10, Numbers(text),
         NEW i \in 3..10, Plain(text, i - 1),
         NEW n \in Int, n = i - 2 + Shift(text, i)
  PROVE  /\ text[i] >= 0 => Fields(text)[n] = [value |-> text[i], part |-> "whole"]
         /\ text[i] < 0 => Fields(text)[n].part = "sign" /\ Fields(text)[n + 1].value = text[i]
PROOF
  <1>1. i \in 3..Len(text) /\ i \in 3..(Len(text) + 1) /\ i \in 3..11 /\ i \in Int /\ Len(text) >= 2
    OBVIOUS
  <1>x. PICK x \in Int : x = text[i]
    BY DEF Numbers
  <1>2. x \in Scannables /\ x # At
    BY <1>x, MarksAreNoNumbers DEF Scannables
  <1>3. Shift(text, i) \in 0..1
    BY DEF Shift
  <1>4. Ahead(text, i) = i - 3 + Shift(text, i)
    BY <1>1, ReportAhead
  <1>5. n \in Nat /\ n + 1 \in Nat /\ Ahead(text, i) = n - 1
    BY <1>1, <1>3, <1>4
  <1>6. Ahead(text, i + 1) = Ahead(text, i) + Len(Scans(x))
    BY <1>1, <1>x, AheadStep
  <1>8. CASE x >= 0
    <2>1. ~(x < 0)
      BY <1>8
    <2>2. ~Splits(x)
      BY <1>2, <2>1 DEF Splits
    <2>3. Len(Scans(x)) = 1 /\ Scans(x)[1] = [value |-> x, part |-> "whole"]
      BY <1>2, <1>8, <2>2, ScansType
    <2>4. Ahead(text, i) < n /\ n <= Ahead(text, i + 1) /\ n - Ahead(text, i) = 1
      BY <1>5, <1>6, <2>3
    <2>5. Fields(text)[n] = Scans(x)[1]
      BY <1>1, <1>5, <1>x, <2>4, FieldAt
    <2> QED
      BY <1>x, <2>1, <2>3, <2>5, Zenon
  <1>9. CASE x < 0
    <2>1. ~(x >= 0)
      BY <1>9
    <2>2. Splits(x)
      BY <1>9 DEF Splits
    <2>3. Len(Scans(x)) = 2 /\ Scans(x)[1].part = "sign" /\ Scans(x)[2].value = x
      BY <1>2, <1>9, <2>2, ScansType
    <2>4. Ahead(text, i) < n /\ n <= Ahead(text, i + 1) /\ n - Ahead(text, i) = 1
      BY <1>5, <1>6, <2>3
    <2>5. Ahead(text, i) < n + 1 /\ n + 1 <= Ahead(text, i + 1) /\ n + 1 - Ahead(text, i) = 2
      BY <1>5, <1>6, <2>3
    <2>6. Fields(text)[n] = Scans(x)[1]
      BY <1>1, <1>5, <1>x, <2>4, FieldAt
    <2>7. Fields(text)[n + 1] = Scans(x)[2]
      <3>1. PICK m \in Nat : m = n + 1
        BY <1>5
      <3>2. Ahead(text, i) < m /\ m <= Ahead(text, i + 1) /\ m - Ahead(text, i) = 2
        BY <1>5, <2>5, <3>1
      <3>3. Fields(text)[m] = Scans(x)[2]
        BY <1>1, <1>x, <3>2, FieldAt
      <3> QED
        BY <3>1, <3>3
    <2> QED
      BY <1>x, <2>1, <2>3, <2>6, <2>7, Zenon
  <1>10. x >= 0 \/ x < 0
    BY <1>x
  <1> QED
    BY <1>8, <1>9, <1>10

\* What a whole report is taken apart into, if no sign stands where none may.
LEMMA ReportScanned ==
  ASSUME NEW text \in Seq(Scannables), Len(text) = 10, Numbers(text),
         NEW i \in 3..10, Plain(text, i), NEW f \in Int, f = i - 2
  PROVE  /\ Scanned(text)[f].value = text[i]
         /\ i = 10 => /\ Len(Scanned(text)) = 8
                      /\ Scanned(text)[8] = [value |-> text[10], part |-> "whole"]
PROOF
  <1>1. Plain(text, i - 1) /\ (i # 7 => text[i] >= 0) /\ i \in Int
    BY DEF Plain
  <1>2. Len(text) >= 2 /\ Len(text) + 1 = 11 /\ 11 \in 3..(Len(text) + 1) /\ 7 \in 3..10 /\ 11 \in 3..11
    OBVIOUS
  <1>y. PICK y \in Int : y = text[7]
    BY <1>2 DEF Numbers
  <1>a. PICK all : all = Fields(text)
    OBVIOUS
  <1>3. all \in Seq(FieldSet) /\ Len(all) = Ahead(text, 11) /\ Len(all) \in Nat /\ Len(all) >= 8
    <2>1. all \in Seq(FieldSet) /\ Len(all) = Ahead(text, 11)
      BY <1>2, <1>a, FieldsType
    <2>2. Ahead(text, 11) \in Nat /\ Ahead(text, 11) >= 11 - 3
      BY <1>2, AheadIs
    <2> QED
      BY <2>1, <2>2
  <1>b. Scanned(text) = IF all[5].part = "sign" THEN RemoveAt(all, 5) ELSE all
    BY <1>3, <1>a DEF Scanned, DV
  <1>c. /\ RemoveAt(all, 5) \in Seq(FieldSet) /\ Len(RemoveAt(all, 5)) = Len(all) - 1
        /\ \A g \in 1..(Len(all) - 1) : /\ g < 5 => RemoveAt(all, 5)[g] = all[g]
                                        /\ ~(g < 5) => RemoveAt(all, 5)[g] = all[g + 1]
    <2>1. all \in Seq(FieldSet) /\ Len(all) >= 5
      BY <1>3
    <2> QED
      BY <2>1, FifthRemoved
  <1>4. CASE i < 7
    <2>1. f = i - 2 + Shift(text, i) /\ i # 7 /\ i # 10
      BY <1>1, <1>4 DEF Shift
    <2>2. all[f] = [value |-> text[i], part |-> "whole"]
      BY <1>1, <1>a, <2>1, ReportField
    <2>3. f \in 1..(Len(all) - 1) /\ f < 5
      BY <1>1, <1>3, <1>4
    <2>4. Scanned(text)[f] = all[f]
      BY <1>b, <1>c, <2>3, Zenon
    <2> QED
      BY <2>1, <2>2, <2>4
  <1>5. CASE i >= 7
    <2>1. Plain(text, 7 - 1)
      BY <1>1, <1>5 DEF Plain
    <2>2. 5 = 7 - 2 + Shift(text, 7)
      BY DEF Shift
    <2>3. /\ y >= 0 => all[5] = [value |-> y, part |-> "whole"]
          /\ y < 0 => all[5].part = "sign" /\ all[5 + 1].value = y
      <3>1. PICK k \in 3..10 : k = 7
        BY <1>2
      <3>2. PICK n \in Int : n = 5
        OBVIOUS
      <3>3. Plain(text, k - 1) /\ n = k - 2 + Shift(text, k)
        BY <2>1, <2>2, <3>1, <3>2
      <3>4. /\ text[k] >= 0 => Fields(text)[n] = [value |-> text[k], part |-> "whole"]
            /\ text[k] < 0 => Fields(text)[n].part = "sign" /\ Fields(text)[n + 1].value = text[k]
        BY <3>3, ReportField
      <3> QED
        BY <1>a, <1>y, <3>1, <3>2, <3>4
    <2>4. ASSUME i = 10
          PROVE  Len(all) = 8 + Shift(text, 10)
      <3>1. Plain(text, 11 - 1)
        BY <2>4
      <3>2. Ahead(text, 11) = 11 - 3 + Shift(text, 11)
        BY <1>2, <3>1, ReportAhead
      <3>3. Shift(text, 11) = Shift(text, 10)
        BY DEF Shift
      <3>4. Shift(text, 10) \in 0..1
        BY DEF Shift
      <3> QED
        BY <1>3, <3>2, <3>3, <3>4
    <2>5. CASE y < 0
      <3>1. Scanned(text) = RemoveAt(all, 5)
        BY <1>b, <2>3, <2>5, Zenon
      <3>2. i = 10 => Len(all) = 9
        BY <1>y, <2>4, <2>5 DEF Shift
      <3>3. f \in 1..(Len(all) - 1) /\ ~(f < 5)
        BY <1>1, <1>3, <1>5, <3>2
      <3>4. Scanned(text)[f] = all[f + 1] /\ Len(Scanned(text)) = Len(all) - 1
        BY <1>c, <3>1, <3>3, Zenon
      <3>5. CASE i = 7
        <4>1. f = 5
          BY <3>5
        <4> QED
          BY <1>y, <2>3, <2>5, <3>4, <3>5, <4>1
      <3>6. CASE i # 7
        <4>1. f + 1 = i - 2 + Shift(text, i) /\ f + 1 \in Int
          BY <1>1, <1>y, <1>5, <2>5, <3>6 DEF Shift
        <4>2. all[f + 1] = [value |-> text[i], part |-> "whole"]
          BY <1>1, <1>a, <3>6, <4>1, ReportField
        <4>3. i = 10 => f = 8 /\ Len(all) - 1 = 8
          BY <3>2
        <4> QED
          BY <3>4, <4>2, <4>3
      <3> QED
        BY <3>5, <3>6
    <2>6. CASE y >= 0
      <3>1. all[5].part # "sign"
        BY <2>3, <2>6
      <3>2. Scanned(text) = all
        BY <1>b, <3>1, Zenon
      <3>3. f = i - 2 + Shift(text, i)
        BY <1>1, <1>y, <2>6 DEF Shift
      <3>x. text[i] >= 0
        BY <1>1, <1>y, <2>6
      <3>4. all[f] = [value |-> text[i], part |-> "whole"]
        BY <1>1, <1>a, <3>3, <3>x, ReportField
      <3>5. i = 10 => f = 8 /\ Len(all) = 8
        BY <1>1, <1>y, <2>4, <2>6 DEF Shift
      <3> QED
        BY <3>2, <3>4, <3>5
    <2> QED
      BY <1>y, <2>5, <2>6
  <1> QED
    BY <1>1, <1>4, <1>5

-----------------------------------------------------------------------------
(* What getSendBack makes of a text.                                        *)

\* What a text must have for getSendBack to do anything.
LEMMA KindFacts ==
  ASSUME NEW text \in Seq(Scannables), Kind(text) # 0
  PROVE  Headers(text) = 1 /\ Len(text) >= 2 /\ text[2] = Kind(text)
PROOF
  BY DEF Kind

\* What the server knows of a client.
KnownSet == [view : View, sensor : SensorIds, done : BOOLEAN, died : BOOLEAN]

\* Seven numbers and the mode are a view.
LEMMA SevenInts ==
  ASSUME NEW a \in [1..7 -> Int]
  PROVE  a \in Seq(Int) /\ Len(a) = 7
PROOF
  <1>1. a \in Seq(Int)
    BY SeqDef
  <1>2. DOMAIN a = 1..7 /\ DOMAIN a = 1..Len(a) /\ Len(a) \in Nat
    BY <1>1, LenProperties
  <1>3. 7 \in 1..Len(a) /\ ~(Len(a) + 1 \in 1..7)
    <2>1. \A n \in Nat : Len(a) = n => n + 1 \notin 1..Len(a) /\ 7 \in 1..7
      OBVIOUS
    <2> QED
      BY <1>2, <2>1
  <1> QED
    BY <1>1, <1>2, <1>3

\* A view made of the scanned fields is a view.
LEMMA ViewMade ==
  ASSUME NEW a \in [1..7 -> Int], NEW mode \in Int
  PROVE  /\ a \o << mode >> \in View /\ (a \o << mode >>)[8] = mode
         /\ \A f \in 1..7 : (a \o << mode >>)[f] = a[f]
PROOF
  <1>1. PICK s \in Seq(Int) : s = a /\ Len(s) = 7
    BY SevenInts
  <1>2. PICK t \in Seq(Int) : t = << mode >> /\ Len(t) = 1 /\ t[1] = mode
    <2>1. << mode >> \in Seq(Int) /\ Len(<< mode >>) = 1 /\ << mode >>[1] = mode
      OBVIOUS
    <2> QED
      BY <2>1, Zenon
  <1>3. PICK v : v = s \o t
    OBVIOUS
  <1>4. /\ v \in Seq(Int) /\ Len(v) = 8
        /\ \A f \in 1..8 : v[f] = IF f <= 7 THEN s[f] ELSE t[f - 7]
    <2>1. /\ s \o t \in Seq(Int) /\ Len(s \o t) = Len(s) + Len(t)
          /\ \A f \in 1..(Len(s) + Len(t)) :
               (s \o t)[f] = IF f <= Len(s) THEN s[f] ELSE t[f - Len(s)]
      BY ConcatProperties
    <2> QED
      BY <1>1, <1>2, <1>3, <2>1
  <1>5. v \in [1..8 -> Int]
    BY <1>4, LenProperties
  <1>6. v[8] = mode /\ \A f \in 1..7 : v[f] = s[f]
    BY <1>2, <1>4
  <1> QED
    BY <1>1, <1>2, <1>3, <1>5, <1>6 DEF View, ROW, MODE

LEMMA FieldElements ==
  ASSUME NEW all \in Seq(FieldSet)
  PROVE  /\ Len(all) \in Nat
         /\ \A f \in 1..Len(all) : all[f] \in FieldSet /\ all[f].value \in Int
PROOF
  <1>1. Len(all) \in Nat /\ \A f \in 1..Len(all) : all[f] \in FieldSet
    OBVIOUS
  <1>2. \A x \in FieldSet : x.value \in Int
    BY DEF FieldSet
  <1> QED
    BY <1>1, <1>2, Zenon

LEMMA ModeReadType ==
  ASSUME NEW all \in Seq(FieldSet), Len(all) >= 8, NEW old \in Int
  PROVE  /\ ModeRead(all, old) \in Int
         /\ Len(all) = 8 /\ all[8].part = "whole" /\ all[8].value \in 1..3 =>
              ModeRead(all, old) = all[8].value
PROOF
  <1>1. PICK x : x = all[8]
    OBVIOUS
  <1>2. x.value \in Int /\ Len(all) \in Nat
    <2>1. 8 \in 1..Len(all)
      BY FieldElements
    <2> QED
      BY <1>1, <2>1, FieldElements, Zenon
  <1>3. ModeRead(all, old) = IF Len(all) > 8 THEN old
                             ELSE CASE x.part = "whole" /\ x.value \in 1..3 -> x.value
                                    [] x.part = "behind" /\ -x.value \in 1..3 -> -x.value
                                    [] OTHER -> old
    BY <1>1 DEF ModeRead, MODE, Modes
  <1>4. CASE Len(all) > 8
    <2>1. ModeRead(all, old) = old
      BY <1>2, <1>3, <1>4
    <2>2. Len(all) # 8
      <3>1. \A n \in Nat : n > 8 => n # 8
        OBVIOUS
      <3> QED
        BY <1>2, <1>4, <3>1, Zenon
    <2> QED
      BY <2>1, <2>2, Zenon
  <1>5. CASE ~(Len(all) > 8)
    BY <1>1, <1>2, <1>3, <1>5
  <1> QED
    BY <1>4, <1>5

\* A report either ends the process or makes a view.
LEMMA UpdateCases ==
  ASSUME NEW all \in Seq(FieldSet), NEW old \in KnownSet, NEW k \in Update(all, old)
  PROVE  \/ Len(all) <= 7 /\ k = [old EXCEPT !.died = TRUE]
         \/ \E a \in [1..7 -> Int], mode \in Int :
              /\ k = [old EXCEPT !.view = a \o << mode >>]
              /\ \A f \in 1..7 : a[f] = all[f].value
              /\ Len(all) > 7 => mode = ModeRead(all, old.view[8])
PROOF
  <1>0. old.view[8] \in Int
    BY DEF KnownSet, View, ROW, MODE
  <1>1. PICK n \in Nat : n = Len(all)
    BY FieldElements
  <1>2. CASE Len(all) < 7
    <2>1. k = [old EXCEPT !.died = TRUE]
      <3>1. Len(all) # 7
        <4>1. \A i \in Nat : i < 7 => i # 7
          OBVIOUS
        <4> QED
          BY <1>1, <1>2, <4>1, Zenon
      <3> QED
        BY <1>2, <3>1 DEF Update, Dies, DIR
    <2> QED
      BY <1>1, <1>2, <2>1
  <1>3. CASE Len(all) >= 7
    <2>1. PICK a : a = [f \in 1..7 |-> all[f].value]
      OBVIOUS
    <2>2. a \in [1..7 -> Int]
      <3>1. \A f \in 1..7 : f \in 1..Len(all)
        BY <1>1, <1>3
      <3>2. \A f \in 1..7 : all[f].value \in Int
        BY <3>1, FieldElements, Zenon
      <3> QED
        BY <2>1, <3>2
    <2>3. \A f \in 1..7 : a[f] = all[f].value
      BY <2>1
    <2>4. CASE Len(all) = 7
      <3>1. ~(7 < 7)
        OBVIOUS
      <3>2. k = [old EXCEPT !.died = TRUE] \/ k = [old EXCEPT !.view = a \o << old.view[8] >>]
        BY <2>1, <2>4, <3>1 DEF Update, Dies, DIR, ROW, MODE
      <3>3. Len(all) <= 7 /\ ~(Len(all) > 7)
        BY <2>4
      <3> QED
        BY <1>0, <2>2, <2>3, <3>2, <3>3, Zenon
    <2>5. CASE Len(all) > 7
      <3>1. PICK m : m = ModeRead(all, old.view[8])
        OBVIOUS
      <3>2. ~(Len(all) < 7) /\ Len(all) # 7 /\ Len(all) >= 8
        BY <1>1, <2>5
      <3>3. k = [old EXCEPT !.view = a \o << m >>]
        <4>1. k = [old EXCEPT !.view = [f \in 1..7 |-> all[f].value] \o << ModeRead(all, old.view[8]) >>]
          BY <3>2 DEF Update, DIR, ROW, MODE
        <4> QED
          BY <2>1, <3>1, <4>1, Zenon
      <3>4. m \in Int
        BY <1>0, <1>1, <3>1, <3>2, ModeReadType
      <3> QED
        BY <2>2, <2>3, <3>1, <3>3, <3>4, Zenon
    <2>6. Len(all) = 7 \/ Len(all) > 7
      BY <1>1, <1>3
    <2> QED
      BY <2>4, <2>5, <2>6, Zenon
  <1>4. Len(all) < 7 \/ Len(all) >= 7
    BY <1>1
  <1> QED
    BY <1>2, <1>3, <1>4, Zenon

\* Whatever the text, what is known stays in its range; only a report changes the view, only
\* an answer to a sensor command the sensor, and only an answer to 'q' ends the server.
LEMMA SendBackType ==
  ASSUME NEW text \in Seq(Scannables), NEW old \in KnownSet, NEW k \in GetSendBack(text, old)
  PROVE  /\ k \in KnownSet
         /\ Kind(text) # 1 => k.view = old.view
         /\ Kind(text) # 2 => k.sensor = old.sensor
         /\ Kind(text) # 5 => k.done = old.done
         /\ Kind(text) \notin {1, 2} => k.died = old.died
PROOF
  <1>1. CASE Kind(text) = 1
    <2>1. k \in Update(Scanned(text), old)
      BY <1>1 DEF GetSendBack
    <2>2. Len(text) >= 2
      BY <1>1, KindFacts
    <2>3. PICK all \in Seq(FieldSet) : all = Scanned(text)
      BY <2>2, ScannedType
    <2>4. k \in Update(all, old)
      BY <2>1, <2>3
    <2>5. CASE k = [old EXCEPT !.died = TRUE]
      BY <1>1, <2>5 DEF KnownSet
    <2>6. ASSUME NEW a \in [1..7 -> Int], NEW mode \in Int, k = [old EXCEPT !.view = a \o << mode >>]
          PROVE  k \in KnownSet /\ k.sensor = old.sensor /\ k.done = old.done
      <3>1. PICK v \in View : v = a \o << mode >>
        BY ViewMade
      <3>2. k = [old EXCEPT !.view = v]
        BY <2>6, <3>1
      <3> QED
        BY <3>2 DEF KnownSet
    <2>7. \/ k = [old EXCEPT !.died = TRUE]
          \/ \E a \in [1..7 -> Int], mode \in Int : k = [old EXCEPT !.view = a \o << mode >>]
      <3>1. \/ Len(all) <= 7 /\ k = [old EXCEPT !.died = TRUE]
            \/ \E a \in [1..7 -> Int], mode \in Int :
                 /\ k = [old EXCEPT !.view = a \o << mode >>]
                 /\ \A f \in 1..7 : a[f] = all[f].value
                 /\ Len(all) > 7 => mode = ModeRead(all, old.view[8])
        BY <2>4, UpdateCases
      <3> QED
        BY <3>1, Zenon
    <2> QED
      BY <1>1, <2>5, <2>6, <2>7
  <1>2. CASE Kind(text) = 2
    <2>1. k \in ChangeSensor(text, old)
      BY <1>2 DEF GetSendBack
    <2>2. k = old \/ k = [old EXCEPT !.died = TRUE]
          \/ (text[3] \in SensorIds /\ k = [old EXCEPT !.sensor = text[3]])
      BY <2>1 DEF ChangeSensor, Dies
    <2> QED
      BY <1>2, <2>2 DEF KnownSet
  <1>3. CASE Kind(text) = 5
    <2>1. k = [old EXCEPT !.done = TRUE]
      BY <1>3 DEF GetSendBack
    <2> QED
      BY <1>3, <2>1 DEF KnownSet
  <1>4. CASE Kind(text) \notin {1, 2, 5}
    <2>1. k = old
      BY <1>4 DEF GetSendBack
    <2> QED
      BY <2>1
  <1> QED
    BY <1>1, <1>2, <1>3, <1>4

\* A whole answer to a sensor command sets the sensor.
LEMMA AnswerTaken ==
  ASSUME NEW text \in Seq(Scannables), NEW old \in KnownSet, NEW k \in GetSendBack(text, old),
         Kind(text) = 2, Len(text) = 3, text[3] \in SensorIds
  PROVE  k.sensor = text[3] /\ k.died = old.died
PROOF
  <1>1. text[3] # At
    BY TokenFacts
  <1>2. k \in ChangeSensor(text, old)
    BY DEF GetSendBack
  <1>3. k = [old EXCEPT !.sensor = text[3]]
    BY <1>1, <1>2 DEF ChangeSensor
  <1> QED
    BY <1>3 DEF KnownSet

\* A change of the sensor that is not cut short does no harm.
LEMMA AnswerHarmless ==
  ASSUME NEW text \in Seq(Scannables), NEW old \in KnownSet, NEW k \in GetSendBack(text, old),
         Kind(text) = 2, Len(text) >= 3
  PROVE  k.died = old.died
PROOF
  <1>1. k \in ChangeSensor(text, old)
    BY DEF GetSendBack
  <1>2. ~(Len(text) < 3)
    OBVIOUS
  <1>3. k = old \/ k = [old EXCEPT !.sensor = text[3]]
    BY <1>1, <1>2 DEF ChangeSensor
  <1> QED
    BY <1>3 DEF KnownSet

\* A whole report sets the view, up to the first number that cannot be read.
LEMMA ReportTaken ==
  ASSUME NEW text \in Seq(Scannables), NEW old \in KnownSet, NEW k \in GetSendBack(text, old),
         Kind(text) = 1, Len(text) = 10, Numbers(text),
         NEW p, \A f \in 1..8 : p[f] = text[f + 2]
  PROVE  k.died = old.died /\ \A f \in ROW..MODE : Legible(p, f) => k.view[f] = p[f]
PROOF
  <1>0. Len(text) >= 2 /\ Len(text) - 2 = 8
    OBVIOUS
  <1>1. PICK all \in Seq(FieldSet) : all = Scanned(text)
    BY <1>0, ScannedType
  <1>2. Len(all) >= 8 /\ Len(all) \in Nat
    BY <1>0, <1>1, ScannedType, FieldElements
  <1>3. k \in Update(all, old)
    BY <1>1 DEF GetSendBack
  <1>4. PICK a \in [1..7 -> Int], mode \in Int :
          /\ k = [old EXCEPT !.view = a \o << mode >>]
          /\ \A f \in 1..7 : a[f] = all[f].value
          /\ mode = ModeRead(all, old.view[8])
    <2>1. Len(all) > 7 /\ ~(Len(all) <= 7)
      BY <1>2
    <2>2. \E a \in [1..7 -> Int], mode \in Int :
              /\ k = [old EXCEPT !.view = a \o << mode >>]
              /\ \A f \in 1..7 : a[f] = all[f].value
              /\ Len(all) > 7 => mode = ModeRead(all, old.view[8])
      BY <1>3, <2>1, UpdateCases
    <2> QED
      BY <2>1, <2>2, Zenon
  <1>5. k.view = a \o << mode >> /\ k.died = old.died
    BY <1>4 DEF KnownSet
  <1>6. k.view[8] = mode /\ \A f \in 1..7 : k.view[f] = all[f].value
    <2>1. (a \o << mode >>)[8] = mode /\ \A f \in 1..7 : (a \o << mode >>)[f] = a[f]
      BY ViewMade
    <2> QED
      BY <1>4, <1>5, <2>1, Zenon
  <1>7. old.view[8] \in Int
    BY DEF KnownSet, View, ROW, MODE
  <1>12. ASSUME NEW f \in 1..8, Legible(p, f)
         PROVE  k.view[f] = p[f]
    <2>1. PICK i \in 3..10 : i = f + 2 /\ f = i - 2
      <3>1. f + 2 \in 3..10 /\ f = f + 2 - 2
        OBVIOUS
      <3> QED
        BY <3>1
    <2>2. p[f] = text[i]
      BY <2>1
    <2>3. \A j \in 3..i : j # 7 => text[j] >= 0
      <3> SUFFICES ASSUME NEW j \in 3..i, j # 7
                   PROVE  text[j] >= 0
        OBVIOUS
      <3>1. PICK g \in 1..f : g = j - 2 /\ g + 2 = j
        <4>1. j - 2 \in 1..f /\ j - 2 + 2 = j
          BY <2>1
        <4> QED
          BY <4>1
      <3>2. g \in 1..8 /\ p[g] = text[j]
        <4>1. g \in 1..8
          OBVIOUS
        <4>2. p[g] = text[g + 2]
          BY <4>1
        <4> QED
          BY <3>1, <4>1, <4>2, Zenon
      <3>3. g # 8 => p[g] >= 0
        <4>1. g # 5
          BY <3>1
        <4> QED
          BY <1>12, <4>1 DEF Legible, ROW, DV, MODE
      <3>4. g = 8 => p[g] \in 1..3
        <4>1. g = 8 => f = 8
          <5>1. f \in Int /\ g \in Int /\ g <= f /\ f <= 8
            BY <2>1
          <5> QED
            BY <5>1
        <4> QED
          BY <1>12, <4>1 DEF Legible, MODE, Modes
      <3>5. \A x \in 1..3 : x >= 0
        OBVIOUS
      <3> QED
        BY <3>2, <3>3, <3>4, <3>5, Zenon
    <2>4. Plain(text, i) /\ f \in Int
      BY <2>3 DEF Plain
    <2>5. /\ all[f].value = text[i]
          /\ i = 10 => Len(all) = 8 /\ all[8] = [value |-> text[10], part |-> "whole"]
      BY <1>1, <2>1, <2>4, ReportScanned
    <2>6. CASE f = 8
      <3>1. Len(all) = 8 /\ all[8] = [value |-> p[8], part |-> "whole"] /\ p[8] \in 1..3
        BY <1>12, <2>1, <2>2, <2>5, <2>6 DEF Legible, MODE, Modes
      <3>2. mode = p[8]
        <4>1. all[8].part = "whole" /\ all[8].value = p[8]
          BY <3>1
        <4> QED
          BY <1>2, <1>4, <1>7, <3>1, <4>1, ModeReadType
      <3> QED
        BY <1>6, <2>6, <3>2
    <2>7. CASE f # 8
      <3>1. f \in 1..7
        BY <2>7
      <3>2. k.view[f] = all[f].value
        BY <1>6, <3>1, Zenon
      <3> QED
        BY <2>2, <2>5, <3>2
    <2> QED
      BY <2>6, <2>7
  <1> QED
    BY <1>5, <1>12 DEF ROW, MODE

-----------------------------------------------------------------------------
(* What stands on a connection.                                             *)

\* Messages stay whole when one is sent, and when a piece is read from the front.
LEMMA WholeAppended ==
  ASSUME NEW K, NEW s \in Seq(Tokens), Whole(s, K), NEW m \in Upward(K)
  PROVE  s \o m \in Seq(Tokens) /\ Len(s \o m) = Len(s) + Len(m) /\ Whole(s \o m, K)
PROOF
  <1>1. m \in Seq(Tokens) /\ Len(m) \in Nat /\ Len(m) >= 3 /\ m[1] = At
        /\ \A j \in 2..Len(m) : m[j] # At
    BY MessageShape
  <1>2. PICK r : r = s \o m
    OBVIOUS
  <1>3. /\ r \in Seq(Tokens) /\ Len(r) = Len(s) + Len(m) /\ Len(s) \in Nat
        /\ \A i \in 1..Len(s) : r[i] = s[i]
        /\ \A i \in 1..Len(m) : r[Len(s) + i] = m[i]
    BY <1>1, <1>2, Joined
  <1>4. ASSUME NEW i \in 1..Len(r), r[i] = At
        PROVE  \E w \in Upward(K) : Stands(w, r, i)
    <2>1. CASE i <= Len(s)
      <3>1. s[i] = At /\ i \in 1..Len(s)
        BY <1>3, <1>4, <2>1
      <3>2. PICK w \in Upward(K) : Stands(w, s, i)
        BY <3>1 DEF Whole
      <3>3. Len(w) \in Nat
        BY MessageShape
      <3>4. i + Len(w) <= Len(s) + 1 /\ (\A j \in 1..Len(w) : s[i + j - 1] = w[j])
            /\ (i + Len(w) <= Len(s) => s[i + Len(w)] = At)
        BY <3>2 DEF Stands
      <3>5. \A j \in 1..Len(w) : i + j - 1 \in 1..Len(s)
        BY <1>3, <3>1, <3>3, <3>4
      <3>6. \A j \in 1..Len(w) : r[i + j - 1] = w[j]
        BY <1>3, <3>4, <3>5, Zenon
      <3>7. i + Len(w) <= Len(r) + 1
        BY <1>1, <1>3, <3>1, <3>3, <3>4
      <3>8. r[i + Len(w)] = At
        <4>1. CASE i + Len(w) <= Len(s)
          <5>1. i + Len(w) \in 1..Len(s)
            BY <1>3, <3>1, <3>3, <4>1
          <5> QED
            BY <1>3, <3>4, <4>1, <5>1, Zenon
        <4>2. CASE ~(i + Len(w) <= Len(s))
          <5>1. i + Len(w) = Len(s) + 1 /\ 1 \in 1..Len(m)
            BY <1>1, <1>3, <3>1, <3>3, <3>4, <4>2
          <5> QED
            BY <1>1, <1>3, <5>1, Zenon
        <4> QED
          BY <4>1, <4>2
      <3> QED
        BY <3>6, <3>7, <3>8 DEF Stands
    <2>2. CASE ~(i <= Len(s))
      <3>1. PICK d \in 1..Len(m) : i = Len(s) + d
        <4>1. i - Len(s) \in 1..Len(m) /\ i = Len(s) + (i - Len(s))
          BY <1>1, <1>3, <2>2
        <4> QED
          BY <4>1
      <3>2. m[d] = At
        BY <1>3, <1>4, <3>1, Zenon
      <3>3. d = 1
        <4>1. d \notin 2..Len(m)
          BY <1>1, <3>2
        <4> QED
          BY <1>1, <4>1
      <3>4. i + Len(m) = Len(r) + 1 /\ ~(i + Len(m) <= Len(r))
        BY <1>1, <1>3, <3>1, <3>3
      <3>5. \A j \in 1..Len(m) : i + j - 1 = Len(s) + j
        BY <1>1, <1>3, <3>1, <3>3
      <3>6. \A j \in 1..Len(m) : r[i + j - 1] = m[j]
        BY <1>3, <3>5
      <3>7. i + Len(m) <= Len(r) + 1
        BY <1>1, <1>3, <3>4
      <3> QED
        BY <3>4, <3>6, <3>7 DEF Stands
    <2> QED
      BY <2>1, <2>2
  <1> QED
    BY <1>2, <1>3, <1>4 DEF Whole

LEMMA WholeDropped ==
  ASSUME NEW K, NEW s \in Seq(Tokens), Whole(s, K), NEW n \in 0..Len(s)
  PROVE  Whole(SubSeq(s, n + 1, Len(s)), K)
PROOF
  <1>1. PICK t : t = SubSeq(s, n + 1, Len(s))
    OBVIOUS
  <1>2. /\ t \in Seq(Tokens) /\ Len(t) = Len(s) - n /\ Len(s) \in Nat /\ n \in Int
        /\ \A i \in 1..(Len(s) - n) : t[i] = s[n + i]
    BY <1>1, HeadersDropped
  <1>3. ASSUME NEW i \in 1..Len(t), t[i] = At
        PROVE  \E w \in Upward(K) : Stands(w, t, i)
    <2>1. n + i \in 1..Len(s) /\ s[n + i] = At
      BY <1>2, <1>3
    <2>2. PICK w \in Upward(K) : Stands(w, s, n + i)
      BY <2>1 DEF Whole
    <2>3. Len(w) \in Nat
      BY MessageShape
    <2>4. n + i + Len(w) <= Len(s) + 1 /\ (\A j \in 1..Len(w) : s[n + i + j - 1] = w[j])
          /\ (n + i + Len(w) <= Len(s) => s[n + i + Len(w)] = At)
      BY <2>2 DEF Stands
    <2>5. i + Len(w) <= Len(t) + 1
      BY <1>2, <2>3, <2>4
    <2>6. \A j \in 1..Len(w) : i + j - 1 \in 1..(Len(s) - n) /\ n + (i + j - 1) = n + i + j - 1
      BY <1>2, <2>3, <2>5
    <2>7. ASSUME NEW j \in 1..Len(w)
          PROVE  t[i + j - 1] = w[j]
      <3>1. t[i + j - 1] = s[n + (i + j - 1)]
        BY <1>2, <2>6, Zenon
      <3> QED
        BY <2>4, <2>6, <3>1, Zenon
    <2>8. ASSUME i + Len(w) <= Len(t)
          PROVE  t[i + Len(w)] = At
      <3>1. i + Len(w) \in 1..(Len(s) - n) /\ n + (i + Len(w)) = n + i + Len(w)
            /\ n + i + Len(w) <= Len(s)
        BY <1>2, <2>3, <2>8
      <3>2. t[i + Len(w)] = s[n + (i + Len(w))]
        BY <1>2, <3>1, Zenon
      <3> QED
        BY <2>4, <3>1, <3>2, Zenon
    <2> QED
      BY <2>5, <2>7, <2>8 DEF Stands
  <1> QED
    BY <1>1, <1>3 DEF Whole

\* With a line typed there are more kinds of messages.
LEMMA WholeWidened ==
  ASSUME NEW K, NEW L, K \subseteq L, NEW s, Whole(s, K)
  PROVE  Whole(s, L)
PROOF
  BY DEF Whole, Upward

\* Where no sensor command is typed, an answer to one is there to its end.
LEMMA AnswerStands ==
  ASSUME NEW K, 2 \notin K, NEW s \in Seq(Tokens), Whole(s, K), NEW i \in AnswersIn(s)
  PROVE  /\ i \in Nat /\ i >= 1 /\ Len(s) \in Nat /\ i + 2 <= Len(s)
         /\ s[i] = At /\ s[i + 1] = 2 /\ s[i + 2] \in SensorIds
         /\ s[i + 1] # At /\ s[i + 2] # At /\ s[i + 1] # Nul /\ s[i + 2] # Nul
         /\ i + 3 <= Len(s) => s[i + 3] = At
PROOF
  <1>1. i \in 1..(Len(s) - 1) /\ s[i] = At /\ s[i + 1] = 2
    BY DEF AnswersIn
  <1>2. i \in 1..Len(s) /\ Len(s) \in Nat /\ i \in Nat /\ i >= 1
    BY <1>1
  <1>3. PICK w \in Upward(K) : Stands(w, s, i)
    BY <1>1, <1>2 DEF Whole
  <1>4. Len(w) \in Nat /\ Len(w) >= 3
    BY MessageShape
  <1>5. i + Len(w) <= Len(s) + 1 /\ (\A j \in 1..Len(w) : s[i + j - 1] = w[j])
        /\ (i + Len(w) <= Len(s) => s[i + Len(w)] = At)
    BY <1>3 DEF Stands
  <1>6. s[i + 1] = w[2] /\ s[i + 2] = w[3]
    <2>1. 2 \in 1..Len(w) /\ 3 \in 1..Len(w) /\ i + 2 - 1 = i + 1 /\ i + 3 - 1 = i + 2
      BY <1>2, <1>4
    <2>2. s[i + 2 - 1] = w[2] /\ s[i + 3 - 1] = w[3]
      BY <1>5, <2>1, Zenon
    <2> QED
      BY <2>1, <2>2, Zenon
  <1>7. w[2] = 2
    BY <1>1, <1>6
  <1>8. PICK x \in SensorIds : Len(w) = 3 /\ w[3] = x
    BY <1>7, MessageShape
  <1>9. x # At /\ x # Nul /\ 2 # At /\ 2 # Nul
    BY TokenFacts
  <1>10. i + 2 <= Len(s) /\ i + Len(w) = i + 3
    BY <1>2, <1>5, <1>8
  <1> QED
    BY <1>1, <1>2, <1>5, <1>6, <1>8, <1>9, <1>10, Zenon

\* A message adds no answer but itself.
LEMMA AnswersAppended ==
  ASSUME NEW K, NEW s \in Seq(Tokens), Whole(s, K), NEW m \in Upward(K)
  PROVE  /\ \A i \in AnswersIn(s) : i \in AnswersIn(s \o m)
         /\ \A i \in AnswersIn(s \o m) : i \in AnswersIn(s) \/ (i = Len(s) + 1 /\ m[2] = 2)
         /\ m[2] = 2 => Len(s) + 1 \in AnswersIn(s \o m)
         /\ \A i \in 1..Len(s) : (s \o m)[i] = s[i]
         /\ \A j \in 1..Len(m) : (s \o m)[Len(s) + j] = m[j]
PROOF
  <1>1. m \in Seq(Tokens) /\ Len(m) \in Nat /\ Len(m) >= 3 /\ m[1] = At
        /\ \A j \in 2..Len(m) : m[j] # At
    BY MessageShape
  <1>2. PICK r : r = s \o m
    OBVIOUS
  <1>3. /\ r \in Seq(Tokens) /\ Len(r) = Len(s) + Len(m) /\ Len(s) \in Nat
        /\ \A i \in 1..Len(s) : r[i] = s[i]
        /\ \A i \in 1..Len(m) : r[Len(s) + i] = m[i]
    BY <1>1, <1>2, Joined
  <1>4. ASSUME NEW i \in AnswersIn(s)
        PROVE  i \in AnswersIn(r)
    <2>1. i \in 1..(Len(s) - 1) /\ s[i] = At /\ s[i + 1] = 2
      BY DEF AnswersIn
    <2>2. i \in 1..Len(s) /\ i + 1 \in 1..Len(s) /\ i \in 1..(Len(r) - 1)
      BY <1>1, <1>3, <2>1
    <2>3. r[i] = At /\ r[i + 1] = 2
      BY <1>3, <2>1, <2>2, Zenon
    <2> QED
      BY <2>2, <2>3 DEF AnswersIn
  <1>5. ASSUME NEW i \in AnswersIn(r), ~(i = Len(s) + 1 /\ m[2] = 2)
        PROVE  i \in AnswersIn(s)
    <2>1. i \in 1..(Len(r) - 1) /\ r[i] = At /\ r[i + 1] = 2
      BY DEF AnswersIn
    <2>2. i \in Int /\ i >= 1 /\ i <= Len(s) + Len(m) - 1
      BY <1>1, <1>3, <2>1
    <2>3. i # Len(s) + 1
      <3> SUFFICES ASSUME i = Len(s) + 1
                   PROVE  FALSE
        OBVIOUS
      <3>1. i + 1 = Len(s) + 2 /\ 2 \in 1..Len(m)
        BY <1>1, <1>3
      <3>2. r[i + 1] = m[2]
        BY <1>3, <3>1, Zenon
      <3> QED
        BY <1>5, <2>1, <3>2
    <2>4. i <= Len(s)
      <3> SUFFICES ASSUME ~(i <= Len(s))
                   PROVE  FALSE
        OBVIOUS
      <3>1. i - Len(s) \in 2..Len(m) /\ i - Len(s) \in 1..Len(m) /\ i = Len(s) + (i - Len(s))
        BY <1>1, <1>3, <2>2, <2>3
      <3>2. r[i] = m[i - Len(s)]
        BY <1>3, <3>1, Zenon
      <3> QED
        BY <1>1, <2>1, <3>1, <3>2, Zenon
    <2>5. i # Len(s)
      <3> SUFFICES ASSUME i = Len(s)
                   PROVE  FALSE
        OBVIOUS
      <3>1. r[i + 1] = m[1]
        <4>1. 1 \in 1..Len(m)
          BY <1>1
        <4> QED
          BY <1>3, <4>1, Zenon
      <3>2. 2 # At
        BY MarksAreNoNumbers
      <3> QED
        BY <1>1, <2>1, <3>1, <3>2, Zenon
    <2>6. i \in 1..(Len(s) - 1) /\ i \in 1..Len(s) /\ i + 1 \in 1..Len(s)
      BY <1>3, <2>2, <2>4, <2>5
    <2>7. s[i] = At /\ s[i + 1] = 2
      BY <1>3, <2>1, <2>6, Zenon
    <2> QED
      BY <2>6, <2>7 DEF AnswersIn
  <1>6. ASSUME m[2] = 2
        PROVE  Len(s) + 1 \in AnswersIn(r)
    <2>1. Len(s) + 1 \in 1..(Len(r) - 1) /\ 1 \in 1..Len(m) /\ 2 \in 1..Len(m)
          /\ Len(s) + 1 + 1 = Len(s) + 2
      BY <1>1, <1>3
    <2>2. r[Len(s) + 1] = At /\ r[Len(s) + 2] = 2
      BY <1>1, <1>3, <1>6, <2>1, Zenon
    <2> QED
      BY <2>1, <2>2 DEF AnswersIn
  <1> QED
    BY <1>2, <1>3, <1>4, <1>5, <1>6, Zenon

LEMMA AnswersDropped ==
  ASSUME NEW s \in Seq(Tokens), NEW n \in 0..Len(s), NEW t, t = SubSeq(s, n + 1, Len(s))
  PROVE  /\ \A i \in AnswersIn(t) : n + i \in AnswersIn(s) /\ i \in Int /\ i >= 1
         /\ \A i \in AnswersIn(s) : i \in Int /\ (i > n => i - n \in AnswersIn(t))
PROOF
  <1>1. /\ t \in Seq(Tokens) /\ Len(t) = Len(s) - n /\ Len(s) \in Nat /\ n \in Int
        /\ \A i \in 1..(Len(s) - n) : t[i] = s[n + i]
    BY HeadersDropped
  <1>2. ASSUME NEW i \in AnswersIn(t)
        PROVE  n + i \in AnswersIn(s) /\ i \in Int /\ i >= 1
    <2>1. i \in 1..(Len(t) - 1) /\ t[i] = At /\ t[i + 1] = 2
      BY DEF AnswersIn
    <2>2. i \in 1..(Len(s) - n) /\ i + 1 \in 1..(Len(s) - n) /\ n + i \in 1..(Len(s) - 1)
          /\ n + (i + 1) = n + i + 1 /\ i \in Int /\ i >= 1
      BY <1>1, <2>1
    <2>3. s[n + i] = At /\ s[n + (i + 1)] = 2
      BY <1>1, <2>1, <2>2, Zenon
    <2>4. s[n + i + 1] = 2
      BY <2>2, <2>3, Zenon
    <2> QED
      BY <2>2, <2>3, <2>4 DEF AnswersIn
  <1>3. ASSUME NEW i \in AnswersIn(s)
        PROVE  i \in Int /\ (i > n => i - n \in AnswersIn(t))
    <2>1. i \in 1..(Len(s) - 1) /\ s[i] = At /\ s[i + 1] = 2
      BY DEF AnswersIn
    <2>2. ASSUME i > n
          PROVE  i - n \in AnswersIn(t)
      <3>1. PICK d \in Int : d = i - n
        BY <1>1, <2>1
      <3>2. d \in 1..(Len(s) - n) /\ d + 1 \in 1..(Len(s) - n) /\ d \in 1..(Len(t) - 1)
            /\ n + d = i /\ n + (d + 1) = i + 1
        BY <1>1, <2>1, <2>2, <3>1
      <3>3. t[d] = s[n + d] /\ t[d + 1] = s[n + (d + 1)]
        BY <1>1, <3>2, Zenon
      <3>4. t[d] = At /\ t[d + 1] = 2
        BY <2>1, <3>2, <3>3, Zenon
      <3> QED
        BY <3>1, <3>2, <3>4 DEF AnswersIn
    <2> QED
      BY <2>1, <2>2
  <1> QED
    BY <1>2, <1>3

-----------------------------------------------------------------------------
(* Pieces of whole messages.                                                *)

LEMMA ReportsAreNumbers ==
  ASSUME NEW w \in Reports
  PROVE  w[2] = 1 /\ \A j \in 1..Len(w) : w[j] # Nul
PROOF
  <1>1. w[2] = 1
    BY ReportShape
  <1>2. w \in Upward({})
    BY DEF Upward
  <1>3. ~\E x \in SensorIds : w[2] = 2
    BY <1>1
  <1>4. w[2] # 5
    BY <1>1
  <1> QED
    BY <1>1, <1>2, <1>3, <1>4, MessageShape

\* What getSendBack takes for a message in such a piece is one, whole and alone,
\* unless a line of that kind was typed.
LEMMA WholePiece ==
  ASSUME NEW K, NEW s \in Seq(Tokens), Whole(s, K), NEW n \in 1..Len(s), s[1] = At,
         n < Len(s) => s[n + 1] = At,
         NEW text, text = Text(SubSeq(s, 1, n)), Kind(text) # 0
  PROVE  /\ Kind(text) = s[2] /\ (Kind(text) = 2 => Len(text) >= 3)
         /\ \/ Kind(text) = 1 /\ text \in Reports
            \/ Kind(text) = 2 /\ Len(text) = 3 /\ n = 3 /\ text[3] \in SensorIds /\ text[3] = s[3]
            \/ Kind(text) = 5
            \/ Kind(text) \in K
PROOF
  <1>1. PICK p : p = SubSeq(s, 1, n)
    OBVIOUS
  <1>2. p \in Seq(Tokens) /\ Len(p) = n /\ \A i \in 1..n : p[i] = s[i]
    BY <1>1, SubSeqProperties
  <1>3. PICK k \in 0..n : /\ text \in Seq(Scannables) /\ Len(text) = k
                          /\ \A i \in 1..k : text[i] = p[i] /\ p[i] # Nul
                          /\ k < n => p[k + 1] = Nul
    BY <1>1, <1>2, TextIsPrefix DEF Scannables
  <1>4. /\ n \in Nat /\ n <= Len(s) /\ k \in Nat /\ k <= n /\ Len(s) \in Nat
        /\ \A i \in 1..k : text[i] = s[i]
        /\ k < n => s[k + 1] = Nul
    BY <1>2, <1>3
  <1>5. Headers(text) = 1 /\ k >= 2 /\ text[2] = Kind(text)
    BY <1>3, KindFacts
  <1>6. PICK w \in Upward(K) : Stands(w, s, 1)
    <2>1. 1 \in 1..Len(s)
      BY <1>4
    <2> QED
      BY <2>1 DEF Whole
  <1>7. PICK d \in Nat : d = Len(w) /\ d >= 3
    BY MessageShape
  <1>8. w \in Seq(Tokens) /\ w[1] = At /\ \A j \in 2..d : w[j] # At
    BY <1>7, MessageShape
  <1>9. d <= Len(s) /\ (\A j \in 1..d : s[j] = w[j]) /\ (d < Len(s) => s[d + 1] = At)
    <2>1. 1 + d <= Len(s) + 1 /\ (\A j \in 1..d : s[1 + j - 1] = w[j])
          /\ (1 + d <= Len(s) => s[1 + d] = At)
      BY <1>6, <1>7 DEF Stands
    <2>2. \A j \in 1..d : 1 + j - 1 = j
      OBVIOUS
    <2>3. (1 + d <= Len(s) <=> d < Len(s)) /\ 1 + d = d + 1
      BY <1>4
    <2>4. d <= Len(s)
      BY <1>4, <2>1
    <2>5. \A j \in 1..d : s[j] = w[j]
      BY <2>1, <2>2
    <2> QED
      BY <2>1, <2>3, <2>4, <2>5
  <1>10. d <= n
    <2> SUFFICES ASSUME ~(d <= n)
                 PROVE  FALSE
      OBVIOUS
    <2>1. n < Len(s) /\ n + 1 \in 2..d /\ n + 1 \in 1..d
      BY <1>4, <1>9
    <2> QED
      BY <1>8, <1>9, <2>1, Zenon
  <1>11. text[2] = w[2] /\ text[2] = s[2]
    <2>1. 2 \in 1..k /\ 2 \in 1..d
      BY <1>5, <1>7
    <2> QED
      BY <1>4, <1>9, <2>1, Zenon
  <1>12. CASE w = QuitAnswer
    <2>1. w[2] = 5
      BY <1>12 DEF QuitAnswer
    <2>2. Kind(text) = 5 /\ Kind(text) = s[2]
      BY <1>5, <1>11, <2>1, Zenon
    <2> QED
      BY <2>2
  <1>13. ASSUME \A j \in 1..d : w[j] # Nul
         PROVE  /\ k = d /\ n = d /\ text \in Seq(Tokens) /\ \A i \in 1..d : text[i] = w[i]
                /\ text = w
    <2>1. k >= d
      <3> SUFFICES ASSUME ~(k >= d)
                   PROVE  FALSE
        OBVIOUS
      <3>1. k < n /\ k + 1 \in 1..d
        BY <1>4, <1>10
      <3> QED
        BY <1>4, <1>9, <1>13, <3>1, Zenon
    <2>2. ~(d < k)
      <3> SUFFICES ASSUME d < k
                   PROVE  FALSE
        OBVIOUS
      <3>1. 1 \in 1..k /\ d + 1 \in 1..k /\ 1 \in 1..d /\ d < Len(s) /\ d + 1 # 1
        BY <1>4, <1>7
      <3>2. text[1] = At /\ text[d + 1] = At
        BY <1>4, <1>8, <1>9, <3>1, Zenon
      <3>3. Headers(text) > 1
        BY <1>3, <3>1, <3>2, SeveralHeaders
      <3> QED
        BY <1>5, <3>3
    <2>3. k = d
      BY <2>1, <2>2
    <2>4. ~(d < n)
      <3> SUFFICES ASSUME d < n
                   PROVE  FALSE
        OBVIOUS
      <3>1. d < Len(s)
        BY <1>4
      <3> QED
        BY <1>4, <1>9, <2>3, <3>1, MarksAreNoNumbers
    <2>5. \A i \in 1..d : text[i] = w[i]
      BY <1>4, <1>9, <2>3
    <2>6. text \in Seq(Tokens)
      BY <1>3 DEF Tokens, Scannables
    <2>7. text = w
      BY <1>3, <1>7, <1>8, <2>3, <2>5, <2>6, SeqEqual
    <2> QED
      BY <1>10, <2>3, <2>4, <2>5, <2>6, <2>7
  <1>14. CASE w \in Reports
    <2>1. w[2] = 1 /\ \A j \in 1..Len(w) : w[j] # Nul
      BY <1>14, ReportsAreNumbers
    <2>2. Kind(text) = 1 /\ Kind(text) # 2 /\ text \in Reports
      BY <1>5, <1>7, <1>11, <1>13, <1>14, <2>1
    <2> QED
      BY <1>5, <1>11, <2>2
  <1>15. ASSUME NEW x \in SensorIds, w = SensorAnswer(x)
         PROVE  /\ Kind(text) = 2 /\ Len(text) = 3 /\ n = 3
                /\ text[3] \in SensorIds /\ text[3] = s[3]
    <2>1. w = << At, 2, x >> /\ x # Nul /\ 2 # Nul
      BY <1>15, TokenFacts DEF SensorAnswer
    <2>2. d = 3 /\ w[1] = At /\ w[2] = 2 /\ w[3] = x
      BY <1>7, <2>1
    <2>3. \A j \in 1..d : w[j] # Nul
      BY <2>1, <2>2, MarksAreNoNumbers
    <2>4. k = d /\ n = d /\ \A i \in 1..d : text[i] = w[i]
      BY <1>13, <2>3
    <2>5. 3 \in 1..d /\ 3 \in 1..k
      BY <2>2, <2>4
    <2>6. text[3] = x /\ text[3] = s[3]
      BY <1>4, <2>2, <2>4, <2>5, Zenon
    <2> QED
      BY <1>3, <1>5, <1>11, <2>2, <2>4, <2>6
  <1>16. ASSUME NEW x \in SensorIds, w = SensorAnswer(x)
         PROVE  Len(text) >= 3 /\ Kind(text) = s[2]
    <2>1. Len(text) = 3
      BY <1>15, <1>16
    <2>2. Kind(text) = s[2]
      BY <1>5, <1>11, Zenon
    <2>3. k = 3 /\ Len(text) = k
      BY <1>3, <2>1
    <2>4. k >= 3
      BY <2>3
    <2> QED
      BY <2>2, <2>3, <2>4, Zenon
  <1>17. CASE w \in TypedLines /\ w[2] \in K
    <2>1. d >= 4
      BY <1>5, <1>7, <1>11, <1>17, TypedShape
    <2>2. w[3] \in Int /\ w[2] \in Int
      <3>1. 2 \in 2..(d - 1) /\ 3 \in 2..(d - 1)
        BY <1>7, <2>1
      <3> QED
        BY <1>7, <1>17, <3>1, TypedShape
    <2>3. k >= 3
      <3> SUFFICES ASSUME ~(k >= 3)
                   PROVE  FALSE
        OBVIOUS
      <3>1. k < n /\ k + 1 = 3 /\ 3 \in 1..d
        BY <1>4, <1>5, <1>10, <2>1
      <3>2. s[k + 1] = Nul /\ s[3] = w[3]
        BY <1>4, <1>9, <3>1, Zenon
      <3> QED
        BY <2>2, <3>1, <3>2, MarksAreNoNumbers
    <2>4. Kind(text) \in K /\ Len(text) >= 3 /\ Kind(text) = s[2]
      BY <1>3, <1>5, <1>11, <1>17, <2>3
    <2> QED
      BY <2>4
  <1> QED
    BY <1>12, <1>14, <1>15, <1>16, <1>17 DEF Upward, SensorAnswers

\* Of a piece that is not read as one answer, the answers are lost as one of several messages.
LEMMA AnswerRead ==
  ASSUME NEW K, 2 \notin K, NEW s \in Seq(Tokens), Whole(s, K), NEW n \in 1..Len(s), s[1] = At,
         n < Len(s) => s[n + 1] = At,
         NEW piece, piece = SubSeq(s, 1, n),
         NEW a \in AnswersIn(s), a <= n
  PROVE  /\ HasAnswer(piece)
         /\ Headers(piece) > 1 \/ Kind(Text(piece)) = 2
PROOF
  <1>1. piece \in Seq(Tokens) /\ Len(piece) = n /\ \A i \in 1..n : piece[i] = s[i]
    BY SubSeqProperties
  <1>2. n \in Nat /\ n <= Len(s) /\ Len(s) \in Nat
    OBVIOUS
  <1>3. /\ a \in Nat /\ a >= 1 /\ a + 2 <= Len(s) /\ s[a] = At /\ s[a + 1] = 2
        /\ s[a + 1] # At /\ s[a + 2] # At /\ s[a + 1] # Nul /\ s[a + 2] # Nul
        /\ a + 3 <= Len(s) => s[a + 3] = At
    BY AnswerStands
  <1>4. a + 2 <= n
    <2> SUFFICES ASSUME ~(a + 2 <= n)
                 PROVE  FALSE
      OBVIOUS
    <2>1. n < Len(s) /\ (n + 1 = a + 1 \/ n + 1 = a + 2)
      BY <1>2, <1>3
    <2> QED
      BY <1>3, <2>1
  <1>5. a \in 1..n /\ a + 1 \in 1..n /\ a \in 1..(n - 1) /\ 1 \in 1..n
    BY <1>2, <1>3, <1>4
  <1>6. piece[a] = At /\ piece[a + 1] = 2 /\ piece[1] = At
    BY <1>1, <1>3, <1>5, Zenon
  <1>7. HasAnswer(piece)
    BY <1>1, <1>5, <1>6 DEF HasAnswer
  <1>8. CASE a # 1
    <2>1. Headers(piece) > 1
      BY <1>1, <1>5, <1>6, <1>8, SeveralHeaders
    <2> QED
      BY <1>7, <2>1
  <1>9. CASE a = 1 /\ n > 3
    <2>1. 4 \in 1..n /\ a + 3 = 4 /\ a + 3 <= Len(s) /\ 4 # 1
      BY <1>2, <1>9
    <2>2. piece[4] = At
      BY <1>1, <1>3, <2>1, Zenon
    <2>3. Headers(piece) > 1
      BY <1>1, <1>5, <1>6, <2>1, <2>2, SeveralHeaders
    <2> QED
      BY <1>7, <2>3
  <1>10. CASE a = 1 /\ ~(n > 3)
    <2>1. n = 3 /\ 2 \in 1..n /\ 3 \in 1..n
      BY <1>2, <1>4, <1>10
    <2>x. s[2] = 2 /\ s[2] # At /\ s[2] # Nul /\ s[3] # At /\ s[3] # Nul
      <3>1. a + 1 = 2 /\ a + 2 = 3
        BY <1>10
      <3> QED
        BY <1>3, <3>1, Zenon
    <2>2. piece[2] = 2 /\ piece[2] # At /\ piece[2] # Nul /\ piece[3] # At /\ piece[3] # Nul
      BY <1>1, <2>1, <2>x, Zenon
    <2>y. \A i \in 1..n : i = 1 \/ i = 2 \/ i = 3
      BY <2>1
    <2>3. \A i \in 1..n : piece[i] # Nul
      BY <1>6, <2>2, <2>y, MarksAreNoNumbers
    <2>4. Text(piece) = piece
      <3>1. ~\E i \in 1..Len(piece) : piece[i] = Nul
        BY <1>1, <2>3
      <3> QED
        BY <3>1, Zenon DEF Text
    <2>5. \A i \in 2..Len(piece) : piece[i] # At
      <3>1. Len(piece) = 3
        BY <1>1, <2>1
      <3>2. \A i \in 2..3 : i = 2 \/ i = 3
        OBVIOUS
      <3> QED
        BY <2>2, <3>1, <3>2
    <2>6. Headers(piece) = 1
      <3>1. piece \in Seq(Tokens) /\ Len(piece) >= 1 /\ piece[1] = At
        BY <1>1, <1>2, <1>6, <2>1
      <3> QED
        BY <2>5, <3>1, OneHeader, Zenon
    <2>7. Kind(piece) = 2
      BY <1>1, <1>6, <2>1, <2>2, <2>6 DEF Kind
    <2> QED
      BY <1>7, <2>4, <2>7
  <1> QED
    BY <1>8, <1>9, <1>10

\* A whole report explains the view it makes.
LEMMA ReportExplains ==
  ASSUME NEW text \in Seq(Scannables), text \in Reports, Kind(text) = 1,
         NEW old \in KnownSet, NEW k \in GetSendBack(text, old)
  PROVE  k.died = old.died /\ Explained(k.view)
PROOF
  <1>1. PICK i, j \in 1..Len(Poses) :
          /\ i <= j /\ Len(text) = 10
          /\ \A f \in 1..8 : text[f + 2] = Mixed(i, j)[f]
    BY ReportShape
  <1>2. PICK p : p = Mixed(i, j)
    OBVIOUS
  <1>3. \A f \in 1..8 : p[f] = text[f + 2] /\ p[f] \in Int
    <2>1. Mixed(i, j) \in [1..8 -> Int]
      BY MixedType DEF View, ROW, MODE
    <2> QED
      BY <1>1, <1>2, <2>1
  <1>4. Numbers(text)
    <2> SUFFICES ASSUME NEW n \in 3..10
                 PROVE  text[n] \in Int
      BY DEF Numbers
    <2>1. n - 2 \in 1..8 /\ n - 2 + 2 = n
      OBVIOUS
    <2> QED
      BY <1>3, <2>1, Zenon
  <1>5. \A f \in 1..8 : p[f] = text[f + 2]
    BY <1>3, Zenon
  <1>6. k.died = old.died /\ \A f \in ROW..MODE : Legible(p, f) => k.view[f] = p[f]
    BY <1>1, <1>4, <1>5, ReportTaken
  <1> QED
    BY <1>1, <1>2, <1>6, Zenon DEF Explained

\* A view that a report explains is on the grid.
LEMMA ExplainedIsOnGrid ==
  ASSUME NEW view, Explained(view)
  PROVE  OnGrid(view)
PROOF
  <1>1. PICK i, j \in 1..Len(Poses) :
          \A f \in ROW..MODE : Legible(Mixed(i, j), f) => view[f] = Mixed(i, j)[f]
    BY DEF Explained
  <1>2. PICK p : p = Mixed(i, j)
    OBVIOUS
  <1>3. p[1] = Poses[i][1] /\ p[2] = Poses[j][2]
    <2>1. 2 \in 2..8
      OBVIOUS
    <2> QED
      BY <1>2, <2>1, MixedFields
  <1>4. p[1] \in Rows /\ p[2] \in Columns /\ Rows \subseteq Nat /\ Columns \subseteq Nat
    <2>1. 1 = ROW /\ 2 = COL
      BY DEF ROW, COL
    <2>2. Poses[i][1] \in Rows /\ Poses[j][2] \in Columns
      BY <2>1, SessionAssumption, Zenon
    <2> QED
      BY <1>3, <2>2, SessionAssumption, Zenon
  <1>5. Legible(p, 1) /\ Legible(p, 2)
    <2>1. \A g \in 1..2 : g = 1 \/ g = 2
      OBVIOUS
    <2>2. \A g \in 1..2 : p[g] >= 0
      <3>1. p[1] \in Nat /\ p[2] \in Nat
        BY <1>4, Zenon
      <3>2. \A x \in Nat : x >= 0
        OBVIOUS
      <3> QED
        BY <2>1, <3>1, <3>2, Zenon
    <2> QED
      BY <2>2 DEF Legible, ROW, DV, MODE
  <1>6. view[1] = p[1] /\ view[2] = p[2]
    <2>1. 1 \in ROW..MODE /\ 2 \in ROW..MODE
      BY DEF ROW, MODE
    <2> QED
      BY <1>1, <1>2, <1>5, <2>1
  <1> QED
    BY <1>4, <1>6 DEF OnGrid, ROW, COL

-----------------------------------------------------------------------------
(* The invariant.                                                           *)

\* The values of the variables.
ClSet == [pc : {"run", "stuck", "leaving", "ended"}, pose : 1..Len(Poses),
          row : 0..Len(Poses), sensor : SensorIds]
DownSet == Seq(Messages \cup {Quit})
HistSet == [taken : BOOLEAN, cut : BOOLEAN, missed : BOOLEAN,
            typed : SUBSET Int, told : BOOLEAN, threw : BOOLEAN]
SrvSet == {"run", "done", "exited", "died", "crashed"}
Gone == {"leaving", "ended"}

\* A connection with nothing on it.
LEMMA EmptyFacts ==
  /\ << >> \in Seq(Tokens) /\ Len(<< >>) = 0 /\ \A K : Whole(<< >>, K)
  /\ Headers(<< >>) = 0 /\ AnswersIn(<< >>) = {}
PROOF
  <1>1. << >> \in Seq(Tokens) /\ Len(<< >>) = 0
    BY EmptySeq
  <1>2. 1..0 = {} /\ 1..(0 - 1) = {}
    OBVIOUS
  <1>3. (\A K : Whole(<< >>, K)) /\ AnswersIn(<< >>) = {}
    BY <1>1, <1>2 DEF Whole, AnswersIn
  <1>4. {i \in 1..0 : << >>[i] = At} = {}
    BY <1>2
  <1>5. Headers(<< >>) = 0
    BY <1>1, <1>4, FS_EmptySet DEF Headers
  <1> QED
    BY <1>1, <1>3, <1>5

\* The invariant of the variables, in the shapes the proofs use.
LEMMA TypeFacts ==
  ASSUME SessionInv
  PROVE  /\ cl \in [Clients -> ClSet] /\ srv \in SrvSet /\ settled \in BOOLEAN
         /\ known \in [Clients -> KnownSet] /\ up \in [Clients -> Seq(Tokens)]
         /\ down \in [Clients -> DownSet] /\ cuts \in Nat
         /\ hist \in [Clients -> HistSet]
         /\ \A c \in Clients : Headers(up[c]) <= InUp[c] /\ Len(down[c]) <= InDown[c]
PROOF
  BY DEF SessionInv, TypeInv, SessionTypeOK, ClSet, KnownSet, DownSet, HistSet, SrvSet

LEMMA TypeFactsMake ==
  ASSUME /\ cl' \in [Clients -> ClSet] /\ srv' \in SrvSet /\ settled' \in BOOLEAN
         /\ known' \in [Clients -> KnownSet] /\ up' \in [Clients -> Seq(Tokens)]
         /\ down' \in [Clients -> DownSet] /\ cuts' \in Nat
         /\ hist' \in [Clients -> HistSet]
         /\ \A c \in Clients : Headers(up'[c]) <= InUp[c] /\ Len(down'[c]) <= InDown[c]
  PROVE  TypeInv'
PROOF
  <1>1. \A c \in Clients : known'[c].view \in View /\ known'[c].sensor \in SensorIds
    BY DEF KnownSet
  <1> QED
    BY <1>1 DEF TypeInv, SessionTypeOK, ClSet, KnownSet, DownSet, HistSet, SrvSet

\* What is known of a client that has connected is in its range.
LEMMA ConnectedType ==
  ASSUME NEW c \in Clients
  PROVE  Connected(c) \in KnownSet /\ ~Connected(c).died /\ ~Connected(c).done
         /\ Connected(c).view = Constructed[c] /\ Connected(c).sensor = Chosen
PROOF
  <1>1. Constructed[c] \in View /\ Chosen \in SensorIds
    BY SessionAssumption DEF View
  <1> QED
    BY <1>1 DEF Connected, KnownSet

\* Processes that have just connected satisfy the inductive invariant.
THEOREM SessionStarts == SessionInit => SessionInv
PROOF
  <1> SUFFICES ASSUME SessionInit
               PROVE  SessionInv
    OBVIOUS
  <1>0. 1 \in 1..Len(Poses) /\ Chosen \in SensorIds
    BY TokenFacts, SessionAssumption
  <1>1. TypeInv
    <2>1. cl \in [Clients -> ClSet]
      BY <1>0 DEF SessionInit, ClSet, NoReport
    <2>2. known \in [Clients -> KnownSet]
      BY ConnectedType DEF SessionInit
    <2>3. up \in [Clients -> Seq(Tokens)] /\ \A c \in Clients : Headers(up[c]) <= InUp[c]
      <3>1. \A c \in Clients : InUp[c] \in Nat /\ 0 <= InUp[c]
        BY SessionAssumption
      <3> QED
        BY <3>1, EmptyFacts DEF SessionInit
    <2>4. down \in [Clients -> DownSet] /\ \A c \in Clients : Len(down[c]) <= InDown[c]
      <3>1. << >> \in DownSet /\ Len(<< >>) = 0
        BY EmptySeq DEF DownSet
      <3>2. \A c \in Clients : InDown[c] \in Nat /\ 0 <= InDown[c]
        BY SessionAssumption
      <3> QED
        BY <3>1, <3>2 DEF SessionInit
    <2>5. srv \in SrvSet /\ cuts \in Nat /\ settled \in BOOLEAN
      BY DEF SessionInit, SrvSet
    <2>6. hist \in [Clients -> HistSet]
      BY DEF SessionInit, HistSet
    <2>7. \A c \in Clients : known[c].view \in View /\ known[c].sensor \in SensorIds
      BY <2>2 DEF KnownSet
    <2> QED
      BY <2>1, <2>2, <2>3, <2>4, <2>5, <2>6, <2>7
      DEF TypeInv, SessionTypeOK, ClSet, KnownSet, DownSet, HistSet, SrvSet
  <1>2. RowInv
    BY DEF SessionInit, RowInv, NoReport
  <1>3. UpInv
    BY EmptyFacts DEF SessionInit, UpInv
  <1>4. FlagsInv
    BY ConnectedType DEF SessionInit, FlagsInv
  <1>5. ReasonInv
    <2>1. ASSUME NEW c \in Clients
          PROVE  Quiet(c)
      <3>1. down[c] = << >> /\ up[c] = << >> /\ cl[c].pc = "run" /\ ~settled
        BY DEF SessionInit
      <3>2. Len(<< >>) = 0 /\ 1..0 = {} /\ 1..(0 - 1) = {}
        BY EmptySeq
      <3> QED
        BY <3>1, <3>2 DEF Quiet
    <2> QED
      BY <2>1 DEF SessionInit, ReasonInv
  <1>6. LabelInv
    BY EmptyFacts, ConnectedType DEF SessionInit, LabelInv, Labelled
  <1>7. ViewExplained
    BY ConnectedType DEF SessionInit, ViewExplained
  <1> QED
    BY <1>1, <1>2, <1>3, <1>4, <1>5, <1>6, <1>7 DEF SessionInv

\* Steps that leave the streams to the server and what it knows alone.
LEMMA SameStreams ==
  ASSUME SessionInv, UNCHANGED << known, up, cuts >>,
         cl' \in [Clients -> ClSet], RowInv', ReasonInv',
         \A c \in Clients : cl'[c].sensor = cl[c].sensor,
         down' \in [Clients -> DownSet], \A c \in Clients : Len(down'[c]) <= InDown[c],
         hist' \in [Clients -> HistSet],
         \A c \in Clients : /\ hist'[c].cut = hist[c].cut /\ hist'[c].missed = hist[c].missed
                            /\ hist'[c].taken = hist[c].taken /\ hist'[c].typed = hist[c].typed,
         srv' \in SrvSet, settled' \in BOOLEAN,
         srv' = "run" => srv = "run", Open' => Open
  PROVE  SessionInv'
PROOF
  <1>1. TypeInv'
    BY TypeFacts, TypeFactsMake
  <1>2. UpInv'
    BY DEF SessionInv, UpInv
  <1>3. FlagsInv'
    BY DEF SessionInv, FlagsInv
  <1>4. LabelInv'
    BY DEF SessionInv, LabelInv, Labelled
  <1>5. ViewExplained'
    BY DEF SessionInv, ViewExplained
  <1> QED
    BY <1>1, <1>2, <1>3, <1>4, <1>5 DEF SessionInv

\* A client's update thread, and the steps of its main thread that send nothing.
LEMMA MoveKeeps ==
  ASSUME SessionInv, NEW c \in Clients, Move(c)
  PROVE  SessionInv'
PROOF
  <1>0. cl \in [Clients -> ClSet]
    BY TypeFacts
  <1>1. cl[c].pose + 1 \in 1..Len(Poses) /\ cl[c].pose \in Int /\ cl[c].row \in Int
    BY <1>0, TokenFacts DEF Move, ClSet
  <1>2. cl' = [cl EXCEPT ![c] = [cl[c] EXCEPT !.pose = cl[c].pose + 1]]
    BY DEF Move
  <1>3. cl' \in [Clients -> ClSet]
    BY <1>0, <1>1, <1>2 DEF ClSet
  <1>4. \A d \in Clients : cl'[d].sensor = cl[d].sensor /\ cl'[d].pc = cl[d].pc
    BY <1>0, <1>2 DEF ClSet
  <1>5. RowInv'
    <2>1. RowInv
      BY DEF SessionInv
    <2> QED
      BY <1>0, <1>1, <1>2, <2>1 DEF RowInv, ClSet
  <1>6. ReasonInv'
    BY <1>4 DEF SessionInv, ReasonInv, Reason, Quiet, Move
  <1>7. UNCHANGED << srv, known, settled, up, down, cuts, hist >>
    BY DEF Move
  <1> QED
    BY <1>3, <1>4, <1>5, <1>6, <1>7, TypeFacts, SameStreams DEF Open

\* The update thread reads the row.
LEMMA ReadRowKeeps ==
  ASSUME SessionInv, NEW c \in Clients, ReadRow(c)
  PROVE  SessionInv'
PROOF
  <1>0. cl \in [Clients -> ClSet]
    BY TypeFacts
  <1>1. cl[c].pose \in 0..Len(Poses) /\ cl[c].pose \in Int
    BY <1>0, TokenFacts DEF ClSet
  <1>2. cl' = [cl EXCEPT ![c] = [cl[c] EXCEPT !.row = cl[c].pose]]
    BY DEF ReadRow
  <1>3. cl' \in [Clients -> ClSet]
    BY <1>0, <1>1, <1>2 DEF ClSet
  <1>4. \A d \in Clients : cl'[d].sensor = cl[d].sensor /\ cl'[d].pc = cl[d].pc
    BY <1>0, <1>2 DEF ClSet
  <1>5. RowInv'
    <2>1. RowInv
      BY DEF SessionInv
    <2> QED
      BY <1>0, <1>1, <1>2, <2>1 DEF RowInv, ClSet
  <1>6. ReasonInv'
    BY <1>4 DEF SessionInv, ReasonInv, Reason, Quiet, ReadRow
  <1>7. UNCHANGED << srv, known, settled, up, down, cuts, hist >>
    BY DEF ReadRow
  <1> QED
    BY <1>3, <1>4, <1>5, <1>6, <1>7, TypeFacts, SameStreams DEF Open

\* The wait for a drive ends.
LEMMA UnstickKeeps ==
  ASSUME SessionInv, NEW c \in Clients, Unstick(c)
  PROVE  SessionInv'
PROOF
  <1>0. cl \in [Clients -> ClSet]
    BY TypeFacts
  <1>2. cl' = [cl EXCEPT ![c] = [cl[c] EXCEPT !.pc = "run"]] /\ cl[c].pc = "stuck"
    BY DEF Unstick
  <1>3. cl' \in [Clients -> ClSet]
    BY <1>0, <1>2 DEF ClSet
  <1>4. \A d \in Clients : /\ cl'[d].sensor = cl[d].sensor /\ cl'[d].row = cl[d].row
                           /\ cl'[d].pose = cl[d].pose /\ (cl'[d].pc \in Gone <=> cl[d].pc \in Gone)
    BY <1>0, <1>2 DEF ClSet, Gone
  <1>5. RowInv'
    BY <1>4 DEF SessionInv, RowInv
  <1>6. ReasonInv'
    BY <1>4 DEF SessionInv, ReasonInv, Reason, Quiet, Unstick, Gone
  <1>7. UNCHANGED << srv, known, settled, up, down, cuts, hist >>
    BY DEF Unstick
  <1> QED
    BY <1>3, <1>4, <1>5, <1>6, <1>7, TypeFacts, SameStreams DEF Open

\* A client sees that the server is gone.
LEMMA ServerGoneKeeps ==
  ASSUME SessionInv, NEW c \in Clients, ServerGone(c)
  PROVE  SessionInv'
PROOF
  <1>0. cl \in [Clients -> ClSet]
    BY TypeFacts
  <1>2. cl' = [cl EXCEPT ![c] = [cl[c] EXCEPT !.pc = "leaving"]] /\ cl[c].pc = "run" /\ ~Open
    BY DEF ServerGone
  <1>3. cl' \in [Clients -> ClSet]
    BY <1>0, <1>2 DEF ClSet
  <1>4. \A d \in Clients : /\ cl'[d].sensor = cl[d].sensor /\ cl'[d].row = cl[d].row
                           /\ cl'[d].pose = cl[d].pose /\ (cl[d].pc \in Gone => cl'[d].pc \in Gone)
    BY <1>0, <1>2 DEF ClSet, Gone
  <1>5. RowInv'
    BY <1>4 DEF SessionInv, RowInv
  <1>7. UNCHANGED << srv, known, settled, up, down, cuts, hist >>
    BY DEF ServerGone
  <1>6. ReasonInv'
    <2>1. Reason \/ (srv = "crashed" /\ ~settled)
      BY <1>2 DEF SessionInv, ReasonInv, Open
    <2> QED
      BY <1>7, <2>1 DEF ReasonInv, Reason
  <1> QED
    BY <1>3, <1>4, <1>5, <1>6, <1>7, TypeFacts, SameStreams DEF Open

\* A client's end.
LEMMA LeaveFacts ==
  ASSUME SessionInv, NEW c \in Clients, Leave(c)
  PROVE  /\ cl' \in [Clients -> ClSet] /\ RowInv'
         /\ \A d \in Clients : cl'[d].sensor = cl[d].sensor
         /\ down' \in [Clients -> DownSet] /\ \A d \in Clients : Len(down'[d]) <= InDown[d]
PROOF
  <1>0. cl \in [Clients -> ClSet] /\ down \in [Clients -> DownSet]
        /\ \A d \in Clients : Len(down[d]) <= InDown[d]
    BY TypeFacts
  <1>2. cl' = [cl EXCEPT ![c].pc = "ended", ![c].row = 0]
    BY DEF Leave, NoReport
  <1>3. cl' \in [Clients -> ClSet]
    <2>1. 0 \in 0..Len(Poses)
      BY TokenFacts
    <2>2. PICK none : none = 0 /\ none \in 0..Len(Poses)
      BY <2>1
    <2>3. cl' = [cl EXCEPT ![c].pc = "ended", ![c].row = none]
      BY <1>2, <2>2
    <2> HIDE <1>2
    <2> QED
      BY <1>0, <2>2, <2>3 DEF ClSet
  <1>4. \A d \in Clients : cl'[d].sensor = cl[d].sensor
    BY <1>0, <1>2 DEF ClSet
  <1>5. RowInv'
    <2>1. RowInv
      BY DEF SessionInv
    <2> QED
      BY <1>0, <1>2, <2>1 DEF RowInv, ClSet
  <1>6. down' \in [Clients -> DownSet] /\ \A d \in Clients : Len(down'[d]) <= InDown[d]
    <2>1. down' = [down EXCEPT ![c] = << >>]
      BY DEF Leave
    <2>2. << >> \in DownSet /\ Len(<< >>) = 0
      BY EmptySeq DEF DownSet
    <2>3. InDown[c] \in Nat /\ 0 <= InDown[c]
      BY SessionAssumption
    <2> QED
      BY <1>0, <2>1, <2>2, <2>3
  <1> QED
    BY <1>3, <1>4, <1>5, <1>6

\* By SIGPIPE or after leaving.
LEMMA LeaveKeeps ==
  ASSUME SessionInv, NEW c \in Clients, Sigpipe(c) \/ End(c)
  PROVE  SessionInv'
PROOF
  <1>1. UNCHANGED << srv, known, settled, up, cuts, hist >> /\ Leave(c)
    BY DEF Sigpipe, End
  <1>2. ReasonInv'
    <2>1. Reason \/ (srv = "crashed" /\ ~settled)
      <3>1. ~(srv = "run" /\ \A d \in Clients : Quiet(d))
        BY DEF Sigpipe, End, Open, Quiet
      <3> QED
        BY <3>1 DEF SessionInv, ReasonInv
    <2> QED
      BY <1>1, <2>1 DEF ReasonInv, Reason
  <1> QED
    BY <1>1, <1>2, LeaveFacts, TypeFacts, SameStreams DEF Open

\* The server's steps that read nothing.
LEMMA ClientGoneKeeps ==
  ASSUME SessionInv, NEW c \in Clients, ClientGone(c)
  PROVE  SessionInv'
PROOF
  <1>1. /\ UNCHANGED << cl, known, settled, up, down, cuts, hist >> /\ srv' = "done"
        /\ Open /\ cl[c].pc = "ended"
    BY DEF ClientGone
  <1>2. RowInv'
    BY <1>1 DEF SessionInv, RowInv
  <1>3. ReasonInv'
    <2>1. Reason
      BY <1>1 DEF SessionInv, ReasonInv, Quiet, Open
    <2> QED
      BY <1>1, <2>1 DEF ReasonInv, Reason
  <1> QED
    BY <1>1, <1>2, <1>3, TypeFacts, SameStreams DEF Open, SrvSet

\* A command or a path.
LEMMA SendKeeps ==
  ASSUME SessionInv, NEW c \in Clients, Send(c)
  PROVE  SessionInv'
PROOF
  <1>0. down \in [Clients -> DownSet] /\ \A d \in Clients : Len(down[d]) <= InDown[d]
    BY TypeFacts
  <1>1. PICK m \in Commands[c] : /\ down' = [down EXCEPT ![c] = Append(down[c], m)]
                                 /\ UNCHANGED << cl, srv, known, settled, up, cuts, hist >> /\ down[c] = << >>
                                 /\ Open
    BY DEF Send
  <1>2. m \in Messages /\ m # Quit
    BY SessionAssumption DEF Messages, Quit
  <1>3. Append(down[c], m) = << m >>
    BY <1>1
  <1>4. PICK s : s = << m >>
    OBVIOUS
  <1>5. s \in DownSet /\ Len(s) = 1 /\ s[1] = m
    BY <1>2, <1>4 DEF DownSet
  <1>6. down' = [down EXCEPT ![c] = s]
    BY <1>1, <1>3, <1>4
  <1>7. down' \in [Clients -> DownSet] /\ \A d \in Clients : Len(down'[d]) <= InDown[d]
    <2>1. InDown[c] \in Nat \ {0}
      BY SessionAssumption
    <2>2. 1 <= InDown[c]
      BY <2>1
    <2> QED
      BY <1>0, <1>5, <1>6, <2>2
  <1>8. RowInv'
    BY <1>1 DEF SessionInv, RowInv
  <1>9. ReasonInv'
    <2>1. CASE Reason
      BY <1>1, <2>1 DEF ReasonInv, Reason
    <2>2. CASE ~Reason
      <3>1. srv = "run" /\ \A d \in Clients : Quiet(d)
        BY <1>1, <2>2 DEF SessionInv, ReasonInv, Open
      <3>2. \A i \in 1..Len(s) : s[i] # Quit
        BY <1>2, <1>5
      <3>3. \A d \in Clients : \A i \in 1..Len(down'[d]) : down'[d][i] # Quit
        BY <1>0, <1>6, <3>1, <3>2 DEF Quiet
      <3> QED
        BY <1>1, <3>1, <3>3 DEF ReasonInv, Quiet
    <2> QED
      BY <2>1, <2>2
  <1> QED
    BY <1>1, <1>7, <1>8, <1>9, TypeFacts, SameStreams DEF Open

\* 'q' for all clients.
LEMMA TypeQuitKeeps ==
  ASSUME SessionInv, TypeQuit
  PROVE  SessionInv'
PROOF
  <1>0. down \in [Clients -> DownSet] /\ hist \in [Clients -> HistSet]
    BY TypeFacts
  <1>1. /\ UNCHANGED << cl, srv, known, settled, up, cuts >>
        /\ srv = "run" /\ \A c \in Clients : Len(down[c]) < InDown[c]
        /\ down' = [c \in Clients |-> IF cl[c].pc = "ended" THEN << >> ELSE Append(down[c], Quit)]
        /\ hist' = [c \in Clients |-> [hist[c] EXCEPT !.told = TRUE]]
    BY DEF TypeQuit
  <1>2. ASSUME NEW c \in Clients
        PROVE  down'[c] \in DownSet /\ Len(down'[c]) <= InDown[c]
    <2>1. InDown[c] \in Nat \ {0} /\ Len(down[c]) < InDown[c]
      BY <1>1, SessionAssumption
    <2>2. << >> \in DownSet /\ Len(<< >>) = 0
      BY EmptySeq DEF DownSet
    <2>3. Append(down[c], Quit) \in DownSet /\ Len(Append(down[c], Quit)) = Len(down[c]) + 1
          /\ Len(down[c]) \in Nat
      BY <1>0 DEF DownSet
    <2> QED
      BY <1>1, <2>1, <2>2, <2>3
  <1>3. down' \in [Clients -> DownSet] /\ \A c \in Clients : Len(down'[c]) <= InDown[c]
    BY <1>1, <1>2
  <1>4. hist' \in [Clients -> HistSet]
        /\ \A c \in Clients : /\ hist'[c].cut = hist[c].cut /\ hist'[c].missed = hist[c].missed
                              /\ hist'[c].taken = hist[c].taken /\ hist'[c].typed = hist[c].typed
                              /\ hist'[c].told
    BY <1>0, <1>1 DEF HistSet
  <1>5. RowInv'
    BY <1>1 DEF SessionInv, RowInv
  <1>6. ReasonInv'
    BY <1>1, <1>4 DEF ReasonInv, Reason
  <1> QED
    BY <1>1, <1>3, <1>4, <1>5, <1>6, TypeFacts, SameStreams DEF Open

\* A client that a message ends.
LEMMA CommandThrowsKeeps ==
  ASSUME SessionInv, NEW c \in Clients, CommandThrows(c)
  PROVE  SessionInv'
PROOF
  <1>0. hist \in [Clients -> HistSet]
    BY TypeFacts
  <1>1. UNCHANGED << srv, known, settled, up, cuts >> /\ Leave(c)
        /\ hist' = [hist EXCEPT ![c].threw = TRUE]
    BY DEF CommandThrows
  <1>2. /\ hist' \in [Clients -> HistSet] /\ hist'[c].threw
        /\ \A d \in Clients : /\ hist'[d].cut = hist[d].cut /\ hist'[d].missed = hist[d].missed
                              /\ hist'[d].taken = hist[d].taken /\ hist'[d].typed = hist[d].typed
    BY <1>0, <1>1 DEF HistSet
  <1>3. ReasonInv'
    BY <1>2 DEF ReasonInv, Reason
  <1> QED
    BY <1>1, <1>2, <1>3, LeaveFacts, TypeFacts, SameStreams DEF Open

\* All planners have planned.
LEMMA SettleKeeps ==
  ASSUME SessionInv, Settle
  PROVE  SessionInv'
PROOF
  <1>1. /\ UNCHANGED << cl, srv, known, up, down, cuts, hist >> /\ settled' = TRUE /\ Open
        /\ \A c \in Clients : OnGrid(known[c].view)
    BY DEF Settle
  <1>2. RowInv'
    BY <1>1 DEF SessionInv, RowInv
  <1>3. ReasonInv'
    <2>1. Reason \/ (srv = "run" /\ \A c \in Clients : Quiet(c))
      BY <1>1 DEF SessionInv, ReasonInv, Open
    <2>2. CASE Reason
      BY <1>1, <2>2 DEF ReasonInv, Reason
    <2>3. CASE srv = "run" /\ \A c \in Clients : Quiet(c)
      <3>1. \A c \in Clients : Quiet(c)'
        BY <1>1, <2>3 DEF Quiet, OnGrid
      <3> QED
        BY <1>1, <2>3, <3>1 DEF ReasonInv
    <2> QED
      BY <2>1, <2>2, <2>3
  <1> QED
    BY <1>1, <1>2, <1>3, TypeFacts, SameStreams DEF Open

\* The server's end, by main's return, by SIGPIPE, or in a crash.
LEMMA EndsKeeps ==
  ASSUME SessionInv, Exit \/ Crash \/ \E c \in Clients : PlannerSigpipe(c)
  PROVE  SessionInv'
PROOF
  <1>1. /\ UNCHANGED << cl, settled, down, cuts, hist >> /\ srv' \in {"exited", "died", "crashed"}
        /\ known' = [c \in Clients |-> Connected(c)] /\ up' = [c \in Clients |-> << >>]
    BY DEF Exit, Crash, PlannerSigpipe, Ends
  <1>2. TypeInv'
    <2>1. known' \in [Clients -> KnownSet]
      BY <1>1, ConnectedType
    <2>2. up' \in [Clients -> Seq(Tokens)] /\ \A c \in Clients : Headers(up'[c]) <= InUp[c]
      <3>1. \A c \in Clients : InUp[c] \in Nat /\ 0 <= InUp[c]
        BY SessionAssumption
      <3> QED
        BY <1>1, <3>1, EmptyFacts
    <2>3. srv' \in SrvSet
      BY <1>1 DEF SrvSet
    <2> QED
      BY <1>1, <2>1, <2>2, <2>3, TypeFacts, TypeFactsMake
  <1>3. RowInv'
    BY <1>1 DEF SessionInv, RowInv
  <1>4. UpInv'
    BY <1>1, EmptyFacts DEF UpInv
  <1>5. ~Open'
    BY <1>1 DEF Open
  <1>6. FlagsInv' /\ LabelInv' /\ ViewExplained'
    BY <1>1, <1>5 DEF FlagsInv, LabelInv, ViewExplained
  <1>7. ReasonInv'
    <2>1. CASE Reason
      BY <1>1, <2>1 DEF ReasonInv, Reason
    <2>2. CASE ~Reason
      <3>1. srv = "run" /\ \A c \in Clients : Quiet(c)
        BY <2>2 DEF SessionInv, ReasonInv, Exit, Crash, PlannerSigpipe, Open
      <3>2. Crash /\ ~settled
        BY <3>1 DEF Exit, Crash, PlannerSigpipe, Quiet
      <3>3. srv' = "crashed" /\ ~settled'
        BY <1>1, <3>2 DEF Crash, Ends
      <3> QED
        BY <3>3 DEF ReasonInv
    <2> QED
      BY <2>1, <2>2
  <1> QED
    BY <1>2, <1>3, <1>4, <1>6, <1>7 DEF SessionInv

\* A connection that begins with a message and on which none is a '5', and one more.
LEMMA QuietAfter ==
  ASSUME NEW s \in Seq(Tokens), NEW m \in Seq(Tokens), Len(m) >= 2, m[1] = At,
         \A i \in 2..Len(m) : m[i] # At, m[2] # 5,
         \A i \in 1..(Len(s) - 1) : s[i] = At => s[i + 1] # 5,
         s # << >> => s[1] = At
  PROVE  /\ \A i \in 1..(Len(s \o m) - 1) : (s \o m)[i] = At => (s \o m)[i + 1] # 5
         /\ (s \o m)[1] = At
PROOF
  <1>1. PICK r : r = s \o m
    OBVIOUS
  <1>2. /\ Len(r) = Len(s) + Len(m) /\ Len(s) \in Nat /\ Len(m) \in Nat
        /\ \A i \in 1..Len(s) : r[i] = s[i]
        /\ \A i \in 1..Len(m) : r[Len(s) + i] = m[i]
    BY <1>1, Joined
  <1>3. ASSUME NEW i \in 1..(Len(r) - 1), r[i] = At
        PROVE  r[i + 1] # 5
    <2>1. CASE i < Len(s)
      <3>1. i \in 1..Len(s) /\ i + 1 \in 1..Len(s) /\ i \in 1..(Len(s) - 1)
        BY <1>2, <2>1
      <3>2. r[i] = s[i] /\ r[i + 1] = s[i + 1]
        BY <1>2, <3>1, Zenon
      <3> QED
        BY <1>3, <3>1, <3>2
    <2>2. CASE i = Len(s)
      <3>1. 1 \in 1..Len(m) /\ i + 1 = Len(s) + 1
        BY <1>2, <2>2
      <3>2. r[i + 1] = At
        BY <1>2, <3>1, Zenon
      <3> QED
        BY <3>2, MarksAreNoNumbers
    <2>3. CASE i > Len(s)
      <3>1. PICK d \in 1..Len(m) : i = Len(s) + d
        <4>1. i - Len(s) \in 1..Len(m) /\ i = Len(s) + (i - Len(s))
          BY <1>2, <2>3
        <4> QED
          BY <4>1
      <3>2. m[d] = At
        BY <1>2, <1>3, <3>1, Zenon
      <3>3. d = 1
        <4>1. d \notin 2..Len(m)
          BY <3>2
        <4> QED
          BY <1>2, <4>1
      <3>4. i + 1 = Len(s) + 2 /\ 2 \in 1..Len(m)
        BY <1>2, <3>1, <3>3
      <3>5. r[i + 1] = m[2]
        BY <1>2, <3>4, Zenon
      <3> QED
        BY <3>5
    <2> QED
      BY <1>2, <2>1, <2>2, <2>3
  <1>4. r[1] = At
    <2>1. CASE s = << >>
      <3>1. Len(s) = 0 /\ 1 \in 1..Len(m) /\ 0 + 1 = 1
        BY <1>2, <2>1, EmptySeq
      <3>2. r[0 + 1] = m[1]
        BY <1>2, <3>1
      <3> QED
        BY <3>1, <3>2
    <2>2. CASE s # << >>
      <3>1. Len(s) # 0
        BY <2>2, EmptySeq
      <3>2. 1 \in 1..Len(s)
        BY <1>2, <3>1
      <3> QED
        BY <1>2, <2>2, <3>2
    <2> QED
      BY <2>1, <2>2
  <1> QED
    BY <1>1, <1>3, <1>4

\* A message sent by a client.
LEMMA Sent ==
  ASSUME SessionInv, NEW c \in Clients, NEW m \in Upward(hist'[c].typed),
         Headers(up[c]) < InUp[c],
         up' = [up EXCEPT ![c] = up[c] \o m], UNCHANGED << srv, known, settled, cuts >>,
         hist' \in [Clients -> HistSet],
         \A d \in Clients :
           /\ hist'[d].cut = hist[d].cut /\ hist'[d].missed = hist[d].missed
           /\ hist'[d].taken = hist[d].taken /\ hist[d].typed \subseteq hist'[d].typed,
         cl' \in [Clients -> ClSet], RowInv', ReasonInv',
         \A d \in Clients \ {c} : cl'[d].sensor = cl[d].sensor,
         2 \notin hist'[c].typed => cl'[c].sensor = IF m[2] = 2 THEN m[3] ELSE cl[c].sensor,
         down' \in [Clients -> DownSet], \A d \in Clients : Len(down'[d]) <= InDown[d]
  PROVE  SessionInv'
PROOF
  <1>0. /\ up \in [Clients -> Seq(Tokens)] /\ UpInv /\ FlagsInv /\ LabelInv /\ ViewExplained
    BY TypeFacts DEF SessionInv
  <1>1. PICK s \in Seq(Tokens) : s = up[c]
    BY <1>0
  <1>k. PICK K : K = hist'[c].typed
    OBVIOUS
  <1>2. Whole(s, K) /\ m \in Upward(K)
    <2>1. Whole(s, hist[c].typed)
      BY <1>0, <1>1 DEF UpInv
    <2> QED
      BY <1>k, <2>1, WholeWidened
  <1>3. PICK r : r = s \o m
    OBVIOUS
  <1>4. /\ r \in Seq(Tokens) /\ Len(r) = Len(s) + Len(m) /\ Whole(r, K) /\ Headers(r) = Headers(s) + 1
        /\ Headers(s) \in Nat /\ Len(s) \in Nat
    <2>1. Headers(s) \in Nat
      BY HeadersType
    <2> QED
      BY <1>2, <1>3, <2>1, WholeAppended, HeaderAdded
  <1>5. /\ \A i \in AnswersIn(s) : i \in AnswersIn(r)
        /\ \A i \in AnswersIn(r) : i \in AnswersIn(s) \/ (i = Len(s) + 1 /\ m[2] = 2)
        /\ m[2] = 2 => Len(s) + 1 \in AnswersIn(r)
        /\ \A i \in 1..Len(s) : r[i] = s[i]
        /\ \A j \in 1..Len(m) : r[Len(s) + j] = m[j]
    BY <1>2, <1>3, AnswersAppended
  <1>6. up' = [up EXCEPT ![c] = r]
    BY <1>1, <1>3
  <1>7. up'[c] = r /\ \A d \in Clients \ {c} : up'[d] = up[d]
    BY <1>0, <1>6
  <1>8. TypeInv'
    <2>1. up' \in [Clients -> Seq(Tokens)]
      BY <1>0, <1>4, <1>6
    <2>2. Headers(r) <= InUp[c]
      <3>1. InUp[c] \in Nat /\ Headers(s) < InUp[c]
        BY <1>1, SessionAssumption
      <3> QED
        BY <1>4, <3>1
    <2>3. \A d \in Clients : Headers(up'[d]) <= InUp[d]
      BY <1>7, <2>2, TypeFacts
    <2> QED
      BY <2>1, <2>3, TypeFacts, TypeFactsMake
  <1>9. UpInv'
    <2> SUFFICES ASSUME NEW d \in Clients
                 PROVE  Whole(up'[d], hist'[d].typed)
      BY DEF UpInv
    <2>1. CASE d = c
      BY <1>k, <1>4, <1>7, <2>1
    <2>2. CASE d # c
      <3>1. up'[d] = up[d] /\ Whole(up[d], hist[d].typed) /\ hist[d].typed \subseteq hist'[d].typed
        BY <1>0, <1>7, <2>2 DEF UpInv
      <3> QED
        BY <3>1, WholeWidened
    <2> QED
      BY <2>1, <2>2
  <1>10. FlagsInv'
    BY <1>0 DEF FlagsInv, Open
  <1>11. ViewExplained'
    <2>1. \A d \in Clients : 1 \notin hist'[d].typed => 1 \notin hist[d].typed
      OBVIOUS
    <2> QED
      BY <1>0, <2>1 DEF ViewExplained, Open
  <1>m. Len(m) \in Nat /\ Len(m) >= 3
    BY MessageShape
  <1>13. LabelInv'
    <2> SUFFICES ASSUME Open, NEW e \in Clients, 2 \notin hist'[e].typed
                 PROVE  Labelled(e)'
      BY DEF LabelInv, Open
    <2>0. Labelled(e)
      BY <1>0 DEF LabelInv
    <2>1. CASE e # c
      BY <1>7, <2>0, <2>1 DEF Labelled
    <2>c. CASE e = c
      <3>k. 2 \notin K
        BY <1>k, <2>c
      <3>2. /\ \A i \in AnswersIn(s) : (\A j \in AnswersIn(s) : j <= i) => s[i + 2] = cl[c].sensor
            /\ AnswersIn(s) = {} /\ ~hist[c].missed => known[c].sensor = cl[c].sensor
        BY <1>1, <2>0, <2>c DEF Labelled
      <3>s. cl'[c].sensor = IF m[2] = 2 THEN m[3] ELSE cl[c].sensor
        BY <2>c
      <3>3. ASSUME NEW i \in AnswersIn(r), \A j \in AnswersIn(r) : j <= i
            PROVE  r[i + 2] = cl'[c].sensor
        <4>1. CASE m[2] = 2
          <5>1. Len(s) + 1 <= i
            BY <1>5, <3>3, <4>1
          <5>2. i \notin AnswersIn(s)
            <6>1. \A j \in AnswersIn(s) : j \in Nat /\ j + 2 <= Len(s)
              BY <1>2, <3>k, AnswerStands
            <6> QED
              BY <1>4, <5>1, <6>1
          <5>3. i = Len(s) + 1
            BY <1>5, <5>2
          <5>4. i + 2 = Len(s) + 3 /\ 3 \in 1..Len(m)
            BY <1>m, <1>4, <5>3
          <5>5. r[i + 2] = m[3]
            BY <1>5, <5>4, Zenon
          <5> QED
            BY <3>s, <4>1, <5>5
        <4>2. CASE m[2] # 2
          <5>1. i \in AnswersIn(s) /\ \A j \in AnswersIn(s) : j <= i
            BY <1>5, <3>3, <4>2
          <5>2. i + 2 \in 1..Len(s)
            <6>1. i \in Nat /\ i + 2 <= Len(s)
              BY <1>2, <3>k, <5>1, AnswerStands
            <6> QED
              BY <1>4, <6>1
          <5>3. r[i + 2] = s[i + 2]
            BY <1>5, <5>2, Zenon
          <5> QED
            BY <3>s, <3>2, <4>2, <5>1, <5>3
        <4> QED
          BY <4>1, <4>2
      <3>4. ASSUME AnswersIn(r) = {}, ~hist[c].missed
            PROVE  known[c].sensor = cl'[c].sensor
        <4>1. m[2] # 2 /\ AnswersIn(s) = {}
          BY <1>5, <3>4
        <4> QED
          BY <3>s, <3>2, <3>4, <4>1
      <3>5. hist'[c].missed = hist[c].missed
        OBVIOUS
      <3> QED
        BY <1>7, <2>c, <3>3, <3>4, <3>5 DEF Labelled
    <2> QED
      BY <2>1, <2>c
  <1> QED
    BY <1>8, <1>9, <1>10, <1>11, <1>13 DEF SessionInv

\* A message that is no '5' ends nothing.
LEMMA MessageQuiet ==
  ASSUME NEW c \in Clients, NEW K, NEW m \in Upward(K),
         up \in [Clients -> Seq(Tokens)], up' = [up EXCEPT ![c] = up[c] \o m],
         \A d \in Clients : cl'[d].pc = cl[d].pc, UNCHANGED << srv, known, settled >>,
         ~Reason' => /\ m[2] # 5 /\ srv = "run" /\ \A d \in Clients : Quiet(d)
                     /\ \A d \in Clients : \A i \in 1..Len(down'[d]) : down'[d][i] # Quit
  PROVE  ReasonInv'
PROOF
  <1> SUFFICES ASSUME ~Reason'
               PROVE  srv' = "run" /\ \A d \in Clients : Quiet(d)'
    BY DEF ReasonInv
  <1>1. m \in Seq(Tokens) /\ m[1] = At /\ Len(m) \in Nat /\ Len(m) >= 3
        /\ \A i \in 2..Len(m) : m[i] # At
    BY MessageShape
  <1>2. PICK s \in Seq(Tokens) : s = up[c]
    OBVIOUS
  <1>3. PICK r : r = s \o m
    OBVIOUS
  <1>4. up'[c] = r /\ \A d \in Clients : d # c => up'[d] = up[d]
    BY <1>2, <1>3
  <1>5. (\A i \in 1..(Len(r) - 1) : r[i] = At => r[i + 1] # 5) /\ r[1] = At
    <2>1. Quiet(c) /\ m[2] # 5
      OBVIOUS
    <2>2. (\A i \in 1..(Len(s) - 1) : s[i] = At => s[i + 1] # 5) /\ (s # << >> => s[1] = At)
      BY <1>2, <2>1 DEF Quiet
    <2>3. Len(m) >= 2
      BY <1>1
    <2> QED
      BY <1>1, <1>3, <2>1, <2>2, <2>3, QuietAfter
  <1>6. ASSUME NEW d \in Clients
        PROVE  Quiet(d)'
    <2>1. Quiet(d) /\ cl'[d].pc = cl[d].pc /\ \A i \in 1..Len(down'[d]) : down'[d][i] # Quit
      OBVIOUS
    <2>2. CASE d = c
      BY <1>4, <1>5, <2>1, <2>2 DEF Quiet
    <2>3. CASE d # c
      BY <1>4, <2>1, <2>3 DEF Quiet
    <2> QED
      BY <2>2, <2>3
  <1> QED
    BY <1>6

\* A report.
LEMMA SendReportKeeps ==
  ASSUME SessionInv, NEW c \in Clients, SendReport(c)
  PROVE  SessionInv'
PROOF
  <1>0. cl \in [Clients -> ClSet] /\ up \in [Clients -> Seq(Tokens)] /\ RowInv
    BY TypeFacts DEF SessionInv
  <1>1. PICK m : m = Report(Mixed(cl[c].row, cl[c].pose))
    OBVIOUS
  <1>2. /\ up' = [up EXCEPT ![c] = up[c] \o m] /\ Headers(up[c]) < InUp[c] /\ Open
        /\ UNCHANGED << srv, known, settled, down, cuts, hist >> /\ cl[c].row # 0
    BY <1>1 DEF SendReport, NoReport
  <1>3. cl' = [cl EXCEPT ![c] = [cl[c] EXCEPT !.row = 0]]
    BY DEF SendReport, NoReport
  <1>4. m \in Reports
    <2>1. /\ cl[c].pose \in 1..Len(Poses) /\ cl[c].row \in 0..Len(Poses)
          /\ cl[c].row # 0 /\ cl[c].row <= cl[c].pose
      BY <1>0, <1>2 DEF ClSet, RowInv
    <2>2. cl[c].row \in 1..cl[c].pose
      BY <2>1, TokenFacts
    <2> QED
      BY <1>1, <2>1, <2>2 DEF Reports
  <1>5. m \in Upward(hist'[c].typed) /\ m[2] = 1
    BY <1>4, ReportsAreNumbers DEF Upward
  <1>6. cl' \in [Clients -> ClSet]
    <2>1. PICK none : none = 0 /\ none \in 0..Len(Poses)
      BY TokenFacts
    <2>2. cl' = [cl EXCEPT ![c] = [cl[c] EXCEPT !.row = none]]
      BY <1>3, <2>1
    <2> QED
      BY <1>0, <2>1, <2>2 DEF ClSet
  <1>7. \A d \in Clients : cl'[d].sensor = cl[d].sensor /\ cl'[d].pc = cl[d].pc
    BY <1>0, <1>3 DEF ClSet
  <1>8. RowInv'
    <2>1. \A d \in Clients : cl[d].pose \in 1..Len(Poses) /\ 0 <= cl[d].pose
      BY <1>0, TokenFacts DEF ClSet
    <2> QED
      BY <1>0, <1>3, <2>1 DEF RowInv, ClSet
  <1>9. ReasonInv'
    <2>1. ~Reason => /\ srv = "run" /\ \A d \in Clients : Quiet(d)
                     /\ \A d \in Clients : \A i \in 1..Len(down'[d]) : down'[d][i] # Quit
      BY <1>2 DEF SessionInv, ReasonInv, Quiet, Open
    <2>2. (Reason' <=> Reason) /\ m[2] # 5
      BY <1>2, <1>5 DEF Reason
    <2>3. \A d \in Clients : cl'[d].pc = cl[d].pc
      BY <1>7
    <2> QED
      BY <1>0, <1>2, <1>5, <2>1, <2>2, <2>3, MessageQuiet
  <1>10. 1 # 2 /\ hist' = hist
    BY <1>2
  <1> QED
    BY <1>2, <1>5, <1>6, <1>7, <1>8, <1>9, <1>10, TypeFacts, Sent

\* A line typed at a client.
LEMMA TypeLineKeeps ==
  ASSUME SessionInv, NEW c \in Clients, TypeLine(c)
  PROVE  SessionInv'
PROOF
  <1>0. /\ up \in [Clients -> Seq(Tokens)] /\ hist \in [Clients -> HistSet] /\ RowInv
    BY TypeFacts DEF SessionInv
  <1>1. PICK l \in Lines[c] :
          /\ up' = [up EXCEPT ![c] = up[c] \o TypedLine(l)]
          /\ hist' = [hist EXCEPT ![c].typed = {TypedLine(l)[2]}]
    BY DEF TypeLine
  <1>2. /\ Open /\ Headers(up[c]) < InUp[c] /\ hist[c].typed = {}
        /\ UNCHANGED << cl, srv, known, settled, down, cuts >>
    BY DEF TypeLine
  <1>3. PICK m : m = TypedLine(l)
    OBVIOUS
  <1>4. m \in TypedLines
    BY <1>3, SessionAssumption DEF TypedLines
  <1>5. m[2] \in Int
    <2>1. Len(m) >= 3 /\ Len(m) \in Nat /\ \A j \in 2..(Len(m) - 1) : m[j] \in Int
      BY <1>4, TypedShape
    <2> QED
      BY <2>1
  <1>6. PICK kinds \in SUBSET Int : kinds = {m[2]}
    BY <1>5
  <1>7. /\ hist' \in [Clients -> HistSet] /\ hist'[c].typed = kinds
        /\ \A d \in Clients \ {c} : hist'[d] = hist[d]
        /\ hist'[c].cut = hist[c].cut /\ hist'[c].missed = hist[c].missed
        /\ hist'[c].taken = hist[c].taken
    <2>1. hist' = [hist EXCEPT ![c].typed = kinds]
      BY <1>1, <1>3, <1>6
    <2> QED
      BY <1>0, <2>1 DEF HistSet
  <1>8. m \in Upward(hist'[c].typed)
    BY <1>4, <1>6, <1>7 DEF Upward
  <1>9. \A d \in Clients :
           /\ hist'[d].cut = hist[d].cut /\ hist'[d].missed = hist[d].missed
           /\ hist'[d].taken = hist[d].taken /\ hist[d].typed \subseteq hist'[d].typed
    BY <1>2, <1>7
  <1>10. RowInv'
    BY <1>0, <1>2 DEF RowInv
  <1>11. ReasonInv'
    <2>1. ASSUME ~Reason'
          PROVE  m[2] # 5 /\ ~Reason
      <3>1. kinds \cap {1, 5} = {}
        BY <1>7, <2>1 DEF Reason
      <3>2. m[2] # 5
        BY <1>6, <3>1
      <3>3. cuts = cuts' /\ \A d \in Clients \ {c} : hist'[d] = hist[d]
        BY <1>2, <1>7
      <3>4. hist'[c].told = hist[c].told /\ hist'[c].threw = hist[c].threw
        BY <1>0, <1>1 DEF HistSet
      <3>5. hist[c].typed \cap {1, 5} = {}
        BY <1>2
      <3> QED
        BY <2>1, <3>2, <3>3, <3>4, <3>5 DEF Reason
    <2>2. ~Reason => /\ srv = "run" /\ \A d \in Clients : Quiet(d)
                     /\ \A d \in Clients : \A i \in 1..Len(down'[d]) : down'[d][i] # Quit
      BY <1>2 DEF SessionInv, ReasonInv, Quiet, Open
    <2>3. up' = [up EXCEPT ![c] = up[c] \o m] /\ \A d \in Clients : cl'[d].pc = cl[d].pc
      BY <1>1, <1>2, <1>3
    <2> QED
      BY <1>0, <1>2, <1>8, <2>1, <2>2, <2>3, MessageQuiet
  <1>12. ASSUME 2 \notin hist'[c].typed
         PROVE  m[2] # 2
    BY <1>6, <1>7, <1>12
  <1>13. up' = [up EXCEPT ![c] = up[c] \o m]
    BY <1>1, <1>3
  <1> QED
    BY <1>2, <1>7, <1>8, <1>9, <1>10, <1>11, <1>12, <1>13, TypeFacts, Sent

\* A client obeys one message or drops several.
LEMMA ObeyKeeps ==
  ASSUME SessionInv, NEW c \in Clients, Obey(c)
  PROVE  SessionInv'
PROOF
  <1>0. /\ cl \in [Clients -> ClSet] /\ up \in [Clients -> Seq(Tokens)]
        /\ down \in [Clients -> DownSet] /\ \A d \in Clients : Len(down[d]) <= InDown[d]
        /\ RowInv
    BY TypeFacts DEF SessionInv
  <1>1. /\ cl[c].pc = "run" /\ Open /\ Headers(up[c]) < InUp[c]
        /\ UNCHANGED << srv, known, settled, cuts, hist >>
    BY DEF Obey
  <1>2. PICK n \in 1..Len(down[c]) :
          /\ down' = [down EXCEPT ![c] = SubSeq(down[c], n + 1, Len(down[c]))]
          /\ IF n = 1
             THEN /\ \E k \in After(c, down[c][1]) : cl' = [cl EXCEPT ![c] = k]
                  /\ up' = [up EXCEPT ![c] = up[c] \o Answer(down[c][1])]
             ELSE UNCHANGED << cl, up >>
    BY DEF Obey
  <1>3. PICK rest : rest = SubSeq(down[c], n + 1, Len(down[c]))
    OBVIOUS
  <1>4. /\ rest \in DownSet /\ Len(down[c]) \in Nat /\ Len(rest) = Len(down[c]) - n /\ n \in Nat
        /\ \A i \in 1..(Len(down[c]) - n) : rest[i] = down[c][n + i]
        /\ n <= Len(down[c]) /\ n >= 1
    <2>1. down[c] \in Seq(Messages \cup {Quit})
      BY <1>0 DEF DownSet
    <2> QED
      BY <1>3, <2>1 DEF DownSet
  <1>5. down' = [down EXCEPT ![c] = rest]
    BY <1>2, <1>3
  <1>6. down' \in [Clients -> DownSet] /\ \A d \in Clients : Len(down'[d]) <= InDown[d]
    <2>1. Len(down[c]) <= InDown[c] /\ InDown[c] \in Nat
      BY <1>0, SessionAssumption
    <2>2. Len(rest) <= InDown[c]
      BY <1>4, <2>1
    <2> QED
      BY <1>0, <1>4, <1>5, <2>2
  <1>7. PICK m \in Messages \cup {Quit} : m = down[c][1]
    <2>1. down[c] \in Seq(Messages \cup {Quit}) /\ 1 \in 1..Len(down[c])
      BY <1>0, <1>4 DEF DownSet
    <2>2. down[c][1] \in Messages \cup {Quit}
      BY <2>1
    <2> QED
      BY <2>2
  \* Without a reason to end no 'q' is among what is left.
  <1>8. ASSUME ~Reason
        PROVE  /\ srv = "run" /\ \A d \in Clients : Quiet(d)
               /\ m # Quit /\ \A d \in Clients : \A i \in 1..Len(down'[d]) : down'[d][i] # Quit
    <2>1. srv = "run" /\ \A d \in Clients : Quiet(d)
      BY <1>1, <1>8 DEF SessionInv, ReasonInv, Open
    <2>2. \A i \in 1..Len(down[c]) : down[c][i] # Quit
      BY <2>1 DEF Quiet
    <2>3. \A i \in 1..Len(rest) : rest[i] # Quit
      <3>1. \A i \in 1..Len(rest) : n + i \in 1..Len(down[c]) /\ i \in 1..(Len(down[c]) - n)
        BY <1>4
      <3> QED
        BY <1>4, <2>2, <3>1, Zenon
    <2>4. 1 \in 1..Len(down[c])
      BY <1>4
    <2>5. m # Quit
      BY <1>7, <2>2, <2>4, Zenon
    <2>6. \A d \in Clients : d # c => down'[d] = down[d]
      BY <1>0, <1>5
    <2>7. down'[c] = rest
      BY <1>0, <1>5
    <2>8. ASSUME NEW d \in Clients, NEW i \in 1..Len(down'[d])
          PROVE  down'[d][i] # Quit
      <3>1. CASE d = c
        BY <2>3, <2>7, <2>8, <3>1
      <3>2. CASE d # c
        BY <2>1, <2>6, <2>8, <3>2 DEF Quiet
      <3> QED
        BY <3>1, <3>2
    <2> QED
      BY <2>1, <2>5, <2>8
  <1>9. Reason' <=> Reason
    BY <1>1 DEF Reason
  <1>10. CASE n # 1
    <2>1. UNCHANGED << cl, up >>
      BY <1>2, <1>10
    <2>2. RowInv'
      BY <1>0, <2>1 DEF RowInv
    <2>3. ReasonInv'
      BY <1>1, <1>8, <1>9, <2>1 DEF ReasonInv, Quiet
    <2> QED
      BY <1>1, <1>6, <2>1, <2>2, <2>3, TypeFacts, SameStreams DEF Open
  <1>11. CASE n = 1
    <2>0. up' = [up EXCEPT ![c] = up[c] \o Answer(m)]
          /\ \E k \in After(c, m) : cl' = [cl EXCEPT ![c] = k]
      BY <1>2, <1>7, <1>11
    <2>1. CASE m.type = "sensor"
      <3>1. m.sensor \in SensorIds
        BY <2>1 DEF Messages, Quit
      <3>2. PICK w : w = SensorAnswer(m.sensor)
        OBVIOUS
      <3>3. w \in Upward(hist'[c].typed) /\ w[2] = 2 /\ w[3] = m.sensor
        BY <3>1, <3>2 DEF Upward, SensorAnswers, SensorAnswer
      <3>4. /\ up' = [up EXCEPT ![c] = up[c] \o w]
            /\ cl' = [cl EXCEPT ![c] = [cl[c] EXCEPT !.sensor = m.sensor]]
        BY <2>0, <2>1, <3>2 DEF Answer, After
      <3>5. cl' \in [Clients -> ClSet]
        BY <1>0, <3>1, <3>4 DEF ClSet
      <3>6. /\ \A d \in Clients : /\ cl'[d].pc = cl[d].pc /\ cl'[d].row = cl[d].row
                                  /\ cl'[d].pose = cl[d].pose
            /\ \A d \in Clients \ {c} : cl'[d].sensor = cl[d].sensor
            /\ cl'[c].sensor = m.sensor
        BY <1>0, <3>4 DEF ClSet
      <3>7. RowInv'
        BY <1>0, <3>6 DEF RowInv
      <3>8. ReasonInv'
        <4>1. w[2] # 5
          BY <3>3
        <4>2. ~Reason => /\ srv = "run" /\ \A d \in Clients : Quiet(d)
                         /\ \A d \in Clients : \A i \in 1..Len(down'[d]) : down'[d][i] # Quit
          BY <1>8
        <4>3. \A d \in Clients : cl'[d].pc = cl[d].pc
          BY <3>6
        <4> QED
          BY <1>0, <1>1, <1>9, <3>3, <3>4, <4>1, <4>2, <4>3, MessageQuiet
      <3>9. /\ Headers(up[c]) < InUp[c] /\ UNCHANGED << srv, known, settled, cuts, hist >>
            /\ up' = [up EXCEPT ![c] = up[c] \o w]
            /\ \A d \in Clients \ {c} : cl'[d].sensor = cl[d].sensor
            /\ cl'[c].sensor = IF w[2] = 2 THEN w[3] ELSE cl[c].sensor
        BY <1>1, <3>3, <3>4, <3>6
      <3> QED
        BY <1>6, <3>3, <3>5, <3>7, <3>8, <3>9, TypeFacts, Sent
    <2>2. CASE m.type = "quit"
      <3>1. m = Quit
        BY <2>2 DEF Messages
      <3>2. PICK w : w = QuitAnswer
        OBVIOUS
      <3>3. w \in Upward(hist'[c].typed) /\ w[2] = 5
        BY <3>2 DEF Upward, QuitAnswer
      <3>4. /\ up' = [up EXCEPT ![c] = up[c] \o w]
            /\ cl' = [cl EXCEPT ![c] = [cl[c] EXCEPT !.pc = "leaving"]]
        BY <2>0, <2>2, <3>2 DEF Answer, After
      <3>5. cl' \in [Clients -> ClSet]
        BY <1>0, <3>4 DEF ClSet
      <3>6. /\ \A d \in Clients : /\ cl'[d].sensor = cl[d].sensor /\ cl'[d].row = cl[d].row
                                  /\ cl'[d].pose = cl[d].pose
            /\ \A d \in Clients \ {c} : cl'[d].pc = cl[d].pc
            /\ cl'[c].pc \in Gone
        BY <1>0, <3>4 DEF ClSet, Gone
      <3>7. RowInv'
        BY <1>0, <3>6 DEF RowInv
      <3>8. ReasonInv'
        BY <1>8, <1>9, <3>1 DEF ReasonInv
      <3>9. /\ Headers(up[c]) < InUp[c] /\ UNCHANGED << srv, known, settled, cuts, hist >>
            /\ up' = [up EXCEPT ![c] = up[c] \o w]
            /\ \A d \in Clients \ {c} : cl'[d].sensor = cl[d].sensor
            /\ cl'[c].sensor = IF w[2] = 2 THEN w[3] ELSE cl[c].sensor
        BY <1>1, <3>3, <3>4, <3>6
      <3> QED
        BY <1>6, <3>3, <3>5, <3>7, <3>8, <3>9, TypeFacts, Sent
    <2>3. CASE m.type = "other"
      <3>1. Answer(m) = << >> /\ (cl' = [cl EXCEPT ![c] = cl[c]]
                                  \/ cl' = [cl EXCEPT ![c] = [cl[c] EXCEPT !.pc = "stuck"]])
        BY <2>0, <2>3 DEF Answer, After
      <3>2. up[c] \o << >> = up[c]
        BY <1>0, ConcatEmptySeq
      <3>3. up' = up
        BY <1>0, <2>0, <3>1, <3>2
      <3>4. cl' \in [Clients -> ClSet]
        BY <1>0, <3>1 DEF ClSet
      <3>5. \A d \in Clients : /\ cl'[d].sensor = cl[d].sensor /\ cl'[d].row = cl[d].row
                               /\ cl'[d].pose = cl[d].pose /\ (cl'[d].pc \in Gone <=> cl[d].pc \in Gone)
        <4>1. CASE cl' = [cl EXCEPT ![c] = cl[c]]
          <5>1. cl' = cl
            BY <1>0, <4>1
          <5> QED
            BY <5>1
        <4>2. CASE cl' = [cl EXCEPT ![c] = [cl[c] EXCEPT !.pc = "stuck"]]
          <5>1. cl[c].pc \notin Gone /\ "stuck" \notin Gone
            BY <1>1 DEF Gone
          <5> QED
            BY <1>0, <4>2, <5>1 DEF ClSet
        <4> QED
          BY <3>1, <4>1, <4>2
      <3>6. RowInv'
        BY <1>0, <3>5 DEF RowInv
      <3>7. ReasonInv'
        BY <1>1, <1>8, <1>9, <3>3, <3>5 DEF ReasonInv, Quiet, Gone
      <3> QED
        BY <1>1, <1>6, <3>3, <3>4, <3>5, <3>6, <3>7, TypeFacts, SameStreams DEF Open
    <2>4. m.type \in {"sensor", "quit", "other"}
      BY DEF Messages, Quit
    <2> QED
      BY <2>1, <2>2, <2>3, <2>4
  <1> QED
    BY <1>10, <1>11


\* A recv and getSendBack.
LEMMA ServeKeeps ==
  ASSUME SessionInv, NEW c \in Clients, Serve(c)
  PROVE  SessionInv'
PROOF
  <1>0. /\ up \in [Clients -> Seq(Tokens)] /\ known \in [Clients -> KnownSet]
        /\ hist \in [Clients -> HistSet] /\ cuts \in Nat
        /\ \A d \in Clients : Headers(up[d]) <= InUp[d]
        /\ UpInv /\ FlagsInv /\ LabelInv /\ ViewExplained
    BY TypeFacts DEF SessionInv
  <1>1. PICK s \in Seq(Tokens) : s = up[c]
    BY <1>0
  <1>2. PICK piece \in Pieces(c) :
          /\ up' = [up EXCEPT ![c] = SubSeq(@, Len(piece) + 1, Len(@))]
          /\ cuts' = IF EndsInside(piece, c) THEN cuts + 1 ELSE cuts
          /\ \E text \in {Text(piece)}, odd \in {BeginsInside(piece) \/ EndsInside(piece, c)} :
               /\ hist' = [hist EXCEPT
                    ![c].taken = @ \/ Kind(text) = 1,
                    ![c].cut = odd \/ (@ /\ Kind(text) # 1),
                    ![c].missed = odd \/ (HasAnswer(piece) /\ Headers(piece) > 1)
                                  \/ (@ /\ Kind(text) # 2)]
               /\ \E k \in GetSendBack(text, known[c]) :
                    /\ known' = [known EXCEPT ![c] = k]
                    /\ srv' = IF k.died THEN "died" ELSE IF k.done THEN "done" ELSE srv
    BY DEF Serve
  <1>3. Open /\ UNCHANGED << cl, settled, down >>
    BY DEF Serve
  <1>4. PICK n \in 1..Len(s) : piece = SubSeq(s, 1, n)
    BY <1>1 DEF Pieces
  <1>5. /\ piece \in Seq(Tokens) /\ Len(piece) = n /\ (\A i \in 1..n : piece[i] = s[i])
        /\ n \in Nat /\ n >= 1 /\ n <= Len(s) /\ Len(s) \in Nat
    BY <1>4, SubSeqProperties
  <1>6. PICK text : /\ text = Text(piece) /\ text \in Seq(Scannables)
    BY <1>5, TextIsPrefix DEF Scannables
  <1>7. PICK k \in GetSendBack(text, known[c]) :
          /\ known' = [known EXCEPT ![c] = k]
          /\ srv' = IF k.died THEN "died" ELSE IF k.done THEN "done" ELSE srv
          /\ \E odd \in {BeginsInside(piece) \/ EndsInside(piece, c)} :
               hist' = [hist EXCEPT
                    ![c].taken = @ \/ Kind(text) = 1,
                    ![c].cut = odd \/ (@ /\ Kind(text) # 1),
                    ![c].missed = odd \/ (HasAnswer(piece) /\ Headers(piece) > 1)
                                  \/ (@ /\ Kind(text) # 2)]
    BY <1>2, <1>6
  <1>8. PICK inside \in BOOLEAN : inside <=> n < Len(s) /\ s[n + 1] # At
    OBVIOUS
  <1>9. PICK odd \in BOOLEAN : odd <=> s[1] # At \/ inside
    OBVIOUS
  <1>10. EndsInside(piece, c) <=> inside
    BY <1>1, <1>5, <1>8 DEF EndsInside
  <1>11. (BeginsInside(piece) \/ EndsInside(piece, c)) <=> odd
    <2>1. piece[1] = s[1]
      BY <1>5
    <2> QED
      BY <1>9, <1>10, <2>1 DEF BeginsInside
  <1>12. PICK t : t = SubSeq(s, n + 1, Len(s))
    OBVIOUS
  <1>13. up' = [up EXCEPT ![c] = t]
    BY <1>1, <1>2, <1>5, <1>12
  <1>14. /\ t \in Seq(Tokens) /\ Len(t) = Len(s) - n /\ (\A i \in 1..(Len(s) - n) : t[i] = s[n + i])
         /\ Headers(t) <= Headers(s) /\ Headers(t) \in Nat /\ Headers(s) \in Nat
    <2>1. n \in 0..Len(s)
      BY <1>5
    <2>2. /\ t \in Seq(Tokens) /\ Len(t) = Len(s) - n /\ (\A i \in 1..(Len(s) - n) : t[i] = s[n + i])
          /\ Headers(t) <= Headers(s)
      BY <1>12, <2>1, HeadersDropped
    <2>3. Headers(t) \in Nat /\ Headers(s) \in Nat
      BY <2>2, HeadersType
    <2> QED
      BY <2>2, <2>3
  <1>o. PICK K : K = hist[c].typed
    OBVIOUS
  <1>15. Whole(s, K) /\ Whole(t, K)
    <2>1. Whole(s, K) /\ n \in 0..Len(s)
      BY <1>0, <1>1, <1>5, <1>o DEF UpInv
    <2> QED
      BY <1>12, <2>1, WholeDropped
  <1>16. up'[c] = t /\ \A d \in Clients : d # c => up'[d] = up[d]
    BY <1>0, <1>13
  <1>17. known'[c] = k /\ \A d \in Clients : d # c => known'[d] = known[d]
    BY <1>0, <1>7
  <1>18. /\ k \in KnownSet
         /\ Kind(text) # 1 => k.view = known[c].view
         /\ Kind(text) # 2 => k.sensor = known[c].sensor
         /\ Kind(text) # 5 => k.done = known[c].done
         /\ Kind(text) \notin {1, 2} => k.died = known[c].died
    BY <1>0, <1>6, <1>7, SendBackType
  <1>19. /\ hist' \in [Clients -> HistSet]
         /\ \A d \in Clients : /\ hist'[d].told = hist[d].told /\ hist'[d].threw = hist[d].threw
                               /\ hist'[d].typed = hist[d].typed
         /\ hist'[c].taken <=> hist[c].taken \/ Kind(text) = 1
         /\ \A d \in Clients : d # c => hist'[d] = hist[d]
         /\ hist'[c].cut <=> odd \/ (hist[c].cut /\ Kind(text) # 1)
         /\ hist'[c].missed <=> \/ odd \/ (HasAnswer(piece) /\ Headers(piece) > 1)
                                \/ (hist[c].missed /\ Kind(text) # 2)
    <2>1. PICK odd0 \in {BeginsInside(piece) \/ EndsInside(piece, c)} :
            hist' = [hist EXCEPT
                    ![c].taken = @ \/ Kind(text) = 1,
                    ![c].cut = odd0 \/ (@ /\ Kind(text) # 1),
                    ![c].missed = odd0 \/ (HasAnswer(piece) /\ Headers(piece) > 1)
                                  \/ (@ /\ Kind(text) # 2)]
      BY <1>7
    <2>2. odd0 <=> odd
      BY <1>11, <2>1
    <2>3. PICK x \in BOOLEAN : x = (odd0 \/ (hist[c].cut /\ Kind(text) # 1))
      OBVIOUS
    <2>4. PICK y \in BOOLEAN : y = (odd0 \/ (HasAnswer(piece) /\ Headers(piece) > 1)
                                       \/ (hist[c].missed /\ Kind(text) # 2))
      OBVIOUS
    <2>t. PICK z \in BOOLEAN : z = (hist[c].taken \/ Kind(text) = 1)
      OBVIOUS
    <2>5. /\ x <=> odd \/ (hist[c].cut /\ Kind(text) # 1)
          /\ y <=> \/ odd \/ (HasAnswer(piece) /\ Headers(piece) > 1)
                   \/ (hist[c].missed /\ Kind(text) # 2)
          /\ z <=> hist[c].taken \/ Kind(text) = 1
      BY <2>2, <2>3, <2>4, <2>t
    <2>7. PICK h0 \in HistSet : h0 = hist[c]
      BY <1>0
    <2>8. PICK h : h = [[[h0 EXCEPT !.taken = z] EXCEPT !.cut = x] EXCEPT !.missed = y]
      OBVIOUS
    <2>6. hist' = [hist EXCEPT ![c] = h]
      BY <1>0, <2>1, <2>3, <2>4, <2>t, <2>7, <2>8 DEF HistSet
    <2>9. /\ h \in HistSet /\ h.cut = x /\ h.missed = y /\ h.taken = z
          /\ h.told = h0.told /\ h.threw = h0.threw /\ h.typed = h0.typed
      BY <2>3, <2>4, <2>7, <2>8, <2>t DEF HistSet
    <2>10. hist'[c] = h /\ hist' \in [Clients -> HistSet] /\ \A d \in Clients : d # c => hist'[d] = hist[d]
      BY <1>0, <2>6, <2>9
    <2>11. \A d \in Clients : /\ hist'[d].told = hist[d].told /\ hist'[d].threw = hist[d].threw
                              /\ hist'[d].typed = hist[d].typed
      BY <2>7, <2>9, <2>10
    <2>12. (hist'[c].cut <=> x) /\ (hist'[c].missed <=> y) /\ (hist'[c].taken <=> z)
      BY <2>9, <2>10
    <2> QED
      BY <2>5, <2>10, <2>11, <2>12
  <1>20. cuts' = (IF inside THEN cuts + 1 ELSE cuts)
    BY <1>2, <1>10
  <1>21. srv' \in SrvSet /\ (srv' = "run" => srv = "run" /\ ~k.done)
         /\ (Open' => ~k.died) /\ srv \in SrvSet
    <2>1. srv \in SrvSet
      BY TypeFacts
    <2> QED
      BY <1>7, <2>1 DEF Open, SrvSet
  \* What a piece that is not odd is read as.
  <1>22. ASSUME ~odd, Kind(text) # 0
         PROVE  /\ Kind(text) = s[2] /\ (Kind(text) = 2 => Len(text) >= 3)
                /\ \/ Kind(text) = 1 /\ text \in Reports
                   \/ Kind(text) = 2 /\ Len(text) = 3 /\ n = 3
                      /\ text[3] \in SensorIds /\ text[3] = s[3]
                   \/ Kind(text) = 5
                   \/ Kind(text) \in K
    <2>1. s[1] = At /\ (n < Len(s) => s[n + 1] = At) /\ text = Text(SubSeq(s, 1, n))
      BY <1>4, <1>6, <1>8, <1>9, <1>22
    <2> QED
      BY <1>15, <1>22, <2>1, WholePiece
  <1>g. k \in GetSendBack(text, known[c]) /\ known[c] \in KnownSet
    BY <1>0, <1>7
  <1>k. known' = [known EXCEPT ![c] = k]
    BY <1>7
  <1>s. srv' = IF k.died THEN "died" ELSE IF k.done THEN "done" ELSE srv
    BY <1>7
  <1> HIDE <1>2, <1>7
  <1>23. TypeInv'
    <2>1. up' \in [Clients -> Seq(Tokens)] /\ known' \in [Clients -> KnownSet]
      <3>1. up' = [up EXCEPT ![c] = t] /\ known' = [known EXCEPT ![c] = k]
        BY <1>k, <1>13
      <3> QED
        BY <1>0, <1>14, <1>18, <3>1
    <2>2. \A d \in Clients : Headers(up'[d]) <= InUp[d]
      <3>1. Headers(s) <= InUp[c] /\ InUp[c] \in Int
        BY <1>0, <1>1, SessionAssumption
      <3>2. Headers(t) <= InUp[c]
        BY <1>14, <3>1
      <3> QED
        BY <1>0, <1>16, <3>2
    <2>3. cuts' \in Nat
      BY <1>0, <1>20
    <2> QED
      BY <1>3, <1>19, <1>21, <2>1, <2>2, <2>3, TypeFacts, TypeFactsMake
  <1>24. RowInv'
    BY <1>3 DEF SessionInv, RowInv
  <1>25. UpInv'
    BY <1>0, <1>15, <1>16, <1>19, <1>o DEF UpInv
  <1>26. FlagsInv'
    <2>1. srv' \in {"run", "done"} => Open
      BY <1>3
    <2>2. ASSUME Open', NEW d \in Clients
          PROVE  ~known'[d].died
      BY <1>0, <1>3, <1>17, <1>21, <2>2 DEF FlagsInv
    <2>3. ASSUME srv' = "run", NEW d \in Clients
          PROVE  ~known'[d].done
      BY <1>0, <1>17, <1>21, <2>3 DEF FlagsInv
    <2> QED
      BY <2>2, <2>3 DEF FlagsInv
  <1>28. ViewExplained'
    <2> SUFFICES ASSUME NEW d \in Clients, ~hist'[d].cut, 1 \notin hist'[d].typed
                 PROVE  IF hist'[d].taken THEN Explained(known'[d].view)
                        ELSE known'[d].view = Constructed[d]
      BY DEF ViewExplained
    <2>0. ASSUME ~hist[d].cut
          PROVE  IF hist[d].taken THEN Explained(known[d].view)
                 ELSE known[d].view = Constructed[d]
      BY <1>0, <1>3, <1>19, <2>0 DEF ViewExplained
    <2>1. CASE d # c
      BY <1>17, <1>19, <2>0, <2>1
    <2>2. CASE d = c /\ Kind(text) = 1
      <3>1. ~odd
        BY <1>19, <2>2
      <3>2. text \in Reports
        <4>1. 1 \notin K
          BY <1>19, <1>o, <2>2
        <4> QED
          BY <1>22, <2>2, <3>1, <4>1
      <3>3. Explained(k.view)
        BY <1>6, <1>g, <2>2, <3>2, ReportExplains
      <3> QED
        BY <1>17, <1>19, <2>2, <3>3
    <2>3. CASE d = c /\ Kind(text) # 1
      <3>1. ~hist[c].cut /\ k.view = known[c].view /\ (hist'[c].taken <=> hist[c].taken)
        BY <1>18, <1>19, <2>3
      <3> QED
        BY <1>17, <2>0, <2>3, <3>1
    <2> QED
      BY <2>1, <2>2, <2>3
  <1>29. ReasonInv'
    <2> SUFFICES ASSUME ~Reason'
                 PROVE  srv' = "run" /\ \A d \in Clients : Quiet(d)'
      BY DEF ReasonInv
    <2>1. ~inside /\ ~Reason
      <3>1. cuts \in Int /\ cuts >= 0 /\ ~(cuts' > 0)
        BY <1>0 DEF Reason
      <3>2. ~inside
        BY <1>20, <3>1
      <3>3. cuts' = cuts
        BY <1>20, <3>2
      <3> QED
        BY <1>19, <3>2, <3>3 DEF Reason
    <2>k. 1 \notin K /\ 5 \notin K
      BY <1>o, <2>1 DEF Reason
    <2>2. srv = "run" /\ \A d \in Clients : Quiet(d)
      BY <1>3, <2>1 DEF SessionInv, ReasonInv, Open
    <2>3. /\ \A i \in 1..(Len(s) - 1) : s[i] = At => s[i + 1] # 5
          /\ s # << >> => s[1] = At
          /\ settled => OnGrid(known[c].view)
      BY <1>1, <2>2 DEF Quiet
    <2>4. s[1] = At
      <3>1. s # << >>
        <4>1. Len(s) # 0
          BY <1>5
        <4> QED
          BY <4>1, EmptySeq
      <3> QED
        BY <2>3, <3>1
    <2>5. ~odd
      BY <1>9, <2>1, <2>4
    <2>6. ~known[c].done /\ ~known[c].died
      BY <1>0, <1>3, <2>2 DEF FlagsInv
    <2>7. Kind(text) # 5
      <3> SUFFICES ASSUME Kind(text) = 5
                   PROVE  FALSE
        OBVIOUS
      <3>1. s[2] = 5
        BY <1>22, <2>5
      <3>2. PICK d0 \in 0..n : Len(text) = d0
        BY <1>5, <1>6, TextIsPrefix
      <3>3. Len(text) >= 2
        BY <1>6, KindFacts
      <3>4. 1 \in 1..(Len(s) - 1) /\ 1 + 1 = 2
        BY <1>5, <3>2, <3>3
      <3> QED
        BY <2>3, <2>4, <3>1, <3>4
    <2>x. Kind(text) = 1 => text \in Reports
      BY <1>22, <2>5, <2>k
    <2>8. k.died = known[c].died
      <3>1. CASE Kind(text) = 1
        BY <1>6, <1>g, <2>x, <3>1, ReportExplains
      <3>2. CASE Kind(text) = 2
        <4>1. Len(text) >= 3
          BY <1>22, <2>5, <3>2
        <4> QED
          BY <1>6, <1>g, <3>2, <4>1, AnswerHarmless
      <3>3. CASE Kind(text) \notin {1, 2}
        BY <1>18, <3>3
      <3> QED
        BY <3>1, <3>2, <3>3
    <2>9. srv' = "run"
      BY <1>s, <1>18, <2>2, <2>6, <2>7, <2>8
    <2>10. Quiet(c)'
      <3>1. ASSUME NEW i \in 1..(Len(t) - 1), t[i] = At
            PROVE  t[i + 1] # 5
        <4>1. i \in 1..(Len(s) - n) /\ i + 1 \in 1..(Len(s) - n)
              /\ n + i \in 1..(Len(s) - 1) /\ n + (i + 1) = n + i + 1
          BY <1>5, <1>14
        <4>2. t[i] = s[n + i] /\ t[i + 1] = s[n + (i + 1)]
          BY <1>14, <4>1, Zenon
        <4> QED
          BY <2>3, <3>1, <4>1, <4>2
      <3>2. ASSUME t # << >>
            PROVE  t[1] = At
        <4>1. Len(t) # 0
          BY <1>14, <3>2, EmptySeq
        <4>2. n < Len(s) /\ 1 \in 1..(Len(s) - n)
          BY <1>5, <1>14, <4>1
        <4>3. s[n + 1] = At
          BY <1>8, <2>1, <4>2
        <4> QED
          BY <1>14, <4>2, <4>3, Zenon
      <3>3. ASSUME settled
            PROVE  OnGrid(k.view)
        <4>1. CASE Kind(text) = 1
          <5>1. Explained(k.view)
            BY <1>6, <1>g, <2>x, <4>1, ReportExplains
          <5> QED
            BY <5>1, ExplainedIsOnGrid
        <4>2. CASE Kind(text) # 1
          BY <1>18, <2>3, <3>3, <4>2
        <4> QED
          BY <4>1, <4>2
      <3>4. OnGrid(known[c].view)' <=> OnGrid(k.view)
        BY <1>17 DEF OnGrid
      <3> QED
        BY <1>3, <1>16, <2>2, <3>1, <3>2, <3>3, <3>4 DEF Quiet
    <2>11. \A d \in Clients : d # c => Quiet(d)'
      BY <1>3, <1>16, <1>17, <2>2 DEF Quiet, OnGrid
    <2> QED
      BY <2>9, <2>10, <2>11
  <1>30. LabelInv'
    <2> SUFFICES ASSUME NEW d \in Clients, 2 \notin hist'[d].typed
                 PROVE  Labelled(d)'
      BY DEF LabelInv
    <2>1. Labelled(d)
      BY <1>0, <1>3, <1>19 DEF LabelInv
    <2>2. CASE d # c
      BY <1>3, <1>16, <1>17, <1>19, <2>1, <2>2 DEF Labelled
    <2>9. CASE d = c
      <3>k. 2 \notin K
        BY <1>19, <1>o, <2>9
      <3>3. /\ \A i \in AnswersIn(s) : (\A j \in AnswersIn(s) : j <= i) => s[i + 2] = cl[c].sensor
            /\ AnswersIn(s) = {} /\ ~hist[c].missed => known[c].sensor = cl[c].sensor
        BY <1>1, <2>1, <2>9 DEF Labelled
      <3>4. /\ \A i \in AnswersIn(t) : n + i \in AnswersIn(s) /\ i \in Int /\ i >= 1
            /\ \A i \in AnswersIn(s) : i \in Int /\ (i > n => i - n \in AnswersIn(t))
        <4>1. n \in 0..Len(s)
          BY <1>5
        <4> QED
          BY <1>12, <4>1, AnswersDropped
      <3>5. ASSUME NEW i \in AnswersIn(t), \A j \in AnswersIn(t) : j <= i
            PROVE  t[i + 2] = cl[c].sensor
        <4>1. n + i \in AnswersIn(s) /\ i \in Int /\ i >= 1
          BY <3>4
        <4>2. \A j \in AnswersIn(s) : j <= n + i
          <5> SUFFICES ASSUME NEW j \in AnswersIn(s), j > n
                       PROVE  j <= n + i
            BY <1>5, <3>4, <4>1
          <5>1. j \in Int /\ j - n \in AnswersIn(t)
            BY <3>4
          <5>2. j - n <= i
            BY <3>5, <5>1
          <5> QED
            BY <1>5, <4>1, <5>1, <5>2
        <4>3. s[n + i + 2] = cl[c].sensor
          BY <3>3, <4>1, <4>2
        <4>4. n + i + 2 <= Len(s)
          BY <1>15, <3>k, <4>1, AnswerStands
        <4>5. i + 2 \in 1..(Len(s) - n) /\ n + (i + 2) = n + i + 2
          BY <1>5, <4>1, <4>4
        <4>6. t[i + 2] = s[n + (i + 2)]
          BY <1>14, <4>5, Zenon
        <4> QED
          BY <4>3, <4>5, <4>6, Zenon
      <3>6. ASSUME AnswersIn(t) = {}, ~hist'[c].missed
            PROVE  k.sensor = cl[c].sensor
        <4>1. ~odd /\ ~(HasAnswer(piece) /\ Headers(piece) > 1)
              /\ (Kind(text) = 2 \/ ~hist[c].missed)
          BY <1>19, <3>6
        <4>2. s[1] = At /\ (n < Len(s) => s[n + 1] = At)
          BY <1>8, <1>9, <4>1
        <4>3. \A i \in AnswersIn(s) : i \in Int /\ i <= n
          BY <1>5, <3>4, <3>6
        <4>4. CASE Kind(text) = 2
          <5>1. Len(text) = 3 /\ n = 3 /\ text[3] \in SensorIds /\ text[3] = s[3] /\ text[2] = 2
            <6>1. Kind(text) \notin K /\ Kind(text) # 0 /\ Kind(text) # 1 /\ Kind(text) # 5
              BY <3>k, <4>4
            <6>2. text[2] = 2
              BY <1>6, <4>4, KindFacts
            <6> QED
              BY <1>22, <4>1, <4>4, <6>1, <6>2, Zenon
          <5>2. 1 \in AnswersIn(s)
            <6>1. PICK d0 \in 0..n : /\ Len(text) = d0
                                     /\ \A i \in 1..d0 : text[i] = piece[i] /\ piece[i] # Nul
              BY <1>5, <1>6, TextIsPrefix
            <6>2. s[2] = 2
              <7>1. 2 \in 1..d0 /\ 2 \in 1..n
                <8>1. d0 = 3 /\ n = 3
                  BY <5>1, <6>1, Zenon
                <8> QED
                  BY <8>1
              <7> QED
                BY <1>5, <5>1, <6>1, <7>1, Zenon
            <6>3. 1 \in 1..(Len(s) - 1) /\ 1 + 1 = 2
              BY <1>5, <5>1
            <6> QED
              BY <4>2, <6>2, <6>3 DEF AnswersIn
          <5>3. \A j \in AnswersIn(s) : j <= 1
            <6> SUFFICES ASSUME NEW j \in AnswersIn(s), ~(j <= 1)
                         PROVE  FALSE
              OBVIOUS
            <6>1. j \in Int /\ j <= 3 /\ (j = 2 \/ j = 3)
              BY <4>3, <5>1
            <6>2. s[j] = At
              BY <1>15, <3>k, AnswerStands
            <6>3. s[2] # At /\ s[3] # At
              <7>1. 1 + 1 = 2 /\ 1 + 2 = 3
                OBVIOUS
              <7>2. s[1 + 1] # At /\ s[1 + 2] # At
                BY <1>15, <3>k, <5>2, AnswerStands
              <7> QED
                BY <7>1, <7>2, Zenon
            <6> QED
              BY <6>1, <6>2, <6>3
          <5>4. s[1 + 2] = cl[c].sensor /\ 1 + 2 = 3
            BY <3>3, <5>2, <5>3
          <5>5. k.sensor = text[3]
            BY <1>6, <1>g, <4>4, <5>1, AnswerTaken
          <5> QED
            BY <5>1, <5>4, <5>5
        <4>5. CASE Kind(text) # 2
          <5>1. AnswersIn(s) = {}
            <6> SUFFICES ASSUME NEW a \in AnswersIn(s)
                         PROVE  FALSE
              OBVIOUS
            <6>1. a <= n
              BY <4>3
            <6>2. HasAnswer(piece) /\ (Headers(piece) > 1 \/ Kind(Text(piece)) = 2)
              BY <1>4, <1>15, <3>k, <4>2, <6>1, AnswerRead
            <6> QED
              BY <1>6, <4>1, <4>5, <6>2
          <5> QED
            BY <1>18, <3>3, <4>1, <4>5, <5>1
        <4> QED
          BY <4>4, <4>5
      <3> QED
        BY <1>3, <1>16, <1>17, <2>9, <3>5, <3>6 DEF Labelled
    <2> QED
      BY <2>2, <2>9
  <1> QED
    BY <1>23, <1>24, <1>25, <1>26, <1>28, <1>29, <1>30 DEF SessionInv

\* Every step of the server and of a client.
LEMMA SessionSteps ==
  ASSUME SessionInv, [SessionNext]_sessionVars
  PROVE  SessionInv'
PROOF
  <1>1. CASE UNCHANGED sessionVars
    <2>1. RowInv'
      BY <1>1 DEF SessionInv, RowInv, sessionVars
    <2>2. ReasonInv'
      BY <1>1 DEF SessionInv, ReasonInv, Reason, Quiet, sessionVars
    <2>3. UNCHANGED << cl, srv, known, settled, up, down, cuts, hist >>
      BY <1>1 DEF sessionVars
    <2>4. Open' => Open
      BY <2>3 DEF Open
    <2> QED
      BY <2>1, <2>2, <2>3, <2>4, TypeFacts, SameStreams
  <1>2. ASSUME NEW c \in Clients, Serve(c) \/ ClientGone(c) \/ Send(c) \/ PlannerSigpipe(c)
        PROVE  SessionInv'
    BY <1>2, ServeKeeps, ClientGoneKeeps, SendKeeps, EndsKeeps
  <1>3. ASSUME TypeQuit \/ Settle \/ Crash \/ Exit
        PROVE  SessionInv'
    BY <1>3, TypeQuitKeeps, SettleKeeps, EndsKeeps
  <1>4. ASSUME NEW c \in Clients, ClientNext(c)
        PROVE  SessionInv'
    BY <1>4, MoveKeeps, ReadRowKeeps, SendReportKeeps, LeaveKeeps, ObeyKeeps, UnstickKeeps,
       CommandThrowsKeeps, TypeLineKeeps, ServerGoneKeeps DEF ClientNext
  <1> QED
    BY <1>1, <1>2, <1>3, <1>4 DEF SessionNext, ServerNext

(* The inductive invariant: whatever pieces the recvs return, a connection  *)
(* holds whole messages from the next '@' on, and what the server knows of  *)
(* a client is what the messages it has read said.                          *)
THEOREM SessionInvariant == SessionSpec => []SessionInv
PROOF
  <1>1. SessionInit => SessionInv
    BY SessionStarts
  <1>2. SessionInv /\ [SessionNext]_sessionVars => SessionInv'
    BY SessionSteps
  <1> QED
    BY <1>1, <1>2, PTL DEF SessionSpec

(* Every variable stays in its range: getSendBack sets a sensor only to an  *)
(* id it has checked, and the connections keep to their bounds.             *)
THEOREM SessionTypes == SessionSpec => []SessionTypeOK
PROOF
  <1>1. SessionInv => SessionTypeOK
    BY DEF SessionInv, TypeInv
  <1> QED
    BY <1>1, SessionInvariant, PTL

(* Until a report is taken over the view of a client is the one constructed *)
(* for it; afterwards, unless the last update came from a piece that was    *)
(* cut or a report was typed, it is what one report said, up to the first   *)
(* field that getSendBack cannot read, and the report is of one pose's row  *)
(* and a later pose's rest.                                                 *)
THEOREM ViewIsExplained == SessionSpec => []ViewExplained
PROOF
  <1>1. SessionInv => ViewExplained
    BY DEF SessionInv
  <1> QED
    BY <1>1, SessionInvariant, PTL

\* The last of the answers in a text.
LEMMA LastAnswerExists ==
  ASSUME NEW s \in Seq(Tokens), AnswersIn(s) # {}
  PROVE  \E i \in AnswersIn(s) : \A j \in AnswersIn(s) : j <= i
PROOF
  <1>1. Len(s) \in Nat /\ \A i \in AnswersIn(s) : i \in Int /\ i >= 1 /\ i <= Len(s) - 1
    BY DEF AnswersIn
  <1>2. PICK n \in Nat : n = Len(s)
    BY <1>1
  <1> DEFINE T == {n - i : i \in AnswersIn(s)}
  <1>3. T \in SUBSET Nat /\ T # {}
    BY <1>1, <1>2
  <1>4. PICK x \in T : \A y \in T : x <= y
    BY <1>3, SmallestExists
  <1>5. PICK i \in AnswersIn(s) : x = n - i
    BY <1>4
  <1>6. ASSUME NEW j \in AnswersIn(s)
        PROVE  j <= i
    <2>1. n - i <= n - j
      BY <1>4, <1>5
    <2> QED
      BY <1>1, <1>2, <2>1
  <1> QED
    BY <1>6

(* Unless an answer was lost in a piece or one was typed at the client, the *)
(* server's label is the client's sensor once it has read the answers on    *)
(* the way.                                                                 *)
THEOREM LabelsFollow == SessionSpec => []LabelFollows
PROOF
  <1>1. ASSUME SessionInv
        PROVE  LabelFollows
    <2> SUFFICES ASSUME NEW c \in Clients, Open, ~hist[c].missed, 2 \notin hist[c].typed
                 PROVE  LastAnswer(c) = cl[c].sensor
      BY DEF LabelFollows
    <2>1. Labelled(c)
      BY <1>1 DEF SessionInv, LabelInv
    <2>2. up[c] \in Seq(Tokens)
      BY <1>1, TypeFacts
    <2>3. LastAnswer(c) = IF AnswersIn(up[c]) = {} THEN known[c].sensor
            ELSE up[c][(CHOOSE i \in AnswersIn(up[c]) : \A j \in AnswersIn(up[c]) : j <= i) + 2]
      BY DEF LastAnswer, AnswersIn
    <2>4. CASE AnswersIn(up[c]) = {}
      BY <2>1, <2>3, <2>4 DEF Labelled
    <2>5. CASE AnswersIn(up[c]) # {}
      <3>1. PICK last : last = CHOOSE i \in AnswersIn(up[c]) : \A j \in AnswersIn(up[c]) : j <= i
        OBVIOUS
      <3>2. last \in AnswersIn(up[c]) /\ \A j \in AnswersIn(up[c]) : j <= last
        BY <2>2, <2>5, <3>1, LastAnswerExists
      <3>3. up[c][last + 2] = cl[c].sensor
        BY <2>1, <3>2 DEF Labelled
      <3> QED
        BY <2>3, <2>5, <3>1, <3>3
    <2> QED
      BY <2>4, <2>5
  <1> QED
    BY <1>1, SessionInvariant, PTL

(* The server ends only after a 'q', a client that a message ended, a typed *)
(* report or '5', or a recv that ended inside a message, or at its start:   *)
(* no piece of whole messages makes getSendBack throw, looks like a 'q', or *)
(* takes a robot off the grid.                                              *)
THEOREM EndsAreExplained == SessionSpec => []EndsForAReason
PROOF
  <1>1. SessionInv => EndsForAReason
    BY DEF SessionInv, ReasonInv, Reason, EndsForAReason
  <1> QED
    BY <1>1, SessionInvariant, PTL
=============================================================================
