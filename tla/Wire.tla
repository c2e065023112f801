-------------------------------- MODULE Wire --------------------------------
(***************************************************************************)
(* What a client and the server write to their TCP connection, and what    *)
(* getSendBack (tcpserver.cpp) makes of the bytes one recv returns.        *)
(*                                                                         *)
(* A text is a sequence of tokens: At for '@', a number for its digits and *)
(* its sign, Nul for the zero byte that ends a string; the blanks between  *)
(* them are implied.  Numbers have one digit, as tcpserver.cpp finds a     *)
(* message's type as the third character whatever comes before it.         *)
(***************************************************************************)
EXTENDS Integers, Sequences, FiniteSets, SequencesExt

CONSTANTS At, Nul,
          SensorIds   \* the ids getSendBack accepts, 7 to 42

ASSUME WireAssumption == At # Nul /\ At \notin Int /\ Nul \notin Int

\* The numbers of a report: row and column of the position, row and column of
\* the goal, default velocity, real velocity, direction, and mode.
ROW == 1
COL == 2
GROW == 3
GCOL == 4
DV == 5
RV == 6
DIR == 7
MODE == 8

-----------------------------------------------------------------------------
(* What is sent.                                                            *)

\* updateServerAgent, for the pose of a client.
Report(pose) == << At, 1 >> \o pose

\* getCommand's answers to a change of the sensor and to 'q'; the latter is
\* sent with its zero byte.
SensorAnswer(s) == << At, 2, s >>
QuitAnswer == << At, 5, Nul >>

\* A line typed at a client goes out as it is, with zero bytes behind it.  Its
\* newline makes what a number 0 makes: a field more, of value 0.
Newline == 0
TypedLine(line) == << At >> \o line \o << Newline, Nul >>

-----------------------------------------------------------------------------
(* What is read.                                                            *)

\* std::string(command): the text ends at the first zero byte.
Text(piece) ==
  IF \E i \in 1..Len(piece) : piece[i] = Nul
  THEN SubSeq(piece, 1, (CHOOSE i \in 1..Len(piece) :
                           piece[i] = Nul /\ \A j \in 1..(i - 1) : piece[j] # Nul) - 1)
  ELSE piece

Headers(text) == Cardinality({i \in 1..Len(text) : text[i] = At})

\* The third character, which says what to do: without exactly one header in
\* the text, nothing.
Kind(text) ==
  IF Headers(text) = 1 /\ Len(text) >= 2 /\ (text[1] = At \/ text[1] >= 0) /\ text[2] # At
  THEN text[2] ELSE 0

(***************************************************************************)
(* The fields.  A scan starts behind the character the last one stopped at *)
(* and takes digits.  At a sign, or at '@', it takes nothing: the field is *)
(* 0, and the next scan starts behind that character, though atoi gets it  *)
(* all the same, because a field is cut out from the end of the one before.*)
(***************************************************************************)
Splits(x) == x = At \/ x < 0

Scans(x) ==
  IF x = At THEN << [value |-> 0, part |-> "at"],   [value |-> 0, part |-> "behind"] >>
  ELSE IF Splits(x) THEN << [value |-> 0, part |-> "sign"], [value |-> x, part |-> "behind"] >>
  ELSE << [value |-> x, part |-> "whole"] >>

\* The fields made of the tokens before the i-th; the first two are none.
Ahead(text, i) == (i - 3) + Cardinality({j \in 3..(i - 1) : Splits(text[j])})

\* One scan after the other.
Fields(text) ==
  [f \in 1..Ahead(text, Len(text) + 1) |->
     LET i == CHOOSE i \in 3..Len(text) : Ahead(text, i) < f /\ f <= Ahead(text, i + 1)
     IN  Scans(text[i])[f - Ahead(text, i)]]

\* Variant with a bug: no field may have a sign.
Scanned_Unsigned(text) == Fields(text)

\* The default velocity may have a sign.
Scanned(text) ==
  LET all == Fields(text)
  IN  IF Len(all) >= DV /\ all[DV].part = "sign" THEN RemoveAt(all, DV) ELSE all

\* The mode is compared as a string, which has a blank at its end if another
\* token follows and no sign; an unknown one leaves the old mode.
Modes == 1..3
ModeRead(all, old) ==
  LET x == all[MODE]
  IN  IF Len(all) > MODE THEN old
      ELSE CASE x.part = "whole" /\ x.value \in Modes -> x.value
             [] x.part = "behind" /\ -x.value \in Modes -> -x.value
             [] OTHER -> old

(***************************************************************************)
(* What getSendBack may do to what the server knows of a client: the view  *)
(* (the fields of the last report), the sensor, done; or the process dies  *)
(* of an exception, out_of_range of a substr that starts behind the end of *)
(* the text.  A text that ends with a blank before the last field is not   *)
(* too short for its substr; the blanks are not modelled.                  *)
(***************************************************************************)
Dies(known) == [known EXCEPT !.died = TRUE]

\* Variant with a bug: the mode's substr starts one character late.
Update_Late(all, known) ==
  IF Len(all) <= MODE THEN {Dies(known)}
  ELSE {[known EXCEPT !.view = [f \in ROW..MODE |-> all[f].value]]}

Update(all, known) ==
  LET View(mode) == [known EXCEPT !.view = [f \in ROW..DIR |-> all[f].value] \o << mode >>]
  IN  CASE Len(all) < DIR -> {Dies(known)}
        [] Len(all) = DIR -> {Dies(known), View(known.view[MODE])}
        [] OTHER -> {View(ModeRead(all, known.view[MODE]))}

\* Variants with a bug: the last id is not accepted; the id is not checked.
ChangeSensor_Below(text, known) ==
  IF Len(text) < 3 THEN {Dies(known), known}
  ELSE IF text[3] # At /\ text[3] + 1 \in SensorIds THEN {[known EXCEPT !.sensor = text[3]]}
  ELSE {known}
ChangeSensor_Any(text, known) ==
  IF Len(text) < 3 THEN {Dies(known), known}
  ELSE {[known EXCEPT !.sensor = text[3]]}

ChangeSensor(text, known) ==
  IF Len(text) < 3 THEN {Dies(known), known}
  ELSE IF text[3] # At /\ text[3] \in SensorIds THEN {[known EXCEPT !.sensor = text[3]]}
  ELSE {known}

GetSendBack(text, known) ==
  CASE Kind(text) = 1 -> UNION {Update(all, known) : all \in {Scanned(text)}}
    [] Kind(text) = 2 -> ChangeSensor(text, known)
    [] Kind(text) = 5 -> {[known EXCEPT !.done = TRUE]}
    [] OTHER -> {known}
=============================================================================
