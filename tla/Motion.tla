------------------------------- MODULE Motion -------------------------------
(***************************************************************************)
(* The geometry of one driving step: compass directions, the turn table of *)
(* Agent::change_direction, the choice of direction in Agent::step, and    *)
(* what Robot::turnXDegrees and Robot::driveXDistance do to a robot that   *)
(* stands on a cell of the grid.                                           *)
(*                                                                         *)
(* A direction is counted in eighths of a turn, counter-clockwise from     *)
(* east; rows grow towards the south, columns towards the east.            *)
(***************************************************************************)
EXTENDS Integers, Sequences

EAST      == 0
NORTHEAST == 1
NORTH     == 2
NORTHWEST == 3
WEST      == 4
SOUTHWEST == 5
SOUTH     == 6
SOUTHEAST == 7

Directions == 0..7

(***************************************************************************)
(* The angle change_direction(after) asks the robot to turn by, row by row *)
(* of its if-chain over the current direction; positive is counter-        *)
(* clockwise.                                                              *)
(***************************************************************************)
TurnTable ==
  << \*  to  E     NE    N     NW    W     SW    S     SE
         <<  0,   45,   90,  135,  180, -135,  -90,  -45 >>,  \* from E
         <<-45,    0,   45,   90,  135,  180, -135,  -90 >>,  \* from NE
         <<-90,  -45,    0,   45,   90,  135,  180, -135 >>,  \* from N
         <<-135, -90,  -45,    0,   45,   90,  135,  180 >>,  \* from NW
         <<180, -135,  -90,  -45,    0,   45,   90,  135 >>,  \* from W
         <<135,  180, -135,  -90,  -45,    0,   45,   90 >>,  \* from SW
         << 90,  135,  180, -135,  -90,  -45,    0,   45 >>,  \* from S
         << 45,   90,  135,  180, -135,  -90,  -45,    0 >> >> \* from SE

TurnDegrees(before, after) == TurnTable[before + 1][after + 1]

Sign(x) == IF x < 0 THEN -1 ELSE IF x > 0 THEN 1 ELSE 0
AbsOf(x) == IF x < 0 THEN -x ELSE x

\* Variant with a bug: a full turn is not folded away.
TurnXDegrees_Unwrapped(h, degree, velocity) ==
  LET clockwise == (degree < 0) # (velocity < 0)
      sense     == (IF clockwise THEN -1 ELSE 1) * Sign(velocity)
  IN  h + sense * (AbsOf(degree) \div 45)

(***************************************************************************)
(* The heading the wheels reach when turnXDegrees(degree, velocity) runs   *)
(* undisturbed from heading h.  The code picks a rotation opcode from the  *)
(* signs of both arguments and passes the signed velocity with it, and a   *)
(* negative velocity reverses the opcode's sense.                          *)
(***************************************************************************)
TurnXDegrees(h, degree, velocity) ==
  LET clockwise == (degree < 0) # (velocity < 0)
      sense     == (IF clockwise THEN -1 ELSE 1) * Sign(velocity)
  IN  (h + sense * (AbsOf(degree) \div 45)) % 8

\* The neighbouring cell in direction d, as <<row, column>>.
Offset(d) ==
  << CASE d \in {NORTHEAST, NORTH, NORTHWEST} -> -1
       [] d \in {SOUTHEAST, SOUTH, SOUTHWEST} -> 1
       [] OTHER -> 0,
     CASE d \in {NORTHEAST, EAST, SOUTHEAST} -> 1
       [] d \in {NORTHWEST, WEST, SOUTHWEST} -> -1
       [] OTHER -> 0 >>

Opposite(d) == (d + 4) % 8
IsDiagonal(d) == d % 2 = 1

\* A robot whose place on the grid is not known any more.
Lost == << >>

\* The cells Agent::step accepts as one step: at most one row and column apart.
Connected(a, b) == AbsOf(a[1] - b[1]) <= 1 /\ AbsOf(a[2] - b[2]) <= 1

\* The compass direction from a to a different connected cell b.
Bearing(a, b) ==
  CHOOSE d \in Directions : Offset(d) = << b[1] - a[1], b[2] - a[2] >>

\* Variant with a bug: the robot faces the cell it is to back into.
Facing_Forward(a, b, velocity) == Bearing(a, b)

(***************************************************************************)
(* The direction Agent::step turns to before it drives from a to b: the    *)
(* bearing when the default velocity is positive and otherwise its         *)
(* opposite, because a negative velocity drives the robot backwards.       *)
(***************************************************************************)
Facing(a, b, velocity) ==
  IF velocity > 0 THEN Bearing(a, b) ELSE Opposite(Bearing(a, b))

(***************************************************************************)
(* Where a robot on cell p with heading h ends up after driveXDistance over*)
(* the straight or the diagonal unit.  drive_straight gets the signed      *)
(* velocity; a unit that does not fit the heading leaves the robot between *)
(* cells.                                                                  *)
(***************************************************************************)
DriveXDistance(p, h, diagonal, velocity) ==
  IF velocity = 0 \/ p = Lost THEN p
  ELSE IF diagonal # IsDiagonal(h) THEN Lost
  ELSE << p[1] + Sign(velocity) * Offset(h)[1],
          p[2] + Sign(velocity) * Offset(h)[2] >>
=============================================================================
