----------------------------- MODULE MCSession -----------------------------
(***************************************************************************)
(* Constants of the model-checking run of Session.  Client a moves between *)
(* two poses, the second of which has the goal column -1 that typing makes *)
(* possible, and is sent a sensor command; a report with too few fields or *)
(* a change of the sensor is typed at it, and what it sends is cut behind  *)
(* a type, before a mode, or in the second of two messages.  Client b is   *)
(* sent commands that may leave it stuck or make it throw, and a '5' is    *)
(* typed at it.                                                            *)
(***************************************************************************)
EXTENDS Session, TLC

CONSTANTS a, b
TwoClients == {a, b}
MCMoving == {a}
MCCommands == a :> [type : {"sensor"}, sensor : {8}] @@ b :> [type : {"other"}]
MCLines == a :> {<< 1 >>, << 2, 8 >>} @@ b :> {<< 5 >>}
MCCuts == a :> {2, 9, 13} @@ b :> {}
MCInUp == a :> 2 @@ b :> 1
MCInDown == a :> 1 @@ b :> 2
MCPoses == << << 0, 1, 5, 1, -2, 2, 0, 3 >>, << 1, 2, 5, -1, 2, 2, 0, 3 >> >>
MCRows == 0..1
MCColumns == 1..2
MCConstructed == a :> << -1, -1, -1, -1, 2, 0, 3, 0 >> @@ b :> << -1, -1, -1, -1, 2, 0, 3, 1 >>
=============================================================================
