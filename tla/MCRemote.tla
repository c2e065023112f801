------------------------------ MODULE MCRemote ------------------------------
(* Constants of the model-checking runs of Remote.                          *)
EXTENDS Remote

Button(op, fields) == [op |-> op, fields |-> fields]
Blank == << >>

(* Every button; velocities of both signs, one that sixteen bits do not hold  *)
(* (65036 is -500 in them), a radius field that is empty, 0, and neither; and *)
(* turns by angle and by time, in both senses, that turn and that do not.    *)
MCButtons ==
  { Button(op, << >>) : op \in {"full", "safe", "stop", "toggle", "quit"} }
  \cup { Button("drive", << <<v>>, r >>) : v \in {-200, 300}, r \in {Blank, <<0>>, <<-800>>} }
  \cup { Button("turn", << <<a>>, <<v>>, s >>) :
           a \in {-90, 180}, v \in {-200, 65036}, s \in {Blank, <<2>>} }
  \cup { Button("turn", << <<0>>, <<300>>, Blank >>),
         Button("turn", << <<90>>, <<300>>, <<-1>> >>) }
  \cup { Button(op, << <<v>> >>) : op \in {"turnCW", "turnCCW"}, v \in {-200, 65036} }
  \cup { Button("leds", << <<1>>, <<0>>, <<0>>, <<0>> >>) }
  \cup { Button("choice", << <<i>> >>) : i \in {0, 8, 23, 34} }

\* Two drives and a stop.
DriveButtons ==
  { Button("stop", << >>), Button("drive", << <<300>>, <<-800>> >>),
    Button("drive", << <<-200>>, <<400>> >>) }
=============================================================================
