----------------------------- MODULE MCSensors -----------------------------
(***************************************************************************)
(* Constants of the model-checking run of Sensors: a sensor of one byte and*)
(* one of two; two neighbouring data bytes may read as headers.            *)
(***************************************************************************)
EXTENDS Sensors
MCPlace == <<1, 2>>
MCWide == {2}
MCLookalikes == {{}, {3, 4}}
=============================================================================
