----------------------------- MODULE MCSensorIR -----------------------------
(* SensorIR with a clock of tenths of a second.  A pass lasts half a       *)
(* second, or more when the machine is busy.                               *)
EXTENDS SensorIR

PassDauer == {5, 6, 9, 12}
=============================================================================
