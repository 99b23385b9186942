--------------------------- MODULE MCControlTrans ---------------------------
(* Small instances of ControlTrans: the waits keep their order, a heartbeat as *)
(* long as a time-out and the start of the stream before both.                 *)
EXTENDS ControlTrans, TLC
=============================================================================
