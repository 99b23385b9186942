----------------------------- MODULE MCAVClient -----------------------------
(* Small instances of AVClient: a heartbeat, the longest message whose length *)
(* and header fit a short int, and the next one.                              *)
EXTENDS AVClient, TLC

MCSize == {60, 32763, 32764}
=============================================================================
