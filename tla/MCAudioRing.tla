----------------------------- MODULE MCAudioRing -----------------------------
(* Small instances of AudioRing: frames that do and do not divide the ring,   *)
(* and an SDL that wants less than a frame or more.                           *)
EXTENDS AudioRing, TLC

MCFrame == {1, 4}
=============================================================================
