---------------------------- MODULE MCVideoPath ----------------------------
(* A small instance of VideoPath: the film has a format of its own, and the  *)
(* stream comes in its size and in a larger one; two turns and one loss of   *)
(* the context may overlap.                                                  *)
EXTENDS VideoPath, TLC

Film == {[size |-> 1, fmt |-> "yuv420p"]}
Stream == {[size |-> 1, fmt |-> "nv12"], [size |-> 2, fmt |-> "nv12"]}
=============================================================================
