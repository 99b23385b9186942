---------------------------- MODULE MCThreadPool ----------------------------
(* A small instance of ThreadPool: the program has one worker; two show what *)
(* several would do to each other.                                          *)
EXTENDS ThreadPool, TLC
=============================================================================
