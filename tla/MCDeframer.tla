----------------------------- MODULE MCDeframer -----------------------------
(* A small instance of Deframer: packages of three, no and five bytes, chunks *)
(* that may split any of them, hold two, or end with one.                     *)
EXTENDS Deframer, TLC

MCPayload == <<3, 0, 5>>
MCGarbage == {0, 2, 7}
=============================================================================
