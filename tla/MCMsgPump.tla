----------------------------- MODULE MCMsgPump -----------------------------
(* A small instance of MsgPump: two threads that post, the pump itself, one *)
(* owner, timers that run once, twice or for ever.                          *)
EXTENDS MsgPump, TLC

MCDelay == {0, 1}
MCTimes == {-1, 0, 2}
OnPump  == {Pump}
=============================================================================
