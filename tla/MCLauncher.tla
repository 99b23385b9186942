----------------------------- MODULE MCLauncher -----------------------------
(* A small instance of Launcher: three requests, so two answers may wait      *)
(* while the WebSocket of a third login is stopped, on either page.           *)
EXTENDS Launcher, TLC
=============================================================================
