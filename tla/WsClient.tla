------------------------------ MODULE WsClient ------------------------------
(***************************************************************************)
(* eWebScoketCli: the launcher's WebSocket.  Two threads meet in it: the   *)
(* thread of the user interface, which calls Stop and Run when a login has *)
(* succeeded, Stop when the user goes back, and SwitchDevice; and the      *)
(* detached thread of the loop that Run starts, where asio runs the        *)
(* handlers one after the other.                                           *)
(*                                                                         *)
(* Each Run makes a new endpoint and gives the old one up: `_cli' is the   *)
(* number of the endpoint in use.  Stop waits for the loop on a condition  *)
(* variable without a predicate: it also goes on when two seconds are over *)
(* or when it wakes for no reason, and `early' notes that it did so while  *)
(* the loop was still there.  What the loop does with an endpoint that was *)
(* given up under it is undefined: it takes no further step here.          *)
(***************************************************************************)
EXTENDS Integers

CONSTANT MaxRuns    \* bound: how often Run is called

ASSUME WsAssumption == MaxRuns \in Nat \ {0}

Endpoint == 1 .. MaxRuns

VARIABLES
    run, done, stopDone,  \* _bRun, _bDone, _bStopDone
    cli,        \* _cli: the endpoint in use, 0 before the first Run
    hdl,        \* m_hdl: the endpoint of the connection it names, 0 if none
    ui,         \* where the user interface is in Stop, or "idle"
    then,       \* what it does when Stop has returned: "run" or "nothing"
    place,      \* per endpoint: where its loop is
    con,        \* per endpoint: the state of its connection
    stopped,    \* per endpoint: _cli->stop() was called
    timers,     \* per endpoint: the timers that are set
    early       \* history: a Stop went on while its loop was there

ui_vars == <<run, done, stopDone, cli, ui, then, early>>
loop_vars == <<hdl, place, con, stopped, timers>>
vars == <<ui_vars, loop_vars>>

Init ==
    /\ run = FALSE /\ done = FALSE /\ stopDone = FALSE
    /\ cli = 0 /\ hdl = 0
    /\ ui = "idle" /\ then = "nothing"
    /\ place = [e \in Endpoint |-> "none"]
    /\ con = [e \in Endpoint |-> "none"]
    /\ stopped = [e \in Endpoint |-> FALSE]
    /\ timers = [e \in Endpoint |-> {}]
    /\ early = FALSE

----------------------------------------------------------------------------
(* The user interface *)

\* Mutant: Run leaves _bRun as the last loop left it.
ReviveUnrun == run' = run /\ done' = FALSE /\ stopDone' = FALSE

Revive == run' = TRUE /\ done' = FALSE /\ stopDone' = FALSE

\* Run: the new endpoint replaces the old one, whose timers go with it.  get_connection
\* refuses an address that is no URI, and no loop is started.
Run(good) ==
    /\ cli < MaxRuns
    /\ Revive
    /\ cli' = cli + 1
    /\ place' = [place EXCEPT ![cli'] = IF good THEN "new" ELSE "none"]
    /\ timers' = [e \in Endpoint |-> {}]
    /\ UNCHANGED <<hdl, con>>

\* Stop returns at once when no loop runs.
Stop(next) ==
    /\ ui = "idle"
    /\ then' = next
    /\ ui' = IF run /\ cli # 0 THEN "marks" ELSE "returns"
    /\ UNCHANGED <<run, done, stopDone, cli, early, loop_vars>>

\* Under _clock_lock: a second Stop of the same Run returns here.
Mark ==
    /\ ui = "marks"
    /\ IF stopDone
         THEN ui' = "returns" /\ UNCHANGED <<done, stopDone>>
         ELSE ui' = "stops" /\ done' = TRUE /\ stopDone' = TRUE
    /\ UNCHANGED <<run, cli, then, early, loop_vars>>

\* stop() ends the loop; the close frame of an open connection is not written any
\* more, and the exception of one that is not open is caught.
StopEndpoint ==
    /\ ui = "stops"
    /\ stopped' = [stopped EXCEPT ![cli] = TRUE]
    /\ ui' = "waits"
    /\ UNCHANGED <<run, done, stopDone, cli, then, early, hdl, place, con, timers>>

Gone(e) == place[e] \in {"none", "ended"}

\* The wait ends, whatever ended it.
Wake ==
    /\ ui' = "returns"
    /\ early' = (early \/ ~Gone(cli))

\* Mutant: the wait has no time limit.
NeverByItself == FALSE

ByItself == ui = "waits"

\* The two seconds are over, or the wait ends for no reason.
TimeLimit ==
    /\ ByItself /\ Wake
    /\ UNCHANGED <<run, done, stopDone, cli, then, loop_vars>>

Login ==
    /\ ui = "returns" /\ then = "run"
    /\ \E good \in BOOLEAN : Run(good)
    /\ ui' = "idle"
    /\ UNCHANGED <<then, early, stopped>>

Back ==
    /\ ui = "returns" /\ then = "nothing"
    /\ ui' = "idle"
    /\ UNCHANGED <<run, done, stopDone, cli, then, early, loop_vars>>

\* SwitchDevice, on behalf of a player; players are started after the first login.
SafeSend ==
    /\ ui = "idle" /\ ~done /\ cli # 0
    /\ timers' = [timers EXCEPT ![cli] = @ \cup {"send"}]
    /\ UNCHANGED <<ui_vars, hdl, place, con, stopped>>

----------------------------------------------------------------------------
(* The loop of endpoint e *)

Goto(e, l) == place' = [place EXCEPT ![e] = l]

Connect(e) ==
    /\ place[e] = "new" /\ cli = e
    /\ hdl' = e
    /\ con' = [con EXCEPT ![e] = "connecting"]
    /\ Goto(e, "run")
    /\ UNCHANGED <<ui_vars, stopped, timers>>

\* asio runs a handler of e.
Runs(e) == place[e] = "run" /\ cli = e /\ ~stopped[e]

\* Mutant: the timer of ReConnect is set as soon as the connection is open.
WatchFromStart == {"heart", "reconnect"}

SetByOpen == {"heart"}

\* on_open: log in, then the first heartbeat in ten seconds.
Open(e) ==
    /\ Runs(e) /\ con[e] = "connecting"
    /\ con' = [con EXCEPT ![e] = "open"]
    /\ timers' = [timers EXCEPT ![e] = @ \cup SetByOpen]
    /\ UNCHANGED <<ui_vars, hdl, place, stopped>>

\* Mutant: a loss makes no plan.
NoPlan(e) == UNCHANGED timers

ReConnect(e) ==
    timers' = [timers EXCEPT ![e] = IF done THEN @ ELSE @ \cup {"reconnect"}]

\* on_close and on_fail
Lose(e) ==
    /\ Runs(e) /\ con[e] \in {"connecting", "open"}
    /\ con' = [con EXCEPT ![e] = "closed"]
    /\ ReConnect(e)
    /\ UNCHANGED <<ui_vars, hdl, place, stopped>>

\* on_heart sets itself anew; what send throws is caught.
Heart(e) ==
    /\ Runs(e) /\ "heart" \in timers[e]
    /\ timers' = [timers EXCEPT ![e] = IF done THEN @ \ {"heart"} ELSE @]
    /\ UNCHANGED <<ui_vars, hdl, place, con, stopped>>

Send(e) ==
    /\ Runs(e) /\ "send" \in timers[e]
    /\ timers' = [timers EXCEPT ![e] = @ \ {"send"}]
    /\ UNCHANGED <<ui_vars, hdl, place, con, stopped>>

\* Mutant: close says nothing of a connection that is not open.
CloseIsQuiet == FALSE

\* close(hdl, code, reason) throws unless the connection is open.
CloseThrows == hdl = 0 \/ con[hdl] # "open"

\* The timer of ReConnect: stop, close, and Run on a thread of its own.  Nothing
\* catches what close throws before the loop itself does.
ReConnectTimer(e) ==
    /\ Runs(e) /\ "reconnect" \in timers[e]
    /\ stopped' = [stopped EXCEPT ![e] = TRUE]
    /\ IF CloseThrows
         THEN /\ Goto(e, "left")
              /\ timers' = [timers EXCEPT ![e] = @ \ {"reconnect"}]
              /\ UNCHANGED <<run, done, stopDone, cli>>
         ELSE Run(TRUE)
    /\ UNCHANGED <<ui, then, early, hdl, con>>

\* run() returns when it was stopped or has nothing left to do.
Leave(e) ==
    /\ place[e] = "run" /\ cli = e
    /\ stopped[e] \/ (con[e] = "closed" /\ timers[e] = {})
    /\ Goto(e, "left")
    /\ UNCHANGED <<ui_vars, hdl, con, stopped, timers>>

ClearRun(e) ==
    /\ place[e] = "left"
    /\ run' = FALSE
    /\ Goto(e, "told")
    /\ UNCHANGED <<done, stopDone, cli, ui, then, early, hdl, con, stopped, timers>>

\* notify_all, without the lock: a Stop that does not wait yet misses it.
Notify(e) ==
    /\ place[e] = "told"
    /\ Goto(e, "ended")
    /\ IF done /\ ui = "waits"
         THEN /\ ui' = "returns"
              /\ early' = (early \/ (cli # e /\ ~Gone(cli)))
         ELSE UNCHANGED <<ui, early>>
    /\ UNCHANGED <<run, done, stopDone, cli, then, hdl, con, stopped, timers>>

----------------------------------------------------------------------------
Interface ==
    \/ \E next \in {"run", "nothing"} : Stop(next)
    \/ Mark \/ StopEndpoint \/ TimeLimit \/ Login \/ Back \/ SafeSend

Loop(e) ==
    \/ Connect(e) \/ Open(e) \/ Lose(e) \/ Heart(e) \/ Send(e)
    \/ ReConnectTimer(e) \/ Leave(e) \/ ClearRun(e) \/ Notify(e)

Next == Interface \/ \E e \in Endpoint : Loop(e)

Spec == Init /\ [][Next]_vars

----------------------------------------------------------------------------
(* Properties *)

\* Every variable has a value of its type, and ReConnect's timer is set only for the
\* loss of the connection that m_hdl names: so its close always throws.
TypeOK ==
    /\ run \in BOOLEAN /\ done \in BOOLEAN /\ stopDone \in BOOLEAN
    /\ cli \in 0 .. MaxRuns /\ hdl \in 0 .. cli
    /\ ui \in {"idle", "marks", "stops", "waits", "returns"}
    /\ then \in {"run", "nothing"}
    /\ place \in [Endpoint -> {"none", "new", "run", "left", "told", "ended"}]
    /\ con \in [Endpoint -> {"none", "connecting", "open", "closed"}]
    /\ stopped \in [Endpoint -> BOOLEAN]
    /\ timers \in [Endpoint -> SUBSET {"heart", "send", "reconnect"}]
    /\ early \in BOOLEAN
    /\ \A e \in Endpoint : "reconnect" \in timers[e] => con[e] = "closed" /\ hdl = e

\* Run makes a new endpoint and destroys the old one without asking whether a loop is
\* in it.  Unless a Stop was woken too soon that never happens under a loop that has
\* still to use it, so there is at most one such loop.
LoopOwnsEndpoint ==
    ~early => \A e \in Endpoint : place[e] \in {"new", "run"} => cli = e

\* Whichever way Stop returns, at once because _bRun or _bStopDone say that there is
\* nothing to stop or after its wait, no loop is then at work on the network.
StoppedIsStopped ==
    ui = "returns" /\ ~early => \A e \in Endpoint : place[e] \notin {"new", "run"}

\* Stop comes to its end though the loop may notify before Stop waits.
StopReturns == (ui = "marks") ~> (ui = "returns")

\* A loop whose connection is lost comes to its end, also while heartbeats go on
\* being set: the timer of ReConnect stops it. (It does not connect again.)
LossEndsTheLoop ==
    \A e \in Endpoint : (con[e] = "closed") ~> (place[e] = "ended" \/ early)
=============================================================================
