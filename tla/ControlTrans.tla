---------------------------- MODULE ControlTrans ----------------------------
(***************************************************************************)
(* eControlTrans: what the control thread of the player does when its      *)
(* command client connects, loses its connection and connects again.  The  *)
(* connect callback runs on the libevent thread and posts to the control   *)
(* thread's pump between two of whose tasks anything may happen; tasks     *)
(* come in order and timers when they are due, as MsgPump shows.           *)
(*                                                                         *)
(* Timers are counted by the ticks they still have to wait.  The program   *)
(* sends one kind of request, "launcher", so each callback map has an      *)
(* entry or none.  close_self is called by nobody: gDone stays false.      *)
(***************************************************************************)
EXTENDS Integers, Sequences, FiniteSets, FiniteSetsExt

CONSTANTS
    HeartEvery,   \* ticks between heartbeats (30 s)
    Timeout,      \* ticks a request may wait for its answer (30 s)
    TriggerAfter, \* ticks from the connection to the start of the stream (4 s)
    MaxConns      \* bound: how often the client connects

ASSUME ControlTransAssumption ==
    /\ HeartEvery \in Nat \ {0} /\ Timeout \in Nat \ {0} /\ TriggerAfter \in Nat \ {0}
    /\ MaxConns \in Nat \ {0}

VARIABLES
    connected,  \* _cmd_client's _status is CONNECTED
    conns,      \* how often it connected
    cbpc,       \* where the connect callback is, on the libevent thread
    trStatus,   \* the transport's own _status is CONNECTED
    cmdConn,    \* the bit CMD_CONN of _conn_type
    tasks,      \* the control thread's tasks
    timer,      \* per kind and ticks to wait: how many timers
    recvCB,     \* _recvCBMap has the request
    failCB,     \* _failCBMap has the request
    streams,    \* how many stream threads were started
    wait,       \* ticks the request sent last may still wait (history)
    erased      \* a call was refused while a request waited (history)

vars == <<connected, conns, cbpc, trStatus, cmdConn, tasks, timer, recvCB, failCB,
          streams, wait, erased>>

Kind    == {"SendHeart", "RemoveCB", "trigger"}
Longest == Max({HeartEvery, Timeout, TriggerAfter})

Init ==
    /\ connected = FALSE /\ conns = 0 /\ cbpc = "idle"
    /\ trStatus = FALSE /\ cmdConn = FALSE
    /\ tasks = <<>>
    /\ timer = [k \in Kind |-> [l \in 0 .. Longest |-> 0]]
    /\ recvCB = FALSE /\ failCB = FALSE
    /\ streams = 0 /\ wait = 0 /\ erased = FALSE

Delayed(tm, k, after) == [tm EXCEPT ![k][after] = @ + 1]
Fired(tm, k)          == [tm EXCEPT ![k][0] = @ - 1]

----------------------------------------------------------------------------
(* The libevent thread *)

\* eAVClient calls the connect callback with its status CONNECTED.
BeginConnectCB ==
    /\ cbpc = "idle" /\ ~connected /\ conns < MaxConns
    /\ connected' = TRUE
    /\ conns' = conns + 1
    /\ cbpc' = "SendHeart"
    /\ UNCHANGED <<trStatus, cmdConn, tasks, timer, recvCB, failCB, streams,
                   wait, erased>>

\* Its call of SendHeart, on this thread: a heartbeat and the next one's timer
CBSendHeart ==
    /\ cbpc = "SendHeart"
    /\ timer' = Delayed(timer, "SendHeart", HeartEvery)
    /\ cbpc' = "SendClearApps"
    /\ UNCHANGED <<connected, conns, trStatus, cmdConn, tasks, recvCB, failCB, streams,
                   wait, erased>>

CBPost(from, to) ==
    /\ cbpc = from
    /\ tasks' = Append(tasks, from)
    /\ cbpc' = to
    /\ UNCHANGED <<connected, conns, trStatus, cmdConn, timer, recvCB, failCB, streams,
                   wait, erased>>

CBStatus ==
    /\ cbpc = "status"
    /\ trStatus' = TRUE
    /\ cbpc' = "idle"
    /\ UNCHANGED <<connected, conns, cmdConn, tasks, timer, recvCB, failCB, streams,
                   wait, erased>>

RemoteConnectCB ==
    \/ CBSendHeart
    \/ CBPost("SendClearApps", "SetConnState")
    \/ CBPost("SetConnState", "status")
    \/ CBStatus

\* The connection is lost.  The client tells the transport nothing: its error
\* callback is for a client that was closed.
LoseConnection ==
    /\ cbpc = "idle" /\ connected
    /\ connected' = FALSE
    /\ UNCHANGED <<conns, cbpc, trStatus, cmdConn, tasks, timer, recvCB, failCB, streams,
                   wait, erased>>

----------------------------------------------------------------------------
(* The control thread *)

\* Mutant: the time-out is not planned.
SendTcpDataUntimed(tm) ==
    LET sends == ~recvCB /\ ~failCB /\ connected
    IN  /\ recvCB' = sends /\ failCB' = sends
        /\ timer' = tm
        /\ wait' = IF sends THEN Timeout ELSE wait
        /\ erased' = (erased \/ (recvCB /\ ~sends))

\* Mutant: the maps are not asked, a request is sent beside the one that waits.
SendTcpDataAnyway(tm) ==
    /\ recvCB' = connected /\ failCB' = connected
    /\ timer' = IF connected THEN Delayed(tm, "RemoveCB", Timeout) ELSE tm
    /\ wait' = IF connected THEN Timeout ELSE wait
    /\ erased' = (erased \/ (recvCB /\ ~connected))

\* The request is sent when neither map has it and the client is connected.  In
\* every other case it is not, and both maps lose what they have.
SendTcpData(tm) ==
    LET sends == ~recvCB /\ ~failCB /\ connected
    IN  /\ recvCB' = sends /\ failCB' = sends
        /\ timer' = IF sends THEN Delayed(tm, "RemoveCB", Timeout) ELSE tm
        /\ wait' = IF sends THEN Timeout ELSE wait
        /\ erased' = (erased \/ (recvCB /\ ~sends))

\* Mutant: only a request that is sent is followed by the stream's start.
SendClearAppsIfSent ==
    /\ trStatus' = TRUE
    /\ SendTcpData(IF ~recvCB /\ connected THEN Delayed(timer, "trigger", TriggerAfter)
                                           ELSE timer)

SendClearApps ==
    /\ trStatus' = TRUE
    /\ SendTcpData(Delayed(timer, "trigger", TriggerAfter))

RunSendClearApps ==
    /\ tasks # <<>> /\ Head(tasks) = "SendClearApps"
    /\ SendClearApps
    /\ tasks' = Tail(tasks)
    /\ UNCHANGED <<connected, conns, cbpc, cmdConn, streams>>

RunSetConnState ==
    /\ tasks # <<>> /\ Head(tasks) = "SetConnState"
    /\ cmdConn' = TRUE
    /\ tasks' = Tail(tasks)
    /\ UNCHANGED <<connected, conns, cbpc, trStatus, timer, recvCB, failCB, streams,
                   wait, erased>>

\* Mutants: a heartbeat without a connection is the last; every heartbeat plans two.
SendHeartWhileUp(tm) ==
    timer' = IF connected THEN Delayed(tm, "SendHeart", HeartEvery) ELSE tm
SendHeartTwice(tm) ==
    timer' = Delayed(Delayed(tm, "SendHeart", HeartEvery), "SendHeart", HeartEvery)

\* The heartbeat goes out, or not when there is no connection, and the next is planned.
SendHeart(tm) == timer' = Delayed(tm, "SendHeart", HeartEvery)

FireSendHeart ==
    /\ timer["SendHeart"][0] > 0
    /\ SendHeart(Fired(timer, "SendHeart"))
    /\ UNCHANGED <<connected, conns, cbpc, trStatus, cmdConn, tasks, recvCB, failCB,
                   streams, wait, erased>>

\* Mutant: only the callback that is called is removed.
RemoveFailCB == recvCB' = recvCB /\ failCB' = FALSE

\* The request failed, if it is there still.
RemoveCB == recvCB' = FALSE /\ failCB' = FALSE

FireRemoveCB ==
    /\ timer["RemoveCB"][0] > 0
    /\ RemoveCB
    /\ timer' = Fired(timer, "RemoveCB")
    /\ UNCHANGED <<connected, conns, cbpc, trStatus, cmdConn, tasks, streams,
                   wait, erased>>

triggerStraamThread ==
    /\ timer["trigger"][0] > 0
    /\ streams' = streams + 1
    /\ timer' = Fired(timer, "trigger")
    /\ UNCHANGED <<connected, conns, cbpc, trStatus, cmdConn, tasks, recvCB, failCB,
                   wait, erased>>

ControlStep == \/ RunSendClearApps \/ RunSetConnState
               \/ FireSendHeart \/ FireRemoveCB \/ triggerStraamThread

\* One more tick has passed; what is due waits for the pump.
Tick ==
    /\ timer' = [k \in Kind |-> [l \in 0 .. Longest |->
                    IF l = 0 THEN timer[k][0] + timer[k][1]
                    ELSE IF l = Longest THEN 0 ELSE timer[k][l + 1]]]
    /\ wait' = IF wait > 0 THEN wait - 1 ELSE 0
    /\ UNCHANGED <<connected, conns, cbpc, trStatus, cmdConn, tasks, recvCB, failCB, streams,
                   erased>>

Next == BeginConnectCB \/ RemoteConnectCB \/ LoseConnection \/ ControlStep \/ Tick

Spec == Init /\ [][Next]_vars

\* Time passes, the callback that was begun goes on and the pump runs what is
\* posted or due.
FairSpec == /\ Spec
            /\ WF_vars(Tick) /\ WF_vars(RemoteConnectCB)
            /\ WF_vars(RunSendClearApps \/ RunSetConnState)
            /\ WF_vars(FireSendHeart) /\ WF_vars(FireRemoveCB)
            /\ WF_vars(triggerStraamThread)

----------------------------------------------------------------------------
(* Properties *)

\* Every variable has a value of its type; there are never more timers of a kind
\* than there were connections.
TypeOK ==
    /\ connected \in BOOLEAN /\ trStatus \in BOOLEAN /\ cmdConn \in BOOLEAN
    /\ recvCB \in BOOLEAN /\ failCB \in BOOLEAN
    /\ conns \in 0 .. MaxConns
    /\ cbpc \in {"idle", "SendHeart", "SendClearApps", "SetConnState", "status"}
    /\ tasks \in Seq({"SendClearApps", "SetConnState"})
    /\ timer \in [Kind -> [0 .. Longest -> 0 .. MaxConns]]
    /\ streams \in 0 .. MaxConns
    /\ wait \in 0 .. Timeout
    /\ erased \in BOOLEAN

Waiting(f) == UNION {{l} \X (1 .. f[l]) : l \in 0 .. Longest}
Timers(k)  == Cardinality(Waiting(timer[k]))
Posted(t)  == Cardinality({i \in 1 .. Len(tasks) : tasks[i] = t})
Reached(l) == IF cbpc \in l THEN 1 ELSE 0

\* A request whose callbacks are kept is in both maps and has a time-out pending,
\* however connections and calls interleave: no request waits for ever and none
\* blocks its name for good.
RequestTimesOut ==
    /\ recvCB = failCB
    /\ recvCB => \E l \in 0 .. Timeout : timer["RemoveCB"][l] > 0

\* The heartbeat outlives the loss of the connection, and each connection adds one
\* chain of heartbeats to those that beat already: none dies, none splits.
HeartbeatPerConnection == Timers("SendHeart") = conns - Reached({"SendHeart"})

\* Every connection starts one stream thread, no more and no fewer, and some time
\* after its launcher request was decided on, though that may not have been sent.
StreamPerConnection ==
    streams + Timers("trigger") + Posted("SendClearApps")
        = conns - Reached({"SendHeart", "SendClearApps"})

\* The entry of a request is removed in the end, and the name is free again.
RequestSettles == recvCB \/ failCB ~> ~recvCB /\ ~failCB

\* A removal knows its request by its name only, so the one planned for an earlier
\* request may end a later one before its time.  That takes a call that was refused
\* while a request waited: it forgets the request and leaves its removal to come.
\* Without one every request is kept for the whole of its time, across reconnects.
EarlyOnlyAfterErasure == [][recvCB /\ ~recvCB' /\ wait > 0 => erased']_vars

\* SendTcpData's first line: while the earlier request still exists, no other is
\* sent.  A request exists until it is answered or timed out; the program never
\* looks at answers.
NoResend == [][timer'["RemoveCB"][Timeout] > timer["RemoveCB"][Timeout] /\ wait' = Timeout
                 => wait = 0]_vars
=============================================================================
