------------------------------ MODULE AVClient ------------------------------
(***************************************************************************)
(* One eAVClient: a TCP client that reconnects for ever, driven by         *)
(* callbacks on the libevent thread (common/eAVClient.cpp) and called from *)
(* the control thread.  A callback is one step: only the libevent thread   *)
(* runs them.  SendData is two: it reads _status without a lock and        *)
(* activates the write later.                                              *)
(*                                                                         *)
(* libevent is external: what is activated waits in one FIFO, a timer is   *)
(* activated when its time comes and a bufferevent's callback when the     *)
(* network says so; freeing a bufferevent takes its callbacks back.        *)
(***************************************************************************)
EXTENDS Integers, Sequences, FiniteSets, SequencesExt

CONSTANTS
    Size,        \* the lengths of the messages given to SendData
    MaxSends,    \* bound: how many messages are accepted
    MaxConns     \* bound: how many connections are attempted

ASSUME AVClientAssumption ==
    /\ Size \subseteq Nat
    /\ MaxSends \in Nat
    /\ MaxConns \in Nat \ {0}

VARIABLES
    status,      \* _status
    bev,         \* _bev: the number of its connection, 0 for nullptr
    bDone,       \* _bDone
    gone,        \* the client is deleted and off the map of clients
    active,      \* libevent's queue of activated callbacks
    timer,       \* per callback: how many of its timers are pending
    net,         \* per connection: what became of it
    calling,     \* the message whose SendData found the client connected, or 0
    asked,       \* Connect and Disconnect, once they were called
    (* History, read by the properties only. *)
    sent,        \* per message accepted: by whom, its length, the connection then
    wire         \* per connection: the messages written and how many bytes of each

vars == <<status, bev, bDone, gone, active, timer, net, calling, asked, sent, wire>>

Conn   == 1 .. MaxConns
Timed  == {"do_conn_cb", "do_close_cb", "do_reconn_cb"}
Sender == {"control", "loop"}

Init ==
    /\ status = "UNNKOW" /\ bev = 0 /\ bDone = FALSE /\ gone = FALSE
    /\ active = <<>>
    /\ timer = [c \in Timed |-> 0]
    /\ net = [c \in Conn |-> "unused"]
    /\ calling = 0
    /\ asked = {}
    /\ sent = <<>>
    /\ wire = [c \in Conn |-> <<>>]

----------------------------------------------------------------------------
(* What the control thread calls *)

Pending(c) == [timer EXCEPT ![c] = @ + 1]

Event(cb, c)    == [cb |-> cb, conn |-> c, msg |-> 0, len |-> 0]

\* Mutant of Short: the length is not cut to 16 bits.
ShortAsInt(n) == n

\* EVENT_CTX.len is a short int
Short(n) == ((n + 32768) % 65536) - 32768

SendEvent(m, n) == [cb |-> "do_send_cb", conn |-> 0, msg |-> m, len |-> Short(n + 4)]

\* Mutant of Activate: the event goes to the head of the queue.
ActivateFirst(q, e) == <<e>> \o q

\* libevent runs what is activated in the order of activation.
Activate(q, e) == Append(q, e)

Connect ==
    /\ "Connect" \notin asked
    /\ asked' = asked \cup {"Connect"}
    /\ timer' = Pending("do_conn_cb")
    /\ UNCHANGED <<status, bev, bDone, gone, active, net, calling, sent, wire>>

Disconnect ==
    /\ "Connect" \in asked /\ "Disconnect" \notin asked
    /\ calling = 0
    /\ asked' = asked \cup {"Disconnect"}
    /\ timer' = Pending("do_close_cb")
    /\ UNCHANGED <<status, bev, bDone, gone, active, net, calling, sent, wire>>

Accept(by, n) == Append(sent, [by |-> by, len |-> n, conn |-> bev])

\* Mutant of SendData: _status is not looked at.
SendUnchecked(n) ==
    /\ "Disconnect" \notin asked
    /\ calling = 0
    /\ Len(sent) < MaxSends
    /\ sent' = Accept("control", n)
    /\ calling' = Len(sent')
    /\ UNCHANGED <<status, bev, bDone, gone, active, timer, net, asked, wire>>

\* SendData up to the test of _status.  Its caller gives the client up when it
\* calls Disconnect: the client deletes itself.
SendData(n) ==
    /\ "Disconnect" \notin asked
    /\ calling = 0
    /\ Len(sent) < MaxSends
    /\ status = "CONNECTED"
    /\ sent' = Accept("control", n)
    /\ calling' = Len(sent')
    /\ UNCHANGED <<status, bev, bDone, gone, active, timer, net, asked, wire>>

\* event_active: the client may have lost its connection meanwhile.
ActivateSend ==
    /\ calling # 0
    /\ active' = Activate(active, SendEvent(calling, sent[calling].len))
    /\ calling' = 0
    /\ UNCHANGED <<status, bev, bDone, gone, timer, net, asked, sent, wire>>

----------------------------------------------------------------------------
(* libevent and the network *)

FireTimer(c) ==
    /\ timer[c] > 0
    /\ timer' = [timer EXCEPT ![c] = @ - 1]
    /\ active' = Activate(active, Event(c, 0))
    /\ UNCHANGED <<status, bev, bDone, gone, net, calling, asked, sent, wire>>

Reports(c, from, to, cb) ==
    /\ net[c] \in from
    /\ net' = [net EXCEPT ![c] = to]
    /\ active' = Activate(active, Event(cb, c))
    /\ UNCHANGED <<status, bev, bDone, gone, timer, calling, asked, sent, wire>>

Establish(c) == Reports(c, {"connecting"}, "up", "CONNECTED")

\* BEV_EVENT_EOF or BEV_EVENT_ERROR; no timeouts are set on a bufferevent.
Break(c) == Reports(c, {"connecting", "up"}, "broken", "EOF")

----------------------------------------------------------------------------
(* The callbacks, on the libevent thread *)

Runs(cb) == active # <<>> /\ Head(active).cb = cb

\* do_real_connect, the rest of the queue being q: a new socket, whose connect
\* may fail on the spot.
MayConnect == \E c \in Conn : net[c] = "unused"
NextConn   == CHOOSE c \in Conn : net[c] = "unused" /\ \A b \in 1 .. (c - 1) : net[b] # "unused"

\* Mutants of do_real_connect: one that fails on the spot is not tried again;
\* the reconnect is planned for a connect that succeeds, too.
RealConnectOnce ==
    /\ MayConnect
    /\ status' = "UNNKOW"
    /\ timer' = timer
    /\ \/ net' = [net EXCEPT ![NextConn] = "connecting"] /\ bev' = NextConn
       \/ net' = [net EXCEPT ![NextConn] = "closed"] /\ bev' = 0
RealConnectAgain ==
    /\ MayConnect
    /\ status' = "UNNKOW"
    /\ timer' = Pending("do_reconn_cb")
    /\ \/ net' = [net EXCEPT ![NextConn] = "connecting"] /\ bev' = NextConn
       \/ net' = [net EXCEPT ![NextConn] = "closed"] /\ bev' = 0

do_real_connect ==
    /\ MayConnect
    /\ status' = "UNNKOW"
    /\ \/ /\ net' = [net EXCEPT ![NextConn] = "connecting"]
          /\ bev' = NextConn
          /\ timer' = timer
       \/ /\ net' = [net EXCEPT ![NextConn] = "closed"]
          /\ bev' = 0
          /\ timer' = Pending("do_reconn_cb")

do_conn_cb ==
    /\ Runs("do_conn_cb")
    /\ IF status # "CONNECTED" THEN do_real_connect
                               ELSE UNCHANGED <<status, bev, timer, net>>
    /\ active' = Tail(active)
    /\ UNCHANGED <<bDone, gone, calling, asked, sent, wire>>

do_reconn_cb ==
    /\ Runs("do_reconn_cb")
    /\ do_real_connect
    /\ active' = Tail(active)
    /\ UNCHANGED <<bDone, gone, calling, asked, sent, wire>>

\* bufferevent_free: its callbacks, each activated at most once, are taken back.
Freed(q, c) == RemoveFirst(RemoveFirst(q, Event("CONNECTED", c)), Event("EOF", c))

\* Mutant of Lost: the status is left as it was.
LostUnnoticed(done) ==
    /\ status' = status
    /\ active' = Freed(Tail(active), bev)
    /\ net' = [c \in Conn |-> IF c = bev THEN "closed" ELSE net[c]]
    /\ bev' = 0
    /\ IF done THEN gone' = TRUE /\ timer' = timer
               ELSE gone' = gone /\ timer' = Pending("do_reconn_cb")

\* event_cb for an error: the bufferevent is freed; the client is deleted when
\* it was told to close and tries again in a few seconds otherwise.
Lost(done) ==
    /\ status' = "DISCONNECT"
    /\ active' = Freed(Tail(active), bev)
    /\ net' = [c \in Conn |-> IF c = bev THEN "closed" ELSE net[c]]
    /\ bev' = 0
    /\ IF done THEN gone' = TRUE /\ timer' = timer
               ELSE gone' = gone /\ timer' = Pending("do_reconn_cb")

Ignore == active' = Tail(active) /\ UNCHANGED <<status, bev, gone, timer, net>>

event_cb_EOF ==
    /\ Runs("EOF")
    /\ IF gone THEN Ignore ELSE Lost(bDone)
    /\ UNCHANGED <<bDone, calling, asked, sent, wire>>

\* The connect callback may send at once: RemoteConnectCB sends a heartbeat.
event_cb_CONNECTED ==
    /\ Runs("CONNECTED")
    /\ IF gone THEN active' = Tail(active) /\ UNCHANGED <<status, sent>>
       ELSE /\ status' = "CONNECTED"
            /\ \/ active' = Tail(active) /\ sent' = sent
               \/ \E n \in Size :
                    /\ Len(sent) < MaxSends
                    /\ sent' = Accept("loop", n)
                    /\ active' = Activate(Tail(active), SendEvent(Len(sent'), n))
    /\ UNCHANGED <<bev, bDone, gone, timer, net, calling, asked, wire>>

\* The client is looked up by its number; a live connection is closed as if it
\* had failed, in the same call.
do_close_cb ==
    /\ Runs("do_close_cb")
    /\ IF gone THEN Ignore /\ bDone' = bDone
       ELSE /\ bDone' = TRUE
            /\ IF bev # 0 THEN Lost(TRUE) ELSE Ignore
    /\ UNCHANGED <<calling, asked, sent, wire>>

\* Mutant of Written: the loop over chunks of 4096 bytes stops after the first.
WrittenOnce(n) == IF n > 4096 THEN 4096 ELSE n

\* The loop writes all it is told to, in chunks of at most 4096 bytes.
Written(n) == IF n > 0 THEN n ELSE 0

do_send_cb ==
    /\ Runs("do_send_cb")
    /\ LET e == Head(active)
           n == Written(e.len)
       IN  wire' = IF status = "CONNECTED" /\ n > 0
                     THEN [wire EXCEPT ![bev] = Append(@, [msg |-> e.msg, bytes |-> n])]
                     ELSE wire
    /\ active' = Tail(active)
    /\ UNCHANGED <<status, bev, bDone, gone, timer, net, calling, asked, sent>>

LoopStep == \/ do_conn_cb \/ do_reconn_cb \/ do_close_cb \/ do_send_cb
            \/ event_cb_EOF \/ event_cb_CONNECTED

Next ==
    \/ Connect \/ Disconnect \/ ActivateSend
    \/ \E n \in Size : SendData(n)
    \/ \E c \in Timed : FireTimer(c)
    \/ \E c \in Conn : Establish(c) \/ Break(c)
    \/ LoopStep

Spec == Init /\ [][Next]_vars

\* The libevent thread runs its loop and its timers, and a call of SendData
\* ends.  The network owes nothing.
FairSpec ==
    /\ Spec
    /\ WF_vars(LoopStep) /\ WF_vars(ActivateSend)
    /\ \A c \in Timed : WF_vars(FireTimer(c))

----------------------------------------------------------------------------
(* Properties *)

Message  == 1 .. Len(sent)
ShortInt == -32768 .. 32767
Callback == [cb : Timed \cup {"do_send_cb", "CONNECTED", "EOF"},
             conn : 0 .. MaxConns, msg : 0 .. MaxSends, len : ShortInt]

\* Every variable has a value of its type.
TypeOK ==
    /\ status \in {"UNNKOW", "DISCONNECT", "CONNECTED"}
    /\ bev \in 0 .. MaxConns
    /\ bDone \in BOOLEAN /\ gone \in BOOLEAN
    /\ active \in Seq(Callback)
    /\ timer \in [Timed -> Nat]
    /\ net \in [Conn -> {"unused", "connecting", "up", "broken", "closed"}]
    /\ calling \in 0 .. Len(sent)
    /\ asked \subseteq {"Connect", "Disconnect"}
    /\ sent \in Seq([by : Sender, len : Size, conn : 0 .. MaxConns])
    /\ wire \in [Conn -> Seq([msg : 1 .. MaxSends, bytes : Nat])]

Queued(cb) == {i \in 1 .. Len(active) : active[i].cb = cb}
Waits(cb)  == timer[cb] + Cardinality(Queued(cb))
Live       == {c \in Conn : net[c] \in {"connecting", "up", "broken"}}

\* Once Connect is called the client has exactly one future: a connection, or
\* one pending connect or reconnect.  It is never left without, never holds two
\* connections and leaks none, whatever the network and the callers do.  CONNECTED is
\* only believed of a connection that was established: no send that was accepted
\* writes to a null or half-open bufferevent, however late its callback.
OneLifeline ==
    /\ Live = IF bev = 0 THEN {} ELSE {bev}
    /\ status = "CONNECTED" /\ ~gone => bev # 0 /\ net[bev] \in {"up", "broken"}
    /\ "Connect" \in asked /\ ~gone =>
         Waits("do_conn_cb") + Waits("do_reconn_cb") + Cardinality(Live) = 1

\* The timers that keep a raw pointer to the client never outlive it: whenever
\* it deletes itself, by a late error or by a close, no connect and no reconnect
\* is pending.  (A do_send_cb may be: the README tells how.)
NoTimerOutlives ==
    gone => \A cb \in {"do_conn_cb", "do_reconn_cb"} : Waits(cb) = 0

Places(m) == UNION {{c} \X {k \in 1 .. Len(wire[c]) : wire[c][k].msg = m} : c \in Conn}

\* No message is written twice, and each sender's are written in the order it
\* sent them, over reconnects too.
SendOrder ==
    \A m, n \in Message : \A a \in Places(m), b \in Places(n) :
        /\ m = n => a = b
        /\ m < n /\ sent[m].by = sent[n].by =>
             a[1] < b[1] \/ (a[1] = b[1] /\ a[2] < b[2])

\* A message is written whole with its header of 4 bytes, or not at all.
WholeMessages ==
    \A c \in Conn : \A k \in 1 .. Len(wire[c]) :
        wire[c][k].bytes = sent[wire[c][k].msg].len + 4

\* A message that was accepted (and whose length a short int holds) is dropped
\* only together with the connection it was accepted on.
DroppedWithItsConnection ==
    \A m \in Message :
        \/ calling = m
        \/ \E i \in Queued("do_send_cb") : active[i].msg = m
        \/ Places(m) # {}
        \/ sent[m].len + 4 > 32767
        \/ sent[m].conn # 0 /\ net[sent[m].conn] = "closed"

\* The client never gives up: without a connection it attempts the next one, as
\* long as the bound of the model leaves one to attempt.
KeepsTrying ==
    ("Connect" \in asked /\ bev = 0 /\ ~gone) ~> (bev # 0 \/ gone \/ ~MayConnect)
=============================================================================
