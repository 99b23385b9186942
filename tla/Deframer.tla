------------------------------ MODULE Deframer ------------------------------
(***************************************************************************)
(* eControlTrans::RecvData cuts the byte stream of the command connection  *)
(* back into the packages the server sent: four bytes of length, then as   *)
(* many bytes.  Each chunk that libevent reads is one task of the control  *)
(* thread's FIFO, so chunks arrive in order; their sizes are TCP's.        *)
(*                                                                         *)
(* A byte stands for its place in the stream of its connection.  One pass  *)
(* of RecvData's loop is one action.                                       *)
(***************************************************************************)
EXTENDS Integers, Sequences, FiniteSets

CONSTANTS
    Payload,       \* the lengths of the packages the server sends on a connection
    MaxChunk,      \* the largest chunk
    Garbage,       \* the values four bytes that are no header may have
    MaxConns       \* bound: how many connections are made

ASSUME DeframerAssumption ==
    /\ Payload \in Seq(Nat)
    /\ MaxChunk \in Nat \ {0}
    /\ Garbage \subseteq Nat /\ Garbage # {}
    /\ MaxConns \in Nat \ {0}

VARIABLES
    pos,      \* how many bytes of the connection's stream were received
    data,     \* what RecvData still holds of its chunk
    len,      \* _len
    remain,   \* _remain
    head,     \* _head_size
    package,  \* _package
    routed,   \* the packages given to RouteCmd on this connection
    overrun,  \* RecvData read past the end of its chunk
    conns,    \* how many connections were made
    cut       \* a connection was lost inside a package

decoder == <<len, remain, head, package>>
vars == <<pos, data, decoder, routed, overrun, conns, cut>>

HEAD_SIZE == 4

\* The stream: package f occupies the bytes after Start[f], its header first.
Start[f \in 1 .. (Len(Payload) + 1)] ==
    IF f = 1 THEN 0 ELSE Start[f - 1] + HEAD_SIZE + Payload[f - 1]

Bytes(from, n) == [i \in 1 .. n |-> from + i]

First(s, n) == SubSeq(s, 1, n)
Rest(s, n)  == SubSeq(s, n + 1, Len(s))

\* memcpy and ntohl: the length, if the four bytes are a header of the stream
Value(h) ==
    LET own == {f \in 1 .. Len(Payload) : h = Bytes(Start[f], HEAD_SIZE)}
    IN  IF own = {} THEN Garbage ELSE {Payload[f] : f \in own}

Init ==
    /\ pos = 0 /\ data = <<>>
    /\ len = 0 /\ remain = 0 /\ head = <<>> /\ package = <<>>
    /\ routed = <<>> /\ overrun = FALSE
    /\ conns = 1 /\ cut = FALSE

\* recvRemoteDataCB: the next chunk, once the pump is done with the last
Arrive(n) ==
    /\ data = <<>> /\ ~overrun
    /\ pos + n <= Start[Len(Payload) + 1]
    /\ data' = Bytes(pos, n)
    /\ pos' = pos + n
    /\ UNCHANGED <<decoder, routed, overrun, conns, cut>>

\* RemoteConnectCB of the next connection: the decoder is left as it is.
Reconnect ==
    /\ data = <<>> /\ ~overrun
    /\ conns < MaxConns
    /\ conns' = conns + 1
    /\ cut' = (cut \/ len # 0 \/ head # <<>>)
    /\ pos' = 0 /\ routed' = <<>>
    /\ UNCHANGED <<data, decoder, overrun>>

----------------------------------------------------------------------------
(* The passes of the loop, while there is data *)

InLoop == data # <<>> /\ ~overrun

\* Mutant of Take: a package that ends with its chunk waits for the next one.
TakeMore(p, v, d) ==
    IF Len(d) > v
      THEN /\ routed' = Append(routed, p \o First(d, v))
           /\ data' = Rest(d, v)
           /\ len' = 0 /\ remain' = 0 /\ package' = <<>>
      ELSE /\ package' = p \o d
           /\ remain' = v - Len(d)
           /\ len' = Len(p) + v
           /\ data' = <<>> /\ routed' = routed

\* The bytes p of a package are at hand, v are missing, and d follows.
Take(p, v, d) ==
    IF Len(d) >= v
      THEN /\ routed' = Append(routed, p \o First(d, v))
           /\ data' = Rest(d, v)
           /\ len' = 0 /\ remain' = 0 /\ package' = <<>>
      ELSE /\ package' = p \o d
           /\ remain' = v - Len(d)
           /\ len' = Len(p) + v
           /\ data' = <<>> /\ routed' = routed

\* Mutant of Incomplete: four bytes are kept as if they were fewer.
IncompleteAtFour(d) == Len(d) <= HEAD_SIZE

Incomplete(d) == Len(d) < HEAD_SIZE

\* The rest of a header that came in two chunks
FinishHead ==
    LET r == HEAD_SIZE - Len(head)
    IN  /\ InLoop /\ len = 0 /\ head # <<>> /\ Len(data) >= r
        /\ \E v \in Value(head \o First(data, r)) : Take(<<>>, v, Rest(data, r))
        /\ head' = <<>>
        /\ UNCHANGED <<pos, overrun, conns, cut>>

\* The rest is taken without looking how much there is: what follows the read
\* past the chunk's end is undefined, and no step is taken from it.
Overrun ==
    /\ InLoop /\ len = 0 /\ head # <<>> /\ Len(data) < HEAD_SIZE - Len(head)
    /\ overrun' = TRUE
    /\ UNCHANGED <<pos, data, decoder, routed, conns, cut>>

StartHead ==
    /\ InLoop /\ len = 0 /\ head = <<>> /\ Incomplete(data)
    /\ head' = data
    /\ data' = <<>>
    /\ UNCHANGED <<pos, len, remain, package, routed, overrun, conns, cut>>

ReadHead ==
    /\ InLoop /\ len = 0 /\ head = <<>> /\ ~Incomplete(data)
    /\ \E v \in Value(First(data, HEAD_SIZE)) : Take(<<>>, v, Rest(data, HEAD_SIZE))
    /\ UNCHANGED <<pos, head, overrun, conns, cut>>

Continue ==
    /\ InLoop /\ len # 0
    /\ Take(package, remain, data)
    /\ UNCHANGED <<pos, head, overrun, conns, cut>>

Next ==
    \/ \E n \in 1 .. MaxChunk : Arrive(n)
    \/ Reconnect
    \/ FinishHead \/ Overrun \/ StartHead \/ ReadHead \/ Continue

Spec == Init /\ [][Next]_vars

----------------------------------------------------------------------------
(* Properties *)

Byte == 1 .. Start[Len(Payload) + 1]

\* Every variable has a value of its type; a header is kept between chunks only
\* as long as it is incomplete.
TypeOK ==
    /\ pos \in Nat
    /\ data \in Seq(Byte) /\ package \in Seq(Byte)
    /\ head \in Seq(Byte) /\ Len(head) < HEAD_SIZE
    /\ len \in Nat /\ remain \in Nat
    /\ routed \in Seq(Seq(Byte))
    /\ overrun \in BOOLEAN /\ cut \in BOOLEAN
    /\ conns \in 1 .. MaxConns

Complete == {f \in 1 .. Len(Payload) : Start[f + 1] <= pos}

\* However the stream is cut into chunks, after each of them exactly the packages
\* received whole were routed, byte for byte, in order, none held back; unless a
\* connection was lost inside a package (the decoder does not start afresh) or
\* RecvData read past its chunk.
RoutedExactly ==
    data = <<>> /\ ~cut =>
        routed = [f \in 1 .. Cardinality(Complete) |-> Bytes(Start[f] + HEAD_SIZE, Payload[f])]

\* A header may come in pieces: `_head_size' is there to guard against incomplete
\* headers.
HeaderSafe == ~overrun
=============================================================================
