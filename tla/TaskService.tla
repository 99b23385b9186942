---------------------------- MODULE TaskService ----------------------------
(***************************************************************************)
(* What a worker thread promises to the threads that post to it: tasks are *)
(* served in the order of their posts, one service per post; a timer fires *)
(* only after its due tick, one at a time, and comes back `interval' ticks *)
(* after the moment it fired as often as it was asked to.                  *)
(***************************************************************************)
EXTENDS Integers, Sequences

CONSTANTS Id, MaxTick

VARIABLES
    now,     \* the time
    fifo,    \* the posts that wait, oldest first
    timers   \* the timers that wait

vars == <<now, fifo, timers>>

Timer == [id : Id, due : Nat, times : Nat \cup {-1}, interval : Nat]

Init == now = 0 /\ fifo = <<>> /\ timers = {}

Advance ==
    /\ now < MaxTick
    /\ now' = now + 1
    /\ UNCHANGED <<fifo, timers>>

PostTask(i) ==
    /\ fifo' = Append(fifo, i)
    /\ UNCHANGED <<now, timers>>

\* A timer is told from the others by its post.
PostTimer ==
    /\ UNCHANGED <<now, fifo>>
    /\ \E t \in timers' \ timers :
        /\ t \in Timer
        /\ \A u \in timers : u.id # t.id
        /\ timers' = timers \cup {t}

Serve ==
    /\ fifo # <<>>
    /\ fifo' = Tail(fifo)
    /\ UNCHANGED <<now, timers>>

\* What is left of a timer that fired at tick n
Rest(t, n) ==
    LET again == [t EXCEPT !.due = n + t.interval,
                           !.times = IF t.times = -1 THEN -1 ELSE t.times - 1]
    IN  IF t.times = -1 \/ t.times > 1 THEN {again} ELSE {}

Fire(t) ==
    /\ \E n \in (t.due + 1) .. now : timers' = (timers \ {t}) \cup Rest(t, n)
    /\ UNCHANGED <<now, fifo>>

Next ==
    \/ Advance
    \/ \E i \in Id : PostTask(i)
    \/ PostTimer
    \/ Serve
    \/ \E t \in timers : Fire(t)

Spec == Init /\ [][Next]_vars
=============================================================================
