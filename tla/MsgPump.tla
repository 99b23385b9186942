------------------------------ MODULE MsgPump ------------------------------
(***************************************************************************)
(* The message pump every worker thread of the program runs: TaskQueue and *)
(* Thread of base/thread/thread.h and the ThreadManager front door through *)
(* which every other thread posts closures to it.                          *)
(*                                                                         *)
(* A step is what one critical section of TaskQueue::_queue_mutex does, or *)
(* one read of the clock, so a producer may act between any two of them.   *)
(* A post of a timer is two steps: the due tick is computed first and the  *)
(* task is pushed later, possibly after other threads and ticks.           *)
(***************************************************************************)
EXTENDS Integers, FiniteSets

CONSTANTS
    Producer,    \* the threads that post to this pump
    Pump,        \* the pump's own thread: a closure it runs may post too
    Owner,       \* the objects whose weak flag a closure carries
    Destroyer,   \* the threads that may destroy an owner
    Delay,       \* the delays, in milliseconds, that callers pass
    Times,       \* the repeat counts that callers pass; -1 is for ever
    MaxPosts,    \* bound: how many posts are accepted
    MaxTick      \* bound: the last value of the clock

Poster == Producer \cup {Pump}

ASSUME PumpAssumption ==
    /\ Pump \notin Producer
    /\ Owner # {}
    /\ Destroyer \subseteq Poster
    /\ Delay \subseteq Nat
    /\ Times \subseteq Nat \cup {-1}
    /\ MaxPosts \in Nat
    /\ MaxTick \in Nat

VARIABLES
    registered,  \* the pump's thread is in ThreadManager::_threads
    clock,       \* what getNowTickMs() returns
    tq,          \* _task_queue
    dq,          \* _delayed_task_queue
    done,        \* _done
    pc,          \* where RunMsgPump is
    nowTick,     \* its local now_tick
    cur,         \* its local task: the one it took last
    ticket,      \* per poster: the timer whose due tick is computed, not yet pushed
    alive,       \* the owners that exist
    (* History, read by the properties only. *)
    posts,       \* per accepted post: who posted, what, with which delay and count
    accepted,    \* how many posts were accepted
    drained,     \* how many tasks left _task_queue
    served,      \* per post: how often the pump ran (or skipped) it
    round        \* the timers run since now_tick was last read

queues  == <<tq, dq>>
history == <<posts, accepted, drained, served, round>>
vars == <<registered, clock, queues, done, pc, nowTick, cur, ticket, alive, history>>

----------------------------------------------------------------------------
Id == 1 .. MaxPosts
NoPost == [kind |-> "none"]
Idle   == [due |-> -1]

Max1(n) == IF n >= 1 THEN n ELSE 1

\* Mutants of Before: the newest of two equals first; std::priority_queue's own order.
BeforeNewest(t, u) == \/ t.tick < u.tick
                      \/ t.tick = u.tick /\ t.seq > u.seq
BeforeLatest(t, u) == \/ t.tick > u.tick
                      \/ t.tick = u.tick /\ t.seq > u.seq

\* PendingTask::operator<, read as the heap does: t leaves the queue before u
Before(t, u) == \/ t.tick < u.tick
                \/ t.tick = u.tick /\ t.seq < u.seq

IsTop(t, q) == t \in q.tasks /\ \A u \in q.tasks \ {t} : Before(t, u)

\* pushTask: the sequence number is given under the lock
Push(q, t) == [tasks |-> q.tasks \cup {[t EXCEPT !.seq = q.next]}, next |-> q.next + 1]

Remove(q, t) == [q EXCEPT !.tasks = @ \ {t}]

EmptyQueue == [tasks |-> {}, next |-> 0]

NewTask(i, k, o, tick, n, iv) ==
    [id |-> i, kind |-> k, owner |-> o, seq |-> 0,
     tick |-> tick, times |-> n, interval |-> iv]

NoTask == NewTask(0, "none", CHOOSE o \in Owner : TRUE, 0, 1, 0)

Init ==
    /\ registered = FALSE
    /\ clock = 0
    /\ tq = EmptyQueue /\ dq = EmptyQueue
    /\ done = FALSE
    /\ pc = "new" /\ nowTick = 0 /\ cur = NoTask
    /\ ticket = [p \in Poster |-> Idle]
    /\ alive = Owner
    /\ posts = [i \in Id |-> NoPost] /\ accepted = 0 /\ drained = 0
    /\ served = [i \in Id |-> 0] /\ round = {}

----------------------------------------------------------------------------
(* Posting.  ThreadManager finds the thread by its identifier and refuses *)
(* the post (returning false, changing nothing) when it is not registered. *)

RegisterThread ==
    /\ ~registered
    /\ registered' = TRUE
    /\ UNCHANGED <<clock, queues, done, pc, nowTick, cur, ticket, alive, history>>

\* A producer posts when it likes; the pump's thread only inside a closure.
\* The bound keeps a place for every timer whose push is still to come.
MayPost(p) ==
    /\ accepted + Cardinality({q \in Poster : ticket[q] # Idle}) < MaxPosts
    /\ registered
    /\ ticket[p] = Idle
    /\ p = Pump => pc = "call"

Accept(p, k, d, n) ==
    /\ accepted < MaxPosts
    /\ accepted' = accepted + 1
    /\ posts' = [posts EXCEPT ![accepted + 1] =
                    [kind |-> k, by |-> p, delay |-> d, times |-> n]]

PostTask(p, o) ==
    /\ MayPost(p)
    /\ o \in alive
    /\ Accept(p, "task", 0, 1)
    /\ tq' = Push(tq, NewTask(accepted + 1, "task", o, 0, 1, 0))
    /\ UNCHANGED <<registered, clock, dq, done, pc, nowTick, cur, ticket, alive,
                   drained, served, round>>

\* SubmitDelayTask and SubmitRepeatedTask up to the push
ComputeDue(p, o, d, n, iv) ==
    /\ MayPost(p)
    /\ o \in alive
    /\ ticket' = [ticket EXCEPT ![p] = [due |-> clock + d, owner |-> o, delay |-> d,
                                        times |-> n, interval |-> iv]]
    /\ UNCHANGED <<registered, clock, queues, done, pc, nowTick, cur, alive, history>>

PostDelayedTask(p, o, d)     == ComputeDue(p, o, d, 1, 0)
PostRepeatedTask(p, o, d, n) == ComputeDue(p, o, d, n, d)

PushTimer(p) ==
    /\ ticket[p] # Idle
    /\ Accept(p, "timer", ticket[p].delay, ticket[p].times)
    /\ dq' = Push(dq, NewTask(accepted + 1, "timer", ticket[p].owner, ticket[p].due,
                              ticket[p].times, ticket[p].interval))
    /\ ticket' = [ticket EXCEPT ![p] = Idle]
    /\ UNCHANGED <<registered, clock, tq, done, pc, nowTick, cur, alive,
                   drained, served, round>>

\* The destructor of an object that hands out weak flags
Destroy(p, o) ==
    /\ p \in Destroyer
    /\ p = Pump => pc = "call"
    /\ o \in alive
    /\ alive' = alive \ {o}
    /\ UNCHANGED <<registered, clock, queues, done, pc, nowTick, cur, ticket, history>>

----------------------------------------------------------------------------
(* RunMsgPump *)

Goto(l) == pc' = l

\* while(!_done): only the pump's own thread sets _done
Again == IF done THEN "gone" ELSE "drain"

Start ==
    /\ pc = "new"
    /\ Goto(Again)
    /\ UNCHANGED <<registered, clock, queues, done, nowTick, cur, ticket, alive, history>>

TakeTask ==
    /\ pc = "drain"
    /\ \E t \in tq.tasks :
        /\ IsTop(t, tq)
        /\ cur' = t
        /\ tq' = Remove(tq, t)
    /\ drained' = drained + 1
    /\ Goto("run")
    /\ UNCHANGED <<registered, clock, dq, done, nowTick, ticket, alive,
                   posts, accepted, served, round>>

\* No task left: the round's clock is read once, for all of its timers.
ReadClock ==
    /\ pc = "drain"
    /\ tq.tasks = {}
    /\ nowTick' = clock
    /\ Goto("check")
    /\ UNCHANGED <<registered, clock, queues, done, cur, ticket, alive, history>>

\* Mutant of Due: a task is due in the very tick it asked for.
DueAtOnce(t) == nowTick >= t.tick

Due(t) == nowTick > t.tick

\* checkTopTask: the lock is given up before the task is taken.
CheckTimer ==
    /\ pc = "check"
    /\ Goto(IF \E t \in dq.tasks : IsTop(t, dq) /\ Due(t) THEN "take" ELSE "wait")
    /\ UNCHANGED <<registered, clock, queues, done, nowTick, cur, ticket, alive, history>>

\* getTask: whatever is at the top by now
TakeTimer ==
    /\ pc = "take"
    /\ \E t \in dq.tasks :
        /\ IsTop(t, dq)
        /\ cur' = t
        /\ dq' = Remove(dq, t)
    /\ Goto("run")
    /\ UNCHANGED <<registered, clock, tq, done, nowTick, ticket, alive, history>>

\* Mutants: one run too many; the countdown forgotten.
RepeatsOnceMore(t) == t.times = -1 \/ t.times > 0
RearmedUncounted(t) == [t EXCEPT !.tick = nowTick + t.interval]

\* What becomes of a timer that ran: _times counts down unless it is -1.
Repeats(t) == t.times = -1 \/ t.times - 1 > 0
Rearmed(t) == [t EXCEPT !.tick = nowTick + t.interval,
                        !.times = IF @ = -1 THEN -1 ELSE @ - 1]

\* The rest of the loop's body once the closure is done with
Finish ==
    /\ IF cur.kind = "task"
         THEN /\ Goto("drain")
              /\ UNCHANGED <<dq, round>>
         ELSE /\ Goto("check")
              /\ dq' = IF Repeats(cur) THEN Push(dq, Rearmed(cur)) ELSE dq
              /\ round' = round \cup {cur.id}
    /\ cur' = NoTask

Serve == served' = [served EXCEPT ![cur.id] = @ + 1]

\* PendingTask::Run tests the weak flag first: a dead owner's closure is dropped.
Skip ==
    /\ pc = "run"
    /\ cur.owner \notin alive
    /\ Serve
    /\ Finish
    /\ UNCHANGED <<registered, clock, tq, done, nowTick, ticket, alive,
                   posts, accepted, drained>>

Test ==
    /\ pc = "run"
    /\ cur.owner \in alive
    /\ Goto("enter")
    /\ UNCHANGED <<registered, clock, queues, done, nowTick, cur, ticket, alive, history>>

\* The flag is not held: what it said may be past when the closure is entered.
Enter ==
    /\ pc = "enter"
    /\ Serve
    /\ Goto("call")
    /\ UNCHANGED <<registered, clock, queues, done, nowTick, cur, ticket, alive,
                   posts, accepted, drained, round>>

RequestStop ==
    /\ pc = "call"
    /\ ~done
    /\ done' = TRUE
    /\ UNCHANGED <<registered, clock, queues, pc, nowTick, cur, ticket, alive, history>>

Return ==
    /\ pc = "call"
    /\ ticket[Pump] = Idle
    /\ Finish
    /\ UNCHANGED <<registered, clock, tq, done, nowTick, ticket, alive,
                   posts, accepted, drained, served>>

\* wait_for 5 ms: nobody notifies, so the pump polls.  The round's locals die.
Wait ==
    /\ pc = "wait"
    /\ Goto(Again)
    /\ nowTick' = 0
    /\ round' = {}
    /\ UNCHANGED <<registered, clock, queues, done, cur, ticket, alive,
                   posts, accepted, drained, served>>

PumpStep == \/ TakeTask \/ ReadClock \/ CheckTimer \/ TakeTimer
            \/ Skip \/ Test \/ Enter \/ Return \/ Wait

Tick ==
    /\ clock < MaxTick
    /\ clock' = clock + 1
    /\ UNCHANGED <<registered, queues, done, pc, nowTick, cur, ticket, alive, history>>

Post(p) == \E o \in Owner :
    \/ PostTask(p, o)
    \/ \E d \in Delay : \/ PostDelayedTask(p, o, d)
                        \/ \E n \in Times : PostRepeatedTask(p, o, d, n)

Next ==
    \/ RegisterThread
    \/ \E p \in Poster : Post(p) \/ PushTimer(p) \/ \E o \in Owner : Destroy(p, o)
    \/ Start
    \/ PumpStep
    \/ RequestStop
    \/ Tick

Spec == Init /\ [][Next]_vars

\* Time passes, the pump's thread is scheduled once it is started, and a
\* thread inside a post finishes it.  Nobody is obliged to post or to start.
Fairness ==
    /\ WF_vars(Tick)
    /\ WF_vars(PumpStep)
    /\ \A p \in Poster : WF_vars(PushTimer(p))

FairSpec == Spec /\ Fairness

----------------------------------------------------------------------------
(* Properties *)

Task == [id : 0 .. MaxPosts, kind : {"none", "task", "timer"}, owner : Owner,
         seq : Nat, tick : Nat, times : Nat \cup {-1}, interval : Nat]

Ticket == {Idle} \cup [due : Nat, owner : Owner, delay : Delay,
                       times : Nat \cup {-1}, interval : Nat]

Record == {NoPost} \cup [kind : {"task", "timer"}, by : Poster, delay : Nat,
                         times : Nat \cup {-1}]

Queue == [tasks : SUBSET Task, next : Nat]

\* Every variable has a value of its type.
TypeOK ==
    /\ registered \in BOOLEAN
    /\ clock \in 0 .. MaxTick
    /\ tq \in Queue /\ dq \in Queue
    /\ done \in BOOLEAN
    /\ pc \in {"new", "drain", "check", "take", "run", "enter", "call", "wait", "gone"}
    /\ nowTick \in 0 .. MaxTick
    /\ cur \in Task
    /\ ticket \in [Poster -> Ticket]
    /\ alive \in SUBSET Owner
    /\ posts \in [Id -> Record]
    /\ accepted \in 0 .. MaxPosts
    /\ drained \in Nat
    /\ served \in [Id -> Nat]
    /\ round \in SUBSET (0 .. MaxPosts)

InHand == pc \in {"run", "enter", "call"}

\* PostTask is a FIFO with no loss and no repetition: the sequence numbers in
\* _task_queue are exactly those from the number of tasks taken to the next to
\* be given, and the task in hand is the one taken last.
ImmediateFIFO ==
    /\ {t.seq : t \in tq.tasks} = drained .. (tq.next - 1)
    /\ \A t, u \in tq.tasks : t.seq = u.seq => t = u
    /\ InHand /\ cur.kind = "task" => cur.seq = drained - 1

\* A timer never runs early, although the task taken need not be the one that
\* was found due: between checkTopTask and getTask any producer may push a task
\* whose due tick it computed long ago.
NeverEarly == InHand /\ cur.kind = "timer" => cur.tick < nowTick /\ nowTick <= clock

\* Timers one thread posts come due in the order of its posts when the later
\* one waits at least as long: then the later is not served before the earlier.
PosterOrder ==
    \A i, j \in 1 .. accepted :
        /\ i < j /\ posts[i].kind = "timer" /\ posts[j].kind = "timer"
        /\ posts[i].by = posts[j].by /\ posts[i].delay <= posts[j].delay
        /\ served[j] > 0
        => served[i] > 0

\* A timer is neither lost nor doubled: while it has runs to come it is in
\* _delayed_task_queue exactly once or in the pump's hand, and afterwards gone.
\* (A count of 0 still runs once.)
TimerConservation ==
    \A i \in 1 .. accepted : posts[i].kind = "timer" =>
        LET copies == {t \in dq.tasks : t.id = i}
            inHand == InHand /\ cur.id = i
            toCome == posts[i].times = -1 \/ served[i] < Max1(posts[i].times)
        IN  /\ copies # {} <=> (toCome /\ ~inHand)
            /\ \A t, u \in copies : t = u

\* Zero-interval timers do not keep the pump in its timer loop: no timer runs
\* twice in one round.
OncePerRound == InHand /\ cur.kind = "timer" => cur.id \notin round

\* Every task accepted is served and every timer that comes due within the
\* bound of the clock is, unless the pump was never started or is told to stop.
EveryPostServed ==
    \A i \in Id :
        (/\ pc # "new" /\ i <= accepted
         /\ posts[i].kind = "task" \/ \E t \in dq.tasks : t.id = i /\ t.tick < MaxTick)
        ~> (served[i] > 0 \/ done)

\* The pump implements the service it promises.
Waiting(k) == CHOOSE t \in tq.tasks : t.seq = drained + k - 1

Service == INSTANCE TaskService WITH
    now    <- clock,
    fifo   <- [k \in 1 .. (tq.next - drained) |-> Waiting(k).id],
    timers <- {[id |-> t.id, due |-> t.tick, times |-> t.times, interval |-> t.interval] :
                 t \in dq.tasks \cup (IF InHand /\ cur.kind = "timer" THEN {cur} ELSE {})}

RefinesTaskService == Service!Spec
=============================================================================
