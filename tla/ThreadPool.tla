----------------------------- MODULE ThreadPool -----------------------------
(***************************************************************************)
(* base/threadpool.h: a queue of tasks under a mutex, workers that wait on *)
(* a condition variable, and a destructor that joins them.  One thread     *)
(* owns the pool: it commits and, in the end, destroys it (eWebRequest is  *)
(* only called from the thread of the user interface).                     *)
(*                                                                         *)
(* wait(lock, pred) is what the standard says it is: test under the lock;  *)
(* give the lock up and sleep in one step; wake when notified or for no    *)
(* reason; take the lock and test again.  _run is atomic and is written    *)
(* without the lock.                                                       *)
(***************************************************************************)
EXTENDS Integers, Sequences, FiniteSets

CONSTANTS
    Worker,     \* the threads of the pool
    Nobody,     \* holds the mutex when it is free
    MaxTasks    \* bound: how many tasks are committed

ASSUME ThreadPoolAssumption ==
    /\ IsFiniteSet(Worker) /\ Nobody \notin Worker
    /\ MaxTasks \in Nat

VARIABLES
    run,        \* _run
    lock,       \* who holds _lock
    tasks,      \* _tasks: the numbers of the tasks that wait
    idle,       \* _idlThrNum
    pc,         \* per worker: where it is
    cur,        \* per worker: its task, 0 before the first
    owner,      \* where the thread that owns the pool is
    (* History, read by the properties only. *)
    committed,  \* how many tasks were committed
    taken,      \* the tasks in the order they were taken
    missed      \* the workers about to sleep when all sleepers were woken

vars == <<run, lock, tasks, idle, pc, cur, owner, committed, taken, missed>>

\* The constructor is through: it counts every worker that it starts.
Init ==
    /\ run = TRUE /\ lock = Nobody /\ tasks = <<>>
    /\ idle = Cardinality(Worker)
    /\ pc = [w \in Worker |-> "loop"] /\ cur = [w \in Worker |-> 0]
    /\ owner = "calls"
    /\ committed = 0 /\ taken = <<>> /\ missed = {}

----------------------------------------------------------------------------
(* The owner *)

\* Mutant: the newest task is the next.
QueuedNewest(i) == <<i>> \o tasks

Queued(i) == Append(tasks, i)

\* commit: the task is queued under the lock and one sleeper notified after it.
Commit ==
    /\ owner = "calls" /\ lock = Nobody
    /\ committed < MaxTasks
    /\ committed' = committed + 1
    /\ tasks' = Queued(committed')
    /\ owner' = "notifies"
    /\ UNCHANGED <<run, lock, idle, pc, cur, taken, missed>>

Asleep == {w \in Worker : pc[w] = "asleep"}

\* Mutant: nobody is notified.
WakeNobody == UNCHANGED pc

WakeOne ==
    IF Asleep = {} THEN UNCHANGED pc
                   ELSE \E w \in Asleep : pc' = [pc EXCEPT ![w] = "woken"]

NotifyOne ==
    /\ owner = "notifies"
    /\ WakeOne
    /\ owner' = "calls"
    /\ UNCHANGED <<run, lock, tasks, idle, cur, committed, taken, missed>>

\* The destructor
Stop ==
    /\ owner = "calls"
    /\ run' = FALSE
    /\ owner' = "stops"
    /\ UNCHANGED <<lock, tasks, idle, pc, cur, committed, taken, missed>>

NotifyAll ==
    /\ owner = "stops"
    /\ pc' = [w \in Worker |-> IF w \in Asleep THEN "woken" ELSE pc[w]]
    /\ missed' = {w \in Worker : pc[w] = "sleeps"}
    /\ owner' = "joins"
    /\ UNCHANGED <<run, lock, tasks, idle, cur, committed, taken>>

Join ==
    /\ owner = "joins"
    /\ \A w \in Worker : pc[w] = "ended"
    /\ owner' = "gone"
    /\ UNCHANGED <<run, lock, tasks, idle, pc, cur, committed, taken, missed>>

Owns == Commit \/ NotifyOne \/ Stop \/ NotifyAll \/ Join

----------------------------------------------------------------------------
(* A worker *)

Goto(w, l) == pc' = [pc EXCEPT ![w] = l]

Loop(w) ==
    /\ pc[w] = "loop"
    /\ Goto(w, IF run THEN "locks" ELSE "ended")
    /\ UNCHANGED <<run, lock, tasks, idle, cur, owner, committed, taken, missed>>

Lock(w) ==
    /\ pc[w] \in {"locks", "woken"}
    /\ lock = Nobody
    /\ lock' = w
    /\ Goto(w, "tests")
    /\ UNCHANGED <<run, tasks, idle, cur, owner, committed, taken, missed>>

\* Mutant: the predicate looks at the tasks alone.
WorkOnly == tasks # <<>>

WorkOrStop == ~run \/ tasks # <<>>

Test(w) ==
    /\ pc[w] = "tests"
    /\ Goto(w, IF WorkOrStop THEN "takes" ELSE "sleeps")
    /\ UNCHANGED <<run, lock, tasks, idle, cur, owner, committed, taken, missed>>

Sleep(w) ==
    /\ pc[w] = "sleeps"
    /\ lock' = Nobody
    /\ Goto(w, "asleep")
    /\ UNCHANGED <<run, tasks, idle, cur, owner, committed, taken, missed>>

\* The standard lets a sleeper wake without a notification.
WakeSpuriously(w) ==
    /\ pc[w] = "asleep"
    /\ Goto(w, "woken")
    /\ UNCHANGED <<run, lock, tasks, idle, cur, owner, committed, taken, missed>>

Take(w) ==
    /\ pc[w] = "takes"
    /\ lock' = Nobody
    /\ IF ~run /\ tasks = <<>>
         THEN /\ Goto(w, "ended")
              /\ UNCHANGED <<tasks, cur, taken>>
         ELSE /\ Goto(w, "has")
              /\ cur' = [cur EXCEPT ![w] = Head(tasks)]
              /\ taken' = Append(taken, Head(tasks))
              /\ tasks' = Tail(tasks)
    /\ UNCHANGED <<run, idle, owner, committed, missed>>

Begin(w) ==
    /\ pc[w] = "has"
    /\ idle' = idle - 1
    /\ Goto(w, "works")
    /\ UNCHANGED <<run, lock, tasks, cur, owner, committed, taken, missed>>

\* A task ends, by an exception too: packaged_task keeps it for the future.
Finish(w) ==
    /\ pc[w] = "works"
    /\ idle' = idle + 1
    /\ Goto(w, "loop")
    /\ UNCHANGED <<run, lock, tasks, cur, owner, committed, taken, missed>>

Step(w) == \/ Loop(w) \/ Lock(w) \/ Test(w) \/ Sleep(w)
           \/ Take(w) \/ Begin(w) \/ Finish(w)

Next == Owns \/ \E w \in Worker : Step(w) \/ WakeSpuriously(w)

Spec == Init /\ [][Next]_vars

\* Every thread is scheduled and gets the mutex in the end if it is free again and
\* again; every task ends; a call of commit or of the destructor goes on.  Nobody
\* is obliged to commit or to destroy.
FairSpec ==
    /\ Spec
    /\ WF_vars(NotifyOne) /\ WF_vars(NotifyAll) /\ WF_vars(Join)
    /\ \A w \in Worker : SF_vars(Step(w))

----------------------------------------------------------------------------
(* Properties *)

Places == {"loop", "locks", "tests", "sleeps", "asleep", "woken", "takes", "has",
           "works", "ended"}

\* Every variable has a value of its type; as many workers are idle as there are at
\* most, and never fewer than none.
TypeOK ==
    /\ run \in BOOLEAN
    /\ lock \in Worker \cup {Nobody}
    /\ tasks \in Seq(Nat)
    /\ idle \in 0 .. Cardinality(Worker)
    /\ pc \in [Worker -> Places]
    /\ cur \in [Worker -> Nat]
    /\ owner \in {"calls", "notifies", "stops", "joins", "gone"}
    /\ committed \in 0 .. MaxTasks
    /\ taken \in Seq(Nat)
    /\ missed \subseteq Worker

\* Between two workers no task is lost, taken twice or out of turn, and none is
\* taken from an empty queue: the tasks taken and those that wait are, in this
\* order, all that were committed.
TakenInOrder == taken \o tasks = [i \in 1 .. committed |-> i]

\* idlCount() counts the workers that are not at work, those included that have a
\* task and are about to begin it.
IdleCounted == idle = Cardinality({w \in Worker : pc[w] # "works"})

Ready == {w \in Worker : pc[w] \in {"loop", "locks", "woken", "tests", "takes"}}

\* No commit's notification is lost: while a worker sleeps there is a worker ready
\* for each task that waits, not counting the task that is about to be notified.
NobodySleepsOnWork ==
    run /\ Asleep # {} =>
        Len(tasks) <= Cardinality(Ready) + (IF owner = "notifies" THEN 1 ELSE 0)

\* Every task committed is taken unless the pool is destroyed first (the tasks that
\* wait then never run).
EveryTaskTaken ==
    \A i \in 1 .. MaxTasks : (committed >= i) ~> (Len(taken) >= i \/ ~run)

\* The destructor comes to its end unless a worker had tested _run before it was
\* cleared and was not asleep when all sleepers were woken: that worker sleeps on
\* and is joined for ever.
StopEnds == (owner = "stops") ~> (owner = "gone" \/ missed # {})

\* What the destructor's comments promise: notify_all wakes all threads and join
\* waits for them, as each is sure to come to its end.
DestructorEnds == (owner = "stops") ~> (owner = "gone")
=============================================================================
