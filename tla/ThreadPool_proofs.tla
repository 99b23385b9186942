-------------------------- MODULE ThreadPool_proofs --------------------------
(***************************************************************************)
(* Theorems about ThreadPool, for every finite set of workers and every    *)
(* number of tasks.                                                        *)
(***************************************************************************)
EXTENDS ThreadPool, FiniteSetTheorems, SequenceTheorems, TLAPS

USE ThreadPoolAssumption

AtRest == {w \in Worker : pc[w] # "works"}
Inside == {"tests", "sleeps", "takes"}

\* TypeOK but for the bounds of idle, which IdleCounted gives.
Typed ==
    /\ run \in BOOLEAN
    /\ lock \in Worker \cup {Nobody}
    /\ tasks \in Seq(Nat)
    /\ idle \in Int
    /\ pc \in [Worker -> Places]
    /\ cur \in [Worker -> Nat]
    /\ owner \in {"calls", "notifies", "stops", "joins", "gone"}
    /\ committed \in 0 .. MaxTasks
    /\ taken \in Seq(Nat)
    /\ missed \subseteq Worker

\* The mutex is held exactly by the worker between Lock and Sleep or Take, and what
\* it saw of the queue stays true while it does; the pool runs until its owner
\* begins to destroy it.
LockInv ==
    /\ \A w \in Worker : pc[w] \in Inside <=> lock = w
    /\ \A w \in Worker : pc[w] = "sleeps" /\ run => tasks = <<>>
    /\ \A w \in Worker : pc[w] = "takes" /\ run => tasks # <<>>
    /\ run <=> owner \in {"calls", "notifies"}

PoolInv == Typed /\ LockInv

----------------------------------------------------------------------------
(* The types, and the mutex *)

LEMMA InitPoolInv == Init => PoolInv
  <1>1. Cardinality(Worker) \in Int
    BY FS_CardinalityType
  <1>. QED  BY <1>1 DEF Init, PoolInv, Typed, LockInv, Places, Inside

LEMMA OwnsKeepsPool == ASSUME PoolInv, Owns PROVE PoolInv'
  <1>. USE DEF PoolInv, Typed, LockInv
  <1>1. CASE Commit
    <2>1. tasks' \in Seq(Nat) /\ tasks' # <<>> /\ committed' \in 0 .. MaxTasks
      BY <1>1 DEF Commit, Queued
    <2>2. \A w \in Worker : pc[w] \notin Inside
      BY <1>1 DEF Commit
    <2>. QED  BY <1>1, <2>1, <2>2 DEF Commit, Inside
  <1>2. CASE NotifyOne
    <2>1. CASE Asleep = {}
      BY <1>2, <2>1 DEF NotifyOne, WakeOne
    <2>2. ASSUME NEW w \in Asleep, pc' = [pc EXCEPT ![w] = "woken"]
          PROVE  PoolInv'
      BY <1>2, <2>2 DEF NotifyOne, Asleep, Places, Inside
    <2>. QED  BY <1>2, <2>1, <2>2 DEF NotifyOne, WakeOne
  <1>3. CASE Stop
    BY <1>3 DEF Stop
  <1>4. CASE NotifyAll
    <2>1. pc' \in [Worker -> Places]
      BY <1>4 DEF NotifyAll, Places
    <2>2. \A w \in Worker : /\ pc'[w] \in Inside <=> pc[w] \in Inside
                            /\ pc'[w] \in Inside => pc'[w] = pc[w]
      BY <1>4 DEF NotifyAll, Asleep, Inside
    <2>3. missed' \subseteq Worker
      BY <1>4 DEF NotifyAll
    <2>. QED  BY <1>4, <2>1, <2>2, <2>3 DEF NotifyAll, Inside
  <1>5. CASE Join
    BY <1>5 DEF Join
  <1>. QED  BY <1>1, <1>2, <1>3, <1>4, <1>5 DEF Owns

LEMMA StepKeepsPool ==
    ASSUME PoolInv, NEW w \in Worker, Step(w) \/ WakeSpuriously(w)
    PROVE  PoolInv'
  <1>. USE DEF PoolInv, Typed, LockInv, Goto
  <1>1. CASE Loop(w)
    BY <1>1 DEF Loop, Places, Inside
  <1>2. CASE Lock(w)
    BY <1>2 DEF Lock, Places, Inside
  <1>3. CASE Test(w)
    BY <1>3 DEF Test, WorkOrStop, Places, Inside
  <1>4. CASE Sleep(w)
    BY <1>4 DEF Sleep, Places, Inside
  <1>5. CASE Take(w)
    <2>1. \A v \in Worker \ {w} : pc[v] \notin Inside
      BY <1>5 DEF Take, Inside
    <2>2. CASE ~run /\ tasks = <<>>
      BY <1>5, <2>1, <2>2 DEF Take, Places, Inside
    <2>3. CASE ~(~run /\ tasks = <<>>)
      <3>1. tasks # <<>> /\ Head(tasks) \in Nat /\ Tail(tasks) \in Seq(Nat)
        BY <1>5, <2>3 DEF Take
      <3>2. /\ pc' = [pc EXCEPT ![w] = "has"] /\ cur' = [cur EXCEPT ![w] = Head(tasks)]
            /\ taken' = Append(taken, Head(tasks)) /\ tasks' = Tail(tasks)
            /\ lock' = Nobody /\ UNCHANGED <<run, idle, owner, committed, missed>>
        BY <1>5, <2>3 DEF Take
      <3>3. Typed'
        BY <3>1, <3>2 DEF Places
      <3>4. \A v \in Worker : pc'[v] \notin Inside
        BY <2>1, <3>2 DEF Inside
      <3>. QED  BY <3>2, <3>3, <3>4 DEF Inside
    <2>. QED  BY <2>2, <2>3
  <1>6. CASE Begin(w)
    BY <1>6 DEF Begin, Places, Inside
  <1>7. CASE Finish(w)
    BY <1>7 DEF Finish, Places, Inside
  <1>8. CASE WakeSpuriously(w)
    BY <1>8 DEF WakeSpuriously, Places, Inside
  <1>. QED  BY <1>1, <1>2, <1>3, <1>4, <1>5, <1>6, <1>7, <1>8 DEF Step

LEMMA NextKeepsPool == ASSUME PoolInv, [Next]_vars PROVE PoolInv'
  <1>1. CASE UNCHANGED vars
    BY <1>1 DEF vars, PoolInv, Typed, LockInv
  <1>. QED  BY <1>1, OwnsKeepsPool, StepKeepsPool DEF Next

LEMMA PoolInvariant == Spec => []PoolInv
  BY InitPoolInv, NextKeepsPool, PTL DEF Spec

----------------------------------------------------------------------------
(* The order of the tasks *)

\* Moving the head of one sequence to the end of another leaves the two in a row as they were.
LEMMA HeadMoves ==
    ASSUME NEW s \in Seq(Nat), NEW t \in Seq(Nat), t # <<>>
    PROVE  Append(s, Head(t)) \o Tail(t) = s \o t
  <1>1. Head(t) \in Nat /\ Tail(t) \in Seq(Nat) /\ <<Head(t)>> \in Seq(Nat)
    BY HeadTailProperties
  <1>2. Append(s, Head(t)) = s \o <<Head(t)>>
    BY <1>1, AppendIsConcat
  <1>3. <<Head(t)>> \o Tail(t) = t
    <2>1. 1 \in 1 .. Len(t) /\ Len(t) \in 1 .. Len(t) /\ 1 + 1 = 2
      BY EmptySeq
    <2>2. SubSeq(t, 1, Len(t)) = t /\ SubSeq(t, 2, Len(t)) = Tail(t) /\ t[1] = Head(t)
      BY SubSeqFull, TailIsSubSeq
    <2>. QED  BY <2>1, <2>2, SubSeqRecursiveFirst
  <1>4. (s \o <<Head(t)>>) \o Tail(t) = s \o (<<Head(t)>> \o Tail(t))
    BY <1>1, ConcatAssociative
  <1>. QED  BY <1>2, <1>3, <1>4

\* No task is lost, taken twice or out of turn: taken from _tasks by several workers,
\* they come out in the order of the commits.
THEOREM TasksTakenInOrder == Spec => []TakenInOrder
  <1>1. Init => TakenInOrder
    BY DEF Init, TakenInOrder
  <1>2. ASSUME PoolInv, TakenInOrder, [Next]_vars
        PROVE  TakenInOrder'
    <2>. USE <1>2
    <2>1. tasks \in Seq(Nat) /\ taken \in Seq(Nat) /\ committed \in Nat
      BY DEF PoolInv, Typed
    <2>2. CASE Commit
      <3>1. taken' \o tasks' = Append(taken \o tasks, committed + 1)
        BY <2>1, <2>2 DEF Commit, Queued
      <3>2. Append(taken \o tasks, committed + 1) = [i \in 1 .. committed + 1 |-> i]
        BY <2>1 DEF TakenInOrder
      <3>. QED  BY <2>2, <3>1, <3>2 DEF Commit, TakenInOrder
    <2>3. ASSUME NEW w \in Worker, Take(w)
          PROVE  TakenInOrder'
      <3>1. CASE ~run /\ tasks = <<>>
        BY <2>3, <3>1 DEF Take, TakenInOrder
      <3>2. CASE ~(~run /\ tasks = <<>>)
        <4>1. tasks # <<>>
          BY <2>3, <3>2 DEF Take, PoolInv, LockInv
        <4>2. Append(taken, Head(tasks)) \o Tail(tasks) = taken \o tasks
          BY <2>1, <4>1, HeadMoves
        <4>. QED  BY <2>3, <3>2, <4>2 DEF Take, TakenInOrder
      <3>. QED  BY <3>1, <3>2
    <2>4. CASE UNCHANGED <<taken, tasks, committed>>
      BY <2>4 DEF TakenInOrder
    <2>5. UNCHANGED <<taken, tasks, committed>> \/ Commit \/ \E w \in Worker : Take(w)
      BY DEF Next, vars, Owns, NotifyOne, Stop, NotifyAll, Join, Step, Loop, Lock, Test,
             Sleep, Begin, Finish, WakeSpuriously
    <2>. QED  BY <2>2, <2>3, <2>4, <2>5
  <1>. QED  BY <1>1, <1>2, PoolInvariant, PTL DEF Spec

----------------------------------------------------------------------------
(* The count of the idle workers *)

\* The steps other than Begin and Finish leave idle alone and no worker starts or ends
\* its work in them.
LEMMA RestUnchanged ==
    ASSUME PoolInv, [Next]_vars, \A w \in Worker : ~Begin(w) /\ ~Finish(w)
    PROVE  idle' = idle /\ AtRest' = AtRest
  <1>. SUFFICES idle' = idle /\ \A v \in Worker : pc'[v] # "works" <=> pc[v] # "works"
    BY DEF AtRest
  <1>. USE DEF PoolInv, Typed, Goto
  <1>1. CASE UNCHANGED vars
    BY <1>1 DEF vars
  <1>2. CASE Commit \/ Stop \/ Join
    BY <1>2 DEF Commit, Stop, Join
  <1>3. CASE NotifyOne
    BY <1>3 DEF NotifyOne, WakeOne, Asleep
  <1>4. CASE NotifyAll
    BY <1>4 DEF NotifyAll, Asleep
  <1>5. ASSUME NEW w \in Worker, Loop(w) \/ Lock(w) \/ Test(w) \/ Sleep(w) \/ WakeSpuriously(w)
        PROVE  idle' = idle /\ \A v \in Worker : pc'[v] # "works" <=> pc[v] # "works"
    BY <1>5 DEF Loop, Lock, Test, Sleep, WakeSpuriously
  <1>6. ASSUME NEW w \in Worker, Take(w)
        PROVE  idle' = idle /\ \A v \in Worker : pc'[v] # "works" <=> pc[v] # "works"
    BY <1>6 DEF Take
  <1>. QED  BY <1>1, <1>2, <1>3, <1>4, <1>5, <1>6 DEF Next, Owns, Step

\* _idlThrNum is exactly the number of workers not at work, after any interleaving of
\* its increments and decrements.
THEOREM IdleIsCounted == Spec => []IdleCounted
  <1>1. Init => IdleCounted
    <2>1. Init => AtRest = Worker
      BY DEF Init, AtRest
    <2>. QED  BY <2>1 DEF Init, IdleCounted, AtRest
  <1>2. ASSUME PoolInv, IdleCounted, [Next]_vars
        PROVE  IdleCounted'
    <2>. USE <1>2
    <2>1. IsFiniteSet(AtRest) /\ idle = Cardinality(AtRest) /\ Cardinality(AtRest) \in Nat
      BY FS_Subset, FS_CardinalityType DEF AtRest, IdleCounted
    <2>2. SUFFICES idle' = Cardinality(AtRest')
      BY DEF AtRest, IdleCounted
    <2>3. ASSUME NEW w \in Worker, Begin(w)
          PROVE  idle' = Cardinality(AtRest')
      <3>1. w \in AtRest /\ AtRest' = AtRest \ {w} /\ idle' = idle - 1
        BY <2>3 DEF Begin, Goto, AtRest, PoolInv, Typed
      <3>. QED  BY <2>1, <3>1, FS_RemoveElement
    <2>4. ASSUME NEW w \in Worker, Finish(w)
          PROVE  idle' = Cardinality(AtRest')
      <3>1. w \notin AtRest /\ AtRest' = AtRest \cup {w} /\ idle' = idle + 1
        BY <2>4 DEF Finish, Goto, AtRest, PoolInv, Typed
      <3>. QED  BY <2>1, <3>1, FS_AddElement
    <2>5. CASE \A w \in Worker : ~Begin(w) /\ ~Finish(w)
      BY <2>1, <2>5, RestUnchanged
    <2>. QED  BY <2>3, <2>4, <2>5
  <1>. QED  BY <1>1, <1>2, PoolInvariant, PTL DEF Spec

\* The types, and with them that the unsigned idle counter never goes below zero nor
\* above the number of workers.
THEOREM TypeCorrect == Spec => []TypeOK
  <1>1. PoolInv /\ IdleCounted => TypeOK
    <2>. SUFFICES ASSUME PoolInv, IdleCounted PROVE TypeOK
      OBVIOUS
    <2>1. /\ Cardinality(AtRest) \in Nat /\ Cardinality(Worker) \in Nat
          /\ Cardinality(AtRest) <= Cardinality(Worker)
      BY FS_Subset, FS_CardinalityType DEF AtRest
    <2>2. idle \in 0 .. Cardinality(Worker)
      BY <2>1 DEF AtRest, IdleCounted
    <2>. QED  BY <2>2 DEF PoolInv, Typed, TypeOK
  <1>. QED  BY <1>1, PoolInvariant, IdleIsCounted, PTL

----------------------------------------------------------------------------
(* The notifications *)

Notifying == IF owner = "notifies" THEN 1 ELSE 0

Served == Len(tasks) <= Cardinality(Ready) + Notifying

\* What a step does to the number of workers that are ready.
LEMMA ReadyGains ==
    ASSUME Typed, NEW w \in Worker, w \notin Ready, Ready' = Ready \cup {w}
    PROVE  /\ Cardinality(Ready) \in Nat
           /\ Cardinality(Ready') = Cardinality(Ready) + 1
  BY FS_Subset, FS_CardinalityType, FS_AddElement DEF Ready

LEMMA ReadyLoses ==
    ASSUME Typed, NEW w \in Ready, Ready' = Ready \ {w}
    PROVE  /\ Cardinality(Ready) \in Nat
           /\ Cardinality(Ready') = Cardinality(Ready) - 1
  BY FS_Subset, FS_CardinalityType, FS_RemoveElement DEF Ready

LEMMA OwnsServes ==
    ASSUME PoolInv, NobodySleepsOnWork, Owns, run', Asleep' # {}
    PROVE  Served'
  <1>0. Cardinality(Ready) \in Nat /\ Len(tasks) \in Nat
    BY FS_Subset, FS_CardinalityType DEF Ready, PoolInv, Typed
  <1>1. CASE Commit
    <2>1. Asleep' = Asleep /\ Ready' = Ready /\ run
      BY <1>1 DEF Commit, Asleep, Ready
    <2>2. Len(tasks') = Len(tasks) + 1
      BY <1>1 DEF Commit, Queued, PoolInv, Typed
    <2>3. Len(tasks) <= Cardinality(Ready)
      BY <1>0, <1>1, <2>1 DEF Commit, NobodySleepsOnWork
    <2>. QED  BY <1>0, <1>1, <2>1, <2>2, <2>3 DEF Commit, Served, Notifying
  <1>2. CASE NotifyOne
    <2>1. Asleep # {} /\ run
      BY <1>2 DEF NotifyOne, WakeOne, Asleep
    <2>2. PICK w \in Asleep : pc' = [pc EXCEPT ![w] = "woken"]
      BY <1>2, <2>1 DEF NotifyOne, WakeOne
    <2>3. w \in Worker /\ w \notin Ready /\ Ready' = Ready \cup {w}
      BY <2>2 DEF Asleep, Ready, PoolInv, Typed
    <2>4. Len(tasks) <= Cardinality(Ready) + 1
      BY <1>2, <2>1 DEF NotifyOne, NobodySleepsOnWork
    <2>5. Cardinality(Ready') = Cardinality(Ready) + 1
      BY <2>3, ReadyGains DEF PoolInv
    <2>. QED  BY <1>0, <1>2, <2>4, <2>5 DEF NotifyOne, Served, Notifying
  <1>3. CASE Stop \/ NotifyAll \/ Join
    BY <1>3 DEF Stop, NotifyAll, Join, PoolInv, LockInv
  <1>. QED  BY <1>1, <1>2, <1>3 DEF Owns

LEMMA StepServes ==
    ASSUME PoolInv, NobodySleepsOnWork, run', Asleep' # {},
           NEW w \in Worker, Step(w) \/ WakeSpuriously(w)
    PROVE  Served'
  <1>0. /\ Cardinality(Ready) \in Nat /\ Len(tasks) \in Nat /\ Notifying \in {0, 1}
        /\ pc \in [Worker -> Places] /\ run
    <2>1. run' = run
      BY DEF Step, Loop, Lock, Test, Sleep, Take, Begin, Finish, WakeSpuriously
    <2>. QED  BY <2>1, FS_Subset, FS_CardinalityType DEF Ready, Notifying, PoolInv, Typed
  <1>1. Asleep # {} => Served
    BY <1>0 DEF NobodySleepsOnWork, Served, Notifying
  <1>2. CASE Loop(w) \/ Lock(w) \/ Begin(w)
    <2>1. Ready' = Ready /\ Asleep' = Asleep /\ UNCHANGED <<tasks, owner>>
      BY <1>0, <1>2 DEF Loop, Lock, Begin, Goto, Ready, Asleep
    <2>. QED  BY <1>1, <2>1 DEF Served, Notifying
  <1>3. CASE Test(w)
    <2>1. CASE WorkOrStop
      <3>1. Ready' = Ready /\ Asleep' = Asleep /\ UNCHANGED <<tasks, owner>>
        BY <1>0, <1>3, <2>1 DEF Test, Goto, Ready, Asleep
      <3>. QED  BY <1>1, <3>1 DEF Served, Notifying
    <2>2. CASE ~WorkOrStop
      <3>1. Len(tasks') = 0 /\ Cardinality(Ready') \in Nat /\ Notifying' \in {0, 1}
        BY <1>3, <2>2, FS_Subset, FS_CardinalityType
           DEF Test, WorkOrStop, Ready, Notifying
      <3>. QED  BY <3>1 DEF Served
    <2>. QED  BY <2>1, <2>2
  <1>4. CASE Sleep(w)
    <2>1. Len(tasks') = 0 /\ Cardinality(Ready') \in Nat /\ Notifying' \in {0, 1}
      BY <1>0, <1>4, FS_Subset, FS_CardinalityType
         DEF Sleep, Ready, Notifying, PoolInv, LockInv
    <2>. QED  BY <2>1 DEF Served
  <1>5. CASE WakeSpuriously(w)
    <2>1. w \notin Ready /\ Ready' = Ready \cup {w} /\ w \in Asleep
      BY <1>0, <1>5 DEF WakeSpuriously, Goto, Ready, Asleep
    <2>2. Cardinality(Ready') = Cardinality(Ready) + 1
      BY <2>1, ReadyGains DEF PoolInv
    <2>3. Served /\ tasks' = tasks /\ Notifying' = Notifying
      BY <1>1, <1>5, <2>1 DEF WakeSpuriously, Notifying
    <2>. QED  BY <1>0, <2>2, <2>3 DEF Served
  <1>6. CASE Take(w)
    <2>1. tasks # <<>> /\ tasks \in Seq(Nat)
      BY <1>0, <1>6 DEF Take, PoolInv, Typed, LockInv
    <2>2. pc' = [pc EXCEPT ![w] = "has"] /\ tasks' = Tail(tasks) /\ owner' = owner
      BY <1>0, <1>6 DEF Take, Goto
    <2>3. w \in Ready /\ Ready' = Ready \ {w} /\ Asleep' = Asleep
      BY <1>0, <1>6, <2>2 DEF Take, Ready, Asleep
    <2>4. Cardinality(Ready') = Cardinality(Ready) - 1
      BY <2>3, ReadyLoses DEF PoolInv
    <2>5. Len(tasks') = Len(tasks) - 1 /\ Notifying' = Notifying
      BY <2>1, <2>2 DEF Notifying
    <2>6. Served
      BY <1>1, <2>3
    <2>. QED  BY <1>0, <2>4, <2>5, <2>6 DEF Served
  <1>7. CASE Finish(w)
    <2>1. /\ w \notin Ready /\ Ready' = Ready \cup {w} /\ Asleep' = Asleep
          /\ UNCHANGED <<tasks, owner>>
      BY <1>0, <1>7 DEF Finish, Goto, Ready, Asleep
    <2>2. Cardinality(Ready') = Cardinality(Ready) + 1
      BY <2>1, ReadyGains DEF PoolInv
    <2>3. Served /\ tasks' = tasks /\ Notifying' = Notifying
      BY <1>1, <2>1 DEF Notifying
    <2>. QED  BY <1>0, <2>2, <2>3 DEF Served
  <1>. QED  BY <1>2, <1>3, <1>4, <1>5, <1>6, <1>7 DEF Step

\* No notification is lost while the pool runs: commit notifies after it gave the mutex
\* up, and still each task that waits has a worker that is sure to look at the queue.
THEOREM NoTaskSleptOn == Spec => []NobodySleepsOnWork
  <1>1. Init => NobodySleepsOnWork
    BY DEF Init, NobodySleepsOnWork, Asleep
  <1>2. ASSUME PoolInv, NobodySleepsOnWork, [Next]_vars
        PROVE  NobodySleepsOnWork'
    <2>. USE <1>2
    <2>1. CASE UNCHANGED vars
      BY <2>1 DEF vars, NobodySleepsOnWork, Asleep, Ready
    <2>2. CASE Next
      <3>1. ASSUME run', Asleep' # {} PROVE Served'
        BY <2>2, <3>1, OwnsServes, StepServes DEF Next
      <3>. QED  BY <3>1 DEF NobodySleepsOnWork, Served, Notifying
    <2>. QED  BY <2>1, <2>2
  <1>. QED  BY <1>1, <1>2, PoolInvariant, PTL DEF Spec
=============================================================================
