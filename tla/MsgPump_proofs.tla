--------------------------- MODULE MsgPump_proofs ---------------------------
(***************************************************************************)
(* Theorems about MsgPump, for every set of producers, owners, delays and  *)
(* repeat counts and every bound: first about its two queues, then what it *)
(* promises to the threads that post to it, and that it implements         *)
(* TaskService.                                                            *)
(***************************************************************************)
EXTENDS MsgPump, SequenceTheorems, TLAPS

USE PumpAssumption

(* What the operators on queues and tasks return. *)

LEMMA NoTaskType == NoTask \in Task
  BY DEF NoTask, NewTask, Task

LEMMA PushType == ASSUME NEW q \in Queue, NEW t \in Task
                  PROVE  /\ Push(q, t) \in Queue
                         /\ [t EXCEPT !.seq = q.next] \in Task
  BY DEF Push, Queue, Task

LEMMA RemoveType == ASSUME NEW q \in Queue, NEW t
                    PROVE  Remove(q, t) \in Queue
  BY DEF Remove, Queue

LEMMA RearmedType == ASSUME TypeOK, Repeats(cur)
                     PROVE  Rearmed(cur) \in Task
  <1>. DEFINE n == IF cur.times = -1 THEN -1 ELSE cur.times - 1
  <1>1. cur \in Task /\ nowTick \in Nat
    BY DEF TypeOK
  <1>2. n \in Nat \cup {-1} /\ nowTick + cur.interval \in Nat
    BY <1>1 DEF Task, Repeats
  <1>3. Rearmed(cur) = [cur EXCEPT !.tick = nowTick + cur.interval, !.times = n]
    BY DEF Rearmed
  <1>. HIDE DEF n
  <1>. QED  BY <1>1, <1>2, <1>3 DEF Task

\* The part of Return and Skip that puts the pump back in one of its loops
LEMMA FinishType == ASSUME TypeOK, Finish
                    PROVE  /\ dq' \in Queue
                           /\ pc' \in {"drain", "check"}
                           /\ cur' \in Task
                           /\ round' \in SUBSET (round \cup {cur.id})
  <1>1. CASE cur.kind = "task"
    BY <1>1, NoTaskType DEF Finish, TypeOK, Goto
  <1>2. CASE cur.kind # "task"
    <2>1. dq' = (IF Repeats(cur) THEN Push(dq, Rearmed(cur)) ELSE dq)
      BY <1>2 DEF Finish
    <2>2. dq' \in Queue
      BY <2>1, RearmedType, PushType DEF TypeOK
    <2>. QED  BY <1>2, <2>2, NoTaskType DEF Finish, Goto
  <1>. QED  BY <1>1, <1>2

LEMMA PostType == ASSUME TypeOK, NEW p \in Poster, NEW k \in {"task", "timer"},
                         NEW d \in Nat, NEW n \in Nat \cup {-1}, Accept(p, k, d, n)
                  PROVE  /\ accepted' \in 0 .. MaxPosts
                         /\ accepted' = accepted + 1
                         /\ accepted + 1 \in Id
                         /\ posts' \in [Id -> Record]
  <1>1. accepted \in 0 .. MaxPosts /\ accepted < MaxPosts /\ accepted' = accepted + 1
    BY DEF TypeOK, Accept
  <1>2. accepted + 1 \in Id
    BY <1>1 DEF Id
  <1>3. [kind |-> k, by |-> p, delay |-> d, times |-> n] \in Record
    BY DEF Record
  <1>4. posts' \in [Id -> Record]
    BY <1>2, <1>3 DEF TypeOK, Accept
  <1>. QED  BY <1>1, <1>2, <1>4

LEMMA NewTaskType == ASSUME NEW i \in Id, NEW k \in {"task", "timer"}, NEW o \in Owner,
                            NEW tick \in Nat, NEW n \in Nat \cup {-1}, NEW iv \in Nat
                     PROVE  NewTask(i, k, o, tick, n, iv) \in Task
  BY DEF NewTask, Task, Id

LEMMA TicketType == ASSUME TypeOK, NEW p \in Poster, ticket[p] # Idle
                    PROVE  ticket[p] \in [due : Nat, owner : Owner, delay : Delay,
                                          times : Nat \cup {-1}, interval : Nat]
  BY DEF TypeOK, Ticket

(* Every step keeps the types. *)

LEMMA PostTaskKeepsTypes ==
    ASSUME TypeOK, NEW p \in Poster, NEW o \in Owner, PostTask(p, o)
    PROVE  TypeOK'
  <1>1. accepted' \in 0 .. MaxPosts /\ posts' \in [Id -> Record] /\ accepted + 1 \in Id
    BY PostType DEF PostTask
  <1>2. NewTask(accepted + 1, "task", o, 0, 1, 0) \in Task
    BY <1>1, NewTaskType
  <1>3. tq' \in Queue
    BY <1>2, PushType DEF PostTask, TypeOK
  <1>. QED  BY <1>1, <1>3 DEF PostTask, TypeOK

LEMMA ComputeDueKeepsTypes ==
    ASSUME TypeOK, NEW p \in Poster, NEW o \in Owner, NEW d \in Delay,
           NEW n \in Nat \cup {-1}, NEW iv \in Nat, ComputeDue(p, o, d, n, iv)
    PROVE  TypeOK'
  <1>1. clock + d \in Nat
    BY DEF TypeOK
  <1>2. ticket' \in [Poster -> Ticket]
    BY <1>1 DEF ComputeDue, TypeOK, Ticket
  <1>. QED  BY <1>2 DEF ComputeDue, TypeOK, queues, history

LEMMA PushTimerKeepsTypes ==
    ASSUME TypeOK, NEW p \in Poster, PushTimer(p)
    PROVE  TypeOK'
  <1>1. ticket[p] \in [due : Nat, owner : Owner, delay : Delay,
                       times : Nat \cup {-1}, interval : Nat]
    BY TicketType DEF PushTimer
  <1>2. accepted' \in 0 .. MaxPosts /\ posts' \in [Id -> Record] /\ accepted + 1 \in Id
    BY <1>1, PostType DEF PushTimer
  <1>3. NewTask(accepted + 1, "timer", ticket[p].owner, ticket[p].due,
                ticket[p].times, ticket[p].interval) \in Task
    BY <1>1, <1>2, NewTaskType
  <1>4. dq' \in Queue
    BY <1>3, PushType DEF PushTimer, TypeOK
  <1>5. ticket' \in [Poster -> Ticket]
    BY DEF PushTimer, TypeOK, Ticket
  <1>. QED  BY <1>2, <1>4, <1>5 DEF PushTimer, TypeOK

LEMMA ServeType == ASSUME TypeOK, Serve PROVE served' \in [Id -> Nat]
  <1>1. served \in [Id -> Nat]
    BY DEF TypeOK
  <1>2. CASE cur.id \in Id
    BY <1>1, <1>2 DEF Serve
  <1>3. CASE cur.id \notin Id
    BY <1>1, <1>3 DEF Serve
  <1>. QED  BY <1>2, <1>3

LEMMA PumpStepKeepsTypes == ASSUME TypeOK, PumpStep PROVE TypeOK'
  <1>1. CASE TakeTask
    <2>1. PICK t \in tq.tasks : cur' = t /\ tq' = Remove(tq, t)
      BY <1>1 DEF TakeTask
    <2>2. cur' \in Task /\ tq' \in Queue
      BY <2>1, RemoveType DEF TypeOK, Queue
    <2>. QED  BY <1>1, <2>2 DEF TakeTask, TypeOK, Goto
  <1>2. CASE ReadClock
    BY <1>2 DEF ReadClock, TypeOK, Goto, queues, history
  <1>3. CASE CheckTimer
    BY <1>3 DEF CheckTimer, TypeOK, Goto, queues, history
  <1>4. CASE TakeTimer
    <2>1. PICK t \in dq.tasks : cur' = t /\ dq' = Remove(dq, t)
      BY <1>4 DEF TakeTimer
    <2>2. cur' \in Task /\ dq' \in Queue
      BY <2>1, RemoveType DEF TypeOK, Queue
    <2>. QED  BY <1>4, <2>2 DEF TakeTimer, TypeOK, Goto, history
  <1>5. CASE Skip
    <2>1. cur.id \in 0 .. MaxPosts
      BY DEF TypeOK, Task
    <2>. QED  BY <1>5, <2>1, FinishType, ServeType DEF Skip, TypeOK
  <1>6. CASE Test
    BY <1>6 DEF Test, TypeOK, Goto, queues, history
  <1>7. CASE Enter
    BY <1>7, ServeType DEF Enter, TypeOK, Goto, queues
  <1>8. CASE Return
    <2>1. cur.id \in 0 .. MaxPosts
      BY DEF TypeOK, Task
    <2>. QED  BY <1>8, <2>1, FinishType DEF Return, TypeOK
  <1>9. CASE Wait
    BY <1>9 DEF Wait, TypeOK, Goto, Again, queues
  <1>. QED  BY <1>1, <1>2, <1>3, <1>4, <1>5, <1>6, <1>7, <1>8, <1>9 DEF PumpStep

LEMMA NextKeepsTypes == ASSUME TypeOK, [Next]_vars PROVE TypeOK'
  <1>1. CASE RegisterThread
    BY <1>1 DEF RegisterThread, TypeOK, queues, history
  <1>2. ASSUME NEW p \in Poster, Post(p) PROVE TypeOK'
    <2>1. PICK o \in Owner : \/ PostTask(p, o)
                            \/ \E d \in Delay : \/ PostDelayedTask(p, o, d)
                                               \/ \E n \in Times : PostRepeatedTask(p, o, d, n)
      BY <1>2 DEF Post
    <2>2. CASE PostTask(p, o)
      BY <2>2, PostTaskKeepsTypes
    <2>3. ASSUME NEW d \in Delay, PostDelayedTask(p, o, d) PROVE TypeOK'
      BY <2>3, ComputeDueKeepsTypes DEF PostDelayedTask
    <2>4. ASSUME NEW d \in Delay, NEW n \in Times, PostRepeatedTask(p, o, d, n) PROVE TypeOK'
      BY <2>4, ComputeDueKeepsTypes DEF PostRepeatedTask
    <2>. QED  BY <2>1, <2>2, <2>3, <2>4
  <1>3. ASSUME NEW p \in Poster, PushTimer(p) PROVE TypeOK'
    BY <1>3, PushTimerKeepsTypes
  <1>4. ASSUME NEW p \in Poster, NEW o \in Owner, Destroy(p, o) PROVE TypeOK'
    BY <1>4 DEF Destroy, TypeOK, queues, history
  <1>5. CASE Start
    BY <1>5 DEF Start, TypeOK, Goto, Again, queues, history
  <1>6. CASE PumpStep
    BY <1>6, PumpStepKeepsTypes
  <1>7. CASE RequestStop
    BY <1>7 DEF RequestStop, TypeOK, queues, history
  <1>8. CASE Tick
    BY <1>8 DEF Tick, TypeOK, queues, history
  <1>9. CASE UNCHANGED vars
    BY <1>9 DEF vars, TypeOK, queues, history
  <1>. QED  BY <1>1, <1>2, <1>3, <1>4, <1>5, <1>6, <1>7, <1>8, <1>9 DEF Next

\* Type correctness: every variable of the pump keeps to its type.
THEOREM TypeCorrect == Spec => []TypeOK
  <1>1. Init => TypeOK
    <2>1. EmptyQueue \in Queue
      BY DEF EmptyQueue, Queue
    <2>2. Idle \in Ticket /\ NoPost \in Record
      BY DEF Ticket, Record
    <2>. SUFFICES ASSUME Init PROVE TypeOK
      OBVIOUS
    <2>3. ticket \in [Poster -> Ticket]
      BY <2>2 DEF Init
    <2>4. posts \in [Id -> Record] /\ served \in [Id -> Nat]
      BY <2>2 DEF Init
    <2>5. registered \in BOOLEAN /\ done \in BOOLEAN
      BY ZenonT(30) DEF Init
    <2>6. clock \in 0 .. MaxTick /\ nowTick \in 0 .. MaxTick /\ accepted \in 0 .. MaxPosts
      BY DEF Init
    <2>7. /\ alive \in SUBSET Owner /\ round \in SUBSET (0 .. MaxPosts) /\ drained \in Nat
          /\ pc \in {"new", "drain", "check", "take", "run", "enter", "call", "wait", "gone"}
      BY DEF Init
    <2>8. tq \in Queue /\ dq \in Queue /\ cur \in Task
      BY NoTaskType, <2>1 DEF Init
    <2>. QED  BY <2>3, <2>4, <2>5, <2>6, <2>7, <2>8 DEF TypeOK
  <1>2. TypeOK /\ [Next]_vars => TypeOK'
    BY NextKeepsTypes
  <1>. QED  BY <1>1, <1>2, PTL DEF Spec

-----------------------------------------------------------------------------
(* PostTask is a FIFO.  The strengthening says which tasks each queue holds *)
(* and that the counter of tasks taken never passes the sequence numbers.   *)

QueueKinds ==
    /\ \A t \in tq.tasks : t.kind = "task" /\ t.tick = 0
    /\ \A t \in dq.tasks : t.kind = "timer"

FIFOInv == ImmediateFIFO /\ QueueKinds /\ drained <= tq.next

\* The steps that leave _task_queue and what the pump holds alone
LEMMA FIFOUntouched ==
    ASSUME TypeOK, FIFOInv, UNCHANGED <<tq, drained>>,
           \A t \in dq'.tasks : t.kind = "timer",
           InHand' /\ cur'.kind = "task" => InHand /\ cur' = cur
    PROVE  FIFOInv'
  BY DEF FIFOInv, ImmediateFIFO, QueueKinds, InHand

LEMMA FinishKeepsTimers ==
    ASSUME TypeOK, FIFOInv, Finish, InHand, cur.kind # "none"
    PROVE  /\ \A t \in dq'.tasks : t.kind = "timer"
           /\ ~InHand'
  <1>1. ~InHand'
    BY DEF Finish, Goto, InHand
  <1>2. CASE cur.kind = "task"
    BY <1>1, <1>2 DEF Finish, FIFOInv, QueueKinds
  <1>3. CASE cur.kind = "timer"
    <2>1. cur \in Task
      BY DEF TypeOK
    <2>2. [Rearmed(cur) EXCEPT !.seq = dq.next].kind = "timer"
      BY <2>1, <1>3 DEF Rearmed, Task
    <2>3. dq' = (IF Repeats(cur) THEN Push(dq, Rearmed(cur)) ELSE dq)
      BY <1>3 DEF Finish
    <2>4. \A t \in dq'.tasks : t \in dq.tasks \/ t = [Rearmed(cur) EXCEPT !.seq = dq.next]
      BY <2>3 DEF Push
    <2>. QED  BY <1>1, <2>2, <2>4 DEF FIFOInv, QueueKinds
  <1>. QED  BY <1>2, <1>3 DEF TypeOK, Task

\* The pump never holds a task of no kind.
HoldsSomething == InHand => cur.kind # "none"

LEMMA PostTaskKeepsFIFO ==
    ASSUME TypeOK, FIFOInv, NEW p \in Poster, NEW o \in Owner, PostTask(p, o)
    PROVE  FIFOInv'
  <1>. DEFINE new == [NewTask(accepted + 1, "task", o, 0, 1, 0) EXCEPT !.seq = tq.next]
  <1>1. tq'.tasks = tq.tasks \cup {new} /\ tq'.next = tq.next + 1
    BY DEF PostTask, Push
  <1>2. new.seq = tq.next /\ new.kind = "task" /\ new.tick = 0
    BY DEF NewTask
  <1>3. UNCHANGED <<dq, drained, pc, cur>>
    BY DEF PostTask
  <1>4. tq.next \in Nat /\ drained \in Nat /\ drained <= tq.next
    BY DEF TypeOK, Queue, FIFOInv
  <1>5. {t.seq : t \in tq.tasks} = drained .. (tq.next - 1)
    BY DEF FIFOInv, ImmediateFIFO
  <1>6. {t.seq : t \in tq'.tasks} = drained' .. (tq'.next - 1)
    <2>1. {t.seq : t \in tq'.tasks} = {t.seq : t \in tq.tasks} \cup {tq.next}
      <3>. HIDE DEF new
      <3>1. {t.seq : t \in tq.tasks \cup {new}} = {t.seq : t \in tq.tasks} \cup {new.seq}
        OBVIOUS
      <3>. QED  BY <1>1, <1>2, <3>1
    <2>2. drained .. tq.next = (drained .. (tq.next - 1)) \cup {tq.next}
      BY <1>4
    <2>3. tq'.next - 1 = tq.next
      BY <1>1, <1>4
    <2>. QED  BY <2>1, <2>2, <2>3, <1>3, <1>5
  <1>7. \A t \in tq.tasks : t.seq # tq.next
    BY <1>4, <1>5
  <1>8. \A t, u \in tq'.tasks : t.seq = u.seq => t = u
    BY <1>1, <1>2, <1>7 DEF FIFOInv, ImmediateFIFO
  <1>9. \A t \in tq'.tasks : t.kind = "task" /\ t.tick = 0
    BY <1>1, <1>2 DEF FIFOInv, QueueKinds
  <1>. HIDE DEF new
  <1>10. InHand' /\ cur'.kind = "task" => cur'.seq = drained' - 1
    BY <1>3 DEF FIFOInv, ImmediateFIFO, InHand
  <1>11. \A t \in dq'.tasks : t.kind = "timer"
    BY <1>3 DEF FIFOInv, QueueKinds
  <1>12. drained' <= tq'.next
    BY <1>1, <1>3, <1>4
  <1>. QED  BY <1>6, <1>8, <1>9, <1>10, <1>11, <1>12 DEF FIFOInv, ImmediateFIFO, QueueKinds

\* The top of _task_queue is the task with the least sequence number.
LEMMA TakeTaskKeepsFIFO == ASSUME TypeOK, FIFOInv, TakeTask PROVE FIFOInv'
  <1>1. PICK t \in tq.tasks : IsTop(t, tq) /\ cur' = t /\ tq' = Remove(tq, t)
    BY DEF TakeTask
  <1>2. /\ tq'.tasks = tq.tasks \ {t} /\ tq'.next = tq.next
        /\ drained' = drained + 1 /\ dq' = dq
    BY <1>1 DEF TakeTask, Remove, TypeOK, Queue
  <1>3. tq.next \in Nat /\ drained \in Nat
    BY DEF TypeOK, Queue
  <1>4. {u.seq : u \in tq.tasks} = drained .. (tq.next - 1)
    BY DEF FIFOInv, ImmediateFIFO
  <1>5. t.seq \in drained .. (tq.next - 1)
    BY <1>4
  <1>6. PICK u \in tq.tasks : u.seq = drained
    BY <1>3, <1>4, <1>5
  <1>7. t.seq = drained
    <2>1. CASE u = t
      BY <1>6, <2>1
    <2>2. CASE u # t
      <3>1. Before(t, u)
        BY <1>1, <2>2 DEF IsTop
      <3>2. t.tick = 0 /\ u.tick = 0
        BY DEF FIFOInv, QueueKinds
      <3>3. t.seq < u.seq
        BY <3>1, <3>2 DEF Before
      <3>. QED  BY <1>3, <1>5, <1>6, <3>3
    <2>. QED  BY <2>1, <2>2
  <1>8. \A w \in tq.tasks : w # t => w.seq # t.seq
    BY DEF FIFOInv, ImmediateFIFO
  <1>9. {w.seq : w \in tq'.tasks} = (drained .. (tq.next - 1)) \ {drained}
    BY <1>2, <1>4, <1>7, <1>8
  <1>10. (drained .. (tq.next - 1)) \ {drained} = (drained + 1) .. (tq.next - 1)
    BY <1>3
  <1>11. {w.seq : w \in tq'.tasks} = drained' .. (tq'.next - 1)
    BY <1>2, <1>9, <1>10
  <1>12. cur'.seq = drained' - 1
    BY <1>1, <1>2, <1>3, <1>7
  <1>13. drained' <= tq'.next
    BY <1>2, <1>3, <1>5
  <1>14. \A w, v \in tq'.tasks : w.seq = v.seq => w = v
    BY <1>2 DEF FIFOInv, ImmediateFIFO
  <1>15. QueueKinds'
    BY <1>2 DEF FIFOInv, QueueKinds
  <1>. QED  BY <1>11, <1>12, <1>13, <1>14, <1>15 DEF FIFOInv, ImmediateFIFO

LEMMA PushTimerKeepsFIFO ==
    ASSUME TypeOK, FIFOInv, NEW p \in Poster, PushTimer(p) PROVE FIFOInv'
  <1>1. \A t \in dq'.tasks : t.kind = "timer"
    BY DEF PushTimer, Push, NewTask, FIFOInv, QueueKinds
  <1>. QED  BY <1>1, FIFOUntouched DEF PushTimer, InHand

LEMMA NextKeepsFIFO ==
    ASSUME TypeOK, HoldsSomething, FIFOInv, [Next]_vars
    PROVE  FIFOInv' /\ HoldsSomething'
  <1>. USE DEF HoldsSomething
  <1>0. ASSUME UNCHANGED <<tq, dq, drained, cur>>, InHand' => InHand
        PROVE  FIFOInv' /\ HoldsSomething'
    BY <1>0, FIFOUntouched DEF FIFOInv, QueueKinds
  <1>1. CASE RegisterThread
    BY <1>1, <1>0 DEF RegisterThread, queues, history, InHand
  <1>2. ASSUME NEW p \in Poster, Post(p) PROVE FIFOInv' /\ HoldsSomething'
    <2>1. ASSUME NEW o \in Owner, PostTask(p, o) PROVE FIFOInv' /\ HoldsSomething'
      BY <2>1, PostTaskKeepsFIFO DEF PostTask, InHand
    <2>2. ASSUME NEW o \in Owner, NEW d, NEW n, NEW iv, ComputeDue(p, o, d, n, iv)
          PROVE  FIFOInv' /\ HoldsSomething'
      BY <2>2, <1>0 DEF ComputeDue, queues, history, InHand
    <2>. QED  BY <1>2, <2>1, <2>2 DEF Post, PostDelayedTask, PostRepeatedTask
  <1>3. ASSUME NEW p \in Poster, PushTimer(p) PROVE FIFOInv' /\ HoldsSomething'
    BY <1>3, PushTimerKeepsFIFO DEF PushTimer, InHand
  <1>4. ASSUME NEW p \in Poster, NEW o \in Owner, Destroy(p, o)
        PROVE  FIFOInv' /\ HoldsSomething'
    BY <1>4, <1>0 DEF Destroy, queues, history, InHand
  <1>5. CASE Start
    BY <1>5, <1>0 DEF Start, Goto, Again, queues, history, InHand
  <1>6. CASE TakeTask
    <2>1. HoldsSomething'
      BY <1>6 DEF TakeTask, FIFOInv, QueueKinds
    <2>. QED  BY <1>6, <2>1, TakeTaskKeepsFIFO
  <1>7. CASE ReadClock \/ CheckTimer \/ Wait
    BY <1>7, <1>0 DEF ReadClock, CheckTimer, Wait, Goto, Again, queues, history, InHand
  <1>8. CASE TakeTimer
    <2>1. PICK t \in dq.tasks : cur' = t /\ dq' = Remove(dq, t)
      BY <1>8 DEF TakeTimer
    <2>2. \A u \in dq'.tasks : u.kind = "timer"
      BY <2>1 DEF Remove, FIFOInv, QueueKinds, TypeOK, Queue
    <2>3. cur'.kind = "timer"
      BY <2>1 DEF FIFOInv, QueueKinds
    <2>. QED  BY <1>8, <2>2, <2>3, FIFOUntouched DEF TakeTimer, history
  <1>9. CASE Test \/ Enter
    BY <1>9, <1>0 DEF Test, Enter, Goto, queues, history, InHand
  <1>10. CASE Skip \/ Return
    <2>1. InHand /\ Finish /\ UNCHANGED <<tq, drained>>
      BY <1>10 DEF Skip, Return, InHand
    <2>2. (\A t \in dq'.tasks : t.kind = "timer") /\ ~InHand'
      BY <2>1, FinishKeepsTimers
    <2>. QED  BY <2>1, <2>2, FIFOUntouched
  <1>11. CASE RequestStop
    BY <1>11, <1>0 DEF RequestStop, queues, history, InHand
  <1>12. CASE Tick
    BY <1>12, <1>0 DEF Tick, queues, history, InHand
  <1>13. CASE UNCHANGED vars
    BY <1>13, <1>0 DEF vars, queues, history, InHand
  <1>. QED  BY <1>1, <1>2, <1>3, <1>4, <1>5, <1>6, <1>7, <1>8, <1>9, <1>10, <1>11,
               <1>12, <1>13 DEF Next, PumpStep

LEMMA FIFOInvariant == Spec => [](TypeOK /\ FIFOInv)
  <1>1. Init => FIFOInv /\ HoldsSomething
    <2>. SUFFICES ASSUME Init PROVE FIFOInv /\ HoldsSomething
      OBVIOUS
    <2>1. tq.tasks = {} /\ tq.next = 0 /\ dq.tasks = {} /\ drained = 0 /\ ~InHand
      BY DEF Init, EmptyQueue, InHand
    <2>2. {t.seq : t \in tq.tasks} = drained .. (tq.next - 1)
      BY <2>1
    <2>. QED  BY <2>1, <2>2 DEF FIFOInv, ImmediateFIFO, QueueKinds, HoldsSomething
  <1>2. TypeOK /\ FIFOInv /\ HoldsSomething /\ [Next]_vars => FIFOInv' /\ HoldsSomething'
    BY NextKeepsFIFO
  <1>. QED  BY <1>1, <1>2, TypeCorrect, PTL DEF Spec

\* Tasks posted with PostTask are taken in the order of their posts, each once
\* and none left out, by whichever threads and between whichever steps of the
\* pump they are posted.
THEOREM TasksAreFIFO == Spec => []ImmediateFIFO
  <1>1. FIFOInv => ImmediateFIFO
    BY DEF FIFOInv
  <1>. QED  BY <1>1, FIFOInvariant, PTL

-----------------------------------------------------------------------------
(* No timer is lost or doubled.  The strengthening ties what is left of a    *)
(* timer's count, wherever the timer is, to how often it was served.         *)

\* With n runs to come, timer i was served k times.
Left(i, n, k) == IF posts[i].times = -1 THEN n = -1
                 ELSE n = posts[i].times - k /\ k < Max1(posts[i].times)

OfPost(t) == t.id \in 1 .. accepted /\ posts[t.id].kind = t.kind

\* How often the timer in hand was served before
Before1(i) == IF pc = "call" THEN served[i] - 1 ELSE served[i]

Held == InHand /\ cur.kind = "timer"

OwnPosts ==
    /\ \A t \in tq.tasks \cup dq.tasks : OfPost(t)
    /\ InHand => OfPost(cur)

OneCopy ==
    /\ \A t, u \in dq.tasks : t.id = u.id => t = u
    /\ Held => \A t \in dq.tasks : t.id # cur.id

Counted ==
    /\ \A t \in dq.tasks : Left(t.id, t.times, served[t.id])
    /\ Held => Before1(cur.id) \in Nat /\ Left(cur.id, cur.times, Before1(cur.id))

Gone(i) == /\ \A t \in dq.tasks : t.id # i
           /\ ~(Held /\ cur.id = i)

Spent ==
    /\ \A i \in 1 .. accepted : posts[i].kind = "timer" /\ Gone(i) =>
          posts[i].times # -1 /\ served[i] >= Max1(posts[i].times)
    /\ \A i \in Id : i > accepted => served[i] = 0

TimerInv == QueueKinds /\ HoldsSomething /\ OwnPosts /\ OneCopy /\ Counted /\ Spent

LEMMA TimerInvImplies == ASSUME TypeOK, TimerInv PROVE TimerConservation
  <1>. SUFFICES ASSUME NEW i \in 1 .. accepted, posts[i].kind = "timer"
                PROVE  LET copies == {t \in dq.tasks : t.id = i}
                           inHand == InHand /\ cur.id = i
                           toCome == posts[i].times = -1 \/ served[i] < Max1(posts[i].times)
                       IN  /\ copies # {} <=> (toCome /\ ~inHand)
                           /\ \A t, u \in copies : t = u
    BY DEF TimerConservation
  <1>. DEFINE copies == {t \in dq.tasks : t.id = i}
              inHand == InHand /\ cur.id = i
              toCome == posts[i].times = -1 \/ served[i] < Max1(posts[i].times)
  <1>0. i \in Id /\ served[i] \in Nat /\ posts[i].times \in Nat \cup {-1}
    <2>1. i \in Id
      BY DEF TypeOK, Id
    <2>2. posts[i] \in Record /\ posts[i] # NoPost
      BY <2>1 DEF TypeOK, NoPost
    <2>. QED  BY <2>1, <2>2 DEF TypeOK, Record
  <1>1. inHand => Held
    BY DEF TimerInv, OwnPosts, OfPost, Held
  <1>2. \A t, u \in copies : t = u
    BY DEF TimerInv, OneCopy
  <1>3. ASSUME copies # {} PROVE toCome /\ ~inHand
    <2>1. PICK t \in dq.tasks : t.id = i
      BY <1>3
    <2>2. ~inHand
      BY <1>1, <2>1 DEF TimerInv, OneCopy
    <2>3. toCome
      BY <2>1 DEF TimerInv, Counted, Left
    <2>. QED  BY <2>2, <2>3
  <1>4. ASSUME toCome, ~inHand, copies = {} PROVE FALSE
    <2>1. Gone(i)
      BY <1>4 DEF Gone, Held
    <2>2. posts[i].times # -1 /\ served[i] >= Max1(posts[i].times)
      BY <2>1 DEF TimerInv, Spent
    <2>3. Max1(posts[i].times) \in Nat
      BY <1>0 DEF Max1
    <2>. QED  BY <1>0, <1>4, <2>2, <2>3
  <1>. QED  BY <1>2, <1>3, <1>4

\* The steps that touch no queue, no count and not what the pump holds
LEMMA TimerUntouched ==
    ASSUME TypeOK, TimerInv, UNCHANGED <<tq, dq, posts, accepted, served>>,
           (cur' = cur /\ InHand' = InHand /\ ((pc' = "call") <=> (pc = "call")))
               \/ (~InHand /\ ~InHand')
    PROVE  TimerInv'
  <1>1. QueueKinds' /\ HoldsSomething'
    BY DEF TimerInv, QueueKinds, HoldsSomething
  <1>2. OwnPosts'
    BY DEF TimerInv, OwnPosts, OfPost
  <1>3. Held' <=> Held
    BY DEF Held
  <1>4. OneCopy'
    BY <1>3 DEF TimerInv, OneCopy, Held
  <1>5. Counted'
    BY <1>3 DEF TimerInv, Counted, Left, Held, Before1
  <1>6. Spent'
    BY <1>3 DEF TimerInv, Spent, Gone, Held
  <1>. QED  BY <1>1, <1>2, <1>4, <1>5, <1>6 DEF TimerInv

\* A post is recorded under a number no post had.
LEMMA AcceptFacts ==
    ASSUME TypeOK, TimerInv, NEW p \in Poster, NEW k \in {"task", "timer"},
           NEW d, NEW n, Accept(p, k, d, n)
    PROVE  /\ accepted' = accepted + 1
           /\ accepted + 1 \in Id /\ accepted \in Nat
           /\ posts'[accepted + 1] = [kind |-> k, by |-> p, delay |-> d, times |-> n]
           /\ \A i \in 1 .. accepted : i \in Id /\ posts'[i] = posts[i]
           /\ served[accepted + 1] = 0
  <1>1. /\ accepted \in 0 .. MaxPosts /\ accepted < MaxPosts /\ accepted' = accepted + 1
        /\ posts' = [posts EXCEPT ![accepted + 1] =
                        [kind |-> k, by |-> p, delay |-> d, times |-> n]]
        /\ posts \in [Id -> Record]
    BY DEF TypeOK, Accept
  <1>2. accepted + 1 \in Id /\ accepted \in Nat /\ 1 .. accepted \subseteq Id
    BY <1>1 DEF Id
  <1>3. \A i \in 1 .. accepted : i \in Id /\ posts'[i] = posts[i]
    BY <1>1, <1>2
  <1>4. served[accepted + 1] = 0
    BY <1>2 DEF TimerInv, Spent
  <1>5. posts'[accepted + 1] = [kind |-> k, by |-> p, delay |-> d, times |-> n]
    BY <1>1, <1>2
  <1>. QED  BY <1>1, <1>2, <1>3, <1>4, <1>5

LEMMA PostTaskKeepsTimers ==
    ASSUME TypeOK, TimerInv, NEW p \in Poster, NEW o \in Owner, PostTask(p, o)
    PROVE  TimerInv'
  <1>. DEFINE new == [NewTask(accepted + 1, "task", o, 0, 1, 0) EXCEPT !.seq = tq.next]
  <1>1. /\ tq'.tasks = tq.tasks \cup {new} /\ Accept(p, "task", 0, 1)
        /\ UNCHANGED <<dq, pc, cur, served>>
    BY DEF PostTask, Push
  <1>2. new.id = accepted + 1 /\ new.kind = "task" /\ new.tick = 0
    BY DEF NewTask
  <1>. HIDE DEF new
  <1>3. /\ accepted' = accepted + 1 /\ accepted + 1 \in Id /\ accepted \in Nat
        /\ posts'[accepted + 1] = [kind |-> "task", by |-> p, delay |-> 0, times |-> 1]
        /\ \A i \in 1 .. accepted : i \in Id /\ posts'[i] = posts[i]
    BY <1>1, AcceptFacts
  <1>4. QueueKinds' /\ HoldsSomething'
    BY <1>1, <1>2 DEF TimerInv, QueueKinds, HoldsSomething, InHand
  <1>5. /\ \A t \in tq.tasks \cup dq.tasks : t.id \in 1 .. accepted /\ posts[t.id].kind = t.kind
        /\ InHand => cur.id \in 1 .. accepted /\ posts[cur.id].kind = cur.kind
    BY DEF TimerInv, OwnPosts, OfPost
  <1>6. OwnPosts'
    <2>1. \A t \in tq'.tasks \cup dq'.tasks : t.id \in 1 .. accepted' /\ posts'[t.id].kind = t.kind
      BY <1>1, <1>2, <1>3, <1>5
    <2>2. InHand' => cur'.id \in 1 .. accepted' /\ posts'[cur'.id].kind = cur'.kind
      BY <1>1, <1>3, <1>5 DEF InHand
    <2>. QED  BY <2>1, <2>2 DEF OwnPosts, OfPost
  <1>7. (Held' <=> Held) /\ OneCopy'
    BY <1>1 DEF TimerInv, OneCopy, Held, InHand
  <1>8. Counted'
    <2>1. ASSUME NEW t \in dq.tasks PROVE Left(t.id, t.times, served[t.id])'
      BY <1>1, <1>3, <1>5 DEF TimerInv, Counted, Left
    <2>2. ASSUME Held PROVE Before1(cur.id)' \in Nat /\ Left(cur.id, cur.times, Before1(cur.id))'
      BY <1>1, <1>3, <1>5, <2>2 DEF TimerInv, Counted, Left, Before1, Held
    <2>. QED  BY <1>1, <1>7, <2>1, <2>2 DEF Counted
  <1>9. Spent'
    <2>1. ASSUME NEW i, Gone(i)' PROVE Gone(i)
      BY <1>1, <1>7, <2>1 DEF Gone
    <2>2. ASSUME NEW i \in 1 .. accepted', posts'[i].kind = "timer", Gone(i)'
          PROVE  posts'[i].times # -1 /\ served'[i] >= Max1(posts'[i].times)
      <3>1. i # accepted + 1 /\ i \in 1 .. accepted
        BY <1>3, <2>2
      <3>. QED  BY <1>1, <1>3, <2>1, <2>2, <3>1 DEF TimerInv, Spent
    <2>3. \A i \in Id : i > accepted' => served'[i] = 0
      BY <1>1, <1>3 DEF TimerInv, Spent, Id
    <2>. QED  BY <2>2, <2>3 DEF Spent
  <1>. QED  BY <1>4, <1>6, <1>7, <1>8, <1>9 DEF TimerInv

LEMMA PushTimerKeepsTimers ==
    ASSUME TypeOK, TimerInv, NEW p \in Poster, PushTimer(p)
    PROVE  TimerInv'
  <1>. DEFINE n0  == ticket[p].times
              new == [NewTask(accepted + 1, "timer", ticket[p].owner, ticket[p].due,
                              n0, ticket[p].interval) EXCEPT !.seq = dq.next]
  <1>1. /\ dq'.tasks = dq.tasks \cup {new} /\ Accept(p, "timer", ticket[p].delay, n0)
        /\ UNCHANGED <<tq, pc, cur, served>>
    BY DEF PushTimer, Push
  <1>2. new.id = accepted + 1 /\ new.kind = "timer" /\ new.times = n0
    BY DEF NewTask
  <1>. HIDE DEF new
  <1>3. /\ accepted' = accepted + 1 /\ accepted + 1 \in Id /\ accepted \in Nat
        /\ posts'[accepted + 1] = [kind |-> "timer", by |-> p, delay |-> ticket[p].delay,
                                   times |-> n0]
        /\ \A i \in 1 .. accepted : i \in Id /\ posts'[i] = posts[i]
        /\ served[accepted + 1] = 0
    BY <1>1, AcceptFacts
  <1>4. QueueKinds' /\ HoldsSomething'
    BY <1>1, <1>2 DEF TimerInv, QueueKinds, HoldsSomething, InHand
  <1>5. /\ \A t \in tq.tasks \cup dq.tasks : t.id \in 1 .. accepted /\ posts[t.id].kind = t.kind
        /\ InHand => cur.id \in 1 .. accepted /\ posts[cur.id].kind = cur.kind
    BY DEF TimerInv, OwnPosts, OfPost
  <1>6. OwnPosts'
    <2>1. \A t \in tq'.tasks \cup dq'.tasks : t.id \in 1 .. accepted' /\ posts'[t.id].kind = t.kind
      BY <1>1, <1>2, <1>3, <1>5
    <2>2. InHand' => cur'.id \in 1 .. accepted' /\ posts'[cur'.id].kind = cur'.kind
      BY <1>1, <1>3, <1>5 DEF InHand
    <2>. QED  BY <2>1, <2>2 DEF OwnPosts, OfPost
  <1>7. Held' <=> Held
    BY <1>1 DEF Held, InHand
  <1>8. OneCopy'
    <2>1. \A t \in dq.tasks : t.id # new.id
      BY <1>2, <1>3, <1>5
    <2>2. Held => cur.id # new.id
      BY <1>2, <1>3, <1>5 DEF Held
    <2>. QED  BY <1>1, <1>7, <2>1, <2>2 DEF TimerInv, OneCopy
  <1>9. Counted'
    <2>1. n0 \in Nat \cup {-1}
      BY TicketType DEF PushTimer
    <2>2. posts'[new.id].times = n0 /\ served'[new.id] = 0
      BY <1>1, <1>2, <1>3
    <2>3. IF n0 = -1 THEN new.times = -1 ELSE new.times = n0 - 0 /\ 0 < Max1(n0)
      BY <1>2, <2>1 DEF Max1
    <2>. HIDE DEF n0
    <2>4. ASSUME NEW t \in dq'.tasks
          PROVE  IF posts'[t.id].times = -1 THEN t.times = -1
                 ELSE /\ t.times = posts'[t.id].times - served'[t.id]
                      /\ served'[t.id] < Max1(posts'[t.id].times)
      <3>1. CASE t = new
        BY <2>2, <2>3, <3>1
      <3>2. CASE t \in dq.tasks
        BY <1>1, <1>3, <1>5, <3>2 DEF TimerInv, Counted, Left
      <3>. QED  BY <1>1, <3>1, <3>2
    <2>5. ASSUME Held PROVE Before1(cur.id)' \in Nat /\ Left(cur.id, cur.times, Before1(cur.id))'
      BY <1>1, <1>3, <1>5, <2>5 DEF TimerInv, Counted, Left, Before1, Held
    <2>. QED  BY <1>1, <1>7, <2>4, <2>5 DEF Counted, Left
  <1>10. Spent'
    <2>1. ASSUME NEW i, Gone(i)' PROVE Gone(i) /\ i # new.id
      BY <1>1, <1>7, <2>1 DEF Gone
    <2>2. ASSUME NEW i \in 1 .. accepted', posts'[i].kind = "timer", Gone(i)'
          PROVE  posts'[i].times # -1 /\ served'[i] >= Max1(posts'[i].times)
      <3>1. i \in 1 .. accepted
        BY <1>2, <1>3, <2>1, <2>2
      <3>. QED  BY <1>1, <1>3, <2>1, <2>2, <3>1 DEF TimerInv, Spent
    <2>3. \A i \in Id : i > accepted' => served'[i] = 0
      BY <1>1, <1>3 DEF TimerInv, Spent, Id
    <2>. QED  BY <2>2, <2>3 DEF Spent
  <1>. QED  BY <1>4, <1>6, <1>8, <1>9, <1>10 DEF TimerInv

LEMMA TakeTaskKeepsTimers == ASSUME TypeOK, TimerInv, TakeTask PROVE TimerInv'
  <1>1. PICK t \in tq.tasks : cur' = t /\ tq' = Remove(tq, t)
    BY DEF TakeTask
  <1>2. /\ tq'.tasks = tq.tasks \ {t}
        /\ UNCHANGED <<dq, posts, accepted, served>> /\ InHand' /\ ~InHand
    BY <1>1 DEF TakeTask, Remove, TypeOK, Queue, Goto, InHand
  <1>3. cur'.kind = "task"
    BY <1>1 DEF TimerInv, QueueKinds
  <1>4. ~Held /\ ~Held'
    BY <1>2, <1>3 DEF Held
  <1>5. OwnPosts'
    BY <1>1, <1>2 DEF TimerInv, OwnPosts, OfPost
  <1>6. QueueKinds' /\ HoldsSomething'
    BY <1>2, <1>3 DEF TimerInv, QueueKinds, HoldsSomething
  <1>. QED  BY <1>2, <1>4, <1>5, <1>6 DEF TimerInv, OneCopy, Counted, Left, Spent, Gone

LEMMA TakeTimerKeepsTimers == ASSUME TypeOK, TimerInv, TakeTimer PROVE TimerInv'
  <1>1. PICK t \in dq.tasks : cur' = t /\ dq' = Remove(dq, t)
    BY DEF TakeTimer
  <1>2. /\ dq'.tasks = dq.tasks \ {t} /\ pc' = "run"
        /\ UNCHANGED <<tq, posts, accepted, served>> /\ InHand' /\ ~InHand
    BY <1>1 DEF TakeTimer, Remove, TypeOK, Queue, Goto, InHand, history
  <1>3. cur'.kind = "timer"
    BY <1>1 DEF TimerInv, QueueKinds
  <1>4. ~Held /\ Held'
    BY <1>2, <1>3 DEF Held
  <1>5. OwnPosts'
    BY <1>1, <1>2 DEF TimerInv, OwnPosts, OfPost
  <1>6. QueueKinds' /\ HoldsSomething'
    BY <1>2, <1>3 DEF TimerInv, QueueKinds, HoldsSomething
  <1>7. OneCopy'
    BY <1>1, <1>2 DEF TimerInv, OneCopy
  <1>8. Counted'
    <2>1. t.id \in Id
      BY DEF TimerInv, OwnPosts, OfPost, TypeOK, Id
    <2>2. Before1(cur.id)' = served[t.id] /\ served[t.id] \in Nat
      BY <1>1, <1>2, <2>1 DEF Before1, TypeOK
    <2>3. Left(cur.id, cur.times, Before1(cur.id))'
      BY <1>1, <1>2, <2>2 DEF TimerInv, Counted, Left
    <2>. QED  BY <1>2, <2>2, <2>3 DEF TimerInv, Counted, Left
  <1>9. Spent'
    <2>1. ASSUME NEW i, Gone(i)' PROVE Gone(i)
      BY <1>1, <1>2, <1>4, <2>1 DEF Gone
    <2>. QED  BY <1>2, <2>1 DEF TimerInv, Spent
  <1>. QED  BY <1>5, <1>6, <1>7, <1>8, <1>9 DEF TimerInv
\* What the pump holds is a post that was accepted, of the same kind, and no
\* timer in the queue has its number.
LEMMA InHandFacts ==
    ASSUME TypeOK, TimerInv, InHand
    PROVE  /\ cur.id \in 1 .. accepted /\ cur.id \in Id /\ accepted \in Nat
           /\ posts[cur.id].kind = cur.kind /\ cur.kind \in {"task", "timer"}
           /\ \A t \in dq.tasks : t.id # cur.id /\ t.id \in Id
           /\ \A i \in Id : served[i] \in Nat
  <1>1. cur.id \in 1 .. accepted /\ posts[cur.id].kind = cur.kind
    BY DEF TimerInv, OwnPosts, OfPost
  <1>2. accepted \in 0 .. MaxPosts /\ cur.kind \in {"task", "timer"}
    BY DEF TypeOK, Task, TimerInv, HoldsSomething
  <1>3. \A t \in dq.tasks : t.id \in 1 .. accepted /\ posts[t.id].kind = "timer"
    BY DEF TimerInv, OwnPosts, OfPost, QueueKinds
  <1>4. \A t \in dq.tasks : t.id # cur.id
    BY <1>1, <1>2, <1>3 DEF TimerInv, OneCopy, Held
  <1>. QED  BY <1>1, <1>2, <1>3, <1>4 DEF TypeOK, Id

LEMMA EnterKeepsTimers == ASSUME TypeOK, TimerInv, Enter PROVE TimerInv'
  <1>1. /\ served' = [served EXCEPT ![cur.id] = @ + 1]
        /\ pc = "enter" /\ pc' = "call"
        /\ UNCHANGED <<tq, dq, cur, posts, accepted>>
    BY DEF Enter, Serve, Goto, queues
  <1>2. InHand /\ InHand'
    BY <1>1 DEF InHand
  <1>3. /\ cur.id \in 1 .. accepted /\ cur.id \in Id /\ accepted \in Nat
        /\ \A t \in dq.tasks : t.id # cur.id /\ t.id \in Id
        /\ \A i \in Id : served[i] \in Nat
    BY <1>2, InHandFacts
  <1>4. /\ served'[cur.id] = served[cur.id] + 1
        /\ \A i \in Id : i # cur.id => served'[i] = served[i]
    BY <1>1, <1>3 DEF TypeOK
  <1>5. Held' <=> Held
    BY <1>1, <1>2 DEF Held
  <1>6. QueueKinds' /\ HoldsSomething' /\ OwnPosts' /\ OneCopy'
    BY <1>1, <1>2, <1>5 DEF TimerInv, QueueKinds, HoldsSomething, OwnPosts, OfPost, OneCopy
  <1>7. Counted'
    <2>1. ASSUME NEW t \in dq.tasks PROVE Left(t.id, t.times, served[t.id])'
      BY <1>1, <1>3, <1>4 DEF TimerInv, Counted, Left
    <2>2. Before1(cur.id)' = Before1(cur.id)
      BY <1>1, <1>3, <1>4 DEF Before1
    <2>3. ASSUME Held PROVE Before1(cur.id)' \in Nat /\ Left(cur.id, cur.times, Before1(cur.id))'
      BY <1>1, <2>2, <2>3 DEF TimerInv, Counted, Left
    <2>. QED  BY <1>1, <1>5, <2>1, <2>3 DEF Counted
  <1>8. Spent'
    <2>1. ASSUME NEW i \in 1 .. accepted, posts[i].kind = "timer", Gone(i)'
          PROVE  posts[i].times # -1 /\ served'[i] >= Max1(posts[i].times)
      <3>1. Gone(i)
        BY <1>1, <1>5, <2>1 DEF Gone
      <3>2. i \in Id /\ posts[i].times # -1 /\ served[i] >= Max1(posts[i].times)
        BY <2>1, <3>1 DEF TimerInv, Spent, TypeOK, Id
      <3>3. posts[i].times \in Nat \cup {-1}
        BY <2>1, <3>2 DEF TypeOK, Record, NoPost
      <3>4. Max1(posts[i].times) \in Nat
        BY <3>3, <3>2 DEF Max1
      <3>. QED  BY <1>3, <1>4, <3>2, <3>4
    <2>2. \A i \in Id : i > accepted => served'[i] = 0
      BY <1>3, <1>4 DEF TimerInv, Spent
    <2>. QED  BY <1>1, <2>1, <2>2 DEF Spent
  <1>. QED  BY <1>6, <1>7, <1>8 DEF TimerInv

\* The end of a service: the task is dropped, the timer comes back or is spent.
LEMMA FinishKeepsTimerInv ==
    ASSUME TypeOK, TimerInv, InHand, Finish, UNCHANGED <<tq, posts, accepted>>,
           served'[cur.id] = Before1(cur.id) + 1,
           \A i \in Id : i # cur.id => served'[i] = served[i]
    PROVE  TimerInv'
  <1>. DEFINE new == [Rearmed(cur) EXCEPT !.seq = dq.next]
  <1>1. ~InHand' /\ ~Held'
    BY DEF Finish, Goto, InHand, Held
  <1>2. /\ cur.id \in 1 .. accepted /\ cur.id \in Id /\ accepted \in Nat
        /\ posts[cur.id].kind = cur.kind /\ cur.kind \in {"task", "timer"}
        /\ \A t \in dq.tasks : t.id # cur.id /\ t.id \in Id
    BY InHandFacts
  <1>3. HoldsSomething'
    BY <1>1 DEF HoldsSomething
  <1>4. ASSUME NEW i \in 1 .. accepted, i # cur.id, posts[i].kind = "timer", Gone(i)
        PROVE  posts[i].times # -1 /\ served'[i] >= Max1(posts[i].times)
    <2>1. posts[i].times # -1 /\ served[i] >= Max1(posts[i].times)
      BY <1>4 DEF TimerInv, Spent
    <2>2. i \in Id
      BY DEF TypeOK, Id
    <2>. QED  BY <1>4, <2>1, <2>2
  <1>5. \A i \in Id : i > accepted => served'[i] = 0
    BY <1>2 DEF TimerInv, Spent
  <1>6. \A t \in dq.tasks : Left(t.id, t.times, served'[t.id])
    BY <1>2 DEF TimerInv, Counted
  <1>7. CASE cur.kind = "task"
    <2>1. dq' = dq
      BY <1>7 DEF Finish
    <2>2. QueueKinds' /\ OwnPosts' /\ OneCopy'
      BY <1>1, <2>1 DEF TimerInv, QueueKinds, OwnPosts, OfPost, OneCopy
    <2>3. Counted'
      BY <1>1, <1>6, <2>1 DEF Counted, Left
    <2>4. ASSUME NEW i, Gone(i)' PROVE Gone(i)
      BY <1>7, <2>1, <2>4 DEF Gone, Held
    <2>5. Spent'
      BY <1>2, <1>4, <1>5, <1>7, <2>4 DEF Spent
    <2>. QED  BY <1>3, <2>2, <2>3, <2>5 DEF TimerInv
  <1>8. CASE cur.kind = "timer"
    <2>. DEFINE n == posts[cur.id].times
                k == Before1(cur.id)
    <2>1. dq' = (IF Repeats(cur) THEN Push(dq, Rearmed(cur)) ELSE dq)
      BY <1>8 DEF Finish
    <2>2. n \in Nat \cup {-1}
      <3>1. posts[cur.id] \in Record /\ posts[cur.id] # NoPost
        BY <1>2, <1>8 DEF TypeOK, NoPost
      <3>. QED  BY <3>1 DEF Record
    <2>3. k \in Nat /\ Left(cur.id, cur.times, k)
      BY <1>8 DEF TimerInv, Counted, Held
    <2>. HIDE DEF n, k
    <2>4. IF n = -1 THEN cur.times = -1
          ELSE cur.times = n - k /\ k < Max1(n)
      BY <2>3 DEF Left, n
    <2>5. served'[cur.id] = k + 1
      BY DEF k
    <2>6. CASE Repeats(cur)
      <3>1. cur \in Task
        BY DEF TypeOK
      <3>2. /\ new.id = cur.id /\ new.kind = "timer"
            /\ new.times = IF cur.times = -1 THEN -1 ELSE cur.times - 1
        BY <1>8, <3>1 DEF Rearmed, Task
      <3>3. dq'.tasks = dq.tasks \cup {new}
        BY <2>1, <2>6 DEF Push
      <3>. HIDE DEF new
      <3>4. QueueKinds'
        BY <3>2, <3>3 DEF TimerInv, QueueKinds
      <3>5. OwnPosts'
        <4>1. /\ \A t \in tq.tasks \cup dq.tasks : t.id \in 1 .. accepted /\ posts[t.id].kind = t.kind
          BY DEF TimerInv, OwnPosts, OfPost
        <4>2. \A t \in tq'.tasks \cup dq'.tasks :
                 t.id \in 1 .. accepted' /\ posts'[t.id].kind = t.kind
          BY <1>2, <1>8, <3>2, <3>3, <4>1
        <4>. QED  BY <1>1, <4>2 DEF OwnPosts, OfPost
      <3>6. OneCopy'
        BY <1>1, <1>2, <3>2, <3>3 DEF TimerInv, OneCopy
      <3>7. Left(new.id, new.times, served'[new.id])
        <4>1. CASE n = -1
          BY <2>4, <3>2, <4>1 DEF Left, n
        <4>2. CASE n # -1
          <5>1. n \in Nat /\ cur.times = n - k /\ k < Max1(n)
            BY <2>2, <2>4, <4>2
          <5>2. cur.times # -1 /\ cur.times - 1 > 0
            BY <2>3, <2>6, <5>1 DEF Repeats, Max1
          <5>3. new.times = n - (k + 1) /\ k + 1 < Max1(n)
            BY <2>3, <3>2, <5>1, <5>2 DEF Max1
          <5>. QED  BY <2>5, <3>2, <4>2, <5>3 DEF Left, n
        <4>. QED  BY <4>1, <4>2
      <3>8. Counted'
        <4>1. \A t \in dq'.tasks : Left(t.id, t.times, served'[t.id])
          BY <1>6, <3>3, <3>7
        <4>. QED  BY <1>1, <4>1 DEF Counted, Left
      <3>9. ASSUME NEW i, Gone(i)' PROVE Gone(i) /\ i # cur.id
        BY <3>2, <3>3, <3>9 DEF Gone
      <3>10. Spent'
        BY <1>4, <1>5, <3>9 DEF Spent
      <3>. QED  BY <1>3, <3>4, <3>5, <3>6, <3>8, <3>10 DEF TimerInv
    <2>7. CASE ~Repeats(cur)
      <3>1. dq' = dq
        BY <2>1, <2>7
      <3>2. QueueKinds' /\ OwnPosts' /\ OneCopy'
        BY <1>1, <3>1 DEF TimerInv, QueueKinds, OwnPosts, OfPost, OneCopy
      <3>3. Counted'
        BY <1>1, <1>6, <3>1 DEF Counted, Left
      <3>4. n # -1 /\ served'[cur.id] >= Max1(n)
        <4>1. cur.times # -1 /\ ~(cur.times - 1 > 0)
          BY <2>7 DEF Repeats
        <4>2. n \in Nat /\ cur.times = n - k
          BY <2>2, <2>4, <4>1
        <4>. QED  BY <2>3, <2>5, <4>1, <4>2 DEF Max1
      <3>5. ASSUME NEW i, i # cur.id, Gone(i)' PROVE Gone(i)
        BY <3>1, <3>5 DEF Gone
      <3>6. Spent'
        BY <1>4, <1>5, <3>4, <3>5 DEF Spent, n
      <3>. QED  BY <1>3, <3>2, <3>3, <3>6 DEF TimerInv
    <2>. QED  BY <2>6, <2>7
  <1>. QED  BY <1>2, <1>7, <1>8

LEMMA ReturnKeepsTimers == ASSUME TypeOK, TimerInv, Return PROVE TimerInv'
  <1>1. InHand /\ Finish /\ UNCHANGED <<tq, posts, accepted, served>> /\ pc = "call"
    BY DEF Return, InHand
  <1>2. served[cur.id] \in Nat
    BY <1>1, InHandFacts
  <1>3. served'[cur.id] = Before1(cur.id) + 1
    BY <1>1, <1>2 DEF Before1
  <1>. QED  BY <1>1, <1>3, FinishKeepsTimerInv

LEMMA SkipKeepsTimers == ASSUME TypeOK, TimerInv, Skip PROVE TimerInv'
  <1>1. /\ InHand /\ Finish /\ UNCHANGED <<tq, posts, accepted>> /\ pc = "run"
        /\ served' = [served EXCEPT ![cur.id] = @ + 1]
    BY DEF Skip, Serve, InHand
  <1>2. cur.id \in Id /\ served \in [Id -> Nat]
    BY <1>1, InHandFacts DEF TypeOK
  <1>3. served'[cur.id] = Before1(cur.id) + 1 /\ \A i \in Id : i # cur.id => served'[i] = served[i]
    BY <1>1, <1>2 DEF Before1
  <1>. QED  BY <1>1, <1>3, FinishKeepsTimerInv

LEMMA NextKeepsTimers == ASSUME TypeOK, TimerInv, [Next]_vars PROVE TimerInv'
  <1>1. CASE RegisterThread
    BY <1>1, TimerUntouched DEF RegisterThread, queues, history, InHand
  <1>2. ASSUME NEW p \in Poster, Post(p) PROVE TimerInv'
    <2>1. ASSUME NEW o \in Owner, PostTask(p, o) PROVE TimerInv'
      BY <2>1, PostTaskKeepsTimers
    <2>2. ASSUME NEW o \in Owner, NEW d, NEW n, NEW iv, ComputeDue(p, o, d, n, iv)
          PROVE  TimerInv'
      BY <2>2, TimerUntouched DEF ComputeDue, queues, history, InHand
    <2>. QED  BY <1>2, <2>1, <2>2 DEF Post, PostDelayedTask, PostRepeatedTask
  <1>3. ASSUME NEW p \in Poster, PushTimer(p) PROVE TimerInv'
    BY <1>3, PushTimerKeepsTimers
  <1>4. ASSUME NEW p \in Poster, NEW o \in Owner, Destroy(p, o) PROVE TimerInv'
    BY <1>4, TimerUntouched DEF Destroy, queues, history, InHand
  <1>5. CASE Start
    BY <1>5, TimerUntouched DEF Start, Goto, Again, queues, history, InHand
  <1>6. CASE TakeTask
    BY <1>6, TakeTaskKeepsTimers
  <1>7. CASE ReadClock \/ CheckTimer \/ Wait
    BY <1>7, TimerUntouched DEF ReadClock, CheckTimer, Wait, Goto, Again, queues, history, InHand
  <1>8. CASE TakeTimer
    BY <1>8, TakeTimerKeepsTimers
  <1>9. CASE Test
    BY <1>9, TimerUntouched DEF Test, Goto, queues, history, InHand
  <1>10. CASE Enter
    BY <1>10, EnterKeepsTimers
  <1>11. CASE Skip
    BY <1>11, SkipKeepsTimers
  <1>12. CASE Return
    BY <1>12, ReturnKeepsTimers
  <1>13. CASE RequestStop
    BY <1>13, TimerUntouched DEF RequestStop, queues, history, InHand
  <1>14. CASE Tick
    BY <1>14, TimerUntouched DEF Tick, queues, history, InHand
  <1>15. CASE UNCHANGED vars
    BY <1>15, TimerUntouched DEF vars, queues, history, InHand
  <1>. QED  BY <1>1, <1>2, <1>3, <1>4, <1>5, <1>6, <1>7, <1>8, <1>9, <1>10, <1>11,
               <1>12, <1>13, <1>14, <1>15 DEF Next, PumpStep

LEMMA InitTimerInv == Init => TimerInv
  <1>. SUFFICES ASSUME Init PROVE TimerInv
    OBVIOUS
  <1>1. /\ tq.tasks = {} /\ dq.tasks = {} /\ ~InHand /\ accepted = 0
        /\ \A i \in Id : served[i] = 0
    BY DEF Init, EmptyQueue, InHand
  <1>. QED  BY <1>1 DEF TimerInv, QueueKinds, HoldsSomething, OwnPosts, OneCopy,
                        Counted, Spent, Held

\* No timer is lost, doubled, or run more or fewer times than it was asked for,
\* whoever posts it and whatever is posted while the pump runs it.
THEOREM TimersConserved == Spec => []TimerConservation
  <1>1. Init => TimerInv
    BY InitTimerInv
  <1>2. TypeOK /\ TimerInv /\ [Next]_vars => TimerInv'
    BY NextKeepsTimers
  <1>3. TypeOK /\ TimerInv => TimerConservation
    BY TimerInvImplies
  <1>. QED  BY <1>1, <1>2, <1>3, TypeCorrect, PTL DEF Spec
-----------------------------------------------------------------------------
(* No timer early, none twice in a round.  The strengthening says why the     *)
(* unlocked gap between checkTopTask and getTask is harmless: what was found  *)
(* due stays due, and whatever is at the top instead is due no later; and     *)
(* what ran in this round comes back with a tick that is not yet due.         *)

RoundInv ==
    /\ nowTick <= clock
    /\ pc \in {"new", "drain", "gone"} => round = {}
    /\ InHand /\ cur.kind = "task" => round = {}
    /\ pc = "take" => \E t \in dq.tasks : t.tick < nowTick
    /\ Held => cur.tick < nowTick /\ cur.id \notin round
    /\ \A t \in dq.tasks : t.id \in round => t.tick >= nowTick
    /\ \A i \in round : i <= accepted

\* The steps that change neither the queue of timers nor the round
LEMMA RoundUntouched ==
    ASSUME TypeOK, RoundInv, UNCHANGED <<dq, cur, nowTick, round, accepted>>,
           nowTick <= clock',
           pc' \in {"new", "drain", "gone"} => pc \in {"new", "drain", "gone"},
           InHand' => InHand,
           pc' = "take" => \E t \in dq.tasks : t.tick < nowTick
    PROVE  RoundInv'
  <1>1. /\ Held' => cur'.tick < nowTick' /\ cur'.id \notin round'
        /\ InHand' /\ cur'.kind = "task" => round' = {}
    BY DEF RoundInv, Held
  <1>. QED  BY <1>1 DEF RoundInv

LEMMA PushTimerKeepsRound ==
    ASSUME TypeOK, TimerInv, RoundInv, NEW p \in Poster, PushTimer(p) PROVE RoundInv'
  <1>. DEFINE new == [NewTask(accepted + 1, "timer", ticket[p].owner, ticket[p].due,
                              ticket[p].times, ticket[p].interval) EXCEPT !.seq = dq.next]
  <1>1. /\ dq'.tasks = dq.tasks \cup {new} /\ Accept(p, "timer", ticket[p].delay, ticket[p].times)
        /\ UNCHANGED <<clock, pc, cur, nowTick, round>>
    BY DEF PushTimer, Push
  <1>2. new.id = accepted + 1
    BY DEF NewTask
  <1>. HIDE DEF new
  <1>3. accepted' = accepted + 1 /\ accepted \in Nat
    BY <1>1, AcceptFacts
  <1>4. new.id \notin round /\ round \subseteq Nat
    BY <1>2, <1>3 DEF RoundInv, TypeOK
  <1>. QED  BY <1>1, <1>3, <1>4 DEF RoundInv, Held, InHand

LEMMA TakeTimerKeepsRound == ASSUME TypeOK, TimerInv, RoundInv, TakeTimer PROVE RoundInv'
  <1>1. PICK t \in dq.tasks : IsTop(t, dq) /\ cur' = t /\ dq' = Remove(dq, t)
    BY DEF TakeTimer
  <1>2. /\ pc = "take" /\ pc' = "run" /\ dq'.tasks = dq.tasks \ {t}
        /\ UNCHANGED <<clock, nowTick, accepted, round>>
    BY <1>1 DEF TakeTimer, Remove, TypeOK, Queue, Goto, history
  <1>3. PICK u \in dq.tasks : u.tick < nowTick
    BY <1>2 DEF RoundInv
  <1>4. t.tick \in Nat /\ u.tick \in Nat /\ nowTick \in Nat
    BY DEF TypeOK, Queue, Task
  <1>5. t.tick < nowTick
    <2>1. u # t => t.tick <= u.tick
      BY <1>1, <1>4 DEF IsTop, Before
    <2>. QED  BY <1>3, <1>4, <2>1
  <1>6. t.id \notin round
    BY <1>4, <1>5 DEF RoundInv
  <1>7. cur'.kind = "timer"
    BY <1>1 DEF TimerInv, QueueKinds
  <1>. QED  BY <1>1, <1>2, <1>5, <1>6, <1>7 DEF RoundInv, Held, InHand

LEMMA FinishKeepsRound ==
    ASSUME TypeOK, TimerInv, RoundInv, InHand, Finish, UNCHANGED <<clock, nowTick, accepted>>
    PROVE  RoundInv'
  <1>1. ~InHand' /\ pc' \in {"drain", "check"}
    BY DEF Finish, Goto, InHand
  <1>2. /\ cur.id \in 1 .. accepted /\ cur.kind \in {"task", "timer"}
        /\ \A t \in dq.tasks : t.id # cur.id
    BY InHandFacts
  <1>3. CASE cur.kind = "task"
    BY <1>1, <1>3 DEF Finish, RoundInv, Held
  <1>4. CASE cur.kind = "timer"
    <2>1. /\ dq' = (IF Repeats(cur) THEN Push(dq, Rearmed(cur)) ELSE dq)
          /\ round' = round \cup {cur.id} /\ pc' = "check"
      BY <1>4 DEF Finish, Goto
    <2>2. \A t \in dq'.tasks : t \in dq.tasks \/ t = [Rearmed(cur) EXCEPT !.seq = dq.next]
      BY <2>1 DEF Push
    <2>3. [Rearmed(cur) EXCEPT !.seq = dq.next].tick >= nowTick
      <3>1. cur \in Task /\ nowTick \in Nat
        BY DEF TypeOK
      <3>2. Rearmed(cur).tick = nowTick + cur.interval
        BY <3>1 DEF Rearmed, Task
      <3>3. [Rearmed(cur) EXCEPT !.seq = dq.next].tick = Rearmed(cur).tick
        BY DEF Rearmed
      <3>. QED  BY <3>1, <3>2, <3>3 DEF Task
    <2>4. \A t \in dq'.tasks : t.id \in round' => t.tick >= nowTick
      BY <1>2, <2>1, <2>2, <2>3 DEF RoundInv
    <2>. QED  BY <1>1, <1>2, <2>1, <2>4 DEF RoundInv, Held
  <1>. QED  BY <1>2, <1>3, <1>4

LEMMA NextKeepsRound == ASSUME TypeOK, TimerInv, RoundInv, [Next]_vars PROVE RoundInv'
  <1>0. clock \in Nat /\ nowTick \in Nat /\ nowTick <= clock
    BY DEF TypeOK, RoundInv
  <1>1. CASE RegisterThread
    BY <1>0, <1>1, RoundUntouched DEF RegisterThread, queues, history, InHand, RoundInv
  <1>2. ASSUME NEW p \in Poster, Post(p) PROVE RoundInv'
    <2>1. ASSUME NEW o \in Owner, PostTask(p, o) PROVE RoundInv'
      <3>1. Accept(p, "task", 0, 1) /\ "task" \in {"task", "timer"}
        BY <2>1 DEF PostTask
      <3>2. accepted' = accepted + 1 /\ accepted \in Nat
        BY <3>1, AcceptFacts
      <3>3. \A i \in round : i \in Nat
        BY DEF TypeOK
      <3>. QED  BY <2>1, <3>2, <3>3 DEF PostTask, RoundInv, Held, InHand
    <2>2. ASSUME NEW o \in Owner, NEW d, NEW n, NEW iv, ComputeDue(p, o, d, n, iv)
          PROVE  RoundInv'
      BY <1>0, <2>2, RoundUntouched DEF ComputeDue, queues, history, InHand, RoundInv
    <2>. QED  BY <1>2, <2>1, <2>2 DEF Post, PostDelayedTask, PostRepeatedTask
  <1>3. ASSUME NEW p \in Poster, PushTimer(p) PROVE RoundInv'
    BY <1>3, PushTimerKeepsRound
  <1>4. ASSUME NEW p \in Poster, NEW o \in Owner, Destroy(p, o) PROVE RoundInv'
    BY <1>0, <1>4, RoundUntouched DEF Destroy, queues, history, InHand, RoundInv
  <1>5. CASE Start
    BY <1>0, <1>5, RoundUntouched DEF Start, Goto, Again, queues, history, InHand
  <1>6. CASE TakeTask
    <2>1. /\ pc = "drain" /\ pc' = "run" /\ UNCHANGED <<clock, dq, nowTick, accepted, round>>
          /\ cur'.kind = "task"
      BY <1>6 DEF TakeTask, Goto, TimerInv, QueueKinds
    <2>. QED  BY <2>1 DEF RoundInv, Held, InHand
  <1>7. CASE ReadClock
    BY <1>0, <1>7 DEF ReadClock, Goto, queues, history, InHand, RoundInv, Held
  <1>8. CASE CheckTimer
    <2>1. pc' = "take" => \E t \in dq.tasks : t.tick < nowTick
      <3>1. ASSUME NEW t \in dq.tasks, Due(t) PROVE t.tick < nowTick
        BY <3>1 DEF Due, TypeOK, Queue, Task
      <3>. QED  BY <1>8, <3>1 DEF CheckTimer, Goto
    <2>2. pc' \in {"take", "wait"}
      BY <1>8 DEF CheckTimer, Goto
    <2>. QED  BY <1>0, <1>8, <2>1, <2>2, RoundUntouched DEF CheckTimer, queues, history, InHand
  <1>9. CASE TakeTimer
    BY <1>9, TakeTimerKeepsRound
  <1>10. CASE Test \/ Enter
    BY <1>0, <1>10, RoundUntouched DEF Test, Enter, Goto, queues, history, InHand
  <1>11. CASE Skip \/ Return
    BY <1>11, FinishKeepsRound DEF Skip, Return, InHand
  <1>12. CASE Wait
    BY <1>0, <1>12 DEF Wait, Goto, Again, queues, history, InHand, RoundInv, Held, TypeOK, Queue, Task
  <1>13. CASE RequestStop
    BY <1>0, <1>13, RoundUntouched DEF RequestStop, queues, history, InHand
  <1>14. CASE Tick
    BY <1>0, <1>14, RoundUntouched DEF Tick, queues, history, InHand, RoundInv
  <1>15. CASE UNCHANGED vars
    BY <1>0, <1>15, RoundUntouched DEF vars, queues, history, InHand, RoundInv
  <1>. QED  BY <1>1, <1>2, <1>3, <1>4, <1>5, <1>6, <1>7, <1>8, <1>9, <1>10, <1>11,
               <1>12, <1>13, <1>14, <1>15 DEF Next, PumpStep

LEMMA RoundInvariant == Spec => [](TypeOK /\ TimerInv /\ RoundInv)
  <1>1. Init => TimerInv
    BY InitTimerInv
  <1>2. Init => RoundInv
    BY DEF Init, RoundInv, EmptyQueue, InHand, Held
  <1>3. TypeOK /\ TimerInv /\ RoundInv /\ [Next]_vars => TimerInv' /\ RoundInv'
    BY NextKeepsTimers, NextKeepsRound
  <1>. QED  BY <1>1, <1>2, <1>3, TypeCorrect, PTL DEF Spec

\* A timer is entered only after its due tick as the clock was read, although
\* the lock is given up between the check and the taking of it.
THEOREM TimersNeverEarly == Spec => []NeverEarly
  <1>1. RoundInv => NeverEarly
    BY DEF RoundInv, NeverEarly, Held
  <1>. QED  BY <1>1, RoundInvariant, PTL

\* Whatever its interval, zero included, a timer runs at most once per reading
\* of the clock: the timer loop ends and _task_queue is looked at again.
THEOREM TimersOncePerRound == Spec => []OncePerRound
  <1>1. RoundInv => OncePerRound
    BY DEF RoundInv, OncePerRound, Held
  <1>. QED  BY <1>1, RoundInvariant, PTL

----------------------------------------------------------------------------
(* The order of one thread's timers *)

\* Posts of one thread, the second later and with no shorter a delay
Later(i, j) == i < j /\ posts[i].by = posts[j].by /\ posts[i].delay <= posts[j].delay

\* Where a timer that has runs to come may be
Copies == dq.tasks \cup (IF Held THEN {cur} ELSE {})

\* A timer that has not been served yet comes due before the later ones of its thread,
\* those included whose due tick is computed and which are not pushed yet.
Ahead(t) ==
    /\ t.tick <= clock + posts[t.id].delay
    /\ \A p \in Poster :
         /\ ticket[p] # Idle /\ posts[t.id].by = p /\ posts[t.id].delay <= ticket[p].delay
         => t.tick <= ticket[p].due
    /\ t.seq < dq.next
    /\ \A u \in dq.tasks : Later(t.id, u.id) => t.tick <= u.tick /\ t.seq < u.seq
    /\ Held => ~Later(t.id, cur.id)
    /\ \A j \in 1 .. accepted : posts[j].kind = "timer" /\ Later(t.id, j) => served[j] = 0

OrderInv ==
    /\ \A t \in Copies : served[t.id] = 0 => Ahead(t)
    /\ \A p \in Poster : ticket[p] # Idle => ticket[p].due <= clock + ticket[p].delay

LEMMA CopyFacts ==
    ASSUME TypeOK, TimerInv, NEW t \in Copies
    PROVE  /\ t.id \in 1 .. accepted /\ t.id \in Id /\ posts[t.id].kind = "timer"
           /\ posts[t.id].by \in Poster /\ posts[t.id].delay \in Nat
           /\ t.tick \in Nat /\ t.seq \in Nat /\ t \in Task
           /\ clock \in Nat /\ accepted \in Nat /\ dq.next \in Nat
           /\ served[t.id] \in Nat
  <1>1. t \in Task /\ t.kind = "timer" /\ OfPost(t)
    BY DEF Copies, Held, TypeOK, Queue, TimerInv, OwnPosts, QueueKinds
  <1>2. accepted \in 0 .. MaxPosts /\ dq.next \in Nat /\ clock \in Nat
    BY DEF TypeOK, Queue
  <1>3. t.id \in 1 .. accepted /\ t.id \in Id /\ posts[t.id].kind = "timer"
    BY <1>1, <1>2 DEF OfPost, Id
  <1>4. posts[t.id] \in Record /\ posts[t.id] # NoPost
    BY <1>3 DEF TypeOK, NoPost
  <1>. QED  BY <1>1, <1>2, <1>3, <1>4 DEF Task, Record, TypeOK

LEMMA TicketFacts ==
    ASSUME TypeOK, NEW p \in Poster, ticket[p] # Idle
    PROVE  /\ ticket[p].due \in Nat /\ ticket[p].delay \in Nat /\ ticket[p].interval \in Nat
           /\ ticket[p].times \in Nat \cup {-1} /\ ticket[p].owner \in Owner
           /\ clock \in Nat
  <1>1. ticket[p] \in [due : Nat, owner : Owner, delay : Delay,
                       times : Nat \cup {-1}, interval : Nat]
    BY TicketType
  <1>2. clock \in Nat
    BY DEF TypeOK
  <1>. QED  BY <1>1, <1>2

LEMMA OrderInvImplies == ASSUME TypeOK, TimerInv, OrderInv PROVE PosterOrder
  <1>. SUFFICES ASSUME NEW i \in 1 .. accepted, NEW j \in 1 .. accepted,
                       posts[i].kind = "timer", posts[j].kind = "timer", Later(i, j),
                       served[j] > 0, ~(served[i] > 0)
                PROVE  FALSE
    BY DEF PosterOrder, Later
  <1>1. i \in Id /\ j \in Id /\ served[i] = 0
    BY DEF TypeOK, Id
  <1>2. posts[i] \in Record /\ posts[i] # NoPost
    BY <1>1 DEF TypeOK, NoPost
  <1>3. ~Gone(i)
    <2>1. posts[i].times \in Nat \cup {-1}
      BY <1>2 DEF Record
    <2>. QED  BY <1>1, <2>1 DEF TimerInv, Spent, Max1
  <1>4. PICK t \in Copies : t.id = i
    BY <1>3 DEF Gone, Copies
  <1>. QED  BY <1>1, <1>4 DEF OrderInv, Ahead

\* The steps that leave the copies, the counts and the tickets alone
LEMMA OrderUntouched ==
    ASSUME TypeOK, TimerInv, OrderInv, UNCHANGED <<dq, ticket, posts, accepted, served>>,
           clock' \in Nat, clock <= clock',
           (Held' <=> Held) /\ (Held => cur' = cur)
    PROVE  OrderInv'
  <1>1. Copies' = Copies
    BY DEF Copies
  <1>2. ASSUME NEW t \in Copies, served[t.id] = 0 PROVE Ahead(t)'
    <2>1. Ahead(t)
      BY <1>2 DEF OrderInv
    <2>2. t.tick <= clock' + posts[t.id].delay
      BY <2>1, CopyFacts DEF Ahead
    <2>. QED  BY <2>1, <2>2 DEF Ahead, Later
  <1>3. ASSUME NEW p \in Poster, ticket[p] # Idle PROVE ticket[p].due <= clock' + ticket[p].delay
    <2>1. ticket[p].due \in Nat /\ ticket[p].delay \in Nat /\ clock \in Nat
      BY <1>3, TicketFacts
    <2>. QED  BY <1>3, <2>1 DEF OrderInv
  <1>. QED  BY <1>1, <1>2, <1>3 DEF OrderInv

LEMMA PostTaskKeepsOrder ==
    ASSUME TypeOK, TimerInv, OrderInv, NEW p \in Poster, NEW o \in Owner, PostTask(p, o)
    PROVE  OrderInv'
  <1>1. /\ Accept(p, "task", 0, 1) /\ UNCHANGED <<dq, pc, cur, served, clock, ticket>>
    BY DEF PostTask
  <1>2. /\ accepted' = accepted + 1 /\ accepted + 1 \in Id /\ accepted \in Nat
        /\ posts'[accepted + 1] = [kind |-> "task", by |-> p, delay |-> 0, times |-> 1]
        /\ \A i \in 1 .. accepted : i \in Id /\ posts'[i] = posts[i]
    BY <1>1, AcceptFacts
  <1>3. Copies' = Copies /\ Held' = Held
    BY <1>1 DEF Copies, Held, InHand
  <1>4. ASSUME NEW t \in Copies, served[t.id] = 0 PROVE Ahead(t)'
    <2>1. Ahead(t) /\ t.id \in 1 .. accepted /\ posts'[t.id] = posts[t.id]
      BY <1>2, <1>4, CopyFacts DEF OrderInv
    <2>2. \A u \in Copies : u.id \in 1 .. accepted /\ posts'[u.id] = posts[u.id]
      BY <1>2, CopyFacts
    <2>3. /\ \A u \in dq.tasks : Later(t.id, u.id)' => t.tick <= u.tick /\ t.seq < u.seq
          /\ Held => ~Later(t.id, cur.id)'
      BY <1>1, <2>1, <2>2 DEF Ahead, Later, Copies
    <2>4. \A j \in 1 .. accepted' : posts'[j].kind = "timer" /\ Later(t.id, j)' => served[j] = 0
      BY <1>2, <2>1 DEF Ahead, Later
    <2>. QED  BY <1>1, <1>3, <2>1, <2>3, <2>4 DEF Ahead
  <1>. QED  BY <1>1, <1>3, <1>4 DEF OrderInv

LEMMA ComputeDueKeepsOrder ==
    ASSUME TypeOK, TimerInv, OrderInv, NEW p \in Poster, NEW o, NEW d \in Nat, NEW n, NEW iv,
           ComputeDue(p, o, d, n, iv)
    PROVE  OrderInv'
  <1>1. /\ UNCHANGED <<dq, pc, cur, posts, accepted, served, clock>>
        /\ ticket' = [ticket EXCEPT ![p] = [due |-> clock + d, owner |-> o, delay |-> d,
                                            times |-> n, interval |-> iv]]
    BY DEF ComputeDue, queues, history
  <1>2. /\ ticket'[p].due = clock + d /\ ticket'[p].delay = d
        /\ \A q \in Poster : q # p => ticket'[q] = ticket[q]
    BY <1>1 DEF TypeOK
  <1>3. Copies' = Copies /\ Held' = Held
    BY <1>1 DEF Copies, Held, InHand
  <1>4. ASSUME NEW t \in Copies, served[t.id] = 0 PROVE Ahead(t)'
    <2>1. Ahead(t)
      BY <1>4 DEF OrderInv
    <2>2. ASSUME NEW q \in Poster, ticket'[q] # Idle, posts[t.id].by = q,
                 posts[t.id].delay <= ticket'[q].delay
          PROVE  t.tick <= ticket'[q].due
      <3>1. CASE q = p
        <4>1. /\ t.tick <= clock + posts[t.id].delay /\ posts[t.id].delay <= d
              /\ ticket'[q].due = clock + d
          BY <1>2, <2>1, <2>2, <3>1 DEF Ahead
        <4>. QED  BY <4>1, CopyFacts
      <3>2. CASE q # p
        BY <1>2, <2>1, <2>2, <3>2 DEF Ahead
      <3>. QED  BY <3>1, <3>2
    <2>. QED  BY <1>1, <1>3, <2>1, <2>2 DEF Ahead, Later
  <1>5. ASSUME NEW q \in Poster, ticket'[q] # Idle
        PROVE  ticket'[q].due <= clock + ticket'[q].delay
    <2>1. clock + d <= clock + d
      BY DEF TypeOK
    <2>. QED  BY <1>2, <1>5, <2>1 DEF OrderInv
  <1>. QED  BY <1>1, <1>3, <1>4, <1>5 DEF OrderInv

LEMMA PushTimerKeepsOrder ==
    ASSUME TypeOK, TimerInv, OrderInv, NEW p \in Poster, PushTimer(p)
    PROVE  OrderInv'
  <1>1. /\ dq'.next = dq.next + 1
        /\ Accept(p, "timer", ticket[p].delay, ticket[p].times)
        /\ ticket[p] # Idle /\ ticket' = [ticket EXCEPT ![p] = Idle]
        /\ UNCHANGED <<clock, pc, cur, served>>
    BY DEF PushTimer, Push
  <1>2. PICK new : /\ dq'.tasks = dq.tasks \cup {new}
                   /\ new.id = accepted + 1 /\ new.tick = ticket[p].due /\ new.seq = dq.next
    <2>. DEFINE n == [NewTask(accepted + 1, "timer", ticket[p].owner, ticket[p].due,
                              ticket[p].times, ticket[p].interval) EXCEPT !.seq = dq.next]
    <2>1. dq'.tasks = dq.tasks \cup {n}
      BY DEF PushTimer, Push
    <2>2. n.id = accepted + 1 /\ n.tick = ticket[p].due /\ n.seq = dq.next
      BY DEF NewTask
    <2>. QED  BY <2>1, <2>2
  <1>3. /\ accepted' = accepted + 1 /\ accepted + 1 \in Id /\ accepted \in Nat
        /\ posts'[accepted + 1] = [kind |-> "timer", by |-> p, delay |-> ticket[p].delay,
                                   times |-> ticket[p].times]
        /\ \A i \in 1 .. accepted : i \in Id /\ posts'[i] = posts[i]
        /\ served[accepted + 1] = 0
    BY <1>1, AcceptFacts
  <1>4. Copies' = Copies \cup {new} /\ Held' = Held
    BY <1>1, <1>2 DEF Copies, Held, InHand
  <1>5. \A u \in Copies : u.id \in 1 .. accepted /\ posts'[u.id] = posts[u.id]
    BY <1>3, CopyFacts
  <1>6. ticket'[p] = Idle /\ \A q \in Poster : q # p => ticket'[q] = ticket[q]
    BY <1>1 DEF TypeOK
  <1>7. ASSUME NEW t \in Copies, served[t.id] = 0 PROVE Ahead(t)'
    <2>1. Ahead(t) /\ t.id \in 1 .. accepted /\ posts'[t.id] = posts[t.id] /\ t.seq < dq.next
      BY <1>5, <1>7 DEF OrderInv, Ahead
    <2>2. t.seq \in Nat /\ dq.next \in Nat
      BY CopyFacts
    <2>3. Later(t.id, new.id)' => t.tick <= new.tick /\ t.seq < new.seq
      BY <1>1, <1>2, <1>3, <2>1 DEF Later, Ahead
    <2>4. /\ \A u \in dq.tasks : Later(t.id, u.id)' => t.tick <= u.tick /\ t.seq < u.seq
          /\ Held => ~Later(t.id, cur.id)'
      BY <1>1, <1>5, <2>1 DEF Ahead, Later, Copies
    <2>5. \A u \in dq'.tasks : Later(t.id, u.id)' => t.tick <= u.tick /\ t.seq < u.seq
      BY <1>1, <1>2, <2>3, <2>4
    <2>6. \A j \in 1 .. accepted' : posts'[j].kind = "timer" /\ Later(t.id, j)' => served[j] = 0
      BY <1>3, <2>1 DEF Ahead, Later
    <2>7. \A q \in Poster :
            /\ ticket'[q] # Idle /\ posts'[t.id].by = q /\ posts'[t.id].delay <= ticket'[q].delay
            => t.tick <= ticket'[q].due
      BY <1>6, <2>1 DEF Ahead
    <2>8. t.seq < dq'.next
      BY <1>1, <2>1, <2>2
    <2>. QED  BY <1>1, <1>4, <2>1, <2>4, <2>5, <2>6, <2>7, <2>8 DEF Ahead
  <1>8. Ahead(new)'
    <2>1. new.tick <= clock + posts'[new.id].delay
      BY <1>1, <1>2, <1>3 DEF OrderInv
    <2>2. \A q \in Poster : ticket'[q] # Idle => posts'[new.id].by # q
      BY <1>2, <1>3, <1>6
    <2>3. new.seq < dq'.next
      BY <1>1, <1>2 DEF TypeOK, Queue
    <2>4. \A j \in 1 .. accepted' : ~Later(new.id, j)'
      BY <1>2, <1>3 DEF Later
    <2>5. \A u \in Copies' : u.id \in 1 .. accepted'
      BY <1>2, <1>3, <1>4, <1>5
    <2>6. Later(new.id, cur.id)' => ~Held'
      BY <1>1, <2>4, <2>5 DEF Copies
    <2>7. \A u \in dq'.tasks : ~Later(new.id, u.id)'
      BY <2>4, <2>5 DEF Copies
    <2>. QED  BY <1>1, <2>1, <2>2, <2>3, <2>4, <2>6, <2>7 DEF Ahead
  <1>9. \A q \in Poster : ticket'[q] # Idle => ticket'[q].due <= clock + ticket'[q].delay
    BY <1>6 DEF OrderInv
  <1>. QED  BY <1>1, <1>4, <1>7, <1>8, <1>9 DEF OrderInv

\* The timer taken is the top, so no timer of its thread that is ahead of it was left.
LEMMA TakeTimerKeepsOrder ==
    ASSUME TypeOK, TimerInv, OrderInv, TakeTimer
    PROVE  OrderInv'
  <1>1. PICK t \in dq.tasks : IsTop(t, dq) /\ cur' = t /\ dq' = Remove(dq, t)
    BY DEF TakeTimer
  <1>2. /\ pc = "take" /\ pc' = "run" /\ dq'.tasks = dq.tasks \ {t} /\ dq'.next = dq.next
        /\ t.kind = "timer" /\ UNCHANGED <<clock, ticket, posts, accepted, served>>
    BY <1>1 DEF TakeTimer, Remove, TypeOK, Queue, Goto, history, TimerInv, QueueKinds
  <1>3. ~Held /\ Held' /\ Copies = dq.tasks /\ Copies' = dq.tasks
    BY <1>1, <1>2 DEF Held, InHand, Copies
  <1>4. ASSUME NEW x \in dq.tasks, served[x.id] = 0 PROVE Ahead(x)'
    <2>1. Ahead(x)
      BY <1>3, <1>4 DEF OrderInv
    <2>2. ~Later(x.id, t.id)
      <3>1. x.tick \in Nat /\ t.tick \in Nat /\ x.seq \in Nat /\ t.seq \in Nat /\ x.id \in Nat
        BY <1>3, CopyFacts DEF TypeOK, Queue, Task
      <3>2. Later(x.id, t.id) => x.tick <= t.tick /\ x.seq < t.seq
        BY <2>1 DEF Ahead
      <3>3. x # t => t.tick < x.tick \/ (t.tick = x.tick /\ t.seq < x.seq)
        BY <1>1 DEF IsTop, Before
      <3>. QED  BY <3>1, <3>2, <3>3
    <2>. QED  BY <1>1, <1>2, <2>1, <2>2 DEF Ahead, Later
  <1>. QED  BY <1>2, <1>3, <1>4 DEF OrderInv

LEMMA EnterKeepsOrder ==
    ASSUME TypeOK, TimerInv, OrderInv, Enter
    PROVE  OrderInv'
  <1>1. /\ served' = [served EXCEPT ![cur.id] = @ + 1]
        /\ pc = "enter" /\ pc' = "call"
        /\ UNCHANGED <<dq, cur, posts, accepted, clock, ticket>>
    BY DEF Enter, Serve, Goto, queues
  <1>2. InHand /\ (Held' <=> Held) /\ Copies' = Copies
    BY <1>1 DEF Held, InHand, Copies
  <1>3. /\ cur.id \in Id /\ posts[cur.id].kind = cur.kind
        /\ \A i \in Id : served[i] \in Nat
    BY <1>2, InHandFacts
  <1>4. /\ served'[cur.id] = served[cur.id] + 1
        /\ \A i \in Id : i # cur.id => served'[i] = served[i]
    BY <1>1, <1>3 DEF TypeOK
  <1>5. 1 .. accepted \subseteq Id
    BY DEF TypeOK, Id
  <1>6. ASSUME NEW t \in Copies, served'[t.id] = 0 PROVE Ahead(t)'
    <2>1. t.id \in Id /\ t.id # cur.id
      BY <1>3, <1>4, <1>6, CopyFacts
    <2>2. Ahead(t)
      BY <1>4, <1>6, <2>1 DEF OrderInv
    <2>3. ASSUME NEW j \in 1 .. accepted, posts[j].kind = "timer", Later(t.id, j)
          PROVE  served'[j] = 0
      <3>1. j # cur.id
        BY <1>2, <1>3, <2>2, <2>3 DEF Ahead, Held
      <3>. QED  BY <1>4, <1>5, <2>2, <2>3, <3>1 DEF Ahead
    <2>. QED  BY <1>1, <1>2, <2>2, <2>3 DEF Ahead, Later
  <1>. QED  BY <1>1, <1>2, <1>6 DEF OrderInv

LEMMA FinishKeepsOrder ==
    ASSUME TypeOK, TimerInv, OrderInv, InHand, Finish,
           UNCHANGED <<clock, ticket, posts, accepted>>, served'[cur.id] # 0,
           \A i \in Id : i # cur.id => served'[i] = served[i]
    PROVE  OrderInv'
  <1>1. ~Held' /\ Copies' = dq'.tasks
    BY DEF Finish, Goto, InHand, Held, Copies
  <1>2. cur.id \in Id /\ posts[cur.id].kind = cur.kind
    BY InHandFacts
  <1>3. 1 .. accepted \subseteq Id /\ dq.next \in Nat
    BY DEF TypeOK, Id, Queue
  <1>4. /\ dq'.next \in Nat /\ dq'.next >= dq.next
        /\ \A t \in dq'.tasks : t \in dq.tasks \/ (t.id = cur.id /\ cur.kind # "task")
    <2>1. CASE dq' = dq
      BY <1>3, <2>1
    <2>2. CASE dq' = Push(dq, Rearmed(cur)) /\ cur.kind # "task"
      <3>. DEFINE new == [Rearmed(cur) EXCEPT !.seq = dq.next]
      <3>1. cur \in Task
        BY DEF TypeOK
      <3>2. new.id = cur.id
        BY <3>1 DEF Rearmed, Task
      <3>3. dq'.tasks = dq.tasks \cup {new}
        BY <2>2 DEF Push
      <3>4. dq'.next = dq.next + 1
        BY <2>2 DEF Push
      <3>. HIDE DEF new
      <3>5. dq'.next \in Nat /\ dq'.next >= dq.next
        BY <1>3, <3>4
      <3>6. \A t \in dq'.tasks : t \in dq.tasks \/ t.id = cur.id
        BY <3>2, <3>3
      <3>. QED  BY <2>2, <3>5, <3>6
    <2>. QED  BY <2>1, <2>2 DEF Finish
  <1>5. ASSUME NEW t \in dq'.tasks, served'[t.id] = 0 PROVE Ahead(t)'
    <2>1. t \in Copies /\ t.id # cur.id
      BY <1>4, <1>5 DEF Copies
    <2>2. t.id \in Id /\ t.seq \in Nat
      BY <2>1, CopyFacts
    <2>3. Ahead(t)
      BY <1>5, <2>1, <2>2 DEF OrderInv
    <2>4. cur.kind # "task" => ~Later(t.id, cur.id)
      BY <2>3, InHandFacts DEF Ahead, Held
    <2>5. \A u \in dq'.tasks : Later(t.id, u.id) => t.tick <= u.tick /\ t.seq < u.seq
      BY <1>4, <2>3, <2>4 DEF Ahead
    <2>6. ASSUME NEW j \in 1 .. accepted, posts[j].kind = "timer", Later(t.id, j)
          PROVE  served'[j] = 0
      <3>1. j # cur.id
        BY <1>2, <2>4, <2>6
      <3>. QED  BY <1>3, <2>3, <2>6, <3>1 DEF Ahead
    <2>7. t.seq < dq'.next
      <3>1. t.seq < dq.next
        BY <2>3 DEF Ahead
      <3>. QED  BY <1>3, <1>4, <2>2, <3>1
    <2>. QED  BY <1>1, <2>3, <2>5, <2>6, <2>7 DEF Ahead, Later
  <1>. QED  BY <1>1, <1>5 DEF OrderInv

LEMMA NextKeepsOrder ==
    ASSUME TypeOK, TypeOK', TimerInv, OrderInv, [Next]_vars
    PROVE  OrderInv'
  <1>0. clock \in Nat /\ clock' \in Nat
    BY DEF TypeOK
  <1>1. CASE UNCHANGED vars
    BY <1>0, <1>1, OrderUntouched DEF vars, queues, history, Held, InHand
  <1>2. CASE RegisterThread \/ RequestStop
    BY <1>0, <1>2, OrderUntouched DEF RegisterThread, RequestStop, queues, history, Held, InHand
  <1>3. CASE Tick
    BY <1>0, <1>3, OrderUntouched DEF Tick, queues, history, Held, InHand
  <1>4. ASSUME NEW p \in Poster, Post(p) PROVE OrderInv'
    <2>1. ASSUME NEW o \in Owner, NEW d \in Delay, NEW n, NEW iv, ComputeDue(p, o, d, n, iv)
          PROVE  OrderInv'
      BY <2>1, ComputeDueKeepsOrder
    <2>. QED  BY <1>4, <2>1, PostTaskKeepsOrder DEF Post, PostDelayedTask, PostRepeatedTask
  <1>5. ASSUME NEW p \in Poster, PushTimer(p) PROVE OrderInv'
    BY <1>5, PushTimerKeepsOrder
  <1>6. ASSUME NEW p \in Poster, NEW o \in Owner, Destroy(p, o) PROVE OrderInv'
    BY <1>0, <1>6, OrderUntouched DEF Destroy, queues, history, Held, InHand
  <1>7. CASE Start \/ ReadClock \/ CheckTimer \/ Wait
    BY <1>0, <1>7, OrderUntouched
       DEF Start, ReadClock, CheckTimer, Wait, Goto, Again, queues, history, Held, InHand
  <1>8. CASE TakeTask
    <2>1. ~Held /\ ~Held'
      BY <1>8 DEF TakeTask, Goto, Held, InHand, TimerInv, QueueKinds
    <2>. QED  BY <1>0, <1>8, <2>1, OrderUntouched DEF TakeTask
  <1>9. CASE TakeTimer
    BY <1>9, TakeTimerKeepsOrder
  <1>10. CASE Test
    BY <1>0, <1>10, OrderUntouched DEF Test, Goto, queues, history, Held, InHand
  <1>11. CASE Enter
    BY <1>11, EnterKeepsOrder
  <1>12. CASE Skip
    <2>1. /\ InHand /\ Finish /\ served' = [served EXCEPT ![cur.id] = @ + 1]
          /\ UNCHANGED <<clock, ticket, posts, accepted>>
      BY <1>12 DEF Skip, Serve, InHand
    <2>2. cur.id \in Id /\ served[cur.id] \in Nat
      BY <2>1, InHandFacts
    <2>3. served'[cur.id] # 0 /\ \A i \in Id : i # cur.id => served'[i] = served[i]
      BY <2>1, <2>2 DEF TypeOK
    <2>. QED  BY <2>1, <2>3, FinishKeepsOrder
  <1>13. CASE Return
    <2>1. /\ InHand /\ pc = "call" /\ Finish /\ UNCHANGED <<clock, ticket, posts, accepted, served>>
      BY <1>13 DEF Return, InHand
    <2>2. CASE Held
      <3>1. served[cur.id] - 1 \in Nat /\ served[cur.id] \in Nat
        BY <2>1, <2>2, InHandFacts DEF TimerInv, Counted, Before1
      <3>. QED  BY <2>1, <3>1, FinishKeepsOrder
    <2>3. CASE ~Held
      <3>1. cur.kind = "task" /\ dq' = dq /\ ~Held'
        BY <2>1, <2>3, InHandFacts DEF Held, Finish, Goto, InHand
      <3>. QED  BY <1>0, <2>1, <2>3, <3>1, OrderUntouched
    <2>. QED  BY <2>2, <2>3
  <1>. QED  BY <1>1, <1>2, <1>3, <1>4, <1>5, <1>6, <1>7, <1>8, <1>9, <1>10, <1>11,
               <1>12, <1>13 DEF Next, PumpStep

\* Of two timers that one thread posts, the first is served first when the second waits
\* at least as long, though others post, though the second's tick may be computed late
\* and though both are taken from a heap.
THEOREM TimersKeepPostersOrder == Spec => []PosterOrder
  <1>1. Init => OrderInv
    BY DEF Init, OrderInv, Copies, Held, InHand, EmptyQueue
  <1>2. TypeOK /\ TypeOK' /\ TimerInv /\ OrderInv /\ [Next]_vars => OrderInv'
    BY NextKeepsOrder
  <1>3. TypeOK /\ TimerInv /\ OrderInv => PosterOrder
    BY OrderInvImplies
  <1>. QED  BY <1>1, <1>2, <1>3, RoundInvariant, PTL DEF Spec

----------------------------------------------------------------------------
(* The pump implements TaskService.  The FIFO is the immediate queue, read   *)
(* by sequence numbers; an abstract timer is a timer in the delayed queue or *)
(* in the pump's hand, without its own sequence number.                      *)

\* The tasks of T numbered from d to n - 1, in their order
FifoOf(T, d, n) == [k \in 1 .. (n - d) |-> (CHOOSE t \in T : t.seq = d + k - 1).id]

Numbered(T, d, n) ==
    /\ {t.seq : t \in T} = d .. (n - 1)
    /\ \A t, u \in T : t.seq = u.seq => t = u

Lists(F, T, d, n) ==
    /\ F \in Seq(Id) /\ Len(F) = n - d
    /\ \A k \in 1 .. (n - d) : \A t \in T : t.seq = d + k - 1 => F[k] = t.id

LEMMA FifoElements ==
    ASSUME NEW T, NEW d \in Nat, NEW n \in Nat, d <= n, Numbered(T, d, n),
           \A t \in T : t.id \in Id
    PROVE  Lists(FifoOf(T, d, n), T, d, n)
  <1>. DEFINE F == FifoOf(T, d, n)
  <1>1. ASSUME NEW k \in 1 .. (n - d)
        PROVE  /\ F[k] \in Id
               /\ \A t \in T : t.seq = d + k - 1 => F[k] = t.id
    <2>. DEFINE w == CHOOSE t \in T : t.seq = d + k - 1
    <2>1. d + k - 1 \in d .. (n - 1)
      OBVIOUS
    <2>2. \E t \in T : t.seq = d + k - 1
      BY <2>1 DEF Numbered
    <2>3. w \in T /\ w.seq = d + k - 1
      BY <2>2
    <2>4. F[k] = w.id
      BY DEF FifoOf
    <2>. HIDE DEF w, F
    <2>. QED  BY <2>3, <2>4 DEF Numbered
  <1>2. n - d \in Nat
    OBVIOUS
  <1>3. F \in [1 .. (n - d) -> Id]
    BY <1>1 DEF FifoOf
  <1>. HIDE DEF F
  <1>4. F \in Seq(Id) /\ Len(F) = n - d
    BY <1>2, <1>3
  <1>. QED  BY <1>1, <1>4 DEF F, Lists

\* A push extends the FIFO at its end.
Extends(S, m, T, d, n, t) == FifoOf(S, d, m) = Append(FifoOf(T, d, n), t.id)

LEMMA FifoPush ==
    ASSUME NEW T, NEW S, NEW d \in Nat, NEW n \in Nat, NEW m \in Nat, NEW t,
           d <= n, m = n + 1, S = T \cup {t}, t.seq = n,
           Numbered(T, d, n), Numbered(S, d, m), \A u \in S : u.id \in Id
    PROVE  Extends(S, m, T, d, n, t)
  <1>. DEFINE F == FifoOf(T, d, n)
              G == FifoOf(S, d, m)
              A == Append(F, t.id)
  <1>1. /\ d <= m /\ n - d \in Nat /\ m - d = n - d + 1
        /\ t.id \in Id /\ \A u \in T : u.id \in Id
    OBVIOUS
  <1>2. /\ F \in Seq(Id) /\ Len(F) = n - d
        /\ \A k \in 1 .. (n - d) : \A u \in T : u.seq = d + k - 1 => F[k] = u.id
    <2>1. Lists(F, T, d, n)
      BY <1>1, FifoElements
    <2>. HIDE DEF F
    <2>. QED  BY <2>1 DEF Lists
  <1>3. /\ G \in Seq(Id) /\ Len(G) = m - d
        /\ \A k \in 1 .. (m - d) : \A u \in S : u.seq = d + k - 1 => G[k] = u.id
    <2>1. Lists(G, S, d, m)
      BY <1>1, FifoElements
    <2>. HIDE DEF G
    <2>. QED  BY <2>1 DEF Lists
  <1>. HIDE DEF F, G
  <1>4. /\ A \in Seq(Id) /\ Len(A) = Len(F) + 1
        /\ \A k \in 1 .. Len(F) : A[k] = F[k]
        /\ A[Len(F) + 1] = t.id
    BY <1>1, <1>2, AppendProperties
  <1>. HIDE DEF A
  <1>5. ASSUME NEW k \in 1 .. (m - d) PROVE G[k] = A[k]
    <2>1. CASE k = n - d + 1
      <3>1. t \in S /\ t.seq = d + k - 1
        BY <2>1
      <3>. QED  BY <1>2, <1>3, <1>4, <2>1, <3>1
    <2>2. CASE k # n - d + 1
      <3>1. k \in 1 .. (n - d) /\ d + k - 1 \in d .. (n - 1)
        BY <1>1, <2>2
      <3>2. PICK u \in T : u.seq = d + k - 1
        BY <3>1 DEF Numbered
      <3>3. F[k] = u.id /\ G[k] = u.id
        BY <1>2, <1>3, <3>1, <3>2
      <3>. QED  BY <1>2, <1>4, <3>1, <3>3
    <2>. QED  BY <2>1, <2>2
  <1>6. Len(G) = Len(A) /\ \A k \in 1 .. Len(G) : G[k] = A[k]
    BY <1>1, <1>2, <1>3, <1>4, <1>5
  <1>7. G = A
    BY <1>3, <1>4, <1>6, SeqEqual
  <1>. QED  BY <1>7 DEF F, G, A, Extends

\* The removal of the lowest number shortens it at its start.
Shortens(S, e, T, d, n, t) ==
    /\ FifoOf(T, d, n) # <<>>
    /\ FifoOf(S, e, n) = Tail(FifoOf(T, d, n))

LEMMA FifoPop ==
    ASSUME NEW T, NEW S, NEW d \in Nat, NEW e \in Nat, NEW n \in Nat, NEW t \in T,
           e = d + 1, e <= n, S = T \ {t}, t.seq = d,
           Numbered(T, d, n), Numbered(S, e, n), \A u \in T : u.id \in Id
    PROVE  Shortens(S, e, T, d, n, t)
  <1>. DEFINE F == FifoOf(T, d, n)
              G == FifoOf(S, e, n)
              R == Tail(F)
  <1>1. /\ d <= n /\ n - d \in Nat \ {0} /\ n - e = n - d - 1 /\ n - e \in Nat
        /\ \A u \in S : u.id \in Id
    OBVIOUS
  <1>2. /\ F \in Seq(Id) /\ Len(F) = n - d
        /\ \A k \in 1 .. (n - d) : \A u \in T : u.seq = d + k - 1 => F[k] = u.id
    <2>1. Lists(F, T, d, n)
      BY <1>1, FifoElements
    <2>. HIDE DEF F
    <2>. QED  BY <2>1 DEF Lists
  <1>3. /\ G \in Seq(Id) /\ Len(G) = n - e
        /\ \A k \in 1 .. (n - e) : \A u \in S : u.seq = e + k - 1 => G[k] = u.id
    <2>1. Lists(G, S, e, n)
      BY <1>1, FifoElements
    <2>. HIDE DEF G
    <2>. QED  BY <2>1 DEF Lists
  <1>. HIDE DEF F, G
  <1>4. F # <<>>
    <2>1. Len(F) # 0
      BY <1>1, <1>2
    <2>. QED  BY <2>1, EmptySeq
  <1>5. /\ R \in Seq(Id) /\ Len(R) = Len(F) - 1
        /\ \A k \in 1 .. Len(R) : R[k] = F[k + 1]
    BY <1>2, <1>4, HeadTailProperties
  <1>. HIDE DEF R
  <1>6. ASSUME NEW k \in 1 .. (n - e) PROVE G[k] = F[k + 1]
    <2>1. /\ k + 1 \in 1 .. (n - d) /\ e + k - 1 = d + (k + 1) - 1
          /\ e + k - 1 \in e .. (n - 1)
      BY <1>1
    <2>2. PICK u \in S : u.seq = e + k - 1
      BY <2>1 DEF Numbered
    <2>3. u \in T
      BY <2>2
    <2>4. G[k] = u.id
      BY <1>3, <2>2
    <2>5. F[k + 1] = u.id
      BY <1>2, <2>1, <2>2, <2>3
    <2>. QED  BY <2>4, <2>5
  <1>7. Len(G) = n - e /\ Len(R) = n - e
    BY <1>1, <1>2, <1>3, <1>5
  <1>8. G = R
    <2>1. \A k \in 1 .. Len(G) : G[k] = R[k]
      BY <1>5, <1>6, <1>7
    <2>. QED  BY <1>3, <1>5, <1>7, <2>1, SeqEqual
  <1>. QED  BY <1>4, <1>8 DEF F, G, R, Shortens

\* The state of the service, as MsgPump gives it
Entry(t) == [id |-> t.id, due |-> t.tick, times |-> t.times, interval |-> t.interval]
Fifo == FifoOf(tq.tasks, drained, tq.next)
Timers == {Entry(t) : t \in Copies}

LEMMA Stutters == ASSUME UNCHANGED <<clock, Fifo, Timers>> PROVE UNCHANGED Service!vars
  BY DEF Service!vars, Fifo, FifoOf, Waiting, Timers, Entry, Copies, Held

LEMMA Advances ==
    ASSUME clock < MaxTick, clock' = clock + 1, UNCHANGED <<Fifo, Timers>>
    PROVE  Service!Next
  BY DEF Service!Next, Service!Advance, Fifo, FifoOf, Waiting, Timers, Entry, Copies, Held

LEMMA PostsTask ==
    ASSUME NEW i \in Id, Fifo' = Append(Fifo, i), UNCHANGED <<clock, Timers>>
    PROVE  Service!Next
  BY DEF Service!Next, Service!PostTask, Fifo, FifoOf, Waiting, Timers, Entry, Copies, Held

LEMMA Serves ==
    ASSUME Fifo # <<>>, Fifo' = Tail(Fifo), UNCHANGED <<clock, Timers>>
    PROVE  Service!Next
  BY DEF Service!Next, Service!Serve, Fifo, FifoOf, Waiting, Timers, Entry, Copies, Held

LEMMA PostsTimer ==
    ASSUME NEW e \in Service!Timer, Timers' = Timers \cup {e},
           \A u \in Timers : u.id # e.id, UNCHANGED <<clock, Fifo>>
    PROVE  Service!Next
  <1>1. e \in Timers' \ Timers
    OBVIOUS
  <1>2. Service!PostTimer
    BY <1>1 DEF Service!PostTimer, Fifo, FifoOf, Waiting, Timers, Entry, Copies, Held
  <1>. QED  BY <1>2 DEF Service!Next

LEMMA Fires ==
    ASSUME NEW e \in Timers, NEW n \in (e.due + 1) .. clock,
           Timers' = (Timers \ {e}) \cup Service!Rest(e, n), UNCHANGED <<clock, Fifo>>
    PROVE  Service!Next
  <1>1. Service!Fire(e)
    BY DEF Service!Fire, Fifo, FifoOf, Waiting, Timers, Entry, Copies, Held
  <1>. QED  BY <1>1 DEF Service!Next, Timers, Entry, Copies, Held

ServiceInv == TypeOK /\ TimerInv /\ RoundInv /\ FIFOInv

LEMMA QueueFacts ==
    ASSUME TypeOK, TimerInv, FIFOInv
    PROVE  /\ tq.next \in Nat /\ drained \in Nat /\ drained <= tq.next
           /\ Numbered(tq.tasks, drained, tq.next)
           /\ \A t \in tq.tasks : t.id \in Id
  <1>1. tq.next \in Nat /\ drained \in Nat /\ accepted \in 0 .. MaxPosts
    BY DEF TypeOK, Queue
  <1>2. \A t \in tq.tasks : t.id \in 1 .. accepted
    BY DEF TimerInv, OwnPosts, OfPost
  <1>3. \A t \in tq.tasks : t.id \in Id
    BY <1>1, <1>2 DEF Id
  <1>. QED  BY <1>1, <1>3 DEF FIFOInv, ImmediateFIFO, Numbered

LEMMA PostTaskIsServed ==
    ASSUME ServiceInv, FIFOInv', NEW p \in Poster, NEW o \in Owner, PostTask(p, o)
    PROVE  Service!Next
  <1>1. PICK t : /\ tq'.tasks = tq.tasks \cup {t} /\ t.id = accepted + 1 /\ t.seq = tq.next
    <2>. DEFINE n == [NewTask(accepted + 1, "task", o, 0, 1, 0) EXCEPT !.seq = tq.next]
    <2>1. tq'.tasks = tq.tasks \cup {n}
      BY DEF PostTask, Push
    <2>2. n.id = accepted + 1 /\ n.seq = tq.next
      BY DEF NewTask
    <2>. HIDE DEF n
    <2>. QED  BY <2>1, <2>2
  <1>2. /\ tq'.next = tq.next + 1 /\ UNCHANGED <<clock, drained, dq, pc, cur>>
        /\ Accept(p, "task", 0, 1)
    BY DEF PostTask, Push
  <1>3. accepted + 1 \in Id
    BY <1>2, AcceptFacts DEF ServiceInv
  <1>4. /\ tq.next \in Nat /\ drained \in Nat /\ drained <= tq.next
        /\ Numbered(tq.tasks, drained, tq.next)
        /\ \A u \in tq.tasks : u.id \in Id
    BY QueueFacts DEF ServiceInv
  <1>5. tq'.next \in Nat /\ \A u \in tq'.tasks : u.id \in Id
    BY <1>1, <1>2, <1>3, <1>4
  <1>6. Numbered(tq'.tasks, drained, tq'.next)
    BY <1>2 DEF FIFOInv, ImmediateFIFO, Numbered
  <1>7. FifoOf(tq'.tasks, drained, tq'.next) = Append(FifoOf(tq.tasks, drained, tq.next), t.id)
    <2>1. /\ tq.next \in Nat /\ tq'.next \in Nat /\ drained \in Nat /\ drained <= tq.next
          /\ tq'.next = tq.next + 1 /\ tq'.tasks = tq.tasks \cup {t} /\ t.seq = tq.next
          /\ Numbered(tq.tasks, drained, tq.next) /\ Numbered(tq'.tasks, drained, tq'.next)
          /\ \A u \in tq'.tasks : u.id \in Id
      BY <1>1, <1>2, <1>4, <1>5, <1>6
    <2>2. Extends(tq'.tasks, tq'.next, tq.tasks, drained, tq.next, t)
      BY <2>1, FifoPush
    <2>. QED  BY <2>2 DEF Extends
  <1>8. Fifo' = Append(Fifo, accepted + 1)
    BY <1>1, <1>2, <1>7 DEF Fifo
  <1>9. UNCHANGED Timers
    BY <1>2 DEF Timers, Entry, Copies, Held, InHand
  <1>. QED  BY <1>2, <1>3, <1>8, <1>9, PostsTask

LEMMA TakeTaskServes ==
    ASSUME ServiceInv, FIFOInv', TakeTask
    PROVE  Service!Next
  <1>1. PICK t \in tq.tasks : IsTop(t, tq) /\ cur' = t /\ tq' = Remove(tq, t)
    BY DEF TakeTask
  <1>2. /\ tq'.tasks = tq.tasks \ {t} /\ tq'.next = tq.next /\ drained' = drained + 1
        /\ pc = "drain" /\ pc' = "run" /\ UNCHANGED <<clock, dq>>
    BY <1>1 DEF TakeTask, Remove, TypeOK, Queue, ServiceInv, Goto
  <1>3. /\ tq.next \in Nat /\ drained \in Nat /\ drained <= tq.next
        /\ Numbered(tq.tasks, drained, tq.next)
        /\ \A u \in tq.tasks : u.id \in Id
    BY QueueFacts DEF ServiceInv
  <1>4. t.kind = "task" /\ cur'.kind = "task"
    BY <1>1 DEF ServiceInv, FIFOInv, QueueKinds
  <1>5. t.seq = drained
    <2>1. cur'.seq = drained' - 1
      BY <1>2, <1>4 DEF FIFOInv, ImmediateFIFO, InHand
    <2>. QED  BY <1>1, <1>2, <1>3, <2>1
  <1>6. drained' \in Nat /\ drained' <= tq.next
    BY <1>2, <1>3 DEF FIFOInv
  <1>7. Numbered(tq'.tasks, drained', tq.next)
    BY <1>2 DEF FIFOInv, ImmediateFIFO, Numbered
  <1>8. /\ FifoOf(tq.tasks, drained, tq.next) # <<>>
        /\ FifoOf(tq'.tasks, drained', tq.next) = Tail(FifoOf(tq.tasks, drained, tq.next))
    <2>1. /\ tq.next \in Nat /\ drained \in Nat /\ drained' \in Nat
          /\ drained' = drained + 1 /\ drained' <= tq.next
          /\ tq'.tasks = tq.tasks \ {t} /\ t.seq = drained
          /\ Numbered(tq.tasks, drained, tq.next) /\ Numbered(tq'.tasks, drained', tq.next)
          /\ \A u \in tq.tasks : u.id \in Id
      BY <1>2, <1>3, <1>5, <1>6, <1>7
    <2>2. Shortens(tq'.tasks, drained', tq.tasks, drained, tq.next, t)
      BY <2>1, FifoPop
    <2>. QED  BY <2>2 DEF Shortens
  <1>9. Fifo # <<>> /\ Fifo' = Tail(Fifo)
    BY <1>2, <1>8 DEF Fifo
  <1>10. UNCHANGED Timers
    BY <1>2, <1>4 DEF Timers, Entry, Copies, Held, InHand
  <1>. QED  BY <1>2, <1>9, <1>10, Serves

LEMMA PushTimerIsPosted ==
    ASSUME ServiceInv, NEW p \in Poster, PushTimer(p)
    PROVE  Service!Next
  <1>1. /\ Accept(p, "timer", ticket[p].delay, ticket[p].times)
        /\ ticket[p] # Idle /\ UNCHANGED <<clock, tq, drained, pc, cur>>
    BY DEF PushTimer
  <1>2. ticket[p].due \in Nat /\ ticket[p].times \in Nat \cup {-1} /\ ticket[p].interval \in Nat
    BY <1>1, TicketType DEF ServiceInv
  <1>3. PICK new : /\ dq'.tasks = dq.tasks \cup {new}
                   /\ new.id = accepted + 1 /\ new.tick \in Nat
                   /\ new.times \in Nat \cup {-1} /\ new.interval \in Nat
    <2>. DEFINE n == [NewTask(accepted + 1, "timer", ticket[p].owner, ticket[p].due,
                              ticket[p].times, ticket[p].interval) EXCEPT !.seq = dq.next]
    <2>1. dq'.tasks = dq.tasks \cup {n}
      BY DEF PushTimer, Push
    <2>2. n.id = accepted + 1 /\ n.tick = ticket[p].due /\ n.times = ticket[p].times
          /\ n.interval = ticket[p].interval
      BY DEF NewTask
    <2>. HIDE DEF n
    <2>. QED  BY <1>2, <2>1, <2>2
  <1>4. accepted + 1 \in Id /\ accepted \in Nat
    BY <1>1, AcceptFacts DEF ServiceInv
  <1>. DEFINE e == Entry(new)
  <1>5. e \in Service!Timer /\ e.id = accepted + 1
    BY <1>3, <1>4 DEF Service!Timer, Entry
  <1>6. Copies' = Copies \cup {new}
    BY <1>1, <1>3 DEF Copies, Held, InHand
  <1>7. Timers' = Timers \cup {e}
    BY <1>6 DEF Timers
  <1>8. \A u \in Timers : u.id # e.id
    <2>1. \A t \in Copies : t.id \in 1 .. accepted
      BY CopyFacts DEF ServiceInv
    <2>2. \A t \in Copies : Entry(t).id # accepted + 1
      BY <1>4, <2>1 DEF Entry
    <2>. QED  BY <1>5, <2>2 DEF Timers
  <1>. HIDE DEF e
  <1>9. UNCHANGED Fifo
    BY <1>1 DEF Fifo
  <1>. QED  BY <1>1, <1>5, <1>7, <1>8, <1>9, PostsTimer

LEMMA FinishFires ==
    ASSUME ServiceInv, InHand, Finish, UNCHANGED <<clock, tq, drained>>
    PROVE  Service!Next \/ UNCHANGED Service!vars
  <1>. DEFINE e == Entry(cur)
              D == {Entry(t) : t \in dq.tasks}
              new == [Rearmed(cur) EXCEPT !.seq = dq.next]
  <1>1. UNCHANGED Fifo
    BY DEF Fifo
  <1>2. ~InHand' /\ ~Held' /\ cur \in Task
    BY DEF Finish, Goto, InHand, Held, ServiceInv, TypeOK
  <1>3. cur.kind \in {"task", "timer"} /\ \A t \in dq.tasks : t.id # cur.id
    BY InHandFacts DEF ServiceInv
  <1>4. CASE cur.kind = "task"
    <2>1. dq' = dq /\ ~Held
      BY <1>4 DEF Finish, Held
    <2>2. UNCHANGED Timers
      BY <1>2, <2>1 DEF Timers, Entry, Copies
    <2>. QED  BY <1>1, <2>2, Stutters
  <1>5. CASE cur.kind = "timer"
    <2>1. Held /\ cur.tick < nowTick /\ nowTick <= clock
      BY <1>5 DEF Held, ServiceInv, RoundInv
    <2>2. nowTick \in (cur.tick + 1) .. clock
      BY <1>2, <2>1 DEF ServiceInv, TypeOK, Task
    <2>3. e.id = cur.id /\ e.due = cur.tick /\ e.times = cur.times /\ e.interval = cur.interval
      BY DEF Entry
    <2>4. Timers = D \cup {e}
      BY <2>1 DEF Timers, Copies
    <2>5. e \notin D
      <3>1. \A t \in dq.tasks : Entry(t).id # cur.id
        BY <1>3 DEF Entry
      <3>. QED  BY <2>3, <3>1
    <2>6. Timers' = {Entry(t) : t \in dq'.tasks}
      BY <1>2 DEF Timers, Copies, Entry
    <2>7. dq' = (IF Repeats(cur) THEN Push(dq, Rearmed(cur)) ELSE dq)
      BY <1>5 DEF Finish
    <2>8. Timers' = D \cup Service!Rest(e, nowTick)
      <3>0. cur.times \in Nat \cup {-1}
        BY <1>2 DEF Task
      <3>1. CASE Repeats(cur)
        <4>1. dq'.tasks = dq.tasks \cup {new}
          BY <2>7, <3>1 DEF Push
        <4>2. Timers' = D \cup {Entry(new)}
          BY <2>6, <4>1
        <4>3. /\ new.id = cur.id /\ new.tick = nowTick + cur.interval
              /\ new.times = (IF cur.times = -1 THEN -1 ELSE cur.times - 1)
              /\ new.interval = cur.interval
          BY <1>2 DEF Rearmed, Task
        <4>. DEFINE again == [e EXCEPT !.due = nowTick + e.interval,
                                       !.times = IF e.times = -1 THEN -1 ELSE e.times - 1]
        <4>4. again = Entry(new)
          <5>. HIDE DEF new
          <5>1. PICK n : n = nowTick + cur.interval
            OBVIOUS
          <5>2. PICK k : k = (IF cur.times = -1 THEN -1 ELSE cur.times - 1)
            OBVIOUS
          <5>3. Entry(new) = [id |-> cur.id, due |-> n, times |-> k, interval |-> cur.interval]
            BY <4>3, <5>1, <5>2 DEF Entry
          <5>4. again = [e EXCEPT !.due = n, !.times = k]
            BY <2>3, <5>1, <5>2
          <5>5. e = [id |-> cur.id, due |-> cur.tick, times |-> cur.times, interval |-> cur.interval]
            BY DEF Entry
          <5>. HIDE DEF again, e
          <5>6. again = [id |-> cur.id, due |-> n, times |-> k, interval |-> cur.interval]
            BY <5>4, <5>5
          <5>. QED  BY <5>3, <5>6
        <4>5. e.times = -1 \/ e.times > 1
          BY <2>3, <3>0, <3>1 DEF Repeats
        <4>6. Service!Rest(e, nowTick) = {again}
          BY <4>5 DEF Service!Rest
        <4>. HIDE DEF again, e, new, D
        <4>. QED  BY <4>2, <4>4, <4>6
      <3>2. CASE ~Repeats(cur)
        <4>1. Timers' = D
          BY <2>6, <2>7, <3>2
        <4>2. ~(e.times = -1 \/ e.times > 1)
          BY <2>3, <3>0, <3>2 DEF Repeats
        <4>3. Service!Rest(e, nowTick) = {}
          BY <4>2 DEF Service!Rest
        <4>. QED  BY <4>1, <4>3
      <3>. QED  BY <3>1, <3>2
    <2>. HIDE DEF D
    <2>9. e \in Timers /\ Timers' = (Timers \ {e}) \cup Service!Rest(e, nowTick)
      BY <2>4, <2>5, <2>8
    <2>10. nowTick \in (e.due + 1) .. clock
      BY <2>2, <2>3
    <2>. HIDE DEF e
    <2>. QED  BY <1>1, <2>9, <2>10, Fires
  <1>. QED  BY <1>3, <1>4, <1>5

\* A timer that is taken goes from the queue to the hand, and stays in Timers.
LEMMA TakeTimerStutters == ASSUME ServiceInv, TakeTimer PROVE UNCHANGED Service!vars
  <1>1. PICK t \in dq.tasks : cur' = t /\ dq' = Remove(dq, t)
    BY DEF TakeTimer
  <1>2. /\ pc = "take" /\ pc' = "run" /\ dq'.tasks = dq.tasks \ {t}
        /\ UNCHANGED <<clock, tq, drained>>
    BY <1>1 DEF TakeTimer, Remove, ServiceInv, TypeOK, Queue, Goto, history
  <1>3. t.kind = "timer"
    BY DEF ServiceInv, TimerInv, QueueKinds
  <1>4. ~Held /\ Held'
    BY <1>1, <1>2, <1>3 DEF Held, InHand
  <1>5. Copies' = Copies
    BY <1>1, <1>2, <1>4 DEF Copies
  <1>. QED  BY <1>2, <1>5, Stutters DEF Fifo, Timers

LEMMA NextIsServed ==
    ASSUME ServiceInv, FIFOInv', [Next]_vars
    PROVE  Service!Next \/ UNCHANGED Service!vars
  <1>1. ASSUME UNCHANGED <<clock, tq, drained, dq, cur>>, InHand' <=> InHand
        PROVE  UNCHANGED Service!vars
    BY <1>1, Stutters DEF Fifo, Timers, Copies, Held
  <1>2. CASE UNCHANGED vars
    BY <1>1, <1>2 DEF vars, queues, history, InHand
  <1>3. CASE RegisterThread \/ RequestStop
    BY <1>1, <1>3 DEF RegisterThread, RequestStop, queues, history, InHand
  <1>4. CASE Tick
    <2>1. /\ clock < MaxTick /\ clock' = clock + 1
          /\ UNCHANGED <<tq, drained, dq, cur, pc>>
      BY <1>4 DEF Tick, queues, history
    <2>2. UNCHANGED <<Fifo, Timers>>
      BY <2>1 DEF Fifo, Timers, Copies, Held, InHand
    <2>. QED  BY <2>1, <2>2, Advances
  <1>5. ASSUME NEW p \in Poster, Post(p) PROVE Service!Next \/ UNCHANGED Service!vars
    <2>1. ASSUME NEW o \in Owner, NEW d \in Delay, NEW n, NEW iv, ComputeDue(p, o, d, n, iv)
          PROVE  UNCHANGED Service!vars
      BY <1>1, <2>1 DEF ComputeDue, queues, history, InHand
    <2>. QED  BY <1>5, <2>1, PostTaskIsServed DEF Post, PostDelayedTask, PostRepeatedTask
  <1>6. ASSUME NEW p \in Poster, PushTimer(p) PROVE Service!Next
    BY <1>6, PushTimerIsPosted
  <1>7. ASSUME NEW p \in Poster, NEW o \in Owner, Destroy(p, o) PROVE UNCHANGED Service!vars
    BY <1>1, <1>7 DEF Destroy, queues, history, InHand
  <1>8. CASE Start \/ ReadClock \/ CheckTimer \/ Wait
    BY <1>1, <1>8 DEF Start, ReadClock, CheckTimer, Wait, Goto, Again, queues, history, InHand
  <1>9. CASE TakeTask
    BY <1>9, TakeTaskServes
  <1>10. CASE TakeTimer
    BY <1>10, TakeTimerStutters
  <1>11. CASE Test \/ Enter
    BY <1>1, <1>11 DEF Test, Enter, Goto, queues, history, InHand
  <1>12. CASE Skip \/ Return
    BY <1>12, FinishFires DEF Skip, Return, InHand
  <1>. QED  BY <1>2, <1>3, <1>4, <1>5, <1>6, <1>7, <1>8, <1>9, <1>10, <1>11, <1>12
            DEF Next, PumpStep

LEMMA InitIsServiceInit == Init => Service!Init
  <1>. SUFFICES ASSUME Init PROVE Service!Init
    OBVIOUS
  <1>1. /\ clock = 0 /\ drained = 0 /\ tq.next = 0 /\ tq.tasks = {} /\ dq.tasks = {} /\ ~Held
    BY DEF Init, EmptyQueue, Held, InHand
  <1>2. Fifo = <<>>
    <2>1. Numbered({}, 0, 0)
      BY DEF Numbered
    <2>2. Lists(FifoOf({}, 0, 0), {}, 0, 0)
      BY <2>1, FifoElements
    <2>3. FifoOf({}, 0, 0) \in Seq(Id) /\ Len(FifoOf({}, 0, 0)) = 0
      BY <2>2 DEF Lists
    <2>. QED  BY <1>1, <2>3, EmptySeq DEF Fifo
  <1>3. Timers = {}
    BY <1>1 DEF Timers, Copies
  <1>. QED  BY <1>1, <1>2, <1>3 DEF Service!Init, Fifo, FifoOf, Waiting, Timers, Entry, Copies, Held

\* The pump with its two heaps, its unlocked windows and its producers does what
\* TaskService promises: a FIFO of tasks, and timers that fire after their due tick,
\* one at a time, and come back from the moment they fired as often as was asked.
THEOREM PumpImplementsTaskService == Spec => RefinesTaskService
  <1>1. ServiceInv /\ FIFOInv' /\ [Next]_vars => [Service!Next]_(Service!vars)
    BY NextIsServed
  <1>2. TypeOK /\ TimerInv /\ RoundInv /\ FIFOInv => ServiceInv
    BY DEF ServiceInv
  <1>. QED  BY <1>1, <1>2, InitIsServiceInit, RoundInvariant, FIFOInvariant, PTL
            DEF Spec, RefinesTaskService, Service!Spec
=============================================================================
