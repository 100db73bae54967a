--------------------------- MODULE ExecutorProofs ---------------------------
(***************************************************************************)
(* Proofs about the executor: the inductive invariant IInv and, from it,   *)
(* the safety properties TLC checks on small instances, for every set of   *)
(* tasks, every capacity and every duration.                               *)
(***************************************************************************)
EXTENDS Executor, SequenceTheorems, TLAPS

-----------------------------------------------------------------------------
(* The run queue as a sequence of ids *)

\* Pushing t onto a queue adds t to the ids found in it and nothing else.
LEMMA OccursAppend ==
  ASSUME NEW S, NEW q \in Seq(S), NEW t \in S, NEW u
  PROVE  Occurs(Append(q, t), u) <=> Occurs(q, u) \/ u = t
<1> DEFINE n == Len(q) + 1
<1>1. /\ Len(q) \in Nat /\ DOMAIN q = 1 .. Len(q)
      /\ DOMAIN Append(q, t) = 1 .. n /\ Append(q, t)[n] = t
      /\ \A i \in 1 .. Len(q) : Append(q, t)[i] = q[i]
  BY AppendProperties, LenProperties
<1>2. ASSUME Occurs(Append(q, t), u) PROVE Occurs(q, u) \/ u = t
  <2>1. PICK i \in 1 .. n : Append(q, t)[i] = u
    BY <1>2, <1>1 DEF Occurs
  <2>2. i = n \/ i \in 1 .. Len(q)
    BY <1>1
  <2> QED BY <2>1, <2>2, <1>1 DEF Occurs
<1>3. ASSUME Occurs(q, u) PROVE Occurs(Append(q, t), u)
  <2>1. PICK i \in 1 .. Len(q) : q[i] = u
    BY <1>3, <1>1 DEF Occurs
  <2>2. i \in 1 .. n /\ Append(q, t)[i] = u
    BY <2>1, <1>1
  <2> QED BY <2>2, <1>1 DEF Occurs
<1>4. n \in DOMAIN Append(q, t)
  BY <1>1
<1>5. Occurs(Append(q, t), t)
  BY <1>1, <1>4 DEF Occurs
<1> QED BY <1>2, <1>3, <1>5

\* Popping loses one occurrence, that of the head.
LEMMA OccursTail ==
  ASSUME NEW S, NEW q \in Seq(S), q # <<>>, NEW u
  PROVE  /\ Head(q) \in S
         /\ Tail(q) \in Seq(S)
         /\ Occurs(q, Head(q))
         /\ Occurs(q, u) => u = Head(q) \/ Occurs(Tail(q), u)
         /\ Occurs(Tail(q), u) => Occurs(q, u)
<1>1. /\ Len(q) \in Nat /\ Len(q) > 0 /\ Head(q) = q[1] /\ Head(q) \in S
      /\ Tail(q) \in Seq(S) /\ Len(Tail(q)) = Len(q) - 1
      /\ \A i \in 1 .. Len(q) - 1 : Tail(q)[i] = q[i + 1]
      /\ DOMAIN q = 1 .. Len(q) /\ DOMAIN Tail(q) = 1 .. Len(q) - 1
  BY EmptySeq, HeadTailProperties
<1>2. Occurs(q, Head(q))
  BY <1>1 DEF Occurs
<1>3. ASSUME Occurs(q, u), u # Head(q) PROVE Occurs(Tail(q), u)
  <2>1. PICK i \in 1 .. Len(q) : q[i] = u
    BY <1>3, <1>1 DEF Occurs
  <2>2. i - 1 \in 1 .. Len(q) - 1 /\ Tail(q)[i - 1] = u
    BY <2>1, <1>1, <1>3
  <2> QED BY <2>2, <1>1 DEF Occurs
<1>4. ASSUME Occurs(Tail(q), u) PROVE Occurs(q, u)
  <2>1. PICK i \in 1 .. Len(q) - 1 : Tail(q)[i] = u
    BY <1>4, <1>1 DEF Occurs
  <2>2. i + 1 \in 1 .. Len(q) /\ q[i + 1] = u
    BY <2>1, <1>1
  <2> QED BY <2>2, <1>1 DEF Occurs
<1> QED BY <1>1, <1>2, <1>3, <1>4

\* Pushing t keeps every other id where it was, and a t that was not there
\* is there once.
LEMMA OnceAppend ==
  ASSUME NEW S, NEW q \in Seq(S), NEW t \in S, NEW u, AtMostOnce(q, u),
         u = t => ~Occurs(q, u)
  PROVE  AtMostOnce(Append(q, t), u)
  BY DEF Occurs, AtMostOnce

\* Popping an id that was queued at most once leaves none behind.
LEMMA OnceTail ==
  ASSUME NEW S, NEW q \in Seq(S), q # <<>>, NEW u, AtMostOnce(q, u)
  PROVE  /\ AtMostOnce(Tail(q), u)
         /\ u = Head(q) => ~Occurs(Tail(q), u)
<1>1. /\ Len(q) \in Nat /\ Len(q) > 0 /\ Head(q) = q[1]
      /\ \A i \in 1 .. Len(q) - 1 : Tail(q)[i] = q[i + 1]
      /\ DOMAIN q = 1 .. Len(q) /\ DOMAIN Tail(q) = 1 .. Len(q) - 1
  BY EmptySeq, HeadTailProperties
<1>2. AtMostOnce(Tail(q), u)
  <2> SUFFICES ASSUME NEW i \in 1 .. Len(q) - 1, NEW j \in 1 .. Len(q) - 1,
                      Tail(q)[i] = u, Tail(q)[j] = u
               PROVE  i = j
    BY <1>1 DEF AtMostOnce
  <2>1. i + 1 \in 1 .. Len(q) /\ j + 1 \in 1 .. Len(q)
        /\ q[i + 1] = u /\ q[j + 1] = u
    BY <1>1
  <2>2. i + 1 = j + 1
    BY <2>1, <1>1 DEF AtMostOnce
  <2> QED BY <2>2
<1>3. ASSUME u = Head(q), Occurs(Tail(q), u) PROVE FALSE
  <2>1. PICK i \in 1 .. Len(q) - 1 : Tail(q)[i] = u
    BY <1>3, <1>1 DEF Occurs
  <2>2. i + 1 \in 1 .. Len(q) /\ q[i + 1] = u /\ 1 \in 1 .. Len(q) /\ q[1] = u
    BY <2>1, <1>1, <1>3
  <2>3. i + 1 = 1
    BY <2>2, <1>1 DEF AtMostOnce
  <2> QED BY <2>3
<1> QED BY <1>2, <1>3

-----------------------------------------------------------------------------
(* The invariant is inductive *)

\* The initial state satisfies the invariant: nothing is spawned or queued.
LEMMA InitIInv == Init => IInv
<1> SUFFICES ASSUME Init PROVE IInv
  OBVIOUS
<1>1. TypeOK
  <2>1. task_queue \in Seq(Task) /\ Len(task_queue) <= TaskQueueCap
    BY EmptySeq, BoundAssumption DEF Init
  <2>2. /\ queue \in [StreamTasks -> 0 .. StreamCap]
        /\ waker \in [StreamTasks -> BOOLEAN]
        /\ deadline \in [SleepTasks -> Nat]
    BY BoundAssumption DEF Init
  <2> QED BY <2>1, <2>2 DEF Init, TypeOK, IdlePcs
<1>2. ControlInv
  BY DEF Init, ControlInv, PollPcs, MaskedPcs
<1>3. WakerInv
  BY DEF Init, WakerInv
<1>4. StreamInv
  BY DEF Init, StreamInv
<1>5. SleepInv
  BY DEF Init, SleepInv, Suspended, Queued, Occurs, AtMostOnce
<1> QED BY <1>1, <1>2, <1>3, <1>4, <1>5 DEF IInv

\* A push that finds room keeps the queue a queue of task ids within its
\* capacity.
LEMMA PushType ==
  ASSUME TypeOK, NEW t \in Task,
         \/ task_queue' = task_queue
         \/ ~QueueFull /\ task_queue' = Append(task_queue, t)
  PROVE  task_queue' \in Seq(Task) /\ Len(task_queue') <= TaskQueueCap
<1>1. /\ Append(task_queue, t) \in Seq(Task)
      /\ Len(Append(task_queue, t)) = Len(task_queue) + 1
      /\ Len(task_queue) \in Nat
  BY AppendProperties, LenProperties DEF TypeOK
<1>2. CASE task_queue' = task_queue
  BY <1>2 DEF TypeOK
<1>3. CASE ~QueueFull /\ task_queue' = Append(task_queue, t)
  BY <1>1, <1>3, BoundAssumption DEF QueueFull
<1> QED BY <1>2, <1>3

\* Counting an item in or out of a stream's queue respects its capacity.
LEMMA CountType ==
  ASSUME TypeOK, NEW s \in StreamTasks,
         \/ queue' = queue
         \/ ~(queue[s] >= StreamCap) /\ queue' = [queue EXCEPT ![s] = @ + 1]
         \/ queue[s] > 0 /\ queue' = [queue EXCEPT ![s] = @ - 1]
  PROVE  queue' \in [StreamTasks -> 0 .. StreamCap]
<1>1. /\ queue \in [StreamTasks -> 0 .. StreamCap]
      /\ queue[s] \in 0 .. StreamCap
  BY DEF TypeOK
<1>2. ASSUME queue[s] > 0 PROVE queue[s] - 1 \in 0 .. StreamCap
  BY <1>1, <1>2, BoundAssumption
<1>3. ASSUME ~(queue[s] >= StreamCap) PROVE queue[s] + 1 \in 0 .. StreamCap
  BY <1>1, <1>3, BoundAssumption
<1> QED BY <1>1, <1>2, <1>3

\* Every step preserves the types.
LEMMA TypeStep ==
  IInv /\ [Next]_vars => TypeOK'
<1> SUFFICES ASSUME IInv, [Next]_vars PROVE TypeOK'
  OBVIOUS
<1> USE TaskAssumption, BoundAssumption
<1>1. ASSUME NEW t \in Task, Spawn(t) PROVE TypeOK'
  <2>1. task_queue' \in Seq(Task) /\ Len(task_queue') <= TaskQueueCap
    <3>1. TypeOK /\ t \in Task
      BY <1>1 DEF IInv, Task
    <3>2. \/ task_queue' = task_queue
          \/ ~QueueFull /\ task_queue' = Append(task_queue, t)
      BY <1>1 DEF Spawn, Panic, execVars
    <3> QED BY <3>1, <3>2, PushType
  <2> QED
    BY <1>1, <2>1 DEF Spawn, Panic, Main, execVars, timeVars, cpuVars,
        streamVars, IInv, TypeOK, ControlInv, Task, IdlePcs, PollPcs
<1>2. ASSUME NEW s \in StreamTasks, StreamIrq(s) PROVE TypeOK'
  <2>1. task_queue' \in Seq(Task) /\ Len(task_queue') <= TaskQueueCap
    <3>1. TypeOK /\ s \in Task
      BY <1>2 DEF IInv, Task
    <3>2. \/ task_queue' = task_queue
          \/ ~QueueFull /\ task_queue' = Append(task_queue, s)
      BY <1>2 DEF StreamIrq
    <3> QED BY <3>1, <3>2, PushType
  <2>2. queue' \in [StreamTasks -> 0 .. StreamCap]
    <3>1. TypeOK /\ s \in StreamTasks
      BY <1>2 DEF IInv, StreamIrq
    <3> QED BY <3>1, <1>2, CountType DEF StreamIrq, streamVars
  <2> QED
    BY <1>2, <2>1, <2>2 DEF StreamIrq, timeVars, Resume, IInv, TypeOK,
        ControlInv, Task, IdlePcs, PollPcs
<1>3. ASSUME NEW t \in SleepTasks, ExpireOne(t) PROVE TypeOK'
  <2>1. task_queue' \in Seq(Task) /\ Len(task_queue') <= TaskQueueCap
    <3>1. TypeOK /\ t \in Task
      BY <1>3 DEF IInv, Task
    <3>2. \/ task_queue' = task_queue
          \/ ~QueueFull /\ task_queue' = Append(task_queue, t)
      BY <1>3 DEF ExpireOne, Panic, execVars
    <3> QED BY <3>1, <3>2, PushType
  <2> QED
    BY <1>3, <2>1 DEF ExpireOne, Panic, execVars, cpuVars, timeVars,
        streamVars, IInv, TypeOK, ControlInv, Task, IdlePcs, PollPcs
<1>4. CASE Run
  BY <1>4
    DEF Run, Main, Goto, execVars, cpuVars, streamVars, timeVars, IInv,
        TypeOK, ControlInv, Task, IdlePcs, PollPcs
<1>5. CASE PopTask
  BY <1>5
    DEF PopTask, Main, Goto, execVars, cpuVars, streamVars, timeVars,
        IInv, TypeOK, ControlInv, Task, IdlePcs, PollPcs
<1>6. CASE PopEmpty
  BY <1>6
    DEF PopEmpty, Main, Goto, execVars, cpuVars, streamVars, timeVars,
        IInv, TypeOK, ControlInv, Task, IdlePcs, PollPcs
<1>7. CASE Disable
  BY <1>7
    DEF Disable, Main, execVars, cpuVars, streamVars, timeVars, IInv,
        TypeOK, ControlInv, Task, IdlePcs, PollPcs
<1>8. CASE CheckQueue
  BY <1>8
    DEF CheckQueue, Main, Goto, execVars, cpuVars, streamVars, timeVars,
        IInv, TypeOK, ControlInv, Task, IdlePcs, PollPcs
<1>9. CASE EnableAndHalt
  BY <1>9
    DEF EnableAndHalt, Main, execVars, cpuVars, streamVars, timeVars,
        IInv, TypeOK, ControlInv, Task, IdlePcs, PollPcs
<1>10. CASE Enable
  BY <1>10
    DEF Enable, Main, execVars, cpuVars, streamVars, timeVars, IInv,
        TypeOK, ControlInv, Task, IdlePcs, PollPcs
<1>11. CASE Open
  BY <1>11
    DEF Open, Main, Goto, execVars, cpuVars, streamVars, timeVars, IInv,
        TypeOK, ControlInv, Task, IdlePcs, PollPcs
<1>12. CASE FirstPop
  <2>1. queue' \in [StreamTasks -> 0 .. StreamCap]
    <3>1. TypeOK /\ cur \in StreamTasks
      BY <1>12 DEF IInv, FirstPop
    <3> QED BY <3>1, <1>12, CountType DEF FirstPop, streamVars
  <2> QED
    BY <1>12, <2>1 DEF FirstPop, Main, Goto, execVars, timeVars, IInv,
        TypeOK, ControlInv, Task, IdlePcs, PollPcs
<1>13. CASE RegisterBegin
  BY <1>13
    DEF RegisterBegin, Main, Goto, execVars, cpuVars, streamVars,
        timeVars, IInv, TypeOK, ControlInv, Task, IdlePcs, PollPcs
<1>14. CASE RegisterEnd
  <2>1. task_queue' \in Seq(Task) /\ Len(task_queue') <= TaskQueueCap
    <3>1. TypeOK /\ cur \in Task
      BY <1>14 DEF IInv, ControlInv, RegisterEnd, Main, Task
    <3>2. \/ task_queue' = task_queue
          \/ ~QueueFull /\ task_queue' = Append(task_queue, cur)
      BY <1>14 DEF RegisterEnd, Panic, execVars
    <3> QED BY <3>1, <3>2, PushType
  <2> QED
    BY <1>14, <2>1 DEF RegisterEnd, Panic, execVars, Main, Goto, timeVars,
        streamVars, IInv, TypeOK, ControlInv, Task, IdlePcs, PollPcs
<1>15. CASE SecondPop
  <2>1. queue' \in [StreamTasks -> 0 .. StreamCap]
    <3>1. TypeOK /\ cur \in StreamTasks
      BY <1>15 DEF IInv, ControlInv, SecondPop, Main
    <3> QED BY <3>1, <1>15, CountType DEF SecondPop, streamVars
  <2> QED
    BY <1>15, <2>1 DEF SecondPop, Main, Goto, Pending, timeVars, IInv,
        TypeOK, ControlInv, Task, IdlePcs, PollPcs
<1>16. CASE TakeBegin
  BY <1>16
    DEF TakeBegin, Main, Goto, execVars, cpuVars, streamVars, timeVars,
        IInv, TypeOK, ControlInv, Task, IdlePcs, PollPcs
<1>17. CASE TakeEnd
  BY <1>17
    DEF TakeEnd, Main, Goto, execVars, cpuVars, streamVars, timeVars,
        IInv, TypeOK, ControlInv, Task, IdlePcs, PollPcs
<1>18. CASE Item
  BY <1>18
    DEF Item, Main, Continue, execVars, cpuVars, streamVars, timeVars,
        IInv, TypeOK, ControlInv, Task, IdlePcs, PollPcs
<1>19. CASE PollLock
  BY <1>19
    DEF PollLock, Main, execVars, cpuVars, streamVars, timeVars, IInv,
        TypeOK, ControlInv, Task, IdlePcs, PollPcs
<1>20. CASE TestDeadline
  BY <1>20
    DEF TestDeadline, Main, Goto, execVars, cpuVars, streamVars, timeVars,
        IInv, TypeOK, ControlInv, Task, IdlePcs, PollPcs
<1>21. CASE Ready
  BY <1>21
    DEF Ready, Main, execVars, cpuVars, streamVars, timeVars,
        IInv, TypeOK, ControlInv, Task, IdlePcs, PollPcs
<1>22. CASE Insert
  BY <1>22
    DEF Insert, Main, Pending, execVars, cpuVars, streamVars, timeVars,
        IInv, TypeOK, ControlInv, Task, IdlePcs, PollPcs
<1>23. CASE Tick
  BY <1>23
    DEF Tick, Interruptible, Resume, execVars, cpuVars, streamVars,
        timeVars, IInv, TypeOK, ControlInv, Task, IdlePcs, PollPcs
<1>24. CASE ExpireDone
  BY <1>24
    DEF ExpireDone, Due, execVars, cpuVars, streamVars, timeVars, IInv,
        TypeOK, ControlInv, Task, IdlePcs, PollPcs
<1>25. CASE UNCHANGED vars
  BY <1>25
    DEF vars, execVars, cpuVars, streamVars, timeVars, IInv, TypeOK,
        ControlInv, Task, IdlePcs, PollPcs
<1>26. CASE GiveUp
  BY <1>26
    DEF GiveUp, Main, execVars, streamVars, IInv, TypeOK, ControlInv, Task,
        IdlePcs, PollPcs
<1>27. CASE Drop
  BY <1>27
    DEF Drop, Main, Continue, streamVars, IInv, TypeOK, ControlInv, Task,
        IdlePcs, PollPcs
<1> QED
  BY <1>1, <1>2, <1>3, <1>4, <1>5, <1>6, <1>7, <1>8, <1>9, <1>10, <1>11,
      <1>12, <1>13, <1>14, <1>15, <1>16, <1>17, <1>18, <1>19, <1>20, <1>21,
      <1>22, <1>23, <1>24, <1>25, <1>26, <1>27
    DEF Next, MainStep, Expire

\* Every step preserves the relation between pc, cur and the interrupt flag.
LEMMA ControlStep ==
  IInv /\ [Next]_vars => ControlInv'
<1> SUFFICES ASSUME IInv, [Next]_vars PROVE ControlInv'
  OBVIOUS
<1> USE TaskAssumption
<1>1. ASSUME NEW t \in Task, Spawn(t) PROVE ControlInv'
  BY <1>1
    DEF Spawn, Main, Panic, QueueFull, execVars, cpuVars, streamVars,
        timeVars, IInv, TypeOK, ControlInv, Task, IdlePcs, PollPcs, MaskedPcs
<1>2. ASSUME NEW s \in StreamTasks, StreamIrq(s) PROVE ControlInv'
  BY <1>2
    DEF StreamIrq, Interruptible, Resume, WakeFires, QueueFull, execVars,
        cpuVars, streamVars, timeVars, IInv, TypeOK, ControlInv, Task,
        IdlePcs, PollPcs, MaskedPcs
<1>3. ASSUME NEW t \in SleepTasks, ExpireOne(t) PROVE ControlInv'
  <2>1. pc \notin {"hlt", "halt"} /\ UNCHANGED <<tasks, pc, cur, ints,
      irq, opened>>
    BY <1>3 DEF ExpireOne, Panic, execVars, cpuVars, streamVars, timeVars,
        IInv, ControlInv, MaskedPcs
  <2> QED
    BY <2>1 DEF IInv, ControlInv
<1>4. CASE Run
  BY <1>4
    DEF Run, Main, Goto, execVars, cpuVars, streamVars, timeVars, IInv,
        TypeOK, ControlInv, Task, IdlePcs, PollPcs, MaskedPcs
<1>5. CASE PopTask
  BY <1>5
    DEF PopTask, Main, Goto, execVars, cpuVars, streamVars, timeVars,
        IInv, TypeOK, ControlInv, Task, IdlePcs, PollPcs, MaskedPcs
<1>6. CASE PopEmpty
  BY <1>6
    DEF PopEmpty, Main, Goto, execVars, cpuVars, streamVars, timeVars,
        IInv, TypeOK, ControlInv, Task, IdlePcs, PollPcs, MaskedPcs
<1>7. CASE Disable
  BY <1>7
    DEF Disable, Main, execVars, cpuVars, streamVars, timeVars, IInv,
        TypeOK, ControlInv, Task, IdlePcs, PollPcs, MaskedPcs
<1>8. CASE CheckQueue
  BY <1>8
    DEF CheckQueue, Main, Goto, execVars, cpuVars, streamVars, timeVars,
        IInv, TypeOK, ControlInv, Task, IdlePcs, PollPcs, MaskedPcs
<1>9. CASE EnableAndHalt
  BY <1>9
    DEF EnableAndHalt, Main, execVars, cpuVars, streamVars, timeVars,
        IInv, TypeOK, ControlInv, Task, IdlePcs, PollPcs, MaskedPcs
<1>10. CASE Enable
  BY <1>10
    DEF Enable, Main, execVars, cpuVars, streamVars, timeVars, IInv,
        TypeOK, ControlInv, Task, IdlePcs, PollPcs, MaskedPcs
<1>11. CASE Open
  BY <1>11
    DEF Open, Main, Goto, execVars, cpuVars, streamVars, timeVars, IInv,
        TypeOK, ControlInv, Task, IdlePcs, PollPcs, MaskedPcs
<1>12. CASE FirstPop
  BY <1>12
    DEF FirstPop, Main, Goto, execVars, cpuVars, streamVars, timeVars,
        IInv, TypeOK, ControlInv, Task, IdlePcs, PollPcs, MaskedPcs
<1>13. CASE RegisterBegin
  BY <1>13
    DEF RegisterBegin, Main, Goto, execVars, cpuVars, streamVars,
        timeVars, IInv, TypeOK, ControlInv, Task, IdlePcs, PollPcs, MaskedPcs
<1>14. CASE RegisterEnd
  <2>1. pc' \notin {"hlt", "halt"} /\ UNCHANGED <<tasks, cur, ints, irq,
      opened>> /\ pc = "registering" /\ irq = "none" /\ pc' \in
      {"registering", "recheck"}
    BY <1>14 DEF RegisterEnd, Main, Goto, Panic, execVars, cpuVars,
        streamVars, timeVars
  <2> QED
    BY <2>1 DEF IInv, ControlInv, PollPcs, MaskedPcs
<1>15. CASE SecondPop
  <2>1. CASE queue[cur] > 0
    BY <1>15, <2>1 DEF SecondPop, Main, Goto, IInv, TypeOK, ControlInv,
        Task, IdlePcs, PollPcs, MaskedPcs
  <2>2. CASE ~(queue[cur] > 0)
    BY <1>15, <2>2 DEF SecondPop, Main, Goto, Pending, IInv, TypeOK,
        ControlInv, Task, IdlePcs, PollPcs, MaskedPcs
  <2> QED BY <2>1, <2>2
<1>16. CASE TakeBegin
  BY <1>16
    DEF TakeBegin, Main, Goto, execVars, cpuVars, streamVars, timeVars,
        IInv, TypeOK, ControlInv, Task, IdlePcs, PollPcs, MaskedPcs
<1>17. CASE TakeEnd
  BY <1>17
    DEF TakeEnd, Main, Goto, execVars, cpuVars, streamVars, timeVars,
        IInv, TypeOK, ControlInv, Task, IdlePcs, PollPcs, MaskedPcs
<1>18. CASE Item
  BY <1>18
    DEF Item, Main, Continue, execVars, cpuVars, streamVars, timeVars,
        IInv, TypeOK, ControlInv, Task, IdlePcs, PollPcs, MaskedPcs
<1>19. CASE PollLock
  BY <1>19
    DEF PollLock, Main, execVars, cpuVars, streamVars, timeVars, IInv,
        TypeOK, ControlInv, Task, IdlePcs, PollPcs, MaskedPcs
<1>20. CASE TestDeadline
  BY <1>20
    DEF TestDeadline, Main, Goto, execVars, cpuVars, streamVars, timeVars,
        IInv, TypeOK, ControlInv, Task, IdlePcs, PollPcs, MaskedPcs
<1>21. CASE Ready
  BY <1>21
    DEF Ready, Main, execVars, cpuVars, streamVars, timeVars,
        IInv, TypeOK, ControlInv, Task, IdlePcs, PollPcs, MaskedPcs
<1>22. CASE Insert
  BY <1>22
    DEF Insert, Main, Pending, execVars, cpuVars, streamVars, timeVars,
        IInv, TypeOK, ControlInv, Task, IdlePcs, PollPcs, MaskedPcs
<1>23. CASE Tick
  BY <1>23
    DEF Tick, Interruptible, Resume, execVars, cpuVars, streamVars,
        timeVars, IInv, TypeOK, ControlInv, Task, IdlePcs, PollPcs, MaskedPcs
<1>24. CASE ExpireDone
  BY <1>24
    DEF ExpireDone, Due, execVars, cpuVars, streamVars, timeVars, IInv,
        TypeOK, ControlInv, Task, IdlePcs, PollPcs, MaskedPcs
<1>25. CASE UNCHANGED vars
  BY <1>25
    DEF vars, execVars, cpuVars, streamVars, timeVars, IInv, TypeOK,
        ControlInv, Task, IdlePcs, PollPcs, MaskedPcs
<1>26. CASE GiveUp
  BY <1>26
    DEF GiveUp, Main, execVars, streamVars, IInv, TypeOK, ControlInv, Task,
        IdlePcs, PollPcs, MaskedPcs
<1>27. CASE Drop
  BY <1>27
    DEF Drop, Main, Continue, streamVars, IInv, TypeOK, ControlInv, Task,
        IdlePcs, PollPcs, MaskedPcs
<1> QED
  BY <1>1, <1>2, <1>3, <1>4, <1>5, <1>6, <1>7, <1>8, <1>9, <1>10, <1>11,
      <1>12, <1>13, <1>14, <1>15, <1>16, <1>17, <1>18, <1>19, <1>20, <1>21,
      <1>22, <1>23, <1>24, <1>25, <1>26, <1>27
    DEF Next, MainStep, Expire

\* Every step preserves the AtomicWaker's protocol.
LEMMA WakerStep ==
  IInv /\ [Next]_vars => WakerInv'
<1> SUFFICES ASSUME IInv, [Next]_vars PROVE WakerInv'
  OBVIOUS
<1> USE TaskAssumption
<1>1. ASSUME NEW t \in Task, Spawn(t) PROVE WakerInv'
  BY <1>1
    DEF Spawn, Main, Panic, QueueFull, execVars, cpuVars, streamVars,
        timeVars, IInv, TypeOK, ControlInv, WakerInv, Task
<1>2. ASSUME NEW s \in StreamTasks, StreamIrq(s) PROVE WakerInv'
  BY <1>2
    DEF StreamIrq, Interruptible, Resume, WakeFires, QueueFull, execVars,
        cpuVars, streamVars, timeVars, IInv, TypeOK, ControlInv, WakerInv,
        Task
<1>3. ASSUME NEW t \in SleepTasks, ExpireOne(t) PROVE WakerInv'
  BY <1>3
    DEF ExpireOne, Panic, QueueFull, First, Due, execVars, cpuVars,
        streamVars, timeVars, IInv, TypeOK, ControlInv, WakerInv, Task
<1>4. CASE Run
  BY <1>4
    DEF Run, Main, Goto, execVars, cpuVars, streamVars, timeVars, IInv,
        TypeOK, ControlInv, WakerInv, Task
<1>5. CASE PopTask
  BY <1>5
    DEF PopTask, Main, Goto, execVars, cpuVars, streamVars, timeVars,
        IInv, TypeOK, ControlInv, WakerInv, Task
<1>6. CASE PopEmpty
  BY <1>6
    DEF PopEmpty, Main, Goto, execVars, cpuVars, streamVars, timeVars,
        IInv, TypeOK, ControlInv, WakerInv, Task
<1>7. CASE Disable
  BY <1>7
    DEF Disable, Main, execVars, cpuVars, streamVars, timeVars, IInv,
        TypeOK, ControlInv, WakerInv, Task
<1>8. CASE CheckQueue
  BY <1>8
    DEF CheckQueue, Main, Goto, execVars, cpuVars, streamVars, timeVars,
        IInv, TypeOK, ControlInv, WakerInv, Task
<1>9. CASE EnableAndHalt
  BY <1>9
    DEF EnableAndHalt, Main, execVars, cpuVars, streamVars, timeVars,
        IInv, TypeOK, ControlInv, WakerInv, Task
<1>10. CASE Enable
  BY <1>10
    DEF Enable, Main, execVars, cpuVars, streamVars, timeVars, IInv,
        TypeOK, ControlInv, WakerInv, Task
<1>11. CASE Open
  BY <1>11
    DEF Open, Main, Goto, execVars, cpuVars, streamVars, timeVars, IInv,
        TypeOK, ControlInv, WakerInv, Task
<1>12. CASE FirstPop
  BY <1>12
    DEF FirstPop, Main, Goto, execVars, cpuVars, streamVars, timeVars,
        IInv, TypeOK, ControlInv, WakerInv, Task
<1>13. CASE RegisterBegin
  BY <1>13
    DEF RegisterBegin, Main, Goto, execVars, cpuVars, streamVars,
        timeVars, IInv, TypeOK, ControlInv, WakerInv, Task
<1>14. CASE RegisterEnd
  BY <1>14
    DEF RegisterEnd, Main, Goto, Panic, QueueFull, execVars, cpuVars,
        streamVars, timeVars, IInv, TypeOK, ControlInv, WakerInv, Task
<1>15. CASE SecondPop
  BY <1>15
    DEF SecondPop, Main, Goto, Pending, execVars, cpuVars, streamVars,
        timeVars, IInv, TypeOK, ControlInv, WakerInv, Task
<1>16. CASE TakeBegin
  BY <1>16
    DEF TakeBegin, Main, Goto, execVars, cpuVars, streamVars, timeVars,
        IInv, TypeOK, ControlInv, WakerInv, Task
<1>17. CASE TakeEnd
  BY <1>17
    DEF TakeEnd, Main, Goto, execVars, cpuVars, streamVars, timeVars,
        IInv, TypeOK, ControlInv, WakerInv, Task
<1>18. CASE Item
  BY <1>18
    DEF Item, Main, Continue, execVars, cpuVars, streamVars, timeVars,
        IInv, TypeOK, ControlInv, WakerInv, Task
<1>19. CASE PollLock
  BY <1>19
    DEF PollLock, Main, execVars, cpuVars, streamVars, timeVars, IInv,
        TypeOK, ControlInv, WakerInv, Task
<1>20. CASE TestDeadline
  BY <1>20
    DEF TestDeadline, Main, Goto, execVars, cpuVars, streamVars, timeVars,
        IInv, TypeOK, ControlInv, WakerInv, Task
<1>21. CASE Ready
  BY <1>21
    DEF Ready, Main, execVars, cpuVars, streamVars, timeVars,
        IInv, TypeOK, ControlInv, WakerInv, Task
<1>22. CASE Insert
  BY <1>22
    DEF Insert, Main, Pending, execVars, cpuVars, streamVars, timeVars,
        IInv, TypeOK, ControlInv, WakerInv, Task
<1>23. CASE Tick
  BY <1>23
    DEF Tick, Interruptible, Resume, execVars, cpuVars, streamVars,
        timeVars, IInv, TypeOK, ControlInv, WakerInv, Task
<1>24. CASE ExpireDone
  BY <1>24
    DEF ExpireDone, Due, execVars, cpuVars, streamVars, timeVars, IInv,
        TypeOK, ControlInv, WakerInv, Task
<1>25. CASE UNCHANGED vars
  BY <1>25
    DEF vars, execVars, cpuVars, streamVars, timeVars, IInv, TypeOK,
        ControlInv, WakerInv, Task
<1>26. CASE GiveUp
  BY <1>26
    DEF GiveUp, Main, execVars, streamVars, IInv, TypeOK, ControlInv, WakerInv,
        Task
<1>27. CASE Drop
  BY <1>27
    DEF Drop, Main, Continue, streamVars, IInv, TypeOK, ControlInv, WakerInv,
        Task
<1> QED
  BY <1>1, <1>2, <1>3, <1>4, <1>5, <1>6, <1>7, <1>8, <1>9, <1>10, <1>11,
      <1>12, <1>13, <1>14, <1>15, <1>16, <1>17, <1>18, <1>19, <1>20, <1>21,
      <1>22, <1>23, <1>24, <1>25, <1>26, <1>27
    DEF Next, MainStep, Expire

\* What the steps of the run queue do to the ids found in it.
LEMMA PushOccurs ==
  ASSUME TypeOK, NEW t \in Task, task_queue' = Append(task_queue, t)
  PROVE  \A u : Queued(u)' <=> Queued(u) \/ u = t
  BY OccursAppend DEF TypeOK, Queued

\* Popping the head of task_queue loses no other id and adds none.
LEMMA PopOccurs ==
  ASSUME TypeOK, task_queue # <<>>, task_queue' = Tail(task_queue)
  PROVE  /\ Head(task_queue) \in Task /\ Queued(Head(task_queue))
         /\ \A u : Queued(u) => Queued(u)' \/ u = Head(task_queue)
         /\ \A u : Queued(u)' => Queued(u)
  BY OccursTail DEF TypeOK, Queued

\* Pushing an id that is not queued keeps every id at most once in task_queue.
LEMMA PushOnce ==
  ASSUME TypeOK, NEW t \in Task, ~Queued(t),
         task_queue' = Append(task_queue, t),
         NEW u, AtMostOnce(task_queue, u)
  PROVE  AtMostOnce(task_queue, u)'
  BY OnceAppend DEF TypeOK, Queued

\* Popping keeps every id at most once, and the popped one is gone.
LEMMA PopOnce ==
  ASSUME TypeOK, task_queue # <<>>, task_queue' = Tail(task_queue),
         NEW u, AtMostOnce(task_queue, u)
  PROVE  /\ AtMostOnce(task_queue, u)'
         /\ u = Head(task_queue) => ~Queued(u)'
  BY OnceTail DEF TypeOK, Queued

\* Every step that does not panic keeps the promise to the stream tasks.
LEMMA StreamStep ==
  IInv /\ [Next]_vars /\ ~panicked' => StreamInv'
<1> SUFFICES ASSUME IInv, [Next]_vars, ~panicked' PROVE StreamInv'
  OBVIOUS
<1> USE TaskAssumption
<1>1. ASSUME NEW t \in Task, Spawn(t) PROVE StreamInv'
  <2>1. TypeOK /\ t \in Task
    BY <1>1 DEF IInv, TypeOK, ControlInv, Main, Spawn, Task
  <2>2. \A u : Queued(u)' <=> Queued(u) \/ u = t
    BY <2>1, <1>1, PushOccurs DEF Spawn, Panic
  <2> QED
    BY <1>1, <2>2 DEF Spawn, Main, Panic, cpuVars, streamVars, IInv,
        TypeOK, ControlInv, WakerInv, StreamInv, Task
<1>2. ASSUME NEW s \in StreamTasks, StreamIrq(s) PROVE StreamInv'
  <2>1. CASE s \notin opened \/ queue[s] >= StreamCap
    BY <1>2, <2>1 DEF StreamIrq, Interruptible, Resume, Queued, IInv,
        TypeOK, ControlInv, WakerInv, StreamInv, Task
  <2>2. CASE ~(s \notin opened \/ queue[s] >= StreamCap) /\ WakeFires(s)
    <3>1. \A u : Queued(u)' <=> Queued(u) \/ u = s
      BY <1>2, <2>2, PushOccurs DEF StreamIrq, IInv, Task
    <3> QED
      BY <1>2, <2>2, <3>1 DEF StreamIrq, Interruptible, Resume, IInv,
          TypeOK, ControlInv, WakerInv, StreamInv, Task
  <2>3. CASE ~(s \notin opened \/ queue[s] >= StreamCap) /\ ~WakeFires(s)
    BY <1>2, <2>3 DEF StreamIrq, Interruptible, Resume, WakeFires, Queued,
        IInv, TypeOK, ControlInv, WakerInv, StreamInv, Task
  <2> QED BY <2>1, <2>2, <2>3
<1>3. ASSUME NEW t \in SleepTasks, ExpireOne(t) PROVE StreamInv'
  <2>1. TypeOK /\ t \in Task /\ ~panicked
    BY <1>3 DEF ExpireOne, IInv, Task
  <2>2. UNCHANGED <<tasks, pc, cur, queue, waker>>
    BY <1>3 DEF ExpireOne, Panic, cpuVars, streamVars, execVars
  <2>3. \A u : Queued(u) => Queued(u)'
    BY <2>1, <1>3, PushOccurs DEF ExpireOne, Panic
  <2> QED
    BY <2>1, <2>2, <2>3 DEF IInv, StreamInv
<1>4. CASE Run
  BY <1>4
    DEF Run, Main, Goto, execVars, cpuVars, streamVars, timeVars, IInv,
        TypeOK, ControlInv, WakerInv, StreamInv, Task, Queued
<1>5. CASE PopTask
  <2>1. /\ Head(task_queue) \in Task /\ Queued(Head(task_queue))
        /\ \A u : Queued(u) => Queued(u)' \/ u = Head(task_queue)
    BY <1>5, PopOccurs DEF PopTask, IInv
  <2>2. /\ cur = NoTask /\ ~panicked
        /\ cur' = Head(task_queue) \/ Head(task_queue) \notin tasks
        /\ pc' # "recheck"
        /\ UNCHANGED <<tasks, queue, waker>>
    BY <1>5 DEF PopTask, Main, Goto, streamVars, IInv, ControlInv, PollPcs
  <2> QED
    BY <2>1, <2>2, TaskAssumption DEF IInv, StreamInv, Task
<1>6. CASE PopEmpty
  BY <1>6
    DEF PopEmpty, Main, Goto, execVars, cpuVars, streamVars, timeVars,
        IInv, TypeOK, ControlInv, WakerInv, StreamInv, Task, Queued
<1>7. CASE Disable
  BY <1>7
    DEF Disable, Main, execVars, cpuVars, streamVars, timeVars, IInv,
        TypeOK, ControlInv, WakerInv, StreamInv, Task, Queued
<1>8. CASE CheckQueue
  BY <1>8
    DEF CheckQueue, Main, Goto, execVars, cpuVars, streamVars, timeVars,
        IInv, TypeOK, ControlInv, WakerInv, StreamInv, Task, Queued
<1>9. CASE EnableAndHalt
  BY <1>9
    DEF EnableAndHalt, Main, execVars, cpuVars, streamVars, timeVars,
        IInv, TypeOK, ControlInv, WakerInv, StreamInv, Task, Queued
<1>10. CASE Enable
  BY <1>10
    DEF Enable, Main, execVars, cpuVars, streamVars, timeVars, IInv,
        TypeOK, ControlInv, WakerInv, StreamInv, Task, Queued
<1>11. CASE Open
  BY <1>11
    DEF Open, Main, Goto, execVars, cpuVars, streamVars, timeVars, IInv,
        TypeOK, ControlInv, WakerInv, StreamInv, Task, Queued
<1>12. CASE FirstPop
  BY <1>12
    DEF FirstPop, Main, Goto, execVars, cpuVars, streamVars, timeVars,
        IInv, TypeOK, ControlInv, WakerInv, StreamInv, Task, Queued
<1>13. CASE RegisterBegin
  BY <1>13
    DEF RegisterBegin, Main, Goto, execVars, cpuVars, streamVars,
        timeVars, IInv, TypeOK, ControlInv, WakerInv, StreamInv, Task, Queued
<1>14. CASE RegisterEnd
  <2>1. \A u : Queued(u) => Queued(u)'
    BY <1>14, PushOccurs DEF RegisterEnd, Panic, IInv, TypeOK, ControlInv,
        Main, Task, Queued
  <2>2. waker[cur]' \/ Queued(cur)'
    BY <1>14, PushOccurs DEF RegisterEnd, Panic, IInv, TypeOK, ControlInv,
        Main, Task
  <2> QED
    BY <1>14, <2>1, <2>2 DEF RegisterEnd, Main, Goto, Panic, IInv, TypeOK,
        ControlInv, WakerInv, StreamInv, Task
<1>15. CASE SecondPop
  BY <1>15
    DEF SecondPop, Main, Goto, Pending, execVars, cpuVars, streamVars,
        timeVars, IInv, TypeOK, ControlInv, WakerInv, StreamInv, Task, Queued
<1>16. CASE TakeBegin
  BY <1>16
    DEF TakeBegin, Main, Goto, execVars, cpuVars, streamVars, timeVars,
        IInv, TypeOK, ControlInv, WakerInv, StreamInv, Task, Queued
<1>17. CASE TakeEnd
  BY <1>17
    DEF TakeEnd, Main, Goto, execVars, cpuVars, streamVars, timeVars,
        IInv, TypeOK, ControlInv, WakerInv, StreamInv, Task, Queued
<1>18. CASE Item
  BY <1>18
    DEF Item, Main, Continue, execVars, cpuVars, streamVars, timeVars,
        IInv, TypeOK, ControlInv, WakerInv, StreamInv, Task, Queued
<1>19. CASE PollLock
  BY <1>19
    DEF PollLock, Main, execVars, cpuVars, streamVars, timeVars, IInv,
        TypeOK, ControlInv, WakerInv, StreamInv, Task, Queued
<1>20. CASE TestDeadline
  BY <1>20
    DEF TestDeadline, Main, Goto, execVars, cpuVars, streamVars, timeVars,
        IInv, TypeOK, ControlInv, WakerInv, StreamInv, Task, Queued
<1>21. CASE Ready
  BY <1>21
    DEF Ready, Main, execVars, cpuVars, streamVars, timeVars,
        IInv, TypeOK, ControlInv, WakerInv, StreamInv, Task, Queued
<1>22. CASE Insert
  BY <1>22
    DEF Insert, Main, Pending, execVars, cpuVars, streamVars, timeVars,
        IInv, TypeOK, ControlInv, WakerInv, StreamInv, Task, Queued
<1>23. CASE Tick
  BY <1>23
    DEF Tick, Interruptible, Resume, execVars, cpuVars, streamVars,
        timeVars, IInv, TypeOK, ControlInv, WakerInv, StreamInv, Task, Queued
<1>24. CASE ExpireDone
  BY <1>24
    DEF ExpireDone, Due, execVars, cpuVars, streamVars, timeVars, IInv,
        TypeOK, ControlInv, WakerInv, StreamInv, Task, Queued
<1>25. CASE UNCHANGED vars
  BY <1>25
    DEF vars, execVars, cpuVars, streamVars, timeVars, IInv, TypeOK,
        ControlInv, WakerInv, StreamInv, Task, Queued
<1>26. CASE GiveUp
  BY <1>26
    DEF GiveUp, Main, execVars, streamVars, IInv, TypeOK, ControlInv, WakerInv,
        StreamInv, Task, Queued
<1>27. CASE Drop
  BY <1>27
    DEF Drop, Main, Continue, streamVars, IInv, TypeOK, ControlInv, WakerInv,
        StreamInv, Task, Queued
<1> QED
  BY <1>1, <1>2, <1>3, <1>4, <1>5, <1>6, <1>7, <1>8, <1>9, <1>10, <1>11,
      <1>12, <1>13, <1>14, <1>15, <1>16, <1>17, <1>18, <1>19, <1>20, <1>21,
      <1>22, <1>23, <1>24, <1>25, <1>26, <1>27
    DEF Next, MainStep, Expire

\* Every step that does not panic keeps the promise to the sleep tasks.
LEMMA SleepStep ==
  IInv /\ [Next]_vars /\ ~panicked' => SleepInv'
<1> SUFFICES ASSUME IInv, [Next]_vars, ~panicked' PROVE SleepInv'
  OBVIOUS
<1> USE TaskAssumption
<1>1. ASSUME NEW t \in Task, Spawn(t) PROVE SleepInv'
  <2>1. TypeOK /\ t \in Task /\ t \notin tasks /\ ~panicked
    BY <1>1 DEF Spawn, Main, IInv, TypeOK
  <2>2. /\ task_queue' = Append(task_queue, t)
        /\ tasks' = tasks \cup {t}
        /\ UNCHANGED <<pc, cur, irq, opened, timers, deadline, now>>
    BY <1>1 DEF Spawn, Panic, cpuVars, timeVars
  <2>3. /\ \A u : Queued(u)' <=> Queued(u) \/ u = t
        /\ \A u \in SleepTasks \ Impatient : AtMostOnce(task_queue, u)'
    <3>1. \A u : Queued(u)' <=> Queued(u) \/ u = t
      BY <2>1, <2>2, PushOccurs
    <3>2. ASSUME NEW u \in SleepTasks \ Impatient
          PROVE  AtMostOnce(task_queue, u)'
      BY <2>1, <2>2, OnceAppend DEF IInv, TypeOK, SleepInv, Suspended, Queued
    <3> QED BY <3>1, <3>2
  <2>4. cur = NoTask
    BY <1>1 DEF Spawn, Main, IInv, ControlInv, PollPcs
  <2> QED
    BY <2>1, <2>2, <2>3, <2>4, <1>1 DEF Spawn, Main, IInv, SleepInv,
        Suspended, Task
<1>2. ASSUME NEW s \in StreamTasks, StreamIrq(s) PROVE SleepInv'
  <2>1. TypeOK /\ s \in Task /\ ~panicked
    BY <1>2 DEF StreamIrq, Interruptible, IInv, Task
  <2>2. \/ task_queue' = task_queue
        \/ task_queue' = Append(task_queue, s)
    BY <1>2 DEF StreamIrq
  <2>3. \A u \in SleepTasks :
          /\ Queued(u)' <=> Queued(u)
          /\ AtMostOnce(task_queue, u) => AtMostOnce(task_queue, u)'
    <3> SUFFICES ASSUME NEW u \in SleepTasks
                 PROVE  /\ Queued(u)' <=> Queued(u)
                        /\ AtMostOnce(task_queue, u)
                             => AtMostOnce(task_queue, u)'
      OBVIOUS
    <3>1. u # s
      BY TaskAssumption
    <3>2. CASE task_queue' = task_queue
      BY <3>1, <3>2 DEF Queued
    <3>3. CASE task_queue' = Append(task_queue, s)
      <4>1. task_queue \in Seq(Task) /\ s \in Task
        BY <2>1, <3>1 DEF TypeOK
      <4> QED BY <3>1, <3>3, <4>1, OccursAppend, OnceAppend DEF Queued
    <3> QED BY <2>2, <3>2, <3>3
  <2>4. /\ pc' = pc \/ pc' = "pop"
        /\ UNCHANGED <<tasks, cur, irq, opened, timers, deadline, now>>
    BY <1>2 DEF StreamIrq, Resume, timeVars
  <2> QED BY <2>1, <2>3, <2>4 DEF IInv, SleepInv, Suspended
<1>3. ASSUME NEW t \in SleepTasks, ExpireOne(t) PROVE SleepInv'
  <2>1. /\ TypeOK /\ t \in Task /\ ~panicked /\ t \in timers
        /\ t \notin Impatient => ~Queued(t)
    BY <1>3 DEF ExpireOne, First, Due, IInv, SleepInv, Task
  <2>2. /\ task_queue' = Append(task_queue, t)
        /\ timers' = timers \ {t}
        /\ UNCHANGED <<tasks, pc, cur, irq, opened, deadline, now>>
    BY <1>3 DEF ExpireOne, Panic, cpuVars
  <2>3. \A u : Queued(u)' <=> Queued(u) \/ u = t
    BY <2>1, <2>2, PushOccurs
  <2>4. ASSUME NEW u \in SleepTasks \ Impatient
        PROVE  AtMostOnce(task_queue, u)'
    <3>1. AtMostOnce(task_queue, u) /\ (u = t => ~Occurs(task_queue, u))
      BY <2>1, <2>4 DEF IInv, SleepInv, Queued
    <3> QED BY <2>1, <2>2, <3>1, OnceAppend DEF TypeOK
  <2> QED
    BY <2>1, <2>2, <2>3, <2>4 DEF IInv, SleepInv, Suspended
<1>4. CASE Run
  BY <1>4
    DEF Run, Main, Goto, execVars, cpuVars, streamVars, timeVars, IInv,
        TypeOK, ControlInv, SleepInv, Suspended, Task, Queued
<1>5. CASE PopTask
  <2>1. /\ Head(task_queue) \in Task /\ Queued(Head(task_queue))
        /\ \A u : Queued(u) => Queued(u)' \/ u = Head(task_queue)
        /\ \A u : Queued(u)' => Queued(u)
    BY <1>5, PopOccurs DEF PopTask, IInv
  <2>2. \A u \in SleepTasks \ Impatient :
          /\ AtMostOnce(task_queue, u)'
          /\ u = Head(task_queue) => ~Queued(u)'
    BY <1>5, PopOnce DEF PopTask, Main, IInv, SleepInv
  <2>3. /\ cur = NoTask /\ ~panicked
        /\ IF Head(task_queue) \in tasks
           THEN cur' = Head(task_queue) ELSE cur' = cur
        /\ pc' \notin {"insert", "due", "drop"}
        /\ UNCHANGED <<tasks, irq, opened, timers, deadline, now>>
    BY <1>5 DEF PopTask, Main, Goto, timeVars, IInv, ControlInv, PollPcs
  <2> QED
    BY <2>1, <2>2, <2>3, TaskAssumption DEF IInv, SleepInv, Suspended, Task
<1>6. CASE PopEmpty
  BY <1>6
    DEF PopEmpty, Main, Goto, execVars, cpuVars, streamVars, timeVars,
        IInv, TypeOK, ControlInv, SleepInv, Suspended, Task, Queued
<1>7. CASE Disable
  BY <1>7
    DEF Disable, Main, execVars, cpuVars, streamVars, timeVars, IInv,
        TypeOK, ControlInv, SleepInv, Suspended, Task, Queued
<1>8. CASE CheckQueue
  BY <1>8
    DEF CheckQueue, Main, Goto, execVars, cpuVars, streamVars, timeVars,
        IInv, TypeOK, ControlInv, SleepInv, Suspended, Task, Queued
<1>9. CASE EnableAndHalt
  BY <1>9
    DEF EnableAndHalt, Main, execVars, cpuVars, streamVars, timeVars,
        IInv, TypeOK, ControlInv, SleepInv, Suspended, Task, Queued
<1>10. CASE Enable
  BY <1>10
    DEF Enable, Main, execVars, cpuVars, streamVars, timeVars, IInv,
        TypeOK, ControlInv, SleepInv, Suspended, Task, Queued
<1>11. CASE Open
  BY <1>11
    DEF Open, Main, Goto, execVars, cpuVars, streamVars, timeVars, IInv,
        TypeOK, ControlInv, SleepInv, Suspended, Task, Queued
<1>12. CASE FirstPop
  BY <1>12
    DEF FirstPop, Main, Goto, execVars, cpuVars, streamVars, timeVars,
        IInv, TypeOK, ControlInv, SleepInv, Suspended, Task, Queued
<1>13. CASE RegisterBegin
  BY <1>13
    DEF RegisterBegin, Main, Goto, execVars, cpuVars, streamVars,
        timeVars, IInv, TypeOK, ControlInv, SleepInv, Suspended, Task, Queued
<1>14. CASE RegisterEnd
  <2>1. TypeOK /\ cur \in StreamTasks /\ ~panicked
    BY <1>14 DEF RegisterEnd, Main, IInv, ControlInv
  <2>2. \/ task_queue' = task_queue
        \/ task_queue' = Append(task_queue, cur)
    BY <1>14 DEF RegisterEnd, Panic
  <2>3. \A u \in SleepTasks :
          /\ Queued(u)' <=> Queued(u)
          /\ AtMostOnce(task_queue, u) => AtMostOnce(task_queue, u)'
    <3> SUFFICES ASSUME NEW u \in SleepTasks
                 PROVE  /\ Queued(u)' <=> Queued(u)
                        /\ AtMostOnce(task_queue, u)
                             => AtMostOnce(task_queue, u)'
      OBVIOUS
    <3>1. u # cur /\ cur \in Task
      BY <2>1, TaskAssumption DEF Task
    <3>2. CASE task_queue' = task_queue
      BY <3>1, <3>2 DEF Queued
    <3>3. CASE task_queue' = Append(task_queue, cur)
      <4>1. task_queue \in Seq(Task) /\ cur \in Task
        BY <2>1, <3>1 DEF TypeOK
      <4> QED BY <3>1, <3>3, <4>1, OccursAppend, OnceAppend DEF Queued
    <3> QED BY <2>2, <3>2, <3>3
  <2>4. /\ pc' \notin {"insert", "due", "drop"}
        /\ UNCHANGED <<tasks, cur, irq, opened, timers, deadline, now>>
    BY <1>14 DEF RegisterEnd, Main, Goto, Panic, timeVars
  <2> QED BY <2>1, <2>3, <2>4 DEF IInv, SleepInv, Suspended
<1>15. CASE SecondPop
  BY <1>15
    DEF SecondPop, Main, Goto, Pending, execVars, cpuVars, streamVars,
        timeVars, IInv, TypeOK, ControlInv, SleepInv, Suspended, Task, Queued
<1>16. CASE TakeBegin
  BY <1>16
    DEF TakeBegin, Main, Goto, execVars, cpuVars, streamVars, timeVars,
        IInv, TypeOK, ControlInv, SleepInv, Suspended, Task, Queued
<1>17. CASE TakeEnd
  BY <1>17
    DEF TakeEnd, Main, Goto, execVars, cpuVars, streamVars, timeVars,
        IInv, TypeOK, ControlInv, SleepInv, Suspended, Task, Queued
<1>18. CASE Item
  BY <1>18
    DEF Item, Main, Continue, execVars, cpuVars, streamVars, timeVars,
        IInv, TypeOK, ControlInv, SleepInv, Suspended, Task, Queued
<1>19. CASE PollLock
  BY <1>19
    DEF PollLock, Main, execVars, cpuVars, streamVars, timeVars, IInv,
        TypeOK, ControlInv, SleepInv, Suspended, Task, Queued
<1>20. CASE TestDeadline
  BY <1>20
    DEF TestDeadline, Main, Goto, execVars, cpuVars, streamVars, timeVars,
        IInv, TypeOK, ControlInv, SleepInv, Suspended, Task, Queued
<1>21. CASE Ready
  BY <1>21
    DEF Ready, Main, execVars, cpuVars, streamVars, timeVars,
        IInv, TypeOK, ControlInv, SleepInv, Suspended, Task, Queued
<1>22. CASE Insert
  BY <1>22
    DEF Insert, Main, Pending, execVars, cpuVars, streamVars, timeVars,
        IInv, TypeOK, ControlInv, SleepInv, Suspended, Task, Queued
<1>23. CASE Tick
  <2>1. pc \notin {"insert", "due"} /\ ~panicked
    BY <1>23 DEF Tick, Interruptible, IInv, ControlInv, MaskedPcs
  <2>2. /\ irq' = "expire" /\ (pc' = pc \/ pc' = "pop")
        /\ UNCHANGED <<task_queue, tasks, cur, opened, timers>>
    BY <1>23 DEF Tick, Resume, execVars
  <2>3. pc' = "drop" => cur' \in Impatient \/ deadline'[cur'] <= now'
    <3>1. ASSUME pc = "drop", cur \notin Impatient
          PROVE  deadline[cur] <= now + 1
      <4>1. /\ cur \in SleepTasks /\ deadline[cur] <= now
            /\ deadline[cur] \in Nat /\ now \in Nat
        BY <2>1, <3>1 DEF IInv, TypeOK, ControlInv, SleepInv
      <4> QED BY <4>1
    <3> QED BY <1>23, <2>2, <3>1 DEF Tick
  <2> QED
    BY <2>1, <2>2, <2>3 DEF IInv, SleepInv, Suspended, Queued
<1>24. CASE ExpireDone
  BY <1>24
    DEF ExpireDone, Due, execVars, cpuVars, streamVars, timeVars, IInv,
        TypeOK, ControlInv, SleepInv, Suspended, Task, Queued
<1>25. CASE UNCHANGED vars
  BY <1>25
    DEF vars, execVars, cpuVars, streamVars, timeVars, IInv, TypeOK,
        ControlInv, SleepInv, Suspended, Task, Queued
<1>26. CASE GiveUp
  BY <1>26
    DEF GiveUp, Main, execVars, streamVars, IInv, TypeOK, ControlInv, SleepInv,
        Suspended, Task, Queued
<1>27. CASE Drop
  BY <1>27
    DEF Drop, Main, Continue, streamVars, IInv, TypeOK, ControlInv, SleepInv,
        Suspended, Task, Queued
<1> QED
  BY <1>1, <1>2, <1>3, <1>4, <1>5, <1>6, <1>7, <1>8, <1>9, <1>10, <1>11,
      <1>12, <1>13, <1>14, <1>15, <1>16, <1>17, <1>18, <1>19, <1>20, <1>21,
      <1>22, <1>23, <1>24, <1>25, <1>26, <1>27
    DEF Next, MainStep, Expire

-----------------------------------------------------------------------------
(* Theorems *)

\* IInv holds in every reachable state, for every choice of the constants.
THEOREM Invariance == Spec => []IInv
<1>1. IInv /\ [Next]_vars => IInv'
  <2> SUFFICES ASSUME IInv, [Next]_vars PROVE IInv'
    OBVIOUS
  <2>1. TypeOK' /\ ControlInv' /\ WakerInv'
    BY TypeStep, ControlStep, WakerStep
  <2>2. ~panicked' => StreamInv' /\ SleepInv'
    BY StreamStep, SleepStep
  <2> QED BY <2>1, <2>2 DEF IInv
<1> QED BY InitIInv, <1>1, PTL DEF Spec

\* The types are respected; in particular no queue outgrows its capacity.
THEOREM TypeCorrect == Spec => []TypeOK
<1>1. IInv => TypeOK
  BY DEF IInv
<1> QED BY Invariance, <1>1, PTL

\* poll_next and the handlers lose no wakeup: an item in the queue of a
\* suspended task means that the task is queued.
THEOREM NoWakeupLost == Spec => []NoLostWakeup
<1>1. IInv => NoLostWakeup
  <2> SUFFICES ASSUME IInv, ~panicked, NEW s \in StreamTasks,
                      Suspended(s), queue[s] > 0
               PROVE  Queued(s)
    BY DEF NoLostWakeup
  <2> QED BY DEF IInv, StreamInv, Suspended
<1> QED BY Invariance, <1>1, PTL

\* TimeTask::poll and expire forget no sleeper and queue none twice.
THEOREM NoSleeperLost == Spec => []NoLostSleeper
<1>1. IInv => NoLostSleeper
  BY DEF IInv, SleepInv, NoLostSleeper
<1> QED BY Invariance, <1>1, PTL

\* sleep_if_idle halts the CPU only when there is nothing to do.
THEOREM HaltsOnlyIdle == Spec => []HaltedIdle
<1>1. IInv => HaltedIdle
  <2> SUFFICES ASSUME IInv, pc = "halt", irq = "none", ~panicked
               PROVE  /\ task_queue = <<>>
                      /\ \A s \in StreamTasks \cap tasks : queue[s] = 0
                      /\ \A t \in SleepTasks \cap tasks :
                           t \in timers /\ deadline[t] > now
    BY DEF HaltedIdle
  <2>1. task_queue = <<>> /\ cur = NoTask
    BY DEF IInv, ControlInv, PollPcs
  <2>2. \A t : ~Queued(t)
    BY <2>1 DEF Queued, Occurs
  <2>3. \A t \in Task : cur # t
    BY <2>1, TaskAssumption
  <2>4. \A s \in StreamTasks \cap tasks : queue[s] = 0
    BY <2>2, <2>3 DEF IInv, StreamInv, Task
  <2>5. \A t \in SleepTasks \cap tasks : t \in timers /\ deadline[t] > now
    BY <2>2, <2>3 DEF IInv, SleepInv, Suspended, Task
  <2> QED BY <2>1, <2>4, <2>5
<1> QED BY Invariance, <1>1, PTL

\* Every entry of TIMERS is that of a TimeTask which a live task still holds,
\* wherever its tasks give theirs up.
THEOREM NoTimerLeaks == Spec => []TimersAreAwaited
<1>1. IInv => TimersAreAwaited
  BY DEF IInv, TypeOK, SleepInv, TimersAreAwaited
<1> QED BY Invariance, <1>1, PTL

\* No TimeTask completes before its deadline.
THEOREM SleepsLongEnough == Spec => NeverEarly
<1> DEFINE OnTime == \A t \in SleepTasks \ Impatient :
                       t \in opened /\ t \notin opened' => now >= deadline[t]
<1>1. IInv /\ [Next]_vars => [OnTime]_vars
  <2> SUFFICES ASSUME IInv, Next, NEW t \in SleepTasks \ Impatient,
                      t \in opened, t \notin opened'
               PROVE  now >= deadline[t]
    OBVIOUS
  <2>1. CASE Drop
    <3>1. pc = "drop" /\ cur = t /\ ~panicked
      BY <2>1 DEF Drop, Main
    <3>2. now \in Nat /\ deadline[t] \in Nat /\ deadline[t] <= now
      BY <3>1 DEF IInv, TypeOK, SleepInv
    <3> QED BY <3>2
  <2>2. CASE ~Drop
    <3>1. opened \subseteq opened'
      BY <2>2 DEF Next, MainStep, Expire, Spawn, Run, PopTask, PopEmpty,
         Disable, CheckQueue, EnableAndHalt, Enable, Open, FirstPop,
         RegisterBegin, RegisterEnd, SecondPop, TakeBegin, TakeEnd, Item,
         PollLock, TestDeadline, Ready, Insert, GiveUp, StreamIrq, Tick,
         ExpireOne, ExpireDone, Panic
    <3> QED BY <3>1
  <2> QED BY <2>1, <2>2
<1> QED BY Invariance, <1>1, PTL DEF NeverEarly, Spec

-----------------------------------------------------------------------------
(* The waker cache *)

\* Steps that touch neither a waker, its cache, an item nor TIMERS, and either
\* leave the main context where it is or move it between places where nothing
\* is owed.
Uncached ==
  /\ UNCHANGED <<waker_cache, cur, timers, queue, waker>>
  /\ \/ pc' = pc
     \/ /\ pc \notin {"registering", "recheck", "take", "taking"}
        /\ pc' # "item"

\* Most steps are such steps.
LEMMA UncachedStep ==
  ASSUME \/ \E t \in Task : Spawn(t)
         \/ Run \/ PopEmpty \/ Disable \/ CheckQueue \/ EnableAndHalt \/ Enable
         \/ Open \/ RegisterBegin \/ PollLock \/ TestDeadline \/ Tick
         \/ ExpireDone \/ UNCHANGED vars
  PROVE  Uncached
<1>1. ASSUME NEW t \in Task, Spawn(t) PROVE Uncached
  BY <1>1 DEF Spawn, Panic, Uncached, execVars, cpuVars, streamVars, timeVars
<1>2. CASE \/ Run \/ PopEmpty \/ Disable \/ CheckQueue \/ EnableAndHalt \/ Enable
           \/ RegisterBegin \/ PollLock \/ TestDeadline
  BY <1>2 DEF Run, PopEmpty, Disable, CheckQueue, EnableAndHalt, Enable,
      RegisterBegin, PollLock, TestDeadline, Main, Goto, Uncached, execVars,
      cpuVars, streamVars, timeVars
<1>3. CASE Open \/ Tick \/ ExpireDone \/ UNCHANGED vars
  BY <1>3 DEF Open, Tick, ExpireDone, Resume, Main, Goto, Uncached, vars,
      execVars, cpuVars, streamVars, timeVars
<1> QED BY <1>1, <1>2, <1>3

\* Every step keeps a cached waker for each one a handler may drop.
LEMMA CacheStep == IInv /\ CacheInv /\ [Next]_vars => CacheInv'
<1> SUFFICES ASSUME IInv, CacheInv, [Next]_vars PROVE CacheInv'
  OBVIOUS
<1> USE TaskAssumption
<1>1. CASE Uncached
  BY <1>1 DEF Uncached, CacheInv
<1>2. CASE PopTask
  <2>1. cur = NoTask
    BY <1>2 DEF PopTask, Main, IInv, ControlInv, PollPcs
  <2>2. /\ waker_cache \subseteq waker_cache'
        /\ cur' # NoTask => cur' \in waker_cache'
        /\ pc' \in {"pop", "poll", "open"}
        /\ UNCHANGED <<timers, queue, waker>>
    BY <1>2, <2>1 DEF PopTask, Goto, streamVars, timeVars
  <2> QED BY <2>1, <2>2 DEF CacheInv, Task
<1>3. CASE FirstPop
  BY <1>3 DEF FirstPop, Main, Goto, CacheInv, IInv, TypeOK, execVars, timeVars
<1>4. CASE RegisterEnd
  BY <1>4 DEF RegisterEnd, Main, Goto, Panic, CacheInv, IInv, TypeOK, ControlInv,
      PollPcs, execVars, streamVars, timeVars
<1>5. CASE SecondPop
  BY <1>5 DEF SecondPop, Main, Goto, Pending, CacheInv, IInv, TypeOK, ControlInv,
      PollPcs, timeVars
<1>6. CASE TakeBegin
  BY <1>6 DEF TakeBegin, Main, Goto, CacheInv, execVars, timeVars
<1>7. CASE TakeEnd
  BY <1>7 DEF TakeEnd, Main, Goto, CacheInv, IInv, TypeOK, ControlInv, execVars,
      timeVars
<1>8. CASE Item
  BY <1>8 DEF Item, Main, Continue, CacheInv, IInv, TypeOK, ControlInv, Task,
      streamVars, timeVars
<1>9. CASE Ready \/ GiveUp
  BY <1>9 DEF Ready, GiveUp, Main, CacheInv, IInv, ControlInv, PollPcs, execVars,
      streamVars
<1>10. CASE Insert
  BY <1>10 DEF Insert, Main, Pending, CacheInv, IInv, ControlInv, PollPcs,
      streamVars
<1>11. ASSUME NEW s \in StreamTasks, StreamIrq(s) PROVE CacheInv'
  BY <1>11 DEF StreamIrq, Interruptible, Resume, WakeFires, CacheInv, IInv, TypeOK,
      WakerInv, timeVars
<1>12. ASSUME NEW t \in SleepTasks, ExpireOne(t) PROVE CacheInv'
  BY <1>12 DEF ExpireOne, Panic, CacheInv, execVars, cpuVars, streamVars, timeVars
<1>13. CASE Drop
  BY <1>13 DEF Drop, Main, Continue, CacheInv, IInv, TypeOK, ControlInv, Task,
      streamVars
<1> QED
  BY <1>1, <1>2, <1>3, <1>4, <1>5, <1>6, <1>7, <1>8, <1>9, <1>10, <1>11, <1>12,
      <1>13, UncachedStep DEF Next, MainStep, Expire

\* CacheInv holds in every reachable state.
THEOREM CacheInvariance == Spec => []CacheInv
<1>1. Init => CacheInv
  BY DEF Init, CacheInv
<1> QED BY Invariance, <1>1, CacheStep, PTL DEF Spec

\* No handler drops the last reference to a waker, whatever the tasks: expire
\* and AtomicWaker's wake never free memory.
THEOREM HandlersFreeNothing == Spec => []HandlersNeverFree
<1>1. CacheInv => HandlersNeverFree
  BY DEF CacheInv, HandlersNeverFree
<1> QED BY CacheInvariance, <1>1, PTL

-----------------------------------------------------------------------------
(* The refinement of Scheduler *)

\* Every step keeps OpenInv.
LEMMA OpenStep == IInv /\ OpenInv /\ [Next]_vars => OpenInv'
<1> SUFFICES ASSUME IInv, OpenInv, [Next]_vars PROVE OpenInv'
  OBVIOUS
<1> USE TaskAssumption
<1>1. CASE Open
  BY <1>1 DEF Open, Main, OpenInv, IInv, TypeOK, ControlInv, PollPcs, execVars,
      streamVars
<1>2. CASE RegisterEnd
  <2>1. CASE Panic
    BY <2>1 DEF Panic, OpenInv, execVars, streamVars
  <2>2. CASE ~Panic
    <3>1. /\ cur \in StreamTasks /\ cur \in opened
          /\ \A s \in StreamTasks : s # cur => waker'[s] = waker[s]
          /\ UNCHANGED <<spawned, opened>>
      BY <1>2, <2>2 DEF RegisterEnd, Main, IInv, TypeOK, ControlInv, PollPcs
    <3> QED BY <3>1 DEF OpenInv
  <2> QED BY <2>1, <2>2
<1>3. CASE TakeEnd
  BY <1>3 DEF TakeEnd, OpenInv, IInv, TypeOK, execVars
<1>4. CASE Drop
  BY <1>4 DEF Drop, Main, Continue, OpenInv, IInv, ControlInv, streamVars
<1>5. ASSUME NEW s \in StreamTasks, StreamIrq(s) PROVE OpenInv'
  BY <1>5 DEF StreamIrq, OpenInv, IInv, TypeOK
<1>6. CASE spawned \subseteq spawned' /\ UNCHANGED <<opened, waker>>
  BY <1>6 DEF OpenInv
<1>7. ASSUME NEW t \in Task, Spawn(t) PROVE OpenInv'
  BY <1>6, <1>7 DEF Spawn, Panic, execVars, streamVars
<1>8. ASSUME NEW t \in SleepTasks, ExpireOne(t) PROVE OpenInv'
  BY <1>6, <1>8 DEF ExpireOne, Panic, execVars, streamVars
<1>9. CASE \/ Run \/ PopTask \/ PopEmpty \/ Disable \/ CheckQueue
           \/ EnableAndHalt \/ Enable
  BY <1>6, <1>9 DEF Run, PopTask, PopEmpty, Disable, CheckQueue, EnableAndHalt,
      Enable, execVars, streamVars
<1>10. CASE \/ FirstPop \/ RegisterBegin \/ SecondPop \/ TakeBegin \/ Item
            \/ PollLock \/ TestDeadline \/ Ready \/ Insert \/ GiveUp
  BY <1>6, <1>10 DEF FirstPop, RegisterBegin, SecondPop, TakeBegin, Item, PollLock,
      TestDeadline, Ready, Insert, GiveUp, Pending, Continue, execVars, streamVars
<1>11. CASE Tick \/ ExpireDone \/ UNCHANGED vars
  BY <1>6, <1>11 DEF Tick, ExpireDone, vars, execVars, streamVars
<1> QED
  BY <1>1, <1>2, <1>3, <1>4, <1>5, <1>7, <1>8, <1>9, <1>10, <1>11
    DEF Next, MainStep, Expire

\* The work of the refinement mapping.
Work == {t \in tasks : HasWork(t)}

\* A step that changes nothing HasWork looks at leaves the work as it is.
LEMMA SameWork ==
  ASSUME UNCHANGED <<tasks, opened, queue, deadline, now>>
  PROVE  Work' = Work
  BY DEF Work, HasWork

\* Steps that the Scheduler does not see.
Unseen == UNCHANGED <<tasks, Work, cur>> /\ (pc = "halt" <=> pc' = "halt")

\* An unseen step is a stuttering step of the Scheduler.
LEMMA UnseenStutters == Unseen => UNCHANGED Sched!schedVars
  BY DEF Unseen, Work, Sched!schedVars

\* Taking an item, or the new deadline of a new TimeTask, is the task's work.
LEMMA ServesOrUnseen ==
  ASSUME IInv, cur # NoTask, Work' = Work \/ Work' = Work \ {cur},
         UNCHANGED <<tasks, cur>>, pc # "halt", pc' # "halt"
  PROVE  [Sched!Next]_(Sched!schedVars)
<1>1. CASE Work' = Work
  BY <1>1, UnseenStutters DEF Unseen
<1>2. CASE Work' = Work \ {cur}
  <2>1. Sched!Serve
    BY <1>2 DEF Sched!Serve, Work
  <2> QED BY <2>1 DEF Sched!Next
<1> QED BY <1>1, <1>2

\* Every step of the executor is one of the Scheduler, or stutters.
LEMMA SchedStep ==
  IInv /\ OpenInv /\ [Next]_vars => [Sched!Next]_(Sched!schedVars)
<1> SUFFICES ASSUME IInv, OpenInv, [Next]_vars
             PROVE  [Sched!Next]_(Sched!schedVars)
  OBVIOUS
<1> USE TaskAssumption
<1>1. CASE Unseen
  BY <1>1, UnseenStutters
<1>2. ASSUME NEW t \in Task, Spawn(t) PROVE [Sched!Next]_(Sched!schedVars)
  <2>1. CASE QueueFull
    <3>1. Unseen
      BY <1>2, <2>1, SameWork DEF Spawn, Panic, Unseen, execVars, streamVars, timeVars
    <3> QED BY <3>1, <1>1
  <2>2. CASE ~QueueFull
    <3>1. /\ t \notin tasks /\ t \notin opened /\ tasks' = tasks \cup {t}
          /\ pc = "spawn" /\ UNCHANGED <<opened, queue, deadline, now, cur, pc>>
      BY <1>2, <2>2 DEF Spawn, Main, IInv, TypeOK, OpenInv, cpuVars, streamVars,
          timeVars
    <3>2. Work' = Work \cup {t}
      BY <3>1 DEF Work, HasWork
    <3>3. cur = NoTask
      BY <3>1 DEF IInv, ControlInv, PollPcs
    <3>4. Sched!Spawn(t)
      BY <3>1, <3>2, <3>3 DEF Sched!Spawn, Work
    <3> QED BY <3>4 DEF Sched!Next
  <2> QED BY <2>1, <2>2
<1>3. CASE PopTask
  <2>1. /\ Work' = Work /\ UNCHANGED tasks /\ pc = "pop" /\ pc' # "halt"
        /\ cur = NoTask
    BY <1>3, SameWork DEF PopTask, Main, Goto, streamVars, timeVars, IInv,
        ControlInv, PollPcs
  <2>2. CASE Head(task_queue) \notin tasks
    <3>1. Unseen
      BY <1>3, <2>1, <2>2 DEF PopTask, Unseen
    <3> QED BY <3>1, <1>1
  <2>3. CASE Head(task_queue) \in tasks
    <3>1. cur' = Head(task_queue) /\ Head(task_queue) \in Task
      BY <1>3, <2>3 DEF PopTask, IInv, TypeOK
    <3>2. Sched!Start(Head(task_queue))
      BY <2>1, <2>3, <3>1 DEF Sched!Start, Work
    <3> QED BY <3>1, <3>2 DEF Sched!Next
  <2> QED BY <2>2, <2>3
<1>4. CASE EnableAndHalt
  <2>1. /\ task_queue = <<>> /\ cur = NoTask /\ irq = "none" /\ ~panicked
        /\ pc' = "halt" /\ UNCHANGED <<tasks, cur>>
    BY <1>4 DEF EnableAndHalt, Main, IInv, ControlInv, PollPcs, execVars
  <2>2. Work' = Work
    BY <1>4, SameWork DEF EnableAndHalt, execVars, streamVars, timeVars
  <2>3. \A t \in tasks : t \in Task /\ cur # t /\ ~Queued(t)
    BY <2>1 DEF Queued, Occurs, IInv, TypeOK
  <2>4. ASSUME NEW t \in tasks, t \in StreamTasks PROVE ~HasWork(t)
    <3>1. queue[t] = 0 /\ waker[t]
      BY <2>1, <2>3, <2>4 DEF IInv, StreamInv
    <3> QED BY <3>1, <2>4 DEF HasWork, OpenInv
  <2>5. ASSUME NEW t \in tasks, t \in SleepTasks PROVE ~HasWork(t)
    <3>1. t \in timers /\ t \in opened /\ deadline[t] > now
      BY <2>1, <2>3, <2>5 DEF IInv, SleepInv, Suspended
    <3>2. deadline[t] \in Nat /\ now \in Nat
      BY <2>5 DEF IInv, TypeOK
    <3> QED BY <3>1, <3>2, <2>5 DEF HasWork
  <2>6. Work = {}
    BY <2>3, <2>4, <2>5 DEF Work, Task
  <2>7. Sched!Halt
    BY <2>1, <2>2, <2>6 DEF Sched!Halt, Work
  <2> QED BY <2>7 DEF Sched!Next
<1>5. CASE Open
  <2>1. /\ cur # NoTask /\ cur \in tasks /\ cur \notin opened
        /\ opened' = opened \cup {cur}
        /\ pc # "halt" /\ pc' # "halt" /\ UNCHANGED <<tasks, cur, queue, now>>
    BY <1>5 DEF Open, Main, Goto, IInv, ControlInv, PollPcs, execVars, streamVars
  <2>2. \A t \in SleepTasks : t # cur => deadline'[t] = deadline[t]
    BY <1>5 DEF Open, IInv, TypeOK
  <2>3. \A t \in tasks : t # cur => (HasWork(t)' <=> HasWork(t))
    BY <2>1, <2>2 DEF HasWork
  <2>4. Work' = Work \/ Work' = Work \ {cur}
    <3>1. HasWork(cur)
      BY <2>1 DEF HasWork
    <3>2. CASE HasWork(cur)'
      BY <2>1, <2>3, <3>1, <3>2 DEF Work
    <3>3. CASE ~HasWork(cur)'
      BY <2>1, <2>3, <3>1, <3>3 DEF Work
    <3> QED BY <3>2, <3>3
  <2> QED BY <2>1, <2>4, ServesOrUnseen
<1>6. ASSUME FirstPop \/ SecondPop, queue[cur] > 0
      PROVE  [Sched!Next]_(Sched!schedVars)
  <2>1. /\ cur # NoTask /\ cur \in StreamTasks
        /\ queue' = [queue EXCEPT ![cur] = @ - 1]
        /\ pc # "halt" /\ pc' # "halt" /\ UNCHANGED <<tasks, cur, opened, deadline, now>>
    BY <1>6 DEF FirstPop, SecondPop, Main, Goto, IInv, ControlInv, PollPcs, execVars,
        timeVars
  <2>2. \A t \in StreamTasks : t # cur => queue'[t] = queue[t]
    BY <2>1 DEF IInv, TypeOK
  <2>3. \A t \in tasks : t # cur => (HasWork(t)' <=> HasWork(t))
    BY <2>1, <2>2 DEF HasWork
  <2>4. HasWork(cur)
    BY <1>6, <2>1 DEF HasWork
  <2>5. Work' = Work \/ Work' = Work \ {cur}
    <3>1. CASE HasWork(cur)'
      BY <2>1, <2>3, <2>4, <3>1 DEF Work
    <3>2. CASE ~HasWork(cur)'
      BY <2>1, <2>3, <2>4, <3>2 DEF Work
    <3> QED BY <3>1, <3>2
  <2> QED BY <2>1, <2>5, ServesOrUnseen
<1>7. CASE SecondPop /\ ~(queue[cur] > 0)
  <2>1. /\ cur # NoTask /\ cur \in StreamTasks /\ cur \in opened
        /\ cur' = NoTask /\ pc # "halt" /\ pc' # "halt"
        /\ UNCHANGED <<tasks, opened, queue, deadline, now>>
    BY <1>7 DEF SecondPop, Main, Goto, Pending, IInv, ControlInv, PollPcs, timeVars
  <2>2. ~HasWork(cur)
    BY <1>7, <2>1 DEF HasWork
  <2>3. Sched!Park
    BY <2>1, <2>2, SameWork DEF Sched!Park, Work
  <2> QED BY <2>3 DEF Sched!Next
<1>8. CASE Insert
  <2>1. /\ cur # NoTask /\ cur \in SleepTasks /\ cur \in opened
        /\ deadline[cur] > now /\ deadline[cur] \in Nat /\ now \in Nat
        /\ cur' = NoTask /\ pc # "halt" /\ pc' # "halt"
        /\ UNCHANGED <<tasks, opened, queue, deadline, now>>
    BY <1>8 DEF Insert, Main, Pending, IInv, TypeOK, ControlInv, SleepInv, PollPcs,
        streamVars
  <2>2. ~HasWork(cur)
    BY <2>1 DEF HasWork
  <2>3. Sched!Park
    BY <2>1, <2>2, SameWork DEF Sched!Park, Work
  <2> QED BY <2>3 DEF Sched!Next
<1>9. ASSUME Item \/ Drop, cur \in OneShot
      PROVE  [Sched!Next]_(Sched!schedVars)
  <2>1. /\ cur # NoTask /\ cur' = NoTask /\ tasks' = tasks \ {cur}
        /\ opened \ {cur} = opened' \ {cur}
        /\ pc # "halt" /\ pc' # "halt" /\ UNCHANGED <<queue, deadline, now>>
    BY <1>9 DEF Item, Drop, Main, Continue, IInv, ControlInv, PollPcs, streamVars,
        timeVars
  <2>2. \A t \in tasks' : HasWork(t)' <=> HasWork(t)
    BY <2>1 DEF HasWork
  <2>3. Work' = Work \ {cur}
    BY <2>1, <2>2 DEF Work
  <2>4. Sched!Complete
    BY <2>1, <2>3 DEF Sched!Complete, Work
  <2> QED BY <2>4 DEF Sched!Next
<1>10. CASE Drop /\ cur \notin OneShot
  <2>1. /\ cur \in tasks /\ opened' = opened \ {cur}
        /\ pc # "halt" /\ pc' # "halt" /\ UNCHANGED <<tasks, cur, queue, deadline, now>>
    BY <1>10 DEF Drop, Main, Continue, IInv, ControlInv, PollPcs, streamVars
  <2>2. \A t \in tasks : HasWork(t)' <=> HasWork(t) \/ t = cur
    BY <2>1 DEF HasWork
  <2>3. Work' = Work \cup {cur} /\ {cur} \in SUBSET tasks
    BY <2>1, <2>2 DEF Work
  <2>4. Sched!Interrupt
    BY <2>1, <2>3 DEF Sched!Interrupt, Work
  <2> QED BY <2>4 DEF Sched!Next
<1>11. ASSUME NEW s \in StreamTasks, StreamIrq(s)
       PROVE  [Sched!Next]_(Sched!schedVars)
  <2>1. UNCHANGED <<tasks, cur, opened, deadline, now>>
    BY <1>11 DEF StreamIrq, timeVars
  <2>2. CASE panicked'
    <3>1. UNCHANGED <<pc, queue>>
      BY <1>11, <2>2 DEF StreamIrq, Interruptible
    <3>2. Unseen
      BY <2>1, <3>1, SameWork DEF Unseen
    <3> QED BY <3>2, <1>1
  <2>3. CASE ~panicked'
    <3>1. pc' # "halt" /\ (queue' = queue \/ queue' = [queue EXCEPT ![s] = @ + 1])
      BY <1>11, <2>3 DEF StreamIrq, Resume
    <3>2. \A t \in StreamTasks : queue[t] \in Nat /\ queue'[t] \in Nat
                                 /\ (t # s => queue'[t] = queue[t])
                                 /\ queue'[t] >= queue[t]
      BY <3>1, BoundAssumption DEF IInv, TypeOK
    <3>3. \A t \in tasks : /\ t # s => (HasWork(t)' <=> HasWork(t))
                           /\ HasWork(t) => HasWork(t)'
      BY <2>1, <3>2 DEF HasWork
    <3>4. \E W \in SUBSET tasks : Work' = Work \cup W
      <4>1. Work' = Work \cup (Work' \ Work) /\ Work' \ Work \in SUBSET tasks
        BY <2>1, <3>3 DEF Work
      <4> QED BY <4>1
    <3>5. Sched!Interrupt
      BY <2>1, <3>1, <3>4 DEF Sched!Interrupt, Work
    <3> QED BY <3>5 DEF Sched!Next
  <2> QED BY <2>2, <2>3
<1>12. CASE Tick
  <2>1. UNCHANGED <<tasks, cur, opened, queue, deadline>> /\ now' = now + 1 /\ pc' # "halt"
    BY <1>12 DEF Tick, Resume, execVars, streamVars
  <2>2. \A t \in tasks : HasWork(t) => HasWork(t)'
    BY <2>1 DEF HasWork, IInv, TypeOK
  <2>3. \E W \in SUBSET tasks : Work' = Work \cup W
    <3>1. Work' = Work \cup (Work' \ Work) /\ Work' \ Work \in SUBSET tasks
      BY <2>1, <2>2 DEF Work
    <3> QED BY <3>1
  <2>4. Sched!Interrupt
    BY <2>1, <2>3 DEF Sched!Interrupt, Work
  <2> QED BY <2>4 DEF Sched!Next
<1>13. ASSUME UNCHANGED <<tasks, cur, opened, queue, deadline, now>>,
              pc = "halt" <=> pc' = "halt"
       PROVE  [Sched!Next]_(Sched!schedVars)
  BY <1>13, <1>1, SameWork DEF Unseen
<1>14. CASE \/ Run \/ PopEmpty \/ Disable \/ CheckQueue \/ Enable
  BY <1>13, <1>14 DEF Run, PopEmpty, Disable, CheckQueue, Enable, Main, Goto,
      execVars, streamVars, timeVars
<1>15. CASE \/ RegisterBegin \/ TakeBegin \/ TakeEnd \/ PollLock \/ TestDeadline
            \/ Ready \/ GiveUp
  BY <1>13, <1>15 DEF RegisterBegin, TakeBegin, TakeEnd, PollLock, TestDeadline,
      Ready, GiveUp, Main, Goto, execVars, streamVars, timeVars
<1>16. CASE RegisterEnd
  BY <1>13, <1>16 DEF RegisterEnd, Panic, Main, Goto, execVars, streamVars, timeVars
<1>17. CASE ExpireDone \/ UNCHANGED vars
  BY <1>13, <1>17 DEF ExpireDone, vars, execVars, cpuVars, streamVars, timeVars
<1>18. ASSUME NEW t \in SleepTasks, ExpireOne(t) PROVE [Sched!Next]_(Sched!schedVars)
  BY <1>13, <1>18 DEF ExpireOne, Panic, execVars, cpuVars, streamVars, timeVars
<1>19. CASE FirstPop
  <2>1. CASE queue[cur] > 0
    BY <1>6, <1>19, <2>1
  <2>2. CASE ~(queue[cur] > 0)
    BY <1>13, <1>19, <2>2 DEF FirstPop, Main, Goto, execVars, timeVars
  <2> QED BY <2>1, <2>2
<1>20. CASE SecondPop
  BY <1>6, <1>7, <1>20
<1>21. CASE Item \/ Drop
  <2>1. CASE Item /\ cur \notin OneShot
    BY <1>13, <2>1 DEF Item, Continue, Main, streamVars, timeVars
  <2> QED BY <1>9, <1>10, <1>21, <2>1
<1>22. CASE MainStep
  BY <1>2, <1>3, <1>4, <1>5, <1>8, <1>14, <1>15, <1>16, <1>19, <1>20, <1>21, <1>22
    DEF MainStep
<1> QED
  BY <1>11, <1>12, <1>17, <1>18, <1>22 DEF Next, Expire

\* The executor implements the Scheduler, for every set of tasks: no task is
\* parked and the CPU is not halted while there is work.
THEOREM ExecutorSchedules == Spec => Schedules
<1>1. Init => OpenInv
  BY DEF Init, OpenInv
<1>2. Spec => []OpenInv
  BY <1>1, OpenStep, Invariance, PTL DEF Spec
<1>3. Init => Sched!Init
  BY DEF Init, Sched!Init
<1> QED BY <1>2, <1>3, SchedStep, Invariance, PTL DEF Spec, Schedules, Sched!Spec

=============================================================================
