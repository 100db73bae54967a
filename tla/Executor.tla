------------------------------ MODULE Executor ------------------------------
(***************************************************************************)
(* The kernel's cooperative executor, the wakers that feed it and the      *)
(* interrupt handlers that fire them (kernel/src/task/, time.rs and the    *)
(* handlers of interrupts.rs), on the one CPU the kernel runs on.          *)
(*                                                                         *)
(* The main context runs `Executor::run`: it pops task ids, polls the      *)
(* task's future up to its next suspension and halts when nothing is       *)
(* queued.  An interrupt may arrive between any two of its steps while     *)
(* interrupts are enabled.  Handlers run with interrupts disabled, so a    *)
(* handler is one step, except the timer's, whose expiry loop is kept as a *)
(* loop.                                                                   *)
(*                                                                         *)
(* Two kinds of task are modelled, the two the kernel has: a stream task   *)
(* (handle_serial, network_task) loops over a bounded queue filled by an   *)
(* interrupt handler, and a sleep task (time_task) awaits TimeTask         *)
(* futures.  An impatient sleep task may drop its TimeTask before it is    *)
(* due, as a timeout around another future does; none of the kernel's      *)
(* tasks does so yet, but TimeTask's Drop is written for it.  Queued bytes *)
(* and events are counted, not told apart.                                 *)
(***************************************************************************)
EXTENDS Naturals, Sequences

CONSTANTS
  StreamTasks,   \* tasks that loop on a SerialStream or NetworkStream
  SleepTasks,    \* tasks that await TimeTask futures
  Impatient,     \* sleep tasks that may drop a TimeTask before it is due
  OneShot,       \* tasks whose future completes after the first await
  NoTask,        \* no task is being polled
  TaskQueueCap,  \* capacity of the executor's task_queue (100)
  StreamCap,     \* capacity of SERIAL_QUEUE and of NET_EVENTS (100)
  SleepTicks,    \* duration given to TimeTask::new (1000)
  MaxTicks       \* bound: the timer interrupt fires at most this often

Task == StreamTasks \cup SleepTasks

ASSUME TaskAssumption ==
  /\ StreamTasks \cap SleepTasks = {}
  /\ Impatient \subseteq SleepTasks
  /\ OneShot \subseteq Task
  /\ NoTask \notin Task

ASSUME BoundAssumption ==
  /\ TaskQueueCap \in Nat \ {0}
  /\ StreamCap \in Nat \ {0}
  /\ SleepTicks \in Nat
  /\ MaxTicks \in Nat

VARIABLES
  spawned,     \* task ids handed out by TaskId::new
  tasks,       \* Executor::tasks
  task_queue,  \* Executor::task_queue
  waker_cache, \* Executor::waker_cache, the ids with a cached waker
  pc,          \* where the main context is
  cur,         \* the task being polled
  ints,        \* the CPU's interrupt flag, as the main context set it
  irq,         \* "expire" while the timer handler walks TIMERS
  panicked,    \* a panic stopped the machine
  opened,      \* stream tasks whose queue exists; sleep tasks holding a TimeTask
  queue,       \* items in SERIAL_QUEUE / NET_EVENTS
  waker,       \* the stream's AtomicWaker holds its task's waker
  wstate,      \* state word of the AtomicWaker
  timers,      \* sleep tasks with an entry in TIMERS
  deadline,    \* deadline_ms of the task's TimeTask
  now          \* TICKS

execVars   == <<spawned, tasks, task_queue, waker_cache>>
cpuVars    == <<pc, cur, ints, irq, panicked>>
streamVars == <<queue, waker, wstate>>
timeVars   == <<timers, deadline, now>>
vars       == <<execVars, cpuVars, opened, streamVars, timeVars>>

IdlePcs  == {"spawn", "pop", "cli", "check", "hlt", "sti", "halt"}
PollPcs  == {"open", "poll", "register", "registering", "recheck", "take",
             "taking", "item", "locked", "due", "insert", "drop"}
MaskedPcs == {"check", "hlt", "sti", "locked", "due", "insert"}

Occurs(q, t) == \E i \in DOMAIN q : q[i] = t
AtMostOnce(q, t) == \A i, j \in DOMAIN q : q[i] = t /\ q[j] = t => i = j

Queued(t) == Occurs(task_queue, t)

QueueFull == Len(task_queue) >= TaskQueueCap

Init ==
  /\ spawned = {} /\ tasks = {} /\ task_queue = <<>> /\ waker_cache = {}
  /\ pc = "spawn" /\ cur = NoTask
  /\ ints = TRUE /\ irq = "none" /\ panicked = FALSE
  /\ opened = {}
  /\ queue = [s \in StreamTasks |-> 0]
  /\ waker = [s \in StreamTasks |-> FALSE]
  /\ wstate = [s \in StreamTasks |-> "WAITING"]
  /\ timers = {}
  /\ deadline = [t \in SleepTasks |-> 0]
  /\ now = 0

(***************************************************************************)
(* A full task_queue is a panic (`expect`), and a panic loops forever in   *)
(* the panic handler.  Nothing reads the state again, so it is left as it  *)
(* was.                                                                    *)
(***************************************************************************)
Panic ==
  /\ panicked' = TRUE
  /\ UNCHANGED <<execVars, pc, cur, ints, irq, opened, streamVars, timeVars>>

\* The main context takes a step only when no handler is running.
Main(p) == pc = p /\ irq = "none" /\ ~panicked

Goto(p) == pc' = p /\ UNCHANGED <<ints, irq, panicked>>

-----------------------------------------------------------------------------
(* Executor::spawn and Executor::run_ready_tasks *)

\* Task::new and Executor::spawn, called by kernel_main before it runs the
\* executor.
Spawn(t) ==
  /\ Main("spawn") /\ t \notin spawned
  /\ IF QueueFull
     THEN Panic
     ELSE /\ spawned' = spawned \cup {t}
          /\ tasks' = tasks \cup {t}
          /\ task_queue' = Append(task_queue, t)
          /\ UNCHANGED <<waker_cache, cpuVars, opened, streamVars, timeVars>>

Run ==
  /\ Main("spawn") /\ spawned = Task
  /\ Goto("pop")
  /\ UNCHANGED <<execVars, cur, opened, streamVars, timeVars>>

\* Mutant: a fresh waker for every poll, dropped with the Context.
PopUncached ==
  /\ Main("pop") /\ task_queue # <<>>
  /\ task_queue' = Tail(task_queue)
  /\ LET t == Head(task_queue) IN
     IF t \notin tasks
     THEN Goto("pop") /\ UNCHANGED cur
     ELSE cur' = t /\ Goto(IF t \in opened THEN "poll" ELSE "open")
  /\ UNCHANGED <<spawned, tasks, waker_cache, opened, streamVars, timeVars>>

\* task_queue.pop(): the id of a task that no longer exists is skipped;
\* otherwise its waker is cached and its future polled from where it stopped.
PopTask ==
  /\ Main("pop") /\ task_queue # <<>>
  /\ task_queue' = Tail(task_queue)
  /\ LET t == Head(task_queue) IN
     IF t \notin tasks
     THEN Goto("pop") /\ UNCHANGED <<waker_cache, cur>>
     ELSE /\ waker_cache' = waker_cache \cup {t}
          /\ cur' = t
          /\ Goto(IF t \in opened THEN "poll" ELSE "open")
  /\ UNCHANGED <<spawned, tasks, opened, streamVars, timeVars>>

PopEmpty ==
  /\ Main("pop") /\ task_queue = <<>>
  /\ Goto("cli")
  /\ UNCHANGED <<execVars, cur, opened, streamVars, timeVars>>

\* Poll::Pending: back to the loop, the task stays in the map.
Pending == cur' = NoTask /\ UNCHANGED <<spawned, tasks, waker_cache>>

\* What follows a completed await: a one-shot future is Poll::Ready and is
\* removed with its cached waker, the others go round their loop to `next`.
Continue(next) ==
  IF cur \in OneShot
  THEN /\ tasks' = tasks \ {cur}
       /\ waker_cache' = waker_cache \ {cur}
       /\ cur' = NoTask
       /\ pc' = "pop"
       /\ UNCHANGED spawned
  ELSE pc' = next /\ UNCHANGED <<spawned, tasks, waker_cache, cur>>

-----------------------------------------------------------------------------
(* Executor::sleep_if_idle *)

Disable ==
  /\ Main("cli")
  /\ pc' = "check" /\ ints' = FALSE
  /\ UNCHANGED <<execVars, cur, irq, panicked, opened, streamVars, timeVars>>

\* Mutant: halt without looking at the queue.
CheckForgotten ==
  /\ Main("check")
  /\ Goto("hlt")
  /\ UNCHANGED <<execVars, cur, opened, streamVars, timeVars>>

CheckQueue ==
  /\ Main("check")
  /\ Goto(IF task_queue = <<>> THEN "hlt" ELSE "sti")
  /\ UNCHANGED <<execVars, cur, opened, streamVars, timeVars>>

\* enable_and_hlt is `sti; hlt`: no interrupt is taken between the two.
EnableAndHalt ==
  /\ Main("hlt")
  /\ pc' = "halt" /\ ints' = TRUE
  /\ UNCHANGED <<execVars, cur, irq, panicked, opened, streamVars, timeVars>>

Enable ==
  /\ Main("sti")
  /\ pc' = "pop" /\ ints' = TRUE
  /\ UNCHANGED <<execVars, cur, irq, panicked, opened, streamVars, timeVars>>

-----------------------------------------------------------------------------
(* The tasks' futures *)

\* The first poll of a stream task runs SerialStream::new or
\* NetworkStream::new; a sleep task creates a TimeTask each time round.
Open ==
  /\ Main("open")
  /\ opened' = opened \cup {cur}
  /\ deadline' = IF cur \in SleepTasks
                 THEN [deadline EXCEPT ![cur] = now + SleepTicks]
                 ELSE deadline
  /\ Goto("poll")
  /\ UNCHANGED <<execVars, cur, streamVars, timers, now>>

\* poll_next, the first queue.pop().
FirstPop ==
  /\ Main("poll") /\ cur \in StreamTasks
  /\ IF queue[cur] > 0
     THEN queue' = [queue EXCEPT ![cur] = @ - 1] /\ Goto("item")
     ELSE UNCHANGED queue /\ Goto("register")
  /\ UNCHANGED <<execVars, cur, opened, waker, wstate, timeVars>>

\* AtomicWaker::register, up to the store of the waker.  It is only called
\* from the main context, so it never meets a concurrent register or take.
RegisterBegin ==
  /\ Main("register") /\ wstate[cur] = "WAITING"
  /\ wstate' = [wstate EXCEPT ![cur] = "REGISTERING"]
  /\ Goto("registering")
  /\ UNCHANGED <<execVars, cur, opened, queue, waker, timeVars>>

\* The rest of register: if a wake came in between, the waker just stored is
\* taken out again and woken here.
RegisterEnd ==
  LET woken == wstate[cur] = "REGISTERING|WAKING" IN
  /\ Main("registering")
  /\ IF woken /\ QueueFull
     THEN Panic
     ELSE /\ waker' = [waker EXCEPT ![cur] = ~woken]
          /\ wstate' = [wstate EXCEPT ![cur] = "WAITING"]
          /\ task_queue' = IF woken THEN Append(task_queue, cur)
                                    ELSE task_queue
          /\ Goto("recheck")
          /\ UNCHANGED <<spawned, tasks, waker_cache, cur, opened, queue,
                         timeVars>>

\* Mutant: return Poll::Pending right after registering.
NoSecondPop ==
  /\ Main("recheck")
  /\ Goto("pop") /\ Pending
  /\ UNCHANGED <<task_queue, opened, streamVars, timeVars>>

\* poll_next, the second queue.pop(): Poll::Pending only if it is still empty.
SecondPop ==
  /\ Main("recheck")
  /\ IF queue[cur] > 0
     THEN /\ queue' = [queue EXCEPT ![cur] = @ - 1]
          /\ Goto("take")
          /\ UNCHANGED <<spawned, tasks, waker_cache, cur>>
     ELSE /\ Goto("pop") /\ Pending
          /\ UNCHANGED queue
  /\ UNCHANGED <<task_queue, opened, waker, wstate, timeVars>>

\* AtomicWaker::take; a wake that meets it half done does nothing.
TakeBegin ==
  /\ Main("take")
  /\ wstate' = [wstate EXCEPT ![cur] = "WAKING"]
  /\ Goto("taking")
  /\ UNCHANGED <<execVars, cur, opened, queue, waker, timeVars>>

TakeEnd ==
  /\ Main("taking")
  /\ waker' = [waker EXCEPT ![cur] = FALSE]
  /\ wstate' = [wstate EXCEPT ![cur] = "WAITING"]
  /\ Goto("item")
  /\ UNCHANGED <<execVars, cur, opened, queue, timeVars>>

\* The task handles the item and awaits the next.
Item ==
  /\ Main("item")
  /\ Continue("poll")
  /\ UNCHANGED <<task_queue, ints, irq, panicked, opened, streamVars, timeVars>>

\* Mutant: a plain spin::Mutex around TIMERS.
PollLockPlain ==
  /\ Main("poll") /\ cur \in SleepTasks
  /\ Goto("locked")
  /\ UNCHANGED <<execVars, cur, opened, streamVars, timeVars>>

\* TimeTask::poll: TIMERS.lock() disables interrupts, the clock is tested,
\* and the guard's drop enables them again.
PollLock ==
  /\ Main("poll") /\ cur \in SleepTasks
  /\ pc' = "locked" /\ ints' = FALSE
  /\ UNCHANGED <<execVars, cur, irq, panicked, opened, streamVars, timeVars>>

\* Mutant: off by one tick.
TestDeadlineEarly ==
  /\ Main("locked")
  /\ Goto(IF now + 1 >= deadline[cur] THEN "due" ELSE "insert")
  /\ UNCHANGED <<execVars, cur, opened, streamVars, timeVars>>

TestDeadline ==
  /\ Main("locked")
  /\ Goto(IF now >= deadline[cur] THEN "due" ELSE "insert")
  /\ UNCHANGED <<execVars, cur, opened, streamVars, timeVars>>

\* Poll::Ready: the entry is removed, should it still be there, and the await
\* is over.
Ready ==
  /\ Main("due")
  /\ timers' = timers \ {cur}
  /\ pc' = "drop" /\ ints' = TRUE
  /\ UNCHANGED <<execVars, cur, irq, panicked, opened, streamVars, deadline,
                 now>>

\* Poll::Pending, with the waker left in TIMERS.
Insert ==
  /\ Main("insert")
  /\ timers' = timers \cup {cur}
  /\ ints' = TRUE
  /\ pc' = "pop" /\ Pending
  /\ UNCHANGED <<task_queue, irq, panicked, opened, streamVars, deadline, now>>

\* What the task waited for besides the clock is there, found before its
\* TimeTask is polled or after that poll returned Poll::Pending: the TimeTask is
\* not awaited any longer.
GiveUp ==
  /\ cur \in Impatient
  /\ \/ Main("poll") /\ UNCHANGED <<timers, ints>>
     \/ Main("insert") /\ timers' = timers \cup {cur} /\ ints' = TRUE
  /\ pc' = "drop"
  /\ UNCHANGED <<execVars, cur, irq, panicked, opened, streamVars, deadline,
                 now>>

\* Mutant: TimeTask without its Drop.
DropNothing ==
  /\ Main("drop")
  /\ opened' = opened \ {cur}
  /\ Continue("open")
  /\ UNCHANGED <<task_queue, ints, irq, panicked, streamVars, timeVars>>

\* TimeTask's Drop, of a finished one and of one given up: the entry is removed
\* under the lock, which masks interrupts, so one step.  Expiry may have come
\* first and woken the running task.
Drop ==
  /\ Main("drop")
  /\ timers' = timers \ {cur}
  /\ opened' = opened \ {cur}
  /\ Continue("open")
  /\ UNCHANGED <<task_queue, ints, irq, panicked, streamVars, deadline, now>>

-----------------------------------------------------------------------------
(* Interrupt handlers *)

Interruptible == ints /\ irq = "none" /\ ~panicked

\* An interrupt resumes a halted CPU, which returns from enable_and_hlt.
Resume == pc' = IF pc = "halt" THEN "pop" ELSE pc

\* AtomicWaker::wake finds a registered waker, and nobody else at work on it.
WakeFires(s) == wstate[s] = "WAITING" /\ waker[s]

\* com1_interrupt_handler and virtio_irq for one byte or event: add_byte or
\* add_event, which drops it if the stream is not there or is full.
StreamIrq(s) ==
  /\ Interruptible
  /\ IF s \notin opened \/ queue[s] >= StreamCap
     THEN Resume /\ UNCHANGED <<task_queue, queue, waker, wstate, panicked>>
     ELSE IF WakeFires(s) /\ QueueFull
     THEN panicked' = TRUE /\ UNCHANGED <<task_queue, queue, waker, wstate, pc>>
     ELSE /\ queue' = [queue EXCEPT ![s] = @ + 1]
          /\ task_queue' = IF WakeFires(s) THEN Append(task_queue, s)
                                           ELSE task_queue
          /\ waker' = [waker EXCEPT ![s] = @ /\ ~WakeFires(s)]
          /\ wstate' = [wstate EXCEPT ![s] = IF @ = "REGISTERING"
                                             THEN "REGISTERING|WAKING"
                                             ELSE @]
          /\ Resume /\ UNCHANGED panicked
  /\ UNCHANGED <<spawned, tasks, waker_cache, cur, ints, irq, opened, timeVars>>

\* timer_interrupt_handler: tick() advances TICKS and calls expire.
Tick ==
  /\ Interruptible /\ now < MaxTicks
  /\ now' = now + 1
  /\ irq' = "expire"
  /\ Resume
  /\ UNCHANGED <<execVars, cur, ints, panicked, opened, streamVars, timers,
                 deadline>>

Due(t) == t \in timers /\ deadline[t] <= now

\* The first entry of TIMERS, ordered by deadline and, between equal ones, by
\* an id that says nothing about which task it is.
First(t) == Due(t) /\ \A u \in timers : deadline[t] <= deadline[u]

\* Mutant: the entry is removed and its waker dropped.
ExpireWithoutWake(t) ==
  /\ irq = "expire" /\ ~panicked /\ First(t)
  /\ timers' = timers \ {t}
  /\ UNCHANGED <<execVars, cpuVars, opened, streamVars, deadline, now>>

\* One turn of the loop in expire: the entry is removed and its waker woken.
ExpireOne(t) ==
  /\ irq = "expire" /\ ~panicked /\ First(t)
  /\ IF QueueFull
     THEN Panic
     ELSE /\ timers' = timers \ {t}
          /\ task_queue' = Append(task_queue, t)
          /\ UNCHANGED <<spawned, tasks, waker_cache, cpuVars, opened,
                         streamVars, deadline, now>>

ExpireDone ==
  /\ irq = "expire" /\ ~panicked /\ \A t \in timers : ~Due(t)
  /\ irq' = "none"
  /\ UNCHANGED <<execVars, pc, cur, ints, panicked, opened, streamVars,
                 timeVars>>

-----------------------------------------------------------------------------
MainStep ==
  \/ \E t \in Task : Spawn(t)
  \/ Run \/ PopTask \/ PopEmpty \/ Disable \/ CheckQueue
  \/ EnableAndHalt \/ Enable
  \/ Open
  \/ FirstPop \/ RegisterBegin \/ RegisterEnd \/ SecondPop
  \/ TakeBegin \/ TakeEnd \/ Item
  \/ PollLock \/ TestDeadline \/ Ready \/ Insert \/ GiveUp \/ Drop

Expire == ExpireDone \/ \E t \in SleepTasks : ExpireOne(t)

Next ==
  \/ MainStep
  \/ \E s \in StreamTasks : StreamIrq(s)
  \/ Tick
  \/ Expire

\* The CPU executes, and the timer is periodic.  Nothing makes a device send.
Fairness == WF_vars(MainStep) /\ WF_vars(Expire) /\ WF_vars(Tick)

Spec == Init /\ [][Next]_vars

FairSpec == Spec /\ Fairness

-----------------------------------------------------------------------------
(* Properties *)

\* Every variable has its type (the bounded queues stay within their bounds).
TypeOK ==
  /\ spawned \subseteq Task /\ tasks \subseteq spawned
  /\ waker_cache \subseteq tasks
  /\ task_queue \in Seq(Task) /\ Len(task_queue) <= TaskQueueCap
  /\ pc \in IdlePcs \cup PollPcs
  /\ cur \in Task \cup {NoTask}
  /\ ints \in BOOLEAN /\ irq \in {"none", "expire"} /\ panicked \in BOOLEAN
  /\ opened \subseteq Task
  /\ queue \in [StreamTasks -> 0 .. StreamCap]
  /\ waker \in [StreamTasks -> BOOLEAN]
  /\ wstate \in [StreamTasks -> {"WAITING", "REGISTERING", "WAKING",
                                 "REGISTERING|WAKING"}]
  /\ timers \subseteq SleepTasks
  /\ deadline \in [SleepTasks -> Nat]
  /\ now \in Nat

\* Tasks the executor still holds and is not polling at the moment.
Suspended(t) == t \in tasks /\ cur # t

\* No lost wakeup (poll_next against add_byte and add_event): whenever a
\* suspended stream task has an item in its queue, its id is in task_queue, in
\* whatever step of a poll the interrupt came.
NoLostWakeup ==
  ~panicked => \A s \in StreamTasks :
                  Suspended(s) /\ queue[s] > 0 => Queued(s)

\* No sleeper is forgotten (TimeTask::poll against expire): outside the timer
\* handler a suspended sleep task whose TimeTask exists is in TIMERS with a
\* deadline still to come, or on task_queue.  Only one that gave up an earlier
\* TimeTask as it expired can be both, or queued twice.
NoLostSleeper ==
  ~panicked /\ irq = "none" =>
    \A t \in SleepTasks :
      Suspended(t) /\ t \in opened =>
        /\ t \in timers \/ Queued(t)
        /\ t \in timers => deadline[t] > now
        /\ t \notin Impatient => /\ ~(t \in timers /\ Queued(t))
                                /\ AtMostOnce(task_queue, t)

\* The CPU halts only when there is nothing to do (sleep_if_idle): no id is
\* queued, no stream of a live task holds an item, and no deadline has passed.
HaltedIdle ==
  pc = "halt" /\ irq = "none" /\ ~panicked =>
    /\ task_queue = <<>>
    /\ \A s \in StreamTasks \cap tasks : queue[s] = 0
    /\ \A t \in SleepTasks \cap tasks : t \in timers /\ deadline[t] > now

\* A dropped TimeTask leaves no waker behind (TimeTask's Drop): wherever it is
\* given up, an entry in TIMERS is that of a TimeTask a live task still holds.
\* One left behind would later wake a task that waits for something else, or
\* push the id of one that is gone.
TimersAreAwaited ==
  ~panicked => \A t \in timers : t \in tasks /\ t \in opened

\* A sleep ends no earlier than asked: a task that does not give up is done with
\* a TimeTask only at or after the deadline fixed when it was made.
NeverEarly ==
  [][\A t \in SleepTasks \ Impatient :
       t \in opened /\ t \notin opened' => now >= deadline[t]]_vars

\* Handlers never free memory (expire's and AtomicWaker's wake, run by a
\* handler): a waker held by TIMERS or by a stream is never the last reference
\* to its TaskWaker, because waker_cache holds one.  Dropping the last one frees
\* it, and the heap's lock, which does not mask interrupts, may be held by the
\* code that was interrupted.
HandlersNeverFree ==
  \A t \in Task :
    t \in timers \/ (t \in StreamTasks /\ waker[t]) => t \in waker_cache

-----------------------------------------------------------------------------
(* The refinement *)

\* Live tasks with something to do: not yet polled for the first time, input in
\* their queue, or a deadline that has come.
HasWork(t) ==
  \/ t \notin opened
  \/ t \in StreamTasks /\ queue[t] > 0
  \/ t \in SleepTasks /\ deadline[t] <= now

Sched == INSTANCE Scheduler WITH
           live <- tasks, work <- {t \in tasks : HasWork(t)},
           running <- cur, halted <- (pc = "halt")

\* The executor is a Scheduler (poll_next, TimeTask::poll, run_ready_tasks and
\* sleep_if_idle together): no task is parked and the CPU is not halted while
\* there is work, wherever an interrupt brought it.
Schedules == Sched!Spec

-----------------------------------------------------------------------------
(***************************************************************************)
(* The inductive invariant behind the properties: what each step of a poll *)
(* has established about the task being polled, and what is owed to the    *)
(* tasks that are not.                                                     *)
(***************************************************************************)
ControlInv ==
  /\ cur # NoTask <=> pc \in PollPcs
  /\ cur # NoTask => cur \in tasks
  /\ pc \in {"register", "registering", "recheck", "take", "taking", "item"}
       => cur \in StreamTasks
  /\ pc \in {"locked", "due", "insert", "drop"} => cur \in SleepTasks
  /\ pc = "open" => cur \notin opened
  /\ pc \in PollPcs \ {"open"} => cur \in opened
  /\ ints <=> pc \notin MaskedPcs
  /\ irq = "expire" => ints /\ pc # "halt"
  /\ pc \in {"hlt", "halt"} => task_queue = <<>>

WakerInv ==
  \A s \in StreamTasks :
    wstate[s] \in IF cur # s THEN {"WAITING"}
                  ELSE IF pc = "registering"
                  THEN {"REGISTERING", "REGISTERING|WAKING"}
                  ELSE IF pc = "taking" THEN {"WAKING"} ELSE {"WAITING"}

StreamInv ==
  \A s \in StreamTasks \cap tasks :
    /\ cur # s => Queued(s) \/ (queue[s] = 0 /\ waker[s])
    /\ cur = s /\ pc = "recheck" => Queued(s) \/ waker[s]

SleepInv ==
  /\ \A t \in SleepTasks :
       /\ Suspended(t) => Queued(t) \/ t \in timers
       /\ t \in timers => t \in tasks /\ t \in opened
       /\ t \in timers /\ irq = "none" => deadline[t] > now
  /\ \A t \in SleepTasks \ Impatient :
       /\ AtMostOnce(task_queue, t)
       /\ Queued(t) => Suspended(t) /\ t \notin timers
       /\ t \in timers => Suspended(t)
  /\ pc = "insert" => deadline[cur] > now
  /\ pc = "due" => deadline[cur] <= now
  /\ pc = "drop" => cur \in Impatient \/ deadline[cur] <= now

\* A waker in the hands of a handler has its task's in waker_cache, a stream's
\* too: while it is registered its queue is empty, except from the time register
\* stores it to the time take removes it, and an item is handled without it.
CacheInv ==
  /\ cur # NoTask => cur \in waker_cache
  /\ timers \subseteq waker_cache
  /\ \A s \in StreamTasks :
       waker[s] =>
         /\ s \in waker_cache
         /\ \/ queue[s] = 0
            \/ cur = s /\ pc \in {"registering", "recheck", "take", "taking"}
         /\ cur = s => pc # "item"

\* What the refinement needs beside IInv: only spawned tasks hold a stream or a
\* TimeTask, and only a stream that exists has a waker registered.
OpenInv ==
  /\ opened \subseteq spawned
  /\ \A s \in StreamTasks : waker[s] => s \in opened

IInv ==
  /\ TypeOK /\ ControlInv /\ WakerInv
  /\ ~panicked => StreamInv /\ SleepInv

=============================================================================
