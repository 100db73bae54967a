----------------------------- MODULE MCExecutor -----------------------------
(***************************************************************************)
(* Executor for TLC: the properties that are only model-checked.  The      *)
(* configurations give the tasks as model values.                          *)
(***************************************************************************)
EXTENDS Executor

\* Device interrupts stop coming, and with them what makes a task give up its
\* TimeTask.  A task with input never yields, so without this the others may
\* starve.
Quiet == <>[][~GiveUp /\ \A s \in StreamTasks : ~StreamIrq(s)]_vars

\* Input is consumed: once interrupts cease, the queue of a live stream task
\* drains, unless the machine panics.
InputConsumed ==
  Quiet => \A s \in StreamTasks :
             queue[s] > 0 ~> (queue[s] = 0 \/ s \notin tasks \/ panicked)

\* Sleeps end: a TimeTask whose deadline the clock reaches completes.
SleepEnds ==
  Quiet => \A t \in SleepTasks :
             (t \in opened /\ deadline[t] <= MaxTicks)
               ~> (t \notin opened \/ panicked)

\* The `expect("task_queue full")` in TaskWaker::wake_task and the
\* `expect("queue full")` in spawn: the queue never overflows.
QueueNeverFull == ~panicked

=============================================================================
