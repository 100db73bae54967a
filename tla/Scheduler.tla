----------------------------- MODULE Scheduler -----------------------------
(***************************************************************************)
(* What the executor promises, in terms of work instead of queues, wakers  *)
(* and interrupt flags.  A task has work from its spawning to its first    *)
(* poll, and when input or its deadline has come.  The executor may poll a *)
(* task for nothing, but a task gives up the CPU only when its work is     *)
(* done, and the CPU halts only when no live task has any.                 *)
(***************************************************************************)
CONSTANTS
  Task,
  NoTask

VARIABLES
  live,     \* tasks spawned and not completed
  work,     \* live tasks with something to do
  running,  \* the task being polled
  halted    \* the CPU waits for an interrupt

schedVars == <<live, work, running, halted>>

Init == live = {} /\ work = {} /\ running = NoTask /\ halted = FALSE

Spawn(t) ==
  /\ running = NoTask /\ ~halted /\ t \notin live
  /\ live' = live \cup {t} /\ work' = work \cup {t}
  /\ UNCHANGED <<running, halted>>

\* An interrupt brings work to some tasks, or to none, and ends the halt; a task
\* that gives up its wait brings work to itself.
Interrupt ==
  /\ \E W \in SUBSET live : work' = work \cup W
  /\ halted' = FALSE
  /\ UNCHANGED <<live, running>>

\* A task is polled.
Start(t) ==
  /\ running = NoTask /\ ~halted /\ t \in live
  /\ running' = t
  /\ UNCHANGED <<live, work, halted>>

\* It does its work, or finds at the clock that there was none to do.
Serve ==
  /\ running # NoTask
  /\ work' = work \ {running}
  /\ UNCHANGED <<live, running, halted>>

\* It returns Poll::Pending, but only with nothing left to do.
Park ==
  /\ running # NoTask /\ running \notin work
  /\ running' = NoTask
  /\ UNCHANGED <<live, work, halted>>

\* It returns Poll::Ready and is dropped, with whatever was still to come.
Complete ==
  /\ running # NoTask
  /\ live' = live \ {running} /\ work' = work \ {running}
  /\ running' = NoTask
  /\ UNCHANGED halted

Halt ==
  /\ running = NoTask /\ work = {}
  /\ halted' = TRUE
  /\ UNCHANGED <<live, work, running>>

Next ==
  \/ \E t \in Task : Spawn(t) \/ Start(t)
  \/ Interrupt \/ Serve \/ Park \/ Complete \/ Halt

Spec == Init /\ [][Next]_schedVars

=============================================================================
