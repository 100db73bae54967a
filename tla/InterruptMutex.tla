--------------------------- MODULE InterruptMutex ---------------------------
(***************************************************************************)
(* The kernel's InterruptMutex (kernel/src/mutex.rs) and the plain         *)
(* spin::Mutex next to it, on one CPU with one level of interrupts.        *)
(*                                                                         *)
(* Normal context and the interrupt handlers are clients that lock and     *)
(* unlock as they like, within what the code does: guards are dropped in   *)
(* the reverse order of their creation, nobody locks what it already       *)
(* holds, and a handler takes InterruptMutexes only.  lock() and drop()    *)
(* are split at every point where an interrupt could come.                 *)
(***************************************************************************)
EXTENDS Naturals, Sequences

CONSTANTS
  IntLocks,    \* the InterruptMutexes: SERIAL_TTY, WRITER, TIMERS, VIRTIO_NET...
  PlainLocks   \* the spin::Mutexes: NETWORK_INTERFACE, PMM, MAPPER, the heap

Lock == IntLocks \cup PlainLocks

ASSUME LockAssumption == IntLocks \cap PlainLocks = {}

Context == {"main", "irq"}

VARIABLES
  iflag,   \* the CPU's interrupt flag
  ctx,     \* the context that is running
  base,    \* what normal context set the flag to, outside any guard
  held,    \* inner spinlocks that are taken
  guards,  \* per context, the live guards, innermost last
  pc,      \* per context, the position inside lock() or drop()
  want,    \* per context, the lock being taken
  saved    \* per context, saved_int of the guard being made or dropped

vars == <<iflag, ctx, base, held, guards, pc, want, saved>>

Guard == [lock : Lock, saved_int : BOOLEAN]

Holds(c, l) == \E i \in DOMAIN guards[c] : guards[c][i].lock = l

\* Interrupts are masked until the end of `init`; `want` and `saved` are locals
\* of lock() and drop(), not yet assigned.
Init ==
  /\ iflag = FALSE /\ base = FALSE
  /\ ctx = "main"
  /\ held = {}
  /\ guards = [c \in Context |-> <<>>]
  /\ pc = [c \in Context |-> "run"]
  /\ want \in [Context -> Lock]
  /\ saved = [c \in Context |-> FALSE]

At(c, p) == ctx = c /\ pc[c] = p

Goto(c, p) == pc' = [pc EXCEPT ![c] = p]

-----------------------------------------------------------------------------
(* InterruptMutex::lock *)

\* saved_int = interrupts::are_enabled()
LockBegin(c, l) ==
  /\ At(c, "run") /\ ~Holds(c, l) /\ l \in IntLocks
  /\ want' = [want EXCEPT ![c] = l]
  /\ saved' = [saved EXCEPT ![c] = iflag]
  /\ Goto(c, "saved")
  /\ UNCHANGED <<iflag, ctx, base, held, guards>>

\* A spin::Mutex leaves the flag alone.
PlainLock(l) ==
  /\ At("main", "run") /\ ~Holds("main", l) /\ l \in PlainLocks
  /\ want' = [want EXCEPT !["main"] = l]
  /\ saved' = [saved EXCEPT !["main"] = FALSE]
  /\ Goto("main", "spin")
  /\ UNCHANGED <<iflag, ctx, base, held, guards>>

\* Mutant: interrupts stay enabled.
KeepEnabled(c) ==
  /\ At(c, "saved")
  /\ Goto(c, "spin")
  /\ UNCHANGED <<iflag, ctx, base, held, guards, want, saved>>

DisableIfEnabled(c) ==
  /\ At(c, "saved")
  /\ iflag' = (iflag /\ ~saved[c])
  /\ Goto(c, "spin")
  /\ UNCHANGED <<ctx, base, held, guards, want, saved>>

\* inner.lock() spins until the spinlock is free.
Acquire(c) ==
  /\ At(c, "spin") /\ want[c] \notin held
  /\ held' = held \cup {want[c]}
  /\ guards' = [guards EXCEPT ![c] =
                  Append(@, [lock |-> want[c], saved_int |-> saved[c]])]
  /\ Goto(c, "run")
  /\ UNCHANGED <<iflag, ctx, base, want, saved>>

-----------------------------------------------------------------------------
(* InterruptMutexGuard::drop *)

Innermost(c) == guards[c][Len(guards[c])]

Popped(c) == [guards EXCEPT ![c] = SubSeq(@, 1, Len(@) - 1)]

Release(c) ==
  /\ At(c, "run") /\ guards[c] # <<>>
  /\ held' = held \ {Innermost(c).lock}
  /\ saved' = [saved EXCEPT ![c] = Innermost(c).saved_int]
  /\ guards' = Popped(c)
  /\ Goto(c, "released")
  /\ UNCHANGED <<iflag, ctx, base, want>>

\* Mutant: every drop enables interrupts.
EnableAlways(c) ==
  /\ At(c, "released")
  /\ iflag' = TRUE
  /\ Goto(c, "run")
  /\ UNCHANGED <<ctx, base, held, guards, want, saved>>

EnableIfSaved(c) ==
  /\ At(c, "released")
  /\ iflag' = (iflag \/ saved[c])
  /\ Goto(c, "run")
  /\ UNCHANGED <<ctx, base, held, guards, want, saved>>

\* Mutant: the two steps of drop in the other order.
DropEnablesFirst(c) ==
  \/ /\ At(c, "run") /\ guards[c] # <<>>
     /\ iflag' = (iflag \/ Innermost(c).saved_int)
     /\ Goto(c, "released")
     /\ UNCHANGED <<ctx, base, held, guards, want, saved>>
  \/ /\ At(c, "released")
     /\ held' = held \ {Innermost(c).lock}
     /\ guards' = Popped(c)
     /\ Goto(c, "run")
     /\ UNCHANGED <<iflag, ctx, base, want, saved>>

\* "STRICT ORDERING REQUIRED": the spinlock first, then the flag.
Drop(c) == Release(c) \/ EnableIfSaved(c)

-----------------------------------------------------------------------------
(* The CPU and its clients *)

\* Normal context itself turns interrupts on at the end of init, and off and
\* on in sleep_if_idle, where it holds no guard.
SetFlag(b) ==
  /\ At("main", "run") /\ guards["main"] = <<>> /\ base # b
  /\ iflag' = b /\ base' = b
  /\ UNCHANGED <<ctx, held, guards, pc, want, saved>>

\* An interrupt gate clears the flag ...
Irq ==
  /\ ctx = "main" /\ iflag
  /\ ctx' = "irq" /\ iflag' = FALSE
  /\ UNCHANGED <<base, held, guards, pc, want, saved>>

\* ... and iretq restores it, once the handler has dropped its guards.
Iret ==
  /\ At("irq", "run") /\ guards["irq"] = <<>>
  /\ ctx' = "main" /\ iflag' = TRUE
  /\ UNCHANGED <<base, held, guards, pc, want, saved>>

Next ==
  \/ \E c \in Context :
       \/ \E l \in Lock : LockBegin(c, l)
       \/ DisableIfEnabled(c) \/ Acquire(c) \/ Drop(c)
  \/ \E l \in Lock : PlainLock(l)
  \/ \E b \in BOOLEAN : SetFlag(b)
  \/ Irq \/ Iret

Spec == Init /\ [][Next]_vars

-----------------------------------------------------------------------------
(* Properties *)

\* Every variable has its type, and the spinlocks taken are those of the live
\* guards.
TypeOK ==
  /\ iflag \in BOOLEAN /\ ctx \in Context /\ base \in BOOLEAN
  /\ held = {l \in Lock : \E c \in Context : Holds(c, l)}
  /\ guards \in [Context -> Seq(Guard)]
  /\ pc \in [Context -> {"run", "saved", "spin", "released"}]
  /\ want \in [Context -> Lock]
  /\ saved \in [Context -> BOOLEAN]

\* No context ever waits for a lock (the comment in lock(), "safely acquire
\* the inner spinlock now that we won't be interrupted"): when lock() gets to
\* the spinlock it is free, so a handler cannot spin on what the code it
\* interrupted holds, whatever both have locked before.
NeverSpins == \A c \in Context : At(c, "spin") => want[c] \notin held

\* Interrupts are off while an InterruptMutex is held, until its spinlock has
\* been released ("restore interrupts ONLY AFTER the lock is fully released").
HeldMasked == \A l \in IntLocks : l \in held => ~iflag

\* Handlers are not interrupted, whatever they lock and drop.
HandlerMasked == ctx = "irq" => ~iflag

\* Dropping the last InterruptMutex guard puts the flag back to what normal
\* context had it at, however deeply the guards were nested.
FlagRestored ==
  At("main", "run") /\ (\A l \in IntLocks : ~Holds("main", l))
    => iflag = base

-----------------------------------------------------------------------------
(***************************************************************************)
(* The inductive invariant.  MainFlag is the flag as normal context would  *)
(* find it, with any handler finished.  When it is off although base is    *)
(* on, exactly one saved_int is set: that of the outermost InterruptMutex, *)
(* in its guard or, while lock() or drop() runs, in `saved`.               *)
(***************************************************************************)
MainFlag == iflag \/ ctx = "irq"

\* c's guard i belongs to an InterruptMutex.
IsInt(c, i) == guards[c][i].lock \in IntLocks

NoIntGuard == \A i \in DOMAIN guards["main"] : ~IsInt("main", i)

GuardInv ==
  \A c \in Context :
    /\ \A i, j \in DOMAIN guards[c] :
         guards[c][i].lock = guards[c][j].lock => i = j
    /\ \A i, j \in DOMAIN guards[c] :
         guards[c][j].saved_int => IsInt(c, j) /\ (i < j => ~IsInt(c, i))
    /\ pc[c] \in {"saved", "spin"} => ~Holds(c, want[c])
    /\ pc[c] = "saved" => want[c] \in IntLocks

FlagInv ==
  /\ MainFlag => base /\ NoIntGuard
  /\ base /\ ~MainFlag =>
       \/ \E i \in DOMAIN guards["main"] : guards["main"][i].saved_int
       \/ pc["main"] \in {"spin", "released"} /\ saved["main"]
  /\ ~base => \A i \in DOMAIN guards["main"] : ~guards["main"][i].saved_int
  /\ pc["main"] = "saved" => (saved["main"] <=> MainFlag)
  /\ pc["main"] = "spin" => /\ saved["main"] => want["main"] \in IntLocks
                            /\ MainFlag => want["main"] \in PlainLocks
  /\ pc["main"] \in {"spin", "released"} /\ saved["main"] =>
       base /\ NoIntGuard /\ ~MainFlag

HandlerInv ==
  /\ ctx = "irq" => ~iflag
  /\ ctx = "main" => guards["irq"] = <<>> /\ pc["irq"] = "run"
  /\ pc["irq"] \in {"saved", "spin", "released"} => ~saved["irq"]
  /\ pc["irq"] = "spin" => want["irq"] \in IntLocks
  /\ \A i \in DOMAIN guards["irq"] : IsInt("irq", i) /\ ~guards["irq"][i].saved_int

IInv == TypeOK /\ GuardInv /\ FlagInv /\ HandlerInv

=============================================================================
