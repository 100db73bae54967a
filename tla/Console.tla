------------------------------ MODULE Console ------------------------------
(***************************************************************************)
(* The two consoles: the serial line, with com1_interrupt_handler, the     *)
(* SERIAL_QUEUE, readline and handle_serial, and the VGA text buffer with  *)
(* its Writer; and the panic handler, which reports on both.               *)
(*                                                                         *)
(* On the one processor an interrupt handler runs on top of the task, and  *)
(* the panic handler on top of what panicked, which never goes on.  Both   *)
(* consoles are behind an InterruptMutex: a context that prints locks the  *)
(* device, writes its text a character a step, and unlocks it.             *)
(***************************************************************************)
EXTENDS Integers, Sequences, SequencesExt

CONSTANTS
  Width, Height,   \* of the VGA text buffer (80 x 25)
  BufferLen,       \* of the line buffer (1024)
  QueueCap,        \* of SERIAL_QUEUE (100)
  Typed,           \* what may be typed, "erase", "enter" and "control" among it
  MaxTyped,        \* bound: bytes received
  MaxTicks,        \* bound: lines time_task prints
  None

Printable == Typed \ {"erase", "enter", "control"}

Ctx == {"task", "irq", "panic"}

\* What is printed: a character or a cursor movement; a message is for a device.
Char    == Typed \cup {">", "!", "newline", "left", "blank", "w", "t", "p", "q"}
Message == [dev : {"vga", "tty"}, text : Seq(Char)]

\* The bytes of a newline and of a backspace are not among the printable ones.
ASSUME ConsoleAssumption ==
  /\ {Width, Height, BufferLen, QueueCap} \subseteq Nat \ {0} /\ Width > 1
  /\ {MaxTyped, MaxTicks} \subseteq Nat
  /\ {"erase", "enter", "control"} \subseteq Typed
  /\ Typed \cap {"newline", "left", "added", "dead"} = {}
  /\ None \notin Ctx /\ None \notin Typed \cup {"added", "dead"} /\ None \notin Message

VARIABLES
  pc,       \* handle_serial: what it does next
  line,     \* buffer[0..count]
  queue,    \* SERIAL_QUEUE
  waker,    \* whether WAKER holds the task's waker
  irq,      \* com1_interrupt_handler: the byte it handles, "added", "dead" or None
  panic,    \* the panic handler: 0, the message it prints (1 or 2), 3 for the loop
  out,      \* what each context is to print: [dev, text] or None
  saved,    \* what each context's guard restores masked to
  held,     \* who holds WRITER (vga) and SERIAL_TTY (tty)
  masked,   \* whether interrupts are disabled
  vga,      \* the Writer: [chars, row, col]
  term,     \* the terminal at the other end: [above, row, cursor]
  typed, ticks

taskVars == <<pc, line, queue, waker>>
lockVars == <<saved, held, masked>>
devVars  == <<vga, term>>
bounds   == <<typed, ticks>>
vars == <<pc, line, queue, waker, irq, panic, out, saved, held, masked, vga, term,
          typed, ticks>>

-----------------------------------------------------------------------------
(* The VGA text buffer                                                     *)

IncrRow(v) == [v EXCEPT !.row = IF v.row + 1 = Height THEN 0 ELSE v.row + 1, !.col = 0]

IncrCol(v) == IF v.col + 1 = Width THEN IncrRow(v) ELSE [v EXCEPT !.col = @ + 1]

InRange(v) == v.row < Height /\ v.col < Width

WriteByte(v, c) ==
  IF c = "newline" THEN IncrRow(v) ELSE IncrCol([v EXCEPT !.chars[v.row][v.col] = c])

-----------------------------------------------------------------------------
(* The terminal: a space is "blank", a backspace "left"                    *)

Shown(t, c) ==
  CASE c = "newline" -> [above |-> t.row, row |-> <<>>, cursor |-> 0]
    [] c = "left" -> [t EXCEPT !.cursor = IF @ = 0 THEN 0 ELSE @ - 1]
    [] OTHER ->
         [t EXCEPT !.row = IF t.cursor < Len(@) THEN [@ EXCEPT ![t.cursor + 1] = c]
                           ELSE Append(@, c),
                   !.cursor = @ + 1]

-----------------------------------------------------------------------------
Init ==
  /\ pc = "prompt" /\ line = <<>>
  /\ queue = <<>> /\ waker = FALSE
  /\ irq = None /\ panic = 0
  /\ out = [c \in Ctx |-> None]
  /\ saved = [c \in Ctx |-> FALSE]
  /\ held = [vga |-> None, tty |-> None]
  /\ masked = FALSE
  /\ vga = [chars |-> [r \in 0 .. Height - 1 |-> [c \in 0 .. Width - 1 |-> "blank"]],
            row |-> 0, col |-> 0]
  /\ term = [above |-> <<>>, row |-> <<>>, cursor |-> 0]
  /\ typed = 0 /\ ticks = 0

\* The context that runs.  A handler that panicked is dead.
Current ==
  IF irq \notin {None, "dead"} THEN "irq" ELSE IF panic > 0 THEN "panic" ELSE "task"

Text(d, t) == [dev |-> d, text |-> t]

PrintFrom(c, d, t) == out' = [out EXCEPT ![c] = Text(d, t)]

-----------------------------------------------------------------------------
(* Printing: serial::print and vga::_print                                 *)

Dev(c) == out[c].dev

\* InterruptMutex::lock
Lock(c) ==
  /\ c = Current /\ out[c] # None
  /\ held[Dev(c)] = None
  /\ held' = [held EXCEPT ![Dev(c)] = c]
  /\ saved' = [saved EXCEPT ![c] = masked]
  /\ masked' = TRUE
  /\ UNCHANGED <<out, irq, panic>> /\ UNCHANGED <<taskVars, devVars, bounds>>

\* What the panic handler prints, and in which order.
PanicText == <<"p", "q", "newline">>

\* Mutant: the serial line comes first.
SerialFirst == <<"tty", "vga">>

PanicOrder == <<"vga", "tty">>

Panics ==
  /\ panic' = 1
  /\ PrintFrom("panic", PanicOrder[1], PanicText)

\* A write outside the VGA buffer panics, with WRITER held.
PutVga(c) ==
  /\ c = Current /\ out[c] # None /\ Dev(c) = "vga"
  /\ held.vga = c /\ out[c].text # <<>>
  /\ IF Head(out[c].text) # "newline" /\ ~InRange(vga) THEN Panics /\ UNCHANGED vga
     ELSE /\ vga' = WriteByte(vga, Head(out[c].text))
          /\ out' = [out EXCEPT ![c].text = Tail(@)]
          /\ UNCHANGED panic
  /\ UNCHANGED <<irq, term>> /\ UNCHANGED <<taskVars, lockVars, bounds>>

PutTty(c) ==
  /\ c = Current /\ out[c] # None /\ Dev(c) = "tty"
  /\ held.tty = c /\ out[c].text # <<>>
  /\ term' = Shown(term, Head(out[c].text))
  /\ out' = [out EXCEPT ![c].text = Tail(@)]
  /\ UNCHANGED <<irq, panic, vga>> /\ UNCHANGED <<taskVars, lockVars, bounds>>

\* The guard is dropped.
Unlock(c) ==
  /\ c = Current /\ out[c] # None
  /\ held[Dev(c)] = c /\ out[c].text = <<>>
  /\ held' = [held EXCEPT ![Dev(c)] = None]
  /\ masked' = saved[c]
  /\ out' = [out EXCEPT ![c] = None]
  /\ UNCHANGED <<saved, irq, panic>> /\ UNCHANGED <<taskVars, devVars, bounds>>

-----------------------------------------------------------------------------
(* com1_interrupt_handler                                                  *)

\* A byte arrives, and the processor enters the handler.
Interrupt(b) ==
  /\ ~masked /\ irq = None /\ typed < MaxTyped
  /\ irq' = b
  /\ masked' = TRUE
  /\ typed' = typed + 1
  /\ UNCHANGED <<out, saved, held, panic, ticks>> /\ UNCHANGED <<taskVars, devVars>>

\* SERIAL_TTY is locked, and stays so while add_byte runs.
HoldTty == held.tty = None /\ held' = [held EXCEPT !.tty = "irq"]

\* add_byte, called with the queue full.
DropByte ==
  /\ Current = "irq" /\ irq \in Typed /\ Len(queue) = QueueCap
  /\ HoldTty
  /\ irq' = "added"
  /\ PrintFrom("irq", "vga", <<"w", "newline">>)
  /\ UNCHANGED <<saved, masked, panic>> /\ UNCHANGED <<taskVars, devVars, bounds>>

AddByte ==
  /\ Current = "irq" /\ irq \in Typed /\ Len(queue) < QueueCap
  /\ HoldTty
  /\ irq' = "added"
  /\ queue' = Append(queue, irq)
  /\ waker' = FALSE
  /\ UNCHANGED <<pc, line, out, saved, masked, panic>> /\ UNCHANGED <<devVars, bounds>>

\* The wake finds the executor's task queue full, and panics.
WakePanics ==
  /\ Current = "irq" /\ irq \in Typed /\ Len(queue) < QueueCap /\ waker
  /\ HoldTty
  /\ irq' = "dead"
  /\ queue' = Append(queue, irq)
  /\ waker' = FALSE
  /\ Panics
  /\ UNCHANGED <<pc, line, saved, masked>> /\ UNCHANGED <<devVars, bounds>>

EndOfInterrupt ==
  /\ Current = "irq" /\ irq = "added" /\ out["irq"] = None
  /\ held' = [held EXCEPT !.tty = None]
  /\ irq' = None
  /\ masked' = FALSE
  /\ UNCHANGED <<out, saved, panic>> /\ UNCHANGED <<taskVars, devVars, bounds>>

-----------------------------------------------------------------------------
(* handle_serial and readline                                              *)

TaskRuns == Current = "task" /\ out["task"] = None

\* The prompt is printed, and readline starts with an empty line.
Prompt ==
  /\ TaskRuns /\ pc = "prompt"
  /\ PrintFrom("task", "tty", <<">">>)
  /\ line' = <<>>
  /\ pc' = "read"
  /\ UNCHANGED <<queue, waker, irq, panic>> /\ UNCHANGED <<lockVars, devVars, bounds>>

\* The stream's next: it is ready, or it is waited for.
Ready == pc = "read" \/ (pc = "pending" /\ ~waker)

Await ==
  /\ TaskRuns /\ Ready /\ queue = <<>>
  /\ pc' = "pending"
  /\ waker' = TRUE
  /\ UNCHANGED <<line, queue, out, irq, panic>> /\ UNCHANGED <<lockVars, devVars, bounds>>

Reads(b) == TaskRuns /\ Ready /\ queue # <<>> /\ Head(queue) = b /\ queue' = Tail(queue)

readVars == <<waker, irq, panic, saved, held, masked, vga, term, typed, ticks>>

Enter ==
  /\ Reads("enter")
  /\ PrintFrom("task", "tty", <<"newline">>)
  /\ pc' = "line"
  /\ UNCHANGED line /\ UNCHANGED readVars

\* Mutant: the character before the line's start is erased too.
CanEraseAlways == TRUE

CanErase == line # <<>>

\* Move left, print a space, move left again.
Erase ==
  /\ Reads("erase") /\ CanErase
  /\ line' = IF line = <<>> THEN line ELSE Front(line)
  /\ PrintFrom("task", "tty", <<"left", "blank", "left">>)
  /\ pc' = "read"
  /\ UNCHANGED readVars

Echo(b) ==
  /\ b \in Printable /\ Reads(b) /\ Len(line) < BufferLen
  /\ line' = Append(line, b)
  /\ PrintFrom("task", "tty", <<b>>)
  /\ pc' = "read"
  /\ UNCHANGED readVars

\* BufferTooSmall: the line is given up, and what is left of it starts the next.
TooLong(b) ==
  /\ b \in Printable /\ Reads(b) /\ Len(line) = BufferLen
  /\ PrintFrom("task", "tty", <<"!">>)
  /\ pc' = "prompt"
  /\ UNCHANGED line /\ UNCHANGED readVars

Ignore ==
  /\ Reads("control") \/ (Reads("erase") /\ ~CanErase)
  /\ pc' = "read"
  /\ UNCHANGED <<line, out>> /\ UNCHANGED readVars

\* The line is printed back.  It is ASCII, and so UTF-8.
PrintLine ==
  /\ TaskRuns /\ pc = "line"
  /\ PrintFrom("task", "tty", Append(line, "newline"))
  /\ pc' = "prompt"
  /\ UNCHANGED <<line, queue>> /\ UNCHANGED readVars

\* Another task prints: time_task, once a second.
Tick ==
  /\ TaskRuns /\ pc = "pending" /\ ticks < MaxTicks
  /\ PrintFrom("task", "vga", <<"t", "newline">>)
  /\ ticks' = ticks + 1
  /\ UNCHANGED <<irq, panic, typed>> /\ UNCHANGED <<taskVars, lockVars, devVars>>

-----------------------------------------------------------------------------
(* panic                                                                   *)

\* A task or another handler panics.  None does while it holds a console, so
\* interrupts are enabled before; after it they are not, in a handler or with the
\* network driver locked.
Panic(disabled) ==
  /\ ~masked /\ irq = None
  /\ panic > 0 => disabled
  /\ masked' = disabled
  /\ Panics
  /\ UNCHANGED <<irq, saved, held>> /\ UNCHANGED <<taskVars, devVars, bounds>>

PanicNext ==
  /\ Current = "panic" /\ out["panic"] = None /\ panic < 3
  /\ panic' = panic + 1
  /\ out' = IF panic = 1 THEN [out EXCEPT !["panic"] = Text(PanicOrder[2], PanicText)]
            ELSE out
  /\ UNCHANGED irq /\ UNCHANGED <<taskVars, lockVars, devVars, bounds>>

Next ==
  \/ \E c \in Ctx : Lock(c) \/ PutVga(c) \/ PutTty(c) \/ Unlock(c)
  \/ \E b \in Typed : Interrupt(b) \/ Echo(b) \/ TooLong(b)
  \/ DropByte \/ AddByte \/ WakePanics \/ EndOfInterrupt
  \/ Prompt \/ Await \/ Enter \/ Erase \/ Ignore \/ PrintLine \/ Tick
  \/ \E d \in BOOLEAN : Panic(d)
  \/ PanicNext

Spec == Init /\ [][Next]_vars

-----------------------------------------------------------------------------
(* Properties                                                              *)

\* A row shows the line `l` behind the prompt, with the cursor behind it and nothing
\* after it.
Displays(row, cursor, l) ==
  LET start == cursor - Len(l)
  IN  /\ start > 0 /\ cursor <= Len(row)
      /\ row[start] = ">"
      /\ \A i \in 1 .. Len(l) : row[start + i] = l[i]
      /\ \A i \in cursor + 1 .. Len(row) : row[i] = "blank"

\* While readline waits, the terminal shows behind the prompt the line that is in
\* the buffer, with the cursor behind it and nothing after it: through erasing, also
\* of nothing, bytes dropped with the queue full, and a line given up as too long.
LineIsShown ==
  pc \in {"read", "pending"} /\ out["task"] = None /\ panic = 0 =>
    Displays(term.row, term.cursor, line)

\* The cell that the screen shows after the one in row `r` and column `c`.
Follows(r, c) ==
  IF c + 1 < Width THEN <<r, c + 1>> ELSE IF r + 1 < Height THEN <<r + 1, 0>> ELSE <<0, 0>>

OnVga ==
  \E r \in 0 .. Height - 1, c \in 0 .. Width - 1 :
    LET n == Follows(r, c) IN vga.chars[r][c] = "p" /\ vga.chars[n[1]][n[2]] = "q"

OnTerm ==
  \E i \in 1 .. Len(term.above) - 1 : term.above[i] = "p" /\ term.above[i + 1] = "q"

\* The panic handler waits for a console that is never given back.
Spins ==
  /\ Current = "panic" /\ out["panic"] # None
  /\ held[Dev("panic")] \notin {None, "panic"}

\* A panic is seen.  Once its handler loops, or spins on SERIAL_TTY that the com1
\* handler held when it panicked, the message stands on the screen or has gone out on
\* the serial line, though handlers may go on printing over it.
PanicReported == panic = 3 \/ Spins => OnVga \/ OnTerm
=============================================================================
