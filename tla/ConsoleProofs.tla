---------------------------- MODULE ConsoleProofs ----------------------------
(***************************************************************************)
(* The consoles for every size of the screen, the line buffer and the      *)
(* queue, and for any number of bytes, ticks and panics.                   *)
(***************************************************************************)
EXTENDS Console, SequenceTheorems, TLAPS

-----------------------------------------------------------------------------
(* What a character does to a screen and to a terminal *)

Screen == [chars : [0 .. Height - 1 -> [0 .. Width - 1 -> Char]],
           row : 0 .. Height - 1, col : 0 .. Width - 1]

Terminal == [above : Seq(Char), row : Seq(Char), cursor : Nat]

\* A character is written where the cursor is, which moves to the cell that follows
\* and never leaves the screen.
LEMMA WriteByteFacts ==
  ASSUME NEW v \in Screen, NEW ch \in Char
  PROVE  /\ WriteByte(v, ch) \in Screen
         /\ ch = "newline" => WriteByte(v, ch).chars = v.chars
         /\ ch # "newline" =>
              /\ WriteByte(v, ch).chars[v.row][v.col] = ch
              /\ \A r \in 0 .. Height - 1, c \in 0 .. Width - 1 : ~(r = v.row /\ c = v.col)
                   => WriteByte(v, ch).chars[r][c] = v.chars[r][c]
              /\ <<WriteByte(v, ch).row, WriteByte(v, ch).col>> = Follows(v.row, v.col)
<1> DEFINE Rows == 0 .. Height - 1
           Cols == 0 .. Width - 1
<1>1. Height \in Nat \ {0} /\ Width \in Nat \ {0}
  BY ConsoleAssumption
<1>2. /\ v.row \in Rows /\ v.col \in Cols /\ v.chars \in [Rows -> [Cols -> Char]]
      /\ v = [chars |-> v.chars, row |-> v.row, col |-> v.col]
  BY DEF Screen
<1>3. \A w \in Screen :
        /\ IncrRow(w) \in Screen /\ IncrRow(w).chars = w.chars /\ IncrRow(w).col = 0
        /\ IncrRow(w).row = IF w.row + 1 < Height THEN w.row + 1 ELSE 0
  <2> TAKE w \in Screen
  <2>1. PICK n \in Rows : n = IF w.row + 1 < Height THEN w.row + 1 ELSE 0
    BY <1>1 DEF Screen
  <2>2. n = IF w.row + 1 = Height THEN 0 ELSE w.row + 1
    BY <1>1, <2>1 DEF Screen
  <2>3. IncrRow(w) = [w EXCEPT !.row = n, !.col = 0]
    BY <2>2 DEF IncrRow
  <2>4. 0 \in Cols
    BY <1>1
  <2> HIDE DEF Rows, Cols
  <2>5. Screen = [chars : [Rows -> [Cols -> Char]], row : Rows, col : Cols]
    BY DEF Screen, Rows, Cols
  <2> QED BY <2>1, <2>3, <2>4, <2>5
<1>4. CASE ch = "newline"
  BY <1>3, <1>4 DEF WriteByte
<1>5. CASE ch # "newline"
  <2>1. PICK w : w = [v EXCEPT !.chars[v.row][v.col] = ch]
    OBVIOUS
  <2>2. /\ w \in Screen /\ w.row = v.row /\ w.col = v.col
        /\ w.chars[v.row][v.col] = ch
        /\ \A r \in Rows, c \in Cols : ~(r = v.row /\ c = v.col)
             => w.chars[r][c] = v.chars[r][c]
    <3> HIDE DEF Rows, Cols
    <3>1. w.row = v.row /\ w.col = v.col
          /\ w.chars = [v.chars EXCEPT ![v.row] = [v.chars[v.row] EXCEPT ![v.col] = ch]]
      BY <1>2, <2>1
    <3>2. Screen = [chars : [Rows -> [Cols -> Char]], row : Rows, col : Cols]
      BY DEF Screen, Rows, Cols
    <3>3. w \in Screen
      BY <1>2, <2>1, <3>2
    <3> QED BY <1>2, <3>1, <3>3
  <2>3. WriteByte(v, ch) = IncrCol(w)
    BY <1>5, <2>1 DEF WriteByte
  <2>4. CASE w.col + 1 = Width
    <3>1. IncrCol(w) = IncrRow(w)
      BY <2>4 DEF IncrCol
    <3> QED BY <1>1, <1>2, <1>3, <1>5, <2>2, <2>3, <2>4, <3>1 DEF Follows
  <2>5. CASE w.col + 1 # Width
    <3>1. IncrCol(w) = [w EXCEPT !.col = w.col + 1]
      BY <2>5 DEF IncrCol
    <3>2. /\ IncrCol(w) \in Screen /\ IncrCol(w).row = w.row
          /\ IncrCol(w).col = w.col + 1 /\ IncrCol(w).chars = w.chars
      <4>1. PICK n \in Cols : n = w.col + 1
        BY <1>1, <1>2, <2>2, <2>5
      <4> HIDE DEF Rows, Cols
      <4>2. Screen = [chars : [Rows -> [Cols -> Char]], row : Rows, col : Cols]
        BY DEF Screen, Rows, Cols
      <4> QED BY <2>2, <3>1, <4>1, <4>2
    <3>3. v.col + 1 < Width
      BY <1>1, <1>2, <2>2, <2>5
    <3> QED BY <1>5, <2>2, <2>3, <3>2, <3>3 DEF Follows
  <2> QED BY <2>4, <2>5
<1> QED BY <1>4, <1>5

\* A character is shown where the cursor is, over what was there or at the end.
LEMMA ShownFacts ==
  ASSUME NEW t \in Terminal, t.cursor <= Len(t.row), NEW ch \in Char,
         NEW u, u = Shown(t, ch)
  PROVE  /\ u \in Terminal /\ u.cursor <= Len(u.row)
         /\ ch = "newline" => u.above = t.row /\ u.row = <<>> /\ u.cursor = 0
         /\ ch = "left" => /\ u.above = t.above /\ u.row = t.row
                           /\ u.cursor = IF t.cursor = 0 THEN 0 ELSE t.cursor - 1
         /\ ch \notin {"newline", "left"} =>
              /\ u.above = t.above /\ u.cursor = t.cursor + 1
              /\ Len(u.row) = IF t.cursor < Len(t.row) THEN Len(t.row) ELSE Len(t.row) + 1
              /\ u.row[t.cursor + 1] = ch
              /\ \A i \in 1 .. Len(t.row) : i # t.cursor + 1 => u.row[i] = t.row[i]
<1>1. /\ t.row \in Seq(Char) /\ t.cursor \in Nat /\ t.above \in Seq(Char)
      /\ Len(t.row) \in Nat
  BY DEF Terminal
<1>2. CASE ch = "newline"
  BY <1>1, <1>2 DEF Shown, Terminal
<1>3. CASE ch = "left"
  <2>1. u = [t EXCEPT !.cursor = IF t.cursor = 0 THEN 0 ELSE t.cursor - 1]
    BY <1>3 DEF Shown
  <2>2. PICK n \in Nat : /\ n = IF t.cursor = 0 THEN 0 ELSE t.cursor - 1
                         /\ n <= Len(t.row)
    BY <1>1
  <2>3. u = [t EXCEPT !.cursor = n]
    BY <2>1, <2>2
  <2> QED BY <1>1, <1>3, <2>2, <2>3 DEF Terminal
<1>4. CASE ch \notin {"newline", "left"}
  <2>1. PICK s : s = IF t.cursor < Len(t.row) THEN [t.row EXCEPT ![t.cursor + 1] = ch]
                     ELSE Append(t.row, ch)
    OBVIOUS
  <2>2. u = [t EXCEPT !.row = s, !.cursor = t.cursor + 1]
    BY <1>4, <2>1 DEF Shown
  <2>3. u.row = s /\ u.cursor = t.cursor + 1 /\ u.above = t.above
        /\ (s \in Seq(Char) => u \in Terminal)
    <3>1. PICK n \in Nat : n = t.cursor + 1
      BY <1>1
    <3> QED BY <1>1, <2>2, <3>1 DEF Terminal
  <2>4. CASE t.cursor < Len(t.row)
    <3>1. s = [t.row EXCEPT ![t.cursor + 1] = ch] /\ t.cursor + 1 \in 1 .. Len(t.row)
      BY <1>1, <2>1, <2>4
    <3>2. s \in Seq(Char) /\ Len(s) = Len(t.row)
      BY <1>1, <3>1
    <3> QED BY <1>1, <1>4, <2>3, <2>4, <3>1, <3>2
  <2>5. CASE ~(t.cursor < Len(t.row))
    <3>1. s = Append(t.row, ch) /\ t.cursor = Len(t.row)
      BY <1>1, <2>1, <2>5
    <3>2. s \in Seq(Char) /\ Len(s) = Len(t.row) + 1 /\ s[Len(t.row) + 1] = ch
          /\ \A i \in 1 .. Len(t.row) : s[i] = t.row[i]
      BY <1>1, <3>1
    <3> QED BY <1>1, <1>4, <2>3, <2>5, <3>1, <3>2
  <2> QED BY <2>4, <2>5
<1> QED BY <1>2, <1>3, <1>4

-----------------------------------------------------------------------------
(* The inductive invariant *)

\* The cursors stay on the screen and in the row.
TypeInv ==
  /\ pc \in {"prompt", "read", "pending", "line"}
  /\ line \in Seq(Printable) /\ queue \in Seq(Typed)
  /\ irq \in Typed \cup {"added", "dead", None}
  /\ panic \in 0 .. 3
  /\ out \in [Ctx -> Message \cup {None}]
  /\ saved \in [Ctx -> BOOLEAN] /\ masked \in BOOLEAN
  /\ held \in [{"vga", "tty"} -> Ctx \cup {None}]
  /\ vga \in Screen
  /\ term \in Terminal /\ term.cursor <= Len(term.row)

\* A console is held only with interrupts disabled, and by a context that is not
\* interrupted.  The com1 handler has SERIAL_TTY from the byte to its end, or for ever
\* if it panics, and then interrupts stay disabled.
LockInv ==
  /\ ~masked => held["vga"] = None /\ held["tty"] = None
  /\ irq # None => masked
  /\ irq = "dead" => panic > 0
  /\ held["tty"] = "irq" <=> irq \in {"added", "dead"}
  /\ held["vga"] = "irq" => irq = "added" /\ saved["irq"]
  /\ out["irq"] # None => irq = "added" /\ out["irq"].dev = "vga"
  /\ \A d \in {"vga", "tty"} :
       /\ held[d] = "task" => irq = None /\ panic = 0
       /\ held[d] = "panic" => /\ panic > 0 /\ irq \in {None, "dead"}
                               /\ irq = "dead" => saved["panic"]
       /\ \A c \in Ctx : held[d] = c /\ (c = "irq" => d = "vga") =>
                           out[c] # None /\ out[c].dev = d

\* What is still to be printed of a panic's message, first on the screen and then on
\* the serial line; once it has begun, the console is held.
PanicInv ==
  /\ panic \in {0, 3} => out["panic"] = None
  /\ out["panic"] # None =>
       /\ panic = 1 => out["panic"].dev = "vga"
       /\ panic = 2 => out["panic"].dev = "tty"
       /\ out["panic"].text \in {PanicText, <<"q", "newline">>, <<"newline">>, <<>>}
       /\ out["panic"].text # PanicText => held[out["panic"].dev] = "panic"

\* How much of it stands on the screen while it is printed, and after it when the
\* com1 handler has died.
VgaInv ==
  /\ panic = 1 /\ out["panic"] # None =>
       /\ out["panic"].text = <<"q", "newline">> =>
            \E r \in 0 .. Height - 1, c \in 0 .. Width - 1 :
              vga.chars[r][c] = "p" /\ Follows(r, c) = <<vga.row, vga.col>>
       /\ out["panic"].text \in {<<"newline">>, <<>>} => OnVga
  /\ irq = "dead" /\ (panic = 1 => out["panic"] = None) => OnVga

\* How much of it the terminal shows.
TtyInv ==
  /\ panic = 2 /\ out["panic"] # None =>
       /\ out["panic"].text = <<"q", "newline">> =>
            term.cursor > 0 /\ term.row[term.cursor] = "p"
       /\ out["panic"].text = <<"newline">> =>
            \E i \in 1 .. Len(term.row) - 1 : term.row[i] = "p" /\ term.row[i + 1] = "q"
       /\ out["panic"].text = <<>> => OnTerm
  /\ panic = 3 \/ (panic = 2 /\ out["panic"] = None) => OnTerm

\* Nothing stands behind the cursor.
Clean(row, cursor) == \A i \in cursor + 1 .. Len(row) : row[i] = "blank"

\* What is still to be printed, `s`, makes the row show the line `l`.
Showing(row, cursor, l, s) ==
  \/ s = <<>> /\ Displays(row, cursor, l)
  \/ s = <<">">> /\ l = <<>> /\ Clean(row, cursor)
  \/ l # <<>> /\ s = <<l[Len(l)]>> /\ Displays(row, cursor, SubSeq(l, 1, Len(l) - 1))
  \/ /\ s = <<"left", "blank", "left">>
     /\ \E b \in Printable : Displays(row, cursor, Append(l, b))
  \/ /\ s = <<"blank", "left">> /\ cursor < Len(row)
     /\ Displays([row EXCEPT ![cursor + 1] = "blank"], cursor, l)
  \/ s = <<"left">> /\ cursor > 0 /\ Displays(row, cursor - 1, l)

\* The terminal shows the line while it is read, or is about to; before and after,
\* nothing that is printed moves the cursor back.
LineInv ==
  panic = 0 =>
    /\ pc \in {"prompt", "line"} =>
         /\ Clean(term.row, term.cursor)
         /\ out["task"] # None => \A i \in DOMAIN out["task"].text :
                                    out["task"].text[i] # "left"
    /\ pc \in {"read", "pending"} =>
         IF out["task"] = None \/ out["task"].dev = "vga"
         THEN Displays(term.row, term.cursor, line)
         ELSE Showing(term.row, term.cursor, line, out["task"].text)

ConsoleInv == TypeInv /\ LockInv /\ PanicInv /\ VgaInv /\ TtyInv /\ LineInv

-----------------------------------------------------------------------------
(* Facts that every step uses *)

\* A message, and what is left of it when a character has been printed.
LEMMA MessageFacts ==
  ASSUME TypeInv, NEW c \in Ctx, out[c] # None
  PROVE  /\ out[c] \in Message /\ Dev(c) \in {"vga", "tty"} /\ out[c].text \in Seq(Char)
         /\ out[c].text # <<>> =>
              /\ Head(out[c].text) \in Char
              /\ Tail(out[c].text) \in Seq(Char)
              /\ [out[c] EXCEPT !.text = Tail(out[c].text)] \in Message
              /\ [out[c] EXCEPT !.text = Tail(out[c].text)] # None
              /\ [out[c] EXCEPT !.text = Tail(out[c].text)].dev = out[c].dev
              /\ [out[c] EXCEPT !.text = Tail(out[c].text)].text = Tail(out[c].text)
<1>1. PICK m \in Message : m = out[c]
  BY DEF TypeInv
<1>2. m.dev \in {"vga", "tty"} /\ m.text \in Seq(Char)
  BY DEF Message
<1>3. ASSUME m.text # <<>> PROVE Head(m.text) \in Char /\ Tail(m.text) \in Seq(Char)
  BY <1>2, <1>3
<1>4. \A s \in Seq(Char) : /\ [m EXCEPT !.text = s] \in Message
                           /\ [m EXCEPT !.text = s].dev = m.dev
                           /\ [m EXCEPT !.text = s].text = s
  BY <1>2 DEF Message
<1>5. None \notin Message
  BY ConsoleAssumption
<1> QED BY <1>1, <1>2, <1>3, <1>4, <1>5 DEF Dev

\* Every text that is printed is a message, and the other contexts' stay.
LEMMA PrintFacts ==
  ASSUME TypeInv, NEW c \in Ctx, NEW d \in {"vga", "tty"}, NEW s \in Seq(Char),
         PrintFrom(c, d, s)
  PROVE  /\ out' \in [Ctx -> Message \cup {None}]
         /\ out'[c] # None /\ out'[c].dev = d /\ out'[c].text = s
         /\ \A o \in Ctx : o # c => out'[o] = out[o]
<1>1. Text(d, s) \in Message /\ Text(d, s).dev = d /\ Text(d, s).text = s
  BY DEF Text, Message
<1>2. None \notin Message
  BY ConsoleAssumption
<1> QED BY <1>1, <1>2 DEF TypeInv, PrintFrom

\* The screen is never written outside its cells, so printing does not panic.
LEMMA PutVgaFacts ==
  ASSUME TypeInv, NEW c \in Ctx, PutVga(c)
  PROVE  /\ vga' = WriteByte(vga, Head(out[c].text)) /\ panic' = panic
         /\ out' = [out EXCEPT ![c] = [out[c] EXCEPT !.text = Tail(out[c].text)]]
<1>1. InRange(vga)
  BY ConsoleAssumption DEF TypeInv, Screen, InRange
<1> QED BY <1>1 DEF PutVga

\* The texts that contexts print.
LEMMA Texts ==
  /\ PanicText \in Seq(Char) /\ <<"w", "newline">> \in Seq(Char)
  /\ <<"t", "newline">> \in Seq(Char) /\ <<">">> \in Seq(Char) /\ <<"!">> \in Seq(Char)
  /\ <<"newline">> \in Seq(Char) /\ <<"left", "blank", "left">> \in Seq(Char)
  /\ PanicOrder[1] = "vga" /\ PanicOrder[2] = "tty"
BY DEF PanicText, PanicOrder, Char

\* What a context that has begun to print does: it locks the console, prints a
\* character, or unlocks it.
Prints(c) == Lock(c) \/ PutVga(c) \/ PutTty(c) \/ Unlock(c)

\* The steps of the task that handle_serial, readline and time_task are.
TaskStep ==
  \/ \E b \in Typed : Echo(b) \/ TooLong(b)
  \/ Prompt \/ Await \/ Enter \/ Erase \/ Ignore \/ PrintLine \/ Tick

\* The steps of com1_interrupt_handler, its entry included.
HandlerStep ==
  (\E b \in Typed : Interrupt(b)) \/ DropByte \/ AddByte \/ WakePanics \/ EndOfInterrupt

\* The steps of the panic handler, its entry included.
PanicStep == (\E d \in BOOLEAN : Panic(d)) \/ PanicNext

\* The next-state relation, by who takes the step.
LEMMA NextCases ==
  ASSUME Next
  PROVE  (\E c \in Ctx : Prints(c)) \/ TaskStep \/ HandlerStep \/ PanicStep
BY DEF Next, Prints, TaskStep, HandlerStep, PanicStep

\* Printing keeps the cursors where they may be.
LEMMA PrintsType ==
  ASSUME TypeInv, NEW c \in Ctx, Prints(c)
  PROVE  TypeInv'
<1>1. CASE Lock(c)
  BY <1>1 DEF TypeInv, Lock, taskVars, devVars, bounds
<1>2. CASE PutVga(c)
  <2>1. /\ vga' = WriteByte(vga, Head(out[c].text)) /\ panic' = panic
        /\ out' = [out EXCEPT ![c] = [out[c] EXCEPT !.text = Tail(out[c].text)]]
    BY <1>2, PutVgaFacts
  <2>2. out[c] # None /\ out[c].text # <<>>
        /\ UNCHANGED <<pc, line, queue, irq, term, saved, held, masked>>
    BY <1>2 DEF PutVga, taskVars, lockVars
  <2>3. /\ Head(out[c].text) \in Char
        /\ [out[c] EXCEPT !.text = Tail(out[c].text)] \in Message
    BY <2>2, MessageFacts
  <2>4. vga' \in Screen
    BY <2>1, <2>3, WriteByteFacts DEF TypeInv
  <2>5. out' \in [Ctx -> Message \cup {None}]
    BY <2>1, <2>3 DEF TypeInv
  <2> QED BY <2>1, <2>2, <2>4, <2>5 DEF TypeInv
<1>3. CASE PutTty(c)
  <2>1. /\ term' = Shown(term, Head(out[c].text)) /\ out[c] # None /\ out[c].text # <<>>
        /\ out' = [out EXCEPT ![c] = [out[c] EXCEPT !.text = Tail(out[c].text)]]
        /\ UNCHANGED <<pc, line, queue, irq, panic, vga, saved, held, masked>>
    BY <1>3 DEF PutTty, taskVars, lockVars
  <2>2. /\ Head(out[c].text) \in Char
        /\ [out[c] EXCEPT !.text = Tail(out[c].text)] \in Message
    BY <2>1, MessageFacts
  <2>3. term' \in Terminal /\ term'.cursor <= Len(term'.row)
    BY <2>1, <2>2, ShownFacts DEF TypeInv
  <2>4. out' \in [Ctx -> Message \cup {None}]
    BY <2>1, <2>2 DEF TypeInv
  <2> QED BY <2>1, <2>3, <2>4 DEF TypeInv
<1>4. CASE Unlock(c)
  BY <1>4 DEF TypeInv, Unlock, taskVars, devVars, bounds
<1> QED BY <1>1, <1>2, <1>3, <1>4 DEF Prints

\* com1_interrupt_handler keeps the types.
LEMMA HandlerType ==
  ASSUME TypeInv, HandlerStep
  PROVE  TypeInv'
<1> USE DEF taskVars, devVars, bounds, HoldTty
<1>0. "irq" \in Ctx /\ "panic" \in Ctx
  BY DEF Ctx
<1>1. ASSUME NEW b \in Typed, Interrupt(b) PROVE TypeInv'
  BY <1>1 DEF TypeInv, Interrupt
<1>2. CASE DropByte
  <2>1. out' \in [Ctx -> Message \cup {None}]
    BY <1>0, <1>2, Texts, PrintFacts DEF DropByte
  <2> QED BY <1>0, <1>2, <2>1 DEF TypeInv, DropByte
<1>3. CASE AddByte
  <2>1. queue' \in Seq(Typed)
    BY <1>3 DEF TypeInv, AddByte
  <2>2. held' \in [{"vga", "tty"} -> Ctx \cup {None}]
    BY <1>0, <1>3 DEF TypeInv, AddByte
  <2> QED BY <1>3, <2>1, <2>2 DEF TypeInv, AddByte
<1>4. CASE WakePanics
  <2>1. out' \in [Ctx -> Message \cup {None}]
    BY <1>0, <1>4, Texts, PrintFacts DEF WakePanics, Panics
  <2>2. panic' \in 0 .. 3
    BY <1>4 DEF WakePanics, Panics
  <2>3. queue' \in Seq(Typed)
    BY <1>4 DEF TypeInv, WakePanics
  <2>4. held' \in [{"vga", "tty"} -> Ctx \cup {None}]
    BY <1>0, <1>4 DEF TypeInv, WakePanics
  <2> QED BY <1>4, <2>1, <2>2, <2>3, <2>4 DEF TypeInv, WakePanics
<1>5. CASE EndOfInterrupt
  BY <1>5 DEF TypeInv, EndOfInterrupt
<1> QED BY <1>1, <1>2, <1>3, <1>4, <1>5 DEF HandlerStep

\* The panic handler keeps the types.
LEMMA PanicType ==
  ASSUME TypeInv, PanicStep
  PROVE  TypeInv'
<1> USE DEF taskVars, lockVars, devVars, bounds
<1>0. "panic" \in Ctx
  BY DEF Ctx
<1>1. ASSUME NEW d \in BOOLEAN, Panic(d) PROVE TypeInv'
  <2>1. out' \in [Ctx -> Message \cup {None}]
    BY <1>0, <1>1, Texts, PrintFacts DEF Panic, Panics
  <2>2. panic' \in 0 .. 3
    BY <1>1 DEF Panic, Panics
  <2> QED BY <1>1, <2>1, <2>2 DEF TypeInv, Panic
<1>2. CASE PanicNext
  <2>1. panic \in 0 .. 3 /\ panic < 3 /\ panic' = panic + 1
    BY <1>2 DEF PanicNext, TypeInv
  <2>2. out' \in [Ctx -> Message \cup {None}]
    <3>1. Text(PanicOrder[2], PanicText) \in Message
      BY Texts DEF Text, Message
    <3> QED BY <1>0, <1>2, <3>1 DEF PanicNext, TypeInv
  <2> QED BY <1>2, <2>1, <2>2 DEF TypeInv, PanicNext
<1> QED BY <1>1, <1>2 DEF PanicStep

\* What the task prints, and where its line is when it has.
LEMMA TaskFacts ==
  ASSUME TypeInv, TaskStep
  PROVE  /\ TypeInv' /\ UNCHANGED <<irq, panic, saved, held, masked, vga, term>>
         /\ irq \in {None, "dead"} /\ panic = 0 /\ out["task"] = None
         /\ \A o \in Ctx : o # "task" => out'[o] = out[o]
<1> USE DEF taskVars, lockVars, devVars, bounds, readVars, TaskRuns, Reads
<1>0. "task" \in Ctx /\ Printable \subseteq Typed /\ Printable \subseteq Char
  BY DEF Ctx, Printable, Char
<1>1. Current = "task" /\ out["task"] = None
  BY DEF TaskStep, Echo, TooLong, Prompt, Await, Enter, Erase, Ignore, PrintLine, Tick
<1>2. irq \in {None, "dead"} /\ panic = 0
  BY <1>1 DEF Current, TypeInv
<1>3. UNCHANGED <<irq, panic, saved, held, masked, vga, term>>
  BY DEF TaskStep, Echo, TooLong, Prompt, Await, Enter, Erase, Ignore, PrintLine, Tick
<1>4. queue' \in Seq(Typed)
  <2>1. queue # <<>> => Tail(queue) \in Seq(Typed)
    BY DEF TypeInv
  <2> QED BY <2>1
         DEF TypeInv, TaskStep, Echo, TooLong, Prompt, Await, Enter, Erase, Ignore,
             PrintLine, Tick
<1>5. line' \in Seq(Printable)
  <2>1. line \in Seq(Printable) /\ (line # <<>> => Front(line) \in Seq(Printable))
    BY DEF TypeInv, Front
  <2>2. \A b \in Printable : Append(line, b) \in Seq(Printable)
    BY <2>1
  <2>3. CASE Prompt \/ Erase
    <3>1. <<>> \in Seq(Printable)
      OBVIOUS
    <3> QED BY <2>1, <2>3, <3>1 DEF Prompt, Erase
  <2>4. CASE \E b \in Typed : Echo(b)
    BY <2>2, <2>4 DEF Echo
  <2>5. CASE line' = line
    BY <2>1, <2>5
  <2> QED BY <2>3, <2>4, <2>5
         DEF TaskStep, TooLong, Await, Enter, Ignore, PrintLine, Tick
<1>6. pc' \in {"prompt", "read", "pending", "line"}
  BY DEF TypeInv, TaskStep, Echo, TooLong, Prompt, Await, Enter, Erase, Ignore,
         PrintLine, Tick
<1>7. \/ out' = out
      \/ \E d \in {"vga", "tty"}, s \in Seq(Char) : PrintFrom("task", d, s)
  <2>1. Append(line, "newline") \in Seq(Char)
    BY <1>0 DEF TypeInv, Char
  <2>2. \A b \in Printable : <<b>> \in Seq(Char)
    BY <1>0
  <2> QED BY <2>1, <2>2, Texts
         DEF TaskStep, Echo, TooLong, Prompt, Await, Enter, Erase, Ignore, PrintLine, Tick
<1>8. /\ out' \in [Ctx -> Message \cup {None}]
      /\ \A o \in Ctx : o # "task" => out'[o] = out[o]
  BY <1>0, <1>7, PrintFacts DEF TypeInv
<1> QED BY <1>1, <1>2, <1>3, <1>4, <1>5, <1>6, <1>8 DEF TypeInv

\* Which context runs.
LEMMA CurrentFacts ==
  ASSUME TypeInv, LockInv
  PROVE  /\ Current = "task" <=> irq = None /\ panic = 0
         /\ Current = "irq" <=> irq \notin {None, "dead"}
         /\ Current = "panic" <=> irq \in {None, "dead"} /\ panic > 0
BY DEF TypeInv, LockInv, Current

\* Printing a character leaves the other messages alone, and the message is for the
\* same console.
LEMMA PutFacts ==
  ASSUME TypeInv, NEW c \in Ctx, PutVga(c) \/ PutTty(c)
  PROVE  /\ c = Current /\ out[c] # None /\ out'[c] # None /\ out'[c].dev = out[c].dev
         /\ held[out[c].dev] = c /\ out[c].text # <<>> /\ out'[c].text = Tail(out[c].text)
         /\ \A o \in Ctx : o # c => out'[o] = out[o]
         /\ UNCHANGED <<irq, panic, saved, held, masked>>
<1>1. /\ out[c] # None /\ out[c].text # <<>> /\ c = Current
      /\ held[out[c].dev] = c
  BY DEF PutVga, PutTty, Dev
<1>2. UNCHANGED <<irq, panic, saved, held, masked>>
      /\ out' = [out EXCEPT ![c] = [out[c] EXCEPT !.text = Tail(out[c].text)]]
  BY PutVgaFacts DEF PutVga, PutTty, lockVars
<1>3. /\ out'[c] = [out[c] EXCEPT !.text = Tail(out[c].text)]
      /\ \A o \in Ctx : o # c => out'[o] = out[o]
  BY <1>2 DEF TypeInv
<1> QED BY <1>1, <1>2, <1>3, MessageFacts

\* serial::print and vga::_print keep the locks in order: a guard restores what its
\* lock found.
LEMMA PrintsLock ==
  ASSUME TypeInv, LockInv, NEW c \in Ctx, Prints(c)
  PROVE  LockInv'
<1>1. CASE Lock(c)
  <2>1. /\ c = Current /\ out[c] # None /\ held[Dev(c)] = None /\ masked'
        /\ held' = [held EXCEPT ![Dev(c)] = c]
        /\ saved' = [saved EXCEPT ![c] = masked] /\ UNCHANGED <<out, irq, panic>>
    BY <1>1 DEF Lock
  <2>2. Dev(c) \in {"vga", "tty"}
    BY <2>1, MessageFacts
  <2>3. /\ held'[Dev(c)] = c /\ \A d \in {"vga", "tty"} : d # Dev(c) => held'[d] = held[d]
        /\ saved'[c] = masked /\ \A o \in Ctx : o # c => saved'[o] = saved[o]
    BY <2>1, <2>2 DEF TypeInv
  <2>4. c = "irq" => Dev(c) = "vga" /\ irq = "added" /\ masked
    BY <2>1 DEF LockInv, Dev
  <2>5. c = "panic" => panic > 0 /\ irq \in {None, "dead"} /\ (irq = "dead" => masked)
    BY <2>1, CurrentFacts, ConsoleAssumption DEF LockInv
  <2>6. c = "task" => irq = None /\ panic = 0
    BY <2>1, CurrentFacts
  <2> QED BY <2>1, <2>2, <2>3, <2>4, <2>5, <2>6, ConsoleAssumption DEF LockInv, Dev, Ctx
<1>2. CASE PutVga(c) \/ PutTty(c)
  <2>1. /\ out[c] # None /\ out'[c] # None /\ out'[c].dev = out[c].dev
        /\ \A o \in Ctx : o # c => out'[o] = out[o]
        /\ UNCHANGED <<irq, panic, saved, held, masked>>
    BY <1>2, PutFacts
  <2> QED BY <2>1 DEF LockInv, Ctx
<1>3. CASE Unlock(c)
  <2>1. /\ c = Current /\ out[c] # None /\ held[Dev(c)] = c
        /\ held' = [held EXCEPT ![Dev(c)] = None] /\ masked' = saved[c]
        /\ out' = [out EXCEPT ![c] = None] /\ UNCHANGED <<saved, irq, panic>>
    BY <1>3 DEF Unlock
  <2>2. Dev(c) \in {"vga", "tty"} /\ Dev(c) = out[c].dev
    BY <2>1, MessageFacts DEF Dev
  <2>3. /\ held'[Dev(c)] = None
        /\ \A d \in {"vga", "tty"} : d # Dev(c) => held'[d] = held[d]
        /\ out'[c] = None /\ \A o \in Ctx : o # c => out'[o] = out[o]
    BY <2>1, <2>2 DEF TypeInv
  <2>4. \A d \in {"vga", "tty"} : held'[d] = c => c = "irq" /\ d = "tty"
    BY <2>2, <2>3, ConsoleAssumption DEF LockInv
  <2>5. c = "irq" => Dev(c) = "vga" /\ saved[c] /\ irq = "added"
    BY <2>1, <2>2 DEF LockInv
  <2>6. c = "panic" => /\ irq = "dead" => saved[c]
                       /\ irq \in {None, "dead"} /\ panic > 0
    BY <2>1, <2>2, CurrentFacts DEF LockInv
  <2>7. c = "task" => irq = None /\ panic = 0
    BY <2>1, CurrentFacts
  <2>8. ~masked' => held'["vga"] = None /\ held'["tty"] = None
    BY <2>1, <2>3, <2>4, <2>5, <2>6, <2>7, ConsoleAssumption DEF LockInv, TypeInv, Ctx
  <2>9. irq # None => masked'
    BY <2>1, <2>5, <2>6, <2>7 DEF LockInv, Ctx
  <2>10. held'["tty"] = "irq" <=> irq \in {"added", "dead"}
    BY <2>1, <2>2, <2>3, <2>5, ConsoleAssumption DEF LockInv, Ctx
  <2>11. held'["vga"] = "irq" => irq = "added" /\ saved["irq"]
    BY <2>2, <2>3, ConsoleAssumption DEF LockInv, Ctx
  <2>12. out'["irq"] # None => irq = "added" /\ out'["irq"].dev = "vga"
    BY <2>3 DEF LockInv, Ctx
  <2>13. ASSUME NEW d \in {"vga", "tty"}
         PROVE  /\ held'[d] = "task" => irq = None /\ panic = 0
                /\ held'[d] = "panic" => /\ panic > 0 /\ irq \in {None, "dead"}
                                         /\ irq = "dead" => saved["panic"]
                /\ \A o \in Ctx : held'[d] = o /\ (o = "irq" => d = "vga") =>
                                    out'[o] # None /\ out'[o].dev = d
    <3>1. CASE held'[d] = None
      BY <3>1, ConsoleAssumption DEF Ctx
    <3>2. CASE held'[d] # None
      <4>1. held'[d] = held[d]
        BY <2>3, <3>2
      <4>2. ASSUME NEW o \in Ctx, held[d] = o, o = "irq" => d = "vga"
            PROVE  out'[o] # None /\ out'[o].dev = d
        <5>1. o # c /\ out[o] # None /\ out[o].dev = d
          BY <2>4, <4>1, <4>2 DEF LockInv
        <5> QED BY <2>3, <5>1
      <4> QED BY <4>1, <4>2 DEF LockInv
    <3> QED BY <3>1, <3>2
  <2> QED BY <2>1, <2>8, <2>9, <2>10, <2>11, <2>12, <2>13 DEF LockInv
<1> QED BY <1>1, <1>2, <1>3 DEF Prints

\* The task starts to print only when it holds no console.
LEMMA TaskLock ==
  ASSUME TypeInv, LockInv, TaskStep
  PROVE  LockInv'
<1>1. /\ UNCHANGED <<irq, panic, saved, held, masked>> /\ out["task"] = None
      /\ \A o \in Ctx : o # "task" => out'[o] = out[o]
  BY TaskFacts
<1>2. \A d \in {"vga", "tty"} : held[d] # "task"
  BY <1>1 DEF LockInv, Ctx
<1> QED BY <1>1, <1>2 DEF LockInv, Ctx

\* com1_interrupt_handler starts with no console held, and ends with none.
LEMMA HandlerLock ==
  ASSUME TypeInv, LockInv, HandlerStep
  PROVE  LockInv'
<1>0. "irq" \in Ctx /\ "panic" \in Ctx /\ "task" \in Ctx /\ None \notin Ctx
  BY ConsoleAssumption DEF Ctx
<1>1. ASSUME NEW b \in Typed, Interrupt(b) PROVE LockInv'
  <2>1. /\ ~masked /\ irq = None /\ irq' = b /\ masked'
        /\ UNCHANGED <<out, saved, held, panic>>
    BY <1>1 DEF Interrupt
  <2>2. b \notin {None, "added", "dead"}
    BY ConsoleAssumption
  <2>3. held["vga"] = None /\ held["tty"] = None /\ out["irq"] = None
    BY <2>1, ConsoleAssumption DEF LockInv
  <2> QED BY <1>0, <2>1, <2>2, <2>3 DEF LockInv
<1>2. CASE DropByte \/ AddByte \/ WakePanics
  <2>1. /\ irq \in Typed /\ held["tty"] = None /\ held' = [held EXCEPT !["tty"] = "irq"]
        /\ UNCHANGED <<saved, masked>>
    BY <1>2 DEF DropByte, AddByte, WakePanics, HoldTty
  <2>2. irq \notin {None, "added", "dead"}
    BY <2>1, ConsoleAssumption
  <2>3. /\ held'["tty"] = "irq" /\ held'["vga"] = held["vga"] /\ held["vga"] = None
        /\ out["irq"] = None /\ masked
    BY <2>1, <2>2 DEF LockInv, TypeInv, Ctx
  <2>4. CASE DropByte
    <3>1. /\ irq' = "added" /\ panic' = panic
          /\ out'["irq"] # None /\ out'["irq"].dev = "vga"
      BY <1>0, <2>4, Texts, PrintFacts DEF DropByte
    <3> QED BY <1>0, <2>1, <2>3, <3>1, ConsoleAssumption DEF LockInv
  <2>5. CASE AddByte
    <3>1. irq' = "added" /\ UNCHANGED <<panic, out>>
      BY <2>5 DEF AddByte
    <3> QED BY <1>0, <2>1, <2>3, <3>1, ConsoleAssumption DEF LockInv
  <2>6. CASE WakePanics
    <3>1. irq' = "dead" /\ panic' = 1 /\ out'["irq"] = out["irq"]
      BY <1>0, <2>6, Texts, PrintFacts DEF WakePanics, Panics
    <3> QED BY <1>0, <2>1, <2>3, <3>1, ConsoleAssumption DEF LockInv
  <2> QED BY <1>2, <2>4, <2>5, <2>6
<1>3. CASE EndOfInterrupt
  <2>1. /\ irq = "added" /\ out["irq"] = None /\ irq' = None /\ ~masked'
        /\ held' = [held EXCEPT !["tty"] = None] /\ UNCHANGED <<out, saved, panic>>
    BY <1>3 DEF EndOfInterrupt
  <2>2. held'["tty"] = None /\ held'["vga"] = held["vga"] /\ held["vga"] = None
    BY <1>0, <2>1, ConsoleAssumption DEF LockInv, TypeInv, Ctx
  <2> QED BY <1>0, <2>1, <2>2, ConsoleAssumption DEF LockInv
<1> QED BY <1>1, <1>2, <1>3 DEF HandlerStep

\* So does a panic, but for a handler that panicked.
LEMMA PanicLock ==
  ASSUME TypeInv, LockInv, PanicStep
  PROVE  LockInv'
<1>0. "irq" \in Ctx /\ "panic" \in Ctx /\ "task" \in Ctx /\ None \notin Ctx
  BY ConsoleAssumption DEF Ctx
<1>1. ASSUME NEW d \in BOOLEAN, Panic(d) PROVE LockInv'
  <2>1. /\ ~masked /\ irq = None /\ panic' = 1 /\ UNCHANGED <<irq, saved, held>>
        /\ out'["irq"] = out["irq"]
    BY <1>0, <1>1, Texts, PrintFacts DEF Panic, Panics
  <2>2. held["vga"] = None /\ held["tty"] = None
    BY <2>1 DEF LockInv
  <2> QED BY <1>0, <2>1, <2>2 DEF LockInv
<1>2. CASE PanicNext
  <2>1. /\ out["panic"] = None /\ panic < 3 /\ panic' = panic + 1
        /\ UNCHANGED <<irq, saved, held, masked>> /\ Current = "panic"
        /\ \A o \in Ctx : o # "panic" => out'[o] = out[o]
    BY <1>2 DEF PanicNext, TypeInv, lockVars
  <2>2. panic \in Nat /\ panic > 0 /\ irq \in {None, "dead"}
    BY <2>1, CurrentFacts DEF TypeInv
  <2>3. \A d \in {"vga", "tty"} : held[d] \notin {"panic", "task"}
    BY <1>0, <2>1, <2>2 DEF LockInv
  <2>4. panic' > 0
    BY <2>1, <2>2
  <2> QED BY <1>0, <2>1, <2>2, <2>3, <2>4 DEF LockInv
<1> QED BY <1>1, <1>2 DEF PanicStep

-----------------------------------------------------------------------------
(* What is reported of a panic *)

ReportInv == PanicInv /\ VgaInv /\ TtyInv

\* The message, character by character.
LEMMA PanicTexts ==
  /\ PanicText # <<>> /\ Head(PanicText) = "p" /\ Tail(PanicText) = <<"q", "newline">>
  /\ <<"q", "newline">> # <<>> /\ Head(<<"q", "newline">>) = "q"
  /\ Tail(<<"q", "newline">>) = <<"newline">>
  /\ <<"newline">> # <<>> /\ Head(<<"newline">>) = "newline" /\ Tail(<<"newline">>) = <<>>
  /\ PanicText # <<"q", "newline">> /\ PanicText # <<"newline">>
  /\ <<"q", "newline">> # <<"newline">>
BY DEF PanicText

\* Steps that concern neither the message nor the consoles.
LEMMA ReportKept ==
  ASSUME ReportInv, UNCHANGED <<panic, vga, term>>, out'["panic"] = out["panic"],
         irq' = irq \/ irq' # "dead",
         out["panic"] # None /\ held[out["panic"].dev] = "panic" =>
           held'[out["panic"].dev] = "panic"
  PROVE  ReportInv'
<1>1. PanicInv'
  BY DEF ReportInv, PanicInv
<1>2. VgaInv'
  BY DEF ReportInv, VgaInv, OnVga
<1>3. TtyInv'
  BY DEF ReportInv, TtyInv, OnTerm
<1> QED BY <1>1, <1>2, <1>3 DEF ReportInv

\* A panic starts, maybe within another.
LEMMA PanicsReports ==
  ASSUME TypeInv, Panics
  PROVE  ReportInv'
<1>1. /\ panic' = 1 /\ out'["panic"] # None /\ out'["panic"].dev = "vga"
      /\ out'["panic"].text = PanicText
  BY Texts, PrintFacts DEF Panics, Ctx
<1> QED BY <1>1, PanicTexts DEF ReportInv, PanicInv, VgaInv, TtyInv

\* The panic handler writes to the screen: the next character of the message, in the
\* cell that follows that of the one before.
LEMMA PanicPutsVga ==
  ASSUME TypeInv, LockInv, ReportInv, PutVga("panic")
  PROVE  ReportInv'
<1>0. "panic" \in Ctx
  BY DEF Ctx
<1>1. PICK s : s = out["panic"].text
  OBVIOUS
<1>2. /\ out["panic"] # None /\ out'["panic"] # None /\ out["panic"].dev = "vga"
      /\ out'["panic"].dev = "vga" /\ held'["vga"] = "panic" /\ s # <<>>
      /\ out'["panic"].text = Tail(s) /\ UNCHANGED <<irq, panic, term>>
      /\ vga' = WriteByte(vga, Head(s))
  BY <1>0, <1>1, PutFacts, PutVgaFacts DEF PutVga, Dev
<1>3. panic = 1
  BY <1>2 DEF ReportInv, PanicInv, TypeInv
<1>4. vga \in Screen /\ vga' \in Screen
  <2>1. Head(s) \in Char
    BY <1>0, <1>1, <1>2, MessageFacts
  <2> QED BY <1>2, <2>1, WriteByteFacts DEF TypeInv
<1>5. /\ vga.row \in 0 .. Height - 1 /\ vga.col \in 0 .. Width - 1
      /\ vga.chars \in [0 .. Height - 1 -> [0 .. Width - 1 -> Char]]
  BY <1>4 DEF Screen
<1>6. CASE s = PanicText
  <2>1. Head(s) = "p" /\ Tail(s) = <<"q", "newline">>
    BY <1>6, PanicTexts
  <2>2. /\ vga'.chars[vga.row][vga.col] = "p"
        /\ <<vga'.row, vga'.col>> = Follows(vga.row, vga.col)
    BY <1>2, <1>4, <2>1, WriteByteFacts DEF Char
  <2>3. \E r \in 0 .. Height - 1, c \in 0 .. Width - 1 :
          vga'.chars[r][c] = "p" /\ Follows(r, c) = <<vga'.row, vga'.col>>
    BY <1>5, <2>2
  <2> QED BY <1>2, <1>3, <2>1, <2>3, PanicTexts
          DEF ReportInv, PanicInv, VgaInv, TtyInv, Follows
<1>7. CASE s = <<"q", "newline">>
  <2>1. Head(s) = "q" /\ Tail(s) = <<"newline">>
    BY <1>7, PanicTexts
  <2>2. PICK r \in 0 .. Height - 1, c \in 0 .. Width - 1 :
          vga.chars[r][c] = "p" /\ Follows(r, c) = <<vga.row, vga.col>>
    BY <1>1, <1>2, <1>3, <1>7 DEF ReportInv, VgaInv
  <2>3. /\ vga'.chars[vga.row][vga.col] = "q"
        /\ ~(r = vga.row /\ c = vga.col) => vga'.chars[r][c] = vga.chars[r][c]
    BY <1>2, <1>4, <2>1, WriteByteFacts DEF Char
  <2>4. ~(r = vga.row /\ c = vga.col)
    BY <2>2, ConsoleAssumption DEF Follows
  <2>5. vga'.chars[r][c] = "p" /\ vga'.chars[vga.row][vga.col] = "q"
    BY <2>2, <2>3, <2>4
  <2>6. \A n : n = Follows(r, c) => n[1] = vga.row /\ n[2] = vga.col
    BY <2>2
  <2>7. OnVga'
    BY <2>5, <2>6 DEF OnVga, Follows
  <2> QED BY <1>2, <1>3, <2>1, <2>7, PanicTexts DEF ReportInv, PanicInv, VgaInv, TtyInv
<1>8. CASE s = <<"newline">>
  <2>1. Head(s) = "newline" /\ Tail(s) = <<>>
    BY <1>8, PanicTexts
  <2>2. vga'.chars = vga.chars
    BY <1>2, <1>4, <2>1, WriteByteFacts DEF Char
  <2>3. OnVga
    BY <1>1, <1>2, <1>3, <1>8 DEF ReportInv, VgaInv
  <2>4. OnVga'
    BY <2>2, <2>3 DEF OnVga
  <2> QED BY <1>2, <1>3, <2>1, <2>4, PanicTexts DEF ReportInv, PanicInv, VgaInv, TtyInv
<1> QED BY <1>1, <1>2, <1>6, <1>7, <1>8 DEF ReportInv, PanicInv

\* The panic handler prints on the serial line: the message is on one row, which the
\* newline moves up.
LEMMA PanicPutsTty ==
  ASSUME TypeInv, LockInv, ReportInv, PutTty("panic")
  PROVE  ReportInv'
<1>0. "panic" \in Ctx
  BY DEF Ctx
<1>1. PICK s : s = out["panic"].text
  OBVIOUS
<1>2. /\ out["panic"] # None /\ out'["panic"] # None /\ out["panic"].dev = "tty"
      /\ out'["panic"].dev = "tty" /\ held'["tty"] = "panic" /\ s # <<>>
      /\ out'["panic"].text = Tail(s) /\ UNCHANGED <<irq, panic, vga>>
      /\ term' = Shown(term, Head(s))
  BY <1>0, <1>1, PutFacts DEF PutTty, Dev
<1>3. panic = 2
  BY <1>2 DEF ReportInv, PanicInv, TypeInv
<1>4. VgaInv'
  BY <1>2, <1>3 DEF ReportInv, VgaInv, OnVga
<1>5. /\ term \in Terminal /\ term.cursor <= Len(term.row)
      /\ term.cursor \in Nat /\ Len(term.row) \in Nat
  BY DEF TypeInv, Terminal
<1>6. CASE s = PanicText
  <2>1. Head(s) = "p" /\ Tail(s) = <<"q", "newline">> /\ "p" \in Char
    BY <1>6, PanicTexts DEF Char
  <2>2. term'.cursor = term.cursor + 1 /\ term'.row[term.cursor + 1] = "p"
    BY <1>2, <1>5, <2>1, ShownFacts
  <2>3. term'.cursor > 0 /\ term'.row[term'.cursor] = "p"
    BY <1>5, <2>2
  <2> QED BY <1>2, <1>3, <1>4, <2>1, <2>3, PanicTexts DEF ReportInv, PanicInv, TtyInv
<1>7. CASE s = <<"q", "newline">>
  <2>1. Head(s) = "q" /\ Tail(s) = <<"newline">> /\ "q" \in Char
    BY <1>7, PanicTexts DEF Char
  <2>2. term.cursor > 0 /\ term.row[term.cursor] = "p"
    BY <1>1, <1>2, <1>3, <1>7 DEF ReportInv, TtyInv
  <2>3. /\ term'.row[term.cursor + 1] = "q" /\ term'.cursor = term.cursor + 1
        /\ term'.cursor <= Len(term'.row) /\ term' \in Terminal
        /\ \A i \in 1 .. Len(term.row) : i # term.cursor + 1 => term'.row[i] = term.row[i]
    <3>1. ASSUME NEW u, u = Shown(term, "q")
          PROVE  /\ u.row[term.cursor + 1] = "q" /\ u.cursor = term.cursor + 1
                 /\ u.cursor <= Len(u.row) /\ u \in Terminal
                 /\ \A i \in 1 .. Len(term.row) :
                      i # term.cursor + 1 => u.row[i] = term.row[i]
      BY <1>5, <2>1, <3>1, ShownFacts
    <3> QED BY <1>2, <2>1, <3>1
  <2>4. term'.row[term.cursor] = "p"
    BY <1>5, <2>2, <2>3
  <2>5. Len(term'.row) \in Nat
    BY <2>3 DEF Terminal
  <2>6. term.cursor \in 1 .. Len(term'.row) - 1
    BY <1>5, <2>2, <2>3, <2>5
  <2>7. \E i \in 1 .. Len(term'.row) - 1 : term'.row[i] = "p" /\ term'.row[i + 1] = "q"
    BY <2>3, <2>4, <2>6
  <2> QED BY <1>2, <1>3, <1>4, <2>1, <2>7, PanicTexts DEF ReportInv, PanicInv, TtyInv
<1>8. CASE s = <<"newline">>
  <2>1. Head(s) = "newline" /\ Tail(s) = <<>> /\ "newline" \in Char
    BY <1>8, PanicTexts DEF Char
  <2>2. term'.above = term.row
    BY <1>2, <1>5, <2>1, ShownFacts
  <2>3. \E i \in 1 .. Len(term.row) - 1 : term.row[i] = "p" /\ term.row[i + 1] = "q"
    BY <1>1, <1>2, <1>3, <1>8 DEF ReportInv, TtyInv
  <2>4. OnTerm'
    BY <2>2, <2>3 DEF OnTerm
  <2> QED BY <1>2, <1>3, <1>4, <2>1, <2>4, PanicTexts DEF ReportInv, PanicInv, TtyInv
<1> QED BY <1>1, <1>2, <1>6, <1>7, <1>8 DEF ReportInv, PanicInv

\* Printing by any context: only the panic handler writes where its message stands
\* while it is unfinished.
LEMMA PrintsReports ==
  ASSUME TypeInv, LockInv, ReportInv, NEW c \in Ctx, Prints(c)
  PROVE  ReportInv'
<1>0. "panic" \in Ctx /\ None \notin Ctx
  BY ConsoleAssumption DEF Ctx
<1>1. CASE Lock(c)
  <2>1. /\ held[Dev(c)] = None /\ out[c] # None
        /\ held' = [held EXCEPT ![Dev(c)] = c] /\ UNCHANGED <<out, irq, panic, vga, term>>
    BY <1>1 DEF Lock, devVars
  <2>2. Dev(c) \in {"vga", "tty"}
    BY <2>1, MessageFacts
  <2>3. \A d \in {"vga", "tty"} : held[d] = "panic" => held'[d] = "panic"
    BY <1>0, <2>1, <2>2 DEF TypeInv
  <2>4. out["panic"] # None => out["panic"].dev \in {"vga", "tty"}
    BY <1>0, MessageFacts DEF Dev
  <2> QED BY <2>1, <2>3, <2>4, ReportKept
<1>2. CASE Unlock(c)
  <2>1. /\ c = Current /\ out[c] # None /\ held[Dev(c)] = c /\ out[c].text = <<>>
        /\ held' = [held EXCEPT ![Dev(c)] = None]
        /\ out' = [out EXCEPT ![c] = None] /\ UNCHANGED <<irq, panic, vga, term>>
    BY <1>2 DEF Unlock, devVars
  <2>2. Dev(c) \in {"vga", "tty"}
    BY <2>1, MessageFacts
  <2>3. CASE c # "panic"
    <3>1. \A d \in {"vga", "tty"} : held[d] = "panic" => held'[d] = "panic"
      BY <2>1, <2>2, <2>3 DEF TypeInv
    <3>2. out["panic"] # None => out["panic"].dev \in {"vga", "tty"}
      BY <1>0, MessageFacts DEF Dev
    <3>3. out'["panic"] = out["panic"]
      BY <1>0, <2>1, <2>3 DEF TypeInv
    <3> QED BY <2>1, <3>1, <3>2, <3>3, ReportKept
  <2>4. CASE c = "panic"
    <3>1. out'["panic"] = None
      BY <1>0, <2>1, <2>4 DEF TypeInv
    <3>2. panic \in {1, 2}
      BY <2>1, <2>4 DEF TypeInv, ReportInv, PanicInv
    <3>3. panic = 1 => OnVga
      BY <2>1, <2>4 DEF ReportInv, VgaInv
    <3>4. panic = 2 => OnTerm /\ (irq = "dead" => OnVga)
      BY <2>1, <2>4 DEF ReportInv, VgaInv, TtyInv
    <3>5. PanicInv'
      BY <3>1 DEF PanicInv
    <3>6. VgaInv'
      BY <2>1, <3>1, <3>2, <3>3, <3>4 DEF VgaInv, OnVga
    <3>7. TtyInv'
      BY <2>1, <3>1, <3>2, <3>4 DEF TtyInv, OnTerm
    <3> QED BY <3>5, <3>6, <3>7 DEF ReportInv
  <2> QED BY <2>3, <2>4
<1>3. CASE c = "panic" /\ (PutVga(c) \/ PutTty(c))
  BY <1>3, PanicPutsVga, PanicPutsTty
<1>4. CASE c # "panic" /\ (PutVga(c) \/ PutTty(c))
  <2>1. /\ c = Current /\ out[c] # None /\ held[out[c].dev] = c
        /\ UNCHANGED <<irq, panic, held>>
        /\ out'["panic"] = out["panic"]
    BY <1>0, <1>4, PutFacts
  <2>2. CASE c = "task"
    <3>1. panic = 0 /\ irq # "dead"
      BY <2>1, <2>2, CurrentFacts, ConsoleAssumption
    <3> QED BY <2>1, <3>1 DEF ReportInv, PanicInv, VgaInv, TtyInv
  <2>3. CASE c = "irq"
    <3>1. irq # "dead" /\ out[c].dev = "vga" /\ held["vga"] = "irq"
      BY <2>1, <2>3, CurrentFacts DEF LockInv
    <3>2. term' = term
      BY <1>4, <3>1 DEF PutVga, PutTty, Dev
    <3>3. PanicInv' /\ TtyInv'
      BY <2>1, <3>2 DEF ReportInv, PanicInv, TtyInv, OnTerm
    <3>4. panic = 1 /\ out["panic"] # None => out["panic"].text = PanicText
      BY <3>1 DEF ReportInv, PanicInv
    <3>5. VgaInv'
      BY <2>1, <3>1, <3>4, PanicTexts DEF VgaInv
    <3> QED BY <3>3, <3>5 DEF ReportInv
  <2> QED BY <1>4, <2>2, <2>3 DEF Ctx
<1> QED BY <1>1, <1>2, <1>3, <1>4 DEF Prints

\* Every other step.
LEMMA OthersReport ==
  ASSUME TypeInv, LockInv, ReportInv, TaskStep \/ HandlerStep \/ PanicStep
  PROVE  ReportInv'
<1>0. "panic" \in Ctx /\ None \notin Ctx /\ "irq" \in Ctx
  BY ConsoleAssumption DEF Ctx
<1>1. CASE TaskStep
  <2>1. UNCHANGED <<panic, vga, term, irq, held>> /\ out'["panic"] = out["panic"]
    BY <1>0, <1>1, TaskFacts
  <2> QED BY <2>1, ReportKept
<1>2. ASSUME NEW b \in Typed, Interrupt(b) PROVE ReportInv'
  BY <1>2, ReportKept, ConsoleAssumption DEF Interrupt, devVars
<1>3. CASE DropByte \/ AddByte \/ EndOfInterrupt
  <2>1. UNCHANGED <<panic, vga, term>> /\ irq' # "dead" /\ out'["panic"] = out["panic"]
    <3>1. DropByte => out'["panic"] = out["panic"]
      BY <1>0, Texts, PrintFacts DEF DropByte
    <3> QED BY <1>3, <3>1, ConsoleAssumption DEF DropByte, AddByte, EndOfInterrupt, devVars
  <2>2. /\ held["tty"] \in {None, "irq"}
        /\ held' = [held EXCEPT !["tty"] = "irq"] \/ held' = [held EXCEPT !["tty"] = None]
    BY <1>3 DEF DropByte, AddByte, EndOfInterrupt, HoldTty, LockInv
  <2>3. \A d \in {"vga", "tty"} : held[d] = "panic" => held'[d] = "panic"
    BY <1>0, <2>2 DEF TypeInv
  <2>4. out["panic"] # None => out["panic"].dev \in {"vga", "tty"}
    BY <1>0, MessageFacts DEF Dev
  <2> QED BY <2>1, <2>3, <2>4, ReportKept
<1>4. CASE WakePanics \/ \E d \in BOOLEAN : Panic(d)
  BY <1>4, PanicsReports DEF WakePanics, Panic
<1>5. CASE PanicNext
  <2>1. /\ Current = "panic" /\ out["panic"] = None /\ panic < 3 /\ panic' = panic + 1
        /\ UNCHANGED <<irq, vga, term>>
        /\ out' = IF panic = 1 THEN [out EXCEPT !["panic"] = Text(PanicOrder[2], PanicText)]
                  ELSE out
    BY <1>5 DEF PanicNext, devVars
  <2>2. panic \in {1, 2}
    BY <2>1, CurrentFacts DEF TypeInv
  <2>3. irq = "dead" => OnVga'
    BY <2>1 DEF ReportInv, VgaInv, OnVga
  <2>4. CASE panic = 1
    <3>1. panic' = 2 /\ out'["panic"] = Text(PanicOrder[2], PanicText)
      BY <1>0, <2>1, <2>4 DEF TypeInv
    <3>2. /\ out'["panic"].dev = "tty" /\ out'["panic"].text = PanicText
          /\ out'["panic"] # None
      BY <3>1, Texts, ConsoleAssumption DEF Text, Message
    <3> QED BY <2>1, <2>3, <3>1, <3>2, PanicTexts DEF ReportInv, PanicInv, VgaInv, TtyInv
  <2>5. CASE panic = 2
    <3>1. panic' = 3 /\ out'["panic"] = None
      BY <2>1, <2>5
    <3>2. OnTerm'
      BY <2>1, <2>5 DEF ReportInv, TtyInv, OnTerm
    <3> QED BY <2>1, <2>3, <3>1, <3>2 DEF ReportInv, PanicInv, VgaInv, TtyInv
  <2> QED BY <2>2, <2>4, <2>5
<1> QED BY <1>1, <1>2, <1>3, <1>4, <1>5 DEF HandlerStep, PanicStep

-----------------------------------------------------------------------------
(* What the terminal shows of the line *)

\* A prompt makes a row with nothing behind the cursor show the empty line.
LEMMA PromptShows ==
  ASSUME NEW row \in Seq(Char), NEW cursor \in Nat, cursor <= Len(row), Clean(row, cursor),
         NEW new \in Seq(Char), new[cursor + 1] = ">",
         Len(new) = IF cursor < Len(row) THEN Len(row) ELSE Len(row) + 1,
         \A i \in 1 .. Len(row) : i # cursor + 1 => new[i] = row[i]
  PROVE  Displays(new, cursor + 1, <<>>)
<1>1. Len(row) \in Nat /\ Len(new) \in Nat /\ Len(<<>>) = 0
  OBVIOUS
<1>2. \A i \in cursor + 2 .. Len(new) : new[i] = "blank"
  <2> SUFFICES ASSUME NEW i \in cursor + 2 .. Len(new) PROVE new[i] = "blank"
    OBVIOUS
  <2>1. i \in 1 .. Len(row) /\ i # cursor + 1 /\ i \in cursor + 1 .. Len(row)
    BY <1>1
  <2> QED BY <2>1 DEF Clean
<1> QED BY <1>1, <1>2 DEF Displays

\* The echo of a character.
LEMMA EchoShows ==
  ASSUME NEW row \in Seq(Char), NEW cursor \in Nat, NEW l \in Seq(Printable), l # <<>>,
         Displays(row, cursor, SubSeq(l, 1, Len(l) - 1)),
         NEW new \in Seq(Char), new[cursor + 1] = l[Len(l)],
         Len(new) = IF cursor < Len(row) THEN Len(row) ELSE Len(row) + 1,
         \A i \in 1 .. Len(row) : i # cursor + 1 => new[i] = row[i]
  PROVE  Displays(new, cursor + 1, l)
<1>1. PICK n \in Nat : n = Len(l) - 1
  BY LenProperties
<1>2. PICK k : k = SubSeq(l, 1, n)
  OBVIOUS
<1>3. k \in Seq(Printable) /\ Len(k) = n /\ \A i \in 1 .. n : k[i] = l[i]
  BY <1>1, <1>2
<1>4. Len(row) \in Nat /\ Len(new) \in Nat /\ Len(l) = n + 1
  BY <1>1
<1>5. PICK start : start = cursor - n
  OBVIOUS
<1>6. /\ start \in Nat /\ start > 0 /\ cursor <= Len(row) /\ row[start] = ">"
      /\ \A i \in 1 .. n : row[start + i] = k[i]
      /\ \A i \in cursor + 1 .. Len(row) : row[i] = "blank"
  <2>1. Displays(row, cursor, k)
    BY <1>1, <1>2
  <2>2. cursor - Len(k) = start
    BY <1>3, <1>5
  <2> QED BY <1>3, <1>5, <2>1, <2>2 DEF Displays
<1>7. start = cursor + 1 - Len(l) /\ cursor + 1 <= Len(new)
  BY <1>4, <1>5, <1>6
<1>8. new[start] = ">"
  <2>1. start \in 1 .. Len(row) /\ start # cursor + 1
    BY <1>4, <1>5, <1>6
  <2> QED BY <1>6, <2>1
<1>9. ASSUME NEW i \in 1 .. Len(l) PROVE new[start + i] = l[i]
  <2>1. CASE i = n + 1
    <3>1. start + i = cursor + 1
      BY <1>1, <1>5, <2>1
    <3> QED BY <1>4, <2>1, <3>1
  <2>2. CASE i # n + 1
    <3>1. i \in 1 .. n /\ start + i \in 1 .. Len(row) /\ start + i # cursor + 1
      BY <1>4, <1>5, <1>6, <2>2
    <3> QED BY <1>3, <1>6, <3>1
  <2> QED BY <2>1, <2>2
<1>10. ASSUME NEW i \in cursor + 1 + 1 .. Len(new) PROVE new[i] = "blank"
  <2>1. i \in 1 .. Len(row) /\ i # cursor + 1 /\ i \in cursor + 1 .. Len(row)
    BY <1>4, <1>6
  <2> QED BY <1>6, <2>1
<1> QED BY <1>6, <1>7, <1>8, <1>9, <1>10 DEF Displays

\* Erasing: the cursor moves over the last character, which a space replaces.
LEMMA EraseShows ==
  ASSUME NEW row \in Seq(Char), NEW cursor \in Nat, NEW l \in Seq(Printable),
         NEW b \in Printable, Displays(row, cursor, Append(l, b))
  PROVE  /\ cursor > 0 /\ cursor - 1 < Len(row)
         /\ Displays([row EXCEPT ![cursor] = "blank"], cursor - 1, l)
<1>1. PICK n \in Nat : n = Len(l)
  OBVIOUS
<1>2. PICK k : k = Append(l, b)
  OBVIOUS
<1>3. Len(k) = n + 1 /\ \A i \in 1 .. n : k[i] = l[i]
  BY <1>1, <1>2
<1>4. PICK start : start = cursor - (n + 1)
  OBVIOUS
<1>5. /\ start \in Nat /\ start > 0 /\ cursor <= Len(row) /\ row[start] = ">"
      /\ \A i \in 1 .. n : row[start + i] = l[i]
      /\ \A i \in cursor + 1 .. Len(row) : row[i] = "blank"
  BY <1>2, <1>3, <1>4 DEF Displays
<1>6. PICK new : new = [row EXCEPT ![cursor] = "blank"]
  OBVIOUS
<1>7. /\ Len(new) = Len(row) /\ Len(row) \in Nat /\ cursor \in 1 .. Len(row)
      /\ new[cursor] = "blank"
      /\ \A i \in 1 .. Len(row) : i # cursor => new[i] = row[i]
  BY <1>4, <1>5, <1>6
<1>8. start = cursor - 1 - Len(l) /\ cursor - 1 <= Len(new) /\ cursor - 1 < Len(row)
  BY <1>1, <1>4, <1>7
<1>9. new[start] = ">"
  BY <1>4, <1>5, <1>7
<1>10. ASSUME NEW i \in 1 .. Len(l) PROVE new[start + i] = l[i]
  <2>1. i \in 1 .. n /\ start + i \in 1 .. Len(row) /\ start + i # cursor
    BY <1>1, <1>4, <1>5, <1>7
  <2> QED BY <1>5, <1>7, <2>1
<1>11. ASSUME NEW i \in cursor - 1 + 1 .. Len(new) PROVE new[i] = "blank"
  <2>1. i \in 1 .. Len(row) /\ (i = cursor \/ i \in cursor + 1 .. Len(row))
    BY <1>7
  <2> QED BY <1>5, <1>7, <2>1
<1>12. Displays(new, cursor - 1, l)
  BY <1>5, <1>8, <1>9, <1>10, <1>11 DEF Displays
<1> QED BY <1>6, <1>7, <1>8, <1>12

\* Rows with the same characters show the same.
LEMMA SameRow ==
  ASSUME NEW row \in Seq(Char), NEW new \in Seq(Char), NEW cursor \in Nat,
         NEW l \in Seq(Printable), Len(new) = Len(row),
         \A i \in 1 .. Len(row) : new[i] = row[i], Displays(row, cursor, l)
  PROVE  Displays(new, cursor, l)
<1>1. new = row
  BY SeqEqual
<1> QED BY <1>1

\* The next character of what is to be printed is printed.
LEMMA ShowingStep ==
  ASSUME NEW t \in Terminal, t.cursor <= Len(t.row), NEW l \in Seq(Printable),
         NEW s \in Seq(Char), s # <<>>, Showing(t.row, t.cursor, l, s),
         NEW u, u = Shown(t, Head(s))
  PROVE  Showing(u.row, u.cursor, l, Tail(s))
<1>1. /\ t.row \in Seq(Char) /\ t.cursor \in Nat /\ Len(t.row) \in Nat
  BY DEF Terminal
<1>2. PICK ch \in Char : ch = Head(s)
  OBVIOUS
<1>3. /\ u \in Terminal /\ u.cursor <= Len(u.row) /\ u.row \in Seq(Char)
      /\ ch = "left" => /\ u.row = t.row
                        /\ u.cursor = IF t.cursor = 0 THEN 0 ELSE t.cursor - 1
      /\ ch \notin {"newline", "left"} =>
           /\ u.cursor = t.cursor + 1
           /\ Len(u.row) = IF t.cursor < Len(t.row) THEN Len(t.row) ELSE Len(t.row) + 1
           /\ u.row[t.cursor + 1] = ch
           /\ \A i \in 1 .. Len(t.row) : i # t.cursor + 1 => u.row[i] = t.row[i]
  <2>1. u = Shown(t, ch)
    BY <1>2
  <2>2. /\ u \in Terminal /\ u.cursor <= Len(u.row)
        /\ ch = "left" => /\ u.row = t.row
                          /\ u.cursor = IF t.cursor = 0 THEN 0 ELSE t.cursor - 1
    BY <2>1, ShownFacts
  <2>3. ch \notin {"newline", "left"} =>
          /\ u.cursor = t.cursor + 1
          /\ Len(u.row) = IF t.cursor < Len(t.row) THEN Len(t.row) ELSE Len(t.row) + 1
          /\ u.row[t.cursor + 1] = ch
          /\ \A i \in 1 .. Len(t.row) : i # t.cursor + 1 => u.row[i] = t.row[i]
    BY <2>1, ShownFacts
  <2>4. u.row \in Seq(Char)
    BY <2>2 DEF Terminal
  <2> QED BY <2>2, <2>3, <2>4
<1>4. CASE s = <<">">> /\ l = <<>> /\ Clean(t.row, t.cursor)
  <2>1. ch = ">" /\ Tail(s) = <<>>
    BY <1>2, <1>4
  <2>2. Displays(u.row, u.cursor, <<>>)
    BY <1>1, <1>3, <1>4, <2>1, PromptShows
  <2> QED BY <1>4, <2>1, <2>2 DEF Showing
<1>5. CASE /\ l # <<>> /\ s = <<l[Len(l)]>>
           /\ Displays(t.row, t.cursor, SubSeq(l, 1, Len(l) - 1))
  <2>1. ch = l[Len(l)] /\ Tail(s) = <<>>
    BY <1>2, <1>5
  <2>2. l[Len(l)] \in Printable
    BY <1>5
  <2>3. ch \notin {"newline", "left"}
    BY <2>1, <2>2, ConsoleAssumption DEF Printable
  <2>4. Displays(u.row, u.cursor, l)
    BY <1>1, <1>3, <1>5, <2>1, <2>3, EchoShows
  <2> QED BY <2>1, <2>4 DEF Showing
<1>6. ASSUME s = <<"left", "blank", "left">>, NEW b \in Printable,
             Displays(t.row, t.cursor, Append(l, b))
      PROVE  Showing(u.row, u.cursor, l, Tail(s))
  <2>1. ch = "left" /\ Tail(s) = <<"blank", "left">>
    BY <1>2, <1>6
  <2>2. /\ t.cursor > 0 /\ t.cursor - 1 < Len(t.row)
        /\ Displays([t.row EXCEPT ![t.cursor] = "blank"], t.cursor - 1, l)
    BY <1>1, <1>6, EraseShows
  <2>3. u.row = t.row /\ u.cursor = t.cursor - 1 /\ u.cursor + 1 = t.cursor
    BY <1>1, <1>3, <2>1, <2>2
  <2> QED BY <2>1, <2>2, <2>3 DEF Showing
<1>7. CASE /\ s = <<"blank", "left">> /\ t.cursor < Len(t.row)
           /\ Displays([t.row EXCEPT ![t.cursor + 1] = "blank"], t.cursor, l)
  <2>1. ch = "blank" /\ Tail(s) = <<"left">>
    BY <1>2, <1>7
  <2>2. PICK row : row = [t.row EXCEPT ![t.cursor + 1] = "blank"]
    OBVIOUS
  <2>3. /\ row \in Seq(Char) /\ Len(row) = Len(t.row) /\ row[t.cursor + 1] = "blank"
        /\ \A i \in 1 .. Len(t.row) : i # t.cursor + 1 => row[i] = t.row[i]
    <3>1. t.cursor + 1 \in 1 .. Len(t.row) /\ "blank" \in Char
      BY <1>1, <1>7 DEF Char
    <3> QED BY <1>1, <2>2, <3>1
  <2>4. Len(u.row) = Len(row) /\ \A i \in 1 .. Len(row) : u.row[i] = row[i]
    BY <1>3, <1>7, <2>1, <2>3
  <2>5. Displays(u.row, t.cursor, l)
    BY <1>1, <1>3, <1>7, <2>2, <2>3, <2>4, SameRow
  <2>6. u.cursor > 0 /\ u.cursor - 1 = t.cursor
    BY <1>1, <1>3, <2>1
  <2> QED BY <2>1, <2>5, <2>6 DEF Showing
<1>8. CASE s = <<"left">> /\ t.cursor > 0 /\ Displays(t.row, t.cursor - 1, l)
  <2>1. ch = "left" /\ Tail(s) = <<>>
    BY <1>2, <1>8
  <2>2. u.row = t.row /\ u.cursor = t.cursor - 1
    BY <1>1, <1>3, <1>8, <2>1
  <2> QED BY <1>8, <2>1, <2>2 DEF Showing
<1> QED BY <1>4, <1>5, <1>6, <1>7, <1>8 DEF Showing

\* What is left of a text without a move to the left has none.
LEMMA TailFacts ==
  ASSUME NEW s \in Seq(Char), s # <<>>, \A i \in DOMAIN s : s[i] # "left"
  PROVE  Head(s) # "left" /\ \A i \in DOMAIN Tail(s) : Tail(s)[i] # "left"
<1>1. /\ Tail(s) \in Seq(Char) /\ Len(Tail(s)) = Len(s) - 1 /\ Len(s) \in Nat
      /\ \A i \in 1 .. Len(Tail(s)) : Tail(s)[i] = s[i + 1]
      /\ DOMAIN s = 1 .. Len(s) /\ DOMAIN Tail(s) = 1 .. Len(Tail(s))
  BY HeadTailProperties
<1>2. Head(s) = s[1] /\ Len(s) > 0
  BY <1>1
<1> QED BY <1>1, <1>2

\* Without one, nothing comes to stand behind the cursor.
LEMMA CleanKept ==
  ASSUME NEW t \in Terminal, t.cursor <= Len(t.row), Clean(t.row, t.cursor),
         NEW ch \in Char, ch # "left", NEW u, u = Shown(t, ch)
  PROVE  Clean(u.row, u.cursor)
<1>1. t.row \in Seq(Char) /\ t.cursor \in Nat /\ Len(t.row) \in Nat
  BY DEF Terminal
<1>2. CASE ch = "newline"
  <2>1. u.row = <<>> /\ u.cursor = 0
    BY <1>2, ShownFacts
  <2> QED BY <2>1 DEF Clean
<1>3. CASE ch # "newline"
  <2>1. /\ u.cursor = t.cursor + 1
        /\ Len(u.row) = IF t.cursor < Len(t.row) THEN Len(t.row) ELSE Len(t.row) + 1
        /\ \A i \in 1 .. Len(t.row) : i # t.cursor + 1 => u.row[i] = t.row[i]
    BY <1>3, ShownFacts
  <2>2. ASSUME NEW i \in u.cursor + 1 .. Len(u.row) PROVE u.row[i] = "blank"
    <3>1. i \in 1 .. Len(t.row) /\ i # t.cursor + 1 /\ i \in t.cursor + 1 .. Len(t.row)
      BY <1>1, <2>1
    <3> QED BY <2>1, <3>1 DEF Clean
  <2> QED BY <2>2 DEF Clean
<1> QED BY <1>2, <1>3

\* A row that shows a line has nothing behind the cursor.
LEMMA DisplaysClean ==
  ASSUME NEW row, NEW cursor, NEW l, Displays(row, cursor, l)
  PROVE  Clean(row, cursor)
BY DEF Displays, Clean

\* Steps that concern neither the terminal nor the line.
LEMMA LineKept ==
  ASSUME LineInv, UNCHANGED <<panic, pc, line, term>>, out'["task"] = out["task"]
  PROVE  LineInv'
BY DEF LineInv

\* Printing: only the task prints on the serial line while there is no panic.
LEMMA PrintsLine ==
  ASSUME TypeInv, LockInv, PanicInv, LineInv, NEW c \in Ctx, Prints(c)
  PROVE  LineInv'
<1>0. "task" \in Ctx
  BY DEF Ctx
<1>1. UNCHANGED <<pc, line, panic>>
  BY PutVgaFacts DEF Prints, Lock, PutVga, PutTty, Unlock, taskVars
<1>2. CASE Lock(c)
  BY <1>1, <1>2, LineKept DEF Lock, devVars
<1>3. CASE Unlock(c)
  <2>1. /\ out[c].text = <<>> /\ out[c] # None
        /\ out' = [out EXCEPT ![c] = None] /\ term' = term
    BY <1>3 DEF Unlock, devVars
  <2>2. CASE c # "task"
    <3>1. out'["task"] = out["task"]
      BY <1>0, <2>1, <2>2 DEF TypeInv
    <3> QED BY <1>1, <2>1, <3>1, LineKept
  <2>3. CASE c = "task"
    <3>1. out'["task"] = None
      BY <1>0, <2>1, <2>3 DEF TypeInv
    <3>2. Showing(term.row, term.cursor, line, <<>>) =>
            Displays(term.row, term.cursor, line)
      BY DEF Showing
    <3> QED BY <1>1, <2>1, <2>3, <3>1, <3>2 DEF LineInv
  <2> QED BY <2>2, <2>3
<1>4. CASE PutVga(c)
  <2>1. /\ out[c] # None /\ out'[c] # None /\ out'[c].dev = out[c].dev /\ out[c].text # <<>>
        /\ out'[c].text = Tail(out[c].text) /\ \A o \in Ctx : o # c => out'[o] = out[o]
        /\ out[c].dev = "vga" /\ term' = term
    BY <1>4, PutFacts DEF PutVga, Dev
  <2>2. CASE c # "task"
    BY <1>0, <1>1, <2>1, <2>2, LineKept
  <2>3. CASE c = "task"
    <3>1. out["task"].text \in Seq(Char)
      BY <1>0, <2>1, <2>3, MessageFacts
    <3>2. (\A i \in DOMAIN out["task"].text : out["task"].text[i] # "left") =>
            \A i \in DOMAIN Tail(out["task"].text) : Tail(out["task"].text)[i] # "left"
      BY <2>1, <2>3, <3>1, TailFacts
    <3> QED BY <1>1, <2>1, <2>3, <3>2 DEF LineInv
  <2> QED BY <2>2, <2>3
<1>5. CASE PutTty(c) /\ panic = 0
  <2>1. /\ out[c] # None /\ out'[c] # None /\ out'[c].dev = out[c].dev /\ out[c].text # <<>>
        /\ out'[c].text = Tail(out[c].text) /\ \A o \in Ctx : o # c => out'[o] = out[o]
        /\ out[c].dev = "tty" /\ term' = Shown(term, Head(out[c].text))
    BY <1>5, PutFacts DEF PutTty, Dev
  <2>2. c = "task"
    BY <1>5, <2>1 DEF LockInv, PanicInv, Ctx
  <2>3. PICK s \in Seq(Char) : s = out["task"].text
    BY <1>0, <2>1, <2>2, MessageFacts
  <2>4. s # <<>> /\ term' = Shown(term, Head(s)) /\ out'["task"].text = Tail(s)
    BY <2>1, <2>2, <2>3
  <2>5. /\ term \in Terminal /\ term.cursor <= Len(term.row) /\ line \in Seq(Printable)
        /\ Head(s) \in Char
    BY <2>4 DEF TypeInv
  <2>6. CASE pc \in {"prompt", "line"}
    <3>1. Clean(term.row, term.cursor) /\ \A i \in DOMAIN s : s[i] # "left"
      BY <1>5, <2>1, <2>2, <2>3, <2>6 DEF LineInv
    <3>2. Head(s) # "left" /\ \A i \in DOMAIN Tail(s) : Tail(s)[i] # "left"
      BY <2>4, <3>1, TailFacts
    <3>3. Clean(term'.row, term'.cursor)
      BY <2>4, <2>5, <3>1, <3>2, CleanKept
    <3> QED BY <1>1, <2>4, <2>6, <3>2, <3>3 DEF LineInv
  <2>7. CASE pc \in {"read", "pending"}
    <3>1. Showing(term.row, term.cursor, line, s)
      BY <1>5, <2>1, <2>2, <2>3, <2>7 DEF LineInv
    <3>2. Showing(term'.row, term'.cursor, line, Tail(s))
      BY <2>4, <2>5, <3>1, ShowingStep
    <3> QED BY <1>1, <2>1, <2>2, <2>4, <2>7, <3>2 DEF LineInv
  <2> QED BY <2>6, <2>7 DEF TypeInv
<1>6. CASE panic # 0
  BY <1>1, <1>6 DEF LineInv
<1> QED BY <1>2, <1>3, <1>4, <1>5, <1>6 DEF Prints

\* readline changes the line and starts to print what makes the terminal show it.
LEMMA TaskLine ==
  ASSUME TypeInv, LineInv, TaskStep
  PROVE  LineInv'
<1> USE DEF TaskRuns, Reads, readVars, taskVars, lockVars, devVars
<1>0. "task" \in Ctx
  BY DEF Ctx
<1>1. panic = 0 /\ panic' = panic /\ term' = term /\ out["task"] = None
  BY TaskFacts
<1>2. /\ pc \in {"prompt", "line"} => Clean(term.row, term.cursor)
      /\ pc \in {"read", "pending"} => Displays(term.row, term.cursor, line)
  BY <1>1 DEF LineInv
<1>3. \A d \in {"vga", "tty"}, s \in Seq(Char) : PrintFrom("task", d, s) =>
        out'["task"] # None /\ out'["task"].dev = d /\ out'["task"].text = s
  BY <1>0, PrintFacts
<1>4. CASE Prompt
  <2>1. /\ out'["task"].dev = "tty" /\ out'["task"].text = <<">">> /\ out'["task"] # None
        /\ line' = <<>> /\ pc' = "read" /\ pc = "prompt"
    BY <1>3, <1>4, Texts DEF Prompt
  <2>2. Showing(term.row, term.cursor, <<>>, <<">">>)
    BY <1>2, <2>1 DEF Showing
  <2> QED BY <1>1, <2>1, <2>2 DEF LineInv
<1>5. CASE Await \/ Ignore
  <2>1. pc \in {"read", "pending"} /\ pc' \in {"read", "pending"} /\ UNCHANGED <<line, out>>
    BY <1>5 DEF Await, Ignore, Ready
  <2> QED BY <1>1, <1>2, <2>1 DEF LineInv
<1>6. CASE Enter
  <2>1. /\ out'["task"].text = <<"newline">> /\ pc' = "line"
        /\ pc \in {"read", "pending"}
    BY <1>3, <1>6, Texts DEF Enter, Ready
  <2>2. Clean(term.row, term.cursor)
    BY <1>2, <2>1, DisplaysClean
  <2> QED BY <1>1, <2>1, <2>2 DEF LineInv
<1>7. CASE Erase
  <2>1. /\ out'["task"].dev = "tty" /\ out'["task"].text = <<"left", "blank", "left">>
        /\ out'["task"] # None /\ pc' = "read" /\ pc \in {"read", "pending"}
        /\ line # <<>> /\ line' = Front(line)
    BY <1>3, <1>7, Texts DEF Erase, Ready, CanErase
  <2>2. line \in Seq(Printable)
    BY DEF TypeInv
  <2>3. line[Len(line)] \in Printable /\ line = Append(Front(line), line[Len(line)])
    BY <2>1, <2>2 DEF Front
  <2>4. Showing(term.row, term.cursor, Front(line), <<"left", "blank", "left">>)
    BY <1>2, <2>1, <2>3 DEF Showing
  <2> QED BY <1>1, <2>1, <2>4 DEF LineInv
<1>8. ASSUME NEW b \in Typed, Echo(b) PROVE LineInv'
  <2>1. <<b>> \in Seq(Char) /\ b \in Printable
    BY <1>8 DEF Echo, Printable, Char
  <2>2. /\ out'["task"].dev = "tty" /\ out'["task"].text = <<b>> /\ out'["task"] # None
        /\ pc' = "read" /\ pc \in {"read", "pending"} /\ line' = Append(line, b)
    BY <1>3, <1>8, <2>1 DEF Echo, Ready
  <2>3. line \in Seq(Printable)
    BY DEF TypeInv
  <2>4. PICK k : k = Append(line, b)
    OBVIOUS
  <2>5. k # <<>> /\ k[Len(k)] = b /\ SubSeq(k, 1, Len(k) - 1) = line
    <3>1. Len(k) = Len(line) + 1 /\ k[Len(k)] = b /\ Front(k) = line
      BY <2>1, <2>3, <2>4 DEF Front
    <3> QED BY <2>3, <2>4, <3>1 DEF Front
  <2>6. Showing(term.row, term.cursor, k, <<b>>)
    BY <1>2, <2>2, <2>5 DEF Showing
  <2> QED BY <1>1, <2>2, <2>4, <2>6 DEF LineInv
<1>9. ASSUME NEW b \in Typed, TooLong(b) PROVE LineInv'
  <2>1. /\ out'["task"].text = <<"!">> /\ pc' = "prompt"
        /\ pc \in {"read", "pending"}
    BY <1>3, <1>9, Texts DEF TooLong, Ready
  <2>2. Clean(term.row, term.cursor)
    BY <1>2, <2>1, DisplaysClean
  <2> QED BY <1>1, <2>1, <2>2 DEF LineInv
<1>10. CASE PrintLine
  <2>1. PICK s : s = Append(line, "newline")
    OBVIOUS
  <2>2. s \in Seq(Char) /\ \A i \in DOMAIN s : s[i] # "left"
    <3>1. line \in Seq(Char) /\ \A i \in DOMAIN line : line[i] # "left"
      BY ConsoleAssumption DEF TypeInv, Printable, Char
    <3> QED BY <2>1, <3>1 DEF Char
  <2>3. out'["task"].text = s /\ pc' = "prompt" /\ pc = "line"
    BY <1>3, <1>10, <2>1, <2>2 DEF PrintLine
  <2> QED BY <1>1, <1>2, <2>2, <2>3 DEF LineInv
<1>11. CASE Tick
  <2>1. /\ out'["task"].dev = "vga" /\ UNCHANGED <<pc, line>> /\ pc = "pending"
    BY <1>3, <1>11, Texts DEF Tick
  <2> QED BY <1>1, <1>2, <2>1 DEF LineInv
<1> QED BY <1>4, <1>5, <1>6, <1>7, <1>8, <1>9, <1>10, <1>11 DEF TaskStep

\* The handlers leave the line and the terminal alone.
LEMMA OthersLine ==
  ASSUME TypeInv, LineInv, HandlerStep \/ PanicStep
  PROVE  LineInv'
<1>0. "task" \in Ctx /\ "irq" \in Ctx
  BY DEF Ctx
<1>1. CASE panic' = 0
  <2>1. HandlerStep /\ ~WakePanics
    BY <1>1 DEF HandlerStep, PanicStep, WakePanics, Panic, Panics, PanicNext, TypeInv,
                Current
  <2>2. UNCHANGED <<panic, pc, line, term>>
    BY <2>1 DEF HandlerStep, Interrupt, DropByte, AddByte, EndOfInterrupt, taskVars, devVars
  <2>3. out'["task"] = out["task"]
    <3>1. DropByte => out'["task"] = out["task"]
      BY <1>0, Texts, PrintFacts DEF DropByte
    <3> QED BY <2>1, <3>1 DEF HandlerStep, Interrupt, AddByte, EndOfInterrupt
  <2> QED BY <2>2, <2>3, LineKept
<1>2. CASE panic' # 0
  BY <1>2 DEF LineInv
<1> QED BY <1>1, <1>2

-----------------------------------------------------------------------------
(* Theorems *)

\* At the start nothing is held, printed or reported.
LEMMA ConsoleInit ==
  ASSUME Init PROVE ConsoleInv
<1> USE DEF Init
<1>1. TypeInv
  <2>1. held \in [{"vga", "tty"} -> Ctx \cup {None}]
    OBVIOUS
  <2>2. vga \in Screen
    BY ConsoleAssumption DEF Screen, Char
  <2>3. term \in Terminal /\ term.cursor <= Len(term.row)
    BY DEF Terminal
  <2>4. line \in Seq(Printable) /\ queue \in Seq(Typed) /\ panic \in 0 .. 3
    OBVIOUS
  <2>5. out \in [Ctx -> Message \cup {None}] /\ saved \in [Ctx -> BOOLEAN]
    OBVIOUS
  <2>6. pc \in {"prompt", "read", "pending", "line"} /\ masked \in BOOLEAN
        /\ irq \in Typed \cup {"added", "dead", None}
    OBVIOUS
  <2> QED BY <2>1, <2>2, <2>3, <2>4, <2>5, <2>6 DEF TypeInv
<1>2. LockInv
  BY ConsoleAssumption DEF LockInv, Ctx
<1>3. PanicInv /\ VgaInv /\ TtyInv
  BY ConsoleAssumption DEF PanicInv, VgaInv, TtyInv, Ctx
<1>4. LineInv
  BY DEF LineInv, Clean, Ctx
<1> QED BY <1>1, <1>2, <1>3, <1>4 DEF ConsoleInv

\* Every step keeps the invariant.
LEMMA ConsoleStep ==
  ASSUME ConsoleInv, [Next]_vars PROVE ConsoleInv'
<1>1. TypeInv /\ LockInv /\ ReportInv /\ LineInv /\ PanicInv
  BY DEF ConsoleInv, ReportInv
<1>2. ASSUME NEW c \in Ctx, Prints(c) PROVE ConsoleInv'
  BY <1>1, <1>2, PrintsType, PrintsLock, PrintsReports, PrintsLine DEF ConsoleInv, ReportInv
<1>3. CASE TaskStep
  BY <1>1, <1>3, TaskFacts, TaskLock, OthersReport, TaskLine DEF ConsoleInv, ReportInv
<1>4. CASE HandlerStep
  BY <1>1, <1>4, HandlerType, HandlerLock, OthersReport, OthersLine
     DEF ConsoleInv, ReportInv
<1>5. CASE PanicStep
  BY <1>1, <1>5, PanicType, PanicLock, OthersReport, OthersLine DEF ConsoleInv, ReportInv
<1>6. CASE UNCHANGED vars
  <2>1. TypeInv' /\ LockInv'
    BY <1>1, <1>6 DEF vars, TypeInv, LockInv
  <2>2. ReportInv'
    BY <1>1, <1>6, ReportKept DEF vars
  <2>3. LineInv'
    BY <1>1, <1>6, LineKept DEF vars
  <2> QED BY <2>1, <2>2, <2>3 DEF ConsoleInv, ReportInv
<1> QED BY <1>2, <1>3, <1>4, <1>5, <1>6, NextCases

(* For every screen, buffer and queue, ConsoleInv holds in every reachable *)
(* state.                                                                  *)
THEOREM ConsoleInvariance == Spec => []ConsoleInv
BY ConsoleInit, ConsoleStep, PTL DEF Spec

(* While readline waits, the terminal shows the line that is in the buffer *)
(* (readline, handle_serial), whatever is typed and however it interleaves *)
(* with com1_interrupt_handler and the other prints.                       *)
THEOREM TerminalShowsLine == Spec => []LineIsShown
<1>1. ConsoleInv => LineIsShown
  BY DEF ConsoleInv, LineInv, LineIsShown
<1> QED BY <1>1, ConsoleInvariance, PTL

(* A panic's message is on the screen or has gone out on the serial line   *)
(* once its handler loops, or spins on SERIAL_TTY for ever (main.rs,       *)
(* panic): the screen comes first, and it is locked by nobody.             *)
THEOREM PanicIsSeen == Spec => []PanicReported
<1>1. ConsoleInv => PanicReported
  <2> SUFFICES ASSUME ConsoleInv, panic = 3 \/ Spins PROVE OnVga \/ OnTerm
    BY DEF PanicReported
  <2>1. CASE panic = 3
    BY <2>1 DEF ConsoleInv, TtyInv
  <2>2. CASE Spins
    <3>1. /\ Current = "panic" /\ out["panic"] # None
          /\ held[Dev("panic")] \notin {None, "panic"} /\ "panic" \in Ctx
      BY <2>2 DEF Spins, Ctx
    <3>2. Dev("panic") \in {"vga", "tty"} /\ Dev("panic") = out["panic"].dev
      BY <3>1, MessageFacts DEF ConsoleInv, Dev
    <3>3. irq \in {None, "dead"} /\ panic > 0
      BY <3>1, CurrentFacts DEF ConsoleInv
    <3>4. held[Dev("panic")] = "irq"
      BY <3>1, <3>2, <3>3 DEF ConsoleInv, TypeInv, LockInv, Ctx
    <3>5. Dev("panic") = "tty" /\ irq = "dead"
      BY <3>2, <3>3, <3>4, ConsoleAssumption DEF ConsoleInv, LockInv
    <3>6. panic # 1
      BY <3>1, <3>2, <3>5 DEF ConsoleInv, PanicInv
    <3> QED BY <3>5, <3>6 DEF ConsoleInv, VgaInv
  <2> QED BY <2>1, <2>2
<1> QED BY <1>1, ConsoleInvariance, PTL

=============================================================================
