----------------------- MODULE InterruptMutexProofs -----------------------
(***************************************************************************)
(* Proofs about InterruptMutex: no context ever spins and the interrupt    *)
(* flag is where it should be, for every set of locks and every nesting.   *)
(***************************************************************************)
EXTENDS InterruptMutex, SequenceTheorems, TLAPS

-----------------------------------------------------------------------------
(* The stack of guards *)

\* What a new guard does to the stacks.
LEMMA PushStack ==
  ASSUME TypeOK, NEW c \in Context, NEW g \in Guard,
         guards' = [guards EXCEPT ![c] = Append(@, g)]
  PROVE  /\ guards' \in [Context -> Seq(Guard)]
         /\ Len(guards[c]) \in Nat
         /\ DOMAIN guards[c] = 1 .. Len(guards[c])
         /\ DOMAIN guards'[c] = 1 .. Len(guards[c]) + 1
         /\ guards'[c][Len(guards[c]) + 1] = g
         /\ \A i \in 1 .. Len(guards[c]) : guards'[c][i] = guards[c][i]
         /\ \A d \in Context \ {c} : guards'[d] = guards[d]
<1>1. guards \in [Context -> Seq(Guard)] /\ guards[c] \in Seq(Guard)
  BY DEF TypeOK
<1>2. /\ Append(guards[c], g) \in Seq(Guard)
      /\ Len(Append(guards[c], g)) = Len(guards[c]) + 1
      /\ Append(guards[c], g)[Len(guards[c]) + 1] = g
      /\ \A i \in 1 .. Len(guards[c]) : Append(guards[c], g)[i] = guards[c][i]
  BY <1>1, AppendProperties
<1>3. Len(guards[c]) \in Nat /\ DOMAIN guards[c] = 1 .. Len(guards[c])
  BY <1>1, LenProperties
<1>4. DOMAIN Append(guards[c], g) = 1 .. Len(guards[c]) + 1
  BY <1>2, LenProperties
<1> QED BY <1>1, <1>2, <1>3, <1>4

\* What dropping the innermost guard does to the stacks.
LEMMA PopStack ==
  ASSUME TypeOK, NEW c \in Context, guards[c] # <<>>, guards' = Popped(c)
  PROVE  /\ guards' \in [Context -> Seq(Guard)]
         /\ Len(guards[c]) \in Nat \ {0}
         /\ DOMAIN guards[c] = 1 .. Len(guards[c])
         /\ DOMAIN guards'[c] = 1 .. Len(guards[c]) - 1
         /\ \A i \in 1 .. Len(guards[c]) - 1 : guards'[c][i] = guards[c][i]
         /\ \A d \in Context \ {c} : guards'[d] = guards[d]
         /\ Innermost(c) = guards[c][Len(guards[c])] /\ Innermost(c) \in Guard
<1> DEFINE n == Len(guards[c])
<1> DEFINE p == SubSeq(guards[c], 1, n - 1)
<1>1. guards \in [Context -> Seq(Guard)] /\ guards[c] \in Seq(Guard)
  BY DEF TypeOK
<1>2. n \in Nat \ {0} /\ DOMAIN guards[c] = 1 .. n
      /\ \A i \in 1 .. n : guards[c][i] \in Guard
  BY <1>1, LenProperties, EmptySeq
<1>3. /\ p \in Seq(Guard) /\ Len(p) = n - 1
      /\ \A i \in 1 .. n - 1 : p[i] = guards[c][i]
  <2>1. 1 \in Int /\ n - 1 \in Int /\ \A i \in 1 .. n - 1 : guards[c][i] \in Guard
    BY <1>2
  <2>2. /\ p \in Seq(Guard)
        /\ Len(p) = IF 1 <= n - 1 THEN (n - 1) - 1 + 1 ELSE 0
        /\ \A i \in 1 .. (n - 1) - 1 + 1 : p[i] = guards[c][1 + i - 1]
    BY <2>1, SubSeqProperties
  <2> QED BY <2>2, <1>2
<1>4. DOMAIN p = 1 .. n - 1
  BY <1>3, LenProperties
<1>5. guards' = [guards EXCEPT ![c] = p]
  BY DEF Popped
<1>6. Innermost(c) = guards[c][n] /\ guards[c][n] \in Guard
  BY <1>2 DEF Innermost
<1> QED BY <1>1, <1>2, <1>3, <1>4, <1>5, <1>6

-----------------------------------------------------------------------------
(* The invariant is inductive *)

\* The initial state satisfies the invariant.
LEMMA InitIInv == Init => IInv
<1> SUFFICES ASSUME Init PROVE IInv
  OBVIOUS
<1>1. TypeOK
  <2>1. guards \in [Context -> Seq(Guard)]
    BY EmptySeq DEF Init
  <2>2. \A c \in Context, l \in Lock : ~Holds(c, l)
    BY DEF Init, Holds
  <2> QED BY <2>1, <2>2 DEF Init, TypeOK, Context
<1> QED
  BY <1>1 DEF Init, IInv, GuardInv, FlagInv, HandlerInv, Context, MainFlag,
     NoIntGuard, Holds, IsInt

\* Every step preserves the types.
LEMMA TypeStep ==
  IInv /\ [Next]_vars => TypeOK'
<1> SUFFICES ASSUME IInv, [Next]_vars PROVE TypeOK'
  OBVIOUS
<1> USE LockAssumption DEF Context, Lock
<1>1. ASSUME NEW c \in Context, NEW l \in Lock, LockBegin(c, l) PROVE TypeOK'
  BY <1>1
    DEF LockBegin, Goto, At, IInv, TypeOK, Holds
<1>2. ASSUME NEW c \in Context, DisableIfEnabled(c) PROVE TypeOK'
  BY <1>2
    DEF DisableIfEnabled, Goto, At, IInv, TypeOK, Holds
<1>3. ASSUME NEW c \in Context, Acquire(c) PROVE TypeOK'
  <2> DEFINE g == [lock |-> want[c], saved_int |-> saved[c]]
  <2> DEFINE n == Len(guards[c])
  <2>1. TypeOK /\ g \in Guard /\ guards' = [guards EXCEPT ![c] = Append(@, g)]
    BY <1>3 DEF IInv, TypeOK, Guard, Acquire
  <2>2. /\ guards' \in [Context -> Seq(Guard)]
        /\ n \in Nat /\ DOMAIN guards[c] = 1 .. n
        /\ DOMAIN guards'[c] = 1 .. n + 1 /\ guards'[c][n + 1] = g
        /\ \A i \in 1 .. n : guards'[c][i] = guards[c][i]
        /\ \A d \in Context \ {c} : guards'[d] = guards[d]
    BY <2>1, PushStack
  <2> HIDE DEF n
  <2>3. \A d \in Context, l \in Lock :
          Holds(d, l)' <=> Holds(d, l) \/ (d = c /\ l = want[c])
    <3>1. \A l \in Lock : Holds(c, l)' <=> Holds(c, l) \/ l = want[c]
      <4>1. n + 1 \in 1 .. n + 1 /\ 1 .. n + 1 = (1 .. n) \cup {n + 1}
        BY <2>2
      <4> QED BY <2>2, <4>1 DEF Holds
    <3> QED BY <2>2, <3>1 DEF Holds
  <2>4. held' = {l \in Lock : \E d \in Context : Holds(d, l)'}
    <3>1. held = {l \in Lock : \E d \in Context : Holds(d, l)} /\ want[c]
        \in Lock
      BY DEF IInv, TypeOK
    <3> QED BY <2>3, <3>1, <1>3 DEF Acquire
  <2> QED BY <2>2, <2>4, <1>3 DEF Acquire, At, Goto, IInv, TypeOK
<1>4. ASSUME NEW c \in Context, Release(c) PROVE TypeOK'
  <2> DEFINE n == Len(guards[c])
  <2>1. TypeOK /\ guards[c] # <<>> /\ guards' = Popped(c)
    BY <1>4 DEF IInv, Release
  <2>2. /\ guards' \in [Context -> Seq(Guard)]
        /\ n \in Nat \ {0} /\ DOMAIN guards[c] = 1 .. n
        /\ DOMAIN guards'[c] = 1 .. n - 1
        /\ \A i \in 1 .. n - 1 : guards'[c][i] = guards[c][i]
        /\ \A d \in Context \ {c} : guards'[d] = guards[d]
        /\ Innermost(c) = guards[c][n] /\ Innermost(c) \in Guard
    BY <2>1, PopStack
  <2> HIDE DEF n
  <2>3. \A d \in Context, l \in Lock :
          Holds(d, l)' <=> Holds(d, l) /\ ~(d = c /\ l = Innermost(c).lock)
    <3>1. \A i \in 1 .. n - 1 : guards[c][i].lock # Innermost(c).lock
      BY <2>2 DEF IInv, GuardInv
    <3>2. 1 .. n = (1 .. n - 1) \cup {n}
      BY <2>2
    <3>3. \A l \in Lock : Holds(c, l)' <=> Holds(c, l) /\ l # Innermost(c).lock
      BY <2>2, <3>1, <3>2 DEF Holds
    <3>4. \A d \in Context \ {c}, l \in Lock : Holds(d, l)' <=> Holds(d, l)
      BY <2>2 DEF Holds
    <3> QED BY <3>3, <3>4
  <2>4. \A d \in Context \ {c} : ~Holds(d, Innermost(c).lock)
    <3>1. CASE c = "main"
      BY <3>1, <1>4 DEF IInv, HandlerInv, Release, At, Holds
    <3>2. CASE c = "irq"
      <4>1. Innermost(c).lock \in IntLocks
        BY <2>2, <3>2 DEF IInv, HandlerInv, IsInt
      <4>2. MainFlag
        BY <3>2, <1>4 DEF Release, At, MainFlag
      <4> QED BY <3>2, <4>1, <4>2 DEF IInv, FlagInv, NoIntGuard, IsInt, Holds
    <3> QED BY <3>1, <3>2
  <2>5. held' = {l \in Lock : \E d \in Context : Holds(d, l)'}
    <3>1. held = {l \in Lock : \E d \in Context : Holds(d, l)}
      BY DEF IInv, TypeOK
    <3> QED BY <2>3, <2>4, <3>1, <1>4 DEF Release
  <2>6. saved' \in [Context -> BOOLEAN]
    BY <2>2, <1>4 DEF Release, Guard, IInv, TypeOK
  <2> QED BY <2>2, <2>5, <2>6, <1>4 DEF Release, At, Goto, IInv, TypeOK
<1>5. ASSUME NEW c \in Context, EnableIfSaved(c) PROVE TypeOK'
  BY <1>5
    DEF EnableIfSaved, Goto, At, IInv, TypeOK, Holds
<1>6. ASSUME NEW l \in Lock, PlainLock(l) PROVE TypeOK'
  BY <1>6
    DEF PlainLock, Goto, At, IInv, TypeOK, Holds
<1>7. ASSUME NEW b \in BOOLEAN, SetFlag(b) PROVE TypeOK'
  BY <1>7
    DEF SetFlag, At, IInv, TypeOK, Holds
<1>8. CASE Irq
  BY <1>8
    DEF Irq, IInv, TypeOK, Holds
<1>9. CASE Iret
  BY <1>9
    DEF Iret, At, IInv, TypeOK, Holds
<1>10. CASE UNCHANGED vars
  BY <1>10
    DEF vars, IInv, TypeOK, Holds
<1> QED
  BY <1>1, <1>2, <1>3, <1>4, <1>5, <1>6, <1>7, <1>8, <1>9, <1>10 DEF Next, Drop

\* Every step preserves the shape of the stacks.
LEMMA GuardStep ==
  IInv /\ [Next]_vars => GuardInv'
<1> SUFFICES ASSUME IInv, [Next]_vars PROVE GuardInv'
  OBVIOUS
<1> USE LockAssumption DEF Context, Lock
<1>1. ASSUME NEW c \in Context, NEW l \in Lock, LockBegin(c, l) PROVE GuardInv'
  BY <1>1
    DEF LockBegin, Goto, At, IInv, TypeOK, GuardInv, Holds, IsInt
<1>2. ASSUME NEW c \in Context, DisableIfEnabled(c) PROVE GuardInv'
  BY <1>2
    DEF DisableIfEnabled, Goto, At, IInv, TypeOK, GuardInv, Holds, IsInt
<1>3. ASSUME NEW c \in Context, Acquire(c) PROVE GuardInv'
  <2> DEFINE g == [lock |-> want[c], saved_int |-> saved[c]]
  <2> DEFINE n == Len(guards[c])
  <2>1. TypeOK /\ g \in Guard /\ guards' = [guards EXCEPT ![c] = Append(@, g)]
    BY <1>3 DEF IInv, TypeOK, Guard, Acquire
  <2>2. /\ guards' \in [Context -> Seq(Guard)]
        /\ n \in Nat /\ DOMAIN guards[c] = 1 .. n
        /\ DOMAIN guards'[c] = 1 .. n + 1 /\ guards'[c][n + 1] = g
        /\ \A i \in 1 .. n : guards'[c][i] = guards[c][i]
        /\ \A d \in Context \ {c} : guards'[d] = guards[d]
    BY <2>1, PushStack
  <2> HIDE DEF n
  <2>3. want[c] \notin held /\ ~Holds(c, want[c])
    BY <1>3 DEF Acquire, At, IInv, GuardInv
  <2>4. \A i \in 1 .. n : guards[c][i].lock # want[c]
    BY <2>2, <2>3 DEF Holds
  <2>5. saved[c] => want[c] \in IntLocks /\ \A i \in 1 .. n : ~IsInt(c, i)
    BY <2>2, <1>3 DEF Acquire, At, IInv, FlagInv, HandlerInv, NoIntGuard
  <2>6. \A i \in 1 .. n + 1 : i \in 1 .. n \/ i = n + 1
    BY <2>2
  <2>7. \A i, j \in 1 .. n + 1 :
          guards'[c][i].lock = guards'[c][j].lock => i = j
    <3>1. \A i, j \in 1 .. n : guards[c][i].lock = guards[c][j].lock => i = j
      BY <2>2 DEF IInv, GuardInv
    <3>2. \A i \in 1 .. n : guards'[c][i].lock = guards[c][i].lock
      BY <2>2
    <3>3. guards'[c][n + 1].lock = want[c]
      BY <2>2
    <3> QED BY <2>4, <2>6, <3>1, <3>2, <3>3
  <2>8. \A i, j \in 1 .. n + 1 :
          guards'[c][j].saved_int =>
            IsInt(c, j)' /\ (i < j => ~IsInt(c, i)')
    <3> SUFFICES ASSUME NEW i \in 1 .. n + 1, NEW j \in 1 .. n + 1,
                        guards'[c][j].saved_int
                 PROVE  IsInt(c, j)' /\ (i < j => ~IsInt(c, i)')
      OBVIOUS
    <3>1. CASE j = n + 1
      <4>1. saved[c]
        BY <2>2, <3>1
      <4>2. ASSUME i < j PROVE i \in 1 .. n
        BY <2>2, <3>1, <4>2
      <4> QED BY <2>2, <2>5, <3>1, <4>1, <4>2 DEF IsInt
    <3>2. CASE j \in 1 .. n
      <4>1. ASSUME i < j PROVE i \in 1 .. n
        BY <2>2, <3>2, <4>1
      <4> QED BY <2>2, <3>2, <4>1 DEF IsInt, IInv, GuardInv
    <3> QED BY <2>6, <3>1, <3>2
  <2>9. pc'[c] = "run" /\ \A d \in Context \ {c} : pc'[d] = pc[d]
    BY <1>3 DEF Acquire, Goto, IInv, TypeOK
  <2> QED
    BY <2>2, <2>7, <2>8, <2>9, <1>3 DEF Acquire, IInv, GuardInv, Holds, IsInt
<1>4. ASSUME NEW c \in Context, Release(c) PROVE GuardInv'
  <2> DEFINE n == Len(guards[c])
  <2>1. TypeOK /\ guards[c] # <<>> /\ guards' = Popped(c)
    BY <1>4 DEF IInv, Release
  <2>2. /\ guards' \in [Context -> Seq(Guard)]
        /\ n \in Nat \ {0} /\ DOMAIN guards[c] = 1 .. n
        /\ DOMAIN guards'[c] = 1 .. n - 1
        /\ \A i \in 1 .. n - 1 : guards'[c][i] = guards[c][i]
        /\ \A d \in Context \ {c} : guards'[d] = guards[d]
        /\ Innermost(c) = guards[c][n] /\ Innermost(c) \in Guard
    BY <2>1, PopStack
  <2> HIDE DEF n
  <2>3. \A i \in 1 .. n - 1 : i \in 1 .. n
    BY <2>2
  <2>4. pc'[c] = "released" /\ \A d \in Context \ {c} : pc'[d] = pc[d]
    BY <1>4 DEF Release, Goto, IInv, TypeOK
  <2>5. \A i, j \in 1 .. n - 1 :
          guards'[c][i].lock = guards'[c][j].lock => i = j
    <3> SUFFICES ASSUME NEW i \in 1 .. n - 1, NEW j \in 1 .. n - 1,
                        guards'[c][i].lock = guards'[c][j].lock
                 PROVE  i = j
      OBVIOUS
    <3>1. /\ i \in DOMAIN guards[c] /\ j \in DOMAIN guards[c]
          /\ guards[c][i].lock = guards[c][j].lock
      BY <2>2, <2>3
    <3> QED BY <3>1 DEF IInv, GuardInv
  <2>6. \A i, j \in 1 .. n - 1 :
          guards'[c][j].saved_int =>
            IsInt(c, j)' /\ (i < j => ~IsInt(c, i)')
    BY <2>2, <2>3 DEF IInv, GuardInv, IsInt
  <2> SUFFICES ASSUME NEW d \in Context
               PROVE  /\ \A i, j \in DOMAIN guards'[d] :
                           guards'[d][i].lock = guards'[d][j].lock => i = j
                      /\ \A i, j \in DOMAIN guards'[d] :
                           guards'[d][j].saved_int =>
                             IsInt(d, j)' /\ (i < j => ~IsInt(d, i)')
                      /\ pc'[d] \in {"saved", "spin"} => ~Holds(d, want[d])'
                      /\ pc'[d] = "saved" => want'[d] \in IntLocks
    BY DEF GuardInv
  <2>7. CASE d = c
    BY <2>2, <2>4, <2>5, <2>6, <2>7
  <2>8. CASE d # c
    <3>1. guards'[d] = guards[d] /\ pc'[d] = pc[d] /\ want' = want
      BY <2>2, <2>4, <2>8, <1>4 DEF Release
    <3> QED BY <3>1 DEF IInv, GuardInv, Holds, IsInt
  <2> QED BY <2>7, <2>8
<1>5. ASSUME NEW c \in Context, EnableIfSaved(c) PROVE GuardInv'
  BY <1>5
    DEF EnableIfSaved, Goto, At, IInv, TypeOK, GuardInv, Holds, IsInt
<1>6. ASSUME NEW l \in Lock, PlainLock(l) PROVE GuardInv'
  BY <1>6
    DEF PlainLock, Goto, At, IInv, TypeOK, GuardInv, Holds, IsInt
<1>7. ASSUME NEW b \in BOOLEAN, SetFlag(b) PROVE GuardInv'
  BY <1>7
    DEF SetFlag, At, IInv, TypeOK, GuardInv, Holds, IsInt
<1>8. CASE Irq
  BY <1>8
    DEF Irq, IInv, TypeOK, GuardInv, Holds, IsInt
<1>9. CASE Iret
  BY <1>9
    DEF Iret, At, IInv, TypeOK, GuardInv, Holds, IsInt
<1>10. CASE UNCHANGED vars
  BY <1>10
    DEF vars, IInv, TypeOK, GuardInv, Holds, IsInt
<1> QED
  BY <1>1, <1>2, <1>3, <1>4, <1>5, <1>6, <1>7, <1>8, <1>9, <1>10 DEF Next, Drop

\* Every step preserves what saved_int says about the flag.
LEMMA FlagStep ==
  IInv /\ [Next]_vars => FlagInv'
<1> SUFFICES ASSUME IInv, [Next]_vars PROVE FlagInv'
  OBVIOUS
<1> USE LockAssumption DEF Context, Lock
<1>1. ASSUME NEW c \in Context, NEW l \in Lock, LockBegin(c, l) PROVE FlagInv'
  BY <1>1
    DEF LockBegin, Goto, At, IInv, TypeOK, FlagInv, HandlerInv, GuardInv,
        MainFlag, NoIntGuard, IsInt
<1>2. ASSUME NEW c \in Context, DisableIfEnabled(c) PROVE FlagInv'
  BY <1>2
    DEF DisableIfEnabled, Goto, At, IInv, TypeOK, FlagInv, HandlerInv,
        GuardInv, MainFlag, NoIntGuard, IsInt
<1>3. ASSUME NEW c \in Context, Acquire(c) PROVE FlagInv'
  <2> DEFINE g == [lock |-> want[c], saved_int |-> saved[c]]
  <2> DEFINE n == Len(guards[c])
  <2>1. TypeOK /\ g \in Guard /\ guards' = [guards EXCEPT ![c] = Append(@, g)]
    BY <1>3 DEF IInv, TypeOK, Guard, Acquire
  <2>2. /\ guards' \in [Context -> Seq(Guard)]
        /\ n \in Nat /\ DOMAIN guards[c] = 1 .. n
        /\ DOMAIN guards'[c] = 1 .. n + 1 /\ guards'[c][n + 1] = g
        /\ \A i \in 1 .. n : guards'[c][i] = guards[c][i]
        /\ \A d \in Context \ {c} : guards'[d] = guards[d]
    BY <2>1, PushStack
  <2> HIDE DEF n
  <2>3. CASE c = "irq"
    BY <2>2, <2>3, <1>3 DEF Acquire, At, Goto, IInv, TypeOK, FlagInv,
        MainFlag, NoIntGuard, IsInt
  <2>4. CASE c = "main"
    <3>1. \A i \in 1 .. n + 1 : i \in 1 .. n \/ i = n + 1
      BY <2>2
    <3>2. n + 1 \in 1 .. n + 1
      BY <2>2
    <3>3. UNCHANGED <<iflag, ctx, base, saved>> /\ pc'["main"] = "run" /\
        pc["main"] = "spin"
      BY <2>4, <1>3 DEF Acquire, At, Goto, IInv, TypeOK
    <3>4. MainFlag => NoIntGuard'
      BY <2>2, <2>4, <3>1, <3>3 DEF IInv, FlagInv, MainFlag, NoIntGuard, IsInt
    <3>5. base /\ ~MainFlag => \E i \in 1 .. n + 1 :
        guards'["main"][i].saved_int
      <4>1. ASSUME base, ~MainFlag PROVE \E i \in 1 .. n + 1 :
          guards'["main"][i].saved_int
        <5>1. CASE saved["main"]
          BY <2>2, <2>4, <3>2, <5>1
        <5>2. CASE \E i \in 1 .. n : guards["main"][i].saved_int
          <6>1. PICK i \in 1 .. n : guards["main"][i].saved_int
            BY <5>2
          <6>2. i \in 1 .. n + 1 /\ guards'["main"][i] = guards["main"][i]
            BY <2>2, <2>4
          <6> QED BY <6>1, <6>2
        <5> QED BY <2>2, <2>4, <3>3, <4>1, <5>1, <5>2 DEF IInv, FlagInv
      <4> QED BY <4>1
    <3>6. ~base => \A i \in 1 .. n + 1 : ~guards'["main"][i].saved_int
      BY <2>2, <2>4, <3>1, <3>3 DEF IInv, FlagInv
    <3> QED BY <2>2, <2>4, <3>3, <3>4, <3>5, <3>6 DEF IInv, FlagInv, MainFlag
  <2> QED BY <2>3, <2>4
<1>4. ASSUME NEW c \in Context, Release(c) PROVE FlagInv'
  <2> DEFINE n == Len(guards[c])
  <2>1. TypeOK /\ guards[c] # <<>> /\ guards' = Popped(c)
    BY <1>4 DEF IInv, Release
  <2>2. /\ guards' \in [Context -> Seq(Guard)]
        /\ n \in Nat \ {0} /\ DOMAIN guards[c] = 1 .. n
        /\ DOMAIN guards'[c] = 1 .. n - 1
        /\ \A i \in 1 .. n - 1 : guards'[c][i] = guards[c][i]
        /\ \A d \in Context \ {c} : guards'[d] = guards[d]
        /\ Innermost(c) = guards[c][n] /\ Innermost(c) \in Guard
    BY <2>1, PopStack
  <2> HIDE DEF n
  <2>3. CASE c = "irq"
    BY <2>2, <2>3, <1>4 DEF Release, At, Goto, IInv, TypeOK, FlagInv,
        MainFlag, NoIntGuard, IsInt
  <2>4. CASE c = "main"
    <3>1. \A i \in 1 .. n : i \in 1 .. n - 1 \/ i = n
      BY <2>2
    <3>2. n \in 1 .. n /\ \A i \in 1 .. n - 1 : i \in 1 .. n /\ i < n
      BY <2>2
    <3>3. UNCHANGED <<iflag, ctx, base>> /\ pc'["main"] = "released"
          /\ saved'["main"] = guards["main"][n].saved_int
      BY <2>2, <2>4, <1>4 DEF Release, At, Goto, IInv, TypeOK
    <3>4. NoIntGuard => NoIntGuard'
      BY <2>2, <2>4, <3>2 DEF NoIntGuard, IsInt
    <3>5. base /\ ~MainFlag =>
            \/ \E i \in 1 .. n - 1 : guards'["main"][i].saved_int
            \/ saved'["main"]
      <4>1. ASSUME base, ~MainFlag PROVE \E i \in 1 .. n :
          guards["main"][i].saved_int
        BY <2>2, <2>4, <4>1, <1>4 DEF Release, At, IInv, FlagInv
      <4> QED BY <2>2, <2>4, <3>1, <3>3, <4>1
    <3>6. ~base => \A i \in 1 .. n - 1 : ~guards'["main"][i].saved_int
      BY <2>2, <2>4, <3>2 DEF IInv, FlagInv
    <3>7. saved'["main"] => base /\ NoIntGuard' /\ ~MainFlag
      <4> SUFFICES ASSUME guards["main"][n].saved_int
                   PROVE  base /\ NoIntGuard' /\ ~MainFlag
        BY <3>3
      <4>1. IsInt("main", n) /\ \A i \in 1 .. n - 1 : ~IsInt("main", i)
        BY <2>2, <2>4, <3>2 DEF IInv, GuardInv
      <4>2. base /\ ~MainFlag
        BY <2>2, <2>4, <3>2, <4>1 DEF IInv, FlagInv, NoIntGuard
      <4> QED BY <2>2, <2>4, <4>1, <4>2 DEF NoIntGuard, IsInt
    <3> QED BY <2>2, <2>4, <3>3, <3>4, <3>5, <3>6, <3>7 DEF IInv, FlagInv,
        MainFlag
  <2> QED BY <2>3, <2>4
<1>5. ASSUME NEW c \in Context, EnableIfSaved(c) PROVE FlagInv'
  BY <1>5
    DEF EnableIfSaved, Goto, At, IInv, TypeOK, FlagInv, HandlerInv,
        GuardInv, MainFlag, NoIntGuard, IsInt
<1>6. ASSUME NEW l \in Lock, PlainLock(l) PROVE FlagInv'
  BY <1>6
    DEF PlainLock, Goto, At, IInv, TypeOK, FlagInv, HandlerInv, GuardInv,
        MainFlag, NoIntGuard, IsInt
<1>7. ASSUME NEW b \in BOOLEAN, SetFlag(b) PROVE FlagInv'
  BY <1>7
    DEF SetFlag, At, IInv, TypeOK, FlagInv, HandlerInv, GuardInv,
        MainFlag, NoIntGuard, IsInt
<1>8. CASE Irq
  BY <1>8
    DEF Irq, IInv, TypeOK, FlagInv, HandlerInv, GuardInv, MainFlag,
        NoIntGuard, IsInt
<1>9. CASE Iret
  BY <1>9
    DEF Iret, At, IInv, TypeOK, FlagInv, HandlerInv, GuardInv, MainFlag,
        NoIntGuard, IsInt
<1>10. CASE UNCHANGED vars
  BY <1>10
    DEF vars, IInv, TypeOK, FlagInv, HandlerInv, GuardInv, MainFlag,
        NoIntGuard, IsInt
<1> QED
  BY <1>1, <1>2, <1>3, <1>4, <1>5, <1>6, <1>7, <1>8, <1>9, <1>10 DEF Next, Drop

\* Every step preserves what handlers rely on.
LEMMA HandlerStep ==
  IInv /\ [Next]_vars => HandlerInv'
<1> SUFFICES ASSUME IInv, [Next]_vars PROVE HandlerInv'
  OBVIOUS
<1> USE LockAssumption DEF Context, Lock
<1>1. ASSUME NEW c \in Context, NEW l \in Lock, LockBegin(c, l) PROVE
    HandlerInv'
  BY <1>1
    DEF LockBegin, Goto, At, IInv, TypeOK, GuardInv, HandlerInv, IsInt
<1>2. ASSUME NEW c \in Context, DisableIfEnabled(c) PROVE HandlerInv'
  BY <1>2
    DEF DisableIfEnabled, Goto, At, IInv, TypeOK, GuardInv, HandlerInv, IsInt
<1>3. ASSUME NEW c \in Context, Acquire(c) PROVE HandlerInv'
  <2> DEFINE g == [lock |-> want[c], saved_int |-> saved[c]]
  <2> DEFINE n == Len(guards[c])
  <2>1. TypeOK /\ g \in Guard /\ guards' = [guards EXCEPT ![c] = Append(@, g)]
    BY <1>3 DEF IInv, TypeOK, Guard, Acquire
  <2>2. /\ guards' \in [Context -> Seq(Guard)]
        /\ n \in Nat /\ DOMAIN guards[c] = 1 .. n
        /\ DOMAIN guards'[c] = 1 .. n + 1 /\ guards'[c][n + 1] = g
        /\ \A i \in 1 .. n : guards'[c][i] = guards[c][i]
        /\ \A d \in Context \ {c} : guards'[d] = guards[d]
    BY <2>1, PushStack
  <2> HIDE DEF n
  <2>3. \A i \in 1 .. n + 1 : i \in 1 .. n \/ i = n + 1
    BY <2>2
  <2>4. ctx = c /\ pc[c] = "spin" /\ pc'[c] = "run" /\ UNCHANGED <<iflag,
      ctx, want, saved>>
        /\ \A d \in Context \ {c} : pc'[d] = pc[d]
    BY <1>3 DEF Acquire, At, Goto, IInv, TypeOK
  <2>5. CASE c = "irq"
    BY <2>2, <2>3, <2>4, <2>5 DEF IInv, HandlerInv, IsInt
  <2>6. CASE c = "main"
    BY <2>2, <2>4, <2>6 DEF IInv, HandlerInv, IsInt
  <2> QED BY <2>5, <2>6
<1>4. ASSUME NEW c \in Context, Release(c) PROVE HandlerInv'
  <2> DEFINE n == Len(guards[c])
  <2>1. TypeOK /\ guards[c] # <<>> /\ guards' = Popped(c)
    BY <1>4 DEF IInv, Release
  <2>2. /\ guards' \in [Context -> Seq(Guard)]
        /\ n \in Nat \ {0} /\ DOMAIN guards[c] = 1 .. n
        /\ DOMAIN guards'[c] = 1 .. n - 1
        /\ \A i \in 1 .. n - 1 : guards'[c][i] = guards[c][i]
        /\ \A d \in Context \ {c} : guards'[d] = guards[d]
        /\ Innermost(c) = guards[c][n] /\ Innermost(c) \in Guard
    BY <2>1, PopStack
  <2> HIDE DEF n
  <2>3. n \in 1 .. n /\ \A i \in 1 .. n - 1 : i \in 1 .. n
    BY <2>2
  <2>4. ctx = c /\ pc'[c] = "released" /\ UNCHANGED <<iflag, ctx, want>>
        /\ saved'[c] = guards[c][n].saved_int
        /\ \A d \in Context \ {c} : pc'[d] = pc[d] /\ saved'[d] = saved[d]
    BY <2>2, <1>4 DEF Release, At, Goto, IInv, TypeOK
  <2>5. CASE c = "irq"
    BY <2>2, <2>3, <2>4, <2>5 DEF IInv, HandlerInv, IsInt
  <2>6. CASE c = "main"
    BY <2>2, <2>4, <2>6 DEF IInv, HandlerInv, IsInt
  <2> QED BY <2>5, <2>6
<1>5. ASSUME NEW c \in Context, EnableIfSaved(c) PROVE HandlerInv'
  BY <1>5
    DEF EnableIfSaved, Goto, At, IInv, TypeOK, GuardInv, HandlerInv, IsInt
<1>6. ASSUME NEW l \in Lock, PlainLock(l) PROVE HandlerInv'
  BY <1>6
    DEF PlainLock, Goto, At, IInv, TypeOK, GuardInv, HandlerInv, IsInt
<1>7. ASSUME NEW b \in BOOLEAN, SetFlag(b) PROVE HandlerInv'
  BY <1>7
    DEF SetFlag, At, IInv, TypeOK, GuardInv, HandlerInv, IsInt
<1>8. CASE Irq
  BY <1>8
    DEF Irq, IInv, TypeOK, GuardInv, HandlerInv, IsInt
<1>9. CASE Iret
  BY <1>9
    DEF Iret, At, IInv, TypeOK, GuardInv, HandlerInv, IsInt
<1>10. CASE UNCHANGED vars
  BY <1>10
    DEF vars, IInv, TypeOK, GuardInv, HandlerInv, IsInt
<1> QED
  BY <1>1, <1>2, <1>3, <1>4, <1>5, <1>6, <1>7, <1>8, <1>9, <1>10 DEF Next, Drop

-----------------------------------------------------------------------------
(* Theorems *)

\* IInv holds in every reachable state, for every choice of the locks.
THEOREM Invariance == Spec => []IInv
<1>1. IInv /\ [Next]_vars => IInv'
  BY TypeStep, GuardStep, FlagStep, HandlerStep DEF IInv
<1> QED BY InitIInv, <1>1, PTL DEF Spec

\* The types are respected and the spinlocks taken are those of the guards.
THEOREM TypeCorrect == Spec => []TypeOK
<1>1. IInv => TypeOK
  BY DEF IInv
<1> QED BY Invariance, <1>1, PTL

\* lock() finds its spinlock free, in normal context and in handlers.
THEOREM NobodySpins == Spec => []NeverSpins
<1>1. IInv => NeverSpins
  <2> SUFFICES ASSUME IInv, NEW c \in Context, At(c, "spin"), want[c] \in held
               PROVE  FALSE
    BY DEF NeverSpins
  <2>1. PICK d \in Context : Holds(d, want[c])
    BY DEF IInv, TypeOK
  <2>2. ~Holds(c, want[c])
    BY DEF At, IInv, GuardInv
  <2>3. CASE c = "main"
    BY <2>1, <2>2, <2>3 DEF Context, At, IInv, HandlerInv, Holds
  <2>4. CASE c = "irq"
    <3>1. d = "main" /\ want[c] \in IntLocks /\ MainFlag
      BY <2>1, <2>2, <2>4 DEF Context, At, IInv, HandlerInv, MainFlag
    <3> QED BY <2>1, <3>1 DEF IInv, FlagInv, NoIntGuard, IsInt, Holds
  <2> QED BY <2>3, <2>4 DEF Context
<1> QED BY Invariance, <1>1, PTL

\* Interrupts are off while an InterruptMutex is held.
THEOREM HoldersMasked == Spec => []HeldMasked
<1>1. IInv => HeldMasked
  <2> SUFFICES ASSUME IInv, NEW l \in IntLocks, l \in held, iflag
               PROVE  FALSE
    BY DEF HeldMasked
  <2>1. PICK c \in Context : Holds(c, l)
    BY DEF IInv, TypeOK
  <2>2. ctx = "main"
    BY DEF IInv, TypeOK, HandlerInv, Context
  <2>3. c = "main"
    BY <2>1, <2>2 DEF IInv, HandlerInv, Context, Holds
  <2> QED BY <2>1, <2>3 DEF IInv, FlagInv, MainFlag, NoIntGuard, IsInt, Holds
<1> QED BY Invariance, <1>1, PTL

\* Handlers run with interrupts off from gate to iretq.
THEOREM HandlersMasked == Spec => []HandlerMasked
<1>1. IInv => HandlerMasked
  BY DEF IInv, HandlerInv, HandlerMasked
<1> QED BY Invariance, <1>1, PTL

\* Dropping the last guard restores the flag.
THEOREM FlagIsRestored == Spec => []FlagRestored
<1>1. IInv => FlagRestored
  <2> SUFFICES ASSUME IInv, At("main", "run"),
                      \A l \in IntLocks : ~Holds("main", l)
               PROVE  iflag = base
    BY DEF FlagRestored
  <2>1. \A i \in DOMAIN guards["main"] : ~guards["main"][i].saved_int
    <3> SUFFICES ASSUME NEW i \in DOMAIN guards["main"],
                        guards["main"][i].saved_int
                 PROVE  FALSE
      OBVIOUS
    <3>1. IsInt("main", i)
      BY DEF IInv, GuardInv, Context
    <3> QED BY <3>1 DEF IsInt, Holds
  <2>2. MainFlag <=> iflag
    BY DEF At, MainFlag
  <2>3. base <=> iflag
    BY <2>1, <2>2 DEF At, IInv, FlagInv
  <2> QED BY <2>3 DEF IInv, TypeOK
<1> QED BY Invariance, <1>1, PTL

=============================================================================
