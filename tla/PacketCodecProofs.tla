------------------------- MODULE PacketCodecProofs -------------------------
(***************************************************************************)
(* What is proved of the packet codecs, for every address, payload, reply  *)
(* and frame of a host.                                                    *)
(*                                                                         *)
(* ParsesWritten: from_message reads what was written into a DHCP message. *)
(* Each state of the loop of parse_options is tied to the options already  *)
(* passed, and the loop to a recursive function.                           *)
(*                                                                         *)
(* PanicsNever: with CodecInv, no frame of any bytes makes a parser or a   *)
(* handler slice or index out of range.  An ICMP message too short for     *)
(* handle_icmp is one whose checksum cannot hold (IcmpInRange).            *)
(*                                                                         *)
(* IntactArrives: with IntactInv, a frame the link left alone becomes what *)
(* its sender put in: a header whose checksum was computed with 0 in its   *)
(* place adds up to a sum that folds to 65535, and each field lies where   *)
(* the parser looks for it (At).                                           *)
(*                                                                         *)
(* Induction over data goes through the least number for which a           *)
(* statement fails (Least, Induction).                                     *)
(***************************************************************************)
EXTENDS PacketCodec, WellFoundedInduction, SequenceTheorems, TLAPS

\* The least element of a set of natural numbers.
LEMMA Least ==
  ASSUME NEW T \in SUBSET Nat, T # {}
  PROVE  \E n \in T : \A m \in T : n <= m
<1> DEFINE R == {ss \in Nat \X Nat : ss[1] < ss[2]}
<1>1. IsWellFoundedOn(R, Nat)
  BY NatLessThanWellFounded, Zenon DEF OpToRel
<1>2. \E n \in T : \A m \in T : <<m, n>> \notin R
  <2> HIDE DEF R
  <2> QED BY <1>1, WFMin, Zenon
<1>3. PICK n \in T : \A m \in T : <<m, n>> \notin R
  BY <1>2
<1>4. ASSUME NEW m \in T PROVE n <= m
  <2>1. <<m, n>> \notin R
    BY <1>3
  <2>2. <<m, n>> \in Nat \X Nat /\ <<m, n>>[1] = m /\ <<m, n>>[2] = n
    OBVIOUS
  <2> QED BY <2>1, <2>2
<1> QED BY <1>4

\* Induction, for the set of numbers a statement holds of.
LEMMA Induction ==
  ASSUME NEW S, 0 \in S, \A n \in Nat : n \in S => n + 1 \in S
  PROVE  \A n \in Nat : n \in S
<1> SUFFICES ASSUME Nat \ S # {} PROVE FALSE
  OBVIOUS
<1>1. PICK n \in Nat \ S : \A m \in Nat \ S : n <= m
  BY Least
<1>2. n - 1 \in Nat /\ n - 1 \notin Nat \ S
  BY <1>1
<1> QED BY <1>1, <1>2

\* A loop of N iterations that starts with x, iteration n of which applies g[n], goes
\* through the values of f.
Iterates(X, x, N, g, f) ==
  f \in [0 .. N -> X] /\ f[0] = x /\ \A n \in 1 .. N : f[n] = g[n][f[n - 1]]

\* There are such values.
LEMMA Iteration ==
  ASSUME NEW X, NEW x \in X, NEW N \in Nat, NEW g \in [1 .. N -> [X -> X]]
  PROVE  \E f : Iterates(X, x, N, g, f)
<1> DEFINE S == {m \in Nat : m <= N => \E f : Iterates(X, x, m, g, f)}
<1>1. 0 \in S
  <2>1. Iterates(X, x, 0, g, [i \in 0 .. 0 |-> x])
    BY DEF Iterates
  <2> QED BY <2>1
<1>2. ASSUME NEW m \in Nat, m \in S PROVE m + 1 \in S
  <2> SUFFICES ASSUME m + 1 <= N
               PROVE  \E h : Iterates(X, x, m + 1, g, h)
    OBVIOUS
  <2>1. PICK f : Iterates(X, x, m, g, f)
    BY <1>2
  <2> DEFINE h == [i \in 0 .. m + 1 |-> IF i <= m THEN f[i] ELSE g[m + 1][f[m]]]
  <2>2. m + 1 \in 1 .. N /\ f[m] \in X
    BY <2>1 DEF Iterates
  <2>3. g[m + 1][f[m]] \in X
    BY <2>2
  <2>4. h \in [0 .. m + 1 -> X]
    BY <2>1, <2>3 DEF Iterates
  <2>5. h[0] = x
    BY <2>1 DEF Iterates
  <2>6. ASSUME NEW n \in 1 .. m + 1 PROVE h[n] = g[n][h[n - 1]]
    <3>1. CASE n \in 1 .. m
      BY <3>1, <2>1 DEF Iterates
    <3>2. CASE n = m + 1
      BY <3>2
    <3> QED BY <3>1, <3>2
  <2>7. Iterates(X, x, m + 1, g, h)
    <3> HIDE DEF h
    <3> QED BY <2>4, <2>5, <2>6 DEF Iterates
  <2> QED BY <2>7
<1>3. N \in S
  <2> HIDE DEF S
  <2> QED BY <1>1, <1>2, Induction
<1> QED BY <1>3

-----------------------------------------------------------------------------
(* Sums                                                                    *)

\* What SumSeq adds up.
Partial(s, f) ==
  f \in [0 .. Len(s) -> Nat] /\ f[0] = 0 /\ \A n \in 1 .. Len(s) : f[n] = f[n - 1] + s[n]

\* A recursive function is a chosen one: such a function is there, and any is as good.
LEMMA SumSeqDef ==
  ASSUME NEW s \in Seq(Nat)
  PROVE  \E f : Partial(s, f) /\ SumSeq(s) = f[Len(s)]
<1> DEFINE N == Len(s)
           g == [n \in 1 .. N |-> [x \in Nat |-> x + s[n]]]
           Sums(f) == f = [n \in 0 .. N |-> IF n = 0 THEN 0 ELSE f[n - 1] + s[n]]
<1>0. N \in Nat /\ 0 \in Nat
  OBVIOUS
<1>1. g \in [1 .. N -> [Nat -> Nat]]
  OBVIOUS
<1>2. \E f : Iterates(Nat, 0, N, g, f)
  <2> HIDE DEF g, N
  <2> QED BY <1>0, <1>1, Iteration, Zenon
<1>3. PICK f \in [0 .. N -> Nat] : f[0] = 0 /\ \A n \in 1 .. N : f[n] = f[n - 1] + s[n]
  <2>1. PICK f : Iterates(Nat, 0, N, g, f)
    BY <1>2
  <2>2. f \in [0 .. N -> Nat] /\ f[0] = 0
    BY <2>1 DEF Iterates
  <2>3. ASSUME NEW n \in 1 .. N PROVE f[n] = f[n - 1] + s[n]
    <3>1. f[n] = g[n][f[n - 1]]
      BY <2>1 DEF Iterates
    <3>2. f[n - 1] \in Nat
      BY <2>2
    <3>3. g[n][f[n - 1]] = f[n - 1] + s[n]
      BY <3>2
    <3> QED BY <3>1, <3>3
  <2> QED BY <2>2, <2>3
<1>4. Sums(f)
  BY <1>3
<1> DEFINE h == CHOOSE h : Sums(h)
<1>5. Sums(h)
  <2> HIDE DEF Sums
  <2> QED BY <1>4
<1>6. SumSeq(s) = h[N]
  BY DEF SumSeq
<1> HIDE DEF h
<1>7. Partial(s, h)
  <2> DEFINE S == {n \in Nat : n <= N => h[n] \in Nat}
  <2>1. 0 \in S
    BY <1>5
  <2>2. ASSUME NEW n \in Nat, n \in S PROVE n + 1 \in S
    BY <2>2, <1>5, SMTT(60)
  <2>3. \A n \in 0 .. N : h[n] \in Nat
    <3> HIDE DEF S
    <3>1. \A n \in Nat : n \in S
      BY <2>1, <2>2, Induction
    <3> QED BY <3>1 DEF S
  <2>4. h \in [0 .. N -> Nat]
    <3>1. h = [n \in 0 .. N |-> h[n]]
      BY <1>5
    <3> QED BY <3>1, <2>3
  <2>5. ASSUME NEW n \in 0 .. N PROVE h[n] = IF n = 0 THEN 0 ELSE h[n - 1] + s[n]
    BY <1>5, Zenon
  <2>6. h[0] = 0 /\ \A n \in 1 .. N : h[n] = h[n - 1] + s[n]
    <3> HIDE DEF N, Sums
    <3>1. 0 \in 0 .. N /\ \A n \in 1 .. N : n \in 0 .. N /\ n # 0
      BY <1>0
    <3> QED BY <3>1, <2>5, Zenon
  <2> QED BY <2>4, <2>6 DEF Partial
<1> QED BY <1>6, <1>7

\* The partial sums are the only ones.
LEMMA SumSeqIs ==
  ASSUME NEW s \in Seq(Nat), NEW f, Partial(s, f)
  PROVE  SumSeq(s) = f[Len(s)]
<1>1. PICK h : Partial(s, h) /\ SumSeq(s) = h[Len(s)]
  BY SumSeqDef
<1> DEFINE S == {n \in Nat : n <= Len(s) => h[n] = f[n]}
<1>2. 0 \in S
  BY <1>1 DEF Partial
<1>3. ASSUME NEW n \in Nat, n \in S PROVE n + 1 \in S
  <2> SUFFICES ASSUME n + 1 <= Len(s) PROVE h[n + 1] = f[n + 1]
    OBVIOUS
  <2>1. n + 1 \in 1 .. Len(s) /\ h[n] = f[n]
    BY <1>3
  <2>2. h[n + 1] = h[n] + s[n + 1] /\ f[n + 1] = f[n] + s[n + 1]
    BY <2>1, <1>1 DEF Partial
  <2> QED BY <2>1, <2>2
<1>4. Len(s) \in S
  <2> HIDE DEF S
  <2> QED BY <1>2, <1>3, Induction, SMTT(60)
<1> QED BY <1>1, <1>4

\* A sum of natural numbers is one.
LEMMA SumSeqType ==
  ASSUME NEW s \in Seq(Nat)
  PROVE  SumSeq(s) \in Nat
<1>1. PICK f : Partial(s, f) /\ SumSeq(s) = f[Len(s)]
  BY SumSeqDef
<1> QED BY <1>1 DEF Partial

\* The sums of one and of two numbers, and of none.
LEMMA SumSeqShort ==
  ASSUME NEW s \in Seq(Nat)
  PROVE  /\ Len(s) = 0 => SumSeq(s) = 0
         /\ Len(s) = 1 => SumSeq(s) = s[1]
         /\ Len(s) = 2 => SumSeq(s) = s[1] + s[2]
<1>1. PICK f : Partial(s, f) /\ SumSeq(s) = f[Len(s)]
  BY SumSeqDef
<1>2. CASE Len(s) = 0
  BY <1>1, <1>2 DEF Partial
<1>3. CASE Len(s) = 1
  <2>1. f[1] = f[0] + s[1] /\ f[0] = 0 /\ s[1] \in Nat
    BY <1>1, <1>3 DEF Partial
  <2>2. f[1] = s[1]
    BY <2>1
  <2> QED BY <1>1, <1>3, <2>2
<1>4. CASE Len(s) = 2
  <2>1. f[1] = f[0] + s[1] /\ f[2] = f[1] + s[2] /\ f[0] = 0 /\ s[1] \in Nat /\ s[2] \in Nat
    BY <1>1, <1>4, SMTT(60) DEF Partial
  <2>2. f[2] = s[1] + s[2]
    BY <2>1
  <2> QED BY <1>1, <1>4, <2>2
<1> QED BY <1>2, <1>3, <1>4

\* The sum of a sequence is that of its parts.
LEMMA SumSeqConcat ==
  ASSUME NEW s \in Seq(Nat), NEW t \in Seq(Nat)
  PROVE  SumSeq(s \o t) = SumSeq(s) + SumSeq(t)
<1>1. PICK f : Partial(s, f) /\ SumSeq(s) = f[Len(s)]
  BY SumSeqDef
<1>2. PICK g : Partial(t, g) /\ SumSeq(t) = g[Len(t)]
  BY SumSeqDef
<1> DEFINE M == Len(s)
           N == Len(t)
           u == s \o t
           h == [n \in 0 .. M + N |-> IF n <= M THEN f[n] ELSE f[M] + g[n - M]]
<1>3. /\ M \in Nat /\ N \in Nat /\ u \in Seq(Nat) /\ Len(u) = M + N
      /\ \A i \in 1 .. M + N : u[i] = IF i <= M THEN s[i] ELSE t[i - M]
      /\ \A i \in 1 .. M : s[i] \in Nat
      /\ \A i \in 1 .. N : t[i] \in Nat
  BY ConcatProperties
<1>4. /\ f \in [0 .. M -> Nat] /\ f[0] = 0 /\ \A n \in 1 .. M : f[n] = f[n - 1] + s[n]
      /\ g \in [0 .. N -> Nat] /\ g[0] = 0 /\ \A n \in 1 .. N : g[n] = g[n - 1] + t[n]
  BY <1>1, <1>2 DEF Partial
<1> HIDE DEF M, N, u
<1>0. M \in Nat /\ N \in Nat /\ f[M] \in Nat /\ \A n \in 0 .. N : g[n] \in Nat
  BY <1>3, <1>4
<1>5. h \in [0 .. M + N -> Nat] /\ h[0] = 0
  <2>1. ASSUME NEW n \in 0 .. M + N PROVE (IF n <= M THEN f[n] ELSE f[M] + g[n - M]) \in Nat
    <3>1. CASE n <= M
      BY <3>1, <1>4, <1>0
    <3>2. CASE n > M
      <4>1. n - M \in 0 .. N
        BY <3>2, <1>0
      <4> QED BY <3>2, <4>1, <1>0
    <3> QED BY <3>1, <3>2, <1>0
  <2>2. h \in [0 .. M + N -> Nat]
    BY <2>1
  <2>3. 0 \in 0 .. M + N /\ 0 <= M
    BY <1>0
  <2> QED BY <2>2, <2>3, <1>4
<1>6. ASSUME NEW n \in 1 .. M + N PROVE h[n] = h[n - 1] + u[n]
  <2>0. n \in 0 .. M + N /\ n - 1 \in 0 .. M + N /\ n \in Nat
    BY <1>0
  <2>1. CASE n <= M
    <3>1. n \in 1 .. M /\ h[n] = f[n] /\ h[n - 1] = f[n - 1] /\ u[n] = s[n]
      BY <2>0, <2>1, <1>3
    <3> QED BY <3>1, <1>4
  <2>2. CASE n > M
    <3>1. n - M \in 1 .. N /\ h[n] = f[M] + g[n - M] /\ u[n] = t[n - M]
      BY <2>0, <2>2, <1>0, <1>3
    <3>2. g[n - M] = g[(n - M) - 1] + t[n - M] /\ (n - M) - 1 \in 0 .. N /\ t[n - M] \in Nat
      BY <3>1, <1>4, <1>3
    <3>3. h[n - 1] = f[M] + g[(n - M) - 1]
      <4>1. CASE n - 1 = M
        BY <4>1, <2>0, <1>0, <1>4
      <4>2. CASE n - 1 > M
        <5>1. (n - M) - 1 = (n - 1) - M
          BY <2>0, <1>0
        <5> QED BY <4>2, <2>0, <1>0, <5>1
      <4> QED BY <4>1, <4>2, <2>0, <2>2, <1>0
    <3>4. g[(n - M) - 1] \in Nat
      BY <3>2, <1>0
    <3> QED BY <3>1, <3>2, <3>3, <3>4, <1>0, SMTT(60)
  <2> QED BY <2>1, <2>2, <2>0, <1>0
<1>7. Partial(u, h)
  BY <1>3, <1>5, <1>6 DEF Partial
<1>8. SumSeq(u) = h[M + N]
  BY <1>7, <1>3, SumSeqIs
<1>9. h[M + N] = f[M] + g[N]
  BY <1>3, <1>4
<1> QED BY <1>8, <1>9, <1>1, <1>2 DEF u, M, N

-----------------------------------------------------------------------------
(* Folding the carries                                                     *)

\* The number of 16 bits that has the same remainder by 65535, and is 0 only for 0.
Folded(n) == IF n = 0 THEN 0 ELSE 1 + ((n - 1) % 65535)

\* Division by 65535: quotient and remainder.
Divided(x, a, b) == a \in Nat /\ b \in Nat /\ b < 65535 /\ x = 65535 * a + b

\* Every natural number has a quotient and a remainder by 65535.
LEMMA Division ==
  ASSUME NEW x \in Nat
  PROVE  \E a, b : Divided(x, a, b)
<1>1. /\ x \div 65535 \in Nat /\ x % 65535 \in Nat /\ x % 65535 < 65535
      /\ x = 65535 * (x \div 65535) + (x % 65535)
  OBVIOUS
<1>2. Divided(x, x \div 65535, x % 65535)
  BY <1>1 DEF Divided
<1> QED BY <1>2

\* They are the only ones.
LEMMA Remainder ==
  ASSUME NEW x \in Nat, NEW a, NEW b, Divided(x, a, b)
  PROVE  x % 65535 = b
<1>1. a \in Nat /\ b \in Nat /\ b < 65535 /\ x = 65535 * a + b
  BY DEF Divided
<1> QED BY <1>1

\* Folded in terms of that remainder, away from 0.
LEMMA FoldedIs ==
  ASSUME NEW n \in Nat, NEW x \in Nat, NEW a, NEW b, Divided(x, a, b), n = x + 1
  PROVE  Folded(n) = b + 1
<1>1. x % 65535 = b /\ b \in Nat
  BY Remainder DEF Divided
<1>2. n - 1 = x /\ n # 0
  OBVIOUS
<1> QED BY <1>1, <1>2 DEF Folded

\* Sixteen bits or more are 65536 q + r; the loop goes on with q + r.
LEMMA FoldedSplit ==
  ASSUME NEW q \in Nat, NEW r \in Nat, q > 0
  PROVE  Folded(65536 * q + r) = Folded(r + q)
<1> DEFINE n == 65536 * q + r
           m == r + q
<1>1. PICK x \in Nat : m = x + 1
  <2>1. r + q - 1 \in Nat /\ r + q = (r + q - 1) + 1
    OBVIOUS
  <2> QED BY <2>1
<1>2. PICK a, b : Divided(x, a, b)
  BY Division
<1>3. a \in Nat /\ b \in Nat /\ b < 65535 /\ x = 65535 * a + b
  BY <1>2 DEF Divided
<1>4. PICK y \in Nat : n = y + 1 /\ y = 65535 * (q + a) + b
  <2>1. 65536 * q + r = (65535 * (q + a) + b) + 1
    BY <1>1, <1>3
  <2>2. 65535 * (q + a) + b \in Nat
    BY <1>3
  <2> QED BY <2>1, <2>2
<1>5. Divided(y, q + a, b)
  BY <1>3, <1>4 DEF Divided
<1>6. n \in Nat /\ m \in Nat
  OBVIOUS
<1> HIDE DEF n, m
<1>7. Folded(m) = b + 1
  BY <1>1, <1>2, <1>6, FoldedIs
<1>8. Folded(n) = b + 1
  BY <1>4, <1>5, <1>6, FoldedIs
<1> QED BY <1>7, <1>8 DEF n, m

\* A step of the loop keeps it.
LEMMA FoldedStep ==
  ASSUME NEW n \in Nat, n \div 65536 > 0
  PROVE  /\ (n % 65536) + (n \div 65536) \in Nat
         /\ (n % 65536) + (n \div 65536) < n
         /\ Folded(n) = Folded((n % 65536) + (n \div 65536))
<1>1. n = 65536 * (n \div 65536) + (n % 65536) /\ n \div 65536 \in Nat /\ n % 65536 \in Nat
  OBVIOUS
<1>2. Folded(65536 * (n \div 65536) + (n % 65536)) = Folded((n % 65536) + (n \div 65536))
  BY <1>1, FoldedSplit
<1> QED BY <1>1, <1>2

\* What the loop computes.
LEMMA FoldCarryIs ==
  ASSUME NEW n \in Nat
  PROVE  FoldCarry[n] = Folded(n)
<1> DEFINE c == [k \in Nat |-> Folded(k)]
           Solves(f) == f = [sum \in Nat |-> IF sum \div 65536 > 0
                              THEN f[(sum % 65536) + (sum \div 65536)] ELSE sum]
<1>1. Solves(c)
  <2> SUFFICES ASSUME NEW k \in Nat
               PROVE  c[k] = IF k \div 65536 > 0
                             THEN c[(k % 65536) + (k \div 65536)] ELSE k
    OBVIOUS
  <2>1. CASE k \div 65536 > 0
    BY <2>1, FoldedStep
  <2>2. CASE ~(k \div 65536 > 0)
    BY <2>2 DEF Folded
  <2> QED BY <2>1, <2>2
<1>2. FoldCarry = CHOOSE f : Solves(f)
  BY DEF FoldCarry
<1>3. Solves(FoldCarry)
  <2> HIDE DEF Solves
  <2> QED BY <1>1, <1>2
<1> DEFINE T == {k \in Nat : FoldCarry[k] # Folded(k)}
<1>4. T = {}
  <2> SUFFICES ASSUME T # {} PROVE FALSE
    OBVIOUS
  <2>1. PICK k \in T : \A j \in T : k <= j
    BY Least
  <2>2. CASE k \div 65536 > 0
    <3> DEFINE j == (k % 65536) + (k \div 65536)
    <3>1. j \in Nat /\ j < k /\ Folded(k) = Folded(j)
      BY <2>2, FoldedStep
    <3>2. FoldCarry[j] = Folded(j)
      BY <2>1, <3>1
    <3>3. FoldCarry[k] = FoldCarry[j]
      BY <1>3, <2>2
    <3> QED BY <3>1, <3>2, <3>3
  <2>3. CASE ~(k \div 65536 > 0)
    <3>1. FoldCarry[k] = k
      BY <1>3, <2>3
    <3>2. Folded(k) = k
      BY <2>3 DEF Folded
    <3> QED BY <3>1, <3>2
  <2> QED BY <2>2, <2>3
<1> QED BY <1>4

-----------------------------------------------------------------------------
(* The internet checksum                                                   *)

\* Bytes as bounds, for the arithmetic.
LEMMA ByteIs == \A x : x \in Byte <=> x \in Nat /\ x <= 255
BY DEF Byte

\* The same for 16 bits.
LEMMA U16Is == \A x : x \in U16 <=> x \in Nat /\ x <= 65535
BY DEF U16

\* The sum with its carries added fits in 16 bits.
LEMMA FoldedType ==
  ASSUME NEW n \in Nat
  PROVE  Folded(n) \in U16
<1>1. CASE n = 0
  BY <1>1, U16Is DEF Folded
<1>2. CASE n # 0
  <2>1. n - 1 \in Nat
    BY <1>2
  <2>2. (n - 1) % 65535 \in Nat /\ (n - 1) % 65535 <= 65534
    BY <2>1
  <2> QED BY <1>2, <2>2, U16Is DEF Folded
<1> QED BY <1>1, <1>2

\* The words of a sequence of bytes.
LEMMA WordsAre ==
  ASSUME NEW b \in Seq(Byte)
  PROVE  /\ Words(b) \in Seq(Nat)
         /\ Len(Words(b)) = (Len(b) + 1) \div 2
         /\ \A i \in 1 .. (Len(b) + 1) \div 2 :
              Words(b)[i] = b[2 * i - 1] * 256 + (IF 2 * i <= Len(b) THEN b[2 * i] ELSE 0)
<1> DEFINE n == (Len(b) + 1) \div 2
           w(i) == b[2 * i - 1] * 256 + (IF 2 * i <= Len(b) THEN b[2 * i] ELSE 0)
<1>1. n \in Nat /\ 2 * n <= Len(b) + 1
  OBVIOUS
<1>2. ASSUME NEW i \in 1 .. n PROVE w(i) \in Nat
  <2>1. 2 * i - 1 \in 1 .. Len(b)
    BY <1>1
  <2>2. b[2 * i - 1] \in Nat
    BY <2>1, ByteIs, ElementOfSeq
  <2>3. ASSUME 2 * i <= Len(b) PROVE b[2 * i] \in Nat
    <3>1. 2 * i \in 1 .. Len(b)
      BY <2>3, <1>1
    <3> QED BY <3>1, ByteIs, ElementOfSeq
  <2> QED BY <2>2, <2>3, SMTT(60)
<1>3. Words(b) = [i \in 1 .. n |-> w(i)]
  BY DEF Words
<1> HIDE DEF n, w
<1>4. [i \in 1 .. n |-> w(i)] \in Seq(Nat) /\ Len([i \in 1 .. n |-> w(i)]) = n
  BY <1>1, <1>2
<1>5. \A i \in 1 .. n : Words(b)[i] = w(i)
  BY <1>3
<1> QED BY <1>3, <1>4, <1>5 DEF n, w

\* The words of bytes add up to a natural number.
LEMMA PartSumType ==
  ASSUME NEW b \in Seq(Byte)
  PROVE  PartSum(b) \in Nat
BY WordsAre, SumSeqType DEF PartSum

\* What the loops of internet_checksum add up.
PartsSum(parts) == SumSeq([i \in DOMAIN parts |-> PartSum(parts[i])])

\* So do those of several parts.
LEMMA PartsSumType ==
  ASSUME NEW parts \in Seq(Seq(Byte))
  PROVE  /\ [i \in DOMAIN parts |-> PartSum(parts[i])] \in Seq(Nat)
         /\ PartsSum(parts) \in Nat
<1>1. \A i \in 1 .. Len(parts) : PartSum(parts[i]) \in Nat
  BY PartSumType
<1>2. [i \in DOMAIN parts |-> PartSum(parts[i])] \in Seq(Nat)
  <2>1. DOMAIN parts = 1 .. Len(parts) /\ Len(parts) \in Nat
    OBVIOUS
  <2> QED BY <1>1, <2>1
<1> QED BY <1>2, SumSeqType DEF PartsSum

\* internet_checksum is the complement of the folded sum.
LEMMA ChecksumIs ==
  ASSUME NEW parts \in Seq(Seq(Byte))
  PROVE  /\ InternetChecksum(parts) = 65535 - Folded(PartsSum(parts))
         /\ InternetChecksum(parts) \in U16
<1>1. PartsSum(parts) \in Nat
  BY PartsSumType
<1>2. FoldCarry[PartsSum(parts)] = Folded(PartsSum(parts))
  BY <1>1, FoldCarryIs
<1>3. Folded(PartsSum(parts)) \in U16
  BY <1>1, FoldedType
<1>4. InternetChecksum(parts) = 65535 - FoldCarry[PartsSum(parts)]
  BY DEF InternetChecksum, PartsSum
<1> QED BY <1>2, <1>3, <1>4, U16Is

\* The checksum of one part, and that it fits in 16 bits.
LEMMA ChecksumOfOne ==
  ASSUME NEW b \in Seq(Byte)
  PROVE  /\ InternetChecksum(<<b>>) = 65535 - Folded(PartSum(b))
         /\ InternetChecksum(<<b>>) \in U16
<1>1. <<b>> \in Seq(Seq(Byte))
  OBVIOUS
<1> DEFINE t == [i \in DOMAIN <<b>> |-> PartSum(<<b>>[i])]
<1>2. t \in Seq(Nat)
  BY <1>1, PartsSumType
<1>3. Len(t) = 1 /\ t[1] = PartSum(b)
  OBVIOUS
<1> HIDE DEF t
<1>4. SumSeq(t) = PartSum(b)
  BY <1>2, <1>3, SumSeqShort
<1>5. PartsSum(<<b>>) = PartSum(b)
  BY <1>4 DEF PartsSum, t
<1> DEFINE p == <<b>>
<1>6. p \in Seq(Seq(Byte)) /\ PartsSum(p) = PartSum(b)
  BY <1>1, <1>5
<1> HIDE DEF p
<1>7. InternetChecksum(p) = 65535 - Folded(PartSum(b)) /\ InternetChecksum(p) \in U16
  BY <1>6, ChecksumIs
<1> QED BY <1>7 DEF p

\* Where the words of a part of 2k bytes end and those of the next begin.
LEMMA Halves ==
  ASSUME NEW k \in Nat, NEW M \in Nat
  PROVE  /\ (2 * k + M + 1) \div 2 = k + ((M + 1) \div 2)
         /\ (2 * k + 1) \div 2 = k
         /\ (M + 1) \div 2 \in Nat
         /\ 2 * ((M + 1) \div 2) <= M + 1
OBVIOUS

\* w holds the n words of the m bytes b: what WordsAre says of Words(b).
AreWords(b, m, n, w) ==
  /\ w \in Seq(Nat)
  /\ Len(w) = n
  /\ \A i \in 1 .. n :
       w[i] = b[2 * i - 1] * 256 + (IF 2 * i <= m THEN b[2 * i] ELSE 0)

\* There are n words in m bytes.
Halved(m, n) == n = (m + 1) \div 2

\* Words(b) are the words of b.
LEMMA WordsHold ==
  ASSUME NEW b \in Seq(Byte), NEW m, m = Len(b), NEW n, Halved(m, n)
  PROVE  AreWords(b, m, n, Words(b))
<1>1. /\ Words(b) \in Seq(Nat)
      /\ Len(Words(b)) = (Len(b) + 1) \div 2
      /\ \A i \in 1 .. (Len(b) + 1) \div 2 :
           Words(b)[i] = b[2 * i - 1] * 256 + (IF 2 * i <= Len(b) THEN b[2 * i] ELSE 0)
  BY WordsAre, ZenonT(60)
<1>2. n = (Len(b) + 1) \div 2
  BY Zenon DEF Halved
<1> QED BY <1>1, <1>2, ZenonT(60) DEF AreWords

\* The words of a sequence of bytes are those of its parts, when the first has an even
\* number of bytes.
LEMMA WordsConcat ==
  ASSUME NEW a \in Seq(Byte), NEW b \in Seq(Byte), NEW k \in Nat, Len(a) = 2 * k
  PROVE  Words(a \o b) = Words(a) \o Words(b)
<1> DEFINE c == a \o b
           L == Len(a)
           M == Len(b)
           n == (M + 1) \div 2
<1>1. /\ c \in Seq(Byte) /\ Len(c) = L + M /\ M \in Nat /\ L \in Nat /\ L = 2 * k
      /\ \A i \in 1 .. L + M : c[i] = IF i <= L THEN a[i] ELSE b[i - L]
  <2>1. Len(a) \in Nat /\ Len(b) \in Nat
    OBVIOUS
  <2> HIDE DEF L, M
  <2> QED BY <2>1, ConcatProperties DEF L, M
<1> HIDE DEF L, M
<1>2. (L + M + 1) \div 2 = k + n /\ (L + 1) \div 2 = k /\ n \in Nat /\ 2 * n <= M + 1
  BY <1>1, Halves
<1>5. /\ Words(b) \in Seq(Nat) /\ Len(Words(b)) = n
      /\ \A i \in 1 .. n :
           Words(b)[i] = b[2 * i - 1] * 256 + (IF 2 * i <= M THEN b[2 * i] ELSE 0)
  <2>1. AreWords(b, M, n, Words(b))
    <3>1. M = Len(b) /\ Halved(M, n)
      BY Zenon DEF M, Halved
    <3> HIDE DEF n
    <3> QED BY <3>1, WordsHold
  <2> QED BY <2>1, Zenon DEF AreWords
<1> HIDE DEF c, n
<1>3. /\ Words(c) \in Seq(Nat) /\ Len(Words(c)) = k + n
      /\ \A i \in 1 .. k + n :
           Words(c)[i] = c[2 * i - 1] * 256 + (IF 2 * i <= L + M THEN c[2 * i] ELSE 0)
  <2>1. L + M = Len(c) /\ Halved(L + M, k + n)
    BY <1>1, <1>2 DEF Halved
  <2>2. AreWords(c, L + M, k + n, Words(c))
    BY <1>1, <2>1, WordsHold
  <2> QED BY <2>2, Zenon DEF AreWords
<1>4. /\ Words(a) \in Seq(Nat) /\ Len(Words(a)) = k
      /\ \A i \in 1 .. k :
           Words(a)[i] = a[2 * i - 1] * 256 + (IF 2 * i <= L THEN a[2 * i] ELSE 0)
  <2>1. L = Len(a) /\ Halved(L, k)
    BY <1>1, <1>2 DEF L, Halved
  <2>2. AreWords(a, L, k, Words(a))
    BY <2>1, WordsHold
  <2> QED BY <2>2, Zenon DEF AreWords
<1> DEFINE u == Words(a)
           v == Words(b)
<1>6. /\ u \o v \in Seq(Nat) /\ Len(u \o v) = k + n
      /\ \A i \in 1 .. k + n : (u \o v)[i] = IF i <= k THEN u[i] ELSE v[i - k]
  <2>1. u \in Seq(Nat) /\ v \in Seq(Nat) /\ Len(u) = k /\ Len(v) = n
    BY <1>4, <1>5
  <2> HIDE DEF u, v
  <2> QED BY <2>1, ConcatProperties
<1> HIDE DEF u, v
<1>7. ASSUME NEW i \in 1 .. k + n PROVE Words(c)[i] = (u \o v)[i]
  <2>0. i \in Nat /\ i >= 1 /\ i <= k + n
    BY <1>2
  <2>1. CASE i <= k
    <3>1. 2 * i - 1 \in 1 .. L + M /\ 2 * i \in 1 .. L + M /\ i \in 1 .. k
      BY <2>0, <2>1, <1>1
    <3>2. 2 * i - 1 <= L /\ 2 * i <= L /\ 2 * i <= L + M
      BY <2>0, <2>1, <1>1
    <3>3. c[2 * i - 1] = a[2 * i - 1] /\ c[2 * i] = a[2 * i]
      BY <3>1, <3>2, <1>1
    <3>4. Words(c)[i] = c[2 * i - 1] * 256 + c[2 * i]
      BY <3>2, <1>3
    <3>5. u[i] = a[2 * i - 1] * 256 + a[2 * i]
      BY <3>1, <3>2, <1>4 DEF u
    <3>6. (u \o v)[i] = u[i]
      BY <2>1, <1>6
    <3> QED BY <3>3, <3>4, <3>5, <3>6
  <2>2. CASE i > k
    <3> DEFINE j == i - k
    <3>1. j \in 1 .. n /\ j \in Nat /\ j >= 1 /\ j <= n /\ i = k + j
      BY <2>0, <2>2, <1>2
    <3>9. (u \o v)[i] = v[j]
      BY <1>6, <2>2, <2>0
    <3> HIDE DEF j
    <3>2. 2 * j - 1 <= M /\ 2 * i = L + 2 * j /\ 2 * i - 1 = L + (2 * j - 1)
      BY <3>1, <1>1, <1>2
    <3>4. c[2 * i - 1] = b[2 * j - 1]
      <4>1. 2 * i - 1 \in 1 .. L + M /\ ~(2 * i - 1 <= L) /\ (2 * i - 1) - L = 2 * j - 1
        BY <3>1, <3>2, <1>1
      <4> QED BY <4>1, <1>1
    <3>5. 2 * i <= L + M <=> 2 * j <= M
      BY <3>1, <3>2, <1>1
    <3>6. ASSUME 2 * j <= M PROVE c[2 * i] = b[2 * j]
      <4>1. 2 * i \in 1 .. L + M /\ ~(2 * i <= L) /\ 2 * i - L = 2 * j
        BY <3>1, <3>2, <3>6, <1>1
      <4> QED BY <4>1, <1>1
    <3>7. Words(c)[i] = b[2 * j - 1] * 256 + (IF 2 * j <= M THEN b[2 * j] ELSE 0)
      BY <3>4, <3>5, <3>6, <1>3, SMTT(60)
    <3>8. v[j] = b[2 * j - 1] * 256 + (IF 2 * j <= M THEN b[2 * j] ELSE 0)
      BY <3>1, <1>5 DEF v
    <3> QED BY <3>7, <3>8, <3>9
  <2>3. i <= k \/ i > k
    BY <2>0
  <2> QED BY <2>1, <2>2, <2>3
<1>8. Words(c) = u \o v
  BY <1>3, <1>6, <1>7, SeqEqual, ZenonT(60)
<1> QED BY <1>8 DEF c, u, v

\* Behind an even number of bytes the words of the rest are its own.
LEMMA PartSumConcat ==
  ASSUME NEW a \in Seq(Byte), NEW b \in Seq(Byte), NEW k \in Nat, Len(a) = 2 * k
  PROVE  PartSum(a \o b) = PartSum(a) + PartSum(b)
<1>1. Words(a) \in Seq(Nat) /\ Words(b) \in Seq(Nat)
  BY WordsAre
<1> QED BY <1>1, WordsConcat, SumSeqConcat DEF PartSum

-----------------------------------------------------------------------------
(* The options of a DHCP message                                           *)

\* The concatenations of the first sequences of a sequence of them.
Concats(seqs, f) ==
  /\ DOMAIN f = 0 .. Len(seqs) /\ f[0] = <<>>
  /\ \A k \in 1 .. Len(seqs) : f[k] = f[k - 1] \o seqs[k]

\* FlattenSeq's function, from 1 on.
Flattens(seqs, h) ==
  h = [i \in 1 .. Len(seqs) |-> IF i = 1 THEN seqs[i] ELSE h[i - 1] \o seqs[i]]

\* The concatenations of the first k sequences, for every k.
LEMMA ConcatsExist ==
  ASSUME NEW seqs \in Seq(Seq(Byte))
  PROVE  \E f : Concats(seqs, f) /\ \A k \in 0 .. Len(seqs) : f[k] \in Seq(Byte)
<1> DEFINE N == Len(seqs)
           X == Seq(Byte)
           g == [n \in 1 .. N |-> [x \in X |-> x \o seqs[n]]]
<1>0. N \in Nat /\ <<>> \in X /\ \A n \in 1 .. N : seqs[n] \in X
  BY ElementOfSeq
<1> HIDE DEF N
<1>1. g \in [1 .. N -> [X -> X]]
  BY <1>0, ConcatProperties
<1>2. \E f : Iterates(X, <<>>, N, g, f)
  <2> HIDE DEF g, X
  <2> QED BY <1>0, <1>1, Iteration, Zenon
<1>3. PICK f : Iterates(X, <<>>, N, g, f)
  BY <1>2
<1>4. f \in [0 .. N -> X] /\ f[0] = <<>>
  BY <1>3 DEF Iterates
<1>5. ASSUME NEW k \in 1 .. N PROVE f[k] = f[k - 1] \o seqs[k]
  <2>1. f[k] = g[k][f[k - 1]]
    BY <1>3 DEF Iterates
  <2>2. f[k - 1] \in X
    BY <1>4, <1>0
  <2>3. g[k][f[k - 1]] = f[k - 1] \o seqs[k]
    <3> HIDE DEF X
    <3> QED BY <2>2
  <2> QED BY <2>1, <2>3
<1>6. Concats(seqs, f)
  BY <1>4, <1>5 DEF Concats, N
<1>7. \A k \in 0 .. Len(seqs) : f[k] \in Seq(Byte)
  BY <1>4 DEF N
<1> QED BY <1>6, <1>7

\* FlattenSeq, which folds from the other end, gives the last of them.
LEMMA FlattenIs ==
  ASSUME NEW seqs \in Seq(Seq(Byte)), NEW f, Concats(seqs, f),
         \A k \in 0 .. Len(seqs) : f[k] \in Seq(Byte)
  PROVE  FlattenSeq(seqs) = f[Len(seqs)]
<1> DEFINE N == Len(seqs)
<1>0. N \in Nat /\ \A k \in 1 .. N : seqs[k] \in Seq(Byte)
  BY ElementOfSeq
<1>1. f[0] = <<>> /\ \A k \in 1 .. N : f[k] = f[k - 1] \o seqs[k]
  BY DEF Concats
<1>2. CASE N = 0
  <2>1. seqs = <<>>
    BY <1>2
  <2> QED BY <1>1, <1>2, <2>1 DEF FlattenSeq
<1>3. CASE N # 0
  <2> DEFINE h == CHOOSE h : Flattens(seqs, h)
             e == [k \in 1 .. N |-> f[k]]
  <2>1. FlattenSeq(seqs) = h[N]
    BY <1>3 DEF FlattenSeq, Flattens
  <2>2. Flattens(seqs, e)
    <3> SUFFICES ASSUME NEW k \in 1 .. N
                 PROVE  f[k] = IF k = 1 THEN seqs[k] ELSE e[k - 1] \o seqs[k]
      BY DEF Flattens
    <3>1. CASE k = 1
      <4>a. f[k] = f[k - 1] \o seqs[k]
        BY <1>1
      <4>0. k - 1 = 0
        BY <3>1
      <4>1. f[1] = f[0] \o seqs[1]
        BY <4>0, <4>a, <3>1
      <4>2. <<>> \o seqs[1] = seqs[1]
        BY <1>0, <3>1, ConcatEmptySeq
      <4> QED BY <4>1, <4>2, <1>1, <3>1
    <3>2. CASE k # 1
      <4>1. k - 1 \in 1 .. N
        BY <3>2, <1>0
      <4> QED BY <4>1, <3>2, <1>1
    <3> QED BY <3>1, <3>2
  <2>3. Flattens(seqs, h)
    BY <2>2
  <2> HIDE DEF h
  <2> DEFINE S == {n \in Nat : n + 1 <= N => h[n + 1] = f[n + 1]}
  <2>4. 0 \in S
    <3>1. 1 \in 1 .. N
      BY <1>0, <1>3
    <3>2. h[1] = seqs[1]
      BY <2>3, <3>1 DEF Flattens
    <3>3. e[1] = seqs[1]
      BY <2>2, <3>1 DEF Flattens
    <3> QED BY <3>1, <3>2, <3>3
  <2>5. ASSUME NEW n \in Nat, n \in S PROVE n + 1 \in S
    <3> SUFFICES ASSUME n + 2 <= N PROVE h[n + 2] = f[n + 2]
      BY <1>0
    <3>1. n + 2 \in 1 .. N /\ n + 2 # 1 /\ (n + 2) - 1 = n + 1 /\ h[n + 1] = f[n + 1]
      BY <2>5, <1>0
    <3>2. h[n + 2] = h[n + 1] \o seqs[n + 2]
      BY <2>3, <3>1 DEF Flattens
    <3>3. f[n + 2] = f[n + 1] \o seqs[n + 2]
      BY <1>1, <3>1
    <3> QED BY <3>1, <3>2, <3>3
  <2>6. N - 1 \in S
    <3>1. N - 1 \in Nat
      BY <1>0, <1>3
    <3> HIDE DEF S
    <3> QED BY <3>1, <2>4, <2>5, Induction
  <2>7. h[N] = f[N]
    BY <2>6, <1>0
  <2> QED BY <2>1, <2>7
<1> QED BY <1>2, <1>3

\* b starts with a.
Starts(a, b) == Len(a) <= Len(b) /\ \A i \in 1 .. Len(a) : b[i] = a[i]

\* A beginning stays one when more follows.
LEMMA StartsConcat ==
  ASSUME NEW a \in Seq(Byte), NEW b \in Seq(Byte), NEW c \in Seq(Byte), Starts(a, b)
  PROVE  Starts(a, b \o c)
<1>1. /\ Len(b \o c) = Len(b) + Len(c)
      /\ \A i \in 1 .. Len(b) + Len(c) : (b \o c)[i] = IF i <= Len(b) THEN b[i] ELSE c[i - Len(b)]
  BY ConcatProperties
<1>2. Len(a) \in Nat /\ Len(b) \in Nat /\ Len(c) \in Nat /\ Len(a) <= Len(b)
  BY DEF Starts
<1>3. ASSUME NEW i \in 1 .. Len(a) PROVE (b \o c)[i] = a[i]
  <2>1. i \in 1 .. Len(b) + Len(c) /\ i <= Len(b)
    BY <1>2
  <2> QED BY <2>1, <1>1 DEF Starts
<1> QED BY <1>1, <1>2, <1>3 DEF Starts

\* Each concatenation starts with the ones before it.
LEMMA ConcatsPrefix ==
  ASSUME NEW seqs \in Seq(Seq(Byte)), NEW f, Concats(seqs, f),
         \A j \in 0 .. Len(seqs) : f[j] \in Seq(Byte), NEW k \in 0 .. Len(seqs)
  PROVE  \A m \in k .. Len(seqs) : Starts(f[k], f[m])
<1> DEFINE N == Len(seqs)
           S == {n \in Nat : k + n <= N => Starts(f[k], f[k + n])}
<1>0. N \in Nat /\ k \in Nat /\ \A j \in 1 .. N : seqs[j] \in Seq(Byte)
  BY ElementOfSeq
<1>1. 0 \in S
  <2>1. k + 0 = k /\ Len(f[k]) \in Nat
    BY <1>0
  <2> QED BY <2>1 DEF Starts
<1>2. ASSUME NEW n \in Nat, n \in S PROVE n + 1 \in S
  <2> SUFFICES ASSUME k + (n + 1) <= N PROVE Starts(f[k], f[k + (n + 1)])
    OBVIOUS
  <2>1. /\ k + (n + 1) \in 1 .. N /\ (k + (n + 1)) - 1 = k + n /\ k + n \in 0 .. N
        /\ k + n <= N
    BY <1>0
  <2>2. Starts(f[k], f[k + n])
    BY <1>2, <2>1
  <2>3. f[k + (n + 1)] = f[k + n] \o seqs[k + (n + 1)]
    BY <2>1 DEF Concats
  <2>4. f[k + n] \in Seq(Byte) /\ seqs[k + (n + 1)] \in Seq(Byte) /\ f[k] \in Seq(Byte)
    BY <2>1, <1>0
  <2> QED BY <2>2, <2>3, <2>4, StartsConcat
<1>3. \A n \in Nat : n \in S
  <2> HIDE DEF S
  <2> QED BY <1>1, <1>2, Induction
<1>4. ASSUME NEW m \in k .. N PROVE Starts(f[k], f[m])
  <2>1. m - k \in Nat /\ k + (m - k) = m /\ m <= N
    BY <1>0
  <2>2. m - k \in S
    BY <2>1, <1>3
  <2> QED BY <2>1, <2>2
<1> QED BY <1>4

\* Where a sequence lies in the concatenation of all.
Placed(seqs, f, k) ==
  /\ Len(f[k]) = Len(f[k - 1]) + Len(seqs[k])
  /\ Len(f[k]) <= Len(f[Len(seqs)])
  /\ \A i \in 1 .. Len(seqs[k]) : f[Len(seqs)][Len(f[k - 1]) + i] = seqs[k][i]

\* Sequence k lies behind the ones before it.
LEMMA ConcatsPlace ==
  ASSUME NEW seqs \in Seq(Seq(Byte)), NEW f, Concats(seqs, f),
         \A j \in 0 .. Len(seqs) : f[j] \in Seq(Byte), NEW k \in 1 .. Len(seqs)
  PROVE  Placed(seqs, f, k)
<1> DEFINE N == Len(seqs)
           a == f[k - 1]
           b == seqs[k]
<1>0. N \in Nat /\ k \in 0 .. N /\ k - 1 \in 0 .. N /\ N \in k .. N
  OBVIOUS
<1>1. a \in Seq(Byte) /\ b \in Seq(Byte) /\ f[k] \in Seq(Byte) /\ f[k] = a \o b
  BY <1>0, ElementOfSeq DEF Concats
<1>2. Len(f[k]) <= Len(f[N]) /\ \A i \in 1 .. Len(f[k]) : f[N][i] = f[k][i]
  BY <1>0, ConcatsPrefix DEF Starts
<1> HIDE DEF a, b, N
<1>3. /\ Len(f[k]) = Len(a) + Len(b) /\ Len(a) \in Nat /\ Len(b) \in Nat
      /\ \A i \in 1 .. Len(a) + Len(b) : f[k][i] = IF i <= Len(a) THEN a[i] ELSE b[i - Len(a)]
  BY <1>1, ConcatProperties
<1>4. ASSUME NEW i \in 1 .. Len(b) PROVE f[N][Len(a) + i] = b[i]
  <2>1. Len(a) + i \in 1 .. Len(a) + Len(b) /\ ~(Len(a) + i <= Len(a))
        /\ (Len(a) + i) - Len(a) = i
    BY <1>3
  <2>2. f[N][Len(a) + i] = f[k][Len(a) + i]
    BY <2>1, <1>2, <1>3
  <2> QED BY <2>1, <2>2, <1>3
<1> QED BY <1>2, <1>3, <1>4 DEF a, b, N, Placed

\* The states the loop of parse_options goes through.
Walks(options, known, w) ==
  /\ w[0] = [cur |-> 0, parsed |-> [f \in known |-> None], result |-> None]
  /\ \A n \in 1 .. Len(options) + 1 : w[n] = Walk(options, w[n - 1])

\* The loop of parse_options goes through the states w.
LEMMA ParseOptionsIs ==
  ASSUME NEW options, Len(options) \in Nat, NEW known
  PROVE  \E w : /\ Walks(options, known, w)
                /\ ParseOptions(options, known) = w[Len(options) + 1].result
<1> DEFINE N == Len(options) + 1
           x == [cur |-> 0, parsed |-> [f \in known |-> None], result |-> None]
           Part(m, w) == w[0] = x /\ \A n \in 1 .. m : w[n] = Walk(options, w[n - 1])
           Solves(w) == w = [n \in 0 .. N |-> IF n = 0 THEN x ELSE Walk(options, w[n - 1])]
           S == {m \in Nat : \E w : Part(m, w)}
<1>0. N \in Nat
  OBVIOUS
<1> HIDE DEF x
<1>1. 0 \in S
  <2>1. Part(0, [i \in 0 .. 0 |-> x])
    OBVIOUS
  <2> QED BY <2>1
<1>2. ASSUME NEW m \in Nat, m \in S PROVE m + 1 \in S
  <2>1. PICK w : Part(m, w)
    BY <1>2
  <2> DEFINE v == [i \in 0 .. m + 1 |-> IF i <= m THEN w[i] ELSE Walk(options, w[m])]
  <2>2. v[0] = x
    BY <2>1
  <2>3. ASSUME NEW n \in 1 .. m + 1 PROVE v[n] = Walk(options, v[n - 1])
    <3>1. CASE n <= m
      <4>1. n \in 1 .. m /\ v[n] = w[n] /\ v[n - 1] = w[n - 1]
        BY <3>1
      <4> QED BY <4>1, <2>1
    <3>2. CASE n = m + 1
      <4>1. v[n] = Walk(options, w[m]) /\ v[n - 1] = w[m]
        BY <3>2
      <4> QED BY <4>1
    <3>3. n <= m \/ n = m + 1
      OBVIOUS
    <3> QED BY <3>1, <3>2, <3>3
  <2>4. Part(m + 1, v)
    <3> HIDE DEF v
    <3> QED BY <2>2, <2>3
  <2> HIDE DEF Part
  <2> QED BY <2>4
<1>3. N \in S
  <2> HIDE DEF S, N
  <2> QED BY <1>0, <1>1, <1>2, Induction
<1>4. PICK w : Part(N, w)
  BY <1>3
<1> HIDE DEF N
<1> DEFINE u == [n \in 0 .. N |-> w[n]]
           h == CHOOSE h : Solves(h)
<1>5. Solves(u)
  <2>1. ASSUME NEW n \in 0 .. N PROVE w[n] = IF n = 0 THEN x ELSE Walk(options, u[n - 1])
    <3>1. CASE n = 0
      BY <3>1, <1>4
    <3>2. CASE n # 0
      <4>1. n \in 1 .. N /\ n - 1 \in 0 .. N
        BY <3>2, <1>0
      <4>2. w[n] = Walk(options, w[n - 1])
        BY <4>1, <1>4
      <4> QED BY <4>1, <4>2, <3>2
    <3> QED BY <3>1, <3>2
  <2> QED BY <2>1
<1>6. Solves(h)
  <2> HIDE DEF Solves
  <2> QED BY <1>5
<1>7. ParseOptions(options, known) = h[N].result
  BY DEF ParseOptions, x, N
<1> HIDE DEF h
<1>8. h[0] = x /\ \A n \in 1 .. N : h[n] = Walk(options, h[n - 1])
  <2>1. 0 \in 0 .. N /\ \A n \in 1 .. N : n \in 0 .. N /\ n # 0
    BY <1>0
  <2> QED BY <2>1, <1>6
<1>9. Walks(options, known, h)
  BY <1>8 DEF Walks, x, N
<1> QED BY <1>7, <1>9 DEF N

\* The bytes of a concatenation.
LEMMA Join ==
  ASSUME NEW a \in Seq(Byte), NEW b \in Seq(Byte)
  PROVE  /\ a \o b \in Seq(Byte) /\ Len(a \o b) = Len(a) + Len(b)
         /\ Len(a) \in Nat /\ Len(b) \in Nat
         /\ \A i \in 1 .. Len(a) : (a \o b)[i] = a[i]
         /\ \A i \in 1 .. Len(b) : (a \o b)[Len(a) + i] = b[i]
<1>1. /\ a \o b \in Seq(Byte) /\ Len(a \o b) = Len(a) + Len(b)
      /\ \A i \in 1 .. Len(a) + Len(b) : (a \o b)[i] = IF i <= Len(a) THEN a[i] ELSE b[i - Len(a)]
  BY ConcatProperties
<1>2. Len(a) \in Nat /\ Len(b) \in Nat
  OBVIOUS
<1>3. ASSUME NEW i \in 1 .. Len(a) PROVE (a \o b)[i] = a[i]
  BY <1>1, <1>2
<1>4. ASSUME NEW i \in 1 .. Len(b) PROVE (a \o b)[Len(a) + i] = b[i]
  <2>1. Len(a) + i \in 1 .. Len(a) + Len(b) /\ ~(Len(a) + i <= Len(a))
        /\ (Len(a) + i) - Len(a) = i
    BY <1>2
  <2> QED BY <2>1, <1>1
<1> QED BY <1>1, <1>2, <1>3, <1>4

\* The bytes of an option: its tag, the length of its value, and the value.
IsItem(item) ==
  /\ item.tag \in Byte /\ item.tag # OPT_END
  /\ item.value \in Seq(Byte) /\ Len(item.value) <= 255

\* An option is a tag, a length and the value; a pad is a tag alone.
LEMMA EncodeIs ==
  ASSUME NEW item, IsItem(item)
  PROVE  /\ Encode(item) \in Seq(Byte)
         /\ Len(Encode(item)) >= 1 /\ Encode(item)[1] = item.tag
         /\ item.tag = OPT_PAD => Len(Encode(item)) = 1
         /\ item.tag # OPT_PAD =>
              /\ Len(Encode(item)) = 2 + Len(item.value)
              /\ Encode(item)[2] = Len(item.value)
              /\ \A i \in 1 .. Len(item.value) : Encode(item)[2 + i] = item.value[i]
<1> DEFINE v == item.value
           t == item.tag
<1>0. /\ v \in Seq(Byte) /\ Len(v) \in Nat /\ Len(v) \in Byte /\ t \in Byte /\ 0 \in Byte
      /\ 1 \in Nat
  <2>1. v \in Seq(Byte) /\ Len(v) <= 255 /\ t \in Byte
    BY DEF IsItem
  <2>2. Len(v) \in Nat
    BY <2>1
  <2> QED BY <2>1, <2>2, ByteIs
<1>1. CASE t = OPT_PAD
  <2>1. Encode(item) = <<0>>
    BY <1>1 DEF Encode, OPT_PAD
  <2> QED BY <2>1, <1>0, <1>1 DEF OPT_PAD
<1>2. CASE t # OPT_PAD
  <2> DEFINE h == <<t, Len(v)>>
  <2>1. Encode(item) = h \o v
    BY <1>2 DEF Encode
  <2>2. h \in Seq(Byte) /\ Len(h) = 2 /\ h[1] = t /\ h[2] = Len(v)
    BY <1>0
  <2> HIDE DEF h, v
  <2>3. /\ h \o v \in Seq(Byte) /\ Len(h \o v) = Len(h) + Len(v)
        /\ \A i \in 1 .. Len(h) : (h \o v)[i] = h[i]
        /\ \A i \in 1 .. Len(v) : (h \o v)[Len(h) + i] = v[i]
    BY <2>2, <1>0, Join
  <2>4. (h \o v)[1] = t /\ (h \o v)[2] = Len(v)
    BY <2>2, <2>3
  <2>5. \A i \in 1 .. Len(v) : (h \o v)[2 + i] = v[i]
    BY <2>2, <2>3
  <2> QED BY <1>2, <2>1, <2>2, <2>3, <2>4, <2>5, <1>0 DEF v
<1> QED BY <1>1, <1>2

\* `full` starts with the codes of the items, that of item k behind pos[k - 1], and an
\* End option.
Laid(items, full, pos) ==
  LET K == Len(items) IN
  /\ full \in Seq(Byte)
  /\ pos \in [0 .. K -> Nat] /\ pos[0] = 0
  /\ \A k \in 1 .. K :
       /\ pos[k] = pos[k - 1] + Len(Encode(items[k])) /\ pos[k] <= pos[K]
       /\ \A i \in 1 .. Len(Encode(items[k])) : full[pos[k - 1] + i] = Encode(items[k])[i]
  /\ pos[K] + 1 <= Len(full) /\ full[pos[K] + 1] = OPT_END

\* Option k of a message lies at pos[k - 1], and the End behind the last one.
LEMMA EncodedIs ==
  ASSUME NEW X, NEW items \in Seq(X), \A k \in 1 .. Len(items) : IsItem(items[k]),
         NEW tail \in Seq(Byte)
  PROVE  /\ Encoded(items) \in Seq(Byte)
         /\ \E pos : /\ Laid(items, Encoded(items) \o tail, pos)
                     /\ Len(Encoded(items)) = pos[Len(items)] + 1
<1> DEFINE K == Len(items)
           seqs == [i \in DOMAIN items |-> Encode(items[i])]
<1>0. K \in Nat /\ DOMAIN items = 1 .. K
  OBVIOUS
<1>1. ASSUME NEW i \in 1 .. K PROVE Encode(items[i]) \in Seq(Byte)
  BY EncodeIs
<1>2. /\ seqs \in Seq(Seq(Byte)) /\ Len(seqs) = K
      /\ \A k \in 1 .. K : seqs[k] = Encode(items[k])
  BY <1>0, <1>1
<1> HIDE DEF seqs
<1>3. PICK f : Concats(seqs, f) /\ \A k \in 0 .. Len(seqs) : f[k] \in Seq(Byte)
  BY <1>2, ConcatsExist
<1>4. FlattenSeq(seqs) = f[K]
  BY <1>2, <1>3, FlattenIs
<1> DEFINE b == f[K]
           e == <<OPT_END>>
           pos == [k \in 0 .. K |-> Len(f[k])]
<1>5. Encoded(items) = b \o e
  BY <1>4 DEF Encoded, seqs
<1>6. b \in Seq(Byte) /\ e \in Seq(Byte) /\ Len(e) = 1 /\ e[1] = OPT_END /\ Len(b) \in Nat
  BY <1>0, <1>2, <1>3, ByteIs, SMTT(60) DEF OPT_END
<1>7. f[0] = <<>> /\ \A k \in 0 .. K : f[k] \in Seq(Byte)
  BY <1>2, <1>3 DEF Concats
<1>8. pos \in [0 .. K -> Nat] /\ pos[0] = 0 /\ pos[K] = Len(b)
  BY <1>0, <1>7
<1>9. ASSUME NEW k \in 1 .. K
      PROVE  /\ pos[k] = pos[k - 1] + Len(seqs[k]) /\ pos[k] <= pos[K]
             /\ \A i \in 1 .. Len(seqs[k]) : b[pos[k - 1] + i] = seqs[k][i]
  <2>1. /\ Len(f[k]) = Len(f[k - 1]) + Len(seqs[k])
        /\ Len(f[k]) <= Len(f[K])
        /\ \A i \in 1 .. Len(seqs[k]) : f[K][Len(f[k - 1]) + i] = seqs[k][i]
    <3>1. k \in 1 .. Len(seqs)
      BY <1>2
    <3> HIDE DEF K
    <3>2. Placed(seqs, f, k)
      BY <1>2, <1>3, <3>1, ConcatsPlace
    <3> QED BY <3>2, <1>2 DEF Placed
  <2>2. k \in 0 .. K /\ k - 1 \in 0 .. K /\ K \in 0 .. K
    BY <1>0
  <2> QED BY <2>1, <2>2
<1> HIDE DEF pos, b, e
<1> DEFINE c == b \o e
           full == c \o tail
<1>10. /\ c \in Seq(Byte) /\ Len(c) = Len(b) + Len(e)
       /\ \A i \in 1 .. Len(b) : c[i] = b[i]
       /\ \A i \in 1 .. Len(e) : c[Len(b) + i] = e[i]
  BY <1>6, Join
<1>11. Len(tail) \in Nat /\ c[Len(b) + 1] = OPT_END
  BY <1>6, <1>10
<1> HIDE DEF c
<1>12. /\ full \in Seq(Byte) /\ Len(full) = Len(c) + Len(tail)
       /\ \A i \in 1 .. Len(c) : full[i] = c[i]
  BY <1>10, Join
<1> HIDE DEF full
<1>13. \A i \in 1 .. Len(b) : full[i] = b[i]
  BY <1>6, <1>10, <1>12
<1>14. full[Len(b) + 1] = OPT_END /\ Len(b) + 1 <= Len(full)
  BY <1>6, <1>10, <1>11, <1>12
<1>15. ASSUME NEW k \in 1 .. K, NEW i \in 1 .. Len(seqs[k])
       PROVE  full[pos[k - 1] + i] = seqs[k][i]
  <2>1. /\ pos[k] = pos[k - 1] + Len(seqs[k]) /\ pos[k] <= pos[K]
        /\ b[pos[k - 1] + i] = seqs[k][i]
    BY <1>9
  <2>2. Len(seqs[k]) \in Nat /\ pos[k - 1] \in Nat
    <3>1. seqs[k] \in Seq(Byte) /\ k - 1 \in 0 .. K
      BY <1>1, <1>2, <1>0
    <3>2. Len(seqs[k]) \in Nat
      BY <3>1, LenProperties
    <3> QED BY <3>1, <3>2, <1>8
  <2>3. pos[k - 1] + i \in 1 .. Len(b)
    BY <2>1, <2>2, <1>8, <1>6, SMTT(60)
  <2> QED BY <2>1, <2>3, <1>13
<1>16. ASSUME NEW k \in 1 .. K
       PROVE  /\ pos[k] = pos[k - 1] + Len(Encode(items[k])) /\ pos[k] <= pos[K]
              /\ \A i \in 1 .. Len(Encode(items[k])) :
                   full[pos[k - 1] + i] = Encode(items[k])[i]
  <2>1. seqs[k] = Encode(items[k])
    BY <1>2
  <2>2. pos[k] = pos[k - 1] + Len(seqs[k]) /\ pos[k] <= pos[K]
    BY <1>9
  <2>3. \A i \in 1 .. Len(seqs[k]) : full[pos[k - 1] + i] = seqs[k][i]
    BY <1>15
  <2> HIDE DEF K
  <2> QED BY <2>1, <2>2, <2>3, Zenon
<1>17. pos[K] + 1 <= Len(full) /\ full[pos[K] + 1] = OPT_END
  BY <1>8, <1>14
<1>18. Laid(items, full, pos)
  BY <1>8, <1>12, <1>16, <1>17, Zenon DEF Laid
<1> QED BY <1>18, <1>5, <1>6, <1>8, <1>10 DEF full, c

\* What is made of the first k items.
MeantSoFar(items, k, f) ==
  LET mine == {i \in 1 .. k : items[i].tag = f}
  IN  IF mine = {} THEN None ELSE items[Max(mine)].means

\* One option more changes what is meant by its own tag only.
LEMMA MeantStep ==
  ASSUME NEW items, NEW k \in Nat, NEW f
  PROVE  MeantSoFar(items, k + 1, f) =
           IF items[k + 1].tag = f THEN items[k + 1].means ELSE MeantSoFar(items, k, f)
<1> DEFINE M(j) == {i \in 1 .. j : items[i].tag = f}
<1>1. CASE items[k + 1].tag = f
  <2>1. k + 1 \in M(k + 1) /\ \A y \in M(k + 1) : y \in Nat /\ k + 1 >= y
    BY <1>1
  <2>2. Max(M(k + 1)) = k + 1
    <3> HIDE DEF M
    <3>1. \E x \in M(k + 1) : \A y \in M(k + 1) : x >= y
      BY <2>1
    <3>2. /\ Max(M(k + 1)) \in M(k + 1)
          /\ \A y \in M(k + 1) : Max(M(k + 1)) >= y
      BY <3>1, Zenon DEF Max
    <3> QED BY <3>2, <2>1
  <2> QED BY <1>1, <2>1, <2>2 DEF MeantSoFar
<1>2. CASE items[k + 1].tag # f
  <2>1. M(k + 1) = M(k)
    BY <1>2
  <2> QED BY <1>2, <2>1 DEF MeantSoFar
<1> QED BY <1>1, <1>2

\* After the last option, what is meant so far is what is meant.
LEMMA MeantIs ==
  ASSUME NEW X, NEW items \in Seq(X), NEW f
  PROVE  Meant(items, f) = MeantSoFar(items, Len(items), f) /\ MeantSoFar(items, 0, f) = None
<1>1. DOMAIN items = 1 .. Len(items)
  OBVIOUS
<1>2. Meant(items, f) = MeantSoFar(items, Len(items), f)
  BY <1>1 DEF Meant, MeantSoFar
<1>3. {i \in 1 .. 0 : items[i].tag = f} = {}
  OBVIOUS
<1> QED BY <1>2, <1>3 DEF MeantSoFar

\* The reader accepts an option it knows exactly when it means something, and takes that
\* of it.
Fit(item, known) ==
  item.tag # OPT_PAD =>
    IF item.tag \in known
    THEN /\ Acceptable(item.tag, item.value) <=> item.means # None
         /\ Acceptable(item.tag, item.value) => item.means = Kept(item.tag, item.value)
    ELSE Acceptable(item.tag, item.value)

\* The first k items are in order.
InOrder(items, known, k) == \A i \in 1 .. k : items[i].tag \in known => items[i].means # None

\* The loop has taken k items.
Taken(items, known, pos, k) ==
  [cur |-> pos[k], parsed |-> [f \in known |-> MeantSoFar(items, k, f)], result |-> None]

\* The result for the first n bytes.
Final(items, known, pos, n) ==
  IF n > pos[Len(items)] /\ InOrder(items, known, Len(items))
  THEN Ok([f \in known |-> MeantSoFar(items, Len(items), f)])
  ELSE Err("InvalidTLV")

\* The positions in order.
LEMMA LaidOrder ==
  ASSUME NEW X, NEW items \in Seq(X), NEW full, NEW pos, Laid(items, full, pos),
         NEW k \in 0 .. Len(items)
  PROVE  pos[k] \in Nat /\ pos[Len(items)] \in Nat /\ pos[k] <= pos[Len(items)]
<1>1. Len(items) \in Nat /\ Len(items) \in 0 .. Len(items) /\ pos \in [0 .. Len(items) -> Nat]
  BY DEF Laid
<1>2. CASE k = 0
  BY <1>1, <1>2 DEF Laid
<1>3. CASE k # 0
  <2>1. k \in 1 .. Len(items)
    BY <1>3
  <2> QED BY <2>1, <1>1 DEF Laid
<1> QED BY <1>2, <1>3

\* Positions within a value of len bytes.
Span(cur, len, n) ==
  /\ cur + 3 \in Nat /\ cur + 2 + len \in Nat /\ cur + 3 >= 1
  /\ (cur + 2 + len) - (cur + 3) + 1 = len
  /\ cur + 2 + len = (cur + 3) + len - 1
  /\ \A i \in 1 .. len : /\ 2 + i \in 1 .. 2 + len /\ cur + 2 + i = cur + (2 + i)
                          /\ cur + 2 + i \in 1 .. n /\ (cur + 3) + i - 1 = cur + 2 + i

\* A value that ends in front of position n does so inside these bounds.
LEMMA SpanHolds ==
  ASSUME NEW cur \in Nat, NEW len \in Nat, NEW n \in Nat, cur + 2 + len <= n
  PROVE  Span(cur, len, n)
BY DEF Span

\* The value the loop finds behind the tag and the length of item k.
ValueAt(options, cur, len) == SubSeq(options, cur + 3, cur + 2 + len)

\* parse_options takes the value of option k, and no other bytes, for it.
LEMMA ValueFound ==
  ASSUME NEW X, NEW items \in Seq(X), NEW full, NEW pos, Laid(items, full, pos),
         NEW k \in 1 .. Len(items), IsItem(items[k]), items[k].tag # OPT_PAD,
         NEW n \in Nat, n <= Len(full), pos[k] <= n, NEW cur \in Nat, cur = pos[k - 1]
  PROVE  ValueAt(SubSeq(full, 1, n), cur, Len(items[k].value)) = items[k].value
<1> DEFINE v == items[k].value
           L == Len(v)
           e == Encode(items[k])
           options == SubSeq(full, 1, n)
           s == SubSeq(options, cur + 3, cur + 2 + L)
<1>1. /\ Len(e) = 2 + L /\ v \in Seq(Byte) /\ L \in Nat
      /\ \A i \in 1 .. L : e[2 + i] = v[i]
  <2>1. Len(e) = 2 + L /\ \A i \in 1 .. L : e[2 + i] = v[i]
    BY EncodeIs, Zenon
  <2>2. v \in Seq(Byte)
    BY DEF IsItem
  <2>3. L \in Nat
    BY <2>2, LenProperties, Zenon
  <2> QED BY <2>1, <2>2, <2>3, Zenon
<1>2. full \in Seq(Byte) /\ Len(full) \in Nat
  BY DEF Laid
<1>3. pos[k] = cur + Len(e) /\ \A i \in 1 .. Len(e) : full[cur + i] = e[i]
  BY DEF Laid
<1> HIDE DEF v, e, L
<1>4. cur + 2 + L <= n
  BY <1>1, <1>2, <1>3
<1>0. Span(cur, L, n)
  BY <1>1, <1>4, SpanHolds
<1>5. options \in Seq(Byte) /\ Len(options) = n /\ \A i \in 1 .. n : options[i] = full[i]
  <2>1. \A i \in 1 .. n : full[i] \in Byte
    BY <1>2
  <2>2. /\ options \in Seq(Byte) /\ Len(options) = IF 1 <= n THEN n - 1 + 1 ELSE 0
        /\ \A i \in 1 .. n - 1 + 1 : options[i] = full[1 + i - 1]
    BY <2>1, SubSeqProperties
  <2> QED BY <2>2
<1> HIDE DEF options
<1>6. /\ s \in Seq(Byte) /\ Len(s) = L
      /\ \A i \in 1 .. L : s[i] = options[cur + 2 + i]
  <2> DEFINE p == cur + 3
             q == cur + 2 + L
  <2>1. p \in Nat /\ q \in Nat /\ p >= 1 /\ q <= n /\ q - p + 1 = L /\ q = p + L - 1
        /\ \A i \in 1 .. L : p + i - 1 = cur + 2 + i
    BY <1>0, <1>4 DEF Span
  <2> HIDE DEF p, q
  <2>3. \A i \in p .. q : options[i] \in Byte
    BY <2>1, <1>5
  <2>4. /\ SubSeq(options, p, q) \in Seq(Byte)
        /\ Len(SubSeq(options, p, q)) = IF p <= q THEN q - p + 1 ELSE 0
        /\ \A i \in 1 .. q - p + 1 : SubSeq(options, p, q)[i] = options[p + i - 1]
    BY <2>1, <2>3, SubSeqProperties, SMTT(60)
  <2>5. Len(SubSeq(options, p, q)) = L
    BY <2>1, <2>4, <1>1
  <2> QED BY <2>1, <2>4, <2>5, ZenonT(60) DEF p, q
<1> HIDE DEF s
<1>7. ASSUME NEW i \in 1 .. L PROVE s[i] = v[i]
  <2>1. 2 + i \in 1 .. Len(e) /\ cur + 2 + i = cur + (2 + i) /\ cur + 2 + i \in 1 .. n
    BY <1>1, <1>0 DEF Span
  <2> QED BY <2>1, <1>1, <1>3, <1>5, <1>6, ZenonT(60)
<1>8. s = v
  <2>1. Len(v) = L
    BY DEF L
  <2> QED BY <1>1, <1>6, <1>7, <2>1, SeqEqual
<1> QED BY <1>8 DEF s, options, v, L, ValueAt

\* What an iteration does, by what it finds at the cursor.
LEMMA WalkCases ==
  ASSUME NEW options, NEW s, s.result = None, NEW n \in Nat, Len(options) = n,
         s.cur \in Nat
  PROVE  /\ s.cur >= n => Walk(options, s) = [s EXCEPT !.result = Err("InvalidTLV")]
         /\ s.cur < n /\ options[s.cur + 1] = OPT_PAD
              => Walk(options, s) = [s EXCEPT !.cur = s.cur + 1]
         /\ s.cur < n /\ options[s.cur + 1] = OPT_END
              => Walk(options, s) = [s EXCEPT !.result = Ok(s.parsed)]
<1>1. ~(s.cur < n /\ s.cur >= n)
  OBVIOUS
<1>2. OPT_PAD # OPT_END
  BY DEF OPT_PAD, OPT_END
<1> QED BY <1>1, <1>2 DEF Walk

\* At an option that is neither a pad nor the End: its value may be missing, may not be
\* acceptable, or is stored.
AtOption(options, s, cur, tag) ==
  /\ s.result = None /\ s.cur = cur /\ cur \in Nat /\ Len(options) \in Nat
  /\ cur < Len(options) /\ options[cur + 1] = tag /\ tag # OPT_PAD /\ tag # OPT_END

\* The length byte or the value of the option at cur is missing.
NoValue(options, cur) ==
  cur + 1 >= Len(options) \/ ~(cur + 2 + options[cur + 2] <= Len(options))

\* The option at cur has a value of len bytes.
HasValue(options, cur, len) ==
  /\ cur + 1 < Len(options) /\ len \in Nat /\ options[cur + 2] = len
  /\ cur + 2 + len <= Len(options)

\* An option without a length or with a value cut off is an error.
LEMMA WalkOption ==
  ASSUME NEW options, NEW s, NEW cur, NEW tag, AtOption(options, s, cur, tag),
         NoValue(options, cur)
  PROVE  Walk(options, s) = [s EXCEPT !.result = Err("InvalidTLV")]
<1> DEFINE n == Len(options)
<1>1. n \in Nat /\ cur \in Nat /\ cur < n
  BY DEF AtOption
<1>2. ~(cur < n /\ cur >= n) /\ ~(cur + 1 < n /\ cur + 1 >= n)
  BY <1>1
<1> QED BY <1>1, <1>2 DEF Walk, NoValue, AtOption

\* An option with its value is stored when its tag takes such a value.
LEMMA WalkValue ==
  ASSUME NEW options, NEW s, NEW cur, NEW tag, AtOption(options, s, cur, tag),
         NEW len, HasValue(options, cur, len)
  PROVE  Walk(options, s) =
           IF Acceptable(tag, ValueAt(options, cur, len))
           THEN [s EXCEPT !.cur = cur + 2 + len,
                          !.parsed = Store(s.parsed, tag, ValueAt(options, cur, len))]
           ELSE [s EXCEPT !.result = Err("InvalidTLV")]
<1> DEFINE n == Len(options)
<1>1. n \in Nat /\ cur \in Nat /\ cur < n
  BY DEF AtOption
<1>2. ~(cur >= n)
  BY <1>1
<1> QED BY <1>1, <1>2 DEF Walk, ValueAt, HasValue, AtOption

\* An iteration takes the next item, or comes to the result.
LEMMA WalkStep ==
  ASSUME NEW X, NEW items \in Seq(X), NEW full, NEW pos, Laid(items, full, pos),
         NEW known, OPT_PAD \notin known,
         \A i \in 1 .. Len(items) : IsItem(items[i]) /\ Fit(items[i], known),
         NEW n \in Nat, n <= Len(full), NEW k \in 0 .. Len(items),
         InOrder(items, known, k), pos[k] <= n
  PROVE  LET t == Walk(SubSeq(full, 1, n), Taken(items, known, pos, k)) IN
         \/ t.result = Final(items, known, pos, n)
         \/ /\ k < Len(items) /\ t = Taken(items, known, pos, k + 1)
            /\ InOrder(items, known, k + 1) /\ pos[k + 1] <= n /\ pos[k] < pos[k + 1]
<1> DEFINE K == Len(items)
           options == SubSeq(full, 1, n)
           s == Taken(items, known, pos, k)
           cur == pos[k]
           t == Walk(options, s)
           error == Err("InvalidTLV")
<1>1. K \in Nat /\ cur \in Nat /\ pos[K] \in Nat /\ cur <= pos[K] /\ k \in Nat /\ cur <= n
  BY LaidOrder
<1>2. full \in Seq(Byte) /\ Len(full) \in Nat
  BY DEF Laid
<1>3. Len(options) = n /\ \A i \in 1 .. n : options[i] = full[i]
  <2>1. \A i \in 1 .. n : full[i] \in Byte
    BY <1>2
  <2>2. /\ Len(options) = IF 1 <= n THEN n - 1 + 1 ELSE 0
        /\ \A i \in 1 .. n - 1 + 1 : options[i] = full[1 + i - 1]
    BY <2>1, SubSeqProperties
  <2> QED BY <2>2
<1>4. /\ s.cur = cur /\ s.result = None
      /\ s.parsed = [f \in known |-> MeantSoFar(items, k, f)]
      /\ \A r : [s EXCEPT !.result = r].result = r
  BY DEF Taken
<1> HIDE DEF options, s, cur, K, t, error
<1>5. CASE cur >= n
  <2>1. t = [s EXCEPT !.result = error]
    BY <1>1, <1>3, <1>4, <1>5, WalkCases DEF t, error
  <2>2. ~(n > pos[K])
    BY <1>1, <1>5
  <2>3. Final(items, known, pos, n) = error
    BY <2>2 DEF Final, K, error
  <2> QED BY <2>1, <2>3, <1>4 DEF t, options, s
<1>6. CASE cur < n /\ k = K
  <2>1. cur + 1 \in 1 .. n /\ cur = pos[K]
    BY <1>1, <1>6 DEF cur
  <2>2. options[cur + 1] = OPT_END
    BY <2>1, <1>3 DEF Laid, K
  <2>3. t = [s EXCEPT !.result = Ok(s.parsed)]
    BY <1>1, <1>3, <1>4, <1>6, <2>2, WalkCases DEF t
  <2>4. n > pos[K] /\ InOrder(items, known, K)
    BY <2>1, <1>1, <1>6
  <2>5. Final(items, known, pos, n) = Ok(s.parsed)
    BY <2>4, <1>4, <1>6 DEF Final, K
  <2> QED BY <2>3, <2>5, <1>4 DEF t, options, s
<1>7. CASE cur < n /\ k # K
  <2> DEFINE item == items[k + 1]
             tag == item.tag
             value == item.value
             e == Encode(item)
             next == pos[k + 1]
             L == Len(value)
  <2>1. k + 1 \in 1 .. K /\ (k + 1) - 1 = k /\ k < K /\ k + 1 \in 0 .. K
    BY <1>1, <1>7 DEF K
  <2>2. IsItem(item) /\ Fit(item, known)
    BY <2>1 DEF K
  <2>3. /\ next = cur + Len(e) /\ next <= pos[K] /\ next \in Nat
        /\ \A i \in 1 .. Len(e) : full[cur + i] = e[i]
    <3>1. /\ pos[k + 1] = pos[(k + 1) - 1] + Len(e) /\ pos[k + 1] <= pos[K]
          /\ \A i \in 1 .. Len(e) : full[pos[(k + 1) - 1] + i] = e[i]
      BY <2>1 DEF Laid, K
    <3>2. pos[k + 1] \in Nat
      BY <2>1, LaidOrder DEF K
    <3> QED BY <3>1, <3>2, <2>1 DEF cur
  <2>4. /\ e \in Seq(Byte) /\ Len(e) >= 1 /\ e[1] = tag /\ Len(e) \in Nat
        /\ tag = OPT_PAD => Len(e) = 1
        /\ tag # OPT_PAD => Len(e) = 2 + L /\ e[2] = L
    <3>1. e \in Seq(Byte)
      BY <2>2, EncodeIs
    <3>2. Len(e) \in Nat
      BY <3>1
    <3> QED BY <3>1, <3>2, <2>2, EncodeIs
  <2>5. /\ value \in Seq(Byte) /\ L \in Nat /\ tag # OPT_END
    BY <2>2 DEF IsItem
  <2>13. ValueAt(options, cur, L) = value \/ tag = OPT_PAD \/ ~(next <= n)
    <3> SUFFICES ASSUME tag # OPT_PAD, next <= n
                 PROVE  ValueAt(options, cur, L) = value
      OBVIOUS
    <3>1. cur = pos[(k + 1) - 1]
      BY <2>1 DEF cur
    <3>2. k + 1 \in 1 .. Len(items)
      BY <2>1 DEF K
    <3>3. cur \in Nat
      BY <1>1
    <3> HIDE DEF cur, K
    <3> QED BY <3>1, <3>2, <3>3, <2>2, ValueFound DEF options
  <2> HIDE DEF next, e, L, tag, value, item
  <2>14. next = cur + Len(e) /\ next <= pos[K] /\ next \in Nat /\ Len(e) \in Nat /\ Len(e) >= 1
    BY <2>3, <2>4
  <2>6. options[cur + 1] = tag
    <3>1. cur + 1 \in 1 .. n /\ 1 \in 1 .. Len(e)
      BY <1>1, <1>7, <2>14
    <3> QED BY <3>1, <2>3, <2>4, <1>3
  <2>15. tag # OPT_PAD => AtOption(options, s, cur, tag)
    BY <1>1, <1>3, <1>4, <1>7, <2>5, <2>6 DEF AtOption
  <2>7. ASSUME tag \in known => item.means # None PROVE InOrder(items, known, k + 1)
    <3> SUFFICES ASSUME NEW i \in 1 .. k + 1, items[i].tag \in known
                 PROVE  items[i].means # None
      BY DEF InOrder
    <3>1. i \in 1 .. k \/ i = k + 1
      BY <1>1
    <3> QED BY <3>1, <2>7 DEF InOrder, tag, item
  <2>8. cur < next
    BY <1>1, <2>14
  <2>9. CASE tag = OPT_PAD
    <3>1. t = [s EXCEPT !.cur = cur + 1]
      BY <1>1, <1>3, <1>4, <1>7, <2>6, <2>9, WalkCases DEF t
    <3>2. next = cur + 1 /\ next <= n
      <4>1. Len(e) = 1
        BY <2>4, <2>9
      <4> QED BY <4>1, <1>1, <1>7, <2>14
    <3>3. \A f \in known : MeantSoFar(items, k + 1, f) = MeantSoFar(items, k, f)
      BY <1>1, <2>9, MeantStep DEF tag, item
    <3>4. t = Taken(items, known, pos, k + 1)
      BY <3>1, <3>2, <3>3 DEF s, Taken, next
    <3>5. InOrder(items, known, k + 1)
      BY <2>7, <2>9
    <3> QED BY <3>2, <3>4, <3>5, <2>1, <2>8 DEF t, options, s, next, cur, K
  <2>10. CASE tag # OPT_PAD /\ next > n
    <3>0. Len(e) = 2 + L /\ e[2] = L
      BY <2>4, <2>10
    <3>1. cur + 1 >= n \/ ~(cur + 2 + options[cur + 2] <= n)
      <4> SUFFICES ASSUME cur + 1 < n PROVE ~(cur + 2 + options[cur + 2] <= n)
        BY <1>1
      <4>1. cur + 2 \in 1 .. n /\ 2 \in 1 .. Len(e)
        BY <1>1, <3>0, <2>5
      <4>2. options[cur + 2] = L
        BY <4>1, <2>3, <3>0, <1>3
      <4>3. ~(cur + 2 + L <= n)
        BY <1>1, <2>5, <2>10, <2>14, <3>0
      <4> QED BY <4>2, <4>3
    <3>5. NoValue(options, cur)
      BY <3>1, <1>3 DEF NoValue
    <3>4. t = [s EXCEPT !.result = error]
      BY <2>15, <2>10, <3>5, WalkOption DEF t, error
    <3>2. ~(n > pos[K])
      BY <1>1, <2>14, <2>10
    <3>3. Final(items, known, pos, n) = error
      BY <3>2 DEF Final, K, error
    <3> QED BY <3>4, <3>3, <1>4 DEF t, options, s
  <2>11. CASE tag # OPT_PAD /\ next <= n
    <3>0. Len(e) = 2 + L /\ e[2] = L
      BY <2>4, <2>11
    <3>1. cur + 1 < n /\ cur + 2 \in 1 .. n /\ 2 \in 1 .. Len(e) /\ cur + 2 + L <= n
          /\ next = cur + 2 + L
      BY <1>1, <2>5, <2>11, <2>14, <3>0
    <3>2. options[cur + 2] = L
      BY <3>0, <3>1, <2>3, <1>3
    <3>3. ValueAt(options, cur, L) = value
      BY <2>11, <2>13
    <3>4. t = IF Acceptable(tag, value)
              THEN [s EXCEPT !.cur = cur + 2 + L, !.parsed = Store(s.parsed, tag, value)]
              ELSE [s EXCEPT !.result = error]
      <4>1. HasValue(options, cur, L)
        BY <2>5, <3>1, <3>2, <1>3 DEF HasValue
      <4> QED BY <4>1, <2>11, <2>15, <3>3, WalkValue DEF t, error
    <3>5. CASE ~Acceptable(tag, value)
      <4>1. tag \in known /\ item.means = None
        BY <3>5, <2>2, <2>11 DEF Fit, tag, value
      <4>2. ~InOrder(items, known, K)
        BY <4>1, <2>1 DEF InOrder, tag, item
      <4>3. Final(items, known, pos, n) = error
        BY <4>2 DEF Final, K, error
      <4> QED BY <3>4, <3>5, <4>3, <1>4 DEF t, options, s
    <3>6. CASE Acceptable(tag, value)
      <4>1. tag \in known => item.means # None /\ item.means = Kept(tag, value)
        BY <3>6, <2>2, <2>11 DEF Fit, tag, value
      <4>2. Store(s.parsed, tag, value) =
              [f \in known |-> MeantSoFar(items, k + 1, f)]
        <5>1. \A f \in known : MeantSoFar(items, k + 1, f) =
                IF tag = f THEN item.means ELSE MeantSoFar(items, k, f)
          BY <1>1, MeantStep DEF tag, item
        <5>2. CASE tag \in known
          BY <5>1, <5>2, <4>1, <1>4 DEF Store
        <5>3. CASE tag \notin known
          BY <5>1, <5>3, <1>4 DEF Store
        <5> QED BY <5>2, <5>3
      <4>3. t = Taken(items, known, pos, k + 1)
        BY <3>1, <3>4, <3>6, <4>2 DEF s, Taken, next
      <4>4. InOrder(items, known, k + 1)
        BY <2>7, <4>1
      <4> QED BY <4>3, <4>4, <2>1, <2>8, <2>11 DEF t, options, s, next, cur, K
    <3> QED BY <3>5, <3>6
  <2>12. next > n \/ next <= n
    BY <2>3
  <2> QED BY <2>9, <2>10, <2>11, <2>12
<1> QED BY <1>5, <1>6, <1>7, <1>1

\* The loop takes the items one after another and comes to the result.
LEMMA WalkEnds ==
  ASSUME NEW X, NEW items \in Seq(X), NEW full, NEW pos, Laid(items, full, pos),
         NEW known, OPT_PAD \notin known,
         \A i \in 1 .. Len(items) : IsItem(items[i]) /\ Fit(items[i], known),
         NEW n \in Nat, n <= Len(full), Final(items, known, pos, n) # None
  PROVE  ParseOptions(SubSeq(full, 1, n), known) = Final(items, known, pos, n)
<1> DEFINE K == Len(items)
           options == SubSeq(full, 1, n)
           result == Final(items, known, pos, n)
           State(k) == Taken(items, known, pos, k)
<1>1. K \in Nat /\ full \in Seq(Byte) /\ Len(full) \in Nat /\ pos \in [0 .. K -> Nat]
      /\ pos[0] = 0 /\ 0 \in 0 .. K
  BY DEF Laid
<1>2. Len(options) = n
  <2>1. \A i \in 1 .. n : full[i] \in Byte
    BY <1>1
  <2>2. Len(options) = IF 1 <= n THEN n - 1 + 1 ELSE 0
    BY <2>1, SubSeqProperties
  <2> QED BY <2>2
<1>3. PICK w : Walks(options, known, w) /\ ParseOptions(options, known) = w[n + 1].result
  <2> HIDE DEF options
  <2> QED BY <1>2, ParseOptionsIs
<1>4. w[0] = [cur |-> 0, parsed |-> [f \in known |-> None], result |-> None]
      /\ \A j \in 1 .. n + 1 : w[j] = Walk(options, w[j - 1])
  BY <1>2, <1>3 DEF Walks
<1>5. \A s : s.result # None => Walk(options, s) = s
  BY DEF Walk
<1>6. \A k \in 0 .. K : InOrder(items, known, k) /\ pos[k] <= n =>
        LET t == Walk(options, State(k)) IN
        \/ t.result = result
        \/ /\ k < K /\ t = State(k + 1)
           /\ InOrder(items, known, k + 1) /\ pos[k + 1] <= n /\ pos[k] < pos[k + 1]
  BY WalkStep
<1> HIDE DEF options, State, result, K
<1> DEFINE At(j, k) == /\ w[j] = State(k) /\ InOrder(items, known, k)
                       /\ pos[k] <= n /\ j <= pos[k]
           S == {j \in Nat : j <= n + 1 =>
                   w[j].result = result \/ \E k \in 0 .. K : At(j, k)}
<1>7. 0 \in S
  <2>1. w[0] = State(0)
    <3>1. \A f \in known : MeantSoFar(items, 0, f) = None
      BY MeantIs
    <3> QED BY <3>1, <1>1, <1>4 DEF State, Taken
  <2>2. InOrder(items, known, 0)
    BY DEF InOrder
  <2>3. At(0, 0)
    BY <2>1, <2>2, <1>1
  <2> HIDE DEF At
  <2> QED BY <2>3, <1>1
<1>8. ASSUME NEW j \in Nat, j \in S PROVE j + 1 \in S
  <2> SUFFICES ASSUME j + 1 <= n + 1
               PROVE  w[j + 1].result = result \/ \E k \in 0 .. K : At(j + 1, k)
    OBVIOUS
  <2>1. j + 1 \in 1 .. n + 1 /\ (j + 1) - 1 = j /\ j <= n + 1
    OBVIOUS
  <2>2. w[j + 1] = Walk(options, w[j])
    BY <2>1, <1>4
  <2>3. CASE w[j].result = result
    BY <2>2, <2>3, <1>5 DEF result
  <2>4. CASE \E k \in 0 .. K : At(j, k)
    <3>1. PICK k \in 0 .. K : At(j, k)
      BY <2>4
    <3>2. \/ w[j + 1].result = result
          \/ /\ k < K /\ w[j + 1] = State(k + 1)
             /\ InOrder(items, known, k + 1) /\ pos[k + 1] <= n /\ pos[k] < pos[k + 1]
      BY <3>1, <2>2, <1>6
    <3>3. CASE w[j + 1].result = result
      BY <3>3
    <3>4. CASE /\ k < K /\ w[j + 1] = State(k + 1)
               /\ InOrder(items, known, k + 1) /\ pos[k + 1] <= n /\ pos[k] < pos[k + 1]
      <4>1. k + 1 \in 0 .. K
        BY <3>4, <1>1
      <4>2. j + 1 <= pos[k + 1]
        <5>1. pos[k] \in Nat /\ pos[k + 1] \in Nat /\ j <= pos[k] /\ pos[k] < pos[k + 1]
          BY <3>1, <3>4, <4>1, <1>1
        <5> QED BY <5>1
      <4>3. At(j + 1, k + 1)
        BY <3>4, <4>2
      <4> HIDE DEF At
      <4> QED BY <4>1, <4>3
    <3> QED BY <3>2, <3>3, <3>4
  <2> QED BY <1>8, <2>1, <2>3, <2>4
<1>9. n + 1 \in S
  <2>1. n + 1 \in Nat
    OBVIOUS
  <2> HIDE DEF S
  <2> QED BY <2>1, <1>7, <1>8, Induction
<1>10. ASSUME NEW k \in 0 .. K PROVE ~At(n + 1, k)
  <2>1. pos[k] \in Nat
    BY <1>1
  <2> QED BY <2>1
<1>11. w[n + 1].result = result
  <2> HIDE DEF At
  <2> QED BY <1>9, <1>10
<1> QED BY <1>3, <1>11 DEF options, result

\* parse_options makes of a list of options, whatever follows its End, what each of them
\* means, the last of a kind counting, when it is given all of the list and everything in
\* it is well formed, and an error otherwise.
THEOREM ParsesEncoded ==
  ASSUME NEW X, NEW items \in Seq(X), NEW tail \in Seq(Byte),
         NEW known, OPT_PAD \notin known,
         \A i \in 1 .. Len(items) : IsItem(items[i]) /\ Fit(items[i], known),
         NEW n \in Nat, n <= Len(Encoded(items) \o tail),
         Ok([f \in known |-> Meant(items, f)]) # None, Err("InvalidTLV") # None
  PROVE  ParseOptions(SubSeq(Encoded(items) \o tail, 1, n), known) =
           IF n >= Len(Encoded(items)) /\ InOrder(items, known, Len(items))
           THEN Ok([f \in known |-> Meant(items, f)]) ELSE Err("InvalidTLV")
<1>1. PICK pos : /\ Laid(items, Encoded(items) \o tail, pos)
                 /\ Len(Encoded(items)) = pos[Len(items)] + 1
  BY EncodedIs
<1>2. pos[Len(items)] \in Nat
  <2>1. Len(items) \in 0 .. Len(items)
    OBVIOUS
  <2> QED BY <1>1, <2>1, LaidOrder
<1>3. n > pos[Len(items)] <=> n >= Len(Encoded(items))
  BY <1>1, <1>2
<1>4. \A f \in known : Meant(items, f) = MeantSoFar(items, Len(items), f)
  BY MeantIs
<1>5. [f \in known |-> Meant(items, f)] = [f \in known |-> MeantSoFar(items, Len(items), f)]
  BY <1>4
<1>6. Final(items, known, pos, n) =
        IF n >= Len(Encoded(items)) /\ InOrder(items, known, Len(items))
        THEN Ok([f \in known |-> Meant(items, f)]) ELSE Err("InvalidTLV")
  BY <1>3, <1>5 DEF Final
<1>7. Final(items, known, pos, n) # None
  BY <1>6
<1> DEFINE full == Encoded(items) \o tail
<1>8. Laid(items, full, pos) /\ n <= Len(full)
  BY <1>1
<1> HIDE DEF full
<1>9. ParseOptions(SubSeq(full, 1, n), known) = Final(items, known, pos, n)
  BY <1>7, <1>8, WalkEnds
<1> QED BY <1>6, <1>9 DEF full

-----------------------------------------------------------------------------
(* Replies and requests                                                    *)

\* What is meant is bytes or nothing.
LEMMA MeantType ==
  ASSUME NEW items \in Seq(Items), NEW f
  PROVE  Meant(items, f) \in Value
<1> DEFINE S == {k \in Nat : k <= Len(items) => MeantSoFar(items, k, f) \in Value}
<1>1. 0 \in S
  BY MeantIs DEF Value
<1>2. ASSUME NEW k \in Nat, k \in S PROVE k + 1 \in S
  <2> SUFFICES ASSUME k + 1 <= Len(items) PROVE MeantSoFar(items, k + 1, f) \in Value
    OBVIOUS
  <2>1. k + 1 \in 1 .. Len(items) /\ MeantSoFar(items, k, f) \in Value
    BY <1>2
  <2>2. items[k + 1] \in Items
    BY <2>1, ElementOfSeq
  <2>3. items[k + 1].means \in Value
    BY <2>2 DEF Items
  <2> QED BY <2>1, <2>3, MeantStep
<1>3. Len(items) \in S
  <2> HIDE DEF S
  <2> QED BY <1>1, <1>2, Induction
<1> QED BY <1>3, MeantIs

\* A list of addresses, as RFC 2132 and as Acceptable say it.
LEMMA Fours ==
  ASSUME NEW L \in Nat, L <= 255
  PROVE  (\E k \in 1 .. 63 : L = 4 * k) <=> L # 0 /\ L % 4 = 0
<1>1. ASSUME NEW k \in 1 .. 63, L = 4 * k PROVE L # 0 /\ L % 4 = 0
  BY <1>1
<1>2. ASSUME L # 0, L % 4 = 0 PROVE \E k \in 1 .. 63 : L = 4 * k
  <2>1. L \div 4 \in Nat /\ L \div 4 >= 1 /\ L \div 4 <= 63 /\ L = 4 * (L \div 4)
    BY <1>2
  <2>2. L \div 4 \in 1 .. 63
    BY <2>1
  <2> QED BY <2>1, <2>2
<1> QED BY <1>1, <1>2

\* A sequence of four bytes is an address.
LEMMA SeqOfFour ==
  ASSUME NEW v \in Seq(Byte)
  PROVE  v \in Ip <=> Len(v) = 4
<1>1. v \in [1 .. Len(v) -> Byte] /\ Len(v) \in Nat /\ DOMAIN v = 1 .. Len(v)
  BY LenProperties
<1>2. ASSUME v \in Ip PROVE Len(v) = 4
  <2>1. DOMAIN v = 1 .. 4
    BY <1>2 DEF Ip
  <2>2. 4 \in DOMAIN v /\ 5 \notin DOMAIN v
    BY <2>1
  <2>3. 4 \in 1 .. Len(v) /\ 5 \notin 1 .. Len(v)
    BY <2>2, <1>1, Zenon
  <2> DEFINE L == Len(v)
  <2>4. L \in Nat /\ 4 \in 1 .. L /\ 5 \notin 1 .. L
    BY <2>3, <1>1
  <2> HIDE DEF L
  <2>5. L = 4
    BY <2>4
  <2> QED BY <2>5 DEF L
<1>3. ASSUME Len(v) = 4 PROVE v \in Ip
  BY <1>1, <1>3 DEF Ip
<1> QED BY <1>2, <1>3

\* An item of a reply is read as it is meant.
LEMMA ReplyItem ==
  ASSUME NEW item \in Items, Len(item.value) <= 255,
         item.tag \in Options => item.means = Meaning(item.tag, item.value)
  PROVE  IsItem(item) /\ Fit(item, Options)
<1> DEFINE v == item.value
           tag == item.tag
           L == Len(v)
<1>1. tag \in Byte /\ tag # OPT_END /\ v \in Seq(Byte) /\ L \in Nat /\ L <= 255
  BY DEF Items
<1>2. IsItem(item)
  BY <1>1 DEF IsItem
<1>3. None \notin Seq(Byte) /\ v # None
  BY <1>1, OutcomesApart
<1>4. CASE tag \in {OPT_SUBNET_MASK, OPT_SERVER_ID}
  <2>0. tag # OPT_ROUTER /\ tag # OPT_MESSAGE_TYPE
    BY <1>4 DEF OPT_SUBNET_MASK, OPT_SERVER_ID, OPT_ROUTER, OPT_MESSAGE_TYPE
  <2>1. Acceptable(tag, v) <=> L = 4
    BY <1>4, <2>0 DEF Acceptable
  <2>2. Kept(tag, v) = v
    BY <1>4 DEF Kept, OPT_SUBNET_MASK, OPT_SERVER_ID, OPT_ROUTER
  <2>3. item.means = IF v \in Ip THEN v ELSE None
    BY <1>4, <2>0 DEF Meaning, Options
  <2>4. v \in Ip <=> L = 4
    BY <1>1, SeqOfFour, SMTT(60)
  <2> QED BY <1>2, <1>3, <1>4, <2>1, <2>2, <2>3, <2>4 DEF Fit, Options
<1>5. CASE tag = OPT_ROUTER
  <2>0. tag \notin {OPT_SUBNET_MASK, OPT_SERVER_ID} /\ tag # OPT_MESSAGE_TYPE
    BY <1>5 DEF OPT_SUBNET_MASK, OPT_SERVER_ID, OPT_ROUTER, OPT_MESSAGE_TYPE
  <2>1. Acceptable(tag, v) <=> v # <<>> /\ L % 4 = 0
    BY <1>5, <2>0 DEF Acceptable
  <2>2. Kept(tag, v) = SubSeq(v, 1, 4)
    BY <1>5 DEF Kept
  <2>3. item.means = IF \E k \in 1 .. 63 : L = 4 * k THEN [i \in 1 .. 4 |-> v[i]] ELSE None
    BY <1>5, <2>0 DEF Meaning, Options
  <2>4. (\E k \in 1 .. 63 : L = 4 * k) <=> (v # <<>> /\ L % 4 = 0)
    <3>1. v # <<>> <=> L # 0
      BY <1>1
    <3> HIDE DEF L
    <3> QED BY <3>1, <1>1, Fours
  <2>5. ASSUME NEW k \in 1 .. 63, L = 4 * k
        PROVE  SubSeq(v, 1, 4) = [i \in 1 .. 4 |-> v[i]] /\ SubSeq(v, 1, 4) \in Seq(Byte)
    <3>1. \A i \in 1 .. 4 : v[i] \in Byte
      BY <1>1, <2>5
    <3>2. SubSeq(v, 1, 4) = [i \in 1 .. 4 |-> v[i]]
      BY <1>1, <2>5
    <3> QED BY <3>1, <3>2, SubSeqProperties
  <2> QED BY <1>2, <1>3, <1>5, <2>1, <2>2, <2>3, <2>4, <2>5, ZenonT(60) DEF Fit, Options
<1>6. CASE tag = OPT_MESSAGE_TYPE
  <2>0. tag \notin {OPT_SUBNET_MASK, OPT_SERVER_ID} /\ tag # OPT_ROUTER
    BY <1>6 DEF OPT_SUBNET_MASK, OPT_SERVER_ID, OPT_ROUTER, OPT_MESSAGE_TYPE
  <2>1. Acceptable(tag, v) <=> L = 1 /\ v[1] \in 1 .. 8
    BY <1>6, <2>0 DEF Acceptable
  <2>2. Kept(tag, v) = v
    BY <2>0 DEF Kept
  <2>3. item.means = IF \E type \in 1 .. 8 : v = <<type>> THEN v ELSE None
    BY <1>6, <2>0 DEF Meaning, Options
  <2>4. (\E type \in 1 .. 8 : v = <<type>>) <=> L = 1 /\ v[1] \in 1 .. 8
    <3>1. ASSUME NEW type \in 1 .. 8, v = <<type>> PROVE L = 1 /\ v[1] \in 1 .. 8
      BY <3>1
    <3>2. ASSUME L = 1, v[1] \in 1 .. 8 PROVE v = <<v[1]>>
      BY <3>2, <1>1
    <3> QED BY <3>1, <3>2
  <2> QED BY <1>2, <1>3, <1>6, <2>1, <2>2, <2>3, <2>4 DEF Fit, Options
<1>7. CASE tag \notin Options
  <2>1. Acceptable(tag, v)
    BY <1>7 DEF Acceptable, Options
  <2> QED BY <1>2, <1>7, <2>1 DEF Fit
<1> QED BY <1>4, <1>5, <1>6, <1>7 DEF Options

\* A function from 1 .. n to bytes is a sequence of them.
LEMMA Octets ==
  ASSUME NEW n \in Nat, NEW b \in [1 .. n -> Byte]
  PROVE  b \in Seq(Byte) /\ Len(b) = n /\ \A i \in 1 .. n : b[i] \in Byte
<1>1. b \in UNION {[1 .. k -> Byte] : k \in Nat}
  OBVIOUS
<1>2. b \in Seq(Byte)
  BY <1>1, SeqDef, Zenon
<1>3. DOMAIN b = 1 .. n
  OBVIOUS
<1>4. Len(b) = n
  BY <1>2, <1>3, LenProperties
<1> QED BY <1>2, <1>4

\* What the checks of from_message leave of the headers.
LEMMA HeaderErrorIs ==
  ASSUME NEW h \in Headers, NEW xid, NEW mac
  PROVE  /\ HeaderError(h, xid, mac) \in DHCPError \cup {None}
         /\ HeaderError(h, xid, mac) = None
              <=> h = Header(OP_BOOT_REPLY, xid, <<mac, 0>>, h.yiaddr)
<1> DEFINE good == /\ h.op = OP_BOOT_REPLY /\ h.htype = HTYPE_ETHERNET
                   /\ h.hlen = HLEN_ETHERNET /\ h.cookie = TRUE /\ h.xid = xid
                   /\ h.chaddr = <<mac, 0>>
<1>1. \A s \in DHCPError : s # None
  BY OutcomesApart
<1>2. h # None
  <2>1. h = None => FALSE
    BY OutcomesApart
  <2> QED BY <2>1
<1>3. h.cookie \in BOOLEAN
  BY DEF Headers
<1>4. IsReply(h) <=> h.op = OP_BOOT_REPLY /\ h.htype = HTYPE_ETHERNET /\ h.hlen = HLEN_ETHERNET
  BY DEF IsReply
<1>5. /\ HeaderError(h, xid, mac) \in DHCPError \cup {None}
      /\ HeaderError(h, xid, mac) = None <=> good
  BY <1>1, <1>2, <1>3, <1>4 DEF HeaderError, DHCPError
<1>6. good <=> h = Header(OP_BOOT_REPLY, xid, <<mac, 0>>, h.yiaddr)
  <2>1. h = [op |-> h.op, htype |-> h.htype, hlen |-> h.hlen, cookie |-> h.cookie,
             xid |-> h.xid, chaddr |-> h.chaddr, yiaddr |-> h.yiaddr]
    BY DEF Headers
  <2>2. ASSUME good PROVE h = Header(OP_BOOT_REPLY, xid, <<mac, 0>>, h.yiaddr)
    BY <2>1, <2>2 DEF Header
  <2>3. ASSUME h = Header(OP_BOOT_REPLY, xid, <<mac, 0>>, h.yiaddr) PROVE good
    BY <2>3 DEF Header
  <2> QED BY <2>2, <2>3
<1> QED BY <1>5, <1>6

\* What from_message makes of a reply of which it is given n bytes of options.
ReplyResult(r, tail, n) ==
  FromMessage([header |-> r.header, options |-> SubSeq(Encoded(r.items) \o tail, 1, n)],
              Xid, OwnMac, r.expected)

\* ParsesWhatWasWritten, of a reply of which n bytes arrived.
ReplyRead(r, tail, n) ==
  IF n >= Len(Encoded(r.items)) /\ Usable(r, Xid, OwnMac)
  THEN ReplyResult(r, tail, n) = Ok(Configuration(r))
  ELSE ReplyResult(r, tail, n)[1] = "Err"

\* from_message gives what Usable and Configuration say, cut off or not.
LEMMA FromMessageIs ==
  ASSUME NEW r \in Reply, NEW tail \in Padding, NEW n \in 0 .. Len(Encoded(r.items) \o tail)
  PROVE  ReplyRead(r, tail, n) /\ ReplyResult(r, tail, n) \in Results
<1> DEFINE items == r.items
           p == [f \in Options |-> Meant(items, f)]
           whole == n >= Len(Encoded(items))
           fine == InOrder(items, Options, Len(items))
           parsed == ParseOptions(SubSeq(Encoded(items) \o tail, 1, n), Options)
           result == ReplyResult(r, tail, n)
           h == r.header
<1>1. /\ items \in Seq(Items) /\ h \in Headers \cup {None} /\ tail \in Seq(Byte)
      /\ \A i \in DOMAIN items :
           /\ Len(items[i].value) <= 255
           /\ items[i].tag \in Options => items[i].means = Meaning(items[i].tag, items[i].value)
  BY MessageAssumption
<1>2. \A i \in 1 .. Len(items) : items[i] \in Items /\ IsItem(items[i]) /\ Fit(items[i], Options)
  <2> SUFFICES ASSUME NEW i \in 1 .. Len(items)
               PROVE  items[i] \in Items /\ IsItem(items[i]) /\ Fit(items[i], Options)
    OBVIOUS
  <2>1. items[i] \in Items /\ i \in DOMAIN items
    BY <1>1, ElementOfSeq
  <2> QED BY <2>1, <1>1, ReplyItem
<1>3. OPT_PAD \notin Options
  BY DEF Options, OPT_PAD, OPT_SUBNET_MASK, OPT_ROUTER, OPT_MESSAGE_TYPE, OPT_SERVER_ID
<1>4. \A f : Meant(items, f) \in Value
  BY <1>1, MeantType
<1>5. p \in [Options -> Value]
  BY <1>4
<1>6. Ok(p) \in Results /\ \A e \in DHCPError : Err(e) \in Results
  BY <1>5 DEF Ok, Err, Results
<1>7. None \notin Results /\ None \notin DHCPError
  BY OutcomesApart
<1> HIDE DEF p
<1>8. parsed = IF whole /\ fine THEN Ok(p) ELSE Err("InvalidTLV")
  <2>1. Ok([f \in Options |-> Meant(items, f)]) # None /\ Err("InvalidTLV") # None
    BY <1>6, <1>7 DEF p, DHCPError
  <2>2. n \in Nat /\ n <= Len(Encoded(items) \o tail)
    OBVIOUS
  <2> HIDE DEF items
  <2> QED BY <1>1, <1>2, <1>3, <2>1, <2>2, ParsesEncoded DEF p
<1>9. result = IF HeaderError(h, Xid, OwnMac) # None THEN Err(HeaderError(h, Xid, OwnMac))
               ELSE IF parsed[1] = "Err" THEN parsed
               ELSE Bound(h, parsed[2], r.expected)
  BY DEF ReplyResult, FromMessage
<1> HIDE DEF whole, parsed, result
<1>10. CASE h = None
  <2>1. HeaderError(h, Xid, OwnMac) = "TooShort" /\ "TooShort" # None
    BY <1>10, <1>7 DEF HeaderError, DHCPError
  <2>2. result = Err("TooShort") /\ ~Usable(r, Xid, OwnMac)
    BY <2>1, <1>9, <1>10 DEF Usable
  <2> QED BY <2>2, <1>6 DEF ReplyRead, result, Err, DHCPError
<1>11. CASE h \in Headers
  <2>1. /\ HeaderError(h, Xid, OwnMac) \in DHCPError \cup {None}
        /\ HeaderError(h, Xid, OwnMac) = None
             <=> h = Header(OP_BOOT_REPLY, Xid, <<OwnMac, 0>>, h.yiaddr)
    BY <1>11, HeaderErrorIs
  <2>2. CASE HeaderError(h, Xid, OwnMac) # None
    <3>1. result = Err(HeaderError(h, Xid, OwnMac)) /\ ~Usable(r, Xid, OwnMac)
      BY <2>1, <2>2, <1>9 DEF Usable
    <3> QED BY <3>1, <2>1, <2>2, <1>6 DEF ReplyRead, result, Err, DHCPError
  <2>3. CASE HeaderError(h, Xid, OwnMac) = None /\ ~(whole /\ fine)
    <3>1. parsed[1] = "Err" /\ parsed = Err("InvalidTLV")
      BY <2>3, <1>8 DEF Err
    <3>2. result = Err("InvalidTLV")
      BY <3>1, <2>3, <1>9
    <3>3. ~(whole /\ Usable(r, Xid, OwnMac))
      <4>1. DOMAIN items = 1 .. Len(items)
        BY <1>1
      <4> QED BY <2>3, <4>1 DEF Usable, InOrder
    <3> QED BY <3>2, <3>3, <1>6, <1>7 DEF ReplyRead, result, Err, DHCPError, whole
  <2>4. CASE HeaderError(h, Xid, OwnMac) = None /\ whole /\ fine
    <3>1. parsed[1] = "Ok" /\ parsed[2] = p
      BY <2>4, <1>8 DEF Ok
    <3>2. result = Bound(h, p, r.expected)
      BY <3>1, <2>4, <1>9
    <3>3. /\ p[OPT_MESSAGE_TYPE] = Meant(items, OPT_MESSAGE_TYPE)
          /\ p[OPT_SUBNET_MASK] = Meant(items, OPT_SUBNET_MASK)
          /\ p[OPT_ROUTER] = Meant(items, OPT_ROUTER)
          /\ p[OPT_SERVER_ID] = Meant(items, OPT_SERVER_ID)
      BY DEF p, Options
    <3>4. h.yiaddr \in Value
      <4>1. h.yiaddr \in [1 .. 4 -> Byte]
        BY <1>11 DEF Headers, Ip
      <4>2. h.yiaddr \in Seq(Byte)
        BY <4>1, Octets
      <4> QED BY <4>2 DEF Value
    <3>5. Usable(r, Xid, OwnMac) <=>
            /\ h.yiaddr # UNSPECIFIED
            /\ Meant(items, OPT_MESSAGE_TYPE) = <<r.expected>>
            /\ \A f \in Options : Meant(items, f) # None
      <4>1. DOMAIN items = 1 .. Len(items)
        BY <1>1
      <4>2. h # None
        BY <1>11, OutcomesApart
      <4> QED BY <2>1, <2>4, <4>1, <4>2 DEF Usable, InOrder
    <3>6. <<r.expected>> # None
      <4>1. r.expected \in Byte
        BY MessageAssumption
      <4>2. <<r.expected>> \in Seq(Byte)
        BY <4>1
      <4> QED BY <4>2, OutcomesApart
    <3>7. Usable(r, Xid, OwnMac) <=>
            /\ h.yiaddr # UNSPECIFIED
            /\ p[OPT_MESSAGE_TYPE] = <<r.expected>>
            /\ None \notin {p[OPT_SUBNET_MASK], p[OPT_ROUTER], p[OPT_SERVER_ID]}
      BY <3>3, <3>5, <3>6 DEF Options
    <3>8. Ok(Configuration(r)) \in Results
      <4>1. Configuration(r) \in Bindings
        BY <1>4, <3>4 DEF Configuration, Binding, Bindings
      <4> QED BY <4>1 DEF Ok, Results
    <3>9. CASE Usable(r, Xid, OwnMac)
      <4>1. result = Ok(Configuration(r))
        BY <3>2, <3>3, <3>7, <3>9 DEF Bound, Configuration
      <4> QED BY <4>1, <2>4, <3>8, <3>9 DEF ReplyRead, result, whole
    <3>10. CASE ~Usable(r, Xid, OwnMac)
      <4>1. result = Err("WrongMessageType") \/ result = Err("MissingData")
        BY <3>2, <3>7, <3>10 DEF Bound
      <4> QED BY <4>1, <3>10, <1>6 DEF ReplyRead, result, Err, DHCPError
    <3> QED BY <3>9, <3>10
  <2> QED BY <2>2, <2>3, <2>4
<1> QED BY <1>1, <1>10, <1>11

\* The codes of two and of four items.
LEMMA EncodedTwo ==
  ASSUME NEW a, NEW b, IsItem(a), IsItem(b)
  PROVE  Encoded(<<a, b>>) = Encode(a) \o Encode(b) \o <<OPT_END>>
<1> DEFINE items == <<a, b>>
           ea == Encode(a)
           eb == Encode(b)
           seqs == <<ea, eb>>
<1>1. ea \in Seq(Byte) /\ eb \in Seq(Byte)
  BY EncodeIs
<1>2. [i \in DOMAIN items |-> Encode(items[i])] = seqs
  OBVIOUS
<1> HIDE DEF ea, eb
<1>3. /\ seqs \in Seq(Seq(Byte)) /\ Len(seqs) = 2 /\ seqs[1] = ea /\ seqs[2] = eb
  BY <1>1
<1> HIDE DEF seqs
<1>4. PICK f : Concats(seqs, f) /\ \A k \in 0 .. Len(seqs) : f[k] \in Seq(Byte)
  BY <1>3, ConcatsExist
<1>5. FlattenSeq(seqs) = f[2]
  BY <1>3, <1>4, FlattenIs
<1>6. f[0] = <<>> /\ f[1] = f[0] \o ea /\ f[2] = f[1] \o eb
  <2>1. /\ 1 \in 1 .. Len(seqs) /\ 2 \in 1 .. Len(seqs) /\ 0 = 1 - 1 /\ 1 = 2 - 1
    BY <1>3
  <2>2. f[0] = <<>> /\ \A k \in 1 .. Len(seqs) : f[k] = f[k - 1] \o seqs[k]
    BY <1>4 DEF Concats
  <2>3. f[1] = f[1 - 1] \o seqs[1]
    BY <2>1, <2>2, Zenon
  <2>4. f[2] = f[2 - 1] \o seqs[2]
    BY <2>1, <2>2, Zenon
  <2> QED BY <2>1, <2>2, <2>3, <2>4, <1>3
<1>7. f[1] = ea
  BY <1>1, <1>6, ConcatEmptySeq
<1> QED BY <1>2, <1>5, <1>6, <1>7 DEF Encoded, ea, eb

\* Four options and the End.
Codes(a, b, c, d) == Encode(a) \o Encode(b) \o Encode(c) \o Encode(d) \o <<OPT_END>>

\* The bytes of a message of four options.
LEMMA EncodedFour ==
  ASSUME NEW a, NEW b, NEW c, NEW d, IsItem(a), IsItem(b), IsItem(c), IsItem(d)
  PROVE  Encoded(<<a, b, c, d>>) = Codes(a, b, c, d)
<1> DEFINE items == <<a, b, c, d>>
           ea == Encode(a)
           eb == Encode(b)
           ec == Encode(c)
           ed == Encode(d)
           seqs == <<ea, eb, ec, ed>>
<1>1. ea \in Seq(Byte) /\ eb \in Seq(Byte) /\ ec \in Seq(Byte) /\ ed \in Seq(Byte)
  BY EncodeIs
<1>2. [i \in DOMAIN items |-> Encode(items[i])] = seqs
  OBVIOUS
<1> HIDE DEF ea, eb, ec, ed
<1>3. /\ seqs \in Seq(Seq(Byte)) /\ Len(seqs) = 4 /\ seqs[1] = ea /\ seqs[2] = eb
      /\ seqs[3] = ec /\ seqs[4] = ed
  BY <1>1
<1> HIDE DEF seqs
<1>4. PICK f : Concats(seqs, f) /\ \A k \in 0 .. Len(seqs) : f[k] \in Seq(Byte)
  BY <1>3, ConcatsExist
<1>5. FlattenSeq(seqs) = f[4]
  BY <1>3, <1>4, FlattenIs
<1>6. f[0] = <<>> /\ f[1] = f[0] \o ea /\ f[2] = f[1] \o eb
  <2>1. /\ 1 \in 1 .. Len(seqs) /\ 2 \in 1 .. Len(seqs) /\ 0 = 1 - 1 /\ 1 = 2 - 1
    BY <1>3
  <2>2. f[0] = <<>> /\ \A k \in 1 .. Len(seqs) : f[k] = f[k - 1] \o seqs[k]
    BY <1>4 DEF Concats
  <2>3. f[1] = f[1 - 1] \o seqs[1]
    BY <2>1, <2>2, Zenon
  <2>4. f[2] = f[2 - 1] \o seqs[2]
    BY <2>1, <2>2, Zenon
  <2> QED BY <2>1, <2>2, <2>3, <2>4, <1>3
<1>7. f[3] = f[2] \o ec /\ f[4] = f[3] \o ed
  <2>1. /\ 3 \in 1 .. Len(seqs) /\ 4 \in 1 .. Len(seqs) /\ 2 = 3 - 1 /\ 3 = 4 - 1
    BY <1>3
  <2>2. f[0] = <<>> /\ \A k \in 1 .. Len(seqs) : f[k] = f[k - 1] \o seqs[k]
    BY <1>4 DEF Concats
  <2>3. f[3] = f[3 - 1] \o seqs[3]
    BY <2>1, <2>2, Zenon
  <2>4. f[4] = f[4 - 1] \o seqs[4]
    BY <2>1, <2>2, Zenon
  <2> QED BY <2>1, <2>2, <2>3, <2>4, <1>3
<1>8. f[1] = ea
  BY <1>1, <1>6, ConcatEmptySeq
<1> QED BY <1>2, <1>5, <1>6, <1>7, <1>8 DEF Encoded, Codes, ea, eb, ec, ed

\* An option of the client's that a server accepts and keeps.
AskItem(item) ==
  /\ item \in Items /\ IsItem(item) /\ Fit(item, Asked) /\ item.means # None

\* The options of a client's messages can be written.
LEMMA AskItems ==
  /\ AskItem(Item(OPT_MESSAGE_TYPE, <<DHCPDISCOVER>>))
  /\ AskItem(Item(OPT_MESSAGE_TYPE, <<DHCPREQUEST>>))
  /\ AskItem(Item(OPT_PARAMETER_REQUEST_LIST, <<OPT_SUBNET_MASK, OPT_ROUTER>>))
  /\ \A v \in Ip : AskItem(Item(OPT_REQUESTED_ADDR, v)) /\ AskItem(Item(OPT_SERVER_ID, v))
<1> USE DEF OPT_MESSAGE_TYPE, OPT_REQUESTED_ADDR, OPT_SERVER_ID, OPT_PARAMETER_REQUEST_LIST
<1>1. ASSUME NEW tag \in {OPT_MESSAGE_TYPE, OPT_REQUESTED_ADDR, OPT_SERVER_ID,
                          OPT_PARAMETER_REQUEST_LIST},
             NEW v \in Seq(Byte), Len(v) <= 255, Acceptable(tag, v)
      PROVE  AskItem(Item(tag, v))
  <2>1. tag \in Byte /\ tag # OPT_END /\ tag # OPT_ROUTER
    BY ByteIs DEF OPT_END, OPT_ROUTER
  <2>2. v # None
    BY OutcomesApart
  <2>3. Item(tag, v).tag = tag /\ Item(tag, v).value = v /\ Item(tag, v).means = v
    BY DEF Item
  <2>4. Item(tag, v) \in Items
    BY <2>1 DEF Item, Items, Value
  <2>5. IsItem(Item(tag, v))
    BY <1>1, <2>1, <2>3 DEF IsItem
  <2>6. Fit(Item(tag, v), Asked)
    BY <1>1, <2>1, <2>2, <2>3 DEF Fit, Asked, Kept
  <2> QED BY <2>2, <2>3, <2>4, <2>5, <2>6 DEF AskItem
<1>2. ASSUME NEW t \in {1, 3}
      PROVE  <<t>> \in Seq(Byte) /\ Len(<<t>>) <= 255 /\ Acceptable(OPT_MESSAGE_TYPE, <<t>>)
  <2>1. t \in Byte
    BY ByteIs
  <2>2. t \in 1 .. 8
    OBVIOUS
  <2>3. <<t>> \in Seq(Byte) /\ Len(<<t>>) = 1 /\ <<t>>[1] = t
    BY <2>1
  <2> QED BY <2>2, <2>3 DEF Acceptable, OPT_SUBNET_MASK, OPT_ROUTER
<1>3. /\ <<1, 3>> \in Seq(Byte) /\ Len(<<1, 3>>) <= 255
      /\ Acceptable(OPT_PARAMETER_REQUEST_LIST, <<1, 3>>)
  <2>1. 1 \in Byte /\ 3 \in Byte
    BY ByteIs
  <2> QED BY <2>1 DEF Acceptable, OPT_SUBNET_MASK, OPT_ROUTER
<1>4. ASSUME NEW v \in Ip
      PROVE  /\ v \in Seq(Byte) /\ Len(v) <= 255
             /\ Acceptable(OPT_REQUESTED_ADDR, v) /\ Acceptable(OPT_SERVER_ID, v)
  <2>1. v \in Seq(Byte) /\ Len(v) = 4
    BY Octets DEF Ip
  <2> QED BY <2>1 DEF Acceptable, OPT_SUBNET_MASK, OPT_ROUTER
<1> HIDE DEF OPT_MESSAGE_TYPE, OPT_REQUESTED_ADDR, OPT_SERVER_ID, OPT_PARAMETER_REQUEST_LIST
<1>5. DHCPDISCOVER = 1 /\ DHCPREQUEST = 3 /\ OPT_SUBNET_MASK = 1 /\ OPT_ROUTER = 3
  BY DEF DHCPDISCOVER, DHCPREQUEST, OPT_SUBNET_MASK, OPT_ROUTER
<1>6. AskItem(Item(OPT_MESSAGE_TYPE, <<1>>)) /\ AskItem(Item(OPT_MESSAGE_TYPE, <<3>>))
  BY <1>1, <1>2
<1>7. AskItem(Item(OPT_PARAMETER_REQUEST_LIST, <<1, 3>>))
  BY <1>1, <1>3
<1>8. \A v \in Ip : AskItem(Item(OPT_REQUESTED_ADDR, v)) /\ AskItem(Item(OPT_SERVER_ID, v))
  BY <1>1, <1>4
<1> QED BY <1>5, <1>6, <1>7, <1>8

\* A server finds what was asked for in the options of a message.
LEMMA AskRead ==
  ASSUME NEW items \in Seq(Items), \A i \in 1 .. Len(items) : AskItem(items[i]),
         NEW tail \in Seq(Byte)
  PROVE  /\ ParseOptions(Encoded(items) \o tail, Asked) = Ok([f \in Asked |-> Meant(items, f)])
         /\ Ok([f \in Asked |-> Meant(items, f)]) \in Results
<1> DEFINE p == [f \in Asked |-> Meant(items, f)]
           full == Encoded(items) \o tail
           e == Encoded(items)
<1>1. p \in [Asked -> Value]
  BY MeantType
<1>2. Ok(p) \in Results /\ Err("InvalidTLV") \in Results
  BY <1>1 DEF Ok, Err, Results, DHCPError
<1>3. Ok(p) # None /\ Err("InvalidTLV") # None
  BY <1>2, OutcomesApart
<1>4. \A i \in 1 .. Len(items) : IsItem(items[i]) /\ Fit(items[i], Asked)
  BY DEF AskItem
<1>5. OPT_PAD \notin Asked
  BY DEF Asked, OPT_PAD, OPT_MESSAGE_TYPE, OPT_REQUESTED_ADDR, OPT_SERVER_ID,
         OPT_PARAMETER_REQUEST_LIST
<1>6. e \in Seq(Byte)
  BY <1>4, EncodedIs
<1>7. full \in Seq(Byte) /\ Len(full) \in Nat /\ Len(full) >= Len(e) /\ Len(full) <= Len(full)
  <2> HIDE DEF e
  <2>1. /\ e \o tail \in Seq(Byte) /\ Len(e \o tail) = Len(e) + Len(tail)
        /\ Len(e) \in Nat /\ Len(tail) \in Nat
    BY <1>6, Join
  <2>2. Len(e \o tail) \in Nat /\ Len(e \o tail) >= Len(e)
    BY <2>1
  <2> QED BY <2>1, <2>2 DEF e
<1>8. SubSeq(full, 1, Len(full)) = full
  BY <1>7, SubSeqFull
<1>9. InOrder(items, Asked, Len(items))
  BY DEF InOrder, AskItem
<1> DEFINE n == Len(full)
<1>10. n \in Nat /\ n <= Len(Encoded(items) \o tail) /\ n >= Len(Encoded(items))
  BY <1>7
<1> HIDE DEF n
<1>11. ParseOptions(SubSeq(Encoded(items) \o tail, 1, n), Asked) = Ok(p)
  BY <1>3, <1>4, <1>5, <1>9, <1>10, ParsesEncoded
<1> QED BY <1>2, <1>8, <1>11 DEF n

\* Concatenation is associative, which serialize's left-to-right order leaves open.
LEMMA Assoc ==
  \A a, b, c \in Seq(Byte) : a \o (b \o c) = (a \o b) \o c
<1> SUFFICES ASSUME NEW a \in Seq(Byte), NEW b \in Seq(Byte), NEW c \in Seq(Byte)
             PROVE  a \o (b \o c) = (a \o b) \o c
  OBVIOUS
<1> QED OBVIOUS

\* Concatenations of the literals in BuildDiscover and BuildRequest.
LEMMA Literals ==
  /\ \A a, b, c \in Byte : <<a, b>> \o <<c>> = <<a, b, c>>
  /\ \A a, b, c, d \in Byte : <<a, b>> \o <<c, d>> = <<a, b, c, d>>
<1>1. ASSUME NEW a \in Byte, NEW b \in Byte, NEW c \in Byte
      PROVE  <<a, b>> \o <<c>> = <<a, b, c>>
  <2> DEFINE x == <<a, b>>
             y == <<c>>
             z == <<a, b, c>>
  <2>1. /\ x \in Seq(Byte) /\ y \in Seq(Byte) /\ z \in Seq(Byte)
        /\ Len(x) = 2 /\ Len(y) = 1 /\ Len(z) = 3
        /\ x[1] = z[1] /\ x[2] = z[2] /\ y[1] = z[3]
    OBVIOUS
  <2> HIDE DEF x, y, z
  <2>2. /\ x \o y \in Seq(Byte) /\ Len(x \o y) = Len(x) + Len(y)
        /\ \A i \in 1 .. Len(x) : (x \o y)[i] = x[i]
        /\ \A i \in 1 .. Len(y) : (x \o y)[Len(x) + i] = y[i]
    BY <2>1, Join
  <2>3. Len(x \o y) = Len(z)
    BY <2>1, <2>2
  <2>4. \A i \in 1 .. Len(z) : (x \o y)[i] = z[i]
    BY <2>1, <2>2
  <2>5. x \o y = z
    BY <2>1, <2>2, <2>3, <2>4, SeqEqual
  <2> QED BY <2>5 DEF x, y, z
<1>2. ASSUME NEW a \in Byte, NEW b \in Byte, NEW c \in Byte, NEW d \in Byte
      PROVE  <<a, b>> \o <<c, d>> = <<a, b, c, d>>
  <2> DEFINE x == <<a, b>>
             y == <<c, d>>
             z == <<a, b, c, d>>
  <2>1. /\ x \in Seq(Byte) /\ y \in Seq(Byte) /\ z \in Seq(Byte)
        /\ Len(x) = 2 /\ Len(y) = 2 /\ Len(z) = 4
        /\ x[1] = z[1] /\ x[2] = z[2] /\ y[1] = z[3] /\ y[2] = z[4]
    OBVIOUS
  <2> HIDE DEF x, y, z
  <2>2. /\ x \o y \in Seq(Byte) /\ Len(x \o y) = Len(x) + Len(y)
        /\ \A i \in 1 .. Len(x) : (x \o y)[i] = x[i]
        /\ \A i \in 1 .. Len(y) : (x \o y)[Len(x) + i] = y[i]
    BY <2>1, Join
  <2>3. Len(x \o y) = Len(z)
    BY <2>1, <2>2
  <2>4. \A i \in 1 .. Len(z) : (x \o y)[i] = z[i]
    BY <2>1, <2>2
  <2>5. x \o y = z
    BY <2>1, <2>2, <2>3, <2>4, SeqEqual
  <2> QED BY <2>5 DEF x, y, z
<1> QED BY <1>1, <1>2

\* They are written as bytes.
LEMMA AskEncoded ==
  ASSUME NEW items \in Seq(Items), \A i \in 1 .. Len(items) : AskItem(items[i])
  PROVE  Encoded(items) \in Seq(Byte)
<1>1. <<>> \in Seq(Byte) /\ \A k \in 1 .. Len(items) : IsItem(items[k])
  BY DEF AskItem
<1> QED BY <1>1, EncodedIs

\* The zeroes a message or a frame is filled with.
LEMMA Zeros ==
  ASSUME NEW n \in Int
  PROVE  [i \in 1 .. n |-> 0] \in Seq(Byte)
<1> DEFINE z == [i \in 1 .. n |-> 0]
<1>0. 0 \in Byte
  BY ByteIs
<1>1. CASE n \in Nat
  <2>1. z \in [1 .. n -> Byte]
    BY <1>0
  <2> QED BY <1>1, <2>1, Octets
<1>2. CASE n \notin Nat
  <2>1. 1 .. n = 1 .. 0
    BY <1>2
  <2>2. z \in [1 .. 0 -> Byte] /\ 0 \in Nat
    BY <2>1
  <2> QED BY <2>2, Octets
<1> QED BY <1>1, <1>2

\* The codes of the client's options.
LEMMA AskCodes ==
  /\ \A t \in {1, 3} : Encode(Item(OPT_MESSAGE_TYPE, <<t>>)) = <<OPT_MESSAGE_TYPE, 1, t>>
  /\ Encode(Item(OPT_PARAMETER_REQUEST_LIST, <<OPT_SUBNET_MASK, OPT_ROUTER>>)) = PARAMETER_REQUEST
  /\ \A v \in Ip : /\ Encode(Item(OPT_REQUESTED_ADDR, v)) = <<OPT_REQUESTED_ADDR, 4>> \o v
                   /\ Encode(Item(OPT_SERVER_ID, v)) = <<OPT_SERVER_ID, 4>> \o v
<1>0. /\ OPT_MESSAGE_TYPE # OPT_PAD /\ OPT_PARAMETER_REQUEST_LIST # OPT_PAD
      /\ OPT_REQUESTED_ADDR # OPT_PAD /\ OPT_SERVER_ID # OPT_PAD
  BY DEF OPT_MESSAGE_TYPE, OPT_PARAMETER_REQUEST_LIST, OPT_REQUESTED_ADDR, OPT_SERVER_ID, OPT_PAD
<1>1. ASSUME NEW tag, tag # OPT_PAD, NEW v
      PROVE  Encode(Item(tag, v)) = <<tag, Len(v)>> \o v
  BY <1>1 DEF Encode, Item
<1>2. ASSUME NEW t \in {1, 3}
      PROVE  Encode(Item(OPT_MESSAGE_TYPE, <<t>>)) = <<OPT_MESSAGE_TYPE, 1, t>>
  <2>1. Encode(Item(OPT_MESSAGE_TYPE, <<t>>)) = <<OPT_MESSAGE_TYPE, Len(<<t>>)>> \o <<t>>
    BY <1>0, <1>1
  <2>2. Len(<<t>>) = 1
    OBVIOUS
  <2>3. <<OPT_MESSAGE_TYPE, 1>> \o <<t>> = <<OPT_MESSAGE_TYPE, 1, t>>
    <3>1. OPT_MESSAGE_TYPE \in Byte /\ 1 \in Byte /\ t \in Byte
      BY ByteIs DEF OPT_MESSAGE_TYPE
    <3> QED BY <3>1, Literals
  <2> QED BY <2>1, <2>2, <2>3
<1>3. Encode(Item(OPT_PARAMETER_REQUEST_LIST, <<OPT_SUBNET_MASK, OPT_ROUTER>>)) = PARAMETER_REQUEST
  <2> DEFINE v == <<OPT_SUBNET_MASK, OPT_ROUTER>>
  <2>1. Encode(Item(OPT_PARAMETER_REQUEST_LIST, v)) = <<OPT_PARAMETER_REQUEST_LIST, Len(v)>> \o v
    BY <1>0, <1>1
  <2>2. Len(v) = 2
    OBVIOUS
  <2>3. <<OPT_PARAMETER_REQUEST_LIST, 2>> \o <<OPT_SUBNET_MASK, OPT_ROUTER>> = PARAMETER_REQUEST
    <3>1. /\ OPT_PARAMETER_REQUEST_LIST \in Byte /\ 2 \in Byte
          /\ OPT_SUBNET_MASK \in Byte /\ OPT_ROUTER \in Byte
      BY ByteIs DEF OPT_PARAMETER_REQUEST_LIST, OPT_SUBNET_MASK, OPT_ROUTER
    <3> QED BY <3>1, Literals DEF PARAMETER_REQUEST
  <2> QED BY <2>1, <2>2, <2>3
<1>4. ASSUME NEW v \in Ip
      PROVE  /\ Encode(Item(OPT_REQUESTED_ADDR, v)) = <<OPT_REQUESTED_ADDR, 4>> \o v
             /\ Encode(Item(OPT_SERVER_ID, v)) = <<OPT_SERVER_ID, 4>> \o v
  <2>1. Len(v) = 4
    BY Octets DEF Ip
  <2> QED BY <2>1, <1>0, <1>1
<1> QED BY <1>2, <1>3, <1>4

\* build_discover writes a code of its options, and a server reads them.
LEMMA DiscoverRead ==
  LET r == ParseOptions(BuildDiscover(OwnMac, Xid).options, Asked)
  IN  r = Ok(AskedBy(DHCPDISCOVER, None, None)) /\ r \in Results
<1> DEFINE a == Item(OPT_MESSAGE_TYPE, <<DHCPDISCOVER>>)
           d == Item(OPT_PARAMETER_REQUEST_LIST, <<OPT_SUBNET_MASK, OPT_ROUTER>>)
           items == <<a, d>>
           o == <<OPT_MESSAGE_TYPE, 1, DHCPDISCOVER>> \o PARAMETER_REQUEST \o <<OPT_END>>
           tail == [i \in 1 .. OptionsLen - Len(o) |-> 0]
<1>1. AskItem(a) /\ AskItem(d)
  BY AskItems
<1>2. /\ a.tag = OPT_MESSAGE_TYPE /\ a.means = <<DHCPDISCOVER>>
      /\ d.tag = OPT_PARAMETER_REQUEST_LIST /\ d.means = <<OPT_SUBNET_MASK, OPT_ROUTER>>
  BY DEF Item
<1>3. Encode(a) = <<OPT_MESSAGE_TYPE, 1, DHCPDISCOVER>> /\ Encode(d) = PARAMETER_REQUEST
  BY AskCodes DEF DHCPDISCOVER
<1> HIDE DEF a, d
<1>4. Encoded(items) = o
  BY <1>1, <1>3, EncodedTwo DEF AskItem
<1>5. BuildDiscover(OwnMac, Xid).options = o \o tail
  BY DEF BuildDiscover, BuildMessage
<1>6. /\ items \in Seq(Items) /\ Len(items) = 2 /\ items[1] = a /\ items[2] = d
      /\ \A i \in 1 .. Len(items) : AskItem(items[i])
  BY <1>1 DEF AskItem
<1> HIDE DEF items
<1>7. Len(o) \in Int
  <2>1. o \in Seq(Byte)
    BY <1>4, <1>6, AskEncoded
  <2> HIDE DEF o
  <2> QED BY <2>1
<1>8. tail \in Seq(Byte)
  <2>1. OptionsLen - Len(o) \in Int
    BY <1>7 DEF OptionsLen
  <2> QED BY <2>1, Zeros
<1> HIDE DEF tail, o
<1>9. /\ ParseOptions(Encoded(items) \o tail, Asked) = Ok([f \in Asked |-> Meant(items, f)])
      /\ Ok([f \in Asked |-> Meant(items, f)]) \in Results
  BY <1>6, <1>8, AskRead
<1>10. ASSUME NEW f \in Asked PROVE Meant(items, f) = AskedBy(DHCPDISCOVER, None, None)[f]
  <2>1. Meant(items, f) = MeantSoFar(items, 2, f) /\ MeantSoFar(items, 0, f) = None
    BY <1>6, MeantIs
  <2>2. MeantSoFar(items, 0 + 1, f) =
          IF items[0 + 1].tag = f THEN items[0 + 1].means ELSE MeantSoFar(items, 0, f)
    BY MeantStep
  <2>3. MeantSoFar(items, 1 + 1, f) =
          IF items[1 + 1].tag = f THEN items[1 + 1].means ELSE MeantSoFar(items, 1, f)
    BY MeantStep
  <2>4. 0 + 1 = 1 /\ 1 + 1 = 2
    OBVIOUS
  <2>5. Meant(items, f) = IF d.tag = f THEN d.means ELSE IF a.tag = f THEN a.means ELSE None
    BY <2>1, <2>2, <2>3, <2>4, <1>6
  <2> QED BY <2>5, <1>2 DEF AskedBy, Asked, OPT_MESSAGE_TYPE, OPT_REQUESTED_ADDR, OPT_SERVER_ID,
                            OPT_PARAMETER_REQUEST_LIST
<1>11. [f \in Asked |-> Meant(items, f)] = AskedBy(DHCPDISCOVER, None, None)
  BY <1>10 DEF AskedBy
<1> QED BY <1>4, <1>5, <1>9, <1>11

\* build_request writes a code of its options, and a server reads them.
LEMMA RequestRead ==
  ASSUME NEW offer \in Offered
  PROVE  LET r == ParseOptions(BuildRequest(OwnMac, Xid, offer).options, Asked)
         IN  r = Ok(AskedBy(DHCPREQUEST, offer.client_addr, offer.server_id)) /\ r \in Results
<1> DEFINE ca == offer.client_addr
           si == offer.server_id
           a == Item(OPT_MESSAGE_TYPE, <<DHCPREQUEST>>)
           b == Item(OPT_REQUESTED_ADDR, ca)
           c == Item(OPT_SERVER_ID, si)
           d == Item(OPT_PARAMETER_REQUEST_LIST, <<OPT_SUBNET_MASK, OPT_ROUTER>>)
           items == <<a, b, c, d>>
           o == <<OPT_MESSAGE_TYPE, 1, DHCPREQUEST>> \o <<OPT_REQUESTED_ADDR, 4>> \o ca
                \o <<OPT_SERVER_ID, 4>> \o si \o PARAMETER_REQUEST \o <<OPT_END>>
           tail == [i \in 1 .. OptionsLen - Len(o) |-> 0]
<1>0. ca \in Ip /\ si \in Ip
  BY MessageAssumption
<1>1. AskItem(a) /\ AskItem(b) /\ AskItem(c) /\ AskItem(d)
  BY <1>0, AskItems
<1>2. /\ a.tag = OPT_MESSAGE_TYPE /\ a.means = <<DHCPREQUEST>>
      /\ b.tag = OPT_REQUESTED_ADDR /\ b.means = ca
      /\ c.tag = OPT_SERVER_ID /\ c.means = si
      /\ d.tag = OPT_PARAMETER_REQUEST_LIST /\ d.means = <<OPT_SUBNET_MASK, OPT_ROUTER>>
  BY DEF Item
<1>3. /\ Encode(a) = <<OPT_MESSAGE_TYPE, 1, DHCPREQUEST>> /\ Encode(d) = PARAMETER_REQUEST
      /\ Encode(b) = <<OPT_REQUESTED_ADDR, 4>> \o ca /\ Encode(c) = <<OPT_SERVER_ID, 4>> \o si
  BY <1>0, AskCodes DEF DHCPREQUEST
<1> HIDE DEF a, b, c, d
<1>4. Encoded(items) = o
  <2> DEFINE x == <<OPT_REQUESTED_ADDR, 4>>
             y == <<OPT_SERVER_ID, 4>>
             ea == Encode(a)
             s == (ea \o x) \o ca
  <2>1. Encoded(items) = ea \o Encode(b) \o Encode(c) \o Encode(d) \o <<OPT_END>>
    <3>1. IsItem(a) /\ IsItem(b) /\ IsItem(c) /\ IsItem(d)
      BY <1>1 DEF AskItem
    <3>2. Encoded(<<a, b, c, d>>) = Codes(a, b, c, d)
      BY <3>1, EncodedFour
    <3> QED BY <3>2 DEF Codes
  <2>2. ea \in Seq(Byte)
    BY <1>1, EncodeIs DEF AskItem
  <2>3. ca \in Seq(Byte) /\ si \in Seq(Byte)
    BY <1>0, Octets DEF Ip
  <2>4. x \in Seq(Byte) /\ y \in Seq(Byte)
    <3>1. OPT_REQUESTED_ADDR \in Byte /\ OPT_SERVER_ID \in Byte /\ 4 \in Byte
      BY ByteIs DEF OPT_REQUESTED_ADDR, OPT_SERVER_ID
    <3> QED BY <3>1
  <2> HIDE DEF ea, x, y, ca, si
  <2>5. ea \o (x \o ca) = s
    BY <2>2, <2>3, <2>4, Assoc, ZenonT(60)
  <2>6. s \in Seq(Byte)
    <3>1. ea \o x \in Seq(Byte)
      BY <2>2, <2>4, Join
    <3> HIDE DEF s
    <3> QED BY <3>1, <2>3, Join DEF s
  <2> HIDE DEF s
  <2>7. s \o (y \o si) = (s \o y) \o si
    BY <2>3, <2>4, <2>6, Assoc, SMTT(60)
  <2> QED BY <2>1, <2>5, <2>7, <1>3 DEF s, ea, x, y, ca, si
<1>5. BuildRequest(OwnMac, Xid, offer).options = o \o tail
  BY DEF BuildRequest, BuildMessage
<1>6. /\ items \in Seq(Items) /\ Len(items) = 4
      /\ items[1] = a /\ items[2] = b /\ items[3] = c /\ items[4] = d
      /\ \A i \in 1 .. Len(items) : AskItem(items[i])
  BY <1>1 DEF AskItem
<1> HIDE DEF items
<1>7. Len(o) \in Int
  <2>1. o \in Seq(Byte)
    BY <1>4, <1>6, AskEncoded
  <2> HIDE DEF o
  <2> QED BY <2>1
<1>8. tail \in Seq(Byte)
  <2>1. OptionsLen - Len(o) \in Int
    BY <1>7 DEF OptionsLen
  <2> QED BY <2>1, Zeros
<1> HIDE DEF tail, o
<1>9. /\ ParseOptions(Encoded(items) \o tail, Asked) = Ok([f \in Asked |-> Meant(items, f)])
      /\ Ok([f \in Asked |-> Meant(items, f)]) \in Results
  BY <1>6, <1>8, AskRead
<1>10. ASSUME NEW f \in Asked PROVE Meant(items, f) = AskedBy(DHCPREQUEST, ca, si)[f]
  <2>1. Meant(items, f) = MeantSoFar(items, 4, f) /\ MeantSoFar(items, 0, f) = None
    BY <1>6, MeantIs
  <2>2. \A k \in {0, 1, 2, 3} :
          MeantSoFar(items, k + 1, f) =
            IF items[k + 1].tag = f THEN items[k + 1].means ELSE MeantSoFar(items, k, f)
    BY MeantStep
  <2>3. /\ MeantSoFar(items, 1, f) = IF a.tag = f THEN a.means ELSE None
        /\ MeantSoFar(items, 2, f) = IF b.tag = f THEN b.means ELSE MeantSoFar(items, 1, f)
    BY <2>1, <2>2, <1>6
  <2>4. /\ MeantSoFar(items, 3, f) = IF c.tag = f THEN c.means ELSE MeantSoFar(items, 2, f)
        /\ MeantSoFar(items, 4, f) = IF d.tag = f THEN d.means ELSE MeantSoFar(items, 3, f)
    BY <2>1, <2>2, <1>6
  <2> QED BY <2>1, <2>3, <2>4, <1>2
          DEF AskedBy, Asked, OPT_MESSAGE_TYPE, OPT_REQUESTED_ADDR, OPT_SERVER_ID,
              OPT_PARAMETER_REQUEST_LIST
<1>11. [f \in Asked |-> Meant(items, f)] = AskedBy(DHCPREQUEST, ca, si)
  BY <1>10 DEF AskedBy
<1> QED BY <1>4, <1>5, <1>9, <1>11

-----------------------------------------------------------------------------
(* What the actions do                                                     *)

\* A message that is read is read as it was written.
LEMMA ReadsWritten ==
  ASSUME Messages
  PROVE  ParsesWhatWasWritten' /\ received' \in Results /\ state' = "read"
<1>0. Rejected \notin Results
  BY OutcomesApart
<1>1. ASSUME NEW r \in Reply, NEW tail \in Padding,
             NEW n \in 0 .. Len(Encoded(r.items) \o tail), ReadReply(r, tail, n)
      PROVE  ParsesWhatWasWritten' /\ received' \in Results /\ state' = "read"
  <2>1. /\ state' = "read" /\ received' = ReplyResult(r, tail, n)
        /\ meant' = IF n >= Len(Encoded(r.items)) /\ Usable(r, Xid, OwnMac)
                    THEN Ok(Configuration(r)) ELSE Rejected
    BY <1>1 DEF ReadReply, Read, ReplyResult
  <2>2. ReplyRead(r, tail, n) /\ ReplyResult(r, tail, n) \in Results
    BY FromMessageIs
  <2>3. CASE n >= Len(Encoded(r.items)) /\ Usable(r, Xid, OwnMac)
    BY <2>1, <2>2, <2>3, <1>0 DEF ReplyRead, ParsesWhatWasWritten
  <2>4. CASE ~(n >= Len(Encoded(r.items)) /\ Usable(r, Xid, OwnMac))
    BY <2>1, <2>2, <2>4 DEF ReplyRead, ParsesWhatWasWritten
  <2> QED BY <2>3, <2>4
<1>2. ASSUME NEW msg, NEW wanted, ReadAsk(msg, wanted),
             ParseOptions(msg.options, Asked) = Ok(wanted),
             ParseOptions(msg.options, Asked) \in Results
      PROVE  ParsesWhatWasWritten' /\ received' \in Results /\ state' = "read"
  <2>1. /\ state' = "read" /\ received' = ParseOptions(msg.options, Asked) /\ meant' = Ok(wanted)
    BY <1>2 DEF ReadAsk, Read
  <2> QED BY <2>1, <1>0, <1>2 DEF ParsesWhatWasWritten
<1>3. CASE ReadAsk(BuildDiscover(OwnMac, Xid), AskedBy(DHCPDISCOVER, None, None))
  BY <1>2, <1>3, DiscoverRead
<1>4. ASSUME NEW offer \in Offered,
             ReadAsk(BuildRequest(OwnMac, Xid, offer),
                     AskedBy(DHCPREQUEST, offer.client_addr, offer.server_id))
      PROVE  ParsesWhatWasWritten' /\ received' \in Results /\ state' = "read"
  BY <1>2, <1>4, RequestRead
<1> QED BY <1>1, <1>3, <1>4 DEF Messages

\* from_message makes the binding its server wrote out of exactly the replies that are
\* this client's, complete and well formed, and a server finds in what build_discover and
\* build_request write what the client asks for; for every reply, of any length and cut
\* off anywhere.
THEOREM ParsesWritten == Spec => []ParsesWhatWasWritten
<1>1. Init => ParsesWhatWasWritten
  BY DEF Init, ParsesWhatWasWritten
<1>2. ParsesWhatWasWritten /\ [Next]_vars => ParsesWhatWasWritten'
  <2> SUFFICES ASSUME ParsesWhatWasWritten, [Next]_vars PROVE ParsesWhatWasWritten'
    OBVIOUS
  <2>1. CASE Send
    <3>1. state' # "read"
      BY <2>1 DEF Send, SendDhcp, SendArpRequest, HostSend, Transmit
    <3> QED BY <3>1 DEF ParsesWhatWasWritten
  <2>2. CASE Link
    <3>1. state' # "read"
      BY <2>2 DEF Link, Damage, Truncate, OnWire
    <3> QED BY <3>1 DEF ParsesWhatWasWritten
  <2>3. CASE Receive
    <3>1. state' # "read"
      BY <2>3 DEF Receive, ReceiveBad, ReceiveArp, ReceiveOther, ReceiveUdp, ReceiveIcmp,
                  Finish, Answer
    <3> QED BY <3>1 DEF ParsesWhatWasWritten
  <2>4. CASE HostReceive
    <3>1. state' # "read"
      BY <2>4 DEF HostReceive, Finish
    <3> QED BY <3>1 DEF ParsesWhatWasWritten
  <2>5. CASE Messages
    BY <2>5, ReadsWritten
  <2>6. CASE Again
    <3>1. state' # "read"
      BY <2>6 DEF Again
    <3> QED BY <3>1 DEF ParsesWhatWasWritten
  <2>7. CASE UNCHANGED vars
    BY <2>7 DEF vars, ParsesWhatWasWritten
  <2> QED BY <2>1, <2>2, <2>3, <2>4, <2>5, <2>6, <2>7 DEF Next
<1> QED BY <1>1, <1>2, PTL DEF Spec

-----------------------------------------------------------------------------
(* The bytes that are written                                              *)

\* The two bytes of a 16-bit number.
LEMMA BeIs ==
  ASSUME NEW n \in U16
  PROVE  /\ Be(n) \in Seq(Byte) /\ Len(Be(n)) = 2
         /\ Be(n)[1] * 256 + Be(n)[2] = n /\ Be(n)[1] \in Byte /\ Be(n)[2] \in Byte
<1>1. n \in Nat /\ n <= 65535
  BY U16Is
<1>2. /\ n \div 256 \in Nat /\ n \div 256 <= 255 /\ n % 256 \in Nat /\ n % 256 <= 255
      /\ (n \div 256) * 256 + (n % 256) = n
  BY <1>1
<1>3. n \div 256 \in Byte /\ n % 256 \in Byte
  BY <1>2, ByteIs
<1>4. Be(n)[1] = n \div 256 /\ Be(n)[2] = n % 256 /\ Len(Be(n)) = 2
  BY DEF Be
<1>5. Be(n) \in Seq(Byte)
  BY <1>3 DEF Be
<1> QED BY <1>2, <1>3, <1>4, <1>5

\* The bytes of x are those of a and, behind the m of them, those of b.
Joined(a, b, m, x) ==
  /\ x \in Seq(Byte) /\ m \in Nat /\ Len(b) \in Nat /\ Len(x) = m + Len(b)
  /\ \A i \in 1 .. m : x[i] = a[i]
  /\ \A i \in 1 .. Len(b) : x[m + i] = b[i]

\* Where the bytes of a concatenation come from.
LEMMA JoinAt ==
  ASSUME NEW a \in Seq(Byte), NEW b \in Seq(Byte)
  PROVE  Joined(a, b, Len(a), a \o b)
BY Join DEF Joined

\* Five pairs of bytes in a row.
Paired(a, b, c, d, e, x) ==
  /\ x \in Seq(Byte) /\ Len(x) = 10
  /\ x[1] = a[1] /\ x[2] = a[2] /\ x[3] = b[1] /\ x[4] = b[2]
  /\ x[5] = c[1] /\ x[6] = c[2] /\ x[7] = d[1] /\ x[8] = d[2]
  /\ x[9] = e[1] /\ x[10] = e[2]

\* Two bytes.
IsPair(a) == a \in Seq(Byte) /\ Len(a) = 2

\* Five pairs of bytes one behind the other, as in a header.
LEMMA Pairs ==
  ASSUME NEW a, NEW b, NEW c, NEW d, NEW e,
         IsPair(a), IsPair(b), IsPair(c), IsPair(d), IsPair(e)
  PROVE  Paired(a, b, c, d, e, a \o b \o c \o d \o e)
<1>0. /\ a \in Seq(Byte) /\ b \in Seq(Byte) /\ c \in Seq(Byte) /\ d \in Seq(Byte)
      /\ e \in Seq(Byte) /\ Len(a) = 2 /\ Len(b) = 2 /\ Len(c) = 2 /\ Len(d) = 2 /\ Len(e) = 2
  BY DEF IsPair
<1> DEFINE y2 == a \o b
           y3 == y2 \o c
           y4 == y3 \o d
           y5 == y4 \o e
<1>1. /\ y2 \in Seq(Byte) /\ Len(y2) = 4
      /\ y2[1] = a[1] /\ y2[2] = a[2] /\ y2[3] = b[1] /\ y2[4] = b[2]
  <2>1. Joined(a, b, 2, y2)
    BY <1>0, JoinAt
  <2> HIDE DEF y2
  <2>2. y2 \in Seq(Byte) /\ Len(y2) = 4 /\ y2[1] = a[1] /\ y2[2] = a[2]
    BY <1>0, <2>1 DEF Joined
  <2>3. y2[2 + 1] = b[1] /\ y2[2 + 2] = b[2]
    BY <1>0, <2>1 DEF Joined
  <2> QED BY <2>2, <2>3
<1> HIDE DEF y2
<1>2. /\ y3 \in Seq(Byte) /\ Len(y3) = 6
      /\ y3[1] = a[1] /\ y3[2] = a[2] /\ y3[3] = b[1] /\ y3[4] = b[2]
      /\ y3[5] = c[1] /\ y3[6] = c[2]
  <2>1. Joined(y2, c, 4, y3)
    BY <1>0, <1>1, JoinAt
  <2> HIDE DEF y3
  <2>2. y3 \in Seq(Byte) /\ Len(y3) = 6 /\ \A i \in 1 .. 4 : y3[i] = y2[i]
    BY <1>0, <2>1 DEF Joined
  <2>3. y3[4 + 1] = c[1] /\ y3[4 + 2] = c[2]
    BY <1>0, <2>1 DEF Joined
  <2>4. y3[1] = y2[1] /\ y3[2] = y2[2] /\ y3[3] = y2[3] /\ y3[4] = y2[4]
    BY <2>2
  <2> QED BY <2>2, <2>3, <2>4, <1>1
<1> HIDE DEF y3
<1>3. /\ y4 \in Seq(Byte) /\ Len(y4) = 8
      /\ y4[1] = a[1] /\ y4[2] = a[2] /\ y4[3] = b[1] /\ y4[4] = b[2]
      /\ y4[5] = c[1] /\ y4[6] = c[2] /\ y4[7] = d[1] /\ y4[8] = d[2]
  <2>1. Joined(y3, d, 6, y4)
    BY <1>0, <1>2, JoinAt
  <2> HIDE DEF y4
  <2>2. y4 \in Seq(Byte) /\ Len(y4) = 8 /\ \A i \in 1 .. 6 : y4[i] = y3[i]
    BY <1>0, <2>1 DEF Joined
  <2>3. y4[6 + 1] = d[1] /\ y4[6 + 2] = d[2]
    BY <1>0, <2>1 DEF Joined
  <2>4. /\ y4[1] = y3[1] /\ y4[2] = y3[2] /\ y4[3] = y3[3]
        /\ y4[4] = y3[4] /\ y4[5] = y3[5] /\ y4[6] = y3[6]
    BY <2>2
  <2> QED BY <2>2, <2>3, <2>4, <1>2
<1> HIDE DEF y4
<1>4. Joined(y4, e, 8, y5)
  BY <1>0, <1>3, JoinAt
<1>5. a \o b \o c \o d \o e = y5
  BY DEF y2, y3, y4, y5
<1> HIDE DEF y5
<1>6. /\ y5[1] = y4[1] /\ y5[2] = y4[2] /\ y5[3] = y4[3] /\ y5[4] = y4[4]
      /\ y5[5] = y4[5] /\ y5[6] = y4[6] /\ y5[7] = y4[7] /\ y5[8] = y4[8]
  BY <1>0, <1>4 DEF Joined
<1>7. y5[8 + 1] = e[1] /\ y5[8 + 2] = e[2] /\ Len(y5) = 10 /\ y5 \in Seq(Byte)
  BY <1>0, <1>4 DEF Joined
<1>8. Paired(a, b, c, d, e, y5)
  BY <1>3, <1>6, <1>7 DEF Paired
<1> QED BY <1>5, <1>8

\* The header serialize writes, in two parts around its checksum.
HeaderFront(p) ==
  <<p.version_ihl, 0>> \o Be(p.total_length) \o Be(p.id) \o Be(p.flags_frag_offset)
  \o <<64, p.protocol>>
HeaderBack(p) == p.source \o p.dest \o p.options
Ipv4Header(p, checksum) == HeaderFront(p) \o (Be(checksum) \o HeaderBack(p))

\* The fields in front of the header checksum.
LEMMA FrontIs ==
  ASSUME NEW p \in Ipv4Packets
  PROVE  LET x == HeaderFront(p) IN
         /\ x \in Seq(Byte) /\ Len(x) = 10
         /\ x[1] = p.version_ihl /\ x[3] * 256 + x[4] = p.total_length
         /\ x[5] * 256 + x[6] = p.id /\ x[7] * 256 + x[8] = p.flags_frag_offset
         /\ x[10] = p.protocol
<1> DEFINE a == <<p.version_ihl, 0>>
           b == Be(p.total_length)
           c == Be(p.id)
           d == Be(p.flags_frag_offset)
           e == <<64, p.protocol>>
<1>1. /\ p.version_ihl \in Byte /\ p.total_length \in U16 /\ p.id \in U16
      /\ p.flags_frag_offset \in U16 /\ p.protocol \in Byte
  BY DEF Ipv4Packets
<1>2. 0 \in Byte /\ 64 \in Byte
  BY ByteIs
<1>3. /\ a \in Seq(Byte) /\ Len(a) = 2 /\ a[1] = p.version_ihl
      /\ e \in Seq(Byte) /\ Len(e) = 2 /\ e[2] = p.protocol
  BY <1>1, <1>2
<1>4. /\ b \in Seq(Byte) /\ Len(b) = 2 /\ b[1] * 256 + b[2] = p.total_length
      /\ c \in Seq(Byte) /\ Len(c) = 2 /\ c[1] * 256 + c[2] = p.id
      /\ d \in Seq(Byte) /\ Len(d) = 2 /\ d[1] * 256 + d[2] = p.flags_frag_offset
  BY <1>1, BeIs
<1>5. HeaderFront(p) = a \o b \o c \o d \o e
  BY DEF HeaderFront
<1> HIDE DEF a, b, c, d, e
<1> DEFINE x == HeaderFront(p)
<1>50. x = a \o b \o c \o d \o e
  BY <1>5
<1>51. Paired(a, b, c, d, e, x)
  BY <1>3, <1>4, <1>50, Pairs DEF IsPair
<1> HIDE DEF x
<1>6. /\ x \in Seq(Byte) /\ Len(x) = 10
      /\ x[1] = a[1] /\ x[3] = b[1] /\ x[4] = b[2]
      /\ x[5] = c[1] /\ x[6] = c[2] /\ x[7] = d[1] /\ x[8] = d[2] /\ x[10] = e[2]
  BY <1>51 DEF Paired
<1> QED BY <1>3, <1>4, <1>6 DEF x

\* The fields behind it.
LEMMA BackIs ==
  ASSUME NEW p \in Ipv4Packets
  PROVE  LET y == HeaderBack(p) IN
         /\ y \in Seq(Byte) /\ Len(y) = 8 + Len(p.options) /\ Len(p.options) \in Nat
         /\ \A i \in 1 .. 4 : y[i] = p.source[i] /\ y[4 + i] = p.dest[i]
         /\ \A i \in 1 .. Len(p.options) : y[8 + i] = p.options[i]
<1> DEFINE a == p.source
           b == p.dest
           o == p.options
           ab == a \o b
           y == ab \o o
<1>1. a \in Ip /\ b \in Ip /\ o \in Seq(Byte)
  BY DEF Ipv4Packets
<1>2. /\ a \in Seq(Byte) /\ Len(a) = 4 /\ b \in Seq(Byte) /\ Len(b) = 4
  BY <1>1, Octets DEF Ip
<1> HIDE DEF a, b, o
<1>20. Joined(a, b, 4, ab)
  BY <1>2, JoinAt
<1> HIDE DEF ab
<1>3. /\ ab \in Seq(Byte) /\ Len(ab) = 4 + Len(b)
      /\ \A i \in 1 .. 4 : ab[i] = a[i]
      /\ \A i \in 1 .. Len(b) : ab[4 + i] = b[i]
  BY <1>20 DEF Joined
<1>4. Len(ab) = 8 /\ \A i \in 1 .. 4 : ab[4 + i] = b[i]
  BY <1>2, <1>3
<1>40. Joined(ab, o, 8, y)
  BY <1>1, <1>3, <1>4, JoinAt
<1> HIDE DEF y
<1>5. /\ y \in Seq(Byte) /\ Len(y) = 8 + Len(o) /\ Len(o) \in Nat
      /\ \A i \in 1 .. 8 : y[i] = ab[i]
      /\ \A i \in 1 .. Len(o) : y[8 + i] = o[i]
  BY <1>40 DEF Joined
<1>6. \A i \in 1 .. 4 : y[i] = a[i] /\ y[4 + i] = b[i]
  <2> SUFFICES ASSUME NEW i \in 1 .. 4 PROVE y[i] = a[i] /\ y[4 + i] = b[i]
    OBVIOUS
  <2>1. i \in 1 .. 8 /\ 4 + i \in 1 .. 8
    OBVIOUS
  <2> QED BY <2>1, <1>3, <1>4, <1>5
<1>7. HeaderBack(p) = y
  BY DEF HeaderBack, y, ab, a, b, o
<1> QED BY <1>5, <1>6, <1>7 DEF a, b, o

\* Where the fields of a header are.
HeaderOf(p, checksum, h) ==
  /\ h \in Seq(Byte) /\ Len(h) = 20 + Len(p.options) /\ Len(p.options) \in Nat
  /\ h[1] = p.version_ihl /\ h[3] * 256 + h[4] = p.total_length
  /\ h[5] * 256 + h[6] = p.id /\ h[7] * 256 + h[8] = p.flags_frag_offset
  /\ h[10] = p.protocol
  /\ \A i \in 1 .. 4 : h[12 + i] = p.source[i] /\ h[16 + i] = p.dest[i]
  /\ \A i \in 1 .. Len(p.options) : h[20 + i] = p.options[i]

\* The header that is written has the fields of the packet.
LEMMA HeaderIs ==
  ASSUME NEW p \in Ipv4Packets, NEW c \in U16
  PROVE  HeaderOf(p, c, Ipv4Header(p, c))
<1> DEFINE x == HeaderFront(p)
           b == Be(c)
           y == HeaderBack(p)
           z == b \o y
           h == x \o z
           n == Len(p.options)
<1>1. /\ x \in Seq(Byte) /\ Len(x) = 10
      /\ x[1] = p.version_ihl /\ x[3] * 256 + x[4] = p.total_length
      /\ x[5] * 256 + x[6] = p.id /\ x[7] * 256 + x[8] = p.flags_frag_offset
      /\ x[10] = p.protocol
  BY FrontIs
<1>2. b \in Seq(Byte) /\ Len(b) = 2
  BY BeIs
<1>3. /\ y \in Seq(Byte) /\ Len(y) = 8 + n /\ n \in Nat
      /\ \A i \in 1 .. 4 : y[i] = p.source[i] /\ y[4 + i] = p.dest[i]
      /\ \A i \in 1 .. n : y[8 + i] = p.options[i]
  BY BackIs
<1> HIDE DEF x, b, y, n
<1>4. Joined(b, y, 2, z)
  BY <1>2, <1>3, JoinAt
<1> HIDE DEF z
<1>5. z \in Seq(Byte) /\ Len(z) = 10 + n /\ \A i \in 1 .. 8 + n : z[2 + i] = y[i]
  <2>1. z \in Seq(Byte) /\ Len(z) = 2 + Len(y) /\ \A i \in 1 .. Len(y) : z[2 + i] = y[i]
    BY <1>4 DEF Joined
  <2>2. Len(y) = 8 + n /\ n \in Nat
    BY <1>3
  <2>3. 2 + (8 + n) = 10 + n
    BY <2>2
  <2> QED BY <2>1, <2>2, <2>3
<1>6. Joined(x, z, 10, h)
  BY <1>1, <1>5, JoinAt
<1>7. Ipv4Header(p, c) = h
  BY DEF Ipv4Header, h, x, z, b, y
<1> HIDE DEF h
<1>8. /\ h \in Seq(Byte) /\ Len(h) = 20 + n
      /\ h[1] = x[1] /\ h[3] = x[3] /\ h[4] = x[4] /\ h[5] = x[5] /\ h[6] = x[6]
      /\ h[7] = x[7] /\ h[8] = x[8] /\ h[10] = x[10]
  BY <1>3, <1>5, <1>6 DEF Joined
<1>9. ASSUME NEW i \in 1 .. 8 + n PROVE h[12 + i] = y[i]
  <2>1. \A j \in 1 .. 10 + n : h[10 + j] = z[j]
    BY <1>5, <1>6 DEF Joined
  <2>2. 2 + i \in 1 .. 10 + n /\ 12 + i = 10 + (2 + i)
    BY <1>3
  <2> QED BY <2>1, <2>2, <1>5
<1>10. ASSUME NEW i \in 1 .. 4 PROVE h[12 + i] = p.source[i] /\ h[16 + i] = p.dest[i]
  <2>1. i \in 1 .. 8 + n /\ 4 + i \in 1 .. 8 + n /\ 12 + (4 + i) = 16 + i
    BY <1>3
  <2>2. h[12 + i] = y[i] /\ h[12 + (4 + i)] = y[4 + i]
    BY <2>1, <1>9
  <2> QED BY <2>1, <2>2, <1>3
<1>11. ASSUME NEW i \in 1 .. n PROVE h[20 + i] = p.options[i]
  <2>1. 8 + i \in 1 .. 8 + n /\ 12 + (8 + i) = 20 + i
    BY <1>3
  <2>2. h[12 + (8 + i)] = y[8 + i]
    BY <2>1, <1>9
  <2> QED BY <2>1, <2>2, <1>3
<1> QED BY <1>1, <1>3, <1>7, <1>8, <1>10, <1>11 DEF HeaderOf, n

\* The header as serialize puts it together.
LEMMA HeaderLaid ==
  ASSUME NEW p \in Ipv4Packets, NEW c \in U16
  PROVE  HeaderFront(p) \o Be(c) \o p.source \o p.dest \o p.options = Ipv4Header(p, c)
<1> DEFINE x == HeaderFront(p)
           b == Be(c)
           s == p.source
           d == p.dest
           o == p.options
           g == x \o b
           sd == s \o d
<1>1. x \in Seq(Byte) /\ b \in Seq(Byte)
  BY FrontIs, BeIs
<1>2. s \in Ip /\ d \in Ip /\ o \in Seq(Byte)
  BY DEF Ipv4Packets
<1>3. s \in Seq(Byte) /\ d \in Seq(Byte)
  BY <1>2, Octets DEF Ip
<1> HIDE DEF x, b, s, d, o
<1>4. g \in Seq(Byte) /\ sd \in Seq(Byte)
  BY <1>1, <1>3, Join
<1> HIDE DEF g, sd
<1>5. g \o sd = (g \o s) \o d
  BY <1>3, <1>4, Assoc DEF sd
<1>6. g \o (sd \o o) = (g \o sd) \o o
  BY <1>2, <1>4, Assoc
<1>7. sd \o o \in Seq(Byte)
  BY <1>2, <1>4, Join
<1>8. x \o (b \o (sd \o o)) = g \o (sd \o o)
  <2> DEFINE y == sd \o o
  <2> HIDE DEF y
  <2>1. x \o (b \o y) = (x \o b) \o y
    BY <1>1, <1>7, Assoc DEF y
  <2> QED BY <2>1 DEF y, g
<1>9. Ipv4Header(p, c) = x \o (b \o (sd \o o))
  BY DEF Ipv4Header, HeaderBack, x, b, sd, s, d, o
<1>10. HeaderFront(p) \o Be(c) \o p.source \o p.dest \o p.options = (g \o s) \o d \o o
  BY DEF g, x, b, s, d, o
<1> QED BY <1>5, <1>6, <1>8, <1>9, <1>10

\* The checksum of a header of serialize.
HeaderSum(p) == InternetChecksum(<<Ipv4Header(p, 0)>>)

\* The header checksum fits in 16 bits.
LEMMA HeaderSumType ==
  ASSUME NEW p \in Ipv4Packets
  PROVE  HeaderSum(p) \in U16
<1>1. 0 \in U16
  BY U16Is
<1>2. HeaderOf(p, 0, Ipv4Header(p, 0))
  BY <1>1, HeaderIs
<1>3. Ipv4Header(p, 0) \in Seq(Byte)
  BY <1>2 DEF HeaderOf
<1> QED BY <1>3, ChecksumOfOne DEF HeaderSum

\* serialize writes the header with its checksum, and the data.
LEMMA SerializeIs ==
  ASSUME NEW p \in Ipv4Packets
  PROVE  Serialize(p) = Ipv4Header(p, HeaderSum(p)) \o p.data
<1> DEFINE header(c) == HeaderFront(p) \o Be(c) \o p.source \o p.dest \o p.options
<1>1. 0 \in U16 /\ HeaderSum(p) \in U16
  BY U16Is, HeaderSumType
<1>2. Serialize(p) = header(InternetChecksum(<<header(0)>>)) \o p.data
  BY DEF Serialize, HeaderFront
<1>3. header(0) = Ipv4Header(p, 0)
  BY <1>1, HeaderLaid
<1>4. header(HeaderSum(p)) = Ipv4Header(p, HeaderSum(p))
  BY <1>1, HeaderLaid
<1> HIDE DEF header
<1> QED BY <1>2, <1>3, <1>4 DEF HeaderSum

\* The complement of a folded sum makes it all ones.
LEMMA Complement ==
  ASSUME NEW s \in Nat
  PROVE  Folded(s + (65535 - Folded(s))) = 65535
<1>1. CASE s = 0
  <2>1. Folded(s) = 0 /\ s + (65535 - 0) = 65535
    BY <1>1 DEF Folded
  <2>2. Divided(65534, 0, 65534) /\ 65535 = 65534 + 1
    BY DEF Divided
  <2>3. Folded(65535) = 65534 + 1
    BY <2>2, FoldedIs
  <2> QED BY <2>1, <2>3
<1>2. CASE s # 0
  <2>1. PICK x \in Nat : s = x + 1
    <3>1. s - 1 \in Nat /\ s = (s - 1) + 1
      BY <1>2
    <3> QED BY <3>1
  <2>2. PICK a, b : Divided(x, a, b)
    BY Division
  <2>3. a \in Nat /\ b \in Nat /\ b < 65535 /\ x = 65535 * a + b
    BY <2>2 DEF Divided
  <2>4. Folded(s) = b + 1
    BY <2>1, <2>2, FoldedIs
  <2> DEFINE m == s + (65535 - Folded(s))
             y == 65535 * a + 65534
  <2>41. s + (65535 - (b + 1)) = 65535 * (a + 1)
    BY <2>1, <2>3
  <2>5. m = y + 1 /\ m \in Nat /\ y \in Nat
    BY <2>41, <2>3, <2>4
  <2>6. Divided(y, a, 65534)
    BY <2>3 DEF Divided
  <2> HIDE DEF m, y
  <2>7. Folded(m) = 65534 + 1
    BY <2>5, <2>6, FoldedIs
  <2> QED BY <2>7 DEF m
<1> QED BY <1>1, <1>2

\* A word adds itself to the sum.
LEMMA PartSumBe ==
  ASSUME NEW c \in U16
  PROVE  PartSum(Be(c)) = c
<1> DEFINE b == Be(c)
           w == Words(b)
<1>1. b \in Seq(Byte) /\ Len(b) = 2 /\ b[1] * 256 + b[2] = c
  BY BeIs
<1> HIDE DEF b
<1> DEFINE n == (Len(b) + 1) \div 2
<1>2. /\ w \in Seq(Nat) /\ Len(w) = n
      /\ \A i \in 1 .. n :
           w[i] = b[2 * i - 1] * 256 + (IF 2 * i <= Len(b) THEN b[2 * i] ELSE 0)
  <2>1. Halved(Len(b), n)
    BY DEF Halved
  <2> HIDE DEF n
  <2>2. AreWords(b, Len(b), n, Words(b))
    BY <1>1, <2>1, WordsHold
  <2> QED BY <2>2, Zenon DEF AreWords
<1>3. n = 1
  BY <1>1
<1> HIDE DEF w, n
<1>4. Len(w) = 1 /\ 1 \in 1 .. n
  BY <1>2, <1>3
<1>5. w[1] = b[1] * 256 + b[2]
  <2>1. w[1] = b[2 * 1 - 1] * 256 + (IF 2 * 1 <= Len(b) THEN b[2 * 1] ELSE 0)
    BY <1>2, <1>4
  <2>2. 2 * 1 - 1 = 1 /\ 2 * 1 = 2 /\ 2 <= Len(b)
    BY <1>1
  <2> QED BY <2>1, <2>2
<1>6. SumSeq(w) = w[1]
  BY <1>2, <1>4, SumSeqShort
<1> QED BY <1>1, <1>5, <1>6 DEF PartSum, w, b

\* An even number of bytes.
Even(a) == a \in Seq(Byte) /\ \E k \in Nat : Len(a) = 2 * k

\* The sum of bytes around a 16-bit field is that of its parts.
SumAround(a, c, b) == PartSum(a \o (Be(c) \o b)) = PartSum(a) + c + PartSum(b)

\* A checksum field adds its own value to the sum of what is around it.
LEMMA PartSumAround ==
  ASSUME NEW a, Even(a), NEW c \in U16, NEW b \in Seq(Byte)
  PROVE  SumAround(a, c, b)
<1>0. PICK k \in Nat : Len(a) = 2 * k /\ a \in Seq(Byte)
  BY DEF Even
<1>1. Be(c) \in Seq(Byte) /\ Len(Be(c)) = 2 * 1
  BY BeIs
<1> DEFINE w == Be(c)
           z == w \o b
<1> HIDE DEF w
<1>2. z \in Seq(Byte)
  BY <1>1, Join DEF w
<1>3. PartSum(z) = PartSum(w) + PartSum(b)
  BY <1>1, PartSumConcat DEF w
<1> HIDE DEF z
<1>4. PartSum(a \o z) = PartSum(a) + PartSum(z)
  BY <1>0, <1>2, PartSumConcat
<1>5. PartSum(w) = c
  BY PartSumBe DEF w
<1>6. PartSum(a) \in Nat /\ PartSum(b) \in Nat /\ c \in Nat
  BY <1>0, PartSumType, U16Is
<1>7. PartSum(a \o z) = PartSum(a) + (c + PartSum(b))
  BY <1>3, <1>4, <1>5
<1>8. PartSum(a) + (c + PartSum(b)) = PartSum(a) + c + PartSum(b)
  BY <1>6
<1> QED BY <1>7, <1>8 DEF z, w, SumAround

\* A header with its checksum passes the check of from_packet.
LEMMA HeaderHolds ==
  ASSUME NEW p \in Ipv4Packets
  PROVE  InternetChecksum(<<Ipv4Header(p, HeaderSum(p))>>) = 0
<1> DEFINE x == HeaderFront(p)
           y == HeaderBack(p)
           c == HeaderSum(p)
           s == PartSum(x) + PartSum(y)
<1>1. Even(x) /\ x \in Seq(Byte) /\ y \in Seq(Byte) /\ c \in U16 /\ 0 \in U16
  <2>1. x \in Seq(Byte) /\ Len(x) = 10
    BY FrontIs
  <2>2. y \in Seq(Byte)
    BY BackIs
  <2>3. c \in U16 /\ 0 \in U16
    BY HeaderSumType, U16Is
  <2> HIDE DEF x
  <2>4. Len(x) = 2 * 5 /\ 5 \in Nat
    BY <2>1
  <2> QED BY <2>1, <2>2, <2>3, <2>4 DEF Even
<1>2. \A d \in U16 : Ipv4Header(p, d) = x \o (Be(d) \o y)
  BY DEF Ipv4Header
<1>3. \A d \in U16 : Ipv4Header(p, d) \in Seq(Byte)
  BY HeaderIs DEF HeaderOf
<1>4. PartSum(x) \in Nat /\ PartSum(y) \in Nat
  BY <1>1, PartSumType
<1> HIDE DEF x, y, c
<1>5. \A d \in U16 : PartSum(Ipv4Header(p, d)) = PartSum(x) + d + PartSum(y)
  <2> SUFFICES ASSUME NEW d \in U16
               PROVE  PartSum(Ipv4Header(p, d)) = PartSum(x) + d + PartSum(y)
    OBVIOUS
  <2>1. SumAround(x, d, y)
    BY <1>1, PartSumAround
  <2> QED BY <2>1, <1>2 DEF SumAround
<1>6. s \in Nat /\ \A d \in U16 : PartSum(x) + d + PartSum(y) = s + d
  BY <1>4, U16Is
<1> HIDE DEF s
<1>7. PartSum(Ipv4Header(p, 0)) = s
  BY <1>1, <1>5, <1>6
<1>8. c = 65535 - Folded(s)
  BY <1>1, <1>3, <1>7, ChecksumOfOne DEF c, HeaderSum
<1>9. PartSum(Ipv4Header(p, c)) = s + (65535 - Folded(s))
  BY <1>1, <1>5, <1>6, <1>8
<1>10. InternetChecksum(<<Ipv4Header(p, c)>>) = 65535 - 65535
  BY <1>1, <1>3, <1>6, <1>9, ChecksumOfOne, Complement
<1> QED BY <1>10 DEF c

-----------------------------------------------------------------------------
(* The bytes that are read                                                 *)

\* s is what lies between two positions of b.
IsCut(s, b, m, n) ==
  /\ s \in Seq(Byte) /\ Len(s) = n - m + 1
  /\ \A i \in 1 .. n - m + 1 : s[i] = b[m + i - 1]

\* A slice from m to n of b is in range.
Within(b, m, n) ==
  b \in Seq(Byte) /\ m \in Nat /\ m >= 1 /\ n \in Nat /\ n <= Len(b) /\ m <= n + 1

\* The bytes of a slice that is in range.
LEMMA Cut ==
  ASSUME NEW b, NEW m, NEW n, Within(b, m, n)
  PROVE  IsCut(SubSeq(b, m, n), b, m, n)
<1>1. b \in Seq(Byte) /\ m \in Nat /\ m >= 1 /\ n \in Nat /\ n <= Len(b) /\ m <= n + 1
  BY DEF Within
<1>2. Len(b) \in Nat
  BY <1>1
<1>3. \A i \in m .. n : b[i] \in Byte
  <2> SUFFICES ASSUME NEW i \in m .. n PROVE b[i] \in Byte
    OBVIOUS
  <2>1. i \in 1 .. Len(b)
    BY <1>1, <1>2
  <2> QED BY <2>1, <1>1, ElementOfSeq
<1> DEFINE s == SubSeq(b, m, n)
<1>4. /\ s \in Seq(Byte) /\ Len(s) = IF m <= n THEN n - m + 1 ELSE 0
      /\ \A i \in 1 .. n - m + 1 : s[i] = b[m + i - 1]
  BY <1>1, <1>3, SubSeqProperties, SMTT(60)
<1> HIDE DEF s
<1>5. Len(s) = n - m + 1
  BY <1>1, <1>4
<1>6. IsCut(s, b, m, n)
  BY <1>4, <1>5 DEF IsCut
<1> QED BY <1>6 DEF s

\* Elements of a sequence of bytes are bytes.
LEMMA ByteAt ==
  ASSUME NEW b \in Seq(Byte), NEW i \in Nat, i >= 1, i <= Len(b)
  PROVE  b[i] \in Byte /\ b[i] \in Nat /\ b[i] <= 255
<1>1. i \in 1 .. Len(b)
  OBVIOUS
<1>2. b[i] \in Byte
  BY <1>1, ElementOfSeq
<1> QED BY <1>2, ByteIs

\* Two bytes are a 16-bit number.
LEMMA Be16Type ==
  ASSUME NEW x \in Byte, NEW y \in Byte
  PROVE  x * 256 + y \in U16
<1>1. x \in Nat /\ x <= 255 /\ y \in Nat /\ y <= 255
  BY ByteIs
<1>2. x * 256 + y \in Nat /\ x * 256 + y <= 65535
  BY <1>1
<1> QED BY <1>2, U16Is

\* Six bytes are a hardware address.
LEMMA SeqOfSix ==
  ASSUME NEW v \in Seq(Byte), Len(v) = 6
  PROVE  v \in Mac
<1>1. v \in [1 .. Len(v) -> Byte]
  BY LenProperties
<1> QED BY <1>1 DEF Mac

\* Four and six bytes from position m on.
LEMMA CutAddress ==
  ASSUME NEW b, NEW m \in Nat, m >= 1, b \in Seq(Byte)
  PROVE  /\ m + 3 <= Len(b) => SubSeq(b, m, m + 3) \in Ip
         /\ m + 5 <= Len(b) => SubSeq(b, m, m + 5) \in Mac
<1>1. ASSUME m + 3 <= Len(b) PROVE SubSeq(b, m, m + 3) \in Ip
  <2> DEFINE n == m + 3
             s == SubSeq(b, m, n)
  <2>1. Within(b, m, n) /\ n - m + 1 = 4
    BY <1>1 DEF Within
  <2> HIDE DEF n
  <2>2. IsCut(s, b, m, n)
    BY <2>1, Cut
  <2>3. s \in Seq(Byte) /\ Len(s) = 4
    BY <2>1, <2>2 DEF IsCut
  <2> HIDE DEF s
  <2>4. s \in Ip
    BY <2>3, SeqOfFour
  <2> QED BY <2>4 DEF s, n
<1>2. ASSUME m + 5 <= Len(b) PROVE SubSeq(b, m, m + 5) \in Mac
  <2> DEFINE n == m + 5
             s == SubSeq(b, m, n)
  <2>1. Within(b, m, n) /\ n - m + 1 = 6
    BY <1>2 DEF Within
  <2> HIDE DEF n
  <2>2. IsCut(s, b, m, n)
    BY <2>1, Cut
  <2>3. s \in Seq(Byte) /\ Len(s) = 6
    BY <2>1, <2>2 DEF IsCut
  <2> HIDE DEF s
  <2>4. s \in Mac
    BY <2>3, SeqOfSix
  <2> QED BY <2>4 DEF s, n
<1> QED BY <1>1, <1>2

\* ARPPacket::from_slice gives a packet or an error.
LEMMA ArpFromSliceType ==
  ASSUME NEW b \in Seq(Byte)
  PROVE  ArpFromSlice(b) = Rejected \/ ArpFromSlice(b) \in ArpPackets
<1> SUFFICES ASSUME ~(Len(b) < 28), Be16(b, 6) \in {REQUEST, REPLY}
             PROVE  ArpNew(Be16(b, 6), SubSeq(b, 9, 14), SubSeq(b, 15, 18),
                           SubSeq(b, 19, 24), SubSeq(b, 25, 28)) \in ArpPackets
  BY DEF ArpFromSlice
<1>1. Len(b) \in Nat /\ Len(b) >= 28
  OBVIOUS
<1>2. SubSeq(b, 9, 14) \in Mac /\ SubSeq(b, 19, 24) \in Mac
  <2>1. /\ 9 \in Nat /\ 9 >= 1 /\ 9 + 5 <= Len(b) /\ 9 + 5 = 14
        /\ 19 \in Nat /\ 19 >= 1 /\ 19 + 5 <= Len(b) /\ 19 + 5 = 24
    BY <1>1
  <2>2. SubSeq(b, 9, 9 + 5) \in Mac /\ SubSeq(b, 19, 19 + 5) \in Mac
    BY <2>1, CutAddress
  <2> QED BY <2>1, <2>2
<1>3. SubSeq(b, 15, 18) \in Ip /\ SubSeq(b, 25, 28) \in Ip
  <2>1. /\ 15 \in Nat /\ 15 >= 1 /\ 15 + 3 <= Len(b) /\ 15 + 3 = 18
        /\ 25 \in Nat /\ 25 >= 1 /\ 25 + 3 <= Len(b) /\ 25 + 3 = 28
    BY <1>1
  <2>2. SubSeq(b, 15, 15 + 3) \in Ip /\ SubSeq(b, 25, 25 + 3) \in Ip
    BY <2>1, CutAddress
  <2> QED BY <2>1, <2>2
<1> QED BY <1>2, <1>3 DEF ArpNew, ArpPackets

\* What from_packet makes of bytes.
Ipv4Read == {p \in Ipv4Packets : Len(p.data) <= 65515}

\* The lengths in a header that from_packet does not refuse.
Sized(b, hl, tl) ==
  /\ hl = HeaderLen(b) /\ tl = TotalLength(b) /\ hl \in Nat /\ tl \in Nat
  /\ hl >= 20 /\ hl <= tl /\ tl <= Len(b) /\ tl <= 65535

\* The checks of from_packet leave room for the header it says it has.
LEMMA Lengths ==
  ASSUME NEW b \in Seq(Byte), ~(Len(b) < 20), ~(b[1] % 16 < 5), ~LengthMismatch(b)
  PROVE  Sized(b, HeaderLen(b), TotalLength(b)) /\ Len(b) \in Nat
<1> DEFINE hl == 4 * (b[1] % 16)
           tl == b[2 + 1] * 256 + b[2 + 2]
<1>1. Len(b) \in Nat /\ Len(b) >= 20
  OBVIOUS
<1>2. b[1] \in Nat /\ b[3] \in Byte /\ b[4] \in Byte
  BY <1>1, ByteAt
<1>3. tl \in U16
  BY <1>2, Be16Type
<1>4. tl \in Nat /\ tl <= 65535
  BY <1>3, U16Is
<1>5. hl \in Nat /\ hl >= 20
  BY <1>2
<1>6. HeaderLen(b) = hl /\ TotalLength(b) = tl
  BY DEF HeaderLen, TotalLength, Be16
<1>7. ~(hl > Len(b)) /\ ~(tl > Len(b)) /\ ~(tl < hl)
  BY <1>6 DEF LengthMismatch
<1> HIDE DEF hl, tl
<1>8. hl <= tl /\ tl <= Len(b)
  BY <1>1, <1>4, <1>5, <1>7
<1> QED BY <1>1, <1>4, <1>5, <1>6, <1>8 DEF Sized

\* The slices of from_packet are within the packet, and there is a header.
LEMMA Ipv4FromPacketType ==
  ASSUME NEW b \in Seq(Byte)
  PROVE  Ipv4FromPacket(b) = Rejected \/ Ipv4FromPacket(b) \in Ipv4Read
<1> DEFINE packet == Trimmed(b)
           hl == HeaderLen(b)
           tl == TotalLength(b)
<1>0. CASE Len(b) < 20 \/ b[1] \div 16 # 4 \/ b[1] % 16 < 5 \/ LengthMismatch(b)
  BY <1>0 DEF Ipv4FromPacket
<1>1. CASE ~(Len(b) < 20 \/ b[1] \div 16 # 4 \/ b[1] % 16 < 5 \/ LengthMismatch(b))
  <2>1. Sized(b, hl, tl) /\ Len(b) \in Nat
    BY <1>1, Lengths
  <2> HIDE DEF hl, tl
  <2>2. Within(b, 1, tl)
    BY <2>1 DEF Sized, Within
  <2>3. IsCut(packet, b, 1, tl)
    BY <2>2, Cut DEF tl, Trimmed
  <2> HIDE DEF packet
  <2>4. /\ hl \in Nat /\ tl \in Nat /\ hl >= 20 /\ hl <= tl /\ tl <= 65535
    BY <2>1 DEF Sized
  <2>5. packet \in Seq(Byte) /\ Len(packet) = tl /\ \A i \in 1 .. tl : packet[i] = b[i]
    <3>1. tl - 1 + 1 = tl /\ \A i \in 1 .. tl : 1 + i - 1 = i
      BY <2>4
    <3> QED BY <3>1, <2>3 DEF IsCut
  <2>6. packet[1] = b[1] /\ packet[3] = b[3] /\ packet[4] = b[4]
    <3>1. 1 \in 1 .. tl /\ 3 \in 1 .. tl /\ 4 \in 1 .. tl
      BY <2>4
    <3> QED BY <3>1, <2>5
  <2>7. HeaderLen(packet) = hl /\ TotalLength(packet) = tl
    <3>1. 2 + 1 = 3 /\ 2 + 2 = 4
      OBVIOUS
    <3> QED BY <2>6, <3>1 DEF HeaderLen, TotalLength, Be16, hl, tl
  <2>8. ~HeaderOutOfRange(packet)
    BY <2>4, <2>5, <2>7 DEF HeaderOutOfRange
  <2> DEFINE p == [version_ihl |-> packet[1], total_length |-> TotalLength(packet),
                   id |-> Be16(packet, 4), flags_frag_offset |-> Be16(packet, 6),
                   protocol |-> packet[10],
                   source |-> SubSeq(packet, 13, 16), dest |-> SubSeq(packet, 17, 20),
                   options |-> SubSeq(packet, 21, HeaderLen(packet)),
                   data |-> SubSeq(packet, HeaderLen(packet) + 1, Len(packet))]
  <2>9. Ipv4FromPacket(b) = Rejected \/ Ipv4FromPacket(b) = p
    BY <1>1, <2>8 DEF Ipv4FromPacket, packet
  <2>10. /\ packet[1] \in Byte /\ packet[3] \in Byte /\ packet[4] \in Byte
         /\ packet[5] \in Byte /\ packet[6] \in Byte /\ packet[7] \in Byte
         /\ packet[8] \in Byte /\ packet[10] \in Byte
    <3>1. \A i \in 1 .. 10 : i \in Nat /\ i >= 1 /\ i <= Len(packet)
      BY <2>4, <2>5
    <3>2. \A i \in 1 .. 10 : packet[i] \in Byte
      BY <3>1, <2>5, ByteAt
    <3> QED BY <3>2
  <2>11. TotalLength(packet) \in U16 /\ Be16(packet, 4) \in U16 /\ Be16(packet, 6) \in U16
    <3>1. /\ packet[3] * 256 + packet[4] \in U16 /\ packet[5] * 256 + packet[6] \in U16
          /\ packet[7] * 256 + packet[8] \in U16
      BY <2>10, Be16Type
    <3>2. 2 + 1 = 3 /\ 2 + 2 = 4 /\ 4 + 1 = 5 /\ 4 + 2 = 6 /\ 6 + 1 = 7 /\ 6 + 2 = 8
      OBVIOUS
    <3> QED BY <3>1, <3>2 DEF TotalLength, Be16
  <2>12. SubSeq(packet, 13, 16) \in Ip /\ SubSeq(packet, 17, 20) \in Ip
    <3>1. /\ 13 \in Nat /\ 13 >= 1 /\ 13 + 3 <= Len(packet) /\ 13 + 3 = 16
          /\ 17 \in Nat /\ 17 >= 1 /\ 17 + 3 <= Len(packet) /\ 17 + 3 = 20
      BY <2>4, <2>5
    <3>2. SubSeq(packet, 13, 13 + 3) \in Ip /\ SubSeq(packet, 17, 17 + 3) \in Ip
      BY <3>1, <2>5, CutAddress
    <3> QED BY <3>1, <3>2
  <2>13. SubSeq(packet, 21, hl) \in Seq(Byte)
    <3>1. Within(packet, 21, hl)
      BY <2>4, <2>5 DEF Within
    <3>2. IsCut(SubSeq(packet, 21, hl), packet, 21, hl)
      BY <3>1, Cut
    <3> QED BY <3>2 DEF IsCut
  <2>14. SubSeq(packet, hl + 1, tl) \in Seq(Byte) /\ Len(SubSeq(packet, hl + 1, tl)) <= 65515
    <3> DEFINE m == hl + 1
               s == SubSeq(packet, m, tl)
    <3>1. Within(packet, m, tl) /\ tl - m + 1 <= 65515
      BY <2>4, <2>5 DEF Within
    <3> HIDE DEF m
    <3>2. IsCut(s, packet, m, tl)
      BY <3>1, Cut
    <3> HIDE DEF s
    <3>3. s \in Seq(Byte) /\ Len(s) <= 65515
      BY <3>1, <3>2 DEF IsCut
    <3> QED BY <3>3 DEF s, m
  <2>15. p \in Ipv4Packets
    BY <2>5, <2>7, <2>10, <2>11, <2>12, <2>13, <2>14, SMTT(60) DEF Ipv4Packets
  <2>16. p.data = SubSeq(packet, hl + 1, tl)
    BY <2>5, <2>7
  <2> HIDE DEF p
  <2>17. p \in Ipv4Read
    BY <2>14, <2>15, <2>16 DEF Ipv4Read
  <2> QED BY <2>9, <2>17
<1> QED BY <1>0, <1>1

\* What follows the Ethernet header is bytes.
LEMMA ContentsType ==
  ASSUME NEW b \in Seq(Byte), ~(Len(b) < 14)
  PROVE  Contents(b) \in Seq(Byte)
<1> DEFINE n == Len(b)
<1>1. Within(b, 15, n)
  BY DEF Within
<1>2. IsCut(SubSeq(b, 15, n), b, 15, n)
  <2> HIDE DEF n
  <2> QED BY <1>1, Cut
<1> QED BY <1>2 DEF IsCut, Contents

\* What handle_packet goes on with: a packet of the kind its EtherType says, or nothing.
LEMMA HandlePacketType ==
  ASSUME NEW b \in Seq(Byte), NEW mac
  PROVE  LET p == HandlePacket(b, mac) IN
         /\ p \in {Rejected, Ignored} \/ p \in ArpPackets \/ p \in Ipv4Read
         /\ IsPacket(p) /\ IsArp(b) => p \in ArpPackets
         /\ IsPacket(p) /\ ~IsArp(b) => p \in Ipv4Read
<1> DEFINE e == EthernetNew(b)
<1>1. /\ e \in {Rejected, Ignored} \/ e \in ArpPackets \/ e \in Ipv4Read
      /\ IsPacket(e) /\ IsArp(b) => e \in ArpPackets
      /\ IsPacket(e) /\ ~IsArp(b) => e \in Ipv4Read
  <2>1. CASE Len(b) < 14
    BY <2>1 DEF EthernetNew, IsPacket
  <2>2. CASE ~(Len(b) < 14)
    <3>0. Contents(b) \in Seq(Byte) /\ ARP # IPV4
      BY <2>2, ContentsType DEF ARP, IPV4
    <3>1. CASE EtherType(b) = ARP
      <4>1. e = ArpFromSlice(Contents(b)) /\ IsArp(b)
        BY <2>2, <3>0, <3>1 DEF EthernetNew, IsArp
      <4>2. e = Rejected \/ e \in ArpPackets
        BY <4>1, <3>0, ArpFromSliceType
      <4> HIDE DEF e
      <4> QED BY <4>1, <4>2 DEF IsPacket
    <3>2. CASE EtherType(b) = IPV4
      <4>1. e = Ipv4FromPacket(Contents(b)) /\ ~IsArp(b)
        BY <2>2, <3>0, <3>2 DEF EthernetNew, IsArp
      <4>2. e = Rejected \/ e \in Ipv4Read
        BY <4>1, <3>0, Ipv4FromPacketType
      <4> HIDE DEF e
      <4> QED BY <4>1, <4>2 DEF IsPacket
    <3>3. CASE EtherType(b) # ARP /\ EtherType(b) # IPV4
      <4>1. e = Ignored
        BY <2>2, <3>3 DEF EthernetNew
      <4> QED BY <4>1 DEF IsPacket
    <3> QED BY <3>1, <3>2, <3>3
  <2> QED BY <2>1, <2>2
<1>2. HandlePacket(b, mac) = e \/ HandlePacket(b, mac) = Ignored
  BY DEF HandlePacket
<1>3. ~IsPacket(Ignored)
  BY DEF IsPacket
<1> HIDE DEF e
<1> QED BY <1>1, <1>2, <1>3

\* A packet is none of the outcomes without a message.
LEMMA UdpFromPacketType ==
  ASSUME NEW p \in Ipv4Packets
  PROVE  UdpFromPacket(p) = Rejected \/ UdpFromPacket(p) \in Datagrams
<1> DEFINE d == p.data
<1>1. d \in Seq(Byte)
  BY DEF Ipv4Packets
<1> SUFFICES ASSUME ~(Len(d) < 8)
             PROVE  Datagram(Be16(d, 0), Be16(d, 2), SubSeq(d, 9, Len(d))) \in Datagrams
  BY DEF UdpFromPacket
<1> HIDE DEF d
<1>2. Len(d) \in Nat /\ Len(d) >= 8
  BY <1>1
<1>3. d[1] \in Byte /\ d[2] \in Byte /\ d[3] \in Byte /\ d[4] \in Byte
  BY <1>1, <1>2, ByteAt
<1>4. Be16(d, 0) \in U16 /\ Be16(d, 2) \in U16
  <2>1. d[1] * 256 + d[2] \in U16 /\ d[3] * 256 + d[4] \in U16
    BY <1>3, Be16Type
  <2>2. 0 + 1 = 1 /\ 0 + 2 = 2 /\ 2 + 1 = 3 /\ 2 + 2 = 4
    OBVIOUS
  <2> QED BY <2>1, <2>2 DEF Be16
<1>5. SubSeq(d, 9, Len(d)) \in Seq(Byte)
  <2> DEFINE n == Len(d)
  <2>1. Within(d, 9, n)
    BY <1>1, <1>2 DEF Within
  <2> HIDE DEF n
  <2>2. IsCut(SubSeq(d, 9, n), d, 9, n)
    BY <2>1, Cut
  <2> QED BY <2>2 DEF IsCut, n
<1> QED BY <1>4, <1>5 DEF Datagram, Datagrams

\* A sum that folds to 65535: the checksum of it is 0.
Ones(n) == \E a \in Nat : n = 65535 * a + 65535

\* A sum that folds to all ones is a multiple of 65535, and not 0.
LEMMA FoldedOnes ==
  ASSUME NEW n \in Nat, Folded(n) = 65535
  PROVE  Ones(n)
<1>1. n # 0
  BY DEF Folded
<1>2. PICK x \in Nat : n = x + 1
  <2>1. n - 1 \in Nat /\ n = (n - 1) + 1
    BY <1>1
  <2> QED BY <2>1
<1>3. PICK a, b : Divided(x, a, b)
  BY Division
<1>4. Folded(n) = b + 1
  BY <1>2, <1>3, FoldedIs
<1>5. a \in Nat /\ b \in Nat /\ x = 65535 * a + b /\ b = 65534
  BY <1>3, <1>4 DEF Divided
<1>6. n = 65535 * a + 65535
  BY <1>2, <1>5
<1> QED BY <1>5, <1>6 DEF Ones

\* The words of a sequence of three bytes or less.
LEMMA ShortSums ==
  ASSUME NEW b \in Seq(Byte)
  PROVE  /\ Len(b) = 0 => PartSum(b) = 0
         /\ Len(b) = 1 => PartSum(b) = b[1] * 256
         /\ Len(b) = 2 => PartSum(b) = b[1] * 256 + b[2]
         /\ Len(b) = 3 => PartSum(b) = b[1] * 256 + b[2] + b[3] * 256
<1> DEFINE n == (Len(b) + 1) \div 2
           w == Words(b)
<1>1. /\ w \in Seq(Nat) /\ Len(w) = n
      /\ \A i \in 1 .. n :
           w[i] = b[2 * i - 1] * 256 + (IF 2 * i <= Len(b) THEN b[2 * i] ELSE 0)
  <2>1. Halved(Len(b), n)
    BY DEF Halved
  <2> HIDE DEF n
  <2>2. AreWords(b, Len(b), n, Words(b))
    BY <2>1, WordsHold
  <2> QED BY <2>2, Zenon DEF AreWords
<1>2. PartSum(b) = SumSeq(w)
  BY DEF PartSum
<1>3. Len(b) \in Nat
  OBVIOUS
<1>4. /\ Len(b) = 0 => n = 0
      /\ Len(b) = 1 => n = 1
      /\ Len(b) = 2 => n = 1
      /\ Len(b) = 3 => n = 2
  <2> DEFINE L == Len(b)
  <2> HIDE DEF L
  <2>1. /\ L = 0 => (L + 1) \div 2 = 0
        /\ L = 1 => (L + 1) \div 2 = 1
        /\ L = 2 => (L + 1) \div 2 = 1
        /\ L = 3 => (L + 1) \div 2 = 2
    <3>1. (0 + 1) \div 2 = 0 /\ (1 + 1) \div 2 = 1 /\ (2 + 1) \div 2 = 1 /\ (3 + 1) \div 2 = 2
      OBVIOUS
    <3> QED BY <3>1
  <2> QED BY <2>1 DEF L
<1> HIDE DEF n, w
<1>5. CASE Len(b) = 0
  <2>1. Len(w) = 0
    BY <1>1, <1>4, <1>5
  <2>2. SumSeq(w) = 0
    BY <2>1, <1>1, SumSeqShort, ZenonT(60)
  <2> QED BY <1>2, <1>5, <2>2
<1>6. ASSUME n >= 1, n \in Nat
      PROVE  w[1] = b[1] * 256 + (IF 2 <= Len(b) THEN b[2] ELSE 0)
  <2>1. 1 \in 1 .. n
    BY <1>6
  <2>2. w[1] = b[2 * 1 - 1] * 256 + (IF 2 * 1 <= Len(b) THEN b[2 * 1] ELSE 0)
    BY <2>1, <1>1
  <2>3. 2 * 1 - 1 = 1 /\ 2 * 1 = 2
    OBVIOUS
  <2> QED BY <2>2, <2>3
<1>7. CASE Len(b) = 1
  <2>1. n = 1 /\ ~(2 <= Len(b)) /\ n \in Nat /\ n >= 1
    BY <1>4, <1>7
  <2>2. w[1] = b[1] * 256 + 0
    BY <2>1, <1>6
  <2>3. b[1] \in Nat
    BY <1>7, ByteAt
  <2>4. SumSeq(w) = w[1]
    BY <1>1, <2>1, SumSeqShort
  <2> QED BY <1>2, <1>7, <2>2, <2>3, <2>4
<1>8. CASE Len(b) = 2
  <2>1. n = 1 /\ 2 <= Len(b) /\ n \in Nat /\ n >= 1
    BY <1>4, <1>8
  <2>2. w[1] = b[1] * 256 + b[2]
    BY <2>1, <1>6
  <2>3. SumSeq(w) = w[1]
    BY <1>1, <2>1, SumSeqShort
  <2> QED BY <1>2, <1>8, <2>2, <2>3
<1>9. CASE Len(b) = 3
  <2>1. n = 2 /\ 2 <= Len(b) /\ n \in Nat /\ n >= 1
    BY <1>4, <1>9
  <2>2. w[1] = b[1] * 256 + b[2]
    BY <2>1, <1>6
  <2>3. w[2] = b[3] * 256
    <3>1. 2 \in 1 .. n
      BY <2>1
    <3>2. w[2] = b[2 * 2 - 1] * 256 + (IF 2 * 2 <= Len(b) THEN b[2 * 2] ELSE 0)
      BY <3>1, <1>1
    <3>3. 2 * 2 - 1 = 3 /\ ~(2 * 2 <= Len(b))
      BY <1>9
    <3>4. b[3] \in Nat
      BY <1>9, ByteAt
    <3> QED BY <3>2, <3>3, <3>4
  <2>4. SumSeq(w) = w[1] + w[2]
    BY <1>1, <2>1, SumSeqShort
  <2> QED BY <1>2, <1>9, <2>2, <2>3, <2>4
<1> QED BY <1>5, <1>7, <1>8, <1>9

\* handle_icmp does not look at the length of a message, but its checksum does: no
\* message too short for the indices it uses has a checksum that holds.
LEMMA IcmpInRange ==
  ASSUME NEW data \in Seq(Byte), ~IcmpMalformed(data)
  PROVE  ~IcmpOutOfRange(data)
<1>1. InternetChecksum(<<data>>) = 65535 - Folded(PartSum(data)) /\ PartSum(data) \in Nat
  BY ChecksumOfOne, PartSumType
<1>2. Folded(PartSum(data)) = 65535
  <2>1. Folded(PartSum(data)) \in Nat
    BY <1>1, FoldedType, U16Is
  <2> QED BY <1>1, <2>1 DEF IcmpMalformed
<1>3. PICK a \in Nat : PartSum(data) = 65535 * a + 65535
  <2>1. Ones(PartSum(data))
    BY <1>1, <1>2, FoldedOnes
  <2> QED BY <2>1 DEF Ones
<1>4. Len(data) \in Nat /\ (data = <<>> <=> Len(data) = 0)
  OBVIOUS
<1>6. ASSUME Len(data) = 1, data[1] = 8 PROVE FALSE
  <2>1. PartSum(data) = 8 * 256
    BY <1>6, ShortSums
  <2> QED BY <2>1, <1>3
<1>7. ASSUME Len(data) = 2, data[1] = 8, data[2] = 0 PROVE FALSE
  <2>1. PartSum(data) = 8 * 256 + 0
    BY <1>7, ShortSums
  <2> QED BY <2>1, <1>3
<1>8. ASSUME Len(data) = 3, data[1] = 8, data[2] = 0 PROVE FALSE
  <2>1. PartSum(data) = 8 * 256 + 0 + data[3] * 256
    BY <1>8, ShortSums
  <2>2. data[3] \in Nat /\ data[3] <= 255
    BY <1>8, ByteAt
  <2>3. 8 * 256 + data[3] * 256 = 65535 * a + 65535
    BY <2>1, <2>2, <1>3
  <2>4. a = 0
    BY <2>2, <2>3
  <2>5. 8 * 256 + data[3] * 256 = 65535
    BY <2>3, <2>4
  <2> QED BY <2>2, <2>5
<1>9. ASSUME IcmpOutOfRange(data) PROVE FALSE
  <2>1. \/ Len(data) = 0
        \/ Len(data) = 1 /\ data[1] = 8
        \/ data[1] = 8 /\ data[2] = 0 /\ Len(data) < 4
    BY <1>4, <1>9 DEF IcmpOutOfRange
  <2>2. Len(data) < 4 => Len(data) \in {0, 1, 2, 3}
    <3> DEFINE L == Len(data)
    <3>1. L \in Nat
      BY <1>4
    <3> HIDE DEF L
    <3>2. L < 4 => L \in {0, 1, 2, 3}
      BY <3>1
    <3> QED BY <3>2 DEF L
  <2>3. Len(data) # 0
    <3>1. ASSUME Len(data) = 0 PROVE FALSE
      <4>1. PartSum(data) = 0
        BY <3>1, ShortSums, ZenonT(60)
      <4> QED BY <4>1, <1>3
    <3> QED BY <3>1
  <2> QED BY <2>1, <2>2, <2>3, <1>6, <1>7, <1>8
<1> QED BY <1>9

-----------------------------------------------------------------------------
(* Frames are bytes, and no step panics                                    *)

\* Bytes followed by bytes are bytes.
LEMMA Closed == \A a, b \in Seq(Byte) : a \o b \in Seq(Byte)
BY Join

\* A packet of Ipv4Packet::new is one while its length fits in 16 bits.
LEMMA Ipv4NewType ==
  ASSUME NEW data \in Seq(Byte), Len(data) <= 65515, NEW source \in Ip, NEW dest \in Ip,
         NEW id \in U16, NEW protocol \in Byte
  PROVE  Ipv4New(data, source, dest, id, protocol) \in Ipv4Read
<1>1. Len(data) \in Nat
  OBVIOUS
<1>2. Len(data) + 20 \in U16 /\ 0 \in U16 /\ 69 \in Byte /\ <<>> \in Seq(Byte)
  <2>1. Len(data) + 20 \in Nat /\ Len(data) + 20 <= 65535
    BY <1>1
  <2> QED BY <2>1, U16Is, ByteIs, SMTT(60)
<1> DEFINE p == Ipv4New(data, source, dest, id, protocol)
<1>3. p \in Ipv4Packets
  BY <1>2 DEF Ipv4New, Ipv4Packets
<1>4. p.data = data
  BY DEF Ipv4New
<1> HIDE DEF p
<1>5. p \in Ipv4Read
  BY <1>3, <1>4 DEF Ipv4Read
<1> QED BY <1>5 DEF p

\* What is written is bytes.
LEMMA SerializeType ==
  ASSUME NEW p \in Ipv4Packets
  PROVE  Serialize(p) \in Seq(Byte)
<1>1. HeaderSum(p) \in U16
  BY HeaderSumType
<1>2. Ipv4Header(p, HeaderSum(p)) \in Seq(Byte)
  BY <1>1, HeaderIs DEF HeaderOf
<1>3. p.data \in Seq(Byte)
  BY DEF Ipv4Packets
<1> QED BY <1>2, <1>3, SerializeIs, Closed

\* The header of a datagram, without its checksum.
UdpFront(source_port, dest_port, len) == Be(source_port) \o Be(dest_port) \o Be(len)

\* What the UDP checksum covers, and the one that is sent.
UdpParts(source, dest, source_port, dest_port, data) ==
  PseudoHeader(source, dest, 8 + Len(data))
  \o <<UdpFront(source_port, dest_port, 8 + Len(data)), data>>

UdpSum(source, dest, source_port, dest_port, data) ==
  WireChecksum(InternetChecksum(UdpParts(source, dest, source_port, dest_port, data)))

\* The fields in front of the UDP checksum.
LEMMA UdpFrontIs ==
  ASSUME NEW source_port \in U16, NEW dest_port \in U16, NEW len \in U16
  PROVE  LET x == UdpFront(source_port, dest_port, len) IN
         /\ x \in Seq(Byte) /\ Len(x) = 6
         /\ x[1] * 256 + x[2] = source_port /\ x[3] * 256 + x[4] = dest_port
         /\ x[5] * 256 + x[6] = len
<1> DEFINE a == Be(source_port)
           b == Be(dest_port)
           c == Be(len)
           y == a \o b
           x == y \o c
<1>1. /\ a \in Seq(Byte) /\ Len(a) = 2 /\ a[1] * 256 + a[2] = source_port
      /\ b \in Seq(Byte) /\ Len(b) = 2 /\ b[1] * 256 + b[2] = dest_port
      /\ c \in Seq(Byte) /\ Len(c) = 2 /\ c[1] * 256 + c[2] = len
  BY BeIs
<1>2. UdpFront(source_port, dest_port, len) = x
  BY DEF UdpFront
<1> HIDE DEF a, b, c
<1>3. Joined(a, b, 2, y)
  BY <1>1, JoinAt
<1> HIDE DEF y
<1>4. /\ y \in Seq(Byte) /\ Len(y) = 4 /\ y[1] = a[1] /\ y[2] = a[2]
      /\ y[2 + 1] = b[1] /\ y[2 + 2] = b[2]
  BY <1>1, <1>3 DEF Joined
<1>5. Joined(y, c, 4, x)
  BY <1>1, <1>4, JoinAt
<1> HIDE DEF x
<1>6. /\ x \in Seq(Byte) /\ Len(x) = 6 /\ x[1] = y[1] /\ x[2] = y[2] /\ x[3] = y[3] /\ x[4] = y[4]
      /\ x[4 + 1] = c[1] /\ x[4 + 2] = c[2]
  BY <1>1, <1>5 DEF Joined
<1>7. y[3] = b[1] /\ y[4] = b[2] /\ x[5] = c[1] /\ x[6] = c[2]
  BY <1>4, <1>6
<1> QED BY <1>1, <1>2, <1>4, <1>6, <1>7

\* What fits in a datagram.
UdpData == {data \in Seq(Byte) : Len(data) <= 65507}

\* A datagram's length fits in 16 bits.
LEMMA UdpDataIs ==
  ASSUME NEW data \in UdpData
  PROVE  data \in Seq(Byte) /\ 8 + Len(data) \in U16
<1>1. data \in Seq(Byte) /\ Len(data) \in Nat /\ Len(data) <= 65507
  BY DEF UdpData
<1>2. 8 + Len(data) \in Nat /\ 8 + Len(data) <= 65535
  BY <1>1
<1> QED BY <1>1, <1>2, U16Is

\* The pseudo header is parts of bytes.
LEMMA PseudoHeaderType ==
  ASSUME NEW source \in Ip, NEW dest \in Ip, NEW len \in U16
  PROVE  PseudoHeader(source, dest, len) \in Seq(Seq(Byte))
<1>1. source \in Seq(Byte) /\ dest \in Seq(Byte)
  <2>1. source \in [1 .. 4 -> Byte] /\ dest \in [1 .. 4 -> Byte] /\ 4 \in Nat
    BY DEF Ip
  <2> QED BY <2>1, Octets
<1>2. <<0, 17>> \in Seq(Byte)
  <2>1. 0 \in Byte /\ 17 \in Byte
    BY ByteIs
  <2> QED BY <2>1
<1>3. Be(len) \in Seq(Byte)
  BY BeIs
<1> QED BY <1>1, <1>2, <1>3 DEF PseudoHeader

\* So is what the UDP checksum covers, and the checksum fits in 16 bits.
LEMMA UdpPartsType ==
  ASSUME NEW source \in Ip, NEW dest \in Ip, NEW source_port \in U16, NEW dest_port \in U16,
         NEW data \in UdpData
  PROVE  /\ UdpParts(source, dest, source_port, dest_port, data) \in Seq(Seq(Byte))
         /\ UdpSum(source, dest, source_port, dest_port, data) \in U16
<1> DEFINE len == 8 + Len(data)
           f == UdpFront(source_port, dest_port, len)
           ph == PseudoHeader(source, dest, len)
           t == <<f, data>>
           parts == UdpParts(source, dest, source_port, dest_port, data)
<1>1. len \in U16 /\ data \in Seq(Byte)
  BY UdpDataIs
<1>2. parts = ph \o t
  BY DEF UdpParts
<1> HIDE DEF len
<1>3. f \in Seq(Byte)
  BY <1>1, UdpFrontIs
<1>4. ph \in Seq(Seq(Byte))
  BY <1>1, PseudoHeaderType
<1> HIDE DEF f, ph
<1>5. t \in Seq(Seq(Byte))
  BY <1>1, <1>3
<1> HIDE DEF t, parts
<1>6. parts \in Seq(Seq(Byte))
  BY <1>2, <1>4, <1>5, ConcatProperties
<1>7. InternetChecksum(parts) \in U16
  BY <1>6, ChecksumIs
<1>8. 65535 \in U16
  BY U16Is
<1>9. WireChecksum(InternetChecksum(parts)) \in U16
  BY <1>7, <1>8 DEF WireChecksum
<1> QED BY <1>6, <1>9 DEF UdpSum, parts

\* u is the datagram with that checksum.
UdpWritten(source, dest, source_port, dest_port, data, u) ==
  /\ u = UdpFront(source_port, dest_port, 8 + Len(data))
         \o (Be(UdpSum(source, dest, source_port, dest_port, data)) \o data)
  /\ u \in Seq(Byte) /\ Len(u) = 8 + Len(data)

\* serialize_ipv4 writes ports, length, checksum and data, as bytes.
LEMMA SerializeUdpIs ==
  ASSUME NEW source \in Ip, NEW dest \in Ip, NEW source_port \in U16, NEW dest_port \in U16,
         NEW data \in UdpData
  PROVE  UdpWritten(source, dest, source_port, dest_port, data,
                    SerializeUdp(source_port, dest_port, data, source, dest))
<1> DEFINE len == 8 + Len(data)
           f == UdpFront(source_port, dest_port, len)
           c == UdpSum(source, dest, source_port, dest_port, data)
           b == Be(c)
           z == b \o data
           u == SerializeUdp(source_port, dest_port, data, source, dest)
<1>1. c \in U16 /\ len \in U16 /\ data \in Seq(Byte)
  BY UdpPartsType, UdpDataIs
<1>6. u = (f \o b) \o data
  BY Zenon DEF SerializeUdp, UdpParts, UdpFront, UdpSum
<1> HIDE DEF c, len
<1>2. b \in Seq(Byte) /\ Len(b) = 2
  BY <1>1, BeIs
<1>3. f \in Seq(Byte) /\ Len(f) = 6
  BY <1>1, UdpFrontIs
<1> HIDE DEF f, b, u
<1>7. u = f \o z
  BY <1>1, <1>2, <1>3, <1>6, Assoc
<1>8. Joined(b, data, 2, z)
  BY <1>1, <1>2, JoinAt
<1> HIDE DEF z
<1>9. z \in Seq(Byte) /\ Len(z) = 2 + Len(data) /\ Len(data) \in Nat
  BY <1>8 DEF Joined
<1>10. Joined(f, z, 6, u)
  BY <1>3, <1>7, <1>9, JoinAt
<1>11. u \in Seq(Byte) /\ Len(u) = 8 + Len(data)
  BY <1>9, <1>10 DEF Joined
<1> QED BY <1>7, <1>11 DEF UdpWritten, u, z, f, b, c, len

\* Addresses are sequences of bytes.
LEMMA Addresses ==
  /\ \A v \in Ip : v \in Seq(Byte) /\ Len(v) = 4
  /\ \A v \in Mac : v \in Seq(Byte) /\ Len(v) = 6
<1>1. ASSUME NEW v \in Ip PROVE v \in Seq(Byte) /\ Len(v) = 4
  <2>1. v \in [1 .. 4 -> Byte] /\ 4 \in Nat
    BY DEF Ip
  <2> QED BY <2>1, Octets
<1>2. ASSUME NEW v \in Mac PROVE v \in Seq(Byte) /\ Len(v) = 6
  <2>1. v \in [1 .. 6 -> Byte] /\ 6 \in Nat
    BY DEF Mac
  <2> QED BY <2>1, Octets
<1> QED BY <1>1, <1>2

\* The fixed part of an ARP packet.
LEMMA ArpFormatIs == ArpFormat \in Seq(Byte) /\ Len(ArpFormat) = 6
<1>1. 0 \in Byte /\ 1 \in Byte /\ 4 \in Byte /\ 6 \in Byte /\ 8 \in Byte
  BY ByteIs
<1> QED BY <1>1 DEF ArpFormat

\* An ARP packet is written as bytes.
LEMMA ArpSerializeType ==
  ASSUME NEW p \in ArpPackets
  PROVE  ArpSerialize(p) \in Seq(Byte)
<1>1. /\ p.sender_mac \in Seq(Byte) /\ p.sender_addr \in Seq(Byte)
      /\ p.target_mac \in Seq(Byte) /\ p.target_addr \in Seq(Byte)
  BY Addresses DEF ArpPackets
<1>2. Be(p.operation) \in Seq(Byte)
  <2>1. 1 \in U16 /\ 2 \in U16
    BY U16Is
  <2>2. p.operation \in U16
    BY <2>1 DEF ArpPackets, REQUEST, REPLY
  <2> QED BY <2>2, BeIs
<1> DEFINE x1 == ArpFormat \o Be(p.operation)
           x2 == x1 \o p.sender_mac
           x3 == x2 \o p.sender_addr
           x4 == x3 \o p.target_mac
<1>3. x1 \in Seq(Byte)
  BY <1>2, ArpFormatIs, Closed
<1> HIDE DEF x1
<1>4. x2 \in Seq(Byte)
  BY <1>1, <1>3, Closed
<1> HIDE DEF x2
<1>5. x3 \in Seq(Byte)
  BY <1>1, <1>4, Closed
<1> HIDE DEF x3
<1>6. x4 \in Seq(Byte)
  BY <1>1, <1>5, Closed
<1> HIDE DEF x4
<1>7. x4 \o p.target_addr \in Seq(Byte)
  BY <1>1, <1>6, Closed
<1> QED BY <1>7 DEF ArpSerialize, x1, x2, x3, x4

\* A frame filled up with zeroes is bytes.
LEMMA FrameType ==
  ASSUME NEW dst \in Mac, NEW src \in Mac, NEW ethertype \in U16, NEW body \in Seq(Byte)
  PROVE  Frame(dst, src, ethertype, body) \in Seq(Byte)
<1> DEFINE e == Be(ethertype)
           x1 == dst \o src
           x2 == x1 \o e
           b == x2 \o body
<1>1. dst \in Seq(Byte) /\ src \in Seq(Byte) /\ e \in Seq(Byte)
  BY Addresses, BeIs
<1> HIDE DEF e
<1>2. x1 \in Seq(Byte)
  BY <1>1, Closed
<1> HIDE DEF x1
<1>3. x2 \in Seq(Byte)
  BY <1>1, <1>2, Closed
<1> HIDE DEF x2
<1>4. b \in Seq(Byte)
  BY <1>3, Closed
<1> HIDE DEF b
<1>5. MinFrame - Len(b) \in Int
  BY <1>4 DEF MinFrame
<1>6. [i \in 1 .. MinFrame - Len(b) |-> 0] \in Seq(Byte)
  BY <1>5, Zeros
<1>7. Frame(dst, src, ethertype, body) = b \o [i \in 1 .. MinFrame - Len(b) |-> 0]
  BY DEF Frame, b, x2, x1, e
<1> QED BY <1>4, <1>6, <1>7, Closed

\* The answer to an echo request fits in a packet.
LEMMA EchoReplyType ==
  ASSUME NEW p \in Ipv4Read, Len(p.data) >= 4
  PROVE  EchoReply(p) \in Ipv4Read
<1> DEFINE d == p.data
           L == Len(d)
           d1 == [d EXCEPT ![1] = 0]
           d2 == [d1 EXCEPT ![3] = 0]
           d3 == [d2 EXCEPT ![4] = 0]
           c == InternetChecksum(<<d3>>)
           d4 == [d3 EXCEPT ![3] = c \div 256]
           d5 == [d4 EXCEPT ![4] = c % 256]
<1>1. p \in Ipv4Packets /\ d \in Seq(Byte) /\ L <= 65515 /\ L \in Nat /\ L >= 4
  BY DEF Ipv4Read, Ipv4Packets
<1>2. p.source \in Ip /\ p.id \in U16 /\ ICMP \in Byte /\ Own \in Ip
  BY <1>1, ByteIs, CodecAssumption, SMTT(60) DEF Ipv4Packets, ICMP
<1>3. EchoReply(p) = Ipv4New(d5, Own, p.source, p.id, ICMP)
  BY DEF EchoReply
<1>4. 0 \in Byte /\ 1 \in 1 .. L /\ 3 \in 1 .. L /\ 4 \in 1 .. L
  BY <1>1, ByteIs
<1> HIDE DEF d
<1>5. d1 \in Seq(Byte) /\ Len(d1) = L
  BY <1>1, <1>4, ExceptSeq
<1> HIDE DEF d1
<1>6. d2 \in Seq(Byte) /\ Len(d2) = L
  BY <1>4, <1>5, ExceptSeq
<1> HIDE DEF d2
<1>7. d3 \in Seq(Byte) /\ Len(d3) = L
  BY <1>4, <1>6, ExceptSeq
<1> HIDE DEF d3
<1>8. c \in U16
  BY <1>7, ChecksumOfOne
<1>9. c \div 256 \in Byte /\ c % 256 \in Byte
  BY <1>8, BeIs DEF Be
<1> HIDE DEF c
<1>10. d4 \in Seq(Byte) /\ Len(d4) = L
  BY <1>4, <1>7, <1>9, ExceptSeq
<1> HIDE DEF d4
<1>11. d5 \in Seq(Byte) /\ Len(d5) = L
  BY <1>4, <1>9, <1>10, ExceptSeq
<1> HIDE DEF d5
<1>12. Len(d5) <= 65515
  BY <1>1, <1>11
<1> QED BY <1>2, <1>3, <1>11, <1>12, Ipv4NewType

\* What is on the wire is bytes, and nothing has panicked.
CodecInv == (OnWire => wire \in Seq(Byte)) /\ NeverPanics

\* Sending puts bytes on the wire.
LEMMA SendSafe ==
  ASSUME Send
  PROVE  CodecInv'
<1>0. None # Panic
  BY OutcomesApart
<1>1. /\ BroadcastMac \in Mac /\ BROADCAST \in Ip /\ UNSPECIFIED \in Ip
      /\ IPV4 \in U16 /\ ARP \in U16 /\ UDP \in Byte
      /\ CLIENT_PORT \in U16 /\ SERVER_PORT \in U16
      /\ [i \in 1 .. 6 |-> 0] \in Mac
  <2>1. 0 \in Byte /\ 255 \in Byte /\ 17 \in Byte
    BY ByteIs
  <2>2. 2048 \in U16 /\ 2054 \in U16 /\ 67 \in U16 /\ 68 \in U16
    BY U16Is
  <2>3. <<255, 255, 255, 255>> \in Ip /\ <<0, 0, 0, 0>> \in Ip
    BY <2>1 DEF Ip
  <2>4. BroadcastMac \in Mac /\ [i \in 1 .. 6 |-> 0] \in Mac
    BY <2>1 DEF Mac, BroadcastMac
  <2> QED BY <2>1, <2>2, <2>3, <2>4
          DEF BROADCAST, UNSPECIFIED, IPV4, ARP, UDP, CLIENT_PORT, SERVER_PORT
<1>2. ASSUME NEW way, NEW b \in Seq(Byte), Transmit(way, b) PROVE CodecInv'
  BY <1>0, <1>2 DEF Transmit, CodecInv, NeverPanics
<1>3. ASSUME NEW msg \in Payload, NEW id \in Id, SendDhcp(msg, id) PROVE CodecInv'
  <2> DEFINE u == SerializeUdp(CLIENT_PORT, SERVER_PORT, msg, UNSPECIFIED, BROADCAST)
             p == Ipv4New(u, UNSPECIFIED, BROADCAST, id, UDP)
  <2>1. msg \in UdpData /\ id \in U16 /\ OwnMac \in Mac
    BY CodecAssumption DEF UdpData
  <2>2. u \in Seq(Byte) /\ Len(u) = 8 + Len(msg)
    BY <1>1, <2>1, SerializeUdpIs DEF UdpWritten
  <2>3. Len(u) <= 65515
    <3>1. Len(msg) \in Nat /\ Len(msg) <= 65507
      BY <2>1 DEF UdpData
    <3> HIDE DEF u
    <3> QED BY <3>1, <2>2
  <2> HIDE DEF u
  <2>4. p \in Ipv4Packets
    BY <1>1, <2>1, <2>2, <2>3, Ipv4NewType DEF Ipv4Read
  <2> HIDE DEF p
  <2>5. Serialize(p) \in Seq(Byte)
    BY <2>4, SerializeType
  <2>6. Frame(BroadcastMac, OwnMac, IPV4, Serialize(p)) \in Seq(Byte)
    BY <1>1, <2>1, <2>5, FrameType
  <2>7. Transmit("out", Frame(BroadcastMac, OwnMac, IPV4, Serialize(p)))
    BY <1>3 DEF SendDhcp, p, u
  <2> QED BY <1>2, <2>6, <2>7
<1>4. ASSUME NEW target \in Target, SendArpRequest(target) PROVE CodecInv'
  <2> DEFINE r == ArpNew(REQUEST, OwnMac, Own, [i \in 1 .. 6 |-> 0], target)
  <2>1. r \in ArpPackets /\ OwnMac \in Mac
    BY <1>1, CodecAssumption DEF ArpNew, ArpPackets
  <2>2. Transmit("out", Frame(BroadcastMac, OwnMac, ARP, ArpSerialize(r)))
    BY <1>4 DEF SendArpRequest
  <2> HIDE DEF r
  <2>3. ArpSerialize(r) \in Seq(Byte)
    BY <2>1, ArpSerializeType
  <2>4. Frame(BroadcastMac, OwnMac, ARP, ArpSerialize(r)) \in Seq(Byte)
    BY <1>1, <2>1, <2>3, FrameType
  <2> QED BY <1>2, <2>2, <2>4
<1>5. ASSUME NEW h \in HostFrames, HostSend(h) PROVE CodecInv'
  <2>1. h.dst \in Mac /\ h.ethertype \in U16 /\ h.body \in Seq(Byte) /\ HostMac \in Mac
    BY CodecAssumption
  <2>2. Frame(h.dst, HostMac, h.ethertype, h.body) \in Seq(Byte)
    BY <2>1, FrameType
  <2>3. Transmit("in", Frame(h.dst, HostMac, h.ethertype, h.body))
    BY <1>5 DEF HostSend
  <2> QED BY <1>2, <2>2, <2>3
<1> QED BY <1>3, <1>4, <1>5 DEF Send

\* The link leaves bytes of bytes.
LEMMA LinkSafe ==
  ASSUME CodecInv, Link
  PROVE  CodecInv'
<1>1. ASSUME NEW i \in DOMAIN wire, NEW b \in {0, 255, (wire[i] + 1) % 256}, Damage(i, b)
      PROVE  CodecInv'
  <2>1. wire \in Seq(Byte)
    BY <1>1 DEF CodecInv, Damage
  <2>2. i \in 1 .. Len(wire)
    BY <2>1
  <2>3. wire[i] \in Nat
    BY <2>1, <2>2, ByteIs, ElementOfSeq
  <2>4. b \in Byte
    <3>1. (wire[i] + 1) % 256 \in Nat /\ (wire[i] + 1) % 256 <= 255
      BY <2>3
    <3>2. 0 \in Byte /\ 255 \in Byte /\ (wire[i] + 1) % 256 \in Byte
      BY <3>1, ByteIs
    <3> QED BY <3>2
  <2>5. [wire EXCEPT ![i] = b] \in Seq(Byte)
    BY <2>1, <2>2, <2>4, ExceptSeq
  <2> QED BY <1>1, <2>5 DEF Damage, CodecInv, NeverPanics, OnWire
<1>2. ASSUME NEW n \in 0 .. Len(wire), Truncate(n)
      PROVE  CodecInv'
  <2>1. wire \in Seq(Byte)
    BY <1>2 DEF CodecInv, Truncate
  <2>2. Within(wire, 1, n)
    BY <2>1 DEF Within
  <2>3. IsCut(SubSeq(wire, 1, n), wire, 1, n)
    BY <2>2, Cut
  <2>4. SubSeq(wire, 1, n) \in Seq(Byte)
    BY <2>3 DEF IsCut
  <2> QED BY <1>2, <2>4 DEF Truncate, CodecInv, NeverPanics, OnWire
<1> QED BY <1>1, <1>2 DEF Link

\* No handler panics, and the answers are bytes.
LEMMA ReceiveSafe ==
  ASSUME CodecInv, Receive
  PROVE  CodecInv'
<1> DEFINE p == Incoming
<1>0. /\ Panic \notin {None, Rejected, Ignored} /\ Panic \notin ArpPackets
      /\ Panic \notin Ipv4Packets /\ Panic \notin Datagrams /\ Panic \notin Neighbours
  BY OutcomesApart
<1>1. state = "in" /\ wire \in Seq(Byte)
  BY DEF Receive, ReceiveBad, ReceiveArp, ReceiveOther, ReceiveUdp, ReceiveIcmp,
         CodecInv, OnWire
<1>2. /\ p \in {Rejected, Ignored} \/ p \in ArpPackets \/ p \in Ipv4Read
      /\ IsPacket(p) /\ IsArp(wire) => p \in ArpPackets
      /\ IsPacket(p) /\ ~IsArp(wire) => p \in Ipv4Read
  BY <1>1, HandlePacketType DEF Incoming
<1>3. ASSUME NEW result, result # Panic, Finish(result) PROVE CodecInv'
  BY <1>3 DEF Finish, CodecInv, NeverPanics, OnWire
<1>4. ASSUME NEW b, b \in Seq(Byte), NEW dst, NEW ethertype, NEW body,
             b = Frame(dst, OwnMac, ethertype, body), Answer(dst, ethertype, body)
      PROVE  CodecInv'
  BY <1>4 DEF Answer, CodecInv, NeverPanics, OnWire
<1>5. OwnMac \in Mac /\ HostMac \in Mac /\ Own \in Ip /\ ARP \in U16 /\ IPV4 \in U16
  <2>1. 2048 \in U16 /\ 2054 \in U16
    BY U16Is
  <2> QED BY <2>1, CodecAssumption DEF ARP, IPV4
<1>6. CASE ReceiveBad
  <2>1. Finish(p) /\ ~IsPacket(p)
    BY <1>6 DEF ReceiveBad
  <2>2. p # Panic
    BY <1>0, <1>2 DEF Ipv4Read
  <2> HIDE DEF p
  <2> QED BY <2>1, <2>2, <1>3
<1>7. CASE ReceiveArp
  <2>1. p \in ArpPackets
    BY <1>2, <1>7 DEF ReceiveArp
  <2>2. p.sender_mac \in Mac /\ p.sender_addr \in Ip
    BY <2>1 DEF ArpPackets
  <2> DEFINE r == ArpNew(REPLY, OwnMac, Own, p.sender_mac, p.sender_addr)
  <2>3. Answer(p.sender_mac, ARP, ArpSerialize(r)) \/ Finish(Learned(p))
    BY <1>7 DEF ReceiveArp
  <2> HIDE DEF p
  <2>4. r \in ArpPackets
    BY <2>2, <1>5 DEF ArpNew, ArpPackets
  <2> HIDE DEF r
  <2>5. Frame(p.sender_mac, OwnMac, ARP, ArpSerialize(r)) \in Seq(Byte)
    BY <2>2, <2>4, <1>5, ArpSerializeType, FrameType
  <2>6. Learned(p) # Panic
    <3>1. [ip |-> p.sender_addr, mac |-> p.sender_mac] \in Neighbours
      BY <2>2 DEF Neighbours
    <3> QED BY <3>1, <1>0 DEF Learned
  <2> QED BY <2>3, <2>5, <2>6, <1>3, <1>4
<1>8. CASE ReceiveOther
  <2>1. Finish(Ignored)
    BY <1>8 DEF ReceiveOther
  <2> QED BY <2>1, <1>0, <1>3
<1>9. CASE ReceiveUdp
  <2>1. p \in Ipv4Packets /\ Finish(UdpFromPacket(p))
    BY <1>2, <1>9 DEF ReceiveUdp, Ipv4Read
  <2> HIDE DEF p
  <2>2. UdpFromPacket(p) # Panic
    BY <2>1, <1>0, UdpFromPacketType
  <2> QED BY <2>1, <2>2, <1>3
<1>10. CASE ReceiveIcmp
  <2>1. p \in Ipv4Read /\ IF IcmpOutcome(p.data) # None
                          THEN Finish(IcmpOutcome(p.data))
                          ELSE Answer(HostMac, IPV4, Serialize(EchoReply(p)))
    BY <1>2, <1>10 DEF ReceiveIcmp
  <2> HIDE DEF p
  <2> DEFINE d == p.data
  <2>2. d \in Seq(Byte) /\ Len(d) \in Nat
    BY <2>1 DEF Ipv4Read, Ipv4Packets
  <2>3. IcmpOutcome(d) # Panic
    BY <2>2, <1>0, IcmpInRange DEF IcmpOutcome
  <2>4. CASE IcmpOutcome(d) # None
    BY <2>1, <2>3, <2>4, <1>3
  <2>5. CASE IcmpOutcome(d) = None
    <3>1. ~IcmpMalformed(d) /\ ~IcmpOutOfRange(d) /\ IsEchoRequest(d)
      <4>1. None \notin {Rejected, Ignored, Panic}
        BY OutcomesApart
      <4> QED BY <4>1, <2>5 DEF IcmpOutcome
    <3>2. ~(Len(d) < 4)
      BY <3>1 DEF IcmpOutOfRange, IsEchoRequest
    <3>3. Len(p.data) >= 4
      BY <3>2, <2>2
    <3>4. EchoReply(p) \in Ipv4Packets
      BY <2>1, <3>3, EchoReplyType DEF Ipv4Read
    <3>5. Serialize(EchoReply(p)) \in Seq(Byte)
      BY <3>4, SerializeType
    <3>6. Frame(HostMac, OwnMac, IPV4, Serialize(EchoReply(p))) \in Seq(Byte)
      BY <3>5, <1>5, FrameType
    <3>7. Answer(HostMac, IPV4, Serialize(EchoReply(p)))
      BY <2>1, <2>5
    <3> QED BY <3>6, <3>7, <1>4
  <2> QED BY <2>4, <2>5
<1> QED BY <1>6, <1>7, <1>8, <1>9, <1>10 DEF Receive

\* An ICMP message whose checksum holds has a type to be read.
LEMMA EchoAnswerType ==
  ASSUME NEW p \in Ipv4Packets, ~IcmpMalformed(p.data)
  PROVE  EchoAnswer(p) \in EchoAnswers
<1> DEFINE d == p.data
           n == Len(d)
<1>1. d \in Seq(Byte) /\ n \in Nat /\ p.source \in Ip /\ p.dest \in Ip /\ p.options \in Seq(Byte)
  BY DEF Ipv4Packets
<1>2. n >= 1
  <2>1. ~IcmpOutOfRange(d)
    BY <1>1, IcmpInRange
  <2>2. d # <<>>
    BY <2>1 DEF IcmpOutOfRange
  <2> QED BY <1>1, <2>2
<1>3. d[1] \in Byte
  BY <1>1, <1>2, ByteAt
<1>4. SubSeq(d, 5, n) \in Seq(Byte)
  <2> HIDE DEF d, n
  <2>1. CASE n >= 4
    <3>1. Within(d, 5, n)
      BY <1>1, <2>1 DEF Within, n
    <3>2. IsCut(SubSeq(d, 5, n), d, 5, n)
      BY <3>1, Cut
    <3> QED BY <3>2 DEF IsCut
  <2>2. CASE ~(n >= 4)
    <3>1. 5 > n
      BY <1>1, <2>2
    <3>2. SubSeq(d, 5, n) = <<>>
      BY <1>1, <3>1, SubSeqEmpty
    <3>3. <<>> \in Seq(Byte)
      OBVIOUS
    <3> QED BY <3>2, <3>3, Zenon
  <2> QED BY <2>1, <2>2
<1> QED BY <1>1, <1>3, <1>4 DEF EchoAnswer, EchoAnswers

\* The host does not panic either.
LEMMA HostReceiveSafe ==
  ASSUME CodecInv, HostReceive
  PROVE  CodecInv'
<1> DEFINE p == HandlePacket(wire, HostMac)
           result == CASE ~IsPacket(p) \/ IsArp(wire) -> p
                       [] OTHER ->
                            CASE p.protocol = UDP -> UdpFromPacket(p)
                              [] p.protocol = ICMP /\ ~IcmpMalformed(p.data) -> EchoAnswer(p)
                              [] OTHER -> Rejected
<1>0. /\ Panic \notin {None, Rejected, Ignored} /\ Panic \notin ArpPackets
      /\ Panic \notin Ipv4Packets /\ Panic \notin Datagrams /\ Panic \notin EchoAnswers
  BY OutcomesApart
<1>1. wire \in Seq(Byte) /\ Finish(result)
  BY DEF HostReceive, CodecInv, OnWire
<1>2. /\ p \in {Rejected, Ignored} \/ p \in ArpPackets \/ p \in Ipv4Read
      /\ IsPacket(p) /\ ~IsArp(wire) => p \in Ipv4Read
  BY <1>1, HandlePacketType
<1> HIDE DEF p
<1>3. result # Panic
  <2>1. CASE ~IsPacket(p) \/ IsArp(wire)
    <3>1. result = p
      BY <2>1
    <3> QED BY <3>1, <1>0, <1>2 DEF Ipv4Read
  <2>2. CASE ~(~IsPacket(p) \/ IsArp(wire))
    <3>0. p \in Ipv4Packets /\ UDP # ICMP
      BY <1>2, <2>2 DEF Ipv4Read, UDP, ICMP
    <3>1. CASE p.protocol = UDP
      <4>1. result = UdpFromPacket(p)
        BY <2>2, <3>0, <3>1
      <4> QED BY <4>1, <3>0, <1>0, UdpFromPacketType
    <3>2. CASE p.protocol = ICMP /\ ~IcmpMalformed(p.data)
      <4>1. result = EchoAnswer(p)
        BY <2>2, <3>0, <3>2
      <4> QED BY <4>1, <3>0, <3>2, <1>0, EchoAnswerType
    <3>3. CASE p.protocol # UDP /\ ~(p.protocol = ICMP /\ ~IcmpMalformed(p.data))
      <4>1. result = Rejected
        BY <2>2, <3>3
      <4> QED BY <4>1, <1>0
    <3> QED BY <3>1, <3>2, <3>3
  <2> QED BY <2>1, <2>2
<1> HIDE DEF result
<1> QED BY <1>1, <1>3 DEF Finish, CodecInv, NeverPanics, OnWire

\* No frame, of any bytes and any length, makes EthernetFrame::new, a from_packet or
\* handle_icmp take a slice or an index out of range, and none of what this machine
\* writes is anything but bytes.
THEOREM PanicsNever == Spec => []NeverPanics
<1>1. Init => CodecInv
  BY OutcomesApart DEF Init, CodecInv, OnWire, NeverPanics
<1>2. CodecInv /\ [Next]_vars => CodecInv'
  <2> SUFFICES ASSUME CodecInv, [Next]_vars PROVE CodecInv'
    OBVIOUS
  <2>1. CASE Send
    BY <2>1, SendSafe
  <2>2. CASE Link
    BY <2>2, LinkSafe
  <2>3. CASE Receive
    BY <2>3, ReceiveSafe
  <2>4. CASE HostReceive
    BY <2>4, HostReceiveSafe
  <2>5. CASE Messages
    <3>1. received' \in Results /\ state' = "read"
      BY <2>5, ReadsWritten
    <3>2. Panic \notin Results
      BY OutcomesApart
    <3> QED BY <3>1, <3>2 DEF CodecInv, NeverPanics, OnWire
  <2>6. CASE Again
    BY <2>6, OutcomesApart DEF Again, CodecInv, NeverPanics, OnWire
  <2>7. CASE UNCHANGED vars
    BY <2>7 DEF vars, CodecInv, NeverPanics, OnWire
  <2> QED BY <2>1, <2>2, <2>3, <2>4, <2>5, <2>6, <2>7 DEF Next
<1>3. CodecInv => NeverPanics
  BY DEF CodecInv
<1> QED BY <1>1, <1>2, <1>3, PTL DEF Spec

\* The bytes s lie in x behind the first m.
At(x, m, s) ==
  /\ x \in Seq(Byte) /\ s \in Seq(Byte) /\ m \in Nat /\ m + Len(s) <= Len(x)
  /\ \A i \in 1 .. Len(s) : x[m + i] = s[i]

\* k is m positions behind the end of a.
Behind(a, m, k) == m \in Nat /\ k = Len(a) + m

\* A part of a part of a concatenation.
LEMMA AtParts ==
  ASSUME NEW a \in Seq(Byte), NEW b \in Seq(Byte)
  PROVE  At(a \o b, 0, a) /\ At(a \o b, Len(a), b)
<1> DEFINE x == a \o b
<1>1. /\ x \in Seq(Byte) /\ Len(x) = Len(a) + Len(b) /\ Len(a) \in Nat /\ Len(b) \in Nat
      /\ \A i \in 1 .. Len(a) : x[i] = a[i]
      /\ \A i \in 1 .. Len(b) : x[Len(a) + i] = b[i]
  BY Join
<1> HIDE DEF x
<1>2. At(x, 0, a)
  <2>1. 0 + Len(a) <= Len(x) /\ \A i \in 1 .. Len(a) : 0 + i = i
    BY <1>1
  <2> QED BY <2>1, <1>1 DEF At
<1>3. At(x, Len(a), b)
  BY <1>1 DEF At
<1> QED BY <1>2, <1>3 DEF x

\* What lies in the left part of a concatenation lies in it.
LEMMA AtLeft ==
  ASSUME NEW a, NEW m, NEW s, At(a, m, s), NEW b \in Seq(Byte)
  PROVE  At(a \o b, m, s)
<1> DEFINE x == a \o b
<1>0. /\ a \in Seq(Byte) /\ s \in Seq(Byte) /\ m \in Nat /\ m + Len(s) <= Len(a)
      /\ \A i \in 1 .. Len(s) : a[m + i] = s[i]
  BY DEF At
<1>1. /\ x \in Seq(Byte) /\ Len(x) = Len(a) + Len(b) /\ Len(a) \in Nat /\ Len(b) \in Nat
      /\ \A i \in 1 .. Len(a) : x[i] = a[i]
  BY <1>0, Join
<1> HIDE DEF x
<1>2. Len(s) \in Nat
  BY <1>0, LenProperties
<1>3. \A i \in 1 .. Len(s) : m + i \in 1 .. Len(a)
  BY <1>0, <1>1, <1>2
<1>4. m + Len(s) <= Len(x)
  BY <1>0, <1>1, <1>2
<1>5. \A i \in 1 .. Len(s) : x[m + i] = s[i]
  BY <1>0, <1>1, <1>3
<1>6. At(x, m, s)
  BY <1>0, <1>1, <1>4, <1>5 DEF At
<1> QED BY <1>6 DEF x

\* So does what lies in the right part.
LEMMA AtRight ==
  ASSUME NEW b, NEW m, NEW s, At(b, m, s), NEW a \in Seq(Byte), NEW k, Behind(a, m, k)
  PROVE  At(a \o b, k, s)
<1> DEFINE x == a \o b
<1>0. /\ b \in Seq(Byte) /\ s \in Seq(Byte) /\ m \in Nat /\ m + Len(s) <= Len(b)
      /\ \A i \in 1 .. Len(s) : b[m + i] = s[i]
      /\ k = Len(a) + m
  BY DEF At, Behind
<1>1. /\ x \in Seq(Byte) /\ Len(x) = Len(a) + Len(b) /\ Len(a) \in Nat /\ Len(b) \in Nat
      /\ \A i \in 1 .. Len(b) : x[Len(a) + i] = b[i]
  BY <1>0, Join
<1> HIDE DEF x
<1>2. Len(s) \in Nat
  BY <1>0, LenProperties
<1>3. k \in Nat /\ k + Len(s) <= Len(x)
  BY <1>0, <1>1, <1>2
<1>4. ASSUME NEW i \in 1 .. Len(s) PROVE x[k + i] = s[i]
  <2>1. m + i \in 1 .. Len(b) /\ k + i = Len(a) + (m + i)
    BY <1>0, <1>1, <1>2
  <2> QED BY <2>1, <1>0, <1>1
<1>5. At(x, k, s)
  BY <1>0, <1>1, <1>3, <1>4 DEF At
<1> QED BY <1>5 DEF x

\* The slice for s behind the first m goes from j to n.
Spans(m, s, j, n) == j = m + 1 /\ n = m + Len(s)

\* What lies in a sequence is cut out of it by its length.
IsSlice(x, j, n, s) == SubSeq(x, j, n) = s

\* The slice that spans s is s.
LEMMA AtCut ==
  ASSUME NEW x, NEW m, NEW s, At(x, m, s), NEW j, NEW n, Spans(m, s, j, n)
  PROVE  IsSlice(x, j, n, s)
<1>9. j = m + 1 /\ n = m + Len(s)
  BY DEF Spans
<1>0. /\ x \in Seq(Byte) /\ s \in Seq(Byte) /\ m \in Nat /\ m + Len(s) <= Len(x)
      /\ \A i \in 1 .. Len(s) : x[m + i] = s[i]
  BY DEF At
<1>1. Len(s) \in Nat /\ Len(x) \in Nat
  BY <1>0, LenProperties
<1>2. Within(x, j, n) /\ n - j + 1 = Len(s) /\ \A i \in 1 .. Len(s) : j + i - 1 = m + i
  BY <1>9, <1>0, <1>1 DEF Within
<1> DEFINE c == SubSeq(x, j, n)
<1>3. IsCut(c, x, j, n)
  BY <1>2, Cut
<1> HIDE DEF c
<1>4. c \in Seq(Byte) /\ Len(c) = Len(s) /\ \A i \in 1 .. Len(s) : c[i] = x[j + i - 1]
  BY <1>2, <1>3 DEF IsCut
<1>5. \A i \in 1 .. Len(s) : c[i] = s[i]
  BY <1>0, <1>2, <1>4
<1>6. c = s
  BY <1>0, <1>4, <1>5, SeqEqual
<1> QED BY <1>6 DEF c, IsSlice

\* k is m + n.
Added(m, n, k) == k = m + n

\* A part of a part.
LEMMA AtIn ==
  ASSUME NEW x, NEW m, NEW y, At(x, m, y), NEW n, NEW s, At(y, n, s), NEW k, Added(m, n, k)
  PROVE  At(x, k, s)
<1>9. k = m + n
  BY DEF Added
<1>0. /\ x \in Seq(Byte) /\ y \in Seq(Byte) /\ m \in Nat /\ m + Len(y) <= Len(x)
      /\ \A i \in 1 .. Len(y) : x[m + i] = y[i]
      /\ s \in Seq(Byte) /\ n \in Nat /\ n + Len(s) <= Len(y)
      /\ \A i \in 1 .. Len(s) : y[n + i] = s[i]
  BY DEF At
<1>1. Len(s) \in Nat /\ Len(x) \in Nat /\ Len(y) \in Nat
  BY <1>0, LenProperties
<1>2. k \in Nat /\ k + Len(s) <= Len(x)
  BY <1>0, <1>1, <1>9
<1>3. ASSUME NEW i \in 1 .. Len(s) PROVE x[k + i] = s[i]
  <2>1. n + i \in 1 .. Len(y) /\ k + i = m + (n + i)
    BY <1>0, <1>1, <1>9
  <2> QED BY <2>1, <1>0
<1> QED BY <1>0, <1>2, <1>3 DEF At

\* A number that lies in a sequence is read from there.
LEMMA AtBe ==
  ASSUME NEW x, NEW m \in Nat, NEW n \in U16, At(x, m, Be(n))
  PROVE  Be16(x, m) = n
<1>1. Len(Be(n)) = 2 /\ Be(n)[1] * 256 + Be(n)[2] = n
  BY BeIs
<1>2. \A i \in 1 .. Len(Be(n)) : x[m + i] = Be(n)[i]
  BY DEF At
<1>3. x[m + 1] = Be(n)[1] /\ x[m + 2] = Be(n)[2]
  BY <1>1, <1>2
<1> QED BY <1>1, <1>3 DEF Be16

-----------------------------------------------------------------------------
(* What a frame holds                                                      *)

\* The addressee, the kind and the contents of a frame of send_frame, which may fill it.
Framed(b, dst, ethertype, body) ==
  /\ b \in Seq(Byte) /\ ~(Len(b) < 14)
  /\ SubSeq(b, 1, 6) = dst /\ EtherType(b) = ethertype /\ At(Contents(b), 0, body)

\* EthernetFrame::new finds the fields of a frame again, in front of the padding.
LEMMA FrameHolds ==
  ASSUME NEW dst \in Mac, NEW src \in Mac, NEW ethertype \in U16, NEW body \in Seq(Byte)
  PROVE  Framed(Frame(dst, src, ethertype, body), dst, ethertype, body)
<1> DEFINE e == Be(ethertype)
           x1 == dst \o src
           x2 == x1 \o e
           x3 == x2 \o body
           pad == [i \in 1 .. MinFrame - Len(x3) |-> 0]
           b == x3 \o pad
<1>1. /\ dst \in Seq(Byte) /\ src \in Seq(Byte) /\ e \in Seq(Byte)
      /\ Len(dst) = 6 /\ Len(src) = 6 /\ Len(e) = 2
  BY Addresses, BeIs
<1>0. b = Frame(dst, src, ethertype, body)
  BY DEF Frame
<1> HIDE DEF e
<1>2. x1 \in Seq(Byte) /\ Len(x1) = 12 /\ At(x1, 0, dst)
  <2>1. Len(x1) = Len(dst) + Len(src) /\ x1 \in Seq(Byte)
    BY <1>1, Join
  <2>2. At(x1, 0, dst)
    BY <1>1, AtParts
  <2> QED BY <2>1, <2>2, <1>1
<1> HIDE DEF x1
<1>3. x2 \in Seq(Byte) /\ Len(x2) = 14 /\ At(x2, 0, dst) /\ At(x2, 12, e)
  <2>1. Len(x2) = Len(x1) + Len(e) /\ x2 \in Seq(Byte)
    BY <1>1, <1>2, Join
  <2>2. At(x2, 0, dst)
    BY <1>1, <1>2, AtLeft
  <2>3. At(x2, Len(x1), e)
    BY <1>1, <1>2, AtParts
  <2> QED BY <2>1, <2>2, <2>3, <1>1, <1>2
<1> HIDE DEF x2
<1>4. /\ x3 \in Seq(Byte) /\ Len(x3) = 14 + Len(body) /\ Len(body) \in Nat
      /\ At(x3, 0, dst) /\ At(x3, 12, e) /\ At(x3, 14, body)
  <2>1. Len(x3) = Len(x2) + Len(body) /\ x3 \in Seq(Byte) /\ Len(body) \in Nat
    BY <1>3, Join
  <2>2. At(x3, 0, dst) /\ At(x3, 12, e)
    BY <1>3, AtLeft
  <2>3. At(x3, Len(x2), body)
    BY <1>3, AtParts
  <2> QED BY <2>1, <2>2, <2>3, <1>3
<1> HIDE DEF x3
<1>5. pad \in Seq(Byte)
  <2>1. MinFrame - Len(x3) \in Int
    BY <1>4 DEF MinFrame
  <2> QED BY <2>1, Zeros
<1> HIDE DEF pad
<1>6. /\ b \in Seq(Byte) /\ Len(b) = Len(x3) + Len(pad) /\ Len(pad) \in Nat
      /\ At(b, 0, dst) /\ At(b, 12, e) /\ At(b, 14, body)
  <2>1. b \in Seq(Byte) /\ Len(b) = Len(x3) + Len(pad) /\ Len(pad) \in Nat
    BY <1>4, <1>5, Join
  <2>2. At(b, 0, dst) /\ At(b, 12, e) /\ At(b, 14, body)
    BY <1>4, <1>5, AtLeft
  <2> QED BY <2>1, <2>2
<1> HIDE DEF b
<1>7. Len(b) \in Nat /\ Len(b) >= 14 /\ ~(Len(b) < 14)
  BY <1>4, <1>6
<1>8. SubSeq(b, 1, 6) = dst
  <2>1. Spans(0, dst, 1, 6)
    BY <1>1 DEF Spans
  <2>2. IsSlice(b, 1, 6, dst)
    BY <2>1, <1>6, AtCut
  <2> QED BY <2>2 DEF IsSlice
<1>9. EtherType(b) = ethertype
  BY <1>6, AtBe DEF EtherType, e
<1>10. At(Contents(b), 0, body)
  <2> DEFINE n == Len(b)
             c == SubSeq(b, 15, n)
  <2>1. Within(b, 15, n)
    BY <1>6, <1>7 DEF Within
  <2>2. IsCut(c, b, 15, n)
    <3> HIDE DEF n
    <3> QED BY <2>1, Cut
  <2>3. c = Contents(b)
    BY DEF Contents
  <2> HIDE DEF c
  <2>4. /\ 14 + Len(body) <= n /\ \A i \in 1 .. Len(body) : b[14 + i] = body[i]
    BY <1>6 DEF At
  <2>5. c \in Seq(Byte) /\ Len(c) = n - 14 /\ \A i \in 1 .. n - 14 : c[i] = b[14 + i]
    <3>1. n - 15 + 1 = n - 14 /\ \A i \in 1 .. n - 14 : 15 + i - 1 = 14 + i
      BY <1>7
    <3> HIDE DEF n
    <3> QED BY <3>1, <2>2 DEF IsCut
  <2> HIDE DEF n
  <2>6. 0 + Len(body) <= Len(c)
    BY <2>4, <2>5, <1>4, <1>7 DEF n
  <2>7. ASSUME NEW i \in 1 .. Len(body) PROVE c[0 + i] = body[i]
    <3>1. i \in 1 .. n - 14 /\ 0 + i = i
      BY <2>4, <1>4, <1>7 DEF n
    <3> QED BY <3>1, <2>4, <2>5
  <2>8. At(c, 0, body)
    BY <2>5, <2>6, <2>7 DEF At
  <2> QED BY <2>3, <2>8
<1> QED BY <1>0, <1>6, <1>7, <1>8, <1>9, <1>10 DEF Framed

\* How many zeroes a frame is filled with.
LEMMA ZerosLen ==
  ASSUME NEW n \in Int
  PROVE  Len([i \in 1 .. n |-> 0]) = IF n \in Nat THEN n ELSE 0
<1> DEFINE z == [i \in 1 .. n |-> 0]
<1>0. 0 \in Byte
  BY ByteIs
<1>1. CASE n \in Nat
  <2>1. z \in [1 .. n -> Byte]
    BY <1>0
  <2> QED BY <1>1, <2>1, Octets
<1>2. CASE n \notin Nat
  <2>1. 1 .. n = 1 .. 0
    BY <1>2
  <2>2. z \in [1 .. 0 -> Byte] /\ 0 \in Nat
    BY <1>0, <2>1
  <2> QED BY <1>2, <2>2, Octets
<1> QED BY <1>1, <1>2

\* What follows the Ethernet header is no longer than the body or the least frame.
LEMMA FrameFits ==
  ASSUME NEW dst \in Mac, NEW src \in Mac, NEW ethertype \in U16, NEW body \in Seq(Byte),
         NEW L \in Nat, L > Len(body), L > MinFrame - 14
  PROVE  L > Len(Contents(Frame(dst, src, ethertype, body)))
<1> DEFINE e == Be(ethertype)
           x1 == dst \o src
           x2 == x1 \o e
           x3 == x2 \o body
           m == MinFrame - Len(x3)
           pad == [i \in 1 .. m |-> 0]
           b == x3 \o pad
<1>1. /\ dst \in Seq(Byte) /\ src \in Seq(Byte) /\ e \in Seq(Byte)
      /\ Len(dst) = 6 /\ Len(src) = 6 /\ Len(e) = 2
  BY Addresses, BeIs
<1>0. b = Frame(dst, src, ethertype, body)
  BY DEF Frame
<1> HIDE DEF e
<1>2. x1 \in Seq(Byte) /\ Len(x1) = 12
  <2>1. Len(x1) = Len(dst) + Len(src) /\ x1 \in Seq(Byte)
    BY <1>1, Join
  <2> QED BY <2>1, <1>1
<1> HIDE DEF x1
<1>3. x2 \in Seq(Byte) /\ Len(x2) = 14
  <2>1. Len(x2) = Len(x1) + Len(e) /\ x2 \in Seq(Byte)
    BY <1>1, <1>2, Join
  <2> QED BY <2>1, <1>1, <1>2
<1> HIDE DEF x2
<1>4. x3 \in Seq(Byte) /\ Len(x3) = 14 + Len(body) /\ Len(body) \in Nat
  <2>1. Len(x3) = Len(x2) + Len(body) /\ x3 \in Seq(Byte) /\ Len(body) \in Nat
    BY <1>3, Join
  <2> QED BY <2>1, <1>3
<1> HIDE DEF x3
<1>5. m \in Int /\ m = 46 - Len(body)
  BY <1>4 DEF MinFrame
<1> HIDE DEF m
<1>6. pad \in Seq(Byte) /\ Len(pad) = IF m \in Nat THEN m ELSE 0
  BY <1>5, Zeros, ZerosLen
<1> HIDE DEF pad
<1>7. b \in Seq(Byte) /\ Len(b) = Len(x3) + Len(pad) /\ Len(pad) \in Nat
  BY <1>4, <1>6, Join
<1> HIDE DEF b
<1>8. Len(b) \in Nat /\ Len(b) >= 14 /\ L > Len(b) - 14
  <2>1. L > 46 /\ L > Len(body)
    BY DEF MinFrame
  <2>2. CASE m \in Nat
    <3>1. Len(b) = 14 + Len(body) + m
      BY <1>4, <1>6, <1>7, <2>2
    <3> QED BY <1>4, <1>5, <2>1, <2>2, <3>1
  <2>3. CASE m \notin Nat
    <3>1. Len(b) = 14 + Len(body) + 0
      BY <1>4, <1>6, <1>7, <2>3
    <3> QED BY <1>4, <2>1, <3>1
  <2> QED BY <2>2, <2>3
<1>9. Len(Contents(b)) = Len(b) - 14
  <2> DEFINE n == Len(b)
             c == SubSeq(b, 15, n)
  <2>1. Within(b, 15, n)
    BY <1>7, <1>8 DEF Within
  <2>2. IsCut(c, b, 15, n)
    <3> HIDE DEF n
    <3> QED BY <2>1, Cut
  <2>3. c = Contents(b)
    BY DEF Contents
  <2> HIDE DEF c
  <2>4. n - 15 + 1 = n - 14
    BY <1>8
  <2> HIDE DEF n
  <2>5. Len(c) = n - 14
    BY <2>2, <2>4 DEF IsCut
  <2> QED BY <2>3, <2>5 DEF n
<1>10. L > Len(Contents(b))
  BY <1>8, <1>9
<1> QED BY <1>0, <1>10

-----------------------------------------------------------------------------
(* What the formats carry comes out of them                                *)

\* An ARP packet behind which padding may lie.
LEMMA ArpReads ==
  ASSUME NEW a \in ArpPackets, NEW c, At(c, 0, ArpSerialize(a))
  PROVE  ArpFromSlice(c) = a
<1> DEFINE f == ArpFormat
           o == Be(a.operation)
           sm == a.sender_mac
           sa == a.sender_addr
           tm == a.target_mac
           ta == a.target_addr
           x1 == f \o o
           x2 == x1 \o sm
           x3 == x2 \o sa
           x4 == x3 \o tm
           x5 == x4 \o ta
<1>1. /\ sm \in Seq(Byte) /\ sa \in Seq(Byte) /\ tm \in Seq(Byte) /\ ta \in Seq(Byte)
      /\ Len(sm) = 6 /\ Len(sa) = 4 /\ Len(tm) = 6 /\ Len(ta) = 4
  BY Addresses DEF ArpPackets
<1>2. f \in Seq(Byte) /\ Len(f) = 6
  BY ArpFormatIs
<1>3. a.operation \in {REQUEST, REPLY} /\ a.operation \in U16
  <2>1. 1 \in U16 /\ 2 \in U16
    BY U16Is
  <2> QED BY <2>1 DEF ArpPackets, REQUEST, REPLY
<1>4. o \in Seq(Byte) /\ Len(o) = 2
  BY <1>3, BeIs
<1>5. x5 = ArpSerialize(a)
  BY DEF ArpSerialize
<1>6. a = ArpNew(a.operation, sm, sa, tm, ta)
  BY DEF ArpPackets, ArpNew
<1> HIDE DEF f, o, sm, sa, tm, ta
<1>11. x1 \in Seq(Byte) /\ Len(x1) = 8 /\ At(x1, 0, f) /\ At(x1, 6, o)
  <2>1. x1 \in Seq(Byte) /\ Len(x1) = Len(f) + Len(o)
    BY <1>2, <1>4, Join
  <2>2. At(x1, 0, f) /\ At(x1, Len(f), o)
    BY <1>2, <1>4, AtParts
  <2> QED BY <2>1, <2>2, <1>2, <1>4
<1> HIDE DEF x1
<1>12. /\ x2 \in Seq(Byte) /\ Len(x2) = 14
       /\ At(x2, 0, f) /\ At(x2, 6, o) /\ At(x2, 8, sm)
  <2>1. x2 \in Seq(Byte) /\ Len(x2) = Len(x1) + Len(sm)
    BY <1>1, <1>11, Join
  <2>2. At(x2, 0, f) /\ At(x2, 6, o) /\ At(x2, Len(x1), sm)
    BY <1>1, <1>11, AtParts, AtLeft
  <2> QED BY <2>1, <2>2, <1>1, <1>11
<1> HIDE DEF x2
<1>13. /\ x3 \in Seq(Byte) /\ Len(x3) = 18
       /\ At(x3, 0, f) /\ At(x3, 6, o) /\ At(x3, 8, sm) /\ At(x3, 14, sa)
  <2>1. x3 \in Seq(Byte) /\ Len(x3) = Len(x2) + Len(sa)
    BY <1>1, <1>12, Join
  <2>2. At(x3, 0, f) /\ At(x3, 6, o) /\ At(x3, 8, sm) /\ At(x3, Len(x2), sa)
    BY <1>1, <1>12, AtParts, AtLeft
  <2> QED BY <2>1, <2>2, <1>1, <1>12
<1> HIDE DEF x3
<1>14. /\ x4 \in Seq(Byte) /\ Len(x4) = 24
       /\ At(x4, 0, f) /\ At(x4, 6, o) /\ At(x4, 8, sm) /\ At(x4, 14, sa) /\ At(x4, 18, tm)
  <2>1. x4 \in Seq(Byte) /\ Len(x4) = Len(x3) + Len(tm)
    BY <1>1, <1>13, Join
  <2>2. /\ At(x4, 0, f) /\ At(x4, 6, o) /\ At(x4, 8, sm) /\ At(x4, 14, sa)
        /\ At(x4, Len(x3), tm)
    BY <1>1, <1>13, AtParts, AtLeft
  <2> QED BY <2>1, <2>2, <1>1, <1>13
<1> HIDE DEF x4
<1>15. /\ x5 \in Seq(Byte) /\ Len(x5) = 28
       /\ At(x5, 0, f) /\ At(x5, 6, o) /\ At(x5, 8, sm) /\ At(x5, 14, sa) /\ At(x5, 18, tm)
       /\ At(x5, 24, ta)
  <2>1. x5 \in Seq(Byte) /\ Len(x5) = Len(x4) + Len(ta)
    BY <1>1, <1>14, Join
  <2>2. /\ At(x5, 0, f) /\ At(x5, 6, o) /\ At(x5, 8, sm) /\ At(x5, 14, sa) /\ At(x5, 18, tm)
        /\ At(x5, Len(x4), ta)
    BY <1>1, <1>14, AtParts, AtLeft
  <2> QED BY <2>1, <2>2, <1>1, <1>14
<1>16. At(c, 0, x5)
  BY <1>5
<1> HIDE DEF x5
<1>17. /\ At(c, 0, f) /\ At(c, 6, o) /\ At(c, 8, sm) /\ At(c, 14, sa) /\ At(c, 18, tm)
       /\ At(c, 24, ta)
  <2>1. \A k \in Nat : Added(0, k, k)
    BY DEF Added
  <2>2. 0 \in Nat /\ 6 \in Nat /\ 8 \in Nat /\ 14 \in Nat /\ 18 \in Nat /\ 24 \in Nat
    OBVIOUS
  <2> QED BY <2>1, <2>2, <1>15, <1>16, AtIn
<1>18. ~(Len(c) < 28)
  <2>1. 0 + Len(x5) <= Len(c) /\ c \in Seq(Byte)
    BY <1>16 DEF At
  <2>2. Len(c) \in Nat
    BY <2>1, LenProperties
  <2> QED BY <2>1, <2>2, <1>15
<1>19. Be16(c, 6) = a.operation
  <2>1. 6 \in Nat /\ At(c, 6, Be(a.operation))
    BY <1>17 DEF o
  <2> QED BY <2>1, <1>3, AtBe
<1>20. /\ Spans(0, f, 1, 6) /\ Spans(8, sm, 9, 14) /\ Spans(14, sa, 15, 18)
       /\ Spans(18, tm, 19, 24) /\ Spans(24, ta, 25, 28)
  BY <1>1, <1>2 DEF Spans
<1>21. /\ SubSeq(c, 1, 6) = f /\ SubSeq(c, 9, 14) = sm /\ SubSeq(c, 15, 18) = sa
       /\ SubSeq(c, 19, 24) = tm /\ SubSeq(c, 25, 28) = ta
  <2>1. /\ IsSlice(c, 1, 6, f) /\ IsSlice(c, 9, 14, sm) /\ IsSlice(c, 15, 18, sa)
        /\ IsSlice(c, 19, 24, tm) /\ IsSlice(c, 25, 28, ta)
    BY <1>17, <1>20, AtCut
  <2> QED BY <2>1 DEF IsSlice
<1>22. ArpFromSlice(c) = ArpNew(Be16(c, 6), SubSeq(c, 9, 14), SubSeq(c, 15, 18),
                                SubSeq(c, 19, 24), SubSeq(c, 25, 28))
  <2>1. Be16(c, 6) \in {REQUEST, REPLY} /\ SubSeq(c, 1, 6) = ArpFormat
    BY <1>3, <1>19, <1>21 DEF f
  <2> QED BY <2>1, <1>18, Zenon DEF ArpFromSlice
<1> QED BY <1>6, <1>19, <1>21, <1>22, Zenon

\* A packet with the lengths it says it has.
WellFormed(p) ==
  /\ p \in Ipv4Packets
  /\ \E k \in 0 .. 10 : p.version_ihl = 69 + k /\ Len(p.options) = 4 * k
  /\ p.total_length = 20 + Len(p.options) + Len(p.data)
  /\ p.flags_frag_offset < 32768

\* The lengths of a header with k words of options, and of its packet.
Lengthy(b, hl, tl) ==
  /\ hl \in Nat /\ tl \in Nat /\ hl >= 20 /\ hl <= tl
  /\ b[1] \div 16 = 4 /\ b[1] % 16 >= 5 /\ HeaderLen(b) = hl /\ TotalLength(b) = tl

\* The first fields of b are those of h.
LEMMA LengthsWritten ==
  ASSUME NEW p, WellFormed(p), NEW h, NEW checksum, HeaderOf(p, checksum, h), NEW b, At(b, 0, h)
  PROVE  Lengthy(b, Len(h), p.total_length)
<1>1. PICK k \in 0 .. 10 : p.version_ihl = 69 + k /\ Len(p.options) = 4 * k
  BY DEF WellFormed
<1>2. /\ Len(h) = 20 + Len(p.options) /\ h[1] = p.version_ihl
      /\ h[3] * 256 + h[4] = p.total_length
  BY DEF HeaderOf
<1>3. Len(p.data) \in Nat /\ p.total_length = 20 + Len(p.options) + Len(p.data)
  BY DEF WellFormed, Ipv4Packets
<1>4. Len(h) = 4 * (5 + k) /\ Len(h) \in Nat /\ Len(h) >= 20
  BY <1>1, <1>2
<1>5. p.total_length \in Nat /\ Len(h) <= p.total_length
  <2> DEFINE L == Len(p.options)
             D == Len(p.data)
  <2>1. L \in Nat /\ D \in Nat
    BY <1>1, <1>3
  <2>2. Len(h) = 20 + L /\ p.total_length = 20 + L + D
    BY <1>2, <1>3, Zenon
  <2> HIDE DEF L, D
  <2>3. 20 + L + D \in Nat /\ 20 + L <= 20 + L + D
    BY <2>1
  <2> QED BY <2>2, <2>3, Zenon
<1>6. b[1] = h[1] /\ b[3] = h[3] /\ b[4] = h[4]
  <2>1. \A i \in 1 .. Len(h) : b[0 + i] = h[i]
    BY DEF At
  <2>2. 1 \in 1 .. Len(h) /\ 3 \in 1 .. Len(h) /\ 4 \in 1 .. Len(h)
    BY <1>4
  <2>3. 0 + 1 = 1 /\ 0 + 3 = 3 /\ 0 + 4 = 4
    OBVIOUS
  <2> QED BY <2>1, <2>2, <2>3
<1>7. (69 + k) \div 16 = 4 /\ (69 + k) % 16 = 5 + k /\ 5 + k >= 5
  OBVIOUS
<1>8. b[1] = 69 + k
  BY <1>1, <1>2, <1>6
<1>9. HeaderLen(b) = Len(h)
  BY <1>4, <1>7, <1>8 DEF HeaderLen
<1>10. TotalLength(b) = p.total_length
  <2>1. 2 + 1 = 3 /\ 2 + 2 = 4
    OBVIOUS
  <2> QED BY <2>1, <1>2, <1>6 DEF TotalLength, Be16
<1> QED BY <1>4, <1>5, <1>7, <1>8, <1>9, <1>10 DEF Lengthy

\* Where serialize puts the addresses, the options and the data.
LEMMA HeaderParts ==
  ASSUME NEW p \in Ipv4Packets, NEW checksum, NEW h, HeaderOf(p, checksum, h)
  PROVE  At(h, 12, p.source) /\ At(h, 16, p.dest) /\ At(h, 20, p.options)
<1>1. /\ p.source \in Seq(Byte) /\ Len(p.source) = 4 /\ p.dest \in Seq(Byte) /\ Len(p.dest) = 4
      /\ p.options \in Seq(Byte)
  BY Addresses DEF Ipv4Packets
<1>2. /\ h \in Seq(Byte) /\ Len(h) = 20 + Len(p.options) /\ Len(p.options) \in Nat
      /\ \A i \in 1 .. 4 : h[12 + i] = p.source[i] /\ h[16 + i] = p.dest[i]
      /\ \A i \in 1 .. Len(p.options) : h[20 + i] = p.options[i]
  BY DEF HeaderOf
<1>3. 12 + 4 <= Len(h) /\ 16 + 4 <= Len(h) /\ 20 + Len(p.options) <= Len(h)
  BY <1>2, SMTT(60)
<1>4. At(h, 12, p.source)
  BY <1>1, <1>2, <1>3 DEF At
<1>5. At(h, 16, p.dest)
  BY <1>1, <1>2, <1>3 DEF At
<1>6. At(h, 20, p.options)
  BY <1>1, <1>2, <1>3 DEF At
<1> QED BY <1>4, <1>5, <1>6

\* An IPv4 packet behind which padding may lie.
LEMMA Ipv4Reads ==
  ASSUME NEW p, WellFormed(p), NEW c, At(c, 0, Serialize(p))
  PROVE  Ipv4FromPacket(c) = p
<1> DEFINE cs == HeaderSum(p)
           h == Ipv4Header(p, cs)
           d == p.data
           b == h \o d
           hl == Len(h)
           tl == p.total_length
<1>1. p \in Ipv4Packets /\ d \in Seq(Byte) /\ tl = 20 + Len(p.options) + Len(d)
  BY DEF WellFormed, Ipv4Packets
<1>2. cs \in U16
  BY <1>1, HeaderSumType
<1>3. HeaderOf(p, cs, h)
  BY <1>1, <1>2, HeaderIs
<1>4. InternetChecksum(<<h>>) = 0
  BY <1>1, HeaderHolds
<1>5. b = Serialize(p)
  BY <1>1, SerializeIs
<1> HIDE DEF cs, h, d
<1>6. h \in Seq(Byte) /\ hl = 20 + Len(p.options)
  BY <1>3 DEF HeaderOf
<1>7. b \in Seq(Byte) /\ Len(b) = hl + Len(d) /\ hl \in Nat /\ Len(d) \in Nat
  BY <1>1, <1>6, Join
<1>8. Len(b) = tl
  BY <1>1, <1>6, <1>7
<1>9. At(b, 0, h) /\ At(b, hl, d)
  BY <1>1, <1>6, AtParts
<1>10. At(c, 0, b)
  BY <1>5
<1> HIDE DEF b
<1>11. Added(0, 0, 0) /\ Added(0, 12, 12) /\ Added(0, 16, 16) /\ Added(0, 20, 20)
  BY DEF Added
<1>12. At(c, 0, h)
  BY <1>9, <1>10, <1>11, AtIn
<1>13. At(b, 12, p.source) /\ At(b, 16, p.dest) /\ At(b, 20, p.options)
  <2>1. At(h, 12, p.source) /\ At(h, 16, p.dest) /\ At(h, 20, p.options)
    BY <1>1, <1>3, HeaderParts
  <2> QED BY <2>1, <1>9, <1>11, AtIn
<1> HIDE DEF hl, tl
<1>14. Lengthy(c, hl, tl) /\ Lengthy(b, hl, tl)
  BY <1>3, <1>9, <1>12, LengthsWritten DEF hl, tl
<1>15. hl \in Nat /\ tl \in Nat /\ hl >= 20 /\ hl <= tl
  BY <1>14 DEF Lengthy
<1>16. Len(c) \in Nat /\ tl <= Len(c)
  <2>1. c \in Seq(Byte) /\ 0 + Len(b) <= Len(c)
    BY <1>10 DEF At
  <2>2. Len(c) \in Nat
    BY <2>1, LenProperties
  <2> QED BY <2>1, <2>2, <1>8, <1>15
<1>17. ~(Len(c) < 20 \/ c[1] \div 16 # 4 \/ c[1] % 16 < 5 \/ LengthMismatch(c))
  <2>1. c[1] \div 16 = 4 /\ c[1] % 16 >= 5 /\ HeaderLen(c) = hl /\ TotalLength(c) = tl
    BY <1>14 DEF Lengthy
  <2>2. ~(hl > Len(c)) /\ ~(tl > Len(c)) /\ ~(tl < hl) /\ ~(Len(c) < 20)
    BY <1>15, <1>16
  <2>3. ~LengthMismatch(c)
    BY <2>1, <2>2, Zenon DEF LengthMismatch
  <2>4. ~(c[1] % 16 < 5)
    <3>1. c[1] \in Nat
      <4>1. c \in Seq(Byte) /\ 1 \in Nat /\ 1 >= 1 /\ 1 <= Len(c)
        BY <1>10, <1>15, <1>16 DEF At
      <4> QED BY <4>1, ByteAt
    <3>2. c[1] % 16 \in Nat
      BY <3>1
    <3> QED BY <2>1, <3>2
  <2> QED BY <2>1, <2>2, <2>3, <2>4, Zenon
<1>18. Trimmed(c) = b
  <2>1. Spans(0, b, 1, tl)
    BY <1>8, <1>15 DEF Spans
  <2>2. IsSlice(c, 1, tl, b)
    BY <2>1, <1>10, AtCut
  <2>3. TotalLength(c) = tl
    BY <1>14 DEF Lengthy
  <2> QED BY <2>2, <2>3, Zenon DEF IsSlice, Trimmed
<1>19. HeaderLen(b) = hl /\ TotalLength(b) = tl
  BY <1>14 DEF Lengthy
<1>20. ~HeaderOutOfRange(b)
  BY <1>8, <1>15, <1>19 DEF HeaderOutOfRange
<1>21. \A i \in 1 .. 10 : b[i] = h[i]
  <2>1. \A i \in 1 .. Len(h) : b[0 + i] = h[i]
    BY <1>9 DEF At
  <2>2. \A i \in 1 .. 10 : i \in 1 .. Len(h) /\ 0 + i = i
    BY <1>15 DEF hl
  <2> QED BY <2>1, <2>2
<1>22. /\ b[1] = p.version_ihl /\ Be16(b, 4) = p.id /\ Be16(b, 6) = p.flags_frag_offset
       /\ b[10] = p.protocol
  <2>1. /\ h[1] = p.version_ihl /\ h[5] * 256 + h[6] = p.id /\ h[10] = p.protocol
        /\ h[7] * 256 + h[8] = p.flags_frag_offset
    BY <1>3 DEF HeaderOf
  <2>2. b[1] = h[1] /\ b[5] = h[5] /\ b[6] = h[6] /\ b[7] = h[7] /\ b[8] = h[8] /\ b[10] = h[10]
    BY <1>21
  <2>3. 4 + 1 = 5 /\ 4 + 2 = 6 /\ 6 + 1 = 7 /\ 6 + 2 = 8
    OBVIOUS
  <2> QED BY <2>1, <2>2, <2>3 DEF Be16
<1>23. ~(Be16(b, 6) >= 32768)
  <2>1. p.flags_frag_offset < 32768 /\ p.flags_frag_offset \in U16
    BY DEF WellFormed, Ipv4Packets
  <2>2. p.flags_frag_offset \in Nat
    BY <2>1, U16Is
  <2> QED BY <2>1, <2>2, <1>22
<1>24. /\ IsSlice(b, 13, 16, p.source) /\ IsSlice(b, 17, 20, p.dest)
       /\ IsSlice(b, 21, hl, p.options) /\ IsSlice(b, hl + 1, tl, d) /\ IsSlice(b, 1, hl, h)
  <2>1. Len(p.source) = 4 /\ Len(p.dest) = 4
    BY <1>1, Addresses DEF Ipv4Packets
  <2>2. Spans(12, p.source, 13, 16) /\ Spans(16, p.dest, 17, 20)
    BY <2>1 DEF Spans
  <2>3. Spans(20, p.options, 21, hl)
    BY <1>6 DEF Spans
  <2>4. Spans(hl, d, hl + 1, tl)
    BY <1>7, <1>8, <1>15 DEF Spans
  <2>5. Spans(0, h, 1, hl)
    BY <1>15 DEF Spans, hl
  <2> DEFINE n == hl + 1
  <2> HIDE DEF n
  <2>6. Spans(hl, d, n, tl)
    BY <2>4 DEF n
  <2>7. IsSlice(b, n, tl, d)
    BY <2>6, <1>9, AtCut
  <2> QED BY <2>2, <2>3, <2>5, <2>7, <1>9, <1>13, AtCut DEF n
<1>25. Ipv4FromPacket(c) =
         [version_ihl |-> b[1], total_length |-> TotalLength(b),
          id |-> Be16(b, 4), flags_frag_offset |-> Be16(b, 6),
          protocol |-> b[10],
          source |-> SubSeq(b, 13, 16), dest |-> SubSeq(b, 17, 20),
          options |-> SubSeq(b, 21, HeaderLen(b)),
          data |-> SubSeq(b, HeaderLen(b) + 1, Len(b))]
  <2>1. InternetChecksum(<<SubSeq(b, 1, HeaderLen(b))>>) = 0
    BY <1>4, <1>19, <1>24, Zenon DEF IsSlice
  <2> DEFINE t == Trimmed(c)
  <2>2. t = b
    BY <1>18
  <2> HIDE DEF t
  <2>3. ~HeaderOutOfRange(t) /\ ~(Be16(t, 6) >= 32768)
    BY <2>2, <1>20, <1>23
  <2>4. InternetChecksum(<<SubSeq(t, 1, HeaderLen(t))>>) = 0
    BY <2>1, <2>2
  <2>5. Ipv4FromPacket(c) =
          [version_ihl |-> t[1], total_length |-> TotalLength(t),
           id |-> Be16(t, 4), flags_frag_offset |-> Be16(t, 6),
           protocol |-> t[10],
           source |-> SubSeq(t, 13, 16), dest |-> SubSeq(t, 17, 20),
           options |-> SubSeq(t, 21, HeaderLen(t)),
           data |-> SubSeq(t, HeaderLen(t) + 1, Len(t))]
    BY <2>3, <2>4, <1>17 DEF Ipv4FromPacket, t
  <2> QED BY <2>2, <2>5, Zenon
<1>26. /\ SubSeq(b, 13, 16) = p.source /\ SubSeq(b, 17, 20) = p.dest
       /\ SubSeq(b, 21, HeaderLen(b)) = p.options
       /\ SubSeq(b, HeaderLen(b) + 1, Len(b)) = p.data
  BY <1>8, <1>19, <1>24, Zenon DEF IsSlice, d
<1>27. p = [version_ihl |-> p.version_ihl, total_length |-> p.total_length, id |-> p.id,
            flags_frag_offset |-> p.flags_frag_offset, protocol |-> p.protocol,
            source |-> p.source, dest |-> p.dest, options |-> p.options, data |-> p.data]
  BY <1>1 DEF Ipv4Packets
<1>28. TotalLength(b) = p.total_length
  BY <1>19 DEF tl
<1> QED BY <1>22, <1>25, <1>26, <1>27, <1>28, Zenon

\* The sum of what two lists of parts hold.
LEMMA PartsSumConcat ==
  ASSUME NEW p \in Seq(Seq(Byte)), NEW q \in Seq(Seq(Byte))
  PROVE  PartsSum(p \o q) = PartsSum(p) + PartsSum(q)
<1> DEFINE r == p \o q
           s == [i \in DOMAIN p |-> PartSum(p[i])]
           t == [i \in DOMAIN q |-> PartSum(q[i])]
           u == [i \in DOMAIN r |-> PartSum(r[i])]
           L == Len(p)
           M == Len(q)
<1>1. /\ r \in Seq(Seq(Byte)) /\ Len(r) = L + M /\ L \in Nat /\ M \in Nat
      /\ \A i \in 1 .. L + M : r[i] = IF i <= L THEN p[i] ELSE q[i - L]
  <2>1. L \in Nat /\ M \in Nat
    OBVIOUS
  <2> HIDE DEF L, M
  <2> QED BY <2>1, ConcatProperties DEF L, M
<1>2. DOMAIN p = 1 .. L /\ DOMAIN q = 1 .. M /\ DOMAIN r = 1 .. L + M
  BY <1>1
<1> HIDE DEF r, L, M
<1>3. s \in Seq(Nat) /\ t \in Seq(Nat) /\ u \in Seq(Nat)
  BY <1>1, PartsSumType
<1>4. Len(s) = L /\ Len(t) = M /\ Len(u) = L + M
  BY <1>1, <1>2
<1>5. /\ \A i \in 1 .. L : s[i] = PartSum(p[i])
      /\ \A i \in 1 .. M : t[i] = PartSum(q[i])
      /\ \A i \in 1 .. L + M : u[i] = PartSum(r[i])
  BY <1>2
<1>6. PartsSum(p) = SumSeq(s) /\ PartsSum(q) = SumSeq(t) /\ PartsSum(r) = SumSeq(u)
  BY DEF PartsSum
<1> HIDE DEF s, t, u
<1>7. /\ s \o t \in Seq(Nat) /\ Len(s \o t) = L + M
      /\ \A i \in 1 .. L + M : (s \o t)[i] = IF i <= L THEN s[i] ELSE t[i - L]
  BY <1>1, <1>3, <1>4, ConcatProperties
<1>8. ASSUME NEW i \in 1 .. L + M PROVE u[i] = (s \o t)[i]
  <2>1. CASE i <= L
    <3>1. i \in 1 .. L
      BY <2>1, <1>1
    <3> QED BY <3>1, <2>1, <1>1, <1>5, <1>7
  <2>2. CASE ~(i <= L)
    <3>1. i - L \in 1 .. M
      BY <2>2, <1>1
    <3> QED BY <3>1, <2>2, <1>1, <1>5, <1>7
  <2> QED BY <2>1, <2>2
<1>9. u = s \o t
  BY <1>3, <1>4, <1>7, <1>8, SeqEqual, ZenonT(60)
<1>10. SumSeq(u) = SumSeq(s) + SumSeq(t)
  BY <1>3, <1>9, SumSeqConcat
<1> QED BY <1>6, <1>10 DEF r

\* The sums of one part and of two.
LEMMA PartsSumShort ==
  ASSUME NEW x \in Seq(Byte), NEW y \in Seq(Byte)
  PROVE  /\ <<x>> \in Seq(Seq(Byte)) /\ <<x, y>> \in Seq(Seq(Byte))
         /\ PartsSum(<<x>>) = PartSum(x) /\ PartsSum(<<x, y>>) = PartSum(x) + PartSum(y)
<1>1. <<x>> \in Seq(Seq(Byte)) /\ <<x, y>> \in Seq(Seq(Byte))
  OBVIOUS
<1>2. PartSum(x) \in Nat /\ PartSum(y) \in Nat
  BY PartSumType
<1> DEFINE s == <<PartSum(x)>>
           t == <<PartSum(x), PartSum(y)>>
<1>3. s \in Seq(Nat) /\ Len(s) = 1 /\ s[1] = PartSum(x)
  BY <1>2
<1>4. t \in Seq(Nat) /\ Len(t) = 2 /\ t[1] = PartSum(x) /\ t[2] = PartSum(y)
  BY <1>2
<1>5. [i \in DOMAIN <<x>> |-> PartSum(<<x>>[i])] = s
  OBVIOUS
<1>6. [i \in DOMAIN <<x, y>> |-> PartSum(<<x, y>>[i])] = t
  OBVIOUS
<1> HIDE DEF s, t
<1>7. SumSeq(s) = PartSum(x) /\ SumSeq(t) = PartSum(x) + PartSum(y)
  BY <1>3, <1>4, SumSeqShort
<1> QED BY <1>1, <1>5, <1>6, <1>7 DEF PartsSum

\* What serialize_ipv4 writes for 0 is as good as 0.
LEMMA OnesAdded ==
  ASSUME NEW n \in Nat, Folded(n) = 65535
  PROVE  Folded(n + 65535) = 65535
<1>1. PICK a \in Nat : n = 65535 * a + 65535
  BY FoldedOnes DEF Ones
<1> DEFINE x == n + 65534
           m == n + 65535
           k == a + 1
<1>2. Divided(x, k, 65534) /\ m = x + 1 /\ m \in Nat /\ x \in Nat
  BY <1>1 DEF Divided
<1> HIDE DEF x, m, k
<1>3. Folded(m) = 65534 + 1
  BY <1>2, FoldedIs
<1> QED BY <1>3 DEF m

\* With what is written, the folded sum is all ones.
LEMMA WireComplement ==
  ASSUME NEW s \in Nat
  PROVE  Folded(s + WireChecksum(65535 - Folded(s))) = 65535
<1>1. CASE 65535 - Folded(s) = 0
  <2>1. Folded(s) = 65535
    <3>1. Folded(s) \in Nat
      BY FoldedType, U16Is
    <3> QED BY <3>1, <1>1
  <2>2. WireChecksum(65535 - Folded(s)) = 65535
    BY <1>1 DEF WireChecksum
  <2> QED BY <2>1, <2>2, OnesAdded
<1>2. CASE 65535 - Folded(s) # 0
  <2>1. WireChecksum(65535 - Folded(s)) = 65535 - Folded(s)
    BY <1>2 DEF WireChecksum
  <2> QED BY <2>1, Complement
<1> QED BY <1>1, <1>2

\* The bytes of a datagram, with any checksum.
UdpBytes(source_port, dest_port, checksum, data) ==
  UdpFront(source_port, dest_port, 8 + Len(data)) \o (Be(checksum) \o data)

\* Where the fields of a datagram are.
UdpHolds(u, source_port, dest_port, checksum, data) ==
  /\ u \in Seq(Byte) /\ Len(u) = 8 + Len(data) /\ Len(data) \in Nat
  /\ Be16(u, 0) = source_port /\ Be16(u, 2) = dest_port /\ Be16(u, 4) = 8 + Len(data)
  /\ Be16(u, 6) = checksum /\ SubSeq(u, 9, Len(u)) = data

\* The fields of a datagram lie where from_packet looks for them.
LEMMA UdpLaid ==
  ASSUME NEW source_port \in U16, NEW dest_port \in U16, NEW checksum \in U16,
         NEW data \in UdpData
  PROVE  UdpHolds(UdpBytes(source_port, dest_port, checksum, data),
                  source_port, dest_port, checksum, data)
<1> DEFINE len == 8 + Len(data)
           f == UdpFront(source_port, dest_port, len)
           w == Be(checksum)
           z == w \o data
           u == f \o z
<1>1. data \in Seq(Byte) /\ len \in U16
  BY UdpDataIs
<1> HIDE DEF len
<1>2. /\ f \in Seq(Byte) /\ Len(f) = 6
      /\ f[1] * 256 + f[2] = source_port /\ f[3] * 256 + f[4] = dest_port
      /\ f[5] * 256 + f[6] = len
  BY <1>1, UdpFrontIs
<1>3. w \in Seq(Byte) /\ Len(w) = 2
  BY BeIs
<1> HIDE DEF f, w
<1>4. z \in Seq(Byte) /\ Len(z) = Len(w) + Len(data) /\ Len(data) \in Nat
  BY <1>1, <1>3, Join
<1>5. At(z, 0, w) /\ At(z, 2, data)
  <2>1. At(z, 0, w) /\ At(z, Len(w), data)
    BY <1>1, <1>3, AtParts
  <2> QED BY <2>1, <1>3
<1> HIDE DEF z
<1>6. u \in Seq(Byte) /\ Len(u) = Len(f) + Len(z)
  BY <1>2, <1>4, Join
<1>7. At(u, 0, f) /\ At(u, 6, w) /\ At(u, 8, data)
  <2>1. At(u, 0, f)
    BY <1>2, <1>4, AtParts
  <2>2. Behind(f, 0, 6) /\ Behind(f, 2, 8)
    BY <1>2 DEF Behind
  <2> QED BY <2>1, <2>2, <1>2, <1>5, AtRight
<1> HIDE DEF u
<1>8. Len(u) = 8 + Len(data)
  BY <1>2, <1>3, <1>4, <1>6
<1>9. /\ u[1] = f[1] /\ u[2] = f[2] /\ u[3] = f[3] /\ u[4] = f[4] /\ u[5] = f[5] /\ u[6] = f[6]
  <2>1. \A i \in 1 .. Len(f) : u[0 + i] = f[i]
    BY <1>7 DEF At
  <2>2. \A i \in 1 .. 6 : i \in 1 .. Len(f) /\ 0 + i = i
    BY <1>2
  <2>3. \A i \in 1 .. 6 : u[i] = f[i]
    BY <2>1, <2>2
  <2> QED BY <2>3
<1>10. Be16(u, 0) = source_port /\ Be16(u, 2) = dest_port /\ Be16(u, 4) = len
  <2>1. 0 + 1 = 1 /\ 0 + 2 = 2 /\ 2 + 1 = 3 /\ 2 + 2 = 4 /\ 4 + 1 = 5 /\ 4 + 2 = 6
    OBVIOUS
  <2> QED BY <2>1, <1>2, <1>9 DEF Be16
<1>11. Be16(u, 6) = checksum
  <2>1. 6 \in Nat /\ At(u, 6, Be(checksum))
    BY <1>7 DEF w
  <2> QED BY <2>1, AtBe
<1>12. IsSlice(u, 9, Len(u), data)
  <2> DEFINE n == Len(u)
  <2>1. Spans(8, data, 9, n)
    BY <1>8 DEF Spans
  <2> HIDE DEF n
  <2>2. IsSlice(u, 9, n, data)
    BY <2>1, <1>7, AtCut
  <2> QED BY <2>2 DEF n
<1>13. u = UdpBytes(source_port, dest_port, checksum, data)
  BY DEF UdpBytes, u, z, w, f, len
<1>14. UdpHolds(u, source_port, dest_port, checksum, data)
  BY <1>4, <1>6, <1>8, <1>10, <1>11, <1>12 DEF UdpHolds, IsSlice, len
<1> QED BY <1>13, <1>14

\* The checksum a reader computes over what serialize_ipv4 wrote is 0.
LEMMA UdpChecksumHolds ==
  ASSUME NEW source \in Ip, NEW dest \in Ip, NEW source_port \in U16, NEW dest_port \in U16,
         NEW data \in UdpData
  PROVE  LET w == UdpSum(source, dest, source_port, dest_port, data)
             u == UdpBytes(source_port, dest_port, w, data)
         IN  InternetChecksum(PseudoHeader(source, dest, 8 + Len(data)) \o <<u>>) = 0
<1> DEFINE len == 8 + Len(data)
           f == UdpFront(source_port, dest_port, len)
           ph == PseudoHeader(source, dest, len)
           w == UdpSum(source, dest, source_port, dest_port, data)
           u == UdpBytes(source_port, dest_port, w, data)
           s == PartsSum(UdpParts(source, dest, source_port, dest_port, data))
<1>1. data \in Seq(Byte) /\ len \in U16
  BY UdpDataIs
<1>2. /\ UdpParts(source, dest, source_port, dest_port, data) \in Seq(Seq(Byte))
      /\ w \in U16
  BY UdpPartsType
<1>3. u \in Seq(Byte)
  BY <1>2, UdpLaid DEF UdpHolds
<1>4. /\ u = f \o (Be(w) \o data)
      /\ UdpParts(source, dest, source_port, dest_port, data) = ph \o <<f, data>>
  BY DEF UdpBytes, UdpParts
<1>5. w = WireChecksum(65535 - Folded(s)) /\ s \in Nat
  <2>1. InternetChecksum(UdpParts(source, dest, source_port, dest_port, data))
          = 65535 - Folded(s)
    BY <1>2, ChecksumIs
  <2>2. s \in Nat
    BY <1>2, PartsSumType
  <2> HIDE DEF s
  <2> QED BY <2>1, <2>2 DEF UdpSum
<1> HIDE DEF len
<1>6. f \in Seq(Byte) /\ Len(f) = 6
  BY <1>1, UdpFrontIs
<1>7. ph \in Seq(Seq(Byte))
  BY <1>1, PseudoHeaderType
<1> HIDE DEF f, ph, w, u
<1>8. s = PartsSum(ph) + (PartSum(f) + PartSum(data))
  <2>1. <<f, data>> \in Seq(Seq(Byte)) /\ PartsSum(<<f, data>>) = PartSum(f) + PartSum(data)
    BY <1>1, <1>6, PartsSumShort
  <2>2. PartsSum(ph \o <<f, data>>) = PartsSum(ph) + PartsSum(<<f, data>>)
    BY <2>1, <1>7, PartsSumConcat
  <2> QED BY <2>1, <2>2, <1>4
<1> HIDE DEF s
<1>9. PartSum(u) = PartSum(f) + w + PartSum(data)
  <2>1. Even(f)
    <3>1. Len(f) = 2 * 3 /\ 3 \in Nat
      BY <1>6
    <3> QED BY <3>1, <1>6 DEF Even
  <2>2. SumAround(f, w, data)
    BY <2>1, <1>1, <1>2, PartSumAround
  <2> QED BY <2>2, <1>4 DEF SumAround
<1>10. PartsSum(ph \o <<u>>) = PartsSum(ph) + PartSum(u) /\ ph \o <<u>> \in Seq(Seq(Byte))
  <2>1. <<u>> \in Seq(Seq(Byte)) /\ PartsSum(<<u>>) = PartSum(u)
    BY <1>3, PartsSumShort
  <2>2. PartsSum(ph \o <<u>>) = PartsSum(ph) + PartsSum(<<u>>)
    BY <2>1, <1>7, PartsSumConcat
  <2>3. ph \o <<u>> \in Seq(Seq(Byte))
    BY <2>1, <1>7, ConcatProperties
  <2> QED BY <2>1, <2>2, <2>3
<1>11. PartsSum(ph \o <<u>>) = s + w
  <2>1. PartsSum(ph) \in Nat /\ PartSum(f) \in Nat /\ PartSum(data) \in Nat /\ w \in Nat
    <3>1. PartsSum(ph) \in Nat
      BY <1>7, PartsSumType
    <3>2. PartSum(f) \in Nat /\ PartSum(data) \in Nat
      BY <1>1, <1>6, PartSumType
    <3>3. w \in Nat
      BY <1>2, U16Is
    <3> QED BY <3>1, <3>2, <3>3
  <2> QED BY <2>1, <1>8, <1>9, <1>10
<1>12. Folded(PartsSum(ph \o <<u>>)) = 65535
  BY <1>5, <1>11, WireComplement
<1> DEFINE q == ph \o <<u>>
<1>13. q \in Seq(Seq(Byte)) /\ Folded(PartsSum(q)) = 65535
  BY <1>10, <1>12
<1> HIDE DEF q
<1>14. InternetChecksum(q) = 65535 - Folded(PartsSum(q))
  BY <1>13, ChecksumIs
<1>15. InternetChecksum(q) = 0
  BY <1>13, <1>14
<1> QED BY <1>15 DEF q, ph, u, w, len

\* A datagram that says it has no checksum, or has one that holds, is what was sent.
LEMMA UdpReads ==
  ASSUME NEW p, WellFormed(p), NEW source_port \in U16, NEW dest_port \in U16,
         NEW checksum \in U16, NEW data \in UdpData,
         p.data = UdpBytes(source_port, dest_port, checksum, data),
         \/ checksum = 0
         \/ checksum = UdpSum(p.source, p.dest, source_port, dest_port, data)
  PROVE  UdpFromPacket(p) = Datagram(source_port, dest_port, data)
<1> DEFINE u == p.data
<1>1. p \in Ipv4Packets /\ p.source \in Ip /\ p.dest \in Ip
  BY DEF WellFormed, Ipv4Packets
<1>2. UdpHolds(u, source_port, dest_port, checksum, data)
  BY UdpLaid
<1>3. ~(p.total_length < 28)
  <2> DEFINE L == Len(p.options)
             D == Len(data)
  <2>1. L \in Nat /\ D \in Nat
    BY <1>1, <1>2 DEF Ipv4Packets, UdpHolds
  <2>2. p.total_length = 20 + L + (8 + D)
    <3>1. p.total_length = 20 + Len(p.options) + Len(p.data)
      BY DEF WellFormed
    <3>2. Len(p.data) = 8 + Len(data)
      BY <1>2 DEF UdpHolds
    <3> QED BY <3>1, <3>2, Zenon
  <2> HIDE DEF L, D
  <2>3. ~(20 + L + (8 + D) < 28)
    BY <2>1
  <2> QED BY <2>2, <2>3, Zenon
<1>4. \/ checksum = 0
      \/ InternetChecksum(PseudoHeader(p.source, p.dest, 8 + Len(data)) \o <<u>>) = 0
  BY <1>1, UdpChecksumHolds
<1> HIDE DEF u
<1>5. /\ u \in Seq(Byte) /\ Len(u) = 8 + Len(data) /\ Len(data) \in Nat
      /\ Be16(u, 0) = source_port /\ Be16(u, 2) = dest_port /\ Be16(u, 4) = 8 + Len(data)
      /\ Be16(u, 6) = checksum /\ SubSeq(u, 9, Len(u)) = data
  BY <1>2 DEF UdpHolds
<1>6. ~(Len(u) < 8)
  BY <1>5
<1>7. ~/\ InternetChecksum(PseudoHeader(p.source, p.dest, Len(u)) \o <<u>>) # 0
       /\ Be16(u, 6) # 0
  BY <1>4, <1>5
<1>8. Be16(u, 4) = Len(u)
  BY <1>5
<1>9. UdpFromPacket(p) = Datagram(Be16(u, 0), Be16(u, 2), SubSeq(u, 9, Len(u)))
  BY <1>3, <1>6, <1>7, <1>8, Zenon DEF UdpFromPacket, u
<1> QED BY <1>5, <1>9, Zenon

\* A message that starts with a, has the checksum c, and goes on with rest.
Message(a, c, rest) == a \o (Be(c) \o rest)

\* A message of which the checksum was computed with 0 in its place.
ChecksumOf(a, rest) == InternetChecksum(<<Message(a, 0, rest)>>)
Summed(a, rest) == Message(a, ChecksumOf(a, rest), rest)

\* The sum of an ICMP message.
LEMMA MessageSums ==
  ASSUME NEW a, Even(a), NEW rest \in Seq(Byte), NEW c \in U16
  PROVE  /\ Message(a, c, rest) \in Seq(Byte)
         /\ PartSum(Message(a, c, rest)) = PartSum(a) + c + PartSum(rest)
<1>1. a \in Seq(Byte) /\ Be(c) \in Seq(Byte)
  BY BeIs DEF Even
<1>2. Be(c) \o rest \in Seq(Byte)
  BY <1>1, Closed
<1>3. Message(a, c, rest) \in Seq(Byte)
  BY <1>1, <1>2, Closed DEF Message
<1>4. SumAround(a, c, rest)
  BY PartSumAround
<1> QED BY <1>3, <1>4 DEF SumAround, Message

\* A checksum written over zeroes makes the sum of its message all ones.
LEMMA SummedHolds ==
  ASSUME NEW a, Even(a), NEW rest \in Seq(Byte)
  PROVE  /\ Summed(a, rest) \in Seq(Byte) /\ ChecksumOf(a, rest) \in U16
         /\ InternetChecksum(<<Summed(a, rest)>>) = 0
<1> DEFINE c == ChecksumOf(a, rest)
           m == Message(a, 0, rest)
           n == Message(a, c, rest)
           s == PartSum(a) + PartSum(rest)
<1>1. PartSum(a) \in Nat /\ PartSum(rest) \in Nat /\ 0 \in U16
  BY PartSumType, U16Is DEF Even
<1>2. s \in Nat /\ \A d \in U16 : PartSum(a) + d + PartSum(rest) = s + d
  BY <1>1, U16Is
<1>3. m \in Seq(Byte) /\ PartSum(m) = PartSum(a) + 0 + PartSum(rest)
  BY <1>1, MessageSums
<1>4. c = InternetChecksum(<<m>>)
  BY DEF ChecksumOf
<1> HIDE DEF m, c
<1>5. PartSum(m) = s
  BY <1>1, <1>3
<1> HIDE DEF s
<1>6. c = 65535 - Folded(s) /\ c \in U16
  BY <1>3, <1>4, <1>5, ChecksumOfOne
<1>7. n \in Seq(Byte) /\ PartSum(n) = PartSum(a) + c + PartSum(rest)
  BY <1>6, MessageSums
<1>8. n = Summed(a, rest)
  BY DEF Summed, c
<1> HIDE DEF n
<1>9. PartSum(n) = s + (65535 - Folded(s))
  BY <1>2, <1>6, <1>7
<1>10. Folded(PartSum(n)) = 65535
  BY <1>2, <1>9, Complement
<1>11. InternetChecksum(<<n>>) = 65535 - Folded(PartSum(n))
  BY <1>7, ChecksumOfOne
<1>12. InternetChecksum(<<n>>) = 0
  BY <1>10, <1>11
<1> QED BY <1>6, <1>7, <1>8, <1>12 DEF c

\* z is a message of two bytes, a checksum and what follows.
EchoLaid(z, x, y, c, rest) ==
  /\ z \in Seq(Byte) /\ Len(z) = 4 + Len(rest) /\ Len(rest) \in Nat
  /\ z[1] = x /\ z[2] = y /\ z[3] = c \div 256 /\ z[4] = c % 256
  /\ \A i \in 1 .. Len(rest) : z[4 + i] = rest[i]

\* The fields of an ICMP message lie where handle_icmp looks for them.
LEMMA EchoIs ==
  ASSUME NEW x \in Byte, NEW y \in Byte, NEW c \in U16, NEW rest \in Seq(Byte)
  PROVE  /\ EchoLaid(Message(<<x, y>>, c, rest), x, y, c, rest) /\ Even(<<x, y>>)
         /\ At(Message(<<x, y>>, c, rest), 4, rest)
<1> DEFINE a == <<x, y>>
           w == Be(c)
           v == w \o rest
           z == a \o v
<1>1. a \in Seq(Byte) /\ Len(a) = 2 /\ a[1] = x /\ a[2] = y
  OBVIOUS
<1>2. w \in Seq(Byte) /\ Len(w) = 2 /\ w[1] = c \div 256 /\ w[2] = c % 256
  BY BeIs DEF Be
<1>0. z = Message(a, c, rest)
  BY DEF Message
<1> HIDE DEF a, w
<1>3. v \in Seq(Byte) /\ Len(v) = Len(w) + Len(rest) /\ Len(rest) \in Nat
  BY <1>2, Join, ZenonT(60)
<1>4. At(v, 0, w) /\ At(v, 2, rest)
  <2>1. At(v, 0, w) /\ At(v, Len(w), rest)
    BY <1>2, AtParts
  <2> QED BY <2>1, <1>2
<1> HIDE DEF v
<1>5. z \in Seq(Byte) /\ Len(z) = Len(a) + Len(v)
  BY <1>1, <1>3, Join
<1>6. At(z, 0, a) /\ At(z, 2, w) /\ At(z, 4, rest)
  <2>1. At(z, 0, a)
    BY <1>1, <1>3, AtParts
  <2>2. Behind(a, 0, 2) /\ Behind(a, 2, 4)
    BY <1>1 DEF Behind
  <2> QED BY <2>1, <2>2, <1>1, <1>4, AtRight
<1> HIDE DEF z
<1>7. Len(z) = 4 + Len(rest)
  BY <1>1, <1>2, <1>3, <1>5
<1>8. z[1] = x /\ z[2] = y
  <2>1. \A i \in 1 .. Len(a) : z[0 + i] = a[i]
    BY <1>6 DEF At
  <2>2. 1 \in 1 .. Len(a) /\ 2 \in 1 .. Len(a) /\ 0 + 1 = 1 /\ 0 + 2 = 2
    BY <1>1
  <2> QED BY <2>1, <2>2, <1>1
<1>9. z[3] = c \div 256 /\ z[4] = c % 256
  <2>1. \A i \in 1 .. Len(w) : z[2 + i] = w[i]
    BY <1>6 DEF At
  <2>2. 1 \in 1 .. Len(w) /\ 2 \in 1 .. Len(w) /\ 2 + 1 = 3 /\ 2 + 2 = 4
    BY <1>2
  <2> QED BY <2>1, <2>2, <1>2
<1>10. \A i \in 1 .. Len(rest) : z[4 + i] = rest[i]
  BY <1>6 DEF At
<1>11. EchoLaid(z, x, y, c, rest)
  BY <1>3, <1>5, <1>7, <1>8, <1>9, <1>10 DEF EchoLaid
<1>12. Even(a)
  <2>1. Len(a) = 2 * 1 /\ 1 \in Nat
    BY <1>1
  <2> QED BY <2>1, <1>1 DEF Even
<1> QED BY <1>0, <1>6, <1>11, <1>12 DEF a

\* There is only one such message.
LEMMA EchoSame ==
  ASSUME NEW z, NEW v, NEW x, NEW y, NEW c, NEW rest,
         EchoLaid(z, x, y, c, rest), EchoLaid(v, x, y, c, rest)
  PROVE  z = v
<1>1. /\ z \in Seq(Byte) /\ Len(z) = 4 + Len(rest) /\ Len(rest) \in Nat
      /\ z[1] = x /\ z[2] = y /\ z[3] = c \div 256 /\ z[4] = c % 256
      /\ \A i \in 1 .. Len(rest) : z[4 + i] = rest[i]
      /\ v \in Seq(Byte) /\ Len(v) = 4 + Len(rest)
      /\ v[1] = x /\ v[2] = y /\ v[3] = c \div 256 /\ v[4] = c % 256
      /\ \A i \in 1 .. Len(rest) : v[4 + i] = rest[i]
  BY DEF EchoLaid
<1>2. ASSUME NEW i \in 1 .. Len(z) PROVE z[i] = v[i]
  <2>1. i \in {1, 2, 3, 4} \/ \E j \in 1 .. Len(rest) : i = 4 + j
    <3>1. i \in Nat /\ i >= 1 /\ i <= 4 + Len(rest)
      BY <1>1
    <3>2. CASE i <= 4
      BY <3>1, <3>2
    <3>3. CASE ~(i <= 4)
      <4>1. i - 4 \in 1 .. Len(rest) /\ i = 4 + (i - 4)
        BY <3>1, <3>3, <1>1
      <4> QED BY <4>1
    <3> QED BY <3>2, <3>3
  <2>2. CASE i \in {1, 2, 3, 4}
    BY <2>2, <1>1, ZenonT(60)
  <2>3. CASE \E j \in 1 .. Len(rest) : i = 4 + j
    BY <2>3, <1>1, ZenonT(60)
  <2> QED BY <2>1, <2>2, <2>3
<1>3. Len(z) = Len(v)
  BY <1>1
<1> QED BY <1>1, <1>2, <1>3, SeqEqual, Zenon

\* Another value for one of the first four bytes.
WithType(z)        == [z EXCEPT ![1] = 0]
WithChecksum(z, d) == [[z EXCEPT ![3] = d \div 256] EXCEPT ![4] = d % 256]

\* What handle_icmp writes into the request changes that field only.
LEMMA EchoExcept ==
  ASSUME NEW z, NEW x \in Byte, NEW y \in Byte, NEW c \in U16, NEW rest,
         EchoLaid(z, x, y, c, rest)
  PROVE  /\ EchoLaid(WithType(z), 0, y, c, rest)
         /\ \A d \in U16 : EchoLaid(WithChecksum(z, d), x, y, d, rest)
<1> SUFFICES ASSUME NEW d \in U16
             PROVE  /\ EchoLaid(WithType(z), 0, y, c, rest)
                    /\ EchoLaid(WithChecksum(z, d), x, y, d, rest)
  OBVIOUS
<1> DEFINE L == Len(z)
           u == [z EXCEPT ![1] = 0]
           v == [z EXCEPT ![3] = d \div 256]
           w == [v EXCEPT ![4] = d % 256]
<1>1. /\ z \in Seq(Byte) /\ L = 4 + Len(rest) /\ Len(rest) \in Nat
      /\ z[1] = x /\ z[2] = y /\ z[3] = c \div 256 /\ z[4] = c % 256
      /\ \A i \in 1 .. Len(rest) : z[4 + i] = rest[i]
  BY DEF EchoLaid
<1>2. 0 \in Byte /\ d \div 256 \in Byte /\ d % 256 \in Byte
  BY ByteIs, BeIs DEF Be
<1>3. 1 \in 1 .. L /\ 2 \in 1 .. L /\ 3 \in 1 .. L /\ 4 \in 1 .. L
  BY <1>1
<1>4. ASSUME NEW i \in 1 .. Len(rest)
      PROVE  4 + i \in 1 .. L /\ 4 + i # 1 /\ 4 + i # 3 /\ 4 + i # 4
  BY <1>1
<1> HIDE DEF L
<1>5. /\ u \in Seq(Byte) /\ Len(u) = L
      /\ \A j \in 1 .. L : u[j] = IF j = 1 THEN 0 ELSE z[j]
  BY <1>1, <1>2, <1>3, ExceptSeq DEF L
<1>6. /\ v \in Seq(Byte) /\ Len(v) = L
      /\ \A j \in 1 .. L : v[j] = IF j = 3 THEN d \div 256 ELSE z[j]
  BY <1>1, <1>2, <1>3, ExceptSeq DEF L
<1> HIDE DEF u, v
<1>7. /\ w \in Seq(Byte) /\ Len(w) = L
      /\ \A j \in 1 .. L : w[j] = IF j = 4 THEN d % 256 ELSE v[j]
  BY <1>2, <1>3, <1>6, ExceptSeq
<1> HIDE DEF w
<1>8. u[1] = 0 /\ u[2] = y /\ u[3] = c \div 256 /\ u[4] = c % 256
  BY <1>1, <1>3, <1>5
<1>9. w[1] = x /\ w[2] = y /\ w[3] = d \div 256 /\ w[4] = d % 256
  BY <1>1, <1>3, <1>6, <1>7
<1>10. ASSUME NEW i \in 1 .. Len(rest) PROVE u[4 + i] = rest[i] /\ w[4 + i] = rest[i]
  <2>1. z[4 + i] = rest[i]
    BY <1>1
  <2>2. u[4 + i] = z[4 + i] /\ v[4 + i] = z[4 + i] /\ w[4 + i] = v[4 + i]
    BY <1>4, <1>5, <1>6, <1>7
  <2> QED BY <2>1, <2>2
<1>11. EchoLaid(u, 0, y, c, rest)
  BY <1>1, <1>5, <1>8, <1>10 DEF EchoLaid
<1>12. EchoLaid(w, x, y, d, rest)
  BY <1>1, <1>7, <1>9, <1>10 DEF EchoLaid
<1> QED BY <1>11, <1>12 DEF u, v, w, WithType, WithChecksum

\* What the host that sent an echo request is to read.
EchoMeans(p, rest) ==
  [source |-> Own, dest |-> p.source, options |-> <<>>, type |-> 0, rest |-> rest]

\* The reply carries what followed the checksum of the request.
LEMMA EchoReplyIs ==
  ASSUME NEW p, NEW rest \in Seq(Byte), p.data = Summed(<<8, 0>>, rest)
  PROVE  EchoReply(p) = Ipv4New(Summed(<<0, 0>>, rest), Own, p.source, p.id, ICMP)
<1> DEFINE d == p.data
           d1 == [d EXCEPT ![1] = 0]
           d2 == [d1 EXCEPT ![3] = 0]
           d3 == [d2 EXCEPT ![4] = 0]
           c == InternetChecksum(<<d3>>)
           d4 == [d3 EXCEPT ![3] = c \div 256]
           d5 == [d4 EXCEPT ![4] = c % 256]
           k == ChecksumOf(<<8, 0>>, rest)
           e == ChecksumOf(<<0, 0>>, rest)
<1>1. 0 \in Byte /\ 8 \in Byte /\ 0 \in U16 /\ 0 \div 256 = 0 /\ 0 % 256 = 0
  BY ByteIs, U16Is
<1>2. Even(<<8, 0>>) /\ Even(<<0, 0>>)
  BY <1>1, EchoIs
<1>3. k \in U16 /\ e \in U16
  BY <1>2, SummedHolds
<1>0. EchoReply(p) = Ipv4New(d5, Own, p.source, p.id, ICMP)
  BY DEF EchoReply
<1>4. EchoLaid(d, 8, 0, k, rest)
  <2>1. EchoLaid(Message(<<8, 0>>, k, rest), 8, 0, k, rest)
    BY <1>1, <1>3, EchoIs
  <2> QED BY <2>1 DEF Summed
<1> HIDE DEF k, d
<1>5. EchoLaid(d1, 0, 0, k, rest)
  <2>1. EchoLaid(WithType(d), 0, 0, k, rest)
    BY <1>1, <1>3, <1>4, EchoExcept
  <2> QED BY <2>1 DEF WithType
<1> HIDE DEF d1
<1>6. EchoLaid(d3, 0, 0, 0, rest)
  <2>1. EchoLaid(WithChecksum(d1, 0), 0, 0, 0, rest)
    BY <1>1, <1>3, <1>5, EchoExcept
  <2> QED BY <2>1, <1>1 DEF WithChecksum
<1> HIDE DEF d2, d3
<1>7. d3 = Message(<<0, 0>>, 0, rest)
  <2>1. EchoLaid(Message(<<0, 0>>, 0, rest), 0, 0, 0, rest)
    BY <1>1, EchoIs
  <2> QED BY <2>1, <1>6, EchoSame
<1>8. c = e
  BY <1>7 DEF ChecksumOf
<1> HIDE DEF c, e
<1>9. EchoLaid(d5, 0, 0, e, rest)
  <2>1. EchoLaid(WithChecksum(d3, e), 0, 0, e, rest)
    BY <1>1, <1>3, <1>6, EchoExcept
  <2> QED BY <2>1, <1>8, Zenon DEF WithChecksum
<1> HIDE DEF d4, d5
<1>10. d5 = Message(<<0, 0>>, e, rest)
  <2>1. EchoLaid(Message(<<0, 0>>, e, rest), 0, 0, e, rest)
    BY <1>1, <1>3, EchoIs
  <2> QED BY <2>1, <1>9, EchoSame
<1>11. d5 = Summed(<<0, 0>>, rest)
  BY <1>10 DEF Summed, e
<1> QED BY <1>0, <1>11

\* A well-formed packet fits in one.
LEMMA WellFormedRead ==
  ASSUME NEW p, WellFormed(p)
  PROVE  p \in Ipv4Read
<1> DEFINE L == Len(p.options)
           D == Len(p.data)
           T == p.total_length
<1>1. p \in Ipv4Packets /\ T = 20 + L + D
  BY DEF WellFormed
<1>2. L \in Nat /\ D \in Nat /\ T \in U16
  BY <1>1 DEF Ipv4Packets
<1>3. T \in Nat /\ T <= 65535
  BY <1>2, U16Is
<1> HIDE DEF L, D, T
<1>4. D <= 65515
  BY <1>1, <1>2, <1>3
<1> QED BY <1>1, <1>4 DEF Ipv4Read, D

\* A packet of Ipv4Packet::new is well formed.
LEMMA NewWellFormed ==
  ASSUME NEW data \in Seq(Byte), NEW source, NEW dest, NEW id, NEW protocol,
         Ipv4New(data, source, dest, id, protocol) \in Ipv4Read
  PROVE  WellFormed(Ipv4New(data, source, dest, id, protocol))
<1> DEFINE q == Ipv4New(data, source, dest, id, protocol)
<1>1. /\ q.version_ihl = 69 /\ q.options = <<>> /\ q.total_length = Len(data) + 20
      /\ q.flags_frag_offset = 0 /\ q.data = data
  BY DEF Ipv4New
<1>2. q \in Ipv4Packets
  BY DEF Ipv4Read
<1> HIDE DEF q
<1>3. Len(q.options) = 0 /\ Len(data) \in Nat
  BY <1>1
<1>4. q.version_ihl = 69 + 0 /\ Len(q.options) = 4 * 0 /\ 0 \in 0 .. 10
  BY <1>1, <1>3
<1>5. q.total_length = 20 + Len(q.options) + Len(q.data)
  BY <1>1, <1>3
<1>6. q.flags_frag_offset < 32768
  BY <1>1
<1>7. WellFormed(q)
  BY <1>2, <1>4, <1>5, <1>6 DEF WellFormed
<1> QED BY <1>7 DEF q

\* handle_icmp answers an echo request with a packet that carries its data.
LEMMA EchoAnswered ==
  ASSUME NEW p, WellFormed(p), NEW rest \in Seq(Byte), p.data = Summed(<<8, 0>>, rest)
  PROVE  /\ IcmpOutcome(p.data) = None
         /\ WellFormed(EchoReply(p)) /\ EchoReply(p).protocol = ICMP
         /\ ~IcmpMalformed(EchoReply(p).data)
         /\ EchoAnswer(EchoReply(p)) = EchoMeans(p, rest)
<1> DEFINE d == Summed(<<8, 0>>, rest)
           r == Summed(<<0, 0>>, rest)
           k == ChecksumOf(<<8, 0>>, rest)
           e == ChecksumOf(<<0, 0>>, rest)
           q == EchoReply(p)
<1>1. 0 \in Byte /\ 8 \in Byte /\ 0 \in U16
  BY ByteIs, U16Is
<1>2. Even(<<8, 0>>) /\ Even(<<0, 0>>)
  BY <1>1, EchoIs
<1>3. /\ d \in Seq(Byte) /\ k \in U16 /\ InternetChecksum(<<d>>) = 0
      /\ r \in Seq(Byte) /\ e \in U16 /\ InternetChecksum(<<r>>) = 0
  BY <1>2, SummedHolds
<1>4. EchoLaid(d, 8, 0, k, rest) /\ EchoLaid(r, 0, 0, e, rest) /\ At(r, 4, rest)
  BY <1>1, <1>3, EchoIs DEF Summed
<1>5. q = Ipv4New(r, Own, p.source, p.id, ICMP)
  BY EchoReplyIs
<1>6. p.data = d
  OBVIOUS
<1> HIDE DEF d, r, q
<1>7. IcmpOutcome(p.data) = None
  <2>1. ~IcmpMalformed(d)
    BY <1>3 DEF IcmpMalformed
  <2>2. ~IcmpOutOfRange(d)
    BY <2>1, <1>3, IcmpInRange
  <2>3. IsEchoRequest(d)
    BY <1>4 DEF EchoLaid, IsEchoRequest
  <2> QED BY <2>1, <2>2, <2>3, <1>6 DEF IcmpOutcome
<1>8. q \in Ipv4Read
  <2>1. p \in Ipv4Read
    BY WellFormedRead
  <2>2. Len(p.data) >= 4
    BY <1>4, <1>6 DEF EchoLaid
  <2> QED BY <2>1, <2>2, EchoReplyType DEF q
<1>9. WellFormed(q)
  BY <1>3, <1>5, <1>8, NewWellFormed
<1>10. q.protocol = ICMP /\ q.data = r /\ q.source = Own /\ q.dest = p.source /\ q.options = <<>>
  BY <1>5 DEF Ipv4New
<1>11. ~IcmpMalformed(q.data)
  BY <1>3, <1>10 DEF IcmpMalformed
<1>12. SubSeq(r, 5, Len(r)) = rest
  <2> DEFINE n == Len(r)
  <2>1. Spans(4, rest, 5, n)
    BY <1>4 DEF EchoLaid, Spans
  <2> HIDE DEF n
  <2>2. IsSlice(r, 5, n, rest)
    BY <2>1, <1>4, AtCut
  <2> QED BY <2>2 DEF IsSlice, n
<1>13. r[1] = 0
  BY <1>4 DEF EchoLaid
<1>14. EchoAnswer(q) = EchoMeans(p, rest)
  BY <1>10, <1>12, <1>13, Zenon DEF EchoAnswer, EchoMeans
<1> QED BY <1>7, <1>9, <1>10, <1>11, <1>14 DEF q

-----------------------------------------------------------------------------
(* What the handlers get                                                   *)

\* Whether the machine with address mac handles a frame for dst.
Addressed(dst, mac) == dst \in {mac, BroadcastMac}

\* handle_packet gets the ARP packet that was written.
LEMMA ArpFrame ==
  ASSUME NEW a \in ArpPackets, NEW b, NEW dst, Framed(b, dst, ARP, ArpSerialize(a)), NEW mac
  PROVE  /\ HandlePacket(b, mac) = IF Addressed(dst, mac) THEN a ELSE Ignored
         /\ IsArp(b) /\ IsPacket(a)
<1>1. /\ ~(Len(b) < 14) /\ SubSeq(b, 1, 6) = dst /\ EtherType(b) = ARP
      /\ At(Contents(b), 0, ArpSerialize(a))
  BY DEF Framed
<1>2. ArpFromSlice(Contents(b)) = a
  BY <1>1, ArpReads
<1>3. EthernetNew(b) = a
  BY <1>1, <1>2 DEF EthernetNew, ARP, IPV4
<1>4. a \notin {Rejected, Panic, Ignored}
  BY OutcomesApart
<1> QED BY <1>1, <1>3, <1>4 DEF HandlePacket, Addressed, IsArp, IsPacket

\* It gets the IPv4 packet that was written.
LEMMA Ipv4Frame ==
  ASSUME NEW p, WellFormed(p), NEW b, NEW dst, Framed(b, dst, IPV4, Serialize(p)), NEW mac
  PROVE  /\ HandlePacket(b, mac) = IF Addressed(dst, mac) THEN p ELSE Ignored
         /\ ~IsArp(b) /\ IsPacket(p)
<1>1. /\ ~(Len(b) < 14) /\ SubSeq(b, 1, 6) = dst /\ EtherType(b) = IPV4
      /\ At(Contents(b), 0, Serialize(p))
  BY DEF Framed
<1>2. Ipv4FromPacket(Contents(b)) = p
  BY <1>1, Ipv4Reads
<1>3. ARP # IPV4
  BY DEF ARP, IPV4
<1>4. EthernetNew(b) = p
  BY <1>1, <1>2, <1>3 DEF EthernetNew
<1>5. p \notin {Rejected, Panic, Ignored}
  BY OutcomesApart DEF WellFormed
<1> QED BY <1>1, <1>3, <1>4, <1>5 DEF HandlePacket, Addressed, IsArp, IsPacket

\* It gets nothing from a frame of another kind.
LEMMA OtherFrame ==
  ASSUME NEW b, NEW dst, NEW ethertype, ethertype \notin {ARP, IPV4}, NEW body,
         Framed(b, dst, ethertype, body), NEW mac
  PROVE  HandlePacket(b, mac) = Ignored
<1>1. ~(Len(b) < 14) /\ EtherType(b) \notin {ARP, IPV4}
  BY DEF Framed
<1>2. EthernetNew(b) = Ignored
  BY <1>1 DEF EthernetNew
<1> QED BY <1>2 DEF HandlePacket

\* What from_packet has seen of a packet it does not refuse.
LEMMA Accepted ==
  ASSUME NEW c \in Seq(Byte), Ipv4FromPacket(c) # Rejected
  PROVE  /\ c[1] \div 16 = 4 /\ ~(c[1] % 16 < 5) /\ Sized(c, HeaderLen(c), TotalLength(c))
         /\ ~(c[7] * 256 + c[8] >= 32768)
         /\ InternetChecksum(<<SubSeq(Trimmed(c), 1, HeaderLen(c))>>) = 0
         /\ IsCut(Trimmed(c), c, 1, TotalLength(c))
<1> DEFINE packet == Trimmed(c)
           hl == HeaderLen(c)
           tl == TotalLength(c)
<1>1. ~(Len(c) < 20) /\ c[1] \div 16 = 4 /\ ~(c[1] % 16 < 5) /\ ~LengthMismatch(c)
  BY DEF Ipv4FromPacket
<1>2. Sized(c, hl, tl) /\ Len(c) \in Nat
  BY <1>1, Lengths
<1> HIDE DEF hl, tl
<1>3. Within(c, 1, tl)
  BY <1>2 DEF Sized, Within
<1>4. IsCut(packet, c, 1, tl)
  BY <1>3, Cut DEF tl, Trimmed
<1> HIDE DEF packet
<1>5. hl \in Nat /\ tl \in Nat /\ hl >= 20 /\ hl <= tl
  BY <1>2 DEF Sized
<1>6. Len(packet) = tl /\ \A i \in 1 .. tl : packet[i] = c[i]
  <2>1. tl - 1 + 1 = tl /\ \A i \in 1 .. tl : 1 + i - 1 = i
    BY <1>5
  <2> QED BY <2>1, <1>4 DEF IsCut
<1>7. packet[1] = c[1] /\ packet[7] = c[7] /\ packet[8] = c[8]
  <2>1. 1 \in 1 .. tl /\ 7 \in 1 .. tl /\ 8 \in 1 .. tl
    BY <1>5
  <2> QED BY <2>1, <1>6
<1>8. HeaderLen(packet) = hl
  BY <1>7 DEF HeaderLen, hl
<1>9. ~HeaderOutOfRange(packet)
  BY <1>5, <1>6, <1>8 DEF HeaderOutOfRange
<1>10. /\ ~(Be16(packet, 6) >= 32768)
       /\ InternetChecksum(<<SubSeq(packet, 1, HeaderLen(packet))>>) = 0
  BY <1>1, <1>9 DEF Ipv4FromPacket, packet
<1>11. Be16(packet, 6) = c[7] * 256 + c[8]
  <2>1. 6 + 1 = 7 /\ 6 + 2 = 8
    OBVIOUS
  <2> QED BY <2>1, <1>7 DEF Be16
<1>12. InternetChecksum(<<SubSeq(packet, 1, hl)>>) = 0
  BY <1>8, <1>10
<1> QED BY <1>1, <1>2, <1>4, <1>10, <1>11, <1>12 DEF hl, tl, packet

\* A length that a frame with this body does not have, even with its padding.
Beyond(L, body) == L > Len(body) /\ L > MinFrame - 14

\* A packet that is none: of another version, with a header too short or longer than the
\* packet, the reserved flag, a total length beyond the end of the frame, or a checksum
\* that does not hold.
Misshapen(p) ==
  /\ p \in Ipv4Packets
  /\ \/ p.version_ihl \div 16 # 4 \/ p.version_ihl % 16 < 5
     \/ p.total_length < 4 * (p.version_ihl % 16)
     \/ p.flags_frag_offset >= 32768
     \/ Beyond(p.total_length, Serialize(p))
     \/ /\ p.total_length <= Len(Serialize(p))
        /\ InternetChecksum(<<SubSeq(Serialize(p), 1, 4 * (p.version_ihl % 16))>>) # 0

\* b has no room for more than this body and padding.
Fits(b, body) == \A L \in Nat : Beyond(L, body) => L > Len(Contents(b))

\* A packet with such a header is dropped.
LEMMA MisshapenFrame ==
  ASSUME NEW p, Misshapen(p), NEW b, NEW dst, Framed(b, dst, IPV4, Serialize(p)),
         Fits(b, Serialize(p)), NEW mac
  PROVE  HandlePacket(b, mac) = Rejected
<1> DEFINE c == Contents(b)
           s == Serialize(p)
           cs == HeaderSum(p)
           h == Ipv4Header(p, cs)
           hl == HeaderLen(c)
           tl == TotalLength(c)
           x == Trimmed(c)
<1>1. ~(Len(b) < 14) /\ EtherType(b) = IPV4 /\ At(c, 0, s)
  BY DEF Framed
<1>2. p \in Ipv4Packets
  BY DEF Misshapen
<1>3. cs \in U16
  BY <1>2, HeaderSumType
<1>4. HeaderOf(p, cs, h)
  BY <1>2, <1>3, HeaderIs
<1>5. s = h \o p.data /\ p.data \in Seq(Byte)
  BY <1>2, SerializeIs DEF Ipv4Packets
<1>14. (\A L \in Nat : Beyond(L, s) => L > Len(c)) /\ Misshapen(p)
  BY DEF Fits
<1> HIDE DEF c, cs, h
<1>6. /\ h \in Seq(Byte) /\ Len(h) \in Nat /\ Len(h) >= 20
      /\ h[1] = p.version_ihl /\ h[3] * 256 + h[4] = p.total_length
      /\ h[7] * 256 + h[8] = p.flags_frag_offset
  BY <1>4, SMTT(60) DEF HeaderOf
<1>7. At(c, 0, h)
  <2>1. At(h \o p.data, 0, h)
    BY <1>5, <1>6, AtParts
  <2>2. Added(0, 0, 0)
    BY DEF Added
  <2> QED BY <2>1, <2>2, <1>1, <1>5, AtIn
<1>8. c[1] = h[1] /\ c[3] = h[3] /\ c[4] = h[4] /\ c[7] = h[7] /\ c[8] = h[8]
  <2>1. \A i \in 1 .. Len(h) : c[0 + i] = h[i]
    BY <1>7 DEF At
  <2>2. /\ 1 \in 1 .. Len(h) /\ 3 \in 1 .. Len(h) /\ 4 \in 1 .. Len(h)
        /\ 7 \in 1 .. Len(h) /\ 8 \in 1 .. Len(h)
    BY <1>6
  <2>3. 0 + 1 = 1 /\ 0 + 3 = 3 /\ 0 + 4 = 4 /\ 0 + 7 = 7 /\ 0 + 8 = 8
    OBVIOUS
  <2> QED BY <2>1, <2>2, <2>3
<1>9. hl = 4 * (p.version_ihl % 16) /\ tl = p.total_length
  <2>1. 2 + 1 = 3 /\ 2 + 2 = 4
    OBVIOUS
  <2> QED BY <2>1, <1>6, <1>8 DEF HeaderLen, TotalLength, Be16
<1> HIDE DEF s
<1>10. ASSUME Ipv4FromPacket(c) # Rejected PROVE FALSE
  <2>0. c \in Seq(Byte) /\ s \in Seq(Byte) /\ Len(s) \in Nat /\ Len(c) \in Nat
    BY <1>1, LenProperties DEF At
  <2>1. /\ c[1] \div 16 = 4 /\ ~(c[1] % 16 < 5) /\ Sized(c, hl, tl)
        /\ ~(c[7] * 256 + c[8] >= 32768)
        /\ InternetChecksum(<<SubSeq(x, 1, hl)>>) = 0 /\ IsCut(x, c, 1, tl)
    BY <1>10, <2>0, Accepted
  <2> HIDE DEF x, hl, tl
  <2>2. /\ ~(p.version_ihl \div 16 # 4) /\ ~(p.version_ihl % 16 < 5)
        /\ ~(p.flags_frag_offset >= 32768)
    BY <2>1, <1>6, <1>8
  <2>3. hl \in Nat /\ tl \in Nat /\ hl >= 20 /\ hl <= tl /\ tl <= Len(c)
    BY <2>1 DEF Sized
  <2>4. ~(p.total_length < 4 * (p.version_ihl % 16))
    <3>1. ~(tl < hl)
      BY <2>3
    <3> QED BY <3>1, <1>9
  <2>5. ~Beyond(p.total_length, s)
    <3>1. ~(tl > Len(c))
      BY <2>0, <2>3
    <3> QED BY <3>1, <2>3, <1>9, <1>14
  <2>6. /\ p.total_length <= Len(s)
        /\ InternetChecksum(<<SubSeq(s, 1, 4 * (p.version_ihl % 16))>>) # 0
    BY <2>2, <2>4, <2>5, <1>14 DEF Misshapen, s
  <2>7. tl <= Len(s) /\ InternetChecksum(<<SubSeq(s, 1, hl)>>) # 0
    BY <2>6, <1>9
  <2>8. SubSeq(s, 1, hl) = SubSeq(x, 1, hl)
    <3>1. x \in Seq(Byte) /\ Len(x) = tl /\ \A i \in 1 .. tl : x[i] = c[i]
      <4>1. tl - 1 + 1 = tl /\ \A i \in 1 .. tl : 1 + i - 1 = i
        BY <2>3
      <4> QED BY <4>1, <2>1 DEF IsCut
    <3>2. Within(s, 1, hl) /\ Within(x, 1, hl)
      BY <2>0, <2>3, <2>7, <3>1 DEF Within
    <3> DEFINE u == SubSeq(s, 1, hl)
               v == SubSeq(x, 1, hl)
    <3>3. IsCut(u, s, 1, hl) /\ IsCut(v, x, 1, hl)
      BY <3>2, Cut
    <3> HIDE DEF u, v
    <3>4. hl - 1 + 1 = hl /\ \A i \in 1 .. hl : 1 + i - 1 = i
      BY <2>3
    <3>5. /\ u \in Seq(Byte) /\ Len(u) = hl /\ v \in Seq(Byte) /\ Len(v) = hl
          /\ \A i \in 1 .. hl : u[i] = s[i] /\ v[i] = x[i]
      BY <3>3, <3>4 DEF IsCut
    <3>6. ASSUME NEW i \in 1 .. hl PROVE u[i] = v[i]
      <4>1. i \in 1 .. tl /\ i \in 1 .. Len(s) /\ 0 + i = i
        BY <2>0, <2>3, <2>7
      <4>2. c[0 + i] = s[i]
        BY <4>1, <1>1 DEF At
      <4> QED BY <4>1, <4>2, <3>1, <3>5
    <3>7. u = v
      BY <3>5, <3>6, SeqEqual
    <3> QED BY <3>7 DEF u, v
  <2>9. InternetChecksum(<<SubSeq(x, 1, hl)>>) = 0
    BY <2>1
  <2>10. InternetChecksum(<<SubSeq(s, 1, hl)>>) # 0
    BY <2>7
  <2> QED BY <2>8, <2>9, <2>10, Zenon
<1>11. Ipv4FromPacket(c) = Rejected
  BY <1>10
<1>12. EthernetNew(b) = Rejected
  BY <1>1, <1>11 DEF EthernetNew, ARP, IPV4, c
<1> QED BY <1>12 DEF HandlePacket

\* An ARP packet of which a fixed field or the operation is another.
MisshapenArp(body) ==
  /\ body \in Seq(Byte) /\ Len(body) >= 8
  /\ Be16(body, 6) \notin {REQUEST, REPLY} \/ \E i \in 1 .. 6 : body[i] # ArpFormat[i]

\* Such a packet is dropped.
LEMMA MisshapenArpFrame ==
  ASSUME NEW body, MisshapenArp(body), NEW b, NEW dst, Framed(b, dst, ARP, body), NEW mac
  PROVE  HandlePacket(b, mac) = Rejected
<1> DEFINE c == Contents(b)
<1>1. ~(Len(b) < 14) /\ EtherType(b) = ARP /\ At(c, 0, body)
  BY DEF Framed
<1> HIDE DEF c
<1>2. /\ body \in Seq(Byte) /\ Len(body) \in Nat /\ Len(body) >= 8
      /\ c \in Seq(Byte) /\ Len(c) \in Nat /\ Len(body) <= Len(c)
      /\ \A i \in 1 .. Len(body) : c[0 + i] = body[i]
  <2>1. 0 + Len(body) <= Len(c) /\ body \in Seq(Byte) /\ c \in Seq(Byte)
    BY <1>1 DEF At
  <2>2. Len(body) \in Nat /\ Len(c) \in Nat
    BY <2>1, LenProperties
  <2>3. Len(body) <= Len(c)
    BY <2>1, <2>2
  <2> QED BY <2>1, <2>2, <2>3, <1>1 DEF At, MisshapenArp
<1>3. \A i \in 1 .. 8 : c[i] = body[i]
  <2>1. \A i \in 1 .. 8 : i \in 1 .. Len(body) /\ 0 + i = i
    BY <1>2
  <2> QED BY <2>1, <1>2
<1>4. Be16(c, 6) = Be16(body, 6)
  <2>1. 6 + 1 = 7 /\ 6 + 2 = 8 /\ 7 \in 1 .. 8 /\ 8 \in 1 .. 8
    OBVIOUS
  <2> QED BY <2>1, <1>3 DEF Be16
<1>5. ASSUME NEW i \in 1 .. 6, body[i] # ArpFormat[i] PROVE SubSeq(c, 1, 6) # ArpFormat
  <2> DEFINE s == SubSeq(c, 1, 6)
  <2>1. Within(c, 1, 6)
    BY <1>2 DEF Within
  <2>2. IsCut(s, c, 1, 6)
    BY <2>1, Cut
  <2> HIDE DEF s
  <2>3. i \in 1 .. 6 - 1 + 1 /\ 1 + i - 1 = i /\ i \in 1 .. 8
    OBVIOUS
  <2>4. s[i] = body[i]
    BY <2>2, <2>3, <1>3 DEF IsCut
  <2> QED BY <2>4, <1>5 DEF s
<1>6. ArpFromSlice(c) = Rejected
  BY <1>4, <1>5 DEF MisshapenArp, ArpFromSlice
<1>7. EthernetNew(b) = Rejected
  BY <1>1, <1>6 DEF EthernetNew, ARP, IPV4, c
<1> QED BY <1>7 DEF HandlePacket

\* A datagram that is too short, has another length than it says, or a checksum that does
\* not hold, and an ICMP message whose checksum does not hold.
Refused(p) ==
  \/ /\ p.protocol = UDP
     /\ \/ Len(p.data) < 8 \/ Be16(p.data, 4) # Len(p.data)
        \/ /\ Be16(p.data, 6) # 0
           /\ InternetChecksum(PseudoHeader(p.source, p.dest, Len(p.data)) \o <<p.data>>) # 0
  \/ p.protocol = ICMP /\ IcmpMalformed(p.data)

\* handle_udp and handle_icmp drop it.
LEMMA RefusedOutcome ==
  ASSUME NEW p, Refused(p)
  PROVE  \/ p.protocol = UDP /\ UdpFromPacket(p) = Rejected
         \/ p.protocol = ICMP /\ IcmpOutcome(p.data) = Rejected
<1>1. CASE p.protocol = ICMP /\ IcmpMalformed(p.data)
  BY <1>1 DEF IcmpOutcome
<1>2. CASE ~(p.protocol = ICMP /\ IcmpMalformed(p.data))
  <2>1. p.protocol = UDP
    BY <1>2 DEF Refused
  <2>2. UdpFromPacket(p) = Rejected
    BY <1>2, Zenon DEF Refused, UdpFromPacket
  <2> QED BY <2>1, <2>2
<1> QED BY <1>1, <1>2
\* What HostReceive makes of a frame.
HostReads(b) ==
  LET p == HandlePacket(b, HostMac) IN
  CASE ~IsPacket(p) \/ IsArp(b) -> p
    [] OTHER -> CASE p.protocol = UDP -> UdpFromPacket(p)
                  [] p.protocol = ICMP /\ ~IcmpMalformed(p.data) -> EchoAnswer(p)
                  [] OTHER -> Rejected

\* The host reads the ARP packet this machine sent.
LEMMA HostReadsArp ==
  ASSUME NEW a \in ArpPackets, NEW dst \in Mac, Addressed(dst, HostMac)
  PROVE  HostReads(Frame(dst, OwnMac, ARP, ArpSerialize(a))) = a
<1> DEFINE b == Frame(dst, OwnMac, ARP, ArpSerialize(a))
<1>1. ArpSerialize(a) \in Seq(Byte) /\ OwnMac \in Mac /\ ARP \in U16
  BY ArpSerializeType, CodecAssumption, U16Is DEF ARP
<1>2. Framed(b, dst, ARP, ArpSerialize(a))
  BY <1>1, FrameHolds
<1> HIDE DEF b
<1>3. HandlePacket(b, HostMac) = a /\ IsArp(b)
  BY <1>2, ArpFrame
<1>4. HostReads(b) = a
  BY <1>3 DEF HostReads
<1> QED BY <1>4 DEF b

\* The same for an IPv4 packet.
LEMMA HostReadsIpv4 ==
  ASSUME NEW p, WellFormed(p), NEW dst \in Mac, Addressed(dst, HostMac)
  PROVE  LET b == Frame(dst, OwnMac, IPV4, Serialize(p)) IN
         /\ p.protocol = UDP => HostReads(b) = UdpFromPacket(p)
         /\ p.protocol = ICMP /\ ~IcmpMalformed(p.data) => HostReads(b) = EchoAnswer(p)
<1> DEFINE b == Frame(dst, OwnMac, IPV4, Serialize(p))
<1>0. p \in Ipv4Packets /\ UDP # ICMP
  BY DEF WellFormed, UDP, ICMP
<1>1. Serialize(p) \in Seq(Byte)
  BY <1>0, SerializeType
<1>2. OwnMac \in Mac /\ IPV4 \in U16
  BY CodecAssumption, U16Is DEF IPV4
<1>3. Framed(b, dst, IPV4, Serialize(p))
  BY <1>1, <1>2, FrameHolds
<1> HIDE DEF b
<1>4. HandlePacket(b, HostMac) = p /\ ~IsArp(b) /\ IsPacket(p)
  BY <1>3, Ipv4Frame
<1>5. p.protocol = UDP => HostReads(b) = UdpFromPacket(p)
  BY <1>0, <1>4 DEF HostReads
<1>6. p.protocol = ICMP /\ ~IcmpMalformed(p.data) => HostReads(b) = EchoAnswer(p)
  BY <1>0, <1>4 DEF HostReads
<1> QED BY <1>5, <1>6 DEF b

-----------------------------------------------------------------------------
(* Frames of hosts, and what is to become of them                          *)

\* An ARP packet and what is to become of it.
MeansArp(h, a) ==
  /\ h.ethertype = ARP /\ h.body = ArpSerialize(a)
  /\ IF ~Addressed(h.dst, OwnMac) THEN h.meant = Ignored
     ELSE IF a.operation = REQUEST /\ a.target_addr = Own
     THEN /\ a.sender_mac = HostMac
          /\ h.meant = ArpNew(REPLY, OwnMac, Own, HostMac, a.sender_addr)
     ELSE h.meant = IF a.sender_mac = OwnMac THEN Ignored
                    ELSE [ip |-> a.sender_addr, mac |-> a.sender_mac]

\* A packet that handle_ipv4 goes on with.
Handled(h, p) == Addressed(h.dst, OwnMac) /\ ~IsFragment(p) /\ ForUs(p)

\* The data of an IPv4 packet and what is to become of it: a datagram with a checksum
\* or none, an echo request, and another ICMP message.
MeansDatagram(h, p) ==
  \E source_port \in U16, dest_port \in U16, data \in UdpData :
    /\ \/ p.data = SerializeUdp(source_port, dest_port, data, p.source, p.dest)
       \/ p.data = UdpBytes(source_port, dest_port, 0, data)
    /\ h.meant = Datagram(source_port, dest_port, data)

\* An echo request.
MeansEcho(h, p) ==
  \E rest \in Seq(Byte) :
    p.data = Summed(<<8, 0>>, rest) /\ h.meant = EchoMeans(p, rest)

\* Another ICMP message, as it is written or with whatever makes its checksum hold.
OtherWritten(data) ==
  \E x \in Byte, y \in Byte, rest \in Seq(Byte) :
    (x # 8 \/ y # 0) /\ data = Summed(<<x, y>>, rest)

MeansNothing(h, p) ==
  /\ \/ OtherWritten(p.data)
     \/ p.data \in Seq(Byte) /\ ~IcmpMalformed(p.data) /\ ~IsEchoRequest(p.data)
  /\ h.meant = Ignored

\* An IPv4 packet and what is to become of it.
MeansIpv4(h, p) ==
  /\ h.ethertype = IPV4 /\ h.body = Serialize(p)
  /\ \/ Misshapen(p) /\ h.meant = Rejected
     \/ WellFormed(p) /\ Handled(h, p) /\ Refused(p) /\ h.meant = Rejected
     \/ /\ WellFormed(p)
        /\ \/ /\ ~Handled(h, p) \/ p.protocol \notin {ICMP, UDP}
              /\ h.meant = Ignored
           \/ Handled(h, p) /\ p.protocol = UDP /\ MeansDatagram(h, p)
           \/ Handled(h, p) /\ p.protocol = ICMP /\ (MeansEcho(h, p) \/ MeansNothing(h, p))

\* What h is to become is what its sender wrote, by the formats, or nothing where it
\* breaks them.
KeepsFormat(h) ==
  \/ h.ethertype \notin {ARP, IPV4} /\ h.meant = Ignored
  \/ h.ethertype = ARP /\ MisshapenArp(h.body) /\ h.meant = Rejected
  \/ \E a \in ArpPackets : MeansArp(h, a)
  \/ \E p \in Ipv4Packets : MeansIpv4(h, p)

\* A step that delivers what is on the wire, or answers it with a frame from which the
\* host makes what it is to make.
Delivers ==
  /\ damage' = damage /\ meant' = meant
  /\ \/ state' = "done" /\ received' = meant
     \/ state' = "out" /\ HostReads(wire') = meant

\* To finish with what was meant is to deliver it.
LEMMA FinishDelivers ==
  ASSUME Finish(meant)
  PROVE  Delivers
BY DEF Finish, Delivers

\* What handle_arp does with an ARP packet is what it is to become.
LEMMA ArpDelivered ==
  ASSUME NEW h, NEW a \in ArpPackets, MeansArp(h, a), Receive, meant = h.meant,
         Framed(wire, h.dst, ARP, ArpSerialize(a))
  PROVE  Delivers
<1>1. /\ Incoming = IF Addressed(h.dst, OwnMac) THEN a ELSE Ignored
      /\ IsArp(wire) /\ IsPacket(a) /\ ~IsPacket(Ignored)
  BY ArpFrame DEF Incoming, IsPacket
<1>2. CASE ~Addressed(h.dst, OwnMac)
  <2>1. Incoming = Ignored /\ meant = Ignored
    BY <1>1, <1>2 DEF MeansArp
  <2>2. Finish(Ignored)
    BY <1>1, <2>1 DEF Receive, ReceiveBad, ReceiveArp, ReceiveOther, ReceiveUdp, ReceiveIcmp
  <2> QED BY <2>1, <2>2, FinishDelivers
<1>3. CASE Addressed(h.dst, OwnMac)
  <2>1. Incoming = a
    BY <1>1, <1>3
  <2>2. ReceiveArp
    BY <1>1, <2>1 DEF Receive, ReceiveBad, ReceiveOther, ReceiveUdp, ReceiveIcmp
  <2>3. CASE a.operation = REQUEST /\ a.target_addr = Own
    <3> DEFINE r == ArpNew(REPLY, OwnMac, Own, a.sender_mac, a.sender_addr)
    <3>1. Answer(a.sender_mac, ARP, ArpSerialize(r))
      BY <2>1, <2>2, <2>3 DEF ReceiveArp
    <3>2. a.sender_mac = HostMac /\ meant = r
      BY <1>3, <2>3 DEF MeansArp
    <3>3. r \in ArpPackets
      BY CodecAssumption DEF ArpPackets, ArpNew
    <3>4. HostMac \in Mac /\ Addressed(HostMac, HostMac)
      BY CodecAssumption DEF Addressed
    <3> HIDE DEF r
    <3>5. HostReads(Frame(HostMac, OwnMac, ARP, ArpSerialize(r))) = r
      BY <3>3, <3>4, HostReadsArp
    <3> QED BY <3>1, <3>2, <3>5 DEF Answer, Delivers
  <2>4. CASE ~(a.operation = REQUEST /\ a.target_addr = Own)
    <3>1. Finish(Learned(a))
      BY <2>1, <2>2, <2>4 DEF ReceiveArp
    <3>2. meant = Learned(a)
      BY <1>3, <2>4 DEF MeansArp, Learned
    <3> QED BY <3>1, <3>2, FinishDelivers
  <2> QED BY <2>3, <2>4
<1> QED BY <1>2, <1>3

\* A datagram of a host is what its sender put in.
LEMMA DatagramRead ==
  ASSUME NEW h, NEW p, WellFormed(p), MeansDatagram(h, p)
  PROVE  UdpFromPacket(p) = h.meant
<1>1. PICK source_port \in U16, dest_port \in U16, data \in UdpData :
        /\ \/ p.data = SerializeUdp(source_port, dest_port, data, p.source, p.dest)
           \/ p.data = UdpBytes(source_port, dest_port, 0, data)
        /\ h.meant = Datagram(source_port, dest_port, data)
  BY DEF MeansDatagram
<1> DEFINE w == UdpSum(p.source, p.dest, source_port, dest_port, data)
<1>2. p.source \in Ip /\ p.dest \in Ip /\ 0 \in U16
  BY U16Is, SMTT(60) DEF WellFormed, Ipv4Packets
<1>3. w \in U16
  BY <1>2, UdpPartsType
<1>4. SerializeUdp(source_port, dest_port, data, p.source, p.dest)
        = UdpBytes(source_port, dest_port, w, data)
  BY <1>2, SerializeUdpIs, ZenonT(60) DEF UdpWritten, UdpBytes
<1> HIDE DEF w
<1>5. CASE p.data = UdpBytes(source_port, dest_port, w, data)
  <2>1. UdpFromPacket(p) = Datagram(source_port, dest_port, data)
    BY <1>3, <1>5, UdpReads DEF w
  <2> QED BY <2>1, <1>1
<1>6. CASE p.data = UdpBytes(source_port, dest_port, 0, data)
  <2>1. UdpFromPacket(p) = Datagram(source_port, dest_port, data)
    BY <1>2, <1>6, UdpReads
  <2> QED BY <2>1, <1>1
<1> QED BY <1>1, <1>4, <1>5, <1>6

\* A message with its checksum is well formed.
LEMMA OtherHolds ==
  ASSUME NEW data, OtherWritten(data)
  PROVE  data \in Seq(Byte) /\ ~IcmpMalformed(data) /\ ~IsEchoRequest(data)
<1>1. PICK x \in Byte, y \in Byte, rest \in Seq(Byte) :
        (x # 8 \/ y # 0) /\ data = Summed(<<x, y>>, rest)
  BY DEF OtherWritten
<1> DEFINE a == <<x, y>>
           k == ChecksumOf(a, rest)
<1>2. 0 \in U16
  BY U16Is
<1>3. Even(a)
  BY <1>2, EchoIs
<1>4. data \in Seq(Byte) /\ k \in U16 /\ InternetChecksum(<<data>>) = 0
  <2> HIDE DEF a
  <2> QED BY <1>1, <1>3, SummedHolds DEF a
<1>5. EchoLaid(data, x, y, k, rest)
  <2>1. EchoLaid(Message(<<x, y>>, k, rest), x, y, k, rest)
    BY <1>4, EchoIs
  <2> QED BY <2>1, <1>1 DEF Summed
<1> HIDE DEF k, a
<1>6. ~IcmpMalformed(data)
  BY <1>4 DEF IcmpMalformed
<1>7. ~IsEchoRequest(data)
  BY <1>1, <1>5 DEF EchoLaid, IsEchoRequest
<1> QED BY <1>4, <1>6, <1>7

\* Another ICMP message is left alone.
LEMMA NothingRead ==
  ASSUME NEW h, NEW p, MeansNothing(h, p)
  PROVE  IcmpOutcome(p.data) = Ignored /\ h.meant = Ignored
<1>1. p.data \in Seq(Byte) /\ ~IcmpMalformed(p.data) /\ ~IsEchoRequest(p.data)
  BY OtherHolds DEF MeansNothing
<1>2. ~IcmpOutOfRange(p.data)
  BY <1>1, IcmpInRange
<1> QED BY <1>1, <1>2 DEF IcmpOutcome, MeansNothing

\* So is what handle_ipv4 does with an IPv4 packet.
LEMMA Ipv4Delivered ==
  ASSUME NEW h, NEW p, MeansIpv4(h, p), Receive, meant = h.meant,
         Framed(wire, h.dst, IPV4, Serialize(p)), Fits(wire, Serialize(p))
  PROVE  Delivers
<1>0. ~IsPacket(Ignored) /\ ~IsPacket(Rejected) /\ UDP # ICMP
  BY DEF IsPacket, UDP, ICMP
<1>1. CASE Misshapen(p) /\ h.meant = Rejected
  <2>1. Incoming = Rejected
    BY <1>1, MisshapenFrame DEF Incoming
  <2>2. Finish(Rejected)
    BY <1>0, <2>1 DEF Receive, ReceiveBad, ReceiveArp, ReceiveOther, ReceiveUdp, ReceiveIcmp
  <2>3. Finish(meant)
    BY <1>1, <2>2
  <2> QED BY <2>3, FinishDelivers
<1>2. CASE WellFormed(p)
  <2>1. /\ Incoming = IF Addressed(h.dst, OwnMac) THEN p ELSE Ignored
        /\ ~IsArp(wire) /\ IsPacket(p)
    BY <1>2, Ipv4Frame DEF Incoming
  <2>2. CASE ~Addressed(h.dst, OwnMac) /\ h.meant = Ignored
    <3>1. Finish(Ignored)
      BY <1>0, <2>1, <2>2
      DEF Receive, ReceiveBad, ReceiveArp, ReceiveOther, ReceiveUdp, ReceiveIcmp
    <3>2. Finish(meant)
      BY <2>2, <3>1
    <3> QED BY <3>2, FinishDelivers
  <2>3. CASE /\ Addressed(h.dst, OwnMac) /\ h.meant = Ignored
             /\ IsFragment(p) \/ ~ForUs(p) \/ p.protocol \notin {ICMP, UDP}
    <3>1. Incoming = p
      BY <2>1, <2>3
    <3>2. ReceiveOther
      BY <2>1, <2>3, <3>1 DEF Receive, ReceiveBad, ReceiveArp, ReceiveUdp, ReceiveIcmp
    <3>3. Finish(meant)
      BY <2>3, <3>2 DEF ReceiveOther
    <3> QED BY <3>3, FinishDelivers
  <2>4. CASE Handled(h, p) /\ p.protocol = UDP /\ MeansDatagram(h, p)
    <3>1. Incoming = p /\ ~IsFragment(p) /\ ForUs(p)
      BY <2>1, <2>4 DEF Handled
    <3>2. ReceiveUdp
      BY <1>0, <2>1, <2>4, <3>1 DEF Receive, ReceiveBad, ReceiveArp, ReceiveOther, ReceiveIcmp
    <3>3. Finish(UdpFromPacket(p))
      BY <3>1, <3>2 DEF ReceiveUdp
    <3>4. UdpFromPacket(p) = meant
      BY <1>2, <2>4, DatagramRead
    <3> QED BY <3>3, <3>4, FinishDelivers
  <2>5. CASE Handled(h, p) /\ p.protocol = ICMP /\ (MeansEcho(h, p) \/ MeansNothing(h, p))
    <3>1. Incoming = p /\ ~IsFragment(p) /\ ForUs(p)
      BY <2>1, <2>5 DEF Handled
    <3>2. ReceiveIcmp
      BY <1>0, <2>1, <2>5, <3>1 DEF Receive, ReceiveBad, ReceiveArp, ReceiveOther, ReceiveUdp
    <3>3. CASE MeansNothing(h, p)
      <4>1. IcmpOutcome(p.data) = Ignored /\ meant = Ignored
        BY <3>3, NothingRead
      <4>2. Ignored # None
        BY OutcomesApart
      <4>3. Finish(Ignored)
        BY <3>1, <3>2, <4>1, <4>2 DEF ReceiveIcmp
      <4> QED BY <4>1, <4>3, FinishDelivers
    <3>4. CASE MeansEcho(h, p)
      <4>1. PICK rest \in Seq(Byte) : p.data = Summed(<<8, 0>>, rest) /\ meant = EchoMeans(p, rest)
        BY <3>4 DEF MeansEcho
      <4> DEFINE q == EchoReply(p)
      <4>2. /\ IcmpOutcome(p.data) = None /\ WellFormed(q) /\ q.protocol = ICMP
            /\ ~IcmpMalformed(q.data) /\ EchoAnswer(q) = EchoMeans(p, rest)
        BY <1>2, <4>1, EchoAnswered
      <4>3. Answer(HostMac, IPV4, Serialize(q))
        BY <3>1, <3>2, <4>2 DEF ReceiveIcmp
      <4> HIDE DEF q
      <4>4. HostMac \in Mac /\ Addressed(HostMac, HostMac)
        BY CodecAssumption DEF Addressed
      <4>5. HostReads(Frame(HostMac, OwnMac, IPV4, Serialize(q))) = EchoAnswer(q)
        BY <4>2, <4>4, HostReadsIpv4
      <4> QED BY <4>1, <4>2, <4>3, <4>5 DEF Answer, Delivers
    <3> QED BY <2>5, <3>3, <3>4
  <2>6. CASE Handled(h, p) /\ Refused(p) /\ h.meant = Rejected
    <3>1. Incoming = p /\ ~IsFragment(p) /\ ForUs(p) /\ None # Rejected
      BY <2>1, <2>6, OutcomesApart DEF Handled
    <3>2. CASE p.protocol = UDP /\ UdpFromPacket(p) = Rejected
      <4>1. ReceiveUdp
        BY <1>0, <2>1, <3>1, <3>2
        DEF Receive, ReceiveBad, ReceiveArp, ReceiveOther, ReceiveIcmp
      <4>2. Finish(Rejected)
        BY <3>1, <3>2, <4>1 DEF ReceiveUdp
      <4> QED BY <2>6, <4>2, FinishDelivers
    <3>3. CASE p.protocol = ICMP /\ IcmpOutcome(p.data) = Rejected
      <4>1. ReceiveIcmp
        BY <1>0, <2>1, <3>1, <3>3
        DEF Receive, ReceiveBad, ReceiveArp, ReceiveOther, ReceiveUdp
      <4>2. Finish(Rejected)
        BY <3>1, <3>3, <4>1 DEF ReceiveIcmp
      <4> QED BY <2>6, <4>2, FinishDelivers
    <3> QED BY <2>6, <3>2, <3>3, RefusedOutcome
  <2> QED BY <1>2, <2>2, <2>3, <2>4, <2>5, <2>6, <1>1 DEF MeansIpv4, Handled
<1> QED BY <1>1, <1>2 DEF MeansIpv4

-----------------------------------------------------------------------------
(* A frame the link left alone                                             *)

\* What is on the wire of a frame no byte of which was changed: what a host sent, or
\* what tells the host that reads it what it is to.
OnTheWay ==
  /\ state = "in"  =>
       \E h \in HostFrames :
         meant = h.meant /\ wire = Frame(h.dst, HostMac, h.ethertype, h.body)
  /\ state = "out" => HostReads(wire) = meant

\* The inductive invariant of IntactArrives: a changed frame is counted, and one that was
\* not changed is on its way or delivered.
IntactInv == damage \in Nat /\ (damage = 0 => OnTheWay) /\ IntactDelivered

\* What this machine or a host sends reads back as what was meant.
LEMMA SendIntact ==
  ASSUME Send
  PROVE  IntactInv'
<1>1. /\ BroadcastMac \in Mac /\ BROADCAST \in Ip /\ UNSPECIFIED \in Ip
      /\ UDP \in Byte /\ CLIENT_PORT \in U16 /\ SERVER_PORT \in U16
      /\ [i \in 1 .. 6 |-> 0] \in Mac /\ Addressed(BroadcastMac, HostMac)
  <2>1. 0 \in Byte /\ 255 \in Byte /\ 17 \in Byte
    BY ByteIs
  <2>2. 67 \in U16 /\ 68 \in U16
    BY U16Is
  <2>3. <<255, 255, 255, 255>> \in Ip /\ <<0, 0, 0, 0>> \in Ip
    BY <2>1 DEF Ip
  <2>4. BroadcastMac \in Mac /\ [i \in 1 .. 6 |-> 0] \in Mac
    BY <2>1 DEF Mac, BroadcastMac
  <2> QED BY <2>1, <2>2, <2>3, <2>4
          DEF BROADCAST, UNSPECIFIED, UDP, CLIENT_PORT, SERVER_PORT, Addressed
<1>2. ASSUME NEW b, Transmit("out", b), HostReads(b) = meant' PROVE IntactInv'
  <2>1. state' = "out" /\ wire' = b /\ damage' = 0
    BY <1>2 DEF Transmit
  <2>2. HostReads(wire)' = meant'
    BY <1>2, <2>1 DEF HostReads, HandlePacket, IsArp
  <2> QED BY <2>1, <2>2 DEF IntactInv, OnTheWay, IntactDelivered
<1>3. ASSUME NEW msg \in Payload, NEW id \in Id, SendDhcp(msg, id) PROVE IntactInv'
  <2> DEFINE u == SerializeUdp(CLIENT_PORT, SERVER_PORT, msg, UNSPECIFIED, BROADCAST)
             p == Ipv4New(u, UNSPECIFIED, BROADCAST, id, UDP)
             h == [meant |-> Datagram(CLIENT_PORT, SERVER_PORT, msg)]
  <2>1. msg \in UdpData /\ id \in U16
    BY CodecAssumption DEF UdpData
  <2>2. u \in Seq(Byte) /\ Len(u) = 8 + Len(msg)
    BY <1>1, <2>1, SerializeUdpIs DEF UdpWritten
  <2>3. Len(u) <= 65515
    <3>1. Len(msg) \in Nat /\ Len(msg) <= 65507
      BY <2>1 DEF UdpData
    <3> HIDE DEF u
    <3> QED BY <3>1, <2>2
  <2>4. WellFormed(p)
    <3> HIDE DEF u
    <3>1. p \in Ipv4Read
      BY <1>1, <2>1, <2>2, <2>3, Ipv4NewType
    <3> QED BY <2>2, <3>1, NewWellFormed
  <2>5. p.source = UNSPECIFIED /\ p.dest = BROADCAST /\ p.data = u /\ p.protocol = UDP
    BY DEF Ipv4New
  <2>6. MeansDatagram(h, p)
    <3>1. p.data = SerializeUdp(CLIENT_PORT, SERVER_PORT, msg, p.source, p.dest)
      BY <2>5, Zenon
    <3>2. h.meant = Datagram(CLIENT_PORT, SERVER_PORT, msg)
      OBVIOUS
    <3> HIDE DEF p, u, h
    <3> QED BY <1>1, <2>1, <3>1, <3>2 DEF MeansDatagram
  <2>7. UdpFromPacket(p) = h.meant
    BY <2>4, <2>6, DatagramRead
  <2>8. Transmit("out", Frame(BroadcastMac, OwnMac, IPV4, Serialize(p))) /\ meant' = h.meant
    BY <1>3 DEF SendDhcp
  <2> HIDE DEF p, h
  <2>9. HostReads(Frame(BroadcastMac, OwnMac, IPV4, Serialize(p))) = UdpFromPacket(p)
    BY <1>1, <2>4, <2>5, HostReadsIpv4
  <2> QED BY <1>2, <2>7, <2>8, <2>9
<1>4. ASSUME NEW target \in Target, SendArpRequest(target) PROVE IntactInv'
  <2> DEFINE r == ArpNew(REQUEST, OwnMac, Own, [i \in 1 .. 6 |-> 0], target)
  <2>1. r \in ArpPackets
    BY <1>1, CodecAssumption DEF ArpNew, ArpPackets
  <2>2. Transmit("out", Frame(BroadcastMac, OwnMac, ARP, ArpSerialize(r))) /\ meant' = r
    BY <1>4 DEF SendArpRequest
  <2> HIDE DEF r
  <2>3. HostReads(Frame(BroadcastMac, OwnMac, ARP, ArpSerialize(r))) = r
    BY <1>1, <2>1, HostReadsArp
  <2> QED BY <1>2, <2>2, <2>3
<1>5. ASSUME NEW h \in HostFrames, HostSend(h) PROVE IntactInv'
  <2>1. /\ state' = "in" /\ wire' = Frame(h.dst, HostMac, h.ethertype, h.body)
        /\ damage' = 0 /\ meant' = h.meant
    BY <1>5 DEF HostSend, Transmit
  <2> QED BY <2>1 DEF IntactInv, OnTheWay, IntactDelivered
<1> QED BY <1>3, <1>4, <1>5 DEF Send

\* A frame the link changed is not intact.
LEMMA LinkIntact ==
  ASSUME IntactInv, Link
  PROVE  IntactInv'
<1>1. damage \in Nat /\ damage' = damage + 1
  BY DEF Link, Damage, Truncate, IntactInv
<1>2. damage' \in Nat /\ damage' # 0
  BY <1>1
<1> QED BY <1>2 DEF IntactInv, IntactDelivered

\* What this machine makes of an intact frame, or answers, is what was meant.
LEMMA ReceiveIntact ==
  ASSUME IntactInv, Receive, \A h \in HostFrames : KeepsFormat(h)
  PROVE  IntactInv'
<1>1. damage' = damage /\ damage \in Nat /\ state = "in"
  BY DEF Receive, ReceiveBad, ReceiveArp, ReceiveOther, ReceiveUdp, ReceiveIcmp,
         Finish, Answer, IntactInv
<1>2. CASE damage # 0
  BY <1>1, <1>2 DEF IntactInv, IntactDelivered
<1>3. CASE damage = 0
  <2>1. PICK h \in HostFrames : /\ meant = h.meant
                               /\ wire = Frame(h.dst, HostMac, h.ethertype, h.body)
    BY <1>1, <1>3 DEF IntactInv, OnTheWay
  <2>2. h.dst \in Mac /\ h.ethertype \in U16 /\ h.body \in Seq(Byte) /\ HostMac \in Mac
    BY CodecAssumption
  <2>3. Framed(wire, h.dst, h.ethertype, h.body)
    BY <2>1, <2>2, FrameHolds
  <2>4. Delivers
    <3>1. CASE h.ethertype \notin {ARP, IPV4} /\ h.meant = Ignored
      <4>1. Incoming = Ignored /\ ~IsPacket(Ignored)
        BY <2>3, <3>1, OtherFrame DEF Incoming, IsPacket
      <4>2. Finish(Ignored)
        BY <4>1 DEF Receive, ReceiveBad, ReceiveArp, ReceiveOther, ReceiveUdp, ReceiveIcmp
      <4>3. Finish(meant)
        BY <2>1, <3>1, <4>2
      <4> QED BY <4>3, FinishDelivers
    <3>2. ASSUME NEW a \in ArpPackets, MeansArp(h, a) PROVE Delivers
      <4>1. h.ethertype = ARP /\ h.body = ArpSerialize(a)
        BY <3>2 DEF MeansArp
      <4>2. Framed(wire, h.dst, ARP, ArpSerialize(a))
        BY <2>3, <4>1
      <4> QED BY <2>1, <3>2, <4>2, ArpDelivered
    <3>3. ASSUME NEW p \in Ipv4Packets, MeansIpv4(h, p) PROVE Delivers
      <4>1. h.ethertype = IPV4 /\ h.body = Serialize(p)
        BY <3>3 DEF MeansIpv4
      <4>2. Framed(wire, h.dst, IPV4, Serialize(p))
        BY <2>3, <4>1
      <4>3. Fits(wire, Serialize(p))
        <5>1. Serialize(p) \in Seq(Byte)
          BY <3>3, SerializeType
        <5>2. wire = Frame(h.dst, HostMac, h.ethertype, Serialize(p))
          BY <2>1, <4>1
        <5> QED BY <2>2, <5>1, <5>2, FrameFits DEF Fits, Beyond
      <4> QED BY <2>1, <3>3, <4>2, <4>3, Ipv4Delivered
    <3>4. CASE h.ethertype = ARP /\ MisshapenArp(h.body) /\ h.meant = Rejected
      <4>1. Incoming = Rejected /\ ~IsPacket(Rejected)
        BY <2>3, <3>4, MisshapenArpFrame DEF Incoming, IsPacket
      <4>2. Finish(Rejected)
        BY <4>1 DEF Receive, ReceiveBad, ReceiveArp, ReceiveOther, ReceiveUdp, ReceiveIcmp
      <4>3. Finish(meant)
        BY <2>1, <3>4, <4>2
      <4> QED BY <4>3, FinishDelivers
    <3> QED BY <3>1, <3>2, <3>3, <3>4 DEF KeepsFormat
  <2>5. HostReads(wire)' = HostReads(wire')
    BY DEF HostReads, HandlePacket, IsArp
  <2> QED BY <1>1, <2>4, <2>5 DEF Delivers, IntactInv, OnTheWay, IntactDelivered
<1> QED BY <1>2, <1>3

\* A frame the link left alone becomes what its sender put in, whatever the addresses,
\* identifications and payloads are, as long as the frames of hosts keep to the formats:
\* ARP packets and IPv4 packets with any options, a datagram with a checksum or without,
\* an echo request or another ICMP message of any length, another protocol, a fragment, a
\* packet for another machine and a frame of another kind; and, to be rejected, packets of
\* which a length, a fixed field, a flag or a checksum is wrong.
\* serialize, the padding of send_frame and the parsers of the receiver undo one another;
\* handle_arp and handle_icmp answer with a frame that tells the asker what it asked for.
THEOREM IntactArrives ==
  ASSUME \A h \in HostFrames : KeepsFormat(h)
  PROVE  Spec => []IntactDelivered
<1>1. Init => IntactInv
  BY DEF Init, IntactInv, OnTheWay, IntactDelivered
<1>2. IntactInv /\ [Next]_vars => IntactInv'
  <2> SUFFICES ASSUME IntactInv, [Next]_vars PROVE IntactInv'
    OBVIOUS
  <2>1. CASE Send
    BY <2>1, SendIntact
  <2>2. CASE Link
    BY <2>2, LinkIntact
  <2>3. CASE Receive
    BY <2>3, ReceiveIntact
  <2>4. CASE HostReceive
    <3>1. Finish(HostReads(wire)) /\ state = "out"
      BY <2>4 DEF HostReceive, HostReads
    <3> QED BY <3>1 DEF Finish, IntactInv, OnTheWay, IntactDelivered
  <2>5. CASE Messages
    <3>1. state' = "read" /\ damage' = damage
      BY <2>5 DEF Messages, ReadReply, ReadAsk, Read
    <3> QED BY <3>1 DEF IntactInv, OnTheWay, IntactDelivered
  <2>6. CASE Again
    BY <2>6 DEF Again, IntactInv, OnTheWay, IntactDelivered
  <2>7. CASE UNCHANGED vars
    <3>1. HostReads(wire)' = HostReads(wire)
      BY <2>7 DEF vars, HostReads, HandlePacket, IsArp
    <3> QED BY <2>7, <3>1 DEF vars, IntactInv, OnTheWay, IntactDelivered
  <2> QED BY <2>1, <2>2, <2>3, <2>4, <2>5, <2>6, <2>7 DEF Next
<1>3. IntactInv => IntactDelivered
  BY DEF IntactInv
<1> QED BY <1>1, <1>2, <1>3, PTL DEF Spec
=============================================================================
