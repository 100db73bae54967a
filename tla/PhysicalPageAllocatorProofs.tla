--------------------- MODULE PhysicalPageAllocatorProofs ---------------------
(***************************************************************************)
(* Proofs about the page allocator: the scan is a first fit and the bitmap *)
(* is exact, for every memory map and every sequence of calls.             *)
(***************************************************************************)
EXTENDS PhysicalPageAllocator, SequenceTheorems, TLAPS

\* The bitmap has a bit for every frame.
LEMMA BitmapCovers ==
  ASSUME NEW n \in Nat
  PROVE  BitmapBytes(n) \in Nat /\ n <= 8 * BitmapBytes(n)
  BY DEF BitmapBytes, DivCeil

\* A map has one last frame, and its regions end by then.
LEMMA MapFacts ==
  ASSUME NEW m \in MemoryMaps
  PROVE  \A i \in DOMAIN m : /\ m[i] \in Region
                             /\ m[i].start \in Nat /\ m[i].end \in Nat
                             /\ m[i].usable \in BOOLEAN
<1>1. m \in Seq(Region)
  BY MapAssumption
<1>2. \A i \in DOMAIN m : m[i] \in Region
  BY <1>1, LenProperties
<1> QED BY <1>2 DEF Region

-----------------------------------------------------------------------------
(* PhysicalPageAllocator::new *)

\* What `new` leaves behind when it succeeds.
LEMMA NewFacts ==
  ASSUME IInv, New
  PROVE  /\ num_frames' \in Nat
         /\ bitmap' \subseteq Nat
         /\ used' \subseteq 0 .. 8 * BitmapBytes(num_frames') - 1
         /\ pc' \in {"heap", "panic"}
         /\ pc' = "heap" =>
              \A f \in 0 .. num_frames' - 1 :
                f \notin used' <=> f \in UsableFrames \ bitmap'
         /\ UNCHANGED <<mmap, allocs, scanVars>>
<1>1. PICK n \in {mmap[i].end : i \in DOMAIN mmap} :
        /\ IsLast(mmap, n) /\ num_frames' = n
        /\ IF \E i \in DOMAIN mmap : HoldsBitmap(mmap[i], n)
           THEN \E i \in DOMAIN mmap :
                  /\ IsBitmapRegion(i, n)
                  /\ bitmap' = Run(mmap[i].start, BitmapPages(n))
                  /\ used' = ((0 .. 8 * BitmapBytes(n) - 1) \ UsableFrames)
                               \cup bitmap'
                  /\ pc' = "heap"
           ELSE pc' = "panic" /\ UNCHANGED <<used, bitmap>>
  BY DEF New
<1>2. \A i \in DOMAIN mmap : mmap[i].start \in Nat /\ mmap[i].end \in Nat
  BY MapFacts DEF IInv, TypeOK
<1>3. n \in Nat /\ BitmapBytes(n) \in Nat /\ n <= 8 * BitmapBytes(n)
  BY <1>1, <1>2, BitmapCovers
<1>4. UNCHANGED <<mmap, allocs, scanVars>>
  BY DEF New
<1>5. CASE pc' = "panic"
  <2>1. UNCHANGED <<used, bitmap>> /\ pc = "new"
    BY <1>1, <1>5 DEF New
  <2>2. used = {}
    BY <2>1 DEF IInv, AllocInv
  <2> QED BY <1>1, <1>3, <1>4, <1>5, <2>1, <2>2 DEF IInv, TypeOK
<1>6. CASE pc' # "panic"
  <2>1. PICK i \in DOMAIN mmap :
          /\ IsBitmapRegion(i, n)
          /\ bitmap' = Run(mmap[i].start, BitmapPages(n))
          /\ used' = ((0 .. 8 * BitmapBytes(n) - 1) \ UsableFrames)
                       \cup bitmap'
          /\ pc' = "heap"
    BY <1>1, <1>6
  <2>2. mmap[i].end - mmap[i].start >= BitmapPages(n) /\ mmap[i].end <= n
    BY <1>1, <2>1 DEF IsBitmapRegion, HoldsBitmap, IsLast
  <2>3. BitmapPages(n) \in Int
    BY <1>3, SizeAssumption DEF BitmapPages, DivCeil
  <2>4. bitmap' \subseteq 0 .. n - 1
    BY <1>2, <1>3, <2>1, <2>2, <2>3 DEF Run
  <2>5. bitmap' \subseteq 0 .. 8 * BitmapBytes(n) - 1 /\ bitmap' \subseteq Nat
    BY <1>3, <2>4
  <2>6. \A f \in 0 .. n - 1 : f \in 0 .. 8 * BitmapBytes(n) - 1
    BY <1>3
  <2> QED BY <1>1, <1>3, <1>4, <2>1, <2>5, <2>6
<1> QED BY <1>5, <1>6

-----------------------------------------------------------------------------
(* The invariant is inductive *)

\* The initial states satisfy the invariant.
LEMMA InitIInv == Init => IInv
<1> SUFFICES ASSUME Init PROVE IInv
  OBVIOUS
<1>1. TypeOK
  BY DEF Init, TypeOK
<1>2. ScanInv /\ FirstFit /\ NoneMeansNone
  BY DEF Init, ScanInv, FirstFit, NoneMeansNone
<1>3. AllocInv
  BY DEF Init, AllocInv, AllocsDisjoint, AllocsAvailable, BitmapExact
<1> QED BY <1>1, <1>2, <1>3 DEF IInv

\* Every step preserves the types.
LEMMA TypeStep == IInv /\ [Next]_vars => TypeOK'
<1> SUFFICES ASSUME IInv, [Next]_vars PROVE TypeOK'
  OBVIOUS
<1> USE SizeAssumption DEF scanVars
<1>1. CASE New
  <2>1. page = 0
    BY <1>1 DEF New, IInv, AllocInv
  <2> QED BY <1>1, <2>1, NewFacts DEF IInv, TypeOK
<1>2. CASE InitHeap
  BY <1>2 DEF InitHeap, Start, IInv, TypeOK
<1>3. ASSUME NEW n \in 0 .. MaxPages, DmaAlloc(n) PROVE TypeOK'
  BY <1>3 DEF DmaAlloc, Start, IInv, TypeOK
<1>4. CASE ScanUsed
  BY <1>4 DEF ScanUsed, IInv, TypeOK
<1>5. CASE ScanFree
  BY <1>5 DEF ScanFree, IInv, TypeOK
<1>6. CASE ScanEnd
  BY <1>6 DEF ScanEnd, IInv, TypeOK
<1>7. CASE Found
  <2>1. used' \subseteq 0 .. 8 * BitmapBytes(num_frames) - 1
    <3>1. /\ num_frames \in Nat /\ run_start \in Nat /\ count \in Nat
          /\ used \subseteq 0 .. 8 * BitmapBytes(num_frames) - 1
      BY DEF IInv, TypeOK
    <3>2. run_start + count <= num_frames
      BY <1>7 DEF Found, IInv, FirstFit, FreeRun
    <3>3. /\ BitmapBytes(num_frames) \in Nat
          /\ num_frames <= 8 * BitmapBytes(num_frames)
      BY <3>1, BitmapCovers
    <3>4. Run(run_start, count) \subseteq 0 .. 8 * BitmapBytes(num_frames) - 1
      BY <3>1, <3>2, <3>3 DEF Run
    <3> QED BY <1>7, <3>1, <3>4 DEF Found
  <2>2. allocs' \subseteq Alloc
    <3>1. IsHeap \in BOOLEAN
      BY DEF IsHeap
    <3>2. run_start \in Nat /\ count \in Nat /\ allocs \subseteq Alloc
      BY DEF IInv, TypeOK
    <3> QED BY <1>7, <3>1, <3>2 DEF Found, Alloc
  <2> QED BY <1>7, <2>1, <2>2 DEF Found, IInv, TypeOK
<1>8. CASE NotFound
  BY <1>8 DEF NotFound, IInv, TypeOK
<1>9. ASSUME NEW a \in allocs, DmaDealloc(a) PROVE TypeOK'
  BY <1>9 DEF DmaDealloc, IInv, TypeOK
<1>10. CASE UNCHANGED vars
  BY <1>10 DEF vars, IInv, TypeOK
<1> QED
  BY <1>1, <1>2, <1>3, <1>4, <1>5, <1>6, <1>7, <1>8, <1>9, <1>10 DEF Next

\* One iteration of the scan extends what is known of the frames before it.
LEMMA ScanStep ==
  IInv /\ [Next]_vars => ScanInv' /\ FirstFit' /\ NoneMeansNone'
<1> DEFINE Goal == ScanInv' /\ FirstFit' /\ NoneMeansNone'
<1> SUFFICES ASSUME IInv, [Next]_vars PROVE Goal
  OBVIOUS
<1> USE SizeAssumption DEF scanVars
<1>0. num_frames \in Nat /\ count \in Nat /\ page \in Nat /\ page <= num_frames
      /\ run_start \in Nat /\ run_length \in Nat
  BY DEF IInv, TypeOK
<1>1. CASE New
  <2>1. pc' \in {"heap", "panic"}
    BY <1>1, NewFacts
  <2> QED BY <2>1 DEF ScanInv, FirstFit, NoneMeansNone
<1>2. ASSUME NEW n \in Nat, Start(n) PROVE Goal
  <2>1. /\ count' = n /\ page' = 0 /\ run_length' = 0 /\ num_frames' = num_frames
        /\ pc' = IF n = 0 THEN "none" ELSE "scan"
    BY <1>2 DEF Start
  <2>2. FirstFit' /\ NoneMeansNone'
    BY <2>1 DEF FirstFit, NoneMeansNone
  <2>3. ScanInv'
    BY <1>0, <2>1 DEF ScanInv
  <2> QED BY <2>2, <2>3
<1>3. CASE ScanUsed
  <2>1. /\ pc = "scan" /\ page < num_frames /\ page \in used
        /\ run_length' = 0 /\ page' = page + 1
        /\ UNCHANGED <<num_frames, used, pc, count, run_start>>
    BY <1>3 DEF ScanUsed
  <2>2. count > 0
    BY <1>0, <2>1 DEF IInv, ScanInv
  <2>3. \A s \in 0 .. num_frames : s + count <= page + 1 => ~FreeRun(s, count)
    <3> SUFFICES ASSUME NEW s \in 0 .. num_frames, s + count <= page + 1,
                        FreeRun(s, count)
                 PROVE  FALSE
      OBVIOUS
    <3>1. CASE s + count <= page
      BY <2>1, <3>1 DEF IInv, ScanInv
    <3>2. CASE s + count = page + 1
      <4>1. page \in Run(s, count)
        BY <1>0, <2>2, <3>2 DEF Run
      <4> QED BY <2>1, <4>1 DEF FreeRun
    <3> QED BY <1>0, <3>1, <3>2
  <2>4. \A s : FreeRun(s, count)' <=> FreeRun(s, count)
    BY <2>1 DEF FreeRun
  <2>5. ScanInv'
    BY <1>0, <2>1, <2>2, <2>3, <2>4 DEF ScanInv
  <2> QED BY <2>1, <2>5 DEF FirstFit, NoneMeansNone
<1>4. CASE ScanFree
  <2>1. /\ pc = "scan" /\ page < num_frames /\ page \notin used
        /\ run_start' = IF run_length = 0 THEN page ELSE run_start
        /\ run_length' = run_length + 1 /\ page' = page + 1
        /\ pc' = IF run_length' = count THEN "found" ELSE "scan"
        /\ UNCHANGED <<num_frames, used, count>>
    BY <1>4 DEF ScanFree
  <2>2. /\ run_length < count /\ run_length <= page
        /\ run_length > 0 => run_start = page - run_length
        /\ \A f \in page - run_length .. page - 1 : f \notin used
        /\ page = run_length \/ page - run_length - 1 \in used
        /\ \A s \in 0 .. num_frames : s + count <= page => ~FreeRun(s, count)
    BY <2>1 DEF IInv, ScanInv
  <2>3. run_start' = page - run_length
    BY <1>0, <2>1, <2>2
  <2>4. \A f \in page - run_length .. page : f \notin used
    BY <1>0, <2>1, <2>2
  <2>5. \A s : FreeRun(s, count)' <=> FreeRun(s, count)
    BY <2>1 DEF FreeRun
  <2>6. CASE run_length + 1 = count
    <3>1. FreeRun(run_start', count)
      BY <1>0, <2>1, <2>3, <2>4, <2>6 DEF FreeRun, Run
    <3>2. \A s \in 0 .. num_frames : s < run_start' => ~FreeRun(s, count)
      BY <1>0, <2>2, <2>3, <2>6
    <3>3. FirstFit'
      BY <2>1, <2>5, <3>1, <3>2 DEF FirstFit
    <3> QED BY <2>1, <2>6, <3>3 DEF ScanInv, NoneMeansNone
  <2>7. CASE run_length + 1 # count
    <3>1. \A s \in 0 .. num_frames :
            s + count <= page + 1 => ~FreeRun(s, count)
      <4> SUFFICES ASSUME NEW s \in 0 .. num_frames, s + count <= page + 1,
                          FreeRun(s, count)
                   PROVE  FALSE
        OBVIOUS
      <4>1. CASE s + count <= page
        BY <2>2, <4>1
      <4>2. CASE s + count = page + 1
        <5>1. page - run_length - 1 \in Run(s, count) /\ page # run_length
          BY <1>0, <2>2, <2>7, <4>2 DEF Run
        <5> QED BY <2>2, <5>1 DEF FreeRun
      <4> QED BY <1>0, <4>1, <4>2
    <3>2. pc' = "scan"
      BY <1>0, <2>1, <2>7
    <3>3. ScanInv'
      BY <1>0, <2>1, <2>2, <2>3, <2>4, <2>5, <2>7, <3>1 DEF ScanInv
    <3> QED BY <3>2, <3>3 DEF FirstFit, NoneMeansNone
  <2> QED BY <2>6, <2>7
<1>5. CASE ScanEnd
  <2>1. /\ pc = "scan" /\ page = num_frames /\ pc' = "none"
        /\ UNCHANGED <<num_frames, used, count>>
    BY <1>5 DEF ScanEnd
  <2>2. \A s \in 0 .. num_frames : ~FreeRun(s, count)
    <3> SUFFICES ASSUME NEW s \in 0 .. num_frames, FreeRun(s, count)
                 PROVE  FALSE
      OBVIOUS
    <3>1. s + count <= page
      BY <2>1 DEF FreeRun
    <3> QED BY <2>1, <3>1 DEF IInv, ScanInv
  <2>3. \A s : FreeRun(s, count)' <=> FreeRun(s, count)
    BY <2>1 DEF FreeRun
  <2> QED BY <2>1, <2>2, <2>3 DEF ScanInv, FirstFit, NoneMeansNone
<1>6. CASE Found
  BY <1>6 DEF Found, ScanInv, FirstFit, NoneMeansNone
<1>7. CASE NotFound
  BY <1>7 DEF NotFound, ScanInv, FirstFit, NoneMeansNone
<1>8. ASSUME NEW a \in allocs, DmaDealloc(a) PROVE Goal
  BY <1>8 DEF DmaDealloc, ScanInv, FirstFit, NoneMeansNone
<1>9. CASE UNCHANGED vars
  BY <1>9 DEF vars, IInv, ScanInv, FirstFit, NoneMeansNone, FreeRun
<1> QED
  BY <1>1, <1>2, <1>3, <1>4, <1>5, <1>6, <1>7, <1>8, <1>9
  DEF Next, InitHeap, DmaAlloc

\* Allocations stay disjoint and available, and the bitmap stays exact.
LEMMA AllocStep == IInv /\ [Next]_vars => AllocInv'
<1> SUFFICES ASSUME IInv, [Next]_vars PROVE AllocInv'
  OBVIOUS
<1> USE SizeAssumption DEF scanVars
<1>0. num_frames \in Nat /\ count \in Nat /\ run_start \in Nat
      /\ allocs \subseteq Alloc /\ run_length \in Nat
  BY DEF IInv, TypeOK
<1>1. CASE New
  <2>1. allocs = {}
    BY <1>1 DEF New, IInv, AllocInv
  <2>2. allocs' = {} /\ mmap' = mmap /\ AllOwned' = {}
    BY <1>1, <2>1, NewFacts DEF AllOwned
  <2>3. UsableFrames' = UsableFrames
    BY <2>2 DEF UsableFrames
  <2>4. BitmapExact'
    BY <1>1, <2>2, <2>3, NewFacts DEF BitmapExact, Available
  <2> QED
    BY <1>1, <2>2, <2>4, NewFacts DEF AllocInv, AllocsDisjoint, AllocsAvailable
<1>2. ASSUME UNCHANGED <<mmap, num_frames, used, bitmap, allocs>>,
             pc # "new", pc' \notin {"new", "heap"},
             pc = "panic" => pc' = "panic",
             pc' = "found" => count' > 0
      PROVE  AllocInv'
  <2>1. UNCHANGED <<UsableFrames, Available, AllOwned>>
    BY <1>2 DEF UsableFrames, Available, AllOwned
  <2>2. AllocsDisjoint' /\ AllocsAvailable'
    BY <1>2, <2>1 DEF IInv, AllocInv, AllocsDisjoint, AllocsAvailable
  <2>3. BitmapExact'
    BY <1>2, <2>1 DEF IInv, AllocInv, BitmapExact
  <2> QED BY <1>2, <2>2, <2>3 DEF AllocInv
<1>3. CASE InitHeap
  BY <1>2, <1>3 DEF InitHeap, Start
<1>4. ASSUME NEW n \in 0 .. MaxPages, DmaAlloc(n) PROVE AllocInv'
  BY <1>2, <1>4 DEF DmaAlloc, Start
<1>5. CASE ScanUsed
  BY <1>2, <1>5 DEF ScanUsed
<1>6. CASE ScanFree
  <2>1. run_length < count
    BY <1>6 DEF ScanFree, IInv, ScanInv
  <2> QED BY <1>0, <1>2, <1>6, <2>1 DEF ScanFree
<1>7. CASE ScanEnd
  BY <1>2, <1>7 DEF ScanEnd
<1>8. CASE NotFound
  BY <1>2, <1>8 DEF NotFound
<1>9. CASE Found
  <2> DEFINE new == [start |-> run_start, count |-> count, heap |-> IsHeap]
  <2>1. /\ pc = "found" /\ pc' = "idle"
        /\ used' = used \cup Run(run_start, count)
        /\ allocs' = allocs \cup {new}
        /\ UNCHANGED <<mmap, num_frames, bitmap>>
    BY <1>9 DEF Found
  <2>2. Owned(new) = Run(run_start, count)
    BY DEF Owned
  <2>3. UNCHANGED <<UsableFrames, Available>>
    BY <2>1 DEF UsableFrames, Available
  <2>4. /\ Run(run_start, count) \subseteq 0 .. num_frames - 1
        /\ Run(run_start, count) \cap used = {}
    BY <1>0, <2>1 DEF IInv, FirstFit, FreeRun, Run
  <2>5. Run(run_start, count) \subseteq Available \ AllOwned
    BY <2>1, <2>4 DEF IInv, AllocInv, BitmapExact
  <2>6. \A a \in allocs : Owned(a) \cap Owned(new) = {}
    BY <2>2, <2>5 DEF AllOwned
  <2> HIDE DEF new
  <2>7. AllocsDisjoint'
    BY <2>1, <2>6 DEF IInv, AllocInv, AllocsDisjoint, Owned
  <2>8. AllocsAvailable'
    BY <2>1, <2>2, <2>3, <2>5 DEF IInv, AllocInv, AllocsAvailable, Owned
  <2>9. AllOwned' = AllOwned \cup Run(run_start, count)
    BY <2>1, <2>2 DEF AllOwned, Owned
  <2>10. BitmapExact'
    BY <2>1, <2>3, <2>4, <2>9 DEF IInv, AllocInv, BitmapExact
  <2> QED BY <2>1, <2>7, <2>8, <2>10 DEF AllocInv
<1>10. ASSUME NEW a \in allocs, DmaDealloc(a) PROVE AllocInv'
  <2>1. /\ pc = "idle" /\ pc' = "idle"
        /\ used' = used \ Owned(a)
        /\ allocs' = allocs \ {a}
        /\ UNCHANGED <<mmap, num_frames, bitmap>>
    BY <1>10 DEF DmaDealloc, Owned
  <2>2. UNCHANGED <<UsableFrames, Available>>
    BY <2>1 DEF UsableFrames, Available
  <2>3. AllocsDisjoint' /\ AllocsAvailable'
    BY <2>1, <2>2 DEF IInv, AllocInv, AllocsDisjoint, AllocsAvailable, Owned
  <2>4. AllOwned' = AllOwned \ Owned(a)
    <3>1. \A b \in allocs : b # a => Owned(b) \cap Owned(a) = {}
      BY DEF IInv, AllocInv, AllocsDisjoint
    <3> QED BY <2>1, <3>1 DEF AllOwned, Owned
  <2>5. Owned(a) \subseteq Available
    BY DEF IInv, AllocInv, AllocsAvailable
  <2>6. BitmapExact'
    BY <2>1, <2>2, <2>4, <2>5 DEF IInv, AllocInv, BitmapExact
  <2> QED BY <2>1, <2>3, <2>6 DEF AllocInv
<1>11. CASE UNCHANGED vars
  <2>1. UNCHANGED <<UsableFrames, Available, AllOwned>>
    BY <1>11 DEF vars, UsableFrames, Available, AllOwned
  <2> QED BY <1>11, <2>1 DEF vars, IInv, AllocInv, AllocsDisjoint,
             AllocsAvailable, BitmapExact
<1> QED
  BY <1>1, <1>3, <1>4, <1>5, <1>6, <1>7, <1>8, <1>9, <1>10, <1>11 DEF Next

-----------------------------------------------------------------------------
(* Theorems *)

\* IInv holds in every reachable state, for every memory map.
THEOREM Invariance == Spec => []IInv
<1>1. IInv /\ [Next]_vars => IInv'
  BY TypeStep, ScanStep, AllocStep DEF IInv
<1> QED BY InitIInv, <1>1, PTL DEF Spec

\* The types are respected: set_bit never indexes past the bitmap.
THEOREM TypeCorrect == Spec => []TypeOK
<1>1. IInv => TypeOK
  BY DEF IInv
<1> QED BY Invariance, <1>1, PTL

\* No frame has two owners.
THEOREM OwnersDisjoint == Spec => []AllocsDisjoint
<1>1. IInv => AllocsDisjoint
  BY DEF IInv, AllocInv
<1> QED BY Invariance, <1>1, PTL

\* Reserved memory and the bitmap itself are never handed out.
THEOREM OnlyAvailable == Spec => []AllocsAvailable
<1>1. IInv => AllocsAvailable
  BY DEF IInv, AllocInv
<1> QED BY Invariance, <1>1, PTL

\* The bitmap says exactly which frames nobody owns.
THEOREM BitmapIsExact == Spec => []BitmapExact
<1>1. IInv => BitmapExact
  BY DEF IInv, AllocInv
<1> QED BY Invariance, <1>1, PTL

\* find_contiguous_pages returns the lowest run that fits.
THEOREM ScanIsFirstFit == Spec => []FirstFit
<1>1. IInv => FirstFit
  BY DEF IInv
<1> QED BY Invariance, <1>1, PTL

\* find_contiguous_pages returns None only when no run fits.
THEOREM ScanIsComplete == Spec => []NoneMeansNone
<1>1. IInv => NoneMeansNone
  BY DEF IInv
<1> QED BY Invariance, <1>1, PTL

=============================================================================
