------------------------ MODULE PhysicalPageAllocator ------------------------
(***************************************************************************)
(* The physical page allocator (kernel/src/allocation/ppa.rs) and its two  *)
(* clients: the heap (allocator.rs) and virtio's DMA buffers (virtio.rs).  *)
(*                                                                         *)
(* The bitmap is the set of the frames whose bit is 1.  Addresses are      *)
(* frame numbers: the bootloader's map is made of whole frames, so the     *)
(* roundings in mark_region_free and mark_region_used have nothing to do.  *)
(* The loop of find_contiguous_pages is kept, one iteration a step.        *)
(***************************************************************************)
EXTENDS Integers, Sequences

CONSTANTS
  MemoryMaps,  \* the maps the bootloader may pass
  PageSize,    \* PAGE_SIZE (4096)
  HeapPages,   \* pages init_heap asks for (4096)
  MaxPages     \* bound: the largest DMA allocation

Region == [start : Nat, end : Nat, usable : BOOLEAN]

Frames(r) == r.start .. r.end - 1

IsLast(m, n) == /\ \E i \in DOMAIN m : m[i].end = n
                /\ \A i \in DOMAIN m : m[i].end <= n

\* The bootloader's regions do not overlap.
ASSUME MapAssumption ==
  \A m \in MemoryMaps :
    /\ m \in Seq(Region)
    /\ \E i \in DOMAIN m : IsLast(m, m[i].end)
    /\ \A i, j \in DOMAIN m : i # j => Frames(m[i]) \cap Frames(m[j]) = {}
    /\ \A i \in DOMAIN m : m[i].start <= m[i].end

ASSUME SizeAssumption ==
  /\ PageSize \in Nat \ {0}
  /\ HeapPages \in Nat /\ MaxPages \in Nat

DivCeil(a, b) == (a + b - 1) \div b

VARIABLES
  mmap,        \* boot_info.memory_map
  num_frames,  \* PhysicalPageAllocator::num_frames
  used,        \* PhysicalPageAllocator::bitmap, the bits that are 1
  bitmap,      \* the frames the bitmap itself lies in
  allocs,      \* what callers hold: runs of `count` frames from `start`
  pc,          \* where the caller is
  count, page, run_start, run_length  \* locals of find_contiguous_pages

scanVars == <<count, page, run_start, run_length>>
vars == <<mmap, num_frames, used, bitmap, allocs, pc, scanVars>>

Run(start, n) == start .. start + n - 1

Init ==
  /\ mmap \in MemoryMaps
  /\ num_frames = 0 /\ used = {} /\ bitmap = {} /\ allocs = {}
  /\ pc = "new"
  /\ count = 0 /\ page = 0 /\ run_start = 0 /\ run_length = 0

-----------------------------------------------------------------------------
(* PhysicalPageAllocator::new *)

BitmapBytes(n) == DivCeil(n, 8)

BitmapPages(n) == DivCeil(BitmapBytes(n), PageSize)

HoldsBitmap(r, n) == r.usable /\ r.end - r.start >= BitmapPages(n)

\* mmap.iter().find(...), the first usable region large enough.
IsBitmapRegion(i, n) ==
  /\ HoldsBitmap(mmap[i], n)
  /\ \A j \in DOMAIN mmap : j < i => ~HoldsBitmap(mmap[j], n)

UsableFrames ==
  UNION {Frames(mmap[i]) : i \in {j \in DOMAIN mmap : mmap[j].usable}}

\* Mutant: the bitmap's own frames are not reserved.
NewUnreserved ==
  /\ pc = "new"
  /\ \E n \in {mmap[i].end : i \in DOMAIN mmap} :
       /\ IsLast(mmap, n) /\ num_frames' = n
       /\ \E i \in DOMAIN mmap :
            /\ IsBitmapRegion(i, n)
            /\ bitmap' = Run(mmap[i].start, BitmapPages(n))
            /\ used' = (0 .. 8 * BitmapBytes(n) - 1) \ UsableFrames
            /\ pc' = "heap"
  /\ UNCHANGED <<mmap, allocs, scanVars>>

\* All bits are set, those of usable regions cleared, and the bitmap's own
\* frames set again.  Without a region for the bitmap the kernel panics.
New ==
  /\ pc = "new"
  /\ \E n \in {mmap[i].end : i \in DOMAIN mmap} :
       /\ IsLast(mmap, n) /\ num_frames' = n
       /\ IF \E i \in DOMAIN mmap : HoldsBitmap(mmap[i], n)
          THEN \E i \in DOMAIN mmap :
                 /\ IsBitmapRegion(i, n)
                 /\ bitmap' = Run(mmap[i].start, BitmapPages(n))
                 /\ used' = ((0 .. 8 * BitmapBytes(n) - 1)
                               \ UsableFrames) \cup bitmap'
                 /\ pc' = "heap"
          ELSE pc' = "panic" /\ UNCHANGED <<used, bitmap>>
  /\ UNCHANGED <<mmap, allocs, scanVars>>

-----------------------------------------------------------------------------
(* alloc_contiguous_pages *)

\* The locals of find_contiguous_pages before its loop.
Start(n) ==
  /\ count' = n /\ page' = 0 /\ run_start' = 0 /\ run_length' = 0
  /\ pc' = IF n = 0 THEN "none" ELSE "scan"
  /\ UNCHANGED <<mmap, num_frames, used, bitmap, allocs>>

InitHeap == pc = "heap" /\ Start(HeapPages)

DmaAlloc(n) == pc = "idle" /\ Start(n)

\* Mutant: the run is not reset at a used frame.
ScanUsedKeeps ==
  /\ pc = "scan" /\ page < num_frames /\ page \in used
  /\ page' = page + 1
  /\ UNCHANGED <<mmap, num_frames, used, bitmap, allocs, pc, count, run_start,
                 run_length>>

ScanUsed ==
  /\ pc = "scan" /\ page < num_frames /\ page \in used
  /\ run_length' = 0
  /\ page' = page + 1
  /\ UNCHANGED <<mmap, num_frames, used, bitmap, allocs, pc, count, run_start>>

\* Mutant: the run is taken one frame too early.
ScanFreeShort ==
  /\ pc = "scan" /\ page < num_frames /\ page \notin used
  /\ run_start' = IF run_length = 0 THEN page ELSE run_start
  /\ run_length' = run_length + 1
  /\ page' = page + 1
  /\ pc' = IF run_length' >= count - 1 THEN "found" ELSE "scan"
  /\ UNCHANGED <<mmap, num_frames, used, bitmap, allocs, count>>

ScanFree ==
  /\ pc = "scan" /\ page < num_frames /\ page \notin used
  /\ run_start' = IF run_length = 0 THEN page ELSE run_start
  /\ run_length' = run_length + 1
  /\ page' = page + 1
  /\ pc' = IF run_length' = count THEN "found" ELSE "scan"
  /\ UNCHANGED <<mmap, num_frames, used, bitmap, allocs, count>>

\* Mutant: the loop stops one frame early.
ScanEndEarly ==
  /\ pc = "scan" /\ page >= num_frames - 1
  /\ pc' = "none"
  /\ UNCHANGED <<mmap, num_frames, used, bitmap, allocs, scanVars>>

ScanEnd ==
  /\ pc = "scan" /\ page = num_frames
  /\ pc' = "none"
  /\ UNCHANGED <<mmap, num_frames, used, bitmap, allocs, scanVars>>

\* The first allocation is the heap's.
IsHeap == \A a \in allocs : ~a.heap

\* Every frame of the run is marked, and the caller gets its address.
Found ==
  /\ pc = "found"
  /\ used' = used \cup Run(run_start, count)
  /\ allocs' = allocs \cup
       {[start |-> run_start, count |-> count, heap |-> IsHeap]}
  /\ pc' = "idle"
  /\ UNCHANGED <<mmap, num_frames, bitmap, scanVars>>

\* Both callers `expect` an address.
NotFound ==
  /\ pc = "none"
  /\ pc' = "panic"
  /\ UNCHANGED <<mmap, num_frames, used, bitmap, allocs, scanVars>>

-----------------------------------------------------------------------------
(* dealloc_contiguous_pages *)

\* Mutant: the last frame is not freed.
DmaDeallocShort(a) ==
  /\ pc = "idle" /\ ~a.heap
  /\ used' = used \ Run(a.start, a.count - 1)
  /\ allocs' = allocs \ {a}
  /\ UNCHANGED <<mmap, num_frames, bitmap, pc, scanVars>>

\* virtio gives back whole allocations; the heap is never given back.
DmaDealloc(a) ==
  /\ pc = "idle" /\ ~a.heap
  /\ used' = used \ Run(a.start, a.count)
  /\ allocs' = allocs \ {a}
  /\ UNCHANGED <<mmap, num_frames, bitmap, pc, scanVars>>

Next ==
  \/ New \/ InitHeap \/ \E n \in 0 .. MaxPages : DmaAlloc(n)
  \/ ScanUsed \/ ScanFree \/ ScanEnd \/ Found \/ NotFound
  \/ \E a \in allocs : DmaDealloc(a)

Spec == Init /\ [][Next]_vars

-----------------------------------------------------------------------------
(* Properties *)

Alloc == [start : Nat, count : Nat, heap : BOOLEAN]

\* Every variable has its type, and no bit beyond the bitmap is touched.
TypeOK ==
  /\ mmap \in MemoryMaps /\ num_frames \in Nat
  /\ used \subseteq 0 .. 8 * BitmapBytes(num_frames) - 1
  /\ bitmap \subseteq Nat
  /\ allocs \subseteq Alloc
  /\ pc \in {"new", "heap", "idle", "scan", "found", "none", "panic"}
  /\ count \in Nat /\ page \in 0 .. num_frames
  /\ run_start \in Nat /\ run_length \in Nat

Owned(a) == Run(a.start, a.count)

AllOwned == UNION {Owned(a) : a \in allocs}

\* Frames that may be handed out at all.
Available == UsableFrames \ bitmap

\* Two callers never own the same frame.
AllocsDisjoint ==
  \A a, b \in allocs : a # b => Owned(a) \cap Owned(b) = {}

\* Only usable memory is handed out, and never the frames of the bitmap: a
\* caller that writes to all it was given cannot corrupt the allocator.
AllocsAvailable == \A a \in allocs : Owned(a) \subseteq Available

\* The bitmap is exact: once `new` has run, a frame's bit is clear if and only
\* if it is available and nobody owns it.  Nothing is freed under its owner
\* and nothing leaks, after any history of allocations and deallocations.
BitmapExact ==
  pc \notin {"new", "panic"} =>
    \A f \in 0 .. num_frames - 1 :
      f \notin used <=> f \in Available \ AllOwned

FreeRun(s, n) == s + n <= num_frames /\ Run(s, n) \cap used = {}

\* find_contiguous_pages finds the lowest run there is ...
FirstFit ==
  pc = "found" =>
    /\ FreeRun(run_start, count)
    /\ \A s \in 0 .. num_frames : s < run_start => ~FreeRun(s, count)

\* ... and gives up only when there is none.
NoneMeansNone ==
  pc = "none" => count = 0 \/ \A s \in 0 .. num_frames : ~FreeRun(s, count)

-----------------------------------------------------------------------------
(***************************************************************************)
(* The inductive invariant: between iterations of the loop, the last       *)
(* run_length frames are free, the one before them is not, and no run that *)
(* ends by `page` is long enough.                                          *)
(***************************************************************************)
ScanInv ==
  pc = "scan" =>
    /\ run_length < count /\ run_length <= page
    /\ run_length > 0 => run_start = page - run_length
    /\ \A f \in page - run_length .. page - 1 : f \notin used
    /\ page = run_length \/ page - run_length - 1 \in used
    /\ \A s \in 0 .. num_frames : s + count <= page => ~FreeRun(s, count)

AllocInv ==
  /\ pc = "new" => used = {} /\ page = 0
  /\ pc \in {"new", "heap"} => allocs = {}
  /\ pc = "found" => count > 0
  /\ AllocsDisjoint /\ AllocsAvailable /\ BitmapExact

IInv == TypeOK /\ ScanInv /\ AllocInv /\ FirstFit /\ NoneMeansNone

==============================================================================
