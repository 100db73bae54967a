----------------------- MODULE MCPhysicalPageAllocator -----------------------
(***************************************************************************)
(* Memory maps for TLC: usable memory before, after and around a hole, a   *)
(* first region too small for the bitmap, and one with room for nothing.   *)
(***************************************************************************)
EXTENDS PhysicalPageAllocator

Usable(s, e)   == [start |-> s, end |-> e, usable |-> TRUE]
Reserved(s, e) == [start |-> s, end |-> e, usable |-> FALSE]

MCMemoryMaps ==
  { << Usable(0, 8) >>,
    << Reserved(0, 1), Usable(1, 4), Reserved(4, 5), Usable(5, 9) >>,
    << Usable(0, 1), Reserved(1, 2), Usable(2, 10), Reserved(10, 11) >>,
    << Usable(3, 10), Reserved(0, 2) >>,
    << Reserved(0, 8), Usable(8, 9) >> }

==============================================================================
