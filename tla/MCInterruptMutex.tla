-------------------------- MODULE MCInterruptMutex --------------------------
(***************************************************************************)
(* InterruptMutex for TLC: the question asked of one order of locking      *)
(* against another.                                                        *)
(***************************************************************************)
EXTENDS InterruptMutex, TLC

LockSymmetry == Permutations(IntLocks) \cup Permutations(PlainLocks)

=============================================================================
