---------------------------- MODULE FrameChannel ----------------------------
(***************************************************************************)
(* What the receive path promises: a frame the network card has accepted   *)
(* is looked at once, in the order of arrival (Spec), and never forgotten  *)
(* (Live).  How the card tells the kernel does not appear here.            *)
(***************************************************************************)
EXTENDS Naturals, Sequences

CONSTANTS
  Frame,    \* the frames that may arrive
  Ignored,  \* frames too short or malformed, which are looked at and dropped
  Capacity  \* frames the card holds for the kernel

VARIABLES
  pending,  \* frames accepted and not looked at yet, in order of arrival
  done      \* frames handed to the network interface, in order

chanVars == <<pending, done>>

Init == pending = <<>> /\ done = <<>>

Accept(f) ==
  /\ Len(pending) < Capacity
  /\ pending' = Append(pending, f)
  /\ UNCHANGED done

Handle ==
  /\ pending # <<>>
  /\ pending' = Tail(pending)
  /\ done' = IF Head(pending) \in Ignored THEN done
                                          ELSE Append(done, Head(pending))

Next == Handle \/ \E f \in Frame : Accept(f)

Spec == Init /\ [][Next]_chanVars

\* Every accepted frame is eventually looked at.
Live == WF_chanVars(Handle)

=============================================================================
