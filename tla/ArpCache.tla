------------------------------ MODULE ArpCache ------------------------------
(***************************************************************************)
(* The address cache of net/src/arp.rs, as operators on its value.  A      *)
(* cache is a function from IPv4 addresses to entries; an address the      *)
(* BTreeMap has no key for is Absent.  A parked frame is opaque: the cache *)
(* only queues it and hands it back.                                       *)
(***************************************************************************)
EXTENDS Naturals, Sequences, FiniteSets

CONSTANTS
  MAX_PENDING_PER_ADDRESS,  \* frames held for one unresolved address (4)
  MAX_PENDING_ADDRESSES     \* addresses that may await resolution (16)

ASSUME CacheAssumption ==
  /\ MAX_PENDING_PER_ADDRESS \in Nat \ {0}
  /\ MAX_PENDING_ADDRESSES \in Nat

Absent      == [state |-> "Absent"]
Resolved(m) == [state |-> "Resolved", mac |-> m]
Pending(q)  == [state |-> "Pending", queue |-> q]

IsPending(entries, ip)  == entries[ip].state = "Pending"
IsResolved(entries, ip) == entries[ip].state = "Resolved"

\* The frames parked on `ip`, oldest first.
PendingQueue(entries, ip) ==
  IF IsPending(entries, ip) THEN entries[ip].queue ELSE <<>>

\* ArpCache::pending_addresses.  Resolved entries do not count.
PendingAddresses(entries) ==
  Cardinality({ip \in DOMAIN entries : IsPending(entries, ip)})

\* ArpCache::insert.  What it hands back is PendingQueue(entries, ip).
Insert(entries, ip, mac) == [entries EXCEPT ![ip] = Resolved(mac)]

\* The outcome queue_pending reports for a frame to `ip`.
Queued(entries, ip) ==
  IF IsPending(entries, ip)
       /\ Len(entries[ip].queue) < MAX_PENDING_PER_ADDRESS
  THEN "AlreadyPending"
  ELSE IF entries[ip] = Absent
            /\ PendingAddresses(entries) < MAX_PENDING_ADDRESSES
  THEN "RequestNeeded"
  ELSE "Dropped"

\* Mutant: a frame is parked in front of the ones already waiting.
QueuePendingFront(entries, ip, frame) ==
  IF Queued(entries, ip) = "Dropped" THEN entries
  ELSE [entries EXCEPT
          ![ip] = Pending(<<frame>> \o PendingQueue(entries, ip))]

\* ArpCache::queue_pending, its effect on the cache.
QueuePending(entries, ip, frame) ==
  IF Queued(entries, ip) = "Dropped" THEN entries
  ELSE [entries EXCEPT
          ![ip] = Pending(Append(PendingQueue(entries, ip), frame))]

=============================================================================
