-------------------------------- MODULE Lan --------------------------------
(***************************************************************************)
(* The interfaces on a link with what they talk to: DHCP servers and hosts *)
(* that answer ARP.  Neither is part of the repository; each is modelled   *)
(* from what handler.rs and net/src/dhcp.rs expect of it:                  *)
(*                                                                         *)
(*  - a server sets an address aside for each client it makes an offer to, *)
(*    releases it when the client's request names another server, and may  *)
(*    bind something other than what it offered;                           *)
(*  - a server broadcasts its replies, or sends them to the client's MAC   *)
(*    at the address it is about to hold (Unicast);                        *)
(*  - a server may acknowledge a request that names another (Careless), or *)
(*    refuse one that names it (Refusing);                                 *)
(*  - a host answers an ARP request for its address.                       *)
(*                                                                         *)
(* A delivery may be lost, at most MaxLost times.                          *)
(***************************************************************************)
EXTENDS NetworkInterface

CONSTANTS
  Server, Host,                 \* stations, identified by MAC address
  Unicast, Careless, Refusing,  \* servers with these habits
  Pool,                         \* addresses a server may hand out
  ServerId, ServerMask, Router, \* what a server's replies carry
  HostAddr,                     \* the address of a host
  MaxLost                       \* bound: deliveries lost

ASSUME LanAssumption ==
  /\ Server \cap Host = {} /\ Peer = Server \cup Host
  /\ Unicast \subseteq Server /\ Careless \subseteq Server
  /\ Refusing \subseteq Server
  /\ Pool \in [Server -> SUBSET (Addr \ {UNSPECIFIED})]
  /\ \A s, t \in Server : s # t => Pool[s] \cap Pool[t] = {}
  /\ \A s, t \in Server : s # t => ServerId[s] # ServerId[t]
  /\ ServerMask \in [Server -> Mask] /\ Router \in [Server -> Addr]
  /\ HostAddr \in [Host -> Addr]
  /\ MaxLost \in Nat

\* Nobody on the link impersonates another: an unprompted ARP frame gives its
\* sender's own address, a DHCP reply a client could take does not, unprompted,
\* name one of the servers, and an echo request comes from an address that occurs.
ASSUME StrayAssumption ==
  \A f \in Stray, c \in Interface :
    /\ IsArp(c, f) /\ f.src # c => f.src \in Host /\ f.sender_addr = HostAddr[f.src]
    /\ f.ethertype = "IPV4" =>
         /\ f.protocol = "UDP" /\ f.data.type \in {"Offer", "Ack"} /\ f.data.chaddr = c
              => \/ f.data.binding = None \/ f.data.binding.client_addr = UNSPECIFIED
                 \/ /\ f.data.type = "Ack"
                    /\ \A s \in Server : f.data.binding.server_id # ServerId[s]
         /\ f.protocol = "ICMP" /\ f.data.type = "echo" => f.source \in Addr

\* The hosts, a router among them, are on the local network of every address a
\* server hands out, none of which is a host's; echo requests come from a host or
\* from beyond that network.
Topology ==
  \A s \in Server, a \in UNION {Pool[t] : t \in Server} :
    LET Local(b) == SubSeq(b, 1, ServerMask[s]) = SubSeq(a, 1, ServerMask[s])
        Hosts    == {HostAddr[h] : h \in Host}
    IN  /\ Router[s] \in Hosts /\ a \notin Hosts
        /\ \A b \in Hosts : Local(b)
        /\ \A f \in Stray : f.ethertype = "IPV4" =>
             (f.protocol = "ICMP" /\ f.data.type = "echo"
                => f.source \in Hosts \/ ~Local(f.source))

VARIABLES
  offered,  \* address a server has set aside for a client
  lease,    \* address a server has committed to a client
  lost      \* deliveries lost so far

lanVars == <<offered, lease, lost>>
allVars == <<vars, lanVars>>

LanInit ==
  /\ Init
  /\ offered = [s \in Server |-> [c \in Interface |-> None]]
  /\ lease = [s \in Server |-> [c \in Interface |-> None]]
  /\ lost = 0

\* Addresses of `s` no other client has been offered or holds.
Free(s, c) ==
  {a \in Pool[s] : \A o \in Interface \ {c} : a \notin {offered[s][o], lease[s][o]}}

\* A server's message of type `type` to client `c` about address `a`.
ServerFrame(s, c, type, xid, a) ==
  LET msg == Dhcp(type, xid, c, Binding(a, ServerMask[s], Router[s], ServerId[s]))
  IN  IF s \in Unicast
      THEN Ipv4Frame(c, s, ServerId[s], a, "UDP", msg)
      ELSE Ipv4Frame(AllMac, s, ServerId[s], BROADCAST, "UDP", msg)

\* Delivery `d` is a client's DHCP message of type `type` at server `s`.
AtServer(s, d, type) ==
  d[1] = s /\ d[2].ethertype = "IPV4" /\ d[2].protocol = "UDP" /\ d[2].data.type = type

Names(s, msg) == msg.binding.server_id = ServerId[s]

\* A discover is answered with an offer, the same one each time.
Offer(s, d) ==
  LET msg == d[2].data
      c   == msg.chaddr
  IN  /\ AtServer(s, d, "Discover")
      /\ \E a \in IF offered[s][c] # None THEN {offered[s][c]} ELSE Free(s, c) :
           /\ offered' = [offered EXCEPT ![s][c] = a]
           /\ net' = Rest(d) \cup Transmit(ServerFrame(s, c, "Offer", msg.xid, a))
      /\ UNCHANGED <<nifVars, lease, lost>>

\* A request commits an address, the same one each time.
Ack(s, d) ==
  LET msg == d[2].data
      c   == msg.chaddr
  IN  /\ AtServer(s, d, "Request")
      /\ Names(s, msg) \/ s \in Careless
      /\ \E a \in IF lease[s][c] # None THEN {lease[s][c]} ELSE Free(s, c) :
           /\ lease' = [lease EXCEPT ![s][c] = a]
           /\ net' = Rest(d) \cup Transmit(ServerFrame(s, c, "Ack", msg.xid, a))
      /\ UNCHANGED <<nifVars, offered, lost>>

\* A request that names another server releases what was set aside.
Release(s, d) ==
  /\ AtServer(s, d, "Request") /\ ~Names(s, d[2].data)
  /\ offered' = [offered EXCEPT ![s][d[2].data.chaddr] = None]
  /\ net' = Rest(d)
  /\ UNCHANGED <<nifVars, lease, lost>>

\* A request is refused.
Nak(s, d) ==
  /\ s \in Refusing /\ AtServer(s, d, "Request") /\ Names(s, d[2].data)
  /\ lease[s][d[2].data.chaddr] = None
  /\ net' = Rest(d) \cup
       Transmit(ServerFrame(s, d[2].data.chaddr, "Nak", d[2].data.xid, UNSPECIFIED))
  /\ UNCHANGED <<nifVars, lanVars>>

\* A host answers an ARP request for its address.
HostReply(h, d) ==
  LET f == d[2]
  IN  /\ d[1] = h /\ f.ethertype = "ARP" /\ f.operation = "Request"
      /\ f.target_addr = HostAddr[h]
      /\ net' = Rest(d) \cup
           Transmit(ArpFrame(f.src, "Reply", h, HostAddr[h], f.sender_addr))
      /\ UNCHANGED <<nifVars, lanVars>>

\* The link loses a delivery.
Lose(d) ==
  /\ lost < MaxLost /\ lost' = lost + 1
  /\ net' = net \ {d}
  /\ UNCHANGED <<nifVars, offered, lease>>

PeerStep ==
  \/ \E s \in Server : \E d \in net :
       Offer(s, d) \/ Ack(s, d) \/ Release(s, d) \/ Nak(s, d)
  \/ \E h \in Host : \E d \in net : HostReply(h, d)

Next ==
  \/ InterfaceStep /\ UNCHANGED lanVars
  \/ PeerStep
  \/ \E d \in net : Lose(d)

Spec == LanInit /\ [][Next]_allVars

(***************************************************************************)
(* Fairness: a machine boots, network_task drains the receive queue, and   *)
(* peers answer.  Nothing is assumed of unprompted frames, and a lost      *)
(* delivery is never taken.                                                *)
(***************************************************************************)
Fairness ==
  /\ \A c \in Interface : WF_allVars(InitDhcp(c) /\ UNCHANGED lanVars)
  /\ \A c \in Interface : WF_allVars(\E d \in net : HandlePacket(c, d) /\ UNCHANGED lanVars)
  /\ WF_allVars(PeerStep)

FairSpec == Spec /\ Fairness

-----------------------------------------------------------------------------
(* Properties *)

Bindings(server) == {Binding(a, m, g, server) : a \in Addr, m \in Mask, g \in Addr}

DhcpStates ==
  {Idle} \cup {Selecting(x) : x \in Xid} \cup
  {Requesting(x, b) : x \in Xid, b \in UNION {Bindings(ServerId[s]) : s \in Server}}

\* The serial numbers of the frames parked on `a`.
Parked(c, a) == {PendingQueue(arp[c], a)[i].serial : i \in DOMAIN PendingQueue(arp[c], a)}

Sent(c) == {tx[c][i].serial : i \in DOMAIN tx[c]}

(* The cache keeps to the limits of net/src/arp.rs: no queue is empty or   *)
(* longer than MAX_PENDING_PER_ADDRESS and no more than                    *)
(* MAX_PENDING_ADDRESSES addresses are pending.  An interface has an       *)
(* address, a mask and a gateway or none of the three, and has them only   *)
(* while no exchange is open.                                              *)
TypeOK ==
  /\ up \subseteq Interface
  /\ dhcp \in [Interface -> DhcpStates]
  /\ echoes \in [Interface -> 0..MaxEcho]
  /\ \A d \in net : d[1] \in Station /\ d[2].src \in Station
  /\ \A s \in Server, c \in Interface :
       {offered[s][c], lease[s][c]} \subseteq Pool[s] \cup {None}
  /\ \A c \in Interface :
       /\ \/ ipv4[c] \in Addr /\ gateway[c] \in Addr /\ subnet_mask[c] \in Mask
             /\ dhcp[c] = Idle
          \/ ipv4[c] = None /\ gateway[c] = None /\ subnet_mask[c] = None
       /\ PendingAddresses(arp[c]) <= MAX_PENDING_ADDRESSES
       /\ \A a \in Addr :
            \/ arp[c][a] = Absent
            \/ IsResolved(arp[c], a) /\ arp[c][a].mac \in Station \ {c}
            \/ IsPending(arp[c], a) /\ Len(arp[c][a].queue) \in 1..MAX_PENDING_PER_ADDRESS

(* Two machines on the link are never configured with the same address,    *)
(* whatever replies to other clients' exchanges they overhear and even     *)
(* when both drew the same exchange id (handle_dhcp, from_message).        *)
AddressesUnique ==
  \A c, o \in Interface : ipv4[c] = ipv4[o] /\ ipv4[c] # None => c = o

(* A configured interface holds the address that the server it named in    *)
(* its request committed to it (handle_dhcp: "Only the server whose offer  *)
(* we took can commit it", "Configured from the acknowledgement rather     *)
(* than the offer").  Read where the link keeps what was sent.             *)
ConfiguredBySelected ==
  \A c \in Interface : ipv4[c] # None =>
    \E s \in Server :
      /\ lease[s][c] = ipv4[c]
      /\ \E d \in net :
           AtServer(s, d, "Request") /\ d[2].src = c /\ Names(s, d[2].data)

(* No machine puts an address on the link that no server has committed to  *)
(* it, as an ARP sender (handle_arp, send_arp_request) or as the source of *)
(* an echo reply (handle_icmp).                                            *)
AdvertisesOnlyLeased ==
  \A d \in net : d[2].src \in Interface =>
    LET Leased(a) == \E s \in Server : lease[s][d[2].src] = a
    IN  /\ d[2].ethertype = "ARP" => Leased(d[2].sender_addr)
        /\ d[2].ethertype = "IPV4" /\ d[2].protocol = "ICMP" => Leased(d[2].source)

(* Replies to one next hop leave in the order their requests came in, each *)
(* at most once, also when some were parked and others sent directly       *)
(* (send_ipv4, handle_arp, ArpCache::insert).                              *)
InOrder ==
  \A c \in Interface : \A i, j \in DOMAIN tx[c] :
    i < j /\ tx[c][i].mac = tx[c][j].mac => tx[c][i].serial < tx[c][j].serial

(* A reply goes to the station that has the next hop's address: the        *)
(* destination's own on the local network, the router's beyond it.         *)
DeliveredToNextHop ==
  \A c \in Interface : \A i \in DOMAIN tx[c] :
    LET local == {h \in Host : HostAddr[h] = tx[c][i].dest}
    IN  IF local # {} THEN tx[c][i].mac \in local
        ELSE \E h \in Host : h = tx[c][i].mac /\ HostAddr[h] = gateway[c]

(* A parked frame leaves its queue only by being sent: learning an address *)
(* "hands back every frame parked on it" and no frame is stranded          *)
(* (ArpCache::insert).                                                     *)
ParkedNotLost ==
  [][\A c \in Interface : \A a \in Addr : Parked(c, a) \ Parked(c, a)' \subseteq Sent(c)']_allVars

(* Unless the link loses a frame, every machine is configured in the end   *)
(* (handle_dhcp): no reply for another client, damaged or of a server that *)
(* was not selected ends the exchange.                                     *)
EventuallyBound == \A c \in Interface : <>(ipv4[c] # None \/ lost > 0)

(* A machine is configured in the end even when the link loses a message:  *)
(* the exchange is retried.  net/src/dhcp.rs promises it of the interface  *)
(* ("Sending, retransmission and lease state live with the interface that  *)
(* owns them"), and handler.rs retransmits nothing.                        *)
BoundDespiteLoss == \A c \in Interface : <>(ipv4[c] # None)

(* Unless the link loses a frame, one parked on a host's address does not  *)
(* stay parked: the first one sends the request whose reply releases it    *)
(* (send_ipv4, queue_pending).                                             *)
ParkedLeave ==
  \A c \in Interface : \A h \in Host :
    IsPending(arp[c], HostAddr[h]) ~> (IsResolved(arp[c], HostAddr[h]) \/ lost > 0)
=============================================================================
