------------------------------ MODULE LanProofs ------------------------------
(***************************************************************************)
(* Any number of machines, servers and hosts on a link.  One inductive     *)
(* invariant carries every result: what a frame on the link may claim,     *)
(* what a server has committed and what a machine is bound to support each *)
(* other, and the order of echo replies rests on all three, because        *)
(* replies to one station have one next hop only if stations own distinct  *)
(* addresses.                                                              *)
(***************************************************************************)
EXTENDS Lan, SequenceTheorems, TLAPS

-----------------------------------------------------------------------------
(* The inductive invariant *)

\* Station m has the address a: a host its own, a machine the one it is bound to.
Owner(m, a) ==
  \/ m \in Host /\ HostAddr[m] = a
  \/ m \in Interface /\ ipv4[m] # None /\ ipv4[m] = a

\* What is true of every frame on the link: ARP frames give their sender's own
\* address, ICMP frames are replies under it, a machine asks only for itself, and
\* a server's acknowledgement carries what it has committed.
FrameInv(f) ==
  /\ f.ethertype \in {"ARP", "IPV4"}
  /\ f.ethertype = "ARP" => Owner(f.src, f.sender_addr)
  /\ f.ethertype = "IPV4" /\ f.protocol = "ICMP" =>
       f.data.type = "reply" /\ f.src \in Interface /\ Owner(f.src, f.source)
  /\ f.ethertype = "IPV4" /\ f.protocol = "UDP" =>
       \/ /\ f.data.type \in {"Discover", "Request"}
          /\ f.src \in Interface /\ f.data.chaddr = f.src
       \/ /\ f.data.type \in {"Offer", "Ack", "Nak"}
          /\ f.data.chaddr \in Interface
          /\ \E s \in Server :
               /\ f.src = s /\ f.data.binding.server_id = ServerId[s]
               /\ f.data.type = "Ack" =>
                    /\ lease[s][f.data.chaddr] # None
                    /\ f.data.binding = Binding(lease[s][f.data.chaddr],
                                          ServerMask[s], Router[s], ServerId[s])

NetInv == \A d \in net : FrameInv(d[2])

\* A server commits an address of its pool, to one client.
LeaseInv ==
  /\ lease \in [Server -> [Interface -> Addr \cup {None}]]
  /\ \A s \in Server, c \in Interface : lease[s][c] \in Pool[s] \cup {None}
  /\ \A s \in Server : \A c, o \in Interface :
       lease[s][c] = lease[s][o] /\ lease[s][c] # None => c = o

\* The link keeps what was sent.
Keeps == Duplicating /\ MaxLost = 0

\* Where it does, a request by `c` that names `s` is still there.
Requested(s, c) ==
  Keeps => \E d \in net : AtServer(s, d, "Request") /\ d[2].src = c /\ Names(s, d[2].data)

\* A machine requests from a server, which it remembers, and is bound to what that
\* server has committed to it; then it takes part in no exchange any more.
ClientInv ==
  /\ ipv4 \in [Interface -> Addr \cup {None}]
  /\ DOMAIN dhcp = Interface
  /\ DOMAIN gateway = Interface /\ DOMAIN subnet_mask = Interface
  /\ \A c \in Interface :
       /\ dhcp[c].state \in {"Idle", "Selecting", "Requesting"}
       /\ c \notin up => ipv4[c] = None
       /\ dhcp[c].state = "Requesting" =>
            \E s \in Server : dhcp[c].offer.server_id = ServerId[s] /\ Requested(s, c)
       /\ ipv4[c] # None =>
            /\ dhcp[c].state = "Idle"
            /\ \E s \in Server :
                 /\ lease[s][c] = ipv4[c] /\ Requested(s, c)
                 /\ subnet_mask[c] = ServerMask[s] /\ gateway[c] = Router[s]

DhcpInv == NetInv /\ LeaseInv /\ ClientInv

\* An address an echo request may come from.
EchoSource(a) ==
  a \in Addr /\ \E f \in Stray : /\ f.ethertype = "IPV4" /\ f.protocol = "ICMP"
                                 /\ f.data.type = "echo" /\ f.source = a

\* A reply, parked or sent, is that of a bound interface to such an address, and
\* bears a number already used.
ReplyInv(c, p) ==
  /\ ipv4[c] # None /\ EchoSource(p.dest)
  /\ p.serial \in 1 .. echoes[c]

Packets == [source : Addr, dest : Addr, serial : Nat]
Replies == [mac : Station, dest : Addr, serial : Nat]
Entries ==
  {Absent} \cup {Resolved(m) : m \in Station} \cup {Pending(q) : q \in Seq(Packets)}

\* What waits for `a` has `a` as its next hop, in the order of the requests.
QueueInv(c, a, q) ==
  /\ \A i \in DOMAIN q :
       ReplyInv(c, q[i]) /\ NextHop(c, q[i].dest) = a /\ q[i].source = ipv4[c]
  /\ \A i, j \in DOMAIN q : i < j => q[i].serial < q[j].serial

\* An address is resolved to a station that has it.
EntryInv(c, a) ==
  /\ IsResolved(arp[c], a) => Owner(arp[c][a].mac, a)
  /\ IsPending(arp[c], a) => QueueInv(c, a, arp[c][a].queue)

\* What has been sent went to the owner of its next hop, which is resolved.
SentInv(c, r) ==
  /\ ReplyInv(c, r)
  /\ Owner(r.mac, NextHop(c, r.dest))
  /\ IsResolved(arp[c], NextHop(c, r.dest))

EchoInv ==
  /\ echoes \in [Interface -> Nat]
  /\ arp \in [Interface -> [Addr -> Entries]]
  /\ tx \in [Interface -> Seq(Replies)]
  /\ \A c \in Interface, a \in Addr : EntryInv(c, a)
  /\ \A c \in Interface : \A i \in DOMAIN tx[c] : SentInv(c, tx[c][i])
  /\ InOrder

LanInv == DhcpInv /\ EchoInv /\ lost \in Nat

-----------------------------------------------------------------------------
(* Facts that every step uses *)

\* What a machine is bound to and what a server has committed stay as they are.
Stable ==
  /\ \A c \in Interface : ipv4[c] # None => ipv4'[c] = ipv4[c]
  /\ \A s \in Server, c \in Interface : lease[s][c] # None => lease'[s][c] = lease[s][c]

\* Then a station keeps its address.
LEMMA OwnerKept ==
  ASSUME Stable, NEW m, NEW a, Owner(m, a)
  PROVE  Owner(m, a)'
BY DEF Stable, Owner

\* And what was true of a frame stays true of it.
LEMMA FrameKept ==
  ASSUME Stable, NEW f, FrameInv(f)
  PROVE  FrameInv(f)'
<1>1. f.ethertype = "ARP" => Owner(f.src, f.sender_addr)'
  BY OwnerKept DEF FrameInv
<1>2. f.ethertype = "IPV4" /\ f.protocol = "ICMP" => Owner(f.src, f.source)'
  BY OwnerKept DEF FrameInv
<1>3. ASSUME f.ethertype = "IPV4", f.protocol = "UDP",
             f.data.type \in {"Offer", "Ack", "Nak"}, f.data.type \notin {"Discover", "Request"}
      PROVE  /\ f.data.chaddr \in Interface
             /\ \E s \in Server :
               /\ f.src = s /\ f.data.binding.server_id = ServerId[s]
               /\ f.data.type = "Ack" =>
                    /\ lease'[s][f.data.chaddr] # None
                    /\ f.data.binding = Binding(lease'[s][f.data.chaddr],
                                          ServerMask[s], Router[s], ServerId[s])
  BY <1>3 DEF FrameInv, Stable
<1> QED BY <1>1, <1>2, <1>3 DEF FrameInv

\* A frame reaches the stations it is addressed to.
LEMMA TransmitFacts ==
  ASSUME NEW f
  PROVE  /\ \A d \in Transmit(f) : d[2] = f
         /\ f.dst = AllMac =>
              \A s \in Station : s # f.src => <<s, f>> \in Transmit(f)
BY DEF Transmit

\* Taking a delivery removes nothing else, and nothing at all where frames stay.
LEMMA RestFacts ==
  ASSUME NEW d
  PROVE  Rest(d) \subseteq net /\ (Keeps => Rest(d) = net)
BY DEF Rest, Keeps

\* Every station is of one kind.
LEMMA Stations ==
  /\ Interface \cap Server = {} /\ Interface \cap Host = {} /\ Server \cap Host = {}
  /\ Interface \subseteq Station /\ Server \subseteq Station /\ Host \subseteq Station
  /\ AllMac \notin Station
BY LinkAssumption, LanAssumption DEF Station

\* What a server sends.
LEMMA ServerFrameFacts ==
  ASSUME NEW s, NEW c, NEW type, NEW xid, NEW a
  PROVE  LET f == ServerFrame(s, c, type, xid, a)
         IN  /\ f.ethertype = "IPV4" /\ f.protocol = "UDP" /\ f.src = s
             /\ f.data.type = type /\ f.data.chaddr = c
             /\ f.data.binding = Binding(a, ServerMask[s], Router[s], ServerId[s])
             /\ f.data.binding.server_id = ServerId[s]
BY DEF ServerFrame, Ipv4Frame, Dhcp, Binding

-----------------------------------------------------------------------------
(* Leases and bindings *)

\* A request stays on a link that keeps what was sent.
LEMMA RequestedKept ==
  ASSUME Keeps => net \subseteq net', NEW s, NEW c, Requested(s, c)
  PROVE  Requested(s, c)'
BY DEF Requested, Keeps, AtServer, Names

\* Steps that concern no machine's exchange.
LEMMA ClientKept ==
  ASSUME ClientInv, Stable, Keeps => net \subseteq net',
         UNCHANGED <<up, ipv4, gateway, subnet_mask, dhcp>>
  PROVE  ClientInv'
<1> SUFFICES ASSUME NEW c \in Interface
             PROVE  /\ dhcp[c].state = "Requesting" =>
                         \E s \in Server : dhcp[c].offer.server_id = ServerId[s]
                                           /\ Requested(s, c)'
                    /\ ipv4[c] # None =>
                         /\ dhcp[c].state = "Idle"
                         /\ \E s \in Server :
                              /\ lease'[s][c] = ipv4[c] /\ Requested(s, c)'
                              /\ subnet_mask[c] = ServerMask[s]
                              /\ gateway[c] = Router[s]
  BY DEF ClientInv
<1>1. CASE dhcp[c].state = "Requesting"
  BY <1>1, RequestedKept DEF ClientInv
<1>2. CASE ipv4[c] # None
  <2>1. PICK s \in Server : /\ lease[s][c] = ipv4[c] /\ Requested(s, c)
                            /\ subnet_mask[c] = ServerMask[s] /\ gateway[c] = Router[s]
    BY <1>2 DEF ClientInv
  <2>2. lease'[s][c] = ipv4[c] /\ Requested(s, c)'
    BY <1>2, <2>1, RequestedKept DEF Stable
  <2> QED BY <1>2, <2>1, <2>2 DEF ClientInv
<1> QED BY <1>1, <1>2

\* A DHCP reply a machine takes comes from a server, which has committed what an
\* acknowledgement carries.
LEMMA ReplyGenuine ==
  ASSUME NetInv, NEW c \in Interface, NEW d \in Deliveries(c),
         d[2].ethertype = "IPV4", d[2].protocol = "UDP",
         NEW type \in {"Offer", "Ack"}, FromMessage(c, d[2].data, type)
  PROVE  \/ \E s \in Server :
              /\ d[2].data.binding.server_id = ServerId[s]
              /\ type = "Ack" =>
                   /\ lease[s][c] # None
                   /\ d[2].data.binding = Binding(lease[s][c], ServerMask[s], Router[s],
                                                  ServerId[s])
         \/ type = "Ack" /\ \A s \in Server : d[2].data.binding.server_id # ServerId[s]
<1>1. /\ d[2].data.chaddr = c /\ d[2].data.type = type
      /\ d[2].data.binding # None /\ d[2].data.binding.client_addr # UNSPECIFIED
  BY DEF FromMessage
<1>2. CASE d \in net
  BY <1>1, <1>2 DEF NetInv, FrameInv
<1>3. CASE d[2] \in Stray
  BY <1>1, <1>3, StrayAssumption
<1> QED BY <1>2, <1>3 DEF Deliveries

\* init_dhcp
LEMMA InitDhcpKeeps ==
  ASSUME LanInv, NEW c \in Interface, InitDhcp(c), UNCHANGED lanVars
  PROVE  DhcpInv'
<1>1. PICK xid \in Xid :
        /\ net' = net \cup Transmit(DhcpFrame(c, Dhcp("Discover", xid, c, None)))
        /\ dhcp' = [dhcp EXCEPT ![c] = Selecting(xid)]
  BY DEF InitDhcp
<1>2. /\ c \notin up /\ up' = up \cup {c}
      /\ UNCHANGED <<ipv4, gateway, subnet_mask, lease>>
  BY DEF InitDhcp, bindVars, lanVars
<1>3. Stable
  BY <1>2 DEF Stable
<1>4. NetInv'
  <2> SUFFICES ASSUME NEW d \in net' PROVE FrameInv(d[2])'
    BY DEF NetInv
  <2>1. CASE d \in net
    BY <1>3, <2>1, FrameKept DEF LanInv, DhcpInv, NetInv
  <2>2. CASE d[2] = DhcpFrame(c, Dhcp("Discover", xid, c, None))
    BY <2>2 DEF FrameInv, DhcpFrame, Ipv4Frame, Dhcp
  <2> QED BY <1>1, <2>1, <2>2, TransmitFacts
<1>5. LeaseInv'
  BY <1>2 DEF LanInv, DhcpInv, LeaseInv
<1>6. ClientInv'
  <2>1. ClientInv
    BY DEF LanInv, DhcpInv
  <2>2. /\ dhcp'[c] = Selecting(xid) /\ Selecting(xid).state = "Selecting"
        /\ ipv4[c] = None /\ \A o \in Interface : o # c => dhcp'[o] = dhcp[o]
        /\ DOMAIN dhcp' = Interface
    BY <1>1, <1>2, <2>1 DEF ClientInv, Selecting
  <2>3. \A s, o : Requested(s, o) => Requested(s, o)'
    BY <1>1, RequestedKept
  <2> QED BY <1>2, <2>1, <2>2, <2>3 DEF ClientInv
<1> QED BY <1>4, <1>5, <1>6 DEF DhcpInv

\* handle_dhcp, an offer
LEMMA HandleOfferKeeps ==
  ASSUME LanInv, NEW c \in Interface, NEW d \in Deliveries(c), HandleOffer(c, d),
         UNCHANGED lanVars
  PROVE  DhcpInv'
<1> DEFINE offer == d[2].data.binding
           request == Dhcp("Request", dhcp[c].xid, c, offer)
<1>1. /\ net' = Rest(d) \cup Transmit(DhcpFrame(c, request))
      /\ dhcp' = [dhcp EXCEPT ![c] = Requesting(dhcp[c].xid, offer)]
      /\ UNCHANGED <<up, ipv4, gateway, subnet_mask, lease>>
      /\ dhcp[c].state = "Selecting"
      /\ d[2].ethertype = "IPV4" /\ d[2].protocol = "UDP"
      /\ FromMessage(c, d[2].data, "Offer")
  BY DEF HandleOffer, IsOffer, IsIpv4, bindVars, lanVars
<1>2. NetInv /\ LeaseInv /\ ClientInv
  BY DEF LanInv, DhcpInv
<1>3. PICK s \in Server : offer.server_id = ServerId[s]
  BY <1>1, <1>2, ReplyGenuine
<1>4. Stable
  BY <1>1 DEF Stable
<1>5. NetInv'
  <2> SUFFICES ASSUME NEW e \in net' PROVE FrameInv(e[2])'
    BY DEF NetInv
  <2>1. CASE e \in net
    BY <1>2, <1>4, <2>1, FrameKept DEF NetInv
  <2>2. CASE e[2] = DhcpFrame(c, request)
    BY <2>2 DEF FrameInv, DhcpFrame, Ipv4Frame, Dhcp
  <2> QED BY <1>1, <2>1, <2>2, TransmitFacts, RestFacts
<1>6. LeaseInv'
  BY <1>1, <1>2 DEF LeaseInv
<1>7. Requested(s, c)'
  <2>1. s \in Station /\ s # c
    BY Stations
  <2>2. DhcpFrame(c, request).dst = AllMac /\ DhcpFrame(c, request).src = c
    BY DEF DhcpFrame, Ipv4Frame
  <2>3. <<s, DhcpFrame(c, request)>> \in net'
    BY <1>1, <2>1, <2>2, TransmitFacts
  <2>4. /\ DhcpFrame(c, request).ethertype = "IPV4"
        /\ DhcpFrame(c, request).protocol = "UDP"
        /\ DhcpFrame(c, request).data.type = "Request"
        /\ DhcpFrame(c, request).data.binding.server_id = ServerId[s]
    BY <1>3 DEF DhcpFrame, Ipv4Frame, Dhcp
  <2>5. PICK e \in net' : e = <<s, DhcpFrame(c, request)>>
    BY <2>3
  <2> QED BY <2>2, <2>4, <2>5 DEF Requested, AtServer, Names
<1>8. ClientInv'
  <2>1. /\ DOMAIN dhcp' = Interface /\ ipv4[c] = None
        /\ dhcp'[c].state = "Requesting" /\ dhcp'[c].offer.server_id = ServerId[s]
        /\ \A o \in Interface : o # c => dhcp'[o] = dhcp[o]
    BY <1>1, <1>2, <1>3 DEF ClientInv, Requesting
  <2>2. \A t, o : Requested(t, o) => Requested(t, o)'
    BY <1>1, RequestedKept, RestFacts
  <2> QED BY <1>1, <1>2, <1>7, <2>1, <2>2 DEF ClientInv
<1> QED BY <1>5, <1>6, <1>8 DEF DhcpInv

\* handle_dhcp, an acknowledgement
LEMMA HandleAckKeeps ==
  ASSUME LanInv, NEW c \in Interface, NEW d \in Deliveries(c), c \in up,
         HandleAck(c, d), UNCHANGED lanVars
  PROVE  DhcpInv' /\ Stable
<1> DEFINE ack == d[2].data.binding
<1>1. /\ ipv4' = [ipv4 EXCEPT ![c] = ack.client_addr]
      /\ subnet_mask' = [subnet_mask EXCEPT ![c] = ack.subnet_mask]
      /\ gateway' = [gateway EXCEPT ![c] = ack.gateway]
      /\ dhcp' = [dhcp EXCEPT ![c] = Idle]
      /\ net' = Rest(d) /\ UNCHANGED <<up, lease>>
      /\ dhcp[c].state = "Requesting"
      /\ d[2].ethertype = "IPV4" /\ d[2].protocol = "UDP"
      /\ FromMessage(c, d[2].data, "Ack") /\ ack.server_id = dhcp[c].offer.server_id
  BY DEF HandleAck, IsAck, IsIpv4, lanVars
<1>2. NetInv /\ LeaseInv /\ ClientInv
  BY DEF LanInv, DhcpInv
<1>3. PICK s \in Server : dhcp[c].offer.server_id = ServerId[s] /\ Requested(s, c)
  BY <1>1, <1>2 DEF ClientInv
<1>4. PICK t \in Server : /\ ack.server_id = ServerId[t] /\ lease[t][c] # None
                          /\ ack = Binding(lease[t][c], ServerMask[t], Router[t], ServerId[t])
  BY <1>1, <1>2, <1>3, ReplyGenuine
<1>5. s = t
  BY <1>1, <1>3, <1>4, LanAssumption
<1>6. /\ ack.client_addr = lease[s][c] /\ lease[s][c] # None /\ lease[s][c] \in Addr
      /\ ack.subnet_mask = ServerMask[s] /\ ack.gateway = Router[s]
  BY <1>2, <1>4, <1>5 DEF Binding, LeaseInv
<1>7. ipv4[c] = None /\ c \in up
  BY <1>1, <1>2 DEF ClientInv
<1>8. Stable
  BY <1>1, <1>2, <1>7 DEF Stable, ClientInv
<1>9. NetInv'
  <2> SUFFICES ASSUME NEW e \in net PROVE FrameInv(e[2])'
    BY <1>1, RestFacts DEF NetInv
  <2> QED BY <1>2, <1>8, FrameKept DEF NetInv
<1>10. LeaseInv'
  BY <1>1, <1>2 DEF LeaseInv
<1>11. ClientInv'
  <2>1. /\ DOMAIN dhcp' = Interface /\ DOMAIN gateway' = Interface
        /\ DOMAIN subnet_mask' = Interface
        /\ ipv4' \in [Interface -> Addr \cup {None}]
        /\ dhcp'[c].state = "Idle" /\ ipv4'[c] = lease[s][c]
        /\ subnet_mask'[c] = ServerMask[s] /\ gateway'[c] = Router[s]
        /\ \A o \in Interface : o # c =>
             /\ dhcp'[o] = dhcp[o] /\ ipv4'[o] = ipv4[o]
             /\ subnet_mask'[o] = subnet_mask[o] /\ gateway'[o] = gateway[o]
    BY <1>1, <1>2, <1>6 DEF ClientInv, Idle
  <2>2. \A u, o : Requested(u, o) => Requested(u, o)'
    BY <1>1, RequestedKept, RestFacts
  <2> QED BY <1>1, <1>2, <1>3, <1>7, <2>1, <2>2 DEF ClientInv
<1> QED BY <1>8, <1>9, <1>10, <1>11 DEF DhcpInv

\* An ARP frame a machine learns from gives its sender's own address.
LEMMA ArpGenuine ==
  ASSUME LanInv, NEW c \in Interface, NEW d \in Deliveries(c), IsArp(c, d[2]),
         d[2].src # c
  PROVE  Owner(d[2].src, d[2].sender_addr) /\ d[2].src \in Station
         /\ d[2].sender_addr \in Addr
<1>1. Owner(d[2].src, d[2].sender_addr)
  <2>1. CASE d \in net
    BY <2>1 DEF LanInv, DhcpInv, NetInv, FrameInv, IsArp
  <2>2. CASE d[2] \in Stray
    BY <2>2, StrayAssumption DEF Owner
  <2> QED BY <2>1, <2>2 DEF Deliveries
<1> QED
  BY <1>1, Stations, LanAssumption DEF Owner, LanInv, DhcpInv, ClientInv

\* An echo request comes from another station, and the reply has a next hop.
LEMMA EchoGenuine ==
  ASSUME LanInv, NEW c \in Interface, NEW d \in Deliveries(c), IsEcho(c, d[2])
  PROVE  /\ EchoSource(d[2].source) /\ ipv4[c] # None /\ ipv4[c] \in Addr
         /\ NextHop(c, d[2].source) \in Addr
<1>1. d[2].ethertype = "IPV4" /\ d[2].protocol = "ICMP" /\ d[2].data.type = "echo"
      /\ ipv4[c] # None
  BY DEF IsEcho, IsIpv4, Routable
<1>2. d \notin net
  BY <1>1 DEF LanInv, DhcpInv, NetInv, FrameInv
<1>3. d[2] \in Stray
  BY <1>2 DEF Deliveries
<1>4. d[2].source \in Addr
  BY <1>1, <1>3, StrayAssumption
<1>5. gateway[c] \in Addr /\ ipv4[c] \in Addr
  BY <1>1, LanAssumption DEF LanInv, DhcpInv, ClientInv
<1> QED BY <1>1, <1>3, <1>4, <1>5 DEF EchoSource, NextHop

\* What an entry of the cache may be.
LEMMA EntryKinds ==
  ASSUME NEW e \in Entries
  PROVE  \/ e.state = "Absent" /\ e = Absent
         \/ e.state = "Resolved" /\ e.mac \in Station
         \/ e.state = "Pending" /\ e.queue \in Seq(Packets)
BY DEF Entries, Absent, Resolved, Pending

\* The frames parked on an address are those of a sequence, all by this machine.
LEMMA ParkedFacts ==
  ASSUME LanInv, NEW c \in Interface, NEW a \in Addr
  PROVE  /\ Drained(c, a) \in Seq(Packets)
         /\ QueueInv(c, a, Drained(c, a))
         /\ Drained(c, a) # <<>> => IsPending(arp[c], a)
<1>1. arp[c][a] \in Entries /\ EntryInv(c, a)
  BY DEF LanInv, EchoInv
<1>2. CASE IsPending(arp[c], a)
  BY <1>1, <1>2, EntryKinds DEF Drained, PendingQueue, EntryInv, IsPending
<1>3. CASE ~IsPending(arp[c], a)
  BY <1>3 DEF Drained, PendingQueue, QueueInv
<1> QED BY <1>2, <1>3

\* handle_arp
LEMMA HandleArpKeepsNet ==
  ASSUME LanInv, NEW c \in Interface, NEW d \in Deliveries(c), HandleArp(c, d),
         UNCHANGED lanVars
  PROVE  DhcpInv'
<1> DEFINE f == d[2]
           parked == Drained(c, f.sender_addr)
<1>1. /\ UNCHANGED <<up, ipv4, gateway, subnet_mask, dhcp, lease>>
      /\ IsArp(c, f)
  BY DEF HandleArp, bindVars, lanVars
<1>2. /\ Rest(d) \subseteq net'
      /\ \A e \in net' : \/ e \in Rest(d) \/ e \in ArpReply(c, f)
                         \/ /\ f.src # c
                            /\ \E i \in DOMAIN parked :
                                 e \in Transmit(ReplyFrame(c, f.src, parked[i]))
  BY DEF HandleArp
<1>3. Stable
  BY <1>1 DEF Stable
<1>4. NetInv'
  <2> SUFFICES ASSUME NEW e \in net' PROVE FrameInv(e[2])'
    BY DEF NetInv
  <2>1. CASE e \in Rest(d)
    BY <1>3, <2>1, FrameKept, RestFacts DEF LanInv, DhcpInv, NetInv
  <2>2. CASE e \in ArpReply(c, f)
    <3>1. ipv4[c] # None /\ e[2] = ArpFrame(f.src, "Reply", c, ipv4[c], f.sender_addr)
      BY <2>2, TransmitFacts DEF ArpReply
    <3>2. e[2].ethertype = "ARP" /\ e[2].src = c /\ e[2].sender_addr = ipv4[c]
      BY <3>1 DEF ArpFrame
    <3> QED BY <1>1, <3>1, <3>2 DEF FrameInv, Owner
  <2>3. ASSUME f.src # c, NEW i \in DOMAIN parked,
               e \in Transmit(ReplyFrame(c, f.src, parked[i]))
        PROVE  FrameInv(e[2])'
    <3>1. f.sender_addr \in Addr
      BY <1>1, <2>3, ArpGenuine
    <3>2. parked[i].source = ipv4[c] /\ ipv4[c] # None
      BY <3>1, ParkedFacts DEF QueueInv, ReplyInv
    <3>3. e[2] = ReplyFrame(c, f.src, parked[i])
      BY <2>3, TransmitFacts
    <3>4. /\ e[2].ethertype = "IPV4" /\ e[2].protocol = "ICMP" /\ e[2].src = c
          /\ e[2].source = ipv4[c] /\ e[2].data.type = "reply"
      BY <3>2, <3>3 DEF ReplyFrame, Ipv4Frame, Icmp
    <3> QED BY <1>1, <3>2, <3>4 DEF FrameInv, Owner
  <2> QED BY <1>2, <2>1, <2>2, <2>3
<1>5. LeaseInv'
  BY <1>1 DEF LanInv, DhcpInv, LeaseInv
<1>6. ClientInv'
  BY <1>1, <1>2, <1>3, ClientKept, RestFacts DEF LanInv, DhcpInv
<1> QED BY <1>4, <1>5, <1>6 DEF DhcpInv

\* handle_icmp and send_ipv4
LEMMA EchoKeepsNet ==
  ASSUME LanInv, NEW c \in Interface, NEW d \in Deliveries(c),
         EchoDirect(c, d) \/ EchoParked(c, d), UNCHANGED lanVars
  PROVE  DhcpInv'
<1>1. /\ UNCHANGED <<up, ipv4, gateway, subnet_mask, dhcp, lease>>
      /\ IsEcho(c, d[2])
  BY DEF EchoDirect, EchoParked, Echo, bindVars, lanVars
<1>2. ipv4[c] # None
  BY <1>1, EchoGenuine
<1>3. Stable
  BY <1>1 DEF Stable
<1>4. /\ Rest(d) \subseteq net'
      /\ \A e \in net' :
           \/ e \in Rest(d)
           \/ \E mac : e[2] = ReplyFrame(c, mac, Packet(c, d))
           \/ \E hop : e[2] = ArpFrame(AllMac, "Request", c, ipv4[c], hop)
  BY TransmitFacts DEF EchoDirect, EchoParked
<1>5. NetInv'
  <2> SUFFICES ASSUME NEW e \in net' PROVE FrameInv(e[2])'
    BY DEF NetInv
  <2>1. CASE e \in Rest(d)
    BY <1>3, <2>1, FrameKept, RestFacts DEF LanInv, DhcpInv, NetInv
  <2>2. ASSUME NEW mac, e[2] = ReplyFrame(c, mac, Packet(c, d)) PROVE FrameInv(e[2])'
    <3>1. /\ e[2].ethertype = "IPV4" /\ e[2].protocol = "ICMP" /\ e[2].src = c
          /\ e[2].source = ipv4[c] /\ e[2].data.type = "reply"
      BY <2>2 DEF ReplyFrame, Ipv4Frame, Icmp, Packet
    <3> QED BY <1>1, <1>2, <3>1 DEF FrameInv, Owner
  <2>3. ASSUME NEW hop, e[2] = ArpFrame(AllMac, "Request", c, ipv4[c], hop)
        PROVE  FrameInv(e[2])'
    <3>1. e[2].ethertype = "ARP" /\ e[2].src = c /\ e[2].sender_addr = ipv4[c]
      BY <2>3 DEF ArpFrame
    <3> QED BY <1>1, <1>2, <3>1 DEF FrameInv, Owner
  <2> QED BY <1>4, <2>1, <2>2, <2>3
<1>6. LeaseInv'
  BY <1>1 DEF LanInv, DhcpInv, LeaseInv
<1>7. ClientInv'
  BY <1>1, <1>3, <1>4, ClientKept, RestFacts DEF LanInv, DhcpInv
<1> QED BY <1>5, <1>6, <1>7 DEF DhcpInv

\* A DHCP message a server answers is a machine's own.
LEMMA ClientMessage ==
  ASSUME NetInv, NEW s, NEW d \in net, NEW type \in {"Discover", "Request"},
         AtServer(s, d, type)
  PROVE  d[2].data.chaddr \in Interface
BY DEF NetInv, FrameInv, AtServer

\* A frame of a server keeps the link's invariant, an acknowledgement if it says
\* what the server has committed.
LEMMA ServerSends ==
  ASSUME LanInv, Stable, NEW s \in Server, NEW c \in Interface, NEW d, NEW xid, NEW a,
         NEW type \in {"Offer", "Ack", "Nak"},
         net' = Rest(d) \cup Transmit(ServerFrame(s, c, type, xid, a)),
         type = "Ack" => lease'[s][c] = a /\ a # None
  PROVE  NetInv'
<1> SUFFICES ASSUME NEW e \in net' PROVE FrameInv(e[2])'
  BY DEF NetInv
<1>1. CASE e \in Rest(d)
  BY <1>1, FrameKept, RestFacts DEF LanInv, DhcpInv, NetInv
<1>2. CASE e[2] = ServerFrame(s, c, type, xid, a)
  <2>1. /\ e[2].ethertype = "IPV4" /\ e[2].protocol = "UDP" /\ e[2].src = s
        /\ e[2].data.type = type /\ e[2].data.chaddr = c
        /\ e[2].data.binding = Binding(a, ServerMask[s], Router[s], ServerId[s])
        /\ e[2].data.binding.server_id = ServerId[s]
    BY <1>2, ServerFrameFacts
  <2> QED BY <2>1 DEF FrameInv
<1> QED BY <1>1, <1>2, TransmitFacts

\* The servers.
LEMMA ServerKeeps ==
  ASSUME LanInv, NEW s \in Server, NEW d \in net,
         Offer(s, d) \/ Ack(s, d) \/ Release(s, d) \/ Nak(s, d)
  PROVE  DhcpInv' /\ Stable
<1> DEFINE c == d[2].data.chaddr
           xid == d[2].data.xid
<1>1. UNCHANGED <<up, ipv4, gateway, subnet_mask, dhcp>> /\ Rest(d) \subseteq net'
  BY DEF Offer, Ack, Release, Nak, nifVars, bindVars
<1>2. c \in Interface
  BY ClientMessage DEF Offer, Ack, Release, Nak, LanInv, DhcpInv
<1>3. NetInv /\ LeaseInv /\ ClientInv
  BY DEF LanInv, DhcpInv
<1>4. CASE ~Ack(s, d)
  <2>1. UNCHANGED lease
    BY <1>4 DEF Offer, Release, Nak, lanVars
  <2>2. Stable
    BY <1>1, <2>1 DEF Stable
  <2>3. CASE Offer(s, d)
    <3>1. PICK a : net' = Rest(d) \cup Transmit(ServerFrame(s, c, "Offer", xid, a))
      BY <2>3 DEF Offer
    <3> QED BY <1>2, <2>2, <3>1, ServerSends, <1>1, <1>3, <2>1, ClientKept, RestFacts
            DEF DhcpInv, LeaseInv
  <2>4. CASE Nak(s, d)
    <3>1. net' = Rest(d) \cup Transmit(ServerFrame(s, c, "Nak", xid, UNSPECIFIED))
      BY <2>4 DEF Nak
    <3> QED BY <1>2, <2>2, <3>1, ServerSends, <1>1, <1>3, <2>1, ClientKept, RestFacts
            DEF DhcpInv, LeaseInv
  <2>5. CASE Release(s, d)
    <3>1. net' = Rest(d)
      BY <2>5 DEF Release
    <3>2. NetInv'
      BY <1>3, <2>2, <3>1, FrameKept, RestFacts DEF NetInv
    <3> QED BY <2>2, <3>2, <1>1, <1>3, <2>1, ClientKept, RestFacts DEF DhcpInv, LeaseInv
  <2> QED BY <1>4, <2>3, <2>4, <2>5
<1>5. CASE Ack(s, d)
  <2>1. PICK a \in IF lease[s][c] # None THEN {lease[s][c]} ELSE Free(s, c) :
          /\ lease' = [lease EXCEPT ![s][c] = a]
          /\ net' = Rest(d) \cup Transmit(ServerFrame(s, c, "Ack", xid, a))
    BY <1>5 DEF Ack
  <2>2. a \in Pool[s] /\ \A o \in Interface : o # c => a # lease[s][o]
    BY <1>2, <1>3, <2>1 DEF Free, LeaseInv
  <2>3. a \in Addr /\ a # None
    BY <2>2, LanAssumption, LinkAssumption
  <2>4. /\ lease'[s][c] = a
        /\ \A t \in Server, o \in Interface :
             ~(t = s /\ o = c) => lease'[t][o] = lease[t][o]
        /\ lease' \in [Server -> [Interface -> Addr \cup {None}]]
    BY <1>2, <1>3, <2>1, <2>3 DEF LeaseInv
  <2>5. Stable
    BY <1>1, <2>1, <2>4 DEF Stable
  <2>6. LeaseInv'
    <3>1. \A t \in Server, o \in Interface : lease'[t][o] \in Pool[t] \cup {None}
      BY <1>3, <2>2, <2>4 DEF LeaseInv
    <3>2. ASSUME NEW t \in Server, NEW o \in Interface, NEW p \in Interface,
                 lease'[t][o] = lease'[t][p], lease'[t][o] # None
          PROVE  o = p
      <4>1. CASE t # s
        BY <1>3, <2>4, <3>2, <4>1 DEF LeaseInv
      <4>2. CASE t = s
        BY <1>3, <2>2, <2>4, <3>2, <4>2 DEF LeaseInv
      <4> QED BY <4>1, <4>2
    <3> QED BY <2>4, <3>1, <3>2 DEF LeaseInv
  <2>7. NetInv'
    BY <1>2, <2>1, <2>3, <2>4, <2>5, ServerSends
  <2>8. ClientInv'
    BY <1>1, <1>3, <2>5, ClientKept, RestFacts
  <2> QED BY <2>5, <2>6, <2>7, <2>8 DEF DhcpInv
<1> QED BY <1>4, <1>5

\* The hosts.
LEMMA HostKeeps ==
  ASSUME LanInv, NEW h \in Host, NEW d \in net, HostReply(h, d)
  PROVE  DhcpInv'
<1>1. /\ UNCHANGED <<up, ipv4, gateway, subnet_mask, dhcp, lease>>
      /\ net' = Rest(d) \cup
           Transmit(ArpFrame(d[2].src, "Reply", h, HostAddr[h], d[2].sender_addr))
  BY DEF HostReply, nifVars, bindVars, lanVars
<1>2. Stable
  BY <1>1 DEF Stable
<1>3. NetInv'
  <2> SUFFICES ASSUME NEW e \in net' PROVE FrameInv(e[2])'
    BY DEF NetInv
  <2>1. CASE e \in Rest(d)
    BY <1>2, <2>1, FrameKept, RestFacts DEF LanInv, DhcpInv, NetInv
  <2>2. CASE e[2] = ArpFrame(d[2].src, "Reply", h, HostAddr[h], d[2].sender_addr)
    BY <2>2 DEF ArpFrame, FrameInv, Owner
  <2> QED BY <1>1, <2>1, <2>2, TransmitFacts
<1>4. LeaseInv' /\ ClientInv'
  BY <1>1, <1>2, ClientKept, RestFacts DEF LanInv, DhcpInv, LeaseInv
<1> QED BY <1>3, <1>4 DEF DhcpInv

\* Steps that take a frame off the link, at most.
LEMMA TakenKeeps ==
  ASSUME LanInv, net' \subseteq net, Keeps => net' = net,
         UNCHANGED <<up, ipv4, gateway, subnet_mask, dhcp, lease>>
  PROVE  DhcpInv'
<1>1. Stable
  BY DEF Stable
<1>2. NetInv'
  BY <1>1, FrameKept DEF LanInv, DhcpInv, NetInv
<1>3. LeaseInv' /\ ClientInv'
  BY <1>1, ClientKept DEF LanInv, DhcpInv, LeaseInv
<1> QED BY <1>2, <1>3 DEF DhcpInv

-----------------------------------------------------------------------------
(* Echo replies *)

\* A bound machine keeps its gateway and its mask as well.
Steady ==
  /\ Stable
  /\ \A c \in Interface : ipv4[c] # None =>
       gateway'[c] = gateway[c] /\ subnet_mask'[c] = subnet_mask[c]

\* So do the next hops of a bound machine.
LEMMA HopKept ==
  ASSUME Steady, NEW c \in Interface, ipv4[c] # None, NEW a
  PROVE  NextHop(c, a)' = NextHop(c, a)
BY DEF Steady, Stable, NextHop, OnLink

\* A reply that was in order stays so while the count of echoes only grows.
LEMMA ReplyKept ==
  ASSUME Steady, NEW c \in Interface, echoes[c] \in Nat, echoes'[c] \in Nat,
         echoes[c] <= echoes'[c], NEW p, ReplyInv(c, p)
  PROVE  ReplyInv(c, p)'
BY DEF Steady, Stable, ReplyInv, EchoSource

\* And so does a queue of such replies.
LEMMA QueueKept ==
  ASSUME Steady, NEW c \in Interface, echoes[c] \in Nat, echoes'[c] \in Nat,
         echoes[c] <= echoes'[c], NEW a, NEW q, QueueInv(c, a, q)
  PROVE  QueueInv(c, a, q)'
<1>1. ASSUME NEW i \in DOMAIN q
      PROVE  (ReplyInv(c, q[i]) /\ NextHop(c, q[i].dest) = a /\ q[i].source = ipv4[c])'
  <2>1. ReplyInv(c, q[i]) /\ NextHop(c, q[i].dest) = a /\ q[i].source = ipv4[c]
    BY DEF QueueInv
  <2>2. ipv4[c] # None /\ ipv4'[c] = ipv4[c]
    BY <2>1 DEF ReplyInv, Steady, Stable
  <2> QED BY <2>1, <2>2, ReplyKept, HopKept
<1> QED BY <1>1 DEF QueueInv

\* An entry that a step does not touch.
LEMMA EntryKept ==
  ASSUME Steady, NEW c \in Interface, echoes[c] \in Nat, echoes'[c] \in Nat,
         echoes[c] <= echoes'[c], NEW a, arp'[c][a] = arp[c][a], EntryInv(c, a)
  PROVE  EntryInv(c, a)'
<1>1. IsResolved(arp[c], a)' => Owner(arp[c][a].mac, a)'
  BY OwnerKept DEF IsResolved, EntryInv, Steady
<1>2. IsPending(arp[c], a)' => QueueInv(c, a, arp[c][a].queue)'
  <2>1. ASSUME IsPending(arp[c], a)' PROVE QueueInv(c, a, arp[c][a].queue)
    BY <2>1 DEF IsPending, EntryInv
  <2>2. \A q : QueueInv(c, a, q) => QueueInv(c, a, q)'
    BY QueueKept
  <2>3. \A q : q = arp[c][a].queue => q = arp'[c][a].queue
    OBVIOUS
  <2> QED BY <2>1, <2>2, <2>3 DEF QueueInv
<1> QED BY <1>1, <1>2 DEF EntryInv

\* A reply that was sent, while its next hop stays resolved.
LEMMA SentKept ==
  ASSUME Steady, NEW c \in Interface, echoes[c] \in Nat, echoes'[c] \in Nat,
         echoes[c] <= echoes'[c],
         \A a \in Addr : IsResolved(arp[c], a) => IsResolved(arp[c], a)',
         NEW r, SentInv(c, r), NextHop(c, r.dest) \in Addr
  PROVE  SentInv(c, r)'
<1>1. ipv4[c] # None
  BY DEF SentInv, ReplyInv
<1>2. NextHop(c, r.dest)' = NextHop(c, r.dest)
  BY <1>1, HopKept
<1>3. ReplyInv(c, r)'
  BY ReplyKept DEF SentInv
<1>4. \A a : Owner(r.mac, a) => Owner(r.mac, a)'
  BY OwnerKept DEF Steady
<1>5. \A a \in Addr : a = NextHop(c, r.dest) =>
        Owner(r.mac, a)' /\ IsResolved(arp[c], a)'
  BY <1>4 DEF SentInv
<1> QED BY <1>2, <1>3, <1>5 DEF SentInv, Owner, IsResolved

\* The next hop of a reply is an address that occurs.
LEMMA HopAddr ==
  ASSUME LanInv, NEW c \in Interface, NEW p, ReplyInv(c, p)
  PROVE  NextHop(c, p.dest) \in Addr
<1>1. gateway[c] \in Addr
  BY LanAssumption DEF ReplyInv, LanInv, DhcpInv, ClientInv
<1> QED BY <1>1 DEF NextHop, ReplyInv, EchoSource

\* Steps that concern no echo.
LEMMA EchoKept ==
  ASSUME LanInv, Steady, UNCHANGED <<arp, echoes, tx>>
  PROVE  EchoInv'
<1>1. \A c \in Interface : echoes[c] \in Nat
  BY DEF LanInv, EchoInv
<1>2. \A c \in Interface, a \in Addr : EntryInv(c, a)'
  BY <1>1, EntryKept DEF LanInv, EchoInv
<1>3. ASSUME NEW c \in Interface, NEW i \in DOMAIN tx[c] PROVE SentInv(c, tx[c][i])'
  <2>1. PICK r : r = tx[c][i]
    OBVIOUS
  <2>2. SentInv(c, r) /\ NextHop(c, r.dest) \in Addr
    BY <2>1, HopAddr DEF LanInv, EchoInv, SentInv
  <2>3. SentInv(c, r)'
    BY <1>1, <2>2, SentKept DEF IsResolved
  <2> QED BY <2>1, <2>3
<1> QED BY <1>2, <1>3 DEF LanInv, EchoInv, InOrder

\* handle_arp: what was parked on an address leaves for its owner, after all that
\* has been sent there, which is nothing.
LEMMA HandleArpKeepsEcho ==
  ASSUME LanInv, NEW c \in Interface, NEW d \in Deliveries(c), HandleArp(c, d),
         UNCHANGED lanVars
  PROVE  EchoInv'
<1> DEFINE m == d[2].src
           a == d[2].sender_addr
           parked == Drained(c, a)
<1>1. UNCHANGED <<ipv4, gateway, subnet_mask, echoes, lease>> /\ IsArp(c, d[2])
  BY DEF HandleArp, bindVars, lanVars
<1>2. Steady
  BY <1>1 DEF Steady, Stable
<1>3. CASE m = c
  BY <1>1, <1>2, <1>3, EchoKept DEF HandleArp
<1>4. CASE m # c
  <2>1. /\ arp' = [arp EXCEPT ![c] = [arp[c] EXCEPT ![a] = Resolved(m)]]
        /\ tx' = [tx EXCEPT ![c] =
                    tx[c] \o [i \in DOMAIN parked |-> Reply(m, parked[i])]]
    BY <1>4 DEF HandleArp, Insert
  <2>2. Owner(m, a) /\ m \in Station /\ a \in Addr
    BY <1>1, <1>4, ArpGenuine
  <2>3. /\ parked \in Seq(Packets) /\ QueueInv(c, a, parked)
        /\ parked # <<>> => IsPending(arp[c], a)
    BY <2>2, ParkedFacts
  <2>4. /\ arp \in [Interface -> [Addr -> Entries]] /\ tx \in [Interface -> Seq(Replies)]
        /\ echoes \in [Interface -> Nat] /\ tx[c] \in Seq(Replies)
    BY DEF LanInv, EchoInv
  <2>5. /\ arp' \in [Interface -> [Addr -> Entries]]
        /\ arp'[c][a] = Resolved(m)
        /\ \A o \in Interface, b \in Addr :
             ~(o = c /\ b = a) => arp'[o][b] = arp[o][b]
    <3>1. Resolved(m) \in Entries
      BY <2>2 DEF Entries
    <3> QED BY <2>1, <2>2, <2>4, <3>1
  <2>6. Resolved(m).state = "Resolved" /\ Resolved(m).mac = m
    BY DEF Resolved
  <2>7. \A o \in Interface, b \in Addr : EntryInv(o, b)'
    <3>1. ASSUME NEW o \in Interface, NEW b \in Addr, ~(o = c /\ b = a)
          PROVE  EntryInv(o, b)'
      <4>1. /\ EntryInv(o, b) /\ echoes[o] \in Nat /\ echoes'[o] = echoes[o]
            /\ arp'[o][b] = arp[o][b]
        BY <1>1, <2>4, <2>5, <3>1 DEF LanInv, EchoInv
      <4>2. echoes'[o] \in Nat /\ echoes[o] <= echoes'[o]
        BY <4>1
      <4> QED BY <1>2, <4>1, <4>2, EntryKept
    <3>2. EntryInv(c, a)'
      <4>1. Owner(m, a)'
        BY <1>1, <2>2 DEF Owner
      <4>2. \A b : b = a => EntryInv(c, b)'
        BY <2>5, <2>6, <4>1 DEF EntryInv, IsResolved, IsPending, Owner
      <4>3. a \in Addr /\ a' = a
        BY <2>2
      <4> QED BY <4>2, <4>3
    <3> QED BY <3>1, <3>2
  <2>8. \A o \in Interface, b \in Addr : IsResolved(arp[o], b) => IsResolved(arp[o], b)'
    BY <2>5, <2>6 DEF IsResolved
  <2>9. \A o \in Interface : \A r : SentInv(o, r) => SentInv(o, r)'
    <3> SUFFICES ASSUME NEW o \in Interface, NEW r, SentInv(o, r) PROVE SentInv(o, r)'
      OBVIOUS
    <3>1. NextHop(o, r.dest) \in Addr
      BY HopAddr DEF SentInv
    <3>2. echoes[o] \in Nat /\ echoes'[o] \in Nat /\ echoes[o] <= echoes'[o]
      BY <1>1, <2>4
    <3> QED BY <1>2, <2>8, <3>1, <3>2, SentKept
  <2> DEFINE new == [i \in DOMAIN parked |-> Reply(m, parked[i])]
             n == Len(tx[c])
  <2>10. /\ new \in Seq(Replies) /\ Len(new) = Len(parked)
         /\ \A i \in 1 .. Len(parked) :
              new[i].mac = m /\ new[i].dest = parked[i].dest
              /\ new[i].serial = parked[i].serial
    <3>1. DOMAIN parked = 1 .. Len(parked) /\ Len(parked) \in Nat
      BY <2>3
    <3>2. \A i \in 1 .. Len(parked) : Reply(m, parked[i]) \in Replies
      <4>1. \A i \in 1 .. Len(parked) : parked[i] \in Packets
        BY <2>3, <3>1
      <4>2. \A p \in Packets : Reply(m, p) \in Replies
        BY <2>2 DEF Reply, Replies, Packets
      <4> QED BY <4>1, <4>2
    <3>3. new \in Seq(Replies) /\ Len(new) = Len(parked)
      BY <3>1, <3>2
    <3> QED BY <3>1, <3>3 DEF Reply
  <2>11. /\ tx'[c] \in Seq(Replies) /\ Len(tx'[c]) = n + Len(parked)
         /\ n \in Nat /\ Len(parked) \in Nat
         /\ \A i \in 1 .. n + Len(parked) :
              tx'[c][i] = IF i <= n THEN tx[c][i] ELSE new[i - n]
         /\ DOMAIN tx'[c] = 1 .. n + Len(parked) /\ DOMAIN tx[c] = 1 .. n
    <3>1. tx'[c] = tx[c] \o new
      BY <2>1, <2>4
    <3> HIDE DEF new
    <3>2. /\ tx[c] \o new \in Seq(Replies) /\ Len(tx[c] \o new) = n + Len(parked)
          /\ n \in Nat /\ Len(parked) \in Nat
          /\ \A i \in 1 .. n + Len(parked) :
               (tx[c] \o new)[i] = IF i <= n THEN tx[c][i] ELSE new[i - n]
      <4>1. n \in Nat /\ Len(parked) \in Nat /\ Len(new) = Len(parked)
        BY <2>3, <2>4, <2>10
      <4>2. new \in Seq(Replies) /\ tx[c] \in Seq(Replies)
        BY <2>4, <2>10
      <4>3. /\ tx[c] \o new \in Seq(Replies) /\ Len(tx[c] \o new) = Len(tx[c]) + Len(new)
            /\ \A i \in 1 .. Len(tx[c]) + Len(new) :
                 (tx[c] \o new)[i] = IF i <= Len(tx[c]) THEN tx[c][i]
                                                       ELSE new[i - Len(tx[c])]
        BY <4>2, ConcatProperties, Zenon
      <4> QED BY <4>1, <4>3
    <3>3. DOMAIN tx'[c] = 1 .. n + Len(parked) /\ DOMAIN tx[c] = 1 .. n
      BY <2>4, <3>1, <3>2
    <3> QED BY <3>1, <3>2, <3>3
  <2>12. tx' \in [Interface -> Seq(Replies)] /\ \A o \in Interface : o # c => tx'[o] = tx[o]
    BY <2>1, <2>4, <2>11
  <2> HIDE DEF new, n
  <2>13. ASSUME NEW i \in 1 .. Len(parked), NEW r, r = new[i] PROVE SentInv(c, r)'
    <3>1. ReplyInv(c, parked[i]) /\ NextHop(c, parked[i].dest) = a
      BY <2>3 DEF QueueInv
    <3>2. /\ ipv4[c] # None /\ EchoSource(r.dest) /\ r.serial \in 1 .. echoes[c]
          /\ r.mac = m /\ NextHop(c, r.dest) = a
      BY <2>10, <2>13, <3>1 DEF ReplyInv
    <3>4. ReplyInv(c, r)'
      BY <1>1, <3>2 DEF ReplyInv, EchoSource
    <3>5. NextHop(c, r.dest)' = a
      BY <1>2, <3>2, HopKept
    <3>6. \A b : b = a => Owner(m, b)' /\ IsResolved(arp[c], b)'
      BY <1>1, <2>2, <2>5, <2>6 DEF Owner, IsResolved
    <3> QED BY <3>2, <3>4, <3>5, <3>6 DEF SentInv, Owner, IsResolved
  <2>14. ASSUME NEW o \in Interface, NEW i \in DOMAIN tx'[o], NEW r, r = tx'[o][i]
         PROVE  SentInv(o, r)'
    <3>1. CASE o # c
      BY <2>9, <2>12, <2>14, <3>1 DEF LanInv, EchoInv
    <3>2. CASE o = c
      <4>1. i \in 1 .. n + Len(parked)
        BY <2>11, <2>14, <3>2
      <4>2. CASE i <= n
        <5>1. r = tx[c][i] /\ i \in DOMAIN tx[c]
          BY <2>4, <2>11, <2>14, <3>2, <4>1, <4>2
        <5>2. SentInv(c, r)
          BY <5>1 DEF LanInv, EchoInv
        <5> QED BY <2>9, <3>2, <5>2
      <4>3. CASE ~(i <= n)
        <5>1. r = new[i - n] /\ i - n \in 1 .. Len(parked)
          BY <2>11, <2>14, <3>2, <4>1, <4>3
        <5> QED BY <2>13, <3>2, <5>1
      <4> QED BY <4>2, <4>3
    <3> QED BY <3>1, <3>2
  <2>15. InOrder'
    <3> SUFFICES ASSUME NEW o \in Interface, NEW i \in DOMAIN tx'[o],
                        NEW j \in DOMAIN tx'[o], i < j, tx'[o][i].mac = tx'[o][j].mac
                 PROVE  tx'[o][i].serial < tx'[o][j].serial
      BY DEF InOrder
    <3>1. CASE o # c
      BY <2>12, <3>1 DEF LanInv, EchoInv, InOrder
    <3>2. CASE o = c
      <4>1. i \in 1 .. n + Len(parked) /\ j \in 1 .. n + Len(parked)
        BY <2>11, <3>2
      <4>2. CASE j <= n
        <5>1. i \in DOMAIN tx[c] /\ j \in DOMAIN tx[c]
              /\ tx'[c][i] = tx[c][i] /\ tx'[c][j] = tx[c][j]
          BY <2>4, <2>11, <4>1, <4>2
        <5> QED BY <3>2, <5>1 DEF LanInv, EchoInv, InOrder
      <4>3. CASE i <= n /\ ~(j <= n)
        <5>1. i \in DOMAIN tx[c] /\ tx'[c][i] = tx[c][i]
              /\ tx'[c][j] = new[j - n] /\ j - n \in 1 .. Len(parked)
          <6>1. i \in 1 .. n /\ j - n \in 1 .. Len(parked)
            BY <2>11, <4>1, <4>3
          <6> QED BY <2>11, <4>1, <4>3, <6>1
        <5>2. SentInv(c, tx[c][i]) /\ tx[c][i].mac = m
          BY <2>10, <3>2, <5>1 DEF LanInv, EchoInv
        <5>3. NextHop(c, tx[c][i].dest) = a /\ IsResolved(arp[c], a)
          BY <2>2, <5>2, Stations DEF SentInv, Owner
        <5>4. parked # <<>>
          BY <2>3, <5>1
        <5>5. IsPending(arp[c], a)
          BY <2>3, <5>4
        <5> QED BY <5>3, <5>5 DEF IsPending, IsResolved
      <4>4. CASE ~(i <= n) /\ ~(j <= n)
        <5>1. /\ tx'[c][i] = new[i - n] /\ i - n \in 1 .. Len(parked)
              /\ tx'[c][j] = new[j - n] /\ j - n \in 1 .. Len(parked) /\ i - n < j - n
          <6>1. i - n \in 1 .. Len(parked) /\ j - n \in 1 .. Len(parked) /\ i - n < j - n
            BY <2>11, <4>1, <4>4
          <6> QED BY <2>11, <4>1, <4>4, <6>1
        <5>2. parked[i - n].serial < parked[j - n].serial
          BY <2>3, <5>1 DEF QueueInv
        <5> QED BY <2>10, <3>2, <5>1, <5>2
      <4> QED BY <4>1, <4>2, <4>3, <4>4
    <3> QED BY <3>1, <3>2
  <2>16. \A o \in Interface : \A i \in DOMAIN tx'[o] : SentInv(o, tx[o][i])'
    BY <2>14
  <2> QED BY <1>1, <2>4, <2>5, <2>7, <2>12, <2>15, <2>16 DEF EchoInv
<1> QED BY <1>3, <1>4

\* What both ways to reply to an echo request have in common.
LEMMA EchoFacts ==
  ASSUME LanInv, NEW c \in Interface, NEW d \in Deliveries(c), Echo(c, d),
         UNCHANGED lanVars
  PROVE  /\ Steady /\ UNCHANGED <<ipv4, gateway, subnet_mask>>
         /\ echoes' \in [Interface -> Nat] /\ echoes'[c] = echoes[c] + 1
         /\ \A o \in Interface : /\ echoes[o] \in Nat /\ echoes'[o] \in Nat
                                 /\ echoes[o] <= echoes'[o]
         /\ NextHop(c, d[2].source) \in Addr
         /\ Packet(c, d) \in Packets
         /\ Packet(c, d).dest = d[2].source /\ Packet(c, d).source = ipv4[c]
         /\ Packet(c, d).serial = echoes[c] + 1
         /\ \A p : p.dest = Packet(c, d).dest /\ p.serial = Packet(c, d).serial
              => ReplyInv(c, p)' /\ NextHop(c, p.dest)' = NextHop(c, d[2].source)
<1>1. /\ UNCHANGED <<ipv4, gateway, subnet_mask, lease>> /\ IsEcho(c, d[2])
      /\ echoes' = [echoes EXCEPT ![c] = echoes[c] + 1]
  BY DEF Echo, bindVars, lanVars
<1>2. echoes \in [Interface -> Nat]
  BY DEF LanInv, EchoInv
<1>3. /\ echoes' \in [Interface -> Nat] /\ echoes'[c] = echoes[c] + 1
      /\ \A o \in Interface : /\ echoes[o] \in Nat /\ echoes'[o] \in Nat
                              /\ echoes[o] <= echoes'[o]
  BY <1>1, <1>2
<1>4. Steady
  BY <1>1 DEF Steady, Stable
<1>5. /\ EchoSource(d[2].source) /\ ipv4[c] # None /\ ipv4[c] \in Addr
      /\ NextHop(c, d[2].source) \in Addr
  BY <1>1, EchoGenuine
<1>6. /\ Packet(c, d) \in Packets
      /\ Packet(c, d).dest = d[2].source /\ Packet(c, d).source = ipv4[c]
      /\ Packet(c, d).serial = echoes[c] + 1
  BY <1>2, <1>5 DEF Packet, Packets, EchoSource
<1>7. ASSUME NEW p, p.dest = Packet(c, d).dest, p.serial = Packet(c, d).serial
      PROVE  ReplyInv(c, p)' /\ NextHop(c, p.dest)' = NextHop(c, d[2].source)
  <2>1. p.dest = d[2].source /\ p.serial = echoes[c] + 1
    BY <1>6, <1>7
  <2>2. ReplyInv(c, p)'
    <3>1. p.serial \in 1 .. echoes'[c]
      BY <1>3, <2>1
    <3> QED BY <1>1, <1>5, <2>1, <3>1 DEF ReplyInv, EchoSource
  <2>3. NextHop(c, p.dest)' = NextHop(c, p.dest)
    BY <1>4, <1>5, HopKept
  <2> QED BY <2>1, <2>2, <2>3
<1> QED BY <1>1, <1>3, <1>4, <1>5, <1>6, <1>7

\* send_ipv4 with the next hop resolved: the reply bears a number that no reply had.
LEMMA EchoDirectKeepsEcho ==
  ASSUME LanInv, NEW c \in Interface, NEW d \in Deliveries(c), EchoDirect(c, d),
         UNCHANGED lanVars
  PROVE  EchoInv'
<1>1. PICK hop : hop = NextHop(c, d[2].source)
  OBVIOUS
<1>2. PICK mac : mac = arp[c][hop].mac
  OBVIOUS
<1>3. PICK r : r = Reply(mac, Packet(c, d))
  OBVIOUS
<1>4. /\ Echo(c, d) /\ IsResolved(arp[c], hop) /\ arp' = arp
      /\ tx' = [tx EXCEPT ![c] = Append(tx[c], r)]
  BY <1>1, <1>2, <1>3 DEF EchoDirect
<1>5. /\ Steady /\ UNCHANGED <<ipv4, gateway, subnet_mask>>
      /\ echoes' \in [Interface -> Nat] /\ echoes'[c] = echoes[c] + 1
      /\ \A o \in Interface : /\ echoes[o] \in Nat /\ echoes'[o] \in Nat
                              /\ echoes[o] <= echoes'[o]
      /\ hop \in Addr /\ Packet(c, d) \in Packets
      /\ Packet(c, d).serial = echoes[c] + 1
      /\ \A p : p.dest = Packet(c, d).dest /\ p.serial = Packet(c, d).serial
           => ReplyInv(c, p)' /\ NextHop(c, p.dest)' = hop
  BY <1>1, <1>4, EchoFacts
<1>6. /\ arp \in [Interface -> [Addr -> Entries]] /\ tx \in [Interface -> Seq(Replies)]
      /\ tx[c] \in Seq(Replies)
  BY DEF LanInv, EchoInv
<1>7. mac \in Station /\ Owner(mac, hop)
  <2>1. arp[c][hop] \in Entries /\ EntryInv(c, hop)
    BY <1>5, <1>6 DEF LanInv, EchoInv
  <2>2. PICK e \in Entries : e = arp[c][hop]
    BY <2>1
  <2>3. e.state = "Resolved" /\ e.mac = mac
    BY <1>2, <1>4, <2>2 DEF IsResolved
  <2> QED BY <1>2, <1>4, <2>1, <2>3, EntryKinds DEF EntryInv
<1>8. /\ r \in Replies /\ r.mac = mac /\ r.dest = Packet(c, d).dest
      /\ r.serial = Packet(c, d).serial
  BY <1>3, <1>5, <1>7 DEF Reply, Replies, Packets
<1>9. \A o \in Interface, b \in Addr : EntryInv(o, b)'
  BY <1>4, <1>5, EntryKept DEF LanInv, EchoInv
<1>10. \A o \in Interface : \A x : SentInv(o, x) => SentInv(o, x)'
  <2> SUFFICES ASSUME NEW o \in Interface, NEW x, SentInv(o, x) PROVE SentInv(o, x)'
    OBVIOUS
  <2>1. NextHop(o, x.dest) \in Addr
    BY HopAddr DEF SentInv
  <2>2. \A b \in Addr : IsResolved(arp[o], b) => IsResolved(arp[o], b)'
    BY <1>4 DEF IsResolved
  <2> QED BY <1>5, <2>1, <2>2, SentKept
<1>11. SentInv(c, r)'
  <2>1. ReplyInv(c, r)' /\ NextHop(c, r.dest)' = hop
    BY <1>5, <1>8
  <2>2. \A b : b = hop => Owner(mac, b)' /\ IsResolved(arp[c], b)'
    BY <1>4, <1>5, <1>7, OwnerKept DEF IsResolved, Steady
  <2> QED BY <1>8, <2>1, <2>2 DEF SentInv, Owner, IsResolved
<1>12. PICK n \in Nat : n = Len(tx[c])
  BY <1>6
<1>13. /\ tx'[c] \in Seq(Replies)
       /\ DOMAIN tx'[c] = 1 .. n + 1 /\ DOMAIN tx[c] = 1 .. n
       /\ \A i \in 1 .. n : tx'[c][i] = tx[c][i]
       /\ tx'[c][n + 1] = r
  <2>1. tx'[c] = Append(tx[c], r)
    BY <1>4, <1>6
  <2> QED BY <1>6, <1>8, <1>12, <2>1
<1>14. tx' \in [Interface -> Seq(Replies)] /\ \A o \in Interface : o # c => tx'[o] = tx[o]
  BY <1>4, <1>6, <1>13
<1>15. ASSUME NEW o \in Interface, NEW i \in DOMAIN tx'[o], NEW x, x = tx'[o][i]
       PROVE  SentInv(o, x)'
  <2>1. CASE o # c
    BY <1>10, <1>14, <1>15, <2>1 DEF LanInv, EchoInv
  <2>2. CASE o = c /\ i \in 1 .. n
    <3>1. SentInv(c, x)
      BY <1>13, <1>15, <2>2 DEF LanInv, EchoInv
    <3> QED BY <1>10, <2>2, <3>1
  <2>3. CASE o = c /\ i = n + 1
    BY <1>11, <1>13, <1>15, <2>3
  <2> QED BY <1>13, <1>15, <2>1, <2>2, <2>3
<1>16. InOrder'
  <2> SUFFICES ASSUME NEW o \in Interface, NEW i \in DOMAIN tx'[o],
                      NEW j \in DOMAIN tx'[o], i < j, tx'[o][i].mac = tx'[o][j].mac
               PROVE  tx'[o][i].serial < tx'[o][j].serial
    BY DEF InOrder
  <2>1. CASE o # c
    BY <1>14, <2>1 DEF LanInv, EchoInv, InOrder
  <2>2. CASE o = c /\ j \in 1 .. n
    <3>1. i \in 1 .. n
      BY <1>13, <2>2
    <3> QED BY <1>13, <2>2, <3>1 DEF LanInv, EchoInv, InOrder
  <2>3. CASE o = c /\ j = n + 1
    <3>1. i \in 1 .. n
      BY <1>13, <2>3
    <3>2. SentInv(c, tx[c][i]) /\ tx'[c][i] = tx[c][i]
      BY <1>13, <3>1 DEF LanInv, EchoInv
    <3>3. tx[c][i].serial \in 1 .. echoes[c]
      BY <3>2 DEF SentInv, ReplyInv
    <3> QED BY <1>5, <1>8, <1>13, <2>3, <3>2, <3>3
  <2> QED BY <1>13, <2>1, <2>2, <2>3
<1>17. \A o \in Interface : \A i \in DOMAIN tx'[o] : SentInv(o, tx[o][i])'
  BY <1>15
<1> QED BY <1>4, <1>5, <1>6, <1>9, <1>14, <1>16, <1>17 DEF EchoInv

\* send_ipv4 with the next hop unresolved: the reply waits behind those parked
\* before it, whose numbers are smaller, or is dropped.
LEMMA EchoParkedKeepsEcho ==
  ASSUME LanInv, NEW c \in Interface, NEW d \in Deliveries(c), EchoParked(c, d),
         UNCHANGED lanVars
  PROVE  EchoInv'
<1>1. PICK hop : hop = NextHop(c, d[2].source)
  OBVIOUS
<1>2. PICK p : p = Packet(c, d)
  OBVIOUS
<1>3. PICK q : q = PendingQueue(arp[c], hop)
  OBVIOUS
<1>4. /\ Echo(c, d) /\ ~IsResolved(arp[c], hop) /\ tx' = tx
      /\ \/ arp' = [arp EXCEPT ![c] = arp[c]]
         \/ arp' = [arp EXCEPT ![c] = [arp[c] EXCEPT ![hop] = Pending(Append(q, p))]]
  BY <1>1, <1>2, <1>3 DEF EchoParked, QueuePending
<1>5. /\ Steady /\ UNCHANGED <<ipv4, gateway, subnet_mask>>
      /\ echoes' \in [Interface -> Nat] /\ echoes'[c] = echoes[c] + 1
      /\ \A o \in Interface : /\ echoes[o] \in Nat /\ echoes'[o] \in Nat
                              /\ echoes[o] <= echoes'[o]
      /\ hop \in Addr /\ p \in Packets /\ p.source = ipv4[c] /\ p.serial = echoes[c] + 1
      /\ ReplyInv(c, p)' /\ NextHop(c, p.dest)' = hop
  BY <1>1, <1>2, <1>4, EchoFacts
<1>6. arp \in [Interface -> [Addr -> Entries]] /\ tx \in [Interface -> Seq(Replies)]
  BY DEF LanInv, EchoInv
<1>7. q \in Seq(Packets) /\ QueueInv(c, hop, q)
  BY <1>3, <1>5, ParkedFacts DEF Drained
<1>8. Append(q, p) \in Seq(Packets) /\ QueueInv(c, hop, Append(q, p))'
  <2>1. PICK n \in Nat : n = Len(q)
    BY <1>7
  <2>2. PICK s : s = Append(q, p)
    OBVIOUS
  <2>3. /\ s \in Seq(Packets) /\ DOMAIN s = 1 .. n + 1 /\ DOMAIN q = 1 .. n
        /\ s[n + 1] = p /\ \A i \in 1 .. n : s[i] = q[i]
    BY <1>5, <1>7, <2>1, <2>2
  <2>4. QueueInv(c, hop, q)'
    BY <1>5, <1>7, QueueKept
  <2>5. \A i \in 1 .. n : q[i].serial \in 1 .. echoes[c]
    BY <1>7, <2>3 DEF QueueInv, ReplyInv
  <2>6. \A i \in DOMAIN s :
          (ReplyInv(c, s[i]) /\ NextHop(c, s[i].dest) = hop /\ s[i].source = ipv4[c])'
    <3> SUFFICES ASSUME NEW i \in 1 .. n + 1, NEW x, x = s[i]
                 PROVE  (ReplyInv(c, x) /\ NextHop(c, x.dest) = hop /\ x.source = ipv4[c])'
      BY <2>3
    <3>1. CASE i \in 1 .. n
      BY <2>3, <2>4, <3>1 DEF QueueInv
    <3>2. CASE i = n + 1
      BY <1>5, <2>3, <3>2
    <3> QED BY <3>1, <3>2
  <2>7. ASSUME NEW i \in DOMAIN s, NEW j \in DOMAIN s, i < j
        PROVE  s[i].serial < s[j].serial
    <3>1. i \in 1 .. n
      BY <2>3, <2>7
    <3>2. CASE j \in 1 .. n
      BY <1>7, <2>3, <2>7, <3>1, <3>2 DEF QueueInv
    <3>3. CASE j = n + 1
      BY <1>5, <2>3, <2>5, <3>1, <3>3
    <3> QED BY <2>3, <3>2, <3>3
  <2>8. QueueInv(c, hop, s)'
    BY <2>6, <2>7 DEF QueueInv
  <2> QED BY <2>2, <2>3, <2>8
<1>9. PICK e : e = Pending(Append(q, p))
  OBVIOUS
<1>10. e \in Entries /\ e.state = "Pending" /\ e.queue = Append(q, p)
  BY <1>8, <1>9 DEF Pending, Entries
<1>11. /\ arp' \in [Interface -> [Addr -> Entries]]
       /\ arp'[c][hop] = arp[c][hop] \/ arp'[c][hop] = e
       /\ \A o \in Interface, b \in Addr : ~(o = c /\ b = hop) => arp'[o][b] = arp[o][b]
  <2>1. hop \in Addr /\ e \in Entries
    BY <1>5, <1>10
  <2>2. CASE arp' = [arp EXCEPT ![c] = arp[c]]
    BY <1>6, <2>1, <2>2
  <2>3. CASE arp' = [arp EXCEPT ![c] = [arp[c] EXCEPT ![hop] = e]]
    BY <1>6, <2>1, <2>3
  <2> QED BY <1>4, <1>9, <2>2, <2>3
<1>12. \A o \in Interface, b \in Addr : arp'[o][b] = arp[o][b] => EntryInv(o, b)'
  BY <1>5, EntryKept DEF LanInv, EchoInv
<1>13. arp'[c][hop] = e => EntryInv(c, hop)'
  <2>1. ASSUME arp'[c][hop] = e PROVE EntryInv(c, hop)'
    <3>1. ~IsResolved(arp[c], hop)'
      BY <1>10, <2>1 DEF IsResolved
    <3>2. \A s : s = Append(q, p) => QueueInv(c, hop, s)'
      BY <1>8
    <3>3. arp'[c][hop].queue = Append(q, p)
      BY <1>10, <2>1
    <3> QED BY <3>1, <3>2, <3>3 DEF EntryInv, QueueInv
  <2> QED BY <2>1
<1>14. \A o \in Interface, b \in Addr : EntryInv(o, b)'
  BY <1>11, <1>12, <1>13
<1>15. \A o \in Interface, b \in Addr : IsResolved(arp[o], b) => IsResolved(arp[o], b)'
  BY <1>4, <1>11 DEF IsResolved
<1>16. ASSUME NEW o \in Interface, NEW i \in DOMAIN tx[o], NEW x, x = tx[o][i]
       PROVE  SentInv(o, x)'
  <2>1. SentInv(o, x)
    BY <1>16 DEF LanInv, EchoInv
  <2>2. NextHop(o, x.dest) \in Addr
    BY <2>1, HopAddr DEF SentInv
  <2> QED BY <1>5, <1>15, <2>1, <2>2, SentKept
<1>17. \A o \in Interface : \A i \in DOMAIN tx'[o] : SentInv(o, tx[o][i])'
  BY <1>4, <1>16
<1>18. InOrder'
  BY <1>4 DEF LanInv, EchoInv, InOrder
<1> QED BY <1>4, <1>5, <1>6, <1>11, <1>14, <1>17, <1>18 DEF EchoInv

\* handle_dhcp: the machine that an acknowledgement binds had no address before.
LEMMA HandleAckKeepsEcho ==
  ASSUME LanInv, NEW c \in Interface, NEW d \in Deliveries(c), c \in up,
         HandleAck(c, d), UNCHANGED lanVars
  PROVE  EchoInv'
<1>1. /\ subnet_mask' = [subnet_mask EXCEPT ![c] = d[2].data.binding.subnet_mask]
      /\ gateway' = [gateway EXCEPT ![c] = d[2].data.binding.gateway]
      /\ UNCHANGED <<arp, echoes, tx>> /\ dhcp[c].state = "Requesting"
  BY DEF HandleAck, IsAck
<1>2. Stable
  BY HandleAckKeeps
<1>3. /\ ipv4[c] = None
      /\ \A o \in Interface : o # c =>
           gateway'[o] = gateway[o] /\ subnet_mask'[o] = subnet_mask[o]
  BY <1>1 DEF LanInv, DhcpInv, ClientInv
<1>4. Steady
  BY <1>2, <1>3 DEF Steady
<1> QED BY <1>1, <1>4, EchoKept

\* Nothing that concerns a machine or a lease changes.
LEMMA UnchangedSteady ==
  ASSUME UNCHANGED <<ipv4, gateway, subnet_mask, lease>>
  PROVE  Steady
BY DEF Steady, Stable

\* At the start nothing has been sent, committed or learned.
LEMMA LanInitially ==
  ASSUME LanInit PROVE LanInv
<1> USE DEF LanInit, Init
<1>1. NetInv
  BY DEF NetInv
<1>2. LeaseInv
  BY LinkAssumption DEF LeaseInv
<1>3. ClientInv
  BY DEF ClientInv, Idle
<1>4. echoes \in [Interface -> Nat] /\ tx \in [Interface -> Seq(Replies)] /\ lost \in Nat
  BY DEF Replies
<1>5. arp \in [Interface -> [Addr -> Entries]]
  BY DEF Entries
<1>6. \A c \in Interface, a \in Addr : EntryInv(c, a)
  BY DEF EntryInv, IsResolved, IsPending, Absent
<1>7. \A c \in Interface : DOMAIN tx[c] = {}
  OBVIOUS
<1>8. InOrder /\ \A c \in Interface : \A i \in DOMAIN tx[c] : SentInv(c, tx[c][i])
  BY <1>7 DEF InOrder
<1> QED
  BY <1>1, <1>2, <1>3, <1>4, <1>5, <1>6, <1>8 DEF LanInv, DhcpInv, EchoInv

\* Every step of a machine, a server, a host or the link keeps the invariant.
LEMMA LanStep ==
  ASSUME LanInv, [Next]_allVars PROVE LanInv'
<1>1. ASSUME NEW c \in Interface, InitDhcp(c), UNCHANGED lanVars PROVE LanInv'
  <2>1. UNCHANGED <<ipv4, gateway, subnet_mask, lease, arp, echoes, tx, lost>>
    BY <1>1 DEF InitDhcp, bindVars, lanVars
  <2>2. DhcpInv'
    BY <1>1, InitDhcpKeeps
  <2>3. EchoInv'
    BY <2>1, UnchangedSteady, EchoKept
  <2> QED BY <2>1, <2>2, <2>3 DEF LanInv
<1>2. ASSUME NEW c \in Interface, NEW d \in Deliveries(c), HandlePacket(c, d),
             UNCHANGED lanVars
      PROVE  LanInv'
  <2>1. c \in up /\ lost' \in Nat
    BY <1>2 DEF HandlePacket, lanVars, LanInv
  <2>2. CASE HandleOffer(c, d)
    <3>1. UNCHANGED <<ipv4, gateway, subnet_mask, lease, arp, echoes, tx>>
      BY <1>2, <2>2 DEF HandleOffer, bindVars, lanVars
    <3>2. DhcpInv'
      BY <1>2, <2>2, HandleOfferKeeps
    <3>3. EchoInv'
      BY <3>1, UnchangedSteady, EchoKept
    <3> QED BY <2>1, <3>2, <3>3 DEF LanInv
  <2>3. CASE HandleAck(c, d)
    BY <1>2, <2>1, <2>3, HandleAckKeeps, HandleAckKeepsEcho DEF LanInv
  <2>4. CASE HandleArp(c, d)
    BY <1>2, <2>1, <2>4, HandleArpKeepsNet, HandleArpKeepsEcho DEF LanInv
  <2>5. CASE EchoDirect(c, d)
    BY <1>2, <2>1, <2>5, EchoKeepsNet, EchoDirectKeepsEcho DEF LanInv
  <2>6. CASE EchoParked(c, d)
    BY <1>2, <2>1, <2>6, EchoKeepsNet, EchoParkedKeepsEcho DEF LanInv
  <2>7. CASE Ignore(c, d)
    <3>1. /\ UNCHANGED <<up, ipv4, gateway, subnet_mask, dhcp, lease, arp, echoes, tx>>
          /\ net' = Rest(d)
      BY <1>2, <2>7 DEF Ignore, nifVars, bindVars, lanVars
    <3>2. DhcpInv'
      BY <3>1, RestFacts, TakenKeeps
    <3>3. EchoInv'
      BY <3>1, UnchangedSteady, EchoKept
    <3> QED BY <2>1, <3>2, <3>3 DEF LanInv
  <2> QED BY <1>2, <2>2, <2>3, <2>4, <2>5, <2>6, <2>7 DEF HandlePacket
<1>3. ASSUME NEW s \in Server, NEW d \in net,
             Offer(s, d) \/ Ack(s, d) \/ Release(s, d) \/ Nak(s, d)
      PROVE  LanInv'
  <2>1. UNCHANGED <<ipv4, gateway, subnet_mask, arp, echoes, tx, lost>>
    BY <1>3 DEF Offer, Ack, Release, Nak, nifVars, bindVars, lanVars
  <2>2. DhcpInv' /\ Stable
    BY <1>3, ServerKeeps
  <2>3. EchoInv'
    BY <2>1, <2>2, EchoKept DEF Steady
  <2> QED BY <2>1, <2>2, <2>3 DEF LanInv
<1>4. ASSUME NEW h \in Host, NEW d \in net, HostReply(h, d) PROVE LanInv'
  <2>1. UNCHANGED <<ipv4, gateway, subnet_mask, lease, arp, echoes, tx, lost>>
    BY <1>4 DEF HostReply, nifVars, bindVars, lanVars
  <2>2. DhcpInv'
    BY <1>4, HostKeeps
  <2>3. EchoInv'
    BY <2>1, UnchangedSteady, EchoKept
  <2> QED BY <2>1, <2>2, <2>3 DEF LanInv
<1>5. ASSUME NEW d \in net, Lose(d) PROVE LanInv'
  <2>1. /\ UNCHANGED <<up, ipv4, gateway, subnet_mask, dhcp, lease, arp, echoes, tx>>
        /\ net' \subseteq net /\ lost < MaxLost /\ lost' = lost + 1
    BY <1>5 DEF Lose, nifVars, bindVars
  <2>2. lost \in Nat
    BY DEF LanInv
  <2>3. ~Keeps
    BY <2>1, <2>2 DEF Keeps
  <2>4. DhcpInv'
    BY <2>1, <2>3, TakenKeeps
  <2>5. EchoInv'
    BY <2>1, UnchangedSteady, EchoKept
  <2> QED BY <2>1, <2>2, <2>4, <2>5 DEF LanInv
<1>6. CASE UNCHANGED allVars
  <2>1. /\ UNCHANGED <<up, ipv4, gateway, subnet_mask, dhcp, lease, arp, echoes, tx>>
        /\ net' = net /\ lost' = lost
    BY <1>6 DEF allVars, vars, nifVars, bindVars, lanVars
  <2>2. DhcpInv'
    BY <2>1, TakenKeeps
  <2>3. EchoInv'
    BY <2>1, UnchangedSteady, EchoKept
  <2> QED BY <2>1, <2>2, <2>3 DEF LanInv
<1> QED
  BY <1>1, <1>2, <1>3, <1>4, <1>5, <1>6 DEF Next, InterfaceStep, PeerStep

-----------------------------------------------------------------------------
(* Theorems *)

(* However many machines, servers and hosts there are, and whatever is     *)
(* lost, duplicated or overheard, LanInv holds in every reachable state.   *)
THEOREM LanInvariance == Spec => []LanInv
BY LanInitially, LanStep, PTL DEF Spec

(* Two machines are never configured with the same address (handle_dhcp,   *)
(* from_message): each is bound to what a server committed to it alone,    *)
(* and the pools are disjoint.                                             *)
THEOREM AddressesStayUnique == Spec => []AddressesUnique
<1>1. LanInv => AddressesUnique
  <2> SUFFICES ASSUME LanInv, NEW c \in Interface, NEW o \in Interface,
                      ipv4[c] = ipv4[o], ipv4[c] # None
               PROVE  c = o
    BY DEF AddressesUnique
  <2>1. PICK s \in Server : lease[s][c] = ipv4[c]
    BY DEF LanInv, DhcpInv, ClientInv
  <2>2. PICK t \in Server : lease[t][o] = ipv4[o]
    BY DEF LanInv, DhcpInv, ClientInv
  <2>3. ipv4[c] \in Pool[s] /\ ipv4[c] \in Pool[t]
    BY <2>1, <2>2 DEF LanInv, DhcpInv, LeaseInv
  <2>4. s = t
    BY <2>3, LanAssumption
  <2> QED BY <2>1, <2>2, <2>4 DEF LanInv, DhcpInv, LeaseInv
<1> QED BY <1>1, LanInvariance, PTL

(* What a machine sends as an ARP sender or as the source of an echo reply *)
(* is an address that a server has committed to it (handle_arp,            *)
(* send_arp_request, handle_icmp).                                         *)
THEOREM OnlyLeasedAdvertised == Spec => []AdvertisesOnlyLeased
<1>1. LanInv => AdvertisesOnlyLeased
  <2> SUFFICES ASSUME LanInv, NEW d \in net, d[2].src \in Interface,
                      NEW a, Owner(d[2].src, a)
               PROVE  \E s \in Server : lease[s][d[2].src] = a
    BY DEF AdvertisesOnlyLeased, LanInv, DhcpInv, NetInv, FrameInv
  <2>1. ipv4[d[2].src] # None /\ ipv4[d[2].src] = a
    BY Stations DEF Owner
  <2> QED BY <2>1 DEF LanInv, DhcpInv, ClientInv
<1> QED BY <1>1, LanInvariance, PTL

(* Echo replies to one station leave in the order of their requests        *)
(* (send_ipv4, ArpCache::insert), for any bounds on the cache.             *)
THEOREM RepliesInOrder == Spec => []InOrder
<1>1. LanInv => InOrder
  BY DEF LanInv, EchoInv
<1> QED BY <1>1, LanInvariance, PTL

(* Where the link keeps what was sent, a configured machine holds what the *)
(* server that it named in a request committed to it (handle_dhcp).        *)
THEOREM SelectedServerBinds ==
  ASSUME Duplicating, MaxLost = 0
  PROVE  Spec => []ConfiguredBySelected
<1>1. LanInv => ConfiguredBySelected
  <2> SUFFICES ASSUME LanInv, NEW c \in Interface, ipv4[c] # None
               PROVE  \E s \in Server :
                        /\ lease[s][c] = ipv4[c]
                        /\ \E d \in net : AtServer(s, d, "Request") /\ d[2].src = c
                                          /\ Names(s, d[2].data)
    BY DEF ConfiguredBySelected
  <2>1. PICK s \in Server : lease[s][c] = ipv4[c] /\ Requested(s, c)
    BY DEF LanInv, DhcpInv, ClientInv
  <2> QED BY <2>1 DEF Requested, Keeps
<1> QED BY <1>1, LanInvariance, PTL

(* On a network of the usual shape, a reply goes to the host that it is    *)
(* for, or else to the router (send_ipv4).                                 *)
THEOREM RepliesReachNextHop ==
  ASSUME Topology
  PROVE  Spec => []DeliveredToNextHop
<1>1. LanInv => DeliveredToNextHop
  <2> SUFFICES ASSUME LanInv, NEW c \in Interface, NEW i \in DOMAIN tx[c],
                      NEW r, r = tx[c][i]
               PROVE  \/ r.mac \in Host /\ HostAddr[r.mac] = r.dest
                      \/ /\ \A h \in Host : HostAddr[h] # r.dest
                         /\ r.mac \in Host /\ HostAddr[r.mac] = gateway[c]
    BY DEF DeliveredToNextHop
  <2> DEFINE Hosts == {HostAddr[h] : h \in Host}
  <2>1. /\ ipv4[c] # None /\ EchoSource(r.dest)
        /\ Owner(r.mac, NextHop(c, r.dest))
    BY DEF LanInv, EchoInv, SentInv, ReplyInv
  <2>2. PICK s \in Server : /\ lease[s][c] = ipv4[c]
                            /\ subnet_mask[c] = ServerMask[s] /\ gateway[c] = Router[s]
    BY <2>1 DEF LanInv, DhcpInv, ClientInv
  <2>3. \A o \in Interface : ipv4[o] # None => \E t \in Server : ipv4[o] \in Pool[t]
    <3> SUFFICES ASSUME NEW o \in Interface, ipv4[o] # None
                 PROVE  \E t \in Server : ipv4[o] \in Pool[t]
      OBVIOUS
    <3>1. PICK t \in Server : lease[t][o] = ipv4[o]
      BY DEF LanInv, DhcpInv, ClientInv
    <3> QED BY <3>1 DEF LanInv, DhcpInv, LeaseInv
  <2>4. \A o \in Interface : ipv4[o] # None => ipv4[o] \notin Hosts
    BY <2>2, <2>3 DEF Topology
  <2>5. /\ gateway[c] \in Hosts
        /\ \A b \in Hosts : OnLink(c, b)
        /\ r.dest \in Hosts \/ ~OnLink(c, r.dest)
    <3>1. PICK a \in Pool[s] : a = ipv4[c]
      BY <2>1, <2>2 DEF LanInv, DhcpInv, LeaseInv
    <3>2. PICK f \in Stray : /\ f.ethertype = "IPV4" /\ f.protocol = "ICMP"
                             /\ f.data.type = "echo" /\ f.source = r.dest
      BY <2>1 DEF EchoSource
    <3>3. a \in UNION {Pool[t] : t \in Server}
      BY <3>1
    <3>4. \A b : OnLink(c, b) <=>
               SubSeq(b, 1, ServerMask[s]) = SubSeq(a, 1, ServerMask[s])
      BY <2>2, <3>1 DEF OnLink
    <3>5. /\ Router[s] \in Hosts
          /\ \A b \in Hosts : SubSeq(b, 1, ServerMask[s]) = SubSeq(a, 1, ServerMask[s])
          /\ \/ f.source \in Hosts
             \/ ~(SubSeq(f.source, 1, ServerMask[s]) = SubSeq(a, 1, ServerMask[s]))
      BY <3>2, <3>3, Zenon DEF Topology
    <3> HIDE DEF Hosts
    <3> QED BY <2>2, <3>2, <3>4, <3>5
  <2>6. \A b \in Hosts : Owner(r.mac, b) => r.mac \in Host /\ HostAddr[r.mac] = b
    BY <2>4 DEF Owner
  <2>7. CASE r.dest \in Hosts
    BY <2>1, <2>5, <2>6, <2>7 DEF NextHop
  <2>8. CASE r.dest \notin Hosts
    BY <2>1, <2>5, <2>6, <2>8 DEF NextHop
  <2> QED BY <2>7, <2>8
<1> QED BY <1>1, LanInvariance, PTL

(* Only handle_arp empties a queue, and it sends what was in it; a frame   *)
(* that is parked joins those already waiting.                             *)
LEMMA ParkedStep ==
  ASSUME LanInv, Next, NEW c \in Interface, NEW a \in Addr
  PROVE  Parked(c, a) \ Parked(c, a)' \subseteq Sent(c)'
<1>1. CASE arp' = arp
  BY <1>1 DEF Parked, PendingQueue, IsPending
<1>2. ASSUME NEW o \in Interface, NEW d \in Deliveries(o), HandleArp(o, d), arp' # arp
      PROVE  Parked(c, a) \ Parked(c, a)' \subseteq Sent(c)'
  <2>1. PICK m, b, q : m = d[2].src /\ b = d[2].sender_addr /\ q = Drained(o, b)
    OBVIOUS
  <2>2. /\ m # o /\ IsArp(o, d[2])
        /\ arp' = [arp EXCEPT ![o] = [arp[o] EXCEPT ![b] = Resolved(m)]]
        /\ tx' = [tx EXCEPT ![o] = tx[o] \o [i \in DOMAIN q |-> Reply(m, q[i])]]
    BY <1>2, <2>1 DEF HandleArp, Insert
  <2>3. /\ arp \in [Interface -> [Addr -> Entries]] /\ tx[o] \in Seq(Replies)
        /\ tx \in [Interface -> Seq(Replies)]
    BY DEF LanInv, EchoInv
  <2>4. b \in Addr /\ m \in Station
    BY <2>1, <2>2, ArpGenuine
  <2>5. q \in Seq(Packets)
    BY <2>1, <2>4, ParkedFacts
  <2>6. CASE ~(c = o /\ a = b)
    <3>1. arp'[c][a] = arp[c][a]
      BY <2>2, <2>3, <2>4, <2>6
    <3> QED BY <3>1 DEF Parked, PendingQueue, IsPending
  <2>7. CASE c = o /\ a = b
    <3>1. PICK new : new = [i \in DOMAIN q |-> Reply(m, q[i])]
      OBVIOUS
    <3>2. /\ new \in Seq(Replies) /\ Len(new) = Len(q) /\ DOMAIN q = 1 .. Len(q)
          /\ \A i \in 1 .. Len(q) : new[i].serial = q[i].serial
      <4>1. DOMAIN q = 1 .. Len(q) /\ Len(q) \in Nat
        BY <2>5
      <4>2. \A i \in 1 .. Len(q) : q[i] \in Packets
        BY <2>5
      <4>3. \A p \in Packets : Reply(m, p) \in Replies /\ Reply(m, p).serial = p.serial
        BY <2>4 DEF Reply, Replies, Packets
      <4>4. \A i \in 1 .. Len(q) : new[i] = Reply(m, q[i]) /\ new[i] \in Replies
        BY <3>1, <4>1, <4>2, <4>3
      <4>5. new \in Seq(Replies) /\ Len(new) = Len(q)
        BY <3>1, <4>1, <4>4
      <4> QED BY <4>1, <4>2, <4>3, <4>4, <4>5
    <3>3. tx'[c] = tx[o] \o new
      BY <2>2, <2>3, <2>7, <3>1
    <3>4. /\ Len(tx[o]) \in Nat /\ Len(q) \in Nat
          /\ DOMAIN tx'[c] = 1 .. Len(tx[o]) + Len(q)
          /\ \A i \in 1 .. Len(q) : tx'[c][Len(tx[o]) + i] = new[i]
      <4>1. /\ Len(tx[o]) \in Nat /\ Len(q) \in Nat /\ Len(new) = Len(q)
            /\ tx'[c] \in Seq(Replies) /\ Len(tx'[c]) = Len(tx[o]) + Len(new)
            /\ \A i \in 1 .. Len(tx[o]) + Len(new) :
                 tx'[c][i] = IF i <= Len(tx[o]) THEN tx[o][i] ELSE new[i - Len(tx[o])]
        <5>1. tx[o] \in Seq(Replies) /\ new \in Seq(Replies)
          BY <2>3, <3>2
        <5>2. /\ tx[o] \o new \in Seq(Replies)
              /\ Len(tx[o] \o new) = Len(tx[o]) + Len(new)
              /\ \A i \in 1 .. Len(tx[o]) + Len(new) :
                   (tx[o] \o new)[i] = IF i <= Len(tx[o]) THEN tx[o][i]
                                                         ELSE new[i - Len(tx[o])]
          BY <5>1, ConcatProperties, Zenon
        <5>3. Len(tx[o]) \in Nat /\ Len(q) \in Nat
          BY <2>3, <2>5
        <5> QED BY <3>2, <3>3, <5>2, <5>3
      <4>2. DOMAIN tx'[c] = 1 .. Len(tx'[c])
        BY <4>1
      <4>3. ASSUME NEW i \in 1 .. Len(q) PROVE tx'[c][Len(tx[o]) + i] = new[i]
        <5>1. PICK k \in 1 .. Len(tx[o]) + Len(new) : k = Len(tx[o]) + i
          BY <4>1
        <5>2. ~(k <= Len(tx[o])) /\ k - Len(tx[o]) = i
          BY <4>1, <5>1
        <5>3. tx'[c][k] = IF k <= Len(tx[o]) THEN tx[o][k] ELSE new[k - Len(tx[o])]
          BY <4>1
        <5> QED BY <5>1, <5>2, <5>3
      <4> QED BY <4>1, <4>2, <4>3
    <3>5. Parked(c, a) = {q[i].serial : i \in DOMAIN q}
      BY <2>1, <2>7 DEF Parked, Drained
    <3>6. ASSUME NEW i \in 1 .. Len(q) PROVE q[i].serial \in Sent(c)'
      <4>1. Len(tx[o]) + i \in DOMAIN tx'[c] /\ tx'[c][Len(tx[o]) + i].serial = q[i].serial
        BY <3>2, <3>4
      <4> QED BY <4>1 DEF Sent
    <3> QED BY <3>2, <3>5, <3>6
  <2> QED BY <2>6, <2>7
<1>3. ASSUME NEW o \in Interface, NEW d \in Deliveries(o), EchoParked(o, d),
             arp' # arp, UNCHANGED lanVars
      PROVE  Parked(c, a) \ Parked(c, a)' \subseteq Sent(c)'
  <2>1. PICK hop, p, q : /\ hop = NextHop(o, d[2].source) /\ p = Packet(o, d)
                         /\ q = PendingQueue(arp[o], hop)
    OBVIOUS
  <2>2. arp \in [Interface -> [Addr -> Entries]]
    BY DEF LanInv, EchoInv
  <2>3. /\ Echo(o, d) /\ \/ arp' = [arp EXCEPT ![o] = arp[o]]
                         \/ arp' = [arp EXCEPT ![o] =
                                      [arp[o] EXCEPT ![hop] = Pending(Append(q, p))]]
    BY <1>3, <2>1 DEF EchoParked, QueuePending
  <2>4. [arp EXCEPT ![o] = arp[o]] = arp
    BY <2>2
  <2>5. arp' = [arp EXCEPT ![o] = [arp[o] EXCEPT ![hop] = Pending(Append(q, p))]]
    BY <1>3, <2>3, <2>4
  <2>6. hop \in Addr /\ p \in Packets
    BY <1>3, <2>1, <2>3, EchoFacts
  <2>7. q \in Seq(Packets)
    BY <2>1, <2>6, ParkedFacts DEF Drained
  <2>8. CASE ~(c = o /\ a = hop)
    <3>1. arp'[c][a] = arp[c][a]
      BY <2>2, <2>5, <2>6, <2>8
    <3> QED BY <3>1 DEF Parked, PendingQueue, IsPending
  <2>9. CASE c = o /\ a = hop
    <3>1. PendingQueue(arp[c], a)' = Append(q, p)
      <4>1. arp'[c][a] = Pending(Append(q, p))
        BY <2>2, <2>5, <2>6, <2>9
      <4> QED BY <4>1 DEF PendingQueue, IsPending, Pending
    <3>2. /\ DOMAIN q \subseteq DOMAIN Append(q, p)
          /\ \A i \in DOMAIN q : Append(q, p)[i] = q[i]
      BY <2>6, <2>7
    <3>3. Parked(c, a) \subseteq Parked(c, a)'
      BY <2>1, <2>9, <3>1, <3>2 DEF Parked
    <3> QED BY <3>3
  <2> QED BY <2>8, <2>9
<1>4. ASSUME NEW o \in Interface, NEW d \in Deliveries(o), HandlePacket(o, d),
             UNCHANGED lanVars
      PROVE  arp' = arp \/ HandleArp(o, d) \/ EchoParked(o, d)
  BY <1>4 DEF HandlePacket, HandleOffer, HandleAck, EchoDirect, Ignore, nifVars
<1>5. ASSUME PeerStep \/ (\E d \in net : Lose(d)) PROVE arp' = arp
  BY <1>5 DEF PeerStep, Offer, Ack, Release, Nak, HostReply, Lose, nifVars
<1>6. ASSUME NEW o \in Interface, InitDhcp(o) PROVE arp' = arp
  BY <1>6 DEF InitDhcp
<1> QED BY <1>1, <1>2, <1>3, <1>4, <1>5, <1>6 DEF Next, InterfaceStep

(* A parked frame leaves its queue only by being sent (ArpCache::insert,   *)
(* queue_pending).                                                         *)
THEOREM ParkedAreSent == Spec => ParkedNotLost
<1>1. LanInv /\ [Next]_allVars =>
        [\A c \in Interface : \A a \in Addr :
            Parked(c, a) \ Parked(c, a)' \subseteq Sent(c)']_allVars
  BY ParkedStep
<1> QED BY <1>1, LanInvariance, PTL DEF Spec, ParkedNotLost

=============================================================================
