-------------------------- MODULE NetworkInterface --------------------------
(***************************************************************************)
(* The network interface of kernel/src/network/handler.rs: the DHCP client *)
(* that configures it, the ARP cache it resolves next hops with and the    *)
(* echo responder behind it.  Several machines running the kernel may      *)
(* share a link, and each is named by its MAC address.                     *)
(*                                                                         *)
(* `network_task` is the only caller, and it hands over one received frame *)
(* at a time while it holds the interface's lock, so a handler is one      *)
(* step.  The link is a set of deliveries <<station, frame>>: a frame sent *)
(* to the broadcast address is one delivery per other station.  Deliveries *)
(* are taken in any order, may never be taken, and may be taken again when *)
(* Duplicating.                                                            *)
(*                                                                         *)
(* An IPv4 address is a sequence of parts and a subnet mask the number of  *)
(* leading parts it keeps.  Contents are abstracted to what the handlers   *)
(* test: a checksum or an option field that does not parse is "malformed". *)
(***************************************************************************)
EXTENDS ArpCache

CONSTANTS
  Interface,    \* MAC addresses of the machines that run this kernel
  Peer,         \* MAC addresses of every other station
  AllMac,       \* MacAddress::broadcast()
  Addr,         \* IPv4 addresses that occur
  None,         \* Option::None
  Mask,         \* subnet masks that occur
  Xid,          \* what u32::from_rand may return
  Stray,        \* frames other stations may send at any time, unprompted
  Duplicating,  \* whether the link may deliver a frame more than once
  MaxEcho       \* bound: echo requests one interface answers

BROADCAST   == <<255, 255>>
UNSPECIFIED == <<0, 0>>
Station     == Interface \cup Peer

ASSUME LinkAssumption ==
  /\ Interface \cap Peer = {} /\ AllMac \notin Station
  /\ UNSPECIFIED \in Addr /\ BROADCAST \notin Addr /\ None \notin Addr
  /\ Duplicating \in BOOLEAN
  /\ MaxEcho \in Nat

VARIABLES
  up,           \* interfaces that init_network_interface has set up
  ipv4,         \* NetworkInterface::ipv4
  gateway,      \* NetworkInterface::gateway
  subnet_mask,  \* NetworkInterface::subnet_mask
  arp,          \* NetworkInterface::arp
  dhcp,         \* NetworkInterface::dhcp
  net,          \* deliveries on the link
  echoes,       \* echo requests answered; numbers the replies
  tx            \* echo replies sent, in order

bindVars == <<ipv4, gateway, subnet_mask>>
nifVars  == <<up, bindVars, arp, dhcp, echoes, tx>>
vars     == <<nifVars, net>>

\* DHCPState.  Both stages carry the exchange id.
Idle                  == [state |-> "Idle"]
Selecting(xid)        == [state |-> "Selecting", xid |-> xid]
Requesting(xid, offer) ==
  [state |-> "Requesting", xid |-> xid, offer |-> offer]

-----------------------------------------------------------------------------
(* Frames *)

ArpFrame(dst, op, mac, addr, target) ==
  [dst |-> dst, src |-> mac, ethertype |-> "ARP", operation |-> op,
   sender_addr |-> addr, target_addr |-> target]

Ipv4Frame(dst, src, source, dest, protocol, data) ==
  [dst |-> dst, src |-> src, ethertype |-> "IPV4", source |-> source,
   dest |-> dest, fragment |-> FALSE, protocol |-> protocol, data |-> data]

Icmp(type) == [type |-> type]

\* A DHCP message: its type, the exchange, the client it is for and the
\* binding it carries.  A message without a binding carries None.
Dhcp(type, xid, chaddr, binding) ==
  [type |-> type, xid |-> xid, chaddr |-> chaddr, binding |-> binding]

Binding(addr, mask, gw, server) ==
  [client_addr |-> addr, subnet_mask |-> mask, gateway |-> gw,
   server_id |-> server]

\* send_dhcp: a broadcast from the unspecified address.
DhcpFrame(c, msg) ==
  Ipv4Frame(AllMac, c, UNSPECIFIED, BROADCAST, "UDP", msg)

\* The deliveries of one frame on the link.
Transmit(f) ==
  {<<s, f>> : s \in {s \in Station \ {f.src} : f.dst \in {s, AllMac}}}

\* What is left on the link once delivery `d` has been taken.
Rest(d) == IF Duplicating THEN net ELSE net \ {d}

-----------------------------------------------------------------------------
(* What a received frame is, and whether it is for this host *)

\* handle_packet: frames for another station are rejected.
Accepts(c, f) == f.dst \in {c, AllMac}

\* Mutant: the allow-list without its DHCP arm.
ForUsBoundOnly(c, f) ==
  \/ f.dest = BROADCAST
  \/ ipv4[c] # None /\ f.dest = ipv4[c]

\* handle_ipv4: the allow-list.
ForUs(c, f) ==
  \/ f.dest = BROADCAST
  \/ ipv4[c] # None /\ f.dest = ipv4[c]
  \/ ipv4[c] = None /\ dhcp[c] # Idle

IsArp(c, f) == Accepts(c, f) /\ f.ethertype = "ARP"

IsIpv4(c, f, protocol) ==
  /\ Accepts(c, f) /\ f.ethertype = "IPV4"
  /\ ~f.fragment /\ ForUs(c, f)
  /\ f.protocol = protocol

\* send_ipv4: on the local network the destination is its own next hop.
OnLink(c, dst) ==
  SubSeq(dst, 1, subnet_mask[c]) = SubSeq(ipv4[c], 1, subnet_mask[c])

\* Mutant: the branches are swapped.
NextHopSwapped(c, dst) == IF OnLink(c, dst) THEN gateway[c] ELSE dst

NextHop(c, dst) == IF OnLink(c, dst) THEN dst ELSE gateway[c]

Routable(c, dst) ==
  /\ ipv4[c] # None /\ subnet_mask[c] # None
  /\ OnLink(c, dst) \/ gateway[c] # None

\* handle_icmp: an intact echo request that a reply can be sent to.
IsEcho(c, f) ==
  /\ IsIpv4(c, f, "ICMP") /\ f.data.type = "echo"
  /\ Routable(c, f.source)

\* Mutant: another client's reply is taken for ours.
FromMessageAnyClient(c, msg, expected) ==
  /\ msg.xid = dhcp[c].xid
  /\ msg.type = expected
  /\ msg.binding # None /\ msg.binding.client_addr # UNSPECIFIED

\* DHCPBinding::from_message succeeds: a reply of the expected type to this
\* exchange and this client, with every option it must carry.
FromMessage(c, msg, expected) ==
  /\ msg.xid = dhcp[c].xid
  /\ msg.chaddr = c
  /\ msg.type = expected
  /\ msg.binding # None /\ msg.binding.client_addr # UNSPECIFIED

IsOffer(c, f) ==
  /\ IsIpv4(c, f, "UDP") /\ dhcp[c].state = "Selecting"
  /\ FromMessage(c, f.data, "Offer")

\* Mutant: any server may commit the binding.
IsAckAnyServer(c, f) ==
  /\ IsIpv4(c, f, "UDP") /\ dhcp[c].state = "Requesting"
  /\ FromMessage(c, f.data, "Ack")

\* Only the server whose offer was taken can commit it.
IsAck(c, f) ==
  /\ IsIpv4(c, f, "UDP") /\ dhcp[c].state = "Requesting"
  /\ FromMessage(c, f.data, "Ack")
  /\ f.data.binding.server_id = dhcp[c].offer.server_id

-----------------------------------------------------------------------------
Init ==
  /\ up = {}
  /\ ipv4 = [c \in Interface |-> None]
  /\ gateway = [c \in Interface |-> None]
  /\ subnet_mask = [c \in Interface |-> None]
  /\ arp = [c \in Interface |-> [a \in Addr |-> Absent]]
  /\ dhcp = [c \in Interface |-> Idle]
  /\ net = {}
  /\ echoes = [c \in Interface |-> 0]
  /\ tx = [c \in Interface |-> <<>>]

\* init_network_interface and init_dhcp: broadcast a discover.  The errors
\* of init_dhcp and send_dhcp cannot occur: get_random always succeeds, the
\* messages have a fixed length, and init_dhcp is called once.
InitDhcp(c) ==
  /\ c \notin up /\ up' = up \cup {c}
  /\ \E xid \in Xid :
       /\ net' = net \cup Transmit(DhcpFrame(c, Dhcp("Discover", xid, c, None)))
       /\ dhcp' = [dhcp EXCEPT ![c] = Selecting(xid)]
  /\ UNCHANGED <<bindVars, arp, echoes, tx>>

\* handle_dhcp while Selecting: the first offer wins and is requested.
HandleOffer(c, d) ==
  LET offer   == d[2].data.binding
      request == Dhcp("Request", dhcp[c].xid, c, offer)
  IN  /\ IsOffer(c, d[2])
      /\ net' = Rest(d) \cup Transmit(DhcpFrame(c, request))
      /\ dhcp' = [dhcp EXCEPT ![c] = Requesting(dhcp[c].xid, offer)]
      /\ UNCHANGED <<up, bindVars, arp, echoes, tx>>

\* handle_dhcp while Requesting: the acknowledgement binds the interface.
HandleAck(c, d) ==
  LET ack == d[2].data.binding
  IN  /\ IsAck(c, d[2])
      /\ ipv4' = [ipv4 EXCEPT ![c] = ack.client_addr]
      /\ subnet_mask' = [subnet_mask EXCEPT ![c] = ack.subnet_mask]
      /\ gateway' = [gateway EXCEPT ![c] = ack.gateway]
      /\ dhcp' = [dhcp EXCEPT ![c] = Idle]
      /\ net' = Rest(d)
      /\ UNCHANGED <<up, arp, echoes, tx>>

\* An echo reply on its way to station `mac`.
Reply(mac, pkt) == [mac |-> mac, dest |-> pkt.dest, serial |-> pkt.serial]

ReplyFrame(c, mac, pkt) ==
  Ipv4Frame(mac, c, pkt.source, pkt.dest, "ICMP", Icmp("reply"))

\* Mutant: a request for any address is answered.
ArpReplyAny(c, f) ==
  IF f.operation = "Request" /\ ipv4[c] # None
  THEN Transmit(ArpFrame(f.src, "Reply", c, f.target_addr, f.sender_addr))
  ELSE {}

\* handle_arp: the reply to a request for our own address.
ArpReply(c, f) ==
  IF f.operation = "Request" /\ ipv4[c] # None /\ f.target_addr = ipv4[c]
  THEN Transmit(ArpFrame(f.src, "Reply", c, ipv4[c], f.sender_addr))
  ELSE {}

\* Mutant: only the oldest parked frame is handed back.
DrainedOne(c, addr) ==
  IF IsPending(arp[c], addr) THEN <<arp[c][addr].queue[1]>> ELSE <<>>

\* The frames `insert` hands back when `addr` is learned.
Drained(c, addr) == PendingQueue(arp[c], addr)

\* handle_arp: learn the sender, send what was parked on it in order, and
\* answer a request for our address.
HandleArp(c, d) ==
  LET f      == d[2]
      parked == Drained(c, f.sender_addr)
      frames == UNION {Transmit(ReplyFrame(c, f.src, parked[i])) :
                         i \in DOMAIN parked}
  IN  /\ IsArp(c, f)
      /\ IF f.src # c
         THEN /\ arp' = [arp EXCEPT ![c] = Insert(@, f.sender_addr, f.src)]
              /\ tx' = [tx EXCEPT ![c] =
                          @ \o [i \in DOMAIN parked |-> Reply(f.src, parked[i])]]
              /\ net' = Rest(d) \cup frames \cup ArpReply(c, f)
         ELSE /\ net' = Rest(d) \cup ArpReply(c, f)
              /\ UNCHANGED <<arp, tx>>
      /\ UNCHANGED <<up, bindVars, dhcp, echoes>>

\* handle_icmp and send_ipv4 for the next echo request.
Echo(c, d) ==
  /\ IsEcho(c, d[2]) /\ echoes[c] < MaxEcho
  /\ echoes' = [echoes EXCEPT ![c] = @ + 1]
  /\ UNCHANGED <<up, bindVars, dhcp>>

\* The serialized reply, numbered so that replies can be told apart.
Packet(c, d) ==
  [source |-> ipv4[c], dest |-> d[2].source, serial |-> echoes[c] + 1]

\* The next hop is resolved: the reply leaves at once.
EchoDirect(c, d) ==
  LET hop == NextHop(c, d[2].source)
      mac == arp[c][hop].mac
  IN  /\ Echo(c, d) /\ IsResolved(arp[c], hop)
      /\ tx' = [tx EXCEPT ![c] = Append(@, Reply(mac, Packet(c, d)))]
      /\ net' = Rest(d) \cup Transmit(ReplyFrame(c, mac, Packet(c, d)))
      /\ UNCHANGED arp

\* Mutant: the frame that starts a queue does not send the request.
EchoParkedSilently(c, d) ==
  LET hop == NextHop(c, d[2].source)
  IN  /\ Echo(c, d) /\ ~IsResolved(arp[c], hop)
      /\ arp' = [arp EXCEPT ![c] = QueuePending(@, hop, Packet(c, d))]
      /\ net' = Rest(d)
      /\ UNCHANGED tx

\* It is not: the reply is parked behind an ARP request, or dropped.
EchoParked(c, d) ==
  LET hop == NextHop(c, d[2].source)
  IN  /\ Echo(c, d) /\ ~IsResolved(arp[c], hop)
      /\ arp' = [arp EXCEPT ![c] = QueuePending(@, hop, Packet(c, d))]
      /\ net' = Rest(d) \cup
                (IF Queued(arp[c], hop) = "RequestNeeded"
                 THEN Transmit(ArpFrame(AllMac, "Request", c, ipv4[c], hop))
                 ELSE {})
      /\ UNCHANGED tx

\* Every early return: not for us, not understood, or not expected now.
Ignore(c, d) ==
  LET f == d[2]
  IN  /\ ~IsArp(c, f) /\ ~IsEcho(c, f) /\ ~IsOffer(c, f) /\ ~IsAck(c, f)
      /\ net' = Rest(d)
      /\ UNCHANGED nifVars

\* network_task hands delivery `d` to the interface.
HandlePacket(c, d) ==
  /\ c \in up /\ d[1] = c
  /\ \/ HandleOffer(c, d)
     \/ HandleAck(c, d)
     \/ HandleArp(c, d)
     \/ EchoDirect(c, d)
     \/ EchoParked(c, d)
     \/ Ignore(c, d)

\* Frames on the link, and the unprompted ones.
Deliveries(c) == {d \in net : d[1] = c} \cup {<<c, f>> : f \in Stray}

InterfaceStep ==
  \E c \in Interface :
    \/ InitDhcp(c)
    \/ \E d \in Deliveries(c) : HandlePacket(c, d)

=============================================================================
