---------------------------- MODULE PacketCodec ----------------------------
(***************************************************************************)
(* The Ethernet, ARP, IPv4 and UDP formats (net/src/ethernet.rs, arp.rs,   *)
(* ipv4.rs, udp.rs) and the handling of their bytes in handler.rs, between *)
(* this machine, which holds an address, and a host.  The link may change  *)
(* one byte of a frame, or lose its end.                                   *)
(*                                                                         *)
(* Frames are sequences of bytes.  Fields nothing depends on (dscp_ecn,    *)
(* ttl) are constants of the format.  The DHCP messages inside datagrams   *)
(* are DhcpMessage's and are read here as from_message is given them.      *)
(* What the ARP cache and the DHCP client do with a message is             *)
(* NetworkInterface's subject.                                             *)
(***************************************************************************)
EXTENDS Integers, Sequences, FiniteSetsExt, DhcpMessage

CONSTANTS
  Own, OwnMac,   \* the addresses this machine holds, as octets
  HostMac,       \* the host's
  Id,            \* identifications a sender may draw
  Payload,       \* what send_dhcp may have to send (300 bytes in the code)
  Target,        \* addresses send_arp_request may ask for
  HostFrames,    \* frames of hosts (dst, ethertype, body), each with what it is
                 \* to become
  Xid,           \* the DHCP exchange this machine has open
  Reply,         \* what DHCP servers may write: [header, items, expected], with the
                 \* type of message the client waits for
  Padding,       \* what may follow the End option of a reply
  Offered,       \* bindings the client may ask for
  MaxDamage,     \* bound: changes made by the link to one packet
  Rejected, Ignored, Panic   \* outcomes without a message

Byte == 0 .. 255
U16  == 0 .. 2^16 - 1
Ip   == [1 .. 4 -> Byte]
Mac  == [1 .. 6 -> Byte]

ICMP == 1
UDP  == 17
CLIENT_PORT == 68
SERVER_PORT == 67
BROADCAST   == <<255, 255, 255, 255>>
BroadcastMac == [i \in 1 .. 6 |-> 255]
IPV4 == 2048
ARP  == 2054
REQUEST == 1
REPLY   == 2
MinFrame == 60

ASSUME CodecAssumption ==
  /\ Own \in Ip /\ Target \subseteq Ip
  /\ {OwnMac, HostMac} \subseteq Mac /\ OwnMac # HostMac
  /\ Id \subseteq U16
  /\ \A data \in Payload : data \in Seq(Byte) /\ Len(data) <= 65507
  /\ \A h \in HostFrames : h.dst \in Mac /\ h.ethertype \in U16 /\ h.body \in Seq(Byte)
  /\ MaxDamage \in Nat

\* What RFC 2132 says a reader is to make of the options of a client: an address, the
\* first of a list of addresses, a type of message.
Meaning(tag, value) ==
  CASE tag \in {OPT_SUBNET_MASK, OPT_SERVER_ID} -> IF value \in Ip THEN value ELSE None
    [] tag = OPT_ROUTER -> IF \E k \in 1 .. 63 : Len(value) = 4 * k
                           THEN [i \in 1 .. 4 |-> value[i]] ELSE None
    [] tag = OPT_MESSAGE_TYPE -> IF \E type \in 1 .. 8 : value = <<type>>
                                 THEN value ELSE None

Value == Seq(Byte) \cup {None}
Items == [tag : Byte \ {OPT_END}, value : Seq(Byte), means : Value]

Headers ==
  [op : Byte, htype : Byte, hlen : Byte, cookie : BOOLEAN, xid : Nat,
   chaddr : Mac \X Byte, yiaddr : Ip]

ASSUME MessageAssumption ==
  /\ Xid \in Nat
  /\ \A tail \in Padding : tail \in Seq(Byte)
  /\ \A offer \in Offered : offer.client_addr \in Ip /\ offer.server_id \in Ip
  /\ \A r \in Reply :
       /\ r.header \in Headers \cup {None} /\ r.expected \in Byte /\ r.items \in Seq(Items)
       /\ \A i \in DOMAIN r.items :
            LET item == r.items[i] IN
            /\ Len(item.value) <= 255
            /\ item.tag \in Options => item.means = Meaning(item.tag, item.value)

ArpPackets ==
  [operation : {REQUEST, REPLY}, sender_mac : Mac, sender_addr : Ip,
   target_mac : Mac, target_addr : Ip]

Ipv4Packets ==
  [version_ihl : Byte, total_length : U16, id : U16, flags_frag_offset : U16,
   protocol : Byte, source : Ip, dest : Ip, options : Seq(Byte), data : Seq(Byte)]

Datagrams   == [source_port : U16, dest_port : U16, data : Seq(Byte)]
Neighbours  == [ip : Ip, mac : Mac]
EchoAnswers == [source : Ip, dest : Ip, options : Seq(Byte), type : Byte, rest : Seq(Byte)]

Bindings == [client_addr : Value, subnet_mask : Value, gateway : Value, server_id : Value]

DHCPError ==
  {"TooShort", "NotAReply", "BadMagicCookie", "XidMismatch", "ClientMacMismatch",
   "InvalidTLV", "WrongMessageType", "MissingData"}

Results ==
  {"Ok", "Err"} \X (DHCPError \cup [Options -> Value] \cup [Asked -> Value] \cup Bindings)

\* An outcome without a message is none of those with one.
ASSUME OutcomesApart ==
  /\ Panic \notin {None, Rejected, Ignored} /\ Rejected \notin {None, Ignored} /\ None # Ignored
  /\ \A none \in {None, Rejected, Ignored, Panic} :
       /\ none \notin ArpPackets /\ none \notin Ipv4Packets /\ none \notin Datagrams
       /\ none \notin Neighbours /\ none \notin EchoAnswers /\ none \notin Results
       /\ none \notin DHCPError /\ none \notin Seq(Byte) /\ none \notin Headers

VARIABLES
  state,     \* "idle", "in" or "out" (on the wire, seen from here), "done", or
             \* "read" of a DHCP message
  wire,      \* the frame's bytes, or those of a message's options
  meant,     \* what the frame, or the answer to it, is to become
  covered,   \* whether checksums that hold cover all of it
  damage,    \* the changes the link has made
  received   \* what became of it

vars == <<state, wire, meant, covered, damage, received>>

-----------------------------------------------------------------------------
(* The internet checksum                                                   *)

Be(n) == <<n \div 256, n % 256>>

\* The 16-bit big-endian number at position i, counted from 0.
Be16(b, i) == b[i + 1] * 256 + b[i + 2]

SumSeq(s) ==
  LET sum[n \in 0 .. Len(s)] == IF n = 0 THEN 0 ELSE sum[n - 1] + s[n]
  IN  sum[Len(s)]

\* Two bytes a word; a last odd byte is followed by 0.
Words(part) ==
  [i \in 1 .. (Len(part) + 1) \div 2 |->
     part[2 * i - 1] * 256 + (IF 2 * i <= Len(part) THEN part[2 * i] ELSE 0)]

PartSum(part) == SumSeq(Words(part))

FoldCarry[sum \in Nat] ==
  IF sum \div 65536 > 0 THEN FoldCarry[(sum % 65536) + (sum \div 65536)] ELSE sum

InternetChecksum(parts) ==
  65535 - FoldCarry[SumSeq([i \in DOMAIN parts |-> PartSum(parts[i])])]

-----------------------------------------------------------------------------
(* Writing a packet                                                        *)

Ipv4New(data, source, dest, id, protocol) ==
  [version_ihl |-> 69, total_length |-> Len(data) + 20, id |-> id,
   flags_frag_offset |-> 0, protocol |-> protocol,
   source |-> source, dest |-> dest, options |-> <<>>, data |-> data]

Serialize(p) ==
  LET header(checksum) ==
        <<p.version_ihl, 0>> \o Be(p.total_length) \o Be(p.id) \o Be(p.flags_frag_offset)
        \o <<64, p.protocol>> \o Be(checksum) \o p.source \o p.dest \o p.options
  IN  header(InternetChecksum(<<header(0)>>)) \o p.data

PseudoHeader(source, dest, len) == <<source, dest, <<0, 17>>, Be(len)>>

\* Mutant: the computed checksum is sent as it is.
WireChecksumRaw(checksum) == checksum

\* A checksum of 0 says that there is none, so 0 is sent as its other form.
WireChecksum(checksum) == IF checksum = 0 THEN 65535 ELSE checksum

SerializeUdp(source_port, dest_port, data, source, dest) ==
  LET len    == 8 + Len(data)
      header == Be(source_port) \o Be(dest_port) \o Be(len)
  IN  header \o Be(WireChecksum(InternetChecksum(
        PseudoHeader(source, dest, len) \o <<header, data>>))) \o data

ArpNew(operation, sender_mac, sender_addr, target_mac, target_addr) ==
  [operation |-> operation, sender_mac |-> sender_mac, sender_addr |-> sender_addr,
   target_mac |-> target_mac, target_addr |-> target_addr]

\* Ethernet and IPv4 addresses, of 6 and 4 bytes.
ArpFormat == <<0, 1, 8, 0, 6, 4>>

ArpSerialize(p) ==
  ArpFormat \o Be(p.operation)
  \o p.sender_mac \o p.sender_addr \o p.target_mac \o p.target_addr

\* send_frame fills a short frame with zeroes.
Frame(dst, src, ethertype, body) ==
  LET b == dst \o src \o Be(ethertype) \o body
  IN  b \o [i \in 1 .. MinFrame - Len(b) |-> 0]

-----------------------------------------------------------------------------
(* Reading a packet                                                        *)

HeaderLen(b)   == 4 * (b[1] % 16)
TotalLength(b) == Be16(b, 2)

\* Mutant: a total length shorter than the header is let through.
LengthMismatchPartial(b) == HeaderLen(b) > Len(b) \/ TotalLength(b) > Len(b)

LengthMismatch(b) ==
  \/ HeaderLen(b) > Len(b)
  \/ TotalLength(b) > Len(b)
  \/ TotalLength(b) < HeaderLen(b)

\* What lies behind total_length is padding.
Trimmed(b) == SubSeq(b, 1, TotalLength(b))

\* A slice out of range panics.
HeaderOutOfRange(b) == Len(b) < 20 \/ HeaderLen(b) > Len(b)

Ipv4FromPacket(b) ==
  IF Len(b) < 20 \/ b[1] \div 16 # 4 \/ b[1] % 16 < 5 \/ LengthMismatch(b) THEN Rejected
  ELSE LET packet == Trimmed(b) IN
    IF HeaderOutOfRange(packet) THEN Panic
    ELSE IF \/ Be16(packet, 6) >= 32768   \* the reserved flag
            \/ InternetChecksum(<<SubSeq(packet, 1, HeaderLen(packet))>>) # 0
    THEN Rejected
    ELSE [version_ihl |-> packet[1], total_length |-> TotalLength(packet),
          id |-> Be16(packet, 4), flags_frag_offset |-> Be16(packet, 6),
          protocol |-> packet[10],
          source |-> SubSeq(packet, 13, 16), dest |-> SubSeq(packet, 17, 20),
          options |-> SubSeq(packet, 21, HeaderLen(packet)),
          data |-> SubSeq(packet, HeaderLen(packet) + 1, Len(packet))]

\* A fragment has more_fragments (2^13) set or an offset.
IsFragment(p) == p.flags_frag_offset % 16384 # 0

Datagram(source_port, dest_port, data) ==
  [source_port |-> source_port, dest_port |-> dest_port, data |-> data]

UdpFromPacket(p) ==
  IF \/ p.total_length < 28 \/ Len(p.data) < 8
     \/ Be16(p.data, 4) # Len(p.data)
     \/ /\ InternetChecksum(PseudoHeader(p.source, p.dest, Len(p.data)) \o <<p.data>>) # 0
        /\ Be16(p.data, 6) # 0
  THEN Rejected
  ELSE Datagram(Be16(p.data, 0), Be16(p.data, 2), SubSeq(p.data, 9, Len(p.data)))

IcmpMalformed(data) == InternetChecksum(<<data>>) # 0

\* handle_icmp reads data[0] and data[1], and writes data[2] and data[3] of an
\* echo request, without looking at the length.
IcmpOutOfRange(data) ==
  \/ data = <<>>
  \/ data[1] = 8 /\ (Len(data) = 1 \/ (data[2] = 0 /\ Len(data) < 4))

IsEchoRequest(data) == data[1] = 8 /\ data[2] = 0

\* Mutant: the header is copied from the request.
EchoReplyCopied(p) ==
  LET zeroed   == [p.data EXCEPT ![1] = 0, ![3] = 0, ![4] = 0]
      checksum == InternetChecksum(<<zeroed>>)
  IN  [p EXCEPT !.source = Own, !.dest = p.source, !.options = <<>>,
                !.data = [zeroed EXCEPT ![3] = checksum \div 256, ![4] = checksum % 256]]

EchoReply(p) ==
  LET zeroed   == [p.data EXCEPT ![1] = 0, ![3] = 0, ![4] = 0]
      checksum == InternetChecksum(<<zeroed>>)
  IN  Ipv4New([zeroed EXCEPT ![3] = checksum \div 256, ![4] = checksum % 256],
              Own, p.source, p.id, ICMP)

ArpFromSlice(b) ==
  IF Len(b) < 28 \/ Be16(b, 6) \notin {REQUEST, REPLY} \/ SubSeq(b, 1, 6) # ArpFormat
  THEN Rejected
  ELSE ArpNew(Be16(b, 6), SubSeq(b, 9, 14), SubSeq(b, 15, 18),
              SubSeq(b, 19, 24), SubSeq(b, 25, 28))

EtherType(b) == Be16(b, 12)
IsArp(b)     == EtherType(b) = ARP
Contents(b)  == SubSeq(b, 15, Len(b))

\* A frame of another kind is Unknown, and nobody handles it.
EthernetNew(b) ==
  IF Len(b) < 14 THEN Rejected
  ELSE CASE EtherType(b) = ARP  -> ArpFromSlice(Contents(b))
         [] EtherType(b) = IPV4 -> Ipv4FromPacket(Contents(b))
         [] OTHER -> Ignored

\* What handle_packet of the machine with address mac goes on with: process_rx
\* drops a frame with an error first, and a frame for others is left alone.
HandlePacket(b, mac) ==
  LET p == EthernetNew(b) IN
  IF p \in {Rejected, Panic} \/ SubSeq(b, 1, 6) \in {mac, BroadcastMac} THEN p ELSE Ignored

IsPacket(p) == p \notin {Rejected, Panic, Ignored}

-----------------------------------------------------------------------------
(* This machine, the link, and a host                                      *)

Init ==
  /\ state = "idle"
  /\ wire = <<>>
  /\ meant = None
  /\ covered = TRUE
  /\ damage = 0
  /\ received = None

Transmit(way, b) ==
  /\ state = "idle"
  /\ state' = way
  /\ wire' = b
  /\ damage' = 0
  /\ received' = None

\* A DHCP message is broadcast, since there is no address yet.
SendDhcp(msg, id) ==
  /\ Transmit("out", Frame(BroadcastMac, OwnMac, IPV4, Serialize(Ipv4New(
       SerializeUdp(CLIENT_PORT, SERVER_PORT, msg, UNSPECIFIED, BROADCAST),
       UNSPECIFIED, BROADCAST, id, UDP))))
  /\ meant' = Datagram(CLIENT_PORT, SERVER_PORT, msg)
  /\ covered' = TRUE

\* ARP has no checksum.
SendArpRequest(target) ==
  LET request == ArpNew(REQUEST, OwnMac, Own, [i \in 1 .. 6 |-> 0], target) IN
  /\ Transmit("out", Frame(BroadcastMac, OwnMac, ARP, ArpSerialize(request)))
  /\ meant' = request
  /\ covered' = FALSE

\* A host sends something, well formed or not.
HostSend(h) ==
  /\ Transmit("in", Frame(h.dst, HostMac, h.ethertype, h.body))
  /\ meant' = h.meant
  /\ covered' = h.covered

OnWire == state \in {"in", "out"}

\* The link changes a byte.
Damage(i, b) ==
  /\ OnWire /\ damage < MaxDamage
  /\ i \in DOMAIN wire /\ wire[i] # b
  /\ wire' = [wire EXCEPT ![i] = b]
  /\ damage' = damage + 1
  /\ UNCHANGED <<state, meant, covered, received>>

\* The link loses everything behind the first n bytes.
Truncate(n) ==
  /\ OnWire /\ damage < MaxDamage
  /\ n < Len(wire)
  /\ wire' = SubSeq(wire, 1, n)
  /\ damage' = damage + 1
  /\ UNCHANGED <<state, meant, covered, received>>

Finish(result) ==
  /\ state' = "done"
  /\ received' = result
  /\ UNCHANGED <<wire, meant, covered, damage>>

Answer(dst, ethertype, body) ==
  /\ state' = "out"
  /\ wire' = Frame(dst, OwnMac, ethertype, body)
  /\ UNCHANGED <<meant, covered, damage, received>>

Incoming == HandlePacket(wire, OwnMac)

\* A frame that is dropped on its way to a handler.
ReceiveBad ==
  /\ state = "in" /\ ~IsPacket(Incoming)
  /\ Finish(Incoming)

\* What handle_arp gives the cache.
Learned(p) ==
  IF p.sender_mac = OwnMac THEN Ignored ELSE [ip |-> p.sender_addr, mac |-> p.sender_mac]

\* handle_arp answers a request for its own address.
ReceiveArp ==
  LET p == Incoming IN
  /\ state = "in" /\ IsPacket(p) /\ IsArp(wire)
  /\ IF p.operation = REQUEST /\ p.target_addr = Own
     THEN Answer(p.sender_mac, ARP,
                 ArpSerialize(ArpNew(REPLY, OwnMac, Own, p.sender_mac, p.sender_addr)))
     ELSE Finish(Learned(p))

ForUs(p) == p.dest \in {Own, BROADCAST}

\* handle_ipv4 has no use for fragments, other machines' packets and other
\* protocols.
ReceiveOther ==
  LET p == Incoming IN
  /\ state = "in" /\ IsPacket(p) /\ ~IsArp(wire)
  /\ IsFragment(p) \/ ~ForUs(p) \/ p.protocol \notin {ICMP, UDP}
  /\ Finish(Ignored)

ReceiveUdp ==
  LET p == Incoming IN
  /\ state = "in" /\ IsPacket(p) /\ ~IsArp(wire)
  /\ ~IsFragment(p) /\ ForUs(p) /\ p.protocol = UDP
  /\ Finish(UdpFromPacket(p))

IcmpOutcome(data) ==
  IF IcmpMalformed(data) THEN Rejected
  ELSE IF IcmpOutOfRange(data) THEN Panic
  ELSE IF IsEchoRequest(data) THEN None ELSE Ignored

\* handle_icmp answers an echo request.
ReceiveIcmp ==
  LET p == Incoming IN
  /\ state = "in" /\ IsPacket(p) /\ ~IsArp(wire)
  /\ ~IsFragment(p) /\ ForUs(p) /\ p.protocol = ICMP
  /\ IF IcmpOutcome(p.data) # None
     THEN Finish(IcmpOutcome(p.data))
     ELSE Answer(HostMac, IPV4, Serialize(EchoReply(p)))

Receive == ReceiveBad \/ ReceiveArp \/ ReceiveOther \/ ReceiveUdp \/ ReceiveIcmp

\* What an echo reply tells the host that asked.
EchoAnswer(p) ==
  [source |-> p.source, dest |-> p.dest, options |-> p.options,
   type |-> p.data[1], rest |-> SubSeq(p.data, 5, Len(p.data))]

\* The host reads what this machine sent, in the same formats.
HostReceive ==
  LET p == HandlePacket(wire, HostMac) IN
  /\ state = "out"
  /\ Finish(CASE ~IsPacket(p) \/ IsArp(wire) -> p
              [] OTHER ->
                   CASE p.protocol = UDP -> UdpFromPacket(p)
                     [] p.protocol = ICMP /\ ~IcmpMalformed(p.data) -> EchoAnswer(p)
                     [] OTHER -> Rejected)

\* Nothing is kept from one frame or message to the next.
Again ==
  /\ state \in {"done", "read"}
  /\ state' = "idle" /\ wire' = <<>>
  /\ meant' = None /\ covered' = TRUE /\ damage' = 0 /\ received' = None

\* A DHCP message is read.
Read(options, result, wanted) ==
  /\ state = "idle"
  /\ state' = "read"
  /\ wire' = options
  /\ received' = result
  /\ meant' = wanted
  /\ UNCHANGED <<covered, damage>>

\* handle_dhcp is given a server's reply, whole or cut off behind n bytes.
ReadReply(r, tail, n) ==
  LET sent    == Encoded(r.items)
      options == SubSeq(sent \o tail, 1, n)
  IN  Read(options,
           FromMessage([header |-> r.header, options |-> options], Xid, OwnMac, r.expected),
           IF n >= Len(sent) /\ Usable(r, Xid, OwnMac) THEN Ok(Configuration(r)) ELSE Rejected)

\* A server reads what send_dhcp sends.
ReadAsk(msg, wanted) == Read(msg.options, ParseOptions(msg.options, Asked), Ok(wanted))

Messages ==
  \/ \E r \in Reply, tail \in Padding :
       \E n \in 0 .. Len(Encoded(r.items) \o tail) : ReadReply(r, tail, n)
  \/ ReadAsk(BuildDiscover(OwnMac, Xid), AskedBy(DHCPDISCOVER, None, None))
  \/ \E offer \in Offered :
       ReadAsk(BuildRequest(OwnMac, Xid, offer),
               AskedBy(DHCPREQUEST, offer.client_addr, offer.server_id))

Send ==
  \/ \E msg \in Payload, id \in Id : SendDhcp(msg, id)
  \/ \E target \in Target : SendArpRequest(target)
  \/ \E h \in HostFrames : HostSend(h)

Link ==
  \/ \E i \in DOMAIN wire : \E b \in {0, 255, (wire[i] + 1) % 256} : Damage(i, b)
  \/ \E n \in 0 .. Len(wire) : Truncate(n)

Next == Send \/ Link \/ Receive \/ HostReceive \/ Messages \/ Again

Spec == Init /\ [][Next]_vars
-----------------------------------------------------------------------------
(* Properties                                                              *)

\* No frame, whatever its length fields say and wherever it was cut off, makes
\* EthernetFrame::new or a from_packet slice, or handle_icmp index, out of range.
NeverPanics == received # Panic

\* A frame the link left alone comes out as what its sender put in: through
\* serialize, the padding of send_frame and EthernetFrame::new; a malformed one is
\* rejected, and one for others is ignored.  An ARP request for this machine is
\* answered with its address, an echo request with the same data, in a frame the
\* asker can read, even when the request had header options.
IntactDelivered == state = "done" /\ damage = 0 => received = meant

\* A packet in which the link changed a byte or cut off the end comes out as what
\* its sender put in or not at all.  serialize_ipv4 must for that never send the
\* checksum 0, which tells from_packet to check nothing.  Not of every packet: data
\* can be made to make up for a changed header length.
DamageNotDelivered ==
  state = "done" /\ damage > 0 /\ covered => received \in {meant, Rejected, Ignored}

\* from_message makes the binding its server wrote out of exactly the replies that
\* are this client's, complete and well formed, and nothing out of any other: bytes
\* of a value are never taken for a tag, a pad or an End, and bytes behind the End
\* are not read.  What build_discover and build_request ask for is what a server
\* reads.
ParsesWhatWasWritten ==
  state = "read" =>
    IF meant = Rejected THEN received[1] = "Err" ELSE received = meant
=============================================================================
