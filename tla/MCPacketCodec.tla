--------------------------- MODULE MCPacketCodec ---------------------------
(***************************************************************************)
(* Packets for TLC.  The last payload makes the UDP checksum send_dhcp     *)
(* computes zero.                                                          *)
(***************************************************************************)
EXTENDS PacketCodec, MCDhcpMessage

Here      == <<10, 0, 0, 2>>
There     == <<10, 0, 1, 255>>
HereMac   == <<82, 84, 0, 8, 6, 255>>
ThereMac  == <<82, 84, 0, 8, 6, 0>>

MCTarget  == {There, <<255, 0, 8, 6>>}

MCPayload == {<<>>, <<0>>, <<255>>, <<1, 2, 3>>, <<255, 255, 255, 255>>, <<255, 83>>}

\* Echo requests with an even and an odd number of bytes.
EchoData(payload) ==
  LET rest == <<0, 1, 0, 7>> \o payload
      sum  == InternetChecksum(<<<<8, 0, 0, 0>> \o rest>>)
  IN  <<8, 0>> \o Be(sum) \o rest

HostFrame(dst, ethertype, body, result, c) ==
  [dst |-> dst, ethertype |-> ethertype, body |-> body, meant |-> result, covered |-> c]

Host(packet, result, c) == HostFrame(HereMac, IPV4, Serialize(packet), result, c)

ToHere(data, protocol) == Ipv4New(data, There, Here, 9, protocol)

\* The reply carries the data of the request.
Answered(payload) ==
  [source |-> Here, dest |-> There, options |-> <<>>, type |-> 0,
   rest |-> <<0, 1, 0, 7>> \o payload]

WithOptions(p, options) ==
  [p EXCEPT !.version_ihl = 69 + (Len(options) \div 4),
            !.total_length = p.total_length + Len(options), !.options = options]

Echoes ==
  UNION {{ Host(ToHere(EchoData(d), ICMP), Answered(d), TRUE),
           Host(WithOptions(ToHere(EchoData(d), ICMP), <<1, 1, 1, 0>>), Answered(d), TRUE) }
         : d \in {<<>>, <<5>>, <<255, 255, 1>>}}
  \cup { Host(Ipv4New(EchoData(<<>>), There, BROADCAST, 9, ICMP), Answered(<<>>), TRUE) }

AnEcho == ToHere(EchoData(<<5>>), ICMP)

\* Packets whose fields disagree, and ICMP messages too short to be one.
Malformed ==
  { Host(p, Rejected, FALSE) : p \in
      { [AnEcho EXCEPT !.version_ihl = 101], [AnEcho EXCEPT !.version_ihl = 68],
        [AnEcho EXCEPT !.version_ihl = 70], [AnEcho EXCEPT !.total_length = 12],
        [AnEcho EXCEPT !.total_length = 300], [AnEcho EXCEPT !.flags_frag_offset = 32768],
        [WithOptions(AnEcho, <<1, 1, 1, 0>>) EXCEPT !.total_length = 20] }
      \cup { ToHere(data, ICMP) : data \in {<<>>, <<8>>, <<8, 0>>, <<8, 0, 247>>} }
      \cup { ToHere(data, UDP) : data \in
               {<<0, 67, 0, 68>>, <<0, 67, 0, 68, 0, 8, 1, 1>>, <<0, 67, 0, 68, 0, 9, 0, 0>>} } }

Unhandled ==
  { Host(p, Ignored, TRUE) : p \in
      { ToHere(<<255, 255>>, ICMP), ToHere(<<1, 2>>, 6), ToHere(<<1, 2>>, 99),
        [AnEcho EXCEPT !.flags_frag_offset = 8192], [AnEcho EXCEPT !.flags_frag_offset = 1] } }

\* Datagrams of a server, one without a checksum.
Replies ==
  { Host(ToHere(SerializeUdp(67, 68, <<2, 1, 6>>, There, Here), UDP),
         Datagram(67, 68, <<2, 1, 6>>), TRUE),
    Host(ToHere(<<0, 67, 0, 68, 0, 10, 0, 0, 2, 1>>, UDP), Datagram(67, 68, <<2, 1>>), FALSE) }

\* Frames of other kinds and for other machines.
Strange ==
  { HostFrame(HereMac, 34525, <<96, 0>>, Ignored, TRUE),
    HostFrame(ThereMac, IPV4, Serialize(AnEcho), Ignored, FALSE),
    HostFrame(HereMac, IPV4, Serialize(Ipv4New(EchoData(<<>>), There, There, 9, ICMP)),
              Ignored, TRUE),
    HostFrame(BroadcastMac, IPV4, Serialize(AnEcho), Answered(<<5>>), TRUE) }

NoMac == [i \in 1 .. 6 |-> 0]
Ask   == ArpNew(REQUEST, ThereMac, There, NoMac, Here)
Learn == [ip |-> There, mac |-> ThereMac]

\* ARP: requests for this machine and for another, a reply, one of its own, and
\* packets of which one field is off.
Arps ==
  { HostFrame(BroadcastMac, ARP, ArpSerialize(Ask),
              ArpNew(REPLY, HereMac, Here, ThereMac, There), FALSE),
    HostFrame(BroadcastMac, ARP, ArpSerialize([Ask EXCEPT !.target_addr = There]),
              Learn, FALSE),
    HostFrame(HereMac, ARP, ArpSerialize(ArpNew(REPLY, ThereMac, There, HereMac, Here)),
              Learn, FALSE),
    HostFrame(ThereMac, ARP, ArpSerialize(Ask), Ignored, FALSE),
    HostFrame(BroadcastMac, ARP, ArpSerialize(ArpNew(REPLY, HereMac, Here, NoMac, There)),
              Ignored, FALSE) }
  \cup { HostFrame(BroadcastMac, ARP, [ArpSerialize(Ask) EXCEPT ![i] = 7], Rejected, FALSE)
         : i \in 1 .. 8 }

MCReply == RepliesTo(HereMac, ThereMac)

MCHostFrames == Echoes \cup Malformed \cup Unhandled \cup Replies \cup Strange \cup Arps
=============================================================================
