------------------------------- MODULE MCLan -------------------------------
(***************************************************************************)
(* Links for TLC.  The local network is 1.x; the router is 1.1, a host is  *)
(* 1.5, and requests from 2.7 and 2.8 arrive through the router.           *)
(***************************************************************************)
EXTENDS Lan, TLC

CONSTANTS c1, c2, s1, s2, router, host

RouterAddr == <<1, 1>>
LocalAddr  == <<1, 5>>
PoolA      == {<<1, 11>>, <<1, 12>>}
PoolB      == {<<1, 21>>, <<1, 22>>}
MCAddr     == {UNSPECIFIED, RouterAddr, LocalAddr, <<2, 7>>, <<2, 8>>} \cup PoolA \cup PoolB

TwoServerPools == (s1 :> PoolA) @@ (s2 :> PoolB)
OneServerPool  == s1 :> {<<1, 11>>}
TwoServerIds   == (s1 :> <<1, 2>>) @@ (s2 :> <<1, 3>>)
OneServerId    == s1 :> <<1, 2>>
LocalMask      == [s \in Server |-> 1]
LocalRouter    == [s \in Server |-> RouterAddr]
MCHostAddr     == [h \in Host |-> IF h = router THEN RouterAddr ELSE LocalAddr]

ASSUME EchoTopology == MaxEcho > 0 => Topology

EchoFrame(dst, src, source, dest) ==
  Ipv4Frame(dst, src, source, dest, "ICMP", Icmp("echo"))

\* DHCP replies the client must turn away: for another client, without an
\* option, without an address, and damaged.
BadReplies(c) ==
  { Ipv4Frame(AllMac, s1, ServerId[s1], BROADCAST, "UDP", msg) : msg \in
      {Dhcp("malformed", 1, c, None)} \cup
      UNION {{ Dhcp(type, 1, host, Binding(<<1, 12>>, 1, RouterAddr, ServerId[s1])),
               Dhcp(type, 1, c, Binding(UNSPECIFIED, 1, RouterAddr, ServerId[s1])),
               Dhcp(type, 1, c, None) } : type \in {"Offer", "Ack"}} }

\* Frames no handler takes: another station's, another address's, fragments,
\* protocols and frame types without a handler, damaged messages.
Noise(c, a) ==
  { EchoFrame(s1, host, LocalAddr, a),
    EchoFrame(c, host, LocalAddr, <<2, 8>>),
    [EchoFrame(c, host, LocalAddr, a) EXCEPT !.fragment = TRUE],
    [EchoFrame(c, host, LocalAddr, a) EXCEPT !.data = Icmp("malformed")],
    Ipv4Frame(c, host, LocalAddr, a, "TCP", Icmp("none")),
    [dst |-> AllMac, src |-> host, ethertype |-> "unknown"] }

\* A host asks for an address of the pool.
Probe == ArpFrame(AllMac, "Request", host, LocalAddr, <<1, 11>>)

DhcpStray == {Probe} \cup UNION {BadReplies(c) : c \in Interface}

Machines == Permutations(Interface)

\* A server that was never asked acknowledges.
OtherAck(c) ==
  Ipv4Frame(AllMac, host, <<1, 3>>, BROADCAST, "UDP",
            Dhcp("Ack", 1, c, Binding(<<1, 21>>, 1, RouterAddr, <<1, 3>>)))

\* Requests for an address in the pool, from the local network and beyond it,
\* and one to the broadcast address.
EchoStray ==
  Noise(c1, <<1, 11>>) \cup BadReplies(c1) \cup {Probe, OtherAck(c1)} \cup
  { EchoFrame(c1, host, LocalAddr, <<1, 11>>),
    EchoFrame(c1, router, <<2, 7>>, <<1, 11>>),
    EchoFrame(AllMac, router, <<2, 8>>, BROADCAST),
    ArpFrame(AllMac, "Request", router, RouterAddr, LocalAddr),
    ArpFrame(c1, "Reply", c1, LocalAddr, <<1, 11>>) }
=============================================================================
