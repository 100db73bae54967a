--------------------------- MODULE MCDhcpMessage ---------------------------
(***************************************************************************)
(* Messages for TLC.  Of each option there is an acceptable form and one   *)
(* that is not, with values that look like tags, pads and the End option;  *)
(* of each header field a value that is off.                               *)
(***************************************************************************)
EXTENDS DhcpMessage, FiniteSetsExt

Good(t, v) == Item(t, v)
Bad(t, v)  == [tag |-> t, value |-> v, means |-> None]

Offer == 2
Ack   == 5

Server  == Good(OPT_SERVER_ID, <<53, 1, 2, 255>>)
Mask    == Good(OPT_SUBNET_MASK, <<255, 255, 255, 0>>)
Routers == [tag |-> OPT_ROUTER, value |-> <<10, 0, 0, 2, 10, 0, 0, 1>>,
            means |-> <<10, 0, 0, 2>>]

AnItem ==
  { Bad(OPT_PAD, <<>>), Bad(12, <<>>), Bad(12, <<255, 0>>),
    Mask, Bad(OPT_SUBNET_MASK, <<255, 0, 1>>),
    Good(OPT_ROUTER, <<10, 0, 0, 1>>), Routers,
    Bad(OPT_ROUTER, <<>>), Bad(OPT_ROUTER, <<10, 0, 0, 1, 3>>),
    Server, Good(OPT_MESSAGE_TYPE, <<Offer>>), Good(OPT_MESSAGE_TYPE, <<Ack>>),
    Bad(OPT_MESSAGE_TYPE, <<9>>), Bad(OPT_MESSAGE_TYPE, <<2, 2>>) }

\* A whole configuration, in three orders, and the same with an item more or less.
Whole ==
  { <<Good(OPT_MESSAGE_TYPE, <<Offer>>), Server, Mask, Routers>>,
    <<Routers, Mask, Good(OPT_MESSAGE_TYPE, <<Offer>>), Server>>,
    <<Server, Routers, Good(OPT_MESSAGE_TYPE, <<Offer>>), Mask>> }

Altered ==
  UNION { { InsertAt(list, i, item) : i \in 1 .. 5, item \in AnItem }
          \cup { RemoveAt(list, i) : i \in 1 .. 4 } : list \in Whole }

MCXid == 7

RightHeader(mac) == Header(OP_BOOT_REPLY, MCXid, <<mac, 0>>, <<10, 0, 0, 9>>)

OffHeader(mac, other) ==
  LET right == RightHeader(mac) IN
  { None,
    [right EXCEPT !.op = OP_BOOT_REQUEST], [right EXCEPT !.htype = 6],
    [right EXCEPT !.hlen = 16], [right EXCEPT !.cookie = FALSE],
    [right EXCEPT !.xid = MCXid + 1], [right EXCEPT !.chaddr = <<other, 0>>],
    [right EXCEPT !.chaddr = <<mac, 1>>], [right EXCEPT !.yiaddr = UNSPECIFIED] }

Written(headers, lists, types) ==
  { [header |-> h, items |-> l, expected |-> t] : h \in headers, l \in lists, t \in types }

RepliesTo(mac, other) ==
  Written({RightHeader(mac)}, Whole \cup Altered \cup BoundedSeq(AnItem, 2), {Offer, Ack})
  \cup Written(OffHeader(mac, other), Whole, {Offer})

MCPadding == {<<>>, <<0, 53, 9>>}

MCOffered ==
  { Binding(<<10, 0, 0, 9>>, UNSPECIFIED, UNSPECIFIED, <<10, 0, 0, 1>>),
    Binding(<<255, 54, 53, 0>>, UNSPECIFIED, UNSPECIFIED, <<0, 0, 0, 255>>) }
=============================================================================
