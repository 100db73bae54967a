---------------------------- MODULE DhcpMessage ----------------------------
(***************************************************************************)
(* The DHCP messages of net/src/dhcp.rs: build_discover and build_request, *)
(* and from_message with parse_options.                                    *)
(*                                                                         *)
(* A message is its header, a record of the fields a reader looks at, and  *)
(* the bytes of its options.  The header of a message that ends within it  *)
(* is None.  The 16 bytes of chaddr are the address and what lies behind.  *)
(***************************************************************************)
EXTENDS Integers, Sequences, SequencesExt

CONSTANT None

OP_BOOT_REQUEST == 1
OP_BOOT_REPLY   == 2
HTYPE_ETHERNET  == 1
HLEN_ETHERNET   == 6

OPT_PAD            == 0
OPT_SUBNET_MASK    == 1
OPT_ROUTER         == 3
OPT_REQUESTED_ADDR == 50
OPT_MESSAGE_TYPE   == 53
OPT_SERVER_ID      == 54
OPT_PARAMETER_REQUEST_LIST == 55
OPT_END            == 255

DHCPDISCOVER == 1
DHCPREQUEST  == 3

UNSPECIFIED == <<0, 0, 0, 0>>
OptionsLen  == 60   \* MESSAGE_LEN - FIXED_LEN

Ok(value)  == <<"Ok", value>>
Err(error) == <<"Err", error>>

\* The configuration a server binds to a client.
Binding(client_addr, subnet_mask, gateway, server_id) ==
  [client_addr |-> client_addr, subnet_mask |-> subnet_mask, gateway |-> gateway,
   server_id |-> server_id]

-----------------------------------------------------------------------------
(* Writing                                                                 *)

Header(op, xid, chaddr, yiaddr) ==
  [op |-> op, htype |-> HTYPE_ETHERNET, hlen |-> HLEN_ETHERNET, cookie |-> TRUE,
   xid |-> xid, chaddr |-> chaddr, yiaddr |-> yiaddr]

\* What the options do not fill of the message stays zero.
BuildMessage(mac, xid, options) ==
  [header  |-> Header(OP_BOOT_REQUEST, xid, <<mac, 0>>, UNSPECIFIED),
   options |-> options \o [i \in 1 .. OptionsLen - Len(options) |-> 0]]

PARAMETER_REQUEST == <<OPT_PARAMETER_REQUEST_LIST, 2, OPT_SUBNET_MASK, OPT_ROUTER>>

BuildDiscover(mac, xid) ==
  BuildMessage(mac, xid, <<OPT_MESSAGE_TYPE, 1, DHCPDISCOVER>>
                         \o PARAMETER_REQUEST \o <<OPT_END>>)

BuildRequest(mac, xid, offer) ==
  BuildMessage(mac, xid, <<OPT_MESSAGE_TYPE, 1, DHCPREQUEST>>
                         \o <<OPT_REQUESTED_ADDR, 4>> \o offer.client_addr
                         \o <<OPT_SERVER_ID, 4>> \o offer.server_id
                         \o PARAMETER_REQUEST \o <<OPT_END>>)

-----------------------------------------------------------------------------
(* Reading                                                                 *)

\* What parse_addr and the arms of the match accept.
Acceptable(tag, value) ==
  CASE tag \in {OPT_SUBNET_MASK, OPT_SERVER_ID} -> Len(value) = 4
    [] tag = OPT_ROUTER -> value # <<>> /\ Len(value) % 4 = 0
    [] tag = OPT_MESSAGE_TYPE -> Len(value) = 1 /\ value[1] \in 1 .. 8
    [] OTHER -> TRUE

\* Of a list of routers the first is taken.
Kept(tag, value) == IF tag = OPT_ROUTER THEN SubSeq(value, 1, 4) ELSE value

\* Mutant: the first occurrence of an option is kept.
StoreFirst(parsed, tag, value) ==
  IF tag \in DOMAIN parsed /\ parsed[tag] = None
  THEN [parsed EXCEPT ![tag] = Kept(tag, value)] ELSE parsed

\* A known option sets its field, another is passed over.
Store(parsed, tag, value) ==
  IF tag \in DOMAIN parsed THEN [parsed EXCEPT ![tag] = Kept(tag, value)] ELSE parsed

\* An iteration of the loop of parse_options.  `cur` is counted from 0, and there is
\* a result when the loop has been left.
Walk(options, s) ==
  LET tag      == options[s.cur + 1]
      len      == options[s.cur + 2]
      hasValue == s.cur + 1 < Len(options) /\ s.cur + 2 + len <= Len(options)
      value    == SubSeq(options, s.cur + 3, s.cur + 2 + len)
  IN  IF s.result # None THEN s
      ELSE IF s.cur >= Len(options) THEN [s EXCEPT !.result = Err("InvalidTLV")]
      ELSE IF tag = OPT_PAD THEN [s EXCEPT !.cur = s.cur + 1]
      ELSE IF tag = OPT_END THEN [s EXCEPT !.result = Ok(s.parsed)]
      ELSE IF ~hasValue \/ ~Acceptable(tag, value)
      THEN [s EXCEPT !.result = Err("InvalidTLV")]
      ELSE [s EXCEPT !.cur = s.cur + 2 + len, !.parsed = Store(s.parsed, tag, value)]

\* An iteration takes a byte at least, or is the last.
ParseOptions(options, known) ==
  LET walk[n \in 0 .. Len(options) + 1] ==
        IF n = 0 THEN [cur |-> 0, parsed |-> [f \in known |-> None], result |-> None]
        ELSE Walk(options, walk[n - 1])
  IN  walk[Len(options) + 1].result

\* The options a client has a use for.
Options == {OPT_SUBNET_MASK, OPT_ROUTER, OPT_MESSAGE_TYPE, OPT_SERVER_ID}

IsReply(h) == <<h.op, h.htype, h.hlen>> = <<OP_BOOT_REPLY, HTYPE_ETHERNET, HLEN_ETHERNET>>

\* The checks of the header, in their order.
HeaderError(h, xid, mac) ==
  IF h = None THEN "TooShort"
  ELSE IF ~IsReply(h) THEN "NotAReply"
  ELSE IF ~h.cookie THEN "BadMagicCookie"
  ELSE IF h.xid # xid THEN "XidMismatch"
  ELSE IF h.chaddr # <<mac, 0>> THEN "ClientMacMismatch"
  ELSE None

\* A mask, a router, a server and an address make a binding.
Bound(h, p, expected) ==
  IF p[OPT_MESSAGE_TYPE] # <<expected>> THEN Err("WrongMessageType")
  ELSE IF \/ None \in {p[OPT_SUBNET_MASK], p[OPT_ROUTER], p[OPT_SERVER_ID]}
          \/ h.yiaddr = UNSPECIFIED
  THEN Err("MissingData")
  ELSE Ok(Binding(h.yiaddr, p[OPT_SUBNET_MASK], p[OPT_ROUTER], p[OPT_SERVER_ID]))

FromMessage(msg, xid, mac, expected) ==
  LET error  == HeaderError(msg.header, xid, mac)
      parsed == ParseOptions(msg.options, Options)
  IN  IF error # None THEN Err(error)
      ELSE IF parsed[1] = "Err" THEN parsed
      ELSE Bound(msg.header, parsed[2], expected)

-----------------------------------------------------------------------------
(* What the other side writes and reads.  An item says what a reader is to *)
(* make of an option, None if it is to refuse it.                          *)

Item(tag, value) == [tag |-> tag, value |-> value, means |-> value]

Encode(item) ==
  IF item.tag = OPT_PAD THEN <<OPT_PAD>> ELSE <<item.tag, Len(item.value)>> \o item.value

Encoded(items) == FlattenSeq([i \in DOMAIN items |-> Encode(items[i])]) \o <<OPT_END>>

\* The last option of a kind counts.
Meant(items, f) ==
  LET mine == {i \in DOMAIN items : items[i].tag = f}
  IN  IF mine = {} THEN None ELSE items[Max(mine)].means

\* A reply is for this client and this exchange, is well formed, and carries a
\* configuration.
Usable(r, xid, mac) ==
  /\ r.header # None
  /\ r.header = Header(OP_BOOT_REPLY, xid, <<mac, 0>>, r.header.yiaddr)
  /\ r.header.yiaddr # UNSPECIFIED
  /\ \A i \in DOMAIN r.items : r.items[i].tag \in Options => r.items[i].means # None
  /\ Meant(r.items, OPT_MESSAGE_TYPE) = <<r.expected>>
  /\ \A f \in Options : Meant(r.items, f) # None

Configuration(r) ==
  Binding(r.header.yiaddr, Meant(r.items, OPT_SUBNET_MASK), Meant(r.items, OPT_ROUTER),
          Meant(r.items, OPT_SERVER_ID))

\* What a server looks for, and what it is to find.
Asked == {OPT_MESSAGE_TYPE, OPT_REQUESTED_ADDR, OPT_SERVER_ID, OPT_PARAMETER_REQUEST_LIST}

AskedBy(type, client_addr, server_id) ==
  [f \in Asked |-> CASE f = OPT_MESSAGE_TYPE -> <<type>>
                     [] f = OPT_REQUESTED_ADDR -> client_addr
                     [] f = OPT_SERVER_ID -> server_id
                     [] f = OPT_PARAMETER_REQUEST_LIST -> <<OPT_SUBNET_MASK, OPT_ROUTER>>]
=============================================================================
