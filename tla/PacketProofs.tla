----------------------------- MODULE PacketProofs ----------------------------
(***************************************************************************)
(* Proofs about Packets, for any packets whatever: what the decoders do to *)
(* the record of a packet, and what that means for node ids and            *)
(* conversations.                                                          *)
(***************************************************************************)
EXTENDS Packets, FiniteSetTheorems, WellFoundedInduction, TLAPS

-----------------------------------------------------------------------------
(* Sequences: the protocol stack of a packet, the list of conversations.   *)

Members(s) == {s[i] : i \in DOMAIN s}
IsSeq(s) == s \in Seq(Members(s))

\* One more at the end (on top of a stack).
LEMMA AppendMember ==
  ASSUME NEW stack, IsSeq(stack), NEW name
  PROVE  LET new == Append(stack, name)
         IN  /\ IsSeq(new)
             /\ Len(stack) \in Nat /\ DOMAIN stack = 1..Len(stack)
             /\ Len(new) = Len(stack) + 1 /\ DOMAIN new = 1..Len(new)
             /\ Members(new) = Members(stack) \cup {name}
             /\ new[Len(new)] = name
             /\ \A i \in 1..Len(stack) : new[i] = stack[i]
<1> DEFINE S == Members(stack) \cup {name}
           new == Append(stack, name)
<1>1. stack \in Seq(Members(stack))
  BY DEF IsSeq
<1>20. stack \in Seq(S) /\ name \in S
  BY <1>1
<1> HIDE DEF S
<1>2. new \in Seq(S)
  BY <1>20
<1>3. /\ Len(stack) \in Nat /\ DOMAIN stack = 1..Len(stack)
      /\ Len(new) = Len(stack) + 1 /\ DOMAIN new = 1..Len(new)
      /\ new[Len(new)] = name
      /\ \A i \in 1..Len(stack) : new[i] = stack[i]
  BY <1>20
<1> HIDE DEF new
<1>4. Members(new) = Members(stack) \cup {name}
  <2>1. \A i \in 1..Len(new) : i \in 1..Len(stack) \/ i = Len(new)
    BY <1>3
  <2>2. \A i \in 1..Len(stack) : i \in 1..Len(new)
    BY <1>3
  <2>3. Len(new) \in 1..Len(new)
    BY <1>3
  <2> QED
    BY <1>3, <2>1, <2>2, <2>3 DEF Members
<1> QED
  BY <1>2, <1>3, <1>4 DEF IsSeq, S, new

-----------------------------------------------------------------------------
(* The record of a packet under way.                                       *)

Fields == {"pkt", "lkentry", "pos", "len", "stack", "src", "dst", "gsrc", "gdst", "sport",
           "dport", "conv", "pph", "mode", "ok", "next"}

IsDp(dp) == DOMAIN dp = Fields /\ IsSeq(dp.stack) /\ Len(dp.stack) <= STACK_SIZE

\* What no decoder below TCP and UDP touches.
Untouched(d, dp) ==
  /\ d.pkt = dp.pkt /\ d.lkentry = dp.lkentry /\ d.sport = dp.sport /\ d.dport = dp.dport
  /\ d.conv = dp.conv /\ d.mode = dp.mode /\ d.ok = dp.ok

\* The names that say which ids a packet has.
HostNames == {"IP", "IPV6", "TCP", "UDP"}

Low(stack) == Members(stack) \cap HostNames = {}

\* What a field of the packet can read as an address, and the zero address of no id.
AddressesIn(pkt) == {Zero, Other} \cup {pkt.code[o] : o \in DOMAIN pkt.code}

\* The addresses of the ids were read from the packet.
Read(d) == d.src.addr \in AddressesIn(d.pkt) /\ d.dst.addr \in AddressesIn(d.pkt)

\* The ids of a packet whose IP header, if any, is still to come.
LinkLevel(d) ==
  /\ Read(d)
  /\ \/ d.src = NoId /\ d.dst = NoId
     \/ d.src.type = "LINK6" /\ d.dst.type = "LINK6"

\* The entry get_ppi keeps is one of the table.
PphKnown(d) == d.pph \in DOMAIN linktypes \cup {"none"}

\* A decoder of a link header has come from dp to d, with at most n names by now.
Below(d, dp, n) ==
  /\ IsDp(d) /\ Untouched(d, dp) /\ PphKnown(d)
  /\ Low(d.stack) /\ Len(d.stack) <= n /\ LinkLevel(d)

\* decode_proto_add touches the stack only.
LEMMA AddName ==
  ASSUME NEW dp, IsDp(dp), NEW name
  PROVE  LET d == decode_proto_add(dp, name)
         IN  /\ IsDp(d) /\ Untouched(d, dp) /\ d.pph = dp.pph /\ d.next = dp.next
             /\ d.src = dp.src /\ d.dst = dp.dst /\ d.gsrc = dp.gsrc /\ d.gdst = dp.gdst
             /\ d.pos = dp.pos /\ d.len = dp.len
             /\ Len(dp.stack) \in Nat
             /\ IF Len(dp.stack) < STACK_SIZE
                THEN /\ Len(d.stack) = Len(dp.stack) + 1
                     /\ Members(d.stack) = Members(dp.stack) \cup {name}
                ELSE d.stack = dp.stack
<1>1. CASE Len(dp.stack) < STACK_SIZE
  <2> DEFINE d == [dp EXCEPT !.stack = Append(@, name)]
  <2>1. /\ DOMAIN d = Fields /\ d.stack = Append(dp.stack, name)
        /\ Untouched(d, dp) /\ d.pph = dp.pph /\ d.next = dp.next
        /\ d.src = dp.src /\ d.dst = dp.dst /\ d.gsrc = dp.gsrc /\ d.gdst = dp.gdst
        /\ d.pos = dp.pos /\ d.len = dp.len
    BY DEF IsDp, Fields, Untouched
  <2>2. decode_proto_add(dp, name) = d
    BY <1>1 DEF decode_proto_add
  <2> HIDE DEF d
  <2>3. /\ IsSeq(d.stack) /\ Len(dp.stack) \in Nat
        /\ Len(d.stack) = Len(dp.stack) + 1
        /\ Members(d.stack) = Members(dp.stack) \cup {name}
    BY <2>1, AppendMember DEF IsDp
  <2>4. Len(d.stack) <= STACK_SIZE
    BY <1>1, <2>3 DEF STACK_SIZE
  <2> QED
    BY <1>1, <2>1, <2>2, <2>3, <2>4 DEF IsDp
<1>2. CASE ~ (Len(dp.stack) < STACK_SIZE)
  <2>1. decode_proto_add(dp, name) = dp
    BY <1>2 DEF decode_proto_add
  <2>2. Len(dp.stack) \in Nat
    BY AppendMember DEF IsDp
  <2> QED
    BY <1>2, <2>1, <2>2 DEF Untouched
<1> QED
  BY <1>1, <1>2

\* add_offset moves the cursor only.
LEMMA MoveCursor ==
  ASSUME NEW dp, IsDp(dp), NEW o
  PROVE  LET d == add_offset(dp, o)
         IN  /\ IsDp(d) /\ Untouched(d, dp) /\ d.pph = dp.pph /\ d.next = dp.next
             /\ d.src = dp.src /\ d.dst = dp.dst /\ d.gsrc = dp.gsrc /\ d.gdst = dp.gdst
             /\ d.stack = dp.stack
BY DEF IsDp, Fields, Untouched, add_offset

\* A name that is not IP's, TCP's or UDP's keeps a packet below IP.
LEMMA BelowAdd ==
  ASSUME NEW d, NEW dp, NEW n \in Nat, Below(d, dp, n), NEW name, name \notin HostNames,
         NEW m \in Nat, n < m
  PROVE  Below(decode_proto_add(d, name), dp, m) /\ decode_proto_add(d, name).next = d.next
<1> DEFINE e == decode_proto_add(d, name)
<1>1. /\ IsDp(e) /\ Untouched(e, d) /\ e.pph = d.pph /\ e.next = d.next
      /\ e.src = d.src /\ e.dst = d.dst /\ Len(d.stack) \in Nat
      /\ Len(e.stack) = Len(d.stack) + 1 \/ e.stack = d.stack
      /\ Members(e.stack) \subseteq Members(d.stack) \cup {name}
  BY AddName DEF Below
<1> HIDE DEF e
<1>2. Len(e.stack) <= m
  BY <1>1 DEF Below
<1>3. Low(e.stack)
  BY <1>1 DEF Below, Low
<1>4. Untouched(e, dp) /\ PphKnown(e) /\ LinkLevel(e)
  BY <1>1 DEF Below, Untouched, LinkLevel, Read, PphKnown
<1> QED
  BY <1>1, <1>2, <1>3, <1>4 DEF Below, e

\* So does a move of the cursor,
LEMMA BelowMove ==
  ASSUME NEW d, NEW dp, NEW n, Below(d, dp, n), NEW o
  PROVE  Below(add_offset(d, o), dp, n) /\ add_offset(d, o).next = d.next
<1> DEFINE e == add_offset(d, o)
<1>1. /\ IsDp(e) /\ Untouched(e, d) /\ e.pph = d.pph /\ e.next = d.next
      /\ e.src = d.src /\ e.dst = d.dst /\ e.stack = d.stack
  BY MoveCursor DEF Below
<1> HIDE DEF e
<1> QED
  BY <1>1 DEF Below, Untouched, LinkLevel, Read, PphKnown, e

\* A field is one of the packet's, or reads as other bytes.
LEMMA CodeRead ==
  ASSUME NEW dp, NEW k
  PROVE  Code(dp, k) \in AddressesIn(dp.pkt)
BY DEF Code, At, AddressesIn

\* the addresses of a link header,
LEMMA BelowIds ==
  ASSUME NEW d, NEW dp, NEW n, Below(d, dp, n), NEW a, NEW b
  PROVE  Below(LinkIds(d, a, b), dp, n) /\ LinkIds(d, a, b).next = d.next
<1> DEFINE e == LinkIds(d, a, b)
<1>1. /\ DOMAIN e = Fields /\ Untouched(e, d) /\ e.pph = d.pph /\ e.next = d.next
      /\ e.src.type = "LINK6" /\ e.dst.type = "LINK6" /\ e.stack = d.stack
      /\ e.src.addr = Code(d, b) /\ e.dst.addr = Code(d, a)
  BY DEF Below, IsDp, Fields, Untouched, LinkIds, Id
<1> HIDE DEF e
<1> QED
  BY <1>1, CodeRead DEF Below, IsDp, Untouched, LinkLevel, Read, PphKnown, e

\* and the call of another decoder.
LEMMA BelowHand ==
  ASSUME NEW d, NEW dp, NEW n, Below(d, dp, n), NEW decoder
  PROVE  Below(HandTo(decoder, d), dp, n) /\ HandTo(decoder, d).next = decoder
<1> DEFINE e == HandTo(decoder, d)
<1>1. /\ DOMAIN e = Fields /\ Untouched(e, d) /\ e.pph = d.pph /\ e.next = decoder
      /\ e.src = d.src /\ e.dst = d.dst /\ e.stack = d.stack
  BY DEF Below, IsDp, Fields, Untouched, HandTo
<1> HIDE DEF e
<1> QED
  BY <1>1 DEF Below, IsDp, Untouched, LinkLevel, Read, PphKnown, e

-----------------------------------------------------------------------------
(* How far decoding has come.                                              *)

LinkDecoders == {"get_eth_type", "get_fddi_type", "get_ieee802_5_type", "get_wlan",
                 "get_radiotap", "get_ppi", "get_linux_sll", "get_loop"}

\* A link header is due; PPI and radiotap add no name when another follows.
AtLink(d, dp) ==
  Below(d, dp, 0) /\ d.next \in LinkDecoders /\ d.src = NoId /\ d.dst = NoId

\* LLC, IP or IPX is due; there is room for the names of IP and TCP.
AtNetwork(d, dp) ==
  \/ Below(d, dp, 2) /\ d.next = "get_llc"
  \/ Below(d, dp, 3) /\ d.next \in {"get_ip", "get_ipx"}

\* The packet ended below IP; of a WLAN frame perhaps only one end is known.
EndedBelow(d, dp) ==
  /\ d.next = "none" /\ IsDp(d) /\ Untouched(d, dp) /\ PphKnown(d) /\ Low(d.stack) /\ Read(d)
  /\ LinkLevel(d) \/ (/\ d.src = NoId /\ d.dst.type = "LINK6"
                      /\ "IEE802.11" \in Members(d.stack))

\* The ids of a packet with an IP header.
HostIds(d) ==
  /\ Read(d)
  /\ IF d.mode = "LINK6" THEN LinkLevel(d) ELSE d.src.type = "IP" /\ d.dst.type = "IP"

\* An IP header was decoded, and TCP or UDP is due or no more.
PastIp(d, dp) ==
  /\ d.next \in {"none", "get_tcp", "get_udp"}
  /\ IsDp(d) /\ Untouched(d, dp) /\ PphKnown(d)
  /\ Members(d.stack) \cap {"IP", "IPV6"} # {} /\ Members(d.stack) \cap {"TCP", "UDP"} = {}
  /\ d.next # "none" => Len(d.stack) < STACK_SIZE
  /\ HostIds(d) /\ d.gsrc = d.src.addr /\ d.gdst = d.dst.addr

\* A decoder of a link header or of LLC has called the next, or was the last.
OutOfLink(d, dp) == AtLink(d, dp) \/ AtNetwork(d, dp) \/ EndedBelow(d, dp)

\* The end of a packet below IP.
LEMMA EndBelow ==
  ASSUME NEW d, NEW dp, NEW n, Below(d, dp, n), d.next = "none"
  PROVE  OutOfLink(d, dp)
BY DEF Below, OutOfLink, EndedBelow, LinkLevel

\* get_eth_II and append_etype_prot
LEMMA EtherType ==
  ASSUME NEW d, NEW dp, NEW n \in Nat, n <= 3, Below(d, dp, n), d.next = "none", NEW etype
  PROVE  OutOfLink(get_eth_II(d, etype), dp)
<1>0. Below(d, dp, 3)
  <2>1. Len(d.stack) \in Nat
    BY AddName DEF Below
  <2>2. Len(d.stack) <= 3
    BY <2>1 DEF Below
  <2> QED
    BY <2>2 DEF Below
<1>1. CASE etype \in {"IP", "IPV6"}
  <2>1. get_eth_II(d, etype) = HandTo("get_ip", d)
    BY <1>1 DEF get_eth_II
  <2> QED
    BY <1>0, <2>1, BelowHand DEF OutOfLink, AtNetwork
<1>2. CASE etype = "IPX"
  <2>1. get_eth_II(d, etype) = HandTo("get_ipx", d)
    BY <1>2 DEF get_eth_II
  <2> QED
    BY <1>0, <2>1, BelowHand DEF OutOfLink, AtNetwork
<1>3. CASE etype \notin {"IP", "IPV6", "IPX"}
  <2>1. get_eth_II(d, etype) = append_etype_prot(d, etype)
    BY <1>3 DEF get_eth_II
  <2>2. CASE etype \notin EtherTypes
    BY <2>1, <2>2, EndBelow DEF append_etype_prot
  <2>3. CASE etype \in EtherTypes
    <3>1. etype \notin HostNames
      BY <1>3, <2>3 DEF EtherTypes, HostNames
    <3>2. LET e == decode_proto_add(d, etype) IN Below(e, dp, 4) /\ e.next = d.next
      BY <1>0, <3>1, BelowAdd
    <3> QED
      BY <2>1, <2>3, <3>2, EndBelow DEF append_etype_prot
  <2> QED
    BY <2>2, <2>3
<1> QED
  BY <1>1, <1>2, <1>3

\* get_eth_type: up to three names below IP with a VLAN tag and LLC.
LEMMA EthernetStage ==
  ASSUME NEW d, NEW dp, Below(d, dp, 0), d.next = "none"
  PROVE  OutOfLink(get_eth_type(d), dp)
<1> DEFINE tagged == Code(d, 12) = "VLAN"
           v == IF tagged THEN decode_proto_add(d, "802.1Q") ELSE d
           o == IF tagged THEN 16 ELSE 12
           size == Code(d, o)
           p == add_offset(LinkIds(v, 0, 6), o + 2)
<1>0. Len(d.stack) \in Nat
  BY AddName DEF Below
<1>1. Below(v, dp, 1) /\ v.next = "none"
  <2>1. LET e == decode_proto_add(d, "802.1Q") IN Below(e, dp, 1) /\ e.next = "none"
    BY BelowAdd DEF HostNames
  <2>2. Below(d, dp, 1)
    BY <1>0 DEF Below
  <2> QED
    BY <2>1, <2>2
<1> HIDE DEF v
<1>2. Below(p, dp, 1) /\ p.next = "none"
  BY <1>1, BelowIds, BelowMove
<1> HIDE DEF p
<1>3. \A name : name \notin HostNames =>
        /\ Below(decode_proto_add(p, name), dp, 2) /\ decode_proto_add(p, name).next = "none"
        /\ Below(decode_proto_add(v, name), dp, 2) /\ decode_proto_add(v, name).next = "none"
  BY <1>1, <1>2, BelowAdd
<1>4. get_eth_type(d) \in {d, decode_proto_add(v, "ISL"),
                           get_eth_II(decode_proto_add(p, "ETH_II"), size),
                           decode_proto_add(p, "802.3-RAW"),
                           HandTo("get_llc", decode_proto_add(p, "802.3"))}
  BY DEF get_eth_type, v, p, get_eth_802_3
<1>5. OutOfLink(d, dp)
  BY EndBelow
<1>6. OutOfLink(decode_proto_add(v, "ISL"), dp) /\ OutOfLink(decode_proto_add(p, "802.3-RAW"), dp)
  BY <1>3, EndBelow DEF HostNames
<1>7. OutOfLink(get_eth_II(decode_proto_add(p, "ETH_II"), size), dp)
  BY <1>3, EtherType DEF HostNames
<1>8. OutOfLink(HandTo("get_llc", decode_proto_add(p, "802.3")), dp)
  BY <1>3, BelowHand DEF HostNames, OutOfLink, AtNetwork
<1> QED
  BY <1>4, <1>5, <1>6, <1>7, <1>8

\* get_fddi_type and get_ieee802_5_type
LEMMA RingStage ==
  ASSUME NEW d, NEW dp, Below(d, dp, 0), d.next = "none"
  PROVE  OutOfLink(get_fddi_type(d), dp) /\ OutOfLink(get_ieee802_5_type(d), dp)
<1> DEFINE f == decode_proto_add(d, "FDDI")
           fi == LinkIds(decode_proto_add(f, "LLC"), 1, 7)
           t == decode_proto_add(d, "Token Ring")
           ti == LinkIds(t, 2, 8)
           tl == decode_proto_add(ti, "LLC")
<1>1. Below(f, dp, 1) /\ f.next = "none" /\ Below(t, dp, 1) /\ t.next = "none"
  <2>1. \A name : name \notin HostNames =>
          Below(decode_proto_add(d, name), dp, 1) /\ decode_proto_add(d, name).next = "none"
    BY BelowAdd
  <2> QED
    BY <2>1 DEF HostNames
<1>2. Below(ti, dp, 1) /\ ti.next = "none"
  <2> HIDE DEF t
  <2> QED
    BY <1>1, BelowIds
<1>3. Below(decode_proto_add(f, "LLC"), dp, 2) /\ decode_proto_add(f, "LLC").next = "none"
      /\ Below(tl, dp, 2) /\ tl.next = "none"
  <2> HIDE DEF f, ti
  <2>1. ASSUME NEW e, Below(e, dp, 1), e.next = "none"
        PROVE  Below(decode_proto_add(e, "LLC"), dp, 2)
               /\ decode_proto_add(e, "LLC").next = "none"
    BY <2>1, BelowAdd DEF HostNames
  <2> QED
    BY <1>1, <1>2, <2>1
<1>4. Below(fi, dp, 2) /\ fi.next = "none"
  <2> DEFINE fl == decode_proto_add(f, "LLC")
  <2>1. Below(fl, dp, 2) /\ fl.next = "none"
    BY <1>3
  <2> HIDE DEF fl
  <2>2. Below(LinkIds(fl, 1, 7), dp, 2) /\ LinkIds(fl, 1, 7).next = "none"
    BY <2>1, BelowIds
  <2> QED
    BY <2>2 DEF fl
<1> HIDE DEF f, fi, t, ti, tl
<1>5. ASSUME NEW e, Below(e, dp, 2), e.next = "none", NEW o
      PROVE  OutOfLink(e, dp) /\ OutOfLink(HandTo("get_ip", add_offset(e, o)), dp)
  <2> DEFINE h == HandTo("get_ip", add_offset(e, o))
  <2>1. Below(h, dp, 2) /\ h.next = "get_ip"
    BY <1>5, BelowMove, BelowHand
  <2> HIDE DEF h
  <2>2. Len(h.stack) \in Nat
    BY <2>1, AddName DEF Below
  <2>3. Below(h, dp, 3)
    BY <2>1, <2>2 DEF Below
  <2>4. OutOfLink(h, dp)
    BY <2>1, <2>3 DEF OutOfLink, AtNetwork
  <2> QED
    BY <1>5, <2>4, EndBelow DEF h
<1>6. get_fddi_type(d) \in {f, HandTo("get_ip", add_offset(fi, 21)), fi}
  BY DEF get_fddi_type, f, fi
<1>7. get_ieee802_5_type(d) \in {t, ti, HandTo("get_ip", add_offset(tl, 22)), tl}
  BY DEF get_ieee802_5_type, t, ti, tl
<1>8. OutOfLink(f, dp) /\ OutOfLink(t, dp) /\ OutOfLink(ti, dp)
  BY <1>1, <1>2, EndBelow
<1>9. OutOfLink(fi, dp) /\ OutOfLink(HandTo("get_ip", add_offset(fi, 21)), dp)
      /\ OutOfLink(tl, dp) /\ OutOfLink(HandTo("get_ip", add_offset(tl, 22)), dp)
  BY <1>3, <1>4, <1>5
<1> QED
  BY <1>6, <1>7, <1>8, <1>9

\* get_loop and get_linux_sll
LEMMA CookedStage ==
  ASSUME NEW d, NEW dp, Below(d, dp, 0), d.next = "none"
  PROVE  OutOfLink(get_loop(d), dp) /\ OutOfLink(get_linux_sll(d), dp)
<1> DEFINE name == IF d.lkentry = "LOOP" THEN "LOOP" ELSE "NULL"
           n == decode_proto_add(d, name)
           s == decode_proto_add(d, "LINUX-SLL")
<1>1. Below(n, dp, 3) /\ n.next = "none"
  <2>1. name \notin HostNames
    BY DEF HostNames
  <2> HIDE DEF name
  <2> QED
    BY <2>1, BelowAdd
<1>2. Below(s, dp, 3) /\ s.next = "none"
  BY BelowAdd DEF HostNames
<1> HIDE DEF n, s
<1>3. get_loop(d) = HandTo("get_ip", add_offset(n, 4))
  BY DEF get_loop, n
<1>4. get_linux_sll(d) = get_eth_II(add_offset(s, 16), Code(d, 14))
  BY DEF get_linux_sll, s
<1>5. OutOfLink(HandTo("get_ip", add_offset(n, 4)), dp)
  BY <1>1, BelowMove, BelowHand DEF OutOfLink, AtNetwork
<1>6. OutOfLink(get_eth_II(add_offset(s, 16), Code(d, 14)), dp)
  BY <1>2, BelowMove, EtherType
<1> QED
  BY <1>3, <1>4, <1>5, <1>6

\* get_llc
LEMMA LlcStage ==
  ASSUME NEW d, NEW dp, Below(d, dp, 2), d.next = "none"
  PROVE  OutOfLink(get_llc(d), dp)
<1> DEFINE l == decode_proto_add(d, "LLC")
           m == add_offset(l, 3)
           nb == decode_proto_add(m, "NETBIOS")
           s == add_offset(d, 8)
           dsap == Code(d, 0)
<1>1. Below(l, dp, 3) /\ l.next = "none" /\ Below(s, dp, 2) /\ s.next = "none"
  BY BelowAdd, BelowMove DEF HostNames
<1>2. Below(m, dp, 3) /\ m.next = "none"
  BY <1>1, BelowMove
<1> HIDE DEF l, m, s
<1>3. \A name : name \notin HostNames =>
        Below(decode_proto_add(m, name), dp, 4) /\ decode_proto_add(m, name).next = "none"
  BY <1>2, BelowAdd
<1>4. Below(nb, dp, 4) /\ nb.next = "none"
  BY <1>3 DEF HostNames
<1> HIDE DEF nb
<1>5. Below(decode_proto_add(nb, "SMB"), dp, 5) /\ decode_proto_add(nb, "SMB").next = "none"
  BY <1>4, BelowAdd DEF HostNames
<1>6. get_netbios(nb) \in {nb, decode_proto_add(nb, "SMB")}
  BY DEF get_netbios
<1>7. \/ get_llc(d) \in {d, get_eth_II(s, Code(d, 6)), l, HandTo("get_ip", m),
                         HandTo("get_ipx", m), get_netbios(nb), m}
      \/ dsap \in SapNames /\ get_llc(d) = decode_proto_add(m, dsap)
  BY DEF get_llc, l, m, s, nb
<1>8. OutOfLink(d, dp) /\ OutOfLink(l, dp) /\ OutOfLink(m, dp) /\ OutOfLink(get_netbios(nb), dp)
  BY <1>1, <1>2, <1>4, <1>5, <1>6, EndBelow
<1>9. OutOfLink(get_eth_II(s, Code(d, 6)), dp)
  BY <1>1, EtherType
<1>10. OutOfLink(HandTo("get_ip", m), dp) /\ OutOfLink(HandTo("get_ipx", m), dp)
  BY <1>2, BelowHand DEF OutOfLink, AtNetwork
<1>11. dsap \in SapNames => OutOfLink(decode_proto_add(m, dsap), dp)
  <2>1. dsap \in SapNames => dsap \notin HostNames
    BY DEF SapNames, HostNames
  <2> HIDE DEF dsap
  <2> QED
    BY <1>3, <2>1, EndBelow
<1> QED
  BY <1>7, <1>8, <1>9, <1>10, <1>11

\* get_ipx
LEMMA IpxStage ==
  ASSUME NEW d, NEW dp, Below(d, dp, 3), d.next = "none"
  PROVE  OutOfLink(get_ipx(d), dp)
<1> DEFINE type == Code(d, 5)
           types == {"IPX-RIP", "IPX-ECHO", "IPX-ERROR", "IPX-SPX", "IPX-NCP", "IPX-NetBIOS"}
           x == decode_proto_add(d, "IPX")
           named == IF type \in types THEN decode_proto_add(x, type) ELSE x
           asked == {i \in DOMAIN IpxSockets : IpxSockets[i] \in {Code(d, 16), Code(d, 28)}}
           first == CHOOSE i \in asked : \A j \in asked : i <= j
<1>1. Below(x, dp, 4) /\ x.next = "none"
  BY BelowAdd DEF HostNames
<1>2. Below(named, dp, 5) /\ named.next = "none"
  <2>1. type \in types => type \notin HostNames
    BY DEF HostNames
  <2>2. type \in types => Below(decode_proto_add(x, type), dp, 5)
                          /\ decode_proto_add(x, type).next = "none"
    <3> HIDE DEF type, x, types
    <3> QED
      BY <1>1, <2>1, BelowAdd
  <2>3. Below(x, dp, 5)
    <3>1. Len(x.stack) \in Nat
      BY <1>1, AddName DEF Below
    <3> QED
      BY <1>1, <3>1 DEF Below
  <2> QED
    BY <1>1, <2>2, <2>3
<1>3. asked # {} => IpxSockets[first] \notin HostNames
  <2> DEFINE N == {"IPX-SAP", "ATTACHMATE-GW", "PING-NOVELL", "IPX-NCP", "IPX-RIP",
                   "IPX-NetBIOS", "IPX-DIAG", "IPX-SERIAL.", "IPX-ADSM", "EIGRP",
                   "IPX W.A. ROUTER", "IPX-TCP-TUNNEL", "IPX-UDP-TUNNEL", "IPX-SMB", "SNMP"}
  <2>1. IpxSockets \in Seq(N)
    BY DEF IpxSockets
  <2>2. N \cap HostNames = {}
    BY DEF HostNames
  <2> HIDE DEF N
  <2>3. \A i \in DOMAIN IpxSockets : IpxSockets[i] \in N
    BY <2>1
  <2>4. asked \subseteq Nat
    BY <2>1
  <2>5. asked # {} => first \in asked
    <3> HIDE DEF asked
    <3>1. ASSUME asked # {} PROVE \E i \in asked : \A j \in asked : i <= j
      <4>1. PICK i \in asked : \A j \in asked : ~ (<<j, i>> \in OpToRel(<, Nat))
        BY ONLY <2>4, <3>1, NatLessThanWellFounded, WFMin
      <4>2. \A j \in asked : ~ (j < i)
        BY <2>4, <4>1 DEF OpToRel
      <4> QED
        BY <2>4, <4>2
    <3> QED
      BY <3>1
  <2> HIDE DEF first
  <2>6. asked # {} => first \in DOMAIN IpxSockets
    BY <2>5
  <2> QED
    BY <2>2, <2>3, <2>6
<1> HIDE DEF named, asked, first
<1>4. \/ get_ipx(d) \in {d, named}
      \/ asked # {} /\ get_ipx(d) = decode_proto_add(named, IpxSockets[first])
  BY DEF get_ipx, named, asked, first
<1>5. OutOfLink(d, dp) /\ OutOfLink(named, dp)
  BY <1>2, EndBelow
<1>6. asked # {} => OutOfLink(decode_proto_add(named, IpxSockets[first]), dp)
  <2>1. asked # {} => /\ Below(decode_proto_add(named, IpxSockets[first]), dp, 6)
                      /\ decode_proto_add(named, IpxSockets[first]).next = "none"
    BY <1>2, <1>3, BelowAdd
  <2> QED
    BY <2>1, EndBelow
<1> QED
  BY <1>4, <1>5, <1>6

\* A WLAN frame of which only the receiver is asked.
OneEnd(d, dp) ==
  /\ d.next = "none" /\ IsDp(d) /\ Untouched(d, dp) /\ PphKnown(d) /\ Low(d.stack) /\ Read(d)
  /\ d.src = NoId /\ d.dst.type = "LINK6" /\ "IEE802.11" \in Members(d.stack)

\* get_wlan: a control frame other than RTS, or a short frame, has one end at most.
LEMMA WlanStage ==
  ASSUME NEW d, NEW dp, Below(d, dp, 0), d.next = "none", d.src = NoId
  PROVE  OutOfLink(get_wlan(d), dp)
<1> DEFINE w == decode_proto_add(d, "IEE802.11")
           subtype == Num(d, 0)
           ofs == WlanAddresses[Num(d, 1) % 4]
           one == [w EXCEPT !.dst = Id("LINK6", Code(d, ofs.dst))]
           both == LinkIds(w, ofs.dst, ofs.src)
           body == add_offset(both, IF Num(d, 1) % 4 = 3 THEN 30 ELSE 24)
           llc == HandTo("get_llc", add_offset(body, IF subtype = 8 THEN 2 ELSE 0))
<1>1. /\ Below(w, dp, 1) /\ w.next = "none" /\ w.src = NoId
      /\ "IEE802.11" \in Members(w.stack)
  <2>1. Below(w, dp, 1) /\ w.next = "none"
    BY BelowAdd DEF HostNames
  <2>2. Len(d.stack) <= 0 /\ IsDp(d)
    BY DEF Below
  <2>3. /\ w.src = d.src /\ Len(d.stack) \in Nat
        /\ IF Len(d.stack) < STACK_SIZE
           THEN Members(w.stack) = Members(d.stack) \cup {"IEE802.11"}
           ELSE w.stack = d.stack
    BY <2>2, AddName
  <2>4. Len(d.stack) < STACK_SIZE
    BY <2>2, <2>3 DEF STACK_SIZE
  <2> QED
    BY <2>1, <2>3, <2>4
<1> HIDE DEF w, ofs
<1>2. OneEnd(one, dp)
  <2>1. /\ DOMAIN one = Fields /\ one.stack = w.stack /\ one.pph = w.pph /\ one.next = "none"
        /\ Untouched(one, w) /\ one.src = NoId
        /\ one.dst.type = "LINK6" /\ one.dst.addr = Code(d, ofs.dst)
    BY <1>1 DEF Below, IsDp, Fields, Untouched, Id
  <2> HIDE DEF one
  <2>2. one.src.addr = Zero /\ Zero \in AddressesIn(one.pkt)
    BY <2>1 DEF NoId, AddressesIn
  <2>3. one.pkt = d.pkt
    BY <1>1, <2>1 DEF Below, Untouched
  <2>4. Read(one)
    BY <2>1, <2>2, <2>3, CodeRead DEF Read
  <2> QED
    BY <1>1, <2>1, <2>4 DEF OneEnd, Below, IsDp, Untouched, PphKnown
<1>3. Below(both, dp, 1) /\ both.next = "none"
  BY <1>1, BelowIds
<1> HIDE DEF one, both
<1>4. Below(body, dp, 1) /\ body.next = "none"
  BY <1>3, BelowMove
<1> HIDE DEF body
<1>5. OutOfLink(llc, dp)
  <2> DEFINE o == IF subtype = 8 THEN 2 ELSE 0
             moved == add_offset(body, o)
  <2> HIDE DEF o
  <2>1. Below(moved, dp, 1) /\ moved.next = "none"
    BY <1>4, BelowMove
  <2> HIDE DEF moved
  <2>2. Len(moved.stack) \in Nat
    BY <2>1, AddName DEF Below
  <2>3. Below(moved, dp, 2)
    BY <2>1, <2>2 DEF Below
  <2>4. Below(HandTo("get_llc", moved), dp, 2) /\ HandTo("get_llc", moved).next = "get_llc"
    BY <2>3, BelowHand
  <2> QED
    BY <2>4 DEF OutOfLink, AtNetwork, moved, o
<1>6. ASSUME NEW e, Below(e, dp, 1), e.next = "none", NEW name, name \notin HostNames
      PROVE  OutOfLink(decode_proto_add(e, name), dp)
  <2>1. Below(decode_proto_add(e, name), dp, 2) /\ decode_proto_add(e, name).next = "none"
    BY <1>6, BelowAdd
  <2> QED
    BY <2>1, EndBelow
<1>7. OutOfLink(one, dp)
  BY <1>2 DEF OneEnd, OutOfLink, EndedBelow
<1>8. ASSUME NEW name, name \notin HostNames, NEW k
      PROVE  OutOfLink(decode_proto_add(add_offset(one, k), name), dp)
  <2> DEFINE m == add_offset(one, k)
             e == decode_proto_add(m, name)
  <2>1. OneEnd(m, dp)
    <3>1. /\ IsDp(m) /\ Untouched(m, one) /\ m.pph = one.pph /\ m.next = one.next
          /\ m.src = one.src /\ m.dst = one.dst /\ m.stack = one.stack
      BY <1>2, MoveCursor DEF OneEnd
    <3> HIDE DEF m
    <3> QED
      BY <1>2, <3>1 DEF OneEnd, Untouched, PphKnown, Read
  <2> HIDE DEF m
  <2>2. /\ IsDp(e) /\ Untouched(e, m) /\ e.pph = m.pph /\ e.next = m.next
        /\ e.src = m.src /\ e.dst = m.dst
        /\ Members(e.stack) = Members(m.stack) \/ Members(e.stack) = Members(m.stack) \cup {name}
    BY <2>1, AddName DEF OneEnd
  <2> HIDE DEF e
  <2>3. OneEnd(e, dp)
    BY <1>8, <2>1, <2>2 DEF OneEnd, Untouched, PphKnown, Low, Read
  <2> QED
    BY <2>3 DEF OneEnd, OutOfLink, EndedBelow, e, m
<1>9. ASSUME NEW k
      PROVE  /\ OutOfLink(decode_wlan_ctrl(add_offset(one, k), subtype), dp)
             /\ OutOfLink(decode_wlan_ctrl(add_offset(both, k), subtype), dp)
  <2>1. \A x : \E name : name \notin HostNames /\ decode_wlan_ctrl(x, subtype) = decode_proto_add(x, name)
    BY DEF decode_wlan_ctrl, HostNames
  <2>2. OutOfLink(decode_wlan_ctrl(add_offset(one, k), subtype), dp)
    BY <1>8, <2>1
  <2>3. Below(add_offset(both, k), dp, 1) /\ add_offset(both, k).next = "none"
    BY <1>3, BelowMove
  <2>4. OutOfLink(decode_wlan_ctrl(add_offset(both, k), subtype), dp)
    BY <1>6, <2>1, <2>3
  <2> QED
    BY <2>2, <2>4
<1>10. OutOfLink(decode_wlan_mgmt(body, subtype), dp)
  <2>1. \A x : \E name : name \notin HostNames /\ decode_wlan_mgmt(x, subtype) = decode_proto_add(x, name)
    BY DEF decode_wlan_mgmt, HostNames
  <2> QED
    BY <1>4, <1>6, <2>1
<1>11. OutOfLink(w, dp) /\ OutOfLink(body, dp) /\ OutOfLink(decode_proto_add(body, "WLAN-CRYPTED"), dp)
  BY <1>1, <1>4, <1>6, EndBelow DEF HostNames
<1>12. get_wlan(d) \in {w, decode_wlan_ctrl(add_offset(one, 10), subtype), one,
                        decode_wlan_ctrl(add_offset(both, 16), subtype),
                        decode_wlan_mgmt(body, subtype),
                        decode_proto_add(body, "WLAN-CRYPTED"), llc, body}
  <2> HIDE DEF subtype
  <2> QED
    BY DEF get_wlan, w, one, both, body, ofs, subtype
<1> QED
  BY <1>5, <1>7, <1>9, <1>10, <1>11, <1>12

\* Each entry of linktypes has a decoder of link headers or get_ip (RAW).
LEMMA LinkFuns ==
  ASSUME NEW l \in DOMAIN linktypes
  PROVE  link_fun[l] \in LinkDecoders \cup {"get_ip"}
<1>1. DOMAIN linktypes = {"EN10MB", "FDDI", "IEEE802", "WLAN", "RADIOTAP", "PPI", "RAW", "SLL",
                          "NULL", "LOOP"}
  BY DEF linktypes
<1>2. CASE l \in {"EN10MB", "FDDI", "IEEE802", "WLAN", "RADIOTAP"}
  BY <1>2 DEF link_fun, LinkDecoders
<1>3. CASE l \in {"PPI", "RAW", "SLL", "NULL", "LOOP"}
  BY <1>3 DEF link_fun, LinkDecoders
<1> QED
  BY <1>1, <1>2, <1>3

\* A link header (or, for RAW, the IP header) is due behind what is no header.
LEMMA HandToLink ==
  ASSUME NEW e, NEW dp, Below(e, dp, 0), e.next = "none", e.src = NoId, e.dst = NoId, NEW l
  PROVE  OutOfLink(HandToLinkFun(l, e), dp)
<1>1. ASSUME NEW f \in LinkDecoders
      PROVE  OutOfLink(HandTo(f, e), dp)
  <2>1. Below(HandTo(f, e), dp, 0) /\ HandTo(f, e).next = f
    BY BelowHand
  <2>2. HandTo(f, e).src = NoId /\ HandTo(f, e).dst = NoId
    BY DEF HandTo, Below, IsDp, Fields
  <2> QED
    BY <1>1, <2>1, <2>2 DEF OutOfLink, AtLink
<1>2. OutOfLink(HandTo("get_ip", e), dp)
  <2>1. Below(HandTo("get_ip", e), dp, 0) /\ HandTo("get_ip", e).next = "get_ip"
    BY BelowHand
  <2> DEFINE h == HandTo("get_ip", e)
  <2> HIDE DEF h
  <2>2. Len(h.stack) \in Nat
    BY <2>1, AddName DEF Below, h
  <2>3. Below(h, dp, 3)
    BY <2>1, <2>2 DEF Below, h
  <2> QED
    BY <2>1, <2>3 DEF OutOfLink, AtNetwork, h
<1>3. CASE l \in DOMAIN linktypes
  BY <1>1, <1>2, <1>3, LinkFuns DEF HandToLinkFun
<1>4. CASE l \notin DOMAIN linktypes
  BY <1>4, EndBelow DEF HandToLinkFun
<1> QED
  BY <1>3, <1>4

\* get_radiotap and get_ppi: without names or ids another link header follows, and get_ppi
\* keeps an entry of the table, or none.
LEMMA WrappedStage ==
  ASSUME NEW d, NEW dp, Below(d, dp, 0), d.next = "none", d.src = NoId, d.dst = NoId
  PROVE  OutOfLink(get_radiotap(d), dp) /\ OutOfLink(get_ppi(d), dp)
<1>1. ASSUME NEW name, name \notin HostNames
      PROVE  OutOfLink(decode_proto_add(d, name), dp)
  <2>1. Below(decode_proto_add(d, name), dp, 1) /\ decode_proto_add(d, name).next = "none"
    BY <1>1, BelowAdd
  <2> QED
    BY <2>1, EndBelow
<1>2. ASSUME NEW o
      PROVE  /\ Below(add_offset(d, o), dp, 0) /\ add_offset(d, o).next = "none"
             /\ add_offset(d, o).src = NoId /\ add_offset(d, o).dst = NoId
  BY BelowMove, MoveCursor DEF Below
<1>3. ASSUME NEW e, Below(e, dp, 0), e.next = "none", e.src = NoId, e.dst = NoId
      PROVE  OutOfLink(HandTo("get_wlan", e), dp)
  <2>1. Below(HandTo("get_wlan", e), dp, 0) /\ HandTo("get_wlan", e).next = "get_wlan"
    BY <1>3, BelowHand
  <2>2. HandTo("get_wlan", e).src = NoId /\ HandTo("get_wlan", e).dst = NoId
    BY <1>3 DEF HandTo, Below, IsDp, Fields
  <2> QED
    BY <2>1, <2>2 DEF OutOfLink, AtLink, LinkDecoders
<1>4. OutOfLink(get_radiotap(d), dp)
  <2> DEFINE m == add_offset(d, Size(d, 2))
  <2>1. Below(m, dp, 0) /\ m.next = "none" /\ m.src = NoId /\ m.dst = NoId
    BY <1>2
  <2> HIDE DEF m
  <2>2. OutOfLink(HandTo("get_wlan", m), dp)
    BY <1>3, <2>1
  <2>3. OutOfLink(decode_proto_add(d, "RADIOTAP"), dp)
    BY <1>1 DEF HostNames
  <2> QED
    BY <2>2, <2>3 DEF get_radiotap, m
<1>5. OutOfLink(get_ppi(d), dp)
  <2> DEFINE dlt == Code(d, 4)
             entry == IF d.pph = dlt THEN d.pph ELSE IF dlt \in DOMAIN linktypes THEN dlt ELSE "none"
             m == add_offset(d, Size(d, 2))
             e == [m EXCEPT !.pph = entry]
  <2>1. get_ppi(d) \in {decode_proto_add(d, "PPI"), HandToLinkFun(entry, e)}
    BY DEF get_ppi
  <2>2. entry \in DOMAIN linktypes \cup {"none"}
    BY DEF Below, PphKnown
  <2>3. Below(m, dp, 0) /\ m.next = "none" /\ m.src = NoId /\ m.dst = NoId
    BY <1>2
  <2> HIDE DEF entry, m
  <2>4. /\ DOMAIN e = Fields /\ e.stack = m.stack /\ e.pph = entry /\ e.next = m.next
        /\ Untouched(e, m) /\ e.src = m.src /\ e.dst = m.dst
    BY <2>3 DEF Below, IsDp, Fields, Untouched
  <2> HIDE DEF e
  <2>5. Below(e, dp, 0) /\ e.next = "none" /\ e.src = NoId /\ e.dst = NoId
    BY <2>2, <2>3, <2>4 DEF Below, IsDp, Untouched, PphKnown, LinkLevel, Read
  <2>6. OutOfLink(HandToLinkFun(entry, e), dp)
    BY <2>5, HandToLink
  <2>7. OutOfLink(decode_proto_add(d, "PPI"), dp)
    BY <1>1 DEF HostNames
  <2> QED
    BY <2>1, <2>6, <2>7
<1> QED
  BY <1>4, <1>5

\* A packet in which decoding starts: nothing but its link type says what comes first.
LEMMA FirstStage ==
  ASSUME NEW pkt, NEW l, NEW m, NEW conv, NEW entry \in DOMAIN linktypes \cup {"none"}
  PROVE  LET start == decode_proto_start(pkt, l, m, conv, entry)
         IN  OutOfLink(HandToLinkFun(l, start), start)
<1> DEFINE start == decode_proto_start(pkt, l, m, conv, entry)
<1>1. /\ DOMAIN start = Fields /\ start.stack = <<>> /\ start.next = "none"
      /\ start.src = NoId /\ start.dst = NoId /\ start.pph = entry
  BY DEF decode_proto_start, Fields
<1> HIDE DEF start
<1>2. IsSeq(start.stack) /\ Members(start.stack) = {} /\ Len(start.stack) = 0
  BY <1>1 DEF IsSeq, Members
<1>3. Below(start, start, 0)
  BY <1>1, <1>2 DEF Below, IsDp, Untouched, PphKnown, Low, LinkLevel, Read, NoId, AddressesIn,
              STACK_SIZE
<1> QED
  BY <1>1, <1>3, HandToLink DEF start

-----------------------------------------------------------------------------
(* IP, TCP and UDP.                                                        *)

\* The name of an IP header is on the stack, and its addresses are the next.
AtIpHeader(d, dp) ==
  /\ d.next = "none" /\ IsDp(d) /\ Untouched(d, dp) /\ PphKnown(d)
  /\ Members(d.stack) \cap {"IP", "IPV6"} # {} /\ Members(d.stack) \cap {"TCP", "UDP"} = {}
  /\ Len(d.stack) < STACK_SIZE

\* ip_ids: outside link-layer mode the addresses of the header become the ids.
LEMMA IpAddresses ==
  ASSUME NEW d, NEW dp, AtIpHeader(d, dp), LinkLevel(d), NEW a, NEW b
  PROVE  AtIpHeader(ip_ids(d, a, b), dp) /\ HostIds(ip_ids(d, a, b))
<1> DEFINE e == [d EXCEPT !.src = Id("IP", Code(d, a)), !.dst = Id("IP", Code(d, b))]
<1>1. /\ DOMAIN e = Fields /\ Untouched(e, d) /\ e.pph = d.pph /\ e.next = d.next
      /\ e.src.type = "IP" /\ e.dst.type = "IP" /\ e.stack = d.stack
      /\ e.src.addr = Code(d, a) /\ e.dst.addr = Code(d, b)
  BY DEF AtIpHeader, IsDp, Fields, Untouched, Id
<1>2. ip_ids(d, a, b) = IF d.mode = "LINK6" THEN d ELSE e
  BY DEF ip_ids
<1> HIDE DEF e
<1>3. AtIpHeader(e, dp) /\ e.mode = d.mode
  BY <1>1 DEF AtIpHeader, IsDp, Untouched, PphKnown
<1>4. Read(e)
  BY <1>1, CodeRead DEF Read, Untouched
<1> QED
  BY <1>1, <1>2, <1>3, <1>4 DEF HostIds, LinkLevel

\* ip_payload: TCP or UDP is called, unless the packet is a later fragment.
LEMMA IpPayload ==
  ASSUME NEW d, NEW dp, AtIpHeader(d, dp), HostIds(d), NEW type, NEW fragment
  PROVE  PastIp(ip_payload(d, type, fragment), dp)
<1> DEFINE e == [d EXCEPT !.gsrc = d.src.addr, !.gdst = d.dst.addr]
<1>1. /\ DOMAIN e = Fields /\ Untouched(e, d) /\ e.pph = d.pph /\ e.next = d.next
      /\ e.src = d.src /\ e.dst = d.dst /\ e.stack = d.stack
      /\ e.gsrc = d.src.addr /\ e.gdst = d.dst.addr
  BY DEF AtIpHeader, IsDp, Fields, Untouched
<1>2. \/ \E decoder \in {"get_tcp", "get_udp"} :
           ip_payload(d, type, fragment) = HandTo(decoder, e)
      \/ \E name \in IpProtocols \cup {"TCP_FRAGMENT", "UDP_FRAGMENT", "IP_UNKNOWN"} :
           ip_payload(d, type, fragment) = decode_proto_add(e, name)
  <2> HIDE DEF e
  <2>1. ip_payload(d, type, fragment)
          = CASE type = "TCP" -> IF fragment # 0 THEN decode_proto_add(e, "TCP_FRAGMENT")
                                 ELSE HandTo("get_tcp", e)
              [] type = "UDP" -> IF fragment # 0 THEN decode_proto_add(e, "UDP_FRAGMENT")
                                 ELSE HandTo("get_udp", e)
              [] OTHER -> decode_proto_add(e, IF type \in IpProtocols THEN type ELSE "IP_UNKNOWN")
    BY DEF ip_payload, e
  <2>2. CASE type = "TCP"
    BY <2>1, <2>2
  <2>3. CASE type = "UDP"
    BY <2>1, <2>3
  <2>4. CASE type \notin {"TCP", "UDP"}
    BY <2>1, <2>4
  <2> QED
    BY <2>2, <2>3, <2>4
<1> HIDE DEF e
<1>3. AtIpHeader(e, dp) /\ HostIds(e)
  BY <1>1 DEF AtIpHeader, IsDp, Untouched, PphKnown, HostIds, LinkLevel, Read
<1>4. ASSUME NEW decoder \in {"get_tcp", "get_udp"}
      PROVE  PastIp(HandTo(decoder, e), dp)
  <2> DEFINE h == HandTo(decoder, e)
  <2>1. /\ DOMAIN h = Fields /\ Untouched(h, e) /\ h.pph = e.pph /\ h.next = decoder
        /\ h.src = e.src /\ h.dst = e.dst /\ h.gsrc = e.gsrc /\ h.gdst = e.gdst
        /\ h.stack = e.stack
    BY <1>3 DEF AtIpHeader, IsDp, Fields, Untouched, HandTo
  <2> HIDE DEF h
  <2>2. HostIds(h)
    BY <1>3, <2>1 DEF HostIds, LinkLevel, Read, Untouched
  <2>3. IsDp(h) /\ Untouched(h, dp) /\ PphKnown(h)
    BY <1>3, <2>1 DEF AtIpHeader, IsDp, Untouched, PphKnown
  <2> QED
    BY <1>1, <1>3, <2>1, <2>2, <2>3 DEF AtIpHeader, PastIp, h
<1>5. ASSUME NEW name \in IpProtocols \cup {"TCP_FRAGMENT", "UDP_FRAGMENT", "IP_UNKNOWN"}
      PROVE  PastIp(decode_proto_add(e, name), dp)
  <2> DEFINE n == decode_proto_add(e, name)
  <2>1. /\ IsDp(n) /\ Untouched(n, e) /\ n.pph = e.pph /\ n.next = e.next
        /\ n.src = e.src /\ n.dst = e.dst /\ n.gsrc = e.gsrc /\ n.gdst = e.gdst
        /\ Members(n.stack) = Members(e.stack) \cup {name}
    BY <1>3, AddName DEF AtIpHeader
  <2>2. name \notin {"TCP", "UDP"}
    BY <1>5 DEF IpProtocols
  <2> HIDE DEF n
  <2>3. HostIds(n)
    BY <1>3, <2>1 DEF HostIds, LinkLevel, Read, Untouched
  <2>4. Untouched(n, dp) /\ PphKnown(n) /\ n.next = "none"
    BY <1>3, <2>1 DEF AtIpHeader, Untouched, PphKnown
  <2> QED
    BY <1>1, <1>3, <2>1, <2>2, <2>3, <2>4 DEF AtIpHeader, PastIp, n
<1> QED
  BY <1>2, <1>4, <1>5

\* get_ip: too short or of another version, the packet ends here.
LEMMA IpStage ==
  ASSUME NEW d, NEW dp, Below(d, dp, 3), d.next = "none"
  PROVE  OutOfLink(get_ip(d), dp) \/ PastIp(get_ip(d), dp)
<1>1. ASSUME NEW name \in {"IP", "IPV6"}, NEW a, NEW b, NEW o, NEW type, NEW fragment
      PROVE  PastIp(ip_payload(add_offset(ip_ids(decode_proto_add(d, name), a, b), o),
                               type, fragment), dp)
  <2> DEFINE n == decode_proto_add(d, name)
             i == ip_ids(n, a, b)
             m == add_offset(i, o)
  <2>1. AtIpHeader(n, dp) /\ LinkLevel(n)
    <3>1. /\ IsDp(n) /\ Untouched(n, d) /\ n.pph = d.pph /\ n.next = d.next
          /\ n.src = d.src /\ n.dst = d.dst /\ Len(d.stack) \in Nat
          /\ IF Len(d.stack) < STACK_SIZE
             THEN /\ Len(n.stack) = Len(d.stack) + 1
                  /\ Members(n.stack) = Members(d.stack) \cup {name}
             ELSE n.stack = d.stack
      BY AddName DEF Below
    <3>2. Len(d.stack) <= 3
      BY DEF Below
    <3> HIDE DEF n
    <3>3. Len(n.stack) < STACK_SIZE /\ Members(n.stack) = Members(d.stack) \cup {name}
      BY <3>1, <3>2 DEF STACK_SIZE
    <3>4. Members(n.stack) \cap {"TCP", "UDP"} = {}
      BY <3>3 DEF Below, Low, HostNames
    <3>5. Untouched(n, dp) /\ PphKnown(n) /\ LinkLevel(n)
      BY <3>1 DEF Below, Untouched, PphKnown, LinkLevel, Read
    <3> QED
      BY <3>1, <3>3, <3>4, <3>5 DEF AtIpHeader
  <2> HIDE DEF n
  <2>2. AtIpHeader(i, dp) /\ HostIds(i)
    BY <2>1, IpAddresses
  <2> HIDE DEF i
  <2>3. AtIpHeader(m, dp) /\ HostIds(m)
    <3>1. /\ IsDp(m) /\ Untouched(m, i) /\ m.pph = i.pph /\ m.next = i.next
          /\ m.src = i.src /\ m.dst = i.dst /\ m.stack = i.stack
      BY <2>2, MoveCursor DEF AtIpHeader
    <3> HIDE DEF m
    <3> QED
      BY <2>2, <3>1 DEF AtIpHeader, HostIds, LinkLevel, Read, Untouched, PphKnown
  <2> HIDE DEF m
  <2> QED
    BY <2>3, IpPayload DEF m, i, n
<1>2. OutOfLink(d, dp)
  BY EndBelow
<1>3. get_ip(d) \in
        {ip_payload(add_offset(ip_ids(decode_proto_add(d, "IP"), 12, 16), Size(d, 0)),
                    Code(d, 9), Num(d, 6) % 4096),
         ip_payload(add_offset(ip_ids(decode_proto_add(d, "IPV6"), 8, 24), 40), Code(d, 6), 0),
         d}
  BY DEF get_ip
<1> QED
  BY <1>1, <1>2, <1>3

\* What the decoders of TCP and UDP leave of a packet: names, ids and ends are set.
Transport(d) ==
  /\ d.next = "none" /\ IsDp(d) /\ PphKnown(d)
  /\ Members(d.stack) \cap {"IP", "IPV6"} # {} /\ Members(d.stack) \cap {"TCP", "UDP"} # {}
  /\ Read(d)
  /\ IF d.mode = "TCP" THEN d.src.type = "TCP" /\ d.dst.type = "TCP" ELSE HostIds(d)
  /\ d.gsrc = d.src.addr /\ d.gdst = d.dst.addr

\* What they keep; no g_assert fails.
Kept(d, dp) ==
  /\ d.pkt = dp.pkt /\ d.lkentry = dp.lkentry /\ d.mode = dp.mode
  /\ dp.ok = TRUE => d.ok = TRUE

\* Above TCP and UDP ends and names stay, and names are added.
Above(d, dp) ==
  /\ d.gsrc = dp.gsrc /\ d.gdst = dp.gdst /\ d.sport = dp.sport /\ d.dport = dp.dport
  /\ Members(dp.stack) \subseteq Members(d.stack)

\* One more name, or a move of the cursor, changes nothing of this.
LEMMA TransportAdd ==
  ASSUME NEW d, Transport(d), NEW name
  PROVE  LET e == decode_proto_add(d, name)
         IN  /\ Transport(e) /\ Untouched(e, d) /\ Above(e, d)
             /\ e.gsrc = d.gsrc /\ e.gdst = d.gdst
<1> DEFINE e == decode_proto_add(d, name)
<1>1. /\ IsDp(e) /\ Untouched(e, d) /\ e.pph = d.pph /\ e.next = d.next
      /\ e.src = d.src /\ e.dst = d.dst /\ e.gsrc = d.gsrc /\ e.gdst = d.gdst
      /\ Members(d.stack) \subseteq Members(e.stack)
  <2>1. IsDp(d)
    BY DEF Transport
  <2> QED
    BY <2>1, AddName
<1> HIDE DEF e
<1>2. Members(e.stack) \cap {"IP", "IPV6"} # {} /\ Members(e.stack) \cap {"TCP", "UDP"} # {}
  BY <1>1 DEF Transport
<1>3. Transport(e)
  BY <1>1, <1>2 DEF Transport, Untouched, PphKnown, Read, HostIds, LinkLevel
<1> QED
  BY <1>1, <1>3 DEF e, Above, Untouched

\* add_offset leaves a record above TCP or UDP as it is but for the cursor.
LEMMA TransportMove ==
  ASSUME NEW d, Transport(d), NEW o
  PROVE  LET e == add_offset(d, o)
         IN  /\ Transport(e) /\ Untouched(e, d)
             /\ e.gsrc = d.gsrc /\ e.gdst = d.gdst
<1> DEFINE e == add_offset(d, o)
<1>1. /\ IsDp(e) /\ Untouched(e, d) /\ e.pph = d.pph /\ e.next = d.next
      /\ e.src = d.src /\ e.dst = d.dst /\ e.gsrc = d.gsrc /\ e.gdst = d.gdst
      /\ e.stack = d.stack
  <2>1. IsDp(d)
    BY DEF Transport
  <2> QED
    BY <2>1, MoveCursor
<1> HIDE DEF e
<1>2. Transport(e)
  BY <1>1 DEF Transport, Untouched, PphKnown, Read, HostIds, LinkLevel
<1> QED
  BY <1>1, <1>2 DEF e

\* transport_ids: there is room for the name, and the ids of TCP mode have IP addresses.
LEMMA TransportIds ==
  ASSUME NEW d, PastIp(d, d), Len(d.stack) < STACK_SIZE, d.next = "none",
         NEW prot \in {"TCP", "UDP"}
  PROVE  LET e == transport_ids(d, prot)
         IN  /\ Transport(e) /\ Kept(e, d) /\ e.conv = d.conv
             /\ e.sport = Num(d, 0) /\ prot \in Members(e.stack)
<1> DEFINE n == decode_proto_add(d, prot)
           p == [n EXCEPT !.sport = Num(d, 0), !.dport = Num(d, 2)]
           t == [p EXCEPT !.ok = @ /\ p.src.type = "IP" /\ p.dst.type = "IP",
                          !.src = [type |-> "TCP", addr |-> p.gsrc, port |-> p.sport],
                          !.dst = [type |-> "TCP", addr |-> p.gdst, port |-> p.dport]]
<1>1. transport_ids(d, prot) = IF p.mode # "TCP" THEN p ELSE t
  BY DEF transport_ids
<1>2. /\ IsDp(n) /\ Untouched(n, d) /\ n.pph = d.pph /\ n.next = "none"
      /\ n.src = d.src /\ n.dst = d.dst /\ n.gsrc = d.gsrc /\ n.gdst = d.gdst
      /\ Members(n.stack) = Members(d.stack) \cup {prot}
  <2>1. IsDp(d)
    BY DEF PastIp
  <2> QED
    BY <2>1, AddName
<1> HIDE DEF n
<1>3. /\ DOMAIN p = Fields /\ p.stack = n.stack /\ p.pph = d.pph /\ p.next = "none"
      /\ p.src = d.src /\ p.dst = d.dst /\ p.gsrc = d.gsrc /\ p.gdst = d.gdst
      /\ p.pkt = d.pkt /\ p.lkentry = d.lkentry /\ p.mode = d.mode /\ p.ok = d.ok
      /\ p.conv = d.conv /\ p.sport = Num(d, 0)
  BY <1>2 DEF IsDp, Fields, Untouched
<1> HIDE DEF p
<1>4. Members(p.stack) \cap {"IP", "IPV6"} # {} /\ Members(p.stack) \cap {"TCP", "UDP"} # {}
  BY <1>2, <1>3 DEF PastIp
<1>5. IsDp(p) /\ PphKnown(p) /\ HostIds(p) /\ p.gsrc = p.src.addr /\ p.gdst = p.dst.addr
  BY <1>2, <1>3 DEF PastIp, IsDp, PphKnown, HostIds, LinkLevel, Read
<1>6. CASE p.mode # "TCP"
  <2>1. Transport(p)
    BY <1>3, <1>4, <1>5, <1>6 DEF Transport, HostIds
  <2> QED
    BY <1>1, <1>2, <1>3, <1>6, <2>1 DEF Kept
<1>7. CASE p.mode = "TCP"
  <2>1. p.src.type = "IP" /\ p.dst.type = "IP" /\ Read(p)
    BY <1>5, <1>7 DEF HostIds
  <2>2. /\ DOMAIN t = Fields /\ t.stack = p.stack /\ t.pph = p.pph /\ t.next = p.next
        /\ t.gsrc = p.gsrc /\ t.gdst = p.gdst /\ t.pkt = p.pkt /\ t.lkentry = p.lkentry
        /\ t.mode = p.mode /\ t.conv = p.conv /\ t.sport = p.sport
        /\ t.src.type = "TCP" /\ t.src.addr = p.gsrc
        /\ t.dst.type = "TCP" /\ t.dst.addr = p.gdst
    BY <1>3 DEF Fields
  <2>3. p.ok = TRUE => t.ok = TRUE
    <3>1. t.ok = (p.ok /\ p.src.type = "IP" /\ p.dst.type = "IP")
      BY <1>3 DEF Fields
    <3> QED
      BY <2>1, <3>1
  <2> HIDE DEF t
  <2>4. Transport(t)
    BY <1>3, <1>4, <1>5, <1>7, <2>1, <2>2 DEF Transport, IsDp, PphKnown, Read
  <2> QED
    BY <1>1, <1>2, <1>3, <1>7, <2>2, <2>3, <2>4 DEF Kept
<1> QED
  BY <1>6, <1>7

-----------------------------------------------------------------------------
(* Above TCP and UDP.                                                      *)

\* What a field of the packet can read as a number.
NumbersIn(pkt) == {OtherNum} \cup {pkt.num[o] : o \in DOMAIN pkt.num}

\* A number a decoder reads is of the packet, or what lies past its end.
LEMMA NumRead ==
  ASSUME NEW dp, NEW k
  PROVE  Num(dp, k) \in NumbersIn(dp.pkt)
BY DEF Num, At, NumbersIn

\* The conversations a packet may open between its ends.
FtpOpened(d, dp) ==
  \E x, y \in NumbersIn(d.pkt) :
    d.conv = add_conversation(dp.conv, d.gsrc, d.gdst, (x * 256 + y) % 65536, 0, "FTP-PASSIVE")

RpcOpened(d, dp) ==
  \E port \in NumbersIn(d.pkt), prot \in RpcPrograms :
    d.conv = add_conversation(dp.conv, d.gsrc, d.gsrc, port, 0, prot)

Opened(d, dp) == d.conv = dp.conv \/ FtpOpened(d, dp) \/ RpcOpened(d, dp)

\* The packet's decoding comes from dp to its end d.
Ended(d, dp) == Transport(d) /\ Kept(d, dp) /\ Opened(d, dp)

\* From a transport header on: the ports stay, too.
Payload(d, dp) == Ended(d, dp) /\ Above(d, dp)

\* Names may be added.
LEMMA PayloadAdd ==
  ASSUME NEW d, NEW dp, Payload(d, dp), NEW name
  PROVE  Payload(decode_proto_add(d, name), dp)
<1> DEFINE e == decode_proto_add(d, name)
<1>1. Transport(e) /\ Untouched(e, d) /\ Above(e, d)
  <2>1. Transport(d)
    BY DEF Payload, Ended
  <2> QED
    BY <2>1, TransportAdd
<1> HIDE DEF e
<1>2. Kept(e, dp)
  BY <1>1 DEF Payload, Ended, Kept, Untouched
<1>3. Opened(e, dp)
  BY <1>1 DEF Payload, Ended, Opened, FtpOpened, RpcOpened, Untouched, Above
<1>4. Above(e, dp)
  BY <1>1 DEF Payload, Above
<1> QED
  BY <1>1, <1>2, <1>3, <1>4 DEF Payload, Ended, e

\* A conversation may be entered into the list.
LEMMA ConvEntered ==
  ASSUME NEW d, Transport(d), NEW conv
  PROVE  LET e == [d EXCEPT !.conv = conv]
         IN  /\ Transport(e) /\ e.conv = conv /\ Kept(e, d) /\ Above(e, d)
             /\ e.gsrc = d.gsrc /\ e.gdst = d.gdst /\ e.pkt = d.pkt
<1> DEFINE e == [d EXCEPT !.conv = conv]
<1>1. /\ DOMAIN e = Fields /\ e.conv = conv
      /\ e.pkt = d.pkt /\ e.lkentry = d.lkentry /\ e.mode = d.mode /\ e.ok = d.ok
      /\ e.stack = d.stack /\ e.src = d.src /\ e.dst = d.dst /\ e.pph = d.pph
      /\ e.gsrc = d.gsrc /\ e.gdst = d.gdst /\ e.next = d.next
      /\ e.sport = d.sport /\ e.dport = d.dport
  BY DEF Transport, IsDp, Fields
<1> HIDE DEF e
<1>2. Transport(e)
  BY <1>1 DEF Transport, IsDp, PphKnown, Read, HostIds, LinkLevel
<1>3. Kept(e, d) /\ Above(e, d)
  BY <1>1 DEF Kept, Above
<1> QED
  BY <1>1, <1>2, <1>3 DEF e

\* get_ftp
LEMMA FtpPayload ==
  ASSUME NEW d, Transport(d), Payload(d, d)
  PROVE  Payload(get_ftp(d), d)
<1> DEFINE f == decode_proto_add(d, "FTP")
           port == (Num(f, 3) * 256 + Num(f, 4)) % 65536
           conv == add_conversation(f.conv, f.gsrc, f.gdst, port, 0, "FTP-PASSIVE")
           e == [f EXCEPT !.conv = conv]
<1>1. Payload(f, d)
  BY PayloadAdd
<1>2. Transport(f) /\ Untouched(f, d)
  BY TransportAdd
<1>3. f.conv = d.conv
  BY <1>2 DEF Untouched
<1>4. Num(f, 3) \in NumbersIn(f.pkt) /\ Num(f, 4) \in NumbersIn(f.pkt)
  BY NumRead
<1>5. get_ftp(d) \in {f, e}
  BY DEF get_ftp
<1> HIDE DEF f, conv
<1>6. /\ Transport(e) /\ e.conv = conv /\ Kept(e, f) /\ Above(e, f)
      /\ e.gsrc = f.gsrc /\ e.gdst = f.gdst /\ e.pkt = f.pkt
  BY <1>2, ConvEntered
<1> HIDE DEF e
<1>7. FtpOpened(e, d)
  BY <1>3, <1>4, <1>6 DEF FtpOpened, conv
<1>8. Kept(e, d) /\ Above(e, d)
  BY <1>1, <1>6 DEF Payload, Ended, Kept, Above
<1> QED
  BY <1>1, <1>5, <1>6, <1>7, <1>8 DEF Payload, Ended, Opened

\* A call that get_rpc takes names its program.
LEMMA CalledProgram ==
  ASSUME NEW d, NEW start, rpc_prot(d, start) # NoData, Code(d, start + 4) = "CALL"
  PROVE  rpc_prot(d, start) \in RpcPrograms
BY DEF rpc_prot

\* get_rpc
LEMMA RpcPayload ==
  ASSUME NEW d, Transport(d), Payload(d, d), d.sport \in NumbersIn(d.pkt), NEW start,
         rpc_prot(d, start) # NoData
  PROVE  Payload(get_rpc(d, start), d)
<1> DEFINE prot == rpc_prot(d, start)
           conv == add_conversation(d.conv, d.gsrc, d.gsrc, d.sport, 0, prot)
           e == [d EXCEPT !.conv = conv]
           same == [d EXCEPT !.conv = d.conv]
<1>1. get_rpc(d, start) \in
        {decode_proto_add(decode_proto_add(d, "ONC-RPC"), prot)}
          \cup (IF Code(d, start + 4) = "CALL"
                THEN {decode_proto_add(decode_proto_add(e, "ONC-RPC"), prot),
                      decode_proto_add(decode_proto_add(same, "ONC-RPC"), prot)}
                ELSE {})
  BY DEF get_rpc
<1>2. Code(d, start + 4) = "CALL" => prot \in RpcPrograms
  BY CalledProgram
<1> HIDE DEF prot
<1>3. Code(d, start + 4) = "CALL" => Payload(e, d)
  <2> SUFFICES ASSUME Code(d, start + 4) = "CALL"
               PROVE  Payload(e, d)
    OBVIOUS
  <2> HIDE DEF conv
  <2>1. /\ Transport(e) /\ e.conv = conv /\ Kept(e, d) /\ Above(e, d)
        /\ e.gsrc = d.gsrc /\ e.gdst = d.gdst /\ e.pkt = d.pkt
    BY ConvEntered
  <2> HIDE DEF e
  <2>2. RpcOpened(e, d)
    BY <1>2, <2>1 DEF RpcOpened, conv
  <2> QED
    BY <2>1, <2>2 DEF Payload, Ended, Opened
<1>4. Payload(same, d)
  <2>1. Transport(same) /\ same.conv = d.conv /\ Kept(same, d) /\ Above(same, d)
    BY ConvEntered
  <2> HIDE DEF same
  <2> QED
    BY <2>1 DEF Payload, Ended, Opened
<1> HIDE DEF e, same
<1>5. \A x : Payload(x, d) => Payload(decode_proto_add(decode_proto_add(x, "ONC-RPC"), prot), d)
  BY PayloadAdd
<1> QED
  BY <1>1, <1>3, <1>4, <1>5

\* The decoders above TCP and UDP add names, and FTP and RPC a conversation.
LEMMA TcpPayload ==
  ASSUME NEW d, Transport(d), d.sport \in NumbersIn(d.pkt), NEW conv
  PROVE  Payload(tcp_payload(d, conv), d)
<1>1. Payload(d, d)
  BY DEF Payload, Ended, Kept, Opened, Above
<1>2. ASSUME NEW name
      PROVE  Payload(decode_proto_add(d, name), d)
  BY <1>1, PayloadAdd
<1>3. Payload(get_netbios_ssn(d), d)
  <2>1. Payload(decode_proto_add(decode_proto_add(d, "NETBIOS-SSN"), "SMB"), d)
    BY <1>2, PayloadAdd
  <2> QED
    BY <1>2, <2>1 DEF get_netbios_ssn
<1>4. Payload(add_service(d, "TCP", TcpServices, "TCP-UNKNOwN"), d)
  BY <1>2 DEF add_service
<1>5. Payload(get_ftp(d), d)
  BY <1>1, FtpPayload
<1>6. rpc_prot(d, 4) # NoData => Payload(get_rpc(d, 4), d)
  BY <1>1, RpcPayload
<1>7. CASE conv # NoData
  BY <1>2, <1>7 DEF tcp_payload
<1>8. CASE conv = NoData /\ rpc_prot(d, 4) # NoData
  BY <1>6, <1>8 DEF tcp_payload
<1>9. CASE conv = NoData /\ rpc_prot(d, 4) = NoData
  BY <1>3, <1>4, <1>5, <1>9 DEF tcp_payload
<1> QED
  BY <1>7, <1>8, <1>9

\* The tail of get_udp: RPC, NetBIOS datagrams or a service, and no TCP.
LEMMA UdpPayload ==
  ASSUME NEW d, Transport(d), d.sport \in NumbersIn(d.pkt)
  PROVE  Payload(udp_payload(d), d)
<1>1. Payload(d, d)
  BY DEF Payload, Ended, Kept, Opened, Above
<1>2. ASSUME NEW name
      PROVE  Payload(decode_proto_add(d, name), d)
  BY <1>1, PayloadAdd
<1>3. Payload(get_netbios_dgm(d), d)
  <2>1. Payload(decode_proto_add(decode_proto_add(d, "NETBIOS-DGM"), "SMB"), d)
    BY <1>2, PayloadAdd
  <2> QED
    BY <1>2, <2>1 DEF get_netbios_dgm
<1>4. Payload(add_service(d, "UDP", UdpServices, "UDP-UNKNOWN"), d)
  BY <1>2 DEF add_service
<1>5. rpc_prot(d, 0) # NoData => Payload(get_rpc(d, 0), d)
  BY <1>1, RpcPayload
<1> QED
  BY <1>3, <1>4, <1>5 DEF udp_payload

\* get_tcp and get_udp
LEMMA TransportStage ==
  ASSUME NEW d, PastIp(d, d), Len(d.stack) < STACK_SIZE, d.next = "none"
  PROVE  Ended(get_tcp(d), d) /\ Ended(get_udp(d), d)
<1>1. ASSUME NEW prot \in {"TCP", "UDP"}, NEW o
      PROVE  LET e == add_offset(transport_ids(d, prot), o)
             IN  /\ Transport(e) /\ Kept(e, d) /\ e.conv = d.conv
                 /\ e.sport \in NumbersIn(e.pkt)
  <2> DEFINE t == transport_ids(d, prot)
             e == add_offset(t, o)
  <2>1. Transport(t) /\ Kept(t, d) /\ t.conv = d.conv /\ t.sport = Num(d, 0)
    BY TransportIds
  <2> HIDE DEF t
  <2>2. Transport(e) /\ Untouched(e, t)
    BY <2>1, TransportMove
  <2> HIDE DEF e
  <2>3. Kept(e, d) /\ e.conv = d.conv
    BY <2>1, <2>2 DEF Kept, Untouched
  <2>4. e.sport \in NumbersIn(e.pkt)
    BY <2>1, <2>2, NumRead DEF Kept, Untouched
  <2> QED
    BY <2>2, <2>3, <2>4 DEF e, t
<1>2. ASSUME NEW e, NEW x, Kept(e, d), e.conv = d.conv, Ended(x, e)
      PROVE  Ended(x, d)
  BY <1>2 DEF Ended, Kept, Opened, FtpOpened, RpcOpened
<1>3. Ended(get_tcp(d), d)
  <2> DEFINE e == add_offset(transport_ids(d, "TCP"), 4 * Size(d, 12))
  <2>1. Transport(e) /\ Kept(e, d) /\ e.conv = d.conv /\ e.sport \in NumbersIn(e.pkt)
    BY <1>1
  <2>2. get_tcp(d) = tcp_payload(e, find_conversation(e.conv, e.gsrc, e.gdst, e.sport, e.dport))
    BY DEF get_tcp
  <2> HIDE DEF e
  <2> QED
    BY <1>2, <2>1, <2>2, TcpPayload DEF Payload
<1>4. Ended(get_udp(d), d)
  <2> DEFINE e == add_offset(transport_ids(d, "UDP"), 8)
  <2>1. Transport(e) /\ Kept(e, d) /\ e.conv = d.conv /\ e.sport \in NumbersIn(e.pkt)
    BY <1>1
  <2>2. get_udp(d) = udp_payload(e)
    BY DEF get_udp
  <2> HIDE DEF e
  <2> QED
    BY <1>2, <2>1, <2>2, UdpPayload DEF Payload
<1> QED
  BY <1>3, <1>4

-----------------------------------------------------------------------------
(* The decoding of a packet.                                               *)

\* get_tcp or get_udp was called last, with room for its name.
TransportCalled(d, dp) ==
  \E e : /\ PastIp(e, dp) /\ e.next = "none" /\ Len(e.stack) < STACK_SIZE
         /\ d \in {get_tcp(e), get_udp(e)}

\* How far the decoding that started from dp can be.
Stage(d, dp) ==
  OutOfLink(d, dp) \/ PastIp(d, dp) \/ (Ended(d, dp) /\ TransportCalled(d, dp))

\* The next decoder takes it further, or there is none.
LEMMA DecodeStep ==
  ASSUME NEW d, NEW dp, Stage(d, dp)
  PROVE  Stage(decode_step(d), dp)
<1> DEFINE e == HandTo("none", d)
<1>1. ASSUME d.next = "none"
      PROVE  decode_step(d) = d
  BY <1>1 DEF decode_step
<1>2. CASE AtLink(d, dp)
  <2>1. Below(e, dp, 0) /\ e.next = "none"
    BY <1>2, BelowHand DEF AtLink
  <2>2. e.src = NoId /\ e.dst = NoId
    BY <1>2 DEF AtLink, Below, IsDp, Fields, HandTo
  <2>3. decode_step(d) \in {get_eth_type(e), get_fddi_type(e), get_ieee802_5_type(e), get_wlan(e),
                            get_radiotap(e), get_ppi(e), get_linux_sll(e), get_loop(e)}
    BY <1>2 DEF AtLink, LinkDecoders, decode_step
  <2> HIDE DEF e
  <2> QED
    BY <2>1, <2>2, <2>3, EthernetStage, RingStage, WlanStage, WrappedStage, CookedStage DEF Stage
<1>3. CASE Below(d, dp, 2) /\ d.next = "get_llc"
  <2>1. Below(e, dp, 2) /\ e.next = "none"
    BY <1>3, BelowHand
  <2>2. decode_step(d) = get_llc(e)
    BY <1>3 DEF decode_step
  <2> HIDE DEF e
  <2> QED
    BY <2>1, <2>2, LlcStage DEF Stage
<1>4. CASE Below(d, dp, 3) /\ d.next \in {"get_ip", "get_ipx"}
  <2>1. Below(e, dp, 3) /\ e.next = "none"
    BY <1>4, BelowHand
  <2>2. decode_step(d) \in {get_ip(e), get_ipx(e)}
    BY <1>4 DEF decode_step
  <2> HIDE DEF e
  <2> QED
    BY <2>1, <2>2, IpStage, IpxStage DEF Stage
<1>5. CASE EndedBelow(d, dp)
  BY <1>1, <1>5 DEF EndedBelow, Stage, OutOfLink
<1>6. CASE PastIp(d, dp) /\ d.next = "none"
  BY <1>1, <1>6 DEF Stage
<1>7. CASE PastIp(d, dp) /\ d.next # "none"
  <2>1. /\ DOMAIN e = Fields /\ Untouched(e, d) /\ e.pph = d.pph /\ e.next = "none"
        /\ e.src = d.src /\ e.dst = d.dst /\ e.gsrc = d.gsrc /\ e.gdst = d.gdst
        /\ e.stack = d.stack
    BY <1>7 DEF PastIp, IsDp, Fields, Untouched, HandTo
  <2>2. decode_step(d) \in {get_tcp(e), get_udp(e)}
    BY <1>7 DEF PastIp, decode_step
  <2> HIDE DEF e
  <2>3. PastIp(e, e) /\ Len(e.stack) < STACK_SIZE
    BY <1>7, <2>1 DEF PastIp, IsDp, Untouched, PphKnown, HostIds, LinkLevel, Read
  <2>4. Ended(get_tcp(e), e) /\ Ended(get_udp(e), e)
    BY <2>1, <2>3, TransportStage
  <2>5. Untouched(e, dp)
    BY <1>7, <2>1 DEF PastIp, Untouched
  <2>6. \A x : Ended(x, e) => Ended(x, dp)
    BY <2>5 DEF Untouched, Ended, Kept, Opened, FtpOpened, RpcOpened
  <2>7. PastIp(e, dp)
    BY <1>7, <2>1, <2>3, <2>5 DEF PastIp
  <2>8. TransportCalled(decode_step(d), dp)
    BY <2>1, <2>2, <2>3, <2>7 DEF TransportCalled
  <2> QED
    BY <2>2, <2>4, <2>6, <2>8 DEF Stage
<1>8. CASE Ended(d, dp) /\ TransportCalled(d, dp)
  BY <1>1, <1>8 DEF Ended, Transport, Stage
<1> QED
  BY <1>2, <1>3, <1>4, <1>5, <1>6, <1>7, <1>8 DEF Stage, OutOfLink, AtNetwork

\* get_packet_prot makes at most MaxDepth calls after the first.
Call2(d) == decode_step(decode_step(d))
Call4(d) == Call2(Call2(d))
Call8(d) == Call4(Call4(d))

\* get_packet_prot is the first call and MaxDepth more.
LEMMA Unrolled ==
  ASSUME NEW pkt, NEW l, NEW m, NEW conv, NEW entry
  PROVE  get_packet_prot(pkt, l, m, conv, entry) =
           Call8(HandToLinkFun(l, decode_proto_start(pkt, l, m, conv, entry)))
<1> DEFINE start == decode_proto_start(pkt, l, m, conv, entry)
           x0 == HandToLinkFun(l, start)
           x1 == decode_step(x0)
           x2 == decode_step(x1)
           x3 == decode_step(x2)
           x4 == decode_step(x3)
           x5 == decode_step(x4)
           x6 == decode_step(x5)
           x7 == decode_step(x6)
           x8 == decode_step(x7)
           P(f) == f = [n \in 0..MaxDepth |-> IF n = 0 THEN HandToLinkFun(l, start)
                                              ELSE decode_step(f[n - 1])]
           decoded == CHOOSE f : P(f)
<1>1. get_packet_prot(pkt, l, m, conv, entry) = decoded[MaxDepth]
  BY DEF get_packet_prot
<1>2. P(decoded)
  <2> DEFINE g == [n \in 0..MaxDepth |->
                     IF n = 0 THEN x0 ELSE IF n = 1 THEN x1 ELSE IF n = 2 THEN x2
                     ELSE IF n = 3 THEN x3 ELSE IF n = 4 THEN x4 ELSE IF n = 5 THEN x5
                     ELSE IF n = 6 THEN x6 ELSE IF n = 7 THEN x7 ELSE x8]
  <2>1. P(g)
    <3> HIDE DEF x0
    <3>1. /\ g[0] = x0 /\ g[1] = x1 /\ g[2] = x2 /\ g[3] = x3 /\ g[4] = x4 /\ g[5] = x5
          /\ g[6] = x6 /\ g[7] = x7 /\ g[8] = x8
      <4> HIDE DEF x1, x2, x3, x4, x5, x6, x7, x8
      <4> QED
        BY DEF MaxDepth
    <3> HIDE DEF g
    <3>2. ASSUME NEW n \in 0..MaxDepth
          PROVE  g[n] = IF n = 0 THEN x0 ELSE decode_step(g[n - 1])
      <4>1. n \in {0, 1, 2, 3, 4, 5, 6, 7, 8}
        BY DEF MaxDepth
      <4> QED
        BY <3>1, <4>1
    <3>3. g = [n \in 0..MaxDepth |-> g[n]]
      BY DEF g
    <3> QED
      BY <3>2, <3>3 DEF x0
  <2> HIDE DEF g
  <2> QED
    BY <2>1, Zenon
<1>3. decoded[MaxDepth] = x8
  <2> HIDE DEF decoded, x0
  <2>1. ASSUME NEW n \in 0..MaxDepth
        PROVE  decoded[n] = IF n = 0 THEN x0 ELSE decode_step(decoded[n - 1])
    BY <1>2, <2>1 DEF x0
  <2>2. decoded[0] = x0
    BY <2>1 DEF MaxDepth
  <2>3. \A n \in 1..8 : decoded[n] = decode_step(decoded[n - 1])
    BY <2>1 DEF MaxDepth
  <2> QED
    BY <2>2, <2>3 DEF MaxDepth
<1> QED
  BY <1>1, <1>3 DEF Call2, Call4, Call8

\* The record of a packet when get_packet_prot returns.
LEMMA Decoded ==
  ASSUME NEW pkt, NEW l, NEW m, NEW conv, NEW entry \in DOMAIN linktypes \cup {"none"}
  PROVE  Stage(get_packet_prot(pkt, l, m, conv, entry), decode_proto_start(pkt, l, m, conv, entry))
<1> DEFINE start == decode_proto_start(pkt, l, m, conv, entry)
<1>1. Stage(HandToLinkFun(l, start), start)
  BY FirstStage DEF Stage
<1> HIDE DEF start
<1>2. \A d : Stage(d, start) => Stage(decode_step(d), start)
  BY DecodeStep
<1>3. Stage(Call8(HandToLinkFun(l, start)), start)
  BY <1>1, <1>2 DEF Call2, Call4, Call8
<1> QED
  BY <1>3, Unrolled DEF start

-----------------------------------------------------------------------------
(* What Packets makes of it.                                               *)

\* The record of a decoded packet, whatever came before it.
LEMMA DecodedStage ==
  ASSUME NEW pkt, pph \in DOMAIN linktypes \cup {"none"}
  PROVE  LET dp == Decode(pkt, mode)
         IN  /\ \E start : /\ Stage(dp, start)
                           /\ start.mode = mode /\ start.ok = TRUE /\ start.pkt = pkt
                           /\ start.conv = conversations
             /\ PphKnown(dp) /\ dp.mode = mode
<1> DEFINE dp == Decode(pkt, mode)
           start == decode_proto_start(pkt, lt, mode, conversations, pph)
<1>1. Stage(dp, start)
  BY Decoded DEF Decode
<1>2. start.mode = mode /\ start.ok = TRUE /\ start.pkt = pkt /\ start.conv = conversations
  BY DEF decode_proto_start
<1> HIDE DEF dp, start
<1>3. PphKnown(dp) /\ dp.mode = mode
  BY <1>1, <1>2 DEF Stage, OutOfLink, AtLink, AtNetwork, Below, EndedBelow, PastIp, Ended,
                    Transport, Kept, Untouched
<1> QED
  BY <1>1, <1>2, <1>3 DEF dp

\* The mode was asked for, and get_ppi keeps an entry of the table or none.
ModeAndEntry == mode \in Modes /\ pph \in DOMAIN linktypes \cup {"none"}

\* restart sets the mode to one asked for, get_ppi the entry to one of the table.
LEMMA ModeAndEntryKept == Spec => []ModeAndEntry
<1>1. Init => ModeAndEntry
  BY DEF Init, ModeAndEntry
<1>2. ModeAndEntry /\ [Next]_vars => ModeAndEntry'
  <2> SUFFICES ASSUME ModeAndEntry, [Next]_vars
               PROVE  ModeAndEntry'
    OBVIOUS
  <2>1. CASE packet_acquired
    <3>1. PICK pkt \in Frames[lt] : pph' = Decode(pkt, mode).pph /\ mode' = mode
      BY <2>1 DEF packet_acquired
    <3>2. PphKnown(Decode(pkt, mode))
      BY DecodedStage DEF ModeAndEntry
    <3> QED
      BY <3>1, <3>2 DEF PphKnown, ModeAndEntry
  <2>2. CASE restart
    BY <2>2 DEF restart, ModeAndEntry
  <2>3. CASE \/ \E id \in DOMAIN nodes : node_update(id) \/ node_expired(id)
             \/ \E l \in links : link_delete(l)
             \/ name_resolved \/ toggle_name_res \/ UNCHANGED vars
    BY <2>3 DEF node_update, node_expired, link_delete, name_resolved, toggle_name_res, vars,
                ModeAndEntry
  <2> QED
    BY <2>1, <2>2, <2>3 DEF Next
<1> QED
  BY <1>1, <1>2, PTL DEF Spec

(* decode_proto.c, for any packet: the ids get_ip, get_tcp, get_udp and the
   decoders of link headers leave are of the layer they were read from, at both
   ends alike unless a WLAN frame has one address only, and no g_assert of
   get_tcp and get_udp can fail. *)
THEOREM IdsFitTheMode == Spec => []IdsFitMode
<1>1. ModeAndEntry => IdsFitMode
  <2> SUFFICES ASSUME ModeAndEntry, NEW pkt \in Frames[lt]
               PROVE  LET dp == Decode(pkt, mode)
                          Has(prots) == \E i \in DOMAIN dp.stack : dp.stack[i] \in prots
                          type == CASE mode = "TCP" /\ Has({"TCP", "UDP"}) -> "TCP"
                                    [] /\ mode # "LINK6" /\ Has({"IP", "IPV6"})
                                       /\ ~ (mode = "TCP" /\ Has({"TCP", "UDP"})) -> "IP"
                                    [] OTHER -> "LINK6"
                      IN  /\ dp.ok
                          /\ dp.dst.type = type \/ dp.dst = NoId
                          /\ dp.src.type = dp.dst.type \/ (dp.src = NoId /\ Has({"IEE802.11"}))
    BY DEF IdsFitMode
  <2> DEFINE dp == Decode(pkt, mode)
             Has(prots) == \E i \in DOMAIN dp.stack : dp.stack[i] \in prots
             type == CASE mode = "TCP" /\ Has({"TCP", "UDP"}) -> "TCP"
                       [] /\ mode # "LINK6" /\ Has({"IP", "IPV6"})
                          /\ ~ (mode = "TCP" /\ Has({"TCP", "UDP"})) -> "IP"
                       [] OTHER -> "LINK6"
  <2>1. PICK start : /\ Stage(dp, start)
                     /\ start.mode = mode /\ start.ok = TRUE
    BY DecodedStage DEF ModeAndEntry
  <2>2. dp.mode = mode /\ mode \in {"LINK6", "IP", "TCP"}
    BY DecodedStage, PacketsAssumption DEF ModeAndEntry
  <2> HIDE DEF dp
  <2>3. \A prots : Has(prots) <=> Members(dp.stack) \cap prots # {}
    BY DEF Members
  <2> HIDE DEF Has
  <2>4. CASE OutOfLink(dp, start)
    <3>1. dp.ok = TRUE
      BY <2>1, <2>4 DEF OutOfLink, AtLink, AtNetwork, Below, EndedBelow, Untouched
    <3>2. ~ Has({"IP", "IPV6"}) /\ ~ Has({"TCP", "UDP"})
      BY <2>3, <2>4 DEF OutOfLink, AtLink, AtNetwork, Below, EndedBelow, Low, HostNames
    <3>3. \/ dp.src = NoId /\ dp.dst = NoId
          \/ dp.src.type = "LINK6" /\ dp.dst.type = "LINK6"
          \/ dp.src = NoId /\ dp.dst.type = "LINK6" /\ Has({"IEE802.11"})
      BY <2>3, <2>4 DEF OutOfLink, AtLink, AtNetwork, Below, EndedBelow, LinkLevel
    <3> QED
      BY <3>1, <3>2, <3>3 DEF dp, Has
  <2>5. CASE PastIp(dp, start)
    <3>1. dp.ok = TRUE /\ Has({"IP", "IPV6"}) /\ ~ Has({"TCP", "UDP"})
      BY <2>1, <2>3, <2>5 DEF PastIp, Untouched
    <3>2. IF mode = "LINK6"
          THEN \/ dp.src = NoId /\ dp.dst = NoId
               \/ dp.src.type = "LINK6" /\ dp.dst.type = "LINK6"
          ELSE dp.src.type = "IP" /\ dp.dst.type = "IP"
      BY <2>2, <2>5 DEF PastIp, HostIds, LinkLevel
    <3>3. type = IF mode = "LINK6" THEN "LINK6" ELSE "IP"
      BY <3>1
    <3> HIDE DEF type
    <3>4. /\ dp.ok
          /\ dp.dst.type = type \/ dp.dst = NoId
          /\ dp.src.type = dp.dst.type \/ (dp.src = NoId /\ Has({"IEE802.11"}))
      BY <3>1, <3>2, <3>3
    <3> QED
      BY <3>4 DEF dp, Has, type
  <2>6. CASE Ended(dp, start)
    <3>1. dp.ok = TRUE /\ Has({"IP", "IPV6"}) /\ Has({"TCP", "UDP"})
      BY <2>1, <2>3, <2>6 DEF Ended, Transport, Kept
    <3>2. CASE mode = "TCP"
      <4>1. dp.src.type = "TCP" /\ dp.dst.type = "TCP"
        BY <2>2, <2>6, <3>2 DEF Ended, Transport
      <4>2. type = "TCP"
        BY <3>1, <3>2
      <4> HIDE DEF type
      <4>3. /\ dp.ok
            /\ dp.dst.type = type \/ dp.dst = NoId
            /\ dp.src.type = dp.dst.type \/ (dp.src = NoId /\ Has({"IEE802.11"}))
        BY <3>1, <4>1, <4>2
      <4> QED
        BY <4>3 DEF dp, Has, type
    <3>3. CASE mode # "TCP"
      <4>1. IF mode = "LINK6"
            THEN \/ dp.src = NoId /\ dp.dst = NoId
                 \/ dp.src.type = "LINK6" /\ dp.dst.type = "LINK6"
            ELSE dp.src.type = "IP" /\ dp.dst.type = "IP"
        BY <2>2, <2>6, <3>3 DEF Ended, Transport, HostIds, LinkLevel
      <4>2. type = IF mode = "LINK6" THEN "LINK6" ELSE "IP"
        BY <3>1, <3>3
      <4> HIDE DEF type
      <4>3. /\ dp.ok
            /\ dp.dst.type = type \/ dp.dst = NoId
            /\ dp.src.type = dp.dst.type \/ (dp.src = NoId /\ Has({"IEE802.11"}))
        BY <3>1, <4>1, <4>2
      <4> QED
        BY <4>3 DEF dp, Has, type
    <3> QED
      BY <3>2, <3>3
  <2> QED
    BY <2>1, <2>4, <2>5, <2>6 DEF Stage
<1> QED
  BY <1>1, ModeAndEntryKept, PTL

-----------------------------------------------------------------------------
(* The list of conversations.                                              *)

Distinct(s) == \A i, j \in DOMAIN s : s[i] = s[j] => i = j

\* The walk of delete_conversation_link over the first m entries of a list.
IsWalk(f, list, a, b, m) ==
  f = [n \in 0..m |-> IF n = 0 THEN <<>>
                      ELSE IF Fits(a, b, 0, 0, list[n]) THEN f[n - 1]
                      ELSE Append(f[n - 1], list[n])]

\* It exists, each entry in turn.
LEMMA WalkExists ==
  ASSUME NEW list, IsSeq(list), NEW a, NEW b
  PROVE  \E f : IsWalk(f, list, a, b, Len(list))
<1> DEFINE N == Len(list)
           Next1(n, r) == IF Fits(a, b, 0, 0, list[n]) THEN r ELSE Append(r, list[n])
           Walk(f, m) == IsWalk(f, list, a, b, m)
           Bad == {m \in 0..N : ~ \E f : Walk(f, m)}
<1>0. \A f, m : Walk(f, m) <=> f = [n \in 0..m |-> IF n = 0 THEN <<>> ELSE Next1(n, f[n - 1])]
  BY DEF IsWalk
<1>1. N \in Nat
  BY AppendMember
<1> HIDE DEF N, Next1, Walk
<1>2. Bad = {}
  <2> SUFFICES ASSUME Bad # {}
               PROVE  FALSE
    OBVIOUS
  <2>1. Bad \subseteq Nat
    BY <1>1
  <2> HIDE DEF Bad
  <2>2. PICK m \in Bad : \A j \in Bad : ~ (<<j, m>> \in OpToRel(<, Nat))
    BY ONLY <2>1, Bad # {}, NatLessThanWellFounded, WFMin
  <2>20. \A j \in Bad : ~ (j < m)
    BY <2>1, <2>2 DEF OpToRel
  <2>3. m \in 0..N /\ ~ \E f : Walk(f, m)
    BY <2>2 DEF Bad
  <2>4. CASE m = 0
    <3> DEFINE f == [n \in 0..0 |-> <<>>]
    <3>1. f = [n \in 0..0 |-> IF n = 0 THEN <<>> ELSE Next1(n, f[n - 1])]
      OBVIOUS
    <3> HIDE DEF f
    <3>2. Walk(f, 0)
      BY <1>0, <3>1
    <3> QED
      BY <2>3, <2>4, <3>2
  <2>5. CASE m # 0
    <3>1. m - 1 \in 0..N /\ m - 1 \in Nat /\ m \in Nat
      BY <1>1, <2>3, <2>5
    <3>2. m - 1 \notin Bad
      BY <2>20, <3>1
    <3>3. PICK f : Walk(f, m - 1)
      BY <3>1, <3>2 DEF Bad
    <3> DEFINE g == [n \in 0..m |-> IF n = m THEN Next1(m, f[m - 1]) ELSE f[n]]
    <3>4. ASSUME NEW n \in 0..m
          PROVE  g[n] = IF n = 0 THEN <<>> ELSE Next1(n, g[n - 1])
      <4>1. CASE n = m
        BY <2>5, <3>1, <4>1
      <4>2. CASE n # m
        <5>1. n \in 0..(m - 1)
          BY <3>1, <4>2
        <5>2. f[n] = IF n = 0 THEN <<>> ELSE Next1(n, f[n - 1])
          BY <1>0, <3>3, <5>1
        <5>3. g[n] = f[n]
          BY <4>2
        <5>4. n # 0 => g[n - 1] = f[n - 1]
          BY <3>1, <5>1
        <5> QED
          BY <5>2, <5>3, <5>4
      <4> QED
        BY <4>1, <4>2
    <3>5. g = [n \in 0..m |-> g[n]]
      OBVIOUS
    <3> HIDE DEF g
    <3>6. Walk(g, m)
      BY <1>0, <3>4, <3>5
    <3> QED
      BY <2>3, <3>6
  <2> QED
    BY <2>4, <2>5
<1>3. N \in 0..N
  BY <1>1
<1> QED
  BY <1>2, <1>3 DEF N, Walk

\* delete_conversation_link leaves the entries that do not fit the addresses, each once.
LEMMA Deleted ==
  ASSUME NEW list, IsSeq(list), NEW a, NEW b
  PROVE  LET left == delete_conversation_link(list, a, b)
         IN  /\ IsSeq(left)
             /\ Members(left) = {c \in Members(list) : ~ Fits(a, b, 0, 0, c)}
             /\ Distinct(list) => Distinct(left)
<1> DEFINE N == Len(list)
           P(f) == IsWalk(f, list, a, b, N)
           kept == CHOOSE f : P(f)
           left == delete_conversation_link(list, a, b)
           Good(n, r) == /\ IsSeq(r)
                         /\ Members(r) = {list[i] : i \in {j \in 1..n : ~ Fits(a, b, 0, 0, list[j])}}
                         /\ Distinct(list) => Distinct(r)
           Bad == {n \in 0..N : ~ Good(n, kept[n])}
<1>1. left = kept[N]
  BY DEF delete_conversation_link, IsWalk
<1>2. P(kept)
  <2>1. \E f : P(f)
    BY WalkExists
  <2> QED
    BY <2>1, Zenon
<1>3. N \in Nat /\ DOMAIN list = 1..N
  BY AppendMember
<1> HIDE DEF N, kept
<1>4. ASSUME NEW n \in 0..N
      PROVE  kept[n] = IF n = 0 THEN <<>>
                       ELSE IF Fits(a, b, 0, 0, list[n]) THEN kept[n - 1]
                       ELSE Append(kept[n - 1], list[n])
  BY <1>2, <1>4 DEF IsWalk
<1>5. Good(0, <<>>)
  BY DEF IsSeq, Members, Distinct
<1>6. ASSUME NEW n \in 1..N, NEW r, Good(n - 1, r)
      PROVE  Good(n, IF Fits(a, b, 0, 0, list[n]) THEN r ELSE Append(r, list[n]))
  <2>1. n \in Nat /\ \A j : j \in 1..n <=> j \in 1..(n - 1) \/ j = n
    BY <1>3
  <2>2. CASE Fits(a, b, 0, 0, list[n])
    <3>1. {j \in 1..n : ~ Fits(a, b, 0, 0, list[j])} = {j \in 1..(n - 1) : ~ Fits(a, b, 0, 0, list[j])}
      BY <2>1, <2>2
    <3> QED
      BY <1>6, <2>2, <3>1
  <2>3. CASE ~ Fits(a, b, 0, 0, list[n])
    <3> DEFINE new == Append(r, list[n])
    <3>1. /\ IsSeq(new)
          /\ Len(r) \in Nat /\ DOMAIN r = 1..Len(r)
          /\ Len(new) = Len(r) + 1 /\ DOMAIN new = 1..Len(new)
          /\ Members(new) = Members(r) \cup {list[n]}
          /\ new[Len(new)] = list[n]
          /\ \A i \in 1..Len(r) : new[i] = r[i]
      BY <1>6, AppendMember
    <3> HIDE DEF new
    <3>2. {j \in 1..n : ~ Fits(a, b, 0, 0, list[j])}
            = {j \in 1..(n - 1) : ~ Fits(a, b, 0, 0, list[j])} \cup {n}
      BY <2>1, <2>3
    <3>3. Members(new) = {list[i] : i \in {j \in 1..n : ~ Fits(a, b, 0, 0, list[j])}}
      BY <1>6, <3>1, <3>2
    <3>4. ASSUME Distinct(list)
          PROVE  Distinct(new)
      <4>1. Distinct(r)
        BY <1>6, <3>4
      <4>2. list[n] \notin Members(r)
        <5>1. ASSUME list[n] \in Members(r)
              PROVE  FALSE
          <6>1. PICK i \in 1..(n - 1) : list[n] = list[i]
            BY <1>6, <5>1
          <6>2. i \in DOMAIN list /\ n \in DOMAIN list /\ i # n
            BY <1>3, <2>1
          <6> QED
            BY <3>4, <6>1, <6>2 DEF Distinct
        <5> QED
          BY <5>1
      <4>3. \A i \in DOMAIN new : i \in 1..Len(r) \/ i = Len(new)
        BY <3>1
      <4>4. \A i \in 1..Len(r) : new[i] # new[Len(new)]
        BY <3>1, <4>2 DEF Members
      <4>5. \A i, j \in 1..Len(r) : new[i] = new[j] => i = j
        BY <3>1, <4>1 DEF Distinct
      <4> QED
        BY <4>3, <4>4, <4>5 DEF Distinct
    <3> QED
      BY <2>3, <3>1, <3>3, <3>4 DEF new
  <2> QED
    BY <2>2, <2>3
<1> HIDE DEF Good
<1>7. Bad = {}
  <2> SUFFICES ASSUME Bad # {}
               PROVE  FALSE
    OBVIOUS
  <2>1. Bad \subseteq Nat
    BY <1>3
  <2> HIDE DEF Bad
  <2>2. PICK n \in Bad : \A j \in Bad : ~ (<<j, n>> \in OpToRel(<, Nat))
    BY ONLY <2>1, Bad # {}, NatLessThanWellFounded, WFMin
  <2>20. \A j \in Bad : ~ (j < n)
    BY <2>1, <2>2 DEF OpToRel
  <2>3. n \in 0..N /\ ~ Good(n, kept[n])
    BY <2>2 DEF Bad
  <2>4. n # 0
    BY <1>4, <1>5, <2>3
  <2>5. n - 1 \in 0..N /\ n \in 1..N /\ n - 1 \in Nat
    BY <1>3, <2>3, <2>4
  <2>6. n - 1 \notin Bad
    BY <2>20, <2>5
  <2>7. Good(n - 1, kept[n - 1])
    BY <2>5, <2>6 DEF Bad
  <2> QED
    BY <1>4, <1>6, <2>3, <2>4, <2>5, <2>7
<1>8. Good(N, kept[N])
  BY <1>3, <1>7
<1>9. {list[i] : i \in {j \in 1..N : ~ Fits(a, b, 0, 0, list[j])}}
        = {c \in Members(list) : ~ Fits(a, b, 0, 0, c)}
  BY <1>3 DEF Members
<1> QED
  BY <1>1, <1>8, <1>9 DEF Good

\* A new entry comes in front.
LEMMA Prepended ==
  ASSUME NEW list, IsSeq(list), NEW c
  PROVE  LET new == <<c>> \o list
         IN  /\ IsSeq(new) /\ Members(new) = Members(list) \cup {c}
             /\ c \notin Members(list) /\ Distinct(list) => Distinct(new)
<1> DEFINE S == Members(list) \cup {c}
           new == <<c>> \o list
<1>1. list \in Seq(Members(list))
  BY DEF IsSeq
<1>2. list \in Seq(S) /\ <<c>> \in Seq(S)
  BY <1>1
<1>3. DOMAIN list = 1..Len(list) /\ Len(list) \in Nat
  BY <1>1
<1> HIDE DEF S
<1>4. new \in Seq(S)
  BY <1>2
<1>5. /\ Len(new) = Len(list) + 1 /\ DOMAIN new = 1..(Len(list) + 1)
      /\ new[1] = c /\ \A i \in 1..Len(list) : new[i + 1] = list[i]
  BY <1>2
<1> HIDE DEF new
<1>6. \A i \in DOMAIN new : i = 1 \/ (i - 1 \in 1..Len(list) /\ new[i] = list[i - 1])
  <2>1. ASSUME NEW i \in DOMAIN new, i # 1
        PROVE  i - 1 \in 1..Len(list) /\ new[i] = list[i - 1]
    <3>1. i - 1 \in 1..Len(list) /\ (i - 1) + 1 = i
      BY <1>3, <1>5, <2>1
    <3> QED
      BY <1>5, <3>1
  <2> QED
    BY <2>1
<1>7. Members(new) = Members(list) \cup {c}
  <2>1. \A x \in Members(new) : x \in Members(list) \cup {c}
    BY <1>3, <1>5, <1>6 DEF Members
  <2>2. c \in Members(new)
    BY <1>3, <1>5 DEF Members
  <2>3. \A i \in DOMAIN list : list[i] \in Members(new)
    <3>1. ASSUME NEW i \in DOMAIN list
          PROVE  list[i] \in Members(new)
      <4>1. i + 1 \in DOMAIN new /\ new[i + 1] = list[i]
        BY <1>3, <1>5
      <4> QED
        BY <4>1 DEF Members
    <3> QED
      BY <3>1
  <2> QED
    BY <2>1, <2>2, <2>3 DEF Members
<1>8. ASSUME c \notin Members(list), Distinct(list)
      PROVE  Distinct(new)
  <2> SUFFICES ASSUME NEW i \in DOMAIN new, NEW j \in DOMAIN new, new[i] = new[j]
               PROVE  i = j
    BY DEF Distinct
  <2>1. CASE i = 1 /\ j = 1
    BY <2>1
  <2>2. CASE i = 1 /\ j # 1
    BY <1>3, <1>5, <1>6, <1>8, <2>2 DEF Members
  <2>3. CASE i # 1 /\ j = 1
    BY <1>3, <1>5, <1>6, <1>8, <2>3 DEF Members
  <2>4. CASE i # 1 /\ j # 1
    <3>1. i - 1 = j - 1
      BY <1>3, <1>6, <1>8, <2>4 DEF Distinct
    <3>2. i \in Int /\ j \in Int
      BY <1>3, <1>5
    <3> QED
      BY <3>1, <3>2
  <2> QED
    BY <2>1, <2>2, <2>3, <2>4
<1> QED
  BY <1>4, <1>7, <1>8 DEF IsSeq, S, new

-----------------------------------------------------------------------------
(* Conversations and links.                                                *)

\* The ports and names a packet can give to a conversation.
PortsIn(pkt) == NumbersIn(pkt) \cup {(x * 256 + y) % 65536 : x, y \in NumbersIn(pkt)}
TalkNames == RpcPrograms \cup {"FTP-PASSIVE"}

\* The conversations between the ends of a packet, or of its sender with itself.
EntryOf(dp) ==
  [src : {dp.src.addr}, dst : {dp.src.addr, dp.dst.addr}, sport : PortsIn(dp.pkt), dport : {0},
   data : TalkNames]

\* A packet leaves the list alone or puts one entry in front that fits no other.
LEMMA DecodedConversation ==
  ASSUME ModeAndEntry, NEW pkt
  PROVE  LET dp == Decode(pkt, mode)
         IN  /\ Read(dp) /\ dp.pkt = pkt
             /\ \/ dp.conv = conversations
                \/ \E c \in EntryOf(dp) :
                     /\ dp.conv = <<c>> \o conversations
                     /\ Matching(conversations, c.src, c.dst, c.sport, c.dport) = {}
<1> DEFINE dp == Decode(pkt, mode)
<1>1. PICK start : /\ Stage(dp, start)
                   /\ start.pkt = pkt /\ start.conv = conversations
  BY DecodedStage DEF ModeAndEntry
<1> HIDE DEF dp
<1>2. Read(dp) /\ dp.pkt = pkt
  BY <1>1 DEF Stage, OutOfLink, AtLink, AtNetwork, Below, EndedBelow, PastIp, Ended,
              Transport, Kept, Untouched, HostIds, LinkLevel
<1>3. CASE OutOfLink(dp, start) \/ PastIp(dp, start)
  <2>1. dp.conv = conversations
    BY <1>1, <1>3 DEF OutOfLink, AtLink, AtNetwork, Below, EndedBelow, PastIp, Untouched
  <2> QED
    BY <1>2, <2>1 DEF dp
<1>4. CASE Ended(dp, start)
  <2>1. dp.gsrc = dp.src.addr /\ dp.gdst = dp.dst.addr
    BY <1>4 DEF Ended, Transport
  <2>2. ASSUME NEW port \in PortsIn(pkt), NEW data \in TalkNames, NEW dst \in {dp.gsrc, dp.gdst},
               dp.conv = add_conversation(conversations, dp.gsrc, dst, port, 0, data)
        PROVE  \/ dp.conv = conversations
               \/ \E c \in EntryOf(dp) :
                    /\ dp.conv = <<c>> \o conversations
                    /\ Matching(conversations, c.src, c.dst, c.sport, c.dport) = {}
    <3> DEFINE c == [src |-> dp.gsrc, dst |-> dst, sport |-> port, dport |-> 0, data |-> data]
    <3>1. c \in EntryOf(dp)
      BY <1>2, <2>1, <2>2 DEF EntryOf
    <3>2. /\ c.src = dp.gsrc /\ c.dst = dst /\ c.sport = port /\ c.dport = 0
      OBVIOUS
    <3>3. \/ dp.conv = conversations
          \/ /\ dp.conv = <<c>> \o conversations
             /\ Matching(conversations, dp.gsrc, dst, port, 0) = {}
      BY <2>2 DEF add_conversation
    <3> HIDE DEF c
    <3> QED
      BY <3>1, <3>2, <3>3
  <2>3. CASE dp.conv = start.conv
    BY <1>1, <1>2, <2>3 DEF dp
  <2>4. CASE FtpOpened(dp, start)
    <3>1. PICK x \in NumbersIn(pkt), y \in NumbersIn(pkt) :
            dp.conv = add_conversation(conversations, dp.gsrc, dp.gdst, (x * 256 + y) % 65536, 0,
                                       "FTP-PASSIVE")
      BY <1>1, <1>2, <2>4 DEF FtpOpened
    <3> DEFINE port == (x * 256 + y) % 65536
    <3>2. port \in PortsIn(pkt) /\ "FTP-PASSIVE" \in TalkNames
      BY DEF PortsIn, TalkNames
    <3>3. dp.conv = add_conversation(conversations, dp.gsrc, dp.gdst, port, 0, "FTP-PASSIVE")
      BY <3>1
    <3> HIDE DEF port
    <3> QED
      BY <1>2, <2>2, <3>2, <3>3 DEF dp
  <2>5. CASE RpcOpened(dp, start)
    <3>1. PICK port \in NumbersIn(pkt), prot \in RpcPrograms :
            dp.conv = add_conversation(conversations, dp.gsrc, dp.gsrc, port, 0, prot)
      BY <1>1, <1>2, <2>5 DEF RpcOpened
    <3>2. port \in PortsIn(pkt) /\ prot \in TalkNames
      BY DEF PortsIn, TalkNames
    <3> QED
      BY <1>2, <2>2, <3>1, <3>2 DEF dp
  <2> QED
    BY <1>4, <2>3, <2>4, <2>5 DEF Ended, Opened
<1> QED
  BY <1>1, <1>3, <1>4 DEF Stage

\* The list as find_conversation relies on it: no entry fits another, and each has a link.
Joined(c) == c.src = c.dst \/ \E l \in links : Joins(l, c)

TalkInv ==
  /\ ModeAndEntry
  /\ IsSeq(conversations) /\ Distinct(conversations)
  /\ \A c \in Members(conversations) : c.dport = 0 /\ c.data \in TalkNames /\ Joined(c)
  /\ \A c, d \in Members(conversations) : Fits(c.src, c.dst, c.sport, c.dport, d) => c = d

\* An entry of which nothing fits is put in front.
LEMMA Entered ==
  ASSUME TalkInv, NEW c, c.dport = 0,
         Matching(conversations, c.src, c.dst, c.sport, c.dport) = {}
  PROVE  LET new == <<c>> \o conversations
         IN  /\ IsSeq(new) /\ Distinct(new) /\ Members(new) = Members(conversations) \cup {c}
             /\ \A d \in Members(conversations) : ~ Fits(c.src, c.dst, c.sport, c.dport, d)
             /\ \A d, e \in Members(new) : Fits(d.src, d.dst, d.sport, d.dport, e) => d = e
<1> DEFINE new == <<c>> \o conversations
<1>1. \A d \in Members(conversations) : ~ Fits(c.src, c.dst, c.sport, c.dport, d)
  BY DEF Matching, Members
<1>2. c \notin Members(conversations)
  BY <1>1 DEF Fits, PortsFit
<1>3. IsSeq(new) /\ Distinct(new) /\ Members(new) = Members(conversations) \cup {c}
  BY <1>2, Prepended DEF TalkInv
<1> HIDE DEF new
<1>4. \A d \in Members(conversations) : ~ Fits(d.src, d.dst, d.sport, d.dport, c)
  BY <1>1 DEF Fits, PortsFit
<1>5. \A d, e \in Members(new) : Fits(d.src, d.dst, d.sport, d.dport, e) => d = e
  BY <1>1, <1>3, <1>4 DEF TalkInv
<1> QED
  BY <1>1, <1>3, <1>5 DEF new

\* Two pairs of the same elements are the same, in either order.
LEMMA PairsEqual ==
  ASSUME NEW p, NEW q, NEW x, NEW y,
         p \in {x, y}, q \in {x, y}, x \in {p, q}, y \in {p, q}
  PROVE  (p = x /\ q = y) \/ (p = y /\ q = x)
<1>1. CASE p = x
  BY <1>1
<1>2. CASE p = y
  BY <1>2
<1> QED
  BY <1>1, <1>2

\* The list of conversations keeps its shape through get_ftp, get_rpc and
\* delete_conversation_link.
LEMMA TalkInvariance == Spec => []TalkInv
<1>1. Init => TalkInv
  <2> SUFFICES ASSUME Init
               PROVE  TalkInv
    OBVIOUS
  <2>1. conversations = <<>> /\ ModeAndEntry
    BY DEF Init, ModeAndEntry
  <2>2. IsSeq(<<>>) /\ Distinct(<<>>) /\ Members(<<>>) = {}
    BY DEF IsSeq, Distinct, Members
  <2> QED
    BY <2>1, <2>2 DEF TalkInv
<1>2. TalkInv /\ ModeAndEntry' /\ [Next]_vars => TalkInv'
  <2> SUFFICES ASSUME TalkInv, ModeAndEntry', [Next]_vars
               PROVE  TalkInv'
    OBVIOUS
  <2>1. CASE packet_acquired
    <3>1. PICK pkt \in Frames[lt] :
            /\ links' = links \cup {{Decode(pkt, mode).src, Decode(pkt, mode).dst}}
            /\ conversations' = Decode(pkt, mode).conv
      BY <2>1 DEF packet_acquired
    <3> DEFINE dp == Decode(pkt, mode)
    <3>2. \A c : Joined(c) => Joined(c)'
      BY <3>1 DEF Joined, Joins
    <3>3. CASE dp.conv = conversations
      BY <3>1, <3>2, <3>3 DEF TalkInv
    <3>4. ASSUME NEW c \in EntryOf(dp),
                 dp.conv = <<c>> \o conversations,
                 Matching(conversations, c.src, c.dst, c.sport, c.dport) = {}
          PROVE  TalkInv'
      <4> HIDE DEF dp
      <4>1. /\ c.dport = 0 /\ c.src = dp.src.addr /\ c.dst \in {dp.src.addr, dp.dst.addr}
            /\ c.data \in TalkNames
        BY <3>4 DEF EntryOf
      <4>2. Joined(c)'
        <5>1. CASE c.dst = dp.dst.addr
          <6>1. {dp.src, dp.dst} \in links'
            BY <3>1 DEF dp
          <6>2. Joins({dp.src, dp.dst}, c)
            BY <4>1, <5>1 DEF Joins
          <6> QED
            BY <6>1, <6>2 DEF Joined, Joins
        <5> QED
          BY <4>1, <5>1 DEF Joined
      <4> DEFINE new == <<c>> \o conversations
      <4>3. /\ IsSeq(new) /\ Distinct(new) /\ Members(new) = Members(conversations) \cup {c}
            /\ \A d, e \in Members(new) : Fits(d.src, d.dst, d.sport, d.dport, e) => d = e
        BY <3>4, <4>1, Entered
      <4>4. conversations' = new
        BY <3>1, <3>4 DEF dp
      <4> HIDE DEF new
      <4>5. \A d \in Members(new) : d.dport = 0 /\ d.data \in TalkNames /\ Joined(d)'
        BY <3>2, <4>1, <4>2, <4>3 DEF TalkInv
      <4> QED
        BY <4>3, <4>4, <4>5 DEF TalkInv
    <3> QED
      BY <3>3, <3>4, DecodedConversation DEF TalkInv
  <2>2. ASSUME NEW l \in links, link_delete(l)
        PROVE  TalkInv'
    <3>1. PICK a \in l, b \in l :
            /\ l = {a, b} /\ links' = links \ {l}
            /\ conversations' = delete_conversation_link(conversations, a.addr, b.addr)
      BY <2>2 DEF link_delete
    <3>2. /\ IsSeq(conversations') /\ Distinct(conversations')
          /\ Members(conversations') = {c \in Members(conversations) : ~ Fits(a.addr, b.addr, 0, 0, c)}
      BY <3>1, Deleted DEF TalkInv
    <3>3. ASSUME NEW c \in Members(conversations')
          PROVE  Joined(c)'
      <4>1. c \in Members(conversations) /\ Joined(c) /\ ~ Fits(a.addr, b.addr, 0, 0, c)
        BY <3>2 DEF TalkInv
      <4>2. ASSUME NEW m \in links, Joins(m, c)
            PROVE  m \in links'
        <5>1. m # l
          <6>1. ASSUME m = l
                PROVE  FALSE
            <7>1. {a.addr, b.addr} = {c.src, c.dst}
              BY <3>1, <4>2, <6>1 DEF Joins
            <7>2. /\ a.addr \in {c.src, c.dst} /\ b.addr \in {c.src, c.dst}
                  /\ c.src \in {a.addr, b.addr} /\ c.dst \in {a.addr, b.addr}
              BY <7>1
            <7>3. (a.addr = c.src /\ b.addr = c.dst) \/ (a.addr = c.dst /\ b.addr = c.src)
              BY <7>2, PairsEqual
            <7> QED
              BY <4>1, <7>3 DEF Fits, PortsFit
          <6> QED
            BY <6>1
        <5> QED
          BY <3>1, <5>1
      <4> QED
        BY <4>1, <4>2 DEF Joined, Joins
    <3> QED
      BY <3>2, <3>3 DEF TalkInv
  <2>3. CASE restart
    <3>1. conversations' = <<>>
      BY <2>3 DEF restart
    <3>2. IsSeq(<<>>) /\ Distinct(<<>>) /\ Members(<<>>) = {}
      BY DEF IsSeq, Distinct, Members
    <3> QED
      BY <3>1, <3>2 DEF TalkInv
  <2>4. CASE \/ \E id \in DOMAIN nodes : node_update(id) \/ node_expired(id)
             \/ name_resolved \/ toggle_name_res \/ UNCHANGED vars
    <3>1. UNCHANGED <<conversations, links>>
      BY <2>4 DEF node_update, node_expired, name_resolved, toggle_name_res, vars
    <3> QED
      BY <3>1 DEF TalkInv, Joined
  <2> QED
    BY <2>1, <2>2, <2>3, <2>4 DEF Next
<1> QED
  BY <1>1, <1>2, ModeAndEntryKept, PTL DEF Spec

(* get_ftp, get_rpc, link_delete and the end of a capture: a conversation
   between two hosts has a link between them, and of a host with itself there is
   one at most, so the list is bounded by the hosts and links there are. *)
THEOREM ListBoundedByLinks == Spec => []ConversationsHaveLinks
<1>1. TalkInv => ConversationsHaveLinks
  <2> SUFFICES ASSUME TalkInv
               PROVE  ConversationsHaveLinks
    OBVIOUS
  <2>1. \A i \in DOMAIN conversations : conversations[i] \in Members(conversations)
    BY DEF Members
  <2>2. ASSUME NEW i \in DOMAIN conversations
        PROVE  LET c == conversations[i] IN c.src = c.dst \/ \E l \in links : Joins(l, c)
    BY <2>1 DEF TalkInv, Joined
  <2>3. ASSUME NEW i \in DOMAIN conversations, NEW j \in DOMAIN conversations,
               conversations[i].src = conversations[i].dst,
               conversations[j].src = conversations[i].src,
               conversations[j].dst = conversations[i].dst
        PROVE  i = j
    <3> DEFINE c == conversations[i]
               d == conversations[j]
    <3>1. c.dport = 0 /\ d.dport = 0
      BY <2>1 DEF TalkInv
    <3>2. Fits(c.src, c.dst, c.sport, c.dport, d)
      BY <2>3, <3>1 DEF Fits, PortsFit
    <3>3. c = d
      BY <2>1, <3>2 DEF TalkInv
    <3> QED
      BY <3>3 DEF TalkInv, Distinct
  <2> QED
    BY <2>2, <2>3 DEF ConversationsHaveLinks
<1> QED
  BY <1>1, TalkInvariance, PTL

-----------------------------------------------------------------------------
(* The list keeps the promises of Conversations.                           *)

\* Ports have sixteen bits, and so does what get_ftp makes of the two numbers of a reply.
PortNumbers == {n \in Nat : n < 65536}

\* The port of a passive transfer that get_ftp makes is a port.
LEMMA SixteenBits ==
  ASSUME NEW x \in PortNumbers, NEW y \in PortNumbers
  PROVE  (x * 256 + y) % 65536 \in PortNumbers
<1>1. x \in Nat /\ y \in Nat
  BY DEF PortNumbers
<1>2. x * 256 + y \in Nat
  BY <1>1
<1>3. ASSUME NEW z \in Nat
      PROVE  z % 65536 \in Nat /\ z % 65536 < 65536
  OBVIOUS
<1> QED
  BY <1>2, <1>3 DEF PortNumbers

\* The constants of Conversations cover what the packets hold.
EveryPacketFits ==
  /\ \A l \in DOMAIN Frames : \A pkt \in Frames[l] :
       AddressesIn(pkt) \subseteq Addresses /\ NumbersIn(pkt) \subseteq PortNumbers
  /\ PortNumbers \subseteq Ports
  /\ TalkNames \subseteq Labels

\* The ids of a link were read from packets.
LinksRead ==
  /\ lt \in DOMAIN Frames
  /\ \A l \in links : \A id \in l : id.addr \in Addresses

\* The addresses of the links come from packets of the device.
LEMMA LinksReadKept ==
  ASSUME EveryPacketFits
  PROVE  Spec => []LinksRead
<1>1. Init => LinksRead
  BY DEF Init, LinksRead
<1>2. TalkInv /\ LinksRead /\ [Next]_vars => LinksRead'
  <2> SUFFICES ASSUME TalkInv, LinksRead, [Next]_vars
               PROVE  LinksRead'
    OBVIOUS
  <2>1. CASE packet_acquired
    <3>1. PICK pkt \in Frames[lt] :
            /\ links' = links \cup {{Decode(pkt, mode).src, Decode(pkt, mode).dst}}
            /\ lt' = lt
      BY <2>1 DEF packet_acquired
    <3> DEFINE dp == Decode(pkt, mode)
    <3>2. Read(dp) /\ dp.pkt = pkt
      BY DecodedConversation DEF TalkInv
    <3> HIDE DEF dp
    <3>3. AddressesIn(pkt) \subseteq Addresses
      BY <3>1 DEF EveryPacketFits, LinksRead
    <3>4. dp.src.addr \in Addresses /\ dp.dst.addr \in Addresses
      BY <3>2, <3>3 DEF Read
    <3>5. links' = links \cup {{dp.src, dp.dst}}
      BY <3>1 DEF dp
    <3> QED
      BY <3>1, <3>4, <3>5 DEF LinksRead
  <2>2. CASE restart
    BY <2>2 DEF restart, LinksRead
  <2>3. ASSUME NEW l \in links, link_delete(l)
        PROVE  LinksRead'
    BY <2>3 DEF link_delete, LinksRead
  <2>4. CASE \/ \E id \in DOMAIN nodes : node_update(id) \/ node_expired(id)
             \/ name_resolved \/ toggle_name_res \/ UNCHANGED vars
    <3>1. UNCHANGED <<lt, links>>
      BY <2>4 DEF node_update, node_expired, name_resolved, toggle_name_res, vars
    <3> QED
      BY <3>1 DEF LinksRead
  <2> QED
    BY <2>1, <2>2, <2>3, <2>4 DEF Next
<1> QED
  BY <1>1, <1>2, TalkInvariance, PTL DEF Spec

\* What a packet enters is a conversation in the sense of Conversations.
LEMMA EntryTyped ==
  ASSUME EveryPacketFits, LinksRead, NEW pkt \in Frames[lt],
         NEW dp, dp.pkt = pkt, Read(dp), NEW c \in EntryOf(dp)
  PROVE  c \in Talk!Conversation
<1>1. AddressesIn(pkt) \subseteq Addresses /\ NumbersIn(pkt) \subseteq PortNumbers
  BY DEF EveryPacketFits, LinksRead
<1>2. dp.src.addr \in Addresses /\ dp.dst.addr \in Addresses
  BY <1>1 DEF Read
<1>3. PortsIn(pkt) \subseteq Ports
  <2>1. \A x, y \in NumbersIn(pkt) : (x * 256 + y) % 65536 \in PortNumbers
    BY <1>1, SixteenBits
  <2>2. PortsIn(pkt) \subseteq PortNumbers
    BY <1>1, <2>1 DEF PortsIn
  <2> QED
    BY <2>2 DEF EveryPacketFits
<1>4. TalkNames \subseteq Labels
  BY DEF EveryPacketFits
<1> QED
  BY <1>2, <1>3, <1>4 DEF EntryOf, Talk!Conversation

(* get_ftp, get_rpc, link_delete and stop_capture use conversations.c as
   Conversations says: entries are added that fit no other, and go with a link or
   all at once.  Every step of Packets is a step of Conversations or leaves the
   entries alone. *)
THEOREM ListKeepsPromises ==
  ASSUME EveryPacketFits
  PROVE  Spec => ConversationsKept
<1> DEFINE talks == Range(conversations)
<1>0. \A s : Range(s) = Members(s)
  BY DEF Range, Members
<1>1. Init => Talk!Init
  <2>1. Init => conversations = <<>>
    BY DEF Init
  <2>2. Members(<<>>) = {}
    BY DEF Members
  <2> QED
    BY <1>0, <2>1, <2>2 DEF Talk!Init
<1>2. TalkInv /\ LinksRead /\ [Next]_vars => [Talk!Next]_talks
  <2> SUFFICES ASSUME TalkInv, LinksRead, [Next]_vars
               PROVE  Talk!Next \/ talks' = talks
    OBVIOUS
  <2>0. talks = Members(conversations) /\ talks' = Members(conversations)'
    BY <1>0 DEF Range, Members
  <2>1. CASE packet_acquired
    <3>1. PICK pkt \in Frames[lt] : conversations' = Decode(pkt, mode).conv
      BY <2>1 DEF packet_acquired
    <3> DEFINE dp == Decode(pkt, mode)
    <3>2. Read(dp) /\ dp.pkt = pkt
      BY DecodedConversation DEF TalkInv
    <3>3. CASE dp.conv = conversations
      BY <3>1, <3>3
    <3>4. ASSUME NEW c \in EntryOf(dp),
                 dp.conv = <<c>> \o conversations,
                 Matching(conversations, c.src, c.dst, c.sport, c.dport) = {}
          PROVE  Talk!Next
      <4> HIDE DEF dp
      <4>1. c \in Talk!Conversation
        BY <3>2, EntryTyped
      <4>2. c.dport = 0
        BY DEF EntryOf
      <4> DEFINE new == <<c>> \o conversations
      <4>3. /\ Members(new) = Members(conversations) \cup {c}
            /\ \A d \in Members(conversations) : ~ Fits(c.src, c.dst, c.sport, c.dport, d)
        BY <3>4, <4>2, Entered
      <4>4. conversations' = new
        BY <3>1, <3>4 DEF dp
      <4> HIDE DEF new
      <4>5. talks' = talks \cup {c}
        BY <2>0, <4>3, <4>4
      <4>6. \A d \in talks : ~ Talk!FitsEntry(c, d)
        BY <2>0, <4>3 DEF Talk!FitsEntry, Talk!Fits, Talk!PortsFit, Fits, PortsFit
      <4>7. Talk!Add(c)
        BY <4>5, <4>6 DEF Talk!Add
      <4> QED
        BY <4>1, <4>7 DEF Talk!Next
    <3> QED
      BY <3>3, <3>4, DecodedConversation DEF TalkInv
  <2>2. ASSUME NEW l \in links, link_delete(l)
        PROVE  Talk!Next
    <3>1. PICK a \in l, b \in l :
            conversations' = delete_conversation_link(conversations, a.addr, b.addr)
      BY <2>2 DEF link_delete
    <3>2. Members(conversations') = {c \in Members(conversations) : ~ Fits(a.addr, b.addr, 0, 0, c)}
      BY <3>1, Deleted DEF TalkInv
    <3>3. a.addr \in Addresses /\ b.addr \in Addresses
      BY DEF LinksRead
    <3>4. Talk!DeleteLink(a.addr, b.addr)
      BY <2>0, <3>2 DEF Talk!DeleteLink, Talk!Fits, Talk!PortsFit, Fits, PortsFit
    <3> QED
      BY <3>3, <3>4 DEF Talk!Next
  <2>3. CASE restart
    <3>1. conversations' = <<>>
      BY <2>3 DEF restart
    <3>2. Members(<<>>) = {}
      BY DEF Members
    <3>3. Talk!delete_conversations
      BY <2>0, <3>1, <3>2 DEF Talk!delete_conversations
    <3> QED
      BY <3>3 DEF Talk!Next
  <2>4. CASE \/ \E id \in DOMAIN nodes : node_update(id) \/ node_expired(id)
             \/ name_resolved \/ toggle_name_res \/ UNCHANGED vars
    <3>1. UNCHANGED conversations
      BY <2>4 DEF node_update, node_expired, name_resolved, toggle_name_res, vars
    <3> QED
      BY <3>1
  <2> QED
    BY <2>1, <2>2, <2>3, <2>4 DEF Next
<1> QED
  BY <1>1, <1>2, TalkInvariance, LinksReadKept, PTL DEF Spec, ConversationsKept, Talk!Spec

-----------------------------------------------------------------------------
(* Labels.                                                                 *)

\* The packet is of the conversation, one way or the other.
Belongs(src, dst, sport, dport, c) ==
  \/ src = c.src /\ dst = c.dst /\ sport = c.sport
  \/ src = c.dst /\ dst = c.src /\ dport = c.sport

\* find_conversation gives the name of that conversation and of no other.
LEMMA FoundLabel ==
  ASSUME TalkInv, NEW c \in Members(conversations), NEW src, NEW dst, NEW sport, NEW dport,
         Belongs(src, dst, sport, dport, c)
  PROVE  find_conversation(conversations, src, dst, sport, dport) = c.data
<1> DEFINE found == Matching(conversations, src, dst, sport, dport)
           first == CHOOSE i \in found : \A j \in found : i <= j
<1>1. c.dport = 0
  BY DEF TalkInv
<1>2. Fits(src, dst, sport, dport, c)
  BY <1>1 DEF Belongs, Fits, PortsFit
<1>3. \A d \in Members(conversations) : Fits(src, dst, sport, dport, d) => d = c
  <2> SUFFICES ASSUME NEW d \in Members(conversations), Fits(src, dst, sport, dport, d)
               PROVE  d = c
    OBVIOUS
  <2>1. d.dport = 0
    BY DEF TalkInv
  <2>2. Fits(c.src, c.dst, c.sport, c.dport, d)
    <3>1. CASE src = c.src /\ dst = c.dst /\ sport = c.sport
      BY <1>1, <2>1, <3>1 DEF Fits, PortsFit
    <3>2. CASE src = c.dst /\ dst = c.src /\ dport = c.sport
      BY <1>1, <2>1, <3>2 DEF Fits, PortsFit
    <3> QED
      BY <3>1, <3>2 DEF Belongs
  <2> QED
    BY <2>2 DEF TalkInv
<1>4. found # {} /\ found \subseteq Nat
  <2>1. DOMAIN conversations \subseteq Nat
    BY AppendMember DEF TalkInv
  <2> QED
    BY <1>2, <2>1 DEF Matching, Members
<1> HIDE DEF found
<1>5. first \in found
  <2>1. PICK i \in found : \A j \in found : ~ (<<j, i>> \in OpToRel(<, Nat))
    BY ONLY <1>4, NatLessThanWellFounded, WFMin
  <2>2. \A j \in found : ~ (j < i)
    BY <1>4, <2>1 DEF OpToRel
  <2>3. \A j \in found : i <= j
    BY <1>4, <2>2
  <2> QED
    BY <2>3
<1>6. find_conversation(conversations, src, dst, sport, dport) = conversations[first].data
  BY <1>4 DEF find_conversation, found
<1> HIDE DEF first
<1>7. /\ conversations[first] \in Members(conversations)
      /\ Fits(src, dst, sport, dport, conversations[first])
  BY <1>5 DEF found, Matching, Members
<1> QED
  BY <1>3, <1>6, <1>7

\* get_tcp: the conversation that fits gives the name above TCP, if there is room.
LEMMA TcpLabel ==
  ASSUME TalkInv, NEW c \in Members(conversations), NEW e, PastIp(e, e), e.next = "none",
         Len(e.stack) < STACK_SIZE, e.conv = conversations,
         NEW dp, dp = get_tcp(e), Belongs(dp.gsrc, dp.gdst, dp.sport, dp.dport, c),
         NEW k \in DOMAIN dp.stack, k < STACK_SIZE, dp.stack[k] = "TCP"
  PROVE  TopProtocol(dp.stack) = c.data
<1> DEFINE t == transport_ids(e, "TCP")
           d == add_offset(t, 4 * Size(e, 12))
           conv == find_conversation(d.conv, d.gsrc, d.gdst, d.sport, d.dport)
<1>1. Transport(t) /\ Kept(t, e) /\ t.conv = e.conv /\ t.sport = Num(e, 0)
  BY TransportIds
<1>2. t.stack = decode_proto_add(e, "TCP").stack
  <2>1. \/ t = [decode_proto_add(e, "TCP") EXCEPT !.sport = Num(e, 0), !.dport = Num(e, 2)]
        \/ \E ok, src, dst :
             t = [[decode_proto_add(e, "TCP") EXCEPT !.sport = Num(e, 0), !.dport = Num(e, 2)]
                    EXCEPT !.ok = ok, !.src = src, !.dst = dst]
    BY DEF transport_ids
  <2>2. DOMAIN decode_proto_add(e, "TCP") = Fields
    <3>1. IsDp(e)
      BY DEF PastIp
    <3> QED
      BY <3>1, AddName DEF IsDp
  <2> HIDE DEF t
  <2> QED
    BY <2>1, <2>2 DEF Fields
<1>3. t.stack = Append(e.stack, "TCP")
  <2>1. decode_proto_add(e, "TCP") = [e EXCEPT !.stack = Append(@, "TCP")]
    BY DEF decode_proto_add
  <2>2. DOMAIN e = Fields
    BY DEF PastIp, IsDp
  <2> HIDE DEF t
  <2> QED
    BY <1>2, <2>1, <2>2 DEF Fields
<1>4. dp = tcp_payload(d, conv)
  BY DEF get_tcp
<1> HIDE DEF t
<1>5. Transport(d) /\ Untouched(d, t) /\ d.stack = t.stack
  <2>1. IsDp(t)
    BY <1>1 DEF Transport
  <2>2. d.stack = t.stack
    BY <2>1, MoveCursor
  <2> QED
    BY <1>1, <2>2, TransportMove
<1> HIDE DEF d
<1>6. d.conv = conversations /\ d.sport \in NumbersIn(d.pkt)
  BY <1>1, <1>5, NumRead DEF Untouched, Kept
<1>7. Above(dp, d)
  BY <1>4, <1>5, <1>6, TcpPayload DEF Payload
<1>8. conv = c.data
  <2>1. Belongs(d.gsrc, d.gdst, d.sport, d.dport, c)
    BY <1>7 DEF Above, Belongs
  <2> QED
    BY <1>6, <2>1, FoundLabel
<1> HIDE DEF conv
<1>9. dp = decode_proto_add(d, c.data)
  <2>1. c.data # NoData
    BY DEF TalkInv, TalkNames, RpcPrograms, NoData
  <2> QED
    BY <1>4, <1>8, <2>1 DEF tcp_payload
<1>10. /\ Len(e.stack) \in Nat /\ DOMAIN d.stack = 1..(Len(e.stack) + 1)
       /\ Len(d.stack) = Len(e.stack) + 1 /\ DOMAIN e.stack = 1..Len(e.stack)
       /\ \A i \in 1..Len(e.stack) : d.stack[i] = e.stack[i]
  <2>1. IsSeq(e.stack)
    BY DEF PastIp, IsDp
  <2> QED
    BY <1>3, <1>5, <2>1, AppendMember
<1>11. Len(d.stack) < STACK_SIZE
  <2>1. ASSUME ~ (Len(d.stack) < STACK_SIZE)
        PROVE  FALSE
    <3>1. dp.stack = d.stack
      BY <1>9, <2>1 DEF decode_proto_add
    <3>2. k \in 1..Len(e.stack)
      BY <1>10, <2>1, <3>1 DEF STACK_SIZE
    <3>3. "TCP" \in Members(e.stack)
      BY <1>10, <3>1, <3>2 DEF Members
    <3> QED
      BY <3>3 DEF PastIp
  <2> QED
    BY <2>1
<1>12. dp.stack = Append(d.stack, c.data)
  <2>1. DOMAIN d = Fields
    BY <1>5 DEF Transport, IsDp
  <2> QED
    BY <1>9, <1>11, <2>1 DEF decode_proto_add, Fields
<1>13. IsSeq(d.stack)
  BY <1>5 DEF Transport, IsDp
<1>14. /\ Len(dp.stack) = Len(d.stack) + 1 /\ DOMAIN dp.stack = 1..Len(dp.stack)
       /\ dp.stack[Len(dp.stack)] = c.data
  BY <1>12, <1>13, AppendMember
<1> QED
  BY <1>14 DEF TopProtocol

(* get_tcp and get_ftp: whatever packets come, a TCP packet that belongs to a
   conversation of the list is labelled with it, if there is room above TCP. *)
THEOREM TransfersAreLabelled == Spec => []TransferLabelled
<1>1. TalkInv => TransferLabelled
  <2> SUFFICES ASSUME TalkInv, NEW pkt \in Frames[lt], NEW i \in DOMAIN conversations,
                      NEW k \in DOMAIN Decode(pkt, mode).stack,
                      k < STACK_SIZE, Decode(pkt, mode).stack[k] = "TCP",
                      \A j \in DOMAIN Decode(pkt, mode).stack : Decode(pkt, mode).stack[j] # "UDP",
                      LET dp == Decode(pkt, mode)
                      IN  Belongs(dp.gsrc, dp.gdst, dp.sport, dp.dport, conversations[i])
               PROVE  TopProtocol(Decode(pkt, mode).stack) = conversations[i].data
    BY DEF TransferLabelled, Belongs
  <2> DEFINE dp == Decode(pkt, mode)
  <2>1. PICK start : Stage(dp, start) /\ start.conv = conversations
    BY DecodedStage DEF TalkInv, ModeAndEntry
  <2> HIDE DEF dp
  <2>2. "TCP" \in Members(dp.stack) /\ "UDP" \notin Members(dp.stack)
    BY DEF Members, dp
  <2>3. conversations[i] \in Members(conversations)
    BY DEF Members
  <2>4. ~ OutOfLink(dp, start) /\ ~ PastIp(dp, start)
    BY <2>2 DEF OutOfLink, AtLink, AtNetwork, Below, EndedBelow, PastIp, Low, HostNames
  <2>5. PICK e : /\ PastIp(e, start) /\ e.next = "none" /\ Len(e.stack) < STACK_SIZE
                 /\ dp \in {get_tcp(e), get_udp(e)}
    BY <2>1, <2>4 DEF Stage, TransportCalled
  <2>6. PastIp(e, e) /\ e.conv = conversations
    BY <2>1, <2>5 DEF PastIp, Untouched
  <2>7. dp # get_udp(e)
    <3> DEFINE t == transport_ids(e, "UDP")
               d == add_offset(t, 8)
    <3>1. "UDP" \in Members(t.stack) /\ Transport(t) /\ t.sport = Num(e, 0) /\ Kept(t, e)
      BY <2>5, <2>6, TransportIds
    <3>2. get_udp(e) = udp_payload(d)
      BY DEF get_udp
    <3> HIDE DEF t
    <3>3. Transport(d) /\ Untouched(d, t) /\ d.stack = t.stack
      <4>1. IsDp(t)
        BY <3>1 DEF Transport
      <4>2. d.stack = t.stack
        BY <4>1, MoveCursor
      <4> QED
        BY <3>1, <4>2, TransportMove
    <3> HIDE DEF d
    <3>4. d.sport \in NumbersIn(d.pkt)
      BY <3>1, <3>3, NumRead DEF Untouched, Kept
    <3>5. Above(udp_payload(d), d)
      BY <3>3, <3>4, UdpPayload DEF Payload
    <3> QED
      BY <2>2, <3>1, <3>2, <3>3, <3>5 DEF Above
  <2>8. dp = get_tcp(e)
    BY <2>5, <2>7
  <2>9. TopProtocol(dp.stack) = conversations[i].data
    BY <2>3, <2>5, <2>6, <2>8, TcpLabel DEF dp
  <2> QED
    BY <2>9 DEF dp
<1> QED
  BY <1>1, TalkInvariance, PTL

-----------------------------------------------------------------------------
(* The entry get_ppi keeps does not show.                                  *)

\* Two records that differ in the entry only.
Alike(d, e) ==
  /\ DOMAIN d = Fields /\ DOMAIN e = Fields
  /\ d.pkt = e.pkt /\ d.lkentry = e.lkentry /\ d.pos = e.pos /\ d.len = e.len
  /\ d.stack = e.stack /\ d.src = e.src /\ d.dst = e.dst /\ d.gsrc = e.gsrc /\ d.gdst = e.gdst
  /\ d.sport = e.sport /\ d.dport = e.dport /\ d.conv = e.conv /\ d.mode = e.mode
  /\ d.ok = e.ok /\ d.next = e.next

\* They read the same,
LEMMA AlikeRead ==
  ASSUME NEW d, NEW e, Alike(d, e)
  PROVE  /\ \A k : Code(d, k) = Code(e, k) /\ Num(d, k) = Num(e, k) /\ Size(d, k) = Size(e, k)
         /\ d.len = e.len /\ d.pos = e.pos /\ d.pkt = e.pkt /\ d.lkentry = e.lkentry
         /\ d.mode = e.mode /\ d.conv = e.conv /\ d.next = e.next
         /\ d.gsrc = e.gsrc /\ d.gdst = e.gdst /\ d.sport = e.sport /\ d.dport = e.dport
BY DEF Alike, Code, Num, Size

\* and the steps of which the decoders are made keep them alike.
LEMMA AlikeAdd ==
  ASSUME NEW d, NEW e, Alike(d, e), NEW name
  PROVE  Alike(decode_proto_add(d, name), decode_proto_add(e, name))
BY DEF Alike, decode_proto_add, Fields

\* The cursor of both moves alike (add_offset),
LEMMA AlikeMove ==
  ASSUME NEW d, NEW e, Alike(d, e), NEW o
  PROVE  Alike(add_offset(d, o), add_offset(e, o))
BY DEF Alike, add_offset, Fields

\* both get the same link-layer ids,
LEMMA AlikeIds ==
  ASSUME NEW d, NEW e, Alike(d, e), NEW a, NEW b
  PROVE  Alike(LinkIds(d, a, b), LinkIds(e, a, b))
<1>1. Code(d, a) = Code(e, a) /\ Code(d, b) = Code(e, b)
  BY AlikeRead
<1> QED
  BY <1>1 DEF Alike, LinkIds, Fields

\* and both hand to the same decoder.
LEMMA AlikeHand ==
  ASSUME NEW d, NEW e, Alike(d, e), NEW f
  PROVE  Alike(HandTo(f, d), HandTo(f, e))
BY DEF Alike, HandTo, Fields

\* get_eth_II
LEMMA AlikeEtype ==
  ASSUME NEW d, NEW e, Alike(d, e), NEW etype
  PROVE  Alike(get_eth_II(d, etype), get_eth_II(e, etype))
BY AlikeHand, AlikeAdd DEF get_eth_II, append_etype_prot

\* get_eth_type
LEMMA AlikeEthernet ==
  ASSUME NEW d, NEW e, Alike(d, e)
  PROVE  Alike(get_eth_type(d), get_eth_type(e))
<1> DEFINE tagged == Code(d, 12) = "VLAN"
           V(x) == IF tagged THEN decode_proto_add(x, "802.1Q") ELSE x
           o == IF tagged THEN 16 ELSE 12
           P(x) == add_offset(LinkIds(V(x), 0, 6), o + 2)
           G(x) == CASE d.len < 20 -> x
                     [] d.len >= 20 /\ Code(d, o) = "length" /\ Code(d, 0) = "ISL" ->
                          decode_proto_add(V(x), "ISL")
                     [] OTHER ->
                          CASE Code(d, o) # "length" ->
                                 get_eth_II(decode_proto_add(P(x), "ETH_II"), Code(d, o))
                            [] Code(P(d), 0) = "ffff" -> decode_proto_add(P(x), "802.3-RAW")
                            [] OTHER -> HandTo("get_llc", decode_proto_add(P(x), "802.3"))
<1>1. Alike(V(d), V(e))
  BY AlikeAdd
<1> HIDE DEF V
<1>2. Alike(P(d), P(e))
  <2>1. Alike(LinkIds(V(d), 0, 6), LinkIds(V(e), 0, 6))
    BY <1>1, AlikeIds
  <2> QED
    BY <2>1, AlikeMove
<1>3. get_eth_type(d) = G(d)
  BY DEF get_eth_type, get_eth_802_3, V
<1>4. get_eth_type(e) = G(e)
  <2>1. /\ Code(e, 12) = Code(d, 12) /\ Code(e, o) = Code(d, o) /\ Code(e, 0) = Code(d, 0)
        /\ e.len = d.len
    BY AlikeRead
  <2>2. Code(P(e), 0) = Code(P(d), 0)
    BY <1>2, AlikeRead
  <2> QED
    BY <2>1, <2>2 DEF get_eth_type, get_eth_802_3, V
<1> HIDE DEF P
<1>5. /\ Alike(decode_proto_add(V(d), "ISL"), decode_proto_add(V(e), "ISL"))
      /\ Alike(decode_proto_add(P(d), "802.3-RAW"), decode_proto_add(P(e), "802.3-RAW"))
  BY <1>1, <1>2, AlikeAdd
<1>6. Alike(get_eth_II(decode_proto_add(P(d), "ETH_II"), Code(d, o)),
            get_eth_II(decode_proto_add(P(e), "ETH_II"), Code(d, o)))
  BY <1>2, AlikeAdd, AlikeEtype
<1>7. Alike(HandTo("get_llc", decode_proto_add(P(d), "802.3")),
            HandTo("get_llc", decode_proto_add(P(e), "802.3")))
  BY <1>2, AlikeAdd, AlikeHand
<1>8. Alike(G(d), G(e))
  BY <1>5, <1>6, <1>7
<1> QED
  BY <1>3, <1>4, <1>8

\* get_fddi_type and get_ieee802_5_type
LEMMA AlikeRing ==
  ASSUME NEW d, NEW e, Alike(d, e)
  PROVE  /\ Alike(get_fddi_type(d), get_fddi_type(e))
         /\ Alike(get_ieee802_5_type(d), get_ieee802_5_type(e))
<1> DEFINE F(x) == decode_proto_add(x, "FDDI")
           G(x) == LinkIds(decode_proto_add(F(x), "LLC"), 1, 7)
           T(x) == decode_proto_add(x, "Token Ring")
           I(x) == LinkIds(T(x), 2, 8)
           L(x) == decode_proto_add(I(x), "LLC")
           R(x) == CASE d.len < 15 -> T(x)
                     [] d.len >= 15 /\ d.len < 22 -> I(x)
                     [] d.len >= 22 /\ Code(d, 20) = "IP" -> HandTo("get_ip", add_offset(L(x), 22))
                     [] OTHER -> L(x)
<1>0. e.len = d.len /\ Code(e, 19) = Code(d, 19) /\ Code(e, 20) = Code(d, 20)
  BY AlikeRead
<1>20. get_ieee802_5_type(d) = R(d) /\ get_ieee802_5_type(e) = R(e)
  BY <1>0 DEF get_ieee802_5_type
<1>1. Alike(F(d), F(e)) /\ Alike(T(d), T(e))
  BY AlikeAdd
<1> HIDE DEF F, T
<1>2. Alike(G(d), G(e)) /\ Alike(I(d), I(e))
  BY <1>1, AlikeAdd, AlikeIds
<1> HIDE DEF G, I
<1>3. Alike(L(d), L(e))
  BY <1>2, AlikeAdd
<1> HIDE DEF L
<1>4. /\ Alike(HandTo("get_ip", add_offset(G(d), 21)), HandTo("get_ip", add_offset(G(e), 21)))
      /\ Alike(HandTo("get_ip", add_offset(L(d), 22)), HandTo("get_ip", add_offset(L(e), 22)))
  BY <1>2, <1>3, AlikeMove, AlikeHand
<1>5. Alike(get_fddi_type(d), get_fddi_type(e))
  BY <1>0, <1>1, <1>2, <1>4 DEF get_fddi_type, F, G
<1>6. Alike(R(d), R(e))
  BY <1>1, <1>2, <1>3, <1>4
<1> QED
  BY <1>20, <1>5, <1>6

\* get_loop and get_linux_sll
LEMMA AlikeCooked ==
  ASSUME NEW d, NEW e, Alike(d, e)
  PROVE  Alike(get_loop(d), get_loop(e)) /\ Alike(get_linux_sll(d), get_linux_sll(e))
<1>1. e.lkentry = d.lkentry /\ Code(e, 14) = Code(d, 14)
  BY AlikeRead
<1>2. Alike(get_loop(d), get_loop(e))
  BY <1>1, AlikeAdd, AlikeMove, AlikeHand DEF get_loop
<1>3. Alike(add_offset(decode_proto_add(d, "LINUX-SLL"), 16),
            add_offset(decode_proto_add(e, "LINUX-SLL"), 16))
  BY AlikeAdd, AlikeMove
<1>4. Alike(get_linux_sll(d), get_linux_sll(e))
  BY <1>1, <1>3, AlikeEtype DEF get_linux_sll
<1> QED
  BY <1>2, <1>4

\* get_llc
LEMMA AlikeLlc ==
  ASSUME NEW d, NEW e, Alike(d, e)
  PROVE  Alike(get_llc(d), get_llc(e))
<1> DEFINE L(x) == decode_proto_add(x, "LLC")
           M(x) == add_offset(L(x), 3)
           N(x) == decode_proto_add(M(x), "NETBIOS")
           S(x) == add_offset(x, 8)
<1>1. Alike(L(d), L(e)) /\ Alike(S(d), S(e))
  BY AlikeAdd, AlikeMove
<1> HIDE DEF L, S
<1>2. Alike(M(d), M(e))
  BY <1>1, AlikeMove
<1> HIDE DEF M
<1>3. Alike(N(d), N(e)) /\ \A name : Alike(decode_proto_add(M(d), name), decode_proto_add(M(e), name))
  BY <1>2, AlikeAdd
<1> HIDE DEF N
<1>4. Alike(get_netbios(N(d)), get_netbios(N(e)))
  <2>1. N(e).len = N(d).len /\ Size(N(e), 0) = Size(N(d), 0)
    BY <1>3, AlikeRead
  <2> QED
    BY <1>3, <2>1, AlikeAdd DEF get_netbios
<1>5. /\ Alike(HandTo("get_ip", M(d)), HandTo("get_ip", M(e)))
      /\ Alike(HandTo("get_ipx", M(d)), HandTo("get_ipx", M(e)))
  BY <1>2, AlikeHand
<1>6. \A etype : Alike(get_eth_II(S(d), etype), get_eth_II(S(e), etype))
  BY <1>1, AlikeEtype
<1>7. e.len = d.len /\ \A k : Code(e, k) = Code(d, k)
  BY AlikeRead
<1> QED
  BY <1>1, <1>2, <1>3, <1>4, <1>5, <1>6, <1>7 DEF get_llc, L, M, N, S

\* get_ipx
LEMMA AlikeIpx ==
  ASSUME NEW d, NEW e, Alike(d, e)
  PROVE  Alike(get_ipx(d), get_ipx(e))
<1> DEFINE type == Code(d, 5)
           types == {"IPX-RIP", "IPX-ECHO", "IPX-ERROR", "IPX-SPX", "IPX-NCP", "IPX-NetBIOS"}
           asked == {i \in DOMAIN IpxSockets : IpxSockets[i] \in {Code(d, 16), Code(d, 28)}}
           first == CHOOSE i \in asked : \A j \in asked : i <= j
           N(x) == IF type \in types THEN decode_proto_add(decode_proto_add(x, "IPX"), type)
                   ELSE decode_proto_add(x, "IPX")
           G(x) == CASE d.len < 30 \/ Code(d, 0) # "ffff" -> x
                     [] type \in {"IPX", "PEP", "IPX-NetBIOS"} /\ asked # {} ->
                          decode_proto_add(N(x), IpxSockets[first])
                     [] OTHER -> N(x)
<1>1. Code(e, 5) = Code(d, 5) /\ Code(e, 0) = Code(d, 0) /\ Code(e, 16) = Code(d, 16)
      /\ Code(e, 28) = Code(d, 28) /\ e.len = d.len
  BY AlikeRead
<1>2. get_ipx(d) = G(d)
  BY DEF get_ipx
<1>3. get_ipx(e) = G(e)
  BY <1>1 DEF get_ipx
<1> HIDE DEF type, types, asked, first
<1>4. Alike(N(d), N(e))
  BY AlikeAdd
<1> HIDE DEF N
<1>5. Alike(G(d), G(e))
  BY <1>4, AlikeAdd
<1> QED
  BY <1>2, <1>3, <1>5

\* get_wlan and get_radiotap
LEMMA AlikeWlan ==
  ASSUME NEW d, NEW e, Alike(d, e)
  PROVE  Alike(get_wlan(d), get_wlan(e)) /\ Alike(get_radiotap(d), get_radiotap(e))
<1> DEFINE W(x) == decode_proto_add(x, "IEE802.11")
           subtype == Num(d, 0)
           bits == Num(d, 1) % 4
           ofs == WlanAddresses[bits]
           One(x) == [W(x) EXCEPT !.dst = Id("LINK6", Code(d, ofs.dst))]
           Both(x) == LinkIds(W(x), ofs.dst, ofs.src)
           Body(x) == add_offset(Both(x), IF bits = 3 THEN 30 ELSE 24)
           Llc(x) == HandTo("get_llc", add_offset(Body(x), IF subtype = 8 THEN 2 ELSE 0))
           G(x) == CASE d.len < 10 \/ d.len < ofs.dst + 6 -> W(x)
                     [] d.len >= ofs.dst + 6 /\ Code(d, 0) = "control" /\ subtype # 11 ->
                          decode_wlan_ctrl(add_offset(One(x), 10), subtype)
                     [] OTHER ->
                          CASE d.len < ofs.src + 6 -> One(x)
                            [] Code(d, 0) = "control" ->
                                 decode_wlan_ctrl(add_offset(Both(x), 16), subtype)
                            [] Code(d, 0) = "management" -> decode_wlan_mgmt(Body(x), subtype)
                            [] Code(d, 0) = "data" ->
                                 IF Code(d, 1) = "encrypted"
                                 THEN decode_proto_add(Body(x), "WLAN-CRYPTED")
                                 ELSE Llc(x)
                            [] OTHER -> Body(x)
<1>1. /\ e.len = d.len /\ \A k : Code(e, k) = Code(d, k) /\ Num(e, k) = Num(d, k)
      /\ Size(e, 2) = Size(d, 2)
  BY AlikeRead
<1>2. get_wlan(d) = G(d)
  BY DEF get_wlan
<1>3. get_wlan(e) = G(e)
  BY <1>1 DEF get_wlan
<1> HIDE DEF subtype, bits, ofs
<1>4. Alike(W(d), W(e))
  BY AlikeAdd
<1> HIDE DEF W
<1>5. Alike(One(d), One(e))
  BY <1>4 DEF Alike, Fields
<1>6. Alike(Both(d), Both(e))
  BY <1>4, AlikeIds
<1> HIDE DEF One, Both
<1>7. Alike(Body(d), Body(e))
  BY <1>6, AlikeMove
<1> HIDE DEF Body
<1>8. Alike(Llc(d), Llc(e))
  BY <1>7, AlikeMove, AlikeHand
<1> HIDE DEF Llc
<1>9. ASSUME NEW x, NEW y, Alike(x, y)
      PROVE  /\ Alike(decode_wlan_ctrl(x, subtype), decode_wlan_ctrl(y, subtype))
             /\ Alike(decode_wlan_mgmt(x, subtype), decode_wlan_mgmt(y, subtype))
  BY <1>9, AlikeAdd DEF decode_wlan_ctrl, decode_wlan_mgmt
<1>10. /\ Alike(decode_wlan_ctrl(add_offset(One(d), 10), subtype),
                decode_wlan_ctrl(add_offset(One(e), 10), subtype))
       /\ Alike(decode_wlan_ctrl(add_offset(Both(d), 16), subtype),
                decode_wlan_ctrl(add_offset(Both(e), 16), subtype))
       /\ Alike(decode_wlan_mgmt(Body(d), subtype), decode_wlan_mgmt(Body(e), subtype))
       /\ Alike(decode_proto_add(Body(d), "WLAN-CRYPTED"), decode_proto_add(Body(e), "WLAN-CRYPTED"))
  BY <1>5, <1>6, <1>7, <1>9, AlikeMove, AlikeAdd
<1>11. Alike(G(d), G(e))
  BY <1>4, <1>5, <1>7, <1>8, <1>10
<1>12. Alike(get_radiotap(d), get_radiotap(e))
  BY <1>1, AlikeAdd, AlikeMove, AlikeHand DEF get_radiotap
<1> QED
  BY <1>2, <1>3, <1>11, <1>12

\* get_ip
LEMMA AlikeIp ==
  ASSUME NEW d, NEW e, Alike(d, e)
  PROVE  Alike(get_ip(d), get_ip(e))
<1>1. ASSUME NEW x, NEW y, Alike(x, y), NEW a, NEW b
      PROVE  Alike(ip_ids(x, a, b), ip_ids(y, a, b))
  <2>1. \A k : Code(x, k) = Code(y, k)
    BY <1>1, AlikeRead
  <2> QED
    BY <1>1, <2>1 DEF Alike, ip_ids, Fields
<1>2. ASSUME NEW x, NEW y, Alike(x, y), NEW type, NEW fragment
      PROVE  Alike(ip_payload(x, type, fragment), ip_payload(y, type, fragment))
  <2> DEFINE H(z) == [z EXCEPT !.gsrc = z.src.addr, !.gdst = z.dst.addr]
             P(z) == CASE type = "TCP" -> IF fragment # 0 THEN decode_proto_add(z, "TCP_FRAGMENT")
                                          ELSE HandTo("get_tcp", z)
                       [] type = "UDP" -> IF fragment # 0 THEN decode_proto_add(z, "UDP_FRAGMENT")
                                          ELSE HandTo("get_udp", z)
                       [] OTHER -> decode_proto_add(z, IF type \in IpProtocols THEN type
                                                       ELSE "IP_UNKNOWN")
  <2>1. Alike(H(x), H(y))
    BY <1>2 DEF Alike, Fields
  <2>2. ip_payload(x, type, fragment) = P(H(x)) /\ ip_payload(y, type, fragment) = P(H(y))
    BY DEF ip_payload
  <2> HIDE DEF H
  <2>3. Alike(P(H(x)), P(H(y)))
    BY <2>1, AlikeAdd, AlikeHand
  <2> QED
    BY <2>2, <2>3
<1>3. ASSUME NEW name, NEW a, NEW b, NEW o, NEW type, NEW fragment
      PROVE  Alike(ip_payload(add_offset(ip_ids(decode_proto_add(d, name), a, b), o), type, fragment),
                   ip_payload(add_offset(ip_ids(decode_proto_add(e, name), a, b), o), type, fragment))
  BY <1>1, <1>2, AlikeAdd, AlikeMove
<1>4. /\ e.len = d.len /\ Code(e, 0) = Code(d, 0) /\ Code(e, 9) = Code(d, 9)
      /\ Code(e, 6) = Code(d, 6) /\ Size(e, 0) = Size(d, 0) /\ Num(e, 6) = Num(d, 6)
  BY AlikeRead
<1> DEFINE G(x, len, version, tcp, next, head, word) ==
             CASE len >= 20 /\ version = "version 4" /\ head >= 20 ->
                    ip_payload(add_offset(ip_ids(decode_proto_add(x, "IP"), 12, 16), head),
                               tcp, word % 4096)
               [] len >= 40 /\ version = "version 6" ->
                    ip_payload(add_offset(ip_ids(decode_proto_add(x, "IPV6"), 8, 24), 40), next, 0)
               [] OTHER -> x
<1>5. /\ get_ip(d) = G(d, d.len, Code(d, 0), Code(d, 9), Code(d, 6), Size(d, 0), Num(d, 6))
      /\ get_ip(e) = G(e, e.len, Code(e, 0), Code(e, 9), Code(e, 6), Size(e, 0), Num(e, 6))
  BY DEF get_ip
<1>6. ASSUME NEW len, NEW version, NEW tcp, NEW next, NEW head, NEW word
      PROVE  Alike(G(d, len, version, tcp, next, head, word), G(e, len, version, tcp, next, head, word))
  <2> DEFINE v4 == len >= 20 /\ version = "version 4" /\ head >= 20
             v6 == len >= 40 /\ version = "version 6"
             V4(x) == ip_payload(add_offset(ip_ids(decode_proto_add(x, "IP"), 12, 16), head),
                                 tcp, word % 4096)
             V6(x) == ip_payload(add_offset(ip_ids(decode_proto_add(x, "IPV6"), 8, 24), 40), next, 0)
  <2>1. \A x : G(x, len, version, tcp, next, head, word) =
                 CASE v4 -> V4(x) [] v6 -> V6(x) [] OTHER -> x
    OBVIOUS
  <2>2. Alike(V4(d), V4(e)) /\ Alike(V6(d), V6(e))
    BY <1>3
  <2> HIDE DEF G, v4, v6, V4, V6
  <2> QED
    BY <2>1, <2>2
<1> HIDE DEF G
<1> QED
  BY <1>4, <1>5, <1>6

\* get_rpc
LEMMA AlikeRpc ==
  ASSUME NEW d, NEW e, Alike(d, e), NEW start
  PROVE  rpc_prot(d, start) = rpc_prot(e, start) /\ Alike(get_rpc(d, start), get_rpc(e, start))
<1>1. /\ \A k : Code(e, k) = Code(d, k)
      /\ e.len = d.len /\ e.conv = d.conv /\ e.gsrc = d.gsrc /\ e.gdst = d.gdst
      /\ e.sport = d.sport /\ e.dport = d.dport
  BY AlikeRead
<1>2. rpc_prot(d, start) = rpc_prot(e, start)
  BY <1>1 DEF rpc_prot
<1> DEFINE prot == rpc_prot(d, start)
           conv == IF find_conversation(d.conv, d.gsrc, d.gsrc, d.sport, 0) = NoData
                   THEN add_conversation(d.conv, d.gsrc, d.gsrc, d.sport, 0, prot)
                   ELSE d.conv
           C(x) == IF Code(d, start + 4) = "CALL" THEN [x EXCEPT !.conv = conv] ELSE x
           G(x) == decode_proto_add(decode_proto_add(C(x), "ONC-RPC"), prot)
<1>3. get_rpc(d, start) = G(d) /\ get_rpc(e, start) = G(e)
  BY <1>1, <1>2 DEF get_rpc
<1> HIDE DEF prot, conv
<1>4. Alike(C(d), C(e))
  BY DEF Alike, Fields
<1> HIDE DEF C
<1>5. Alike(G(d), G(e))
  BY <1>4, AlikeAdd
<1> QED
  BY <1>2, <1>3, <1>5

\* get_ftp
LEMMA AlikeFtp ==
  ASSUME NEW d, NEW e, Alike(d, e)
  PROVE  Alike(get_ftp(d), get_ftp(e))
<1> DEFINE F(x) == decode_proto_add(x, "FTP")
           C(x) == [F(x) EXCEPT
                      !.conv = add_conversation(@, F(d).gsrc, F(d).gdst,
                                                (Num(F(d), 3) * 256 + Num(F(d), 4)) % 65536, 0,
                                                "FTP-PASSIVE")]
           none == \/ F(d).len < 3 \/ Code(F(d), 0) # "227"
                   \/ ~ {F(d).pos + 3, F(d).pos + 4} \subseteq DOMAIN F(d).pkt.num
           G(x) == IF none THEN F(x) ELSE C(x)
<1>1. Alike(F(d), F(e))
  BY AlikeAdd
<1>2. /\ Code(F(e), 0) = Code(F(d), 0) /\ Num(F(e), 3) = Num(F(d), 3) /\ Num(F(e), 4) = Num(F(d), 4)
      /\ F(e).len = F(d).len /\ F(e).pos = F(d).pos /\ F(e).pkt = F(d).pkt
      /\ F(e).gsrc = F(d).gsrc /\ F(e).gdst = F(d).gdst
  <2> HIDE DEF F
  <2> QED
    BY <1>1, AlikeRead
<1>3. get_ftp(d) = G(d) /\ get_ftp(e) = G(e)
  BY <1>2 DEF get_ftp
<1> HIDE DEF F
<1>4. Alike(C(d), C(e))
  BY <1>1 DEF Alike, Fields
<1> HIDE DEF C, none
<1>5. Alike(G(d), G(e))
  BY <1>1, <1>4
<1> QED
  BY <1>3, <1>5

\* get_tcp and get_udp
LEMMA AlikeTransport ==
  ASSUME NEW d, NEW e, Alike(d, e)
  PROVE  Alike(get_tcp(d), get_tcp(e)) /\ Alike(get_udp(d), get_udp(e))
<1>1. ASSUME NEW prot
      PROVE  Alike(transport_ids(d, prot), transport_ids(e, prot))
  <2> DEFINE P(x) == [decode_proto_add(x, prot) EXCEPT !.sport = Num(d, 0), !.dport = Num(d, 2)]
             T(x) == IF x.mode # "TCP" THEN x
                     ELSE [x EXCEPT !.ok = @ /\ x.src.type = "IP" /\ x.dst.type = "IP",
                                    !.src = [type |-> "TCP", addr |-> x.gsrc, port |-> x.sport],
                                    !.dst = [type |-> "TCP", addr |-> x.gdst, port |-> x.dport]]
  <2>1. Num(e, 0) = Num(d, 0) /\ Num(e, 2) = Num(d, 2)
    BY AlikeRead
  <2>2. transport_ids(d, prot) = T(P(d)) /\ transport_ids(e, prot) = T(P(e))
    BY <2>1 DEF transport_ids
  <2>3. Alike(decode_proto_add(d, prot), decode_proto_add(e, prot))
    BY AlikeAdd
  <2>4. Alike(P(d), P(e))
    BY <2>3 DEF Alike, Fields
  <2> HIDE DEF P
  <2>5. Alike(T(P(d)), T(P(e)))
    BY <2>4 DEF Alike, Fields
  <2> QED
    BY <2>2, <2>5
<1>2. ASSUME NEW x, NEW y, Alike(x, y), NEW prot, NEW services, NEW unknown
      PROVE  Alike(add_service(x, prot, services, unknown), add_service(y, prot, services, unknown))
  <2>1. x.sport = y.sport /\ x.dport = y.dport
    BY <1>2, AlikeRead
  <2>2. \E name : /\ add_service(x, prot, services, unknown) = decode_proto_add(x, name)
                  /\ add_service(y, prot, services, unknown) = decode_proto_add(y, name)
    BY <2>1 DEF add_service
  <2> QED
    BY <1>2, <2>2, AlikeAdd
<1>3. ASSUME NEW x, NEW y, Alike(x, y)
      PROVE  /\ Alike(get_netbios_ssn(x), get_netbios_ssn(y))
             /\ Alike(get_netbios_dgm(x), get_netbios_dgm(y))
  <2>1. \A name : /\ Alike(decode_proto_add(x, name), decode_proto_add(y, name))
                  /\ Code(decode_proto_add(x, name), 0) = Code(decode_proto_add(y, name), 0)
    BY <1>3, AlikeAdd, AlikeRead
  <2> QED
    BY <2>1, AlikeAdd DEF get_netbios_ssn, get_netbios_dgm
<1>4. ASSUME NEW x, NEW y, Alike(x, y), NEW conv
      PROVE  Alike(tcp_payload(x, conv), tcp_payload(y, conv))
  <2>1. x.sport = y.sport /\ x.dport = y.dport /\ rpc_prot(x, 4) = rpc_prot(y, 4)
    BY <1>4, AlikeRead, AlikeRpc
  <2>2. /\ Alike(decode_proto_add(x, conv), decode_proto_add(y, conv))
        /\ Alike(get_rpc(x, 4), get_rpc(y, 4)) /\ Alike(get_ftp(x), get_ftp(y))
        /\ Alike(get_netbios_ssn(x), get_netbios_ssn(y))
        /\ Alike(add_service(x, "TCP", TcpServices, "TCP-UNKNOwN"),
                 add_service(y, "TCP", TcpServices, "TCP-UNKNOwN"))
    BY <1>2, <1>3, <1>4, AlikeAdd, AlikeRpc, AlikeFtp
  <2> QED
    BY <2>1, <2>2 DEF tcp_payload
<1>5. ASSUME NEW x, NEW y, Alike(x, y)
      PROVE  Alike(udp_payload(x), udp_payload(y))
  <2>1. x.sport = y.sport /\ x.dport = y.dport /\ rpc_prot(x, 0) = rpc_prot(y, 0)
    BY <1>5, AlikeRead, AlikeRpc
  <2>2. /\ Alike(get_rpc(x, 0), get_rpc(y, 0)) /\ Alike(get_netbios_dgm(x), get_netbios_dgm(y))
        /\ Alike(add_service(x, "UDP", UdpServices, "UDP-UNKNOWN"),
                 add_service(y, "UDP", UdpServices, "UDP-UNKNOWN"))
    BY <1>2, <1>3, <1>5, AlikeRpc
  <2> QED
    BY <2>1, <2>2 DEF udp_payload
<1>6. Alike(get_tcp(d), get_tcp(e))
  <2> DEFINE M(x) == add_offset(transport_ids(x, "TCP"), 4 * Size(d, 12))
             conv == find_conversation(M(d).conv, M(d).gsrc, M(d).gdst, M(d).sport, M(d).dport)
  <2>1. Size(e, 12) = Size(d, 12)
    BY AlikeRead
  <2>2. Alike(M(d), M(e))
    BY <1>1, AlikeMove
  <2>3. get_tcp(d) = tcp_payload(M(d), conv)
    BY DEF get_tcp
  <2>4. get_tcp(e) = tcp_payload(M(e), find_conversation(M(e).conv, M(e).gsrc, M(e).gdst,
                                                          M(e).sport, M(e).dport))
    BY <2>1 DEF get_tcp
  <2> HIDE DEF M
  <2>5. get_tcp(e) = tcp_payload(M(e), conv)
    BY <2>2, <2>4, AlikeRead
  <2> HIDE DEF conv
  <2> QED
    BY <1>4, <2>2, <2>3, <2>5
<1>7. Alike(get_udp(d), get_udp(e))
  BY <1>1, <1>5, AlikeMove DEF get_udp
<1> QED
  BY <1>6, <1>7

\* get_ppi: whatever entry it kept, it keeps and calls the one of the link
\* type inside, if the table has it.
LEMMA AlikePpi ==
  ASSUME NEW d, NEW e, Alike(d, e), PphKnown(d), PphKnown(e)
  PROVE  Alike(get_ppi(d), get_ppi(e))
<1> DEFINE dlt == Code(d, 4)
           entry == IF dlt \in DOMAIN linktypes THEN dlt ELSE "none"
           M(x) == [add_offset(x, Size(d, 2)) EXCEPT !.pph = entry]
           G(x) == IF d.len < 64 THEN decode_proto_add(x, "PPI") ELSE HandToLinkFun(entry, M(x))
<1>1. Code(e, 4) = dlt /\ e.len = d.len /\ Size(e, 2) = Size(d, 2)
  BY AlikeRead
<1>2. "none" \notin DOMAIN linktypes
  BY DEF linktypes
<1>3. ASSUME NEW x, PphKnown(x)
      PROVE  (IF x.pph = dlt THEN x.pph ELSE IF dlt \in DOMAIN linktypes THEN dlt ELSE "none") = entry
  BY <1>2, <1>3 DEF PphKnown
<1>4. get_ppi(d) = G(d) /\ get_ppi(e) = G(e)
  BY <1>1, <1>3 DEF get_ppi
<1> HIDE DEF dlt, entry
<1>5. Alike(add_offset(d, Size(d, 2)), add_offset(e, Size(d, 2)))
  BY AlikeMove
<1>6. Alike(M(d), M(e))
  BY <1>5 DEF Alike, Fields
<1> HIDE DEF M
<1>7. Alike(HandToLinkFun(entry, M(d)), HandToLinkFun(entry, M(e)))
  BY <1>6, AlikeHand DEF HandToLinkFun
<1> QED
  BY <1>4, <1>7, AlikeAdd

\* One more call.
LEMMA AlikeStep ==
  ASSUME NEW d, NEW e, Alike(d, e), PphKnown(d), PphKnown(e)
  PROVE  Alike(decode_step(d), decode_step(e))
<1> DEFINE D == HandTo("none", d)
           E == HandTo("none", e)
           S(x, y) == CASE d.next = "get_eth_type" -> get_eth_type(y)
                        [] d.next = "get_fddi_type" -> get_fddi_type(y)
                        [] d.next = "get_ieee802_5_type" -> get_ieee802_5_type(y)
                        [] d.next = "get_wlan" -> get_wlan(y)
                        [] d.next = "get_radiotap" -> get_radiotap(y)
                        [] d.next = "get_ppi" -> get_ppi(y)
                        [] d.next = "get_linux_sll" -> get_linux_sll(y)
                        [] d.next = "get_loop" -> get_loop(y)
                        [] d.next = "get_llc" -> get_llc(y)
                        [] d.next = "get_ipx" -> get_ipx(y)
                        [] d.next = "get_ip" -> get_ip(y)
                        [] d.next = "get_tcp" -> get_tcp(y)
                        [] d.next = "get_udp" -> get_udp(y)
                        [] OTHER -> x
<1>1. Alike(D, E) /\ PphKnown(D) /\ PphKnown(E)
  BY AlikeHand DEF HandTo, PphKnown, Alike, Fields
<1>2. d.next = e.next
  BY AlikeRead
<1>3. decode_step(d) = S(d, D) /\ decode_step(e) = S(e, E)
  BY <1>2 DEF decode_step
<1> HIDE DEF D, E
<1>4. /\ Alike(get_eth_type(D), get_eth_type(E)) /\ Alike(get_fddi_type(D), get_fddi_type(E))
      /\ Alike(get_ieee802_5_type(D), get_ieee802_5_type(E)) /\ Alike(get_wlan(D), get_wlan(E))
      /\ Alike(get_radiotap(D), get_radiotap(E)) /\ Alike(get_ppi(D), get_ppi(E))
      /\ Alike(get_linux_sll(D), get_linux_sll(E)) /\ Alike(get_loop(D), get_loop(E))
      /\ Alike(get_llc(D), get_llc(E)) /\ Alike(get_ipx(D), get_ipx(E))
      /\ Alike(get_ip(D), get_ip(E)) /\ Alike(get_tcp(D), get_tcp(E))
      /\ Alike(get_udp(D), get_udp(E))
  BY <1>1, AlikeEthernet, AlikeRing, AlikeWlan, AlikePpi, AlikeCooked, AlikeLlc, AlikeIpx,
     AlikeIp, AlikeTransport
<1>5. Alike(S(d, D), S(e, E))
  BY <1>4
<1> QED
  BY <1>3, <1>5

\* get_ppi: the entry of the table that it keeps from one packet to the next,
\* over restarts on other devices too, changes no packet's names or ids: a
\* capture that begins with no entry decodes it to the same.
THEOREM EntryNeverShows == Spec => []PpiCacheHarmless
<1>1. ModeAndEntry => PpiCacheHarmless
  <2> SUFFICES ASSUME ModeAndEntry, NEW pkt \in Frames[lt]
               PROVE  Alike(Decode(pkt, mode), get_packet_prot(pkt, lt, mode, conversations, "none"))
    BY DEF PpiCacheHarmless, Alike
  <2> DEFINE s == decode_proto_start(pkt, lt, mode, conversations, pph)
             t == decode_proto_start(pkt, lt, mode, conversations, "none")
             Both(d, e) == Stage(d, s) /\ Stage(e, t) /\ Alike(d, e)
  <2>1. Stage(HandToLinkFun(lt, s), s) /\ Stage(HandToLinkFun(lt, t), t)
    BY FirstStage DEF Stage, ModeAndEntry
  <2>2. Alike(s, t)
    BY DEF Alike, Fields, decode_proto_start
  <2> HIDE DEF s, t
  <2>3. Both(HandToLinkFun(lt, s), HandToLinkFun(lt, t))
    BY <2>1, <2>2, AlikeHand DEF HandToLinkFun
  <2>4. ASSUME NEW d, NEW e, Both(d, e)
        PROVE  Both(decode_step(d), decode_step(e))
    <3>1. \A x, dp : Stage(x, dp) => PphKnown(x)
      BY DEF Stage, OutOfLink, AtLink, AtNetwork, EndedBelow, Below, PastIp, Ended, Transport
    <3> QED
      BY <2>4, <3>1, DecodeStep, AlikeStep
  <2> HIDE DEF Both
  <2>5. Both(Call8(HandToLinkFun(lt, s)), Call8(HandToLinkFun(lt, t)))
    BY <2>3, <2>4 DEF Call2, Call4, Call8
  <2> QED
    BY <2>5, Unrolled DEF Both, Decode, s, t
<1> QED
  BY <1>1, ModeAndEntryKept, PTL

-----------------------------------------------------------------------------
(* A conversation stays as long as a link of its hosts.                    *)

\* The ids a packet may get on a device in a mode.
IdsOf(l, m, id) ==
  \E pkt \in Frames[l] : \E conv, entry :
    LET dp == get_packet_prot(pkt, l, m, conv, entry)
    IN  id \in {dp.src, dp.dst}

\* No address is read as a MAC address in one packet and as an IP address in another, on
\* the same device, nor as the zero address of no id: the two kinds of address_t differ in
\* their type and length.
KindsApart ==
  \A l \in DOMAIN Frames, m \in Modes \ {"TCP"} : \A x, y :
    IdsOf(l, m, x) /\ IdsOf(l, m, y) /\ x.addr = y.addr => x = y

\* The ends of a link are ids that packets of this capture got.
EndsDecoded ==
  /\ lt \in DOMAIN Frames
  /\ \A l \in links : \A id \in l : IdsOf(lt, mode, id)

\* packet_acquired makes links of what it decoded, restart begins without links.
LEMMA EndsDecodedKept == Spec => []EndsDecoded
<1>1. Init => EndsDecoded
  BY DEF Init, EndsDecoded
<1>2. EndsDecoded /\ [Next]_vars => EndsDecoded'
  <2> SUFFICES ASSUME EndsDecoded, [Next]_vars
               PROVE  EndsDecoded'
    OBVIOUS
  <2>1. CASE packet_acquired
    <3>1. PICK pkt \in Frames[lt] :
            /\ links' = links \cup {{Decode(pkt, mode).src, Decode(pkt, mode).dst}}
            /\ lt' = lt /\ mode' = mode
      BY <2>1 DEF packet_acquired
    <3>2. /\ IdsOf(lt, mode, Decode(pkt, mode).src)
          /\ IdsOf(lt, mode, Decode(pkt, mode).dst)
      BY DEF IdsOf, Decode
    <3>3. \A id : IdsOf(lt, mode, id) => IdsOf(lt', mode', id)
      BY <3>1
    <3> QED
      BY <3>1, <3>2, <3>3 DEF EndsDecoded
  <2>2. CASE restart
    BY <2>2 DEF restart, EndsDecoded
  <2>3. CASE \/ \E id \in DOMAIN nodes : node_update(id) \/ node_expired(id)
             \/ \E l \in links : link_delete(l)
             \/ name_resolved \/ toggle_name_res \/ UNCHANGED vars
    <3>1. lt' = lt /\ mode' = mode /\ links' \subseteq links
      BY <2>3 DEF node_update, node_expired, link_delete, name_resolved, toggle_name_res, vars
    <3>2. \A id : IdsOf(lt, mode, id) => IdsOf(lt', mode', id)
      BY <3>1
    <3> QED
      BY <3>1, <3>2 DEF EndsDecoded
  <2> QED
    BY <2>1, <2>2, <2>3 DEF Next
<1> QED
  BY <1>1, <1>2, PTL DEF Spec

(* delete_conversation_link: outside TCP mode there is one link between two
   hosts, so a link that goes takes no conversation of another link with it; and
   nothing else removes one while a link of its hosts lives. *)
THEOREM TalkOutlivesNoLink ==
  ASSUME KindsApart
  PROVE  Spec => KeptWhileLinked
<1> DEFINE Kept1 == \A i \in DOMAIN conversations :
                     LET c == conversations[i]
                     IN  mode # "TCP" /\ (\E l \in links' : Joins(l, c))
                         => \E j \in DOMAIN conversations' : conversations'[j] = c
<1>1. TalkInv /\ EndsDecoded /\ [Next]_vars => [Kept1]_vars
  <2> SUFFICES ASSUME TalkInv, EndsDecoded, [Next]_vars,
                      NEW c \in Members(conversations), mode # "TCP",
                      NEW k \in links', Joins(k, c)
               PROVE  c \in Members(conversations')
    BY DEF Members
  <2>1. CASE packet_acquired
    <3>1. PICK pkt \in Frames[lt] : conversations' = Decode(pkt, mode).conv
      BY <2>1 DEF packet_acquired
    <3> DEFINE dp == Decode(pkt, mode)
    <3>2. \/ dp.conv = conversations
          \/ \E d \in EntryOf(dp) :
               /\ dp.conv = <<d>> \o conversations
               /\ Matching(conversations, d.src, d.dst, d.sport, d.dport) = {}
      BY DecodedConversation DEF TalkInv
    <3>3. conversations' = dp.conv
      BY <3>1
    <3> HIDE DEF dp
    <3>4. ASSUME NEW d \in EntryOf(dp), dp.conv = <<d>> \o conversations,
                 Matching(conversations, d.src, d.dst, d.sport, d.dport) = {}
          PROVE  c \in Members(conversations')
      <4>1. d.dport = 0
        BY <3>4 DEF EntryOf
      <4> QED
        BY <3>3, <3>4, <4>1, Entered
    <3> QED
      BY <3>2, <3>3, <3>4
  <2>2. ASSUME NEW l \in links, link_delete(l)
        PROVE  c \in Members(conversations')
    <3>1. PICK a \in l, b \in l :
            /\ l = {a, b} /\ links' = links \ {l}
            /\ conversations' = delete_conversation_link(conversations, a.addr, b.addr)
      BY <2>2 DEF link_delete
    <3>2. Members(conversations') = {d \in Members(conversations) : ~ Fits(a.addr, b.addr, 0, 0, d)}
      BY <3>1, Deleted DEF TalkInv
    <3>3. ASSUME Fits(a.addr, b.addr, 0, 0, c)
          PROVE  FALSE
      <4>1. {a.addr, b.addr} = {c.src, c.dst}
        BY <3>3 DEF Fits
      <4>2. {id.addr : id \in k} = {a.addr, b.addr}
        BY <4>1 DEF Joins
      <4>3. k \in links /\ k # l
        BY <3>1
      <4>4. mode \in Modes \ {"TCP"} /\ lt \in DOMAIN Frames
        BY DEF TalkInv, ModeAndEntry, EndsDecoded
      <4>5. \A x \in k, y \in l : x.addr = y.addr => x = y
        BY <4>3, <4>4 DEF EndsDecoded, KindsApart
      <4>6. ASSUME NEW x \in k
            PROVE  x \in l
        <5>1. x.addr \in {a.addr, b.addr}
          BY <4>2
        <5> QED
          BY <3>1, <4>5, <5>1
      <4>7. ASSUME NEW y \in l
            PROVE  y \in k
        <5>1. y.addr \in {id.addr : id \in k}
          BY <3>1, <4>2
        <5>2. PICK x \in k : x.addr = y.addr
          BY <5>1
        <5> QED
          BY <4>5, <5>2
      <4>8. k = l
        BY <4>6, <4>7
      <4> QED
        BY <4>3, <4>8
    <3> QED
      BY <3>2, <3>3
  <2>3. CASE restart
    BY <2>3 DEF restart
  <2>4. CASE \/ \E id \in DOMAIN nodes : node_update(id) \/ node_expired(id)
             \/ name_resolved \/ toggle_name_res \/ UNCHANGED vars
    <3>1. conversations' = conversations
      BY <2>4 DEF node_update, node_expired, name_resolved, toggle_name_res, vars
    <3> QED
      BY <3>1
  <2> QED
    BY <2>1, <2>2, <2>3, <2>4 DEF Next
<1> QED
  BY <1>1, TalkInvariance, EndsDecodedKept, PTL DEF Spec, KeptWhileLinked

-----------------------------------------------------------------------------
(* The names a packet gives.                                               *)

WalkFields == {"pkt", "off", "dir", "lt", "mode", "stack", "known", "id", "af", "go", "adds"}

\* A walk over a packet that has found names at levels up to n.
Walking(nt, n) ==
  DOMAIN nt = WalkFields /\ IsSeq(nt.adds) /\ \A add \in Members(nt.adds) : add.level \in 1..n

\* The cursor moves, the walk stops, the kind of address is noted.
LEMMA WalkMove ==
  ASSUME NEW nt, NEW n, Walking(nt, n)
  PROVE  /\ Walking(Stop(nt), n)
         /\ \A k : Walking(Skip(nt, k), n)
         /\ \A af : Walking([nt EXCEPT !.af = af], n)
<1>1. ASSUME NEW x, DOMAIN x = WalkFields, x.adds = nt.adds
      PROVE  Walking(x, n)
  BY <1>1 DEF Walking
<1>2. DOMAIN nt = WalkFields
  BY DEF Walking
<1>3. Walking(Stop(nt), n)
  <2>1. DOMAIN Stop(nt) = WalkFields /\ Stop(nt).adds = nt.adds
    BY <1>2 DEF Stop, WalkFields
  <2> QED
    BY <1>1, <2>1
<1>4. ASSUME NEW k
      PROVE  Walking(Skip(nt, k), n)
  <2>1. DOMAIN Skip(nt, k) = WalkFields /\ Skip(nt, k).adds = nt.adds
    BY <1>2 DEF Skip, WalkFields
  <2> QED
    BY <1>1, <2>1
<1>5. ASSUME NEW af
      PROVE  Walking([nt EXCEPT !.af = af], n)
  <2> DEFINE x == [nt EXCEPT !.af = af]
  <2>1. DOMAIN x = WalkFields /\ x.adds = nt.adds
    BY <1>2 DEF WalkFields
  <2> HIDE DEF x
  <2>2. Walking(x, n)
    BY <1>1, <2>1
  <2> QED
    BY <2>2 DEF x
<1> QED
  BY <1>3, <1>4, <1>5

\* A name is found.
LEMMA WalkAdd ==
  ASSUME NEW nt, NEW n, Walking(nt, n), NEW level \in 1..n, NEW id, NEW num, NEW res
  PROVE  Walking(add_name(nt, level, id, num, res), n)
<1> DEFINE add == [level |-> level, prot |-> nt.stack[level], id |-> id, num |-> num, res |-> res]
           x == add_name(nt, level, id, num, res)
<1>1. DOMAIN x = WalkFields /\ x.adds = Append(nt.adds, add)
  BY DEF add_name, Walking, WalkFields
<1>2. add.level = level
  OBVIOUS
<1> HIDE DEF x, add
<1>3. IsSeq(x.adds) /\ Members(x.adds) = Members(nt.adds) \cup {add}
  BY <1>1, AppendMember DEF Walking
<1>4. Walking(x, n)
  BY <1>1, <1>2, <1>3 DEF Walking
<1> QED
  BY <1>4 DEF x

\* Each name decoder takes the walk on, at its own level.
LEMMA WalkOn ==
  ASSUME NEW nt, NEW n, Walking(nt, n), NEW level \in 1..n
  PROVE  Walking(decode_next(nt, level), n)
<1>1. ASSUME NEW x, Walking(x, n)
      PROVE  /\ Walking(Stop(x), n)
             /\ \A k : Walking(Skip(x, k), n)
             /\ \A af : Walking([x EXCEPT !.af = af], n)
  BY <1>1, WalkMove
<1>2. ASSUME NEW id, NEW num, NEW res
      PROVE  Walking(add_name(nt, level, id, num, res), n)
  BY WalkAdd
<1>3. Walking(eth_name_common(nt, level), n)
  BY <1>1, <1>2 DEF eth_name_common
<1>4. Walking(get_llc_name(nt), n)
  BY <1>1 DEF get_llc_name
<1>5. Walking(get_arp_name(nt, level), n)
  BY <1>1, <1>2 DEF get_arp_name
<1>6. Walking(get_ip_name(nt, level), n)
  BY <1>1, <1>2 DEF get_ip_name
<1>7. Walking(get_ipv6_name(nt, level), n)
  BY <1>1, <1>2 DEF get_ipv6_name
<1>8. Walking(get_tcp_name(nt, level), n)
  BY <1>1, <1>2 DEF get_tcp_name
<1>9. Walking(get_ipxsap_name(nt, level), n)
  BY <1>1, <1>2 DEF get_ipxsap_name
<1>10. Walking(get_nbss_name(nt, level), n)
  BY <1>1, <1>2 DEF get_nbss_name
<1>11. Walking(get_nbdgm_name(nt, level), n)
  BY <1>1, <1>2 DEF get_nbdgm_name
<1>12. Walking(Skip(nt, 4), n) /\ Walking(Skip(nt, 16), n) /\ Walking(Skip(nt, 30), n)
       /\ Walking(Skip(nt, 8), n)
  BY <1>1
<1>13. ASSUME nt.stack[level] \in Named
       PROVE  Walking(name_function(nt, level), n)
  <2>1. name_function(nt, level) \in
          {eth_name_common(nt, level), Skip(nt, 4), Skip(nt, 16), get_llc_name(nt),
           get_arp_name(nt, level), get_ip_name(nt, level), get_ipv6_name(nt, level),
           Skip(nt, 30), get_tcp_name(nt, level), Skip(nt, 8), get_ipxsap_name(nt, level),
           get_nbss_name(nt, level), get_nbdgm_name(nt, level)}
    BY <1>13 DEF name_function, Named
  <2> QED
    BY <1>3, <1>4, <1>5, <1>6, <1>7, <1>8, <1>9, <1>10, <1>11, <1>12, <2>1
<1> QED
  BY <1>1, <1>13 DEF decode_next

\* What holds at 0 and, whenever at a number, at the next, holds up to n.
LEMMA UpTo ==
  ASSUME NEW n \in Nat, NEW S, 0 \in S, \A i \in 1..n : i - 1 \in S => i \in S
  PROVE  \A i \in 0..n : i \in S
<1> DEFINE Bad == (0..n) \ S
<1>1. Bad = {}
  <2> SUFFICES ASSUME Bad # {}
               PROVE  FALSE
    OBVIOUS
  <2>1. Bad \subseteq Nat
    OBVIOUS
  <2> HIDE DEF Bad
  <2>2. PICK k \in Bad : \A j \in Bad : ~ (<<j, k>> \in OpToRel(<, Nat))
    BY ONLY <2>1, Bad # {}, NatLessThanWellFounded, WFMin
  <2>3. \A j \in Bad : ~ (j < k)
    BY <2>1, <2>2 DEF OpToRel
  <2>4. k \in 0..n /\ k \notin S /\ k # 0
    BY <2>2 DEF Bad
  <2>5. k \in 1..n /\ k - 1 \in 0..n /\ k - 1 < k /\ k \notin S
    BY ONLY n \in Nat, <2>4
  <2>6. k - 1 \in S
    BY <2>3, <2>5 DEF Bad
  <2> QED
    BY <2>5, <2>6
<1> QED
  BY <1>1

\* The walk of get_packet_names over the first m protocols of the stack.
IsNameWalk(f, start, m) ==
  f = [n \in 0..m |-> IF n = 0 THEN start ELSE decode_next(f[n - 1], n)]

\* It exists, each protocol in turn.
LEMMA NameWalkExists ==
  ASSUME NEW start, NEW m \in Nat
  PROVE  \E f : IsNameWalk(f, start, m)
<1> DEFINE S == {k \in 0..m : \E f : IsNameWalk(f, start, k)}
<1>1. 0 \in S
  <2> DEFINE g == [n \in 0..0 |-> start]
  <2>1. g = [n \in 0..0 |-> IF n = 0 THEN start ELSE decode_next(g[n - 1], n)]
    OBVIOUS
  <2> HIDE DEF g
  <2>2. IsNameWalk(g, start, 0)
    BY <2>1 DEF IsNameWalk
  <2> QED
    BY <2>2
<1>2. ASSUME NEW k \in 1..m, k - 1 \in S
      PROVE  k \in S
  <2>1. PICK f : IsNameWalk(f, start, k - 1)
    BY <1>2
  <2>2. \A n \in 0..k - 1 : f[n] = IF n = 0 THEN start ELSE decode_next(f[n - 1], n)
    <3> DEFINE G(n) == IF n = 0 THEN start ELSE decode_next(f[n - 1], n)
    <3>1. f = [n \in 0..k - 1 |-> G(n)]
      BY <2>1 DEF IsNameWalk
    <3> HIDE DEF G
    <3>2. \A n \in 0..k - 1 : f[n] = G(n)
      BY <3>1
    <3> QED
      BY <3>2 DEF G
  <2> DEFINE g == [n \in 0..k |-> IF n = k THEN decode_next(f[k - 1], k) ELSE f[n]]
  <2>3. ASSUME NEW n \in 0..k
        PROVE  g[n] = IF n = 0 THEN start ELSE decode_next(g[n - 1], n)
    <3>1. CASE n = k
      <4>1. k - 1 \in 0..k /\ k - 1 # k /\ k # 0
        OBVIOUS
      <4>2. g[n] = decode_next(f[k - 1], k) /\ g[k - 1] = f[k - 1]
        BY <3>1, <4>1
      <4> QED
        BY <3>1, <4>1, <4>2
    <3>2. CASE n # k
      <4>1. n \in 0..k - 1 /\ g[n] = f[n]
        BY <3>2
      <4>2. n # 0 => n - 1 \in 0..k /\ n - 1 # k
        BY <4>1
      <4>3. n # 0 => g[n - 1] = f[n - 1]
        BY <4>2
      <4> QED
        BY <2>2, <4>1, <4>3
    <3> QED
      BY <3>1, <3>2
  <2>4. g = [n \in 0..k |-> g[n]]
    OBVIOUS
  <2> HIDE DEF g
  <2>5. g = [n \in 0..k |-> IF n = 0 THEN start ELSE decode_next(g[n - 1], n)]
    BY <2>3, <2>4
  <2>6. IsNameWalk(g, start, k)
    BY <2>5 DEF IsNameWalk
  <2> QED
    BY <2>6
<1> HIDE DEF S
<1>3. \A k \in 0..m : k \in S
  BY <1>1, <1>2, UpTo
<1>4. m \in S
  BY <1>3
<1> QED
  BY <1>4 DEF S

\* get_packet_names finds names at the levels of the packet's protocols.
LEMMA NamesFound ==
  ASSUME NEW pkt, NEW dp, IsDp(dp), NEW dir, NEW l, NEW addrs
  PROVE  LET adds == get_packet_names(pkt, dp, dir, l, addrs)
         IN  IsSeq(adds) /\ \A add \in Members(adds) : add.level \in 1..STACK_SIZE
<1> DEFINE m == Len(dp.stack)
           start == StartWalk(pkt, dp, dir, l, addrs)
           P(f) == IsNameWalk(f, start, m)
           walk == CHOOSE f : P(f)
<1>1. m \in Nat /\ m <= STACK_SIZE
  BY AppendMember DEF IsDp
<1>2. P(walk)
  <2>1. \E f : P(f)
    BY <1>1, NameWalkExists
  <2> HIDE DEF P
  <2> QED
    BY <2>1, Zenon
<1>3. get_packet_names(pkt, dp, dir, l, addrs) = walk[m].adds
  BY DEF get_packet_names, IsNameWalk
<1>4. Walking(start, m)
  <2>1. DOMAIN start = WalkFields /\ start.adds = <<>>
    BY DEF StartWalk, WalkFields
  <2>2. IsSeq(<<>>) /\ Members(<<>>) = {}
    BY DEF IsSeq, Members
  <2> QED
    BY <2>1, <2>2 DEF Walking
<1> HIDE DEF walk, start, m
<1>5. walk = [n \in 0..m |-> IF n = 0 THEN start ELSE decode_next(walk[n - 1], n)]
  BY <1>2 DEF IsNameWalk
<1>6. walk[0] = start /\ \A n \in 1..m : walk[n] = decode_next(walk[n - 1], n)
  BY <1>1, <1>5
<1> DEFINE S == {n \in 0..m : Walking(walk[n], m)}
<1>7. 0 \in S
  BY <1>1, <1>4, <1>6
<1>8. ASSUME NEW n \in 1..m, n - 1 \in S
      PROVE  n \in S
  <2>1. Walking(walk[n - 1], m)
    BY <1>8
  <2>2. Walking(walk[n], m)
    BY <1>6, <2>1, WalkOn
  <2> QED
    BY <1>1, <2>2
<1> HIDE DEF S
<1>9. \A n \in 0..m : n \in S
  BY <1>1, <1>7, <1>8, UpTo
<1>10. Walking(walk[m], m)
  BY <1>1, <1>9 DEF S
<1>11. 1..m \subseteq 1..STACK_SIZE
  BY <1>1 DEF STACK_SIZE
<1> QED
  BY <1>3, <1>10, <1>11 DEF Walking

-----------------------------------------------------------------------------
(* The names a node keeps.                                                 *)

NodeFields == {"names", "name", "numeric"}

\* A node whose lists of names are at levels of the stack and not empty.
NodeTyped(node) ==
  /\ DOMAIN node = NodeFields
  /\ \A key \in DOMAIN node.names :
       key[1] \in 1..STACK_SIZE /\ IsSeq(node.names[key]) /\ node.names[key] # <<>>

\* A list that is written over, entry by entry, is as long as before.
LEMMA Rewritten ==
  ASSUME NEW list, IsSeq(list), NEW new, DOMAIN new = DOMAIN list, new = [i \in DOMAIN new |-> new[i]]
  PROVE  IsSeq(new) /\ (list # <<>> => new # <<>>)
<1>1. DOMAIN list = 1..Len(list) /\ Len(list) \in Nat
  BY DEF IsSeq
<1>2. \A i \in 1..Len(list) : new[i] \in Members(new)
  BY <1>1 DEF Members
<1>3. new \in [1..Len(list) -> Members(new)]
  BY <1>1, <1>2
<1>4. new \in Seq(Members(new))
  BY <1>1, <1>3
<1>5. list # <<>> => DOMAIN list # {}
  <2>1. list \in Seq(Members(list))
    BY DEF IsSeq
  <2>2. Len(list) = 0 <=> list = <<>>
    BY <2>1
  <2> QED
    BY <1>1, <2>2
<1>6. DOMAIN <<>> = {}
  OBVIOUS
<1> QED
  BY <1>4, <1>5, <1>6 DEF IsSeq

\* A name is entered in the list of its protocol.
LEMMA StoreTyped ==
  ASSUME NEW node, NodeTyped(node), NEW add, add.level \in 1..STACK_SIZE, NEW resolve, NEW size
  PROVE  NodeTyped(store_name(node, add, resolve, size))
<1> DEFINE key == <<add.level, add.prot>>
           list == At(node.names, key, <<>>)
           same == {i \in DOMAIN list : list[i].id = add.id}
           res == IF resolve THEN add.res ELSE NoName
           fresh == [id |-> add.id, num |-> add.num, res |-> NoName, acc |-> 0]
           front == <<node_name_assign(fresh, add.num, res, size)>> \o list
           over == [i \in DOMAIN list |-> IF i \in same
                                          THEN node_name_assign(list[i], add.num, res, size)
                                          ELSE list[i]]
           new == IF same = {} THEN front ELSE over
           x == store_name(node, add, resolve, size)
<1>1. DOMAIN x = NodeFields /\ x.names = Put(node.names, key, new)
  BY DEF store_name, NodeTyped, NodeFields
<1>2. key[1] \in 1..STACK_SIZE
  OBVIOUS
<1>3. IsSeq(list)
  <2>1. IsSeq(<<>>)
    BY DEF IsSeq, Members
  <2> QED
    BY <2>1 DEF At, NodeTyped
<1>4. same # {} => list # <<>>
  OBVIOUS
<1>5. IsSeq(new) /\ new # <<>>
  <2>1. CASE same = {}
    <3> DEFINE c == node_name_assign(fresh, add.num, res, size)
    <3>1. new = <<c>> \o list
      BY <2>1
    <3> HIDE DEF c, new, list
    <3>2. IsSeq(new) /\ Members(new) = Members(list) \cup {c}
      BY <1>3, <3>1, Prepended
    <3>3. Members(<<>>) = {}
      BY DEF Members
    <3> QED
      BY <3>2, <3>3
  <2>2. CASE same # {}
    <3>1. new = over /\ DOMAIN over = DOMAIN list /\ over = [i \in DOMAIN over |-> over[i]]
      BY <2>2
    <3> HIDE DEF new, over, list
    <3> QED
      BY <1>3, <1>4, <2>2, <3>1, Rewritten
  <2> QED
    BY <2>1, <2>2
<1> DEFINE before == node.names
<1> HIDE DEF key, new, x
<1>6. /\ DOMAIN x.names = (DOMAIN before) \cup {key} /\ x.names[key] = new
      /\ \A k \in DOMAIN before : k # key => x.names[k] = before[k]
  <2> DEFINE after == x.names
  <2>1. after = Put(before, key, new)
    BY <1>1
  <2> HIDE DEF before, after
  <2>2. /\ DOMAIN after = (DOMAIN before) \cup {key} /\ after[key] = new
        /\ \A k \in DOMAIN before : k # key => after[k] = before[k]
    BY <2>1 DEF Put
  <2> QED
    BY <2>2 DEF after
<1>7. NodeTyped(x)
  BY <1>1, <1>2, <1>5, <1>6 DEF NodeTyped
<1> QED
  BY <1>7 DEF x

\* The loop of store_names over the first m names.
IsStoring(f, node, adds, resolve, size, m) ==
  f = [n \in 0..m |-> IF n = 0 THEN node ELSE store_name(f[n - 1], adds[n], resolve, size)]

\* It exists, each name in turn.
LEMMA StoringExists ==
  ASSUME NEW node, NEW adds, NEW resolve, NEW size, NEW m \in Nat
  PROVE  \E f : IsStoring(f, node, adds, resolve, size, m)
<1> DEFINE Next1(n, r) == store_name(r, adds[n], resolve, size)
           Storing(f, k) == IsStoring(f, node, adds, resolve, size, k)
           S == {k \in 0..m : \E f : Storing(f, k)}
<1>0. \A f, k : Storing(f, k) <=> f = [n \in 0..k |-> IF n = 0 THEN node ELSE Next1(n, f[n - 1])]
  BY DEF IsStoring
<1> HIDE DEF Next1, Storing
<1>1. 0 \in S
  <2> DEFINE g == [n \in 0..0 |-> node]
  <2>1. g = [n \in 0..0 |-> IF n = 0 THEN node ELSE Next1(n, g[n - 1])]
    OBVIOUS
  <2> HIDE DEF g
  <2>2. Storing(g, 0)
    BY <1>0, <2>1
  <2> QED
    BY <2>2
<1>2. ASSUME NEW k \in 1..m, k - 1 \in S
      PROVE  k \in S
  <2>1. PICK f : Storing(f, k - 1)
    BY <1>2
  <2>2. \A n \in 0..k - 1 : f[n] = IF n = 0 THEN node ELSE Next1(n, f[n - 1])
    <3> DEFINE G(n) == IF n = 0 THEN node ELSE Next1(n, f[n - 1])
    <3>1. f = [n \in 0..k - 1 |-> G(n)]
      BY <1>0, <2>1
    <3> HIDE DEF G
    <3>2. \A n \in 0..k - 1 : f[n] = G(n)
      BY <3>1
    <3> QED
      BY <3>2 DEF G
  <2> DEFINE g == [n \in 0..k |-> IF n = k THEN Next1(k, f[k - 1]) ELSE f[n]]
  <2>3. ASSUME NEW n \in 0..k
        PROVE  g[n] = IF n = 0 THEN node ELSE Next1(n, g[n - 1])
    <3>1. CASE n = k
      <4>1. k - 1 \in 0..k /\ k - 1 # k /\ k # 0
        OBVIOUS
      <4>2. g[n] = Next1(k, f[k - 1]) /\ g[k - 1] = f[k - 1]
        BY <3>1, <4>1
      <4> QED
        BY <3>1, <4>1, <4>2
    <3>2. CASE n # k
      <4>1. n \in 0..k - 1 /\ g[n] = f[n]
        BY <3>2
      <4>2. n # 0 => n - 1 \in 0..k /\ n - 1 # k
        BY <4>1
      <4>3. n # 0 => g[n - 1] = f[n - 1]
        BY <4>2
      <4> QED
        BY <2>2, <4>1, <4>3
    <3> QED
      BY <3>1, <3>2
  <2>4. g = [n \in 0..k |-> g[n]]
    OBVIOUS
  <2> HIDE DEF g
  <2>5. Storing(g, k)
    BY <1>0, <2>3, <2>4
  <2> QED
    BY <2>5
<1> HIDE DEF S
<1>3. \A k \in 0..m : k \in S
  BY <1>1, <1>2, UpTo
<1>4. m \in S
  BY <1>3
<1> QED
  BY <1>4 DEF S, Storing

\* store_names keeps a node typed.
LEMMA StoredTyped ==
  ASSUME NEW node, NodeTyped(node), NEW adds, IsSeq(adds),
         \A add \in Members(adds) : add.level \in 1..STACK_SIZE, NEW resolve, NEW size
  PROVE  NodeTyped(store_names(node, adds, resolve, size))
<1> DEFINE m == Len(adds)
           P(f) == IsStoring(f, node, adds, resolve, size, m)
           stored == CHOOSE f : P(f)
           Next1(n, r) == store_name(r, adds[n], resolve, size)
<1>1. m \in Nat /\ \A n \in 1..m : adds[n] \in Members(adds)
  BY DEF IsSeq
<1>2. P(stored)
  <2>1. \E f : P(f)
    BY <1>1, StoringExists
  <2> HIDE DEF P
  <2> QED
    BY <2>1, Zenon
<1>3. store_names(node, adds, resolve, size) = stored[m]
  BY DEF store_names, IsStoring
<1>4. \A n \in 1..m : \A r : NodeTyped(r) => NodeTyped(Next1(n, r))
  BY <1>1, StoreTyped
<1> HIDE DEF stored, m
<1>5. stored = [n \in 0..m |-> IF n = 0 THEN node ELSE Next1(n, stored[n - 1])]
  BY <1>2 DEF IsStoring
<1> HIDE DEF Next1
<1>6. stored[0] = node /\ \A n \in 1..m : stored[n] = Next1(n, stored[n - 1])
  BY <1>1, <1>5
<1> DEFINE S == {n \in 0..m : NodeTyped(stored[n])}
<1>7. 0 \in S
  BY <1>1, <1>6
<1>8. ASSUME NEW n \in 1..m, n - 1 \in S
      PROVE  n \in S
  <2>1. NodeTyped(stored[n])
    BY <1>4, <1>6, <1>8
  <2> QED
    BY <1>1, <2>1
<1> HIDE DEF S
<1>9. \A n \in 0..m : n \in S
  BY <1>1, <1>7, <1>8, UpTo
<1> QED
  BY <1>1, <1>3, <1>9 DEF S

\* node_name_update sorts the lists and chooses the name to show.
LEMMA UpdatedTyped ==
  ASSUME NEW node, NodeTyped(node), NEW m, NEW resolve
  PROVE  NodeTyped(node_name_update(node, m, resolve))
<1> DEFINE sorted == [node EXCEPT !.names = [k \in DOMAIN @ |-> node_name_freq_sort(@[k])]]
           x == node_name_update(node, m, resolve)
<1>1. /\ DOMAIN sorted = NodeFields
      /\ sorted.names = [k \in DOMAIN node.names |-> node_name_freq_sort(node.names[k])]
  BY DEF NodeTyped, NodeFields
<1>2. x = set_node_name(sorted, name_sequence(m), resolve)
  BY DEF node_name_update
<1> HIDE DEF sorted, x
<1>3. ASSUME NEW list, IsSeq(list), list # <<>>
      PROVE  IsSeq(node_name_freq_sort(list)) /\ node_name_freq_sort(list) # <<>>
  <2> DEFINE new == node_name_freq_sort(list)
  <2>1. DOMAIN new = DOMAIN list /\ new = [i \in DOMAIN new |-> new[i]]
    BY DEF node_name_freq_sort
  <2> HIDE DEF new
  <2>2. IsSeq(new) /\ new # <<>>
    BY <1>3, <2>1, Rewritten
  <2> QED
    BY <2>2 DEF new
<1>4. NodeTyped(sorted)
  BY <1>1, <1>3 DEF NodeTyped
<1>5. DOMAIN x = NodeFields /\ x.names = sorted.names
  BY <1>1, <1>2 DEF set_node_name, NodeFields
<1>6. NodeTyped(x)
  BY <1>4, <1>5 DEF NodeTyped
<1> QED
  BY <1>6 DEF x

NodesTyped(ns) == \A id \in DOMAIN ns : NodeTyped(ns[id])

\* A new node has no names.
LEMMA CreatedTyped ==
  ASSUME NEW id
  PROVE  NodeTyped(node_create(id))
BY DEF node_create, NodeTyped, NodeFields

\* add_node_packet, for names at the levels of the stack.
LEMMA AddedTyped ==
  ASSUME NEW ns, NodesTyped(ns), NEW id, NEW adds, IsSeq(adds),
         \A add \in Members(adds) : add.level \in 1..STACK_SIZE, NEW size
  PROVE  NodesTyped(add_node_packet(ns, id, adds, size))
<1> DEFINE old == IF id \in DOMAIN ns THEN ns[id] ELSE node_create(id)
           node == store_names(old, adds, name_res, size)
           after == add_node_packet(ns, id, adds, size)
<1>1. NodeTyped(old)
  BY CreatedTyped DEF NodesTyped
<1>2. after = Put(ns, id, node)
  BY DEF add_node_packet
<1> HIDE DEF old, after
<1>3. NodeTyped(node)
  BY <1>1, StoredTyped
<1> HIDE DEF node
<1>4. DOMAIN after = (DOMAIN ns) \cup {id} /\ after[id] = node
  BY <1>2 DEF Put
<1>5. \A x \in DOMAIN ns : x # id => after[x] = ns[x]
  BY <1>2 DEF Put
<1>6. NodesTyped(after)
  BY <1>3, <1>4, <1>5 DEF NodesTyped
<1> QED
  BY <1>6 DEF after

\* The ids of a packet, alike or not, make a link.
LEMMA OneOrTwo ==
  ASSUME NEW a, NEW b
  PROVE  Cardinality({a, b}) \in 1..2
<1>1. IsFiniteSet({a}) /\ Cardinality({a}) = 1
  BY FS_Singleton
<1>2. {a, b} = {a} \cup {b}
  OBVIOUS
<1>3. Cardinality({a} \cup {b}) \in {1, 2}
  BY <1>1, FS_AddElement
<1> QED
  BY <1>2, <1>3

\* What the decoders leave can be walked by get_packet_names.
LEMMA DecodedWalks ==
  ASSUME ModeAndEntry, NEW pkt
  PROVE  IsDp(Decode(pkt, mode))
<1>1. PICK start : Stage(Decode(pkt, mode), start)
  BY DecodedStage DEF ModeAndEntry
<1> DEFINE dp == Decode(pkt, mode)
<1> HIDE DEF dp
<1>2. Stage(dp, start)
  BY <1>1 DEF dp
<1>3. IsDp(dp)
  BY <1>2 DEF Stage, OutOfLink, AtLink, AtNetwork, Below, EndedBelow, PastIp, Ended, Transport, Kept
<1> QED
  BY <1>3 DEF dp

-----------------------------------------------------------------------------
(* Type correctness.                                                       *)

\* What TypeOK says beyond ModeAndEntry, TalkInv and LinksRead.
PacketTypes ==
  /\ mode = "LINK6" => has_linklevel(lt)
  /\ Members(conversations) \subseteq Talk!Conversation
  /\ NodesTyped(nodes)
  /\ \A l \in links : Cardinality(l) \in 1..2
  /\ name_res \in BOOLEAN /\ known \subseteq Resolvable /\ count \in 0..MaxPackets

\* Every action of Packets keeps it.
LEMMA PacketTypesKept ==
  ASSUME EveryPacketFits
  PROVE  Spec => []PacketTypes
<1>1. Init => PacketTypes
  <2> SUFFICES ASSUME Init
               PROVE  PacketTypes
    OBVIOUS
  <2>1. Members(conversations) = {} /\ NodesTyped(nodes)
    BY DEF Init, Members, NodesTyped
  <2>2. 0 \in 0..MaxPackets
    BY PacketsAssumption
  <2> QED
    BY <2>1, <2>2 DEF Init, PacketTypes
<1>2. TalkInv /\ LinksRead /\ PacketTypes /\ [Next]_vars => PacketTypes'
  <2> SUFFICES ASSUME TalkInv, LinksRead, PacketTypes, [Next]_vars
               PROVE  PacketTypes'
    OBVIOUS
  <2>1. CASE packet_acquired
    <3>1. count' \in 0..MaxPackets
      BY <2>1, PacketsAssumption DEF packet_acquired, PacketTypes
    <3>2. PICK pkt \in Frames[lt] :
            LET dp == Decode(pkt, mode)
                sent == add_node_packet(nodes, dp.src, FoundNames(pkt, dp, "out"), pkt.len)
            IN  /\ nodes' = add_node_packet(sent, dp.dst, FoundNames(pkt, dp, "in"), pkt.len)
                /\ links' = links \cup {{dp.src, dp.dst}}
                /\ conversations' = dp.conv
      BY <2>1 DEF packet_acquired
    <3> DEFINE dp == Decode(pkt, mode)
               out == FoundNames(pkt, dp, "out")
               in == FoundNames(pkt, dp, "in")
               sent == add_node_packet(nodes, dp.src, out, pkt.len)
    <3>3. /\ nodes' = add_node_packet(sent, dp.dst, in, pkt.len)
          /\ links' = links \cup {{dp.src, dp.dst}} /\ conversations' = dp.conv
      BY <3>2
    <3>4. IsDp(dp) /\ Read(dp) /\ dp.pkt = pkt
      BY DecodedWalks, DecodedConversation DEF TalkInv
    <3>5. Members(dp.conv) \subseteq Talk!Conversation
      <4>1. CASE dp.conv = conversations
        BY <4>1 DEF PacketTypes
      <4>2. ASSUME NEW c \in EntryOf(dp), dp.conv = <<c>> \o conversations
            PROVE  Members(dp.conv) \subseteq Talk!Conversation
        <5> HIDE DEF dp
        <5>1. c \in Talk!Conversation
          BY <3>4, EntryTyped
        <5> DEFINE new == <<c>> \o conversations
        <5>2. Members(new) = Members(conversations) \cup {c}
          BY Prepended DEF TalkInv
        <5> HIDE DEF new
        <5>3. dp.conv = new
          BY <4>2 DEF new
        <5> QED
          BY <5>1, <5>2, <5>3 DEF PacketTypes
      <4> QED
        BY <4>1, <4>2, DecodedConversation DEF TalkInv
    <3> HIDE DEF dp
    <3>6. /\ IsSeq(out) /\ \A add \in Members(out) : add.level \in 1..STACK_SIZE
          /\ IsSeq(in) /\ \A add \in Members(in) : add.level \in 1..STACK_SIZE
      BY <3>4, NamesFound DEF FoundNames
    <3> HIDE DEF out, in
    <3>7. NodesTyped(sent)
      BY <3>6, AddedTyped DEF PacketTypes
    <3> HIDE DEF sent
    <3>8. NodesTyped(nodes')
      BY <3>3, <3>6, <3>7, AddedTyped
    <3>9. \A l \in links' : Cardinality(l) \in 1..2
      BY <3>3, OneOrTwo DEF PacketTypes
    <3> QED
      BY <2>1, <3>1, <3>3, <3>5, <3>8, <3>9 DEF packet_acquired, PacketTypes
  <2>2. ASSUME NEW id \in DOMAIN nodes, node_update(id)
        PROVE  PacketTypes'
    <3>1. PICK gone : LET kept == [nodes[id] EXCEPT !.names = [k \in (DOMAIN @) \ gone |-> @[k]]]
                      IN  nodes' = [nodes EXCEPT ![id] = node_name_update(kept, mode, name_res)]
      BY <2>2 DEF node_update
    <3> DEFINE node == nodes[id]
               kept == [node EXCEPT !.names = [k \in (DOMAIN @) \ gone |-> @[k]]]
               new == node_name_update(kept, mode, name_res)
    <3>2. nodes' = [nodes EXCEPT ![id] = new]
      BY <3>1
    <3>3. NodeTyped(node)
      BY DEF PacketTypes, NodesTyped
    <3> HIDE DEF node
    <3>4. /\ DOMAIN kept = NodeFields
          /\ kept.names = [k \in (DOMAIN node.names) \ gone |-> node.names[k]]
      BY <3>3 DEF NodeTyped, NodeFields
    <3> HIDE DEF kept
    <3>5. NodeTyped(kept)
      BY <3>3, <3>4 DEF NodeTyped
    <3>6. NodeTyped(new)
      BY <3>5, UpdatedTyped
    <3> HIDE DEF new
    <3>7. NodesTyped(nodes')
      BY <3>2, <3>6 DEF PacketTypes, NodesTyped
    <3> QED
      BY <2>2, <3>7 DEF node_update, PacketTypes
  <2>3. ASSUME NEW id \in DOMAIN nodes, node_expired(id)
        PROVE  PacketTypes'
    BY <2>3 DEF node_expired, PacketTypes, NodesTyped
  <2>4. ASSUME NEW l \in links, link_delete(l)
        PROVE  PacketTypes'
    <3>1. PICK a, b : conversations' = delete_conversation_link(conversations, a.addr, b.addr)
      BY <2>4 DEF link_delete
    <3>2. Members(conversations') \subseteq Members(conversations)
      BY <3>1, Deleted DEF TalkInv
    <3> QED
      BY <2>4, <3>2 DEF link_delete, PacketTypes
  <2>5. CASE restart
    <3>1. Members(<<>>) = {} /\ NodesTyped(<<>>)
      BY DEF Members, NodesTyped
    <3> QED
      BY <2>5, <3>1 DEF restart, PacketTypes
  <2>6. CASE name_resolved \/ toggle_name_res \/ UNCHANGED vars
    BY <2>6 DEF name_resolved, toggle_name_res, vars, PacketTypes
  <2> QED
    BY <2>1, <2>2, <2>3, <2>4, <2>5, <2>6 DEF Next
<1> QED
  BY <1>1, <1>2, TalkInvariance, LinksReadKept, PTL DEF Spec

(* packet_acquired, node_update, link_delete and a new start: conversations are
   made of what packets hold, the names of a node are under places of the
   protocol stack and no list of names is left empty (node_name_assign and
   protocol expiry), and a link joins one or two ids. *)
THEOREM PacketsTyped ==
  ASSUME EveryPacketFits
  PROVE  Spec => []TypeOK
<1>1. ModeAndEntry /\ LinksRead /\ PacketTypes => TypeOK
  <2> SUFFICES ASSUME ModeAndEntry, LinksRead, PacketTypes
               PROVE  TypeOK
    OBVIOUS
  <2>1. \A i \in DOMAIN conversations : conversations[i] \in Talk!Conversation
    BY DEF Members, PacketTypes
  <2> QED
    BY <2>1 DEF TypeOK, ModeAndEntry, LinksRead, PacketTypes, NodesTyped, NodeTyped, Talk!Conversation
<1> QED
  BY <1>1, ModeAndEntryKept, LinksReadKept, PacketTypesKept, PTL
=============================================================================
