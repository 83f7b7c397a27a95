------------------------------ MODULE Decoder ------------------------------
(***************************************************************************)
(* The protocol decoders (decode_proto.c).  A decoder takes the record dp  *)
(* of a packet under way and returns it with the cursor moved, names added *)
(* to the protocol stack, node ids filled and, for FTP and RPC, a          *)
(* conversation added.  The decoder of the next layer is called last; next *)
(* names it, and decode_step calls it.                                     *)
(*                                                                         *)
(* A captured packet is its length and the fields at their byte offsets:   *)
(* code holds addresses and type fields by name, num ports and other       *)
(* numbers, size the lengths of headers.  Offsets and lengths are those of *)
(* the code, for they are what the decoders and the name decoders (module  *)
(* Names) must agree on.                                                   *)
(***************************************************************************)
EXTENDS ConversationList, Integers, FiniteSets, TLC

CONSTANTS
  TcpServices, UdpServices, \* known ports: [port -> [name, preferred]]
  group_unk                 \* preference: one label for all unknown ports

STACK_SIZE == 5

Zero == "zero address"
Other == "other bytes"      \* a field read where the packet has none
OtherNum == 99              \* the same for numbers; not a wildcard

NoId == [type |-> "none", addr |-> Zero, port |-> 0]
Id(type, addr) == [type |-> type, addr |-> addr, port |-> 0]

\* l2_idtype of each link type: has it addresses of its own?
linktypes ==
  [EN10MB |-> "LINK6", FDDI |-> "LINK6", IEEE802 |-> "LINK6", WLAN |-> "LINK6",
   RADIOTAP |-> "LINK6", PPI |-> "LINK6", RAW |-> "IP", SLL |-> "IP", NULL |-> "IP", LOOP |-> "IP"]

has_linklevel(lt) == linktypes[lt] = "LINK6"

decode_proto_start(pkt, lt, mode, conv, pph) ==
  [pkt |-> pkt, lkentry |-> lt, pos |-> 0, len |-> pkt.len, stack |-> <<>>, src |-> NoId, dst |-> NoId,
   gsrc |-> Zero, gdst |-> Zero, sport |-> 0, dport |-> 0,
   conv |-> conv, pph |-> pph, mode |-> mode, ok |-> TRUE, next |-> "none"]

HandTo(decoder, dp) == [dp EXCEPT !.next = decoder]

At(field, o, default) == IF o \in DOMAIN field THEN field[o] ELSE default
Code(dp, k) == At(dp.pkt.code, dp.pos + k, Other)
Num(dp, k) == At(dp.pkt.num, dp.pos + k, OtherNum)
Size(dp, k) == At(dp.pkt.size, dp.pos + k, OtherNum)

\* A sixth protocol is ignored.
decode_proto_add(dp, name) ==
  IF Len(dp.stack) < STACK_SIZE THEN [dp EXCEPT !.stack = Append(@, name)] ELSE dp

\* Past the end of the packet the cursor stays where it is.
add_offset(dp, offset) ==
  IF dp.len < offset THEN [dp EXCEPT !.len = 0]
  ELSE [dp EXCEPT !.pos = @ + offset, !.len = @ - offset]

LinkIds(dp, d, s) ==
  [dp EXCEPT !.dst = Id("LINK6", Code(dp, d)), !.src = Id("LINK6", Code(dp, s))]

-----------------------------------------------------------------------------
(* Above TCP and UDP *)

choose_port(a, b) ==
  CASE a < 1024 /\ b >= 1024 -> a
    [] a >= 1024 /\ b < 1024 -> b
    [] OTHER -> IF a <= b THEN a ELSE b

\* The tail of get_tcp and get_udp: the service of one of the ports.
add_service(dp, prot, services, unknown) ==
  LET s == dp.sport
      d == dp.dport
      chosen == choose_port(s, d)
      hasS == s \in DOMAIN services
      hasD == d \in DOMAIN services
      prefS == hasS /\ services[s].preferred
      prefD == hasD /\ services[d].preferred
      takeS == IF prefS # prefD THEN prefS ELSE ~hasD \/ (s = chosen /\ hasS)
      other == IF chosen = s THEN d ELSE s
  IN  decode_proto_add(dp,
        IF hasS \/ hasD THEN services[IF takeS THEN s ELSE d].name
        ELSE IF group_unk THEN unknown
        ELSE prot \o ":" \o ToString(chosen) \o "-" \o ToString(other))

RpcPrograms == {"BOOTPARAMS", "MOUNT", "NLM", "PORTMAP", "STAT", "NFS", "YPBIND", "YPSERV",
                "YPXFR", "YPPASSWD", "REXEC", "KERBPROG", "RPC-UNKNOWN"}

\* The program of an RPC message: a call names it, a reply has that of the
\* conversation its receiver opened with a call.
rpc_prot(dp, start) ==
  CASE dp.len >= 24 /\ Code(dp, start + 4) = "REPLY" ->
         find_conversation(dp.conv, dp.gdst, dp.gdst, dp.dport, 0)
    [] /\ dp.len >= 24
       /\ Code(dp, start + 4) = "CALL"
       /\ Code(dp, start + 8) = "version 2"
       /\ Code(dp, start + 12) \in RpcPrograms -> Code(dp, start + 12)
    [] OTHER -> NoData

get_rpc(dp, start) ==
  LET prot == rpc_prot(dp, start)
      called == IF Code(dp, start + 4) = "CALL"
                THEN [dp EXCEPT !.conv =
                        IF find_conversation(@, dp.gsrc, dp.gsrc, dp.sport, 0) = NoData
                        THEN add_conversation(@, dp.gsrc, dp.gsrc, dp.sport, 0, prot)
                        ELSE @]
                ELSE dp
  IN  decode_proto_add(decode_proto_add(called, "ONC-RPC"), prot)

\* Mutant: the client's port is entered where the server's belongs.
FtpSwapped(dp) ==
  LET d == decode_proto_add(dp, "FTP")
  IN  IF Code(d, 0) # "227" THEN d
      ELSE [d EXCEPT !.conv = add_conversation(@, d.gsrc, d.gdst, 0, d.dport, "FTP-PASSIVE")]

\* A reply 227 announces the port of a passive transfer in two numbers.
get_ftp(dp) ==
  LET d == decode_proto_add(dp, "FTP")
      port == (Num(d, 3) * 256 + Num(d, 4)) % 65536
  IN  IF d.len < 3 \/ Code(d, 0) # "227" \/ ~{d.pos + 3, d.pos + 4} \subseteq DOMAIN d.pkt.num
      THEN d
      ELSE [d EXCEPT !.conv = add_conversation(@, d.gsrc, d.gdst, port, 0, "FTP-PASSIVE")]

get_netbios(dp) ==
  IF dp.len >= 5 /\ dp.len > Size(dp, 0) THEN decode_proto_add(dp, "SMB") ELSE dp

get_netbios_ssn(dp) ==
  LET d == decode_proto_add(dp, "NETBIOS-SSN")
  IN  IF Code(d, 0) = "session message" THEN decode_proto_add(d, "SMB") ELSE d

get_netbios_dgm(dp) ==
  LET d == decode_proto_add(dp, "NETBIOS-DGM")
  IN  IF Code(d, 0) = "direct" THEN decode_proto_add(d, "SMB") ELSE d

-----------------------------------------------------------------------------
(* TCP, UDP, IP *)

\* In TCP mode a node is an address and a port; the ends must have an IP id by
\* now (the g_assert of get_tcp and get_udp).
transport_ids(dp, prot) ==
  LET d == [decode_proto_add(dp, prot) EXCEPT !.sport = Num(dp, 0), !.dport = Num(dp, 2)]
  IN  IF d.mode # "TCP" THEN d
      ELSE [d EXCEPT !.ok = @ /\ d.src.type = "IP" /\ d.dst.type = "IP",
                     !.src = [type |-> "TCP", addr |-> d.gsrc, port |-> d.sport],
                     !.dst = [type |-> "TCP", addr |-> d.gdst, port |-> d.dport]]

tcp_payload(d, conv) ==
  CASE conv # NoData -> decode_proto_add(d, conv)
    [] conv = NoData /\ rpc_prot(d, 4) # NoData -> get_rpc(d, 4)
    [] OTHER -> CASE 139 \in {d.sport, d.dport} -> get_netbios_ssn(d)
                  [] 21 \in {d.sport, d.dport} /\ 139 \notin {d.sport, d.dport} -> get_ftp(d)
                  [] OTHER -> add_service(d, "TCP", TcpServices, "TCP-UNKNOwN")

get_tcp(dp) ==
  LET d == add_offset(transport_ids(dp, "TCP"), 4 * Size(dp, 12))
  IN  tcp_payload(d, find_conversation(d.conv, d.gsrc, d.gdst, d.sport, d.dport))

udp_payload(d) ==
  CASE rpc_prot(d, 0) # NoData -> get_rpc(d, 0)
    [] rpc_prot(d, 0) = NoData /\ 137 \in {d.sport, d.dport} -> get_netbios_dgm(d)
    [] OTHER -> add_service(d, "UDP", UdpServices, "UDP-UNKNOWN")

get_udp(dp) == udp_payload(add_offset(transport_ids(dp, "UDP"), 8))

IpProtocols == {"ICMP", "IGMP", "GGP", "IPIP", "EGP", "PUP", "IDP", "TP", "IPV6", "ROUTING",
                "FRAGMENT", "RSVP", "GRE", "ESP", "AH", "ICPMPV6", "NONE", "DSTOPTS", "VINES",
                "EIGRP", "OSPF", "ENCAP", "PIM", "IPCOMP", "VRRP"}

\* Mutant: TCP mode is left to the TCP and UDP decoders.
IpIdsForIp(dp, s, d) ==
  IF dp.mode # "IP" THEN dp
  ELSE [dp EXCEPT !.src = Id("IP", Code(dp, s)), !.dst = Id("IP", Code(dp, d))]

ip_ids(dp, s, d) ==
  IF dp.mode = "LINK6" THEN dp
  ELSE [dp EXCEPT !.src = Id("IP", Code(dp, s)), !.dst = Id("IP", Code(dp, d))]

\* The addresses of conversations are those of the node ids, MAC addresses in
\* link-layer mode.
ip_payload(dp, type, fragment) ==
  LET d == [dp EXCEPT !.gsrc = dp.src.addr, !.gdst = dp.dst.addr]
  IN  CASE type = "TCP" -> IF fragment # 0 THEN decode_proto_add(d, "TCP_FRAGMENT") ELSE HandTo("get_tcp", d)
        [] type = "UDP" -> IF fragment # 0 THEN decode_proto_add(d, "UDP_FRAGMENT") ELSE HandTo("get_udp", d)
        [] OTHER -> decode_proto_add(d, IF type \in IpProtocols THEN type ELSE "IP_UNKNOWN")

\* Twelve bits of the fragment word are looked at.
get_ip(dp) ==
  CASE dp.len >= 20 /\ Code(dp, 0) = "version 4" /\ Size(dp, 0) >= 20 ->
         ip_payload(add_offset(ip_ids(decode_proto_add(dp, "IP"), 12, 16), Size(dp, 0)),
                    Code(dp, 9), Num(dp, 6) % 4096)
    [] dp.len >= 40 /\ Code(dp, 0) = "version 6" ->
         ip_payload(add_offset(ip_ids(decode_proto_add(dp, "IPV6"), 8, 24), 40), Code(dp, 6), 0)
    [] OTHER -> dp

-----------------------------------------------------------------------------
(* IPX, LLC, Ethernet types *)

\* The sockets get_ipx knows, in the order in which it asks for them.
IpxSockets == <<"IPX-SAP", "ATTACHMATE-GW", "PING-NOVELL", "IPX-NCP", "IPX-RIP", "IPX-NetBIOS",
  "IPX-DIAG", "IPX-SERIAL.", "IPX-ADSM", "EIGRP", "IPX W.A. ROUTER", "IPX-TCP-TUNNEL",
  "IPX-UDP-TUNNEL", "IPX-SMB", "SNMP">>

get_ipx(dp) ==
  LET type == Code(dp, 5)
      named == IF type \in {"IPX-RIP", "IPX-ECHO", "IPX-ERROR", "IPX-SPX", "IPX-NCP", "IPX-NetBIOS"}
               THEN decode_proto_add(decode_proto_add(dp, "IPX"), type)
               ELSE decode_proto_add(dp, "IPX")
      known == {i \in DOMAIN IpxSockets : IpxSockets[i] \in {Code(dp, 16), Code(dp, 28)}}
  IN  CASE dp.len < 30 \/ Code(dp, 0) # "ffff" -> dp
        [] type \in {"IPX", "PEP", "IPX-NetBIOS"} /\ known # {} ->
             decode_proto_add(named, IpxSockets[CHOOSE i \in known : \A j \in known : i <= j])
        [] OTHER -> named

EtherTypes == {"IP", "ARP", "IPV6", "X25L3", "REVARP", "ATALK", "AARP", "VINES", "TRAIN", "LOOP",
  "PPPOED", "PPPOES", "VLAN", "SNMP", "DNA-DL", "DNA-RC", "DNA-RT", "DEC", "DEC-DIAG", "DEC-CUST",
  "DEC-SCA", "DEC-LB", "MPLS", "MPLS-MULTI", "LAT", "PPP", "WCP", "3C-NBP-DGRAM", "ETHBRIDGE",
  "ETH_UNKNOWN"}

append_etype_prot(dp, etype) == IF etype \in EtherTypes THEN decode_proto_add(dp, etype) ELSE dp

get_eth_II(dp, etype) ==
  CASE etype \in {"IP", "IPV6"} -> HandTo("get_ip", dp)
    [] etype = "IPX" -> HandTo("get_ipx", dp)
    [] OTHER -> append_etype_prot(dp, etype)

SapNames == {"LLC-NULL", "LLC-SLMGMT", "PATHCTRL", "SNA1", "SNA2", "PROWAY-NM-INIT", "TI", "BPDU",
  "RS511", "X25", "XNS", "NESTAR", "PROWAY-ASLM", "ARP", "LLC-SNAP", "VINES1", "VINES2", "IBMNM",
  "RPL1", "UB", "RPL2", "OSINL", "LLC-GLOBAL"}

\* The third byte tells information frames from others.
get_llc(dp) ==
  LET dsap == Code(dp, 0)
      d == add_offset(decode_proto_add(dp, "LLC"), 3)
  IN  CASE dp.len < 4 -> dp
        [] dp.len >= 4 /\ dsap = "LLC-SNAP" /\ Code(dp, 1) = "LLC-SNAP" ->
             get_eth_II(add_offset(dp, 8), Code(dp, 6))
        [] OTHER -> CASE Code(dp, 2) # "information" -> decode_proto_add(dp, "LLC")
                      [] dsap = "IP" -> HandTo("get_ip", d)
                      [] dsap = "NETWARE" -> HandTo("get_ipx", d)
                      [] dsap = "NETBIOS" -> get_netbios(decode_proto_add(d, "NETBIOS"))
                      [] dsap \in SapNames -> decode_proto_add(d, dsap)
                      [] OTHER -> d

-----------------------------------------------------------------------------
(* Link types *)

get_eth_802_3(dp) == HandTo("get_llc", dp)

\* A type field up to 1500 is a length ("length"): raw 802.3, ISL or 802.2.
get_eth_type(dp) ==
  LET tagged == Code(dp, 12) = "VLAN"
      d == IF tagged THEN decode_proto_add(dp, "802.1Q") ELSE dp
      size_offset == IF tagged THEN 16 ELSE 12
      size == Code(dp, size_offset)
      p == add_offset(LinkIds(d, 0, 6), size_offset + 2)
  IN  CASE dp.len < 20 -> dp
        [] dp.len >= 20 /\ size = "length" /\ Code(dp, 0) = "ISL" -> decode_proto_add(d, "ISL")
        [] OTHER -> CASE size # "length" -> get_eth_II(decode_proto_add(p, "ETH_II"), size)
                      [] Code(p, 0) = "ffff" -> decode_proto_add(p, "802.3-RAW")
                      [] OTHER -> get_eth_802_3(decode_proto_add(p, "802.3"))

get_fddi_type(dp) ==
  LET f == decode_proto_add(dp, "FDDI")
      d == LinkIds(decode_proto_add(f, "LLC"), 1, 7)
  IN  CASE dp.len < 14 -> f
        [] dp.len >= 21 /\ Code(dp, 19) = "IP" -> HandTo("get_ip", add_offset(d, 21))
        [] OTHER -> d

get_ieee802_5_type(dp) ==
  LET t == decode_proto_add(dp, "Token Ring")
      d == decode_proto_add(LinkIds(t, 2, 8), "LLC")
  IN  CASE dp.len < 15 -> t
        [] dp.len >= 15 /\ dp.len < 22 -> LinkIds(t, 2, 8)
        [] dp.len >= 22 /\ Code(dp, 20) = "IP" -> HandTo("get_ip", add_offset(d, 22))
        [] OTHER -> d

\* The name is that of the device's link type, inside PPI too.
get_loop(dp) ==
  LET d == decode_proto_add(dp, IF dp.lkentry = "LOOP" THEN "LOOP" ELSE "NULL")
  IN  HandTo("get_ip", add_offset(d, 4))

get_linux_sll(dp) ==
  get_eth_II(add_offset(decode_proto_add(dp, "LINUX-SLL"), 16), Code(dp, 14))

decode_wlan_mgmt(dp, subtype) ==
  decode_proto_add(dp, CASE subtype \in 0..3 -> "WLAN-ASSOC"
                         [] subtype \in 4..5 -> "WLAN-PROBE"
                         [] subtype = 8 -> "WLAN-BEACON"
                         [] subtype = 9 -> "WLAN-ATIM"
                         [] subtype = 10 -> "WLAN-DEASSOC"
                         [] subtype \in 11..12 -> "WLAN-AUTH"
                         [] OTHER -> "WLAN-MGMT-UNKN")

decode_wlan_ctrl(dp, subtype) ==
  decode_proto_add(dp, CASE subtype = 10 -> "WLAN-PS-POLL"
                         [] subtype = 11 -> "WLAN-RTS"
                         [] subtype = 12 -> "WLAN-CTS"
                         [] subtype = 13 -> "WLAN-ACK"
                         [] subtype \in 14..15 -> "WLAN-CF-END"
                         [] OTHER -> "WLAN-CTRL-UNKN")

\* Where the final addresses are, for each value of the direction bits.
WlanAddresses == [b \in 0..3 |-> CASE b = 0 -> [dst |-> 4, src |-> 10]
                                   [] b = 1 -> [dst |-> 16, src |-> 10]
                                   [] b = 2 -> [dst |-> 4, src |-> 16]
                                   [] b = 3 -> [dst |-> 16, src |-> 24]]

\* A control frame other than RTS has one address only.
get_wlan(dp) ==
  LET w == decode_proto_add(dp, "IEE802.11")
      type == Code(dp, 0)
      subtype == Num(dp, 0)
      ofs == WlanAddresses[Num(dp, 1) % 4]
      d == [w EXCEPT !.dst = Id("LINK6", Code(dp, ofs.dst))]
      both == LinkIds(w, ofs.dst, ofs.src)
      body == add_offset(both, IF Num(dp, 1) % 4 = 3 THEN 30 ELSE 24)
      Control(x, k) == decode_wlan_ctrl(add_offset(x, k), subtype)
  IN  CASE dp.len < 10 \/ dp.len < ofs.dst + 6 -> w
        [] dp.len >= ofs.dst + 6 /\ type = "control" /\ subtype # 11 -> Control(d, 10)
        [] OTHER -> CASE dp.len < ofs.src + 6 -> d
                      [] type = "control" -> Control(both, 16)
                      [] type = "management" -> decode_wlan_mgmt(body, subtype)
                      [] type = "data" -> IF Code(dp, 1) = "encrypted"
                                          THEN decode_proto_add(body, "WLAN-CRYPTED")
                                          ELSE HandTo("get_llc", add_offset(body, IF subtype = 8 THEN 2 ELSE 0))
                      [] OTHER -> body

get_radiotap(dp) ==
  IF dp.len < 32 THEN decode_proto_add(dp, "RADIOTAP") ELSE HandTo("get_wlan", add_offset(dp, Size(dp, 2)))

\* fun of each entry of linktypes.
link_fun ==
  [EN10MB |-> "get_eth_type", FDDI |-> "get_fddi_type", IEEE802 |-> "get_ieee802_5_type",
   WLAN |-> "get_wlan", RADIOTAP |-> "get_radiotap", PPI |-> "get_ppi", RAW |-> "get_ip",
   SLL |-> "get_linux_sll", NULL |-> "get_loop", LOOP |-> "get_loop"]

HandToLinkFun(lt, dp) == IF lt \in DOMAIN linktypes THEN HandTo(link_fun[lt], dp) ELSE dp

\* Mutant: the entry found for an earlier packet is not looked up again.
StalePpi(dp) ==
  LET lt == IF dp.pph = "none" THEN Code(dp, 4) ELSE dp.pph
  IN  IF dp.len < 64 THEN decode_proto_add(dp, "PPI")
      ELSE HandToLinkFun(lt, [add_offset(dp, Size(dp, 2)) EXCEPT !.pph = lt])

\* Mutant: the link type inside is kept whether or not the table has it.
PpiUnchecked(dp) ==
  LET lt == Code(dp, 4)
  IN  IF dp.len < 64 THEN decode_proto_add(dp, "PPI")
      ELSE HandToLinkFun(lt, [add_offset(dp, Size(dp, 2)) EXCEPT !.pph = lt])

\* The entry of the table is kept from packet to packet (pph) and looked up
\* again when the link type inside differs.
get_ppi(dp) ==
  LET dlt == Code(dp, 4)
      entry == IF dp.pph = dlt THEN dp.pph ELSE IF dlt \in DOMAIN linktypes THEN dlt ELSE "none"
  IN  IF dp.len < 64 THEN decode_proto_add(dp, "PPI")
      ELSE HandToLinkFun(entry, [add_offset(dp, Size(dp, 2)) EXCEPT !.pph = entry])

\* The call that is due.
decode_step(dp) ==
  LET d == HandTo("none", dp)
  IN  CASE dp.next = "get_eth_type" -> get_eth_type(d)
        [] dp.next = "get_fddi_type" -> get_fddi_type(d)
        [] dp.next = "get_ieee802_5_type" -> get_ieee802_5_type(d)
        [] dp.next = "get_wlan" -> get_wlan(d)
        [] dp.next = "get_radiotap" -> get_radiotap(d)
        [] dp.next = "get_ppi" -> get_ppi(d)
        [] dp.next = "get_linux_sll" -> get_linux_sll(d)
        [] dp.next = "get_loop" -> get_loop(d)
        [] dp.next = "get_llc" -> get_llc(d)
        [] dp.next = "get_ipx" -> get_ipx(d)
        [] dp.next = "get_ip" -> get_ip(d)
        [] dp.next = "get_tcp" -> get_tcp(d)
        [] dp.next = "get_udp" -> get_udp(d)
        [] OTHER -> dp

MaxDepth == 8 \* bound: PPI, radiotap, WLAN, LLC, IP and TCP, and a PPI inside PPI

\* A packet decoded on a device of link type lt, with the conversations known
\* so far.
get_packet_prot(pkt, lt, mode, conv, pph) ==
  LET decoded[n \in 0..MaxDepth] ==
        IF n = 0 THEN HandToLinkFun(lt, decode_proto_start(pkt, lt, mode, conv, pph))
        ELSE decode_step(decoded[n - 1])
  IN  decoded[MaxDepth]

\* protonames[0]: the topmost protocol that found room.
TopProtocol(stack) == IF stack = <<>> THEN "none" ELSE stack[Len(stack)]
=============================================================================
