------------------------------- MODULE Names -------------------------------
(***************************************************************************)
(* The names of a node (names.c, and name_t and the choice of a name in    *)
(* node_id.c and node.c).  Each packet is walked through a second time,    *)
(* protocol by protocol, by decoders that keep their own offset into the   *)
(* bytes; what they find is a name under that protocol of the node.        *)
(*                                                                         *)
(* A numeric name is the id it prints.  A resolved name is "DNS" with the  *)
(* address or, while an address is not resolved, its numeric name.         *)
(***************************************************************************)
EXTENDS Decoder, SequencesExt

NoName == Id("no name", Zero)

\* nt: the walk of one packet for one of its nodes.
StartWalk(pkt, dp, dir, lt, known) ==
  [pkt |-> pkt, off |-> 0, dir |-> dir, lt |-> lt, mode |-> dp.mode, stack |-> dp.stack,
   known |-> known, id |-> NoId, af |-> "none", go |-> TRUE, adds |-> <<>>]

Stop(nt) == [nt EXCEPT !.go = FALSE]
Skip(nt, n) == [nt EXCEPT !.off = @ + n]
CodeAt(nt, k) == At(nt.pkt.code, nt.off + k, Other)
SizeAt(nt, k) == At(nt.pkt.size, nt.off + k, OtherNum)
Inside(nt, k) == nt.pkt.len > nt.off + k

AddressLength == [ether |-> 6, v4 |-> 4, v6 |-> 16, none |-> 0]

\* Mutant: the sender's address is taken for both directions.
FillSender(nt, type, disp, portdisp, af) ==
  [type |-> type, addr |-> CodeAt(nt, IF disp = 16 THEN 12 ELSE disp), port |-> 0]

\* An id from the bytes at disp; all zero when they were not captured.
fill_node_id(nt, type, disp, portdisp, af) ==
  IF nt.pkt.len < nt.off + disp + AddressLength[af] \/ nt.pkt.len < nt.off + portdisp + 2
  THEN Id(type, Zero)
  ELSE [type |-> type, addr |-> CodeAt(nt, disp),
        port |-> IF type = "TCP" THEN At(nt.pkt.num, nt.off + portdisp, OtherNum) ELSE 0]

\* dns_lookup: the numeric text while no better name is known.
dns_lookup(nt, id) == IF id.addr \in nt.known THEN [id EXCEPT !.type = "DNS"] ELSE id

add_name(nt, level, id, num, res) ==
  [nt EXCEPT !.id = id,
             !.adds = Append(@, [level |-> level, prot |-> nt.stack[level],
                                 id |-> id, num |-> num, res |-> res])]

Inbound(nt) == nt.dir = "in"

-----------------------------------------------------------------------------
(* One operator per name decoder *)

\* The table of ethers gives a name or none.
eth_name_common(nt, level) ==
  LET id == fill_node_id(nt, "LINK6", IF Inbound(nt) THEN 0 ELSE 6, 0, "ether")
  IN  Skip(add_name(nt, level, id, id,
             IF id.addr \in nt.known THEN [id EXCEPT !.type = "DNS"] ELSE NoName), 14)

get_llc_name(nt) ==
  CASE nt.lt \in {"FDDI", "IEEE802"} -> Skip(nt, 8)
    [] nt.lt = "EN10MB" -> Skip(nt, 3)
    [] OTHER -> Stop(nt)

\* Only the asking node has an address worth reading.
get_arp_name(nt, level) ==
  LET id == fill_node_id(nt, "IP", 8 + SizeAt(nt, 4), 0, "v4")
  IN  IF Inbound(nt) \/ ~Inside(nt, 7) \/ CodeAt(nt, 2) # "IP" THEN Stop(nt)
      ELSE Stop(add_name(nt, level, id, id, dns_lookup(nt, id)))

\* Mutant: the header is taken to be twenty bytes long.
IpNameFixed(nt, level) ==
  LET id == fill_node_id(nt, "IP", IF Inbound(nt) THEN 16 ELSE 12, 0, "v4")
      named == [add_name(nt, level, id, id, dns_lookup(nt, id)) EXCEPT !.af = "v4"]
  IN  Skip(named, 24)

get_ip_name(nt, level) ==
  LET id == fill_node_id(nt, "IP", IF Inbound(nt) THEN 16 ELSE 12, 0, "v4")
      named == [add_name(nt, level, id, id, dns_lookup(nt, id)) EXCEPT !.af = "v4"]
  IN  Skip(named, SizeAt(nt, 0))

get_ipv6_name(nt, level) ==
  LET id == fill_node_id(nt, "IP", IF Inbound(nt) THEN 24 ELSE 8, 0, "v6")
      named == [add_name(nt, level, id, id, dns_lookup(nt, id)) EXCEPT !.af = "v6"]
  IN  Skip(named, 40)

\* In TCP mode the address is looked for at a fixed distance before the TCP
\* header, where it is in an IP header without options.
get_tcp_name(nt, level) ==
  LET back == IF Inbound(nt) THEN (IF nt.af = "v6" THEN 16 ELSE 4)
              ELSE (IF nt.af = "v6" THEN 32 ELSE 8)
      id == fill_node_id(nt, "TCP", 0 - back, IF Inbound(nt) THEN 2 ELSE 0, nt.af)
      named == IF nt.mode = "TCP" THEN add_name(nt, level, id, id, dns_lookup(nt, id)) ELSE nt
  IN  IF Inside(nt, 14) THEN Skip(named, 4 * SizeAt(nt, 12)) ELSE Stop(named)

get_ipxsap_name(nt, level) ==
  LET name == Id("text", CodeAt(nt, 4))
  IN  IF ~Inside(nt, 4) \/ CodeAt(nt, 0) # "response" THEN Stop(nt)
      ELSE Stop(add_name(nt, level, nt.id, name, name))

\* The length is read two bytes late, inside the first name.
get_nbss_name(nt, level) ==
  LET length == SizeAt(nt, 4)
      name == Id("text", CodeAt(nt, IF Inbound(nt) THEN 4 ELSE 38))
  IN  CASE ~Inside(nt, 0) -> Stop(nt)
        [] Inside(nt, 0) /\ CodeAt(nt, 0) # "session request" -> Skip(nt, 2)
        [] OTHER -> IF ~Inside(nt, 4 + length) THEN Stop(nt)
                    ELSE Skip(add_name(nt, level, nt.id, name, name), 4 + length)

get_nbdgm_name(nt, level) ==
  LET name == Id("text", CodeAt(nt, CASE CodeAt(nt, 0) = "direct" -> IF Inbound(nt) THEN 48 ELSE 14
                                      [] OTHER -> 10))
  IN  IF Inside(nt, 0) /\ (CodeAt(nt, 0) = "direct" \/ (CodeAt(nt, 0) = "query" /\ Inbound(nt)))
      THEN Stop(add_name(nt, level, nt.id, name, name))
      ELSE Stop(nt)

name_function(nt, level) ==
  LET prot == nt.stack[level]
  IN  CASE prot \in {"ETH_II", "802.2", "802.3", "ISL", "FDDI", "Token Ring"} ->
             eth_name_common(nt, level)
        [] prot = "NULL" -> Skip(nt, 4)
        [] prot = "LINUX-SLL" -> Skip(nt, 16)
        [] prot = "LLC" -> get_llc_name(nt)
        [] prot = "ARP" -> get_arp_name(nt, level)
        [] prot = "IP" -> get_ip_name(nt, level)
        [] prot = "IPV6" -> get_ipv6_name(nt, level)
        [] prot = "IPX" -> Skip(nt, 30)
        [] prot = "TCP" -> get_tcp_name(nt, level)
        [] prot = "UDP" -> Skip(nt, 8)
        [] prot = "IPX-SAP" -> get_ipxsap_name(nt, level)
        [] prot = "NETBIOS-SSN" -> get_nbss_name(nt, level)
        [] prot = "NETBIOS-DGM" -> get_nbdgm_name(nt, level)

Named == {"ETH_II", "802.2", "802.3", "ISL", "FDDI", "Token Ring", "NULL", "LINUX-SLL", "LLC",
          "ARP", "IP", "IPV6", "IPX", "TCP", "UDP", "IPX-SAP", "NETBIOS-SSN", "NETBIOS-DGM"}

\* Protocols without a function are passed over.
decode_next(nt, level) ==
  CASE ~nt.go \/ nt.stack[level] \notin Named -> nt
    [] nt.go /\ nt.stack[level] \in Named /\ ~Inside(nt, 0) -> Stop(nt)
    [] OTHER -> name_function(nt, level)

\* The names a packet gives to its node in direction dir.
get_packet_names(pkt, dp, dir, lt, known) ==
  LET walk[n \in 0..Len(dp.stack)] ==   \* after n protocols
        IF n = 0 THEN StartWalk(pkt, dp, dir, lt, known) ELSE decode_next(walk[n - 1], n)
  IN  walk[Len(dp.stack)].adds

-----------------------------------------------------------------------------
(* The name lists of a node and the name it shows *)

\* A hash table or a catalog with one entry set.
Put(f, k, value) == [x \in (DOMAIN f) \cup {k} |-> IF x = k THEN value ELSE f[x]]

\* names[<<level, prot>>] is the list of a protocol, newest first until sorted.
node_create(id) == [names |-> <<>>, name |-> id, numeric |-> id]

\* Mutant: a name switched off is dropped although it was resolved before.
AssignDropping(name, num, res, size) ==
  [name EXCEPT !.num = num, !.res = res, !.acc = @ + size]

\* Without a resolved name the earlier one stays.
node_name_assign(name, num, res, size) ==
  [name EXCEPT !.num = num, !.res = IF res = NoName THEN @ ELSE res, !.acc = @ + size]

store_name(node, add, name_res, size) ==
  LET key == <<add.level, add.prot>>
      list == At(node.names, key, <<>>)
      same == {i \in DOMAIN list : list[i].id = add.id}
      res == IF name_res THEN add.res ELSE NoName
      fresh == [id |-> add.id, num |-> add.num, res |-> NoName, acc |-> 0]
      new == IF same = {} THEN <<node_name_assign(fresh, add.num, res, size)>> \o list
             ELSE [i \in DOMAIN list |-> IF i \in same
                                         THEN node_name_assign(list[i], add.num, res, size)
                                         ELSE list[i]]
  IN  [node EXCEPT !.names = Put(@, key, new)]

store_names(node, adds, name_res, size) ==
  LET stored[n \in 0..Len(adds)] ==     \* with n names
        IF n = 0 THEN node ELSE store_name(stored[n - 1], adds[n], name_res, size)
  IN  stored[Len(adds)]

\* g_list_sort is stable.
node_name_freq_sort(list) ==
  LET Before(i, j) == list[i].acc > list[j].acc \/ (list[i].acc = list[j].acc /\ i < j)
      order == SetToSortSeq(DOMAIN list, Before)
  IN  [i \in DOMAIN list |-> list[order[i]]]

Sequence(prots, resolved) == [i \in DOMAIN prots |-> [prot |-> prots[i], must |-> resolved]]

\* "803.3" and "IEEE802" are no decoder's names.
ethernet_sequence ==
  Sequence(<<"ETH_II", "802.2", "803.3", "FDDI", "IEEE802">>, TRUE) \o
  Sequence(<<"NETBIOS-DGM", "NETBIOS-SSN", "IP", "IPV6", "IPX-SAP", "ARP",
             "ETH_II", "802.2", "802.3", "FDDI", "IEEE802">>, FALSE)
ip_sequence == Sequence(<<"NETBIOS-DGM", "NETBIOS-SSN", "IP", "IPV6">>, FALSE)
tcp_sequence == Sequence(<<"TCP">>, FALSE)

name_sequence(mode) ==
  CASE mode = "LINK6" -> ethernet_sequence
    [] mode = "IP" -> ip_sequence
    [] mode = "TCP" -> tcp_sequence

\* The first entry of the sequence, then the highest level, that has a name
\* which may be used.
set_node_name(node, sequence, name_res) ==
  LET Usable(i, level) ==
        LET key == <<level, sequence[i].prot>>
        IN  /\ key \in DOMAIN node.names /\ node.names[key] # <<>>
            /\ Head(node.names[key]).res # NoName \/ ~sequence[i].must \/ ~name_res
      found == {p \in (DOMAIN sequence) \X (1..STACK_SIZE) : Usable(p[1], p[2])}
      best == CHOOSE p \in found : \A q \in found : p[1] < q[1] \/ (p[1] = q[1] /\ p[2] >= q[2])
      name == Head(node.names[<<best[2], sequence[best[1]].prot>>])
  IN  IF found = {} THEN node
      ELSE [node EXCEPT !.name = IF name.res = NoName THEN @ ELSE name.res, !.numeric = name.num]

node_name_update(node, mode, name_res) ==
  LET sorted == [node EXCEPT !.names = [k \in DOMAIN @ |-> node_name_freq_sort(@[k])]]
  IN  set_node_name(sorted, name_sequence(mode), name_res)
=============================================================================
