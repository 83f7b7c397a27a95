------------------------------ MODULE Packets ------------------------------
(***************************************************************************)
(* A capture seen as the packets it decodes: packet_acquired with the      *)
(* decoders, the conversations they leave, the node ids and names they     *)
(* give, and the links whose end takes conversations away.  When a node, a *)
(* link or a protocol of a node expires is the matter of module Traffic;   *)
(* here it may happen at any time.                                         *)
(***************************************************************************)
EXTENDS Names

CONSTANTS
  Frames,           \* the packets of each link type: [link type -> set of packets]
  Modes,            \* the modes the user may ask for
  Resolvable,       \* addresses that the resolver or the ethers file may name
  Toggles,          \* may the user switch name resolution on and off?
  Purges,           \* link types on which protocols may expire before their node (bound)
  MaxPackets,       \* bound on the packets of a run
  Addresses, Ports, Labels  \* what conversations are made of

ASSUME PacketsAssumption ==
  /\ DOMAIN Frames \subseteq DOMAIN linktypes
  /\ Modes \subseteq {"LINK6", "IP", "TCP"}
  /\ MaxPackets \in Nat

VARIABLES
  lt,               \* lkentry: the link type of the device
  mode,             \* appdata.mode
  conversations,    \* the list of conversations
  pph,              \* pph_lkentry: the entry get_ppi used last
  nodes,            \* the nodes with their names: [set of ids -> node]
  links,            \* the links, each as the set of its two ids
  name_res,         \* the preference
  known,            \* the addresses with a resolved name by now
  count             \* packets seen (bound)

vars == <<lt, mode, conversations, pph, nodes, links, name_res, known, count>>

TypeOK ==
  /\ lt \in DOMAIN Frames /\ mode \in Modes /\ (mode = "LINK6" => has_linklevel(lt))
  /\ \A i \in DOMAIN conversations :
       conversations[i] \in [src : Addresses, dst : Addresses, sport : Ports, dport : {0}, data : Labels]
  /\ pph \in (DOMAIN linktypes) \cup {"none"}
  /\ \A id \in DOMAIN nodes : \A key \in DOMAIN nodes[id].names :
       key[1] \in 1..STACK_SIZE /\ nodes[id].names[key] # <<>>
  /\ \A l \in links : Cardinality(l) \in 1..2
  /\ name_res \in BOOLEAN /\ known \subseteq Resolvable /\ count \in 0..MaxPackets

Init ==
  /\ lt \in DOMAIN Frames /\ mode \in Modes /\ (mode = "LINK6" => has_linklevel(lt))
  /\ conversations = <<>> /\ pph = "none" /\ nodes = <<>> /\ links = {}
  /\ name_res = TRUE /\ known = {} /\ count = 0

Decode(pkt, m) == get_packet_prot(pkt, lt, m, conversations, pph)
FoundNames(pkt, dp, dir) == get_packet_names(pkt, dp, dir, lt, IF name_res THEN known ELSE {})

\* add_node_packet: the node is made if it is new, and its names are updated.
add_node_packet(ns, id, adds, size) ==
  LET old == IF id \in DOMAIN ns THEN ns[id] ELSE node_create(id)
  IN  Put(ns, id, store_names(old, adds, name_res, size))

packet_acquired ==
  /\ count < MaxPackets
  /\ \E pkt \in Frames[lt] :
       LET dp == Decode(pkt, mode)
           sent == add_node_packet(nodes, dp.src, FoundNames(pkt, dp, "out"), pkt.len)
       IN  /\ nodes' = add_node_packet(sent, dp.dst, FoundNames(pkt, dp, "in"), pkt.len)
           /\ links' = links \cup {{dp.src, dp.dst}}
           /\ conversations' = dp.conv
           /\ pph' = dp.pph
  /\ count' = count + 1
  /\ UNCHANGED <<lt, mode, name_res, known>>

\* node_update of a node that stays: expired protocols take their names with
\* them, and the name to show is chosen again.
node_update(id) ==
  /\ \E gone \in {{}} \cup (IF lt \in Purges THEN {{key} : key \in DOMAIN nodes[id].names} ELSE {}) :
       LET kept == [nodes[id] EXCEPT !.names = [k \in (DOMAIN @) \ gone |-> @[k]]]
       IN  nodes' = [nodes EXCEPT ![id] = node_name_update(kept, mode, name_res)]
  /\ UNCHANGED <<lt, mode, conversations, pph, links, name_res, known, count>>

\* Mutant: a node that expires takes its links' conversations with it.
NodeEndsTalk(id) ==
  /\ nodes' = [n \in (DOMAIN nodes) \ {id} |-> nodes[n]]
  /\ conversations' = SelectSeq(conversations, LAMBDA c : id.addr \notin {c.src, c.dst})
  /\ UNCHANGED <<lt, mode, pph, links, name_res, known, count>>

node_expired(id) ==
  /\ nodes' = [n \in (DOMAIN nodes) \ {id} |-> nodes[n]]
  /\ UNCHANGED <<lt, mode, conversations, pph, links, name_res, known, count>>

\* The conversations between the two hosts go with any link between them.
link_delete(l) ==
  /\ links' = links \ {l}
  /\ \E a, b \in l :
       /\ l = {a, b}
       /\ conversations' = delete_conversation_link(conversations, a.addr, b.addr)
  /\ UNCHANGED <<lt, mode, pph, nodes, name_res, known, count>>

\* stop_capture, and a new start in another mode or on another device, in a
\* mode the device supports.
restart ==
  /\ conversations' = <<>> /\ nodes' = <<>> /\ links' = {}
  /\ \/ lt' = lt /\ mode' \in Modes
     \/ lt' \in DOMAIN Frames /\ mode' = mode
  /\ mode' = "LINK6" => has_linklevel(lt')
  /\ UNCHANGED <<pph, name_res, known, count>>

\* The resolver (module Resolver) has found a name.
name_resolved ==
  /\ \E a \in Resolvable \ known : known' = known \cup {a}
  /\ UNCHANGED <<lt, mode, conversations, pph, nodes, links, name_res, count>>

toggle_name_res ==
  /\ Toggles /\ name_res' = ~name_res
  /\ UNCHANGED <<lt, mode, conversations, pph, nodes, links, known, count>>

Next ==
  \/ packet_acquired
  \/ \E id \in DOMAIN nodes : node_update(id) \/ node_expired(id)
  \/ \E l \in links : link_delete(l)
  \/ restart
  \/ name_resolved
  \/ toggle_name_res

Spec == Init /\ [][Next]_vars

-----------------------------------------------------------------------------
(* Properties of decoding, for every packet that could come next *)

\* Node ids say which layer they were read from: TCP ids if a transport header
\* was decoded in TCP mode, IP ids if an IP header was outside link-layer mode,
\* both ends alike; only a WLAN frame, a control frame or a short one, knows one end alone.  No g_assert
\* of get_tcp and get_udp fails.
IdsFitMode ==
  \A pkt \in Frames[lt] :
    LET dp == Decode(pkt, mode)
        Has(prots) == \E i \in DOMAIN dp.stack : dp.stack[i] \in prots
        type == CASE mode = "TCP" /\ Has({"TCP", "UDP"}) -> "TCP"
                  [] mode # "LINK6" /\ Has({"IP", "IPV6"}) /\ ~(mode = "TCP" /\ Has({"TCP", "UDP"})) -> "IP"
                  [] OTHER -> "LINK6"
    IN  /\ dp.ok
        /\ dp.dst.type = type \/ dp.dst = NoId
        /\ dp.src.type = dp.dst.type \/ (dp.src = NoId /\ Has({"IEE802.11"}))

\* The table entry get_ppi keeps between packets never changes what a packet
\* is decoded to, whatever came before, on whichever device.
PpiCacheHarmless ==
  \A pkt \in Frames[lt] :
    LET fresh == get_packet_prot(pkt, lt, mode, conversations, "none")
        dp == Decode(pkt, mode)
    IN  dp.stack = fresh.stack /\ dp.src = fresh.src /\ dp.dst = fresh.dst

\* The link headers behind which names.c and decode_proto.c look for the header
\* of IP at the same place.
LinkHeaders ==
  [EN10MB |-> {[below |-> <<"ETH_II">>, at |-> 14], [below |-> <<"802.3", "LLC">>, at |-> 17]},
   IEEE802 |-> {[below |-> <<"Token Ring", "LLC">>, at |-> 22]},
   SLL |-> {[below |-> <<"LINUX-SLL">>, at |-> 16]},
   NULL |-> {[below |-> <<"NULL">>, at |-> 4]},
   RAW |-> {[below |-> <<>>, at |-> 0]}]

\* The protocols of a packet whose offsets are the same in both files: Ethernet,
\* IP behind one of these headers, and TCP on it, without IP options and with its
\* ports captured.
Aligned(pkt, stack, level) ==
  \/ lt = "EN10MB" /\ level <= 2 /\ stack[level] \in {"ETH_II", "802.3"}
  \/ /\ lt \in DOMAIN LinkHeaders
     /\ \E h \in LinkHeaders[lt] :
          LET ip == Len(h.below) + 1
          IN  /\ Len(stack) >= ip /\ SubSeq(stack, 1, ip - 1) = h.below
              /\ \/ level = ip /\ stack[ip] \in {"IP", "IPV6"}
                 \/ level = ip + 1 /\ stack[level] = "TCP"
                    /\ \/ stack[ip] = "IP" /\ At(pkt.size, h.at, OtherNum) = 20 /\ pkt.len >= h.at + 24
                       \/ stack[ip] = "IPV6" /\ pkt.len >= h.at + 44

\* Two walks over the same bytes agree: an address that names.c puts under a
\* protocol is the one decode_proto.c finds in that header (names.c, decode_proto.c).
NamesAligned ==
  \A pkt \in Frames[lt] :
    LET dp == Decode(pkt, mode)
        link == Decode(pkt, "LINK6")
        ip == Decode(pkt, "IP")
        tcp == Decode(pkt, "TCP")
    IN  \A dir \in {"in", "out"} : \A add \in Range(FoundNames(pkt, dp, dir)) :
          LET read == CASE add.prot = "TCP" -> tcp
                        [] add.prot \in {"IP", "IPV6"} -> ip
                        [] OTHER -> link
          IN  Aligned(pkt, dp.stack, add.level) =>
                add.id = (IF dir = "in" THEN read.dst ELSE read.src)

-----------------------------------------------------------------------------
(* Properties of conversations *)

Talk == INSTANCE Conversations
          WITH Address <- Addresses, Port <- Ports, Data <- Labels, talks <- Range(conversations)

\* FTP and RPC decoding, links that expire and captures that stop use the list
\* of conversations as it is meant to be used, and then no packet fits two of
\* them (see Conversations and its proofs).
ConversationsKept == Talk!Spec

Joins(l, c) == {id.addr : id \in l} = {c.src, c.dst}

\* A conversation between two hosts exists only while a link between them does:
\* the list cannot outgrow the links.  (RPC conversations, from an address to
\* itself, are one per host at most; only the end of the capture, or of traffic
\* of the host with itself, removes them.)
ConversationsHaveLinks ==
  /\ \A i \in DOMAIN conversations :
       LET c == conversations[i] IN c.src = c.dst \/ \E l \in links : Joins(l, c)
  /\ \A i, j \in DOMAIN conversations :
       conversations[i].src = conversations[i].dst /\ conversations[j].src = conversations[i].src
       /\ conversations[j].dst = conversations[i].dst => i = j

\* Where a link stands for all the traffic of its hosts (not in TCP mode), a
\* conversation is not forgotten while one of its hosts' links lives.
KeptWhileLinked ==
  [][\A i \in DOMAIN conversations :
       LET c == conversations[i]
       IN  mode # "TCP" /\ (\E l \in links' : Joins(l, c))
           => \E j \in DOMAIN conversations' : conversations'[j] = c]_vars

\* A transfer is labelled in both directions as announced (get_ftp, and get_rpc
\* for what a host sends itself), as long as TCP does not take the last place on
\* the stack.
TransferLabelled ==
  \A pkt \in Frames[lt], i \in DOMAIN conversations :
    LET c == conversations[i]
        dp == Decode(pkt, mode)
    IN  /\ \E k \in DOMAIN dp.stack : k < STACK_SIZE /\ dp.stack[k] = "TCP"
        /\ \A k \in DOMAIN dp.stack : dp.stack[k] # "UDP"
        /\ \/ dp.gsrc = c.src /\ dp.gdst = c.dst /\ dp.sport = c.sport
           \/ dp.gsrc = c.dst /\ dp.gdst = c.src /\ dp.dport = c.sport
        => TopProtocol(dp.stack) = c.data

-----------------------------------------------------------------------------
(* Properties of names *)

\* The numeric name a node shows is its own id or a NetBIOS name, never the
\* address of another field or host, in the modes in which a node is a host.
OwnName ==
  mode # "LINK6" =>
    \A id \in DOMAIN nodes : nodes[id].numeric = id \/ nodes[id].numeric.type = "text"
=============================================================================
