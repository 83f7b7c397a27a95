--------------------------- MODULE TrafficProofs ---------------------------
(***************************************************************************)
(* Proofs about Traffic, for every set of nodes, every choice of timeouts  *)
(* and every bound.                                                        *)
(***************************************************************************)
EXTENDS Traffic, TLAPS, WellFoundedInduction

-----------------------------------------------------------------------------
(* What the purge leaves of a queue.                                       *)

\* A non-empty set of positions of a sequence has a largest element: the choice
\* in KeptLength is well defined.
LEMMA LargestPosition ==
  ASSUME NEW len \in Nat, NEW V, V \subseteq 1..len, V # {}
  PROVE  \E i \in V : \A j \in V : j <= i
<1> DEFINE T == {k \in Nat : \E i \in V : k = len - i}
<1>1. T \subseteq Nat /\ T # {}
  <2>1. PICK i \in V : TRUE
    OBVIOUS
  <2>2. i \in 1..len
    OBVIOUS
  <2>3. len - i \in Nat
    BY <2>2
  <2>4. len - i \in T
    BY <2>1, <2>3
  <2> QED
    BY <2>4
<1>2. PICK m \in T : \A y \in T : ~ (<<y, m>> \in OpToRel(<, Nat))
  BY ONLY <1>1, NatLessThanWellFounded, WFMin
<1>3. \A y \in T : ~ (y < m)
  BY <1>1, <1>2 DEF OpToRel
<1>4. PICK i \in V : m = len - i
  OBVIOUS
<1>5. \A j \in V : j <= i
  <2> SUFFICES ASSUME NEW j \in V PROVE j <= i
    OBVIOUS
  <2>1. len - j \in T
    OBVIOUS
  <2> QED
    BY <1>3, <1>4, <2>1
<1> QED
  BY <1>5

\* The purge keeps no more items than the queue has, and none of an empty one
\* (KeptLength, the point where traffic_stats_purge_expired_packets stops).
LEMMA KeptLengthBounds ==
  ASSUME NEW S, NEW list \in Seq(S), NEW e, NEW t
  PROVE  KeptLength(list, e, t) \in 0..Len(list)
<1> DEFINE V == {i \in 1..Len(list) : t - list[i].pkt.ts < e}
<1>1. CASE V = {}
  BY <1>1 DEF KeptLength
<1>2. CASE V # {}
  <2>1. Len(list) \in Nat /\ V \subseteq 1..Len(list)
    OBVIOUS
  <2> HIDE DEF V
  <2>2. \E i \in V : \A j \in V : j <= i
    BY <1>2, <2>1, LargestPosition
  <2> DEFINE m == CHOOSE i \in V : \A j \in V : j <= i
  <2>3. m \in V
    BY <2>2
  <2>4. KeptLength(list, e, t) = m
    BY <1>2 DEF KeptLength, V
  <2> HIDE DEF m
  <2> QED
    BY <2>1, <2>3, <2>4
<1> QED
  BY <1>1, <1>2

\* The purge keeps a sequence of the same items, and none of an empty queue.
LEMMA KeptType ==
  ASSUME NEW S, NEW list \in Seq(S), NEW e, NEW t
  PROVE  /\ Kept(list, e, t) \in Seq(S)
         /\ Kept(list, e, t) # << >> => list # << >>
<1>1. KeptLength(list, e, t) \in 0..Len(list)
  BY KeptLengthBounds
<1>2. Kept(list, e, t) \in Seq(S)
  BY <1>1 DEF Kept
<1>3. list = << >> => Kept(list, e, t) = << >>
  BY <1>1 DEF Kept
<1> QED
  BY <1>2, <1>3

\* traffic_stats_update changes the queue only by the purge.
LEMMA UpdateList ==
  ASSUME NEW tr, NEW a, NEW b, NEW t
  PROVE  TrafficUpdate(tr, a, b, t).pkt_list = Kept(tr.pkt_list, a, t)
<1>1. TrafficPurge(tr, a, b, t).pkt_list = Kept(tr.pkt_list, a, t)
  BY DEF TrafficPurge
<1>2. DOMAIN TrafficPurge(tr, a, b, t)
        = {"pkt_list", "stats", "stats_in", "stats_out", "stats_protos"}
  BY DEF TrafficPurge
<1> QED
  BY <1>1, <1>2 DEF TrafficUpdate

-----------------------------------------------------------------------------
(* One packet filed in one record of a catalog, and the announcement of    *)
(* the node it went to.                                                    *)

Queues(catalog) == \A k \in DOMAIN catalog : catalog[k].pkt_list \in Seq(Item)

\* NewNodesValid and ActiveNodeShown with the parts they compare as parameters.
Valid(list, catalog) ==
  /\ \A n \in Range(list) : n \in DOMAIN catalog /\ catalog[n].pkt_list # << >>
  /\ \A i, j \in DOMAIN list : list[i] = list[j] => i = j

Shown(list, catalog, keep) ==
  \A n \in DOMAIN catalog :
    catalog[n].pkt_list # << >> => n \in Range(list) \/ n \in keep

\* c is catalog with one more item in the queue of key
LongerBy(key, c, catalog) ==
  /\ DOMAIN c = DOMAIN catalog \cup {key}
  /\ Queues(c)
  /\ c[key].pkt_list # << >>
  /\ \A k \in DOMAIN catalog : k # key => c[k] = catalog[k]
  /\ Len(c[key].pkt_list) = 1 <=>
       (key \in DOMAIN catalog => catalog[key].pkt_list = << >>)

\* packet_list_item_create and g_queue_push_head: the record of key gets a longer
\* queue of items, which has length one exactly if it was empty; no other record
\* changes.
LEMMA AddToQueue ==
  ASSUME NEW catalog, Queues(catalog), NEW key, NEW pkt \in Packet,
         NEW dir \in Directions, NEW t
  PROVE  LongerBy(key, AddTo(catalog, key, pkt, dir, t), catalog)
<1> DEFINE c  == AddTo(catalog, key, pkt, dir, t)
           tr == IF key \in DOMAIN catalog THEN catalog[key] ELSE TrafficInit(t)
           it == [pkt |-> pkt, direction |-> dir]
<1>1. tr.pkt_list \in Seq(Item)
  BY DEF Queues, TrafficInit
<1>2. /\ DOMAIN c = DOMAIN catalog \cup {key}
      /\ c[key] = TrafficAddPacket(tr, pkt, dir, t)
      /\ \A k \in DOMAIN catalog : k # key => c[k] = catalog[k]
  BY DEF AddTo
<1>3. TrafficAddPacket(tr, pkt, dir, t).pkt_list = << it >> \o tr.pkt_list
  BY DEF TrafficAddPacket, Enqueue
<1>4. it \in Item
  BY DEF Item
<1> HIDE DEF c, tr, it
<1>5. /\ << it >> \o tr.pkt_list \in Seq(Item)
      /\ Len(<< it >> \o tr.pkt_list) = 1 + Len(tr.pkt_list)
  BY <1>1, <1>4
<1>6. Len(tr.pkt_list) \in Nat /\ (Len(tr.pkt_list) = 0 <=> tr.pkt_list = << >>)
  BY <1>1
<1>7. Len(c[key].pkt_list) = 1 <=> tr.pkt_list = << >>
  BY <1>2, <1>3, <1>5, <1>6
<1>8. tr.pkt_list = << >> <=>
        (key \in DOMAIN catalog => catalog[key].pkt_list = << >>)
  BY DEF tr, TrafficInit
<1>9. c[key].pkt_list # << >>
  BY <1>2, <1>3, <1>5, <1>6
<1>10. Queues(c)
  BY <1>2, <1>3, <1>5 DEF Queues
<1> QED
  BY <1>2, <1>7, <1>8, <1>9, <1>10 DEF c, LongerBy

\* add_node_packet keeps the list of new nodes valid and forgets no active node.
LEMMA AnnounceQueue ==
  ASSUME NEW catalog, NEW key \in Node, NEW c, LongerBy(key, c, catalog),
         NEW list \in Seq(Node), NEW keep,
         Valid(list, catalog), Shown(list, catalog, keep)
  PROVE  /\ Announce(list, c, key) \in Seq(Node)
         /\ Valid(Announce(list, c, key), c)
         /\ Shown(Announce(list, c, key), c, keep)
<1> DEFINE l == Announce(list, c, key)
<1>1. /\ DOMAIN c = DOMAIN catalog \cup {key}
      /\ Queues(c)
      /\ c[key].pkt_list # << >>
      /\ \A k \in DOMAIN catalog : k # key => c[k] = catalog[k]
      /\ Len(c[key].pkt_list) = 1 <=>
           (key \in DOMAIN catalog => catalog[key].pkt_list = << >>)
  BY DEF LongerBy
<1>2. CASE Len(c[key].pkt_list) = 1
  <2>1. l = << key >> \o list
    BY <1>2 DEF Announce
  <2>2. key \notin Range(list)
    BY <1>1, <1>2 DEF Valid
  <2>3. /\ l \in Seq(Node)
        /\ Len(l) = Len(list) + 1
        /\ l[1] = key
        /\ \A i \in 2..Len(l) : l[i] = list[i - 1]
    BY <2>1
  <2> HIDE DEF l
  <2>4. /\ DOMAIN l = 1..Len(l) /\ DOMAIN list = 1..Len(list)
        /\ Len(list) \in Nat
    BY <2>3
  <2>5. \A i \in DOMAIN l : i # 1 => i - 1 \in DOMAIN list /\ l[i] = list[i - 1]
    BY <2>3, <2>4
  <2>6. \A i \in DOMAIN l : i # 1 => l[i] # key /\ l[i] \in Range(list)
    BY <2>2, <2>5 DEF Range
  <2>7. \A i, j \in DOMAIN l : l[i] = l[j] => i = j
    <3> SUFFICES ASSUME NEW i \in DOMAIN l, NEW j \in DOMAIN l, l[i] = l[j]
                 PROVE  i = j
      OBVIOUS
    <3>1. CASE i = 1 \/ j = 1
      BY <2>3, <2>6, <3>1
    <3>2. CASE i # 1 /\ j # 1
      <4>1. i - 1 \in DOMAIN list /\ j - 1 \in DOMAIN list
            /\ list[i - 1] = list[j - 1]
        BY <2>5, <3>2
      <4>2. i - 1 = j - 1
        BY <4>1 DEF Valid
      <4> QED
        BY <2>4, <4>2
    <3> QED
      BY <3>1, <3>2
  <2>8. \A n \in Range(l) : n = key \/ n \in Range(list)
    BY <2>3, <2>6 DEF Range
  <2>9. \A n \in Range(list) : n \in Range(l)
    <3> SUFFICES ASSUME NEW i \in DOMAIN list PROVE list[i] \in Range(l)
      BY DEF Range
    <3>1. i + 1 \in DOMAIN l /\ l[i + 1] = list[i]
      BY <2>3, <2>4
    <3> QED
      BY <3>1 DEF Range
  <2>10. key \in Range(l)
    BY <2>3, <2>4 DEF Range
  <2>11. Valid(l, c)
    BY <1>1, <2>7, <2>8 DEF Valid
  <2>12. Shown(l, c, keep)
    BY <1>1, <2>9, <2>10 DEF Shown
  <2> QED
    BY <2>3, <2>11, <2>12 DEF l
<1>3. CASE Len(c[key].pkt_list) # 1
  <2>1. l = list
    BY <1>3 DEF Announce
  <2>2. key \in DOMAIN catalog /\ catalog[key].pkt_list # << >>
    BY <1>1, <1>3
  <2>3. Valid(list, c)
    BY <1>1 DEF Valid
  <2>4. Shown(list, c, keep)
    BY <1>1, <2>2 DEF Shown
  <2> QED
    BY <2>1, <2>3, <2>4
<1> QED
  BY <1>2, <1>3

-----------------------------------------------------------------------------
(* The inductive invariant: types, and the conditions that tie the         *)
(* catalog, the list of new nodes and the canvas together.  None of them   *)
(* is inductive alone: a node is announced only when its queue was         *)
(* empty, so ActiveNodeShown needs the nodes with a non-empty queue to be  *)
(* covered already, and NewNodesValid needs an announced node to be absent *)
(* from the list before; StoppedIsEmpty is what a new start relies on.     *)

IInv == TypeOK /\ NewNodesValid /\ ActiveNodeShown /\ CanvasLoopSound
        /\ StoppedIsEmpty

\* The two invariants about new_nodes are the parametric forms Valid and Shown.
LEMMA IInvParts ==
  /\ NewNodesValid <=> Valid(new_nodes, nodes)
  /\ ActiveNodeShown <=> Shown(new_nodes, nodes, canvas_nodes \ doomed)
BY DEF NewNodesValid, ActiveNodeShown, Valid, Shown

\* An empty new_nodes list announces nothing (new_nodes_clear).
LEMMA EmptyRange == Range(<< >>) = {}
BY DEF Range

\* The state before the first capture satisfies the inductive invariant.
LEMMA InitIInv == Init => IInv
<1> SUFFICES ASSUME Init PROVE IInv
  OBVIOUS
<1>1. DOMAIN EmptyCatalog = {}
  BY DEF EmptyCatalog
<1>2. TypeOK
  <2>1. summary.pkt_list = << >>
    BY DEF Init, TrafficInit
  <2>2. << >> \in Seq(Item) /\ << >> \in Seq(Node)
    OBVIOUS
  <2>3. nested \in BOOLEAN /\ phase \in Phases
    BY DEF Init, Phases
  <2> QED
    BY <1>1, <2>1, <2>2, <2>3 DEF Init, TypeOK
<1>3. NewNodesValid /\ ActiveNodeShown /\ StoppedIsEmpty
  BY <1>1, EmptyRange DEF Init, NewNodesValid, ActiveNodeShown, StoppedIsEmpty
<1>4. CanvasLoopSound
  BY DEF Init, CanvasLoopSound
<1> QED
  BY <1>2, <1>3, <1>4 DEF IInv

\* packet_list_item_delete allocates no packet: refs only loses entries.
LEMMA FreeType ==
  ASSUME NEW taken, Free(taken)
  PROVE  DOMAIN refs' \subseteq DOMAIN refs
BY DEF Free, Release

\* packet_acquired
LEMMA GetPacketIInv ==
  ASSUME IInv, NEW src \in Node, NEW dst \in Node, GetPacket(src, dst)
  PROVE  IInv'
<1>1. PICK t \in (wall - MaxLag)..wall, size \in Sizes, names \in NameStacks :
        /\ t >= 0
        /\ now' = t
        /\ PacketAcquired(src, dst,
             [id |-> n_packets + 1, size |-> size, ts |-> t, names |-> names])
  BY DEF GetPacket
<1> DEFINE pkt == [id |-> n_packets + 1, size |-> size, ts |-> t, names |-> names]
           c1 == AddTo(nodes, src, pkt, "OUTBOUND", t)
           c2 == AddTo(c1, dst, pkt, "INBOUND", t)
           l1 == Announce(new_nodes, c1, src)
           keep == canvas_nodes \ doomed
<1>2. wall \in Nat /\ n_packets \in Nat /\ MaxLag \in Nat
  BY TrafficAssumption DEF IInv, TypeOK
<1>3. t \in Nat
  BY <1>1, <1>2
<1>4. pkt \in Packet
  BY <1>2, <1>3 DEF Packet
<1>5. /\ n_packets' = n_packets + 1
      /\ DOMAIN refs' = DOMAIN refs \cup {n_packets + 1}
      /\ nodes' = c2
      /\ new_nodes' = Announce(l1, c2, dst)
      /\ links' = AddTo(links, LinkId(src, dst), pkt,
                        IF src <= dst THEN "OUTBOUND" ELSE "INBOUND", t)
      /\ summary' = TrafficAddPacket(summary, pkt, "EITHERBOUND", t)
  BY <1>1, <1>2 DEF PacketAcquired
<1>6. UNCHANGED <<capture_status, wall, canvas_nodes, canvas_links, phase, nested,
                  todo, doomed>>
  BY DEF GetPacket, canvasVars, loopVars
<1>7. "OUTBOUND" \in Directions /\ "INBOUND" \in Directions
      /\ "EITHERBOUND" \in Directions
  BY DEF Directions
<1>8. Queues(nodes) /\ Queues(links) /\ summary.pkt_list \in Seq(Item)
  BY DEF IInv, TypeOK, Queues
<1> HIDE DEF pkt
<1>9. LongerBy(src, c1, nodes)
  BY <1>4, <1>7, <1>8, AddToQueue
<1>10. Queues(c1)
  BY <1>9 DEF LongerBy
<1> HIDE DEF c1
<1>11. LongerBy(dst, c2, c1)
  BY <1>4, <1>7, <1>10, AddToQueue
<1> HIDE DEF c2
<1>12. /\ l1 \in Seq(Node)
       /\ Valid(l1, c1)
       /\ Shown(l1, c1, keep)
  <2>1. /\ new_nodes \in Seq(Node)
        /\ Valid(new_nodes, nodes)
        /\ Shown(new_nodes, nodes, keep)
    BY IInvParts DEF IInv, TypeOK
  <2> HIDE DEF keep
  <2> QED
    BY <1>9, <2>1, AnnounceQueue
<1> HIDE DEF l1
<1>13. /\ new_nodes' \in Seq(Node)
       /\ Valid(new_nodes', nodes')
       /\ Shown(new_nodes', nodes', keep)
  <2> HIDE DEF keep
  <2> QED
    BY <1>5, <1>11, <1>12, AnnounceQueue
<1>14. Queues(nodes') /\ DOMAIN nodes' \subseteq Node
  BY <1>5, <1>9, <1>11 DEF LongerBy, IInv, TypeOK
<1>15. Queues(links') /\ DOMAIN links' \subseteq LinkIds
  <2>1. LinkId(src, dst) \in LinkIds
    BY TrafficAssumption DEF LinkId, LinkIds
  <2>2. (IF src <= dst THEN "OUTBOUND" ELSE "INBOUND") \in Directions
    BY <1>7
  <2>3. LongerBy(LinkId(src, dst), links', links)
    BY <1>4, <1>5, <1>8, <2>2, AddToQueue
  <2> QED
    BY <2>1, <2>3 DEF LongerBy, IInv, TypeOK
<1>16. summary'.pkt_list \in Seq(Item)
  <2>1. [pkt |-> pkt, direction |-> "EITHERBOUND"] \in Item
    BY <1>4, <1>7 DEF Item
  <2>2. summary'.pkt_list
          = << [pkt |-> pkt, direction |-> "EITHERBOUND"] >> \o summary.pkt_list
    BY <1>5 DEF TrafficAddPacket, Enqueue
  <2> QED
    BY <1>8, <2>1, <2>2
<1>17. DOMAIN refs' \subseteq 1..n_packets'
  BY <1>2, <1>5 DEF IInv, TypeOK
<1>18. TypeOK'
  <2>1. now' \in Nat /\ n_packets' \in Nat
    BY <1>1, <1>2, <1>3, <1>5
  <2>2. \A n \in DOMAIN nodes' : nodes'[n].pkt_list \in Seq(Item)
    BY <1>14 DEF Queues
  <2>3. \A n \in DOMAIN links' : links'[n].pkt_list \in Seq(Item)
    BY <1>15 DEF Queues
  <2> QED
    BY <1>6, <1>13, <1>14, <1>15, <1>16, <1>17, <2>1, <2>2, <2>3 DEF IInv, TypeOK
<1>19. NewNodesValid' /\ ActiveNodeShown'
  BY <1>6, <1>13 DEF NewNodesValid, ActiveNodeShown, Valid, Shown
<1>20. CanvasLoopSound' /\ StoppedIsEmpty'
  BY <1>6 DEF IInv, CanvasLoopSound, StoppedIsEmpty, GetPacket, Capturing
<1> QED
  BY <1>18, <1>19, <1>20 DEF IInv

\* update_diagram up to the canvas loop: the purge leaves a queue non-empty only
\* if it was, and every announced node that still has packets gets its canvas
\* node, because display_node never refuses a node with packets.
LEMMA UpdateNodesIInv ==
  ASSUME IInv, UpdateNodes
  PROVE  IInv'
<1> DEFINE upd == [n \in DOMAIN nodes |->
                     TrafficUpdate(nodes[n], AveragingTime, ProtoNodeTimeout, wall)]
<1>1. /\ nodes' = [n \in {m \in DOMAIN nodes : ~NodeExpired(upd[m], wall)} |-> upd[n]]
      /\ new_nodes' = << >>
      /\ canvas_nodes' = canvas_nodes \cup
           {n \in PoppedNodes(nodes') : DisplayNode(nodes'[n], wall)}
      /\ todo' = canvas_nodes'
      /\ doomed' = {}
  BY DEF UpdateNodes, NodesUpdated
<1>2. /\ DOMAIN nodes' \subseteq DOMAIN nodes
      /\ \A n \in DOMAIN nodes' : nodes'[n] =
           TrafficUpdate(nodes[n], AveragingTime, ProtoNodeTimeout, wall)
  BY <1>1
<1>3. /\ phase' = "canvas" /\ nested' = FALSE /\ now' = wall
      /\ UNCHANGED <<capture_status, wall, n_packets, links, summary, canvas_links>>
      /\ DOMAIN refs' \subseteq DOMAIN refs
  BY FreeType DEF UpdateNodes
<1>4. phase = "idle"
  BY DEF UpdateNodes
<1> HIDE DEF upd
<1>5. \A n \in DOMAIN nodes' :
        /\ nodes'[n].pkt_list \in Seq(Item)
        /\ nodes'[n].pkt_list # << >> => nodes[n].pkt_list # << >>
  <2> SUFFICES ASSUME NEW n \in DOMAIN nodes'
               PROVE  /\ nodes'[n].pkt_list \in Seq(Item)
                      /\ nodes'[n].pkt_list # << >> => nodes[n].pkt_list # << >>
    OBVIOUS
  <2>1. nodes[n].pkt_list \in Seq(Item)
    BY <1>2 DEF IInv, TypeOK
  <2>2. nodes'[n].pkt_list = Kept(nodes[n].pkt_list, AveragingTime, wall)
    BY <1>2, UpdateList
  <2> QED
    BY <2>1, <2>2, KeptType
<1>6. Range(new_nodes) \subseteq Node
  BY DEF IInv, TypeOK, Range
<1>7. canvas_nodes' \subseteq Node
  BY <1>1, <1>6 DEF IInv, TypeOK, PoppedNodes
<1>8. TypeOK'
  <2>1. nested' \in BOOLEAN /\ phase' \in Phases
    BY <1>3 DEF Phases
  <2>3. new_nodes' \in Seq(Node)
    BY <1>1
  <2>2. todo' \subseteq Node /\ doomed' \subseteq Node
    BY <1>1, <1>7
  <2> QED
    BY <1>2, <1>3, <1>5, <1>7, <2>1, <2>2, <2>3 DEF IInv, TypeOK
<1>9. NewNodesValid' /\ StoppedIsEmpty'
  BY <1>1, <1>2, <1>3, EmptyRange DEF IInv, NewNodesValid, StoppedIsEmpty
<1>10. ActiveNodeShown'
  <2> SUFFICES ASSUME NEW n \in DOMAIN nodes', nodes'[n].pkt_list # << >>
               PROVE  n \in canvas_nodes'
    BY <1>1 DEF ActiveNodeShown
  <2>1. n \in DOMAIN nodes /\ nodes[n].pkt_list # << >>
    BY <1>2, <1>5
  <2>2. n \in Range(new_nodes) \/ n \in canvas_nodes
    BY <2>1 DEF IInv, ActiveNodeShown
  <2>3. CASE n \in Range(new_nodes)
    <3>1. n \in PoppedNodes(nodes')
      BY <2>3 DEF PoppedNodes
    <3>2. DisplayNode(nodes'[n], wall)
      BY DEF DisplayNode
    <3> QED
      BY <1>1, <3>1, <3>2
  <2> QED
    BY <1>1, <2>2, <2>3
<1>11. CanvasLoopSound'
  BY <1>1, <1>3 DEF CanvasLoopSound
<1> QED
  BY <1>8, <1>9, <1>10, <1>11 DEF IInv

\* canvas_node_update dooms only nodes that have no packets.
LEMMA CanvasNodeUpdateIInv ==
  ASSUME IInv, CanvasNodeUpdate
  PROVE  IInv'
<1>1. PICK n \in todo :
        /\ todo' = todo \ {n}
        /\ IF n \in DOMAIN nodes /\ DisplayNode(nodes[n], now)
             THEN nested' = TRUE /\ UNCHANGED doomed
             ELSE nested' = FALSE /\ doomed' = doomed \cup {n}
  BY DEF CanvasNodeUpdate
<1>2. UNCHANGED <<capture_status, wall, now, n_packets, refs, nodes, links, summary,
                  new_nodes, canvas_nodes, canvas_links, phase>>
  BY DEF CanvasNodeUpdate, memVars, catVars, canvasVars
<1>3. nested' \in BOOLEAN /\ doomed' \subseteq doomed \cup {n}
  BY <1>1
<1>4. TypeOK'
  BY <1>1, <1>2, <1>3 DEF IInv, TypeOK
<1>5. NewNodesValid' /\ StoppedIsEmpty'
  BY <1>2 DEF IInv, NewNodesValid, StoppedIsEmpty
<1>6. \A m \in DOMAIN nodes : nodes[m].pkt_list # << >> /\ m \in doomed' => m \in doomed
  BY <1>1 DEF DisplayNode
<1>7. ActiveNodeShown'
  BY <1>2, <1>6 DEF IInv, ActiveNodeShown
<1>8. CanvasLoopSound'
  BY <1>1, <1>2, <1>3 DEF IInv, CanvasLoopSound, CanvasNodeUpdate
<1> QED
  BY <1>4, <1>5, <1>7, <1>8 DEF IInv

\* the rest of update_diagram: only doomed nodes leave the canvas
LEMMA UpdateLinksIInv ==
  ASSUME IInv, UpdateLinks
  PROVE  IInv'
<1> DEFINE upd == [l \in DOMAIN links |->
                     TrafficUpdate(links[l], AveragingTime, ProtoLinkTimeout, now)]
<1>1. /\ links' = [l \in {k \in DOMAIN links : ~LinkExpired(upd[k], now)} |-> upd[l]]
      /\ canvas_links' = DOMAIN links'
      /\ canvas_nodes' = canvas_nodes \ doomed
      /\ summary' = TrafficUpdate(summary, AveragingTime, ProtoTimeout, now)
      /\ todo = {} /\ doomed' = {}
      /\ phase' = "redraw" /\ nested' = FALSE
      /\ UNCHANGED <<capture_status, wall, n_packets, nodes, new_nodes, todo>>
      /\ DOMAIN refs' \subseteq DOMAIN refs
  BY FreeType DEF UpdateLinks, LinksUpdated
<1>2. /\ DOMAIN links' \subseteq DOMAIN links
      /\ \A l \in DOMAIN links' : links'[l] =
           TrafficUpdate(links[l], AveragingTime, ProtoLinkTimeout, now)
  BY <1>1
<1> HIDE DEF upd
<1>3. \A l \in DOMAIN links' : links'[l].pkt_list \in Seq(Item)
  <2> SUFFICES ASSUME NEW l \in DOMAIN links' PROVE links'[l].pkt_list \in Seq(Item)
    OBVIOUS
  <2>1. links[l].pkt_list \in Seq(Item)
    BY <1>2 DEF IInv, TypeOK
  <2>2. links'[l].pkt_list = Kept(links[l].pkt_list, AveragingTime, now)
    BY <1>2, UpdateList
  <2> QED
    BY <2>1, <2>2, KeptType
<1>4. summary'.pkt_list \in Seq(Item)
  <2>1. summary.pkt_list \in Seq(Item)
    BY DEF IInv, TypeOK
  <2>2. summary'.pkt_list = Kept(summary.pkt_list, AveragingTime, now)
    BY <1>1, UpdateList
  <2> QED
    BY <2>1, <2>2, KeptType
<1>5. now' \in Nat /\ phase' \in Phases /\ nested' \in BOOLEAN
  BY DEF UpdateLinks, IInv, TypeOK, Phases
<1>6. TypeOK'
  BY <1>1, <1>2, <1>3, <1>4, <1>5 DEF IInv, TypeOK
<1>7. NewNodesValid' /\ ActiveNodeShown'
  BY <1>1 DEF IInv, NewNodesValid, ActiveNodeShown
<1>8. CanvasLoopSound' /\ StoppedIsEmpty'
  BY <1>1, <1>2 DEF IInv, CanvasLoopSound, StoppedIsEmpty
<1> QED
  BY <1>6, <1>7, <1>8 DEF IInv

\* stop_capture and the update that follows it empty everything
LEMMA StopCaptureIInv ==
  ASSUME IInv, StopCapture
  PROVE  IInv'
<1>1. /\ DOMAIN nodes' = {} /\ DOMAIN links' = {}
      /\ summary'.pkt_list = << >>
      /\ new_nodes' = << >>
      /\ canvas_nodes' = {} /\ canvas_links' = {}
      /\ now' = wall
      /\ UNCHANGED <<wall, n_packets, nested, todo, doomed>>
      /\ DOMAIN refs' \subseteq DOMAIN refs
  BY FreeType DEF StopCapture, EmptyCatalog, TrafficInit
<1>2. capture_status' = "STOP" /\ phase' = "redraw" /\ phase = "idle"
  BY DEF StopCapture, StopAllowed
<1>3. phase' \in Phases /\ << >> \in Seq(Item) /\ << >> \in Seq(Node)
  BY <1>2 DEF Phases
<1>4. TypeOK'
  BY <1>1, <1>2, <1>3 DEF IInv, TypeOK
<1>5. NewNodesValid' /\ ActiveNodeShown' /\ StoppedIsEmpty'
  BY <1>1, EmptyRange DEF NewNodesValid, ActiveNodeShown, StoppedIsEmpty
<1>6. CanvasLoopSound'
  BY <1>1, <1>2 DEF IInv, CanvasLoopSound
<1> QED
  BY <1>4, <1>5, <1>6 DEF IInv

\* start_capture opens new catalogs only where the old ones are empty
LEMMA StartCaptureIInv ==
  ASSUME IInv, StartCapture
  PROVE  IInv'
<1>1. /\ capture_status' = "PLAY"
      /\ UNCHANGED <<wall, now, n_packets, refs, new_nodes, canvas_nodes,
                     canvas_links, phase, nested, todo, doomed>>
  BY DEF StartCapture, memVars, canvasVars, loopVars
<1>2. CanvasLoopSound' /\ StoppedIsEmpty'
  BY <1>1 DEF IInv, CanvasLoopSound, StoppedIsEmpty
<1>3. CASE capture_status = "STOP"
  <2>1. /\ DOMAIN nodes' = {} /\ DOMAIN links' = {}
        /\ summary'.pkt_list = << >>
    BY <1>3 DEF StartCapture, EmptyCatalog, TrafficInit
  <2>2. << >> \in Seq(Item)
    OBVIOUS
  <2>3. TypeOK'
    BY <1>1, <2>1, <2>2 DEF IInv, TypeOK
  <2>4. NewNodesValid' /\ ActiveNodeShown'
    BY <1>1, <1>3, <2>1 DEF IInv, NewNodesValid, ActiveNodeShown, StoppedIsEmpty
  <2> QED
    BY <1>2, <2>3, <2>4 DEF IInv
<1>4. CASE capture_status # "STOP"
  <2>1. UNCHANGED <<summary, nodes, links>>
    BY <1>4 DEF StartCapture
  <2>2. TypeOK'
    BY <1>1, <2>1 DEF IInv, TypeOK
  <2>3. NewNodesValid' /\ ActiveNodeShown'
    BY <1>1, <2>1 DEF IInv, NewNodesValid, ActiveNodeShown
  <2> QED
    BY <1>2, <2>2, <2>3 DEF IInv
<1> QED
  BY <1>3, <1>4

\* Steps that touch neither catalogs nor canvas: the end of the redraw, the info
\* windows, the pause, the clock, stuttering.
LEMMA OtherStepsIInv ==
  ASSUME IInv,
         \/ RedrawDone \/ PauseCapture \/ UpdateInfoWindows \/ Tick
         \/ UNCHANGED vars
  PROVE  IInv'
<1>1. UNCHANGED <<n_packets, refs, nodes, links, summary, new_nodes, canvas_nodes,
                  canvas_links, nested, todo, doomed>>
  BY DEF RedrawDone, PauseCapture, UpdateInfoWindows, Tick, vars, memVars, catVars,
         canvasVars, loopVars
<1>2. /\ wall \in Nat /\ now \in Nat
      /\ wall' \in {wall, wall + 1} /\ now' \in {now, wall}
  BY DEF RedrawDone, PauseCapture, UpdateInfoWindows, Tick, vars, IInv, TypeOK
<1>3. /\ capture_status' \in {capture_status, "PAUSE"}
      /\ phase' \in {phase, "idle"}
      /\ phase' # phase => phase = "redraw"
  BY DEF RedrawDone, PauseCapture, UpdateInfoWindows, Tick, vars, loopVars
<1>4. wall' \in Nat /\ now' \in Nat
  BY <1>2
<1>5. phase' \in Phases /\ capture_status' \in {"STOP", "PLAY", "PAUSE"}
  BY <1>3 DEF IInv, TypeOK, Phases
<1>6. TypeOK'
  BY <1>1, <1>4, <1>5 DEF IInv, TypeOK
<1>7. NewNodesValid' /\ ActiveNodeShown'
  BY <1>1 DEF IInv, NewNodesValid, ActiveNodeShown
<1>8. CanvasLoopSound' /\ StoppedIsEmpty'
  BY <1>1, <1>3 DEF IInv, CanvasLoopSound, StoppedIsEmpty
<1> QED
  BY <1>6, <1>7, <1>8 DEF IInv

\* Every step of capture, update_diagram and the user keeps the inductive invariant.
LEMMA NextIInv == IInv /\ [Next]_vars => IInv'
<1> SUFFICES ASSUME IInv, [Next]_vars PROVE IInv'
  OBVIOUS
<1>1. CASE \E src, dst \in Node : GetPacket(src, dst)
  BY <1>1, GetPacketIInv
<1>2. CASE UpdateNodes
  BY <1>2, UpdateNodesIInv
<1>3. CASE CanvasNodeUpdate
  BY <1>3, CanvasNodeUpdateIInv
<1>4. CASE UpdateLinks
  BY <1>4, UpdateLinksIInv
<1>5. CASE StartCapture
  BY <1>5, StartCaptureIInv
<1>6. CASE StopCapture
  BY <1>6, StopCaptureIInv
<1>7. CASE \/ RedrawDone \/ PauseCapture \/ UpdateInfoWindows \/ Tick
           \/ UNCHANGED vars
  BY <1>7, OtherStepsIInv
<1> QED
  BY <1>1, <1>2, <1>3, <1>4, <1>5, <1>6, <1>7 DEF Next

\* The inductive invariant holds in every reachable state.
THEOREM Invariance == Spec => []IInv
BY InitIInv, NextIInv, PTL DEF Spec

\* Every variable keeps its type, for any number of nodes, packets and ticks.
THEOREM TypeCorrect == Spec => []TypeOK
<1>1. IInv => TypeOK
  BY DEF IInv
<1> QED
  BY <1>1, Invariance, PTL

\* new_nodes never holds a node that was deleted (node_delete), nor one twice.
THEOREM NewNodesNeverDangle == Spec => []NewNodesValid
<1>1. IInv => NewNodesValid
  BY DEF IInv
<1> QED
  BY <1>1, Invariance, PTL

\* A node with traffic is on the canvas to stay, or waits in new_nodes, in every
\* interleaving of packets with the nested loops of update_diagram.
THEOREM NoActiveNodeForgotten == Spec => []ActiveNodeShown
<1>1. IInv => ActiveNodeShown
  BY DEF IInv
<1> QED
  BY <1>1, Invariance, PTL

\* The canvas loop visits and deletes only nodes of the canvas tree.
THEOREM CanvasLoopCorrect == Spec => []CanvasLoopSound
<1>1. IInv => CanvasLoopSound
  BY DEF IInv
<1> QED
  BY <1>1, Invariance, PTL

-----------------------------------------------------------------------------
(* The counters.  The queue of a record is a list of sizes for each class  *)
(* a counter counts; what is proved of the sums below is proved of the     *)
(* loops of traffic_stats.c through minimal counterexamples, because the   *)
(* recursion in Total and SubItems is over data.                           *)

-----------------------------------------------------------------------------
(* Sums.                                                                   *)

\* s counts the bytes of the first items, for a list of sizes.
IsSum(s, sizes) ==
  s = [i \in 0 .. Len(sizes) |-> IF i = 0 THEN 0 ELSE s[i - 1] + sizes[i]]

\* The bytes of the first k items.
SumTo(sizes, k) == (CHOOSE s : IsSum(s, sizes))[k]

\* s counts the bytes of the first k items.
SumsUpTo(s, sizes, k) ==
  \A i \in 0 .. k : s[i] \in Nat /\ s[i] = IF i = 0 THEN 0 ELSE s[i - 1] + sizes[i]

\* A list of sizes has its sums.
LEMMA SumExists ==
  ASSUME NEW sizes \in Seq(Nat)
  PROVE  \E s : IsSum(s, sizes)
<1> DEFINE n == Len(sizes)
           Bad == {k \in 0 .. n : ~ \E s : SumsUpTo(s, sizes, k)}
<1>1. n \in Nat /\ \A i \in 1 .. n : sizes[i] \in Nat
  OBVIOUS
<1> HIDE DEF n
<1>2. Bad = {}
  <2> SUFFICES ASSUME Bad # {}
               PROVE  FALSE
    OBVIOUS
  <2>1. Bad \subseteq Nat
    BY <1>1
  <2> HIDE DEF Bad
  <2>2. PICK k \in Bad : \A j \in Bad : ~ (<<j, k>> \in OpToRel(<, Nat))
    BY ONLY <2>1, Bad # {}, NatLessThanWellFounded, WFMin
  <2>3. \A j \in Bad : ~ (j < k)
    BY <2>1, <2>2 DEF OpToRel
  <2>4. k \in 0 .. n /\ ~ \E s : SumsUpTo(s, sizes, k)
    BY <2>2 DEF Bad
  <2>5. CASE k = 0
    <3>1. SumsUpTo([i \in 0 .. 0 |-> 0], sizes, 0)
      BY DEF SumsUpTo
    <3> QED
      BY <2>4, <2>5, <3>1
  <2>6. CASE k # 0
    <3>1. k - 1 \in 0 .. n /\ k - 1 < k /\ k \in 1 .. n
      BY <1>1, <2>4, <2>6
    <3>2. PICK s : SumsUpTo(s, sizes, k - 1)
      BY <2>3, <3>1 DEF Bad
    <3> DEFINE t == [i \in 0 .. k |-> IF i = k THEN s[k - 1] + sizes[k] ELSE s[i]]
    <3>3. s[k - 1] \in Nat /\ sizes[k] \in Nat
      BY <1>1, <3>1, <3>2 DEF SumsUpTo
    <3>4. ASSUME NEW i \in 0 .. k
          PROVE  t[i] \in Nat /\ t[i] = IF i = 0 THEN 0 ELSE t[i - 1] + sizes[i]
      <4>1. CASE i = k
        <5>1. t[i] = s[k - 1] + sizes[k] /\ t[i - 1] = s[k - 1]
          BY <3>1, <4>1
        <5> QED
          BY <2>6, <3>3, <4>1, <5>1
      <4>2. CASE i # k
        <5>1. i \in 0 .. k - 1 /\ t[i] = s[i]
          BY <3>1, <4>2
        <5>2. i # 0 => i - 1 \in 0 .. k /\ i - 1 # k
          BY <3>1, <5>1
        <5>3. i # 0 => t[i - 1] = s[i - 1]
          BY <5>2
        <5> QED
          BY <3>2, <5>1, <5>3 DEF SumsUpTo
      <4> QED
        BY <4>1, <4>2
    <3> HIDE DEF t
    <3>5. SumsUpTo(t, sizes, k)
      BY <3>4 DEF SumsUpTo
    <3> QED
      BY <2>4, <3>5
  <2> QED
    BY <2>5, <2>6
<1>3. PICK s : SumsUpTo(s, sizes, n)
  <2>1. n \in 0 .. n
    BY <1>1
  <2> QED
    BY <1>2, <2>1
<1> DEFINE t == [i \in 0 .. n |-> s[i]]
<1>4. ASSUME NEW i \in 0 .. n
      PROVE  t[i] = IF i = 0 THEN 0 ELSE t[i - 1] + sizes[i]
  <2>1. i # 0 => i - 1 \in 0 .. n
    BY <1>1
  <2> QED
    BY <1>3, <2>1 DEF SumsUpTo
<1>5. t = [i \in 0 .. n |-> t[i]]
  OBVIOUS
<1> HIDE DEF t
<1>6. IsSum(t, sizes)
  BY <1>4, <1>5 DEF IsSum, n
<1> QED
  BY <1>6

\* Total and SumTo are what they are meant to be.
LEMMA SumIs ==
  ASSUME NEW sizes \in Seq(Nat)
  PROVE  /\ Total(sizes) = SumTo(sizes, Len(sizes))
         /\ SumTo(sizes, 0) = 0
         /\ \A i \in 1 .. Len(sizes) : SumTo(sizes, i) = SumTo(sizes, i - 1) + sizes[i]
<1> DEFINE P(s) == IsSum(s, sizes)
           sum == CHOOSE s : P(s)
           n == Len(sizes)
<1>1. P(sum)
  <2>1. \E s : P(s)
    BY SumExists
  <2> HIDE DEF P
  <2> QED
    BY <2>1, Zenon
<1>2. Total(sizes) = sum[n]
  BY DEF Total, IsSum
<1>3. \A k : SumTo(sizes, k) = sum[k]
  BY DEF SumTo
<1>4. n \in Nat
  OBVIOUS
<1> HIDE DEF sum, n
<1>5. sum = [i \in 0 .. n |-> IF i = 0 THEN 0 ELSE sum[i - 1] + sizes[i]]
  BY <1>1 DEF IsSum, n
<1>6. sum[0] = 0
  BY <1>4, <1>5
<1>7. \A i \in 1 .. n : sum[i] = sum[i - 1] + sizes[i]
  BY <1>4, <1>5
<1> QED
  BY <1>2, <1>3, <1>6, <1>7 DEF n

\* What holds at 0 and, whenever at a number, at the next, holds up to n.
LEMMA UpTo ==
  ASSUME NEW n \in Nat, NEW S, 0 \in S, \A i \in 1 .. n : i - 1 \in S => i \in S
  PROVE  \A i \in 0 .. n : i \in S
<1> DEFINE Bad == (0 .. n) \ S
<1>1. Bad = {}
  <2> SUFFICES ASSUME Bad # {}
               PROVE  FALSE
    OBVIOUS
  <2>1. Bad \subseteq Nat
    OBVIOUS
  <2> HIDE DEF Bad
  <2>2. PICK k \in Bad : \A j \in Bad : ~ (<<j, k>> \in OpToRel(<, Nat))
    BY ONLY <2>1, Bad # {}, NatLessThanWellFounded, WFMin
  <2>3. \A j \in Bad : ~ (j < k)
    BY <2>1, <2>2 DEF OpToRel
  <2>a. k \in 0 .. n /\ k \notin S /\ k # 0
    BY <2>2 DEF Bad
  <2>4. k \in 1 .. n /\ k - 1 \in 0 .. n /\ k - 1 < k /\ k \notin S
    BY ONLY n \in Nat, <2>a
  <2>5. k - 1 \in S
    BY <2>3, <2>4 DEF Bad
  <2> QED
    BY <2>4, <2>5
<1> QED
  BY <1>1

\* Sums are numbers.
LEMMA SumNat ==
  ASSUME NEW sizes \in Seq(Nat)
  PROVE  \A i \in 0 .. Len(sizes) : SumTo(sizes, i) \in Nat
<1> DEFINE n == Len(sizes)
           S == {i \in 0 .. n : SumTo(sizes, i) \in Nat}
<1>1. /\ n \in Nat /\ \A i \in 1 .. n : sizes[i] \in Nat
  OBVIOUS
<1>2. /\ SumTo(sizes, 0) = 0
      /\ \A i \in 1 .. n : SumTo(sizes, i) = SumTo(sizes, i - 1) + sizes[i]
  BY SumIs
<1> HIDE DEF n
<1>3. 0 \in S
  BY <1>1, <1>2
<1>4. ASSUME NEW i \in 1 .. n, i - 1 \in S
      PROVE  i \in S
  <2>1. SumTo(sizes, i) = SumTo(sizes, i - 1) + sizes[i] /\ sizes[i] \in Nat
    BY <1>1, <1>2
  <2>2. SumTo(sizes, i - 1) \in Nat /\ i \in 0 .. n
    BY <1>1, <1>4
  <2>3. SumTo(sizes, i) \in Nat
    BY ONLY <2>1, <2>2
  <2> QED
    BY <2>2, <2>3
<1> HIDE DEF S
<1>5. \A i \in 0 .. n : i \in S
  BY <1>1, <1>3, <1>4, UpTo
<1> QED
  BY <1>5 DEF n, S

\* Lists that begin alike have the same sums so far.
LEMMA SumSame ==
  ASSUME NEW a \in Seq(Nat), NEW b \in Seq(Nat), NEW k \in Nat, k <= Len(a), k <= Len(b),
         \A i \in 1 .. k : a[i] = b[i]
  PROVE  \A i \in 0 .. k : SumTo(a, i) = SumTo(b, i)
<1> DEFINE S == {i \in 0 .. k : SumTo(a, i) = SumTo(b, i)}
<1>1. /\ SumTo(a, 0) = 0 /\ SumTo(b, 0) = 0
      /\ \A i \in 1 .. k : /\ SumTo(a, i) = SumTo(a, i - 1) + a[i]
                           /\ SumTo(b, i) = SumTo(b, i - 1) + b[i]
  <2>1. \A i \in 1 .. k : i \in 1 .. Len(a) /\ i \in 1 .. Len(b)
    OBVIOUS
  <2> QED
    BY <2>1, SumIs
<1>2. 0 \in S /\ \A i \in 1 .. k : i - 1 \in S => i \in S
  BY <1>1
<1> HIDE DEF S
<1>3. \A i \in 0 .. k : i \in S
  BY <1>2, UpTo
<1> QED
  BY <1>3 DEF S

\* An item at the head adds its bytes.
LEMMA SumPush ==
  ASSUME NEW a \in Seq(Nat), NEW b \in Seq(Nat), Len(b) = Len(a) + 1,
         \A i \in 1 .. Len(a) : b[i + 1] = a[i]
  PROVE  SumTo(b, Len(b)) = b[1] + SumTo(a, Len(a))
<1> DEFINE n == Len(a)
           S == {i \in 0 .. n : SumTo(b, i + 1) = b[1] + SumTo(a, i)}
<1>1. n \in Nat /\ Len(b) = n + 1 /\ \A i \in 1 .. n : b[i + 1] = a[i]
  OBVIOUS
<1>2. /\ SumTo(a, 0) = 0 /\ SumTo(b, 0) = 0
      /\ \A i \in 1 .. n : SumTo(a, i) = SumTo(a, i - 1) + a[i]
      /\ \A i \in 1 .. n + 1 : SumTo(b, i) = SumTo(b, i - 1) + b[i]
  BY SumIs, <1>1
<1>3. b[1] \in Nat /\ \A i \in 1 .. n : a[i] \in Nat
  BY <1>1
<1>4. \A i \in 0 .. n : SumTo(a, i) \in Nat
  BY SumNat
<1> HIDE DEF n
<1>5. 0 \in S
  <2>1. SumTo(b, 1) = SumTo(b, 1 - 1) + b[1]
    BY <1>1, <1>2
  <2> QED
    BY <1>1, <1>2, <1>3, <2>1
<1>6. ASSUME NEW i \in 1 .. n, i - 1 \in S
      PROVE  i \in S
  <2>1. /\ SumTo(b, (i - 1) + 1) = b[1] + SumTo(a, i - 1) /\ (i - 1) + 1 = i
        /\ SumTo(a, i - 1) \in Nat
    BY <1>1, <1>4, <1>6
  <2>2. SumTo(b, i + 1) = SumTo(b, i) + b[i + 1]
    <3>1. i + 1 \in 1 .. n + 1 /\ (i + 1) - 1 = i
      BY <1>1
    <3>2. SumTo(b, i + 1) = SumTo(b, (i + 1) - 1) + b[i + 1]
      BY <1>2, <3>1
    <3> QED
      BY <3>1, <3>2
  <2>3. b[i + 1] = a[i] /\ a[i] \in Nat /\ SumTo(a, i) = SumTo(a, i - 1) + a[i]
    BY <1>1, <1>2, <1>3
  <2>4. SumTo(b, i + 1) = b[1] + SumTo(a, i)
    BY <1>3, <2>1, <2>2, <2>3
  <2> QED
    BY <1>1, <2>4
<1> HIDE DEF S
<1>7. \A i \in 0 .. n : i \in S
  BY <1>1, <1>5, <1>6, UpTo
<1>8. n \in S
  BY <1>1, <1>7
<1> QED
  BY <1>1, <1>8 DEF S, n

\* No bytes sum up to none.
LEMMA SumZero ==
  ASSUME NEW a \in Seq(Nat), \A i \in 1 .. Len(a) : a[i] = 0
  PROVE  SumTo(a, Len(a)) = 0
<1> DEFINE n == Len(a)
           S == {i \in 0 .. n : SumTo(a, i) = 0}
<1>1. n \in Nat /\ \A i \in 1 .. n : a[i] = 0
  OBVIOUS
<1>2. /\ SumTo(a, 0) = 0
      /\ \A i \in 1 .. n : SumTo(a, i) = SumTo(a, i - 1) + a[i]
  BY SumIs
<1> HIDE DEF n
<1>3. 0 \in S /\ \A i \in 1 .. n : i - 1 \in S => i \in S
  BY <1>1, <1>2
<1> HIDE DEF S
<1>4. \A i \in 0 .. n : i \in S
  BY <1>1, <1>3, UpTo
<1> QED
  BY <1>1, <1>4 DEF S, n

\* One item with bytes makes the sum more than 0.
LEMMA SumPositive ==
  ASSUME NEW a \in Seq(Nat), NEW j \in 1 .. Len(a), a[j] > 0
  PROVE  SumTo(a, Len(a)) > 0
<1> DEFINE n == Len(a)
           S == {i \in 0 .. n : i >= j => SumTo(a, i) > 0}
<1>1. n \in Nat /\ j \in 1 .. n /\ \A i \in 1 .. n : a[i] \in Nat
  OBVIOUS
<1>2. \A i \in 1 .. n : SumTo(a, i) = SumTo(a, i - 1) + a[i]
  BY SumIs
<1>3. \A i \in 0 .. n : SumTo(a, i) \in Nat
  BY SumNat
<1> HIDE DEF n
<1>4. 0 \in S
  BY <1>1
<1>5. ASSUME NEW i \in 1 .. n, i - 1 \in S
      PROVE  i \in S
  <2>1. /\ SumTo(a, i) = SumTo(a, i - 1) + a[i] /\ a[i] \in Nat
        /\ SumTo(a, i - 1) \in Nat /\ i - 1 \in 0 .. n
    BY <1>1, <1>2, <1>3
  <2>2. i - 1 >= j => SumTo(a, i - 1) > 0
    BY <1>5
  <2>3. i >= j => i = j \/ i - 1 >= j
    BY <1>1
  <2>4. i >= j => SumTo(a, i) > 0
    BY <2>1, <2>2, <2>3
  <2> QED
    BY <1>1, <2>4
<1> HIDE DEF S
<1>6. \A i \in 0 .. n : i \in S
  BY <1>1, <1>4, <1>5, UpTo
<1> QED
  BY <1>1, <1>6 DEF S, n

-----------------------------------------------------------------------------
(* One counter.                                                            *)

BasicFields == {"average", "aver_accu", "accumulated", "accu_packets", "last_time"}

\* A counter that counts b bytes, and is shown as quiet when there are none.
Counter(st, b) ==
  DOMAIN st = BasicFields /\ st.aver_accu = b /\ (b = 0 => st.average = 0)

\* basic_stats_reset
LEMMA ResetCounts ==
  ASSUME NEW t
  PROVE  Counter(BasicReset(t), 0)
BY DEF Counter, BasicReset, BasicFields

\* basic_stats_add
LEMMA AddCounts ==
  ASSUME NEW b \in Nat, NEW st, Counter(st, b), NEW val \in Nat \ {0}, NEW t
  PROVE  Counter(BasicAdd(st, val, t), val + b)
<1>1. DOMAIN BasicAdd(st, val, t) = BasicFields /\ BasicAdd(st, val, t).aver_accu = b + val
  BY DEF Counter, BasicAdd, BasicFields
<1> QED
  BY <1>1 DEF Counter

\* basic_stats_sub
LEMMA SubCounts ==
  ASSUME NEW b \in Nat, NEW val \in Nat, NEW st, Counter(st, b + val)
  PROVE  Counter(BasicSub(st, val), b)
<1>1. /\ DOMAIN BasicSub(st, val) = BasicFields
      /\ BasicSub(st, val).aver_accu = (b + val) - val
      /\ (b + val) = val => BasicSub(st, val).average = 0
  BY DEF Counter, BasicSub, BasicFields
<1> QED
  BY <1>1 DEF Counter

\* basic_stats_avg
LEMMA AvgCounts ==
  ASSUME NEW b \in Nat, NEW st, Counter(st, b), NEW ms \in Nat
  PROVE  Counter(BasicAvg(st, ms), b)
<1>1. CASE ms = 0
  BY <1>1 DEF BasicAvg
<1>2. CASE ms # 0
  <2>1. /\ DOMAIN BasicAvg(st, ms) = BasicFields
        /\ BasicAvg(st, ms).aver_accu = b
        /\ BasicAvg(st, ms).average = (8000 * b) \div ms
    BY <1>2 DEF Counter, BasicAvg, BasicFields
  <2>2. b = 0 => (8000 * b) \div ms = 0
    BY <1>2
  <2> QED
    BY <2>1, <2>2 DEF Counter
<1> QED
  BY <1>1, <1>2

-----------------------------------------------------------------------------
(* The counters of a record against the first items of its queue.          *)

\* The bytes at some positions among the first i of a queue.
Bytes(list, P, i) == SumTo(SizesAt(list, P), i)

\* The positions a counter counts.
NotTo(list, dir) == {i \in DOMAIN list : list[i].direction # dir}
Using(list, k) == {i \in DOMAIN list : k \in ProtoKeys(list[i].pkt)}

\* What is counted at each position.
LEMMA SizesType ==
  ASSUME NEW list \in Seq(Item), NEW P
  PROVE  /\ SizesAt(list, P) \in Seq(Nat) /\ Len(SizesAt(list, P)) = Len(list)
         /\ \A i \in 1 .. Len(list) :
              /\ list[i].pkt.size \in Nat \ {0}
              /\ SizesAt(list, P)[i] = IF i \in P THEN list[i].pkt.size ELSE 0
<1> DEFINE n == Len(list)
           s == SizesAt(list, P)
<1>1. n \in Nat /\ DOMAIN list = 1 .. n /\ \A i \in 1 .. n : list[i] \in Item
  OBVIOUS
<1>2. \A i \in 1 .. n : list[i].pkt.size \in Nat \ {0}
  BY <1>1, TrafficAssumption DEF Item, Packet
<1>3. s = [i \in 1 .. n |-> IF i \in P THEN list[i].pkt.size ELSE 0]
  BY <1>1 DEF SizesAt
<1> HIDE DEF n, s
<1>4. \A i \in 1 .. n : s[i] = IF i \in P THEN list[i].pkt.size ELSE 0
  BY <1>3
<1>5. \A i \in 1 .. n : s[i] \in Nat
  BY <1>2, <1>4
<1>6. s \in [1 .. n -> Nat]
  BY <1>3, <1>5
<1>7. s \in Seq(Nat) /\ Len(s) = n
  BY <1>1, <1>6
<1> QED
  BY <1>2, <1>4, <1>7 DEF n, s

\* What a queue holds, up to its end and up to the tail.
LEMMA BytesNat ==
  ASSUME NEW list \in Seq(Item), NEW P
  PROVE  /\ \A i \in 0 .. Len(list) : Bytes(list, P, i) \in Nat
         /\ BytesAt(list, P) = Bytes(list, P, Len(list))
<1>1. SizesAt(list, P) \in Seq(Nat) /\ Len(SizesAt(list, P)) = Len(list)
  BY SizesType
<1> QED
  BY <1>1, SumIs, SumNat DEF Bytes, BytesAt

\* One item more.
LEMMA BytesStep ==
  ASSUME NEW list \in Seq(Item), NEW P, NEW i \in 1 .. Len(list)
  PROVE  /\ i \in P => Bytes(list, P, i) = Bytes(list, P, i - 1) + list[i].pkt.size
         /\ i \notin P => Bytes(list, P, i) = Bytes(list, P, i - 1)
         /\ Bytes(list, P, i - 1) \in Nat
<1> DEFINE s == SizesAt(list, P)
<1>1. /\ s \in Seq(Nat) /\ Len(s) = Len(list)
      /\ s[i] = IF i \in P THEN list[i].pkt.size ELSE 0
  BY SizesType
<1> HIDE DEF s
<1>2. SumTo(s, i) = SumTo(s, i - 1) + s[i]
  BY <1>1, SumIs
<1>3. i - 1 \in 0 .. Len(list)
  OBVIOUS
<1>4. SumTo(s, i - 1) \in Nat
  BY <1>1, <1>3, SumNat
<1>5. i \in P => SumTo(s, i) = SumTo(s, i - 1) + list[i].pkt.size
  BY <1>1, <1>2
<1>6. i \notin P => SumTo(s, i) = SumTo(s, i - 1)
  BY <1>1, <1>2, <1>4
<1> QED
  BY <1>4, <1>5, <1>6 DEF Bytes, s

Fields == {"pkt_list", "stats", "stats_in", "stats_out", "stats_protos"}

\* The counters of tr are those of the first i items of a queue, whose protocols
\* all have an entry.
CountsTo(tr, list, i) ==
  /\ DOMAIN tr = Fields
  /\ Counter(tr.stats, Bytes(list, DOMAIN list, i))
  /\ Counter(tr.stats_in, Bytes(list, NotTo(list, "OUTBOUND"), i))
  /\ Counter(tr.stats_out, Bytes(list, NotTo(list, "INBOUND"), i))
  /\ \A k \in DOMAIN tr.stats_protos :
       Counter(tr.stats_protos[k], Bytes(list, Using(list, k), i))
  /\ \A j \in 1 .. i : ProtoKeys(list[j].pkt) \subseteq DOMAIN tr.stats_protos

\* A counter that counts an item if it is at one of its positions.
LEMMA SubOne ==
  ASSUME NEW list \in Seq(Item), NEW P, NEW i \in 1 .. Len(list), NEW st,
         Counter(st, Bytes(list, P, i))
  PROVE  /\ i \in P => Counter(BasicSub(st, list[i].pkt.size), Bytes(list, P, i - 1))
         /\ i \notin P => Counter(st, Bytes(list, P, i - 1))
<1>1. /\ i \in P => Bytes(list, P, i) = Bytes(list, P, i - 1) + list[i].pkt.size
      /\ i \notin P => Bytes(list, P, i) = Bytes(list, P, i - 1)
      /\ Bytes(list, P, i - 1) \in Nat
  BY BytesStep
<1>2. list[i].pkt.size \in Nat
  BY SizesType
<1>3. CASE i \in P
  BY <1>1, <1>2, <1>3, SubCounts
<1>4. CASE i \notin P
  BY <1>1, <1>4
<1> QED
  BY <1>3, <1>4

\* A turn of the purge takes the last item out of every counter that counts it;
\* protocol_stack_sub_pkt finds all its protocols.
LEMMA TurnCounts ==
  ASSUME NEW list \in Seq(Item), NEW i \in 1 .. Len(list), NEW tr, CountsTo(tr, list, i)
  PROVE  CountsTo(SubItem(list[i], tr), list, i - 1)
<1> DEFINE item == list[i]
           sub == SubItem(item, tr)
           keys == ProtoKeys(item.pkt)
<1>1. /\ DOMAIN tr = Fields
      /\ keys \subseteq DOMAIN tr.stats_protos
  <2>1. i \in 1 .. i
    OBVIOUS
  <2> QED
    BY <2>1 DEF CountsTo
<1>2. /\ DOMAIN sub = Fields
      /\ sub.stats = BasicSub(tr.stats, item.pkt.size)
      /\ sub.stats_in = IF item.direction # "OUTBOUND"
                        THEN BasicSub(tr.stats_in, item.pkt.size) ELSE tr.stats_in
      /\ sub.stats_out = IF item.direction # "INBOUND"
                         THEN BasicSub(tr.stats_out, item.pkt.size) ELSE tr.stats_out
      /\ sub.stats_protos = StackSub(tr.stats_protos, item.pkt)
  BY <1>1 DEF SubItem, Fields
<1>3. MissingLevels(tr.stats_protos, item.pkt) = {}
  BY <1>1 DEF MissingLevels
<1>4. /\ DOMAIN sub.stats_protos = DOMAIN tr.stats_protos
      /\ \A k \in DOMAIN tr.stats_protos :
           sub.stats_protos[k] = IF k \in keys THEN BasicSub(tr.stats_protos[k], item.pkt.size)
                                 ELSE tr.stats_protos[k]
  BY <1>2, <1>3 DEF StackSub
<1>5. DOMAIN list = 1 .. Len(list)
  OBVIOUS
<1>6. /\ i \in DOMAIN list
      /\ i \in NotTo(list, "OUTBOUND") <=> item.direction # "OUTBOUND"
      /\ i \in NotTo(list, "INBOUND") <=> item.direction # "INBOUND"
      /\ \A k : i \in Using(list, k) <=> k \in keys
  BY <1>5 DEF NotTo, Using
<1> HIDE DEF sub, keys
<1>7. Counter(sub.stats, Bytes(list, DOMAIN list, i - 1))
  BY <1>2, <1>6, SubOne DEF CountsTo
<1>8. Counter(sub.stats_in, Bytes(list, NotTo(list, "OUTBOUND"), i - 1))
  BY <1>2, <1>6, SubOne DEF CountsTo
<1>9. Counter(sub.stats_out, Bytes(list, NotTo(list, "INBOUND"), i - 1))
  BY <1>2, <1>6, SubOne DEF CountsTo
<1>10. ASSUME NEW k \in DOMAIN sub.stats_protos
       PROVE  Counter(sub.stats_protos[k], Bytes(list, Using(list, k), i - 1))
  <2>1. Counter(tr.stats_protos[k], Bytes(list, Using(list, k), i))
    BY <1>4, <1>10 DEF CountsTo
  <2> QED
    BY <1>4, <1>6, <1>10, <2>1, SubOne
<1>11. \A j \in 1 .. i - 1 : ProtoKeys(list[j].pkt) \subseteq DOMAIN sub.stats_protos
  <2>1. \A j \in 1 .. i - 1 : j \in 1 .. i
    OBVIOUS
  <2> QED
    BY <1>4, <2>1 DEF CountsTo
<1> QED
  BY <1>2, <1>7, <1>8, <1>9, <1>10, <1>11 DEF CountsTo, sub

\* f is the record after each turn of the loop over items.
IsPurge(f, tr, items) ==
  f = [i \in 0 .. Len(items) |->
         IF i = 0 THEN tr ELSE SubItem(items[Len(items) + 1 - i], f[i - 1])]

\* The loop comes to an end.
LEMMA PurgeExists ==
  ASSUME NEW tr, NEW S, NEW items \in Seq(S)
  PROVE  \E f : IsPurge(f, tr, items)
<1> DEFINE n == Len(items)
           Item1(i) == items[n + 1 - i]
           IsUpTo(f, k) ==
             \A i \in 0 .. k : f[i] = IF i = 0 THEN tr ELSE SubItem(Item1(i), f[i - 1])
           T == {k \in 0 .. n : \E f : IsUpTo(f, k)}
<1>1. n \in Nat
  OBVIOUS
<1>2. ASSUME NEW f
      PROVE  IsPurge(f, tr, items) <=>
               f = [i \in 0 .. n |-> IF i = 0 THEN tr ELSE SubItem(Item1(i), f[i - 1])]
  BY DEF IsPurge
<1> HIDE DEF n, Item1
<1>3. 0 \in T
  <2> DEFINE g == [i \in 0 .. 0 |-> tr]
  <2>1. \A i \in 0 .. 0 : g[i] = IF i = 0 THEN tr ELSE SubItem(Item1(i), g[i - 1])
    OBVIOUS
  <2> HIDE DEF g
  <2>2. IsUpTo(g, 0)
    BY <2>1
  <2>3. 0 \in 0 .. n
    BY <1>1
  <2> QED
    BY <2>2, <2>3
<1>4. ASSUME NEW k \in 1 .. n, k - 1 \in T
      PROVE  k \in T
  <2>1. PICK f : IsUpTo(f, k - 1)
    BY <1>4
  <2> DEFINE g == [i \in 0 .. k |-> IF i = k THEN SubItem(Item1(k), f[k - 1]) ELSE f[i]]
  <2>2. ASSUME NEW i \in 0 .. k
        PROVE  g[i] = IF i = 0 THEN tr ELSE SubItem(Item1(i), g[i - 1])
    <3>1. CASE i = k
      <4>1. k - 1 \in 0 .. k /\ k - 1 # k /\ k # 0
        BY <1>1
      <4>2. g[i] = SubItem(Item1(k), f[k - 1]) /\ g[k - 1] = f[k - 1]
        BY <3>1, <4>1
      <4> QED
        BY <3>1, <4>1, <4>2
    <3>2. CASE i # k
      <4>1. i \in 0 .. k - 1 /\ g[i] = f[i]
        BY <1>1, <3>2
      <4>2. i # 0 => i - 1 \in 0 .. k /\ i - 1 # k
        BY <1>1, <4>1
      <4>3. i # 0 => g[i - 1] = f[i - 1]
        BY <4>2
      <4> QED
        BY <2>1, <4>1, <4>3
    <3> QED
      BY <3>1, <3>2
  <2> HIDE DEF g
  <2>3. IsUpTo(g, k)
    BY <2>2
  <2> QED
    BY <1>1, <2>3
<1> HIDE DEF T
<1>5. \A i \in 0 .. n : i \in T
  BY ONLY <1>1, <1>3, <1>4, UpTo
<1>6. n \in T
  BY <1>1, <1>5
<1>7. PICK f : IsUpTo(f, n)
  BY <1>6 DEF T
<1> DEFINE g == [i \in 0 .. n |-> f[i]]
<1>8. ASSUME NEW i \in 0 .. n
      PROVE  g[i] = IF i = 0 THEN tr ELSE SubItem(Item1(i), g[i - 1])
  <2>1. i # 0 => i - 1 \in 0 .. n
    BY <1>1
  <2>2. i # 0 => g[i - 1] = f[i - 1]
    BY <2>1
  <2> QED
    BY <1>7, <2>2
<1>9. g = [i \in 0 .. n |-> g[i]]
  OBVIOUS
<1> HIDE DEF g
<1>10. g = [i \in 0 .. n |-> IF i = 0 THEN tr ELSE SubItem(Item1(i), g[i - 1])]
  BY <1>8, <1>9
<1> QED
  BY <1>2, <1>10

\* SubItems is the record after the last turn.
LEMMA PurgeIs ==
  ASSUME NEW tr, NEW S, NEW items \in Seq(S)
  PROVE  \E f : /\ f[0] = tr
                /\ \A i \in 1 .. Len(items) : f[i] = SubItem(items[Len(items) + 1 - i], f[i - 1])
                /\ SubItems(tr, items) = f[Len(items)]
<1> DEFINE P(f) == IsPurge(f, tr, items)
           after == CHOOSE f : P(f)
           n == Len(items)
           Turn(i, r) == SubItem(items[n + 1 - i], r)
<1>1. P(after)
  <2>1. \E f : P(f)
    BY PurgeExists
  <2> HIDE DEF P
  <2> QED
    BY <2>1, Zenon
<1>2. SubItems(tr, items) = after[n]
  BY DEF SubItems, IsPurge
<1>3. n \in Nat
  OBVIOUS
<1>4. after = [i \in 0 .. n |-> IF i = 0 THEN tr ELSE Turn(i, after[i - 1])]
  BY <1>1 DEF IsPurge
<1>5. \A i : Turn(i, after[i - 1]) = SubItem(items[Len(items) + 1 - i], after[i - 1])
  OBVIOUS
<1>6. n = Len(items)
  OBVIOUS
<1> HIDE DEF after, n, Turn
<1>7. after[0] = tr
  BY <1>3, <1>4
<1>8. \A i \in 1 .. n : after[i] = Turn(i, after[i - 1])
  BY <1>3, <1>4
<1> QED
  BY <1>2, <1>5, <1>6, <1>7, <1>8

\* items are the last of list.
EndOf(list, items) ==
  /\ Len(items) <= Len(list)
  /\ \A j \in 1 .. Len(items) : items[j] = list[Len(list) - Len(items) + j]

\* The purge takes the items it drops out of the counters.
LEMMA LoopCounts ==
  ASSUME NEW list \in Seq(Item), NEW tr, CountsTo(tr, list, Len(list)),
         NEW items \in Seq(Item), EndOf(list, items)
  PROVE  CountsTo(SubItems(tr, items), list, Len(list) - Len(items))
<1> DEFINE n == Len(list)
           m == Len(items)
<1>1. PICK f : /\ f[0] = tr
               /\ \A i \in 1 .. Len(items) : f[i] = SubItem(items[Len(items) + 1 - i], f[i - 1])
               /\ SubItems(tr, items) = f[Len(items)]
  BY PurgeIs
<1> DEFINE S == {i \in 0 .. m : CountsTo(f[i], list, n - i)}
<1>2. /\ n \in Nat /\ m \in Nat /\ m <= n
      /\ \A j \in 1 .. m : items[j] = list[n - m + j]
  BY DEF EndOf
<1>3. CountsTo(f[0], list, n)
  BY <1>1
<1>4. \A i \in 1 .. m : f[i] = SubItem(items[m + 1 - i], f[i - 1])
  BY <1>1
<1>5. SubItems(tr, items) = f[m]
  BY <1>1
<1>6. \A i \in 1 .. n : \A r : CountsTo(r, list, i) => CountsTo(SubItem(list[i], r), list, i - 1)
  BY TurnCounts
<1> HIDE DEF n, m
<1>7. 0 \in S
  <2>1. n - 0 = n /\ 0 \in 0 .. m
    BY <1>2
  <2> QED
    BY <1>3, <2>1
<1>8. ASSUME NEW i \in 1 .. m, i - 1 \in S
      PROVE  i \in S
  <2>1. /\ n - (i - 1) \in 1 .. n /\ (n - (i - 1)) - 1 = n - i /\ i \in 0 .. m
        /\ m + 1 - i \in 1 .. m /\ n - m + (m + 1 - i) = n - (i - 1)
    BY <1>2
  <2>2. f[i] = SubItem(list[n - (i - 1)], f[i - 1])
    BY <1>2, <1>4, <2>1
  <2>3. CountsTo(f[i - 1], list, n - (i - 1))
    BY <1>8
  <2>4. CountsTo(f[i], list, n - i)
    BY <1>6, <2>1, <2>2, <2>3
  <2> QED
    BY <2>1, <2>4
<1> HIDE DEF S
<1>9. \A i \in 0 .. m : i \in S
  BY ONLY <1>2, <1>7, <1>8, UpTo
<1>10. m \in S
  BY <1>2, <1>9
<1>11. CountsTo(f[m], list, n - m)
  BY <1>10 DEF S
<1> QED
  BY <1>5, <1>11 DEF n, m

-----------------------------------------------------------------------------
(* What happens to the bytes of a class when its queue changes.            *)

\* A new item at the head moves the others one position on.
LEMMA BytesPush ==
  ASSUME NEW list \in Seq(Item), NEW item \in Item, NEW P, NEW Q,
         \A i \in 1 .. Len(list) : i + 1 \in Q <=> i \in P
  PROVE  LET longer == << item >> \o list
         IN  /\ 1 \in Q => Bytes(longer, Q, Len(longer))
                             = item.pkt.size + Bytes(list, P, Len(list))
             /\ 1 \notin Q => Bytes(longer, Q, Len(longer)) = Bytes(list, P, Len(list))
<1> DEFINE longer == << item >> \o list
           a == SizesAt(list, P)
           b == SizesAt(longer, Q)
           n == Len(list)
<1>1. /\ longer \in Seq(Item) /\ Len(longer) = n + 1 /\ n \in Nat
      /\ longer[1] = item /\ \A i \in 1 .. n : longer[i + 1] = list[i]
  OBVIOUS
<1>2. /\ a \in Seq(Nat) /\ Len(a) = n
      /\ \A i \in 1 .. n : a[i] = IF i \in P THEN list[i].pkt.size ELSE 0
  BY SizesType
<1> HIDE DEF longer
<1>3. /\ b \in Seq(Nat) /\ Len(b) = Len(longer)
      /\ \A i \in 1 .. Len(longer) : b[i] = IF i \in Q THEN longer[i].pkt.size ELSE 0
  BY <1>1, SizesType
<1>4. \A i \in 1 .. n : i + 1 \in Q <=> i \in P
  OBVIOUS
<1> HIDE DEF a, b, n
<1>5. ASSUME NEW i \in 1 .. n
      PROVE  b[i + 1] = a[i]
  <2>1. i + 1 \in 1 .. Len(longer)
    BY <1>1
  <2>2. b[i + 1] = IF i + 1 \in Q THEN longer[i + 1].pkt.size ELSE 0
    BY <1>3, <2>1
  <2>3. longer[i + 1] = list[i] /\ (i + 1 \in Q <=> i \in P)
    BY <1>1, <1>4
  <2> QED
    BY <1>2, <2>2, <2>3
<1>6. SumTo(b, Len(b)) = b[1] + SumTo(a, Len(a))
  BY <1>1, <1>2, <1>3, <1>5, SumPush
<1>7. b[1] = IF 1 \in Q THEN item.pkt.size ELSE 0
  <2>1. 1 \in 1 .. Len(longer)
    BY <1>1
  <2> QED
    BY <1>1, <1>3, <2>1
<1>8. SumTo(a, n) \in Nat
  <2>1. n \in 0 .. Len(a)
    BY <1>1, <1>2
  <2> QED
    BY <1>2, <2>1, SumNat
<1>9. /\ 1 \in Q => SumTo(b, Len(longer)) = item.pkt.size + SumTo(a, n)
      /\ 1 \notin Q => SumTo(b, Len(longer)) = SumTo(a, n)
  BY <1>2, <1>3, <1>6, <1>7, <1>8
<1> QED
  BY <1>9 DEF Bytes, a, b, n, longer

\* Queues that begin alike, counted at the same positions.
LEMMA BytesSame ==
  ASSUME NEW list \in Seq(Item), NEW other \in Seq(Item), NEW P, NEW Q,
         NEW k \in Nat, k <= Len(list), k <= Len(other),
         \A i \in 1 .. k : list[i] = other[i] /\ (i \in P <=> i \in Q)
  PROVE  Bytes(list, P, k) = Bytes(other, Q, k)
<1> DEFINE a == SizesAt(list, P)
           b == SizesAt(other, Q)
<1>1. /\ a \in Seq(Nat) /\ Len(a) = Len(list)
      /\ \A i \in 1 .. Len(list) : a[i] = IF i \in P THEN list[i].pkt.size ELSE 0
  BY SizesType
<1>2. /\ b \in Seq(Nat) /\ Len(b) = Len(other)
      /\ \A i \in 1 .. Len(other) : b[i] = IF i \in Q THEN other[i].pkt.size ELSE 0
  BY SizesType
<1> HIDE DEF a, b
<1>3. ASSUME NEW i \in 1 .. k
      PROVE  a[i] = b[i]
  <2>1. i \in 1 .. Len(list) /\ i \in 1 .. Len(other)
    OBVIOUS
  <2> QED
    BY <1>1, <1>2, <2>1
<1>4. \A i \in 0 .. k : SumTo(a, i) = SumTo(b, i)
  BY <1>1, <1>2, <1>3, SumSame
<1> QED
  BY <1>4 DEF Bytes, a, b

\* A class without items has no bytes, one with an item has some.
LEMMA BytesNone ==
  ASSUME NEW list \in Seq(Item), NEW P
  PROVE  /\ (\A i \in 1 .. Len(list) : i \notin P) => Bytes(list, P, Len(list)) = 0
         /\ \A j \in 1 .. Len(list) : j \in P => Bytes(list, P, Len(list)) > 0
<1> DEFINE a == SizesAt(list, P)
<1>1. /\ a \in Seq(Nat) /\ Len(a) = Len(list)
      /\ \A i \in 1 .. Len(list) :
           /\ list[i].pkt.size \in Nat \ {0}
           /\ a[i] = IF i \in P THEN list[i].pkt.size ELSE 0
  BY SizesType
<1> HIDE DEF a
<1>2. (\A i \in 1 .. Len(list) : i \notin P) => SumTo(a, Len(a)) = 0
  BY <1>1, SumZero
<1>3. ASSUME NEW j \in 1 .. Len(list), j \in P
      PROVE  SumTo(a, Len(a)) > 0
  <2>1. j \in 1 .. Len(a) /\ a[j] > 0
    BY <1>1, <1>3
  <2> QED
    BY <1>1, <2>1, SumPositive
<1> QED
  BY <1>1, <1>2, <1>3 DEF Bytes, a

-----------------------------------------------------------------------------
(* One record.                                                             *)

\* The counters of a record are those of its whole queue.
Balanced(tr) == tr.pkt_list \in Seq(Item) /\ CountsTo(tr, tr.pkt_list, Len(tr.pkt_list))

\* Counters that are those of the queue are exact.
LEMMA BalancedExact ==
  ASSUME NEW tr, Balanced(tr)
  PROVE  Exact(tr)
<1> DEFINE list == tr.pkt_list
           n == Len(list)
<1>1. list \in Seq(Item) /\ DOMAIN list = 1 .. n
  BY DEF Balanced
<1>2. \A P : BytesAt(list, P) = Bytes(list, P, n)
  BY <1>1, BytesNat
<1>3. CountsTo(tr, list, n)
  BY DEF Balanced
<1> HIDE DEF list, n
<1>4. /\ tr.stats.aver_accu = BytesAt(list, DOMAIN list)
      /\ tr.stats_in.aver_accu = BytesAt(list, NotTo(list, "OUTBOUND"))
      /\ tr.stats_out.aver_accu = BytesAt(list, NotTo(list, "INBOUND"))
      /\ \A k \in DOMAIN tr.stats_protos :
           tr.stats_protos[k].aver_accu = BytesAt(list, Using(list, k))
  BY <1>2, <1>3 DEF CountsTo, Counter
<1>5. Matches(tr)
  BY <1>4 DEF Matches, NotTo, Using, list
<1>6. StackCovers(tr)
  <2>1. \A j \in DOMAIN list : ProtoKeys(list[j].pkt) \subseteq DOMAIN tr.stats_protos
    BY <1>1, <1>3 DEF CountsTo
  <2> QED
    BY <2>1 DEF StackCovers, ToSet, list
<1>7. AverageZero(tr)
  <2>1. \A st, b : Counter(st, b) => (st.aver_accu = 0 => st.average = 0)
    BY DEF Counter
  <2>2. \A k \in DOMAIN tr.stats_protos :
          tr.stats_protos[k].aver_accu = 0 => tr.stats_protos[k].average = 0
    BY <1>3, <2>1 DEF CountsTo
  <2>3. /\ tr.stats.aver_accu = 0 => tr.stats.average = 0
        /\ tr.stats_in.aver_accu = 0 => tr.stats_in.average = 0
        /\ tr.stats_out.aver_accu = 0 => tr.stats_out.average = 0
    BY <1>3, <2>1 DEF CountsTo
  <2> QED
    BY <2>2, <2>3 DEF AverageZero, Range
<1> QED
  BY <1>5, <1>6, <1>7 DEF Exact

\* traffic_stats_init
LEMMA InitBalanced ==
  ASSUME NEW t
  PROVE  Balanced(TrafficInit(t))
<1> DEFINE tr == TrafficInit(t)
           none == tr.pkt_list
<1>1. /\ DOMAIN tr = Fields /\ none = << >>
      /\ tr.stats = BasicReset(t) /\ tr.stats_in = BasicReset(t)
      /\ tr.stats_out = BasicReset(t) /\ DOMAIN tr.stats_protos = {}
  BY DEF TrafficInit, Fields, EmptyStack
<1>2. none \in Seq(Item) /\ Len(none) = 0
  BY <1>1
<1> HIDE DEF tr, none
<1>3. ASSUME NEW P
      PROVE  Bytes(none, P, 0) = 0
  <2>1. \A i \in 1 .. Len(none) : i \notin P
    BY <1>2
  <2>2. Bytes(none, P, Len(none)) = 0
    BY <1>2, <2>1, BytesNone
  <2> QED
    BY <1>2, <2>2
<1>4. CountsTo(tr, none, 0)
  BY <1>1, <1>3, ResetCounts DEF CountsTo
<1> QED
  BY <1>2, <1>4 DEF Balanced, none, tr

\* protocol_stack_add_pkt: a protocol without an entry had no bytes queued.
LEMMA StackAddCounts ==
  ASSUME NEW tr, Balanced(tr), NEW item \in Item, NEW t
  PROVE  LET longer == << item >> \o tr.pkt_list
             stk    == StackAdd(tr.stats_protos, item.pkt, t)
         IN  /\ \A k \in DOMAIN stk :
                  Counter(stk[k], Bytes(longer, Using(longer, k), Len(longer)))
             /\ \A j \in 1 .. Len(longer) : ProtoKeys(longer[j].pkt) \subseteq DOMAIN stk
<1> DEFINE list == tr.pkt_list
           n == Len(list)
           longer == << item >> \o list
           old == tr.stats_protos
           keys == ProtoKeys(item.pkt)
           val == item.pkt.size
           stk == StackAdd(old, item.pkt, t)
<1>1. list \in Seq(Item) /\ CountsTo(tr, list, n)
  BY DEF Balanced
<1>2. /\ \A k \in DOMAIN old : Counter(old[k], Bytes(list, Using(list, k), n))
      /\ \A j \in 1 .. n : ProtoKeys(list[j].pkt) \subseteq DOMAIN old
  BY <1>1 DEF CountsTo
<1>3. /\ DOMAIN stk = DOMAIN old \cup keys
      /\ \A k \in DOMAIN stk :
           /\ k \in keys /\ k \in DOMAIN old => stk[k] = BasicAdd(old[k], val, t)
           /\ k \in keys /\ k \notin DOMAIN old => stk[k] = BasicAdd(BasicReset(t), val, t)
           /\ k \notin keys => stk[k] = old[k]
  BY DEF StackAdd
<1>4. val \in Nat \ {0}
  BY TrafficAssumption DEF Item, Packet
<1> HIDE DEF stk, keys, old, val
<1>5. /\ longer \in Seq(Item) /\ Len(longer) = n + 1 /\ n \in Nat
      /\ longer[1] = item /\ \A i \in 1 .. n : longer[i + 1] = list[i]
      /\ DOMAIN list = 1 .. n /\ DOMAIN longer = 1 .. n + 1
  BY <1>1
<1>6. ASSUME NEW k
      PROVE  /\ Bytes(list, Using(list, k), n) \in Nat
             /\ k \in keys => Bytes(longer, Using(longer, k), Len(longer))
                                = val + Bytes(list, Using(list, k), n)
             /\ k \notin keys => Bytes(longer, Using(longer, k), Len(longer))
                                   = Bytes(list, Using(list, k), n)
             /\ k \notin DOMAIN old => Bytes(list, Using(list, k), n) = 0
  <2> HIDE DEF list, n
  <2>1. \A i \in 1 .. n : i + 1 \in Using(longer, k) <=> i \in Using(list, k)
    <3>1. \A i \in 1 .. n : i + 1 \in 1 .. n + 1
      BY <1>5
    <3> QED
      BY <1>5, <3>1 DEF Using
  <2>2. 1 \in Using(longer, k) <=> k \in keys
    <3>1. 1 \in DOMAIN longer
      BY <1>5
    <3> QED
      BY <1>5, <3>1 DEF Using, keys
  <2>3. /\ 1 \in Using(longer, k) => Bytes(longer, Using(longer, k), Len(longer))
                                       = item.pkt.size + Bytes(list, Using(list, k), n)
        /\ 1 \notin Using(longer, k) => Bytes(longer, Using(longer, k), Len(longer))
                                          = Bytes(list, Using(list, k), n)
    BY <1>1, <2>1, BytesPush DEF n
  <2>4. k \notin DOMAIN old => \A i \in 1 .. n : i \notin Using(list, k)
    BY <1>2, <1>5 DEF Using
  <2>5. k \notin DOMAIN old => Bytes(list, Using(list, k), n) = 0
    BY <1>1, <2>4, BytesNone DEF n
  <2>6. Bytes(list, Using(list, k), n) \in Nat
    <3>1. n \in 0 .. Len(list)
      BY <1>5 DEF n
    <3> QED
      BY <1>1, <3>1, BytesNat
  <2> QED
    BY <2>2, <2>3, <2>5, <2>6 DEF val
<1> HIDE DEF list, n, longer
<1>7. ASSUME NEW k \in DOMAIN stk
      PROVE  Counter(stk[k], Bytes(longer, Using(longer, k), Len(longer)))
  <2> DEFINE b == Bytes(list, Using(list, k), n)
             c == Bytes(longer, Using(longer, k), Len(longer))
  <2>1. /\ b \in Nat /\ (k \in keys => c = val + b) /\ (k \notin keys => c = b)
        /\ k \notin DOMAIN old => b = 0
    BY <1>6
  <2>2. k \in DOMAIN old => Counter(old[k], b)
    BY <1>2
  <2> HIDE DEF b, c
  <2>3. Counter(stk[k], c)
    <3>1. CASE k \in keys /\ k \in DOMAIN old
      BY <1>3, <1>4, <2>1, <2>2, <3>1, AddCounts
    <3>2. CASE k \in keys /\ k \notin DOMAIN old
      <4>1. Counter(BasicAdd(BasicReset(t), val, t), val + b)
        BY <1>4, <2>1, <3>2, ResetCounts, AddCounts
      <4> QED
        BY <1>3, <2>1, <3>2, <4>1
    <3>3. CASE k \notin keys
      BY <1>3, <2>1, <2>2, <3>3
    <3> QED
      BY <3>1, <3>2, <3>3
  <2> QED
    BY <2>3 DEF c
<1>8. ASSUME NEW j \in 1 .. Len(longer)
      PROVE  ProtoKeys(longer[j].pkt) \subseteq DOMAIN stk
  <2>1. CASE j = 1
    BY <1>3, <1>5, <2>1 DEF keys
  <2>2. CASE j # 1
    <3>1. j - 1 \in 1 .. n /\ (j - 1) + 1 = j
      BY <1>5, <2>2
    <3>2. longer[j] = list[j - 1]
      BY <1>5, <3>1
    <3> QED
      BY <1>2, <1>3, <3>1, <3>2
  <2> QED
    BY <2>1, <2>2
<1> QED
  BY <1>7, <1>8 DEF stk, longer, list, old

\* traffic_stats_add_packet
LEMMA AddBalanced ==
  ASSUME NEW tr, Balanced(tr), NEW pkt \in Packet, NEW dir \in Directions, NEW t
  PROVE  Balanced(TrafficAddPacket(tr, pkt, dir, t))
<1> DEFINE item == [pkt |-> pkt, direction |-> dir]
           list == tr.pkt_list
           longer == << item >> \o list
           n == Len(list)
           val == pkt.size
           new == TrafficAddPacket(tr, pkt, dir, t)
<1>1. item \in Item /\ item.pkt = pkt /\ item.direction = dir
  BY DEF Item
<1>2. list \in Seq(Item) /\ CountsTo(tr, list, n)
  BY DEF Balanced
<1>3. /\ DOMAIN new = Fields
      /\ new.pkt_list = longer
      /\ new.stats = BasicAdd(tr.stats, val, t)
      /\ dir # "OUTBOUND" => new.stats_in = BasicAdd(tr.stats_in, val, t)
      /\ dir = "OUTBOUND" => new.stats_in = tr.stats_in
      /\ dir # "INBOUND" => new.stats_out = BasicAdd(tr.stats_out, val, t)
      /\ dir = "INBOUND" => new.stats_out = tr.stats_out
      /\ new.stats_protos = StackAdd(tr.stats_protos, pkt, t)
  BY DEF TrafficAddPacket, Enqueue, Fields
<1>4. val \in Nat \ {0}
  BY TrafficAssumption DEF Packet
<1> HIDE DEF item, new, val
<1>5. /\ longer \in Seq(Item) /\ Len(longer) = n + 1 /\ n \in Nat
      /\ longer[1] = item /\ \A i \in 1 .. n : longer[i + 1] = list[i]
      /\ DOMAIN list = 1 .. n /\ DOMAIN longer = 1 .. n + 1
  BY <1>1, <1>2
<1>6. \A P : Bytes(list, P, n) \in Nat
  <2>1. n \in 0 .. Len(list)
    OBVIOUS
  <2> HIDE DEF list, n
  <2> QED
    BY <1>2, <2>1, BytesNat
<1>7. /\ \A k \in DOMAIN new.stats_protos :
           Counter(new.stats_protos[k], Bytes(longer, Using(longer, k), Len(longer)))
      /\ \A j \in 1 .. Len(longer) :
           ProtoKeys(longer[j].pkt) \subseteq DOMAIN new.stats_protos
  BY <1>1, <1>3, StackAddCounts
<1>8. ASSUME NEW P, NEW Q, \A i \in 1 .. n : i + 1 \in Q <=> i \in P
      PROVE  /\ 1 \in Q => Bytes(longer, Q, Len(longer)) = val + Bytes(list, P, n)
             /\ 1 \notin Q => Bytes(longer, Q, Len(longer)) = Bytes(list, P, n)
  BY <1>1, <1>2, <1>8, BytesPush DEF val
<1>9. /\ Counter(tr.stats, Bytes(list, DOMAIN list, n))
      /\ Counter(tr.stats_in, Bytes(list, NotTo(list, "OUTBOUND"), n))
      /\ Counter(tr.stats_out, Bytes(list, NotTo(list, "INBOUND"), n))
  BY <1>2 DEF CountsTo
<1> HIDE DEF list, n, longer
<1>10. \A i \in 1 .. n : i + 1 \in 1 .. n + 1
  BY <1>5
<1>11. Counter(new.stats, Bytes(longer, DOMAIN longer, Len(longer)))
  <2>1. 1 \in DOMAIN longer /\ \A i \in 1 .. n : i + 1 \in DOMAIN longer <=> i \in DOMAIN list
    BY <1>5, <1>10
  <2>2. Bytes(longer, DOMAIN longer, Len(longer)) = val + Bytes(list, DOMAIN list, n)
    BY <1>8, <2>1
  <2> QED
    BY <1>3, <1>4, <1>6, <1>9, <2>2, AddCounts
<1>12. ASSUME NEW d
       PROVE  /\ 1 \in NotTo(longer, d) <=> dir # d
              /\ \A i \in 1 .. n : i + 1 \in NotTo(longer, d) <=> i \in NotTo(list, d)
  <2>1. 1 \in DOMAIN longer
    BY <1>5
  <2>2. 1 \in NotTo(longer, d) <=> dir # d
    BY <1>1, <1>5, <2>1 DEF NotTo
  <2>3. \A i \in 1 .. n : i + 1 \in NotTo(longer, d) <=> i \in NotTo(list, d)
    BY <1>5, <1>10 DEF NotTo
  <2> QED
    BY <2>2, <2>3
<1>13. Counter(new.stats_in, Bytes(longer, NotTo(longer, "OUTBOUND"), Len(longer)))
  <2>1. CASE dir # "OUTBOUND"
    <3>1. Bytes(longer, NotTo(longer, "OUTBOUND"), Len(longer))
            = val + Bytes(list, NotTo(list, "OUTBOUND"), n)
      BY <1>8, <1>12, <2>1
    <3> QED
      BY <1>3, <1>4, <1>6, <1>9, <2>1, <3>1, AddCounts
  <2>2. CASE dir = "OUTBOUND"
    <3>1. Bytes(longer, NotTo(longer, "OUTBOUND"), Len(longer))
            = Bytes(list, NotTo(list, "OUTBOUND"), n)
      BY <1>8, <1>12, <2>2
    <3> QED
      BY <1>3, <1>9, <2>2, <3>1
  <2> QED
    BY <2>1, <2>2
<1>14. Counter(new.stats_out, Bytes(longer, NotTo(longer, "INBOUND"), Len(longer)))
  <2>1. CASE dir # "INBOUND"
    <3>1. Bytes(longer, NotTo(longer, "INBOUND"), Len(longer))
            = val + Bytes(list, NotTo(list, "INBOUND"), n)
      BY <1>8, <1>12, <2>1
    <3> QED
      BY <1>3, <1>4, <1>6, <1>9, <2>1, <3>1, AddCounts
  <2>2. CASE dir = "INBOUND"
    <3>1. Bytes(longer, NotTo(longer, "INBOUND"), Len(longer))
            = Bytes(list, NotTo(list, "INBOUND"), n)
      BY <1>8, <1>12, <2>2
    <3> QED
      BY <1>3, <1>9, <2>2, <3>1
  <2> QED
    BY <2>1, <2>2
<1>15. CountsTo(new, longer, Len(longer))
  BY <1>3, <1>7, <1>11, <1>13, <1>14 DEF CountsTo
<1> QED
  BY <1>3, <1>5, <1>15 DEF Balanced, new

\* The first k items of a queue, alone.
LEMMA PrefixCounts ==
  ASSUME NEW list \in Seq(Item), NEW k \in 0 .. Len(list), NEW tr, CountsTo(tr, list, k)
  PROVE  CountsTo(tr, SubSeq(list, 1, k), k)
<1> DEFINE first == SubSeq(list, 1, k)
<1>1. /\ k \in Nat /\ first \in Seq(Item) /\ Len(first) = k
      /\ \A i \in 1 .. k : first[i] = list[i]
      /\ DOMAIN first = 1 .. k /\ DOMAIN list = 1 .. Len(list)
      /\ \A i \in 1 .. k : i \in 1 .. Len(list)
  OBVIOUS
<1> HIDE DEF first
<1>2. ASSUME NEW P, NEW Q, \A i \in 1 .. k : i \in P <=> i \in Q
      PROVE  Bytes(list, P, k) = Bytes(first, Q, k)
  <2>1. /\ k <= Len(list) /\ k <= Len(first)
        /\ \A i \in 1 .. k : list[i] = first[i] /\ (i \in P <=> i \in Q)
    BY <1>1, <1>2
  <2> QED
    BY <1>1, <2>1, BytesSame
<1>3. /\ Bytes(list, DOMAIN list, k) = Bytes(first, DOMAIN first, k)
      /\ \A d : Bytes(list, NotTo(list, d), k) = Bytes(first, NotTo(first, d), k)
      /\ \A p : Bytes(list, Using(list, p), k) = Bytes(first, Using(first, p), k)
  <2>1. \A i \in 1 .. k : i \in DOMAIN list <=> i \in DOMAIN first
    BY <1>1
  <2>2. ASSUME NEW d
        PROVE  \A i \in 1 .. k : i \in NotTo(list, d) <=> i \in NotTo(first, d)
    BY <1>1 DEF NotTo
  <2>3. ASSUME NEW p
        PROVE  \A i \in 1 .. k : i \in Using(list, p) <=> i \in Using(first, p)
    BY <1>1 DEF Using
  <2>4. Bytes(list, DOMAIN list, k) = Bytes(first, DOMAIN first, k)
    BY <1>2, <2>1
  <2>5. ASSUME NEW d
        PROVE  Bytes(list, NotTo(list, d), k) = Bytes(first, NotTo(first, d), k)
    BY <1>2, <2>2
  <2>6. ASSUME NEW p
        PROVE  Bytes(list, Using(list, p), k) = Bytes(first, Using(first, p), k)
    BY <1>2, <2>3
  <2> QED
    BY <2>4, <2>5, <2>6
<1>4. CountsTo(tr, first, k)
  BY <1>1, <1>3 DEF CountsTo
<1> QED
  BY <1>4 DEF first

\* The purge takes the end of the queue and leaves its beginning.
LEMMA KeptDropped ==
  ASSUME NEW list \in Seq(Item), NEW e, NEW t
  PROVE  LET k == KeptLength(list, e, t)
             items == Dropped(list, e, t)
         IN  /\ k \in 0 .. Len(list)
             /\ Kept(list, e, t) = SubSeq(list, 1, k) /\ Len(Kept(list, e, t)) = k
             /\ items \in Seq(Item) /\ Len(list) - Len(items) = k
             /\ EndOf(list, items)
<1> DEFINE k == KeptLength(list, e, t)
           items == SubSeq(list, k + 1, Len(list))
           n == Len(list)
<1>1. k \in 0 .. n /\ n \in Nat
  BY KeptLengthBounds
<1> HIDE DEF k
<1>2. Len(SubSeq(list, 1, k)) = k
  BY <1>1
<1>3. /\ items \in Seq(Item) /\ Len(items) = n - k
      /\ \A j \in 1 .. n - k : items[j] = list[k + j]
  BY <1>1
<1> HIDE DEF items, n
<1>4. n - Len(items) = k /\ Len(items) <= n
  BY <1>1, <1>3
<1>5. EndOf(list, items)
  BY <1>3, <1>4 DEF EndOf, n
<1> QED
  BY <1>1, <1>2, <1>3, <1>4, <1>5 DEF k, items, n, Kept, Dropped

\* protocol_stack_purge_expired drops no protocol that still has bytes.
LEMMA StackPurgeCounts ==
  ASSUME NEW list \in Seq(Item), NEW tr, CountsTo(tr, list, Len(list)), NEW e, NEW t
  PROVE  LET stk == StackPurgeExpired(tr.stats_protos, e, t)
         IN  /\ \A k \in DOMAIN stk : Counter(stk[k], Bytes(list, Using(list, k), Len(list)))
             /\ \A j \in 1 .. Len(list) : ProtoKeys(list[j].pkt) \subseteq DOMAIN stk
<1> DEFINE old == tr.stats_protos
           stk == StackPurgeExpired(old, e, t)
           n == Len(list)
<1>1. /\ \A k \in DOMAIN old : Counter(old[k], Bytes(list, Using(list, k), n))
      /\ \A j \in 1 .. n : ProtoKeys(list[j].pkt) \subseteq DOMAIN old
  BY DEF CountsTo
<1>2. /\ DOMAIN stk \subseteq DOMAIN old
      /\ \A k \in DOMAIN stk : stk[k] = old[k]
      /\ \A k \in DOMAIN old : ~ (old[k].aver_accu <= 0) => k \in DOMAIN stk
  BY DEF StackPurgeExpired
<1> HIDE DEF old, stk
<1>3. ASSUME NEW j \in 1 .. n, NEW k \in ProtoKeys(list[j].pkt)
      PROVE  k \in DOMAIN stk
  <2>1. k \in DOMAIN old
    BY <1>1, <1>3
  <2>2. j \in Using(list, k)
    BY <1>3 DEF Using
  <2> DEFINE b == Bytes(list, Using(list, k), n)
  <2>3. b > 0
    BY <2>2, BytesNone
  <2>4. b \in Nat
    <3>1. n \in 0 .. Len(list)
      OBVIOUS
    <3> HIDE DEF n
    <3> QED
      BY <3>1, BytesNat
  <2>5. old[k].aver_accu = b
    BY <1>1, <2>1 DEF Counter
  <2> HIDE DEF b
  <2> QED
    BY <1>2, <2>1, <2>3, <2>4, <2>5
<1> QED
  BY <1>1, <1>2, <1>3 DEF old, stk, n

\* traffic_stats_purge_expired_packets and protocol_stack_purge_expired
LEMMA PurgeBalanced ==
  ASSUME NEW tr, Balanced(tr), NEW a, NEW e, NEW t
  PROVE  Balanced(TrafficPurge(tr, a, e, t))
<1> DEFINE list == tr.pkt_list
           k == KeptLength(list, a, t)
           items == Dropped(list, a, t)
           kept == Kept(list, a, t)
           sub == SubItems(tr, items)
           new == TrafficPurge(tr, a, e, t)
<1>1. list \in Seq(Item) /\ CountsTo(tr, list, Len(list))
  BY DEF Balanced
<1>2. /\ k \in 0 .. Len(list)
      /\ kept = SubSeq(list, 1, k) /\ Len(kept) = k
      /\ items \in Seq(Item) /\ Len(list) - Len(items) = k
      /\ EndOf(list, items)
  BY <1>1, KeptDropped
<1>3. /\ DOMAIN new = Fields
      /\ new.pkt_list = kept
      /\ new.stats = IF kept = << >> THEN [sub.stats EXCEPT !.average = 0] ELSE sub.stats
      /\ new.stats_in = IF kept = << >> THEN [sub.stats_in EXCEPT !.average = 0]
                        ELSE sub.stats_in
      /\ new.stats_out = IF kept = << >> THEN [sub.stats_out EXCEPT !.average = 0]
                         ELSE sub.stats_out
      /\ new.stats_protos = StackPurgeExpired(sub.stats_protos, e, t)
  BY DEF TrafficPurge, Fields
<1> HIDE DEF list, k, items, kept, sub, new
<1>4. CountsTo(sub, list, k)
  BY <1>1, <1>2, LoopCounts DEF sub
<1>5. CountsTo(sub, kept, Len(kept)) /\ kept \in Seq(Item)
  BY <1>1, <1>2, <1>4, PrefixCounts
<1>6. /\ \A p \in DOMAIN new.stats_protos :
           Counter(new.stats_protos[p], Bytes(kept, Using(kept, p), Len(kept)))
      /\ \A j \in 1 .. Len(kept) : ProtoKeys(kept[j].pkt) \subseteq DOMAIN new.stats_protos
  BY <1>3, <1>5, StackPurgeCounts
<1>7. \A st, b : Counter(st, b) => Counter([st EXCEPT !.average = 0], b)
  BY DEF Counter, BasicFields
<1>8. /\ Counter(new.stats, Bytes(kept, DOMAIN kept, Len(kept)))
      /\ Counter(new.stats_in, Bytes(kept, NotTo(kept, "OUTBOUND"), Len(kept)))
      /\ Counter(new.stats_out, Bytes(kept, NotTo(kept, "INBOUND"), Len(kept)))
  BY <1>3, <1>5, <1>7 DEF CountsTo
<1>9. CountsTo(new, kept, Len(kept))
  BY <1>3, <1>6, <1>8 DEF CountsTo
<1> QED
  BY <1>3, <1>5, <1>9 DEF Balanced, new

\* traffic_stats_update
LEMMA UpdateBalanced ==
  ASSUME NEW tr, Balanced(tr), NEW a \in Nat, NEW e, NEW t
  PROVE  Balanced(TrafficUpdate(tr, a, e, t))
<1> DEFINE p == TrafficPurge(tr, a, e, t)
           new == TrafficUpdate(tr, a, e, t)
           list == p.pkt_list
           n == Len(list)
<1>1. Balanced(p)
  BY PurgeBalanced
<1>2. new = IF list = << >> THEN p
            ELSE [p EXCEPT !.stats = BasicAvg(@, a),
                           !.stats_in = BasicAvg(@, a),
                           !.stats_out = BasicAvg(@, a),
                           !.stats_protos = StackAvg(@, a)]
  BY DEF TrafficUpdate
<1> HIDE DEF p, new
<1>3. CASE list = << >>
  BY <1>1, <1>2, <1>3 DEF new
<1>4. CASE list # << >>
  <2>1. list \in Seq(Item) /\ CountsTo(p, list, n)
    BY <1>1 DEF Balanced
  <2>2. DOMAIN p = Fields
    BY <2>1 DEF CountsTo
  <2>3. /\ DOMAIN new = Fields
        /\ new.pkt_list = list
        /\ new.stats = BasicAvg(p.stats, a)
        /\ new.stats_in = BasicAvg(p.stats_in, a)
        /\ new.stats_out = BasicAvg(p.stats_out, a)
        /\ new.stats_protos = StackAvg(p.stats_protos, a)
    BY <1>2, <1>4, <2>2 DEF Fields
  <2>4. /\ DOMAIN new.stats_protos = DOMAIN p.stats_protos
        /\ \A k \in DOMAIN p.stats_protos :
             new.stats_protos[k] = BasicAvg(p.stats_protos[k], a)
    BY <2>3 DEF StackAvg
  <2>5. n \in 0 .. Len(list)
    BY <2>1
  <2> HIDE DEF list, n
  <2>6. \A P : Bytes(list, P, n) \in Nat
    BY <2>1, <2>5, BytesNat
  <2>7. \A st, b : b \in Nat /\ Counter(st, b) => Counter(BasicAvg(st, a), b)
    BY AvgCounts
  <2>8. CountsTo(new, list, n)
    <3>1. Counter(new.stats, Bytes(list, DOMAIN list, n))
      BY <2>1, <2>3, <2>6, <2>7 DEF CountsTo
    <3>2. Counter(new.stats_in, Bytes(list, NotTo(list, "OUTBOUND"), n))
      BY <2>1, <2>3, <2>6, <2>7 DEF CountsTo
    <3>3. Counter(new.stats_out, Bytes(list, NotTo(list, "INBOUND"), n))
      BY <2>1, <2>3, <2>6, <2>7 DEF CountsTo
    <3>4. \A k \in DOMAIN new.stats_protos :
            Counter(new.stats_protos[k], Bytes(list, Using(list, k), n))
      BY <2>1, <2>4, <2>6, <2>7 DEF CountsTo
    <3>5. \A j \in 1 .. n : ProtoKeys(list[j].pkt) \subseteq DOMAIN new.stats_protos
      BY <2>1, <2>4 DEF CountsTo
    <3> QED
      BY <2>3, <3>1, <3>2, <3>3, <3>4, <3>5 DEF CountsTo
  <2>9. Balanced(new)
    BY <2>1, <2>3, <2>8 DEF Balanced, n
  <2> QED
    BY <2>9 DEF new
<1> QED
  BY <1>3, <1>4

-----------------------------------------------------------------------------
(* All records.                                                            *)

AllBalanced(catalog) == \A k \in DOMAIN catalog : Balanced(catalog[k])

\* The inductive invariant of the counters: what a record shows is what its queue
\* holds, and its stack covers the queue.
CountersInv == AllBalanced(nodes) /\ AllBalanced(links) /\ Balanced(summary)

\* A packet filed in a catalog.
LEMMA AddToBalanced ==
  ASSUME NEW catalog, AllBalanced(catalog), NEW key, NEW pkt \in Packet,
         NEW dir \in Directions, NEW t
  PROVE  AllBalanced(AddTo(catalog, key, pkt, dir, t))
<1> DEFINE tr == IF key \in DOMAIN catalog THEN catalog[key] ELSE TrafficInit(t)
           new == AddTo(catalog, key, pkt, dir, t)
<1>1. Balanced(tr)
  BY InitBalanced DEF AllBalanced
<1>2. /\ DOMAIN new = DOMAIN catalog \cup {key}
      /\ new[key] = TrafficAddPacket(tr, pkt, dir, t)
      /\ \A k \in DOMAIN new : k # key => k \in DOMAIN catalog /\ new[k] = catalog[k]
  BY DEF AddTo
<1> HIDE DEF tr, new
<1>3. Balanced(new[key])
  BY <1>1, <1>2, AddBalanced
<1>4. AllBalanced(new)
  BY <1>2, <1>3 DEF AllBalanced
<1> QED
  BY <1>4 DEF new

\* Nothing is counted before the first capture.
LEMMA InitCounters == Init => CountersInv
<1> SUFFICES ASSUME Init PROVE CountersInv
  OBVIOUS
<1>1. DOMAIN nodes = {} /\ DOMAIN links = {} /\ summary = TrafficInit(0)
  BY DEF Init, EmptyCatalog
<1> QED
  BY <1>1, InitBalanced DEF CountersInv, AllBalanced

\* packet_acquired files the packet in four records, two of them maybe the same.
LEMMA GetPacketCounters ==
  ASSUME TypeOK, CountersInv, NEW src \in Node, NEW dst \in Node, GetPacket(src, dst)
  PROVE  CountersInv'
<1>1. PICK t \in (wall - MaxLag)..wall, size \in Sizes, names \in NameStacks :
        /\ t >= 0
        /\ PacketAcquired(src, dst,
             [id |-> n_packets + 1, size |-> size, ts |-> t, names |-> names])
  BY DEF GetPacket
<1> DEFINE pkt == [id |-> n_packets + 1, size |-> size, ts |-> t, names |-> names]
           dir == IF src <= dst THEN "OUTBOUND" ELSE "INBOUND"
<1>2. pkt \in Packet
  <2>1. wall \in Nat /\ n_packets \in Nat /\ MaxLag \in Nat
    BY TrafficAssumption DEF TypeOK
  <2>2. t \in Nat /\ n_packets + 1 \in Nat \ {0}
    BY <1>1, <2>1
  <2> QED
    BY <2>2 DEF Packet
<1>3. /\ "OUTBOUND" \in Directions /\ "INBOUND" \in Directions
      /\ "EITHERBOUND" \in Directions /\ dir \in Directions
  BY DEF Directions
<1>4. /\ nodes' = AddTo(AddTo(nodes, src, pkt, "OUTBOUND", t), dst, pkt, "INBOUND", t)
      /\ links' = AddTo(links, LinkId(src, dst), pkt, dir, t)
      /\ summary' = TrafficAddPacket(summary, pkt, "EITHERBOUND", t)
  BY <1>1 DEF PacketAcquired
<1> HIDE DEF pkt, dir
<1>5. AllBalanced(nodes')
  <2>1. AllBalanced(AddTo(nodes, src, pkt, "OUTBOUND", t))
    BY <1>2, <1>3, AddToBalanced DEF CountersInv
  <2> QED
    BY <1>2, <1>3, <1>4, <2>1, AddToBalanced
<1>6. AllBalanced(links')
  BY <1>2, <1>3, <1>4, AddToBalanced DEF CountersInv
<1>7. Balanced(summary')
  BY <1>2, <1>3, <1>4, AddBalanced DEF CountersInv
<1> QED
  BY <1>5, <1>6, <1>7 DEF CountersInv, AllBalanced

\* update_diagram ages the nodes first, then links and summary, and deletes
\* whole records; stop_capture and start_capture leave empty ones.
LEMMA NextCounters == IInv /\ CountersInv /\ [Next]_vars => CountersInv'
<1> SUFFICES ASSUME IInv, CountersInv, [Next]_vars
             PROVE  CountersInv'
  OBVIOUS
<1>1. AveragingTime \in Nat
  BY TrafficAssumption
<1>2. CASE \E src, dst \in Node : GetPacket(src, dst)
  <2>1. TypeOK
    BY DEF IInv
  <2> QED
    BY <1>2, <2>1, GetPacketCounters
<1>3. CASE UpdateNodes
  <2>1. /\ DOMAIN nodes' \subseteq DOMAIN nodes
        /\ \A n \in DOMAIN nodes' :
             nodes'[n] = TrafficUpdate(nodes[n], AveragingTime, ProtoNodeTimeout, wall)
        /\ UNCHANGED <<links, summary>>
    BY <1>3 DEF UpdateNodes, NodesUpdated
  <2>2. AllBalanced(nodes')
    BY <1>1, <2>1, UpdateBalanced DEF CountersInv, AllBalanced
  <2> QED
    BY <2>1, <2>2 DEF CountersInv, AllBalanced
<1>4. CASE UpdateLinks
  <2>1. /\ DOMAIN links' \subseteq DOMAIN links
        /\ \A l \in DOMAIN links' :
             links'[l] = TrafficUpdate(links[l], AveragingTime, ProtoLinkTimeout, now)
        /\ summary' = TrafficUpdate(summary, AveragingTime, ProtoTimeout, now)
        /\ UNCHANGED nodes
    BY <1>4 DEF UpdateLinks, LinksUpdated
  <2>2. AllBalanced(links') /\ Balanced(summary')
    BY <1>1, <2>1, UpdateBalanced DEF CountersInv, AllBalanced
  <2> QED
    BY <2>1, <2>2 DEF CountersInv, AllBalanced
<1>5. CASE StartCapture \/ StopCapture
  <2>1. \/ UNCHANGED <<nodes, links, summary>>
        \/ DOMAIN nodes' = {} /\ DOMAIN links' = {} /\ summary' = TrafficInit(now)
    BY <1>5 DEF StartCapture, StopCapture, EmptyCatalog
  <2> QED
    BY <2>1, InitBalanced DEF CountersInv, AllBalanced
<1>6. CASE \/ CanvasNodeUpdate \/ RedrawDone \/ PauseCapture \/ UpdateInfoWindows \/ Tick
           \/ UNCHANGED vars
  <2>1. UNCHANGED <<nodes, links, summary>>
    BY <1>6 DEF CanvasNodeUpdate, RedrawDone, PauseCapture, UpdateInfoWindows, Tick, vars,
                catVars
  <2> QED
    BY <2>1 DEF CountersInv, AllBalanced
<1> QED
  BY <1>2, <1>3, <1>4, <1>5, <1>6 DEF Next

\* The counters of every node, every link and the summary agree with the queues,
\* every protocol of a queued packet has its entry, and what has stopped has
\* average 0 (traffic_stats.c, protocols.c), in every reachable state.
THEOREM CountersMatchQueues == Spec => []AccuMatchesQueue
<1>1. CountersInv => AccuMatchesQueue
  BY BalancedExact DEF CountersInv, AllBalanced, AccuMatchesQueue
<1>2. Spec => []CountersInv
  BY InitCounters, NextCounters, Invariance, PTL DEF Spec
<1> QED
  BY <1>1, <1>2, PTL
=============================================================================
