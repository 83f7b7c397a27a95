------------------------------ MODULE Traffic ------------------------------
(***************************************************************************)
(* From a captured packet to the picture: packet_acquired files each       *)
(* packet in four traffic_stats_t records (source node, destination node,  *)
(* link, protocol summary); update_diagram ages those records, deletes     *)
(* what has expired and brings the canvas in line with the catalogs.       *)
(*                                                                         *)
(* EtherApe is single threaded here, but update_diagram runs nested        *)
(* gtk_main_iteration loops, once after drawing a canvas node and once     *)
(* before it returns.  Packets, clock readings and the user's commands are *)
(* then handled in the middle of an update.  The variable phase says how   *)
(* far the running update has come.                                        *)
(***************************************************************************)
EXTENDS TrafficStats

CONSTANTS
  Node,             \* node ids; node_id_compare orders them, here by <
  NameStacks,       \* possible protonames of a packet
  Sizes,            \* possible packet sizes
  AveragingTime,    \* pref.averaging_time
  NodeTimeout,      \* pref.node_timeout_time, 0 = never
  GuiNodeTimeout,   \* pref.gui_node_timeout_time, 0 = never
  LinkTimeout,      \* pref.link_timeout_time, 0 = never
  ProtoNodeTimeout, \* pref.proto_node_timeout_time, 0 = never
  ProtoLinkTimeout, \* pref.proto_link_timeout_time, 0 = never
  ProtoTimeout,     \* pref.proto_timeout_time, 0 = never
  MaxLag,           \* how far a packet's timestamp may lie behind the clock
  MaxTime,          \* bound on the clock
  MaxPackets        \* bound on n_packets

ASSUME TrafficAssumption ==
  /\ Node \subseteq Int
  /\ Sizes \subseteq Nat \ {0}
  /\ {AveragingTime, NodeTimeout, GuiNodeTimeout, LinkTimeout, ProtoNodeTimeout,
      ProtoLinkTimeout, ProtoTimeout, MaxLag, MaxTime, MaxPackets} \subseteq Nat

VARIABLES
  capture_status,    \* "STOP", "PLAY" or "PAUSE"
  wall,              \* the clock gettimeofday reads
  now,               \* appdata.now
  n_packets,         \* appdata.n_packets, also names the packets
  refs,              \* ref_count of every packet_info_t that is allocated
  total_mem_packets, \* appdata.total_mem_packets
  nodes,             \* nodes catalog: node id -> its node_stats
  links,             \* links catalog: <<src, dst>> -> its link_stats
  summary,           \* protosummary_stats
  new_nodes,         \* list of nodes the canvas has not been told of
  canvas_nodes,      \* node ids that have a canvas_node_t
  canvas_links,      \* link ids that have a canvas_link_t
  phase,             \* "idle", "canvas" or "redraw": progress of update_diagram
  nested,            \* the canvas loop may be running gtk_main_iteration
  todo,              \* canvas nodes canvas_node_update has still to visit
  doomed             \* delete_list of diagram_update_nodes

vars == <<capture_status, wall, now, n_packets, refs, total_mem_packets, nodes,
          links, summary, new_nodes, canvas_nodes, canvas_links, phase, nested,
          todo, doomed>>

memVars    == <<n_packets, refs, total_mem_packets>>
catVars    == <<nodes, links, summary, new_nodes>>
canvasVars == <<canvas_nodes, canvas_links>>
loopVars   == <<phase, nested, todo, doomed>>

EmptyCatalog == [n \in {} |-> 0]

LinkIds == {l \in Node \X Node : l[1] <= l[2]}

Init ==
  /\ capture_status = "STOP"
  /\ wall = 0 /\ now = 0
  /\ n_packets = 0 /\ total_mem_packets = 0
  /\ refs = EmptyCatalog
  /\ nodes = EmptyCatalog /\ links = EmptyCatalog
  /\ summary = TrafficInit(0)
  /\ new_nodes = << >>
  /\ canvas_nodes = {} /\ canvas_links = {}
  /\ phase = "idle" /\ nested = FALSE /\ todo = {} /\ doomed = {}

-----------------------------------------------------------------------------
(* Reference counts.  packet_list_item_delete takes one reference per item *)
(* and frees the packet when none is left.                                 *)

\* the queue items of packet p in a catalog: <<record, position in its queue>>
Held(catalog, p) ==
  {x \in UNION {{k} \X DOMAIN catalog[k].pkt_list : k \in DOMAIN catalog} :
     catalog[x[1]].pkt_list[x[2]].pkt.id = p}

OccursIn(catalog, p) == Cardinality(Held(catalog, p))

\* protosummary_stats as a catalog of one record
SummaryCatalog == [protosummary |-> summary]

\* refs after taken[p] items of every packet p have been deleted
Release(r, taken) ==
  [p \in {q \in DOMAIN r : taken[q] = 0 \/ r[q] - taken[q] >= 1} |-> r[p] - taken[p]]

Free(taken) ==
  /\ refs' = Release(refs, taken)
  /\ total_mem_packets' =
       total_mem_packets - Cardinality(DOMAIN refs \ DOMAIN Release(refs, taken))

-----------------------------------------------------------------------------
(* Packets.                                                                *)

\* Handlers run from the main loop: between two updates or inside a nested loop.
EventsRun == phase \in {"idle", "redraw"} \/ nested

AddTo(catalog, key, pkt, dir, t) ==
  LET tr == IF key \in DOMAIN catalog THEN catalog[key] ELSE TrafficInit(t)
  IN  [k \in DOMAIN catalog \cup {key} |->
         IF k = key THEN TrafficAddPacket(tr, pkt, dir, t) ELSE catalog[k]]

\* Mutant: a node is announced with every packet.
AnnounceAlways(list, catalog, n) == << n >> \o list

\* A node whose queue has just got its first packet is announced.
Announce(list, catalog, n) ==
  IF Len(catalog[n].pkt_list) = 1 THEN << n >> \o list ELSE list

\* Mutant: one queue takes no reference.
ThreeRefs == 3

\* src, dst, link and summary each hold one packet_list_item_t
RefsPerPacket == 4

\* Mutant: the two directions of a conversation get links of their own.
LinkIdAsSent(src, dst) == <<src, dst>>

\* add_link_packet orders the two ends by node_id_compare
LinkId(src, dst) == IF src <= dst THEN <<src, dst>> ELSE <<dst, src>>

PacketAcquired(src, dst, pkt) ==
  LET t  == pkt.ts
      c1 == AddTo(nodes, src, pkt, "OUTBOUND", t)
      c2 == AddTo(c1, dst, pkt, "INBOUND", t)
  IN  /\ n_packets' = pkt.id
      /\ total_mem_packets' = total_mem_packets + 1
      /\ refs' = [p \in DOMAIN refs \cup {pkt.id} |->
                    IF p = pkt.id THEN RefsPerPacket ELSE refs[p]]
      /\ nodes' = c2
      /\ new_nodes' = Announce(Announce(new_nodes, c1, src), c2, dst)
      /\ links' = AddTo(links, LinkId(src, dst), pkt,
                        IF src <= dst THEN "OUTBOUND" ELSE "INBOUND", t)
      /\ summary' = TrafficAddPacket(summary, pkt, "EITHERBOUND", t)

\* the capture source is installed; a paused capture keeps it
Capturing == capture_status \in {"PLAY", "PAUSE"}

\* get_live_packet: appdata.now becomes the timestamp libpcap gave the packet.
GetPacket(src, dst) ==
  /\ EventsRun
  /\ Capturing
  /\ n_packets < MaxPackets
  /\ \E t \in (wall - MaxLag)..wall, size \in Sizes, names \in NameStacks :
       /\ t >= 0
       /\ now' = t
       /\ PacketAcquired(src, dst,
            [id |-> n_packets + 1, size |-> size, ts |-> t, names |-> names])
  /\ UNCHANGED <<capture_status, wall, canvasVars, loopVars>>

-----------------------------------------------------------------------------
(* update_diagram.                                                         *)

NodeExpired(tr, t) ==
  /\ tr.pkt_list = << >>
  /\ NodeTimeout # 0
  /\ t - tr.stats.last_time >= NodeTimeout

\* Mutant: a link expires although packets of it are queued.
LinkExpiredBusy(tr, t) ==
  LinkTimeout # 0 /\ t - tr.stats.last_time >= LinkTimeout

LinkExpired(tr, t) ==
  /\ tr.pkt_list = << >>
  /\ LinkTimeout # 0
  /\ t - tr.stats.last_time >= LinkTimeout

\* node_update on every node, then removal of the expired ones
NodesUpdated(t) ==
  LET upd == [n \in DOMAIN nodes |->
                TrafficUpdate(nodes[n], AveragingTime, ProtoNodeTimeout, t)]
  IN  [n \in {m \in DOMAIN nodes : ~NodeExpired(upd[m], t)} |-> upd[n]]

LinksUpdated(t) ==
  LET upd == [l \in DOMAIN links |->
                TrafficUpdate(links[l], AveragingTime, ProtoLinkTimeout, t)]
  IN  [l \in {k \in DOMAIN links : ~LinkExpired(upd[k], t)} |-> upd[l]]

\* Mutant: a node that has packets can be hidden.
DisplayNodeByAge(tr, t) ==
  ~ (GuiNodeTimeout # 0 /\ t - tr.stats.last_time >= GuiNodeTimeout)

\* display_node
DisplayNode(tr, t) ==
  ~ (/\ GuiNodeTimeout # 0
     /\ t - tr.stats.last_time >= GuiNodeTimeout
     /\ tr.pkt_list = << >>)

\* new_nodes_pop until it returns NULL; nodes that left the catalog are skipped
PoppedNodes(catalog) == {n \in Range(new_nodes) : n \in DOMAIN catalog}

\* the purge takes an item out of its queue
Aged(catalog, item, t) ==
  item[2] > KeptLength(catalog[item[1]].pkt_list, AveragingTime, t)

\* items of packet p that the purge takes out of a catalog's queues
AgedIn(catalog, p, t) == Cardinality({x \in Held(catalog, p) : Aged(catalog, x, t)})

\* update_diagram up to the loop over the canvas nodes
UpdateNodes ==
  /\ EventsRun
  /\ phase = "idle"                      \* ~already_updating
  /\ capture_status # "PAUSE"
  /\ now' = wall
  /\ nodes' = NodesUpdated(wall)
  /\ Free([p \in DOMAIN refs |-> AgedIn(nodes, p, wall)])
  /\ new_nodes' = << >>
  /\ canvas_nodes' = canvas_nodes \cup
       {n \in PoppedNodes(nodes') : DisplayNode(nodes'[n], wall)}
  /\ phase' = "canvas" /\ nested' = FALSE
  /\ todo' = canvas_nodes' /\ doomed' = {}
  /\ UNCHANGED <<capture_status, wall, n_packets, links, summary, canvas_links>>

\* canvas_node_update on the next node of the tree
CanvasNodeUpdate ==
  /\ phase = "canvas"
  /\ \E n \in todo :
       /\ \A m \in todo : n <= m
       /\ todo' = todo \ {n}
       /\ IF n \in DOMAIN nodes /\ DisplayNode(nodes[n], now)
            THEN nested' = TRUE /\ UNCHANGED doomed
            ELSE nested' = FALSE /\ doomed' = doomed \cup {n}
  /\ UNCHANGED <<capture_status, wall, now, memVars, catVars, canvasVars, phase>>

\* the rest of diagram_update_nodes, then links, summary and info windows
UpdateLinks ==
  /\ phase = "canvas" /\ todo = {}
  /\ canvas_nodes' = canvas_nodes \ doomed
  /\ links' = LinksUpdated(now)
  /\ canvas_links' = DOMAIN links'
  /\ summary' = TrafficUpdate(summary, AveragingTime, ProtoTimeout, now)
  /\ Free([p \in DOMAIN refs |-> AgedIn(SummaryCatalog, p, now) + AgedIn(links, p, now)])
  /\ now' = IF capture_status = "PAUSE" THEN now ELSE wall
  /\ phase' = "redraw" /\ nested' = FALSE /\ doomed' = {}
  /\ UNCHANGED <<capture_status, wall, n_packets, nodes, new_nodes, todo>>

\* the nested loop is over; update_diagram reads the clock again and returns
RedrawDone ==
  /\ phase = "redraw"
  /\ phase' = "idle" /\ now' = wall
  /\ UNCHANGED <<capture_status, wall, memVars, catVars, canvasVars, nested, todo,
                 doomed>>

-----------------------------------------------------------------------------
(* The user and the clock.                                                 *)

\* start_capture: a new capture opens its catalogs, a paused one goes on
StartCapture ==
  /\ EventsRun
  /\ capture_status # "PLAY"
  /\ capture_status' = "PLAY"
  /\ IF capture_status = "STOP"
       THEN /\ summary' = TrafficInit(now)
            /\ nodes' = EmptyCatalog
            /\ links' = EmptyCatalog
       ELSE UNCHANGED <<summary, nodes, links>>
  /\ UNCHANGED <<wall, now, memVars, new_nodes, canvasVars, loopVars>>

\* gui_pause_capture refreshes the info windows first
PauseCapture ==
  /\ EventsRun
  /\ capture_status = "PLAY"
  /\ now' = wall
  /\ capture_status' = "PAUSE"
  /\ UNCHANGED <<wall, memVars, catVars, canvasVars, loopVars>>

\* Mutant: a stop is carried out at once, in the middle of an update.
StopAnytime == TRUE

\* gui_stop_capture puts the stop off while already_updating
StopAllowed == phase = "idle"

\* gui_stop_capture, put off while an update runs.  stop_capture closes the
\* catalogs; the update_diagram that follows finds them closed, so it deletes
\* every canvas node and link and reaches its last nested loop.
StopCapture ==
  /\ EventsRun
  /\ StopAllowed
  /\ capture_status # "STOP"
  /\ capture_status' = "STOP"
  /\ Free([p \in DOMAIN refs |-> OccursIn(nodes, p) + OccursIn(links, p)
                                 + OccursIn(SummaryCatalog, p)])
  /\ nodes' = EmptyCatalog
  /\ links' = EmptyCatalog
  /\ summary' = TrafficInit(now)
  /\ new_nodes' = << >>
  /\ canvas_nodes' = {} /\ canvas_links' = {}
  /\ now' = wall
  /\ phase' = "redraw"
  /\ UNCHANGED <<wall, n_packets, nested, todo, doomed>>

\* update_info_windows from its own 500 ms timeout
UpdateInfoWindows ==
  /\ EventsRun
  /\ capture_status # "PAUSE"
  /\ now' = wall
  /\ UNCHANGED <<capture_status, wall, memVars, catVars, canvasVars, loopVars>>

Tick ==
  /\ wall < MaxTime
  /\ wall' = wall + 1
  /\ UNCHANGED <<capture_status, now, memVars, catVars, canvasVars, loopVars>>

Next ==
  \/ \E src, dst \in Node : GetPacket(src, dst)
  \/ UpdateNodes
  \/ CanvasNodeUpdate
  \/ UpdateLinks
  \/ RedrawDone
  \/ StartCapture
  \/ PauseCapture
  \/ StopCapture
  \/ UpdateInfoWindows
  \/ Tick

Spec == Init /\ [][Next]_vars

-----------------------------------------------------------------------------
(* Types.                                                                  *)

Phases == {"idle", "canvas", "redraw"}

Packet == [id : Nat \ {0}, size : Sizes, ts : Nat, names : NameStacks]

Item == [pkt : Packet, direction : Directions]

\* Every variable holds a value of its kind, the queues of all records included;
\* the counters in the records are covered by AccuMatchesQueue.
TypeOK ==
  /\ capture_status \in {"STOP", "PLAY", "PAUSE"}
  /\ wall \in Nat /\ now \in Nat
  /\ n_packets \in Nat
  /\ DOMAIN refs \subseteq 1..n_packets
  /\ \A n \in DOMAIN nodes : nodes[n].pkt_list \in Seq(Item)
  /\ \A l \in DOMAIN links : links[l].pkt_list \in Seq(Item)
  /\ summary.pkt_list \in Seq(Item)
  /\ DOMAIN nodes \subseteq Node
  /\ DOMAIN links \subseteq LinkIds
  /\ new_nodes \in Seq(Node)
  /\ canvas_nodes \subseteq Node /\ canvas_links \subseteq LinkIds
  /\ phase \in Phases /\ nested \in BOOLEAN
  /\ todo \subseteq Node /\ doomed \subseteq Node

-----------------------------------------------------------------------------
(* Packet memory (packet_list_item_create / packet_list_item_delete).      *)

Items == UNION ({ToSet(nodes[n].pkt_list) : n \in DOMAIN nodes}
                \cup {ToSet(links[l].pkt_list) : l \in DOMAIN links}
                \cup {ToSet(summary.pkt_list)})

\* The ref_count of an allocated packet is the number of queue items that point
\* to it, and never 0; no queue points to a packet that was freed, and
\* total_mem_packets counts the packets allocated (packet_list_item_delete).
RefCountExact ==
  /\ \A p \in DOMAIN refs :
       /\ refs[p] = OccursIn(nodes, p) + OccursIn(links, p) + OccursIn(SummaryCatalog, p)
       /\ refs[p] > 0
  /\ \A it \in Items : it.pkt.id \in DOMAIN refs
  /\ total_mem_packets = Cardinality(DOMAIN refs)

-----------------------------------------------------------------------------
(* Counters against queues (traffic_stats.c, protocols.c).                 *)

\* aver_accu of the total, inbound, outbound and per-protocol counters is the
\* number of bytes queued in that class.
Matches(tr) ==
  LET list     == tr.pkt_list
      not(dir) == {i \in DOMAIN list : list[i].direction # dir}
      using(k) == {i \in DOMAIN list : k \in ProtoKeys(list[i].pkt)}
  IN  /\ tr.stats.aver_accu = BytesAt(list, DOMAIN list)
      /\ tr.stats_in.aver_accu = BytesAt(list, not("OUTBOUND"))
      /\ tr.stats_out.aver_accu = BytesAt(list, not("INBOUND"))
      /\ \A k \in DOMAIN tr.stats_protos :
           tr.stats_protos[k].aver_accu = BytesAt(list, using(k))

\* Every protocol of a queued packet has its entry in the stack: protocol_stack_sub_pkt
\* never reaches "Protocol not found while subtracting packet".
StackCovers(tr) ==
  \A it \in ToSet(tr.pkt_list) : ProtoKeys(it.pkt) \subseteq DOMAIN tr.stats_protos

\* A counter with no bytes left in the queue has average 0.  traffic_stats_update
\* recomputes nothing once the queue is empty, so for the protocols this rests
\* on the reset inside basic_stats_sub.
AverageZero(tr) ==
  \A st \in {tr.stats, tr.stats_in, tr.stats_out} \cup Range(tr.stats_protos) :
    st.aver_accu = 0 => st.average = 0

Exact(tr) == Matches(tr) /\ StackCovers(tr) /\ AverageZero(tr)

\* The counters of every node, every link and the summary are exact, however
\* packets and protocols expired: nothing that has stopped is shown as running,
\* and protocol expiry never overtakes packet expiry.
AccuMatchesQueue ==
  /\ \A n \in DOMAIN nodes : Exact(nodes[n])
  /\ \A l \in DOMAIN links : Exact(links[l])
  /\ Exact(summary)

-----------------------------------------------------------------------------
(* Nodes, the list of new nodes and the canvas (node.c, diagram.c).        *)

\* new_nodes holds no dangling pointer and no node twice: each entry is in the
\* catalog and still has packets (a second entry would survive
\* new_nodes_remove, which drops one, and dangle).
NewNodesValid ==
  /\ \A n \in Range(new_nodes) : n \in DOMAIN nodes /\ nodes[n].pkt_list # << >>
  /\ \A i, j \in DOMAIN new_nodes : new_nodes[i] = new_nodes[j] => i = j

\* A node that has traffic is on the canvas to stay or is announced: a packet
\* that arrives while update_diagram is about to delete the node's canvas_node_t
\* is never forgotten.
ActiveNodeShown ==
  \A n \in DOMAIN nodes :
    nodes[n].pkt_list # << >> =>
      n \in Range(new_nodes) \/ n \in canvas_nodes \ doomed

\* The loop over the canvas tree only visits and dooms nodes that are in it, and
\* between updates nothing is left over from the last one.
CanvasLoopSound ==
  /\ todo \subseteq canvas_nodes /\ doomed \subseteq canvas_nodes
  /\ todo \cap doomed = {}
  /\ phase # "canvas" => todo = {} /\ doomed = {} /\ ~nested

\* A stopped capture has no node, link or announced node left, so that the next
\* start_capture, which opens new catalogs, cannot strand an entry of new_nodes.
StoppedIsEmpty ==
  capture_status = "STOP" =>
    DOMAIN nodes = {} /\ DOMAIN links = {} /\ Range(new_nodes) = {}

-----------------------------------------------------------------------------
(* Time.  The next two hold when timestamps never run backwards            *)
(* (MaxLag = 0); live capture does not promise that.                       *)

\* An update leaves no packet older than averaging_time in a queue it aged.
Fresh(list, t) == \A it \in ToSet(list) : t - it.pkt.ts < AveragingTime

UpdateDropsAllExpired ==
  [][ /\ (phase = "idle" /\ phase' = "canvas") =>
           \A n \in DOMAIN nodes' : Fresh(nodes'[n].pkt_list, now')
      /\ (phase = "canvas" /\ phase' = "redraw") =>
           /\ Fresh(summary'.pkt_list, now)
           /\ \A l \in DOMAIN links' : Fresh(links'[l].pkt_list, now) ]_vars

Ids(list) == {it.pkt.id : it \in ToSet(list)}

\* Outside the canvas loop the views agree: the summary holds exactly the
\* packets of the links, and a packet on a link is also held by both end nodes,
\* which are therefore in the catalog.
ViewsAgree ==
  phase # "canvas" =>
    /\ Ids(summary.pkt_list) = UNION {Ids(links[l].pkt_list) : l \in DOMAIN links}
    /\ \A l \in DOMAIN links : \A p \in Ids(links[l].pkt_list) :
         \A i \in {1, 2} : /\ l[i] \in DOMAIN nodes
                           /\ p \in Ids(nodes[l[i]].pkt_list)
=============================================================================
