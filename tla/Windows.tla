------------------------------ MODULE Windows -------------------------------
(***************************************************************************)
(* The windows beside the diagram (info_windows.c, node_windows.c): the    *)
(* table of protocols, the table of nodes, and the windows a user opens on *)
(* a protocol, a node or a link.  All are filled from the catalogs by      *)
(* update_info_windows, which a timer and every update of the diagram      *)
(* call; what they are about may have expired by then.                     *)
(*                                                                         *)
(* The two tables are filled by walking an iterator over the rows in step  *)
(* with the data.  A table's rows are a sequence, an iterator is an index, *)
(* zero past the end.  The figures of a protocol are one number, traffic;  *)
(* a window on a node or a link shows figures or that it timed out, and    *)
(* its own table of protocols, which is filled as that of all protocols    *)
(* is, is left out.                                                        *)
(***************************************************************************)
EXTENDS Integers, FiniteSets, SequencesExt

CONSTANTS
  Node,             \* node ids, ordered as node_id_compare orders them
  Link,             \* link ids: pairs of nodes
  Prot,             \* protocol names, ordered as strcmp orders them
  MaxTraffic,       \* bound on the traffic figures
  SortColumns,      \* columns the user may sort the protocols by: "name", "traffic"
  FastRefresh,      \* is pref.refresh_period below 500 ms?
  MaxOpen           \* bound on the windows open on protocols, nodes and links

ASSUME WindowsAssumption ==
  /\ Node \subseteq Nat /\ Prot \subseteq Nat /\ Link \subseteq Node \X Node
  /\ MaxTraffic \in Nat /\ MaxOpen \in Nat /\ FastRefresh \in BOOLEAN
  /\ SortColumns \subseteq {"name", "traffic"}

Traffic == 0..MaxTraffic
Timeout == -1       \* "X", shown for something that has expired

VARIABLES
  status,           \* capture_status
  summary,          \* the protocol summary at pref.stack_level, newest first
  nodes, links,     \* the catalogs of nodes and links
  prot_rows, sort_column, protocols_shown,  \* the table of protocols
  node_rows, nodes_shown,                   \* the table of nodes
  prot_info_windows,                        \* [protocols with a window -> what it shows]
  node_windows, link_windows,               \* stats_info_windows: [ids -> live?]
  recent            \* is last_update_time less than 500 ms ago?

catalogs == <<summary, nodes, links>>
prot_table == <<prot_rows, sort_column, protocols_shown>>
node_table == <<node_rows, nodes_shown>>
details == <<prot_info_windows, node_windows, link_windows>>
vars == <<status, catalogs, prot_table, node_table, details, recent>>

Names(stack) == {stack[i].name : i \in DOMAIN stack}

Init ==
  /\ status = "PLAY"
  /\ summary = <<>> /\ nodes = {} /\ links = {}
  /\ prot_rows = <<>> /\ sort_column = "name" /\ protocols_shown = FALSE
  /\ node_rows = <<>> /\ nodes_shown = FALSE
  /\ prot_info_windows = <<>> /\ node_windows = <<>> /\ link_windows = <<>>
  /\ recent = FALSE

-----------------------------------------------------------------------------
(* The table of protocols *)

protocols_table_compare(a, b, column) ==
  IF column = "name" THEN a.name - b.name ELSE a.traffic - b.traffic

Row == [name : Prot, traffic : Traffic]

\* A sorted GtkListStore moves a row that is set behind those not greater.
RowMoved(rows, i, column) ==
  LET rest == RemoveAt(rows, i)
      before == {j \in DOMAIN rest : protocols_table_compare(rest[j], rows[i], column) <= 0}
  IN  [rows |-> InsertAt(rest, Cardinality(before) + 1, rows[i]), at |-> Cardinality(before) + 1]

\* Mutant: after a row is removed the iterator is moved on once more.
RowSkipped(rows, i) == IF i < Len(rows) - 1 THEN i + 1 ELSE 0

\* The row behind row i, and where it is once row i has been removed.
NextRow(rows, i) == IF i < Len(rows) THEN i + 1 ELSE 0
RowBehind(rows, i) == IF i < Len(rows) THEN i ELSE 0

\* Where the walk is: the row its iterator is at, and the protocols to come.
ProtocolsWalk ==
  {w \in [rows : Seq(Row), at : Nat, protos : Seq(Row)] : w.at <= Len(w.rows)}

\* A protocol past the last row gets a new one, a row with another name goes.
update_protocols_row(w, column) ==
  LET proto == Head(w.protos)
      added == RowMoved(Append(w.rows, proto), Len(w.rows) + 1, column)
      moved == RowMoved([w.rows EXCEPT ![w.at] = proto], w.at, column)
  IN  CASE w.at = 0 -> [rows |-> added.rows, at |-> 0, protos |-> Tail(w.protos)]
        [] w.at # 0 /\ w.rows[w.at].name # proto.name ->
             [rows |-> RemoveAt(w.rows, w.at), at |-> RowBehind(w.rows, w.at), protos |-> w.protos]
        [] w.at # 0 /\ w.rows[w.at].name = proto.name ->
             [rows |-> moved.rows, at |-> NextRow(moved.rows, moved.at), protos |-> Tail(w.protos)]

\* The rows walked along with the stack of protocols; rows past the last go.
update_protocols_table(rows, stack, column) ==
  LET walk[w \in ProtocolsWalk] ==
        IF w.protos = <<>> THEN IF w.at = 0 THEN w.rows ELSE SubSeq(w.rows, 1, w.at - 1)
        ELSE walk[update_protocols_row(w, column)]
  IN  walk[[rows |-> rows, at |-> NextRow(rows, 0), protos |-> stack]]

-----------------------------------------------------------------------------
(* The table of nodes *)

InOrder(S) ==
  CHOOSE s \in [1..Cardinality(S) -> S] : \A i, j \in 1..Cardinality(S) : i < j => s[i] < s[j]

\* Where the walk is: the rows behind the iterator, the rest, the nodes to come.
NodesWalk == [done : Seq(Node), rest : Seq(Node), new : Seq(Node)]

\* A row of a smaller node goes, a node gets its row before a greater one.
nodes_table_iterate(w) ==
  LET node == Head(w.new)
      row == Head(w.rest)
  IN  CASE node = row -> [done |-> Append(w.done, node), rest |-> Tail(w.rest), new |-> Tail(w.new)]
        [] node < row -> [done |-> Append(w.done, node), rest |-> w.rest, new |-> Tail(w.new)]
        [] node > row -> [done |-> w.done, rest |-> Tail(w.rest), new |-> w.new]

\* Mutant: rows behind the last node of the catalog stay.
TableUntrimmed(rows, ns) ==
  LET walk[w \in NodesWalk] ==
        IF w.rest = <<>> THEN Reverse(w.new) \o w.done
        ELSE IF w.new = <<>> THEN w.done \o w.rest
        ELSE walk[nodes_table_iterate(w)]
  IN  walk[[done |-> <<>>, rest |-> rows, new |-> InOrder(ns)]]

\* The nodes of the catalog in order; past the last row one goes to the front of
\* the table.
nodes_table_update(rows, ns) ==
  LET walk[w \in NodesWalk] ==
        IF w.rest = <<>> THEN Reverse(w.new) \o w.done
        ELSE IF w.new = <<>> THEN w.done
        ELSE walk[nodes_table_iterate(w)]
  IN  walk[[done |-> <<>>, rest |-> rows, new |-> InOrder(ns)]]

-----------------------------------------------------------------------------
(* update_info_windows *)

update_prot_info_window(name, stack) ==
  IF name \in Names(stack) THEN stack[CHOOSE i \in DOMAIN stack : stack[i].name = name].traffic
  ELSE Timeout

\* Mutant: a stopped capture is noticed by the timer only.
CloseLater(st, stack) == [p \in DOMAIN prot_info_windows |-> update_prot_info_window(p, stack)]

\* Once the capture is stopped the windows are closed.
update_prot_info_windows(st, stack) ==
  IF st = "STOP" THEN <<>>
  ELSE [p \in DOMAIN prot_info_windows |-> update_prot_info_window(p, stack)]

\* At most twice a second, if the diagram is refreshed more often.
Throttled == FastRefresh /\ recent

update_stats_info_windows(st, ns, ls) ==
  IF Throttled THEN UNCHANGED <<node_windows, link_windows, recent>>
  ELSE /\ node_windows' = IF st = "STOP" THEN <<>>
                          ELSE [n \in DOMAIN node_windows |-> n \in ns]
       /\ link_windows' = IF st = "STOP" THEN <<>>
                          ELSE [l \in DOMAIN link_windows |-> l \in ls]
       /\ recent' = TRUE

\* Everything, from the given status and catalogs; a hidden table of nodes is
\* left alone, a hidden table of protocols is not.
UpdateAll(st, stack, ns, ls) ==
  /\ prot_rows' = update_protocols_table(prot_rows, stack, sort_column)
  /\ update_stats_info_windows(st, ns, ls)
  /\ prot_info_windows' = update_prot_info_windows(st, stack)
  /\ node_rows' = IF nodes_shown THEN nodes_table_update(node_rows, ns) ELSE node_rows
  /\ UNCHANGED <<sort_column, protocols_shown, nodes_shown>>

\* Mutant: a capture that is stopped needs no update.
UpdateRunning ==
  /\ status = "PLAY"
  /\ UpdateAll(status, summary, nodes, links)
  /\ UNCHANGED <<status, catalogs>>

\* Called by the timer and by update_diagram.
update_info_windows ==
  /\ status \in {"PLAY", "STOP"}
  /\ UpdateAll(status, summary, nodes, links)
  /\ UNCHANGED <<status, catalogs>>

\* The clock: half a second has passed since the last update of the windows.
Tick ==
  /\ recent /\ recent' = FALSE
  /\ UNCHANGED <<status, catalogs, prot_table, node_table, details>>

-----------------------------------------------------------------------------
(* The capture *)

\* A protocol of the summary changes its figures, or a new one goes in front.
StackAdd(stack, p, t) ==
  IF p \in Names(stack)
  THEN [i \in DOMAIN stack |-> IF stack[i].name = p THEN [name |-> p, traffic |-> t] ELSE stack[i]]
  ELSE <<[name |-> p, traffic |-> t]>> \o stack

\* A live capture goes on receiving while it is paused.
packet_acquired ==
  /\ status \in {"PLAY", "PAUSE"}
  /\ \E l \in Link, p \in Prot, t \in Traffic :
       /\ summary' = StackAdd(summary, p, t)
       /\ nodes' = nodes \cup {l[1], l[2]} /\ links' = links \cup {l}
  /\ UNCHANGED <<status, prot_table, node_table, details, recent>>

Without(f, gone) == [x \in (DOMAIN f) \ gone |-> f[x]]

\* Nodes, links and protocols expire, in the course of an update of the diagram
\* or, with its nested main loops, between two parts of it.
expire ==
  /\ status = "PLAY"
  /\ \/ \E n \in nodes : nodes' = nodes \ {n} /\ UNCHANGED <<links, summary>>
     \/ \E l \in links : links' = links \ {l} /\ UNCHANGED <<nodes, summary>>
     \/ \E i \in DOMAIN summary : summary' = RemoveAt(summary, i) /\ UNCHANGED <<nodes, links>>
  /\ UNCHANGED <<status, prot_table, node_table, details, recent>>

gui_start_capture ==
  /\ status \in {"STOP", "PAUSE"}
  /\ status' = "PLAY"
  /\ UNCHANGED <<catalogs, prot_table, node_table, details, recent>>

gui_pause_capture ==
  /\ status = "PLAY"
  /\ UpdateAll("PLAY", summary, nodes, links)
  /\ status' = "PAUSE"
  /\ UNCHANGED catalogs

read_eof ==
  /\ status = "PLAY" /\ status' = "CAP_EOF"
  /\ UNCHANGED <<catalogs, prot_table, node_table, details, recent>>

\* The catalogs are closed, and the update of the diagram that follows updates
\* the windows.
gui_stop_capture ==
  /\ status # "STOP" /\ status' = "STOP"
  /\ summary' = <<>> /\ nodes' = {} /\ links' = {}
  /\ UpdateAll("STOP", <<>>, {}, {})

-----------------------------------------------------------------------------
(* The user *)

on_protocols_check_activate ==
  /\ protocols_shown' = ~protocols_shown
  /\ prot_rows' = IF protocols_shown THEN <<>>
                  ELSE update_protocols_table(prot_rows, summary, sort_column)
  /\ UNCHANGED <<status, catalogs, sort_column, node_table, details, recent>>

\* The sort of the store is stable.
SortOrder(rows, column) ==
  LET Before(i, j) == LET c == protocols_table_compare(rows[i], rows[j], column)
                      IN  c < 0 \/ (c = 0 /\ i < j)
  IN  CHOOSE f \in [DOMAIN rows -> DOMAIN rows] :
        \A i, j \in DOMAIN rows : i < j => Before(f[i], f[j])

\* A click on the head of a column.
sort_clicked ==
  /\ protocols_shown
  /\ sort_column' \in SortColumns
  /\ prot_rows' = LET order == SortOrder(prot_rows, sort_column')
                  IN  [i \in DOMAIN prot_rows |-> prot_rows[order[i]]]
  /\ UNCHANGED <<status, catalogs, protocols_shown, node_table, details, recent>>

nodes_wnd_show ==
  /\ ~nodes_shown /\ nodes_shown' = TRUE
  /\ node_rows' = nodes_table_update(node_rows, nodes)
  /\ UNCHANGED <<status, catalogs, prot_table, details, recent>>

nodes_wnd_hide ==
  /\ nodes_shown /\ nodes_shown' = FALSE
  /\ node_rows' = <<>>
  /\ UNCHANGED <<status, catalogs, prot_table, details, recent>>

OpenWindows ==
  Cardinality(DOMAIN prot_info_windows) + Cardinality(DOMAIN node_windows)
    + Cardinality(DOMAIN link_windows)
MayOpen(ids, id) == id \in ids \/ OpenWindows < MaxOpen

\* A row of the table of protocols is chosen: one window for each name.
create_prot_info_window ==
  /\ protocols_shown
  /\ \E i \in DOMAIN prot_rows :
       LET p == prot_rows[i].name
       IN  /\ MayOpen(DOMAIN prot_info_windows, p)
           /\ prot_info_windows' =
                [q \in (DOMAIN prot_info_windows) \cup {p} |->
                   IF q = p THEN update_prot_info_window(p, summary) ELSE prot_info_windows[q]]
  /\ UNCHANGED <<status, catalogs, prot_table, node_table, node_windows, link_windows, recent>>

\* From a row of the table of nodes or from the diagram, which is between two
\* updates and has the nodes and links of the catalogs.
node_protocols_window_create ==
  /\ \E n \in nodes \cup Range(node_rows) :
       /\ MayOpen(DOMAIN node_windows, n)
       /\ node_windows' = [m \in (DOMAIN node_windows) \cup {n} |->
                             IF m = n THEN n \in nodes ELSE node_windows[m]]
  /\ UNCHANGED <<status, catalogs, prot_table, node_table, prot_info_windows, link_windows, recent>>

link_info_window_create ==
  /\ \E l \in links :
       /\ MayOpen(DOMAIN link_windows, l)
       /\ link_windows' = [m \in (DOMAIN link_windows) \cup {l} |->
                             IF m = l THEN l \in links ELSE link_windows[m]]
  /\ UNCHANGED <<status, catalogs, prot_table, node_table, prot_info_windows, node_windows, recent>>

\* on_prot_info_delete_event and on_node_info_delete_event, which closes the
\* windows of links too.
window_closed ==
  /\ \/ \E p \in DOMAIN prot_info_windows :
          /\ prot_info_windows' = Without(prot_info_windows, {p})
          /\ UNCHANGED <<node_windows, link_windows>>
     \/ \E n \in DOMAIN node_windows :
          /\ node_windows' = Without(node_windows, {n})
          /\ UNCHANGED <<prot_info_windows, link_windows>>
     \/ \E l \in DOMAIN link_windows :
          /\ link_windows' = Without(link_windows, {l})
          /\ UNCHANGED <<prot_info_windows, node_windows>>
  /\ UNCHANGED <<status, catalogs, prot_table, node_table, recent>>

Next ==
  \/ update_info_windows
  \/ Tick
  \/ packet_acquired
  \/ expire
  \/ gui_start_capture
  \/ gui_pause_capture
  \/ read_eof
  \/ gui_stop_capture
  \/ on_protocols_check_activate
  \/ sort_clicked
  \/ nodes_wnd_show
  \/ nodes_wnd_hide
  \/ create_prot_info_window
  \/ node_protocols_window_create
  \/ link_info_window_create
  \/ window_closed

\* The 500 ms timer of main is never removed, so it also runs once a capture is
\* stopped, and time passes.
Spec == Init /\ [][Next]_vars /\ WF_vars(status = "STOP" /\ update_info_windows) /\ WF_vars(Tick)

-----------------------------------------------------------------------------
(* Properties *)

\* After an update (nodes_table_update) the table has a row for each node of the
\* catalog and no other, although its rows may be in no order, the walk having
\* put new ones in front.
NodeTableExact ==
  [][update_info_windows /\ nodes_shown =>
       Len(node_rows') = Cardinality(nodes) /\ Range(node_rows') = nodes]_vars

\* After an update (update_protocols_table) the table shows the summary, each
\* protocol once and with its figures, and a window on a protocol shows what the
\* table does, or that it has expired.
ProtocolTableExact ==
  [][update_info_windows =>
       /\ Len(prot_rows') = Len(summary) /\ Range(prot_rows') = Range(summary)
       /\ \A p \in DOMAIN prot_info_windows' :
            IF prot_info_windows'[p] = Timeout THEN p \notin Names(prot_rows')
            ELSE [name |-> p, traffic |-> prot_info_windows'[p]] \in Range(prot_rows')]_vars

\* Nothing of a capture is left in the tables, nor a window on a protocol, once
\* it is stopped, and none can be opened (update_prot_info_windows closes them).
StoppedShowsNothing ==
  status = "STOP" =>
    prot_rows = <<>> /\ node_rows = <<>> /\ prot_info_windows = <<>>

\* Windows on nodes and links are closed too, if not at once
\* (update_stats_info_windows), unless another capture is started first.
WindowsCloseOnStop ==
  status = "STOP" ~> status # "STOP" \/ (node_windows = <<>> /\ link_windows = <<>>)

-----------------------------------------------------------------------------
(* What the code does not guarantee; no run lists it.                      *)

\* "Make sure the data in the info windows is updated so that it is consistent"
\* (gui_pause_capture): when a capture is paused, windows on nodes and
\* links say which of them have expired.  Throttled stops the update.
PauseConsistent ==
  [][gui_pause_capture =>
       /\ \A n \in DOMAIN node_windows' : node_windows'[n] <=> n \in nodes'
       /\ \A l \in DOMAIN link_windows' : link_windows'[l] <=> l \in links']_vars
=============================================================================
