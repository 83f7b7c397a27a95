------------------------------- MODULE Canvas -------------------------------
(***************************************************************************)
(* What the diagram shows (diagram.c): the canvas nodes with their places, *)
(* the canvas links drawn between them and the legend of protocols, kept   *)
(* in step with the catalogs and with preferences that change in between.  *)
(*                                                                         *)
(* Which packets keep a node alive is the matter of module Traffic, and    *)
(* when updates run that of CaptureControl; here hosts go quiet and are    *)
(* forgotten at any update.  Sizes, colours and the arithmetic of angles   *)
(* are left out: a place is the k-th of n around the centre.               *)
(***************************************************************************)
EXTENDS Integers, FiniteSets, FiniteSetsExt

CONSTANTS
  Node,             \* node ids, ordered as node_id_compare orders them
  Link,             \* link ids: pairs of nodes
  Levels, Stacks,   \* protocol levels; what a packet is made of: [Levels -> name]
  Options,          \* options a run may be started with: [node_limit (negative: none),
                    \* stationary, center_node (NoNode: none)]
  Fonts, Sizes,     \* fonts; sizes of the canvas window
  MaxSpots          \* bound on the places given out in stationary mode

NoNode == 0

ASSUME CanvasAssumption ==
  /\ Node \subseteq Nat \ {NoNode} /\ IsFiniteSet(Node)
  /\ Link \subseteq Node \X Node
  /\ Options \subseteq [node_limit : Int, stationary : BOOLEAN, center_node : Node \cup {NoNode}]
  /\ MaxSpots \in Nat

VARIABLES
  \* the catalogs
  hosts,            \* [Node -> "absent", "quiet" (display_node is false) or "heard"]
  new_nodes,        \* nodes announced to the diagram
  links,            \* the catalog of links
  summary,          \* names of the protocol summary at each level
  \* the diagram
  canvas_nodes,     \* [shown nodes and hidden ones -> canvas_node_t]
  canvas_links,     \* [links -> canvas_link_t]
  legend, known_protocols,
  displayed_nodes,
  need_reposition, need_font_refresh,
  spots,            \* count and base of reposition_canvas_nodes: places given out
  \* an update under way
  pc,               \* "idle", "called" (update_diagram entered), "nodes", "redraw"
  todo, doomed,     \* canvas nodes still to visit; the delete_list
  nested,           \* is a nested main loop running?
  \* what the user has set
  options, size, pref

catalogs == <<hosts, new_nodes, links, summary>>
diagram == <<canvas_nodes, canvas_links, displayed_nodes, spots>>
labels == <<legend, known_protocols>>
asked == <<need_reposition, need_font_refresh>>
update == <<pc, todo, doomed, nested>>
user == <<options, size, pref>>
vars == <<catalogs, diagram, labels, asked, update, user>>

Names == UNION {{s[l] : l \in Levels} : s \in Stacks}
Flags == [stack_level : Levels, diagram_only : BOOLEAN, font : Fonts]
NewPlace == <<"new">>

Init ==
  /\ hosts = [n \in Node |-> "absent"] /\ new_nodes = {} /\ links = {}
  /\ summary = [l \in Levels |-> {}]
  /\ canvas_nodes = <<>> /\ canvas_links = <<>> /\ displayed_nodes = 0 /\ spots = 0
  /\ legend = {} /\ known_protocols = 0
  /\ need_reposition = TRUE /\ need_font_refresh = TRUE
  /\ pc = "idle" /\ todo = {} /\ doomed = {} /\ nested = FALSE
  /\ options \in Options /\ size \in Sizes
  /\ \E l \in Levels, f \in Fonts : pref = [stack_level |-> l, diagram_only |-> FALSE, font |-> f]

\* Events are handled by the main loop, by the nested loop after the update of a
\* canvas node and by the one at the end of an update.
EventsRun == pc \in {"idle", "redraw"} \/ nested

display_node(n) == hosts[n] = "heard"

-----------------------------------------------------------------------------
(* Packets and commands *)

\* Mutant: only a node that is created is announced.
AnnounceCreated(n) == hosts[n] = "absent"

\* add_node_packet announces a node that is new or had no packets left.
Announces(n) == hosts[n] # "heard"

packet_acquired ==
  /\ EventsRun
  /\ \E l \in Link, s \in Stacks :
       LET ends == {l[1], l[2]}
       IN  /\ options.stationary => spots + Cardinality(Node) < MaxSpots
           /\ new_nodes' = new_nodes \cup {n \in ends : Announces(n)}
           /\ hosts' = [n \in Node |-> IF n \in ends THEN "heard" ELSE hosts[n]]
           /\ links' = links \cup {l}
           /\ summary' = [k \in Levels |-> summary[k] \cup {s[k]}]
  /\ UNCHANGED <<diagram, labels, asked, update, user>>

\* gui_stop_capture between updates: the catalogs are closed, the update that
\* follows finds every canvas node and link gone, the legend is emptied.
stop_capture ==
  /\ pc = "idle"
  /\ hosts' = [n \in Node |-> "absent"] /\ new_nodes' = {} /\ links' = {}
  /\ summary' = [l \in Levels |-> {}]
  /\ canvas_nodes' = <<>> /\ canvas_links' = <<>> /\ displayed_nodes' = 0
  /\ legend' = {} /\ known_protocols' = 0
  /\ need_reposition' = FALSE /\ need_font_refresh' = FALSE
  /\ pc' = "redraw"
  /\ UNCHANGED <<spots, todo, doomed, nested, user>>

-----------------------------------------------------------------------------
(* Preferences and the window *)

ask_reposition(r_font) == need_reposition' = TRUE /\ need_font_refresh' = r_font

\* Mutant: the labels are removed, but still counted.
DeleteUncounted == legend' = {} /\ UNCHANGED known_protocols

delete_gui_protocols == legend' = {} /\ known_protocols' = 0

SetPref(p) == pref' = p /\ UNCHANGED <<options, size>>

on_stack_level_changed ==
  /\ EventsRun
  /\ \E l \in Levels : SetPref([pref EXCEPT !.stack_level = l])
  /\ delete_gui_protocols
  /\ UNCHANGED <<catalogs, diagram, asked, update>>

on_text_font_changed ==
  /\ EventsRun
  /\ \E f \in Fonts : SetPref([pref EXCEPT !.font = f])
  /\ ask_reposition(TRUE)
  /\ UNCHANGED <<catalogs, diagram, labels, update>>

on_diagram_only_toggle_toggled ==
  /\ EventsRun
  /\ SetPref([pref EXCEPT !.diagram_only = ~@])
  /\ ask_reposition(FALSE)
  /\ UNCHANGED <<catalogs, diagram, labels, update>>

\* Other colours: confirmed or cancelled, they empty the legend.
colors_changed ==
  /\ EventsRun
  /\ delete_gui_protocols
  /\ UNCHANGED <<catalogs, diagram, asked, update, user>>

\* The preferences go back to what they were when the dialog was opened, which
\* may be anything; the legend is emptied only if colours had changed.
on_cancel_pref_button_clicked ==
  /\ EventsRun
  /\ \E p \in Flags : SetPref(p)
  /\ ask_reposition(TRUE)
  /\ UNCHANGED <<catalogs, diagram, labels, update>>

\* Calls update_diagram, which returns at once while another one is under way.
on_canvas1_size_allocate ==
  /\ EventsRun
  /\ size' \in Sizes
  /\ ask_reposition(FALSE)
  /\ pc' = IF pc = "idle" THEN "called" ELSE pc
  /\ UNCHANGED <<catalogs, diagram, labels, todo, doomed, nested, options, pref>>

-----------------------------------------------------------------------------
(* An update *)

\* check_new_node: hidden until it has a place.
NewCanvasNode ==
  [is_new |-> TRUE, shown |-> TRUE, centered |-> FALSE, visible |-> FALSE, text |-> FALSE,
   place |-> NewPlace, font |-> pref.font]

\* nodes_catalog_update_all: packets expire (a host goes quiet) and nodes without
\* packets are forgotten; then the announced nodes get their canvas nodes.
diagram_update_nodes ==
  /\ pc \in {"idle", "called"}
  /\ \E aged \in SUBSET {n \in Node : hosts[n] = "heard"},
        gone \in SUBSET {n \in Node : hosts[n] = "quiet"} :
       hosts' = [n \in Node |-> CASE n \in aged -> "quiet"
                                  [] n \in gone -> "absent"
                                  [] OTHER -> hosts[n]]
  /\ LET created == {n \in new_nodes : display_node(n)' /\ n \notin DOMAIN canvas_nodes}
     IN  /\ canvas_nodes' = [n \in (DOMAIN canvas_nodes) \cup created |->
                              IF n \in created THEN NewCanvasNode ELSE canvas_nodes[n]]
         /\ need_reposition' = (need_reposition \/ created # {})
  /\ new_nodes' = {}
  /\ todo' = DOMAIN canvas_nodes' /\ doomed' = {}
  /\ pc' = "nodes" /\ nested' = FALSE
  /\ UNCHANGED <<links, summary, canvas_links, displayed_nodes, spots, labels, need_font_refresh, user>>

\* canvas_node_update on the next node of the tree
canvas_node_update ==
  /\ pc = "nodes" /\ todo # {}
  /\ LET n == Min(todo)
     IN  /\ todo' = todo \ {n}
         /\ IF display_node(n)
              THEN nested' = TRUE /\ UNCHANGED <<doomed, need_reposition>>
              ELSE /\ doomed' = doomed \cup {n} /\ nested' = FALSE
                   /\ need_reposition' = TRUE
  /\ UNCHANGED <<catalogs, diagram, labels, need_font_refresh, pc, user>>

\* Mutant: a node that is limited away is not hidden.
LimitUnnoticed(cn, kept) == FALSE

\* check_ordered_node asks for new places when a node appears or disappears.
LimitNoticed(cn, kept) == \E n \in DOMAIN cn : cn[n].shown # (n \in kept)

\* The canvas nodes limit_nodes may keep.  It orders them by what traffic_compare
\* finds in memory, for it takes a canvas_node_t for a node_t: any of them.
limit_nodes(cn) ==
  IF options.node_limit < 0 THEN {{n \in DOMAIN cn : cn[n].shown}}
  ELSE kSubset(Min({options.node_limit, Cardinality(DOMAIN cn)}), DOMAIN cn)

Limited(cn, kept) == [n \in DOMAIN cn |-> [cn[n] EXCEPT !.shown = n \in kept]]

\* A node may become the centre when it gets its first place.
Centered(n, c) == c.centered \/ (c.is_new /\ ~options.stationary /\ options.center_node = n)

\* The place of a node, the rank-th of those shown and the newcomer-th of those new.
Place(n, c, total, rank, newcomer) ==
  CASE options.stationary /\ ~c.is_new -> c.place
    [] options.stationary /\ c.is_new -> <<"spot", size, spots + newcomer>>
    [] ~options.stationary /\ Centered(n, c) -> <<"centre">>
    [] OTHER -> <<"circle", size, total, rank>>

\* reposition_canvas_nodes on every node: those not shown are hidden (their place
\* is left out unless they return to it); a centred one takes up no place in the
\* circle.
Repositioned(cn, total) ==
  LET Below(n, S) == Cardinality({m \in S : m < n})
      shown == {n \in DOMAIN cn : cn[n].shown}
      round == {n \in shown : ~Centered(n, cn[n])}
      fresh == {n \in shown : cn[n].is_new}
  IN  [n \in DOMAIN cn |->
        IF n \notin shown
        THEN [cn[n] EXCEPT !.visible = FALSE, !.text = FALSE,
                           !.place = IF options.stationary THEN @ ELSE NewPlace]
        ELSE [cn[n] EXCEPT
               !.place = Place(n, cn[n], total, Below(n, round), Below(n, fresh)),
               !.centered = Centered(n, cn[n]), !.is_new = FALSE, !.visible = TRUE,
               !.text = ~pref.diagram_only,
               !.font = IF need_font_refresh THEN pref.font ELSE @]]

\* Mutant: only the destination is looked at.
OnlyDestination(l, cn) == l[2] \in DOMAIN cn /\ cn[l[2]].shown

BothEnds(l, cn) == \A n \in {l[1], l[2]} : n \in DOMAIN cn /\ cn[n].shown

\* check_new_link and canvas_link_update: a link is hidden while an end is (where
\* it was drawn last is left out), and drawn between the places of its ends
\* otherwise.
Drawn(l, cn) ==
  IF BothEnds(l, cn)
  THEN [visible |-> TRUE, ends |-> [n \in {l[1], l[2]} \cap DOMAIN cn |-> cn[n].place]]
  ELSE [visible |-> FALSE, ends |-> <<>>]

\* purge_expired_legend_protocol
LegendPurged(names) == legend \cap names

\* The rest of diagram_update_nodes, then links, summary and legend.
diagram_update_links ==
  /\ pc = "nodes" /\ todo = {}
  /\ LET cn == [n \in (DOMAIN canvas_nodes) \ doomed |-> canvas_nodes[n]]
     IN  \E kept \in limit_nodes(cn) :
           LET total == IF options.node_limit < 0 THEN Cardinality(DOMAIN cn) ELSE Cardinality(kept)
               move == need_reposition \/ LimitNoticed(cn, kept)
               limited == Limited(cn, kept)
           IN  /\ displayed_nodes' = total
               /\ canvas_nodes' = IF move THEN Repositioned(limited, total) ELSE limited
               /\ spots' = IF move /\ options.stationary
                           THEN spots + Cardinality({n \in kept : cn[n].is_new}) ELSE spots
               /\ need_reposition' = FALSE
               /\ need_font_refresh' = (need_font_refresh /\ ~move)
  /\ \E old \in SUBSET links : links' = links \ old
  /\ canvas_links' = [l \in links' |-> Drawn(l, canvas_nodes')]
  /\ \E old \in SUBSET Names : summary' = [k \in Levels |-> summary[k] \ old]
  /\ LET names == summary'[pref.stack_level]
     IN  /\ legend' = LegendPurged(names) \cup names
         /\ known_protocols' = known_protocols - Cardinality(legend \ LegendPurged(names))
                               + Cardinality(names \ LegendPurged(names))
  /\ doomed' = {} /\ pc' = "redraw" /\ nested' = FALSE
  /\ UNCHANGED <<hosts, new_nodes, todo, user>>

\* The nested loop at the end has no more events, and update_diagram returns.
redraw_done ==
  /\ pc = "redraw"
  /\ pc' = "idle"
  /\ UNCHANGED <<catalogs, diagram, labels, asked, todo, doomed, nested, user>>

update_diagram ==
  diagram_update_nodes \/ canvas_node_update \/ diagram_update_links \/ redraw_done

Next ==
  \/ packet_acquired
  \/ stop_capture
  \/ on_stack_level_changed
  \/ on_text_font_changed
  \/ on_diagram_only_toggle_toggled
  \/ colors_changed
  \/ on_cancel_pref_button_clicked
  \/ on_canvas1_size_allocate
  \/ update_diagram

\* The timer or idle source of update_diagram is always installed while a
\* capture runs (CaptureControl), and an update under way goes on.
Spec == Init /\ [][Next]_vars /\ WF_vars(update_diagram)

-----------------------------------------------------------------------------
(* Properties *)

TypeOK ==
  /\ hosts \in [Node -> {"absent", "quiet", "heard"}]
  /\ new_nodes \subseteq Node /\ links \subseteq Link
  /\ summary \in [Levels -> SUBSET Names] /\ legend \subseteq Names
  /\ known_protocols = Cardinality(legend)
  /\ DOMAIN canvas_nodes \subseteq Node /\ DOMAIN canvas_links \subseteq Link
  /\ displayed_nodes \in 0..Cardinality(Node)
  /\ need_reposition \in BOOLEAN /\ need_font_refresh \in BOOLEAN
  /\ spots \in 0..MaxSpots
  /\ pc \in {"idle", "called", "nodes", "redraw"} /\ nested \in BOOLEAN
  /\ todo \subseteq DOMAIN canvas_nodes /\ doomed \subseteq DOMAIN canvas_nodes
  /\ pref \in Flags /\ size \in Sizes

Settled == pc \in {"idle", "called", "redraw"}
Visible == {n \in DOMAIN canvas_nodes : canvas_nodes[n].visible}

\* Between updates, unless new places were asked for: what is on the screen are
\* the nodes that should be there, no more than the limit, with texts if the
\* preference (also one that is taken back) wants them, and they are spread evenly
\* around the centre of the window as it is now.
EvenlySpread ==
  Settled /\ ~need_reposition =>
    LET n == Cardinality(Visible)
        round == {m \in Visible : ~canvas_nodes[m].centered}
        places == {canvas_nodes[m].place : m \in round}
    IN  /\ Visible = {m \in DOMAIN canvas_nodes : canvas_nodes[m].shown}
        /\ n = displayed_nodes
        /\ n = IF options.node_limit < 0 THEN Cardinality(DOMAIN canvas_nodes)
               ELSE Min({options.node_limit, Cardinality(DOMAIN canvas_nodes)})
        /\ \A m \in Visible : canvas_nodes[m].text = ~pref.diagram_only
        /\ Cardinality(places) = Cardinality(round)
        /\ ~options.stationary => places = {<<"circle", size, n, k>> : k \in 0..(Cardinality(round) - 1)}

\* Between updates a link is drawn only between nodes that are on the screen, and
\* ends where they are.
LinksFollowNodes ==
  Settled =>
    \A l \in DOMAIN canvas_links :
      canvas_links[l].visible =>
        \A i \in {1, 2} : l[i] \in Visible /\ canvas_links[l].ends[l[i]] = canvas_nodes[l[i]].place

\* Without a limit a host that is heard comes on the screen, unless it goes quiet.
HeardHostAppears ==
  \A n \in Node : hosts[n] = "heard" /\ options.node_limit < 0 ~> hosts[n] # "heard" \/ n \in Visible

-----------------------------------------------------------------------------
(* What the code does not guarantee; no run lists it.                      *)

\* "reposition and update font" (font_changed): a change of font reaches every text.
\* A call of ask_reposition(FALSE) before the next update takes the request back.
FontApplied ==
  Settled /\ ~need_reposition =>
    \A n \in Visible : canvas_nodes[n].text => canvas_nodes[n].font = pref.font
=============================================================================
