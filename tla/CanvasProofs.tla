---------------------------- MODULE CanvasProofs ----------------------------
(***************************************************************************)
(* What the diagram shows is evenly spread and its links end at the nodes, *)
(* for any number of nodes, any limit and any mode.                        *)
(***************************************************************************)
EXTENDS Canvas, FiniteSetTheorems, WellFoundedInduction, TLAPS

CNodes == DOMAIN canvas_nodes
Shown == {n \in CNodes : canvas_nodes[n].shown}
Round == {n \in Visible : ~canvas_nodes[n].centered}
Fresh == {n \in CNodes : canvas_nodes[n].is_new}

\* A canvas_node_t has all its fields.
WellFormed(c) ==
  /\ c = [is_new |-> c.is_new, shown |-> c.shown, centered |-> c.centered,
          visible |-> c.visible, text |-> c.text, place |-> c.place, font |-> c.font]
  /\ c.is_new \in BOOLEAN /\ c.shown \in BOOLEAN /\ c.centered \in BOOLEAN
  /\ c.visible \in BOOLEAN /\ c.text \in BOOLEAN

-----------------------------------------------------------------------------
(* Finite sets.                                                            *)

\* A part of a finite set is finite and no larger.
LEMMA Part ==
  ASSUME NEW S, IsFiniteSet(S), NEW P, P \subseteq S
  PROVE  /\ IsFiniteSet(P) /\ Cardinality(P) \in Nat /\ Cardinality(S) \in Nat
         /\ Cardinality(P) <= Cardinality(S)
         /\ Cardinality(S \ P) = Cardinality(S) - Cardinality(P)
         /\ Cardinality(P) = Cardinality(S) => P = S
<1>1. IsFiniteSet(P) /\ Cardinality(P) <= Cardinality(S)
      /\ (Cardinality(P) = Cardinality(S) => P = S)
  BY FS_Subset
<1>2. S \cap P = P
  OBVIOUS
<1>3. Cardinality(S \ P) = Cardinality(S) - Cardinality(S \cap P)
  BY <1>1, FS_Difference
<1> QED
  BY <1>1, <1>2, <1>3, FS_CardinalityType

\* An injective numbering of a finite set has as many values as the set.
LEMMA SameSize ==
  ASSUME NEW S, IsFiniteSet(S), NEW f, DOMAIN f = S, f = [x \in S |-> f[x]],
         \A x, y \in S : f[x] = f[y] => x = y
  PROVE  Cardinality({f[x] : x \in S}) = Cardinality(S)
<1> DEFINE T == {f[x] : x \in S}
<1>1. f \in [S -> T]
  OBVIOUS
<1>2. f \in Injection(S, T)
  BY <1>1 DEF Injection, IsInjective
<1>3. f \in Surjection(S, T)
  BY <1>1 DEF Surjection
<1> HIDE DEF T
<1>4. Cardinality(T) = Cardinality(S)
  BY <1>2, <1>3, FS_Surjection
<1> QED
  BY <1>4 DEF T

\* The rank of a node among others, as reposition_canvas_nodes counts it.
Rank(n, S) == Cardinality({m \in S : m < n})

\* The ranks of a finite set of nodes are the numbers from 0 on, each of them once.
LEMMA Ranks ==
  ASSUME NEW S, S \subseteq Nat, IsFiniteSet(S)
  PROVE  /\ \A m, n \in S : Rank(m, S) = Rank(n, S) => m = n
         /\ {Rank(n, S) : n \in S} = 0 .. Cardinality(S) - 1
<1> DEFINE f == [n \in S |-> Rank(n, S)]
           T == 0 .. Cardinality(S) - 1
<1>0. Cardinality(S) \in Nat
  BY FS_CardinalityType
<1>1. ASSUME NEW n \in S PROVE Rank(n, S) \in T
  <2> DEFINE P == {m \in S : m < n}
  <2>1. P \subseteq S /\ P # S
    BY <1>1
  <2>2. Cardinality(P) \in Nat /\ Cardinality(P) <= Cardinality(S)
        /\ Cardinality(P) # Cardinality(S)
    BY <2>1, Part
  <2> QED
    BY <1>0, <2>2 DEF Rank
<1>2. ASSUME NEW m \in S, NEW n \in S, m < n PROVE Rank(m, S) # Rank(n, S)
  <2> DEFINE P == {k \in S : k < m}
             Q == {k \in S : k < n}
  <2>0. \A k \in S : k < m => k < n
    BY <1>2
  <2>1. P \subseteq Q /\ m \in Q /\ m \notin P
    <3>1. m \in Int /\ ~ (m < m)
      OBVIOUS
    <3> QED
      BY <1>2, <2>0, <3>1
  <2>2. IsFiniteSet(Q)
    BY FS_Subset
  <2>3. Cardinality(P) = Cardinality(Q) => P = Q
    BY <2>1, <2>2, Part
  <2> QED
    BY <2>1, <2>3 DEF Rank
<1>3. \A m, n \in S : Rank(m, S) = Rank(n, S) => m = n
  BY <1>2
<1>4. f \in Injection(S, T)
  BY <1>1, <1>3 DEF Injection, IsInjective
<1>5. IsFiniteSet(T) /\ Cardinality(T) = Cardinality(S)
  <2>1. 0 \in Int /\ Cardinality(S) - 1 \in Int
    BY <1>0
  <2>2. IsFiniteSet(T)
        /\ Cardinality(T) = IF 0 > Cardinality(S) - 1 THEN 0 ELSE Cardinality(S) - 1 - 0 + 1
    BY <2>1, FS_Interval
  <2> QED
    BY <1>0, <2>2
<1>6. f \in Surjection(S, T)
  <2> HIDE DEF f, T
  <2> QED
    BY <1>4, <1>5, FS_Injection
<1>7. \A k \in T : \E n \in S : Rank(n, S) = k
  BY <1>6 DEF Surjection
<1> QED
  BY <1>1, <1>3, <1>7

-----------------------------------------------------------------------------
(* The invariant.                                                          *)

\* Canvas nodes are complete, nothing is left of an update that is over, an announced
\* node is heard, and the names are finitely many.
Sane ==
  /\ options \in Options
  /\ \A n \in CNodes : WellFormed(canvas_nodes[n])
  /\ pc # "nodes" => todo = {} /\ doomed = {} /\ nested = FALSE
  /\ \A n \in new_nodes : hosts[n] = "heard"
  /\ (\A l \in Levels : IsFiniteSet(summary[l])) /\ IsFiniteSet(legend)

\* The nodes that may still be given a place before another packet comes.
Pending == Fresh \cup (new_nodes \ (CNodes \ doomed))

SpotsLeft ==
  IF options.stationary THEN spots + Cardinality(Pending) <= MaxSpots ELSE spots = 0

\* Without a limit every node of the canvas is shown.
AllShown == options.node_limit < 0 => Shown = CNodes

\* In stationary mode a place is given out once and for all.
PlacedOnce ==
  options.stationary =>
    /\ \A n \in CNodes : ~canvas_nodes[n].centered
    /\ \A n \in CNodes \ Fresh :
         \E s \in Sizes, k \in 0 .. spots - 1 : canvas_nodes[n].place = <<"spot", s, k>>
    /\ \A m, n \in CNodes \ Fresh : canvas_nodes[m].place = canvas_nodes[n].place => m = n

\* Unless new places were asked for, what is shown is on the screen, spread evenly.
\* It holds in the middle of an update too.
Spread ==
  ~need_reposition =>
    /\ doomed = {} /\ Visible = Shown /\ Visible \cap Fresh = {}
    /\ Cardinality(Visible) = displayed_nodes
    /\ options.node_limit >= 0 =>
         displayed_nodes = Min({options.node_limit, Cardinality(CNodes)})
    /\ \A n \in Visible : canvas_nodes[n].text = ~pref.diagram_only
    /\ ~options.stationary =>
         \A n \in Round :
           canvas_nodes[n].place = <<"circle", size, displayed_nodes, Rank(n, Round)>>

\* A link that is drawn ends at the places of its nodes, in the middle of an update too.
LinkSound(l) ==
  canvas_links[l].visible =>
    \A i \in {1, 2} : l[i] \in Visible /\ canvas_links[l].ends[l[i]] = canvas_nodes[l[i]].place

LinksSound == \A l \in DOMAIN canvas_links : LinkSound(l)

IInv == TypeOK /\ Sane /\ SpotsLeft /\ AllShown /\ PlacedOnce /\ Spread /\ LinksSound

\* The sets of nodes that an update counts are finite.
LEMMA NodesFinite ==
  ASSUME TypeOK
  PROVE  /\ IsFiniteSet(Node) /\ CNodes \subseteq Node /\ IsFiniteSet(CNodes)
         /\ Cardinality(CNodes) \in Nat /\ Cardinality(Node) \in Nat
         /\ Cardinality(CNodes) <= Cardinality(Node)
<1>1. IsFiniteSet(Node)
  BY CanvasAssumption
<1>2. CNodes \subseteq Node
  BY DEF TypeOK, CNodes
<1> QED
  BY <1>1, <1>2, Part

\* The events of the main loop and the return of update_diagram leave the diagram as it
\* is and do not take back a request for new places; those that make the places wrong
\* ask for new ones.
Event ==
  \/ packet_acquired \/ on_stack_level_changed \/ on_text_font_changed
  \/ on_diagram_only_toggle_toggled \/ colors_changed \/ on_cancel_pref_button_clicked
  \/ on_canvas1_size_allocate \/ redraw_done \/ UNCHANGED vars

\* Of what the diagram shows, the steps that only note an event change nothing.
LEMMA EventFrame ==
  ASSUME IInv, Event
  PROVE  /\ UNCHANGED <<canvas_nodes, canvas_links, displayed_nodes, spots, options, todo,
                        doomed, nested>>
         /\ ~need_reposition' => /\ ~need_reposition /\ size' = size
                                 /\ pref'.diagram_only = pref.diagram_only
<1> USE DEF diagram, labels, asked, update, user, catalogs, SetPref, ask_reposition
<1>1. CASE packet_acquired
  BY <1>1 DEF packet_acquired
<1>2. CASE on_stack_level_changed
  <2>1. PICK l \in Levels : pref' = [pref EXCEPT !.stack_level = l]
    BY <1>2 DEF on_stack_level_changed
  <2>2. pref'.diagram_only = pref.diagram_only
    BY <2>1 DEF IInv, TypeOK, Flags
  <2> QED
    BY <1>2, <2>2 DEF on_stack_level_changed
<1>3. CASE on_text_font_changed
  BY <1>3 DEF on_text_font_changed
<1>4. CASE on_diagram_only_toggle_toggled
  BY <1>4 DEF on_diagram_only_toggle_toggled
<1>5. CASE colors_changed
  BY <1>5 DEF colors_changed
<1>6. CASE on_cancel_pref_button_clicked
  BY <1>6 DEF on_cancel_pref_button_clicked
<1>7. CASE on_canvas1_size_allocate
  BY <1>7 DEF on_canvas1_size_allocate
<1>8. CASE redraw_done \/ UNCHANGED vars
  BY <1>8 DEF redraw_done, vars
<1> QED
  BY <1>1, <1>2, <1>3, <1>4, <1>5, <1>6, <1>7, <1>8 DEF Event

\* So an event keeps what the invariant says of the diagram.
LEMMA EventDiagram ==
  ASSUME IInv, Event
  PROVE  AllShown' /\ PlacedOnce' /\ Spread' /\ LinksSound'
<1>1. UNCHANGED <<canvas_nodes, canvas_links, displayed_nodes, spots, options, doomed>>
  BY EventFrame
<1>2. AllShown'
  BY <1>1 DEF IInv, AllShown, Shown, CNodes
<1>3. LinksSound'
  BY <1>1 DEF IInv, LinksSound, LinkSound, Visible
<1>4. Spread'
  <2> SUFFICES ASSUME ~need_reposition' PROVE Spread'
    BY DEF Spread
  <2>1. ~need_reposition /\ size' = size /\ pref'.diagram_only = pref.diagram_only
    BY EventFrame
  <2> QED
    BY <1>1, <2>1 DEF IInv, Spread, Visible, Shown, Fresh, Round, CNodes
<1>5. PlacedOnce'
  <2> SUFFICES ASSUME options.stationary PROVE PlacedOnce'
    BY <1>1 DEF PlacedOnce
  <2>1. CNodes' = CNodes /\ Fresh' = Fresh
    BY <1>1 DEF CNodes, Fresh
  <2> QED
    BY <1>1, <2>1 DEF IInv, PlacedOnce
<1> QED
  BY <1>2, <1>3, <1>4, <1>5

\* packet_acquired makes the ends of a link heard, announces them and adds names.
LEMMA PacketSane ==
  ASSUME IInv, packet_acquired
  PROVE  TypeOK' /\ Sane' /\ SpotsLeft'
<1>0. PICK l \in Link, s \in Stacks :
        /\ options.stationary => spots + Cardinality(Node) < MaxSpots
        /\ new_nodes' = new_nodes \cup {n \in {l[1], l[2]} : Announces(n)}
        /\ hosts' = [n \in Node |-> IF n \in {l[1], l[2]} THEN "heard" ELSE hosts[n]]
        /\ links' = links \cup {l}
        /\ summary' = [k \in Levels |-> summary[k] \cup {s[k]}]
  BY DEF packet_acquired
<1>1. UNCHANGED <<canvas_nodes, canvas_links, displayed_nodes, spots, legend, known_protocols,
                  need_reposition, need_font_refresh, pc, todo, doomed, nested, options, size,
                  pref>>
  BY DEF packet_acquired, diagram, labels, asked, update, user
<1>2. l[1] \in Node /\ l[2] \in Node
  BY CanvasAssumption
<1>3. hosts' \in [Node -> {"absent", "quiet", "heard"}] /\ new_nodes' \subseteq Node
      /\ links' \subseteq Link
  BY <1>0, <1>2 DEF IInv, TypeOK
<1>4. \A k \in Levels : s[k] \in Names
  BY DEF Names
<1>5. summary' \in [Levels -> SUBSET Names]
  BY <1>0, <1>4 DEF IInv, TypeOK
<1>6. TypeOK'
  BY <1>1, <1>3, <1>5 DEF IInv, TypeOK
<1>7. Sane'
  <2>1. \A n \in new_nodes' : hosts'[n] = "heard"
    BY <1>0, <1>2, <1>3 DEF IInv, Sane, TypeOK
  <2>2. ASSUME NEW k \in Levels PROVE IsFiniteSet(summary'[k])
    <3>1. IsFiniteSet(summary[k])
      BY DEF IInv, Sane
    <3>2. IsFiniteSet(summary[k] \cup {s[k]})
      BY <3>1, FS_AddElement
    <3> QED
      BY <1>0, <3>2
  <2> QED
    BY <1>1, <2>1, <2>2 DEF IInv, Sane, CNodes
<1>8. SpotsLeft'
  <2>1. CASE options.stationary
    <3>1. Pending' \subseteq Node
      BY <1>3, <1>6, NodesFinite DEF Pending, Fresh, CNodes, TypeOK
    <3>2. Cardinality(Pending') \in Nat /\ Cardinality(Pending') <= Cardinality(Node)
          /\ Cardinality(Node) \in Nat
      BY <3>1, CanvasAssumption, Part
    <3>3. spots \in Nat /\ MaxSpots \in Nat
      BY CanvasAssumption DEF IInv, TypeOK
    <3> QED
      BY <1>0, <1>1, <2>1, <3>2, <3>3 DEF SpotsLeft
  <2>2. CASE ~options.stationary
    BY <1>1, <2>2 DEF IInv, SpotsLeft
  <2> QED
    BY <2>1, <2>2
<1> QED
  BY <1>6, <1>7, <1>8

\* The other events: preferences, the size of the window, the end of an update.
LEMMA EventSane ==
  ASSUME IInv, Event
  PROVE  TypeOK' /\ Sane' /\ SpotsLeft'
<1>0. CASE packet_acquired
  BY <1>0, PacketSane
<1>1. CASE ~packet_acquired
  <2>1. UNCHANGED <<canvas_nodes, canvas_links, displayed_nodes, spots, options, todo, doomed,
                    nested>>
    BY EventFrame
  <2>2. UNCHANGED <<hosts, new_nodes, links, summary>>
    BY <1>1 DEF Event, on_stack_level_changed, on_text_font_changed,
                on_diagram_only_toggle_toggled, colors_changed, on_cancel_pref_button_clicked,
                on_canvas1_size_allocate, redraw_done, vars, catalogs
  <2>3. (legend' = legend /\ known_protocols' = known_protocols)
        \/ (legend' = {} /\ known_protocols' = 0)
    BY <1>1 DEF Event, on_stack_level_changed, on_text_font_changed,
                on_diagram_only_toggle_toggled, colors_changed, on_cancel_pref_button_clicked,
                on_canvas1_size_allocate, redraw_done, vars, labels, delete_gui_protocols
  <2>4. pc' = pc \/ (pc # "nodes" /\ pc' \in {"idle", "called"})
    BY <1>1 DEF Event, on_stack_level_changed, on_text_font_changed,
                on_diagram_only_toggle_toggled, colors_changed, on_cancel_pref_button_clicked,
                on_canvas1_size_allocate, redraw_done, vars, update
  <2>5. size' \in Sizes
    BY <1>1 DEF Event, on_stack_level_changed, on_text_font_changed,
                on_diagram_only_toggle_toggled, colors_changed, on_cancel_pref_button_clicked,
                on_canvas1_size_allocate, redraw_done, vars, user, SetPref, IInv, TypeOK
  <2>6. pref' \in Flags
    <3>1. CASE UNCHANGED pref
      BY <3>1 DEF IInv, TypeOK
    <3>2. CASE \E p \in Flags : pref' = p
      BY <3>2
    <3>3. ASSUME NEW l \in Levels, pref' = [pref EXCEPT !.stack_level = l] PROVE pref' \in Flags
      BY <3>3 DEF IInv, TypeOK, Flags
    <3>4. ASSUME NEW f \in Fonts, pref' = [pref EXCEPT !.font = f] PROVE pref' \in Flags
      BY <3>4 DEF IInv, TypeOK, Flags
    <3>5. CASE pref' = [pref EXCEPT !.diagram_only = ~@]
      BY <3>5 DEF IInv, TypeOK, Flags
    <3> QED
      BY <1>1, <3>1, <3>2, <3>3, <3>4, <3>5
         DEF Event, on_stack_level_changed, on_text_font_changed,
             on_diagram_only_toggle_toggled, colors_changed, on_cancel_pref_button_clicked,
             on_canvas1_size_allocate, redraw_done, vars, user, SetPref
  <2>7. need_reposition' \in BOOLEAN /\ need_font_refresh' \in BOOLEAN
    <3>1. need_reposition' = need_reposition \/ need_reposition' = TRUE
      BY <1>1 DEF Event, on_stack_level_changed, on_text_font_changed,
                on_diagram_only_toggle_toggled, colors_changed, on_cancel_pref_button_clicked,
                on_canvas1_size_allocate, redraw_done, vars, asked, ask_reposition
    <3>2. need_font_refresh' = need_font_refresh \/ need_font_refresh' \in BOOLEAN
      BY <1>1 DEF Event, on_stack_level_changed, on_text_font_changed,
                on_diagram_only_toggle_toggled, colors_changed, on_cancel_pref_button_clicked,
                on_canvas1_size_allocate, redraw_done, vars, asked, ask_reposition
    <3> QED
      BY <3>1, <3>2 DEF IInv, TypeOK
  <2>8. legend' \subseteq Names /\ known_protocols' = Cardinality(legend') /\ IsFiniteSet(legend')
    BY <2>3, FS_EmptySet DEF IInv, TypeOK, Sane
  <2>9. TypeOK'
    BY <2>1, <2>2, <2>4, <2>5, <2>6, <2>7, <2>8 DEF IInv, TypeOK
  <2>10. Sane'
    BY <2>1, <2>2, <2>4, <2>8 DEF IInv, Sane, CNodes
  <2>11. SpotsLeft'
    BY <2>1, <2>2 DEF IInv, SpotsLeft, Pending, Fresh, CNodes
  <2> QED
    BY <2>9, <2>10, <2>11
<1> QED
  BY <1>0, <1>1

\* gui_stop_capture empties the diagram.
LEMMA StopKeeps ==
  ASSUME IInv, stop_capture
  PROVE  IInv'
<1>1. /\ pc = "idle" /\ pc' = "redraw" /\ hosts' = [n \in Node |-> "absent"]
      /\ new_nodes' = {} /\ links' = {} /\ summary' = [l \in Levels |-> {}]
      /\ displayed_nodes' = 0 /\ legend' = {} /\ known_protocols' = 0
      /\ need_reposition' = FALSE /\ need_font_refresh' = FALSE
      /\ UNCHANGED <<spots, todo, doomed, nested, options, size, pref>>
  BY DEF stop_capture, user
<1>2. CNodes' = {} /\ DOMAIN canvas_links' = {}
  BY DEF stop_capture, CNodes
<1>3. todo = {} /\ doomed = {} /\ nested = FALSE
  BY <1>1 DEF IInv, Sane
<1>4. IsFiniteSet({}) /\ Cardinality({}) = 0
  BY FS_EmptySet
<1>5. TypeOK'
  <2>1. DOMAIN canvas_nodes' = {}
    BY <1>2 DEF CNodes
  <2>2. 0 \in 0 .. Cardinality(Node)
    BY NodesFinite DEF IInv
  <2> QED
    BY <1>1, <1>2, <1>3, <1>4, <2>1, <2>2 DEF IInv, TypeOK
<1>6. Sane'
  BY <1>1, <1>2, <1>3, <1>4 DEF IInv, Sane
<1>7. Shown' = {} /\ Fresh' = {} /\ Visible' = {} /\ Round' = {}
  BY <1>2 DEF Shown, Fresh, Visible, Round, CNodes
<1>8. SpotsLeft'
  <2>1. Pending' = {}
    BY <1>1, <1>2, <1>7 DEF Pending
  <2>2. spots \in 0 .. MaxSpots /\ MaxSpots \in Nat
    BY CanvasAssumption DEF IInv, TypeOK
  <2> QED
    BY <1>1, <1>4, <2>1, <2>2 DEF IInv, SpotsLeft
<1>9. Spread'
  <2>1. ASSUME options.node_limit >= 0 PROVE Min({options.node_limit, 0}) = 0
    <3>1. options.node_limit \in Int
      BY CanvasAssumption DEF IInv, Sane
    <3> QED
      BY <2>1, <3>1 DEF Min
  <2> QED
    BY <1>1, <1>2, <1>3, <1>4, <1>7, <2>1 DEF Spread
<1>10. AllShown' /\ PlacedOnce' /\ LinksSound'
  BY <1>2, <1>7 DEF AllShown, PlacedOnce, LinksSound
<1> QED
  BY <1>5, <1>6, <1>8, <1>9, <1>10 DEF IInv

\* The announced nodes get their canvas nodes, hidden until they have a place.
LEMMA NodesKeeps ==
  ASSUME IInv, diagram_update_nodes
  PROVE  IInv'
<1> DEFINE created == {n \in new_nodes : display_node(n)' /\ n \notin DOMAIN canvas_nodes}
<1>1. /\ pc # "nodes" /\ pc' = "nodes" /\ nested' = FALSE
      /\ canvas_nodes' = [n \in CNodes \cup created |->
                            IF n \in created THEN NewCanvasNode ELSE canvas_nodes[n]]
      /\ need_reposition' = (need_reposition \/ created # {})
      /\ new_nodes' = {} /\ todo' = CNodes' /\ doomed' = {}
      /\ UNCHANGED <<links, summary, canvas_links, displayed_nodes, spots, legend,
                     known_protocols, need_font_refresh, options, size, pref>>
  BY DEF diagram_update_nodes, CNodes, labels, user, IInv, Sane
<1>2. hosts' \in [Node -> {"absent", "quiet", "heard"}]
  BY DEF diagram_update_nodes, IInv, TypeOK
<1>3. created \subseteq new_nodes /\ created \cap CNodes = {}
  BY DEF CNodes
<1> HIDE DEF created
<1>4. /\ CNodes' = CNodes \cup created
      /\ \A n \in CNodes : canvas_nodes'[n] = canvas_nodes[n]
      /\ \A n \in created : canvas_nodes'[n] = NewCanvasNode
  BY <1>1, <1>3 DEF CNodes
<1>5. doomed = {} /\ todo = {}
  BY <1>1 DEF IInv, Sane
<1>6. new_nodes \subseteq Node /\ created \subseteq Node /\ CNodes' \subseteq Node
  BY <1>3, <1>4 DEF IInv, TypeOK, CNodes
<1>7. /\ NewCanvasNode.is_new = TRUE /\ NewCanvasNode.shown = TRUE
      /\ NewCanvasNode.visible = FALSE /\ NewCanvasNode.centered = FALSE
      /\ WellFormed(NewCanvasNode)
  BY DEF NewCanvasNode, WellFormed
<1>8. /\ Fresh' = Fresh \cup created /\ Shown' = Shown \cup created
      /\ Visible' = Visible
  BY <1>4, <1>7 DEF Fresh, Shown, Visible, CNodes
<1>9. TypeOK'
  <2>1. need_reposition' \in BOOLEAN
    BY <1>1 DEF IInv, TypeOK
  <2>2. DOMAIN canvas_nodes' \subseteq Node /\ todo' \subseteq DOMAIN canvas_nodes'
    BY <1>1, <1>6 DEF CNodes
  <2> QED
    BY <1>1, <1>2, <2>1, <2>2 DEF IInv, TypeOK
<1>10. Sane'
  <2>1. \A n \in CNodes' : WellFormed(canvas_nodes'[n])
    BY <1>4, <1>7 DEF IInv, Sane
  <2> QED
    BY <1>1, <2>1 DEF IInv, Sane
<1>11. SpotsLeft'
  <2>1. Pending' \subseteq Pending
    BY <1>1, <1>3, <1>5, <1>8 DEF Pending
  <2>2. Pending \subseteq Node
    BY <1>6, NodesFinite DEF Pending, Fresh, IInv
  <2>3. IsFiniteSet(Pending)
    BY <2>2, CanvasAssumption, Part
  <2>4. Cardinality(Pending') <= Cardinality(Pending)
        /\ Cardinality(Pending') \in Nat /\ Cardinality(Pending) \in Nat
    BY <2>1, <2>3, Part
  <2>5. spots \in Nat /\ MaxSpots \in Nat
    BY CanvasAssumption DEF IInv, TypeOK
  <2> QED
    BY <1>1, <2>4, <2>5 DEF IInv, SpotsLeft
<1>12. AllShown'
  BY <1>1, <1>4, <1>8 DEF IInv, AllShown
<1>13. PlacedOnce'
  <2> SUFFICES ASSUME options.stationary PROVE PlacedOnce'
    BY <1>1 DEF PlacedOnce
  <2>1. CNodes' \ Fresh' = CNodes \ Fresh
    BY <1>3, <1>4, <1>8
  <2>2. \A n \in CNodes' : ~canvas_nodes'[n].centered
    BY <1>4, <1>7 DEF IInv, PlacedOnce
  <2> QED
    BY <1>1, <1>4, <2>1, <2>2 DEF IInv, PlacedOnce
<1>14. Spread'
  <2> SUFFICES ASSUME ~need_reposition' PROVE Spread'
    BY DEF Spread
  <2>1. ~need_reposition /\ created = {}
    BY <1>1
  <2>2. CNodes' = CNodes /\ Fresh' = Fresh /\ Shown' = Shown
    BY <1>4, <1>8, <2>1
  <2>3. Visible \subseteq CNodes
    BY DEF Visible, CNodes
  <2>4. Round' = Round
    BY <1>4, <1>8, <2>3 DEF Round
  <2>5. Round \subseteq CNodes
    BY <2>3 DEF Round
  <2> QED
    BY <1>1, <1>4, <1>8, <2>1, <2>2, <2>3, <2>4, <2>5 DEF IInv, Spread
<1>15. LinksSound'
  <2>1. Visible \subseteq CNodes
    BY DEF Visible, CNodes
  <2> QED
    BY <1>1, <1>4, <1>8, <2>1 DEF IInv, LinksSound, LinkSound
<1> QED
  BY <1>9, <1>10, <1>11, <1>12, <1>13, <1>14, <1>15 DEF IInv

\* A canvas node whose host is no longer displayed is to be removed, and new places
\* are asked for.
LEMMA UpdateKeeps ==
  ASSUME IInv, canvas_node_update
  PROVE  IInv'
<1> DEFINE n == Min(todo)
<1>1. /\ pc = "nodes" /\ todo # {} /\ todo' = todo \ {n}
      /\ \/ doomed' = doomed /\ need_reposition' = need_reposition /\ nested' = TRUE
         \/ ~display_node(n) /\ doomed' = doomed \cup {n} /\ need_reposition' = TRUE
            /\ nested' = FALSE
      /\ UNCHANGED <<hosts, new_nodes, links, summary, canvas_nodes, canvas_links,
                     displayed_nodes, spots, legend, known_protocols, need_font_refresh, pc,
                     options, size, pref>>
  BY DEF canvas_node_update, catalogs, diagram, labels, user
<1>2. n \in todo
  <2>1. todo \subseteq Nat
    BY CanvasAssumption DEF IInv, TypeOK
  <2>2. \E m \in todo : \A k \in todo : m <= k
    <3>0. todo # {}
      BY <1>1
    <3>1. PICK k \in todo : \A j \in todo : ~ (<<j, k>> \in OpToRel(<, Nat))
      BY ONLY <2>1, <3>0, WFMin, NatLessThanWellFounded
    <3>2. \A j \in todo : ~ (j < k)
      BY <2>1, <3>1 DEF OpToRel
    <3> QED
      BY <2>1, <3>2
  <2> QED
    BY <2>2 DEF Min
<1> HIDE DEF n
<1>3. CNodes' = CNodes /\ Fresh' = Fresh /\ Shown' = Shown /\ Visible' = Visible
      /\ Round' = Round
  BY <1>1 DEF CNodes, Fresh, Shown, Visible, Round
<1>4. TypeOK'
  <2>1. doomed' \subseteq DOMAIN canvas_nodes' /\ todo' \subseteq DOMAIN canvas_nodes'
    BY <1>1, <1>2 DEF IInv, TypeOK
  <2>2. need_reposition' \in BOOLEAN /\ nested' \in BOOLEAN
    BY <1>1 DEF IInv, TypeOK
  <2> QED
    BY <1>1, <2>1, <2>2 DEF IInv, TypeOK
<1>5. Sane'
  BY <1>1, <1>3 DEF IInv, Sane
<1>6. SpotsLeft'
  <2>1. Pending' = Pending
    <3>1. CASE doomed' = doomed
      BY <1>1, <1>3, <3>1 DEF Pending
    <3>2. CASE ~display_node(n) /\ doomed' = doomed \cup {n}
      <4>1. n \notin new_nodes
        BY <3>2 DEF display_node, IInv, Sane
      <4> QED
        BY <1>1, <1>3, <3>2, <4>1 DEF Pending
    <3> QED
      BY <1>1, <3>1, <3>2
  <2> QED
    BY <1>1, <2>1 DEF IInv, SpotsLeft
<1>7. AllShown' /\ PlacedOnce'
  BY <1>1, <1>3 DEF IInv, AllShown, PlacedOnce
<1>8. Spread'
  <2> SUFFICES ASSUME ~need_reposition' PROVE Spread'
    BY DEF Spread
  <2>1. ~need_reposition /\ doomed' = doomed
    BY <1>1
  <2> QED
    BY <1>1, <1>3, <2>1 DEF IInv, Spread
<1>9. LinksSound'
  BY <1>1, <1>3 DEF IInv, LinksSound, LinkSound
<1> QED
  BY <1>4, <1>5, <1>6, <1>7, <1>8, <1>9 DEF IInv

-----------------------------------------------------------------------------
(* The end of an update: limit_nodes, the new places, links and legend.    *)

\* No new places were asked for and limit_nodes keeps the nodes that are shown.
Still(kept) ==
  /\ ~need_reposition /\ kept = Shown /\ doomed = {} /\ spots' = spots
  /\ \A n \in CNodes : canvas_nodes'[n] = canvas_nodes[n]

\* reposition_canvas_nodes has visited every node: those kept have a place, the others
\* are hidden.
Moved(kept) ==
  /\ spots' = IF options.stationary THEN spots + Cardinality(kept \cap Fresh) ELSE spots
  /\ \A n \in CNodes' : WellFormed(canvas_nodes'[n]) /\ canvas_nodes'[n].shown = (n \in kept)
  /\ \A n \in CNodes' \ kept :
       /\ ~canvas_nodes'[n].visible
       /\ canvas_nodes'[n].is_new = canvas_nodes[n].is_new
       /\ canvas_nodes'[n].centered = canvas_nodes[n].centered
       /\ options.stationary => canvas_nodes'[n].place = canvas_nodes[n].place
  /\ \A n \in kept :
       /\ canvas_nodes'[n].visible /\ ~canvas_nodes'[n].is_new
       /\ canvas_nodes'[n].text = ~pref.diagram_only
       /\ canvas_nodes'[n].centered = Centered(n, canvas_nodes[n])
       /\ canvas_nodes'[n].place =
            Place(n, canvas_nodes[n], Cardinality(kept),
                  Rank(n, {m \in kept : ~Centered(m, canvas_nodes[m])}), Rank(n, kept \cap Fresh))

\* What reposition_canvas_nodes makes of canvas nodes cn, of which kept are shown.
RepositionedFrom(R, cn, kept, total) ==
  /\ DOMAIN R = DOMAIN cn
  /\ \A n \in DOMAIN cn \ kept :
       /\ WellFormed(R[n]) /\ ~R[n].shown /\ ~R[n].visible /\ R[n].is_new = cn[n].is_new
       /\ R[n].centered = cn[n].centered
       /\ options.stationary => R[n].place = cn[n].place
  /\ \A n \in kept :
       /\ WellFormed(R[n]) /\ R[n].shown /\ R[n].visible /\ ~R[n].is_new
       /\ R[n].text = ~pref.diagram_only /\ R[n].centered = Centered(n, cn[n])
       /\ R[n].place = Place(n, cn[n], total, Rank(n, {m \in kept : ~Centered(m, cn[m])}),
                             Rank(n, {m \in kept : cn[m].is_new}))

\* The code of reposition_canvas_nodes has that effect, node by node.
LEMMA Repositions ==
  ASSUME NEW cn, NEW total, \A n \in DOMAIN cn : WellFormed(cn[n]), pref \in Flags,
         NEW kept, kept = {n \in DOMAIN cn : cn[n].shown}
  PROVE  RepositionedFrom(Repositioned(cn, total), cn, kept, total)
<1>1. DOMAIN Repositioned(cn, total) = DOMAIN cn
  BY DEF Repositioned
<1>2. ASSUME NEW n \in DOMAIN cn \ kept
      PROVE  Repositioned(cn, total)[n] =
               [cn[n] EXCEPT !.visible = FALSE, !.text = FALSE,
                             !.place = IF options.stationary THEN @ ELSE NewPlace]
  BY DEF Repositioned
<1>3. ASSUME NEW n \in kept
      PROVE  Repositioned(cn, total)[n] =
               [cn[n] EXCEPT
                 !.place = Place(n, cn[n], total, Rank(n, {m \in kept : ~Centered(m, cn[m])}),
                                 Rank(n, {m \in kept : cn[m].is_new})),
                 !.centered = Centered(n, cn[n]), !.is_new = FALSE, !.visible = TRUE,
                 !.text = ~pref.diagram_only,
                 !.font = IF need_font_refresh THEN pref.font ELSE @]
  BY DEF Repositioned, Rank
<1>4. ASSUME NEW n \in DOMAIN cn \ kept
      PROVE  LET c == Repositioned(cn, total)[n]
             IN  /\ WellFormed(c) /\ ~c.shown /\ ~c.visible /\ c.is_new = cn[n].is_new
                 /\ c.centered = cn[n].centered
                 /\ options.stationary => c.place = cn[n].place
  <2> DEFINE p == IF options.stationary THEN cn[n].place ELSE NewPlace
  <2>1. WellFormed(cn[n]) /\ ~cn[n].shown
    OBVIOUS
  <2>2. Repositioned(cn, total)[n] =
          [is_new |-> cn[n].is_new, shown |-> cn[n].shown, centered |-> cn[n].centered,
           visible |-> FALSE, text |-> FALSE, place |-> p, font |-> cn[n].font]
    BY <1>2, <2>1 DEF WellFormed
  <2>3. options.stationary => p = cn[n].place
    OBVIOUS
  <2> HIDE DEF p
  <2> QED
    BY <2>1, <2>2, <2>3 DEF WellFormed
<1>5. ASSUME NEW n \in kept
      PROVE  LET c == Repositioned(cn, total)[n]
             IN  /\ WellFormed(c) /\ c.shown /\ c.visible /\ ~c.is_new
                 /\ c.text = ~pref.diagram_only /\ c.centered = Centered(n, cn[n])
                 /\ c.place = Place(n, cn[n], total,
                                    Rank(n, {m \in kept : ~Centered(m, cn[m])}),
                                    Rank(n, {m \in kept : cn[m].is_new}))
  <2> DEFINE p == Place(n, cn[n], total, Rank(n, {m \in kept : ~Centered(m, cn[m])}),
                        Rank(n, {m \in kept : cn[m].is_new}))
             t == ~pref.diagram_only
             ct == Centered(n, cn[n])
             f == IF need_font_refresh THEN pref.font ELSE cn[n].font
  <2>1. WellFormed(cn[n]) /\ cn[n].shown
    OBVIOUS
  <2>2. Repositioned(cn, total)[n] =
          [cn[n] EXCEPT !.place = p, !.centered = ct, !.is_new = FALSE, !.visible = TRUE,
                        !.text = t, !.font = f]
    BY <1>3
  <2>3. t \in BOOLEAN
    BY DEF Flags
  <2>4. ct \in BOOLEAN
    BY <2>1 DEF WellFormed, Centered
  <2> HIDE DEF p, t, ct, f
  <2>5. Repositioned(cn, total)[n] =
          [is_new |-> FALSE, shown |-> cn[n].shown, centered |-> ct,
           visible |-> TRUE, text |-> t, place |-> p, font |-> f]
    BY <2>1, <2>2 DEF WellFormed
  <2>6. LET c == Repositioned(cn, total)[n]
        IN  /\ WellFormed(c) /\ c.shown /\ c.visible /\ ~c.is_new
            /\ c.text = t /\ c.centered = ct /\ c.place = p
    BY <2>1, <2>3, <2>4, <2>5 DEF WellFormed
  <2> QED
    BY <2>6 DEF p, t, ct
<1> QED
  BY <1>1, <1>4, <1>5 DEF RepositionedFrom

\* The end of an update on the canvas nodes: limit_nodes keeps as many as it may, and
\* they stay where they are or all get new places.
LEMMA LinksStep ==
  ASSUME IInv, diagram_update_links
  PROVE  /\ CNodes' = CNodes \ doomed
         /\ \E kept \in SUBSET (CNodes \ doomed) :
              /\ options.node_limit < 0 => kept = CNodes \ doomed
              /\ options.node_limit >= 0 =>
                   Cardinality(kept) = Min({options.node_limit, Cardinality(CNodes \ doomed)})
              /\ displayed_nodes' = Cardinality(kept)
              /\ Still(kept) \/ Moved(kept)
<1> DEFINE D == CNodes \ doomed
           cn == [n \in D |-> canvas_nodes[n]]
<1>0. options.node_limit \in Int /\ options.stationary \in BOOLEAN
  BY CanvasAssumption DEF IInv, Sane
<1>1. PICK kept \in limit_nodes(cn) :
        LET total == IF options.node_limit < 0 THEN Cardinality(DOMAIN cn)
                     ELSE Cardinality(kept)
            move == need_reposition \/ LimitNoticed(cn, kept)
            limited == Limited(cn, kept)
        IN  /\ displayed_nodes' = total
            /\ canvas_nodes' = IF move THEN Repositioned(limited, total) ELSE limited
            /\ spots' = IF move /\ options.stationary
                        THEN spots + Cardinality({n \in kept : cn[n].is_new}) ELSE spots
  BY DEF diagram_update_links, CNodes
<1>2. DOMAIN cn = D /\ \A n \in D : cn[n] = canvas_nodes[n] /\ WellFormed(cn[n])
  BY DEF IInv, Sane
<1>3. kept \subseteq D /\ (options.node_limit < 0 => kept = D)
      /\ (options.node_limit >= 0 =>
            Cardinality(kept) = Min({options.node_limit, Cardinality(D)}))
  <2>1. CASE options.node_limit < 0
    <3>1. kept = {n \in D : cn[n].shown}
      BY <1>2, <2>1 DEF limit_nodes
    <3>2. \A n \in D : cn[n].shown
      BY <1>2, <2>1 DEF IInv, AllShown, Shown
    <3> QED
      BY <1>0, <2>1, <3>1, <3>2
  <2>2. CASE ~ (options.node_limit < 0)
    <3>1. kept \in kSubset(Min({options.node_limit, Cardinality(D)}), D)
      BY <1>2, <2>2 DEF limit_nodes
    <3>2. kept \in SUBSET D /\ Cardinality(kept) = Min({options.node_limit, Cardinality(D)})
      BY <3>1 DEF kSubset
    <3> QED
      BY <2>2, <3>2
  <2> QED
    BY <2>1, <2>2
<1> DEFINE limited == Limited(cn, kept)
<1>4. DOMAIN limited = D
      /\ \A n \in D : limited[n] = [cn[n] EXCEPT !.shown = n \in kept]
  BY <1>2 DEF Limited
<1>5. \A n \in D : /\ WellFormed(limited[n]) /\ limited[n].shown = (n \in kept)
                   /\ limited[n].is_new = canvas_nodes[n].is_new
                   /\ limited[n].centered = canvas_nodes[n].centered
                   /\ limited[n].place = canvas_nodes[n].place
  <2> SUFFICES ASSUME NEW n \in D
               PROVE  /\ WellFormed(limited[n]) /\ limited[n].shown = (n \in kept)
                      /\ limited[n].is_new = canvas_nodes[n].is_new
                      /\ limited[n].centered = canvas_nodes[n].centered
                      /\ limited[n].place = canvas_nodes[n].place
    OBVIOUS
  <2> DEFINE k == n \in kept
             c == canvas_nodes[n]
  <2>1. WellFormed(c) /\ limited[n] = [c EXCEPT !.shown = k]
    BY <1>2, <1>4
  <2>2. k \in BOOLEAN
    OBVIOUS
  <2> HIDE DEF k, c, limited
  <2>3. limited[n] = [is_new |-> c.is_new, shown |-> k, centered |-> c.centered,
                      visible |-> c.visible, text |-> c.text, place |-> c.place, font |-> c.font]
    BY <2>1 DEF WellFormed
  <2>4. WellFormed(limited[n]) /\ limited[n].shown = k /\ limited[n].is_new = c.is_new
        /\ limited[n].centered = c.centered /\ limited[n].place = c.place
    BY <2>1, <2>2, <2>3 DEF WellFormed
  <2> QED
    BY <2>4 DEF k, c
<1>6. displayed_nodes' = Cardinality(kept)
  BY <1>0, <1>1, <1>2, <1>3
<1> DEFINE move == need_reposition \/ LimitNoticed(cn, kept)
<1>7. canvas_nodes' = IF move THEN Repositioned(limited, Cardinality(kept)) ELSE limited
  BY <1>0, <1>1, <1>2, <1>3
<1>8. spots' = IF move /\ options.stationary
               THEN spots + Cardinality({n \in kept : canvas_nodes[n].is_new}) ELSE spots
  <2>1. {n \in kept : cn[n].is_new} = {n \in kept : canvas_nodes[n].is_new}
    BY <1>2, <1>3
  <2> QED
    BY <1>1, <2>1
<1>9. {n \in kept : canvas_nodes[n].is_new} = kept \cap Fresh
  BY <1>3 DEF Fresh
<1>10. CASE ~move
  <2>1. ~need_reposition /\ doomed = {} /\ D = CNodes
    BY <1>10 DEF IInv, Spread
  <2>2. \A n \in D : canvas_nodes[n].shown = (n \in kept)
    BY <1>2, <1>10 DEF LimitNoticed
  <2>3. kept = Shown
    BY <1>3, <2>1, <2>2 DEF Shown, IInv, Sane, WellFormed
  <2>4. ASSUME NEW n \in D PROVE limited[n] = canvas_nodes[n]
    <3> DEFINE k == n \in kept
               c == canvas_nodes[n]
    <3>1. WellFormed(c) /\ limited[n] = [c EXCEPT !.shown = k] /\ c.shown = k
      BY <1>2, <1>4, <2>2
    <3> HIDE DEF k, c, limited
    <3>2. limited[n] = c
      BY <3>1 DEF WellFormed
    <3> QED
      BY <3>2 DEF c
  <2>5. CNodes' = D /\ \A n \in CNodes : canvas_nodes'[n] = canvas_nodes[n]
    BY <1>4, <1>7, <1>10, <2>1, <2>4 DEF CNodes
  <2>6. Still(kept)
    BY <1>8, <1>10, <2>1, <2>3, <2>5 DEF Still
  <2> QED
    BY <1>3, <1>6, <2>5, <2>6
<1>11. CASE move
  <2>1. canvas_nodes' = Repositioned(limited, Cardinality(kept))
    BY <1>7, <1>11
  <2>2. spots' = IF options.stationary THEN spots + Cardinality(kept \cap Fresh) ELSE spots
    BY <1>8, <1>9, <1>11
  <2> HIDE DEF D, limited, move
  <2>3. kept = {n \in DOMAIN limited : limited[n].shown}
    BY <1>3, <1>4, <1>5
  <2>4. pref \in Flags
    BY DEF IInv, TypeOK
  <2>5. \A n \in DOMAIN limited : WellFormed(limited[n])
    BY <1>4, <1>5
  <2> DEFINE total == Cardinality(kept)
             R == Repositioned(limited, total)
  <2> HIDE DEF total
  <2>6. RepositionedFrom(R, limited, kept, total)
    BY <2>3, <2>4, <2>5, Repositions
  <2>7. canvas_nodes' = R
    BY <2>1 DEF total
  <2> HIDE DEF R
  <2>8. \A n \in kept : Centered(n, limited[n]) = Centered(n, canvas_nodes[n])
    BY <1>3, <1>5 DEF Centered
  <2>9. {m \in kept : ~Centered(m, limited[m])} = {m \in kept : ~Centered(m, canvas_nodes[m])}
    BY <2>8
  <2>10. {m \in kept : limited[m].is_new} = kept \cap Fresh
    BY <1>3, <1>5, <1>9
  <2>11. ASSUME NEW n \in kept, NEW r, NEW k
         PROVE  Place(n, limited[n], total, r, k) = Place(n, canvas_nodes[n], total, r, k)
    <3>1. limited[n].is_new = canvas_nodes[n].is_new /\ limited[n].place = canvas_nodes[n].place
      BY <1>3, <1>5
    <3> QED
      BY <2>8, <3>1 DEF Place
  <2>12. CNodes' = D
    BY <1>4, <2>6, <2>7 DEF CNodes, RepositionedFrom
  <2>13. \A n \in CNodes' : WellFormed(canvas_nodes'[n])
                            /\ canvas_nodes'[n].shown = (n \in kept)
    <3>1. ASSUME NEW n \in CNodes', n \notin kept
          PROVE  WellFormed(canvas_nodes'[n]) /\ canvas_nodes'[n].shown = FALSE
      <4>1. WellFormed(canvas_nodes'[n]) /\ ~canvas_nodes'[n].shown
        BY <1>4, <2>6, <2>7, <2>12, <3>1 DEF RepositionedFrom
      <4> QED
        BY <4>1 DEF WellFormed
    <3>2. ASSUME NEW n \in kept
          PROVE  WellFormed(canvas_nodes'[n]) /\ canvas_nodes'[n].shown = TRUE
      <4>1. WellFormed(canvas_nodes'[n]) /\ canvas_nodes'[n].shown
        BY <2>6, <2>7 DEF RepositionedFrom
      <4> QED
        BY <4>1 DEF WellFormed
    <3>3. ASSUME NEW n \in CNodes' PROVE canvas_nodes'[n].shown = (n \in kept)
      <4>1. (n \in kept) = TRUE \/ (n \in kept) = FALSE
        OBVIOUS
      <4> QED
        BY <3>1, <3>2, <4>1
    <3> QED
      BY <3>1, <3>2, <3>3
  <2>14. \A n \in CNodes' \ kept :
           /\ ~canvas_nodes'[n].visible
           /\ canvas_nodes'[n].is_new = canvas_nodes[n].is_new
           /\ canvas_nodes'[n].centered = canvas_nodes[n].centered
           /\ options.stationary => canvas_nodes'[n].place = canvas_nodes[n].place
    BY <1>4, <1>5, <2>6, <2>7, <2>12 DEF RepositionedFrom
  <2>15. \A n \in kept :
           /\ canvas_nodes'[n].visible /\ ~canvas_nodes'[n].is_new
           /\ canvas_nodes'[n].text = ~pref.diagram_only
           /\ canvas_nodes'[n].centered = Centered(n, canvas_nodes[n])
    BY <2>6, <2>7, <2>8 DEF RepositionedFrom
  <2>16. ASSUME NEW n \in kept
         PROVE  canvas_nodes'[n].place =
                  Place(n, canvas_nodes[n], total,
                        Rank(n, {m \in kept : ~Centered(m, canvas_nodes[m])}),
                        Rank(n, kept \cap Fresh))
    BY <2>6, <2>7, <2>9, <2>10, <2>11 DEF RepositionedFrom
  <2>17. Moved(kept)
    BY <2>2, <2>13, <2>14, <2>15, <2>16 DEF Moved, total
  <2> QED
    BY <1>3, <1>6, <2>12, <2>17 DEF D
<1> QED
  BY <1>10, <1>11

\* What an update says of the catalogs and the legend when it ends: the legend has just
\* the names of the level it is for, and counts them.
LEMMA LegendSound ==
  ASSUME IInv, diagram_update_links
  PROVE  /\ links' \subseteq Link /\ DOMAIN canvas_links' = links'
         /\ summary' \in [Levels -> SUBSET Names] /\ \A l \in Levels : IsFiniteSet(summary'[l])
         /\ legend' \subseteq Names /\ IsFiniteSet(legend')
         /\ known_protocols' = Cardinality(legend')
<1>1. links' \subseteq Link /\ DOMAIN canvas_links' = links'
  BY DEF diagram_update_links, IInv, TypeOK
<1>2. PICK old \in SUBSET Names : summary' = [k \in Levels |-> summary[k] \ old]
  BY DEF diagram_update_links
<1>3. summary' \in [Levels -> SUBSET Names]
  BY <1>2 DEF IInv, TypeOK
<1>4. ASSUME NEW l \in Levels PROVE IsFiniteSet(summary'[l])
  <2>1. IsFiniteSet(summary[l]) /\ summary'[l] \subseteq summary[l]
    BY <1>2 DEF IInv, Sane
  <2> QED
    BY <2>1, Part
<1> DEFINE names == summary'[pref.stack_level]
           same == legend \cap names
<1>5. names \subseteq Names /\ IsFiniteSet(names)
  BY <1>3, <1>4 DEF IInv, TypeOK, Flags
<1>6. /\ legend' = same \cup names
      /\ known_protocols' = known_protocols - Cardinality(legend \ same)
                            + Cardinality(names \ same)
  BY DEF diagram_update_links, LegendPurged
<1>7. IsFiniteSet(legend) /\ known_protocols = Cardinality(legend)
  BY DEF IInv, TypeOK, Sane
<1> HIDE DEF names
<1>8. Cardinality(legend \ same) = Cardinality(legend) - Cardinality(same)
      /\ Cardinality(same) \in Nat /\ Cardinality(legend) \in Nat
  BY <1>7, Part
<1>9. Cardinality(names \ same) = Cardinality(names) - Cardinality(same)
      /\ Cardinality(names) \in Nat
  BY <1>5, Part
<1>10. legend' = names
  BY <1>6
<1>11. known_protocols' = Cardinality(names)
  BY <1>6, <1>7, <1>8, <1>9
<1> QED
  BY <1>1, <1>3, <1>4, <1>5, <1>10, <1>11

\* The end of an update keeps the invariant.
LEMMA LinksKeeps ==
  ASSUME IInv, diagram_update_links
  PROVE  IInv'
<1>1. PICK kept \in SUBSET (CNodes \ doomed) :
        /\ options.node_limit < 0 => kept = CNodes \ doomed
        /\ options.node_limit >= 0 =>
             Cardinality(kept) = Min({options.node_limit, Cardinality(CNodes \ doomed)})
        /\ displayed_nodes' = Cardinality(kept)
        /\ Still(kept) \/ Moved(kept)
  BY LinksStep
<1>2. CNodes' = CNodes \ doomed
  BY LinksStep
<1>3. /\ pc = "nodes" /\ todo = {} /\ doomed' = {} /\ pc' = "redraw" /\ nested' = FALSE
      /\ need_reposition' = FALSE
      /\ UNCHANGED <<hosts, new_nodes, todo, options, size, pref>>
  BY DEF diagram_update_links, user
<1>4. need_font_refresh' \in BOOLEAN
  <2>1. \E b \in BOOLEAN : need_font_refresh' = (need_font_refresh /\ b)
    BY DEF diagram_update_links
  <2> QED
    BY <2>1 DEF IInv, TypeOK
<1>5. /\ IsFiniteSet(Node) /\ IsFiniteSet(CNodes) /\ CNodes \subseteq Node
      /\ Cardinality(Node) \in Nat
  BY NodesFinite DEF IInv
<1>6. kept \subseteq CNodes' /\ kept \subseteq Node /\ CNodes' \subseteq Node
  BY <1>1, <1>2, <1>5
<1>7. IsFiniteSet(kept) /\ Cardinality(kept) \in Nat /\ Cardinality(kept) <= Cardinality(Node)
  BY <1>5, <1>6, Part
<1>8. options.node_limit \in Int /\ options.stationary \in BOOLEAN
  BY CanvasAssumption DEF IInv, Sane
<1>9. spots \in Nat /\ MaxSpots \in Nat /\ spots <= MaxSpots
  BY CanvasAssumption DEF IInv, TypeOK
\* What is on the screen is what was kept.
<1>10. Visible' = kept /\ Shown' = kept
  <2>1. CASE Still(kept)
    <3>1. CNodes' = CNodes /\ Shown' = Shown /\ Visible' = Visible /\ Visible = Shown
      BY <1>2, <2>1 DEF Still, Shown, Visible, CNodes, IInv, Spread
    <3> QED
      BY <2>1, <3>1 DEF Still
  <2>2. CASE Moved(kept)
    <3>1. Visible' = kept
      BY <1>6, <2>2 DEF Moved, Visible, CNodes
    <3>2. Shown' = kept
      BY <1>6, <2>2 DEF Moved, Shown
    <3> QED
      BY <3>1, <3>2
  <2> QED
    BY <1>1, <2>1, <2>2
\* A node that is not kept is as new as it was, one that is kept is no longer new.
<1>11. Fresh' = Fresh \cap (CNodes' \ kept)
  <2>1. CASE Still(kept)
    <3>1. CNodes' = CNodes /\ Fresh' = Fresh /\ Fresh \subseteq CNodes /\ kept \cap Fresh = {}
      BY <1>2, <2>1 DEF Still, Fresh, CNodes, IInv, Spread
    <3> QED
      BY <3>1
  <2>2. CASE Moved(kept)
    BY <1>2, <1>6, <2>2 DEF Moved, Fresh
  <2> QED
    BY <1>1, <2>1, <2>2
<1>12. Cardinality(kept \cap Fresh) \in Nat /\ IsFiniteSet(kept \cap Fresh)
  BY <1>7, Part
<1>13. spots' = IF options.stationary THEN spots + Cardinality(kept \cap Fresh) ELSE spots
  <2>1. CASE Still(kept)
    <3>1. kept \cap Fresh = {}
      BY <2>1 DEF Still, IInv, Spread
    <3> QED
      BY <1>9, <2>1, <3>1, FS_EmptySet DEF Still
  <2>2. CASE Moved(kept)
    BY <2>2 DEF Moved
  <2> QED
    BY <1>1, <2>1, <2>2
<1>14. SpotsLeft' /\ spots' \in 0 .. MaxSpots
  <2>1. CASE options.stationary
    <3> DEFINE K == kept \cap Fresh
    <3>1. Pending' \subseteq Pending \ K
      <4>1. new_nodes' \ CNodes' \subseteq new_nodes \ (CNodes \ doomed)
        BY <1>2, <1>3
      <4> QED
        BY <1>2, <1>3, <1>6, <1>11, <4>1 DEF Pending
    <3>2. K \subseteq Pending
      BY DEF Pending
    <3>3. Pending \subseteq Node
      <4>1. Fresh \subseteq CNodes
        BY DEF Fresh
      <4> QED
        BY <1>5, <4>1 DEF Pending, IInv, TypeOK
    <3>4. IsFiniteSet(Pending) /\ Cardinality(Pending) \in Nat
      BY <1>5, <3>3, Part
    <3> HIDE DEF K
    <3>5. Cardinality(Pending \ K) = Cardinality(Pending) - Cardinality(K)
          /\ Cardinality(K) \in Nat /\ IsFiniteSet(Pending \ K)
      <4>1. Pending \ K \subseteq Pending
        OBVIOUS
      <4> QED
        BY <3>2, <3>4, <4>1, Part
    <3>6. Cardinality(Pending') <= Cardinality(Pending \ K) /\ Cardinality(Pending') \in Nat
          /\ Cardinality(Pending \ K) \in Nat
      BY <3>1, <3>5, Part
    <3>7. spots + Cardinality(Pending) <= MaxSpots
      BY <2>1 DEF IInv, SpotsLeft
    <3>8. spots' = spots + Cardinality(K)
      BY <1>13, <2>1 DEF K
    <3> QED
      BY <1>3, <1>9, <2>1, <3>4, <3>5, <3>6, <3>7, <3>8 DEF SpotsLeft
  <2>2. CASE ~options.stationary
    BY <1>3, <1>9, <1>13, <2>2 DEF IInv, SpotsLeft
  <2> QED
    BY <2>1, <2>2
<1>15. TypeOK'
  <2>1. displayed_nodes' \in 0 .. Cardinality(Node)
    BY <1>1, <1>5, <1>7
  <2>2. DOMAIN canvas_nodes' \subseteq Node
    BY <1>6 DEF CNodes
  <2>3. /\ hosts \in [Node -> {"absent", "quiet", "heard"}] /\ new_nodes \subseteq Node
        /\ pref \in Flags /\ size \in Sizes
    BY DEF IInv, TypeOK
  <2>4. spots' \in 0 .. MaxSpots
    BY <1>14
  <2> QED
    BY <1>3, <1>4, <2>1, <2>2, <2>3, <2>4, LegendSound DEF TypeOK
<1>16. Sane'
  <2>1. \A n \in CNodes' : WellFormed(canvas_nodes'[n])
    <3>1. CASE Still(kept)
      BY <1>2, <3>1 DEF Still, IInv, Sane
    <3>2. CASE Moved(kept)
      BY <3>2 DEF Moved
    <3> QED
      BY <1>1, <3>1, <3>2
  <2> QED
    BY <1>3, <2>1, LegendSound DEF IInv, Sane
<1>17. AllShown'
  BY <1>1, <1>2, <1>3, <1>10 DEF AllShown
<1>18. LinksSound'
  <2>1. canvas_links' = [l \in links' |-> Drawn(l, canvas_nodes')]
    BY DEF diagram_update_links
  <2>2. ASSUME NEW l \in links', canvas_links'[l].visible
        PROVE  LinkSound(l)'
    <3>1. BothEnds(l, canvas_nodes')
      BY <2>1, <2>2 DEF Drawn
    <3>2. l[1] \in Shown' /\ l[2] \in Shown'
      BY <3>1 DEF BothEnds, Shown, CNodes
    <3>3. canvas_links'[l].ends = [n \in {l[1], l[2]} \cap CNodes' |-> canvas_nodes'[n].place]
      BY <2>1, <3>1 DEF Drawn, CNodes
    <3> QED
      BY <1>10, <3>2, <3>3 DEF LinkSound, Shown
  <2> QED
    BY <2>1, <2>2 DEF LinksSound, LinkSound
\* In stationary mode the nodes that get a place get the next free ones.
<1>19. PlacedOnce'
  <2>0. CASE ~options.stationary
    BY <1>3, <2>0 DEF PlacedOnce
  <2>1. CASE options.stationary /\ Still(kept)
    <3>1. CNodes' = CNodes /\ Fresh' = Fresh /\ spots' = spots
      BY <1>2, <2>1 DEF Still, Fresh, CNodes
    <3>2. \A n \in CNodes : canvas_nodes'[n] = canvas_nodes[n]
      BY <2>1 DEF Still
    <3> QED
      BY <1>3, <2>1, <3>1, <3>2 DEF IInv, PlacedOnce
  <2>2. CASE options.stationary /\ Moved(kept)
    <3> DEFINE K == kept \cap Fresh
    <3>1. spots' = spots + Cardinality(K) /\ Cardinality(K) \in Nat
      BY <1>12, <1>13, <2>2
    <3>2. CNodes' \ Fresh' = (CNodes' \ Fresh) \cup K
      BY <1>6, <1>11
    <3>3. \A n \in CNodes' : ~canvas_nodes'[n].centered
      <4>1. \A n \in CNodes' : ~canvas_nodes[n].centered
        BY <1>2, <2>2 DEF IInv, PlacedOnce
      <4>2. \A n \in CNodes' \ kept : ~canvas_nodes'[n].centered
        BY <2>2, <4>1 DEF Moved
      <4>3. \A n \in kept : ~Centered(n, canvas_nodes[n])
        BY <1>6, <2>2, <4>1 DEF Centered
      <4>4. \A n \in kept : ~canvas_nodes'[n].centered
        BY <2>2, <4>3 DEF Moved
      <4> QED
        BY <4>2, <4>4
    <3>4. \A n \in CNodes' \ Fresh : canvas_nodes'[n].place = canvas_nodes[n].place
      <4>1. ASSUME NEW n \in CNodes' \ Fresh, n \in kept
            PROVE  canvas_nodes'[n].place = canvas_nodes[n].place
        <5>1. ~canvas_nodes[n].is_new
          BY <1>2 DEF Fresh
        <5> QED
          BY <2>2, <4>1, <5>1 DEF Moved, Place
      <4> QED
        BY <2>2, <4>1 DEF Moved
    <3>5. \A n \in K : canvas_nodes'[n].place = <<"spot", size, spots + Rank(n, K)>>
      BY <2>2 DEF Moved, Place, Fresh
    <3>6. /\ \A m, n \in K : Rank(m, K) = Rank(n, K) => m = n
          /\ \A n \in K : Rank(n, K) \in 0 .. Cardinality(K) - 1
      <4>1. K \subseteq Nat
        BY <1>6, CanvasAssumption
      <4>2. IsFiniteSet(K)
        BY <1>12
      <4> HIDE DEF K
      <4>3. /\ \A m, n \in K : Rank(m, K) = Rank(n, K) => m = n
            /\ {Rank(n, K) : n \in K} = 0 .. Cardinality(K) - 1
        BY ONLY <4>1, <4>2, Ranks
      <4>4. \A n \in K : Rank(n, K) \in {Rank(m, K) : m \in K}
        OBVIOUS
      <4> QED
        BY <4>3, <4>4
    <3> HIDE DEF K
    <3>7. \A n \in CNodes' \ Fresh :
            \E s \in Sizes, k \in 0 .. spots - 1 : canvas_nodes'[n].place = <<"spot", s, k>>
      BY <1>2, <2>2, <3>4 DEF IInv, PlacedOnce
    <3>8. \A n \in CNodes' \ Fresh' :
            \E s \in Sizes, k \in 0 .. spots' - 1 : canvas_nodes'[n].place = <<"spot", s, k>>
      <4>1. ASSUME NEW n \in CNodes' \ Fresh
            PROVE  \E s \in Sizes, k \in 0 .. spots' - 1 :
                     canvas_nodes'[n].place = <<"spot", s, k>>
        <5>1. 0 .. spots - 1 \subseteq 0 .. spots' - 1
          BY <1>9, <3>1
        <5> QED
          BY <3>7, <5>1
      <4>2. ASSUME NEW n \in K
            PROVE  \E s \in Sizes, k \in 0 .. spots' - 1 :
                     canvas_nodes'[n].place = <<"spot", s, k>>
        <5>1. size \in Sizes
          BY DEF IInv, TypeOK
        <5>2. spots + Rank(n, K) \in 0 .. spots' - 1
          BY <1>9, <3>1, <3>6
        <5> QED
          BY <3>5, <5>1, <5>2
      <4> QED
        BY <3>2, <4>1, <4>2
    <3>9. ASSUME NEW m \in CNodes' \ Fresh', NEW n \in CNodes' \ Fresh',
                 canvas_nodes'[m].place = canvas_nodes'[n].place
          PROVE  m = n
      <4>1. CASE m \in CNodes' \ Fresh /\ n \in CNodes' \ Fresh
        BY <1>2, <2>2, <3>4, <3>9, <4>1 DEF IInv, PlacedOnce
      <4>2. CASE m \in K /\ n \in K
        <5>1. spots + Rank(m, K) = spots + Rank(n, K)
          BY <3>5, <3>9, <4>2
        <5>2. Rank(m, K) = Rank(n, K)
          BY <1>9, <3>6, <4>2, <5>1
        <5> QED
          BY <3>6, <4>2, <5>2
      <4>3. ASSUME NEW a \in CNodes' \ Fresh, NEW b \in K
            PROVE  canvas_nodes'[a].place # canvas_nodes'[b].place
        <5>1. PICK s \in Sizes, k \in 0 .. spots - 1 : canvas_nodes'[a].place = <<"spot", s, k>>
          BY <3>7
        <5>2. k # spots + Rank(b, K)
          BY <1>9, <3>6
        <5> QED
          BY <3>5, <5>1, <5>2
      <4> QED
        BY <3>2, <3>9, <4>1, <4>2, <4>3
    <3> QED
      BY <1>3, <3>3, <3>8, <3>9 DEF PlacedOnce
  <2> QED
    BY <1>1, <2>0, <2>1, <2>2
<1>20. Spread'
  <2>1. doomed' = {} /\ Visible' = Shown' /\ Visible' \cap Fresh' = {}
    BY <1>3, <1>10, <1>11
  <2>2. Cardinality(Visible') = displayed_nodes'
    BY <1>1, <1>10
  <2>3. options'.node_limit >= 0 =>
          displayed_nodes' = Min({options'.node_limit, Cardinality(CNodes')})
    BY <1>1, <1>2, <1>3
  <2>4. CASE Still(kept)
    <3>1. CNodes' = CNodes /\ ~need_reposition /\ Visible' = Visible
      BY <1>2, <1>10, <2>4 DEF Still, IInv, Spread
    <3>2. \A n \in CNodes : canvas_nodes'[n] = canvas_nodes[n]
      BY <2>4 DEF Still
    <3>3. Visible \subseteq CNodes
      BY DEF Visible, CNodes
    <3>4. Round' = Round /\ Round \subseteq CNodes
      BY <3>1, <3>2, <3>3 DEF Round
    <3>5. displayed_nodes' = displayed_nodes
      BY <2>2, <3>1 DEF IInv, Spread
    <3>6. \A n \in Visible' : canvas_nodes'[n].text = ~pref'.diagram_only
      BY <1>3, <3>1, <3>2, <3>3 DEF IInv, Spread
    <3>7. ~options.stationary =>
            \A n \in Round' : canvas_nodes'[n].place =
                                <<"circle", size', displayed_nodes', Rank(n, Round')>>
      BY <1>3, <3>1, <3>2, <3>4, <3>5 DEF IInv, Spread
    <3> QED
      BY <1>3, <2>1, <2>2, <2>3, <3>6, <3>7 DEF Spread
  <2>5. CASE Moved(kept)
    <3>1. \A n \in Visible' : canvas_nodes'[n].text = ~pref'.diagram_only
      BY <1>3, <1>10, <2>5 DEF Moved
    <3>2. Round' = {m \in kept : ~Centered(m, canvas_nodes[m])}
      BY <1>10, <2>5 DEF Moved, Round
    <3>3. ASSUME ~options.stationary, NEW n \in Round'
          PROVE  canvas_nodes'[n].place =
                   <<"circle", size', displayed_nodes', Rank(n, Round')>>
      <4>1. n \in kept /\ ~Centered(n, canvas_nodes[n])
        BY <3>2
      <4>2. canvas_nodes'[n].place = Place(n, canvas_nodes[n], Cardinality(kept),
                                           Rank(n, Round'), Rank(n, kept \cap Fresh))
        BY <2>5, <3>2, <4>1 DEF Moved
      <4> QED
        BY <1>1, <1>3, <3>3, <4>1, <4>2 DEF Place
    <3> QED
      BY <1>3, <2>1, <2>2, <2>3, <3>1, <3>3 DEF Spread
  <2> QED
    BY <1>1, <2>4, <2>5
<1> QED
  BY <1>14, <1>15, <1>16, <1>17, <1>18, <1>19, <1>20 DEF IInv

-----------------------------------------------------------------------------
(* The theorems.                                                           *)

\* The diagram starts empty and with new places asked for.
LEMMA InitIInv == Init => IInv
<1> SUFFICES ASSUME Init PROVE IInv
  OBVIOUS
<1>1. CNodes = {} /\ DOMAIN canvas_links = {}
  BY DEF Init, CNodes
<1>2. Shown = {} /\ Fresh = {} /\ Visible = {}
  BY <1>1 DEF Shown, Fresh, Visible, CNodes
<1>3. IsFiniteSet({}) /\ Cardinality({}) = 0
  BY FS_EmptySet
<1>4. IsFiniteSet(Node) /\ Cardinality(Node) \in Nat /\ MaxSpots \in Nat
  BY CanvasAssumption, FS_CardinalityType
<1>5. TypeOK
  <2>1. pref \in Flags /\ size \in Sizes
    BY DEF Init, Flags
  <2>2. summary \in [Levels -> SUBSET Names]
    BY DEF Init
  <2>3. /\ hosts = [n \in Node |-> "absent"] /\ new_nodes = {} /\ links = {}
        /\ legend = {} /\ known_protocols = 0 /\ displayed_nodes = 0 /\ spots = 0
        /\ need_reposition = TRUE /\ need_font_refresh = TRUE
        /\ pc = "idle" /\ todo = {} /\ doomed = {} /\ nested = FALSE
    BY DEF Init
  <2>4. DOMAIN canvas_nodes = {}
    BY <1>1 DEF CNodes
  <2>5. /\ hosts \in [Node -> {"absent", "quiet", "heard"}]
        /\ DOMAIN canvas_nodes \subseteq Node /\ DOMAIN canvas_links \subseteq Link
        /\ todo \subseteq DOMAIN canvas_nodes /\ doomed \subseteq DOMAIN canvas_nodes
    BY <1>1, <2>3, <2>4
  <2>6. displayed_nodes \in 0 .. Cardinality(Node) /\ spots \in 0 .. MaxSpots
    BY <1>4, <2>3
  <2> QED
    BY <1>3, <2>1, <2>2, <2>3, <2>5, <2>6 DEF TypeOK
<1>6. Sane
  BY <1>1, <1>3 DEF Init, Sane
<1>7. SpotsLeft
  <2>1. Pending = {}
    BY <1>1, <1>2 DEF Init, Pending
  <2> QED
    BY <1>3, <1>4, <2>1 DEF Init, SpotsLeft
<1>8. AllShown /\ PlacedOnce /\ LinksSound /\ Spread
  BY <1>1, <1>2 DEF Init, AllShown, PlacedOnce, LinksSound, Spread
<1> QED
  BY <1>5, <1>6, <1>7, <1>8 DEF IInv

\* Every step keeps the invariant.
LEMMA NextIInv ==
  ASSUME IInv, [Next]_vars
  PROVE  IInv'
<1>1. CASE Event
  BY <1>1, EventDiagram, EventSane DEF IInv
<1>2. CASE stop_capture
  BY <1>2, StopKeeps
<1>3. CASE diagram_update_nodes
  BY <1>3, NodesKeeps
<1>4. CASE canvas_node_update
  BY <1>4, UpdateKeeps
<1>5. CASE diagram_update_links
  BY <1>5, LinksKeeps
<1> QED
  BY <1>1, <1>2, <1>3, <1>4, <1>5 DEF Next, update_diagram, Event

\* The invariant of the diagram, whatever packets, preferences and updates come.
THEOREM Invariance == Spec => []IInv
<1>1. Init => IInv
  BY InitIInv
<1>2. IInv /\ [Next]_vars => IInv'
  BY NextIInv
<1> QED
  BY <1>1, <1>2, PTL DEF Spec

\* The catalogs, the canvas nodes, the counters of displayed nodes and of legend
\* entries, and the lists of an update keep their types.
THEOREM TypeCorrect == Spec => []TypeOK
<1>1. IInv => TypeOK
  BY DEF IInv
<1> QED
  BY <1>1, Invariance, PTL

\* canvas_link_update: between updates, for any set of hosts and links, a link is drawn
\* only between nodes on the screen, and ends where reposition_canvas_nodes put them.
THEOREM LinksEndAtNodes == Spec => []LinksFollowNodes
<1>1. IInv => LinksFollowNodes
  BY DEF IInv, LinksSound, LinkSound, LinksFollowNodes
<1> QED
  BY <1>1, Invariance, PTL

\* reposition_canvas_nodes and limit_nodes: between updates, for any number of hosts, any
\* limit and both modes, the nodes on the screen are those that should be there, and no
\* two of them have the same place.
THEOREM PlacesAreSpread == Spec => []EvenlySpread
<1>1. IInv => EvenlySpread
  <2> SUFFICES ASSUME IInv, Settled, ~need_reposition
               PROVE  EvenlySpread
    BY DEF EvenlySpread
  <2> DEFINE place == [m \in Round |-> canvas_nodes[m].place]
             places == {canvas_nodes[m].place : m \in Round}
  <2>1. /\ Visible = Shown /\ Visible \cap Fresh = {} /\ Cardinality(Visible) = displayed_nodes
        /\ options.node_limit >= 0 =>
             displayed_nodes = Min({options.node_limit, Cardinality(CNodes)})
        /\ \A n \in Visible : canvas_nodes[n].text = ~pref.diagram_only
    BY DEF IInv, Spread
  <2>2. options.node_limit \in Int
    BY CanvasAssumption DEF IInv, Sane
  <2>3. Round \subseteq CNodes /\ Round \subseteq Nat /\ IsFiniteSet(Round)
    <3>1. Round \subseteq CNodes
      BY DEF Round, Visible, CNodes
    <3>2. CNodes \subseteq Nat /\ IsFiniteSet(CNodes)
      BY NodesFinite, CanvasAssumption DEF IInv
    <3> QED
      BY <3>1, <3>2, Part
  <2>4. Cardinality(Visible) = IF options.node_limit < 0 THEN Cardinality(CNodes)
                               ELSE Min({options.node_limit, Cardinality(CNodes)})
    BY <2>1, <2>2 DEF IInv, AllShown
  <2>5. /\ \A m, n \in Round : Rank(m, Round) = Rank(n, Round) => m = n
        /\ {Rank(n, Round) : n \in Round} = 0 .. Cardinality(Round) - 1
    BY <2>3, Ranks
  <2>6. ~options.stationary =>
          \A n \in Round : canvas_nodes[n].place =
                             <<"circle", size, displayed_nodes, Rank(n, Round)>>
    BY DEF IInv, Spread
  <2>7. \A m, n \in Round : canvas_nodes[m].place = canvas_nodes[n].place => m = n
    <3>1. CASE options.stationary
      <4>1. Round \subseteq CNodes \ Fresh
        BY <2>1, <2>3 DEF Round
      <4> QED
        BY <3>1, <4>1 DEF IInv, PlacedOnce
    <3>2. CASE ~options.stationary
      BY <2>5, <2>6, <3>2
    <3> QED
      BY <3>1, <3>2
  <2>8. Cardinality(places) = Cardinality(Round)
    <3>1. DOMAIN place = Round /\ \A m \in Round : place[m] = canvas_nodes[m].place
      OBVIOUS
    <3>2. place = [x \in Round |-> place[x]] /\ \A x, y \in Round : place[x] = place[y] => x = y
      BY <2>7
    <3>3. {place[x] : x \in Round} = places
      OBVIOUS
    <3> HIDE DEF place, places
    <3>4. Cardinality({place[x] : x \in Round}) = Cardinality(Round)
      BY <2>3, <3>1, <3>2, SameSize
    <3> QED
      BY <3>3, <3>4
  <2>9. ~options.stationary =>
          places = {<<"circle", size, displayed_nodes, k>> : k \in 0 .. Cardinality(Round) - 1}
    BY <2>5, <2>6
  <2> QED
    BY <2>1, <2>4, <2>8, <2>9 DEF EvenlySpread, Round, Shown, CNodes
<1> QED
  BY <1>1, Invariance, PTL
=============================================================================
