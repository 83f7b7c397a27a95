----------------------------- MODULE QueueProofs -----------------------------
(***************************************************************************)
(* What the packet queues of nodes, links and summary have in common, for  *)
(* any number of nodes and packets: reference counts, and, when timestamps *)
(* never run backwards, the age and the order of what they hold.           *)
(***************************************************************************)
EXTENDS TrafficProofs, FiniteSetTheorems

-----------------------------------------------------------------------------
(* The items of one packet.                                                *)

\* An item of packet p, as its record and its position there.
IsHeld(x, catalog, p) ==
  /\ x = <<x[1], x[2]>> /\ x[1] \in DOMAIN catalog
  /\ x[2] \in 1..Len(catalog[x[1]].pkt_list)
  /\ catalog[x[1]].pkt_list[x[2]].pkt.id = p

\* Held is the set of those items.
LEMMA HeldIs ==
  ASSUME NEW catalog, NEW p, Queues(catalog)
  PROVE  \A x : x \in Held(catalog, p) <=> IsHeld(x, catalog, p)
<1>1. \A k \in DOMAIN catalog : DOMAIN catalog[k].pkt_list = 1..Len(catalog[k].pkt_list)
  BY DEF Queues
<1>2. ASSUME NEW x, x \in Held(catalog, p)
      PROVE  IsHeld(x, catalog, p)
  <2>1. PICK k \in DOMAIN catalog : x \in {k} \X DOMAIN catalog[k].pkt_list
    BY <1>2 DEF Held
  <2>2. x = <<x[1], x[2]>> /\ x[1] = k /\ x[2] \in DOMAIN catalog[k].pkt_list
    BY <2>1
  <2>3. catalog[x[1]].pkt_list[x[2]].pkt.id = p
    BY <1>2 DEF Held
  <2> QED
    BY <1>1, <2>2, <2>3 DEF IsHeld
<1>3. ASSUME NEW x, IsHeld(x, catalog, p)
      PROVE  x \in Held(catalog, p)
  <2>1. x \in {x[1]} \X DOMAIN catalog[x[1]].pkt_list /\ x[1] \in DOMAIN catalog
    BY <1>1, <1>3 DEF IsHeld
  <2>2. x \in UNION {{m} \X DOMAIN catalog[m].pkt_list : m \in DOMAIN catalog}
    BY <2>1
  <2> QED
    BY <1>3, <2>2 DEF Held, IsHeld
<1> QED
  BY <1>2, <1>3

\* c is catalog with item it pushed on the queue of key.
Pushed(key, it, c, catalog) ==
  /\ DOMAIN c = DOMAIN catalog \cup {key}
  /\ c[key].pkt_list = << it >> \o (IF key \in DOMAIN catalog
                                    THEN catalog[key].pkt_list ELSE << >>)
  /\ \A k \in DOMAIN catalog : k # key => c[k] = catalog[k]

\* traffic_stats_add_packet on the record of a node or a link pushes one item.
LEMMA AddToPushes ==
  ASSUME NEW catalog, NEW key, NEW pkt, NEW dir, NEW t
  PROVE  Pushed(key, [pkt |-> pkt, direction |-> dir],
                AddTo(catalog, key, pkt, dir, t), catalog)
<1> DEFINE c == AddTo(catalog, key, pkt, dir, t)
           tr == IF key \in DOMAIN catalog THEN catalog[key] ELSE TrafficInit(t)
<1>1. /\ DOMAIN c = DOMAIN catalog \cup {key}
      /\ c[key] = TrafficAddPacket(tr, pkt, dir, t)
      /\ \A k \in DOMAIN catalog : k # key => c[k] = catalog[k]
  BY DEF AddTo
<1>2. TrafficAddPacket(tr, pkt, dir, t).pkt_list
        = << [pkt |-> pkt, direction |-> dir] >> \o tr.pkt_list
  BY DEF TrafficAddPacket, Enqueue
<1>3. tr.pkt_list = IF key \in DOMAIN catalog THEN catalog[key].pkt_list ELSE << >>
  BY DEF TrafficInit
<1> QED
  BY <1>1, <1>2, <1>3 DEF Pushed

\* A push seen by position: the new item comes first, the others move up by one.
MovedUp(key, it, c, catalog) ==
  /\ Len(c[key].pkt_list) \in Nat \ {0} /\ c[key].pkt_list[1] = it
  /\ IF key \in DOMAIN catalog
     THEN /\ Len(c[key].pkt_list) = Len(catalog[key].pkt_list) + 1
          /\ \A i \in 1..Len(catalog[key].pkt_list) :
               c[key].pkt_list[i + 1] = catalog[key].pkt_list[i]
     ELSE Len(c[key].pkt_list) = 1

\* g_queue_push_head has that effect.
LEMMA PushPositions ==
  ASSUME NEW catalog, Queues(catalog), NEW key, NEW it \in Item, NEW c,
         Pushed(key, it, c, catalog)
  PROVE  Queues(c) /\ MovedUp(key, it, c, catalog)
<1> DEFINE old == IF key \in DOMAIN catalog THEN catalog[key].pkt_list ELSE << >>
           new == << it >> \o old
<1>1. old \in Seq(Item)
  BY DEF Queues
<1>2. c[key].pkt_list = new
  BY DEF Pushed
<1>3. key \in DOMAIN catalog => old = catalog[key].pkt_list
  OBVIOUS
<1>4. key \notin DOMAIN catalog => Len(old) = 0
  OBVIOUS
<1>5. /\ new \in Seq(Item) /\ Len(new) = Len(old) + 1 /\ Len(old) \in Nat /\ new[1] = it
      /\ \A i \in 1..Len(old) : new[i + 1] = old[i]
  <2> HIDE DEF old
  <2> QED
    BY <1>1
<1> HIDE DEF old, new
<1>6. Queues(c)
  BY <1>2, <1>5 DEF Queues, Pushed
<1> QED
  BY <1>2, <1>3, <1>4, <1>5, <1>6 DEF MovedUp

\* packet_list_item_create: one more item of that packet, as many of every other.
LEMMA PushCounts ==
  ASSUME NEW catalog, Queues(catalog), NEW key, NEW it \in Item, NEW c,
         Pushed(key, it, c, catalog), NEW p, IsFiniteSet(Held(catalog, p))
  PROVE  /\ IsFiniteSet(Held(c, p))
         /\ OccursIn(c, p) = OccursIn(catalog, p) + IF it.pkt.id = p THEN 1 ELSE 0
<1> DEFINE H == Held(catalog, p)
           f == [x \in H |-> IF x[1] = key THEN <<x[1], x[2] + 1>> ELSE x]
           first == <<key, 1>>
           T == Held(c, p) \ {first}
<1>0. Queues(c) /\ MovedUp(key, it, c, catalog)
  BY PushPositions
<1>1. \A x : x \in H <=> IsHeld(x, catalog, p)
  BY HeldIs
<1>2. \A x : x \in Held(c, p) <=> IsHeld(x, c, p)
  BY <1>0, HeldIs
<1>3. DOMAIN c = DOMAIN catalog \cup {key}
      /\ \A k \in DOMAIN catalog : k # key => c[k] = catalog[k]
  BY DEF Pushed
<1>20. \A k \in DOMAIN catalog : Len(catalog[k].pkt_list) \in Nat
  BY DEF Queues
<1> HIDE DEF H
<1>4. ASSUME NEW x \in H PROVE f[x] \in T
  <2> DEFINE k == x[1]
             i == x[2]
  <2>1. /\ x = <<k, i>> /\ k \in DOMAIN catalog /\ i \in 1..Len(catalog[k].pkt_list)
        /\ catalog[k].pkt_list[i].pkt.id = p
    BY <1>1 DEF IsHeld
  <2>2. f[x] = IF k = key THEN <<k, i + 1>> ELSE x
    OBVIOUS
  <2> HIDE DEF k, i, f
  <2>3. i \in Nat /\ i >= 1 /\ i <= Len(catalog[k].pkt_list)
    BY <1>20, <2>1
  <2>4. CASE k = key
    <3>1. i + 1 \in 1..Len(c[k].pkt_list) /\ c[k].pkt_list[i + 1].pkt.id = p
      BY <1>0, <1>20, <2>1, <2>3, <2>4 DEF MovedUp
    <3>2. IsHeld(<<k, i + 1>>, c, p)
      BY <1>3, <2>1, <3>1 DEF IsHeld
    <3>3. <<k, i + 1>> # first
      BY <2>3
    <3> QED
      BY <1>2, <2>2, <2>4, <3>2, <3>3
  <2>5. CASE k # key
    <3>1. IsHeld(<<k, i>>, c, p)
      BY <1>3, <2>1, <2>5 DEF IsHeld
    <3> QED
      BY <1>2, <2>1, <2>2, <2>5, <3>1
  <2> QED
    BY <2>4, <2>5
<1>5. ASSUME NEW x \in H, NEW y \in H, f[x] = f[y] PROVE x = y
  <2>1. x = <<x[1], x[2]>> /\ y = <<y[1], y[2]>> /\ x[2] \in Int /\ y[2] \in Int
    BY <1>1, <1>20 DEF IsHeld
  <2>2. f[x] = (IF x[1] = key THEN <<x[1], x[2] + 1>> ELSE <<x[1], x[2]>>)
    BY <2>1
  <2>3. f[y] = (IF y[1] = key THEN <<y[1], y[2] + 1>> ELSE <<y[1], y[2]>>)
    BY <2>1
  <2> DEFINE a == x[1]
             i == x[2]
             b == y[1]
             j == y[2]
  <2>4. (IF a = key THEN <<a, i + 1>> ELSE <<a, i>>) = (IF b = key THEN <<b, j + 1>> ELSE <<b, j>>)
    BY <1>5, <2>2, <2>3
  <2>5. i \in Int /\ j \in Int /\ x = <<a, i>> /\ y = <<b, j>>
    BY <2>1
  <2> HIDE DEF a, i, b, j, f
  <2>6. a = b /\ i = j
    BY <2>4, <2>5
  <2> QED
    BY <2>5, <2>6
<1>6. ASSUME NEW y \in T PROVE \E x \in H : f[x] = y
  <2> DEFINE k == y[1]
             i == y[2]
  <2>1. /\ y = <<k, i>> /\ k \in DOMAIN c /\ i \in 1..Len(c[k].pkt_list)
        /\ c[k].pkt_list[i].pkt.id = p
    BY <1>2 DEF IsHeld
  <2>2. y # first
    OBVIOUS
  <2> HIDE DEF k, i
  <2>3. CASE k # key
    <3>1. IsHeld(<<k, i>>, catalog, p)
      BY <1>3, <2>1, <2>3 DEF IsHeld
    <3>2. <<k, i>> \in H
      BY <1>1, <3>1
    <3>3. f[<<k, i>>] = y
      BY <2>1, <2>3, <3>2
    <3> QED
      BY <3>2, <3>3
  <2>4. CASE k = key
    <3>1. i # 1
      BY <2>1, <2>2, <2>4
    <3>2. i \in Nat /\ i >= 1 /\ i <= Len(c[k].pkt_list)
      BY <1>0, <2>1, <2>4 DEF MovedUp
    <3>3. key \in DOMAIN catalog
      <4>1. key \notin DOMAIN catalog => Len(c[key].pkt_list) = 1
        BY <1>0 DEF MovedUp
      <4>2. Len(c[k].pkt_list) \in Nat
        BY <1>0, <2>4 DEF MovedUp
      <4>3. ASSUME Len(c[k].pkt_list) = 1 PROVE FALSE
        <5>1. i <= 1
          BY <3>2, <4>3
        <5> QED
          BY <3>1, <3>2, <5>1
      <4> QED
        BY <2>4, <4>1, <4>3
    <3>4. i - 1 \in 1..Len(catalog[k].pkt_list)
      BY <1>0, <1>20, <2>4, <3>1, <3>2, <3>3 DEF MovedUp
    <3>5. (i - 1) + 1 = i
      BY <3>2
    <3>6. catalog[k].pkt_list[i - 1] = c[k].pkt_list[i]
      <4>1. c[k].pkt_list[(i - 1) + 1] = catalog[k].pkt_list[i - 1]
        BY <1>0, <2>4, <3>3, <3>4 DEF MovedUp
      <4> QED
        BY <3>5, <4>1
    <3>7. IsHeld(<<k, i - 1>>, catalog, p)
      BY <2>1, <2>4, <3>3, <3>4, <3>6 DEF IsHeld
    <3>8. <<k, i - 1>> \in H
      BY <1>1, <3>7
    <3>9. f[<<k, i - 1>>] = <<k, i>>
      BY <2>4, <3>5, <3>8
    <3> QED
      BY <2>1, <3>8, <3>9
  <2> QED
    BY <2>3, <2>4
<1>7. f \in Surjection(H, T) /\ f \in Injection(H, T)
  <2>1. f \in [H -> T]
    BY <1>4
  <2> QED
    BY <1>5, <1>6, <2>1 DEF Surjection, Injection, IsInjective
<1>8. IsFiniteSet(H) /\ Cardinality(H) \in Nat
  BY FS_CardinalityType DEF H
<1>9. IsFiniteSet(T) /\ Cardinality(T) = Cardinality(H)
  <2> HIDE DEF f, T
  <2> QED
    BY <1>7, <1>8, FS_Surjection
<1>10. first \in Held(c, p) <=> it.pkt.id = p
  <2>1. key \in DOMAIN c /\ 1 \in 1..Len(c[key].pkt_list)
    BY <1>0, <1>3 DEF MovedUp
  <2> QED
    BY <1>0, <1>2, <2>1 DEF IsHeld, MovedUp
<1>11. CASE it.pkt.id = p
  <2>1. Held(c, p) = T \cup {first} /\ first \notin T
    BY <1>10, <1>11
  <2> HIDE DEF T, first
  <2>2. IsFiniteSet(Held(c, p)) /\ Cardinality(Held(c, p)) = Cardinality(T) + 1
    BY <1>9, <2>1, FS_AddElement
  <2> QED
    BY <1>9, <1>11, <2>2 DEF OccursIn, H
<1>12. CASE it.pkt.id # p
  <2>1. Held(c, p) = T
    BY <1>10, <1>12
  <2> HIDE DEF T
  <2> QED
    BY <1>8, <1>9, <1>12, <2>1 DEF OccursIn, H
<1> QED
  BY <1>11, <1>12

\* c is what an update at time t leaves of catalog: expired records had lost all items.
PurgedTo(c, catalog, t) ==
  /\ DOMAIN c \subseteq DOMAIN catalog
  /\ \A k \in DOMAIN c : c[k].pkt_list = Kept(catalog[k].pkt_list, AveragingTime, t)
  /\ \A k \in DOMAIN catalog \ DOMAIN c :
       Kept(catalog[k].pkt_list, AveragingTime, t) = << >>

\* The purge by position: the first KeptLength items stay where they are.
LEMMA KeptPositions ==
  ASSUME NEW S, NEW list \in Seq(S), NEW e, NEW t
  PROVE  /\ Len(Kept(list, e, t)) = KeptLength(list, e, t)
         /\ KeptLength(list, e, t) \in 0..Len(list)
         /\ \A i \in 1..KeptLength(list, e, t) : Kept(list, e, t)[i] = list[i]
<1>1. KeptLength(list, e, t) \in 0..Len(list)
  BY KeptLengthBounds
<1> QED
  BY <1>1 DEF Kept

\* packet_list_item_delete: the purge takes away just the items it counts.
LEMMA PurgeCounts ==
  ASSUME NEW catalog, Queues(catalog), NEW t, NEW c, PurgedTo(c, catalog, t),
         NEW p, IsFiniteSet(Held(catalog, p))
  PROVE  /\ Queues(c)
         /\ Held(c, p) \subseteq Held(catalog, p) /\ IsFiniteSet(Held(c, p))
         /\ OccursIn(c, p) = OccursIn(catalog, p) - AgedIn(catalog, p, t)
         /\ AgedIn(catalog, p, t) \in 0..OccursIn(catalog, p)
<1> DEFINE H == Held(catalog, p)
           gone == {x \in H : Aged(catalog, x, t)}
           KL(k) == KeptLength(catalog[k].pkt_list, AveragingTime, t)
<1>1. ASSUME NEW k \in DOMAIN catalog
      PROVE  /\ catalog[k].pkt_list \in Seq(Item) /\ KL(k) \in 0..Len(catalog[k].pkt_list)
             /\ Len(Kept(catalog[k].pkt_list, AveragingTime, t)) = KL(k)
             /\ \A i \in 1..KL(k) :
                  Kept(catalog[k].pkt_list, AveragingTime, t)[i] = catalog[k].pkt_list[i]
  <2>1. catalog[k].pkt_list \in Seq(Item)
    BY DEF Queues
  <2> QED
    BY <2>1, KeptPositions
<1>2. Queues(c)
  BY KeptType DEF PurgedTo, Queues
<1>3. \A x : x \in H <=> IsHeld(x, catalog, p)
  BY HeldIs
<1>4. \A x : x \in Held(c, p) <=> IsHeld(x, c, p)
  BY <1>2, HeldIs
<1> HIDE DEF H
<1>5. ASSUME NEW x \in H, ~Aged(catalog, x, t) PROVE x \in Held(c, p)
  <2> DEFINE k == x[1]
             i == x[2]
  <2>1. /\ x = <<k, i>> /\ k \in DOMAIN catalog /\ i \in 1..Len(catalog[k].pkt_list)
        /\ catalog[k].pkt_list[i].pkt.id = p /\ ~ (i > KL(k))
    BY <1>3, <1>5 DEF IsHeld, Aged
  <2> HIDE DEF k, i, KL
  <2>2. i \in 1..KL(k)
    BY <1>1, <2>1
  <2>3. Len(Kept(catalog[k].pkt_list, AveragingTime, t)) = KL(k)
        /\ Kept(catalog[k].pkt_list, AveragingTime, t)[i] = catalog[k].pkt_list[i]
    BY <1>1, <2>1, <2>2
  <2>4. k \in DOMAIN c
    <3>1. Kept(catalog[k].pkt_list, AveragingTime, t) = << >> => KL(k) = 0
      BY <2>3
    <3>2. KL(k) # 0
      BY <1>1, <2>1, <2>2
    <3> QED
      BY <2>1, <3>1, <3>2 DEF PurgedTo
  <2>5. IsHeld(<<k, i>>, c, p)
    BY <2>1, <2>2, <2>3, <2>4 DEF IsHeld, PurgedTo
  <2> QED
    BY <1>4, <2>1, <2>5
<1>6. ASSUME NEW x \in Held(c, p) PROVE x \in H /\ ~Aged(catalog, x, t)
  <2> DEFINE k == x[1]
             i == x[2]
  <2>1. /\ x = <<k, i>> /\ k \in DOMAIN c /\ i \in 1..Len(c[k].pkt_list)
        /\ c[k].pkt_list[i].pkt.id = p
    BY <1>4 DEF IsHeld
  <2>2. k \in DOMAIN catalog /\ c[k].pkt_list = Kept(catalog[k].pkt_list, AveragingTime, t)
    BY <2>1 DEF PurgedTo
  <2> HIDE DEF k, i, KL
  <2>3. KL(k) \in 0..Len(catalog[k].pkt_list) /\ Len(catalog[k].pkt_list) \in Nat
        /\ i \in 1..KL(k) /\ c[k].pkt_list[i] = catalog[k].pkt_list[i]
    BY <1>1, <2>1, <2>2
  <2>4. i \in 1..Len(catalog[k].pkt_list) /\ ~ (i > KL(k))
    BY <2>3
  <2>5. IsHeld(<<k, i>>, catalog, p)
    BY <2>1, <2>2, <2>3, <2>4 DEF IsHeld
  <2>6. ~Aged(catalog, x, t)
    BY <2>4 DEF Aged, KL, k, i
  <2> QED
    BY <1>3, <2>1, <2>5, <2>6
<1>7. Held(c, p) = H \ gone
  BY <1>5, <1>6
<1>8. IsFiniteSet(H) /\ gone \subseteq H
  BY DEF H
<1> HIDE DEF gone
<1>9. /\ IsFiniteSet(gone) /\ Cardinality(gone) <= Cardinality(H)
      /\ Cardinality(gone) \in Nat /\ Cardinality(H) \in Nat
  BY <1>8, FS_Subset, FS_CardinalityType
<1>10. Cardinality(H \ gone) = Cardinality(H) - Cardinality(H \cap gone)
       /\ IsFiniteSet(H \ gone)
  BY <1>8, FS_Difference
<1>11. H \cap gone = gone
  BY <1>8
<1>12. OccursIn(c, p) = Cardinality(H) - Cardinality(gone)
  BY <1>7, <1>10, <1>11 DEF OccursIn
<1>13. AgedIn(catalog, p, t) = Cardinality(gone) /\ OccursIn(catalog, p) = Cardinality(H)
  BY DEF AgedIn, OccursIn, gone, H
<1>14. Held(c, p) \subseteq Held(catalog, p) /\ IsFiniteSet(Held(c, p))
  BY <1>7, <1>10 DEF H
<1> QED
  BY <1>2, <1>9, <1>12, <1>13, <1>14

-----------------------------------------------------------------------------
(* Reference counts.                                                       *)

\* No queue of the catalog holds a packet outside P.
Known(catalog, P) ==
  \A k \in DOMAIN catalog : \A i \in 1..Len(catalog[k].pkt_list) :
    catalog[k].pkt_list[i].pkt.id \in P

\* The count of a packet is finite in each catalog, makes up its ref_count together, and
\* is not 0; only allocated packets are queued, and their number is kept.
Counted ==
  /\ \A p \in DOMAIN refs :
       /\ IsFiniteSet(Held(nodes, p)) /\ IsFiniteSet(Held(links, p))
       /\ IsFiniteSet(Held(SummaryCatalog, p))
       /\ refs[p] = OccursIn(nodes, p) + OccursIn(links, p) + OccursIn(SummaryCatalog, p)
       /\ refs[p] > 0
  /\ Known(nodes, DOMAIN refs) /\ Known(links, DOMAIN refs)
  /\ Known(SummaryCatalog, DOMAIN refs)
  /\ total_mem_packets = Cardinality(DOMAIN refs)

\* The summary is empty before a start: start_capture opens a new one without purging it.
SummaryEmpty == capture_status = "STOP" => summary.pkt_list = << >>

MemInv == IInv /\ Counted /\ SummaryEmpty

\* The queue of the summary is one of a catalog.
LEMMA SummaryQueues ==
  /\ DOMAIN SummaryCatalog = {"protosummary"} /\ SummaryCatalog["protosummary"] = summary
  /\ Queues(SummaryCatalog) <=> summary.pkt_list \in Seq(Item)
BY DEF SummaryCatalog, Queues

\* A queued item counts.
LEMMA ItemCounts ==
  ASSUME NEW catalog, Queues(catalog), NEW k \in DOMAIN catalog,
         NEW i \in 1..Len(catalog[k].pkt_list),
         IsFiniteSet(Held(catalog, catalog[k].pkt_list[i].pkt.id))
  PROVE  OccursIn(catalog, catalog[k].pkt_list[i].pkt.id) \in Nat \ {0}
<1> DEFINE p == catalog[k].pkt_list[i].pkt.id
<1>1. IsHeld(<<k, i>>, catalog, p)
  BY DEF IsHeld
<1>2. <<k, i>> \in Held(catalog, p)
  BY <1>1, HeldIs
<1> HIDE DEF p
<1>3. IsFiniteSet(Held(catalog, p))
  BY DEF p
<1>4. Cardinality(Held(catalog, p)) \in Nat /\ Cardinality(Held(catalog, p)) # 0
  BY <1>2, <1>3, FS_CardinalityType, FS_EmptySet
<1> QED
  BY <1>4 DEF OccursIn, p

\* A packet that is in no queue has no items.
LEMMA NoneHeld ==
  ASSUME NEW catalog, Queues(catalog), NEW P, Known(catalog, P), NEW p, p \notin P
  PROVE  Held(catalog, p) = {} /\ OccursIn(catalog, p) = 0 /\ IsFiniteSet(Held(catalog, p))
<1>1. ASSUME NEW x \in Held(catalog, p) PROVE FALSE
  <2>1. IsHeld(x, catalog, p)
    BY HeldIs
  <2> QED
    BY <2>1 DEF IsHeld, Known
<1>2. Held(catalog, p) = {}
  BY <1>1
<1> QED
  BY <1>2, FS_EmptySet DEF OccursIn

\* c has lost n of the items of packet p that catalog had.
Lost(c, catalog, p, n) ==
  n \in Nat /\ IsFiniteSet(Held(c, p)) /\ OccursIn(c, p) = OccursIn(catalog, p) - n

\* packet_list_item_delete: a step that takes items out of the queues and a reference for
\* each of them frees just the packets that are in no queue any more.
LEMMA FreeKeeps ==
  ASSUME TypeOK, Counted, NEW taken, NEW tn, NEW tl, NEW ts, Free(taken),
         Queues(nodes'), Queues(links'), Queues(SummaryCatalog'),
         \A p \in DOMAIN refs : /\ taken[p] = tn[p] + tl[p] + ts[p]
                                /\ Lost(nodes', nodes, p, tn[p])
                                /\ Lost(links', links, p, tl[p])
                                /\ Lost(SummaryCatalog', SummaryCatalog, p, ts[p]),
         Known(nodes', DOMAIN refs), Known(links', DOMAIN refs),
         Known(SummaryCatalog', DOMAIN refs)
  PROVE  Counted'
<1> DEFINE D == DOMAIN refs
           left(p) == OccursIn(nodes', p) + OccursIn(links', p) + OccursIn(SummaryCatalog', p)
<1>1. ASSUME NEW p \in D
      PROVE  /\ OccursIn(nodes', p) \in Nat /\ OccursIn(links', p) \in Nat
             /\ OccursIn(SummaryCatalog', p) \in Nat
             /\ refs[p] \in Nat /\ refs[p] > 0 /\ taken[p] \in Nat
             /\ refs[p] - taken[p] = left(p)
  <2>1. /\ IsFiniteSet(Held(nodes', p)) /\ IsFiniteSet(Held(links', p))
        /\ IsFiniteSet(Held(SummaryCatalog', p))
        /\ tn[p] \in Nat /\ tl[p] \in Nat /\ ts[p] \in Nat
        /\ taken[p] = tn[p] + tl[p] + ts[p]
        /\ OccursIn(nodes', p) = OccursIn(nodes, p) - tn[p]
        /\ OccursIn(links', p) = OccursIn(links, p) - tl[p]
        /\ OccursIn(SummaryCatalog', p) = OccursIn(SummaryCatalog, p) - ts[p]
    BY DEF Lost
  <2>2. /\ OccursIn(nodes', p) \in Nat /\ OccursIn(links', p) \in Nat
        /\ OccursIn(SummaryCatalog', p) \in Nat
    BY <2>1, FS_CardinalityType DEF OccursIn
  <2>3. /\ OccursIn(nodes, p) \in Nat /\ OccursIn(links, p) \in Nat
        /\ OccursIn(SummaryCatalog, p) \in Nat /\ refs[p] > 0
        /\ refs[p] = OccursIn(nodes, p) + OccursIn(links, p) + OccursIn(SummaryCatalog, p)
    BY FS_CardinalityType DEF OccursIn, Counted
  <2> QED
    BY ONLY <2>1, <2>2, <2>3
<1> HIDE DEF left
<1>2. /\ DOMAIN refs' = {p \in D : left(p) > 0}
      /\ \A p \in DOMAIN refs' : refs'[p] = left(p)
  <2>1. DOMAIN refs' = {q \in D : taken[q] = 0 \/ refs[q] - taken[q] >= 1}
        /\ \A p \in DOMAIN refs' : refs'[p] = refs[p] - taken[p]
    BY DEF Free, Release
  <2>2. \A q \in D : (taken[q] = 0 \/ refs[q] - taken[q] >= 1) <=> left(q) > 0
    BY <1>1
  <2> QED
    BY <1>1, <2>1, <2>2
<1>3. total_mem_packets' = Cardinality(DOMAIN refs')
  <2>1. IsFiniteSet(D)
    <3>1. n_packets \in Int /\ 1 \in Int
      BY DEF TypeOK
    <3>2. IsFiniteSet(1..n_packets)
      BY <3>1, FS_Interval
    <3> QED
      BY <3>2, FS_Subset DEF TypeOK
  <2> DEFINE E == DOMAIN refs'
  <2>2. E \subseteq D
    BY <1>2
  <2>3. total_mem_packets' = total_mem_packets - Cardinality(D \ E)
    BY DEF Free
  <2>4. total_mem_packets = Cardinality(D)
    BY DEF Counted
  <2> HIDE DEF D, E
  <2>5. Cardinality(D \ E) = Cardinality(D) - Cardinality(D \cap E) /\ D \cap E = E
    BY <2>1, <2>2, FS_Difference
  <2>6. IsFiniteSet(E) /\ Cardinality(D) \in Nat /\ Cardinality(E) \in Nat
    BY <2>1, <2>2, FS_Subset, FS_CardinalityType
  <2>7. total_mem_packets' = Cardinality(E)
    BY ONLY <2>3, <2>4, <2>5, <2>6
  <2> QED
    BY <2>7 DEF E
<1>4. \A p \in D : /\ IsFiniteSet(Held(nodes', p)) /\ IsFiniteSet(Held(links', p))
                   /\ IsFiniteSet(Held(SummaryCatalog', p))
  BY DEF Lost
<1>5. Known(nodes', DOMAIN refs')
  <2> SUFFICES ASSUME NEW k \in DOMAIN nodes', NEW i \in 1..Len(nodes'[k].pkt_list)
               PROVE  nodes'[k].pkt_list[i].pkt.id \in DOMAIN refs'
    BY DEF Known
  <2>1. nodes'[k].pkt_list[i].pkt.id \in D
    BY DEF Known
  <2>2. OccursIn(nodes', nodes'[k].pkt_list[i].pkt.id) \in Nat \ {0}
    BY <1>4, <2>1, ItemCounts
  <2> QED
    BY <1>1, <1>2, <2>1, <2>2 DEF left
<1>6. Known(links', DOMAIN refs')
  <2> SUFFICES ASSUME NEW k \in DOMAIN links', NEW i \in 1..Len(links'[k].pkt_list)
               PROVE  links'[k].pkt_list[i].pkt.id \in DOMAIN refs'
    BY DEF Known
  <2>1. links'[k].pkt_list[i].pkt.id \in D
    BY DEF Known
  <2>2. OccursIn(links', links'[k].pkt_list[i].pkt.id) \in Nat \ {0}
    BY <1>4, <2>1, ItemCounts
  <2> QED
    BY <1>1, <1>2, <2>1, <2>2 DEF left
<1>7. Known(SummaryCatalog', DOMAIN refs')
  <2> DEFINE s == SummaryCatalog'
  <2> SUFFICES ASSUME NEW k \in DOMAIN s, NEW i \in 1..Len(s[k].pkt_list)
               PROVE  s[k].pkt_list[i].pkt.id \in DOMAIN refs'
    BY DEF Known
  <2>1. s[k].pkt_list[i].pkt.id \in D
    BY DEF Known
  <2>2. OccursIn(s, s[k].pkt_list[i].pkt.id) \in Nat \ {0}
    BY <1>4, <2>1, ItemCounts
  <2> QED
    BY <1>1, <1>2, <2>1, <2>2 DEF left
<1>8. \A p \in DOMAIN refs' : refs'[p] = left(p) /\ refs'[p] > 0 /\ p \in D
  BY <1>2
<1> QED
  BY <1>3, <1>4, <1>5, <1>6, <1>7, <1>8 DEF Counted, left

\* A push makes the packet of the new item known.
LEMMA PushKnown ==
  ASSUME NEW catalog, Queues(catalog), NEW key, NEW it \in Item, NEW c,
         Pushed(key, it, c, catalog), NEW P, Known(catalog, P)
  PROVE  Known(c, P \cup {it.pkt.id})
<1>1. Queues(c) /\ MovedUp(key, it, c, catalog)
  BY PushPositions
<1> SUFFICES ASSUME NEW k \in DOMAIN c, NEW i \in 1..Len(c[k].pkt_list)
             PROVE  c[k].pkt_list[i].pkt.id \in P \cup {it.pkt.id}
  BY DEF Known
<1>2. Len(c[k].pkt_list) \in Nat
  BY <1>1 DEF Queues
<1>3. CASE k # key
  BY <1>3 DEF Pushed, Known
<1>4. CASE k = key /\ i = 1
  BY <1>1, <1>4 DEF MovedUp
<1>5. CASE k = key /\ i # 1
  <2>1. i - 1 \in Nat /\ i - 1 >= 1 /\ i <= Len(c[key].pkt_list) /\ (i - 1) + 1 = i
    BY <1>2, <1>5
  <2>2. key \in DOMAIN catalog
    <3>1. ASSUME Len(c[key].pkt_list) = 1 PROVE FALSE
      <4>1. i <= 1 /\ i \in Nat
        BY <1>5, <2>1, <3>1
      <4> QED
        BY <2>1, <4>1
    <3> QED
      BY <1>1, <3>1 DEF MovedUp
  <2>3. Len(catalog[key].pkt_list) \in Nat
        /\ Len(c[key].pkt_list) = Len(catalog[key].pkt_list) + 1
    BY <1>1, <2>2 DEF MovedUp, Queues
  <2>4. i - 1 \in 1..Len(catalog[key].pkt_list)
    BY ONLY <2>1, <2>3
  <2>5. c[key].pkt_list[(i - 1) + 1] = catalog[key].pkt_list[i - 1]
    BY <1>1, <2>2, <2>4 DEF MovedUp
  <2>6. catalog[key].pkt_list[i - 1].pkt.id \in P
    BY <2>2, <2>4 DEF Known
  <2> QED
    BY <1>5, <2>1, <2>5, <2>6
<1> QED
  BY <1>3, <1>4, <1>5

\* packet_acquired: the four queue items of a packet are the four references it starts with.
LEMMA GetPacketCounts ==
  ASSUME MemInv, NEW src \in Node, NEW dst \in Node, GetPacket(src, dst)
  PROVE  Counted' /\ SummaryEmpty'
<1>1. PICK t \in (wall - MaxLag)..wall, size \in Sizes, names \in NameStacks :
        /\ t >= 0
        /\ now' = t
        /\ PacketAcquired(src, dst,
             [id |-> n_packets + 1, size |-> size, ts |-> t, names |-> names])
  BY DEF GetPacket
<1> DEFINE pkt == [id |-> n_packets + 1, size |-> size, ts |-> t, names |-> names]
           item(dir) == [pkt |-> pkt, direction |-> dir]
           c1 == AddTo(nodes, src, pkt, "OUTBOUND", t)
           c2 == AddTo(c1, dst, pkt, "INBOUND", t)
           ldir == IF src <= dst THEN "OUTBOUND" ELSE "INBOUND"
           D == DOMAIN refs
           new == n_packets + 1
           one(p) == IF new = p THEN 1 ELSE 0
<1>2. wall \in Nat /\ n_packets \in Nat /\ MaxLag \in Nat /\ D \subseteq 1..n_packets
  BY TrafficAssumption DEF MemInv, IInv, TypeOK
<1>3. pkt \in Packet /\ pkt.id = new /\ new \in Nat /\ new \notin D
  BY <1>1, <1>2 DEF Packet
<1>4. "OUTBOUND" \in Directions /\ "INBOUND" \in Directions /\ "EITHERBOUND" \in Directions
      /\ ldir \in Directions
  BY DEF Directions
<1>5. /\ total_mem_packets' = total_mem_packets + 1
      /\ refs' = [p \in D \cup {new} |-> IF p = new THEN RefsPerPacket ELSE refs[p]]
      /\ nodes' = c2
      /\ links' = AddTo(links, LinkId(src, dst), pkt, ldir, t)
      /\ summary' = TrafficAddPacket(summary, pkt, "EITHERBOUND", t)
  BY <1>1 DEF PacketAcquired
<1> HIDE DEF pkt
<1>6. \A dir \in Directions : item(dir) \in Item /\ item(dir).pkt.id = new
  BY <1>3 DEF Item
<1>7. Queues(nodes) /\ Queues(links) /\ Queues(SummaryCatalog)
  BY SummaryQueues DEF MemInv, IInv, TypeOK, Queues
<1>8. Pushed(src, item("OUTBOUND"), c1, nodes)
  BY AddToPushes
<1> HIDE DEF c1
<1>9. Pushed(dst, item("INBOUND"), c2, c1)
  BY AddToPushes
<1>10. Pushed(LinkId(src, dst), item(ldir), links', links)
  BY <1>5, AddToPushes
<1>11. Pushed("protosummary", item("EITHERBOUND"), SummaryCatalog', SummaryCatalog)
  <2>1. summary'.pkt_list = << item("EITHERBOUND") >> \o summary.pkt_list
    BY <1>5 DEF TrafficAddPacket, Enqueue
  <2>2. /\ DOMAIN SummaryCatalog = {"protosummary"}
        /\ SummaryCatalog["protosummary"].pkt_list = summary.pkt_list
        /\ DOMAIN SummaryCatalog' = {"protosummary"}
        /\ SummaryCatalog'["protosummary"] = summary'
    BY DEF SummaryCatalog
  <2> QED
    BY <2>1, <2>2 DEF Pushed
<1> HIDE DEF c2, ldir, item
<1>12. Queues(c1)
  BY <1>4, <1>6, <1>7, <1>8, PushPositions
<1>13. ASSUME NEW p \in D \cup {new}
       PROVE  /\ IsFiniteSet(Held(nodes', p)) /\ IsFiniteSet(Held(links', p))
              /\ IsFiniteSet(Held(SummaryCatalog', p))
              /\ OccursIn(nodes', p) = OccursIn(nodes, p) + one(p) + one(p)
              /\ OccursIn(links', p) = OccursIn(links, p) + one(p)
              /\ OccursIn(SummaryCatalog', p) = OccursIn(SummaryCatalog, p) + one(p)
              /\ OccursIn(nodes, p) \in Nat /\ OccursIn(links, p) \in Nat
              /\ OccursIn(SummaryCatalog, p) \in Nat
  <2>1. /\ IsFiniteSet(Held(nodes, p)) /\ IsFiniteSet(Held(links, p))
        /\ IsFiniteSet(Held(SummaryCatalog, p))
    <3>1. CASE p \in D
      BY <3>1 DEF MemInv, Counted
    <3>2. CASE p \notin D
      BY <1>7, <3>2, NoneHeld DEF MemInv, Counted
    <3> QED
      BY <3>1, <3>2
  <2>2. /\ IsFiniteSet(Held(c1, p))
        /\ OccursIn(c1, p) = OccursIn(nodes, p) + one(p)
    BY <1>4, <1>6, <1>7, <1>8, <2>1, PushCounts
  <2>3. /\ IsFiniteSet(Held(nodes', p))
        /\ OccursIn(nodes', p) = OccursIn(c1, p) + one(p)
    BY <1>4, <1>5, <1>6, <1>9, <1>12, <2>2, PushCounts
  <2>4. /\ IsFiniteSet(Held(links', p))
        /\ OccursIn(links', p) = OccursIn(links, p) + one(p)
    BY <1>4, <1>6, <1>7, <1>10, <2>1, PushCounts
  <2>5. /\ IsFiniteSet(Held(SummaryCatalog', p))
        /\ OccursIn(SummaryCatalog', p) = OccursIn(SummaryCatalog, p) + one(p)
    BY <1>4, <1>6, <1>7, <1>11, <2>1, PushCounts
  <2>6. /\ OccursIn(nodes, p) \in Nat /\ OccursIn(links, p) \in Nat
        /\ OccursIn(SummaryCatalog, p) \in Nat
    BY <2>1, FS_CardinalityType DEF OccursIn
  <2> QED
    BY <2>2, <2>3, <2>4, <2>5, <2>6
<1>14. ASSUME NEW p \in D \cup {new}
       PROVE  /\ refs'[p] = OccursIn(nodes', p) + OccursIn(links', p)
                            + OccursIn(SummaryCatalog', p)
              /\ refs'[p] > 0
  <2>1. CASE p = new
    <3>1. OccursIn(nodes, p) = 0 /\ OccursIn(links, p) = 0 /\ OccursIn(SummaryCatalog, p) = 0
      BY <1>3, <1>7, <2>1, NoneHeld DEF MemInv, Counted
    <3>2. refs'[p] = 4 /\ one(p) = 1
      BY <1>5, <2>1 DEF RefsPerPacket
    <3> QED
      BY <1>13, <3>1, <3>2
  <2>2. CASE p # new
    <3>1. refs'[p] = refs[p] /\ one(p) = 0 /\ p \in D
      BY <1>5, <2>2
    <3>2. refs[p] = OccursIn(nodes, p) + OccursIn(links, p) + OccursIn(SummaryCatalog, p)
          /\ refs[p] > 0
      BY <3>1 DEF MemInv, Counted
    <3> QED
      BY <1>13, <3>1, <3>2
  <2> QED
    BY <2>1, <2>2
<1>15. DOMAIN refs' = D \cup {new}
  BY <1>5
<1>16. Known(nodes', D \cup {new})
  <2>1. Known(nodes, D)
    BY DEF MemInv, Counted
  <2>2. Known(c1, D \cup {new})
    BY <1>4, <1>6, <1>7, <1>8, <2>1, PushKnown
  <2>3. Known(c2, (D \cup {new}) \cup {new})
    BY <1>4, <1>6, <1>9, <1>12, <2>2, PushKnown
  <2>4. (D \cup {new}) \cup {new} = D \cup {new}
    OBVIOUS
  <2> QED
    BY <1>5, <2>3, <2>4
<1>17. Known(links', D \cup {new}) /\ Known(SummaryCatalog', D \cup {new})
  <2>1. Known(links, D) /\ Known(SummaryCatalog, D)
    BY DEF MemInv, Counted
  <2> QED
    BY <1>4, <1>6, <1>7, <1>10, <1>11, <2>1, PushKnown
<1>18. total_mem_packets' = Cardinality(D \cup {new})
  <2>1. IsFiniteSet(D) /\ total_mem_packets = Cardinality(D)
    <3>1. n_packets \in Int /\ 1 \in Int
      BY <1>2
    <3>2. IsFiniteSet(1..n_packets)
      BY <3>1, FS_Interval
    <3> QED
      BY <1>2, <3>2, FS_Subset DEF MemInv, Counted
  <2> HIDE DEF D, new
  <2> QED
    BY <1>3, <1>5, <2>1, FS_AddElement
<1>19. SummaryEmpty'
  BY DEF GetPacket, Capturing, SummaryEmpty
<1> QED
  BY <1>13, <1>14, <1>15, <1>16, <1>17, <1>18, <1>19 DEF Counted

\* nodes_catalog_update_all purges every queue and deletes only nodes that lost all items.
LEMMA NodesPurged ==
  ASSUME UpdateNodes
  PROVE  PurgedTo(nodes', nodes, wall)
<1> DEFINE upd == [n \in DOMAIN nodes |->
                     TrafficUpdate(nodes[n], AveragingTime, ProtoNodeTimeout, wall)]
<1>1. nodes' = [n \in {m \in DOMAIN nodes : ~NodeExpired(upd[m], wall)} |-> upd[n]]
  BY DEF UpdateNodes, NodesUpdated
<1>2. \A n \in DOMAIN nodes : upd[n].pkt_list = Kept(nodes[n].pkt_list, AveragingTime, wall)
  BY UpdateList
<1> HIDE DEF upd
<1> QED
  BY <1>1, <1>2 DEF PurgedTo, NodeExpired

\* links_catalog_update_all does the same, and so does the update of the summary.
LEMMA LinksPurged ==
  ASSUME UpdateLinks
  PROVE  PurgedTo(links', links, now) /\ PurgedTo(SummaryCatalog', SummaryCatalog, now)
<1> DEFINE upd == [l \in DOMAIN links |->
                     TrafficUpdate(links[l], AveragingTime, ProtoLinkTimeout, now)]
<1>1. links' = [l \in {k \in DOMAIN links : ~LinkExpired(upd[k], now)} |-> upd[l]]
  BY DEF UpdateLinks, LinksUpdated
<1>2. \A l \in DOMAIN links : upd[l].pkt_list = Kept(links[l].pkt_list, AveragingTime, now)
  BY UpdateList
<1> HIDE DEF upd
<1>3. PurgedTo(links', links, now)
  BY <1>1, <1>2 DEF PurgedTo, LinkExpired
<1>4. summary'.pkt_list = Kept(summary.pkt_list, AveragingTime, now)
  BY UpdateList DEF UpdateLinks
<1>5. /\ DOMAIN SummaryCatalog = {"protosummary"} /\ DOMAIN SummaryCatalog' = {"protosummary"}
      /\ SummaryCatalog["protosummary"] = summary
      /\ SummaryCatalog'["protosummary"] = summary'
  BY DEF SummaryCatalog
<1>6. PurgedTo(SummaryCatalog', SummaryCatalog, now)
  BY <1>4, <1>5 DEF PurgedTo
<1> QED
  BY <1>3, <1>6

\* A purge makes no packet known.
LEMMA PurgeKnown ==
  ASSUME NEW catalog, Queues(catalog), NEW t, NEW c, PurgedTo(c, catalog, t),
         NEW P, Known(catalog, P)
  PROVE  Known(c, P)
<1> SUFFICES ASSUME NEW k \in DOMAIN c, NEW i \in 1..Len(c[k].pkt_list)
             PROVE  c[k].pkt_list[i].pkt.id \in P
  BY DEF Known
<1> DEFINE list == catalog[k].pkt_list
<1>1. k \in DOMAIN catalog /\ c[k].pkt_list = Kept(list, AveragingTime, t)
  BY DEF PurgedTo
<1>2. list \in Seq(Item)
  BY <1>1 DEF Queues
<1>3. \A j \in 1..Len(list) : list[j].pkt.id \in P
  BY <1>1 DEF Known
<1> HIDE DEF list
<1>4. /\ Len(c[k].pkt_list) = KeptLength(list, AveragingTime, t)
      /\ KeptLength(list, AveragingTime, t) \in 0..Len(list)
      /\ \A j \in 1..KeptLength(list, AveragingTime, t) : c[k].pkt_list[j] = list[j]
  BY <1>1, <1>2, KeptPositions
<1>5. i \in 1..Len(list) /\ c[k].pkt_list[i] = list[i]
  BY <1>2, <1>4
<1> QED
  BY <1>3, <1>5

\* What a purge takes from each packet, for FreeKeeps.
LEMMA PurgeLoses ==
  ASSUME NEW catalog, Queues(catalog), NEW t, NEW c, PurgedTo(c, catalog, t),
         NEW p, IsFiniteSet(Held(catalog, p))
  PROVE  Lost(c, catalog, p, AgedIn(catalog, p, t))
<1>1. IsFiniteSet(Held(c, p)) /\ OccursIn(c, p) = OccursIn(catalog, p) - AgedIn(catalog, p, t)
      /\ AgedIn(catalog, p, t) \in 0..OccursIn(catalog, p)
  BY PurgeCounts
<1>2. OccursIn(catalog, p) \in Nat
  BY FS_CardinalityType DEF OccursIn
<1>3. AgedIn(catalog, p, t) \in Nat
  BY <1>1, <1>2
<1> QED
  BY <1>1, <1>3 DEF Lost

\* A catalog that does not change loses nothing.
LEMMA SameLoses ==
  ASSUME NEW catalog, NEW p, IsFiniteSet(Held(catalog, p))
  PROVE  Lost(catalog, catalog, p, 0)
<1>1. OccursIn(catalog, p) \in Nat
  BY FS_CardinalityType DEF OccursIn
<1> QED
  BY <1>1 DEF Lost

\* The first part of an update: nodes are purged.
LEMMA UpdateNodesCounts ==
  ASSUME MemInv, UpdateNodes
  PROVE  Counted' /\ SummaryEmpty'
<1> DEFINE D == DOMAIN refs
           zero == [p \in D |-> 0]
           taken == [p \in D |-> AgedIn(nodes, p, wall)]
<1>1. Free(taken) /\ UNCHANGED <<links, summary, capture_status>>
  BY DEF UpdateNodes
<1>2. SummaryCatalog' = SummaryCatalog
  BY <1>1 DEF SummaryCatalog
<1>3. Queues(nodes) /\ Queues(links) /\ Queues(SummaryCatalog)
  BY SummaryQueues DEF MemInv, IInv, TypeOK, Queues
<1>4. PurgedTo(nodes', nodes, wall)
  BY NodesPurged
<1>5. Queues(nodes')
  BY <1>3, <1>4, KeptType DEF Queues, PurgedTo
<1>6. ASSUME NEW p \in D
      PROVE  /\ Lost(nodes', nodes, p, taken[p]) /\ Lost(links', links, p, zero[p])
             /\ Lost(SummaryCatalog', SummaryCatalog, p, zero[p])
             /\ taken[p] = taken[p] + zero[p] + zero[p]
  <2>1. IsFiniteSet(Held(nodes, p)) /\ IsFiniteSet(Held(links, p))
        /\ IsFiniteSet(Held(SummaryCatalog, p))
    BY DEF MemInv, Counted
  <2>2. Lost(nodes', nodes, p, taken[p])
    BY <1>3, <1>4, <2>1, PurgeLoses
  <2>3. Lost(links', links, p, zero[p]) /\ Lost(SummaryCatalog', SummaryCatalog, p, zero[p])
    BY <1>1, <1>2, <2>1, SameLoses
  <2>4. taken[p] \in Nat
    BY <2>2 DEF Lost
  <2> QED
    BY <2>2, <2>3, <2>4
<1>7. Known(nodes', D) /\ Known(links', D) /\ Known(SummaryCatalog', D)
  BY <1>1, <1>2, <1>3, <1>4, PurgeKnown DEF MemInv, Counted
<1> HIDE DEF taken, zero
<1>8. Counted'
  BY <1>1, <1>2, <1>3, <1>5, <1>6, <1>7, FreeKeeps DEF MemInv, IInv
<1> QED
  BY <1>1, <1>8 DEF MemInv, SummaryEmpty

\* The second part: links and summary are purged.
LEMMA UpdateLinksCounts ==
  ASSUME MemInv, UpdateLinks
  PROVE  Counted' /\ SummaryEmpty'
<1> DEFINE D == DOMAIN refs
           zero == [p \in D |-> 0]
           tl == [p \in D |-> AgedIn(links, p, now)]
           ts == [p \in D |-> AgedIn(SummaryCatalog, p, now)]
           taken == [p \in D |-> AgedIn(SummaryCatalog, p, now) + AgedIn(links, p, now)]
<1>1. Free(taken) /\ UNCHANGED <<nodes, capture_status>>
  BY DEF UpdateLinks
<1>3. Queues(nodes) /\ Queues(links) /\ Queues(SummaryCatalog)
  BY SummaryQueues DEF MemInv, IInv, TypeOK, Queues
<1>4. PurgedTo(links', links, now) /\ PurgedTo(SummaryCatalog', SummaryCatalog, now)
  BY LinksPurged
<1>5. Queues(links') /\ Queues(SummaryCatalog')
  BY <1>3, <1>4, KeptType DEF Queues, PurgedTo
<1>6. ASSUME NEW p \in D
      PROVE  /\ Lost(nodes', nodes, p, zero[p]) /\ Lost(links', links, p, tl[p])
             /\ Lost(SummaryCatalog', SummaryCatalog, p, ts[p])
             /\ taken[p] = zero[p] + tl[p] + ts[p]
  <2>1. IsFiniteSet(Held(nodes, p)) /\ IsFiniteSet(Held(links, p))
        /\ IsFiniteSet(Held(SummaryCatalog, p))
    BY DEF MemInv, Counted
  <2>2. Lost(links', links, p, AgedIn(links, p, now))
        /\ Lost(SummaryCatalog', SummaryCatalog, p, AgedIn(SummaryCatalog, p, now))
    BY <1>3, <1>4, <2>1, PurgeLoses
  <2>3. Lost(nodes', nodes, p, zero[p])
    BY <1>1, <2>1, SameLoses
  <2>4. AgedIn(links, p, now) \in Nat /\ AgedIn(SummaryCatalog, p, now) \in Nat
    BY <2>2 DEF Lost
  <2> QED
    BY <2>2, <2>3, <2>4
<1>7. Known(nodes', D) /\ Known(links', D) /\ Known(SummaryCatalog', D)
  BY <1>1, <1>3, <1>4, PurgeKnown DEF MemInv, Counted
<1> HIDE DEF taken, zero, tl, ts
<1>8. Counted'
  BY <1>1, <1>3, <1>5, <1>6, <1>7, FreeKeeps DEF MemInv, IInv
<1>9. SummaryEmpty'
  <2>1. ASSUME capture_status = "STOP" PROVE summary'.pkt_list = << >>
    <3>1. summary.pkt_list = << >> /\ summary.pkt_list \in Seq(Item)
      BY <2>1 DEF MemInv, SummaryEmpty, IInv, TypeOK
    <3>2. summary'.pkt_list = Kept(summary.pkt_list, AveragingTime, now)
      BY UpdateList DEF UpdateLinks
    <3> QED
      BY <3>1, <3>2, KeptType
  <2> QED
    BY <1>1, <2>1 DEF SummaryEmpty
<1> QED
  BY <1>8, <1>9

\* An empty catalog.
LEMMA EmptyHolds ==
  ASSUME NEW c, \A k \in DOMAIN c : c[k].pkt_list = << >>
  PROVE  /\ Queues(c) /\ \A P : Known(c, P)
         /\ \A p : Held(c, p) = {} /\ IsFiniteSet(Held(c, p)) /\ OccursIn(c, p) = 0
<1>1. Queues(c)
  <2>1. << >> \in Seq(Item)
    OBVIOUS
  <2> QED
    BY <2>1 DEF Queues
<1>2. \A P : Known(c, P)
  BY DEF Known
<1>3. Known(c, {})
  BY <1>2
<1> QED
  BY <1>1, <1>2, <1>3, NoneHeld

\* stop_capture empties all queues and frees every packet.
LEMMA StopCaptureCounts ==
  ASSUME MemInv, StopCapture
  PROVE  Counted' /\ SummaryEmpty'
<1> DEFINE D == DOMAIN refs
           tn == [p \in D |-> OccursIn(nodes, p)]
           tl == [p \in D |-> OccursIn(links, p)]
           ts == [p \in D |-> OccursIn(SummaryCatalog, p)]
           taken == [p \in D |-> OccursIn(nodes, p) + OccursIn(links, p)
                                 + OccursIn(SummaryCatalog, p)]
<1>1. /\ Free(taken) /\ nodes' = EmptyCatalog /\ links' = EmptyCatalog
      /\ summary' = TrafficInit(now)
  BY DEF StopCapture
<1>2. /\ \A k \in DOMAIN nodes' : nodes'[k].pkt_list = << >>
      /\ \A k \in DOMAIN links' : links'[k].pkt_list = << >>
      /\ summary'.pkt_list = << >>
      /\ \A k \in DOMAIN SummaryCatalog' : SummaryCatalog'[k].pkt_list = << >>
  BY <1>1 DEF EmptyCatalog, TrafficInit, SummaryCatalog
<1>3. Queues(nodes') /\ Queues(links') /\ Queues(SummaryCatalog')
  BY <1>2, EmptyHolds
<1>4. Known(nodes', D) /\ Known(links', D) /\ Known(SummaryCatalog', D)
  BY <1>2, EmptyHolds
<1>5. ASSUME NEW p \in D
      PROVE  /\ Lost(nodes', nodes, p, tn[p]) /\ Lost(links', links, p, tl[p])
             /\ Lost(SummaryCatalog', SummaryCatalog, p, ts[p])
             /\ taken[p] = tn[p] + tl[p] + ts[p]
  <2>1. /\ OccursIn(nodes, p) \in Nat /\ OccursIn(links, p) \in Nat
        /\ OccursIn(SummaryCatalog, p) \in Nat
    BY FS_CardinalityType DEF MemInv, Counted, OccursIn
  <2>2. /\ OccursIn(nodes', p) = 0 /\ OccursIn(links', p) = 0 /\ OccursIn(SummaryCatalog', p) = 0
        /\ IsFiniteSet(Held(nodes', p)) /\ IsFiniteSet(Held(links', p))
        /\ IsFiniteSet(Held(SummaryCatalog', p))
    BY <1>2, EmptyHolds
  <2> QED
    BY <2>1, <2>2 DEF Lost
<1> HIDE DEF taken, tn, tl, ts
<1>6. Counted'
  BY <1>1, <1>3, <1>4, <1>5, FreeKeeps DEF MemInv, IInv
<1> QED
  BY <1>2, <1>6 DEF SummaryEmpty

\* start_capture opens catalogs in place of empty ones.
LEMMA StartCaptureCounts ==
  ASSUME MemInv, StartCapture
  PROVE  Counted' /\ SummaryEmpty'
<1>1. UNCHANGED <<refs, total_mem_packets>> /\ capture_status' = "PLAY"
  BY DEF StartCapture, memVars
<1>2. CASE capture_status # "STOP"
  <2>1. UNCHANGED <<nodes, links, summary>>
    BY <1>2 DEF StartCapture
  <2>2. SummaryCatalog' = SummaryCatalog
    BY <2>1 DEF SummaryCatalog
  <2> QED
    BY <1>1, <2>1, <2>2 DEF MemInv, Counted, SummaryEmpty
<1>3. CASE capture_status = "STOP"
  <2>1. DOMAIN nodes = {} /\ DOMAIN links = {} /\ summary.pkt_list = << >>
    BY <1>3 DEF MemInv, IInv, StoppedIsEmpty, SummaryEmpty
  <2>2. \A k \in DOMAIN SummaryCatalog : SummaryCatalog[k].pkt_list = << >>
    BY <2>1 DEF SummaryCatalog
  <2>3. \A p : OccursIn(nodes, p) = 0 /\ OccursIn(links, p) = 0 /\ OccursIn(SummaryCatalog, p) = 0
    BY <2>1, <2>2, EmptyHolds
  <2>4. DOMAIN refs = {}
    <3>1. ASSUME NEW p \in DOMAIN refs PROVE FALSE
      <4>1. refs[p] = 0 + 0 + 0 /\ refs[p] > 0
        BY <2>3 DEF MemInv, Counted
      <4> QED
        BY <4>1
    <3> QED
      BY <3>1
  <2>5. /\ \A k \in DOMAIN nodes' : nodes'[k].pkt_list = << >>
        /\ \A k \in DOMAIN links' : links'[k].pkt_list = << >>
        /\ \A k \in DOMAIN SummaryCatalog' : SummaryCatalog'[k].pkt_list = << >>
    BY <1>3 DEF StartCapture, EmptyCatalog, TrafficInit, SummaryCatalog
  <2>6. Known(nodes', {}) /\ Known(links', {}) /\ Known(SummaryCatalog', {})
    BY <2>5, EmptyHolds
  <2> QED
    BY <1>1, <2>4, <2>6 DEF MemInv, Counted, SummaryEmpty
<1> QED
  BY <1>2, <1>3

\* No other step touches a queue or a reference.
LEMMA OtherStepsCounts ==
  ASSUME MemInv,
         \/ CanvasNodeUpdate \/ RedrawDone \/ PauseCapture \/ UpdateInfoWindows \/ Tick
         \/ UNCHANGED vars
  PROVE  Counted' /\ SummaryEmpty'
<1>1. UNCHANGED <<refs, total_mem_packets, nodes, links, summary>>
      /\ capture_status' \in {capture_status, "PAUSE"}
  BY DEF CanvasNodeUpdate, RedrawDone, PauseCapture, UpdateInfoWindows, Tick, vars, memVars,
         catVars
<1>2. SummaryCatalog' = SummaryCatalog
  BY <1>1 DEF SummaryCatalog
<1> QED
  BY <1>1, <1>2 DEF MemInv, Counted, SummaryEmpty

\* Before the first capture no packet is allocated.
LEMMA InitMemInv == Init => MemInv
<1> SUFFICES ASSUME Init PROVE MemInv
  OBVIOUS
<1>1. /\ DOMAIN refs = {} /\ DOMAIN nodes = {} /\ DOMAIN links = {}
      /\ summary.pkt_list = << >> /\ total_mem_packets = 0
  BY DEF Init, EmptyCatalog, TrafficInit
<1>2. \A k \in DOMAIN SummaryCatalog : SummaryCatalog[k].pkt_list = << >>
  BY <1>1 DEF SummaryCatalog
<1>3. Known(nodes, {}) /\ Known(links, {}) /\ Known(SummaryCatalog, {})
  BY <1>1, <1>2, EmptyHolds
<1>4. Counted
  BY <1>1, <1>3, FS_EmptySet DEF Counted
<1> QED
  BY <1>1, <1>4, InitIInv DEF MemInv, SummaryEmpty

\* Every step keeps the counts.
LEMMA NextMemInv == MemInv /\ [Next]_vars => MemInv'
<1> SUFFICES ASSUME MemInv, [Next]_vars PROVE MemInv'
  OBVIOUS
<1>1. IInv'
  BY NextIInv DEF MemInv
<1>2. CASE \E src, dst \in Node : GetPacket(src, dst)
  BY <1>1, <1>2, GetPacketCounts DEF MemInv
<1>3. CASE UpdateNodes
  BY <1>1, <1>3, UpdateNodesCounts DEF MemInv
<1>4. CASE UpdateLinks
  BY <1>1, <1>4, UpdateLinksCounts DEF MemInv
<1>5. CASE StopCapture
  BY <1>1, <1>5, StopCaptureCounts DEF MemInv
<1>6. CASE StartCapture
  BY <1>1, <1>6, StartCaptureCounts DEF MemInv
<1>7. CASE \/ CanvasNodeUpdate \/ RedrawDone \/ PauseCapture \/ UpdateInfoWindows \/ Tick
           \/ UNCHANGED vars
  BY <1>1, <1>7, OtherStepsCounts DEF MemInv
<1> QED
  BY <1>2, <1>3, <1>4, <1>5, <1>6, <1>7 DEF Next

\* packet_list_item_create and packet_list_item_delete: in every interleaving of packets,
\* updates and commands the ref_count of a packet is the number of its queue items, so no
\* queue points to a freed packet, and a packet in no queue is freed.
THEOREM RefCountsAreExact == Spec => []RefCountExact
<1>1. MemInv => RefCountExact
  <2> SUFFICES ASSUME MemInv PROVE RefCountExact
    OBVIOUS
  <2>1. Queues(nodes) /\ Queues(links) /\ Queues(SummaryCatalog)
    BY SummaryQueues DEF MemInv, IInv, TypeOK, Queues
  <2>2. ASSUME NEW it \in Items PROVE it.pkt.id \in DOMAIN refs
    <3>1. CASE \E n \in DOMAIN nodes : it \in ToSet(nodes[n].pkt_list)
      <4>1. PICK n \in DOMAIN nodes : it \in ToSet(nodes[n].pkt_list)
        BY <3>1
      <4>2. PICK i \in DOMAIN nodes[n].pkt_list : it = nodes[n].pkt_list[i]
        BY <4>1 DEF ToSet
      <4>3. i \in 1..Len(nodes[n].pkt_list)
        BY <2>1, <4>2 DEF Queues
      <4> QED
        BY <4>2, <4>3 DEF MemInv, Counted, Known
    <3>2. CASE \E n \in DOMAIN links : it \in ToSet(links[n].pkt_list)
      <4>1. PICK n \in DOMAIN links : it \in ToSet(links[n].pkt_list)
        BY <3>2
      <4>2. PICK i \in DOMAIN links[n].pkt_list : it = links[n].pkt_list[i]
        BY <4>1 DEF ToSet
      <4>3. i \in 1..Len(links[n].pkt_list)
        BY <2>1, <4>2 DEF Queues
      <4> QED
        BY <4>2, <4>3 DEF MemInv, Counted, Known
    <3>3. CASE it \in ToSet(summary.pkt_list)
      <4>1. PICK i \in DOMAIN summary.pkt_list : it = summary.pkt_list[i]
        BY <3>3 DEF ToSet
      <4>2. summary.pkt_list \in Seq(Item)
        BY DEF MemInv, IInv, TypeOK
      <4>3. i \in 1..Len(summary.pkt_list)
        BY <4>2
      <4>4. Known(SummaryCatalog, DOMAIN refs)
        BY DEF MemInv, Counted
      <4> QED
        BY <4>1, <4>3, <4>4, SummaryQueues DEF Known
    <3> QED
      BY <3>1, <3>2, <3>3 DEF Items
  <2> QED
    BY <2>2 DEF MemInv, Counted, RefCountExact
<1>2. Spec => []MemInv
  BY InitMemInv, NextMemInv, PTL DEF Spec
<1> QED
  BY <1>1, <1>2, PTL

-----------------------------------------------------------------------------
(* Time.  When timestamps never run backwards (MaxLag = 0) a queue is      *)
(* ordered, so the purge, which stops at the first packet that is valid,   *)
(* takes away just the packets that are too old.                           *)

\* Packet pk is queued in record k.
Queued(catalog, k, pk) ==
  k \in DOMAIN catalog /\ \E i \in 1..Len(catalog[k].pkt_list) : catalog[k].pkt_list[i].pkt = pk

\* Newest packets come first, none of them later than time w.
SortedBy(catalog, w) ==
  \A k \in DOMAIN catalog : \A i, j \in 1..Len(catalog[k].pkt_list) :
    /\ catalog[k].pkt_list[i].pkt.ts <= w
    /\ i <= j => catalog[k].pkt_list[j].pkt.ts <= catalog[k].pkt_list[i].pkt.ts

\* A push on record key queues its packet there and changes nothing else.
LEMMA PushQueued ==
  ASSUME NEW catalog, Queues(catalog), NEW key, NEW it \in Item, NEW c,
         Pushed(key, it, c, catalog)
  PROVE  \A k, pk : Queued(c, k, pk) <=> Queued(catalog, k, pk) \/ (k = key /\ pk = it.pkt)
<1>1. Queues(c) /\ MovedUp(key, it, c, catalog)
  BY PushPositions
<1>2. DOMAIN c = DOMAIN catalog \cup {key}
      /\ \A k \in DOMAIN catalog : k # key => c[k] = catalog[k]
  BY DEF Pushed
<1>3. ASSUME NEW k, NEW pk, k # key
      PROVE  Queued(c, k, pk) <=> Queued(catalog, k, pk)
  BY <1>2, <1>3 DEF Queued
<1>4. ASSUME NEW pk, Queued(catalog, key, pk) \/ pk = it.pkt
      PROVE  Queued(c, key, pk)
  <2>1. CASE pk = it.pkt
    <3>1. Len(c[key].pkt_list) \in Nat \ {0} /\ c[key].pkt_list[1] = it
      BY <1>1 DEF MovedUp
    <3>2. 1 \in 1..Len(c[key].pkt_list)
      BY <3>1
    <3> QED
      BY <1>2, <2>1, <3>1, <3>2 DEF Queued
  <2>2. CASE Queued(catalog, key, pk)
    <3>1. PICK i \in 1..Len(catalog[key].pkt_list) : catalog[key].pkt_list[i].pkt = pk
      BY <2>2 DEF Queued
    <3>2. key \in DOMAIN catalog
      BY <2>2 DEF Queued
    <3>3. /\ Len(c[key].pkt_list) = Len(catalog[key].pkt_list) + 1
          /\ c[key].pkt_list[i + 1] = catalog[key].pkt_list[i]
      BY <1>1, <3>1, <3>2 DEF MovedUp
    <3>4. Len(catalog[key].pkt_list) \in Nat
      BY <3>2 DEF Queues
    <3>5. i + 1 \in 1..Len(c[key].pkt_list)
      BY ONLY <3>1, <3>3, <3>4
    <3> QED
      BY <1>2, <3>1, <3>3, <3>5 DEF Queued
  <2> QED
    BY <1>4, <2>1, <2>2
<1>5. ASSUME NEW pk, Queued(c, key, pk)
      PROVE  Queued(catalog, key, pk) \/ pk = it.pkt
  <2>1. PICK i \in 1..Len(c[key].pkt_list) : c[key].pkt_list[i].pkt = pk
    BY <1>5 DEF Queued
  <2>2. Len(c[key].pkt_list) \in Nat
    BY <1>1 DEF MovedUp
  <2>3. CASE i = 1
    BY <1>1, <2>1, <2>3 DEF MovedUp
  <2>4. CASE i # 1
    <3>1. i - 1 \in Nat /\ i - 1 >= 1 /\ i <= Len(c[key].pkt_list) /\ (i - 1) + 1 = i /\ i > 1
      BY ONLY <2>1, <2>2, <2>4
    <3>2. ASSUME Len(c[key].pkt_list) = 1 PROVE FALSE
      <4>1. i <= 1
        BY ONLY <3>1, <3>2
      <4> QED
        BY ONLY <2>1, <2>2, <3>1, <4>1
    <3>3. key \in DOMAIN catalog
          /\ Len(c[key].pkt_list) = Len(catalog[key].pkt_list) + 1
      BY <1>1, <3>2 DEF MovedUp
    <3>4. Len(catalog[key].pkt_list) \in Nat
      BY <3>3 DEF Queues
    <3>5. i - 1 \in 1..Len(catalog[key].pkt_list)
      BY ONLY <3>1, <3>3, <3>4
    <3>6. c[key].pkt_list[(i - 1) + 1] = catalog[key].pkt_list[i - 1]
      BY <1>1, <3>3, <3>5 DEF MovedUp
    <3>7. catalog[key].pkt_list[i - 1].pkt = pk
      BY <2>1, <3>1, <3>6
    <3> QED
      BY <3>3, <3>5, <3>7 DEF Queued
  <2> QED
    BY <2>3, <2>4
<1> QED
  BY <1>3, <1>4, <1>5

\* A push of a packet that is not older than any other keeps the order.
LEMMA PushSorted ==
  ASSUME NEW catalog, Queues(catalog), NEW key, NEW it \in Item, NEW c,
         Pushed(key, it, c, catalog), NEW w, SortedBy(catalog, w), it.pkt.ts = w
  PROVE  SortedBy(c, w)
<1>1. Queues(c) /\ MovedUp(key, it, c, catalog)
  BY PushPositions
<1>2. w \in Nat
  BY DEF Item, Packet
<1>3. DOMAIN c = DOMAIN catalog \cup {key}
      /\ \A k \in DOMAIN catalog : k # key => c[k] = catalog[k]
  BY DEF Pushed
<1>4. ASSUME NEW k \in DOMAIN c, k # key, NEW i \in 1..Len(c[k].pkt_list),
             NEW j \in 1..Len(c[k].pkt_list)
      PROVE  /\ c[k].pkt_list[i].pkt.ts <= w
             /\ i <= j => c[k].pkt_list[j].pkt.ts <= c[k].pkt_list[i].pkt.ts
  BY <1>3, <1>4 DEF SortedBy
<1> DEFINE new == c[key].pkt_list
           old == catalog[key].pkt_list
<1>5. Len(new) \in Nat /\ new[1].pkt.ts = w
  BY <1>1 DEF MovedUp
<1>6. ASSUME NEW i \in 1..Len(new), i # 1
      PROVE  /\ key \in DOMAIN catalog /\ i \in Nat /\ i - 1 \in 1..Len(old)
             /\ new[i] = old[i - 1]
  <2>1. i - 1 \in Nat /\ i - 1 >= 1 /\ i <= Len(new) /\ (i - 1) + 1 = i /\ i \in Nat
    BY ONLY <1>5, <1>6
  <2>2. ASSUME Len(new) = 1 PROVE FALSE
    <3>1. i <= 1
      BY ONLY <2>1, <2>2
    <3> QED
      BY ONLY <1>6, <2>1, <3>1
  <2>3. key \in DOMAIN catalog /\ Len(new) = Len(old) + 1
    BY <1>1, <2>2 DEF MovedUp
  <2>4. Len(old) \in Nat
    BY <2>3 DEF Queues
  <2>5. i - 1 \in 1..Len(old)
    BY ONLY <2>1, <2>3, <2>4
  <2>6. new[(i - 1) + 1] = old[i - 1]
    BY <1>1, <2>3, <2>5 DEF MovedUp
  <2> QED
    BY <2>1, <2>3, <2>5, <2>6
<1>7. ASSUME NEW i \in 1..Len(new), NEW j \in 1..Len(new)
      PROVE  new[i].pkt.ts <= w /\ (i <= j => new[j].pkt.ts <= new[i].pkt.ts)
  <2>1. \A n \in 1..Len(new) : new[n].pkt.ts <= w
    <3> SUFFICES ASSUME NEW n \in 1..Len(new) PROVE new[n].pkt.ts <= w
      OBVIOUS
    <3>1. CASE n = 1
      BY <1>2, <1>5, <3>1
    <3>2. CASE n # 1
      BY <1>6, <3>2 DEF SortedBy
    <3> QED
      BY <3>1, <3>2
  <2>2. CASE i = 1
    BY <1>5, <2>1, <2>2
  <2>3. CASE i # 1 /\ j = 1
    <3>1. i \in Nat /\ i >= 1
      BY ONLY <1>5, <1>7
    <3>2. ~ (i <= j)
      BY ONLY <2>3, <3>1
    <3> QED
      BY <2>1, <3>2
  <2>4. CASE i # 1 /\ j # 1
    <3>1. /\ key \in DOMAIN catalog /\ i \in Nat /\ i - 1 \in 1..Len(old)
          /\ new[i] = old[i - 1]
      BY <1>6, <2>4
    <3>2. /\ j \in Nat /\ j - 1 \in 1..Len(old) /\ new[j] = old[j - 1]
      BY <1>6, <2>4
    <3>3. i <= j => i - 1 <= j - 1
      BY ONLY <3>1, <3>2
    <3>4. i - 1 <= j - 1 => old[j - 1].pkt.ts <= old[i - 1].pkt.ts
      BY <3>1, <3>2 DEF SortedBy
    <3> QED
      BY <2>1, <3>1, <3>2, <3>3, <3>4
  <2> QED
    BY <2>2, <2>3, <2>4
<1> HIDE DEF new, old
<1>8. \A i, j \in 1..Len(new) : new[i].pkt.ts <= w /\ (i <= j => new[j].pkt.ts <= new[i].pkt.ts)
  BY <1>7
<1> QED
  BY <1>4, <1>8 DEF SortedBy, new

\* A queue item points to a packet_info_t with its timestamp.
LEMMA ItemType == \A it \in Item : it.pkt \in Packet /\ it.pkt.ts \in Nat
BY DEF Item, Packet

\* The purge stops at the first valid packet from the tail: no valid packet lies behind
\* the last one it keeps, and that one is valid (traffic_stats_purge_expired_packets).
LEMMA KeptMax ==
  ASSUME NEW list \in Seq(Item), NEW e, NEW t
  PROVE  /\ \A i \in 1..Len(list) : t - list[i].pkt.ts < e => i <= KeptLength(list, e, t)
         /\ KeptLength(list, e, t) # 0 => t - list[KeptLength(list, e, t)].pkt.ts < e
<1> DEFINE V == {i \in 1..Len(list) : t - list[i].pkt.ts < e}
<1>1. CASE V = {}
  BY <1>1 DEF KeptLength
<1>2. CASE V # {}
  <2> DEFINE m == CHOOSE i \in V : \A j \in V : j <= i
  <2>1. KeptLength(list, e, t) = m
    BY <1>2 DEF KeptLength
  <2>2. Len(list) \in Nat /\ V \subseteq 1..Len(list)
    OBVIOUS
  <2>3. \A i \in 1..Len(list) : t - list[i].pkt.ts < e <=> i \in V
    OBVIOUS
  <2> HIDE DEF V
  <2>4. \E i \in V : \A j \in V : j <= i
    BY <1>2, <2>2, LargestPosition
  <2>5. m \in V /\ \A j \in V : j <= m
    BY <2>4
  <2> HIDE DEF m
  <2> QED
    BY <2>1, <2>2, <2>3, <2>5
<1> QED
  BY <1>1, <1>2

\* An update at time t leaves the packets younger than averaging_time in every record,
\* and no others.
LEMMA PurgeQueued ==
  ASSUME NEW catalog, Queues(catalog), NEW w, SortedBy(catalog, w), NEW t \in Nat,
         NEW c, PurgedTo(c, catalog, t)
  PROVE  \A k : \A pk \in Packet :
           Queued(c, k, pk) <=> Queued(catalog, k, pk) /\ t - pk.ts < AveragingTime
<1> SUFFICES ASSUME NEW k, NEW pk \in Packet
             PROVE  Queued(c, k, pk) <=> Queued(catalog, k, pk) /\ t - pk.ts < AveragingTime
  OBVIOUS
<1>1. CASE k \notin DOMAIN catalog
  BY <1>1 DEF Queued, PurgedTo
<1>2. CASE k \in DOMAIN catalog
  <2> DEFINE list == catalog[k].pkt_list
             kl == KeptLength(list, AveragingTime, t)
             left == Kept(list, AveragingTime, t)
  <2>1. list \in Seq(Item)
    BY <1>2 DEF Queues
  <2>2. /\ Len(left) = kl /\ kl \in 0..Len(list)
        /\ \A i \in 1..kl : left[i] = list[i]
    BY <2>1, KeptPositions
  <2>3. /\ \A i \in 1..Len(list) : t - list[i].pkt.ts < AveragingTime => i <= kl
        /\ kl # 0 => t - list[kl].pkt.ts < AveragingTime
    BY <2>1, KeptMax
  <2>4. k \in DOMAIN c => c[k].pkt_list = left
    BY DEF PurgedTo
  <2>5. k \notin DOMAIN c => left = << >>
    BY <1>2 DEF PurgedTo
  <2>6. \A i, j \in 1..Len(list) : i <= j => list[j].pkt.ts <= list[i].pkt.ts
    BY <1>2 DEF SortedBy
  <2>7. \A i \in 1..Len(list) : list[i].pkt \in Packet /\ list[i].pkt.ts \in Nat
    <3>1. \A i \in 1..Len(list) : list[i] \in Item
      BY <2>1
    <3> QED
      BY <3>1, ItemType
  <2>8. Queued(catalog, k, pk) <=> \E i \in 1..Len(list) : list[i].pkt = pk
    BY <1>2 DEF Queued
  <2>9. Len(list) \in Nat /\ AveragingTime \in Nat
    BY <2>1, TrafficAssumption
  <2> HIDE DEF list, kl, left
  <2>10. ASSUME Queued(c, k, pk)
         PROVE  Queued(catalog, k, pk) /\ t - pk.ts < AveragingTime
    <3>1. PICK i \in 1..Len(left) : left[i].pkt = pk
      BY <2>4, <2>10 DEF Queued
    <3>2. i \in 1..Len(list) /\ kl \in 1..Len(list) /\ i <= kl /\ list[i].pkt = pk
      BY <2>2, <2>9, <3>1
    <3>3. list[kl].pkt.ts <= list[i].pkt.ts /\ kl # 0
      BY <2>6, <3>2
    <3>4. t - list[kl].pkt.ts < AveragingTime
      BY <2>3, <3>3
    <3>5. list[kl].pkt.ts \in Nat /\ list[i].pkt.ts \in Nat
      BY <2>7, <3>2
    <3>6. t - list[i].pkt.ts < AveragingTime
      <4>1. \A a, b, u, v \in Int : b <= a /\ u - b < v => u - a < v
        OBVIOUS
      <4>2. t \in Int /\ AveragingTime \in Int
        BY <2>9
      <4> QED
        BY <3>3, <3>4, <3>5, <4>1, <4>2
    <3> QED
      BY <2>8, <3>2, <3>6
  <2>11. ASSUME Queued(catalog, k, pk), t - pk.ts < AveragingTime
         PROVE  Queued(c, k, pk)
    <3>1. PICK i \in 1..Len(list) : list[i].pkt = pk
      BY <2>8, <2>11
    <3>2. i <= kl
      BY <2>3, <2>11, <3>1
    <3>3. i \in 1..kl /\ kl # 0
      BY <2>2, <2>9, <3>1, <3>2
    <3>4. left[i].pkt = pk /\ i \in 1..Len(left)
      BY <2>2, <3>1, <3>3
    <3>5. k \in DOMAIN c
      <4>1. left = << >> => Len(left) = 0
        OBVIOUS
      <4> QED
        BY <2>2, <2>5, <3>3, <4>1
    <3> QED
      BY <2>4, <3>4, <3>5 DEF Queued
  <2> QED
    BY <2>10, <2>11
<1> QED
  BY <1>1, <1>2

\* A purge keeps the order.
LEMMA PurgeSorted ==
  ASSUME NEW catalog, Queues(catalog), NEW w, SortedBy(catalog, w), NEW t,
         NEW c, PurgedTo(c, catalog, t)
  PROVE  SortedBy(c, w)
<1> SUFFICES ASSUME NEW k \in DOMAIN c, NEW i \in 1..Len(c[k].pkt_list),
                    NEW j \in 1..Len(c[k].pkt_list)
             PROVE  /\ c[k].pkt_list[i].pkt.ts <= w
                    /\ i <= j => c[k].pkt_list[j].pkt.ts <= c[k].pkt_list[i].pkt.ts
  BY DEF SortedBy
<1> DEFINE list == catalog[k].pkt_list
<1>1. k \in DOMAIN catalog /\ c[k].pkt_list = Kept(list, AveragingTime, t)
  BY DEF PurgedTo
<1>2. list \in Seq(Item)
  BY <1>1 DEF Queues
<1>3. \A m, n \in 1..Len(list) : /\ list[m].pkt.ts <= w
                                 /\ m <= n => list[n].pkt.ts <= list[m].pkt.ts
  BY <1>1 DEF SortedBy
<1> HIDE DEF list
<1>4. /\ Len(c[k].pkt_list) = KeptLength(list, AveragingTime, t)
      /\ KeptLength(list, AveragingTime, t) \in 0..Len(list)
      /\ \A m \in 1..KeptLength(list, AveragingTime, t) : c[k].pkt_list[m] = list[m]
  BY <1>1, <1>2, KeptPositions
<1>5. /\ i \in 1..Len(list) /\ c[k].pkt_list[i] = list[i]
      /\ j \in 1..Len(list) /\ c[k].pkt_list[j] = list[j]
  BY <1>2, <1>4
<1> QED
  BY <1>3, <1>5

\* As the clock runs on, what was queued by then stays queued by then.
LEMMA SortedLater ==
  ASSUME NEW catalog, Queues(catalog), NEW w \in Nat, SortedBy(catalog, w),
         NEW v \in Nat, w <= v
  PROVE  SortedBy(catalog, v)
<1>1. \A k \in DOMAIN catalog : \A i \in 1..Len(catalog[k].pkt_list) :
        catalog[k].pkt_list[i].pkt.ts \in Nat
  <2>1. \A k \in DOMAIN catalog : \A i \in 1..Len(catalog[k].pkt_list) :
          catalog[k].pkt_list[i] \in Item
    BY DEF Queues
  <2> QED
    BY <2>1, ItemType
<1>2. \A k \in DOMAIN catalog : \A i \in 1..Len(catalog[k].pkt_list) :
        catalog[k].pkt_list[i].pkt.ts <= v
  BY <1>1 DEF SortedBy
<1> QED
  BY <1>2 DEF SortedBy

\* Every queue is ordered by time, and none is ahead of the clock.
AllSorted ==
  now <= wall /\ SortedBy(nodes, wall) /\ SortedBy(links, wall)
  /\ SortedBy(SummaryCatalog, wall)

\* The summary queues what some link queues.
SummaryAsLinks ==
  \A pk \in Packet :
    Queued(SummaryCatalog, "protosummary", pk) <=> \E l \in DOMAIN links : Queued(links, l, pk)

\* Both ends of a link queue its packets; while the nodes of an update are purged and the
\* links are not, this holds of the packets that are still valid.
EndsHoldPackets ==
  \A l \in DOMAIN links : \A pk \in Packet :
    Queued(links, l, pk) /\ (phase = "canvas" => now - pk.ts < AveragingTime) =>
      Queued(nodes, l[1], pk) /\ Queued(nodes, l[2], pk)

TimeInv == MemInv /\ AllSorted /\ SummaryAsLinks /\ EndsHoldPackets

\* What the proofs about single steps use of the invariant.
LEMMA TimeInvFacts ==
  ASSUME TimeInv
  PROVE  /\ Queues(nodes) /\ Queues(links) /\ Queues(SummaryCatalog)
         /\ wall \in Nat /\ now \in Nat /\ AveragingTime \in Nat /\ MemInv
BY SummaryQueues, TrafficAssumption DEF TimeInv, MemInv, IInv, TypeOK, Queues

\* An empty catalog is ordered and queues no packet.
LEMMA EmptySorted ==
  ASSUME NEW c, \A k \in DOMAIN c : c[k].pkt_list = << >>
  PROVE  (\A w : SortedBy(c, w)) /\ \A k, pk : ~Queued(c, k, pk)
<1>1. \A k \in DOMAIN c : 1..Len(c[k].pkt_list) = {}
  OBVIOUS
<1> QED
  BY <1>1 DEF SortedBy, Queued

\* packet_acquired: the packet is the newest of all, and goes to both ends, link and summary.
LEMMA GetPacketTime ==
  ASSUME MaxLag = 0, TimeInv, NEW src \in Node, NEW dst \in Node, GetPacket(src, dst)
  PROVE  AllSorted' /\ SummaryAsLinks' /\ EndsHoldPackets'
<1>1. PICK t \in (wall - MaxLag)..wall, size \in Sizes, names \in NameStacks :
        /\ t >= 0
        /\ now' = t
        /\ PacketAcquired(src, dst,
             [id |-> n_packets + 1, size |-> size, ts |-> t, names |-> names])
  BY DEF GetPacket
<1> DEFINE pkt == [id |-> n_packets + 1, size |-> size, ts |-> t, names |-> names]
           item(dir) == [pkt |-> pkt, direction |-> dir]
           c1 == AddTo(nodes, src, pkt, "OUTBOUND", t)
           c2 == AddTo(c1, dst, pkt, "INBOUND", t)
           ldir == IF src <= dst THEN "OUTBOUND" ELSE "INBOUND"
           L == LinkId(src, dst)
<1>2. /\ wall \in Nat /\ now \in Nat /\ n_packets \in Nat /\ AveragingTime \in Nat
      /\ Queues(nodes) /\ Queues(links) /\ Queues(SummaryCatalog)
  BY TimeInvFacts DEF MemInv, IInv, TypeOK
<1>3. t = wall
  BY <1>1, <1>2
<1>4. pkt \in Packet /\ pkt.ts = wall
  BY <1>1, <1>2, <1>3 DEF Packet
<1>5. "OUTBOUND" \in Directions /\ "INBOUND" \in Directions /\ "EITHERBOUND" \in Directions
      /\ ldir \in Directions
  BY DEF Directions
<1>6. /\ wall' = wall /\ now' = wall /\ phase' = phase /\ nodes' = c2
      /\ links' = AddTo(links, L, pkt, ldir, t)
      /\ summary' = TrafficAddPacket(summary, pkt, "EITHERBOUND", t)
  BY <1>1, <1>3 DEF PacketAcquired, GetPacket, loopVars
<1> HIDE DEF pkt
<1>7. \A dir \in Directions : item(dir) \in Item /\ item(dir).pkt = pkt
  BY <1>4 DEF Item
<1>8. Pushed(src, item("OUTBOUND"), c1, nodes)
  BY AddToPushes
<1> HIDE DEF c1
<1>9. Pushed(dst, item("INBOUND"), nodes', c1)
  BY <1>6, AddToPushes
<1>10. Pushed(L, item(ldir), links', links)
  BY <1>6, AddToPushes
<1>11. Pushed("protosummary", item("EITHERBOUND"), SummaryCatalog', SummaryCatalog)
  <2>1. summary'.pkt_list = << item("EITHERBOUND") >> \o summary.pkt_list
    BY <1>6 DEF TrafficAddPacket, Enqueue
  <2>2. /\ DOMAIN SummaryCatalog = {"protosummary"}
        /\ SummaryCatalog["protosummary"].pkt_list = summary.pkt_list
        /\ DOMAIN SummaryCatalog' = {"protosummary"}
        /\ SummaryCatalog'["protosummary"] = summary'
    BY DEF SummaryCatalog
  <2> QED
    BY <2>1, <2>2 DEF Pushed
<1> HIDE DEF c2, ldir, item
<1>12. Queues(c1)
  BY <1>2, <1>5, <1>7, <1>8, PushPositions
<1>13. AllSorted'
  <2>1. SortedBy(nodes, wall) /\ SortedBy(links, wall) /\ SortedBy(SummaryCatalog, wall)
    BY DEF TimeInv, AllSorted
  <2>2. SortedBy(c1, wall)
    BY <1>2, <1>4, <1>5, <1>7, <1>8, <2>1, PushSorted
  <2>3. SortedBy(nodes', wall)
    BY <1>4, <1>5, <1>7, <1>9, <1>12, <2>2, PushSorted
  <2>4. SortedBy(links', wall)
    BY <1>2, <1>4, <1>5, <1>7, <1>10, <2>1, PushSorted
  <2>5. SortedBy(SummaryCatalog', wall)
    BY <1>2, <1>4, <1>5, <1>7, <1>11, <2>1, PushSorted
  <2> QED
    BY <1>2, <1>6, <2>3, <2>4, <2>5 DEF AllSorted
<1>14. \A k, pk : Queued(nodes', k, pk) <=> Queued(nodes, k, pk) \/ (k \in {src, dst} /\ pk = pkt)
  <2>1. \A k, pk : Queued(c1, k, pk) <=> Queued(nodes, k, pk) \/ (k = src /\ pk = pkt)
    BY <1>2, <1>5, <1>7, <1>8, PushQueued
  <2>2. \A k, pk : Queued(nodes', k, pk) <=> Queued(c1, k, pk) \/ (k = dst /\ pk = pkt)
    BY <1>5, <1>7, <1>9, <1>12, PushQueued
  <2> QED
    BY <2>1, <2>2
<1>15. \A k, pk : Queued(links', k, pk) <=> Queued(links, k, pk) \/ (k = L /\ pk = pkt)
  BY <1>2, <1>5, <1>7, <1>10, PushQueued
<1>16. \A pk : Queued(SummaryCatalog', "protosummary", pk)
                 <=> Queued(SummaryCatalog, "protosummary", pk) \/ pk = pkt
  BY <1>2, <1>5, <1>7, <1>11, PushQueued
<1>17. DOMAIN links' = DOMAIN links \cup {L}
  BY <1>10 DEF Pushed
<1>18. SummaryAsLinks'
  <2> SUFFICES ASSUME NEW pk \in Packet
               PROVE  Queued(SummaryCatalog', "protosummary", pk)
                        <=> \E l \in DOMAIN links' : Queued(links', l, pk)
    BY DEF SummaryAsLinks
  <2>1. Queued(SummaryCatalog, "protosummary", pk)
          <=> \E l \in DOMAIN links : Queued(links, l, pk)
    BY DEF TimeInv, SummaryAsLinks
  <2>2. \A l : Queued(links', l, pk) <=> Queued(links, l, pk) \/ (l = L /\ pk = pkt)
    BY <1>15
  <2>3. \A l : Queued(links, l, pk) => l \in DOMAIN links
    BY DEF Queued
  <2> HIDE DEF L
  <2> QED
    BY <1>16, <1>17, <2>1, <2>2, <2>3
<1>19. EndsHoldPackets'
  <2> SUFFICES ASSUME NEW l \in DOMAIN links', NEW pk \in Packet, Queued(links', l, pk),
                      phase = "canvas" => wall - pk.ts < AveragingTime
               PROVE  Queued(nodes', l[1], pk) /\ Queued(nodes', l[2], pk)
    BY <1>6 DEF EndsHoldPackets
  <2>1. CASE l = L /\ pk = pkt
    <3>1. l[1] \in {src, dst} /\ l[2] \in {src, dst}
      BY <2>1 DEF LinkId
    <3> QED
      BY <1>14, <2>1, <3>1
  <2>2. CASE Queued(links, l, pk)
    <3>1. now <= wall /\ pk.ts \in Nat
      BY DEF TimeInv, AllSorted, Packet
    <3>2. wall - pk.ts < AveragingTime => now - pk.ts < AveragingTime
      BY <1>2, <3>1
    <3>3. l \in DOMAIN links
      BY <2>2 DEF Queued
    <3>4. Queued(nodes, l[1], pk) /\ Queued(nodes, l[2], pk)
      BY <2>2, <3>2, <3>3 DEF TimeInv, EndsHoldPackets
    <3> QED
      BY <1>14, <3>4
  <2> QED
    BY <1>15, <2>1, <2>2
<1> QED
  BY <1>13, <1>18, <1>19

\* The first part of an update takes from the nodes only what has expired.
LEMMA UpdateNodesTime ==
  ASSUME TimeInv, UpdateNodes
  PROVE  AllSorted' /\ SummaryAsLinks' /\ EndsHoldPackets'
<1>1. /\ wall' = wall /\ now' = wall /\ phase = "idle" /\ phase' = "canvas"
      /\ UNCHANGED <<links, summary>>
  BY DEF UpdateNodes
<1>2. SummaryCatalog' = SummaryCatalog
  BY <1>1 DEF SummaryCatalog
<1>3. Queues(nodes) /\ wall \in Nat /\ SortedBy(nodes, wall) /\ PurgedTo(nodes', nodes, wall)
  BY TimeInvFacts, NodesPurged DEF TimeInv, AllSorted
<1>4. SortedBy(nodes', wall)
  BY <1>3, PurgeSorted
<1>5. AllSorted' /\ SummaryAsLinks'
  BY <1>1, <1>2, <1>3, <1>4 DEF TimeInv, AllSorted, SummaryAsLinks
<1>6. ASSUME NEW l \in DOMAIN links, NEW pk \in Packet, Queued(links, l, pk),
             wall - pk.ts < AveragingTime
      PROVE  Queued(nodes', l[1], pk) /\ Queued(nodes', l[2], pk)
  <2>1. Queued(nodes, l[1], pk) /\ Queued(nodes, l[2], pk)
    BY <1>1, <1>6 DEF TimeInv, EndsHoldPackets
  <2>2. \A k : Queued(nodes', k, pk) <=> Queued(nodes, k, pk) /\ wall - pk.ts < AveragingTime
    BY <1>3, PurgeQueued
  <2> QED
    BY <1>6, <2>1, <2>2
<1> QED
  BY <1>1, <1>5, <1>6 DEF EndsHoldPackets

\* The second part takes from links and summary alike what has expired since, which is all
\* that the first part took from the nodes, and perhaps more.
LEMMA UpdateLinksTime ==
  ASSUME TimeInv, UpdateLinks
  PROVE  AllSorted' /\ SummaryAsLinks' /\ EndsHoldPackets'
<1>1. /\ wall' = wall /\ now' \in {now, wall} /\ phase = "canvas" /\ phase' = "redraw"
      /\ nodes' = nodes
  BY DEF UpdateLinks
<1>2. /\ Queues(links) /\ Queues(SummaryCatalog) /\ now \in Nat /\ wall \in Nat
      /\ SortedBy(links, wall) /\ SortedBy(SummaryCatalog, wall)
      /\ PurgedTo(links', links, now) /\ PurgedTo(SummaryCatalog', SummaryCatalog, now)
  BY TimeInvFacts, LinksPurged DEF TimeInv, AllSorted
<1>3. SortedBy(links', wall) /\ SortedBy(SummaryCatalog', wall)
  BY <1>2, PurgeSorted
<1>4. AllSorted'
  BY <1>1, <1>2, <1>3 DEF TimeInv, AllSorted
<1>5. \A k : \A pk \in Packet :
        Queued(links', k, pk) <=> Queued(links, k, pk) /\ now - pk.ts < AveragingTime
  BY <1>2, PurgeQueued
<1>6. \A k : \A pk \in Packet :
        Queued(SummaryCatalog', k, pk)
          <=> Queued(SummaryCatalog, k, pk) /\ now - pk.ts < AveragingTime
  BY <1>2, PurgeQueued
<1>7. SummaryAsLinks'
  <2> SUFFICES ASSUME NEW pk \in Packet
               PROVE  Queued(SummaryCatalog', "protosummary", pk)
                        <=> \E l \in DOMAIN links' : Queued(links', l, pk)
    BY DEF SummaryAsLinks
  <2>1. Queued(SummaryCatalog, "protosummary", pk)
          <=> \E l \in DOMAIN links : Queued(links, l, pk)
    BY DEF TimeInv, SummaryAsLinks
  <2>2. \A l : Queued(links', l, pk) <=> Queued(links, l, pk) /\ now - pk.ts < AveragingTime
    BY <1>5
  <2>3. Queued(SummaryCatalog', "protosummary", pk)
          <=> Queued(SummaryCatalog, "protosummary", pk) /\ now - pk.ts < AveragingTime
    BY <1>6
  <2> QED
    BY <2>1, <2>2, <2>3 DEF Queued
<1>8. ASSUME NEW l \in DOMAIN links', NEW pk \in Packet, Queued(links', l, pk)
      PROVE  Queued(nodes, l[1], pk) /\ Queued(nodes, l[2], pk)
  <2>1. Queued(links, l, pk) /\ now - pk.ts < AveragingTime
    BY <1>5, <1>8
  <2>2. l \in DOMAIN links
    BY <2>1 DEF Queued
  <2> QED
    BY <2>1, <2>2 DEF TimeInv, EndsHoldPackets
<1> QED
  BY <1>1, <1>4, <1>7, <1>8 DEF EndsHoldPackets

\* Opening and closing the catalogs empties them all.
LEMMA EmptiedTime ==
  ASSUME wall' \in Nat, now' \in {now, wall}, now <= wall, wall' = wall,
         nodes' = EmptyCatalog, links' = EmptyCatalog, summary'.pkt_list = << >>
  PROVE  AllSorted' /\ SummaryAsLinks' /\ EndsHoldPackets'
<1>1. /\ \A k \in DOMAIN nodes' : nodes'[k].pkt_list = << >>
      /\ \A k \in DOMAIN links' : links'[k].pkt_list = << >>
      /\ \A k \in DOMAIN SummaryCatalog' : SummaryCatalog'[k].pkt_list = << >>
  BY DEF EmptyCatalog, SummaryCatalog
<1>2. /\ SortedBy(nodes', wall') /\ SortedBy(links', wall') /\ SortedBy(SummaryCatalog', wall')
      /\ \A k, pk : ~Queued(links', k, pk) /\ ~Queued(SummaryCatalog', k, pk)
  BY <1>1, EmptySorted
<1> QED
  BY <1>2 DEF AllSorted, SummaryAsLinks, EndsHoldPackets

\* stop_capture and start_capture.
LEMMA CommandsTime ==
  ASSUME TimeInv, StopCapture \/ StartCapture
  PROVE  AllSorted' /\ SummaryAsLinks' /\ EndsHoldPackets'
<1>1. wall \in Nat /\ now \in Nat /\ now <= wall
  BY TimeInvFacts DEF TimeInv, AllSorted
<1>2. CASE StopCapture
  <2>1. /\ wall' = wall /\ now' = wall /\ nodes' = EmptyCatalog /\ links' = EmptyCatalog
        /\ summary'.pkt_list = << >>
    BY <1>2 DEF StopCapture, TrafficInit
  <2> QED
    BY <1>1, <2>1, EmptiedTime
<1>3. CASE StartCapture /\ capture_status = "STOP"
  <2>1. /\ wall' = wall /\ now' = now /\ nodes' = EmptyCatalog /\ links' = EmptyCatalog
        /\ summary'.pkt_list = << >>
    BY <1>3 DEF StartCapture, TrafficInit
  <2> QED
    BY <1>1, <2>1, EmptiedTime
<1>4. CASE StartCapture /\ capture_status # "STOP"
  <2>1. UNCHANGED <<wall, now, nodes, links, summary, phase>>
    BY <1>4 DEF StartCapture, loopVars
  <2>2. SummaryCatalog' = SummaryCatalog
    BY <2>1 DEF SummaryCatalog
  <2> QED
    BY <2>1, <2>2 DEF TimeInv, AllSorted, SummaryAsLinks, EndsHoldPackets
<1> QED
  BY <1>2, <1>3, <1>4

\* The other steps read the clock at most, and it runs on.
LEMMA OtherStepsTime ==
  ASSUME TimeInv,
         \/ CanvasNodeUpdate \/ RedrawDone \/ PauseCapture \/ UpdateInfoWindows \/ Tick
         \/ UNCHANGED vars
  PROVE  AllSorted' /\ SummaryAsLinks' /\ EndsHoldPackets'
<1>1. /\ UNCHANGED <<nodes, links, summary>>
      /\ wall' \in {wall, wall + 1} /\ now' \in {now, wall}
      /\ phase' = phase \/ (phase = "redraw" /\ phase' = "idle")
  BY DEF CanvasNodeUpdate, RedrawDone, PauseCapture, UpdateInfoWindows, Tick, vars, catVars,
         loopVars
<1>2. SummaryCatalog' = SummaryCatalog
  BY <1>1 DEF SummaryCatalog
<1>3. /\ Queues(nodes) /\ Queues(links) /\ Queues(SummaryCatalog)
      /\ wall \in Nat /\ now \in Nat /\ AveragingTime \in Nat
      /\ now <= wall /\ SortedBy(nodes, wall) /\ SortedBy(links, wall)
      /\ SortedBy(SummaryCatalog, wall)
  BY TimeInvFacts DEF TimeInv, AllSorted
<1>4. wall' \in Nat /\ wall <= wall' /\ now' <= wall' /\ now' \in Nat /\ now <= now'
  BY <1>1, <1>3
<1>5. SortedBy(nodes, wall') /\ SortedBy(links, wall') /\ SortedBy(SummaryCatalog, wall')
  BY <1>3, <1>4, SortedLater
<1>6. AllSorted'
  BY <1>1, <1>2, <1>4, <1>5 DEF AllSorted
<1>7. SummaryAsLinks'
  BY <1>1, <1>2 DEF TimeInv, SummaryAsLinks
<1>8. EndsHoldPackets'
  <2> SUFFICES ASSUME NEW l \in DOMAIN links, NEW pk \in Packet, Queued(links, l, pk),
                      phase' = "canvas" => now' - pk.ts < AveragingTime
               PROVE  Queued(nodes, l[1], pk) /\ Queued(nodes, l[2], pk)
    BY <1>1 DEF EndsHoldPackets
  <2>1. pk.ts \in Nat
    BY DEF Packet
  <2>2. now' - pk.ts < AveragingTime => now - pk.ts < AveragingTime
    BY <1>3, <1>4, <2>1
  <2>3. phase = "canvas" => phase' = "canvas"
    BY <1>1
  <2> QED
    BY <2>2, <2>3 DEF TimeInv, EndsHoldPackets
<1> QED
  BY <1>6, <1>7, <1>8

\* Before the first capture all queues are empty.
LEMMA InitTimeInv == Init => TimeInv
<1> SUFFICES ASSUME Init PROVE TimeInv
  OBVIOUS
<1>1. /\ \A k \in DOMAIN nodes : nodes[k].pkt_list = << >>
      /\ \A k \in DOMAIN links : links[k].pkt_list = << >>
      /\ \A k \in DOMAIN SummaryCatalog : SummaryCatalog[k].pkt_list = << >>
      /\ now <= wall
  BY DEF Init, EmptyCatalog, SummaryCatalog, TrafficInit
<1>2. /\ SortedBy(nodes, wall) /\ SortedBy(links, wall) /\ SortedBy(SummaryCatalog, wall)
      /\ \A k, pk : ~Queued(links, k, pk) /\ ~Queued(SummaryCatalog, k, pk)
  BY <1>1, EmptySorted
<1> QED
  BY <1>1, <1>2, InitMemInv DEF TimeInv, AllSorted, SummaryAsLinks, EndsHoldPackets

\* Every step keeps order and agreement.
LEMMA NextTimeInv == MaxLag = 0 /\ TimeInv /\ [Next]_vars => TimeInv'
<1> SUFFICES ASSUME MaxLag = 0, TimeInv, [Next]_vars PROVE TimeInv'
  OBVIOUS
<1>1. MemInv'
  BY NextMemInv DEF TimeInv
<1>2. CASE \E src, dst \in Node : GetPacket(src, dst)
  BY <1>1, <1>2, GetPacketTime DEF TimeInv
<1>3. CASE UpdateNodes
  BY <1>1, <1>3, UpdateNodesTime DEF TimeInv
<1>4. CASE UpdateLinks
  BY <1>1, <1>4, UpdateLinksTime DEF TimeInv
<1>5. CASE StopCapture \/ StartCapture
  BY <1>1, <1>5, CommandsTime DEF TimeInv
<1>6. CASE \/ CanvasNodeUpdate \/ RedrawDone \/ PauseCapture \/ UpdateInfoWindows \/ Tick
           \/ UNCHANGED vars
  BY <1>1, <1>6, OtherStepsTime DEF TimeInv
<1> QED
  BY <1>2, <1>3, <1>4, <1>5, <1>6 DEF Next

\* What a purge leaves of an ordered queue is fresh.
LEMMA PurgeFresh ==
  ASSUME NEW catalog, Queues(catalog), NEW w, SortedBy(catalog, w), NEW t \in Nat,
         NEW c, PurgedTo(c, catalog, t)
  PROVE  \A k \in DOMAIN c : Fresh(c[k].pkt_list, t)
<1>1. Queues(c)
  BY KeptType DEF PurgedTo, Queues
<1> SUFFICES ASSUME NEW k \in DOMAIN c, NEW it \in ToSet(c[k].pkt_list)
             PROVE  t - it.pkt.ts < AveragingTime
  BY DEF Fresh
<1>2. PICK i \in 1..Len(c[k].pkt_list) : it = c[k].pkt_list[i]
  BY <1>1 DEF ToSet, Queues
<1>3. it.pkt \in Packet /\ Queued(c, k, it.pkt)
  BY <1>1, <1>2, ItemType DEF Queues, Queued
<1> QED
  BY <1>3, PurgeQueued

\* traffic_stats_purge_expired_packets: when timestamps never run backwards, an update
\* leaves no packet older than averaging_time in a queue it aged, though the purge stops
\* at the first packet from the tail that is still valid.
THEOREM NothingOldIsLeft == ASSUME MaxLag = 0 PROVE Spec => UpdateDropsAllExpired
<1>1. TimeInv /\ [Next]_vars =>
        [ /\ (phase = "idle" /\ phase' = "canvas") =>
               \A n \in DOMAIN nodes' : Fresh(nodes'[n].pkt_list, now')
          /\ (phase = "canvas" /\ phase' = "redraw") =>
               /\ Fresh(summary'.pkt_list, now)
               /\ \A l \in DOMAIN links' : Fresh(links'[l].pkt_list, now) ]_vars
  <2> SUFFICES ASSUME TimeInv, Next
               PROVE  /\ (phase = "idle" /\ phase' = "canvas") =>
                            \A n \in DOMAIN nodes' : Fresh(nodes'[n].pkt_list, now')
                      /\ (phase = "canvas" /\ phase' = "redraw") =>
                            /\ Fresh(summary'.pkt_list, now)
                            /\ \A l \in DOMAIN links' : Fresh(links'[l].pkt_list, now)
    OBVIOUS
  <2>1. CASE UpdateNodes
    <3>1. /\ Queues(nodes) /\ wall \in Nat /\ SortedBy(nodes, wall)
          /\ PurgedTo(nodes', nodes, wall)
      BY <2>1, TimeInvFacts, NodesPurged DEF TimeInv, AllSorted
    <3>2. \A n \in DOMAIN nodes' : Fresh(nodes'[n].pkt_list, wall)
      BY <3>1, PurgeFresh
    <3> QED
      BY <2>1, <3>2 DEF UpdateNodes
  <2>2. CASE UpdateLinks
    <3>1. /\ Queues(links) /\ Queues(SummaryCatalog) /\ now \in Nat
          /\ SortedBy(links, wall) /\ SortedBy(SummaryCatalog, wall)
          /\ PurgedTo(links', links, now) /\ PurgedTo(SummaryCatalog', SummaryCatalog, now)
      BY <2>2, TimeInvFacts, LinksPurged DEF TimeInv, AllSorted
    <3>2. /\ \A l \in DOMAIN links' : Fresh(links'[l].pkt_list, now)
          /\ \A k \in DOMAIN SummaryCatalog' : Fresh(SummaryCatalog'[k].pkt_list, now)
      BY <3>1, PurgeFresh
    <3>3. Fresh(summary'.pkt_list, now)
      BY <3>2 DEF SummaryCatalog
    <3> QED
      BY <2>2, <3>2, <3>3 DEF UpdateLinks
  <2>3. CASE \/ \E src, dst \in Node : GetPacket(src, dst)
             \/ CanvasNodeUpdate \/ RedrawDone \/ StartCapture \/ PauseCapture
             \/ UpdateInfoWindows \/ Tick
    BY <2>3 DEF GetPacket, CanvasNodeUpdate, RedrawDone, StartCapture, PauseCapture,
                UpdateInfoWindows, Tick, loopVars
  <2>4. CASE StopCapture
    BY <2>4 DEF StopCapture, StopAllowed
  <2> QED
    BY <2>1, <2>2, <2>3, <2>4 DEF Next
<1>2. Spec => []TimeInv
  BY InitTimeInv, NextTimeInv, PTL DEF Spec
<1> QED
  BY <1>1, <1>2, PTL DEF Spec, UpdateDropsAllExpired

\* When timestamps never run backwards, an update takes the same packets out of summary and
\* links, and no packet out of an end node that it leaves on the link, though packets
\* arrive between the aging of the nodes and that of the links.
THEOREM ViewsAlwaysAgree == ASSUME MaxLag = 0 PROVE Spec => []ViewsAgree
<1>1. TimeInv => ViewsAgree
  <2> SUFFICES ASSUME TimeInv, phase # "canvas"
               PROVE  /\ Ids(summary.pkt_list)
                           = UNION {Ids(links[l].pkt_list) : l \in DOMAIN links}
                      /\ \A l \in DOMAIN links : \A p \in Ids(links[l].pkt_list) :
                           \A i \in {1, 2} : /\ l[i] \in DOMAIN nodes
                                             /\ p \in Ids(nodes[l[i]].pkt_list)
    BY DEF ViewsAgree
  <2>1. /\ Queues(nodes) /\ Queues(links) /\ Queues(SummaryCatalog)
        /\ summary.pkt_list \in Seq(Item)
    BY TimeInvFacts DEF MemInv, IInv, TypeOK
  <2>2. ASSUME NEW catalog, Queues(catalog), NEW k \in DOMAIN catalog
        PROVE  \A p : p \in Ids(catalog[k].pkt_list)
                        <=> \E pk \in Packet : Queued(catalog, k, pk) /\ pk.id = p
    <3> DEFINE list == catalog[k].pkt_list
    <3>1. list \in Seq(Item)
      BY <2>2 DEF Queues
    <3>2. \A pk : Queued(catalog, k, pk) <=> \E i \in 1..Len(list) : list[i].pkt = pk
      BY DEF Queued
    <3> HIDE DEF list
    <3>3. \A i \in 1..Len(list) : list[i].pkt \in Packet
      BY <3>1, ItemType
    <3>4. \A p : p \in Ids(list) <=> \E i \in 1..Len(list) : list[i].pkt.id = p
      BY <3>1 DEF Ids, ToSet
    <3> QED
      BY <3>2, <3>3, <3>4 DEF list
  <2>3. \A p : p \in Ids(summary.pkt_list)
                 <=> \E pk \in Packet : Queued(SummaryCatalog, "protosummary", pk) /\ pk.id = p
    <3>1. DOMAIN SummaryCatalog = {"protosummary"} /\ SummaryCatalog["protosummary"] = summary
      BY SummaryQueues
    <3> QED
      BY <2>1, <2>2, <3>1
  <2>4. \A l \in DOMAIN links : \A p : p \in Ids(links[l].pkt_list)
                 <=> \E pk \in Packet : Queued(links, l, pk) /\ pk.id = p
    BY <2>1, <2>2
  <2>5. \A n \in DOMAIN nodes : \A p : p \in Ids(nodes[n].pkt_list)
                 <=> \E pk \in Packet : Queued(nodes, n, pk) /\ pk.id = p
    BY <2>1, <2>2
  <2>6. Ids(summary.pkt_list) = UNION {Ids(links[l].pkt_list) : l \in DOMAIN links}
    <3>1. \A p : p \in Ids(summary.pkt_list)
                   <=> \E l \in DOMAIN links : p \in Ids(links[l].pkt_list)
      BY <2>3, <2>4 DEF TimeInv, SummaryAsLinks
    <3> QED
      BY <3>1
  <2>7. ASSUME NEW l \in DOMAIN links, NEW p \in Ids(links[l].pkt_list), NEW i \in {1, 2}
        PROVE  l[i] \in DOMAIN nodes /\ p \in Ids(nodes[l[i]].pkt_list)
    <3>1. PICK pk \in Packet : Queued(links, l, pk) /\ pk.id = p
      BY <2>4, <2>7
    <3>2. Queued(nodes, l[1], pk) /\ Queued(nodes, l[2], pk)
      BY <3>1 DEF TimeInv, EndsHoldPackets
    <3>3. Queued(nodes, l[i], pk)
      BY <3>2
    <3>4. l[i] \in DOMAIN nodes
      BY <3>3 DEF Queued
    <3> QED
      BY <2>5, <3>1, <3>3, <3>4
  <2> QED
    BY <2>6, <2>7
<1>2. Spec => []TimeInv
  BY InitTimeInv, NextTimeInv, PTL DEF Spec
<1> QED
  BY <1>1, <1>2, PTL
=============================================================================
