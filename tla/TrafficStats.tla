---------------------------- MODULE TrafficStats ----------------------------
(***************************************************************************)
(* The accounting record that EtherApe keeps for every node, every link    *)
(* and for the protocol summary: traffic_stats_t, with the basic_stats_t   *)
(* counters and the per-level protocol stack inside it.  Everything here   *)
(* is a pure operator on records; the state that holds these records is in *)
(* module Traffic.                                                         *)
(*                                                                         *)
(* A packet is [id, size, ts, names].  id stands for the address of its    *)
(* packet_info_t, names for protonames[1..STACK_SIZE] as decoded, lowest   *)
(* layer first and without gaps (decode_proto_add appends).                *)
(*                                                                         *)
(* An operator whose comment starts with "Mutant" is a deliberately wrong  *)
(* variant of the operator below it; a property must notice it.            *)
(***************************************************************************)
EXTENDS Integers, FiniteSets, Sequences, SequencesExt

Directions == {"INBOUND", "OUTBOUND", "EITHERBOUND"}

-----------------------------------------------------------------------------
(* basic_stats_t.  avg_size is left out: it is accumulated / accu_packets. *)

BasicReset(now) ==
  [average |-> 0, aver_accu |-> 0, accumulated |-> 0, accu_packets |-> 0,
   last_time |-> now]

BasicAdd(st, val, now) ==
  [st EXCEPT !.accumulated  = @ + val,
             !.aver_accu    = @ + val,
             !.accu_packets = @ + 1,
             !.last_time    = now]

\* Mutant: the average of a class that has run empty is kept.
BasicSubKeepsAverage(st, val) == [st EXCEPT !.aver_accu = @ - val]

BasicSub(st, val) ==
  [st EXCEPT !.aver_accu = @ - val,
             !.average   = IF st.aver_accu = val THEN 0 ELSE @]

\* bytes per ms window, in bits per second
BasicAvg(st, ms) ==
  IF ms = 0 THEN st ELSE [st EXCEPT !.average = (8000 * st.aver_accu) \div ms]

-----------------------------------------------------------------------------
(* protostack_t: a function from the <<level, name>> pairs that have a     *)
(* protocol_t to its counters.  Level 0 is the topmost protocol found.     *)

EmptyStack == [k \in {} |-> 0]

ProtoKeys(pkt) ==
  LET n == Len(pkt.names)
  IN  {<<i, pkt.names[i]>> : i \in 1..n}
      \cup (IF n = 0 THEN {} ELSE {<<0, pkt.names[n]>>})

StackAdd(stk, pkt, now) ==
  [k \in DOMAIN stk \cup ProtoKeys(pkt) |->
     LET st == IF k \in DOMAIN stk THEN stk[k] ELSE BasicReset(now)
     IN  IF k \in ProtoKeys(pkt) THEN BasicAdd(st, pkt.size, now) ELSE st]

\* protocol_stack_sub_pkt walks up from level 0 and gives up ("Protocol not
\* found while subtracting packet") at the first level that has no entry.
MissingLevels(stk, pkt) ==
  {i \in 0..Len(pkt.names) : \E k \in ProtoKeys(pkt) \ DOMAIN stk : k[1] = i}

\* Mutant: the walk starts above level 0.
StackSubSkipsTop(stk, pkt) ==
  [k \in DOMAIN stk |->
     IF k \in ProtoKeys(pkt) /\ k[1] > 0 THEN BasicSub(stk[k], pkt.size) ELSE stk[k]]

StackSub(stk, pkt) ==
  LET reached(k) == \A i \in MissingLevels(stk, pkt) : k[1] < i
  IN  [k \in DOMAIN stk |->
         IF k \in ProtoKeys(pkt) /\ reached(k) THEN BasicSub(stk[k], pkt.size)
                                               ELSE stk[k]]

StackAvg(stk, ms) == [k \in DOMAIN stk |-> BasicAvg(stk[k], ms)]

StackPurgeExpired(stk, expire, now) ==
  LET expired(k) == /\ expire > 0
                    /\ stk[k].aver_accu <= 0
                    /\ now - stk[k].last_time >= expire
  IN  [k \in {k \in DOMAIN stk : ~expired(k)} |-> stk[k]]

-----------------------------------------------------------------------------
(* traffic_stats_t.  pkt_list[1] is the head of the queue, where packets   *)
(* are pushed; its items carry the packet and its direction.               *)

TrafficInit(now) ==
  [pkt_list     |-> << >>,
   stats        |-> BasicReset(now),
   stats_in     |-> BasicReset(now),
   stats_out    |-> BasicReset(now),
   stats_protos |-> EmptyStack]

\* g_queue_push_head
Enqueue(list, item) == << item >> \o list

TrafficAddPacket(tr, pkt, dir, now) ==
  [pkt_list     |-> Enqueue(tr.pkt_list, [pkt |-> pkt, direction |-> dir]),
   stats        |-> BasicAdd(tr.stats, pkt.size, now),
   stats_in     |-> IF dir # "OUTBOUND"
                      THEN BasicAdd(tr.stats_in, pkt.size, now) ELSE tr.stats_in,
   stats_out    |-> IF dir # "INBOUND"
                      THEN BasicAdd(tr.stats_out, pkt.size, now) ELSE tr.stats_out,
   stats_protos |-> StackAdd(tr.stats_protos, pkt, now)]

\* Mutant: a packet expires one tick late.
KeptLengthLate(list, expire, now) ==
  LET valid == {i \in 1..Len(list) : now - list[i].pkt.ts <= expire}
  IN  IF valid = {} THEN 0 ELSE CHOOSE i \in valid : \A j \in valid : j <= i

\* Number of items the purge leaves: it works from the tail and stops at the
\* first packet that is still valid.
KeptLength(list, expire, now) ==
  LET valid == {i \in 1..Len(list) : now - list[i].pkt.ts < expire}
  IN  IF valid = {} THEN 0 ELSE CHOOSE i \in valid : \A j \in valid : j <= i

Kept(list, expire, now) == SubSeq(list, 1, KeptLength(list, expire, now))

Dropped(list, expire, now) ==
  SubSeq(list, KeptLength(list, expire, now) + 1, Len(list))

\* one turn of the purge loop, all but the removal from the queue
SubItem(item, tr) ==
  [tr EXCEPT !.stats = BasicSub(@, item.pkt.size),
             !.stats_in  = IF item.direction # "OUTBOUND"
                             THEN BasicSub(@, item.pkt.size) ELSE @,
             !.stats_out = IF item.direction # "INBOUND"
                             THEN BasicSub(@, item.pkt.size) ELSE @,
             !.stats_protos = StackSub(@, item.pkt)]

\* the loop takes the tail first
SubItems(tr, items) ==
  LET after[i \in 0..Len(items)] ==
        IF i = 0 THEN tr ELSE SubItem(items[Len(items) + 1 - i], after[i - 1])
  IN  after[Len(items)]

TrafficPurge(tr, expire, protoExpire, now) ==
  LET list == Kept(tr.pkt_list, expire, now)
      sub  == SubItems(tr, Dropped(tr.pkt_list, expire, now))
      quiet(st) == IF list = << >> THEN [st EXCEPT !.average = 0] ELSE st
  IN  [pkt_list     |-> list,
       stats        |-> quiet(sub.stats),
       stats_in     |-> quiet(sub.stats_in),
       stats_out    |-> quiet(sub.stats_out),
       stats_protos |-> StackPurgeExpired(sub.stats_protos, protoExpire, now)]

\* traffic_stats_update; its result TRUE is pkt_list # << >>.
TrafficUpdate(tr, avgTime, protoExpire, now) ==
  LET p == TrafficPurge(tr, avgTime, protoExpire, now)
  IN  IF p.pkt_list = << >> THEN p
      ELSE [p EXCEPT !.stats = BasicAvg(@, avgTime),
                     !.stats_in = BasicAvg(@, avgTime),
                     !.stats_out = BasicAvg(@, avgTime),
                     !.stats_protos = StackAvg(@, avgTime)]

-----------------------------------------------------------------------------
(* What the counters must agree with, used by the properties.              *)

Total(sizes) ==
  LET sum[i \in 0..Len(sizes)] == IF i = 0 THEN 0 ELSE sum[i - 1] + sizes[i]
  IN  sum[Len(sizes)]

\* the sizes of the items of a queue, those at other positions counted as 0
SizesAt(list, positions) ==
  [i \in DOMAIN list |-> IF i \in positions THEN list[i].pkt.size ELSE 0]

BytesAt(list, positions) == Total(SizesAt(list, positions))
=============================================================================
