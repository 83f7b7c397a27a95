--------------------------- MODULE ResolverProofs ---------------------------
(***************************************************************************)
(* Theorems about the resolver, for any number of threads, addresses and   *)
(* blocks.  The pool: no wakeup is lost.  The types.  The cache: no item   *)
(* is forgotten, however full it is, and while it has room for all         *)
(* addresses a name is the name of its address.                            *)
(***************************************************************************)
EXTENDS Resolver, FiniteSetTheorems, SequenceTheorems, TLAPS

-----------------------------------------------------------------------------
(* The pool of threads.                                                    *)

\* The types that the argument needs.
PoolType ==
  /\ pc \in [Worker -> Places]
  /\ queue \in Seq(Block)
  /\ request_stop_thread \in BOOLEAN

WInv == PoolType /\ NoLostWakeup

\* The threads on the way to the queue are a finite set, whatever pc is, before and
\* after a step of the pool.
LEMMA OnTheWayFinite ==
  /\ IsFiniteSet(OnTheWay) /\ Cardinality(OnTheWay) \in Nat
  /\ IsFiniteSet(OnTheWay') /\ Cardinality(OnTheWay') \in Nat
<1>1. OnTheWay \subseteq Worker /\ OnTheWay' \subseteq Worker
  BY DEF OnTheWay
<1>2. IsFiniteSet(Worker)
  BY ResolverAssumption
<1>3. IsFiniteSet(OnTheWay)
  BY <1>1, <1>2, FS_Subset
<1>4. IsFiniteSet(OnTheWay')
  BY <1>1, <1>2, FS_Subset
<1> QED
  BY <1>3, <1>4, FS_CardinalityType

\* A thread that sets out for the queue is counted once more.
LEMMA OneMore ==
  ASSUME NEW w \in Worker, PoolType, PoolType', pc[w] \notin {"top", "lock", "woken"},
         NEW place \in {"top", "lock", "woken"}, pc' = [pc EXCEPT ![w] = place]
  PROVE  Cardinality(OnTheWay') = Cardinality(OnTheWay) + 1
<1>1. OnTheWay' = OnTheWay \cup {w} /\ w \notin OnTheWay
  BY DEF OnTheWay, PoolType
<1> QED
  BY <1>1, OnTheWayFinite, FS_AddElement

\* A thread that takes a request or leaves is counted once less.
LEMMA OneLess ==
  ASSUME NEW w \in Worker, PoolType, PoolType', pc[w] \in {"top", "lock", "woken"},
         NEW place \in Places \ {"top", "lock", "woken"}, pc' = [pc EXCEPT ![w] = place]
  PROVE  Cardinality(OnTheWay') = Cardinality(OnTheWay) - 1
<1>1. OnTheWay' = OnTheWay \ {w} /\ w \in OnTheWay
  BY DEF OnTheWay, PoolType
<1> QED
  BY <1>1, OnTheWayFinite, FS_RemoveElement

\* The pool starts awake, or not at all.
LEMMA InitWInv == Init => WInv
<1> SUFFICES ASSUME Init PROVE WInv
  OBVIOUS
<1>1. \A w \in Worker : pc[w] \in {"top", "none"}
  BY DEF Init
<1>2. pc \in [Worker -> Places]
  BY DEF Init, Places
<1>3. Waiting = {}
  BY <1>1 DEF Waiting
<1>4. queue = << >> /\ request_stop_thread = FALSE
  BY DEF Init
<1>5. queue \in Seq(Block)
  BY <1>4
<1> QED
  BY <1>2, <1>3, <1>4, <1>5 DEF WInv, PoolType, NoLostWakeup

\* Every step keeps the types of the pool.
LEMMA PoolTypeStep ==
  PoolType /\ [Next]_vars => PoolType'
<1> SUFFICES ASSUME PoolType, [Next]_vars PROVE PoolType'
  OBVIOUS
<1> USE DEF PoolType, Places, Goto
<1>1. CASE Lookup
  BY <1>1 DEF Lookup, SignalOne, Waiting, flagVars
<1>2. ASSUME NEW w \in Worker, Lock(w) \/ WaitReturns(w) PROVE PoolType'
  BY <1>2 DEF Lock, WaitReturns, TakeOrLeave, MustWait, flagVars
<1>3. ASSUME NEW w \in Worker,
             LoopTest(w) \/ SpuriousWakeup(w) \/ Query(w) \/ AnswerTest(w) \/ Report(w)
      PROVE  PoolType'
  BY <1>3 DEF LoopTest, SpuriousWakeup, Query, AnswerTest, Report, flagVars
<1>4. CASE StopThreads
  BY <1>4 DEF StopThreads, WakeAll
<1>5. CASE (\E a \in Addr : LookupLock(a)) \/ IpcacheTick \/ NameResToggled \/ Signal
           \/ CloseMutex \/ IpcacheClear \/ Terminated \/ UNCHANGED vars
  BY <1>5 DEF LookupLock, IpcacheTick, NameResToggled, Signal, CloseMutex, IpcacheClear,
              Terminated, vars, flagVars, poolVars
<1> QED
  BY <1>1, <1>2, <1>3, <1>4, <1>5 DEF Next

\* Taking a request uses up the thread that came for it.
LEMMA TakeOrLeaveKeeps ==
  ASSUME WInv, PoolType', NEW w \in Worker, pc[w] \in {"lock", "woken"}, TakeOrLeave(w),
         UNCHANGED request_stop_thread
  PROVE  NoLostWakeup'
<1>1. CASE request_stop_thread /\ Goto(w, "exit")
  BY <1>1 DEF WInv, NoLostWakeup, Waiting, PoolType, Goto
<1>2. CASE ~request_stop_thread /\ queue # << >> /\ queue' = Tail(queue)
           /\ Goto(w, "query")
  <2>1. Cardinality(OnTheWay') = Cardinality(OnTheWay) - 1
    BY <1>2, OneLess DEF WInv, Goto, Places
  <2>2. Len(queue') = Len(queue) - 1 /\ Len(queue) \in Nat
    BY <1>2 DEF WInv, PoolType
  <2>3. Waiting' = Waiting
    BY <1>2 DEF Waiting, Goto, WInv, PoolType
  <2> QED
    BY <1>2, <2>1, <2>2, <2>3, OnTheWayFinite DEF WInv, NoLostWakeup
<1>3. CASE ~request_stop_thread /\ queue = << >> /\ Goto(w, "top") /\ UNCHANGED queue
  <2>1. Len(queue') = 0 /\ Cardinality(OnTheWay') \in Nat
    BY <1>3, OnTheWayFinite
  <2> QED
    BY <1>3, <2>1 DEF NoLostWakeup
<1> QED
  BY <1>1, <1>2, <1>3 DEF TakeOrLeave

\* The steps that go to sleep or wake up.
LEMMA SleepAndWake ==
  ASSUME WInv, PoolType', [Next]_vars, NEW w \in Worker,
         Lock(w) \/ WaitReturns(w) \/ SpuriousWakeup(w)
  PROVE  NoLostWakeup'
<1>1. CASE Lock(w) /\ MustWait
  <2>1. Len(queue') = 0 /\ Cardinality(OnTheWay') \in Nat
    BY <1>1, OnTheWayFinite DEF Lock, MustWait
  <2> QED
    BY <1>1, <2>1 DEF Lock, MustWait, NoLostWakeup, flagVars
<1>2. CASE (Lock(w) /\ ~MustWait) \/ WaitReturns(w)
  BY <1>2, TakeOrLeaveKeeps DEF Lock, WaitReturns, flagVars
<1>3. CASE SpuriousWakeup(w)
  <2>1. Cardinality(OnTheWay') = Cardinality(OnTheWay) + 1
    BY <1>3, OneMore DEF WInv, SpuriousWakeup, Goto
  <2>2. Waiting' \subseteq Waiting
    BY <1>3 DEF SpuriousWakeup, Goto, Waiting, WInv, PoolType
  <2> QED
    BY <1>3, <2>1, <2>2, OnTheWayFinite
       DEF SpuriousWakeup, WInv, NoLostWakeup, PoolType, flagVars
<1> QED
  BY <1>1, <1>2, <1>3

\* The steps of a thread that is neither asleep nor at the queue.
LEMMA BusySteps ==
  ASSUME WInv, PoolType', NEW w \in Worker,
         LoopTest(w) \/ Query(w) \/ AnswerTest(w) \/ Report(w)
  PROVE  NoLostWakeup'
<1>0. Waiting' = Waiting
  BY DEF LoopTest, Query, AnswerTest, Report, Goto, Waiting, WInv, PoolType
<1>1. UNCHANGED <<queue, request_stop_thread>>
  BY DEF LoopTest, Query, AnswerTest, Report, flagVars
<1>2. CASE Report(w)
  <2>1. Cardinality(OnTheWay') = Cardinality(OnTheWay) + 1
    BY <1>2, OneMore DEF WInv, Report, Goto
  <2> QED
    BY <1>0, <1>1, <2>1, OnTheWayFinite DEF WInv, NoLostWakeup, PoolType
<1>3. CASE LoopTest(w) /\ request_stop_thread
  BY <1>0, <1>1, <1>3 DEF WInv, NoLostWakeup
<1>4. CASE (LoopTest(w) /\ ~request_stop_thread) \/ Query(w) \/ AnswerTest(w)
  <2>1. OnTheWay' = OnTheWay
    BY <1>4 DEF LoopTest, Query, AnswerTest, Goto, OnTheWay, WInv, PoolType
  <2> QED
    BY <1>0, <1>1, <2>1 DEF WInv, NoLostWakeup
<1> QED
  BY <1>2, <1>3, <1>4

\* sendrequest_inverse: a request more, and a thread more if one slept.
LEMMA LookupKeeps ==
  ASSUME WInv, PoolType', Lookup
  PROVE  NoLostWakeup'
<1>0. UNCHANGED request_stop_thread
  BY DEF Lookup, flagVars
<1>1. CASE UNCHANGED <<queue, pc>>
  BY <1>0, <1>1 DEF WInv, NoLostWakeup, Waiting, OnTheWay
<1>2. CASE Waiting = {} /\ UNCHANGED pc
  BY <1>2 DEF NoLostWakeup, Waiting
<1>3. ASSUME NEW b \in Block, queue' = Append(queue, b),
             NEW w \in Waiting, pc' = [pc EXCEPT ![w] = "woken"]
      PROVE  NoLostWakeup'
  <2>1. w \in Worker /\ pc[w] = "wait"
    BY <1>3 DEF Waiting
  <2>2. Cardinality(OnTheWay') = Cardinality(OnTheWay) + 1
    BY <1>3, <2>1, OneMore DEF WInv
  <2>3. Len(queue') = Len(queue) + 1 /\ Len(queue) \in Nat
    BY <1>3 DEF WInv, PoolType
  <2> QED
    BY <1>0, <2>2, <2>3, OnTheWayFinite DEF WInv, NoLostWakeup
<1> QED
  BY <1>1, <1>2, <1>3 DEF Lookup, SignalOne

\* Every step keeps the invariant.
LEMMA NextWInv == WInv /\ [Next]_vars => WInv'
<1> SUFFICES ASSUME WInv, [Next]_vars PROVE WInv'
  OBVIOUS
<1>0. PoolType'
  BY PoolTypeStep DEF WInv
<1>1. CASE Lookup
  BY <1>0, <1>1, LookupKeeps DEF WInv
<1>2. CASE \E w \in Worker : Lock(w) \/ WaitReturns(w) \/ SpuriousWakeup(w)
  BY <1>0, <1>2, SleepAndWake DEF WInv
<1>3. CASE \E w \in Worker : LoopTest(w) \/ Query(w) \/ AnswerTest(w) \/ Report(w)
  BY <1>0, <1>3, BusySteps DEF WInv
<1>4. CASE StopThreads
  BY <1>0, <1>4 DEF StopThreads, WakeAll, WInv, NoLostWakeup, Waiting, PoolType
<1>5. CASE UNCHANGED <<pc, queue, request_stop_thread>>
  BY <1>0, <1>5 DEF WInv, NoLostWakeup, Waiting, OnTheWay
<1>6. CASE (\E a \in Addr : LookupLock(a)) \/ IpcacheTick \/ NameResToggled \/ Signal
           \/ CloseMutex \/ IpcacheClear \/ Terminated \/ UNCHANGED vars
  <2>1. UNCHANGED <<pc, queue, request_stop_thread>>
    BY <1>6 DEF LookupLock, IpcacheTick, NameResToggled, Signal, CloseMutex, IpcacheClear,
                Terminated, vars, flagVars, poolVars
  <2> QED
    BY <2>1, <1>5
<1> QED
  BY <1>1, <1>2, <1>3, <1>4, <1>6 DEF Next

\* As long as a thread of the pool sleeps no stop is pending, and every queued request
\* has a thread of its own on the way to the queue.
THEOREM NoWakeupIsLost == Spec => []NoLostWakeup
<1>1. WInv => NoLostWakeup
  BY DEF WInv
<1> QED
  BY <1>1, InitWInv, NextWInv, PTL DEF Spec

-----------------------------------------------------------------------------
(* The cache.                                                              *)

\* No item is twice in a list.
Once(list) == \A i, j \in DOMAIN list : list[i] = list[j] => i = j

\* ipcache_unlink_activelist takes out one item and moves those behind it up.
LEMMA TakenOut ==
  ASSUME NEW S, NEW list \in Seq(S), NEW i \in DOMAIN list
  PROVE  /\ RemoveAt(list, i) \in Seq(S)
         /\ Len(RemoveAt(list, i)) = Len(list) - 1
         /\ \A j \in 1 .. Len(list) - 1 :
              RemoveAt(list, i)[j] = IF j < i THEN list[j] ELSE list[j + 1]
<1> DEFINE before == SubSeq(list, 1, i - 1)
           behind == SubSeq(list, i + 1, Len(list))
<1>1. i \in 1 .. Len(list) /\ Len(list) \in Nat /\ \A k \in 1 .. Len(list) : list[k] \in S
  BY LenProperties, ElementOfSeq
<1>2. /\ before \in Seq(S) /\ Len(before) = i - 1
      /\ \A j \in 1 .. i - 1 : before[j] = list[j]
  <2>1. 1 \in Int /\ i - 1 \in Int /\ \A k \in 1 .. i - 1 : list[k] \in S
    BY <1>1
  <2>2. /\ before \in Seq(S)
        /\ Len(before) = IF 1 <= i - 1 THEN (i - 1) - 1 + 1 ELSE 0
        /\ \A j \in 1 .. (i - 1) - 1 + 1 : before[j] = list[1 + j - 1]
    BY <2>1, SubSeqProperties
  <2> QED
    BY <1>1, <2>2
<1>3. /\ behind \in Seq(S) /\ Len(behind) = Len(list) - i
      /\ \A j \in 1 .. Len(list) - i : behind[j] = list[i + j]
  <2>1. i + 1 \in Int /\ Len(list) \in Int /\ \A k \in i + 1 .. Len(list) : list[k] \in S
    BY <1>1
  <2>2. /\ behind \in Seq(S)
        /\ Len(behind) = IF i + 1 <= Len(list) THEN Len(list) - (i + 1) + 1 ELSE 0
        /\ \A j \in 1 .. Len(list) - (i + 1) + 1 : behind[j] = list[(i + 1) + j - 1]
    BY <2>1, SubSeqProperties
  <2> QED
    BY <1>1, <2>2
<1> DEFINE rest == before \o behind
<1>4. RemoveAt(list, i) = rest
  BY DEF RemoveAt
<1> HIDE DEF before, behind
<1>5. /\ rest \in Seq(S)
      /\ Len(rest) = Len(before) + Len(behind)
      /\ \A j \in 1 .. Len(before) + Len(behind) :
           rest[j] = IF j <= Len(before) THEN before[j] ELSE behind[j - Len(before)]
  <2>1. before \in Seq(S) /\ behind \in Seq(S)
    BY <1>2, <1>3
  <2> QED
    BY <2>1, ConcatProperties
<1> HIDE DEF rest
<1>6. ASSUME NEW j \in 1 .. Len(list) - 1
      PROVE  rest[j] = IF j < i THEN list[j] ELSE list[j + 1]
  <2>1. rest[j] = IF j <= i - 1 THEN before[j] ELSE behind[j - (i - 1)]
    <3>1. Len(before) = i - 1 /\ Len(behind) = Len(list) - i
      BY <1>2, <1>3
    <3>2. j \in 1 .. Len(before) + Len(behind)
      BY <1>1, <3>1
    <3> QED
      BY <1>5, <3>1, <3>2
  <2>2. CASE j < i
    BY <1>1, <1>2, <2>1, <2>2
  <2>3. CASE ~ (j < i)
    <3>1. j - (i - 1) \in 1 .. Len(list) - i /\ i + (j - (i - 1)) = j + 1
      BY <1>1, <2>3
    <3>2. behind[j - (i - 1)] = list[j + 1]
      BY <1>3, <3>1
    <3> QED
      BY <1>1, <2>1, <2>3, <3>2
  <2> QED
    BY <2>2, <2>3
<1>7. rest \in Seq(S) /\ Len(rest) = Len(list) - 1
  BY <1>1, <1>2, <1>3, <1>5
<1> QED
  BY <1>4, <1>6, <1>7

\* ipcache_purge_activelist leaves a list of items.
LEMMA PurgedSeq ==
  ASSUME NEW S, NEW list \in Seq(S)
  PROVE  Purged(list) \in Seq(S)
<1> DEFINE n == MaxActive - Slack - 1
<1>1. CASE Len(list) > MaxActive
  <2>1. n \in Int /\ n <= Len(list) /\ 1 \in Int
    BY <1>1, ResolverAssumption, LenProperties
  <2>2. \A k \in 1 .. n : list[k] \in S
    BY <2>1, ElementOfSeq, LenProperties
  <2>3. SubSeq(list, 1, n) \in Seq(S)
    BY <2>1, <2>2, SubSeqProperties
  <2> QED
    BY <2>3 DEF Purged
<1>2. CASE ~ (Len(list) > MaxActive)
  BY <1>2 DEF Purged
<1> QED
  BY <1>1, <1>2

\* ipcache_link_activelist makes a list of items out of a list of items.
LEMMA LinkedSeq ==
  ASSUME NEW S, NEW list \in Seq(S), NEW b \in S
  PROVE  Linked(list, b) \in Seq(S)
<1>1. CASE b \in ToSet(list)
  <2> DEFINE i == CHOOSE i \in DOMAIN list : list[i] = b
  <2>1. i \in DOMAIN list
    BY <1>1 DEF ToSet
  <2>2. Linked(list, b) = << b >> \o RemoveAt(list, i)
    BY <1>1 DEF Linked
  <2>3. RemoveAt(list, i) \in Seq(S)
    BY <2>1, TakenOut
  <2> HIDE DEF i
  <2>4. << b >> \in Seq(S)
    OBVIOUS
  <2> QED
    BY <2>2, <2>3, <2>4, ConcatProperties
<1>2. CASE b \notin ToSet(list)
  <2>1. Linked(list, b) = << b >> \o Purged(list)
    BY <1>2 DEF Linked
  <2>2. Purged(list) \in Seq(S)
    BY PurgedSeq
  <2>3. << b >> \in Seq(S)
    OBVIOUS
  <2> QED
    BY <2>1, <2>2, <2>3, ConcatProperties
<1> QED
  BY <1>1, <1>2

\* An item that is in the list already comes to the head, and those before it move down.
LEMMA MovedUp ==
  ASSUME NEW S, NEW list \in Seq(S), NEW b \in S, b \in ToSet(list)
  PROVE  \E i \in 1 .. Len(list) :
           /\ list[i] = b
           /\ Linked(list, b) \in Seq(S) /\ Len(Linked(list, b)) = Len(list)
           /\ Linked(list, b)[1] = b
           /\ \A j \in 2 .. Len(list) :
                Linked(list, b)[j] = IF j - 1 < i THEN list[j - 1] ELSE list[j]
<1>0. Len(list) \in Nat /\ DOMAIN list = 1 .. Len(list)
  BY LenProperties
<1> DEFINE i == CHOOSE i \in DOMAIN list : list[i] = b
<1>1. i \in DOMAIN list /\ i \in 1 .. Len(list) /\ list[i] = b
  BY <1>0 DEF ToSet
<1> HIDE DEF i
<1> DEFINE rest == RemoveAt(list, i)
<1>2. Linked(list, b) = << b >> \o rest
  BY DEF Linked, i
<1>3. /\ rest \in Seq(S)
      /\ Len(rest) = Len(list) - 1
      /\ \A j \in 1 .. Len(list) - 1 : rest[j] = IF j < i THEN list[j] ELSE list[j + 1]
  BY <1>1, TakenOut
<1> HIDE DEF rest
<1> DEFINE new == << b >> \o rest
<1>4. << b >> \in Seq(S) /\ Len(<< b >>) = 1 /\ << b >>[1] = b
  OBVIOUS
<1>5. /\ new \in Seq(S) /\ Len(new) = 1 + Len(rest)
      /\ \A j \in 1 .. 1 + Len(rest) :
           new[j] = IF j <= 1 THEN << b >>[j] ELSE rest[j - 1]
  BY <1>3, <1>4, ConcatProperties
<1> HIDE DEF new
<1>6. new[1] = b /\ Len(new) = Len(list)
  BY <1>0, <1>1, <1>3, <1>4, <1>5
<1>7. ASSUME NEW j \in 2 .. Len(list)
      PROVE  new[j] = IF j - 1 < i THEN list[j - 1] ELSE list[j]
  <2>1. new[j] = rest[j - 1] /\ j - 1 \in 1 .. Len(list) - 1 /\ (j - 1) + 1 = j
    BY <1>0, <1>3, <1>5
  <2> QED
    BY <1>3, <2>1
<1>8. Linked(list, b) = new
  BY <1>2 DEF new
<1> QED
  BY <1>1, <1>5, <1>6, <1>7, <1>8

\* So the list has the same items as before.
LEMMA LinkedAgain ==
  ASSUME NEW S, NEW list \in Seq(S), NEW b \in S, b \in ToSet(list)
  PROVE  ToSet(Linked(list, b)) = ToSet(list)
<1> DEFINE new == Linked(list, b)
<1>0. Len(list) \in Nat /\ DOMAIN list = 1 .. Len(list)
  BY LenProperties
<1>1. PICK i \in 1 .. Len(list) :
        /\ list[i] = b /\ new \in Seq(S) /\ Len(new) = Len(list) /\ new[1] = b
        /\ \A j \in 2 .. Len(list) : new[j] = IF j - 1 < i THEN list[j - 1] ELSE list[j]
  BY MovedUp
<1> HIDE DEF new
<1>2. DOMAIN new = 1 .. Len(list)
  BY <1>1, LenProperties
<1>3. ASSUME NEW x \in ToSet(list) PROVE x \in ToSet(new)
  <2>1. PICK k \in 1 .. Len(list) : list[k] = x
    BY <1>0, <1>3 DEF ToSet
  <2>2. CASE k < i
    <3>1. k + 1 \in 2 .. Len(list) /\ new[k + 1] = list[k]
      BY <1>0, <1>1, <2>2
    <3> QED
      BY <1>0, <1>2, <2>1, <3>1 DEF ToSet
  <2>3. CASE k = i
    BY <1>0, <1>1, <1>2, <2>1, <2>3 DEF ToSet
  <2>4. CASE k > i
    <3>1. k \in 2 .. Len(list) /\ new[k] = list[k]
      BY <1>0, <1>1, <2>4
    <3> QED
      BY <1>0, <1>2, <2>1, <3>1 DEF ToSet
  <2> QED
    BY <1>0, <1>1, <2>2, <2>3, <2>4
<1>4. ASSUME NEW k \in 1 .. Len(list) PROVE new[k] \in ToSet(list)
  <2>1. CASE k = 1
    BY <1>0, <1>1, <2>1 DEF ToSet
  <2>2. CASE k # 1 /\ k - 1 < i
    BY <1>0, <1>1, <2>2 DEF ToSet
  <2>3. CASE k # 1 /\ ~ (k - 1 < i)
    BY <1>0, <1>1, <2>3 DEF ToSet
  <2> QED
    BY <2>1, <2>2, <2>3
<1>5. ToSet(new) = ToSet(list)
  BY <1>2, <1>3, <1>4 DEF ToSet
<1> QED
  BY <1>5 DEF new

\* A list with one item more at its head.
LEMMA AtHead ==
  ASSUME NEW S, NEW list \in Seq(S), NEW b \in S
  PROVE  << b >> \o list \in Seq(S) /\ ToSet(<< b >> \o list) = ToSet(list) \cup {b}
<1> DEFINE new == << b >> \o list
<1>0. Len(list) \in Nat /\ DOMAIN list = 1 .. Len(list)
  BY LenProperties
<1>1. << b >> \in Seq(S) /\ Len(<< b >>) = 1 /\ << b >>[1] = b
  OBVIOUS
<1>2. /\ new \in Seq(S) /\ Len(new) = 1 + Len(list)
      /\ \A j \in 1 .. 1 + Len(list) : new[j] = IF j <= 1 THEN << b >>[j] ELSE list[j - 1]
  BY <1>1, ConcatProperties
<1> HIDE DEF new
<1>3. new[1] = b
  BY <1>0, <1>1, <1>2
<1>4. DOMAIN new = 1 .. 1 + Len(list)
  BY <1>2, LenProperties
<1>5. b \in ToSet(new)
  BY <1>0, <1>3, <1>4 DEF ToSet
<1>6. ASSUME NEW k \in 1 .. Len(list) PROVE list[k] \in ToSet(new)
  <2>1. k + 1 \in 1 .. 1 + Len(list) /\ new[k + 1] = list[k]
    BY <1>0, <1>2
  <2> QED
    BY <1>4, <2>1 DEF ToSet
<1>7. ASSUME NEW k \in 1 .. 1 + Len(list) PROVE new[k] \in ToSet(list) \cup {b}
  <2>1. CASE k = 1
    BY <1>3, <2>1
  <2>2. CASE k # 1
    <3>1. k - 1 \in DOMAIN list /\ new[k] = list[k - 1]
      BY <1>0, <1>2, <2>2
    <3> QED
      BY <3>1 DEF ToSet
  <2> QED
    BY <2>1, <2>2
<1>8. ToSet(new) = ToSet(list) \cup {b}
  BY <1>0, <1>4, <1>5, <1>6, <1>7 DEF ToSet
<1> QED
  BY <1>2, <1>8 DEF new

\* The item that is linked is in the list, whatever the purge takes out.
LEMMA LinkedHas ==
  ASSUME NEW S, NEW list \in Seq(S), NEW b \in S
  PROVE  b \in ToSet(Linked(list, b))
<1>1. CASE b \in ToSet(list)
  BY <1>1, LinkedAgain
<1>2. CASE b \notin ToSet(list)
  <2>1. Linked(list, b) = << b >> \o Purged(list)
    BY <1>2 DEF Linked
  <2>2. Purged(list) \in Seq(S)
    BY PurgedSeq
  <2> QED
    BY <2>1, <2>2, AtHead
<1> QED
  BY <1>1, <1>2

\* As long as the list has no more than max_active items, the item that is linked
\* comes to the head and no item leaves the list.
LEMMA LinkedSet ==
  ASSUME NEW S, NEW list \in Seq(S), NEW b \in S, Once(list), Len(list) <= MaxActive
  PROVE  /\ ToSet(Linked(list, b)) = ToSet(list) \cup {b}
         /\ Once(Linked(list, b))
<1>0. Len(list) \in Nat /\ DOMAIN list = 1 .. Len(list)
  BY LenProperties
<1>1. CASE b \in ToSet(list)
  <2> DEFINE new == Linked(list, b)
  <2>1. ToSet(new) = ToSet(list)
    BY <1>1, LinkedAgain
  <2>2. PICK i \in 1 .. Len(list) :
          /\ list[i] = b /\ new \in Seq(S) /\ Len(new) = Len(list) /\ new[1] = b
          /\ \A j \in 2 .. Len(list) : new[j] = IF j - 1 < i THEN list[j - 1] ELSE list[j]
    BY <1>1, MovedUp
  <2> HIDE DEF new
  <2>3. DOMAIN new = 1 .. Len(list)
    BY <2>2, LenProperties
  <2>4. Once(new)
    <3> SUFFICES ASSUME NEW j \in 1 .. Len(list), NEW k \in 1 .. Len(list), j < k
                 PROVE  new[j] # new[k]
      BY <1>0, <2>3 DEF Once
    <3> DEFINE from(m) == IF m = 1 THEN i ELSE IF m - 1 < i THEN m - 1 ELSE m
    <3>1. \A m \in 1 .. Len(list) : from(m) \in 1 .. Len(list) /\ new[m] = list[from(m)]
      BY <1>0, <2>2
    <3>2. from(j) # from(k)
      BY <1>0, <2>2
    <3> HIDE DEF from
    <3> QED
      BY <1>0, <3>1, <3>2 DEF Once
  <2> QED
    BY <1>1, <2>1, <2>4 DEF new
<1>2. CASE b \notin ToSet(list)
  <2> DEFINE new == << b >> \o list
  <2>1. Linked(list, b) = new
    BY <1>0, <1>2, ResolverAssumption DEF Linked, Purged
  <2>2. /\ new \in Seq(S) /\ Len(new) = 1 + Len(list)
        /\ \A j \in 1 .. 1 + Len(list) : new[j] = IF j <= 1 THEN b ELSE list[j - 1]
    <3>1. << b >> \in Seq(S) /\ Len(<< b >>) = 1 /\ << b >>[1] = b
      OBVIOUS
    <3>2. /\ new \in Seq(S) /\ Len(new) = 1 + Len(list)
          /\ \A j \in 1 .. 1 + Len(list) :
               new[j] = IF j <= 1 THEN << b >>[j] ELSE list[j - 1]
      BY <3>1, ConcatProperties
    <3> HIDE DEF new
    <3>3. ASSUME NEW j \in 1 .. 1 + Len(list), j <= 1 PROVE new[j] = b
      BY <1>0, <3>1, <3>2, <3>3
    <3> QED
      BY <3>2, <3>3
  <2> HIDE DEF new
  <2>3. DOMAIN new = 1 .. 1 + Len(list)
    BY <2>2, LenProperties
  <2>4. ToSet(new) = ToSet(list) \cup {b}
    <3>1. b \in ToSet(new)
      BY <1>0, <2>2, <2>3 DEF ToSet
    <3>2. ASSUME NEW k \in 1 .. Len(list) PROVE list[k] \in ToSet(new)
      <4>1. k + 1 \in 1 .. 1 + Len(list) /\ new[k + 1] = list[k]
        BY <1>0, <2>2
      <4> QED
        BY <2>3, <4>1 DEF ToSet
    <3>3. ASSUME NEW k \in 1 .. 1 + Len(list) PROVE new[k] \in ToSet(list) \cup {b}
      BY <1>0, <2>2 DEF ToSet
    <3> QED
      BY <1>0, <2>3, <3>1, <3>2, <3>3 DEF ToSet
  <2>5. Once(new)
    <3> SUFFICES ASSUME NEW j \in 1 .. 1 + Len(list), NEW k \in 1 .. 1 + Len(list), j < k
                 PROVE  new[j] # new[k]
      BY <1>0, <2>3 DEF Once
    <3>1. new[k] = list[k - 1] /\ k - 1 \in DOMAIN list
      BY <1>0, <2>2
    <3>2. CASE j = 1
      BY <1>0, <1>2, <2>2, <3>1, <3>2 DEF ToSet
    <3>3. CASE j # 1
      <4>1. new[j] = list[j - 1] /\ j - 1 \in DOMAIN list /\ j - 1 # k - 1
        BY <1>0, <2>2, <3>3
      <4> QED
        BY <3>1, <4>1 DEF Once
    <3> QED
      BY <3>2, <3>3
  <2> QED
    BY <2>1, <2>4, <2>5
<1> QED
  BY <1>1, <1>2

-----------------------------------------------------------------------------
(* Types.                                                                  *)

\* The parameters of the clock are numbers.
LEMMA Delays ==
  /\ RefreshDelay \in Nat /\ FailDelay \in Nat /\ FoundDelay \in Nat
  /\ MaxDelay \in Nat /\ MaxTick \in Nat /\ Jitter \subseteq Nat
BY ResolverAssumption

\* ipcache_calc_expire_tick never answers a tick that is past.
LEMMA ExpiresLater ==
  ASSUME NEW delay \in Nat, NEW e \in ExpireTicks(delay), current_tick \in Nat
  PROVE  e \in Nat /\ e - current_tick \in Nat
<1>1. PICK j \in Jitter :
        e = (IF delay > MaxDelay THEN MaxDelay ELSE delay) + current_tick + j
  BY DEF ExpireTicks
<1>2. j \in Nat /\ MaxDelay \in Nat
  BY Delays
<1> QED
  BY <1>1, <1>2

\* The items and the active list.
CacheType ==
  /\ DOMAIN item \subseteq Block /\ \A b \in DOMAIN item : item[b] \in Item
  /\ active \in Seq(Block)

\* An answer is written to an item of the cache and makes an item of it.
LEMMA AnswerTypes ==
  ASSUME CacheType, current_tick \in Nat, NEW b \in DOMAIN item, NEW name \in Addr \cup {None},
         RequestFailed(b) \/ RequestSucceeded(b, name)
  PROVE  CacheType'
<1>0. b \in Block /\ item[b] \in Item
  BY DEF CacheType
<1>1. Linked(active, b) \in Seq(Block)
  BY <1>0, LinkedSeq DEF CacheType
<1>2. CASE UNCHANGED cacheVars
  BY <1>2 DEF cacheVars, CacheType
<1>3. ASSUME NEW e \in Nat, NEW heap, DOMAIN heap = DOMAIN item,
             \A c \in DOMAIN item : heap[c] \in Item,
             active' = Linked(active, b), item' = Unpurged(heap, active, b)
      PROVE  CacheType'
  BY <1>1, <1>3 DEF CacheType, Unpurged
<1>4. CASE RequestFailed(b) /\ item[b].state # "FINISHED"
  <2>1. PICK e \in ExpireTicks(FailDelay) :
          /\ active' = Linked(active, b)
          /\ item' = Unpurged([item EXCEPT ![b].state = "FAILED", ![b].wait = 0,
                                           ![b].expire_tick = e], active, b)
    BY <1>4 DEF RequestFailed
  <2>2. e \in Nat
    BY Delays, ExpiresLater
  <2> DEFINE heap == [item EXCEPT ![b].state = "FAILED", ![b].wait = 0, ![b].expire_tick = e]
  <2>3. DOMAIN heap = DOMAIN item /\ \A c \in DOMAIN item : heap[c] \in Item
    BY <1>0, <2>2 DEF CacheType, Item
  <2> QED
    BY <1>3, <2>1, <2>2, <2>3
<1>5. CASE RequestSucceeded(b, name)
  <2>1. PICK e \in ExpireTicks(FoundDelay) :
          /\ active' = Linked(active, b)
          /\ item' = Unpurged([item EXCEPT ![b].state = "FINISHED", ![b].expire_tick = e,
                                           ![b].wait = 0, ![b].name = name], active, b)
    BY <1>5 DEF RequestSucceeded
  <2>2. e \in Nat
    BY Delays, ExpiresLater
  <2> DEFINE heap == [item EXCEPT ![b].state = "FINISHED", ![b].expire_tick = e,
                                  ![b].wait = 0, ![b].name = name]
  <2>3. DOMAIN heap = DOMAIN item /\ \A c \in DOMAIN item : heap[c] \in Item
    BY <1>0, <2>2 DEF CacheType, Item
  <2> QED
    BY <1>3, <2>1, <2>2, <2>3
<1> QED
  BY <1>2, <1>4, <1>5 DEF RequestFailed

\* ipcache_prepare_request renews the item of the address or allocates one.
LEMMA RequestTypes ==
  ASSUME CacheType, current_tick \in Nat, NEW a \in Addr, NEW b \in Block,
         PrepareRequest(a, b)
  PROVE  DOMAIN item' \subseteq Block /\ \A c \in DOMAIN item' : item'[c] \in Item
<1>1. CASE Find(a) # {}
  <2>1. b \in DOMAIN item /\ item[b] \in Item
    BY <1>1 DEF PrepareRequest, Find, CacheType
  <2>2. RequestDelay(b) \in Nat
    BY <2>1, Delays DEF RequestDelay, Item
  <2>3. PICK e \in ExpireTicks(RequestDelay(b)) :
          item' = [item EXCEPT ![b].state = "PTRREQ", ![b].expire_tick = e,
                               ![b].wait = e - current_tick]
    BY <1>1 DEF PrepareRequest
  <2>4. e \in Nat /\ e - current_tick \in Nat
    BY <2>2, ExpiresLater
  <2> QED
    BY <2>1, <2>3, <2>4 DEF CacheType, Item
<1>2. CASE Find(a) = {}
  <2>1. PICK e \in ExpireTicks(0) :
          item' = [c \in DOMAIN item \cup {b} |->
                     IF c = b THEN [ip |-> a, state |-> "PTRREQ", expire_tick |-> e,
                                    name |-> None, wait |-> e - current_tick]
                     ELSE item[c]]
    BY <1>2 DEF PrepareRequest
  <2>2. e \in Nat /\ e - current_tick \in Nat
    BY ExpiresLater
  <2> QED
    BY <2>1, <2>2 DEF CacheType, Item
<1> QED
  BY <1>1, <1>2

\* The types are kept by every step of the main thread.
LEMMA MainTypes ==
  ASSUME TypeOK,
         (\E a \in Addr : LookupLock(a)) \/ Lookup \/ IpcacheTick \/ NameResToggled \/ Signal
         \/ StopThreads \/ CloseMutex \/ IpcacheClear \/ Terminated \/ UNCHANGED vars
  PROVE  TypeOK'
<1>1. CASE Lookup
  <2>1. active' \in Seq(Block)
    <3>1. CASE active' = active
      BY <3>1 DEF TypeOK
    <3>2. CASE active' # active
      <4>1. Answered(main) # {} /\ active' = Linked(active, CHOOSE b \in Answered(main) : TRUE)
        BY <1>1, <3>2 DEF Lookup, Touched
      <4>2. (CHOOSE b \in Answered(main) : TRUE) \in Block
        BY <4>1 DEF Answered, Find, TypeOK
      <4> QED
        BY <4>1, <4>2, LinkedSeq DEF TypeOK
    <3> QED
      BY <3>1, <3>2
  <2>2. /\ DOMAIN item' \subseteq Block /\ \A b \in DOMAIN item' : item'[b] \in Item
        /\ queue' \in Seq(Block)
    <3>1. ASSUME NEW b \in Block, PrepareRequest(main, b), queue' = Append(queue, b)
          PROVE  /\ DOMAIN item' \subseteq Block /\ \A c \in DOMAIN item' : item'[c] \in Item
                 /\ queue' \in Seq(Block)
      BY <1>1, <3>1, RequestTypes DEF TypeOK, CacheType, Lookup
    <3>2. CASE UNCHANGED <<item, queue>>
      BY <3>2 DEF TypeOK
    <3> QED
      BY <1>1, <3>1, <3>2 DEF Lookup
  <2>3. pc' \in [Worker -> Places]
    BY <1>1 DEF Lookup, SignalOne, TypeOK, Places
  <2>4. /\ UNCHANGED <<name_res, current_tick, flagVars, curitem, result>>
        /\ main' = "idle" /\ locked' = FALSE
    BY <1>1 DEF Lookup, flagVars
  <2> QED
    BY <2>1, <2>2, <2>3, <2>4, ResolverAssumption DEF TypeOK, flagVars
<1>2. CASE (\E a \in Addr : LookupLock(a)) \/ Signal \/ CloseMutex
  BY <1>2, ResolverAssumption
     DEF LookupLock, Signal, CloseMutex, cacheVars, flagVars, poolVars, TypeOK
<1>5. CASE IpcacheTick \/ NameResToggled \/ Terminated \/ UNCHANGED vars
  <2>1. name_res' \in BOOLEAN /\ current_tick' \in Nat
    <3>1. name_res' \in {name_res, ~name_res}
      BY <1>5 DEF IpcacheTick, NameResToggled, Terminated, vars
    <3>2. current_tick' \in {current_tick, current_tick + 1}
      BY <1>5 DEF IpcacheTick, NameResToggled, Terminated, vars
    <3>3. name_res' \in BOOLEAN
      BY <3>1, Zenon DEF TypeOK
    <3> QED
      BY <3>2, <3>3 DEF TypeOK
  <2>2. UNCHANGED <<cacheVars, queue, flagVars, main, locked, poolVars>>
    BY <1>5 DEF IpcacheTick, NameResToggled, Terminated, vars
  <2> QED
    BY <2>1, <2>2 DEF cacheVars, flagVars, poolVars, TypeOK
<1>3. CASE StopThreads
  <2>1. pc' \in [Worker -> Places]
    BY <1>3 DEF StopThreads, WakeAll, TypeOK, Places
  <2> QED
    BY <1>3, <2>1, ResolverAssumption DEF StopThreads, TypeOK, cacheVars
<1>4. CASE IpcacheClear
  BY <1>4, ResolverAssumption DEF IpcacheClear, TypeOK, flagVars, poolVars
<1> QED
  BY <1>1, <1>2, <1>3, <1>4, <1>5

\* A thread between the queue and its report has an item, a thread on the way to the queue
\* has none.
HandsFit ==
  \A w \in Worker :
    /\ pc[w] \in {"query", "answer", "report"} => curitem[w] \in Block
    /\ pc[w] \in {"top", "lock", "wait", "woken"} => curitem[w] = None

\* The types are kept by every step of a thread of the pool.
LEMMA WorkerTypes ==
  ASSUME TypeOK, HandsFit, NEW w \in Worker,
         LoopTest(w) \/ Lock(w) \/ SpuriousWakeup(w) \/ WaitReturns(w)
         \/ Query(w) \/ AnswerTest(w) \/ Report(w)
  PROVE  TypeOK'
<1>1. CASE Report(w)
  <2>1. CacheType' /\ main' \in {main, "exited"}
    <3>1. CASE curitem[w] \in DOMAIN item
      <4>1. result[w] \in Addr \cup {None}
        BY DEF TypeOK
      <4> QED
        BY <1>1, <3>1, <4>1, AnswerTypes DEF Report, TypeOK, CacheType
    <3>2. CASE curitem[w] \notin DOMAIN item
      <4>1. curitem[w] \in Block
        BY <1>1 DEF Report, HandsFit
      <4>2. ASSUME NEW n \in 0 .. Len(active)
            PROVE  << curitem[w] >> \o SubSeq(active, 1, n) \in Seq(Block)
        <5>1. active \in Seq(Block) /\ Len(active) \in Nat /\ 1 \in Int /\ n \in Int
          BY LenProperties DEF TypeOK
        <5>2. \A k \in 1 .. n : active[k] \in Block
          BY <5>1, ElementOfSeq
        <5>3. SubSeq(active, 1, n) \in Seq(Block)
          BY <5>1, <5>2, SubSeqProperties
        <5> QED
          BY <4>1, <5>3, AtHead
      <4> QED
        BY <1>1, <3>2, <4>2 DEF Report, ReportFreed, TypeOK, CacheType, cacheVars
    <3> QED
      BY <3>1, <3>2
  <2>2. pc' \in [Worker -> Places] /\ curitem' \in [Worker -> Block \cup {None}]
        /\ result' \in [Worker -> Addr \cup {None}]
    BY <1>1 DEF Report, Goto, Places, TypeOK
  <2>3. damaged' \in BOOLEAN
    BY <1>1 DEF Report, ReportFreed, TypeOK
  <2>4. main' \in Addr => locked'
    BY <1>1, <2>1, ResolverAssumption DEF Report, TypeOK
  <2> QED
    BY <1>1, <2>1, <2>2, <2>3, <2>4, ResolverAssumption DEF Report, TypeOK, CacheType
<1>2. CASE Query(w)
  <2>1. PICK name \in Addr \cup {None} : result' = [result EXCEPT ![w] = name]
    BY <1>2 DEF Query, TypeOK, Item
  <2>2. pc' \in [Worker -> Places] /\ result' \in [Worker -> Addr \cup {None}]
    BY <1>2, <2>1 DEF Query, Goto, Places, TypeOK
  <2> QED
    BY <1>2, <2>2 DEF Query, TypeOK, cacheVars, flagVars
<1>3. CASE LoopTest(w) \/ SpuriousWakeup(w) \/ AnswerTest(w)
  <2>1. pc' \in [Worker -> Places]
    BY <1>3 DEF LoopTest, SpuriousWakeup, AnswerTest, Goto, Places, TypeOK
  <2> QED
    BY <1>3, <2>1 DEF LoopTest, SpuriousWakeup, AnswerTest, TypeOK, cacheVars, flagVars
<1>4. CASE Lock(w) \/ WaitReturns(w)
  <2>1. pc' \in [Worker -> Places]
    BY <1>4 DEF Lock, WaitReturns, TakeOrLeave, Goto, Places, TypeOK
  <2>2. queue' \in Seq(Block) /\ curitem' \in [Worker -> Block \cup {None}]
    <3>1. CASE UNCHANGED <<queue, curitem>>
      BY <3>1 DEF TypeOK
    <3>2. CASE queue # << >> /\ queue' = Tail(queue)
               /\ curitem' = [curitem EXCEPT ![w] = Head(queue)]
      <4>1. Head(queue) \in Block /\ Tail(queue) \in Seq(Block)
        BY <3>2, HeadTailProperties DEF TypeOK
      <4> QED
        BY <3>2, <4>1 DEF TypeOK
    <3> QED
      BY <1>4, <3>1, <3>2 DEF Lock, WaitReturns, TakeOrLeave
  <2> QED
    BY <1>4, <2>1, <2>2 DEF Lock, WaitReturns, TypeOK, cacheVars, flagVars
<1> QED
  BY <1>1, <1>2, <1>3, <1>4

\* Threads take items from the queue, which holds blocks, and give them up in the report.
LEMMA NextHandsFit ==
  ASSUME TypeOK, HandsFit, [Next]_vars
  PROVE  HandsFit'
<1>1. ASSUME NEW w \in Worker, Lock(w) \/ WaitReturns(w) PROVE HandsFit'
  <2>1. CASE UNCHANGED curitem /\ Goto(w, "wait")
    BY <1>1, <2>1 DEF HandsFit, Lock, WaitReturns, Goto, TypeOK
  <2>2. CASE UNCHANGED curitem /\ (Goto(w, "top") \/ Goto(w, "exit"))
    BY <1>1, <2>2 DEF HandsFit, Lock, WaitReturns, Goto, TypeOK
  <2>3. CASE queue # << >> /\ curitem' = [curitem EXCEPT ![w] = Head(queue)] /\ Goto(w, "query")
    <3>1. Head(queue) \in Block
      BY <2>3, HeadTailProperties DEF TypeOK
    <3> QED
      BY <2>3, <3>1 DEF HandsFit, Goto, TypeOK
  <2> QED
    BY <1>1, <2>1, <2>2, <2>3 DEF Lock, WaitReturns, TakeOrLeave
<1>2. ASSUME NEW w \in Worker, LoopTest(w) \/ SpuriousWakeup(w) \/ Query(w) \/ AnswerTest(w)
      PROVE  HandsFit'
  BY <1>2 DEF LoopTest, SpuriousWakeup, Query, AnswerTest, HandsFit, Goto, TypeOK
<1>3. ASSUME NEW w \in Worker, Report(w) PROVE HandsFit'
  <2>1. pc' = [pc EXCEPT ![w] = "top"] /\ curitem' = [curitem EXCEPT ![w] = None]
    BY <1>3 DEF Report, Goto
  <2> QED
    BY <2>1 DEF HandsFit, TypeOK
<1>4. CASE (\E a \in Addr : LookupLock(a)) \/ Lookup \/ IpcacheTick \/ NameResToggled
           \/ Signal \/ StopThreads \/ CloseMutex \/ IpcacheClear \/ Terminated
           \/ UNCHANGED vars
  <2>1. /\ UNCHANGED curitem
        /\ \A w \in Worker : pc'[w] = pc[w] \/ (pc[w] = "wait" /\ pc'[w] = "woken")
    BY <1>4 DEF LookupLock, Lookup, SignalOne, Waiting, IpcacheTick, NameResToggled, Signal,
                StopThreads, WakeAll, CloseMutex, IpcacheClear, Terminated, vars, poolVars,
                TypeOK
  <2> QED
    BY <2>1 DEF HandsFit
<1> QED
  BY <1>1, <1>2, <1>3, <1>4 DEF Next

\* Every step keeps the types.
LEMMA NextTypeOK == TypeOK /\ HandsFit /\ [Next]_vars => TypeOK' /\ HandsFit'
BY MainTypes, WorkerTypes, NextHandsFit DEF Next

\* The resolver starts with values of the right kind.
LEMMA InitTypeOK == Init => TypeOK /\ HandsFit
<1> SUFFICES ASSUME Init PROVE TypeOK /\ HandsFit
  OBVIOUS
<1>1. pc \in [Worker -> Places] /\ curitem \in [Worker -> Block \cup {None}]
      /\ result \in [Worker -> Addr \cup {None}]
  BY DEF Init, Places
<1>2. DOMAIN item = {} /\ active = << >> /\ queue = << >>
  BY DEF Init
<1>3. active \in Seq(Block) /\ queue \in Seq(Block)
  BY <1>2
<1>4. name_res \in BOOLEAN
  BY ResolverAssumption DEF Init
<1>5. HandsFit
  BY DEF Init, HandsFit
<1> QED
  BY <1>1, <1>2, <1>3, <1>4, <1>5, ResolverAssumption DEF Init, TypeOK

\* Every variable of the resolver keeps a value of its kind, above all the ticks, which
\* ipcache_calc_expire_tick adds up; the main thread holds the mutex during a lookup.
THEOREM TypeCorrect == Spec => []TypeOK
BY InitTypeOK, NextTypeOK, PTL DEF Spec

-----------------------------------------------------------------------------
(* No item is forgotten, full cache or not.                                *)

FInv == TypeOK /\ HandsFit /\ NoItemForgotten

\* sendrequest_inverse appends the item to the queue.
LEMMA QueueGrows ==
  ASSUME TypeOK, NEW b \in Block, queue' = Append(queue, b)
  PROVE  ToSet(queue') = ToSet(queue) \cup {b}
<1>1. /\ Len(queue) \in Nat /\ DOMAIN queue = 1 .. Len(queue)
      /\ queue \in Seq(Block)
  BY LenProperties DEF TypeOK
<1>2. /\ Len(queue') = Len(queue) + 1 /\ DOMAIN queue' = 1 .. Len(queue) + 1
      /\ \A i \in 1 .. Len(queue) : queue'[i] = queue[i]
      /\ queue'[Len(queue) + 1] = b
  BY <1>1, AppendProperties
<1>3. ASSUME NEW i \in 1 .. Len(queue) + 1 PROVE queue'[i] \in ToSet(queue) \cup {b}
  BY <1>1, <1>2 DEF ToSet
<1>4. ASSUME NEW i \in 1 .. Len(queue) PROVE queue[i] \in ToSet(queue')
  BY <1>1, <1>2 DEF ToSet
<1>5. b \in ToSet(queue')
  BY <1>1, <1>2 DEF ToSet
<1> QED
  BY <1>1, <1>2, <1>3, <1>4, <1>5 DEF ToSet

\* A thread takes the head of the queue and leaves the rest.
LEMMA QueueShrinks ==
  ASSUME TypeOK, queue # << >>, queue' = Tail(queue)
  PROVE  ToSet(queue) = ToSet(queue') \cup {Head(queue)}
<1>0. queue \in Seq(Block) /\ Len(queue) \in Nat /\ DOMAIN queue = 1 .. Len(queue)
  BY LenProperties DEF TypeOK
<1>1. /\ Len(queue) > 0 /\ Head(queue) = queue[1]
      /\ DOMAIN queue' = 1 .. Len(queue) - 1
      /\ \A i \in 1 .. Len(queue) - 1 : queue'[i] = queue[i + 1]
  <2>1. Tail(queue) \in Seq(Block) /\ Len(Tail(queue)) = Len(queue) - 1
    BY <1>0, HeadTailProperties
  <2>2. DOMAIN Tail(queue) = 1 .. Len(queue) - 1
    BY <2>1, LenProperties
  <2> QED
    BY <1>0, <2>2
<1>2. ASSUME NEW i \in 1 .. Len(queue) PROVE queue[i] \in ToSet(queue') \cup {Head(queue)}
  <2>1. CASE i = 1
    BY <1>1, <2>1
  <2>2. CASE i # 1
    <3>1. i - 1 \in 1 .. Len(queue) - 1 /\ queue'[i - 1] = queue[i]
      BY <1>0, <1>1, <2>2
    <3> QED
      BY <1>1, <3>1 DEF ToSet
  <2> QED
    BY <2>1, <2>2
<1>3. ASSUME NEW i \in 1 .. Len(queue) - 1 PROVE queue'[i] \in ToSet(queue)
  <2>1. i + 1 \in 1 .. Len(queue) /\ queue'[i] = queue[i + 1]
    BY <1>0, <1>1
  <2> QED
    BY <1>0, <2>1 DEF ToSet
<1>4. Head(queue) \in ToSet(queue)
  BY <1>0, <1>1 DEF ToSet
<1> QED
  BY <1>0, <1>1, <1>2, <1>3, <1>4 DEF ToSet

\* ipcache_prepare_request marks one item as asked and leaves the others as they are.
LEMMA RequestMarks ==
  ASSUME TypeOK, NEW a \in Addr, NEW b \in Block, PrepareRequest(a, b)
  PROVE  /\ DOMAIN item' = DOMAIN item \cup {b}
         /\ \A c \in DOMAIN item : c # b => item'[c] = item[c]
         /\ item'[b].state = "PTRREQ"
<1>0. \A c \in DOMAIN item : item[c] \in Item
  BY DEF TypeOK
<1>1. CASE Find(a) # {}
  <2>1. PICK e \in ExpireTicks(RequestDelay(b)) :
          item' = [item EXCEPT ![b].state = "PTRREQ", ![b].expire_tick = e,
                               ![b].wait = e - current_tick]
    BY <1>1 DEF PrepareRequest
  <2>2. b \in DOMAIN item
    BY <1>1 DEF PrepareRequest, Find
  <2>3. DOMAIN item' = DOMAIN item /\ \A c \in DOMAIN item : c # b => item'[c] = item[c]
    BY <2>1
  <2>4. item'[b].state = "PTRREQ"
    BY <1>0, <2>1, <2>2 DEF Item
  <2> QED
    BY <2>2, <2>3, <2>4
<1>2. CASE Find(a) = {}
  <2>1. PICK e \in ExpireTicks(0) :
          item' = [c \in DOMAIN item \cup {b} |->
                     IF c = b THEN [ip |-> a, state |-> "PTRREQ", expire_tick |-> e,
                                    name |-> None, wait |-> e - current_tick]
                     ELSE item[c]]
    BY <1>2 DEF PrepareRequest
  <2> QED
    BY <2>1
<1> QED
  BY <1>1, <1>2

\* What an answer does to the cache, whatever the purge frees meanwhile: the item that is
\* answered is linked, every other item is as it was, and what leaves the active list
\* leaves the cache.
LEMMA AnswerLinks ==
  ASSUME TypeOK, NEW b \in DOMAIN item, NEW name,
         RequestFailed(b) \/ RequestSucceeded(b, name),
         item[b].state = "FINISHED" => b \in ToSet(active)
  PROVE  /\ DOMAIN item' \subseteq DOMAIN item
         /\ \A c \in DOMAIN item' : c # b => item'[c] = item[c]
         /\ \A c \in DOMAIN item' : c \in ToSet(active) => c \in ToSet(active')
         /\ b \in ToSet(active')
         /\ b \in DOMAIN item' => item'[b].state # "PTRREQ"
<1>0. b \in Block /\ active \in Seq(Block) /\ item[b] \in Item
  BY DEF TypeOK
<1>1. b \in ToSet(Linked(active, b))
  BY <1>0, LinkedHas
<1>2. ASSUME NEW heap, DOMAIN heap = DOMAIN item, \A c \in DOMAIN item : c # b => heap[c] = item[c],
             heap[b].state # "PTRREQ",
             active' = Linked(active, b), item' = Unpurged(heap, active, b)
      PROVE  /\ DOMAIN item' \subseteq DOMAIN item
             /\ \A c \in DOMAIN item' : c # b => item'[c] = item[c]
             /\ \A c \in DOMAIN item' : c \in ToSet(active) => c \in ToSet(active')
             /\ b \in ToSet(active')
             /\ b \in DOMAIN item' => item'[b].state # "PTRREQ"
  <2>1. /\ DOMAIN item' = DOMAIN item \ (ToSet(active) \ ToSet(active'))
        /\ \A c \in DOMAIN item' : item'[c] = heap[c]
    BY <1>2 DEF Unpurged
  <2> QED
    BY <1>1, <1>2, <2>1
<1>3. CASE RequestFailed(b) /\ item[b].state = "FINISHED"
  BY <1>3 DEF RequestFailed, cacheVars
<1>4. CASE RequestFailed(b) /\ item[b].state # "FINISHED"
  <2>1. PICK e \in ExpireTicks(FailDelay) :
          /\ active' = Linked(active, b)
          /\ item' = Unpurged([item EXCEPT ![b].state = "FAILED", ![b].wait = 0,
                                           ![b].expire_tick = e], active, b)
    BY <1>4 DEF RequestFailed
  <2> DEFINE heap == [item EXCEPT ![b].state = "FAILED", ![b].wait = 0, ![b].expire_tick = e]
  <2>2. DOMAIN heap = DOMAIN item /\ \A c \in DOMAIN item : c # b => heap[c] = item[c]
    OBVIOUS
  <2>3. heap[b].state # "PTRREQ"
    BY <1>0 DEF Item
  <2>4. active' = Linked(active, b) /\ item' = Unpurged(heap, active, b)
    BY <2>1
  <2> HIDE DEF heap
  <2> QED
    BY <1>2, <2>2, <2>3, <2>4
<1>5. CASE RequestSucceeded(b, name)
  <2>1. PICK e \in ExpireTicks(FoundDelay) :
          /\ active' = Linked(active, b)
          /\ item' = Unpurged([item EXCEPT ![b].state = "FINISHED", ![b].expire_tick = e,
                                           ![b].wait = 0, ![b].name = name], active, b)
    BY <1>5 DEF RequestSucceeded
  <2> DEFINE heap == [item EXCEPT ![b].state = "FINISHED", ![b].expire_tick = e,
                                  ![b].wait = 0, ![b].name = name]
  <2>2. DOMAIN heap = DOMAIN item /\ \A c \in DOMAIN item : c # b => heap[c] = item[c]
    OBVIOUS
  <2>3. heap[b].state # "PTRREQ"
    BY <1>0 DEF Item
  <2>4. active' = Linked(active, b) /\ item' = Unpurged(heap, active, b)
    BY <2>1
  <2> HIDE DEF heap
  <2> QED
    BY <1>2, <2>2, <2>3, <2>4
<1> QED
  BY <1>3, <1>4, <1>5

\* thread_lookup: an item that is found and answered is in the active list already, so that
\* no purge comes; an item that is asked for is queued.
LEMMA LookupForgetsNone ==
  ASSUME FInv, Lookup
  PROVE  NoItemForgotten'
<1>0. main \in Addr /\ Running /\ UNCHANGED <<request_stop_thread, damaged, curitem>>
  BY ResolverAssumption DEF Lookup, Running, flagVars
<1> SUFFICES ASSUME ~request_stop_thread, ~damaged', NEW c \in DOMAIN item'
             PROVE  IF item'[c].state = "PTRREQ" THEN Outstanding(c)' ELSE c \in ToSet(active')
  BY <1>0 DEF NoItemForgotten
<1>1. \A d \in DOMAIN item : IF item[d].state = "PTRREQ" THEN Outstanding(d)
                                                        ELSE d \in ToSet(active)
  BY <1>0 DEF FInv, NoItemForgotten
<1>2. ToSet(active') = ToSet(active)
  <2>1. CASE active' = active
    BY <2>1
  <2>2. CASE active' # active
    <3>1. PICK d \in DOMAIN item : item[d].state # "PTRREQ" /\ active' = Linked(active, d)
      BY <2>2 DEF Lookup, Touched, Answered, Find
    <3>2. d \in ToSet(active) /\ d \in Block /\ active \in Seq(Block)
      BY <1>1, <3>1 DEF FInv, TypeOK
    <3> QED
      BY <3>1, <3>2, LinkedAgain
  <2> QED
    BY <2>1, <2>2
<1>3. ASSUME NEW b \in Block, PrepareRequest(main, b), queue' = Append(queue, b)
      PROVE  IF item'[c].state = "PTRREQ" THEN Outstanding(c)' ELSE c \in ToSet(active')
  <2>1. /\ DOMAIN item' = DOMAIN item \cup {b}
        /\ \A d \in DOMAIN item : d # b => item'[d] = item[d]
        /\ item'[b].state = "PTRREQ"
    BY <1>0, <1>3, RequestMarks DEF FInv
  <2>2. ToSet(queue') = ToSet(queue) \cup {b}
    BY <1>3, QueueGrows DEF FInv
  <2>3. CASE c = b
    BY <2>1, <2>2, <2>3 DEF Outstanding
  <2>4. CASE c # b
    <3>1. c \in DOMAIN item /\ item'[c] = item[c]
      BY <2>1, <2>4
    <3>2. Outstanding(c) => Outstanding(c)'
      BY <1>0, <2>2 DEF Outstanding
    <3> QED
      BY <1>1, <1>2, <3>1, <3>2
  <2> QED
    BY <2>3, <2>4
<1>4. CASE UNCHANGED <<item, queue>>
  BY <1>0, <1>1, <1>2, <1>4 DEF Outstanding
<1> QED
  BY <1>3, <1>4 DEF Lookup

\* The report: the request ends, and with it nothing but the item it was for, which is
\* linked then.  If that item is no longer there nothing else is touched.
LEMMA ReportForgetsNone ==
  ASSUME FInv, NEW w \in Worker, Report(w)
  PROVE  NoItemForgotten'
<1> DEFINE b == curitem[w]
<1>0. /\ Running /\ TypeOK /\ UNCHANGED <<queue, request_stop_thread>>
      /\ \A v \in Worker \ {w} : curitem'[v] = curitem[v]
  BY DEF FInv, Report, TypeOK, flagVars
<1>1. b \in Block
  BY DEF FInv, HandsFit, Report
<1> HIDE DEF b
<1> SUFFICES ASSUME ~request_stop_thread, ~damaged', NEW c \in DOMAIN item'
             PROVE  IF item'[c].state = "PTRREQ" THEN Outstanding(c)' ELSE c \in ToSet(active')
  BY <1>0 DEF NoItemForgotten
<1>2. \A d \in DOMAIN item : IF item[d].state = "PTRREQ" THEN Outstanding(d)
                                                        ELSE d \in ToSet(active)
  <2>1. ~damaged
    BY DEF Report, ReportFreed
  <2> QED
    BY <1>0, <2>1 DEF FInv, NoItemForgotten
<1>3. ASSUME NEW d, d # b, Outstanding(d) PROVE Outstanding(d)'
  <2>1. CASE d \in ToSet(queue)
    BY <1>0, <2>1 DEF Outstanding
  <2>2. ASSUME NEW v \in Worker, curitem[v] = d PROVE Outstanding(d)'
    <3>1. v # w
      BY <1>3, <2>2 DEF b
    <3> QED
      BY <1>0, <2>2, <3>1 DEF Outstanding
  <2> QED
    BY <1>3, <2>1, <2>2 DEF Outstanding
<1>4. CASE b \in DOMAIN item
  <2>1. RequestFailed(b) \/ RequestSucceeded(b, result[w])
    BY <1>4 DEF Report, b
  <2>2. item[b].state = "FINISHED" => b \in ToSet(active)
    BY <1>2, <1>4
  <2>3. /\ DOMAIN item' \subseteq DOMAIN item
        /\ \A d \in DOMAIN item' : d # b => item'[d] = item[d]
        /\ \A d \in DOMAIN item' : d \in ToSet(active) => d \in ToSet(active')
        /\ b \in ToSet(active')
        /\ b \in DOMAIN item' => item'[b].state # "PTRREQ"
    BY <1>0, <1>4, <2>1, <2>2, AnswerLinks
  <2>4. CASE c = b
    BY <2>3, <2>4
  <2>5. CASE c # b
    BY <1>2, <1>3, <2>3, <2>5
  <2> QED
    BY <2>4, <2>5
<1>5. CASE b \notin DOMAIN item
  <2>1. ReportFreed(b)
    BY <1>5 DEF Report, b
  <2>2. item' = item /\ active' = active
    BY <2>1 DEF ReportFreed, cacheVars
  <2>3. c # b
    BY <1>5, <2>2
  <2> QED
    BY <1>2, <1>3, <2>2, <2>3
<1> QED
  BY <1>4, <1>5

\* A thread that takes a request has its item, and what it does not take stays queued.
LEMMA TakeForgetsNone ==
  ASSUME FInv, NEW w \in Worker, Lock(w) \/ WaitReturns(w)
  PROVE  NoItemForgotten'
<1>0. /\ Running /\ TypeOK /\ UNCHANGED <<item, active, request_stop_thread, damaged>>
      /\ curitem[w] = None
  BY DEF FInv, HandsFit, Lock, WaitReturns, cacheVars, flagVars
<1>1. ASSUME NEW c \in DOMAIN item, Outstanding(c) PROVE Outstanding(c)'
  <2>1. CASE UNCHANGED <<queue, curitem>>
    BY <1>1, <2>1 DEF Outstanding
  <2>2. CASE /\ queue # << >> /\ queue' = Tail(queue)
             /\ curitem' = [curitem EXCEPT ![w] = Head(queue)]
    <3>1. ToSet(queue) = ToSet(queue') \cup {Head(queue)}
      BY <1>0, <2>2, QueueShrinks
    <3>2. curitem'[w] = Head(queue) /\ \A v \in Worker \ {w} : curitem'[v] = curitem[v]
      BY <1>0, <2>2 DEF TypeOK
    <3>3. ASSUME NEW v \in Worker, curitem[v] = c PROVE Outstanding(c)'
      <4>1. c # None
        BY <1>0, ResolverAssumption DEF TypeOK
      <4>2. v # w
        BY <1>0, <3>3, <4>1
      <4> QED
        BY <3>2, <3>3, <4>2 DEF Outstanding
    <3> QED
      BY <1>1, <3>1, <3>2, <3>3 DEF Outstanding
  <2> QED
    BY <2>1, <2>2 DEF Lock, WaitReturns, TakeOrLeave
<1> QED
  BY <1>0, <1>1 DEF FInv, NoItemForgotten

\* Every step keeps the invariant.
LEMMA NextFInv == FInv /\ [Next]_vars => FInv'
<1> SUFFICES ASSUME FInv, [Next]_vars PROVE NoItemForgotten'
  BY NextTypeOK DEF FInv
<1>1. CASE Lookup
  BY <1>1, LookupForgetsNone
<1>2. CASE \E w \in Worker : Report(w)
  BY <1>2, ReportForgetsNone
<1>3. CASE \E w \in Worker : Lock(w) \/ WaitReturns(w)
  BY <1>3, TakeForgetsNone
<1>4. CASE IpcacheClear
  BY <1>4 DEF IpcacheClear, NoItemForgotten, Running
<1>5. CASE StopThreads
  BY <1>5 DEF StopThreads, NoItemForgotten
<1>6. CASE (\E w \in Worker : LoopTest(w) \/ SpuriousWakeup(w) \/ Query(w) \/ AnswerTest(w))
           \/ (\E a \in Addr : LookupLock(a)) \/ IpcacheTick \/ NameResToggled \/ Signal
           \/ CloseMutex \/ Terminated \/ UNCHANGED vars
  <2>1. UNCHANGED <<item, active, queue, curitem, request_stop_thread, damaged>>
    BY <1>6 DEF LoopTest, SpuriousWakeup, Query, AnswerTest, LookupLock, IpcacheTick,
                NameResToggled, Signal, CloseMutex, Terminated, vars, cacheVars, flagVars,
                poolVars
  <2>2. Running' => Running
    <3>1. UNCHANGED main \/ main = "idle" \/ main = "closing" \/ main \in Addr
      BY <1>6 DEF LoopTest, SpuriousWakeup, Query, AnswerTest, LookupLock, IpcacheTick,
                  NameResToggled, Signal, CloseMutex, Terminated, vars
    <3> QED
      BY <3>1, ResolverAssumption DEF Running
  <2> QED
    BY <2>1, <2>2 DEF FInv, NoItemForgotten, Outstanding
<1> QED
  BY <1>1, <1>2, <1>3, <1>4, <1>5, <1>6 DEF Next

\* However many addresses are looked up: an item that shows as asked is queued or with a
\* thread, and one that has been answered is in the active list, although the purge of a
\* full cache frees items under their requests and their blocks are used again
\* (ipcache_purge_activelist); until a thread reports to a block that is still free.
THEOREM NoItemIsForgotten == Spec => []NoItemForgotten
<1>1. Init => FInv
  <2>1. Init => NoItemForgotten
    BY DEF Init, NoItemForgotten
  <2> QED
    BY <2>1, InitTypeOK DEF FInv
<1>2. FInv => NoItemForgotten
  BY DEF FInv
<1> QED
  BY <1>1, <1>2, NextFInv, PTL DEF Spec

-----------------------------------------------------------------------------
(* The names in a cache that has room.                                     *)

\* The resolver is asked for no more addresses than the active list keeps (1024).  Beyond
\* that ipcache_purge_activelist frees items whose requests are not answered, and a name may
\* reach the item of another address that has got the block.
FewAddresses == IsFiniteSet(Addr) /\ Cardinality(Addr) <= MaxActive

\* The cache has one item for an address, with the name of the address or none.
ItemsSound ==
  /\ \A b, c \in DOMAIN item : item[b].ip = item[c].ip => b = c
  /\ \A b \in DOMAIN item : item[b].name \in {None, item[b].ip}

\* The active list links items of the cache, each of them once.
ListSound == ToSet(active) \subseteq DOMAIN item /\ Once(active)

\* A thread that holds an item is between the queue and its report, the item is in the
\* cache, and what the thread has found is the name of the item's address.
Holds(w) == curitem[w] # None

ThreadSound(w) ==
  /\ pc[w] \in {"query", "answer", "report"} => Holds(w)
  /\ Holds(w) => curitem[w] \in DOMAIN item
                 /\ pc[w] \in {"query", "answer", "report", "exit"}
  /\ result[w] # None => Holds(w) /\ result[w] = item[curitem[w]].ip

QueueSound == ToSet(queue) \subseteq DOMAIN item

RequestsSound == Running => QueueSound /\ \A w \in Worker : ThreadSound(w)

CInv == TypeOK /\ HandsFit /\ ItemsSound /\ ListSound /\ RequestsSound

\* The active list never has more items than there are addresses.
LEMMA NeverTooLong ==
  ASSUME FewAddresses, TypeOK, ItemsSound, ListSound
  PROVE  Len(active) <= MaxActive
<1> DEFINE f == [i \in 1 .. Len(active) |-> item[active[i]].ip]
<1>0. Len(active) \in Nat /\ DOMAIN active = 1 .. Len(active)
  BY LenProperties DEF TypeOK
<1>1. \A i \in 1 .. Len(active) : active[i] \in DOMAIN item
  BY <1>0 DEF ListSound, ToSet
<1>2. f \in [1 .. Len(active) -> Addr]
  BY <1>1 DEF TypeOK, Item
<1>3. \A i, j \in 1 .. Len(active) : f[i] = f[j] => i = j
  BY <1>0, <1>1 DEF ItemsSound, ListSound, Once
<1>4. f \in Injection(1 .. Len(active), Addr)
  BY <1>2, <1>3 DEF Injection, IsInjective
<1>5. Cardinality(1 .. Len(active)) <= Cardinality(Addr)
  BY <1>4, FS_Injection DEF FewAddresses
<1>6. Cardinality(1 .. Len(active)) = Len(active)
  <2>1. Cardinality(1 .. Len(active)) = IF 1 > Len(active) THEN 0 ELSE Len(active) - 1 + 1
    BY <1>0, FS_Interval
  <2> QED
    BY <1>0, <2>1
<1>7. Cardinality(Addr) \in Nat /\ MaxActive \in Nat
  BY FS_CardinalityType, ResolverAssumption DEF FewAddresses
<1> QED
  BY <1>0, <1>5, <1>6, <1>7 DEF FewAddresses

\* So ipcache_link_activelist purges nothing.
LEMMA LinkedSound ==
  ASSUME FewAddresses, TypeOK, ItemsSound, ListSound, NEW b \in DOMAIN item
  PROVE  ToSet(Linked(active, b)) = ToSet(active) \cup {b} /\ Once(Linked(active, b))
<1>1. active \in Seq(Block) /\ b \in Block
  BY DEF TypeOK
<1> QED
  BY <1>1, NeverTooLong, LinkedSet DEF ListSound

\* What an answer does to the cache: it gives the item the name that was found, and leaves
\* all else.
LEMMA AnswerSound ==
  ASSUME FewAddresses, TypeOK, ItemsSound, ListSound, NEW b \in DOMAIN item, NEW name,
         RequestFailed(b) \/ (RequestSucceeded(b, name) /\ name = item[b].ip)
  PROVE  /\ DOMAIN item' = DOMAIN item
         /\ \A c \in DOMAIN item : /\ item'[c].ip = item[c].ip
                                   /\ item'[c].name \in {item[c].name, item[c].ip}
         /\ ListSound'
<1>0. \A c \in DOMAIN item : item[c] \in Item
  BY DEF TypeOK
<1>1. ToSet(Linked(active, b)) = ToSet(active) \cup {b} /\ Once(Linked(active, b))
  BY LinkedSound
<1>2. ASSUME NEW heap, DOMAIN heap = DOMAIN item
      PROVE  /\ DOMAIN Unpurged(heap, active, b) = DOMAIN item
             /\ \A c \in DOMAIN item : Unpurged(heap, active, b)[c] = heap[c]
  BY <1>1, <1>2 DEF Unpurged
<1>3. CASE RequestFailed(b) /\ item[b].state = "FINISHED"
  BY <1>3 DEF RequestFailed, cacheVars, ListSound, Once
<1>4. CASE RequestFailed(b) /\ item[b].state # "FINISHED"
  <2>1. PICK e \in ExpireTicks(FailDelay) :
          /\ active' = Linked(active, b)
          /\ item' = Unpurged([item EXCEPT ![b].state = "FAILED", ![b].wait = 0,
                                           ![b].expire_tick = e], active, b)
    BY <1>4 DEF RequestFailed
  <2> DEFINE heap == [item EXCEPT ![b].state = "FAILED", ![b].wait = 0, ![b].expire_tick = e]
  <2>2. DOMAIN item' = DOMAIN item /\ \A c \in DOMAIN item : item'[c] = heap[c]
    <3>1. DOMAIN heap = DOMAIN item /\ item' = Unpurged(heap, active, b)
      BY <2>1
    <3> HIDE DEF heap
    <3> QED
      BY <1>2, <3>1
  <2>3. \A c \in DOMAIN item : c # b => heap[c] = item[c]
    OBVIOUS
  <2>4. heap[b].ip = item[b].ip /\ heap[b].name = item[b].name
    BY <1>0 DEF Item
  <2>5. ListSound'
    BY <1>1, <2>1, <2>2 DEF ListSound, Once
  <2> HIDE DEF heap
  <2> QED
    BY <2>2, <2>3, <2>4, <2>5
<1>5. CASE RequestSucceeded(b, name) /\ name = item[b].ip
  <2>1. PICK e \in ExpireTicks(FoundDelay) :
          /\ active' = Linked(active, b)
          /\ item' = Unpurged([item EXCEPT ![b].state = "FINISHED", ![b].expire_tick = e,
                                           ![b].wait = 0, ![b].name = name], active, b)
    BY <1>5 DEF RequestSucceeded
  <2> DEFINE heap == [item EXCEPT ![b].state = "FINISHED", ![b].expire_tick = e,
                                  ![b].wait = 0, ![b].name = name]
  <2>2. DOMAIN item' = DOMAIN item /\ \A c \in DOMAIN item : item'[c] = heap[c]
    <3>1. DOMAIN heap = DOMAIN item /\ item' = Unpurged(heap, active, b)
      BY <2>1
    <3> HIDE DEF heap
    <3> QED
      BY <1>2, <3>1
  <2>3. \A c \in DOMAIN item : c # b => heap[c] = item[c]
    OBVIOUS
  <2>4. heap[b].ip = item[b].ip /\ heap[b].name = name
    BY <1>0 DEF Item
  <2>5. ListSound'
    BY <1>1, <2>1, <2>2 DEF ListSound, Once
  <2> HIDE DEF heap
  <2> QED
    BY <1>5, <2>2, <2>3, <2>4, <2>5
<1> QED
  BY <1>3, <1>4, <1>5

\* ipcache_prepare_request and the entry in the queue: no address gets a second item, no
\* item leaves, and the item that now waits is queued.
LEMMA RequestSound ==
  ASSUME TypeOK, ItemsSound, NEW a \in Addr, NEW b \in Block, PrepareRequest(a, b),
         queue' = Append(queue, b)
  PROVE  /\ DOMAIN item' = DOMAIN item \cup {b}
         /\ \A c \in DOMAIN item : /\ item'[c].ip = item[c].ip
                                   /\ item'[c].name = item[c].name
         /\ ItemsSound'
         /\ ToSet(queue') = ToSet(queue) \cup {b}
<1>0. \A c \in DOMAIN item : item[c] \in Item
  BY DEF TypeOK
<1>1. ToSet(queue') = ToSet(queue) \cup {b}
  BY QueueGrows
<1>2. CASE Find(a) # {}
  <2>1. PICK e \in ExpireTicks(RequestDelay(b)) :
          item' = [item EXCEPT ![b].state = "PTRREQ", ![b].expire_tick = e,
                               ![b].wait = e - current_tick]
    BY <1>2 DEF PrepareRequest
  <2>2. b \in DOMAIN item
    BY <1>2 DEF PrepareRequest, Find
  <2>3. DOMAIN item' = DOMAIN item /\ \A c \in DOMAIN item : c # b => item'[c] = item[c]
    BY <2>1
  <2>4. item'[b].ip = item[b].ip /\ item'[b].name = item[b].name
    BY <1>0, <2>1, <2>2 DEF Item
  <2> QED
    BY <1>1, <2>2, <2>3, <2>4 DEF ItemsSound
<1>3. CASE Find(a) = {}
  <2>1. PICK e \in ExpireTicks(0) :
          item' = [c \in DOMAIN item \cup {b} |->
                     IF c = b THEN [ip |-> a, state |-> "PTRREQ", expire_tick |-> e,
                                    name |-> None, wait |-> e - current_tick]
                     ELSE item[c]]
    BY <1>3 DEF PrepareRequest
  <2>2. b \notin DOMAIN item /\ \A c \in DOMAIN item : item[c].ip # a
    BY <1>3 DEF PrepareRequest, Find
  <2>3. /\ DOMAIN item' = DOMAIN item \cup {b}
        /\ \A c \in DOMAIN item : item'[c] = item[c]
        /\ item'[b].ip = a /\ item'[b].name = None
    BY <2>1, <2>2
  <2> QED
    BY <1>1, <2>2, <2>3 DEF ItemsSound
<1> QED
  BY <1>2, <1>3

\* thread_lookup keeps the cache sound.
LEMMA LookupSound ==
  ASSUME FewAddresses, CInv, Lookup
  PROVE  ItemsSound' /\ ListSound' /\ RequestsSound'
<1>0. /\ main \in Addr /\ QueueSound /\ \A w \in Worker : ThreadSound(w)
  BY ResolverAssumption DEF Lookup, Running, CInv, RequestsSound
<1>1. ToSet(active') \subseteq DOMAIN item /\ Once(active')
  <2>1. CASE active' = active
    BY <2>1 DEF CInv, ListSound
  <2>2. CASE active' # active
    <3>1. PICK c \in DOMAIN item : active' = Linked(active, c)
      BY <2>2 DEF Lookup, Touched, Answered, Find
    <3> QED
      BY <3>1, LinkedSound DEF CInv, ListSound
  <2> QED
    BY <2>1, <2>2
<1>2. UNCHANGED <<request_stop_thread, curitem, result>>
  BY DEF Lookup, flagVars
<1>3. \A w \in Worker : pc'[w] = pc[w] \/ (pc[w] = "wait" /\ pc'[w] = "woken")
  BY DEF Lookup, SignalOne, Waiting, CInv, TypeOK
<1>4. ASSUME NEW b \in Block, PrepareRequest(main, b), queue' = Append(queue, b)
      PROVE  ItemsSound' /\ ListSound' /\ RequestsSound'
  <2>1. /\ DOMAIN item' = DOMAIN item \cup {b}
        /\ \A c \in DOMAIN item : /\ item'[c].ip = item[c].ip
                                  /\ item'[c].name = item[c].name
        /\ ItemsSound'
        /\ ToSet(queue') = ToSet(queue) \cup {b}
    <3>1. TypeOK /\ ItemsSound
      BY DEF CInv
    <3> QED
      BY <1>0, <1>4, <3>1, RequestSound
  <2>2. ListSound'
    BY <1>1, <2>1 DEF ListSound
  <2>3. QueueSound'
    BY <1>0, <2>1 DEF QueueSound
  <2>4. ASSUME NEW w \in Worker PROVE ThreadSound(w)'
    <3>1. ThreadSound(w) /\ (pc'[w] = pc[w] \/ (pc[w] = "wait" /\ pc'[w] = "woken"))
          /\ curitem'[w] = curitem[w] /\ result'[w] = result[w]
      BY <1>0, <1>2, <1>3
    <3>2. Holds(w) => item'[curitem[w]].ip = item[curitem[w]].ip
      BY <2>1, <3>1 DEF ThreadSound
    <3> QED
      BY <2>1, <3>1, <3>2 DEF ThreadSound, Holds
  <2> QED
    BY <2>1, <2>2, <2>3, <2>4 DEF RequestsSound
<1>5. CASE UNCHANGED <<item, queue, pc>>
  BY <1>0, <1>1, <1>2, <1>5
     DEF CInv, ItemsSound, ListSound, RequestsSound, QueueSound, ThreadSound, Holds
<1> QED
  BY <1>4, <1>5 DEF Lookup

\* A thread that comes back with an answer finds its item and keeps the cache sound.
LEMMA ReportSound ==
  ASSUME FewAddresses, CInv, NEW w \in Worker, Report(w)
  PROVE  ItemsSound' /\ ListSound' /\ RequestsSound'
<1> DEFINE b == curitem[w]
<1>0. /\ Running /\ QueueSound /\ \A v \in Worker : ThreadSound(v)
      /\ TypeOK /\ ItemsSound /\ ListSound
  BY DEF CInv, RequestsSound, Report
<1>1. b \in DOMAIN item /\ Holds(w)
  BY <1>0 DEF ThreadSound, Report
<1>2. RequestFailed(b) \/ (RequestSucceeded(b, result[w]) /\ result[w] = item[b].ip)
  BY <1>0, <1>1 DEF Report, ThreadSound
<1>3. /\ DOMAIN item' = DOMAIN item
      /\ \A c \in DOMAIN item : /\ item'[c].ip = item[c].ip
                                /\ item'[c].name \in {item[c].name, item[c].ip}
      /\ ListSound'
  <2> HIDE DEF b
  <2> QED
    BY <1>0, <1>1, <1>2, AnswerSound
<1>4. /\ \A v \in Worker \ {w} : pc'[v] = pc[v] /\ curitem'[v] = curitem[v]
                                 /\ result'[v] = result[v]
      /\ pc'[w] = "top" /\ curitem'[w] = None /\ result'[w] = None
      /\ UNCHANGED <<queue, request_stop_thread>>
  BY <1>0 DEF Report, Goto, TypeOK, flagVars
<1>5. ItemsSound'
  <2>1. \A c, d \in DOMAIN item' : item'[c].ip = item'[d].ip => c = d
    BY <1>0, <1>3 DEF ItemsSound
  <2>2. \A c \in DOMAIN item' : item'[c].name \in {None, item'[c].ip}
    <3> SUFFICES ASSUME NEW c \in DOMAIN item PROVE item'[c].name \in {None, item'[c].ip}
      BY <1>3
    <3>1. item'[c].ip = item[c].ip /\ item'[c].name \in {item[c].name, item[c].ip}
      BY <1>3
    <3>2. item[c].name \in {None, item[c].ip}
      BY <1>0 DEF ItemsSound
    <3> QED
      BY <3>1, <3>2
  <2> QED
    BY <2>1, <2>2 DEF ItemsSound
<1>6. QueueSound'
  BY <1>0, <1>3, <1>4 DEF QueueSound
<1>7. ASSUME NEW v \in Worker PROVE ThreadSound(v)'
  <2>1. CASE v = w
    BY <1>4, <2>1 DEF ThreadSound, Holds
  <2>2. CASE v # w
    <3>1. ThreadSound(v) /\ pc'[v] = pc[v] /\ curitem'[v] = curitem[v]
          /\ result'[v] = result[v]
      BY <1>0, <1>4, <2>2
    <3>2. Holds(v) => item'[curitem[v]].ip = item[curitem[v]].ip
      BY <1>3, <3>1 DEF ThreadSound
    <3> QED
      BY <1>3, <3>1, <3>2 DEF ThreadSound, Holds
  <2> QED
    BY <2>1, <2>2
<1> QED
  BY <1>3, <1>5, <1>6, <1>7 DEF RequestsSound

\* A thread that takes a request keeps what the queue knew of it.
LEMMA TakeSound ==
  ASSUME CInv, NEW w \in Worker, Lock(w) \/ WaitReturns(w)
  PROVE  RequestsSound'
<1>0. /\ Running /\ QueueSound /\ \A v \in Worker : ThreadSound(v)
      /\ TypeOK /\ pc[w] \in {"lock", "woken"} /\ ~ Holds(w) /\ result[w] = None
  BY DEF CInv, RequestsSound, Lock, WaitReturns, ThreadSound
<1>1. UNCHANGED <<item, request_stop_thread, result>>
  BY DEF Lock, WaitReturns, cacheVars, flagVars
<1>2. \A v \in Worker \ {w} : pc'[v] = pc[v] /\ curitem'[v] = curitem[v]
  BY <1>0 DEF Lock, WaitReturns, TakeOrLeave, Goto, TypeOK
<1>3. CASE UNCHANGED <<queue, curitem>> /\ pc'[w] \in {"wait", "exit", "top"}
  <2>1. ASSUME NEW v \in Worker PROVE ThreadSound(v)'
    BY <1>0, <1>1, <1>2, <1>3 DEF ThreadSound, Holds
  <2>2. QueueSound'
    BY <1>0, <1>1, <1>3 DEF QueueSound
  <2> QED
    BY <2>1, <2>2 DEF RequestsSound
<1>4. CASE /\ queue # << >> /\ queue' = Tail(queue)
           /\ curitem' = [curitem EXCEPT ![w] = Head(queue)]
           /\ pc'[w] = "query"
  <2>1. ToSet(queue) = ToSet(queue') \cup {Head(queue)}
    BY <1>0, <1>4, QueueShrinks
  <2>2. curitem'[w] = Head(queue) /\ Head(queue) \in DOMAIN item
    BY <1>0, <1>4, <2>1 DEF QueueSound, TypeOK
  <2>3. None \notin DOMAIN item
    BY <1>0, ResolverAssumption DEF TypeOK
  <2>4. ASSUME NEW v \in Worker PROVE ThreadSound(v)'
    BY <1>0, <1>1, <1>2, <1>4, <2>2, <2>3 DEF ThreadSound, Holds
  <2>5. QueueSound'
    BY <1>0, <1>1, <2>1 DEF QueueSound
  <2> QED
    BY <2>4, <2>5 DEF RequestsSound
<1> QED
  BY <1>0, <1>3, <1>4 DEF Lock, WaitReturns, TakeOrLeave, Goto, TypeOK

\* The steps of a thread that touch neither queue nor cache.
LEMMA ThreadStepSound ==
  ASSUME CInv, NEW w \in Worker,
         LoopTest(w) \/ SpuriousWakeup(w) \/ Query(w) \/ AnswerTest(w)
  PROVE  RequestsSound'
<1>0. /\ Running /\ QueueSound /\ \A v \in Worker : ThreadSound(v)
      /\ TypeOK
  BY DEF CInv, RequestsSound, LoopTest, SpuriousWakeup, Query, AnswerTest
<1>1. UNCHANGED <<item, queue, request_stop_thread, curitem>>
  BY DEF LoopTest, SpuriousWakeup, Query, AnswerTest, cacheVars, flagVars
<1>2. QueueSound'
  BY <1>0, <1>1 DEF QueueSound
<1>3. \A v \in Worker \ {w} : pc'[v] = pc[v] /\ result'[v] = result[v]
  BY <1>0 DEF LoopTest, SpuriousWakeup, Query, AnswerTest, Goto, TypeOK
<1>4. ThreadSound(w)'
  <2>1. CASE Query(w)
    <3>1. pc[w] = "query" /\ pc'[w] = "answer" /\ Holds(w) /\ curitem[w] \in DOMAIN item
      BY <1>0, <2>1 DEF Query, Goto, TypeOK, ThreadSound
    <3>2. result'[w] \in {item[curitem[w]].ip, None}
      BY <1>0, <2>1, <3>1 DEF Query, TypeOK
    <3> QED
      BY <1>0, <1>1, <3>1, <3>2 DEF ThreadSound, Holds
  <2>2. CASE LoopTest(w) \/ SpuriousWakeup(w) \/ AnswerTest(w)
    <3>1. result' = result
      BY <2>2 DEF LoopTest, SpuriousWakeup, AnswerTest
    <3>2. \/ pc[w] \in {"top", "wait"} /\ pc'[w] \in {"lock", "woken", "exit"}
          \/ pc[w] = "answer" /\ pc'[w] \in {"exit", "report"}
      BY <1>0, <2>2 DEF LoopTest, SpuriousWakeup, AnswerTest, Goto, TypeOK
    <3> QED
      BY <1>0, <1>1, <3>1, <3>2 DEF ThreadSound, Holds
  <2> QED
    BY <2>1, <2>2
<1>5. ASSUME NEW v \in Worker PROVE ThreadSound(v)'
  BY <1>0, <1>1, <1>3, <1>4 DEF ThreadSound, Holds
<1> QED
  BY <1>2, <1>5 DEF RequestsSound

\* The steps of the main thread beside the lookup; ipcache_clear ends the program.
LEMMA MainSound ==
  ASSUME CInv,
         (\E a \in Addr : LookupLock(a)) \/ IpcacheTick \/ NameResToggled \/ Signal
         \/ StopThreads \/ CloseMutex \/ IpcacheClear \/ Terminated \/ UNCHANGED vars
  PROVE  ItemsSound' /\ ListSound' /\ RequestsSound'
<1>1. CASE IpcacheClear
  <2>1. /\ DOMAIN item' \subseteq DOMAIN item /\ active' = << >> /\ ~ Running'
        /\ \A b \in DOMAIN item' : item'[b] = item[b]
    BY <1>1 DEF IpcacheClear, Running
  <2>2. ItemsSound'
    BY <2>1 DEF CInv, ItemsSound
  <2>3. ListSound'
    BY <2>1 DEF ListSound, Once, ToSet
  <2> QED
    BY <2>1, <2>2, <2>3 DEF RequestsSound
<1>2. CASE ~ IpcacheClear
  <2>1. UNCHANGED <<item, active, queue, curitem, result>> /\ (Running' => Running)
    <3>1. CASE (\E a \in Addr : LookupLock(a)) \/ Signal \/ StopThreads \/ CloseMutex
      BY <3>1, ResolverAssumption
         DEF LookupLock, Signal, StopThreads, CloseMutex, cacheVars, poolVars, Running
    <3>2. CASE IpcacheTick \/ NameResToggled \/ Terminated \/ UNCHANGED vars
      <4>1. UNCHANGED <<cacheVars, queue, main, poolVars>>
        BY <3>2 DEF IpcacheTick, NameResToggled, Terminated, vars
      <4> QED
        BY <4>1 DEF cacheVars, poolVars, Running
    <3> QED
      BY <1>2, <3>1, <3>2
  <2>2. \A w \in Worker : pc'[w] = pc[w] \/ (pc[w] = "wait" /\ pc'[w] = "woken")
    BY <1>2 DEF LookupLock, IpcacheTick, NameResToggled, Signal, StopThreads, WakeAll,
                CloseMutex, Terminated, vars, poolVars
  <2>4. ItemsSound' /\ ListSound'
    BY <2>1 DEF CInv, ItemsSound, ListSound, Once
  <2>5. ASSUME Running PROVE QueueSound'
    BY <2>1, <2>5 DEF CInv, RequestsSound, QueueSound
  <2>6. ASSUME Running, NEW w \in Worker PROVE ThreadSound(w)'
    BY <2>1, <2>2, <2>6 DEF CInv, RequestsSound, ThreadSound, Holds
  <2> QED
    BY <2>1, <2>4, <2>5, <2>6 DEF RequestsSound
<1> QED
  BY <1>1, <1>2

\* Every step keeps the cache sound.
LEMMA NextCInv ==
  ASSUME FewAddresses
  PROVE  CInv /\ [Next]_vars => CInv'
<1> SUFFICES ASSUME CInv, [Next]_vars PROVE CInv'
  OBVIOUS
<1>0. TypeOK' /\ HandsFit'
  BY NextTypeOK DEF CInv
<1>1. CASE Lookup
  BY <1>0, <1>1, LookupSound DEF CInv
<1>2. CASE \E w \in Worker : Report(w)
  BY <1>0, <1>2, ReportSound DEF CInv
<1>3. ASSUME NEW w \in Worker,
             LoopTest(w) \/ Lock(w) \/ SpuriousWakeup(w) \/ WaitReturns(w) \/ Query(w)
             \/ AnswerTest(w)
      PROVE  CInv'
  <2>1. UNCHANGED <<item, active>>
    BY <1>3 DEF LoopTest, Lock, SpuriousWakeup, WaitReturns, Query, AnswerTest, cacheVars
  <2>2. RequestsSound'
    BY <1>3, TakeSound, ThreadStepSound
  <2> QED
    BY <1>0, <2>1, <2>2 DEF CInv, ItemsSound, ListSound, Once
<1>4. CASE (\E a \in Addr : LookupLock(a)) \/ IpcacheTick \/ NameResToggled \/ Signal
           \/ StopThreads \/ CloseMutex \/ IpcacheClear \/ Terminated \/ UNCHANGED vars
  BY <1>0, <1>4, MainSound DEF CInv
<1> QED
  BY <1>1, <1>2, <1>3, <1>4 DEF Next

\* The cache starts empty, and no thread holds an item.
LEMMA InitCInv == Init => CInv
<1> SUFFICES ASSUME Init PROVE CInv
  OBVIOUS
<1>1. DOMAIN item = {} /\ ToSet(active) = {} /\ ToSet(queue) = {} /\ DOMAIN active = {}
  BY DEF Init, ToSet
<1>2. \A w \in Worker : pc[w] \in {"top", "none"} /\ curitem[w] = None /\ result[w] = None
  BY DEF Init
<1> QED
  BY <1>1, <1>2, InitTypeOK
     DEF CInv, ItemsSound, ListSound, Once, RequestsSound, QueueSound, ThreadSound, Holds

\* The cache stays sound.
LEMMA CacheSound ==
  ASSUME FewAddresses
  PROVE  Spec => []CInv
BY InitCInv, NextCInv, PTL DEF Spec

\* An address has one item in the cache, and the name in it is the name of that address,
\* whatever answers come in between and in what order (ipcache_request_succeeded).
THEOREM NamesAreRight ==
  ASSUME FewAddresses
  PROVE  Spec => []RightName
<1>1. CInv => RightName
  BY DEF CInv, ItemsSound, RightName
<1> QED
  BY <1>1, CacheSound, PTL
=============================================================================
