------------------------------ MODULE Resolver ------------------------------
(***************************************************************************)
(* Name resolution: a pool of detached threads calls gethostbyaddr_r for   *)
(* the addresses the main thread looks up (thread_resolve.c), and an LRU   *)
(* cache of items remembers the answers (ip-cache.c).                      *)
(*                                                                         *)
(* One mutex and one condition variable guard queue and cache.  What a     *)
(* worker does while it holds the mutex is one action; the main thread's   *)
(* lookup is two, because a signal handler may run in the middle of it.    *)
(* A worker resolves without the mutex and holds a bare pointer to the     *)
(* item meanwhile.                                                         *)
(*                                                                         *)
(* A name is represented by the address it belongs to.  last_expire_tick   *)
(* always equals expire_tick and is not kept apart.  The id table, the     *)
(* hash chains and the list links are left out: an item is found by its    *)
(* address, queue and active list are sequences of items.                  *)
(*                                                                         *)
(* An operator whose comment starts with "Mutant" is a deliberately wrong  *)
(* variant of the operator below it.                                       *)
(***************************************************************************)
EXTENDS Integers, Sequences, FiniteSets, SequencesExt

CONSTANTS
  Addr,          \* addresses looked up
  Block,         \* memory blocks malloc may use for cache items
  Worker,        \* the threads of the pool
  None,          \* NULL
  NameResAtStart,\* what pref.name_res may be when the first capture opens
  Toggles,       \* the user may switch name resolution on and off
  Signals,       \* SIGTERM or SIGINT may arrive
  MaxActive,     \* max_active
  Slack,         \* the 10 items of room that a purge makes beyond max_active
  RefreshDelay,  \* ticks an answered item waits for its refresh (18)
  FailDelay,     \* ticks a failure is believed (8640)
  FoundDelay,    \* ticks a name is believed (ttl / 12 = 7200)
  MaxDelay,      \* longest delay (86400)
  Jitter,        \* random offsets added to a delay
  MaxTick,       \* bound on current_tick
  MaxQueue       \* bound: no lookup while so many requests are queued

ASSUME ResolverAssumption ==
  /\ None \notin Addr \cup Block
  /\ Addr \cap {"idle", "stopping", "closing", "clearing", "exited"} = {}
  /\ NameResAtStart \subseteq BOOLEAN
  /\ Toggles \in BOOLEAN /\ Signals \in BOOLEAN
  /\ {RefreshDelay, FailDelay, FoundDelay, MaxDelay, MaxTick, MaxQueue, Slack} \subseteq Nat
  /\ Jitter \subseteq Nat
  /\ MaxActive \in Nat /\ MaxActive >= Slack + 2
  /\ IsFiniteSet(Worker)

VARIABLES
  name_res,      \* pref.name_res
  current_tick,
  item,          \* allocated items: block -> [ip, state, expire_tick, name, wait]
  active,        \* active_list, most recently used item first
  queue,         \* items from resolveListHead to resolveListTail
  request_stop_thread,
  mutex_open,    \* resolvemtx and resolvecond are not destroyed
  damaged,       \* history: freed memory has been linked into the active list
  main,          \* main thread: "idle", the address it looks up while it holds
                 \* the mutex, or how far cleanup has come
  locked,        \* the main thread holds resolvemtx
  pc,            \* where a worker is
  curitem,       \* the item a worker took, or None
  result         \* the name gethostbyaddr_r gave, or None

cacheVars  == <<item, active>>
poolVars   == <<pc, curitem, result>>
flagVars   == <<request_stop_thread, mutex_open, damaged>>

vars == <<name_res, current_tick, cacheVars, queue, flagVars, main, locked, poolVars>>

\* The first init_capture opens the resolver only if name_res is set then.
Init ==
  /\ name_res \in NameResAtStart
  /\ current_tick = 0
  /\ item = [b \in {} |-> 0] /\ active = << >> /\ queue = << >>
  /\ request_stop_thread = FALSE /\ mutex_open = TRUE /\ damaged = FALSE
  /\ main = "idle" /\ locked = FALSE
  /\ pc = [w \in Worker |-> IF name_res THEN "top" ELSE "none"]
  /\ curitem = [w \in Worker |-> None]
  /\ result = [w \in Worker |-> None]

Running == main # "exited"

-----------------------------------------------------------------------------
(* The cache (ip-cache.c).  These operators run under the mutex.           *)

\* Mutant: an item that waits for its answer is not found.
FindAnswered(a) == {b \in DOMAIN item : item[b].ip = a /\ item[b].state # "PTRREQ"}

\* ipcache_findip
Find(a) == {b \in DOMAIN item : item[b].ip = a}

\* Mutant: the clock is taken off.
ExpireTicksBefore(delay) == {delay - current_tick + j : j \in Jitter}

\* ipcache_calc_expire_tick
ExpireTicks(delay) ==
  {(IF delay > MaxDelay THEN MaxDelay ELSE delay) + current_tick + j : j \in Jitter}

\* ipcache_is_expired_tick
ExpiredTick(tick) == tick < current_tick

\* ipcache_purge_activelist
Purged(list) ==
  IF Len(list) > MaxActive /\ Len(list) > Slack
    THEN SubSeq(list, 1, MaxActive - Slack - 1) ELSE list

\* ipcache_link_activelist: to the head; a new item makes room first
Linked(list, b) ==
  IF b \in ToSet(list)
    THEN << b >> \o RemoveAt(list, CHOOSE i \in DOMAIN list : list[i] = b)
    ELSE << b >> \o Purged(list)

\* Mutant: the purge takes items out of the active list only.
UnpurgedKept(heap, list, b) == heap

\* ipcache_unlinkresolve and free, for what the purge took out
Unpurged(heap, list, b) ==
  [c \in DOMAIN heap \ (ToSet(list) \ ToSet(Linked(list, b))) |-> heap[c]]

\* Mutant: a failure is not entered in the item.
RequestFailedIgnored(b) == UNCHANGED cacheVars

\* ipcache_request_failed
RequestFailed(b) ==
  IF item[b].state = "FINISHED"
    THEN UNCHANGED cacheVars
    ELSE \E e \in ExpireTicks(FailDelay) :
           /\ active' = Linked(active, b)
           /\ item' = Unpurged([item EXCEPT ![b].state = "FAILED", ![b].wait = 0,
                                            ![b].expire_tick = e], active, b)

\* ipcache_request_succeeded
RequestSucceeded(b, name) ==
  \E e \in ExpireTicks(FoundDelay) :
    /\ active' = Linked(active, b)
    /\ item' = Unpurged([item EXCEPT ![b].state = "FINISHED", ![b].expire_tick = e,
                                     ![b].wait = 0, ![b].name = name], active, b)

-----------------------------------------------------------------------------
(* Lookups by the main thread.                                             *)

\* thread_lookup takes the mutex
LookupLock(a) ==
  /\ main = "idle" /\ ~locked /\ Len(queue) < MaxQueue
  /\ main' = a /\ locked' = TRUE
  /\ UNCHANGED <<name_res, current_tick, cacheVars, queue, flagVars, poolVars>>

\* what ipcache_getnameip finds, the item moved to the head of the active list
Answered(a) == {b \in Find(a) : item[b].state # "PTRREQ"}

Touched(a) ==
  IF name_res /\ Answered(a) # {}
    THEN Linked(active, CHOOSE b \in Answered(a) : TRUE) ELSE active

IsExpired(a) == name_res /\ \A b \in Find(a) : ExpiredTick(item[b].expire_tick)

\* ipcache_prepare_request: the delay of an item that is asked for again
RequestDelay(b) ==
  IF item[b].state = "PTRREQ" THEN item[b].expire_tick * 2 ELSE RefreshDelay

\* wait is a history field: how long the request that is not answered may take
PrepareRequest(a, b) ==
  IF Find(a) # {}
    THEN /\ b \in Find(a)
         /\ \E e \in ExpireTicks(RequestDelay(b)) :
              item' = [item EXCEPT ![b].state = "PTRREQ", ![b].expire_tick = e,
                                   ![b].wait = e - current_tick]
    ELSE /\ b \notin DOMAIN item
         /\ \E e \in ExpireTicks(0) :
              item' = [c \in DOMAIN item \cup {b} |->
                         IF c = b THEN [ip |-> a, state |-> "PTRREQ", expire_tick |-> e,
                                        name |-> None, wait |-> e - current_tick]
                         ELSE item[c]]

Waiting == {w \in Worker : pc[w] = "wait"}

\* pthread_cond_signal
SignalOne ==
  \/ Waiting = {} /\ UNCHANGED pc
  \/ \E w \in Waiting : pc' = [pc EXCEPT ![w] = "woken"]

\* the rest of thread_lookup: ipcache_getnameip, sendrequest_inverse, unlock
Lookup ==
  /\ main \in Addr
  /\ active' = Touched(main)
  /\ IF IsExpired(main)
       THEN \E b \in Block : /\ PrepareRequest(main, b)
                             /\ queue' = Append(queue, b)
                             /\ SignalOne
       ELSE UNCHANGED <<item, queue, pc>>
  /\ main' = "idle" /\ locked' = FALSE
  /\ UNCHANGED <<name_res, current_tick, flagVars, curitem, result>>

\* ipcache_tick, from its 10 s timer
IpcacheTick ==
  /\ main = "idle"
  /\ current_tick < MaxTick
  /\ current_tick' = current_tick + 1
  /\ UNCHANGED <<name_res, cacheVars, queue, flagVars, main, locked, poolVars>>

\* the check button of the preferences dialog
NameResToggled ==
  /\ Toggles /\ main = "idle"
  /\ name_res' = ~name_res
  /\ UNCHANGED <<current_tick, cacheVars, queue, flagVars, main, locked, poolVars>>

-----------------------------------------------------------------------------
(* thread_pool_routine.                                                    *)

Goto(w, place) == pc' = [pc EXCEPT ![w] = place]

\* while (!request_stop_thread), read without the mutex
LoopTest(w) ==
  /\ Running /\ pc[w] = "top"
  /\ Goto(w, IF request_stop_thread THEN "exit" ELSE "lock")
  /\ UNCHANGED <<name_res, current_tick, cacheVars, queue, flagVars, main, locked,
                 curitem, result>>

\* behind the wait: leave, take an item from the head, or go round
TakeOrLeave(w) ==
  \/ /\ request_stop_thread
     /\ Goto(w, "exit")
     /\ UNCHANGED <<queue, curitem>>
  \/ /\ ~request_stop_thread /\ queue # << >>
     /\ queue' = Tail(queue)
     /\ curitem' = [curitem EXCEPT ![w] = Head(queue)]
     /\ Goto(w, "query")
  \/ /\ ~request_stop_thread /\ queue = << >>
     /\ Goto(w, "top")
     /\ UNCHANGED <<queue, curitem>>

MustWait == ~request_stop_thread /\ queue = << >>

\* the mutex is taken; pthread_cond_wait gives it back
Lock(w) ==
  /\ Running /\ pc[w] = "lock" /\ ~locked
  /\ IF MustWait THEN Goto(w, "wait") /\ UNCHANGED <<queue, curitem>>
                 ELSE TakeOrLeave(w)
  /\ UNCHANGED <<name_res, current_tick, cacheVars, flagVars, main, locked, result>>

\* pthread_cond_wait may return without a signal
SpuriousWakeup(w) ==
  /\ Running /\ pc[w] = "wait"
  /\ Goto(w, "woken")
  /\ UNCHANGED <<name_res, current_tick, cacheVars, queue, flagVars, main, locked,
                 curitem, result>>

\* pthread_cond_wait returns with the mutex
WaitReturns(w) ==
  /\ Running /\ pc[w] = "woken" /\ ~locked
  /\ TakeOrLeave(w)
  /\ UNCHANGED <<name_res, current_tick, cacheVars, flagVars, main, locked, result>>

\* gethostbyaddr_r, without the mutex; what a freed item holds is anything
Query(w) ==
  /\ Running /\ pc[w] = "query"
  /\ \E name \in (IF curitem[w] \in DOMAIN item THEN {item[curitem[w]].ip} ELSE Addr)
                 \cup {None} :
       result' = [result EXCEPT ![w] = name]
  /\ Goto(w, "answer")
  /\ UNCHANGED <<name_res, current_tick, cacheVars, queue, flagVars, main, locked,
                 curitem>>

\* if (request_stop_thread) break, again without the mutex
AnswerTest(w) ==
  /\ Running /\ pc[w] = "answer"
  /\ Goto(w, IF request_stop_thread THEN "exit" ELSE "report")
  /\ UNCHANGED <<name_res, current_tick, cacheVars, queue, flagVars, main, locked,
                 curitem, result>>

\* The cache is notified of an item that the purge has freed: the answer is lost, the
\* process dies, or the free memory is linked by its stale pointers, and what lies behind
\* it in the list is lost.
ReportFreed(b) ==
  \/ main' \in {main, "exited"} /\ UNCHANGED <<cacheVars, damaged>>
  \/ /\ \E n \in 0 .. Len(active) : active' = << b >> \o SubSeq(active, 1, n)
     /\ damaged' = TRUE
     /\ UNCHANGED <<item, main>>

\* The cache is notified.  If the block was freed and allocated again meanwhile, the
\* item of another address gets the answer.
Report(w) ==
  /\ Running /\ pc[w] = "report" /\ ~locked
  /\ IF curitem[w] \in DOMAIN item
       THEN /\ IF result[w] = None THEN RequestFailed(curitem[w])
                                   ELSE RequestSucceeded(curitem[w], result[w])
            /\ UNCHANGED <<main, damaged>>
       ELSE ReportFreed(curitem[w])
  /\ Goto(w, "top")
  /\ curitem' = [curitem EXCEPT ![w] = None]
  /\ result' = [result EXCEPT ![w] = None]
  /\ UNCHANGED <<name_res, current_tick, queue, request_stop_thread, mutex_open, locked>>

-----------------------------------------------------------------------------
(* cleanup, the signal handler, on the main thread (main.c).               *)

Signal ==
  /\ Signals /\ main \in Addr \cup {"idle"}
  /\ main' = "stopping"
  /\ UNCHANGED <<name_res, current_tick, cacheVars, queue, flagVars, locked, poolVars>>

\* Mutant: only one thread is woken.
WakeOne == SignalOne

\* pthread_cond_broadcast
WakeAll == pc' = [w \in Worker |-> IF pc[w] = "wait" THEN "woken" ELSE pc[w]]

StopThreads ==
  /\ main = "stopping" /\ ~locked
  /\ request_stop_thread' = TRUE
  /\ WakeAll
  /\ main' = "closing"
  /\ UNCHANGED <<name_res, current_tick, cacheVars, queue, mutex_open, damaged, locked,
                 curitem, result>>

CloseMutex ==
  /\ main = "closing"
  /\ mutex_open' = FALSE
  /\ main' = "clearing"
  /\ UNCHANGED <<name_res, current_tick, cacheVars, queue, request_stop_thread, damaged,
                 locked, poolVars>>

\* ipcache_clear frees the active items; gtk_exit follows
IpcacheClear ==
  /\ main = "clearing"
  /\ item' = [b \in DOMAIN item \ ToSet(active) |-> item[b]]
  /\ active' = << >>
  /\ main' = "exited"
  /\ UNCHANGED <<name_res, current_tick, queue, flagVars, locked, poolVars>>

Terminated == main = "exited" /\ UNCHANGED vars

-----------------------------------------------------------------------------
Next ==
  \/ \E a \in Addr : LookupLock(a)
  \/ Lookup
  \/ IpcacheTick
  \/ NameResToggled
  \/ \E w \in Worker : \/ LoopTest(w) \/ Lock(w) \/ SpuriousWakeup(w) \/ WaitReturns(w)
                       \/ Query(w) \/ AnswerTest(w) \/ Report(w)
  \/ Signal \/ StopThreads \/ CloseMutex \/ IpcacheClear
  \/ Terminated

Spec == Init /\ [][Next]_vars

\* Threads are scheduled and gethostbyaddr_r returns.  The main thread leaves the
\* mutex free for most of the time, so a worker that wants it gets it in the end.
\* Nobody owes a lookup, a signal or a spurious wakeup.
Fairness ==
  /\ WF_vars(Lookup)
  /\ WF_vars(StopThreads) /\ WF_vars(CloseMutex) /\ WF_vars(IpcacheClear)
  /\ \A w \in Worker :
       /\ WF_vars(LoopTest(w)) /\ WF_vars(Query(w)) /\ WF_vars(AnswerTest(w))
       /\ SF_vars(Lock(w)) /\ SF_vars(WaitReturns(w)) /\ SF_vars(Report(w))

FairSpec == Spec /\ Fairness

-----------------------------------------------------------------------------
(* Properties.                                                             *)

Places == {"none", "top", "lock", "wait", "woken", "query", "answer", "report", "exit"}

Item == [ip : Addr, state : {"PTRREQ", "FINISHED", "FAILED"}, expire_tick : Nat,
         name : Addr \cup {None}, wait : Nat]

\* Every variable holds a value of its kind, and the main thread holds the mutex
\* during a lookup at least.
TypeOK ==
  /\ name_res \in BOOLEAN /\ current_tick \in Nat
  /\ DOMAIN item \subseteq Block /\ \A b \in DOMAIN item : item[b] \in Item
  /\ active \in Seq(Block) /\ queue \in Seq(Block)
  /\ request_stop_thread \in BOOLEAN /\ mutex_open \in BOOLEAN /\ damaged \in BOOLEAN
  /\ locked \in BOOLEAN
  /\ main \in Addr \cup {"idle", "stopping", "closing", "clearing", "exited"}
  /\ pc \in [Worker -> Places]
  /\ curitem \in [Worker -> Block \cup {None}]
  /\ result \in [Worker -> Addr \cup {None}]
  /\ main \in Addr => locked

\* No wakeup is lost: as long as a thread sleeps, no stop is pending, and every
\* queued request has a thread of its own on the way to the queue (sendrequest_inverse
\* signals one thread per request; thread_pool_routine tests the queue under the
\* mutex with an if, not a while).
OnTheWay == {w \in Worker : pc[w] \in {"top", "lock", "woken"}}

NoLostWakeup ==
  Waiting # {} => ~request_stop_thread /\ Len(queue) <= Cardinality(OnTheWay)

\* The cache holds an address once, and its name is the name of that address
\* although the thread that asked reads and writes the item through a pointer it
\* kept while the mutex was free.
RightName ==
  /\ \A b \in DOMAIN item : item[b].name \in {None, item[b].ip}
  /\ \A b, c \in DOMAIN item : item[b].ip = item[c].ip => b = c

Outstanding(b) ==
  b \in ToSet(queue) \/ \E w \in Worker : curitem[w] = b

\* No item is forgotten, full cache or not: one that is shown as asked is queued or with
\* a thread, so that its answer comes, and one that has been answered is in the active
\* list, where the purge finds it.  The purge frees by age alone, also items that are
\* asked for again, whose blocks malloc gives to other addresses while threads still
\* hold them; it is so until a thread reports to a block that is still free.
NoItemForgotten ==
  (Running /\ ~request_stop_thread /\ ~damaged) =>
    \A b \in DOMAIN item : IF item[b].state = "PTRREQ" THEN Outstanding(b)
                                                     ELSE b \in ToSet(active)

\* Every address that is asked for is answered, unless the pool is told to stop.
Asked(a) == \E b \in Find(a) : item[b].state = "PTRREQ"

RequestsAnswered ==
  \A a \in Addr : Asked(a) ~> (~Asked(a) \/ main \notin Addr \cup {"idle"})

\* "Catch SIGINT and SIGTERM and, if we get either of them, clean up and exit."
ExitsOnSignal == (main = "stopping") ~> (main = "exited")

-----------------------------------------------------------------------------
(* What the code does not guarantee; no run lists it.  The delay is twice  *)
(* the absolute tick of the expiry, nobody joins the threads, and a purge  *)
(* does not ask who holds what it frees.                                   *)

\* "doubling refresh time": a request that was not answered waits at most twice as
\* long as the one before it.
BackoffDoubles ==
  [][ \A b \in DOMAIN item \cap DOMAIN item' :
        (item[b].state = "PTRREQ" /\ item'[b].state = "PTRREQ") =>
          \E j \in Jitter : item'[b].wait <= 2 * item[b].wait + j ]_vars

\* "take mutex, to make sure other thread will be waiting": once the mutex is
\* destroyed no thread is left that still wants it.
MutexOutlivesThreads ==
  (~mutex_open /\ Running) =>
    \A w \in Worker : pc[w] \notin {"lock", "wait", "woken", "report"}

\* "item saved": the item of a request is still allocated when a thread takes it from the
\* queue, and when the thread comes back with the answer.
RequestItemsAlive ==
  Running => /\ ToSet(queue) \subseteq DOMAIN item
             /\ \A w \in Worker : curitem[w] # None => curitem[w] \in DOMAIN item
=============================================================================
