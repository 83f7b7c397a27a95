# EtherApe in TLA+

A verification project for EtherApe, the graphical network monitor. The modules
model the parts of `src/src/` that carry its own logic: what happens to a packet
between libpcap and the picture, how captures are started, paused, replayed and
stopped, how packets are decoded and addresses get their names, and what the
diagram and the windows show. TLC checks the modules on small
instances; TLAPS proves the most important invariants for every value of the
constants.

## 1. The system

EtherApe is one GTK process. A GLib main loop dispatches everything: packets from
libpcap, timers, user commands. The loop also runs nested, inside
`update_diagram`, so that handlers can run in the middle of one another. Only name
resolution uses threads.

| Component | State | Operations | Depends on |
|---|---|---|---|
| packet acquisition (`decode_proto.c`) | `appdata.n_packets`, `total_mem_packets` | `packet_acquired`, `add_node_packet` | called by capture; writes nodes, links, summary |
| protocol decoders (`decode_proto.c`) | the stack, ids and cursor of one packet; `pph_lkentry` | `get_packet_prot`, `get_ip`, `get_tcp`, ... | fill `prot_desc` and the node ids of a packet, use the conversations |
| traffic accounting (`basic_stats.c`, `traffic_stats.c`) | reference counted packets; per record a queue, counters and averages | add, update, purge, reset | used by nodes, links, summary |
| protocol stacks (`protocols.c`) | per level a list of protocols with counters; the protocol summary | add, subtract, average, expiry | part of every traffic record |
| catalogs (`node.c`, `links.c`, `node_id.c`) | trees of nodes and links, list `new_nodes` | create, update all, expire, open, close | written by packets, aged by the diagram |
| conversations (`conversations.c`) | list of FTP and RPC conversations | add, find by wildcard, delete with link | used by decoders and `link_delete` |
| names (`names.c`, `names_netbios.c`, `resolv.c`) | lists of names per protocol of a node | decode, choose node name | call the resolver |
| diagram (`diagram.c`) | canvas trees, `already_updating`, `stop_requested`, the diagram source | `update_diagram` and parts, source switching | reads catalogs, runs nested loops, stops captures |
| capture (`capture.c`) | `capture_status`, `pch_struct`, `capture_source`, `ms_to_next`, buffer | `init_`, `start_`, `pause_`, `stop_`, `cleanup_capture`, `get_live_packet`, `get_offline_packet`, `force_next_packet` | opens and closes the catalogs, starts the resolver |
| commands (`menus.c`) | button states, `appdata.interface`, `input_file` | `gui_*_capture`, radio buttons, Open | call capture and diagram |
| resolver (`thread_resolve.c`, `dns.c`) | request queue, mutex, condition variable, stop flag, threads | `thread_lookup`, `thread_pool_routine`, `thread_open`, `thread_close` | reads and writes the cache |
| ip cache (`ip-cache.c`) | items by address, LRU list, `current_tick` | find, prepare, succeed, fail, expire, purge, clear | called under the resolver's mutex |
| start and exit (`main.c`) | timers, signal handlers | first capture, `cleanup` | everything |
| windows (`info_windows.c`, `node_windows.c`) | rows of two tables, lists of open windows | open, close, `update_info_windows` | read the catalogs, updated by a timer and by the diagram |
| preferences, export | `pref`, GTK state | switches, file formats | read by all |

What is hard here, and what makes each part correct:

* Nested loops. `canvas_node_update` runs the main loop while `g_tree_foreach`
  walks `canvas_nodes`; `update_diagram` runs it before it returns. Packets arrive
  and the user presses Stop in between. The traversal must not meet a change of
  the tree, a node that becomes active must not be lost, a stop must wait.
* Shared packets. A packet sits in four queues that expire at different moments of
  an update; its reference count must be exactly the number of queues holding it.
* Redundant counters. Counters per node, link, protocol and direction are kept up
  by adding and subtracting; they must equal what the queues hold.
* Reentrant commands. A command that stops a capture runs an update, in which
  other commands are served; status, handle, catalogs, sources and buttons must
  stay consistent.
* Timers that add themselves again when they are removed (`cap_t_o_destroy`). A
  replay must keep its pace, deliver each packet once, and end.
* Requests that are put off (`stop_requested`) must be served.
* Two walks over one packet. The decoders find the ids of its hosts, `names.c`
  their names, each with offsets of its own; a host must be shown under its own
  address, also when a packet is cut short.
* Conversations. FTP and RPC decoders leave entries for packets to come, a link
  that expires takes them away by address; an entry must neither outlive its hosts'
  links nor end before them.
* A picture in step with everything. Nodes, limits, places, preferences and the size
  of the window change between two steps of an update; the tables are merged with
  the catalogs in one pass; windows outlive what they are about.
* Threads. A condition variable waited on with `if`; items kept through bare
  pointers while the mutex is free; a purge that frees by age; a signal handler
  that takes a mutex. No wakeup may be lost, no item forgotten, no name given to a
  wrong address, every request answered.
* Signals. `cleanup` runs in the middle of whatever it interrupts, a start or a stop
  included, and decides by the status alone whether there is a device to close.

`PROJECT.json` lists these as hazards, each at its line, with the properties that
cover them.

## 2. Modules

| Module | Models | Used by |
|---|---|---|
| `TrafficStats` | `basic_stats.c`, `traffic_stats.c`, the stacks of `protocols.c`: operators on one record | `Traffic` |
| `Traffic` | packets, catalogs, the canvas and `update_diagram` step by step | `MCTraffic`, `TrafficProofs` |
| `TrafficProofs` | theorems about `Traffic`: nodes, the canvas, its traversal, the counters | `QueueProofs` |
| `QueueProofs` | theorems about `Traffic`: reference counts, expiry | |
| `CaptureControl` | `capture.c`, the capture commands of `menus.c`, the scheduling half of `diagram.c` | `MCCapture`, `CaptureProofs` |
| `CaptureProofs` | theorems about `CaptureControl` | |
| `Resolver` | `thread_resolve.c`, `ip-cache.c`, the parts of `main.c` that close them | `MCResolver`, `ResolverProofs` |
| `ResolverProofs` | theorems about `Resolver`: the pool of threads, the cache and its purge, the names | |
| `ConversationList` | the operators of `conversations.c` on a list | `Decoder`, `Conversations` |
| `Conversations` | abstract: what the list promises, as a set | implemented by `Packets`; `ConversationProofs` |
| `ConversationProofs` | theorems about `Conversations` | |
| `Decoder` | `decode_proto.c`: operators on a packet under way | `Names` |
| `Names` | `names.c`, the names of a node in `node_id.c` and `node.c` | `Packets` |
| `Packets` | composes decoders, conversations, names, nodes and links | `MCPackets`, `PacketProofs` |
| `PacketProofs` | theorems about `Packets`, the decoders and the walk over names it is made of | |
| `Canvas` | what the diagram shows: `diagram.c`, the preferences that change it | `MCCanvas`, `CanvasProofs` |
| `CanvasProofs` | theorems about `Canvas` | |
| `Windows` | `info_windows.c`, `node_windows.c` | `MCWindows`, `WindowProofs` |
| `WindowProofs` | theorems about `Windows` | |
| `MCTraffic`, `MCCapture`, `MCResolver`, `MCPackets`, `MCCanvas`, `MCWindows` | instances for TLC; `MCPackets` has the packets | |

Operators whose comment starts with "Mutant" are wrong on purpose: each stands for
a plausible bug in the operator below it and shows that a property would notice it.

### Traffic

A packet is a record of a number, size, timestamp and the protocol names its
decoders found. `traffic_stats_t` is a record of a queue (newest first, as in the
code), counters and averages for both directions and the total, and a stack of
protocol records per level. `nodes`, `links` and `summary` are the catalogs and
`refs` the reference counts of allocated packets. Where a property counts queue items
it counts their positions (`Held`), since a packet of a host to itself is queued twice.

`update_diagram` is split at its nested loops. `UpdateNodes` is everything up to
the walk over the canvas tree; `CanvasNodeUpdate` visits one node, and `nested`
says whether the visit ended in the nested loop (a node that is put on the delete
list does not run it); `UpdateLinks` is what follows the walk; `RedrawDone` ends
the last nested loop. `EventsRun` is true where the code runs a main loop, and
guards every handler. `wall` is the clock, `now` is `appdata.now`, which packets
set to their timestamp: `MaxLag` says how far that may lie behind the clock.
`StopCapture` includes the update that `gui_stop_capture` runs afterwards, up to
its last nested loop, because with closed catalogs nothing else can intervene.

Left out: `main_prot`, `avg_size`, the global counters of items and nodes; names and
conversations are in `Packets`, places and `limit_nodes` in `Canvas`. A closed summary is represented by an empty
record. Node ids are integers, ordered as `node_id_compare` orders them. What the
decoders yield is any name stack of `NameStacks`. Whether a stop is deferred and
later carried out belongs to `CaptureControl`.

### CaptureControl

One variable per piece of control state, named as in the code. `upd` is the
innermost running `update_diagram`: called by the diagram source, or directly by
`gui_stop_capture`. `cont` holds what the caller of `gui_stop_capture` does when it
returns; its initial value "start" is the `gui_start_capture` that `main` calls
before the main loop. `timers` maps the pending replay timers to the ticks they
have left; `RemoveSource` models `g_source_remove` together with the destroy
notification, which adds a replay timer again while the status is PLAY. `kind` is
`is_idle`: the diagram source replaces itself by the other kind whenever
`update_diagram` returns FALSE.

`Load` is the cost of an update. `update_diagram` measures the time between the
ends of two updates, which includes the refresh period for a timeout and does not
for an idle source: a timeout is kept when the work takes at most a fifth of the
refresh period, an idle source when it takes at least all of it.

All of this is in the main loop, one handler after the other, but the signal handler is not: `Cleanup`
may come anywhere. A start is therefore two steps, `OpenDevice` up to the return of
`pcap_open_live` or `pcap_open_offline` and `InitRest` from there on, and a stop is
`StopCapture` up to `pcap_close` and `CloseDevice`; `at` says that the main thread is between the
two, and no other handler runs there. These are the two stretches of code in which the device
is open and the status is STOP, which is all that `cleanup` looks at; where in a handler else it
comes makes no difference to it. A second signal can interrupt `cleanup` itself between status and
`pcap_close`. `abandoned` and `leaked` are history: whether `init_capture` gave up with the device
open, and which open handles it has overwritten.

`owed` and `acq` are history: the ticks until the packet in the buffer is due,
and whether the last one came due, early or again. Start and Next waive the wait.

Left out: live packets (they are in `Traffic`), an initial failure for want of
interface and file or for having both, filters, the modality of error dialogs, the
content of the Open dialog (it is answered at once when opened in a nested loop
with the status STOP), `in_start_capture`, builds without `gdk_input_add`. The 1 ms
of a starting timer is 0 ticks.

### Resolver

`item` maps memory blocks to the items allocated in them, so that a freed block
can be told from a live one and can be reused. `queue` and `active` are sequences
of blocks. What a thread does while it holds the mutex is one action; the loop
tests of `request_stop_thread`, which the code reads without the mutex, are
actions of their own. The main thread's lookup is two actions, because the signal
handler can run between them. Reading a freed item yields any address. An answer
for a freed item (`ReportFreed`) is lost, kills the process, or links the free memory into the
active list by its stale pointers, which cuts off what lies behind it; `damaged` records the
latter, and what a damaged list does later is not followed further. An answer for a block that was
freed and allocated again goes to the item of the other address. A destroyed mutex goes on working, as it
does in practice. `IpcacheClear` and `gtk_exit` are one step.

A name is the address it belongs to. Left out: the hash chains and the id table
(an item is found by address), the links of the lists, `last_expire_tick` (always
equal to `expire_tick`), the use of a returned name after the mutex is released.
In the code the delays are 18, 8640, 7200 and at most 86400 ticks of ten seconds, the
jitter is up to 12 or 720 ticks, `max_active` is 1024 and the slack 10; the bounds
below keep their order and let everything expire within a few ticks.

### Decoder, Names, Packets

A captured packet is its length and the fields at their byte offsets: type fields and
addresses are names, ports and lengths are numbers, and a field read where the packet
has none is `Other`. `dp` is the record `decode_proto_t`: cursor, bytes left, stack,
ids, addresses and ports. A decoder takes and returns it, so the order in which the code
tests lengths, fills ids, adds protocols and hands over is kept. A call of the decoder of
the next layer is always the last thing a decoder does: it is left in `next`, and
`decode_step` makes it, up to `MaxDepth` times (the longest chain is six calls long, from
PPI to TCP). `Names` walks the same packet as `names.c` does, with its own offset `off`, and yields names under
protocols; `store_names` and `node_name_update` keep them and choose the one to show.

In `Packets` the handler `packet_acquired` is one action: decode, both calls of
`add_node_packet`, the link. Conversations, ids and names are those of the code; when
a node, a link or a protocol of a node expires is left to `Traffic`, and happens here at any
moment. `conversations` is the list, newest first. The range of the list implements
`Conversations` (`ConversationsKept`), where order no longer matters; why it does not is
proved (section 5). The parts of `ip_ids`, `get_ftp`, `get_ppi` and others that use state of the
run take it as an argument: mode, conversations, `pph`.

`Aligned` lists the headers for which `names.c` and `decode_proto.c` agree on where one
starts: Ethernet, IP behind one of `LinkHeaders`, and TCP on it, without IP options and with
its ports captured; section 4 says which do not. Left out: the bytes of NetBIOS names, the
ethers file, the tables of known services (constants), the traffic of a name beyond its
order.

### Canvas

`hosts` says of each node whether it is unknown, quiet (in the catalog but not to be
displayed) or heard. An update is `diagram_update_nodes` (the catalog is aged, announced
nodes get canvas nodes), `canvas_node_update` for each, `diagram_update_links` (removal,
limit, places, links, legend) and `redraw_done`; packets and commands run where the code
runs the main loop (`EventsRun`). A place is the k-th of n around the centre of a window
of a given size, or a spot of the stationary layout. `limit_nodes` keeps any set of
nodes of the right size, for its order is that of a wrong cast. Cancel in the preferences
dialog may put back any preferences. Left out: the centre node changed by the user,
the paused status, sizes, colours, angles, and the text of a node.

### Windows

The rows of a table are a sequence and an iterator is an index. `update_protocols_table` and
`nodes_table_update` are the walks of the code, row by row; a sorted store moves a row
as soon as it is set. Everything `update_info_windows` calls is one action, as it is in the
code, where no main loop runs in between; pausing and stopping call it with their own
status. `recent` stands for `last_update_time`, which is less than 500 ms ago. Nodes,
links and protocols may expire between any two events. Left out: the table of protocols in a
window on a node or link, columns and formats.

## 3. Runs

All runs take less than five minutes with two workers.

| Run | Checks | States | Shows |
|---|---|---|---|
| `Traffic_memory` | `TypeOK` `RefCountExact` `NewNodesValid` `ActiveNodeShown` `CanvasLoopSound` `AccuMatchesQueue` | 343k | packets are freed exactly when the last queue drops them; `new_nodes` never dangles; an active node is on the canvas or announced; the tree is not changed under the traversal; counters equal queues, also when timestamps run backwards |
| `Traffic_time` | `AccuMatchesQueue` `ViewsAgree` `UpdateDropsAllExpired` | 400k | two stacks, two sizes, monotone timestamps (`MaxLag` = 0): counters equal queues on every level, nodes and links and summary hold the same packets, an update leaves nothing expired |
| `Capture_control` | `TypeOK` `RunningIsOpen` `ReplayTimerCurrent` `OpenDeviceRuns` `StopWaitsForUpdate` | 1.55M | commands, timers and nested loops in any order, signals anywhere, `init_capture` failing before or after it has opened the device: status, handle, catalogs and timers stay consistent; a stop waits for the update; a device is open without a running capture only in the middle of a start or stop or after an `init_capture` that gave up |
| `Capture_replay` | `PacedReplay` `ReplayEnds` | 230 | a replay that is not paused keeps its pace, delivers each packet once and ends |
| `Capture_deferred` | `StopHonoured` `EofShown` | 15.5k | under heavy load a deferred stop is carried out; the end of a file is shown |
| `Resolver_pool` | `NoLostWakeup` `RightName` `RequestsAnswered` | 136k | two threads, requests that are repeated before they are answered, and shutdown, while the cache has room: no thread is left asleep, names stay with their addresses, every request is answered |
| `Resolver_cache` | `TypeOK` `NoItemForgotten` | 196k | a full cache: the purge frees items under queued requests and under the thread, blocks are used again, and no item that is in the cache waits without a request or is out of the purge's reach, until an answer is written to a block that is still free |
| `Packets_frames` | `TypeOK` `IdsFitMode` `PpiCacheHarmless` `NamesAligned` | 15k | packets of all link types and header combinations, whole and cut short: both ids come from the layer the mode asks for; the entry cached by `get_ppi` changes nothing; names are read where ids were |
| `Packets_talk` | `ConversationsHaveLinks` `TransferLabelled` `OwnName` `ConversationsKept` `KeptWhileLinked` | 32k | FTP and RPC: conversations implement their specification, live and end with their links, transfers are labelled both ways (unless 802.3, LLC and a VLAN tag leave TCP the last place on the stack); nodes show names of their own |
| `Canvas` | `TypeOK` `EvenlySpread` `LinksFollowNodes` `HeardHostAppears` | 114k | limit, centre, stationary layout, resizing and preferences in the middle of updates: the right nodes in the right places, links end at them, a heard host appears |
| `Windows` | `StoppedShowsNothing` `NodeTableExact` `ProtocolTableExact` `WindowsCloseOnStop` | 532k | the merged tables equal the catalogs after an update, and nothing of a stopped capture stays |
| `Resolver_signal` | `ExitsOnSignal` | violated | a signal during a lookup waits for ever for the mutex of the interrupted lookup |

`Resolver_pool` and `Resolver_signal` do not check deadlock: the hang that
`Resolver_signal` shows is a deadlock the code really has. All other runs do.

### Bounds

* `Traffic`: two nodes, so that there are loops to oneself and both directions of a
  link; three packets (two where two sizes and two stacks multiply them); three or
  four clock values against timeouts of one and two, so that averages, nodes,
  links and protocols expire in different updates. `MaxPackets`, `MaxTime` are
  guards of `GetPacket` and `Tick`.
* `CaptureControl`: names for two or three timers: a replay has one, a pause adds
  a second, and `Room` keeps one name for a start that is waiting; files of one to
  four packets; delays on both sides of `ForceMin`. `init_capture` fails before and after
  it opens the device, in `Capture_control`.
* `Resolver`: `Resolver_pool` has two threads and two addresses, so that one sleeps while
  the other works and two threads answer for one item. `Resolver_cache` has four addresses
  and blocks for two items (`MaxActive`), so that a third answer makes the list too long and
  a fourth purges it; delays are 0, so that an answered item is asked for again at once, and its one thread
  and two queued requests are enough for a purge to free an item in the queue and one in
  the thread's hands, and for both blocks to be used again. `MaxQueue` bounds the queue: no
  lookup comes while it is full. `Slack` is 0: it only says how deep a purge goes.
* `Packets`: `Packets_frames` has one packet per behaviour, but its properties
  speak of every packet that could come next, with whatever the first one left;
  every decoder, every hand-over and every early return for a short packet has one.
  `Packets_talk` has three packets: an announcement, data and an answer, or two announcements
  and data, of two hosts. Protocols of a node expire before the node on three link
  types only (`Purges`), which differ in the layers below IP.
* `Canvas`: two nodes, one link and one level: a limit of one drops a node, a centre of
  two leaves one; two window sizes; four spots of the stationary layout.
* `Windows`: two nodes and two protocols, so that rows are inserted before, between and
  behind others, one link, one window at a time, figures 0 and 1.

Timer names, addresses, blocks and threads are interchangeable; symmetry is used
in the runs that check no liveness.

### Fairness

`CaptureControl`: weak fairness on the replay timers, the clock, the diagram
source, the end of a nested loop, the rest of a start or a stop and the caller that goes on. GLib serves every
ready source of equal or higher priority in turn, and a nested loop ends when no
event is pending. The user owes nothing, nor does a signal.

`Resolver`: weak fairness on the steps of threads and of the main thread that need no
mutex, since they are scheduled and `gethostbyaddr_r` returns; strong fairness on
taking the mutex, because the main thread holds it for moments only and leaves it
free in between. Lookups, ticks, signals, toggles and spurious wakeups may never
come.

`Canvas`: weak fairness on the next step of `update_diagram`, which the diagram source
calls again and again. `Windows`: weak fairness on the update by the timer of `main`, which is
never removed, once a capture is stopped, and on the clock. `Packets` states none, for it
has no liveness property: packets may never come.

## 4. Where the code and its comments disagree

One run ends in a violation; `PROJECT.json` quotes the lines under `findings`.
Further limits show when a constant of a passing run is changed, or a property
added to one:

| Change | Result |
|---|---|
| `Traffic_time` with `MaxLag = 1` | `UpdateDropsAllExpired` fails: libpcap's timestamps may run backwards (`capture.c:435` knows), the purge relies on order (`traffic_stats.c:103`), and expired packets stay until a newer one behind them expires |
| `Capture_replay` with `Commands = {"start", "pause"}` | `PacedReplay` fails: pausing removes the timer while the status is still PLAY, so `cap_t_o_destroy` adds it again, and Start adds a second one (`capture.c:474`; "It forces a waiting time so that it reproduces the rate", `capture.c:395`) |
| `Capture_replay` with `ReadErrors = TRUE` | `PacedReplay` fails: after a read error the previous packet is acquired again (`capture.c:455`) |
| `Capture_control` with `NoOpenDeviceBehind` added | fails: a signal between `pcap_open_live` and the status PLAY (`capture.c:129` to `315`), or between the status STOP and `pcap_close` (`capture.c:357` to `376`), finds the status STOP, and `stop_capture` returns at once. So does any signal after an `init_capture` that gave up with the device open (`capture.c:185`), which no later start closes either ("Makes sure we don't leave any open device behind", `capture.c:383`; "Makes sure that the capture device is closed, or else we might be leaving it in promiscuous mode", `main.c:404`) |
| `Capture_deferred` with `Load = "medium"` | `StopHonoured` fails: with updates that take between a fifth of the refresh period and all of it, `update_diagram` switches its source every time and never reaches the test of `stop_requested` (`diagram.c:468`) |
| `Capture_control` with `SourceMatchesMode` added | fails: Start pressed in the nested loop of a change of interface leaves a replay running in online mode (`menus.c:182-191`) |
| `Resolver_cache` with `RequestItemsAlive` added | fails: the purge frees items that are queued for a refresh or with a thread (`ip-cache.c:252`) |
| `Resolver_cache` with `RightName` added | fails: the block of such an item goes to another address, and the answer for the first gives the second its name |
| `Resolver_cache` without `~damaged` in `NoItemForgotten` | fails: an answer for an item that is freed links free memory into the active list (`ip-cache.c:293`) |
| `Resolver_pool` with `NameResAtStart = {FALSE}`, `Toggles = TRUE` | `RequestsAnswered` fails: threads are started by the first capture only (`capture.c:92`) |
| `Resolver_pool` with `MutexOutlivesThreads` added | fails: nobody waits for the threads before the mutex is destroyed (`thread_resolve.c:278`) |
| `Resolver_pool` with `MaxTick = 5` and `BackoffDoubles` alone | fails: the doubled delay is an absolute tick (`ip-cache.c:538`) |
| `Packets_talk` with `Frames <- VlanFrames` | `OwnName` fails: `names.c` does not know the four bytes of a VLAN tag and reads the addresses of the IP header too early ("VLAN tags are decoded but ignored, showing all traffic as being in a normal LAN", `NEWS:128`) |
| `Canvas` with `Fonts = {"sans", "mono"}` and `FontApplied` added | fails: `ask_reposition(FALSE)` takes a pending font refresh back (`diagram.c:175`; "reposition and update font", `pref_dialog.c:374`) |
| `Windows` with `PauseConsistent` added | fails: the update is throttled, and a paused capture is not updated again (`info_windows.c:730`; "Make sure the data in the info windows is updated so that it is consistent", `menus.c:484`) |
| `Windows` with `SortColumns = {"name", "traffic"}` | `ProtocolTableExact` fails: a row that is set moves, and the walk goes on from where it has moved to (`info_windows.c:469`); rows are skipped and protocols shown twice until the next updates |

The decoders and name decoders show more, without a run of their own:

* `names.c` is wrong about where headers start for 802.1Q, SNAP, LOOP, WLAN, RADIOTAP, PPI
  and FDDI, about the addresses of Token Ring, and about ports behind IP options;
  `get_nbss_name` reads its length two bytes late; the sequence of `node.c` has "803.3"
  where the decoders say "802.3".
* With IPv6 inside IP, `decode_proto.c` names the inner header and stops (`decode_proto.c:1112`),
  while `names.c` reads its address as a name of the outer host. When a packet is cut off within
  the ports of TCP, `names.c` keeps the zero id, and `decode_proto.c` reads on.
* In TCP mode a link is one pair of ports, and an idle control connection that expires
  takes the conversations of a live transfer between the same hosts (`links.c:111`);
  `KeptWhileLinked` therefore speaks of the other modes.
* An RPC call is entered under its client's address alone, so that all answers carry the
  first program asked for (`decode_proto.c:1474` has a TODO), and goes only when the
  capture stops or with traffic of the host with itself. A second FTP server on
  the client's host is refused by the match of the reversed direction. The test of
  `add_conversation` for a conflict is inverted (`conversations.c:95`).
* The mask of the fragment offset drops its top bit. After a length that reaches past the end
  of a packet the cursor stays where it is, with no bytes left.
* UDP hosts get no name in TCP mode; ARP looks names up although name resolution is
  off; a resolved name stays on the canvas after it is switched off (`diagram.c:651`).
* `limit_nodes` orders canvas nodes as if they were nodes (`diagram.c:906`); NEWS:618 speaks of
  the most active ones.
* The walk over the table of nodes says "append and move next" and prepends; the order
  of the rows is only made good by the sort of the view.
* The LRU list may hold `max_active` + 1 items; NEWS speaks of 1024 entries.

## 5. Proofs

`TrafficProofs` proves `Spec => []IInv` (theorem `Invariance`) for any set of
nodes, any stacks, sizes, timeouts and bounds, and from it `TypeOK`,
`NewNodesValid`, `ActiveNodeShown` and `CanvasLoopSound`. `ActiveNodeShown` is not inductive
alone: that a node on the canvas will stay depends on where the traversal is and
on what is on the delete list, and that an announced node is in the catalog depends
on `NewNodesValid`; `IInv` joins these with the fact that a stopped capture is
empty. The proof has a lemma per action, and lemmas on what adding a packet
and ageing do to a record and a catalog.

The second half of `TrafficProofs` is about the redundant counters. `CountersInv` says that every node,
every link and the summary is `Balanced`: what the record counts, in total, for each
direction and for each protocol of each level, is the sum over the items its queue holds, and
every protocol of a queued packet has an entry. It is inductive together with `IInv`. A sum is a recursive
function over the positions of the queue, and no induction theorem can be used; what a
sum is with one more item, or without the last ones, is therefore shown by the least position at which it
would differ. `LoopCounts` does this for the loop that adds a packet's protocols to the stack,
`PurgeBalanced` for the expiry, in which every counter goes down by what the dropped
items added. Hence `AccuMatchesQueue`, for any packets, stacks and timeouts: no counter
underflows or drifts.

`QueueProofs` adds what the queues of packets promise. `RefCountExact` holds for all
constants. Its invariant, `MemInv`, is `IInv` with `Counted` and the fact that the summary
is empty before a capture starts, because `start_capture` opens a new summary without
purging the old one. `Counted` says besides the property that the positions at which a packet is
queued are finite: the argument counts positions, so that adding a packet is one
more of them, and dropping the tail of a queue takes as many away as it frees. With timestamps
that never run backwards (`MaxLag = 0`) two more hold: `UpdateDropsAllExpired` and
`ViewsAgree`. `TimeInv` joins `MemInv` with three facts: every queue is ordered by time and
behind the clock (the purge stops at the first valid packet), the summary queues what
the links queue, and both ends of a link queue its valid packets. The last must be
weakened to valid packets in the middle of an update, when nodes are aged and links not yet.
Without `MaxLag = 0` TLC refutes the first of the two (section 4).

`CaptureProofs` proves `TypeOK`, `RunningIsOpen`, `GuiMatchesStatus`,
`ReplayTimerCurrent` and the action property `StopWaitsForUpdate` for any
number of timers, any file and any way of failing. The strengthening is
`NestedSession`, which says what can be true while a caller of `gui_stop_capture`
is waiting: without it the command that goes on could meet any status.
`OpenDeviceRuns` holds for any way of failing and for signals anywhere: beside the two stretches
of code and the failure that section 4 names, nothing leaves a device open without
a running capture, and no start overwrites the handle of one. It needs to know what is true halfway
through a start or a stop (`Halfway`). `PacedReplay` is proved under
`LeftAlone` (no command that starts a capture again or changes its source) and
`~ReadErrors`; `NeverEarly`, that no packet comes before its time, under `LeftAlone` alone. Both
conditions are needed, as section 4 shows. The invariant `OneReplay` says that there is one timer
at most, that `capture_source` is it, and that it fires no sooner than the packet
in the buffer is due.

`ResolverProofs` proves `NoLostWakeup` for any number of threads and addresses.
The invariant is the property with the types of the pool (`PoolType`). The argument
is a count: a thread on its way to the queue leaves only with a request, or goes to
sleep only when the queue is empty; a new request either wakes a sleeper or finds
none.

The same module proves the types of `Resolver` and `NoItemForgotten` for all constants, so for caches
that are full. The invariant `FInv` adds to the property what a thread has in its hands at each place
(`HandsFit`). The argument goes through what can end a request: only the report, which links the
item it answers; and through what can take an item out of the active list: only the purge, which takes
it out of the cache as well. A lookup never purges, because an item that it finds answered is in the list (`LinkedAgain`).

`RightName` is proved while there are at most as many addresses as the cache keeps (`FewAddresses`;
`max_active` is 1024). The bound is not a convenience: with more addresses
`ipcache_purge_activelist` frees items whose request is not answered, and the name is
wrong (section 4). `CInv` says that
an address has one item, that the active list links live items once each, so that it is never longer than
there are addresses, and that while the pool runs every thread between queue and
report holds a live item and what it has found is the name of that item's address. Reading and
writing through the kept pointer needs all three.

`ConversationProofs` proves that two conversations never fit one another, for any addresses,
ports and names, and from it `LabelUnique`: no packet fits two of them, so that the
search of the list, which takes the first, does not depend on its order. The invariant is
`Disjoint` with `TypeOK`; both ports' being open to wildcards makes the relation
symmetric but not transitive, and it is the open second port that lets two entries
that fit one packet fit each other (`FitsShared`).

`PacketProofs` is about the decoders and what is made of their result, for any packets
whatever: `Frames` is a constant of which nothing is assumed. Its centre is
`Stage`, which says where a packet under way is: at a link header, at a network header, past
IP with TCP or UDP due, or done, each with what the stack, the ids, the cursor and the conversations
are by then. A lemma per decoder shows that it goes from one stage to another, `DecodeStep` that
every call does, and `Decoded` that `get_packet_prot`, which is `MaxDepth` calls (`Unrolled`),
ends in a stage. From it follow

* `IdsFitMode`: both ids come from the layer the mode asks for, and the assertions of `get_tcp` and
  `get_udp` hold. That the ids are already IP ids when TCP is due is a matter of
  the order of the layers, hence of `Stage`;
* `ConversationsHaveLinks`, with `TalkInv`: every entry is open in its second port, is
  named by FTP or an RPC program, has its link, and no entry fits another. A packet of `get_ftp`
  and the link of its hosts come in one step, and `delete_conversation_link` walks the whole list;
* `ConversationsKept`, the refinement of `Conversations`: a packet enters one conversation
  or none, a link that goes removes those of its hosts. The theorems of `ConversationProofs`
  therefore hold of the list. `EveryPacketFits` says that the constants of the
  specification, addresses, ports and labels, cover what packets hold, and that ports have 16 bits;
* `KeptWhileLinked`: outside TCP mode a link is all there is between two hosts, since its ends are ids
  that packets got (`EndsDecoded`) and an id is known by its address. `KindsApart` states the latter of the
  packets: none has an address as a MAC address that another has as an IP address;
* `TransferLabelled`: a TCP packet that fits a conversation has its label on top. `find_conversation`
  returns the first entry that fits, and `TalkInv` has it that there is one only;
* `PpiCacheHarmless`, by a comparison of two runs of the decoders: two records that differ in the
  entry `get_ppi` keeps (`Alike`) differ in nothing else after any call, since `get_ppi`
  looks the link type up again unless it is that of the entry, and the entry is
  always one of the table (`ModeAndEntry`);
* `TypeOK`, again under `EveryPacketFits`. What is not obvious in it are the names: `get_packet_names`
  walks a stack the decoders left (`Stage` says it is within `STACK_SIZE`), each name decoder moves the cursor,
  stops or adds one name at the level it is called for (`Walking`), and what `add_name` and
  `node_name_update` do to the lists leaves none of them empty (`StoredTyped`, `UpdatedTyped`), on which
  `set_node_name`, which takes the first of a list, relies.

`CanvasProofs` proves `TypeOK`, `LinksFollowNodes` and `EvenlySpread` for any finite set of nodes, any
links, limits and preferences. The properties speak of the time between updates; the invariant `IInv`
has to say what is true in the middle of one: which nodes still wait for a place (`SpotsLeft`), that
the places of the stationary layout are given once, that unless new places are asked
for what is shown is on the screen at its rank in the circle (`Spread`), and that links end there.

`WindowProofs` proves what the two walks over rows and data yield, for tables and catalogs of any length. Each walk
is a function that calls itself on the record of where it is; a measure of the record goes down at
every step, from which it follows that the function exists and what it yields (`WalkUnique` and the two lemmas after it). The table of nodes
may be in any order, because new rows are prepended once the iterator is past the end; `NodeTableExact`
therefore cannot rest on sortedness of the rows, only on that of the catalog: every
node of it puts exactly one row behind the iterator or in front. The table of protocols is
sorted by the store, and setting a row may move it and the iterator with it. `ProtocolTableExact` is proved
under `SortColumns \subseteq {"name"}`: in a table sorted by name (`SortedByName`) a row that is set
keeps its place, while in one sorted by its figures it may pass the iterator
(section 4). `StoppedShowsNothing` is inductive with `TablesType` and `NothingKept`, that a capture that is stopped has
empty catalogs: the same walks, over no data, leave no row.

The proofs assume the `ASSUME` of the module they extend, which TLC evaluates in
every run, and of the constants nothing else but the conditions named above, which the
theorems state. Two of those `ASSUME`s say only how the model names things: the addresses of
`Resolver` are none of the values that its control state uses as marks, and the nodes of
`Canvas` are a finite set of numbers other than `NoNode`.

Only model-checked, and why:

* liveness (`StopHonoured`, `EofShown`, `ReplayEnds`, `RequestsAnswered`, `HeardHostAppears`,
  `WindowsCloseOnStop`): out of the prover's reach, as is `ENABLED`;
* `OwnName`: false for arbitrary packets (section 4), it holds of those of the
  instance. With IP options in TCP mode, with a VLAN tag or a frame cut short, the offsets of
  `names.c` are not those of `decode_proto.c`;
* `NamesAligned`: it speaks only of headers that are `Aligned`, and no packet is known for which
  it fails. A proof for every packet has to carry the position of both walks through every
  decoder, and `Stage`, the invariant of the decoding in `PacketProofs`, has that of headers only;
* what the order of the rows is after an update (no property speaks of it), and
  `ProtocolTableExact` of a table sorted by its figures.

## 6. Not modelled

The bytes of NetBIOS names and the ethers file; `set_filter`; colours, fonts' shapes,
sizes and angles; the tables inside windows on nodes and links; the preferences file;
the tables of services; export; command line and session handling. `PROJECT.json` has the full
list, with reasons.

## 7. Plan

Done: traffic and catalogs, capture control, resolver, packets with decoders,
conversations and names, the canvas, the windows; their runs; the theorems of section 5, which
state every invariant and action property the runs check but `OwnName` and `NamesAligned`.

Left:

1. A proof of `NamesAligned` for every packet, with the positions of both walks in `Stage`,
   and with it `OwnName` for captures in which every header of IP and TCP is `Aligned`.
2. The tables of protocols inside windows on nodes and links.
