--------------------------- MODULE CaptureControl ---------------------------
(***************************************************************************)
(* How a capture is opened, run, paused, ended and closed: capture.c, the  *)
(* capture commands of menus.c and the scheduling half of diagram.c.       *)
(*                                                                         *)
(* Everything runs in the GLib main loop.  Concurrency comes from its      *)
(* sources (the replay timers, the diagram source), from the user and      *)
(* from the nested loop inside update_diagram, in which all of these are   *)
(* served while an update is under way.  gui_stop_capture runs an update   *)
(* of its own; what its caller does next waits in cont meanwhile.          *)
(*                                                                         *)
(* The signal handler alone is outside the main loop: it interrupts any    *)
(* handler anywhere.  Start and stop are therefore two steps each, cut     *)
(* where the device is open but the status is STOP (at).  What else they   *)
(* change, cleanup does not look at.                                       *)
(*                                                                         *)
(* Time is counted in ticks.  The 1 ms of a starting timer is 0 ticks.     *)
(* An operator whose comment starts with "Mutant" is a deliberately wrong  *)
(* variant of the operator below it.                                       *)
(***************************************************************************)
EXTENDS Integers, FiniteSets

CONSTANTS
  Commands,   \* what the user does, of "start" "pause" "next" "stop"
              \* "interface" "open" "mode" "timeout"
  TimerId,    \* names for replay timers; bounds how many are pending at once
  FileLen,    \* packets in a capture file
  Delays,     \* ms_to_next of a packet read, in ticks
  ForceMin,   \* the 20 ms below which force_next_packet does nothing
  InitFails,  \* how init_capture may fail: "open", "link"
  ReadErrors, \* the file may be truncated
  Signals,    \* SIGTERM or SIGINT may arrive
  Load        \* cost of an update: "light", "medium", "heavy" or "any"

ASSUME CaptureAssumption ==
  /\ FileLen \in Nat /\ ForceMin \in Nat
  /\ Delays \subseteq Nat
  /\ InitFails \subseteq {"open", "link"}
  /\ ReadErrors \in BOOLEAN /\ Signals \in BOOLEAN
  /\ TimerId \cap {"none", "input"} = {}

VARIABLES
  status,         \* capture_status
  online,         \* appdata.interface # NULL, else appdata.input_file is set
  pch,            \* what pch_struct was opened on: "null", "live", "file"
  pch_open,       \* pch_struct is open
  abandoned,      \* history: init_capture gave up with pch_struct open
  leaked,         \* history: open pcap_t's overwritten, "abandoned" or "running" ones
  catalogs,       \* nodes, links and protocol summary are open
  input,          \* the gdk input source of a live capture is installed
  timers,         \* pending replay timers: id -> ticks left
  current,        \* capture_source: an id of timers, "input", or "none" if stale
  buffer,         \* pkt_data: "none", "fresh" or "done" (acquired before)
  remaining,      \* packets pcap_next_ex has still to deliver
  ms_to_next,
  owed,           \* history: ticks until the packet in buffer is due
  acq,            \* history: how the last packet was acquired
  gui,            \* which gui_*_capture set the buttons last
  stop_requested,
  upd,            \* innermost update_diagram: "no", "source" or "direct"
  dispatching,    \* GLib is dispatching the diagram source
  removed,        \* the source was removed while it was being dispatched
  kind,           \* is_idle: the diagram source is an "idle" or a "timeout"
  cont,           \* what follows when gui_stop_capture returns
  at,             \* main thread: "loop", or in a handler with the device "opened"
                  \* and not yet running, or stopped and not yet closed, "closing"
  exited

pcapVars == <<pch, pch_open, abandoned, leaked>>
srcVars  == <<input, timers, current>>
pktVars  == <<buffer, remaining, ms_to_next, owed, acq>>
diagVars == <<upd, dispatching, removed, kind>>

vars == <<status, online, pcapVars, catalogs, srcVars, pktVars, gui,
          stop_requested, diagVars, cont, at, exited>>

NoTimers == [i \in {} |-> 0]

\* main calls gui_start_capture before it enters the main loop
Init ==
  /\ status = "STOP" /\ online \in BOOLEAN
  /\ pch = "null" /\ pch_open = FALSE /\ abandoned = FALSE /\ leaked = {}
  /\ catalogs = FALSE
  /\ input = FALSE /\ timers = NoTimers /\ current = "none"
  /\ buffer = "none" /\ remaining = 0 /\ ms_to_next = 0 /\ owed = 0 /\ acq = "none"
  /\ gui = "stopped" /\ stop_requested = FALSE
  /\ upd = "no" /\ dispatching = FALSE /\ removed = FALSE /\ kind = "timeout"
  /\ cont = "start" /\ at = "loop" /\ exited = FALSE

\* The main loop, outermost or nested, is waiting for events.  A caller of
\* gui_stop_capture goes on at once, except for the file dialog of Open.
MainLoop ==
  /\ ~exited /\ at = "loop"
  /\ upd # "no" \/ cont \in {"none", "dialog"}

\* Bound: a free name is kept for every start that may come, the one that
\* waits in cont included.
Room == Cardinality(TimerId \ DOMAIN timers) > IF cont = "none" THEN 0 ELSE 1

\* the file dialog is modal
User(c) == MainLoop /\ cont # "dialog" /\ c \in Commands

-----------------------------------------------------------------------------
(* Sources.                                                                *)

\* Mutant: a removed timer is not added again.
RemoveSourceForGood(delay) ==
  /\ input' = (input /\ current # "input")
  /\ timers' = [i \in DOMAIN timers \ {current} |-> timers[i]]
  /\ current' = "none"

\* g_source_remove (capture_source).  The destroy notification of a replay
\* timer, cap_t_o_destroy, adds it again if the status is (still) PLAY.
RemoveSource(delay) ==
  /\ input' = (input /\ current # "input")
  /\ IF current \in DOMAIN timers /\ status = "PLAY"
       THEN timers' = [timers EXCEPT ![current] = delay] /\ UNCHANGED current
       ELSE /\ timers' = [i \in DOMAIN timers \ {current} |-> timers[i]]
            /\ current' = "none"

-----------------------------------------------------------------------------
(* capture.c: init_capture, start_capture, stop_capture.                   *)

Opened == IF abandoned THEN "abandoned" ELSE "running"

\* init_capture up to pcap_open_live or pcap_open_offline.  It takes any handle that
\* pch_struct holds for a closed one.
OpenDevice(onl) ==
  /\ leaked' = leaked \cup (IF pch_open THEN {Opened} ELSE {})
  /\ abandoned' = FALSE
  /\ \/ /\ "open" \in InitFails
        /\ pch' = "null" /\ pch_open' = FALSE
        /\ UNCHANGED at
     \/ /\ pch' = IF onl THEN "live" ELSE "file"
        /\ pch_open' = TRUE
        /\ at' = "opened"

\* Mutant: the catalogs are not opened again once packets have been counted.
OpenCatalogsOnce == catalogs' = (catalogs \/ acq = "none")

OpenCatalogs == catalogs' = (catalogs \/ status = "STOP")

StartButtons(onl) == gui' = IF onl THEN "live" ELSE "replay"

\* start_capture and what gui_start_capture does after it
StartCapture(onl) ==
  /\ status' = "PLAY"
  /\ OpenCatalogs
  /\ IF onl
       THEN /\ UNCHANGED <<timers, owed>>
            /\ IF status = "STOP" THEN input' = TRUE /\ current' = "input"
                                  ELSE UNCHANGED <<input, current>>
       ELSE \E i \in TimerId \ DOMAIN timers :
              /\ timers' = [j \in DOMAIN timers \cup {i} |->
                              IF j = i THEN 0 ELSE timers[j]]
              /\ current' = i
              /\ owed' = 0
              /\ UNCHANGED input
  /\ StartButtons(onl)

\* The rest of init_capture and of gui_start_capture.  init_capture gives up on a link
\* type or a mode it does not support, and leaves the handle open.
InitRest ==
  /\ ~exited /\ at = "opened"
  /\ at' = "loop"
  /\ \/ /\ "link" \in InitFails
        /\ abandoned' = TRUE
        /\ UNCHANGED <<status, catalogs, srcVars, pktVars, gui>>
     \/ /\ StartCapture(online)
        /\ remaining' = IF online THEN 0 ELSE FileLen
        /\ UNCHANGED <<abandoned, buffer, ms_to_next, acq>>
  /\ UNCHANGED <<online, pch, pch_open, leaked, stop_requested, diagVars, cont, exited>>

\* Mutant: the device stays open.
PcapLeftOpen == UNCHANGED pch_open

PcapClose == pch_open' = FALSE

\* stop_capture up to pcap_close; the last call to get_offline_packet clears its buffer
StopCapture(onl) ==
  /\ IF onl THEN RemoveSource(ms_to_next) ELSE UNCHANGED srcVars
  /\ status' = "STOP"
  /\ catalogs' = FALSE
  /\ IF onl THEN UNCHANGED <<buffer, owed>> ELSE buffer' = "none" /\ owed' = 0
  /\ remaining' = 0
  /\ UNCHANGED <<pch, abandoned, leaked, ms_to_next, acq>>

-----------------------------------------------------------------------------
(* menus.c: gui_stop_capture and gui_start_capture.                        *)

\* Mutant: a stop does not look at already_updating.
NeverUpdating == FALSE

AlreadyUpdating == upd # "no"

\* gui_stop_capture with the status not STOP; next is what the caller does after
GuiStop(next, onl) ==
  IF AlreadyUpdating
    THEN /\ stop_requested' = TRUE
         /\ UNCHANGED <<status, pcapVars, catalogs, srcVars, pktVars, cont, at>>
    ELSE /\ stop_requested' = FALSE
         /\ StopCapture(onl)
         /\ UNCHANGED pch_open
         /\ at' = "closing"
         /\ cont' = next

\* The rest of stop_capture and of gui_stop_capture, up to its call of update_diagram
CloseDevice ==
  /\ ~exited /\ at = "closing"
  /\ at' = "loop"
  /\ PcapClose
  /\ gui' = "stopped"
  /\ upd' = "direct"
  /\ UNCHANGED <<status, online, pch, abandoned, leaked, catalogs, srcVars, pktVars,
                 stop_requested, dispatching, removed, kind, cont, exited>>

\* gui_start_capture after its test for CAP_EOF
GuiStartRest(onl) ==
  \/ /\ status = "STOP"
     /\ OpenDevice(onl)
     /\ UNCHANGED <<status, catalogs, srcVars, pktVars, gui>>
  \/ /\ status = "PLAY"
     /\ UNCHANGED <<status, pcapVars, catalogs, srcVars, pktVars, gui, at>>
  \/ /\ status \in {"PAUSE", "CAP_EOF"}
     /\ StartCapture(onl)
     /\ UNCHANGED <<pcapVars, buffer, remaining, ms_to_next, acq, at>>

GuiStart(onl) ==
  \/ status = "CAP_EOF" /\ GuiStop("start", onl) /\ UNCHANGED gui
  \/ status # "CAP_EOF" /\ GuiStartRest(onl) /\ UNCHANGED stop_requested
                        /\ cont' = "none"

\* appdata.interface as the radio button or the Open dialog leaves it
OnlineAfter(next) ==
  IF next = "interface" THEN TRUE ELSE IF next = "open" THEN FALSE ELSE online

-----------------------------------------------------------------------------
(* The user's commands.                                                    *)

UserStart ==
  /\ User("start") /\ Room /\ gui \notin {"live", "replay"}
  /\ IF status = "CAP_EOF" THEN GuiStop("start", online) /\ UNCHANGED gui
     ELSE GuiStartRest(online) /\ UNCHANGED <<stop_requested, cont>>
  /\ UNCHANGED <<online, diagVars, exited>>

\* gui_pause_capture
UserPause ==
  /\ User("pause") /\ gui \in {"live", "replay"}
  /\ IF status = "PLAY" /\ ~online THEN RemoveSource(ms_to_next) ELSE UNCHANGED srcVars
  /\ IF status = "PLAY" /\ ~online /\ current = "none"     \* g_source_remove failed
       THEN UNCHANGED <<status, gui>>
       ELSE /\ status' = IF status = "PLAY" THEN "PAUSE" ELSE status
            /\ gui' = "paused"
  /\ UNCHANGED <<online, pcapVars, catalogs, pktVars, stop_requested, diagVars, cont,
                 at, exited>>

\* force_next_packet
UserNext ==
  /\ User("next") /\ gui = "replay"
  /\ ms_to_next > ForceMin
  /\ ms_to_next' = 0
  /\ RemoveSource(0)
  /\ owed' = 0
  /\ UNCHANGED <<status, online, pcapVars, catalogs, buffer, remaining, acq, gui,
                 stop_requested, diagVars, cont, at, exited>>

UserStop ==
  /\ User("stop") /\ gui # "stopped"
  /\ IF status = "STOP"
       THEN /\ stop_requested' = FALSE
            /\ UNCHANGED <<status, pcapVars, catalogs, srcVars, pktVars, cont, at>>
       ELSE GuiStop("none", online)
  /\ UNCHANGED <<online, gui, diagVars, exited>>

\* on_interface_radio_activate, on_open_activate, on_mode_radio_activate.  With
\* the status STOP gui_stop_capture returns at once, also in a nested loop.
UserChange(what) ==
  /\ User(what) /\ Room
  /\ IF status = "STOP"
       THEN /\ online' = OnlineAfter(what)
            /\ stop_requested' = FALSE
            /\ GuiStartRest(OnlineAfter(what))
            /\ UNCHANGED cont
       ELSE GuiStop(what, online) /\ UNCHANGED <<online, gui>>
  /\ UNCHANGED <<diagVars, exited>>

\* The caller of gui_stop_capture goes on.
Continue ==
  /\ ~exited /\ at = "loop" /\ upd = "no"
  /\ \/ /\ cont \in {"interface", "mode"}
        /\ online' = OnlineAfter(cont)
        /\ GuiStart(OnlineAfter(cont))
     \/ /\ cont = "start"
        /\ GuiStartRest(online)
        /\ cont' = "none"
        /\ UNCHANGED <<online, stop_requested>>
     \/ /\ cont = "dialog"
        /\ online' = FALSE
        /\ GuiStart(FALSE)
  /\ UNCHANGED <<diagVars, exited>>

DialogCancelled ==
  /\ ~exited /\ at = "loop" /\ upd = "no" /\ cont = "dialog"
  /\ cont' = "none"
  /\ UNCHANGED <<status, online, pcapVars, catalogs, srcVars, pktVars, gui,
                 stop_requested, diagVars, at, exited>>

\* cleanup, the signal handler, at any moment.  stop_capture does nothing if the status
\* is STOP already; another signal may interrupt the handler as it does the main loop.
Cleanup ==
  /\ Signals /\ ~exited
  /\ exited' = TRUE
  /\ \/ /\ status = "STOP"
        /\ UNCHANGED <<status, catalogs, pcapVars, srcVars, pktVars, at>>
     \/ /\ status # "STOP"
        /\ StopCapture(online)
        /\ \/ PcapClose /\ UNCHANGED at
           \/ UNCHANGED pch_open /\ at' = "closing"
  /\ UNCHANGED <<online, gui, stop_requested, diagVars, cont>>

-----------------------------------------------------------------------------
(* get_offline_packet as a timer callback, then cap_t_o_destroy.           *)

Acquired == IF buffer = "done" THEN "again" ELSE IF owed > 0 THEN "early" ELSE "due"

\* Mutant: the timer is renewed with the delay of the packet it has delivered.
RenewWithOldDelay(delay) == ms_to_next

\* cap_t_o_destroy runs after the next packet was read
RenewDelay(delay) == delay

ReadPacket ==
  /\ remaining > 0 \/ pch = "live"
  /\ remaining' = IF pch = "live" THEN 0 ELSE remaining - 1
  /\ buffer' = "fresh"
  /\ \E d \in Delays : ms_to_next' = d /\ owed' = d
  /\ UNCHANGED status

\* pcap_next_ex leaves pkt_data alone when it returns no packet: a truncated
\* file, or the read timeout of a live handle
Used == IF buffer = "none" THEN "none" ELSE "done"

ReadError ==
  /\ (ReadErrors /\ remaining > 0) \/ pch = "live"
  /\ remaining' = 0
  /\ buffer' = Used
  /\ ms_to_next' = 0 /\ owed' = 0
  /\ UNCHANGED status

\* Mutant: the status stays PLAY at the end of the file.
ReadEndIgnored ==
  /\ remaining = 0 /\ pch = "file"
  /\ UNCHANGED <<status, remaining, ms_to_next>>
  /\ buffer' = Used /\ owed' = 0

ReadEnd ==
  /\ remaining = 0 /\ pch = "file"
  /\ status' = "CAP_EOF"
  /\ buffer' = Used
  /\ owed' = 0
  /\ UNCHANGED <<remaining, ms_to_next>>

FireTimer(i) ==
  /\ MainLoop
  /\ i \in DOMAIN timers /\ timers[i] = 0
  /\ IF status = "STOP"
       THEN /\ buffer' = "none" /\ owed' = 0
            /\ UNCHANGED <<status, remaining, ms_to_next, acq>>
       ELSE /\ acq' = IF buffer = "none" THEN acq ELSE Acquired
            /\ ReadPacket \/ ReadError \/ ReadEnd
  /\ IF status' = "PLAY"
       THEN timers' = [timers EXCEPT ![i] = RenewDelay(ms_to_next')] /\ current' = i
       ELSE /\ timers' = [j \in DOMAIN timers \ {i} |-> timers[j]]
            /\ current' = IF current = i THEN "none" ELSE current
  /\ UNCHANGED <<online, pcapVars, catalogs, input, gui, stop_requested, diagVars, cont,
                 at, exited>>

\* Mutant: a timer that is not served in time runs on.
LessUnbounded(n) == n - 1

Less(n) == IF n = 0 THEN 0 ELSE n - 1

Tick ==
  /\ ~exited
  /\ \E i \in DOMAIN timers : timers[i] > 0
  /\ timers' = [i \in DOMAIN timers |-> Less(timers[i])]
  /\ owed' = Less(owed)
  /\ UNCHANGED <<status, online, pcapVars, catalogs, input, current, buffer, remaining,
                 ms_to_next, acq, gui, stop_requested, diagVars, cont, at, exited>>

-----------------------------------------------------------------------------
(* diagram.c: the diagram source and update_diagram around its body.       *)

\* destroying_timeout and destroying_idle
Other(k) == IF k = "timeout" THEN "idle" ELSE "timeout"

\* Mutant: the end of a file is not shown.
GuiEofForgotten(g) == g

\* gui_eof_capture, on the way through update_diagram
GuiEof(g) == "eof"

\* GLib dispatches the source; update_diagram returns early or starts its work
DiagramDispatch ==
  /\ MainLoop /\ ~dispatching
  /\ \/ /\ status = "PAUSE"
        /\ kind' = Other(kind)
        /\ UNCHANGED <<gui, upd, dispatching>>
     \/ /\ status = "CAP_EOF"
        /\ gui' = GuiEof(gui)
        /\ kind' = Other(kind)
        /\ UNCHANGED <<upd, dispatching>>
     \/ /\ status \in {"STOP", "PLAY"} /\ upd # "no"
        /\ kind' = Other(kind)
        /\ UNCHANGED <<gui, upd, dispatching>>
     \/ /\ status \in {"STOP", "PLAY"} /\ upd = "no"
        /\ upd' = "source" /\ dispatching' = TRUE
        /\ UNCHANGED <<gui, kind>>
  /\ UNCHANGED <<status, online, pcapVars, catalogs, srcVars, pktVars, stop_requested,
                 removed, cont, at, exited>>

\* Mutant: the source is replaced after every update.
NeverKeeps == {FALSE}

\* Outcomes of the test on diffms: TRUE keeps the source and reaches the check of
\* stop_requested.  A timeout is kept if the work takes less than a fifth of the
\* refresh period, an idle source if it takes more than the whole.
Keeps ==
  IF Load = "any" \/ upd = "direct" THEN BOOLEAN
  ELSE {Load = IF kind = "timeout" THEN "light" ELSE "heavy"}

\* The last frame of update_diagram returns.  The value matters to the source only;
\* a source removed meanwhile is destroyed now.
UpdateReturns(keep) ==
  /\ upd' = "no" /\ dispatching' = FALSE /\ removed' = FALSE
  /\ kind' = IF dispatching /\ (removed \/ (upd = "source" /\ ~keep))
               THEN Other(kind) ELSE kind
  /\ cont' = IF cont = "open" THEN "dialog" ELSE cont

\* The nested loop is over.
UpdateEnd ==
  /\ ~exited /\ at = "loop" /\ upd # "no"
  /\ \E keep \in Keeps :
       IF keep /\ stop_requested /\ status # "STOP"
         THEN /\ stop_requested' = FALSE
              /\ StopCapture(online)
              /\ at' = "closing"
              /\ UNCHANGED <<pch_open, diagVars, cont>>
         ELSE /\ UpdateReturns(keep)
              /\ stop_requested' = (stop_requested /\ ~keep)
              /\ UNCHANGED <<status, pcapVars, catalogs, srcVars, pktVars, at>>
  /\ UNCHANGED <<online, gui, exited>>

\* timeout_changed, from the preferences dialog.  While the source is being
\* dispatched GLib puts its destroy notification off until the dispatch is over.
TimeoutChanged ==
  /\ User("timeout")
  /\ IF dispatching THEN removed' = TRUE /\ UNCHANGED kind
                    ELSE kind' = Other(kind) /\ UNCHANGED removed
  /\ UNCHANGED <<status, online, pcapVars, catalogs, srcVars, pktVars, gui,
                 stop_requested, upd, dispatching, cont, at, exited>>

Terminated == exited /\ UNCHANGED vars

-----------------------------------------------------------------------------
Next ==
  \/ UserStart \/ UserPause \/ UserNext \/ UserStop
  \/ \E what \in {"interface", "open", "mode"} : UserChange(what)
  \/ InitRest \/ CloseDevice
  \/ Continue \/ DialogCancelled \/ TimeoutChanged
  \/ Cleanup
  \/ \E i \in TimerId : FireTimer(i)
  \/ Tick
  \/ DiagramDispatch \/ UpdateEnd
  \/ Terminated

\* The main loop serves every source that is ready, and a nested loop ends: what
\* arrives is handled faster than it arrives.  The user owes nothing.
Fairness ==
  /\ \A i \in TimerId : WF_vars(FireTimer(i))
  /\ WF_vars(Tick)
  /\ WF_vars(DiagramDispatch)
  /\ WF_vars(UpdateEnd)
  /\ WF_vars(Continue) /\ WF_vars(InitRest) /\ WF_vars(CloseDevice)

Spec == Init /\ [][Next]_vars

FairSpec == Spec /\ Fairness

-----------------------------------------------------------------------------
(* Properties.                                                             *)

\* Every variable holds a value of its kind; capture_source names a pending source,
\* or the model knows that it is stale.
TypeOK ==
  /\ status \in {"STOP", "PLAY", "PAUSE", "CAP_EOF"}
  /\ online \in BOOLEAN /\ pch_open \in BOOLEAN
  /\ abandoned \in BOOLEAN /\ leaked \subseteq {"abandoned", "running"}
  /\ catalogs \in BOOLEAN /\ input \in BOOLEAN /\ stop_requested \in BOOLEAN
  /\ dispatching \in BOOLEAN /\ removed \in BOOLEAN /\ exited \in BOOLEAN
  /\ pch \in {"null", "live", "file"}
  /\ DOMAIN timers \subseteq TimerId /\ \A i \in DOMAIN timers : timers[i] \in Nat
  /\ current \in DOMAIN timers \cup {"none", "input"}
  /\ buffer \in {"none", "fresh", "done"}
  /\ remaining \in Nat /\ ms_to_next \in Nat /\ owed \in Nat
  /\ acq \in {"none", "due", "early", "again"}
  /\ gui \in {"stopped", "live", "replay", "paused", "eof"}
  /\ upd \in {"no", "source", "direct"} /\ kind \in {"timeout", "idle"}
  /\ cont \in {"none", "interface", "open", "mode", "start", "dialog"}
  /\ at \in {"loop", "opened", "closing"}

\* get_offline_packet and get_live_packet read pch_struct and file what they read
\* in the catalogs whenever the status is not STOP: both are open then, and a
\* stopped capture leaves no catalog open for start_capture to open again.
RunningIsOpen ==
  /\ status # "STOP" => pch_open /\ catalogs
  /\ status = "STOP" => ~catalogs

\* The buttons follow the status although status changes in timers, commands and
\* nested loops and the buttons only in gui_*_capture: Stop can be pressed
\* exactly while there is something to stop, and Start never while packets flow.
GuiMatchesStatus ==
  (~exited /\ at # "closing") =>
    /\ (status = "STOP") <=> (gui = "stopped")
    /\ status = "PLAY" => gui \in {"live", "replay"}
    /\ gui = "eof" => status = "CAP_EOF"
    /\ status = "PAUSE" => gui = "paused"

\* A running replay has a timer, and capture_source names it: neither Pause nor
\* Next meets a stale id ("Error while trying to pause capture"), and the replay
\* never hangs.
ReplayTimerCurrent ==
  (status = "PLAY" /\ ~online /\ pch = "file") => current \in DOMAIN timers

\* The canvas is never emptied under a running update: a capture stops between
\* two updates, or at the end of one that was asked to.
StopWaitsForUpdate ==
  [][ (status # "STOP" /\ status' = "STOP" /\ ~exited') =>
        upd = "no" \/ stop_requested ]_vars

\* What keeps an open device without a capture that stop_capture would close: a signal
\* between opening and running or between stopping and closing, and an init_capture
\* that gave up after opening.  Nothing else does, in no order of commands, timers,
\* nested loops and signals, and no handle is lost under a running capture.
OpenDeviceRuns ==
  /\ pch_open /\ status = "STOP" => at # "loop" \/ abandoned
  /\ "running" \notin leaked

\* "It forces a waiting time so that it reproduces the rate at which packets were
\* coming" (get_offline_packet); the Start and Next buttons waive the wait.  And
\* each packet of a file is counted once; "error or timeout, ignore packet".
PacedReplay == acq \notin {"early", "again"}

\* The end of a replay reaches the user.
EofShown == status = "CAP_EOF" ~> (gui = "eof" \/ status # "CAP_EOF" \/ exited)

\* A replay that is left alone ends.
ReplayEnds ==
  (status = "PLAY" /\ pch = "file" /\ ~online) ~> (status # "PLAY" \/ online \/ exited)

\* A "pending stop request" is carried out, unless the capture is paused or over
\* (update_diagram returns early then and the user can press Stop again).
StopHonoured ==
  stop_requested ~> (~stop_requested \/ status \in {"PAUSE", "CAP_EOF"} \/ exited)

-----------------------------------------------------------------------------
(* What the code does not guarantee; no run lists it.                      *)

\* "It's the input tag or the timeout tag, in online or offline mode" (capture_source).
\* Start, pressed in the nested loop while a change of interface or an Open waits
\* in gui_stop_capture, leaves a capture running that the change does not replace.
SourceMatchesMode ==
  (status = "PLAY" /\ ~exited) => (online <=> current = "input")

\* "Makes sure we don't leave any open device behind" (cleanup_capture).  The two cases
\* that OpenDeviceRuns names leave one.
NoOpenDeviceBehind == exited => ~pch_open /\ leaked = {}
=============================================================================
