--------------------------- MODULE CaptureProofs ---------------------------
(***************************************************************************)
(* Proofs about CaptureControl, for any number of timers, any file and any *)
(* choice of commands, failures and load.                                  *)
(***************************************************************************)
EXTENDS CaptureControl, TLAPS

-----------------------------------------------------------------------------
(* Types.                                                                  *)

\* The static initial values of capture.c, menus.c and diagram.c have their types.
LEMMA InitType == Init => TypeOK
<1> SUFFICES ASSUME Init PROVE TypeOK
  OBVIOUS
<1>1. DOMAIN timers = {}
  BY DEF Init, NoTimers
<1> QED
  BY <1>1 DEF Init, TypeOK

\* The types that a step of the sources can disturb.
SourceType ==
  /\ input \in BOOLEAN
  /\ DOMAIN timers \subseteq TimerId /\ \A i \in DOMAIN timers : timers[i] \in Nat
  /\ current \in DOMAIN timers \cup {"none", "input"}

PacketType ==
  /\ buffer \in {"none", "fresh", "done"}
  /\ remaining \in Nat /\ ms_to_next \in Nat /\ owed \in Nat
  /\ acq \in {"none", "due", "early", "again"}

\* The types of the sources and of the replay buffer, taken out of TypeOK.
LEMMA TypeParts == TypeOK => SourceType /\ PacketType
BY DEF TypeOK, SourceType, PacketType

\* g_source_remove keeps the table of timers well formed, whatever the delay.
LEMMA RemoveSourceType ==
  ASSUME SourceType, NEW delay \in Nat, RemoveSource(delay)
  PROVE  SourceType'
<1>1. input' \in BOOLEAN
  BY DEF RemoveSource, SourceType
<1>2. CASE current \in DOMAIN timers /\ status = "PLAY"
  BY <1>1, <1>2 DEF RemoveSource, SourceType
<1>3. CASE ~ (current \in DOMAIN timers /\ status = "PLAY")
  BY <1>1, <1>3 DEF RemoveSource, SourceType
<1> QED
  BY <1>2, <1>3

\* stop_capture leaves sources, buffer and handle well typed.
LEMMA StopCaptureType ==
  ASSUME TypeOK, NEW onl \in BOOLEAN, StopCapture(onl)
  PROVE  /\ SourceType' /\ PacketType'
         /\ status' = "STOP" /\ catalogs' = FALSE
         /\ UNCHANGED <<pch, abandoned, leaked>>
<1>1. SourceType /\ PacketType
  BY TypeParts
<1>2. SourceType'
  <2>1. CASE onl
    BY <1>1, <2>1, RemoveSourceType DEF StopCapture, PacketType
  <2>2. CASE ~onl
    BY <1>1, <2>2 DEF StopCapture, srcVars, SourceType
  <2> QED
    BY <2>1, <2>2
<1>3. PacketType'
  BY <1>1 DEF StopCapture, PacketType
<1> QED
  BY <1>2, <1>3 DEF StopCapture

\* start_capture adds a timer with a fresh id and makes it capture_source.
LEMMA StartCaptureType ==
  ASSUME TypeOK, NEW onl \in BOOLEAN, StartCapture(onl)
  PROVE  /\ SourceType' /\ owed' \in Nat
         /\ status' = "PLAY" /\ catalogs' \in BOOLEAN
         /\ gui' \in {"live", "replay"}
<1>1. status' = "PLAY" /\ catalogs' \in BOOLEAN /\ gui' \in {"live", "replay"}
  BY DEF StartCapture, OpenCatalogs, StartButtons
<1>2. CASE onl
  BY <1>1, <1>2 DEF StartCapture, TypeOK, SourceType
<1>3. CASE ~onl
  <2>1. PICK i \in TimerId \ DOMAIN timers :
          /\ timers' = [j \in DOMAIN timers \cup {i} |-> IF j = i THEN 0 ELSE timers[j]]
          /\ current' = i /\ owed' = 0 /\ UNCHANGED input
    BY <1>3 DEF StartCapture
  <2>2. DOMAIN timers' = DOMAIN timers \cup {i}
    BY <2>1
  <2>3. \A j \in DOMAIN timers' : timers'[j] \in Nat
    BY <2>1, <2>2 DEF TypeOK
  <2> QED
    BY <1>1, <2>1, <2>2, <2>3 DEF TypeOK, SourceType
<1> QED
  BY <1>2, <1>3

\* everything gui_stop_capture and gui_start_capture may change
CommandType ==
  /\ SourceType /\ PacketType
  /\ status \in {"STOP", "PLAY", "PAUSE", "CAP_EOF"}
  /\ pch \in {"null", "live", "file"}
  /\ pch_open \in BOOLEAN /\ abandoned \in BOOLEAN /\ catalogs \in BOOLEAN
  /\ leaked \subseteq {"abandoned", "running"}
  /\ gui \in {"stopped", "live", "replay", "paused", "eof"}
  /\ at \in {"loop", "opened", "closing"}

\* gui_stop_capture is well typed in both its branches, deferred and immediate.
LEMMA GuiStopType ==
  ASSUME TypeOK, NEW next, NEW onl \in BOOLEAN, GuiStop(next, onl), UNCHANGED gui
  PROVE  /\ CommandType'
         /\ stop_requested' \in BOOLEAN
         /\ cont' \in {cont, next}
<1>1. CASE AlreadyUpdating
  <2>1. /\ UNCHANGED <<status, pcapVars, catalogs, srcVars, pktVars, gui, cont, at>>
        /\ stop_requested' \in BOOLEAN
    BY <1>1 DEF GuiStop
  <2> QED
    BY <2>1 DEF TypeOK, CommandType, SourceType, PacketType, pcapVars, srcVars, pktVars
<1>2. CASE ~AlreadyUpdating
  <2>1. StopCapture(onl) /\ UNCHANGED pch_open /\ at' = "closing" /\ cont' = next
        /\ stop_requested' = FALSE
    BY <1>2 DEF GuiStop
  <2> QED
    BY <2>1, StopCaptureType DEF TypeOK, CommandType
<1> QED
  BY <1>1, <1>2

\* Opening a device is well typed whether it fails or not.
LEMMA OpenDeviceType ==
  ASSUME TypeOK, NEW onl \in BOOLEAN, OpenDevice(onl)
  PROVE  /\ pch' \in {"null", "live", "file"}
         /\ pch_open' \in BOOLEAN /\ abandoned' \in BOOLEAN
         /\ leaked' \subseteq {"abandoned", "running"}
         /\ at' \in {"loop", "opened", "closing"}
<1>1. Opened \in {"abandoned", "running"}
  BY DEF Opened
<1>2. leaked' \subseteq {"abandoned", "running"} /\ abandoned' \in BOOLEAN
  BY <1>1 DEF OpenDevice, TypeOK
<1>3. /\ pch' \in {"null", "live", "file"} /\ pch_open' \in BOOLEAN
      /\ at' \in {"loop", "opened", "closing"}
  BY DEF OpenDevice, TypeOK
<1> QED
  BY <1>2, <1>3

\* gui_start_capture, up to the opening of the device or whole, is well typed.
LEMMA GuiStartRestType ==
  ASSUME TypeOK, NEW onl \in BOOLEAN, GuiStartRest(onl)
  PROVE  CommandType'
<1>1. CASE /\ OpenDevice(onl)
           /\ UNCHANGED <<status, catalogs, srcVars, pktVars, gui>>
  BY <1>1, OpenDeviceType DEF TypeOK, CommandType, SourceType, PacketType, srcVars, pktVars
<1>2. CASE UNCHANGED <<status, pcapVars, catalogs, srcVars, pktVars, gui, at>>
  BY <1>2 DEF TypeOK, CommandType, SourceType, PacketType, pcapVars, srcVars, pktVars
<1>3. CASE /\ StartCapture(onl)
           /\ UNCHANGED <<pcapVars, buffer, remaining, ms_to_next, acq, at>>
  BY <1>3, StartCaptureType DEF TypeOK, CommandType, PacketType, pcapVars
<1> QED
  BY <1>1, <1>2, <1>3 DEF GuiStartRest

\* The end of init_capture and start_capture after it keep the types.
LEMMA InitRestType ==
  ASSUME TypeOK, InitRest
  PROVE  TypeOK'
<1>1. /\ at' = "loop"
      /\ UNCHANGED <<online, pch, pch_open, leaked, stop_requested, upd, dispatching,
                     removed, kind, cont, exited>>
  BY DEF InitRest, diagVars
<1>2. CASE /\ abandoned' = TRUE
           /\ UNCHANGED <<status, catalogs, srcVars, pktVars, gui>>
  BY <1>1, <1>2 DEF TypeOK, srcVars, pktVars
<1>3. CASE /\ StartCapture(online)
           /\ remaining' = IF online THEN 0 ELSE FileLen
           /\ UNCHANGED <<abandoned, buffer, ms_to_next, acq>>
  <2>1. /\ SourceType' /\ owed' \in Nat /\ status' = "PLAY" /\ catalogs' \in BOOLEAN
        /\ gui' \in {"live", "replay"}
    BY <1>3, StartCaptureType DEF TypeOK
  <2>2. remaining' \in Nat
    BY <1>3, CaptureAssumption
  <2> QED
    BY <1>1, <1>3, <2>1, <2>2 DEF TypeOK, SourceType
<1> QED
  BY <1>2, <1>3 DEF InitRest

\* Closing the device and what gui_stop_capture does next keep the types.
LEMMA CloseDeviceType ==
  ASSUME TypeOK, CloseDevice
  PROVE  TypeOK'
<1>1. at' = "loop" /\ pch_open' = FALSE /\ gui' = "stopped" /\ upd' = "direct"
  BY DEF CloseDevice, PcapClose
<1>2. UNCHANGED <<status, online, pch, abandoned, leaked, catalogs, srcVars, pktVars,
                  stop_requested, dispatching, removed, kind, cont, exited>>
  BY DEF CloseDevice
<1>3. pch_open' \in BOOLEAN
  BY <1>1
<1> QED
  BY <1>1, <1>2, <1>3 DEF TypeOK, srcVars, pktVars

\* The commands built from gui_start_capture and gui_stop_capture keep the types.
LEMMA CommandsType ==
  ASSUME TypeOK,
         \/ UserStart \/ UserStop \/ Continue
         \/ \E what \in {"interface", "open", "mode"} : UserChange(what)
  PROVE  TypeOK'
<1> DEFINE Rest == UNCHANGED <<upd, dispatching, removed, kind, exited>>
           Out  == /\ CommandType' /\ online' \in BOOLEAN
                   /\ stop_requested' \in BOOLEAN
                   /\ cont' \in {"none", "interface", "open", "mode", "start", "dialog"}
<1>1. Out /\ Rest => TypeOK'
  BY DEF TypeOK, CommandType, SourceType, PacketType
<1>2. TypeOK => /\ online \in BOOLEAN /\ stop_requested \in BOOLEAN
                /\ cont \in {"none", "interface", "open", "mode", "start", "dialog"}
                /\ CommandType
                /\ \A w : OnlineAfter(w) \in BOOLEAN
  BY TypeParts DEF TypeOK, CommandType, OnlineAfter
<1>3. CASE UserStart
  <2>1. Rest /\ UNCHANGED online
    BY <1>3 DEF UserStart, diagVars
  <2>2. CASE status = "CAP_EOF"
    BY <1>1, <1>2, <1>3, <2>1, <2>2, GuiStopType DEF UserStart
  <2>3. CASE status # "CAP_EOF"
    BY <1>1, <1>2, <1>3, <2>1, <2>3, GuiStartRestType DEF UserStart
  <2> QED
    BY <2>2, <2>3
<1>4. CASE UserStop
  <2>1. Rest /\ UNCHANGED online
    BY <1>4 DEF UserStop, diagVars
  <2>2. CASE status = "STOP"
    BY <1>1, <1>2, <1>4, <2>1, <2>2
       DEF UserStop, CommandType, SourceType, PacketType, pcapVars, srcVars, pktVars
  <2>3. CASE status # "STOP"
    BY <1>1, <1>2, <1>4, <2>1, <2>3, GuiStopType DEF UserStop
  <2> QED
    BY <2>2, <2>3
<1>5. CASE \E what \in {"interface", "open", "mode"} : UserChange(what)
  <2>1. PICK what \in {"interface", "open", "mode"} : UserChange(what)
    BY <1>5
  <2>2. Rest
    BY <2>1 DEF UserChange, diagVars
  <2>3. CASE status = "STOP"
    BY <1>1, <1>2, <2>1, <2>2, <2>3, GuiStartRestType DEF UserChange
  <2>4. CASE status # "STOP"
    BY <1>1, <1>2, <2>1, <2>2, <2>4, GuiStopType DEF UserChange
  <2> QED
    BY <2>3, <2>4
<1>6. CASE Continue
  <2>1. Rest
    BY <1>6 DEF Continue, diagVars
  <2>2. ASSUME NEW onl \in BOOLEAN, GuiStart(onl), online' = onl
        PROVE  Out
    <3>1. CASE status = "CAP_EOF" /\ GuiStop("start", onl) /\ UNCHANGED gui
      BY <1>2, <2>2, <3>1, GuiStopType
    <3>2. CASE GuiStartRest(onl) /\ UNCHANGED stop_requested /\ cont' = "none"
      BY <1>2, <2>2, <3>2, GuiStartRestType
    <3> QED
      BY <2>2, <3>1, <3>2 DEF GuiStart
  <2>3. CASE cont = "start" /\ GuiStartRest(online) /\ cont' = "none"
             /\ UNCHANGED <<online, stop_requested>>
    BY <1>1, <1>2, <2>1, <2>3, GuiStartRestType
  <2>4. CASE online' = OnlineAfter(cont) /\ GuiStart(OnlineAfter(cont))
    BY <1>1, <1>2, <2>1, <2>2, <2>4
  <2>5. CASE online' = FALSE /\ GuiStart(FALSE)
    BY <1>1, <2>1, <2>2, <2>5
  <2> QED
    BY <1>6, <2>3, <2>4, <2>5 DEF Continue
<1> QED
  BY <1>3, <1>4, <1>5, <1>6

\* get_offline_packet followed by cap_t_o_destroy keeps the types.
LEMMA FireTimerType ==
  ASSUME TypeOK, NEW i \in TimerId, FireTimer(i)
  PROVE  TypeOK'
<1>1. PacketType' /\ status' \in {"STOP", "PLAY", "PAUSE", "CAP_EOF"}
  <2>1. CASE status = "STOP"
    BY <2>1 DEF FireTimer, TypeOK, PacketType
  <2>2. CASE status # "STOP"
    <3>1. acq' \in {"none", "due", "early", "again"}
      BY <2>2 DEF FireTimer, Acquired, TypeOK
    <3>2. Used \in {"none", "fresh", "done"}
      BY DEF Used
    <3>3. CASE ReadPacket
      BY <3>1, <3>3, CaptureAssumption DEF ReadPacket, TypeOK, PacketType
    <3>4. CASE ReadError
      BY <3>1, <3>2, <3>4 DEF ReadError, TypeOK, PacketType
    <3>5. CASE ReadEnd
      BY <3>1, <3>2, <3>5 DEF ReadEnd, TypeOK, PacketType
    <3> QED
      BY <2>2, <3>3, <3>4, <3>5 DEF FireTimer
  <2> QED
    BY <2>1, <2>2
<1>2. ms_to_next' \in Nat
  BY <1>1 DEF PacketType
<1>3. SourceType'
  <2>1. CASE status' = "PLAY"
    BY <1>2, <2>1 DEF FireTimer, RenewDelay, TypeOK, SourceType
  <2>2. CASE status' # "PLAY"
    BY <2>2 DEF FireTimer, TypeOK, SourceType
  <2> QED
    BY <2>1, <2>2
<1>4. UNCHANGED <<online, pch, pch_open, abandoned, leaked, catalogs, gui,
                  stop_requested, upd, dispatching, removed, kind, cont, at, exited>>
  BY DEF FireTimer, pcapVars, diagVars
<1> QED
  BY <1>1, <1>3, <1>4 DEF TypeOK, SourceType, PacketType

\* gui_pause_capture keeps the types.
LEMMA UserPauseType ==
  ASSUME TypeOK, UserPause
  PROVE  TypeOK'
<1>1. SourceType'
  <2>1. CASE status = "PLAY" /\ ~online
    BY <2>1, TypeParts, RemoveSourceType DEF UserPause, PacketType
  <2>2. CASE ~ (status = "PLAY" /\ ~online)
    BY <2>2 DEF UserPause, TypeOK, SourceType, srcVars
  <2> QED
    BY <2>1, <2>2
<1>2. status' \in {status, "PAUSE"} /\ gui' \in {gui, "paused"}
  BY DEF UserPause
<1>3. UNCHANGED <<online, pch, pch_open, abandoned, leaked, catalogs, buffer, remaining,
                  ms_to_next, owed, acq, stop_requested, upd, dispatching, removed, kind,
                  cont, at, exited>>
  BY DEF UserPause, pcapVars, pktVars, diagVars
<1> QED
  BY <1>1, <1>2, <1>3 DEF TypeOK, SourceType

\* force_next_packet keeps the types.
LEMMA UserNextType ==
  ASSUME TypeOK, UserNext
  PROVE  TypeOK'
<1>1. SourceType'
  BY TypeParts, RemoveSourceType DEF UserNext
<1>2. ms_to_next' = 0 /\ owed' = 0
  BY DEF UserNext
<1>3. UNCHANGED <<status, online, pch, pch_open, abandoned, leaked, catalogs, buffer,
                  remaining, acq, gui, stop_requested, upd, dispatching, removed, kind,
                  cont, at, exited>>
  BY DEF UserNext, pcapVars, diagVars
<1> QED
  BY <1>1, <1>2, <1>3 DEF TypeOK, SourceType

\* The signal handler cleanup keeps the types.
LEMMA CleanupType ==
  ASSUME TypeOK, Cleanup
  PROVE  TypeOK'
<1>1. /\ exited' = TRUE
      /\ UNCHANGED <<online, gui, stop_requested, upd, dispatching, removed, kind, cont>>
  BY DEF Cleanup, diagVars
<1>2. CASE status = "STOP"
  BY <1>1, <1>2 DEF Cleanup, TypeOK, pcapVars, srcVars, pktVars
<1>3. CASE status # "STOP"
  <2>1. online \in BOOLEAN /\ StopCapture(online)
    BY <1>3 DEF Cleanup, TypeOK
  <2>2. /\ SourceType' /\ PacketType' /\ status' = "STOP" /\ catalogs' = FALSE
        /\ UNCHANGED <<pch, abandoned, leaked>>
    BY <2>1, StopCaptureType
  <2>3. /\ catalogs' \in BOOLEAN /\ pch_open' \in BOOLEAN /\ exited' \in BOOLEAN
        /\ at' \in {"loop", "opened", "closing"}
    BY <1>1, <1>3, <2>2 DEF Cleanup, PcapClose, TypeOK
  <2> QED
    BY <1>1, <2>2, <2>3 DEF TypeOK, SourceType, PacketType
<1> QED
  BY <1>2, <1>3

\* The end of update_diagram, with or without a deferred stop, keeps the types.
LEMMA UpdateEndType ==
  ASSUME TypeOK, UpdateEnd
  PROVE  TypeOK'
<1>1. PICK keep \in Keeps :
        IF keep /\ stop_requested /\ status # "STOP"
          THEN /\ stop_requested' = FALSE
               /\ StopCapture(online)
               /\ at' = "closing"
               /\ UNCHANGED <<pch_open, diagVars, cont>>
          ELSE /\ UpdateReturns(keep)
               /\ stop_requested' = (stop_requested /\ ~keep)
               /\ UNCHANGED <<status, pcapVars, catalogs, srcVars, pktVars, at>>
  BY DEF UpdateEnd
<1>2. UNCHANGED <<online, gui, exited>> /\ online \in BOOLEAN
  BY DEF UpdateEnd, TypeOK
<1>3. CASE keep /\ stop_requested /\ status # "STOP"
  <2>1. /\ stop_requested' = FALSE /\ at' = "closing"
        /\ UNCHANGED <<pch_open, upd, dispatching, removed, kind, cont>>
    BY <1>1, <1>3 DEF diagVars
  <2>2. /\ SourceType' /\ PacketType' /\ status' = "STOP" /\ catalogs' = FALSE
        /\ UNCHANGED <<pch, abandoned, leaked>>
    BY <1>1, <1>2, <1>3, StopCaptureType
  <2>3. catalogs' \in BOOLEAN /\ stop_requested' \in BOOLEAN
    BY <2>1, <2>2
  <2> QED
    BY <1>2, <2>1, <2>2, <2>3 DEF TypeOK, SourceType, PacketType
<1>4. CASE ~ (keep /\ stop_requested /\ status # "STOP")
  <2>1. /\ UpdateReturns(keep) /\ stop_requested' \in BOOLEAN
        /\ UNCHANGED <<status, pcapVars, catalogs, srcVars, pktVars, at>>
    BY <1>1, <1>4
  <2>2. /\ upd' = "no" /\ dispatching' = FALSE /\ removed' = FALSE
        /\ kind' \in {"timeout", "idle"} /\ cont' \in {cont, "dialog"}
    BY <2>1 DEF UpdateReturns, Other, TypeOK
  <2>3. dispatching' \in BOOLEAN /\ removed' \in BOOLEAN
    BY <2>2
  <2> QED
    BY <1>2, <2>1, <2>2, <2>3 DEF TypeOK, pcapVars, srcVars, pktVars
<1> QED
  BY <1>3, <1>4

\* Steps that touch neither the handle nor the replay keep the types.
LEMMA OtherType ==
  ASSUME TypeOK,
         \/ DialogCancelled \/ TimeoutChanged \/ Tick \/ DiagramDispatch
         \/ Terminated \/ UNCHANGED vars
  PROVE  TypeOK'
<1>1. CASE DialogCancelled
  BY <1>1 DEF DialogCancelled, TypeOK, pcapVars, srcVars, pktVars, diagVars
<1>2. CASE TimeoutChanged
  <2>1. kind' \in {"timeout", "idle"} /\ removed' \in BOOLEAN
    BY <1>2 DEF TimeoutChanged, Other, TypeOK
  <2>2. UNCHANGED <<status, online, pcapVars, catalogs, srcVars, pktVars, gui,
                    stop_requested, upd, dispatching, cont, at, exited>>
    BY <1>2 DEF TimeoutChanged
  <2> QED
    BY <2>1, <2>2 DEF TypeOK, pcapVars, srcVars, pktVars
<1>3. CASE Tick
  <2>1. \A n \in Nat : Less(n) \in Nat
    BY DEF Less
  <2>2. DOMAIN timers' = DOMAIN timers /\ \A i \in DOMAIN timers' : timers'[i] \in Nat
    BY <1>3, <2>1 DEF Tick, TypeOK
  <2> QED
    BY <1>3, <2>1, <2>2 DEF Tick, TypeOK, pcapVars, diagVars
<1>4. CASE DiagramDispatch
  <2>1. kind' \in {"timeout", "idle"} /\ gui' \in {gui, "eof"}
        /\ upd' \in {upd, "source"} /\ dispatching' \in {dispatching, TRUE}
    BY <1>4 DEF DiagramDispatch, GuiEof, Other, TypeOK
  <2>2. UNCHANGED <<status, online, pcapVars, catalogs, srcVars, pktVars,
                    stop_requested, removed, cont, at, exited>>
    BY <1>4 DEF DiagramDispatch
  <2>3. dispatching' \in BOOLEAN
    BY <2>1 DEF TypeOK
  <2> QED
    BY <2>1, <2>2, <2>3 DEF TypeOK, pcapVars, srcVars, pktVars
<1>5. CASE Terminated \/ UNCHANGED vars
  <2>1. UNCHANGED vars
    BY <1>5 DEF Terminated
  <2> QED
    BY <2>1 DEF vars, TypeOK, pcapVars, srcVars, pktVars, diagVars
<1> QED
  BY <1>1, <1>2, <1>3, <1>4, <1>5

\* Every variable of the capture control keeps its type; in particular
\* capture_source is a pending source or known to be stale.
THEOREM TypeCorrect == Spec => []TypeOK
<1>1. TypeOK /\ [Next]_vars => TypeOK'
  BY CommandsType, InitRestType, CloseDeviceType, FireTimerType, UserPauseType,
     UserNextType, CleanupType, UpdateEndType, OtherType DEF Next
<1> QED
  BY <1>1, InitType, PTL DEF Spec

-----------------------------------------------------------------------------
(* Status, handle, catalogs, buttons and timers.                           *)

\* A capture that was started while another caller of gui_stop_capture was
\* waiting reads from what appdata says now.  Without it ReplayTimerCurrent is not
\* inductive: Continue may turn online off under a running capture.
NestedSession ==
  (cont # "none" /\ status # "STOP") => (online <=> pch = "live")

\* Half way through start and stop the status is STOP; a device just opened is the one
\* that appdata asks for.
Halfway ==
  /\ at = "opened" => /\ status = "STOP" /\ pch_open
                      /\ pch = IF online THEN "live" ELSE "file"
  /\ at = "closing" => status = "STOP"

Safe ==
  RunningIsOpen /\ GuiMatchesStatus /\ ReplayTimerCurrent /\ NestedSession /\ Halfway

\* What the steps of Safe look at.
safeVars == <<status, online, pch, pch_open, catalogs, timers, current, gui, cont, at,
              exited>>

\* Before main calls gui_start_capture nothing is open and nothing is shown.
LEMMA InitSafe == Init => Safe
BY DEF Init, Safe, RunningIsOpen, GuiMatchesStatus, ReplayTimerCurrent, NestedSession,
       Halfway

\* Safe depends on safeVars only.
LEMMA SafeStutter ==
  ASSUME Safe, UNCHANGED safeVars
  PROVE  Safe'
BY DEF safeVars, Safe, RunningIsOpen, GuiMatchesStatus, ReplayTimerCurrent, NestedSession,
       Halfway

\* A step to STOP that closes the catalogs and resets the buttons, or is about to, is safe.
LEMMA StoppedSafe ==
  ASSUME status' = "STOP", ~catalogs', at' # "opened",
         gui' = "stopped" \/ at' = "closing" \/ exited'
  PROVE  Safe'
BY DEF Safe, RunningIsOpen, GuiMatchesStatus, ReplayTimerCurrent, NestedSession, Halfway

\* gui_stop_capture keeps Safe: deferred it changes nothing Safe reads, carried
\* out it closes everything at once.
LEMMA GuiStopSafe ==
  ASSUME Safe, NEW next, NEW onl, GuiStop(next, onl), UNCHANGED <<online, gui, exited>>
  PROVE  Safe'
<1>1. CASE AlreadyUpdating
  BY <1>1, SafeStutter DEF GuiStop, safeVars, pcapVars, srcVars
<1>2. CASE ~AlreadyUpdating
  BY <1>2, StoppedSafe DEF GuiStop, StopCapture
<1> QED
  BY <1>1, <1>2

\* gui_start_capture opens the device of a stopped capture, does nothing to a running
\* one, and lets one that pauses or is over run again, with the timer of a replay.
LEMMA GuiStartRestCases ==
  ASSUME NEW onl, GuiStartRest(onl), RunningIsOpen, at = "loop"
  PROVE  \/ /\ status = "STOP" /\ UNCHANGED <<status, catalogs, gui>>
            /\ at' \in {"loop", "opened"}
            /\ at' = "opened" => pch_open' /\ pch' = IF onl THEN "live" ELSE "file"
         \/ /\ status = "PLAY"
            /\ UNCHANGED <<status, pch, pch_open, catalogs, timers, current, gui, at>>
         \/ /\ status \in {"PAUSE", "CAP_EOF"} /\ UNCHANGED <<pch, at>>
            /\ status' = "PLAY" /\ catalogs' /\ pch_open'
            /\ gui' \in {"live", "replay"}
            /\ ~onl => current' \in DOMAIN timers'
<1>1. CASE /\ status = "STOP" /\ OpenDevice(onl)
           /\ UNCHANGED <<status, catalogs, srcVars, pktVars, gui>>
  BY <1>1 DEF OpenDevice
<1>2. CASE /\ status = "PLAY"
           /\ UNCHANGED <<status, pcapVars, catalogs, srcVars, pktVars, gui, at>>
  BY <1>2 DEF pcapVars, srcVars
<1>3. CASE /\ status \in {"PAUSE", "CAP_EOF"} /\ StartCapture(onl)
           /\ UNCHANGED <<pcapVars, at>>
  BY <1>3 DEF StartCapture, StartButtons, OpenCatalogs, pcapVars, RunningIsOpen
<1> QED
  BY <1>1, <1>2, <1>3 DEF GuiStartRest

\* The Start button keeps Safe.
LEMMA UserStartSafe ==
  ASSUME Safe, UserStart
  PROVE  Safe'
<1>1. UNCHANGED <<online, exited>> /\ ~exited /\ at = "loop"
  BY DEF UserStart, User, MainLoop
<1>2. CASE status = "CAP_EOF"
  BY <1>1, <1>2, GuiStopSafe DEF UserStart
<1>3. CASE status # "CAP_EOF"
  <2>1. GuiStartRest(online) /\ UNCHANGED cont /\ status # "PLAY"
    BY <1>1, <1>3 DEF UserStart, Safe, GuiMatchesStatus
  <2> QED
    BY <1>1, <2>1, GuiStartRestCases
       DEF Safe, RunningIsOpen, GuiMatchesStatus, ReplayTimerCurrent, NestedSession,
           Halfway
<1> QED
  BY <1>2, <1>3

\* Changing interface, file or mode keeps Safe.
LEMMA UserChangeSafe ==
  ASSUME Safe, NEW what, UserChange(what)
  PROVE  Safe'
<1>1. UNCHANGED exited /\ ~exited /\ at = "loop"
  BY DEF UserChange, User, MainLoop
<1>2. CASE status # "STOP"
  BY <1>1, <1>2, GuiStopSafe DEF UserChange
<1>3. CASE status = "STOP"
  <2>1. GuiStartRest(online') /\ UNCHANGED cont
    BY <1>3 DEF UserChange
  <2> QED
    BY <1>1, <1>3, <2>1, GuiStartRestCases
       DEF Safe, RunningIsOpen, GuiMatchesStatus, ReplayTimerCurrent, NestedSession,
           Halfway
<1> QED
  BY <1>2, <1>3

\* The caller of gui_stop_capture may find a capture running that was started
\* in the nested loop; NestedSession says that its timer is the right one.
LEMMA ContinueSafe ==
  ASSUME TypeOK, Safe, Continue
  PROVE  Safe'
<1>1. /\ UNCHANGED exited /\ ~exited /\ upd = "no" /\ at = "loop"
      /\ cont \in {"interface", "mode", "start", "dialog"}
  BY DEF Continue
<1>2. ASSUME GuiStartRest(online'), cont' = "none"
      PROVE  Safe'
  <2>1. CASE /\ status = "PLAY"
             /\ UNCHANGED <<status, pch, pch_open, catalogs, timers, current, gui, at>>
    <3>1. online <=> pch = "live"
      BY <1>1, <2>1 DEF Safe, NestedSession
    <3>2. pch = "file" => current \in DOMAIN timers
      BY <2>1, <3>1 DEF Safe, ReplayTimerCurrent
    <3> QED
      BY <1>1, <1>2, <2>1, <3>2
         DEF Safe, RunningIsOpen, GuiMatchesStatus, ReplayTimerCurrent, NestedSession,
             Halfway
  <2>2. CASE /\ status = "STOP" /\ UNCHANGED <<status, catalogs, gui>>
             /\ at' \in {"loop", "opened"}
             /\ at' = "opened" => pch_open' /\ pch' = IF online' THEN "live" ELSE "file"
    BY <1>1, <1>2, <2>2
       DEF Safe, RunningIsOpen, GuiMatchesStatus, ReplayTimerCurrent, NestedSession,
           Halfway
  <2>3. CASE /\ status' = "PLAY" /\ catalogs' /\ pch_open'
             /\ gui' \in {"live", "replay"}
             /\ ~online' => current' \in DOMAIN timers'
             /\ UNCHANGED at
    BY <1>1, <1>2, <2>3
       DEF Safe, RunningIsOpen, GuiMatchesStatus, ReplayTimerCurrent, NestedSession,
           Halfway
  <2> QED
    BY <1>1, <1>2, <2>1, <2>2, <2>3, GuiStartRestCases DEF Safe
<1>3. ASSUME GuiStop("start", online')
      PROVE  Safe'
  BY <1>1, <1>3, StoppedSafe DEF GuiStop, AlreadyUpdating, StopCapture
<1>4. CASE cont = "start"
  BY <1>2, <1>4 DEF Continue
<1>5. CASE cont # "start"
  <2>1. GuiStart(online')
    BY <1>5 DEF Continue
  <2> QED
    BY <1>2, <1>3, <2>1 DEF GuiStart
<1> QED
  BY <1>4, <1>5

\* A replay timer keeps Safe: it renews itself exactly as long as the status is PLAY.
LEMMA FireTimerSafe ==
  ASSUME Safe, NEW i, FireTimer(i)
  PROVE  Safe'
<1>1. /\ at = "loop"
      /\ UNCHANGED <<online, pch, pch_open, catalogs, gui, cont, at, exited>>
  BY DEF FireTimer, MainLoop, pcapVars
<1>2. /\ status' \in {status, "CAP_EOF"}
      /\ status = "STOP" => status' = "STOP"
  BY DEF FireTimer, ReadPacket, ReadError, ReadEnd
<1>3. status' = "PLAY" => current' \in DOMAIN timers'
  BY DEF FireTimer
<1> QED
  BY <1>1, <1>2, <1>3
     DEF Safe, RunningIsOpen, GuiMatchesStatus, ReplayTimerCurrent, NestedSession,
         Halfway

\* A capture runs once its device is open, its catalogs are and its timer is added.
LEMMA InitRestSafe ==
  ASSUME Safe, InitRest
  PROVE  Safe'
<1>1. /\ status = "STOP" /\ ~catalogs /\ pch_open /\ ~exited
      /\ pch = IF online THEN "live" ELSE "file"
      /\ at' = "loop" /\ UNCHANGED <<online, pch, pch_open, cont, exited>>
  BY DEF InitRest, Safe, Halfway, RunningIsOpen
<1>2. CASE UNCHANGED <<status, catalogs, gui>>
  <2>1. gui = "stopped"
    BY <1>1 DEF InitRest, Safe, GuiMatchesStatus
  <2> QED
    BY <1>1, <1>2, <2>1, StoppedSafe
<1>3. CASE StartCapture(online)
  <2>1. /\ status' = "PLAY" /\ catalogs' /\ gui' \in {"live", "replay"}
        /\ ~online => current' \in DOMAIN timers'
    BY <1>1, <1>3 DEF StartCapture, StartButtons, OpenCatalogs
  <2> QED
    BY <1>1, <2>1 DEF Safe, RunningIsOpen, GuiMatchesStatus, ReplayTimerCurrent,
                      NestedSession, Halfway
<1> QED
  BY <1>2, <1>3 DEF InitRest

\* Once the device of a stopped capture is closed the buttons follow.
LEMMA CloseDeviceSafe ==
  ASSUME Safe, CloseDevice
  PROVE  Safe'
BY StoppedSafe DEF CloseDevice, Safe, Halfway, RunningIsOpen

\* All other steps keep Safe.
LEMMA OtherSafe ==
  ASSUME TypeOK, Safe,
         \/ UserPause \/ UserNext \/ UserStop \/ DialogCancelled \/ TimeoutChanged
         \/ Cleanup \/ Tick \/ DiagramDispatch \/ UpdateEnd \/ Terminated
         \/ UNCHANGED vars
  PROVE  Safe'
<1>1. CASE UserPause
  BY <1>1 DEF UserPause, User, MainLoop, RemoveSource, pcapVars, srcVars, Safe,
              RunningIsOpen, GuiMatchesStatus, ReplayTimerCurrent, NestedSession,
              Halfway
<1>2. CASE UserNext
  BY <1>2 DEF UserNext, RemoveSource, pcapVars, Safe,
              RunningIsOpen, GuiMatchesStatus, ReplayTimerCurrent, NestedSession,
              Halfway
<1>3. CASE UserStop
  <2>1. UNCHANGED <<online, exited>>
    BY <1>3 DEF UserStop
  <2>2. CASE status = "STOP"
    BY <1>3, <2>1, <2>2, SafeStutter DEF UserStop, safeVars, pcapVars, srcVars
  <2>3. CASE status # "STOP"
    BY <1>3, <2>1, <2>3, GuiStopSafe DEF UserStop
  <2> QED
    BY <2>2, <2>3
<1>4. CASE DialogCancelled
  BY <1>4 DEF DialogCancelled, pcapVars, srcVars, Safe,
              RunningIsOpen, GuiMatchesStatus, ReplayTimerCurrent, NestedSession,
              Halfway
<1>5. CASE TimeoutChanged
  BY <1>5, SafeStutter DEF TimeoutChanged, safeVars, pcapVars, srcVars
<1>6. CASE Cleanup
  <2>1. CASE status = "STOP"
    BY <1>6, <2>1 DEF Cleanup, pcapVars, srcVars, Safe, RunningIsOpen, GuiMatchesStatus,
                      ReplayTimerCurrent, NestedSession, Halfway
  <2>2. CASE status # "STOP"
    <3>1. at # "opened"
      BY <2>2 DEF Safe, Halfway
    <3> QED
      BY <1>6, <2>2, <3>1, StoppedSafe DEF Cleanup, StopCapture
  <2> QED
    BY <2>1, <2>2
<1>7. CASE Tick
  BY <1>7 DEF Tick, pcapVars, Safe,
              RunningIsOpen, GuiMatchesStatus, ReplayTimerCurrent, NestedSession,
              Halfway
<1>8. CASE DiagramDispatch
  BY <1>8 DEF DiagramDispatch, GuiEof, pcapVars, srcVars, Safe,
              RunningIsOpen, GuiMatchesStatus, ReplayTimerCurrent, NestedSession,
              Halfway
<1>9. CASE UpdateEnd
  <2>1. CASE /\ StopCapture(online) /\ at' = "closing"
    BY <2>1, StoppedSafe DEF StopCapture
  <2>2. CASE \E keep \in Keeps :
               /\ UpdateReturns(keep)
               /\ UNCHANGED <<status, pcapVars, catalogs, srcVars, pktVars, at>>
    BY <1>9, <2>2 DEF UpdateEnd, UpdateReturns, pcapVars, srcVars, Safe,
                 RunningIsOpen, GuiMatchesStatus, ReplayTimerCurrent, NestedSession,
                 Halfway
  <2> QED
    BY <1>9, <2>1, <2>2 DEF UpdateEnd
<1>10. CASE Terminated \/ UNCHANGED vars
  BY <1>10, SafeStutter DEF Terminated, vars, safeVars, pcapVars, srcVars
<1> QED
  BY <1>1, <1>2, <1>3, <1>4, <1>5, <1>6, <1>7, <1>8, <1>9, <1>10

\* Safe, the conjunction of the three invariants with NestedSession, always holds.
THEOREM SafeInvariant == Spec => []Safe
<1>1. TypeOK /\ Safe /\ [Next]_vars => Safe'
  BY UserStartSafe, UserChangeSafe, ContinueSafe, InitRestSafe, CloseDeviceSafe,
     FireTimerSafe, OtherSafe DEF Next
<1> QED
  BY <1>1, InitSafe, TypeCorrect, PTL DEF Spec

\* Whenever packets can be read, the handle they are read from and the catalogs
\* they are filed in are open.
THEOREM RunningIsOpenAlways == Spec => []RunningIsOpen
<1>1. Safe => RunningIsOpen
  BY DEF Safe
<1> QED
  BY <1>1, SafeInvariant, PTL

\* The buttons follow the capture status through every nesting of commands.
THEOREM GuiMatchesStatusAlways == Spec => []GuiMatchesStatus
<1>1. Safe => GuiMatchesStatus
  BY DEF Safe
<1> QED
  BY <1>1, SafeInvariant, PTL

\* A running replay always has a pending timer that capture_source names.
THEOREM ReplayTimerCurrentAlways == Spec => []ReplayTimerCurrent
<1>1. Safe => ReplayTimerCurrent
  BY DEF Safe
<1> QED
  BY <1>1, SafeInvariant, PTL

\* stop_capture runs between two updates or at the end of one, never inside: the
\* comment in gui_stop_capture, "We can't allow two simultaneous calls".
THEOREM StopsBetweenUpdates == Spec => StopWaitsForUpdate
<1>1. ASSUME Next, status # "STOP", status' = "STOP", ~exited'
      PROVE  upd = "no" \/ stop_requested
  <2>1. ASSUME NEW next, NEW onl, GuiStop(next, onl)
        PROVE  upd = "no"
    BY <1>1, <2>1 DEF GuiStop, AlreadyUpdating
  <2>2. ASSUME NEW onl, GuiStartRest(onl)
        PROVE  FALSE
    BY <1>1, <2>2 DEF GuiStartRest, StartCapture
  <2>3. CASE UserStart
    BY <2>1, <2>2, <2>3 DEF UserStart
  <2>4. CASE UserStop
    BY <1>1, <2>1, <2>4 DEF UserStop
  <2>5. CASE \E what \in {"interface", "open", "mode"} : UserChange(what)
    BY <1>1, <2>1, <2>5 DEF UserChange
  <2>6. CASE Continue
    BY <2>6 DEF Continue
  <2>7. CASE UpdateEnd
    BY <1>1, <2>7 DEF UpdateEnd
  <2>8. CASE \E i \in TimerId : FireTimer(i)
    BY <1>1, <2>8 DEF FireTimer, ReadPacket, ReadError, ReadEnd
  <2>9. CASE UserPause
    BY <1>1, <2>9 DEF UserPause
  <2>10. CASE UserNext \/ DialogCancelled \/ TimeoutChanged \/ Tick \/ DiagramDispatch
    BY <1>1, <2>10 DEF UserNext, DialogCancelled, TimeoutChanged, Tick, DiagramDispatch
  <2>11. CASE Cleanup \/ Terminated
    BY <1>1, <2>11 DEF Cleanup, Terminated, vars
  <2>12. CASE InitRest \/ CloseDevice
    BY <1>1, <2>12 DEF InitRest, CloseDevice, StartCapture
  <2> QED
    BY <1>1, <2>3, <2>4, <2>5, <2>6, <2>7, <2>8, <2>9, <2>10, <2>11, <2>12 DEF Next
<1>2. [Next]_vars =>
        [(status # "STOP" /\ status' = "STOP" /\ ~exited') =>
           upd = "no" \/ stop_requested]_vars
  BY <1>1
<1> QED
  BY <1>2, PTL DEF Spec, StopWaitsForUpdate

-----------------------------------------------------------------------------
(* The device.                                                             *)

\* gui_start_capture in the main loop opens a device only over a handle that is closed
\* or that init_capture abandoned.
LEMMA GuiStartHandle ==
  ASSUME OpenDeviceRuns, NEW onl, GuiStartRest(onl), at = "loop"
  PROVE  OpenDeviceRuns'
<1>1. CASE status = "STOP" /\ OpenDevice(onl) /\ UNCHANGED status
  <2>1. pch_open => Opened = "abandoned"
    BY <1>1 DEF OpenDeviceRuns, Opened
  <2>2. "running" \notin leaked'
    BY <1>1, <2>1 DEF OpenDeviceRuns, OpenDevice
  <2>3. pch_open' => at' = "opened"
    BY <1>1 DEF OpenDevice
  <2> QED
    BY <2>2, <2>3 DEF OpenDeviceRuns
<1>2. CASE status = "PLAY" /\ UNCHANGED <<status, pcapVars, at>>
  BY <1>2 DEF pcapVars, OpenDeviceRuns
<1>3. CASE StartCapture(onl) /\ UNCHANGED <<pcapVars, at>>
  BY <1>3 DEF StartCapture, pcapVars, OpenDeviceRuns
<1> QED
  BY <1>1, <1>2, <1>3 DEF GuiStartRest

\* gui_stop_capture, deferred or begun, leaves an open device only until it closes it.
LEMMA GuiStopHandle ==
  ASSUME OpenDeviceRuns, NEW next, NEW onl, GuiStop(next, onl)
  PROVE  OpenDeviceRuns'
BY DEF GuiStop, StopCapture, pcapVars, OpenDeviceRuns

\* Every step accounts for an open device.
LEMMA NextHandle == OpenDeviceRuns /\ [Next]_vars => OpenDeviceRuns'
<1> SUFFICES ASSUME OpenDeviceRuns, [Next]_vars PROVE OpenDeviceRuns'
  OBVIOUS
<1>1. CASE UserStart
  BY <1>1, GuiStopHandle, GuiStartHandle DEF UserStart, User, MainLoop
<1>2. CASE \E what \in {"interface", "open", "mode"} : UserChange(what)
  BY <1>2, GuiStopHandle, GuiStartHandle DEF UserChange, User, MainLoop
<1>3. CASE Continue
  <2>1. at = "loop"
    BY <1>3 DEF Continue
  <2>2. ASSUME NEW onl, GuiStart(onl) PROVE OpenDeviceRuns'
    BY <2>1, <2>2, GuiStopHandle, GuiStartHandle DEF GuiStart
  <2> QED
    BY <1>3, <2>1, <2>2, GuiStartHandle DEF Continue
<1>4. CASE UserStop
  <2>1. CASE status = "STOP"
    BY <1>4, <2>1 DEF UserStop, pcapVars, OpenDeviceRuns
  <2>2. CASE status # "STOP"
    BY <1>4, <2>2, GuiStopHandle DEF UserStop
  <2> QED
    BY <2>1, <2>2
<1>5. CASE UpdateEnd
  BY <1>5 DEF UpdateEnd, StopCapture, pcapVars, OpenDeviceRuns
<1>6. CASE Cleanup
  <2>1. CASE status = "STOP"
    BY <1>6, <2>1 DEF Cleanup, pcapVars, OpenDeviceRuns
  <2>2. CASE status # "STOP"
    BY <1>6, <2>2 DEF Cleanup, StopCapture, PcapClose, OpenDeviceRuns
  <2> QED
    BY <2>1, <2>2
<1>7. CASE InitRest
  BY <1>7 DEF InitRest, StartCapture, OpenDeviceRuns
<1>8. CASE CloseDevice
  BY <1>8 DEF CloseDevice, PcapClose, OpenDeviceRuns
<1>9. CASE UserPause \/ UserNext \/ DialogCancelled \/ TimeoutChanged \/ Tick
           \/ DiagramDispatch \/ Terminated \/ UNCHANGED vars
  <2>1. UNCHANGED <<pcapVars, at>> /\ (status' = "STOP" => status = "STOP")
    BY <1>9 DEF UserPause, UserNext, DialogCancelled, TimeoutChanged, Tick,
                DiagramDispatch, Terminated, vars
  <2> QED
    BY <2>1 DEF pcapVars, OpenDeviceRuns
<1>10. CASE \E i \in TimerId : FireTimer(i)
  <2>1. UNCHANGED <<pcapVars, at>> /\ (status' = "STOP" => status = "STOP")
    BY <1>10 DEF FireTimer, ReadPacket, ReadError, ReadEnd
  <2> QED
    BY <2>1 DEF pcapVars, OpenDeviceRuns
<1> QED
  BY <1>1, <1>2, <1>3, <1>4, <1>5, <1>6, <1>7, <1>8, <1>9, <1>10 DEF Next

\* An open device belongs to a capture that stop_capture closes, unless init_capture
\* gave up after opening it (setup_link_type, LINK6) or a signal fell into the middle of
\* start or stop; whatever may fail, and whenever the signal comes.
THEOREM OpenDevicesRun == Spec => []OpenDeviceRuns
<1>1. Init => OpenDeviceRuns
  BY DEF Init, OpenDeviceRuns
<1> QED
  BY <1>1, NextHandle, PTL DEF Spec

-----------------------------------------------------------------------------
(* The pace of a replay.                                                   *)

\* The user may pause, skip waits and stop, but does not start anything again.
LeftAlone == Commands \cap {"start", "interface", "open", "mode"} = {}

\* There is one replay timer at most, it is capture_source, and it never fires before
\* the packet in the buffer is due; once the file is used up no timer is left.
OneReplay ==
  /\ acq # "early" /\ (acq = "again" => ReadErrors)
  /\ cont \in {"start", "none"}
  /\ cont = "start" => status = "STOP" /\ upd = "no" /\ DOMAIN timers = {}
                       /\ buffer = "none"
  /\ at # "loop" => cont = "none"
  /\ at = "opened" => DOMAIN timers = {} /\ buffer = "none" /\ (pch = "live" <=> online)
  /\ pch = "live" => DOMAIN timers = {}
  /\ buffer = "done" => DOMAIN timers = {} \/ ReadErrors
  /\ DOMAIN timers \subseteq {current}
  /\ \A i \in DOMAIN timers : owed <= timers[i]
  /\ owed <= ms_to_next

\* Removing capture_source leaves the timer with the delay of its packet, or none.
LEMMA RemoveKeepsOne ==
  ASSUME TypeOK, OneReplay, NEW delay \in {0, ms_to_next}, RemoveSource(delay),
         owed' \in {owed, 0}, owed' <= delay
  PROVE  /\ DOMAIN timers' \subseteq DOMAIN timers
         /\ DOMAIN timers' \subseteq {current'}
         /\ \A i \in DOMAIN timers' : owed' <= timers'[i]
<1>1. CASE current \in DOMAIN timers /\ status = "PLAY"
  <2>1. timers' = [timers EXCEPT ![current] = delay] /\ current' = current
    BY <1>1 DEF RemoveSource
  <2> QED
    BY <1>1, <2>1 DEF OneReplay
<1>2. CASE ~ (current \in DOMAIN timers /\ status = "PLAY")
  BY <1>2 DEF RemoveSource, OneReplay
<1> QED
  BY <1>1, <1>2

\* gui_start_capture, which main calls once, opens the device.
LEMMA ContinueKeepsOne ==
  ASSUME LeftAlone, TypeOK, OneReplay, Continue
  PROVE  OneReplay'
<1>1. /\ cont = "start" /\ GuiStartRest(online) /\ cont' = "none" /\ UNCHANGED online
      /\ status = "STOP" /\ DOMAIN timers = {} /\ buffer = "none" /\ at = "loop"
  BY DEF Continue, OneReplay
<1>2. OpenDevice(online) /\ UNCHANGED <<srcVars, pktVars>>
  BY <1>1 DEF GuiStartRest
<1>3. at' = "opened" => (pch' = "live" <=> online)
  BY <1>1, <1>2 DEF OpenDevice
<1> QED
  BY <1>1, <1>2, <1>3 DEF OneReplay, srcVars, pktVars

\* start_capture adds the one timer.
LEMMA InitRestKeepsOne ==
  ASSUME TypeOK, OneReplay, InitRest
  PROVE  OneReplay'
<1>1. /\ cont = "none" /\ DOMAIN timers = {} /\ buffer = "none"
      /\ (pch = "live" <=> online)
      /\ at' = "loop" /\ UNCHANGED <<online, pch, cont>>
  BY DEF InitRest, OneReplay
<1>2. CASE UNCHANGED <<srcVars, pktVars>>
  BY <1>1, <1>2 DEF OneReplay, srcVars, pktVars
<1>3. CASE StartCapture(online) /\ UNCHANGED <<buffer, ms_to_next, acq>>
  <2>1. CASE online
    BY <1>1, <1>3, <2>1 DEF StartCapture, OneReplay
  <2>2. CASE ~online
    <3>1. PICK i \in TimerId \ DOMAIN timers :
            /\ timers' = [j \in DOMAIN timers \cup {i} |-> IF j = i THEN 0 ELSE timers[j]]
            /\ current' = i /\ owed' = 0
      BY <1>3, <2>2 DEF StartCapture
    <3>2. DOMAIN timers' = {current'} /\ timers'[current'] = 0
      BY <1>1, <3>1
    <3> QED
      BY <1>1, <1>3, <2>2, <3>1, <3>2 DEF OneReplay, TypeOK
  <2> QED
    BY <2>1, <2>2
<1> QED
  BY <1>2, <1>3 DEF InitRest

\* A timer that fires finds its packet due and is renewed for the next one.
LEMMA FireKeepsOne ==
  ASSUME TypeOK, OneReplay, NEW i \in TimerId, FireTimer(i)
  PROVE  OneReplay'
<1>1. /\ i = current /\ DOMAIN timers = {i} /\ timers[i] = 0 /\ owed = 0
      /\ pch # "live" /\ cont # "start" /\ (buffer = "done" => ReadErrors)
      /\ at = "loop"
  <2>1. i \in DOMAIN timers /\ timers[i] = 0
    BY DEF FireTimer
  <2>6. at = "loop"
    BY DEF FireTimer, MainLoop
  <2>2. owed \in Nat /\ owed <= timers[i]
    BY <2>1 DEF OneReplay, TypeOK
  <2>3. owed = 0
    BY <2>1, <2>2
  <2>4. DOMAIN timers = {i} /\ i = current /\ pch # "live" /\ cont # "start"
    BY <2>1 DEF OneReplay
  <2>5. buffer = "done" => ReadErrors
    BY <2>4 DEF OneReplay
  <2> QED
    BY <2>1, <2>3, <2>4, <2>5, <2>6
<1>2. UNCHANGED <<pch, cont, at>>
  BY DEF FireTimer, pcapVars
<1>3. acq' # "early" /\ (acq' = "again" => ReadErrors)
  BY <1>1 DEF FireTimer, Acquired, OneReplay
<1>4. owed' = ms_to_next' \/ owed' = 0
  <2>1. CASE status = "STOP"
    BY <2>1 DEF FireTimer
  <2>2. CASE status # "STOP"
    BY <2>2 DEF FireTimer, ReadPacket, ReadError, ReadEnd
  <2> QED
    BY <2>1, <2>2
<1>5. ms_to_next' \in Nat /\ owed' \in Nat
  BY FireTimerType DEF TypeOK
<1>6. CASE status' = "PLAY"
  <2>1. timers' = [timers EXCEPT ![i] = ms_to_next'] /\ current' = i
    BY <1>6 DEF FireTimer, RenewDelay
  <2>2. DOMAIN timers' = {current'} /\ timers'[current'] = ms_to_next'
    BY <1>1, <2>1
  <2>3. buffer' = "done" => ReadErrors
    BY <1>1, <1>6 DEF FireTimer, ReadPacket, ReadError, ReadEnd
  <2> QED
    BY <1>1, <1>2, <1>3, <1>4, <1>5, <2>2, <2>3 DEF OneReplay
<1>7. CASE status' # "PLAY"
  <2>1. DOMAIN timers' = {}
    BY <1>1, <1>7 DEF FireTimer
  <2> QED
    BY <1>1, <1>2, <1>3, <1>4, <1>5, <2>1 DEF OneReplay
<1> QED
  BY <1>6, <1>7

\* Time passes for the packet and for its timer alike.
LEMMA TickKeepsOne ==
  ASSUME TypeOK, OneReplay, Tick
  PROVE  OneReplay'
<1>1. \A m, n \in Nat : Less(n) <= n /\ (m <= n => Less(m) <= Less(n))
  BY DEF Less
<1>2. DOMAIN timers' = DOMAIN timers
  BY DEF Tick
<1>3. ASSUME NEW i \in DOMAIN timers' PROVE owed' <= timers'[i]
  <2>1. owed <= timers[i] /\ timers[i] \in Nat /\ owed \in Nat
    BY <1>2 DEF OneReplay, TypeOK
  <2>2. timers'[i] = Less(timers[i]) /\ owed' = Less(owed)
    BY <1>2 DEF Tick
  <2> QED
    BY <1>1, <2>1, <2>2
<1>4. owed' <= ms_to_next'
  <2>1. owed \in Nat /\ ms_to_next \in Nat /\ owed <= ms_to_next
    BY DEF OneReplay, TypeOK
  <2>2. owed' = Less(owed) /\ ms_to_next' = ms_to_next /\ Less(owed) \in Nat
    BY <2>1 DEF Tick, Less
  <2> QED
    BY <1>1, <2>1, <2>2
<1>5. UNCHANGED <<acq, cont, status, upd, buffer, pch, current, online, at>>
  BY DEF Tick, pcapVars, diagVars
<1> QED
  BY <1>2, <1>3, <1>4, <1>5 DEF OneReplay

\* stop_capture clears the buffer of a file and leaves its timer to fire once more.
LEMMA StopKeepsOne ==
  ASSUME TypeOK, OneReplay, NEW onl \in BOOLEAN, StopCapture(onl), cont # "start",
         cont' \in {"none", cont}, at' # "opened"
  PROVE  OneReplay'
<1>1. UNCHANGED <<pch, ms_to_next, acq>> /\ ms_to_next \in Nat
  BY DEF StopCapture, TypeOK
<1>2. CASE onl
  <2>1. /\ DOMAIN timers' \subseteq DOMAIN timers
        /\ DOMAIN timers' \subseteq {current'}
        /\ \A i \in DOMAIN timers' : owed' <= timers'[i]
    BY <1>2, RemoveKeepsOne DEF StopCapture, OneReplay
  <2> QED
    BY <1>1, <1>2, <2>1 DEF StopCapture, OneReplay
<1>3. CASE ~onl
  <2>1. UNCHANGED <<timers, current>> /\ owed' = 0 /\ buffer' = "none"
    BY <1>3 DEF StopCapture, srcVars
  <2> QED
    BY <1>1, <2>1 DEF OneReplay, TypeOK
<1> QED
  BY <1>2, <1>3

\* Pause, Next, Stop, the end of a stop and the signal handler.
LEMMA CommandsKeepOne ==
  ASSUME TypeOK, Safe, OneReplay,
         UserPause \/ UserNext \/ UserStop \/ Cleanup \/ UpdateEnd \/ CloseDevice
  PROVE  OneReplay'
<1>0. online \in BOOLEAN /\ ms_to_next \in Nat
  BY DEF TypeOK
<1>1. CASE UserPause
  <2>0. UNCHANGED <<buffer, ms_to_next, owed, acq, pch, cont, upd, at>> /\ at = "loop"
    BY <1>1 DEF UserPause, User, MainLoop, pktVars, pcapVars, diagVars
  <2>1. cont # "start"
    BY <1>1 DEF UserPause, User, MainLoop, OneReplay
  <2>2. CASE RemoveSource(ms_to_next)
    BY <2>0, <2>1, <2>2, RemoveKeepsOne DEF OneReplay
  <2>3. CASE UNCHANGED srcVars
    BY <2>0, <2>1, <2>3 DEF OneReplay, srcVars
  <2> QED
    BY <1>1, <2>2, <2>3 DEF UserPause
<1>2. CASE UserNext
  <2>0. /\ UNCHANGED <<buffer, acq, pch, cont, upd, at>> /\ RemoveSource(0)
        /\ owed' = 0 /\ ms_to_next' = 0 /\ at = "loop"
    BY <1>2 DEF UserNext, User, MainLoop, pcapVars, diagVars
  <2>1. cont # "start"
    BY <1>2 DEF UserNext, User, MainLoop, OneReplay
  <2>2. /\ DOMAIN timers' \subseteq DOMAIN timers
        /\ DOMAIN timers' \subseteq {current'}
        /\ \A i \in DOMAIN timers' : owed' <= timers'[i]
    <3>1. owed' \in {owed, 0} /\ owed' <= 0 /\ 0 \in {0, ms_to_next}
      BY <2>0
    <3> QED
      BY <2>0, <3>1, RemoveKeepsOne
  <2>3. owed' <= ms_to_next'
    BY <2>0
  <2>4. DOMAIN timers = {} => DOMAIN timers' = {}
    BY <2>2
  <2> QED
    BY <2>0, <2>1, <2>2, <2>3, <2>4 DEF OneReplay
<1>3. CASE UserStop
  <2>1. cont # "start"
    BY <1>3 DEF UserStop, User, MainLoop, OneReplay
  <2>2. CASE StopCapture(online) /\ cont' = "none" /\ at' = "closing"
    BY <1>0, <2>1, <2>2, StopKeepsOne
  <2>3. CASE UNCHANGED <<status, pcapVars, srcVars, pktVars, cont, at>> /\ at = "loop"
    BY <2>1, <2>3 DEF OneReplay, pcapVars, srcVars, pktVars
  <2> QED
    BY <1>3, <2>2, <2>3 DEF UserStop, User, MainLoop, GuiStop
<1>4. CASE Cleanup
  <2>1. CASE status = "STOP"
    BY <1>4, <2>1 DEF Cleanup, OneReplay, pcapVars, srcVars, pktVars, diagVars
  <2>2. CASE status # "STOP"
    <3>1. at # "opened" /\ cont = "none"
      BY <2>2 DEF OneReplay, Safe, Halfway
    <3> QED
      BY <1>0, <1>4, <2>2, <3>1, StopKeepsOne DEF Cleanup
  <2> QED
    BY <2>1, <2>2
<1>5. CASE UpdateEnd
  <2>1. upd # "no" /\ cont # "start" /\ cont = "none" /\ at = "loop"
    BY <1>5 DEF UpdateEnd, OneReplay
  <2>2. CASE StopCapture(online) /\ UNCHANGED cont /\ at' = "closing"
    BY <1>0, <2>1, <2>2, StopKeepsOne
  <2>3. CASE \E keep \in Keeps : UpdateReturns(keep)
             /\ UNCHANGED <<status, pcapVars, catalogs, srcVars, pktVars, at>>
    <3>1. cont' = cont
      BY <2>3 DEF UpdateReturns, OneReplay
    <3> QED
      BY <2>1, <2>3, <3>1 DEF OneReplay, pcapVars, srcVars, pktVars
  <2> QED
    BY <1>5, <2>2, <2>3 DEF UpdateEnd
<1>6. CASE CloseDevice
  <2>1. cont = "none" /\ at' = "loop" /\ UNCHANGED <<status, pch, srcVars, pktVars, cont>>
    BY <1>6 DEF CloseDevice, OneReplay
  <2> QED
    BY <2>1 DEF OneReplay, srcVars, pktVars
<1> QED
  BY <1>1, <1>2, <1>3, <1>4, <1>5, <1>6

\* Every step keeps the replay to its one timer.
LEMMA NextKeepsOne ==
  ASSUME LeftAlone
  PROVE  TypeOK /\ Safe /\ OneReplay /\ [Next]_vars => OneReplay'
<1> SUFFICES ASSUME TypeOK, Safe, OneReplay, [Next]_vars PROVE OneReplay'
  OBVIOUS
<1>1. CASE Continue
  BY <1>1, ContinueKeepsOne
<1>2. CASE UserStart \/ \E what \in {"interface", "open", "mode"} : UserChange(what)
  BY <1>2 DEF UserStart, UserChange, User, LeftAlone
<1>3. CASE \E i \in TimerId : FireTimer(i)
  BY <1>3, FireKeepsOne
<1>4. CASE UserPause \/ UserNext \/ UserStop \/ Cleanup \/ UpdateEnd \/ CloseDevice
  BY <1>4, CommandsKeepOne
<1>5. CASE Tick
  BY <1>5, TickKeepsOne
<1>6. CASE DialogCancelled
  BY <1>6 DEF DialogCancelled, OneReplay
<1>7. CASE DiagramDispatch
  BY <1>7 DEF DiagramDispatch, MainLoop, OneReplay, pcapVars, srcVars, pktVars
<1>8. CASE TimeoutChanged \/ Terminated \/ UNCHANGED vars
  BY <1>8 DEF TimeoutChanged, Terminated, vars, OneReplay, pcapVars, srcVars, pktVars,
              diagVars
<1>9. CASE InitRest
  BY <1>9, InitRestKeepsOne
<1> QED
  BY <1>1, <1>2, <1>3, <1>4, <1>5, <1>6, <1>7, <1>8, <1>9 DEF Next

\* main starts with no packet and no timer.
LEMMA InitOneReplay == Init => OneReplay
<1> SUFFICES ASSUME Init PROVE OneReplay
  OBVIOUS
<1>1. DOMAIN timers = {}
  BY DEF Init, NoTimers
<1> QED
  BY <1>1 DEF Init, OneReplay

\* "It forces a waiting time so that it reproduces the rate at which packets were
\* coming": no packet comes early, even from a truncated file, however the user pauses,
\* skips waits and stops.
THEOREM NeverEarly ==
  ASSUME LeftAlone
  PROVE  Spec => [](acq # "early")
<1>1. OneReplay => acq # "early"
  BY DEF OneReplay
<1> QED
  BY <1>1, InitOneReplay, NextKeepsOne, TypeCorrect, SafeInvariant, PTL DEF Spec

\* And each packet of a file that can be read to its end is counted once.
THEOREM ReplayIsPaced ==
  ASSUME LeftAlone, ~ReadErrors
  PROVE  Spec => []PacedReplay
<1>1. OneReplay => PacedReplay
  BY DEF OneReplay, PacedReplay
<1> QED
  BY <1>1, InitOneReplay, NextKeepsOne, TypeCorrect, SafeInvariant, PTL DEF Spec
=============================================================================
