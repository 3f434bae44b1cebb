-------------------------- MODULE FlasherPageProofs -------------------------
(***************************************************************************)
(* Proofs about FlasherPage, for every set of boards, files, devices and   *)
(* ports and any number of events and faults: what is flashed was          *)
(* confirmed as a whole, no configuration tab opens during or after a      *)
(* flash, and the diagnostic console gives its port back before one.       *)
(* Nothing here depends on how a file is parsed or what the ROM does with  *)
(* a command; DoneMeansWritten does, and is left to TLC.                   *)
(***************************************************************************)
EXTENDS FlasherPage, TLAPS

\* The console's session: while the port is opened nothing else runs, and a
\* close under way has taken the session over and disarmed its timer.
SessionInv ==
  /\ sess \in {"disconnected", "selecting", "opening", "verifying", "connected", "closing"}
  /\ await \in {"none", "pick", "open", "signals"} /\ hold \in {"none", "held", "open"}
  /\ cancel \in BOOLEAN /\ verified \in BOOLEAN /\ reading \in BOOLEAN
  /\ writing \in BOOLEAN /\ timer \in BOOLEAN /\ closing \in BOOLEAN
  /\ await # "none" => /\ sess \in {"selecting", "opening", "closing"}
                       /\ ~reading /\ ~writing /\ ~timer
  /\ closing => cancel /\ sess = "closing"
  /\ sess = "closing" => ~timer
  /\ Released

\* The device on the bus and the device object the page holds.
DeviceInv ==
  /\ plugged \in Devices \cup {None}
  /\ handle \in [dev : Devices, valid : BOOLEAN] \cup {None}
  /\ mock \in BOOLEAN
  /\ claim # None => handle # None /\ handle.dev = claim

\* The board confirmation in force was given for the board, image and device that
\* are chosen now; a flash under way keeps what it was started with.
ConfirmInv ==
  /\ "match" \in ticks => agreed = <<board, parsed, claim>>
  /\ FlashedAsConfirmed

\* A flash keeps its tab and keeps the console closed.
TabInv ==
  /\ Flashing => tab = "flasher" /\ sess = "disconnected"
  /\ gate # NoOne => tab # "config"

FlasherInv == SessionInv /\ DeviceInv /\ ConfirmInv /\ TabInv

-----------------------------------------------------------------------------
(* The console's session.                                                  *)

\* An opening that was given up leaves no port, or leaves it to a close.
LEMMA AbandonFacts ==
  ASSUME SessionInv, NEW h \in {"none", "open"}, Abandon(h), await # "none",
         UNCHANGED <<cancel, verified, reading, writing, timer, closing>>
  PROVE  SessionInv'
  BY DEF SessionInv, Released, Abandon

LEMMA CloseKeeps == SessionInv /\ Close => SessionInv'
<1> SUFFICES ASSUME SessionInv, Close PROVE SessionInv'
  OBVIOUS
<1>1. /\ sess' = "closing" /\ closing' = TRUE /\ cancel' = TRUE /\ timer' = FALSE
      /\ verified' = FALSE /\ await' = await /\ hold' = hold
      /\ reading' = reading /\ writing' = writing
  BY DEF Close
<1> QED
  BY <1>1 DEF SessionInv, Released

\* Every step of connect(), the read loop, a write, the timer and close() keeps the
\* session's invariant.
LEMMA SessionKeeps == SessionInv /\ (Connect \/ SessNext \/ Close) => SessionInv'
<1> SUFFICES ASSUME SessionInv, Connect \/ SessNext \/ Close PROVE SessionInv'
  OBVIOUS
<1>1. CASE Connect
  BY <1>1 DEF SessionInv, Released, Connect
<1>2. CASE Picked
  <2>1. CASE Abandon("none")
    BY <1>2, <2>1, AbandonFacts DEF Picked
  <2>2. CASE ~cancel /\ sess' = "opening" /\ await' = "open" /\ hold' = "held"
    BY <1>2, <2>2 DEF SessionInv, Released, Picked
  <2> QED
    BY <1>2, <2>1, <2>2 DEF Picked
<1>3. CASE Opened
  <2>1. CASE Abandon("none")
    BY <1>3, <2>1, AbandonFacts DEF Opened
  <2>2. CASE hold' = "open" /\ await' = "signals" /\ UNCHANGED <<sess, portFaults>>
    BY <1>3, <2>2 DEF SessionInv, Released, Opened
  <2> QED
    BY <1>3, <2>1, <2>2 DEF Opened
<1>4. CASE Signalled
  <2>1. CASE \E h \in {"none", "open"} :
               CleanUp(h) /\ Abandon(h) /\ UNCHANGED <<reading, timer>>
    BY <1>4, <2>1, AbandonFacts DEF Signalled
  <2>2. CASE /\ ~cancel /\ sess' = "verifying" /\ await' = "none" /\ reading' = TRUE
             /\ timer' = TRUE /\ UNCHANGED <<hold, portFaults>>
    BY <1>4, <2>2 DEF SessionInv, Released, Signalled
  <2> QED
    BY <1>4, <2>1, <2>2 DEF Signalled
<1>5. CASE ReadEnds
  BY <1>5 DEF SessionInv, Released, ReadEnds
<1>6. CASE WriteEnds
  BY <1>6 DEF SessionInv, Released, WriteEnds
<1>7. CASE FinishClose
  <2>1. PICK h \in {"none", "open"} : Closed(h)
    BY <1>7 DEF FinishClose
  <2>2. hold' = h /\ sess' = (IF h = "none" THEN "disconnected" ELSE sess)
    BY <2>1 DEF Closed
  <2> QED
    BY <1>7, <2>2 DEF SessionInv, Released, FinishClose, Waited
<1>8. CASE IdentityTimeout \/ Close
  BY <1>8, CloseKeeps DEF IdentityTimeout
<1>9. CASE Banner
  BY <1>9 DEF SessionInv, Released, Banner
<1>10. CASE SendCommand
  BY <1>10 DEF SessionInv, Released, SendCommand
<1> QED
  BY <1>1, <1>2, <1>3, <1>4, <1>5, <1>6, <1>7, <1>8, <1>9, <1>10
     DEF SessNext, SessSteps

\* A session that is disconnected starts by a click on Connect only.
LEMMA DisconnectedStays ==
  ASSUME SessionInv, sess = "disconnected"
  PROVE  ~(SessNext \/ Close)
<1>1. await = "none" /\ ~reading /\ ~writing /\ ~timer /\ ~closing
  BY DEF SessionInv, Released
<1> QED
  BY <1>1 DEF SessNext, SessSteps, Picked, Opened, Signalled, ReadEnds, WriteEnds, FinishClose,
              IdentityTimeout, Banner, SendCommand, Close

-----------------------------------------------------------------------------
(* The confirmations.                                                      *)

\* What takes the board confirmation back.
Retracts == {"board", "custom", "fileName", "parsed", "device", "mock"}

LEMMA TicksFacts ==
  ASSUME NEW changes
  PROVE  /\ TicksAfter(changes) \subseteq ticks
         /\ changes \cap Retracts # {} => "match" \notin TicksAfter(changes)
<1>1. TicksAfter(changes) \subseteq ticks
  BY DEF TicksAfter
<1>2. \A c \in Retracts : "match" \in Cleared[c]
  BY DEF Retracts, Cleared
<1>3. ASSUME NEW c \in changes, c \in Retracts
      PROVE  "match" \notin TicksAfter(changes)
  BY <1>2, <1>3 DEF TicksAfter
<1> QED
  BY <1>1, <1>3

\* A page event beside the flasher, the lock and the console: it is no start of a
\* flash, and the confirmation stays only while what it was given for does.
LEMMA PageKeeps ==
  ASSUME FlasherInv, UNCHANGED <<stage, job, lockVars, sessVars>>,
         UNCHANGED tab \/ TabOpen(tab'), mock' \in BOOLEAN,
         plugged' \in Devices \cup {None},
         Flashing => agreed' = agreed,
         "match" \in ticks' => agreed' = <<board', parsed', claim'>>,
         handle' \in [dev : Devices, valid : BOOLEAN] \cup {None},
         claim' # None => handle' # None /\ handle'.dev = claim'
  PROVE  FlasherInv'
<1>1. SessionInv'
  BY DEF FlasherInv, SessionInv, Released, sessVars
<1>2. DeviceInv'
  BY DEF FlasherInv, DeviceInv
<1>3. ConfirmInv'
  BY DEF FlasherInv, ConfirmInv, FlashedAsConfirmed, Flashing
<1>4. TabInv'
  <2>1. CASE UNCHANGED tab
    BY <2>1 DEF FlasherInv, TabInv, Flashing, lockVars, sessVars
  <2>2. CASE TabOpen(tab')
    BY <2>2 DEF FlasherInv, TabInv, Flashing, lockVars, sessVars, TabOpen, Locked
  <2> QED
    BY <2>1, <2>2
<1> QED
  BY <1>1, <1>2, <1>3, <1>4 DEF FlasherInv

\* The choices: board, profile, boxes, erase mode, demo mode and file.
LEMMA ChooseKeeps == FlasherInv /\ Choose => FlasherInv'
<1> SUFFICES ASSUME FlasherInv, Choose PROVE FlasherInv'
  OBVIOUS
<1>0. /\ plugged \in Devices \cup {None} /\ mock \in BOOLEAN
      /\ handle \in [dev : Devices, valid : BOOLEAN] \cup {None}
      /\ claim # None => handle # None /\ handle.dev = claim
      /\ "match" \in ticks => agreed = <<board, parsed, claim>>
  BY DEF FlasherInv, DeviceInv, ConfirmInv
<1>1. ASSUME NEW b \in DOMAIN Boards, SelectBoard(b) PROVE FlasherInv'
  <2>1. /\ claim' = None /\ "match" \notin ticks'
        /\ UNCHANGED <<dfuVars, lockVars, sessVars, tab, mock, agreed>>
    BY <1>1, TicksFacts DEF SelectBoard, Kept, Retracts
  <2> QED
    BY <1>0, <2>1, PageKeeps DEF dfuVars
<1>2. CASE SetCustom
  <2>1. /\ claim' = None /\ "match" \notin ticks'
        /\ UNCHANGED <<dfuVars, lockVars, sessVars, tab, mock, agreed>>
    BY <1>2, TicksFacts DEF SetCustom, Kept, Retracts
  <2> QED
    BY <1>0, <2>1, PageKeeps DEF dfuVars
<1>3. CASE SetFullErase
  <2>1. /\ ticks' \subseteq ticks /\ UNCHANGED <<board, parsed, claim>>
        /\ UNCHANGED <<dfuVars, lockVars, sessVars, tab, mock, agreed>>
    BY <1>3 DEF SetFullErase, Kept
  <2> QED
    BY <1>0, <2>1, PageKeeps DEF dfuVars
<1>4. CASE SetDemo
  <2>1. /\ handle' = None /\ claim' = None /\ mock' \in BOOLEAN /\ "match" \notin ticks'
        /\ UNCHANGED <<stage, job, plugged, lockVars, sessVars, tab, agreed>>
    BY <1>0, <1>4, TicksFacts DEF SetDemo, Retracts
  <2> QED
    BY <1>0, <2>1, PageKeeps
<1>5. ASSUME NEW t \in {"prepared", "manual", "match", "full", "diag", "mock"}, Tick(t)
      PROVE  FlasherInv'
  <2>1. /\ ~Flashing /\ UNCHANGED <<board, parsed, claim>>
        /\ UNCHANGED <<dfuVars, lockVars, sessVars, tab, mock>>
    BY <1>5 DEF Tick, Kept, Locked
  <2>2. "match" \in ticks' => agreed' = <<board, parsed, claim>>
    <3>1. CASE t = "match"
      BY <1>5, <3>1 DEF Tick
    <3>2. CASE t # "match"
      BY <1>0, <1>5, <3>2, TicksFacts DEF Tick
    <3> QED
      BY <3>1, <3>2
  <2> QED
    BY <1>0, <2>1, <2>2, PageKeeps DEF dfuVars
<1>6. ASSUME NEW f \in DOMAIN Files, PickFile(f) PROVE FlasherInv'
  <2>1. /\ "match" \notin ticks' /\ UNCHANGED claim
        /\ UNCHANGED <<stage, job, handle, plugged, lockVars, sessVars, tab, mock, agreed>>
    BY <1>6, TicksFacts DEF PickFile, NewFile, Retracts
  <2> QED
    BY <1>0, <2>1, PageKeeps
<1> QED
  BY <1>1, <1>2, <1>3, <1>4, <1>5, <1>6 DEF Choose

\* The file's late parse and the builder.
LEMMA LoadKeeps == FlasherInv /\ Load => FlasherInv'
<1> SUFFICES ASSUME FlasherInv, Load PROVE FlasherInv'
  OBVIOUS
<1>0. /\ plugged \in Devices \cup {None} /\ mock \in BOOLEAN
      /\ handle \in [dev : Devices, valid : BOOLEAN] \cup {None}
      /\ claim # None => handle # None /\ handle.dev = claim
      /\ "match" \in ticks => agreed = <<board, parsed, claim>>
  BY DEF FlasherInv, DeviceInv, ConfirmInv
<1>1. CASE FileRead
  <2>1. /\ UNCHANGED <<board, claim>>
        /\ UNCHANGED <<dfuVars, lockVars, sessVars, tab, mock, agreed>>
    BY <1>1 DEF FileRead, Kept
  <2>2. /\ ticks' \subseteq ticks
        /\ parsed' # parsed => "match" \notin ticks'
    <3>1. PICK r \in reads :
            IF r.current
            THEN ticks' = (IF parsed' # parsed THEN TicksAfter({"parsed"}) ELSE ticks)
            ELSE UNCHANGED <<parsed, ticks>>
      BY <1>1 DEF FileRead
    <3> QED
      BY <3>1, TicksFacts DEF Retracts
  <2> QED
    BY <1>0, <2>1, <2>2, PageKeeps DEF dfuVars
<1>2. CASE BuildStart
  <2>1. /\ "match" \notin ticks' /\ UNCHANGED claim
        /\ UNCHANGED <<stage, job, handle, plugged, lockVars, sessVars, tab, mock, agreed>>
    BY <1>2, TicksFacts DEF BuildStart, Retracts
  <2> QED
    BY <1>0, <2>1, PageKeeps
<1>3. CASE BuildToken
  BY <1>0, <1>3, PageKeeps DEF BuildToken, Kept, dfuVars
<1>4. CASE BuildAnswer
  <2>1. /\ UNCHANGED <<board, claim>>
        /\ UNCHANGED <<stage, job, handle, plugged, lockVars, sessVars, tab, mock, agreed>>
    BY <1>4 DEF BuildAnswer
  <2>2. "match" \notin ticks' \/ UNCHANGED <<parsed, ticks>>
    BY <1>4, TicksFacts DEF BuildAnswer, NewFile, Retracts
  <2> QED
    BY <1>0, <2>1, <2>2, PageKeeps
<1> QED
  BY <1>1, <1>2, <1>3, <1>4 DEF Load

\* The device: the picker, plugging in and out.
LEMMA UsbKeeps == FlasherInv /\ Usb => FlasherInv'
<1> SUFFICES ASSUME FlasherInv, Usb PROVE FlasherInv'
  OBVIOUS
<1>0. /\ plugged \in Devices \cup {None} /\ mock \in BOOLEAN
      /\ handle \in [dev : Devices, valid : BOOLEAN] \cup {None}
      /\ claim # None => handle # None /\ handle.dev = claim
      /\ "match" \in ticks => agreed = <<board, parsed, claim>>
  BY DEF FlasherInv, DeviceInv, ConfirmInv
<1>1. CASE RequestDevice
  <2>1. /\ claim' = None /\ "match" \notin ticks'
        /\ UNCHANGED <<dfuVars, lockVars, sessVars, tab, mock, agreed>>
    BY <1>1, TicksFacts DEF RequestDevice, Kept, Retracts
  <2> QED
    BY <1>0, <2>1, PageKeeps DEF dfuVars
<1>2. CASE DevicePicked
  <2>1. UNCHANGED <<stage, job, plugged, lockVars, sessVars, tab, mock, agreed, board, parsed>>
    BY <1>2 DEF DevicePicked
  <2>2. CASE UNCHANGED <<claim, handle, ticks>>
    BY <1>0, <2>1, <2>2, PageKeeps
  <2>3. CASE /\ plugged # None /\ claim' = plugged
             /\ handle' = [dev |-> plugged, valid |-> TRUE]
             /\ ticks' = TicksAfter({"device"})
    <3>1. handle' \in [dev : Devices, valid : BOOLEAN] /\ handle'.dev = plugged
      BY <1>0, <2>3
    <3>2. handle' # None
      BY <3>1, DfuAssumption
    <3>3. "match" \notin ticks'
      BY <2>3, TicksFacts DEF Retracts
    <3> QED
      BY <1>0, <2>1, <2>3, <3>1, <3>2, <3>3, PageKeeps
  <2> QED
    BY <1>2, <2>2, <2>3 DEF DevicePicked
<1>3. CASE Unplug
  <2>1. /\ claim' = None /\ plugged' = None /\ "match" \notin ticks'
        /\ UNCHANGED <<stage, job, lockVars, sessVars, tab, mock, agreed>>
    BY <1>3, TicksFacts DEF Unplug, DisconnectEvent, Retracts
  <2>2. handle' \in [dev : Devices, valid : BOOLEAN] \cup {None}
    BY <1>0, <1>3 DEF Unplug
  <2> QED
    BY <1>0, <2>1, <2>2, PageKeeps
<1>4. ASSUME NEW d \in Devices, Plug(d) PROVE FlasherInv'
  <2>1. /\ plugged' = d /\ UNCHANGED <<board, parsed, claim, ticks, handle>>
        /\ UNCHANGED <<stage, job, lockVars, sessVars, tab, mock, agreed>>
    BY <1>4 DEF Plug
  <2> QED
    BY <1>0, <2>1, PageKeeps
<1> QED
  BY <1>1, <1>2, <1>3, <1>4 DEF Usb

\* The board identity, the connection and the tabs.
LEMMA IdentityKeeps == FlasherInv /\ (IdentityRead \/ ReadAgain) => FlasherInv'
<1> SUFFICES ASSUME FlasherInv, IdentityRead \/ ReadAgain PROVE FlasherInv'
  OBVIOUS
<1>0. /\ plugged \in Devices \cup {None} /\ mock \in BOOLEAN
      /\ handle \in [dev : Devices, valid : BOOLEAN] \cup {None}
      /\ claim # None => handle # None /\ handle.dev = claim
      /\ "match" \in ticks => agreed = <<board, parsed, claim>>
  BY DEF FlasherInv, DeviceInv, ConfirmInv
<1>1. CASE IdentityRead
  <2>1. UNCHANGED <<dfuVars, lockVars, sessVars, tab, mock, agreed, parsed>>
    BY <1>1 DEF IdentityRead, Kept
  <2>2. claim' = IF board' # board THEN None ELSE claim
    BY <1>1 DEF IdentityRead
  <2>3. ticks' \subseteq ticks /\ (board' # board => "match" \notin ticks')
    BY <1>1, TicksFacts DEF IdentityRead, Retracts
  <2> QED
    BY <1>0, <2>1, <2>2, <2>3, PageKeeps DEF dfuVars
<1>2. CASE ReadAgain
  BY <1>0, <1>2, PageKeeps DEF ReadAgain, Kept, dfuVars
<1> QED
  BY <1>1, <1>2

LEMMA SelectTabKeeps == ASSUME FlasherInv, NEW t, SelectTab(t) PROVE FlasherInv'
<1>1. /\ plugged \in Devices \cup {None} /\ mock \in BOOLEAN
      /\ handle \in [dev : Devices, valid : BOOLEAN] \cup {None}
      /\ claim # None => handle # None /\ handle.dev = claim
      /\ "match" \in ticks => agreed = <<board, parsed, claim>>
  BY DEF FlasherInv, DeviceInv, ConfirmInv
<1> QED
  BY <1>1, PageKeeps DEF SelectTab, Kept, dfuVars

\* The lock only opens, except by a flash.
LEMMA ConnectionKeeps == FlasherInv /\ Connection => FlasherInv'
<1> SUFFICES ASSUME FlasherInv, Connection PROVE FlasherInv'
  OBVIOUS
<1>1. /\ gate' = gate \/ gate' = NoOne
      /\ UNCHANGED <<dfuVars, sessVars, tab, board, parsed, claim, mock, ticks, agreed>>
  BY DEF Connection, Relink, Unlock
<1> QED
  BY <1>1 DEF FlasherInv, SessionInv, Released, DeviceInv, ConfirmInv, FlashedAsConfirmed, TabInv,
              Flashing, dfuVars, sessVars

\* The console's own steps; while a flash runs it takes none.
LEMMA ConsoleKeeps == FlasherInv /\ Console => FlasherInv'
<1> SUFFICES ASSUME FlasherInv, Console PROVE FlasherInv'
  OBVIOUS
<1>1. UNCHANGED <<dfuVars, lockVars, tab, board, parsed, claim, mock, ticks, agreed>>
  BY DEF Console
<1>2. Connect \/ SessNext \/ Close
  BY DEF Console
<1>3. SessionInv'
  BY <1>2, SessionKeeps DEF FlasherInv
<1>4. ~Flashing
  <2> SUFFICES ASSUME Flashing PROVE FALSE
    OBVIOUS
  <2>1. sess = "disconnected" /\ ~MayOpen
    BY DEF FlasherInv, TabInv, MayOpen, ConsoleDisabled
  <2>2. SessNext \/ Close
    BY <2>1 DEF Console
  <2> QED
    BY <2>1, <2>2, DisconnectedStays DEF FlasherInv
<1>5. DeviceInv' /\ ConfirmInv' /\ TabInv'
  BY <1>1, <1>4 DEF FlasherInv, DeviceInv, ConfirmInv, FlashedAsConfirmed, TabInv, Flashing,
                    dfuVars, lockVars
<1> QED
  BY <1>3, <1>5 DEF FlasherInv

-----------------------------------------------------------------------------
(* The flash.                                                              *)

\* The click starts a live flash only under a board confirmation in force.
LEMMA ClickKeeps == FlasherInv /\ ClickFlash => FlasherInv'
<1> SUFFICES ASSUME FlasherInv, ClickFlash PROVE FlasherInv'
  OBVIOUS
<1>1. /\ MayFlash /\ tab = "flasher"
      /\ StartFlash(parsed, board, [mcu |-> BoardOf.mcu, diagnostic |-> BoardOf.diagnostic,
                                    full |-> full], ~mock)
      /\ UNCHANGED <<sessVars, pageVars>>
  BY DEF ClickFlash
<1>2. /\ sess = "disconnected"
      /\ ~mock => claim # None /\ "match" \in ticks
  BY <1>1 DEF MayFlash, Active
<1>3. /\ job'.live = ~mock /\ job'.file = parsed /\ job'.board = board
      /\ job'.dev = IF ~mock /\ handle # None THEN handle.dev ELSE None
      /\ UNCHANGED <<plugged, handle>>
  BY <1>1 DEF StartFlash
<1>4. UNCHANGED <<tab, board, parsed, claim, mock, ticks, agreed>>
  BY <1>1 DEF pageVars
<1>5. SessionInv'
  BY <1>1 DEF FlasherInv, SessionInv, Released, sessVars
<1>6. DeviceInv'
  BY <1>3, <1>4 DEF FlasherInv, DeviceInv
<1>7. ConfirmInv'
  <2>1. "match" \in ticks' => agreed' = <<board', parsed', claim'>>
    BY <1>4 DEF FlasherInv, ConfirmInv
  <2>2. ASSUME job'.live PROVE agreed' = <<job'.board, job'.file, job'.dev>>
    BY <1>2, <1>3, <1>4, <2>2 DEF FlasherInv, DeviceInv, ConfirmInv
  <2> QED
    BY <2>1, <2>2 DEF ConfirmInv, FlashedAsConfirmed
<1>8. TabInv'
  BY <1>1, <1>2, <1>4 DEF TabInv, sessVars
<1> QED
  BY <1>5, <1>6, <1>7, <1>8 DEF FlasherInv

\* What every await of flash() leaves alone; at most it loses its device.
LEMMA AwaitFacts ==
  ASSUME DfuSteps \/ TransferFails
  PROVE  /\ Flashing /\ UNCHANGED job
         /\ plugged' = plugged \/ plugged' = None
         /\ handle' = handle \/ (handle # None /\ handle' = [handle EXCEPT !.valid = FALSE])
<1>1. CASE Open
  BY <1>1 DEF Open, Gone, Fail, romVars, Flashing
<1>2. CASE ReadLayout
  BY <1>2 DEF ReadLayout, Gone, Fail, romVars, Flashing
<1>3. CASE PrepareDevice
  BY <1>3 DEF PrepareDevice, Gone, Fail, romVars, Flashing
<1>4. CASE Send
  BY <1>4 DEF Send, Gone, Fail, romVars, Flashing
<1>5. CASE WaitUntilIdle
  BY <1>5 DEF WaitUntilIdle, Gone, Fail, romVars, Flashing
<1>6. CASE PointOrRead
  BY <1>6 DEF PointOrRead, Gone, Fail, romVars, Flashing
<1>7. CASE Complete
  BY <1>7 DEF Complete, Gone, Fail, romVars, Flashing, Present
<1>8. CASE MockStep
  BY <1>8 DEF MockStep, Fail, romVars, Flashing
<1>9. CASE TransferFails
  BY <1>9 DEF TransferFails, Fail, Flashing
<1> QED
  BY <1>1, <1>2, <1>3, <1>4, <1>5, <1>6, <1>7, <1>8, <1>9 DEF DfuSteps

\* An await of flash(), with what onFlash's finally does when it was the last.
LEMMA FlasherKeeps == FlasherInv /\ Flasher => FlasherInv'
<1> SUFFICES ASSUME FlasherInv, Flasher PROVE FlasherInv'
  OBVIOUS
<1>1. /\ Flashing /\ UNCHANGED <<job, lockVars, sessVars>>
      /\ plugged' = plugged \/ plugged' = None
      /\ handle' = handle \/ (handle # None /\ handle' = [handle EXCEPT !.valid = FALSE])
  BY AwaitFacts DEF Flasher
<1>2. /\ UNCHANGED <<tab, board, parsed, mock, agreed>>
      /\ \/ claim' = claim /\ ticks' \subseteq ticks
         \/ claim' = None /\ "match" \notin ticks'
  <2>1. Settled
    BY DEF Flasher
  <2>2. CASE stage # "idle" /\ stage' = "idle"
    <3> DEFINE left == IF job.live THEN None ELSE claim
    <3>1. /\ claim' = left
          /\ ticks' = (IF left # claim THEN TicksAfter({"device"}) ELSE ticks) \ {"full"}
          /\ UNCHANGED <<tab, board, parsed, mock, agreed>>
      BY <2>1, <2>2 DEF Settled
    <3>2. left = claim \/ left = None
      OBVIOUS
    <3> HIDE DEF left
    <3> QED
      BY <3>1, <3>2, TicksFacts DEF Retracts
  <2>3. CASE ~(stage # "idle" /\ stage' = "idle")
    BY <2>1, <2>3 DEF Settled, pageVars
  <2> QED
    BY <2>2, <2>3
<1>3. SessionInv'
  BY <1>1 DEF FlasherInv, SessionInv, Released, sessVars
<1>4. DeviceInv'
  <2>1. /\ handle' \in [dev : Devices, valid : BOOLEAN] \cup {None}
        /\ handle # None => handle' # None /\ handle'.dev = handle.dev
    BY <1>1, DfuAssumption DEF FlasherInv, DeviceInv
  <2> QED
    BY <1>1, <1>2, <2>1 DEF FlasherInv, DeviceInv
<1>5. ConfirmInv'
  BY <1>1, <1>2 DEF FlasherInv, ConfirmInv, FlashedAsConfirmed
<1>6. TabInv'
  BY <1>1, <1>2 DEF FlasherInv, TabInv, lockVars, sessVars
<1> QED
  BY <1>3, <1>4, <1>5, <1>6 DEF FlasherInv

\* The ROM's work and a cancel change none of it.
LEMMA RomKeeps == FlasherInv /\ (Rom \/ ClickCancel) => FlasherInv'
<1> SUFFICES ASSUME FlasherInv, Rom \/ ClickCancel PROVE FlasherInv'
  OBVIOUS
<1>1. UNCHANGED <<stage, job, plugged, handle, lockVars, sessVars, tab, board, parsed, claim,
                  mock, ticks, agreed>>
  BY DEF Rom, RomWorks, RomLosesWord, ClickCancel, CancelFlash, romVars, pageVars
<1> QED
  BY <1>1, PageKeeps DEF FlasherInv, DeviceInv, ConfirmInv

-----------------------------------------------------------------------------
(* The results.                                                            *)

LEMMA FlasherStart == Init => FlasherInv
<1> SUFFICES ASSUME Init PROVE FlasherInv
  OBVIOUS
<1> QED
  BY DEF Init, DfuStart, LockInit, SessInit, PageStart, FlasherInv, SessionInv, Released,
         DeviceInv, ConfirmInv, FlashedAsConfirmed, TabInv, Flashing

LEMMA FlasherStep == FlasherInv /\ [Next]_vars => FlasherInv'
<1>1. ASSUME FlasherInv, UNCHANGED vars PROVE FlasherInv'
  BY <1>1, PageKeeps DEF vars, dfuVars, pageVars, FlasherInv, DeviceInv, ConfirmInv
<1>2. ASSUME FlasherInv, \E t \in {"flasher", "connect", "config"} : SelectTab(t)
      PROVE  FlasherInv'
  BY <1>2, SelectTabKeeps
<1> QED
  BY <1>1, <1>2, ChooseKeeps, LoadKeeps, UsbKeeps, IdentityKeeps, ConnectionKeeps, ConsoleKeeps,
     ClickKeeps, FlasherKeeps, RomKeeps DEF Next

\* The page's invariant holds throughout: the confirmation in force was given for what
\* is chosen now, the selected device is the one the flasher holds, and a flash keeps
\* its tab and a released console.
THEOREM FlasherInvariant == Spec => []FlasherInv
  BY FlasherStart, FlasherStep, PTL DEF Spec

\* A live flash writes the image, for the board and onto the device, that the user
\* confirmed together, whatever is parsed late, picked again or replugged.
THEOREM FlashesAsConfirmed == Spec => []FlashedAsConfirmed
<1>1. FlasherInv => FlashedAsConfirmed
  BY DEF FlasherInv, ConfirmInv
<1> QED
  BY <1>1, FlasherInvariant, PTL

\* No configuration tab is shown while a flash runs or its lock is closed, and the
\* diagnostic console holds no port during a flash.
THEOREM LockedThroughFlash == Spec => []LockedAfterFlash
<1>1. FlasherInv => LockedAfterFlash
  BY DEF FlasherInv, TabInv, SessionInv, LockedAfterFlash, Active
<1> QED
  BY <1>1, FlasherInvariant, PTL

\* A diagnostic session that reports disconnected has given up its port, its reader,
\* its write and its timer, however a close and an opening met.
THEOREM SessionReleases == Spec => []Released
<1>1. FlasherInv => Released
  BY DEF FlasherInv, SessionInv
<1> QED
  BY <1>1, FlasherInvariant, PTL
=============================================================================
