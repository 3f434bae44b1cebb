----------------------------- MODULE FlasherPage -----------------------------
(***************************************************************************)
(* The configurator's flasher page (pages/FlasherPage.tsx) with what it    *)
(* drives: the DFU flasher, the connection and the lock after a flash,     *)
(* the diagnostic console, the local HEX builder (flasher/HexBuilder.tsx)  *)
(* and the board identity read from the controller (boardIdentity.ts).     *)
(* The page stays mounted; the tabs (App.tsx) only hide it.                *)
(*                                                                         *)
(* A confirmation is a tick.  The page's effects take ticks back when what *)
(* they were given for changes; React runs them before the next event, so  *)
(* they are part of the action that made the change.                       *)
(***************************************************************************)
EXTENDS DfuFlash, FlashLock, DiagnosticSession

CONSTANTS Boards,     \* Boards[b]: BOARD_OPTIONS, [id, mcu, diagnostic]
          Unknown,    \* a reported board the catalog does not know
          MaxEvents   \* bound: changes of selection, plugs, cancels, builds, connects

ASSUME PageAssumption == MaxEvents \in Nat

VARIABLES
  tab,       \* flasher, connect or one of the gated tabs
  board,     \* boardId, None if unset
  custom,    \* the custom profile fields fit the only supported build
  file,      \* fileName: the file chosen
  parsed,    \* the file whose parse result is in force
  reads,     \* outstanding file.text(): [file, current]
  build,     \* HexBuilder: none, token, post, load
  picker,    \* the device picker is open
  claim,     \* deviceLabel / claimedVid: the device selected
  mock,      \* demo mode
  full,      \* full chip erase
  ticks,     \* confirmations in force
  agreed,    \* what the last board confirmation was given for
  identity,  \* what the controller said it is
  idRead,    \* a version read for it is outstanding
  events

pageVars == <<tab, board, custom, file, parsed, reads, build, picker, claim, mock, full,
              ticks, agreed, identity, idRead, events>>
vars == <<dfuVars, lockVars, sessVars, pageVars>>

Idle == [kind |-> "idle", id |-> None, mcu |-> "none"]
PageStart ==
  /\ tab = "flasher" /\ file = None /\ parsed = None
  /\ reads = {} /\ build = "none" /\ picker = FALSE /\ claim = None /\ mock = FALSE
  /\ full = FALSE /\ agreed = None /\ identity = Idle /\ idRead = FALSE /\ events = 0
Init ==
  /\ DfuStart /\ plugged = None /\ LockInit /\ SessInit
  /\ PageStart /\ board = None /\ custom = FALSE /\ ticks = {}

Event == events < MaxEvents /\ events' = events + 1

\* The effects: what each change takes back.
Cleared ==
  [board    |-> {"manual", "match", "full", "diag", "prepared"},
   custom   |-> {"match", "full", "diag"},
   fileName |-> {"manual", "match", "full"},
   parsed   |-> {"match", "full"},
   device   |-> {"match", "full"},
   mock     |-> {"match", "full"},
   identity |-> {"manual"},
   none     |-> {}]
\* A mutant: the parse result is not among the effect's dependencies.
TicksIgnoringParse(changes) == ticks \ UNION {Cleared[c] : c \in changes \ {"parsed"}}
TicksAfter(changes) == ticks \ UNION {Cleared[c] : c \in changes}

BoardOf == Boards[board]
CdcLive == ~mock /\ link # {}
Locked == Flashing \/ build # "none" \/ Active   \* what disables most controls
FileLoading == \E r \in reads : r.current
Kept == UNCHANGED <<dfuVars, lockVars, sessVars>>

-----------------------------------------------------------------------------
(* The board identity gate.                                                *)

\* identityGate: a reported board that is unknown or differs from the selection or the
\* image blocks; over DFU the manual confirmation is always needed.
Mismatch ==
  /\ identity.kind = "read"
  /\ \/ identity.id = Unknown
     \/ board # None /\ (identity.id # board \/ identity.mcu # BoardOf.mcu)
     \/ parsed # None /\ Files[parsed].hint \notin {"none", identity.mcu}
NeedsManual ==
  /\ ~Mismatch /\ board # None
  /\ ~mock \/ identity.kind # "read" \/ identity.id # board \/ identity.mcu # BoardOf.mcu
IdentityBlocks == Mismatch \/ (NeedsManual /\ "manual" \notin ticks)

-----------------------------------------------------------------------------
(* Board, custom profile, ticks, erase mode and demo mode.                 *)

SelectBoard(b) ==
  /\ tab = "flasher" /\ ~Locked /\ ~picker /\ b # board /\ Event
  /\ board' = b /\ claim' = None
  /\ ticks' = TicksAfter({"board"}) \cup (IF board = None THEN ticks \cap {"prepared"} ELSE {})
  /\ Kept /\ UNCHANGED <<tab, custom, file, parsed, reads, build, picker, mock, full,
                         agreed, identity, idRead>>

SetCustom ==
  /\ tab = "flasher" /\ board # None /\ BoardOf.diagnostic /\ ~Locked /\ ~picker /\ Event
  /\ custom' = ~custom /\ claim' = None /\ ticks' = TicksAfter({"custom"})
  /\ Kept /\ UNCHANGED <<tab, board, file, parsed, reads, build, picker, mock, full,
                         agreed, identity, idRead>>

\* Ticking a box; the board confirmation is about board, image and device.
Offered == {"prepared"} \cup (IF NeedsManual THEN {"manual"} ELSE {}) \cup (IF full THEN {"full"} ELSE {})
             \cup (IF mock THEN {"mock"} ELSE {"match"})
             \cup (IF board # None /\ BoardOf.diagnostic /\ custom THEN {"diag"} ELSE {})
Tick(t) ==
  /\ tab = "flasher" /\ ~Locked /\ t \in Offered \ ticks
  /\ ticks' = {t} \cup (IF t = "diag" THEN TicksAfter({"custom"}) ELSE ticks)
  /\ agreed' = IF t = "match" THEN <<board, parsed, claim>> ELSE agreed
  /\ Kept /\ UNCHANGED <<tab, board, custom, file, parsed, reads, build, picker, claim, mock,
                         full, identity, idRead, events>>

SetFullErase ==
  /\ tab = "flasher" /\ ~Locked /\ Event /\ full' = ~full /\ ticks' = ticks \ {"full"}
  /\ Kept /\ UNCHANGED <<tab, board, custom, file, parsed, reads, build, picker, claim, mock,
                         agreed, identity, idRead>>

\* Demo mode creates a new flasher object: no device, phase idle.
SetDemo ==
  /\ tab = "flasher" /\ ~Locked /\ ~picker /\ Event /\ mock' = ~mock
  /\ handle' = None /\ claim' = None /\ phase' = "idle" /\ cancelled' = TRUE
  /\ ticks' = TicksAfter({"mock"}) \ {"mock"}
  /\ UNCHANGED <<flash, orig, plugged, rom, stage, script, job, fault, faults, lockVars, sessVars,
                 tab, board, custom, file, parsed, reads, build, picker, full, agreed,
                 identity, idRead>>

-----------------------------------------------------------------------------
(* The firmware file: picked by the user or handed over by the builder.    *)

Stale == {[r EXCEPT !.current = FALSE] : r \in reads}

\* onPickFile up to its await; a file over the size limit is refused there.
NewFile(f) ==
  /\ file' = f /\ parsed' = None /\ reads' = Stale \cup {[file |-> f, current |-> TRUE]}
  /\ phase' = "idle"
  /\ ticks' = TicksAfter({"fileName", "parsed"})

PickFile(f) ==
  /\ tab = "flasher" /\ ~Flashing /\ ~Active /\ build = "none" /\ Event /\ NewFile(f)
  /\ UNCHANGED <<flash, orig, plugged, rom, handle, stage, script, job, cancelled, fault, faults,
                 lockVars, sessVars, tab, board, custom, build, picker, claim, mock, full, agreed,
                 identity, idRead>>

\* file.text() resolves: a read that is no longer current is dropped; the builder,
\* which awaited the load, is done with it.
FileRead ==
  /\ \E r \in reads :
       /\ reads' = reads \ {r}
       /\ IF r.current
          THEN /\ parsed' = IF Image(r.file).ok THEN r.file ELSE None
               /\ ticks' = IF parsed' # parsed THEN TicksAfter({"parsed"}) ELSE ticks
               /\ build' = IF build = "load" THEN "none" ELSE build
          ELSE UNCHANGED <<parsed, ticks, build>>
  /\ Kept /\ UNCHANGED <<tab, board, custom, file, picker, claim, mock, full, agreed,
                         identity, idRead, events>>

\* HexBuilder: ask for the token, post the request, load a response that is the
\* requested target's and whose check sum agrees.
MayBuild ==
  /\ board # None /\ build = "none" /\ (BoardOf.diagnostic => custom)
  /\ ~Flashing /\ ~picker /\ ~FileLoading /\ ~Active /\ ~CdcLive /\ ~mock
BuildStart ==
  /\ tab = "flasher" /\ MayBuild /\ Event /\ build' = "token"
  /\ file' = None /\ parsed' = None /\ reads' = Stale /\ phase' = "idle"
  /\ ticks' = TicksAfter({"fileName", "parsed"})
  /\ UNCHANGED <<flash, orig, plugged, rom, handle, stage, script, job, cancelled, fault, faults,
                 lockVars, sessVars, tab, board, custom, picker, claim, mock, full, agreed,
                 identity, idRead>>
BuildToken ==
  /\ build = "token" /\ build' \in {"post", "none"}
  /\ Kept /\ UNCHANGED <<tab, board, custom, file, parsed, reads, picker, claim, mock, full,
                         ticks, agreed, identity, idRead, events>>
\* compileHex of the local builder: an image of the requested target, or none.
Built(b) == {f \in DOMAIN Files : Files[f].names = b}
BuildAnswer ==
  /\ build = "post"
  /\ \/ /\ build' = "none" /\ UNCHANGED <<file, parsed, reads, phase, ticks>>
     \/ \E f \in Built(board) : build' = "load" /\ NewFile(f)
  /\ UNCHANGED <<flash, orig, plugged, rom, handle, stage, script, job, cancelled, fault, faults,
                 lockVars, sessVars, tab, board, custom, picker, claim, mock, full, agreed,
                 identity, idRead, events>>

-----------------------------------------------------------------------------
(* The DFU device.                                                         *)

RequestDevice ==
  /\ tab = "flasher" /\ ~Locked /\ ~picker /\ ~mock /\ ~CdcLive /\ Event
  /\ picker' = TRUE /\ claim' = None
  /\ ticks' = TicksAfter({"device"})
  /\ Kept /\ UNCHANGED <<tab, board, custom, file, parsed, reads, build, mock, full, agreed,
                         identity, idRead>>

\* The picker is dismissed, or returns the device on the bus.
DevicePicked ==
  /\ picker /\ picker' = FALSE
  /\ \/ UNCHANGED <<claim, handle, ticks>>
     \/ /\ plugged # None /\ claim' = plugged /\ handle' = [dev |-> plugged, valid |-> TRUE]
        /\ ticks' = TicksAfter({"device"})
  /\ UNCHANGED <<flash, orig, plugged, rom, stage, script, job, cancelled, phase, fault, faults,
                 lockVars, sessVars, tab, board, custom, file, parsed, reads, build, mock, full,
                 agreed, identity, idRead, events>>

Plug(d) ==
  /\ plugged = None /\ Event /\ plugged' = d /\ rom' = Ready
  /\ UNCHANGED <<flash, orig, handle, stage, script, job, cancelled, phase, fault, faults,
                 lockVars, sessVars, tab, board, custom, file, parsed, reads, build, picker, claim,
                 mock, full, ticks, agreed, identity, idRead>>

\* The USB disconnect event: a replugged device may be another board.
DisconnectEvent ==
  /\ claim' = None
  /\ identity' = IF identity.kind = "idle" THEN identity ELSE [Idle EXCEPT !.kind = "stale"]
  /\ ticks' = TicksAfter({"device"} \cup (IF identity' # identity THEN {"identity"} ELSE {}))
  /\ UNCHANGED <<tab, board, custom, file, parsed, reads, build, picker, mock, full,
                 agreed, idRead>>
Unplug ==
  /\ plugged # None /\ Event /\ plugged' = None /\ rom' = Ready
  /\ handle' = IF handle = None THEN None ELSE [handle EXCEPT !.valid = FALSE]
  /\ fault' = (fault \/ Flashing)
  /\ DisconnectEvent
  /\ UNCHANGED <<flash, orig, stage, script, job, cancelled, phase, faults, lockVars, sessVars>>

-----------------------------------------------------------------------------
(* Reading the board identity.                                             *)

\* readBoardIdentity answers: the tokens of the board, none (older firmware, busy,
\* error); a board of the catalog preselects an unset board.
IdentityRead ==
  /\ idRead /\ idRead' = FALSE
  /\ \/ identity' = [Idle EXCEPT !.kind = "busy"]
     \/ \E l \in link : identity' = [kind |-> "read", id |-> l.board, mcu |-> l.mcu]
  /\ board' = IF /\ board = None /\ identity'.kind = "read" /\ identity'.id \in DOMAIN Boards
                 /\ Boards[identity'.id].mcu = identity'.mcu
              THEN identity'.id ELSE board
  /\ claim' = IF board' # board THEN None ELSE claim
  /\ ticks' = TicksAfter((IF identity' # identity THEN {"identity"} ELSE {"none"})
                           \cup (IF board' # board THEN {"custom"} ELSE {}))
  /\ Kept /\ UNCHANGED <<tab, custom, file, parsed, reads, build, picker, mock, full, agreed,
                         events>>

\* "Read again": a read that found nothing usable may be repeated.
ReadAgain ==
  /\ tab = "flasher" /\ identity.kind = "busy" /\ link # {} /\ ~idRead /\ Event
  /\ idRead' = TRUE
  /\ Kept /\ UNCHANGED <<tab, board, custom, file, parsed, reads, build, picker, claim, mock, full,
                         ticks, agreed, identity>>

-----------------------------------------------------------------------------
(* The flash button.                                                       *)

MayFlash ==
  /\ build = "none" /\ ~Flashing /\ ~Active /\ ~picker /\ ~FileLoading
  /\ board # None /\ parsed # None /\ "prepared" \in ticks
  /\ ~IdentityBlocks
  /\ full => "full" \in ticks
  /\ BoardOf.diagnostic => custom /\ "diag" \in ticks
  /\ ValidateFirmware(Image(parsed), BoardOf, Files[parsed])
  /\ IF mock THEN "mock" \in ticks ELSE ~CdcLive /\ claim # None /\ "match" \in ticks

ClickFlash ==
  /\ tab = "flasher" /\ MayFlash
  /\ StartFlash(parsed, board, [mcu |-> BoardOf.mcu, diagnostic |-> BoardOf.diagnostic,
                                full |-> full], ~mock)
  /\ IF mock THEN UNCHANGED lockVars ELSE Lock(board)
  /\ UNCHANGED <<sessVars, pageVars>>

\* A flash() promise settles: onFlash's finally gives up the claim and the erase tick.
Settled ==
  IF stage # "idle" /\ stage' = "idle"
  THEN LET left == IF job.live THEN None ELSE claim IN
       /\ claim' = left
       /\ ticks' = (IF left # claim THEN TicksAfter({"device"}) ELSE ticks) \ {"full"}
       /\ UNCHANGED <<tab, board, custom, file, parsed, reads, build, picker, mock, full, agreed,
                      identity, idRead, events>>
  ELSE UNCHANGED pageVars

Flasher == (DfuSteps \/ TransferFails) /\ Settled /\ UNCHANGED <<lockVars, sessVars>>
Rom == (RomWorks \/ RomLosesWord) /\ UNCHANGED <<lockVars, sessVars, pageVars>>
ClickCancel == CancelFlash /\ Event /\ UNCHANGED <<lockVars, sessVars>>
                 /\ UNCHANGED <<tab, board, custom, file, parsed, reads, build, picker, claim, mock,
                                full, ticks, agreed, identity, idRead>>

-----------------------------------------------------------------------------
(* Tabs, the connection and the console.                                   *)

\* A mutant: only the flash itself locks the tabs.
TabOpenAfter(t) == Locked => t = "flasher"
TabOpen(t) == (Locked => t = "flasher") /\ (gate # NoOne => t # "config")

\* selectTab; the gated tabs are one tab here.
SelectTab(t) ==
  /\ t # tab /\ TabOpen(t)
  /\ tab' = t
  /\ Kept /\ UNCHANGED <<board, custom, file, parsed, reads, build, picker, claim, mock, full,
                         ticks, agreed, identity, idRead, events>>

\* The connection: its effect aborts an identity read and starts one when connected.
Connection ==
  /\ \/ tab = "connect" /\ link = {} /\ Event /\ Relink /\ \E p \in Ports : link' = {p}
     \/ link # {} /\ Event /\ Relink /\ link' = {}
     \/ Unlock /\ UNCHANGED events
  /\ idRead' = IF link = {} THEN TRUE ELSE idRead /\ link' # {}
  /\ UNCHANGED <<dfuVars, sessVars, tab, board, custom, file, parsed, reads, build, picker, claim,
                 mock, full, ticks, agreed, identity>>

\* The console: only for the diagnostic profile; it closes when the page disables it.
ConsoleDisabled == mock \/ Flashing \/ build # "none" \/ picker \/ CdcLive \/ "diag" \notin ticks
MayOpen == tab = "flasher" /\ ~ConsoleDisabled
Console ==
  /\ board # None /\ BoardOf.diagnostic
  /\ \/ MayOpen /\ Event /\ Connect
     \/ UNCHANGED events /\ (SessNext \/ Close)
  /\ UNCHANGED <<dfuVars, lockVars, tab, board, custom, file, parsed, reads, build, picker, claim,
                 mock, full, ticks, agreed, identity, idRead>>

Choose ==
  \/ \E b \in DOMAIN Boards : SelectBoard(b)
  \/ SetCustom \/ SetFullErase \/ SetDemo
  \/ \E t \in {"prepared", "manual", "match", "full", "diag", "mock"} : Tick(t)
  \/ \E f \in DOMAIN Files : PickFile(f)
Load == FileRead \/ BuildStart \/ BuildToken \/ BuildAnswer
Usb == RequestDevice \/ DevicePicked \/ Unplug \/ \E d \in Devices : Plug(d)

Next ==
  \/ Choose \/ Load \/ Usb \/ IdentityRead \/ ReadAgain
  \/ ClickFlash \/ Flasher \/ Rom \/ ClickCancel
  \/ Connection \/ Console
  \/ \E t \in {"flasher", "connect", "config"} : SelectTab(t)

Spec == Init /\ [][Next]_vars

-----------------------------------------------------------------------------
(* Properties.                                                             *)

\* A live flash writes the image, for the board and onto the device, that the user
\* confirmed together; a late parse, a new pick or a replugged device is never
\* flashed on a confirmation given for something else.
FlashedAsConfirmed ==
  Flashing /\ job.live => agreed = <<job.board, job.file, job.dev>>

\* While a flash runs, and after it until the lock opens, no configuration tab is
\* shown and the diagnostic console holds no port.
LockedAfterFlash ==
  /\ (Flashing /\ job.live) \/ gate # NoOne => tab # "config"
  /\ Flashing => Released /\ ~Active
=============================================================================
