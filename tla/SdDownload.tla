----------------------------- MODULE SdDownload -----------------------------
(***************************************************************************)
(* Listing and downloading logs from the controller's SD card:             *)
(* SdDownloadController (ui/src/blackbox/sdDownload.ts) over the sector    *)
(* reader (protocol/src/sd-read.ts, fat32-root.ts) and the firmware's "sd" *)
(* commands as the simulated controller answers them (sd-read-mock.ts).    *)
(*                                                                         *)
(* An operation is one async function: pc names the await it is suspended  *)
(* at, and one step takes an answer (or its absence) and runs the          *)
(* function to its next await.  Between two of them anything may happen:   *)
(* the user cancels or leaves the tab, the aircraft arms, a recording      *)
(* runs, the card is changed, the port closes.                             *)
(***************************************************************************)
EXTENDS Fat32Root

CONSTANTS
    Cards,     \* the cards, by name: [sectors, hint, sec, payload]
    None,      \* no file, no card in the slot
    MaxEvents  \* bound: events from outside (card, arming, port, tab) explored

VARIABLES
    conn,        \* getConnectionStatus() = "connected"
    dropping,    \* the client is closing the port after an unterminated reply
    \* the firmware
    card,        \* the name of the card in the slot, or None
    events,      \* events from outside so far
    fwPhase,     \* MockSdCliFirmware.phase
    fwStale,     \* the card was used or changed since the probe
    fwRead,      \* a read is active and will never answer
    armed, recording,
    \* SdDownloadController
    op,          \* "none", "list", or the name being downloaded
    pc,          \* the await: "probe", "poll", "bb", "arm", "read", "end", "drop"
    failing,     \* fail() is running
    cancelReason,\* a cancel was asked for
    sdOnWire,
    retried,     \* attempt = 1
    want,        \* the sector of the "sd read" on the wire
    cache,       \* metadata sectors read (Fat32RootReader.cache): from which card
    lbas, buf,   \* the file's sectors; those read, as <<card, sector>>
    files,       \* the last listing, or None
    saved        \* what save() was last given, or None

linkVars == <<conn, dropping>>
fwVars   == <<card, fwPhase, fwStale, fwRead, armed, recording>>
bufVars  == <<want, cache, lbas, buf, retried>>
opVars   == <<op, pc, failing, cancelReason, sdOnWire>>
outVars  == <<files, saved>>
sdVars   == <<linkVars, fwVars, bufVars, opVars, outVars, events>>

\* An event from outside, while the bound allows.
Event == events < MaxEvents /\ events' = events + 1

NoSectors == [l \in {} |-> None]
busy == pc # "idle"
Up   == conn /\ ~dropping
Awaits == {"probe", "poll", "bb", "arm", "read", "end"}

SdInit ==
    /\ conn = TRUE /\ dropping = FALSE
    /\ card \in DOMAIN Cards /\ events = 0
    /\ fwPhase = "idle" /\ fwStale = FALSE /\ fwRead = FALSE
    /\ armed = FALSE /\ recording = FALSE
    /\ op = "none" /\ pc = "idle" /\ failing = FALSE /\ cancelReason = FALSE
    /\ sdOnWire = FALSE /\ retried = FALSE
    /\ want = 0 /\ cache = NoSectors /\ lbas = <<>> /\ buf = <<>>
    /\ files = None /\ saved = None

-----------------------------------------------------------------------------
(* Leaving an await.                                                       *)

Keep  == UNCHANGED <<bufVars, outVars, op, failing, cancelReason>>
Await(p) == pc' = p

Forget == /\ want' = 0 /\ cache' = NoSectors /\ lbas' = <<>> /\ buf' = <<>>
          /\ retried' = FALSE

\* finish(), and the operation's buffers are gone.
Finish == /\ op' = "none" /\ pc' = "idle" /\ failing' = FALSE /\ cancelReason' = FALSE
          /\ sdOnWire' = FALSE
          /\ Forget

\* fail(): sd cancel closes the session if an SD command went out and the link
\* is there (endSession()).
Fail(wire) == IF wire /\ conn
                THEN /\ failing' = TRUE /\ Await("end") /\ sdOnWire' = TRUE
                     /\ Forget
                     /\ UNCHANGED <<op, cancelReason, outVars>>
                ELSE Finish /\ UNCHANGED outVars

\* begin()
Begin(o) ==
    /\ ~busy /\ conn
    /\ op' = o /\ Await("probe") /\ sdOnWire' = FALSE
    /\ UNCHANGED <<linkVars, fwVars, bufVars, failing, cancelReason, saved, events>>

\* list() and download(name), up to the probe.
List == Begin("list") /\ files' = None
Download(f) == files # None /\ f \in files /\ f.size # 0 /\ Begin(f.name) /\ UNCHANGED files

\* cancel(): the running await is not interrupted.
Cancel ==
    /\ busy /\ ~cancelReason
    /\ cancelReason' = TRUE
    /\ UNCHANGED <<linkVars, fwVars, bufVars, op, pc, failing, sdOnWire, outVars, events>>

-----------------------------------------------------------------------------
(* openVolume()                                                            *)

SdRefuses == recording \/ fwRead \/ card = None

\* The answer to "sd probe": a refusal, or the probe starts.
ProbeReply ==
    /\ pc = "probe" /\ Up
    /\ UNCHANGED linkVars
    /\ IF SdRefuses \/ armed \/ fwPhase = "initializing"
         THEN Fail(TRUE) /\ UNCHANGED fwVars
         ELSE /\ fwPhase' = "initializing" /\ fwStale' = FALSE
              /\ UNCHANGED <<card, fwRead, armed, recording>>
              /\ IF cancelReason THEN Fail(TRUE)
                 ELSE Keep /\ Await("poll") /\ sdOnWire' = TRUE

\* The probe's timer in the firmware.
ProbeDone ==
    /\ fwPhase = "initializing"
    /\ fwPhase' = IF card = None THEN "error" ELSE "done"
    /\ UNCHANGED <<events, linkVars, card, fwStale, fwRead, armed, recording,
                   bufVars, opVars, outVars>>

\* sdReadyCapacity() and the filesystem hint of the probe.
Readable(c) == c.sectors # 0 /\ c.hint = "FAT32"

\* The answer to "sd status": poll on, go on, or give up.
StatusReply ==
    /\ pc = "poll" /\ Up
    /\ UNCHANGED <<linkVars, fwVars>>
    /\ IF cancelReason \/ SdRefuses \/ fwPhase \notin {"initializing", "done"}
         THEN Fail(TRUE)
         ELSE IF fwPhase = "initializing" THEN UNCHANGED <<bufVars, opVars, outVars>>
         ELSE IF ~Readable(Cards[card]) THEN Fail(TRUE)
         ELSE Keep /\ Await("bb") /\ UNCHANGED sdOnWire

\* The 15 s cap on polling.
PollDeadline == /\ pc = "poll" /\ Up /\ Fail(TRUE)
                /\ UNCHANGED <<linkVars, fwVars>>

\* checkLocks(): "blackbox status" and then "status", right before any read.
\* A reply that reports no state passes; the controller's own guard applies.
BlackboxReply(known) ==
    /\ pc = "bb" /\ Up
    /\ UNCHANGED <<linkVars, fwVars>>
    /\ IF cancelReason \/ (recording /\ known) THEN Fail(sdOnWire)
       ELSE Keep /\ Await("arm") /\ UNCHANGED sdOnWire

ArmReply(known) ==
    /\ pc = "arm" /\ Up
    /\ UNCHANGED <<linkVars, fwVars>>
    /\ IF cancelReason \/ (armed /\ known) THEN Fail(sdOnWire)
       ELSE Keep /\ Await("read") /\ UNCHANGED sdOnWire

-----------------------------------------------------------------------------
(* Sectors                                                                 *)

\* The entry must still be there, as long as it was when listed.
EntryStands(f, found) == f.size = found.size

\* The entry of the listing that the download is of.
Listed == CHOOSE f \in files : f.name = op

\* What the reader does with metadata m: the sector it needs, a refusal, or
\* the listing / the file's sectors.
Reader(m) ==
    LET n == Cards[card].sectors IN
    Then(Mount(m, n), LAMBDA g :
      Then(ListBblFiles(m, n, g), LAMBDA r :
        IF op = "list" THEN Ok(r.files)
        ELSE IF ~\E e \in r.files : e.name = op THEN Refuse
        ELSE LET e == CHOOSE e \in r.files : e.name = op
             IN IF EntryStands(Listed, e) THEN FileDataSectors(m, n, g, r.root, e) ELSE Refuse))

\* endSession() on success; nothing is saved yet.
Close == Await("end") /\ UNCHANGED <<op, failing, cancelReason, sdOnWire, saved>>

\* The next "sd read".
Read(l) == want' = l /\ retried' = FALSE /\ UNCHANGED <<opVars, outVars>>

\* A verified metadata sector: the reader runs on to its next one, to the
\* listing or to the file's first sector.
MetaRead ==
    LET c == [l \in DOMAIN cache \cup {want} |-> IF l = want THEN card ELSE cache[l]]
        r == Reader([l \in DOMAIN c |-> Cards[c[l]].sec[l]])
    IN \/ r.kind = "refuse" /\ Fail(TRUE)
       \/ r.kind = "need" /\ Read(r.lba) /\ cache' = c /\ UNCHANGED <<lbas, buf>>
       \/ r.kind = "ok" /\ IF op = "list" THEN files' = r.val /\ Close /\ Forget
                          ELSE /\ Read(r.val[1]) /\ lbas' = r.val
                               /\ cache' = NoSectors /\ UNCHANGED buf

\* A verified sector of the file.
DataRead(v) ==
    /\ buf' = Append(buf, v) /\ UNCHANGED <<lbas, cache>>
    /\ IF Len(buf) + 1 = Len(lbas)
         THEN Close /\ UNCHANGED <<want, retried, files>>
         ELSE Read(lbas[Len(buf) + 2])

\* readVerified(): a CRC mismatch is retried once.
CrcRetry ==
    IF ~retried THEN retried' = TRUE /\ UNCHANGED <<opVars, outVars, want, cache, lbas, buf>>
    ELSE Fail(TRUE)

\* Mutant: once the metadata is read, a changed card is not noticed.
ReadFailsStale == SdRefuses \/ armed \/ fwPhase # "done" \/ (fwStale /\ lbas = <<>>)
                  \/ want >= Cards[card].sectors

\* The controller's guards on "sd read"; a stale card is a driver error.
ReadFails == SdRefuses \/ armed \/ fwPhase # "done" \/ fwStale \/ want >= Cards[card].sectors

\* The phase a read leaves: one armed meanwhile is cancelled on the next poll.
ReadPhases == IF SdRefuses \/ fwPhase # "done" THEN {fwPhase}
              ELSE IF armed THEN {fwPhase, "cancelled"}
              ELSE IF fwStale THEN {"error"} ELSE {fwPhase}

\* parseSdReadReply(): data, a CRC mismatch, or anything else.
ReadFaults == {"none", "crc", "malformed"}

\* The answer to "sd read": refused, garbled on the way, for another sector or
\* malformed, or the sector.
ReadReply(fault) ==
    /\ pc = "read" /\ Up
    /\ UNCHANGED <<linkVars, card, fwStale, fwRead, armed, recording>>
    /\ \E p \in ReadPhases : fwPhase' = p
    /\ IF cancelReason \/ ReadFails \/ fault = "malformed" THEN Fail(TRUE)
       ELSE IF fault = "crc" THEN CrcRetry
       ELSE IF lbas = <<>> THEN MetaRead ELSE DataRead(<<card, want>>)

\* The firmware begins a read and never answers.
ReadSilent ==
    /\ pc = "read" /\ Up /\ ~ReadFails
    /\ fwRead' = TRUE /\ Event
    /\ UNCHANGED <<linkVars, card, fwPhase, fwStale, armed, recording,
                   bufVars, opVars, outVars>>

-----------------------------------------------------------------------------
(* The end of an operation.                                                *)

\* Mutant: a cancel during the closing sd cancel is not looked at.
AbortedBlind == FALSE

\* A download cancelled while its session closed fails, with one more sd cancel
\* while the link is there.
Aborted == op # "list" /\ ~failing /\ cancelReason

\* After endSession(): a download is saved.
Complete == IF op = "list" \/ failing THEN UNCHANGED saved
            ELSE saved' = [name |-> op, size |-> Listed.size, bytes |-> buf]

Done == IF Aborted THEN Fail(sdOnWire /\ conn')
        ELSE Complete /\ Finish /\ UNCHANGED files

\* The answer to "sd cancel", which also ends a read that never answered.
CancelReply ==
    /\ pc = "end" /\ Up
    /\ fwRead' = IF recording THEN fwRead ELSE FALSE
    /\ fwPhase' = IF ~recording /\ (fwRead \/ fwPhase = "initializing") THEN "cancelled"
                  ELSE fwPhase
    /\ UNCHANGED <<linkVars, card, fwStale, armed, recording>>
    /\ Done

\* The gate refused the command for the whole retry window: nothing was sent.
GateBusy ==
    /\ pc \in Awaits /\ conn
    /\ UNCHANGED <<linkVars, fwVars>>
    /\ IF pc = "end" THEN Done ELSE Fail(sdOnWire)

\* The client's hard timer: a framed command also drops the port.
Timeout ==
    /\ pc \in Awaits /\ Up
    /\ dropping' = (pc # "arm")
    /\ UNCHANGED <<conn, fwVars>>
    /\ IF pc = "end" THEN Done
       ELSE /\ failing' = TRUE /\ Await("drop")
            /\ sdOnWire' = (sdOnWire \/ pc \in {"probe", "poll", "read"})
            /\ Forget
            /\ UNCHANGED <<op, cancelReason, outVars>>

\* Mutant: the wait has no cap.
DropAwaited == /\ pc = "drop" /\ ~conn
               /\ Fail(sdOnWire) /\ UNCHANGED <<linkVars, fwVars>>

\* timeoutText(): at most a second for the client to drop the link.
DropWaited == /\ pc = "drop" /\ conn
              /\ Fail(sdOnWire) /\ UNCHANGED <<linkVars, fwVars>>

\* The port closes: the command on the wire is rejected and the operation is
\* over; a file whose sectors are all verified may still be saved.
Closed ==
    /\ conn /\ conn' = FALSE /\ dropping' = FALSE /\ UNCHANGED fwVars
    /\ IF ~busy THEN UNCHANGED <<bufVars, opVars, outVars>>
       ELSE IF pc = "end" THEN Done
       ELSE Finish /\ UNCHANGED outVars

\* The client closes it after a timeout; or the cable is pulled.
PortDropped == dropping /\ Closed /\ UNCHANGED events
PortPulled  == Event /\ Closed

Connect == /\ ~conn /\ conn' = TRUE
           /\ UNCHANGED <<dropping, fwVars, bufVars, opVars, outVars, events>>

-----------------------------------------------------------------------------
(* The aircraft.                                                           *)

Arming == /\ Event /\ armed' = ~armed
          /\ UNCHANGED <<linkVars, card, fwPhase, fwStale, fwRead, recording,
                         bufVars, opVars, outVars>>

\* The card is taken out or replaced; a probe from before does not cover it.
CardChange(c) ==
    /\ Event /\ c # card /\ ~recording
    /\ card' = c /\ fwStale' = TRUE
    /\ UNCHANGED <<linkVars, fwPhase, fwRead, armed, recording, bufVars, opVars, outVars>>

Answers == \/ ProbeReply \/ StatusReply \/ PollDeadline
           \/ \E k \in BOOLEAN : BlackboxReply(k) \/ ArmReply(k)
           \/ \E f \in ReadFaults : ReadReply(f)
           \/ CancelReply \/ GateBusy \/ Timeout \/ DropWaited

Replies == Answers /\ UNCHANGED events

\* The timers: the client's on every command, the two deadlines of the page.
Timers == (Timeout \/ PollDeadline \/ DropWaited) /\ UNCHANGED events

SdNext == \/ Replies \/ ReadSilent \/ ProbeDone
          \/ PortDropped \/ PortPulled \/ Connect \/ Arming
          \/ \E c \in DOMAIN Cards \cup {None} : CardChange(c)

-----------------------------------------------------------------------------
(* Properties.                                                             *)

\* A file handed to the browser is, sector for sector and to its length, a file
\* some card held: no mix of two cards, no garbled sector, no chain of a
\* damaged FAT, whatever was cancelled, armed, swapped or dropped on the way.
SavedWhole ==
    saved # None =>
      \E c \in DOMAIN Cards :
        /\ saved.name \in DOMAIN Cards[c].payload
        /\ saved.bytes = [i \in 1 .. Ceil(saved.size, SectorBytes) |->
                            <<c, Cards[c].payload[saved.name][i]>>]

\* Once a cancel (button, tab, post-flash lock) was asked for, this operation
\* saves nothing, even when it waits for the last answer.
NoSaveAfterCancel == [][cancelReason => saved' = saved]_sdVars

\* Every list and download ends, with the controls unlocked again.
OperationEnds == busy ~> ~busy
=============================================================================
