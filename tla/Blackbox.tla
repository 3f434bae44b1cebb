------------------------------ MODULE Blackbox ------------------------------
(***************************************************************************)
(* The flight recorder's pipeline: the CLI that owns a session             *)
(* (drivers/blackbox_cli.h), the observer of the control loop              *)
(* (flight/blackbox_capture.c), its sample FIFO (flight/flight_recorder.c) *)
(* and the session that encodes samples into a byte ring and hands sectors *)
(* to the log-file writer (flight/blackbox_session.c over LogFile).        *)
(*                                                                         *)
(* Control loop and background share one thread: between two polls any     *)
(* number of loops run.  One poll is three steps: its clock checks, the    *)
(* file's progress, the session's; nothing runs between them.              *)
(***************************************************************************)
EXTENDS Naturals, Sequences, SequencesExt

CONSTANTS
    Queue,       \* FLIGHT_RECORDER_QUEUE_CAPACITY, in samples
    Ring,        \* BB_SESSION_RING_BYTES, in units
    SectorLen,   \* 512 bytes, in units; a frame or the end marker is one unit
    Meta,        \* the header's units after its rate block
    Rate,        \* BLACKBOX_RATE_DEFAULT_HZ
    FloorHz,     \* BB_RATE_FLOOR_HZ
    MaxSamples   \* bound: samples accepted in a session

ASSUME PipelineAssumption ==
    /\ Queue \in Nat \ {0} /\ SectorLen \in Nat \ {0} /\ Meta \in Nat
    /\ Ring \in Nat /\ Ring >= SectorLen + 1 /\ Ring >= Meta + 1
    /\ Meta + 1 >= SectorLen
    /\ Rate \in Nat /\ FloorHz \in Nat \ {0} /\ Rate >= FloorHz

VARIABLES
    pc,             \* "loop", or the next step of bb_session_poll()
    armed,          \* the flight state the control loop observes
    \* flight/flight_recorder.c, flight/blackbox_capture.c
    active,         \* recorder_active()
    queue,          \* samples accepted and not yet encoded
    pending,        \* pending_events
    last_armed,     \* last.armed, "none" before the first loop of a session
    \* drivers/blackbox_cli.h
    init,           \* bbl_initializing
    init_stop,      \* bbl_stop_during_init
    \* flight/blackbox_session.c
    sphase,         \* bb_session_t.phase
    stop_requested,
    end_created,
    seen_armed,
    ring,           \* encoded units not yet handed to the file
    hz,             \* sample_hz
    header_hz,
    patch_done,
    settle,         \* settle_windows
    lost,           \* a sample was dropped on a full FIFO in this window
    \* drivers/fat32_log.c, as LogFile describes it
    phase, op, pend, short, content,
    \* history
    accepted,       \* the samples recorder_capture() accepted, in order
    noted           \* the events since the capture began

recVars  == <<active, queue, pending, last_armed>>
cliVars  == <<init, init_stop>>
sessVars == <<sphase, stop_requested, end_created, seen_armed, ring, hz, header_hz,
              patch_done, settle, lost>>
fileVars == <<phase, op, pend, short, content>>
histVars == <<accepted, noted>>
vars     == <<pc, armed, recVars, cliVars, sessVars, fileVars, histVars>>

Phase == {"IDLE", "PREPARING", "HEADER", "RECORDING", "DRAINING", "CLOSING", "DONE", "ERROR"}
Event == {"ARM", "DISARM"}

Unit(kind, n) == <<kind, n>>
EndUnit == Unit("end", 0)
NoSector == <<>>

File == INSTANCE LogFile WITH Sector <- Seq(Unit("any", 0)), None <- NoSector

\* blackbox_header(): the rate block, then what never changes.
Header(rate) == <<Unit("rate", rate)>> \o [i \in 1 .. Meta |-> Unit("meta", i)]

Frame(id) == Unit("frame", id)

busy == sphase \in {"PREPARING", "HEADER", "RECORDING", "DRAINING", "CLOSING"}
room == Len(ring) < Ring

-----------------------------------------------------------------------------
Init == /\ pc = "loop" /\ armed = FALSE
        /\ active = FALSE /\ queue = <<>> /\ pending = {} /\ last_armed = "none"
        /\ init = FALSE /\ init_stop = FALSE
        /\ sphase = "IDLE" /\ stop_requested = FALSE /\ end_created = FALSE
        /\ seen_armed = FALSE /\ ring = <<>> /\ hz = Rate /\ header_hz = Rate
        /\ patch_done = FALSE /\ settle = 0 /\ lost = FALSE
        /\ File!Init
        /\ accepted = <<>> /\ noted = {}

-----------------------------------------------------------------------------
(* The control loop.                                                       *)

\* pending_events after a sample with these events was accepted or not.
KeptEvents(events, taken) == IF taken THEN {} ELSE events

\* The edge note_events() finds.
Edge(now_armed) == CASE last_armed = "none" -> {}
                     [] last_armed = now_armed -> {}
                     [] OTHER -> IF now_armed = "yes" THEN {"ARM"} ELSE {"DISARM"}

\* One control loop, observed by bb_capture_observe_ex().  outcome: the sample
\* is not due, invalid, due and valid, or the clock failed and capture ends.
Observe(a, outcome) ==
    LET now_armed == IF a THEN "yes" ELSE "no"
        events    == pending \cup Edge(now_armed)
        full      == Len(queue) = Queue
        taken     == outcome = "due" /\ ~full
        sample    == [id |-> Len(accepted) + 1, armed |-> a, events |-> events]
    IN /\ pc = "loop" /\ active
       /\ armed' = a
       /\ UNCHANGED <<pc, cliVars, fileVars>>
       /\ UNCHANGED <<sphase, stop_requested, end_created, seen_armed, ring, hz,
                      header_hz, patch_done, settle>>
       /\ IF outcome = "clock"
            THEN active' = FALSE /\ UNCHANGED <<queue, pending, last_armed, lost, histVars>>
            ELSE /\ taken => Len(accepted) < MaxSamples
                 /\ last_armed' = now_armed
                 /\ noted' = noted \cup Edge(now_armed)
                 /\ pending' = IF outcome = "skip" THEN events ELSE KeptEvents(events, taken)
                 /\ queue' = IF taken THEN Append(queue, sample) ELSE queue
                 /\ accepted' = IF taken THEN Append(accepted, sample) ELSE accepted
                 /\ lost' = (lost \/ (outcome = "due" /\ full))
                 /\ UNCHANGED active

\* The craft arms or disarms while nothing records.
Fly == /\ pc = "loop" /\ ~active
       /\ armed' = ~armed
       /\ UNCHANGED <<pc, recVars, cliVars, sessVars, fileVars, histVars>>

-----------------------------------------------------------------------------
(* The CLI.                                                                *)

\* "blackbox start" while disarmed and not busy: session and writer are
\* cleared, the card is initialised.
CliStart == /\ pc = "loop" /\ ~init /\ ~busy /\ ~armed
            /\ sphase' = "IDLE" /\ init' = TRUE /\ init_stop' = FALSE
            /\ queue' = IF active THEN queue ELSE <<>>
            /\ stop_requested' = FALSE /\ end_created' = FALSE /\ seen_armed' = FALSE
            /\ ring' = <<>> /\ hz' = Rate /\ header_hz' = Rate
            /\ patch_done' = FALSE /\ settle' = 0 /\ lost' = FALSE
            /\ File!Forget
            /\ UNCHANGED <<pc, armed, active, pending, last_armed, histVars>>

\* The card's initialisation fails or is over; without a stop in between
\* bb_session_start() queues the header and starts the file.
CardReady(ok) ==
    /\ pc = "loop" /\ init
    /\ init' = FALSE /\ UNCHANGED init_stop
    /\ IF ok /\ ~init_stop
         THEN /\ sphase' = "PREPARING"
              /\ File!Start
              /\ queue' = <<>>
              /\ stop_requested' = FALSE /\ end_created' = FALSE /\ seen_armed' = FALSE
              /\ ring' = Header(Rate) /\ hz' = Rate /\ header_hz' = Rate
              /\ patch_done' = FALSE /\ settle' = 0 /\ lost' = FALSE
              /\ accepted' = <<>> /\ noted' = {}
         ELSE /\ sphase' = IF ok THEN "DONE" ELSE "ERROR"
              /\ UNCHANGED <<queue, stop_requested, end_created, seen_armed, ring, hz,
                             header_hz, patch_done, settle, lost, fileVars, histVars>>
    /\ UNCHANGED <<pc, armed, active, pending, last_armed>>

\* "blackbox stop"
CliStop == /\ pc = "loop" /\ (init \/ busy)
           /\ IF init THEN init_stop' = TRUE /\ UNCHANGED <<stop_requested, active>>
                      ELSE stop_requested' = TRUE /\ active' = FALSE /\ UNCHANGED init_stop
           /\ UNCHANGED <<pc, armed, queue, pending, last_armed, init, sphase, end_created,
                          seen_armed, ring, hz, header_hz, patch_done, settle, lost,
                          fileVars, histVars>>

-----------------------------------------------------------------------------
(* bb_session_poll().                                                      *)

\* fail()
SessionFail == sphase' = "ERROR" /\ active' = FALSE /\ pc' = "loop"

\* The clock checks.  limit: the session's time or size is used up.
PollBegin(limit) ==
    LET stops == sphase = "RECORDING" /\ ~stop_requested /\ (~active \/ limit) IN
    /\ pc = "loop" /\ busy /\ ~init
    /\ limit => sphase = "RECORDING"
    /\ pc' = "file"
    /\ stop_requested' = (stop_requested \/ stops)
    /\ active' = (active /\ ~stops)
    /\ UNCHANGED <<armed, queue, pending, last_armed, cliVars, sphase, end_created,
                   seen_armed, ring, hz, header_hz, patch_done, settle, lost, fileVars,
                   histVars>>

\* The clock went backwards, or preparing took more than two minutes.
PollTimeout == /\ pc = "loop" /\ busy /\ ~init
               /\ SessionFail
               /\ UNCHANGED <<armed, queue, pending, last_armed, cliVars, stop_requested,
                              end_created, seen_armed, ring, hz, header_hz, patch_done,
                              settle, lost, fileVars, histVars>>

\* fatlog_poll(): the card goes on, is done with what it was given, or fails.
FilePoll ==
    /\ pc = "file"
    /\ \/ File!Prepared \/ File!Stored \/ File!Closed \/ File!Fail
       \/ UNCHANGED fileVars
    /\ IF phase' = "ERROR" THEN SessionFail
       ELSE /\ sphase' = IF sphase = "CLOSING" /\ phase' = "DONE" THEN "DONE" ELSE sphase
            /\ pc' = IF sphase = "CLOSING" THEN "loop" ELSE "session"
            /\ UNCHANGED active
    /\ UNCHANGED <<armed, queue, pending, last_armed, cliVars, stop_requested, end_created,
                   seen_armed, ring, hz, header_hz, patch_done, settle, lost, histVars>>

\* rate_policy() at the end of a window: drops on a full FIFO halve the rate,
\* except in the window after a halving.  breach: they exceed the threshold.
Lowers(window, breach) ==
    /\ window /\ sphase = "RECORDING" /\ ~stop_requested
    /\ settle = 0 /\ lost /\ breach /\ hz > FloorHz /\ active

Halved == IF hz \div 2 < FloorHz THEN FloorHz ELSE hz \div 2

\* Mutant: the FIFO is encoded only while recording.
DrainsRecording == sphase = "RECORDING" /\ room /\ queue # <<>>

\* drain() takes one sample.
Drains == sphase \in {"RECORDING", "DRAINING"} /\ room /\ queue # <<>>

\* Mutant: the end marker does not wait for the FIFO.
EndsEarly(sphase2, queue2, ring2) ==
    sphase2 = "DRAINING" /\ ~end_created /\ Len(ring2) < Ring

\* The end marker goes in behind the last sample.
Ends(sphase2, queue2, ring2) ==
    /\ sphase2 = "DRAINING" /\ ~end_created
    /\ queue2 = <<>> /\ Len(ring2) < Ring

\* Mutant: the first sector keeps the rate the session started with.
PatchesNever(drained, rate) == FALSE

\* header_patch(): the rate was lowered after the header was written.
Patches(drained, rate) == drained /\ ~patch_done /\ rate # header_hz

\* drain() ends the session at the first disarmed sample after an armed one.
StopsDisarmed(sample) == ~sample.armed /\ seen_armed /\ ~stop_requested

\* The rest of bb_session_poll().  encoded: the sample could be encoded.  The
\* file accepts every sector, patch and close it is given: a refusal would be an
\* error of the session, and here a step that cannot be taken.
SessionStep(window, breach, encoded) ==
    LET policy == window /\ sphase = "RECORDING" /\ ~stop_requested
        lowers == Lowers(window, breach)
        hz1    == IF lowers THEN Halved ELSE hz
        drains == Drains
        queue1 == IF drains THEN Tail(queue) ELSE queue
        ring1  == IF drains THEN Append(ring, Frame(Head(queue).id)) ELSE ring
        stops  == drains /\ StopsDisarmed(Head(queue))
        stop1  == stop_requested \/ stops
        ready  == phase = "READY"
        begins == ready /\ sphase \in {"PREPARING", "HEADER"} /\ ~stop1
        sphase1 == CASE ~ready -> sphase
                     [] ready /\ stop1 -> "DRAINING"
                     [] OTHER -> "RECORDING"
        ends   == ready /\ Ends(sphase1, queue1, ring1)
        ring2  == IF ends THEN Append(ring1, EndUnit) ELSE ring1
        end1   == end_created \/ ends
        full   == ready /\ Len(ring2) >= SectorLen
        final  == ready /\ end1 /\ ~full /\ ring2 # <<>>
        drained == ready /\ end1 /\ ring2 = <<>>
        patches == Patches(drained, hz1)
    IN /\ pc = "session"
       /\ breach => window
       /\ hz' = hz1
       /\ settle' = IF ~policy THEN settle
                    ELSE IF settle > 0 THEN settle - 1 ELSE IF lowers THEN 1 ELSE 0
       /\ seen_armed' = (seen_armed \/ (drains /\ Head(queue).armed))
       /\ UNCHANGED <<armed, cliVars, accepted>>
       /\ IF (drains /\ ~encoded) \/ (begins /\ active)
            THEN /\ SessionFail
                 /\ queue' = queue1 /\ lost' = (lost /\ ~policy)
                 /\ UNCHANGED <<pending, last_armed, stop_requested, end_created, ring,
                                header_hz, patch_done, fileVars, noted>>
            ELSE /\ pc' = "loop"
                 /\ sphase' = IF drained /\ ~patches THEN "CLOSING" ELSE sphase1
                 /\ stop_requested' = stop1 /\ end_created' = end1
                 /\ active' = (begins \/ (active /\ ~stops))
                 /\ queue' = IF begins THEN <<>> ELSE queue1
                 /\ pending' = IF begins THEN {} ELSE pending
                 /\ last_armed' = IF begins THEN "none" ELSE last_armed
                 /\ noted' = IF begins THEN {} ELSE noted
                 /\ lost' = (lost /\ ~policy /\ ~begins)
                 /\ ring' = IF full THEN SubSeq(ring2, SectorLen + 1, Len(ring2))
                            ELSE IF final THEN <<>> ELSE ring2
                 /\ patch_done' = (patch_done \/ patches)
                 /\ header_hz' = IF patches THEN hz1 ELSE header_hz
                 /\ CASE full    -> File!Write(SubSeq(ring2, 1, SectorLen), FALSE)
                      [] final   -> File!Write(ring2, TRUE)
                      [] patches -> File!Rewrite(SubSeq(Header(hz1), 1, SectorLen))
                      [] drained /\ ~patches -> File!Close
                      [] OTHER   -> UNCHANGED fileVars

-----------------------------------------------------------------------------
ControlLoop == \/ Fly
               \/ \E a \in BOOLEAN, outcome \in {"skip", "invalid", "due", "clock"} :
                     Observe(a, outcome)

Commands == CliStart \/ CliStop \/ \E ok \in BOOLEAN : CardReady(ok)

Poll == \/ \E limit \in BOOLEAN : PollBegin(limit)
        \/ FilePoll
        \/ \E window, breach, encoded \in BOOLEAN : SessionStep(window, breach, encoded)

Next == ControlLoop \/ Commands \/ Poll \/ PollTimeout

Spec == Init /\ [][Next]_vars

\* A transfer that does not end by itself times out after three seconds.
FileProgress == FilePoll /\ fileVars' # fileVars

\* The background polls the session between control loops.
FairSpec == Spec /\ WF_vars(Poll) /\ SF_vars(FileProgress)

-----------------------------------------------------------------------------
(* Properties.                                                             *)

Ids(samples) == [i \in 1 .. Len(samples) |-> Frame(samples[i].id)]
Closing == IF end_created THEN <<EndUnit>> ELSE <<>>

\* The type invariant.
TypeOK ==
    /\ pc \in {"loop", "file", "session"} /\ armed \in BOOLEAN
    /\ active \in BOOLEAN /\ Len(queue) <= Queue /\ pending \subseteq Event
    /\ last_armed \in {"none", "yes", "no"}
    /\ init \in BOOLEAN /\ init_stop \in BOOLEAN
    /\ sphase \in Phase /\ stop_requested \in BOOLEAN /\ end_created \in BOOLEAN
    /\ seen_armed \in BOOLEAN /\ Len(ring) <= Ring
    /\ hz \in FloorHz .. Rate /\ header_hz \in FloorHz .. Rate
    /\ patch_done \in BOOLEAN /\ settle \in 0 .. 1 /\ lost \in BOOLEAN
    /\ phase \in File!Phase /\ op \in {"none", "append", "patch"} /\ short \in BOOLEAN
    /\ noted \subseteq Event

\* Every accepted sample is in exactly one place and in its order: file, sector
\* on its way, ring, FIFO; the header is first and the end marker last.  An arm
\* or disarm seen by the observer reaches the log or still waits for a sample,
\* through decimation, invalid samples and a full FIFO.
NothingLost ==
    /\ active => noted = pending \cup UNION {accepted[i].events : i \in 1 .. Len(accepted)}
    /\ busy =>
        LET stream == FlattenSeq(content) \o (IF op = "append" THEN pend ELSE <<>>) \o ring
        IN Tail(stream) \o Ids(queue) =
             Tail(Header(Rate)) \o Ids(accepted) \o Closing

\* A session that reports done has left the whole recording on the card, under
\* a header that states the rate it ended with.
WholeLog ==
    sphase = "DONE" /\ phase = "DONE" =>
        FlattenSeq(content) = Header(hz) \o Ids(accepted) \o <<EndUnit>>

\* Once a stop was asked for, by command, disarm or limit, the session ends.
StopEnds == (busy /\ stop_requested) ~> ~busy
=============================================================================
