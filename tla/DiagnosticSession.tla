-------------------------- MODULE DiagnosticSession --------------------------
(***************************************************************************)
(* The F405 diagnostic console's serial session                            *)
(* (flasher/diagnostic-console-session.ts): a picker, an open and a DTR    *)
(* signal that are awaited one after the other, a read loop, at most one   *)
(* write, an identity timer, and a close that may come at any moment and   *)
(* has to wait for all of them.                                            *)
(***************************************************************************)
EXTENDS Naturals

CONSTANT MaxPortFaults   \* bound: failing opens, signals and closes
ASSUME SessionAssumption == MaxPortFaults \in Nat

VARIABLES
  sess,      \* state: disconnected, selecting, opening, verifying, connected, closing
  await,     \* what openConnection awaits: none, pick, open, signals
  hold,      \* the port object: none, held (not open), open
  cancel,    \* cancelPending
  verified,  \* the banner has been seen
  reading,   \* the read loop runs
  writing,   \* a command is being written
  timer,     \* the identity timer is armed
  closing,   \* closingPromise is set
  portFaults

sessVars == <<sess, await, hold, cancel, verified, reading, writing, timer, closing, portFaults>>

SessInit ==
  /\ sess = "disconnected" /\ await = "none" /\ hold = "none" /\ cancel = FALSE
  /\ verified = FALSE /\ reading = FALSE /\ writing = FALSE /\ timer = FALSE
  /\ closing = FALSE /\ portFaults = 0

Active == sess # "disconnected"

\* connect / openConnection, up to the picker
Connect ==
  /\ sess = "disconnected" /\ sess' = "selecting" /\ await' = "pick"
  /\ cancel' = FALSE /\ verified' = FALSE
  /\ UNCHANGED <<hold, reading, writing, timer, closing, portFaults>>

\* openConnection gave up: connect() closes if a close came in meanwhile.
Abandon(h) ==
  /\ await' = "none" /\ hold' = h
  /\ sess' = IF cancel THEN sess ELSE IF h = "open" THEN "closing" ELSE "disconnected"

\* cleanupPort leaves the port at h: DTR off and close; a close that fails leaves it
\* open.
CleanUp(h) ==
  \/ h = "none" /\ UNCHANGED portFaults
  \/ /\ h = "open" /\ hold = "open"
     /\ portFaults < MaxPortFaults /\ portFaults' = portFaults + 1

\* The picker: dismissed or a wrong device, or a port.
Picked ==
  /\ await = "pick"
  /\ \/ Abandon("none")
     \/ /\ ~cancel /\ sess' = "opening" /\ await' = "open" /\ hold' = "held"
  /\ UNCHANGED <<cancel, verified, reading, writing, timer, closing, portFaults>>

Opened ==
  /\ await = "open"
  /\ \/ hold' = "open" /\ await' = "signals" /\ UNCHANGED <<sess, portFaults>>
     \/ portFaults < MaxPortFaults /\ portFaults' = portFaults + 1 /\ Abandon("none")
  /\ UNCHANGED <<cancel, verified, reading, writing, timer, closing>>

\* setSignals, the stream check, then verifying with timer and read loop; a session
\* cancelled meanwhile is cleaned up instead.
Signalled ==
  /\ await = "signals"
  /\ \/ /\ ~cancel /\ sess' = "verifying" /\ await' = "none" /\ reading' = TRUE
        /\ timer' = TRUE /\ UNCHANGED <<hold, portFaults>>
     \* cancelled meanwhile, or DTR refused
     \/ \E h \in {"none", "open"} : CleanUp(h) /\ Abandon(h) /\ UNCHANGED <<reading, timer>>
  /\ UNCHANGED <<cancel, verified, writing, closing>>

\* appendOutput finds the banner in its scan window.
Banner ==
  /\ reading /\ ~verified /\ ~cancel /\ sess = "verifying"
  /\ verified' = TRUE /\ timer' = FALSE /\ sess' = "connected"
  /\ UNCHANGED <<await, hold, cancel, reading, writing, closing, portFaults>>

SendCommand ==
  /\ sess = "connected" /\ verified /\ ~writing /\ writing' = TRUE
  /\ UNCHANGED <<sess, await, hold, cancel, verified, reading, timer, closing, portFaults>>
WriteEnds ==
  /\ writing /\ writing' = FALSE
  /\ UNCHANGED <<sess, await, hold, cancel, verified, reading, timer, closing, portFaults>>

\* close(): ownership is given up only by finishClose.
Close ==
  /\ sess # "disconnected" /\ ~closing
  /\ cancel' = TRUE /\ verified' = FALSE /\ sess' = "closing" /\ timer' = FALSE
  /\ closing' = TRUE /\ UNCHANGED <<await, hold, reading, writing, portFaults>>

IdentityTimeout == timer /\ ~verified /\ sess = "verifying" /\ Close

\* The stream ends or throws: the loop releases its lock and closes the session.
ReadEnds ==
  /\ reading /\ reading' = FALSE
  /\ IF sess \notin {"closing", "disconnected"}
     THEN /\ cancel' = TRUE /\ verified' = FALSE /\ sess' = "closing" /\ timer' = FALSE
          /\ closing' = TRUE
     ELSE UNCHANGED <<cancel, verified, sess, timer, closing>>
  /\ UNCHANGED <<await, hold, writing, portFaults>>

\* A mutant: the close does not wait for a picker or an open.
WaitedReader == ~reading /\ ~writing
Waited == await = "none" /\ ~reading /\ ~writing

\* finishClose: the opening, the read loop (cancelled) and the write have ended.
Closed(h) == hold' = h /\ sess' = IF h = "none" THEN "disconnected" ELSE sess
FinishClose ==
  /\ closing /\ Waited /\ closing' = FALSE
  /\ \E h \in {"none", "open"} : CleanUp(h) /\ Closed(h)
  /\ UNCHANGED <<await, cancel, verified, reading, writing, timer>>

SessSteps == Picked \/ Opened \/ Signalled \/ ReadEnds \/ WriteEnds \/ FinishClose \/ IdentityTimeout
SessNext == SessSteps \/ Banner \/ SendCommand

\* A session that reports disconnected has no port, no reader and no write left that
\* could still touch the controller, so the page may hand the USB device on.
Released ==
  sess = "disconnected" => hold = "none" /\ await = "none" /\ ~reading /\ ~writing /\ ~timer
=============================================================================
