--------------------------- MODULE HostConnection ---------------------------
(***************************************************************************)
(* How the configurator's one link to a controller comes and goes: the     *)
(* client (protocol/client.ts) over Web Serial or the demo port, the host  *)
(* adapter (createHost.ts), the pages that connect and disconnect it, and  *)
(* the shared hook (useHost.tsx) whose polls open the lock that a flash    *)
(* leaves behind.                                                          *)
(*                                                                         *)
(* Opening and closing a USB port take time, and a page that is left does  *)
(* not wait for them: several connects may be under way.  Opening or       *)
(* closing the demo port takes no event, so it happens within a step.      *)
(* Every change of the status starts a new generation: a poll remembers    *)
(* whether the ones it captured still stand.                               *)
(***************************************************************************)
EXTENDS Naturals, FiniteSets

CONSTANTS
  Usb,        \* USB controllers: [live |-> TRUE, board |-> b]
  Mock,       \* the demo port: [live |-> FALSE, board |-> b]
  NoOne,      \* no port, no board
  MaxOps,     \* bound: connects and disconnects under way
  MaxPolls,   \* bound: polls under way
  MaxEvents   \* bound: clicks, failures and flashes explored

Ports == Usb \cup {Mock}
Boards == {p.board : p \in Usb}

\* No firmware is built for the board the demo names (mock-serial.ts: "mock-board").
ASSUME ConnectionAssumption ==
  /\ \A p \in Usb : p.live
  /\ ~Mock.live /\ NoOne \notin Ports /\ NoOne \notin Boards /\ Mock.board \notin Boards

VARIABLES
  status,   \* the client's: disconnected, connecting, connected, error
  port,     \* the client's port
  open,     \* the ports open, with the client's handlers attached unless closing
  ops,      \* connects and disconnects under way
  live,     \* isLiveTransport
  polls,    \* polls of the hook under way
  granted,  \* USB ports the user granted: the Connect page lists them
  gate,     \* board expected after a flash, NoOne when unlocked
  events    \* bounded by MaxEvents

linkVars == <<status, port, open, ops, live>>
connectionVars == <<linkVars, polls, granted, gate, events>>

ConnectionInit ==
  /\ status = "disconnected" /\ port = NoOne /\ open = {} /\ ops = {} /\ live = FALSE
  /\ polls = {} /\ granted = {} /\ gate = NoOne /\ events = 0

Event == events < MaxEvents /\ events' = events + 1

-----------------------------------------------------------------------------
(* Status events and what they end.                                        *)

\* A command waiting in the gate does not survive a status event; the one on the
\* wire does, unless disconnect() or the closed port cancels it.
StatusEvent(happens) ==
  polls' = IF happens THEN {[p EXCEPT !.conn = FALSE] : p \in {q \in polls : q.sent # NoOne}}
           ELSE polls
CancelCollector == polls' = {}

Moves(s) == status' = s /\ live' = (live /\ s = "connected")

\* Only the last attempt may declare the transport live.
Outdated == {[o EXCEPT !.mine = FALSE] : o \in ops}

Op(by, to) ==
  [by |-> by, to |-> to, at |-> "closing", dev |-> NoOne, mine |-> TRUE, owns |-> by = "page"]

-----------------------------------------------------------------------------
(* connect() and disconnect().                                             *)

\* connect() once nothing is left to close; others are the calls under way.
Opens(op, others) ==
  IF op.to = Mock
  THEN /\ Moves("connected") /\ port' = Mock
       /\ open' = (open \ {op.dev}) \cup {Mock}
       /\ ops' = others \cup {[op EXCEPT !.at = "banner", !.dev = NoOne]}
  ELSE /\ Moves("connecting") /\ port' = IF port = Mock THEN NoOne ELSE port
       /\ open' = open \ ({op.dev} \cup ({port} \cap {Mock}))
       /\ ops' = others \cup {[op EXCEPT !.at = IF op.to \in open' THEN "refused" ELSE "opening",
                                       !.dev = NoOne]}

\* disconnect() up to its await: an attached USB port starts to close.
StartsClosing(op) ==
  /\ port' = NoOne /\ ops' = Outdated \cup {[op EXCEPT !.dev = port]}
  /\ live' = FALSE /\ CancelCollector
  /\ UNCHANGED <<status, open>>

Connect(op) ==
  /\ Cardinality(ops) < MaxOps
  /\ IF port \in Usb THEN StartsClosing(op)
     ELSE /\ Opens(op, Outdated)
          /\ IF port = Mock THEN CancelCollector ELSE StatusEvent(TRUE)

Disconnect(op) ==
  IF port \in Usb
  THEN Cardinality(ops) < MaxOps /\ StartsClosing(op)
  ELSE /\ Moves("disconnected") /\ port' = NoOne /\ open' = open \ {port}
       /\ ops' = Outdated /\ CancelCollector

\* The port is closed: disconnect() ends, or connect() goes on.
CloseDone(op) ==
  /\ op.at = "closing"
  /\ IF op.by = "disconnect"
     THEN /\ Moves("disconnected") /\ StatusEvent(status # "disconnected")
          /\ open' = open \ {op.dev} /\ ops' = ops \ {op} /\ UNCHANGED port
     ELSE Opens(op, ops \ {op}) /\ StatusEvent(TRUE)
  /\ UNCHANGED <<granted, gate, events>>

\* close() throws: so does the call, and the status stays.
CloseFails(op) ==
  /\ op.at = "closing" /\ Event
  /\ open' = open \ {op.dev} /\ ops' = ops \ {op}
  /\ UNCHANGED <<status, port, live, polls, granted, gate>>

OpenDone(op) ==
  /\ op.at = "opening" /\ op.to \notin open
  /\ port' = op.to /\ open' = open \cup {op.to}
  /\ Moves("connected") /\ StatusEvent(status # "connected")
  /\ ops' = (ops \ {op}) \cup {[op EXCEPT !.at = "banner"]}
  /\ UNCHANGED <<granted, gate, events>>

\* The port was not closed, or the device fails.
OpenFails(op) ==
  /\ \/ op.at = "refused" /\ UNCHANGED events
     \/ op.at = "opening" /\ Event
  /\ port' = NoOne /\ Moves("error") /\ StatusEvent(status # "error")
  /\ ops' = ops \ {op} /\ UNCHANGED <<open, granted, gate>>

NewPoll(owns, confirms) ==
  [confirms |-> confirms, at |-> "version", sent |-> NoOne, version |-> NoOne, conn |-> TRUE, flash |-> TRUE,
   expect |-> gate, owns |-> owns]

\* Only the attempt that is still the last one declares its transport live.
Declares(op) == op.mine /\ op.to \in Usb /\ status = "connected"

\* connect() after the banner, or its two seconds; the demo port must have shown it.  The
\* Connect page then polls.
BannerEnds(op, seen) ==
  /\ op.at = "banner" /\ ops' = ops \ {op}
  /\ live' = (live \/ Declares(op))
  /\ IF op.by = "page" /\ status = "connected" /\ (seen \/ op.to # Mock)
     THEN Cardinality(polls) < MaxPolls /\ polls' = polls \cup {NewPoll(op.owns, FALSE)}
     ELSE UNCHANGED polls
  /\ UNCHANGED <<status, port, open, granted, gate, events>>

\* The port fails or is pulled out: the client hears of it from every port it attached.
PortError(p) ==
  /\ p \in open \cap Usb /\ ~\E o \in ops : o.dev = p
  /\ status # "error" /\ Event
  /\ Moves("error") /\ StatusEvent(TRUE)
  /\ UNCHANGED <<port, open, ops, granted, gate>>

-----------------------------------------------------------------------------
(* The pages.                                                              *)

Busy == (\E o \in ops : o.owns) \/ (\E p \in polls : p.owns)

\* requestPort() registers the port under a path of its own; enumeratePorts() lists the
\* registered ports and the demo port.
Grant(p) == granted' = granted \cup {p}
Listed == granted \cup {Mock}

RequestPort(p) ==
  /\ status # "connected" /\ ~Busy /\ p \notin granted /\ Grant(p)
  /\ UNCHANGED <<linkVars, polls, gate, events>>

ClickConnect(p) ==
  /\ status \notin {"connected", "connecting"} /\ ~Busy /\ p \in Listed /\ Event
  /\ Connect(Op("page", p)) /\ UNCHANGED <<granted, gate>>
ClickDisconnect ==
  /\ status = "connected" /\ ~Busy /\ Event
  /\ Disconnect([Op("disconnect", NoOne) EXCEPT !.owns = TRUE]) /\ UNCHANGED <<granted, gate>>

\* The Connect page is left and opened again: its new instance is not busy.
Remount ==
  /\ Busy /\ Event
  /\ ops' = {[o EXCEPT !.owns = FALSE] : o \in ops}
  /\ polls' = {[p EXCEPT !.owns = FALSE] : p \in polls}
  /\ UNCHANGED <<status, port, open, live, granted, gate>>

\* ensureMockConnected() of the PID and filter pages
EnsureMockConnected ==
  /\ status # "connected" /\ gate = NoOne /\ Event
  /\ Connect(Op("demo", Mock)) /\ UNCHANGED <<granted, gate>>

\* The CLI page sends a confirmed reboot: the demo port closes by itself.
Reboot ==
  /\ status = "connected" /\ port = Mock /\ gate = NoOne /\ Event
  /\ Moves("disconnected") /\ port' = NoOne /\ open' = open \ {Mock}
  /\ CancelCollector /\ UNCHANGED <<ops, granted, gate>>

\* A live flash begins: setPostFlashGate() only ever locks.
SetPostFlashGate(board) ==
  /\ status # "connected" /\ Event
  /\ gate' = board /\ polls' = {[p EXCEPT !.flash = FALSE] : p \in polls}
  /\ UNCHANGED <<linkVars, granted>>

-----------------------------------------------------------------------------
(* Polls of the hook.                                                      *)

\* The flasher page's button; it verifies once at a time.
MayConfirm == gate # NoOne /\ status = "connected" /\ ~\E p \in polls : p.confirms

\* clearPostFlashGateAfterReconnect()
ConfirmReconnect ==
  /\ MayConfirm /\ Cardinality(polls) < MaxPolls /\ Event
  /\ polls' = polls \cup {NewPoll(FALSE, TRUE)} /\ UNCHANGED <<linkVars, granted, gate>>

Becomes(p, q) == polls' = (polls \ {p}) \cup {q} /\ UNCHANGED <<linkVars, granted, gate, events>>
Ends(p) == polls' = polls \ {p} /\ UNCHANGED <<linkVars, granted, events>>

\* The gate lets one command at a time on the wire.
PollSends(p) ==
  /\ p.sent = NoOne /\ \A q \in polls : q.sent = NoOne
  /\ IF status = "connected" /\ port # NoOne
     THEN Becomes(p, [p EXCEPT !.sent = port])
     ELSE Ends(p) /\ UNCHANGED gate

PollVersion(p) ==
  /\ p.sent # NoOne /\ p.at = "version"
  /\ Becomes(p, [p EXCEPT !.at = "status", !.version = p.sent, !.sent = NoOne])

\* A mutant: the generations are not compared.
CurrentAny(p) == status = "connected"
Current(p) == p.conn /\ p.flash /\ status = "connected"

\* A mutant: the board is not compared.
CanUnlockAny(p) == live /\ p.expect # NoOne
\* canUnlockPostFlashGate, once the generations agree
CanUnlock(p) == live /\ p.expect # NoOne /\ p.sent.board = p.expect

PollStatus(p) ==
  /\ p.sent # NoOne /\ p.at = "status" /\ Ends(p)
  /\ gate' = IF Current(p) /\ CanUnlock(p) THEN NoOne ELSE gate

\* The command times out.
PollFails(p) == Ends(p) /\ UNCHANGED gate

-----------------------------------------------------------------------------
Operations == \E op \in ops :
  \/ CloseDone(op) \/ CloseFails(op) \/ OpenDone(op) \/ OpenFails(op)
  \/ \E seen \in BOOLEAN : BannerEnds(op, seen)

Polling == ConfirmReconnect \/ \E p \in polls :
  PollSends(p) \/ PollVersion(p) \/ PollStatus(p) \/ PollFails(p)

Pages == ClickDisconnect \/ Remount \/ EnsureMockConnected \/ Reboot \/ \E p \in Ports :
  ClickConnect(p) \/ PortError(p) \/ (p \in Usb /\ RequestPort(p))

ConnectionNext == Operations \/ Polling \/ Pages \/ \E b \in Boards : SetPostFlashGate(b)

ConnectionSpec == ConnectionInit /\ [][ConnectionNext]_connectionVars

-----------------------------------------------------------------------------
\* "Mock connection is never live": the host calls its connection live only while commands go
\* to a USB controller, however connects, disconnects and the demo link overtake each other.
MockNeverLive == live => port # Mock

\* The lock opens only by a poll that began after the last flash, and on a status line that
\* came from a live controller of the flashed board.
GateOpensVerified ==
  [][(gate # NoOne /\ gate' = NoOne) => \E p \in polls \ polls' :
       p.flash /\ p.expect = gate /\ p.sent.live /\ p.sent.board = gate]_connectionVars

Lock == INSTANCE FlashLock WITH link <- open
\* The hook implements the abstract lock: it opens only while a live controller that is the
\* board last flashed is attached.
LockKept == Lock!LockInit /\ [][Lock!LockNext(Boards)]_<<open, gate>>
=============================================================================
