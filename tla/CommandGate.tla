---------------------------- MODULE CommandGate ----------------------------
(***************************************************************************)
(* The one path from the configurator's pages to the controller's CLI:     *)
(* the priority FIFO (ui/src/protocol/commandGate.ts), the host adapter    *)
(* that numbers USB sessions and drains the queue (createHost.ts) and the  *)
(* line client below it (protocol/src/client.ts, cli-framing.ts).          *)
(*                                                                         *)
(* The page runs in one thread.  A promise continuation (microtask) runs   *)
(* before the next event, so an event (click, timer, serial data, port     *)
(* event) is taken only when no continuation is pending: Quiet.  Whatever  *)
(* bytes settle the client's collector are one Reply here, a late answer   *)
(* to an earlier line included.                                            *)
(***************************************************************************)
EXTENDS Naturals, Sequences, SequencesExt

CONSTANTS
    Req,         \* the callers' requests; a settled one can be made again
    None,        \* no request
    Limit,       \* GATE_QUEUE_LIMIT
    Lines,       \* the most lines of a compound request
    MaxSession   \* bound: USB session changes explored

ASSUME GateAssumption ==
    /\ None \notin Req
    /\ Limit \in Nat \ {0} /\ Lines \in Nat \ {0} /\ MaxSession \in Nat

VARIABLES
    link,       \* "connected", "error", "closing" (port dropped, status not yet
                \* changed) or "down"
    session,    \* sessionGeneration
    collector,  \* the request whose line is on the wire, as the client sees it
    queue,      \* CommandGate.queue
    current,    \* CommandGate.current (running is current # None)
    guest,      \* the urgent request that runs inside current's yieldToUrgent
    left,       \* lines current has still to send
    phase,      \* "idle"; "ready": a continuation will send the next line;
                \* "wire": a reply is awaited
    st,         \* where each request stands: "idle" before it is made and once its
                \* work resolved or threw, "refused" once the gate rejected it
    cls,        \* its class
    gen,        \* its generation
    lines,      \* its number of lines
    \* history
    wrote,      \* requests that have written a line
    older       \* for each request, those of its class queued before it

linkVars == <<link, session>>
gateVars == <<queue, current, guest, left, phase, st>>
reqVars  == <<cls, gen, lines>>
histVars == <<wrote, older>>
vars     == <<linkVars, collector, gateVars, reqVars, histVars>>

Class == {"urgent", "write", "normal", "start"}
\* RANK; a motor start has the normal rank
Rank(c) == IF c = "urgent" THEN 0 ELSE IF c = "write" THEN 1 ELSE 2

Quiet  == phase # "ready"
Queued == {r \in Req : st[r] = "queued"}

-----------------------------------------------------------------------------
(* Queue operations.                                                       *)

\* Stable insert: before the first waiting request of a lower class.
Insert(q, r, c) ==
    LET i == SelectInSeq(q, LAMBDA x : Rank(cls[x]) > Rank(c))
    IN InsertAt(q, IF i = 0 THEN Len(q) + 1 ELSE i, r)

\* pump() on a free gate with queue q and outcomes s: requests of an earlier
\* session are shifted off and rejected, the first of this one is dispatched on
\* a microtask.  g and n are the generations and line counts after the step.
Pump(q, s, g, n) ==
    \E i \in {SelectInSeq(q, LAMBDA x : g[x] = session')} :
    LET taken == IF i = 0 THEN Len(q) ELSE i
        first == IF i = 0 THEN None ELSE q[i]
        dead  == {q[j] : j \in 1 .. taken} \ {first}
    IN /\ queue' = SubSeq(q, taken + 1, Len(q))
       /\ current' = first /\ guest' = None
       /\ left' = IF first = None THEN 0 ELSE n[first]
       /\ phase' = IF first = None THEN "idle" ELSE "ready"
       /\ st' = [r \in Req |-> IF r \in dead THEN "refused"
                               ELSE IF r = first THEN "running" ELSE s[r]]

\* Mutant: the gate frees and nobody takes the next request.
SettleOnly(q, s) == /\ queue' = q /\ current' = None /\ guest' = None
                    /\ left' = 0 /\ phase' = "idle"
                    /\ st' = [s EXCEPT ![current] = "idle"]

\* settle(): the owner is done, the gate frees and takes the next request.
Settle(q, s) == Pump(q, [s EXCEPT ![current] = "idle"], gen, lines)

Drained(s) == [r \in Req |-> IF s[r] = "queued" THEN "refused" ELSE s[r]]

-----------------------------------------------------------------------------
Init == /\ link = "down" /\ session = 0 /\ collector = None
        /\ queue = <<>> /\ current = None /\ guest = None /\ left = 0 /\ phase = "idle"
        /\ st = [r \in Req |-> "idle"] /\ cls = [r \in Req |-> "normal"]
        /\ gen = [r \in Req |-> 0] /\ lines = [r \in Req |-> 1]
        /\ wrote = {} /\ older = [r \in Req |-> {}]

\* run()'s refusals: a motor start on a busy gate, and the bound.
Refuses(c) == /\ current # None \/ queue # <<>>
              /\ \/ c = "start"
                 \/ /\ c # "urgent"
                    /\ Cardinality({r \in Queued : cls[r] # "urgent"}) >= Limit

\* run(): a page makes a request of class c with n lines.
Run(r, c, n) ==
    /\ Quiet /\ st[r] \notin {"queued", "running"}
    /\ c \in {"urgent", "start"} => n = 1
    /\ cls' = [cls EXCEPT ![r] = c] /\ lines' = [lines EXCEPT ![r] = n]
    /\ gen' = [gen EXCEPT ![r] = session]
    /\ wrote' = wrote \ {r}
    /\ older' = [x \in Req |-> IF x = r THEN {q \in Queued : cls[q] = c}
                                        ELSE older[x] \ {r}]
    /\ UNCHANGED <<linkVars, collector>>
    /\ IF Refuses(c)
         THEN /\ st' = [st EXCEPT ![r] = "refused"]
              /\ UNCHANGED <<queue, current, guest, left, phase>>
         ELSE LET q == Insert(queue, r, c)
                  s == [st EXCEPT ![r] = "queued"]
              IN IF current = None
                   THEN Pump(q, s, gen', lines')
                   ELSE /\ queue' = q /\ st' = s
                        /\ UNCHANGED <<current, guest, left, phase>>

\* remove() and the rejection.
DropQueued(r) == /\ queue' = RemoveFirst(queue, r)
                 /\ st' = [st EXCEPT ![r] = "refused"]
                 /\ UNCHANGED <<current, guest, left, phase>>

\* The timer of a waiting request that is not urgent.
QueueTimeout(r) == /\ Quiet /\ st[r] = "queued" /\ cls[r] # "urgent"
                   /\ DropQueued(r)
                   /\ UNCHANGED <<linkVars, collector, reqVars, wrote, older>>

\* The caller's AbortSignal.
Abort(r) == /\ Quiet /\ st[r] = "queued"
            /\ DropQueued(r)
            /\ UNCHANGED <<linkVars, collector, reqVars, wrote, older>>

-----------------------------------------------------------------------------
(* Continuations: the owner sends its next line, urgent requests first.    *)

\* sendRaw()'s checks
CanSend == link = "connected" /\ collector = None

\* Mutant: a compound request never yields.
YieldsNever == FALSE

\* The owner awaits yieldToUrgent() before a line, and an urgent request heads
\* the queue.
Yields == lines[current] > 1 /\ queue # <<>> /\ cls[Head(queue)] = "urgent"

\* One turn of yieldToUrgent()'s loop.
YieldToUrgent ==
    LET u == Head(queue) IN
    /\ phase = "ready" /\ Yields
    /\ queue' = Tail(queue)
    /\ UNCHANGED <<linkVars, current, left, reqVars, older>>
    /\ IF gen[u] = session /\ CanSend
         THEN /\ guest' = u /\ collector' = u /\ phase' = "wire"
              /\ st' = [st EXCEPT ![u] = "running"] /\ wrote' = wrote \cup {u}
         ELSE /\ st' = [st EXCEPT ![u] = IF gen[u] = session THEN "idle" ELSE "refused"]
              /\ UNCHANGED <<guest, collector, phase, wrote>>

\* The owner's next line goes on the wire, or sendRaw() throws.
SendLine ==
    /\ phase = "ready" /\ ~Yields
    /\ UNCHANGED <<linkVars, reqVars, older>>
    /\ IF CanSend
         THEN /\ collector' = current /\ phase' = "wire" /\ left' = left - 1
              /\ wrote' = wrote \cup {current}
              /\ UNCHANGED <<queue, current, guest, st>>
         ELSE Settle(queue, st) /\ UNCHANGED <<collector, wrote>>

-----------------------------------------------------------------------------
(* The client's events.                                                    *)

\* The line on the wire is over: a guest returns to the owner's loop; an owner
\* goes on, or settles.
LineOver(ok) ==
    IF guest # None
      THEN /\ st' = [st EXCEPT ![guest] = "idle"]
           /\ guest' = None /\ phase' = "ready"
           /\ UNCHANGED <<queue, current, left>>
      ELSE IF ok /\ left > 0
             THEN phase' = "ready" /\ UNCHANGED <<queue, current, guest, left, st>>
             ELSE Settle(queue, st)

\* The collector has its end marker or its idle gap; ok: the work accepts it.
Reply(ok) == /\ Quiet /\ collector # None
             /\ collector' = None /\ UNCHANGED linkVars
             /\ LineOver(ok)
             /\ UNCHANGED <<reqVars, wrote, older>>

\* The collector's hard timer.  A framed line (or save) drops the port at once.
Timeout(framed) ==
    /\ Quiet /\ collector # None
    /\ collector' = None
    /\ link' = IF framed /\ link # "closing" THEN "closing" ELSE link
    /\ UNCHANGED session
    /\ LineOver(FALSE)
    /\ UNCHANGED <<reqVars, wrote, older>>

\* A status change other than to "connected": sessionGeneration++ and drain().
Drain == /\ session' = session + 1
         /\ queue' = <<>>

\* The port reports an error; the line on the wire keeps its collector.
PortError ==
    /\ Quiet /\ link = "connected" /\ session < MaxSession
    /\ link' = "error"
    /\ Drain
    /\ st' = Drained(st)
    /\ UNCHANGED <<collector, current, guest, left, phase, reqVars, wrote, older>>

\* What cancelling the collector leaves: the guest's or the owner's line fails.
\* A guest's owner goes on and finds the port gone.
Cancelled(q, s) ==
    IF collector = None
      THEN queue' = q /\ st' = s /\ UNCHANGED <<current, guest, left, phase>>
      ELSE IF guest # None
             THEN /\ queue' = q /\ st' = [s EXCEPT ![guest] = "idle"]
                  /\ guest' = None /\ phase' = "ready"
                  /\ UNCHANGED <<current, left>>
             ELSE Settle(q, s)

\* The port closed by itself: onPortClosed().
PortClosed ==
    /\ Quiet /\ link \in {"connected", "error"} /\ session < MaxSession
    /\ link' = "down" /\ session' = session + 1
    /\ collector' = None
    /\ Cancelled(<<>>, Drained(st))
    /\ UNCHANGED <<reqVars, wrote, older>>

\* Mutant: disconnect() forgets the collector's command.
DisconnectKeeps ==
    /\ Quiet /\ link \in {"connected", "error"}
    /\ link' = "closing" /\ UNCHANGED session
    /\ UNCHANGED <<collector, gateVars, reqVars, wrote, older>>

\* Mutant: disconnect() cancels the collector and keeps the reference.
DisconnectLeaks ==
    /\ Quiet /\ link \in {"connected", "error"}
    /\ link' = "closing" /\ UNCHANGED <<session, collector>>
    /\ Cancelled(queue, st)
    /\ UNCHANGED <<reqVars, wrote, older>>

\* disconnect() up to its await: the collector is cancelled, the port dropped.
Disconnect ==
    /\ Quiet /\ link \in {"connected", "error"}
    /\ link' = "closing" /\ UNCHANGED session
    /\ collector' = None
    /\ Cancelled(queue, st)
    /\ UNCHANGED <<reqVars, wrote, older>>

\* The rest of disconnect(): status "disconnected".
CloseDone ==
    /\ Quiet /\ link = "closing" /\ session < MaxSession
    /\ link' = "down"
    /\ Drain
    /\ st' = Drained(st)
    /\ UNCHANGED <<collector, current, guest, left, phase, reqVars, wrote, older>>

\* connect() succeeds: the status listener numbers the session, nothing drains.
Connect ==
    /\ Quiet /\ link = "down" /\ session < MaxSession
    /\ link' = "connected" /\ session' = session + 1
    /\ UNCHANGED <<collector, gateVars, reqVars, wrote, older>>

-----------------------------------------------------------------------------
Continue == YieldToUrgent \/ SendLine

LineEnds == \/ \E ok \in BOOLEAN : Reply(ok)
            \/ \E framed \in BOOLEAN : Timeout(framed)

Ports == PortError \/ PortClosed \/ Disconnect \/ CloseDone \/ Connect

Page == \E r \in Req : \/ \E c \in Class, n \in 1 .. Lines : Run(r, c, n)
                       \/ QueueTimeout(r) \/ Abort(r)

Next == Continue \/ LineEnds \/ Ports \/ Page

Spec == Init /\ [][Next]_vars

\* Microtasks run, and the collector's hard timer ends every line.
Fairness == WF_vars(Continue) /\ WF_vars(LineEnds)

FairSpec == Spec /\ Fairness

-----------------------------------------------------------------------------
(* Properties.                                                             *)

\* The type invariant.
TypeOK ==
    /\ link \in {"connected", "error", "closing", "down"}
    /\ session \in 0 .. MaxSession /\ collector \in Req \cup {None}
    /\ queue \in Seq(Req) /\ current \in Req \cup {None} /\ guest \in Req \cup {None}
    /\ left \in 0 .. Lines /\ phase \in {"idle", "ready", "wire"}
    /\ st \in [Req -> {"idle", "queued", "running", "refused"}]
    /\ cls \in [Req -> Class] /\ gen \in [Req -> 0 .. MaxSession]
    /\ lines \in [Req -> 1 .. Lines]
    /\ wrote \subseteq Req /\ older \in [Req -> SUBSET Req]

\* The gate keeps the client's rule: no continuation ever finds another command
\* in flight, through yields, timeouts and dropped ports; and a request the gate
\* rejected has put nothing on the wire.
NoCollision == /\ phase = "ready" => collector = None
               /\ \A r \in Req : st[r] = "refused" => r \notin wrote

Writes(r) == r = collector' /\ (collector # r \/ phase = "ready") /\ phase' = "wire"

\* No request is sent in a USB session other than the one it was made in,
\* the later lines of a compound request included.
NoCrossSession == [][\A r \in Req : Writes(r) => gen[r] = session]_vars

\* Stop goes on the wire right after the line now on it: no other line is
\* written while an urgent request waits.  And a save never overtakes the write
\* made before it: within a class requests are dispatched in the order they
\* were made.
WireOrder ==
    [][\A r \in Req :
         /\ Writes(r) /\ cls[r] # "urgent" => ~\E u \in Queued : cls[u] = "urgent"
         /\ st[r] = "queued" /\ st'[r] = "running" => older[r] \cap Queued = {}]_vars

\* A waiting Stop is sent or rejected, however long the page keeps clicking.
StopSettles == \A r \in Req : (st[r] = "queued" /\ cls[r] = "urgent") ~> st[r] # "queued"
=============================================================================
