------------------------------ MODULE PageHost ------------------------------
(***************************************************************************)
(* What every page of the configurator stands on: the host's command gate  *)
(* as a page sees it, and the page's own requests.  Everything the browser *)
(* holds is one record, and an operation of a page maps it to its next     *)
(* value.                                                                  *)
(*                                                                         *)
(* A job is one async function of a page: the lines it has still to send,  *)
(* the answers it has, and whether its page still wants it.  Between two   *)
(* of its lines anything may happen.  The gate itself (sessions, the line  *)
(* client, its refusals) is the subject of CommandGate; here it is the     *)
(* order in which the lines of several jobs reach the controller.          *)
(***************************************************************************)
EXTENDS DemoController, Sequences, FiniteSets

CONSTANTS
    NoJob,    \* no job
    Limit     \* GATE_QUEUE_LIMIT

Unknown == 9  \* a value the page does not have

\* mine: the job's generation, epoch or signal is still the current one.
\* here: the page instance that started it is still mounted.
\* late: a bench action's request has waited past STATUS_MAX_AGE_MS.
\* alone: no other job has written filter settings since this one began.
Job(who, todo) == [who |-> who, todo |-> todo, got |-> <<>>, mine |-> TRUE, here |-> TRUE,
                   late |-> FALSE, alone |-> TRUE]

Answer(kind, val) == [kind |-> kind, val |-> val]
NotSent == Answer("notsent", 0)   \* isGateNotSent(): refused, timed out in the queue, cancelled
Failed  == Answer("error", 0)     \* the client's timeout or a lost port

Last(j)    == j.got[Len(j.got)]
Nth(j, i)  == IF i <= Len(j.got) THEN j.got[i] ELSE NotSent
Ended(j)   == j.todo = <<>>
\* getSetting(): the value of answer i, when it is one
Val(j, i)  == IF Nth(j, i).kind = "value" THEN Nth(j, i).val ELSE Unknown
\* setSetting(): the controller took the value
SetAccepted(a) == a.kind = "ok"
\* parseStatus(): a status reply tells whether the controller is armed
StatusRead(a) == a.kind \in {"armed", "disarmed"}

\* the client's other requests
getVersion      == Read("version")
\* getAllSettings(): of every value read, the one its page is about
getAllSettings(k) == Get(k)
restoreDefaults == <<Line("defaults", "", 0, "write"), Held(getAllSettings("lpf"))>>

-----------------------------------------------------------------------------
(* The gate.                                                               *)

\* commandGateOptions(): Stop goes first, then the next line of a request that holds the gate,
\* then writes, then reads.
CmdRank(c) == CASE c = "urgent" -> 0 [] c = "held" -> 1 [] c = "write" -> 2 [] OTHER -> 3
JobRank(j) == CmdRank(Head(j.todo).cls)

Waits(w)   == {w.queue[i] : i \in 1 .. Len(w.queue)}
InGate(w)  == Waits(w) \cup (IF w.wire = NoJob THEN {} ELSE {w.wire})
Full(w)    == w.wire # NoJob /\ Cardinality({i \in 1 .. Len(w.queue) : JobRank(w.queue[i]) > 0}) >= Limit
WireLine(w, op) == w.wire # NoJob /\ Head(w.wire.todo).op = op

\* sendCommand() and the settings calls: at once on a free gate, else after what ranks as high.
Enter(w, j) ==
  IF w.wire = NoJob THEN [w EXCEPT !.wire = j]
  ELSE LET n == Cardinality({i \in 1 .. Len(w.queue) : JobRank(w.queue[i]) <= JobRank(j)})
       IN [w EXCEPT !.queue = SubSeq(@, 1, n) \o <<j>> \o SubSeq(@, n + 1, Len(@))]

\* settle() and pump(): the reply is in, the next waiting job goes on the wire.
Pumped(w) == IF w.queue = <<>> THEN [w EXCEPT !.wire = NoJob]
             ELSE [w EXCEPT !.wire = Head(w.queue), !.queue = Tail(w.queue)]

\* An aborted signal takes a page's waiting jobs out of the queue.  A started sequence holds the
\* gate and is past it.
CancelQueued(w, names) ==
  LET Stays(j) == j.who \notin names \/ ~j.here \/ Head(j.todo).cls = "held"
      kept[i \in 0 .. Len(w.queue)] ==
        IF i = 0 THEN <<>> ELSE IF Stays(w.queue[i]) THEN Append(kept[i - 1], w.queue[i]) ELSE kept[i - 1]
  IN [w EXCEPT !.queue = kept[Len(w.queue)]]

\* a change to every job, waiting, on the wire or put off
EachJob(w, F(_)) ==
  [w EXCEPT !.queue = [i \in 1 .. Len(w.queue) |-> F(w.queue[i])],
            !.wire = IF w.wire = NoJob THEN NoJob ELSE F(w.wire),
            !.next = IF w.next = NoJob THEN NoJob ELSE F(w.next)]
\* generation++, epoch++ or abort(): the jobs of these names are no longer wanted
Forget(w, names) == EachJob(w, LAMBDA j : IF j.who \in names /\ j.here THEN [j EXCEPT !.mine = FALSE] ELSE j)
\* the page that started them is gone
Orphan(w) == EachJob(w, LAMBDA j : [j EXCEPT !.mine = FALSE, !.here = FALSE])

\* a mounted page has a job of one of these names under way
Busy(w, names) == \E j \in InGate(w) : j.who \in names /\ j.here
Wanted(w, names) == \E j \in InGate(w) : j.who \in names /\ j.mine

\* An action that must not overlap the page's poll is put off until that has ended.
StartAfter(w, j, names) == IF Busy(w, names) THEN [w EXCEPT !.next = j] ELSE Enter(w, j)
\* ... and starts now, if it is still wanted.
StartNext(w) == IF w.next = NoJob THEN w
                ELSE IF w.next.mine THEN Enter([w EXCEPT !.next = NoJob], w.next)
                ELSE [w EXCEPT !.next = NoJob]
=============================================================================
