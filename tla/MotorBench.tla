----------------------------- MODULE MotorBench -----------------------------
(***************************************************************************)
(* The motor test controls of the Motors page: BenchController, with the   *)
(* page's guards.  A test is a fresh status read, then the start line, and *)
(* everything that can withdraw it in between: Stop, hiding the page,      *)
(* leaving it, taking a confirmation back, the link.                       *)
(***************************************************************************)
EXTENDS PageHost

Flight == {"poll", "test", "setRate"}

\* arm: the arm state last read, or ""; fresh: it is younger than STATUS_MAX_AGE_MS; act, stopping:
\* actionPending and stopping; window: before estimatedUntil; motion: possibleMotion.
BenchInitial == [visible |-> TRUE, arm |-> "", fresh |-> FALSE, rate |-> Unknown, props |-> FALSE,
                 still |-> FALSE, act |-> FALSE, stopping |-> FALSE, window |-> FALSE, motion |-> FALSE]

Status == Line("status", "", 0, "normal")
PollLines == <<Status, Get("dshot"), Read("erpm")>>
TestLines == <<Status, Line("start", "", 0, "start")>>
StopLine == Line("stop", "", 0, "urgent")
\* what stop() leaves in the gate, wanted or not
StopJobs == [who : {"stop"}, todo : {<<StopLine>>}, got : {<<>>},
             mine : BOOLEAN, here : BOOLEAN, late : {FALSE}, alone : {TRUE}]
RateLines(v) == <<Status, Set("dshot", v), Get("dshot")>>

\* benchBlockReason(), for a status read now or not, with a given arm state
BenchReady(w, arm, fresh) ==
  /\ w.up /\ w.bench.visible
  /\ fresh /\ arm = "disarmed"
  /\ w.bench.props /\ ~w.bench.window /\ w.bench.still

storageBlocked(w) == w.bench.act \/ w.bench.stopping
\* the test and rate buttons
BenchEnabled(w) == BenchReady(w, w.bench.arm, w.bench.fresh) /\ ~storageBlocked(w)

ClearTicks(w) == [w EXCEPT !.bench.props = FALSE, !.bench.still = FALSE]
Invalidate(w) == Forget(w, Flight)      \* generation++
\* cancelQueued(); an action that waited for a poll dropped here has been invalidated before
DropReads(w) == LET v == CancelQueued(w, Flight)
                IN IF Busy(v, Flight) THEN v ELSE [v EXCEPT !.next = NoJob]

\* run(): an action waits for the poll's outstanding reply, which ends the poll.
BenchRun(w, j) == LET v == IF Busy(w, Flight) THEN Invalidate(w) ELSE w
                  IN StartAfter([v EXCEPT !.bench.act = TRUE], j, Flight)
CanPoll(w) == w.up /\ w.bench.visible /\ ~w.bench.stopping /\ ~Busy(w, Flight) /\ w.next = NoJob
BenchPoll(w) == IF CanPoll(w) /\ ~Full(w) THEN Enter(w, Job("poll", PollLines)) ELSE w

CanAct(w) == BenchEnabled(w) /\ w.next = NoJob
BenchTest(w)       == BenchRun(w, Job("test", TestLines))
BenchSetRate(w, v) == BenchRun(w, Job("setRate", RateLines(v)))

\* stop(): one stop at a time, urgent, and nothing of this page is sent after it.
BenchStop(w) ==
  LET v == Invalidate(w)
  IN IF w.bench.stopping \/ ~w.up THEN v
     ELSE Enter(DropReads([v EXCEPT !.bench.act = TRUE, !.bench.stopping = TRUE, !.bench.still = FALSE]),
                Job("stop", <<StopLine>>))

\* Mutant: taking the confirmation back does not withdraw the request.
ConfirmPropsKeeps(w, on) ==
  LET v == [w EXCEPT !.bench.props = on]
  IN IF on THEN v ELSE IF w.bench.motion THEN BenchStop(v) ELSE v

ConfirmProps(w, on) ==
  LET v == [w EXCEPT !.bench.props = on]
  IN IF on THEN v ELSE IF w.bench.motion THEN BenchStop(Invalidate(v)) ELSE Invalidate(v)

CanConfirmStationary(w) == w.up /\ ~storageBlocked(w) /\ ~w.bench.window
ConfirmStationary(w, on) == [w EXCEPT !.bench.still = on, !.bench.motion = @ /\ ~on]

\* setVisible()
BenchHide(w) == BenchStop(ClearTicks([w EXCEPT !.bench.visible = FALSE]))
BenchShow(w) == [w EXCEPT !.bench.visible = TRUE]

\* Mutant: leaving the page only drops what is queued.
BenchLeaveQuietly(w) == DropReads(Invalidate(ClearTicks([w EXCEPT !.bench.visible = FALSE])))

\* leave(), on unmount
BenchLeave(w) ==
  LET v == DropReads(Invalidate(ClearTicks([w EXCEPT !.bench.visible = FALSE])))
  IN IF w.bench.motion THEN BenchStop(v) ELSE v

\* connection()
BenchConnection(w) ==
  DropReads(Invalidate([w EXCEPT !.bench = [BenchInitial EXCEPT !.visible = w.bench.visible]]))

-----------------------------------------------------------------------------
(* Replies.                                                                *)

\* actionFresh() and the second benchBlockReason(), on the preflight's answer
Preflight(w, j, a) == ~j.late /\ BenchReady(w, a.kind, TRUE)

BenchRest(w, j, a) ==
  LET rest == Tail(j.todo)
      read == Head(j.todo).op \in {"get", "read"}     \* a poll goes on past a failed rate or eRPM read
  IN IF ~j.mine THEN <<>>
     ELSE IF a.kind \in {"notsent", "error"} THEN IF j.who = "poll" /\ read THEN rest ELSE <<>>
     ELSE IF j.who # "poll" /\ Len(j.got) = 0 /\ ~Preflight(w, j, a) THEN <<>>
     ELSE IF Head(j.todo).op = "set" /\ ~SetAccepted(a) THEN <<>> ELSE rest

\* the catch of run(): a line that may have reached the controller clears all that was known
BenchCatch(w, a) ==
  IF a.kind \in {"disarmed", "armed", "ok", "value", "notsent"} THEN w
  ELSE ClearTicks([w EXCEPT !.bench.arm = "", !.bench.fresh = FALSE, !.bench.rate = Unknown])

\* what one answer of a current flight changes
BenchPatch(w, j) ==
  LET a == Last(j)
      answered == Len(j.got)
  IN CASE StatusRead(a) ->
            LET v == [w EXCEPT !.bench.arm = a.kind, !.bench.fresh = TRUE]
            IN IF j.who = "test" /\ ~Ended(j)
                 THEN [v EXCEPT !.bench.motion = TRUE, !.bench.still = FALSE, !.bench.window = TRUE]
               ELSE IF j.who = "setRate" /\ ~Ended(j) THEN [v EXCEPT !.bench.rate = Unknown]
               ELSE IF j.late THEN [v EXCEPT !.bench.still = FALSE] ELSE v
       [] a.kind = "value" -> [w EXCEPT !.bench.rate = a.val]
       [] j.who = "test" /\ a.kind = "ok" -> [w EXCEPT !.bench.window = TRUE]
       [] j.who = "poll" /\ answered = 2 /\ a.kind = "error" -> [w EXCEPT !.bench.rate = Unknown]
       [] j.who = "poll" /\ answered > 1 -> w
       [] OTHER -> BenchCatch(w, a)

\* A start refused by the busy gate has opened the window all the same.
Opened(w, j) ==
  IF j.who = "test" /\ Len(j.got) = 2 /\ Last(j) = NotSent /\ Nth(j, 1).kind = "disarmed"
    THEN [w EXCEPT !.bench.arm = "disarmed", !.bench.fresh = TRUE,
                   !.bench.motion = TRUE, !.bench.still = FALSE, !.bench.window = TRUE]
    ELSE w

\* finally: the flight is over and the action that waited for it starts.
FlightOver(w, j) ==
  LET v == IF w.next = NoJob \/ ~w.next.mine THEN [w EXCEPT !.bench.act = w.bench.stopping] ELSE w
  IN StartNext(v)

BenchReplied(w, j) ==
  LET v == IF j.mine THEN BenchPatch(Opened(w, j), j) ELSE w
  IN IF Ended(j) /\ j.here THEN FlightOver(v, j) ELSE v

\* the stop's own answer; of the session it was sent in
StopReplied(w, j) ==
  IF ~j.here THEN w
  ELSE [w EXCEPT !.bench.window = @ /\ Last(j).kind # "ok", !.bench.act = FALSE, !.bench.stopping = FALSE]
=============================================================================
