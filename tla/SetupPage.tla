----------------------------- MODULE SetupPage ------------------------------
(***************************************************************************)
(* The Setup page: the loop-rate setting and its report, a status poll     *)
(* that shows the rate that runs, and the actions that pause the poll.     *)
(* Its commands carry no signal and go on when the page is left.           *)
(***************************************************************************)
EXTENDS PageHost, StoragePanel

CONSTANT MaxSkips      \* LOOP_RATE_MAX_SKIPS

RateNames  == {"readRate", "selectRate", "saveRate"}
SetupNames == {"status", "refresh", "defaults"} \cup RateNames

\* get, report: the loop-rate setting and its report; done: loopSettingRead; poll: the polled
\* target; on: the poller is enabled; skips: its polls not sent; seen: the watcher's last target;
\* kick: loopPollKick was bumped since the effects ran; dep: connected and busy when they ran.
SetupInitial == [get |-> Unknown, report |-> Unknown, done |-> FALSE, busy |-> FALSE, poll |-> Unknown,
                 on |-> FALSE, skips |-> 0, seen |-> Unknown, kick |-> FALSE, dep |-> <<FALSE, FALSE>>,
                 msg |-> ""]

readLoopRateSetting == <<Get("rate"), Line("looprate", "", 0, "normal")>>
selectLoopRate(v)   == <<Set("rate", v)>> \o readLoopRateSetting
saveLoopRate        == saveSequence \o readLoopRateSetting
RefreshLines        == <<getVersion, Read("status"), Read("status")>>
DefaultsLines       == restoreDefaults \o <<Read("status")>>

-----------------------------------------------------------------------------
(* The poller.                                                             *)

\* a poll the gate never sent: the reading stands for a few of them
Skipped(w) == [w EXCEPT !.loop.skips = IF @ < MaxSkips THEN @ + 1 ELSE @,
                        !.loop.poll = IF w.loop.skips + 1 >= MaxSkips THEN Unknown ELSE @]
PollStatus(w) == IF Busy(w, {"status"}) THEN w
                 ELSE IF Full(w) THEN Skipped(w)
                 ELSE Enter(w, Job("status", <<Line("status", "", 0, "normal")>>))
\* setEnabled(): a reply from before the change is dropped
SetEnabled(w, on) == IF on = w.loop.on THEN w
                     ELSE LET v == [Forget(w, {"status"}) EXCEPT !.loop.on = on]
                          IN IF on THEN PollStatus(v) ELSE v

StatusReplied(w, j) ==
  LET a == Last(j)
      v == CASE ~j.mine -> w
             [] a.kind = "notsent" -> Skipped(w)
             [] a.kind = "error" -> [w EXCEPT !.loop.skips = 0, !.loop.poll = Unknown]
             [] OTHER -> [w EXCEPT !.loop.skips = 0, !.loop.poll = a.val]
  IN StartNext(v)

CanTick(w) == w.loop.on /\ ~Busy(w, {"status"})

-----------------------------------------------------------------------------
(* Actions.                                                                *)

\* setBusy(true) and pauseLoopPoll()
Pause(w) == SetEnabled([w EXCEPT !.loop.busy = TRUE], FALSE)

\* Mutant: the poll is not kicked after an action.
ActionOverUnkicked(w) == [w EXCEPT !.loop.busy = FALSE]

\* finally
ActionOver(w) == [w EXCEPT !.loop.busy = FALSE, !.loop.kick = TRUE]

\* The action's first line waits for the poll's reply; on a full gate it fails at once.
SetupRun(w, j) ==
  IF Full(w) /\ ~Busy(w, {"status"})
    THEN ActionOver([Pause(w) EXCEPT !.loop.done = @ \/ j.who \in RateNames, !.loop.msg = ""])
    ELSE StartAfter(Pause(w), j, {"status"})

\* runLoopRateAction(), onRefresh(), onRestoreDefaults() and their guards
CanRun(w) == w.up /\ ~w.loop.busy
CanSelect(w) == CanRun(w) /\ w.loop.get # Unknown
ReadRate(w) == SetupRun(w, Job("readRate", readLoopRateSetting))
SelectRate(w, v) == SetupRun(w, Job("selectRate", selectLoopRate(v)))
SaveRate(w) == SetupRun(w, Job("saveRate", saveLoopRate))
Refresh(w)  == SetupRun(w, Job("refresh", RefreshLines))
RestoreDefaults(w) == SetupRun(w, Job("defaults", DefaultsLines))

SetupRest(j, a) ==
  LET op == Head(j.todo).op
  IN IF a.kind \in {"notsent", "error"} THEN <<>>
     ELSE IF op = "get" /\ j.who \in RateNames /\ a.kind # "value" THEN <<>>
     ELSE IF op \in {"storage", "save"}
       THEN IF SaveStep(op, Len(j.todo) = 3, a) THEN Tail(j.todo) ELSE <<>>
     ELSE Tail(j.todo)

\* the setting read back: the two last answers, or the get of an older controller
RateShown(w, j) ==
  LET n == Len(j.got)
      old == Last(j).kind = "unknown"
  IN [w EXCEPT !.loop.get = IF old THEN Unknown ELSE Val(j, n - 1),
               !.loop.report = IF old THEN Unknown ELSE Last(j).val]

RateReplied(w, j) ==
  LET read == Last(j).kind \in {"report", "unknown"} /\ Len(j.got) > (IF j.who = "saveRate" THEN 3 ELSE 0)
      v == IF read THEN RateShown(w, j) ELSE w
  IN ActionOver([v EXCEPT !.loop.done = TRUE,
                          !.loop.msg = IF read /\ j.who = "saveRate" THEN "saved" ELSE ""])

\* Mutant: the setting is not read again.
DefaultsRepliedKeeps(w, j) == IF Ended(j) THEN ActionOver(w) ELSE w

\* restoreDefaults() has answered: the setting is read again once the action is over.
DefaultsReplied(w, j) ==
  LET v == IF Len(j.got) = 2 /\ ~Ended(j) THEN [w EXCEPT !.loop.done = FALSE] ELSE w
  IN IF Ended(j) THEN ActionOver(v) ELSE v

SetupReplied(w, j) ==
  IF ~j.here THEN w
  ELSE IF j.who = "status" THEN StatusReplied(w, j)
  ELSE IF j.who = "defaults" THEN DefaultsReplied(w, j)
  ELSE IF ~Ended(j) THEN w
  ELSE IF j.who = "refresh" THEN ActionOver(w) ELSE RateReplied(w, j)

-----------------------------------------------------------------------------
(* The effects, in the order the page declares them.                       *)

PollerEffect(w) ==
  LET dep == <<w.up, w.loop.busy>>
      v == [w EXCEPT !.loop.dep = dep, !.loop.kick = FALSE]
  IN IF dep = w.loop.dep /\ ~w.loop.kick THEN w
     ELSE SetEnabled(IF w.up THEN v ELSE [v EXCEPT !.loop.poll = Unknown, !.loop.skips = 0],
                     w.up /\ ~w.loop.busy)

ReadEffect(w) ==
  IF ~w.up THEN [w EXCEPT !.loop.get = Unknown, !.loop.report = Unknown, !.loop.done = FALSE, !.loop.msg = ""]
  ELSE IF ~w.loop.done /\ ~w.loop.busy THEN ReadRate(w) ELSE w

\* LoopTargetWatcher.changed(): another target than the last one known
WatchEffect(w) ==
  IF ~w.up THEN [w EXCEPT !.loop.seen = Unknown]
  ELSE IF w.loop.busy \/ w.loop.poll = Unknown THEN w
  ELSE [w EXCEPT !.loop.seen = w.loop.poll,
                 !.loop.done = @ /\ w.loop.seen \in {Unknown, w.loop.poll}]

\* A change the last effect makes renders the page, and runs them, once more.
SetupEffect(w) == PollerEffect(ReadEffect(WatchEffect(ReadEffect(PollerEffect(w)))))

SetupMount(w) == [w EXCEPT !.loop = SetupInitial]
\* The link ends the running action; an action put off fails at its first line.
SetupLost(w)  == [w EXCEPT !.loop.busy = FALSE, !.loop.kick = TRUE, !.next = NoJob]
\* Left: the poller stops, and an action put off is sent all the same.
SetupLeave(w) == IF w.next = NoJob THEN w ELSE Enter([w EXCEPT !.next = NoJob], w.next)
=============================================================================
