----------------------------- MODULE PowerPage ------------------------------
(***************************************************************************)
(* The Power & Battery page: a poll of the battery report, an apply of the *)
(* settings whose reply is a new report, one of the two at a time, and the *)
(* storage panel, blocked while the settings shown differ from the report. *)
(* A failed poll leaves the reading, marked as out of date.                *)
(***************************************************************************)
EXTENDS PageHost, StoragePanel

PowerNames == {"power", "applyPower"}

\* reading: the settings in the last report; draft: the settings as edited
PowerInitial == [reading |-> Unknown, draft |-> Unknown]

PowerBlocked(w) == Busy(w, {"applyPower"}) \/ w.power.reading = Unknown \/ w.power.draft # w.power.reading

\* poll(), every 500 ms; inFlight outlives the connection it was set on
CanPollPower(w) == w.up /\ ~Busy(w, PowerNames)
PollPower(w) == Enter(w, Job("power", <<Line("power", "", 0, "normal")>>))

\* apply(), of the settings just edited
CanApplyPower(w) == CanPollPower(w) /\ w.power.draft # Unknown
ApplyPower(w, v) == Enter([w EXCEPT !.power.draft = v], Job("applyPower", <<Set("power", v)>>))

\* parsePower(): a refusal or an incomplete report is an error
PowerReplied(w, j) ==
  LET a == Last(j)
  IN IF ~j.mine \/ a.kind # "power" THEN w
     ELSE [w EXCEPT !.power.reading = a.val,
                    !.power.draft = IF j.who = "applyPower" \/ @ = Unknown THEN a.val ELSE @]

\* the effect on connected
PowerReset(w) ==
  LET v == [Forget(w, PowerNames) EXCEPT !.power = PowerInitial]
  IN StorageReset(IF CanPollPower(v) THEN PollPower(v) ELSE v, w.up)
PowerEffect(w) == StorageEffect(w, PowerBlocked(w))
=============================================================================
