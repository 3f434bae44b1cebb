----------------------------- MODULE ModesPage ------------------------------
(***************************************************************************)
(* The Modes page: a snapshot of the controller's mode ranges and control  *)
(* mode, changes that are verified in the snapshot they return, a draft of *)
(* the ranges, and a poll of the receiver that finds the switch the pilot  *)
(* moves.  Every new snapshot makes the storage panel load again.          *)
(***************************************************************************)
EXTENDS PageHost, StoragePanel

SnapshotNames == {"modes", "applyRange", "selectMode"}
ModesNames    == SnapshotNames \cup {"switches"}

\* snap: the last verified snapshot (ModesValue), edit: it allows changes; draft: the range as edited
\* live: receiver readings in a row that were live (two show a movement), rxEdit: the last one
\* allows an assignment
ModesInitial == [snap |-> Unknown, edit |-> FALSE, draft |-> Unknown, live |-> 0, rxEdit |-> FALSE]

RangeOf(snap) == snap % 2
ModeOf(snap)  == snap \div 2

ModesBlocked(w) == \/ Wanted(w, SnapshotNames) \/ w.modes.snap = Unknown
                   \/ w.modes.draft # RangeOf(w.modes.snap)

\* useConfigSnapshot's execute(): one line, whose reply is the new snapshot
CanExecute(w) == w.up /\ ~Wanted(w, SnapshotNames)
Execute(w, who, line) == Enter(w, Job(who, <<line>>))
RefreshModes(w) == Execute(w, "modes", Line("modes", "", 0, "normal"))

\* canEditModeRanges() and canSelectControlMode()
CanEditModes(w) == CanExecute(w) /\ w.modes.snap # Unknown /\ w.modes.edit
ApplyRange(w) == Execute(w, "applyRange", Set("range", w.modes.draft))
SelectMode(w, m) == Execute(w, "selectMode", Set("mode", m))

\* The snapshot is of the request's own page, and shows what was asked for.
Verified(j, line) ==
  LET a == Last(j)
  IN /\ a.kind \in {"idle", "driven"}
     /\ j.who = "applyRange" => RangeOf(a.val) = line.val
     /\ j.who = "selectMode" => ModeOf(a.val) = line.val

\* A new revision of the settings, or none: the storage panel starts over.
Snapshot(w, val, edit) ==
  LET v == [w EXCEPT !.modes.snap = val, !.modes.edit = edit]
  IN IF val = Unknown /\ w.modes.snap = Unknown THEN v ELSE StorageReset(v, w.up)

SnapshotReplied(w, j, line) ==
  LET a == Last(j)
      redraft == j.who # "selectMode" \/ w.modes.draft = Unknown
      v == Snapshot(w, a.val, a.kind = "idle")
  IN IF ~Verified(j, line) THEN Snapshot(w, Unknown, FALSE)
     ELSE IF redraft THEN [v EXCEPT !.modes.draft = RangeOf(a.val)] ELSE v

-----------------------------------------------------------------------------
(* The switches (useModeReceiver, ModeReceiver).                           *)

CanPollSwitches(w) == w.up /\ ~Wanted(w, {"switches"})
PollSwitches(w) == Enter(w, Job("switches", <<Line("receiver", "map", 0, "normal")>>))

SwitchesReplied(w, j) ==
  LET a == Last(j)
  IN IF a.kind \in {"idle", "driven"}
       THEN [w EXCEPT !.modes.live = IF @ < 2 THEN @ + 1 ELSE 2, !.modes.rxEdit = a.kind = "idle"]
       ELSE [w EXCEPT !.modes.live = 0]

\* 750 ms without a reading
SwitchesExpire(w) == [w EXCEPT !.modes.live = 0]

\* the switch found is assigned to the range, in the draft
CanAssign(w) == CanEditModes(w) /\ w.modes.live = 2 /\ w.modes.rxEdit
AssignAux(w) == [w EXCEPT !.modes.draft = 1 - @]

ModesReplied(w, j, line) ==
  IF ~j.mine THEN w
  ELSE IF j.who = "switches" THEN SwitchesReplied(w, j) ELSE SnapshotReplied(w, j, line)

\* the effects on connected: of the panel, of the switches and of the snapshot
ModesReset(w) ==
  LET v == [Forget(w, ModesNames) EXCEPT !.modes = ModesInitial]
  IN StorageReset(IF w.up THEN RefreshModes(PollSwitches(v)) ELSE v, w.up)
ModesEffect(w) == StorageEffect(w, ModesBlocked(w))
=============================================================================
