---------------------------- MODULE SensorsPage -----------------------------
(***************************************************************************)
(* The Sensors page: live telemetry on a lane of its own, in which a read  *)
(* never waits and an action waits for at most the current read; the       *)
(* calibration commands, gated by what the telemetry says and by two       *)
(* confirmations of the user; and the mounting of the board, sent axis by  *)
(* axis.  A new calibration state or mounting makes the storage panel load *)
(* again.                                                                  *)
(***************************************************************************)
EXTENDS PageHost, StoragePanel

ActionNames  == {"calibrate", "mount"}
SensorsNames == ActionNames \cup {"sensors"}
NoSnap == 99   \* no telemetry

\* snap: the last report (SensorsValue), safe: it was disarmed with motors stopped; fresh: young
\* enough to act on; props, still: the confirmations; pending: an action; old: firmware without
\* telemetry; draft: the mounting as edited; rev: the last snap the storage panel knows
SensorsInitial == [snap |-> NoSnap, safe |-> FALSE, fresh |-> FALSE, props |-> FALSE, still |-> FALSE,
                   pending |-> FALSE, old |-> FALSE, visible |-> TRUE, draft |-> NoSnap, rev |-> NoSnap]

CalOf(snap)   == snap % 6
MountOf(snap) == (snap \div 12) % 4
NeedsReboot(snap) == snap >= 48

\* the mounting panel sends its axes
MountBusy(w) == Busy(w, {"mount"}) \/ (w.next # NoJob /\ w.next.who = "mount")
SensorsBlocked(w) == \/ w.sens.pending \/ ~w.sens.fresh \/ CalOf(w.sens.snap) # 0
                     \/ w.sens.draft # NoSnap \/ MountBusy(w)

\* resetTelemetry(); without telemetry the mounting panel drops its draft
resetTelemetry(w) == [w EXCEPT !.sens.snap = NoSnap, !.sens.fresh = FALSE, !.sens.draft = NoSnap]

-----------------------------------------------------------------------------
(* The lane (SensorRequestLane).                                           *)

LaneFree(w) == ~Busy(w, SensorsNames) /\ w.next = NoJob

CanReadSensors(w) == w.up /\ ~w.sens.old /\ w.sens.visible /\ LaneFree(w)
ReadSensors(w) == Enter(w, Job("sensors", <<Line("sensors", "", 0, "normal")>>))

\* checkActionGates()
Allowed(w, what) ==
  LET cal == CalOf(w.sens.snap)
  IN w.up /\ (what = "cancel" \/
       /\ w.sens.snap # NoSnap /\ w.sens.fresh /\ w.sens.safe /\ w.sens.props /\ w.sens.still
       /\ CASE what = "face" -> cal \in {3, 5} [] what = "apply" -> cal = 5 [] OTHER -> cal = 0
       /\ what # "mount" => ~NeedsReboot(w.sens.snap))

What(j) == IF j.who = "mount" THEN "mount" ELSE Head(j.todo).key

\* action()'s work: what allowed the action is checked again
StartAction(w, j) ==
  IF w.sens.visible /\ Allowed(w, What(j)) THEN Enter(w, j) ELSE [w EXCEPT !.sens.pending = FALSE]

\* command(): after the current read, if there is one
Act(w, j) ==
  LET v == [w EXCEPT !.sens.pending = TRUE]
  IN IF Busy(w, {"sensors"}) THEN [v EXCEPT !.next = j] ELSE StartAction(v, j)

\* the buttons
CanCommand(w, what) == /\ Allowed(w, what) /\ ~w.sens.pending /\ ~Wanted(w, StorageNames)
                       /\ ~Busy(w, ActionNames) /\ w.next = NoJob
Calibrate(w, what) == Act(w, Job("calibrate", <<Line("calibrate", what, 0, "write")>>))

\* BoardOrientationPanel: a draft of both axes, applied one after the other or discarded
EditMounting(w)    == [w EXCEPT !.sens.draft = 3 - MountOf(w.sens.snap)]
DiscardMounting(w) == [w EXCEPT !.sens.draft = NoSnap]
ApplyMounting(w)   == Act(w, Job("mount", <<Set("roll", w.sens.draft % 2), Set("yaw", w.sens.draft \div 2)>>))

\* The second axis is a command of its own, which every check may stop.
SensorsRest(w, j, a) ==
  IF SetAccepted(a) /\ j.mine /\ Len(j.todo) > 1 /\ w.sens.visible /\ Allowed(w, "mount") THEN Tail(j.todo) ELSE <<>>

-----------------------------------------------------------------------------
\* tick()'s answer; a line that was not sent leaves the sample to age
Telemetry(w, a) ==
  IF a.kind = "notsent" THEN w
  ELSE IF a.kind = "unknown" THEN [resetTelemetry(w) EXCEPT !.sens.old = TRUE]
  ELSE IF a.kind = "error" THEN resetTelemetry(w)
  ELSE LET v == [w EXCEPT !.sens.snap = a.val, !.sens.safe = a.kind = "idle",
                          !.sens.fresh = a.kind # "noimu", !.sens.rev = a.val % 48]
       IN IF w.sens.rev = v.sens.rev THEN v ELSE StorageReset(v, w.up)

ReadReplied(w, j) ==
  LET v == IF j.mine THEN Telemetry(w, Last(j)) ELSE w
  IN IF v.next = NoJob THEN v
     ELSE IF v.next.mine THEN StartAction([v EXCEPT !.next = NoJob], v.next)
     ELSE [v EXCEPT !.next = NoJob]

\* all axes were taken: the draft is what the controller has
ActionReplied(w, j) ==
  IF ~j.mine \/ ~Ended(j) THEN w
  ELSE [w EXCEPT !.sens.pending = FALSE,
                 !.sens.draft = IF j.who = "mount" /\ Len(j.got) = 2 /\ SetAccepted(Last(j)) THEN NoSnap ELSE @]

SensorsReplied(w, j) ==
  IF ~j.here THEN w ELSE IF j.who = "sensors" THEN ReadReplied(w, j) ELSE ActionReplied(w, j)

\* A status event, or the page hidden or shown: a new generation of the lane.
SensorsForget(w) ==
  LET v == resetTelemetry(Forget(w, SensorsNames))
  IN [v EXCEPT !.sens.props = FALSE, !.sens.still = FALSE, !.sens.pending = FALSE]

SensorsReset(w) ==
  LET v == [SensorsForget(w) EXCEPT !.sens.old = FALSE]
  IN StorageReset(IF CanReadSensors(v) THEN ReadSensors(v) ELSE v, w.up)

SensorsVisible(w, visible) ==
  LET v == [(IF w.up /\ ~w.sens.old THEN SensorsForget(w) ELSE w) EXCEPT !.sens.visible = visible]
  IN IF CanReadSensors(v) THEN ReadSensors(v) ELSE v

SensorsEffect(w) == StorageEffect(w, SensorsBlocked(w))
=============================================================================
