---------------------------- MODULE MotorPanels -----------------------------
(***************************************************************************)
(* The two settings panels of the Motors page: which way the props spin    *)
(* (motor_direction) and the pole count (motor_poles).  A panel shows what *)
(* the controller answered last; a set is always followed by a read.       *)
(* Commands of these panels carry no signal: what waits in the gate stays, *)
(* and an aborted read or apply ends after its outstanding reply.          *)
(***************************************************************************)
EXTENDS MotorBench, StoragePanel

DirectionNames == {"readDirection", "applyDirection"}
PolesNames     == {"readPoles", "applyPoles"}

readMotorDirection     == <<Get("direction"), Read("mixer")>>
applyMotorDirection(v) == <<Set("direction", v)>> \o readMotorDirection
readMotorPoles         == <<Get("poles"), Read("rpm_filter")>>
applyMotorPoles(v)     == <<Set("poles", v)>> \o readMotorPoles

\* What a set was answered does not matter.  A read asks for the report only after a value.
PanelRest(j, a) ==
  IF ~j.mine THEN <<>>
  ELSE IF Head(j.todo).op = "set" THEN Tail(j.todo)
  ELSE IF Head(j.todo).op = "get" /\ a.kind # "value" /\ j.who # "applyPoles" THEN <<>> ELSE Tail(j.todo)

\* the value read: answer 1 of a read, 2 of an apply
ReadBack(j) == Val(j, IF Nth(j, 1).kind = "value" THEN 1 ELSE 2)

-----------------------------------------------------------------------------
(* MotorDirectionPanel.                                                    *)

DirectionReplied(w, j) == IF Ended(j) /\ j.mine THEN [w EXCEPT !.dir = ReadBack(j)] ELSE w

\* reset(), on every change of the link and on unmount
DirectionReset(w) == [Forget(w, DirectionNames) EXCEPT !.dir = Unknown]

\* read(); a newer read takes over from the one before it
DirectionRead(w) == Enter(Forget(w, {"readDirection"}), Job("readDirection", readMotorDirection))

\* motorDirectionLockReason() is null
DirectionUnlocked(w) ==
  /\ w.up
  /\ w.bench.arm = "disarmed"
  /\ ~w.bench.window
  /\ ~storageBlocked(w)
  /\ ~Wanted(w, StorageNames)

CanReadDirection(w) == w.up /\ ~Wanted(w, DirectionNames)
CanSetDirection(w, v) == CanReadDirection(w) /\ w.dir \notin {Unknown, v} /\ DirectionUnlocked(w)
ApplyDirection(w, v) == Enter(w, Job("applyDirection", applyMotorDirection(v)))

-----------------------------------------------------------------------------
(* MotorPolesPanel.  An older controller leaves the browser's own pole     *)
(* count in place: nothing to set.                                         *)

PolesReplied(w, j) == IF Ended(j) /\ j.mine THEN [w EXCEPT !.poles = ReadBack(j)] ELSE w

\* the status effect: a disconnect clears, a connect reads
PolesLost(w) == [Forget(w, {"readPoles"}) EXCEPT !.poles = Unknown]
PolesRead(w) == Enter(Forget(w, {"readPoles"}), Job("readPoles", readMotorPoles))

CanSetPoles(w, v) == w.up /\ w.poles \notin {Unknown, v} /\ ~storageBlocked(w) /\ ~Busy(w, {"applyPoles"})
ApplyPoles(w, v) == Enter(w, Job("applyPoles", applyMotorPoles(v)))

-----------------------------------------------------------------------------
(* The Motors page.                                                        *)

MotorsConnected(w) == DirectionRead(PolesRead(StorageReset(BenchPoll(BenchConnection(w)), TRUE)))
MotorsLost(w)      == PolesLost(DirectionReset(StorageReset(BenchConnection(w), FALSE)))

MotorsMount(w) == LET v == [w EXCEPT !.bench = BenchInitial, !.dir = Unknown, !.poles = Unknown]
                  IN IF w.up THEN MotorsConnected(v) ELSE StorageReset(v, FALSE)
\* A confirmed rate change is a new revision of the page's settings.
RateConfirmed(w, j) == IF j.who = "setRate" /\ Ended(j) /\ j.mine /\ Last(j).kind = "value"
                       THEN StorageReset(w, TRUE) ELSE w

MotorsRest(w, j, a) ==
  IF j.who \in Flight THEN BenchRest(w, j, a)
  ELSE IF j.who = "stop" THEN <<>> ELSE PanelRest(j, a)

MotorsReplied(w, j) ==
  IF j.who \in Flight THEN RateConfirmed(BenchReplied(w, j), j)
  ELSE IF j.who = "stop" THEN StopReplied(w, j)
  ELSE IF j.who \in DirectionNames THEN DirectionReplied(w, j) ELSE PolesReplied(w, j)

MotorsEffect(w) == StorageEffect(w, storageBlocked(w))
=============================================================================
