---------------------------- MODULE StoragePanel ----------------------------
(***************************************************************************)
(* The storage panel of a page: what the controller's flash holds, and the *)
(* sequences that load, save and export it, each as one request of the     *)
(* gate (StoragePanel.tsx, storageSequence.ts, storageRefresh.ts).         *)
(***************************************************************************)
EXTENDS PageHost

StorageNames == {"load", "save", "export"}

\* state: the last storage reply (StorageReply) or Unknown;
\* want, quiet: a load is due; was: blocked at the last render.
StorageInitial == [state |-> Unknown, want |-> FALSE, quiet |-> FALSE, was |-> FALSE, msg |-> "", err |-> ""]

StorageLine(cls) == Line("storage", "", 0, cls)
loadSequence == <<StorageLine("normal")>>
saveSequence == <<StorageLine("write"), Line("save", "", 0, "held"), StorageLine("held")>>
exportSequence == <<Line("dump", "", 0, "normal"), StorageLine("held")>>

canSaveStorage(a) == a.kind = "storage" /\ a.val <= 2

\* Mutant: whatever the controller answers is taken for success.
SaveStepBlind(op, final, a) == a.kind \notin {"notsent", "error"}

\* saveSequence() and the client's saveSettings(): allowed, verified, read back as saved and clean.
SaveStep(op, final, a) ==
  IF op = "save" THEN a.kind = "verified"
  ELSE IF final THEN a.kind = "storage" /\ a.val \in {1, 3} ELSE canSaveStorage(a)

SaveRest(j, a) == IF SaveStep(Head(j.todo).op, Len(j.todo) = 1, a) THEN Tail(j.todo) ELSE <<>>
Saved(j) == Ended(j) /\ SaveStep("storage", TRUE, Last(j))

StorageRest(j, a) ==
  IF a.kind \in {"notsent", "error"} THEN <<>>
  ELSE IF j.who = "save" THEN SaveRest(j, a) ELSE Tail(j.todo)

\* describeStorageError(): what the panel says of an unfinished sequence.
StorageProblem(j) ==
  IF Last(j).kind # "notsent" THEN "other"
  ELSE IF j.who = "save" /\ Len(j.got) > 1 THEN "unknown" ELSE "busy"

StorageGood(j) == IF j.who = "save" THEN Saved(j) ELSE Last(j).kind = "storage"

\* run() has its result, or threw.
StorageReplied(w, j) ==
  IF ~Ended(j) \/ ~j.mine THEN w
  ELSE IF StorageGood(j)
    THEN [w EXCEPT !.stor.state = Last(j).val, !.stor.err = "",
                   !.stor.msg = IF j.who = "save" THEN "saved" ELSE IF j.who = "export" THEN "exported" ELSE @]
  ELSE LET p == StorageProblem(j)
       IN IF j.late /\ p = "busy" THEN w     \* a quiet re-read: the shown status stands
          ELSE [w EXCEPT !.stor.err = p, !.stor.state = IF p = "busy" THEN @ ELSE Unknown]

StorageRun(w, who, lines, quiet) ==
  Enter(IF quiet THEN w ELSE [w EXCEPT !.stor.err = "", !.stor.msg = ""],
        [Job(who, lines) EXCEPT !.late = quiet])

\* The epoch effect: mounted, connected or not, or a new revision of the page's settings.
StorageReset(w, connected) ==
  LET c == CancelQueued(Forget(w, StorageNames), StorageNames)
  IN [c EXCEPT !.stor = [StorageInitial EXCEPT !.want = connected, !.was = w.stor.was]]

\* The load effect, after every render: a first load once the page unblocks, a quiet one each time
\* it unblocks again.
StorageEffect(w, blocked) ==
  LET due == [w EXCEPT !.stor.quiet = @ \/ (w.stor.was /\ ~blocked /\ ~w.stor.want), !.stor.was = blocked]
  IN IF ~w.up \/ blocked \/ ~(due.stor.want \/ due.stor.quiet) \/ Wanted(w, StorageNames) THEN due
     ELSE StorageRun([due EXCEPT !.stor.want = FALSE, !.stor.quiet = FALSE], "load", loadSequence, ~due.stor.want)

\* the buttons
StorageCan(w, blocked) == w.up /\ ~blocked /\ ~Wanted(w, StorageNames)
CanSave(w, blocked) == StorageCan(w, blocked) /\ w.stor.state \in {1, 2}
StorageSave(w)      == StorageRun(w, "save", saveSequence, FALSE)
\* Refresh storage; of a dirty controller the user confirms it first.
StorageRefresh(w)   == StorageRun(w, "load", loadSequence, FALSE)
CanExport(w, blocked) == StorageCan(w, blocked) /\ w.stor.state # Unknown
StorageExport(w)    == StorageRun(w, "export", exportSequence, FALSE)
=============================================================================
