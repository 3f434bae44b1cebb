----------------------------- MODULE RatesPage ------------------------------
(***************************************************************************)
(* The Rates page: the rate settings are read with the storage status, and *)
(* saved as sets, a flash save and a read-back.  One setting stands for    *)
(* the nine.  Unlike the Filters page's, its save stops at the next line   *)
(* once the page or the connection it began on is gone.                    *)
(***************************************************************************)
EXTENDS PageHost, StoragePanel

RatesNames == {"loadRates", "saveRates"}

\* val: the rates as last read; ready: they may be edited; preview: they are the browser's own;
\* stor: the storage status read with them
RatesInitial == [val |-> Unknown, ready |-> FALSE, preview |-> FALSE, stor |-> Unknown, msg |-> ""]

\* load(), on mount, on every change of the connection and by its button
RatesLoad(w) ==
  LET v == [Forget(w, RatesNames) EXCEPT !.rates = RatesInitial]
  IN IF w.up THEN Enter(v, Job("loadRates", <<getAllSettings("expo"), StorageLine("normal")>>)) ELSE v

RatesIdle(w) == ~Wanted(w, RatesNames)

\* localPreview(): no controller reads or writes
LocalPreview(w) == [w EXCEPT !.rates = [RatesInitial EXCEPT !.ready = TRUE, !.preview = TRUE]]

CanSaveRates(w) == /\ w.rates.ready /\ RatesIdle(w)
                   /\ w.rates.preview \/ (w.up /\ w.rates.stor \in {1, 2})

\* save(): the read-back is compared with what was set
SaveRates(w, v) ==
  IF w.rates.preview THEN [w EXCEPT !.rates.msg = "local"]
  ELSE Enter([w EXCEPT !.rates.msg = ""],
             Job("saveRates", <<Set("expo", v)>> \o saveSequence
                              \o <<[getAllSettings("expo") EXCEPT !.val = v], StorageLine("normal")>>))

\* readRateSettings(), and the read-back's comparison
RatesRead(j, a) == a.kind = "value" /\ (j.who = "saveRates" => a.val = Head(j.todo).val)

\* Between two requests the token is checked; the save itself is one request.
RatesRest(j, a) ==
  LET line == Head(j.todo)
      good == IF line.op = "set" THEN SetAccepted(a)
              ELSE IF line.op = "get" THEN RatesRead(j, a)
              ELSE Len(j.todo) > 2 => SaveStep(line.op, Len(j.todo) = 3, a)
      within == line.op \in {"storage", "save"} /\ Len(j.todo) > 3
  IN IF good /\ (within \/ j.mine) THEN Tail(j.todo) ELSE <<>>

RatesGood(j) == IF j.who = "saveRates" THEN Len(j.got) = 6 /\ SaveStep("storage", TRUE, Last(j))
                ELSE Len(j.got) = 2 /\ Last(j).kind = "storage"

\* a failed load, or a save that may have been carried out in part, has to be loaded again
RatesReplied(w, j) ==
  IF ~Ended(j) \/ ~j.mine THEN w
  ELSE IF ~RatesGood(j) THEN [w EXCEPT !.rates.ready = FALSE, !.rates.val = Unknown]
  ELSE [w EXCEPT !.rates.ready = TRUE, !.rates.stor = Last(j).val,
                 !.rates.val = Nth(j, Len(j.got) - 1).val,
                 !.rates.msg = IF j.who = "saveRates" THEN "saved" ELSE ""]
=============================================================================
