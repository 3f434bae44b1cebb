---------------------------- MODULE FiltersPage -----------------------------
(***************************************************************************)
(* The Filters page: a low-pass setting, one gyro notch (a center and a    *)
(* cutoff the controller accepts only as a valid pair) and the RPM filter. *)
(* Nothing locks its buttons while one of them works: loads, saves and     *)
(* defaults overlap.  A save goes on after the page is left.               *)
(***************************************************************************)
EXTENDS PageHost, StoragePanel

FilterWriters == {"saveFilters", "defaultsFilters", "defaults"}
FiltersNames  == {"loadFilters", "saveFilters", "defaultsFilters"}

\* shown values; fallback: they come from the browser's own store; held: settingsBusy;
\* again: reloadOnConnect; line: the controller's refusal
FiltersInitial == [lpf |-> Unknown, center |-> Unknown, cutoff |-> Unknown, rpm |-> Unknown,
                   fallback |-> FALSE, held |-> FALSE, again |-> FALSE, msg |-> "", line |-> ""]

notchesSupported(w) == w.filt.center # Unknown /\ w.filt.cutoff # Unknown

\* getAllSettings(), then the notches and the report (with it, the storage line read for its schema),
\* then the RPM filter and its report
readNotches == <<Get("center"), Get("cutoff"), Read("filters")>>
readRpm     == <<Get("rpm"), Read("rpm_filter")>>
LoadLines   == <<getAllSettings("lpf")>> \o readNotches \o readRpm

-----------------------------------------------------------------------------
(* notchWritePlan(): an order of writes that keeps every intermediate pair *)
(* valid.                                                                  *)

\* Mutant: the center first, always.
notchWritePlanFixed(cur, next) ==
  IF cur = next THEN <<>> ELSE <<Set("center", next.center), Set("cutoff", next.cutoff)>>

notchWritePlan(cur, next) ==
  LET center == Set("center", next.center)
      cutoff == Set("cutoff", next.cutoff)
  IN IF cur = next THEN <<>>
     ELSE IF cur.center # 0 /\ next.center # 0
       THEN IF cur.center = next.center THEN <<cutoff>>
            ELSE IF cur.cutoff = next.cutoff THEN <<center>>
            ELSE IF next.cutoff < cur.center THEN <<cutoff, center>> ELSE <<center, cutoff>>
     ELSE (IF cur.center # 0 THEN <<Set("center", 0)>> ELSE <<>>)
          \o (IF cur.cutoff # next.cutoff THEN <<cutoff>> ELSE <<>>)
          \o (IF next.center # 0 THEN <<center>> ELSE <<>>)

Pair(r) == [center |-> r.center, cutoff |-> r.cutoff]

\* onSave(): what differs from what is shown, then a re-read, then the save
NotchChanges(w, next) == IF notchesSupported(w) THEN notchWritePlan(Pair(w.filt), Pair(next)) ELSE <<>>
RpmChanges(w, next)   == IF w.filt.rpm \in {Unknown, next.rpm} THEN <<>>
                         ELSE <<Set("rpm", next.rpm)>> \o readRpm
SaveLines(w, next) == <<Set("lpf", next.lpf)>> \o NotchChanges(w, next) \o RpmChanges(w, next)
                      \o readNotches \o saveSequence

-----------------------------------------------------------------------------
(* The buttons.                                                            *)

\* load(): a newer load takes over
FiltersLoad(w) == Enter(Forget(w, {"loadFilters"}), Job("loadFilters", LoadLines))

\* history: a writer that begins is no longer alone, nor are the others
NotAlone(w) == EachJob(w, LAMBDA x : IF x.who \in FilterWriters THEN [x EXCEPT !.alone = FALSE] ELSE x)
Writing(w, j, sound) ==
  LET others == \E x \in InGate(w) : x.who \in FilterWriters
  IN Enter(NotAlone(w), [j EXCEPT !.alone = sound /\ ~others])

CanSaveFilters(w, next) == /\ w.up /\ ~w.filt.held /\ w.filt.lpf # Unknown
                           /\ notchesSupported(w) => PairValid(next.center, next.cutoff)
FiltersSave(w, next, sound) ==
  IF w.filt.fallback THEN FiltersLoad([w EXCEPT !.filt.msg = "local", !.filt.line = ""])
  ELSE Writing([w EXCEPT !.filt.msg = "", !.filt.line = ""], Job("saveFilters", SaveLines(w, next)), sound)

FiltersDefaults(w) ==
  IF w.filt.fallback THEN FiltersLoad([w EXCEPT !.filt.msg = "local"])
  ELSE Writing([w EXCEPT !.filt.msg = ""],
               Job("defaultsFilters", restoreDefaults), FALSE)

-----------------------------------------------------------------------------
(* Replies.                                                                *)

Unanswered(a) == a.kind \in {"notsent", "error"}

\* load(): the notch reads are not cut short by a newer load, the rest is.
LoadRest(j, a) ==
  LET rest == Tail(j.todo)
  IN CASE Len(j.got) = 0 -> IF ~j.mine \/ Unanswered(a) THEN <<>> ELSE rest
       [] Len(j.got) = 3 -> IF j.mine THEN rest ELSE <<>>
       [] Len(j.got) = 4 -> IF j.mine /\ a.kind # "notsent" THEN rest ELSE <<>>
       [] OTHER -> rest

SaveFiltersRest(j, a) ==
  LET line == Head(j.todo)
      rest == IF line.op = "set" /\ line.key = "lpf" THEN IF SetAccepted(a) THEN Tail(j.todo) ELSE <<>>
              ELSE IF line.op = "set" /\ line.key # "rpm" THEN IF SetAccepted(a) THEN Tail(j.todo) ELSE readNotches
              ELSE IF line.key = "rpm_filter" THEN IF SetAccepted(Nth(j, Len(j.got) - 1)) THEN Tail(j.todo) ELSE readNotches
              ELSE IF line.op \in {"storage", "save"} THEN IF Unanswered(a) THEN <<>> ELSE SaveRest(j, a)
              ELSE Tail(j.todo)
  IN IF rest # <<>> /\ Head(rest).key \in {"rpm", "rpm_filter"} /\ ~j.mine THEN <<>> ELSE rest

FiltersRest(j, a) ==
  CASE j.who = "loadFilters" -> LoadRest(j, a)
    [] j.who = "saveFilters" -> SaveFiltersRest(j, a)
    [] OTHER -> IF Unanswered(a) THEN <<>> ELSE Tail(j.todo)

NoNotches(w) == [w EXCEPT !.filt.center = Unknown, !.filt.cutoff = Unknown]
\* reloadNotches(): both values, or the rows are unknown
ShowNotches(w, j) ==
  LET n == Len(j.got)
      c == Val(j, n - 2)
      f == Val(j, n - 1)
  IN IF Unknown \in {c, f} THEN NoNotches(w) ELSE [w EXCEPT !.filt.center = c, !.filt.cutoff = f]

\* rpmView(): the last two answers, the value and the report, or the section is unknown
ShowRpm(w, j) == [w EXCEPT !.filt.rpm = IF Unanswered(Last(j)) THEN Unknown ELSE Val(j, Len(j.got) - 1)]

LoadReplied(w, j) ==
  LET a == Last(j)
      n == Len(j.got)
      blank == [NoNotches(w) EXCEPT !.filt.rpm = Unknown]
  IN CASE n = 1 /\ ~j.mine -> w
       [] n = 1 /\ a.kind = "notsent" -> [blank EXCEPT !.filt.fallback = FALSE, !.filt.held = TRUE]
       [] n = 1 /\ a.kind = "error" -> [blank EXCEPT !.filt.lpf = 0, !.filt.fallback = TRUE, !.filt.held = FALSE]
       [] n = 1 -> [w EXCEPT !.filt.lpf = a.val, !.filt.fallback = FALSE, !.filt.held = FALSE]
       [] n = 4 -> ShowNotches(w, j)
       [] n = 5 /\ a.kind = "notsent" -> [w EXCEPT !.filt.rpm = Unknown]
       [] n = 6 -> ShowRpm(w, j)
       [] OTHER -> w

SaveFiltersReplied(w, j, line) ==
  CASE Saved(j) -> FiltersLoad([w EXCEPT !.filt.msg = "saved"])
    [] line.op = "set" /\ ~SetAccepted(Last(j)) -> [w EXCEPT !.filt.line = Last(j).kind]
    [] line.key = "rpm_filter" -> ShowRpm(w, j)
    [] line.op = "read" -> ShowNotches(w, j)
    [] Ended(j) -> [w EXCEPT !.filt.line = "save"]
    [] OTHER -> w

\* line: the line this reply answers
FiltersReplied(w, j, line) ==
  IF ~j.here THEN w
  ELSE CASE j.who = "loadFilters" -> LoadReplied(w, j)
         [] j.who = "saveFilters" -> SaveFiltersReplied(w, j, line)
         [] OTHER -> IF ~Ended(j) THEN w
                     ELSE IF Unanswered(Last(j)) THEN [w EXCEPT !.filt.line = "save"]
                     ELSE FiltersLoad([w EXCEPT !.filt.msg = "defaults"])

-----------------------------------------------------------------------------
(* The link.  A page that stands idle keeps what it shows.                 *)

\* the jobs the disconnect ends in the middle of the notches, or of the RPM filter, leave them unknown
InRpm(j)     == j.here /\ j.who = "saveFilters" /\ Head(j.todo).key \in {"rpm", "rpm_filter"}
InNotches(j) == j.here /\ j.who \in {"loadFilters", "saveFilters"}
                /\ \/ Head(j.todo).key \in {"center", "cutoff", "filters"}
                   \/ InRpm(j)

FiltersLost(w) ==
  LET u == IF \E j \in InGate(w) : InNotches(j) THEN NoNotches(w) ELSE w
      v == IF \E j \in InGate(w) : InRpm(j) THEN [u EXCEPT !.filt.rpm = Unknown] ELSE u
  IN [v EXCEPT !.filt.again = @ \/ w.filt.held \/ Wanted(w, {"loadFilters"}), !.filt.held = FALSE]
FiltersConnected(w) == IF w.filt.again THEN FiltersLoad([w EXCEPT !.filt.again = FALSE]) ELSE w

\* Mounted without a link, its load waits for ensureMockConnected().
FiltersMount(w) == LET v == [w EXCEPT !.filt = [FiltersInitial EXCEPT !.again = ~w.up]]
                   IN IF w.up THEN FiltersLoad(v) ELSE v
=============================================================================
