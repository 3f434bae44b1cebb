--------------------------- MODULE ControllerPages --------------------------
(***************************************************************************)
(* The pages that read and change a connected controller, one mounted at a *)
(* time, on one command gate.  What a page leaves behind when the user     *)
(* moves on runs on beside the next one.                                   *)
(*                                                                         *)
(* A reply, the rest of its async function up to the next await, and the   *)
(* effects React then runs are one step.                                   *)
(***************************************************************************)
EXTENDS MotorPanels, FiltersPage, SetupPage, ReceiverPage, RatesPage, ModesPage, SensorsPage,
        PowerPage

Tabs == {"motors", "filters", "setup", "receiver", "rates", "modes", "sensors", "power"}

CONSTANTS
    Edits,        \* what the Filters page's inputs can be set to
    Tours         \* bound: the tabs a session visits, the controllers, as they power up, it meets,
                  \* and its user actions, faults and changes at the controller

\* a controller as it powers up with some setting in flash
PowersUp(c) == c = Booted(c.id, c.knows, c.backend, c.limit, c.flash)

ASSUME PagesAssumption ==
  /\ \A t \in Tours : /\ t.tabs \subseteq Tabs /\ t.events \in Nat
                      /\ \A c \in t.controllers : PowersUp(c)
  /\ Limit \in Nat \ {0} /\ MaxSkips \in Nat \ {0}
  /\ NoJob \notin StopJobs

VARIABLES
    fc,        \* the controller at the far end
    page,      \* the browser: its gate, the mounted tab and the panels' states
    tour,      \* the tabs, controllers and bound of this session
    events,    \* bounded events so far
    \* history
    wanted,    \* the user asked for a motor test and has not withdrawn it
    unstopped, \* a stop line was not answered
    lost       \* a change was made whose answer, or the read after it, went unanswered

pagesVars == <<fc, page, tour, events, wanted, unstopped, lost>>

\* BrowserFirst: no page mounted yet; the Sensors and Power pages have a state only while mounted
BrowserFirst(up) == [wire |-> NoJob, queue |-> <<>>, next |-> NoJob, up |-> up, tab |-> "",
                     bench |-> BenchInitial, stor |-> StorageInitial, dir |-> Unknown, poles |-> Unknown,
                     filt |-> FiltersInitial, loop |-> SetupInitial, recv |-> ReceiverInitial,
                     rates |-> RatesInitial, modes |-> ModesInitial, sens |-> NoJob, power |-> NoJob]

-----------------------------------------------------------------------------
(* Dispatch to the pages.                                                  *)

MotorsNames == Flight \cup {"stop"} \cup DirectionNames \cup PolesNames

Rest(w, j, a) ==
  CASE j.who \in MotorsNames   -> MotorsRest(w, j, a)
    [] j.who \in StorageNames  -> StorageRest(j, a)
    [] j.who \in FiltersNames  -> FiltersRest(j, a)
    [] j.who \in SetupNames    -> SetupRest(j, a)
    [] j.who \in ReceiverNames -> ReceiverRest(j, a)
    [] j.who \in RatesNames    -> RatesRest(j, a)
    [] j.who \in ModesNames \cup PowerNames -> <<>>
    [] j.who \in SensorsNames  -> SensorsRest(w, j, a)

Replied(w, j, line) ==
  CASE j.who \in MotorsNames   -> MotorsReplied(w, j)
    [] j.who \in StorageNames  -> StorageReplied(w, j)
    [] j.who \in FiltersNames  -> FiltersReplied(w, j, line)
    [] j.who \in SetupNames    -> SetupReplied(w, j)
    [] j.who \in ReceiverNames -> ReceiverReplied(w, j)
    [] j.who \in RatesNames    -> RatesReplied(w, j)
    [] j.who \in ModesNames    -> ModesReplied(w, j, line)
    [] j.who \in SensorsNames  -> SensorsReplied(w, j)
    [] j.who \in PowerNames    -> PowerReplied(w, j)

Effects(w) == CASE w.tab = "motors"   -> MotorsEffect(w)
                [] w.tab = "setup"    -> SetupEffect(w)
                [] w.tab = "receiver" -> ReceiverEffect(w)
                [] w.tab = "modes"    -> ModesEffect(w)
                [] w.tab = "sensors"  -> SensorsEffect(w)
                [] w.tab = "power"    -> PowerEffect(w)
                [] OTHER -> w

\* Job j of gate w has answer a; v is the gate without it.  The next line of a request that holds
\* the gate goes out at once, unless a Stop waits; a motor start goes out at once or not at all.
Deliver(w, v, j, a) ==
  LET rest == Rest(w, j, a)
      k == [j EXCEPT !.todo = rest, !.got = Append(@, a)]
      holds == /\ rest # <<>> /\ Head(rest).cls = "held"
               /\ w.queue = <<>> \/ JobRank(Head(w.queue)) > 0
      blocked == rest # <<>> /\ Head(rest).cls = "start" /\ v.wire # NoJob
      line == Head(j.todo)
  IN Effects(IF rest = <<>> THEN Replied(v, k, line)
             ELSE IF holds THEN Replied([w EXCEPT !.wire = k], k, line)
             ELSE IF blocked THEN Replied(v, [k EXCEPT !.todo = <<>>, !.got = Append(@, NotSent)], line)
             ELSE Replied(Enter(v, k), k, line))

Settle(w, a) == Deliver(w, Pumped(w), w.wire, a)

\* the panels unmount with their page
Leave(w) ==
  LET s == CancelQueued(w, StorageNames)
  IN [Orphan(CASE w.tab = "motors" -> BenchLeave(s)
               [] w.tab = "setup" -> SetupLeave(s)
               [] OTHER -> s) EXCEPT !.next = NoJob]

Mount(w, t) ==
  LET v == [BrowserFirst(w.up) EXCEPT !.wire = w.wire, !.queue = w.queue, !.tab = t]
  IN Effects(CASE t = "motors"   -> MotorsMount(v)
               [] t = "filters"  -> FiltersMount(v)
               [] t = "setup"    -> SetupMount(v)
               [] t = "receiver" -> ReceiverReset(v)
               [] t = "rates"    -> RatesLoad(v)
               [] t = "modes"    -> ModesReset(v)
               [] t = "sensors"  -> SensorsReset([v EXCEPT !.sens = SensorsInitial])
               [] t = "power"    -> PowerReset(v))

\* The status event of a lost port; the gate drains and every job fails.
Lost(w) ==
  LET d == [w EXCEPT !.up = FALSE]
      v == CASE w.tab = "motors" -> MotorsLost(d)
             [] w.tab = "filters" -> FiltersLost(d)
             [] w.tab = "setup" -> SetupLost(d)
             [] w.tab = "receiver" -> ReceiverReset(d)
             [] w.tab = "rates" -> RatesLoad(d)
             [] w.tab = "modes" -> ModesReset(d)
             [] w.tab = "sensors" -> SensorsReset(d)
             [] w.tab = "power" -> PowerReset(d)
  IN Effects([v EXCEPT !.wire = NoJob, !.queue = <<>>, !.next = NoJob])

Connected(w) ==
  LET u == [w EXCEPT !.up = TRUE]
  IN Effects(CASE w.tab = "motors" -> MotorsConnected(u)
               [] w.tab = "filters" -> FiltersConnected(u)
               [] w.tab = "receiver" -> ReceiverReset(u)
               [] w.tab = "rates" -> RatesLoad(u)
               [] w.tab = "modes" -> ModesReset(u)
               [] w.tab = "sensors" -> SensorsReset(u)
               [] w.tab = "power" -> PowerReset(u)
               [] OTHER -> u)

-----------------------------------------------------------------------------
PagesInit == /\ tour \in Tours /\ fc \in tour.controllers
             /\ \E t \in tour.tabs : page = Mount(BrowserFirst(TRUE), t)
             /\ events = 0 /\ wanted = FALSE /\ unstopped = FALSE /\ lost = FALSE

Count == events < tour.events /\ events' = events + 1
\* a step of the browser alone
Shows(w) == page' = w /\ UNCHANGED <<fc, unstopped, lost>>
\* the user, on a page that is mounted
Does(tab, w) == page.tab = tab /\ Count /\ Shows(Effects(w)) /\ UNCHANGED wanted

\* The line on the wire is carried out and answered.
Answered ==
  /\ page.wire # NoJob
  /\ \E r \in Replies(fc, Head(page.wire.todo)) :
        /\ fc' = r.to /\ page' = Settle(page, Answer(r.kind, r.val))
  /\ UNCHANGED <<events, wanted, unstopped, lost>>

\* history: a request that changes the loop-rate setting, or reads it again, ends in an error
RateUnread(j) == j.who \in {"readRate", "selectRate", "defaults"}

\* The client gives up on it: it was lost, or its answer was.  A motor pulse is over by then.
TimedOut ==
  /\ page.wire # NoJob /\ Count
  /\ LET line == Head(page.wire.todo)
     IN /\ \E c \in {fc} \cup {r.to : r \in Replies(fc, line)} : fc' = [c EXCEPT !.spin = @ /\ fc.spin]
        /\ unstopped' = (unstopped \/ line.op = "stop")
        /\ lost' = (lost \/ RateUnread(page.wire) \/ (line.op \in {"set", "defaults"} /\ fc'.ram # fc.ram))
  /\ page' = Settle(page, Failed)
  /\ UNCHANGED wanted

\* A waiting line is refused: the queue's timeout, or no room in the queue.
QueueTimeout ==
  /\ Count
  /\ \E i \in 1 .. Len(page.queue) :
       /\ JobRank(page.queue[i]) > 1
       /\ page' = Deliver(page, [page EXCEPT !.queue = SubSeq(@, 1, i - 1) \o SubSeq(@, i + 1, Len(@))],
                          page.queue[i], NotSent)
       /\ lost' = (lost \/ RateUnread(page.queue[i]))
  /\ UNCHANGED <<fc, wanted, unstopped>>

\* timers of the pages
PageTimers ==
  /\ UNCHANGED <<events, wanted>>
  /\ \/ page.tab = "motors" /\ CanPoll(page) /\ Shows(BenchPoll(page))
     \/ page.tab = "setup" /\ CanTick(page) /\ Shows(PollStatus(page))
     \/ page.tab = "receiver" /\ CanPollReceiver(page) /\ Shows(ReceiverPoll(page))
     \/ page.tab = "modes" /\ CanPollSwitches(page) /\ Shows(PollSwitches(page))
     \/ page.tab = "sensors" /\ CanReadSensors(page) /\ Shows(ReadSensors(page))
     \/ page.tab = "power" /\ CanPollPower(page) /\ Shows(PollPower(page))

\* Readings grow old; the estimated test window, which outlasts the pulse, ends.
Ages ==
  /\ UNCHANGED <<events, wanted>>
  /\ \/ page.bench.fresh /\ Shows([page EXCEPT !.bench.fresh = FALSE])
     \/ page.recv.fresh /\ Shows([page EXCEPT !.recv.fresh = FALSE])
     \/ page.modes.live > 0 /\ Shows(SwitchesExpire(page))
     \/ page.tab = "sensors" /\ page.sens.fresh /\ Shows(Effects([page EXCEPT !.sens.fresh = FALSE]))
     \/ /\ page.bench.window /\ ~fc.spin /\ ~WireLine(page, "start")
        /\ Shows([page EXCEPT !.bench.window = FALSE])
\* A motor request waits past its time.
Expire(w) == EachJob(w, LAMBDA j : IF j.who \in {"test", "setRate"} THEN [j EXCEPT !.late = TRUE] ELSE j)
RequestExpires == Wanted(page, {"test", "setRate"}) /\ Count /\ Shows(Expire(page)) /\ UNCHANGED wanted

-----------------------------------------------------------------------------
(* The Motors page.                                                        *)

StartTest == /\ page.tab = "motors" /\ CanAct(page) /\ Count
             /\ Shows(Effects(BenchTest(page))) /\ wanted' = TRUE
SetRate   == CanAct(page) /\ page.bench.rate # Unknown /\ Does("motors", BenchSetRate(page, 1 - page.bench.rate))
Withdraws(w) == page.tab = "motors" /\ Shows(Effects(w)) /\ wanted' = FALSE
StopTest  == page.up /\ Count /\ Withdraws(BenchStop(page))
TickProps == /\ page.up /\ UNCHANGED events
             /\ IF page.bench.props THEN Withdraws(ConfirmProps(page, FALSE))
                ELSE page.tab = "motors" /\ Shows(ConfirmProps(page, TRUE)) /\ UNCHANGED wanted
TickStationary == /\ page.tab = "motors" /\ CanConfirmStationary(page)
                  /\ Shows(ConfirmStationary(page, ~page.bench.still))
                  /\ UNCHANGED <<events, wanted>>
Hide == page.bench.visible /\ Count /\ Withdraws(BenchHide(page))
Show == ~page.bench.visible /\ page.tab = "motors" /\ Shows(BenchShow(page)) /\ UNCHANGED <<events, wanted>>

SetDirection == \E v \in {0, 1} : CanSetDirection(page, v) /\ Does("motors", ApplyDirection(page, v))
ReadAgain    == CanReadDirection(page) /\ Does("motors", DirectionRead(page))
SetPoles     == \E v \in {0, 1} : CanSetPoles(page, v) /\ Does("motors", ApplyPoles(page, v))

(* The storage panel, on the pages that have it.                           *)

StorageTabs == {"motors", "receiver", "modes", "sensors", "power"}
Blocked == CASE page.tab = "motors" -> storageBlocked(page)
             [] page.tab = "modes"  -> ModesBlocked(page)
             [] page.tab = "sensors" -> SensorsBlocked(page)
             [] page.tab = "power"  -> PowerBlocked(page)
             [] OTHER -> ReceiverBlocked(page)
SaveStorage    == CanSave(page, Blocked) /\ \E t \in StorageTabs : Does(t, StorageSave(page))
RefreshStorage == StorageCan(page, Blocked) /\ \E t \in StorageTabs : Does(t, StorageRefresh(page))
ExportStorage  == CanExport(page, Blocked) /\ \E t \in StorageTabs : Does(t, StorageExport(page))

(* The other pages.                                                        *)

SaveFilters ==
  \E next \in Edits :
     /\ CanSaveFilters(page, next)
     /\ Does("filters", FiltersSave(page, next, Pair(page.filt) = Pair([center |-> fc.ram["center"],
                                                                        cutoff |-> fc.ram["cutoff"]])))
DefaultFilters == page.up /\ Does("filters", FiltersDefaults(page))
ReloadFilters  == page.up /\ Does("filters", FiltersLoad(page))

SelectLoopRate  == \E v \in {0, 1} : CanSelect(page) /\ v # page.loop.get /\ Does("setup", SelectRate(page, v))
SaveLoopRate    == CanSelect(page) /\ Does("setup", SaveRate(page))
RereadLoopRate  == CanRun(page) /\ Does("setup", ReadRate(page))
RefreshSetup    == CanRun(page) /\ Does("setup", Refresh(page))
DefaultSettings == CanRun(page) /\ Does("setup", RestoreDefaults(page))

ReloadRates   == RatesIdle(page) /\ Does("rates", RatesLoad(page))
PreviewRates  == RatesIdle(page) /\ Does("rates", LocalPreview(page))
SaveRateDraft == CanSaveRates(page) /\ \E v \in {0, 1} : Does("rates", SaveRates(page, v))

RereadModes     == CanExecute(page) /\ Does("modes", RefreshModes(page))
AssignSwitch    == CanAssign(page) /\ Does("modes", AssignAux(page))
ApplyModeRange  == CanEditModes(page) /\ Does("modes", ApplyRange(page))
SelectControlMode == CanEditModes(page) /\ Does("modes", SelectMode(page, 1 - ModeOf(page.modes.snap)))

ApplyReceiverMap == \E v \in {0, 1} : CanApply(page) /\ Does("receiver", ApplyMap(page, v))

ApplyPowerConfig == page.tab = "power" /\ CanApplyPower(page) /\ \E v \in {0, 1} : Does("power", ApplyPower(page, v))

Asks(w) == Count /\ Shows(Effects(w)) /\ wanted' = TRUE
OnSensors == page.tab = "sensors"
CalibrateSensors == OnSensors /\ \E what \in {"gyro", "level", "start", "face", "apply", "cancel"} :
                       CanCommand(page, what) /\ Asks(Calibrate(page, what))
EditMount    == OnSensors /\ CanCommand(page, "mount") /\ Does("sensors", EditMounting(page))
DiscardMount == OnSensors /\ page.sens.draft # NoSnap /\ ~MountBusy(page) /\ Does("sensors", DiscardMounting(page))
ApplyMount   == OnSensors /\ CanCommand(page, "mount") /\ page.sens.draft # NoSnap /\ Asks(ApplyMounting(page))
TickSensors  == /\ OnSensors /\ UNCHANGED <<events, wanted>>
                /\ Shows([page EXCEPT !.sens.props = ~@]) \/ Shows([page EXCEPT !.sens.still = ~@])
HideSensors  == /\ OnSensors /\ page.sens.visible /\ Count
                /\ Shows(Effects(SensorsVisible(page, FALSE))) /\ wanted' = FALSE
ShowSensors  == /\ OnSensors /\ ~page.sens.visible /\ UNCHANGED <<events, wanted>>
                /\ Shows(Effects(SensorsVisible(page, TRUE)))

-----------------------------------------------------------------------------
(* The shell, the cable and the field.                                     *)

SwitchTab == /\ Count
             /\ \E t \in tour.tabs \ {page.tab} : Shows(Mount(Leave(page), t))
             /\ wanted' = FALSE
LinkLost  == /\ page.up /\ Count
             /\ page' = Lost(page) /\ wanted' = FALSE
             /\ UNCHANGED <<fc, unstopped, lost>>
\* The same controller or another one; no pulse and no calibration outlasts the reconnect.
LinkUp    == /\ ~page.up
             /\ fc' \in tour.controllers \cup {Unplugged(fc)}
             /\ page' = Connected(page) /\ unstopped' = FALSE /\ lost' = FALSE
             /\ UNCHANGED <<events, wanted>>
Field     == \/ /\ fc.spin /\ fc' = PulseEnds(fc) /\ UNCHANGED events
             \/ fc' \in Calibrates(fc) /\ UNCHANGED events
             \/ Count /\ fc' \in {FallsBack(fc), Toggles(fc)} \ {fc}
FieldChanges == Field /\ UNCHANGED <<page, wanted, unstopped, lost>>

Step ==
  \/ Answered \/ TimedOut \/ QueueTimeout \/ PageTimers \/ Ages \/ RequestExpires
  \/ StartTest \/ SetRate \/ StopTest \/ TickProps \/ TickStationary \/ Hide \/ Show
  \/ SetDirection \/ ReadAgain \/ SetPoles
  \/ SaveStorage \/ RefreshStorage \/ ExportStorage
  \/ SaveFilters \/ DefaultFilters \/ ReloadFilters
  \/ SelectLoopRate \/ SaveLoopRate \/ RereadLoopRate \/ RefreshSetup \/ DefaultSettings
  \/ ApplyReceiverMap \/ ApplyPowerConfig \/ ReloadRates \/ PreviewRates \/ SaveRateDraft
  \/ RereadModes \/ AssignSwitch \/ ApplyModeRange \/ SelectControlMode
  \/ CalibrateSensors \/ EditMount \/ DiscardMount \/ ApplyMount \/ TickSensors \/ HideSensors \/ ShowSensors
  \/ SwitchTab \/ LinkLost \/ LinkUp \/ FieldChanges

PagesNext == Step /\ UNCHANGED tour

PagesSpec == PagesInit /\ [][PagesNext]_pagesVars

-----------------------------------------------------------------------------
(* Properties.                                                             *)

\* the calibrations and changes of the mounting that are on their way
Acting(w) == {j \in InGate(w) : j.who \in ActionNames /\ j.mine /\ Head(j.todo).key # "cancel"}

\* A motor start reaches the wire only while the user still wants it: not once Stop, a confirmation
\* taken back, hiding or leaving the page, or a lost link came between the click and the line
\* (benchController.ts: the generation checks around the preflight).  A calibration or a change of
\* the mounting is handed to the gate only so, and while both confirmations stand, however long it
\* waited for the read before it (requestLane.ts, useSensorTelemetry.ts).
StartStillWanted ==
  [][/\ WireLine(page', "start") /\ ~WireLine(page, "start") => wanted
     /\ Acting(page') \ Acting(page) # {}
          => wanted' /\ page'.tab = "sensors" /\ page'.sens.visible /\ page'.sens.props /\ page'.sens.still]_pagesVars

\* Off the Motors page, or with it hidden, a motor that this page set spinning has a stop on its way,
\* unless a stop was not answered (BenchController.leave, setVisible).
StopsWhenLeft ==
  fc.spin /\ page.up /\ (page.tab # "motors" \/ ~page.bench.visible)
    => unstopped \/ \E j \in InGate(page) : j.who = "stop"

Idle(names) == \A j \in InGate(page) : j.who \notin names

\* What an idle panel shows as held by the controller, the connected controller holds: a read that
\* straddles a reconnect, a set and a read that cross, and a page left and entered again included
\* (MotorDirectionPanel, MotorPolesPanel, the loop-rate selector, the Receiver, Rates, Modes and Power pages).
ShownIsHeld ==
  page.up =>
    /\ page.tab = "motors" /\ Idle(DirectionNames) => page.dir \in {Unknown, fc.ram["direction"]}
    /\ page.tab = "motors" /\ Idle(PolesNames) => page.poles \in {Unknown, fc.ram["poles"]}
    /\ page.tab = "setup" /\ Idle(SetupNames) /\ ~page.loop.busy /\ ~lost => page.loop.get \in {Unknown, fc.ram["rate"]}
    /\ page.tab = "receiver" /\ Idle(ReceiverNames) /\ page.recv.map = page.recv.reading
         => page.recv.reading \in {Unknown, fc.ram["map"]}
    /\ page.tab = "rates" /\ Idle(RatesNames) => page.rates.val \in {Unknown, fc.ram["expo"]}
    /\ page.tab = "modes" /\ Idle(SnapshotNames) => page.modes.snap \in {Unknown, ModesValue(fc.ram)}
    /\ page.tab = "power" /\ Idle(PowerNames) /\ page.power.draft = page.power.reading
         => page.power.reading \in {Unknown, fc.ram["power"]}

SaysSaved(w) == w.stor.msg = "saved" \/ w.filt.msg = "saved" \/ w.loop.msg = "saved" \/ w.rates.msg = "saved"
\* When a page says that the settings are saved, the controller's flash holds what its RAM holds,
\* whatever else was sent around the save and however it was answered (saveSequence, saveSettings).
SavedMeansStored == [][SaysSaved(page') /\ ~SaysSaved(page) => fc'.flash = fc'.ram]_pagesVars

\* The write order of a notch never passes through a pair the controller refuses, when the save began
\* from what the controller holds and no other write crossed it (notchWritePlan).
NotchPlanAccepted ==
  LET line == Head(page.wire.todo)
      then == [fc.ram EXCEPT ![line.key] = line.val]
  IN page.wire # NoJob /\ page.wire.who = "saveFilters" /\ page.wire.alone
       /\ line.op = "set" /\ line.key \in {"center", "cutoff"}
     => PairValid(then["center"], then["cutoff"])

\* The Setup page's poll runs whenever the page is connected and no action is under way: no outcome
\* of an action leaves it paused (pauseLoopPoll, loopPollKick).
PollerResumes == page.tab = "setup" /\ page.up /\ ~page.loop.busy => page.loop.on
=============================================================================
