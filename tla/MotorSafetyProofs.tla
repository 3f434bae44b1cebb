--------------------------- MODULE MotorSafetyProofs --------------------------
(***************************************************************************)
(* Proofs about what keeps the motors still when nobody means them to run. *)
(*                                                                         *)
(* In the firmware (FlightSafety), for every timeout, hold window,         *)
(* watchdog period and failsafe action: type correctness, the link-loss    *)
(* bound, and that the cascade never re-arms on its own.                   *)
(*                                                                         *)
(* In the configurator (ControllerPages), for every set of tabs, edits and *)
(* controllers and every bound: no page starts a motor nobody wants any    *)
(* more or leaves one spinning, and the Setup page's poller resumes.       *)
(***************************************************************************)
EXTENDS FlightSafety, ControllerPages, FiniteSetTheorems, WellFoundedInduction, TLAPS

-----------------------------------------------------------------------------
(* The flight controller.                                                  *)

\* Elapsed time is a clock reading, zero at the reading itself, and one clock
\* step adds one to it until the counter laps.
LEMMA ElapsedFacts ==
    ASSUME NEW t \in Time, NEW u \in Time
    PROVE  /\ Elapsed(t, u) \in Time
           /\ Elapsed(t, t) = 0
           /\ After(t) \in Time
           /\ Elapsed(After(t), u) =
                IF Elapsed(t, u) + 1 = Wrap THEN 0 ELSE Elapsed(t, u) + 1
           /\ After(t) = u <=> Elapsed(t, u) + 1 = Wrap
  BY WrapAssumption DEF Elapsed, After, Time

\* Disarming and leaving the arming alone keep their variables Boolean.
LEMMA ArmTypes ==
    ASSUME TypeOK, Disarm \/ KeepArm
    PROVE  armed' \in BOOLEAN /\ released' \in BOOLEAN /\ lapped' \in BOOLEAN
  BY DEF TypeOK, Disarm, KeepArm, histVars

\* So does a whole step that changes nothing but these and the Boolean state of
\* the hardware and the tasks.
LEMMA HardwareTypes ==
    ASSUME TypeOK, UNCHANGED <<peers, timeVars, rxVars, fsVars, sample_ok, rev_changed>>,
           healthy' \in BOOLEAN, output_ok' = output_ok, manual' = manual,
           arm_low_seen' \in BOOLEAN, unspent' \in BOOLEAN,
           bench' \in BOOLEAN, pending' = pending,
           armed' \in BOOLEAN, released' \in BOOLEAN, lapped' \in BOOLEAN
    PROVE  TypeOK'
  BY DEF TypeOK, timeVars, rxVars, fsVars

\* Every step keeps every variable in its type.
LEMMA TypeStep == TypeOK /\ [Next]_vars => TypeOK'
<1> SUFFICES ASSUME TypeOK, [Next]_vars PROVE TypeOK'
  OBVIOUS
<1> USE DEF TypeOK
<1>a. 0 \in Time
  BY WrapAssumption DEF Time
<1>b. UNCHANGED peers
  BY DEF Next, vars
<1> USE <1>b
<1>1. CASE Tick
  BY <1>1, ElapsedFacts DEF Tick, rxVars, fsVars, hwVars, taskVars, witness
<1>2. CASE Reset
  BY <1>2, <1>a DEF Reset, Steps, Switch, Stages
<1>3. CASE NoteStats
  BY <1>3 DEF NoteStats, timeVars, fsVars, hwVars, taskVars, witness, histVars
<1>4. ASSUME NEW c \in Switch, SetChannels(c) PROVE TypeOK'
  <2>1. released' \in BOOLEAN
    BY <1>4 DEF SetChannels
  <2> QED
    <3>1. /\ now' \in Time /\ feed' \in Time /\ pc' \in Steps
          /\ armed' \in BOOLEAN
      BY <1>4 DEF SetChannels, timeVars
    <3>2. /\ stats' \in {"none", "good", "lost"} /\ stats_ms' \in Time
          /\ fresh' \in BOOLEAN /\ last_frame' \in Time /\ arm_sw' \in Switch
          /\ never_seen' \in BOOLEAN /\ stage' \in Stages /\ stage_ms' \in Time
      BY <1>4 DEF SetChannels, Stages
    <3>3. UNCHANGED <<hwVars, taskVars>> /\ lapped' = FALSE
      BY <1>4 DEF SetChannels
    <3> QED
      BY <2>1, <3>1, <3>2, <3>3 DEF hwVars, taskVars, witness
<1>5. CASE RxDone
  BY <1>5 DEF RxDone, rxVars, fsVars, hwVars, taskVars, witness, histVars, Steps
<1>6. CASE BgFailsafeTick
  <2>1. never_seen' = never_seen /\ stage' \in Stages /\ stage_ms' \in Time
    BY <1>6 DEF BgFailsafeTick, FailsafeTick, rx_lost, fsVars, Stages
  <2>2. armed' \in BOOLEAN /\ released' \in BOOLEAN /\ lapped' \in BOOLEAN
    <3>1. Disarm \/ KeepArm
      BY <1>6 DEF BgFailsafeTick, FailsafeTick, rx_lost, KeepArm
    <3> QED
      BY <3>1, ArmTypes
  <2> QED
    BY <1>6, <2>1, <2>2 DEF BgFailsafeTick, rxVars, hwVars, taskVars, witness, Steps
<1>7. CASE BackgroundSlot
  BY <1>7 DEF BackgroundSlot, rxVars, fsVars, hwVars, taskVars, witness, histVars, Steps
<1>8. ASSUME NEW o \in {"ok", "late", "attitude", "none", "fault"},
             NEW d \in BOOLEAN, LoopGyro(o, d)
      PROVE TypeOK'
  <2>1. Disarm \/ KeepArm
    BY <1>8 DEF LoopGyro
  <2>2. sample_ok' \in BOOLEAN
    BY <1>8 DEF LoopGyro
  <2>4. healthy' \in BOOLEAN
    BY <1>8 DEF LoopGyro
  <2>3. arm_low_seen' \in BOOLEAN /\ unspent' \in BOOLEAN
    BY <1>8 DEF LoopGyro, witness
  <2> QED
    BY <1>8, <2>1, <2>2, <2>3, <2>4, ArmTypes DEF LoopGyro, rxVars, fsVars, Steps
<1>9. ASSUME NEW r \in BOOLEAN, NEW l \in BOOLEAN, NEW k \in BOOLEAN,
             LoopPid(r, l, k)
      PROVE TypeOK'
  <2>1. armed' \in BOOLEAN /\ released' \in BOOLEAN /\ lapped' \in BOOLEAN
    <3>1. \/ Disarm \/ KeepArm
          \/ armed' = TRUE /\ UNCHANGED histVars
      BY <1>9 DEF LoopPid, witness_kept
    <3> QED
      BY <3>1, ArmTypes DEF histVars
  <2>2. arm_low_seen' \in BOOLEAN /\ unspent' \in BOOLEAN
    BY <1>9 DEF LoopPid, witness_kept
  <2> QED
    BY <1>9, <2>1, <2>2 DEF LoopPid, witness_kept, rxVars, fsVars, hwVars, Steps
<1>10. ASSUME NEW d \in BOOLEAN, NEW b \in BOOLEAN, LoopMixer(d, b) PROVE TypeOK'
  <2>1. Disarm \/ KeepArm
    BY <1>10 DEF LoopMixer
  <2>2. output_ok' \in BOOLEAN
    BY <1>10 DEF LoopMixer
  <2> QED
    BY <1>10, <2>1, <2>2, ArmTypes DEF LoopMixer, rxVars, fsVars, witness, Steps
<1>11. CASE CliDone
  BY <1>11 DEF CliDone, rxVars, fsVars, hwVars, taskVars, witness, histVars, Steps
<1>12. CASE HealthFault
  <2>1. armed' \in BOOLEAN /\ released' \in BOOLEAN /\ lapped' \in BOOLEAN
    BY <1>12, ArmTypes DEF HealthFault
  <2> QED
    BY <1>12, <2>1, HardwareTypes DEF HealthFault, taskVars, witness
<1>13. CASE Cli
  <2>1. CASE CliArm(TRUE)
    BY <2>1 DEF CliArm, timeVars, rxVars, fsVars, hwVars, histVars
  <2>2. CASE CliDisarm
    <3>1. armed' \in BOOLEAN /\ released' \in BOOLEAN /\ lapped' \in BOOLEAN
      BY <2>2, ArmTypes DEF CliDisarm
    <3> QED
      BY <2>2, <3>1, HardwareTypes DEF CliDisarm, hwVars, witness
  <2>3. CASE CliBenchStart
    BY <2>3 DEF CliBenchStart, timeVars, rxVars, fsVars, hwVars, witness, histVars
  <2>4. CASE CliModeRange
    BY <2>4 DEF CliModeRange, timeVars, fsVars, hwVars, witness
  <2>5. CASE CliReceiver
    <3>1. /\ stats' \in {"none", "good", "lost"} /\ stats_ms' \in Time
          /\ fresh' \in BOOLEAN /\ last_frame' \in Time /\ arm_sw' \in Switch
          /\ never_seen' \in BOOLEAN /\ stage' \in Stages /\ stage_ms' \in Time
      BY <2>5, <1>a DEF CliReceiver, Stages, Switch
    <3>2. UNCHANGED <<timeVars, armed, hwVars, taskVars, histVars>>
      BY <2>5 DEF CliReceiver
    <3> QED
      BY <3>1, <3>2 DEF timeVars, hwVars, taskVars, witness, histVars
  <2>6. CASE CliCalibrate
    BY <2>6 DEF CliCalibrate, timeVars, rxVars, fsVars, taskVars, witness, histVars
  <2> QED
    BY <1>13, <2>1, <2>2, <2>3, <2>4, <2>5, <2>6 DEF Cli
<1>14. CASE UNCHANGED vars
  BY <1>14 DEF vars, timeVars, rxVars, fsVars, hwVars, taskVars, witness, histVars
<1> QED
  BY <1>1, <1>2, <1>3, <1>4, <1>5, <1>6, <1>7, <1>8, <1>9, <1>10, <1>11, <1>12,
     <1>13, <1>14 DEF Next, Receive, Loop, GyroSlot, Cascade

\* The state stays in its types: one type per variable, whatever the inputs.
THEOREM TypeCorrect == Spec => []TypeOK
<1>a. 0 \in Time
  BY WrapAssumption DEF Time
<1>1. Init => TypeOK
  BY <1>a DEF Init, TypeOK, Steps, Stages, Switch
<1> QED
  BY <1>1, TypeStep, PTL DEF Spec

-----------------------------------------------------------------------------
(* The link-loss bound.                                                    *)

\* What the type invariant says of every elapsed time, as numbers.
LEMMA SinceNat ==
    ASSUME TypeOK
    PROVE  /\ \A t \in Time : Since(t) \in Nat /\ Since(t) < Wrap
           /\ Since(now) = 0
           /\ RX_TIMEOUT \in Nat /\ HOLD_MS \in Nat /\ WATCHDOG \in Nat
           /\ Wrap \in Nat /\ RX_TIMEOUT + HOLD_MS + 4 * WATCHDOG < Wrap
<1>1. now \in Time
  BY DEF TypeOK
<1>2. \A t \in Time : Elapsed(now, t) \in Time
  BY <1>1, ElapsedFacts
<1>3. Elapsed(now, now) = 0
  BY <1>1, ElapsedFacts
<1>4. Wrap \in Nat /\ Time = 0 .. Wrap - 1
  BY WrapAssumption DEF Time
<1> QED
  BY <1>2, <1>3, <1>4, FlightAssumption, ClockAssumption DEF Since

\* The clock keeps the link invariant: a step it is allowed to take advances
\* every timer by one and none of those the invariant bounds reaches Wrap.
LEMMA TickKeepsLink == TypeOK /\ LinkInv /\ Tick => LinkInv'
<1> SUFFICES ASSUME TypeOK, LinkInv, Tick PROVE LinkInv'
  OBVIOUS
<1> DEFINE F == Since(feed)
           A == Since(last_frame)
           S == Since(stage_ms)
<1>1. /\ F \in Nat /\ A \in Nat /\ S \in Nat
      /\ RX_TIMEOUT \in Nat /\ HOLD_MS \in Nat /\ WATCHDOG \in Nat
      /\ Wrap \in Nat /\ RX_TIMEOUT + HOLD_MS + 4 * WATCHDOG < Wrap
  BY SinceNat DEF TypeOK
<1>2. /\ F' = IF F + 1 = Wrap THEN 0 ELSE F + 1
      /\ A' = IF A + 1 = Wrap THEN 0 ELSE A + 1
      /\ S' = IF S + 1 = Wrap THEN 0 ELSE S + 1
      /\ After(now) = last_frame <=> A + 1 = Wrap
  <2>1. now \in Time /\ feed \in Time /\ last_frame \in Time /\ stage_ms \in Time
    BY DEF TypeOK
  <2>2. /\ now' = After(now) /\ feed' = feed /\ last_frame' = last_frame
        /\ stage_ms' = stage_ms
    BY DEF Tick, rxVars, fsVars
  <2> QED
    BY <2>1, <2>2, ElapsedFacts DEF Since
<1>3. Slack' = Slack /\ Slack \in Nat /\ Slack <= WATCHDOG
  BY <1>1 DEF Slack, Tick
<1>4. F < WATCHDOG /\ F' = F + 1
  BY <1>1, <1>2 DEF Tick
<1>5. /\ fresh' = fresh /\ never_seen' = never_seen /\ stage' = stage /\ armed' = armed
      /\ lapped' <=> lapped \/ A + 1 = Wrap
  BY <1>2 DEF Tick, rxVars, fsVars
<1> HIDE DEF F, A, S
<1>8. LinkInv' <=>
        /\ F' <= WATCHDOG
        /\ never_seen' => stage' = "IDLE" /\ ~armed'
        /\ ~never_seen' /\ stage' = "IDLE" =>
             fresh' /\ ~lapped' /\ A' <= RX_TIMEOUT + Slack' + F'
        /\ stage' = "HOLD" =>
             /\ HOLD_MS # 0 /\ ~lapped'
             /\ S' <= HOLD_MS + Slack' + F'
             /\ A' <= S' + RX_TIMEOUT + 2 * WATCHDOG
        /\ stage' = "PROCEDURE" /\ FS_ACTION = "DROP" => ~armed'
  BY DEF LinkInv, F, A, S
<1>9. LinkInv <=>
        /\ F <= WATCHDOG
        /\ never_seen => stage = "IDLE" /\ ~armed
        /\ ~never_seen /\ stage = "IDLE" =>
             fresh /\ ~lapped /\ A <= RX_TIMEOUT + Slack + F
        /\ stage = "HOLD" =>
             /\ HOLD_MS # 0 /\ ~lapped
             /\ S <= HOLD_MS + Slack + F
             /\ A <= S + RX_TIMEOUT + 2 * WATCHDOG
        /\ stage = "PROCEDURE" /\ FS_ACTION = "DROP" => ~armed
  BY DEF LinkInv, F, A, S
<1>6. ~never_seen /\ stage = "IDLE" => A' = A + 1 /\ ~lapped'
  BY <1>1, <1>2, <1>3, <1>4, <1>5, <1>9
<1>7. stage = "HOLD" => A' = A + 1 /\ S' = S + 1 /\ ~lapped'
  BY <1>1, <1>2, <1>3, <1>4, <1>5, <1>9
<1> QED
  BY <1>1, <1>3, <1>4, <1>5, <1>6, <1>7, <1>8, <1>9

\* A step that leaves clock, link and stages alone, and arms only an idle stage
\* that has seen a frame, keeps the link invariant.
LEMMA QuietLink ==
    ASSUME LinkInv, Slack' = Slack,
           UNCHANGED <<now, feed, fresh, last_frame, fsVars, lapped>>,
           armed' => armed \/ (stage = "IDLE" /\ ~never_seen)
    PROVE  LinkInv'
  BY DEF LinkInv, Since, fsVars

\* failsafe_tick keeps it: an idle stage that survives the tick has a frame
\* within the timeout, a hold stage that survives it is inside its window.
LEMMA FailsafeKeepsLink == TypeOK /\ LinkInv /\ BgFailsafeTick => LinkInv'
<1> SUFFICES ASSUME TypeOK, LinkInv, BgFailsafeTick PROVE LinkInv'
  OBVIOUS
<1> DEFINE F == Since(feed)
           A == Since(last_frame)
           S == Since(stage_ms)
<1>1. /\ F \in Nat /\ A \in Nat /\ S \in Nat /\ Since(now) = 0
      /\ RX_TIMEOUT \in Nat /\ HOLD_MS \in Nat /\ WATCHDOG \in Nat
  BY SinceNat DEF TypeOK
<1>2. /\ now' = now /\ feed' = feed /\ last_frame' = last_frame /\ fresh' = fresh
      /\ lapped' = lapped /\ Slack' = 0
      /\ F' = F /\ A' = A
  BY DEF BgFailsafeTick, FailsafeTick, rx_lost, Disarm, KeepArm, histVars, rxVars, Slack, Since
<1>3. never_seen' = never_seen /\ (armed' => armed)
  BY DEF BgFailsafeTick, FailsafeTick, rx_lost, Disarm, KeepArm, histVars, fsVars
<1>4. Slack \in Nat /\ Slack <= WATCHDOG
  BY <1>1 DEF Slack
<1>5. CASE never_seen
  BY <1>1, <1>2, <1>3, <1>5 DEF BgFailsafeTick, FailsafeTick, rx_lost, fsVars, LinkInv
<1>6. CASE ~never_seen /\ stage = "IDLE" /\ A <= RX_TIMEOUT
  <2>1. stage' = "IDLE"
    BY <1>1, <1>6 DEF BgFailsafeTick, FailsafeTick, rx_lost
  <2> QED
    BY <1>1, <1>2, <1>3, <1>6, <2>1 DEF LinkInv
<1>7. CASE ~never_seen /\ stage = "IDLE" /\ A > RX_TIMEOUT
  <2>1. stage_ms' = now /\ S' = 0
    <3>1. stage_ms' = now
      BY <1>1, <1>7 DEF BgFailsafeTick, FailsafeTick, rx_lost
    <3> QED
      BY <3>1, <1>1, <1>2 DEF Since
  <2>2. A <= RX_TIMEOUT + 2 * WATCHDOG /\ ~lapped
    BY <1>1, <1>4, <1>7 DEF LinkInv
  <2>3. CASE HOLD_MS = 0
    <3>1. stage' = "PROCEDURE" /\ (FS_ACTION = "DROP" => ~armed')
      BY <1>1, <1>7, <2>3 DEF BgFailsafeTick, FailsafeTick, rx_lost, Disarm
    <3> QED
      BY <1>1, <1>2, <1>3, <1>7, <3>1 DEF LinkInv
  <2>4. CASE HOLD_MS # 0
    <3>1. stage' = "HOLD"
      BY <1>1, <1>7, <2>4 DEF BgFailsafeTick, FailsafeTick, rx_lost
    <3> QED
      BY <1>1, <1>2, <1>3, <1>7, <2>1, <2>2, <2>4, <3>1 DEF LinkInv
  <2> QED
    BY <2>3, <2>4
<1>8. CASE ~never_seen /\ stage = "HOLD" /\ S < HOLD_MS
  <2>1. stage' = "HOLD" /\ stage_ms' = stage_ms
    BY <1>1, <1>8 DEF BgFailsafeTick, FailsafeTick, rx_lost
  <2>2. S' = S
    BY <2>1, <1>2 DEF Since
  <2> QED
    BY <1>1, <1>2, <1>3, <1>8, <2>1, <2>2 DEF LinkInv
<1>9. CASE ~never_seen /\ stage = "HOLD" /\ S >= HOLD_MS
  <2>1. stage' = "PROCEDURE" /\ (FS_ACTION = "DROP" => ~armed')
    BY <1>1, <1>9 DEF BgFailsafeTick, FailsafeTick, rx_lost, Disarm
  <2> QED
    BY <1>1, <1>2, <1>3, <1>9, <2>1 DEF LinkInv
<1>10. CASE ~never_seen /\ stage = "PROCEDURE"
  <2>1. stage' = "PROCEDURE"
    BY <1>10 DEF BgFailsafeTick, FailsafeTick, rx_lost
  <2> QED
    BY <1>1, <1>2, <1>3, <1>10, <2>1 DEF LinkInv
<1> QED
  BY <1>1, <1>5, <1>6, <1>7, <1>8, <1>9, <1>10 DEF TypeOK, Stages

\* Every step keeps the link invariant.
LEMMA LinkStep == TypeOK /\ LinkInv /\ [Next]_vars => LinkInv'
<1> SUFFICES ASSUME TypeOK, LinkInv, [Next]_vars PROVE LinkInv'
  OBVIOUS
<1>a. Since(now) = 0 /\ Since(feed) \in Nat /\ Since(last_frame) \in Nat
  BY SinceNat DEF TypeOK
<1>b. RX_TIMEOUT \in Nat /\ WATCHDOG \in Nat /\ HOLD_MS \in Nat
  BY FlightAssumption
<1>1. CASE Tick
  BY <1>1, TickKeepsLink
<1>2. CASE Reset
  <2>1. Since(feed)' = 0
    BY <1>2, WrapAssumption DEF Reset, Since, Elapsed
  <2> QED
    BY <1>2, <1>b, <2>1 DEF Reset, LinkInv
<1>3. CASE NoteStats
  BY <1>3, QuietLink DEF NoteStats, timeVars, histVars, Slack
<1>4. ASSUME NEW c \in Switch, SetChannels(c) PROVE LinkInv'
  <2>1. /\ now' = now /\ feed' = feed /\ last_frame' = now /\ fresh' = TRUE
        /\ stage' = "IDLE" /\ never_seen' = FALSE /\ lapped' = FALSE
        /\ Slack' = Slack
    BY <1>4 DEF SetChannels, timeVars, Slack
  <2>2. Since(last_frame)' = 0 /\ Since(feed)' = Since(feed)
    BY <2>1, <1>a DEF Since
  <2>3. Slack \in Nat
    BY <1>b DEF Slack
  <2> QED
    BY <2>1, <2>2, <2>3, <1>a, <1>b DEF LinkInv
<1>5. CASE RxDone
  BY <1>5, QuietLink DEF RxDone, rxVars, histVars, Slack
<1>6. CASE BgFailsafeTick
  BY <1>6, FailsafeKeepsLink
<1>7. CASE BackgroundSlot
  BY <1>7, QuietLink DEF BackgroundSlot, rxVars, histVars, Slack
<1>8. ASSUME NEW o, NEW d \in BOOLEAN, LoopGyro(o, d) PROVE LinkInv'
  BY <1>8, QuietLink DEF LoopGyro, rxVars, histVars, Slack, Disarm, KeepArm
<1>9. ASSUME NEW r \in BOOLEAN, NEW l \in BOOLEAN, NEW k \in BOOLEAN,
             LoopPid(r, l, k)
      PROVE LinkInv'
  <2>1. /\ Slack' = Slack
        /\ UNCHANGED <<now, feed, fresh, last_frame, fsVars, lapped>>
    BY <1>9 DEF LoopPid, witness_kept, rxVars, histVars, Slack, Disarm, KeepArm
  <2>2. armed' => armed \/ CanArm(r)
    BY <1>9 DEF LoopPid, witness_kept, Disarm, KeepArm
  <2> QED
    BY <2>1, <2>2, QuietLink DEF CanArm, failsafe_active
<1>10. ASSUME NEW d \in BOOLEAN, NEW b \in BOOLEAN, LoopMixer(d, b) PROVE LinkInv'
  BY <1>10, QuietLink DEF LoopMixer, rxVars, histVars, Slack, Disarm, KeepArm
<1>11. CASE CliDone
  <2>1. CASE pc = "bgcli"
    BY <1>11, <2>1, QuietLink DEF CliDone, rxVars, histVars, Slack
  <2>2. CASE pc = "cli"
    <3>1. /\ now' = now /\ feed' = now /\ fresh' = fresh /\ last_frame' = last_frame
          /\ UNCHANGED fsVars /\ lapped' = lapped /\ armed' = armed
          /\ Slack = 0 /\ Slack' = WATCHDOG
      BY <1>11, <2>2 DEF CliDone, rxVars, histVars, Slack
    <3>2. /\ Since(feed)' = 0 /\ Since(last_frame)' = Since(last_frame)
          /\ Since(stage_ms)' = Since(stage_ms) /\ Since(stage_ms) \in Nat
      BY <3>1, <1>a, SinceNat DEF Since, fsVars, TypeOK
    <3> QED
      BY <3>1, <3>2, <1>a, <1>b DEF LinkInv, fsVars
  <2> QED
    BY <1>11, <2>1, <2>2 DEF CliDone, InCli
<1>12. CASE HealthFault
  BY <1>12, QuietLink DEF HealthFault, timeVars, rxVars, Slack, Disarm
<1>13. CASE Cli
  <2>1. CASE CliArm(TRUE)
    BY <2>1, QuietLink
       DEF CliArm, CanArm, failsafe_active, timeVars, rxVars, histVars, Slack
  <2>2. CASE CliDisarm
    BY <2>2, QuietLink DEF CliDisarm, timeVars, rxVars, Slack, Disarm
  <2>3. CASE CliBenchStart
    BY <2>3, QuietLink DEF CliBenchStart, timeVars, rxVars, histVars, Slack
  <2>4. CASE CliModeRange
    BY <2>4, QuietLink DEF CliModeRange, timeVars, Slack
  <2>5. CASE CliReceiver
    <3>1. /\ now' = now /\ feed' = feed /\ never_seen' = TRUE /\ stage' = "IDLE"
          /\ ~armed /\ armed' = armed
      BY <2>5 DEF CliReceiver, timeVars
    <3> QED
      BY <3>1 DEF LinkInv, Since
  <2>6. CASE CliCalibrate
    BY <2>6, QuietLink DEF CliCalibrate, timeVars, rxVars, histVars, Slack
  <2> QED
    BY <1>13, <2>1, <2>2, <2>3, <2>4, <2>5, <2>6 DEF Cli
<1>14. CASE UNCHANGED vars
  BY <1>14, QuietLink DEF vars, timeVars, rxVars, histVars, Slack
<1> QED
  BY <1>1, <1>2, <1>3, <1>4, <1>5, <1>6, <1>7, <1>8, <1>9, <1>10, <1>11, <1>12,
     <1>13, <1>14 DEF Next, Receive, Loop, GyroSlot, Cascade

\* The link invariant holds throughout.
THEOREM LinkInvariant == Spec => []LinkInv
<1>1. Init => LinkInv
  <2>1. Init => Since(feed) = 0
    BY WrapAssumption DEF Init, Since, Elapsed
  <2> QED
    BY <2>1, FlightAssumption DEF Init, LinkInv
<1> QED
  BY <1>1, LinkStep, TypeCorrect, PTL DEF Spec

\* For every timeout, hold window and watchdog period, an armed craft under DROP
\* has a frame younger than the bound: failsafe_tick never comes too late.
THEOREM LinkLossBounded == Spec => []LinkLossBound
<1>1. TypeOK /\ LinkInv => LinkLossBound
  <2> SUFFICES ASSUME TypeOK, LinkInv, armed, FS_ACTION = "DROP" PROVE LinkLossBound
    BY DEF LinkLossBound
  <2>1. /\ Since(feed) \in Nat /\ Since(last_frame) \in Nat /\ Since(stage_ms) \in Nat
        /\ RX_TIMEOUT \in Nat /\ HOLD_MS \in Nat /\ WATCHDOG \in Nat
    BY SinceNat DEF TypeOK
  <2>2. Slack \in Nat /\ Slack <= WATCHDOG
    BY <2>1 DEF Slack
  <2>3. ~never_seen /\ stage \in {"IDLE", "HOLD"}
    BY DEF LinkInv, TypeOK, Stages
  <2>4. CASE stage = "IDLE"
    BY <2>1, <2>2, <2>3, <2>4 DEF LinkInv, LinkLossBound
  <2>5. CASE stage = "HOLD"
    BY <2>1, <2>2, <2>3, <2>5 DEF LinkInv, LinkLossBound
  <2> QED
    BY <2>3, <2>4, <2>5
<1> QED
  BY <1>1, TypeCorrect, LinkInvariant, PTL

\* The stages block arming on a link that has lapped the clock: what
\* rx_frame_fresh() reads then never reaches an armed state.
THEOREM NoArmOnLapped == Spec => NoArmOnLappedLink
<1>1. LinkInv /\ [Next]_vars => [~armed /\ armed' => ~lapped /\ rx_frame_fresh]_vars
  <2> SUFFICES ASSUME LinkInv, Next, ~armed, armed'
               PROVE  ~lapped /\ rx_frame_fresh
    OBVIOUS
  <2>1. \E r \in BOOLEAN : CanArm(r)
    <3>1. ASSUME NEW c \in Switch, SetChannels(c) PROVE FALSE
      BY <3>1 DEF SetChannels
    <3>2. ASSUME NEW o, NEW d \in BOOLEAN, LoopGyro(o, d) PROVE FALSE
      BY <3>2 DEF LoopGyro, Disarm, KeepArm
    <3>3. ASSUME NEW d \in BOOLEAN, NEW b \in BOOLEAN, LoopMixer(d, b) PROVE FALSE
      BY <3>3 DEF LoopMixer, Disarm, KeepArm
    <3>4. CASE BgFailsafeTick
      BY <3>4 DEF BgFailsafeTick, FailsafeTick, rx_lost, Disarm, KeepArm
    <3>5. ASSUME NEW r \in BOOLEAN, NEW l \in BOOLEAN, NEW k \in BOOLEAN,
                 LoopPid(r, l, k)
          PROVE CanArm(r)
      BY <3>5 DEF LoopPid, witness_kept, Disarm, KeepArm
    <3>6. ~(Tick \/ Reset \/ NoteStats \/ RxDone \/ BackgroundSlot \/ CliDone \/ HealthFault)
      BY DEF Tick, Reset, NoteStats, RxDone, BackgroundSlot, CliDone, HealthFault, Disarm
    <3>7. CASE Cli
      BY <3>7 DEF Cli, CliArm, CliDisarm, CliBenchStart, CliModeRange, CliReceiver,
                  CliCalibrate, Disarm
    <3> QED
      BY <3>1, <3>2, <3>3, <3>4, <3>5, <3>6, <3>7
         DEF Next, Receive, Loop, GyroSlot, Cascade
  <2> QED
    BY <2>1 DEF CanArm, failsafe_active, LinkInv
<1> QED
  BY <1>1, LinkInvariant, PTL DEF Spec, NoArmOnLappedLink

-----------------------------------------------------------------------------
(* No automatic re-arm.                                                    *)

\* A step that keeps the witness or drops it, does not arm, and leaves link,
\* range and history alone keeps the witness invariant.
LEMMA QuietWitness ==
    ASSUME WitnessInv, UNCHANGED witness \/ ~arm_low_seen', armed' => armed,
           UNCHANGED <<fresh, arm_sw, rev_changed, released>>
    PROVE  WitnessInv'
  BY DEF WitnessInv, witness

\* So does one that disarms: a craft disarmed with the switch inactive has it
\* released, and the witness of an armed craft is one the CLI left unspent.
LEMMA DisarmWitness ==
    ASSUME WitnessInv, Disarm, UNCHANGED witness \/ ~arm_low_seen',
           UNCHANGED <<fresh, arm_sw, rev_changed>>
    PROVE  WitnessInv'
<1>1. ~armed' /\ (released' <=> IF armed THEN arm_sw = "inactive" ELSE released)
  BY DEF Disarm
<1>2. fresh' /\ arm_sw' = "inactive" => released'
  BY <1>1 DEF WitnessInv
<1>3. arm_low_seen' => released' \/ rev_changed' \/ unspent'
  <2>1. arm_low_seen' => arm_low_seen /\ unspent' = unspent
    BY DEF witness
  <2>2. CASE armed
    BY <2>1, <2>2 DEF WitnessInv
  <2>3. CASE ~armed
    BY <2>1, <2>3, <1>1 DEF WitnessInv
  <2> QED
    BY <2>2, <2>3
<1> QED
  BY <1>1, <1>2, <1>3 DEF WitnessInv

\* loop_pid sets the witness only on a fresh inactive switch, and arms only by
\* spending it.
LEMMA PidWitness ==
    ASSUME TypeOK, WitnessInv,
           NEW r \in BOOLEAN, NEW l \in BOOLEAN, NEW k \in BOOLEAN, LoopPid(r, l, k)
    PROVE  WitnessInv'
<1> USE DEF TypeOK
<1>1. UNCHANGED <<fresh, arm_sw>> /\ rev_changed' = FALSE
  BY DEF LoopPid, witness_kept, rxVars
<1>2. arm_low_seen' =>
        \/ arm_sw = "inactive" /\ fresh /\ ~armed'
        \/ arm_low_seen /\ ~rev_changed /\ unspent' = unspent
  BY DEF LoopPid, witness_kept, arm_input_valid, arm_requested, rx_frame_fresh, Disarm, Switch
<1>3. ~armed /\ armed' => arm_low_seen /\ ~rev_changed /\ ~arm_low_seen' /\ released' = released
  BY DEF LoopPid, witness_kept, Disarm, KeepArm, histVars
<1>4. armed /\ armed' => released' = released
  BY DEF LoopPid, witness_kept, Disarm, KeepArm, histVars
<1>5. ~armed' => released' = IF armed THEN arm_sw = "inactive" ELSE released
  BY DEF LoopPid, witness_kept, Disarm, KeepArm, histVars
<1> QED
  BY <1>1, <1>2, <1>3, <1>4, <1>5 DEF WitnessInv

\* Every step keeps the witness invariant.
LEMMA WitnessStep == TypeOK /\ WitnessInv /\ [Next]_vars => WitnessInv'
<1> SUFFICES ASSUME TypeOK, WitnessInv, [Next]_vars PROVE WitnessInv'
  OBVIOUS
<1>1. CASE Tick
  BY <1>1, QuietWitness DEF Tick, rxVars, taskVars, witness
<1>2. CASE Reset
  BY <1>2 DEF Reset, WitnessInv
<1>3. CASE NoteStats
  BY <1>3, QuietWitness DEF NoteStats, taskVars, witness, histVars
<1>4. ASSUME NEW c \in Switch, SetChannels(c) PROVE WitnessInv'
  BY <1>4 DEF SetChannels, taskVars, witness, WitnessInv
<1>5. CASE RxDone
  BY <1>5, QuietWitness DEF RxDone, rxVars, taskVars, witness, histVars
<1>6. CASE BgFailsafeTick
  BY <1>6, QuietWitness, DisarmWitness
     DEF BgFailsafeTick, FailsafeTick, rx_lost, KeepArm, rxVars, taskVars, witness, histVars
<1>7. CASE BackgroundSlot
  BY <1>7, QuietWitness DEF BackgroundSlot, rxVars, taskVars, witness, histVars
<1>8. ASSUME NEW o, NEW d \in BOOLEAN, LoopGyro(o, d) PROVE WitnessInv'
  BY <1>8, QuietWitness, DisarmWitness DEF LoopGyro, KeepArm, rxVars, histVars
<1>9. ASSUME NEW r \in BOOLEAN, NEW l \in BOOLEAN, NEW k \in BOOLEAN,
             LoopPid(r, l, k)
      PROVE WitnessInv'
  BY <1>9, PidWitness
<1>10. ASSUME NEW d \in BOOLEAN, NEW b \in BOOLEAN, LoopMixer(d, b) PROVE WitnessInv'
  BY <1>10, QuietWitness, DisarmWitness DEF LoopMixer, KeepArm, rxVars, histVars
<1>11. CASE CliDone
  BY <1>11, QuietWitness DEF CliDone, rxVars, taskVars, witness, histVars
<1>12. CASE HealthFault
  BY <1>12, DisarmWitness DEF HealthFault, rxVars, taskVars, witness
<1>13. CASE Cli
  <2>1. CASE CliArm(TRUE)
    BY <2>1 DEF CliArm, WitnessInv, rxVars, histVars
  <2>2. CASE CliDisarm
    BY <2>2, DisarmWitness DEF CliDisarm, rxVars
  <2>3. CASE CliBenchStart
    BY <2>3, QuietWitness DEF CliBenchStart, rxVars, histVars
  <2>4. CASE CliModeRange
    BY <2>4 DEF CliModeRange, WitnessInv, witness
  <2>5. CASE CliReceiver
    BY <2>5 DEF CliReceiver, WitnessInv, taskVars, witness, histVars
  <2>6. CASE CliCalibrate
    BY <2>6, QuietWitness DEF CliCalibrate, rxVars, taskVars, witness, histVars
  <2> QED
    BY <1>13, <2>1, <2>2, <2>3, <2>4, <2>5, <2>6 DEF Cli
<1>14. CASE UNCHANGED vars
  BY <1>14, QuietWitness DEF vars, rxVars, taskVars, witness, histVars
<1> QED
  BY <1>1, <1>2, <1>3, <1>4, <1>5, <1>6, <1>7, <1>8, <1>9, <1>10, <1>11, <1>12,
     <1>13, <1>14 DEF Next, Receive, Loop, GyroSlot, Cascade

\* The witness invariant holds throughout.
THEOREM WitnessInvariant == Spec => []WitnessInv
<1>1. Init => WitnessInv
  BY DEF Init, WitnessInv
<1> QED
  BY <1>1, WitnessStep, TypeCorrect, PTL DEF Spec

\* The cascade re-arms only a craft whose ARM switch was seen inactive since it
\* was last disarmed, or whose witness an arming by the CLI left unspent.
THEOREM CascadeNeverRearms == Spec => NoAutoRearm
<1>1. TypeOK /\ WitnessInv /\ [Next]_vars
        => [~armed /\ armed' /\ pc = "pid" => released \/ unspent]_vars
  <2> SUFFICES ASSUME TypeOK, WitnessInv, Next, ~armed, armed', pc = "pid"
               PROVE  released \/ unspent
    OBVIOUS
  <2>1. PICK r \in BOOLEAN, l \in BOOLEAN, k \in BOOLEAN : LoopPid(r, l, k)
    BY DEF Next, Receive, Loop, GyroSlot, Cascade, Tick, Reset, NoteStats,
           SetChannels, RxDone, BgFailsafeTick, BackgroundSlot, LoopGyro, LoopMixer,
           CliDone, HealthFault, Cli, CliArm, CliDisarm, CliBenchStart, CliModeRange,
           CliReceiver, CliCalibrate, InCli
  <2>2. arm_low_seen /\ ~rev_changed
    BY <2>1 DEF LoopPid, witness_kept, Disarm, KeepArm
  <2> QED
    BY <2>2 DEF WitnessInv
<1> QED
  BY <1>1, TypeCorrect, WitnessInvariant, PTL DEF Spec, NoAutoRearm

-----------------------------------------------------------------------------
(* What the failsafe disarms.                                              *)

\* Under DROP and HOLD failsafe_tick() disarms only a craft whose link is lost.
\* Under LAND it is not so: see BgFailsafeTick's fall-through from IDLE.
THEOREM DisarmsOnlyLost == FS_ACTION # "LAND" => (Spec => FailsafeDisarmsOnlyLostLink)
<1> SUFFICES ASSUME FS_ACTION # "LAND" PROVE Spec => FailsafeDisarmsOnlyLostLink
  OBVIOUS
<1>1. BgFailsafeTick /\ armed /\ ~armed' => stage # "IDLE" \/ Since(last_frame) > RX_TIMEOUT
  <2> SUFFICES ASSUME BgFailsafeTick, armed, ~armed', stage = "IDLE"
               PROVE  rx_lost
    BY DEF rx_lost
  <2>1. \/ stage # "IDLE"
        \/ rx_lost
        \/ UNCHANGED armed
    BY DEF BgFailsafeTick, FailsafeTick, KeepArm
  <2> QED
    BY <2>1
<1> QED
  BY <1>1, PTL DEF FailsafeDisarmsOnlyLostLink

-----------------------------------------------------------------------------
(* The browser as the proofs see it.                                       *)

BrowserFields == {"wire", "queue", "next", "up", "tab", "bench", "stor", "dir", "poles", "filt", "loop",
                  "recv", "rates", "modes", "sens", "power"}
BenchFields == {"visible", "arm", "fresh", "rate", "props", "still", "act", "stopping", "window", "motion"}
LoopFields  == {"get", "report", "done", "busy", "poll", "on", "skips", "seen", "kick", "dep", "msg"}
SensFields  == {"snap", "safe", "fresh", "props", "still", "pending", "old", "visible", "draft", "rev"}
JobFields   == {"who", "todo", "got", "mine", "here", "late", "alone"}

StartLine == Line("start", "", 0, "start")

OtherNames == DirectionNames \cup PolesNames \cup StorageNames \cup FiltersNames \cup SetupNames
              \cup ReceiverNames \cup RatesNames \cup ModesNames \cup SensorsNames \cup PowerNames
AllNames   == Flight \cup {"stop"} \cup OtherNames

IsSeq(s) == s \in Seq({s[i] : i \in DOMAIN s})

\* Where a request may hold the gate: its next line follows one that a refusal ends it at.
Unheld(s)  == \A i \in 1 .. Len(s) : s[i].cls # "held"
Chained(s) == \A i \in 2 .. Len(s) : s[i].cls = "held" => s[i - 1].op \in {"storage", "save"} /\ s[i - 1].key = ""
Released(s) == \A i \in 1 .. Len(s) : i + 1 >= Len(s) => s[i].cls # "held"
HeldRight(who, s) ==
  CASE who \in StorageNames \cup SetupNames \cup {"defaultsFilters"} -> TRUE
    [] who = "saveFilters" -> Chained(s)
    [] who = "saveRates"   -> Released(s)
    [] OTHER -> Unheld(s)

\* No line of another job starts a motor.
Plain(who, s) == /\ IsSeq(s)
                 /\ \A i \in 1 .. Len(s) : s[i].op # "start"
                 /\ HeldRight(who, s)
                 /\ who \in ActionNames => \A i \in 1 .. Len(s) : s[i].key = "cancel" => Len(s) = 1

\* The pages whose jobs must not outlive them unnoticed.
AtHome(tab, who) ==
  /\ who \in Flight => tab = "motors"
  /\ who \in SetupNames => tab = "setup"
  /\ who \in ReceiverNames => tab = "receiver"
  /\ who \in SensorsNames => tab = "sensors"

\* A job that has a line to send.
JobOK(tab, j) ==
  /\ DOMAIN j = JobFields /\ j.who \in AllNames /\ j.todo # <<>>
  /\ j.mine => j.here
  /\ j.here => AtHome(tab, j.who)
  /\ j.who = "stop" => j \in StopJobs
  /\ j.who = "test" => (j.todo = TestLines /\ j.got = <<>>) \/ (j.todo = <<StartLine>> /\ Len(j.got) = 1)
  /\ j.who \notin {"test", "stop"} => Plain(j.who, j.todo)
  /\ j.who = "sensors" => Len(j.todo) = 1
\* ... and has not got as far as to start a motor
WaitOK(tab, j) == JobOK(tab, j) /\ (j.who = "test" => j.todo = TestLines)

Fine(w) ==
  /\ DOMAIN w = BrowserFields /\ DOMAIN w.bench = BenchFields /\ DOMAIN w.loop = LoopFields
  /\ IsSeq(w.queue)
  /\ \A i \in 1 .. Len(w.queue) : WaitOK(w.tab, w.queue[i])
  /\ w.wire # NoJob => JobOK(w.tab, w.wire)
  /\ w.next # NoJob => WaitOK(w.tab, w.next) /\ w.next.here /\ w.next.who # "sensors"

HasStop(w)  == \E j \in InGate(w) : j.who = "stop"
HereStop(w) == \E j \in InGate(w) : j.who = "stop" /\ j.here
Starting(w) == WireLine(w, "start")

\* The poller of the Setup page: its effect ran with what the page now shows, or will run.
Synced(w)  == w.loop.dep = <<w.up, w.loop.busy>> /\ ~w.loop.kick => w.loop.on = (w.up /\ ~w.loop.busy)
Settled(w) == /\ w.loop.dep = <<w.up, w.loop.busy>> /\ ~w.loop.kick
              /\ w.loop.on = (w.up /\ ~w.loop.busy)

\* The bench knows of a motor that may run.
OnBench(w) == w.tab = "motors" /\ w.bench.visible /\ w.bench.motion /\ w.bench.window

\* A motor test or an action of the Sensors page that is still wanted.
Eager(j)   == j.mine /\ (j.who = "test" \/ (j.who \in ActionNames /\ Head(j.todo).key # "cancel"))
NextWaits(w) == w.next # NoJob /\ Eager(w.next)
Wants(w)   == (\E j \in InGate(w) : Eager(j)) \/ NextWaits(w)
Reader(j)  == j.who = "sensors" /\ j.here
Reading(w) == \E j \in InGate(w) : Reader(j)
\* The telemetry is asked for once at a time.
OneReader(w) ==
  /\ w.wire # NoJob /\ Reader(w.wire) => \A i \in 1 .. Len(w.queue) : ~Reader(w.queue[i])
  /\ \A i, k \in 1 .. Len(w.queue) : Reader(w.queue[i]) /\ Reader(w.queue[k]) => i = k
LaneRight(w) ==
  w.tab = "sensors" => /\ DOMAIN w.sens = SensFields
                       /\ Acting(w) # {} => ~Reading(w)
                       /\ w.sens.old => w.sens.snap = NoSnap /\ Acting(w) = {} /\ ~NextWaits(w) /\ ~Reading(w)

\* What the browser keeps, apart from who started what.
Ready(w) == /\ Fine(w) /\ w.tab \in Tabs /\ OneReader(w) /\ LaneRight(w)
            /\ Wants(w) => w.up
            /\ w.tab = "setup" => Settled(w)
            /\ w.tab = "motors" /\ w.bench.stopping => HereStop(w)

StopComes == page.up /\ (fc.spin \/ Starting(page)) => unstopped \/ HasStop(page) \/ OnBench(page)

\* The inductive invariant.
PagesInv ==
  /\ Ready(page)
  /\ "spin" \in DOMAIN fc /\ tour \in Tours
  /\ StopComes
  /\ Starting(page) => page.up
  /\ Wants(page) => wanted

-----------------------------------------------------------------------------
(* What a part of a step does to the browser.                              *)

\* No motor starts, no stop is lost, and the bench forgets no motor that may run.
Base(w, v) ==
  /\ v.tab = w.tab /\ v.up = w.up
  /\ v.bench.visible = w.bench.visible /\ v.bench.stopping = w.bench.stopping
  /\ w.bench.motion => v.bench.motion
  /\ w.bench.window => v.bench.window
  /\ HasStop(w) => HasStop(v)
  /\ HereStop(w) => HereStop(v)
  /\ Starting(v) => Starting(w)

\* Nothing is asked for that was not.
Calm(w, v) ==
  /\ Base(w, v)
  /\ v.sens = w.sens
  /\ Acting(v) \subseteq Acting(w)
  /\ Reading(v) => Reading(w)
  /\ OneReader(w) => OneReader(v)
  /\ NextWaits(v) => NextWaits(w)
  /\ Wants(v) => Wants(w)

Goes(w, v) == Fine(v) /\ Calm(w, v) /\ (Synced(w) => Synced(v))

\* Only what the pages show has changed.
Shown(w, v) == /\ DOMAIN v = DOMAIN w
               /\ v.wire = w.wire /\ v.queue = w.queue /\ v.next = w.next
               /\ v.up = w.up /\ v.tab = w.tab
\* ... by a page other than the bench, the Setup and the Sensors page
Same(w, v) == Shown(w, v) /\ v.bench = w.bench /\ v.loop = w.loop /\ v.sens = w.sens

LEMMA GoesRefl == ASSUME NEW w, Fine(w) PROVE Goes(w, w)
  BY DEF Goes, Calm, Base

LEMMA GoesTrans ==
  ASSUME NEW u, NEW v, NEW w, Goes(u, v), Goes(v, w)
  PROVE  Goes(u, w)
  BY DEF Goes, Calm, Base

LEMMA ShownFine ==
  ASSUME NEW w, NEW v, Fine(w), Shown(w, v), DOMAIN v.bench = BenchFields, DOMAIN v.loop = LoopFields
  PROVE  /\ Fine(v)
         /\ HasStop(v) <=> HasStop(w)
         /\ HereStop(v) <=> HereStop(w)
         /\ Starting(v) <=> Starting(w)
         /\ Acting(v) = Acting(w)
         /\ Reading(v) <=> Reading(w)
         /\ OneReader(v) <=> OneReader(w)
         /\ NextWaits(v) <=> NextWaits(w)
         /\ Wants(v) <=> Wants(w)
<1>1. InGate(v) = InGate(w)
  BY DEF Shown, InGate, Waits
<1>2. Fine(v)
  BY DEF Fine, Shown
<1>3. Acting(v) = Acting(w)
  BY <1>1 DEF Acting
<1>4. NextWaits(v) <=> NextWaits(w)
  BY DEF NextWaits, Shown
<1>5. (Starting(v) <=> Starting(w)) /\ (OneReader(v) <=> OneReader(w))
  BY DEF Starting, WireLine, OneReader, Shown
<1> QED
  BY <1>1, <1>2, <1>3, <1>4, <1>5 DEF HasStop, HereStop, Reading, Wants

LEMMA SameGoes == ASSUME NEW w, NEW v, Fine(w), Same(w, v) PROVE Goes(w, v)
<1>1. DOMAIN v.bench = BenchFields /\ DOMAIN v.loop = LoopFields /\ Shown(w, v)
  BY DEF Same, Fine
<1> QED
  BY <1>1, ShownFine DEF Goes, Calm, Base, Same, Shown, Synced

-----------------------------------------------------------------------------
(* Sequences.                                                              *)

LEMMA IsSeqIntro ==
  ASSUME NEW T, NEW s \in Seq(T)
  PROVE  IsSeq(s)
  BY DEF IsSeq

LEMMA SeqWiden ==
  ASSUME NEW S, NEW T, S \subseteq T, NEW s \in Seq(S)
  PROVE  s \in Seq(T)
  OBVIOUS

LEMMA IsSeqFacts ==
  ASSUME NEW s, IsSeq(s)
  PROVE  /\ Len(s) \in Nat /\ DOMAIN s = 1 .. Len(s)
         /\ s # <<>> => /\ Len(s) > 0 /\ Head(s) = s[1] /\ IsSeq(Tail(s)) /\ Len(Tail(s)) = Len(s) - 1
                        /\ \A i \in 1 .. Len(Tail(s)) : Tail(s)[i] = s[i + 1]
<1> DEFINE U == {s[i] : i \in DOMAIN s}
<1>1. s \in Seq(U)
  BY DEF IsSeq
<1> HIDE DEF U
<1>2. Len(s) \in Nat /\ DOMAIN s = 1 .. Len(s)
  BY <1>1
<1>3. ASSUME s # <<>>
      PROVE  /\ Len(s) > 0 /\ Head(s) = s[1] /\ Tail(s) \in Seq(U) /\ Len(Tail(s)) = Len(s) - 1
             /\ \A i \in 1 .. Len(Tail(s)) : Tail(s)[i] = s[i + 1]
  BY <1>1, <1>3
<1> QED
  BY <1>2, <1>3, IsSeqIntro

LEMMA MadeSeq ==
  ASSUME NEW s, NEW n \in Nat, DOMAIN s = 1 .. n, s = [i \in 1 .. n |-> s[i]]
  PROVE  IsSeq(s) /\ Len(s) = n
  BY DEF IsSeq

LEMMA JoinSeq ==
  ASSUME NEW s, NEW t, IsSeq(s), IsSeq(t)
  PROVE  /\ IsSeq(s \o t) /\ Len(s \o t) = Len(s) + Len(t)
         /\ \A i \in 1 .. Len(s) : (s \o t)[i] = s[i]
         /\ \A i \in 1 .. Len(t) : (s \o t)[Len(s) + i] = t[i]
         /\ \A i \in 1 .. Len(s \o t) : (s \o t)[i] = IF i <= Len(s) THEN s[i] ELSE t[i - Len(s)]
<1> DEFINE S == {s[i] : i \in DOMAIN s}
           T == {t[i] : i \in DOMAIN t}
<1>1. s \in Seq(S) /\ t \in Seq(T)
  BY DEF IsSeq
<1> HIDE DEF S, T
<1>2. s \in Seq(S \cup T) /\ t \in Seq(S \cup T)
  BY <1>1, SeqWiden
<1>3. s \o t \in Seq(S \cup T)
  BY <1>2
<1>4. IsSeq(s \o t)
  BY <1>3, IsSeqIntro
<1>5. Len(s) \in Nat /\ Len(t) \in Nat /\ Len(s \o t) = Len(s) + Len(t)
  BY <1>2
<1>6. \A i \in 1 .. Len(s \o t) : (s \o t)[i] = IF i <= Len(s) THEN s[i] ELSE t[i - Len(s)]
  BY <1>2, <1>5
<1>7. \A i \in 1 .. Len(s) : i \in 1 .. Len(s \o t) /\ i <= Len(s)
  BY <1>5
<1>8. \A i \in 1 .. Len(t) :
         Len(s) + i \in 1 .. Len(s \o t) /\ ~(Len(s) + i <= Len(s)) /\ (Len(s) + i) - Len(s) = i
  BY <1>5
<1> QED
  BY <1>4, <1>5, <1>6, <1>7, <1>8

LEMMA CutSeq ==
  ASSUME NEW s, IsSeq(s), NEW m \in Nat, NEW n \in Nat, 1 <= m, n <= Len(s)
  PROVE  LET c == SubSeq(s, m, n)
         IN /\ IsSeq(c) /\ Len(c) = IF n < m THEN 0 ELSE (n - m) + 1
            /\ \A i \in 1 .. Len(c) : c[i] = s[(m + i) - 1]
<1> DEFINE U == {s[i] : i \in DOMAIN s}
<1>1. s \in Seq(U)
  BY DEF IsSeq
<1> HIDE DEF U
<1>2. SubSeq(s, m, n) \in Seq(U)
  <2>1. \A i \in m .. n : s[i] \in U
    BY <1>1
  <2> QED
    BY <1>1, <2>1
<1>3. Len(SubSeq(s, m, n)) = IF n < m THEN 0 ELSE (n - m) + 1
  BY <1>1
<1>4. \A i \in 1 .. Len(SubSeq(s, m, n)) : SubSeq(s, m, n)[i] = s[(m + i) - 1]
  BY <1>1, <1>3
<1> QED
  BY <1>2, <1>3, <1>4, IsSeqIntro

-----------------------------------------------------------------------------
(* The gate.                                                               *)

\* the rest of the browser
Beside(w, v) == /\ DOMAIN v = DOMAIN w /\ v.up = w.up /\ v.tab = w.tab
                /\ v.bench = w.bench /\ v.loop = w.loop /\ v.sens = w.sens

LEMMA CountFacts ==
  ASSUME NEW s, IsSeq(s), NEW j
  PROVE  LET n == Cardinality({i \in 1 .. Len(s) : JobRank(s[i]) <= JobRank(j)})
         IN n \in Nat /\ n <= Len(s)
<1> DEFINE C == {i \in 1 .. Len(s) : JobRank(s[i]) <= JobRank(j)}
<1>1. Len(s) \in Nat
  BY IsSeqFacts
<1>2. IsFiniteSet(1 .. Len(s)) /\ Cardinality(1 .. Len(s)) = Len(s)
  <2> DEFINE m == Len(s)
  <2>1. m \in Int /\ 1 \in Int /\ m \in Nat
    BY <1>1
  <2> HIDE DEF m
  <2>2. IsFiniteSet(1 .. m) /\ Cardinality(1 .. m) = IF 1 > m THEN 0 ELSE (m - 1) + 1
    BY ONLY <2>1, FS_Interval
  <2>3. Cardinality(1 .. m) = m
    BY <2>1, <2>2
  <2> QED
    BY <2>2, <2>3 DEF m
<1>3. C \subseteq 1 .. Len(s)
  OBVIOUS
<1> HIDE DEF C
<1>4. IsFiniteSet(C) /\ Cardinality(C) <= Cardinality(1 .. Len(s))
  BY <1>2, <1>3, FS_Subset
<1>5. Cardinality(C) \in Nat
  BY <1>4, FS_CardinalityType
<1> QED
  BY <1>2, <1>4, <1>5 DEF C

\* p is q with x put in behind the first n.
IsPutIn(p, q, n, x) ==
  /\ IsSeq(p) /\ Len(p) = Len(q) + 1
  /\ \A i \in 1 .. Len(p) : p[i] = IF i <= n THEN q[i] ELSE IF i = n + 1 THEN x ELSE q[i - 1]

LEMMA PutIn ==
  ASSUME NEW q, IsSeq(q), NEW n \in Nat, n <= Len(q), NEW s, IsSeq(s), Len(s) = 1
  PROVE  IsPutIn(SubSeq(q, 1, n) \o s \o SubSeq(q, n + 1, Len(q)), q, n, s[1])
<1> DEFINE a == SubSeq(q, 1, n)
           b == SubSeq(q, n + 1, Len(q))
           c == a \o s
           p == c \o b
<1>1. Len(q) \in Nat
  BY IsSeqFacts
<1>2. IsSeq(a) /\ Len(a) = n /\ \A i \in 1 .. n : a[i] = q[i]
  <2>1. 1 \in Nat /\ 1 <= 1 /\ IsSeq(q)
    OBVIOUS
  <2>2. /\ IsSeq(a) /\ Len(a) = (IF n < 1 THEN 0 ELSE (n - 1) + 1)
        /\ \A i \in 1 .. Len(a) : a[i] = q[(1 + i) - 1]
    BY ONLY <2>1, n \in Nat, n <= Len(q), CutSeq
  <2>3. Len(a) = n
    BY <2>2
  <2>4. \A i \in 1 .. n : (1 + i) - 1 = i
    OBVIOUS
  <2> QED
    BY <2>2, <2>3, <2>4
<1>3. IsSeq(b) /\ Len(b) = Len(q) - n /\ \A i \in 1 .. Len(b) : b[i] = q[n + i]
  <2>1. n + 1 \in Nat /\ 1 <= n + 1 /\ Len(q) <= Len(q)
    BY <1>1
  <2>2. IsSeq(b) /\ Len(b) = (IF Len(q) < n + 1 THEN 0 ELSE (Len(q) - (n + 1)) + 1)
        /\ \A i \in 1 .. Len(b) : b[i] = q[((n + 1) + i) - 1]
    BY <1>1, <2>1, CutSeq
  <2>3. Len(b) = Len(q) - n
    BY <1>1, <2>2
  <2>4. \A i \in 1 .. Len(b) : ((n + 1) + i) - 1 = n + i
    BY <1>1, <2>3
  <2> QED
    BY <2>2, <2>3, <2>4
<1> HIDE DEF a, b
<1>5. IsSeq(c) /\ Len(c) = n + 1
      /\ \A i \in 1 .. Len(c) : c[i] = IF i <= Len(a) THEN a[i] ELSE s[i - Len(a)]
  <2>1. IsSeq(a) /\ IsSeq(s)
    BY <1>2
  <2>2. IsSeq(c) /\ Len(c) = Len(a) + Len(s)
        /\ \A i \in 1 .. Len(c) : c[i] = IF i <= Len(a) THEN a[i] ELSE s[i - Len(a)]
    BY ONLY <2>1, JoinSeq
  <2> QED
    BY <1>2, <2>2
<1>6. \A i \in 1 .. n + 1 : c[i] = IF i <= n THEN q[i] ELSE s[1]
  <2> TAKE i \in 1 .. n + 1
  <2>1. i <= n => i \in 1 .. n
    OBVIOUS
  <2>2. ~(i <= n) => i - n = 1
    OBVIOUS
  <2> QED
    BY <2>1, <2>2, <1>2, <1>5
<1> HIDE DEF c
<1>7. IsSeq(p) /\ Len(p) = Len(c) + Len(b)
      /\ \A i \in 1 .. Len(p) : p[i] = IF i <= Len(c) THEN c[i] ELSE b[i - Len(c)]
  <2>1. IsSeq(c) /\ IsSeq(b)
    BY <1>3, <1>5
  <2> QED
    BY ONLY <2>1, JoinSeq
<1>8. Len(p) = Len(q) + 1
  BY <1>1, <1>3, <1>5, <1>7
<1>9. ASSUME NEW i \in 1 .. Len(p)
      PROVE  p[i] = IF i <= n THEN q[i] ELSE IF i = n + 1 THEN s[1] ELSE q[i - 1]
  <2>1. CASE i <= n + 1
    <3>1. i \in 1 .. n + 1 /\ i <= Len(c)
      BY <2>1, <1>5, <1>8, <1>1
    <3> QED
      BY <3>1, <1>6, <1>7
  <2>2. CASE ~(i <= n + 1)
    <3>1. i - (n + 1) \in 1 .. Len(b) /\ n + (i - (n + 1)) = i - 1 /\ ~(i <= n) /\ i # n + 1
      BY <2>2, <1>1, <1>3, <1>8
    <3> QED
      BY <3>1, <2>2, <1>3, <1>5, <1>7
  <2> QED
    BY <2>1, <2>2
<1> QED
  BY <1>7, <1>8, <1>9 DEF IsPutIn, p, c, a, b

\* A job in the gate, on the wire if that is free.
LEMMA EnterIs ==
  ASSUME NEW w, Fine(w), NEW j, JobOK(w.tab, j), w.wire # NoJob => WaitOK(w.tab, j)
  PROVE  LET e == Enter(w, j)
         IN /\ Fine(e) /\ Beside(w, e) /\ e.next = w.next
            /\ InGate(w) \subseteq InGate(e) /\ InGate(e) \subseteq InGate(w) \cup {j}
            /\ j # NoJob => j \in InGate(e)
            /\ w.wire # NoJob => e.wire = w.wire
            /\ w.wire = NoJob => e.wire = j
            /\ OneReader(w) /\ (Reader(j) => ~Reading(w)) => OneReader(e)
<1> DEFINE e == Enter(w, j)
           q == w.queue
<1>1. /\ DOMAIN w = BrowserFields /\ IsSeq(q) /\ Len(q) \in Nat
      /\ \A i \in 1 .. Len(q) : WaitOK(w.tab, q[i])
  BY IsSeqFacts DEF Fine
<1>2. CASE w.wire = NoJob
  <2>1. e = [w EXCEPT !.wire = j]
    BY <1>2 DEF Enter
  <2>2. DOMAIN e = DOMAIN w /\ e.queue = q /\ e.wire = j /\ e.next = w.next /\ Beside(w, e)
    BY <2>1, <1>1 DEF BrowserFields, Beside
  <2> HIDE DEF e
  <2>3. Fine(e)
    BY <2>2 DEF Fine, Beside
  <2>4. Waits(e) = Waits(w)
    BY <2>2 DEF Waits
  <2>5. ASSUME OneReader(w), Reader(j) => ~Reading(w) PROVE OneReader(e)
    <3>1. Reader(j) => \A i \in 1 .. Len(q) : ~Reader(q[i])
      BY <2>5 DEF Reading, InGate, Waits
    <3> QED
      BY <2>2, <2>5, <3>1 DEF OneReader
  <2> QED
    BY <1>2, <2>2, <2>3, <2>4, <2>5 DEF InGate, e
<1>3. CASE w.wire # NoJob
  <2> DEFINE n == Cardinality({i \in 1 .. Len(q) : JobRank(q[i]) <= JobRank(j)})
             p == SubSeq(q, 1, n) \o <<j>> \o SubSeq(q, n + 1, Len(q))
  <2>1. n \in Nat /\ n <= Len(q)
    BY <1>1, CountFacts
  <2>2. e = [w EXCEPT !.queue = p]
    BY <1>3 DEF Enter
  <2> HIDE DEF n
  <2>3. IsPutIn(p, q, n, j)
    <3> DEFINE s == <<j>>
    <3>1. IsSeq(s) /\ Len(s) = 1 /\ s[1] = j
      <4>1. s \in Seq({j})
        OBVIOUS
      <4> QED
        BY <4>1, IsSeqIntro
    <3>2. IsSeq(q) /\ p = SubSeq(q, 1, n) \o s \o SubSeq(q, n + 1, Len(q))
      BY <1>1
    <3> HIDE DEF q, p, s
    <3>3. IsPutIn(p, q, n, s[1])
      BY ONLY <3>1, <3>2, <2>1, PutIn
    <3> QED
      BY ONLY <3>1, <3>3
  <2>4. DOMAIN e = DOMAIN w /\ e.queue = p /\ e.wire = w.wire /\ e.next = w.next /\ Beside(w, e)
    BY <2>2, <1>1 DEF BrowserFields, Beside
  <2> HIDE DEF e, p
  <2>5. ASSUME NEW i \in 1 .. Len(p) PROVE WaitOK(w.tab, p[i]) /\ p[i] \in Waits(w) \cup {j}
    <3>1. i <= n => i \in 1 .. Len(q)
      BY <2>1, <2>3, <1>1 DEF IsPutIn
    <3>2. ~(i <= n) /\ i # n + 1 => i - 1 \in 1 .. Len(q)
      BY <2>1, <2>3, <1>1 DEF IsPutIn
    <3> QED
      BY <1>1, <1>3, <2>3, <3>1, <3>2 DEF Waits, IsPutIn
  <2>6. Fine(e)
    BY <2>3, <2>4, <2>5 DEF Fine, Beside, IsPutIn
  <2>7. ASSUME NEW i \in 1 .. Len(q) PROVE q[i] \in Waits(e)
    <3>1. i <= n => i \in 1 .. Len(p) /\ p[i] = q[i]
      BY <1>1, <2>1, <2>3 DEF IsPutIn
    <3>2. ~(i <= n) => i + 1 \in 1 .. Len(p) /\ p[i + 1] = q[i]
      <4>1. ~(i <= n) => i + 1 \in 1 .. Len(p) /\ ~(i + 1 <= n) /\ i + 1 # n + 1 /\ (i + 1) - 1 = i
        BY <1>1, <2>1, <2>3 DEF IsPutIn
      <4> QED
        BY <4>1, <2>3 DEF IsPutIn
    <3> QED
      BY <2>4, <3>1, <3>2 DEF Waits
  <2>8. j \in Waits(e)
    <3>1. n + 1 \in 1 .. Len(p) /\ ~(n + 1 <= n)
      BY <1>1, <2>1, <2>3 DEF IsPutIn
    <3> QED
      BY <3>1, <2>3, <2>4 DEF Waits, IsPutIn
  <2>9. Waits(w) \subseteq Waits(e) /\ Waits(e) \subseteq Waits(w) \cup {j}
    BY <2>4, <2>5, <2>7 DEF Waits
  <2>10. ASSUME OneReader(w), Reader(j) => ~Reading(w) PROVE OneReader(e)
    <3> DEFINE from(i) == IF i <= n THEN i ELSE i - 1
    <3>1. ASSUME NEW i \in 1 .. Len(p)
          PROVE  (i = n + 1 /\ p[i] = j) \/ (i # n + 1 /\ from(i) \in 1 .. Len(q) /\ p[i] = q[from(i)])
      <4>1. i # n + 1 => from(i) \in 1 .. Len(q)
        BY <1>1, <2>1, <2>3 DEF IsPutIn
      <4>4. i = n + 1 => ~(i <= n)
        BY <2>1
      <4>2. p[i] = IF i <= n THEN q[i] ELSE IF i = n + 1 THEN j ELSE q[i - 1]
        BY <2>3 DEF IsPutIn
      <4>3. ~(n + 1 <= n)
        BY <2>1
      <4> QED
        <5>1. CASE i = n + 1
          <6>1. p[i] = j
            BY ONLY <4>2, <4>4, <5>1
          <6> HIDE DEF from
          <6> QED
            BY <5>1, <6>1
        <5>2. CASE i # n + 1 /\ i <= n
          <6>1. p[i] = q[i] /\ from(i) = i
            BY <4>2, <5>2
          <6> HIDE DEF from
          <6> QED
            BY <4>1, <5>2, <6>1
        <5>3. CASE i # n + 1 /\ ~(i <= n)
          <6>1. p[i] = q[i - 1] /\ from(i) = i - 1
            BY <4>2, <5>3
          <6> HIDE DEF from
          <6> QED
            BY <4>1, <5>3, <6>1
        <5> QED
          BY <5>1, <5>2, <5>3
    <3>2. ASSUME NEW i \in 1 .. Len(p), NEW k \in 1 .. Len(p), i # n + 1, k # n + 1, from(i) = from(k) PROVE i = k
      BY <3>2, <2>1, <2>3, <1>1 DEF IsPutIn
    <3> HIDE DEF from
    <3>3. /\ Reader(w.wire) => \A i \in 1 .. Len(q) : ~Reader(q[i])
          /\ \A i, k \in 1 .. Len(q) : Reader(q[i]) /\ Reader(q[k]) => i = k
          /\ Reader(j) => ~Reader(w.wire) /\ \A i \in 1 .. Len(q) : ~Reader(q[i])
      BY <1>3, <2>10 DEF OneReader, Reading, InGate, Waits
    <3>4. Reader(w.wire) => \A i \in 1 .. Len(p) : ~Reader(p[i])
      BY <3>1, <3>3
    <3>5. ASSUME NEW i \in 1 .. Len(p), NEW k \in 1 .. Len(p), Reader(p[i]), Reader(p[k]) PROVE i = k
      BY <3>1, <3>2, <3>3, <3>5
    <3> QED
      BY <2>4, <3>4, <3>5 DEF OneReader
  <2> QED
    BY <1>3, <2>4, <2>6, <2>8, <2>9, <2>10 DEF InGate, e
<1> QED
  BY <1>2, <1>3

LEMMA LineFacts ==
  /\ Status.op = "status" /\ Status.key = "" /\ Status.cls = "normal"
  /\ StartLine.op = "start" /\ StartLine.key = "" /\ StartLine.cls = "start"
  /\ StopLine.op = "stop" /\ StopLine.key = "" /\ StopLine.cls = "urgent"
  BY DEF Status, StartLine, StopLine, Line

LEMMA OneLine ==
  ASSUME NEW x
  PROVE  <<x>> # <<>> /\ Head(<<x>>) = x /\ Tail(<<x>>) = <<>> /\ Len(<<x>>) = 1 /\ <<x>>[1] = x /\ IsSeq(<<x>>)
<1>1. <<x>> \in Seq({x})
  OBVIOUS
<1>2. IsSeq(<<x>>)
  BY <1>1, IsSeqIntro
<1>3. <<x>> # <<>> /\ Head(<<x>>) = x /\ Tail(<<x>>) = <<>> /\ Len(<<x>>) = 1 /\ <<x>>[1] = x
  OBVIOUS
<1> QED
  BY <1>2, <1>3

\* a motor test: the status, then the start
LEMMA TestFacts ==
  /\ TestLines # <<>> /\ Head(TestLines) = Status /\ Tail(TestLines) = <<StartLine>>
  /\ TestLines # <<StartLine>>
<1>1. TestLines = <<Status, StartLine>>
  BY DEF TestLines, StartLine
<1>2. Len(<<Status, StartLine>>) = 2 /\ Len(<<StartLine>>) = 1
  OBVIOUS
<1> QED
  BY <1>1, <1>2

LEMMA WaitHead ==
  ASSUME NEW tab, NEW j, WaitOK(tab, j)
  PROVE  Head(j.todo).op # "start"
<1>1. CASE j.who = "test"
  BY <1>1, TestFacts, LineFacts DEF WaitOK
<1>2. CASE j.who = "stop"
  <2>1. j.todo = <<StopLine>>
    BY <1>2 DEF WaitOK, JobOK, StopJobs
  <2> QED
    BY <2>1, LineFacts, OneLine
<1>3. CASE j.who \notin {"test", "stop"}
  <2>1. IsSeq(j.todo) /\ j.todo # <<>> /\ \A i \in 1 .. Len(j.todo) : j.todo[i].op # "start"
    BY <1>3 DEF WaitOK, JobOK, Plain
  <2>2. Head(j.todo) = j.todo[1] /\ 1 \in 1 .. Len(j.todo)
    BY <2>1, IsSeqFacts
  <2> QED
    BY <2>1, <2>2
<1> QED
  BY <1>1, <1>2, <1>3

\* what of a gate's jobs the properties look at
Beyond(j) == ~Eager(j) /\ ~Reader(j)

LEMMA ActingEager ==
  ASSUME NEW w
  PROVE  Acting(w) = {j \in InGate(w) : j.who \in ActionNames /\ Eager(j)}
  BY DEF Acting, Eager, ActionNames

LEMMA EnterGoes ==
  ASSUME NEW w, Fine(w), NEW j, WaitOK(w.tab, j), Beyond(j)
  PROVE  Goes(w, Enter(w, j))
<1> DEFINE e == Enter(w, j)
<1>1. /\ Fine(e) /\ Beside(w, e) /\ e.next = w.next
      /\ InGate(w) \subseteq InGate(e) /\ InGate(e) \subseteq InGate(w) \cup {j}
      /\ w.wire # NoJob => e.wire = w.wire
      /\ w.wire = NoJob => e.wire = j
      /\ OneReader(w) => OneReader(e)
  BY EnterIs DEF WaitOK, Beyond
<1> HIDE DEF e
<1>2. Starting(e) => Starting(w)
  BY <1>1, WaitHead DEF Starting, WireLine
<1>3. Acting(e) \subseteq Acting(w)
  BY <1>1, ActingEager DEF Beyond
<1>4. (Reading(e) => Reading(w)) /\ (NextWaits(e) <=> NextWaits(w))
  BY <1>1 DEF Reading, NextWaits, Beyond
<1>5. Wants(e) => Wants(w)
  BY <1>1, <1>4 DEF Wants, Beyond
<1>6. (HasStop(w) => HasStop(e)) /\ (HereStop(w) => HereStop(e))
  BY <1>1 DEF HasStop, HereStop
<1>7. Synced(w) => Synced(e)
  BY <1>1 DEF Synced, Beside
<1>8. Goes(w, e)
  BY <1>1, <1>2, <1>3, <1>4, <1>5, <1>6, <1>7 DEF Goes, Calm, Base, Beside
<1> QED
  BY <1>8 DEF e

\* The next waiting job goes on the wire, which was free or has been answered.
LEMMA PumpedIs ==
  ASSUME NEW w, Fine(w)
  PROVE  LET v == Pumped(w)
         IN /\ Fine(v) /\ Beside(w, v) /\ v.next = w.next
            /\ \A x \in Waits(w) : x # NoJob => x \in InGate(v)
            /\ InGate(v) \subseteq Waits(w)
            /\ ~Starting(v)
            /\ OneReader(w) => OneReader(v)
<1> DEFINE v == Pumped(w)
           q == w.queue
<1>1. /\ DOMAIN w = BrowserFields /\ IsSeq(q) /\ Len(q) \in Nat
      /\ \A i \in 1 .. Len(q) : WaitOK(w.tab, q[i])
  BY IsSeqFacts DEF Fine
<1>2. CASE q = <<>>
  <2>1. DOMAIN v = DOMAIN w /\ v.wire = NoJob /\ v.queue = q /\ v.next = w.next /\ Beside(w, v)
    BY <1>1, <1>2 DEF Pumped, BrowserFields, Beside
  <2> HIDE DEF v
  <2>2. Waits(w) = {} /\ Waits(v) = {}
    BY <1>2, <2>1 DEF Waits
  <2>3. Fine(v)
    BY <2>1 DEF Fine, Beside
  <2>4. OneReader(v)
    <3>1. v.wire = NoJob /\ Len(v.queue) = 0
      BY <1>2, <2>1
    <3> QED
      BY <3>1 DEF OneReader
  <2> QED
    BY <2>1, <2>2, <2>3, <2>4 DEF InGate, Starting, WireLine, v
<1>3. CASE q # <<>>
  <2>1. DOMAIN v = DOMAIN w /\ v.wire = Head(q) /\ v.queue = Tail(q) /\ v.next = w.next /\ Beside(w, v)
    BY <1>1, <1>3 DEF Pumped, BrowserFields, Beside
  <2>2. /\ Len(q) > 0 /\ Head(q) = q[1] /\ IsSeq(Tail(q)) /\ Len(Tail(q)) = Len(q) - 1
        /\ \A i \in 1 .. Len(Tail(q)) : Tail(q)[i] = q[i + 1]
    BY <1>1, <1>3, IsSeqFacts
  <2> HIDE DEF v
  <2>3. ASSUME NEW i \in 1 .. Len(Tail(q)) PROVE i + 1 \in 1 .. Len(q) /\ Tail(q)[i] = q[i + 1]
    BY <1>1, <2>2
  <2>4. 1 \in 1 .. Len(q)
    BY <1>1, <2>2
  <2>5. Fine(v)
    BY <1>1, <2>1, <2>2, <2>3, <2>4 DEF Fine, Beside, WaitOK
  <2>6. ASSUME NEW i \in 1 .. Len(q) PROVE q[i] = Head(q) \/ q[i] \in Waits(v)
    <3>1. i # 1 => i - 1 \in 1 .. Len(Tail(q)) /\ Tail(q)[i - 1] = q[i]
      <4>1. i # 1 => i - 1 \in 1 .. Len(Tail(q)) /\ (i - 1) + 1 = i
        BY <1>1, <2>2
      <4> QED
        BY <4>1, <2>2
    <3> QED
      BY <2>1, <2>2, <3>1 DEF Waits
  <2>7. Waits(v) \subseteq Waits(w) /\ Head(q) \in Waits(w)
    BY <2>1, <2>2, <2>3, <2>4 DEF Waits
  <2>8. ~Starting(v)
    <3>1. WaitOK(w.tab, Head(q))
      BY <1>1, <2>2, <2>4
    <3> QED
      BY <2>1, <3>1, WaitHead DEF Starting, WireLine
  <2>9. \A x \in Waits(w) : x # NoJob => x \in InGate(v)
    BY <2>1, <2>6 DEF Waits, InGate
  <2>10. ASSUME OneReader(w) PROVE OneReader(v)
    <3>1. \A i \in 1 .. Len(Tail(q)) : i + 1 # 1
      OBVIOUS
    <3>2. \A i, k \in 1 .. Len(q) : Reader(q[i]) /\ Reader(q[k]) => i = k
      BY <2>10 DEF OneReader
    <3>3. Reader(Head(q)) => \A i \in 1 .. Len(Tail(q)) : ~Reader(Tail(q)[i])
      BY <2>2, <2>3, <2>4, <3>1, <3>2
    <3>4. ASSUME NEW i \in 1 .. Len(Tail(q)), NEW k \in 1 .. Len(Tail(q)), Reader(Tail(q)[i]), Reader(Tail(q)[k]) PROVE i = k
      <4>1. i + 1 = k + 1
        BY <2>3, <3>2, <3>4
      <4> QED
        BY <4>1
    <3> QED
      BY <2>1, <3>3, <3>4 DEF OneReader
  <2> QED
    BY <2>1, <2>5, <2>7, <2>8, <2>9, <2>10 DEF InGate, v
<1> QED
  BY <1>2, <1>3

-----------------------------------------------------------------------------
(* CancelQueued.                                                           *)

LEMMA FirstOf ==
  ASSUME NEW S, S \subseteq Nat, S # {}
  PROVE  \E m \in S : \A n \in S : m <= n
<1> DEFINE R == OpToRel(<, Nat)
<1>1. IsWellFoundedOn(R, Nat)
  BY NatLessThanWellFounded
<1>2. \A x, y \in Nat : <<x, y>> \in R <=> x < y
  BY DEF OpToRel
<1> HIDE DEF R
<1>3. PICK m \in S : \A n \in S : <<n, m>> \notin R
  BY <1>1, WFMin
<1>4. ASSUME NEW n \in S PROVE m <= n
  <2>1. n \in Nat /\ m \in Nat
    OBVIOUS
  <2>2. ~(n < m)
    BY <2>1, <1>2, <1>3
  <2> QED
    BY <2>1, <2>2
<1> QED
  BY <1>4

Stays(names, j) == j.who \notin names \/ ~j.here \/ Head(j.todo).cls = "held"

\* f[i] are the jobs that stay, of the first i of q.
Sifts(f, q, n, names) ==
  f = [i \in 0 .. n |-> IF i = 0 THEN <<>> ELSE IF Stays(names, q[i]) THEN Append(f[i - 1], q[i]) ELSE f[i - 1]]

LEMMA SiftExists ==
  ASSUME NEW q, NEW names, NEW n \in Nat
  PROVE  \E f : Sifts(f, q, n, names)
<1> DEFINE B == {m \in Nat : ~\E f : Sifts(f, q, m, names)}
<1> SUFFICES ASSUME B # {} PROVE FALSE
  OBVIOUS
<1>1. PICK m \in B : \A k \in B : m <= k
  <2>1. B \subseteq Nat
    OBVIOUS
  <2> HIDE DEF B
  <2> QED
    BY <2>1, FirstOf
<1>2. m # 0
  <2> DEFINE z == [i \in 0 .. 0 |-> <<>>]
  <2>1. Sifts(z, q, 0, names)
    <3>1. \A i \in 0 .. 0 : i = 0 /\ z[i] = <<>>
      OBVIOUS
    <3> HIDE DEF z
    <3>2. z = [i \in 0 .. 0 |-> z[i]]
      BY DEF z
    <3> QED
      BY <3>1, <3>2 DEF Sifts
  <2> QED
    BY <2>1
<1>3. PICK f : Sifts(f, q, m - 1, names)
  <2>1. m - 1 \in Nat /\ ~(m <= m - 1)
    BY <1>2
  <2> QED
    BY <2>1, <1>1
<1> DEFINE g == [i \in 0 .. m |-> IF i < m THEN f[i]
                                  ELSE IF Stays(names, q[i]) THEN Append(f[i - 1], q[i]) ELSE f[i - 1]]
<1>4. ASSUME NEW i \in 0 .. m
      PROVE  g[i] = IF i = 0 THEN <<>> ELSE IF Stays(names, q[i]) THEN Append(g[i - 1], q[i]) ELSE g[i - 1]
  <2>1. i < m => f[i] = IF i = 0 THEN <<>> ELSE IF Stays(names, q[i]) THEN Append(f[i - 1], q[i]) ELSE f[i - 1]
    <3>1. i < m => i \in 0 .. m - 1
      OBVIOUS
    <3> QED
      BY <3>1, <1>3 DEF Sifts
  <2>2. i # 0 => i - 1 \in 0 .. m /\ i - 1 < m
    OBVIOUS
  <2>3. i # 0 => g[i - 1] = f[i - 1]
    BY <2>2
  <2> QED
    BY <2>1, <2>3, <1>2
<1>5. Sifts(g, q, m, names)
  <2> HIDE DEF g
  <2>1. g = [i \in 0 .. m |-> g[i]]
    BY DEF g
  <2> QED
    BY <2>1, <1>4 DEF Sifts
<1> QED
  BY <1>1, <1>5

\* the places in q of what s holds
Picks(g, s, q, i) == /\ \A m \in 1 .. Len(s) : g[m] \in 1 .. i /\ s[m] = q[g[m]]
                     /\ \A m, n \in 1 .. Len(s) : g[m] = g[n] => m = n
\* s holds only jobs of the first i of q, and every one of them that stays.
Sifted(s, q, i, names) ==
  /\ IsSeq(s)
  /\ \E g : Picks(g, s, q, i)
  /\ \A k \in 1 .. i : Stays(names, q[k]) => \E m \in 1 .. Len(s) : s[m] = q[k]

LEMMA AppendSeq ==
  ASSUME NEW s, IsSeq(s), NEW x
  PROVE  /\ IsSeq(Append(s, x)) /\ Len(Append(s, x)) = Len(s) + 1
         /\ \A i \in 1 .. Len(s) : Append(s, x)[i] = s[i]
         /\ Append(s, x)[Len(s) + 1] = x
<1> DEFINE U == {s[i] : i \in DOMAIN s}
<1>1. s \in Seq(U)
  BY DEF IsSeq
<1> HIDE DEF U
<1>2. s \in Seq(U \cup {x}) /\ x \in U \cup {x}
  BY <1>1, SeqWiden
<1>3. Append(s, x) \in Seq(U \cup {x})
  BY <1>2
<1>4. IsSeq(Append(s, x))
  BY <1>3, IsSeqIntro
<1>5. /\ Len(Append(s, x)) = Len(s) + 1
      /\ \A i \in 1 .. Len(s) : Append(s, x)[i] = s[i]
      /\ Append(s, x)[Len(s) + 1] = x
  BY <1>2
<1> QED
  BY <1>4, <1>5

LEMMA SiftedMore ==
  ASSUME NEW q, NEW names, NEW i \in Nat \ {0}, NEW s, Sifted(s, q, i - 1, names)
  PROVE  Sifted(IF Stays(names, q[i]) THEN Append(s, q[i]) ELSE s, q, i, names)
<1>1. IsSeq(s) /\ Len(s) \in Nat
  BY IsSeqFacts DEF Sifted
<1>2. \A k \in 1 .. i - 1 : k \in 1 .. i
  OBVIOUS
<1>3. \A k \in 1 .. i : k = i \/ k \in 1 .. i - 1
  OBVIOUS
<1> PICK g : Picks(g, s, q, i - 1)
  BY DEF Sifted
<1>4. CASE ~Stays(names, q[i])
  <2>1. Picks(g, s, q, i)
    BY <1>2 DEF Picks
  <2> QED
    BY <1>3, <1>4, <2>1 DEF Sifted
<1>5. CASE Stays(names, q[i])
  <2> DEFINE t == Append(s, q[i])
  <2>1. /\ IsSeq(t) /\ Len(t) = Len(s) + 1
        /\ \A m \in 1 .. Len(s) : t[m] = s[m]
        /\ t[Len(s) + 1] = q[i]
    BY <1>1, AppendSeq
  <2> HIDE DEF t
  <2>2. \A m \in 1 .. Len(t) : m = Len(s) + 1 \/ m \in 1 .. Len(s)
    BY <1>1, <2>1
  <2>3. /\ \A m \in 1 .. Len(s) : m \in 1 .. Len(t)
        /\ Len(s) + 1 \in 1 .. Len(t) /\ i \in 1 .. i
    BY <1>1, <2>1
  <2>4. \E h : Picks(h, t, q, i)
    <3> DEFINE h == [m \in 1 .. Len(t) |-> IF m = Len(s) + 1 THEN i ELSE g[m]]
    <3>1. \A m \in 1 .. Len(t) : h[m] = IF m = Len(s) + 1 THEN i ELSE g[m]
      OBVIOUS
    <3> HIDE DEF h
    <3>2. ASSUME NEW m \in 1 .. Len(s) PROVE g[m] \in 1 .. i /\ g[m] # i /\ s[m] = q[g[m]]
      <4>1. g[m] \in 1 .. i - 1 /\ s[m] = q[g[m]]
        BY DEF Picks
      <4> QED
        BY <4>1
    <3>3. \A m \in 1 .. Len(t) : h[m] \in 1 .. i /\ t[m] = q[h[m]]
      BY <2>1, <2>2, <2>3, <3>1, <3>2
    <3>4. \A m, n \in 1 .. Len(t) : h[m] = h[n] => m = n
      BY <2>2, <3>1, <3>2 DEF Picks
    <3> QED
      BY <3>3, <3>4 DEF Picks
  <2>5. ASSUME NEW k \in 1 .. i, Stays(names, q[k]) PROVE \E m \in 1 .. Len(t) : t[m] = q[k]
    <3>1. CASE k = i
      BY <3>1, <2>1, <2>3
    <3>2. CASE k \in 1 .. i - 1
      <4>1. PICK m \in 1 .. Len(s) : s[m] = q[k]
        BY <3>2, <2>5 DEF Sifted
      <4>2. t[m] = q[k] /\ m \in 1 .. Len(t)
        BY <4>1, <2>1, <2>3
      <4> QED
        BY <4>2
    <3> QED
      BY <1>3, <3>1, <3>2
  <2>6. Sifted(t, q, i, names)
    BY <2>1, <2>4, <2>5 DEF Sifted
  <2> QED
    BY <1>5, <2>6 DEF t
<1> QED
  BY <1>4, <1>5

LEMMA SiftRight ==
  ASSUME NEW q, NEW names, NEW n \in Nat, NEW f, Sifts(f, q, n, names)
  PROVE  Sifted(f[n], q, n, names)
<1> DEFINE B == {i \in 0 .. n : ~Sifted(f[i], q, i, names)}
<1> SUFFICES ASSUME B # {} PROVE FALSE
  OBVIOUS
<1>1. PICK i \in B : \A k \in B : i <= k
  <2>1. B \subseteq Nat
    OBVIOUS
  <2> HIDE DEF B
  <2> QED
    BY <2>1, FirstOf
<1>2. f[i] = IF i = 0 THEN <<>> ELSE IF Stays(names, q[i]) THEN Append(f[i - 1], q[i]) ELSE f[i - 1]
  BY DEF Sifts
<1>3. CASE i = 0
  <2>1. IsSeq(<<>>) /\ Len(<<>>) = 0
    <3>1. <<>> \in Seq({}) /\ Len(<<>>) = 0
      OBVIOUS
    <3> QED
      BY <3>1, IsSeqIntro
  <2>2. f[i] = <<>>
    BY <1>2, <1>3
  <2>3. Sifted(f[i], q, i, names)
    BY <1>3, <2>1, <2>2 DEF Sifted, Picks
  <2> QED
    BY <2>3, <1>1
<1>4. CASE i # 0
  <2>1. i - 1 \in 0 .. n /\ ~(i <= i - 1) /\ i \in Nat \ {0}
    BY <1>4
  <2>2. Sifted(f[i - 1], q, i - 1, names)
    BY <2>1, <1>1
  <2>3. Sifted(IF Stays(names, q[i]) THEN Append(f[i - 1], q[i]) ELSE f[i - 1], q, i, names)
    BY ONLY <2>1, <2>2, SiftedMore
  <2>4. f[i] = IF Stays(names, q[i]) THEN Append(f[i - 1], q[i]) ELSE f[i - 1]
    BY <1>2, <1>4
  <2>5. Sifted(f[i], q, i, names)
    BY ONLY <2>3, <2>4
  <2> QED
    BY <2>5, <1>1
<1> QED
  BY <1>3, <1>4

LEMMA CancelIs ==
  ASSUME NEW w, Fine(w), NEW names
  PROVE  LET c == CancelQueued(w, names)
         IN /\ DOMAIN c = DOMAIN w /\ Beside(w, c) /\ c.wire = w.wire /\ c.next = w.next
            /\ Sifted(c.queue, w.queue, Len(w.queue), names)
<1> DEFINE f == CHOOSE h : Sifts(h, w.queue, Len(w.queue), names)
           c == CancelQueued(w, names)
<1>1. Len(w.queue) \in Nat /\ DOMAIN w = BrowserFields
  BY IsSeqFacts DEF Fine
<1>2. Sifts(f, w.queue, Len(w.queue), names)
  BY <1>1, SiftExists
<1>3. c = [w EXCEPT !.queue = f[Len(w.queue)]]
  BY DEF CancelQueued, Sifts, Stays
<1> HIDE DEF f
<1>4. DOMAIN c = DOMAIN w /\ Beside(w, c) /\ c.wire = w.wire /\ c.next = w.next /\ c.queue = f[Len(w.queue)]
  BY <1>1, <1>3 DEF Beside, BrowserFields
<1> HIDE DEF c
<1>5. Sifted(f[Len(w.queue)], w.queue, Len(w.queue), names)
  BY <1>1, <1>2, SiftRight
<1> QED
  BY <1>4, <1>5 DEF c

\* Dropping waiting jobs loses no stop, unless stops are among the names.
LEMMA CancelGoes ==
  ASSUME NEW w, Fine(w), NEW names, "stop" \notin names
  PROVE  Goes(w, CancelQueued(w, names))
<1> DEFINE c == CancelQueued(w, names)
           n == Len(w.queue)
<1>1. /\ DOMAIN c = DOMAIN w /\ Beside(w, c) /\ c.wire = w.wire /\ c.next = w.next
      /\ Sifted(c.queue, w.queue, n, names)
  BY CancelIs
<1> HIDE DEF c
<1>2. Fine(c)
  BY <1>1 DEF Fine, Beside, Sifted, Picks
<1>3. Waits(c) \subseteq Waits(w)
  BY <1>1 DEF Waits, Sifted, Picks
<1>4. \A x \in Waits(w) : x.who = "stop" => x \in Waits(c)
  <2> SUFFICES ASSUME NEW k \in 1 .. n, w.queue[k].who = "stop" PROVE w.queue[k] \in Waits(c)
    BY DEF Waits
  <2>1. Stays(names, w.queue[k])
    BY DEF Stays
  <2>2. PICK m \in 1 .. Len(c.queue) : c.queue[m] = w.queue[k]
    BY <1>1, <2>1 DEF Sifted
  <2> QED
    BY <2>2 DEF Waits
<1>5. InGate(c) \subseteq InGate(w) /\ \A x \in InGate(w) : x.who = "stop" => x \in InGate(c)
  BY <1>1, <1>3, <1>4 DEF InGate
<1>6. Acting(c) \subseteq Acting(w)
  BY <1>5 DEF Acting
<1>7. (NextWaits(c) <=> NextWaits(w)) /\ (Starting(c) <=> Starting(w))
  BY <1>1 DEF NextWaits, Starting, WireLine
<1>8. (Wants(c) => Wants(w)) /\ (Reading(c) => Reading(w))
  BY <1>5, <1>7 DEF Wants, Reading
<1>9. (HasStop(w) => HasStop(c)) /\ (HereStop(w) => HereStop(c))
  BY <1>5 DEF HasStop, HereStop
<1>10. Synced(w) => Synced(c)
  BY <1>1 DEF Synced, Beside
<1>12. ASSUME OneReader(w) PROVE OneReader(c)
  <2>1. PICK g : Picks(g, c.queue, w.queue, n)
    BY <1>1 DEF Sifted
  <2>2. \A m \in 1 .. Len(c.queue) : g[m] \in 1 .. n /\ c.queue[m] = w.queue[g[m]]
    BY <2>1 DEF Picks
  <2>3. ASSUME NEW i \in 1 .. Len(c.queue), c.wire # NoJob, Reader(c.wire) PROVE ~Reader(c.queue[i])
    BY <1>1, <1>12, <2>2, <2>3 DEF OneReader
  <2>4. ASSUME NEW i \in 1 .. Len(c.queue), NEW k \in 1 .. Len(c.queue), Reader(c.queue[i]), Reader(c.queue[k])
        PROVE  i = k
    <3>1. g[i] = g[k]
      BY <1>12, <2>2, <2>4 DEF OneReader
    <3> QED
      BY <2>1, <3>1 DEF Picks
  <2> QED
    BY <2>3, <2>4 DEF OneReader
<1>11. Goes(w, c)
  BY <1>1, <1>2, <1>12, <1>6, <1>7, <1>8, <1>9, <1>10 DEF Goes, Calm, Base, Beside
<1> QED
  BY <1>11 DEF c

-----------------------------------------------------------------------------
(* A change to every job.                                                  *)

\* k is j, perhaps no longer wanted, or with other marks the properties do not look at.
Turn(j, k) ==
  /\ DOMAIN k = JobFields
  /\ k.who = j.who /\ k.todo = j.todo /\ k.got = j.got /\ k.here = j.here
  /\ k.mine => j.mine
  /\ j.who = "stop" => k = j
  /\ k.mine /\ k.who \in ActionNames => k = j

Turned(w, v) ==
  /\ Beside(w, v)
  /\ IsSeq(v.queue) /\ Len(v.queue) = Len(w.queue)
  /\ \A i \in 1 .. Len(w.queue) : Turn(w.queue[i], v.queue[i])
  /\ w.wire = NoJob => v.wire = NoJob
  /\ w.wire # NoJob => Turn(w.wire, v.wire)
  /\ w.next = NoJob => v.next = NoJob
  /\ w.next # NoJob => Turn(w.next, v.next)

LEMMA TurnOK ==
  ASSUME NEW tab, NEW j, NEW k, JobOK(tab, j), Turn(j, k)
  PROVE  /\ JobOK(tab, k)
         /\ WaitOK(tab, j) => WaitOK(tab, k)
         /\ Eager(k) => Eager(j)
  BY DEF JobOK, WaitOK, Turn, Eager

LEMMA TurnedGoes ==
  ASSUME NEW w, NEW v, Fine(w), Turned(w, v)
  PROVE  Goes(w, v)
<1>1. Fine(v)
  BY TurnOK DEF Fine, Turned, Beside, WaitOK, Turn
<1>2. ASSUME NEW k \in InGate(v) PROVE \E j \in InGate(w) : Turn(j, k) /\ JobOK(w.tab, j)
  <2>1. CASE k \in Waits(v)
    <3>1. PICK i \in 1 .. Len(v.queue) : k = v.queue[i]
      BY <2>1 DEF Waits
    <3> QED
      BY <3>1 DEF Turned, Fine, InGate, Waits, WaitOK
  <2>2. CASE v.wire # NoJob /\ k = v.wire
    BY <2>2 DEF Turned, Fine, InGate
  <2> QED
    BY <1>2, <2>1, <2>2 DEF InGate
<1>3. ASSUME NEW j \in InGate(w), j.who = "stop" PROVE j \in InGate(v)
  <2>1. CASE j \in Waits(w)
    <3>1. PICK i \in 1 .. Len(w.queue) : j = w.queue[i]
      BY <2>1 DEF Waits
    <3> QED
      BY <1>3, <3>1 DEF Turned, InGate, Waits, Turn
  <2>2. CASE w.wire # NoJob /\ j = w.wire
    BY <1>3, <2>2 DEF Turned, InGate, Turn
  <2> QED
    BY <1>3, <2>1, <2>2 DEF InGate
<1>4. Starting(v) => Starting(w)
  BY DEF Starting, WireLine, Turned, Turn
<1>5. Acting(v) \subseteq Acting(w)
  <2> SUFFICES ASSUME NEW k \in InGate(v), k.who \in ActionNames, Eager(k) PROVE k \in InGate(w)
    BY ActingEager
  <2> QED
    BY <1>2 DEF Turn, Eager
<1>6. Reading(v) => Reading(w)
  BY <1>2 DEF Reading, Reader, Turn
<1>11. OneReader(w) => OneReader(v)
  BY DEF OneReader, Reader, Turned, Turn
<1>7. NextWaits(v) => NextWaits(w)
  BY TurnOK DEF NextWaits, Turned, Fine, WaitOK
<1>8. Wants(v) => Wants(w)
  BY <1>2, <1>7, TurnOK DEF Wants
<1>9. (HasStop(w) => HasStop(v)) /\ (HereStop(w) => HereStop(v))
  BY <1>3 DEF HasStop, HereStop
<1>10. Synced(w) => Synced(v)
  BY DEF Synced, Turned, Beside
<1> QED
  BY <1>1, <1>4, <1>5, <1>6, <1>7, <1>8, <1>9, <1>10, <1>11 DEF Goes, Calm, Base, Turned, Beside

LEMMA ForgetIs ==
  ASSUME NEW w, Fine(w), NEW names, "stop" \notin names
  PROVE  Turned(w, Forget(w, names))
<1> DEFINE v == Forget(w, names)
           F(j) == IF j.who \in names /\ j.here THEN [j EXCEPT !.mine = FALSE] ELSE j
           q == [i \in 1 .. Len(w.queue) |-> F(w.queue[i])]
<1>1. DOMAIN w = BrowserFields /\ Len(w.queue) \in Nat
  BY IsSeqFacts DEF Fine
<1>2. v = [w EXCEPT !.queue = q, !.wire = IF w.wire = NoJob THEN NoJob ELSE F(w.wire),
                    !.next = IF w.next = NoJob THEN NoJob ELSE F(w.next)]
  BY DEF Forget, EachJob
<1>3. ASSUME NEW j, JobOK(w.tab, j) PROVE Turn(j, F(j))
  BY <1>3 DEF JobOK, Turn, JobFields
<1>4. IsSeq(q) /\ Len(q) = Len(w.queue) /\ \A i \in 1 .. Len(w.queue) : q[i] = F(w.queue[i])
  BY <1>1, MadeSeq
<1> HIDE DEF q, F
<1>5. /\ Beside(w, v) /\ v.queue = q
      /\ v.wire = IF w.wire = NoJob THEN NoJob ELSE F(w.wire)
      /\ v.next = IF w.next = NoJob THEN NoJob ELSE F(w.next)
  BY <1>1, <1>2 DEF Beside, BrowserFields
<1> HIDE DEF v
<1>6. Turned(w, v)
  BY <1>3, <1>4, <1>5 DEF Turned, Fine, WaitOK
<1> QED
  BY <1>6 DEF v

LEMMA ForgetGoes ==
  ASSUME NEW w, Fine(w), NEW names, "stop" \notin names
  PROVE  Goes(w, Forget(w, names)) /\ Beside(w, Forget(w, names))
  BY ForgetIs, TurnedGoes DEF Turned

\* ... and nothing is wanted any more, when these are the only jobs it asks for.
LEMMA ForgetSettles ==
  ASSUME NEW w, Fine(w), NEW names, \A j : JobOK(w.tab, j) /\ Eager(j) => j.who \in names
  PROVE  ~Wants(Forget(w, names))
<1> DEFINE v == Forget(w, names)
           F(j) == IF j.who \in names /\ j.here THEN [j EXCEPT !.mine = FALSE] ELSE j
           q == [i \in 1 .. Len(w.queue) |-> F(w.queue[i])]
<1>1. DOMAIN w = BrowserFields /\ Len(w.queue) \in Nat
  BY IsSeqFacts DEF Fine
<1>2. v = [w EXCEPT !.queue = q, !.wire = IF w.wire = NoJob THEN NoJob ELSE F(w.wire),
                    !.next = IF w.next = NoJob THEN NoJob ELSE F(w.next)]
  BY DEF Forget, EachJob
<1>3. ASSUME NEW j, JobOK(w.tab, j) PROVE ~Eager(F(j))
  <2>1. CASE j.who \in names /\ j.here
    <3>1. F(j).mine = FALSE
      BY <1>3, <2>1 DEF JobOK, JobFields
    <3> QED
      BY <3>1 DEF Eager
  <2>2. CASE ~(j.who \in names /\ j.here)
    BY <1>3, <2>2 DEF JobOK, Eager
  <2> QED
    BY <2>1, <2>2
<1>4. IsSeq(q) /\ Len(q) = Len(w.queue) /\ \A i \in 1 .. Len(w.queue) : q[i] = F(w.queue[i])
  BY <1>1, MadeSeq
<1> HIDE DEF q, F
<1>5. /\ v.queue = q
      /\ v.wire = IF w.wire = NoJob THEN NoJob ELSE F(w.wire)
      /\ v.next = IF w.next = NoJob THEN NoJob ELSE F(w.next)
  BY <1>1, <1>2 DEF BrowserFields
<1> HIDE DEF v
<1>6. ~NextWaits(v)
  BY <1>3, <1>5 DEF NextWaits, Fine, WaitOK
<1>7. ASSUME NEW j \in InGate(v) PROVE ~Eager(j)
  <2>1. CASE j \in Waits(v)
    <3>1. PICK i \in 1 .. Len(w.queue) : j = F(w.queue[i])
      BY <2>1, <1>4, <1>5 DEF Waits
    <3> QED
      BY <3>1, <1>3 DEF Fine, WaitOK
  <2>2. CASE v.wire # NoJob /\ j = v.wire
    BY <2>2, <1>3, <1>5 DEF Fine
  <2> QED
    BY <1>7, <2>1, <2>2 DEF InGate
<1> QED
  BY <1>6, <1>7 DEF Wants, v

LEMMA ExpireIs ==
  ASSUME NEW w, Fine(w)
  PROVE  Turned(w, Expire(w))
<1> DEFINE v == Expire(w)
           F(j) == IF j.who \in {"test", "setRate"} THEN [j EXCEPT !.late = TRUE] ELSE j
           q == [i \in 1 .. Len(w.queue) |-> F(w.queue[i])]
<1>1. DOMAIN w = BrowserFields /\ Len(w.queue) \in Nat
  BY IsSeqFacts DEF Fine
<1>2. v = [w EXCEPT !.queue = q, !.wire = IF w.wire = NoJob THEN NoJob ELSE F(w.wire),
                    !.next = IF w.next = NoJob THEN NoJob ELSE F(w.next)]
  BY DEF Expire, EachJob
<1>3. ASSUME NEW j, JobOK(w.tab, j) PROVE Turn(j, F(j))
  BY <1>3 DEF JobOK, Turn, JobFields, ActionNames
<1>4. IsSeq(q) /\ Len(q) = Len(w.queue) /\ \A i \in 1 .. Len(w.queue) : q[i] = F(w.queue[i])
  BY <1>1, MadeSeq
<1> HIDE DEF q, F
<1>5. /\ Beside(w, v) /\ v.queue = q
      /\ v.wire = IF w.wire = NoJob THEN NoJob ELSE F(w.wire)
      /\ v.next = IF w.next = NoJob THEN NoJob ELSE F(w.next)
  BY <1>1, <1>2 DEF Beside, BrowserFields
<1> HIDE DEF v
<1>6. Turned(w, v)
  BY <1>3, <1>4, <1>5 DEF Turned, Fine, WaitOK
<1> QED
  BY <1>6 DEF v

LEMMA NotAloneIs ==
  ASSUME NEW w, Fine(w)
  PROVE  Turned(w, NotAlone(w))
<1> DEFINE v == NotAlone(w)
           F(j) == IF j.who \in FilterWriters THEN [j EXCEPT !.alone = FALSE] ELSE j
           q == [i \in 1 .. Len(w.queue) |-> F(w.queue[i])]
<1>1. DOMAIN w = BrowserFields /\ Len(w.queue) \in Nat
  BY IsSeqFacts DEF Fine
<1>2. v = [w EXCEPT !.queue = q, !.wire = IF w.wire = NoJob THEN NoJob ELSE F(w.wire),
                    !.next = IF w.next = NoJob THEN NoJob ELSE F(w.next)]
  BY DEF NotAlone, EachJob
<1>3. ASSUME NEW j, JobOK(w.tab, j) PROVE Turn(j, F(j))
  BY <1>3 DEF JobOK, Turn, JobFields, ActionNames, FilterWriters
<1>4. IsSeq(q) /\ Len(q) = Len(w.queue) /\ \A i \in 1 .. Len(w.queue) : q[i] = F(w.queue[i])
  BY <1>1, MadeSeq
<1> HIDE DEF q, F
<1>5. /\ Beside(w, v) /\ v.queue = q
      /\ v.wire = IF w.wire = NoJob THEN NoJob ELSE F(w.wire)
      /\ v.next = IF w.next = NoJob THEN NoJob ELSE F(w.next)
  BY <1>1, <1>2 DEF Beside, BrowserFields
<1> HIDE DEF v
<1>6. Turned(w, v)
  BY <1>3, <1>4, <1>5 DEF Turned, Fine, WaitOK
<1> QED
  BY <1>6 DEF v

LEMMA ExpireGoes == ASSUME NEW w, Fine(w) PROVE Goes(w, Expire(w))
  BY ExpireIs, TurnedGoes

LEMMA NotAloneGoes == ASSUME NEW w, Fine(w) PROVE Goes(w, NotAlone(w)) /\ Beside(w, NotAlone(w))
  BY NotAloneIs, TurnedGoes DEF Turned

\* What its page leaves behind in the gate belongs to no page.
Adrift(v) ==
  /\ IsSeq(v.queue)
  /\ \A i \in 1 .. Len(v.queue) : /\ ~v.queue[i].mine /\ ~v.queue[i].here
                                  /\ \A t : WaitOK(t, v.queue[i])
  /\ v.wire # NoJob => /\ ~v.wire.mine /\ ~v.wire.here
                       /\ \A t : JobOK(t, v.wire)

LEMMA OrphanIs ==
  ASSUME NEW w, Fine(w)
  PROVE  LET v == Orphan(w)
         IN Beside(w, v) /\ Adrift(v) /\ (HasStop(w) => HasStop(v)) /\ (Starting(v) => Starting(w))
<1> DEFINE v == Orphan(w)
           F(j) == [j EXCEPT !.mine = FALSE, !.here = FALSE]
           q == [i \in 1 .. Len(w.queue) |-> F(w.queue[i])]
<1>1. DOMAIN w = BrowserFields /\ Len(w.queue) \in Nat
  BY IsSeqFacts DEF Fine
<1>2. v = [w EXCEPT !.queue = q, !.wire = IF w.wire = NoJob THEN NoJob ELSE F(w.wire),
                    !.next = IF w.next = NoJob THEN NoJob ELSE F(w.next)]
  BY DEF Orphan, EachJob
<1>3. ASSUME NEW j, JobOK(w.tab, j)
      PROVE  /\ ~F(j).mine /\ ~F(j).here /\ F(j).who = j.who /\ F(j).todo = j.todo
             /\ \A t : JobOK(t, F(j)) /\ (WaitOK(w.tab, j) => WaitOK(t, F(j)))
             /\ j.who = "stop" => F(j) # NoJob
  <2>1. /\ DOMAIN F(j) = DOMAIN j /\ F(j).who = j.who /\ F(j).todo = j.todo /\ F(j).got = j.got
        /\ F(j).mine = FALSE /\ F(j).here = FALSE
    BY <1>3 DEF JobOK, JobFields
  <2>2. j.who = "stop" => F(j) \in StopJobs
    BY <1>3 DEF JobOK, StopJobs
  <2>3. NoJob \notin StopJobs
    BY PagesAssumption
  <2> HIDE DEF F
  <2>4. \A t : JobOK(t, F(j))
    BY <1>3, <2>1, <2>2 DEF JobOK, AtHome
  <2> QED
    BY <2>1, <2>2, <2>3, <2>4 DEF WaitOK
<1>4. IsSeq(q) /\ Len(q) = Len(w.queue) /\ \A i \in 1 .. Len(w.queue) : q[i] = F(w.queue[i])
  BY <1>1, MadeSeq
<1> HIDE DEF q, F
<1>5. Beside(w, v) /\ v.queue = q /\ v.wire = IF w.wire = NoJob THEN NoJob ELSE F(w.wire)
  BY <1>1, <1>2 DEF Beside, BrowserFields
<1> HIDE DEF v
<1>6. Adrift(v)
  BY <1>3, <1>4, <1>5 DEF Adrift, Fine, WaitOK
<1>7. Starting(v) => Starting(w)
  BY <1>3, <1>5 DEF Starting, WireLine, Fine
<1>8. HasStop(w) => HasStop(v)
  <2> SUFFICES ASSUME NEW j \in InGate(w), j.who = "stop" PROVE \E k \in InGate(v) : k.who = "stop"
    BY DEF HasStop
  <2>1. CASE j \in Waits(w)
    <3>1. PICK i \in 1 .. Len(w.queue) : j = w.queue[i]
      BY <2>1 DEF Waits
    <3>2. v.queue[i] \in InGate(v) /\ v.queue[i].who = "stop"
      BY <3>1, <1>3, <1>4, <1>5 DEF InGate, Waits, Fine, WaitOK
    <3> QED
      BY <3>2
  <2>2. CASE w.wire # NoJob /\ j = w.wire
    BY <2>2, <1>3, <1>5 DEF InGate, Fine
  <2> QED
    BY <2>1, <2>2 DEF InGate
<1> QED
  BY <1>5, <1>6, <1>7, <1>8 DEF v

-----------------------------------------------------------------------------
(* An action put off until its page's poll has ended.                      *)

\* A job may be wanted, but starts no motor and asks nothing of the sensors.
Bids(w, v) == Fine(v) /\ Base(w, v) /\ v.sens = w.sens /\ Acting(v) \subseteq Acting(w)

LEMMA BidsTrans ==
  ASSUME NEW u, NEW v, NEW w
  PROVE  /\ Goes(u, v) /\ Bids(v, w) => Bids(u, w)
         /\ Bids(u, v) /\ Goes(v, w) => Bids(u, w)
         /\ Goes(u, v) => Bids(u, v)
  BY DEF Goes, Calm, Bids, Base

LEMMA EnterBids ==
  ASSUME NEW w, Fine(w), NEW j, WaitOK(w.tab, j), j.who \notin ActionNames
  PROVE  Bids(w, Enter(w, j))
<1> DEFINE e == Enter(w, j)
<1>1. /\ Fine(e) /\ Beside(w, e) /\ e.next = w.next
      /\ InGate(w) \subseteq InGate(e) /\ InGate(e) \subseteq InGate(w) \cup {j}
      /\ w.wire # NoJob => e.wire = w.wire
      /\ w.wire = NoJob => e.wire = j
  BY EnterIs DEF WaitOK
<1> HIDE DEF e
<1>2. Starting(e) => Starting(w)
  BY <1>1, WaitHead DEF Starting, WireLine
<1>3. Acting(e) \subseteq Acting(w)
  BY <1>1, ActingEager
<1>4. (HasStop(w) => HasStop(e)) /\ (HereStop(w) => HereStop(e))
  BY <1>1 DEF HasStop, HereStop
<1>5. Bids(w, e)
  BY <1>1, <1>2, <1>3, <1>4 DEF Bids, Base, Beside
<1> QED
  BY <1>5 DEF e

\* A job put off, or an action put off no longer.
LEMMA NextIs ==
  ASSUME NEW w, Fine(w), NEW j, j = NoJob \/ (WaitOK(w.tab, j) /\ j.here /\ j.who # "sensors")
  PROVE  LET v == [w EXCEPT !.next = j]
         IN /\ Bids(w, v) /\ Beside(w, v) /\ v.next = j /\ v.wire = w.wire /\ InGate(v) = InGate(w)
            /\ j = NoJob \/ ~Eager(j) => Goes(w, v)
<1> DEFINE v == [w EXCEPT !.next = j]
<1>1. Beside(w, v) /\ v.next = j /\ v.wire = w.wire /\ v.queue = w.queue
  BY DEF Fine, BrowserFields, Beside
<1> HIDE DEF v
<1>2. InGate(v) = InGate(w)
  BY <1>1 DEF InGate, Waits
<1>3. Fine(v)
  BY <1>1 DEF Fine, Beside
<1>4. Acting(v) = Acting(w) /\ (Reading(v) <=> Reading(w)) /\ (Starting(v) <=> Starting(w))
      /\ (OneReader(v) <=> OneReader(w))
  BY <1>1, <1>2 DEF Acting, Reading, Starting, WireLine, OneReader
<1>5. Bids(w, v)
  BY <1>1, <1>2, <1>3, <1>4 DEF Bids, Base, Beside, HasStop, HereStop
<1>6. j = NoJob \/ ~Eager(j) => Goes(w, v)
  BY <1>1, <1>2, <1>4, <1>5 DEF Goes, Calm, Bids, NextWaits, Wants, Synced, Beside
<1> QED
  BY <1>1, <1>2, <1>5, <1>6 DEF v

LEMMA StartAfterGoes ==
  ASSUME NEW w, Fine(w), NEW j, WaitOK(w.tab, j), j.here, j.who # "sensors", NEW names
  PROVE  /\ Beyond(j) => Goes(w, StartAfter(w, j, names))
         /\ j.who \notin ActionNames => Bids(w, StartAfter(w, j, names))
<1>1. /\ Bids(w, [w EXCEPT !.next = j])
      /\ ~Eager(j) => Goes(w, [w EXCEPT !.next = j])
  BY NextIs
<1>2. Beyond(j) => Goes(w, Enter(w, j))
  BY EnterGoes
<1>3. j.who \notin ActionNames => Bids(w, Enter(w, j))
  BY EnterBids
<1> QED
  BY <1>1, <1>2, <1>3 DEF StartAfter, Beyond

\* The Sensors page starts its actions with their checks.
LEMMA StartNextGoes ==
  ASSUME NEW w, Fine(w), w.tab # "sensors"
  PROVE  Goes(w, StartNext(w))
<1> DEFINE u == [w EXCEPT !.next = NoJob]
           e == Enter(u, w.next)
<1>1. CASE w.next = NoJob
  BY <1>1, GoesRefl DEF StartNext
<1>2. Bids(w, u) /\ Beside(w, u) /\ u.next = NoJob /\ InGate(u) = InGate(w) /\ Goes(w, u)
  BY NextIs
<1>3. CASE w.next # NoJob /\ ~w.next.mine
  BY <1>2, <1>3 DEF StartNext
<1>4. CASE w.next # NoJob /\ w.next.mine
  <2>1. WaitOK(w.tab, w.next) /\ w.next.who \notin SensorsNames
    BY <1>4 DEF Fine, WaitOK, JobOK, AtHome
  <2>2. StartNext(w) = e
    BY <1>4 DEF StartNext
  <2> HIDE DEF u
  <2>3. WaitOK(u.tab, w.next) /\ Fine(u)
    BY <1>2, <2>1 DEF Beside, Bids
  <2>4. Bids(u, e)
    BY <2>1, <2>3, EnterBids DEF SensorsNames
  <2>5. Beside(u, e) /\ e.next = u.next /\ InGate(e) \subseteq InGate(u) \cup {w.next}
    BY <2>3, EnterIs DEF WaitOK
  <2> HIDE DEF e
  <2>6. Reading(e) => Reading(w)
    BY <1>2, <2>1, <2>5 DEF Reading, Reader, SensorsNames
  <2>7. ~NextWaits(e)
    BY <1>2, <2>5 DEF NextWaits
  <2>8. Wants(e) => Wants(w)
    BY <1>2, <1>4, <2>5, <2>7 DEF Wants, NextWaits
  <2>9. Bids(w, e)
    BY <1>2, <2>4, BidsTrans
  <2>11. OneReader(e)
    <3>1. e.tab # "sensors"
      BY <1>2, <2>5 DEF Beside
    <3> QED
      BY <2>4, <3>1 DEF OneReader, Reader, Bids, Fine, WaitOK, JobOK, AtHome, SensorsNames
  <2>10. Goes(w, e)
    BY <1>2, <2>11, <2>5, <2>6, <2>7, <2>8, <2>9 DEF Bids, Goes, Calm, Synced, Beside
  <2> QED
    BY <2>2, <2>10
<1> QED
  BY <1>1, <1>3, <1>4

-----------------------------------------------------------------------------
(* The lines of the requests.                                              *)

Quiet(x) == x.op # "start" /\ x.cls # "held"
Free(s)  == IsSeq(s) /\ s # <<>> /\ Len(s) > 0 /\ \A i \in 1 .. Len(s) : Quiet(s[i])
\* what a line of a request that holds the gate may follow
Led(s) == /\ IsSeq(s) /\ Len(s) > 0 /\ s # <<>> /\ s[1].cls # "held" /\ Chained(s)
          /\ \A i \in 1 .. Len(s) : s[i].op # "start"

LEMMA FreeOne ==
  ASSUME NEW x, Quiet(x)
  PROVE  Free(<<x>>)
<1> DEFINE s == <<x>>
<1>1. s # <<>> /\ Len(s) = 1 /\ s[1] = x /\ IsSeq(s)
  BY OneLine
<1> HIDE DEF s
<1>2. Free(s)
  BY <1>1 DEF Free
<1> QED
  BY <1>2 DEF s

LEMMA FreeJoin ==
  ASSUME NEW s, NEW t, Free(s), Free(t)
  PROVE  Free(s \o t)
<1> DEFINE u == s \o t
<1>1. /\ IsSeq(u) /\ Len(u) = Len(s) + Len(t)
      /\ \A i \in 1 .. Len(u) : u[i] = IF i <= Len(s) THEN s[i] ELSE t[i - Len(s)]
  BY JoinSeq DEF Free
<1>2. Len(s) \in Nat /\ Len(t) \in Nat /\ Len(s) > 0 /\ Len(t) > 0 /\ Len(u) # 0
  BY <1>1, IsSeqFacts DEF Free
<1>3. u # <<>>
  BY <1>2
<1> HIDE DEF u
<1>4. ASSUME NEW i \in 1 .. Len(u) PROVE Quiet(u[i])
  <2>1. i <= Len(s) => i \in 1 .. Len(s)
    BY <1>1, <1>2
  <2>2. ~(i <= Len(s)) => i - Len(s) \in 1 .. Len(t)
    BY <1>1, <1>2
  <2> QED
    BY <1>1, <2>1, <2>2 DEF Free
<1>5. Free(u)
  BY <1>1, <1>2, <1>3, <1>4 DEF Free
<1> QED
  BY <1>5 DEF u

LEMMA FreeTwo ==
  ASSUME NEW x, NEW y, Quiet(x), Quiet(y)
  PROVE  Free(<<x, y>>)
<1> DEFINE s == <<x, y>>
<1>1. s \in Seq({x, y})
  OBVIOUS
<1>2. IsSeq(s)
  BY <1>1, IsSeqIntro
<1>3. Len(s) = 2 /\ s # <<>> /\ s[1] = x /\ s[2] = y
  OBVIOUS
<1> HIDE DEF s
<1>4. \A i \in 1 .. Len(s) : i = 1 \/ i = 2
  BY <1>3
<1>5. Len(s) > 0
  BY <1>3
<1>6. Free(s)
  BY <1>2, <1>3, <1>4, <1>5 DEF Free
<1> QED
  BY <1>6 DEF s

LEMMA FreeThree ==
  ASSUME NEW x, NEW y, NEW z, Quiet(x), Quiet(y), Quiet(z)
  PROVE  Free(<<x, y, z>>)
<1>1. Free(<<x, y>>) /\ Free(<<z>>)
  BY FreeOne, FreeTwo
<1>2. <<x, y, z>> = <<x, y>> \o <<z>>
  OBVIOUS
<1>3. Free(<<x, y>> \o <<z>>)
  BY ONLY <1>1, FreeJoin
<1> QED
  BY ONLY <1>2, <1>3

LEMMA FreeLed == ASSUME NEW s, Free(s) PROVE Led(s) /\ Unheld(s) /\ Released(s)
<1>1. Len(s) \in Nat /\ 1 \in 1 .. Len(s) /\ 2 .. Len(s) \subseteq 1 .. Len(s)
  BY IsSeqFacts DEF Free
<1> QED
  BY <1>1 DEF Free, Led, Chained, Unheld, Released, Quiet

LEMMA LedJoin ==
  ASSUME NEW s, NEW t, Led(s), Led(t)
  PROVE  Led(s \o t)
<1> DEFINE u == s \o t
<1>1. /\ IsSeq(u) /\ Len(u) = Len(s) + Len(t)
      /\ \A i \in 1 .. Len(u) : u[i] = IF i <= Len(s) THEN s[i] ELSE t[i - Len(s)]
  BY JoinSeq DEF Led
<1>2. Len(s) \in Nat /\ Len(t) \in Nat /\ Len(s) > 0 /\ Len(t) > 0 /\ Len(u) # 0
  BY <1>1, IsSeqFacts DEF Led
<1>3. u # <<>>
  BY <1>2
<1> HIDE DEF u
<1>4. ASSUME NEW i \in 1 .. Len(u)
      PROVE  /\ u[i].op # "start"
             /\ i >= 2 /\ u[i].cls = "held" => u[i - 1].op \in {"storage", "save"} /\ u[i - 1].key = ""
  <2>1. CASE i <= Len(s)
    <3>1. i \in 1 .. Len(s) /\ u[i] = s[i]
      BY <1>1, <1>2, <2>1
    <3>2. i >= 2 => i \in 2 .. Len(s) /\ i - 1 \in 1 .. Len(u) /\ i - 1 <= Len(s)
      BY <1>1, <1>2, <2>1
    <3>3. i >= 2 => u[i - 1] = s[i - 1]
      BY <1>1, <3>2
    <3> QED
      BY <3>1, <3>2, <3>3 DEF Led, Chained
  <2>2. CASE i = Len(s) + 1
    <3>1. ~(i <= Len(s)) /\ i - Len(s) = 1 /\ 1 \in 1 .. Len(t)
      BY <1>1, <1>2, <2>2
    <3>2. u[i] = t[1]
      BY <1>1, <3>1
    <3> QED
      BY <3>1, <3>2 DEF Led
  <2>3. CASE ~(i <= Len(s)) /\ i # Len(s) + 1
    <3>1. i - Len(s) \in 2 .. Len(t) /\ i - Len(s) \in 1 .. Len(t) /\ i - 1 \in 1 .. Len(u) /\ ~(i - 1 <= Len(s))
      BY <1>1, <1>2, <2>3
    <3>2. (i - 1) - Len(s) = (i - Len(s)) - 1
      BY <1>2, <3>1
    <3>3. u[i] = t[i - Len(s)] /\ u[i - 1] = t[(i - Len(s)) - 1]
      BY <1>1, <2>3, <3>1, <3>2
    <3> QED
      BY <3>1, <3>3 DEF Led, Chained
  <2> QED
    BY <1>1, <1>2, <2>1, <2>2, <2>3
<1>5. 1 \in 1 .. Len(u) /\ 1 <= Len(s) /\ \A i \in 2 .. Len(u) : i >= 2 /\ i \in 1 .. Len(u)
  BY <1>1, <1>2
<1>6. u[1].cls # "held"
  <2>1. u[1] = s[1]
    BY <1>1, <1>5
  <2> QED
    BY <2>1 DEF Led
<1>7. Chained(u)
  BY <1>4, <1>5 DEF Chained
<1>8. \A i \in 1 .. Len(u) : u[i].op # "start"
  BY <1>4
<1>9. Len(u) > 0
  BY <1>1, <1>2
<1>10. Led(u)
  BY <1>1, <1>3, <1>6, <1>7, <1>8, <1>9 DEF Led
<1> QED
  BY <1>10 DEF u

\* the sequence that saves to flash
LEMMA SaveLed == Led(saveSequence) /\ Len(saveSequence) = 3
<1> DEFINE x == StorageLine("write")
           y == Line("save", "", 0, "held")
           z == StorageLine("held")
           s == <<x, y, z>>
<1>1. /\ x.op = "storage" /\ x.key = "" /\ x.cls = "write"
      /\ y.op = "save" /\ y.key = "" /\ z.op = "storage"
  BY DEF StorageLine, Line
<1>2. saveSequence = s
  BY DEF saveSequence
<1> HIDE DEF x, y, z
<1>3. s \in Seq({x, y, z})
  OBVIOUS
<1>4. IsSeq(s)
  BY <1>3, IsSeqIntro
<1>5. Len(s) = 3 /\ s # <<>> /\ s[1] = x /\ s[2] = y /\ s[3] = z
  OBVIOUS
<1> HIDE DEF s
<1>6. \A i \in 1 .. Len(s) : i = 1 \/ i = 2 \/ i = 3
  BY <1>5
<1>7. \A i \in 2 .. Len(s) : (i = 2 /\ i - 1 = 1) \/ (i = 3 /\ i - 1 = 2)
  BY <1>5
<1>8. Chained(s)
  BY <1>1, <1>5, <1>7 DEF Chained
<1>9. \A i \in 1 .. Len(s) : s[i].op # "start"
  BY <1>1, <1>5, <1>6
<1>10. s[1].cls # "held" /\ Len(s) > 0
  <2>1. s[1].cls = "write"
    BY <1>1, <1>5
  <2>2. Len(s) > 0
    BY <1>5
  <2> QED
    BY <2>1, <2>2
<1>11. Led(s) /\ Len(s) = 3
  BY <1>4, <1>5, <1>8, <1>9, <1>10 DEF Led
<1> QED
  BY <1>2, <1>11

-----------------------------------------------------------------------------
(* A new job.                                                              *)

\* whose jobs start no motor and ask nothing of the sensors
Common == (OtherNames \ SensorsNames) \cup {"poll", "setRate"}

LEMMA NamesFacts ==
  /\ Common \subseteq AllNames /\ "test" \notin Common /\ "stop" \notin Common
  /\ Common \cap SensorsNames = {} /\ "sensors" \in SensorsNames /\ ActionNames \subseteq SensorsNames
  /\ "sensors" \notin ActionNames
  BY DEF Common, OtherNames, AllNames, Flight, DirectionNames, PolesNames, StorageNames, FiltersNames,
         SetupNames, RateNames, ReceiverNames, RatesNames, ModesNames, SnapshotNames, SensorsNames,
         ActionNames, PowerNames

LEMMA PlainFree ==
  ASSUME NEW who, who \notin ActionNames, NEW s, Free(s)
  PROVE  Plain(who, s) /\ s # <<>>
<1>1. Led(s) /\ Unheld(s) /\ Released(s)
  BY FreeLed
<1> QED
  BY <1>1 DEF Plain, HeldRight, Led, Free

\* A job with its first line, quiet or not, alone or not.
IsNew(j, who, s) == /\ DOMAIN j = JobFields /\ j.who = who /\ j.todo = s /\ j.got = <<>>
                    /\ j.mine /\ j.here

LEMMA JobIsNew ==
  ASSUME NEW who, NEW s
  PROVE  /\ IsNew(Job(who, s), who, s)
         /\ \A b : IsNew([Job(who, s) EXCEPT !.late = b], who, s) /\ IsNew([Job(who, s) EXCEPT !.alone = b], who, s)
  BY DEF IsNew, Job, JobFields

LEMMA NewJob ==
  ASSUME NEW tab, NEW who \in AllNames \ {"test", "stop"}, AtHome(tab, who),
         NEW s, s # <<>>, Plain(who, s), who = "sensors" => Len(s) = 1, NEW j, IsNew(j, who, s)
  PROVE  /\ WaitOK(tab, j) /\ j.here
         /\ who \in Common => Beyond(j) /\ j.who \notin ActionNames
<1>1. WaitOK(tab, j)
  BY DEF WaitOK, JobOK, IsNew
<1>2. who \in Common => Beyond(j) /\ j.who \notin ActionNames
  BY NamesFacts DEF Beyond, Reader, Eager, IsNew
<1> QED
  BY <1>1, <1>2 DEF IsNew

LEMMA AskGoes ==
  ASSUME NEW w, Fine(w), NEW who \in Common, AtHome(w.tab, who), NEW s, s # <<>>, Plain(who, s),
         NEW j, IsNew(j, who, s)
  PROVE  /\ Goes(w, Enter(w, j))
         /\ \A names : Goes(w, StartAfter(w, j, names))
<1>1. WaitOK(w.tab, j) /\ j.here /\ Beyond(j)
  BY NewJob, NamesFacts
<1>2. j.who # "sensors"
  BY NamesFacts DEF IsNew
<1> QED
  BY <1>1, <1>2, EnterGoes, StartAfterGoes

\* A change of what the pages show, and then a request.
LEMMA ShowThenAsk ==
  ASSUME NEW w, Fine(w), NEW v, Same(w, v), NEW who \in Common, AtHome(w.tab, who),
         NEW s, s # <<>>, Plain(who, s), NEW j, IsNew(j, who, s)
  PROVE  Goes(w, v) /\ Goes(w, Enter(v, j)) /\ \A names : Goes(w, StartAfter(v, j, names))
<1>1. Goes(w, v)
  BY SameGoes
<1>2. Fine(v) /\ AtHome(v.tab, who)
  BY <1>1 DEF Goes, Same, Shown
<1>3. Goes(v, Enter(v, j)) /\ \A names : Goes(v, StartAfter(v, j, names))
  BY <1>2, AskGoes
<1> QED
  BY <1>1, <1>3, GoesTrans

-----------------------------------------------------------------------------
(* The storage panel.                                                      *)

LEMMA StorageLines ==
  /\ Plain("load", loadSequence) /\ loadSequence # <<>>
  /\ Plain("save", saveSequence) /\ saveSequence # <<>>
  /\ Plain("export", exportSequence) /\ exportSequence # <<>>
<1>1. Free(loadSequence)
  <2>1. Quiet(StorageLine("normal"))
    BY DEF Quiet, StorageLine, Line
  <2> QED
    BY <2>1, FreeOne DEF loadSequence
<1>2. Plain("save", saveSequence) /\ saveSequence # <<>>
  BY SaveLed DEF Plain, Led, HeldRight, StorageNames, ActionNames
<1>3. Plain("export", exportSequence) /\ exportSequence # <<>>
  <2> DEFINE x == Line("dump", "", 0, "normal")
             y == StorageLine("held")
             s == <<x, y>>
  <2>1. x.op # "start" /\ y.op # "start"
    BY DEF StorageLine, Line
  <2>2. exportSequence = s
    BY DEF exportSequence
  <2> HIDE DEF x, y
  <2>3. s \in Seq({x, y})
    OBVIOUS
  <2>4. IsSeq(s)
    BY <2>3, IsSeqIntro
  <2>5. Len(s) = 2 /\ s # <<>> /\ s[1] = x /\ s[2] = y
    OBVIOUS
  <2> HIDE DEF s
  <2>6. \A i \in 1 .. Len(s) : i = 1 \/ i = 2
    BY <2>5
  <2>7. \A i \in 1 .. Len(s) : s[i].op # "start"
    BY <2>1, <2>5, <2>6
  <2>8. Plain("export", s)
    BY <2>4, <2>7 DEF Plain, HeldRight, StorageNames, ActionNames
  <2> QED
    BY <2>2, <2>5, <2>8
<1> QED
  BY <1>1, <1>2, <1>3, PlainFree DEF ActionNames

LEMMA StorageWho ==
  ASSUME NEW who \in StorageNames, NEW tab
  PROVE  who \in Common /\ AtHome(tab, who)
  BY DEF Common, OtherNames, AtHome, StorageNames, SensorsNames, ActionNames, Flight, SetupNames, RateNames,
         ReceiverNames

LEMMA StorageRunGoes ==
  ASSUME NEW w, Fine(w), NEW who \in StorageNames, NEW lines, lines # <<>>, Plain(who, lines), NEW quiet \in BOOLEAN
  PROVE  Goes(w, StorageRun(w, who, lines, quiet))
<1> DEFINE u == [w EXCEPT !.stor.err = "", !.stor.msg = ""]
           j == [Job(who, lines) EXCEPT !.late = quiet]
<1>1. IsNew(j, who, lines)
  BY JobIsNew
<1> HIDE DEF j
<1>2. who \in Common /\ AtHome(w.tab, who)
  BY StorageWho
<1>3. Same(w, u) /\ Same(w, w)
  BY DEF Same, Shown
<1> HIDE DEF u
<1>4. Goes(w, Enter(w, j)) /\ Goes(w, Enter(u, j))
  BY <1>1, <1>2, <1>3, ShowThenAsk
<1>5. StorageRun(w, who, lines, quiet) = Enter(IF quiet THEN w ELSE u, j)
  BY DEF StorageRun, u, j
<1> QED
  BY <1>4, <1>5

LEMMA StorageAsks ==
  ASSUME NEW w, Fine(w)
  PROVE  Goes(w, StorageSave(w)) /\ Goes(w, StorageRefresh(w)) /\ Goes(w, StorageExport(w))
  BY StorageRunGoes, StorageLines DEF StorageSave, StorageRefresh, StorageExport, StorageNames

LEMMA StorageResetGoes ==
  ASSUME NEW w, Fine(w), NEW connected
  PROVE  Goes(w, StorageReset(w, connected))
<1> DEFINE u == Forget(w, StorageNames)
           c == CancelQueued(u, StorageNames)
           v == [c EXCEPT !.stor = [StorageInitial EXCEPT !.want = connected, !.was = w.stor.was]]
<1>1. "stop" \notin StorageNames
  BY DEF StorageNames
<1>2. Goes(w, u)
  BY <1>1, ForgetGoes
<1>3. Fine(u)
  BY <1>2 DEF Goes
<1> HIDE DEF u
<1>4. Goes(u, c)
  BY <1>1, <1>3, CancelGoes
<1>5. Fine(c)
  BY <1>4 DEF Goes
<1> HIDE DEF c
<1>6. Same(c, v)
  BY DEF Same, Shown
<1>7. Goes(c, v)
  BY <1>5, <1>6, SameGoes
<1>8. StorageReset(w, connected) = v
  BY DEF StorageReset, v, c, u
<1> HIDE DEF v
<1>9. Goes(w, v)
  BY <1>2, <1>4, <1>7, GoesTrans
<1> QED
  BY <1>8, <1>9

LEMMA StorageEffectGoes ==
  ASSUME NEW w, Fine(w), NEW blocked \in BOOLEAN
  PROVE  Goes(w, StorageEffect(w, blocked))
<1> DEFINE due == [w EXCEPT !.stor.quiet = @ \/ (w.stor.was /\ ~blocked /\ ~w.stor.want), !.stor.was = blocked]
           u == [due EXCEPT !.stor.want = FALSE, !.stor.quiet = FALSE]
           quiet == ~due.stor.want
<1>1. Same(w, due)
  BY DEF Same, Shown
<1>2. Goes(w, due)
  BY <1>1, SameGoes
<1>3. Fine(due)
  BY <1>2 DEF Goes
<1>4. StorageEffect(w, blocked) \in {due, StorageRun(u, "load", loadSequence, quiet)}
  BY DEF StorageEffect
<1>5. quiet \in BOOLEAN
  OBVIOUS
<1> HIDE DEF due, quiet
<1>6. Same(due, u)
  BY DEF Same, Shown
<1>7. Goes(due, u)
  BY <1>3, <1>6, SameGoes
<1>8. Fine(u)
  BY <1>7 DEF Goes
<1> HIDE DEF u
<1>9. Goes(u, StorageRun(u, "load", loadSequence, quiet))
  BY <1>5, <1>8, StorageRunGoes, StorageLines DEF StorageNames
<1> QED
  BY <1>2, <1>4, <1>7, <1>9, GoesTrans

LEMMA StorageRepliedGoes ==
  ASSUME NEW w, Fine(w), NEW j
  PROVE  Goes(w, StorageReplied(w, j))
<1>1. Same(w, StorageReplied(w, j))
  BY DEF StorageReplied, Same, Shown
<1> QED
  BY <1>1, SameGoes

-----------------------------------------------------------------------------
(* The motor bench.                                                        *)

\* The bench knows no less than before.
Knows(w, v) == /\ Shown(w, v) /\ v.loop = w.loop /\ v.sens = w.sens
               /\ DOMAIN v.bench = BenchFields
               /\ v.bench.visible = w.bench.visible /\ v.bench.stopping = w.bench.stopping
               /\ w.bench.motion => v.bench.motion
               /\ w.bench.window => v.bench.window

LEMMA KnowsGoes == ASSUME NEW w, NEW v, Fine(w), Knows(w, v) PROVE Goes(w, v)
<1>1. DOMAIN v.loop = LoopFields /\ Shown(w, v) /\ DOMAIN v.bench = BenchFields
  BY DEF Knows, Fine
<1> QED
  BY <1>1, ShownFine DEF Goes, Calm, Base, Knows, Shown, Synced

\* Whatever became of the bench: no stop is lost, nothing starts, nothing is asked for.
Rid(w, v) ==
  /\ Fine(v)
  /\ v.tab = w.tab /\ v.up = w.up /\ v.sens = w.sens
  /\ HasStop(w) => HasStop(v)
  /\ HereStop(w) => HereStop(v)
  /\ Starting(v) => Starting(w)
  /\ Acting(v) \subseteq Acting(w)
  /\ Reading(v) => Reading(w)
  /\ OneReader(w) => OneReader(v)
  /\ NextWaits(v) => NextWaits(w)
  /\ Wants(v) => Wants(w)
  /\ Synced(w) => Synced(v)

LEMMA RidTrans ==
  ASSUME NEW u, NEW v, NEW w
  PROVE  /\ Goes(u, v) => Rid(u, v)
         /\ Rid(u, v) /\ Rid(v, w) => Rid(u, w)
  BY DEF Goes, Calm, Base, Rid

LEMMA BenchRid ==
  ASSUME NEW w, NEW v, Fine(w), Shown(w, v), v.loop = w.loop, v.sens = w.sens, DOMAIN v.bench = BenchFields
  PROVE  Rid(w, v)
<1>1. DOMAIN v.loop = LoopFields
  BY DEF Fine
<1> QED
  BY <1>1, ShownFine DEF Rid, Shown, Synced

LEMMA FlightNames ==
  /\ "stop" \notin Flight /\ "test" \in Flight
  /\ {"poll", "setRate"} \subseteq Common /\ Flight \cap SensorsNames = {} /\ Flight \subseteq AllNames
  /\ \A tab : AtHome(tab, "poll") <=> tab = "motors"
  /\ \A tab : AtHome(tab, "setRate") <=> tab = "motors"
  /\ \A tab : AtHome(tab, "test") <=> tab = "motors"
  /\ \A tab : AtHome(tab, "stop")
  BY DEF Flight, Common, AllNames, AtHome, SetupNames, RateNames, ReceiverNames, SensorsNames, ActionNames

LEMMA FlightLines ==
  /\ Plain("poll", PollLines) /\ PollLines # <<>>
  /\ \A v : Plain("setRate", RateLines(v)) /\ RateLines(v) # <<>>
<1>1. /\ Quiet(Status) /\ Quiet(Get("dshot")) /\ Quiet(Read("erpm"))
      /\ \A v : Quiet(Set("dshot", v))
  BY DEF Quiet, Status, Get, Read, Set, Line
<1>2. Free(PollLines)
  BY <1>1, FreeThree DEF PollLines
<1>3. ASSUME NEW v PROVE Free(RateLines(v))
  BY <1>1, FreeThree DEF RateLines
<1> QED
  BY <1>2, <1>3, PlainFree DEF ActionNames

LEMMA InvalidateGoes ==
  ASSUME NEW w, Fine(w)
  PROVE  /\ Goes(w, Invalidate(w)) /\ Beside(w, Invalidate(w))
         /\ w.tab = "motors" => ~Wants(Invalidate(w))
<1>1. w.tab = "motors" => \A j : JobOK(w.tab, j) /\ Eager(j) => j.who \in Flight
  BY FlightNames DEF JobOK, AtHome, Eager, SensorsNames
<1> QED
  BY <1>1, ForgetGoes, ForgetSettles, FlightNames DEF Invalidate

LEMMA DropReadsGoes == ASSUME NEW w, Fine(w) PROVE Goes(w, DropReads(w))
<1> DEFINE c == CancelQueued(w, Flight)
<1>1. Goes(w, c)
  BY CancelGoes, FlightNames
<1>2. Fine(c)
  BY <1>1 DEF Goes
<1> HIDE DEF c
<1>3. Goes(c, [c EXCEPT !.next = NoJob])
  BY <1>2, NextIs
<1>4. DropReads(w) \in {c, [c EXCEPT !.next = NoJob]}
  BY DEF DropReads, c
<1> QED
  BY <1>1, <1>3, <1>4, GoesTrans

LEMMA BenchPollGoes == ASSUME NEW w, Fine(w), w.tab = "motors" PROVE Goes(w, BenchPoll(w))
<1>1. Goes(w, Enter(w, Job("poll", PollLines)))
  BY JobIsNew, AskGoes, FlightNames, FlightLines
<1> QED
  BY <1>1, GoesRefl DEF BenchPoll

\* An action of the bench: a rate change, or a test.
LEMMA BenchRunIs ==
  ASSUME NEW w, Fine(w), w.tab = "motors", NEW j, WaitOK(w.tab, j), j.here, j.who \notin SensorsNames
  PROVE  /\ Bids(w, BenchRun(w, j))
         /\ Beyond(j) => Goes(w, BenchRun(w, j))
<1> DEFINE v == IF Busy(w, Flight) THEN Invalidate(w) ELSE w
           u == [v EXCEPT !.bench.act = TRUE]
<1>1. Goes(w, v)
  BY InvalidateGoes, GoesRefl
<1> HIDE DEF v
<1>2. Fine(v)
  BY <1>1 DEF Goes
<1>3. Knows(v, u)
  BY <1>2 DEF Knows, Shown, Fine, BrowserFields, BenchFields
<1>4. Goes(v, u) /\ Goes(w, u)
  BY <1>1, <1>2, <1>3, KnowsGoes, GoesTrans
<1>5. Fine(u) /\ u.tab = w.tab
  BY <1>4 DEF Goes, Calm, Base
<1>6. BenchRun(w, j) = StartAfter(u, j, Flight)
  BY DEF BenchRun, u, v
<1> HIDE DEF u
<1>7. Bids(u, StartAfter(u, j, Flight)) /\ (Beyond(j) => Goes(u, StartAfter(u, j, Flight)))
  BY <1>5, StartAfterGoes DEF SensorsNames
<1> QED
  BY <1>4, <1>6, <1>7, GoesTrans, BidsTrans

LEMMA BenchTestBids == ASSUME NEW w, Fine(w), w.tab = "motors" PROVE Bids(w, BenchTest(w))
<1> DEFINE j == Job("test", TestLines)
<1>1. IsNew(j, "test", TestLines)
  BY JobIsNew
<1> HIDE DEF j
<1>2. WaitOK(w.tab, j) /\ j.here /\ j.who \notin SensorsNames
  BY <1>1, TestFacts, FlightNames DEF IsNew, WaitOK, JobOK, SensorsNames, ActionNames
<1>3. BenchTest(w) = BenchRun(w, j)
  BY DEF BenchTest, j
<1> QED
  BY <1>2, <1>3, BenchRunIs

LEMMA BenchSetRateGoes == ASSUME NEW w, Fine(w), w.tab = "motors", NEW r PROVE Goes(w, BenchSetRate(w, r))
<1> DEFINE j == Job("setRate", RateLines(r))
<1>1. IsNew(j, "setRate", RateLines(r))
  BY JobIsNew
<1>2. BenchSetRate(w, r) = BenchRun(w, j)
  BY DEF BenchSetRate
<1> HIDE DEF j
<1>3. WaitOK(w.tab, j) /\ j.here /\ Beyond(j) /\ j.who \notin SensorsNames
  BY <1>1, NewJob, NamesFacts, FlightNames, FlightLines DEF IsNew
<1> QED
  BY <1>2, <1>3, BenchRunIs

\* A stop is on its way, and nothing of the bench is wanted any more.
Halted(w, v) ==
  /\ Rid(w, v) /\ ~Wants(v)
  /\ w.up => HasStop(v)
  /\ v.bench.stopping => HereStop(v)

LEMMA StopGoes ==
  ASSUME NEW w, Fine(w)
  PROVE  LET e == Enter(w, Job("stop", <<StopLine>>)) IN Goes(w, e) /\ HereStop(e)
<1> DEFINE s == <<StopLine>>
           j == Job("stop", s)
           e == Enter(w, j)
<1>1. IsNew(j, "stop", s)
  BY JobIsNew
<1>2. j \in StopJobs
  BY DEF StopJobs, Job
<1>3. s # <<>>
  OBVIOUS
<1> HIDE DEF j, s
<1>4. WaitOK(w.tab, j) /\ Beyond(j) /\ j # NoJob /\ j.here /\ j.who = "stop"
  BY <1>1, <1>2, <1>3, FlightNames, PagesAssumption
     DEF WaitOK, JobOK, IsNew, AllNames, Beyond, Reader, Eager, ActionNames
<1>5. Goes(w, e)
  BY <1>4, EnterGoes
<1>6. j \in InGate(e)
  BY <1>4, EnterIs DEF WaitOK
<1>7. HereStop(e)
  BY <1>4, <1>6 DEF HereStop
<1> QED
  BY <1>5, <1>7 DEF j, s

LEMMA HereIsStop == ASSUME NEW w, HereStop(w) PROVE HasStop(w)
  BY DEF HereStop, HasStop

LEMMA BenchStopIs ==
  ASSUME NEW w, Fine(w), w.tab = "motors", w.bench.stopping => HereStop(w)
  PROVE  Halted(w, BenchStop(w))
<1> DEFINE v == Invalidate(w)
           u == [v EXCEPT !.bench.act = TRUE, !.bench.stopping = TRUE, !.bench.still = FALSE]
           d == DropReads(u)
           e == Enter(d, Job("stop", <<StopLine>>))
<1>1. Goes(w, v) /\ ~Wants(v) /\ Beside(w, v)
  BY InvalidateGoes
<1>2. CASE w.bench.stopping \/ ~w.up
  <2>1. BenchStop(w) = v
    BY <1>2 DEF BenchStop
  <2>2. Rid(w, v) /\ (w.bench.stopping => HereStop(v)) /\ v.bench = w.bench
    BY <1>1, RidTrans DEF Rid, Beside
  <2> HIDE DEF v
  <2>3. Halted(w, v)
    BY <1>1, <1>2, <2>2, HereIsStop DEF Halted
  <2> QED
    BY <2>1, <2>3
<1>3. CASE ~(w.bench.stopping \/ ~w.up)
  <2>1. BenchStop(w) = e
    BY <1>3 DEF BenchStop
  <2> HIDE DEF v
  <2>2. Fine(v)
    BY <1>1 DEF Goes
  <2>3. Shown(v, u) /\ u.loop = v.loop /\ u.sens = v.sens /\ DOMAIN u.bench = BenchFields
    BY <2>2 DEF Shown, Fine, BrowserFields
  <2> HIDE DEF u
  <2>4. Rid(v, u)
    BY <2>2, <2>3, BenchRid
  <2>5. Goes(u, d)
    BY <2>4, DropReadsGoes DEF Rid
  <2> HIDE DEF d
  <2>6. Fine(d)
    BY <2>5 DEF Goes
  <2>7. Goes(d, e) /\ HereStop(e)
    BY <2>6, StopGoes
  <2> HIDE DEF e
  <2>8. Rid(w, e) /\ Rid(v, e)
    BY <1>1, <2>4, <2>5, <2>7, RidTrans
  <2>9. Halted(w, e)
    BY <1>1, <2>7, <2>8, HereIsStop DEF Halted, Rid
  <2> QED
    BY <2>1, <2>9
<1> QED
  BY <1>2, <1>3

\* A confirmation of the props is given, or taken back.
LEMMA ConfirmPropsIs ==
  ASSUME NEW w, Fine(w), w.tab = "motors", w.bench.stopping => HereStop(w)
  PROVE  /\ Goes(w, ConfirmProps(w, TRUE))
         /\ LET v == ConfirmProps(w, FALSE) IN ~Wants(v) /\ (Goes(w, v) \/ Halted(w, v))
<1>1. ASSUME NEW on \in BOOLEAN
      PROVE  LET v == [w EXCEPT !.bench.props = on]
             IN Goes(w, v) /\ v.bench.stopping = w.bench.stopping
  <2> DEFINE v == [w EXCEPT !.bench.props = on]
  <2>1. Knows(w, v)
    BY DEF Knows, Shown, Fine, BrowserFields, BenchFields
  <2> HIDE DEF v
  <2>2. Goes(w, v) /\ v.bench.stopping = w.bench.stopping
    BY <2>1, KnowsGoes DEF Knows
  <2> QED
    BY <2>2 DEF v
<1>2. Goes(w, ConfirmProps(w, TRUE))
  BY <1>1 DEF ConfirmProps
<1> DEFINE v == [w EXCEPT !.bench.props = FALSE]
           i == Invalidate(v)
           s == BenchStop(i)
<1>3. Goes(w, v) /\ v.bench.stopping = w.bench.stopping
  BY <1>1
<1>4. ConfirmProps(w, FALSE) \in {s, i}
  BY DEF ConfirmProps
<1> HIDE DEF v
<1>5. Fine(v) /\ v.tab = "motors"
  BY <1>3 DEF Goes, Calm, Base
<1>6. Goes(v, i) /\ ~Wants(i)
  BY <1>5, InvalidateGoes
<1> HIDE DEF i
<1>7. Goes(w, i)
  BY <1>3, <1>6, GoesTrans
<1>8. Fine(i) /\ i.tab = "motors" /\ (i.bench.stopping => HereStop(i)) /\ i.up = w.up
  BY <1>7 DEF Goes, Calm, Base
<1>9. Halted(i, s)
  BY <1>8, BenchStopIs
<1> HIDE DEF s
<1>10. Halted(w, s)
  BY <1>7, <1>8, <1>9, RidTrans DEF Halted
<1> QED
  BY <1>2, <1>4, <1>6, <1>7, <1>10 DEF Halted

LEMMA BenchHideIs ==
  ASSUME NEW w, Fine(w), w.tab = "motors", w.bench.stopping => HereStop(w)
  PROVE  Halted(w, BenchHide(w))
<1> DEFINE u == [w EXCEPT !.bench.visible = FALSE]
           v == ClearTicks(u)
           s == BenchStop(v)
<1>1. BenchHide(w) = s
  BY DEF BenchHide
<1>2. /\ Shown(w, v) /\ v.loop = w.loop /\ v.sens = w.sens /\ DOMAIN v.bench = BenchFields
      /\ v.bench.stopping = w.bench.stopping
  BY DEF ClearTicks, Shown, Fine, BrowserFields, BenchFields
<1> HIDE DEF v
<1>3. Rid(w, v) /\ (HereStop(w) => HereStop(v))
  BY <1>2, BenchRid DEF Rid
<1>4. Fine(v) /\ v.tab = "motors" /\ (v.bench.stopping => HereStop(v)) /\ v.up = w.up
  BY <1>2, <1>3 DEF Rid
<1>5. Halted(v, s)
  BY <1>4, BenchStopIs
<1> HIDE DEF s
<1>6. Halted(w, s)
  BY <1>3, <1>4, <1>5, RidTrans DEF Halted
<1> QED
  BY <1>1, <1>6

\* The bench is left: what it may have set spinning is stopped.
LEMMA BenchLeaveIs ==
  ASSUME NEW w, Fine(w), w.tab = "motors", w.bench.stopping => HereStop(w)
  PROVE  LET v == BenchLeave(w) IN Rid(w, v) /\ (w.up /\ w.bench.motion => HasStop(v))
<1> DEFINE u == ClearTicks([w EXCEPT !.bench.visible = FALSE])
           i == Invalidate(u)
           d == DropReads(i)
           s == BenchStop(d)
<1>1. BenchLeave(w) = IF w.bench.motion THEN s ELSE d
  BY DEF BenchLeave
<1>2. /\ Shown(w, u) /\ u.loop = w.loop /\ u.sens = w.sens /\ DOMAIN u.bench = BenchFields
      /\ u.bench.stopping = w.bench.stopping
  BY DEF ClearTicks, Shown, Fine, BrowserFields, BenchFields
<1> HIDE DEF u
<1>3. Rid(w, u) /\ (u.bench.stopping => HereStop(u))
  BY <1>2, BenchRid DEF Rid
<1>4. Goes(u, i)
  BY <1>3, InvalidateGoes DEF Rid
<1> HIDE DEF i
<1>5. Goes(i, d)
  BY <1>4, DropReadsGoes DEF Goes
<1> HIDE DEF d
<1>6. Goes(u, d)
  BY <1>4, <1>5, GoesTrans
<1>7. Rid(w, d) /\ Fine(d) /\ d.tab = "motors" /\ d.up = w.up /\ (d.bench.stopping => HereStop(d))
  BY <1>3, <1>6, RidTrans DEF Rid, Goes, Calm, Base
<1>8. Halted(d, s)
  BY <1>7, BenchStopIs
<1> HIDE DEF s
<1>9. Rid(w, s) /\ (w.up => HasStop(s))
  BY <1>7, <1>8, RidTrans DEF Halted
<1> QED
  BY <1>1, <1>7, <1>9

LEMMA BenchConnectionIs ==
  ASSUME NEW w, Fine(w)
  PROVE  LET v == BenchConnection(w) IN Rid(w, v) /\ ~v.bench.stopping
<1> DEFINE u == [w EXCEPT !.bench = [BenchInitial EXCEPT !.visible = w.bench.visible]]
           i == Invalidate(u)
           d == DropReads(i)
<1>1. BenchConnection(w) = d
  BY DEF BenchConnection
<1>2. /\ Shown(w, u) /\ u.loop = w.loop /\ u.sens = w.sens /\ DOMAIN u.bench = BenchFields
      /\ ~u.bench.stopping
  BY DEF BenchInitial, Shown, Fine, BrowserFields, BenchFields
<1> HIDE DEF u
<1>3. Rid(w, u)
  BY <1>2, BenchRid
<1>4. Goes(u, i)
  BY <1>3, InvalidateGoes DEF Rid
<1> HIDE DEF i
<1>5. Goes(i, d)
  BY <1>4, DropReadsGoes DEF Goes
<1> HIDE DEF d
<1>6. Goes(u, d)
  BY <1>4, <1>5, GoesTrans
<1>7. Rid(w, d) /\ ~d.bench.stopping
  BY <1>2, <1>3, <1>6, RidTrans DEF Goes, Calm, Base
<1> QED
  BY <1>1, <1>7

-----------------------------------------------------------------------------
(* What the bench makes of a reply.                                        *)

\* A job's page is the mounted one, if it is mounted at all.
Homely(w, j) == (j.mine => j.here) /\ (j.here => AtHome(w.tab, j.who))

LEMMA BenchPatchGoes ==
  ASSUME NEW w, Fine(w), NEW j
  PROVE  Goes(w, BenchPatch(w, j)) /\ Goes(w, Opened(w, j))
<1>1. DOMAIN w = BrowserFields /\ DOMAIN w.bench = BenchFields
  BY DEF Fine
<1>2. ASSUME NEW a PROVE Knows(w, BenchCatch(w, a))
  BY <1>1 DEF BenchCatch, ClearTicks, Knows, Shown, BrowserFields, BenchFields
<1>3. Knows(w, w)
  BY <1>1 DEF Knows, Shown
<1>4. Knows(w, Opened(w, j))
  BY <1>1 DEF Opened, Knows, Shown, BrowserFields, BenchFields
<1>5. Knows(w, BenchPatch(w, j))
  <2> DEFINE a == Last(j)
             v == [w EXCEPT !.bench.arm = a.kind, !.bench.fresh = TRUE]
             p1 == [v EXCEPT !.bench.motion = TRUE, !.bench.still = FALSE, !.bench.window = TRUE]
             p2 == [v EXCEPT !.bench.rate = Unknown]
             p3 == [v EXCEPT !.bench.still = FALSE]
             p4 == [w EXCEPT !.bench.rate = a.val]
             p5 == [w EXCEPT !.bench.window = TRUE]
             p6 == [w EXCEPT !.bench.rate = Unknown]
  <2>1. BenchPatch(w, j) \in {v, p1, p2, p3, p4, p5, p6, w, BenchCatch(w, a)}
    BY DEF BenchPatch
  <2>2. Knows(w, v) /\ Knows(w, p1) /\ Knows(w, p2) /\ Knows(w, p3)
    BY <1>1 DEF Knows, Shown, BrowserFields, BenchFields
  <2>3. Knows(w, p4) /\ Knows(w, p5) /\ Knows(w, p6)
    BY <1>1 DEF Knows, Shown, BrowserFields, BenchFields
  <2> HIDE DEF a, v, p1, p2, p3, p4, p5, p6
  <2> QED
    BY <1>2, <1>3, <2>1, <2>2, <2>3
<1> QED
  BY <1>4, <1>5, KnowsGoes

LEMMA FlightOverGoes ==
  ASSUME NEW w, Fine(w), w.tab = "motors", NEW j
  PROVE  Goes(w, FlightOver(w, j))
<1> DEFINE v == IF w.next = NoJob \/ ~w.next.mine THEN [w EXCEPT !.bench.act = w.bench.stopping] ELSE w
<1>1. Knows(w, v)
  BY DEF Knows, Shown, Fine, BrowserFields, BenchFields
<1>2. FlightOver(w, j) = StartNext(v)
  BY DEF FlightOver
<1> HIDE DEF v
<1>3. Goes(w, v)
  BY <1>1, KnowsGoes
<1>4. Goes(v, StartNext(v))
  BY <1>3, StartNextGoes DEF Goes, Calm, Base
<1> QED
  BY <1>2, <1>3, <1>4, GoesTrans

LEMMA BenchRepliedGoes ==
  ASSUME NEW w, Fine(w), NEW j, j.here => w.tab = "motors"
  PROVE  Goes(w, BenchReplied(w, j))
<1> DEFINE o == Opened(w, j)
           v == IF j.mine THEN BenchPatch(o, j) ELSE w
<1>1. Goes(w, o)
  BY BenchPatchGoes
<1> HIDE DEF o
<1>2. Goes(o, BenchPatch(o, j))
  BY <1>1, BenchPatchGoes DEF Goes
<1>3. Goes(w, v)
  BY <1>1, <1>2, GoesRefl, GoesTrans
<1>4. BenchReplied(w, j) = IF Ended(j) /\ j.here THEN FlightOver(v, j) ELSE v
  BY DEF BenchReplied, o
<1> HIDE DEF v
<1>5. j.here => Goes(v, FlightOver(v, j))
  BY <1>3, FlightOverGoes DEF Goes, Calm, Base
<1> QED
  BY <1>3, <1>4, <1>5, GoesTrans

\* The answer of a stop.
LEMMA StopRepliedIs ==
  ASSUME NEW w, Fine(w), NEW j
  PROVE  LET v == StopReplied(w, j) IN Rid(w, v) /\ (v.bench.stopping => w.bench.stopping /\ ~j.here /\ v = w)
<1> DEFINE v == StopReplied(w, j)
<1>1. CASE ~j.here
  BY <1>1, GoesRefl, RidTrans DEF StopReplied
<1>2. CASE j.here
  <2>1. /\ Shown(w, v) /\ v.loop = w.loop /\ v.sens = w.sens /\ DOMAIN v.bench = BenchFields
        /\ ~v.bench.stopping
    BY <1>2 DEF StopReplied, Shown, Fine, BrowserFields, BenchFields
  <2> HIDE DEF v
  <2>2. Rid(w, v)
    BY <2>1, BenchRid
  <2> QED
    BY <2>1, <2>2 DEF v
<1> QED
  BY <1>1, <1>2

-----------------------------------------------------------------------------
(* The panels of the Motors page.                                          *)

LEMMA PanelNames ==
  /\ DirectionNames \cup PolesNames \subseteq Common
  /\ \A who \in DirectionNames \cup PolesNames : \A tab : AtHome(tab, who)
  /\ "stop" \notin DirectionNames \cup PolesNames \cup {"readDirection", "readPoles"}
  /\ {"readDirection", "readPoles", "applyDirection", "applyPoles"} \subseteq DirectionNames \cup PolesNames
  BY DEF DirectionNames, PolesNames, Common, OtherNames, AtHome, Flight, SetupNames, RateNames, ReceiverNames,
         SensorsNames, ActionNames

LEMMA PanelLines ==
  /\ Plain("readDirection", readMotorDirection) /\ readMotorDirection # <<>>
  /\ Plain("readPoles", readMotorPoles) /\ readMotorPoles # <<>>
  /\ \A v : Plain("applyDirection", applyMotorDirection(v)) /\ applyMotorDirection(v) # <<>>
  /\ \A v : Plain("applyPoles", applyMotorPoles(v)) /\ applyMotorPoles(v) # <<>>
<1>1. /\ \A k : Quiet(Get(k)) /\ Quiet(Read(k))
      /\ \A k, v : Quiet(Set(k, v))
  BY DEF Quiet, Get, Read, Set, Line
<1>2. Free(readMotorDirection) /\ Free(readMotorPoles)
  BY <1>1, FreeTwo DEF readMotorDirection, readMotorPoles
<1>3. ASSUME NEW v PROVE Free(applyMotorDirection(v)) /\ Free(applyMotorPoles(v))
  <2>1. Free(<<Set("direction", v)>>) /\ Free(<<Set("poles", v)>>)
    BY <1>1, FreeOne
  <2>2. Free(<<Set("direction", v)>> \o readMotorDirection) /\ Free(<<Set("poles", v)>> \o readMotorPoles)
    BY <1>2, <2>1, FreeJoin
  <2> QED
    BY <2>2 DEF applyMotorDirection, applyMotorPoles
<1> QED
  BY <1>2, <1>3, PlainFree DEF ActionNames

LEMMA PanelAsks ==
  ASSUME NEW w, Fine(w), NEW v
  PROVE  /\ Goes(w, DirectionRead(w)) /\ Goes(w, PolesRead(w))
         /\ Goes(w, ApplyDirection(w, v)) /\ Goes(w, ApplyPoles(w, v))
<1>1. Goes(w, ApplyDirection(w, v)) /\ Goes(w, ApplyPoles(w, v))
  BY AskGoes, JobIsNew, PanelNames, PanelLines DEF ApplyDirection, ApplyPoles
<1>2. ASSUME NEW u, Fine(u)
      PROVE  Goes(u, Enter(u, Job("readDirection", readMotorDirection))) /\ Goes(u, Enter(u, Job("readPoles", readMotorPoles)))
  BY <1>2, AskGoes, JobIsNew, PanelNames, PanelLines
<1>3. ASSUME NEW who \in {"readDirection", "readPoles"} PROVE Goes(w, Forget(w, {who})) /\ Fine(Forget(w, {who}))
  BY ForgetGoes DEF Goes
<1> QED
  BY <1>1, <1>2, <1>3, GoesTrans DEF DirectionRead, PolesRead

LEMMA PanelReplies ==
  ASSUME NEW w, Fine(w), NEW j
  PROVE  Goes(w, DirectionReplied(w, j)) /\ Goes(w, PolesReplied(w, j))
<1>1. Same(w, DirectionReplied(w, j)) /\ Same(w, PolesReplied(w, j))
  BY DEF DirectionReplied, PolesReplied, Same, Shown
<1> QED
  BY <1>1, SameGoes

LEMMA PanelResets ==
  ASSUME NEW w, Fine(w)
  PROVE  Goes(w, DirectionReset(w)) /\ Goes(w, PolesLost(w))
<1> DEFINE d == Forget(w, DirectionNames)
           p == Forget(w, {"readPoles"})
<1>1. Goes(w, d) /\ Goes(w, p)
  BY ForgetGoes, PanelNames
<1> HIDE DEF d, p
<1>2. Same(d, [d EXCEPT !.dir = Unknown]) /\ Same(p, [p EXCEPT !.poles = Unknown])
  BY DEF Same, Shown
<1>3. Goes(d, [d EXCEPT !.dir = Unknown]) /\ Goes(p, [p EXCEPT !.poles = Unknown])
  BY <1>1, <1>2, SameGoes DEF Goes
<1> QED
  BY <1>1, <1>3, GoesTrans DEF DirectionReset, PolesLost, d, p

-----------------------------------------------------------------------------
(* The Motors page.                                                        *)

LEMMA MotorsConnectedIs ==
  ASSUME NEW w, Fine(w), w.tab = "motors"
  PROVE  LET v == MotorsConnected(w) IN Rid(w, v) /\ ~v.bench.stopping
<1> DEFINE a == BenchConnection(w)
           b == BenchPoll(a)
           c == StorageReset(b, TRUE)
           d == PolesRead(c)
           v == DirectionRead(d)
<1>1. Rid(w, a) /\ ~a.bench.stopping
  BY BenchConnectionIs
<1> HIDE DEF a
<1>2. Goes(a, b)
  BY <1>1, BenchPollGoes DEF Rid
<1> HIDE DEF b
<1>3. Goes(b, c)
  BY <1>2, StorageResetGoes DEF Goes
<1> HIDE DEF c
<1>4. Goes(c, d)
  BY <1>3, PanelAsks DEF Goes
<1> HIDE DEF d
<1>5. Goes(d, v)
  BY <1>4, PanelAsks DEF Goes
<1>6. MotorsConnected(w) = v
  BY DEF MotorsConnected, a, b, c, d
<1> HIDE DEF v
<1>7. Goes(a, v)
  BY <1>2, <1>3, <1>4, <1>5, GoesTrans
<1>8. Rid(w, v) /\ ~v.bench.stopping
  BY <1>1, <1>7, RidTrans DEF Goes, Calm, Base
<1> QED
  BY <1>6, <1>8

LEMMA MotorsLostIs ==
  ASSUME NEW w, Fine(w)
  PROVE  LET v == MotorsLost(w) IN Rid(w, v) /\ ~v.bench.stopping
<1> DEFINE a == BenchConnection(w)
           b == StorageReset(a, FALSE)
           c == DirectionReset(b)
           v == PolesLost(c)
<1>1. Rid(w, a) /\ ~a.bench.stopping
  BY BenchConnectionIs
<1> HIDE DEF a
<1>2. Goes(a, b)
  BY <1>1, StorageResetGoes DEF Rid
<1> HIDE DEF b
<1>3. Goes(b, c)
  BY <1>2, PanelResets DEF Goes
<1> HIDE DEF c
<1>4. Goes(c, v)
  BY <1>3, PanelResets DEF Goes
<1>5. MotorsLost(w) = v
  BY DEF MotorsLost, a, b, c
<1> HIDE DEF v
<1>6. Goes(a, v)
  BY <1>2, <1>3, <1>4, GoesTrans
<1>7. Rid(w, v) /\ ~v.bench.stopping
  BY <1>1, <1>6, RidTrans DEF Goes, Calm, Base
<1> QED
  BY <1>5, <1>7

LEMMA MotorsMountIs ==
  ASSUME NEW w, Fine(w), w.tab = "motors"
  PROVE  LET v == MotorsMount(w) IN Rid(w, v) /\ ~v.bench.stopping
<1> DEFINE u == [w EXCEPT !.bench = BenchInitial, !.dir = Unknown, !.poles = Unknown]
<1>1. /\ Shown(w, u) /\ u.loop = w.loop /\ u.sens = w.sens /\ DOMAIN u.bench = BenchFields
      /\ ~u.bench.stopping /\ u.up = w.up
  BY DEF BenchInitial, Shown, Fine, BrowserFields, BenchFields
<1>2. MotorsMount(w) = IF w.up THEN MotorsConnected(u) ELSE StorageReset(u, FALSE)
  BY <1>1 DEF MotorsMount
<1> HIDE DEF u
<1>3. Rid(w, u)
  BY <1>1, BenchRid
<1>4. Fine(u) /\ u.tab = "motors"
  BY <1>3 DEF Rid
<1>5. Rid(u, MotorsConnected(u)) /\ ~MotorsConnected(u).bench.stopping
  BY <1>4, MotorsConnectedIs
<1>6. Goes(u, StorageReset(u, FALSE))
  BY <1>4, StorageResetGoes
<1>7. ~StorageReset(u, FALSE).bench.stopping
  BY <1>1, <1>6 DEF Goes, Calm, Base
<1> QED
  BY <1>2, <1>3, <1>5, <1>6, <1>7, RidTrans

LEMMA MotorsRepliedGoes ==
  ASSUME NEW w, Fine(w), NEW j, Homely(w, j), j.who \in MotorsNames, j.who # "stop"
  PROVE  Goes(w, MotorsReplied(w, j))
<1>1. CASE j.who \in Flight
  <2> DEFINE v == BenchReplied(w, j)
  <2>1. Goes(w, v)
    BY <1>1, BenchRepliedGoes DEF Homely, AtHome
  <2> HIDE DEF v
  <2>2. Goes(v, RateConfirmed(v, j))
    BY <2>1, GoesRefl, StorageResetGoes DEF Goes, RateConfirmed
  <2> QED
    BY <1>1, <2>1, <2>2, GoesTrans DEF MotorsReplied, v
<1>2. CASE j.who \notin Flight
  BY <1>2, PanelReplies DEF MotorsReplied
<1> QED
  BY <1>1, <1>2

-----------------------------------------------------------------------------
(* The Filters page.                                                       *)

FreeOrNone(s) == s = <<>> \/ Free(s)

LEMMA NoneJoin == ASSUME NEW s, IsSeq(s) PROVE <<>> \o s = s /\ s \o <<>> = s
<1> DEFINE T == {s[i] : i \in DOMAIN s}
<1>1. s \in Seq(T)
  BY DEF IsSeq
<1> HIDE DEF T
<1> QED
  BY <1>1

LEMMA FreeOrNoneJoin ==
  ASSUME NEW s, NEW t, FreeOrNone(s), FreeOrNone(t)
  PROVE  FreeOrNone(s \o t) /\ (Free(s) \/ Free(t) => Free(s \o t))
<1>1. CASE s = <<>> /\ t = <<>>
  <2>1. <<>> \o <<>> = <<>>
    OBVIOUS
  <2>2. ~Free(<<>>)
    BY DEF Free
  <2> QED
    BY <1>1, <2>1, <2>2 DEF FreeOrNone
<1>2. CASE s = <<>> /\ Free(t)
  <2>1. s \o t = t
    BY <1>2, NoneJoin DEF Free
  <2> QED
    BY <1>2, <2>1 DEF FreeOrNone
<1>3. CASE Free(s) /\ t = <<>>
  <2>1. s \o t = s
    BY <1>3, NoneJoin DEF Free
  <2> QED
    BY <1>3, <2>1 DEF FreeOrNone
<1>4. CASE Free(s) /\ Free(t)
  BY <1>4, FreeJoin DEF FreeOrNone
<1> QED
  BY <1>1, <1>2, <1>3, <1>4 DEF FreeOrNone

LEMMA QuietLines ==
  /\ \A k : Quiet(Get(k)) /\ Quiet(Read(k))
  /\ \A k, v : Quiet(Set(k, v))
  BY DEF Quiet, Get, Read, Set, Line

LEMMA NotchPlanFree ==
  ASSUME NEW cur, NEW next
  PROVE  FreeOrNone(notchWritePlan(cur, next))
<1> DEFINE center == Set("center", next.center)
           cutoff == Set("cutoff", next.cutoff)
           a == IF cur.center # 0 THEN <<Set("center", 0)>> ELSE <<>>
           b == IF cur.cutoff # next.cutoff THEN <<cutoff>> ELSE <<>>
           c == IF next.center # 0 THEN <<center>> ELSE <<>>
<1>1. Free(<<cutoff>>) /\ Free(<<center>>) /\ Free(<<Set("center", 0)>>)
  BY QuietLines, FreeOne
<1>2. Free(<<cutoff, center>>) /\ Free(<<center, cutoff>>)
  BY QuietLines, FreeTwo
<1>3. FreeOrNone(a) /\ FreeOrNone(b) /\ FreeOrNone(c)
  BY <1>1 DEF FreeOrNone
<1>4. notchWritePlan(cur, next) \in {<<>>, <<cutoff>>, <<center>>, <<cutoff, center>>, <<center, cutoff>>, a \o b \o c}
  BY DEF notchWritePlan
<1> HIDE DEF a, b, c
<1>5. FreeOrNone(a \o b)
  BY <1>3, FreeOrNoneJoin
<1>6. FreeOrNone(a \o b \o c)
  BY <1>3, <1>5, FreeOrNoneJoin
<1> QED
  BY <1>1, <1>2, <1>4, <1>6 DEF FreeOrNone

LEMMA FiltersLines ==
  /\ Plain("loadFilters", LoadLines) /\ LoadLines # <<>>
  /\ Plain("defaultsFilters", restoreDefaults) /\ restoreDefaults # <<>>
  /\ \A w, next : Plain("saveFilters", SaveLines(w, next)) /\ SaveLines(w, next) # <<>>
  /\ Free(readNotches)
<1>1. Free(readNotches) /\ Free(readRpm)
  BY QuietLines, FreeTwo, FreeThree DEF readNotches, readRpm
<1>2. Free(LoadLines)
  <2>1. Free(<<getAllSettings("lpf")>>)
    BY QuietLines, FreeOne DEF getAllSettings
  <2>2. Free(<<getAllSettings("lpf")>> \o readNotches)
    BY <1>1, <2>1, FreeJoin
  <2>3. Free(<<getAllSettings("lpf")>> \o readNotches \o readRpm)
    BY <1>1, <2>2, FreeJoin
  <2> QED
    BY <2>3 DEF LoadLines
<1>3. Plain("defaultsFilters", restoreDefaults) /\ restoreDefaults # <<>>
  <2> DEFINE x == Line("defaults", "", 0, "write")
             y == Held(getAllSettings("lpf"))
             s == <<x, y>>
  <2>1. x.op # "start" /\ y.op # "start"
    BY DEF Held, getAllSettings, Get, Line
  <2>2. restoreDefaults = s
    BY DEF restoreDefaults
  <2> HIDE DEF x, y
  <2>3. s \in Seq({x, y})
    OBVIOUS
  <2>4. IsSeq(s)
    BY <2>3, IsSeqIntro
  <2>5. Len(s) = 2 /\ s # <<>> /\ s[1] = x /\ s[2] = y
    OBVIOUS
  <2> HIDE DEF s
  <2>6. \A i \in 1 .. Len(s) : i = 1 \/ i = 2
    BY <2>5
  <2>7. \A i \in 1 .. Len(s) : s[i].op # "start"
    BY <2>1, <2>5, <2>6
  <2>8. Plain("defaultsFilters", s)
    BY <2>4, <2>7 DEF Plain, HeldRight, ActionNames
  <2> QED
    BY <2>2, <2>5, <2>8
<1>4. ASSUME NEW w, NEW next PROVE Plain("saveFilters", SaveLines(w, next)) /\ SaveLines(w, next) # <<>>
  <2> DEFINE l == <<Set("lpf", next.lpf)>>
             n == NotchChanges(w, next)
             r == RpmChanges(w, next)
             p == <<Set("rpm", next.rpm)>>
  <2>1. Free(l) /\ Free(p)
    BY QuietLines, FreeOne
  <2>2. FreeOrNone(n)
    BY NotchPlanFree DEF NotchChanges, FreeOrNone
  <2>3. FreeOrNone(r)
    <3>1. r \in {<<>>, p \o readRpm}
      BY DEF RpmChanges
    <3> HIDE DEF r, p
    <3>2. Free(p \o readRpm)
      BY <1>1, <2>1, FreeJoin
    <3> QED
      BY <3>1, <3>2 DEF FreeOrNone
  <2> HIDE DEF l, n, r
  <2>4. Free(l \o n)
    BY <2>1, <2>2, FreeOrNoneJoin DEF FreeOrNone
  <2>5. Free(l \o n \o r)
    BY <2>3, <2>4, FreeOrNoneJoin DEF FreeOrNone
  <2>6. Free(l \o n \o r \o readNotches)
    BY <1>1, <2>5, FreeJoin
  <2>7. Led(l \o n \o r \o readNotches)
    BY <2>6, FreeLed
  <2>8. Led(l \o n \o r \o readNotches \o saveSequence)
    BY <2>7, SaveLed, LedJoin
  <2>9. SaveLines(w, next) = l \o n \o r \o readNotches \o saveSequence
    BY DEF SaveLines, l, n, r
  <2>10. Led(SaveLines(w, next))
    BY <2>8, <2>9
  <2> QED
    BY <2>10 DEF Led, Plain, HeldRight, StorageNames, SetupNames, RateNames, ActionNames
<1> QED
  BY <1>1, <1>2, <1>3, <1>4, PlainFree DEF ActionNames

LEMMA FiltersWho ==
  ASSUME NEW who \in FiltersNames, NEW tab
  PROVE  who \in Common /\ AtHome(tab, who) /\ who # "stop"
  BY DEF Common, OtherNames, AtHome, FiltersNames, SensorsNames, ActionNames, Flight, SetupNames, RateNames,
         ReceiverNames

LEMMA FiltersLoadGoes == ASSUME NEW w, Fine(w) PROVE Goes(w, FiltersLoad(w))
<1> DEFINE f == Forget(w, {"loadFilters"})
<1>1. Goes(w, f)
  BY ForgetGoes
<1>2. "loadFilters" \in FiltersNames
  BY DEF FiltersNames
<1> HIDE DEF f
<1>3. Goes(f, Enter(f, Job("loadFilters", LoadLines)))
  BY <1>1, <1>2, AskGoes, JobIsNew, FiltersLines, FiltersWho DEF Goes
<1> QED
  BY <1>1, <1>3, GoesTrans DEF FiltersLoad, f

LEMMA SameThenLoad == ASSUME NEW w, Fine(w), NEW v, Same(w, v) PROVE Goes(w, v) /\ Goes(w, FiltersLoad(v))
<1>1. Goes(w, v)
  BY SameGoes
<1>2. Goes(v, FiltersLoad(v))
  BY <1>1, FiltersLoadGoes DEF Goes
<1> QED
  BY <1>1, <1>2, GoesTrans

LEMMA WritingGoes ==
  ASSUME NEW w, Fine(w), NEW v, Same(w, v), NEW who \in FiltersNames, NEW s, Plain(who, s), s # <<>>, NEW sound
  PROVE  Goes(w, Writing(v, Job(who, s), sound))
<1> DEFINE u == NotAlone(v)
           others == \E x \in InGate(v) : x.who \in FilterWriters
           j == [Job(who, s) EXCEPT !.alone = sound /\ ~others]
<1>1. Goes(w, v)
  BY SameGoes
<1>2. Goes(v, u)
  BY <1>1, NotAloneGoes DEF Goes
<1>3. IsNew(j, who, s)
  BY JobIsNew
<1>4. Writing(v, Job(who, s), sound) = Enter(u, j)
  BY DEF Writing
<1> HIDE DEF u, j
<1>5. Goes(u, Enter(u, j))
  BY <1>2, <1>3, AskGoes, FiltersWho DEF Goes
<1> QED
  BY <1>1, <1>2, <1>4, <1>5, GoesTrans

LEMMA FiltersAsks ==
  ASSUME NEW w, Fine(w), NEW next, NEW sound
  PROVE  /\ Goes(w, FiltersSave(w, next, sound)) /\ Goes(w, FiltersDefaults(w))
         /\ Goes(w, FiltersLost(w)) /\ Goes(w, FiltersConnected(w)) /\ Goes(w, FiltersMount(w))
<1>1. Goes(w, FiltersSave(w, next, sound))
  <2>1. Same(w, [w EXCEPT !.filt.msg = "local", !.filt.line = ""]) /\ Same(w, [w EXCEPT !.filt.msg = "", !.filt.line = ""])
    BY DEF Same, Shown
  <2>2. "saveFilters" \in FiltersNames
    BY DEF FiltersNames
  <2> QED
    BY <2>1, <2>2, SameThenLoad, WritingGoes, FiltersLines DEF FiltersSave
<1>2. Goes(w, FiltersDefaults(w))
  <2>1. Same(w, [w EXCEPT !.filt.msg = "local"]) /\ Same(w, [w EXCEPT !.filt.msg = ""])
    BY DEF Same, Shown
  <2>2. "defaultsFilters" \in FiltersNames
    BY DEF FiltersNames
  <2> QED
    BY <2>1, <2>2, SameThenLoad, WritingGoes, FiltersLines DEF FiltersDefaults
<1>3. Goes(w, FiltersLost(w))
  <2>1. Same(w, FiltersLost(w))
    BY DEF FiltersLost, NoNotches, Same, Shown
  <2> QED
    BY <2>1, SameGoes
<1>4. Goes(w, FiltersConnected(w))
  <2>1. Same(w, [w EXCEPT !.filt.again = FALSE])
    BY DEF Same, Shown
  <2> QED
    BY <2>1, SameThenLoad, GoesRefl DEF FiltersConnected
<1>5. Goes(w, FiltersMount(w))
  <2> DEFINE v == [w EXCEPT !.filt = [FiltersInitial EXCEPT !.again = ~w.up]]
  <2>1. Same(w, v)
    BY DEF Same, Shown
  <2>2. FiltersMount(w) \in {v, FiltersLoad(v)}
    BY DEF FiltersMount
  <2> HIDE DEF v
  <2> QED
    BY <2>1, <2>2, SameThenLoad
<1> QED
  BY <1>1, <1>2, <1>3, <1>4, <1>5

LEMMA FiltersRepliedGoes ==
  ASSUME NEW w, Fine(w), NEW j, NEW line
  PROVE  Goes(w, FiltersReplied(w, j, line))
<1>1. Same(w, w) /\ Same(w, [w EXCEPT !.filt.msg = "saved"]) /\ Same(w, [w EXCEPT !.filt.msg = "defaults"])
      /\ \A m : Same(w, [w EXCEPT !.filt.line = m])
  BY DEF Same, Shown
<1>2. Same(w, LoadReplied(w, j))
  BY DEF LoadReplied, NoNotches, ShowNotches, ShowRpm, Same, Shown
<1>3. Same(w, ShowRpm(w, j)) /\ Same(w, ShowNotches(w, j))
  BY DEF NoNotches, ShowNotches, ShowRpm, Same, Shown
<1>4. Goes(w, SaveFiltersReplied(w, j, line))
  BY <1>1, <1>3, SameThenLoad DEF SaveFiltersReplied
<1> QED
  BY <1>1, <1>2, <1>4, SameThenLoad DEF FiltersReplied

-----------------------------------------------------------------------------
(* The Receiver, Rates, Modes and Power pages.                             *)

LEMMA PageWho ==
  /\ \A who \in ReceiverNames : who \in Common /\ who # "stop" /\ AtHome("receiver", who)
  /\ \A who \in RatesNames \cup ModesNames \cup PowerNames : \A tab : who \in Common /\ who # "stop" /\ AtHome(tab, who)
  BY DEF Common, OtherNames, AtHome, SensorsNames, ActionNames, Flight, SetupNames, RateNames,
         ReceiverNames, RatesNames, ModesNames, SnapshotNames, PowerNames

\* Only what such a page shows has changed, and no job is put off any more.
Drops(w, v) == /\ DOMAIN v = DOMAIN w
               /\ v.wire = w.wire /\ v.queue = w.queue /\ v.next = NoJob /\ v.up = w.up /\ v.tab = w.tab
               /\ v.bench = w.bench /\ v.loop = w.loop /\ v.sens = w.sens

LEMMA DropsGoes == ASSUME NEW w, NEW v, Fine(w), Drops(w, v) PROVE Goes(w, v)
<1> DEFINE u == [w EXCEPT !.next = NoJob]
<1>1. Goes(w, u) /\ Beside(w, u) /\ u.next = NoJob
  BY NextIs
<1>2. u.wire = w.wire /\ u.queue = w.queue
  BY DEF Fine, BrowserFields
<1> HIDE DEF u
<1>3. Same(u, v)
  BY <1>1, <1>2 DEF Same, Shown, Drops, Beside
<1> QED
  BY <1>1, <1>3, SameGoes, GoesTrans DEF Goes

LEMMA ReceiverLinesPlain ==
  /\ \A w : Plain("receiver", ReceiverLines(w)) /\ ReceiverLines(w) # <<>>
  /\ \A v : Plain("applyMap", <<Set("map", v), PollReceiver>>) /\ <<Set("map", v), PollReceiver>> # <<>>
<1>1. Quiet(PollReceiver)
  BY DEF Quiet, PollReceiver, Line
<1>2. Free(<<PollReceiver>>) /\ Free(<<Read("ports"), PollReceiver>>)
  BY <1>1, QuietLines, FreeOne, FreeTwo
<1>3. \A w : Free(ReceiverLines(w))
  BY <1>2 DEF ReceiverLines
<1>4. \A v : Free(<<Set("map", v), PollReceiver>>)
  BY <1>1, QuietLines, FreeTwo
<1> QED
  BY <1>3, <1>4, PlainFree DEF ActionNames

LEMMA ReceiverPollGoes == ASSUME NEW w, Fine(w), w.tab = "receiver" PROVE Goes(w, ReceiverPoll(w))
<1>1. "receiver" \in ReceiverNames
  BY DEF ReceiverNames
<1>2. Goes(w, Enter(w, Job("receiver", ReceiverLines(w))))
  BY <1>1, AskGoes, JobIsNew, PageWho, ReceiverLinesPlain
<1> QED
  BY <1>2, GoesRefl DEF ReceiverPoll

LEMMA ApplyMapGoes == ASSUME NEW w, Fine(w), w.tab = "receiver", NEW v PROVE Goes(w, ApplyMap(w, v))
<1>1. "applyMap" \in ReceiverNames
  BY DEF ReceiverNames
<1>2. Same(w, [w EXCEPT !.recv.map = v, !.recv.pending = TRUE])
  BY DEF Same, Shown
<1> QED
  BY <1>1, <1>2, ShowThenAsk, JobIsNew, PageWho, ReceiverLinesPlain DEF ApplyMap

LEMMA ReceiverRepliedGoes ==
  ASSUME NEW w, Fine(w), NEW j, Homely(w, j), j.who \in ReceiverNames
  PROVE  Goes(w, ReceiverReplied(w, j))
<1> DEFINE a == Last(j)
           v1 == [w EXCEPT !.recv.ports = TRUE]
           v2 == Accept(w, a)
           v3 == [Accept(w, a) EXCEPT !.recv.map = a.val, !.recv.pending = FALSE]
           v4 == [w EXCEPT !.recv.pending = FALSE]
<1>1. Same(w, v1) /\ Same(w, v2) /\ Same(w, v3) /\ Same(w, v4) /\ Same(w, w)
  BY DEF Accept, Same, Shown
<1>2. \E v \in {v1, v2, v3, v4, w} :
         ReceiverReplied(w, j) = IF ~j.mine THEN w ELSE IF Ended(j) THEN StartNext(v) ELSE v
  BY DEF ReceiverReplied
<1> HIDE DEF v1, v2, v3, v4
<1>3. PICK v : Same(w, v) /\ ReceiverReplied(w, j) = IF ~j.mine THEN w ELSE IF Ended(j) THEN StartNext(v) ELSE v
  BY <1>1, <1>2
<1>4. Goes(w, v)
  BY <1>3, SameGoes
<1>5. CASE j.mine
  <2>1. w.tab = "receiver"
    BY <1>5 DEF Homely, AtHome
  <2>2. Goes(v, StartNext(v))
    BY <1>4, <2>1, StartNextGoes DEF Goes, Calm, Base
  <2>3. Goes(w, StartNext(v))
    BY <1>4, <2>2, GoesTrans
  <2> QED
    BY <1>3, <1>4, <1>5, <2>3
<1> QED
  BY <1>3, <1>5, GoesRefl

LEMMA ReceiverResetGoes == ASSUME NEW w, Fine(w), w.tab = "receiver" PROVE Goes(w, ReceiverReset(w))
<1> DEFINE f == Forget(w, ReceiverNames)
           v == [f EXCEPT !.recv = ReceiverInitial, !.next = NoJob]
           p == IF w.up THEN ReceiverPoll(v) ELSE v
<1>1. Goes(w, f)
  BY ForgetGoes, PageWho
<1>2. ReceiverReset(w) = StorageReset(p, w.up)
  BY DEF ReceiverReset
<1> HIDE DEF f
<1>3. Drops(f, v)
  BY <1>1 DEF Drops, Goes, Fine, BrowserFields
<1> HIDE DEF v
<1>4. Goes(f, v)
  BY <1>1, <1>3, DropsGoes DEF Goes
<1>5. Fine(v) /\ v.tab = "receiver"
  BY <1>1, <1>4 DEF Goes, Calm, Base
<1>6. Goes(v, p)
  BY <1>5, ReceiverPollGoes, GoesRefl
<1> HIDE DEF p
<1>7. Goes(p, StorageReset(p, w.up))
  BY <1>6, StorageResetGoes DEF Goes
<1> QED
  BY <1>1, <1>2, <1>4, <1>6, <1>7, GoesTrans

-----------------------------------------------------------------------------
LEMMA RatesLinesPlain ==
  /\ Plain("loadRates", <<getAllSettings("expo"), StorageLine("normal")>>)
  /\ <<getAllSettings("expo"), StorageLine("normal")>> # <<>>
  /\ \A v : LET s == <<Set("expo", v)>> \o saveSequence
                      \o <<[getAllSettings("expo") EXCEPT !.val = v], StorageLine("normal")>>
            IN Plain("saveRates", s) /\ s # <<>>
<1>1. Quiet(getAllSettings("expo")) /\ Quiet(StorageLine("normal"))
      /\ \A v : Quiet([getAllSettings("expo") EXCEPT !.val = v])
  BY DEF Quiet, getAllSettings, Get, StorageLine, Line
<1>2. Free(<<getAllSettings("expo"), StorageLine("normal")>>)
  BY <1>1, FreeTwo
<1>3. ASSUME NEW v
      PROVE  LET s == <<Set("expo", v)>> \o saveSequence
                      \o <<[getAllSettings("expo") EXCEPT !.val = v], StorageLine("normal")>>
             IN Plain("saveRates", s) /\ s # <<>>
  <2> DEFINE a == <<Set("expo", v)>>
             b == a \o saveSequence
             x == [getAllSettings("expo") EXCEPT !.val = v]
             y == StorageLine("normal")
             c == <<x, y>>
             s == b \o c
  <2>1. Free(a) /\ Len(a) = 1
    BY QuietLines, FreeOne, OneLine
  <2>2. Free(c) /\ Len(c) = 2
    BY <1>1, FreeTwo
  <2> HIDE DEF a, c
  <2>3. Led(b)
    BY <2>1, FreeLed, SaveLed, LedJoin
  <2>4. Len(b) = 4
    <3>1. IsSeq(a) /\ IsSeq(saveSequence)
      BY <2>1, SaveLed DEF Free, Led
    <3>2. Len(b) = Len(a) + Len(saveSequence)
      BY <3>1, JoinSeq
    <3> QED
      BY <2>1, <3>2, SaveLed
  <2> HIDE DEF b
  <2>5. Led(s)
    BY <2>2, <2>3, FreeLed, LedJoin
  <2>6. Len(s) = 6 /\ \A i \in 1 .. Len(s) : s[i] = IF i <= Len(b) THEN b[i] ELSE c[i - Len(b)]
    <3>1. IsSeq(b) /\ IsSeq(c)
      BY <2>2, <2>3 DEF Free, Led
    <3>2. Len(s) = Len(b) + Len(c) /\ \A i \in 1 .. Len(s) : s[i] = IF i <= Len(b) THEN b[i] ELSE c[i - Len(b)]
      BY <3>1, JoinSeq
    <3> QED
      BY <2>2, <2>4, <3>2
  <2> HIDE DEF s
  <2>7. Released(s)
    <3> SUFFICES ASSUME NEW i \in 1 .. Len(s), i + 1 >= Len(s) PROVE s[i].cls # "held"
      BY DEF Released
    <3>1. ~(i <= Len(b)) /\ i - Len(b) \in 1 .. Len(c)
      BY <2>2, <2>4, <2>6
    <3> QED
      BY <2>2, <2>6, <3>1 DEF Free, Quiet
  <2>8. Plain("saveRates", s) /\ s # <<>>
    BY <2>5, <2>7 DEF Led, Plain, HeldRight, StorageNames, SetupNames, RateNames, ActionNames
  <2> QED
    BY <2>8 DEF s, b, a, c
<1> QED
  BY <1>2, <1>3, PlainFree DEF ActionNames

LEMMA RatesLoadGoes == ASSUME NEW w, Fine(w) PROVE Goes(w, RatesLoad(w))
<1> DEFINE f == Forget(w, RatesNames)
           v == [f EXCEPT !.rates = RatesInitial]
           e == Enter(v, Job("loadRates", <<getAllSettings("expo"), StorageLine("normal")>>))
<1>1. Goes(w, f)
  BY ForgetGoes, PageWho
<1>2. RatesLoad(w) \in {v, e}
  BY DEF RatesLoad
<1> HIDE DEF f
<1>3. Same(f, v)
  BY DEF Same, Shown
<1>4. "loadRates" \in RatesNames
  BY DEF RatesNames
<1> HIDE DEF v
<1>5. Goes(f, v) /\ Goes(f, e)
  BY <1>1, <1>3, <1>4, ShowThenAsk, JobIsNew, PageWho, RatesLinesPlain DEF Goes
<1> QED
  BY <1>1, <1>2, <1>5, GoesTrans

LEMMA RatesAsks ==
  ASSUME NEW w, Fine(w), NEW v
  PROVE  Goes(w, LocalPreview(w)) /\ Goes(w, SaveRates(w, v))
<1>1. Same(w, LocalPreview(w)) /\ Same(w, [w EXCEPT !.rates.msg = "local"]) /\ Same(w, [w EXCEPT !.rates.msg = ""])
  BY DEF LocalPreview, Same, Shown
<1>2. "saveRates" \in RatesNames
  BY DEF RatesNames
<1>3. Goes(w, Enter([w EXCEPT !.rates.msg = ""],
                    Job("saveRates", <<Set("expo", v)>> \o saveSequence
                                     \o <<[getAllSettings("expo") EXCEPT !.val = v], StorageLine("normal")>>)))
  BY <1>1, <1>2, ShowThenAsk, JobIsNew, PageWho, RatesLinesPlain
<1> QED
  BY <1>1, <1>3, SameGoes DEF SaveRates

LEMMA RatesRepliedGoes == ASSUME NEW w, Fine(w), NEW j PROVE Goes(w, RatesReplied(w, j))
<1>1. Same(w, RatesReplied(w, j))
  BY DEF RatesReplied, Same, Shown
<1> QED
  BY <1>1, SameGoes

-----------------------------------------------------------------------------
LEMMA ExecuteGoes ==
  ASSUME NEW w, Fine(w), NEW who \in ModesNames \cup PowerNames, NEW line, Quiet(line)
  PROVE  Goes(w, Enter(w, Job(who, <<line>>)))
<1> DEFINE s == <<line>>
<1>1. Plain(who, s) /\ s # <<>>
  BY FreeOne, PlainFree DEF ModesNames, SnapshotNames, PowerNames, ActionNames
<1> HIDE DEF s
<1>2. Goes(w, Enter(w, Job(who, s)))
  BY <1>1, AskGoes, JobIsNew, PageWho
<1> QED
  BY <1>2 DEF s

LEMMA ModesAsks ==
  ASSUME NEW w, Fine(w), NEW m
  PROVE  /\ Goes(w, RefreshModes(w)) /\ Goes(w, ApplyRange(w)) /\ Goes(w, SelectMode(w, m))
         /\ Goes(w, PollSwitches(w)) /\ Goes(w, SwitchesExpire(w)) /\ Goes(w, AssignAux(w))
<1>1. {"modes", "applyRange", "selectMode", "switches"} \subseteq ModesNames
  BY DEF ModesNames, SnapshotNames
<1>2. Quiet(Line("modes", "", 0, "normal")) /\ Quiet(Line("receiver", "map", 0, "normal"))
  BY DEF Quiet, Line
<1>3. Same(w, SwitchesExpire(w)) /\ Same(w, AssignAux(w))
  BY DEF SwitchesExpire, AssignAux, Same, Shown
<1>4. Goes(w, SwitchesExpire(w)) /\ Goes(w, AssignAux(w))
  BY <1>3, SameGoes
<1> QED
  BY <1>1, <1>2, <1>4, ExecuteGoes, QuietLines DEF RefreshModes, ApplyRange, SelectMode, PollSwitches, Execute

LEMMA SnapshotGoes == ASSUME NEW w, Fine(w), NEW val, NEW edit PROVE Goes(w, Snapshot(w, val, edit))
<1> DEFINE v == [w EXCEPT !.modes.snap = val, !.modes.edit = edit]
<1>1. Same(w, v)
  BY DEF Same, Shown
<1>2. Snapshot(w, val, edit) \in {v, StorageReset(v, w.up)}
  BY DEF Snapshot
<1> HIDE DEF v
<1>3. Goes(w, v)
  BY <1>1, SameGoes
<1>4. Goes(v, StorageReset(v, w.up))
  BY <1>3, StorageResetGoes DEF Goes
<1> QED
  BY <1>2, <1>3, <1>4, GoesTrans

LEMMA ModesRepliedGoes == ASSUME NEW w, Fine(w), NEW j, NEW line PROVE Goes(w, ModesReplied(w, j, line))
<1>1. Goes(w, SwitchesReplied(w, j))
  <2>1. Same(w, SwitchesReplied(w, j))
    BY DEF SwitchesReplied, Same, Shown
  <2> QED
    BY <2>1, SameGoes
<1>2. Goes(w, SnapshotReplied(w, j, line))
  <2> DEFINE a == Last(j)
             v == Snapshot(w, a.val, a.kind = "idle")
             d == [v EXCEPT !.modes.draft = RangeOf(a.val)]
  <2>1. Goes(w, v) /\ Goes(w, Snapshot(w, Unknown, FALSE))
    BY SnapshotGoes
  <2>2. SnapshotReplied(w, j, line) \in {Snapshot(w, Unknown, FALSE), d, v}
    BY DEF SnapshotReplied
  <2> HIDE DEF v
  <2>3. Same(v, d)
    BY DEF Same, Shown
  <2>4. Goes(v, d)
    BY <2>1, <2>3, SameGoes DEF Goes
  <2> QED
    BY <2>1, <2>2, <2>4, GoesTrans
<1> QED
  BY <1>1, <1>2, GoesRefl DEF ModesReplied

LEMMA ModesResetGoes == ASSUME NEW w, Fine(w) PROVE Goes(w, ModesReset(w))
<1> DEFINE f == Forget(w, ModesNames)
           v == [f EXCEPT !.modes = ModesInitial]
           s == PollSwitches(v)
           p == IF w.up THEN RefreshModes(s) ELSE v
<1>1. Goes(w, f)
  BY ForgetGoes, PageWho
<1>2. ModesReset(w) = StorageReset(p, w.up)
  BY DEF ModesReset
<1> HIDE DEF f
<1>3. Same(f, v)
  BY DEF Same, Shown
<1> HIDE DEF v
<1>4. Goes(f, v)
  BY <1>1, <1>3, SameGoes DEF Goes
<1>5. Goes(v, s)
  BY <1>4, ModesAsks DEF Goes
<1> HIDE DEF s
<1>6. Goes(s, RefreshModes(s))
  BY <1>5, ModesAsks DEF Goes
<1>7. Goes(v, p)
  BY <1>4, <1>5, <1>6, GoesTrans, GoesRefl DEF Goes
<1> HIDE DEF p
<1>8. Goes(p, StorageReset(p, w.up))
  BY <1>7, StorageResetGoes DEF Goes
<1> QED
  BY <1>1, <1>2, <1>4, <1>7, <1>8, GoesTrans

-----------------------------------------------------------------------------
LEMMA PowerAsks ==
  ASSUME NEW w, Fine(w), NEW v
  PROVE  Goes(w, PollPower(w)) /\ Goes(w, ApplyPower(w, v))
<1> DEFINE u == [w EXCEPT !.power.draft = v]
<1>1. {"power", "applyPower"} \subseteq PowerNames /\ Quiet(Line("power", "", 0, "normal"))
  BY DEF PowerNames, Quiet, Line
<1>2. Same(w, u)
  BY DEF Same, Shown
<1>3. ApplyPower(w, v) = Enter(u, Job("applyPower", <<Set("power", v)>>))
  BY DEF ApplyPower
<1> HIDE DEF u
<1>4. Goes(w, u)
  BY <1>2, SameGoes
<1>5. Goes(u, Enter(u, Job("applyPower", <<Set("power", v)>>)))
  BY <1>1, <1>4, ExecuteGoes, QuietLines DEF Goes
<1> QED
  BY <1>1, <1>3, <1>4, <1>5, ExecuteGoes, GoesTrans DEF PollPower

LEMMA PowerRepliedGoes == ASSUME NEW w, Fine(w), NEW j PROVE Goes(w, PowerReplied(w, j))
<1>1. Same(w, PowerReplied(w, j))
  BY DEF PowerReplied, Same, Shown
<1> QED
  BY <1>1, SameGoes

LEMMA PowerResetGoes == ASSUME NEW w, Fine(w) PROVE Goes(w, PowerReset(w))
<1> DEFINE f == Forget(w, PowerNames)
           v == [f EXCEPT !.power = PowerInitial]
           p == IF CanPollPower(v) THEN PollPower(v) ELSE v
<1>1. Goes(w, f)
  BY ForgetGoes, PageWho
<1>2. PowerReset(w) = StorageReset(p, w.up)
  BY DEF PowerReset
<1> HIDE DEF f
<1>3. Same(f, v)
  BY DEF Same, Shown
<1> HIDE DEF v
<1>4. Goes(f, v)
  BY <1>1, <1>3, SameGoes DEF Goes
<1>5. Goes(v, p)
  BY <1>4, PowerAsks, GoesRefl DEF Goes
<1> HIDE DEF p
<1>6. Goes(p, StorageReset(p, w.up))
  BY <1>5, StorageResetGoes DEF Goes
<1> QED
  BY <1>1, <1>2, <1>4, <1>5, <1>6, GoesTrans

-----------------------------------------------------------------------------
(* The Setup page.                                                         *)

LEMMA SetupWho ==
  ASSUME NEW who \in SetupNames
  PROVE  who \in Common /\ AtHome("setup", who) /\ who # "stop"
  BY DEF Common, OtherNames, AtHome, SensorsNames, ActionNames, Flight, SetupNames, RateNames, ReceiverNames

LEMMA StartlessPlain ==
  ASSUME NEW who \in SetupNames, NEW s, IsSeq(s), \A i \in 1 .. Len(s) : s[i].op # "start"
  PROVE  Plain(who, s)
  BY DEF Plain, HeldRight, SetupNames, RateNames, ActionNames

LEMMA SetupLines ==
  /\ Plain("status", <<Line("status", "", 0, "normal")>>) /\ <<Line("status", "", 0, "normal")>> # <<>>
  /\ Plain("readRate", readLoopRateSetting) /\ readLoopRateSetting # <<>>
  /\ \A v : Plain("selectRate", selectLoopRate(v)) /\ selectLoopRate(v) # <<>>
  /\ Plain("saveRate", saveLoopRate) /\ saveLoopRate # <<>>
  /\ Plain("refresh", RefreshLines) /\ RefreshLines # <<>>
  /\ Plain("defaults", DefaultsLines) /\ DefaultsLines # <<>>
<1>1. Free(<<Line("status", "", 0, "normal")>>)
  <2>1. Quiet(Line("status", "", 0, "normal"))
    BY DEF Quiet, Line
  <2> QED
    BY <2>1, FreeOne
<1>2. Free(readLoopRateSetting)
  <2>1. Quiet(Line("looprate", "", 0, "normal"))
    BY DEF Quiet, Line
  <2> QED
    BY <2>1, QuietLines, FreeTwo DEF readLoopRateSetting
<1>3. ASSUME NEW v PROVE Free(selectLoopRate(v))
  <2>1. Free(<<Set("rate", v)>>)
    BY QuietLines, FreeOne
  <2> QED
    BY <1>2, <2>1, FreeJoin DEF selectLoopRate
<1>4. Free(RefreshLines)
  BY QuietLines, FreeThree DEF RefreshLines, getVersion
<1>5. Led(saveLoopRate)
  BY <1>2, SaveLed, FreeLed, LedJoin DEF saveLoopRate
<1>6. Plain("saveRate", saveLoopRate) /\ saveLoopRate # <<>>
  BY <1>5, StartlessPlain DEF Led, SetupNames, RateNames
<1>7. Plain("defaults", DefaultsLines) /\ DefaultsLines # <<>>
  <2> DEFINE a == restoreDefaults
             b == <<Read("status")>>
             s == a \o b
  <2>1. Plain("defaultsFilters", a) /\ a # <<>> /\ Free(b)
    BY FiltersLines, QuietLines, FreeOne
  <2>2. IsSeq(a) /\ IsSeq(b)
    BY <2>1 DEF Plain, Free
  <2> HIDE DEF a, b
  <2>3. /\ IsSeq(s) /\ Len(s) = Len(a) + Len(b)
        /\ \A i \in 1 .. Len(s) : s[i] = IF i <= Len(a) THEN a[i] ELSE b[i - Len(a)]
    BY <2>2, JoinSeq
  <2>4. Len(a) \in Nat /\ Len(b) \in Nat /\ Len(b) > 0 /\ Len(s) # 0
    BY <2>1, <2>2, <2>3, IsSeqFacts DEF Free
  <2>5. s # <<>>
    BY <2>4
  <2> HIDE DEF s
  <2>6. ASSUME NEW i \in 1 .. Len(s) PROVE s[i].op # "start"
    <3>1. i <= Len(a) => i \in 1 .. Len(a)
      BY <2>3, <2>4
    <3>2. ~(i <= Len(a)) => i - Len(a) \in 1 .. Len(b)
      BY <2>3, <2>4
    <3> QED
      BY <2>1, <2>3, <3>1, <3>2 DEF Plain, Free, Quiet
  <2>7. Plain("defaults", s)
    BY <2>3, <2>6, StartlessPlain DEF SetupNames
  <2>8. DefaultsLines = s
    BY DEF DefaultsLines, s, a, b
  <2> QED
    BY <2>5, <2>7, <2>8
<1>8. \A who \in {"status", "readRate", "selectRate", "refresh"} : who \notin ActionNames
  BY DEF ActionNames
<1>9. /\ Plain("status", <<Line("status", "", 0, "normal")>>) /\ <<Line("status", "", 0, "normal")>> # <<>>
      /\ Plain("readRate", readLoopRateSetting) /\ readLoopRateSetting # <<>>
  BY <1>1, <1>2, <1>8, PlainFree
<1>10. /\ \A v : Plain("selectRate", selectLoopRate(v)) /\ selectLoopRate(v) # <<>>
       /\ Plain("refresh", RefreshLines) /\ RefreshLines # <<>>
  BY <1>3, <1>4, <1>8, PlainFree
<1> QED
  BY <1>6, <1>7, <1>9, <1>10

\* What the poller goes by stays.
KeptLoop(w, v) == /\ v.loop.busy = w.loop.busy /\ v.loop.on = w.loop.on
                  /\ v.loop.dep = w.loop.dep /\ v.loop.kick = w.loop.kick

\* Goes, but for the poller
Moves(w, v) == Fine(v) /\ Calm(w, v)

LEMMA MovesTrans ==
  ASSUME NEW u, NEW v, NEW w
  PROVE  /\ Goes(u, v) => Moves(u, v)
         /\ Moves(u, v) /\ Moves(v, w) => Moves(u, w)
         /\ Moves(u, v) /\ Synced(v) => Goes(u, v)
  BY DEF Goes, Moves, Calm, Base

LEMMA LoopMoves ==
  ASSUME NEW w, NEW v, Fine(w), Shown(w, v), v.bench = w.bench, v.sens = w.sens, DOMAIN v.loop = LoopFields
  PROVE  Moves(w, v) /\ (KeptLoop(w, v) => Goes(w, v))
<1>1. DOMAIN v.bench = BenchFields
  BY DEF Fine
<1>2. Moves(w, v)
  BY <1>1, ShownFine DEF Moves, Calm, Base, Shown
<1>3. KeptLoop(w, v) /\ Synced(w) => Synced(v)
  BY DEF KeptLoop, Synced, Shown
<1> QED
  BY <1>2, <1>3 DEF Moves, Goes

LEMMA SkippedGoes == ASSUME NEW w, Fine(w) PROVE Goes(w, Skipped(w)) /\ KeptLoop(w, Skipped(w))
<1> DEFINE v == Skipped(w)
<1>1. Shown(w, v) /\ v.bench = w.bench /\ v.sens = w.sens /\ DOMAIN v.loop = LoopFields /\ KeptLoop(w, v)
  BY DEF Skipped, Shown, KeptLoop, Fine, BrowserFields, LoopFields
<1> HIDE DEF v
<1>2. Goes(w, v) /\ KeptLoop(w, v)
  BY <1>1, LoopMoves
<1> QED
  BY <1>2 DEF v

LEMMA PollStatusGoes ==
  ASSUME NEW w, Fine(w), w.tab = "setup"
  PROVE  Goes(w, PollStatus(w)) /\ KeptLoop(w, PollStatus(w))
<1> DEFINE s == <<Line("status", "", 0, "normal")>>
           j == Job("status", s)
           e == Enter(w, j)
<1>1. IsNew(j, "status", s) /\ "status" \in SetupNames /\ Plain("status", s) /\ s # <<>>
  BY JobIsNew, SetupLines DEF SetupNames
<1>2. PollStatus(w) \in {w, Skipped(w), e}
  BY DEF PollStatus
<1> HIDE DEF j, s
<1>3. Goes(w, e)
  BY <1>1, AskGoes, SetupWho
<1>4. WaitOK(w.tab, j)
  BY <1>1, NewJob, NamesFacts, SetupWho
<1>5. KeptLoop(w, e)
  BY <1>4, EnterIs DEF KeptLoop, Beside, WaitOK
<1>6. KeptLoop(w, w)
  BY DEF KeptLoop
<1> QED
  BY <1>2, <1>3, <1>5, <1>6, GoesRefl, SkippedGoes

\* setEnabled(): the poller runs or rests, as it is told.
LEMMA SetEnabledIs ==
  ASSUME NEW w, Fine(w), w.tab = "setup", NEW on
  PROVE  LET v == SetEnabled(w, on)
         IN /\ Moves(w, v) /\ v.loop.on = on /\ v.loop.busy = w.loop.busy
            /\ v.loop.dep = w.loop.dep /\ v.loop.kick = w.loop.kick
<1> DEFINE f == Forget(w, {"status"})
           v == [f EXCEPT !.loop.on = on]
           p == PollStatus(v)
<1>1. CASE on = w.loop.on
  BY <1>1, GoesRefl, MovesTrans DEF SetEnabled
<1>2. CASE on # w.loop.on
  <2>1. Goes(w, f) /\ Beside(w, f)
    BY ForgetGoes
  <2>2. SetEnabled(w, on) = IF on THEN p ELSE v
    BY <1>2 DEF SetEnabled
  <2> HIDE DEF f
  <2>3. /\ Shown(f, v) /\ v.bench = f.bench /\ v.sens = f.sens /\ DOMAIN v.loop = LoopFields
        /\ v.loop.on = on /\ v.loop.busy = w.loop.busy /\ v.loop.dep = w.loop.dep /\ v.loop.kick = w.loop.kick
    BY <2>1 DEF Beside, Goes, Shown, Fine, BrowserFields, LoopFields
  <2> HIDE DEF v
  <2>4. Moves(f, v)
    BY <2>1, <2>3, LoopMoves DEF Goes
  <2>5. Moves(w, v)
    BY <2>1, <2>4, MovesTrans
  <2>6. Goes(v, p) /\ KeptLoop(v, p)
    BY <2>5, PollStatusGoes DEF Moves, Calm, Base
  <2> HIDE DEF p
  <2>7. Moves(w, p)
    BY <2>5, <2>6, MovesTrans
  <2> QED
    BY <2>2, <2>3, <2>5, <2>6, <2>7 DEF KeptLoop
<1> QED
  BY <1>1, <1>2

\* pauseLoopPoll()
LEMMA PauseGoes ==
  ASSUME NEW w, Fine(w), w.tab = "setup"
  PROVE  Goes(w, Pause(w)) /\ Synced(Pause(w))
<1> DEFINE u == [w EXCEPT !.loop.busy = TRUE]
           v == SetEnabled(u, FALSE)
<1>1. /\ Shown(w, u) /\ u.bench = w.bench /\ u.sens = w.sens /\ DOMAIN u.loop = LoopFields
      /\ u.loop.busy = TRUE
  BY DEF Shown, Fine, BrowserFields, LoopFields
<1>2. Pause(w) = v
  BY DEF Pause
<1> HIDE DEF u
<1>3. Moves(w, u)
  BY <1>1, LoopMoves
<1>4. Moves(u, v) /\ v.loop.on = FALSE /\ v.loop.busy = TRUE
  <2>1. Fine(u) /\ u.tab = "setup"
    BY <1>3 DEF Moves, Calm, Base
  <2>2. Moves(u, v) /\ v.loop.on = FALSE /\ v.loop.busy = u.loop.busy
    BY <2>1, SetEnabledIs
  <2> QED
    BY <1>1, <2>2
<1> HIDE DEF v
<1>5. Synced(v)
  BY <1>4 DEF Synced
<1> QED
  BY <1>2, <1>3, <1>4, <1>5, MovesTrans

LEMMA ActionOverGoes ==
  ASSUME NEW w, Fine(w)
  PROVE  Goes(w, ActionOver(w)) /\ Synced(ActionOver(w))
<1> DEFINE v == ActionOver(w)
<1>1. Shown(w, v) /\ v.bench = w.bench /\ v.sens = w.sens /\ DOMAIN v.loop = LoopFields /\ v.loop.kick
  BY DEF ActionOver, Shown, Fine, BrowserFields, LoopFields
<1> HIDE DEF v
<1>2. Moves(w, v) /\ Synced(v)
  BY <1>1, LoopMoves DEF Synced
<1>3. Goes(w, v) /\ Synced(v)
  BY <1>2, MovesTrans
<1> QED
  BY <1>3 DEF v

\* An action of the page starts, or fails at once.
LEMMA SetupRunGoes ==
  ASSUME NEW w, Fine(w), w.tab = "setup", NEW who \in SetupNames, NEW s, Plain(who, s), s # <<>>
  PROVE  LET v == SetupRun(w, Job(who, s)) IN Goes(w, v) /\ Synced(v)
<1> DEFINE j == Job(who, s)
           p == Pause(w)
           u == [p EXCEPT !.loop.done = @ \/ j.who \in RateNames, !.loop.msg = ""]
           a == ActionOver(u)
           q == StartAfter(p, j, {"status"})
<1>1. IsNew(j, who, s)
  BY JobIsNew
<1>2. SetupRun(w, j) \in {a, q}
  BY DEF SetupRun
<1>3. Goes(w, p) /\ Synced(p)
  BY PauseGoes
<1> HIDE DEF j, p
<1>4. Fine(p) /\ p.tab = "setup"
  BY <1>3 DEF Goes, Calm, Base
<1>5. Goes(p, q)
  BY <1>1, <1>4, AskGoes, SetupWho
<1>6. Shown(p, u) /\ u.bench = p.bench /\ u.sens = p.sens /\ DOMAIN u.loop = LoopFields /\ KeptLoop(p, u)
  BY <1>4 DEF Shown, Fine, BrowserFields, LoopFields, KeptLoop
<1> HIDE DEF u
<1>7. Goes(p, u)
  BY <1>4, <1>6, LoopMoves
<1>8. Goes(u, a) /\ Synced(a)
  BY <1>7, ActionOverGoes DEF Goes
<1> HIDE DEF a, q
<1>9. Goes(w, q) /\ Synced(q)
  BY <1>3, <1>5, GoesTrans DEF Goes
<1>10. Goes(w, a) /\ Synced(a)
  BY <1>3, <1>7, <1>8, GoesTrans
<1>11. LET v == SetupRun(w, j) IN Goes(w, v) /\ Synced(v)
  BY <1>2, <1>9, <1>10
<1> QED
  BY <1>11 DEF j

LEMMA SetupAsks ==
  ASSUME NEW w, Fine(w), w.tab = "setup", NEW v
  PROVE  /\ Goes(w, ReadRate(w)) /\ Synced(ReadRate(w))
         /\ Goes(w, SelectRate(w, v)) /\ Goes(w, SaveRate(w)) /\ Goes(w, Refresh(w)) /\ Goes(w, RestoreDefaults(w))
<1>1. {"readRate", "selectRate", "saveRate", "refresh", "defaults"} \subseteq SetupNames
  BY DEF SetupNames, RateNames
<1> QED
  BY <1>1, SetupRunGoes, SetupLines DEF ReadRate, SelectRate, SaveRate, Refresh, RestoreDefaults

LEMMA SetupRepliedGoes ==
  ASSUME NEW w, Fine(w), NEW j, Homely(w, j), j.who \in SetupNames
  PROVE  Goes(w, SetupReplied(w, j))
<1>1. CASE ~j.here
  BY <1>1, GoesRefl DEF SetupReplied
<1>2. CASE j.here
  <2>1. w.tab = "setup"
    BY <1>2 DEF Homely, AtHome
  <2>2. Goes(w, StatusReplied(w, j))
    <3> DEFINE a == Last(j)
               v1 == [w EXCEPT !.loop.skips = 0, !.loop.poll = Unknown]
               v2 == [w EXCEPT !.loop.skips = 0, !.loop.poll = a.val]
    <3>1. \E v \in {w, Skipped(w), v1, v2} : StatusReplied(w, j) = StartNext(v)
      BY DEF StatusReplied
    <3>2. /\ Shown(w, v1) /\ v1.bench = w.bench /\ v1.sens = w.sens /\ DOMAIN v1.loop = LoopFields
          /\ KeptLoop(w, v1)
      BY DEF Shown, Fine, BrowserFields, LoopFields, KeptLoop
    <3>6. /\ Shown(w, v2) /\ v2.bench = w.bench /\ v2.sens = w.sens /\ DOMAIN v2.loop = LoopFields
          /\ KeptLoop(w, v2)
      BY DEF Shown, Fine, BrowserFields, LoopFields, KeptLoop
    <3> HIDE DEF v1, v2
    <3>3. Goes(w, v1) /\ Goes(w, v2)
      BY <3>2, <3>6, LoopMoves
    <3>4. PICK v : Goes(w, v) /\ StatusReplied(w, j) = StartNext(v)
      BY <3>1, <3>3, GoesRefl, SkippedGoes
    <3>5. Goes(v, StartNext(v))
      BY <2>1, <3>4, StartNextGoes DEF Goes, Calm, Base
    <3> QED
      BY <3>4, <3>5, GoesTrans
  <2>3. Goes(w, ActionOver(w))
    BY ActionOverGoes
  <2>4. Goes(w, DefaultsReplied(w, j))
    <3> DEFINE v == IF Len(j.got) = 2 /\ ~Ended(j) THEN [w EXCEPT !.loop.done = FALSE] ELSE w
    <3>1. Shown(w, v) /\ v.bench = w.bench /\ v.sens = w.sens /\ DOMAIN v.loop = LoopFields /\ KeptLoop(w, v)
      BY DEF Shown, Fine, BrowserFields, LoopFields, KeptLoop
    <3>2. DefaultsReplied(w, j) \in {v, ActionOver(v)}
      BY DEF DefaultsReplied
    <3> HIDE DEF v
    <3>3. Goes(w, v)
      BY <3>1, LoopMoves
    <3>4. Goes(v, ActionOver(v))
      BY <3>3, ActionOverGoes DEF Goes
    <3> QED
      BY <3>2, <3>3, <3>4, GoesTrans
  <2>5. Goes(w, RateReplied(w, j))
    <3> DEFINE n == Len(j.got)
               old == Last(j).kind = "unknown"
               read == Last(j).kind \in {"report", "unknown"} /\ Len(j.got) > (IF j.who = "saveRate" THEN 3 ELSE 0)
               v == IF read THEN RateShown(w, j) ELSE w
               m == IF read /\ j.who = "saveRate" THEN "saved" ELSE ""
               u == [v EXCEPT !.loop.done = TRUE, !.loop.msg = m]
    <3>1. Shown(w, v) /\ v.bench = w.bench /\ v.sens = w.sens /\ DOMAIN v.loop = LoopFields /\ KeptLoop(w, v)
      BY DEF RateShown, Shown, Fine, BrowserFields, LoopFields, KeptLoop
    <3>2. RateReplied(w, j) = ActionOver(u)
      BY DEF RateReplied
    <3> HIDE DEF v, m
    <3>3. Goes(w, v)
      BY <3>1, LoopMoves
    <3>4. Shown(v, u) /\ u.bench = v.bench /\ u.sens = v.sens /\ DOMAIN u.loop = LoopFields /\ KeptLoop(v, u)
      BY <3>3 DEF Goes, Shown, Fine, BrowserFields, LoopFields, KeptLoop
    <3> HIDE DEF u
    <3>5. Goes(v, u)
      BY <3>3, <3>4, LoopMoves DEF Goes
    <3>6. Goes(u, ActionOver(u))
      BY <3>5, ActionOverGoes DEF Goes
    <3> QED
      BY <3>2, <3>3, <3>5, <3>6, GoesTrans
  <2> QED
    BY <1>2, <2>2, <2>3, <2>4, <2>5, GoesRefl DEF SetupReplied
<1> QED
  BY <1>1, <1>2

\* The effects leave the poller as what the page shows wants it.
LEMMA PollerEffectIs ==
  ASSUME NEW w, Fine(w), w.tab = "setup", Synced(w)
  PROVE  LET v == PollerEffect(w) IN Goes(w, v) /\ Settled(v)
<1> DEFINE dep == <<w.up, w.loop.busy>>
           u == [w EXCEPT !.loop.dep = dep, !.loop.kick = FALSE]
           x == IF w.up THEN u ELSE [u EXCEPT !.loop.poll = Unknown, !.loop.skips = 0]
           on == w.up /\ ~w.loop.busy
           v == SetEnabled(x, on)
<1>1. PollerEffect(w) = IF dep = w.loop.dep /\ ~w.loop.kick THEN w ELSE v
  BY DEF PollerEffect
<1>2. CASE dep = w.loop.dep /\ ~w.loop.kick
  BY <1>1, <1>2, GoesRefl DEF Synced, Settled
<1>3. CASE ~(dep = w.loop.dep /\ ~w.loop.kick)
  <2>1. /\ Shown(w, x) /\ x.bench = w.bench /\ x.sens = w.sens /\ DOMAIN x.loop = LoopFields
        /\ x.loop.dep = dep /\ ~x.loop.kick /\ x.loop.busy = w.loop.busy
    BY DEF Shown, Fine, BrowserFields, LoopFields
  <2> HIDE DEF x, on
  <2>2. Moves(w, x)
    BY <2>1, LoopMoves
  <2>3. Fine(x) /\ x.tab = "setup"
    BY <2>2 DEF Moves, Calm, Base
  <2>4. Moves(x, v) /\ v.loop.on = on /\ v.loop.busy = w.loop.busy /\ v.loop.dep = dep /\ ~v.loop.kick
    BY <2>1, <2>3, SetEnabledIs
  <2> HIDE DEF v, dep
  <2>5. Moves(w, v)
    BY <2>2, <2>4, MovesTrans
  <2>6. v.up = w.up
    BY <2>5 DEF Moves, Calm, Base
  <2>7. Settled(v)
    BY <2>4, <2>6 DEF Settled, on, dep
  <2>8. Synced(v)
    BY <2>7 DEF Settled, Synced
  <2>9. Goes(w, v)
    BY <2>5, <2>8, MovesTrans
  <2> QED
    BY <1>1, <1>3, <2>7, <2>9 DEF dep
<1> QED
  BY <1>2, <1>3

LEMMA ReadEffectGoes == ASSUME NEW w, Fine(w), w.tab = "setup" PROVE Goes(w, ReadEffect(w))
<1> DEFINE u == [w EXCEPT !.loop.get = Unknown, !.loop.report = Unknown, !.loop.done = FALSE, !.loop.msg = ""]
<1>1. Shown(w, u) /\ u.bench = w.bench /\ u.sens = w.sens /\ DOMAIN u.loop = LoopFields /\ KeptLoop(w, u)
  BY DEF Shown, Fine, BrowserFields, LoopFields, KeptLoop
<1>2. ReadEffect(w) \in {u, ReadRate(w), w}
  BY DEF ReadEffect
<1> HIDE DEF u
<1>3. Goes(w, u)
  BY <1>1, LoopMoves
<1> QED
  BY <1>2, <1>3, SetupAsks, GoesRefl

LEMMA WatchEffectGoes == ASSUME NEW w, Fine(w) PROVE Goes(w, WatchEffect(w))
<1> DEFINE u == [w EXCEPT !.loop.seen = Unknown]
           x == [w EXCEPT !.loop.seen = w.loop.poll, !.loop.done = @ /\ w.loop.seen \in {Unknown, w.loop.poll}]
<1>1. Shown(w, u) /\ u.bench = w.bench /\ u.sens = w.sens /\ DOMAIN u.loop = LoopFields /\ KeptLoop(w, u)
  BY DEF Shown, Fine, BrowserFields, LoopFields, KeptLoop
<1>2. Shown(w, x) /\ x.bench = w.bench /\ x.sens = w.sens /\ DOMAIN x.loop = LoopFields /\ KeptLoop(w, x)
  BY DEF Shown, Fine, BrowserFields, LoopFields, KeptLoop
<1>3. WatchEffect(w) \in {u, x, w}
  BY DEF WatchEffect
<1> HIDE DEF u, x
<1> QED
  BY <1>1, <1>2, <1>3, LoopMoves, GoesRefl

LEMMA SetupEffectIs ==
  ASSUME NEW w, Fine(w), w.tab = "setup", Synced(w)
  PROVE  LET v == SetupEffect(w) IN Goes(w, v) /\ Settled(v)
<1> DEFINE a == PollerEffect(w)
           b == ReadEffect(a)
           c == WatchEffect(b)
           d == ReadEffect(c)
           v == PollerEffect(d)
<1>1. Goes(w, a)
  BY PollerEffectIs
<1> HIDE DEF a
<1>2. Goes(a, b)
  BY <1>1, ReadEffectGoes DEF Goes, Calm, Base
<1> HIDE DEF b
<1>3. Goes(b, c)
  BY <1>2, WatchEffectGoes DEF Goes
<1>4. Goes(w, c)
  BY <1>1, <1>2, <1>3, GoesTrans
<1> HIDE DEF c
<1>5. Goes(c, d)
  BY <1>4, ReadEffectGoes DEF Goes, Calm, Base
<1>6. Goes(w, d)
  BY <1>4, <1>5, GoesTrans
<1> HIDE DEF d
<1>7. Goes(d, v) /\ Settled(v)
  BY <1>6, PollerEffectIs DEF Goes, Calm, Base
<1>8. SetupEffect(w) = v
  BY DEF SetupEffect, a, b, c, d
<1> QED
  BY <1>6, <1>7, <1>8, GoesTrans

LEMMA SetupMountIs ==
  ASSUME NEW w, Fine(w)
  PROVE  Goes(w, SetupMount(w)) /\ Synced(SetupMount(w))
<1> DEFINE v == SetupMount(w)
<1>1. /\ Shown(w, v) /\ v.bench = w.bench /\ v.sens = w.sens /\ DOMAIN v.loop = LoopFields
      /\ v.loop.dep = <<FALSE, FALSE>> /\ v.loop.on = FALSE
  BY DEF SetupMount, SetupInitial, Shown, Fine, BrowserFields, LoopFields
<1> HIDE DEF v
<1>2. Moves(w, v)
  BY <1>1, LoopMoves
<1>3. Synced(v)
  <2>1. ASSUME NEW a, NEW b, <<FALSE, FALSE>> = <<a, b>> PROVE a = FALSE
    <3> DEFINE s == <<FALSE, FALSE>>
               t == <<a, b>>
    <3>1. s[1] = FALSE /\ t[1] = a /\ s = t
      BY <2>1
    <3> HIDE DEF s, t
    <3> QED
      BY <3>1
  <2>2. v.loop.dep = <<v.up, v.loop.busy>> => v.up = FALSE
    BY <1>1, <2>1
  <2>3. v.up = FALSE => (v.up /\ ~v.loop.busy) = FALSE
    OBVIOUS
  <2> QED
    BY <1>1, <2>2, <2>3 DEF Synced
<1>4. Goes(w, v)
  BY <1>2, <1>3, MovesTrans
<1> QED
  BY <1>3, <1>4 DEF v

LEMMA SetupLostIs ==
  ASSUME NEW w, Fine(w)
  PROVE  Goes(w, SetupLost(w)) /\ Synced(SetupLost(w))
<1> DEFINE u == [w EXCEPT !.next = NoJob]
           v == SetupLost(w)
<1>1. Goes(w, u) /\ Beside(w, u) /\ u.next = NoJob
  BY NextIs
<1>2. u.wire = w.wire /\ u.queue = w.queue
  BY DEF Fine, BrowserFields
<1>3. /\ DOMAIN v = DOMAIN w /\ v.wire = w.wire /\ v.queue = w.queue /\ v.next = NoJob
      /\ v.up = w.up /\ v.tab = w.tab
      /\ v.bench = w.bench /\ v.sens = w.sens /\ DOMAIN v.loop = LoopFields
      /\ v.loop.kick
  BY DEF SetupLost, Fine, BrowserFields, LoopFields
<1> HIDE DEF u, v
<1>4. Moves(u, v)
  BY <1>1, <1>2, <1>3, LoopMoves DEF Goes, Shown, Beside
<1>5. Synced(v)
  BY <1>3 DEF Synced
<1>6. Goes(w, v)
  BY <1>1, <1>4, <1>5, MovesTrans
<1> QED
  BY <1>5, <1>6 DEF v

LEMMA SetupLeaveGoes == ASSUME NEW w, Fine(w), w.tab = "setup" PROVE Goes(w, SetupLeave(w))
<1> DEFINE u == [w EXCEPT !.next = NoJob]
<1>1. Goes(w, u) /\ Beside(w, u)
  BY NextIs
<1>2. SetupLeave(w) = IF w.next = NoJob THEN w ELSE Enter(u, w.next)
  BY DEF SetupLeave
<1> HIDE DEF u
<1>3. CASE w.next # NoJob
  <2>1. WaitOK(w.tab, w.next) /\ w.next.who \notin SensorsNames /\ w.next.who # "test"
    BY <1>3, FlightNames DEF Fine, WaitOK, JobOK, AtHome
  <2>2. Beyond(w.next)
    BY <2>1 DEF Beyond, Reader, Eager, SensorsNames
  <2>3. Goes(u, Enter(u, w.next))
    BY <1>1, <2>1, <2>2, EnterGoes DEF Goes, Beside
  <2> QED
    BY <1>1, <1>2, <1>3, <2>3, GoesTrans
<1> QED
  BY <1>2, <1>3, GoesRefl

-----------------------------------------------------------------------------
(* What is left of a job after an answer.                                  *)

LEMMA NamesApart ==
  /\ \A who \in MotorsNames : who \notin StorageNames \cup FiltersNames \cup SetupNames \cup ReceiverNames \cup RatesNames
                                         \cup ModesNames \cup PowerNames \cup SensorsNames
  /\ \A who \in StorageNames : who \notin FiltersNames \cup SetupNames \cup ReceiverNames \cup RatesNames
                                          \cup ModesNames \cup PowerNames \cup SensorsNames
  /\ \A who \in FiltersNames : who \notin SetupNames \cup ReceiverNames \cup RatesNames
                                          \cup ModesNames \cup PowerNames \cup SensorsNames
  /\ \A who \in SetupNames : who \notin ReceiverNames \cup RatesNames \cup ModesNames \cup PowerNames \cup SensorsNames
  /\ \A who \in ReceiverNames : who \notin RatesNames \cup ModesNames \cup PowerNames \cup SensorsNames
  /\ \A who \in RatesNames : who \notin ModesNames \cup PowerNames \cup SensorsNames
  /\ \A who \in ModesNames \cup PowerNames : who \notin SensorsNames
  BY DEF MotorsNames, Flight, DirectionNames, PolesNames, StorageNames, FiltersNames, SetupNames, RateNames,
         ReceiverNames, RatesNames, ModesNames, SnapshotNames, PowerNames, SensorsNames, ActionNames

LEMMA NamesAll ==
  AllNames = MotorsNames \cup StorageNames \cup FiltersNames \cup SetupNames \cup ReceiverNames \cup RatesNames
             \cup ModesNames \cup PowerNames \cup SensorsNames
  BY DEF AllNames, OtherNames, MotorsNames

LEMMA RestIs ==
  ASSUME NEW w, NEW j, NEW a
  PROVE  /\ j.who \in MotorsNames => Rest(w, j, a) = MotorsRest(w, j, a)
         /\ j.who \in StorageNames => Rest(w, j, a) = StorageRest(j, a)
         /\ j.who \in FiltersNames => Rest(w, j, a) = FiltersRest(j, a)
         /\ j.who \in SetupNames => Rest(w, j, a) = SetupRest(j, a)
         /\ j.who \in ReceiverNames => Rest(w, j, a) = ReceiverRest(j, a)
         /\ j.who \in RatesNames => Rest(w, j, a) = RatesRest(j, a)
         /\ j.who \in ModesNames \cup PowerNames => Rest(w, j, a) = <<>>
         /\ j.who \in SensorsNames => Rest(w, j, a) = SensorsRest(w, j, a)
<1>1. j.who \in MotorsNames => Rest(w, j, a) = MotorsRest(w, j, a)
  BY NamesApart DEF Rest
<1>2. j.who \in StorageNames => Rest(w, j, a) = StorageRest(j, a)
  BY NamesApart DEF Rest
<1>3. j.who \in FiltersNames => Rest(w, j, a) = FiltersRest(j, a)
  BY NamesApart DEF Rest
<1>4. j.who \in SetupNames => Rest(w, j, a) = SetupRest(j, a)
  BY NamesApart DEF Rest
<1>5. j.who \in ReceiverNames => Rest(w, j, a) = ReceiverRest(j, a)
  BY NamesApart DEF Rest
<1>6. j.who \in RatesNames => Rest(w, j, a) = RatesRest(j, a)
  BY NamesApart DEF Rest
<1>7. j.who \in ModesNames \cup PowerNames => Rest(w, j, a) = <<>>
  BY NamesApart DEF Rest
<1>8. j.who \in SensorsNames => Rest(w, j, a) = SensorsRest(w, j, a)
  BY NamesApart DEF Rest
<1> QED
  BY <1>1, <1>2, <1>3, <1>4, <1>5, <1>6, <1>7, <1>8

\* The next line, or the notches read again.
RestForm(j, r) == \/ r = <<>>
                  \/ r = Tail(j.todo)
                  \/ j.who = "saveFilters" /\ r = readNotches

LEMMA RestForms ==
  ASSUME NEW w, NEW j, j.who \in AllNames, NEW a
  PROVE  RestForm(j, Rest(w, j, a))
<1>1. CASE j.who \in MotorsNames
  <2>1. Rest(w, j, a) = MotorsRest(w, j, a)
    BY <1>1, RestIs
  <2> QED
    BY <2>1 DEF RestForm, MotorsRest, BenchRest, PanelRest
<1>2. CASE j.who \in StorageNames
  <2>1. Rest(w, j, a) = StorageRest(j, a)
    BY <1>2, RestIs
  <2> QED
    BY <2>1 DEF RestForm, StorageRest, SaveRest
<1>3. CASE j.who \in FiltersNames
  <2>1. Rest(w, j, a) = FiltersRest(j, a)
    BY <1>3, RestIs
  <2>2. j.who \in {"loadFilters", "saveFilters", "defaultsFilters"}
    BY <1>3 DEF FiltersNames
  <2>3. LoadRest(j, a) \in {<<>>, Tail(j.todo)}
    BY DEF LoadRest
  <2>4. j.who = "saveFilters" => RestForm(j, SaveFiltersRest(j, a))
    BY DEF RestForm, SaveFiltersRest, SaveRest
  <2>5. j.who # "saveFilters" => FiltersRest(j, a) \in {<<>>, Tail(j.todo)}
    BY <2>2, <2>3 DEF FiltersRest
  <2>6. j.who = "saveFilters" => FiltersRest(j, a) = SaveFiltersRest(j, a)
    BY DEF FiltersRest
  <2> QED
    BY <2>1, <2>4, <2>5, <2>6 DEF RestForm
<1>4. CASE j.who \in SetupNames
  <2>1. Rest(w, j, a) = SetupRest(j, a)
    BY <1>4, RestIs
  <2> QED
    BY <2>1 DEF RestForm, SetupRest
<1>5. CASE j.who \in ReceiverNames
  <2>1. Rest(w, j, a) = ReceiverRest(j, a)
    BY <1>5, RestIs
  <2> QED
    BY <2>1 DEF RestForm, ReceiverRest
<1>6. CASE j.who \in RatesNames
  <2>1. Rest(w, j, a) = RatesRest(j, a)
    BY <1>6, RestIs
  <2> QED
    BY <2>1 DEF RestForm, RatesRest
<1>7. CASE j.who \in ModesNames \cup PowerNames
  BY <1>7, RestIs DEF RestForm
<1>8. CASE j.who \in SensorsNames
  <2>1. Rest(w, j, a) = SensorsRest(w, j, a)
    BY <1>8, RestIs
  <2> QED
    BY <2>1 DEF RestForm, SensorsRest
<1> QED
  BY <1>1, <1>2, <1>3, <1>4, <1>5, <1>6, <1>7, <1>8, NamesAll

\* k is j, one answer later.
IsOn(j, r, a, k) == /\ DOMAIN k = JobFields /\ k.who = j.who /\ k.todo = r /\ k.got = Append(j.got, a)
                    /\ k.mine = j.mine /\ k.here = j.here

LEMMA TailPlain ==
  ASSUME NEW who, NEW s, Plain(who, s), Tail(s) # <<>>, s # <<>>
  PROVE  Plain(who, Tail(s))
<1> DEFINE t == Tail(s)
<1>1. /\ IsSeq(s) /\ Len(s) \in Nat /\ Len(s) > 0 /\ IsSeq(t) /\ Len(t) = Len(s) - 1
      /\ \A i \in 1 .. Len(t) : t[i] = s[i + 1]
  BY IsSeqFacts DEF Plain
<1> HIDE DEF t
<1>2. \A i \in 1 .. Len(t) : i + 1 \in 1 .. Len(s) /\ (i + 1) - 1 = i /\ (i + 1 >= Len(t) => (i + 1) + 1 >= Len(s))
  BY <1>1
<1>3. \A i \in 2 .. Len(t) : i \in 1 .. Len(t) /\ i - 1 \in 1 .. Len(t) /\ i + 1 \in 2 .. Len(s) /\ (i - 1) + 1 = i
  BY <1>1
<1>4. \A i \in 1 .. Len(t) : t[i].op # "start"
  BY <1>1, <1>2 DEF Plain
<1>5. Chained(s) => Chained(t)
  <2> SUFFICES ASSUME Chained(s), NEW i \in 2 .. Len(t)
               PROVE  t[i].cls = "held" => t[i - 1].op \in {"storage", "save"} /\ t[i - 1].key = ""
    BY DEF Chained
  <2>1. t[i] = s[i + 1] /\ t[i - 1] = s[(i - 1) + 1]
    BY <1>1, <1>3
  <2>2. t[i - 1] = s[(i + 1) - 1]
    BY <1>2, <1>3, <2>1
  <2> QED
    BY <1>3, <2>1, <2>2 DEF Chained
<1>6. Released(s) => Released(t)
  BY <1>1, <1>2 DEF Released
<1>7. Unheld(s) => Unheld(t)
  BY <1>1, <1>2 DEF Unheld
<1>8. HeldRight(who, s) => HeldRight(who, t)
  BY <1>5, <1>6, <1>7 DEF HeldRight
<1>9. who \in ActionNames => \A i \in 1 .. Len(t) : t[i].key = "cancel" => Len(t) = 1
  <2> SUFFICES ASSUME who \in ActionNames, NEW i \in 1 .. Len(t), t[i].key = "cancel" PROVE Len(t) = 1
    OBVIOUS
  <2>1. Len(s) = 1
    BY <1>1, <1>2 DEF Plain
  <2> QED
    BY <1>1, <2>1
<1>10. Plain(who, t)
  BY <1>1, <1>4, <1>8, <1>9 DEF Plain
<1> QED
  BY <1>10 DEF t

LEMMA OnwardOK ==
  ASSUME NEW tab, NEW j, JobOK(tab, j), j.who \notin {"test", "stop"}, NEW r, r # <<>>, RestForm(j, r),
         NEW a, NEW k, IsOn(j, r, a, k)
  PROVE  WaitOK(tab, k) /\ Plain(j.who, r)
<1>1. Plain(j.who, r)
  <2>1. CASE r = Tail(j.todo)
    BY <2>1, TailPlain DEF JobOK
  <2>2. CASE j.who = "saveFilters" /\ r = readNotches
    <3>1. Free(readNotches) /\ "saveFilters" \notin ActionNames
      BY FiltersLines DEF ActionNames
    <3> QED
      BY <2>2, <3>1, PlainFree
  <2> QED
    BY <2>1, <2>2 DEF RestForm
<1>2. j.who # "sensors"
  <2> SUFFICES ASSUME j.who = "sensors" PROVE FALSE
    OBVIOUS
  <2>1. r = Tail(j.todo) /\ Len(j.todo) = 1 /\ IsSeq(j.todo) /\ j.todo # <<>>
    BY DEF RestForm, JobOK, Plain
  <2>2. IsSeq(r) /\ Len(r) = 0
    BY <2>1, IsSeqFacts
  <2> QED
    BY <2>2, IsSeqFacts
<1> QED
  BY <1>1, <1>2 DEF WaitOK, JobOK, IsOn

LEMMA TailUnheld ==
  ASSUME NEW s, IsSeq(s), s # <<>>, Tail(s) # <<>>
  PROVE  /\ Head(s) = s[1] /\ Head(Tail(s)) = s[2] /\ Len(s) >= 2 /\ Len(s) \in Nat
         /\ Unheld(s) => Head(Tail(s)).cls # "held"
         /\ Chained(s) /\ Head(Tail(s)).cls = "held" => Head(s).op \in {"storage", "save"} /\ Head(s).key = ""
         /\ Released(s) /\ Head(Tail(s)).cls = "held" => Len(s) > 3
<1>1. /\ Len(s) \in Nat /\ Head(s) = s[1] /\ IsSeq(Tail(s)) /\ Len(Tail(s)) = Len(s) - 1
      /\ \A i \in 1 .. Len(Tail(s)) : Tail(s)[i] = s[i + 1]
  BY IsSeqFacts
<1>2. Len(Tail(s)) \in Nat /\ Len(Tail(s)) > 0 /\ Head(Tail(s)) = Tail(s)[1]
  BY <1>1, IsSeqFacts
<1>3. 1 \in 1 .. Len(Tail(s)) /\ 1 + 1 = 2 /\ 2 \in 2 .. Len(s) /\ 2 \in 1 .. Len(s) /\ 2 - 1 = 1 /\ Len(s) >= 2
  BY <1>1, <1>2
<1>4. Head(Tail(s)) = s[2]
  BY <1>1, <1>2, <1>3
<1>5. ~(Len(s) > 3) => 2 + 1 >= Len(s)
  BY <1>1
<1> QED
  BY <1>1, <1>3, <1>4, <1>5 DEF Unheld, Chained, Released

LEMMA HeldNames ==
  ASSUME NEW who \in AllNames \ (StorageNames \cup SetupNames \cup {"defaultsFilters", "saveFilters", "saveRates"}),
         NEW s, Plain(who, s)
  PROVE  Unheld(s)
  BY DEF Plain, HeldRight

\* A line that was not sent ends a request that holds the gate.
LEMMA RestUnheld ==
  ASSUME NEW w, NEW tab, NEW j, JobOK(tab, j), j.who \notin {"test", "stop"}, NEW a, a.kind = "notsent",
         Rest(w, j, a) # <<>>
  PROVE  Head(Rest(w, j, a)).cls # "held"
<1> DEFINE r == Rest(w, j, a)
<1>1. RestForm(j, r)
  BY RestForms DEF JobOK
<1>2. /\ IsSeq(j.todo) /\ j.todo # <<>> /\ Plain(j.who, j.todo) /\ j.who \in AllNames
  BY DEF JobOK, Plain
<1>3. r # <<>>
  OBVIOUS
<1>8. Tail(j.todo) # <<>>
        => /\ Len(j.todo) \in Nat
           /\ Unheld(j.todo) => Head(Tail(j.todo)).cls # "held"
           /\ Chained(j.todo) /\ Head(Tail(j.todo)).cls = "held" => Head(j.todo).op \in {"storage", "save"} /\ Head(j.todo).key = ""
           /\ Released(j.todo) /\ Head(Tail(j.todo)).cls = "held" => Len(j.todo) > 3
  BY <1>2, TailUnheld
<1>4. j.who \notin StorageNames \cup SetupNames \cup {"defaultsFilters"}
  <2>1. j.who \in StorageNames => r = StorageRest(j, a)
    BY RestIs
  <2>2. j.who \in SetupNames => r = SetupRest(j, a)
    BY RestIs
  <2>3. j.who \in FiltersNames => r = FiltersRest(j, a)
    BY RestIs
  <2>4. "defaultsFilters" \in FiltersNames
    BY DEF FiltersNames
  <2>5. StorageRest(j, a) = <<>> /\ SetupRest(j, a) = <<>>
    BY DEF StorageRest, SetupRest
  <2>6. j.who = "defaultsFilters" => FiltersRest(j, a) = <<>>
    BY DEF FiltersRest, Unanswered
  <2> HIDE DEF r
  <2> QED
    BY <1>3, <2>1, <2>2, <2>3, <2>4, <2>5, <2>6
<1>5. ASSUME j.who = "saveFilters" PROVE Head(r).cls # "held"
  <2>1. r = SaveFiltersRest(j, a)
    <3>1. j.who \in FiltersNames
      BY <1>5 DEF FiltersNames
    <3> QED
      BY <1>5, <3>1, RestIs DEF FiltersRest
  <2>2. Chained(j.todo)
    BY <1>2, <1>5 DEF Plain, HeldRight, StorageNames, SetupNames, RateNames
  <2>3. Head(j.todo).op \in {"storage", "save"} /\ Head(j.todo).key = "" => SaveFiltersRest(j, a) = <<>>
    BY DEF SaveFiltersRest, Unanswered
  <2>4. Head(readNotches).cls # "held"
    <3>1. Free(readNotches)
      BY FiltersLines
    <3>2. Head(readNotches) = readNotches[1] /\ 1 \in 1 .. Len(readNotches)
      BY <3>1, IsSeqFacts DEF Free
    <3> QED
      BY <3>1, <3>2 DEF Free, Quiet
  <2> HIDE DEF r
  <2> QED
    BY <1>1, <1>3, <1>8, <2>1, <2>2, <2>3, <2>4 DEF RestForm
<1>6. ASSUME j.who = "saveRates" PROVE Head(r).cls # "held"
  <2>1. r = RatesRest(j, a)
    <3>1. j.who \in RatesNames
      BY <1>6 DEF RatesNames
    <3> QED
      BY <3>1, RestIs
  <2>2. Released(j.todo)
    BY <1>2, <1>6 DEF Plain, HeldRight, StorageNames, SetupNames, RateNames
  <2>3. Len(j.todo) \in Nat /\ Len(j.todo) > 3 => Len(j.todo) > 2
    OBVIOUS
  <2>4. Len(j.todo) > 2 => RatesRest(j, a) = <<>>
    BY DEF RatesRest, SetAccepted, RatesRead, SaveStep, canSaveStorage
  <2> HIDE DEF r
  <2> QED
    BY <1>1, <1>3, <1>6, <1>8, <2>1, <2>2, <2>3, <2>4 DEF RestForm
<1>7. ASSUME j.who \notin {"saveFilters", "saveRates"} PROVE Head(r).cls # "held"
  <2>1. Unheld(j.todo)
    BY <1>2, <1>4, <1>7, HeldNames
  <2>2. r = Tail(j.todo)
    BY <1>1, <1>3, <1>7 DEF RestForm
  <2> HIDE DEF r
  <2> QED
    BY <1>3, <1>8, <2>1, <2>2
<1> QED
  BY <1>5, <1>6, <1>7 DEF r

\* A motor test goes on to its start only while all its checks stand.
LEMMA TestRest ==
  ASSUME NEW w, NEW tab, NEW j, JobOK(tab, j), NEW a
  PROVE  /\ j.who = "stop" => Rest(w, j, a) = <<>>
         /\ j.who = "test" /\ Rest(w, j, a) # <<>>
              => /\ Rest(w, j, a) = <<StartLine>> /\ j.todo = TestLines /\ j.got = <<>>
                 /\ j.mine /\ a.kind = "disarmed" /\ w.up /\ w.bench.visible
<1>1. j.who \in {"stop", "test"} => Rest(w, j, a) = MotorsRest(w, j, a)
  BY RestIs DEF MotorsNames, Flight
<1>2. j.who = "stop" => MotorsRest(w, j, a) = <<>>
  BY DEF MotorsRest, Flight
<1>3. j.who = "test" => MotorsRest(w, j, a) = BenchRest(w, j, a)
  BY DEF MotorsRest, Flight
<1>4. ASSUME j.who = "test", BenchRest(w, j, a) # <<>>
      PROVE  /\ BenchRest(w, j, a) = <<StartLine>> /\ j.todo = TestLines /\ j.got = <<>>
             /\ j.mine /\ a.kind = "disarmed" /\ w.up /\ w.bench.visible
  <2>1. BenchRest(w, j, a) = Tail(j.todo) /\ j.mine
    BY <1>4 DEF BenchRest
  <2>2. (j.todo = TestLines /\ j.got = <<>>) \/ j.todo = <<StartLine>>
    BY <1>4 DEF JobOK
  <2>3. Tail(<<StartLine>>) = <<>>
    BY OneLine
  <2>4. j.todo = TestLines /\ j.got = <<>> /\ BenchRest(w, j, a) = <<StartLine>>
    BY <1>4, <2>1, <2>2, <2>3, TestFacts
  <2>5. Len(j.got) = 0
    BY <2>4
  <2>6. Preflight(w, j, a)
    BY <1>4, <2>5 DEF BenchRest
  <2> QED
    BY <2>1, <2>4, <2>6 DEF Preflight, BenchReady
<1> QED
  BY <1>1, <1>2, <1>3, <1>4

\* The next axis of the mounting is a command of its own.
LEMMA ActionRest ==
  ASSUME NEW w, NEW tab, NEW j, JobOK(tab, j), NEW a, j.who \in SensorsNames, Rest(w, j, a) # <<>>
  PROVE  /\ j.who \in ActionNames /\ Eager(j) /\ w.sens.visible /\ Allowed(w, "mount")
         /\ Head(Rest(w, j, a)).cls # "held"
<1>1. Rest(w, j, a) = SensorsRest(w, j, a)
  BY RestIs
<1>2. /\ Rest(w, j, a) = Tail(j.todo) /\ j.mine /\ Len(j.todo) > 1 /\ w.sens.visible /\ Allowed(w, "mount")
  BY <1>1 DEF SensorsRest
<1>3. IsSeq(j.todo) /\ j.todo # <<>> /\ Plain(j.who, j.todo) /\ (j.who = "sensors" => Len(j.todo) = 1)
  BY DEF JobOK, Plain, SensorsNames, ActionNames
<1>4. Len(j.todo) # 1 /\ Head(j.todo) = j.todo[1] /\ 1 \in 1 .. Len(j.todo)
  BY <1>2, <1>3, IsSeqFacts
<1>5. j.who \in ActionNames
  BY <1>3, <1>4 DEF SensorsNames
<1>6. Head(j.todo).key # "cancel"
  BY <1>3, <1>4, <1>5 DEF Plain
<1>7. Unheld(j.todo)
  BY <1>3, <1>5 DEF Plain, HeldRight, ActionNames, StorageNames, SetupNames, RateNames
<1> QED
  BY <1>2, <1>3, <1>5, <1>6, <1>7, TailUnheld DEF Eager

-----------------------------------------------------------------------------
(* The Sensors page.                                                       *)

\* A step of the Sensors page, as the other pages' properties see it.
Lanes(w, v) == Fine(v) /\ Base(w, v) /\ (OneReader(w) => OneReader(v)) /\ (Reading(v) => Reading(w))

\* Its confirmations stand, on a visible page.
Confirmed(w) == w.tab = "sensors" /\ w.sens.visible /\ w.sens.props /\ w.sens.still

LEMMA LanesTrans ==
  ASSUME NEW u, NEW v, NEW w
  PROVE  /\ Goes(u, v) => Lanes(u, v)
         /\ Lanes(u, v) /\ Lanes(v, w) => Lanes(u, w)
  BY DEF Goes, Calm, Lanes, Base

LEMMA LaneGoes ==
  ASSUME NEW w, NEW v, Goes(w, v), LaneRight(w)
  PROVE  LaneRight(v)
  BY DEF Goes, Calm, Base, LaneRight

LEMMA GateOK ==
  ASSUME NEW w, Fine(w), NEW j \in InGate(w)
  PROVE  JobOK(w.tab, j)
<1>1. CASE j \in Waits(w)
  BY <1>1 DEF Waits, Fine, WaitOK
<1>2. CASE w.wire # NoJob /\ j = w.wire
  BY <1>2 DEF Fine
<1> QED
  BY <1>1, <1>2 DEF InGate

LEMMA OnSensorsEager ==
  ASSUME NEW j, JobOK("sensors", j), Eager(j)
  PROVE  j.who \in ActionNames /\ j.here /\ j.who # "test"
  BY FlightNames DEF JobOK, Eager, AtHome

LEMMA EnterIsLane ==
  ASSUME NEW w, Fine(w), NEW j, WaitOK(w.tab, j)
  PROVE  LET e == Enter(w, j)
         IN /\ Fine(e) /\ Base(w, e) /\ e.sens = w.sens /\ e.next = w.next
            /\ OneReader(w) /\ (Reader(j) => ~Reading(w)) => OneReader(e)
            /\ Reading(e) => Reading(w) \/ Reader(j)
            /\ NextWaits(e) <=> NextWaits(w)
            /\ Wants(e) => Wants(w) \/ Eager(j)
            /\ Acting(w) \subseteq Acting(e)
            /\ \A x \in Acting(e) : x \in Acting(w) \/ (x = j /\ j.who \in ActionNames /\ Eager(j))
<1> DEFINE e == Enter(w, j)
<1>1. /\ Fine(e) /\ Beside(w, e) /\ e.next = w.next
      /\ InGate(w) \subseteq InGate(e) /\ InGate(e) \subseteq InGate(w) \cup {j}
      /\ w.wire # NoJob => e.wire = w.wire
      /\ w.wire = NoJob => e.wire = j
      /\ OneReader(w) /\ (Reader(j) => ~Reading(w)) => OneReader(e)
  BY EnterIs DEF WaitOK
<1> HIDE DEF e
<1>2. Starting(e) => Starting(w)
  BY <1>1, WaitHead DEF Starting, WireLine
<1>3. Acting(w) \subseteq Acting(e) /\ \A x \in Acting(e) : x \in Acting(w) \/ (x = j /\ j.who \in ActionNames /\ Eager(j))
  BY <1>1, ActingEager
<1>4. (Reading(e) => Reading(w) \/ Reader(j)) /\ (NextWaits(e) <=> NextWaits(w))
  BY <1>1 DEF Reading, NextWaits
<1>5. Wants(e) => Wants(w) \/ Eager(j)
  BY <1>1, <1>4 DEF Wants
<1>6. Base(w, e) /\ e.sens = w.sens
  BY <1>1, <1>2 DEF Base, Beside, HasStop, HereStop
<1> QED
  BY <1>1, <1>3, <1>4, <1>5, <1>6 DEF e

\* Only what the Sensors page shows has changed, its telemetry apart.
Poses(w, v) == /\ Shown(w, v) /\ v.bench = w.bench /\ v.loop = w.loop
               /\ DOMAIN v.sens = DOMAIN w.sens /\ v.sens.old = w.sens.old /\ v.sens.snap = w.sens.snap

LEMMA PosesIs ==
  ASSUME NEW w, NEW v, Fine(w), Shown(w, v), v.bench = w.bench, v.loop = w.loop
  PROVE  /\ Lanes(w, v) /\ Acting(v) = Acting(w) /\ (Reading(v) <=> Reading(w)) /\ (Wants(v) <=> Wants(w))
         /\ NextWaits(v) <=> NextWaits(w)
         /\ Poses(w, v) /\ LaneRight(w) => LaneRight(v)
<1>1. DOMAIN v.bench = BenchFields /\ DOMAIN v.loop = LoopFields
  BY DEF Fine
<1>2. /\ Fine(v)
      /\ HasStop(v) <=> HasStop(w)
      /\ HereStop(v) <=> HereStop(w)
      /\ Starting(v) <=> Starting(w)
      /\ Acting(v) = Acting(w)
      /\ Reading(v) <=> Reading(w)
      /\ OneReader(v) <=> OneReader(w)
      /\ NextWaits(v) <=> NextWaits(w)
      /\ Wants(v) <=> Wants(w)
  BY <1>1, ShownFine
<1>3. Lanes(w, v)
  BY <1>2 DEF Lanes, Base, Shown
<1>4. Poses(w, v) /\ LaneRight(w) => LaneRight(v)
  BY <1>2 DEF LaneRight, Poses, Shown
<1> QED
  BY <1>2, <1>3, <1>4

LEMMA AllowedFacts ==
  ASSUME NEW w, NEW what, Allowed(w, what), what # "cancel"
  PROVE  w.up /\ w.sens.snap # NoSnap /\ w.sens.props /\ w.sens.still
  BY DEF Allowed

LEMMA EagerWhat ==
  ASSUME NEW j, j.who \in ActionNames, Eager(j)
  PROVE  What(j) # "cancel"
  BY DEF What, Eager, ActionNames

\* An action starts with its checks, once no read is under way.
LEMMA StartActionIs ==
  ASSUME NEW w, Fine(w), w.tab = "sensors", LaneRight(w), ~Reading(w),
         NEW j, WaitOK(w.tab, j), j.here, j.who # "sensors"
  PROVE  LET v == StartAction(w, j)
         IN /\ Lanes(w, v) /\ LaneRight(v)
            /\ Wants(v) => Wants(w) \/ Eager(j)
            /\ Acting(v) \ Acting(w) # {} => Confirmed(v) /\ Eager(j)
            /\ Wants(v) /\ ~Wants(w) => v.up
<1> DEFINE e == Enter(w, j)
           d == [w EXCEPT !.sens.pending = FALSE]
<1>1. /\ Fine(e) /\ Base(w, e) /\ e.sens = w.sens
      /\ OneReader(w) => OneReader(e)
      /\ ~Reading(e)
      /\ NextWaits(e) <=> NextWaits(w)
      /\ Wants(e) => Wants(w) \/ Eager(j)
      /\ \A x \in Acting(e) : x \in Acting(w) \/ (x = j /\ j.who \in ActionNames /\ Eager(j))
  BY EnterIsLane DEF Reader
<1>2. CASE w.sens.visible /\ Allowed(w, What(j))
  <2>1. StartAction(w, j) = e
    BY <1>2 DEF StartAction
  <2> HIDE DEF e
  <2>2. Eager(j) => j.who \in ActionNames /\ w.up /\ w.sens.snap # NoSnap /\ w.sens.props /\ w.sens.still
    BY <1>2, AllowedFacts, EagerWhat, OnSensorsEager DEF WaitOK
  <2>3. Acting(e) \ Acting(w) # {} => Eager(j)
    BY <1>1
  <2>4. e.up = w.up /\ e.tab = w.tab
    BY <1>1 DEF Base
  <2>5. LaneRight(e)
    <3>1. w.sens.old => Acting(e) = {}
      BY <1>1, <2>2 DEF LaneRight
    <3> QED
      BY <1>1, <2>4, <3>1 DEF LaneRight
  <2> QED
    BY <1>1, <1>2, <2>1, <2>2, <2>3, <2>4, <2>5 DEF Lanes, Confirmed
<1>3. CASE ~(w.sens.visible /\ Allowed(w, What(j)))
  <2>1. StartAction(w, j) = d
    BY <1>3 DEF StartAction
  <2>2. DOMAIN w = BrowserFields /\ DOMAIN w.sens = SensFields
    BY DEF Fine, LaneRight
  <2>3. Poses(w, d) /\ Shown(w, d) /\ d.bench = w.bench /\ d.loop = w.loop
    BY <2>2 DEF Poses, Shown, BrowserFields, SensFields
  <2> HIDE DEF d
  <2>4. Lanes(w, d) /\ LaneRight(d) /\ Acting(d) = Acting(w) /\ (Wants(d) <=> Wants(w))
    BY <2>3, PosesIs
  <2> QED
    BY <2>1, <2>4
<1> QED
  BY <1>2, <1>3

\* What an action of the Sensors page comes to.
Sensed(w, v) == /\ Fine(v) /\ Base(w, v) /\ OneReader(v) /\ LaneRight(v)
                /\ Acting(v) \ Acting(w) # {} => Confirmed(v)
                /\ Wants(v) => v.up

LEMMA SensedGoes ==
  ASSUME NEW u, NEW v, NEW w, Sensed(u, v), Goes(v, w)
  PROVE  Sensed(u, w)
<1>1. LaneRight(w)
  BY LaneGoes DEF Sensed
<1> QED
  BY <1>1 DEF Sensed, Goes, Calm, Base, Confirmed

LEMMA GoesSensed ==
  ASSUME NEW w, NEW v, Goes(w, v), OneReader(w), LaneRight(w), Wants(w) => w.up
  PROVE  Sensed(w, v)
<1>1. LaneRight(v)
  BY LaneGoes
<1> QED
  BY <1>1 DEF Sensed, Goes, Calm, Base

LEMMA SensorsWho ==
  /\ "stop" \notin SensorsNames /\ "sensors" \in SensorsNames
  /\ \A who \in SensorsNames : who \in AllNames \ {"test", "stop"} /\ AtHome("sensors", who)
  /\ \A j : JobOK("sensors", j) /\ Eager(j) => j.who \in SensorsNames
<1>1. \A who \in SensorsNames : who \in AllNames \ {"test", "stop"}
  BY NamesAll DEF SensorsNames, ActionNames
<1>2. \A who \in SensorsNames : AtHome("sensors", who)
  BY DEF SensorsNames, ActionNames, AtHome, Flight, SetupNames, RateNames, ReceiverNames
<1> QED
  BY <1>1, <1>2, OnSensorsEager DEF SensorsNames, ActionNames

\* The lines of its jobs.
LEMMA SensorsLines ==
  /\ LET s == <<Line("sensors", "", 0, "normal")>> IN Plain("sensors", s) /\ s # <<>> /\ Len(s) = 1
  /\ \A what : LET s == <<Line("calibrate", what, 0, "write")>> IN Plain("calibrate", s) /\ s # <<>>
  /\ \A x, y : LET s == <<Set("roll", x), Set("yaw", y)>> IN Plain("mount", s) /\ s # <<>>
<1>1. ASSUME NEW x, Quiet(x) PROVE Plain("sensors", <<x>>) /\ Plain("calibrate", <<x>>) /\ <<x>> # <<>> /\ Len(<<x>>) = 1
  <2> DEFINE s == <<x>>
  <2>1. Free(s) /\ Len(s) = 1
    BY <1>1, FreeOne
  <2> HIDE DEF s
  <2>2. Unheld(s)
    BY <2>1, FreeLed
  <2>3. Plain("sensors", s) /\ Plain("calibrate", s) /\ s # <<>> /\ Len(s) = 1
    BY <2>1, <2>2 DEF Plain, Free, Quiet, HeldRight, StorageNames, SetupNames, RateNames
  <2> QED
    BY <2>3 DEF s
<1>2. Quiet(Line("sensors", "", 0, "normal")) /\ \A what : Quiet(Line("calibrate", what, 0, "write"))
  BY DEF Quiet, Line
<1>3. ASSUME NEW x, NEW y, Quiet(x), Quiet(y), x.key # "cancel", y.key # "cancel"
      PROVE  Plain("mount", <<x, y>>) /\ <<x, y>> # <<>>
  <2> DEFINE s == <<x, y>>
  <2>1. Free(s) /\ \A i \in 1 .. Len(s) : s[i].key # "cancel"
    BY <1>3, FreeTwo
  <2> HIDE DEF s
  <2>2. Unheld(s)
    BY <2>1, FreeLed
  <2>3. Plain("mount", s) /\ s # <<>>
    BY <2>1, <2>2 DEF Plain, Free, Quiet, HeldRight, StorageNames, SetupNames, RateNames
  <2> QED
    BY <2>3 DEF s
<1>4. \A x : Set("roll", x).key # "cancel" /\ Set("yaw", x).key # "cancel"
  BY DEF Set, Line
<1> QED
  BY <1>1, <1>2, <1>3, <1>4, QuietLines

LEMMA AskSensors ==
  ASSUME NEW w, Fine(w), w.tab = "sensors", NEW j, NEW who \in SensorsNames, NEW s, s # <<>>, Plain(who, s),
         who = "sensors" => Len(s) = 1, IsNew(j, who, s)
  PROVE  WaitOK(w.tab, j) /\ j.here /\ j.who = who
  BY NewJob, SensorsWho DEF IsNew

\* An action: after the current read, or now.
LEMMA ActIs ==
  ASSUME NEW w, Fine(w), w.tab = "sensors", LaneRight(w), OneReader(w), w.up,
         NEW j, WaitOK(w.tab, j), j.here, j.who \in ActionNames
  PROVE  Sensed(w, Act(w, j))
<1> DEFINE v == [w EXCEPT !.sens.pending = TRUE]
           n == [v EXCEPT !.next = j]
           s == StartAction(v, j)
<1>1. DOMAIN w = BrowserFields /\ DOMAIN w.sens = SensFields
  BY DEF Fine, LaneRight
<1>2. Poses(w, v) /\ Shown(w, v) /\ v.bench = w.bench /\ v.loop = w.loop
  BY <1>1 DEF Poses, Shown, BrowserFields, SensFields
<1>3. Act(w, j) = IF Busy(w, {"sensors"}) THEN n ELSE s
  BY DEF Act
<1> HIDE DEF v
<1>4. /\ Lanes(w, v) /\ LaneRight(v) /\ Acting(v) = Acting(w)
      /\ Reading(v) <=> Reading(w)
  BY <1>2, PosesIs
<1>5. Fine(v) /\ v.tab = "sensors" /\ OneReader(v) /\ v.up /\ j.who # "sensors"
  BY <1>4, NamesFacts DEF Lanes, Base
<1>6. Busy(w, {"sensors"}) <=> Reading(w)
  BY DEF Busy, Reading, Reader
<1>7. CASE Reading(w)
  <2>1. Bids(v, n) /\ Beside(v, n) /\ n.wire = v.wire /\ InGate(n) = InGate(v) /\ n.queue = v.queue
    BY <1>5, <1>4, NextIs DEF Lanes, Fine, BrowserFields
  <2> HIDE DEF n
  <2>2. OneReader(n) /\ Acting(n) = Acting(v) /\ (Reading(n) <=> Reading(v))
    BY <2>1, <1>5 DEF OneReader, Acting, Reading
  <2>3. ~w.sens.old /\ Acting(w) = {} /\ v.sens.old = w.sens.old
    BY <1>2, <1>7 DEF LaneRight, Poses
  <2>4. LaneRight(n)
    BY <1>4, <2>1, <2>2, <2>3 DEF LaneRight, Bids, Beside
  <2>5. Base(w, n)
    BY <1>4, <2>1 DEF Bids, Lanes, Base
  <2>6. Sensed(w, n)
    BY <1>4, <1>5, <2>1, <2>2, <2>4, <2>5 DEF Sensed, Bids, Beside
  <2> QED
    BY <1>3, <1>6, <1>7, <2>6
<1>8. CASE ~Reading(w)
  <2>1. /\ Lanes(v, s) /\ LaneRight(s)
        /\ Acting(s) \ Acting(v) # {} => Confirmed(s)
    BY <1>4, <1>5, <1>8, StartActionIs
  <2> HIDE DEF s
  <2>2. Lanes(w, s)
    BY <1>4, <2>1, LanesTrans
  <2>3. Sensed(w, s)
    BY <1>4, <1>5, <2>1, <2>2 DEF Sensed, Lanes, Base
  <2> QED
    BY <1>3, <1>6, <1>8, <2>3
<1> QED
  BY <1>7, <1>8

\* A new generation of the lane.
Cleared(v) == ~Wants(v) /\ Acting(v) = {} /\ ~NextWaits(v) /\ v.sens.snap = NoSnap

LEMMA UnwantedIs == ASSUME NEW w, ~Wants(w) PROVE Acting(w) = {} /\ ~NextWaits(w)
  BY ActingEager DEF Wants

LEMMA SensorsForgetIs ==
  ASSUME NEW w, Fine(w), w.tab = "sensors", DOMAIN w.sens = SensFields, OneReader(w)
  PROVE  LET v == SensorsForget(w)
         IN /\ Lanes(w, v) /\ Cleared(v) /\ OneReader(v)
            /\ DOMAIN v.sens = SensFields /\ v.sens.visible = w.sens.visible /\ v.sens.old = w.sens.old
<1> DEFINE f == Forget(w, SensorsNames)
           r == resetTelemetry(f)
           v == [r EXCEPT !.sens.props = FALSE, !.sens.still = FALSE, !.sens.pending = FALSE]
<1>1. Goes(w, f) /\ Beside(w, f) /\ ~Wants(f)
  BY ForgetGoes, ForgetSettles, SensorsWho
<1> HIDE DEF f
<1>2. Fine(f) /\ OneReader(f) /\ DOMAIN f.sens = SensFields /\ f.sens = w.sens
  BY <1>1 DEF Goes, Calm, Beside
<1>3. /\ Shown(f, v) /\ v.bench = f.bench /\ v.loop = f.loop /\ DOMAIN v.sens = SensFields
      /\ v.sens.visible = f.sens.visible /\ v.sens.old = f.sens.old /\ v.sens.snap = NoSnap
  BY <1>2 DEF resetTelemetry, Shown, Fine, BrowserFields, SensFields
<1>4. SensorsForget(w) = v
  BY DEF SensorsForget, f
<1> HIDE DEF v
<1>5. Lanes(f, v) /\ (Wants(v) <=> Wants(f))
  BY <1>2, <1>3, PosesIs
<1>6. Lanes(w, v) /\ OneReader(v)
  BY <1>1, <1>2, <1>5, LanesTrans DEF Lanes
<1> QED
  BY <1>1, <1>2, <1>3, <1>4, <1>5, <1>6, UnwantedIs DEF Cleared

LEMMA LaneFreeIs ==
  ASSUME NEW w, LaneFree(w)
  PROVE  ~Reading(w) /\ ~NextWaits(w) /\ (Fine(w) => Acting(w) = {})
<1>1. ~Reading(w) /\ ~NextWaits(w)
  BY DEF LaneFree, Busy, Reading, Reader, NextWaits, SensorsNames
<1>2. Fine(w) => Acting(w) = {}
  BY GateOK DEF Acting, LaneFree, Busy, SensorsNames, JobOK
<1> QED
  BY <1>1, <1>2

\* The next read, on a free lane.
LEMMA ReadSensorsIs ==
  ASSUME NEW w, Fine(w), w.tab = "sensors", DOMAIN w.sens = SensFields, OneReader(w), CanReadSensors(w)
  PROVE  LET v == ReadSensors(w)
         IN /\ Fine(v) /\ Base(w, v) /\ OneReader(v) /\ LaneRight(v) /\ v.sens = w.sens
            /\ (Wants(v) => Wants(w)) /\ Acting(v) = {}
<1> DEFINE s == <<Line("sensors", "", 0, "normal")>>
           j == Job("sensors", s)
           v == Enter(w, j)
<1>1. IsNew(j, "sensors", s) /\ s # <<>> /\ Plain("sensors", s) /\ Len(s) = 1
  BY JobIsNew, SensorsLines
<1>2. v = ReadSensors(w)
  BY DEF ReadSensors
<1> HIDE DEF s, j
<1>3. WaitOK(w.tab, j) /\ j.here /\ j.who = "sensors"
  BY <1>1, AskSensors, SensorsWho
<1>4. ~Reading(w) /\ ~NextWaits(w) /\ Acting(w) = {} /\ ~w.sens.old
  BY LaneFreeIs DEF CanReadSensors
<1>5. j.who \notin ActionNames /\ ~Eager(j)
  BY <1>3, NamesFacts DEF Eager
<1>6. /\ Fine(v) /\ Base(w, v) /\ v.sens = w.sens /\ v.next = w.next
      /\ OneReader(v)
      /\ Wants(v) => Wants(w)
      /\ Acting(v) = {}
  BY <1>3, <1>4, <1>5, EnterIsLane
<1> HIDE DEF v
<1>7. LaneRight(v)
  BY <1>4, <1>6 DEF LaneRight
<1> QED
  BY <1>2, <1>6, <1>7

\* ... which a panel then asks for at once.
LEMMA ReadNextIs ==
  ASSUME NEW w, Fine(w), w.tab = "sensors", DOMAIN w.sens = SensFields, OneReader(w),
         CanReadSensors(w) \/ LaneRight(w)
  PROVE  LET v == IF CanReadSensors(w) THEN ReadSensors(w) ELSE w
         IN /\ Fine(v) /\ Base(w, v) /\ OneReader(v) /\ LaneRight(v) /\ v.sens = w.sens
            /\ (Wants(v) => Wants(w)) /\ Acting(v) \subseteq Acting(w)
  BY ReadSensorsIs DEF Base

LEMMA SensorsResetIs ==
  ASSUME NEW w, Fine(w), w.tab = "sensors", DOMAIN w.sens = SensFields, OneReader(w)
  PROVE  LET v == SensorsReset(w) IN Sensed(w, v) /\ ~Wants(v)
<1> DEFINE f == SensorsForget(w)
           u == [f EXCEPT !.sens.old = FALSE]
           r == IF CanReadSensors(u) THEN ReadSensors(u) ELSE u
           v == StorageReset(r, w.up)
<1>1. SensorsReset(w) = v
  BY DEF SensorsReset
<1>2. Lanes(w, f) /\ Cleared(f) /\ OneReader(f) /\ DOMAIN f.sens = SensFields
  BY SensorsForgetIs
<1> HIDE DEF f
<1>3. Fine(f) /\ f.tab = "sensors"
  BY <1>2 DEF Lanes, Base
<1>4. /\ Shown(f, u) /\ u.bench = f.bench /\ u.loop = f.loop /\ DOMAIN u.sens = SensFields
      /\ u.sens.old = FALSE
  BY <1>2, <1>3 DEF Shown, Fine, BrowserFields, SensFields
<1> HIDE DEF u
<1>5. Lanes(f, u) /\ Acting(u) = {} /\ ~Wants(u)
  BY <1>2, <1>3, <1>4, PosesIs DEF Cleared
<1>6. Fine(u) /\ u.tab = "sensors" /\ OneReader(u) /\ LaneRight(u)
  BY <1>2, <1>3, <1>4, <1>5 DEF Lanes, Base, LaneRight
<1>7. Fine(r) /\ Base(u, r) /\ OneReader(r) /\ LaneRight(r) /\ ~Wants(r) /\ Acting(r) = {}
  BY <1>4, <1>5, <1>6, ReadNextIs
<1> HIDE DEF r
<1>8. Goes(r, v)
  BY <1>7, StorageResetGoes
<1>9. Base(w, r)
  BY <1>2, <1>5, <1>7 DEF Lanes, Base
<1>10. Sensed(w, r)
  BY <1>7, <1>9 DEF Sensed
<1> HIDE DEF v
<1>11. Sensed(w, v) /\ ~Wants(v)
  BY <1>7, <1>8, <1>10, SensedGoes DEF Goes, Calm
<1> QED
  BY <1>1, <1>11

\* Without telemetry nothing is on its way.
LEMMA OldIsQuiet ==
  ASSUME NEW w, Fine(w), w.tab = "sensors", LaneRight(w), w.sens.old
  PROVE  ~Wants(w)
  BY GateOK, OnSensorsEager, ActingEager DEF Wants, LaneRight

LEMMA SensorsVisibleIs ==
  ASSUME NEW w, Fine(w), w.tab = "sensors", LaneRight(w), OneReader(w), Wants(w) => w.up, NEW b \in BOOLEAN
  PROVE  LET v == SensorsVisible(w, b)
         IN Sensed(w, v) /\ ~Wants(v)
<1> DEFINE f == IF w.up /\ ~w.sens.old THEN SensorsForget(w) ELSE w
           u == [f EXCEPT !.sens.visible = b]
           v == IF CanReadSensors(u) THEN ReadSensors(u) ELSE u
<1>1. SensorsVisible(w, b) = v
  BY DEF SensorsVisible
<1>2. ~Wants(f) /\ Lanes(w, f) /\ OneReader(f) /\ LaneRight(f) /\ DOMAIN f.sens = SensFields
  <2>1. CASE w.up /\ ~w.sens.old
    <3>1. /\ Lanes(w, f) /\ Cleared(f) /\ OneReader(f)
          /\ DOMAIN f.sens = SensFields /\ f.sens.old = w.sens.old
      BY <2>1, SensorsForgetIs DEF LaneRight
    <3> HIDE DEF f
    <3> QED
      BY <2>1, <3>1 DEF LaneRight, Cleared
  <2>2. CASE ~(w.up /\ ~w.sens.old)
    <3>1. f = w /\ ~Wants(w)
      BY <2>2, OldIsQuiet
    <3> HIDE DEF f
    <3> QED
      BY <3>1, GoesRefl, LanesTrans DEF LaneRight
  <2> QED
    BY <2>1, <2>2
<1> HIDE DEF f
<1>3. Fine(f) /\ f.tab = "sensors"
  BY <1>2 DEF Lanes, Base
<1>4. Poses(f, u) /\ Shown(f, u) /\ u.bench = f.bench /\ u.loop = f.loop /\ DOMAIN u.sens = SensFields
  BY <1>2, <1>3 DEF Poses, Shown, Fine, BrowserFields, SensFields
<1> HIDE DEF u
<1>5. Lanes(f, u) /\ ~Wants(u) /\ LaneRight(u) /\ Acting(u) = Acting(f)
  BY <1>2, <1>3, <1>4, PosesIs
<1>6. Fine(u) /\ u.tab = "sensors" /\ OneReader(u)
  BY <1>2, <1>3, <1>5 DEF Lanes, Base
<1>7. Fine(v) /\ Base(u, v) /\ OneReader(v) /\ LaneRight(v) /\ ~Wants(v)
  BY <1>4, <1>5, <1>6, ReadNextIs
<1> HIDE DEF v
<1>8. Base(w, v)
  BY <1>2, <1>5, <1>7 DEF Lanes, Base
<1>9. Acting(v) = {}
  BY <1>7, UnwantedIs
<1> QED
  BY <1>1, <1>7, <1>8, <1>9 DEF Sensed

\* The telemetry's answer: w is the browser after it was taken off the wire.
LEMMA TelemetryIs ==
  ASSUME NEW w, Fine(w), w.tab = "sensors", DOMAIN w.sens = SensFields, ~w.sens.old, NEW a,
         OneReader(w), ~Reading(w), Acting(w) = {}
  PROVE  LET v == Telemetry(w, a)
         IN /\ Fine(v) /\ Base(w, v) /\ OneReader(v) /\ ~Reading(v) /\ Acting(v) = {}
            /\ Wants(v) => Wants(w)
            /\ DOMAIN v.sens = SensFields
            /\ v.sens.old => v.sens.snap = NoSnap
<1> DEFINE r == resetTelemetry(w)
           o == [r EXCEPT !.sens.old = TRUE]
           t == [w EXCEPT !.sens.snap = a.val, !.sens.safe = a.kind = "idle",
                          !.sens.fresh = a.kind # "noimu", !.sens.rev = a.val % 48]
           s == StorageReset(t, w.up)
           Right(v) == /\ Fine(v) /\ Base(w, v) /\ OneReader(v) /\ ~Reading(v) /\ Acting(v) = {}
                       /\ Wants(v) => Wants(w)
                       /\ DOMAIN v.sens = SensFields
                       /\ v.sens.old => v.sens.snap = NoSnap
<1>1. Telemetry(w, a) \in {w, o, r, t, s}
  BY DEF Telemetry
<1>2. ASSUME NEW v, Shown(w, v), v.bench = w.bench, v.loop = w.loop, DOMAIN v.sens = SensFields,
             v.sens.old => v.sens.snap = NoSnap
      PROVE  Right(v)
  <2>1. Lanes(w, v) /\ Acting(v) = Acting(w) /\ (Reading(v) <=> Reading(w)) /\ (Wants(v) <=> Wants(w))
    BY <1>2, PosesIs
  <2> QED
    BY <1>2, <2>1 DEF Lanes
<1>3. Right(w)
  BY <1>2 DEF Shown
<1>4. Right(r)
  <2>1. /\ Shown(w, r) /\ r.bench = w.bench /\ r.loop = w.loop /\ DOMAIN r.sens = SensFields
        /\ r.sens.snap = NoSnap
    BY DEF resetTelemetry, Shown, Fine, BrowserFields, SensFields
  <2> QED
    BY ONLY <2>1, <1>2
<1>5. Right(o)
  <2>1. /\ Shown(w, o) /\ o.bench = w.bench /\ o.loop = w.loop /\ DOMAIN o.sens = SensFields
        /\ o.sens.snap = NoSnap
    BY DEF resetTelemetry, Shown, Fine, BrowserFields, SensFields
  <2> QED
    BY ONLY <2>1, <1>2
<1>6. Right(t)
  <2>1. /\ Shown(w, t) /\ t.bench = w.bench /\ t.loop = w.loop /\ DOMAIN t.sens = SensFields
        /\ ~t.sens.old
    BY DEF Shown, Fine, BrowserFields, SensFields
  <2> QED
    BY ONLY <2>1, <1>2
<1>7. Right(s)
  <2> HIDE DEF t
  <2>1. Goes(t, s)
    BY <1>6, StorageResetGoes
  <2> HIDE DEF s
  <2> QED
    BY <1>6, <2>1 DEF Goes, Calm, Base
<1> HIDE DEF r, o, t, s
<1> QED
  BY <1>1, <1>3, <1>4, <1>5, <1>6, <1>7

\* An action put off until then starts, if it is still wanted.
LEMMA ReadRepliedIs ==
  ASSUME NEW w, Fine(w), w.tab = "sensors", DOMAIN w.sens = SensFields, ~w.sens.old, NEW j,
         OneReader(w), ~Reading(w), Acting(w) = {}, Wants(w) => w.up
  PROVE  LET v == ReadReplied(w, j) IN Sensed(w, v) /\ (Wants(v) => Wants(w))
<1> DEFINE t == IF j.mine THEN Telemetry(w, Last(j)) ELSE w
           n == [t EXCEPT !.next = NoJob]
           s == StartAction(n, t.next)
<1>1. ReadReplied(w, j) = IF t.next = NoJob THEN t ELSE IF t.next.mine THEN s ELSE n
  BY DEF ReadReplied
<1>2. /\ Fine(t) /\ Base(w, t) /\ OneReader(t) /\ ~Reading(t) /\ Acting(t) = {}
      /\ Wants(t) => Wants(w)
      /\ DOMAIN t.sens = SensFields
      /\ t.sens.old => t.sens.snap = NoSnap
  BY TelemetryIs DEF Base
<1> HIDE DEF t
<1>3. t.tab = "sensors" /\ (Wants(t) => t.up)
  BY <1>2 DEF Base
<1>4. CASE t.next = NoJob
  <2>1. LaneRight(t)
    BY <1>2, <1>4 DEF LaneRight, NextWaits
  <2> QED
    BY <1>1, <1>2, <1>3, <1>4, <2>1 DEF Sensed
<1>5. CASE t.next # NoJob
  <2>1. /\ WaitOK(t.tab, t.next) /\ t.next.here /\ t.next.who # "sensors"
        /\ Eager(t.next) => Wants(t)
    BY <1>2, <1>5 DEF Fine, Wants, NextWaits
  <2>2. /\ Goes(t, n) /\ n.next = NoJob /\ Beside(t, n)
    BY <1>2, NextIs
  <2> HIDE DEF n
  <2>3. Fine(n) /\ n.tab = "sensors" /\ OneReader(n) /\ ~Reading(n) /\ Acting(n) = {}
    BY <1>2, <1>3, <2>2 DEF Goes, Calm, Base
  <2>4. LaneRight(n)
    BY <1>2, <2>2, <2>3 DEF LaneRight, Beside, NextWaits
  <2>5. Base(w, n) /\ (Wants(n) => Wants(w)) /\ (Wants(n) => n.up)
    BY <1>2, <1>3, <2>2 DEF Goes, Calm, Base
  <2>6. Sensed(w, n)
    BY <2>3, <2>4, <2>5 DEF Sensed
  <2>7. /\ Lanes(n, s) /\ LaneRight(s)
        /\ Wants(s) => Wants(n) \/ Eager(t.next)
        /\ Acting(s) \ Acting(n) # {} => Confirmed(s)
        /\ Wants(s) /\ ~Wants(n) => s.up
    BY <1>3, <2>1, <2>3, <2>4, StartActionIs
  <2> HIDE DEF s
  <2>8. Base(w, s) /\ (Wants(s) => Wants(w)) /\ (Wants(s) => s.up)
    BY <1>2, <2>1, <2>5, <2>7 DEF Lanes, Base
  <2>9. Sensed(w, s)
    BY <2>3, <2>7, <2>8 DEF Sensed, Lanes
  <2> QED
    BY <1>1, <1>5, <2>5, <2>6, <2>8, <2>9
<1> QED
  BY <1>4, <1>5

\* What else the page does.
LEMMA PosesSensed ==
  ASSUME NEW w, NEW v, Fine(w), OneReader(w), LaneRight(w), Wants(w) => w.up, Poses(w, v)
  PROVE  Sensed(w, v) /\ (Wants(v) <=> Wants(w)) /\ Acting(v) = Acting(w)
<1>1. /\ Lanes(w, v) /\ Acting(v) = Acting(w) /\ (Wants(v) <=> Wants(w)) /\ LaneRight(v)
  BY PosesIs DEF Poses
<1> QED
  BY <1>1 DEF Sensed, Lanes, Base

LEMMA PosesAre ==
  ASSUME NEW w, Fine(w), DOMAIN w.sens = SensFields, NEW x
  PROVE  /\ Poses(w, [w EXCEPT !.sens.draft = x])
         /\ Poses(w, [w EXCEPT !.sens.fresh = x])
         /\ Poses(w, [w EXCEPT !.sens.props = x])
         /\ Poses(w, [w EXCEPT !.sens.still = x])
         /\ \A y : Poses(w, [w EXCEPT !.sens.pending = y, !.sens.draft = x])
  BY DEF Poses, Shown, Fine, BrowserFields, SensFields

\* A reply of the page, to a job that is its own.
LEMMA SensorsRepliedIs ==
  ASSUME NEW w, Fine(w), w.tab = "sensors", DOMAIN w.sens = SensFields, OneReader(w), Wants(w) => w.up,
         LaneRight(w), NEW j, Reader(j) => ~Reading(w) /\ Acting(w) = {} /\ ~w.sens.old
  PROVE  LET v == SensorsReplied(w, j)
         IN /\ Sensed(w, v) /\ (Wants(v) => Wants(w))
            /\ ~Reader(j) /\ Confirmed(w) => Confirmed(v)
<1>1. Sensed(w, w)
  BY GoesRefl, GoesSensed
<1>2. CASE Reader(j)
  BY <1>2, ReadRepliedIs DEF SensorsReplied, Reader
<1>3. CASE ~Reader(j)
  <2> DEFINE d == IF j.who = "mount" /\ Len(j.got) = 2 /\ SetAccepted(Last(j)) THEN NoSnap ELSE w.sens.draft
             v == [w EXCEPT !.sens.pending = FALSE, !.sens.draft = d]
  <2>1. SensorsReplied(w, j) \in {w, v}
    BY <1>3 DEF SensorsReplied, Reader, ActionReplied
  <2>2. Poses(w, v)
    BY PosesAre
  <2>4. v.sens.visible = w.sens.visible /\ v.sens.props = w.sens.props /\ v.sens.still = w.sens.still
    BY DEF Fine, BrowserFields, SensFields
  <2> HIDE DEF v
  <2>3. Sensed(w, v) /\ (Wants(v) <=> Wants(w)) /\ (Confirmed(w) => Confirmed(v))
    BY <2>2, <2>4, PosesSensed DEF Confirmed, Poses, Shown
  <2> QED
    BY <1>1, <2>1, <2>3
<1> QED
  BY <1>2, <1>3

-----------------------------------------------------------------------------
(* Replies and effects of all the pages.                                   *)

LEMMA RepliedIs ==
  ASSUME NEW w, NEW j, NEW line
  PROVE  /\ j.who \in MotorsNames => Replied(w, j, line) = MotorsReplied(w, j)
         /\ j.who \in StorageNames => Replied(w, j, line) = StorageReplied(w, j)
         /\ j.who \in FiltersNames => Replied(w, j, line) = FiltersReplied(w, j, line)
         /\ j.who \in SetupNames => Replied(w, j, line) = SetupReplied(w, j)
         /\ j.who \in ReceiverNames => Replied(w, j, line) = ReceiverReplied(w, j)
         /\ j.who \in RatesNames => Replied(w, j, line) = RatesReplied(w, j)
         /\ j.who \in ModesNames => Replied(w, j, line) = ModesReplied(w, j, line)
         /\ j.who \in SensorsNames => Replied(w, j, line) = SensorsReplied(w, j)
         /\ j.who \in PowerNames => Replied(w, j, line) = PowerReplied(w, j)
<1> DEFINE R == Replied(w, j, line)
<1>1. j.who \in MotorsNames => R = MotorsReplied(w, j)
  BY NamesApart DEF Replied
<1>2. j.who \in StorageNames => R = StorageReplied(w, j)
  BY NamesApart DEF Replied
<1>3. j.who \in FiltersNames => R = FiltersReplied(w, j, line)
  BY NamesApart DEF Replied
<1>4. j.who \in SetupNames => R = SetupReplied(w, j)
  BY NamesApart DEF Replied
<1>5. j.who \in ReceiverNames => R = ReceiverReplied(w, j)
  BY NamesApart DEF Replied
<1>6. j.who \in RatesNames => R = RatesReplied(w, j)
  BY NamesApart DEF Replied
<1>7. ModesNames \cap PowerNames = {}
  BY DEF ModesNames, SnapshotNames, PowerNames
<1>8. j.who \in ModesNames => R = ModesReplied(w, j, line)
  BY NamesApart, <1>7 DEF Replied
<1>9. j.who \in SensorsNames => R = SensorsReplied(w, j)
  BY NamesApart DEF Replied
<1>10. j.who \in PowerNames => R = PowerReplied(w, j)
  BY NamesApart, <1>7 DEF Replied
<1> QED
  BY <1>1, <1>2, <1>3, <1>4, <1>5, <1>6, <1>8, <1>9, <1>10

LEMMA RepliedGoes ==
  ASSUME NEW w, Fine(w), NEW j, Homely(w, j), j.who \in AllNames, j.who # "stop", j.who \notin SensorsNames,
         NEW line
  PROVE  Goes(w, Replied(w, j, line))
<1>1. CASE j.who \in MotorsNames
  <2>1. Goes(w, MotorsReplied(w, j))
    BY <1>1, MotorsRepliedGoes
  <2> QED
    BY <1>1, <2>1, RepliedIs
<1>2. CASE j.who \in StorageNames
  <2>1. Goes(w, StorageReplied(w, j))
    BY StorageRepliedGoes
  <2> QED
    BY <1>2, <2>1, RepliedIs
<1>3. CASE j.who \in FiltersNames
  <2>1. Goes(w, FiltersReplied(w, j, line))
    BY FiltersRepliedGoes
  <2> QED
    BY <1>3, <2>1, RepliedIs
<1>4. CASE j.who \in SetupNames
  <2>1. Goes(w, SetupReplied(w, j))
    BY <1>4, SetupRepliedGoes
  <2> QED
    BY <1>4, <2>1, RepliedIs
<1>5. CASE j.who \in ReceiverNames
  <2>1. Goes(w, ReceiverReplied(w, j))
    BY <1>5, ReceiverRepliedGoes
  <2> QED
    BY <1>5, <2>1, RepliedIs
<1>6. CASE j.who \in RatesNames
  <2>1. Goes(w, RatesReplied(w, j))
    BY RatesRepliedGoes
  <2> QED
    BY <1>6, <2>1, RepliedIs
<1>7. CASE j.who \in ModesNames
  <2>1. Goes(w, ModesReplied(w, j, line))
    BY ModesRepliedGoes
  <2> QED
    BY <1>7, <2>1, RepliedIs
<1>8. CASE j.who \in PowerNames
  <2>1. Goes(w, PowerReplied(w, j))
    BY PowerRepliedGoes
  <2> QED
    BY <1>8, <2>1, RepliedIs
<1> QED
  BY <1>1, <1>2, <1>3, <1>4, <1>5, <1>6, <1>7, <1>8, NamesAll

LEMMA BlockedBoolean ==
  ASSUME NEW w
  PROVE  /\ storageBlocked(w) \in BOOLEAN /\ ReceiverBlocked(w) \in BOOLEAN /\ ModesBlocked(w) \in BOOLEAN
         /\ SensorsBlocked(w) \in BOOLEAN /\ PowerBlocked(w) \in BOOLEAN
<1>1. storageBlocked(w) \in BOOLEAN
  BY DEF storageBlocked
<1>2. ReceiverBlocked(w) \in BOOLEAN
  BY DEF ReceiverBlocked
<1>3. ModesBlocked(w) \in BOOLEAN
  BY DEF ModesBlocked
<1>4. SensorsBlocked(w) \in BOOLEAN
  BY DEF SensorsBlocked
<1>5. PowerBlocked(w) \in BOOLEAN
  BY DEF PowerBlocked
<1> QED
  BY <1>1, <1>2, <1>3, <1>4, <1>5

\* React's effects end every step of the browser.
LEMMA EffectsIs ==
  ASSUME NEW w, Fine(w), w.tab = "setup" => Synced(w)
  PROVE  LET v == Effects(w) IN Goes(w, v) /\ (w.tab = "setup" => Settled(v))
<1>1. CASE w.tab = "setup"
  <2>1. Effects(w) = SetupEffect(w)
    BY <1>1 DEF Effects
  <2> QED
    BY <1>1, <2>1, SetupEffectIs
<1>2. CASE w.tab # "setup"
  <2>1. Effects(w) \in {MotorsEffect(w), ReceiverEffect(w), ModesEffect(w), SensorsEffect(w), PowerEffect(w), w}
    BY <1>2 DEF Effects
  <2>2. Goes(w, w)
    BY GoesRefl
  <2>3. \A b \in BOOLEAN : Goes(w, StorageEffect(w, b))
    BY StorageEffectGoes
  <2>4. Goes(w, MotorsEffect(w)) /\ Goes(w, ReceiverEffect(w)) /\ Goes(w, ModesEffect(w))
        /\ Goes(w, SensorsEffect(w)) /\ Goes(w, PowerEffect(w))
    BY <2>3, BlockedBoolean DEF MotorsEffect, ReceiverEffect, ModesEffect, SensorsEffect, PowerEffect
  <2> QED
    BY <1>2, <2>1, <2>2, <2>4
<1> QED
  BY <1>1, <1>2

-----------------------------------------------------------------------------
(* An answer.                                                              *)

\* v is gate w without job j.
Taken(w, v, j) ==
  /\ Fine(v) /\ Beside(w, v) /\ v.next = w.next /\ OneReader(v)
  /\ InGate(v) \subseteq InGate(w)
  /\ \A x \in InGate(w) : x.who = "stop" /\ x # j => x \in InGate(v)
  /\ Starting(v) => Starting(w)
  /\ Reader(j) => ~Reading(v)

\* Of job j of gate w, what is left is in gate x.
Onto(w, x, j) ==
  /\ Fine(x) /\ Beside(w, x) /\ OneReader(x) /\ LaneRight(x)
  /\ Wants(x) => Wants(w)
  /\ Acting(x) \ Acting(w) # {} => Wants(w) /\ Confirmed(x) /\ ~Reader(j)
  /\ j.who # "stop" /\ HasStop(w) => HasStop(x)
  /\ j.who # "stop" \/ ~j.here => (HereStop(w) => HereStop(x))
  /\ w.tab = "sensors" /\ Reader(j) => ~Reading(x) /\ Acting(x) = {} /\ ~x.sens.old

LEMMA TakenIs ==
  ASSUME NEW w, Ready(w), NEW j \in InGate(w), NEW v, Taken(w, v, j)
  PROVE  Onto(w, v, j)
<1>1. Acting(v) \subseteq Acting(w) /\ (Reading(v) => Reading(w))
  BY DEF Taken, Acting, Reading
<1>2. NextWaits(v) <=> NextWaits(w)
  BY DEF Taken, NextWaits
<1>3. Wants(v) => Wants(w)
  BY <1>2 DEF Taken, Wants
<1>4. LaneRight(v)
  BY <1>1, <1>2 DEF Ready, Taken, LaneRight, Beside
<1>5. j.who # "stop" /\ HasStop(w) => HasStop(v)
  BY DEF Taken, HasStop
<1>6. j.who # "stop" \/ ~j.here => (HereStop(w) => HereStop(v))
  BY DEF Taken, HereStop
<1>7. w.tab = "sensors" /\ Reader(j) => ~Reading(v) /\ Acting(v) = {} /\ ~v.sens.old
  BY <1>1 DEF Ready, Taken, LaneRight, Reading, Beside
<1> QED
  BY <1>1, <1>3, <1>4, <1>5, <1>6, <1>7 DEF Onto, Taken

\* k is job j with more lines to send.
LEMMA MoreIs ==
  ASSUME NEW w, NEW j, JobOK(w.tab, j), NEW a, Rest(w, j, a) # <<>>, NEW k, IsOn(j, Rest(w, j, a), a, k)
  PROVE  /\ JobOK(w.tab, k) /\ k.who # "stop" /\ ~Reader(k)
         /\ j.who # "test" => WaitOK(w.tab, k)
         /\ j.who = "test" => /\ k.todo = <<StartLine>> /\ k.mine /\ k.got = <<a>> /\ a.kind = "disarmed"
                              /\ Eager(j) /\ w.tab = "motors" /\ w.up /\ w.bench.visible
         /\ Eager(k) => Eager(j)
         /\ k.who \in ActionNames => Eager(j) /\ w.sens.visible /\ Allowed(w, "mount")
<1> DEFINE r == Rest(w, j, a)
<1>1. j.who # "stop"
  BY TestRest
<1>2. CASE j.who = "test"
  <2>1. r = <<StartLine>> /\ j.got = <<>> /\ j.mine /\ a.kind = "disarmed" /\ w.up /\ w.bench.visible
    BY <1>2, TestRest
  <2>2. k.todo = <<StartLine>> /\ k.got = <<a>> /\ k.mine /\ k.who = "test" /\ k.here /\ Eager(j)
    BY <1>2, <2>1 DEF IsOn, JobOK, Eager
  <2>3. w.tab = "motors"
    BY <2>2, FlightNames DEF JobOK, IsOn, AtHome
  <2>4. k.todo # <<>> /\ Len(k.got) = 1
    BY <2>2, OneLine
  <2>5. JobOK(w.tab, k) /\ "test" \notin ActionNames
    BY <1>2, <2>2, <2>4 DEF JobOK, IsOn, ActionNames
  <2> QED
    BY <1>2, <2>1, <2>2, <2>3, <2>5 DEF Reader
<1>3. CASE j.who # "test"
  <2>1. RestForm(j, r) /\ j.who \in AllNames
    BY RestForms DEF JobOK
  <2> HIDE DEF r
  <2>2. WaitOK(w.tab, k) /\ k.who = j.who /\ k.mine = j.mine
    BY <1>1, <1>3, <2>1, OnwardOK DEF IsOn, r
  <2>3. j.who \in SensorsNames => j.who \in ActionNames /\ Eager(j) /\ w.sens.visible /\ Allowed(w, "mount")
    BY ActionRest
  <2>4. j.who # "sensors"
    BY <2>3, NamesFacts
  <2>5. Eager(k) => Eager(j)
    BY <1>3, <2>2, <2>3, NamesFacts DEF Eager
  <2> QED
    BY <1>1, <1>3, <2>2, <2>3, <2>4, <2>5, NamesFacts DEF Reader, WaitOK
<1> QED
  BY <1>2, <1>3

\* ... of which the next is an action only where all confirmations stand.
LEMMA MoreActs ==
  ASSUME NEW w, Ready(w), NEW j \in InGate(w), NEW a, Rest(w, j, a) # <<>>,
         NEW k, IsOn(j, Rest(w, j, a), a, k), NEW x, Fine(x), Beside(w, x), x.next = w.next, OneReader(x),
         InGate(x) \subseteq InGate(w) \cup {k}
  PROVE  /\ Wants(x) => Wants(w)
         /\ Acting(x) \ Acting(w) # {} => Wants(w) /\ Confirmed(x) /\ ~Reader(j)
         /\ Reading(x) => Reading(w)
         /\ LaneRight(x)
         /\ ~Reader(j)
<1>1. /\ JobOK(w.tab, j) /\ Fine(w)
      /\ ~Reader(k)
      /\ Eager(k) => Eager(j)
      /\ k.who \in ActionNames => Eager(j) /\ w.sens.visible /\ Allowed(w, "mount")
      /\ k.who = j.who /\ k.here = j.here
  BY GateOK, MoreIs DEF Ready, IsOn
<1>2. (Reading(x) => Reading(w)) /\ (NextWaits(x) <=> NextWaits(w))
  BY <1>1 DEF Reading, NextWaits
<1>3. Wants(x) => Wants(w)
  BY <1>1, <1>2 DEF Wants
<1>4. \A y \in Acting(x) : y \in Acting(w) \/ (y = k /\ k.who \in ActionNames /\ Eager(k))
  BY ActingEager
<1>5. ~Reader(j)
  BY <1>1 DEF Reader
<1>6. ASSUME Acting(x) \ Acting(w) # {} PROVE Wants(w) /\ Confirmed(x) /\ Acting(w) # {}
  <2>1. k.who \in ActionNames /\ Eager(j) /\ j.mine /\ j.here
    BY <1>1, <1>4, <1>6 DEF Eager, JobOK
  <2>2. w.tab = "sensors" /\ w.sens.visible /\ w.sens.props /\ w.sens.still
    BY <1>1, <2>1, AllowedFacts DEF JobOK, AtHome, SensorsNames
  <2>3. Wants(w) /\ j \in Acting(w)
    BY <1>1, <2>1, ActingEager DEF Wants
  <2> QED
    BY <2>2, <2>3 DEF Confirmed, Beside
<1>7. LaneRight(x)
  BY <1>2, <1>6 DEF Ready, LaneRight, Beside
<1> QED
  BY <1>2, <1>3, <1>5, <1>6, <1>7

\* It goes on at once, holding the gate.
LEMMA HeldIs ==
  ASSUME NEW w, Ready(w), w.wire # NoJob, NEW a, Rest(w, w.wire, a) # <<>>, Head(Rest(w, w.wire, a)).cls = "held",
         NEW k, IsOn(w.wire, Rest(w, w.wire, a), a, k)
  PROVE  LET x == [w EXCEPT !.wire = k] IN Onto(w, x, w.wire) /\ (Starting(x) => Starting(w))
<1> DEFINE j == w.wire
           x == [w EXCEPT !.wire = k]
<1>1. j \in InGate(w) /\ JobOK(w.tab, j) /\ Fine(w)
  BY DEF InGate, Ready, Fine
<1>2. j.who # "test"
  <2> SUFFICES ASSUME j.who = "test" PROVE FALSE
    OBVIOUS
  <2>1. Rest(w, j, a) = <<StartLine>>
    BY <1>1, TestRest
  <2>2. Head(<<StartLine>>).cls = "start"
    BY LineFacts, OneLine
  <2> QED
    BY <2>1, <2>2
<1>3. WaitOK(w.tab, k) /\ k.who # "stop" /\ ~Reader(k) /\ k.who = j.who
  BY <1>1, <1>2, MoreIs DEF IsOn
<1>4. Beside(w, x) /\ x.next = w.next /\ x.wire = k /\ x.queue = w.queue
  BY <1>1 DEF Fine, Beside, BrowserFields
<1> HIDE DEF x, j
<1>5. Fine(x)
  BY <1>1, <1>3, <1>4 DEF Fine, Beside, WaitOK
<1>6. InGate(x) \subseteq InGate(w) \cup {k} /\ \A y \in InGate(w) : y # j => y \in InGate(x)
  BY <1>4 DEF InGate, Waits, j
<1>7. OneReader(x)
  BY <1>3, <1>4 DEF Ready, OneReader
<1>8. /\ Wants(x) => Wants(w)
      /\ Acting(x) \ Acting(w) # {} => Wants(w) /\ Confirmed(x) /\ ~Reader(j)
      /\ LaneRight(x)
      /\ ~Reader(j)
  BY <1>1, <1>4, <1>5, <1>6, <1>7, MoreActs DEF j
<1>9. (HasStop(w) => HasStop(x)) /\ (HereStop(w) => HereStop(x))
  BY <1>3, <1>6 DEF HasStop, HereStop
<1>10. ~Starting(x)
  BY <1>3, <1>4, WaitHead DEF Starting, WireLine
<1> QED
  BY <1>4, <1>5, <1>7, <1>8, <1>9, <1>10 DEF Onto, x, j

\* It waits in the gate again, or goes out: as the start of a motor, to the free gate only.
LEMMA AgainIs ==
  ASSUME NEW w, Ready(w), NEW j \in InGate(w), NEW v, Taken(w, v, j), NEW a, Rest(w, j, a) # <<>>,
         NEW k, IsOn(j, Rest(w, j, a), a, k), Head(Rest(w, j, a)).cls = "start" => v.wire = NoJob
  PROVE  LET x == Enter(v, k)
         IN Onto(w, x, j) /\ (Starting(x) => Starting(w) \/ j.who = "test")
<1> DEFINE x == Enter(v, k)
<1>1. JobOK(w.tab, j) /\ Fine(w)
  BY GateOK DEF Ready
<1>2. /\ JobOK(w.tab, k) /\ k.who # "stop" /\ ~Reader(k) /\ k.who = j.who
      /\ j.who # "test" => WaitOK(w.tab, k)
  BY <1>1, MoreIs DEF IsOn
<1>3. j.who = "test" => v.wire = NoJob
  <2> SUFFICES ASSUME j.who = "test" PROVE v.wire = NoJob
    OBVIOUS
  <2>1. Rest(w, j, a) = <<StartLine>>
    BY <1>1, TestRest
  <2>2. Head(<<StartLine>>).cls = "start"
    BY LineFacts, OneLine
  <2> QED
    BY <2>1, <2>2
<1>4. Fine(v) /\ OneReader(v) /\ v.tab = w.tab /\ Beside(w, v) /\ v.next = w.next
  BY DEF Taken, Beside
<1>5. /\ Fine(x) /\ Beside(v, x) /\ x.next = v.next
      /\ InGate(v) \subseteq InGate(x) /\ InGate(x) \subseteq InGate(v) \cup {k}
      /\ v.wire # NoJob => x.wire = v.wire
      /\ v.wire = NoJob => x.wire = k
      /\ OneReader(x)
  BY <1>2, <1>3, <1>4, EnterIs
<1> HIDE DEF x
<1>6. Beside(w, x) /\ x.next = w.next /\ InGate(x) \subseteq InGate(w) \cup {k}
  BY <1>4, <1>5 DEF Beside, Taken
<1>7. /\ Wants(x) => Wants(w)
      /\ Acting(x) \ Acting(w) # {} => Wants(w) /\ Confirmed(x) /\ ~Reader(j)
      /\ LaneRight(x)
      /\ ~Reader(j)
  BY <1>5, <1>6, MoreActs
<1>8. (HasStop(w) => HasStop(x)) /\ (HereStop(w) => HereStop(x))
  BY <1>2, <1>5 DEF HasStop, HereStop, Taken
<1>9. Starting(x) => Starting(w) \/ j.who = "test"
  BY <1>2, <1>5, WaitHead DEF Starting, WireLine, Taken
<1>10. Onto(w, x, j)
  BY <1>5, <1>6, <1>7, <1>8 DEF Onto
<1> QED
  BY <1>9, <1>10 DEF x

\* What the reply then makes of it.
Replying(x, v, j) ==
  /\ Fine(v) /\ v.tab = x.tab /\ v.up = x.up /\ OneReader(v) /\ LaneRight(v)
  /\ Wants(v) => Wants(x)
  /\ Acting(v) \ Acting(x) # {} => Confirmed(v)
  /\ Confirmed(x) /\ ~Reader(j) => Confirmed(v)
  /\ Starting(v) => Starting(x)
  /\ HasStop(x) => HasStop(v)
  /\ HereStop(x) => HereStop(v)
  /\ x.tab = "setup" /\ Synced(x) => Synced(v)
  /\ j.who # "stop" => Base(x, v)
  /\ j.who = "stop" /\ v.bench.stopping => x.bench.stopping /\ ~j.here

LEMMA GoesReplying ==
  ASSUME NEW x, NEW v, Goes(x, v), OneReader(x), LaneRight(x), NEW j, j.who # "stop"
  PROVE  Replying(x, v, j)
<1>1. LaneRight(v)
  BY LaneGoes
<1> QED
  BY <1>1 DEF Goes, Calm, Base, Replying, Confirmed

LEMMA ReplyingIs ==
  ASSUME NEW w, Ready(w), NEW j, JobOK(w.tab, j), NEW x, Onto(w, x, j),
         NEW k, k.who = j.who, k.mine = j.mine, k.here = j.here, NEW line
  PROVE  Replying(x, Replied(x, k, line), j)
<1> DEFINE v == Replied(x, k, line)
<1>1. Fine(x) /\ x.tab = w.tab /\ x.up = w.up /\ OneReader(x) /\ LaneRight(x) /\ (Wants(x) => x.up)
  BY DEF Ready, Onto, Beside
<1>2. Homely(x, k) /\ k.who \in AllNames
  BY <1>1 DEF Homely, JobOK
<1>3. CASE j.who = "stop"
  <2>1. v = StopReplied(x, k)
    BY <1>3, RepliedIs, FlightNames DEF MotorsNames, MotorsReplied
  <2> HIDE DEF v
  <2>2. Rid(x, v) /\ (v.bench.stopping => x.bench.stopping /\ ~k.here)
    BY <1>1, <2>1, StopRepliedIs
  <2>3. LaneRight(v)
    BY <1>1, <2>2 DEF Rid, LaneRight
  <2>4. ~Reader(j) /\ (Acting(v) \subseteq Acting(x)) /\ (Confirmed(x) => Confirmed(v))
    BY <1>3, <2>2 DEF Reader, Rid, Confirmed
  <2>5. Replying(x, v, j)
    BY <1>1, <1>3, <2>2, <2>3, <2>4 DEF Rid, Replying
  <2> QED
    BY <2>5 DEF v
<1>4. CASE j.who \in SensorsNames /\ j.here
  <2>1. x.tab = "sensors" /\ j.who # "stop"
    BY <1>1, <1>4, SensorsWho DEF JobOK, AtHome
  <2>2. v = SensorsReplied(x, k)
    BY <1>4, RepliedIs
  <2> HIDE DEF v
  <2>3. DOMAIN x.sens = SensFields /\ (Reader(k) <=> Reader(j))
    BY <1>1, <2>1 DEF LaneRight, Reader
  <2>4. Reader(k) => ~Reading(x) /\ Acting(x) = {} /\ ~x.sens.old
    BY <1>1, <2>1, <2>3 DEF Onto
  <2>5. /\ Sensed(x, v) /\ (Wants(v) => Wants(x))
        /\ ~Reader(k) /\ Confirmed(x) => Confirmed(v)
    BY <1>1, <2>1, <2>2, <2>3, <2>4, SensorsRepliedIs
  <2>6. Replying(x, v, j)
    BY <2>1, <2>3, <2>5 DEF Sensed, Base, Replying
  <2> QED
    BY <2>6 DEF v
<1>5. CASE j.who \in SensorsNames /\ ~j.here
  <2>1. v = SensorsReplied(x, k) /\ j.who # "stop"
    BY <1>5, RepliedIs, SensorsWho
  <2>2. v = x
    BY <1>5, <2>1 DEF SensorsReplied
  <2> HIDE DEF v
  <2> QED
    BY <1>1, <2>1, <2>2, GoesRefl, GoesReplying DEF v
<1>6. CASE j.who # "stop" /\ j.who \notin SensorsNames
  <2>1. Goes(x, v)
    BY <1>1, <1>2, <1>6, RepliedGoes
  <2> HIDE DEF v
  <2> QED
    BY <1>1, <1>6, <2>1, GoesReplying DEF v
<1> QED
  BY <1>3, <1>4, <1>5, <1>6

\* ... and all of it, to the next render.
Delivered(w, p, j) ==
  /\ Ready(p) /\ p.tab = w.tab /\ p.up = w.up
  /\ Wants(p) => Wants(w)
  /\ Acting(p) \ Acting(w) # {} => Confirmed(p)
  /\ j.who # "stop" => /\ HasStop(w) => HasStop(p)
                       /\ OnBench(w) => OnBench(p)

LEMMA RenderedIs ==
  ASSUME NEW w, Ready(w), NEW j, JobOK(w.tab, j), NEW x, Onto(w, x, j),
         NEW v, Replying(x, v, j)
  PROVE  Delivered(w, Effects(v), j) /\ Goes(v, Effects(v))
<1> DEFINE p == Effects(v)
<1>1. /\ x.tab = w.tab /\ x.up = w.up /\ x.bench = w.bench /\ x.loop = w.loop /\ x.sens = w.sens
  BY DEF Onto, Beside
<1>2. v.tab = "setup" => Synced(v)
  BY <1>1 DEF Replying, Ready, Settled, Synced
<1>3. Goes(v, p) /\ (w.tab = "setup" => Settled(p))
  BY <1>1, <1>2, EffectsIs DEF Replying
<1> HIDE DEF p
<1>4. Fine(p) /\ OneReader(p) /\ p.tab = w.tab /\ p.up = w.up
  BY <1>1, <1>3 DEF Goes, Calm, Base, Replying
<1>5. LaneRight(p)
  BY <1>3, LaneGoes DEF Replying
<1>6. Wants(p) => Wants(w)
  BY <1>3 DEF Goes, Calm, Replying, Onto
<1>7. Acting(p) \ Acting(w) # {} => Confirmed(p)
  <2>1. Confirmed(v) => Confirmed(p)
    BY <1>3 DEF Goes, Calm, Base, Confirmed
  <2>2. Acting(v) \ Acting(w) # {} => Confirmed(v)
    BY DEF Onto, Replying
  <2>3. Acting(p) \subseteq Acting(v)
    BY <1>3 DEF Goes, Calm
  <2> QED
    BY <2>1, <2>2, <2>3
<1>8. ASSUME p.tab = "motors", p.bench.stopping PROVE HereStop(p)
  <2>1. v.bench.stopping /\ (HereStop(v) => HereStop(p))
    BY <1>3, <1>8 DEF Goes, Calm, Base
  <2>2. x.bench.stopping /\ (j.who = "stop" => ~j.here)
    BY <2>1 DEF Replying, Base
  <2>3. HereStop(w)
    BY <1>1, <1>4, <1>8, <2>2 DEF Ready
  <2> QED
    BY <2>1, <2>2, <2>3 DEF Onto, Replying
<1>9. Ready(p)
  BY <1>1, <1>3, <1>4, <1>5, <1>6, <1>8 DEF Ready
<1>10. j.who # "stop" => (HasStop(w) => HasStop(p)) /\ (OnBench(w) => OnBench(p))
  BY <1>1, <1>3, <1>4 DEF Goes, Calm, Base, Onto, Replying, OnBench
<1> QED
  BY <1>3, <1>4, <1>6, <1>7, <1>9, <1>10 DEF Delivered, p

\* Before a motor starts, the bench takes it for one that may run.
LEMMA TestStarts ==
  ASSUME NEW x, Fine(x), NEW a, a.kind = "disarmed",
         NEW k, k.who = "test", k.mine, k.todo # <<>>, k.got = <<a>>, NEW line
  PROVE  LET v == Replied(x, k, line) IN v.bench.motion /\ v.bench.window
<1> DEFINE v == [x EXCEPT !.bench.arm = a.kind, !.bench.fresh = TRUE]
           o == [v EXCEPT !.bench.motion = TRUE, !.bench.still = FALSE, !.bench.window = TRUE]
<1>1. Replied(x, k, line) = MotorsReplied(x, k)
  BY RepliedIs, FlightNames DEF MotorsNames
<1>2. MotorsReplied(x, k) = RateConfirmed(BenchReplied(x, k), k)
  BY FlightNames DEF MotorsReplied
<1>3. Len(k.got) = 1 /\ Last(k) = a /\ ~Ended(k)
  BY DEF Last, Ended
<1>4. Opened(x, k) = x
  BY <1>3 DEF Opened
<1>5. BenchPatch(x, k) = o
  BY <1>3 DEF BenchPatch, StatusRead
<1>6. o.bench.motion /\ o.bench.window
  BY DEF Fine, BrowserFields, BenchFields
<1> HIDE DEF o
<1>7. BenchReplied(x, k) = o
  BY <1>3, <1>4, <1>5 DEF BenchReplied
<1>8. RateConfirmed(o, k) = o
  BY DEF RateConfirmed
<1> QED
  BY <1>1, <1>2, <1>6, <1>7, <1>8

LEMMA DeliverIs ==
  ASSUME NEW w, Ready(w), NEW j \in InGate(w), NEW v, Taken(w, v, j),
         NEW a, a.kind # "notsent" => w.wire # NoJob /\ j = w.wire
  PROVE  LET p == Deliver(w, v, j, a)
         IN Delivered(w, p, j) /\ (Starting(p) => Starting(w) \/ (Wants(w) /\ OnBench(p)))
<1> DEFINE rest == Rest(w, j, a)
           k == [j EXCEPT !.todo = rest, !.got = Append(@, a)]
           holds == /\ rest # <<>> /\ Head(rest).cls = "held"
                    /\ w.queue = <<>> \/ JobRank(Head(w.queue)) > 0
           blocked == rest # <<>> /\ Head(rest).cls = "start" /\ v.wire # NoJob
           line == Head(j.todo)
           n == [k EXCEPT !.todo = <<>>, !.got = Append(@, NotSent)]
           hx == [w EXCEPT !.wire = k]
           ex == Enter(v, k)
           p == Deliver(w, v, j, a)
           Good(x) == Delivered(w, x, j) /\ (Starting(x) => Starting(w) \/ (Wants(w) /\ OnBench(x)))
<1>1. Fine(w) /\ JobOK(w.tab, j)
  BY GateOK DEF Ready
<1>2. IsOn(j, rest, a, k)
  BY <1>1 DEF IsOn, JobOK, JobFields
<1>3. n.who = j.who /\ n.mine = j.mine /\ n.here = j.here
  BY <1>1 DEF JobOK, JobFields
<1>4. p = Effects(IF rest = <<>> THEN Replied(v, k, line)
                  ELSE IF holds THEN Replied(hx, k, line)
                  ELSE IF blocked THEN Replied(v, n, line)
                  ELSE Replied(ex, k, line))
  BY DEF Deliver
<1> HIDE DEF k, n, p, line
<1>5. ASSUME NEW x, Onto(w, x, j), NEW i, i.who = j.who, i.mine = j.mine, i.here = j.here
      PROVE  LET r == Replied(x, i, line) IN Delivered(w, Effects(r), j) /\ Goes(r, Effects(r)) /\ Replying(x, r, j)
  BY <1>1, <1>5, ReplyingIs, RenderedIs
<1>6. ASSUME NEW x, Onto(w, x, j), Starting(x) => Starting(w), NEW i, i.who = j.who, i.mine = j.mine, i.here = j.here
      PROVE  Good(Effects(Replied(x, i, line)))
  BY <1>5, <1>6 DEF Goes, Calm, Base, Replying
<1>7. Onto(w, v, j) /\ (Starting(v) => Starting(w))
  BY TakenIs DEF Taken
<1>8. k.who = j.who /\ k.mine = j.mine /\ k.here = j.here
  BY <1>2 DEF IsOn
<1> HIDE DEF Good
<1>9. ASSUME rest = <<>> PROVE Good(p)
  BY <1>4, <1>6, <1>7, <1>8, <1>9
<1>10. ASSUME holds PROVE Good(p)
  <2>1. a.kind # "notsent"
    <3>1. j.who \notin {"test", "stop"}
      <4>1. Head(<<StartLine>>).cls = "start"
        BY LineFacts, OneLine
      <4> QED
        BY <1>1, <1>10, <4>1, TestRest
    <3> QED
      BY <1>1, <1>10, <3>1, RestUnheld
  <2>2. w.wire # NoJob /\ j = w.wire
    BY <2>1
  <2>3. Onto(w, hx, j) /\ (Starting(hx) => Starting(w))
    BY <1>2, <1>10, <2>2, HeldIs
  <2> QED
    BY <1>4, <1>6, <1>8, <1>10, <2>3
<1>11. ASSUME rest # <<>>, ~holds, blocked PROVE Good(p)
  BY <1>3, <1>4, <1>6, <1>7, <1>11
<1>12. ASSUME rest # <<>>, ~holds, ~blocked PROVE Good(p)
  <2>1. p = Effects(Replied(ex, k, line))
    BY <1>4, <1>12
  <2>2. Onto(w, ex, j) /\ (Starting(ex) => Starting(w) \/ j.who = "test")
    BY <1>2, <1>12, AgainIs
  <2>3. CASE j.who # "test"
    BY <1>6, <1>8, <2>1, <2>2, <2>3
  <2>4. CASE j.who = "test"
    <3> DEFINE r == Replied(ex, k, line)
    <3>1. /\ k.todo = <<StartLine>> /\ k.mine /\ k.got = <<a>> /\ a.kind = "disarmed"
          /\ Eager(j) /\ w.tab = "motors" /\ w.up /\ w.bench.visible
      BY <1>1, <1>2, <1>12, <2>4, MoreIs
    <3>2. k.todo # <<>>
      BY <3>1, OneLine
    <3> HIDE DEF ex
    <3>3. Fine(ex)
      BY <2>2 DEF Onto
    <3>4. r.bench.motion /\ r.bench.window
      BY <1>8, <2>4, <3>1, <3>2, <3>3, TestStarts
    <3>5. Delivered(w, p, j) /\ Goes(r, p) /\ Replying(ex, r, j)
      BY <1>5, <1>8, <2>1, <2>2
    <3> HIDE DEF r
    <3>6. r.tab = w.tab /\ r.bench.visible
      BY <2>2, <2>4, <3>1, <3>5 DEF Onto, Beside, Replying, Base
    <3>7. OnBench(p)
      BY <3>1, <3>4, <3>5, <3>6 DEF OnBench, Goes, Calm, Base
    <3>8. Wants(w)
      BY <3>1 DEF Wants
    <3> QED
      BY <3>5, <3>7, <3>8 DEF Good
  <2> QED
    BY <2>3, <2>4
<1> QED
  BY <1>9, <1>10, <1>11, <1>12 DEF p, Good

\* The line on the wire is over, the next one is on it.
LEMMA PumpedTaken ==
  ASSUME NEW w, Ready(w), w.wire # NoJob
  PROVE  Taken(w, Pumped(w), w.wire) /\ w.wire \in InGate(w) /\ ~Starting(Pumped(w))
<1> DEFINE v == Pumped(w)
<1>1. /\ Fine(v) /\ Beside(w, v) /\ v.next = w.next
      /\ \A x \in Waits(w) : x # NoJob => x \in InGate(v)
      /\ InGate(v) \subseteq Waits(w)
      /\ ~Starting(v)
      /\ OneReader(v)
  BY PumpedIs DEF Ready
<1> HIDE DEF v
<1>2. ASSUME NEW x \in InGate(w), x.who = "stop", x # w.wire PROVE x \in InGate(v)
  <2>1. x \in StopJobs
    BY <1>2, GateOK DEF Ready, JobOK
  <2> QED
    BY <1>1, <1>2, <2>1, PagesAssumption DEF InGate
<1>3. Reader(w.wire) => ~Reading(v)
  BY <1>1 DEF Reading, Ready, OneReader, Waits
<1> QED
  BY <1>1, <1>2, <1>3 DEF Taken, InGate, v

\* A waiting line is over.
LEMMA WithoutSeq ==
  ASSUME NEW s, IsSeq(s), NEW i \in 1 .. Len(s)
  PROVE  LET c == SubSeq(s, 1, i - 1) \o SubSeq(s, i + 1, Len(s))
         IN /\ IsSeq(c) /\ Len(c) = Len(s) - 1 /\ Len(s) \in Nat
            /\ \A m \in 1 .. Len(c) : c[m] = IF m < i THEN s[m] ELSE s[m + 1]
<1> DEFINE a == SubSeq(s, 1, i - 1)
           b == SubSeq(s, i + 1, Len(s))
           c == a \o b
<1>1. Len(s) \in Nat /\ i \in Nat /\ i >= 1 /\ i <= Len(s)
  BY IsSeqFacts
<1>2. /\ IsSeq(a) /\ Len(a) = (IF i - 1 < 1 THEN 0 ELSE ((i - 1) - 1) + 1)
      /\ \A m \in 1 .. Len(a) : a[m] = s[(1 + m) - 1]
  <2>1. i - 1 \in Nat /\ 1 \in Nat /\ 1 <= 1 /\ i - 1 <= Len(s)
    BY <1>1
  <2> QED
    BY <2>1, CutSeq
<1>3. /\ IsSeq(b) /\ Len(b) = (IF Len(s) < i + 1 THEN 0 ELSE (Len(s) - (i + 1)) + 1)
      /\ \A m \in 1 .. Len(b) : b[m] = s[((i + 1) + m) - 1]
  <2>1. i + 1 \in Nat /\ 1 <= i + 1 /\ Len(s) <= Len(s)
    BY <1>1
  <2> QED
    BY <1>1, <2>1, CutSeq
<1> HIDE DEF a, b
<1>4. Len(a) = i - 1 /\ Len(b) = Len(s) - i
  BY <1>1, <1>2, <1>3
<1>5. /\ IsSeq(c) /\ Len(c) = Len(a) + Len(b)
      /\ \A m \in 1 .. Len(c) : c[m] = IF m <= Len(a) THEN a[m] ELSE b[m - Len(a)]
  BY <1>2, <1>3, JoinSeq
<1> HIDE DEF c
<1>6. Len(c) = Len(s) - 1
  BY <1>1, <1>4, <1>5
<1>7. ASSUME NEW m \in 1 .. Len(c) PROVE c[m] = IF m < i THEN s[m] ELSE s[m + 1]
  <2>1. CASE m < i
    <3>1. m \in 1 .. Len(a) /\ (1 + m) - 1 = m
      BY <1>1, <1>4, <2>1
    <3> QED
      BY <1>2, <1>5, <2>1, <3>1
  <2>2. CASE ~(m < i)
    <3>1. /\ m - Len(a) \in 1 .. Len(b) /\ ((i + 1) + (m - Len(a))) - 1 = m + 1 /\ ~(m <= Len(a))
      BY <1>1, <1>4, <1>6, <2>2
    <3> QED
      BY <1>3, <1>5, <2>2, <3>1
  <2> QED
    BY <2>1, <2>2
<1> QED
  BY <1>1, <1>5, <1>6, <1>7 DEF c, a, b

LEMMA QueueTaken ==
  ASSUME NEW w, Ready(w), NEW i \in 1 .. Len(w.queue)
  PROVE  LET v == [w EXCEPT !.queue = SubSeq(@, 1, i - 1) \o SubSeq(@, i + 1, Len(@))]
         IN Taken(w, v, w.queue[i]) /\ w.queue[i] \in InGate(w)
<1> DEFINE q == w.queue
           c == SubSeq(q, 1, i - 1) \o SubSeq(q, i + 1, Len(q))
           v == [w EXCEPT !.queue = c]
<1>1. Fine(w) /\ IsSeq(q) /\ OneReader(w)
  BY DEF Ready, Fine
<1>2. /\ IsSeq(c) /\ Len(c) = Len(q) - 1 /\ Len(q) \in Nat
      /\ \A m \in 1 .. Len(c) : c[m] = IF m < i THEN q[m] ELSE q[m + 1]
  BY <1>1, WithoutSeq
<1>3. Beside(w, v) /\ v.next = w.next /\ v.wire = w.wire /\ v.queue = c
  BY <1>1 DEF Fine, Beside, BrowserFields
<1> HIDE DEF v, c
<1>4. \A m \in 1 .. Len(c) : \E n \in 1 .. Len(q) : n # i /\ c[m] = q[n]
  BY <1>2
<1>5. \A n \in 1 .. Len(q) : n # i => \E m \in 1 .. Len(c) : c[m] = q[n]
  <2> SUFFICES ASSUME NEW n \in 1 .. Len(q), n # i PROVE \E m \in 1 .. Len(c) : c[m] = q[n]
    OBVIOUS
  <2>1. CASE n < i
    <3>1. n \in 1 .. Len(c)
      BY <1>2, <2>1
    <3> QED
      BY <1>2, <2>1, <3>1
  <2>2. CASE ~(n < i)
    <3>1. n - 1 \in 1 .. Len(c) /\ ~(n - 1 < i) /\ (n - 1) + 1 = n
      BY <1>2, <2>2
    <3> QED
      BY <1>2, <3>1
  <2> QED
    BY <2>1, <2>2
<1>6. Fine(v)
  BY <1>1, <1>2, <1>3, <1>4 DEF Fine, Beside
<1>7. OneReader(v)
  <2>1. ASSUME NEW m \in 1 .. Len(c), NEW n \in 1 .. Len(c), Reader(c[m]), Reader(c[n]) PROVE m = n
    <3> DEFINE At(l) == IF l < i THEN l ELSE l + 1
    <3>1. /\ At(m) \in 1 .. Len(q) /\ At(n) \in 1 .. Len(q)
          /\ c[m] = q[At(m)] /\ c[n] = q[At(n)]
      BY <1>2
    <3>2. At(m) = At(n)
      BY <1>1, <2>1, <3>1 DEF OneReader
    <3> QED
      BY <1>2, <3>2
  <2> QED
    BY <1>1, <1>3, <1>4, <2>1 DEF OneReader
<1>8. InGate(v) \subseteq InGate(w)
  BY <1>3, <1>4 DEF InGate, Waits
<1>9. \A x \in InGate(w) : x # q[i] => x \in InGate(v)
  BY <1>3, <1>5 DEF InGate, Waits
<1>10. Reader(q[i]) => ~Reading(v)
  BY <1>1, <1>3, <1>4 DEF OneReader, Reading, InGate, Waits
<1>11. Starting(v) => Starting(w)
  BY <1>3 DEF Starting, WireLine
<1>12. Taken(w, v, q[i])
  BY <1>3, <1>6, <1>7, <1>8, <1>9, <1>10, <1>11 DEF Taken
<1> QED
  BY <1>12 DEF v, c, InGate, Waits

-----------------------------------------------------------------------------
(* The controller: only a start line sets a motor spinning.                *)

Still(c, d) == "spin" \in DOMAIN d /\ (d.spin => c.spin)

LEMMA StillKeeps ==
  ASSUME NEW c, "spin" \in DOMAIN c
  PROVE  /\ Still(c, c)
         /\ \A k, v : Still(c, Stores(c, k, v).to)
         /\ \A kind : Still(c, Refuses(c, kind).to)
         /\ \A kind, val : Still(c, Reply(kind, val, c).to)
         /\ \A cal : Still(c, [c EXCEPT !.cal = cal])
         /\ Still(c, Corrects(c))
<1>1. Still(c, c)
  BY DEF Still
<1>3. ASSUME NEW k, NEW v PROVE Still(c, Stores(c, k, v).to)
  <2> DEFINE m == [c.ram EXCEPT ![k] = v]
             d == [c EXCEPT !.ram = m, !.dirty = TRUE]
  <2>1. Stores(c, k, v).to = d
    BY DEF Stores, Reply
  <2> HIDE DEF m
  <2>2. Still(c, d)
    BY DEF Still
  <2> QED
    BY <2>1, <2>2
<1>4. \A kind : Refuses(c, kind).to = [c EXCEPT !.dirty = TRUE]
  BY DEF Refuses, Reply
<1>5. \A kind : Still(c, Refuses(c, kind).to)
  BY <1>4 DEF Still
<1>6. \A kind, val : Still(c, Reply(kind, val, c).to)
  BY DEF Still, Reply
<1>7. \A cal : Still(c, [c EXCEPT !.cal = cal])
  BY DEF Still
<1>8. Still(c, Corrects(c))
  BY DEF Still, Corrects
<1> QED
  BY <1>1, <1>3, <1>5, <1>6, <1>7, <1>8

LEMMA SetStill ==
  ASSUME NEW c, "spin" \in DOMAIN c, NEW k, NEW v
  PROVE  Still(c, SetHandle(c, k, v).to)
<1> DEFINE Fits(r) == Still(c, r.to)
<1>1. /\ \A y : Fits(Stores(c, k, y))
      /\ \A kind : Fits(Refuses(c, kind))
      /\ \A kind, val : Fits(Reply(kind, val, c))
      /\ Fits(Stores(c, "direction", v)) /\ Fits(Stores(c, "rate", v)) /\ Fits(Stores(c, "map", v))
      /\ Fits(Stores(c, "dshot", v)) /\ Fits(Stores(c, "power", v))
  BY StillKeeps
<1>2. \A d : Still(c, d) => Fits(ModesReport(d)) /\ Fits(PowerReport(d))
  BY DEF ModesReport, PowerReport, Reply
<1>3. Still(c, Stores(c, k, v).to) /\ Still(c, Stores(c, "power", v).to)
  BY <1>1
<1>4. Fits(DirectionHandle(c, v))
  BY <1>1 DEF DirectionHandle
<1>5. Fits(NotchHandle(c, k, v))
  BY <1>1 DEF NotchHandle
<1>6. Fits(RpmHandle(c, k, v))
  BY <1>1 DEF RpmHandle
<1>7. Fits(LoopRateHandle(c, v))
  BY <1>1 DEF LoopRateHandle
<1>8. Fits(ReceiverHandle(c, v))
  BY <1>1 DEF ReceiverHandle
<1>9. Fits(ModesHandle(c, k, v))
  BY <1>1, <1>2, <1>3 DEF ModesHandle
<1>10. Fits(MountHandle(c, k, v))
  BY <1>1 DEF MountHandle
<1>11. Fits(PowerHandle(c, v))
  BY <1>1, <1>2, <1>3 DEF PowerHandle
<1>12. Set(k, v).op = "set" /\ Set(k, v).val = v
  BY DEF Set, Line
<1>13. Fits(BenchHandle(c, Set(k, v)))
  BY <1>1, <1>12 DEF BenchHandle
<1> HIDE DEF Fits
<1>14. Fits(SetHandle(c, k, v))
  BY <1>1, <1>4, <1>5, <1>6, <1>7, <1>8, <1>9, <1>10, <1>11, <1>13 DEF SetHandle
<1> QED
  BY <1>14 DEF Fits

LEMMA RepliesSpin ==
  ASSUME NEW c, "spin" \in DOMAIN c, NEW line, NEW r \in Replies(c, line)
  PROVE  /\ "spin" \in DOMAIN r.to
         /\ r.to.spin => c.spin \/ line.op = "start"
         /\ line.op = "stop" => ~r.to.spin
<1>1. CASE line.op = "start"
  <2>1. r = BenchHandle(c, line)
    BY <1>1 DEF Replies
  <2>2. "spin" \in DOMAIN [c EXCEPT !.spin = TRUE]
    OBVIOUS
  <2> QED
    BY <1>1, <2>1, <2>2 DEF BenchHandle, Reply
<1>2. CASE line.op = "stop"
  <2>1. r = Reply("ok", 0, [c EXCEPT !.spin = FALSE])
    BY <1>2 DEF Replies, BenchHandle
  <2> QED
    BY <1>2, <2>1 DEF Reply
<1>3. CASE line.op = "set"
  <2>1. r = SetHandle(c, line.key, line.val)
    BY <1>3 DEF Replies
  <2> QED
    BY <1>3, <2>1, SetStill DEF Still
<1>4. CASE line.op \notin {"start", "stop", "set"}
  <2> SUFFICES Still(c, r.to)
    BY <1>4 DEF Still
  <2>1. CASE line.op = "calibrate"
    <3>1. r \in CalibrationHandle(c, line.key)
      BY <2>1 DEF Replies
    <3>2. \E d : r.to = d /\ Still(c, d)
      BY <3>1, StillKeeps DEF CalibrationHandle, Reply
    <3> QED
      BY <3>2
  <2>2. CASE line.op = "save"
    <3>1. r \in SaveReplies(c)
      BY <2>2 DEF Replies
    <3> DEFINE f == [c EXCEPT !.flash = c.ram, !.dirty = FALSE]
               d == [c EXCEPT !.dirty = TRUE]
    <3>2. Still(c, c) /\ Still(c, f) /\ Still(c, d)
      BY DEF Still
    <3>3. r.to \in {c, f, d}
      BY <3>1 DEF SaveReplies, Reply
    <3> HIDE DEF f, d
    <3> QED
      BY <3>2, <3>3
  <2>3. CASE line.op = "defaults"
    <3>1. r = DefaultsHandle(c)
      BY <2>3 DEF Replies
    <3> QED
      BY <3>1 DEF DefaultsHandle, Reply, Still
  <2>4. CASE line.op \notin {"calibrate", "save", "defaults"}
    <3>1. r \in {StatusReply(c), GetHandle(c, line.key), ReceiverReport(c), ModesReport(c), PowerReport(c),
                 SensorsReport(c), LoopReport(c), StorageReply(c), Reply("text", 0, c)}
      BY <1>4, <2>4 DEF Replies
    <3>2. r.to = c
      BY <3>1 DEF StatusReply, GetHandle, ReceiverReport, ModesReport, PowerReport,
                 SensorsReport, LoopReport, StorageReply, Reply
    <3> QED
      BY <3>2, StillKeeps
  <2> QED
    BY <2>1, <2>2, <2>3, <2>4
<1> QED
  BY <1>1, <1>2, <1>3, <1>4

LEMMA FieldSpin ==
  ASSUME NEW c, "spin" \in DOMAIN c
  PROVE  /\ \A d \in Calibrates(c) : Still(c, d)
         /\ Still(c, PulseEnds(c)) /\ Still(c, FallsBack(c)) /\ Still(c, Toggles(c)) /\ Still(c, Unplugged(c))
         /\ ~Unplugged(c).spin
<1>1. \A d \in Calibrates(c) : Still(c, d)
  BY StillKeeps DEF Calibrates
<1>2. Still(c, PulseEnds(c)) /\ Still(c, FallsBack(c)) /\ Still(c, Toggles(c)) /\ Still(c, Unplugged(c))
  BY DEF Still, PulseEnds, FallsBack, Toggles, Unplugged
<1>3. ~Unplugged(c).spin
  BY DEF Unplugged
<1> QED
  BY <1>1, <1>2, <1>3

-----------------------------------------------------------------------------
(* Pages come and go.                                                      *)

LEMMA OffSensors ==
  ASSUME NEW w, Fine(w), w.tab # "sensors"
  PROVE  OneReader(w) /\ LaneRight(w)
<1>1. \A j : Reader(j) => ~JobOK(w.tab, j)
  BY SensorsWho DEF Reader, JobOK, AtHome
<1>2. /\ \A i \in 1 .. Len(w.queue) : JobOK(w.tab, w.queue[i])
      /\ w.wire # NoJob => JobOK(w.tab, w.wire)
  BY DEF Fine, WaitOK
<1> QED
  BY <1>1, <1>2 DEF OneReader, LaneRight

LEMMA LeaveIs ==
  ASSUME NEW w, Ready(w)
  PROVE  LET v == Leave(w)
         IN /\ v.up = w.up /\ Adrift(v)
            /\ HasStop(w) => HasStop(v)
            /\ w.up /\ OnBench(w) => HasStop(v)
            /\ Starting(v) => Starting(w)
<1> DEFINE s == CancelQueued(w, StorageNames)
           b == CASE w.tab = "motors" -> BenchLeave(s)
                  [] w.tab = "setup" -> SetupLeave(s)
                  [] OTHER -> s
           o == Orphan(b)
           v == [o EXCEPT !.next = NoJob]
<1>1. Leave(w) = v
  BY DEF Leave
<1>2. Goes(w, s)
  BY CancelGoes DEF Ready, StorageNames
<1> HIDE DEF s
<1>3. /\ Fine(s) /\ s.tab = w.tab /\ s.up = w.up /\ (HasStop(w) => HasStop(s)) /\ (Starting(s) => Starting(w))
      /\ (w.bench.motion => s.bench.motion)
      /\ (w.tab = "motors" /\ s.bench.stopping => HereStop(s))
  BY <1>2 DEF Goes, Calm, Base, Ready
<1>4. Rid(s, b) /\ (w.tab = "motors" /\ w.up /\ w.bench.motion => HasStop(b))
  <2>1. CASE w.tab = "motors"
    <3>1. b = BenchLeave(s)
      BY <2>1
    <3> HIDE DEF b
    <3> QED
      BY <1>3, <2>1, <3>1, BenchLeaveIs
  <2>2. CASE w.tab = "setup"
    <3>1. b = SetupLeave(s)
      BY <2>2
    <3> HIDE DEF b
    <3>2. Goes(s, b)
      BY <1>3, <2>2, <3>1, SetupLeaveGoes
    <3> QED
      BY <2>2, <3>2, RidTrans
  <2>3. CASE w.tab \notin {"motors", "setup"}
    <3>1. b = s
      BY <2>3
    <3> HIDE DEF b
    <3> QED
      BY <1>3, <2>3, <3>1, GoesRefl, RidTrans
  <2> QED
    BY <2>1, <2>2, <2>3
<1> HIDE DEF b
<1>5. Fine(b) /\ b.up = w.up /\ (HasStop(s) => HasStop(b)) /\ (Starting(b) => Starting(s))
  BY <1>3, <1>4 DEF Rid
<1>6. Beside(b, o) /\ Adrift(o) /\ (HasStop(b) => HasStop(o)) /\ (Starting(o) => Starting(b))
  BY <1>5, OrphanIs
<1> HIDE DEF o
<1>7. DOMAIN o = BrowserFields
  BY <1>5, <1>6 DEF Fine, Beside
<1>8. v.wire = o.wire /\ v.queue = o.queue /\ v.up = o.up
  BY <1>7 DEF BrowserFields
<1> HIDE DEF v
<1>9. Adrift(v) /\ (HasStop(o) => HasStop(v)) /\ (Starting(v) => Starting(o))
  BY <1>6, <1>8 DEF Adrift, HasStop, InGate, Waits, Starting, WireLine
<1> QED
  BY <1>1, <1>3, <1>4, <1>5, <1>6, <1>8, <1>9 DEF OnBench, Beside

\* A page has nothing under way when it mounts.
Landed(u, v) ==
  /\ Fine(v) /\ v.tab = u.tab /\ v.up = u.up /\ OneReader(v) /\ LaneRight(v) /\ ~Wants(v)
  /\ HasStop(u) => HasStop(v)
  /\ Starting(v) => Starting(u)
  /\ u.tab = "setup" => Synced(v)
  /\ v.tab = "motors" => ~v.bench.stopping

LEMMA GoesLanded ==
  ASSUME NEW u, NEW v, Rid(u, v), ~Wants(u), u.tab # "sensors", u.tab = "setup" => Synced(v),
         u.tab = "motors" => ~v.bench.stopping
  PROVE  Landed(u, v)
  BY OffSensors DEF Rid, Landed

LEMMA LandedEffects ==
  ASSUME NEW u, NEW v, Landed(u, v), u.tab \in Tabs
  PROVE  LET p == Effects(v)
         IN /\ Ready(p) /\ ~Wants(p) /\ p.up = u.up /\ p.tab = u.tab
            /\ HasStop(u) => HasStop(p)
            /\ Starting(p) => Starting(u)
<1> DEFINE p == Effects(v)
<1>1. Goes(v, p) /\ (v.tab = "setup" => Settled(p))
  BY EffectsIs DEF Landed
<1> HIDE DEF p
<1>2. LaneRight(p)
  BY <1>1, LaneGoes DEF Landed
<1>3. /\ Fine(p) /\ OneReader(p) /\ p.tab = u.tab /\ p.up = u.up /\ ~Wants(p)
      /\ p.bench.stopping = v.bench.stopping
      /\ HasStop(u) => HasStop(p)
      /\ Starting(p) => Starting(u)
  BY <1>1 DEF Goes, Calm, Base, Landed
<1>4. Ready(p)
  BY <1>1, <1>2, <1>3 DEF Ready, Landed
<1> QED
  BY <1>3, <1>4 DEF p

LEMMA FreshIs ==
  ASSUME NEW w, Adrift(w), NEW t
  PROVE  LET v == [BrowserFirst(w.up) EXCEPT !.wire = w.wire, !.queue = w.queue, !.tab = t]
         IN /\ Fine(v) /\ v.tab = t /\ v.up = w.up /\ OneReader(v) /\ ~Wants(v) /\ ~v.bench.stopping
            /\ HasStop(v) <=> HasStop(w)
            /\ Starting(v) <=> Starting(w)
<1> DEFINE v == [BrowserFirst(w.up) EXCEPT !.wire = w.wire, !.queue = w.queue, !.tab = t]
<1>1. /\ DOMAIN v = BrowserFields /\ v.wire = w.wire /\ v.queue = w.queue /\ v.next = NoJob
      /\ v.tab = t /\ v.up = w.up /\ v.bench = BenchInitial /\ v.loop = SetupInitial
  BY DEF BrowserFirst, BrowserFields
<1> HIDE DEF v
<1>2. DOMAIN v.bench = BenchFields /\ DOMAIN v.loop = LoopFields /\ v.bench.stopping = FALSE
  <2>1. DOMAIN BenchInitial = BenchFields /\ BenchInitial.stopping = FALSE
    BY DEF BenchInitial, BenchFields
  <2>2. DOMAIN SetupInitial = LoopFields
    BY DEF SetupInitial, LoopFields
  <2> QED
    BY <1>1, <2>1, <2>2
<1>3. Fine(v)
  BY <1>1, <1>2 DEF Fine, Adrift
<1>4. OneReader(v)
  BY <1>1 DEF OneReader, Reader, Adrift
<1>5. \A j \in InGate(v) : ~Eager(j)
  BY <1>1 DEF InGate, Waits, Adrift, Eager
<1>6. ~Wants(v)
  BY <1>1, <1>5 DEF Wants, NextWaits
<1>7. (HasStop(v) <=> HasStop(w)) /\ (Starting(v) <=> Starting(w))
  BY <1>1 DEF HasStop, InGate, Waits, Starting, WireLine
<1> QED
  BY <1>1, <1>2, <1>3, <1>4, <1>6, <1>7 DEF v

LEMMA MountIs ==
  ASSUME NEW w, Adrift(w), NEW t \in Tabs
  PROVE  LET p == Mount(w, t)
         IN /\ Ready(p) /\ ~Wants(p) /\ p.up = w.up
            /\ HasStop(w) => HasStop(p)
            /\ Starting(p) => Starting(w)
<1> DEFINE u == [BrowserFirst(w.up) EXCEPT !.wire = w.wire, !.queue = w.queue, !.tab = t]
           n == [u EXCEPT !.sens = SensorsInitial]
           v == CASE t = "motors"   -> MotorsMount(u)
                  [] t = "filters"  -> FiltersMount(u)
                  [] t = "setup"    -> SetupMount(u)
                  [] t = "receiver" -> ReceiverReset(u)
                  [] t = "rates"    -> RatesLoad(u)
                  [] t = "modes"    -> ModesReset(u)
                  [] t = "sensors"  -> SensorsReset(n)
                  [] t = "power"    -> PowerReset(u)
<1>1. Mount(w, t) = Effects(v)
  BY DEF Mount
<1>2. /\ Fine(u) /\ u.tab = t /\ u.up = w.up /\ OneReader(u) /\ ~Wants(u) /\ ~u.bench.stopping
      /\ HasStop(u) <=> HasStop(w)
      /\ Starting(u) <=> Starting(w)
  BY FreshIs
<1> HIDE DEF u
<1>3. Landed(u, v)
  <2>1. ASSUME Goes(u, v), t \notin {"sensors", "motors"}, t = "setup" => Synced(v) PROVE Landed(u, v)
    BY <1>2, <2>1, RidTrans, GoesLanded
  <2>2. CASE t = "motors"
    <3>1. v = MotorsMount(u)
      BY <2>2
    <3> HIDE DEF v
    <3> QED
      BY <1>2, <2>2, <3>1, MotorsMountIs, GoesLanded
  <2>3. CASE t = "filters"
    <3>1. v = FiltersMount(u)
      BY <2>3
    <3> HIDE DEF v
    <3> QED
      BY <1>2, <2>1, <2>3, <3>1, FiltersAsks
  <2>4. CASE t = "setup"
    <3>1. v = SetupMount(u)
      BY <2>4
    <3> HIDE DEF v
    <3> QED
      BY <1>2, <2>1, <2>4, <3>1, SetupMountIs
  <2>5. CASE t = "receiver"
    <3>1. v = ReceiverReset(u)
      BY <2>5
    <3> HIDE DEF v
    <3> QED
      BY <1>2, <2>1, <2>5, <3>1, ReceiverResetGoes
  <2>6. CASE t = "rates"
    <3>1. v = RatesLoad(u)
      BY <2>6
    <3> HIDE DEF v
    <3> QED
      BY <1>2, <2>1, <2>6, <3>1, RatesLoadGoes
  <2>7. CASE t = "modes"
    <3>1. v = ModesReset(u)
      BY <2>7
    <3> HIDE DEF v
    <3> QED
      BY <1>2, <2>1, <2>7, <3>1, ModesResetGoes
  <2>8. CASE t = "power"
    <3>1. v = PowerReset(u)
      BY <2>8
    <3> HIDE DEF v
    <3> QED
      BY <1>2, <2>1, <2>8, <3>1, PowerResetGoes
  <2>9. CASE t = "sensors"
    <3>1. v = SensorsReset(n)
      BY <2>9
    <3>2. /\ Shown(u, n) /\ n.bench = u.bench /\ n.loop = u.loop /\ DOMAIN n.sens = SensFields
      BY <1>2 DEF Shown, Fine, BrowserFields, SensorsInitial, SensFields
    <3> HIDE DEF v, n
    <3>3. Lanes(u, n) /\ (Wants(n) <=> Wants(u))
      BY <1>2, <3>2, PosesIs
    <3>4. Fine(n) /\ n.tab = "sensors" /\ OneReader(n)
      BY <1>2, <2>9, <3>2, <3>3 DEF Lanes, Shown
    <3>5. Sensed(n, v) /\ ~Wants(v)
      BY <3>1, <3>2, <3>4, SensorsResetIs
    <3>6. Landed(u, v)
      BY <1>2, <2>9, <3>3, <3>5 DEF Sensed, Lanes, Base, Landed
    <3> QED
      BY <3>6
  <2> QED
    BY <2>2, <2>3, <2>4, <2>5, <2>6, <2>7, <2>8, <2>9 DEF Tabs
<1> HIDE DEF v
<1> QED
  BY <1>1, <1>2, <1>3, LandedEffects

LEMMA LinkSet ==
  ASSUME NEW w, Fine(w), NEW b
  PROVE  LET d == [w EXCEPT !.up = b]
         IN /\ Fine(d) /\ d.up = b /\ d.tab = w.tab /\ d.bench = w.bench /\ d.loop = w.loop /\ d.sens = w.sens
            /\ OneReader(d) <=> OneReader(w)
            /\ Wants(d) <=> Wants(w)
            /\ HasStop(d) <=> HasStop(w)
            /\ Starting(d) <=> Starting(w)
<1> DEFINE d == [w EXCEPT !.up = b]
<1>1. /\ DOMAIN d = BrowserFields /\ d.wire = w.wire /\ d.queue = w.queue /\ d.next = w.next
      /\ d.up = b /\ d.tab = w.tab /\ d.bench = w.bench /\ d.loop = w.loop /\ d.sens = w.sens
  BY DEF Fine, BrowserFields
<1> HIDE DEF d
<1>2. Fine(d)
  BY <1>1 DEF Fine
<1>3. (OneReader(d) <=> OneReader(w)) /\ (Starting(d) <=> Starting(w)) /\ (NextWaits(d) <=> NextWaits(w))
  BY <1>1 DEF OneReader, Starting, WireLine, NextWaits
<1>4. InGate(d) = InGate(w)
  BY <1>1 DEF InGate, Waits
<1> QED
  BY <1>1, <1>2, <1>3, <1>4 DEF d, Wants, HasStop

\* The gate drains.
LEMMA DrainedIs ==
  ASSUME NEW v, Fine(v), LaneRight(v), v.tab = "setup" => Synced(v), v.tab = "motors" => ~v.bench.stopping
  PROVE  LET x == [v EXCEPT !.wire = NoJob, !.queue = <<>>, !.next = NoJob]
         IN Landed(x, x) /\ ~Starting(x) /\ x.tab = v.tab /\ x.up = v.up
<1> DEFINE x == [v EXCEPT !.wire = NoJob, !.queue = <<>>, !.next = NoJob]
<1>1. /\ DOMAIN x = BrowserFields /\ x.wire = NoJob /\ x.queue = <<>> /\ x.next = NoJob
      /\ x.up = v.up /\ x.tab = v.tab /\ x.bench = v.bench /\ x.loop = v.loop /\ x.sens = v.sens
  BY DEF Fine, BrowserFields
<1> HIDE DEF x
<1>2. IsSeq(x.queue) /\ Len(x.queue) = 0
  BY <1>1 DEF IsSeq
<1>3. Fine(x)
  BY <1>1, <1>2 DEF Fine
<1>4. InGate(x) = {}
  BY <1>1, <1>2 DEF InGate, Waits
<1>5. ~Wants(x) /\ ~Starting(x) /\ Acting(x) = {} /\ ~Reading(x) /\ ~NextWaits(x)
  BY <1>1, <1>4 DEF Wants, NextWaits, Starting, WireLine, Acting, Reading
<1>6. OneReader(x)
  BY <1>1, <1>2 DEF OneReader
<1>7. LaneRight(x)
  BY <1>1, <1>5 DEF LaneRight
<1>8. x.tab = "setup" => Synced(x)
  BY <1>1 DEF Synced
<1> QED
  BY <1>1, <1>3, <1>5, <1>6, <1>7, <1>8 DEF Landed, x

LEMMA LostIs ==
  ASSUME NEW w, Ready(w)
  PROVE  LET p == Lost(w) IN Ready(p) /\ ~Wants(p) /\ ~p.up /\ ~Starting(p)
<1> DEFINE d == [w EXCEPT !.up = FALSE]
           v == CASE w.tab = "motors" -> MotorsLost(d)
                  [] w.tab = "filters" -> FiltersLost(d)
                  [] w.tab = "setup" -> SetupLost(d)
                  [] w.tab = "receiver" -> ReceiverReset(d)
                  [] w.tab = "rates" -> RatesLoad(d)
                  [] w.tab = "modes" -> ModesReset(d)
                  [] w.tab = "sensors" -> SensorsReset(d)
                  [] w.tab = "power" -> PowerReset(d)
           x == [v EXCEPT !.wire = NoJob, !.queue = <<>>, !.next = NoJob]
           Over == /\ Fine(v) /\ v.tab = w.tab /\ ~v.up /\ LaneRight(v) /\ (v.tab = "setup" => Synced(v))
                   /\ v.tab = "motors" => ~v.bench.stopping
<1>1. Lost(w) = Effects(x)
  BY DEF Lost
<1>2. Fine(d) /\ d.up = FALSE /\ d.tab = w.tab /\ OneReader(d) /\ d.sens = w.sens /\ w.tab \in Tabs
  BY LinkSet DEF Ready
<1> HIDE DEF d
<1>3. Over
  <2>1. ASSUME Goes(d, v), w.tab \notin {"sensors", "motors"}, w.tab = "setup" => Synced(v) PROVE Over
    BY <1>2, <2>1, OffSensors DEF Goes, Calm, Base
  <2>2. CASE w.tab = "motors"
    <3>1. v = MotorsLost(d)
      BY <2>2
    <3> HIDE DEF v
    <3> QED
      BY <1>2, <2>2, <3>1, MotorsLostIs, OffSensors DEF Rid
  <2>3. CASE w.tab = "filters"
    <3>1. v = FiltersLost(d)
      BY <2>3
    <3> HIDE DEF v
    <3>2. Goes(d, v)
      BY <1>2, <3>1, FiltersAsks
    <3> QED
      BY <2>1, <2>3, <3>2
  <2>4. CASE w.tab = "setup"
    <3>1. v = SetupLost(d)
      BY <2>4
    <3> HIDE DEF v
    <3> QED
      BY <1>2, <2>1, <2>4, <3>1, SetupLostIs
  <2>5. CASE w.tab = "receiver"
    <3>1. v = ReceiverReset(d)
      BY <2>5
    <3> HIDE DEF v
    <3> QED
      BY <1>2, <2>1, <2>5, <3>1, ReceiverResetGoes
  <2>6. CASE w.tab = "rates"
    <3>1. v = RatesLoad(d)
      BY <2>6
    <3> HIDE DEF v
    <3> QED
      BY <1>2, <2>1, <2>6, <3>1, RatesLoadGoes
  <2>7. CASE w.tab = "modes"
    <3>1. v = ModesReset(d)
      BY <2>7
    <3> HIDE DEF v
    <3> QED
      BY <1>2, <2>1, <2>7, <3>1, ModesResetGoes
  <2>8. CASE w.tab = "power"
    <3>1. v = PowerReset(d)
      BY <2>8
    <3> HIDE DEF v
    <3> QED
      BY <1>2, <2>1, <2>8, <3>1, PowerResetGoes
  <2>9. CASE w.tab = "sensors"
    <3>1. v = SensorsReset(d)
      BY <2>9
    <3> HIDE DEF v
    <3>2. DOMAIN d.sens = SensFields
      BY <1>2, <2>9 DEF Ready, LaneRight
    <3>3. Sensed(d, v)
      BY <1>2, <2>9, <3>1, <3>2, SensorsResetIs
    <3> QED
      BY <1>2, <2>9, <3>3 DEF Sensed, Base
  <2> QED
    BY <1>2, <2>2, <2>3, <2>4, <2>5, <2>6, <2>7, <2>8, <2>9 DEF Tabs
<1> HIDE DEF v
<1>4. Landed(x, x) /\ ~Starting(x) /\ x.tab = w.tab /\ ~x.up
  BY <1>3, DrainedIs
<1> HIDE DEF x
<1> QED
  BY <1>1, <1>2, <1>4, LandedEffects

\* A pair that ends in another link state is another pair.
LEMMA PairsApart == ASSUME NEW a, NEW b, NEW c, NEW d, a # c PROVE <<a, b>> # <<c, d>>
<1>1. <<a, b>>[1] = a /\ <<c, d>>[1] = c
  OBVIOUS
<1> QED
  BY <1>1

LEMMA ConnectedIs ==
  ASSUME NEW w, Ready(w), ~w.up
  PROVE  LET p == Connected(w) IN Ready(p) /\ ~Wants(p) /\ (Starting(p) => Starting(w))
<1> DEFINE u == [w EXCEPT !.up = TRUE]
           v == CASE w.tab = "motors" -> MotorsConnected(u)
                  [] w.tab = "filters" -> FiltersConnected(u)
                  [] w.tab = "receiver" -> ReceiverReset(u)
                  [] w.tab = "rates" -> RatesLoad(u)
                  [] w.tab = "modes" -> ModesReset(u)
                  [] w.tab = "sensors" -> SensorsReset(u)
                  [] w.tab = "power" -> PowerReset(u)
                  [] OTHER -> u
<1>1. Connected(w) = Effects(v)
  BY DEF Connected
<1>2. /\ Fine(u) /\ u.up = TRUE /\ u.tab = w.tab /\ OneReader(u) /\ u.sens = w.sens /\ u.loop = w.loop
      /\ w.tab \in Tabs /\ ~Wants(u)
      /\ Starting(u) <=> Starting(w)
  BY LinkSet DEF Ready
<1> HIDE DEF u
<1>3. Landed(u, v)
  <2>1. ASSUME Goes(u, v), w.tab \notin {"sensors", "motors", "setup"} PROVE Landed(u, v)
    BY <1>2, <2>1, RidTrans, GoesLanded
  <2>2. CASE w.tab = "motors"
    <3>1. v = MotorsConnected(u)
      BY <2>2
    <3> HIDE DEF v
    <3> QED
      BY <1>2, <2>2, <3>1, MotorsConnectedIs, GoesLanded
  <2>3. CASE w.tab = "filters"
    <3>1. v = FiltersConnected(u)
      BY <2>3
    <3> HIDE DEF v
    <3> QED
      BY <1>2, <2>1, <2>3, <3>1, FiltersAsks
  <2>4. CASE w.tab = "setup"
    <3>1. v = u
      BY <2>4
    <3> HIDE DEF v
    <3>2. w.loop.dep = <<w.up, w.loop.busy>>
      BY <2>4 DEF Ready, Settled
    <3>a. w.up # u.up
      BY <1>2
    <3>b. <<w.up, w.loop.busy>> # <<u.up, u.loop.busy>>
      BY <3>a, PairsApart
    <3>3. Synced(u)
      BY <1>2, <3>2, <3>b DEF Synced
    <3>4. Rid(u, u)
      BY <1>2, GoesRefl, RidTrans
    <3> QED
      BY <1>2, <2>4, <3>1, <3>3, <3>4, GoesLanded
  <2>5. CASE w.tab = "receiver"
    <3>1. v = ReceiverReset(u)
      BY <2>5
    <3> HIDE DEF v
    <3> QED
      BY <1>2, <2>1, <2>5, <3>1, ReceiverResetGoes
  <2>6. CASE w.tab = "rates"
    <3>1. v = RatesLoad(u)
      BY <2>6
    <3> HIDE DEF v
    <3> QED
      BY <1>2, <2>1, <2>6, <3>1, RatesLoadGoes
  <2>7. CASE w.tab = "modes"
    <3>1. v = ModesReset(u)
      BY <2>7
    <3> HIDE DEF v
    <3> QED
      BY <1>2, <2>1, <2>7, <3>1, ModesResetGoes
  <2>8. CASE w.tab = "power"
    <3>1. v = PowerReset(u)
      BY <2>8
    <3> HIDE DEF v
    <3> QED
      BY <1>2, <2>1, <2>8, <3>1, PowerResetGoes
  <2>9. CASE w.tab = "sensors"
    <3>1. v = SensorsReset(u)
      BY <2>9
    <3> HIDE DEF v
    <3>2. DOMAIN u.sens = SensFields
      BY <1>2, <2>9 DEF Ready, LaneRight
    <3>3. Sensed(u, v) /\ ~Wants(v)
      BY <1>2, <2>9, <3>1, <3>2, SensorsResetIs
    <3> QED
      BY <1>2, <2>9, <3>3 DEF Sensed, Base, Landed
  <2> QED
    BY <1>2, <2>2, <2>3, <2>4, <2>5, <2>6, <2>7, <2>8, <2>9 DEF Tabs
<1> HIDE DEF v
<1> QED
  BY <1>1, <1>2, <1>3, LandedEffects

-----------------------------------------------------------------------------
(* Steps of the browser.                                                   *)

\* The browser moves on from w to p by itself.
Browsed(w, p) ==
  /\ Ready(p) /\ p.up = w.up
  /\ Starting(p) => Starting(w)
  /\ HasStop(w) => HasStop(p)
  /\ w.up /\ OnBench(w) => OnBench(p) \/ HasStop(p)
  /\ Acting(p) \ Acting(w) # {} => Confirmed(p)

\* What StartStillWanted says of a step.
StillWanted ==
  /\ Starting(page') /\ ~Starting(page) => wanted
  /\ Acting(page') \ Acting(page) # {} => wanted' /\ Confirmed(page')

\* A step that keeps the invariant and starts nothing unwanted.
Right == PagesInv' /\ StillWanted

LEMMA BrowsedRight ==
  ASSUME PagesInv, NEW p, Browsed(page, p), Shows(p), tour' = tour, Wants(p) => wanted'
  PROVE  Right
<1>1. page' = p /\ fc' = fc /\ unstopped' = unstopped
  BY DEF Shows
<1>2. StopComes'
  BY <1>1 DEF PagesInv, StopComes, Browsed
<1>3. PagesInv'
  BY <1>1, <1>2 DEF PagesInv, Browsed
<1>4. Acting(p) \ Acting(page) # {} => Wants(p)
  BY UnwantedIs
<1> QED
  BY <1>1, <1>3, <1>4 DEF Right, StillWanted, Browsed

LEMMA ReadySynced ==
  ASSUME NEW w, Ready(w), NEW v, Goes(w, v)
  PROVE  v.tab = "setup" => Synced(v)
  BY DEF Ready, Goes, Calm, Base, Settled, Synced

LEMMA GoesBrowsed ==
  ASSUME NEW w, Ready(w), NEW v, Goes(w, v)
  PROVE  /\ LET p == Effects(v) IN Browsed(w, p) /\ (Wants(p) => Wants(w))
         /\ (v.tab = "setup" => Settled(v)) => Browsed(w, v) /\ (Wants(v) => Wants(w))
<1>1. ASSUME NEW p, Goes(w, p), p.tab = "setup" => Settled(p)
      PROVE  Browsed(w, p) /\ (Wants(p) => Wants(w))
  <2>1. LaneRight(p)
    BY <1>1, LaneGoes DEF Ready
  <2>2. Ready(p)
    BY <1>1, <2>1 DEF Ready, Goes, Calm, Base
  <2>3. OnBench(w) => OnBench(p)
    BY <1>1 DEF OnBench, Goes, Calm, Base
  <2> QED
    BY <1>1, <2>2, <2>3 DEF Browsed, Goes, Calm, Base
<1>2. v.tab = "setup" => Synced(v)
  BY ReadySynced
<1>3. Fine(v)
  BY DEF Goes
<1>4. Goes(v, Effects(v)) /\ (v.tab = "setup" => Settled(Effects(v)))
  BY <1>2, <1>3, EffectsIs
<1>5. Goes(w, Effects(v))
  BY <1>4, GoesTrans
<1>6. Effects(v).tab = v.tab
  BY <1>4 DEF Goes, Calm, Base
<1> QED
  BY <1>1, <1>4, <1>5, <1>6

LEMMA SensedBrowsed ==
  ASSUME NEW w, Ready(w), w.tab = "sensors", NEW v, Sensed(w, v)
  PROVE  /\ Browsed(w, v)
         /\ LET p == Effects(v) IN Browsed(w, p) /\ (Wants(p) => Wants(v))
<1>1. ASSUME NEW p, Sensed(w, p) PROVE Browsed(w, p)
  <2>1. p.tab = "sensors"
    BY <1>1 DEF Sensed, Base
  <2>2. Ready(p)
    BY <1>1, <2>1 DEF Ready, Sensed, Tabs
  <2> QED
    BY <1>1, <2>2 DEF Browsed, Sensed, Base, OnBench
<1>2. Fine(v) /\ v.tab = "sensors"
  BY DEF Sensed, Base
<1>3. Goes(v, Effects(v))
  BY <1>2, EffectsIs
<1>4. Sensed(w, Effects(v))
  BY <1>3, SensedGoes
<1> QED
  BY <1>1, <1>3, <1>4 DEF Goes, Calm

LEMMA HaltedBrowsed ==
  ASSUME NEW w, Ready(w), w.tab = "motors", NEW v, Halted(w, v)
  PROVE  LET p == Effects(v) IN Browsed(w, p) /\ ~Wants(p)
<1>1. /\ Fine(v) /\ v.tab = "motors" /\ v.up = w.up /\ ~Wants(v) /\ (v.bench.stopping => HereStop(v))
      /\ w.up \/ HasStop(w) => HasStop(v)
  BY DEF Halted, Rid
<1>2. Goes(v, Effects(v))
  BY <1>1, EffectsIs
<1> DEFINE p == Effects(v)
<1> HIDE DEF p
<1>3. /\ Fine(p) /\ p.tab = "motors" /\ p.up = w.up /\ (w.up \/ HasStop(w) => HasStop(p)) /\ ~Wants(p)
      /\ p.bench.stopping => HereStop(p)
  BY <1>1, <1>2 DEF p, Goes, Calm, Base
<1>4. OneReader(p) /\ LaneRight(p)
  BY <1>3, OffSensors
<1>5. Starting(p) => Starting(w)
  BY <1>2 DEF p, Goes, Calm, Base, Halted, Rid
<1>6. Acting(p) = {}
  BY <1>3, UnwantedIs
<1>7. Ready(p)
  BY <1>3, <1>4 DEF Ready, Tabs
<1> QED
  BY <1>3, <1>5, <1>6, <1>7 DEF p, Browsed

LEMMA BidsBrowsed ==
  ASSUME NEW w, Ready(w), w.tab = "motors", w.up, NEW v, Bids(w, v)
  PROVE  Browsed(w, Effects(v))
<1>1. Fine(v) /\ v.tab = "motors"
  BY DEF Bids, Base
<1>2. Goes(v, Effects(v))
  BY <1>1, EffectsIs
<1> DEFINE p == Effects(v)
<1> HIDE DEF p
<1>3. Bids(w, p)
  BY <1>2, BidsTrans DEF p
<1>4. Fine(p) /\ p.tab = "motors" /\ p.up = w.up
  BY <1>3 DEF Bids, Base
<1>5. OneReader(p) /\ LaneRight(p)
  BY <1>4, OffSensors
<1>6. Ready(p)
  BY <1>3, <1>4, <1>5 DEF Ready, Tabs, Bids, Base
<1> QED
  BY <1>3, <1>4, <1>6 DEF p, Browsed, Bids, Base, OnBench

-----------------------------------------------------------------------------
(* The steps: answers.                                                     *)

LEMMA DeliveredRight ==
  ASSUME PagesInv, tour' = tour, wanted' = wanted, NEW j, Delivered(page, page', j),
         Starting(page') => Starting(page) \/ (Wants(page) /\ OnBench(page')),
         "spin" \in DOMAIN fc', fc'.spin => fc.spin \/ Starting(page),
         unstopped => unstopped',
         j.who = "stop" => unstopped' \/ (~fc'.spin /\ ~Starting(page))
  PROVE  Right
<1> DEFINE w == page
           p == page'
<1>1. /\ Ready(w) /\ (Starting(w) => w.up) /\ (Wants(w) => wanted) /\ tour \in Tours
      /\ w.up /\ (fc.spin \/ Starting(w)) => unstopped \/ HasStop(w) \/ OnBench(w)
      /\ Wants(w) => w.up
  BY DEF PagesInv, StopComes, Ready
<1>2. /\ Ready(p) /\ p.up = w.up /\ (Wants(p) => Wants(w)) /\ (Acting(p) \ Acting(w) # {} => Confirmed(p))
      /\ j.who # "stop" => (HasStop(w) => HasStop(p)) /\ (OnBench(w) => OnBench(p))
  BY DEF Delivered
<1>3. Starting(p) => Starting(w) \/ (Wants(w) /\ OnBench(p))
  OBVIOUS
<1>4. Acting(p) \ Acting(w) # {} => Wants(p)
  BY UnwantedIs
<1> HIDE DEF w, p
<1>5. p.up /\ (fc'.spin \/ Starting(p)) => unstopped' \/ HasStop(p) \/ OnBench(p)
  BY <1>1, <1>2, <1>3 DEF w
<1>6. StopComes'
  BY <1>5 DEF p, StopComes
<1>7. PagesInv'
  BY <1>1, <1>2, <1>3, <1>6 DEF PagesInv, p
<1>8. StillWanted
  BY <1>1, <1>2, <1>3, <1>4 DEF StillWanted, p, w
<1> QED
  BY <1>7, <1>8 DEF Right

LEMMA StopHeads ==
  ASSUME NEW tab, NEW j, JobOK(tab, j)
  PROVE  /\ j.who = "stop" => Head(j.todo).op = "stop" /\ JobRank(j) = 0
         /\ Head(j.todo).op = "start" => j.who # "stop"
<1>1. j.who = "stop" => j.todo = <<StopLine>>
  BY DEF JobOK, StopJobs
<1>2. <<StopLine>>[1] = StopLine /\ Head(<<StopLine>>) = StopLine
  OBVIOUS
<1>3. j.who = "stop" => Head(j.todo) = StopLine
  BY <1>1, <1>2
<1>4. StopLine.op = "stop" /\ StopLine.cls = "urgent"
  BY LineFacts
<1>5. CmdRank("urgent") = 0
  BY DEF CmdRank
<1> QED
  BY <1>3, <1>4, <1>5 DEF JobRank

LEMMA SettleIs ==
  ASSUME NEW w, Ready(w), w.wire # NoJob, NEW a
  PROVE  LET p == Settle(w, a)
         IN Delivered(w, p, w.wire) /\ (Starting(p) => Starting(w) \/ (Wants(w) /\ OnBench(p)))
<1>1. Taken(w, Pumped(w), w.wire) /\ w.wire \in InGate(w)
  BY PumpedTaken
<1> QED
  BY <1>1, DeliverIs DEF Settle

LEMMA AnsweredRight == ASSUME PagesInv, Answered, tour' = tour PROVE Right
<1>1. PICK r \in Replies(fc, Head(page.wire.todo)) :
         fc' = r.to /\ page' = Settle(page, Answer(r.kind, r.val))
  BY DEF Answered
<1>2. /\ page.wire # NoJob /\ Ready(page) /\ Fine(page) /\ "spin" \in DOMAIN fc
      /\ wanted' = wanted /\ unstopped' = unstopped
  BY DEF Answered, PagesInv, Ready
<1>3. /\ Delivered(page, page', page.wire)
      /\ Starting(page') => Starting(page) \/ (Wants(page) /\ OnBench(page'))
  BY <1>1, <1>2, SettleIs
<1>4. JobOK(page.tab, page.wire)
  BY <1>2 DEF Fine
<1> DEFINE op == Head(page.wire.todo).op
<1>5. /\ page.wire.who = "stop" => op = "stop"
      /\ Starting(page) <=> op = "start"
  BY <1>2, <1>4, StopHeads DEF Starting, WireLine
<1>6. "spin" \in DOMAIN fc' /\ (fc'.spin => fc.spin \/ op = "start") /\ (op = "stop" => ~fc'.spin)
  BY <1>1, <1>2, RepliesSpin
<1> HIDE DEF op
<1> QED
  BY <1>2, <1>3, <1>5, <1>6, DeliveredRight

LEMMA TimedOutRight == ASSUME PagesInv, TimedOut, tour' = tour PROVE Right
<1> DEFINE line == Head(page.wire.todo)
<1>1. PICK c \in {fc} \cup {r.to : r \in Replies(fc, line)} : fc' = [c EXCEPT !.spin = @ /\ fc.spin]
  BY DEF TimedOut
<1>2. /\ page.wire # NoJob /\ Ready(page) /\ Fine(page) /\ "spin" \in DOMAIN fc
      /\ wanted' = wanted /\ unstopped' = (unstopped \/ line.op = "stop")
      /\ page' = Settle(page, Failed)
  BY DEF TimedOut, PagesInv, Ready
<1>3. /\ Delivered(page, page', page.wire)
      /\ Starting(page') => Starting(page) \/ (Wants(page) /\ OnBench(page'))
  BY <1>2, SettleIs
<1>4. JobOK(page.tab, page.wire)
  BY <1>2 DEF Fine
<1>5. page.wire.who = "stop" => line.op = "stop"
  BY <1>4, StopHeads
<1>6. "spin" \in DOMAIN c
  BY <1>2, RepliesSpin
<1>7. "spin" \in DOMAIN fc' /\ (fc'.spin => fc.spin)
  BY <1>1, <1>6
<1> HIDE DEF line
<1> QED
  BY <1>2, <1>3, <1>5, <1>7, DeliveredRight

LEMMA QueueTimeoutRight == ASSUME PagesInv, QueueTimeout, tour' = tour PROVE Right
<1>1. PICK i \in 1 .. Len(page.queue) :
         /\ JobRank(page.queue[i]) > 1
         /\ page' = Deliver(page, [page EXCEPT !.queue = SubSeq(@, 1, i - 1) \o SubSeq(@, i + 1, Len(@))],
                            page.queue[i], NotSent)
  BY DEF QueueTimeout
<1>2. /\ Ready(page) /\ Fine(page) /\ "spin" \in DOMAIN fc
      /\ wanted' = wanted /\ unstopped' = unstopped /\ fc' = fc
  BY DEF QueueTimeout, PagesInv, Ready
<1> DEFINE j == page.queue[i]
           v == [page EXCEPT !.queue = SubSeq(@, 1, i - 1) \o SubSeq(@, i + 1, Len(@))]
<1>3. Taken(page, v, j) /\ j \in InGate(page)
  BY <1>2, QueueTaken
<1>4. NotSent.kind = "notsent"
  BY DEF NotSent, Answer
<1> HIDE DEF v
<1>5. /\ Delivered(page, page', j)
      /\ Starting(page') => Starting(page) \/ (Wants(page) /\ OnBench(page'))
  BY <1>1, <1>2, <1>3, <1>4, DeliverIs DEF v
<1>6. JobOK(page.tab, j)
  BY <1>2, <1>3, GateOK
<1>7. j.who # "stop"
  BY <1>1, <1>6, StopHeads
<1> HIDE DEF j
<1> QED
  BY <1>2, <1>5, <1>7, DeliveredRight

-----------------------------------------------------------------------------
(* The steps: timers, and the Motors page.                                 *)

LEMMA GoesRight ==
  ASSUME PagesInv, tour' = tour, wanted => wanted', NEW v, Goes(page, v)
  PROVE  /\ Shows(Effects(v)) => Right
         /\ Shows(v) /\ (v.tab = "setup" => Settled(v)) => Right
<1>1. Ready(page) /\ (Wants(page) => wanted)
  BY DEF PagesInv
<1> QED
  BY <1>1, GoesBrowsed, BrowsedRight

LEMMA SensedRight ==
  ASSUME PagesInv, tour' = tour, page.tab = "sensors", NEW v, Sensed(page, v), Wants(v) => wanted',
         Shows(v) \/ Shows(Effects(v))
  PROVE  Right
<1>1. Ready(page)
  BY DEF PagesInv
<1> QED
  BY <1>1, SensedBrowsed, BrowsedRight

\* Only the bench's controls change.
LEMMA BenchBrowsed ==
  ASSUME NEW w, Ready(w), NEW v, Shown(w, v), v.loop = w.loop, v.sens = w.sens, DOMAIN v.bench = BenchFields,
         v.bench.stopping = w.bench.stopping
  PROVE  /\ Ready(v) /\ v.up = w.up /\ (Wants(v) <=> Wants(w)) /\ Acting(v) = Acting(w)
         /\ (Starting(v) <=> Starting(w)) /\ (HasStop(v) <=> HasStop(w))
         /\ (OnBench(w) => OnBench(v)) => Browsed(w, v)
<1>1. Fine(w) /\ DOMAIN v.loop = LoopFields
  BY DEF Ready, Fine
<1>2. /\ Fine(v)
      /\ HasStop(v) <=> HasStop(w)
      /\ HereStop(v) <=> HereStop(w)
      /\ Starting(v) <=> Starting(w)
      /\ Acting(v) = Acting(w)
      /\ Reading(v) <=> Reading(w)
      /\ OneReader(v) <=> OneReader(w)
      /\ NextWaits(v) <=> NextWaits(w)
      /\ Wants(v) <=> Wants(w)
  BY <1>1, ShownFine
<1>3. v.tab = w.tab /\ v.up = w.up
  BY DEF Shown
<1>4. LaneRight(v)
  BY <1>2, <1>3 DEF LaneRight, Ready
<1>5. v.tab = "setup" => Settled(v)
  BY <1>3 DEF Settled, Ready
<1>6. Ready(v)
  BY <1>2, <1>3, <1>4, <1>5 DEF Ready
<1> QED
  BY <1>2, <1>3, <1>6 DEF Browsed

LEMMA PageTimersRight == ASSUME PagesInv, PageTimers, tour' = tour PROVE Right
<1>1. Ready(page) /\ Fine(page) /\ wanted' = wanted
  BY DEF PagesInv, Ready, PageTimers
<1>2. CASE page.tab = "motors" /\ Shows(BenchPoll(page))
  <2>1. Goes(page, BenchPoll(page))
    BY <1>1, <1>2, BenchPollGoes
  <2>2. BenchPoll(page).tab = "motors"
    BY <1>2, <2>1 DEF Goes, Calm, Base
  <2> QED
    BY <1>1, <1>2, <2>1, <2>2, GoesRight
<1>3. CASE page.tab = "setup" /\ Shows(PollStatus(page))
  <2>1. Goes(page, PollStatus(page)) /\ KeptLoop(page, PollStatus(page))
    BY <1>1, <1>3, PollStatusGoes
  <2>2. PollStatus(page).up = page.up
    BY <2>1 DEF Goes, Calm, Base
  <2>3. Settled(page)
    BY <1>1, <1>3 DEF Ready
  <2>4. Settled(PollStatus(page))
    BY <2>1, <2>2, <2>3 DEF Settled, KeptLoop
  <2> QED
    BY <1>1, <1>3, <2>1, <2>4, GoesRight
<1>4. CASE page.tab = "receiver" /\ Shows(ReceiverPoll(page))
  <2>1. Goes(page, ReceiverPoll(page))
    BY <1>1, <1>4, ReceiverPollGoes
  <2>2. ReceiverPoll(page).tab = "receiver"
    BY <1>4, <2>1 DEF Goes, Calm, Base
  <2> QED
    BY <1>1, <1>4, <2>1, <2>2, GoesRight
<1>5. CASE page.tab = "modes" /\ Shows(PollSwitches(page))
  <2>1. Goes(page, PollSwitches(page))
    BY <1>1, <1>5, ModesAsks
  <2>2. PollSwitches(page).tab = "modes"
    BY <1>5, <2>1 DEF Goes, Calm, Base
  <2> QED
    BY <1>1, <1>5, <2>1, <2>2, GoesRight
<1>6. CASE page.tab = "power" /\ Shows(PollPower(page))
  <2>1. Goes(page, PollPower(page))
    BY <1>1, <1>6, PowerAsks
  <2>2. PollPower(page).tab = "power"
    BY <1>6, <2>1 DEF Goes, Calm, Base
  <2> QED
    BY <1>1, <1>6, <2>1, <2>2, GoesRight
<1>7. CASE page.tab = "sensors" /\ CanReadSensors(page) /\ Shows(ReadSensors(page))
  <2>1. DOMAIN page.sens = SensFields /\ OneReader(page)
    BY <1>1, <1>7 DEF Ready, LaneRight
  <2> DEFINE v == ReadSensors(page)
  <2>2. /\ Fine(v) /\ Base(page, v) /\ OneReader(v) /\ LaneRight(v)
        /\ (Wants(v) => Wants(page)) /\ Acting(v) = {}
    BY <1>1, <1>7, <2>1, ReadSensorsIs
  <2> HIDE DEF v
  <2>3. Wants(page) => page.up /\ wanted
    BY DEF PagesInv, Ready
  <2>4. Sensed(page, v)
    BY <2>2, <2>3 DEF Sensed, Base
  <2> QED
    BY <1>1, <1>7, <2>2, <2>3, <2>4, SensedRight DEF v
<1> QED
  BY <1>2, <1>3, <1>4, <1>5, <1>6, <1>7 DEF PageTimers

LEMMA WindowEnds ==
  ASSUME PagesInv, ~fc.spin, ~Starting(page), tour' = tour, wanted' = wanted,
         Shows([page EXCEPT !.bench.window = FALSE])
  PROVE  Right
<1> DEFINE v == [page EXCEPT !.bench.window = FALSE]
<1>1. Ready(page) /\ Fine(page)
  BY DEF PagesInv, Ready
<1>2. /\ Shown(page, v) /\ v.loop = page.loop /\ v.sens = page.sens /\ DOMAIN v.bench = BenchFields
      /\ v.bench.stopping = page.bench.stopping
  BY <1>1 DEF Fine, Shown, BrowserFields, BenchFields
<1>a. page' = v /\ fc' = fc /\ unstopped' = unstopped
  BY DEF Shows
<1> HIDE DEF v
<1>3. Ready(v) /\ (Wants(v) <=> Wants(page)) /\ Acting(v) = Acting(page) /\ ~Starting(v)
  BY <1>1, <1>2, BenchBrowsed
<1>4. PagesInv'
  BY <1>3, <1>a DEF PagesInv, StopComes
<1> QED
  BY <1>3, <1>4, <1>a DEF Right, StillWanted

LEMMA AgesRight == ASSUME PagesInv, Ages, tour' = tour PROVE Right
<1>1. /\ Ready(page) /\ Fine(page) /\ wanted' = wanted /\ (page.tab = "setup" => Settled(page))
      /\ Wants(page) => wanted /\ page.up
  BY DEF PagesInv, Ready, Ages
<1>2. CASE Shows([page EXCEPT !.bench.fresh = FALSE])
  <2> DEFINE v == [page EXCEPT !.bench.fresh = FALSE]
  <2>1. /\ Shown(page, v) /\ v.loop = page.loop /\ v.sens = page.sens /\ DOMAIN v.bench = BenchFields
        /\ v.bench.stopping = page.bench.stopping
        /\ OnBench(page) => OnBench(v)
    BY <1>1 DEF Fine, Shown, BrowserFields, BenchFields, OnBench
  <2> HIDE DEF v
  <2>2. Browsed(page, v) /\ (Wants(v) <=> Wants(page))
    BY <1>1, <2>1, BenchBrowsed
  <2> QED
    BY <1>1, <1>2, <2>2, BrowsedRight DEF v
<1>3. ASSUME NEW v, Same(page, v), Shows(v) PROVE Right
  <2>1. Goes(page, v)
    BY <1>1, <1>3, SameGoes
  <2>2. v.tab = "setup" => Settled(v)
    BY <1>1, <1>3 DEF Same, Shown, Settled
  <2> QED
    BY <1>1, <1>3, <2>1, <2>2, GoesRight
<1>4. CASE Shows([page EXCEPT !.recv.fresh = FALSE])
  <2>1. Same(page, [page EXCEPT !.recv.fresh = FALSE])
    BY <1>1 DEF Fine, Same, Shown, BrowserFields
  <2> QED
    BY <1>3, <1>4, <2>1
<1>5. CASE Shows(SwitchesExpire(page))
  <2>1. Same(page, SwitchesExpire(page))
    BY <1>1 DEF Fine, Same, Shown, BrowserFields, SwitchesExpire
  <2> QED
    BY <1>3, <1>5, <2>1
<1>6. CASE page.tab = "sensors" /\ Shows(Effects([page EXCEPT !.sens.fresh = FALSE]))
  <2> DEFINE v == [page EXCEPT !.sens.fresh = FALSE]
  <2>1. DOMAIN page.sens = SensFields /\ OneReader(page) /\ LaneRight(page)
    BY <1>1, <1>6 DEF Ready, LaneRight
  <2>2. Poses(page, v)
    BY <1>1, <2>1, PosesAre
  <2> HIDE DEF v
  <2>3. Sensed(page, v) /\ (Wants(v) <=> Wants(page))
    BY <1>1, <2>1, <2>2, PosesSensed
  <2> QED
    BY <1>1, <1>6, <2>3, SensedRight DEF v
<1>7. CASE ~fc.spin /\ ~WireLine(page, "start") /\ Shows([page EXCEPT !.bench.window = FALSE])
  BY <1>1, <1>7, WindowEnds DEF Starting
<1> QED
  BY <1>2, <1>4, <1>5, <1>6, <1>7 DEF Ages

LEMMA RequestExpiresRight == ASSUME PagesInv, RequestExpires, tour' = tour PROVE Right
<1>1. Ready(page) /\ Fine(page) /\ wanted' = wanted /\ Shows(Expire(page))
  BY DEF PagesInv, Ready, RequestExpires
<1>2. Goes(page, Expire(page)) /\ Beside(page, Expire(page))
  BY <1>1, ExpireIs, ExpireGoes DEF Turned
<1>3. Expire(page).tab = "setup" => Settled(Expire(page))
  BY <1>1, <1>2 DEF Beside, Ready, Settled
<1> QED
  BY <1>1, <1>2, <1>3, GoesRight

LEMMA MotorsSteps ==
  ASSUME PagesInv, tour' = tour
  PROVE  /\ StartTest => Right
         /\ SetRate => Right
         /\ StopTest => Right
         /\ TickProps => Right
         /\ TickStationary => Right
         /\ Hide => Right
         /\ Show => Right
<1>1. /\ Ready(page) /\ Fine(page) /\ (Wants(page) => wanted)
      /\ page.tab = "motors" /\ page.bench.stopping => HereStop(page)
  BY DEF PagesInv, Ready
<1>2. ASSUME StartTest PROVE Right
  <2>1. page.tab = "motors" /\ page.up /\ wanted' /\ Shows(Effects(BenchTest(page)))
    BY <1>2 DEF StartTest, CanAct, BenchEnabled, BenchReady
  <2>2. Bids(page, BenchTest(page))
    BY <1>1, <2>1, BenchTestBids
  <2> QED
    BY <1>1, <2>1, <2>2, BidsBrowsed, BrowsedRight
<1>3. ASSUME SetRate PROVE Right
  <2>1. /\ page.tab = "motors" /\ wanted' = wanted
        /\ Shows(Effects(BenchSetRate(page, 1 - page.bench.rate)))
    BY <1>3 DEF SetRate, Does
  <2>2. Goes(page, BenchSetRate(page, 1 - page.bench.rate))
    BY <1>1, <2>1, BenchSetRateGoes
  <2> QED
    BY <2>1, <2>2, GoesRight
<1>4. ASSUME NEW v, page.tab = "motors", Halted(page, v), Shows(Effects(v)) PROVE Right
  BY <1>1, <1>4, HaltedBrowsed, BrowsedRight
<1>5. ASSUME StopTest PROVE Right
  <2>1. page.tab = "motors" /\ Shows(Effects(BenchStop(page)))
    BY <1>5 DEF StopTest, Withdraws
  <2>2. Halted(page, BenchStop(page))
    BY <1>1, <2>1, BenchStopIs
  <2> QED
    BY <1>4, <2>1, <2>2
<1>6. ASSUME TickProps PROVE Right
  <2>1. CASE page.bench.props
    <3> DEFINE v == ConfirmProps(page, FALSE)
    <3>1. page.tab = "motors" /\ Shows(Effects(v))
      BY <1>6, <2>1 DEF TickProps, Withdraws
    <3>2. ~Wants(v) /\ (Goes(page, v) \/ Halted(page, v))
      BY <1>1, <3>1, ConfirmPropsIs
    <3> HIDE DEF v
    <3>3. CASE Goes(page, v)
      <4>1. v.tab = "motors" /\ Fine(v)
        BY <3>1, <3>3 DEF Goes, Calm, Base
      <4>2. Goes(v, Effects(v))
        BY <4>1, EffectsIs
      <4>3. ~Wants(Effects(v))
        BY <3>2, <4>2 DEF Goes, Calm
      <4> QED
        BY <1>1, <3>1, <3>3, <4>3, GoesBrowsed, BrowsedRight
    <3> QED
      BY <1>4, <3>1, <3>2, <3>3
  <2>2. CASE ~page.bench.props
    <3> DEFINE v == ConfirmProps(page, TRUE)
    <3>1. page.tab = "motors" /\ Shows(v) /\ wanted' = wanted
      BY <1>6, <2>2 DEF TickProps
    <3>2. Goes(page, v)
      BY <1>1, <3>1, ConfirmPropsIs
    <3> HIDE DEF v
    <3>3. v.tab = "motors"
      BY <3>1, <3>2 DEF Goes, Calm, Base
    <3> QED
      BY <3>1, <3>2, <3>3, GoesRight
  <2> QED
    BY <2>1, <2>2
<1>7. ASSUME NEW v, Shown(page, v), v.loop = page.loop, v.sens = page.sens, DOMAIN v.bench = BenchFields,
             v.bench.stopping = page.bench.stopping, OnBench(page) => OnBench(v), Shows(v), wanted' = wanted
      PROVE  Right
  <2>1. Browsed(page, v) /\ (Wants(v) <=> Wants(page))
    BY <1>1, <1>7, BenchBrowsed
  <2> QED
    BY <1>1, <1>7, <2>1, BrowsedRight
<1>8. ASSUME TickStationary PROVE Right
  <2> DEFINE v == ConfirmStationary(page, ~page.bench.still)
  <2>1. Shows(v) /\ wanted' = wanted /\ ~OnBench(page)
    BY <1>8 DEF TickStationary, CanConfirmStationary, OnBench
  <2>2. /\ Shown(page, v) /\ v.loop = page.loop /\ v.sens = page.sens /\ DOMAIN v.bench = BenchFields
        /\ v.bench.stopping = page.bench.stopping
    BY <1>1 DEF Fine, Shown, BrowserFields, BenchFields, ConfirmStationary
  <2> QED
    BY <1>7, <2>1, <2>2
<1>9. ASSUME Hide PROVE Right
  <2>1. page.tab = "motors" /\ Shows(Effects(BenchHide(page)))
    BY <1>9 DEF Hide, Withdraws
  <2>2. Halted(page, BenchHide(page))
    BY <1>1, <2>1, BenchHideIs
  <2> QED
    BY <1>4, <2>1, <2>2
<1>10. ASSUME Show PROVE Right
  <2> DEFINE v == BenchShow(page)
  <2>1. Shows(v) /\ wanted' = wanted /\ ~OnBench(page)
    BY <1>10 DEF Show, OnBench
  <2>2. /\ Shown(page, v) /\ v.loop = page.loop /\ v.sens = page.sens /\ DOMAIN v.bench = BenchFields
        /\ v.bench.stopping = page.bench.stopping
    BY <1>1 DEF Fine, Shown, BrowserFields, BenchFields, BenchShow
  <2> QED
    BY <1>7, <2>1, <2>2
<1> QED
  BY <1>2, <1>3, <1>5, <1>6, <1>8, <1>9, <1>10

-----------------------------------------------------------------------------
(* The steps: the panels and the other pages.                              *)

LEMMA DoesRight ==
  ASSUME PagesInv, tour' = tour, NEW tab, NEW v, Does(tab, v), page.tab = tab => Goes(page, v)
  PROVE  Right
<1>1. page.tab = tab /\ Shows(Effects(v)) /\ wanted' = wanted
  BY DEF Does
<1> QED
  BY <1>1, GoesRight

LEMMA PanelSteps ==
  ASSUME PagesInv, tour' = tour
  PROVE  /\ SetDirection \/ ReadAgain \/ SetPoles => Right
         /\ SaveStorage \/ RefreshStorage \/ ExportStorage => Right
<1>1. Fine(page)
  BY DEF PagesInv, Ready
<1>2. /\ \A v : Goes(page, ApplyDirection(page, v)) /\ Goes(page, ApplyPoles(page, v))
      /\ Goes(page, DirectionRead(page))
  BY <1>1, PanelAsks
<1>3. Goes(page, StorageSave(page)) /\ Goes(page, StorageRefresh(page)) /\ Goes(page, StorageExport(page))
  BY <1>1, StorageAsks
<1>4. SetDirection => Right
  BY <1>2, DoesRight DEF SetDirection
<1>5. ReadAgain => Right
  BY <1>2, DoesRight DEF ReadAgain
<1>6. SetPoles => Right
  BY <1>2, DoesRight DEF SetPoles
<1>7. SaveStorage => Right
  BY <1>3, DoesRight DEF SaveStorage
<1>8. RefreshStorage => Right
  BY <1>3, DoesRight DEF RefreshStorage
<1>9. ExportStorage => Right
  BY <1>3, DoesRight DEF ExportStorage
<1> QED
  BY <1>4, <1>5, <1>6, <1>7, <1>8, <1>9

LEMMA FiltersSteps ==
  ASSUME PagesInv, tour' = tour
  PROVE  SaveFilters \/ DefaultFilters \/ ReloadFilters => Right
<1>1. Fine(page)
  BY DEF PagesInv, Ready
<1>2. /\ \A next, sound : Goes(page, FiltersSave(page, next, sound))
      /\ Goes(page, FiltersDefaults(page)) /\ Goes(page, FiltersLoad(page))
  BY <1>1, FiltersAsks, FiltersLoadGoes
<1>3. SaveFilters => Right
  BY <1>2, DoesRight DEF SaveFilters
<1>4. DefaultFilters => Right
  BY <1>2, DoesRight DEF DefaultFilters
<1>5. ReloadFilters => Right
  BY <1>2, DoesRight DEF ReloadFilters
<1> QED
  BY <1>3, <1>4, <1>5

LEMMA SetupSteps ==
  ASSUME PagesInv, tour' = tour
  PROVE  SelectLoopRate \/ SaveLoopRate \/ RereadLoopRate \/ RefreshSetup \/ DefaultSettings => Right
<1>1. Fine(page)
  BY DEF PagesInv, Ready
<1>2. page.tab = "setup" =>
         /\ \A v : Goes(page, SelectRate(page, v))
         /\ Goes(page, ReadRate(page)) /\ Goes(page, SaveRate(page))
         /\ Goes(page, Refresh(page)) /\ Goes(page, RestoreDefaults(page))
  BY <1>1, SetupAsks
<1>3. SelectLoopRate => Right
  BY <1>2, DoesRight DEF SelectLoopRate
<1>4. SaveLoopRate => Right
  BY <1>2, DoesRight DEF SaveLoopRate
<1>5. RereadLoopRate => Right
  BY <1>2, DoesRight DEF RereadLoopRate
<1>6. RefreshSetup => Right
  BY <1>2, DoesRight DEF RefreshSetup
<1>7. DefaultSettings => Right
  BY <1>2, DoesRight DEF DefaultSettings
<1> QED
  BY <1>3, <1>4, <1>5, <1>6, <1>7

LEMMA ReportSteps ==
  ASSUME PagesInv, tour' = tour
  PROVE  /\ ApplyReceiverMap \/ ApplyPowerConfig \/ ReloadRates \/ PreviewRates \/ SaveRateDraft => Right
         /\ RereadModes \/ AssignSwitch \/ ApplyModeRange \/ SelectControlMode => Right
<1>1. Fine(page)
  BY DEF PagesInv, Ready
<1>2. \A v : page.tab = "receiver" => Goes(page, ApplyMap(page, v))
  BY <1>1, ApplyMapGoes
<1>3. \A v : Goes(page, ApplyPower(page, v)) /\ Goes(page, SaveRates(page, v)) /\ Goes(page, SelectMode(page, v))
  BY <1>1, PowerAsks, RatesAsks, ModesAsks
<1>4. /\ Goes(page, RatesLoad(page)) /\ Goes(page, LocalPreview(page)) /\ Goes(page, RefreshModes(page))
      /\ Goes(page, AssignAux(page)) /\ Goes(page, ApplyRange(page))
  BY <1>1, RatesLoadGoes, RatesAsks, ModesAsks
<1>5. ApplyReceiverMap => Right
  BY <1>2, DoesRight DEF ApplyReceiverMap
<1>6. ApplyPowerConfig => Right
  BY <1>3, DoesRight DEF ApplyPowerConfig
<1>7. ReloadRates => Right
  BY <1>4, DoesRight DEF ReloadRates
<1>8. PreviewRates => Right
  BY <1>4, DoesRight DEF PreviewRates
<1>9. SaveRateDraft => Right
  BY <1>3, DoesRight DEF SaveRateDraft
<1>10. RereadModes => Right
  BY <1>4, DoesRight DEF RereadModes
<1>11. AssignSwitch => Right
  BY <1>4, DoesRight DEF AssignSwitch
<1>12. ApplyModeRange => Right
  BY <1>4, DoesRight DEF ApplyModeRange
<1>13. SelectControlMode => Right
  BY <1>3, DoesRight DEF SelectControlMode
<1> QED
  BY <1>5, <1>6, <1>7, <1>8, <1>9, <1>10, <1>11, <1>12, <1>13

LEMMA SensorsSteps ==
  ASSUME PagesInv, tour' = tour
  PROVE  CalibrateSensors \/ EditMount \/ DiscardMount \/ ApplyMount \/ TickSensors \/ HideSensors \/ ShowSensors
           => Right
<1> SUFFICES ASSUME page.tab = "sensors" PROVE
       /\ CalibrateSensors => Right
       /\ ApplyMount => Right
       /\ EditMount \/ DiscardMount \/ TickSensors => Right
       /\ HideSensors \/ ShowSensors => Right
  BY DEF CalibrateSensors, EditMount, DiscardMount, ApplyMount, TickSensors, HideSensors, ShowSensors, OnSensors
<1>1. /\ Fine(page) /\ OneReader(page) /\ LaneRight(page) /\ DOMAIN page.sens = SensFields
      /\ Wants(page) => page.up /\ wanted
  BY DEF PagesInv, Ready, LaneRight
<1>2. ASSUME NEW j, NEW who \in ActionNames, NEW s, s # <<>>, Plain(who, s), IsNew(j, who, s), page.up,
             Asks(Act(page, j))
      PROVE  Right
  <2>1. who \in SensorsNames /\ who # "sensors"
    BY DEF SensorsNames, ActionNames
  <2>2. WaitOK(page.tab, j) /\ j.here /\ j.who = who
    BY <1>1, <1>2, <2>1, AskSensors
  <2>3. Sensed(page, Act(page, j))
    BY <1>1, <1>2, <2>2, ActIs
  <2> QED
    BY <1>2, <2>3, SensedRight DEF Asks
<1>3. ASSUME CalibrateSensors PROVE Right
  <2>1. PICK what \in {"gyro", "level", "start", "face", "apply", "cancel"} :
            CanCommand(page, what) /\ Asks(Calibrate(page, what))
    BY <1>3 DEF CalibrateSensors
  <2>2. page.up
    BY <2>1 DEF CanCommand, Allowed
  <2> DEFINE s == <<Line("calibrate", what, 0, "write")>>
             j == Job("calibrate", s)
  <2>3. Plain("calibrate", s) /\ s # <<>>
    BY SensorsLines
  <2>4. IsNew(j, "calibrate", s)
    BY JobIsNew
  <2>5. Asks(Act(page, j))
    BY <2>1 DEF Calibrate
  <2> HIDE DEF s, j
  <2> QED
    BY <1>2, <2>2, <2>3, <2>4, <2>5 DEF ActionNames
<1>4. ASSUME ApplyMount PROVE Right
  <2>1. page.up /\ Asks(ApplyMounting(page))
    BY <1>4 DEF ApplyMount, CanCommand, Allowed
  <2> DEFINE s == <<Set("roll", page.sens.draft % 2), Set("yaw", page.sens.draft \div 2)>>
             j == Job("mount", s)
  <2>3. Plain("mount", s) /\ s # <<>>
    BY SensorsLines
  <2>4. IsNew(j, "mount", s)
    BY JobIsNew
  <2>5. Asks(Act(page, j))
    BY <2>1 DEF ApplyMounting
  <2> HIDE DEF s, j
  <2> QED
    BY <1>2, <2>1, <2>3, <2>4, <2>5 DEF ActionNames
<1>5. ASSUME NEW v, Poses(page, v), Shows(v) \/ Shows(Effects(v)), wanted' = wanted PROVE Right
  <2>1. Sensed(page, v) /\ (Wants(v) <=> Wants(page))
    BY <1>1, <1>5, PosesSensed
  <2> QED
    BY <1>1, <1>5, <2>1, SensedRight
<1>6. ASSUME EditMount \/ DiscardMount PROVE Right
  <2>1. /\ \/ Shows(Effects(EditMounting(page)))
           \/ Shows(Effects(DiscardMounting(page)))
        /\ wanted' = wanted
    BY <1>6 DEF EditMount, DiscardMount, Does
  <2>2. Poses(page, EditMounting(page)) /\ Poses(page, DiscardMounting(page))
    BY <1>1, PosesAre DEF EditMounting, DiscardMounting
  <2> QED
    BY <1>5, <2>1, <2>2
<1>7. ASSUME TickSensors PROVE Right
  <2>1. /\ Shows([page EXCEPT !.sens.props = ~@]) \/ Shows([page EXCEPT !.sens.still = ~@])
        /\ wanted' = wanted
    BY <1>7 DEF TickSensors
  <2>2. Poses(page, [page EXCEPT !.sens.props = ~@]) /\ Poses(page, [page EXCEPT !.sens.still = ~@])
    BY <1>1, PosesAre
  <2> QED
    BY <1>5, <2>1, <2>2
<1>8. ASSUME HideSensors \/ ShowSensors PROVE Right
  <2>1. PICK b \in BOOLEAN : Shows(Effects(SensorsVisible(page, b)))
    BY <1>8 DEF HideSensors, ShowSensors
  <2>2. Sensed(page, SensorsVisible(page, b)) /\ ~Wants(SensorsVisible(page, b))
    BY <1>1, SensorsVisibleIs
  <2> QED
    BY <2>1, <2>2, SensedRight
<1> QED
  BY <1>3, <1>4, <1>6, <1>7, <1>8

-----------------------------------------------------------------------------
(* The steps: the shell, the cable and the field.                          *)

LEMMA PoweredUp ==
  ASSUME tour \in Tours, NEW c \in tour.controllers
  PROVE  "spin" \in DOMAIN c /\ ~c.spin
  BY PagesAssumption DEF PowersUp, Booted

LEMMA SwitchTabRight == ASSUME PagesInv, SwitchTab, tour' = tour PROVE Right
<1>1. Ready(page) /\ tour \in Tours
  BY DEF PagesInv
<1>2. PICK t \in tour.tabs : Shows(Mount(Leave(page), t))
  BY DEF SwitchTab
<1>3. t \in Tabs
  BY <1>1, <1>2, PagesAssumption
<1> DEFINE v == Leave(page)
           p == Mount(v, t)
<1>4. /\ v.up = page.up /\ Adrift(v)
      /\ HasStop(page) => HasStop(v)
      /\ page.up /\ OnBench(page) => HasStop(v)
      /\ Starting(v) => Starting(page)
  BY <1>1, LeaveIs
<1> HIDE DEF v
<1>5. /\ Ready(p) /\ ~Wants(p) /\ p.up = v.up
      /\ HasStop(v) => HasStop(p)
      /\ Starting(p) => Starting(v)
  BY <1>3, <1>4, MountIs
<1> HIDE DEF p
<1>6. Acting(p) = {}
  BY <1>5, UnwantedIs
<1>7. Browsed(page, p)
  BY <1>4, <1>5, <1>6 DEF Browsed
<1> QED
  BY <1>2, <1>5, <1>7, BrowsedRight DEF p, v

LEMMA LinkLostRight == ASSUME PagesInv, LinkLost, tour' = tour PROVE Right
<1>1. /\ Ready(page) /\ tour \in Tours /\ "spin" \in DOMAIN fc
      /\ page' = Lost(page) /\ fc' = fc
  BY DEF PagesInv, LinkLost
<1>2. Ready(page') /\ ~Wants(page') /\ ~page'.up /\ ~Starting(page')
  BY <1>1, LostIs
<1>3. Acting(page') = {}
  BY <1>2, UnwantedIs
<1> QED
  BY <1>1, <1>2, <1>3 DEF Right, PagesInv, StopComes, StillWanted

LEMMA LinkUpRight == ASSUME PagesInv, LinkUp, tour' = tour PROVE Right
<1>1. /\ Ready(page) /\ tour \in Tours /\ "spin" \in DOMAIN fc
      /\ page' = Connected(page) /\ ~page.up /\ ~Starting(page)
  BY DEF PagesInv, LinkUp
<1>2. Ready(page') /\ ~Wants(page') /\ (Starting(page') => Starting(page))
  BY <1>1, ConnectedIs
<1>3. "spin" \in DOMAIN fc' /\ ~fc'.spin
  BY <1>1, PoweredUp, FieldSpin DEF LinkUp, Still
<1>4. Acting(page') = {}
  BY <1>2, UnwantedIs
<1> QED
  BY <1>1, <1>2, <1>3, <1>4 DEF Right, PagesInv, StopComes, StillWanted

LEMMA FieldRight == ASSUME PagesInv, FieldChanges, tour' = tour PROVE Right
<1>1. /\ Ready(page) /\ "spin" \in DOMAIN fc
      /\ page' = page /\ wanted' = wanted /\ unstopped' = unstopped
  BY DEF PagesInv, FieldChanges
<1>2. Still(fc, fc')
  BY <1>1, FieldSpin DEF FieldChanges, Field
<1> QED
  BY <1>1, <1>2 DEF Right, PagesInv, StopComes, StillWanted, Still

LEMMA StepRight == ASSUME PagesInv, PagesNext PROVE Right
<1>1. tour' = tour /\ Step
  BY DEF PagesNext
<1>2. CASE Answered \/ TimedOut \/ QueueTimeout
  BY <1>1, <1>2, AnsweredRight, TimedOutRight, QueueTimeoutRight
<1>3. CASE PageTimers \/ Ages \/ RequestExpires
  BY <1>1, <1>3, PageTimersRight, AgesRight, RequestExpiresRight
<1>4. CASE StartTest \/ SetRate \/ StopTest \/ TickProps \/ TickStationary \/ Hide \/ Show
  BY <1>1, <1>4, MotorsSteps
<1>5. CASE SetDirection \/ ReadAgain \/ SetPoles \/ SaveStorage \/ RefreshStorage \/ ExportStorage
  BY <1>1, <1>5, PanelSteps
<1>6. CASE SaveFilters \/ DefaultFilters \/ ReloadFilters
  BY <1>1, <1>6, FiltersSteps
<1>7. CASE SelectLoopRate \/ SaveLoopRate \/ RereadLoopRate \/ RefreshSetup \/ DefaultSettings
  BY <1>1, <1>7, SetupSteps
<1>8. CASE \/ ApplyReceiverMap \/ ApplyPowerConfig \/ ReloadRates \/ PreviewRates \/ SaveRateDraft
           \/ RereadModes \/ AssignSwitch \/ ApplyModeRange \/ SelectControlMode
  BY <1>1, <1>8, ReportSteps
<1>9. CASE CalibrateSensors \/ EditMount \/ DiscardMount \/ ApplyMount \/ TickSensors \/ HideSensors \/ ShowSensors
  BY <1>1, <1>9, SensorsSteps
<1>10. CASE SwitchTab \/ LinkLost \/ LinkUp \/ FieldChanges
  BY <1>1, <1>10, SwitchTabRight, LinkLostRight, LinkUpRight, FieldRight
<1> QED
  BY <1>1, <1>2, <1>3, <1>4, <1>5, <1>6, <1>7, <1>8, <1>9, <1>10 DEF Step

-----------------------------------------------------------------------------
(* The theorems.                                                           *)

\* A session begins with one page mounted over a connected controller.
LEMMA PagesStart == ASSUME PagesInit PROVE PagesInv
<1>1. PICK t \in tour.tabs : page = Mount(BrowserFirst(TRUE), t)
  BY DEF PagesInit
<1>2. tour \in Tours /\ fc \in tour.controllers
  BY DEF PagesInit
<1>3. t \in Tabs
  BY <1>1, <1>2, PagesAssumption
<1> DEFINE w == BrowserFirst(TRUE)
<1>4. w.up = TRUE /\ w.wire = NoJob /\ w.queue = <<>>
  BY DEF BrowserFirst
<1> HIDE DEF w
<1>5. IsSeq(<<>>) /\ Len(<<>>) = 0
  BY DEF IsSeq
<1>6. Adrift(w) /\ ~Starting(w)
  BY <1>4, <1>5 DEF Adrift, Starting, WireLine
<1>7. Ready(page) /\ ~Wants(page) /\ ~Starting(page)
  BY <1>1, <1>3, <1>6, MountIs DEF w
<1>8. "spin" \in DOMAIN fc /\ ~fc.spin
  BY <1>2, PoweredUp
<1> QED
  BY <1>2, <1>7, <1>8 DEF PagesInv, StopComes

\* The inductive invariant of the pages: what they have in the gate is well formed and at home on
\* the tab shown, a spinning or starting motor has a stop on its way or a bench that knows of it,
\* what is still wanted was asked for, the telemetry is read once at a time and never beside an
\* action, and the poller of the Setup page runs with what that page shows.
THEOREM PagesInvariant == PagesSpec => []PagesInv
<1>1. PagesInit => PagesInv
  BY PagesStart
<1>2. PagesInv /\ [PagesNext]_pagesVars => PagesInv'
  <2> SUFFICES ASSUME PagesInv, [PagesNext]_pagesVars PROVE PagesInv'
    OBVIOUS
  <2>1. CASE PagesNext
    BY <2>1, StepRight DEF Right
  <2>2. CASE UNCHANGED pagesVars
    BY <2>2 DEF pagesVars, PagesInv, StopComes
  <2> QED
    BY <2>1, <2>2
<1> QED
  BY <1>1, <1>2, PTL DEF PagesSpec

\* StopsWhenLeft (benchController.ts): whatever the user, the link and the other pages do in between,
\* a motor that spins while the Motors page is hidden or left has a stop in the gate, unless a stop
\* went unanswered.
THEOREM StopsWhenLeftAlways == PagesSpec => []StopsWhenLeft
<1>1. PagesInv => StopsWhenLeft
  BY DEF PagesInv, StopComes, StopsWhenLeft, HasStop, OnBench
<1> QED
  BY <1>1, PagesInvariant, PTL

\* PollerResumes (loopRatePoller.ts, SetupPage.tsx): no outcome of an action, no reply that comes
\* late and no reconnect leaves the Setup page connected, idle and without its poll.
THEOREM PollerResumesAlways == PagesSpec => []PollerResumes
<1>1. PagesInv => PollerResumes
  BY DEF PagesInv, Ready, Settled, PollerResumes
<1> QED
  BY <1>1, PagesInvariant, PTL

\* StartStillWanted (benchController.ts, requestLane.ts): a motor start goes on the wire, and a
\* calibration or a change of the mounting into the gate, only while the user still wants it; the
\* latter on the page shown and with both confirmations standing.
THEOREM StartStillWantedAlways == PagesSpec => StartStillWanted
<1>1. PagesInv /\ [PagesNext]_pagesVars
        => [/\ WireLine(page', "start") /\ ~WireLine(page, "start") => wanted
            /\ Acting(page') \ Acting(page) # {}
                 => wanted' /\ page'.tab = "sensors" /\ page'.sens.visible /\ page'.sens.props
                    /\ page'.sens.still]_pagesVars
  <2> SUFFICES ASSUME PagesInv, PagesNext
               PROVE  /\ WireLine(page', "start") /\ ~WireLine(page, "start") => wanted
                      /\ Acting(page') \ Acting(page) # {}
                           => wanted' /\ page'.tab = "sensors" /\ page'.sens.visible /\ page'.sens.props
                              /\ page'.sens.still
    OBVIOUS
  <2> QED
    BY StepRight DEF Right, StillWanted, Starting, Confirmed
<1> QED
  BY <1>1, PagesInvariant, PTL DEF PagesSpec, StartStillWanted
=============================================================================
