---------------------------- MODULE FlightSafety ----------------------------
(***************************************************************************)
(* The arming and receiver-loss core of the flight controller: the         *)
(* LINK_STATISTICS gate and frame freshness (drivers/rx.c), the staged     *)
(* failsafe (flight/failsafe.c), the arming state (flight/arming.c), the   *)
(* configured ARM switch (flight/mode_range.c) and the cascade that uses   *)
(* them (sched/tasks.c), run by the cooperative main loop                  *)
(* (sched/scheduler.c, app/main.c) under the hardware watchdog.            *)
(*                                                                         *)
(* Everything runs in one loop, so the only concurrency is the clock: the  *)
(* millisecond counter advances between any two steps of the loop, and two *)
(* steps of one pass may read different times.                             *)
(***************************************************************************)
EXTENDS Millis

CONSTANTS
    RX_TIMEOUT,   \* FAILSAFE_RX_TIMEOUT_MS, also rx_frame_fresh's 250 ms
    STATS_STALE,  \* RX_LINK_STATS_STALE_MS
    FS_ACTION,       \* g_action: "DROP", "HOLD" or "LAND"
    HOLD_MS,      \* g_hold_ms
    LAND_MS,      \* g_land_ms
    WATCHDOG,     \* IWDG period: the longest the main loop may take
    Setups        \* what may be connected: subsets of Peers

\* A USB host that sends CLI lines; a receiver that sends LINK_STATISTICS.
Peers == {"usb", "stats"}

ASSUME FlightAssumption ==
    /\ RX_TIMEOUT \in Nat /\ STATS_STALE \in Nat
    /\ HOLD_MS \in Nat /\ LAND_MS \in Nat /\ WATCHDOG \in Nat
    /\ FS_ACTION \in {"DROP", "HOLD", "LAND"}
    /\ Setups \subseteq SUBSET Peers

\* 2^32 ms is far beyond the longest silence an armed craft can survive.
ASSUME ClockAssumption == RX_TIMEOUT + HOLD_MS + 4 * WATCHDOG < Wrap

VARIABLES
    now,           \* hal_millis()
    feed,          \* when the main loop last fed the watchdog
    pc,            \* the next step of the main loop
    peers,         \* what is connected, from power-up on
    \* drivers/rx.c
    stats,         \* "none" until stats are seen, else "good" or "lost"
    stats_ms,      \* g_stats_ms
    fresh,         \* g_fresh
    last_frame,    \* g_last_frame (= g_last_rx_ms of failsafe.c)
    arm_sw,        \* the accepted ARM channel against the configured range
    \* flight/failsafe.c
    never_seen,    \* g_never_seen
    stage,         \* g_stage
    stage_ms,      \* g_stage_ms
    \* flight/arming.c, drivers/gyro.c, drivers/dshot.c
    armed,         \* g_arm = ARM_ARMED
    healthy,       \* g_healthy and g_gyro_ok, latched FALSE until reboot
    output_ok,     \* g_output_ok, latched FALSE until reboot
    manual,        \* g_manual: a manual calibration session is active
    \* sched/tasks.c
    sample_ok,     \* the last gyro sample was usable
    arm_low_seen,  \* the inactive-switch witness
    rev_changed,   \* mode_range_arm_revision() # arm_revision_seen
    bench,         \* bench_motor # 0 or switch_enabled
    pending,       \* bench_output_pending: the last frame drove a motor
    \* history
    released,      \* the ARM switch was seen inactive, under the current range,
                   \* since the last disarm
    unspent,       \* the witness has outlived an arming by the CLI
    lapped         \* the clock has wrapped around since last_frame

timeVars  == <<now, feed, pc>>
rxVars    == <<stats, stats_ms, fresh, last_frame, arm_sw>>
fsVars    == <<never_seen, stage, stage_ms>>
hwVars    == <<healthy, output_ok, manual>>
witness   == <<arm_low_seen, unspent>>
taskVars  == <<sample_ok, witness, rev_changed, bench, pending>>
histVars  == <<released, lapped>>
vars      == <<peers, timeVars, rxVars, fsVars, armed, hwVars, taskVars, histVars>>

Stages    == {"IDLE", "HOLD", "PROCEDURE"}
Switch    == {"active", "inactive", "invalid"}
\* The steps of one pass of main(): scheduler_run is rx, failsafe, slot and
\* then either the cascade (pid, mixer) or the background (bgrx, bgcli,
\* bgfailsafe); main's own cli_poll follows.
Steps     == {"rx", "failsafe", "slot", "pid", "mixer",
              "bgrx", "bgcli", "bgfailsafe", "cli"}

Since(t) == Elapsed(now, t)

Usb == "usb" \in peers

-----------------------------------------------------------------------------
(* State predicates of the source.                                         *)

\* link_gate() = RX_LOSS_NONE
GateOpen == \/ stats = "none"
            \/ /\ Since(stats_ms) <= STATS_STALE
               /\ stats = "good"

rx_frame_fresh == fresh /\ Since(last_frame) <= RX_TIMEOUT

\* failsafe_tick()'s test, and the mutants of it.
rx_lost_early == Since(last_frame) >= RX_TIMEOUT
rx_lost_if_armed == armed /\ Since(last_frame) > RX_TIMEOUT
rx_lost == Since(last_frame) > RX_TIMEOUT

failsafe_active == never_seen \/ stage # "IDLE"

\* failsafe_command_override() returns true
fs_flying == stage # "IDLE"

\* mode_range_arm_input() returns true; arm_requested is its out-parameter
arm_input_valid == rx_frame_fresh /\ arm_sw # "invalid"
arm_requested   == arm_input_valid /\ arm_sw = "active"

\* A revision change forgets the witness before it is used; the mutant keeps it.
witness_stale == arm_low_seen
witness_kept == arm_low_seen /\ ~rev_changed

bench_motor_active == bench \/ pending

dshot_is_healthy == output_ok

\* arming_try_arm() succeeds; ready: the mode's gyro readiness and a low throttle
CanArm(ready) == rx_frame_fresh /\ ready /\ healthy /\ ~failsafe_active

-----------------------------------------------------------------------------
(* Arming transitions with the history they leave.                         *)

\* arming_disarm()
Disarm == /\ armed' = FALSE
          /\ UNCHANGED lapped
          /\ released' = IF armed THEN arm_sw = "inactive" ELSE released

KeepArm == UNCHANGED <<armed, histVars>>

-----------------------------------------------------------------------------
(* The main loop's steps.                                                  *)

Init == /\ peers \in Setups
        /\ now = 0 /\ feed = 0 /\ pc = "rx"
        /\ stats = "none" /\ stats_ms = 0 /\ fresh = FALSE /\ last_frame = 0
        /\ arm_sw = "inactive"
        /\ never_seen = TRUE /\ stage = "IDLE" /\ stage_ms = 0
        /\ armed = FALSE /\ healthy \in BOOLEAN /\ output_ok = TRUE /\ manual = FALSE
        /\ sample_ok = FALSE /\ arm_low_seen = FALSE /\ rev_changed = TRUE
        /\ bench = FALSE /\ pending = FALSE
        /\ released = FALSE /\ unspent = FALSE /\ lapped = FALSE

\* The clock advances between any two steps, never past the watchdog.
Tick == /\ Since(feed) < WATCHDOG
        /\ now' = After(now)
        /\ lapped' = (lapped \/ After(now) = last_frame)
        /\ UNCHANGED <<feed, pc, rxVars, fsVars, armed, hwVars, taskVars, released>>

\* The watchdog fires or the CLI asked for a reboot: motors off, app_init
\* re-probes the gyro.
Reset == /\ Since(feed) >= WATCHDOG \/ (Usb /\ pc = "cli")
         /\ now' = 0 /\ feed' = 0 /\ pc' = "rx"
         /\ stats' = "none" /\ stats_ms' = 0 /\ fresh' = FALSE
         /\ last_frame' = 0 /\ arm_sw' = "inactive"
         /\ never_seen' = TRUE /\ stage' = "IDLE" /\ stage_ms' = 0
         /\ armed' = FALSE /\ healthy' \in BOOLEAN
         /\ output_ok' = TRUE /\ manual' = FALSE
         /\ sample_ok' = FALSE /\ arm_low_seen' = FALSE
         /\ rev_changed' = TRUE /\ bench' = FALSE /\ pending' = FALSE
         /\ released' = FALSE /\ unspent' = FALSE /\ lapped' = FALSE

\* rx_link_note_stats(): a valid LINK_STATISTICS frame.  "lost" stands for an
\* uplink LQ of 0 or an rf_profile of 0.
NoteStats == /\ "stats" \in peers
             /\ pc \in {"rx", "bgrx"}
             /\ stats' \in {"good", "lost"}
             /\ stats_ms' = now
             /\ UNCHANGED <<timeVars, fresh, last_frame, arm_sw, fsVars, armed,
                            hwVars, taskVars, histVars>>

\* rx_stub_set_channels() with a complete valid frame, and the
\* failsafe_note_rx_frame() it ends with.
SetChannels(c) ==
    /\ pc \in {"rx", "bgrx"}
    /\ GateOpen
    /\ arm_sw' = c /\ fresh' = TRUE /\ last_frame' = now
    /\ never_seen' = FALSE
    /\ stage' = "IDLE"
    /\ stage_ms' = IF stage # "IDLE" THEN now ELSE stage_ms
    /\ released' = (released \/ c = "inactive")
    /\ lapped' = FALSE
    /\ UNCHANGED <<timeVars, stats, stats_ms, armed, hwVars, taskVars>>

\* rx_poll() has drained the receiver.
RxDone == /\ pc \in {"rx", "bgrx"}
          /\ pc' = IF pc = "rx" THEN "failsafe" ELSE "bgcli"
          /\ UNCHANGED <<now, feed, rxVars, fsVars, armed, hwVars, taskVars, histVars>>

\* failsafe_tick().  The PROCEDURE code at its end is also reached in IDLE.
FailsafeTick ==
    LET entering  == stage = "IDLE" /\ rx_lost
        stage1    == IF entering THEN "HOLD" ELSE stage
        stage_ms1 == IF entering THEN now ELSE stage_ms
        expired   == stage1 = "HOLD" /\ Since(stage_ms1) >= HOLD_MS
        landed    == /\ stage1 # "HOLD"
                     /\ FS_ACTION = "LAND" /\ Since(stage_ms1) >= LAND_MS
    IN IF never_seen THEN UNCHANGED <<fsVars, armed, histVars>>
       ELSE /\ stage' = IF expired THEN "PROCEDURE" ELSE stage1
            /\ stage_ms' = IF expired THEN now ELSE stage_ms1
            /\ UNCHANGED never_seen
            /\ IF landed \/ (expired /\ FS_ACTION = "DROP") THEN Disarm ELSE KeepArm

\* Mutant: only the background branch ticks the failsafe.
BgFailsafeTickOnly == /\ pc \in {"failsafe", "bgfailsafe"}
                      /\ IF pc = "failsafe" THEN UNCHANGED <<fsVars, armed, histVars>>
                                           ELSE FailsafeTick
                      /\ pc' = IF pc = "failsafe" THEN "slot" ELSE "cli"
                      /\ UNCHANGED <<now, feed, rxVars, hwVars, taskVars>>

BgFailsafeTick == /\ pc \in {"failsafe", "bgfailsafe"}
                  /\ FailsafeTick
                  /\ pc' = IF pc = "failsafe" THEN "slot" ELSE "cli"
                  /\ UNCHANGED <<now, feed, rxVars, hwVars, taskVars>>

\* No gyro slot is due: the background branch of scheduler_run().
BackgroundSlot == /\ pc = "slot"
                  /\ pc' = "bgrx"
                  /\ UNCHANGED <<now, feed, rxVars, fsVars, armed, hwVars, taskVars, histVars>>

\* loop_gyro() and the slot's decision whether the PID divider is due.
\* outcome: a sample, a sample more than 10 ms late, a sample the attitude
\* update refuses, no sample this time, or a fault that latches.
LoopGyro(outcome, pid_due) ==
    /\ pc = "slot"
    /\ outcome \in {"ok", "late", "attitude"} => healthy
    /\ manual' \in BOOLEAN /\ (manual' => manual)
    /\ healthy' = (healthy /\ outcome # "fault")
    /\ sample_ok' = (outcome \in {"ok", "late"})
    /\ IF outcome \in {"ok", "attitude"}
         THEN KeepArm /\ UNCHANGED witness
         ELSE Disarm /\ arm_low_seen' = FALSE /\ unspent' = FALSE
    /\ pc' = IF pid_due THEN "pid" ELSE "cli"
    /\ UNCHANGED <<now, feed, rxVars, fsVars, output_ok, rev_changed, bench, pending>>

\* loop_pid()'s arming decision.  ready: gyro_calibrated(), the mode's attitude
\* and tilt conditions and a low throttle; level: gyro_flight_ready(); time_ok:
\* the PID's own invocation interval is in range.
LoopPid(ready, level, time_ok) ==
    LET fault    == ~sample_ok \/ ~dshot_is_healthy \/ ~time_ok
        \* a revision change disarms and forgets the witness first
        armed1   == armed /\ ~rev_changed
        blocked  == ~arm_input_valid \/ manual \/ (~armed1 /\ bench_motor_active)
        inactive == ~fault /\ ~fs_flying /\ ~blocked /\ ~arm_requested
        attempt  == /\ ~fault /\ ~fs_flying /\ ~blocked /\ arm_requested
                    /\ witness_kept /\ ~armed1
        stops    == \/ fault
                    \/ ~fault /\ fs_flying /\ ~level
                    \/ ~fault /\ ~fs_flying /\ blocked
                    \/ inactive
    IN /\ pc = "pid"
       /\ (ready \/ level) => ~manual
       /\ rev_changed' = FALSE
       /\ arm_low_seen' = \/ inactive
                          \/ witness_kept /\ ~fault /\ ~fs_flying /\ ~blocked /\ ~attempt
       /\ unspent' = (unspent /\ arm_low_seen' /\ ~inactive)
       /\ IF attempt /\ CanArm(ready)
            THEN armed' = TRUE /\ UNCHANGED histVars
            ELSE IF stops \/ rev_changed THEN Disarm ELSE KeepArm
       /\ pc' = "mixer"
       /\ UNCHANGED <<now, feed, rxVars, fsVars, hwVars, sample_ok, bench, pending>>

\* loop_mixer_dshot(): bench requests are dropped outside their conditions and
\* end on their own timers; a refused DMA burst latches and disarms.
LoopMixer(drives, burst_ok) ==
    /\ pc = "mixer"
    /\ bench' \in BOOLEAN
    /\ bench' => bench /\ ~armed /\ dshot_is_healthy /\ ~manual /\ Usb
    /\ drives => armed \/ bench'
    /\ pending' = drives
    /\ output_ok' = (output_ok /\ burst_ok)
    /\ IF burst_ok THEN KeepArm ELSE Disarm
    /\ pc' = "cli"
    /\ UNCHANGED <<now, feed, rxVars, fsVars, healthy, manual, sample_ok,
                   witness, rev_changed>>

-----------------------------------------------------------------------------
(* cli_poll(): called from the background branch and from main().          *)

InCli == pc \in {"bgcli", "cli"}

\* gyro_health_poll() finds a wrong chip ID or configuration register.
HealthFault == /\ InCli
               /\ healthy /\ healthy' = FALSE
               /\ Disarm
               /\ UNCHANGED <<timeVars, rxVars, fsVars, output_ok, manual, taskVars>>

\* "arm": arming_try_arm() without the switch edge, which leaves a witness that
\* is there unspent.
CliArm(ready) == /\ InCli /\ Usb
                 /\ ready => ~manual
                 /\ CanArm(ready)
                 /\ armed' = TRUE
                 /\ unspent' = arm_low_seen
                 /\ UNCHANGED <<timeVars, rxVars, fsVars, hwVars, sample_ok,
                                arm_low_seen, rev_changed, bench, pending, histVars>>

\* "disarm": bench_motor_test(0) and arming_disarm().
CliDisarm == /\ InCli /\ Usb
             /\ bench' = FALSE
             /\ Disarm
             /\ UNCHANGED <<timeVars, rxVars, fsVars, hwVars, sample_ok,
                            witness, rev_changed, pending>>

\* motor_test, motor_pulse, motor_seq, bench_switch.
CliBenchStart == /\ InCli /\ Usb
                 /\ ~armed /\ dshot_is_healthy /\ ~manual /\ ~bench
                 /\ bench' = TRUE
                 /\ UNCHANGED <<timeVars, rxVars, fsVars, armed, hwVars, sample_ok,
                                witness, rev_changed, pending, histVars>>

\* mode_range_set(MODE_ARM, ...): the held controls may classify differently
\* under the new range.
CliModeRange == /\ InCli /\ Usb
                /\ ~armed /\ ~bench_motor_active /\ ~manual
                /\ rev_changed' = TRUE
                /\ arm_sw' \in Switch
                /\ released' = (arm_sw' = "inactive")
                /\ UNCHANGED <<timeVars, stats, stats_ms, fresh, last_frame, fsVars,
                               armed, hwVars, sample_ok, witness, bench,
                               pending, lapped>>

\* receiver_map, receiver_uart: failsafe_reset_rx_link(); rx_init().
CliReceiver == /\ InCli /\ Usb
               /\ ~armed /\ ~bench_motor_active
               /\ never_seen' = TRUE /\ stage' = "IDLE" /\ stage_ms' = 0
               /\ stats' = "none" /\ stats_ms' = 0 /\ fresh' = FALSE
               /\ last_frame' = 0
               /\ arm_sw' = "inactive"
               /\ UNCHANGED <<timeVars, armed, hwVars, taskVars, histVars>>

\* calibrate_gyro, calibrate_accel: a manual session starts or is cancelled.
CliCalibrate == /\ InCli /\ Usb
                /\ manual' = ~manual
                /\ manual' => ~armed /\ healthy
                /\ UNCHANGED <<timeVars, rxVars, fsVars, armed, healthy, output_ok,
                               taskVars, histVars>>

\* cli_poll() returns; main() feeds the watchdog and starts the next pass.
CliDone == /\ InCli
           /\ IF pc = "bgcli" THEN pc' = "bgfailsafe" /\ UNCHANGED feed
                              ELSE pc' = "rx" /\ feed' = now
           /\ UNCHANGED <<now, rxVars, fsVars, armed, hwVars, taskVars, histVars>>

-----------------------------------------------------------------------------
Receive == NoteStats \/ \E c \in Switch : SetChannels(c)

Cli == \/ CliArm(TRUE) \/ CliDisarm \/ CliBenchStart
       \/ CliModeRange \/ CliReceiver \/ CliCalibrate

GyroSlot == \E outcome \in {"ok", "late", "attitude", "none", "fault"},
               pid_due \in BOOLEAN : LoopGyro(outcome, pid_due)

Cascade == \/ \E ready, level, time_ok \in BOOLEAN : LoopPid(ready, level, time_ok)
           \/ \E drives, burst_ok \in BOOLEAN : LoopMixer(drives, burst_ok)

\* The steps the main loop takes whatever its inputs do.
Loop == RxDone \/ BgFailsafeTick \/ BackgroundSlot \/ GyroSlot \/ Cascade \/ CliDone

Next == /\ Tick \/ Reset \/ Receive \/ Loop \/ HealthFault \/ Cli
        /\ UNCHANGED peers

Spec == Init /\ [][Next]_vars

-----------------------------------------------------------------------------
(* Properties.                                                             *)

\* The type invariant.
TypeOK ==
    /\ peers \in Setups
    /\ now \in Time /\ feed \in Time /\ pc \in Steps
    /\ stats \in {"none", "good", "lost"} /\ stats_ms \in Time
    /\ fresh \in BOOLEAN /\ last_frame \in Time /\ arm_sw \in Switch
    /\ never_seen \in BOOLEAN /\ stage \in Stages /\ stage_ms \in Time
    /\ armed \in BOOLEAN
    /\ healthy \in BOOLEAN /\ output_ok \in BOOLEAN /\ manual \in BOOLEAN
    /\ sample_ok \in BOOLEAN /\ arm_low_seen \in BOOLEAN
    /\ rev_changed \in BOOLEAN /\ bench \in BOOLEAN /\ pending \in BOOLEAN
    /\ released \in BOOLEAN /\ unspent \in BOOLEAN /\ lapped \in BOOLEAN

\* An armed craft under DROP never flies on a link older than the timeout, the
\* hold window and the passes of the loop the watchdog tolerates: whatever the
\* interleaving of clock, receiver and cascade, failsafe_tick has disarmed it.
LinkLossBound ==
    armed /\ FS_ACTION = "DROP" =>
        /\ ~lapped
        /\ Since(last_frame) <= RX_TIMEOUT + 2 * WATCHDOG
              + (IF HOLD_MS = 0 THEN 0 ELSE HOLD_MS + 2 * WATCHDOG)

\* What the passes of the loop guarantee about the link, armed or not.  Slack is
\* the part of the current pass before its first failsafe_tick: the previous
\* tick may then be a whole watchdog period before the last feed.
Slack == IF pc \in {"rx", "failsafe"} THEN WATCHDOG ELSE 0

\* The loop is fed in time; before a first frame the stages are idle and the
\* craft is disarmed; an idle stage has a recent frame; a hold stage is recent
\* itself and started when the frame was; DROP never leaves an armed procedure.
LinkInv ==
    /\ Since(feed) <= WATCHDOG
    /\ never_seen => stage = "IDLE" /\ ~armed
    /\ ~never_seen /\ stage = "IDLE" =>
          /\ fresh /\ ~lapped
          /\ Since(last_frame) <= RX_TIMEOUT + Slack + Since(feed)
    /\ stage = "HOLD" =>
          /\ HOLD_MS # 0 /\ ~lapped
          /\ Since(stage_ms) <= HOLD_MS + Slack + Since(feed)
          /\ Since(last_frame) <= Since(stage_ms) + RX_TIMEOUT + 2 * WATCHDOG
    /\ stage = "PROCEDURE" /\ FS_ACTION = "DROP" => ~armed

\* The inactive-switch witness is spent by the arming it allows, and it is never
\* older than the last disarm or range edit, except the one an arming by the CLI
\* left unspent.
WitnessInv ==
    /\ armed /\ arm_low_seen => unspent
    /\ fresh /\ arm_sw = "inactive" => released
    /\ arm_low_seen => released \/ rev_changed \/ unspent

\* The cascade arms only after the ARM switch has been seen inactive, under the
\* range now configured, since the craft was last disarmed: no fault, link
\* recovery, calibration or range edit re-arms a craft whose switch stays on.
\* The one exception is a witness that was there when the CLI armed the craft.
NoAutoRearm == [][~armed /\ armed' /\ pc = "pid" => released \/ unspent]_vars

\* Nothing arms on a link that was silent for a whole turn of the millisecond
\* counter, although rx_frame_fresh() then reads the old frame as new.
NoArmOnLappedLink == [][~armed /\ armed' => ~lapped /\ rx_frame_fresh]_vars

\* failsafe_tick() disarms only a craft whose link is lost.
FailsafeDisarmsOnlyLostLink ==
    [][BgFailsafeTick /\ armed /\ ~armed'
       => stage # "IDLE" \/ Since(last_frame) > RX_TIMEOUT]_vars
=============================================================================
