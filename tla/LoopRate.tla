------------------------------ MODULE LoopRate ------------------------------
(***************************************************************************)
(* The loop-rate policy (sched/loop_rate.c): which gyro rate and PID       *)
(* divider the scheduler runs.  The boot setting asks for a rate; the      *)
(* board, the timebase, the gyro, bidirectional DShot and the measured     *)
(* overruns may each force a lower one.  loop_rate_tick() runs once per    *)
(* pass of main(), after scheduler_run() and cli_poll(), and judges the    *)
(* one-second overrun windows that sched/scheduler.c closes.               *)
(***************************************************************************)
EXTENDS Integers, Sequences

CONSTANTS
    BoardFast,   \* loop_rate_board_fast(board_get())
    Settings,    \* the loop_rate_hz values that may be saved
    Breaches,    \* LOOP_RATE_GUARD_BREACHES
    Permille,    \* LOOP_RATE_GUARD_PERMILLE
    Windows,     \* the <<overruns, gyro slots>> a closed window may hold
    Count        \* the uint32 window and change counters wrap at Count

ASSUME RateAssumption ==
    /\ BoardFast \in BOOLEAN
    /\ Settings \subseteq (IF BoardFast THEN {1000, 4000, 8000} ELSE {1000})
    /\ Breaches \in Nat \ {0} /\ Permille \in Nat
    /\ Windows \subseteq Nat \X Nat /\ <<0, 0>> \in Windows
    /\ Count \in Nat /\ Count > 2

VARIABLES
    pc,             \* the next step of main(): "roll", "cli" or "tick"
    armed,          \* arming_state() = ARM_ARMED
    \* the inputs gather() reads
    boot,           \* g_boot_setting_hz: loop_rate_hz as it was at boot
    hires,          \* hal_time_high_resolution()
    bidir, kbps,    \* dshot_bidir_enabled(), dshot_speed_kbps()
    failed,         \* g_capture_failed of drivers/dshot_telem.c
    healthy,        \* gyro_is_healthy()
    odr, spi_fast,  \* gyro diagnostics: the ODR, and an SPI clock >= 10 MHz
    \* sched/loop_rate.c
    level, breaches, seen_seq, seen_changes, reason,
    \* sched/scheduler.c
    rate,           \* [hz |-> gyro_hz, denom |-> pid_process_denom]
    seq, win,       \* loop_window_seq; overruns and slots of that window
    changes,        \* rate_changes
    streak          \* history: windows in breach, in a row, at this rate and level

inputVars == <<boot, hires, bidir, kbps, failed, healthy, odr, spi_fast>>
policyVars == <<level, breaches, seen_seq, seen_changes, reason>>
schedVars == <<rate, seq, win, changes>>
vars == <<pc, armed, inputVars, policyVars, schedVars, streak>>

Rate(hz, denom) == [hz |-> hz, denom |-> denom]
k_8k      == Rate(8000, 1)
k_fast    == Rate(8000, 2)
k_reduced == Rate(4000, 2)
k_legacy  == Rate(1000, 1)
Rates     == {k_8k, k_fast, k_reduced, k_legacy}
Speeds    == {300, 600}
Guarded   == {"setting", "overrun-guard", "dshot-bidir-reply-window"}
Reasons   == Guarded \cup {"dshot-bidir-capture-failed", "board-has-no-8k-gyro-path",
                           "no-high-res-timebase", "gyro-odr-below-8k", "gyro-spi-clock-slow"}

Inc(n) == IF n + 1 = Count THEN 0 ELSE n + 1

-----------------------------------------------------------------------------
(* The pure decisions.                                                     *)

loop_hz(r) == r.hz \div r.denom

loop_rate_ladder(hz) ==
    CASE hz = 8000 -> <<k_8k, k_fast, k_reduced, k_legacy>>
      [] hz = 4000 -> <<k_fast, k_reduced, k_legacy>>
      [] OTHER     -> <<k_legacy>>

\* drivers/dshot_bidir_budget.h, in ns: the reply to a frame of 16 bits after
\* one idle bit comes up to 40 us later, at 5/4 of the bit rate.
bit_ns(k) == 1000000 \div k
frame_end_ns(k) == 17 * bit_ns(k)
need_ns(k) == frame_end_ns(k) + 40000 + 21 * ((bit_ns(k) * 4) \div 5) + 30000
window_fits(hz, k) == /\ 19 * bit_ns(k) + 2000 <= frame_end_ns(k) + 25000
                      /\ need_ns(k) <= 1000000000 \div hz

\* The ladder without the rates whose reply window is not proven; the mutant
\* forgets to drop them.
Kept(r, b, k) == IF b /\ ~window_fits(loop_hz(r), k) THEN <<>> ELSE <<r>>
ladder_unproven(hz, b, k) == loop_rate_ladder(hz)
loop_rate_ladder_bidir(hz, b, k) ==
    (IF hz = 8000 THEN Kept(k_8k, b, k) ELSE <<>>)
    \o (IF hz \in {4000, 8000} THEN Kept(k_fast, b, k) \o Kept(k_reduced, b, k) ELSE <<>>)
    \o <<k_legacy>>

\* loop_rate_select() with guard level lv: the rate, and why.
loop_rate_select(hz, fast, time, b, k, fail, ok, o, s, lv) ==
    LET ladder == loop_rate_ladder_bidir(hz, b, k)
        n == Len(ladder)
        at == IF lv < n THEN lv ELSE n - 1
        legacy(why) == [rate |-> k_legacy, why |-> why] IN
    CASE b /\ fail                        -> legacy("dshot-bidir-capture-failed")
      [] ~(b /\ fail) /\ hz = 1000        -> legacy("setting")
      [] OTHER ->
         IF ~fast THEN legacy("board-has-no-8k-gyro-path")
         ELSE IF ~time THEN legacy("no-high-res-timebase")
         ELSE IF ok /\ o < 8000 THEN legacy("gyro-odr-below-8k")
         ELSE IF ok /\ ~s THEN legacy("gyro-spi-clock-slow")
         ELSE [rate |-> ladder[at + 1],
               why  |-> IF at > 0 THEN "overrun-guard"
                        ELSE IF n < Len(loop_rate_ladder(hz)) THEN "dshot-bidir-reply-window"
                        ELSE "setting"]

loop_rate_window_breach(w) ==
    IF w[2] = 0 THEN w[1] # 0 ELSE w[1] * 1000 > w[2] * Permille

-----------------------------------------------------------------------------
(* Boot: loop_rate_init() after persist_load() and gyro_select_output_rate. *)

Start(hz, time, ok, o, s) ==
    LET want == loop_rate_select(hz, BoardFast, time, FALSE, 300, FALSE, ok, o, s, 0) IN
    [rate |-> want.rate, why |-> want.why]

Init == \E hz \in Settings :
        /\ pc = "roll" /\ armed = FALSE
        /\ boot = hz
        /\ hires \in BOOLEAN /\ bidir = FALSE /\ kbps \in Speeds /\ failed = FALSE
        /\ healthy \in BOOLEAN /\ spi_fast \in BOOLEAN
        /\ odr \in IF hz > 1000 THEN {0, 8000} ELSE {0, 1000}
        /\ LET b == Start(hz, hires, healthy, odr, spi_fast) IN
           rate = b.rate /\ reason = b.why
        /\ level = 0 /\ breaches = 0 /\ seen_seq = 0 /\ seen_changes = 0
        /\ seq = 0 /\ win = <<0, 0>> /\ changes = 0 /\ streak = 0

-----------------------------------------------------------------------------
(* One pass of main().                                                     *)

\* window_roll(): the first gyro slot after a second closes the window.
WindowRoll(w) ==
    /\ pc = "roll" /\ pc' = "cli"
    /\ win' = w /\ seq' = Inc(seq)
    /\ streak' = IF ~loop_rate_window_breach(w) THEN 0
                 ELSE IF streak < Breaches THEN streak + 1 ELSE streak
    /\ UNCHANGED <<armed, inputVars, policyVars, rate, changes>>

NoRoll == /\ pc = "roll" /\ pc' = "cli"
          /\ UNCHANGED <<armed, inputVars, policyVars, schedVars, streak>>

\* What the rest of the pass may do to the inputs.
Elsewhere == pc = "cli" /\ UNCHANGED <<pc, boot, policyVars, schedVars, streak>>

ArmOrDisarm == /\ Elsewhere /\ healthy
               /\ armed' = ~armed
               /\ UNCHANGED <<hires, bidir, kbps, failed, healthy, odr, spi_fast>>

\* set dshot_bidir on|off: any edge, and every "off", restarts the latch.
SetBidir(on) ==
    /\ Elsewhere /\ ~armed
    /\ bidir' = on
    /\ failed' = (failed /\ on /\ bidir)
    /\ UNCHANGED <<armed, hires, kbps, healthy, odr, spi_fast>>

SetSpeed(k) == /\ Elsewhere /\ ~armed
               /\ kbps' = k
               /\ UNCHANGED <<armed, hires, bidir, failed, healthy, odr, spi_fast>>

\* dshot_telem_poll_all() has failed DSHOT_TELEM_CAPTURE_FAIL_LIMIT times in a row.
CaptureFails == /\ Elsewhere /\ bidir
                /\ failed' = TRUE
                /\ UNCHANGED <<armed, hires, bidir, kbps, healthy, odr, spi_fast>>

\* A gyro fault disarms; a failed re-clocking leaves the SPI slow as well.
GyroFault(s) == /\ Elsewhere /\ healthy
                /\ healthy' = FALSE /\ armed' = FALSE
                /\ spi_fast' = (spi_fast /\ s)
                /\ UNCHANGED <<hires, bidir, kbps, failed, odr>>

\* clock_fold_cycles() finds the cycle counter stopped or re-clocked.
TimebaseLost == /\ Elsewhere
                /\ hires' = FALSE
                /\ UNCHANGED <<armed, bidir, kbps, failed, healthy, odr, spi_fast>>

CliDone == /\ pc = "cli" /\ pc' = "tick"
           /\ UNCHANGED <<armed, inputVars, policyVars, schedVars, streak>>

-----------------------------------------------------------------------------
(* loop_rate_tick().                                                       *)

\* A rate change since the last tick forgets the windows of the old rate; the
\* mutant does not notice it.
changed_never == FALSE
changed == changes # seen_changes

\* What the tick knows of the guard: the breaches so far and the window judged.
Known == IF changed THEN [n |-> 0, at |-> 0] ELSE [n |-> breaches, at |-> seen_seq]

\* The guard may step down, to the last rate of the ladder; the mutant never
\* takes the last step.
may_step_short(n) == BoardFast /\ n > 1 /\ reason \in Guarded /\ level + 2 < n
may_step(n) == BoardFast /\ n > 1 /\ reason \in Guarded /\ level + 1 < n

\* The guard's verdict: [level, breaches] after the window, if it is a new one.
Judge ==
    LET n == Len(loop_rate_ladder_bidir(boot, bidir, kbps)) IN
    IF seq = Known.at \/ ~may_step(n) THEN [level |-> level, n |-> Known.n]
    ELSE IF ~loop_rate_window_breach(win) THEN [level |-> level, n |-> 0]
    ELSE IF Known.n + 1 >= Breaches THEN [level |-> level + 1, n |-> 0]
    ELSE [level |-> level, n |-> Known.n + 1]

\* Lowering is always allowed, raising waits until disarmed.
lower(want) == \/ loop_hz(want) < loop_hz(rate)
               \/ loop_hz(want) = loop_hz(rate) /\ want.hz < rate.hz

\* scheduler_set_rate(): the windows start over.
SetRate(want) == /\ rate' = want
                 /\ seq' = 0 /\ win' = <<0, 0>> /\ changes' = Inc(changes)

\* The reason is recorded only with the rate it explains.
report(applied, why) == IF applied THEN why ELSE reason

Tick ==
    LET v == Judge
        want == loop_rate_select(boot, BoardFast, hires, bidir, kbps, failed,
                                 healthy, odr, spi_fast, v.level)
        applied == want.rate = rate \/ lower(want.rate) \/ ~armed IN
    /\ pc = "tick" /\ pc' = "roll"
    /\ seen_changes' = changes
    /\ seen_seq' = seq
    /\ level' = v.level /\ breaches' = v.n
    /\ reason' = report(applied, want.why)
    /\ IF applied /\ want.rate # rate THEN SetRate(want.rate) ELSE UNCHANGED schedVars
    /\ streak' = IF v.level # level \/ rate' # rate THEN 0 ELSE streak
    /\ UNCHANGED <<armed, inputVars>>

\* What main() finds and chooses: the setting that was saved, the timebase, the
\* gyro, its output rate, the bus, the bidir bitrate and the rate they allow.
Boot(hz, time, ok, s, o) ==
    /\ boot' = hz /\ hires' = time
    /\ healthy' = ok /\ spi_fast' = s
    /\ odr' = IF o THEN (IF hz > 1000 THEN 8000 ELSE 1000) ELSE 0
    /\ LET b == Start(hz, time, ok, odr', s) IN rate' = b.rate /\ reason' = b.why
    /\ kbps' \in Speeds

\* A watchdog reset, or the CLI's reboot: main() starts over.  Nothing else
\* survives it, so it may as well come first.
Restarts == pc = "roll" /\ pc' = "roll"

Reboot ==
    /\ Restarts /\ armed' = FALSE
    /\ bidir' = FALSE /\ failed' = FALSE
    /\ level' = 0 /\ breaches' = 0 /\ seen_seq' = 0 /\ seen_changes' = 0
    /\ seq' = 0 /\ win' = <<0, 0>> /\ changes' = 0 /\ streak' = 0
    /\ \E hz \in Settings : \E time, ok, s, o \in BOOLEAN : Boot(hz, time, ok, s, o)

Inputs == \/ ArmOrDisarm \/ CaptureFails \/ TimebaseLost
          \/ \E on \in BOOLEAN : SetBidir(on) \/ GyroFault(on)
          \/ \E k \in Speeds : SetSpeed(k)

Closes == \E w \in Windows : WindowRoll(w)

Next == Closes \/ NoRoll \/ Inputs \/ CliDone \/ Tick \/ Reboot

Spec == Init /\ [][Next]_vars

\* The main loop keeps running, and a second passes again and again.
FairSpec == Spec /\ WF_vars(NoRoll) /\ WF_vars(CliDone) /\ WF_vars(Tick) /\ SF_vars(Closes)

-----------------------------------------------------------------------------
(* Properties.                                                             *)

\* The state has its types: the guard level indexes a ladder, and the breach
\* count never reaches the limit that resets it.
TypeOK ==
    /\ pc \in {"roll", "cli", "tick"} /\ armed \in BOOLEAN
    /\ boot \in Settings
    /\ hires \in BOOLEAN /\ bidir \in BOOLEAN /\ kbps \in Speeds /\ failed \in BOOLEAN
    /\ healthy \in BOOLEAN /\ odr \in {0, 1000, 8000} /\ spi_fast \in BOOLEAN
    /\ level \in 0 .. 3 /\ breaches \in 0 .. Breaches - 1
    /\ seen_seq \in 0 .. Count - 1 /\ seen_changes \in 0 .. Count - 1
    /\ reason \in Reasons /\ rate \in Rates
    /\ seq \in 0 .. Count - 1 /\ changes \in 0 .. Count - 1
    /\ win \in Windows /\ streak \in 0 .. Breaches

\* After every tick the rate in use is one the hardware supports: a failed
\* capture or a lost timebase runs 1000/1 at once, armed or not; with bidir on
\* the reply window fits the loop; and no rate exceeds the boot setting.
ProvenRate ==
    pc = "roll" =>
        /\ (bidir /\ failed) \/ ~hires => rate = k_legacy
        /\ healthy /\ (odr < 8000 \/ ~spi_fast) => rate = k_legacy
        /\ bidir => rate = k_legacy \/ window_fits(loop_hz(rate), kbps)
        /\ loop_hz(rate) <= boot

Earned == level' > level => level' = level + 1 /\ streak >= Breaches

\* No tick raises the loop rate of an armed craft (loop_rate.h).  The overrun
\* guard steps down one level, and, for the settings whose ladder bidir does not
\* shorten, only after Breaches windows in a row in breach that were all measured
\* at the rate it steps down from.
RateSteps == [][/\ armed /\ armed' => loop_hz(rate') <= loop_hz(rate)
                /\ boot < 8000 => Earned]_vars

\* When from some time on every closed window is in breach, and nobody
\* switches bidir or reboots, the guard ends at 1000/1 and stays there.
OverloadReachesFloor ==
    /\ <>[][\A w \in Windows : WindowRoll(w) => loop_rate_window_breach(w)]_vars
    /\ <>[][~Restarts /\ bidir' = bidir]_vars
    => <>[](rate = k_legacy)
=============================================================================
