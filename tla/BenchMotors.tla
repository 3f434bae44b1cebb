----------------------------- MODULE BenchMotors ----------------------------
(***************************************************************************)
(* The bench motor tests of sched/tasks.c: the single pulse, the sequence  *)
(* over the four motors and the AUX1 switch session, as the CLI starts and *)
(* stops them and loop_mixer_dshot() turns them into DShot frames.  An ESC *)
(* holds the last frame it got, so what counts is the frame that was       *)
(* written, not what the CLI asked for.  The millisecond clock wraps and   *)
(* advances between, and within, the steps of the loop.                    *)
(***************************************************************************)
EXTENDS Millis

CONSTANTS
    PULSE,      \* 1000 ms: how long a pulse, or a motor of the sequence, runs
    STEP,       \* 1700 ms: from the start of one motor of the sequence to the next
    RUN,        \* 3000 ms: the longest run of the switch
    SESSION,    \* 60000 ms: the longest switch session
    MIXER_GAP,  \* 20 ms: the longest wait between frames of a session
    MOTORS,     \* MIXER_MOTOR_COUNT
    WATCHDOG    \* the IWDG period: the longest the loop goes without a frame

ASSUME BenchAssumption ==
    /\ PULSE \in Nat \ {0} /\ STEP \in Nat /\ RUN \in Nat \ {0} /\ SESSION \in Nat
    /\ MIXER_GAP \in Nat /\ MOTORS \in Nat \ {0} /\ WATCHDOG \in Nat \ {0}
    /\ PULSE <= STEP
    \* 2^32 ms is far beyond every limit and one late frame
    /\ STEP + WATCHDOG + 1 < Wrap /\ RUN + WATCHDOG + 1 < Wrap

VARIABLES
    now, last_write,           \* hal_millis(); when the last frame was written
    \* what the tests depend on
    armed,                     \* arming_state() = ARM_ARMED
    usb,                       \* hal_usb_cdc_connected()
    ready,                     \* DShot healthy, no manual calibration
    aux,                       \* AUX1 with a usable receiver, else "bad"
    \* sched/tasks.c
    bench_motor, seq_step, bench_started,
    switch_enabled, switch_low, switch_running,
    session_ms, run_ms, tick_ms,
    pending,                   \* bench_output_pending
    \* the frame on the wire: who drives which motors
    frame,
    \* history
    ran,       \* ms, not wrapping, since the command or edge behind the frame
    lowered    \* AUX1 was low in a frame since the session or the run began

Motor     == 1 .. MOTORS
Aux       == {"low", "mid", "high", "bad"}
envVars   == <<armed, usb, ready, aux>>
pulseVars == <<bench_motor, seq_step, bench_started>>
switchVars == <<switch_enabled, switch_low, switch_running, session_ms, run_ms, tick_ms>>
vars      == <<now, last_write, envVars, pulseVars, switchVars, pending, frame, ran, lowered>>

Zero == [by |-> "none", motors |-> {}]

\* The run limits are what `ran` is compared with; it need not count further.
Longest == IF PULSE > RUN THEN PULSE + 1 ELSE RUN + 1

bench_motor_active == bench_motor # 0 \/ pending \/ switch_enabled

\* Why a pulse may not run; switch_blocker() also wants a usable receiver.
unsafe == armed \/ ~usb \/ ~ready
switch_blocker == unsafe \/ aux = "bad"

-----------------------------------------------------------------------------
Init == /\ now = 0 /\ last_write = 0
        /\ armed = FALSE /\ usb \in BOOLEAN /\ ready = TRUE /\ aux = "bad"
        /\ bench_motor = 0 /\ seq_step = 0 /\ bench_started = 0
        /\ switch_enabled = FALSE /\ switch_low = FALSE /\ switch_running = FALSE
        /\ session_ms = 0 /\ run_ms = 0 /\ tick_ms = 0
        /\ pending = FALSE /\ frame = Zero /\ ran = 0 /\ lowered = FALSE

Later(n) == IF n < Longest THEN n + 1 ELSE n

Tests == bench_motor # 0 \/ switch_running

\* The clock; the loop writes a frame at least once per watchdog period.
Tick == /\ Elapsed(now, last_write) < WATCHDOG
        /\ now' = After(now) /\ ran' = IF Tests THEN Later(ran) ELSE ran
        /\ UNCHANGED <<last_write, envVars, pulseVars, switchVars, pending, frame, lowered>>

\* A late loop is reset, with the motors off.
Reset == /\ Elapsed(now, last_write) >= WATCHDOG
         /\ last_write' = now
         /\ armed' = FALSE /\ ready' = TRUE /\ aux' = "bad"
         /\ bench_motor' = 0 /\ seq_step' = 0 /\ bench_started' = 0
         /\ switch_enabled' = FALSE /\ switch_low' = FALSE /\ switch_running' = FALSE
         /\ session_ms' = 0 /\ run_ms' = 0 /\ tick_ms' = 0
         /\ pending' = FALSE /\ frame' = Zero /\ ran' = 0 /\ lowered' = FALSE
         /\ UNCHANGED <<now, usb>>

\* The pilot and the hardware.  loop_pid arms only with the bench stopped, the
\* CLI's "arm" also while it runs.
Environment ==
    /\ \/ armed' = ~armed /\ (armed \/ usb \/ ~bench_motor_active)
          /\ UNCHANGED <<usb, ready, aux>>
       \/ usb' = ~usb /\ UNCHANGED <<armed, ready, aux>>
       \/ ready' = ~ready /\ UNCHANGED <<armed, usb, aux>>
       \/ aux' \in Aux \ {aux} /\ UNCHANGED <<armed, usb, ready>>
    /\ UNCHANGED <<now, last_write, pulseVars, switchVars, pending, frame, ran, lowered>>

-----------------------------------------------------------------------------
(* The CLI.                                                                *)

Cli == usb /\ UNCHANGED <<now, last_write, envVars, pending, frame>>

\* bench_switch_stop().  The timestamps of a stopped test are not read again:
\* the model forgets them.
SwitchOff == /\ switch_enabled' = FALSE /\ switch_low' = FALSE /\ switch_running' = FALSE
             /\ session_ms' = 0 /\ run_ms' = 0 /\ tick_ms' = 0
             /\ lowered' = FALSE

\* bench_motor_test(0), also by way of bench_stop and disarm
Stop == /\ Cli
        /\ bench_motor' = 0 /\ seq_step' = 0 /\ bench_started' = 0
        /\ SwitchOff
        /\ ran' = 0

\* bench_motor_pulse() and, with step 1, bench_motor_seq_start().
pulse(m, step) == /\ ~switch_enabled /\ ~unsafe
                  /\ bench_motor' = m /\ seq_step' = step /\ bench_started' = now

Pulse(m, step) == /\ Cli
                  /\ step = 1 => m = 1
                  /\ pulse(m, step)
                  /\ ran' = 0
                  /\ UNCHANGED <<switchVars, lowered>>

\* bench_switch_start()
SwitchStart == /\ Cli
               /\ ~bench_motor_active /\ ~switch_blocker /\ aux = "low"
               /\ switch_enabled' = TRUE /\ switch_low' = FALSE /\ switch_running' = FALSE
               /\ session_ms' = now /\ tick_ms' = now
               /\ lowered' = FALSE
               /\ UNCHANGED <<run_ms, pulseVars, ran>>

-----------------------------------------------------------------------------
(* loop_mixer_dshot().                                                     *)

\* The sequence has a motor left.
more == seq_step # 0 /\ seq_step < MOTORS

\* The pulse part: the motor it drives (0 for none) and its next state.  The
\* clock is read again, at t, when the sequence moves on.
PulseNext(t) ==
    LET dt == Elapsed(now, bench_started) IN
    IF bench_motor = 0 \/ unsafe
    THEN [motor |-> 0, step |-> 0, started |-> 0]
    ELSE IF dt < PULSE \/ (seq_step # 0 /\ dt < STEP)
    THEN [motor |-> bench_motor, step |-> seq_step, started |-> bench_started]
    ELSE IF more
    THEN [motor |-> seq_step + 1, step |-> seq_step + 1, started |-> t]
    ELSE [motor |-> 0, step |-> 0, started |-> 0]

PulseDrives == bench_motor # 0 /\ ~unsafe /\ Elapsed(now, bench_started) < PULSE

\* bench_switch_output() at t: a session ends on a blocker, on its limit, or
\* when frames are too far apart.  The mutant has no limit.
ExpiredUnlimited(t) == switch_blocker \/ Elapsed(t, tick_ms) > MIXER_GAP
Expired(t) == \/ switch_blocker
              \/ Elapsed(t, session_ms) >= SESSION
              \/ Elapsed(t, tick_ms) > MIXER_GAP

\* A high switch starts a run only after a low.
starts == switch_low

\* Whether the run continues at t; the mutant has no limit.
runs_on_always(t) == switch_running
runs_on(t) == switch_running /\ Elapsed(t, run_ms) < RUN

Switch(t) ==
    \/ /\ ~switch_enabled
       /\ UNCHANGED <<switchVars, lowered>>
    \/ /\ switch_enabled /\ Expired(t)
       /\ SwitchOff
    \/ /\ switch_enabled /\ ~Expired(t)
       /\ switch_low' = ((switch_low \/ aux = "low") /\ aux # "high")
       /\ switch_running' = (aux = "high" /\ (starts \/ runs_on(t)))
       /\ run_ms' = IF ~switch_running' THEN 0 ELSE IF starts THEN t ELSE run_ms
       /\ lowered' = (aux = "low" \/ (lowered /\ ~(aux = "high" /\ starts)))
       /\ tick_ms' = t
       /\ UNCHANGED <<switch_enabled, session_ms>>

\* The frame: what the mixer flies with, overwritten by the pulse's motor, and
\* all of it by a switch session.
Frame(flown) ==
    IF switch_enabled
      THEN IF switch_running' THEN [by |-> "switch", motors |-> Motor] ELSE Zero
    ELSE IF PulseDrives THEN [by |-> "pulse", motors |-> {bench_motor}]
    ELSE IF armed THEN [by |-> "flight", motors |-> flown] ELSE Zero

\* bench_output_pending
drives == frame'.motors # {}

Mixer(t, flown) ==
    LET p == PulseNext(t) IN
    /\ now' = t /\ last_write' = t
    /\ bench_motor' = p.motor /\ seq_step' = p.step /\ bench_started' = p.started
    /\ Switch(t)
    /\ frame' = Frame(flown)
    /\ pending' = drives
    /\ ran' = IF \/ p.motor = 0 /\ ~switch_running'
                 \/ p.step # seq_step
                 \/ switch_running' /\ ~(switch_running /\ runs_on(t))
              THEN 0 ELSE IF t = now THEN ran ELSE Later(ran)
    /\ UNCHANGED envVars

Loop == \E t \in {now, After(now)}, flown \in {{}, Motor} : Mixer(t, flown)

Commands == Stop \/ SwitchStart \/ \E m \in Motor, step \in {0, 1} : Pulse(m, step)

Next == Tick \/ Reset \/ Environment \/ Commands \/ Loop

Spec == Init /\ [][Next]_vars

\* The clock runs, and the loop writes frames.
FairSpec == Spec /\ WF_vars(Tick) /\ WF_vars(Loop)

-----------------------------------------------------------------------------
(* Properties.                                                             *)

\* The state has its types, and a sequence drives the motor of its step.
TypeOK ==
    /\ now \in Time /\ last_write \in Time
    /\ armed \in BOOLEAN /\ usb \in BOOLEAN /\ ready \in BOOLEAN /\ aux \in Aux
    /\ bench_motor \in 0 .. MOTORS /\ seq_step \in 0 .. MOTORS /\ bench_started \in Time
    /\ seq_step # 0 => bench_motor = seq_step
    /\ switch_enabled \in BOOLEAN /\ switch_low \in BOOLEAN /\ switch_running \in BOOLEAN
    /\ session_ms \in Time /\ run_ms \in Time /\ tick_ms \in Time
    /\ pending \in BOOLEAN /\ ran \in 0 .. Longest /\ lowered \in BOOLEAN
    /\ frame \in [by : {"none", "flight", "pulse", "switch"}, motors : SUBSET Motor]

\* No test frame outlasts its limit, in real milliseconds and across a wrap of
\* the clock: a pulse drives until PULSE after its command, give or take the tick
\* between its check and the frame, the switch less than RUN after its edge.  An
\* armed craft is never driven by a test: every frame written while armed is the
\* mixer's own, or all off.  And the switch starts a run only after a frame of
\* this session saw it low since the last run: neither a session started with the
\* switch thrown, nor one that reached its limit, runs again by itself.
DriveBounded ==
    [][/\ frame' # frame \/ last_write' # last_write =>
            /\ frame'.by = "pulse" => ran' <= PULSE
            /\ frame'.by = "switch" => ran' < RUN
            /\ armed => frame'.by \in {"none", "flight"}
       /\ switch_running' /\ ~switch_running => lowered]_vars

\* Once the operator sends no more commands and the craft stays disarmed, every
\* test ends with the motors off, whatever the switch does and even while the
\* USB host stays connected.  Until then bench_motor_active() says so: "Remain
\* busy until a cascade has actually submitted the stop frame".
BenchEnds ==
    /\ [](frame.motors # {} => bench_motor_active)
    /\ <>[][~Commands]_vars /\ <>[](~armed) => <>[](frame = Zero)
=============================================================================
