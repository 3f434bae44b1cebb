------------------------- MODULE BenchStoreLinkProofs ------------------------
(***************************************************************************)
(* Proofs about three parts of the system that nothing connects.           *)
(*                                                                         *)
(* BenchMotors, for every clock width, limit, watchdog period and number   *)
(* of motors: a pulse, a motor of the sequence and a run of the switch     *)
(* each keep the frame's real age equal to the age the code reads off its  *)
(* wrapping clock, so no limit is missed when the clock laps.              *)
(*                                                                         *)
(* ConfigStore, for every set of settings and every width of the           *)
(* generation counter: what the next boot restores, whatever operation a   *)
(* power cut or a flash error ended, and what "saved" means.               *)
(*                                                                         *)
(* HostConnection, for every set of controllers and every number of        *)
(* connects and polls at once: whatever overtakes what, the lock that a    *)
(* flash leaves behind opens only for the board that was flashed, so the   *)
(* hook implements the abstract lock of FlashLock.                         *)
(***************************************************************************)
EXTENDS BenchMotors, ConfigStore, HostConnection, TLAPS

-----------------------------------------------------------------------------
(* The bench tests.                                                        *)

\* A pulse or the sequence, and a switch session, never run side by side; a low
\* switch is remembered, and only until the run it starts.
Apart ==
  /\ bench_motor # 0 => ~switch_enabled
  /\ switch_running => switch_enabled /\ ~switch_low
  /\ switch_low => lowered

\* The age of a test on the wrapping clock is its age in real milliseconds, and
\* the test is at most one late frame beyond its limit.
Tracks(started, limit) ==
  /\ Elapsed(now, started) <= limit + Elapsed(now, last_write)
  /\ ran = IF Elapsed(now, started) < Longest THEN Elapsed(now, started) ELSE Longest

AgeInv ==
  /\ Elapsed(now, last_write) <= WATCHDOG
  /\ bench_motor # 0 => Tracks(bench_started, STEP)
  /\ switch_running => Tracks(run_ms, RUN)

BenchInv == TypeOK /\ Apart /\ AgeInv

-----------------------------------------------------------------------------
(* The clock and the limits.                                               *)

\* Elapsed time is a clock reading, zero at the reading itself, and one clock
\* step adds one to it until the counter laps.
LEMMA ElapsedFacts ==
  ASSUME NEW t \in Time, NEW u \in Time
  PROVE  /\ Elapsed(t, u) \in Time
         /\ Elapsed(t, t) = 0
         /\ After(t) \in Time
         /\ Elapsed(t, u) + 1 < Wrap => Elapsed(After(t), u) = Elapsed(t, u) + 1
  BY WrapAssumption DEF Elapsed, After, Time

LEMMA Limits ==
  /\ PULSE \in Nat \ {0} /\ STEP \in Nat /\ RUN \in Nat \ {0}
  /\ MOTORS \in Nat \ {0} /\ WATCHDOG \in Nat \ {0} /\ PULSE <= STEP
  /\ STEP + WATCHDOG + 1 < Wrap /\ RUN + WATCHDOG + 1 < Wrap /\ WATCHDOG < Wrap
  /\ Wrap \in Nat /\ 0 \in Time /\ Time \subseteq Nat
  /\ Longest \in Nat /\ Longest > PULSE /\ Longest > RUN
<1>1. /\ PULSE \in Nat \ {0} /\ STEP \in Nat /\ RUN \in Nat \ {0}
      /\ MOTORS \in Nat \ {0} /\ WATCHDOG \in Nat \ {0} /\ PULSE <= STEP
      /\ STEP + WATCHDOG + 1 < Wrap /\ RUN + WATCHDOG + 1 < Wrap
  BY BenchAssumption
<1>2. Wrap \in Nat /\ 0 \in Time /\ Time \subseteq Nat
  BY WrapAssumption DEF Time
<1>3. WATCHDOG < Wrap
  BY <1>1, <1>2
<1>4. Longest \in Nat /\ Longest > PULSE /\ Longest > RUN
  BY <1>1 DEF Longest
<1> QED
  BY <1>1, <1>2, <1>3, <1>4

\* A test that goes on for one more millisecond, or for none.
LEMMA Grows ==
  ASSUME NEW e \in Nat, NEW r, r = IF e < Longest THEN e ELSE Longest
  PROVE  /\ r \in 0 .. Longest
         /\ Later(r) = IF e + 1 < Longest THEN e + 1 ELSE Longest
  BY Limits DEF Later

-----------------------------------------------------------------------------
(* Every step but the frame.                                               *)

LEMMA InitKeeps == Init => BenchInv
<1> SUFFICES ASSUME Init PROVE BenchInv
  OBVIOUS
<1>1. TypeOK
  <2>1. /\ now \in Time /\ last_write \in Time /\ bench_started \in Time
        /\ session_ms \in Time /\ run_ms \in Time /\ tick_ms \in Time
        /\ bench_motor \in 0 .. MOTORS /\ seq_step \in 0 .. MOTORS /\ seq_step = 0
        /\ ran \in 0 .. Longest
    BY Limits DEF Init
  <2>2. /\ armed \in BOOLEAN /\ usb \in BOOLEAN /\ ready \in BOOLEAN /\ aux \in Aux
        /\ switch_enabled \in BOOLEAN /\ switch_low \in BOOLEAN /\ switch_running \in BOOLEAN
        /\ pending \in BOOLEAN /\ lowered \in BOOLEAN
    BY DEF Init, Aux
  <2>3. frame \in [by : {"none", "flight", "pulse", "switch"}, motors : SUBSET Motor]
    BY DEF Init, Zero
  <2> QED
    BY <2>1, <2>2, <2>3 DEF TypeOK
<1>2. Apart
  BY DEF Init, Apart
<1>3. AgeInv
  BY Limits, ElapsedFacts DEF Init, AgeInv
<1> QED
  BY <1>1, <1>2, <1>3 DEF BenchInv

LEMMA TickKeeps == BenchInv /\ Tick => BenchInv'
<1> SUFFICES ASSUME BenchInv, Tick PROVE BenchInv'
  OBVIOUS
<1>0. /\ TypeOK /\ Apart /\ AgeInv
      /\ now \in Time /\ last_write \in Time /\ bench_started \in Time /\ run_ms \in Time
      /\ ran \in 0 .. Longest
      /\ Elapsed(now, last_write) < WATCHDOG /\ now' = After(now)
      /\ ran' = IF Tests THEN Later(ran) ELSE ran
      /\ UNCHANGED <<last_write, envVars, pulseVars, switchVars, pending, frame, lowered>>
  BY DEF BenchInv, Tick, TypeOK
<1>1. /\ now' \in Time /\ Elapsed(now, last_write) \in Nat
      /\ Elapsed(now', last_write) = Elapsed(now, last_write) + 1
  <2>1. Elapsed(now, last_write) \in Time /\ now' \in Time
    BY <1>0, ElapsedFacts
  <2>2. Elapsed(now, last_write) + 1 < Wrap
    <3>1. \A e \in Nat : e < WATCHDOG => e + 1 < Wrap
      BY Limits
    <3> QED
      BY <1>0, <2>1, <3>1, Limits
  <2> QED
    BY <1>0, <2>1, <2>2, ElapsedFacts, Limits
<1>2. ran' \in 0 .. Longest
  BY <1>0, Limits DEF Later
<1>3. TypeOK'
  BY <1>0, <1>1, <1>2 DEF TypeOK, envVars, pulseVars, switchVars
<1>4. Apart'
  BY <1>0 DEF Apart, pulseVars, switchVars
<1>5. ASSUME NEW s \in Time, NEW limit \in {STEP, RUN}, Tracks(s, limit), Tests
      PROVE  /\ Elapsed(now', s) <= limit + Elapsed(now', last_write)
             /\ ran' = IF Elapsed(now', s) < Longest THEN Elapsed(now', s) ELSE Longest
  <2> DEFINE e == Elapsed(now, s)
  <2>1. e \in Nat /\ e <= limit + Elapsed(now, last_write) /\ e + 1 < Wrap
    <3>1. e \in Nat /\ e <= limit + Elapsed(now, last_write)
      BY <1>0, <1>5, ElapsedFacts, Limits DEF Tracks
    <3>2. limit \in Nat /\ limit + WATCHDOG + 1 < Wrap
      BY Limits
    <3> HIDE DEF e
    <3>3. e + 1 < Wrap
      BY <1>0, <1>1, <3>1, <3>2, Limits
    <3> QED
      BY <3>1, <3>3
  <2>2. Elapsed(now', s) = e + 1
    BY <1>0, <2>1, ElapsedFacts
  <2>3. ran = IF e < Longest THEN e ELSE Longest
    BY <1>5 DEF Tracks
  <2> HIDE DEF e
  <2>4. ran' = IF e + 1 < Longest THEN e + 1 ELSE Longest
    BY <1>0, <1>5, <2>1, <2>3, Grows
  <2> QED
    BY <1>1, <1>5, <2>1, <2>2, <2>4, Limits
<1>6. AgeInv'
  BY <1>0, <1>1, <1>5, Limits DEF AgeInv, Tracks, Tests, pulseVars, switchVars
<1> QED
  BY <1>3, <1>4, <1>6 DEF BenchInv

\* After a reset nothing runs.
LEMMA ResetKeeps == BenchInv /\ Reset => BenchInv'
<1> SUFFICES ASSUME BenchInv, Reset PROVE BenchInv'
  OBVIOUS
<1>1. TypeOK'
  <2>1. /\ now' \in Time /\ last_write' \in Time /\ bench_started' \in Time
        /\ session_ms' \in Time /\ run_ms' \in Time /\ tick_ms' \in Time
        /\ bench_motor' \in 0 .. MOTORS /\ seq_step' \in 0 .. MOTORS /\ seq_step' = 0
        /\ ran' \in 0 .. Longest
    BY Limits DEF BenchInv, TypeOK, Reset
  <2>2. /\ armed' \in BOOLEAN /\ usb' \in BOOLEAN /\ ready' \in BOOLEAN /\ aux' \in Aux
        /\ switch_enabled' \in BOOLEAN /\ switch_low' \in BOOLEAN
        /\ switch_running' \in BOOLEAN /\ pending' \in BOOLEAN /\ lowered' \in BOOLEAN
    BY DEF BenchInv, TypeOK, Reset, Aux
  <2>3. frame' \in [by : {"none", "flight", "pulse", "switch"}, motors : SUBSET Motor]
    BY DEF Reset, Zero
  <2> QED
    BY <2>1, <2>2, <2>3 DEF TypeOK
<1>2. Apart'
  BY DEF Reset, Apart
<1>3. AgeInv'
  BY Limits, ElapsedFacts DEF BenchInv, TypeOK, Reset, AgeInv
<1> QED
  BY <1>1, <1>2, <1>3 DEF BenchInv

LEMMA EnvironmentKeeps == BenchInv /\ Environment => BenchInv'
<1> SUFFICES ASSUME BenchInv, Environment PROVE BenchInv'
  OBVIOUS
<1>1. armed' \in BOOLEAN /\ usb' \in BOOLEAN /\ ready' \in BOOLEAN /\ aux' \in Aux
  BY DEF BenchInv, TypeOK, Environment
<1>2. UNCHANGED <<now, last_write, pulseVars, switchVars, pending, frame, ran, lowered>>
  BY DEF Environment
<1>3. TypeOK'
  BY <1>1, <1>2 DEF BenchInv, TypeOK, pulseVars, switchVars
<1> QED
  BY <1>2, <1>3 DEF BenchInv, Apart, AgeInv, Tracks, pulseVars, switchVars

-----------------------------------------------------------------------------
(* The CLI.                                                                *)

LEMMA StopKeeps == BenchInv /\ Stop => BenchInv'
<1> SUFFICES ASSUME BenchInv, Stop PROVE BenchInv'
  OBVIOUS
<1>0. /\ UNCHANGED <<now, last_write, envVars, pending, frame>>
      /\ bench_motor' = 0 /\ seq_step' = 0 /\ bench_started' = 0 /\ ran' = 0
      /\ switch_enabled' = FALSE /\ switch_low' = FALSE /\ switch_running' = FALSE
      /\ session_ms' = 0 /\ run_ms' = 0 /\ tick_ms' = 0 /\ lowered' = FALSE
  BY DEF Stop, Cli, SwitchOff
<1>1. TypeOK'
  <2>1. /\ bench_motor' \in 0 .. MOTORS /\ seq_step' \in 0 .. MOTORS /\ bench_started' \in Time
        /\ session_ms' \in Time /\ run_ms' \in Time /\ tick_ms' \in Time
        /\ ran' \in 0 .. Longest
    BY <1>0, Limits
  <2>2. /\ switch_enabled' \in BOOLEAN /\ switch_low' \in BOOLEAN
        /\ switch_running' \in BOOLEAN /\ lowered' \in BOOLEAN
    BY <1>0
  <2> QED
    BY <1>0, <2>1, <2>2 DEF BenchInv, TypeOK, envVars
<1>2. Apart' /\ AgeInv'
  BY <1>0 DEF BenchInv, Apart, AgeInv
<1> QED
  BY <1>1, <1>2 DEF BenchInv

\* A pulse starts at the clock's reading, outside a session.
LEMMA PulseKeeps ==
  ASSUME BenchInv, NEW m \in Motor, NEW step \in {0, 1}, Pulse(m, step)
  PROVE  BenchInv'
<1>0. /\ TypeOK /\ Apart /\ AgeInv /\ now \in Time /\ last_write \in Time
      /\ UNCHANGED <<now, last_write, envVars, pending, frame>>
      /\ bench_motor' = m /\ seq_step' = step /\ bench_started' = now /\ ran' = 0
      /\ ~switch_enabled /\ UNCHANGED <<switchVars, lowered>>
      /\ step = 1 => m = 1
  BY DEF BenchInv, TypeOK, Pulse, Cli, pulse
<1>1. /\ bench_motor' \in 0 .. MOTORS /\ seq_step' \in 0 .. MOTORS
      /\ seq_step' # 0 => bench_motor' = seq_step'
      /\ ran' \in 0 .. Longest
  BY <1>0, Limits DEF Motor
<1>2. TypeOK'
  BY <1>0, <1>1 DEF TypeOK, envVars, switchVars
<1>3. Apart'
  BY <1>0 DEF Apart, switchVars
<1>4. Elapsed(now, now) = 0 /\ Elapsed(now, last_write) \in Nat
  BY <1>0, ElapsedFacts, Limits
<1>5. ~switch_running'
  BY <1>0 DEF Apart, switchVars
<1>6. /\ Elapsed(now', bench_started') <= STEP + Elapsed(now', last_write')
      /\ ran' = IF Elapsed(now', bench_started') < Longest
                THEN Elapsed(now', bench_started') ELSE Longest
  BY <1>0, <1>4, Limits
<1>7. AgeInv'
  BY <1>0, <1>5, <1>6 DEF AgeInv, Tracks
<1> QED
  BY <1>2, <1>3, <1>7 DEF BenchInv

LEMMA SwitchStartKeeps == BenchInv /\ SwitchStart => BenchInv'
<1> SUFFICES ASSUME BenchInv, SwitchStart PROVE BenchInv'
  OBVIOUS
<1>0. /\ TypeOK /\ Apart /\ AgeInv
      /\ UNCHANGED <<now, last_write, envVars, pending, frame>>
      /\ bench_motor = 0 /\ switch_enabled' = TRUE /\ switch_low' = FALSE
      /\ switch_running' = FALSE /\ session_ms' = now /\ tick_ms' = now /\ lowered' = FALSE
      /\ UNCHANGED <<run_ms, pulseVars, ran>>
  BY DEF BenchInv, SwitchStart, Cli, bench_motor_active
<1>1. /\ switch_enabled' \in BOOLEAN /\ switch_low' \in BOOLEAN
      /\ switch_running' \in BOOLEAN /\ lowered' \in BOOLEAN
  BY <1>0
<1>2. TypeOK'
  BY <1>0, <1>1 DEF TypeOK, envVars, pulseVars
<1>3. Apart' /\ AgeInv'
  BY <1>0 DEF Apart, AgeInv, pulseVars
<1> QED
  BY <1>2, <1>3 DEF BenchInv

-----------------------------------------------------------------------------
(* The frame.                                                              *)

\* The pulse goes on, the sequence moves to its next motor, or both end.
LEMMA PulseNextFacts ==
  ASSUME TypeOK, NEW t \in Time
  PROVE  LET p == PulseNext(t) IN
         /\ p.motor \in 0 .. MOTORS /\ p.step \in 0 .. MOTORS /\ p.started \in Time
         /\ p.step # 0 => p.motor = p.step
         /\ bench_motor = 0 => p.motor = 0 /\ p.step = 0
         /\ p.motor # 0 =>
              \/ /\ p.motor = bench_motor /\ p.step = seq_step /\ p.started = bench_started
                 /\ Elapsed(now, bench_started) < STEP
              \/ p.step # seq_step /\ p.started = t
         /\ PulseDrives => p.motor = bench_motor /\ p.step = seq_step
<1> DEFINE p == PulseNext(t)
           dt == Elapsed(now, bench_started)
<1>0. /\ bench_motor \in 0 .. MOTORS /\ seq_step \in 0 .. MOTORS /\ bench_started \in Time
      /\ seq_step # 0 => bench_motor = seq_step
      /\ dt \in Nat
  BY ElapsedFacts, Limits DEF TypeOK
<1>1. p = IF bench_motor = 0 \/ unsafe
          THEN [motor |-> 0, step |-> 0, started |-> 0]
          ELSE IF dt < PULSE \/ (seq_step # 0 /\ dt < STEP)
          THEN [motor |-> bench_motor, step |-> seq_step, started |-> bench_started]
          ELSE IF more
          THEN [motor |-> seq_step + 1, step |-> seq_step + 1, started |-> t]
          ELSE [motor |-> 0, step |-> 0, started |-> 0]
  BY DEF PulseNext
<1>2. PulseDrives => ~(bench_motor = 0 \/ unsafe) /\ dt < PULSE
  BY DEF PulseDrives
<1> HIDE DEF p, dt
<1>3. CASE bench_motor = 0 \/ unsafe
  <2>1. p.motor = 0 /\ p.step = 0 /\ p.started = 0
    BY <1>1, <1>3
  <2>2. 0 \in 0 .. MOTORS
    BY Limits
  <2> QED
    BY <1>2, <1>3, <2>1, <2>2, Limits DEF p, dt
<1>4. CASE ~(bench_motor = 0 \/ unsafe) /\ (dt < PULSE \/ (seq_step # 0 /\ dt < STEP))
  <2>1. dt < STEP
    BY <1>0, <1>4, Limits
  <2>2. p.motor = bench_motor /\ p.step = seq_step /\ p.started = bench_started
    BY <1>1, <1>4
  <2> QED
    BY <1>0, <1>4, <2>1, <2>2 DEF p, dt
<1>5. CASE ~(bench_motor = 0 \/ unsafe) /\ ~(dt < PULSE \/ (seq_step # 0 /\ dt < STEP)) /\ more
  <2>1. p.motor = seq_step + 1 /\ p.step = seq_step + 1 /\ p.started = t
    BY <1>1, <1>5
  <2>2. seq_step + 1 \in 0 .. MOTORS /\ seq_step + 1 # seq_step
    BY <1>0, <1>5, Limits DEF more
  <2> QED
    BY <1>2, <1>5, <2>1, <2>2 DEF p, dt
<1>6. CASE ~(bench_motor = 0 \/ unsafe) /\ ~(dt < PULSE \/ (seq_step # 0 /\ dt < STEP)) /\ ~more
  <2>1. p.motor = 0 /\ p.step = 0 /\ p.started = 0
    BY <1>1, <1>6
  <2> QED
    BY <1>2, <1>6, <2>1, Limits DEF p, dt
<1> QED
  BY <1>3, <1>4, <1>5, <1>6

\* A frame runs the switch only within its session: from a low switch on, or
\* while the run is below its limit.
LEMMA SwitchFacts ==
  ASSUME TypeOK, Apart, NEW t \in Time, Switch(t)
  PROVE  /\ switch_enabled' \in BOOLEAN /\ switch_low' \in BOOLEAN
         /\ switch_running' \in BOOLEAN /\ lowered' \in BOOLEAN
         /\ session_ms' \in Time /\ run_ms' \in Time /\ tick_ms' \in Time
         /\ switch_enabled' => switch_enabled
         /\ switch_running' => switch_enabled' /\ ~switch_low' /\ ~switch_blocker
         /\ switch_low' => lowered'
         /\ switch_running' =>
              \/ /\ switch_low /\ lowered /\ ~switch_running /\ run_ms' = t
              \/ /\ switch_running /\ runs_on(t) /\ run_ms' = run_ms
<1>0. /\ switch_enabled \in BOOLEAN /\ switch_low \in BOOLEAN /\ switch_running \in BOOLEAN
      /\ lowered \in BOOLEAN /\ session_ms \in Time /\ run_ms \in Time /\ tick_ms \in Time
      /\ 0 \in Time
      /\ switch_running => switch_enabled /\ ~switch_low
      /\ switch_low => lowered
  BY Limits DEF TypeOK, Apart
<1>1. CASE ~switch_enabled /\ UNCHANGED <<switchVars, lowered>>
  BY <1>0, <1>1 DEF switchVars
<1>2. CASE switch_enabled /\ Expired(t) /\ SwitchOff
  BY <1>0, <1>2 DEF SwitchOff
<1>3. CASE /\ switch_enabled /\ ~Expired(t)
           /\ switch_low' = ((switch_low \/ aux = "low") /\ aux # "high")
           /\ switch_running' = (aux = "high" /\ (starts \/ runs_on(t)))
           /\ run_ms' = IF ~switch_running' THEN 0 ELSE IF starts THEN t ELSE run_ms
           /\ lowered' = (aux = "low" \/ (lowered /\ ~(aux = "high" /\ starts)))
           /\ tick_ms' = t
           /\ UNCHANGED <<switch_enabled, session_ms>>
  <2>1. /\ switch_low' \in BOOLEAN /\ switch_running' \in BOOLEAN /\ lowered' \in BOOLEAN
        /\ run_ms' \in Time /\ tick_ms' \in Time
    BY <1>0, <1>3
  <2>2. switch_running' => ~switch_low' /\ ~switch_blocker
    BY <1>3 DEF Expired
  <2>3. switch_low' => lowered'
    BY <1>0, <1>3
  <2>4. switch_running' =>
          \/ /\ switch_low /\ lowered /\ ~switch_running /\ run_ms' = t
          \/ /\ switch_running /\ runs_on(t) /\ run_ms' = run_ms
    BY <1>0, <1>3 DEF starts, runs_on
  <2> QED
    BY <1>0, <1>3, <2>1, <2>2, <2>3, <2>4
<1> QED
  BY <1>1, <1>2, <1>3 DEF Switch

\* The age of a test goes on by the tick between the check and the frame.
LEMMA Ages ==
  ASSUME TypeOK, AgeInv, NEW s \in Time, NEW limit \in {STEP, RUN}, Tracks(s, limit),
         NEW t \in {now, After(now)}
  PROVE  /\ Elapsed(t, s) \in Nat
         /\ Elapsed(t, s) <= Elapsed(now, s) + 1
         /\ (IF t = now THEN ran ELSE Later(ran))
              = IF Elapsed(t, s) < Longest THEN Elapsed(t, s) ELSE Longest
<1> DEFINE e == Elapsed(now, s)
           w == Elapsed(now, last_write)
<1>0. /\ now \in Time /\ last_write \in Time /\ e \in Nat /\ w \in Nat
      /\ w <= WATCHDOG /\ e <= limit + w
      /\ ran = IF e < Longest THEN e ELSE Longest
  BY ElapsedFacts, Limits DEF TypeOK, AgeInv, Tracks
<1>1. limit \in Nat /\ limit + WATCHDOG + 1 < Wrap
  BY Limits
<1>2. CASE t = now
  <2>1. Elapsed(t, s) = e
    BY <1>2
  <2> HIDE DEF e, w
  <2> QED
    BY <1>0, <1>2, <2>1 DEF e
<1>3. CASE t # now
  <2>1. t = After(now)
    BY <1>3
  <2> HIDE DEF e, w
  <2>2. e + 1 < Wrap
    BY <1>0, <1>1, Limits
  <2>3. Elapsed(t, s) = e + 1
    BY <1>0, <2>1, <2>2, ElapsedFacts DEF e
  <2>4. Later(ran) = IF e + 1 < Longest THEN e + 1 ELSE Longest
    BY <1>0, Grows
  <2>5. e \in Nat /\ e + 1 \in Nat /\ e + 1 <= e + 1
    BY <1>0
  <2> QED
    BY <1>3, <2>3, <2>4, <2>5 DEF e
<1> QED
  BY <1>2, <1>3

\* What a frame leaves of the test it drives: a pulse with the age the clock
\* says, at most a tick older than when it was checked, a run of the switch
\* below its limit.
FrameAges(t) ==
  /\ ran' \in 0 .. Longest
  /\ bench_motor' # 0 =>
       /\ Elapsed(t, bench_started') \in Nat
       /\ Elapsed(t, bench_started') <= STEP
       /\ ran' = IF Elapsed(t, bench_started') < Longest
                 THEN Elapsed(t, bench_started') ELSE Longest
  /\ PulseDrives => ran' <= PULSE
  /\ switch_running' =>
       /\ Elapsed(t, run_ms') \in Nat
       /\ Elapsed(t, run_ms') < RUN
       /\ ran' = Elapsed(t, run_ms')

LEMMA MixerAges ==
  ASSUME BenchInv, NEW t \in {now, After(now)}, NEW flown, Mixer(t, flown)
  PROVE  FrameAges(t)
<1> DEFINE p == PulseNext(t)
           r == IF t = now THEN ran ELSE Later(ran)
<1>0. /\ TypeOK /\ Apart /\ AgeInv /\ now \in Time /\ t \in Time
      /\ bench_started \in Time /\ run_ms \in Time /\ ran \in 0 .. Longest
      /\ seq_step # 0 => bench_motor = seq_step
  BY ElapsedFacts DEF BenchInv, TypeOK
<1>1. /\ bench_motor' = p.motor /\ seq_step' = p.step /\ bench_started' = p.started
      /\ Switch(t)
      /\ ran' = IF \/ p.motor = 0 /\ ~switch_running'
                   \/ p.step # seq_step
                   \/ switch_running' /\ ~(switch_running /\ runs_on(t))
                THEN 0 ELSE r
  BY DEF Mixer
<1>2. /\ bench_motor = 0 => p.motor = 0 /\ p.step = 0
      /\ p.motor # 0 =>
           \/ /\ p.motor = bench_motor /\ p.step = seq_step /\ p.started = bench_started
              /\ Elapsed(now, bench_started) < STEP
           \/ p.step # seq_step /\ p.started = t
      /\ PulseDrives => p.motor = bench_motor /\ p.step = seq_step
  BY <1>0, PulseNextFacts
<1>3. /\ switch_running' => switch_enabled
      /\ switch_running' =>
           \/ /\ ~switch_running /\ run_ms' = t
           \/ /\ switch_running /\ runs_on(t) /\ run_ms' = run_ms
  BY <1>0, <1>1, SwitchFacts
<1>4. r \in 0 .. Longest
  BY <1>0, Limits DEF Later
<1>5. Elapsed(t, t) = 0
  BY <1>0, ElapsedFacts
<1> HIDE DEF p, r
<1>6. ran' \in 0 .. Longest
  BY <1>1, <1>4, Limits
<1>7. ASSUME bench_motor' # 0
      PROVE  /\ Elapsed(t, bench_started') \in Nat
             /\ Elapsed(t, bench_started') <= STEP
             /\ ran' = IF Elapsed(t, bench_started') < Longest
                       THEN Elapsed(t, bench_started') ELSE Longest
             /\ PulseDrives => ran' <= PULSE
  <2>1. bench_motor # 0 /\ ~switch_running' /\ p.motor # 0
    BY <1>0, <1>1, <1>2, <1>3, <1>7 DEF Apart
  <2>2. CASE p.step # seq_step /\ p.started = t
    BY <1>1, <1>5, <2>2, Limits
  <2>3. CASE /\ p.motor = bench_motor /\ p.step = seq_step /\ p.started = bench_started
             /\ Elapsed(now, bench_started) < STEP
    <3>1. Tracks(bench_started, STEP)
      BY <1>0, <2>1 DEF AgeInv
    <3> DEFINE e == Elapsed(t, bench_started)
               d == Elapsed(now, bench_started)
    <3>2. /\ e \in Nat /\ e <= d + 1 /\ r = IF e < Longest THEN e ELSE Longest
      BY <1>0, <3>1, Ages DEF r
    <3>3. ran' = r /\ bench_started' = bench_started
      BY <1>1, <2>1, <2>3
    <3>4. d \in Nat /\ d < STEP
      BY <1>0, <2>3, ElapsedFacts, Limits
    <3>5. PulseDrives => d < PULSE
      BY DEF PulseDrives
    <3> HIDE DEF e, d
    <3>6. e <= STEP
      BY <3>2, <3>4, Limits
    <3>7. PulseDrives => r <= PULSE
      BY <3>2, <3>4, <3>5, Limits
    <3> QED
      BY <3>2, <3>3, <3>6, <3>7 DEF e
  <2> QED
    BY <1>2, <2>1, <2>2, <2>3
<1>8. ASSUME switch_running'
      PROVE  /\ Elapsed(t, run_ms') \in Nat
             /\ Elapsed(t, run_ms') < RUN
             /\ ran' = Elapsed(t, run_ms')
  <2>1. p.step = seq_step
    BY <1>0, <1>2, <1>3, <1>8 DEF Apart
  <2>2. CASE ~switch_running /\ run_ms' = t
    BY <1>1, <1>5, <1>8, <2>2, Limits
  <2>3. CASE switch_running /\ runs_on(t) /\ run_ms' = run_ms
    <3>1. Tracks(run_ms, RUN)
      BY <1>0, <2>3 DEF AgeInv
    <3> DEFINE e == Elapsed(t, run_ms)
    <3>2. e \in Nat /\ r = IF e < Longest THEN e ELSE Longest
      BY <1>0, <3>1, Ages DEF r
    <3>3. e < RUN
      BY <2>3 DEF runs_on
    <3>4. ran' = r
      BY <1>1, <1>8, <2>1, <2>3
    <3> HIDE DEF e
    <3>5. r = e
      BY <3>2, <3>3, Limits
    <3> QED
      BY <2>3, <3>2, <3>3, <3>4, <3>5 DEF e
  <2> QED
    BY <1>3, <1>8, <2>2, <2>3
<1>9. PulseDrives => bench_motor' # 0
  BY <1>1, <1>2 DEF PulseDrives
<1> QED
  BY <1>6, <1>7, <1>8, <1>9 DEF FrameAges

LEMMA MixerKeeps ==
  ASSUME BenchInv, NEW t \in {now, After(now)}, NEW flown \in {{}, Motor}, Mixer(t, flown)
  PROVE  BenchInv'
<1> DEFINE p == PulseNext(t)
<1>0. /\ TypeOK /\ Apart /\ AgeInv /\ now \in Time /\ t \in Time
      /\ now' = t /\ last_write' = t
      /\ bench_motor' = p.motor /\ seq_step' = p.step /\ bench_started' = p.started
      /\ Switch(t) /\ frame' = Frame(flown) /\ pending' = drives
      /\ UNCHANGED envVars
  BY ElapsedFacts DEF BenchInv, TypeOK, Mixer
<1>1. /\ p.motor \in 0 .. MOTORS /\ p.step \in 0 .. MOTORS /\ p.started \in Time
      /\ p.step # 0 => p.motor = p.step
      /\ bench_motor = 0 => p.motor = 0 /\ p.step = 0
  BY <1>0, PulseNextFacts
<1> HIDE DEF p
<1>2. /\ switch_enabled' \in BOOLEAN /\ switch_low' \in BOOLEAN
      /\ switch_running' \in BOOLEAN /\ lowered' \in BOOLEAN
      /\ session_ms' \in Time /\ run_ms' \in Time /\ tick_ms' \in Time
      /\ switch_enabled' => switch_enabled
      /\ switch_running' => switch_enabled' /\ ~switch_low'
      /\ switch_low' => lowered'
  BY <1>0, SwitchFacts
<1>3. FrameAges(t)
  BY MixerAges
<1>4. frame' \in [by : {"none", "flight", "pulse", "switch"}, motors : SUBSET Motor]
  <2>1. PulseDrives => {bench_motor} \in SUBSET Motor
    BY <1>0, Limits DEF PulseDrives, TypeOK, Motor
  <2> QED
    BY <1>0, <2>1 DEF Frame, Zero
<1>5. TypeOK'
  <2>1. pending' \in BOOLEAN /\ ran' \in 0 .. Longest
    BY <1>0, <1>3 DEF drives, FrameAges
  <2>2. armed' \in BOOLEAN /\ usb' \in BOOLEAN /\ ready' \in BOOLEAN /\ aux' \in Aux
    BY <1>0 DEF TypeOK, envVars
  <2>3. /\ bench_motor' \in 0 .. MOTORS /\ seq_step' \in 0 .. MOTORS
        /\ bench_started' \in Time /\ (seq_step' # 0 => bench_motor' = seq_step')
        /\ now' \in Time /\ last_write' \in Time
    BY <1>0, <1>1
  <2> QED
    BY <1>2, <1>4, <2>1, <2>2, <2>3 DEF TypeOK
<1>6. Apart'
  BY <1>0, <1>1, <1>2 DEF Apart
<1>7. AgeInv'
  <2>1. Elapsed(now', last_write') = 0
    BY <1>0, ElapsedFacts
  <2>2. ASSUME NEW e \in Nat, NEW limit \in Nat, e <= limit PROVE e <= limit + 0
    BY <2>2
  <2>3. bench_motor' # 0 =>
          /\ Elapsed(now', bench_started') <= STEP + 0
          /\ ran' = IF Elapsed(now', bench_started') < Longest
                    THEN Elapsed(now', bench_started') ELSE Longest
    BY <1>0, <1>3, <2>2, Limits DEF FrameAges
  <2>4. switch_running' =>
          /\ Elapsed(now', run_ms') <= RUN + 0
          /\ ran' = IF Elapsed(now', run_ms') < Longest
                    THEN Elapsed(now', run_ms') ELSE Longest
    <3>1. ASSUME NEW e \in Nat, e < RUN PROVE e <= RUN + 0 /\ e < Longest
      BY <3>1, Limits
    <3> QED
      BY <1>0, <1>3, <3>1 DEF FrameAges
  <2>5. 0 <= WATCHDOG
    BY Limits
  <2> QED
    BY <2>1, <2>3, <2>4, <2>5 DEF AgeInv, Tracks
<1> QED
  BY <1>5, <1>6, <1>7 DEF BenchInv

LEMMA BenchStep == BenchInv /\ [Next]_vars => BenchInv'
<1> SUFFICES ASSUME BenchInv, [Next]_vars PROVE BenchInv'
  OBVIOUS
<1>1. CASE Tick
  BY <1>1, TickKeeps
<1>2. CASE Reset
  BY <1>2, ResetKeeps
<1>3. CASE Environment
  BY <1>3, EnvironmentKeeps
<1>4. CASE Stop
  BY <1>4, StopKeeps
<1>5. CASE SwitchStart
  BY <1>5, SwitchStartKeeps
<1>6. CASE \E m \in Motor, step \in {0, 1} : Pulse(m, step)
  BY <1>6, PulseKeeps
<1>7. CASE Loop
  BY <1>7, MixerKeeps DEF Loop
<1>8. CASE UNCHANGED vars
  BY <1>8 DEF vars, envVars, pulseVars, switchVars, BenchInv, TypeOK, Apart, AgeInv, Tracks
<1> QED
  BY <1>1, <1>2, <1>3, <1>4, <1>5, <1>6, <1>7, <1>8 DEF Next, Commands

\* In every reachable state a test that drives a motor is as old as the
\* wrapping clock says it is, at most one late frame past its limit, and a pulse
\* and a switch session exclude each other: bench_motor_pulse(), the sequence and
\* bench_switch_output() of sched/tasks.c, whatever the clock width.
THEOREM BenchInvariant == Spec => []BenchInv
<1>1. Init => BenchInv
  BY InitKeeps
<1>2. BenchInv /\ [Next]_vars => BenchInv'
  BY BenchStep
<1> QED
  BY <1>1, <1>2, PTL DEF Spec

-----------------------------------------------------------------------------
(* What a step may never do.                                               *)

Bounded ==
  /\ frame' # frame \/ last_write' # last_write =>
       /\ frame'.by = "pulse" => ran' <= PULSE
       /\ frame'.by = "switch" => ran' < RUN
       /\ armed => frame'.by \in {"none", "flight"}
  /\ switch_running' /\ ~switch_running => lowered

LEMMA MixerBounded ==
  ASSUME BenchInv, NEW t \in {now, After(now)}, NEW flown \in {{}, Motor}, Mixer(t, flown)
  PROVE  Bounded
<1>0. /\ TypeOK /\ Apart /\ AgeInv /\ t \in Time /\ Switch(t) /\ frame' = Frame(flown)
  BY ElapsedFacts DEF BenchInv, TypeOK, Mixer
<1>1. /\ switch_running' => ~armed
      /\ switch_running' /\ ~switch_running => lowered
  BY <1>0, SwitchFacts DEF switch_blocker, unsafe
<1>2. PulseDrives => ~armed
  BY DEF PulseDrives, unsafe
<1>3. /\ frame'.by \in {"none", "flight", "pulse", "switch"}
      /\ frame'.by = "pulse" => PulseDrives
      /\ frame'.by = "switch" => switch_running'
  BY <1>0 DEF Frame, Zero
<1>4. PulseDrives => ran' <= PULSE
  BY MixerAges DEF FrameAges
<1>5. switch_running' => ran' < RUN
  BY MixerAges DEF FrameAges
<1> QED
  BY <1>1, <1>2, <1>3, <1>4, <1>5 DEF Bounded

LEMMA StepBounded == BenchInv /\ [Next]_vars => [Bounded]_vars
<1> SUFFICES ASSUME BenchInv, Next PROVE Bounded
  OBVIOUS
<1>1. CASE Reset
  BY <1>1 DEF Reset, Zero, Bounded
<1>2. CASE Loop
  BY <1>2, MixerBounded DEF Loop
<1>3. CASE Tick
  BY <1>3 DEF Tick, switchVars, Bounded
<1>4. CASE Environment
  BY <1>4 DEF Environment, switchVars, Bounded
<1>5. CASE Commands
  <2>1. UNCHANGED <<frame, last_write>>
    BY <1>5 DEF Commands, Stop, SwitchStart, Pulse, Cli
  <2>2. switch_running' => switch_running
    BY <1>5 DEF Commands, Stop, SwitchOff, SwitchStart, Pulse, switchVars
  <2> QED
    BY <2>1, <2>2 DEF Bounded
<1> QED
  BY <1>1, <1>2, <1>3, <1>4, <1>5 DEF Next

\* No frame of loop_mixer_dshot() drives a pulse past its limit or a switch run
\* up to its own in real milliseconds, an armed craft is never driven by a test,
\* and a switch run starts only after a low switch, for every clock width, limit,
\* watchdog period and number of motors.
THEOREM TestsBounded == Spec => DriveBounded
<1>1. BenchInv /\ [Next]_vars => [Bounded]_vars
  BY StepBounded
<1> QED
  BY <1>1, BenchInvariant, PTL DEF Spec, DriveBounded, Bounded

-----------------------------------------------------------------------------
(* The configuration store.                                                *)

\* the steps of a save that may change the flash, and the slot it keeps
WriteSteps == {"erase", "program", "readback", "seal", "check"}
Kept == 1 - target

\* Of two records the newer is the successor of the older.
Adjacent == record_valid(slot[0]) /\ record_valid(slot[1]) =>
              \/ slot[0].gen = NextGen(slot[1].gen)
              \/ slot[1].gen = NextGen(slot[0].gen)

\* A save erases the older record only, and numbers the new one after the record
\* it keeps, when there is one.
WriteInv ==
    /\ pc \in WriteSteps => /\ want \in tried
                            /\ record_valid(slot[Kept]) => next = NextGen(slot[Kept].gen)
    /\ pc = "erase" /\ record_valid(slot[target]) =>
         record_valid(slot[Kept]) /\ slot[Kept].gen = NextGen(slot[target].gen)
    /\ pc = "program" => slot[target].kind = "erased"
    /\ pc \in {"readback", "seal"} =>
         slot[target] = [kind |-> "open", gen |-> next, data |-> want]
    /\ pc = "check" => slot[target] = [kind |-> "sealed", gen |-> next, data |-> want]

\* A save that is not over has been tried; what persist.c holds as saved is on
\* flash until a save fails.
SaveInv ==
    /\ pc = "verify" => want \in tried
    /\ pc = "idle" /\ saved # None /\ last_error # "error" => Loaded = saved

StoreInv == Adjacent /\ WriteInv /\ SaveInv /\ Durable

-----------------------------------------------------------------------------
(* Generations and the choice of the record.                               *)

\* The successor of a generation is newer than it, also across the wrap, and
\* never the other way round.
LEMMA NextGenIsNewer ==
    ASSUME NEW g \in Gen
    PROVE  NextGen(g) \in Gen /\ newer(NextGen(g), g) /\ ~newer(g, NextGen(g))
  BY StoreAssumption DEF Gen, NextGen, newer

\* choose() returns the record numbered after the other one, or the only one.
LEMMA ChooseFacts ==
    ASSUME NEW f \in [Slot -> Record], NEW t \in Slot,
           record_valid(f[t]),
           record_valid(f[1 - t]) => f[t].gen = NextGen(f[1 - t].gen)
    PROVE  choose(f) = t
<1>1. f[0].gen \in Gen /\ f[1].gen \in Gen
  BY DEF Record, Slot
<1>2. CASE t = 0
  BY <1>1, <1>2, NextGenIsNewer DEF choose
<1>3. CASE t = 1
  BY <1>1, <1>3, NextGenIsNewer DEF choose, NoSlot
<1> QED
  BY <1>2, <1>3 DEF Slot

\* Without a record it returns none.
LEMMA ChooseNone ==
    ASSUME NEW f
    PROVE  choose(f) = NoSlot <=> ~record_valid(f[0]) /\ ~record_valid(f[1])
  BY DEF choose, NoSlot

\* A slot chosen among adjacent records is the newer one.
LEMMA ChosenIsNewest ==
    ASSUME StoreTypeOK, Adjacent, choose(slot) # NoSlot
    PROVE  /\ choose(slot) \in Slot /\ record_valid(slot[choose(slot)])
           /\ record_valid(slot[1 - choose(slot)]) =>
                slot[choose(slot)].gen = NextGen(slot[1 - choose(slot)].gen)
<1>1. slot[0].gen \in Gen /\ slot[1].gen \in Gen
  BY DEF StoreTypeOK, Record, Slot
<1>2. choose(slot) = 0 \/ choose(slot) = 1
  BY DEF choose, NoSlot
<1>3. CASE choose(slot) = 0
  BY <1>1, <1>3, NextGenIsNewer DEF choose, NoSlot, Adjacent, Slot
<1>4. CASE choose(slot) = 1
  BY <1>1, <1>4, NextGenIsNewer DEF choose, NoSlot, Adjacent, Slot
<1> QED
  BY <1>2, <1>3, <1>4

-----------------------------------------------------------------------------
(* Types.                                                                  *)

\* What an operation that fails leaves in a slot is a slot.
LEMMA PartialTypes ==
    ASSUME StoreTypeOK, NEW s \in Partial(target)
    PROVE  [slot EXCEPT ![target] = s] \in [Slot -> Record]
  BY DEF StoreTypeOK, Partial, Record, Kind

\* Every step keeps every variable in its type.
LEMMA TypeStep == StoreTypeOK /\ [StoreNext]_storeVars => StoreTypeOK'
<1> SUFFICES ASSUME StoreTypeOK, [StoreNext]_storeVars PROVE StoreTypeOK'
  OBVIOUS
<1>0. 1 \in Gen
  BY StoreAssumption DEF Gen
<1>1. ASSUME NEW restored \in BOOLEAN, Load(restored) PROVE StoreTypeOK'
  <2>1. Loaded # None => Loaded \in Payload
    BY DEF Loaded, StoreTypeOK, Record, choose, NoSlot, Slot
  <2> QED
    BY <1>1, <2>1, StoreAssumption DEF Load, StoreTypeOK, Steps, flashVars, histVars
<1>2. CASE Save
  <2>1. next' \in Gen /\ target' \in Slot
    BY <1>2, <1>0, NextGenIsNewer DEF Save, StoreTypeOK, Record, choose, NoSlot, Slot, Target
  <2> QED
    BY <1>2, <2>1 DEF Save, StoreTypeOK, Steps, ramVars
<1>3. CASE SaveRefused
  BY <1>3 DEF SaveRefused, StoreTypeOK, flashVars, histVars
<1>4. CASE Writing
  <2>1. slot' \in [Slot -> Record]
    BY <1>4 DEF Writing, Erase, Program, Readback, Seal, Check, Verify, StoreTypeOK, Record, Kind,
                flashVars
  <2> QED
    BY <1>4, <2>1 DEF Writing, Erase, Program, Readback, Seal, Check, Verify, StoreTypeOK, Steps,
                      flashVars, ramVars, histVars
<1>5. CASE Fail
  BY <1>5, PartialTypes DEF Fail, StoreTypeOK, Steps, histVars
<1>6. CASE PowerLoss
  BY <1>6, PartialTypes, StoreAssumption DEF PowerLoss, StoreTypeOK, Steps, histVars
<1>7. CASE SetBusy
  BY <1>7 DEF SetBusy, StoreTypeOK, flashVars, ramVars, histVars
<1>8. ASSUME NEW p \in Payload, Edit(p) PROVE StoreTypeOK'
  BY <1>8 DEF Edit, StoreTypeOK, flashVars, histVars
<1>9. CASE UNCHANGED storeVars
  BY <1>9 DEF storeVars, StoreTypeOK, flashVars, ramVars, histVars
<1> QED
  BY <1>1, <1>2, <1>3, <1>4, <1>5, <1>6, <1>7, <1>8, <1>9 DEF StoreNext

\* The state stays in its types.
THEOREM StoreTypeCorrect == StoreSpec => []StoreTypeOK
<1>1. StoreInit => StoreTypeOK
  <2>1. \A k \in {"erased", "foreign"} : [kind |-> k, gen |-> 0, data |-> Default] \in Record
    BY StoreAssumption DEF Record, Kind, Gen
  <2>2. StoreInit => slot \in [Slot -> Record]
    BY <2>1 DEF StoreInit
  <2>3. 0 \in Gen
    BY StoreAssumption DEF Gen
  <2>4. StoreInit => /\ pc \in Steps /\ target \in Slot /\ next \in Gen
                /\ want \in Payload /\ run \in Payload /\ saved = None
    BY <2>3, StoreAssumption DEF StoreInit, Slot, Steps
  <2>5. StoreInit => /\ load_error \in BOOLEAN /\ last_error \in {"none", "empty", "error"}
                /\ busy \in BOOLEAN /\ acked = None /\ tried \subseteq Payload
    BY DEF StoreInit
  <2> QED
    BY <2>2, <2>4, <2>5 DEF StoreTypeOK
<1> QED
  BY <1>1, TypeStep, PTL DEF StoreSpec

-----------------------------------------------------------------------------
(* The inductive invariant.                                                *)

\* A slot that is not the record chosen may lose or change what it holds, as
\* long as it does not become a record: the next boot restores the same.
LEMMA KeptIsLoaded ==
    ASSUME StoreTypeOK, StoreTypeOK', Adjacent,
           slot'[Kept] = slot[Kept], ~record_valid(slot[target]'),
           target' = target,
           record_valid(slot[target]) =>
             record_valid(slot[Kept]) /\ slot[Kept].gen = NextGen(slot[target].gen)
    PROVE  Adjacent' /\ Loaded' = Loaded
<1>1. Kept \in Slot /\ 1 - Kept = target /\ Kept' = Kept /\ slot \in [Slot -> Record]
      /\ slot' \in [Slot -> Record]
  BY DEF StoreTypeOK, Kept, Slot
<1>2. CASE record_valid(slot[Kept])
  <2>1. choose(slot) = Kept
    BY <1>1, <1>2, ChooseFacts
  <2>2. choose(slot)' = Kept
    BY <1>1, <1>2, ChooseFacts
  <2> QED
    BY <1>1, <1>2, <2>1, <2>2 DEF Loaded, NoSlot, Adjacent, Slot
<1>3. CASE ~record_valid(slot[Kept])
  BY <1>1, <1>3, ChooseNone DEF Loaded, Adjacent, Slot
<1> QED
  BY <1>2, <1>3

\* A record sealed after the kept one is the one the next boot restores.
LEMMA SealedIsLoaded ==
    ASSUME StoreTypeOK, StoreTypeOK', target' = target, slot'[Kept] = slot[Kept],
           record_valid(slot[target]'), slot'[target].gen = next,
           record_valid(slot[Kept]) => next = NextGen(slot[Kept].gen)
    PROVE  Adjacent' /\ Loaded' = slot'[target].data
<1>1. Kept \in Slot /\ 1 - target = Kept /\ slot' \in [Slot -> Record] /\ target \in Slot
  BY DEF StoreTypeOK, Kept, Slot
<1>2. choose(slot)' = target
  BY <1>1, ChooseFacts
<1> QED
  BY <1>1, <1>2 DEF Loaded, NoSlot, Adjacent, Slot, Kept

\* What is left of a slot when the operation at pc ends early.
LEMMA PartialCases ==
    ASSUME NEW i, NEW s \in Partial(i)
    PROVE  \/ s = slot[i]
           \/ pc = "erase" /\ \E k \in {"torn", "erased"} : s = [slot[i] EXCEPT !.kind = k]
           \/ pc = "program" /\ \E k \in {"torn", "foreign"} : s = [slot[i] EXCEPT !.kind = k]
           \/ pc = "seal" /\ \E k \in {"torn", "sealed"} : s = [slot[i] EXCEPT !.kind = k]
  BY DEF Partial

\* What an operation that fails or is cut short leaves restores the settings as
\* before it, or the ones it was saving.
LEMMA CutShort ==
    ASSUME StoreTypeOK, StoreTypeOK', Adjacent, WriteInv, target' = target,
           NEW s \in Partial(target), slot' = [slot EXCEPT ![target] = s]
    PROVE  Adjacent' /\ (Loaded' = Loaded \/ (pc \in WriteSteps /\ Loaded' = want))
<1>0. /\ Kept \in Slot /\ Kept # target /\ slot'[Kept] = slot[Kept] /\ slot'[target] = s
      /\ slot[target] \in Record
  BY DEF StoreTypeOK, Kept, Slot
<1>1. CASE s = slot[target]
  <2>1. slot' = slot
    BY <1>0, <1>1 DEF StoreTypeOK
  <2> QED
    BY <2>1 DEF Adjacent, Loaded
<1>2. ASSUME pc \in {"erase", "program"},
             NEW k \in {"torn", "erased", "foreign"}, s = [slot[target] EXCEPT !.kind = k]
      PROVE  Adjacent' /\ Loaded' = Loaded
  <2>1. ~record_valid(s)
    BY <1>0, <1>2 DEF record_valid, Record
  <2>2. record_valid(slot[target]) =>
          record_valid(slot[Kept]) /\ slot[Kept].gen = NextGen(slot[target].gen)
    BY <1>2 DEF WriteInv, record_valid
  <2> QED
    BY <1>0, <2>1, <2>2, KeptIsLoaded
<1>3. CASE pc = "seal" /\ s = [slot[target] EXCEPT !.kind = "torn"]
  <2>1. ~record_valid(s) /\ ~record_valid(slot[target])
    BY <1>0, <1>3 DEF WriteInv, record_valid, Record
  <2> QED
    BY <1>0, <2>1, KeptIsLoaded
<1>4. CASE pc = "seal" /\ s = [slot[target] EXCEPT !.kind = "sealed"]
  <2>1. s = [kind |-> "sealed", gen |-> next, data |-> want]
    BY <1>4 DEF WriteInv
  <2>2. record_valid(slot[Kept]) => next = NextGen(slot[Kept].gen)
    BY <1>4 DEF WriteInv, WriteSteps
  <2> QED
    BY <1>0, <1>4, <2>1, <2>2, SealedIsLoaded DEF WriteSteps, record_valid
<1> QED
  BY <1>1, <1>2, <1>3, <1>4, PartialCases
\* A save starts on the older slot, or on blank flash.
LEMMA SaveKeeps == StoreTypeOK /\ StoreInv /\ Save => StoreInv'
<1> SUFFICES ASSUME StoreTypeOK, StoreInv, Save PROVE StoreInv'
  OBVIOUS
<1> DEFINE c == choose(slot)
<1>0. slot' = slot /\ Loaded' = Loaded /\ Adjacent'
  BY DEF Save, Loaded, StoreInv, Adjacent
<1>1. want' \in tried' /\ acked' = acked /\ tried \subseteq tried'
  BY DEF Save
<1>2. CASE pc' = "verify"
  <2>1. Loaded' = want'
    BY <1>0, <1>2 DEF Save
  <2> QED
    BY <1>0, <1>1, <1>2, <2>1 DEF StoreInv, WriteInv, WriteSteps, SaveInv, Durable
<1>3. CASE pc' = "erase"
  <2>1. CASE c = NoSlot
    <3>1. ~record_valid(slot[0]) /\ ~record_valid(slot[1])
      BY <2>1, ChooseNone
    <3>2. target' = 0 /\ Kept' = 1
      BY <2>1 DEF Save, Target, NoSlot, Kept
    <3> QED
      BY <1>0, <1>1, <1>3, <3>1, <3>2 DEF StoreInv, WriteInv, WriteSteps, SaveInv, Durable
  <2>2. CASE c # NoSlot
    <3>1. /\ c \in Slot /\ record_valid(slot[c])
          /\ record_valid(slot[1 - c]) => slot[c].gen = NextGen(slot[1 - c].gen)
      BY <2>2, ChosenIsNewest DEF StoreInv
    <3>2. target' = 1 - c /\ Kept' = c /\ next' = NextGen(slot[c].gen)
      BY <2>2, <3>1 DEF Save, Target, Slot, Kept
    <3> QED
      BY <1>0, <1>1, <1>3, <3>1, <3>2 DEF StoreInv, WriteInv, WriteSteps, SaveInv, Durable
  <2> QED
    BY <2>1, <2>2
<1> QED
  BY <1>2, <1>3 DEF Save

\* Each step of a write keeps the invariant: the record it replaces is never the
\* one the next boot restores, until the new one is sealed.
LEMMA WritingKeeps == StoreTypeOK /\ StoreTypeOK' /\ StoreInv /\ Writing => StoreInv'
<1> SUFFICES ASSUME StoreTypeOK, StoreTypeOK', StoreInv, Writing PROVE StoreInv'
  OBVIOUS
<1>0. Kept \in Slot /\ Kept # target /\ slot \in [Slot -> Record] /\ target \in Slot
  BY DEF StoreTypeOK, Kept, Slot
<1>1. CASE Erase
  <2>1. /\ target' = target /\ slot'[Kept] = slot[Kept] /\ slot'[target].kind = "erased"
        /\ want' = want /\ tried' = tried /\ acked' = acked /\ next' = next
        /\ pc = "erase" /\ pc' = "program" /\ Kept' = Kept
    BY <1>0, <1>1 DEF Erase, histVars, Kept, Record
  <2>2. Adjacent' /\ Loaded' = Loaded
    BY <2>1, KeptIsLoaded DEF StoreInv, WriteInv, record_valid
  <2> QED
    BY <2>1, <2>2 DEF StoreInv, WriteInv, WriteSteps, SaveInv, Durable
<1>2. CASE Program
  <2>1. /\ target' = target /\ slot'[Kept] = slot[Kept]
        /\ slot'[target] = [kind |-> "open", gen |-> next, data |-> want]
        /\ want' = want /\ tried' = tried /\ acked' = acked /\ next' = next
        /\ pc = "program" /\ pc' = "readback" /\ Kept' = Kept
    BY <1>0, <1>2 DEF Program, histVars, Kept
  <2>2. Adjacent' /\ Loaded' = Loaded
    BY <2>1, KeptIsLoaded DEF StoreInv, WriteInv, record_valid
  <2> QED
    BY <2>1, <2>2 DEF StoreInv, WriteInv, WriteSteps, SaveInv, Durable
<1>3. CASE Readback
  <2>1. slot' = slot /\ Loaded' = Loaded /\ Kept' = Kept /\ Adjacent'
    BY <1>3 DEF Readback, flashVars, Loaded, Kept, StoreInv, Adjacent
  <2> QED
    BY <1>3, <2>1
       DEF Readback, flashVars, histVars, StoreInv, WriteInv, WriteSteps, SaveInv, Durable
<1>4. CASE Seal
  <2>1. /\ target' = target /\ slot'[Kept] = slot[Kept]
        /\ slot'[target] = [kind |-> "sealed", gen |-> next, data |-> want]
        /\ want' = want /\ tried' = tried /\ acked' = acked /\ next' = next
        /\ pc = "seal" /\ pc' = "check" /\ Kept' = Kept
    BY <1>0, <1>4 DEF Seal, histVars, Kept, StoreInv, WriteInv
  <2>2. record_valid(slot[Kept]) => next = NextGen(slot[Kept].gen)
    BY <2>1 DEF StoreInv, WriteInv, WriteSteps
  <2>3. Adjacent' /\ Loaded' = want
    BY <2>1, <2>2, SealedIsLoaded DEF record_valid
  <2>4. want \in tried
    BY <2>1 DEF StoreInv, WriteInv, WriteSteps
  <2> QED
    BY <2>1, <2>2, <2>3, <2>4 DEF StoreInv, WriteInv, WriteSteps, SaveInv, Durable
<1>5. CASE Check
  <2>1. slot' = slot /\ target' = target /\ Adjacent'
        /\ want' = want /\ tried' = tried /\ acked' = acked /\ next' = next
        /\ pc = "check" /\ pc' = "verify"
    BY <1>5 DEF Check, flashVars, histVars, StoreInv, Adjacent
  <2>2. Loaded' = want
    BY <2>1, SealedIsLoaded DEF StoreInv, WriteInv, WriteSteps, record_valid
  <2>3. want \in tried
    BY <2>1 DEF StoreInv, WriteInv, WriteSteps
  <2> QED
    BY <2>1, <2>2, <2>3 DEF StoreInv, WriteInv, WriteSteps, SaveInv, Durable
<1>6. CASE Verify
  <2>1. slot' = slot /\ Loaded' = Loaded /\ Adjacent' /\ pc' = "idle"
        /\ Loaded = want /\ saved' = want /\ acked' = want
    BY <1>6 DEF Verify, flashVars, StoreInv, Adjacent, Loaded
  <2> QED
    BY <2>1 DEF StoreInv, WriteInv, WriteSteps, SaveInv, Durable
<1> QED
  BY <1>1, <1>2, <1>3, <1>4, <1>5, <1>6 DEF Writing

\* So does every other step; a failed write, or one a power cut ended, restores
\* what was there or what was being saved.
LEMMA StoreStep == StoreTypeOK /\ StoreInv /\ [StoreNext]_storeVars => StoreInv'
<1> SUFFICES ASSUME StoreTypeOK, StoreInv, [StoreNext]_storeVars PROVE StoreInv'
  OBVIOUS
<1>0. StoreTypeOK'
  BY TypeStep
<1>1. ASSUME NEW restored \in BOOLEAN, Load(restored) PROVE StoreInv'
  <2>1. slot' = slot /\ Loaded' = Loaded /\ Adjacent'
    BY <1>1 DEF Load, flashVars, StoreInv, Adjacent, Loaded
  <2> QED
    BY <1>1, <2>1 DEF Load, histVars, StoreInv, WriteInv, WriteSteps, SaveInv, Durable
<1>2. CASE Save
  BY <1>2, SaveKeeps
<1>3. CASE SaveRefused
  <2>1. slot' = slot /\ Loaded' = Loaded /\ Adjacent'
    BY <1>3 DEF SaveRefused, flashVars, StoreInv, Adjacent, Loaded
  <2> QED
    BY <1>3, <2>1 DEF SaveRefused, histVars, StoreInv, WriteInv, WriteSteps, SaveInv, Durable
<1>4. CASE Writing
  BY <1>0, <1>4, WritingKeeps
<1>5. CASE Fail \/ PowerLoss
  <2>1. PICK s \in Partial(target) : slot' = [slot EXCEPT ![target] = s]
    BY <1>5 DEF Fail, PowerLoss
  <2>2. /\ target' = target /\ tried' = tried /\ acked' = acked /\ pc' \in {"idle", "boot"}
        /\ pc' = "idle" => last_error' = "error"
    BY <1>5 DEF Fail, PowerLoss, histVars
  <2>3. Adjacent' /\ (Loaded' = Loaded \/ (pc \in WriteSteps /\ Loaded' = want))
    BY <1>0, <2>1, <2>2, CutShort DEF StoreInv
  <2>4. pc \in WriteSteps => want \in tried
    BY DEF StoreInv, WriteInv
  <2> QED
    BY <2>2, <2>3, <2>4 DEF StoreInv, WriteInv, WriteSteps, SaveInv, Durable
<1>6. CASE SetBusy \/ \E p \in Payload : Edit(p)
  <2>1. slot' = slot /\ Loaded' = Loaded /\ Adjacent'
    BY <1>6 DEF SetBusy, Edit, flashVars, StoreInv, Adjacent, Loaded
  <2> QED
    BY <1>6, <2>1
       DEF SetBusy, Edit, ramVars, histVars, StoreInv, WriteInv, WriteSteps, SaveInv, Durable
<1>7. CASE UNCHANGED storeVars
  <2>1. slot' = slot /\ Loaded' = Loaded /\ Adjacent' /\ Kept' = Kept
    BY <1>7 DEF storeVars, flashVars, StoreInv, Adjacent, Loaded, Kept
  <2> QED
    BY <1>7, <2>1
       DEF storeVars, flashVars, ramVars, histVars, StoreInv, WriteInv, WriteSteps, SaveInv, Durable
<1> QED
  BY <1>1, <1>2, <1>3, <1>4, <1>5, <1>6, <1>7 DEF StoreNext

\* The invariant of the store holds throughout, power cuts included.
THEOREM StoreInvariant == StoreSpec => []StoreInv
<1>1. StoreInit => StoreInv
  <2>1. StoreInit => \A i \in Slot : ~record_valid(slot[i])
    <3> SUFFICES ASSUME StoreInit, NEW i \in Slot PROVE ~record_valid(slot[i])
      OBVIOUS
    <3>1. slot[i] \in {[kind |-> k, gen |-> 0, data |-> Default] : k \in {"erased", "foreign"}}
      BY DEF StoreInit
    <3> QED
      BY <3>1 DEF record_valid
  <2>2. StoreInit => pc = "boot" /\ acked = None
    BY DEF StoreInit
  <2> QED
    BY <2>1, <2>2 DEF StoreInv, Adjacent, WriteInv, WriteSteps, SaveInv, Durable, Slot
<1> QED
  BY <1>1, StoreStep, StoreTypeCorrect, PTL DEF StoreSpec

\* For every set of settings and every counter width: whatever is cut short, the
\* next boot restores the last settings reported as saved, or those of a later
\* save that did not report.
THEOREM SavedSurvives == StoreSpec => []Durable
<1>1. StoreInv => Durable
  BY DEF StoreInv
<1> QED
  BY <1>1, StoreInvariant, PTL

\* The storage state shows "saved" only while the next boot restores exactly the
\* settings in RAM.
THEOREM SavedIsRestored == StoreSpec => []SavedMeansRestored
<1>1. StoreInv => SavedMeansRestored
  BY DEF StoreInv, SaveInv, SavedMeansRestored, persist_state, persist_dirty
<1> QED
  BY <1>1, StoreInvariant, PTL

-----------------------------------------------------------------------------
(* The connection.                                                         *)

OpRecord == [by : {"page", "demo", "disconnect"}, to : Ports \cup {NoOne},
             at : {"closing", "refused", "opening", "banner"}, dev : Usb \cup {NoOne},
             mine : BOOLEAN, owns : BOOLEAN]

PollRecord == [confirms : BOOLEAN, at : {"version", "status"}, sent : Ports \cup {NoOne},
               version : Ports \cup {NoOne}, conn : BOOLEAN, flash : BOOLEAN,
               expect : Boards \cup {NoOne}, owns : BOOLEAN]

\* The types; a connect has a port to go to, a disconnect only closes, and the
\* demo port never takes time to open.
ConnectionTypeOK ==
  /\ status \in {"disconnected", "connecting", "connected", "error"}
  /\ port \in Ports \cup {NoOne} /\ open \subseteq Ports
  /\ ops \subseteq OpRecord /\ polls \subseteq PollRecord
  /\ live \in BOOLEAN /\ gate \in Boards \cup {NoOne}
  /\ \A o \in ops : /\ o.by = "disconnect" => o.at = "closing"
                    /\ o.by # "disconnect" => o.to \in Ports
                    /\ o.at = "opening" => o.to \in Usb

\* The client's port is attached, a port that closes is attached and is no longer
\* the client's, and nobody else closes it.
PortInv ==
  /\ port # NoOne => port \in open
  /\ \A o \in ops : o.dev # NoOne => o.dev \in open /\ o.dev # port
  /\ \A o, q \in ops : o.dev # NoOne /\ o.dev = q.dev => o = q

\* A command on the wire went to a port that is not closing, and to one that is
\* attached as long as no status event came in between.
SentInv ==
  \A p \in polls : p.sent # NoOne =>
    /\ \A o \in ops : o.dev # p.sent
    /\ p.conn => p.sent \in open

\* A poll that no flash has overtaken expects the board of the lock.
ExpectInv == gate # NoOne => \A p \in polls : p.flash => p.expect = gate

ConnectionInv == ConnectionTypeOK /\ PortInv /\ SentInv /\ ExpectInv

-----------------------------------------------------------------------------
(* The pieces the steps share.                                             *)

\* What a connect or disconnect under way is, whatever else changes.
Sound(o) == /\ o \in OpRecord
            /\ o.by = "disconnect" => o.at = "closing"
            /\ o.by # "disconnect" => o.to \in Ports
            /\ o.at = "opening" => o.to \in Usb

\* PortInv in terms of one port, the attached ports and the calls under way.
PortsFit(p, up, calls) ==
  /\ p # NoOne => p \in up
  /\ \A o \in calls : o.dev # NoOne => o.dev \in up /\ o.dev # p
  /\ \A o, q \in calls : o.dev # NoOne /\ o.dev = q.dev => o = q

LEMMA OpsSound == ConnectionTypeOK <=> /\ status \in {"disconnected", "connecting", "connected", "error"}
                             /\ port \in Ports \cup {NoOne} /\ open \subseteq Ports
                             /\ polls \subseteq PollRecord
                             /\ live \in BOOLEAN /\ gate \in Boards \cup {NoOne}
                             /\ \A o \in ops : Sound(o)
  BY DEF ConnectionTypeOK, Sound

\* A newer attempt leaves the calls under way what they are.
LEMMA OutdatedFit ==
  ASSUME NEW p, NEW up, \A o \in ops : Sound(o), PortsFit(p, up, ops)
  PROVE  /\ \A o \in Outdated : Sound(o) /\ \E q \in ops : q.dev = o.dev
         /\ PortsFit(p, up, Outdated)
<1>1. ASSUME NEW o \in Outdated
      PROVE  Sound(o) /\ \E q \in ops : o = [q EXCEPT !.mine = FALSE] /\ q.dev = o.dev
  <2>1. PICK q \in ops : o = [q EXCEPT !.mine = FALSE]
    BY DEF Outdated
  <2>2. q \in OpRecord /\ Sound(q)
    BY DEF Sound
  <2> QED
    BY <2>1, <2>2 DEF Sound, OpRecord
<1>2. ASSUME NEW o \in Outdated, NEW q \in Outdated, o.dev # NoOne, o.dev = q.dev
      PROVE  o = q
  <2>1. PICK oo \in ops : o = [oo EXCEPT !.mine = FALSE] /\ oo.dev = o.dev
    BY <1>1
  <2>2. PICK qq \in ops : q = [qq EXCEPT !.mine = FALSE] /\ qq.dev = q.dev
    BY <1>1
  <2>3. oo = qq
    BY <1>2, <2>1, <2>2 DEF PortsFit
  <2> QED
    BY <2>1, <2>2, <2>3
<1>3. \A o \in Outdated : o.dev # NoOne => o.dev \in up /\ o.dev # p
  BY <1>1 DEF PortsFit
<1> QED
  BY <1>1, <1>2, <1>3 DEF PortsFit

\* connect() with nothing left to close attaches the demo port, or detaches it.
LEMMA OpensFit ==
  ASSUME ConnectionTypeOK, NEW op, Sound(op), op.by # "disconnect",
         NEW others, \A o \in others : Sound(o),
         PortsFit(port, open, others),
         op.dev # NoOne => op.dev # port /\ \A o \in others : o.dev # op.dev,
         Opens(op, others)
  PROVE  /\ status' \in {"disconnected", "connecting", "connected", "error"}
         /\ port' \in Ports \cup {NoOne} /\ open' \subseteq Ports /\ live' \in BOOLEAN
         /\ \A o \in ops' : Sound(o) /\ (o.dev # NoOne => o \in others)
         /\ PortsFit(port', open', ops')
<1>0. /\ op \in OpRecord /\ Mock \in Ports /\ Mock \notin Usb /\ NoOne \notin Ports
      /\ op.to \in Ports /\ (op.to # Mock => op.to \in Usb)
      /\ \A o \in others : o \in OpRecord /\ o.dev \in Usb \cup {NoOne}
  BY ConnectionAssumption DEF Sound, OpRecord, Ports
<1>1. CASE op.to = Mock
  <2> DEFINE new == [op EXCEPT !.at = "banner", !.dev = NoOne]
  <2>1. /\ status' = "connected" /\ live' \in BOOLEAN
        /\ port' = Mock /\ open' = (open \ {op.dev}) \cup {Mock} /\ ops' = others \cup {new}
    BY <1>1 DEF Opens, Moves, ConnectionTypeOK
  <2>2. new \in OpRecord /\ new.dev = NoOne /\ new.at = "banner" /\ new.to = op.to /\ new.by = op.by
    BY <1>0 DEF OpRecord
  <2>4. Sound(new)
    BY <1>0, <2>2 DEF Sound
  <2> HIDE DEF new
  <2> QED
    BY <1>0, <2>1, <2>2, <2>4 DEF PortsFit, ConnectionTypeOK
<1>2. CASE op.to # Mock
  <2> DEFINE new == [op EXCEPT !.at = IF op.to \in open' THEN "refused" ELSE "opening",
                               !.dev = NoOne]
  <2>1. /\ status' = "connecting" /\ live' \in BOOLEAN
        /\ port' = IF port = Mock THEN NoOne ELSE port
        /\ open' = open \ ({op.dev} \cup ({port} \cap {Mock})) /\ ops' = others \cup {new}
    BY <1>2 DEF Opens, Moves, ConnectionTypeOK
  <2>2. /\ new \in OpRecord /\ new.dev = NoOne /\ new.at \in {"refused", "opening"}
        /\ new.to = op.to /\ new.by = op.by
    BY <1>0 DEF OpRecord
  <2>4. Sound(new)
    BY <1>0, <1>2, <2>2 DEF Sound
  <2> HIDE DEF new
  <2>5. PortsFit(port', open', ops')
    <3>1. port' # NoOne => port' \in open'
      BY <1>0, <2>1 DEF PortsFit, ConnectionTypeOK
    <3>2. \A o \in ops' : o.dev # NoOne => o \in others
      BY <2>1, <2>2
    <3>3. \A o \in ops' : o.dev # NoOne => o.dev \in open' /\ o.dev # port'
      BY <1>0, <2>1, <3>2 DEF PortsFit, ConnectionTypeOK
    <3> QED
      BY <3>1, <3>2, <3>3 DEF PortsFit
  <2> QED
    BY <1>0, <2>1, <2>2, <2>4, <2>5 DEF ConnectionTypeOK
<1> QED
  BY <1>1, <1>2

\* After a status event every poll still under way is one from before it, on the
\* wire, and no longer current.
LEMMA StatusEventFacts ==
  ASSUME polls \subseteq PollRecord, NEW happens \in BOOLEAN, StatusEvent(happens)
  PROVE  \A p \in polls' :
           /\ p \in PollRecord
           /\ \E q \in polls : p.sent = q.sent /\ p.flash = q.flash /\ p.expect = q.expect
                              /\ (p.conn => q.conn)
           /\ happens => ~p.conn
<1> SUFFICES ASSUME NEW p \in polls'
             PROVE  /\ p \in PollRecord
                    /\ \E q \in polls : p.sent = q.sent /\ p.flash = q.flash
                                       /\ p.expect = q.expect /\ (p.conn => q.conn)
                    /\ happens => ~p.conn
  OBVIOUS
<1>1. CASE happens
  <2>1. PICK q \in polls : p = [q EXCEPT !.conn = FALSE]
    BY <1>1 DEF StatusEvent
  <2>2. q \in PollRecord
    OBVIOUS
  <2> QED
    BY <2>1, <2>2 DEF PollRecord
<1>2. CASE ~happens
  BY <1>2 DEF StatusEvent
<1> QED
  BY <1>1, <1>2

\* A step after which every poll is one from before it, or one that has lost its
\* claims, keeps what is known of polls: no port is detached under a current one.
LEMMA PollsFit ==
  ASSUME ConnectionTypeOK, SentInv, ExpectInv, gate' = gate,
         \A p \in polls' :
           \E q \in polls : p.sent = q.sent /\ p.flash = q.flash /\ p.expect = q.expect
                           /\ (p.conn => q.conn),
         \A o \in ops' : o.dev # NoOne => \E q \in ops : q.dev = o.dev,
         \A x \in open : x \in open' \/ (\E o \in ops : o.dev = x)
                        \/ (\A p \in polls' : ~p.conn)
  PROVE  SentInv' /\ ExpectInv'
<1>1. SentInv'
  <2> SUFFICES ASSUME NEW p \in polls', p.sent # NoOne
               PROVE  /\ \A o \in ops' : o.dev # p.sent
                      /\ p.conn => p.sent \in open'
    BY DEF SentInv
  <2>1. PICK q \in polls : p.sent = q.sent /\ (p.conn => q.conn)
    OBVIOUS
  <2>2. /\ \A o \in ops : o.dev # p.sent
        /\ p.conn => p.sent \in open
    BY <2>1 DEF SentInv
  <2> QED
    BY <2>2
<1>2. ExpectInv'
  BY DEF ExpectInv
<1> QED
  BY <1>1, <1>2
-----------------------------------------------------------------------------
(* connect() and disconnect().                                             *)

\* disconnect() hands the attached port to the call that closes it, and cancels
\* the command on the wire.
LEMMA StartsClosingKeeps ==
  ASSUME ConnectionInv, NEW op, Sound(op), op.at = "closing",
         port \in Usb, StartsClosing(op), gate' = gate
  PROVE  ConnectionInv'
<1> DEFINE new == [op EXCEPT !.dev = port]
<1>0. /\ ConnectionTypeOK /\ PortsFit(port, open, ops) /\ \A o \in ops : Sound(o)
      /\ NoOne \notin Ports /\ Usb \subseteq Ports
  BY OpsSound, ConnectionAssumption DEF ConnectionInv, PortInv, PortsFit, Ports
<1>1. /\ port' = NoOne /\ ops' = Outdated \cup {new} /\ live' = FALSE /\ polls' = {}
      /\ status' = status /\ open' = open
  BY DEF StartsClosing, CancelCollector
<1>2. Sound(new) /\ new.dev = port
  BY DEF Sound, OpRecord
<1> HIDE DEF new
<1>3. /\ \A o \in Outdated : Sound(o) /\ \E q \in ops : q.dev = o.dev
      /\ PortsFit(port, open, Outdated)
  BY <1>0, OutdatedFit
<1>4. \A o \in ops' : Sound(o)
  BY <1>1, <1>2, <1>3
<1>5. PortInv'
  BY <1>0, <1>1, <1>2, <1>3 DEF PortInv, PortsFit
<1>6. ConnectionTypeOK'
  BY <1>0, <1>1, <1>4 DEF ConnectionTypeOK, Sound
<1> QED
  BY <1>1, <1>5, <1>6 DEF ConnectionInv, SentInv, ExpectInv

\* A connect of a page: it first closes the attached port, or opens the new one.
LEMMA ConnectKeeps ==
  ASSUME ConnectionInv, NEW by \in {"page", "demo"}, NEW to \in Ports,
         Connect(Op(by, to)), gate' = gate
  PROVE  ConnectionInv'
<1> DEFINE op == Op(by, to)
<1>0. /\ ConnectionTypeOK /\ SentInv /\ ExpectInv /\ PortsFit(port, open, ops)
      /\ \A o \in ops : Sound(o)
  BY OpsSound DEF ConnectionInv, PortInv, PortsFit
<1>1. /\ Sound(op) /\ op.at = "closing" /\ op.dev = NoOne /\ op.by # "disconnect"
      /\ op.by = by /\ op.to = to
  BY DEF Op, Sound, OpRecord
<1>2. CASE port \in Usb
  <2>1. StartsClosing(op)
    BY <1>2 DEF Connect
  <2> QED
    BY <1>1, <1>2, <2>1, StartsClosingKeeps
<1>3. CASE port \notin Usb
  <2>1. Opens(op, Outdated) /\ (polls' = {} \/ (port # Mock /\ StatusEvent(TRUE)))
    BY <1>3 DEF Connect, CancelCollector
  <2>2. /\ \A o \in Outdated : Sound(o) /\ \E q \in ops : q.dev = o.dev
        /\ PortsFit(port, open, Outdated)
    BY <1>0, OutdatedFit
  <2> HIDE DEF op
  <2>3. /\ status' \in {"disconnected", "connecting", "connected", "error"}
        /\ port' \in Ports \cup {NoOne} /\ open' \subseteq Ports /\ live' \in BOOLEAN
        /\ \A o \in ops' : Sound(o) /\ (o.dev # NoOne => o \in Outdated)
        /\ PortsFit(port', open', ops')
    BY <1>0, <1>1, <2>1, <2>2, OpensFit
  <2>4. /\ \A p \in polls' : p \in PollRecord /\ ~p.conn
        /\ \A p \in polls' :
             \E q \in polls : p.sent = q.sent /\ p.flash = q.flash /\ p.expect = q.expect
                             /\ (p.conn => q.conn)
    BY <1>0, <2>1, StatusEventFacts DEF ConnectionTypeOK
  <2>5. ConnectionTypeOK' /\ PortInv'
    BY <1>0, <2>3, <2>4 DEF ConnectionTypeOK, Sound, PortInv, PortsFit
  <2>6. \A o \in ops' : o.dev # NoOne => \E q \in ops : q.dev = o.dev
    BY <2>2, <2>3
  <2>7. SentInv' /\ ExpectInv'
    BY <1>0, <2>4, <2>6, PollsFit
  <2> QED
    BY <2>5, <2>7 DEF ConnectionInv
<1> QED
  BY <1>2, <1>3

\* A disconnect of the page.
LEMMA DisconnectKeeps ==
  ASSUME ConnectionInv, gate' = gate,
         Disconnect([Op("disconnect", NoOne) EXCEPT !.owns = TRUE])
  PROVE  ConnectionInv'
<1> DEFINE op == [Op("disconnect", NoOne) EXCEPT !.owns = TRUE]
<1>0. /\ ConnectionTypeOK /\ PortsFit(port, open, ops) /\ \A o \in ops : Sound(o)
  BY OpsSound DEF ConnectionInv, PortInv, PortsFit
<1>1. Sound(op) /\ op.at = "closing"
  BY DEF Op, Sound, OpRecord
<1>2. CASE port \in Usb
  <2>1. StartsClosing(op)
    BY <1>2 DEF Disconnect
  <2> QED
    BY <1>1, <1>2, <2>1, StartsClosingKeeps
<1>3. CASE port \notin Usb
  <2>1. /\ status' = "disconnected" /\ live' \in BOOLEAN /\ port' = NoOne /\ open' = open \ {port}
        /\ ops' = Outdated /\ polls' = {}
    BY <1>0, <1>3 DEF Disconnect, Moves, CancelCollector, ConnectionTypeOK
  <2>2. /\ \A o \in Outdated : Sound(o)
        /\ PortsFit(port, open, Outdated)
    BY <1>0, OutdatedFit
  <2>3. PortInv'
    BY <2>1, <2>2 DEF PortInv, PortsFit
  <2>4. ConnectionTypeOK'
    BY <1>0, <2>1, <2>2 DEF ConnectionTypeOK, Sound
  <2> QED
    BY <2>1, <2>3, <2>4 DEF ConnectionInv, SentInv, ExpectInv
<1> QED
  BY <1>2, <1>3

\* The port is closed: nobody else was closing it, and what it detaches has no
\* current poll.
LEMMA CloseDoneKeeps ==
  ASSUME ConnectionInv, NEW op \in ops, CloseDone(op)
  PROVE  ConnectionInv'
<1>0. /\ ConnectionTypeOK /\ SentInv /\ ExpectInv /\ PortsFit(port, open, ops)
      /\ \A o \in ops : Sound(o)
      /\ gate' = gate
  BY OpsSound DEF ConnectionInv, PortInv, PortsFit, CloseDone
<1>1. /\ PortsFit(port, open, ops \ {op})
      /\ op.dev # NoOne => op.dev # port /\ \A o \in ops \ {op} : o.dev # op.dev
  BY <1>0 DEF PortsFit
<1>2. /\ status' \in {"disconnected", "connecting", "connected", "error"}
      /\ port' \in Ports \cup {NoOne} /\ open' \subseteq Ports /\ live' \in BOOLEAN
      /\ \A o \in ops' : Sound(o) /\ (o.dev # NoOne => o \in ops \ {op})
      /\ PortsFit(port', open', ops')
  <2>1. CASE op.by = "disconnect"
    <3>1. /\ status' = "disconnected" /\ live' \in BOOLEAN /\ port' = port
          /\ open' = open \ {op.dev} /\ ops' = ops \ {op}
      BY <1>0, <2>1 DEF CloseDone, Moves, ConnectionTypeOK
    <3>2. PortsFit(port', open', ops')
      BY <1>0, <1>1, <3>1, ConnectionAssumption DEF PortsFit
    <3> QED
      BY <1>0, <3>1, <3>2 DEF ConnectionTypeOK
  <2>2. CASE op.by # "disconnect"
    <3>1. Opens(op, ops \ {op})
      BY <2>2 DEF CloseDone
    <3> QED
      BY <1>0, <1>1, <2>2, <3>1, OpensFit
  <2> QED
    BY <2>1, <2>2
<1>3. PICK happens \in BOOLEAN : StatusEvent(happens) /\ (op.by # "disconnect" => happens)
  BY DEF CloseDone
<1>4. \A p \in polls' :
        /\ p \in PollRecord
        /\ \E q \in polls : p.sent = q.sent /\ p.flash = q.flash /\ p.expect = q.expect
                           /\ (p.conn => q.conn)
        /\ happens => ~p.conn
  BY <1>0, <1>3, StatusEventFacts DEF ConnectionTypeOK
<1>5. ConnectionTypeOK' /\ PortInv'
  BY <1>0, <1>2, <1>4 DEF ConnectionTypeOK, Sound, PortInv, PortsFit
<1>6. op.by = "disconnect" => \A x \in open : x \in open' \/ op.dev = x
  BY DEF CloseDone
<1>7. SentInv' /\ ExpectInv'
  BY <1>0, <1>2, <1>3, <1>4, <1>6, PollsFit
<1> QED
  BY <1>5, <1>7 DEF ConnectionInv

\* A call that ends without attaching a port, and takes at most its own closing
\* one away.
LEMMA CallEnds ==
  ASSUME ConnectionInv, NEW op \in ops, gate' = gate, ops' = ops \ {op},
         status' \in {"disconnected", "connecting", "connected", "error"}, live' \in BOOLEAN,
         port' \in {port, NoOne}, open' = open \/ open' = open \ {op.dev},
         \A p \in polls' :
           /\ p \in PollRecord
           /\ \E q \in polls : p.sent = q.sent /\ p.flash = q.flash /\ p.expect = q.expect
                              /\ (p.conn => q.conn)
  PROVE  ConnectionInv'
<1>0. /\ ConnectionTypeOK /\ SentInv /\ ExpectInv /\ PortsFit(port, open, ops)
      /\ \A o \in ops : Sound(o)
  BY OpsSound DEF ConnectionInv, PortInv, PortsFit
<1>1. PortsFit(port', open', ops')
  <2>1. port' # NoOne => port' \in open'
    BY <1>0 DEF PortsFit
  <2>2. \A o \in ops' : o.dev # NoOne => o.dev \in open' /\ o.dev # port'
    BY <1>0 DEF PortsFit
  <2> QED
    BY <1>0, <2>1, <2>2 DEF PortsFit
<1>2. ConnectionTypeOK' /\ PortInv'
  BY <1>0, <1>1 DEF ConnectionTypeOK, PortInv, PortsFit
<1>3. SentInv' /\ ExpectInv'
  BY <1>0, PollsFit
<1> QED
  BY <1>2, <1>3 DEF ConnectionInv

\* connect() has opened the port: it was not attached, so nobody is closing it.
LEMMA OpenDoneKeeps ==
  ASSUME ConnectionInv, NEW op \in ops, OpenDone(op)
  PROVE  ConnectionInv'
<1> DEFINE new == [op EXCEPT !.at = "banner"]
<1>0. /\ ConnectionTypeOK /\ SentInv /\ ExpectInv /\ PortsFit(port, open, ops)
      /\ \A o \in ops : Sound(o)
      /\ op.to \in Usb /\ Usb \subseteq Ports /\ op.by # "disconnect"
      /\ NoOne \notin Ports
  BY OpsSound, ConnectionAssumption DEF ConnectionInv, PortInv, PortsFit, OpenDone, Sound, Ports
<1>1. /\ op.to \notin open /\ port' = op.to /\ open' = open \cup {op.to}
      /\ status' = "connected" /\ live' \in BOOLEAN /\ gate' = gate
      /\ ops' = (ops \ {op}) \cup {new}
      /\ \E happens \in BOOLEAN : StatusEvent(happens)
  BY <1>0 DEF OpenDone, Moves, ConnectionTypeOK
<1>2. Sound(new) /\ new.dev = op.dev
  BY <1>0 DEF Sound, OpRecord
<1> HIDE DEF new
<1>3. PortsFit(port', open', ops')
  BY <1>0, <1>1, <1>2 DEF PortsFit
<1>4. \A p \in polls' :
        /\ p \in PollRecord
        /\ \E q \in polls : p.sent = q.sent /\ p.flash = q.flash /\ p.expect = q.expect
                           /\ (p.conn => q.conn)
  BY <1>0, <1>1, StatusEventFacts DEF ConnectionTypeOK
<1>5. ConnectionTypeOK' /\ PortInv'
  BY <1>0, <1>1, <1>2, <1>3, <1>4 DEF ConnectionTypeOK, Sound, PortInv, PortsFit
<1>6. \A o \in ops' : o.dev # NoOne => \E q \in ops : q.dev = o.dev
  BY <1>1, <1>2
<1>7. SentInv' /\ ExpectInv'
  BY <1>0, <1>1, <1>4, <1>6, PollsFit
<1> QED
  BY <1>5, <1>7 DEF ConnectionInv

\* Every step of a call under way keeps the invariant.
LEMMA OperationsKeep == ConnectionInv /\ Operations => ConnectionInv'
<1> SUFFICES ASSUME ConnectionInv, NEW op \in ops,
                    \/ CloseDone(op) \/ CloseFails(op) \/ OpenDone(op) \/ OpenFails(op)
                    \/ \E seen \in BOOLEAN : BannerEnds(op, seen)
             PROVE  ConnectionInv'
  BY DEF Operations
<1>0. /\ ConnectionTypeOK /\ SentInv /\ ExpectInv
      /\ \A p \in polls : p \in PollRecord
  BY DEF ConnectionInv, ConnectionTypeOK
<1>1. CASE CloseDone(op)
  BY <1>1, CloseDoneKeeps
<1>2. CASE CloseFails(op)
  BY <1>0, <1>2, CallEnds DEF CloseFails, ConnectionTypeOK
<1>3. CASE OpenDone(op)
  BY <1>3, OpenDoneKeeps
<1>4. CASE OpenFails(op)
  <2>1. PICK happens \in BOOLEAN : StatusEvent(happens)
    BY <1>4 DEF OpenFails
  <2>2. \A p \in polls' :
          /\ p \in PollRecord
          /\ \E q \in polls : p.sent = q.sent /\ p.flash = q.flash /\ p.expect = q.expect
                             /\ (p.conn => q.conn)
    BY <1>0, <2>1, StatusEventFacts DEF ConnectionTypeOK
  <2> QED
    BY <1>0, <1>4, <2>2, CallEnds DEF OpenFails, Moves, ConnectionTypeOK
<1>5. ASSUME NEW seen \in BOOLEAN, BannerEnds(op, seen) PROVE ConnectionInv'
  <2>1. /\ ops' = ops \ {op} /\ status' = status /\ port' = port /\ open' = open /\ gate' = gate
        /\ live' \in BOOLEAN
    BY <1>0, <1>5 DEF BannerEnds, Declares, ConnectionTypeOK
  <2>2. CASE polls' = polls
    BY <1>0, <2>1, <2>2, CallEnds DEF ConnectionTypeOK
  <2>3. CASE polls' = polls \cup {NewPoll(op.owns, FALSE)}
    <3>1. /\ op.owns \in BOOLEAN /\ gate \in Boards \cup {NoOne}
      BY <1>0 DEF ConnectionTypeOK, OpRecord
    <3>2. /\ NewPoll(op.owns, FALSE) \in PollRecord
          /\ NewPoll(op.owns, FALSE).sent = NoOne /\ NewPoll(op.owns, FALSE).expect = gate
      BY <3>1 DEF NewPoll, PollRecord
    <3>3. ConnectionTypeOK'
      BY <1>0, <2>1, <2>3, <3>2 DEF ConnectionTypeOK
    <3>4. PortInv'
      BY <2>1 DEF ConnectionInv, PortInv
    <3>5. SentInv'
      BY <1>0, <2>1, <2>3, <3>2 DEF SentInv
    <3>6. ExpectInv'
      BY <1>0, <2>1, <2>3, <3>2 DEF ExpectInv
    <3> QED
      BY <3>3, <3>4, <3>5, <3>6 DEF ConnectionInv
  <2> QED
    BY <1>5, <2>2, <2>3 DEF BannerEnds
<1> QED
  BY <1>1, <1>2, <1>3, <1>4, <1>5
-----------------------------------------------------------------------------
(* The pages and the polls.                                                *)

\* Every click of a page and every failure of a port keeps the invariant.
LEMMA PagesKeep == ConnectionInv /\ Pages => ConnectionInv'
<1> SUFFICES ASSUME ConnectionInv, Pages PROVE ConnectionInv'
  OBVIOUS
<1>0. /\ ConnectionTypeOK /\ PortInv /\ SentInv /\ ExpectInv /\ \A o \in ops : Sound(o)
      /\ Mock \in Ports /\ Usb \subseteq Ports
      /\ \A p \in polls : p \in PollRecord
  BY OpsSound DEF ConnectionInv, ConnectionTypeOK, Ports
<1>1. CASE ClickDisconnect
  BY <1>1, DisconnectKeeps DEF ClickDisconnect
<1>2. CASE Remount
  <2>1. /\ status' = status /\ port' = port /\ open' = open /\ live' = live /\ gate' = gate
        /\ ops' = {[o EXCEPT !.owns = FALSE] : o \in ops}
        /\ polls' = {[p EXCEPT !.owns = FALSE] : p \in polls}
    BY <1>2 DEF Remount
  <2>2. ASSUME NEW o \in ops'
        PROVE  Sound(o) /\ \E q \in ops : o = [q EXCEPT !.owns = FALSE] /\ q.dev = o.dev
    <3>1. PICK q \in ops : o = [q EXCEPT !.owns = FALSE]
      BY <2>1
    <3>2. Sound(q)
      BY <1>0
    <3> QED
      BY <3>1, <3>2 DEF Sound, OpRecord
  <2>3. \A p \in polls' :
          /\ p \in PollRecord
          /\ \E q \in polls : p.sent = q.sent /\ p.flash = q.flash /\ p.expect = q.expect
                             /\ (p.conn => q.conn)
    <3> SUFFICES ASSUME NEW p \in polls'
                 PROVE  /\ p \in PollRecord
                        /\ \E q \in polls : p.sent = q.sent /\ p.flash = q.flash
                                           /\ p.expect = q.expect /\ (p.conn => q.conn)
      OBVIOUS
    <3>1. PICK q \in polls : p = [q EXCEPT !.owns = FALSE]
      BY <2>1
    <3>2. q \in PollRecord
      BY <1>0
    <3> QED
      BY <3>1, <3>2 DEF PollRecord
  <2>4. ConnectionTypeOK'
    BY <1>0, <2>1, <2>2, <2>3 DEF ConnectionTypeOK, Sound
  <2>5. PortInv'
    <3>1. \A o, q \in ops' : o.dev # NoOne /\ o.dev = q.dev => o = q
      <4> SUFFICES ASSUME NEW o \in ops', NEW q \in ops', o.dev # NoOne, o.dev = q.dev
                   PROVE  o = q
        OBVIOUS
      <4>1. PICK oo \in ops : o = [oo EXCEPT !.owns = FALSE] /\ oo.dev = o.dev
        BY <2>2
      <4>2. PICK qq \in ops : q = [qq EXCEPT !.owns = FALSE] /\ qq.dev = q.dev
        BY <2>2
      <4>3. oo = qq
        BY <1>0, <4>1, <4>2 DEF PortInv
      <4> QED
        BY <4>1, <4>2, <4>3
    <3> QED
      BY <1>0, <2>1, <2>2, <3>1 DEF PortInv
  <2>6. SentInv' /\ ExpectInv'
    BY <1>0, <2>1, <2>2, <2>3, PollsFit
  <2> QED
    BY <2>4, <2>5, <2>6 DEF ConnectionInv
<1>3. CASE EnsureMockConnected
  BY <1>0, <1>3, ConnectKeeps DEF EnsureMockConnected
<1>4. CASE Reboot
  <2>1. /\ status' = "disconnected" /\ live' \in BOOLEAN /\ port' = NoOne /\ open' = open \ {Mock}
        /\ ops' = ops /\ polls' = {} /\ gate' = gate /\ port = Mock
    BY <1>0, <1>4 DEF Reboot, Moves, CancelCollector, ConnectionTypeOK
  <2>2. ConnectionTypeOK'
    BY <1>0, <2>1 DEF ConnectionTypeOK
  <2>3. PortInv'
    BY <1>0, <2>1 DEF PortInv
  <2> QED
    BY <2>1, <2>2, <2>3 DEF ConnectionInv, SentInv, ExpectInv
<1>5. ASSUME NEW p \in Ports, ClickConnect(p) PROVE ConnectionInv'
  BY <1>5, ConnectKeeps DEF ClickConnect
<1>6. ASSUME NEW p \in Ports, PortError(p) PROVE ConnectionInv'
  <2>1. /\ status' = "error" /\ live' \in BOOLEAN /\ StatusEvent(TRUE)
        /\ UNCHANGED <<port, open, ops, gate>>
    BY <1>0, <1>6 DEF PortError, Moves, ConnectionTypeOK
  <2>2. \A q \in polls' :
          /\ q \in PollRecord
          /\ \E r \in polls : q.sent = r.sent /\ q.flash = r.flash /\ q.expect = r.expect
                             /\ (q.conn => r.conn)
    BY <1>0, <2>1, StatusEventFacts DEF ConnectionTypeOK
  <2>3. ConnectionTypeOK'
    BY <1>0, <2>1, <2>2 DEF ConnectionTypeOK
  <2>4. PortInv'
    BY <1>0, <2>1 DEF PortInv
  <2>5. SentInv' /\ ExpectInv'
    BY <1>0, <2>1, <2>2, PollsFit
  <2> QED
    BY <2>3, <2>4, <2>5 DEF ConnectionInv
<1>7. ASSUME NEW p \in Ports, RequestPort(p) PROVE ConnectionInv'
  BY <1>7 DEF RequestPort, linkVars, ConnectionInv, ConnectionTypeOK, PortInv, SentInv, ExpectInv
<1> QED
  BY <1>1, <1>2, <1>3, <1>4, <1>5, <1>6, <1>7 DEF Pages

\* Every step of a poll does: a line goes to the attached port, which nobody is
\* closing.
LEMMA PollingKeeps == ConnectionInv /\ Polling => ConnectionInv'
<1> SUFFICES ASSUME ConnectionInv, Polling PROVE ConnectionInv'
  OBVIOUS
<1>0. /\ ConnectionTypeOK /\ PortInv /\ SentInv /\ ExpectInv
      /\ \A p \in polls : p \in PollRecord
  BY DEF ConnectionInv, ConnectionTypeOK
<1>1. CASE ConfirmReconnect
  <2> DEFINE new == NewPoll(FALSE, TRUE)
  <2>1. polls' = polls \cup {new} /\ UNCHANGED <<linkVars, gate>>
    BY <1>1 DEF ConfirmReconnect
  <2>2. new \in PollRecord /\ new.sent = NoOne /\ new.expect = gate
    BY <1>0 DEF NewPoll, PollRecord, ConnectionTypeOK
  <2> HIDE DEF new
  <2> QED
    BY <1>0, <2>1, <2>2 DEF linkVars, ConnectionInv, ConnectionTypeOK, PortInv, SentInv, ExpectInv
<1>2. ASSUME NEW p \in polls, PollSends(p) PROVE ConnectionInv'
  <2>1. CASE status = "connected" /\ port # NoOne
    <3> DEFINE new == [p EXCEPT !.sent = port]
    <3>1. polls' = (polls \ {p}) \cup {new} /\ UNCHANGED <<linkVars, gate>>
      BY <1>2, <2>1 DEF PollSends, Becomes
    <3>2. /\ new \in PollRecord /\ new.sent = port
          /\ new.flash = p.flash /\ new.expect = p.expect
      BY <1>0 DEF PollRecord, ConnectionTypeOK
    <3> HIDE DEF new
    <3>3. ConnectionTypeOK' /\ PortInv'
      BY <1>0, <3>1, <3>2 DEF linkVars, ConnectionTypeOK, PortInv
    <3>4. SentInv'
      BY <1>0, <2>1, <3>1, <3>2 DEF linkVars, SentInv, PortInv
    <3>5. ExpectInv'
      BY <1>0, <3>1, <3>2 DEF ExpectInv
    <3> QED
      BY <3>3, <3>4, <3>5 DEF ConnectionInv
  <2>2. CASE ~(status = "connected" /\ port # NoOne)
    BY <1>0, <1>2, <2>2 DEF PollSends, Ends, linkVars, ConnectionInv, ConnectionTypeOK, PortInv, SentInv, ExpectInv
  <2> QED
    BY <2>1, <2>2
<1>3. ASSUME NEW p \in polls, PollVersion(p) PROVE ConnectionInv'
  <2> DEFINE new == [p EXCEPT !.at = "status", !.version = p.sent, !.sent = NoOne]
  <2>1. polls' = (polls \ {p}) \cup {new} /\ UNCHANGED <<linkVars, gate>>
    BY <1>3 DEF PollVersion, Becomes
  <2>2. /\ new \in PollRecord /\ new.sent = NoOne
        /\ new.flash = p.flash /\ new.expect = p.expect
    BY <1>0 DEF PollRecord
  <2> HIDE DEF new
  <2> QED
    BY <1>0, <2>1, <2>2 DEF linkVars, ConnectionInv, ConnectionTypeOK, PortInv, SentInv, ExpectInv
<1>4. ASSUME NEW p \in polls, PollStatus(p) \/ PollFails(p) PROVE ConnectionInv'
  <2>1. polls' \subseteq polls /\ UNCHANGED linkVars /\ gate' \in {gate, NoOne}
    BY <1>4 DEF PollStatus, PollFails, Ends
  <2> QED
    BY <1>0, <2>1 DEF linkVars, ConnectionInv, ConnectionTypeOK, PortInv, SentInv, ExpectInv
<1> QED
  BY <1>1, <1>2, <1>3, <1>4 DEF Polling

\* A flash locks for its board and overtakes every poll under way.
LEMMA FlashKeeps ==
  ASSUME ConnectionInv, NEW b \in Boards, SetPostFlashGate(b)
  PROVE  ConnectionInv'
<1>0. ConnectionTypeOK /\ PortInv /\ SentInv /\ \A p \in polls : p \in PollRecord
  BY DEF ConnectionInv, ConnectionTypeOK
<1>1. /\ gate' = b /\ UNCHANGED linkVars
      /\ polls' = {[p EXCEPT !.flash = FALSE] : p \in polls}
  BY DEF SetPostFlashGate
<1>2. ASSUME NEW p \in polls'
      PROVE  /\ p \in PollRecord /\ ~p.flash
             /\ \E q \in polls : p.sent = q.sent /\ p.conn = q.conn
  <2>1. PICK q \in polls : p = [q EXCEPT !.flash = FALSE]
    BY <1>1
  <2>2. q \in PollRecord
    BY <1>0
  <2> QED
    BY <2>1, <2>2 DEF PollRecord
<1>3. ConnectionTypeOK' /\ PortInv'
  BY <1>0, <1>1, <1>2 DEF linkVars, ConnectionTypeOK, PortInv
<1>4. SentInv'
  <2> SUFFICES ASSUME NEW p \in polls', p.sent # NoOne
               PROVE  /\ \A o \in ops : o.dev # p.sent
                      /\ p.conn => p.sent \in open
    BY <1>1 DEF SentInv, linkVars
  <2>1. PICK q \in polls : p.sent = q.sent /\ p.conn = q.conn
    BY <1>2
  <2> QED
    BY <1>0, <2>1 DEF SentInv
<1> QED
  BY <1>2, <1>3, <1>4 DEF ConnectionInv, ExpectInv

LEMMA ConnectionStep == ConnectionInv /\ [ConnectionNext]_connectionVars => ConnectionInv'
<1> SUFFICES ASSUME ConnectionInv, [ConnectionNext]_connectionVars PROVE ConnectionInv'
  OBVIOUS
<1>1. CASE UNCHANGED connectionVars
  BY <1>1 DEF connectionVars, linkVars, ConnectionInv, ConnectionTypeOK, PortInv, SentInv, ExpectInv
<1> QED
  BY <1>1, OperationsKeep, PagesKeep, PollingKeeps, FlashKeeps DEF ConnectionNext

-----------------------------------------------------------------------------
(* The results.                                                            *)

\* The connection's invariant holds throughout: the client's port is attached and
\* not closing, a current poll's answer comes from an attached port, and a poll no
\* flash has overtaken expects the lock's board.
THEOREM ConnectionInvariant == ConnectionSpec => []ConnectionInv
<1>1. ConnectionInit => ConnectionInv
  BY DEF ConnectionInit, ConnectionInv, ConnectionTypeOK, PortInv, SentInv, ExpectInv
<1> QED
  BY <1>1, ConnectionStep, PTL DEF ConnectionSpec

\* Only a poll's status answer opens the lock, and when it does, the controller it
\* came from is live, is the flashed board and is attached.
LEMMA OpensOnlyForBoard ==
  ASSUME ConnectionInv, ConnectionNext, gate # NoOne, gate' = NoOne
  PROVE  /\ open' = open
         /\ \E p \in polls \ polls' : /\ p.flash /\ p.expect = gate
                                      /\ p.sent \in open /\ p.sent.live /\ p.sent.board = gate
<1>1. PICK p \in polls : PollStatus(p)
  <2>1. ~(Operations \/ Pages \/ ConfirmReconnect)
    BY DEF Operations, CloseDone, CloseFails, OpenDone, OpenFails, BannerEnds, ConfirmReconnect,
           Pages, ClickDisconnect, Remount, EnsureMockConnected, Reboot, ClickConnect, PortError,
           RequestPort
  <2>2. ASSUME NEW b \in Boards, SetPostFlashGate(b) PROVE FALSE
    BY <2>2, ConnectionAssumption DEF SetPostFlashGate
  <2>3. ASSUME NEW p \in polls, PollSends(p) \/ PollVersion(p) \/ PollFails(p) PROVE FALSE
    BY <2>3 DEF PollSends, PollVersion, PollFails, Becomes
  <2> QED
    BY <2>1, <2>2, <2>3 DEF ConnectionNext, Polling
<1>2. /\ p.sent # NoOne /\ polls' = polls \ {p} /\ open' = open
      /\ p.conn /\ p.flash /\ p.expect # NoOne /\ p.sent.board = p.expect
  BY <1>1 DEF PollStatus, Ends, linkVars, Current, CanUnlock
<1>3. p.sent \in open /\ p.expect = gate /\ gate \in Boards
  BY <1>2 DEF ConnectionInv, ConnectionTypeOK, SentInv, ExpectInv
<1>4. p.sent \in Usb /\ p.sent.live
  BY <1>2, <1>3, ConnectionAssumption DEF ConnectionInv, ConnectionTypeOK, Ports
<1> QED
  BY <1>2, <1>3, <1>4

\* The lock opens only by a poll that began after the last flash, and on a status
\* line of a live controller of the flashed board.
THEOREM LockOpensVerified == ConnectionSpec => GateOpensVerified
<1>1. ConnectionInv /\ [ConnectionNext]_connectionVars =>
        [(gate # NoOne /\ gate' = NoOne) => \E p \in polls \ polls' :
           p.flash /\ p.expect = gate /\ p.sent.live /\ p.sent.board = gate]_connectionVars
  BY OpensOnlyForBoard
<1> QED
  BY <1>1, ConnectionInvariant, PTL DEF ConnectionSpec, GateOpensVerified

\* The hook and the connection implement the abstract lock: every step attaches
\* and detaches ports, locks, opens the lock for the flashed board, or stutters.
THEOREM ImplementsLock == ConnectionSpec => LockKept
<1>1. ConnectionInit => Lock!LockInit
  BY DEF ConnectionInit, Lock!LockInit
<1>2. ConnectionInv /\ ConnectionInv' /\ [ConnectionNext]_connectionVars => [Lock!LockNext(Boards)]_<<open, gate>>
  <2> SUFFICES ASSUME ConnectionInv, ConnectionInv', ConnectionNext
               PROVE  Lock!LockNext(Boards) \/ UNCHANGED <<open, gate>>
    BY DEF connectionVars, linkVars
  <2>1. CASE gate' = gate
    <3>1. open' \in SUBSET Ports
      BY DEF ConnectionInv, ConnectionTypeOK
    <3> QED
      BY <2>1, <3>1 DEF Lock!LockNext, Lock!Relink
  <2>2. CASE gate' # gate /\ gate' = NoOne
    BY <2>2, OpensOnlyForBoard DEF Lock!LockNext, Lock!Unlock
  <2>3. CASE gate' # gate /\ gate' # NoOne
    <3>1. PICK b \in Boards : SetPostFlashGate(b)
      BY <2>3 DEF ConnectionNext, Operations, CloseDone, CloseFails, OpenDone, OpenFails, BannerEnds,
                  Polling, ConfirmReconnect, PollSends, PollVersion, PollStatus, PollFails, Becomes,
                  Pages, ClickDisconnect, Remount, EnsureMockConnected, Reboot, ClickConnect,
                  PortError, RequestPort
    <3> QED
      BY <3>1 DEF SetPostFlashGate, linkVars, Lock!LockNext, Lock!Lock
  <2> QED
    BY <2>1, <2>2, <2>3
<1> QED
  BY <1>1, <1>2, ConnectionInvariant, PTL DEF ConnectionSpec, LockKept
=============================================================================
