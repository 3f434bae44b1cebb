--------------------------- MODULE LoopRateProofs ---------------------------
(***************************************************************************)
(* Proofs about the loop-rate policy, for every board, setting, breach     *)
(* limit, overrun window and counter width.  After every tick the rate in  *)
(* use is proven for the hardware; no tick raises an armed craft's rate;   *)
(* and the guard steps down only for breaches measured at the rate it      *)
(* leaves, because a rate change always forgets the count.                 *)
(***************************************************************************)
EXTENDS LoopRate, SequenceTheorems, TLAPS

-----------------------------------------------------------------------------
(* The rates and the ladders.                                              *)

LEMMA RateFacts ==
  /\ Rates = {k_8k, k_fast, k_reduced, k_legacy}
  /\ loop_hz(k_8k) = 8000 /\ loop_hz(k_fast) = 4000
  /\ loop_hz(k_reduced) = 2000 /\ loop_hz(k_legacy) = 1000
  /\ k_8k.hz = 8000 /\ k_fast.hz = 8000 /\ k_reduced.hz = 4000 /\ k_legacy.hz = 1000
<1>1. Rates = {k_8k, k_fast, k_reduced, k_legacy}
  BY DEF Rates
<1>2. /\ k_8k.hz = 8000 /\ k_fast.hz = 8000 /\ k_reduced.hz = 4000 /\ k_legacy.hz = 1000
      /\ k_8k.denom = 1 /\ k_fast.denom = 2 /\ k_reduced.denom = 2 /\ k_legacy.denom = 1
  BY DEF k_8k, k_fast, k_reduced, k_legacy, Rate
<1> QED
  BY <1>1, <1>2 DEF loop_hz

\* The four rates have four loop rates.
LEMMA RatesApart ==
  ASSUME NEW r \in Rates, NEW s \in Rates
  PROVE  /\ loop_hz(r) \in {1000, 2000, 4000, 8000}
         /\ loop_hz(r) = loop_hz(s) => r = s
         /\ loop_hz(r) = 1000 <=> r = k_legacy
  BY RateFacts

\* What a reply needs at the two DShot speeds, in ns.
LEMMA ReplyNeeds == need_ns(300) = 182647 /\ need_ns(600) = 126294
<1>1. bit_ns(300) = 3333 /\ bit_ns(600) = 1666
  BY DEF bit_ns
<1> QED
  BY <1>1 DEF need_ns, frame_end_ns

\* With bidir on, the loop rates up to 4 kHz leave room for the reply and 8 kHz
\* does not.
LEMMA FitsUpTo4k ==
  ASSUME NEW k \in Speeds
  PROVE  /\ window_fits(1000, k) /\ window_fits(2000, k) /\ window_fits(4000, k)
         /\ ~window_fits(8000, k)
<1>1. bit_ns(300) = 3333 /\ bit_ns(600) = 1666
  BY DEF bit_ns
<1>2. k = 300 \/ k = 600
  BY DEF Speeds
<1>3. CASE k = 300
  BY <1>1, <1>3, ReplyNeeds DEF window_fits, frame_end_ns
<1>4. CASE k = 600
  BY <1>1, <1>4, ReplyNeeds DEF window_fits, frame_end_ns
<1> QED
  BY <1>2, <1>3, <1>4

\* What a setting may ask for, and the output rates a gyro may report.
Asked == {1000, 4000, 8000}
Odrs == {0, 1000, 8000}

\* The rates a ladder may hold.
Allowed(hz, b, k) ==
  {r \in Rates : loop_hz(r) <= hz /\ (b => r = k_legacy \/ window_fits(loop_hz(r), k))}

LEMMA KeptFits ==
  ASSUME NEW hz, NEW b \in BOOLEAN, NEW k, NEW r \in Rates, loop_hz(r) <= hz
  PROVE  Kept(r, b, k) \in Seq(Allowed(hz, b, k)) /\ Len(Kept(r, b, k)) \in 0 .. 1
<1>1. CASE b /\ ~window_fits(loop_hz(r), k)
  BY <1>1 DEF Kept
<1>2. CASE ~(b /\ ~window_fits(loop_hz(r), k))
  <2>1. r \in Allowed(hz, b, k)
    BY <1>2 DEF Allowed
  <2> QED
    BY <1>2, <2>1 DEF Kept
<1> QED
  BY <1>1, <1>2

\* Every rate of a ladder is one the setting asks for, and with bidir on its reply
\* window is proven.
LEMMA LadderAllowed ==
  ASSUME NEW hz \in Asked, NEW b \in BOOLEAN, NEW k \in Speeds
  PROVE  /\ loop_rate_ladder_bidir(hz, b, k) \in Seq(Allowed(hz, b, k))
         /\ Len(loop_rate_ladder_bidir(hz, b, k)) \in 1 .. 4
<1> DEFINE A == Allowed(hz, b, k)
           s8 == IF hz = 8000 THEN Kept(k_8k, b, k) ELSE <<>>
           s4 == Kept(k_fast, b, k)
           s2 == Kept(k_reduced, b, k)
           s42 == IF hz \in {4000, 8000} THEN s4 \o s2 ELSE <<>>
<1>0. k_8k \in Rates /\ k_fast \in Rates /\ k_reduced \in Rates
  BY RateFacts
<1>1. s8 \in Seq(A) /\ Len(s8) \in 0 .. 1
  <2>1. CASE hz = 8000
    <3>1. loop_hz(k_8k) <= hz
      BY <2>1, RateFacts
    <3>2. Kept(k_8k, b, k) \in Seq(A) /\ Len(Kept(k_8k, b, k)) \in 0 .. 1
      BY <1>0, <3>1, KeptFits
    <3> QED
      BY <2>1, <3>2
  <2>2. CASE hz # 8000
    BY <2>2
  <2> QED
    BY <2>1, <2>2
<1>2. s42 \in Seq(A) /\ Len(s42) \in 0 .. 2
  <2>1. CASE hz \in {4000, 8000}
    <3>0. loop_hz(k_fast) <= hz /\ loop_hz(k_reduced) <= hz
      BY <2>1, RateFacts
    <3>1. /\ s4 \in Seq(A) /\ Len(s4) \in 0 .. 1
          /\ s2 \in Seq(A) /\ Len(s2) \in 0 .. 1
      BY <1>0, <3>0, KeptFits
    <3> HIDE DEF A, s4, s2
    <3> DEFINE n == Len(s4 \o s2)
               n4 == Len(s4)
               n2 == Len(s2)
    <3>2. s4 \o s2 \in Seq(A) /\ n = n4 + n2
      BY <3>1, ConcatProperties
    <3>3. n4 \in 0 .. 1 /\ n2 \in 0 .. 1
      BY <3>1
    <3> HIDE DEF n, n4, n2
    <3>4. n \in 0 .. 2
      BY <3>2, <3>3
    <3> QED
      BY <2>1, <3>2, <3>4 DEF n
  <2>2. CASE hz \notin {4000, 8000}
    BY <2>2
  <2> QED
    BY <2>1, <2>2
<1>3. <<k_legacy>> \in Seq(A) /\ Len(<<k_legacy>>) = 1
  <2>1. k_legacy \in A
    BY RateFacts DEF Allowed, Asked
  <2> QED
    BY <2>1
<1>4. loop_rate_ladder_bidir(hz, b, k) = (s8 \o s42) \o <<k_legacy>>
  BY DEF loop_rate_ladder_bidir
<1> HIDE DEF A, s8, s42
<1> DEFINE s == s8 \o s42
           n == Len(s \o <<k_legacy>>)
           m == Len(s)
           m8 == Len(s8)
           m42 == Len(s42)
<1>5. s \in Seq(A) /\ m = m8 + m42
  BY <1>1, <1>2, ConcatProperties
<1> HIDE DEF s
<1>6. s \o <<k_legacy>> \in Seq(A) /\ n = m + 1
  BY <1>3, <1>5, ConcatProperties
<1>7. m8 \in 0 .. 1 /\ m42 \in 0 .. 2
  BY <1>1, <1>2
<1> HIDE DEF n, m, m8, m42
<1>8. n \in 1 .. 4
  BY <1>5, <1>6, <1>7
<1> QED
  BY <1>4, <1>6, <1>8 DEF A, s, n

\* The ladders that bidir never shortens.
LEMMA ShortLadders ==
  ASSUME NEW b \in BOOLEAN, NEW k \in Speeds
  PROVE  /\ Len(loop_rate_ladder_bidir(1000, b, k)) = 1
         /\ Len(loop_rate_ladder_bidir(4000, b, k)) = 3
         /\ loop_rate_ladder_bidir(4000, b, k)[1] = k_fast
         /\ loop_rate_ladder_bidir(4000, b, k)[2] = k_reduced
<1> DEFINE s == <<k_fast>> \o <<k_reduced>>
<1>1. Kept(k_fast, b, k) = <<k_fast>> /\ Kept(k_reduced, b, k) = <<k_reduced>>
  BY RateFacts, FitsUpTo4k DEF Kept
<1>2. /\ <<k_fast>> \in Seq(Rates) /\ <<k_reduced>> \in Seq(Rates)
      /\ <<k_legacy>> \in Seq(Rates) /\ <<>> \in Seq(Rates)
  BY RateFacts
<1>3. s \in Seq(Rates) /\ Len(s) = 2 /\ s[1] = k_fast /\ s[2] = k_reduced
  BY <1>2, ConcatProperties
<1> HIDE DEF s
<1>4. <<>> \o s = s
  BY <1>3, ConcatEmptySeq
<1> DEFINE l == s \o <<k_legacy>>
<1>5. Len(l) = 3 /\ l[1] = k_fast /\ l[2] = k_reduced
  BY <1>2, <1>3, ConcatProperties
<1>6. loop_rate_ladder_bidir(4000, b, k) = l
  BY <1>1, <1>4 DEF loop_rate_ladder_bidir, s
<1> HIDE DEF l
<1>7. loop_rate_ladder_bidir(1000, b, k) = <<k_legacy>>
  BY <1>2, ConcatEmptySeq DEF loop_rate_ladder_bidir
<1>8. Len(<<k_legacy>>) = 1
  OBVIOUS
<1> QED
  BY <1>5, <1>6, <1>7, <1>8

-----------------------------------------------------------------------------
(* loop_rate_select().                                                     *)

\* A selection proven for the hardware; and a reason the guard does not own always
\* comes with 1000/1.
Proven(sel, hz, time, b, k, fail, ok, o, sp, lv) ==
  /\ sel.rate \in Rates /\ sel.why \in Reasons
  /\ loop_hz(sel.rate) <= hz
  /\ b => sel.rate = k_legacy \/ window_fits(loop_hz(sel.rate), k)
  /\ b /\ fail => sel.rate = k_legacy
  /\ ~time => sel.rate = k_legacy
  /\ ok /\ (o < 8000 \/ ~sp) => sel.rate = k_legacy
  /\ sel.why \notin Guarded => sel.rate = k_legacy
  /\ hz = 4000 /\ lv < 2 /\ sel.why \in Guarded => sel.rate # k_legacy

\* What loop_rate_tick() and loop_rate_init() read.
Read(hz, fast, time, b, k, fail, ok, o, sp, lv) ==
  /\ hz \in Asked /\ fast \in BOOLEAN /\ time \in BOOLEAN /\ b \in BOOLEAN /\ k \in Speeds
  /\ fail \in BOOLEAN /\ ok \in BOOLEAN /\ o \in Odrs /\ sp \in BOOLEAN /\ lv \in 0 .. 3

LEMMA SelectFacts ==
  ASSUME NEW hz, NEW fast, NEW time, NEW b, NEW k, NEW fail, NEW ok, NEW o, NEW sp, NEW lv,
         Read(hz, fast, time, b, k, fail, ok, o, sp, lv)
  PROVE  Proven(loop_rate_select(hz, fast, time, b, k, fail, ok, o, sp, lv),
                hz, time, b, k, fail, ok, o, sp, lv)
<1>a. /\ hz \in Asked /\ fast \in BOOLEAN /\ time \in BOOLEAN /\ b \in BOOLEAN /\ k \in Speeds
       /\ fail \in BOOLEAN /\ ok \in BOOLEAN /\ o \in Odrs /\ sp \in BOOLEAN /\ lv \in 0 .. 3
  BY DEF Read
<1> USE <1>a
<1> DEFINE sel == loop_rate_select(hz, fast, time, b, k, fail, ok, o, sp, lv)
           ladder == loop_rate_ladder_bidir(hz, b, k)
           n == Len(ladder)
<1>0. ladder \in Seq(Allowed(hz, b, k))
  BY LadderAllowed
<1>1. n \in 1 .. 4
  BY LadderAllowed
<1> DEFINE at == IF lv < n THEN lv ELSE n - 1
           full == Len(loop_rate_ladder(hz))
           why == IF at > 0 THEN "overrun-guard"
                  ELSE IF n < full THEN "dshot-bidir-reply-window" ELSE "setting"
           up == [rate |-> ladder[at + 1], why |-> why]
           legacy(w) == [rate |-> k_legacy, why |-> w]
<1>2. k_legacy \in Rates /\ loop_hz(k_legacy) = 1000
  BY RateFacts
<1>3. sel = IF b /\ fail THEN legacy("dshot-bidir-capture-failed")
            ELSE IF hz = 1000 THEN legacy("setting")
            ELSE IF ~fast THEN legacy("board-has-no-8k-gyro-path")
            ELSE IF ~time THEN legacy("no-high-res-timebase")
            ELSE IF ok /\ o < 8000 THEN legacy("gyro-odr-below-8k")
            ELSE IF ok /\ ~sp THEN legacy("gyro-spi-clock-slow")
            ELSE up
  BY DEF loop_rate_select
<1>4. why \in Guarded /\ Guarded \subseteq Reasons
  BY DEF Guarded, Reasons
<1> HIDE DEF n, full, why
<1>5. at \in 0 .. n - 1 /\ at + 1 \in 1 .. n
  BY <1>1
<1> HIDE DEF ladder, at
<1>6. ladder[at + 1] \in Allowed(hz, b, k)
  BY <1>0, <1>5 DEF n
<1>7. hz = 4000 /\ lv < 2 => ladder[at + 1] # k_legacy
  <2> SUFFICES ASSUME hz = 4000, lv < 2 PROVE ladder[at + 1] # k_legacy
    OBVIOUS
  <2>1. n = 3 /\ ladder[1] = k_fast /\ ladder[2] = k_reduced
    BY ShortLadders DEF ladder, n
  <2>2. at = lv /\ lv \in {0, 1}
    BY <2>1 DEF at
  <2> QED
    BY <2>1, <2>2, RateFacts
<1>8. CASE b /\ fail
  BY <1>2, <1>3, <1>8 DEF Proven, Reasons, Guarded, Asked
<1>9. CASE ~(b /\ fail) /\ hz = 1000
  BY <1>2, <1>3, <1>9 DEF Proven, Reasons, Guarded, Asked
<1>10. CASE ~(b /\ fail) /\ hz # 1000 /\ (~fast \/ ~time \/ (ok /\ (o < 8000 \/ ~sp)))
  BY <1>2, <1>3, <1>10 DEF Proven, Reasons, Guarded, Asked
<1>11. CASE ~(b /\ fail) /\ hz # 1000 /\ ~(~fast \/ ~time \/ (ok /\ (o < 8000 \/ ~sp)))
  <2>1. sel.rate = ladder[at + 1] /\ sel.why = why
    BY <1>3, <1>11
  <2> QED
    BY <1>4, <1>6, <1>7, <1>11, <2>1 DEF Allowed, Proven
<1> QED
  BY <1>8, <1>9, <1>10, <1>11

-----------------------------------------------------------------------------
(* The inductive invariant.                                                *)

\* The guard may judge a window of the ladder of 4000, which bidir leaves whole.
Judging == boot = 4000 /\ reason \in Guarded /\ level < 2

\* A reason the guard does not own always comes with 1000/1.
ReasonInv == reason \notin Guarded => rate = k_legacy

\* After a tick the last window is judged.  The guard's count never exceeds the
\* windows in breach at this rate and level, and a window in breach that is not
\* yet judged is one more.
CountInv ==
  /\ pc = "roll" => seq = Known.at
  /\ Judging => IF seq = Known.at THEN Known.n <= streak
                ELSE loop_rate_window_breach(win) => Known.n + 1 <= streak

PolicyInv == TypeOK /\ ReasonInv /\ CountInv /\ ProvenRate

-----------------------------------------------------------------------------
(* Boot and reset.                                                         *)

LEMMA SettingsAsked ==
  ASSUME NEW hz \in Settings
  PROVE  hz \in Asked /\ (hz = 4000 => BoardFast)
  BY RateAssumption DEF Asked

\* The rate a boot starts with is proven, and comes with its reason.
LEMMA StartFacts ==
  ASSUME NEW hz \in Settings, NEW time \in BOOLEAN, NEW ok \in BOOLEAN,
         NEW o \in Odrs, NEW sp \in BOOLEAN
  PROVE  /\ Start(hz, time, ok, o, sp).rate \in Rates
         /\ Start(hz, time, ok, o, sp).why \in Reasons
         /\ loop_hz(Start(hz, time, ok, o, sp).rate) <= hz
         /\ ~time => Start(hz, time, ok, o, sp).rate = k_legacy
         /\ ok /\ (o < 8000 \/ ~sp) => Start(hz, time, ok, o, sp).rate = k_legacy
         /\ Start(hz, time, ok, o, sp).why \notin Guarded
              => Start(hz, time, ok, o, sp).rate = k_legacy
<1>1. PICK off \in BOOLEAN : off = FALSE
  OBVIOUS
<1> DEFINE w == loop_rate_select(hz, BoardFast, time, off, 300, off, ok, o, sp, 0)
<1>2. hz \in Asked /\ BoardFast \in BOOLEAN /\ 300 \in Speeds /\ 0 \in 0 .. 3
  BY SettingsAsked, RateAssumption DEF Speeds
<1>3. Proven(w, hz, time, off, 300, off, ok, o, sp, 0)
  <2>1. Read(hz, BoardFast, time, off, 300, off, ok, o, sp, 0)
    BY <1>2 DEF Read
  <2> QED
    BY <2>1, SelectFacts
<1>4. Start(hz, time, ok, o, sp) = [rate |-> w.rate, why |-> w.why]
  BY <1>1 DEF Start
<1> HIDE DEF w
<1>5. Start(hz, time, ok, o, sp).rate = w.rate /\ Start(hz, time, ok, o, sp).why = w.why
  BY <1>4
<1> QED
  BY <1>3, <1>5 DEF Proven

LEMMA CountersStart ==
  /\ 0 \in 0 .. 3 /\ 0 \in 0 .. Breaches - 1 /\ 0 \in 0 .. Breaches /\ 0 \in 0 .. Count - 1
  /\ <<0, 0>> \in Windows
  BY RateAssumption

LEMMA InitKeeps == Init => PolicyInv
<1> SUFFICES ASSUME Init PROVE PolicyInv
  OBVIOUS
<1>1. PICK hz \in Settings :
        /\ boot = hz
        /\ odr \in IF hz > 1000 THEN {0, 8000} ELSE {0, 1000}
        /\ rate = Start(hz, hires, healthy, odr, spi_fast).rate
        /\ reason = Start(hz, hires, healthy, odr, spi_fast).why
  BY DEF Init
<1>2. /\ pc = "roll" /\ armed = FALSE /\ hires \in BOOLEAN /\ bidir = FALSE
      /\ kbps \in Speeds /\ failed = FALSE /\ healthy \in BOOLEAN /\ spi_fast \in BOOLEAN
      /\ level = 0 /\ breaches = 0 /\ seen_seq = 0 /\ seen_changes = 0
      /\ seq = 0 /\ win = <<0, 0>> /\ changes = 0 /\ streak = 0
  BY DEF Init
<1>3. odr \in Odrs
  BY <1>1 DEF Odrs
<1>4. /\ rate \in Rates /\ reason \in Reasons /\ loop_hz(rate) <= hz
      /\ ~hires => rate = k_legacy
      /\ healthy /\ (odr < 8000 \/ ~spi_fast) => rate = k_legacy
      /\ reason \notin Guarded => rate = k_legacy
  BY <1>1, <1>2, <1>3, StartFacts
<1>5. TypeOK
  <2>1. odr \in {0, 1000, 8000}
    BY <1>3 DEF Odrs
  <2>2. pc \in {"roll", "cli", "tick"} /\ armed \in BOOLEAN /\ bidir \in BOOLEAN /\ failed \in BOOLEAN
    BY <1>2
  <2>3. /\ level \in 0 .. 3 /\ breaches \in 0 .. Breaches - 1
        /\ seen_seq \in 0 .. Count - 1 /\ seen_changes \in 0 .. Count - 1
        /\ seq \in 0 .. Count - 1 /\ changes \in 0 .. Count - 1
        /\ win \in Windows /\ streak \in 0 .. Breaches
    BY <1>2, CountersStart, Zenon
  <2> QED
    BY <1>1, <1>2, <1>4, <2>1, <2>2, <2>3 DEF TypeOK
<1>6. ReasonInv /\ ProvenRate
  BY <1>1, <1>2, <1>4 DEF ReasonInv, ProvenRate
<1>7. CountInv
  BY <1>2 DEF CountInv, Known, changed
<1> QED
  BY <1>5, <1>6, <1>7 DEF PolicyInv

\* A reset or reboot starts over.
LEMMA RebootKeeps == PolicyInv /\ Reboot => PolicyInv'
<1> SUFFICES ASSUME Reboot, NEW hz \in Settings, NEW time \in BOOLEAN, NEW ok \in BOOLEAN,
                    NEW s \in BOOLEAN, NEW o \in BOOLEAN, Boot(hz, time, ok, s, o)
             PROVE  PolicyInv'
  BY DEF Reboot
<1>0. /\ pc' = "roll" /\ armed' = FALSE /\ bidir' = FALSE /\ failed' = FALSE
      /\ level' = 0 /\ breaches' = 0 /\ seen_seq' = 0 /\ seen_changes' = 0
      /\ seq' = 0 /\ win' = <<0, 0>> /\ changes' = 0 /\ streak' = 0
  BY DEF Reboot, Restarts
<1>1. odr' \in Odrs
  BY DEF Boot, Odrs
<1>2. /\ rate' = Start(hz, time, ok, odr', s).rate
      /\ reason' = Start(hz, time, ok, odr', s).why
  BY DEF Boot
<1>3. /\ rate' \in Rates /\ reason' \in Reasons /\ loop_hz(rate') <= hz
      /\ ~time => rate' = k_legacy
      /\ ok /\ (odr' < 8000 \/ ~s) => rate' = k_legacy
      /\ reason' \notin Guarded => rate' = k_legacy
  BY <1>1, <1>2, StartFacts
<1>4. TypeOK'
  <2>1. odr' \in {0, 1000, 8000}
    BY <1>1 DEF Odrs
  <2>2. /\ pc' = "roll" /\ armed' = FALSE /\ boot' = hz /\ hires' = time /\ bidir' = FALSE
        /\ failed' = FALSE /\ healthy' = ok /\ spi_fast' = s /\ kbps' \in Speeds
        /\ level' = 0 /\ breaches' = 0 /\ seen_seq' = 0 /\ seen_changes' = 0
        /\ seq' = 0 /\ win' = <<0, 0>> /\ changes' = 0 /\ streak' = 0
    BY <1>0 DEF Boot
  <2>3. /\ pc' \in {"roll", "cli", "tick"} /\ armed' \in BOOLEAN /\ boot' \in Settings
        /\ hires' \in BOOLEAN /\ bidir' \in BOOLEAN /\ failed' \in BOOLEAN
        /\ healthy' \in BOOLEAN /\ spi_fast' \in BOOLEAN
    BY <2>2
  <2>4. /\ level' \in 0 .. 3 /\ breaches' \in 0 .. Breaches - 1
        /\ seen_seq' \in 0 .. Count - 1 /\ seen_changes' \in 0 .. Count - 1
        /\ seq' \in 0 .. Count - 1 /\ changes' \in 0 .. Count - 1
        /\ win' \in Windows /\ streak' \in 0 .. Breaches
    BY <2>2, CountersStart, Zenon
  <2> QED
    BY <1>3, <2>1, <2>2, <2>3, <2>4 DEF TypeOK
<1>5. ReasonInv' /\ ProvenRate'
  BY <1>0, <1>3 DEF Boot, ReasonInv, ProvenRate
<1>6. CountInv'
  BY <1>0 DEF CountInv, Known, changed
<1> QED
  BY <1>4, <1>5, <1>6 DEF PolicyInv

-----------------------------------------------------------------------------
(* The steps of one pass before the tick.                                  *)

LEMMA IncFacts ==
  ASSUME NEW n \in 0 .. Count - 1
  PROVE  Inc(n) \in 0 .. Count - 1 /\ Inc(n) # n
  BY RateAssumption DEF Inc

LEMMA KnownTypes == TypeOK => Known.n \in 0 .. Breaches - 1 /\ Known.at \in 0 .. Count - 1
  BY RateAssumption DEF TypeOK, Known

\* A closed window counts once more when it is in breach.
LEMMA RollKeeps ==
  ASSUME PolicyInv, NEW w \in Windows, WindowRoll(w)
  PROVE  PolicyInv'
<1>0. /\ TypeOK /\ ReasonInv /\ CountInv /\ pc = "roll" /\ pc' = "cli"
      /\ win' = w /\ seq' = Inc(seq)
      /\ streak' = IF ~loop_rate_window_breach(w) THEN 0
                   ELSE IF streak < Breaches THEN streak + 1 ELSE streak
      /\ UNCHANGED <<armed, inputVars, policyVars, rate, changes>>
  BY DEF PolicyInv, WindowRoll
<1>1. Known' = Known /\ Judging' = Judging
  BY <1>0 DEF Known, changed, policyVars, Judging, inputVars
<1>2. /\ Known.n \in 0 .. Breaches - 1 /\ seq' \in 0 .. Count - 1 /\ seq' # Known.at
  BY <1>0, KnownTypes, IncFacts DEF CountInv, TypeOK
<1>3. streak \in 0 .. Breaches /\ Breaches \in Nat
  BY <1>0, RateAssumption DEF TypeOK
<1>4. streak' \in 0 .. Breaches
  BY <1>0, <1>3
<1>5. TypeOK'
  BY <1>0, <1>2, <1>4 DEF TypeOK, inputVars, policyVars
<1>6. CountInv'
  <2>1. Judging => Known.n <= streak
    BY <1>0 DEF CountInv
  <2>2. Judging /\ loop_rate_window_breach(w) => Known.n + 1 <= streak'
    BY <1>0, <1>2, <1>3, <2>1
  <2> QED
    BY <1>0, <1>1, <1>2, <2>2 DEF CountInv, loop_rate_window_breach
<1>7. ReasonInv' /\ ProvenRate'
  BY <1>0 DEF ReasonInv, ProvenRate, policyVars
<1> QED
  BY <1>5, <1>6, <1>7 DEF PolicyInv

\* The rest of the pass changes only what the next tick will read.
LEMMA InputsKeep == PolicyInv /\ Inputs => PolicyInv'
<1> SUFFICES ASSUME PolicyInv, Inputs PROVE PolicyInv'
  OBVIOUS
<1> DEFINE Reads ==
      /\ pc = "cli" /\ UNCHANGED <<pc, boot, policyVars, schedVars, streak>>
      /\ armed' \in BOOLEAN /\ hires' \in BOOLEAN /\ bidir' \in BOOLEAN /\ kbps' \in Speeds
      /\ failed' \in BOOLEAN /\ healthy' \in BOOLEAN /\ odr' = odr /\ spi_fast' \in BOOLEAN
<1>1. Reads
  <2>0. TypeOK
    BY DEF PolicyInv
  <2>1. CASE ArmOrDisarm
    BY <2>0, <2>1 DEF ArmOrDisarm, Elsewhere, TypeOK
  <2>5. CASE CaptureFails
    BY <2>0, <2>5 DEF CaptureFails, Elsewhere, TypeOK
  <2>6. CASE TimebaseLost
    <3>1. hires' \in BOOLEAN /\ UNCHANGED <<armed, bidir, kbps, failed, healthy, odr, spi_fast>>
      BY <2>6 DEF TimebaseLost
    <3> QED
      BY <2>0, <2>6, <3>1 DEF TimebaseLost, Elsewhere, TypeOK
  <2>2. ASSUME NEW on \in BOOLEAN, SetBidir(on)
        PROVE  Reads
    BY <2>0, <2>2 DEF SetBidir, Elsewhere, TypeOK
  <2>3. ASSUME NEW on \in BOOLEAN, GyroFault(on)
        PROVE  Reads
    <3>1. spi_fast' \in BOOLEAN /\ healthy' \in BOOLEAN /\ armed' \in BOOLEAN
      <4>1. spi_fast' = (spi_fast /\ on) /\ healthy' = FALSE /\ armed' = FALSE
        BY <2>3 DEF GyroFault
      <4> QED
        BY <4>1
    <3> QED
      BY <2>0, <2>3, <3>1 DEF GyroFault, Elsewhere, TypeOK
  <2>4. ASSUME NEW k \in Speeds, SetSpeed(k)
        PROVE  Reads
    BY <2>0, <2>4 DEF SetSpeed, Elsewhere, TypeOK
  <2> QED
    BY <2>1, <2>2, <2>3, <2>4, <2>5, <2>6 DEF Inputs
<1>2. TypeOK'
  BY <1>1 DEF PolicyInv, TypeOK, policyVars, schedVars
<1>3. ReasonInv' /\ CountInv' /\ ProvenRate'
  BY <1>1 DEF PolicyInv, ReasonInv, CountInv, ProvenRate, Known, changed, Judging,
              loop_rate_window_breach, policyVars, schedVars
<1> QED
  BY <1>2, <1>3 DEF PolicyInv

LEMMA PassKeeps == PolicyInv /\ (NoRoll \/ CliDone) => PolicyInv'
<1> SUFFICES ASSUME PolicyInv, NoRoll \/ CliDone PROVE PolicyInv'
  OBVIOUS
<1>1. /\ pc' \in {"cli", "tick"}
      /\ UNCHANGED <<armed, inputVars, policyVars, schedVars, streak>>
  BY DEF NoRoll, CliDone
<1>2. TypeOK'
  BY <1>1 DEF PolicyInv, TypeOK, inputVars, policyVars, schedVars
<1>3. ReasonInv' /\ CountInv' /\ ProvenRate'
  BY <1>1 DEF PolicyInv, ReasonInv, CountInv, ProvenRate, Known, changed, Judging,
              loop_rate_window_breach, inputVars, policyVars, schedVars
<1> QED
  BY <1>2, <1>3 DEF PolicyInv

-----------------------------------------------------------------------------
(* The tick.                                                               *)

\* What the guard makes of the last window.
LEMMA JudgeFacts ==
  ASSUME TypeOK
  PROVE  /\ Judge.level \in 0 .. 3 /\ Judge.n \in 0 .. Breaches - 1
         /\ Judge.level \in {level, level + 1}
         /\ seq = Known.at => Judge.level = level /\ Judge.n = Known.n
         /\ Judge.level # level =>
              /\ seq # Known.at /\ loop_rate_window_breach(win) /\ reason \in Guarded
              /\ Known.n + 1 >= Breaches /\ Judge.n = 0
              /\ boot < 8000 => boot = 4000 /\ level < 2
         /\ Judging /\ seq # Known.at =>
              Judge.n = 0 \/ (Judge.n = Known.n + 1 /\ loop_rate_window_breach(win))
<1> DEFINE n == Len(loop_rate_ladder_bidir(boot, bidir, kbps))
<1>0. boot \in Asked /\ (boot = 4000 => BoardFast) /\ bidir \in BOOLEAN /\ kbps \in Speeds
  BY SettingsAsked DEF TypeOK
<1>1. n \in 1 .. 4
  BY <1>0, LadderAllowed
<1>2. boot = 1000 => n = 1
  BY <1>0, ShortLadders
<1>3. boot = 4000 => n = 3
  BY <1>0, ShortLadders
<1>4. Judge = IF seq = Known.at \/ ~may_step(n) THEN [level |-> level, n |-> Known.n]
              ELSE IF ~loop_rate_window_breach(win) THEN [level |-> level, n |-> 0]
              ELSE IF Known.n + 1 >= Breaches THEN [level |-> level + 1, n |-> 0]
              ELSE [level |-> level, n |-> Known.n + 1]
  BY DEF Judge
<1> HIDE DEF n
<1>5. /\ Known.n \in 0 .. Breaches - 1 /\ level \in 0 .. 3 /\ Breaches \in Nat \ {0}
      /\ 0 \in 0 .. Breaches - 1
  BY KnownTypes, RateAssumption DEF TypeOK
<1>6. may_step(n) => /\ n > 1 /\ reason \in Guarded /\ level + 1 < n
                     /\ level + 1 \in 0 .. 3
                     /\ boot < 8000 => boot = 4000 /\ level < 2
  BY <1>0, <1>1, <1>2, <1>3, <1>5 DEF may_step, Asked
<1>7. Judging => may_step(n)
  BY <1>0, <1>3, <1>5 DEF Judging, may_step
<1>8. CASE seq = Known.at \/ ~may_step(n)
  BY <1>4, <1>5, <1>7, <1>8
<1>9. CASE /\ seq # Known.at /\ may_step(n) /\ ~loop_rate_window_breach(win)
  BY <1>4, <1>5, <1>9
<1>10. CASE /\ seq # Known.at /\ may_step(n) /\ loop_rate_window_breach(win)
            /\ Known.n + 1 >= Breaches
  BY <1>4, <1>5, <1>6, <1>10
<1>11. CASE /\ seq # Known.at /\ may_step(n) /\ loop_rate_window_breach(win)
            /\ ~(Known.n + 1 >= Breaches)
  <2>1. Judge.level = level /\ Judge.n = Known.n + 1
    BY <1>4, <1>11
  <2>2. Known.n + 1 \in 0 .. Breaches - 1
    BY <1>5, <1>11
  <2> QED
    BY <1>5, <1>11, <2>1, <2>2
<1> QED
  BY <1>8, <1>9, <1>10, <1>11

\* The selection the tick makes, and whether it may take it.
Wanted == loop_rate_select(boot, BoardFast, hires, bidir, kbps, failed,
                           healthy, odr, spi_fast, Judge.level)
Takes == Wanted.rate = rate \/ lower(Wanted.rate) \/ ~armed

LEMMA WantedProven ==
  ASSUME TypeOK
  PROVE  Proven(Wanted, boot, hires, bidir, kbps, failed, healthy, odr, spi_fast, Judge.level)
<1>1. /\ boot \in Asked /\ BoardFast \in BOOLEAN /\ hires \in BOOLEAN /\ bidir \in BOOLEAN
      /\ kbps \in Speeds /\ failed \in BOOLEAN /\ healthy \in BOOLEAN
      /\ odr \in Odrs /\ spi_fast \in BOOLEAN
  BY SettingsAsked, RateAssumption DEF TypeOK, Odrs
<1>2. PICK lv \in 0 .. 3 : lv = Judge.level
  BY JudgeFacts
<1>3. Read(boot, BoardFast, hires, bidir, kbps, failed, healthy, odr, spi_fast, lv)
  BY <1>1 DEF Read
<1> QED
  BY <1>2, <1>3, SelectFacts DEF Wanted

LEMMA TickFacts ==
  ASSUME Tick
  PROVE  /\ pc = "tick" /\ pc' = "roll" /\ UNCHANGED <<armed, inputVars>>
         /\ seen_changes' = changes /\ seen_seq' = seq
         /\ level' = Judge.level /\ breaches' = Judge.n
         /\ reason' = IF Takes THEN Wanted.why ELSE reason
         /\ Takes /\ Wanted.rate # rate =>
              rate' = Wanted.rate /\ seq' = 0 /\ win' = <<0, 0>> /\ changes' = Inc(changes)
         /\ ~(Takes /\ Wanted.rate # rate) => UNCHANGED schedVars
         /\ streak' = IF Judge.level # level \/ rate' # rate THEN 0 ELSE streak
  BY DEF Tick, Takes, Wanted, SetRate, report

\* A tick leaves the rate in use, or takes the one it wants.
LEMMA TickRate ==
  ASSUME TypeOK, Tick
  PROVE  rate' = IF Takes THEN Wanted.rate ELSE rate
<1>1. CASE Takes /\ Wanted.rate # rate
  BY <1>1, TickFacts
<1>2. CASE ~(Takes /\ Wanted.rate # rate)
  BY <1>2, TickFacts DEF schedVars
<1> QED
  BY <1>1, <1>2

LEMMA TickTypes ==
  ASSUME TypeOK, Tick
  PROVE  TypeOK'
<1>1. Wanted.rate \in Rates /\ Wanted.why \in Reasons
  BY WantedProven DEF Proven
<1>2. rate' \in Rates /\ reason' \in Reasons
  BY <1>1, TickRate, TickFacts DEF TypeOK
<1>3. level' \in 0 .. 3 /\ breaches' \in 0 .. Breaches - 1
  BY JudgeFacts, TickFacts
<1>4. /\ seq' \in 0 .. Count - 1 /\ changes' \in 0 .. Count - 1 /\ win' \in Windows
  <2>1. CASE Takes /\ Wanted.rate # rate
    BY <2>1, TickFacts, IncFacts, CountersStart DEF TypeOK
  <2>2. CASE ~(Takes /\ Wanted.rate # rate)
    BY <2>2, TickFacts DEF TypeOK, schedVars
  <2> QED
    BY <2>1, <2>2
<1>5. streak' \in 0 .. Breaches
  BY TickFacts, CountersStart DEF TypeOK
<1>6. seen_seq' \in 0 .. Count - 1 /\ seen_changes' \in 0 .. Count - 1
  BY TickFacts DEF TypeOK
<1>7. pc' = "roll" /\ UNCHANGED <<armed, inputVars>>
  BY TickFacts
<1> QED
  BY <1>2, <1>3, <1>4, <1>5, <1>6, <1>7 DEF TypeOK, inputVars

\* Every tick leaves a proven rate.  The one it may not take is faster than the
\* rate in use, so what that one's reply window and setting allow, this one's do.
LEMMA TickProven ==
  ASSUME TypeOK, Tick
  PROVE  ProvenRate'
<1>0. /\ rate \in Rates /\ bidir \in BOOLEAN /\ kbps \in Speeds /\ k_legacy \in Rates
      /\ boot \in Asked /\ UNCHANGED inputVars
  BY RateFacts, TickFacts, SettingsAsked DEF TypeOK
<1>1. Proven(Wanted, boot, hires, bidir, kbps, failed, healthy, odr, spi_fast, Judge.level)
  BY WantedProven
<1>2. CASE Takes
  <2>1. rate' = Wanted.rate
    BY <1>2, TickRate
  <2> QED
    BY <1>0, <1>1, <2>1 DEF Proven, ProvenRate, inputVars
<1>3. CASE ~Takes
  <2>1. rate' = rate
    BY <1>3, TickRate
  <2>2. Wanted.rate \in Rates /\ Wanted.rate # rate /\ ~(loop_hz(Wanted.rate) < loop_hz(rate))
    BY <1>1, <1>3 DEF Proven, Takes, lower
  <2>3. loop_hz(rate) < loop_hz(Wanted.rate) /\ Wanted.rate # k_legacy
    BY <1>0, <2>2, RatesApart
  <2>4. bidir => window_fits(loop_hz(rate), kbps)
    <3>1. bidir => loop_hz(Wanted.rate) # 8000
      BY <1>0, <1>1, <2>3, FitsUpTo4k DEF Proven
    <3>2. bidir => loop_hz(rate) \in {1000, 2000, 4000}
      BY <1>0, <2>2, <2>3, <3>1, RatesApart
    <3> QED
      BY <1>0, <3>2, FitsUpTo4k
  <2>5. loop_hz(rate) <= boot
    <3>1. /\ loop_hz(Wanted.rate) <= boot /\ boot \in Int
          /\ loop_hz(rate) \in Int /\ loop_hz(Wanted.rate) \in Int
      BY <1>0, <1>1, <2>2, RatesApart DEF Proven, Asked
    <3> QED
      BY <2>3, <3>1
  <2> QED
    BY <1>0, <1>1, <2>1, <2>3, <2>4, <2>5 DEF Proven, ProvenRate, inputVars
<1> QED
  BY <1>2, <1>3

\* What the guard has counted after a tick are windows of the rate and level the
\* tick leaves: a tick that changes either one starts over.
LEMMA TickCount ==
  ASSUME PolicyInv, Tick
  PROVE  CountInv'
<1>0. /\ TypeOK /\ ReasonInv /\ CountInv /\ pc' = "roll" /\ boot' = boot
      /\ level' = Judge.level /\ breaches' = Judge.n
      /\ streak \in 0 .. Breaches /\ Breaches \in Nat
      /\ Known.n \in 0 .. Breaches - 1
  BY TickFacts, RateAssumption, KnownTypes DEF PolicyInv, inputVars, TypeOK
<1>1. CASE rate' # rate
  <2>1. /\ Takes /\ Wanted.rate # rate
    BY <1>0, <1>1, TickRate
  <2>2. changes' # seen_changes' /\ seq' = 0 /\ streak' = 0
    BY <1>0, <1>1, <2>1, TickFacts, IncFacts DEF TypeOK
  <2>3. Known' = [n |-> 0, at |-> 0]
    BY <2>2 DEF Known, changed
  <2> QED
    BY <2>2, <2>3 DEF CountInv
<1>2. CASE rate' = rate
  <2>1. seq' = seq /\ changes' = changes
    BY <1>0, <1>2, TickFacts, TickRate DEF schedVars
  <2>2. Known' = [n |-> Judge.n, at |-> seq]
    BY <1>0, <2>1, TickFacts DEF Known, changed
  <2>3. ASSUME Judging' PROVE Judge.n <= streak'
    <3>1. boot = 4000 /\ reason' \in Guarded /\ Judge.level < 2
      BY <1>0, <2>3 DEF Judging
    <3>2. CASE Judge.level # level
      BY <1>0, <3>2, JudgeFacts, TickFacts
    <3>3. CASE Judge.level = level
      <4>1. streak' = streak
        BY <1>2, <3>3, TickFacts
      <4>2. Judging
        <5>1. SUFFICES ASSUME reason \notin Guarded PROVE FALSE
          BY <3>1, <3>3 DEF Judging
        <5>2. Takes /\ Wanted.why \in Guarded
          BY <3>1, <5>1, TickFacts
        <5>3. Wanted.rate # k_legacy
          BY <1>0, <3>1, <5>2, WantedProven DEF Proven
        <5> QED
          BY <1>0, <1>2, <5>1, <5>2, <5>3, TickRate DEF ReasonInv
      <4>3. CASE seq = Known.at
        BY <1>0, <4>1, <4>2, <4>3, JudgeFacts DEF CountInv
      <4>4. CASE seq # Known.at
        BY <1>0, <4>1, <4>2, <4>4, JudgeFacts DEF CountInv
      <4> QED
        BY <4>3, <4>4
    <3> QED
      BY <3>2, <3>3
  <2> QED
    BY <2>1, <2>2, <2>3 DEF CountInv
<1> QED
  BY <1>1, <1>2

LEMMA TickKeeps == PolicyInv /\ Tick => PolicyInv'
<1> SUFFICES ASSUME PolicyInv, Tick PROVE PolicyInv'
  OBVIOUS
<1>1. TypeOK /\ ReasonInv
  BY DEF PolicyInv
<1>2. ReasonInv'
  <2>1. Takes => (Wanted.why \notin Guarded => Wanted.rate = k_legacy)
    BY <1>1, WantedProven DEF Proven
  <2> QED
    BY <1>1, <2>1, TickRate, TickFacts DEF ReasonInv
<1> QED
  BY <1>1, <1>2, TickTypes, TickProven, TickCount DEF PolicyInv

LEMMA PolicyStep == PolicyInv /\ [Next]_vars => PolicyInv'
<1> SUFFICES ASSUME PolicyInv, [Next]_vars PROVE PolicyInv'
  OBVIOUS
<1>1. CASE UNCHANGED vars
  BY <1>1 DEF vars, PolicyInv, TypeOK, ReasonInv, CountInv, ProvenRate, Known, changed, Judging,
              loop_rate_window_breach, inputVars, policyVars, schedVars
<1> QED
  BY <1>1, RollKeeps, InputsKeep, PassKeeps, TickKeeps, RebootKeeps DEF Next, Closes

-----------------------------------------------------------------------------
(* The results.                                                            *)

\* The policy's invariant holds for every board, setting, breach limit and width
\* of the counters.
THEOREM PolicyInvariant == Spec => []PolicyInv
  BY InitKeeps, PolicyStep, PTL DEF Spec

\* After every tick the rate in use is one the hardware supports: 1000/1 at once
\* after a failed capture, a lost timebase or a slow gyro, a proven reply window
\* with bidir on, and never more than the boot setting asks for.
THEOREM RateAlwaysProven == Spec => []ProvenRate
<1>1. PolicyInv => ProvenRate
  BY DEF PolicyInv
<1> QED
  BY <1>1, PolicyInvariant, PTL

\* No tick raises the loop rate of an armed craft, and for the settings bidir does
\* not shorten the guard steps down one level at a time, after Breaches windows in
\* breach in a row at the rate and level it leaves.
THEOREM GuardStepsEarned == Spec => RateSteps
<1>1. ASSUME PolicyInv, [Next]_vars
      PROVE  [/\ armed /\ armed' => loop_hz(rate') <= loop_hz(rate)
              /\ boot < 8000 => Earned]_vars
  <2> SUFFICES ASSUME Next PROVE /\ armed /\ armed' => loop_hz(rate') <= loop_hz(rate)
                                 /\ boot < 8000 => Earned
    BY <1>1
  <2>0. TypeOK /\ CountInv /\ rate \in Rates /\ level \in 0 .. 3
    BY <1>1 DEF PolicyInv, TypeOK
  <2>1. CASE Tick
    <3>1. armed /\ armed' => loop_hz(rate') <= loop_hz(rate)
      <4>1. rate' # rate /\ armed => lower(rate')
        BY <2>0, <2>1, TickRate DEF Takes
      <4>2. rate' \in Rates
        BY <2>0, <2>1, TickTypes DEF TypeOK
      <4> QED
        BY <2>0, <4>1, <4>2, RatesApart DEF lower
    <3>2. boot < 8000 => Earned
      <4> SUFFICES ASSUME boot < 8000, level' > level
                   PROVE  level' = level + 1 /\ streak >= Breaches
        BY DEF Earned
      <4>1. level' = Judge.level /\ Judge.level # level
        BY <2>0, <2>1, TickFacts
      <4>2. /\ seq # Known.at /\ loop_rate_window_breach(win) /\ Known.n + 1 >= Breaches
            /\ Judging
        BY <2>0, <4>1, JudgeFacts DEF Judging
      <4>3. Known.n + 1 <= streak
        BY <2>0, <4>2 DEF CountInv
      <4>4. Known.n \in Int /\ Breaches \in Int /\ streak \in Int
        BY <2>0, KnownTypes, RateAssumption DEF TypeOK
      <4> QED
        BY <2>0, <4>1, <4>2, <4>3, <4>4, JudgeFacts
    <3> QED
      BY <3>1, <3>2
  <2>2. CASE Reboot
    <3>1. armed' = FALSE /\ level' = 0
      BY <2>2 DEF Reboot
    <3> QED
      BY <2>0, <3>1 DEF Earned
  <2>3. CASE Closes \/ NoRoll \/ CliDone \/ Inputs
    <3>1. rate' = rate /\ level' = level
      BY <2>3 DEF Closes, WindowRoll, NoRoll, CliDone, Inputs, ArmOrDisarm, CaptureFails,
                  TimebaseLost, SetBidir, GyroFault, SetSpeed, Elsewhere, policyVars, schedVars
    <3> QED
      BY <2>0, <3>1, RatesApart DEF Earned
  <2> QED
    BY <2>1, <2>2, <2>3 DEF Next
<1> QED
  BY <1>1, PolicyInvariant, PTL DEF Spec, RateSteps
=============================================================================
