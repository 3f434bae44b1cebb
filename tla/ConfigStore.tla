----------------------------- MODULE ConfigStore -----------------------------
(***************************************************************************)
(* The controller's settings on flash: drivers/persist.c over              *)
(* drivers/config_store.c over the two erase slots of hal_flash.c.         *)
(*                                                                         *)
(* A save reads both slots, picks the one that does not hold the current   *)
(* record, erases it, programs header and payload, reads them back and     *)
(* only then programs the seal.  Power may fail between any two of these   *)
(* steps and inside each of them; a flash operation may also report an     *)
(* error and leave the same half-done slot behind.                         *)
(***************************************************************************)
EXTENDS Integers

CONSTANTS
    Payload,   \* the encoded settings
    Default,   \* the settings config_init() starts from
    Gens,      \* number of generation values (2^32), even
    None       \* no payload

ASSUME StoreAssumption ==
    /\ Default \in Payload /\ None \notin Payload
    /\ Gens \in Nat /\ Gens >= 4

Slot == {0, 1}
Gen  == 0 .. Gens - 1

\* erased: all bytes 0xff.  foreign: magic with another schema, board or length,
\* which is also what a header cut short leaves.  torn: anything else that is
\* not a record.  open: header and payload complete, no seal.  sealed: valid.
Kind   == {"erased", "foreign", "torn", "open", "sealed"}
Record == [kind : Kind, gen : Gen, data : Payload]

VARIABLES
    slot,        \* the two flash slots
    pc,          \* where config_store_save / persist_save is, "idle" outside
    target,      \* the slot being written
    next,        \* the generation being written
    want,        \* the payload being saved
    run,         \* the settings in RAM
    saved,       \* persist.c's copy of what is on flash, None if !have_saved
    load_error,  \* persist.c's load_error
    last_error,  \* persist.c's last_error: "none", "empty" or any "error"
    busy,        \* armed, bench motors active or a manual calibration
    \* history
    acked,       \* the last payload a save reported as verified
    tried        \* payloads of the saves since then that did not report success

flashVars == <<slot, target, next, want>>
ramVars == <<run, saved, load_error, last_error>>
histVars == <<acked, tried>>
storeVars == <<flashVars, pc, ramVars, busy, histVars>>

Steps == {"boot", "idle", "erase", "program", "readback", "seal", "check", "verify"}

-----------------------------------------------------------------------------
record_valid(s) == s.kind = "sealed"
incompatible(s) == s.kind = "foreign"
erased(s)       == s.kind = "erased"

\* rd(old+16)+1u
NextGen(g) == IF g + 1 = Gens THEN 0 ELSE g + 1

\* a != b && (uint32_t)(a - b) < 0x80000000
newer(a, b) == a # b /\ 2 * (IF a >= b THEN a - b ELSE a - b + Gens) < Gens

NoSlot == 2

\* choose(): the newest valid slot, NoSlot when neither is valid
choose(f) ==
    IF record_valid(f[0]) /\ record_valid(f[1])
      THEN IF newer(f[1].gen, f[0].gen) THEN 1 ELSE 0
      ELSE IF record_valid(f[0]) THEN 0
      ELSE IF record_valid(f[1]) THEN 1 ELSE NoSlot

\* What config_store_load would return: a payload, or None.
Loaded == IF choose(slot) = NoSlot THEN None ELSE slot[choose(slot)].data

persist_dirty == saved # run

\* Mutant: ignores the errors of saves.
persist_state_load_only ==
    IF load_error THEN "error"
    ELSE IF saved = None THEN "defaults"
    ELSE IF persist_dirty THEN "dirty" ELSE "saved"

persist_state ==
    IF load_error \/ last_error = "error" THEN "error"
    ELSE IF saved = None THEN "defaults"
    ELSE IF persist_dirty THEN "dirty" ELSE "saved"

-----------------------------------------------------------------------------
\* Flash as shipped: blank, or holding another firmware's record.
StoreInit == /\ slot \in [Slot -> {[kind |-> k, gen |-> 0, data |-> Default] :
                                     k \in {"erased", "foreign"}}]
             /\ pc = "boot" /\ target = 0 /\ next = 0 /\ want = Default
             /\ run = Default /\ saved = None /\ load_error = FALSE /\ last_error = "none"
             /\ busy = FALSE
             /\ acked = None /\ tried = {}

\* persist_init() and persist_load() in app_init().  restored: the settings
\* could be applied (the DShot driver accepted the stored speed).
Load(restored) ==
    /\ pc = "boot" /\ pc' = "idle"
    /\ IF Loaded # None /\ restored
         THEN /\ run' = Loaded /\ saved' = Loaded
              /\ load_error' = FALSE /\ last_error' = "none"
         ELSE /\ run' = Default /\ saved' = None
              /\ load_error' = ~(\A i \in Slot : erased(slot[i]))
              /\ last_error' = IF load_error' THEN "error" ELSE "empty"
    /\ UNCHANGED <<flashVars, busy, histVars>>

\* A setting changes in RAM.
Edit(p) == /\ pc = "idle" /\ ~busy
           /\ run' = p
           /\ UNCHANGED <<flashVars, pc, saved, load_error, last_error, busy, histVars>>

\* The craft arms, a bench test or a calibration starts, or they end; the CLI
\* that saves runs in the same loop, never during a save.
SetBusy == /\ pc = "idle"
           /\ busy' = ~busy
           /\ UNCHANGED <<flashVars, pc, ramVars, histVars>>

\* The checks before the erase: safe_to_change(), no foreign record, and blank
\* flash when there is no valid record.
SaveAllowed == /\ ~busy
               /\ \A i \in Slot : ~incompatible(slot[i])
               /\ choose(slot) = NoSlot => \A i \in Slot : erased(slot[i])

SaveRefused == /\ pc = "idle" /\ ~SaveAllowed
               /\ last_error' = "error"
               /\ UNCHANGED <<flashVars, pc, run, saved, load_error, busy, histVars>>

\* The slot to write: never the current one, and the mutant that always takes 0.
TargetFirst(current) == 0
Target(current) == IF current = 0 THEN 1 ELSE 0

\* persist_save() and config_store_save() up to the erase.  An identical record
\* is acknowledged without touching flash.
Save == LET current == choose(slot) IN
    /\ pc = "idle" /\ SaveAllowed
    /\ want' = run
    /\ tried' = tried \cup {run}
    /\ target' = Target(current)
    /\ next' = IF current = NoSlot THEN 1 ELSE NextGen(slot[current].gen)
    /\ pc' = IF Loaded = run THEN "verify" ELSE "erase"
    /\ UNCHANGED <<slot, ramVars, busy, acked>>

\* What slot i may hold while the operation at pc is on its way.
Partial(i) ==
    CASE pc = "erase" ->
           {slot[i]} \cup {[slot[i] EXCEPT !.kind = k] : k \in {"torn", "erased"}}
      [] pc = "program" ->
           {slot[i]} \cup {[slot[i] EXCEPT !.kind = k] : k \in {"torn", "foreign"}}
      [] pc = "seal" ->
           {slot[i], [slot[i] EXCEPT !.kind = "torn"], [slot[i] EXCEPT !.kind = "sealed"]}
      [] OTHER -> {slot[i]}

\* hal_flash_erase_slot()
Erase == /\ pc = "erase" /\ pc' = "program"
         /\ slot' = [slot EXCEPT ![target].kind = "erased"]
         /\ UNCHANGED <<target, next, want, ramVars, busy, histVars>>

\* hal_flash_write() of header and payload
Program == /\ pc = "program" /\ pc' = "readback"
           /\ slot' = [slot EXCEPT ![target] =
                         [kind |-> "open", gen |-> next, data |-> want]]
           /\ UNCHANGED <<target, next, want, ramVars, busy, histVars>>

\* hal_flash_read() and memcmp() before the seal
Readback == /\ pc = "readback" /\ pc' = "seal"
            /\ slot[target] = [kind |-> "open", gen |-> next, data |-> want]
            /\ UNCHANGED <<flashVars, ramVars, busy, histVars>>

\* hal_flash_write() of the seal
Seal == /\ pc = "seal" /\ pc' = "check"
        /\ slot' = [slot EXCEPT ![target].kind = "sealed"]
        /\ UNCHANGED <<target, next, want, ramVars, busy, histVars>>

\* the final readback of config_store_save()
Check == /\ pc = "check" /\ pc' = "verify"
         /\ record_valid(slot[target]) /\ slot[target].data = want
         /\ UNCHANGED <<flashVars, ramVars, busy, histVars>>

\* persist_save() loads the record again, compares and acknowledges.
Verify == /\ pc = "verify" /\ pc' = "idle"
          /\ Loaded = want
          /\ saved' = want /\ load_error' = FALSE /\ last_error' = "none"
          /\ acked' = want /\ tried' = {}
          /\ UNCHANGED <<flashVars, run, busy>>

\* A flash operation, a readback or a comparison fails: the save returns an
\* error and leaves the slot as far as it got.
Fail == /\ pc \notin {"boot", "idle"} /\ pc' = "idle"
        /\ \E s \in Partial(target) : slot' = [slot EXCEPT ![target] = s]
        /\ last_error' = "error"
        /\ UNCHANGED <<target, next, want, run, saved, load_error, busy, histVars>>

\* Power is lost: RAM is gone, the slot stays as far as the operation got.
PowerLoss == /\ pc' = "boot"
             /\ \E s \in Partial(target) : slot' = [slot EXCEPT ![target] = s]
             /\ run' = Default /\ saved' = None /\ load_error' = FALSE
             /\ last_error' = "none" /\ busy' = FALSE
             /\ UNCHANGED <<target, next, want, histVars>>

Writing == Erase \/ Program \/ Readback \/ Seal \/ Check \/ Verify

StoreNext == \/ \E restored \in BOOLEAN : Load(restored)
             \/ Save \/ SaveRefused \/ Writing \/ Fail \/ PowerLoss \/ SetBusy
             \/ \E p \in Payload : Edit(p)

StoreSpec == StoreInit /\ [][StoreNext]_storeVars

-----------------------------------------------------------------------------
(* Properties.                                                             *)

\* The type invariant.
StoreTypeOK ==
    /\ slot \in [Slot -> Record] /\ pc \in Steps
    /\ target \in Slot /\ next \in Gen /\ want \in Payload /\ run \in Payload
    /\ saved \in Payload \cup {None}
    /\ load_error \in BOOLEAN /\ last_error \in {"none", "empty", "error"}
    /\ busy \in BOOLEAN
    /\ acked \in Payload \cup {None} /\ tried \subseteq Payload

\* Whatever is cut short, the next boot restores the last settings a save
\* reported as verified, or those of a later save that did not report.  A record
\* that was sealed and read back is the one the next boot picks, also when the
\* 32-bit generation wraps between the two slots: persist_save()'s last
\* comparison fails only on a read error.
Durable == /\ acked # None => Loaded \in {acked} \cup tried
           /\ pc = "verify" => Loaded = want

\* The storage state "saved" is shown only while the next boot restores exactly
\* the settings in RAM, also after failed saves and edits taken back.
SavedMeansRestored == pc = "idle" /\ persist_state = "saved" => Loaded = run
=============================================================================
