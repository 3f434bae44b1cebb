------------------------------ MODULE DfuFlash ------------------------------
(***************************************************************************)
(* Flashing over USB DFU: WebUsbDfuFlasher.flash (webusb-dfu.ts) against   *)
(* the ST ROM boot loader of the selected device, and the mock flasher.    *)
(*                                                                         *)
(* Once the device's own flash layout has been accepted, what flash() does *)
(* is a straight line of DfuSe operations; it is kept as a script, one     *)
(* entry per await.  Between two entries the user may cancel, the device   *)
(* may be unplugged, and the ROM works on the command it was given at its  *)
(* own pace: a command outlives the session that sent it.                  *)
(***************************************************************************)
EXTENDS HexImage, FiniteSets, FiniteSetsExt

CONSTANTS
  Devices,     \* controllers that can be put into DFU mode
  Layout,      \* Layout[d]: sector sizes its descriptor reports, <<>> if unreadable
  Files,       \* Files[f]: a firmware file
  Transfer,    \* transferSize: words in one DFU block
  MaxFaults,   \* bound: device and cable faults
  None

ASSUME DfuAssumption ==
  /\ Transfer \in Nat \ {0} /\ MaxFaults \in Nat
  /\ None \notin [dev : Devices, valid : BOOLEAN]

VARIABLES
  flash,       \* flash[d]: main flash of a device, word by word
  orig,        \* flash before the last job's own commands
  plugged,     \* the device on USB in DFU mode, or None
  rom,         \* boot loader of that device: [ptr, cmd, error]
  handle,      \* flasher.device: the device object the picker returned
  stage,       \* where flash() stands: idle, open, layout, prepare, run, wait, mock
  script,      \* DFU operations still to do
  job,         \* what the running (last) flash() is about
  cancelled,   \* flasher.cancelled
  phase,       \* the phase last emitted
  fault,       \* a fault hit this job
  faults       \* number of faults so far

dfuVars == <<flash, orig, plugged, rom, handle, stage, script, job, cancelled, phase,
             fault, faults>>
romVars == <<flash, orig, plugged, rom, handle>>

Cells(d) == Base .. Base + Total(Layout[d]) - 1
Old == <<"old", 0>>
NoCmd == [do |-> "none", at |-> 0, data |-> <<>>]
Ready == [ptr |-> 0, cmd |-> NoCmd, error |-> FALSE]
NoJob == [live |-> FALSE, dev |-> None, file |-> None, board |-> None,
          opts |-> [mcu |-> "none", diagnostic |-> FALSE, full |-> FALSE]]
Image(f) == ParseIntelHex(Files[f])

DfuStart ==
  /\ flash = [d \in Devices |-> [a \in Cells(d) |-> Old]] /\ orig = flash
  /\ rom = Ready /\ handle = None
  /\ stage = "idle" /\ script = <<>> /\ job = NoJob /\ cancelled = FALSE
  /\ phase = "idle" /\ fault = FALSE /\ faults = 0

Flashing == stage # "idle"

-----------------------------------------------------------------------------
(* The script of one job.                                                  *)

Op(do, at, data) == [do |-> do, at |-> at, data |-> data]

\* The words of a region in blocks of at most Transfer.
Chunks(r) ==
  [i \in 1 .. (Len(r.data) + Transfer - 1) \div Transfer |->
     LET off == (i - 1) * Transfer IN
     [at |-> r.at + off,
      data |-> SubSeq(r.data, off + 1, IF off + Transfer < Len(r.data)
                                       THEN off + Transfer ELSE Len(r.data))]]
Blocks(img) == FlattenSeq([i \in DOMAIN img.regions |-> Chunks(img.regions[i])])

\* Every block sets the address first; a one word read starts one word early.
Early(b) == IF Len(b.data) = 1 /\ b.at > Base THEN 1 ELSE 0
Written(b) == <<Op("point", b.at, <<>>), Op("write", b.at, b.data)>>
ReadBack(b) == <<Op("point", b.at - Early(b), <<>>), Op("read", b.at, b.data)>>
EachBlock(Do(_), bs) == FlattenSeq([i \in DOMAIN bs |-> Do(bs[i])])

BlankBlocks(mcu) ==
  Chunks([at |-> Base, data |-> [k \in 1 .. Total(Sizes[mcu]) |-> Blank]])

\* A mutant: the last block is not read back.
ScriptUnread(img, opts, layout) ==
  LET plan == IF opts.full THEN PlanFull(opts.mcu) ELSE PlanSectors(img, layout) IN
  [i \in DOMAIN plan |-> Op("erase", plan[i][1], <<>>)]
    \o EachBlock(Written, Blocks(img)) \o EachBlock(ReadBack, Front(Blocks(img)))
    \o <<Op("leave", Base, <<>>)>>

Script(img, opts, layout) ==
  LET plan == IF opts.full THEN PlanFull(opts.mcu) ELSE PlanSectors(img, layout) IN
  [i \in DOMAIN plan |-> Op("erase", plan[i][1], <<>>)]
    \o (IF opts.full THEN EachBlock(ReadBack, BlankBlocks(opts.mcu)) ELSE <<>>)
    \o EachBlock(Written, Blocks(img))
    \o EachBlock(ReadBack, Blocks(img))
    \o (IF opts.diagnostic THEN <<>> ELSE <<Op("leave", Base, <<>>)>>)

-----------------------------------------------------------------------------
(* The ROM boot loader (external): flash programming and its commands.     *)

Erased(d, at) ==
  LET s == CHOOSE s \in ToSet(Sectors(Layout[d])) : at \in s[1] .. s[2] - 1
  IN [a \in Cells(d) |-> IF a \in s[1] .. s[2] - 1 THEN Blank ELSE flash[d][a]]
Programmed(d, at, data) ==
  [a \in Cells(d) |-> IF a \notin at .. at + Len(data) - 1 THEN flash[d][a]
                      ELSE IF flash[d][a] = Blank THEN data[a - at + 1] ELSE Junk]
Done(d, cmd) ==
  CASE cmd.do = "erase" -> [flash EXCEPT ![d] = Erased(d, cmd.at)]
    [] cmd.do = "write" -> [flash EXCEPT ![d] = Programmed(d, rom.ptr, cmd.data)]
    [] OTHER -> flash

RomWorks ==
  /\ plugged # None /\ rom.cmd # NoCmd
  /\ flash' = Done(plugged, rom.cmd) /\ rom' = [rom EXCEPT !.cmd = NoCmd]
  /\ orig' = IF stage = "wait" THEN orig ELSE flash'
  /\ UNCHANGED <<plugged, handle, stage, script, job, cancelled, phase, fault, faults>>

\* A fault of the chip: the block is accepted and a word of it does not stick.
RomLosesWord ==
  /\ plugged # None /\ rom.cmd.do = "write" /\ faults < MaxFaults
  /\ flash' = [Done(plugged, rom.cmd) EXCEPT
                 ![plugged][rom.ptr + Len(rom.cmd.data) - 1] = Junk]
  /\ rom' = [rom EXCEPT !.cmd = NoCmd] /\ fault' = TRUE /\ faults' = faults + 1
  /\ orig' = IF stage = "wait" THEN orig ELSE flash'
  /\ UNCHANGED <<plugged, handle, stage, script, job, cancelled, phase>>

-----------------------------------------------------------------------------
(* flash()                                                                 *)

\* What flash() captures; an early refusal is emitted before USB is touched.
StartFlash(file, board, opts, live) ==
  /\ stage = "idle" /\ cancelled' = FALSE /\ fault' = FALSE
  /\ job' = [live |-> live, dev |-> IF live /\ handle # None THEN handle.dev ELSE None,
             file |-> file, board |-> board, opts |-> opts]
  /\ orig' = flash
  /\ IF McuGate(Image(file), opts)
     THEN stage' = (IF live THEN "open" ELSE "mock") /\ phase' = "opening"
     ELSE stage' = "idle" /\ phase' = "error"
  /\ UNCHANGED <<flash, plugged, rom, handle, script, faults>>

\* The catch and finally of flash(): the session ends, the ROM's command does not.
Fail ==
  /\ stage' = "idle" /\ script' = <<>> /\ phase' = IF cancelled THEN "cancelled" ELSE "error"
  /\ UNCHANGED <<job, cancelled>>

\* The object the picker returned still denotes the device on the bus.
Present == handle # None /\ handle.valid /\ plugged = handle.dev
Gone == ~Present /\ Fail /\ UNCHANGED <<romVars, fault, faults>>

\* openDevice: open, claim, prove with a GETSTATUS. It does not look at cancelled.
Open ==
  /\ stage = "open"
  /\ \/ Gone
     \/ /\ Present /\ stage' = "layout"
        /\ UNCHANGED <<romVars, script, job, cancelled, phase, fault, faults>>

\* The device's own layout decides; nothing has been erased yet.
ReadLayout ==
  /\ stage = "layout"
  /\ LET img == Image(job.file)
         layout == Layout[job.dev]
         accepted == ~cancelled /\ LayoutAccepted(img, job.opts, layout)
     IN \/ Gone
        \/ Present /\ ~accepted /\ Fail /\ UNCHANGED <<romVars, fault, faults>>
        \/ /\ Present /\ accepted /\ stage' = "prepare"
           /\ script' = Script(img, job.opts, layout)
           /\ UNCHANGED <<romVars, job, cancelled, phase, fault, faults>>

\* prepareDevice: a stale error is cleared, a busy ROM is refused.
NotBusy == rom.cmd = NoCmd
PrepareDevice ==
  /\ stage = "prepare"
  /\ \/ Gone
     \/ Present /\ (~NotBusy \/ cancelled) /\ Fail /\ UNCHANGED <<romVars, fault, faults>>
     \/ /\ Present /\ NotBusy /\ ~cancelled
        /\ rom' = [rom EXCEPT !.error = FALSE] /\ stage' = "run" /\ phase' = "erasing"
        /\ UNCHANGED <<flash, orig, plugged, handle, script, job, cancelled, fault, faults>>

ReadMatches(op) ==
  LET n == IF Len(op.data) = 1 THEN 2 ELSE Len(op.data)
      cells == rom.ptr .. rom.ptr + n - 1
  IN /\ cells \subseteq Cells(plugged)
     /\ \A k \in DOMAIN op.data : flash[plugged][op.at + k - 1] = op.data[k]

\* Next operation: a cancel is seen first; a command is sent and then awaited.
PhaseOf(op) == CASE op.do = "erase" -> "erasing" [] op.do = "write" -> "writing"
                 [] op.do = "leave" -> "leaving" [] OTHER -> phase
Send ==
  /\ stage = "run" /\ script # <<>> /\ Head(script).do \in {"erase", "write"}
  /\ \/ Gone
     \/ Present /\ cancelled /\ Fail /\ UNCHANGED <<romVars, fault, faults>>
     \/ /\ Present /\ ~cancelled /\ rom' = [rom EXCEPT !.cmd = Head(script)]
        /\ stage' = "wait" /\ phase' = PhaseOf(Head(script))
        /\ UNCHANGED <<flash, orig, plugged, handle, script, job, cancelled, fault, faults>>

\* waitUntilIdle
WaitUntilIdle ==
  /\ stage = "wait"
  /\ \/ Gone
     \/ Present /\ cancelled /\ Fail /\ UNCHANGED <<romVars, fault, faults>>
     \/ /\ Present /\ ~cancelled /\ rom.cmd = NoCmd
        /\ stage' = "run" /\ script' = Tail(script)
        /\ UNCHANGED <<romVars, job, cancelled, phase, fault, faults>>

\* dfuseSetAddress with its wait, and UPLOAD between two aborts to idle.
PointOrRead ==
  /\ stage = "run" /\ script # <<>> /\ Head(script).do \in {"point", "read"}
  /\ LET op == Head(script)
         good == ~cancelled /\ (op.do = "read" => ReadMatches(op))
     IN \/ Gone
        \/ Present /\ ~good /\ Fail /\ UNCHANGED <<romVars, fault, faults>>
        \/ /\ Present /\ good /\ script' = Tail(script)
           /\ rom' = IF op.do = "point" THEN [rom EXCEPT !.ptr = op.at] ELSE rom
           /\ UNCHANGED <<flash, orig, plugged, handle, stage, job, cancelled, phase,
                          fault, faults>>

\* The zero length download: the application starts and the device leaves the bus.
\* The diagnostic stays in DFU. Then the completion is emitted.
Complete ==
  /\ stage = "run" /\ (script = <<>> \/ Head(script).do = "leave")
  /\ \/ script # <<>> /\ Gone
     \/ (Present \/ script = <<>>) /\ cancelled /\ Fail /\ UNCHANGED <<romVars, fault, faults>>
     \/ /\ Present \/ script = <<>>
        /\ ~cancelled /\ stage' = "idle" /\ script' = <<>> /\ phase' = "done"
        /\ IF script = <<>> THEN UNCHANGED <<plugged, rom, handle>>
           ELSE /\ plugged' = None /\ rom' = Ready
                /\ handle' = [handle EXCEPT !.valid = FALSE]
        /\ UNCHANGED <<flash, orig, job, cancelled, fault, faults>>

\* A transfer stalls, a status reports an error, or a hundred polls are not enough.
TransferFails ==
  /\ stage \in {"open", "layout", "prepare", "run", "wait"} /\ Present /\ faults < MaxFaults
  /\ Fail /\ fault' = TRUE /\ faults' = faults + 1
  /\ rom' = [rom EXCEPT !.error = TRUE]
  /\ UNCHANGED <<flash, orig, plugged, handle>>

\* MockFlasher.flash: the same phases by timer, no device.
MockPhases == <<"opening", "erasing", "writing", "verifying", "leaving", "done">>
MockStep ==
  /\ stage = "mock"
  /\ \/ cancelled /\ Fail
     \/ /\ ~cancelled
        /\ \E i \in 1 .. Len(MockPhases) - 1 :
             /\ MockPhases[i] = phase
             /\ LET skip == MockPhases[i + 1] = "leaving" /\ job.opts.diagnostic IN
                phase' = MockPhases[IF skip THEN i + 2 ELSE i + 1]
        /\ stage' = IF phase' = "done" THEN "idle" ELSE "mock"
        /\ UNCHANGED <<script, job, cancelled>>
  /\ UNCHANGED <<romVars, fault, faults>>

CancelFlash ==
  /\ Flashing /\ ~cancelled /\ cancelled' = TRUE
  /\ UNCHANGED <<romVars, stage, script, job, phase, fault, faults>>

DfuSteps == Open \/ ReadLayout \/ PrepareDevice \/ Send \/ WaitUntilIdle \/ PointOrRead
              \/ Complete \/ MockStep
DfuNext == DfuSteps \/ RomWorks \/ RomLosesWord \/ TransferFails \/ CancelFlash

-----------------------------------------------------------------------------
(* Properties.                                                             *)

\* What a finished live flash promises about the flash of the device: the words of the
\* file's records at their addresses, everything else blank after a full erase, and no
\* cell outside the touched sectors changed otherwise.
Holds(d, j) ==
  LET put == Denotes(Files[j.file])
      touched == UNION {s[1] .. s[2] - 1 :
                          s \in {s \in ToSet(Sectors(Layout[d])) :
                                   \E p \in put : p[1] \in s[1] .. s[2] - 1}}
  IN \A a \in Cells(d) :
       IF \E p \in put : p[1] = a THEN <<a, flash[d][a]>> \in put
       ELSE IF j.opts.full \/ a \in touched THEN flash[d][a] = Blank
       ELSE flash[d][a] = orig[d][a]

\* When the flasher emits "done" for a live job, the selected device holds exactly the
\* records of the HEX file, its settings are untouched (or blank after a full erase),
\* and no other device changed, whatever was cancelled, lost or retried before.
DoneMeansWritten ==
  phase = "done" /\ job.live =>
    Holds(job.dev, job) /\ \A d \in Devices \ {job.dev} : flash[d] = orig[d]

\* Once the ROM has been prepared, a job ends in "error" only through a fault of the chip
\* or the cable: the erase plan, the block stride and the short read back never make
\* the code fail by itself.
OnlyFaultsFail ==
  [][(stage \in {"run", "wait"} /\ phase' = "error") => (fault' = TRUE)]_dfuVars
=============================================================================
