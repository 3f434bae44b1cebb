------------------------------ MODULE HexImage ------------------------------
(***************************************************************************)
(* The firmware image as the configurator's flasher sees it: the Intel HEX *)
(* parser (flasher/intel-hex.ts), the gates an image has to pass before it *)
(* may be flashed (mcu-gate.ts, f405-diagnostic.ts, firmwareValidation.ts) *)
(* and the plan of the sectors to erase (flash-sectors.ts).                *)
(*                                                                         *)
(* A byte is a Word <<kind, value>>: the first word of an application is   *)
(* its vector table, <<stack, reset address>>; "marker" words stand for    *)
(* the embedded diagnostic texts.  A file is a name (the hints the code    *)
(* takes from it) and its records; a record carries whether its check sum  *)
(* and its shape (digits, declared length, count and offset of a control   *)
(* record) are good.                                                       *)
(***************************************************************************)
EXTENDS Integers, Sequences, SequencesExt, TLC

CONSTANTS
  Base,        \* DEFAULT_FLASH_BASE
  Sizes,       \* SIZES: per MCU, the sizes of its sectors in order
  ProgramEnd,  \* end of the application window, settings lie behind it
  Segment,     \* words addressed by one step of the upper address
  MaxSpan,     \* MAX_IMAGE_SPAN
  MaxAddress   \* 2^32

ASSUME ImageAssumption ==
  /\ {Base, ProgramEnd, Segment, MaxSpan, MaxAddress} \subseteq Nat
  /\ \A m \in DOMAIN Sizes : Sizes[m] \in Seq(Nat \ {0})

Diagnostic == "F405"                 \* the MCU of the diagnostic profile
Stack(mcu) == IF mcu = Diagnostic THEN "f4" ELSE "f7"
Blank == <<"blank", 0>>
Junk == <<"junk", 0>>                \* a cell programmed twice, or badly

-----------------------------------------------------------------------------
(* parseIntelHex: one record after the other, then the whole.              *)

Fresh == [ok |-> TRUE, eof |-> FALSE, base |-> 0, entry |-> -1, raw |-> <<>>]

Record(s, r) ==
  LET bad == [s EXCEPT !.ok = FALSE]
      address == s.base + r.at
  IN IF ~s.ok \/ s.eof \/ ~r.sum \/ ~r.shape THEN bad
     ELSE CASE r.type = 0 ->
                 IF r.data = <<>> THEN s
                 ELSE IF address + Len(r.data) > MaxAddress THEN bad
                 ELSE [s EXCEPT !.raw = Append(@, [at |-> address, data |-> r.data])]
            [] r.type = 1 -> [s EXCEPT !.eof = TRUE]
            [] r.type = 2 -> [s EXCEPT !.base = r.val]            \* paragraphs
            [] r.type = 4 -> [s EXCEPT !.base = r.val * Segment]
            [] r.type = 5 -> [s EXCEPT !.entry = r.val]
            [] OTHER -> bad

End(region) == region.at + Len(region.data)

\* mergeAdjacentRegions on regions sorted by address.
Merge(sorted) ==
  FoldLeft(LAMBDA out, r :
             IF out # <<>> /\ End(Last(out)) = r.at
             THEN [out EXCEPT ![Len(out)].data = @ \o r.data]
             ELSE Append(out, r), <<>>, sorted)

ParseIntelHex(file) ==
  LET s == FoldLeft(Record, Fresh, file.recs)
      sorted == SortSeq(s.raw, LAMBDA a, b : a.at < b.at)
      overlap == \E i \in 1 .. Len(sorted) - 1 : sorted[i + 1].at < End(sorted[i])
      failed == [ok |-> FALSE, regions |-> <<>>, entry |-> -1, mcu |-> file.hint]
  IN IF ~s.ok \/ ~s.eof \/ s.raw = <<>> THEN failed
     ELSE IF overlap \/ End(Last(sorted)) - Head(sorted).at > MaxSpan THEN failed
     ELSE [ok |-> TRUE, regions |-> Merge(sorted), entry |-> s.entry, mcu |-> file.hint]

\* What the records of a file mean: the words they put where.
Denotes(file) ==
  LET last(i, types) == {j \in 1 .. i - 1 : file.recs[j].type \in types}
      base(i) == LET js == last(i, {2, 4}) IN
                 IF js = {} THEN 0
                 ELSE LET r == file.recs[CHOOSE j \in js : \A k \in js : k <= j] IN
                      IF r.type = 2 THEN r.val ELSE r.val * Segment
  IN UNION {{<<base(i) + file.recs[i].at + k - 1, file.recs[i].data[k]>> :
               k \in DOMAIN file.recs[i].data} :
               i \in {j \in DOMAIN file.recs : file.recs[j].type = 0}}

-----------------------------------------------------------------------------
(* The gates.                                                              *)

Regions(img) == ToSet(img.regions)
Mapped(img, a) == \E r \in Regions(img) : a \in r.at .. End(r) - 1
WordAt(img, a) == LET r == CHOOSE r \in Regions(img) : a \in r.at .. End(r) - 1
                  IN r.data[a - r.at + 1]

\* Vector table at the base, a mapped reset target, and a mapped entry if any.
Vectors(img, mcu) ==
  /\ Head(img.regions).at = Base
  /\ LET v == WordAt(img, Base) IN v[1] = Stack(mcu) /\ Mapped(img, v[2])
  /\ img.entry = -1 \/ Mapped(img, img.entry)

HasMarkers(img) == \E r \in Regions(img) : \E k \in DOMAIN r.data : r.data[k][1] = "marker"

\* validateF405DiagnosticImage
DiagnosticImage(img) ==
  /\ img.mcu \in {"none", Diagnostic}
  /\ \A r \in Regions(img) : End(r) <= ProgramEnd
  /\ Vectors(img, Diagnostic)
  /\ HasMarkers(img)

\* validateFirmwareForBoard: the page's check of image, board and file name.
ValidateFirmware(img, board, file) ==
  IF board.diagnostic
  THEN file.hint \in {"none", Diagnostic} /\ file.names = "none" /\ DiagnosticImage(img)
  ELSE /\ ~HasMarkers(img)
       /\ file.names \in {"none", board.id}
       /\ img.mcu \in {"none", board.mcu}
       /\ \A r \in Regions(img) : r.at >= Base /\ End(r) <= ProgramEnd
       /\ Vectors(img, board.mcu)

Total(sizes) == FoldLeft(LAMBDA n, k : n + k, 0, sizes)

\* assertMcuGate, and the checks flash() makes before it touches USB.
McuGate(img, opts) ==
  LET needsProfile == opts.mcu = Diagnostic \/ img.mcu = Diagnostic \/ opts.diagnostic
                        \/ HasMarkers(img)
  IN /\ opts.mcu \in DOMAIN Sizes
     /\ img.mcu \in {"none", opts.mcu}
     /\ needsProfile => opts.mcu = Diagnostic /\ opts.diagnostic /\ DiagnosticImage(img)
     /\ opts.full /\ opts.mcu # Diagnostic => Vectors(img, opts.mcu)
     /\ \A r \in Regions(img) : r.at >= Base /\ End(r) <= Base + Total(Sizes[opts.mcu])

-----------------------------------------------------------------------------
(* The erase plan.                                                         *)

\* The sectors of a flash with these sizes, as <<start, end>>.
Sectors(sizes) ==
  [i \in DOMAIN sizes |->
     LET start == Base + Total(SubSeq(sizes, 1, i - 1)) IN <<start, start + sizes[i]>>]

Fits(img, sizes) ==
  \A r \in Regions(img) : r.at >= Base /\ End(r) <= Base + Total(sizes)

\* A mutant: only the sector a region starts in.
FirstOnly(img, s) == \E r \in Regions(img) : r.at < s[2] /\ r.at >= s[1]
Intersects(img, s) == \E r \in Regions(img) : r.at < s[2] /\ End(r) > s[1]

\* planSectorErasesFromLayout: every intersecting sector once, lowest first.
PlanSectors(img, sizes) ==
  SelectSeq(Sectors(sizes), LAMBDA s : Intersects(img, s))

\* planFullChipErases
PlanFull(mcu) == Sectors(Sizes[mcu])

\* The layout checks of flash(): the descriptor has to be understood, to equal
\* the MCU's table for a full erase and for the diagnostic, and to hold the image.
LayoutAccepted(img, opts, layout) ==
  /\ layout # <<>>
  /\ opts.full \/ opts.diagnostic => layout = Sizes[opts.mcu]
  /\ Fits(img, layout)
=============================================================================
