------------------------- MODULE BlackboxPageProofs -------------------------
(***************************************************************************)
(* Proofs about BlackboxPage, for every set of cards and any number of     *)
(* events: the card has one user, an answer from before is not shown, a    *)
(* cancelled operation saves nothing, and a saved file comes whole from    *)
(* one card.  What the FAT reader makes of that card's sectors is left     *)
(* open.                                                                   *)
(***************************************************************************)
EXTENDS BlackboxPage, TLAPS

\* A step of a download that was cancelled saves nothing.
Sober == cancelReason => saved' = saved

LEMMA FailSober ==
  ASSUME NEW w, Fail(w)
  PROVE  Sober
  BY DEF Sober, Fail, Finish, outVars

\* The end of an operation looks at the cancel asked for meanwhile.
LEMMA DoneSober == Done => Sober
<1>1. Aborted => Sober \/ ~Done
  BY FailSober DEF Done
<1>2. ~Aborted /\ Done => Sober
  BY DEF Sober, Done, Aborted, Complete
<1> QED
  BY <1>1, <1>2

\* Reading a sector ends in its successor, in a refusal or in the closing command.
LEMMA ReadSober ==
  ASSUME NEW f, ReadReply(f)
  PROVE  Sober
<1>1. Fail(TRUE) \/ ~cancelReason
  BY DEF ReadReply
<1> QED
  BY <1>1, FailSober DEF Sober

\* Every answer, and every answer that does not come.
LEMMA AnswersSober == Answers => Sober
<1> SUFFICES ASSUME Answers PROVE Sober
  OBVIOUS
<1>1. ASSUME Keep PROVE Sober
  BY <1>1 DEF Keep, Sober, outVars
<1>2. CASE ProbeReply
  <2>1. Fail(TRUE) \/ Keep
    BY <1>2 DEF ProbeReply
  <2> QED
    BY <2>1, <1>1, FailSober
<1>3. CASE StatusReply
  <2>1. Fail(TRUE) \/ Keep \/ UNCHANGED <<opVars, outVars>>
    BY <1>3 DEF StatusReply
  <2> QED
    BY <2>1, <1>1, FailSober DEF Sober, outVars
<1>4. CASE PollDeadline
  BY <1>4, FailSober DEF PollDeadline
<1>5. ASSUME NEW k \in BOOLEAN, BlackboxReply(k) \/ ArmReply(k) PROVE Sober
  <2>1. Fail(sdOnWire) \/ Keep
    BY <1>5 DEF BlackboxReply, ArmReply
  <2> QED
    BY <2>1, <1>1, FailSober
<1>6. CASE CancelReply
  BY <1>6, DoneSober DEF CancelReply
<1>7. CASE GateBusy
  BY <1>7, DoneSober, FailSober DEF GateBusy
<1>8. CASE Timeout
  <2>1. Done \/ UNCHANGED outVars
    BY <1>8 DEF Timeout
  <2> QED
    BY <2>1, DoneSober DEF Sober, outVars
<1>9. CASE DropWaited
  BY <1>9, FailSober DEF DropWaited
<1> QED
  BY <1>2, <1>3, <1>4, <1>5, <1>6, <1>7, <1>8, <1>9, ReadSober DEF Answers

LEMMA SdSober == SdNext => Sober
<1> SUFFICES ASSUME SdNext PROVE Sober
  OBVIOUS
<1>1. CASE PortDropped \/ PortPulled
  <2>1. Done \/ UNCHANGED outVars
    BY <1>1 DEF PortDropped, PortPulled, Closed
  <2> QED
    BY <2>1, DoneSober DEF Sober, outVars
<1>2. CASE \/ ReadSilent \/ ProbeDone \/ Connect \/ Arming
           \/ \E c \in DOMAIN Cards \cup {None} : CardChange(c)
  BY <1>2 DEF Sober, ReadSilent, ProbeDone, Connect, Arming,
              CardChange, outVars
<1> QED
  BY <1>1, <1>2, AnswersSober DEF SdNext, Replies

\* Only the page starts an operation.
LEMMA SdStartsNothing == SdNext /\ ~busy => ~busy'
<1> SUFFICES ASSUME SdNext, pc = "idle" PROVE pc' = "idle"
  BY DEF busy
<1>1. ~Answers
  BY DEF Answers, ProbeReply, StatusReply, PollDeadline, BlackboxReply,
     ArmReply, ReadReply, CancelReply, GateBusy, Timeout, DropWaited,
     Awaits
<1>2. CASE PortDropped \/ PortPulled
  BY <1>2 DEF PortDropped, PortPulled, Closed, busy, opVars
<1> QED
  BY <1>1, <1>2 DEF SdNext, Replies, ReadSilent, ProbeDone, Connect,
     Arming, CardChange, opVars

-----------------------------------------------------------------------------
(* The card check and the recorder's poller beside the download.           *)

\* A command of the card check is only offered while no operation runs.
LEMMA CheckKeeps ==
  ASSUME OneSdUser, \/ \E c \in {"probe", "status", "cancel"} : CheckCommand(c)
                        \/ CheckReply
                        \/ CheckDeadline
  PROVE  OneSdUser'
<1>1. pc' = pc
  BY DEF CheckCommand, CheckReply, CheckDeadline, sdVars, opVars
<1>2. CASE \E c \in {"probe", "status", "cancel"} : CheckCommand(c)
  BY <1>1, <1>2 DEF OneSdUser, CheckCommand, CheckOffered, busy
<1>3. CASE CheckReply \/ CheckDeadline
  <2>1. ckBusy
    BY <1>3 DEF CheckReply, CheckDeadline, ckBusy
  <2> QED
    BY <1>1, <2>1 DEF OneSdUser, busy
<1> QED
  BY <1>2, <1>3

LEMMA UserStep == OneSdUser /\ [Next]_(vars) => OneSdUser'
<1> SUFFICES ASSUME OneSdUser, [Next]_(vars) PROVE OneSdUser'
  OBVIOUS
<1> USE DEF OneSdUser, ckBusy, busy
<1>1. ASSUME UNCHANGED ckVars, ~busy => ~busy' PROVE OneSdUser'
  BY <1>1 DEF ckVars
<1>2. ASSUME UNCHANGED <<ckVars, opVars>> PROVE OneSdUser'
  BY <1>2 DEF ckVars, opVars
<1>3. CASE Machine
  <2>1. ~busy => ~busy'
    BY <1>3, SdStartsNothing DEF Machine
  <2>2. UNCHANGED ckVars \/ (ckCmd' = None /\ ckPolling' = ckPolling)
    BY <1>3 DEF Machine, Others, Lost
  <2> QED
    BY <2>1, <2>2, <1>1
<1>4. CASE StartDownload
  BY <1>4 DEF StartDownload, NotBlocked, ckVars
<1>5. CASE Page /\ ~StartDownload
  <2>1. CASE \/ \E c \in {"start", "stop", "status"} : OnboardCommand(c)
             \/ \E o \in obOut, good \in BOOLEAN : OnboardReply(o, good)
    BY <2>1, <1>2 DEF OnboardCommand, OnboardReply, FwBlackbox, sdVars
  <2>2. CASE RecorderStart \/ RecorderStop \/ RecorderTick \/ SwitchTab
    BY <2>2, <1>2 DEF RecorderStart, RecorderStop, RecorderTick, SwitchTab,
                      sdVars
  <2>3. CASE ClickCancel
    BY <2>3 DEF ClickCancel, Cancel, ckVars
  <2> QED
    BY <1>5, <2>1, <2>2, <2>3, CheckKeeps DEF Page
<1>6. CASE Effects
  <2>1. CASE CheckEffect
    BY <2>1 DEF CheckEffect, sdVars, opVars
  <2>2. CASE OnboardEffect \/ RecorderEffect
    BY <2>2, <1>2 DEF OnboardEffect, RecorderEffect, sdVars
  <2>3. CASE DownloadEffect
    BY <2>3 DEF DownloadEffect, Cancel, ckVars
  <2> QED
    BY <1>6, <2>1, <2>2, <2>3 DEF Effects
<1>7. CASE UNCHANGED vars
  BY <1>7, <1>2 DEF vars, sdVars
<1> QED
  BY <1>3, <1>4, <1>5, <1>6, <1>7 DEF Next

\* No card check runs beside a listing or a download, for any cards, whatever is
\* cancelled, armed, swapped or dropped: a second probe would clear the mark that
\* the card was changed.
THEOREM CardHasOneUser == Spec => []OneSdUser
<1>1. Init => OneSdUser
  BY DEF Init, SdInit, OneSdUser, busy
<1> QED
  BY <1>1, UserStep, PTL DEF Spec

\* The snapshot changes only with the token of this enable or is forgotten.
LEMMA SnapStep == SnapshotFresh /\ [Next]_(vars) => SnapshotFresh'
<1> SUFFICES ASSUME SnapshotFresh, [Next]_(vars) PROVE SnapshotFresh'
  OBVIOUS
<1> USE DEF SnapshotFresh
<1>1. ASSUME UNCHANGED <<snap, snapNow>> PROVE SnapshotFresh'
  BY <1>1
<1>2. CASE Machine
  BY <1>1, <1>2 DEF Machine, Others, Lost, obVars
<1>3. ASSUME NEW o \in obOut, NEW good \in BOOLEAN, OnboardReply(o, good)
      PROVE  SnapshotFresh'
  BY <1>1, <1>3 DEF OnboardReply, OwnAnswer
<1>4. CASE Page /\ ~\E o \in obOut, good \in BOOLEAN : OnboardReply(o, good)
  BY <1>1, <1>4 DEF Page, OnboardCommand, CheckCommand, CheckReply,
     CheckDeadline, RecorderStart, RecorderStop, RecorderTick,
     StartDownload, ClickCancel, SwitchTab, obVars
<1>5. CASE Effects
  BY <1>1, <1>5 DEF Effects, OnboardEffect, CheckEffect, RecorderEffect,
     DownloadEffect, obVars
<1>6. CASE UNCHANGED vars
  BY <1>1, <1>6 DEF vars, obVars
<1> QED
  BY <1>2, <1>3, <1>4, <1>5, <1>6 DEF Next, Page

\* What the tab shows of the onboard recorder was asked for on this connection and
\* this visit, however many answers from before are still on their way.
THEOREM SnapshotIsFresh == Spec => []SnapshotFresh
<1>1. Init => SnapshotFresh
  BY DEF Init, SnapshotFresh
<1> QED
  BY <1>1, SnapStep, PTL DEF Spec

\* A cancelled operation saves no file, wherever the cancel (button, hidden tab)
\* fell between two of its awaits, the wait for the closing sd cancel included.
THEOREM CancelledSavesNothing == Spec => NoSaveAfterCancel
<1>1. [Next]_(vars) => [cancelReason => saved' = saved]_(sdVars)
  <2> SUFFICES ASSUME [Next]_(vars) PROVE cancelReason => saved' = saved
    OBVIOUS
  <2>1. CASE Machine
    BY <2>1, SdSober DEF Machine, Sober
  <2>2. CASE StartDownload
    BY <2>2 DEF StartDownload, List, Download, Begin
  <2>3. CASE Page /\ ~StartDownload
    BY <2>3 DEF Page, OnboardCommand, OnboardReply, FwBlackbox,
       CheckCommand, CheckReply, CheckDeadline, RecorderStart,
       RecorderStop, RecorderTick, ClickCancel, Cancel, SwitchTab,
       sdVars, outVars
  <2>4. CASE Effects
    BY <2>4 DEF Effects, OnboardEffect, CheckEffect, RecorderEffect,
       DownloadEffect, Cancel, sdVars, outVars
  <2>5. CASE UNCHANGED vars
    BY <2>5 DEF vars, sdVars, outVars
  <2> QED
    BY <2>1, <2>2, <2>3, <2>4, <2>5 DEF Next
<1> QED
  BY <1>1, PTL DEF Spec, NoSaveAfterCancel

-----------------------------------------------------------------------------
(* One card per file.                                                      *)

\* The reader finds a file of this name and size on card c, and v are its sectors:
\* all from metadata sectors D of that card.  D may be any set, since Meta refuses a
\* sector beyond the card before it looks at one.
FileOn(c, name, size, v) ==
  \E D : LET m == [l \in D |-> Cards[c].sec[l]]
             n == Cards[c].sectors
             g == Mount(m, n)
             r == ListBblFiles(m, n, g.val)
         IN /\ g.kind = "ok" /\ r.kind = "ok"
            /\ \E e \in r.val.files :
                 LET s == FileDataSectors(m, n, g.val, r.val.root, e)
                 IN e.name = name /\ e.size = size /\ s.kind = "ok" /\ s.val = v

\* b are the first of the sectors v, read from card c.
Part(c, v, b) == /\ b \in Seq({<<c, v[i]>> : i \in Nat})
                 /\ \A i \in 1 .. Len(b) : b[i] = <<c, v[i]>>

Whole(name, size, b) ==
  \E v : \E c \in DOMAIN Cards : FileOn(c, name, size, v) /\ Part(c, v, b) /\ Len(b) = Len(v)

\* Between two sectors; unless the card was touched, it is the one read so far.
Reading == \E c \in DOMAIN Cards : /\ FileOn(c, op, Listed.size, lbas)
                                   /\ Part(c, lbas, buf) /\ want = lbas[Len(buf) + 1]
                                   /\ ~fwStale => card = c

CardInv ==
  /\ card \in DOMAIN Cards \cup {None}
  /\ pc \notin {"read", "end"} => buf = <<>> /\ lbas = <<>> /\ cache = NoSectors
  /\ pc = "read" /\ lbas = <<>> => /\ buf = <<>>
                                   /\ ~fwStale => \A l \in DOMAIN cache : cache[l] = card
  /\ pc = "read" /\ lbas # <<>> => Reading
  /\ pc = "end" /\ ~failing /\ op # "list" => Whole(op, Listed.size, buf)
  /\ saved # None => Whole(saved.name, saved.size, saved.bytes)

\* A refusal forgets the sectors.
LEMMA FailCard ==
  ASSUME CardInv, NEW w, Fail(w), UNCHANGED card
  PROVE  CardInv'
<1>1. /\ pc' = "idle" \/ (pc' = "end" /\ failing')
      /\ buf' = <<>> /\ lbas' = <<>> /\ cache' = NoSectors /\ saved' = saved
  BY DEF Fail, Finish, Forget, Await, outVars
<1> QED
  BY <1>1 DEF CardInv

LEMMA DoneCard ==
  ASSUME CardInv, Done, pc = "end", UNCHANGED card
  PROVE  CardInv'
<1>1. CASE Aborted
  BY <1>1, FailCard DEF Done
<1>2. CASE ~Aborted
  <2>1. /\ pc' = "idle" /\ buf' = <<>> /\ lbas' = <<>> /\ cache' = NoSectors
        /\ Complete
    BY <1>2 DEF Done, Finish, Forget
  <2>2. saved' # None => Whole(saved'.name, saved'.size, saved'.bytes)
    BY <2>1 DEF Complete, CardInv
  <2> QED
    BY <2>1, <2>2 DEF CardInv
<1> QED
  BY <1>1, <1>2

\* Up to the first read nothing is held.
LEMMA KeepCard ==
  ASSUME CardInv, Keep, pc \notin {"read", "end"}, pc' # "end", UNCHANGED card
  PROVE  CardInv'
<1>1. buf' = <<>> /\ lbas' = <<>> /\ cache' = NoSectors /\ saved' = saved
  BY DEF CardInv, Keep, bufVars, outVars
<1>2. DOMAIN NoSectors = {}
  BY DEF NoSectors
<1> QED
  BY <1>1, <1>2 DEF CardInv

\* A step that leaves the operation alone may at most touch the card.
LEMMA IdleCard ==
  ASSUME CardInv, UNCHANGED <<bufVars, outVars, op, pc, failing>>,
         card' \in DOMAIN Cards \cup {None},
         fwStale' \/ (card' = card /\ (fwStale => pc \notin {"read", "end"}))
  PROVE  CardInv'
<1>1. /\ buf' = buf /\ lbas' = lbas /\ cache' = cache /\ saved' = saved /\ want' = want
      /\ pc' = pc /\ op' = op /\ failing' = failing /\ files' = files
  BY DEF bufVars, outVars
<1>2. Listed' = Listed
  BY <1>1 DEF Listed
<1>3. pc = "read" /\ Reading => Reading'
  BY <1>1, <1>2 DEF Reading
<1> QED
  BY <1>1, <1>2, <1>3 DEF CardInv

\* What the reader returns for a download.
LEMMA ReaderFinds ==
  ASSUME NEW D, op # "list",
         Reader([l \in D |-> Cards[card].sec[l]]).kind = "ok"
  PROVE  FileOn(card, op, Listed.size, Reader([l \in D |-> Cards[card].sec[l]]).val)
<1> DEFINE m == [l \in D |-> Cards[card].sec[l]]
           n == Cards[card].sectors
           g == Mount(m, n)
           r == ListBblFiles(m, n, g.val)
           e == CHOOSE x \in r.val.files : x.name = op
           s == FileDataSectors(m, n, g.val, r.val.root, e)
<1>1. g.kind = "ok"
  BY DEF Reader, Then
<1>2. r.kind = "ok"
  BY <1>1 DEF Reader, Then
<1>3. Reader(m) = IF ~\E x \in r.val.files : x.name = op THEN Refuse
                      ELSE IF EntryStands(Listed, e) THEN s ELSE Refuse
  BY <1>1, <1>2 DEF Reader, Then
<1>4. Refuse.kind # "ok"
  BY DEF Refuse
<1>5. /\ \E x \in r.val.files : x.name = op
      /\ EntryStands(Listed, e) /\ Reader(m) = s
  <2> HIDE DEF m, n, g, r, e, s
  <2> QED
    BY <1>3, <1>4 DEF m
<1>6. e \in r.val.files /\ e.name = op
  BY <1>5
<1>7. e.size = Listed.size /\ s.kind = "ok"
  BY <1>5 DEF EntryStands
<1> QED
  BY <1>1, <1>2, <1>5, <1>6, <1>7 DEF FileOn

\* A metadata sector is of the card that the operation began with, and so is what
\* the reader makes of it.
LEMMA MetaCard ==
  ASSUME CardInv, MetaRead, pc = "read", lbas = <<>>, ~fwStale, card \in DOMAIN Cards,
         UNCHANGED <<card, fwStale>>
  PROVE  CardInv'
<1> DEFINE D == DOMAIN cache \cup {want}
           c == [l \in D |-> IF l = want THEN card ELSE cache[l]]
           m == [l \in D |-> Cards[card].sec[l]]
           r == Reader(m)
<1>1. /\ buf = <<>>
      /\ \A l \in DOMAIN cache : cache[l] = card
  BY DEF CardInv
<1>2. \A l \in D : c[l] = card
  BY <1>1
<1>3. [l \in DOMAIN c |-> Cards[c[l]].sec[l]] = m
  BY <1>2
<1>4. \/ Fail(TRUE)
      \/ Read(r.lba) /\ cache' = c /\ UNCHANGED <<lbas, buf>>
      \/ op = "list" /\ Close /\ Forget
      \/ /\ op # "list" /\ r.kind = "ok"
         /\ Read(r.val[1]) /\ lbas' = r.val /\ cache' = NoSectors /\ UNCHANGED buf
  <2> HIDE DEF m
  <2> QED
    BY <1>3 DEF MetaRead
<1>5. CASE Fail(TRUE)
  BY <1>5, FailCard
<1>6. CASE Read(r.lba) /\ cache' = c /\ UNCHANGED <<lbas, buf>>
  <2>1. pc' = "read" /\ saved' = saved
    BY <1>6 DEF Read, opVars, outVars
  <2>2. \A l \in DOMAIN cache' : cache'[l] = card
    BY <1>6, <1>2
  <2> QED
    BY <1>1, <1>6, <2>1, <2>2 DEF CardInv
<1>7. CASE op = "list" /\ Close /\ Forget
  BY <1>7 DEF CardInv, Close, Await
<1>8. CASE /\ op # "list" /\ r.kind = "ok"
           /\ Read(r.val[1]) /\ lbas' = r.val /\ cache' = NoSectors /\ UNCHANGED buf
  <2>1. /\ pc' = "read" /\ saved' = saved /\ op' = op /\ files' = files
        /\ buf' = <<>> /\ lbas' = r.val /\ want' = r.val[1]
    BY <1>1, <1>8 DEF Read, opVars, outVars
  <2>2. Listed' = Listed
    BY <2>1 DEF Listed
  <2>3. FileOn(card, op, Listed.size, r.val)
    BY <1>8, ReaderFinds
  <2>4. Part(card, r.val, <<>>)
    BY DEF Part
  <2>5. Reading'
    <3>1. want' = lbas'[Len(buf') + 1]
      BY <2>1
    <3> QED
      BY <2>1, <2>2, <2>3, <2>4, <3>1 DEF Reading
  <2>6. DOMAIN NoSectors = {}
    BY DEF NoSectors
  <2> QED
    BY <2>1, <2>5, <2>6, <1>8 DEF CardInv
<1> QED
  BY <1>4, <1>5, <1>6, <1>7, <1>8

\* A sector of the file extends what is held; the last one completes it.
LEMMA DataCard ==
  ASSUME CardInv, DataRead(<<card, want>>), pc = "read", lbas # <<>>, ~fwStale,
         UNCHANGED <<card, fwStale>>
  PROVE  CardInv'
<1>1. PICK c \in DOMAIN Cards : /\ FileOn(c, op, Listed.size, lbas)
                                /\ Part(c, lbas, buf) /\ want = lbas[Len(buf) + 1] /\ card = c
  BY DEF CardInv, Reading
<1> DEFINE S == {<<c, lbas[i]>> : i \in Nat}
           b == Append(buf, <<card, want>>)
<1>2. buf \in Seq(S) /\ Len(buf) \in Nat
  BY <1>1 DEF Part
<1>3. <<card, want>> \in S
  BY <1>1, <1>2
<1>4. b \in Seq(S) /\ Len(b) = Len(buf) + 1
  <2> HIDE DEF S
  <2> QED
    BY <1>2, <1>3
<1>5. \A i \in 1 .. Len(b) : b[i] = <<c, lbas[i]>>
  <2> TAKE i \in 1 .. Len(b)
  <2>1. CASE i = Len(b)
    BY <2>1, <1>1, <1>2, <1>3, <1>4
  <2>2. CASE i # Len(b)
    <3>1. i \in 1 .. Len(buf) /\ b[i] = buf[i]
      BY <2>2, <1>2, <1>3, <1>4
    <3> QED
      BY <3>1, <1>1 DEF Part
  <2> QED
    BY <2>1, <2>2
<1>6. Part(c, lbas, b)
  BY <1>4, <1>5 DEF Part
<1>7. /\ buf' = b /\ lbas' = lbas /\ saved' = saved /\ op' = op /\ files' = files /\ failing' = failing
      /\ \/ pc' = "end" /\ Len(b) = Len(lbas)
         \/ pc' = "read" /\ want' = lbas[Len(b) + 1]
  <2>1. CASE Len(buf) + 1 = Len(lbas)
    BY <2>1, <1>4 DEF DataRead, Close, Await
  <2>2. CASE Len(buf) + 1 # Len(lbas)
    <3>1. Read(lbas[Len(buf) + 2]) /\ buf' = b /\ lbas' = lbas
      BY <2>2 DEF DataRead
    <3>2. Len(b) + 1 = Len(buf) + 2
      BY <1>2, <1>4
    <3> QED
      BY <3>1, <3>2 DEF Read, opVars, outVars
  <2> QED
    BY <2>1, <2>2
<1>8. Listed' = Listed
  BY <1>7 DEF Listed
<1>9. CASE pc' = "end" /\ Len(b) = Len(lbas)
  <2>1. Whole(op, Listed.size, b)
    BY <1>1, <1>6, <1>9 DEF Whole
  <2> QED
    BY <2>1, <1>7, <1>8, <1>9 DEF CardInv
<1>10. CASE pc' = "read" /\ want' = lbas[Len(b) + 1]
  <2>1. Reading'
    BY <1>1, <1>6, <1>7, <1>8, <1>10 DEF Reading
  <2> QED
    BY <2>1, <1>7, <1>10 DEF CardInv
<1> QED
  BY <1>7, <1>9, <1>10

LEMMA ReadCard ==
  ASSUME CardInv, NEW f, ReadReply(f)
  PROVE  CardInv'
<1>1. pc = "read" /\ UNCHANGED <<card, fwStale>>
  BY DEF ReadReply
<1>2. \/ Fail(TRUE)
      \/ CrcRetry
      \/ ~ReadFails /\ lbas = <<>> /\ MetaRead
      \/ ~ReadFails /\ lbas # <<>> /\ DataRead(<<card, want>>)
  BY DEF ReadReply
<1>3. ~ReadFails => ~fwStale /\ card \in DOMAIN Cards
  BY DEF ReadFails, SdRefuses, CardInv
<1>4. CASE CrcRetry /\ ~Fail(TRUE)
  <2>1. UNCHANGED <<opVars, outVars, want, cache, lbas, buf>>
    BY <1>4 DEF CrcRetry
  <2>2. Listed' = Listed
    BY <2>1 DEF Listed, opVars, outVars
  <2>3. Reading => Reading'
    BY <1>1, <2>1, <2>2 DEF Reading, opVars
  <2> QED
    BY <1>1, <2>1, <2>3 DEF CardInv, opVars, outVars
<1> QED
  BY <1>1, <1>2, <1>3, <1>4, FailCard, MetaCard, DataCard

LEMMA AnswersCard == CardInv /\ Answers => CardInv'
<1> SUFFICES ASSUME CardInv, Answers PROVE CardInv'
  OBVIOUS
<1>1. CASE ProbeReply
  <2>1. pc = "probe" /\ card' = card
    BY <1>1 DEF ProbeReply, fwVars
  <2>2. Fail(TRUE) \/ (Keep /\ pc' = "poll")
    BY <1>1 DEF ProbeReply, Await
  <2> QED
    BY <2>1, <2>2, FailCard, KeepCard
<1>2. CASE StatusReply
  <2>1. pc = "poll" /\ UNCHANGED <<card, fwStale>>
    BY <1>2 DEF StatusReply, fwVars
  <2>2. \/ Fail(TRUE)
        \/ Keep /\ pc' = "bb"
        \/ UNCHANGED <<bufVars, opVars, outVars>>
    BY <1>2 DEF StatusReply, Await
  <2>3. UNCHANGED opVars => UNCHANGED <<op, pc, failing>>
    BY DEF opVars
  <2>4. card' \in DOMAIN Cards \cup {None}
    BY <2>1 DEF CardInv
  <2> QED
    BY <2>1, <2>2, <2>3, <2>4, FailCard, KeepCard, IdleCard
<1>3. CASE PollDeadline
  BY <1>3, FailCard DEF PollDeadline, fwVars
<1>4. ASSUME NEW k \in BOOLEAN, BlackboxReply(k) \/ ArmReply(k) PROVE CardInv'
  <2>1. pc \in {"bb", "arm"} /\ card' = card
    BY <1>4 DEF BlackboxReply, ArmReply, fwVars
  <2>2. Fail(sdOnWire) \/ (Keep /\ pc' \in {"arm", "read"})
    BY <1>4 DEF BlackboxReply, ArmReply, Await
  <2> QED
    BY <2>1, <2>2, FailCard, KeepCard
<1>5. CASE CancelReply
  BY <1>5, DoneCard DEF CancelReply
<1>6. CASE GateBusy
  BY <1>6, DoneCard, FailCard DEF GateBusy, fwVars
<1>7. CASE Timeout
  <2>1. card' = card
    BY <1>7 DEF Timeout, fwVars
  <2>2. CASE pc = "end"
    BY <1>7, <2>1, <2>2, DoneCard DEF Timeout
  <2>3. CASE pc # "end"
    <3>1. /\ pc' = "drop" /\ buf' = <<>> /\ lbas' = <<>> /\ cache' = NoSectors
          /\ saved' = saved
      BY <1>7, <2>3 DEF Timeout, Forget, Await, outVars
    <3> QED
      BY <2>1, <3>1 DEF CardInv
  <2> QED
    BY <2>2, <2>3
<1>8. CASE DropWaited
  BY <1>8, FailCard DEF DropWaited, fwVars
<1> QED
  BY <1>1, <1>2, <1>3, <1>4, <1>5, <1>6, <1>7, <1>8, ReadCard DEF Answers

LEMMA SdCard == CardInv /\ SdNext => CardInv'
<1> SUFFICES ASSUME CardInv, SdNext PROVE CardInv'
  OBVIOUS
<1>1. card \in DOMAIN Cards \cup {None}
  BY DEF CardInv
<1>2. UNCHANGED opVars => UNCHANGED <<op, pc, failing>>
  BY DEF opVars
<1>3. CASE PortDropped \/ PortPulled
  <2>1. Closed /\ UNCHANGED <<card, fwStale>>
    BY <1>3 DEF PortDropped, PortPulled, Closed, fwVars
  <2>2. \/ UNCHANGED <<bufVars, opVars, outVars>>
        \/ pc = "end" /\ Done
        \/ Finish /\ UNCHANGED outVars
    BY <2>1 DEF Closed
  <2>3. CASE Finish /\ UNCHANGED outVars
    BY <2>1, <2>3 DEF CardInv, Finish, Forget, outVars
  <2> QED
    BY <1>1, <1>2, <2>1, <2>2, <2>3, DoneCard, IdleCard
<1>4. CASE \/ ReadSilent \/ ProbeDone \/ Connect \/ Arming
           \/ \E c \in DOMAIN Cards \cup {None} : CardChange(c)
  <2>1. /\ UNCHANGED <<bufVars, opVars, outVars>>
        /\ card' \in DOMAIN Cards \cup {None}
        /\ fwStale' \/ UNCHANGED <<card, fwStale>>
    BY <1>1, <1>4 DEF ReadSilent, ProbeDone, Connect, Arming, CardChange,
                      fwVars
  <2> QED
    BY <1>2, <2>1, IdleCard
<1> QED
  BY <1>3, <1>4, AnswersCard DEF SdNext, Replies

\* The rest of the tab: a start finds nothing held, a probe of the card check runs
\* only while no operation does, and a recording only makes the card stale.
LEMMA CardStep == CardInv /\ OneSdUser /\ [Next]_(vars) => CardInv'
<1> SUFFICES ASSUME CardInv, OneSdUser, [Next]_(vars) PROVE CardInv'
  OBVIOUS
<1>1. card \in DOMAIN Cards \cup {None}
  BY DEF CardInv
<1>2. ASSUME UNCHANGED sdVars PROVE CardInv'
  <2>1. UNCHANGED <<bufVars, outVars, op, pc, failing, card, fwStale>>
    BY <1>2 DEF sdVars, opVars, fwVars
  <2> QED
    BY <1>1, <2>1, IdleCard
<1>3. ASSUME UNCHANGED <<bufVars, outVars, op, pc, failing, fwVars>> PROVE CardInv'
  BY <1>1, <1>3, IdleCard DEF fwVars
<1>4. CASE Machine
  BY <1>4, SdCard DEF Machine
<1>5. CASE StartDownload
  <2>1. pc = "idle" /\ pc' = "probe" /\ UNCHANGED <<bufVars, fwVars, saved>>
    BY <1>5 DEF StartDownload, List, Download, Begin, busy, Await
  <2> QED
    BY <2>1 DEF CardInv, bufVars, fwVars
<1>6. CASE CheckReply
  <2>1. pc = "idle"
    BY <1>6 DEF CheckReply, OneSdUser, ckBusy, busy
  <2>2. UNCHANGED <<card, bufVars, outVars, opVars>>
    BY <1>6 DEF CheckReply
  <2> QED
    BY <1>1, <2>1, <2>2, IdleCard DEF opVars
<1>7. ASSUME NEW o \in obOut, NEW good \in BOOLEAN, OnboardReply(o, good) PROVE CardInv'
  <2>1. /\ UNCHANGED <<card, bufVars, outVars, opVars>>
        /\ fwStale' \/ ~fwStale
    BY <1>7 DEF OnboardReply, FwBlackbox
  <2> QED
    BY <1>1, <2>1, IdleCard DEF opVars
<1>8. CASE \/ \E c \in {"start", "stop", "status"} : OnboardCommand(c)
           \/ \E c \in {"probe", "status", "cancel"} : CheckCommand(c)
           \/ CheckDeadline \/ RecorderStart \/ RecorderStop \/ RecorderTick
  BY <1>8, <1>2 DEF OnboardCommand, CheckCommand, CheckDeadline,
     RecorderStart, RecorderStop, RecorderTick
<1>9. CASE ClickCancel \/ DownloadEffect
  BY <1>9, <1>3 DEF ClickCancel, DownloadEffect, Cancel
<1>10. CASE SwitchTab
  BY <1>10, <1>3 DEF SwitchTab, opVars
<1>11. CASE OnboardEffect \/ CheckEffect \/ RecorderEffect
  BY <1>11, <1>2 DEF OnboardEffect, CheckEffect, RecorderEffect
<1>12. CASE UNCHANGED vars
  BY <1>12, <1>2 DEF vars
<1> QED
  BY <1>4, <1>5, <1>6, <1>7, <1>8, <1>9, <1>10, <1>11, <1>12 DEF Next, Page, Effects

\* A file handed to the browser is, sector for sector, one that the reader finds
\* under that name and size on a single card, by that card's own FAT and directory:
\* for any cards, swaps, recordings, probes, faults and cancels.
THEOREM SavedFromOneCard ==
  Spec => [](saved # None => Whole(saved.name, saved.size, saved.bytes))
<1>1. Init => CardInv
  <2>1. DOMAIN NoSectors = {}
    BY DEF NoSectors
  <2> QED
    BY <2>1 DEF Init, SdInit, CardInv
<1>2. CardInv => (saved # None => Whole(saved.name, saved.size, saved.bytes))
  BY DEF CardInv
<1> QED
  BY <1>1, <1>2, CardStep, CardHasOneUser, PTL DEF Spec

\* What the reader finds on a card is what the card holds: a matter of Fat32Root
\* alone, and of the cards (MCBlackboxPage has TLC evaluate it on those of the run).
ReaderRight ==
  \A c \in DOMAIN Cards : \A name, size, v :
    FileOn(c, name, size, v) =>
      /\ name \in DOMAIN Cards[c].payload /\ Ceil(size, SectorBytes) \in Nat
      /\ v = [i \in 1 .. Ceil(size, SectorBytes) |-> Cards[c].payload[name][i]]

\* With a reader that is right about every card, a saved file is a whole log of one
\* card: nothing that happens between two sectors can mix or cut it.
THEOREM SavedIsWhole == ReaderRight => (Spec => []SavedWhole)
<1> SUFFICES ASSUME ReaderRight PROVE Spec => []SavedWhole
  OBVIOUS
<1>1. (saved # None => Whole(saved.name, saved.size, saved.bytes)) => SavedWhole
  <2> SUFFICES ASSUME saved # None, Whole(saved.name, saved.size, saved.bytes)
               PROVE  SavedWhole
    BY DEF SavedWhole
  <2> DEFINE b == saved.bytes
             K == Ceil(saved.size, SectorBytes)
  <2>1. PICK v : \E c \in DOMAIN Cards : /\ FileOn(c, saved.name, saved.size, v)
                                         /\ Part(c, v, b) /\ Len(b) = Len(v)
    BY DEF Whole
  <2>2. PICK c \in DOMAIN Cards : /\ FileOn(c, saved.name, saved.size, v)
                                  /\ Part(c, v, b) /\ Len(b) = Len(v)
    BY <2>1
  <2>3. /\ saved.name \in DOMAIN Cards[c].payload /\ K \in Nat
        /\ v = [i \in 1 .. K |-> Cards[c].payload[saved.name][i]]
    BY <2>2 DEF ReaderRight
  <2>4. Len(v) = K
    BY <2>3
  <2>5. b = [i \in 1 .. K |-> b[i]]
    BY <2>2, <2>4 DEF Part
  <2>6. \A i \in 1 .. K : b[i] = <<c, Cards[c].payload[saved.name][i]>>
    BY <2>2, <2>3, <2>4 DEF Part
  <2>7. b = [i \in 1 .. K |-> <<c, Cards[c].payload[saved.name][i]>>]
    BY <2>5, <2>6
  <2> QED
    BY <2>3, <2>7 DEF SavedWhole
<1> QED
  BY <1>1, SavedFromOneCard, PTL
=============================================================================
