----------------------------- MODULE FatLogProofs -----------------------------
(***************************************************************************)
(* Proofs about FatLog, for every volume geometry, every name limit and    *)
(* every number of sectors: what was on the card survives every failure    *)
(* and every loss of power, a volume that says it is clean is whole, and   *)
(* the writer implements LogFile.                                          *)
(***************************************************************************)
EXTENDS FatLog, FiniteSetTheorems, FunctionTheorems, WellFoundedInduction, TLAPS

-----------------------------------------------------------------------------
(* The invariant.                                                          *)

Offset == 0 .. SPC - 1

\* What a card may hold.
Volume == [fat   : [Fats -> [Cluster -> Entry]], clean : [Fats -> BOOLEAN],
           dir   : [Place -> SlotType],
           data  : [Cluster \X Offset -> Sector \cup {Old}],
           hint  : Cluster \cup {Unknown}, bhint : Cluster \cup {Unknown}]

Types == /\ TypeOK
         /\ disk \in Volume /\ expect \in Volume /\ base \in Volume
         /\ sent \in Seq(Sector)

Preparing == {"dirty1", "dirty2", "first1", "first2", "dir", "dirnext", "fsinfo", "backup"}
Linking   == {"new1", "new2", "prev1", "prev2"}
Writing   == Linking \cup {"data", "patch"}
Committed == {"cfsinfo", "cbackup", "clean1", "clean2"}
Second    == {"dirty2", "first2", "new2", "prev2", "clean2"}

\* The substates each phase may be in, and when a readback is due.
Control ==
    /\ phase = "PREPARING" => sub \in Preparing \cup {"mount"}
    /\ phase = "WRITING" => sub \in Writing \cup {"check"}
    /\ phase = "CLOSING" => sub \in Committed \cup {"cdir"}
    /\ phase \in {"IDLE", "READY", "DONE", "ERROR"} => sub = "idle"
    /\ verify_due => sub \in Writes
    /\ sub \in Second => NumFats = 2
    /\ sub = "dirnext" => NeedNext

\* Only a log has a number.
Numbered(d) == \A p \in Place : IF d.dir[p].kind = "log" THEN d.dir[p].num > 0
                                ELSE d.dir[p].num = 0

Closed(f) == \A c \in Cluster : f[c] \in Cluster => f[f[c]] # Free

Same(f, g) == \A c \in Cluster : f[c] = g[c]

\* The card as the session found it.
BaseOK == /\ Numbered(base) /\ \A k \in Fats : Closed(base.fat[k])
          /\ base.clean[1] => \A k \in Fats : Same(base.fat[k], base.fat[1])

\* Every file of before is on card d, and no chain of d meets a free cluster.
Keeps(d) ==
    /\ \A c \in Cluster : base.fat[1][c] # Free =>
          /\ \A k \in Fats : d.fat[k][c] = base.fat[k][c]
          /\ \A o \in Offset : d.data[<<c, o>>] = base.data[<<c, o>>]
    /\ \A p \in Seen(base) : base.dir[p].kind # "deleted" => d.dir[p] = base.dir[p]
    /\ \A k \in Fats : Closed(d.fat[k])

\* What the mount has chosen: a free cluster, a slot that is free for every
\* reader of the old directory, and a number no file has.
Mounted ==
    /\ base.clean[1]
    /\ base.fat[1][start] = Free
    /\ base.dir[slot].kind = (IF is_end THEN "end" ELSE "deleted")
    /\ \A q \in Place : Before(q, slot) => q \in Seen(base)
    /\ num > 0 /\ \A q \in Seen(base) : base.dir[q].num # num

\* ch: the file's first n clusters, all free before the session.
Chain(n, ch) ==
    /\ ch[1] = start
    /\ \A i, j \in 1 .. n : ch[i] = ch[j] => i = j
    /\ \A i \in 1 .. n : base.fat[1][ch[i]] = Free

Longer(n, ch, c) == [i \in 1 .. n + 1 |-> IF i <= n THEN ch[i] ELSE c]

\* A copy of the FAT: the old one, the chain, and the reserved clusters r.
Held(f, n, ch, r) ==
    /\ \A c \in Cluster \ r : (\A i \in 1 .. n : c # ch[i]) => f[c] = base.fat[1][c]
    /\ \A c \in r : f[c] = EOC
    /\ \A i \in 1 .. n : f[ch[i]] = IF i < n THEN ch[i + 1] ELSE EOC

\* The stages of a session: a substate before its write, "linked", "stored"
\* and "patched" after the last write of theirs, "ready", "check", "done".
FatOK(d, s, n, ch) ==
    CASE s \in {"dirty1", "dirty2", "first1"} -> \A k \in Fats : Same(d.fat[k], base.fat[1])
      [] s = "first2" -> Held(d.fat[1], n, ch, {}) /\ Same(d.fat[2], base.fat[1])
      [] s = "new2"   -> Held(d.fat[1], n, ch, {link}) /\ Held(d.fat[2], n, ch, {})
      [] s = "prev1"  -> \A k \in Fats : Held(d.fat[k], n, ch, {link})
      [] s = "prev2"  -> /\ Held(d.fat[1], n + 1, Longer(n, ch, link), {})
                         /\ Held(d.fat[2], n, ch, {link})
      [] s = "linked" -> \A k \in Fats : Held(d.fat[k], n + 1, Longer(n, ch, link), {})
      [] OTHER        -> \A k \in Fats : Held(d.fat[k], n, ch, {})

\* The slot after slot.
IsNext(p) == p = IF LastInSector(slot) THEN <<slot[1] + 1, 0>> ELSE <<slot[1], slot[2] + 1>>

\* The new entry; the end marker it replaced may follow it.
Entered(d, size) ==
    /\ d.dir[slot] = Slot("log", num, start, size)
    /\ \A p \in Place : p # slot /\ ~(is_end /\ IsNext(p)) => d.dir[p] = base.dir[p]

Marked(d) == is_end => \A p \in Place : IsNext(p) => d.dir[p] = End

\* Stages before the directory entry, and those after its size is written.
Early == {"dirty1", "dirty2", "first1", "first2", "dir"}
Late  == Committed \cup {"done"}

DirOK(d, s) ==
    CASE s \in Early -> \A p \in Place : d.dir[p] = base.dir[p]
      [] s = "dirnext" -> /\ d.dir[slot] = Slot("log", num, start, 0)
                          /\ \A p \in Place : p # slot => d.dir[p] = base.dir[p]
      [] s \in Late -> Entered(d, written) /\ Marked(d)
      [] OTHER -> Entered(d, 0) /\ Marked(d)

\* The sectors t fill the chain.
Filled(d, n, ch, t) ==
    \A j \in 1 .. n, o \in Offset :
        (j - 1) * SPC + o < Len(t) => d.data[<<ch[j], o>>] = t[(j - 1) * SPC + o + 1]

Patched == [sent EXCEPT ![1] = wbuf]

DataOK(d, s, n, ch) ==
    CASE s = "stored"  -> Filled(d, n, ch, Append(sent, wbuf))
      [] s = "patched" -> Filled(d, n, ch, Patched)
      [] OTHER         -> Filled(d, n, ch, sent)

\* How far the file has grown.
PlaceOK(s, n, ch) ==
    /\ ch[n] = cur /\ written = (n - 1) * SPC + off /\ Len(sent) = written
    /\ s \in Preparing => n = 1 /\ off = 0
    /\ s \in Linking \cup {"linked"} =>
          /\ off = SPC /\ base.fat[1][link] = Free
          /\ \A i \in 1 .. n : ch[i] # link
    /\ s \in {"data", "stored"} => off < SPC
    /\ s \notin {"data", "stored"} => off > 0 \/ n = 1
    /\ s \in Late \cup {"patch", "patched", "cdir"} => written > 0

CleanOK(d, s) == CASE s = "dirty1" -> d = base
                   [] s \in {"clean2", "done"} -> TRUE
                   [] OTHER -> ~d.clean[1]

\* Card d at stage s of a session whose file has the clusters ch.
At(d, s, n, ch) == /\ Chain(n, ch) /\ PlaceOK(s, n, ch)
                   /\ FatOK(d, s, n, ch) /\ DataOK(d, s, n, ch)
                   /\ DirOK(d, s) /\ CleanOK(d, s)

Good(d, s) == /\ Mounted
              /\ \E n \in Nat \ {0} : \E ch \in [1 .. n -> Cluster] : At(d, s, n, ch)

\* The stage a verified write leaves, before the writer takes note of it.
Past(s) == CASE s = "data" -> "stored"
             [] s = "patch" -> "patched"
             [] s = Twice("prev2", "prev1") -> "linked"
             [] OTHER -> After[s]

\* Where the session stands: a write that was handed over may be lost, and has
\* been made when the readback shows it.
Stage ==
    /\ sub = "mount" => disk = base /\ written = 0 /\ sent = <<>>
    /\ sub \in Writes /\ ~verify_due => Good(disk, sub)
    /\ verify_due => /\ Good(disk, sub) \/ Good(disk, Past(sub))
                     /\ disk = expect => Good(disk, Past(sub))
    /\ sub = "check" => Good(disk, "check")
    /\ phase = "READY" => Good(disk, "ready")
    /\ phase = "DONE" => Good(disk, "done")
    /\ phase = "WRITING" => wbuf \in Sector
    /\ sub \in Writing \cup {"check"} /\ sub # "patch" => written < MaxSectors

\* Card d holds the whole log: one entry, and a chain of the length it says.
Whole(d) ==
    /\ Mounted /\ Marked(d)
    /\ \E size \in 1 .. MaxSectors : \E n \in Nat \ {0} : \E ch \in [1 .. n -> Cluster] :
          /\ Entered(d, size) /\ n = Clusters(size)
          /\ Chain(n, ch) /\ \A k \in Fats : Held(d.fat[k], n, ch, {})

\* A volume that says it is clean is the old one, or holds the whole log.
CleanCases(d) == d.clean[1] => d = base \/ Whole(d)

Safe(d) == Numbered(d) /\ Keeps(d) /\ CleanCases(d)

LogInv == Types /\ Control /\ BaseOK /\ Safe(disk) /\ Stage
-----------------------------------------------------------------------------
(* Least elements.                                                         *)

LEMMA LeastNat ==
  ASSUME NEW S, S \subseteq Nat, S # {}
  PROVE  \E m \in S : \A n \in S : m <= n
<1> DEFINE R == OpToRel(<, Nat)
<1>1. IsWellFoundedOn(R, Nat)
  BY NatLessThanWellFounded
<1>2. \A x, y \in Nat : <<x, y>> \in R <=> x < y
  BY DEF OpToRel
<1> HIDE DEF R
<1>3. PICK m \in S : \A n \in S : <<n, m>> \notin R
  BY <1>1, WFMin
<1>4. ASSUME NEW n \in S PROVE m <= n
  <2>1. n \in Nat /\ m \in Nat
    OBVIOUS
  <2>2. ~(n < m)
    BY <2>1, <1>2, <1>3
  <2> QED
    BY <2>1, <2>2
<1> QED
  BY <1>4

LEMMA MinFacts ==
  ASSUME NEW S, S \subseteq Nat, S # {}
  PROVE  Min(S) \in S
  BY LeastNat DEF Min

\* The first of some directory slots: the least row, and in it the least column.
LEMMA FirstFacts ==
  ASSUME NEW ps, ps \subseteq Place, ps # {}
  PROVE  First(ps) \in ps
<1> DEFINE Rows == {p[1] : p \in ps}
<1>1. Rows \subseteq Nat /\ Rows # {}
  BY VolumeAssumption DEF Place
<1>2. PICK r \in Rows : \A s \in Rows : r <= s
  BY <1>1, LeastNat
<1> DEFINE Cols == {p[2] : p \in {q \in ps : q[1] = r}}
<1>3. Cols \subseteq Nat /\ Cols # {}
  BY VolumeAssumption DEF Place
<1>4. PICK k \in Cols : \A s \in Cols : k <= s
  BY <1>3, LeastNat
<1>5. PICK p \in ps : p[1] = r /\ p[2] = k
  BY <1>4
<1>6. ASSUME NEW q \in ps PROVE p = q \/ Before(p, q)
  <2>1. /\ p[1] \in Nat /\ p[2] \in Nat /\ q[1] \in Nat /\ q[2] \in Nat
        /\ p = <<p[1], p[2]>> /\ q = <<q[1], q[2]>>
    BY <1>5, VolumeAssumption DEF Place
  <2>2. p[1] <= q[1]
    BY <1>2, <1>5
  <2>3. CASE p[1] < q[1]
    BY <2>3 DEF Before
  <2>4. CASE p[1] = q[1]
    <3>1. q[2] \in Cols
      BY <2>4, <1>5
    <3>2. p[2] <= q[2]
      BY <3>1, <1>4, <1>5
    <3> QED
      BY <2>1, <2>4, <3>2 DEF Before
  <2> QED
    BY <2>1, <2>2, <2>3, <2>4
<1> QED
  BY <1>6 DEF First

-----------------------------------------------------------------------------
(* Reading the card.                                                       *)

\* What the scan finds is a free cluster.
LEMMA ScanFacts ==
  ASSUME disk \in Volume, NEW h, Scan(h) \in Cluster
  PROVE  disk.fat[1][Scan(h)] = Free
<1> DEFINE g == IF h \in Cluster THEN h ELSE 2
           sec(i) == (SecOf(g) + i) % FatSecs
           stops == {i \in 0 .. FatSecs - 1 : ~Mirrored(sec(i)) \/ FreeIn(sec(i)) # {}}
<1>1. Scan(h) = IF stops = {} THEN NoSpace
                ELSE IF ~Mirrored(sec(Min(stops))) THEN Mismatch
                ELSE Min(FreeIn(sec(Min(stops))))
  BY DEF Scan
<1>2. NoSpace \notin Cluster /\ Mismatch \notin Cluster
  BY VolumeAssumption DEF NoSpace, Mismatch, Cluster
<1>3. stops # {} /\ Mirrored(sec(Min(stops)))
  BY <1>1, <1>2
<1>4. stops \subseteq Nat
  OBVIOUS
<1>5. Min(stops) \in stops
  BY <1>3, <1>4, MinFacts
<1>6. FreeIn(sec(Min(stops))) # {}
  BY <1>3, <1>5
<1>7. FreeIn(sec(Min(stops))) \subseteq Nat
  BY VolumeAssumption DEF FreeIn, Cluster
<1>8. Min(FreeIn(sec(Min(stops)))) \in FreeIn(sec(Min(stops)))
  BY <1>6, <1>7, MinFacts
<1>9. Scan(h) \in FreeIn(sec(Min(stops)))
  BY <1>1, <1>3, <1>8
<1> HIDE DEF stops, sec
<1> QED
  BY <1>9 DEF FreeIn

-----------------------------------------------------------------------------
(* The card after a write.                                                 *)

LEMMA Constants ==
  /\ 1 \in Fats /\ Fats \subseteq {1, 2} /\ Fats \subseteq Nat
  /\ Cluster \subseteq Nat /\ Free \notin Cluster /\ EOC \notin Cluster /\ EOC # Free
  /\ EOC \in Entry /\ Free \in Entry /\ Cluster \subseteq Entry
  /\ Root \in Cluster
  /\ SPC \in Nat /\ SPC > 0 /\ Offset \subseteq Nat /\ 0 \in Offset
  BY VolumeAssumption DEF Fats, Cluster, Free, EOC, Entry, Root, Offset

LEMMA SecOfNat == \A c \in Cluster : SecOf(c) \in Nat
  BY VolumeAssumption DEF SecOf, Cluster

\* d differs from the card in its FAT and flags only.
FatOnly(d) == /\ d.dir = disk.dir /\ d.data = disk.data
              /\ d.hint = disk.hint /\ d.bhint = disk.bhint

\* One sector of one copy of the FAT written.
Wrote(d, k, sec, f, b) ==
    /\ d \in Volume /\ FatOnly(d)
    /\ \A c \in Cluster : d.fat[k][c] = IF SecOf(c) = sec THEN f[c] ELSE disk.fat[k][c]
    /\ \A j \in Fats \ {k} : d.fat[j] = disk.fat[j]
    /\ d.clean[k] = IF sec = 0 THEN b ELSE disk.clean[k]
    /\ \A j \in Fats \ {k} : d.clean[j] = disk.clean[j]

LEMMA WithFatFacts ==
  ASSUME disk \in Volume, NEW k \in Fats, NEW sec, NEW f \in [Cluster -> Entry], NEW b \in BOOLEAN,
         NEW d, d = WithFat(k, sec, f, b)
  PROVE  Wrote(d, k, sec, f, b)
<1> DEFINE g == [c \in Cluster |-> IF SecOf(c) = sec THEN f[c] ELSE disk.fat[k][c]]
           fl == IF sec = 0 THEN b ELSE disk.clean[k]
<1>1. g \in [Cluster -> Entry] /\ fl \in BOOLEAN
  BY DEF Volume
<1>2. d = [disk EXCEPT !.fat = [disk.fat EXCEPT ![k] = g], !.clean = [disk.clean EXCEPT ![k] = fl]]
  BY DEF WithFat, Volume
<1>3. [disk.fat EXCEPT ![k] = g] \in [Fats -> [Cluster -> Entry]]
  BY <1>1 DEF Volume
<1>4. [disk.clean EXCEPT ![k] = fl] \in [Fats -> BOOLEAN]
  BY <1>1 DEF Volume
<1> HIDE DEF g, fl
<1>5. d \in Volume
  BY <1>2, <1>3, <1>4 DEF Volume
<1>6. d.fat = [disk.fat EXCEPT ![k] = g] /\ d.clean = [disk.clean EXCEPT ![k] = fl] /\ FatOnly(d)
  BY <1>2 DEF Volume, FatOnly
<1>7. /\ d.fat[k] = g /\ d.clean[k] = fl
      /\ \A j \in Fats \ {k} : d.fat[j] = disk.fat[j] /\ d.clean[j] = disk.clean[j]
  BY <1>6 DEF Volume
<1> QED
  BY <1>5, <1>6, <1>7 DEF g, fl, Wrote

\* A new entry in the first copy changes that entry only.
LEMMA FirstCopy ==
  ASSUME disk \in Volume, NEW c \in Cluster, NEW v \in Entry, NEW d, d = SetEntry(1, c, v)
  PROVE  /\ d \in Volume /\ FatOnly(d)
         /\ \A x \in Cluster : d.fat[1][x] = IF x = c THEN v ELSE disk.fat[1][x]
         /\ \A j \in Fats \ {1} : d.fat[j] = disk.fat[j]
         /\ d.clean[1] = disk.clean[1]
<1> DEFINE f == [disk.fat[1] EXCEPT ![c] = v]
<1>1. f \in [Cluster -> Entry]
  BY Constants DEF Volume
<1>2. disk.clean[1] \in BOOLEAN
  BY Constants DEF Volume
<1>3. d = WithFat(1, SecOf(c), f, disk.clean[1])
  BY DEF SetEntry
<1>4. \A x \in Cluster : f[x] = IF x = c THEN v ELSE disk.fat[1][x]
  BY Constants DEF Volume
<1> HIDE DEF f
<1>5. 1 \in Fats
  BY Constants
<1>6. Wrote(d, 1, SecOf(c), f, disk.clean[1])
  BY <1>1, <1>2, <1>3, <1>5, WithFatFacts
<1> QED
  BY <1>4, <1>6 DEF Wrote

\* The second copy of that sector makes the copies agree on it.
LEMMA SecondCopy ==
  ASSUME disk \in Volume, 2 \in Fats, NEW c \in Cluster, NEW v, NEW d, d = SetEntry(2, c, v)
  PROVE  /\ d \in Volume /\ FatOnly(d)
         /\ \A x \in Cluster : d.fat[2][x] = IF SecOf(x) = SecOf(c) THEN disk.fat[1][x]
                                             ELSE disk.fat[2][x]
         /\ d.fat[1] = disk.fat[1] /\ d.clean[1] = disk.clean[1]
<1>1. disk.fat[1] \in [Cluster -> Entry] /\ disk.clean[1] \in BOOLEAN
  BY Constants DEF Volume
<1>2. d = WithFat(2, SecOf(c), disk.fat[1], disk.clean[1])
  BY DEF SetEntry
<1>3. 1 \in Fats \ {2}
  BY Constants
<1>4. Wrote(d, 2, SecOf(c), disk.fat[1], disk.clean[1])
  BY <1>1, <1>2, WithFatFacts
<1> QED
  BY <1>3, <1>4 DEF Wrote

\* Setting the flag copies sector 0 of the first copy.
LEMMA Flagged ==
  ASSUME disk \in Volume, NEW k \in Fats, NEW b \in BOOLEAN, NEW d, d = SetClean(k, b)
  PROVE  /\ d \in Volume /\ FatOnly(d)
         /\ \A x \in Cluster : d.fat[k][x] \in {disk.fat[1][x], disk.fat[k][x]}
         /\ \A j \in Fats \ {k} : d.fat[j] = disk.fat[j]
         /\ d.clean[1] = IF k = 1 THEN b ELSE disk.clean[1]
<1>1. disk.fat[1] \in [Cluster -> Entry]
  BY Constants DEF Volume
<1>2. d = WithFat(k, 0, disk.fat[1], b)
  BY DEF SetClean
<1>3. Wrote(d, k, 0, disk.fat[1], b)
  BY <1>1, <1>2, WithFatFacts
<1>4. \A x \in Cluster : d.fat[k][x] \in {disk.fat[1][x], disk.fat[k][x]}
  BY <1>3 DEF Wrote
<1>5. d.clean[1] = IF k = 1 THEN b ELSE disk.clean[1]
  BY <1>3, Constants DEF Wrote
<1> QED
  BY <1>3, <1>4, <1>5 DEF Wrote

-----------------------------------------------------------------------------
(* The order of the writes.                                                *)

LEMMA WritesAre ==
  Writes = Preparing \cup Linking \cup Committed \cup {"data", "patch", "cdir"}
  BY DEF Writes, After, Preparing, Linking, Committed

LEMMA WritesFixed == Writes' = Writes
  BY DEF Writes, After

LEMMA PastFacts ==
  /\ Past("dirty1") = IF NumFats = 2 THEN "dirty2" ELSE "first1"
  /\ Past("dirty2") = "first1"
  /\ Past("first1") = IF NumFats = 2 THEN "first2" ELSE "dir"
  /\ Past("first2") = "dir"
  /\ Past("dir") = IF NeedNext THEN "dirnext" ELSE "fsinfo"
  /\ Past("dirnext") = "fsinfo"
  /\ Past("fsinfo") = IF Backup THEN "backup" ELSE "ready"
  /\ Past("backup") = "ready"
  /\ Past("new1") = IF NumFats = 2 THEN "new2" ELSE "prev1"
  /\ Past("new2") = "prev1"
  /\ Past("prev1") = IF NumFats = 2 THEN "prev2" ELSE "linked"
  /\ NumFats = 2 => Past("prev2") = "linked"
  /\ Past("data") = "stored"
  /\ Past("patch") = "patched"
  /\ Past("cdir") = "cfsinfo"
  /\ Past("cfsinfo") = IF Backup THEN "cbackup" ELSE "clean1"
  /\ Past("cbackup") = "clean1"
  /\ Past("clean1") = IF NumFats = 2 THEN "clean2" ELSE "done"
  /\ Past("clean2") = "done"
  BY DEF Past, After, Twice

\* After the last write of a link the writer takes note, else it goes on.
LEMMA AfterFacts ==
  ASSUME NEW s \in Writes, s \in Second => NumFats = 2
  PROVE  /\ Past(s) = "stored" <=> s = "data"
         /\ Past(s) = "patched" <=> s = "patch"
         /\ Past(s) = "linked" <=> s = Twice("prev2", "prev1")
         /\ Past(s) \notin {"stored", "patched", "linked"} => After[s] = Past(s)
         /\ Past(s) = "linked" => After[s] = "data"
         /\ s \in {"data", "patch"} => After[s] = "ready"
         /\ Past(s) # "mount" /\ Past(s) # "check"
  BY WritesAre DEF Past, After, Twice, Preparing, Linking, Committed, Second

-----------------------------------------------------------------------------
(* What each write changes.                                                *)

FlagWrite == {"dirty1", "dirty2", "clean1", "clean2"}
EntryWrite == {"first1", "first2"} \cup Linking
HintWrite == {"fsinfo", "backup", "cfsinfo", "cbackup"}
DirWrite  == {"dir", "dirnext", "cdir"}
DataWrite == {"data", "patch"}

LEMMA Kinds ==
  Writes = FlagWrite \cup EntryWrite \cup HintWrite \cup DirWrite \cup DataWrite
  BY WritesAre DEF FlagWrite, EntryWrite, HintWrite, DirWrite, DataWrite, Preparing,
     Linking, Committed

LEMMA FlagImage ==
  ASSUME Types, sub \in FlagWrite, sub \in Second => NumFats = 2
  PROVE  /\ Image \in Volume /\ FatOnly(Image)
         /\ \A k \in Fats : \A x \in Cluster :
               Image.fat[k][x] \in {disk.fat[1][x], disk.fat[k][x]}
         /\ sub \in {"dirty1", "clean1"} => Image.clean[1] = (sub = "clean1")
         /\ sub \notin {"dirty1", "clean1"} => Image.clean[1] = disk.clean[1]
<1>1. ASSUME NEW k \in Fats, NEW b \in BOOLEAN, Image = SetClean(k, b)
      PROVE  /\ Image \in Volume /\ FatOnly(Image)
             /\ \A j \in Fats : \A x \in Cluster :
                   Image.fat[j][x] \in {disk.fat[1][x], disk.fat[j][x]}
             /\ Image.clean[1] = IF k = 1 THEN b ELSE disk.clean[1]
  <2>1. /\ Image \in Volume /\ FatOnly(Image)
        /\ \A x \in Cluster : Image.fat[k][x] \in {disk.fat[1][x], disk.fat[k][x]}
        /\ \A j \in Fats \ {k} : Image.fat[j] = disk.fat[j]
        /\ Image.clean[1] = IF k = 1 THEN b ELSE disk.clean[1]
    <3> HIDE DEF Image
    <3> QED
      BY <1>1, Flagged DEF Types
  <2> HIDE DEF Image
  <2> QED
    BY <2>1
<1>2. CASE sub = "dirty1"
  <2>1. Image = SetClean(1, FALSE)
    BY <1>2 DEF Image
  <2> QED
    BY <2>1, <1>1, <1>2, Constants
<1>3. CASE sub = "dirty2"
  <2>1. Image = SetClean(2, FALSE) /\ 2 \in Fats
    BY <1>3 DEF Image, Second, Fats
  <2>2. /\ Image \in Volume /\ FatOnly(Image)
        /\ \A j \in Fats : \A x \in Cluster :
              Image.fat[j][x] \in {disk.fat[1][x], disk.fat[j][x]}
        /\ Image.clean[1] = IF 2 = 1 THEN FALSE ELSE disk.clean[1]
    <3> HIDE DEF Image
    <3> QED
      BY <2>1, <1>1
  <2> HIDE DEF Image
  <2> QED
    BY <2>2, <1>3
<1>4. CASE sub = "clean1"
  <2>1. Image = SetClean(1, TRUE)
    BY <1>4 DEF Image
  <2> QED
    BY <2>1, <1>1, <1>4, Constants
<1>5. CASE sub = "clean2"
  <2>1. Image = SetClean(2, TRUE) /\ 2 \in Fats
    BY <1>5 DEF Image, Second, Fats
  <2>2. /\ Image \in Volume /\ FatOnly(Image)
        /\ \A j \in Fats : \A x \in Cluster :
              Image.fat[j][x] \in {disk.fat[1][x], disk.fat[j][x]}
        /\ Image.clean[1] = IF 2 = 1 THEN TRUE ELSE disk.clean[1]
    <3> HIDE DEF Image
    <3> QED
      BY <2>1, <1>1
  <2> HIDE DEF Image
  <2> QED
    BY <2>2, <1>5
<1> QED
  BY <1>2, <1>3, <1>4, <1>5 DEF FlagWrite

\* The cluster whose entry a write sets, and the value it gets.
Target == IF sub \in {"first1", "first2"} THEN start
          ELSE IF sub \in {"new1", "new2"} THEN link ELSE cur
Value  == IF sub \in {"prev1", "prev2"} THEN link ELSE EOC

LEMMA EntryImages ==
  ASSUME Types, sub \in EntryWrite, sub \in Second => NumFats = 2
  PROVE  /\ Image \in Volume /\ FatOnly(Image) /\ Image.clean[1] = disk.clean[1]
         /\ sub \notin Second =>
               /\ \A x \in Cluster : Image.fat[1][x] = IF x = Target THEN Value
                                                       ELSE disk.fat[1][x]
               /\ \A j \in Fats \ {1} : Image.fat[j] = disk.fat[j]
         /\ sub \in Second =>
               /\ 2 \in Fats /\ Image.fat[1] = disk.fat[1]
               /\ \A x \in Cluster : Image.fat[2][x] = IF SecOf(x) = SecOf(Target)
                                                       THEN disk.fat[1][x] ELSE disk.fat[2][x]
<1>1. Target \in Cluster /\ Value \in Entry
  BY Constants DEF Target, Value, Types, TypeOK
<1>2. disk \in Volume
  BY DEF Types
<1>3. CASE sub \notin Second
  <2>1. Image = SetEntry(1, Target, Value)
    BY <1>3 DEF Image, EntryWrite, Linking, Second, Target, Value
  <2> HIDE DEF Image
  <2> QED
    BY <2>1, <1>1, <1>2, <1>3, FirstCopy
<1>4. CASE sub \in Second
  <2>1. Image = SetEntry(2, Target, Value)
    BY <1>4 DEF Image, EntryWrite, Linking, Second, Target, Value
  <2>2. 2 \in Fats
    BY <1>4 DEF Fats
  <2> HIDE DEF Image
  <2> QED
    BY <2>1, <2>2, <1>1, <1>2, <1>4, SecondCopy
<1> QED
  BY <1>3, <1>4

\* d differs from the card in its hints only.
LEMMA HintImage ==
  ASSUME Types, sub \in HintWrite
  PROVE  /\ Image \in Volume /\ Image.fat = disk.fat /\ Image.clean = disk.clean
         /\ Image.dir = disk.dir /\ Image.data = disk.data
  BY DEF Types, HintWrite, Image, Volume

\* A write of file data puts wbuf in one sector.
LEMMA DataImage ==
  ASSUME Types, sub \in DataWrite, wbuf \in Sector, sub = "data" => off < SPC
  PROVE  LET x == IF sub = "data" THEN <<cur, off>> ELSE <<start, 0>> IN
         /\ Image \in Volume /\ Image.fat = disk.fat /\ Image.clean = disk.clean
         /\ Image.dir = disk.dir
         /\ Image.data = [disk.data EXCEPT ![x] = wbuf] /\ x \in Cluster \X Offset
<1> DEFINE x == IF sub = "data" THEN <<cur, off>> ELSE <<start, 0>>
<1>1. x \in Cluster \X Offset
  BY VolumeAssumption DEF Types, TypeOK, Offset
<1>2. Image = [disk EXCEPT !.data = [disk.data EXCEPT ![x] = wbuf]]
  BY DEF DataWrite, Image, Types, Volume
<1>3. [disk.data EXCEPT ![x] = wbuf] \in [Cluster \X Offset -> Sector \cup {Old}]
  BY <1>1 DEF Types, Volume
<1> HIDE DEF x
<1>4. Image \in Volume
  BY <1>2, <1>3 DEF Types, Volume
<1>5. /\ Image.fat = disk.fat /\ Image.clean = disk.clean /\ Image.dir = disk.dir
      /\ Image.data = [disk.data EXCEPT ![x] = wbuf]
  BY <1>2 DEF Types, Volume
<1> QED
  BY <1>1, <1>4, <1>5 DEF x

LEMMA SlotFacts ==
  ASSUME Types
  PROVE  /\ slot \in Place /\ End \in SlotType
         /\ \A size \in 0 .. MaxSectors : Slot("log", num, start, size) \in SlotType
         /\ LastInSector(slot) /\ slot[1] + 1 < SPC => <<slot[1] + 1, 0>> \in Place
         /\ ~LastInSector(slot) => <<slot[1], slot[2] + 1>> \in Place
         /\ ~IsNext(slot)
<1>1. slot \in Place
  BY DEF Types, TypeOK
<1>2. PICK r \in 0 .. SPC - 1, t \in 0 .. SlotsPerSec - 1 : slot = <<r, t>>
  BY <1>1 DEF Place
<1>3. /\ SPC \in Nat /\ SlotsPerSec \in Nat /\ SlotsPerSec > 0
      /\ slot[1] = r /\ slot[2] = t
  BY <1>2, VolumeAssumption
<1>4. End \in SlotType
  BY VolumeAssumption DEF End, Slot, SlotType
<1>5. \A size \in 0 .. MaxSectors : Slot("log", num, start, size) \in SlotType
  BY DEF Types, TypeOK, Slot, SlotType
<1>6. /\ LastInSector(slot) /\ slot[1] + 1 < SPC => <<slot[1] + 1, 0>> \in Place
      /\ ~LastInSector(slot) => <<slot[1], slot[2] + 1>> \in Place
  BY <1>3 DEF LastInSector, Place
<1>7. ~IsNext(slot)
  BY <1>2, <1>3 DEF IsNext
<1> QED
  BY <1>1, <1>4, <1>5, <1>6, <1>7

LEMMA DirImage ==
  ASSUME Types, sub \in DirWrite, sub = "dirnext" => NeedNext
  PROVE  /\ Image \in Volume /\ Image.fat = disk.fat /\ Image.clean = disk.clean
         /\ Image.data = disk.data
         /\ sub = "dir" =>
               \A p \in Place : Image.dir[p] =
                  IF p = slot THEN Slot("log", num, start, 0)
                  ELSE IF is_end /\ ~LastInSector(slot) /\ IsNext(p) THEN End ELSE disk.dir[p]
         /\ sub = "dirnext" =>
               \A p \in Place : Image.dir[p] = IF IsNext(p) THEN End ELSE disk.dir[p]
         /\ sub = "cdir" =>
               \A p \in Place : Image.dir[p] = IF p = slot THEN [disk.dir[slot] EXCEPT !.size = written]
                                               ELSE disk.dir[p]
<1>1. disk \in Volume /\ disk.dir \in [Place -> SlotType]
  BY DEF Types, Volume
<1>2. ASSUME NEW D \in [Place -> SlotType], Image = [disk EXCEPT !.dir = D]
      PROVE  /\ Image \in Volume /\ Image.fat = disk.fat /\ Image.clean = disk.clean
             /\ Image.data = disk.data /\ Image.dir = D
  <2> HIDE DEF Image
  <2> QED
    BY <1>1, <1>2 DEF Volume
<1>3. CASE sub = "dir"
  <2> DEFINE marker == <<slot[1], slot[2] + 1>>
             entry == [disk.dir EXCEPT ![slot] = Slot("log", num, start, 0)]
             D == IF is_end /\ ~LastInSector(slot) THEN [entry EXCEPT ![marker] = End] ELSE entry
  <2>1. Image = [disk EXCEPT !.dir = D]
    BY <1>3 DEF Image, EntryImage
  <2>2. entry \in [Place -> SlotType]
    BY <1>1, SlotFacts, VolumeAssumption
  <2>3. \A p \in Place : entry[p] = IF p = slot THEN Slot("log", num, start, 0) ELSE disk.dir[p]
    BY <1>1
  <2> HIDE DEF entry
  <2>4. D \in [Place -> SlotType]
    BY <2>2, SlotFacts
  <2>5. ~LastInSector(slot) => \A p \in Place : IsNext(p) <=> p = marker
    BY DEF IsNext
  <2>6. \A p \in Place : D[p] = IF p = slot THEN Slot("log", num, start, 0)
                                ELSE IF is_end /\ ~LastInSector(slot) /\ IsNext(p) THEN End
                                ELSE disk.dir[p]
    <3> HIDE DEF marker
    <3> QED
      BY <2>2, <2>3, <2>5, SlotFacts
  <2> HIDE DEF D
  <2>7. /\ Image \in Volume /\ Image.fat = disk.fat /\ Image.clean = disk.clean
        /\ Image.data = disk.data /\ Image.dir = D
    BY <2>1, <2>4, <1>2
  <2> HIDE DEF Image
  <2> QED
    BY <2>6, <2>7, <1>3
<1>4. CASE sub = "dirnext"
  <2> DEFINE D == [disk.dir EXCEPT ![<<slot[1] + 1, 0>>] = End]
  <2>1. Image = [disk EXCEPT !.dir = D]
    BY <1>4, <1>1 DEF Image, Volume
  <2>2. LastInSector(slot) /\ slot[1] + 1 < SPC
    BY <1>4 DEF NeedNext
  <2>3. D \in [Place -> SlotType]
    BY <1>1, SlotFacts
  <2>4. \A p \in Place : D[p] = IF IsNext(p) THEN End ELSE disk.dir[p]
    BY <1>1, <2>2 DEF IsNext
  <2> HIDE DEF D
  <2>5. /\ Image \in Volume /\ Image.fat = disk.fat /\ Image.clean = disk.clean
        /\ Image.data = disk.data /\ Image.dir = D
    BY <2>1, <2>3, <1>2
  <2> HIDE DEF Image
  <2> QED
    BY <2>4, <2>5, <1>4
<1>5. CASE sub = "cdir"
  <2> DEFINE e == [disk.dir[slot] EXCEPT !.size = written]
             D == [disk.dir EXCEPT ![slot] = e]
  <2>1. Image = [disk EXCEPT !.dir = D]
    BY <1>5, <1>1 DEF Image, Volume
  <2>2. e \in SlotType
    BY <1>1, SlotFacts DEF SlotType, Types, TypeOK
  <2> HIDE DEF e
  <2>3. D \in [Place -> SlotType]
    BY <1>1, <2>2
  <2>4. \A p \in Place : D[p] = IF p = slot THEN e ELSE disk.dir[p]
    BY <1>1
  <2> HIDE DEF D
  <2>5. /\ Image \in Volume /\ Image.fat = disk.fat /\ Image.clean = disk.clean
        /\ Image.data = disk.data /\ Image.dir = D
    BY <2>1, <2>3, <1>2
  <2> HIDE DEF Image
  <2> QED
    BY <2>4, <2>5, <1>5 DEF e
<1> QED
  BY <1>3, <1>4, <1>5 DEF DirWrite

-----------------------------------------------------------------------------
(* Chains in a copy of the FAT.                                            *)

LEMMA HeldSame ==
  ASSUME NEW n \in Nat \ {0}, NEW ch \in [1 .. n -> Cluster], NEW r, r \subseteq Cluster, NEW f, NEW g,
         Held(f, n, ch, r), Same(f, g)
  PROVE  Held(g, n, ch, r)
<1>1. \A i \in 1 .. n : ch[i] \in Cluster
  OBVIOUS
<1> QED
  BY <1>1 DEF Held, Same

\* What it holds determines a copy.
LEMMA HeldUnique ==
  ASSUME NEW n \in Nat \ {0}, NEW ch \in [1 .. n -> Cluster], NEW r, r \subseteq Cluster, NEW f, NEW g,
         Held(f, n, ch, r), Held(g, n, ch, r)
  PROVE  Same(f, g)
<1> SUFFICES ASSUME NEW x \in Cluster PROVE f[x] = g[x]
  BY DEF Same
<1>1. CASE x \in r
  BY <1>1 DEF Held
<1>2. CASE x \notin r /\ \A i \in 1 .. n : x # ch[i]
  BY <1>2 DEF Held
<1>3. CASE \E i \in 1 .. n : x = ch[i]
  BY <1>3 DEF Held
<1> QED
  BY <1>1, <1>2, <1>3

\* The first cluster of a file.
LEMMA HeldFirst ==
  ASSUME NEW ch \in [1 .. 1 -> Cluster], NEW f, NEW g, Same(f, base.fat[1]),
         \A x \in Cluster : g[x] = IF x = ch[1] THEN EOC ELSE f[x]
  PROVE  Held(g, 1, ch, {})
  BY DEF Held, Same

\* A free cluster is reserved.
LEMMA HeldLink ==
  ASSUME NEW n \in Nat \ {0}, NEW ch \in [1 .. n -> Cluster], NEW c \in Cluster,
         \A i \in 1 .. n : ch[i] # c, NEW f, NEW g, Held(f, n, ch, {}),
         \A x \in Cluster : g[x] = IF x = c THEN EOC ELSE f[x]
  PROVE  Held(g, n, ch, {c})
<1>1. \A i \in 1 .. n : ch[i] \in Cluster
  OBVIOUS
<1> QED
  BY <1>1 DEF Held

LEMMA LongerFacts ==
  ASSUME NEW n \in Nat \ {0}, NEW ch \in [1 .. n -> Cluster], NEW c \in Cluster
  PROVE  /\ Longer(n, ch, c) \in [1 .. n + 1 -> Cluster]
         /\ \A i \in 1 .. n : Longer(n, ch, c)[i] = ch[i]
         /\ Longer(n, ch, c)[n + 1] = c
  BY DEF Longer

\* The reserved cluster is linked to the last one of the chain.
LEMMA HeldLonger ==
  ASSUME NEW n \in Nat \ {0}, NEW ch \in [1 .. n -> Cluster], NEW c \in Cluster,
         \A i \in 1 .. n : ch[i] # c, \A i, j \in 1 .. n : ch[i] = ch[j] => i = j,
         NEW f, NEW g, Held(f, n, ch, {c}),
         \A x \in Cluster : g[x] = IF x = ch[n] THEN c ELSE f[x]
  PROVE  Held(g, n + 1, Longer(n, ch, c), {})
<1> DEFINE L == Longer(n, ch, c)
<1>1. /\ L \in [1 .. n + 1 -> Cluster] /\ \A i \in 1 .. n : L[i] = ch[i]
      /\ L[n + 1] = c
  BY LongerFacts
<1> HIDE DEF L
<1>2. ASSUME NEW x \in Cluster, \A i \in 1 .. n + 1 : x # L[i]
      PROVE  g[x] = base.fat[1][x]
  <2>1. x # c /\ \A i \in 1 .. n : x # ch[i]
    BY <1>1, <1>2
  <2> QED
    BY <2>1 DEF Held
<1>3. ASSUME NEW i \in 1 .. n + 1
      PROVE  g[L[i]] = IF i < n + 1 THEN L[i + 1] ELSE EOC
  <2>1. CASE i < n
    <3>1. L[i] = ch[i] /\ L[i + 1] = ch[i + 1] /\ ch[i] # ch[n] /\ ch[i] \in Cluster
      BY <2>1, <1>1
    <3> QED
      BY <2>1, <3>1 DEF Held
  <2>2. CASE i = n
    BY <2>2, <1>1
  <2>3. CASE i = n + 1
    BY <2>3, <1>1 DEF Held
  <2> QED
    BY <2>1, <2>2, <2>3
<1> QED
  BY <1>2, <1>3 DEF Held, L

\* A sector copied from one copy to another that differs in one entry of it.
LEMMA Copied ==
  ASSUME NEW c \in Cluster, NEW f, NEW g, NEW h,
         \A x \in Cluster : x # c => f[x] = g[x],
         \A x \in Cluster : h[x] = IF SecOf(x) = SecOf(c) THEN f[x] ELSE g[x]
  PROVE  Same(f, h)
  BY DEF Same

\* Such a copy keeps the files of before and no chain meets a free cluster.
LEMMA HeldKeeps ==
  ASSUME Types, BaseOK, NEW n \in Nat \ {0}, NEW ch \in [1 .. n -> Cluster], Chain(n, ch),
         NEW r, r \subseteq Cluster, \A c \in r : base.fat[1][c] = Free,
         NEW f, Held(f, n, ch, r)
  PROVE  /\ \A c \in Cluster : base.fat[1][c] # Free => f[c] = base.fat[1][c]
         /\ Closed(f)
<1>1. ASSUME NEW c \in Cluster, base.fat[1][c] # Free PROVE f[c] = base.fat[1][c]
  BY <1>1 DEF Chain, Held
<1>2. ASSUME NEW c \in Cluster, f[c] \in Cluster PROVE f[f[c]] # Free
  <2>1. CASE c \in r
    BY <2>1, <1>2, Constants DEF Held
  <2>2. CASE c \notin r /\ \A i \in 1 .. n : c # ch[i]
    <3>1. f[c] = base.fat[1][c]
      BY <2>2 DEF Held
    <3>2. base.fat[1][f[c]] # Free
      BY <3>1, <1>2, Constants DEF BaseOK, Closed
    <3>3. f[f[c]] = base.fat[1][f[c]]
      BY <3>2, <1>1, <1>2
    <3> QED
      BY <3>2, <3>3
  <2>3. ASSUME NEW i \in 1 .. n, c = ch[i] PROVE f[f[c]] # Free
    <3>1. i < n /\ f[c] = ch[i + 1]
      BY <2>3, <1>2, Constants DEF Held
    <3>2. i + 1 \in 1 .. n
      BY <3>1
    <3>3. f[ch[i + 1]] = IF i + 1 < n THEN ch[i + 1 + 1] ELSE EOC
      BY <3>2 DEF Held
    <3>4. i + 1 < n => ch[i + 1 + 1] \in Cluster
      BY <3>2
    <3> QED
      BY <3>1, <3>3, <3>4, Constants
  <2> QED
    BY <2>1, <2>2, <2>3
<1> QED
  BY <1>1, <1>2 DEF Closed

-----------------------------------------------------------------------------
(* The place of a sector in the file.                                      *)

LEMMA Euclid ==
  ASSUME NEW i \in Nat, NEW j \in Nat, NEW o \in Nat, NEW p \in Nat, o < SPC, p < SPC,
         i * SPC + o = j * SPC + p
  PROVE  i = j /\ o = p
<1>1. SPC \in Nat /\ i * SPC \in Nat /\ j * SPC \in Nat
  BY VolumeAssumption
<1>2. ASSUME NEW a \in Nat, NEW b \in Nat, a < b PROVE a * SPC + SPC <= b * SPC
  <2>1. PICK k \in Nat : b = a + 1 + k
    <3>1. b - a - 1 \in Nat /\ b = a + 1 + (b - a - 1)
      BY <1>2
    <3> QED
      BY <3>1
  <2>2. b * SPC = a * SPC + SPC + k * SPC
    BY <1>1, <2>1
  <2>3. k * SPC \in Nat /\ a * SPC \in Nat /\ b * SPC \in Nat
    BY <1>1
  <2> QED
    BY <1>1, <2>2, <2>3
<1>3. ~(i < j)
  BY <1>1, <1>2
<1>4. ~(j < i)
  BY <1>1, <1>2
<1>5. i = j
  BY <1>3, <1>4
<1> QED
  BY <1>1, <1>5

\* The index of a sector.
LEMMA IndexNat ==
  ASSUME NEW j \in Nat \ {0}, NEW o \in Nat
  PROVE  (j - 1) * SPC + o \in Nat
<1>1. j - 1 \in Nat /\ SPC \in Nat
  BY VolumeAssumption
<1>2. (j - 1) * SPC \in Nat
  BY <1>1
<1> QED
  BY <1>2

\* Quotient and remainder of an index.
LEMMA DivMod ==
  ASSUME NEW q \in Nat, NEW r \in Nat, r < SPC
  PROVE  (q * SPC + r) \div SPC = q /\ (q * SPC + r) % SPC = r
<1> DEFINE a == q * SPC + r
<1>1. SPC \in Nat /\ SPC > 0 /\ a \in Nat
  <2>1. SPC \in Nat /\ SPC > 0
    BY VolumeAssumption
  <2>2. q * SPC \in Nat
    BY <2>1
  <2> QED
    BY <2>1, <2>2
<1> HIDE DEF a
<1>2. a % SPC \in Nat /\ a % SPC < SPC
  BY <1>1
<1>3. a \div SPC \in Nat
  BY <1>1
<1>5. a = SPC * (a \div SPC) + (a % SPC)
  BY <1>1
<1>6. (a \div SPC) * SPC + (a % SPC) = q * SPC + r
  BY <1>1, <1>2, <1>3, <1>5 DEF a
<1>4. a \div SPC = q /\ a % SPC = r
  BY <1>2, <1>3, <1>6, Euclid
<1> QED
  BY <1>4 DEF a

-----------------------------------------------------------------------------
(* A write takes the session from its stage to the next one.               *)

LEMMA PastIs ==
  ASSUME sub \in Writes, sub \in Second => NumFats = 2
  PROVE  /\ sub \in {"dirty1", "dirty2"} => Past(sub) \in {"dirty2", "first1"}
         /\ sub \in {"first1", "first2"} => Past(sub) \in {"first2", "dir"}
         /\ sub \in {"dir", "dirnext", "fsinfo", "backup"} =>
               Past(sub) \in {"dirnext", "fsinfo", "backup", "ready"}
         /\ sub = "dir" => Past(sub) = IF NeedNext THEN "dirnext" ELSE "fsinfo"
         /\ Past(sub) = "dirnext" => sub = "dir"
         /\ sub \in Linking => Past(sub) \in Linking \cup {"linked"}
         /\ sub = "data" => Past(sub) = "stored"
         /\ sub = "patch" => Past(sub) = "patched"
         /\ sub \in Committed \cup {"cdir"} => Past(sub) \in Late
  BY PastFacts, WritesAre DEF Preparing, Linking, Committed, Late, Second

LEMMA PlaceStep ==
  ASSUME sub \in Writes, sub \in Second => NumFats = 2,
         NEW n \in Nat \ {0}, NEW ch \in [1 .. n -> Cluster], PlaceOK(sub, n, ch)
  PROVE  PlaceOK(Past(sub), n, ch)
<1>1. sub \in Preparing => Past(sub) \in Preparing \cup {"ready"}
  BY PastIs DEF Preparing
<1>2. CASE sub \in Preparing
  <2>1. Past(sub) \notin Linking \cup {"linked", "data", "stored", "patch", "patched", "cdir"} \cup Late
    BY <1>1, <1>2 DEF Preparing, Linking, Late, Committed
  <2> QED
    BY <1>1, <1>2, <2>1 DEF PlaceOK
<1>3. CASE sub \in Linking
  <2>1. Past(sub) \in Linking \cup {"linked"}
    BY <1>3, PastIs
  <2>2. Past(sub) \notin Preparing \cup {"data", "stored", "patch", "patched", "cdir"} \cup Late
    BY <2>1 DEF Linking, Preparing, Late, Committed
  <2>3. sub \notin {"data", "stored"}
    BY <1>3 DEF Linking
  <2> QED
    BY <1>3, <2>1, <2>2, <2>3 DEF PlaceOK
<1>4. CASE sub = "data"
  <2>1. Past(sub) = "stored"
    BY <1>4, PastIs
  <2> QED
    BY <1>4, <2>1 DEF PlaceOK, Preparing, Linking, Late, Committed
<1>5. CASE sub = "patch"
  <2>1. Past(sub) = "patched"
    BY <1>5, PastIs
  <2> QED
    BY <1>5, <2>1 DEF PlaceOK, Preparing, Linking, Late, Committed
<1>6. CASE sub \in Committed \cup {"cdir"}
  <2>1. Past(sub) \in Late /\ sub \in Late \cup {"patch", "patched", "cdir"}
    BY <1>6, PastIs DEF Late
  <2>2. /\ Past(sub) \notin Linking \cup {"linked", "data", "stored"} \cup Preparing
        /\ sub \notin {"data", "stored"}
    BY <1>6, <2>1 DEF Preparing, Linking, Late, Committed
  <2> QED
    BY <2>1, <2>2 DEF PlaceOK
<1> QED
  BY <1>2, <1>3, <1>4, <1>5, <1>6, WritesAre

\* What a write changes besides its own part of the card.
LEMMA ImageParts ==
  ASSUME Types, sub \in Writes, sub \in Second => NumFats = 2, sub = "dirnext" => NeedNext,
         wbuf \in Sector \/ sub \notin DataWrite, sub = "data" => off < SPC
  PROVE  /\ Image \in Volume
         /\ sub \notin DirWrite => Image.dir = disk.dir
         /\ sub \notin DataWrite => Image.data = disk.data
         /\ sub \notin FlagWrite \cup EntryWrite => Image.fat = disk.fat
         /\ sub \notin {"dirty1", "clean1"} => Image.clean[1] = disk.clean[1]
         /\ sub = "dirty1" => ~Image.clean[1]
<1>1. CASE sub \in FlagWrite
  <2>1. /\ Image \in Volume /\ FatOnly(Image)
        /\ sub \in {"dirty1", "clean1"} => Image.clean[1] = (sub = "clean1")
        /\ sub \notin {"dirty1", "clean1"} => Image.clean[1] = disk.clean[1]
    BY <1>1, FlagImage
  <2> HIDE DEF Image
  <2> QED
    BY <1>1, <2>1 DEF FatOnly
<1>2. CASE sub \in EntryWrite
  <2>1. Image \in Volume /\ FatOnly(Image) /\ Image.clean[1] = disk.clean[1]
    BY <1>2, EntryImages
  <2>2. sub \notin {"dirty1", "clean1"}
    BY <1>2 DEF EntryWrite, Linking
  <2> HIDE DEF Image
  <2> QED
    BY <1>2, <2>1, <2>2 DEF FatOnly
<1>3. CASE sub \in HintWrite
  <2>1. sub \notin {"dirty1", "clean1"}
    BY <1>3 DEF HintWrite
  <2> HIDE DEF Image
  <2> QED
    BY <1>3, <2>1, HintImage
<1>4. CASE sub \in DirWrite
  <2>1. /\ Image \in Volume /\ Image.fat = disk.fat /\ Image.clean = disk.clean
        /\ Image.data = disk.data
    BY <1>4, DirImage
  <2>2. sub \notin {"dirty1", "clean1"}
    BY <1>4 DEF DirWrite
  <2> HIDE DEF Image
  <2> QED
    BY <1>4, <2>1, <2>2
<1>5. CASE sub \in DataWrite
  <2>1. /\ Image \in Volume /\ Image.fat = disk.fat /\ Image.clean = disk.clean
        /\ Image.dir = disk.dir
    BY <1>5, DataImage
  <2>2. sub \notin {"dirty1", "clean1"}
    BY <1>5 DEF DataWrite
  <2> HIDE DEF Image
  <2> QED
    BY <1>5, <2>1, <2>2
<1> QED
  BY <1>1, <1>2, <1>3, <1>4, <1>5, Kinds

LEMMA CleanStep ==
  ASSUME Types, sub \in Writes, sub \in Second => NumFats = 2, sub = "dirnext" => NeedNext,
         wbuf \in Sector \/ sub \notin DataWrite, sub = "data" => off < SPC,
         CleanOK(disk, sub)
  PROVE  CleanOK(Image, Past(sub))
<1>1. CASE sub \in {"clean1", "clean2"}
  <2>1. Past(sub) \in {"clean2", "done"}
    BY <1>1, PastFacts
  <2> QED
    BY <2>1 DEF CleanOK
<1>2. CASE sub = "dirty1"
  <2>1. ~Image.clean[1]
    BY <1>2, ImageParts
  <2>2. Past(sub) # "dirty1"
    BY <1>2, PastFacts
  <2> HIDE DEF Image
  <2> QED
    BY <2>1, <2>2 DEF CleanOK
<1>3. CASE sub \notin {"dirty1", "clean1", "clean2"}
  <2>1. Image.clean[1] = disk.clean[1]
    BY <1>3, ImageParts
  <2>2. ~disk.clean[1]
    BY <1>3, WritesAre DEF CleanOK, Preparing, Linking, Committed
  <2>3. Past(sub) # "dirty1"
    BY PastIs, WritesAre DEF Preparing, Linking, Committed, Late
  <2> HIDE DEF Image
  <2> QED
    BY <2>1, <2>2, <2>3 DEF CleanOK
<1> QED
  BY <1>1, <1>2, <1>3

LEMMA DirStep ==
  ASSUME Types, sub \in Writes, sub \in Second => NumFats = 2, sub = "dirnext" => NeedNext,
         wbuf \in Sector \/ sub \notin DataWrite, sub = "data" => off < SPC,
         DirOK(disk, sub)
  PROVE  DirOK(Image, Past(sub))
<1>1. CASE sub = "dir"
  <2>1. \A p \in Place : disk.dir[p] = base.dir[p]
    BY <1>1 DEF DirOK, Early, Late, Committed
  <2>2. \A p \in Place : Image.dir[p] =
           IF p = slot THEN Slot("log", num, start, 0)
           ELSE IF is_end /\ ~LastInSector(slot) /\ IsNext(p) THEN End ELSE disk.dir[p]
    BY <1>1, DirImage DEF DirWrite
  <2> HIDE DEF Image
  <2>3. Image.dir[slot] = Slot("log", num, start, 0)
    BY <2>2, SlotFacts
  <2>4. CASE NeedNext
    <3>1. Past(sub) = "dirnext"
      BY <1>1, <2>4, PastFacts
    <3>2. \A p \in Place : p # slot => Image.dir[p] = base.dir[p]
      BY <2>1, <2>2, <2>4 DEF NeedNext
    <3> QED
      BY <3>1, <3>2, <2>3 DEF DirOK, Early, Late, Committed
  <2>5. CASE ~NeedNext
    <3>1. Past(sub) = "fsinfo"
      BY <1>1, <2>5, PastFacts
    <3>2. Entered(Image, 0)
      BY <2>1, <2>2, <2>3 DEF Entered
    <3>3. ASSUME is_end, NEW p \in Place, IsNext(p) PROVE Image.dir[p] = End
      <4>1. ~LastInSector(slot)
        <5>1. SUFFICES ASSUME LastInSector(slot) PROVE FALSE
          OBVIOUS
        <5>2. p[1] = slot[1] + 1 /\ p[1] < SPC
          BY <5>1, <3>3, SlotFacts, VolumeAssumption DEF IsNext, Place
        <5> QED
          BY <5>1, <5>2, <3>3, <2>5 DEF NeedNext
      <4>2. p # slot
        BY <3>3, SlotFacts
      <4> QED
        BY <4>1, <4>2, <3>3, <2>2
    <3> QED
      BY <3>1, <3>2, <3>3 DEF DirOK, Early, Late, Committed, Marked
  <2> QED
    BY <2>4, <2>5
<1>2. CASE sub = "dirnext"
  <2>1. /\ disk.dir[slot] = Slot("log", num, start, 0)
        /\ \A p \in Place : p # slot => disk.dir[p] = base.dir[p]
    BY <1>2 DEF DirOK, Early, Late, Committed
  <2>2. \A p \in Place : Image.dir[p] = IF IsNext(p) THEN End ELSE disk.dir[p]
    BY <1>2, DirImage DEF DirWrite
  <2>3. Past(sub) = "fsinfo"
    BY <1>2, PastFacts
  <2>4. is_end
    BY <1>2 DEF NeedNext
  <2> HIDE DEF Image
  <2>5. Entered(Image, 0)
    BY <2>1, <2>2, <2>4, SlotFacts DEF Entered
  <2>6. Marked(Image)
    BY <2>2 DEF Marked
  <2> QED
    BY <2>3, <2>5, <2>6 DEF DirOK, Early, Late, Committed
<1>3. CASE sub = "cdir"
  <2>1. Entered(disk, 0) /\ Marked(disk)
    BY <1>3 DEF DirOK, Early, Late, Committed
  <2>2. \A p \in Place : Image.dir[p] = IF p = slot THEN [disk.dir[slot] EXCEPT !.size = written]
                                        ELSE disk.dir[p]
    BY <1>3, DirImage DEF DirWrite
  <2>3. Past(sub) \in Late
    BY <1>3, PastIs
  <2> HIDE DEF Image
  <2>4. Image.dir[slot] = Slot("log", num, start, written)
    BY <2>1, <2>2, SlotFacts DEF Entered, Slot
  <2>5. Entered(Image, written)
    BY <2>1, <2>2, <2>4 DEF Entered
  <2>6. Marked(Image)
    BY <2>1, <2>2, SlotFacts DEF Marked
  <2> QED
    BY <2>3, <2>5, <2>6 DEF DirOK, Early, Late, Committed
<1>4. CASE sub \notin DirWrite
  <2>1. Image.dir = disk.dir
    BY <1>4, ImageParts
  <2>2. sub # "dir" /\ sub # "dirnext" /\ sub # "cdir"
    BY <1>4 DEF DirWrite
  <2>3. sub \in Early => Past(sub) \in Early
    BY <2>2, PastIs DEF Early
  <2>4. sub \in Late => Past(sub) \in Late
    BY PastIs, WritesAre DEF Late, Preparing, Linking, Committed
  <2>5. sub \notin Early \cup Late => Past(sub) \notin Early \cup Late /\ Past(sub) # "dirnext"
    BY <2>2, PastIs, WritesAre DEF Early, Late, Preparing, Linking, Committed
  <2>6. Past(sub) # "dirnext"
    BY <2>2, PastIs
  <2>7. Early \cap Late = {} /\ "dirnext" \notin Late
    BY DEF Early, Late, Committed
  <2>8. \A size : Entered(Image, size) <=> Entered(disk, size)
    BY <2>1 DEF Entered
  <2>9. Marked(Image) <=> Marked(disk)
    BY <2>1 DEF Marked
  <2> HIDE DEF Image
  <2> QED
    BY <2>1, <2>2, <2>3, <2>4, <2>5, <2>6, <2>7, <2>8, <2>9 DEF DirOK
<1> QED
  BY <1>1, <1>2, <1>3, <1>4 DEF DirWrite

\* A sector written after the last one of the chain.
LEMMA AppendSector ==
  ASSUME Types, NEW n \in Nat \ {0}, NEW ch \in [1 .. n -> Cluster], Chain(n, ch),
         ch[n] = cur, Len(sent) = (n - 1) * SPC + off, off < SPC, wbuf \in Sector,
         NEW d, NEW e, Filled(d, n, ch, sent),
         d.data \in [Cluster \X Offset -> Sector \cup {Old}],
         e.data = [d.data EXCEPT ![<<cur, off>>] = wbuf]
  PROVE  Filled(e, n, ch, Append(sent, wbuf))
<1> DEFINE u == Append(sent, wbuf)
<1>1. /\ u \in Seq(Sector) /\ Len(u) = Len(sent) + 1 /\ u[Len(sent) + 1] = wbuf
      /\ \A i \in 1 .. Len(sent) : u[i] = sent[i]
  BY DEF Types
<1>2. Len(sent) \in Nat /\ off \in Nat /\ cur \in Cluster
  BY VolumeAssumption DEF Types, TypeOK
<1> HIDE DEF u
<1> SUFFICES ASSUME NEW j \in 1 .. n, NEW o \in Offset, (j - 1) * SPC + o < Len(u)
             PROVE  e.data[<<ch[j], o>>] = u[(j - 1) * SPC + o + 1]
  BY DEF Filled, u
<1> DEFINE k == (j - 1) * SPC + o
<1>3. o \in Nat /\ o < SPC /\ k \in Nat
  <2>1. o \in Nat /\ o < SPC /\ j \in Nat \ {0}
    BY VolumeAssumption DEF Offset
  <2> QED
    BY <2>1, IndexNat
<1>4. <<ch[j], o>> \in Cluster \X Offset /\ <<cur, off>> \in Cluster \X Offset
  BY <1>2, VolumeAssumption DEF Offset
<1> HIDE DEF k
<1>5. CASE k < Len(sent)
  <2>1. d.data[<<ch[j], o>>] = sent[k + 1]
    BY <1>5 DEF Filled, k
  <2>2. ASSUME <<ch[j], o>> = <<cur, off>> PROVE FALSE
    <3>1. ch[j] = ch[n] /\ n \in 1 .. n
      BY <2>2
    <3>2. j = n
      BY <3>1 DEF Chain
    <3>3. k = Len(sent)
      BY <2>2, <3>2 DEF k
    <3> QED
      BY <3>3, <1>5, <1>2
  <2>3. e.data[<<ch[j], o>>] = d.data[<<ch[j], o>>]
    BY <2>2, <1>4
  <2>4. u[k + 1] = sent[k + 1]
    BY <1>1, <1>2, <1>3, <1>5
  <2> QED
    BY <2>1, <2>3, <2>4 DEF k
<1>6. CASE k = Len(sent)
  <2>1. (j - 1) * SPC + o = (n - 1) * SPC + off /\ j - 1 \in Nat /\ n - 1 \in Nat
    BY <1>6 DEF k
  <2>2. j - 1 = n - 1 /\ o = off
    BY <2>1, <1>2, <1>3, Euclid
  <2>3. <<ch[j], o>> = <<cur, off>>
    BY <2>2
  <2> QED
    BY <2>3, <1>1, <1>4, <1>6 DEF k
<1>7. k < Len(sent) \/ k = Len(sent)
  BY <1>1, <1>2, <1>3 DEF k
<1> QED
  BY <1>5, <1>6, <1>7

LEMMA PatchedFacts ==
  ASSUME Types, wbuf \in Sector
  PROVE  /\ Patched \in Seq(Sector) /\ Len(Patched) = Len(sent)
         /\ Len(sent) > 0 => Patched[1] = wbuf
         /\ \A i \in 1 .. Len(sent) : i # 1 => Patched[i] = sent[i]
<1>1. sent \in Seq(Sector) /\ Len(sent) \in Nat
  BY DEF Types
<1>2. /\ DOMAIN Patched = 1 .. Len(sent) /\ Patched = [i \in 1 .. Len(sent) |-> Patched[i]]
      /\ \A i \in 1 .. Len(sent) : Patched[i] = IF i = 1 THEN wbuf ELSE sent[i]
  BY <1>1 DEF Patched
<1>3. \A i \in 1 .. Len(sent) : Patched[i] \in Sector
  BY <1>1, <1>2
<1>4. Patched \in Seq(Sector) /\ Len(Patched) = Len(sent)
  BY <1>1, <1>2, <1>3
<1> QED
  BY <1>1, <1>2, <1>4

\* The first sector rewritten.
LEMMA PatchSector ==
  ASSUME Types, NEW n \in Nat \ {0}, NEW ch \in [1 .. n -> Cluster], Chain(n, ch),
         Len(sent) > 0, wbuf \in Sector,
         NEW d, NEW e, Filled(d, n, ch, sent),
         d.data \in [Cluster \X Offset -> Sector \cup {Old}],
         e.data = [d.data EXCEPT ![<<start, 0>>] = wbuf]
  PROVE  Filled(e, n, ch, Patched)
<1>1. /\ Patched \in Seq(Sector) /\ Len(Patched) = Len(sent) /\ Patched[1] = wbuf
      /\ \A i \in 1 .. Len(sent) : i # 1 => Patched[i] = sent[i]
  BY PatchedFacts
<1> SUFFICES ASSUME NEW j \in 1 .. n, NEW o \in Offset, (j - 1) * SPC + o < Len(sent)
             PROVE  e.data[<<ch[j], o>>] = Patched[(j - 1) * SPC + o + 1]
  BY <1>1 DEF Filled
<1>2. Len(sent) \in Nat /\ start \in Cluster
  BY DEF Types, TypeOK
<1> DEFINE k == (j - 1) * SPC + o
<1>3. o \in Nat /\ o < SPC /\ k \in Nat
  <2>1. o \in Nat /\ o < SPC /\ j \in Nat \ {0}
    BY VolumeAssumption DEF Offset
  <2> QED
    BY <2>1, IndexNat
<1>4. <<ch[j], o>> \in Cluster \X Offset /\ <<start, 0>> \in Cluster \X Offset
  BY <1>2, VolumeAssumption DEF Offset
<1>5. d.data[<<ch[j], o>>] = sent[k + 1] /\ k < Len(sent)
  BY DEF Filled
<1> HIDE DEF k
<1>6. CASE <<ch[j], o>> = <<start, 0>>
  <2>1. ch[j] = ch[1] /\ 1 \in 1 .. n
    BY <1>6 DEF Chain
  <2>2. j = 1 /\ o = 0
    BY <1>6, <2>1 DEF Chain
  <2>3. k = 0
    BY <2>2, VolumeAssumption DEF k
  <2> QED
    BY <2>3, <1>1, <1>4, <1>6 DEF k
<1>7. CASE <<ch[j], o>> # <<start, 0>>
  <2>1. e.data[<<ch[j], o>>] = sent[k + 1]
    BY <1>4, <1>5, <1>7
  <2>2. k # 0
    <3>1. SUFFICES ASSUME k = 0 PROVE FALSE
      OBVIOUS
    <3>2. (j - 1) * SPC + o = 0 * SPC + 0 /\ j - 1 \in Nat /\ 0 < SPC
      BY <3>1, VolumeAssumption DEF k
    <3>3. j - 1 = 0 /\ o = 0
      BY <3>2, <1>3, Euclid
    <3> QED
      BY <3>3, <1>7 DEF Chain
  <2>3. Patched[k + 1] = sent[k + 1]
    BY <2>2, <1>1, <1>2, <1>3, <1>5
  <2> QED
    BY <2>1, <2>3 DEF k
<1> QED
  BY <1>6, <1>7

LEMMA DataStep ==
  ASSUME Types, sub \in Writes, sub \in Second => NumFats = 2, sub = "dirnext" => NeedNext,
         wbuf \in Sector \/ sub \notin DataWrite,
         NEW n \in Nat \ {0}, NEW ch \in [1 .. n -> Cluster], Chain(n, ch), PlaceOK(sub, n, ch),
         sub = "data" => off < SPC, DataOK(disk, sub, n, ch)
  PROVE  DataOK(Image, Past(sub), n, ch)
<1>1. Filled(disk, n, ch, sent)
  BY WritesAre DEF DataOK, Preparing, Linking, Committed
<1>2. disk.data \in [Cluster \X Offset -> Sector \cup {Old}]
  BY DEF Types, Volume
<1>3. CASE sub = "data"
  <2>1. Image.data = [disk.data EXCEPT ![<<cur, off>>] = wbuf]
    BY <1>3, DataImage DEF DataWrite
  <2>2. ch[n] = cur /\ Len(sent) = (n - 1) * SPC + off /\ off < SPC
    BY <1>3 DEF PlaceOK
  <2>3. wbuf \in Sector
    BY <1>3 DEF DataWrite
  <2> HIDE DEF Image
  <2>4. Filled(Image, n, ch, Append(sent, wbuf))
    BY <1>1, <1>2, <2>1, <2>2, <2>3, AppendSector
  <2>5. Past(sub) = "stored"
    BY <1>3, PastFacts
  <2> QED
    BY <2>4, <2>5 DEF DataOK
<1>4. CASE sub = "patch"
  <2>1. Image.data = [disk.data EXCEPT ![<<start, 0>>] = wbuf]
    BY <1>4, DataImage DEF DataWrite
  <2>2. Len(sent) > 0
    BY <1>4 DEF PlaceOK
  <2>3. wbuf \in Sector
    BY <1>4 DEF DataWrite
  <2> HIDE DEF Image
  <2>4. Filled(Image, n, ch, Patched)
    BY <1>1, <1>2, <2>1, <2>2, <2>3, PatchSector
  <2>5. Past(sub) = "patched"
    BY <1>4, PastFacts
  <2> QED
    BY <2>4, <2>5 DEF DataOK
<1>5. CASE sub \notin DataWrite
  <2>1. Image.data = disk.data
    BY <1>5, ImageParts
  <2>2. Past(sub) # "stored" /\ Past(sub) # "patched"
    BY <1>5, AfterFacts DEF DataWrite
  <2> HIDE DEF Image
  <2>3. Filled(Image, n, ch, sent)
    BY <1>1, <2>1 DEF Filled
  <2> QED
    BY <2>2, <2>3 DEF DataOK
<1> QED
  BY <1>3, <1>4, <1>5 DEF DataWrite

\* What each stage says about the copies of the FAT.
LEMMA FatCases ==
  ASSUME NEW d, NEW n, NEW ch
  PROVE  /\ \A s \in {"dirty1", "dirty2", "first1"} :
               FatOK(d, s, n, ch) <=> \A k \in Fats : Same(d.fat[k], base.fat[1])
         /\ FatOK(d, "first2", n, ch) <=>
               Held(d.fat[1], n, ch, {}) /\ Same(d.fat[2], base.fat[1])
         /\ FatOK(d, "new2", n, ch) <=>
               Held(d.fat[1], n, ch, {link}) /\ Held(d.fat[2], n, ch, {})
         /\ FatOK(d, "prev1", n, ch) <=> \A k \in Fats : Held(d.fat[k], n, ch, {link})
         /\ FatOK(d, "prev2", n, ch) <=> /\ Held(d.fat[1], n + 1, Longer(n, ch, link), {})
                                         /\ Held(d.fat[2], n, ch, {link})
         /\ FatOK(d, "linked", n, ch) <=>
               \A k \in Fats : Held(d.fat[k], n + 1, Longer(n, ch, link), {})
         /\ \A s : s \notin {"dirty1", "dirty2", "first1", "first2", "new2", "prev1", "prev2", "linked"} =>
               (FatOK(d, s, n, ch) <=> \A k \in Fats : Held(d.fat[k], n, ch, {}))
  BY DEF FatOK

LEMMA FatsAre ==
  /\ NumFats = 2 => Fats = {1, 2}
  /\ NumFats # 2 => Fats = {1}
  BY VolumeAssumption DEF Fats

LEMMA FlagStep ==
  ASSUME Types, sub \in FlagWrite, sub \in Second => NumFats = 2,
         NEW n \in Nat \ {0}, NEW ch \in [1 .. n -> Cluster], FatOK(disk, sub, n, ch)
  PROVE  FatOK(Image, Past(sub), n, ch)
<1>1. \A k \in Fats : \A x \in Cluster : Image.fat[k][x] \in {disk.fat[1][x], disk.fat[k][x]}
  BY FlagImage
<1> HIDE DEF Image
<1>2. CASE sub \in {"dirty1", "dirty2"}
  <2>1. \A k \in Fats : Same(disk.fat[k], base.fat[1])
    BY <1>2, FatCases
  <2>2. ASSUME NEW k \in Fats PROVE Same(Image.fat[k], base.fat[1])
    <3> SUFFICES ASSUME NEW x \in Cluster PROVE Image.fat[k][x] = base.fat[1][x]
      BY DEF Same
    <3>1. disk.fat[1][x] = base.fat[1][x] /\ disk.fat[k][x] = base.fat[1][x]
      BY <2>1, Constants DEF Same
    <3> QED
      BY <1>1, <3>1
  <2>3. Past(sub) \in {"dirty2", "first1"}
    BY <1>2, PastFacts
  <2> QED
    BY <2>2, <2>3, FatCases
<1>3. CASE sub \in {"clean1", "clean2"}
  <2>1. \A k \in Fats : Held(disk.fat[k], n, ch, {})
    BY <1>3, FatCases
  <2>2. ASSUME NEW k \in Fats PROVE Held(Image.fat[k], n, ch, {})
    <3>1. Same(disk.fat[1], disk.fat[k])
      BY <2>1, Constants, HeldUnique
    <3>2. Same(disk.fat[k], Image.fat[k])
      BY <1>1, <3>1 DEF Same
    <3> QED
      BY <2>1, <3>2, HeldSame
  <2>3. Past(sub) \in {"clean2", "done"}
    BY <1>3, PastFacts
  <2> QED
    BY <2>2, <2>3, FatCases
<1> QED
  BY <1>2, <1>3 DEF FlagWrite

LEMMA FirstStep ==
  ASSUME Types, sub \in {"first1", "first2"}, sub \in Second => NumFats = 2,
         NEW n \in Nat \ {0}, NEW ch \in [1 .. n -> Cluster], Chain(n, ch), PlaceOK(sub, n, ch),
         FatOK(disk, sub, n, ch)
  PROVE  FatOK(Image, Past(sub), n, ch)
<1>1. n = 1 /\ ch \in [1 .. 1 -> Cluster] /\ ch[1] = start /\ start \in Cluster
  BY DEF PlaceOK, Preparing, Chain, Types, TypeOK
<1>2. sub \in EntryWrite /\ Target = start /\ Value = EOC
  BY DEF EntryWrite, Target, Value
<1>3. CASE sub = "first1"
  <2>1. \A k \in Fats : Same(disk.fat[k], base.fat[1])
    BY <1>3, FatCases
  <2>2. /\ \A x \in Cluster : Image.fat[1][x] = IF x = start THEN EOC ELSE disk.fat[1][x]
        /\ \A j \in Fats \ {1} : Image.fat[j] = disk.fat[j]
    BY <1>2, <1>3, EntryImages DEF Second
  <2> HIDE DEF Image
  <2>3. Held(Image.fat[1], n, ch, {})
    BY <1>1, <2>1, <2>2, Constants, HeldFirst
  <2>4. CASE NumFats = 2
    <3>1. Past(sub) = "first2"
      BY <1>3, <2>4, PastFacts
    <3>2. Same(Image.fat[2], base.fat[1])
      BY <2>1, <2>2, <2>4, FatsAre
    <3> QED
      BY <2>3, <3>1, <3>2, FatCases
  <2>5. CASE NumFats # 2
    <3>1. Past(sub) = "dir"
      BY <1>3, <2>5, PastFacts
    <3>2. \A k \in Fats : Held(Image.fat[k], n, ch, {})
      BY <2>3, <2>5, FatsAre
    <3> QED
      BY <3>1, <3>2, FatCases
  <2> QED
    BY <2>4, <2>5
<1>4. CASE sub = "first2"
  <2>1. Held(disk.fat[1], n, ch, {}) /\ Same(disk.fat[2], base.fat[1])
    BY <1>4, FatCases
  <2>2. /\ Image.fat[1] = disk.fat[1] /\ NumFats = 2
        /\ \A x \in Cluster : Image.fat[2][x] = IF SecOf(x) = SecOf(start)
                                                THEN disk.fat[1][x] ELSE disk.fat[2][x]
    BY <1>2, <1>4, EntryImages DEF Second
  <2> HIDE DEF Image
  <2>3. \A x \in Cluster : x # start => disk.fat[1][x] = disk.fat[2][x]
    BY <2>1, <1>1 DEF Held, Same
  <2>4. Same(disk.fat[1], Image.fat[2])
    BY <2>2, <2>3, <1>1, Copied
  <2>5. Held(Image.fat[2], n, ch, {})
    BY <2>1, <2>4, HeldSame
  <2>6. \A k \in Fats : Held(Image.fat[k], n, ch, {})
    BY <2>1, <2>2, <2>5, FatsAre
  <2>7. Past(sub) = "dir"
    BY <1>4, PastFacts
  <2> QED
    BY <2>6, <2>7, FatCases
<1> QED
  BY <1>3, <1>4

LEMMA NewStep ==
  ASSUME Types, sub \in {"new1", "new2"}, sub \in Second => NumFats = 2,
         NEW n \in Nat \ {0}, NEW ch \in [1 .. n -> Cluster], PlaceOK(sub, n, ch),
         FatOK(disk, sub, n, ch)
  PROVE  FatOK(Image, Past(sub), n, ch)
<1>1. link \in Cluster /\ \A i \in 1 .. n : ch[i] # link
  BY DEF PlaceOK, Linking, Types, TypeOK
<1>2. sub \in EntryWrite /\ Target = link /\ Value = EOC
  BY DEF EntryWrite, Linking, Target, Value
<1>3. CASE sub = "new1"
  <2>1. \A k \in Fats : Held(disk.fat[k], n, ch, {})
    BY <1>3, FatCases
  <2>2. /\ \A x \in Cluster : Image.fat[1][x] = IF x = link THEN EOC ELSE disk.fat[1][x]
        /\ \A j \in Fats \ {1} : Image.fat[j] = disk.fat[j]
    BY <1>2, <1>3, EntryImages DEF Second
  <2> HIDE DEF Image
  <2>3. Held(Image.fat[1], n, ch, {link})
    BY <1>1, <2>1, <2>2, Constants, HeldLink
  <2>4. CASE NumFats = 2
    <3>1. Past(sub) = "new2"
      BY <1>3, <2>4, PastFacts
    <3>2. Held(Image.fat[2], n, ch, {})
      BY <2>1, <2>2, <2>4, FatsAre
    <3> QED
      BY <2>3, <3>1, <3>2, FatCases
  <2>5. CASE NumFats # 2
    <3>1. Past(sub) = "prev1"
      BY <1>3, <2>5, PastFacts
    <3>2. \A k \in Fats : Held(Image.fat[k], n, ch, {link})
      BY <2>3, <2>5, FatsAre
    <3> QED
      BY <3>1, <3>2, FatCases
  <2> QED
    BY <2>4, <2>5
<1>4. CASE sub = "new2"
  <2>1. Held(disk.fat[1], n, ch, {link}) /\ Held(disk.fat[2], n, ch, {})
    BY <1>4, FatCases
  <2>2. /\ Image.fat[1] = disk.fat[1] /\ NumFats = 2
        /\ \A x \in Cluster : Image.fat[2][x] = IF SecOf(x) = SecOf(link)
                                                THEN disk.fat[1][x] ELSE disk.fat[2][x]
    BY <1>2, <1>4, EntryImages DEF Second
  <2> HIDE DEF Image
  <2> DEFINE g == [x \in Cluster |-> IF x = link THEN EOC ELSE disk.fat[2][x]]
  <2>3. \A x \in Cluster : g[x] = IF x = link THEN EOC ELSE disk.fat[2][x]
    OBVIOUS
  <2> HIDE DEF g
  <2>4. Held(g, n, ch, {link})
    BY <1>1, <2>1, <2>3, HeldLink
  <2>5. {link} \subseteq Cluster
    BY <1>1
  <2>6. Same(disk.fat[1], g)
    BY <2>1, <2>4, <2>5, HeldUnique
  <2>7. \A x \in Cluster : x # link => disk.fat[1][x] = disk.fat[2][x]
    BY <2>3, <2>6 DEF Same
  <2>8. Same(disk.fat[1], Image.fat[2])
    BY <2>2, <2>7, <1>1, Copied
  <2>9. Held(Image.fat[2], n, ch, {link})
    BY <2>1, <2>5, <2>8, HeldSame
  <2>10. \A k \in Fats : Held(Image.fat[k], n, ch, {link})
    BY <2>1, <2>2, <2>9, FatsAre
  <2>11. Past(sub) = "prev1"
    BY <1>4, PastFacts
  <2> QED
    BY <2>10, <2>11, FatCases
<1> QED
  BY <1>3, <1>4

LEMMA PrevStep ==
  ASSUME Types, sub \in {"prev1", "prev2"}, sub \in Second => NumFats = 2,
         NEW n \in Nat \ {0}, NEW ch \in [1 .. n -> Cluster], Chain(n, ch), PlaceOK(sub, n, ch),
         FatOK(disk, sub, n, ch)
  PROVE  FatOK(Image, Past(sub), n, ch)
<1> DEFINE L == Longer(n, ch, link)
<1>1. /\ link \in Cluster /\ cur \in Cluster /\ cur = ch[n]
      /\ \A i \in 1 .. n : ch[i] # link
      /\ \A i, j \in 1 .. n : ch[i] = ch[j] => i = j
  BY DEF PlaceOK, Linking, Chain, Types, TypeOK
<1>2. sub \in EntryWrite /\ Target = cur /\ Value = link
  BY DEF EntryWrite, Linking, Target, Value
<1>3. L \in [1 .. n + 1 -> Cluster] /\ n + 1 \in Nat \ {0}
  BY <1>1, LongerFacts
<1> HIDE DEF L
<1>4. CASE sub = "prev1"
  <2>1. \A k \in Fats : Held(disk.fat[k], n, ch, {link})
    BY <1>4, FatCases
  <2>2. /\ \A x \in Cluster : Image.fat[1][x] = IF x = cur THEN link ELSE disk.fat[1][x]
        /\ \A j \in Fats \ {1} : Image.fat[j] = disk.fat[j]
    BY <1>2, <1>4, EntryImages DEF Second
  <2> HIDE DEF Image
  <2>3. Held(Image.fat[1], n + 1, L, {})
    <3>1. Held(disk.fat[1], n, ch, {link})
      BY <2>1, Constants
    <3>2. \A x \in Cluster : Image.fat[1][x] = IF x = ch[n] THEN link ELSE disk.fat[1][x]
      BY <1>1, <2>2
    <3> QED
      BY <1>1, <3>1, <3>2, HeldLonger DEF L
  <2>4. CASE NumFats = 2
    <3>1. Past(sub) = "prev2"
      BY <1>4, <2>4, PastFacts
    <3>2. Held(Image.fat[2], n, ch, {link})
      <4>1. 2 \in Fats \ {1} /\ 2 \in Fats
        BY <2>4, FatsAre
      <4>2. Image.fat[2] = disk.fat[2]
        BY <4>1, <2>2
      <4> QED
        BY <4>1, <4>2, <2>1
    <3> QED
      BY <2>3, <3>1, <3>2, FatCases DEF L
  <2>5. CASE NumFats # 2
    <3>1. Past(sub) = "linked"
      BY <1>4, <2>5, PastFacts
    <3>2. \A k \in Fats : Held(Image.fat[k], n + 1, L, {})
      BY <2>3, <2>5, FatsAre
    <3> QED
      BY <3>1, <3>2, FatCases DEF L
  <2> QED
    BY <2>4, <2>5
<1>5. CASE sub = "prev2"
  <2>1. Held(disk.fat[1], n + 1, L, {}) /\ Held(disk.fat[2], n, ch, {link})
    BY <1>5, FatCases DEF L
  <2>2. /\ Image.fat[1] = disk.fat[1] /\ NumFats = 2
        /\ \A x \in Cluster : Image.fat[2][x] = IF SecOf(x) = SecOf(cur)
                                                THEN disk.fat[1][x] ELSE disk.fat[2][x]
    BY <1>2, <1>5, EntryImages DEF Second
  <2> HIDE DEF Image
  <2> DEFINE g == [x \in Cluster |-> IF x = cur THEN link ELSE disk.fat[2][x]]
  <2>3. \A x \in Cluster : g[x] = IF x = cur THEN link ELSE disk.fat[2][x]
    OBVIOUS
  <2> HIDE DEF g
  <2>4. Held(g, n + 1, L, {})
    BY <1>1, <2>1, <2>3, HeldLonger DEF L
  <2>5. Same(disk.fat[1], g)
    BY <1>3, <2>1, <2>4, HeldUnique
  <2>6. \A x \in Cluster : x # cur => disk.fat[1][x] = disk.fat[2][x]
    BY <2>3, <2>5 DEF Same
  <2>7. Same(disk.fat[1], Image.fat[2])
    BY <2>2, <2>6, <1>1, Copied
  <2>8. Held(Image.fat[2], n + 1, L, {})
    BY <1>3, <2>1, <2>7, HeldSame
  <2>9. \A k \in Fats : Held(Image.fat[k], n + 1, L, {})
    BY <2>1, <2>2, <2>8, FatsAre
  <2>10. Past(sub) = "linked"
    BY <1>5, <2>2, PastFacts
  <2> QED
    BY <2>9, <2>10, FatCases DEF L
<1> QED
  BY <1>4, <1>5

LEMMA FatStep ==
  ASSUME Types, sub \in Writes, sub \in Second => NumFats = 2, sub = "dirnext" => NeedNext,
         wbuf \in Sector \/ sub \notin DataWrite, sub = "data" => off < SPC,
         NEW n \in Nat \ {0}, NEW ch \in [1 .. n -> Cluster], Chain(n, ch), PlaceOK(sub, n, ch),
         FatOK(disk, sub, n, ch)
  PROVE  FatOK(Image, Past(sub), n, ch)
<1>1. CASE sub \in FlagWrite
  BY <1>1, FlagStep
<1>2. CASE sub \in {"first1", "first2"}
  BY <1>2, FirstStep
<1>3. CASE sub \in {"new1", "new2"}
  BY <1>3, NewStep
<1>4. CASE sub \in {"prev1", "prev2"}
  BY <1>4, PrevStep
<1>5. CASE sub \notin FlagWrite \cup EntryWrite
  <2>1. Image.fat = disk.fat
    BY <1>5, ImageParts
  <2>2. sub \notin {"dirty1", "dirty2", "first1", "first2", "new1", "new2", "prev1", "prev2", "linked"}
    BY <1>5, WritesAre DEF FlagWrite, EntryWrite, Linking, Preparing, Committed
  <2>3. Past(sub) \notin {"dirty1", "dirty2", "first1", "first2", "new2", "prev1", "prev2", "linked"}
    BY <2>2, <1>5, Kinds, PastFacts DEF HintWrite, DirWrite, DataWrite
  <2> HIDE DEF Image
  <2>4. \A k \in Fats : Held(disk.fat[k], n, ch, {})
    BY <2>2, FatCases
  <2>5. \A k \in Fats : Held(Image.fat[k], n, ch, {})
    BY <2>1, <2>4
  <2> QED
    BY <2>3, <2>5, FatCases
<1> QED
  BY <1>1, <1>2, <1>3, <1>4, <1>5 DEF EntryWrite, Linking

\* The write of a substate, once it is on the card, completes its stage.
LEMMA GoodStep ==
  ASSUME Types, sub \in Writes, sub \in Second => NumFats = 2, sub = "dirnext" => NeedNext,
         wbuf \in Sector \/ sub \notin DataWrite, Good(disk, sub)
  PROVE  Image \in Volume /\ Good(Image, Past(sub))
<1>1. PICK n \in Nat \ {0} : \E ch \in [1 .. n -> Cluster] : At(disk, sub, n, ch)
  BY DEF Good
<1>2. PICK ch \in [1 .. n -> Cluster] : At(disk, sub, n, ch)
  BY <1>1
<1>3. /\ Chain(n, ch) /\ PlaceOK(sub, n, ch) /\ FatOK(disk, sub, n, ch)
      /\ DataOK(disk, sub, n, ch) /\ DirOK(disk, sub) /\ CleanOK(disk, sub)
  BY <1>2 DEF At
<1>4. sub = "data" => off < SPC
  BY <1>3 DEF PlaceOK
<1>5. Image \in Volume
  BY <1>4, ImageParts
<1>6. FatOK(Image, Past(sub), n, ch)
  BY <1>3, <1>4, FatStep
<1>7. DataOK(Image, Past(sub), n, ch)
  BY <1>3, <1>4, DataStep
<1>8. DirOK(Image, Past(sub)) /\ CleanOK(Image, Past(sub))
  BY <1>3, <1>4, DirStep, CleanStep
<1>9. PlaceOK(Past(sub), n, ch)
  BY <1>3, PlaceStep
<1> HIDE DEF Image
<1>10. At(Image, Past(sub), n, ch)
  BY <1>3, <1>6, <1>7, <1>8, <1>9 DEF At
<1> QED
  BY <1>5, <1>10 DEF Good

-----------------------------------------------------------------------------
(* At every stage the files of before are safe.                            *)

\* What the write of a sector leaves of the data of before.
KeepsData(d) == \A c \in Cluster : base.fat[1][c] # Free =>
                   \A o \in Offset : d.data[<<c, o>>] = base.data[<<c, o>>]

LEMMA DataKept ==
  ASSUME Types, sub \in Writes, sub \in Second => NumFats = 2, sub = "dirnext" => NeedNext,
         wbuf \in Sector \/ sub \notin DataWrite, Good(disk, sub), KeepsData(disk)
  PROVE  KeepsData(Image)
<1>1. PICK n \in Nat \ {0} : \E ch \in [1 .. n -> Cluster] : At(disk, sub, n, ch)
  BY DEF Good
<1>2. PICK ch \in [1 .. n -> Cluster] : At(disk, sub, n, ch)
  BY <1>1
<1>3. Chain(n, ch) /\ PlaceOK(sub, n, ch)
  BY <1>2 DEF At
<1>4. sub = "data" => off < SPC
  BY <1>3 DEF PlaceOK
<1>5. base.fat[1][cur] = Free /\ base.fat[1][start] = Free
  BY <1>3 DEF Chain, PlaceOK
<1>6. CASE sub \notin DataWrite
  <2>1. Image.data = disk.data
    BY <1>4, <1>6, ImageParts
  <2> HIDE DEF Image
  <2> QED
    BY <2>1 DEF KeepsData
<1>7. CASE sub \in DataWrite
  <2> DEFINE x == IF sub = "data" THEN <<cur, off>> ELSE <<start, 0>>
  <2>1. Image.data = [disk.data EXCEPT ![x] = wbuf]
    BY <1>4, <1>7, DataImage
  <2>2. disk.data \in [Cluster \X Offset -> Sector \cup {Old}]
    BY DEF Types, Volume
  <2> HIDE DEF Image
  <2>3. ASSUME NEW c \in Cluster, base.fat[1][c] # Free, NEW o \in Offset
        PROVE  Image.data[<<c, o>>] = base.data[<<c, o>>]
    <3>1. <<c, o>> # x
      BY <2>3, <1>5
    <3>2. <<c, o>> \in Cluster \X Offset
      OBVIOUS
    <3> HIDE DEF x
    <3>3. Image.data[<<c, o>>] = disk.data[<<c, o>>]
      BY <2>1, <2>2, <3>1, <3>2
    <3> QED
      BY <3>3, <2>3 DEF KeepsData
  <2> QED
    BY <2>3 DEF KeepsData
<1> QED
  BY <1>6, <1>7

\* Which clusters a stage reserves does not matter to the files of before.
LEMMA FatSafe ==
  ASSUME Types, BaseOK, Mounted, NEW n \in Nat \ {0}, NEW ch \in [1 .. n -> Cluster], Chain(n, ch),
         NEW s, s \in Second => NumFats = 2, PlaceOK(s, n, ch), NEW d, FatOK(d, s, n, ch)
  PROVE  \A k \in Fats : /\ \A c \in Cluster : base.fat[1][c] # Free => d.fat[k][c] = base.fat[1][c]
                         /\ Closed(d.fat[k])
<1> DEFINE Kept(f) == /\ \A c \in Cluster : base.fat[1][c] # Free => f[c] = base.fat[1][c]
                      /\ Closed(f)
           L == Longer(n, ch, link)
<1>1. \A f : Held(f, n, ch, {}) => Kept(f)
  BY HeldKeeps
<1>2. \A f : Same(f, base.fat[1]) => Kept(f)
  <2>1. Closed(base.fat[1])
    BY Constants DEF BaseOK
  <2> QED
    BY <2>1 DEF Closed, Same
<1>3. ASSUME s \in Linking \cup {"linked"}
      PROVE  /\ \A f : Held(f, n, ch, {link}) => Kept(f)
             /\ \A f : Held(f, n + 1, L, {}) => Kept(f)
  <2>1. /\ link \in Cluster /\ base.fat[1][link] = Free
        /\ \A i \in 1 .. n : ch[i] # link
    BY <1>3 DEF PlaceOK, Types, TypeOK
  <2>2. {link} \subseteq Cluster /\ \A c \in {link} : base.fat[1][c] = Free
    BY <2>1
  <2>3. /\ L \in [1 .. n + 1 -> Cluster] /\ \A i \in 1 .. n : L[i] = ch[i]
        /\ L[n + 1] = link
    BY <2>1 DEF Longer
  <2>7. n + 1 \in Nat \ {0}
    OBVIOUS
  <2> HIDE DEF L
  <2>4. Chain(n + 1, L)
    BY <2>1, <2>3 DEF Chain
  <2>5. \A f : Held(f, n, ch, {link}) => Kept(f)
    BY <2>2, HeldKeeps
  <2>6. \A f : Held(f, n + 1, L, {}) => Kept(f)
    BY <2>3, <2>4, <2>7, HeldKeeps
  <2> QED
    BY <2>5, <2>6
<1> HIDE DEF Kept, L
<1>4. CASE s \in {"dirty1", "dirty2", "first1"}
  <2>1. \A k \in Fats : Same(d.fat[k], base.fat[1])
    BY <1>4, FatCases
  <2> QED
    BY <2>1, <1>2 DEF Kept
<1>5. CASE s = "first2"
  <2>1. Fats = {1, 2}
    BY <1>5, FatsAre DEF Second
  <2>2. Held(d.fat[1], n, ch, {}) /\ Same(d.fat[2], base.fat[1])
    BY <1>5, FatCases
  <2> QED
    BY <2>1, <2>2, <1>1, <1>2 DEF Kept
<1>6. CASE s = "new2"
  <2>1. Fats = {1, 2} /\ s \in Linking
    BY <1>6, FatsAre DEF Second, Linking
  <2>2. Held(d.fat[1], n, ch, {link}) /\ Held(d.fat[2], n, ch, {})
    BY <1>6, FatCases
  <2> QED
    BY <2>1, <2>2, <1>1, <1>3 DEF Kept
<1>7. CASE s = "prev1"
  <2>1. s \in Linking /\ \A k \in Fats : Held(d.fat[k], n, ch, {link})
    BY <1>7, FatCases DEF Linking
  <2> QED
    BY <2>1, <1>3 DEF Kept
<1>8. CASE s = "prev2"
  <2>1. Fats = {1, 2} /\ s \in Linking
    BY <1>8, FatsAre DEF Second, Linking
  <2>2. Held(d.fat[1], n + 1, L, {}) /\ Held(d.fat[2], n, ch, {link})
    BY <1>8, FatCases DEF L
  <2> QED
    BY <2>1, <2>2, <1>3 DEF Kept
<1>9. CASE s = "linked"
  <2>1. \A k \in Fats : Held(d.fat[k], n + 1, L, {})
    BY <1>9, FatCases DEF L
  <2> QED
    BY <2>1, <1>3, <1>9 DEF Kept
<1>10. CASE s \notin {"dirty1", "dirty2", "first1", "first2", "new2", "prev1", "prev2", "linked"}
  <2>1. \A k \in Fats : Held(d.fat[k], n, ch, {})
    BY <1>10, FatCases
  <2> QED
    BY <2>1, <1>1 DEF Kept
<1> QED
  BY <1>4, <1>5, <1>6, <1>7, <1>8, <1>9, <1>10

\* A slot of a reader of the old directory is not one the session writes.
LEMMA OldSlots ==
  ASSUME Types, Mounted, NEW p \in Seen(base), base.dir[p].kind # "deleted"
  PROVE  p \in Place /\ p # slot /\ ~(is_end /\ IsNext(p))
<1>1. p \in Place /\ \A q \in Place : (q = p \/ Before(q, p)) => base.dir[q].kind # "end"
  BY DEF Seen
<1>2. slot \in Place
  BY SlotFacts
<1>3. p # slot
  BY <1>1, <1>2 DEF Mounted
<1>4. IsNext(p) => Before(slot, p)
  BY <1>2, VolumeAssumption DEF IsNext, Before, Place
<1>5. is_end => base.dir[slot].kind = "end"
  BY DEF Mounted
<1> QED
  BY <1>1, <1>2, <1>3, <1>4, <1>5

\* What the stages say of the directory.
LEMMA DirCases ==
  ASSUME Types, NEW d, NEW s, DirOK(d, s)
  PROVE  /\ \A p \in Place : \/ d.dir[p] = base.dir[p]
                             \/ p = slot /\ \E size \in 0 .. MaxSectors :
                                               d.dir[p] = Slot("log", num, start, size)
                             \/ is_end /\ IsNext(p) /\ d.dir[p] = End
         /\ s \in Late => Entered(d, written) /\ Marked(d)
<1>1. 0 \in 0 .. MaxSectors /\ written \in 0 .. MaxSectors
  BY VolumeAssumption DEF Types, TypeOK
<1>2. s \in Late => Entered(d, written) /\ Marked(d)
  BY DEF DirOK, Early, Late, Committed
<1>3. CASE s \in Early
  BY <1>3 DEF DirOK, Early, Late, Committed
<1>4. CASE s = "dirnext"
  <2>1. /\ d.dir[slot] = Slot("log", num, start, 0)
        /\ \A p \in Place : p # slot => d.dir[p] = base.dir[p]
    BY <1>4 DEF DirOK, Early, Late, Committed
  <2> QED
    BY <2>1, <1>1, <1>2
<1>5. ASSUME NEW size \in 0 .. MaxSectors, Entered(d, size), Marked(d)
      PROVE  \A p \in Place : \/ d.dir[p] = base.dir[p]
                              \/ p = slot /\ \E z \in 0 .. MaxSectors :
                                                d.dir[p] = Slot("log", num, start, z)
                              \/ is_end /\ IsNext(p) /\ d.dir[p] = End
  BY <1>5 DEF Entered, Marked
<1>6. CASE s \in Late
  BY <1>1, <1>2, <1>5, <1>6
<1>7. CASE s \notin Early \cup Late \cup {"dirnext"}
  <2>1. Entered(d, 0) /\ Marked(d)
    BY <1>7 DEF DirOK
  <2> QED
    BY <1>1, <1>5, <1>7, <2>1
<1> QED
  BY <1>3, <1>4, <1>6, <1>7

LEMMA GoodKeeps ==
  ASSUME Types, BaseOK, NEW d, NEW s, s \in Second => NumFats = 2, Good(d, s), KeepsData(d)
  PROVE  Numbered(d) /\ Keeps(d)
<1>1. PICK n \in Nat \ {0} : \E ch \in [1 .. n -> Cluster] : At(d, s, n, ch)
  BY DEF Good
<1>2. PICK ch \in [1 .. n -> Cluster] : At(d, s, n, ch)
  BY <1>1
<1>3. /\ Chain(n, ch) /\ PlaceOK(s, n, ch) /\ FatOK(d, s, n, ch) /\ DirOK(d, s) /\ Mounted
  BY <1>2 DEF At, Good
<1>4. \A p \in Place : \/ d.dir[p] = base.dir[p]
                       \/ p = slot /\ \E size \in 0 .. MaxSectors :
                                         d.dir[p] = Slot("log", num, start, size)
                       \/ is_end /\ IsNext(p) /\ d.dir[p] = End
  BY <1>3, DirCases
<1>5. Numbered(d)
  <2>1. num > 0 /\ Numbered(base)
    BY <1>3 DEF Mounted, BaseOK
  <2>2. ASSUME NEW p \in Place
        PROVE  IF d.dir[p].kind = "log" THEN d.dir[p].num > 0 ELSE d.dir[p].num = 0
    <3>1. CASE d.dir[p] = base.dir[p]
      BY <2>1, <3>1 DEF Numbered
    <3>2. CASE \E size \in 0 .. MaxSectors : d.dir[p] = Slot("log", num, start, size)
      <4>1. d.dir[p].kind = "log" /\ d.dir[p].num = num
        BY <3>2 DEF Slot
      <4> QED
        BY <2>1, <4>1
    <3>3. CASE d.dir[p] = End
      <4>1. d.dir[p].kind = "end" /\ d.dir[p].num = 0
        BY <3>3 DEF Slot, End
      <4> QED
        BY <4>1
    <3> QED
      BY <1>4, <3>1, <3>2, <3>3
  <2> QED
    BY <2>2 DEF Numbered
<1>6. ASSUME NEW p \in Seen(base), base.dir[p].kind # "deleted" PROVE d.dir[p] = base.dir[p]
  BY <1>3, <1>4, <1>6, OldSlots
<1>7. \A k \in Fats : /\ \A c \in Cluster : base.fat[1][c] # Free => d.fat[k][c] = base.fat[1][c]
                      /\ Closed(d.fat[k])
  BY <1>3, FatSafe
<1>8. \A k \in Fats : \A c \in Cluster : base.fat[k][c] = base.fat[1][c]
  BY <1>3 DEF Mounted, BaseOK, Same
<1> QED
  BY <1>5, <1>6, <1>7, <1>8 DEF Keeps, KeepsData

\* The last cluster of a file of written sectors.
LEMMA Length ==
  ASSUME Types, NEW n \in Nat \ {0}, written = (n - 1) * SPC + off, written > 0, off > 0 \/ n = 1
  PROVE  n = Clusters(written)
<1>1. /\ SPC \in Nat /\ SPC > 0 /\ off \in 0 .. SPC /\ n - 1 \in Nat
  BY VolumeAssumption DEF Types, TypeOK
<1>2. n = 1 => (n - 1) * SPC = 0
  BY <1>1
<1>3. off > 0 /\ off - 1 \in Nat /\ off - 1 < SPC
  BY <1>1, <1>2
<1>4. written + SPC - 1 = n * SPC + (off - 1)
  <2>1. n * SPC = (n - 1) * SPC + SPC
    BY <1>1
  <2>2. n * SPC \in Nat /\ (n - 1) * SPC \in Nat
    BY <1>1
  <2> QED
    BY <1>1, <2>1, <2>2
<1>5. (n * SPC + (off - 1)) \div SPC = n
  BY <1>3, DivMod
<1> QED
  BY <1>4, <1>5 DEF Clusters

LEMMA GoodWhole ==
  ASSUME Types, NEW d, NEW s \in Late, Good(d, s)
  PROVE  Whole(d)
<1>1. PICK n \in Nat \ {0} : \E ch \in [1 .. n -> Cluster] : At(d, s, n, ch)
  BY DEF Good
<1>2. PICK ch \in [1 .. n -> Cluster] : At(d, s, n, ch)
  BY <1>1
<1>3. /\ Chain(n, ch) /\ PlaceOK(s, n, ch) /\ FatOK(d, s, n, ch) /\ DirOK(d, s) /\ Mounted
  BY <1>2 DEF At, Good
<1>4. written = (n - 1) * SPC + off /\ written > 0 /\ (off > 0 \/ n = 1)
  BY <1>3 DEF PlaceOK, Late, Committed
<1>5. n = Clusters(written) /\ written \in 1 .. MaxSectors
  BY <1>4, Length DEF Types, TypeOK
<1>6. Entered(d, written) /\ Marked(d)
  BY <1>3, DirCases
<1>7. \A k \in Fats : Held(d.fat[k], n, ch, {})
  BY <1>3, FatCases DEF Late, Committed
<1> QED
  BY <1>3, <1>5, <1>6, <1>7 DEF Whole

LEMMA GoodSafe ==
  ASSUME Types, BaseOK, NEW d, NEW s, s \in Second => NumFats = 2, Good(d, s), KeepsData(d)
  PROVE  Safe(d)
<1>1. Numbered(d) /\ Keeps(d)
  BY GoodKeeps
<1>2. CleanOK(d, s)
  BY DEF Good, At
<1>4. CASE s \in {"clean2", "done"}
  <2>1. Whole(d)
    BY <1>4, GoodWhole DEF Late, Committed
  <2> QED
    BY <2>1, <1>1 DEF Safe, CleanCases
<1>5. CASE s \notin {"dirty1", "clean2", "done"}
  BY <1>1, <1>2, <1>5 DEF CleanOK, CleanCases, Safe
<1>6. CASE s = "dirty1"
  BY <1>1, <1>2, <1>6 DEF CleanOK, CleanCases, Safe
<1> QED
  BY <1>4, <1>5, <1>6

-----------------------------------------------------------------------------
(* Steps.                                                                  *)

\* What Good depends on.
goodVars == <<start, cur, off, link, slot, is_end, num, wbuf, written, base, sent>>

LEMMA GoodFrame ==
  ASSUME UNCHANGED goodVars, NEW CONSTANT d, NEW CONSTANT s
  PROVE  Good(d, s)' <=> Good(d, s)
  BY DEF goodVars, Good, At, Mounted, Chain, PlaceOK, FatOK, DataOK, DirOK, CleanOK, Held, Same,
         Entered, Marked, IsNext, Filled, Patched, Longer, Seen, LastInSector

LEMMA SafeFrame ==
  ASSUME UNCHANGED <<start, slot, is_end, num, base>>, NEW CONSTANT d
  PROVE  Safe(d)' <=> Safe(d)
  BY DEF Safe, Numbered, Keeps, CleanCases, Whole, Mounted, Marked, Entered, Chain, Held, IsNext,
         Seen, LastInSector, Closed

LEMMA BaseFrame ==
  ASSUME UNCHANGED base
  PROVE  BaseOK' <=> BaseOK
  BY DEF BaseOK, Numbered, Closed, Same

\* The stages between two calls and those in which one of the parts of the
\* card is as it is between two calls.
Plain == {"ready", "check", "data", "new1", "patch", "cdir"}

LEMMA PlainIs ==
  ASSUME NEW d, NEW s \in Plain \cup {"stored", "patched", "linked"}, NEW n, NEW ch
  PROVE  At(d, s, n, ch) <=>
           /\ Chain(n, ch) /\ PlaceOK(s, n, ch)
           /\ FatOK(d, s, n, ch) /\ DataOK(d, s, n, ch)
           /\ Entered(d, 0) /\ Marked(d) /\ ~d.clean[1]
  BY DEF At, DirOK, CleanOK, Plain, Early, Late, Committed

LEMMA PlainFat ==
  ASSUME NEW d, NEW s \in Plain \cup {"stored", "patched"}, NEW n, NEW ch
  PROVE  FatOK(d, s, n, ch) <=> \A k \in Fats : Held(d.fat[k], n, ch, {})
  BY FatCases DEF Plain

LEMMA PlainData ==
  ASSUME NEW d, NEW s \in Plain, NEW n, NEW ch
  PROVE  DataOK(d, s, n, ch) <=> Filled(d, n, ch, sent)
  BY DEF DataOK, Plain

\* The writer takes note: it is at stage s with the clusters ch.
LEMMA PlainNext ==
  ASSUME UNCHANGED <<start, slot, is_end, num, base>>, Mounted,
         NEW CONSTANT d, NEW CONSTANT s \in Plain,
         NEW CONSTANT n \in Nat \ {0}, NEW CONSTANT ch \in [1 .. n -> Cluster],
         Chain(n, ch), PlaceOK(s, n, ch)', \A k \in Fats : Held(d.fat[k], n, ch, {}),
         Filled(d, n, ch, sent'), Entered(d, 0), Marked(d), ~d.clean[1]
  PROVE  Good(d, s)'
<1>1. Mounted'
  BY DEF Mounted, Seen
<1>2. Chain(n, ch)'
  BY DEF Chain
<1>3. \A k \in Fats : Held(d.fat[k], n, ch, {})'
  BY DEF Held
<1>4. FatOK(d, s, n, ch)'
  BY <1>3 DEF FatOK, Plain
<1>5. DataOK(d, s, n, ch)'
  BY DEF DataOK, Filled, Plain
<1>6. Entered(d, 0)' /\ Marked(d)'
  BY DEF Entered, Marked, IsNext, LastInSector
<1>7. DirOK(d, s)'
  BY <1>6 DEF DirOK, Early, Late, Committed, Plain
<1>8. CleanOK(d, s)'
  BY DEF CleanOK, Plain
<1>9. At(d, s, n, ch)'
  BY <1>2, <1>4, <1>5, <1>7, <1>8 DEF At
<1> QED
  BY <1>1, <1>9 DEF Good

LEMMA NoWrite ==
  /\ \A s \in {"idle", "mount", "check"} : s \notin Writes /\ s \notin Writing
  /\ Writing \subseteq Writes
  BY WritesAre DEF Preparing, Linking, Committed, Writing

LEMMA FailStep ==
  ASSUME LogInv, SetError, UNCHANGED <<disk, expect, fileVars, dataVars, histVars>>
  PROVE  LogInv'
<1> USE DEF SetError, fileVars, dataVars, histVars
<1>1. Types'
  BY WritesFixed DEF LogInv, Types, TypeOK
<1>2. Control'
  BY DEF Control, Second
<1>3. BaseOK'
  BY BaseFrame DEF LogInv
<1>4. Safe(disk)'
  BY SafeFrame DEF LogInv
<1>5. Stage'
  BY NoWrite, WritesFixed DEF Stage
<1> QED
  BY <1>1, <1>2, <1>3, <1>4, <1>5 DEF LogInv

LEMMA PowerLossStep ==
  ASSUME LogInv, PowerLoss
  PROVE  LogInv'
<1> USE DEF PowerLoss, fileVars
<1>1. Types'
  <2>1. TypeOK'
    <3>1. 0 \in 0 .. MaxSectors
      BY VolumeAssumption
    <3> QED
      BY <3>1, WritesFixed DEF LogInv, Types, TypeOK
  <2> QED
    BY <2>1 DEF LogInv, Types
<1>2. Control'
  BY DEF Control, Second
<1>3. BaseOK'
  BY BaseFrame DEF LogInv
<1>4. Safe(disk)'
  BY SafeFrame DEF LogInv
<1>5. Stage'
  BY NoWrite, WritesFixed DEF Stage
<1> QED
  BY <1>1, <1>2, <1>3, <1>4, <1>5 DEF LogInv

\* A clean volume is one whose copies of the FAT agree.
LEMMA CleanAgrees ==
  ASSUME LogInv, disk.clean[1]
  PROVE  \A k \in Fats : Same(disk.fat[k], disk.fat[1])
<1>1. CASE disk = base
  BY <1>1 DEF LogInv, BaseOK
<1>2. CASE Whole(disk)
  <2>1. PICK n \in Nat \ {0} : \E ch \in [1 .. n -> Cluster] :
                                  \A k \in Fats : Held(disk.fat[k], n, ch, {})
    BY <1>2 DEF Whole
  <2>2. PICK ch \in [1 .. n -> Cluster] : \A k \in Fats : Held(disk.fat[k], n, ch, {})
    BY <2>1
  <2> QED
    BY <2>2, Constants, HeldUnique
<1> QED
  BY <1>1, <1>2 DEF LogInv, Safe, CleanCases

LEMMA StartStep ==
  ASSUME LogInv, Start
  PROVE  LogInv'
<1> USE DEF Start, fileVars
<1>1. Types'
  <2>1. TypeOK'
    <3>1. 0 \in 0 .. MaxSectors
      BY VolumeAssumption
    <3> QED
      BY <3>1, WritesFixed DEF LogInv, Types, TypeOK
  <2> QED
    BY <2>1 DEF LogInv, Types
<1>2. Control'
  BY DEF Control, Second, Preparing
<1>3. BaseOK'
  <2>1. Numbered(disk) /\ \A k \in Fats : Closed(disk.fat[k])
    BY DEF LogInv, Safe, Keeps
  <2>2. disk.clean[1] => \A k \in Fats : Same(disk.fat[k], disk.fat[1])
    BY CleanAgrees
  <2> QED
    BY <2>1, <2>2 DEF BaseOK, Numbered, Closed, Same
<1>4. Safe(disk)'
  <2>1. Numbered(disk)' /\ \A k \in Fats : Closed(disk.fat[k])'
    BY <1>3 DEF BaseOK, Numbered, Closed
  <2>2. Keeps(disk)'
    BY <2>1 DEF Keeps, Seen
  <2> QED
    BY <2>1, <2>2 DEF Safe, CleanCases
<1>5. Stage'
  BY NoWrite, WritesFixed DEF Stage
<1> QED
  BY <1>1, <1>2, <1>3, <1>4, <1>5 DEF LogInv

\* What the mount chooses suits the session.
LEMMA MountChoice ==
  ASSUME LogInv, disk = base, Mountable
  PROVE  /\ Scan(disk.hint) \in Cluster /\ base.fat[1][Scan(disk.hint)] = Free
         /\ First(Candidates) \in Place
         /\ base.dir[First(Candidates)].kind \in {"end", "deleted"}
         /\ \A q \in Place : Before(q, First(Candidates)) => q \in Seen(base)
         /\ Min(1 .. MaxName \ Used) \in 1 .. MaxName
         /\ \A q \in Seen(base) : base.dir[q].num # Min(1 .. MaxName \ Used)
<1>1. disk \in Volume /\ Numbered(base)
  BY DEF LogInv, Types, BaseOK
<1>2. Scan(disk.hint) \in Cluster /\ base.fat[1][Scan(disk.hint)] = Free
  BY <1>1, ScanFacts DEF Mountable
<1>3. Candidates \subseteq Place /\ Candidates # {}
  BY DEF Candidates, Mountable
<1>4. First(Candidates) \in Candidates
  BY <1>3, FirstFacts
<1>5. /\ First(Candidates) \in Place
      /\ base.dir[First(Candidates)].kind \in {"end", "deleted"}
      /\ \A q \in Place : Before(q, First(Candidates)) => q \in Seen(base)
  <2> HIDE DEF First
  <2> QED
    BY <1>4 DEF Candidates
<1>6. \A q \in Place : /\ base.dir[q].num \in 0 .. MaxName
                       /\ base.dir[q].kind = "log" => base.dir[q].num > 0
                       /\ base.dir[q].kind # "log" => base.dir[q].num = 0
  <2>1. base.dir \in [Place -> SlotType]
    BY <1>1 DEF Volume
  <2> QED
    BY <2>1, <1>1 DEF SlotType, Numbered
<1>7. Seen(base) \subseteq Place
  BY DEF Seen
<1>8. Used \subseteq 1 .. MaxName
  BY <1>6, <1>7, VolumeAssumption DEF Used
<1> DEFINE S == 1 .. MaxName \ Used
<1>9. S # {} /\ S \subseteq Nat
  <2>1. Used # 1 .. MaxName
    BY DEF Mountable
  <2>2. PICK x \in 1 .. MaxName : x \notin Used
    BY <2>1, <1>8
  <2> QED
    BY <2>2, VolumeAssumption
<1>10. Min(S) \in S
  BY <1>9, MinFacts
<1>11. ASSUME NEW q \in Seen(base) PROVE base.dir[q].num # Min(S)
  <2>1. CASE base.dir[q].kind = "log"
    <3>1. base.dir[q].num \in Used
      BY <2>1 DEF Used
    <3> QED
      BY <3>1, <1>10
  <2>2. CASE base.dir[q].kind # "log"
    <3>1. base.dir[q].num = 0
      BY <2>2, <1>6, <1>7
    <3> QED
      BY <3>1, <1>10
  <2> QED
    BY <2>1, <2>2
<1> QED
  BY <1>2, <1>5, <1>10, <1>11

LEMMA MountStep ==
  ASSUME LogInv, Mount
  PROVE  LogInv'
<1>1. CASE ~Mountable
  BY <1>1, FailStep DEF Mount
<1>2. CASE Mountable
  <2> USE DEF dataVars, histVars
  <2>1. /\ sub = "mount" /\ sub' = "dirty1" /\ start' \in Cluster /\ cur' = start' /\ off' = 0
        /\ start' = Scan(disk.hint) /\ slot' = First(Candidates)
        /\ is_end' = (disk.dir[First(Candidates)].kind = "end")
        /\ num' = Min(1 .. MaxName \ Used)
        /\ UNCHANGED <<phase, verify_due, link, alloc_hint, disk, expect, dataVars, histVars>>
    BY <1>2 DEF Mount, Mountable
  <2>2. disk = base /\ written = 0 /\ sent = <<>>
    BY <2>1 DEF LogInv, Stage
  <2>3. /\ base.fat[1][start'] = Free
        /\ slot' \in Place /\ base.dir[slot'].kind \in {"end", "deleted"}
        /\ \A q \in Place : Before(q, slot') => q \in Seen(base)
        /\ num' \in 1 .. MaxName /\ \A q \in Seen(base) : base.dir[q].num # num'
        /\ is_end' = (base.dir[slot'].kind = "end")
    BY <1>2, <2>1, <2>2, MountChoice
  <2>4. Types'
    <3>1. is_end' \in BOOLEAN /\ off' \in 0 .. SPC /\ cur' \in Cluster
      BY <2>1, <2>3, VolumeAssumption
    <3>2. sub' \in Writes
      BY <2>1, WritesAre DEF Preparing
    <3>3. num' \in 0 .. MaxName
      BY <2>3
    <3>4. TypeOK'
      BY <2>1, <2>3, <3>1, <3>2, <3>3, WritesFixed DEF LogInv, Types, TypeOK
    <3> QED
      BY <2>1, <3>4 DEF LogInv, Types
  <2>5. phase = "PREPARING" /\ ~verify_due
    BY <2>1, NoWrite DEF LogInv, Control, Writing, Linking, Committed, Types, TypeOK
  <2>6. Control'
    BY <2>1, <2>5 DEF Control, Preparing, Second
  <2>7. BaseOK'
    BY <2>1, BaseFrame DEF LogInv
  <2>8. Safe(disk)'
    <3>1. Numbered(disk)' /\ Keeps(disk)'
      BY <2>1 DEF LogInv, Safe, Numbered, Keeps, Seen, Closed
    <3> QED
      BY <3>1, <2>1, <2>2 DEF Safe, CleanCases
  <2>9. Good(disk, "dirty1")'
    <3>1. PICK ch \in [1 .. 1 -> Cluster] : ch[1] = start'
      <4>1. [i \in 1 .. 1 |-> start'] \in [1 .. 1 -> Cluster] /\ [i \in 1 .. 1 |-> start'][1] = start'
        BY <2>1
      <4> QED
        BY <4>1
    <3>2. base.clean[1]
      BY <1>2, <2>2 DEF Mountable
    <3>3. Mounted'
      <4>1. base.dir[slot'].kind = (IF is_end' THEN "end" ELSE "deleted")
        BY <2>3
      <4>2. base' = base /\ Seen(base)' = Seen(base) /\ num' > 0
        BY <2>1, <2>3 DEF Seen
      <4> QED
        BY <2>3, <3>2, <4>1, <4>2 DEF Mounted
    <3>4. Chain(1, ch)'
      BY <2>1, <2>3, <3>1 DEF Chain
    <3>5. PlaceOK("dirty1", 1, ch)'
      <4>1. (1 - 1) * SPC + 0 = 0
        BY VolumeAssumption
      <4> QED
        BY <4>1, <2>1, <2>2, <3>1 DEF PlaceOK, Linking, Late, Committed
    <3>6. FatOK(disk, "dirty1", 1, ch)'
      <4>1. \A k \in Fats : Same(disk.fat[k], base.fat[1])
        BY <2>2, <3>2 DEF LogInv, BaseOK
      <4> QED
        BY <4>1, <2>1 DEF FatOK, Same
    <3>7. DataOK(disk, "dirty1", 1, ch)'
      <4>1. ASSUME NEW j \in 1 .. 1, NEW o \in Offset PROVE ~((j - 1) * SPC + o < Len(<<>>))
        <5>1. (j - 1) * SPC + o \in Nat
          BY VolumeAssumption, IndexNat DEF Offset
        <5> QED
          BY <5>1
      <4>2. sent' = <<>>
        BY <2>1, <2>2
      <4> QED
        BY <4>1, <4>2 DEF DataOK, Filled
    <3>8. DirOK(disk, "dirty1")'
      BY <2>1, <2>2 DEF DirOK, Early, Late, Committed
    <3>9. CleanOK(disk, "dirty1")'
      BY <2>1, <2>2 DEF CleanOK
    <3>10. At(disk, "dirty1", 1, ch)'
      BY <3>4, <3>5, <3>6, <3>7, <3>8, <3>9 DEF At
    <3>11. 1 \in Nat \ {0}
      OBVIOUS
    <3> QED
      BY <3>3, <3>10, <3>11 DEF Good
  <2>10. Stage'
    <3>1. "dirty1" \in Writes /\ "dirty1" \notin Writing
      BY WritesAre DEF Preparing, Writing, Linking
    <3> QED
      BY <2>1, <2>5, <2>9, <3>1, WritesFixed DEF Stage
  <2> QED
    BY <2>4, <2>6, <2>7, <2>8, <2>10 DEF LogInv
<1> QED
  BY <1>1, <1>2

\* The phase a substate belongs to.
LEMMA Busy ==
  ASSUME LogInv
  PROVE  /\ sub \in Preparing \cup {"mount"} => phase = "PREPARING"
         /\ sub \in Writing \cup {"check"} => phase = "WRITING"
         /\ sub \in Committed \cup {"cdir"} => phase = "CLOSING"
  BY DEF LogInv, Types, TypeOK, Control, Preparing, Writing, Linking, Committed

LEMMA PastFrame ==
  ASSUME UNCHANGED <<slot, is_end>>, NEW CONSTANT s
  PROVE  Past(s)' = Past(s) /\ After[s]' = After[s]
  BY DEF Past, After, NeedNext, LastInSector

LEMMA PastSecond ==
  ASSUME sub \in Writes, sub \in Second => NumFats = 2
  PROVE  /\ Past(sub) \in Second => NumFats = 2
         /\ Past(sub) = "dirnext" => NeedNext
  BY PastFacts, WritesAre DEF Preparing, Linking, Committed, Second

LEMMA WriteSectorStep ==
  ASSUME LogInv, WriteSector
  PROVE  LogInv'
<1>1. CASE ~Precheck
  <2> HIDE DEF Precheck
  <2> QED
    BY <1>1, FailStep DEF WriteSector
<1>2. CASE Precheck
  <2> USE DEF fileVars, dataVars, histVars
  <2>1. /\ sub \in Writes /\ ~verify_due /\ verify_due' = TRUE /\ expect' = Image
        /\ disk' \in {disk, Image}
        /\ UNCHANGED <<phase, sub, fileVars, dataVars, histVars>>
    BY <1>2 DEF WriteSector
  <2>2. /\ Types /\ BaseOK /\ Good(disk, sub) /\ Safe(disk)
        /\ sub \in Second => NumFats = 2
        /\ sub = "dirnext" => NeedNext
    BY <2>1 DEF LogInv, Stage, Control
  <2>3. wbuf \in Sector \/ sub \notin DataWrite
    BY Busy DEF LogInv, Stage, DataWrite, Writing
  <2>4. Image \in Volume /\ Good(Image, Past(sub))
    BY <2>1, <2>2, <2>3, GoodStep
  <2>5. KeepsData(disk)
    BY <2>2 DEF Safe, Keeps, KeepsData
  <2>6. KeepsData(Image)
    BY <2>1, <2>2, <2>3, <2>5, DataKept
  <2>7. Past(sub) \in Second => NumFats = 2
    BY <2>1, <2>2, PastSecond
  <2> HIDE DEF Image
  <2>8. Safe(Image)
    BY <2>2, <2>4, <2>6, <2>7, GoodSafe
  <2>9. disk' \in Volume /\ Safe(disk')
    BY <2>1, <2>2, <2>4, <2>8 DEF Types
  <2>10. Types'
    <3>1. TypeOK'
      BY <2>1, <2>2, <2>9, WritesFixed DEF Types, TypeOK, Volume, Offset
    <3> QED
      BY <2>1, <2>2, <2>4, <2>9, <3>1 DEF Types
  <2>11. Control'
    BY <2>1, WritesFixed DEF LogInv, Control, NeedNext, LastInSector
  <2>12. BaseOK'
    BY <2>1, <2>2, BaseFrame
  <2>13. Safe(disk)'
    BY <2>1, <2>9, SafeFrame
  <2>14. UNCHANGED goodVars /\ sub' = sub /\ Past(sub)' = Past(sub)
    BY <2>1, PastFrame DEF goodVars
  <2>15. Good(disk', sub) \/ Good(disk', Past(sub))
    BY <2>1, <2>2, <2>4
  <2>16. disk' = expect' => Good(disk', Past(sub))
    BY <2>1, <2>4
  <2>17. Good(disk, sub)' \/ Good(disk, Past(sub))'
    BY <2>14, <2>15, GoodFrame
  <2>18. (disk = expect)' => Good(disk, Past(sub))'
    BY <2>14, <2>16, GoodFrame
  <2>19. Stage'
    <3>1. sub # "mount" /\ sub # "check" /\ phase # "READY" /\ phase # "DONE"
      BY <2>1, NoWrite DEF LogInv, Control
    <3> QED
      BY <2>1, <2>17, <2>18, <3>1, WritesFixed DEF Stage, LogInv
  <2> QED
    BY <2>10, <2>11, <2>12, <2>13, <2>19 DEF LogInv
<1> QED
  BY <1>1, <1>2

LEMMA AfterIs ==
  ASSUME sub \in Writes, sub \in Second => NumFats = 2
  PROVE  /\ sub \in Preparing => After[sub] \in Preparing \cup {"ready"}
         /\ sub \in Linking => After[sub] \in Linking \cup {"data"}
         /\ sub \in {"data", "patch"} => After[sub] = "ready"
         /\ sub \in Committed \cup {"cdir"} => After[sub] \in Committed \cup {"done"}
         /\ After[sub] \in Second => NumFats = 2
         /\ After[sub] = "dirnext" => NeedNext
<1>1. CASE sub \in {"data", "patch"}
  <2>1. After[sub] = "ready"
    BY <1>1 DEF After
  <2> QED
    BY <2>1, <1>1 DEF Preparing, Linking, Committed, Second
<1>2. CASE sub = Twice("prev2", "prev1")
  <2>1. After[sub] = "data" /\ sub \in Linking
    BY <1>2 DEF After, Twice, Linking
  <2> QED
    BY <2>1 DEF Preparing, Linking, Committed, Second
<1>3. CASE sub \notin {"data", "patch"} /\ sub # Twice("prev2", "prev1")
  <2>1. After[sub] = Past(sub)
    BY <1>3 DEF Past
  <2>2. Past(sub) # "linked" /\ Past(sub) # "stored" /\ Past(sub) # "patched"
    BY <1>3, AfterFacts
  <2>3. sub \in Preparing => Past(sub) \in Preparing \cup {"ready"}
    BY PastIs DEF Preparing
  <2>4. sub \in Linking => Past(sub) \in Linking
    BY <2>2, PastIs
  <2>5. sub \in Committed \cup {"cdir"} => Past(sub) \in Committed \cup {"done"}
    BY PastIs DEF Late
  <2> QED
    BY <1>3, <2>1, <2>3, <2>4, <2>5, PastSecond
<1> QED
  BY <1>1, <1>2, <1>3

\* After a sector of the log has been read back.
LEMMA StoredStep ==
  ASSUME Types, UNCHANGED <<start, slot, is_end, num, base, cur>>, Good(disk, "stored"),
         off' = off + 1, written' = written + 1, sent' = Append(sent, wbuf), wbuf \in Sector,
         disk' = disk
  PROVE  Good(disk, "ready")' /\ off' \in 0 .. SPC
<1>1. PICK n \in Nat \ {0} : \E ch \in [1 .. n -> Cluster] : At(disk, "stored", n, ch)
  BY DEF Good
<1>2. PICK ch \in [1 .. n -> Cluster] : At(disk, "stored", n, ch)
  BY <1>1
<1>3. /\ Chain(n, ch) /\ PlaceOK("stored", n, ch)
      /\ FatOK(disk, "stored", n, ch) /\ DataOK(disk, "stored", n, ch)
      /\ Entered(disk, 0) /\ Marked(disk) /\ ~disk.clean[1]
  BY <1>2, PlainIs
<1>4. \A k \in Fats : Held(disk.fat[k], n, ch, {})
  BY <1>3, PlainFat
<1>5. Filled(disk, n, ch, sent')
  BY <1>3 DEF DataOK
<1>6. /\ ch[n] = cur /\ written = (n - 1) * SPC + off /\ Len(sent) = written /\ off < SPC
  BY <1>3 DEF PlaceOK
<1>7. off \in Nat /\ SPC \in Nat /\ (n - 1) * SPC \in Nat
  <2>1. n - 1 \in Nat /\ SPC \in Nat
    BY VolumeAssumption
  <2>2. (n - 1) * SPC \in Nat
    BY <2>1
  <2> QED
    BY <2>1, <2>2 DEF Types, TypeOK
<1>8. Len(sent') = Len(sent) + 1
  BY DEF Types
<1>9. PlaceOK("ready", n, ch)'
  BY <1>6, <1>7, <1>8 DEF PlaceOK, Preparing, Linking, Late, Committed
<1>10. Mounted
  BY DEF Good
<1>11. Good(disk, "ready")'
  BY <1>3, <1>4, <1>5, <1>9, <1>10, PlainNext DEF Plain
<1> QED
  BY <1>6, <1>7, <1>11

\* After the first sector has been read back.
LEMMA PatchedStep ==
  ASSUME Types, UNCHANGED <<start, slot, is_end, num, base, cur, off, written>>,
         Good(disk, "patched"), sent' = Patched, disk' = disk
  PROVE  Good(disk, "ready")'
<1>1. PICK n \in Nat \ {0} : \E ch \in [1 .. n -> Cluster] : At(disk, "patched", n, ch)
  BY DEF Good
<1>2. PICK ch \in [1 .. n -> Cluster] : At(disk, "patched", n, ch)
  BY <1>1
<1>3. /\ Chain(n, ch) /\ PlaceOK("patched", n, ch)
      /\ FatOK(disk, "patched", n, ch) /\ DataOK(disk, "patched", n, ch)
      /\ Entered(disk, 0) /\ Marked(disk) /\ ~disk.clean[1]
  BY <1>2, PlainIs
<1>4. \A k \in Fats : Held(disk.fat[k], n, ch, {})
  BY <1>3, PlainFat
<1>5. Filled(disk, n, ch, sent')
  BY <1>3 DEF DataOK
<1>6. Len(sent') = Len(sent)
  BY DEF Types, Patched
<1>7. PlaceOK("ready", n, ch)'
  BY <1>3, <1>6 DEF PlaceOK, Preparing, Linking, Late, Committed
<1>8. Mounted
  BY DEF Good
<1> QED
  BY <1>3, <1>4, <1>5, <1>7, <1>8, PlainNext DEF Plain

\* A cluster linked to a full chain holds nothing of the file yet.
LEMMA FilledLonger ==
  ASSUME NEW d, NEW n \in Nat \ {0}, NEW ch \in [1 .. n -> Cluster], NEW c \in Cluster,
         Filled(d, n, ch, sent), Len(sent) = (n - 1) * SPC + SPC
  PROVE  Filled(d, n + 1, Longer(n, ch, c), sent)
<1> DEFINE L == Longer(n, ch, c)
<1>1. \A i \in 1 .. n : L[i] = ch[i]
  BY LongerFacts
<1> HIDE DEF L
<1>2. SPC \in Nat /\ SPC > 0 /\ n * SPC \in Nat /\ n * SPC = (n - 1) * SPC + SPC
  BY VolumeAssumption
<1> SUFFICES ASSUME NEW j \in 1 .. n + 1, NEW o \in Offset, (j - 1) * SPC + o < Len(sent)
             PROVE  d.data[<<L[j], o>>] = sent[(j - 1) * SPC + o + 1]
  BY DEF Filled, L
<1>3. j # n + 1
  <2>1. SUFFICES ASSUME j = n + 1 PROVE FALSE
    OBVIOUS
  <2>2. j - 1 = n /\ o \in Nat
    BY <2>1, <1>2 DEF Offset
  <2>3. n * SPC + o < n * SPC
    BY <2>2, <1>2
  <2> QED
    BY <2>2, <2>3, <1>2
<1>4. j \in 1 .. n
  BY <1>3
<1> QED
  BY <1>1, <1>4 DEF Filled

\* After the last write of a link the chain is one longer.
LEMMA LinkedStep ==
  ASSUME Types, UNCHANGED <<start, slot, is_end, num, base, written, sent>>,
         Good(disk, "linked"), cur' = link, off' = 0, disk' = disk
  PROVE  Good(disk, "data")'
<1>1. PICK n \in Nat \ {0} : \E ch \in [1 .. n -> Cluster] : At(disk, "linked", n, ch)
  BY DEF Good
<1>2. PICK ch \in [1 .. n -> Cluster] : At(disk, "linked", n, ch)
  BY <1>1
<1>3. /\ Chain(n, ch) /\ PlaceOK("linked", n, ch)
      /\ FatOK(disk, "linked", n, ch) /\ DataOK(disk, "linked", n, ch)
      /\ Entered(disk, 0) /\ Marked(disk) /\ ~disk.clean[1]
  BY <1>2, PlainIs
<1> DEFINE m == n + 1
<1>4. /\ link \in Cluster /\ base.fat[1][link] = Free /\ \A i \in 1 .. n : ch[i] # link
      /\ off = SPC /\ written = (n - 1) * SPC + off /\ Len(sent) = written
  BY <1>3 DEF PlaceOK, Types, TypeOK
<1>5. PICK L \in [1 .. m -> Cluster] :
         /\ \A i \in 1 .. n : L[i] = ch[i]
         /\ L[m] = link /\ L = Longer(n, ch, link)
         /\ \A k \in Fats : Held(disk.fat[k], m, L, {})
  <2>1. \A k \in Fats : Held(disk.fat[k], m, Longer(n, ch, link), {})
    BY <1>3, FatCases
  <2>2. /\ Longer(n, ch, link) \in [1 .. m -> Cluster]
        /\ \A i \in 1 .. n : Longer(n, ch, link)[i] = ch[i]
        /\ Longer(n, ch, link)[m] = link
    BY <1>4, LongerFacts
  <2> QED
    BY <2>1, <2>2
<1>7. m \in Nat \ {0} /\ m - 1 = n
  OBVIOUS
<1>8. Chain(m, L)
  <2>1. /\ ch[1] = start /\ \A i, j \in 1 .. n : ch[i] = ch[j] => i = j
        /\ \A i \in 1 .. n : base.fat[1][ch[i]] = Free
    BY <1>3 DEF Chain
  <2>2. \A i \in 1 .. m : i \in 1 .. n \/ i = m
    BY <1>7
  <2>3. /\ L[m] = link /\ L[1] = start
        /\ \A i \in 1 .. n : L[i] = ch[i] /\ L[i] # link
    BY <1>4, <1>5, <2>1
  <2>4. \A i, j \in 1 .. m : L[i] = L[j] => i = j
    BY <2>1, <2>2, <2>3
  <2>5. \A i \in 1 .. m : base.fat[1][L[i]] = Free
    BY <1>4, <2>1, <2>2, <2>3
  <2> QED
    BY <2>3, <2>4, <2>5 DEF Chain
<1>9. SPC \in Nat /\ SPC > 0 /\ n * SPC \in Nat /\ n * SPC = (n - 1) * SPC + SPC
  BY VolumeAssumption
<1>10. written = n * SPC + 0
  BY <1>4, <1>9
<1> HIDE DEF m
<1>6. written' = (m - 1) * SPC + off'
  BY <1>7, <1>10
<1>11. PlaceOK("data", m, L)'
  BY <1>4, <1>5, <1>6, <1>9 DEF PlaceOK, Preparing, Linking, Late, Committed
<1>12. Filled(disk, m, L, sent')
  <2>1. Filled(disk, n, ch, sent)
    BY <1>3 DEF DataOK
  <2>2. Filled(disk, n + 1, Longer(n, ch, link), sent)
    BY <1>4, <2>1, FilledLonger
  <2> QED
    BY <1>5, <2>2 DEF m
<1>13. Mounted
  BY DEF Good
<1> QED
  BY <1>3, <1>5, <1>7, <1>8, <1>11, <1>12, <1>13, PlainNext DEF Plain

LEMMA VerifyStep ==
  ASSUME LogInv, Verify
  PROVE  LogInv'
<1>1. CASE ~Verified
  <2>1. /\ SetError
        /\ UNCHANGED <<disk, expect, start, link, slot, is_end, num, wbuf, short, base>>
        /\ UNCHANGED <<cur, off, alloc_hint, written, sent>>
    BY <1>1 DEF Verify
  <2> QED
    BY <2>1, FailStep DEF fileVars, dataVars, histVars
<1>2. CASE Verified
  <2>1. /\ verify_due /\ verify_due' = FALSE /\ disk = expect
        /\ sub' = IF After[sub] \in {"ready", "done"} THEN "idle" ELSE After[sub]
        /\ phase' = CASE After[sub] = "ready" -> "READY"
                      [] After[sub] = "done" -> "DONE"
                      [] OTHER -> phase
        /\ Advance
        /\ UNCHANGED <<disk, expect, start, link, slot, is_end, num, wbuf, short, base>>
    BY <1>2 DEF Verify, Verified
  <2>2. /\ Types /\ BaseOK /\ Safe(disk) /\ Good(disk, Past(sub)) /\ sub \in Writes
        /\ sub \in Second => NumFats = 2
        /\ phase = "WRITING" => wbuf \in Sector
        /\ sub \in Writing /\ sub # "patch" => written < MaxSectors
    BY <2>1 DEF LogInv, Stage, Control
  <2>3. /\ sub \in Preparing => phase = "PREPARING"
        /\ sub \in Linking \cup {"data", "patch"} => phase = "WRITING"
        /\ sub \in Committed \cup {"cdir"} => phase = "CLOSING"
    BY Busy DEF Writing
  <2> DEFINE linked == sub = Twice("prev2", "prev1")
  <2>4. /\ cur' = IF linked THEN link ELSE cur
        /\ off' = IF linked THEN 0 ELSE IF sub = "data" THEN off + 1 ELSE off
        /\ alloc_hint' = IF sub = "fsinfo" THEN start + 1 ELSE IF linked THEN link + 1
                         ELSE alloc_hint
        /\ written' = IF sub = "data" THEN written + 1 ELSE written
        /\ sent' = IF sub = "data" THEN Append(sent, wbuf)
                   ELSE IF sub = "patch" THEN [sent EXCEPT ![1] = wbuf] ELSE sent
    BY <2>1 DEF Advance
  <2>5. linked => sub \in Linking /\ sub # "data" /\ sub # "patch" /\ Past(sub) = "linked"
                  /\ After[sub] = "data"
    BY <2>2, AfterFacts DEF Linking, Twice
  <2> HIDE DEF linked
  <2>6. CASE sub = "data"
    <3>1. phase = "WRITING" /\ wbuf \in Sector /\ written < MaxSectors /\ ~linked
      BY <2>2, <2>3, <2>5, <2>6 DEF Writing
    <3>2. /\ UNCHANGED <<start, slot, is_end, num, base, cur>> /\ off' = off + 1
          /\ written' = written + 1 /\ sent' = Append(sent, wbuf) /\ disk' = disk
      BY <2>1, <2>4, <2>6, <3>1
    <3>3. Good(disk, "stored")
      BY <2>2, <2>6, PastFacts
    <3>4. Good(disk, "ready")' /\ off' \in 0 .. SPC
      BY <2>2, <3>1, <3>2, <3>3, StoredStep
    <3>5. sub' = "idle" /\ phase' = "READY"
      BY <2>1, <2>2, <2>6, AfterIs
    <3>6. written' \in 0 .. MaxSectors /\ sent' \in Seq(Sector)
      BY <2>2, <3>1, <3>2, VolumeAssumption DEF Types, TypeOK
    <3>7. Types'
      <4>1. alloc_hint' = alloc_hint
        BY <2>4, <2>6, <3>1
      <4>2. TypeOK'
        BY <2>1, <2>2, <3>2, <3>4, <3>5, <3>6, <4>1, WritesFixed DEF Types, TypeOK
      <4> QED
        BY <2>1, <2>2, <3>6, <4>2 DEF Types
    <3>8. Control'
      BY <2>1, <3>5 DEF Control, Second
    <3>9. BaseOK' /\ Safe(disk)'
      BY <2>1, <2>2, BaseFrame, SafeFrame
    <3>10. Stage'
      BY <2>1, <3>4, <3>5, NoWrite, WritesFixed DEF Stage
    <3> QED
      BY <3>7, <3>8, <3>9, <3>10 DEF LogInv
  <2>7. CASE sub = "patch"
    <3>1. phase = "WRITING" /\ wbuf \in Sector /\ ~linked
      BY <2>2, <2>3, <2>5, <2>7
    <3>2. /\ UNCHANGED <<start, slot, is_end, num, base, cur, off, written>>
          /\ sent' = Patched /\ disk' = disk
      BY <2>1, <2>4, <2>7, <3>1 DEF Patched
    <3>3. Good(disk, "patched")
      BY <2>2, <2>7, PastFacts
    <3>4. Good(disk, "ready")'
      BY <2>2, <3>2, <3>3, PatchedStep
    <3>5. sub' = "idle" /\ phase' = "READY"
      BY <2>1, <2>2, <2>7, AfterIs
    <3>6. sent' \in Seq(Sector)
      <4>1. Patched \in Seq(Sector)
        BY <2>2, <3>1, PatchedFacts
      <4> QED
        BY <3>2, <4>1
    <3>7. Types'
      <4>1. alloc_hint' = alloc_hint
        BY <2>4, <2>7, <3>1
      <4>2. TypeOK'
        BY <2>1, <2>2, <3>2, <3>5, <4>1, WritesFixed DEF Types, TypeOK
      <4> QED
        BY <2>1, <2>2, <3>6, <4>2 DEF Types
    <3>8. Control'
      BY <2>1, <3>5 DEF Control, Second
    <3>9. BaseOK' /\ Safe(disk)'
      BY <2>1, <2>2, BaseFrame, SafeFrame
    <3>10. Stage'
      BY <2>1, <3>4, <3>5, NoWrite, WritesFixed DEF Stage
    <3> QED
      BY <3>7, <3>8, <3>9, <3>10 DEF LogInv
  <2>8. CASE linked
    <3>1. /\ phase = "WRITING" /\ wbuf \in Sector /\ written < MaxSectors
          /\ sub # "data" /\ sub # "patch" /\ sub # "fsinfo"
      BY <2>2, <2>3, <2>5, <2>8 DEF Writing, Linking
    <3>2. /\ UNCHANGED <<start, slot, is_end, num, base, written, sent>>
          /\ cur' = link /\ off' = 0 /\ disk' = disk
      BY <2>1, <2>4, <2>8, <3>1
    <3>3. Good(disk, "linked")
      BY <2>2, <2>5, <2>8
    <3>4. Good(disk, "data")'
      BY <2>2, <3>2, <3>3, LinkedStep
    <3>5. sub' = "data" /\ phase' = "WRITING"
      BY <2>1, <2>5, <2>8, <3>1
    <3>6. Types'
      <4>1. alloc_hint' = link + 1
        BY <2>4, <2>8, <3>1
      <4>2. alloc_hint' \in 2 .. Last + 1 /\ 0 \in 0 .. SPC
        BY <2>2, <4>1, VolumeAssumption DEF Types, TypeOK, Cluster
      <4>3. "data" \in Writes
        BY WritesAre
      <4>4. TypeOK'
        BY <2>1, <2>2, <3>2, <3>5, <4>2, <4>3, WritesFixed DEF Types, TypeOK
      <4> QED
        BY <2>1, <2>2, <3>2, <4>4 DEF Types
    <3>7. Control'
      BY <2>1, <3>5, WritesAre DEF Control, Second, Writing
    <3>8. BaseOK' /\ Safe(disk)'
      BY <2>1, <2>2, BaseFrame, SafeFrame
    <3>9. Stage'
      BY <2>1, <3>1, <3>2, <3>4, <3>5 DEF Stage
    <3> QED
      BY <3>6, <3>7, <3>8, <3>9 DEF LogInv
  <2>9. CASE sub \notin {"data", "patch"} /\ ~linked
    <3>1. After[sub] = Past(sub)
      BY <2>9 DEF Past, linked
    <3>2. /\ UNCHANGED goodVars /\ disk' = disk
          /\ alloc_hint' = IF sub = "fsinfo" THEN start + 1 ELSE alloc_hint
      BY <2>1, <2>4, <2>9 DEF goodVars
    <3>3. Good(disk, After[sub])
      BY <2>2, <3>1
    <3>4. /\ sub \in Preparing => After[sub] \in Preparing \cup {"ready"}
          /\ sub \in Linking => After[sub] \in Linking
          /\ sub \in Committed \cup {"cdir"} => After[sub] \in Committed \cup {"done"}
          /\ After[sub] \in Second => NumFats = 2
          /\ After[sub] = "dirnext" => NeedNext
      BY <2>2, <2>9, <3>1, AfterIs, PastIs, AfterFacts DEF linked
    <3>5. sub \in Preparing \cup Linking \cup Committed \cup {"cdir"}
      BY <2>2, <2>9, WritesAre
    <3>6. NeedNext' = NeedNext
      BY <2>1 DEF NeedNext, LastInSector
    <3>7. /\ sub' \in Writes => sub' = After[sub]
          /\ sub' = "idle" => phase' \in {"READY", "DONE"}
          /\ phase' = "READY" <=> After[sub] = "ready"
          /\ phase' = "DONE" <=> After[sub] = "done"
          /\ sub' \in Writes \cup {"idle"}
      BY <2>1, <2>3, <3>4, <3>5, WritesAre DEF Preparing, Linking, Committed
    <3>8. Types'
      <4>1. alloc_hint' \in 2 .. Last + 1
        BY <2>2, <3>2, VolumeAssumption DEF Types, TypeOK, Cluster
      <4>2. phase' \in {"PREPARING", "READY", "WRITING", "CLOSING", "DONE"}
        BY <2>1, <2>3, <3>5
      <4>3. TypeOK'
        BY <2>1, <2>2, <3>2, <3>7, <4>1, <4>2, WritesFixed DEF Types, TypeOK, goodVars
      <4> QED
        BY <2>1, <2>2, <3>2, <4>3 DEF Types, goodVars
    <3>9. Control'
      BY <2>1, <2>3, <3>4, <3>5, <3>6 DEF Control, Preparing, Linking, Committed, Writing, Second
    <3>10. BaseOK' /\ Safe(disk)'
      BY <2>1, <2>2, BaseFrame, SafeFrame
    <3>11. Stage'
      <4>1. phase' = "READY" => Good(disk, "ready")'
        BY <3>2, <3>3, <3>7, GoodFrame
      <4>2. phase' = "DONE" => Good(disk, "done")'
        BY <3>2, <3>3, <3>7, GoodFrame
      <4>3. sub' \in Writes => Good(disk, sub)'
        BY <3>2, <3>3, <3>7, GoodFrame
      <4>4. sub' # "mount" /\ sub' # "check"
        BY <3>7, NoWrite
      <4>5. phase' = "WRITING" => wbuf' \in Sector
        BY <2>1, <2>2, <2>3, <3>5
      <4>6. sub' \in Writing => sub \in Writing /\ sub # "patch"
        BY <2>1, <2>9, <3>4, <3>5 DEF Writing, Preparing, Linking, Committed
      <4>7. written' = written
        BY <3>2 DEF goodVars
      <4> QED
        BY <2>1, <2>2, <4>1, <4>2, <4>3, <4>4, <4>5, <4>6, <4>7, WritesFixed DEF Stage
    <3> QED
      BY <3>8, <3>9, <3>10, <3>11 DEF LogInv
  <2> QED
    BY <2>6, <2>7, <2>8, <2>9
<1> QED
  BY <1>1, <1>2

\* A call, or the check of the cluster, begins the next stage.
LEMMA PlainMove ==
  ASSUME UNCHANGED <<disk, start, slot, is_end, num, base, cur, off, written, sent>>,
         NEW CONSTANT s \in {"ready", "check"}, NEW CONSTANT t \in Plain, Good(disk, s),
         t \in {"patch", "cdir"} => written > 0, t = "data" => off < SPC,
         t = "new1" => /\ off = SPC /\ base.fat[1][link'] = Free
                       /\ disk.fat[1][link'] = Free /\ link' \in Cluster
  PROVE  Good(disk, t)'
<1>1. PICK n \in Nat \ {0} : \E ch \in [1 .. n -> Cluster] : At(disk, s, n, ch)
  BY DEF Good
<1>2. PICK ch \in [1 .. n -> Cluster] : At(disk, s, n, ch)
  BY <1>1
<1>3. s \in Plain
  BY DEF Plain
<1>4. /\ Chain(n, ch) /\ PlaceOK(s, n, ch)
      /\ \A k \in Fats : Held(disk.fat[k], n, ch, {})
      /\ Filled(disk, n, ch, sent)
      /\ Entered(disk, 0) /\ Marked(disk) /\ ~disk.clean[1] /\ Mounted
  BY <1>2, <1>3, PlainIs, PlainFat, PlainData DEF Good
<1>5. ch[n] = cur /\ written = (n - 1) * SPC + off /\ Len(sent) = written /\ (off > 0 \/ n = 1)
  BY <1>4 DEF PlaceOK
<1>6. ASSUME t = "new1", NEW i \in 1 .. n PROVE ch[i] # link'
  <2>1. disk.fat[1][ch[i]] = IF i < n THEN ch[i + 1] ELSE EOC
    BY <1>4, Constants DEF Held
  <2>2. disk.fat[1][ch[i]] # Free
    BY <2>1, Constants
  <2> QED
    BY <2>2, <1>6
<1>7. PlaceOK(t, n, ch)'
  <2>1. t \notin Preparing \cup {"linked", "stored", "patched"} \cup Late
    BY DEF Plain, Preparing, Late, Committed
  <2>2. t \in Linking => t = "new1"
    BY DEF Plain, Linking
  <2> QED
    BY <1>5, <1>6, <2>1, <2>2 DEF PlaceOK
<1>8. Filled(disk, n, ch, sent')
  BY <1>4
<1> QED
  BY <1>4, <1>7, <1>8, PlainNext

LEMMA WriteStep ==
  ASSUME LogInv, NEW CONSTANT last \in BOOLEAN, Write(last)
  PROVE  LogInv'
<1> USE DEF fileVars, histVars
<1>1. /\ phase = "READY" /\ written < MaxSectors /\ phase' = "WRITING" /\ sub' = "check"
      /\ wbuf' = written + 1 /\ short' = last
      /\ UNCHANGED <<disk, verify_due, expect, fileVars, written, histVars>>
  BY DEF Write
<1>2. Types /\ BaseOK /\ Safe(disk) /\ Good(disk, "ready") /\ sub = "idle" /\ ~verify_due
  BY <1>1, NoWrite DEF LogInv, Stage, Control, Types, TypeOK
<1>3. wbuf' \in Sector
  BY <1>1, <1>2, VolumeAssumption DEF Sector, Types, TypeOK
<1>4. Good(disk, "check")'
  BY <1>1, <1>2, PlainMove DEF Plain
<1>5. Types'
  <2>1. TypeOK'
    BY <1>1, <1>2, <1>3, WritesFixed DEF Types, TypeOK
  <2> QED
    BY <1>1, <1>2, <2>1 DEF Types
<1>6. Control'
  BY <1>1, <1>2 DEF Control, Second
<1>7. BaseOK' /\ Safe(disk)'
  BY <1>1, <1>2, BaseFrame, SafeFrame
<1>8. Stage'
  BY <1>1, <1>2, <1>3, <1>4, NoWrite, WritesFixed DEF Stage
<1> QED
  BY <1>5, <1>6, <1>7, <1>8 DEF LogInv

LEMMA RewriteStep ==
  ASSUME LogInv, Rewrite
  PROVE  LogInv'
<1> USE DEF fileVars, histVars
<1>1. /\ phase = "READY" /\ written > 0 /\ phase' = "WRITING" /\ sub' = "patch"
      /\ wbuf' = Patch
      /\ UNCHANGED <<disk, verify_due, expect, fileVars, short, written, histVars>>
  BY DEF Rewrite
<1>2. Types /\ BaseOK /\ Safe(disk) /\ Good(disk, "ready") /\ sub = "idle" /\ ~verify_due
  BY <1>1, NoWrite DEF LogInv, Stage, Control, Types, TypeOK
<1>3. wbuf' \in Sector
  BY <1>1, VolumeAssumption DEF Sector, Patch
<1>4. Good(disk, "patch")'
  BY <1>1, <1>2, PlainMove DEF Plain
<1>5. Types'
  <2>1. "patch" \in Writes
    BY WritesAre
  <2>2. TypeOK'
    BY <1>1, <1>2, <1>3, <2>1, WritesFixed DEF Types, TypeOK
  <2> QED
    BY <1>1, <1>2, <2>2 DEF Types
<1>6. Control'
  BY <1>1, <1>2 DEF Control, Second, Writing
<1>7. BaseOK' /\ Safe(disk)'
  BY <1>1, <1>2, BaseFrame, SafeFrame
<1>8. Stage'
  BY <1>1, <1>2, <1>3, <1>4, NoWrite, WritesFixed DEF Stage
<1> QED
  BY <1>5, <1>6, <1>7, <1>8 DEF LogInv

LEMMA CloseStep ==
  ASSUME LogInv, Close
  PROVE  LogInv'
<1> USE DEF fileVars, histVars, dataVars
<1>1. /\ phase = "READY" /\ written > 0 /\ phase' = "CLOSING" /\ sub' = "cdir"
      /\ UNCHANGED <<disk, verify_due, expect, fileVars, dataVars, histVars>>
  BY DEF Close
<1>2. Types /\ BaseOK /\ Safe(disk) /\ Good(disk, "ready") /\ sub = "idle" /\ ~verify_due
  BY <1>1, NoWrite DEF LogInv, Stage, Control, Types, TypeOK
<1>3. Good(disk, "cdir")'
  BY <1>1, <1>2, PlainMove DEF Plain
<1>4. Types'
  <2>1. "cdir" \in Writes
    BY WritesAre
  <2>2. TypeOK'
    BY <1>1, <1>2, <2>1, WritesFixed DEF Types, TypeOK
  <2> QED
    BY <1>1, <1>2, <2>2 DEF Types
<1>5. Control'
  BY <1>1, <1>2 DEF Control, Second
<1>6. BaseOK' /\ Safe(disk)'
  BY <1>1, <1>2, BaseFrame, SafeFrame
<1>7. Stage'
  <2>1. "cdir" \notin Writing
    BY DEF Writing, Linking
  <2> QED
    BY <1>1, <1>2, <1>3, <2>1, NoWrite, WritesFixed DEF Stage
<1> QED
  BY <1>4, <1>5, <1>6, <1>7 DEF LogInv

LEMMA CheckClusterStep ==
  ASSUME LogInv, CheckCluster
  PROVE  LogInv'
<1> USE DEF fileVars, histVars, dataVars
<1>1. sub = "check" /\ UNCHANGED <<disk, expect, start, cur, off, alloc_hint, slot, is_end, num,
                                   dataVars, histVars>>
  BY DEF CheckCluster
<1>2. /\ Types /\ BaseOK /\ Safe(disk) /\ Good(disk, "check") /\ phase = "WRITING"
      /\ wbuf \in Sector /\ written < MaxSectors /\ ~verify_due
  BY <1>1, Busy, NoWrite DEF LogInv, Stage, Control
<1>3. ASSUME sub' \in {"data", "new1"}, UNCHANGED <<phase, verify_due>>, link' \in Cluster,
             Good(disk, sub)'
      PROVE  LogInv'
  <2>1. Types'
    <3>1. sub' \in Writes
      BY <1>3, WritesAre DEF Linking
    <3>2. TypeOK'
      BY <1>1, <1>2, <1>3, <3>1, WritesFixed DEF Types, TypeOK
    <3> QED
      BY <1>1, <1>2, <3>2 DEF Types
  <2>2. Control'
    BY <1>2, <1>3 DEF Control, Second, Writing, Linking
  <2>3. BaseOK' /\ Safe(disk)'
    BY <1>1, <1>2, BaseFrame, SafeFrame
  <2>4. Stage'
    BY <1>1, <1>2, <1>3 DEF Stage
  <2> QED
    BY <2>1, <2>2, <2>3, <2>4 DEF LogInv
<1>4. CASE off < SPC
  <2>1. sub' = "data" /\ UNCHANGED <<phase, verify_due, link>>
    BY <1>4 DEF CheckCluster
  <2>2. Good(disk, "data")'
    BY <1>1, <1>2, <1>4, PlainMove DEF Plain
  <2>3. link' \in Cluster
    BY <1>2, <2>1 DEF Types, TypeOK
  <2> QED
    BY <1>3, <2>1, <2>2, <2>3
<1>5. CASE ~(off < SPC) /\ Scan(alloc_hint) \in Cluster
  <2>1. sub' = "new1" /\ link' = Scan(alloc_hint) /\ UNCHANGED <<phase, verify_due>>
    BY <1>5 DEF CheckCluster
  <2>2. off = SPC
    BY <1>2, <1>5, VolumeAssumption DEF Types, TypeOK
  <2>3. link' \in Cluster /\ disk.fat[1][link'] = Free
    BY <1>2, <1>5, <2>1, ScanFacts DEF Types
  <2>4. base.fat[1][link'] = Free
    BY <1>2, <2>3, Constants DEF Safe, Keeps
  <2>5. Good(disk, "new1")'
    BY <1>1, <1>2, <2>2, <2>3, <2>4, PlainMove DEF Plain
  <2> QED
    BY <1>3, <2>1, <2>3, <2>5
<1>6. CASE ~(off < SPC) /\ Scan(alloc_hint) \notin Cluster
  <2>1. SetError /\ UNCHANGED link
    BY <1>6 DEF CheckCluster
  <2> QED
    BY <1>1, <2>1, FailStep
<1> QED
  BY <1>4, <1>5, <1>6

-----------------------------------------------------------------------------
(* The volumes a session may meet.                                         *)

LEMMA ChainOfFacts ==
  ASSUME NEW used \in SUBSET (Cluster \ {Root})
  PROVE  ChainOf(used) \in [Cluster -> Entry] /\ Closed(ChainOf(used))
<1> DEFINE f == ChainOf(used)
<1>1. ASSUME NEW c \in Cluster
      PROVE  /\ f[c] \in Entry
             /\ f[c] \in Cluster => f[c] \in used
             /\ c \in used => f[c] # Free
  <2> DEFINE up == {n \in used : n > c}
  <2>1. f[c] = IF c = Root THEN EOC ELSE IF c \notin used THEN Free
               ELSE IF \E n \in used : n > c THEN Min(up) ELSE EOC
    BY DEF ChainOf
  <2>2. up \subseteq Nat /\ up \subseteq used
    BY Constants
  <2>3. (\E n \in used : n > c) => Min(up) \in up
    BY <2>2, MinFacts
  <2> HIDE DEF up
  <2>4. (\E n \in used : n > c) => Min(up) \in used /\ Min(up) \in Cluster
    BY <2>2, <2>3
  <2> QED
    BY <2>1, <2>4, Constants
<1>2. f = [c \in Cluster |-> f[c]]
  BY DEF ChainOf
<1> HIDE DEF f
<1>3. f \in [Cluster -> Entry]
  BY <1>1, <1>2
<1>4. Closed(f)
  BY <1>1 DEF Closed
<1> QED
  BY <1>3, <1>4 DEF f

LEMMA DirectoryFacts ==
  ASSUME NEW e, NEW slots \in [Place -> {Deleted, Other, Slot("log", 1, 0, 0)}]
  PROVE  /\ Directory(e, slots) \in [Place -> SlotType]
         /\ \A p \in Place : IF Directory(e, slots)[p].kind = "log"
                               THEN Directory(e, slots)[p].num > 0
                               ELSE Directory(e, slots)[p].num = 0
<1> DEFINE D == Directory(e, slots)
           K == {Deleted, Other, Slot("log", 1, 0, 0), End, Stale}
<1>1. K \subseteq SlotType
  BY VolumeAssumption DEF SlotType, Deleted, Other, Slot, End, Stale
<1>2. \A x \in K : IF x.kind = "log" THEN x.num > 0 ELSE x.num = 0
  BY DEF Deleted, Other, Slot, End, Stale
<1>3. D = [p \in Place |-> IF p = e THEN End ELSE IF Before(e, p) THEN Stale ELSE slots[p]]
  BY DEF Directory
<1>4. \A p \in Place : slots[p] \in K
  OBVIOUS
<1>5. D \in [Place -> K]
  BY <1>3, <1>4
<1> HIDE DEF D, K
<1> QED
  BY <1>1, <1>2, <1>5 DEF D

LEMMA VolumesFacts ==
  ASSUME NEW d \in Volumes
  PROVE  /\ d \in Volume /\ Numbered(d) /\ \A k \in Fats : Closed(d.fat[k])
         /\ \A k \in Fats : Same(d.fat[k], d.fat[1])
<1> DEFINE V(used, e, slots, h) ==
             [fat |-> [k \in Fats |-> ChainOf(used)], clean |-> [k \in Fats |-> TRUE],
              dir |-> Directory(e, slots), data |-> [x \in Cluster \X (0 .. SPC - 1) |-> Old],
              hint |-> h, bhint |-> h]
           S == {s \in [Place -> {Deleted, Other, Slot("log", 1, 0, 0)}] :
                   Cardinality({p \in Place : s[p].kind = "log"}) <= 1}
<1>1. Volumes = {V(used, e, slots, h) :
                   used \in SUBSET (Cluster \ {Root}), e \in Place \cup {<<SPC, 0>>},
                   slots \in S, h \in {Unknown, Last}}
  BY DEF Volumes
<1> HIDE DEF V, S
<1>10. PICK used \in SUBSET (Cluster \ {Root}), e \in Place \cup {<<SPC, 0>>}, slots \in S,
            h \in {Unknown, Last} : d = V(used, e, slots, h)
  BY <1>1
<1>2. ChainOf(used) \in [Cluster -> Entry] /\ Closed(ChainOf(used))
  BY ChainOfFacts
<1>3. /\ Directory(e, slots) \in [Place -> SlotType]
      /\ \A p \in Place : IF Directory(e, slots)[p].kind = "log"
                            THEN Directory(e, slots)[p].num > 0
                            ELSE Directory(e, slots)[p].num = 0
  <2>1. slots \in [Place -> {Deleted, Other, Slot("log", 1, 0, 0)}]
    BY DEF S
  <2> QED
    BY <2>1, DirectoryFacts
<1>4. h \in Cluster \cup {Unknown}
  BY VolumeAssumption DEF Cluster
<1> DEFINE f == ChainOf(used)
           D == Directory(e, slots)
<1> HIDE DEF f, D
<1>5. d = [fat |-> [k \in Fats |-> f], clean |-> [k \in Fats |-> TRUE], dir |-> D,
           data |-> [x \in Cluster \X Offset |-> Old], hint |-> h, bhint |-> h]
  BY <1>10 DEF V, f, D, Offset
<1>6. d \in Volume
  BY <1>2, <1>3, <1>4, <1>5 DEF f, D, Volume
<1>7. Numbered(d)
  BY <1>3, <1>5 DEF D, Numbered
<1>8. \A k \in Fats : d.fat[k] = f
  BY <1>5
<1>9. \A k \in Fats : Closed(d.fat[k]) /\ Same(d.fat[k], d.fat[1])
  BY <1>2, <1>8, Constants DEF f, Same
<1> QED
  BY <1>6, <1>7, <1>9

LEMMA InitStep == Init => LogInv
<1> SUFFICES ASSUME Init PROVE LogInv
  OBVIOUS
<1>1. /\ disk \in Volumes /\ phase = "IDLE" /\ sub = "idle" /\ verify_due = FALSE
      /\ expect = disk /\ base = disk /\ sent = <<>> /\ written = 0
      /\ start = Root /\ cur = Root /\ off = 0 /\ link = Root /\ alloc_hint = 2
      /\ slot = <<0, 0>> /\ is_end = FALSE /\ num = 0 /\ wbuf = None /\ short = FALSE
  BY DEF Init
<1>2. /\ disk \in Volume /\ Numbered(disk) /\ \A k \in Fats : Closed(disk.fat[k])
      /\ \A k \in Fats : Same(disk.fat[k], disk.fat[1])
  BY <1>1, VolumesFacts
<1>3. Types
  <2>1. /\ Root \in Cluster /\ 0 \in 0 .. SPC /\ 2 \in 2 .. Last + 1 /\ <<0, 0>> \in Place
        /\ 0 \in 0 .. MaxName /\ 0 \in 0 .. MaxSectors
    BY VolumeAssumption DEF Root, Cluster, Place
  <2>2. TypeOK
    BY <1>1, <1>2, <2>1 DEF TypeOK, Volume, Offset
  <2> QED
    BY <1>1, <1>2, <2>2 DEF Types
<1>4. Control
  BY <1>1 DEF Control, Second
<1>5. BaseOK
  BY <1>1, <1>2 DEF BaseOK
<1>6. Safe(disk)
  BY <1>1, <1>2 DEF Safe, Keeps, CleanCases
<1>7. Stage
  BY <1>1, NoWrite DEF Stage
<1> QED
  BY <1>3, <1>4, <1>5, <1>6, <1>7 DEF LogInv

LEMMA StutterStep ==
  ASSUME LogInv, UNCHANGED vars
  PROVE  LogInv'
<1> USE DEF vars, ioVars, fileVars, dataVars, histVars
<1>1. Types'
  BY WritesFixed DEF LogInv, Types, TypeOK
<1>2. Control'
  BY WritesFixed DEF LogInv, Control, NeedNext, LastInSector
<1>3. BaseOK' /\ Safe(disk)'
  BY BaseFrame, SafeFrame DEF LogInv
<1>4. Stage'
  <2>1. UNCHANGED goodVars /\ sub' = sub /\ Past(sub)' = Past(sub) /\ disk' = disk
    BY PastFrame DEF goodVars
  <2>2. \A d, s : Good(d, s)' <=> Good(d, s)
    BY <2>1, GoodFrame
  <2> QED
    BY <2>1, <2>2, WritesFixed DEF LogInv, Stage
<1> QED
  BY <1>1, <1>2, <1>3, <1>4 DEF LogInv

LEMMA NextStep ==
  ASSUME LogInv, [Next]_vars
  PROVE  LogInv'
<1>1. CASE Mount
  BY <1>1, MountStep
<1>2. CASE WriteSector
  BY <1>2, WriteSectorStep
<1>3. CASE Verify
  BY <1>3, VerifyStep
<1>4. CASE CheckCluster
  BY <1>4, CheckClusterStep
<1>5. CASE Start
  BY <1>5, StartStep
<1>6. CASE Rewrite
  BY <1>6, RewriteStep
<1>7. CASE Close
  BY <1>7, CloseStep
<1>8. ASSUME NEW last \in BOOLEAN, Write(last) PROVE LogInv'
  BY <1>8, WriteStep
<1>9. CASE IoError
  BY <1>9, FailStep DEF IoError
<1>10. CASE PowerLoss
  BY <1>10, PowerLossStep
<1>11. CASE UNCHANGED vars
  BY <1>11, StutterStep
<1> QED
  BY <1>1, <1>2, <1>3, <1>4, <1>5, <1>6, <1>7, <1>8, <1>9, <1>10, <1>11 DEF Next, Card, Calls

\* The inductive invariant: where every session stands.
THEOREM LogInvariant == Spec => []LogInv
  BY InitStep, NextStep, PTL DEF Spec

\* Type correctness.
THEOREM TypeCorrect == Spec => []TypeOK
<1>1. LogInv => TypeOK
  BY DEF LogInv, Types
<1> QED
  BY <1>1, LogInvariant, PTL

\* Whatever fails and whenever power is lost, at any sector of any write, every
\* file that was on the card keeps its entry, its chain and its data.
THEOREM FilesPreserved == Spec => []Preserved
<1>1. LogInv => Preserved
  BY DEF LogInv, Safe, Keeps, Preserved, Closed, Offset
<1> QED
  BY <1>1, LogInvariant, PTL

-----------------------------------------------------------------------------
(* Reading a file along its chain.                                         *)

\* A chain has no more clusters than the volume.
LEMMA ChainBound ==
  ASSUME NEW n \in Nat \ {0}, NEW ch \in [1 .. n -> Cluster],
         \A i, j \in 1 .. n : ch[i] = ch[j] => i = j
  PROVE  n < Last
<1> SUFFICES ASSUME n >= Last PROVE FALSE
  BY VolumeAssumption
<1>1. IsFiniteSet(1 .. n) /\ Cardinality(1 .. n) = n
  BY FS_Interval
<1>2. IsFiniteSet(2 .. Last) /\ Cardinality(2 .. Last) = Last - 1
  BY VolumeAssumption, FS_Interval
<1>3. ch \in [1 .. n -> 2 .. Last] /\ Last - 1 < n
  BY VolumeAssumption DEF Cluster
<1>5. Cardinality(2 .. Last) < Cardinality(1 .. n)
  BY <1>1, <1>2, <1>3
<1> DEFINE S == 1 .. n
           T == 2 .. Last
<1>6. IsFiniteSet(S) /\ IsFiniteSet(T) /\ Cardinality(T) < Cardinality(S) /\ ch \in [S -> T]
  BY <1>1, <1>2, <1>3, <1>5
<1> HIDE DEF S, T
<1>7. \E i, j \in S : i # j /\ ch[i] = ch[j]
  BY <1>6, FS_PigeonHole
<1>4. \E i, j \in 1 .. n : i # j /\ ch[i] = ch[j]
  BY <1>7 DEF S
<1> QED
  BY <1>4

\* The clusters of a chain, read one after another.
LEMMA NthFacts ==
  ASSUME NEW d, NEW c, NEW n \in Nat \ {0}, n < Last, NEW ch \in [1 .. n -> Cluster], ch[1] = c,
         \A i \in 1 .. n : d.fat[1][ch[i]] = IF i < n THEN ch[i + 1] ELSE EOC
  PROVE  /\ \A i \in 0 .. n - 1 : Nth(d, c)[i] = ch[i + 1]
         /\ Nth(d, c)[n] = EOC
<1> DEFINE Rec(f) == [m \in 0 .. Last |-> IF m = 0 THEN c
                                          ELSE IF f[m - 1] \in Cluster THEN d.fat[1][f[m - 1]]
                                          ELSE f[m - 1]]
           g == [m \in 0 .. Last |-> IF m < n THEN ch[m + 1] ELSE EOC]
           f == Nth(d, c)
<1>1. f = CHOOSE h : h = Rec(h)
  BY DEF Nth
<1>2. Last \in Nat
  BY VolumeAssumption
<1>3. ASSUME NEW m \in 0 .. Last
      PROVE  g[m] = IF m = 0 THEN c ELSE IF g[m - 1] \in Cluster THEN d.fat[1][g[m - 1]] ELSE g[m - 1]
  <2>1. CASE m = 0
    BY <2>1
  <2>2. CASE m > 0
    <3>1. m - 1 \in 0 .. Last /\ g[m - 1] = (IF m - 1 < n THEN ch[m] ELSE EOC)
      BY <2>2, <1>2
    <3>2. m - 1 < n => /\ m \in 1 .. n /\ ch[m] \in Cluster
                       /\ d.fat[1][ch[m]] = IF m < n THEN ch[m + 1] ELSE EOC
      BY <2>2, <1>2
    <3>3. g[m] = IF m < n THEN ch[m + 1] ELSE EOC
      OBVIOUS
    <3> HIDE DEF g
    <3> QED
      BY <2>2, <3>1, <3>2, <3>3, <1>2, Constants
  <2> QED
    BY <2>1, <2>2
<1>4. g = Rec(g)
  BY <1>3
<1> HIDE DEF g, f
<1>5. f = Rec(f)
  BY <1>1, <1>4
<1>6. \A m \in 0 .. Last : f[m] = g[m]
  <2> DEFINE B == {m \in 0 .. Last : f[m] # g[m]}
  <2> SUFFICES ASSUME B # {} PROVE FALSE
    OBVIOUS
  <2>5. B \subseteq Nat
    BY <1>2
  <2>1. PICK m \in B : \A k \in B : m <= k
    <3> HIDE DEF B
    <3> QED
      BY <2>5, LeastNat
  <2>2. f[m] = IF m = 0 THEN c ELSE IF f[m - 1] \in Cluster THEN d.fat[1][f[m - 1]] ELSE f[m - 1]
    BY <1>5, <2>1
  <2>3. CASE m = 0
    BY <2>1, <2>2, <2>3, <1>3
  <2>4. CASE m # 0
    <3>1. m - 1 \in 0 .. Last /\ m - 1 \notin B
      BY <2>1, <2>4, <1>2
    <3>2. f[m - 1] = g[m - 1]
      BY <3>1
    <3> QED
      BY <2>1, <2>2, <2>4, <3>2, <1>3
  <2> QED
    BY <2>3, <2>4
<1>7. \A m \in 0 .. Last : g[m] = IF m < n THEN ch[m + 1] ELSE EOC
  BY DEF g
<1>8. n \in 0 .. Last /\ \A i \in 0 .. n - 1 : i \in 0 .. Last /\ i < n
  BY <1>2
<1> QED
  BY <1>6, <1>7, <1>8 DEF f

\* d links the clusters ch, from c to the end of the chain.
Linked(d, c, n, ch) ==
    /\ ch[1] = c
    /\ \A i \in 1 .. n : d.fat[1][ch[i]] = IF i < n THEN ch[i + 1] ELSE EOC

LEMMA NthIs ==
  ASSUME NEW d, NEW c, NEW n \in Nat \ {0}, n < Last, NEW ch \in [1 .. n -> Cluster],
         Linked(d, c, n, ch)
  PROVE  /\ \A i \in 0 .. n - 1 : Nth(d, c)[i] = ch[i + 1]
         /\ Nth(d, c)[n] = EOC
<1>1. ch[1] = c
  BY DEF Linked
<1>2. \A i \in 1 .. n : d.fat[1][ch[i]] = IF i < n THEN ch[i + 1] ELSE EOC
  BY DEF Linked
<1> QED
  BY <1>1, <1>2, NthFacts

\* d's chain ch of n clusters, of which the sectors t fill the first.
Reads(d, n, ch, t) ==
    /\ ch[1] = start
    /\ \A i, j \in 1 .. n : ch[i] = ch[j] => i = j
    /\ \A i \in 1 .. n : d.fat[1][ch[i]] = IF i < n THEN ch[i + 1] ELSE EOC
    /\ Filled(d, n, ch, t)

LEMMA ReadFacts ==
  ASSUME NEW d, NEW n \in Nat \ {0}, NEW ch \in [1 .. n -> Cluster], NEW t \in Seq(Sector),
         Reads(d, n, ch, t), Len(t) <= n * SPC
  PROVE  ReadFile(d, start, Len(t)) = t
<1>1. n < Last /\ Len(t) \in Nat /\ SPC \in Nat /\ SPC > 0 /\ n * SPC \in Nat
  BY ChainBound, VolumeAssumption DEF Reads
<1>2. \A i \in 0 .. n - 1 : Nth(d, start)[i] = ch[i + 1]
  <2>1. Linked(d, start, n, ch)
    BY DEF Reads, Linked
  <2> QED
    BY <1>1, <2>1, NthIs
<1>3. ASSUME NEW i \in 1 .. Len(t)
      PROVE  d.data[<<Nth(d, start)[(i - 1) \div SPC], (i - 1) % SPC>>] = t[i]
  <2> DEFINE q == (i - 1) \div SPC
             r == (i - 1) % SPC
  <2>1. i - 1 \in Nat /\ i - 1 < n * SPC
    BY <1>1
  <2>2. q \in Nat /\ r \in Nat /\ r < SPC
    BY <1>1, <2>1
  <2>3. i - 1 = SPC * q + r
    BY <1>1, <2>1
  <2> HIDE DEF q, r
  <2>4. i - 1 = q * SPC + r
    BY <1>1, <2>2, <2>3
  <2>5. q < n
    <3> SUFFICES ASSUME q >= n PROVE FALSE
      BY <2>2
    <3>1. PICK k \in Nat : q = n + k
      <4>1. q - n \in Nat /\ q = n + (q - n)
        BY <2>2
      <4> QED
        BY <4>1
    <3>2. q * SPC = n * SPC + k * SPC /\ k * SPC \in Nat
      BY <1>1, <3>1
    <3> QED
      BY <1>1, <2>1, <2>2, <2>4, <3>2
  <2>6. Nth(d, start)[q] = ch[q + 1]
    BY <1>2, <2>2, <2>5
  <2>7. q + 1 \in 1 .. n /\ r \in Offset /\ (q + 1) - 1 = q
    BY <2>2, <2>5, <1>1 DEF Offset
  <2>8. ((q + 1) - 1) * SPC + r < Len(t)
    BY <2>4, <2>7
  <2>9. d.data[<<ch[q + 1], r>>] = t[((q + 1) - 1) * SPC + r + 1]
    BY <2>7, <2>8 DEF Reads, Filled
  <2>10. ((q + 1) - 1) * SPC + r + 1 = i
    BY <2>4, <2>7
  <2> QED
    BY <2>6, <2>9, <2>10 DEF q, r
<1>4. t = [i \in 1 .. Len(t) |-> t[i]]
  OBVIOUS
<1> QED
  BY <1>3, <1>4 DEF ReadFile

\* A sector more in the file than in what is read of it.
LEMMA FilledLess ==
  ASSUME NEW d, NEW n \in Nat \ {0}, NEW ch, Types, Filled(d, n, ch, Append(sent, wbuf)),
         wbuf \in Sector
  PROVE  Filled(d, n, ch, sent)
<1>1. /\ Len(Append(sent, wbuf)) = Len(sent) + 1 /\ Len(sent) \in Nat
      /\ \A i \in 1 .. Len(sent) : Append(sent, wbuf)[i] = sent[i]
  BY DEF Types
<1> SUFFICES ASSUME NEW j \in 1 .. n, NEW o \in Offset, (j - 1) * SPC + o < Len(sent)
             PROVE  d.data[<<ch[j], o>>] = sent[(j - 1) * SPC + o + 1]
  BY DEF Filled
<1> DEFINE k == (j - 1) * SPC + o
<1>2. k \in Nat
  <2>1. j \in Nat \ {0} /\ o \in Nat
    BY VolumeAssumption DEF Offset
  <2> QED
    BY <2>1, IndexNat
<1>3. k < Len(Append(sent, wbuf))
  BY <1>1, <1>2
<1>4. d.data[<<ch[j], o>>] = Append(sent, wbuf)[k + 1]
  BY <1>3 DEF Filled
<1> HIDE DEF k
<1>5. k + 1 \in 1 .. Len(sent)
  BY <1>1, <1>2 DEF k
<1> QED
  BY <1>1, <1>4, <1>5 DEF k

\* What a reader finds at each stage.
LEMMA GoodReads ==
  ASSUME Types, NEW d, NEW s, s \notin Preparing, Good(d, s), wbuf \in Sector \/ s \notin {"stored", "patched"}
  PROVE  /\ s = "patched" => ReadFile(d, start, written) = Patched
         /\ s # "patched" => ReadFile(d, start, written) = sent
         /\ s = "stored" => ReadFile(d, start, written + 1) = Append(sent, wbuf)
<1>1. PICK n \in Nat \ {0} : \E ch \in [1 .. n -> Cluster] : At(d, s, n, ch)
  BY DEF Good
<1>2. PICK ch \in [1 .. n -> Cluster] : At(d, s, n, ch)
  BY <1>1
<1>3. /\ Chain(n, ch) /\ PlaceOK(s, n, ch) /\ FatOK(d, s, n, ch) /\ DataOK(d, s, n, ch)
  BY <1>2 DEF At
<1>4. written = (n - 1) * SPC + off /\ Len(sent) = written
  BY <1>3 DEF PlaceOK
<1>5. /\ SPC \in Nat /\ off \in 0 .. SPC /\ n * SPC \in Nat /\ (n - 1) * SPC \in Nat
      /\ n * SPC = (n - 1) * SPC + SPC
  BY VolumeAssumption DEF Types, TypeOK
<1>6. Len(sent) <= n * SPC
  BY <1>4, <1>5
<1>7. sent \in Seq(Sector)
  BY DEF Types
<1>8. CASE s \in {"prev2", "linked"}
  <2>1. /\ off = SPC /\ link \in Cluster /\ \A i \in 1 .. n : ch[i] # link
    BY <1>3, <1>8 DEF PlaceOK, Linking, Types, TypeOK
  <2>2. PICK L : L = Longer(n, ch, link)
    OBVIOUS
  <2>3. Held(d.fat[1], n + 1, L, {})
    BY <1>3, <1>8, <2>2, Constants, FatCases
  <2>4. Filled(d, n, ch, sent)
    BY <1>3, <1>8 DEF DataOK
  <2>5. Filled(d, n + 1, L, sent)
    BY <1>4, <2>1, <2>2, <2>4, FilledLonger
  <2>6. /\ L \in [1 .. n + 1 -> Cluster]
        /\ \A i \in 1 .. n : L[i] = ch[i] /\ L[n + 1] = link
    BY <2>1, <2>2 DEF Longer
  <2>7. Reads(d, n + 1, L, sent)
    BY <1>3, <2>1, <2>3, <2>5, <2>6 DEF Reads, Held, Chain
  <2>8. n + 1 \in Nat \ {0} /\ Len(sent) <= (n + 1) * SPC
    BY <1>5, <1>6
  <2>9. ReadFile(d, start, Len(sent)) = sent
    BY <1>7, <2>6, <2>7, <2>8, ReadFacts
  <2> QED
    BY <1>4, <1>8, <2>9
<1>9. CASE s \notin {"prev2", "linked"}
  <2>1. \E r \in {{}, {link}} : Held(d.fat[1], n, ch, r)
    <3>1. CASE s = "new2"
      BY <1>3, <3>1, FatCases
    <3>2. CASE s = "prev1"
      BY <1>3, <3>2, FatCases, Constants
    <3>3. CASE s \notin {"new2", "prev1"}
      <4>1. s \notin {"dirty1", "dirty2", "first1", "first2", "new2", "prev1", "prev2", "linked"}
        BY <1>9, <3>3 DEF Preparing
      <4> QED
        BY <1>3, <4>1, FatCases, Constants
    <3> QED
      BY <3>1, <3>2, <3>3
  <2>2. \A i \in 1 .. n : d.fat[1][ch[i]] = IF i < n THEN ch[i + 1] ELSE EOC
    BY <2>1 DEF Held
  <2>3. ASSUME NEW t \in Seq(Sector), Filled(d, n, ch, t), Len(t) <= n * SPC
        PROVE  ReadFile(d, start, Len(t)) = t
    <3>1. Reads(d, n, ch, t)
      BY <1>3, <2>2, <2>3 DEF Reads, Chain
    <3> QED
      BY <2>3, <3>1, ReadFacts
  <2>4. CASE s = "stored"
    <3>1. /\ Append(sent, wbuf) \in Seq(Sector) /\ Len(Append(sent, wbuf)) = written + 1
          /\ off < SPC
      BY <1>3, <1>4, <1>7, <2>4 DEF PlaceOK
    <3>2. Filled(d, n, ch, Append(sent, wbuf))
      BY <1>3, <2>4 DEF DataOK
    <3>3. Filled(d, n, ch, sent)
      BY <2>4, <3>2, FilledLess
    <3>4. Len(Append(sent, wbuf)) <= n * SPC
      BY <1>4, <1>5, <3>1
    <3>5. ReadFile(d, start, written + 1) = Append(sent, wbuf)
      BY <2>3, <3>1, <3>2, <3>4
    <3>6. ReadFile(d, start, written) = sent
      BY <1>4, <1>6, <1>7, <2>3, <3>3
    <3> QED
      BY <2>4, <3>5, <3>6
  <2>5. CASE s = "patched"
    <3>1. Filled(d, n, ch, Patched) /\ written > 0
      BY <1>3, <2>5 DEF DataOK, PlaceOK
    <3>2. CASE wbuf \in Sector
      <4>1. Patched \in Seq(Sector) /\ Len(Patched) = Len(sent)
        BY <3>2, PatchedFacts
      <4> QED
        BY <1>4, <1>6, <2>3, <2>5, <3>1, <4>1
    <3> QED
      BY <2>5, <3>2
  <2>6. CASE s \notin {"stored", "patched"}
    <3>1. Filled(d, n, ch, sent)
      BY <1>3, <2>6 DEF DataOK
    <3> QED
      BY <1>4, <1>6, <1>7, <2>3, <2>6, <3>1
  <2> QED
    BY <2>4, <2>5, <2>6
<1> QED
  BY <1>8, <1>9

-----------------------------------------------------------------------------
(* A volume that says it is clean.                                         *)

\* The slots of the directory are in a line, and the one after slot is the
\* first behind it.
LEMMA PlaceOrder ==
  ASSUME Types, NEW p \in Place, p # slot
  PROVE  /\ Before(p, slot) \/ Before(slot, p)
         /\ Before(p, slot) => ~IsNext(p)
         /\ Before(slot, p) => \E x \in Place : IsNext(x) /\ (x = p \/ Before(x, p))
<1>1. slot \in Place
  BY SlotFacts
<1>2. PICK a \in 0 .. SPC - 1, b \in 0 .. SlotsPerSec - 1 : p = <<a, b>>
  BY DEF Place
<1>3. PICK r \in 0 .. SPC - 1, t \in 0 .. SlotsPerSec - 1 : slot = <<r, t>>
  BY <1>1 DEF Place
<1>4. /\ SPC \in Nat /\ SlotsPerSec \in Nat /\ SlotsPerSec > 0
      /\ p[1] = a /\ p[2] = b /\ slot[1] = r /\ slot[2] = t
  BY <1>2, <1>3, VolumeAssumption
<1>5. Before(p, slot) \/ Before(slot, p)
  BY <1>2, <1>3, <1>4 DEF Before
<1>6. Before(p, slot) => ~IsNext(p)
  BY <1>4 DEF Before, IsNext
<1>7. ASSUME Before(slot, p)
      PROVE  \E x \in Place : IsNext(x) /\ (x = p \/ Before(x, p))
  <2>1. CASE t = SlotsPerSec - 1
    <3>1. r + 1 <= a
      BY <1>4, <1>7, <2>1 DEF Before
    <3>2. <<r + 1, 0>> \in Place
      BY <1>4, <3>1 DEF Place
    <3>3. IsNext(<<r + 1, 0>>)
      BY <1>4, <2>1 DEF IsNext, LastInSector
    <3>4. <<r + 1, 0>> = p \/ Before(<<r + 1, 0>>, p)
      BY <1>2, <1>4, <3>1 DEF Before
    <3> QED
      BY <3>2, <3>3, <3>4
  <2>2. CASE t # SlotsPerSec - 1
    <3>1. <<r, t + 1>> \in Place
      BY <1>4, <2>2 DEF Place
    <3>2. IsNext(<<r, t + 1>>)
      BY <1>4, <2>2 DEF IsNext, LastInSector
    <3>3. <<r, t + 1>> = p \/ Before(<<r, t + 1>>, p)
      BY <1>2, <1>4, <1>7 DEF Before
    <3> QED
      BY <3>1, <3>2, <3>3
  <2> QED
    BY <2>1, <2>2
<1> QED
  BY <1>5, <1>6, <1>7

\* A whole card shows one entry more than the old one, the new log's.
LEMMA OneNewEntry ==
  ASSUME Types, NEW d, Mounted, Marked(d), NEW size, Entered(d, size)
  PROVE  {p \in Seen(d) : p \notin Seen(base) \/ d.dir[p] # base.dir[p]} = {slot}
<1>1. slot \in Place /\ d.dir[slot].kind = "log" /\ base.dir[slot].kind \in {"end", "deleted"}
  BY SlotFacts DEF Entered, Slot, Mounted
<1>2. ASSUME NEW p \in Place, Before(p, slot)
      PROVE  p \in Seen(base) /\ d.dir[p] = base.dir[p] /\ d.dir[p].kind # "end"
  <2>1. p # slot
    <3>1. ~Before(slot, slot)
      BY <1>1, VolumeAssumption DEF Before, Place
    <3> QED
      BY <1>2, <3>1
  <2>2. ~IsNext(p) /\ p \in Seen(base)
    BY <1>2, <2>1, PlaceOrder DEF Mounted
  <2>3. base.dir[p].kind # "end"
    BY <2>2 DEF Seen
  <2> QED
    BY <2>1, <2>2, <2>3 DEF Entered
<1>3. slot \in Seen(d)
  BY <1>1, <1>2 DEF Seen
<1>4. ASSUME NEW p \in Seen(d), p # slot, p \notin Seen(base) \/ d.dir[p] # base.dir[p]
      PROVE  FALSE
  <2>1. p \in Place /\ \A q \in Place : (q = p \/ Before(q, p)) => d.dir[q].kind # "end"
    BY DEF Seen
  <2>2. CASE is_end
    <3>1. ~Before(p, slot)
      BY <1>2, <1>4, <2>1
    <3>2. PICK x \in Place : IsNext(x) /\ (x = p \/ Before(x, p))
      BY <1>4, <2>1, <3>1, PlaceOrder
    <3>3. d.dir[x].kind = "end"
      BY <2>2, <3>2 DEF Marked, End, Slot
    <3> QED
      BY <2>1, <3>2, <3>3
  <2>3. CASE ~is_end
    <3>1. \A q \in Place : q # slot => d.dir[q] = base.dir[q]
      BY <2>3 DEF Entered
    <3>2. p \notin Seen(base)
      BY <1>4, <2>1, <3>1
    <3>3. PICK q \in Place : (q = p \/ Before(q, p)) /\ base.dir[q].kind = "end"
      BY <2>1, <3>2 DEF Seen
    <3>4. q # slot
      BY <2>3, <3>3 DEF Mounted
    <3> QED
      BY <2>1, <3>1, <3>3, <3>4
  <2> QED
    BY <2>2, <2>3
<1> QED
  BY <1>1, <1>3, <1>4 DEF Mounted

\* The clusters that changed hands are those of the new log's chain.
LEMMA ChainIsMine ==
  ASSUME Types, NEW d, Mounted, NEW n \in Nat \ {0}, NEW ch \in [1 .. n -> Cluster], Chain(n, ch),
         Held(d.fat[1], n, ch, {})
  PROVE  /\ {c \in Cluster : d.fat[1][c] # base.fat[1][c]} = {Nth(d, start)[m] : m \in 0 .. n - 1}
         /\ Nth(d, start)[n] = EOC
<1>1. /\ ch[1] = start /\ \A i, j \in 1 .. n : ch[i] = ch[j] => i = j
      /\ \A i \in 1 .. n : base.fat[1][ch[i]] = Free
  BY DEF Chain
<1>2. /\ \A c \in Cluster : (\A i \in 1 .. n : c # ch[i]) => d.fat[1][c] = base.fat[1][c]
      /\ \A i \in 1 .. n : d.fat[1][ch[i]] = IF i < n THEN ch[i + 1] ELSE EOC
  BY DEF Held
<1>3. n < Last
  BY <1>1, ChainBound
<1>4. /\ \A i \in 0 .. n - 1 : Nth(d, start)[i] = ch[i + 1]
      /\ Nth(d, start)[n] = EOC
  BY <1>1, <1>2, <1>3, NthFacts
<1>5. ASSUME NEW i \in 1 .. n
      PROVE  ch[i] \in Cluster /\ d.fat[1][ch[i]] # base.fat[1][ch[i]]
  <2>1. base.fat[1][ch[i]] = Free
    BY <1>1
  <2>2. d.fat[1][ch[i]] # Free
    <3>1. CASE i < n
      BY <1>2, <3>1, Constants, i + 1 \in 1 .. n
    <3>2. CASE i = n
      BY <1>2, <3>2, Constants
    <3> QED
      BY <3>1, <3>2
  <2> QED
    BY <2>1, <2>2
<1>6. ASSUME NEW c \in Cluster, d.fat[1][c] # base.fat[1][c]
      PROVE  c \in {Nth(d, start)[m] : m \in 0 .. n - 1}
  <2>1. PICK i \in 1 .. n : c = ch[i]
    BY <1>2, <1>6
  <2>2. i - 1 \in 0 .. n - 1 /\ (i - 1) + 1 = i
    OBVIOUS
  <2> QED
    BY <1>4, <2>1, <2>2
<1>7. ASSUME NEW m \in 0 .. n - 1
      PROVE  /\ Nth(d, start)[m] \in Cluster
             /\ d.fat[1][Nth(d, start)[m]] # base.fat[1][Nth(d, start)[m]]
  BY <1>4, <1>5, m + 1 \in 1 .. n
<1> QED
  BY <1>4, <1>6, <1>7

\* Once the volume says it is clean, its log is what was handed over.
LEMMA CleanReads ==
  ASSUME LogInv, disk.clean[1], NEW size, Entered(disk, size), phase \in {"CLOSING", "DONE"}
  PROVE  ReadFile(disk, start, size) = sent
<1>1. Types /\ Control /\ Stage
  BY DEF LogInv
<1>2. PICK s \in Late : Good(disk, s)
  <2>1. CASE phase = "DONE"
    BY <1>1, <2>1 DEF Stage, Late
  <2>2. CASE phase = "CLOSING"
    <3>1. sub \in Committed \cup {"cdir"} /\ sub \in Writes /\ (sub \in Second => NumFats = 2)
      BY <1>1, <2>2, WritesAre DEF Control
    <3>2. Good(disk, sub) \/ Good(disk, Past(sub))
      BY <1>1, <3>1 DEF Stage
    <3>3. Past(sub) \in Late
      BY <3>1, PastIs
    <3>4. ~Good(disk, "cdir")
      BY DEF Good, At, CleanOK
    <3> QED
      BY <3>1, <3>2, <3>3, <3>4 DEF Late
  <2> QED
    BY <2>1, <2>2
<1>3. s \notin Preparing /\ s \notin {"stored", "patched"}
  BY DEF Late, Committed, Preparing
<1>4. ReadFile(disk, start, written) = sent
  BY <1>1, <1>2, <1>3, GoodReads
<1>5. Entered(disk, written)
  BY <1>1, <1>2, DirCases DEF Good, At
<1>6. size = written
  BY <1>5 DEF Entered, Slot
<1> QED
  BY <1>4, <1>6

\* A volume that says it is clean holds no trace of an unfinished session.
THEOREM CleanIsWhole == Spec => []CleanMeansWhole
<1>1. ASSUME LogInv, disk.clean[1]
      PROVE  CleanMeansWhole
  <2>1. Types
    BY <1>1 DEF LogInv
  <2>2. ASSUME NEW k \in Fats
        PROVE  disk.fat[k] = disk.fat[1]
    <3>1. disk.fat[k] \in [Cluster -> Entry] /\ disk.fat[1] \in [Cluster -> Entry]
      BY <2>1, Constants DEF Types, Volume
    <3>2. \A c \in Cluster : disk.fat[k][c] = disk.fat[1][c]
      BY <1>1, CleanAgrees DEF Same
    <3> HIDE DEF Entry
    <3> QED
      BY <3>1, <3>2
  <2> DEFINE new  == {p \in Seen(disk) : p \notin Seen(base) \/ disk.dir[p] # base.dir[p]}
             mine == {c \in Cluster : disk.fat[1][c] # base.fat[1][c]}
  <2>3. CASE disk = base
    <3>1. new = {} /\ mine = {}
      BY <2>3
    <3> QED
      BY <2>2, <3>1 DEF CleanMeansWhole
  <2>4. CASE Whole(disk)
    <3>1. Mounted /\ Marked(disk)
      BY <2>4 DEF Whole
    <3>2. PICK size \in 1 .. MaxSectors : \E n \in Nat \ {0} : \E ch \in [1 .. n -> Cluster] :
             /\ Entered(disk, size) /\ n = Clusters(size)
             /\ Chain(n, ch) /\ \A k \in Fats : Held(disk.fat[k], n, ch, {})
      BY <2>4 DEF Whole
    <3>3. PICK n \in Nat \ {0} : \E ch \in [1 .. n -> Cluster] :
             /\ Entered(disk, size) /\ n = Clusters(size)
             /\ Chain(n, ch) /\ \A k \in Fats : Held(disk.fat[k], n, ch, {})
      BY <3>2
    <3>4. PICK ch \in [1 .. n -> Cluster] :
             /\ Entered(disk, size) /\ n = Clusters(size)
             /\ Chain(n, ch) /\ \A k \in Fats : Held(disk.fat[k], n, ch, {})
      BY <3>3
    <3>5. new = {slot}
      BY <2>1, <3>1, <3>4, OneNewEntry
    <3>6. /\ mine = {Nth(disk, start)[m] : m \in 0 .. n - 1}
          /\ Nth(disk, start)[n] = EOC
      BY <2>1, <3>1, <3>4, Constants, ChainIsMine
    <3>7. phase \in {"CLOSING", "DONE"} => ReadFile(disk, start, size) = sent
      BY <1>1, <3>4, CleanReads
    <3>8. /\ disk.dir[slot].kind = "log" /\ disk.dir[slot].num = num
          /\ disk.dir[slot].start = start /\ disk.dir[slot].size = size
      BY <3>4 DEF Entered, Slot
    <3>9. num \notin {base.dir[q].num : q \in Seen(base)}
      BY <3>1 DEF Mounted
    <3> HIDE DEF new, mine
    <3>10. ASSUME NEW p \in new
           PROVE  LET e == disk.dir[p] IN
                /\ new = {p} /\ e.kind = "log" /\ e.size > 0
                /\ e.num \notin {base.dir[q].num : q \in Seen(base)}
                /\ mine = {Nth(disk, e.start)[m] : m \in 0 .. Clusters(e.size) - 1}
                /\ Nth(disk, e.start)[Clusters(e.size)] = EOC
                /\ phase \in {"CLOSING", "DONE"} => ReadFile(disk, e.start, e.size) = sent
      BY <3>4, <3>5, <3>6, <3>7, <3>8, <3>9
    <3>11. new # {}
      BY <3>5
    <3> QED
      BY <2>2, <3>10, <3>11 DEF CleanMeansWhole, new, mine
  <2> QED
    BY <1>1, <2>3, <2>4 DEF LogInv, Safe, CleanCases
<1>2. LogInv => CleanMeansWhole
  BY <1>1 DEF CleanMeansWhole
<1> QED
  BY <1>2, LogInvariant, PTL

-----------------------------------------------------------------------------
(* The writer implements LogFile.                                          *)

\* What LogFile's variables stand for.
Op      == IF phase # "WRITING" THEN "none" ELSE IF sub = "patch" THEN "patch" ELSE "append"
Pend    == IF phase = "WRITING" THEN wbuf ELSE None
Content == ReadFile(disk, start, written)

\* A reader depends on the card, the first cluster and the length only.
LEMMA ContentFrame ==
  /\ Content' = ReadFile(disk', start', written')
  /\ UNCHANGED <<disk, start, written>> => Content' = Content
  /\ written = 0 => Content = <<>>
  /\ written' = 0 => Content' = <<>>
<1>1. Content' = ReadFile(disk', start', written')
  BY DEF Content, ReadFile, Nth
<1>2. ASSUME NEW d, NEW c PROVE ReadFile(d, c, 0) = <<>>
  BY DEF ReadFile
<1> QED
  BY <1>1, <1>2 DEF Content

\* LogFile's actions, for the writer.
LEMMA FileStutter ==
  ASSUME phase' = phase, short' = short, Op' = Op, Pend' = Pend, Content' = Content
  PROVE  UNCHANGED File!vars
  BY DEF File!vars, Op, Pend, Content

LEMMA FileFail ==
  ASSUME phase \in {"PREPARING", "WRITING", "CLOSING"}, SetError,
         UNCHANGED <<disk, start, written, short>>
  PROVE  File!Next
<1>1. Content' = Content
  BY ContentFrame
<1>2. File!Fail
  BY <1>1 DEF File!Fail, File!Working, File!Idle, SetError, Content
<1> QED
  BY <1>2 DEF File!Next

LEMMA FileStored ==
  ASSUME phase = "WRITING", phase' = "READY", short' = short,
         Content' = IF sub # "patch" THEN Append(Content, wbuf) ELSE [Content EXCEPT ![1] = wbuf]
  PROVE  File!Next
<1>1. File!Stored
  BY DEF File!Stored, File!Idle, Content
<1> QED
  BY <1>1 DEF File!Next

LEMMA FileOverwrite ==
  ASSUME phase = "WRITING", sub = "patch", UNCHANGED <<phase, sub, short, wbuf>>,
         Content' = [Content EXCEPT ![1] = wbuf]
  PROVE  File!Next
<1>1. File!Overwrite
  BY DEF File!Overwrite, Content
<1> QED
  BY <1>1 DEF File!Next

LEMMA FileMoves ==
  ASSUME UNCHANGED <<short, disk, start, written>>,
         \/ phase = "PREPARING" /\ phase' = "READY"
         \/ phase = "CLOSING" /\ phase' = "DONE"
  PROVE  File!Next
<1>1. Content' = Content
  BY ContentFrame
<1>2. File!Prepared \/ File!Closed
  BY <1>1 DEF File!Prepared, File!Closed, Content
<1> QED
  BY <1>2 DEF File!Next

\* The steps of the writer, mapped.
LEMMA MountMaps ==
  ASSUME LogInv, Mount
  PROVE  File!Next \/ UNCHANGED File!vars
<1>1. phase = "PREPARING" /\ written = 0 /\ sub = "mount"
  BY Busy DEF LogInv, Stage, Mount
<1>2. CASE Mountable
  <2>1. UNCHANGED <<phase, written, short>>
    BY <1>2 DEF Mount, dataVars
  <2>2. Content' = Content
    BY <1>1, <2>1, ContentFrame
  <2>3. Op' = Op /\ Pend' = Pend
    BY <1>1, <2>1 DEF Op, Pend
  <2> QED
    BY <2>1, <2>2, <2>3, FileStutter
<1>3. CASE ~Mountable
  BY <1>1, <1>3, FileFail DEF Mount, fileVars, dataVars
<1> QED
  BY <1>2, <1>3

LEMMA WriteSectorMaps ==
  ASSUME LogInv, WriteSector
  PROVE  File!Next \/ UNCHANGED File!vars
<1>1. sub \in Writes /\ ~verify_due
  BY DEF WriteSector
<1>2. /\ Types /\ Good(disk, sub) /\ (sub \in Second => NumFats = 2)
      /\ sub = "dirnext" => NeedNext
  BY <1>1 DEF LogInv, Stage, Control
<1>3. /\ sub \in Preparing => phase = "PREPARING"
      /\ sub \in Linking \cup {"data", "patch"} => phase = "WRITING"
      /\ sub \in Committed \cup {"cdir"} => phase = "CLOSING"
  BY Busy DEF Writing
<1>4. phase \in {"PREPARING", "WRITING", "CLOSING"}
  BY <1>1, <1>3, WritesAre
<1>5. wbuf \in Sector \/ sub \notin DataWrite
  BY <1>3 DEF LogInv, Stage, DataWrite
<1>6. CASE ~Precheck
  <2> HIDE DEF Precheck
  <2> QED
    BY <1>4, <1>6, FileFail DEF WriteSector, fileVars, dataVars
<1>7. CASE Precheck
  <2>1. UNCHANGED <<phase, sub, start, written, short, wbuf>> /\ disk' \in {disk, Image}
    BY <1>7 DEF WriteSector, fileVars, dataVars
  <2>2. Op' = Op /\ Pend' = Pend
    BY <2>1 DEF Op, Pend
  <2>3. CASE disk' = disk
    <3>1. Content' = Content
      BY <2>1, <2>3, ContentFrame
    <3> QED
      BY <2>1, <2>2, <3>1, FileStutter
  <2>4. CASE sub \in Preparing
    <3>1. written = 0
      <4>1. PICK n \in Nat \ {0} : \E ch \in [1 .. n -> Cluster] : At(disk, sub, n, ch)
        BY <1>2 DEF Good
      <4>2. n = 1 /\ off = 0 /\ written = (n - 1) * SPC + off
        BY <2>4, <4>1 DEF At, PlaceOK
      <4> QED
        BY <4>2, VolumeAssumption
    <3>2. Content' = Content
      BY <2>1, <3>1, ContentFrame
    <3> QED
      BY <2>1, <2>2, <3>2, FileStutter
  <2>5. CASE disk' = Image /\ sub \notin Preparing
    <3>1. Good(Image, Past(sub))
      BY <1>1, <1>2, <1>5, GoodStep
    <3> HIDE DEF Image
    <3>2. /\ Past(sub) \notin Preparing /\ (Past(sub) = "patched" <=> sub = "patch")
          /\ Past(sub) \in {"stored", "patched"} => sub \in DataWrite
          /\ sub \notin {"stored", "patched"}
      BY <1>1, <1>2, <2>5, PastIs, AfterFacts, WritesAre
      DEF Preparing, Linking, Committed, Late, DataWrite
    <3>3. Content = sent
      BY <1>2, <2>5, <3>2, GoodReads DEF Content
    <3>4. /\ sub # "patch" => Content' = sent
          /\ sub = "patch" => Content' = Patched
      <4>1. Content' = ReadFile(Image, start, written)
        BY <2>1, <2>5, ContentFrame
      <4> QED
        BY <1>2, <1>5, <3>1, <3>2, <4>1, GoodReads
    <3>5. CASE sub = "patch"
      <4>1. Content' = [Content EXCEPT ![1] = wbuf]
        BY <3>3, <3>4, <3>5 DEF Patched
      <4> QED
        BY <1>3, <2>1, <3>5, <4>1, FileOverwrite
    <3>6. CASE sub # "patch"
      BY <2>1, <2>2, <3>3, <3>4, <3>6, FileStutter
    <3> QED
      BY <3>5, <3>6
  <2> QED
    BY <2>1, <2>3, <2>4, <2>5
<1> QED
  BY <1>6, <1>7

LEMMA VerifyMaps ==
  ASSUME LogInv, Verify
  PROVE  File!Next \/ UNCHANGED File!vars
<1>1. /\ verify_due /\ sub \in Writes /\ Types /\ (sub \in Second => NumFats = 2)
  BY DEF Verify, LogInv, Control
<1>2. /\ sub \in Preparing => phase = "PREPARING"
      /\ sub \in Linking \cup {"data", "patch"} => phase = "WRITING"
      /\ sub \in Committed \cup {"cdir"} => phase = "CLOSING"
  BY Busy DEF Writing
<1>3. UNCHANGED <<disk, start, short, wbuf>>
  BY DEF Verify
<1>4. CASE ~Verified
  <2>1. phase \in {"PREPARING", "WRITING", "CLOSING"}
    BY <1>1, <1>2, WritesAre
  <2> QED
    BY <1>3, <1>4, <2>1, FileFail DEF Verify
<1>5. CASE Verified
  <2>1. /\ sub' = IF After[sub] \in {"ready", "done"} THEN "idle" ELSE After[sub]
        /\ phase' = CASE After[sub] = "ready" -> "READY"
                      [] After[sub] = "done" -> "DONE"
                      [] OTHER -> phase
        /\ written' = IF sub = "data" THEN written + 1 ELSE written
    BY <1>5 DEF Verify, Advance
  <2>2. Good(disk, Past(sub))
    BY <1>1, <1>5 DEF LogInv, Stage, Verified
  <2>3. CASE sub \in {"data", "patch"}
    <3>1. phase = "WRITING" /\ phase' = "READY" /\ wbuf \in Sector
      <4>1. After[sub] = "ready" /\ phase = "WRITING"
        BY <1>1, <1>2, <2>3, AfterIs
      <4> QED
        BY <2>1, <4>1 DEF LogInv, Stage
    <3>2. Content' = IF sub # "patch" THEN Append(Content, wbuf) ELSE [Content EXCEPT ![1] = wbuf]
      <4>1. CASE sub = "data"
        <5>1. Good(disk, "stored") /\ "stored" \notin Preparing
          BY <2>2, <4>1, PastFacts DEF Preparing
        <5>2. /\ ReadFile(disk, start, written) = sent
              /\ ReadFile(disk, start, written + 1) = Append(sent, wbuf)
          BY <1>1, <3>1, <5>1, GoodReads
        <5>3. Content' = ReadFile(disk, start, written + 1)
          BY <1>3, <2>1, <4>1, ContentFrame
        <5> QED
          BY <4>1, <5>2, <5>3 DEF Content
      <4>2. CASE sub = "patch"
        <5>1. Good(disk, "patched") /\ "patched" \notin Preparing
          BY <2>2, <4>2, PastFacts DEF Preparing
        <5>2. Content = Patched
          BY <1>1, <3>1, <5>1, GoodReads DEF Content
        <5>3. Content' = Content
          BY <1>3, <2>1, <4>2, ContentFrame
        <5>4. Patched = [Patched EXCEPT ![1] = wbuf]
          BY <1>1 DEF Patched, Types
        <5> QED
          BY <4>2, <5>2, <5>3, <5>4
      <4> QED
        BY <2>3, <4>1, <4>2
    <3> QED
      BY <1>3, <3>1, <3>2, FileStored
  <2>4. CASE sub \notin {"data", "patch"}
    <3>1. written' = written /\ Content' = Content
      BY <1>3, <2>1, <2>4, ContentFrame
    <3>2. CASE sub \in Linking
      <4>1. After[sub] \in Linking \cup {"data"} /\ phase = "WRITING"
        BY <1>1, <1>2, <3>2, AfterIs
      <4>2. phase' = phase /\ sub' # "patch"
        BY <2>1, <4>1 DEF Linking
      <4>3. Op' = Op /\ Pend' = Pend
        BY <1>3, <2>4, <4>2 DEF Op, Pend
      <4> QED
        BY <1>3, <3>1, <4>2, <4>3, FileStutter
    <3>3. CASE sub \in Preparing \cup Committed \cup {"cdir"}
      <4>1. \/ phase = "PREPARING" /\ phase' \in {"PREPARING", "READY"}
            \/ phase = "CLOSING" /\ phase' \in {"CLOSING", "DONE"}
        <5>1. CASE sub \in Preparing
          <6>1. After[sub] \in Preparing \cup {"ready"} /\ phase = "PREPARING"
            BY <1>1, <1>2, <5>1, AfterIs
          <6> QED
            BY <2>1, <6>1 DEF Preparing
        <5>2. CASE sub \in Committed \cup {"cdir"}
          <6>1. After[sub] \in Committed \cup {"done"} /\ phase = "CLOSING"
            BY <1>1, <1>2, <5>2, AfterIs
          <6> QED
            BY <2>1, <6>1 DEF Committed
        <5> QED
          BY <3>3, <5>1, <5>2
      <4>2. CASE phase' = phase
        <5>1. Op' = Op /\ Pend' = Pend
          BY <4>1, <4>2 DEF Op, Pend
        <5> QED
          BY <1>3, <3>1, <4>2, <5>1, FileStutter
      <4>3. CASE phase' # phase
        BY <1>3, <3>1, <4>1, <4>3, FileMoves
      <4> QED
        BY <4>2, <4>3
    <3> QED
      BY <1>1, <2>4, <3>2, <3>3, WritesAre
  <2> QED
    BY <2>3, <2>4
<1> QED
  BY <1>4, <1>5

LEMMA CheckClusterMaps ==
  ASSUME LogInv, CheckCluster
  PROVE  File!Next \/ UNCHANGED File!vars
<1>1. phase = "WRITING" /\ sub = "check"
  BY Busy DEF CheckCluster
<1>2. UNCHANGED <<disk, start, written, short, wbuf>>
  BY DEF CheckCluster, dataVars
<1>3. CASE off < SPC \/ Scan(alloc_hint) \in Cluster
  <2>1. phase' = phase /\ sub' # "patch"
    BY <1>3 DEF CheckCluster
  <2>2. Op' = Op /\ Pend' = Pend /\ Content' = Content
    BY <1>1, <1>2, <2>1, ContentFrame DEF Op, Pend
  <2> QED
    BY <1>2, <2>1, <2>2, FileStutter
<1>4. CASE ~(off < SPC \/ Scan(alloc_hint) \in Cluster)
  BY <1>1, <1>2, <1>4, FileFail DEF CheckCluster
<1> QED
  BY <1>3, <1>4

LEMMA CallMaps ==
  ASSUME LogInv, Calls
  PROVE  File!Next
<1>1. CASE Start
  <2>1. Content' = <<>>
    BY <1>1, ContentFrame DEF Start
  <2>2. File!Start
    BY <1>1, <2>1 DEF Start, File!Start, File!Idle, Content
  <2> QED
    BY <2>2 DEF File!Next
<1>2. ASSUME NEW last \in BOOLEAN, Write(last)
      PROVE  File!Next
  <2>1. /\ phase = "READY" /\ ~short /\ phase' = "WRITING" /\ sub' = "check"
        /\ wbuf' = written + 1 /\ short' = last /\ written < MaxSectors
        /\ UNCHANGED <<disk, start, written>>
    BY <1>2 DEF Write, fileVars
  <2>2. wbuf' \in Sector
    BY <2>1, VolumeAssumption DEF LogInv, Types, TypeOK, Sector
  <2>3. Content' = Content
    BY <2>1, ContentFrame
  <2>4. File!Write(wbuf', last)
    BY <2>1, <2>3 DEF File!Write, Content
  <2> QED
    BY <2>1, <2>2, <2>4 DEF File!Next
<1>3. ASSUME phase = "READY", written > 0
      PROVE  Content # <<>>
  <2>1. Types /\ Good(disk, "ready")
    BY <1>3 DEF LogInv, Stage
  <2>2. Content = sent
    BY <2>1, GoodReads DEF Content, Preparing
  <2>3. Len(sent) = written
    BY <2>1 DEF Good, At, PlaceOK
  <2> QED
    BY <1>3, <2>1, <2>2, <2>3 DEF Types
<1>4. CASE Rewrite
  <2>1. /\ phase = "READY" /\ written > 0 /\ phase' = "WRITING" /\ sub' = "patch"
        /\ wbuf' = Patch /\ UNCHANGED <<disk, start, written, short>>
    BY <1>4 DEF Rewrite, fileVars
  <2>2. wbuf' \in Sector
    BY <2>1, VolumeAssumption DEF Sector, Patch
  <2>3. Content' = Content /\ Content # <<>>
    BY <1>3, <2>1, ContentFrame
  <2>4. File!Rewrite(wbuf')
    BY <2>1, <2>3 DEF File!Rewrite, Content
  <2> QED
    BY <2>2, <2>4 DEF File!Next
<1>5. CASE Close
  <2>1. /\ phase = "READY" /\ written > 0 /\ phase' = "CLOSING"
        /\ UNCHANGED <<disk, start, written, short>>
    BY <1>5 DEF Close, fileVars, dataVars
  <2>2. Content' = Content /\ Content # <<>>
    BY <1>3, <2>1, ContentFrame
  <2>3. File!Close
    BY <2>1, <2>2 DEF File!Close, Content
  <2> QED
    BY <2>3 DEF File!Next
<1> QED
  BY <1>1, <1>2, <1>4, <1>5 DEF Calls

LEMMA PowerLossMaps ==
  ASSUME PowerLoss
  PROVE  File!Next
<1>1. Content' = <<>>
  BY ContentFrame DEF PowerLoss
<1>2. File!Forget
  BY <1>1 DEF PowerLoss, File!Forget, File!Idle, Content
<1> QED
  BY <1>2 DEF File!Next

\* The writer implements the file it promises: every step is one of LogFile's or
\* changes nothing a caller or a reader of the card can see.
THEOREM ImplementsLogFile == Spec => Refines
<1>1. Init => File!Init
  <2> SUFFICES ASSUME Init PROVE File!Init
    OBVIOUS
  <2>1. phase = "IDLE" /\ short = FALSE /\ written = 0
    BY DEF Init
  <2>2. Content = <<>>
    BY <2>1, ContentFrame
  <2> QED
    BY <2>1, <2>2 DEF File!Init, File!At, Content
<1>2. LogInv /\ [Next]_vars => [File!Next]_File!vars
  <2> SUFFICES ASSUME LogInv, [Next]_vars
               PROVE  File!Next \/ UNCHANGED File!vars
    OBVIOUS
  <2>1. CASE Card
    BY <2>1, MountMaps, WriteSectorMaps, VerifyMaps, CheckClusterMaps DEF Card
  <2>2. CASE Calls
    BY <2>2, CallMaps
  <2>3. CASE IoError
    BY <2>3, FileFail DEF IoError, fileVars, dataVars
  <2>4. CASE PowerLoss
    BY <2>4, PowerLossMaps
  <2>5. CASE UNCHANGED vars
    <3>1. UNCHANGED <<phase, sub, disk, start, written, short, wbuf>>
      BY <2>5 DEF vars, ioVars, fileVars, dataVars
    <3>2. Op' = Op /\ Pend' = Pend /\ Content' = Content
      BY <3>1, ContentFrame DEF Op, Pend
    <3> QED
      BY <3>1, <3>2, FileStutter
  <2> QED
    BY <2>1, <2>2, <2>3, <2>4, <2>5 DEF Next
<1> QED
  BY <1>1, <1>2, LogInvariant, PTL DEF Spec, Refines, File!Spec
=============================================================================
