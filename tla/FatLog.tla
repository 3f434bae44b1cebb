------------------------------- MODULE FatLog -------------------------------
(***************************************************************************)
(* The FAT32 log-file writer (drivers/fat32_log.c): a polled state machine *)
(* that mounts a volume, marks it dirty, creates one file, appends sectors *)
(* to it, rewrites its first sector and closes it.                         *)
(*                                                                         *)
(* The card belongs to the writer for the whole session, so the sectors it *)
(* reads between two writes are read in the step that uses them.  What     *)
(* remains is one write of one sector at a time: WriteSector hands it to   *)
(* the card, which may store it or lose it; Verify reads it back.  Power   *)
(* may be lost, and a transfer may fail, between any two of these steps.   *)
(***************************************************************************)
EXTENDS Integers, Sequences, FiniteSets, FiniteSetsExt

CONSTANTS
    NumFats,     \* BPB_NumFATs, 1 or 2
    Backup,      \* TRUE when the volume has a backup boot sector
    Last,        \* the last cluster number (total_clusters + 1)
    PerSec,      \* FAT entries in a sector (128)
    SPC,         \* sectors_per_cluster
    SlotsPerSec, \* directory slots in a sector (16)
    MaxName,     \* the last log number (1023)
    MaxSectors   \* bound: sectors a session writes

ASSUME VolumeAssumption ==
    /\ NumFats \in {1, 2} /\ Backup \in BOOLEAN
    /\ Last \in Nat /\ Last >= 2 /\ PerSec \in Nat \ {0}
    /\ SPC \in Nat \ {0} /\ SlotsPerSec \in Nat \ {0}
    /\ MaxName \in Nat \ {0} /\ MaxSectors \in Nat \ {0}

Cluster == 2 .. Last
Free    == 0
EOC     == Last + 1
Root    == 2           \* the root directory's only cluster
Unknown == 0           \* FSInfo without a next-free hint (0xFFFFFFFF)

Fats    == 1 .. NumFats
FatSecs == Last \div PerSec + 1
SecOf(c) == c \div PerSec
Place   == (0 .. SPC - 1) \X (0 .. SlotsPerSec - 1)   \* a root directory slot
Before(p, q) == p[1] < q[1] \/ (p[1] = q[1] /\ p[2] < q[2])

\* Sector contents: 0 is what was on the card before, 1 .. MaxSectors the log
\* in the order it was handed over, MaxSectors + 1 the rewritten first sector.
Old    == 0
Sector == 1 .. MaxSectors + 1
Patch  == MaxSectors + 1
None   == 0

Slot(kind, num, start, size) ==
    [kind |-> kind, num |-> num, start |-> start, size |-> size]
End     == Slot("end", 0, 0, 0)
Deleted == Slot("deleted", 0, 0, 0)
Other   == Slot("other", 0, 0, 0)
Stale   == Slot("stale", 0, 0, 0)   \* what a slot after the end marker may hold

VARIABLES
    disk,        \* fat, clean (bit 27 of FAT[1], per copy), dir, data, hint, bhint
    phase,       \* fatlog_t.phase
    sub,         \* fatlog_t.substate, one per sector that is written
    verify_due,  \* a write has been handed to the card and not been read back
    expect,      \* verify_buf, as the whole card it should leave
    start,       \* start_cluster
    cur,         \* current_cluster
    off,         \* cluster_sec_offset
    link,        \* link_new_cluster
    alloc_hint,
    slot,        \* target_dir_lba and target_dir_offset
    is_end,      \* target_dir_is_end
    num,         \* bfl_number
    wbuf,        \* write_buf
    short,       \* is_short_final
    written,     \* bytes_written, in sectors
    \* history
    base,        \* the card when the session started
    sent         \* the sectors handed over and stored

ioVars   == <<sub, verify_due, expect>>
fileVars == <<start, cur, off, link, alloc_hint, slot, is_end, num>>
dataVars == <<wbuf, short, written>>
histVars == <<base, sent>>
vars     == <<disk, phase, ioVars, fileVars, dataVars, histVars>>

-----------------------------------------------------------------------------
(* What is read from the card.                                             *)

\* Sector sec is the same in both copies of the FAT; sector 0 holds the flags.
Mirrored(sec) ==
    \A k \in Fats :
        /\ \A c \in Cluster : SecOf(c) = sec => disk.fat[k][c] = disk.fat[1][c]
        /\ sec = 0 => disk.clean[k] = disk.clean[1]

\* Mutant: only the end of a chain counts as used.
FreeInChains(sec) == {c \in Cluster : SecOf(c) = sec /\ disk.fat[1][c] # EOC}

FreeIn(sec) == {c \in Cluster : SecOf(c) = sec /\ disk.fat[1][c] = Free}

NoSpace == 0
Mismatch == 1

\* The scan for a free cluster from the sector of the hint, once around the
\* FAT: the first free cluster of the first sector that has one.
Scan(hint) ==
    LET h       == IF hint \in Cluster THEN hint ELSE 2
        sec(i)  == (SecOf(h) + i) % FatSecs
        stops   == {i \in 0 .. FatSecs - 1 : ~Mirrored(sec(i)) \/ FreeIn(sec(i)) # {}}
    IN IF stops = {} THEN NoSpace
       ELSE IF ~Mirrored(sec(Min(stops))) THEN Mismatch
       ELSE Min(FreeIn(sec(Min(stops))))

\* The slots a reader of the directory sees: those before the first end marker.
Seen(d) == {p \in Place : \A q \in Place : (q = p \/ Before(q, p)) => d.dir[q].kind # "end"}

\* The free slots the root scan meets, the end marker included.
Candidates == {p \in Place : /\ disk.dir[p].kind \in {"end", "deleted"}
                             /\ \A q \in Place : Before(q, p) => q \in Seen(disk)}

Used == {disk.dir[p].num : p \in {q \in Seen(disk) : disk.dir[q].kind = "log"}}

First(ps) == CHOOSE p \in ps : \A q \in ps : p = q \/ Before(p, q)

LastInSector(p) == p[2] = SlotsPerSec - 1

-----------------------------------------------------------------------------
(* The card after the write of each substate.                              *)

\* Copy k of the FAT with sector sec taken from f and, for sector 0, the flag b.
WithFat(k, sec, f, b) ==
    [disk EXCEPT !.fat[k] = [c \in Cluster |-> IF SecOf(c) = sec THEN f[c] ELSE @[c]],
                 !.clean[k] = IF sec = 0 THEN b ELSE @]

\* The entry of cluster c set to v in the first copy's sector, or that sector
\* copied to the second.
SetEntry(k, c, v) ==
    LET f == IF k = 1 THEN [disk.fat[1] EXCEPT ![c] = v] ELSE disk.fat[1]
    IN WithFat(k, SecOf(c), f, disk.clean[1])

SetClean(k, b) == WithFat(k, 0, disk.fat[1], b)

\* Mutant: the slot after a replaced end marker keeps what it held.
EntryImageStale == [disk EXCEPT !.dir[slot] = Slot("log", num, start, 0)]

\* The new entry, and in the same sector the end marker it replaces.
EntryImage ==
    LET marker == <<slot[1], slot[2] + 1>>
        entry  == [disk.dir EXCEPT ![slot] = Slot("log", num, start, 0)]
    IN [disk EXCEPT !.dir = IF is_end /\ ~LastInSector(slot)
                              THEN [entry EXCEPT ![marker] = End] ELSE entry]

Image ==
    CASE sub = "dirty1" -> SetClean(1, FALSE)
      [] sub = "dirty2" -> SetClean(2, FALSE)
      [] sub = "first1" -> SetEntry(1, start, EOC)
      [] sub = "first2" -> SetEntry(2, start, EOC)
      [] sub = "dir"    -> EntryImage
      [] sub = "dirnext" -> [disk EXCEPT !.dir[<<slot[1] + 1, 0>>] = End]
      [] sub \in {"fsinfo", "cfsinfo"} -> [disk EXCEPT !.hint = Unknown]
      [] sub \in {"backup", "cbackup"} -> [disk EXCEPT !.bhint = Unknown]
      [] sub = "new1"   -> SetEntry(1, link, EOC)
      [] sub = "new2"   -> SetEntry(2, link, EOC)
      [] sub = "prev1"  -> SetEntry(1, cur, link)
      [] sub = "prev2"  -> SetEntry(2, cur, link)
      [] sub = "data"   -> [disk EXCEPT !.data[<<cur, off>>] = wbuf]
      [] sub = "patch"  -> [disk EXCEPT !.data[<<start, 0>>] = wbuf]
      [] sub = "cdir"   -> [disk EXCEPT !.dir[slot].size = written]
      [] sub = "clean1" -> SetClean(1, TRUE)
      [] sub = "clean2" -> SetClean(2, TRUE)

\* The checks of the sectors read before a write; a failure is an error.
Precheck ==
    CASE sub = "first1" -> Mirrored(SecOf(start)) /\ start = Min(FreeIn(SecOf(start)))
      [] sub = "dir"    -> disk.dir[slot].kind \in {"end", "deleted"}
      [] sub = "prev1"  -> Mirrored(SecOf(cur)) /\ disk.fat[1][cur] = EOC
      [] sub = "cdir"   -> disk.dir[slot].num = num /\ disk.dir[slot].start = start
      [] sub = "clean1" -> Mirrored(0)
      [] OTHER -> TRUE

Twice(second, next) == IF NumFats = 2 THEN second ELSE next
NeedNext == is_end /\ LastInSector(slot) /\ slot[1] + 1 < SPC

\* The substate that follows each verified write.
After ==
    [dirty1 |-> Twice("dirty2", "first1"), dirty2 |-> "first1",
     first1 |-> Twice("first2", "dir"), first2 |-> "dir",
     dir |-> IF NeedNext THEN "dirnext" ELSE "fsinfo", dirnext |-> "fsinfo",
     fsinfo |-> IF Backup THEN "backup" ELSE "ready", backup |-> "ready",
     new1 |-> Twice("new2", "prev1"), new2 |-> "prev1",
     prev1 |-> Twice("prev2", "data"), prev2 |-> "data",
     data |-> "ready", patch |-> "ready",
     cdir |-> "cfsinfo", cfsinfo |-> IF Backup THEN "cbackup" ELSE "clean1",
     cbackup |-> "clean1", clean1 |-> Twice("clean2", "done"), clean2 |-> "done"]

Writes == DOMAIN After

-----------------------------------------------------------------------------
(* The volumes a session may meet: healthy, with files it does not own, free *)
(* clusters anywhere, deleted directory slots, stale bytes after the end     *)
(* marker and any next-free hint.                                            *)

\* The clusters in use form one chain in increasing order.
ChainOf(used) ==
    [c \in Cluster |->
        IF c = Root THEN EOC
        ELSE IF c \notin used THEN Free
        ELSE IF \E n \in used : n > c THEN Min({n \in used : n > c}) ELSE EOC]

\* e: the place of the end marker (or none); the slots before it.
Directory(e, slots) == [p \in Place |-> IF p = e THEN End
                                        ELSE IF Before(e, p) THEN Stale ELSE slots[p]]

Volumes ==
    {[fat |-> [k \in Fats |-> ChainOf(used)], clean |-> [k \in Fats |-> TRUE],
      dir |-> Directory(e, slots), data |-> [x \in Cluster \X (0 .. SPC - 1) |-> Old],
      hint |-> h, bhint |-> h] :
        used \in SUBSET (Cluster \ {Root}), e \in Place \cup {<<SPC, 0>>},
        slots \in {s \in [Place -> {Deleted, Other, Slot("log", 1, 0, 0)}] :
                     Cardinality({p \in Place : s[p].kind = "log"}) <= 1},
        h \in {Unknown, Last}}

Init == /\ disk \in Volumes
        /\ phase = "IDLE" /\ sub = "idle" /\ verify_due = FALSE /\ expect = disk
        /\ start = Root /\ cur = Root /\ off = 0 /\ link = Root /\ alloc_hint = 2
        /\ slot = <<0, 0>> /\ is_end = FALSE /\ num = 0
        /\ wbuf = None /\ short = FALSE /\ written = 0
        /\ base = disk /\ sent = <<>>

\* set_error()
SetError == phase' = "ERROR" /\ sub' = "idle" /\ verify_due' = FALSE

\* fatlog_start() clears the writer and reads sector 0.
Start == /\ phase \in {"IDLE", "DONE", "ERROR"}
         /\ phase' = "PREPARING" /\ sub' = "mount" /\ verify_due' = FALSE
         /\ wbuf' = None /\ short' = FALSE /\ written' = 0
         /\ base' = disk /\ sent' = <<>>
         /\ UNCHANGED <<disk, expect, fileVars>>

\* What the mount refuses before it writes: a dirty volume, unequal FAT copies,
\* a longer root chain, no name, no slot, no cluster.
Mountable == /\ disk.clean[1]
             /\ Mirrored(0) /\ Mirrored(SecOf(Root)) /\ disk.fat[1][Root] = EOC
             /\ Used # 1 .. MaxName
             /\ Candidates # {}
             /\ Scan(disk.hint) \in Cluster

\* The reads of the PREPARING phase up to the first write.
Mount ==
    /\ sub = "mount"
    /\ IF Mountable
         THEN /\ sub' = "dirty1"
              /\ start' = Scan(disk.hint) /\ cur' = Scan(disk.hint) /\ off' = 0
              /\ slot' = First(Candidates)
              /\ is_end' = (disk.dir[First(Candidates)].kind = "end")
              /\ num' = Min(1 .. MaxName \ Used)
              /\ UNCHANGED <<phase, verify_due, link, alloc_hint>>
         ELSE SetError /\ UNCHANGED fileVars
    /\ UNCHANGED <<disk, expect, dataVars, histVars>>

\* start_async_write(): the card takes the sector; whether it keeps it shows
\* only in the readback.
WriteSector ==
    /\ sub \in Writes /\ ~verify_due
    /\ IF Precheck
         THEN /\ verify_due' = TRUE /\ expect' = Image
              /\ disk' \in {disk, Image}
              /\ UNCHANGED <<phase, sub>>
         ELSE SetError /\ UNCHANGED <<disk, expect>>
    /\ UNCHANGED <<fileVars, dataVars, histVars>>

\* Mutant: the readback is not compared.
VerifiedAlways == TRUE

\* memcmp() of the sector read back with verify_buf.
Verified == disk = expect

\* What a substate's completion changes in the writer.
Advance ==
    LET linked == sub = Twice("prev2", "prev1") IN
    /\ cur' = IF linked THEN link ELSE cur
    /\ off' = IF linked THEN 0 ELSE IF sub = "data" THEN off + 1 ELSE off
    /\ alloc_hint' = IF sub = "fsinfo" THEN start + 1 ELSE IF linked THEN link + 1
                     ELSE alloc_hint
    /\ written' = IF sub = "data" THEN written + 1 ELSE written
    /\ sent' = IF sub = "data" THEN Append(sent, wbuf)
               ELSE IF sub = "patch" THEN [sent EXCEPT ![1] = wbuf] ELSE sent

\* The verifying read and the step it allows.
Verify ==
    /\ verify_due
    /\ IF Verified
         THEN /\ verify_due' = FALSE
              /\ sub' = IF After[sub] \in {"ready", "done"} THEN "idle" ELSE After[sub]
              /\ phase' = CASE After[sub] = "ready" -> "READY"
                            [] After[sub] = "done" -> "DONE"
                            [] OTHER -> phase
              /\ Advance
         ELSE SetError /\ UNCHANGED <<cur, off, alloc_hint, written, sent>>
    /\ UNCHANGED <<disk, expect, start, link, slot, is_end, num, wbuf, short, base>>

\* fatlog_write(): used < 512 makes the sector the last one.
Write(last) ==
    /\ phase = "READY" /\ ~short /\ written < MaxSectors
    /\ phase' = "WRITING" /\ sub' = "check"
    /\ wbuf' = written + 1 /\ short' = last
    /\ UNCHANGED <<disk, verify_due, expect, fileVars, written, histVars>>

\* Mutant: a full card is searched again and again.
CheckClusterWaits ==
    /\ sub = "check"
    /\ off < SPC \/ Scan(alloc_hint) \in Cluster
    /\ IF off < SPC THEN sub' = "data" /\ UNCHANGED <<phase, verify_due, link>>
       ELSE sub' = "new1" /\ link' = Scan(alloc_hint) /\ UNCHANGED <<phase, verify_due>>
    /\ UNCHANGED <<disk, expect, start, cur, off, alloc_hint, slot, is_end, num,
                   dataVars, histVars>>

\* SUB_WRITE_CHECK_CLUSTER: in a full cluster another one is searched.
CheckCluster ==
    /\ sub = "check"
    /\ IF off < SPC THEN sub' = "data" /\ UNCHANGED <<phase, verify_due, link>>
       ELSE IF Scan(alloc_hint) \in Cluster
         THEN sub' = "new1" /\ link' = Scan(alloc_hint) /\ UNCHANGED <<phase, verify_due>>
         ELSE SetError /\ UNCHANGED link
    /\ UNCHANGED <<disk, expect, start, cur, off, alloc_hint, slot, is_end, num,
                   dataVars, histVars>>

\* fatlog_rewrite_first_sector()
Rewrite ==
    /\ phase = "READY" /\ written > 0
    /\ phase' = "WRITING" /\ sub' = "patch" /\ wbuf' = Patch
    /\ UNCHANGED <<disk, verify_due, expect, fileVars, short, written, histVars>>

\* fatlog_close(): an empty file is not committed.
Close ==
    /\ phase = "READY" /\ written > 0
    /\ phase' = "CLOSING" /\ sub' = "cdir"
    /\ UNCHANGED <<disk, verify_due, expect, fileVars, dataVars, histVars>>

\* A transfer fails or takes longer than three seconds, or the volume is one
\* the mount does not support.
IoError == /\ phase \in {"PREPARING", "WRITING", "CLOSING"}
           /\ SetError
           /\ UNCHANGED <<disk, expect, fileVars, dataVars, histVars>>

\* The controller restarts; the card keeps what it has stored.
PowerLoss == /\ phase # "IDLE"
             /\ phase' = "IDLE" /\ sub' = "idle" /\ verify_due' = FALSE
             /\ wbuf' = None /\ short' = FALSE /\ written' = 0 /\ sent' = <<>>
             /\ UNCHANGED <<disk, expect, fileVars, base>>

Card == Mount \/ WriteSector \/ Verify \/ CheckCluster

Calls == Start \/ Rewrite \/ Close \/ \E last \in BOOLEAN : Write(last)

Next == Card \/ Calls \/ IoError \/ PowerLoss

Spec == Init /\ [][Next]_vars

\* The background loop polls the writer.
FairSpec == Spec /\ WF_vars(Card)

-----------------------------------------------------------------------------
(* Properties.                                                             *)

Entry == Cluster \cup {Free, EOC}
SlotType == [kind : {"end", "deleted", "other", "stale", "log"}, num : 0 .. MaxName,
             start : Cluster \cup {0}, size : 0 .. MaxSectors]

\* The type invariant.
TypeOK ==
    /\ disk.fat \in [Fats -> [Cluster -> Entry]] /\ disk.clean \in [Fats -> BOOLEAN]
    /\ disk.dir \in [Place -> SlotType]
    /\ disk.data \in [Cluster \X (0 .. SPC - 1) -> Sector \cup {Old}]
    /\ disk.hint \in Cluster \cup {Unknown} /\ disk.bhint \in Cluster \cup {Unknown}
    /\ phase \in {"IDLE", "PREPARING", "READY", "WRITING", "CLOSING", "DONE", "ERROR"}
    /\ sub \in Writes \cup {"idle", "mount", "check"}
    /\ verify_due \in BOOLEAN
    /\ start \in Cluster /\ cur \in Cluster /\ off \in 0 .. SPC /\ link \in Cluster
    /\ alloc_hint \in 2 .. Last + 1
    /\ slot \in Place /\ is_end \in BOOLEAN /\ num \in 0 .. MaxName
    /\ wbuf \in Sector \cup {None} /\ short \in BOOLEAN /\ written \in 0 .. MaxSectors

\* The n-th cluster of the chain that starts at c, in the first copy of the FAT.
Nth(d, c) ==
    LET f[n \in 0 .. Last] == IF n = 0 THEN c
                              ELSE IF f[n - 1] \in Cluster THEN d.fat[1][f[n - 1]]
                              ELSE f[n - 1]
    IN f

Clusters(n) == (n + SPC - 1) \div SPC

\* The first n sectors of the file that starts at cluster c.
ReadFile(d, c, n) ==
    [i \in 1 .. n |-> d.data[<<Nth(d, c)[(i - 1) \div SPC], (i - 1) % SPC>>]]

\* Whatever fails and whenever power is lost, every file that was on the card
\* keeps its directory entry, its chain in every copy of the FAT and its data,
\* and no copy of the FAT ever links a cluster to a free one.
Preserved ==
    /\ \A c \in Cluster : base.fat[1][c] # Free =>
          /\ \A k \in Fats : disk.fat[k][c] = base.fat[k][c]
          /\ \A o \in 0 .. SPC - 1 : disk.data[<<c, o>>] = base.data[<<c, o>>]
    /\ \A p \in Seen(base) : base.dir[p].kind # "deleted" => disk.dir[p] = base.dir[p]
    /\ \A k \in Fats : \A c \in Cluster :
          disk.fat[k][c] \in Cluster => disk.fat[k][disk.fat[k][c]] # Free

\* A volume that says it is clean holds no trace of an unfinished session: the
\* copies of the FAT agree, the directory shows the files of before and at most
\* the new log, and that log's entry, chain and data are complete.
CleanMeansWhole ==
    disk.clean[1] =>
        LET new  == {p \in Seen(disk) : p \notin Seen(base) \/ disk.dir[p] # base.dir[p]}
            mine == {c \in Cluster : disk.fat[1][c] # base.fat[1][c]}
        IN /\ \A k \in Fats : disk.fat[k] = disk.fat[1]
           /\ new = {} => mine = {}
           /\ \A p \in new :
                LET e == disk.dir[p] IN
                /\ new = {p} /\ e.kind = "log" /\ e.size > 0
                /\ e.num \notin {base.dir[q].num : q \in Seen(base)}
                /\ mine = {Nth(disk, e.start)[n] : n \in 0 .. Clusters(e.size) - 1}
                /\ Nth(disk, e.start)[Clusters(e.size)] = EOC
                /\ phase \in {"CLOSING", "DONE"} => ReadFile(disk, e.start, e.size) = sent

\* The writer keeps the promise of LogFile: what a reader of the chain finds is
\* what was handed over, sector for sector, after every verified write.
File == INSTANCE LogFile WITH
    op <- IF phase # "WRITING" THEN "none" ELSE IF sub = "patch" THEN "patch" ELSE "append",
    pend <- IF phase = "WRITING" THEN wbuf ELSE None,
    content <- ReadFile(disk, start, written)

Refines == File!Spec

\* Every call ends: no substate waits for something that never comes.
Settles == (phase \in {"PREPARING", "WRITING", "CLOSING"}) ~>
           (phase \notin {"PREPARING", "WRITING", "CLOSING"})
=============================================================================
