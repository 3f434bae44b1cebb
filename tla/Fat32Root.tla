----------------------------- MODULE Fat32Root -----------------------------
(***************************************************************************)
(* The read-only FAT32 root reader (protocol/src/fat32-root.ts) as pure    *)
(* operators of the sectors read so far.  The reader caches every metadata *)
(* sector, so running it again over a larger cache repeats its decisions:  *)
(* an operator below returns the sector it needs next, a refusal, or its   *)
(* result.  Sectors are records with a "kind"; SectorBytes stands for 512  *)
(* and FatEntries for the 128 links of a FAT sector.                       *)
(***************************************************************************)
EXTENDS Naturals, Sequences, SequencesExt

CONSTANTS
    SectorBytes,   \* bytes of a sector
    FatEntries,    \* links in one FAT sector
    MinClusters,   \* the FAT32 minimum, 65525 in the code
    MaxFileBytes,  \* FAT32_MAX_FILE_BYTES
    RootScanSectors, \* FAT32_ROOT_SCAN_SECTORS
    Eoc            \* EOC: a link at or above it ends the chain

ASSUME FatAssumption ==
    /\ SectorBytes \in Nat \ {0} /\ FatEntries \in Nat \ {0} /\ Eoc \in Nat
    /\ MinClusters \in Nat /\ MaxFileBytes \in Nat /\ RootScanSectors \in Nat

Need(l) == [kind |-> "need", lba |-> l]
Refuse  == [kind |-> "refuse"]
Ok(v)   == [kind |-> "ok", val |-> v]

\* Go on with a result, or pass the need or the refusal up.
Then(r, F(_)) == IF r.kind = "ok" THEN F(r.val) ELSE r

Ceil(a, b) == (a + b - 1) \div b

\* meta(): bounds first, then the cache, then the card.
Meta(m, n, l) == IF l >= n THEN Refuse
                 ELSE IF l \in DOMAIN m THEN Ok(m[l]) ELSE Need(l)

-----------------------------------------------------------------------------
(* mount()                                                                 *)

\* isFat32Vbr(): what makes sector 0 a volume and not a partition table.
IsFat32Vbr(s) == /\ s.kind = "boot" /\ s.sig
                 /\ s.spc \in {1, 2, 4, 8, 16, 32, 64, 128}
                 /\ s.rsvd # 0 /\ s.fats \in {1, 2} /\ s.fatSz # 0

\* detectPartitionOffset(): <<offset, partitionLimit>>.
Partition(m, n, s) ==
    IF IsFat32Vbr(s) THEN Ok(<<0, n>>)
    ELSE IF s.kind # "mbr" \/ ~s.sig \/ s.gpt \/ Len(s.parts) # 1 THEN Refuse
    ELSE LET start == s.parts[1][1]
             count == s.parts[1][2]
         IN IF start = 0 \/ count = 0 \/ start + count > n THEN Refuse
            ELSE Then(Meta(m, n, start),
                      LAMBDA b : IF IsFat32Vbr(b) THEN Ok(<<start, start + count>>) ELSE Refuse)

\* parseVbr(): the geometry, refused unless the volume fits its partition and
\* the FAT covers every cluster.
ParseVbr(b, off, limit, n) ==
    LET head == b.rsvd + b.fats * b.fatSz
        clusters == (b.tot - head) \div b.spc
    IN IF \/ ~IsFat32Vbr(b) \/ b.tot = 0 \/ off + b.tot > n \/ ~b.mirrored
          \/ b.root < 2 \/ b.tot <= head \/ off + b.tot > limit
          \/ clusters + 2 > b.fatSz * FatEntries
          \/ b.root >= clusters + 2 \/ clusters < MinClusters
         THEN Refuse
         ELSE Ok([fat1 |-> off + b.rsvd, fat2 |-> off + b.rsvd + b.fatSz, fats |-> b.fats,
                  data |-> off + head, spc |-> b.spc, root |-> b.root,
                  clusters |-> clusters, fatSz |-> b.fatSz, end |-> off + b.tot])

\* A FAT sector and, with two FATs, its mirror: they must agree.
FatSector(m, n, g, i) ==
    Then(Meta(m, n, g.fat1 + i),
         LAMBDA a : IF g.fats = 1 THEN Ok(a)
                    ELSE Then(Meta(m, n, g.fat2 + i),
                              LAMBDA b : IF a = b THEN Ok(a) ELSE Refuse))

\* verifyCleanFat()
VerifyCleanFat(m, n, g) ==
    Then(FatSector(m, n, g, 0), LAMBDA a : IF a.clean /\ a.sound THEN Ok(g) ELSE Refuse)

Mount(m, n) ==
    Then(Meta(m, n, 0), LAMBDA s :
      Then(Partition(m, n, s), LAMBDA p :
        Then(Meta(m, n, p[1]), LAMBDA b :
          Then(ParseVbr(b, p[1], p[2], n), LAMBDA g : VerifyCleanFat(m, n, g)))))

InVolume(g, c) == c >= 2 /\ c < g.clusters + 2

\* fatEntry()
FatEntry(m, n, g, c) ==
    IF ~InVolume(g, c) \/ c \div FatEntries >= g.fatSz THEN Refuse
    ELSE Then(FatSector(m, n, g, c \div FatEntries), LAMBDA a : Ok(a.link[c % FatEntries]))

ClusterLba(g, c) == g.data + (c - 2) * g.spc

-----------------------------------------------------------------------------
(* listBblFiles()                                                          *)

\* One directory sector: entries up to the end marker; deleted slots, long
\* names, volume labels and foreign names are skipped, a second entry of one
\* name refuses the card.  acc is [files, subdirs, end, bad, scanned].
ScanSector(sec, acc) ==
    FoldLeft(LAMBDA a, e :
               IF a.end \/ a.bad THEN a
               ELSE IF e.type = "end" THEN [a EXCEPT !.end = TRUE]
               ELSE IF e.type \in {"deleted", "label", "foreign"} THEN a
               ELSE IF e.name \in {f.name : f \in a.files} \cup a.subdirs
                      THEN [a EXCEPT !.bad = TRUE]
               ELSE IF e.type = "dir" THEN [a EXCEPT !.subdirs = @ \cup {e.name}]
               ELSE [a EXCEPT !.files = @ \cup {[name |-> e.name, first |-> e.first, size |-> e.size]}],
             acc, sec.entries)

\* The sectors of one directory cluster.
ScanCluster(m, n, g, c, acc) ==
    LET go[s \in Nat] ==
          IF s = 0 THEN Ok(acc)
          ELSE Then(go[s - 1], LAMBDA a :
                 IF a.end \/ a.bad THEN Ok(a)
                 ELSE IF a.scanned = RootScanSectors THEN Refuse
                 ELSE Then(Meta(m, n, ClusterLba(g, c) + s - 1), LAMBDA sec :
                        Ok(ScanSector(sec, [a EXCEPT !.scanned = @ + 1]))))
    IN go[g.spc]

\* The root chain: cycles and invalid links refuse the card.
ListBblFiles(m, n, g) ==
    LET empty == [files |-> {}, subdirs |-> {}, end |-> FALSE, bad |-> FALSE, scanned |-> 0]
        scan[path \in Seq(Nat)] ==   \* [chain, acc] after the clusters of path
          LET cur == Last(path)
              before == IF Len(path) = 1 THEN Ok([next |-> cur, acc |-> empty]) ELSE scan[Front(path)]
          IN Then(before, LAMBDA b :
               IF cur \in Range(Front(path)) THEN Refuse
               ELSE Then(FatEntry(m, n, g, cur), LAMBDA next :
                      IF next < Eoc /\ ~InVolume(g, next) THEN Refuse
                      ELSE Then(ScanCluster(m, n, g, cur, b.acc), LAMBDA a :
                             IF a.bad THEN Refuse ELSE Ok([next |-> next, acc |-> a]))))
        walk[path \in Seq(Nat)] ==
          Then(scan[path], LAMBDA r :
            IF r.acc.end \/ r.next >= Eoc
              THEN Ok([files |-> r.acc.files, subdirs |-> r.acc.subdirs, root |-> Range(path)])
              ELSE walk[Append(path, r.next)])
    IN walk[<<g.root>>]

-----------------------------------------------------------------------------
(* fileDataSectors()                                                       *)

\* The file's cluster chain: in range, no cycle, clear of the root directory
\* and exactly as long as the directory size asks.
FileChain(m, n, g, root, e) ==
    LET expected == Ceil(e.size, g.spc * SectorBytes)
        walk[path \in Seq(Nat)] ==
          LET cur == Last(path) IN
          IF \/ ~InVolume(g, cur) \/ cur \in Range(Front(path))
             \/ cur \in root \/ Len(path) > expected
            THEN Refuse
            ELSE Then(FatEntry(m, n, g, cur), LAMBDA next :
                   IF next < Eoc THEN walk[Append(path, next)]
                   ELSE IF Len(path) < expected THEN Refuse ELSE Ok(path))
    IN walk[<<e.first>>]

\* The sectors that hold the file's bytes, in file order.
FileDataSectors(m, n, g, root, e) ==
    IF e.size = 0 \/ e.size > MaxFileBytes THEN Refuse
    ELSE Then(FileChain(m, n, g, root, e), LAMBDA chain :
           LET lba(i) == ClusterLba(g, chain[1 + (i - 1) \div g.spc]) + ((i - 1) % g.spc)
               total == Ceil(e.size, SectorBytes)
           IN IF \E i \in 1 .. total : lba(i) >= g.end THEN Refuse
              ELSE Ok([i \in 1 .. total |-> lba(i)]))
=============================================================================
