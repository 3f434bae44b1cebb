--------------------------- MODULE MCBlackboxPage ---------------------------
EXTENDS BlackboxPage

\* Sectors: [0 an MBR] boot, two FAT copies, then the data clusters 2, 3, 4 of
\* two sectors.  Cluster 2 is the root directory.
Layout(mbr, link, clean, same, entries, payload) ==
    LET off == IF mbr THEN 1 ELSE 0
        boot == [kind |-> "boot", sig |-> TRUE, spc |-> 2, rsvd |-> 1, fats |-> 2, fatSz |-> 1,
                 tot |-> 9, root |-> 2, mirrored |-> TRUE]
        fat == [kind |-> "fat", clean |-> clean, sound |-> TRUE, link |-> link]
        at(l) == IF l < off THEN [kind |-> "mbr", sig |-> TRUE, gpt |-> FALSE, parts |-> <<<<1, 9>>>>]
                 ELSE IF l = off THEN boot
                 ELSE IF l = off + 1 THEN fat
                 ELSE IF l = off + 2 THEN IF same THEN fat ELSE [fat EXCEPT !.clean = ~@]
                 ELSE IF l < off + 5 THEN [kind |-> "dir", entries |-> IF l = off + 3 THEN entries ELSE <<[type |-> "end"]>>]
                 ELSE [kind |-> "data"]
    IN [sectors |-> off + 9, hint |-> "FAT32", sec |-> [l \in 0 .. off + 8 |-> at(l)],
        payload |-> payload]

End == 8
Links(a, b, c) == [i \in 0 .. 7 |-> CASE i = 2 -> a [] i = 3 -> b [] i = 4 -> c [] OTHER -> 0]
File(n, first, size) == [type |-> "file", name |-> n, first |-> first, size |-> size]

\* a: behind an MBR, a file of three sectors over clusters 4 and 3, a deleted
\* slot before it.  b: no MBR, and a chain longer than the entry's size.
MCCards ==
    [c \in {"a", "b"} |->
       IF c = "a" THEN Layout(TRUE, Links(End, End, 3), TRUE, TRUE,
                              <<[type |-> "deleted"], File("log", 4, 5), [type |-> "end"]>>,
                              [f \in {"log"} |-> <<8, 9, 6>>])
       ELSE Layout(FALSE, Links(End, 4, End), TRUE, TRUE, <<File("log", 3, 4)>>,
                   [f \in {} |-> <<>>])]

\* What the reader finds on these cards, from whatever part of their sectors it has
\* read, is what they hold: the hypothesis of the theorem SavedIsWhole.
ASSUME ReaderRight ==
    \A c \in DOMAIN MCCards : \A D \in SUBSET DOMAIN MCCards[c].sec :
      LET m == [l \in D |-> MCCards[c].sec[l]]
          n == MCCards[c].sectors
          g == Mount(m, n)
          r == ListBblFiles(m, n, g.val)
      IN g.kind = "ok" /\ r.kind = "ok" => \A e \in r.val.files :
           LET s == FileDataSectors(m, n, g.val, r.val.root, e)
           IN s.kind = "ok" =>
                /\ e.name \in DOMAIN MCCards[c].payload
                /\ s.val = [i \in 1 .. Ceil(e.size, SectorBytes) |-> MCCards[c].payload[e.name][i]]
=============================================================================
