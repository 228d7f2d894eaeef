------------------------------ MODULE MCFileSys ------------------------------
(* Media with blocks of two cells: one with clusters of two blocks, found by *)
(* LBA, one with clusters of one block, found by CHS, and one that has no    *)
(* suitable partition.  The chains are not contiguous, the root directory    *)
(* has a label, deleted entries and a long name, and crosses a cluster.      *)
EXTENDS FileSys, TLC

Entry(kind, part, cluster, length) ==
    [kind |-> kind, deleted |-> FALSE, part |-> part, seq |-> 1, last |-> FALSE,
     cluster |-> cluster, length |-> length]
Lfn(seq, last, part) == [Entry("lfn", part, 0, 0) EXCEPT !.seq = seq, !.last = last]
Deleted(e) == [e EXCEPT !.deleted = TRUE]

Root == <<Entry("volume", "CARD", 0, 0), Lfn(2, TRUE, "lo2"), Lfn(1, FALSE, "lo1"),
          Entry("file", "lon~1", 3, 6),
          Deleted(Lfn(3, TRUE, "old")), Deleted(Entry("file", "b", 6, 2)),
          Entry("file", "b", 4, 3), Entry("end", "", 0, 0)>>

\* Clusters of four cells.
Cells(c, n) == [i \in 1 .. n |-> <<c, i>>]
ByLba ==
    [mbr |-> [signature |-> TRUE, type |-> 12, lba |-> 1, chs |-> <<0, 0, 0>>],
     ebr |-> [bytesPerSector |-> 2, secsPerCluster |-> 2, resvdSectors |-> 1, numFATs |-> 2,
              secsPerFAT |-> 4, rootCluster |-> 2],
     blocks |-> 20,
     fat |-> [c \in 0 .. 7 |-> CASE c = 2 -> 5 [] c = 3 -> 6 [] OTHER -> EndOfChain],
     heap |-> [c \in 2 .. 6 |-> CASE c = 2 -> SubSeq(Root, 1, 4) [] c = 5 -> SubSeq(Root, 5, 8)
                                  [] OTHER -> Cells(c, 4)],
     root |-> <<2, 5>>,
     files |-> (<<"lo1", "lo2">> :> [chain |-> <<3, 6>>, length |-> 6])
               @@ (<<"b">> :> [chain |-> <<4>>, length |-> 3])]
\* Clusters of two cells.
ByChs ==
    [mbr |-> [signature |-> TRUE, type |-> 11, lba |-> 63, chs |-> <<1, 1, 0>>],
     ebr |-> [bytesPerSector |-> 2, secsPerCluster |-> 1, resvdSectors |-> 1, numFATs |-> 1,
              secsPerFAT |-> 6, rootCluster |-> 2],
     blocks |-> 80,
     fat |-> [c \in 0 .. 11 |-> CASE c = 2 -> 7 [] c = 7 -> 5 [] c = 5 -> 9 [] c = 3 -> 8 [] c = 8 -> 6
                                  [] c = 4 -> 10 [] OTHER -> EndOfChain],
     heap |-> [c \in 2 .. 11 |-> CASE c = 2 -> SubSeq(Root, 1, 2) [] c = 7 -> SubSeq(Root, 3, 4)
                                   [] c = 5 -> SubSeq(Root, 5, 6) [] c = 9 -> SubSeq(Root, 7, 8)
                                   [] OTHER -> Cells(c, 2)],
     root |-> <<2, 7, 5, 9>>,
     files |-> (<<"lo1", "lo2">> :> [chain |-> <<3, 8, 6>>, length |-> 6])
               @@ (<<"b">> :> [chain |-> <<4, 10>>, length |-> 3])]
Foreign == [ByLba EXCEPT !.mbr.type = 7]
MCImages == {ByLba, ByChs, Foreign}
MCEvict == {ByLba}
=============================================================================
