------------------------------- MODULE FileSys -------------------------------
(***************************************************************************)
(* fileSysUtils of filesys-utils.hh: read access to a FAT32 partition      *)
(* through a cache of blocks.  The unit of size is a cell: a byte of a     *)
(* file, an entry of a directory or an entry of the FAT; a block has       *)
(* 2^BlockShift of them.  The medium is the block device that SdCard       *)
(* promises: a read gives the block, or fails after it has overwritten     *)
(* the buffer.  Calls proceed by the block they read; a call that came     *)
(* upon data that are not those of the block it asked for ends there, with *)
(* spoilt set, as what follows is arbitrary.                               *)
(***************************************************************************)
EXTENDS Integers, Sequences, FiniteSets, FiniteSetsExt

CONSTANTS BlockShift,       \* 9 in the source
          CacheEntries,     \* 8 in the source
          MaxFiles, MaxDirs,
          Images,           \* media
          Lengths,          \* lengths asked of file_read
          MaxCalls,         \* bound: calls after the mount
          MaxFailures,      \* bound: block reads that fail
          Listing           \* whether file_clusters is called

ASSUME FileSysAssumption == /\ BlockShift \in 0 .. 12
                            /\ CacheEntries \in Nat \ {0}
                            /\ MaxFiles \in Nat /\ MaxDirs \in 0 .. 254
                            /\ Lengths \subseteq Nat
                            /\ MaxCalls \in Nat /\ MaxFailures \in Nat
\* Arithmetic that the shifts of the source rest on.
ASSUME PowersOfTwo == \A a \in 0 .. 17, b \in 0 .. 12 :
                         /\ 2^a \in Nat \ {0} /\ 2^(a + b) = 2^a * 2^b
                         /\ \A c \in 0 .. 17 : a < c => 2 * 2^a <= 2^c

kBlockLen == 2^BlockShift
kInvalidBlock == -1
kInvalidHandle == 255
Garbage == <<>>             \* data of a read that failed, and of no read
EndOfChain == 268435448
NoCall == [op |-> "none"]

VARIABLES image,            \* the medium
          vol,              \* properties of the partition
          cache,            \* blockCache and blockCacheNext
          files, dirs,      \* open objects
          call, ret,        \* the call under way, the result of the last one
          calls, failures, spoilt
vars == <<image, vol, cache, files, dirs, call, ret, calls, failures, spoilt>>

-----------------------------------------------------------------------------
(* The medium (external): its FAT, and its clusters of cells.              *)

BlocksPerCluster(img) == img.ebr.secsPerCluster * (img.ebr.bytesPerSector \div kBlockLen)
ClusterCells(img) == BlocksPerCluster(img) * kBlockLen
FatBlock(img) == img.mbr.lba + img.ebr.resvdSectors
HeapBlock(img) == FatBlock(img) + img.ebr.numFATs * img.ebr.secsPerFAT

Medium(img, block) ==
    [i \in 0 .. kBlockLen - 1 |->
       LET f == (block - FatBlock(img)) * kBlockLen + i
           h == (block - HeapBlock(img)) * kBlockLen + i
           c == 2 + (h \div ClusterCells(img))
       IN  CASE f >= 0 /\ block < HeapBlock(img) /\ f \in DOMAIN img.fat -> <<img.fat[f]>>
             [] h >= 0 /\ c \in DOMAIN img.heap -> img.heap[c][(h % ClusterCells(img)) + 1]
             [] OTHER -> Garbage]

\* The cell at an offset of the object that occupies a chain of clusters.
CellOf(img, chain, o) == img.heap[chain[(o \div ClusterCells(img)) + 1]][(o % ClusterCells(img)) + 1]

-----------------------------------------------------------------------------
(* Block cache *)

\* A read from the medium leaves the block or, if it fails, anything.
\* block_ensure(): the slot, or -1; the block number of the slot is kept when
\* the read fails.
block_ensure(c, block, bad) ==
    IF \E i \in DOMAIN c.entry : c.entry[i].block = block
    THEN LET i == CHOOSE j \in DOMAIN c.entry : c.entry[j].block = block
         IN  [c |-> c, idx |-> i, spoilt |-> c.entry[i].data # Medium(image, block)]
    ELSE IF block \in bad
    THEN [c |-> [c EXCEPT !.entry[c.next].data = Garbage], idx |-> -1, spoilt |-> FALSE]
    ELSE [c |-> [entry |-> [c.entry EXCEPT ![c.next] = [block |-> block, data |-> Medium(image, block)]],
                 next |-> (c.next + 1) % CacheEntries],
          idx |-> c.next, spoilt |-> FALSE]

end_of_chain(cluster) == cluster <= 1 \/ cluster >= EndOfChain

\* cluster_next(): the block of the FAT, and the entry in it.
FatBlockOf(cluster) == vol.fatStart + cluster \div kBlockLen
cluster_next(c, cluster, bad) ==
    LET b == block_ensure(c, FatBlockOf(cluster), bad)
    IN  [c |-> b.c, ok |-> b.idx >= 0, spoilt |-> b.spoilt,
         next |-> IF b.idx >= 0 /\ ~b.spoilt THEN b.c.entry[b.idx].data[cluster % kBlockLen][1] ELSE 0]

block_number(cluster, offset) ==
    vol.clusterHeapStart + (cluster - 2) * 2^vol.blksPerClusterShift + offset \div kBlockLen

-----------------------------------------------------------------------------
(* Objects *)

\* One round of the loop of object_read(), given the block at the offset (b) and
\* what follows its cluster (n).  The data are taken from the slot after the FAT
\* has been consulted, which may have taken that very slot.
CopiedChunk(obj, len, b, n) ==
    LET blockOffset == obj.offset % kBlockLen
        avail == Min({kBlockLen - blockOffset, obj.length - obj.offset})
        chunk == Min({len, avail})
        next_offset == obj.offset + chunk
        crosses == next_offset % vol.clusterBytes = 0 /\ obj.length > next_offset
        c == IF b.idx >= 0 /\ crosses THEN n.c ELSE b.c
        ok == b.idx >= 0 /\ (crosses => n.ok)
        evicted == ok /\ ~b.spoilt /\ c.entry[b.idx].block # b.c.entry[b.idx].block
    IN  [c |-> c, ok |-> ok,
         spoilt |-> b.spoilt \/ evicted \/ (b.idx >= 0 /\ crosses /\ n.spoilt),
         evicted |-> evicted,
         obj |-> IF ok THEN [obj EXCEPT !.offset = next_offset,
                                        !.currCluster = IF crosses THEN n.next ELSE @] ELSE obj,
         data |-> IF ok /\ ~b.spoilt THEN [i \in 1 .. chunk |-> c.entry[b.idx].data[blockOffset + i - 1]] ELSE <<>>]
\* The set that has its one result.
object_read(obj, len, bad) ==
    UNION {{CopiedChunk(obj, len, b, n) : n \in {cluster_next(b.c, obj.currCluster, bad)}}
             : b \in {block_ensure(cache, block_number(obj.currCluster, obj.offset % vol.clusterBytes), bad)}}

\* Mutant: the walk never starts again from the first cluster.
SeekStart_forward(obj, offset) ==
    [cluster |-> obj.currCluster, base |-> obj.offset - (obj.offset % vol.clusterBytes)]
\* object_seek(): where the walk along the chain starts.
SeekStart(obj, offset) ==
    LET base == obj.offset - (obj.offset % vol.clusterBytes)
    IN  IF offset < base THEN [cluster |-> obj.firstCluster, base |-> 0]
        ELSE [cluster |-> obj.currCluster, base |-> base]

NoObject == [valid |-> FALSE, offset |-> 0, length |-> 0, currCluster |-> 0, firstCluster |-> 0,
             file |-> <<>>, listed |-> FALSE]
             \* for the properties: whose handle it is, and whether its clusters
             \* or all of its entries have been listed
Opened(cluster, length, file) ==
    [valid |-> TRUE, offset |-> 0, length |-> length, currCluster |-> cluster,
     firstCluster |-> cluster, file |-> file, listed |-> FALSE]
\* The first free handle of a table, as dir_open() and file_open() look for it.
FreeHandle(t) == IF \E h \in DOMAIN t : ~t[h].valid THEN Min({h \in DOMAIN t : ~t[h].valid}) ELSE kInvalidHandle

-----------------------------------------------------------------------------
(* Mounting *)

floor_log2(n) == CHOOSE s \in 0 .. 16 : 2^s <= n /\ n < 2^(s + 1)
read_chs(p) == [h |-> p[1], s |-> p[2] % 64, c |-> (p[2] \div 64) * 256 + p[3]]
chs_to_lba(a, nheads, nsecs) ==
    IF a.h >= nheads \/ a.s = 0 \/ a.s > nsecs THEN 2^30         \* UINT32_MAX in the source
    ELSE (a.c * nheads + a.h) * nsecs + a.s - 1

Unmounted == [partValid |-> FALSE, fatStart |-> 0, clusterHeapStart |-> 0, rootCluster |-> 0,
              blksPerClusterShift |-> 0, clusterBytes |-> 1]
EmptyCache == [entry |-> [i \in 0 .. CacheEntries - 1 |-> [block |-> kInvalidBlock, data |-> Garbage]],
               next |-> 0]

\* init(): the first partition of the MBR, by LBA or by CHS.
Suitable(mbr) == mbr.signature /\ mbr.type \in {11, 12}
blk_offset(mbr) == IF mbr.type = 12 THEN mbr.lba ELSE chs_to_lba(read_chs(mbr.chs), 255, 63)
\* What the EBR says, and the sanity checks.
Geometry(img) ==
    LET e == img.ebr
        bytesShift == floor_log2(e.bytesPerSector)
        secsShift == floor_log2(e.secsPerCluster)
        start == blk_offset(img.mbr)
    IN  [partValid |-> bytesShift \in BlockShift .. BlockShift + 3 /\ secsShift <= BlockShift + 16 - bytesShift,
         fatStart |-> start + e.resvdSectors,
         clusterHeapStart |-> start + ((e.resvdSectors + e.numFATs * e.secsPerFAT) * 2^bytesShift) \div kBlockLen,
         rootCluster |-> e.rootCluster, blksPerClusterShift |-> secsShift,
         clusterBytes |-> 2^(secsShift + bytesShift)]

\* Mounting; the read of the MBR may fail.  That of the EBR may too, but is not
\* checked: what follows then is arbitrary.
init ==
    /\ call = NoCall /\ ~vol.partValid /\ calls < MaxCalls
    /\ \/ /\ Suitable(image.mbr)
          /\ vol' = Geometry(image)
          /\ ret' = [op |-> "init", ok |-> vol'.partValid]
          /\ UNCHANGED <<failures, spoilt>>
       \/ /\ ~Suitable(image.mbr)
          /\ ret' = [op |-> "init", ok |-> FALSE]
          /\ UNCHANGED <<vol, failures, spoilt>>
       \/ /\ failures < MaxFailures /\ failures' = failures + 1
          /\ ret' = [op |-> "init", ok |-> FALSE]
          /\ spoilt' \in {FALSE} \cup (IF Suitable(image.mbr) THEN {TRUE} ELSE {})
          /\ UNCHANGED vol
    /\ calls' = calls + 1
    /\ UNCHANGED <<image, cache, files, dirs, call>>

\* fin(): everything is forgotten.
fin ==
    /\ call = NoCall /\ vol.partValid /\ calls < MaxCalls
    /\ vol' = [vol EXCEPT !.partValid = FALSE]
    /\ cache' = EmptyCache
    /\ files' = [h \in DOMAIN files |-> [files[h] EXCEPT !.valid = FALSE]]
    /\ dirs' = [h \in DOMAIN dirs |-> [dirs[h] EXCEPT !.valid = FALSE]]
    /\ ret' = [op |-> "fin", ok |-> TRUE] /\ calls' = calls + 1
    /\ UNCHANGED <<image, call, failures, spoilt>>

-----------------------------------------------------------------------------
(* Calls *)

\* A call starts; Bad are the blocks whose read fails during a step.
Start(c) == call = NoCall /\ calls < MaxCalls /\ call' = c /\ calls' = calls + 1
Return(r) == call' = NoCall /\ ret' = r
\* It has come upon data of another block, in a slot that was taken while in use
\* (evicted) or that a failed read has overwritten.
SpoiltReturn(evicted) == Return([op |-> "spoilt", ok |-> FALSE, evicted |-> evicted])
\* A step reads at most one block of the FAT and one of the heap.
Bad == {{}} \cup (IF failures < MaxFailures
                  THEN {0 .. HeapBlock(image) - 1, HeapBlock(image) .. image.blocks} ELSE {})
\* Every result that is not ok is a read that failed.
Charge(ok) == failures' = IF ok THEN failures ELSE failures + 1

\* rootdir_open() and dir_open().
rootdir_open ==
    /\ vol.partValid
    /\ call = NoCall /\ calls < MaxCalls /\ calls' = calls + 1
    /\ LET dh == FreeHandle(dirs)
       IN  /\ dirs' = IF dh = kInvalidHandle THEN dirs
                      ELSE [dirs EXCEPT ![dh] = Opened(vol.rootCluster, 2^30, <<"root">>)]
           /\ ret' = [op |-> "rootdir_open", ok |-> dh # kInvalidHandle]
    /\ UNCHANGED <<image, vol, cache, files, call, failures, spoilt>>

dir_close(dh) ==
    /\ call = NoCall /\ calls < MaxCalls /\ calls' = calls + 1
    /\ dirs[dh].valid
    /\ dirs' = [dirs EXCEPT ![dh].valid = FALSE]
    /\ ret' = [op |-> "dir_close", ok |-> TRUE]
    /\ UNCHANGED <<image, vol, cache, files, call, failures, spoilt>>

\* The name buffer: parts of a name, each of thirteen characters in the source.
NUL == "NUL"
Slots == 1 .. 4
NoName == [s \in Slots |-> NUL]
NameIn(ucs) == LET n == Min({s \in Slots : ucs[s] = NUL} \cup {5})
               IN  [s \in 1 .. n - 1 |-> ucs[s]]

\* file_open(name): a handle to the root directory is taken, if there is one, and
\* the directory searched.
file_open(name) ==
    /\ vol.partValid
    /\ \/ /\ FreeHandle(dirs) # kInvalidHandle
          /\ Start([op |-> "find", h |-> FreeHandle(dirs), name |-> name, hasLFN |-> FALSE, ucs |-> NoName])
          /\ dirs' = [dirs EXCEPT ![FreeHandle(dirs)] = Opened(vol.rootCluster, 2^30, <<"root">>)]
          /\ UNCHANGED ret
       \/ /\ FreeHandle(dirs) = kInvalidHandle
          /\ Start(NoCall)
          /\ ret' = [op |-> "file_open", name |-> name, ok |-> FALSE, full |-> TRUE, cluster |-> 0]
          /\ UNCHANGED dirs
    /\ UNCHANGED <<image, vol, cache, files, failures, spoilt>>

\* dir_next() with default flags.  It is not called again on a directory whose
\* end it has met: it would go on behind the end.
dir_next(dh) ==
    /\ dirs[dh].valid /\ ~dirs[dh].listed
    /\ Start([op |-> "next", h |-> dh, name |-> <<>>, hasLFN |-> FALSE, ucs |-> NoName])
    /\ UNCHANGED <<image, vol, cache, files, dirs, ret, failures, spoilt>>

\* include_entry(); no entry is ever flagged as hidden.
include_entry(e) == ~e.deleted /\ e.kind # "volume"

\* What an entry of a long name does to the name buffer; seq counts from the
\* start of the name, and the last one ends it.
CollectLFN(ucs, e) ==
    [s \in Slots |-> IF s = e.seq THEN e.part ELSE IF e.last /\ s = e.seq + 1 THEN NUL ELSE ucs[s]]
generate_lfn(ucs, e) ==
    [s \in Slots |-> IF s = 1 THEN e.part ELSE IF s = 2 THEN NUL ELSE ucs[s]]
\* Mutant: the long name of an entry that is rejected stays.
LFN_after_reject(hasLFN) == hasLFN
LFN_after(hasLFN) == FALSE

\* The search ends, with the entry found or none; the directory is closed, and
\* the file opened if there is a handle.
FindEnds(found, e) ==
    LET fh == FreeHandle(files)
        open == found /\ fh # kInvalidHandle
    IN  /\ files' = IF open THEN [files EXCEPT ![fh] = Opened(e.cluster, e.length, call.name)] ELSE files
        /\ Return([op |-> "file_open", name |-> call.name, ok |-> open, full |-> fh = kInvalidHandle,
                   cluster |-> IF found THEN e.cluster ELSE 0])

\* An entry that dir_next() returns, and the name buffer after any entry.
entryWanted(e) == e.kind \notin {"end", "lfn", "dot"} /\ include_entry(e)
UcsAfter(c, e) ==
    IF e.kind = "lfn" THEN CollectLFN(c.ucs, e)
    ELSE IF entryWanted(e) /\ ~c.hasLFN THEN generate_lfn(c.ucs, e) ELSE c.ucs

\* What the loop of dir_next(), or of dir_find() around it, does with what
\* object_read() gave.
EntryRead(r) ==
    LET e == r.data[1]
        wanted == entryWanted(e)
        ucs == UcsAfter(call, e)
        hasLFN == IF e.kind = "lfn" THEN TRUE ELSE LFN_after(call.hasLFN)
        find == call.op = "find"
        closed == IF find THEN [dirs EXCEPT ![call.h].valid = FALSE] ELSE dirs
        moved == [dirs EXCEPT ![call.h] = r.obj]
    IN  \/ /\ r.spoilt
           /\ spoilt' = TRUE /\ SpoiltReturn(r.evicted)
           /\ UNCHANGED <<files, dirs>>
        \/ /\ ~r.spoilt /\ ~r.ok
           /\ dirs' = closed
           /\ IF find THEN FindEnds(FALSE, NoCall)
              ELSE Return([op |-> "failed", ok |-> FALSE]) /\ UNCHANGED files
           /\ UNCHANGED spoilt
        \/ /\ ~r.spoilt /\ r.ok
           /\ UNCHANGED spoilt
           /\ IF wanted /\ (find => NameIn(ucs) = call.name)
              THEN IF find THEN dirs' = closed /\ FindEnds(TRUE, e)
                   ELSE /\ dirs' = moved /\ UNCHANGED files
                        /\ Return([op |-> "dir_next", ok |-> TRUE, name |-> NameIn(ucs), entry |-> e])
              ELSE IF e.kind = "end"
              THEN IF find THEN dirs' = closed /\ FindEnds(FALSE, NoCall)
                   ELSE /\ dirs' = [moved EXCEPT ![call.h].listed = TRUE] /\ UNCHANGED files
                        /\ Return([op |-> "dir_next", ok |-> FALSE])
              ELSE /\ dirs' = moved /\ UNCHANGED <<files, ret>>
                   /\ call' = [call EXCEPT !.ucs = ucs, !.hasLFN = hasLFN /\ ~wanted]

\* One entry of a directory, for dir_next() and for dir_find() in file_open().
scan_entry ==
    /\ call.op \in {"find", "next"}
    /\ \E bad \in Bad : \E r \in object_read(dirs[call.h], 1, bad) :
           cache' = r.c /\ Charge(r.ok) /\ EntryRead(r)
    /\ UNCHANGED <<image, vol, calls>>

file_close(fh) ==
    /\ call = NoCall /\ calls < MaxCalls /\ calls' = calls + 1
    /\ files[fh].valid
    /\ files' = [files EXCEPT ![fh].valid = FALSE]
    /\ ret' = [op |-> "file_close", ok |-> TRUE]
    /\ UNCHANGED <<image, vol, cache, dirs, call, failures, spoilt>>

\* file_read()
file_read(fh, len) ==
    /\ files[fh].valid
    /\ Start([op |-> "read", h |-> fh, len |-> len, data |-> <<>>, offset |-> files[fh].offset])
    /\ UNCHANGED <<image, vol, cache, files, dirs, ret, failures, spoilt>>

ReadReturns(data, ok) ==
    Return([op |-> "file_read", h |-> call.h, offset |-> call.offset, data |-> data, ok |-> ok,
            len |-> Len(call.data) + call.len])

\* A round of its loop, or its end.
read_chunk ==
    /\ call.op = "read"
    /\ LET f == files[call.h]
       IN  \/ /\ ~(call.len > 0 /\ f.offset < f.length)
              /\ ReadReturns(call.data, TRUE)
              /\ UNCHANGED <<cache, files, failures, spoilt>>
           \/ /\ call.len > 0 /\ f.offset < f.length
              /\ \E bad \in Bad : \E r \in object_read(f, call.len, bad) :
                     /\ cache' = r.c /\ Charge(r.ok)
                     /\ spoilt' = r.spoilt
                     /\ IF r.spoilt /\ ~r.evicted THEN SpoiltReturn(FALSE) /\ UNCHANGED files
                        ELSE IF ~r.ok THEN ReadReturns(call.data, FALSE) /\ UNCHANGED files
                        ELSE /\ files' = [files EXCEPT ![call.h] = r.obj]
                             /\ IF r.spoilt THEN ReadReturns(call.data \o r.data, TRUE)
                                ELSE /\ call' = [call EXCEPT !.len = @ - Len(r.data), !.data = @ \o r.data]
                                     /\ UNCHANGED ret
    /\ UNCHANGED <<image, vol, dirs, calls>>

\* file_seek(): an offset beyond the length is refused.
file_seek(fh, offset) ==
    /\ files[fh].valid
    /\ \/ /\ offset <= files[fh].length
          /\ Start([op |-> "seek", h |-> fh, offset |-> offset,
                    at |-> SeekStart(files[fh], offset)])
          /\ UNCHANGED ret
       \/ /\ offset > files[fh].length
          /\ Start(NoCall)
          /\ ret' = [op |-> "file_seek", ok |-> FALSE]
    /\ UNCHANGED <<image, vol, cache, files, dirs, failures, spoilt>>

\* Mutant: the offset is set although the chain could not be followed.
seek_failed_moves == files' = [files EXCEPT ![call.h].offset = call.offset]
\* The position is left unchanged when a read fails.
seek_failed == UNCHANGED files

\* A round of the loop of object_seek(), or its end.
seek_cluster ==
    /\ call.op = "seek"
    /\ \/ /\ call.offset - call.at.base < vol.clusterBytes
          /\ files' = [files EXCEPT ![call.h].currCluster = call.at.cluster, ![call.h].offset = call.offset]
          /\ Return([op |-> "file_seek", ok |-> TRUE])
          /\ UNCHANGED <<cache, failures, spoilt>>
       \/ /\ call.offset - call.at.base >= vol.clusterBytes
          /\ \E bad \in Bad : \E n \in {cluster_next(cache, call.at.cluster, bad)} :
                 /\ cache' = n.c /\ Charge(n.ok)
                 /\ spoilt' = n.spoilt
                 /\ IF n.spoilt THEN SpoiltReturn(FALSE) /\ UNCHANGED files
                    ELSE IF ~n.ok THEN seek_failed /\ Return([op |-> "file_seek", ok |-> FALSE])
                    ELSE /\ call' = [call EXCEPT !.at = [cluster |-> n.next, base |-> @.base + vol.clusterBytes]]
                         /\ UNCHANGED <<files, ret>>
    /\ UNCHANGED <<image, vol, dirs, calls>>

\* file_clusters()
file_clusters(fh, len) ==
    /\ Listing
    /\ files[fh].valid
    /\ Start([op |-> "clusters", h |-> fh, len |-> len, list |-> <<>>, cluster |-> files[fh].currCluster,
              offset |-> files[fh].offset - (files[fh].offset % vol.clusterBytes)])
    /\ UNCHANGED <<image, vol, cache, files, dirs, ret, failures, spoilt>>

ClustersReturn(list) == Return([op |-> "file_clusters", h |-> call.h, list |-> list, ok |-> TRUE])

\* A round of its loop, or its end; the cluster that is remembered with the new
\* offset is the one just listed.
list_cluster ==
    /\ call.op = "clusters"
    /\ \/ /\ call.len = 0 \/ end_of_chain(call.cluster)
          /\ ClustersReturn(call.list)
          /\ UNCHANGED <<cache, files, failures, spoilt>>
       \/ /\ call.len > 0 /\ ~end_of_chain(call.cluster)
          /\ \E bad \in Bad : \E n \in {cluster_next(cache, call.cluster, bad)} :
             LET list == Append(call.list, call.cluster)
                 offset == call.offset + vol.clusterBytes
             IN  /\ cache' = n.c /\ Charge(n.ok)
                 /\ spoilt' = n.spoilt
                 /\ IF n.spoilt THEN SpoiltReturn(FALSE) /\ UNCHANGED files
                    ELSE IF ~n.ok THEN ClustersReturn(list) /\ UNCHANGED files
                    ELSE /\ call' = [call EXCEPT !.len = @ - 1, !.list = list, !.cluster = n.next,
                                                 !.offset = offset]
                         /\ files' = [files EXCEPT ![call.h].offset = offset,
                                                   ![call.h].currCluster = call.cluster,
                                                   ![call.h].listed = TRUE]
                         /\ UNCHANGED ret
    /\ UNCHANGED <<image, vol, dirs, calls>>

-----------------------------------------------------------------------------
(* What the source takes for granted of a volume.                          *)

\* The FAT links the clusters of a chain; a cluster has a block in the FAT.
Linked(img, chain) ==
    /\ chain \in Seq(DOMAIN img.heap) /\ chain # <<>>
    /\ \A k \in 1 .. Len(chain) - 1 : chain[k] \in DOMAIN img.fat /\ img.fat[chain[k]] = chain[k + 1]
SoundFat(img) ==
    /\ \A c \in DOMAIN img.fat : c \in Nat /\ c \div kBlockLen < img.ebr.secsPerFAT
    /\ \A c \in DOMAIN img.heap : c \in Nat /\ c >= 2
    /\ \A f \in DOMAIN img.files :
          LET file == img.files[f]
          IN  /\ Linked(img, file.chain) /\ file.length \in Nat
              /\ file.length <= Len(file.chain) * ClusterCells(img)

\* Sectors are blocks, and a cluster has a power of two of them.
SoundGeometry(img) ==
    LET e == img.ebr
    IN  /\ e.bytesPerSector = kBlockLen /\ e.secsPerCluster \in {2^k : k \in 0 .. 7}
        /\ e.resvdSectors \in Nat /\ e.secsPerFAT \in Nat /\ e.numFATs \in Nat \ {0}
        /\ img.mbr.lba \in Nat
        /\ Suitable(img.mbr) => blk_offset(img.mbr) = img.mbr.lba

\* The entries of the root directory; those from the end on do not count.
RootEntry(img, o) == CellOf(img, img.root, o)
RootSize(img) == Len(img.root) * ClusterCells(img)
BeforeEnd(img, o) == \A p \in 0 .. o : RootEntry(img, p).kind # "end"
Live(img, o) ==
    /\ BeforeEnd(img, o) /\ RootEntry(img, o).kind \notin {"lfn", "dot"}
    /\ include_entry(RootEntry(img, o))
\* The entry at o has a long name, in the m entries before it, the last part
\* first, or, with m = 0, a short one.
HasParts(img, o, m) ==
    /\ m <= o /\ (m < o => RootEntry(img, o - m - 1).kind # "lfn")
    /\ \A k \in 1 .. m : LET e == RootEntry(img, o - k)
                         IN  e.kind = "lfn" /\ e.seq = k /\ e.last = (k = m) /\ e.part # NUL
NameOf(img, o, m) == IF m = 0 THEN <<RootEntry(img, o).part>> ELSE [k \in 1 .. m |-> RootEntry(img, o - k).part]
\* The directory ends, and its live entries are the files.
SoundRoot(img) ==
    /\ Linked(img, img.root) /\ img.root[1] = img.ebr.rootCluster /\ RootSize(img) <= 2^30
    /\ \E o \in 0 .. RootSize(img) - 1 : ~BeforeEnd(img, o)
    /\ \A o \in 0 .. RootSize(img) - 1 : Live(img, o) =>
          \E m \in 0 .. 4 : /\ HasParts(img, o, m)
                           /\ RootEntry(img, o).part # NUL
                           /\ NameOf(img, o, m) \in DOMAIN img.files
                           /\ img.files[NameOf(img, o, m)].chain[1] = RootEntry(img, o).cluster
                           /\ img.files[NameOf(img, o, m)].length = RootEntry(img, o).length
    /\ \A f \in DOMAIN img.files :
          \E o \in 0 .. RootSize(img) - 1 : \E m \in 0 .. 4 :
             Live(img, o) /\ HasParts(img, o, m) /\ NameOf(img, o, m) = f

ASSUME ImagesAssumption == \A img \in Images : SoundGeometry(img) /\ SoundFat(img) /\ SoundRoot(img)

-----------------------------------------------------------------------------
Init ==
    /\ image \in Images
    /\ vol = Unmounted /\ cache = EmptyCache
    /\ files = [h \in 0 .. MaxFiles - 1 |-> NoObject]
    /\ dirs = [h \in 0 .. MaxDirs - 1 |-> NoObject]
    /\ call = NoCall /\ ret = NoCall /\ calls = 0 /\ failures = 0 /\ spoilt = FALSE

Names == DOMAIN image.files \cup {<<"none">>}
Calls ==
    /\ ~spoilt
    /\ \/ init \/ fin \/ rootdir_open
       \/ \E dh \in DOMAIN dirs : dir_close(dh) \/ dir_next(dh)
       \/ \E name \in Names : file_open(name)
       \/ \E fh \in DOMAIN files : \/ file_close(fh)
                                   \/ \E n \in Lengths : file_read(fh, n) \/ file_clusters(fh, n)
                                   \/ \E o \in 0 .. files[fh].length + 1 : file_seek(fh, o)
Step == scan_entry \/ read_chunk \/ seek_cluster \/ list_cluster
Finished == call = NoCall /\ (spoilt \/ calls = MaxCalls) /\ UNCHANGED vars
Next == Calls \/ Step \/ Finished

Spec == Init /\ [][Next]_vars

-----------------------------------------------------------------------------
\* What the medium says of a file: its chain, and the cell at an offset.
FileOf(f) == image.files[f]
CellAt(f, o) == CellOf(image, FileOf(f).chain, o)

\* The read that has returned gave the cells of the file from where the handle
\* stood, as many as were asked for and are there, or fewer if a block could not be
\* read.
ReadIsRight ==
    LET f == files[ret.h].file
    IN  /\ ret.data = [i \in 1 .. Len(ret.data) |-> CellAt(f, ret.offset + i - 1)]
        /\ ret.ok => Len(ret.data) = Min({ret.len, FileOf(f).length - ret.offset})
\* It went to the end of a cluster that is not the last one, and what it copied in
\* its last round was in a slot taken by a block of the FAT; all before is right.
LastRoundEvicted ==
    LET f == files[ret.h].file
        n == Len(ret.data)
    IN  /\ spoilt
        /\ (ret.offset + n) % ClusterCells(image) = 0 /\ ret.offset + n < FileOf(f).length
        /\ \A i \in 1 .. n - kBlockLen : ret.data[i] = CellAt(f, ret.offset + i - 1)

\* For any interleaving of reads and seeks of several handles over the one cache,
\* what a read returns is right, except at most for the last block before the end
\* of a cluster.  file_clusters() is left out, as it does not keep the position.
FileReadsAreRight ==
    (ret.op = "file_read" /\ call = NoCall /\ ~files[ret.h].listed) => ReadIsRight \/ LastRoundEvicted

\* Without the exception: "its availability is guaranteed at this point", the
\* source says of the block that a read copies from.  It is not.
ReadsComeFromTheirBlock ==
    (ret.op = "file_read" /\ call = NoCall /\ ~files[ret.h].listed) => ReadIsRight

\* block_ensure() gives a call the block it asks for, or fails: "Ensure that the
\* specified block is available in memory for access."  After a read that failed
\* the slot has the number of the block that was there before.
SlotsHoldTheirBlocks == ret.op = "spoilt" => ret.evicted

\* The cluster of an open file is the one that holds its offset, after any
\* sequence of reads and seeks and also when one of them fails half way.
PositionIsConsistent ==
    \A h \in DOMAIN files :
      LET f == files[h]
      IN  (f.valid /\ ~f.listed /\ ~spoilt /\ f.offset < f.length) =>
            f.currCluster = FileOf(f.file).chain[(f.offset \div ClusterCells(image)) + 1]

\* file_open() finds a file by its long or its generated name if it is there, and
\* finds nothing else: deleted entries, labels and what is left in the name
\* buffer are never taken for it.  It fails only for want of a handle or of a
\* block.
OpenFindsTheFile ==
    (ret.op = "file_open" /\ call = NoCall /\ ~spoilt) =>
      /\ ret.ok => ret.name \in DOMAIN image.files /\ ret.cluster = FileOf(ret.name).chain[1]
      /\ (ret.name \in DOMAIN image.files /\ failures = 0 /\ ~ret.full) => ret.ok
=============================================================================
