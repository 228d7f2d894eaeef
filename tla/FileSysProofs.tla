---------------------------- MODULE FileSysProofs ----------------------------
(***************************************************************************)
(* Proofs about FileSys, for every sound volume, every size of block and   *)
(* of cache, and every number of handles, of calls and of reads that fail. *)
(* The inductive invariant follows the position of an open file, and of    *)
(* the directory that file_open() searches, along its chain of clusters,   *)
(* also in the middle of a read and of a seek, and the name buffer along   *)
(* the directory.                                                          *)
(***************************************************************************)
EXTENDS FileSys, TLAPS, WellFoundedInduction, SequenceTheorems

(***************************************************************************)
(* The inductive invariant.                                                *)
(***************************************************************************)
\* Every part of it is an operator of the values of the variables it is about.
CC == ClusterCells(image)

\* The fields of an object, a volume and the cache.
ObjLike(o) ==
    /\ o = [valid |-> o.valid, offset |-> o.offset, length |-> o.length, currCluster |-> o.currCluster,
            firstCluster |-> o.firstCluster, file |-> o.file, listed |-> o.listed]
    /\ o.valid \in BOOLEAN /\ o.listed \in BOOLEAN
Table(t, n) == DOMAIN t = 0 .. n - 1 /\ t = [h \in 0 .. n - 1 |-> t[h]] /\ \A h \in 0 .. n - 1 : ObjLike(t[h])
CacheLike(c) ==
    /\ c = [entry |-> c.entry, next |-> c.next]
    /\ c.next \in 0 .. CacheEntries - 1
    /\ c.entry = [i \in 0 .. CacheEntries - 1 |-> c.entry[i]]
    /\ \A i \in 0 .. CacheEntries - 1 : c.entry[i] = [block |-> c.entry[i].block, data |-> c.entry[i].data]

\* What init() has found, while the volume is mounted.
MountedAs(img, v) ==
    /\ v.fatStart = FatBlock(img) /\ v.clusterHeapStart = HeapBlock(img)
    /\ v.rootCluster = img.ebr.rootCluster
    /\ 2^v.blksPerClusterShift = BlocksPerCluster(img) /\ v.clusterBytes = ClusterCells(img)
VolumeOK(img, v) ==
    /\ v = [partValid |-> v.partValid, fatStart |-> v.fatStart,
            clusterHeapStart |-> v.clusterHeapStart, rootCluster |-> v.rootCluster,
            blksPerClusterShift |-> v.blksPerClusterShift, clusterBytes |-> v.clusterBytes]
    /\ v.partValid \in BOOLEAN
    /\ v.partValid => MountedAs(img, v)

\* Objects and calls exist only while it is.
AnyValid(t, n) == \E h \in 0 .. n - 1 : t[h].valid
InUse(fs, ds, c) == c # NoCall \/ AnyValid(fs, MaxFiles) \/ AnyValid(ds, MaxDirs)

\* The cluster is the one of the chain that holds the offset.
OnChain(img, chain, cluster, offset, length) ==
    LET k == offset \div ClusterCells(img)
    IN  (k < Len(chain) /\ k * ClusterCells(img) < length) => cluster = chain[k + 1]
GoodFile(img, f) ==
    /\ f.file \in DOMAIN img.files /\ f.length = img.files[f.file].length
    /\ f.firstCluster = img.files[f.file].chain[1]
    /\ f.offset \in Nat /\ f.offset <= f.length
    /\ OnChain(img, img.files[f.file].chain, f.currCluster, f.offset, f.length)
GoodFiles(img, fs) == \A h \in 0 .. MaxFiles - 1 : fs[h].valid /\ ~fs[h].listed => GoodFile(img, fs[h])

\* The calls under way: the search of a directory.
Searching(ds, c) ==
    /\ c = [op |-> c.op, h |-> c.h, name |-> c.name, hasLFN |-> c.hasLFN, ucs |-> c.ucs]
    /\ c.h \in 0 .. MaxDirs - 1 /\ ds[c.h].valid
    /\ c.ucs = [s \in Slots |-> c.ucs[s]] /\ c.hasLFN \in BOOLEAN
\* The parts before o of the long name that is being read.
Collected(img, o, ucs) ==
    \A p \in 0 .. RootSize(img) - 1, m \in 1 .. 4 :
      (o <= p /\ p - m < o /\ HasParts(img, p, m)) =>
        /\ \A k \in 1 .. m : p - o < k => ucs[k] = RootEntry(img, p - k).part
        /\ m < 4 => ucs[m + 1] = NUL
NotFound(img, o, name) ==
    \A p \in 0 .. RootSize(img) - 1, m \in 0 .. 4 :
      (p < o /\ Live(img, p) /\ HasParts(img, p, m)) => NameOf(img, p, m) # name
Finding(img, d, c) ==
    /\ d.offset \in 0 .. RootSize(img) - 1 /\ d.length = 2^30
    /\ d.currCluster = img.root[(d.offset \div ClusterCells(img)) + 1]
    /\ \A p \in 0 .. d.offset - 1 : RootEntry(img, p).kind # "end"
    /\ c.hasLFN = (d.offset > 0 /\ RootEntry(img, d.offset - 1).kind = "lfn")
    /\ Collected(img, d.offset, c.ucs)
    /\ NotFound(img, d.offset, c.name)

\* A read, a seek and a listing of clusters.
OnFile(fs, c) == c.h \in 0 .. MaxFiles - 1 /\ fs[c.h].valid
ReadSoFar(img, f, c) ==
    /\ c.len \in Nat /\ c.offset \in Nat /\ Len(c.data) \in Nat
    /\ c.data = [i \in 1 .. Len(c.data) |-> CellOf(img, img.files[f.file].chain, c.offset + i - 1)]
    /\ f.offset = c.offset + Len(c.data)
Reading(img, fs, c) ==
    /\ OnFile(fs, c)
    /\ c = [op |-> "read", h |-> c.h, len |-> c.len, data |-> c.data, offset |-> c.offset]
    /\ ~fs[c.h].listed => ReadSoFar(img, fs[c.h], c)
SoughtSoFar(img, f, c) ==
    /\ c.offset \in Nat /\ c.offset <= f.length
    /\ \E k \in Nat : /\ c.at.base = k * ClusterCells(img) /\ k * ClusterCells(img) <= c.offset
                      /\ k * ClusterCells(img) < f.length => c.at.cluster = img.files[f.file].chain[k + 1]
Seeking(img, fs, c) ==
    /\ OnFile(fs, c)
    /\ c = [op |-> "seek", h |-> c.h, offset |-> c.offset, at |-> c.at]
    /\ c.at = [cluster |-> c.at.cluster, base |-> c.at.base]
    /\ ~fs[c.h].listed => SoughtSoFar(img, fs[c.h], c)
ListingClusters(fs, c) ==
    /\ OnFile(fs, c)
    /\ c = [op |-> "clusters", h |-> c.h, len |-> c.len, list |-> c.list,
            cluster |-> c.cluster, offset |-> c.offset]
CallOK(img, fs, ds, c) ==
    \/ c = NoCall
    \/ c.op = "find" /\ Searching(ds, c) /\ Finding(img, ds[c.h], c)
    \/ c.op = "next" /\ Searching(ds, c)
    \/ c.op = "read" /\ Reading(img, fs, c)
    \/ c.op = "seek" /\ Seeking(img, fs, c)
    \/ c.op = "clusters" /\ ListingClusters(fs, c)

Shape ==
    /\ image \in Images /\ VolumeOK(image, vol) /\ CacheLike(cache)
    /\ Table(files, MaxFiles) /\ Table(dirs, MaxDirs)
    /\ InUse(files, dirs, call) => vol.partValid
    /\ failures \in Nat /\ spoilt \in BOOLEAN
    /\ spoilt => call = NoCall
FileSysInv ==
    /\ Shape
    /\ ~spoilt => /\ GoodFiles(image, files) /\ CallOK(image, files, dirs, call)
                  /\ FileReadsAreRight /\ OpenFindsTheFile

(***************************************************************************)
(* Numbers.                                                                *)
(***************************************************************************)
\* Quotient and remainder, by a divisor that is not a number.
LEMMA DivMod ==
    ASSUME NEW a \in Nat, NEW n \in Nat \ {0}
    PROVE  /\ a \div n \in Nat /\ a % n \in Nat /\ a % n < n
           /\ a = (a \div n) * n + (a % n)
<1> DEFINE q == a \div n
           r == a % n
<1>1. q \in Int /\ r \in Int /\ 0 <= r /\ r < n /\ a = q * n + r
  BY SMT
<1> HIDE DEF q, r
<1>2. q >= 0
  <2> SUFFICES ASSUME q <= 0 - 1 PROVE FALSE
    BY <1>1, SMT
  <2>1. q * n <= (0 - 1) * n
    BY <1>1, SMT
  <2> QED
    BY <2>1, <1>1, SMT
<1> QED
  BY <1>1, <1>2, SMT DEF q, r

LEMMA DivModUnique ==
    ASSUME NEW n \in Nat \ {0}, NEW q \in Nat, NEW r \in Nat, r < n, NEW a, a = q * n + r
    PROVE  a \in Nat /\ a \div n = q /\ a % n = r
<1>0. a \in Nat
  BY SMT
<1> DEFINE x == a \div n
           y == a % n
<1>1. x \in Nat /\ y \in Nat /\ y < n /\ a = x * n + y
  BY <1>0, DivMod
<1> HIDE DEF x, y
<1> DEFINE d == x - q
<1>2. d \in Int /\ d * n = r - y
  BY <1>1, SMT
<1>3. ~(d >= 1)
  <2> SUFFICES ASSUME d >= 1 PROVE FALSE
    OBVIOUS
  <2> HIDE DEF d
  <2>1. d * n >= n
    BY <1>2, SMT
  <2> QED
    BY <2>1, <1>1, <1>2, SMT
<1>4. ~(d <= 0 - 1)
  <2> SUFFICES ASSUME d <= 0 - 1 PROVE FALSE
    OBVIOUS
  <2> HIDE DEF d
  <2>1. d * n <= 0 - n
    BY <1>2, SMT
  <2> QED
    BY <2>1, <1>1, <1>2, SMT
<1>5. d = 0
  BY <1>2, <1>3, <1>4, SMT
<1>6. x = q
  BY <1>5, <1>1, SMT
<1>7. y = r
  BY <1>6, <1>1, SMT
<1> QED
  BY <1>0, <1>6, <1>7 DEF x, y

LEMMA MinIs ==
    ASSUME NEW S, S \subseteq Int, NEW x \in S, \A y \in S : x <= y
    PROVE  Min(S) = x
<1>1. \A z \in S : (\A y \in S : z <= y) => z = x
  BY SMT
<1> QED
  BY <1>1 DEF Min

\* Chunks are the least of two lengths.
LEMMA MinOfTwo ==
    ASSUME NEW a \in Int, NEW b \in Int
    PROVE  Min({a, b}) = IF a <= b THEN a ELSE b
<1>1. CASE a <= b
  <2>1. Min({a, b}) = a
    BY <1>1, MinIs, SMT
  <2> QED
    BY <1>1, <2>1
<1>2. CASE ~(a <= b)
  <2>1. Min({a, b}) = b
    BY <1>2, MinIs, SMT
  <2> QED
    BY <1>2, <2>1
<1> QED
  BY <1>1, <1>2

\* A table of handles has a free one, or reports none.
LEMMA FreeHandleIsFree ==
    ASSUME NEW t, NEW n \in 0 .. 254, Table(t, n), FreeHandle(t) # kInvalidHandle
    PROVE  FreeHandle(t) \in 0 .. n - 1
<1> DEFINE S == {h \in DOMAIN t : ~t[h].valid}
<1>1. (\E h \in DOMAIN t : ~t[h].valid) /\ FreeHandle(t) = Min(S)
  BY Zenon DEF FreeHandle
<1>2. S \in SUBSET Nat /\ S \subseteq 0 .. n - 1
  BY SMT DEF Table
<1>3. PICK h \in S : TRUE
  BY <1>1
<1> DEFINE R == OpToRel(<, Nat)
<1>a. IsWellFoundedOn(R, Nat)
  BY NatLessThanWellFounded, Zenon
<1>b. \A x, y \in Nat : y < x => <<y, x>> \in R
  BY Zenon DEF OpToRel
<1> HIDE DEF R, S
<1>c. PICK m \in S : \A y \in S : ~(<<y, m>> \in R)
  BY <1>2, <1>3, <1>a, WFMin, Zenon
<1>4. \A k \in S : m <= k
  <2>1. \A y \in S : ~(y < m)
    BY <1>2, <1>b, <1>c, Zenon
  <2> QED
    BY <1>2, <2>1, SMT
<1>5. S \subseteq Int
  BY <1>2, SMT
<1>6. Min(S) = m
  BY <1>4, <1>5, MinIs, Zenon
<1> QED
  BY <1>1, <1>2, <1>4, <1>6

\* floor_log2() of a power of two is its exponent.
LEMMA FloorLog2 ==
    ASSUME NEW s \in 0 .. 16
    PROVE  floor_log2(2^s) = s
<1> DEFINE P(k) == 2^k
<1>1. \A k \in 0 .. 17 : P(k) \in Nat \ {0}
  <2> SUFFICES ASSUME NEW k \in 0 .. 17 PROVE P(k) \in Nat \ {0}
    OBVIOUS
  <2>1. 0 \in 0 .. 12
    BY SMT
  <2> QED
    BY <2>1, PowersOfTwo, Zenon
<1>2. \A k, c \in 0 .. 17 : k < c => 2 * P(k) <= P(c)
  <2> SUFFICES ASSUME NEW k \in 0 .. 17, NEW c \in 0 .. 17, k < c PROVE 2 * P(k) <= P(c)
    OBVIOUS
  <2>1. 0 \in 0 .. 12
    BY SMT
  <2> QED
    BY <2>1, PowersOfTwo, Zenon
<1>3. floor_log2(2^s) = CHOOSE t \in 0 .. 16 : P(t) <= P(s) /\ P(s) < P(t + 1)
  BY Zenon DEF floor_log2
<1> HIDE DEF P
<1>4. s + 1 \in 0 .. 17 /\ s \in 0 .. 17 /\ s < s + 1
  BY SMT
<1>5. P(s) <= P(s) /\ P(s) < P(s + 1)
  <2>1. P(s) \in Nat \ {0} /\ P(s + 1) \in Nat \ {0} /\ 2 * P(s) <= P(s + 1)
    BY <1>1, <1>2, <1>4
  <2> QED
    BY <2>1, SMT
<1>6. ASSUME NEW t \in 0 .. 16, P(t) <= P(s), P(s) < P(t + 1) PROVE t = s
  <2>1. t \in 0 .. 17 /\ t + 1 \in 0 .. 17
    BY SMT
  <2>2. P(s) \in Nat \ {0} /\ P(t) \in Nat \ {0} /\ P(t + 1) \in Nat \ {0}
    BY <1>1, <1>4, <2>1
  <2>3. ~(s < t)
    BY <1>2, <1>4, <1>6, <2>1, <2>2, SMT
  <2>4. ~(t + 1 < s)
    BY <1>2, <1>4, <1>6, <2>1, <2>2, SMT
  <2>5. t + 1 # s
    BY <1>6, <2>2, SMT
  <2> QED
    BY <2>3, <2>4, <2>5, SMT
<1> QED
  BY <1>3, <1>5, <1>6, Zenon

\* A block and a cluster have cells.
LEMMA BlockCells == kBlockLen \in Nat \ {0}
<1>1. BlockShift \in 0 .. 17 /\ 0 \in 0 .. 12
  BY FileSysAssumption, SMT
<1> QED
  BY <1>1, PowersOfTwo, Zenon DEF kBlockLen

LEMMA Clusters ==
    ASSUME NEW img \in Images
    PROVE  \E k \in 0 .. 7 : /\ img.ebr.secsPerCluster = 2^k
                             /\ 2^k \in Nat \ {0} /\ BlocksPerCluster(img) = 2^k
                             /\ ClusterCells(img) = 2^k * kBlockLen
                             /\ ClusterCells(img) = 2^(k + BlockShift)
<1>1. PICK k \in 0 .. 7 : img.ebr.secsPerCluster = 2^k
  BY ImagesAssumption DEF SoundGeometry
<1>2. k \in 0 .. 17 /\ BlockShift \in 0 .. 12
  BY FileSysAssumption, SMT
<1>3. 2^k \in Nat \ {0} /\ 2^(k + BlockShift) = 2^k * 2^BlockShift
  BY <1>2, PowersOfTwo, Zenon
<1>4. img.ebr.bytesPerSector = kBlockLen
  BY ImagesAssumption DEF SoundGeometry
<1>5. kBlockLen \div kBlockLen = 1
  <2>1. kBlockLen = 1 * kBlockLen + 0
    BY BlockCells, SMT
  <2> QED
    BY <2>1, BlockCells, DivModUnique, SMT
<1>6. BlocksPerCluster(img) = 2^k
  <2> DEFINE p == 2^k
  <2>1. p \in Nat
    BY <1>3, Zenon
  <2>2. BlocksPerCluster(img) = p * 1
    BY <1>1, <1>4, <1>5, Zenon DEF BlocksPerCluster
  <2> HIDE DEF p
  <2>3. p * 1 = p
    BY <2>1, SMT
  <2> QED
    BY <2>2, <2>3, Zenon DEF p
<1>7. ClusterCells(img) = 2^k * kBlockLen
  BY <1>6, Zenon DEF ClusterCells
<1> QED
  BY <1>1, <1>3, <1>6, <1>7, Zenon DEF kBlockLen

LEMMA ClusterIsBlocks ==
    ASSUME NEW img \in Images
    PROVE  /\ BlocksPerCluster(img) \in Nat \ {0} /\ ClusterCells(img) \in Nat \ {0}
           /\ ClusterCells(img) = BlocksPerCluster(img) * kBlockLen
<1>1. BlocksPerCluster(img) \in Nat \ {0}
  BY Clusters, Zenon
<1>2. ClusterCells(img) = BlocksPerCluster(img) * kBlockLen
  BY DEF ClusterCells
<1> QED
  BY <1>1, <1>2, BlockCells, SMT

\* init() of the source takes the layout of a sound volume from its EBR as it
\* is: the FAT, the heap, and the size of a cluster.
LEMMA GeometryIsRight ==
    ASSUME NEW img \in Images, Suitable(img.mbr)
    PROVE  LET g == Geometry(img)
           IN  /\ g = [partValid |-> g.partValid, fatStart |-> g.fatStart,
                       clusterHeapStart |-> g.clusterHeapStart, rootCluster |-> g.rootCluster,
                       blksPerClusterShift |-> g.blksPerClusterShift, clusterBytes |-> g.clusterBytes]
               /\ g.partValid \in BOOLEAN
               /\ g.fatStart = FatBlock(img) /\ g.clusterHeapStart = HeapBlock(img)
               /\ g.rootCluster = img.ebr.rootCluster
               /\ 2^g.blksPerClusterShift = BlocksPerCluster(img) /\ g.clusterBytes = ClusterCells(img)
<1> DEFINE e == img.ebr
           start == blk_offset(img.mbr)
           bs == floor_log2(e.bytesPerSector)
           ss == floor_log2(e.secsPerCluster)
           valid == bs \in BlockShift .. BlockShift + 3 /\ ss <= BlockShift + 16 - bs
           heap == start + ((e.resvdSectors + e.numFATs * e.secsPerFAT) * 2^bs) \div kBlockLen
           g == Geometry(img)
<1>1. g = [partValid |-> valid, fatStart |-> start + e.resvdSectors, clusterHeapStart |-> heap,
           rootCluster |-> e.rootCluster, blksPerClusterShift |-> ss, clusterBytes |-> 2^(ss + bs)]
  BY Zenon DEF Geometry
<1>2. start = img.mbr.lba /\ e.bytesPerSector = kBlockLen
  BY ImagesAssumption DEF SoundGeometry
<1>3. e.resvdSectors \in Nat /\ e.secsPerFAT \in Nat /\ e.numFATs \in Nat /\ img.mbr.lba \in Nat
  BY ImagesAssumption DEF SoundGeometry
<1>4. bs = BlockShift
  <2>1. BlockShift \in 0 .. 16
    BY FileSysAssumption, SMT
  <2> QED
    BY <1>2, <2>1, FloorLog2, Zenon DEF kBlockLen
<1>5. PICK k \in 0 .. 7 : /\ img.ebr.secsPerCluster = 2^k /\ BlocksPerCluster(img) = 2^k
                          /\ ClusterCells(img) = 2^(k + BlockShift)
  BY Clusters, Zenon
<1>6. ss = k
  <2>1. k \in 0 .. 16
    BY SMT
  <2> QED
    BY <1>5, <2>1, FloorLog2, Zenon
<1>7. heap = HeapBlock(img)
  <2> DEFINE n == e.resvdSectors + e.numFATs * e.secsPerFAT
  <2>1. n \in Nat
    BY <1>3, SMT
  <2>2. heap = start + (n * kBlockLen) \div kBlockLen
    BY <1>4, Zenon DEF kBlockLen
  <2>3. (n * kBlockLen) \div kBlockLen = n
    <3> HIDE DEF n
    <3>1. n * kBlockLen = n * kBlockLen + 0
      BY <2>1, BlockCells, SMT
    <3> QED
      BY <2>1, <3>1, BlockCells, DivModUnique, SMT
  <2>4. HeapBlock(img) = (start + e.resvdSectors) + e.numFATs * e.secsPerFAT
    BY <1>2, Zenon DEF HeapBlock, FatBlock
  <2>5. start + n = (start + e.resvdSectors) + e.numFATs * e.secsPerFAT
    <3> DEFINE x == e.resvdSectors
               y == e.numFATs * e.secsPerFAT
    <3>1. x \in Int /\ y \in Int /\ start \in Int
      BY <1>2, <1>3, SMT
    <3>2. n = x + y
      OBVIOUS
    <3> HIDE DEF x, y, n, start
    <3>3. start + n = (start + x) + y
      BY <3>1, <3>2, SMT
    <3> QED
      BY <3>3, Zenon DEF x, y
  <2> QED
    BY <2>2, <2>3, <2>4, <2>5, Zenon
<1>8. start + e.resvdSectors = FatBlock(img)
  BY <1>2, Zenon DEF FatBlock
<1>9. valid \in BOOLEAN
  BY Zenon
<1>13. g = [partValid |-> valid, fatStart |-> FatBlock(img), clusterHeapStart |-> HeapBlock(img),
            rootCluster |-> e.rootCluster, blksPerClusterShift |-> k, clusterBytes |-> 2^(k + BlockShift)]
  BY <1>1, <1>4, <1>6, <1>7, <1>8, Zenon
<1> HIDE DEF valid, heap, start, bs, ss, g, e
<1>10. /\ g.partValid = valid /\ g.fatStart = FatBlock(img) /\ g.clusterHeapStart = HeapBlock(img)
       /\ g.rootCluster = e.rootCluster /\ g.blksPerClusterShift = k
       /\ g.clusterBytes = 2^(k + BlockShift)
  BY <1>13
<1>11. g = [partValid |-> g.partValid, fatStart |-> g.fatStart,
            clusterHeapStart |-> g.clusterHeapStart, rootCluster |-> g.rootCluster,
            blksPerClusterShift |-> g.blksPerClusterShift, clusterBytes |-> g.clusterBytes]
  BY <1>10, <1>13, Zenon
<1>12. 2^g.blksPerClusterShift = BlocksPerCluster(img) /\ g.clusterBytes = ClusterCells(img)
  BY <1>5, <1>10, Zenon
<1> QED
  BY <1>9, <1>10, <1>11, <1>12, Zenon DEF g, e

(***************************************************************************)
(* The medium and the cache.                                               *)
(***************************************************************************)
LEMMA Layout ==
    ASSUME NEW img \in Images
    PROVE  /\ FatBlock(img) \in Nat
           /\ \E n \in Nat : HeapBlock(img) = FatBlock(img) + n /\ img.ebr.secsPerFAT <= n
           /\ img.ebr.secsPerFAT \in Nat
<1>1. /\ img.ebr.resvdSectors \in Nat /\ img.ebr.secsPerFAT \in Nat /\ img.ebr.numFATs \in Nat \ {0}
      /\ img.mbr.lba \in Nat
  BY ImagesAssumption DEF SoundGeometry
<1>2. FatBlock(img) \in Nat
  BY <1>1, SMT DEF FatBlock
<1> DEFINE x == img.ebr.numFATs
           y == img.ebr.secsPerFAT
<1>3. HeapBlock(img) = FatBlock(img) + x * y
  BY DEF HeapBlock
<1>4. x * y \in Nat /\ y <= x * y
  <2> HIDE DEF x, y
  <2> SUFFICES ASSUME x \in Nat \ {0}, y \in Nat PROVE x * y \in Nat /\ y <= x * y
    BY <1>1 DEF x, y
  <2>1. PICK z \in Nat : x = z + 1
    BY SMT
  <2>2. x * y = z * y + y /\ z * y \in Nat
    BY <2>1, SMT
  <2> QED
    BY <2>2, SMT
<1> QED
  BY <1>1, <1>2, <1>3, <1>4, Zenon

LEMMA MediumCell ==
    ASSUME NEW img, NEW block, NEW i \in 0 .. kBlockLen - 1
    PROVE  Medium(img, block)[i] =
             LET f == (block - FatBlock(img)) * kBlockLen + i
                 h == (block - HeapBlock(img)) * kBlockLen + i
                 c == 2 + (h \div ClusterCells(img))
             IN  CASE f >= 0 /\ block < HeapBlock(img) /\ f \in DOMAIN img.fat -> <<img.fat[f]>>
                   [] h >= 0 /\ c \in DOMAIN img.heap -> img.heap[c][(h % ClusterCells(img)) + 1]
                   [] OTHER -> Garbage
BY Zenon DEF Medium

\* The entry of a cluster in the FAT is where cluster_next() looks for it.
LEMMA MediumFat ==
    ASSUME NEW img \in Images, NEW cluster \in DOMAIN img.fat
    PROVE  Medium(img, FatBlock(img) + (cluster \div kBlockLen))[cluster % kBlockLen] = <<img.fat[cluster]>>
<1> DEFINE q == cluster \div kBlockLen
           i == cluster % kBlockLen
           F == FatBlock(img)
           H == HeapBlock(img)
           block == F + q
           f == (block - F) * kBlockLen + i
           h == (block - H) * kBlockLen + i
<1>1. cluster \in Nat /\ q < img.ebr.secsPerFAT
  BY ImagesAssumption DEF SoundFat
<1>2. q \in Nat /\ i \in Nat /\ i < kBlockLen /\ cluster = q * kBlockLen + i
  BY <1>1, BlockCells, DivMod
<1>3. F \in Nat /\ (\E n \in Nat : H = F + n /\ img.ebr.secsPerFAT <= n) /\ img.ebr.secsPerFAT \in Nat
  BY Layout
<1>4. PICK n \in Nat : H = F + n /\ q < n
  BY <1>1, <1>2, <1>3, SMT
<1>5. i \in 0 .. kBlockLen - 1
  BY <1>2, BlockCells, SMT
<1> HIDE DEF q, i, F, H
<1>6. block < H /\ f = cluster /\ f >= 0
  BY <1>1, <1>2, <1>3, <1>4, BlockCells, SMT
<1>7. h < 0
  <2>1. h = (q - n) * kBlockLen + i
    BY <1>2, <1>3, <1>4, SMT
  <2>2. (q - n) * kBlockLen <= 0 - kBlockLen
    <3>1. q - n \in Int /\ q - n <= 0 - 1
      BY <1>2, <1>4, SMT
    <3> DEFINE d == q - n
    <3> HIDE DEF d
    <3>2. d * kBlockLen <= (0 - 1) * kBlockLen
      BY <3>1, BlockCells, SMT DEF d
    <3> QED
      BY <3>2, BlockCells, SMT DEF d
  <2> QED
    BY <2>1, <2>2, <1>2, BlockCells, SMT
<1>8. ~(h >= 0)
  <2>1. h \in Int
    BY <1>2, <1>3, <1>4, BlockCells, SMT
  <2> HIDE DEF h
  <2> QED
    BY <1>7, <2>1, SMT
<1>9. f \in DOMAIN img.fat
  BY <1>6
<1>10. Medium(img, block)[i] =
         CASE f >= 0 /\ block < H /\ f \in DOMAIN img.fat -> <<img.fat[f]>>
           [] h >= 0 /\ 2 + (h \div ClusterCells(img)) \in DOMAIN img.heap ->
                 img.heap[2 + (h \div ClusterCells(img))][(h % ClusterCells(img)) + 1]
           [] OTHER -> Garbage
  BY <1>5, MediumCell, Zenon DEF F, H
<1> HIDE DEF block, f, h
<1>11. Medium(img, block)[i] = <<img.fat[f]>>
  BY <1>6, <1>8, <1>9, <1>10, Zenon
<1> QED
  BY <1>6, <1>11, Zenon DEF block, F, q, i

\* A cell of a cluster is where object_read() looks for it.
LEMMA MediumHeap ==
    ASSUME NEW img \in Images, NEW cluster \in DOMAIN img.heap, NEW r \in Nat, r < ClusterCells(img)
    PROVE  Medium(img, HeapBlock(img) + (cluster - 2) * BlocksPerCluster(img) + (r \div kBlockLen))[r % kBlockLen]
             = img.heap[cluster][r + 1]
<1> DEFINE q == r \div kBlockLen
           i == r % kBlockLen
           F == FatBlock(img)
           H == HeapBlock(img)
           B == BlocksPerCluster(img)
           C == ClusterCells(img)
           block == H + (cluster - 2) * B + q
           f == (block - F) * kBlockLen + i
           h == (block - H) * kBlockLen + i
<1>1. cluster \in Nat /\ cluster >= 2
  BY ImagesAssumption DEF SoundFat
<1>2. q \in Nat /\ i \in Nat /\ i < kBlockLen /\ r = q * kBlockLen + i
  BY BlockCells, DivMod
<1>3. H \in Nat /\ F \in Nat
  BY Layout, SMT
<1>4. B \in Nat \ {0} /\ C \in Nat \ {0} /\ C = B * kBlockLen
  BY ClusterIsBlocks
<1>5. i \in 0 .. kBlockLen - 1
  BY <1>2, BlockCells, SMT
<1>6. r < C
  OBVIOUS
<1> DEFINE c == cluster - 2
<1>7. c \in Nat /\ cluster = c + 2
  BY <1>1, SMT
<1> HIDE DEF q, i, F, H, B, C, c
<1>8. c * B \in Nat
  BY <1>4, <1>7, SMT
<1>9. block = H + c * B + q
  BY DEF c
<1>10. ~(block < H)
  BY <1>2, <1>3, <1>8, <1>9, SMT
<1>11. h = c * C + r
  <2>1. block - H = c * B + q
    BY <1>2, <1>3, <1>8, <1>9, SMT
  <2>2. (c * B + q) * kBlockLen = (c * B) * kBlockLen + q * kBlockLen
    BY <1>2, <1>8, BlockCells, SMT
  <2>3. (c * B) * kBlockLen = c * C
    BY <1>4, <1>7, BlockCells, SMT
  <2> DEFINE u == q * kBlockLen
             v == c * C
  <2>4. u \in Nat /\ v \in Nat
    BY <1>2, <1>4, <1>7, BlockCells, SMT
  <2>5. h = (v + u) + i
    BY <2>1, <2>2, <2>3
  <2>6. r = u + i
    BY <1>2
  <2> HIDE DEF u, v, h
  <2>7. h = v + r
    BY <1>2, <2>4, <2>5, <2>6, SMT
  <2> QED
    BY <2>7 DEF v
<1>12. h \in Nat /\ h \div C = c /\ h % C = r
  <2> HIDE DEF h
  <2>1. C \in Nat \ {0} /\ c \in Nat /\ r \in Nat /\ r < C /\ h = c * C + r
    BY <1>4, <1>6, <1>7, <1>11
  <2>2. h \in Nat
    BY <2>1, DivModUnique, Zenon
  <2>3. h \div C = c
    BY <2>1, DivModUnique, Zenon
  <2>4. h % C = r
    BY <2>1, DivModUnique, Zenon
  <2> QED
    BY <2>2, <2>3, <2>4, Zenon
<1>13. 2 + (h \div C) = cluster /\ h >= 0
  BY <1>7, <1>12, SMT
<1>14. Medium(img, block)[i] =
         CASE f >= 0 /\ block < H /\ f \in DOMAIN img.fat -> <<img.fat[f]>>
           [] h >= 0 /\ 2 + (h \div C) \in DOMAIN img.heap -> img.heap[2 + (h \div C)][(h % C) + 1]
           [] OTHER -> Garbage
  BY <1>5, MediumCell, Zenon DEF F, H, C
<1> HIDE DEF block, f, h
<1>15. Medium(img, block)[i] = img.heap[cluster][r + 1]
  BY <1>10, <1>12, <1>13, <1>14, Zenon
<1> QED
  BY <1>15, Zenon DEF block, H, B, q, i

\* block_ensure(): the slot it names holds the block, and its data unless the
\* slot was spoilt before; every other slot that it leaves the number of, it
\* leaves as it was.
LEMMA BlockEnsured ==
    ASSUME NEW c, CacheLike(c), NEW block, NEW bad, NEW b, b = block_ensure(c, block, bad)
    PROVE  /\ CacheLike(b.c) /\ b.spoilt \in BOOLEAN /\ b.idx \in Int
           /\ b.idx >= 0 =>
                /\ b.idx \in 0 .. CacheEntries - 1 /\ b.c.entry[b.idx].block = block
                /\ ~b.spoilt => b.c.entry[b.idx].data = Medium(image, block)
                /\ \A i \in 0 .. CacheEntries - 1 :
                      b.c.entry[i].block = c.entry[i].block => b.c.entry[i] = c.entry[i]
<1> DEFINE I == 0 .. CacheEntries - 1
           hit == \E i \in DOMAIN c.entry : c.entry[i].block = block
<1>1. DOMAIN c.entry = I
  BY DEF CacheLike
<1>2. CacheEntries \in Nat \ {0}
  BY FileSysAssumption
<1>3. c.next \in I
  BY DEF CacheLike
<1>4. CASE hit
  <2> DEFINE i == CHOOSE j \in DOMAIN c.entry : c.entry[j].block = block
  <2>1. i \in I /\ c.entry[i].block = block
    BY <1>1, <1>4, Zenon
  <2>2. b = [c |-> c, idx |-> i, spoilt |-> c.entry[i].data # Medium(image, block)]
    BY <1>4, Zenon DEF block_ensure
  <2> HIDE DEF i
  <2>3. b.c = c /\ b.idx = i /\ b.spoilt = (c.entry[i].data # Medium(image, block))
    BY <2>2
  <2>4. i \in Int
    BY <1>2, <2>1, SMT
  <2> QED
    BY <2>1, <2>3, <2>4, Zenon
<1>5. CASE ~hit /\ block \in bad
  <2> DEFINE c1 == [c EXCEPT !.entry[c.next].data = Garbage]
  <2>1. b = [c |-> c1, idx |-> -1, spoilt |-> FALSE]
    BY <1>5, Zenon DEF block_ensure
  <2>2. b.c = c1 /\ b.idx = 0 - 1 /\ b.spoilt = FALSE
    BY <2>1
  <2>3. CacheLike(c1)
    <3>1. c1 = [entry |-> [c.entry EXCEPT ![c.next].data = Garbage], next |-> c.next]
      <4> DEFINE E == c.entry
                 x == c.next
                 E1 == [E EXCEPT ![x].data = Garbage]
      <4>1. c = [entry |-> E, next |-> x]
        BY DEF CacheLike
      <4>2. c1 = [c EXCEPT !.entry = E1]
        BY Zenon
      <4> HIDE DEF E, x, E1
      <4>3. [c EXCEPT !.entry = E1] = [entry |-> E1, next |-> x]
        BY <4>1
      <4> QED
        BY <4>2, <4>3, Zenon DEF E, x, E1
    <3>2. /\ c1.next = c.next
          /\ c1.entry = [i \in I |-> IF i = c.next THEN [c.entry[i] EXCEPT !.data = Garbage] ELSE c.entry[i]]
      BY <1>1, <1>3, <3>1 DEF CacheLike
    <3>3. c1.entry = [i \in I |-> c1.entry[i]]
      BY <3>2, Zenon
    <3>4. ASSUME NEW i \in I PROVE c1.entry[i] = [block |-> c1.entry[i].block, data |-> c1.entry[i].data]
      <4>1. c.entry[i] = [block |-> c.entry[i].block, data |-> c.entry[i].data]
        BY DEF CacheLike
      <4>2. CASE i = c.next
        <5>1. c1.entry[i] = [c.entry[i] EXCEPT !.data = Garbage]
          BY <3>2, <4>2, Zenon
        <5>2. c1.entry[i] = [block |-> c.entry[i].block, data |-> Garbage]
          BY <4>1, <5>1
        <5> QED
          BY <5>2
      <4>3. CASE i # c.next
        <5>1. c1.entry[i] = c.entry[i]
          BY <3>2, <4>3, Zenon
        <5> QED
          BY <4>1, <5>1, Zenon
      <4> QED
        BY <4>2, <4>3
    <3>5. c1 = [entry |-> c1.entry, next |-> c1.next]
      BY <3>1
    <3> HIDE DEF c1
    <3> QED
      BY <1>3, <3>2, <3>3, <3>4, <3>5, Zenon DEF CacheLike
  <2> HIDE DEF c1
  <2>4. ~(b.idx >= 0) /\ b.idx \in Int
    BY <2>2, SMT
  <2> QED
    BY <2>2, <2>3, <2>4, Zenon
<1>6. CASE ~hit /\ block \notin bad
  <2> DEFINE new == [block |-> block, data |-> Medium(image, block)]
             c1 == [entry |-> [c.entry EXCEPT ![c.next] = new], next |-> (c.next + 1) % CacheEntries]
  <2>1. b = [c |-> c1, idx |-> c.next, spoilt |-> FALSE]
    BY <1>6, Zenon DEF block_ensure
  <2>2. b.c = c1 /\ b.idx = c.next /\ b.spoilt = FALSE
    BY <2>1
  <2>3. c1.entry = [i \in I |-> IF i = c.next THEN new ELSE c.entry[i]]
    BY <1>1, <1>3 DEF CacheLike
  <2>4. c1.next \in I
    BY <1>2, <1>3, SMT
  <2>5. c1 = [entry |-> c1.entry, next |-> c1.next]
    OBVIOUS
  <2>6. new.block = block /\ new.data = Medium(image, block) /\ new = [block |-> new.block, data |-> new.data]
    OBVIOUS
  <2> HIDE DEF c1, new
  <2>7. c1.entry = [i \in I |-> c1.entry[i]]
    BY <2>3, Zenon
  <2>8. ASSUME NEW i \in I PROVE c1.entry[i] = [block |-> c1.entry[i].block, data |-> c1.entry[i].data]
    <3>1. c.entry[i] = [block |-> c.entry[i].block, data |-> c.entry[i].data]
      BY DEF CacheLike
    <3> QED
      BY <2>3, <2>6, <3>1, Zenon
  <2>9. CacheLike(c1)
    BY <2>4, <2>5, <2>7, <2>8, Zenon DEF CacheLike
  <2>10. c1.entry[c.next] = new
    BY <1>3, <2>3, Zenon
  <2>11. ASSUME NEW i \in I, c1.entry[i].block = c.entry[i].block PROVE c1.entry[i] = c.entry[i]
    <3>1. i # c.next
      BY <1>1, <1>6, <2>6, <2>10, <2>11, Zenon
    <3> QED
      BY <2>3, <3>1, Zenon
  <2>12. c.next \in Int
    BY <1>2, <1>3, SMT
  <2> QED
    BY <1>3, <2>2, <2>6, <2>9, <2>10, <2>11, <2>12, Zenon
<1> QED
  BY <1>4, <1>5, <1>6, Zenon

\* cluster_next(): what the FAT says of the cluster, or a failure.
LEMMA ClusterNext ==
    ASSUME NEW c, CacheLike(c), NEW cluster, NEW bad, NEW n, n = cluster_next(c, cluster, bad),
           image \in Images, MountedAs(image, vol)
    PROVE  /\ CacheLike(n.c) /\ n.ok \in BOOLEAN /\ n.spoilt \in BOOLEAN
           /\ n.ok => \A i \in 0 .. CacheEntries - 1 :
                         n.c.entry[i].block = c.entry[i].block => n.c.entry[i] = c.entry[i]
           /\ n.ok /\ ~n.spoilt /\ cluster \in DOMAIN image.fat => n.next = image.fat[cluster]
<1> DEFINE b == block_ensure(c, FatBlockOf(cluster), bad)
           x == IF b.idx >= 0 /\ ~b.spoilt THEN b.c.entry[b.idx].data[cluster % kBlockLen][1] ELSE 0
<1>1. n = [c |-> b.c, ok |-> b.idx >= 0, spoilt |-> b.spoilt, next |-> x]
  BY Zenon DEF cluster_next
<1>2. /\ CacheLike(b.c) /\ b.spoilt \in BOOLEAN /\ b.idx \in Int
      /\ b.idx >= 0 =>
           /\ b.idx \in 0 .. CacheEntries - 1 /\ b.c.entry[b.idx].block = FatBlockOf(cluster)
           /\ ~b.spoilt => b.c.entry[b.idx].data = Medium(image, FatBlockOf(cluster))
           /\ \A i \in 0 .. CacheEntries - 1 :
                 b.c.entry[i].block = c.entry[i].block => b.c.entry[i] = c.entry[i]
  <2>1. b = block_ensure(c, FatBlockOf(cluster), bad)
    OBVIOUS
  <2> HIDE DEF b
  <2> QED
    BY <2>1, BlockEnsured
<1> HIDE DEF b
<1>3. n.c = b.c /\ n.ok = (b.idx >= 0) /\ n.spoilt = b.spoilt /\ n.next = x
  <2> DEFINE y == b.idx >= 0
             z == b.spoilt
  <2>1. n = [c |-> b.c, ok |-> y, spoilt |-> z, next |-> x]
    BY <1>1, Zenon
  <2> HIDE DEF x, y, z
  <2>2. n.c = b.c /\ n.ok = y /\ n.spoilt = z /\ n.next = x
    BY <2>1
  <2> QED
    BY <2>2, Zenon DEF y, z
<1>4. ASSUME n.ok, ~n.spoilt, cluster \in DOMAIN image.fat PROVE n.next = image.fat[cluster]
  <2>1. b.idx >= 0 /\ ~b.spoilt
    BY <1>3, <1>4, Zenon
  <2>2. n.next = Medium(image, FatBlockOf(cluster))[cluster % kBlockLen][1]
    BY <1>2, <1>3, <2>1, Zenon
  <2>3. FatBlockOf(cluster) = FatBlock(image) + (cluster \div kBlockLen)
    BY Zenon DEF FatBlockOf, MountedAs
  <2>4. Medium(image, FatBlockOf(cluster))[cluster % kBlockLen] = <<image.fat[cluster]>>
    BY <1>4, <2>3, MediumFat, Zenon
  <2> QED
    BY <2>2, <2>4
<1> HIDE DEF x
<1>5. n.ok \in BOOLEAN
  <2>1. (b.idx >= 0) \in BOOLEAN
    BY <1>2, SMT
  <2> QED
    BY <1>3, <2>1, Zenon
<1> QED
  BY <1>2, <1>3, <1>4, <1>5, Zenon

(***************************************************************************)
(* Reads of an object.                                                     *)
(***************************************************************************)
\* A block lies within a cluster: cells that follow in the block follow in the
\* cluster, and a chunk that ends with the block may end the cluster.
LEMMA WithinBlock ==
    ASSUME NEW img \in Images, NEW o \in Nat
    PROVE  LET C == ClusterCells(img)
               x == o % C
           IN  /\ \A j \in Nat : (o % kBlockLen) + j < kBlockLen =>
                     /\ x + j \in Nat /\ x + j < C
                     /\ (o + j) \div C = o \div C /\ (o + j) % C = x + j
                     /\ (x + j) \div kBlockLen = x \div kBlockLen
                     /\ (x + j) % kBlockLen = (o % kBlockLen) + j
               /\ \A n \in Nat \ {0} : (o % kBlockLen) + n <= kBlockLen =>
                     \/ (o + n) \div C = o \div C /\ (o + n) % C # 0
                     \/ (o + n) \div C = (o \div C) + 1 /\ (o + n) % C = 0
<1> DEFINE C == ClusterCells(img)
           B == BlocksPerCluster(img)
           K == kBlockLen
           k == o \div C
           x == o % C
           q == x \div K
           s == x % K
<1>1. K \in Nat \ {0} /\ B \in Nat \ {0} /\ C \in Nat \ {0} /\ C = B * K
  BY BlockCells, ClusterIsBlocks
<1>2. k \in Nat /\ x \in Nat /\ x < C /\ o = k * C + x
  BY <1>1, DivMod
<1>3. q \in Nat /\ s \in Nat /\ s < K /\ x = q * K + s
  BY <1>1, <1>2, DivMod
<1> HIDE DEF C, B, K, k, x, q, s
<1>4. q + 1 <= B
  <2> SUFFICES ASSUME q >= B PROVE FALSE
    BY <1>1, <1>3, SMT
  <2>1. PICK d \in Nat : q = B + d
    BY <1>1, <1>3, SMT
  <2>2. q * K = B * K + d * K /\ d * K \in Nat
    BY <1>1, <2>1, SMT
  <2> QED
    BY <1>1, <1>2, <1>3, <2>2, SMT
<1>5. PICK t \in Nat : C = q * K + K + t
  <2>1. PICK d \in Nat : B = q + 1 + d
    BY <1>1, <1>3, <1>4, SMT
  <2>2. B * K = q * K + K + d * K /\ d * K \in Nat
    BY <1>1, <1>3, <2>1, SMT
  <2> QED
    BY <1>1, <2>2
<1>6. o % K = s
  <2>1. k * B + q \in Nat
    BY <1>1, <1>2, <1>3, SMT
  <2>2. (k * B + q) * K = k * C + q * K
    BY <1>1, <1>2, <1>3, SMT
  <2> DEFINE u == k * C
             v == q * K
  <2>3. u \in Nat /\ v \in Nat
    BY <1>1, <1>2, <1>3, SMT
  <2>4. o = u + v + s
    <3>1. o = u + x /\ x = v + s
      BY <1>2, <1>3
    <3> HIDE DEF u, v
    <3> QED
      BY <1>3, <2>3, <3>1, SMT
  <2>5. o = (k * B + q) * K + s
    BY <2>2, <2>4
  <2> QED
    BY <1>1, <1>3, <2>1, <2>5, DivModUnique
<1>7. ASSUME NEW j \in Nat, s + j < K
      PROVE  /\ x + j \in Nat /\ x + j < C
             /\ (o + j) \div C = k /\ (o + j) % C = x + j
             /\ (x + j) \div K = q /\ (x + j) % K = s + j
  <2> DEFINE u == k * C
             v == q * K
  <2>1. u \in Nat /\ v \in Nat
    BY <1>1, <1>2, <1>3, SMT
  <2>2. o = u + x /\ x = v + s /\ C = v + K + t
    BY <1>2, <1>3, <1>5
  <2> HIDE DEF u, v
  <2>3. x + j \in Nat /\ x + j < C
    BY <1>1, <1>2, <1>3, <1>7, <2>1, <2>2, SMT
  <2>0. x \in Nat /\ s \in Nat /\ k \in Nat /\ q \in Nat
    BY <1>2, <1>3
  <2>4. o + j = u + (x + j) /\ x + j = v + (s + j) /\ s + j \in Nat
    BY <2>0, <2>1, <2>2, SMT
  <2>7. o + j = k * C + (x + j) /\ x + j = q * K + (s + j)
    BY <2>4, Zenon DEF u, v
  <2> DEFINE a == o + j
             y == x + j
             z == s + j
  <2>8. a = k * C + y /\ y = q * K + z /\ y \in Nat /\ y < C /\ z \in Nat /\ z < K
    BY <1>7, <2>3, <2>4, <2>7
  <2> HIDE DEF a, y, z
  <2>5. a \div C = k /\ a % C = y
    <3>1. C \in Nat \ {0} /\ k \in Nat
      BY <1>1, <2>0
    <3>2. a = k * C + y /\ y \in Nat /\ y < C
      BY <2>8
    <3> QED
      BY <3>1, <3>2, DivModUnique
  <2>6. y \div K = q /\ y % K = z
    BY <1>1, <2>0, <2>8, DivModUnique, Zenon
  <2> QED
    BY <2>3, <2>5, <2>6, Zenon DEF a, y, z
<1>8. ASSUME NEW n \in Nat \ {0}, s + n <= K
      PROVE  \/ (o + n) \div C = k /\ (o + n) % C # 0
             \/ (o + n) \div C = k + 1 /\ (o + n) % C = 0
  <2> DEFINE u == k * C
             v == q * K
  <2>1. u \in Nat /\ v \in Nat
    BY <1>1, <1>2, <1>3, SMT
  <2>2. o = u + x /\ x = v + s /\ C = v + K + t
    BY <1>2, <1>3, <1>5
  <2>3. (k + 1) * C = u + C
    BY <1>1, <1>2, SMT
  <2> DEFINE a == o + n
             y == x + n
  <2> HIDE DEF u, v
  <2>4. x + n <= C /\ o + n = u + (x + n) /\ x + n \in Nat /\ x + n # 0
    BY <1>1, <1>2, <1>3, <1>8, <2>1, <2>2, SMT
  <2>5. CASE x + n < C
    <3>0. o + n = k * C + (x + n) /\ k \in Nat
      BY <1>2, <2>4, Zenon DEF u
    <3>1. a = k * C + y /\ y \in Nat /\ y < C /\ y # 0
      BY <2>4, <2>5, <3>0
    <3> HIDE DEF a, y
    <3>3. C \in Nat \ {0} /\ k \in Nat
      BY <1>1, <3>0
    <3>2. a \div C = k /\ a % C = y
      BY <3>1, <3>3, DivModUnique
    <3> QED
      BY <3>1, <3>2, Zenon DEF a
  <2>6. CASE x + n = C
    <3>1. o + n = (k + 1) * C + 0 /\ k + 1 \in Nat
      BY <1>1, <1>2, <2>1, <2>3, <2>4, <2>6, SMT
    <3> DEFINE l == k + 1
    <3>2. 0 \in Nat /\ 0 < C /\ a = l * C + 0 /\ l \in Nat
      BY <1>1, <3>1, SMT
    <3> HIDE DEF a, l
    <3>4. C \in Nat \ {0}
      BY <1>1
    <3>3. a \div C = l /\ a % C = 0
      BY <3>2, <3>4, DivModUnique
    <3> QED
      BY <3>3, Zenon DEF a, l
  <2> QED
    BY <1>1, <1>2, <2>4, <2>5, <2>6, SMT
<1> QED
  BY <1>6, <1>7, <1>8, Zenon DEF C, K, k, x, q

\* The two blocks of a round of object_read(), and the fields of its result.
ChunkBlocks(obj, bad, b, n) ==
    /\ b = block_ensure(cache, block_number(obj.currCluster, obj.offset % vol.clusterBytes), bad)
    /\ n = cluster_next(b.c, obj.currCluster, bad)
ChunkLen(obj, len) == Min({len, Min({kBlockLen - (obj.offset % kBlockLen), obj.length - obj.offset})})
NextOffset(obj, len) == obj.offset + ChunkLen(obj, len)
Crosses(obj, len) == NextOffset(obj, len) % vol.clusterBytes = 0 /\ obj.length > NextOffset(obj, len)
ChunkFields(r, obj, len, b, n) ==
    /\ r.c = IF b.idx >= 0 /\ Crosses(obj, len) THEN n.c ELSE b.c
    /\ r.ok = (b.idx >= 0 /\ (Crosses(obj, len) => n.ok))
    /\ r.evicted = (r.ok /\ ~b.spoilt /\ r.c.entry[b.idx].block # b.c.entry[b.idx].block)
    /\ r.spoilt = (b.spoilt \/ r.evicted \/ (b.idx >= 0 /\ Crosses(obj, len) /\ n.spoilt))
    /\ r.obj = IF r.ok THEN [obj EXCEPT !.offset = NextOffset(obj, len),
                                        !.currCluster = IF Crosses(obj, len) THEN n.next ELSE @]
               ELSE obj
    /\ r.data = IF r.ok /\ ~b.spoilt
                THEN [i \in 1 .. ChunkLen(obj, len) |-> r.c.entry[b.idx].data[(obj.offset % kBlockLen) + i - 1]]
                ELSE <<>>

LEMMA CopiedChunkFields ==
    ASSUME NEW obj, NEW len, NEW b, NEW n, NEW r, r = CopiedChunk(obj, len, b, n)
    PROVE  ChunkFields(r, obj, len, b, n)
<1> DEFINE blockOffset == obj.offset % kBlockLen
           chunk == Min({len, Min({kBlockLen - blockOffset, obj.length - obj.offset})})
           next == obj.offset + chunk
           crosses == next % vol.clusterBytes = 0 /\ obj.length > next
           c == IF b.idx >= 0 /\ crosses THEN n.c ELSE b.c
           ok == b.idx >= 0 /\ (crosses => n.ok)
           evicted == ok /\ ~b.spoilt /\ c.entry[b.idx].block # b.c.entry[b.idx].block
           spoiled == b.spoilt \/ evicted \/ (b.idx >= 0 /\ crosses /\ n.spoilt)
           newobj == IF ok THEN [obj EXCEPT !.offset = next, !.currCluster = IF crosses THEN n.next ELSE @] ELSE obj
           data == IF ok /\ ~b.spoilt THEN [i \in 1 .. chunk |-> c.entry[b.idx].data[blockOffset + i - 1]] ELSE <<>>
<1>1. r = [c |-> c, ok |-> ok, spoilt |-> spoiled, evicted |-> evicted, obj |-> newobj, data |-> data]
  BY Zenon DEF CopiedChunk
<1>2. r.c = c /\ r.ok = ok /\ r.spoilt = spoiled /\ r.evicted = evicted /\ r.obj = newobj /\ r.data = data
  <2> HIDE DEF c, ok, spoiled, evicted, newobj, data
  <2> QED
    BY <1>1
<1>3. chunk = ChunkLen(obj, len) /\ next = NextOffset(obj, len) /\ crosses = Crosses(obj, len)
  BY Zenon DEF ChunkLen, NextOffset, Crosses
<1> HIDE DEF chunk, next, crosses
<1>4. r.evicted = (r.ok /\ ~b.spoilt /\ r.c.entry[b.idx].block # b.c.entry[b.idx].block)
  BY <1>2, Zenon
<1>5. r.c = IF b.idx >= 0 /\ Crosses(obj, len) THEN n.c ELSE b.c
  BY <1>2, <1>3, Zenon
<1>6. r.ok = (b.idx >= 0 /\ (Crosses(obj, len) => n.ok))
  BY <1>2, <1>3, Zenon
<1>7. r.spoilt = (b.spoilt \/ r.evicted \/ (b.idx >= 0 /\ Crosses(obj, len) /\ n.spoilt))
  BY <1>2, <1>3, Zenon
<1>8. r.obj = IF r.ok THEN [obj EXCEPT !.offset = NextOffset(obj, len),
                                       !.currCluster = IF Crosses(obj, len) THEN n.next ELSE @]
              ELSE obj
  BY <1>2, <1>3, Zenon
<1>9. r.data = IF r.ok /\ ~b.spoilt
               THEN [i \in 1 .. chunk |-> r.c.entry[b.idx].data[(obj.offset % kBlockLen) + i - 1]]
               ELSE <<>>
  <2>1. r.c = c /\ r.ok = ok /\ r.data = data
    BY <1>2
  <2> HIDE DEF c, ok
  <2> QED
    BY <2>1, Zenon
<1> QED
  BY <1>3, <1>4, <1>5, <1>6, <1>7, <1>8, <1>9, Zenon DEF ChunkFields

LEMMA ObjectReadRound ==
    ASSUME NEW obj, NEW len, NEW bad, NEW r \in object_read(obj, len, bad)
    PROVE  \E b, n : ChunkBlocks(obj, bad, b, n) /\ ChunkFields(r, obj, len, b, n)
<1>1. PICK b, n : ChunkBlocks(obj, bad, b, n) /\ r = CopiedChunk(obj, len, b, n)
  BY Zenon DEF object_read, ChunkBlocks
<1>2. ChunkFields(r, obj, len, b, n)
  BY <1>1, CopiedChunkFields
<1> QED
  BY <1>1, <1>2

\* Only the position of the object changes, and only if the round succeeds.
SameObject(o, obj) ==
    /\ ObjLike(o) /\ o.valid = obj.valid /\ o.length = obj.length /\ o.firstCluster = obj.firstCluster
    /\ o.file = obj.file /\ o.listed = obj.listed

LEMMA ObjectReadShape ==
    ASSUME image \in Images, MountedAs(image, vol), CacheLike(cache),
           NEW obj, ObjLike(obj), NEW len, NEW bad, NEW r \in object_read(obj, len, bad)
    PROVE  /\ CacheLike(r.c) /\ r.ok \in BOOLEAN /\ r.spoilt \in BOOLEAN /\ r.evicted \in BOOLEAN
           /\ r.evicted => r.spoilt
           /\ SameObject(r.obj, obj)
<1>1. PICK b, n : ChunkBlocks(obj, bad, b, n) /\ ChunkFields(r, obj, len, b, n)
  BY ObjectReadRound
<1>2. CacheLike(b.c) /\ b.spoilt \in BOOLEAN /\ b.idx \in Int
  BY <1>1, BlockEnsured DEF ChunkBlocks
<1>3. CacheLike(n.c) /\ n.ok \in BOOLEAN /\ n.spoilt \in BOOLEAN
  BY <1>1, <1>2, ClusterNext DEF ChunkBlocks
<1>4. ChunkFields(r, obj, len, b, n)
  BY <1>1
<1>5. CacheLike(r.c)
  BY <1>2, <1>3, <1>4, Zenon DEF ChunkFields
<1>6. r.ok \in BOOLEAN
  BY <1>4, Zenon DEF ChunkFields
<1>7. r.evicted \in BOOLEAN
  BY <1>4, Zenon DEF ChunkFields
<1>8. r.spoilt \in BOOLEAN /\ (r.evicted => r.spoilt)
  BY <1>4, Zenon DEF ChunkFields
<1>9. SameObject(r.obj, obj)
  <2>1. CASE r.ok
    <3> DEFINE no == NextOffset(obj, len)
               nc == IF Crosses(obj, len) THEN n.next ELSE obj.currCluster
    <3>1. r.obj = [[obj EXCEPT !.offset = no] EXCEPT !.currCluster = nc]
      <4>1. r.obj = [obj EXCEPT !.offset = no, !.currCluster = IF Crosses(obj, len) THEN n.next ELSE @]
        BY <1>4, <2>1, Zenon DEF ChunkFields
      <4> HIDE DEF no
      <4> QED
        BY <4>1 DEF ObjLike
    <3> HIDE DEF no, nc
    <3>2. r.obj = [valid |-> obj.valid, offset |-> no, length |-> obj.length, currCluster |-> nc,
                   firstCluster |-> obj.firstCluster, file |-> obj.file, listed |-> obj.listed]
      BY <3>1 DEF ObjLike
    <3>3. obj.valid \in BOOLEAN /\ obj.listed \in BOOLEAN
      BY DEF ObjLike
    <3>4. /\ r.obj.valid = obj.valid /\ r.obj.offset = no /\ r.obj.length = obj.length
          /\ r.obj.currCluster = nc /\ r.obj.firstCluster = obj.firstCluster
          /\ r.obj.file = obj.file /\ r.obj.listed = obj.listed
      BY <3>2
    <3> QED
      BY <3>2, <3>3, <3>4, Zenon DEF SameObject, ObjLike
  <2>2. CASE ~r.ok
    <3>1. r.obj = obj
      BY <1>4, <2>2, Zenon DEF ChunkFields
    <3> QED
      BY <3>1, Zenon DEF SameObject
  <2> QED
    BY <2>1, <2>2
<1> QED
  BY <1>5, <1>6, <1>7, <1>8, <1>9

\* A chunk ends within its block, and within the object.
LEMMA ChunkLenIs ==
    ASSUME NEW obj, NEW len \in Nat \ {0},
           obj.offset \in Nat, obj.length \in Nat, obj.offset < obj.length
    PROVE  /\ ChunkLen(obj, len) \in 1 .. len
           /\ (obj.offset % kBlockLen) + ChunkLen(obj, len) <= kBlockLen
           /\ obj.offset + ChunkLen(obj, len) <= obj.length
<1> DEFINE o == obj.offset
           K == kBlockLen
           s == o % K
           m == ChunkLen(obj, len)
<1>2. K \in Nat \ {0}
  BY BlockCells
<1>3. s \in Nat /\ s < K
  BY <1>2, DivMod
<1>4. m \in 1 .. len /\ s + m <= K /\ o + m <= obj.length
  <2>1. K - s \in Int /\ obj.length - o \in Int /\ K - s >= 1 /\ obj.length - o >= 1
    <3>1. obj.length \in Nat /\ o \in Nat /\ o < obj.length
      OBVIOUS
    <3> HIDE DEF K, s, o
    <3> QED
      BY <1>2, <1>3, <3>1, SMT
  <2> DEFINE a == Min({K - s, obj.length - o})
  <2>2. a = IF K - s <= obj.length - o THEN K - s ELSE obj.length - o
    BY <2>1, MinOfTwo, Zenon
  <2>3. m = Min({len, a})
    BY Zenon DEF ChunkLen
  <2> HIDE DEF a, s, K, m
  <2>4. a \in Int /\ a >= 1 /\ a <= K - s /\ a <= obj.length - o
    BY <2>1, <2>2, SMT
  <2>5. len \in Int
    BY SMT
  <2>6. m = IF len <= a THEN len ELSE a
    BY <2>3, <2>4, <2>5, MinOfTwo, Zenon
  <2> QED
    BY <1>2, <1>3, <2>4, <2>6, SMT
<1> QED
  BY <1>4, Zenon

\* A round whose slot is taken while it is in use ends at the end of a cluster.
LEMMA ObjectReadEvicted ==
    ASSUME image \in Images, MountedAs(image, vol),
           NEW obj, ObjLike(obj), NEW len \in Nat \ {0}, NEW bad, NEW r \in object_read(obj, len, bad),
           r.evicted, obj.offset \in Nat, obj.length \in Nat, obj.offset < obj.length
    PROVE  \E m \in Nat :
             /\ m <= kBlockLen /\ r.ok
             /\ r.data = [i \in 1 .. m |-> r.data[i]]
             /\ (obj.offset + m) % CC = 0 /\ obj.offset + m < obj.length
<1> DEFINE m == ChunkLen(obj, len)
           no == obj.offset + m
<1>1. PICK b, n : ChunkBlocks(obj, bad, b, n) /\ ChunkFields(r, obj, len, b, n)
  BY ObjectReadRound
<1>2. r.ok /\ ~b.spoilt /\ r.c.entry[b.idx].block # b.c.entry[b.idx].block
  BY <1>1, Zenon DEF ChunkFields
<1>3. Crosses(obj, len)
  <2>1. r.c # b.c
    BY <1>2
  <2> QED
    BY <1>1, <2>1, Zenon DEF ChunkFields
<1>4. no % CC = 0 /\ obj.length > no
  BY <1>3, Zenon DEF Crosses, NextOffset, MountedAs, CC
<1>5. r.data = [i \in 1 .. m |-> r.c.entry[b.idx].data[(obj.offset % kBlockLen) + i - 1]]
  BY <1>1, <1>2, Zenon DEF ChunkFields
<1>6. m \in Nat /\ m <= kBlockLen /\ no < obj.length
  <2>1. /\ m \in 1 .. len /\ (obj.offset % kBlockLen) + m <= kBlockLen
        /\ obj.offset % kBlockLen \in Nat /\ kBlockLen \in Nat
    BY BlockCells, ChunkLenIs, DivMod, Zenon
  <2> DEFINE s == obj.offset % kBlockLen
             K == kBlockLen
             l == obj.length
             o == obj.offset
  <2>2. m \in 1 .. len /\ s + m <= K /\ s \in Nat /\ K \in Nat /\ l \in Nat /\ o \in Nat /\ l > o + m
    BY <1>4, <2>1
  <2> HIDE DEF m, s, K, l, o
  <2>3. m \in Nat /\ m <= K /\ o + m < l
    BY <2>2, SMT
  <2> QED
    BY <2>3 DEF K, l, o
<1> HIDE DEF m
<1>7. r.data = [i \in 1 .. m |-> r.data[i]]
  BY <1>5, Zenon
<1> QED
  BY <1>2, <1>4, <1>6, <1>7, Zenon

\* A round that succeeds copies cells of the chain, from the position on, and
\* moves the position past them, along the chain if a cluster ends there.
LEMMA ObjectReadData ==
    ASSUME image \in Images, MountedAs(image, vol), CacheLike(cache),
           NEW obj, ObjLike(obj), NEW len \in Nat \ {0}, NEW bad, NEW r \in object_read(obj, len, bad),
           r.ok, ~r.spoilt,
           NEW chain, Linked(image, chain),
           obj.offset \in Nat, obj.length \in Nat, obj.offset < obj.length,
           obj.offset \div CC < Len(chain), obj.currCluster = chain[(obj.offset \div CC) + 1]
    PROVE  \E m \in 1 .. len :
             /\ obj.offset + m <= obj.length
             /\ r.data = [i \in 1 .. m |-> CellOf(image, chain, obj.offset + i - 1)]
             /\ r.obj.offset = obj.offset + m
             /\ OnChain(image, chain, r.obj.currCluster, r.obj.offset, obj.length)
<1> DEFINE o == obj.offset
           K == kBlockLen
           s == o % K
           m == ChunkLen(obj, len)
           k == o \div CC
           x == o % CC
<1>1. PICK b, n : ChunkBlocks(obj, bad, b, n) /\ ChunkFields(r, obj, len, b, n)
  BY ObjectReadRound
<1>2. K \in Nat \ {0} /\ CC \in Nat \ {0}
  BY BlockCells, ClusterIsBlocks DEF CC
<1>3. s \in Nat /\ s < K
  BY <1>2, DivMod
<1>4. m \in 1 .. len /\ s + m <= K /\ o + m <= obj.length
  BY ChunkLenIs, Zenon
<1>5. r.c = (IF Crosses(obj, len) THEN n.c ELSE b.c) /\ b.idx >= 0 /\ (Crosses(obj, len) => n.ok)
  BY <1>1, Zenon DEF ChunkFields
<1>6. ~b.spoilt /\ ~r.evicted /\ (Crosses(obj, len) => ~n.spoilt)
  BY <1>1, <1>5, Zenon DEF ChunkFields
<1>7. r.c.entry[b.idx].block = b.c.entry[b.idx].block
  BY <1>1, <1>6, Zenon DEF ChunkFields
<1>8. r.data = [i \in 1 .. m |-> r.c.entry[b.idx].data[s + i - 1]]
  BY <1>1, <1>6, Zenon DEF ChunkFields
<1> DEFINE block == block_number(obj.currCluster, o % vol.clusterBytes)
<1>9. /\ CacheLike(b.c) /\ b.idx \in 0 .. CacheEntries - 1
      /\ b.c.entry[b.idx].data = Medium(image, block)
  <2>1. b = block_ensure(cache, block, bad)
    BY <1>1, Zenon DEF ChunkBlocks
  <2> HIDE DEF block
  <2> QED
    BY <1>5, <1>6, <2>1, BlockEnsured
<1>10. r.c.entry[b.idx].data = Medium(image, block)
  <2>1. CASE Crosses(obj, len)
    <3>1. n = cluster_next(b.c, obj.currCluster, bad)
      BY <1>1, Zenon DEF ChunkBlocks
    <3>2. \A i \in 0 .. CacheEntries - 1 : n.c.entry[i].block = b.c.entry[i].block => n.c.entry[i] = b.c.entry[i]
      <4>1. CacheLike(b.c) /\ n.ok
        BY <1>5, <1>9, <2>1, Zenon
      <4> HIDE DEF block
      <4> QED
        BY <3>1, <4>1, ClusterNext
    <3> QED
      BY <1>5, <1>7, <1>9, <2>1, <3>2, Zenon
  <2>2. CASE ~Crosses(obj, len)
    BY <1>5, <1>9, <2>2, Zenon
  <2> QED
    BY <2>1, <2>2
<1>11. k \in Nat /\ x \in Nat /\ x < CC
  BY <1>2, DivMod
<1> DEFINE cl == chain[k + 1]
<1>12. k + 1 \in 1 .. Len(chain) /\ cl \in DOMAIN image.heap /\ obj.currCluster = cl /\ Len(chain) \in Nat
  <2>1. chain \in Seq(DOMAIN image.heap)
    BY DEF Linked
  <2> QED
    BY <1>11, <2>1
<1>13. block = HeapBlock(image) + (cl - 2) * BlocksPerCluster(image) + (x \div K)
  BY <1>12, Zenon DEF block_number, MountedAs, CC
<1>14. ASSUME NEW j \in Nat, s + j < K
       PROVE  /\ Medium(image, block)[s + j] = CellOf(image, chain, o + j)
  <2>1. /\ x + j \in Nat /\ x + j < CC /\ (o + j) \div CC = k /\ (o + j) % CC = x + j
        /\ (x + j) \div K = x \div K /\ (x + j) % K = s + j
    BY <1>14, WithinBlock, Zenon DEF CC
  <2>2. Medium(image, HeapBlock(image) + (cl - 2) * BlocksPerCluster(image) + ((x + j) \div K))[(x + j) % K]
          = image.heap[cl][(x + j) + 1]
    <3> DEFINE y == x + j
    <3>1. y \in Nat /\ y < ClusterCells(image)
      BY <2>1 DEF CC
    <3> HIDE DEF y
    <3>2. Medium(image, HeapBlock(image) + (cl - 2) * BlocksPerCluster(image) + (y \div K))[y % K]
            = image.heap[cl][y + 1]
      BY <1>12, <3>1, MediumHeap, Zenon
    <3> QED
      BY <3>2, Zenon DEF y
  <2>3. Medium(image, block)[s + j] = image.heap[cl][(x + j) + 1]
    BY <1>13, <2>1, <2>2, Zenon
  <2> QED
    BY <2>1, <2>3, Zenon DEF CellOf, CC
<1>15. r.data = [i \in 1 .. m |-> CellOf(image, chain, o + i - 1)]
  <2>1. ASSUME NEW i \in 1 .. m PROVE r.c.entry[b.idx].data[s + i - 1] = CellOf(image, chain, o + i - 1)
    <3>0. o \in Nat /\ m \in Nat
      BY <1>4, SMT
    <3> HIDE DEF s, m, block, K, o
    <3>1. i - 1 \in Nat /\ s + (i - 1) < K /\ s + i - 1 = s + (i - 1) /\ o + i - 1 = o + (i - 1)
      BY <1>2, <1>3, <1>4, <3>0, SMT
    <3>2. Medium(image, block)[s + (i - 1)] = CellOf(image, chain, o + (i - 1))
      BY <1>14, <3>1, Zenon
    <3> QED
      BY <1>10, <3>1, <3>2, Zenon
  <2> HIDE DEF m, s, o
  <2> QED
    BY <1>8, <2>1, Zenon
<1> DEFINE no == o + m
           nc == IF Crosses(obj, len) THEN n.next ELSE obj.currCluster
<1>16. r.obj.offset = no /\ r.obj.currCluster = nc
  <2>1. r.obj = [obj EXCEPT !.offset = no, !.currCluster = IF Crosses(obj, len) THEN n.next ELSE @]
    BY <1>1, Zenon DEF ChunkFields, NextOffset
  <2> HIDE DEF no
  <2> QED
    BY <2>1 DEF ObjLike
<1>17. OnChain(image, chain, nc, no, obj.length)
  <2>1. m \in Nat \ {0} /\ s + m <= K /\ no \in Nat /\ no <= obj.length
    <3> HIDE DEF m, s, K
    <3> QED
      BY <1>4, SMT
  <2>2. \/ no \div CC = k /\ no % CC # 0
        \/ no \div CC = k + 1 /\ no % CC = 0
    BY <2>1, WithinBlock, Zenon DEF CC
  <2>3. Crosses(obj, len) = (no % CC = 0 /\ obj.length > no)
    BY Zenon DEF Crosses, NextOffset, MountedAs, CC
  <2>4. CASE no \div CC = k /\ no % CC # 0
    <3>1. nc = cl
      BY <1>12, <2>3, <2>4, Zenon
    <3> QED
      BY <2>4, <3>1, Zenon DEF OnChain, CC
  <2>5. CASE no \div CC = k + 1 /\ no % CC = 0
    <3> SUFFICES ASSUME k + 1 < Len(chain), (k + 1) * CC < obj.length
                 PROVE  nc = chain[(k + 1) + 1]
      BY <2>5, Zenon DEF OnChain, CC
    <3>1. no = (k + 1) * CC
      <4>1. no = (no \div CC) * CC + (no % CC)
        BY <1>2, <2>1, DivMod, Zenon
      <4>2. no = (k + 1) * CC + 0
        BY <2>5, <4>1, Zenon
      <4>3. (k + 1) * CC \in Nat
        BY <1>2, <1>11, SMT
      <4> DEFINE z == (k + 1) * CC
      <4> HIDE DEF z, no
      <4>4. no = z
        BY <4>2, <4>3, SMT DEF z
      <4> QED
        BY <4>4 DEF z
    <3>2. obj.length > no
      <4> HIDE DEF no
      <4>1. no < obj.length
        BY <3>1, Zenon
      <4> QED
        BY <2>1, <4>1, SMT
    <3>3. Crosses(obj, len)
      BY <2>3, <2>5, <3>2, Zenon
    <3>4. k + 1 \in 1 .. Len(chain) - 1
      BY <1>11, <1>12, SMT
    <3>5. cl \in DOMAIN image.fat /\ image.fat[cl] = chain[(k + 1) + 1]
      BY <3>4, Zenon DEF Linked
    <3>6. n = cluster_next(b.c, cl, bad)
      BY <1>1, <1>12, Zenon DEF ChunkBlocks
    <3>7. n.next = image.fat[cl]
      <4> HIDE DEF cl
      <4> QED
        BY <1>5, <1>6, <1>9, <3>3, <3>5, <3>6, ClusterNext
    <3> QED
      BY <3>3, <3>5, <3>7, Zenon
  <2> QED
    BY <2>2, <2>4, <2>5
<1> HIDE DEF m, no, nc
<1>18. OnChain(image, chain, r.obj.currCluster, r.obj.offset, obj.length)
  BY <1>16, <1>17, Zenon
<1> QED
  BY <1>4, <1>15, <1>16, <1>18, Zenon DEF no

(***************************************************************************)
(* The invariant holds initially, and calls keep it.                       *)
(***************************************************************************)
Put(t, h, o) == [t EXCEPT ![h] = o]
Closed(t, h) == [t EXCEPT ![h].valid = FALSE]
LEMMA TableUpdate ==
    ASSUME NEW t, NEW n, Table(t, n), NEW h, NEW o, ObjLike(o)
    PROVE  /\ Table(Put(t, h, o), n)
           /\ \A i \in 0 .. n - 1 : Put(t, h, o)[i] = IF i = h THEN o ELSE t[i]
<1> DEFINE I == 0 .. n - 1
           u == [t EXCEPT ![h] = o]
<1>1. DOMAIN t = I /\ \A i \in I : ObjLike(t[i])
  BY Zenon DEF Table
<1> HIDE DEF I
<1>2. DOMAIN u = I /\ u = [i \in I |-> u[i]]
  BY <1>1, Zenon
<1>3. \A i \in I : u[i] = IF i = h THEN o ELSE t[i]
  BY <1>1, Zenon
<1>4. \A i \in I : ObjLike(u[i])
  BY <1>1, <1>3, Zenon
<1> HIDE DEF u
<1>5. Table(u, n)
  BY <1>2, <1>4, Zenon DEF Table, I
<1>6. u = Put(t, h, o)
  BY Zenon DEF u, Put
<1> QED
  BY <1>3, <1>5, <1>6, Zenon DEF I

LEMMA CloseObject ==
    ASSUME NEW o, ObjLike(o), NEW u, u = [o EXCEPT !.valid = FALSE]
    PROVE  ObjLike(u) /\ ~u.valid
<1>1. u = [valid |-> FALSE, offset |-> o.offset, length |-> o.length, currCluster |-> o.currCluster,
           firstCluster |-> o.firstCluster, file |-> o.file, listed |-> o.listed]
  BY DEF ObjLike
<1>2. o.listed \in BOOLEAN
  BY DEF ObjLike
<1>3. /\ u.valid = FALSE /\ u.offset = o.offset /\ u.length = o.length /\ u.currCluster = o.currCluster
      /\ u.firstCluster = o.firstCluster /\ u.file = o.file /\ u.listed = o.listed
  BY <1>1
<1> QED
  BY <1>1, <1>2, <1>3, Zenon DEF ObjLike

\* The handle that rootdir_open() and file_open() take.
LEMMA OpenRoot ==
    ASSUME NEW cluster
    PROVE  LET u == Opened(cluster, 2^30, <<"root">>)
           IN  ObjLike(u) /\ u.valid /\ u.offset = 0 /\ u.length = 2^30 /\ u.currCluster = cluster
<1> DEFINE l == 2^30
           f == <<"root">>
           u == Opened(cluster, l, f)
<1>1. u = Opened(cluster, l, f)
  OBVIOUS
<1> HIDE DEF l, f, u
<1>2. u = [valid |-> TRUE, offset |-> 0, length |-> l, currCluster |-> cluster,
           firstCluster |-> cluster, file |-> f, listed |-> FALSE]
  BY <1>1, Zenon DEF Opened
<1>3. /\ u.valid = TRUE /\ u.offset = 0 /\ u.length = l /\ u.currCluster = cluster
      /\ u.firstCluster = cluster /\ u.file = f /\ u.listed = FALSE
  BY <1>2
<1>4. ObjLike(u)
  BY <1>2, <1>3, Zenon DEF ObjLike
<1> QED
  BY <1>3, <1>4, Zenon DEF u, l, f

\* A close of a handle opens nothing.
LEMMA CloseHandle ==
    ASSUME NEW t, NEW n, Table(t, n), NEW h
    PROVE  /\ Table(Closed(t, h), n)
           /\ \A i \in 0 .. n - 1 : Closed(t, h)[i].valid => i # h /\ Closed(t, h)[i] = t[i]
<1>1. CASE h \in 0 .. n - 1
  <2> DEFINE o == [t[h] EXCEPT !.valid = FALSE]
  <2>1. ObjLike(t[h])
    BY <1>1, Zenon DEF Table
  <2>2. ObjLike(o) /\ ~o.valid
    BY <2>1, CloseObject
  <2>3. Closed(t, h) = Put(t, h, o)
    BY Zenon DEF Closed, Put
  <2> HIDE DEF o
  <2>4. Table(Put(t, h, o), n)
    BY <2>2, TableUpdate, Zenon
  <2>5. ASSUME NEW i \in 0 .. n - 1 PROVE Put(t, h, o)[i] = IF i = h THEN o ELSE t[i]
    BY <2>5, Zenon DEF Table, Put
  <2> QED
    BY <2>2, <2>3, <2>4, <2>5, Zenon
<1>2. CASE h \notin 0 .. n - 1
  <2>1. DOMAIN t = 0 .. n - 1 /\ t = [i \in 0 .. n - 1 |-> t[i]]
    BY Zenon DEF Table
  <2>2. Closed(t, h) = t
    BY <1>2, <2>1 DEF Closed
  <2> QED
    BY <1>2, <2>2, Zenon
<1> QED
  BY <1>1, <1>2

LEMMA OtherHandles ==
    ASSUME NEW t, NEW n, Table(t, n), NEW h
    PROVE  \A i \in 0 .. n - 1 : Closed(t, h)[i].valid => i # h /\ Closed(t, h)[i] = t[i]
BY CloseHandle

\* The results of other calls say nothing of reads and of opens.
LEMMA OtherResult ==
    ASSUME ret'.op \notin {"file_read", "file_open"} \/ call' # NoCall
    PROVE  FileReadsAreRight' /\ OpenFindsTheFile'
BY Zenon DEF FileReadsAreRight, OpenFindsTheFile

LEMMA InitInv == Init => FileSysInv
<1> SUFFICES ASSUME Init PROVE FileSysInv
  OBVIOUS
<1>1. VolumeOK(image, vol)
  <2>1. vol = [partValid |-> FALSE, fatStart |-> 0, clusterHeapStart |-> 0, rootCluster |-> 0,
               blksPerClusterShift |-> 0, clusterBytes |-> 1]
    BY DEF Init, Unmounted
  <2>2. /\ vol.partValid = FALSE /\ vol.fatStart = 0 /\ vol.clusterHeapStart = 0 /\ vol.rootCluster = 0
        /\ vol.blksPerClusterShift = 0 /\ vol.clusterBytes = 1
    BY <2>1
  <2> QED
    BY <2>1, <2>2, Zenon DEF VolumeOK
<1>2. CacheLike(cache)
  <2> DEFINE e == [block |-> kInvalidBlock, data |-> Garbage]
             E == [i \in 0 .. CacheEntries - 1 |-> e]
  <2>1. cache = [entry |-> E, next |-> 0]
    BY Zenon DEF Init, EmptyCache
  <2>2. 0 \in 0 .. CacheEntries - 1
    BY FileSysAssumption, SMT
  <2>3. e = [block |-> e.block, data |-> e.data]
    OBVIOUS
  <2>4. (\A i \in 0 .. CacheEntries - 1 : E[i] = e) /\ E = [i \in 0 .. CacheEntries - 1 |-> E[i]]
    BY Zenon
  <2> HIDE DEF e, E
  <2>5. cache.entry = E /\ cache.next = 0
    BY <2>1
  <2> QED
    BY <2>1, <2>2, <2>3, <2>4, <2>5, Zenon DEF CacheLike
<1>3. ObjLike(NoObject) /\ NoObject.valid = FALSE
  BY DEF NoObject, ObjLike
<1>4. Table(files, MaxFiles) /\ \A h \in 0 .. MaxFiles - 1 : ~files[h].valid
  BY <1>3, Zenon DEF Init, Table
<1>5. Table(dirs, MaxDirs) /\ \A h \in 0 .. MaxDirs - 1 : ~dirs[h].valid
  BY <1>3, Zenon DEF Init, Table
<1>6. call = NoCall /\ ret = NoCall /\ spoilt = FALSE /\ failures = 0 /\ image \in Images
  BY DEF Init
<1>7. ~InUse(files, dirs, call)
  BY <1>4, <1>5, <1>6, Zenon DEF InUse, AnyValid
<1>8. failures \in Nat
  BY <1>6, SMT
<1>9. ret.op = "none"
  BY <1>6 DEF NoCall
<1>10. FileReadsAreRight /\ OpenFindsTheFile
  BY <1>9 DEF FileReadsAreRight, OpenFindsTheFile
<1>11. GoodFiles(image, files)
  BY <1>4, Zenon DEF GoodFiles
<1>12. CallOK(image, files, dirs, call)
  BY <1>6, Zenon DEF CallOK
<1> QED
  BY <1>1, <1>2, <1>4, <1>5, <1>6, <1>7, <1>8, <1>10, <1>11, <1>12, Zenon DEF FileSysInv, Shape

LEMMA MountKeepsInv ==
    ASSUME FileSysInv, ~spoilt, init
    PROVE  FileSysInv'
<1>1. /\ image' = image /\ cache' = cache /\ files' = files /\ dirs' = dirs /\ call' = call
      /\ call = NoCall /\ ~vol.partValid
  BY DEF init
<1>2. VolumeOK(image', vol')
  <2>1. CASE vol' = vol
    BY <1>1, <2>1, Zenon DEF FileSysInv, Shape
  <2>2. CASE Suitable(image.mbr) /\ vol' = Geometry(image)
    <3>1. image \in Images
      BY DEF FileSysInv, Shape
    <3> QED
      BY <1>1, <2>2, <3>1, GeometryIsRight, Zenon DEF VolumeOK, MountedAs
  <2> QED
    BY <2>1, <2>2 DEF init
<1>3. failures' \in Nat
  <2>1. failures \in Nat
    BY DEF FileSysInv, Shape
  <2>2. failures' = failures \/ failures' = failures + 1
    BY DEF init
  <2> QED
    BY <2>1, <2>2, SMT
<1>4. spoilt' \in BOOLEAN
  <2>1. spoilt' = spoilt \/ spoilt' \in {FALSE} \cup (IF Suitable(image.mbr) THEN {TRUE} ELSE {})
    BY Zenon DEF init
  <2>2. spoilt \in BOOLEAN
    BY DEF FileSysInv, Shape
  <2> QED
    BY <2>1, <2>2, Zenon
<1>5. ret'.op = "init"
  <2>1. ret' = [op |-> "init", ok |-> vol'.partValid] \/ ret' = [op |-> "init", ok |-> FALSE]
    BY Zenon DEF init
  <2> QED
    BY <2>1
<1>6. FileReadsAreRight' /\ OpenFindsTheFile'
  <2>1. ret'.op \notin {"file_read", "file_open"}
    BY <1>5
  <2> QED
    BY <2>1, OtherResult
<1>7. ~InUse(files', dirs', call')
  BY <1>1, Zenon DEF FileSysInv, Shape
<1>8. Shape'
  BY <1>1, <1>2, <1>3, <1>4, <1>7, Zenon DEF FileSysInv, Shape
<1>9. GoodFiles(image', files') /\ CallOK(image', files', dirs', call')
  BY <1>1, Zenon DEF FileSysInv
<1> QED
  BY <1>6, <1>8, <1>9, Zenon DEF FileSysInv

LEMMA UnmountKeepsInv ==
    ASSUME FileSysInv, ~spoilt, fin
    PROVE  FileSysInv'
<1>1. /\ image' = image /\ call' = call /\ failures' = failures /\ spoilt' = spoilt
      /\ vol' = [vol EXCEPT !.partValid = FALSE] /\ cache' = EmptyCache
      /\ files' = [h \in DOMAIN files |-> [files[h] EXCEPT !.valid = FALSE]]
      /\ dirs' = [h \in DOMAIN dirs |-> [dirs[h] EXCEPT !.valid = FALSE]]
      /\ call = NoCall
  BY DEF fin
<1>2. VolumeOK(image', vol')
  <2>1. VolumeOK(image, vol)
    BY DEF FileSysInv, Shape
  <2>2. vol' = [partValid |-> FALSE, fatStart |-> vol.fatStart, clusterHeapStart |-> vol.clusterHeapStart,
                rootCluster |-> vol.rootCluster, blksPerClusterShift |-> vol.blksPerClusterShift,
                clusterBytes |-> vol.clusterBytes]
    BY <1>1, <2>1 DEF VolumeOK
  <2>3. /\ vol'.partValid = FALSE /\ vol'.fatStart = vol.fatStart
        /\ vol'.clusterHeapStart = vol.clusterHeapStart /\ vol'.rootCluster = vol.rootCluster
        /\ vol'.blksPerClusterShift = vol.blksPerClusterShift /\ vol'.clusterBytes = vol.clusterBytes
    BY <2>2
  <2> QED
    BY <2>2, <2>3, Zenon DEF VolumeOK
<1>3. CacheLike(cache')
  <2> DEFINE e == [block |-> kInvalidBlock, data |-> Garbage]
             E == [i \in 0 .. CacheEntries - 1 |-> e]
  <2>1. cache' = [entry |-> E, next |-> 0]
    BY <1>1, Zenon DEF EmptyCache
  <2>2. 0 \in 0 .. CacheEntries - 1
    BY FileSysAssumption, SMT
  <2>3. e = [block |-> e.block, data |-> e.data]
    OBVIOUS
  <2>4. (\A i \in 0 .. CacheEntries - 1 : E[i] = e) /\ E = [i \in 0 .. CacheEntries - 1 |-> E[i]]
    BY Zenon
  <2> HIDE DEF e, E
  <2>5. cache'.entry = E /\ cache'.next = 0
    BY <2>1
  <2> QED
    BY <2>1, <2>2, <2>3, <2>4, <2>5, Zenon DEF CacheLike
<1>4. ASSUME NEW t, NEW n, Table(t, n), NEW u, u = [h \in DOMAIN t |-> [t[h] EXCEPT !.valid = FALSE]]
      PROVE  Table(u, n) /\ \A h \in 0 .. n - 1 : ~u[h].valid
  <2>1. DOMAIN t = 0 .. n - 1 /\ \A h \in 0 .. n - 1 : ObjLike(t[h])
    BY <1>4, Zenon DEF Table
  <2>2. \A h \in 0 .. n - 1 : u[h] = [t[h] EXCEPT !.valid = FALSE]
    BY <1>4, <2>1, Zenon
  <2>3. ASSUME NEW h \in 0 .. n - 1 PROVE ObjLike(u[h]) /\ ~u[h].valid
    BY <2>1, <2>2, CloseObject, Zenon
  <2>4. DOMAIN u = 0 .. n - 1 /\ u = [h \in 0 .. n - 1 |-> u[h]]
    BY <1>4, <2>1, Zenon
  <2> QED
    BY <2>3, <2>4, Zenon DEF Table
<1>5. Table(files, MaxFiles) /\ Table(dirs, MaxDirs)
  BY DEF FileSysInv, Shape
<1>6. Table(files', MaxFiles) /\ \A h \in 0 .. MaxFiles - 1 : ~files'[h].valid
  BY <1>1, <1>4, <1>5, Zenon
<1>7. Table(dirs', MaxDirs) /\ \A h \in 0 .. MaxDirs - 1 : ~dirs'[h].valid
  BY <1>1, <1>4, <1>5, Zenon
<1>8. ~InUse(files', dirs', call')
  BY <1>1, <1>6, <1>7, Zenon DEF InUse, AnyValid
<1>9. Shape'
  BY <1>1, <1>2, <1>3, <1>6, <1>7, <1>8, Zenon DEF FileSysInv, Shape
<1>10. ret'.op \notin {"file_read", "file_open"}
  BY DEF fin
<1>11. GoodFiles(image', files')
  BY <1>6, Zenon DEF GoodFiles
<1>12. CallOK(image', files', dirs', call')
  BY <1>1, Zenon DEF CallOK
<1> QED
  BY <1>9, <1>10, <1>11, <1>12, OtherResult, Zenon DEF FileSysInv

\* What the invariant says between calls.
LEMMA InvFacts ==
    ASSUME FileSysInv
    PROVE  /\ image \in Images /\ VolumeOK(image, vol) /\ CacheLike(cache)
           /\ Table(files, MaxFiles) /\ Table(dirs, MaxDirs) /\ failures \in Nat /\ spoilt \in BOOLEAN
           /\ InUse(files, dirs, call) => vol.partValid
           /\ spoilt => call = NoCall
           /\ ~spoilt => GoodFiles(image, files) /\ CallOK(image, files, dirs, call)
           /\ DOMAIN files = 0 .. MaxFiles - 1 /\ DOMAIN dirs = 0 .. MaxDirs - 1
BY Zenon DEF FileSysInv, Shape, Table

\* What is left to show of a call that leaves volume and cache alone.
LEMMA CallKeepsInv ==
    ASSUME FileSysInv, ~spoilt, UNCHANGED <<image, vol, cache, failures, spoilt>>,
           Table(files', MaxFiles), Table(dirs', MaxDirs), InUse(files', dirs', call') => vol.partValid,
           GoodFiles(image, files'), CallOK(image, files', dirs', call'),
           ret'.op \notin {"file_read", "file_open"} \/ call' # NoCall
    PROVE  FileSysInv'
<1>1. FileReadsAreRight' /\ OpenFindsTheFile'
  BY OtherResult, Zenon
<1>2. image' = image /\ vol' = vol /\ cache' = cache /\ failures' = failures /\ spoilt' = spoilt
  OBVIOUS
<1>3. Shape'
  <2>1. ~spoilt'
    BY <1>2
  <2> QED
    BY <1>2, <2>1, InvFacts, Zenon DEF Shape
<1> QED
  BY <1>1, <1>2, <1>3, Zenon DEF FileSysInv

LEMMA RootdirOpenKeepsInv ==
    ASSUME FileSysInv, ~spoilt, rootdir_open
    PROVE  FileSysInv'
<1> DEFINE dh == FreeHandle(dirs)
           o == Opened(vol.rootCluster, 2^30, <<"root">>)
<1>1. /\ UNCHANGED <<image, vol, cache, failures, spoilt>> /\ files' = files /\ call' = call
      /\ call = NoCall /\ vol.partValid
  BY DEF rootdir_open
<1>2. dirs' = dirs \/ dirs' = [dirs EXCEPT ![dh] = o]
  BY Zenon DEF rootdir_open
<1>3. ret'.op = "rootdir_open"
  BY DEF rootdir_open
<1>4. Table(dirs', MaxDirs)
  <2>2. ObjLike(o)
    BY OpenRoot, Zenon
  <2> HIDE DEF o, dh
  <2>3. Table(dirs, MaxDirs)
    BY InvFacts
  <2>4. Table(Put(dirs, dh, o), MaxDirs)
    BY <2>2, <2>3, TableUpdate, Zenon
  <2> QED
    BY <1>2, <2>3, <2>4, Zenon DEF Put
<1>5. CallOK(image, files', dirs', call')
  BY <1>1, Zenon DEF CallOK
<1>6. ret'.op \notin {"file_read", "file_open"}
  BY <1>3
<1> QED
  BY <1>1, <1>4, <1>5, <1>6, InvFacts, CallKeepsInv, Zenon

LEMMA DirCloseKeepsInv ==
    ASSUME FileSysInv, ~spoilt, NEW dh, dir_close(dh)
    PROVE  FileSysInv'
<1>1. /\ UNCHANGED <<image, vol, cache, failures, spoilt>> /\ files' = files /\ call' = call
      /\ call = NoCall /\ dirs' = [dirs EXCEPT ![dh].valid = FALSE]
  BY DEF dir_close
<1>2. ret'.op \notin {"file_read", "file_open"}
  BY DEF dir_close
<1>3. Table(dirs', MaxDirs) /\ \A i \in 0 .. MaxDirs - 1 : dirs'[i].valid => dirs'[i] = dirs[i]
  <2>1. dirs' = Closed(dirs, dh)
    BY <1>1, Zenon DEF Closed
  <2>2. Table(dirs, MaxDirs)
    BY InvFacts
  <2>3. Table(Closed(dirs, dh), MaxDirs)
    BY <2>2, CloseHandle, Zenon
  <2>4. \A i \in 0 .. MaxDirs - 1 : Closed(dirs, dh)[i].valid => i # dh /\ Closed(dirs, dh)[i] = dirs[i]
    BY <2>2, OtherHandles, SMT
  <2> QED
    BY <2>1, <2>3, <2>4, Zenon
<1>4. InUse(files', dirs', call') => vol.partValid
  BY <1>1, <1>3, InvFacts, Zenon DEF InUse, AnyValid
<1>5. CallOK(image, files', dirs', call')
  BY <1>1, Zenon DEF CallOK
<1> QED
  BY <1>1, <1>2, <1>3, <1>4, <1>5, InvFacts, CallKeepsInv, Zenon

LEMMA FileCloseKeepsInv ==
    ASSUME FileSysInv, ~spoilt, NEW fh, file_close(fh)
    PROVE  FileSysInv'
<1>1. /\ UNCHANGED <<image, vol, cache, failures, spoilt>> /\ dirs' = dirs /\ call' = call
      /\ call = NoCall /\ files' = [files EXCEPT ![fh].valid = FALSE]
  BY DEF file_close
<1>2. ret'.op \notin {"file_read", "file_open"}
  BY DEF file_close
<1>3. Table(files', MaxFiles) /\ \A i \in 0 .. MaxFiles - 1 : files'[i].valid => files'[i] = files[i]
  <2>1. files' = Closed(files, fh)
    BY <1>1, Zenon DEF Closed
  <2>2. Table(files, MaxFiles)
    BY InvFacts
  <2>3. Table(Closed(files, fh), MaxFiles)
    BY <2>2, CloseHandle, Zenon
  <2>4. \A i \in 0 .. MaxFiles - 1 : Closed(files, fh)[i].valid => i # fh /\ Closed(files, fh)[i] = files[i]
    BY <2>2, OtherHandles, SMT
  <2> QED
    BY <2>1, <2>3, <2>4, Zenon
<1>4. InUse(files', dirs', call') => vol.partValid
  BY <1>1, <1>3, InvFacts, Zenon DEF InUse, AnyValid
<1>5. CallOK(image, files', dirs', call')
  BY <1>1, Zenon DEF CallOK
<1>6. GoodFiles(image, files')
  BY <1>3, InvFacts, Zenon DEF GoodFiles
<1> QED
  BY <1>1, <1>2, <1>3, <1>4, <1>5, <1>6, InvFacts, CallKeepsInv, Zenon

\* A call on an open object is made of a mounted volume.
LEMMA ValidMeansMounted ==
    ASSUME FileSysInv
    PROVE  /\ \A h \in 0 .. MaxFiles - 1 : files[h].valid => vol.partValid
           /\ \A h \in 0 .. MaxDirs - 1 : dirs[h].valid => vol.partValid
           /\ call # NoCall => vol.partValid
           /\ vol.partValid => MountedAs(image, vol)
<1>1. InUse(files, dirs, call) => vol.partValid
  BY InvFacts
<1>2. VolumeOK(image, vol)
  BY InvFacts
<1> QED
  BY <1>1, <1>2, Zenon DEF InUse, AnyValid, VolumeOK

LEMMA DirNextKeepsInv ==
    ASSUME FileSysInv, ~spoilt, NEW dh \in DOMAIN dirs, dir_next(dh)
    PROVE  FileSysInv'
<1>1. /\ UNCHANGED <<image, vol, cache, failures, spoilt>> /\ files' = files /\ dirs' = dirs /\ dirs[dh].valid
      /\ call' = [op |-> "next", h |-> dh, name |-> <<>>, hasLFN |-> FALSE, ucs |-> NoName]
  BY Zenon DEF dir_next, Start
<1>2. /\ call'.op = "next" /\ call'.h = dh /\ call'.name = <<>> /\ call'.hasLFN = FALSE /\ call'.ucs = NoName
  BY <1>1
<1>3. call' # NoCall
  <2>1. NoCall.op = "none"
    BY DEF NoCall
  <2> QED
    BY <1>2, <2>1
<1>4. dh \in 0 .. MaxDirs - 1
  BY InvFacts
<1>5. NoName = [s \in Slots |-> NoName[s]]
  BY Zenon DEF NoName
<1>6. Searching(dirs', call')
  BY <1>1, <1>2, <1>4, <1>5, Zenon DEF Searching
<1>7. CallOK(image, files', dirs', call')
  BY <1>2, <1>6, Zenon DEF CallOK
<1>8. vol.partValid
  BY <1>1, <1>4, ValidMeansMounted, Zenon
<1> QED
  BY <1>1, <1>3, <1>7, <1>8, InvFacts, CallKeepsInv, Zenon

LEMMA FileClustersKeepsInv ==
    ASSUME FileSysInv, ~spoilt, NEW fh \in DOMAIN files, NEW len, file_clusters(fh, len)
    PROVE  FileSysInv'
<1> DEFINE cl == files[fh].currCluster
           off == files[fh].offset - (files[fh].offset % vol.clusterBytes)
<1>1. /\ UNCHANGED <<image, vol, cache, failures, spoilt>> /\ files' = files /\ dirs' = dirs /\ files[fh].valid
      /\ call' = [op |-> "clusters", h |-> fh, len |-> len, list |-> <<>>, cluster |-> cl, offset |-> off]
  BY Zenon DEF file_clusters, Start
<1> HIDE DEF cl, off
<1>2. /\ call'.op = "clusters" /\ call'.h = fh /\ call'.len = len /\ call'.list = <<>> /\ call'.cluster = cl
      /\ call'.offset = off
  BY <1>1
<1>3. call' # NoCall
  <2>1. NoCall.op = "none"
    BY DEF NoCall
  <2> QED
    BY <1>2, <2>1
<1>4. fh \in 0 .. MaxFiles - 1
  BY InvFacts
<1>6. ListingClusters(files', call')
  BY <1>1, <1>2, <1>4, Zenon DEF ListingClusters, OnFile
<1>7. CallOK(image, files', dirs', call')
  BY <1>2, <1>6, Zenon DEF CallOK
<1>8. vol.partValid
  BY <1>1, <1>4, ValidMeansMounted, Zenon
<1> QED
  BY <1>1, <1>3, <1>7, <1>8, InvFacts, CallKeepsInv, Zenon

LEMMA FileReadKeepsInv ==
    ASSUME FileSysInv, ~spoilt, NEW fh \in DOMAIN files, NEW len \in Lengths, file_read(fh, len)
    PROVE  FileSysInv'
<1> DEFINE off == files[fh].offset
<1>1. /\ UNCHANGED <<image, vol, cache, failures, spoilt>> /\ files' = files /\ dirs' = dirs /\ files[fh].valid
      /\ call' = [op |-> "read", h |-> fh, len |-> len, data |-> <<>>, offset |-> off]
  BY Zenon DEF file_read, Start
<1>2. /\ call'.op = "read" /\ call'.h = fh /\ call'.len = len /\ call'.data = <<>> /\ call'.offset = off
  <2> HIDE DEF off
  <2> QED
    BY <1>1
<1>3. call' # NoCall
  <2>1. NoCall.op = "none"
    BY DEF NoCall
  <2> QED
    BY <1>2, <2>1
<1>4. fh \in 0 .. MaxFiles - 1
  BY InvFacts
<1>5. ASSUME ~files[fh].listed PROVE ReadSoFar(image, files[fh], call')
  <2>1. GoodFile(image, files[fh])
    BY <1>1, <1>4, <1>5, InvFacts, Zenon DEF GoodFiles
  <2>2. off \in Nat
    BY <2>1, Zenon DEF GoodFile
  <2>3. len \in Nat
    BY FileSysAssumption
  <2>4. Len(call'.data) = 0 /\ 0 \in Nat
    BY <1>2
  <2> DEFINE D == [i \in 1 .. 0 |-> CellOf(image, image.files[files[fh].file].chain, off + i - 1)]
  <2>5. D = <<>>
    OBVIOUS
  <2>6. off = off + 0
    BY <2>2, SMT
  <2>7. call'.data = [i \in 1 .. Len(call'.data) |->
                        CellOf(image, image.files[files[fh].file].chain, call'.offset + i - 1)]
    <3> DEFINE n == Len(call'.data)
               p == call'.offset
    <3>1. n = 0 /\ p = off
      BY <1>2, <2>4, Zenon
    <3> HIDE DEF n, p, off
    <3>2. D = [i \in 1 .. n |-> CellOf(image, image.files[files[fh].file].chain, p + i - 1)]
      BY <3>1, Zenon
    <3> HIDE DEF D
    <3> QED
      BY <1>2, <2>5, <3>2, Zenon DEF n, p
  <2>8. files[fh].offset = call'.offset + Len(call'.data)
    BY <1>2, <2>4, <2>6, Zenon
  <2> HIDE DEF off, D
  <2> QED
    BY <1>2, <2>2, <2>3, <2>4, <2>7, <2>8, Zenon DEF ReadSoFar
<1> HIDE DEF off
<1>6. Reading(image, files', call')
  BY <1>1, <1>2, <1>4, <1>5, Zenon DEF Reading, OnFile
<1>7. CallOK(image, files', dirs', call')
  BY <1>2, <1>6, Zenon DEF CallOK
<1>8. vol.partValid
  BY <1>1, <1>4, ValidMeansMounted, Zenon
<1> QED
  BY <1>1, <1>3, <1>7, <1>8, InvFacts, CallKeepsInv, Zenon

\* A file has a cluster for each of its cells.
LEMMA ChainCovers ==
    ASSUME NEW img \in Images, NEW f \in DOMAIN img.files
    PROVE  /\ Linked(img, img.files[f].chain) /\ img.files[f].length \in Nat
           /\ Len(img.files[f].chain) \in Nat
           /\ \A k \in Nat : k * ClusterCells(img) < img.files[f].length => k < Len(img.files[f].chain)
<1> DEFINE n == Len(img.files[f].chain)
           l == img.files[f].length
           C == ClusterCells(img)
<1>1. Linked(img, img.files[f].chain) /\ l \in Nat /\ l <= n * C
  BY ImagesAssumption, Zenon DEF SoundFat
<1>2. n \in Nat
  BY <1>1 DEF Linked
<1>3. C \in Nat \ {0}
  BY ClusterIsBlocks
<1> HIDE DEF n, l, C
<1>4. ASSUME NEW k \in Nat, k * C < l PROVE k < n
  <2> SUFFICES ASSUME n <= k PROVE FALSE
    BY <1>2, SMT
  <2>1. PICK d \in Nat : k = n + d
    BY <1>2, SMT
  <2>2. k * C = n * C + d * C
    BY <1>2, <1>3, <2>1, SMT
  <2> DEFINE x == k * C
             y == n * C
             z == d * C
  <2>3. x \in Nat /\ y \in Nat /\ z \in Nat
    BY <1>2, <1>3, SMT
  <2>4. x < l /\ l <= y /\ x = y + z
    BY <1>1, <1>4, <2>2
  <2> HIDE DEF x, y, z
  <2> QED
    BY <1>1, <2>3, <2>4, SMT
<1> QED
  BY <1>1, <1>2, <1>4, Zenon DEF n, l, C

\* object_seek() starts its walk at a cluster of the chain that is not behind the
\* offset it looks for.
LEMMA SeekStarts ==
    ASSUME image \in Images, MountedAs(image, vol), NEW f, GoodFile(image, f),
           NEW offset \in Nat, NEW at, at = SeekStart(f, offset)
    PROVE  /\ at = [cluster |-> at.cluster, base |-> at.base]
           /\ \E k \in Nat : /\ at.base = k * CC /\ k * CC <= offset
                             /\ k * CC < f.length => at.cluster = image.files[f.file].chain[k + 1]
<1> DEFINE q == f.offset \div CC
           r == f.offset % CC
           base == f.offset - r
           chain == image.files[f.file].chain
<1>1. CC \in Nat \ {0}
  BY ClusterIsBlocks DEF CC
<1>2. /\ f.file \in DOMAIN image.files /\ f.offset \in Nat /\ f.firstCluster = chain[1]
      /\ f.length = image.files[f.file].length
      /\ OnChain(image, chain, f.currCluster, f.offset, f.length)
  BY Zenon DEF GoodFile
<1>3. q \in Nat /\ r \in Nat /\ f.offset = q * CC + r
  BY <1>1, <1>2, DivMod, Zenon
<1>4. at = IF offset < base THEN [cluster |-> f.firstCluster, base |-> 0]
           ELSE [cluster |-> f.currCluster, base |-> base]
  BY Zenon DEF SeekStart, MountedAs, CC
<1>5. base = q * CC /\ q * CC \in Nat
  <2> DEFINE u == q * CC
  <2> HIDE DEF q, r
  <2>1. u \in Nat
    BY <1>1, <1>3, SMT
  <2>2. f.offset = u + r
    BY <1>3
  <2> HIDE DEF u
  <2>3. f.offset - r = u
    BY <1>3, <2>1, <2>2, SMT
  <2> QED
    BY <2>1, <2>3 DEF u
<1>6. CASE offset < base
  <2>1. at = [cluster |-> chain[1], base |-> 0]
    BY <1>2, <1>4, <1>6, Zenon
  <2> HIDE DEF chain
  <2>2. at.cluster = chain[1] /\ at.base = 0
    BY <2>1
  <2>3. 0 \in Nat /\ 0 * CC = 0 /\ 0 <= offset /\ 0 + 1 = 1
    BY <1>1, SMT
  <2> QED
    BY <2>1, <2>2, <2>3, Zenon DEF chain
<1>7. CASE ~(offset < base)
  <2>1. at = [cluster |-> f.currCluster, base |-> base]
    BY <1>4, <1>7, Zenon
  <2> HIDE DEF base
  <2>2. at.cluster = f.currCluster /\ at.base = base
    BY <2>1
  <2>3. base <= offset
    BY <1>5, <1>7, SMT
  <2>4. ASSUME q * CC < f.length PROVE at.cluster = chain[q + 1]
    <3>1. q < Len(chain)
      BY <1>2, <1>3, <2>4, ChainCovers, Zenon DEF CC
    <3> QED
      BY <1>2, <2>2, <2>4, <3>1, Zenon DEF OnChain, CC
  <2> QED
    BY <1>3, <1>5, <2>1, <2>2, <2>3, <2>4, Zenon
<1> QED
  BY <1>6, <1>7

LEMMA FileSeekKeepsInv ==
    ASSUME FileSysInv, ~spoilt, NEW fh \in DOMAIN files, NEW offset \in Nat, file_seek(fh, offset)
    PROVE  FileSysInv'
<1> DEFINE at == SeekStart(files[fh], offset)
<1>1. /\ UNCHANGED <<image, vol, cache, failures, spoilt>> /\ files' = files /\ dirs' = dirs /\ files[fh].valid
  BY Zenon DEF file_seek
<1>2. fh \in 0 .. MaxFiles - 1
  BY InvFacts
<1>3. vol.partValid /\ MountedAs(image, vol)
  BY <1>1, <1>2, ValidMeansMounted, Zenon
<1>4. CASE call' = NoCall /\ ret' = [op |-> "file_seek", ok |-> FALSE]
  <2>1. ret'.op \notin {"file_read", "file_open"}
    BY <1>4
  <2>2. CallOK(image, files', dirs', call')
    BY <1>4, Zenon DEF CallOK
  <2> QED
    BY <1>1, <1>3, <2>1, <2>2, InvFacts, CallKeepsInv, Zenon
<1>5. CASE offset <= files[fh].length /\ call' = [op |-> "seek", h |-> fh, offset |-> offset, at |-> at]
  <2>1. at = SeekStart(files[fh], offset)
    OBVIOUS
  <2>2. at = [cluster |-> at.cluster, base |-> at.base]
    <3>1. \E x, y : at = [cluster |-> x, base |-> y]
      BY Zenon DEF SeekStart
    <3> HIDE DEF at
    <3> QED
      BY <3>1
  <2> HIDE DEF at
  <2>3. call'.op = "seek" /\ call'.h = fh /\ call'.offset = offset /\ call'.at = at
    BY <1>5
  <2>4. call' # NoCall
    <3>1. NoCall.op = "none"
      BY DEF NoCall
    <3> QED
      BY <2>3, <3>1
  <2>5. ASSUME ~files[fh].listed PROVE SoughtSoFar(image, files[fh], call')
    <3>1. GoodFile(image, files[fh])
      BY <1>1, <1>2, <2>5, InvFacts, Zenon DEF GoodFiles
    <3>2. image \in Images
      BY InvFacts
    <3>3. \E k \in Nat : /\ at.base = k * CC /\ k * CC <= offset
                         /\ k * CC < files[fh].length =>
                              at.cluster = image.files[files[fh].file].chain[k + 1]
      BY <1>3, <2>1, <3>1, <3>2, SeekStarts, SMT
    <3> QED
      BY <1>5, <2>3, <3>3, Zenon DEF SoughtSoFar, CC
  <2>6. Seeking(image, files', call')
    BY <1>1, <1>2, <1>5, <2>2, <2>3, <2>5, Zenon DEF Seeking, OnFile
  <2>7. CallOK(image, files', dirs', call')
    BY <2>3, <2>6, Zenon DEF CallOK
  <2> QED
    BY <1>1, <1>3, <2>4, <2>7, InvFacts, CallKeepsInv, Zenon
<1> QED
  BY <1>4, <1>5, Zenon DEF file_seek, Start

\* What is left to show of a step.
LEMMA StepKeepsInv ==
    ASSUME FileSysInv, image' = image, vol' = vol, vol.partValid, CacheLike(cache'), failures' \in Nat,
           spoilt' \in BOOLEAN, spoilt' => call' = NoCall,
           Table(files', MaxFiles), Table(dirs', MaxDirs),
           ~spoilt' => GoodFiles(image, files'), ~spoilt' => CallOK(image, files', dirs', call'),
           ~spoilt' => FileReadsAreRight' /\ OpenFindsTheFile'
    PROVE  FileSysInv'
<1>1. image \in Images /\ VolumeOK(image, vol)
  BY InvFacts
<1>2. Shape'
  BY <1>1, Zenon DEF Shape
<1> QED
  BY <1>2, Zenon DEF FileSysInv

\* The search of file_open() starts at the first entry of the root directory.
LEMMA FindStarts ==
    ASSUME NEW img \in Images, NEW d, NEW c, d.offset = 0, d.length = 2^30,
           d.currCluster = img.ebr.rootCluster, c.hasLFN = FALSE
    PROVE  Finding(img, d, c)
<1> DEFINE R == RootSize(img)
<1>1. SoundRoot(img)
  BY ImagesAssumption
<1>2. ClusterCells(img) \in Nat \ {0}
  BY ClusterIsBlocks
<1>3. Len(img.root) \in Nat
  BY <1>1 DEF SoundRoot, Linked
<1>4. R \in Nat
  <2> DEFINE x == Len(img.root)
             y == ClusterCells(img)
  <2>1. R = x * y
    BY Zenon DEF RootSize
  <2> HIDE DEF R, x, y
  <2> QED
    BY <1>2, <1>3, <2>1, SMT DEF x, y
<1>5. \E o \in 0 .. R - 1 : TRUE
  BY <1>1, Zenon DEF SoundRoot
<1> HIDE DEF R
<1>6. 0 \in 0 .. R - 1
  BY <1>4, <1>5, SMT
<1>7. (0 \div ClusterCells(img)) + 1 = 1
  <2> DEFINE C == ClusterCells(img)
  <2> HIDE DEF C
  <2>1. C \in Nat \ {0} /\ 0 = 0 * C + 0 /\ 0 < C /\ 0 \in Nat
    BY <1>2, SMT DEF C
  <2>2. 0 \div C = 0
    BY <2>1, DivModUnique
  <2> QED
    BY <2>2 DEF C
<1>8. d.currCluster = img.root[(d.offset \div ClusterCells(img)) + 1]
  BY <1>1, <1>7, Zenon DEF SoundRoot
<1>9. \A p \in 0 .. d.offset - 1 : RootEntry(img, p).kind # "end"
  <2>1. \A p \in 0 .. 0 - 1 : FALSE
    BY SMT
  <2> QED
    BY <2>1, Zenon
<1>10. c.hasLFN = (d.offset > 0 /\ RootEntry(img, d.offset - 1).kind = "lfn")
  <2>1. ~(0 > 0)
    BY SMT
  <2> QED
    BY <2>1, Zenon
<1>11. Collected(img, d.offset, c.ucs)
  <2>1. ASSUME NEW p \in 0 .. RootSize(img) - 1, NEW m \in 1 .. 4, p - m < 0, HasParts(img, p, m) PROVE FALSE
    <3>1. m <= p
      BY <2>1, Zenon DEF HasParts
    <3>2. p \in Int /\ m \in Int
      BY <1>4, SMT DEF R
    <3> QED
      BY <2>1, <3>1, <3>2, SMT
  <2> QED
    BY <2>1, Zenon DEF Collected
<1>12. NotFound(img, d.offset, c.name)
  <2>1. ASSUME NEW p \in 0 .. RootSize(img) - 1 PROVE ~(p < 0)
    BY <1>4, SMT DEF R
  <2> QED
    BY <2>1, Zenon DEF NotFound
<1> QED
  BY <1>6, <1>8, <1>9, <1>10, <1>11, <1>12, Zenon DEF Finding, R

LEMMA FileOpenKeepsInv ==
    ASSUME FileSysInv, ~spoilt, NEW name, file_open(name)
    PROVE  FileSysInv'
<1> DEFINE dh == FreeHandle(dirs)
           o == Opened(vol.rootCluster, 2^30, <<"root">>)
           c == [op |-> "find", h |-> dh, name |-> name, hasLFN |-> FALSE, ucs |-> NoName]
<1>1. image' = image /\ vol' = vol /\ cache' = cache /\ failures' = failures /\ spoilt' = spoilt /\ files' = files
  BY DEF file_open
<1>2. vol.partValid /\ MountedAs(image, vol)
  BY ValidMeansMounted DEF file_open
<1>3. CASE dh = kInvalidHandle /\ call' = NoCall /\ dirs' = dirs
           /\ ret' = [op |-> "file_open", name |-> name, ok |-> FALSE, full |-> TRUE, cluster |-> 0]
  <2>1. ret'.op = "file_open" /\ ret'.ok = FALSE /\ ret'.full = TRUE
    BY <1>3
  <2>2. FileReadsAreRight' /\ OpenFindsTheFile'
    BY <2>1 DEF FileReadsAreRight, OpenFindsTheFile
  <2>3. CallOK(image, files', dirs', call')
    BY <1>3, Zenon DEF CallOK
  <2> QED
    BY <1>1, <1>2, <1>3, <2>2, <2>3, InvFacts, StepKeepsInv, Zenon
<1>4. CASE dh # kInvalidHandle /\ call' = c /\ dirs' = [dirs EXCEPT ![dh] = o]
  <2>1. call' = [op |-> "find", h |-> dh, name |-> name, hasLFN |-> FALSE, ucs |-> NoName]
    BY <1>4
  <2>2. ObjLike(o) /\ o.valid /\ o.offset = 0 /\ o.length = 2^30 /\ o.currCluster = image.ebr.rootCluster
    BY <1>2, OpenRoot, Zenon DEF MountedAs
  <2>3. Table(dirs, MaxDirs) /\ MaxDirs \in 0 .. 254 /\ DOMAIN dirs = 0 .. MaxDirs - 1
    BY InvFacts, FileSysAssumption, Zenon
  <2>4. dh \in 0 .. MaxDirs - 1
    BY <1>4, <2>3, FreeHandleIsFree, Zenon
  <2> HIDE DEF dh, o
  <2>5. dirs' = Put(dirs, dh, o) /\ dirs'[dh] = o
    BY <1>4, <2>3, <2>4, Zenon DEF Put
  <2>6. Table(Put(dirs, dh, o), MaxDirs)
    BY <2>2, <2>3, TableUpdate, Zenon
  <2>7. call'.op = "find" /\ call'.h = dh /\ call'.name = name /\ call'.hasLFN = FALSE /\ call'.ucs = NoName
    BY <2>1
  <2>8. call' # NoCall
    <3>1. NoCall.op = "none"
      BY DEF NoCall
    <3> QED
      BY <2>7, <3>1
  <2>9. NoName = [s \in Slots |-> NoName[s]]
    BY Zenon DEF NoName
  <2>10. Searching(dirs', call')
    BY <2>1, <2>2, <2>4, <2>5, <2>7, <2>9, Zenon DEF Searching
  <2>11. Finding(image, o, call')
    <3>1. image \in Images
      BY InvFacts
    <3> QED
      BY <2>2, <2>7, <3>1, FindStarts, Zenon
  <2>12. CallOK(image, files', dirs', call')
    BY <2>5, <2>7, <2>10, <2>11, Zenon DEF CallOK
  <2>13. FileReadsAreRight' /\ OpenFindsTheFile'
    BY <2>8, OtherResult
  <2> QED
    BY <1>1, <1>2, <2>5, <2>6, <2>12, <2>13, InvFacts, StepKeepsInv, Zenon
<1> QED
  BY <1>3, <1>4, Zenon DEF file_open, Start

(***************************************************************************)
(* The steps of a call.                                                    *)
(***************************************************************************)
LEMMA ChargeCounts ==
    ASSUME FileSysInv, NEW ok, Charge(ok)
    PROVE  failures' \in Nat /\ (~ok => failures' # 0)
<1>1. failures \in Nat
  BY InvFacts
<1> QED
  BY <1>1, SMT DEF Charge

\* While a call is under way the data are good, and the volume is mounted.
LEMMA UnderWay ==
    ASSUME FileSysInv, call.op # "none"
    PROVE  /\ ~spoilt /\ vol.partValid /\ MountedAs(image, vol) /\ image \in Images /\ CacheLike(cache)
           /\ GoodFiles(image, files) /\ Table(files, MaxFiles) /\ Table(dirs, MaxDirs)
           /\ failures \in Nat
           /\ call.op = "find" => Searching(dirs, call) /\ Finding(image, dirs[call.h], call)
           /\ call.op = "next" => Searching(dirs, call)
           /\ call.op = "read" => Reading(image, files, call)
           /\ call.op = "seek" => Seeking(image, files, call)
           /\ call.op = "clusters" => ListingClusters(files, call)
<1>1. call # NoCall
  BY DEF NoCall
<1>2. ~spoilt
  BY <1>1, InvFacts, Zenon
<1>3. vol.partValid /\ MountedAs(image, vol)
  BY <1>1, ValidMeansMounted, Zenon
<1>4. CallOK(image, files, dirs, call)
  BY <1>2, InvFacts, Zenon
<1>5. \/ call.op = "find" /\ Searching(dirs, call) /\ Finding(image, dirs[call.h], call)
      \/ call.op = "next" /\ Searching(dirs, call)
      \/ call.op = "read" /\ Reading(image, files, call)
      \/ call.op = "seek" /\ Seeking(image, files, call)
      \/ call.op = "clusters" /\ ListingClusters(files, call)
  BY <1>1, <1>4, Zenon DEF CallOK
<1>6. /\ call.op = "find" => Searching(dirs, call) /\ Finding(image, dirs[call.h], call)
      /\ call.op = "next" => Searching(dirs, call)
      /\ call.op = "read" => Reading(image, files, call)
      /\ call.op = "seek" => Seeking(image, files, call)
      /\ call.op = "clusters" => ListingClusters(files, call)
  BY <1>5
<1> QED
  BY <1>2, <1>3, <1>6, InvFacts, Zenon

\* An object at another position.
Moved(o, cluster, offset, listed) ==
    [valid |-> o.valid, offset |-> offset, length |-> o.length, currCluster |-> cluster,
     firstCluster |-> o.firstCluster, file |-> o.file, listed |-> listed]
LEMMA MovedObject ==
    ASSUME NEW o, ObjLike(o), NEW cluster, NEW offset, NEW listed \in BOOLEAN,
           NEW u, u = Moved(o, cluster, offset, listed)
    PROVE  /\ ObjLike(u) /\ u.valid = o.valid /\ u.offset = offset /\ u.length = o.length
           /\ u.currCluster = cluster /\ u.firstCluster = o.firstCluster /\ u.file = o.file
           /\ u.listed = listed
<1>1. /\ u.valid = o.valid /\ u.offset = offset /\ u.length = o.length
      /\ u.currCluster = cluster /\ u.firstCluster = o.firstCluster /\ u.file = o.file
      /\ u.listed = listed
  BY DEF Moved
<1>2. u = [valid |-> o.valid, offset |-> offset, length |-> o.length, currCluster |-> cluster,
           firstCluster |-> o.firstCluster, file |-> o.file, listed |-> listed]
  BY Zenon DEF Moved
<1>3. o.valid \in BOOLEAN
  BY Zenon DEF ObjLike
<1>4. ObjLike(u)
  BY <1>1, <1>2, <1>3, Zenon DEF ObjLike
<1> QED
  BY <1>1, <1>4

LEMMA PutAt ==
    ASSUME NEW t, NEW n, Table(t, n), NEW h \in 0 .. n - 1, NEW o, ObjLike(o), NEW u, u = Put(t, h, o)
    PROVE  Table(u, n) /\ u[h] = o /\ \A i \in 0 .. n - 1 : i # h => u[i] = t[i]
<1>1. Table(Put(t, h, o), n)
  BY TableUpdate, Zenon
<1>2. u[h] = o /\ \A i \in 0 .. n - 1 : i # h => u[i] = t[i]
  BY Zenon DEF Table, Put
<1> QED
  BY <1>1, <1>2, Zenon

LEMMA SeekInTable ==
    ASSUME NEW t, NEW n, Table(t, n), NEW h \in 0 .. n - 1, NEW c, NEW p
    PROVE  [t EXCEPT ![h].currCluster = c, ![h].offset = p] = Put(t, h, Moved(t[h], c, p, t[h].listed))
<1> DEFINE o == t[h]
           x == [o EXCEPT !.currCluster = c]
           y == [x EXCEPT !.offset = p]
<1>1. DOMAIN t = 0 .. n - 1 /\ t = [i \in 0 .. n - 1 |-> t[i]]
  BY Zenon DEF Table
<1>2. ObjLike(o)
  BY Zenon DEF Table
<1>3. [t EXCEPT ![h].currCluster = c, ![h].offset = p] = [t EXCEPT ![h] = y]
  BY <1>1
<1> HIDE DEF o
<1>4. o = Moved(o, o.currCluster, o.offset, o.listed)
  BY <1>2, Zenon DEF ObjLike, Moved
<1>5. x = Moved(o, c, o.offset, o.listed)
  BY <1>4 DEF Moved
<1> HIDE DEF x
<1>6. y = Moved(o, c, p, o.listed)
  BY <1>5 DEF Moved
<1> QED
  BY <1>3, <1>6, Zenon DEF Put, o

LEMMA ListInTable ==
    ASSUME NEW t, NEW n, Table(t, n), NEW h \in 0 .. n - 1, NEW c, NEW p
    PROVE  [t EXCEPT ![h].offset = p, ![h].currCluster = c, ![h].listed = TRUE]
             = Put(t, h, Moved(t[h], c, p, TRUE))
<1> DEFINE o == t[h]
           x == [o EXCEPT !.offset = p]
           y == [x EXCEPT !.currCluster = c]
           yes == TRUE
           z == [y EXCEPT !.listed = yes]
<1>1. DOMAIN t = 0 .. n - 1 /\ t = [i \in 0 .. n - 1 |-> t[i]]
  BY Zenon DEF Table
<1>2. ObjLike(o)
  BY Zenon DEF Table
<1>3. [t EXCEPT ![h].offset = p, ![h].currCluster = c, ![h].listed = TRUE] = [t EXCEPT ![h] = z]
  BY <1>1
<1> HIDE DEF o
<1>4. o = Moved(o, o.currCluster, o.offset, o.listed)
  BY <1>2, Zenon DEF ObjLike, Moved
<1>5. x = Moved(o, o.currCluster, p, o.listed)
  BY <1>4 DEF Moved
<1> HIDE DEF x
<1>6. y = Moved(o, c, p, o.listed)
  BY <1>5 DEF Moved
<1> HIDE DEF y, yes
<1>7. z = Moved(o, c, p, yes)
  BY <1>6 DEF Moved
<1> QED
  BY <1>3, <1>7, Zenon DEF Put, o, yes

LEMMA ListClusterKeepsInv ==
    ASSUME FileSysInv, list_cluster
    PROVE  FileSysInv'
<1>1. call.op = "clusters"
  BY DEF list_cluster
<1>2. ListingClusters(files, call) /\ vol.partValid /\ MountedAs(image, vol) /\ image \in Images
      /\ CacheLike(cache) /\ GoodFiles(image, files) /\ Table(files, MaxFiles) /\ Table(dirs, MaxDirs)
      /\ failures \in Nat /\ ~spoilt
  BY <1>1, UnderWay
<1>3. image' = image /\ vol' = vol /\ dirs' = dirs
  BY DEF list_cluster
<1>4. ASSUME NEW list, ClustersReturn(list)
      PROVE  /\ call' = NoCall /\ CallOK(image, files', dirs', call')
             /\ FileReadsAreRight' /\ OpenFindsTheFile'
  <2>1. call' = NoCall /\ ret' = [op |-> "file_clusters", h |-> call.h, list |-> list, ok |-> TRUE]
    BY <1>4, Zenon DEF ClustersReturn, Return
  <2>2. ret'.op \notin {"file_read", "file_open"}
    BY <2>1
  <2> QED
    BY <2>1, <2>2, OtherResult, Zenon DEF CallOK
<1>5. CASE ClustersReturn(call.list) /\ UNCHANGED <<cache, files, failures, spoilt>>
  <2>1. cache' = cache /\ files' = files /\ failures' = failures /\ spoilt' = spoilt
    BY <1>5
  <2>2. call' = NoCall /\ CallOK(image, files', dirs', call') /\ FileReadsAreRight' /\ OpenFindsTheFile'
    BY <1>4, <1>5, Zenon
  <2>3. /\ CacheLike(cache') /\ failures' \in Nat /\ spoilt' \in BOOLEAN /\ Table(files', MaxFiles)
        /\ Table(dirs', MaxDirs) /\ GoodFiles(image, files')
    BY <1>2, <1>3, <2>1, InvFacts, Zenon
  <2> QED
    BY <1>2, <1>3, <2>2, <2>3, StepKeepsInv, Zenon
<1>6. ASSUME NEW bad, NEW n, n = cluster_next(cache, call.cluster, bad), cache' = n.c, Charge(n.ok),
             spoilt' = n.spoilt,
             IF n.spoilt THEN SpoiltReturn(FALSE) /\ UNCHANGED files
             ELSE IF ~n.ok THEN ClustersReturn(Append(call.list, call.cluster)) /\ UNCHANGED files
             ELSE /\ call' = [call EXCEPT !.len = @ - 1, !.list = Append(call.list, call.cluster),
                                          !.cluster = n.next, !.offset = call.offset + vol.clusterBytes]
                  /\ files' = [files EXCEPT ![call.h].offset = call.offset + vol.clusterBytes,
                                            ![call.h].currCluster = call.cluster,
                                            ![call.h].listed = TRUE]
      PROVE  FileSysInv'
  <2>1. CacheLike(n.c) /\ n.ok \in BOOLEAN /\ n.spoilt \in BOOLEAN
    BY <1>2, <1>6, ClusterNext
  <2>2. failures' \in Nat
    BY <1>6, ChargeCounts
  <2>3. CASE n.spoilt
    <3>1. call' = NoCall /\ files' = files /\ spoilt'
      BY <1>6, <2>3 DEF SpoiltReturn, Return
    <3> QED
      BY <1>2, <1>3, <1>6, <2>1, <2>2, <3>1, StepKeepsInv, Zenon
  <2>4. CASE ~n.spoilt /\ ~n.ok
    <3>1. ClustersReturn(Append(call.list, call.cluster)) /\ files' = files
      BY <1>6, <2>4
    <3>2. CallOK(image, files', dirs', call') /\ FileReadsAreRight' /\ OpenFindsTheFile'
      BY <1>4, <3>1, Zenon
    <3>3. GoodFiles(image, files') /\ Table(files', MaxFiles)
      BY <1>2, <3>1
    <3>4. ~spoilt'
      BY <1>6, <2>4
    <3> QED
      BY <1>2, <1>3, <1>6, <2>1, <2>2, <3>2, <3>3, <3>4, StepKeepsInv, Zenon
  <2>5. CASE ~n.spoilt /\ n.ok
    <3> DEFINE h == call.h
               p == call.offset + vol.clusterBytes
               yes == TRUE
               o == Moved(files[h], call.cluster, p, yes)
               l == call.len - 1
               k == Append(call.list, call.cluster)
    <3>1. h \in 0 .. MaxFiles - 1 /\ files[h].valid
      BY <1>2, Zenon DEF ListingClusters, OnFile
    <3>2. files' = [files EXCEPT ![h].offset = p, ![h].currCluster = call.cluster, ![h].listed = TRUE]
      BY <1>6, <2>5, Zenon
    <3>3. files' = Put(files, h, o)
      <4> HIDE DEF h, p
      <4>1. [files EXCEPT ![h].offset = p, ![h].currCluster = call.cluster, ![h].listed = TRUE]
              = Put(files, h, Moved(files[h], call.cluster, p, TRUE))
        BY <1>2, <3>1, ListInTable, Zenon
      <4> QED
        BY <3>2, <4>1, Zenon
    <3>4. ObjLike(files[h]) /\ o = Moved(files[h], call.cluster, p, yes) /\ yes \in BOOLEAN
      BY <1>2, <3>1, Zenon DEF Table
    <3> HIDE DEF o, p, h, yes
    <3>5. ObjLike(o) /\ o.valid = files[h].valid /\ o.listed = yes
      BY <3>4, MovedObject
    <3>6. Table(files', MaxFiles) /\ files'[h] = o
          /\ \A i \in 0 .. MaxFiles - 1 : i # h => files'[i] = files[i]
      BY <1>2, <3>1, <3>3, <3>5, PutAt
    <3>7. GoodFiles(image, files')
      BY <1>2, <3>5, <3>6, Zenon DEF GoodFiles, yes
    <3>8. call = [op |-> "clusters", h |-> call.h, len |-> call.len, list |-> call.list,
                  cluster |-> call.cluster, offset |-> call.offset]
      BY <1>2, Zenon DEF ListingClusters
    <3>9. call' = [call EXCEPT !.len = l, !.list = k, !.cluster = n.next, !.offset = p]
      BY <1>6, <2>5, Zenon DEF p
    <3> HIDE DEF l, k
    <3> DEFINE c1 == [call EXCEPT !.len = l]
               c2 == [c1 EXCEPT !.list = k]
               c3 == [c2 EXCEPT !.cluster = n.next]
    <3>a. c1 = [op |-> "clusters", h |-> call.h, len |-> l, list |-> call.list,
                cluster |-> call.cluster, offset |-> call.offset]
      BY <3>8
    <3>b. call' = [c3 EXCEPT !.offset = p]
      BY <3>9
    <3> HIDE DEF c1
    <3>c. c2 = [op |-> "clusters", h |-> call.h, len |-> l, list |-> k,
                cluster |-> call.cluster, offset |-> call.offset]
      BY <3>a
    <3> HIDE DEF c2
    <3>d. c3 = [op |-> "clusters", h |-> call.h, len |-> l, list |-> k,
                cluster |-> n.next, offset |-> call.offset]
      BY <3>c
    <3> HIDE DEF c3
    <3>10. call' = [op |-> "clusters", h |-> call.h, len |-> l, list |-> k, cluster |-> n.next, offset |-> p]
      BY <3>b, <3>d
    <3>11. /\ call'.op = "clusters" /\ call'.h = h /\ call'.len = l /\ call'.list = k
           /\ call'.cluster = n.next /\ call'.offset = p
      BY <3>10 DEF h
    <3>12. ListingClusters(files', call')
      BY <3>1, <3>5, <3>6, <3>10, <3>11, Zenon DEF ListingClusters, OnFile
    <3>13. CallOK(image, files', dirs', call')
      BY <3>11, <3>12, Zenon DEF CallOK
    <3>14. call' # NoCall
      <4>1. NoCall.op = "none"
        BY DEF NoCall
      <4> QED
        BY <3>11, <4>1
    <3>15. FileReadsAreRight' /\ OpenFindsTheFile'
      BY <3>14, OtherResult
    <3>16. ~spoilt'
      BY <1>6, <2>5
    <3> QED
      BY <1>2, <1>3, <1>6, <2>1, <2>2, <3>6, <3>7, <3>13, <3>15, <3>16, StepKeepsInv, Zenon
  <2> QED
    BY <2>3, <2>4, <2>5
<1> QED
  BY <1>5, <1>6, Zenon DEF list_cluster

\* The walk of object_seek() ends at the cluster that holds the offset.
LEMMA SeekEnds ==
    ASSUME image \in Images, MountedAs(image, vol), NEW f, GoodFile(image, f), NEW c,
           SoughtSoFar(image, f, c), c.offset - c.at.base < vol.clusterBytes,
           NEW o, o.file = f.file, o.length = f.length, o.firstCluster = f.firstCluster,
           o.offset = c.offset, o.currCluster = c.at.cluster
    PROVE  GoodFile(image, o)
<1> DEFINE chain == image.files[f.file].chain
           p == c.offset
<1>1. CC \in Nat \ {0} /\ vol.clusterBytes = CC
  BY ClusterIsBlocks DEF CC, MountedAs
<1>2. PICK k \in Nat : /\ c.at.base = k * CC /\ k * CC <= p
                       /\ k * CC < f.length => c.at.cluster = chain[k + 1]
  BY Zenon DEF SoughtSoFar, CC
<1>3. p \in Nat /\ p <= f.length
  BY Zenon DEF SoughtSoFar
<1>4. p \div CC = k
  <2> DEFINE u == k * CC
             r == p - u
             C == CC
  <2>1. u \in Nat /\ u <= p /\ p - u < C /\ C \in Nat \ {0}
    <3>1. u \in Nat
      BY <1>1, SMT
    <3> QED
      BY <1>1, <1>2, <3>1, Zenon
  <2> HIDE DEF C, p, u
  <2>2. r \in Nat /\ r < C /\ p = u + r
    BY <1>3, <2>1, SMT
  <2> HIDE DEF r
  <2>3. p = k * C + r
    BY <2>2, Zenon DEF u, C
  <2>4. p \div C = k
    BY <2>1, <2>2, <2>3, DivModUnique
  <2> QED
    BY <2>4 DEF C
<1>5. OnChain(image, chain, c.at.cluster, p, f.length)
  BY <1>2, <1>4, Zenon DEF OnChain, CC
<1>6. /\ f.file \in DOMAIN image.files /\ f.length = image.files[f.file].length
      /\ f.firstCluster = image.files[f.file].chain[1]
  BY Zenon DEF GoodFile
<1> QED
  BY <1>3, <1>5, <1>6, Zenon DEF GoodFile

\* A round of it goes to the next cluster of the chain.
LEMMA SeekGoesOn ==
    ASSUME image \in Images, MountedAs(image, vol), CacheLike(cache), NEW f, GoodFile(image, f), NEW c,
           SoughtSoFar(image, f, c), c.offset - c.at.base >= vol.clusterBytes,
           NEW bad, NEW n, n = cluster_next(cache, c.at.cluster, bad), n.ok, ~n.spoilt,
           NEW d, d.offset = c.offset, d.at.cluster = n.next, d.at.base = c.at.base + vol.clusterBytes
    PROVE  SoughtSoFar(image, f, d)
<1> DEFINE chain == image.files[f.file].chain
           p == c.offset
<1>1. CC \in Nat \ {0} /\ vol.clusterBytes = CC
  BY ClusterIsBlocks DEF CC, MountedAs
<1>2. PICK k \in Nat : /\ c.at.base = k * CC /\ k * CC <= p
                       /\ k * CC < f.length => c.at.cluster = chain[k + 1]
  BY Zenon DEF SoughtSoFar, CC
<1>3. p \in Nat /\ p <= f.length
  BY Zenon DEF SoughtSoFar
<1>4. f.file \in DOMAIN image.files /\ f.length = image.files[f.file].length
  BY Zenon DEF GoodFile
<1>5. /\ Linked(image, chain) /\ f.length \in Nat /\ Len(chain) \in Nat
      /\ \A j \in Nat : j * CC < f.length => j < Len(chain)
  BY <1>4, ChainCovers, SMT DEF CC
<1> DEFINE u == k * CC
           v == (k + 1) * CC
<1>6. u \in Nat /\ v \in Nat /\ v = u + CC /\ k + 1 \in Nat /\ p - u >= CC
  <2>1. u \in Nat /\ v \in Nat /\ v = u + CC /\ k + 1 \in Nat
    BY <1>1, SMT
  <2> QED
    BY <1>1, <1>2, <2>1, Zenon
<1>7. d.at.base = v /\ v <= p
  <2>1. d.at.base = u + CC
    BY <1>1, <1>2, Zenon
  <2> DEFINE C == CC
  <2>2. C \in Nat /\ p - u >= C /\ v = u + C
    BY <1>1, <1>6, SMT
  <2>3. p \in Nat /\ u \in Nat
    BY <1>3, <1>6
  <2> HIDE DEF u, v, p, C
  <2>4. v <= p
    BY <2>2, <2>3, SMT
  <2> QED
    BY <1>6, <2>1, <2>4, Zenon
<1>8. ASSUME v < f.length PROVE n.next = chain[(k + 1) + 1]
  <2>1. u < f.length
    <3> HIDE DEF u, v
    <3> QED
      BY <1>1, <1>5, <1>6, <1>8, SMT
  <2>2. k + 1 < Len(chain)
    BY <1>5, <1>6, <1>8, Zenon
  <2>3. c.at.cluster = chain[k + 1]
    BY <1>2, <2>1, Zenon
  <2>4. k + 1 \in 1 .. Len(chain) - 1
    <3> DEFINE L == Len(chain)
    <3>1. L \in Nat /\ k + 1 < L
      BY <1>5, <2>2
    <3> HIDE DEF L
    <3>2. k + 1 \in 1 .. L - 1
      BY <3>1, SMT
    <3> QED
      BY <3>2 DEF L
  <2>5. chain[k + 1] \in DOMAIN image.fat /\ image.fat[chain[k + 1]] = chain[(k + 1) + 1]
    BY <1>5, <2>4, Zenon DEF Linked
  <2> DEFINE x == c.at.cluster
  <2>6. x \in DOMAIN image.fat /\ n = cluster_next(cache, x, bad)
    BY <2>3, <2>5, Zenon
  <2> HIDE DEF x
  <2>7. n.next = image.fat[x]
    BY <2>6, ClusterNext
  <2> QED
    BY <2>3, <2>5, <2>7, Zenon DEF x
<1>9. /\ d.at.base = (k + 1) * CC /\ (k + 1) * CC <= d.offset
      /\ (k + 1) * CC < f.length => d.at.cluster = chain[(k + 1) + 1]
  BY <1>7, <1>8, Zenon
<1> QED
  BY <1>3, <1>6, <1>9, Zenon DEF SoughtSoFar, CC

LEMMA SeekClusterKeepsInv ==
    ASSUME FileSysInv, seek_cluster
    PROVE  FileSysInv'
<1> DEFINE h == call.h
           f == files[h]
<1>1. call.op = "seek"
  BY DEF seek_cluster
<1>2. Seeking(image, files, call) /\ vol.partValid /\ MountedAs(image, vol) /\ image \in Images
      /\ CacheLike(cache) /\ GoodFiles(image, files) /\ Table(files, MaxFiles) /\ Table(dirs, MaxDirs)
      /\ failures \in Nat /\ ~spoilt
  BY <1>1, UnderWay
<1>3. image' = image /\ vol' = vol /\ dirs' = dirs
  BY DEF seek_cluster
<1>4. ASSUME NEW ok, Return([op |-> "file_seek", ok |-> ok])
      PROVE  /\ call' = NoCall /\ CallOK(image, files', dirs', call')
             /\ FileReadsAreRight' /\ OpenFindsTheFile'
  <2>1. call' = NoCall /\ ret' = [op |-> "file_seek", ok |-> ok]
    BY <1>4, Zenon DEF Return
  <2>2. ret'.op \notin {"file_read", "file_open"}
    BY <2>1
  <2> QED
    BY <2>1, <2>2, OtherResult, Zenon DEF CallOK
<1>5. h \in 0 .. MaxFiles - 1 /\ f.valid /\ ObjLike(f)
  BY <1>2, Zenon DEF Seeking, OnFile, Table
<1>6. ~f.listed => GoodFile(image, f) /\ SoughtSoFar(image, f, call)
  BY <1>2, <1>5, Zenon DEF Seeking, GoodFiles
<1>7. CASE /\ call.offset - call.at.base < vol.clusterBytes
           /\ files' = [files EXCEPT ![call.h].currCluster = call.at.cluster, ![call.h].offset = call.offset]
           /\ Return([op |-> "file_seek", ok |-> TRUE])
           /\ UNCHANGED <<cache, failures, spoilt>>
  <2> DEFINE o == Moved(f, call.at.cluster, call.offset, f.listed)
  <2>1. cache' = cache /\ failures' = failures /\ spoilt' = spoilt
    BY <1>7
  <2>2. call' = NoCall /\ CallOK(image, files', dirs', call') /\ FileReadsAreRight' /\ OpenFindsTheFile'
    BY <1>4, <1>7, Zenon
  <2>3. files' = Put(files, h, o)
    BY <1>2, <1>5, <1>7, SeekInTable, Zenon
  <2>4. f.listed \in BOOLEAN /\ o = Moved(f, call.at.cluster, call.offset, f.listed)
    BY <1>5, Zenon DEF ObjLike
  <2> HIDE DEF o, h, f
  <2>5. /\ ObjLike(o) /\ o.valid = f.valid /\ o.offset = call.offset /\ o.length = f.length
        /\ o.currCluster = call.at.cluster /\ o.firstCluster = f.firstCluster /\ o.file = f.file
        /\ o.listed = f.listed
    <3> DEFINE x == call.at.cluster
               y == call.offset
               z == f.listed
    <3>1. ObjLike(f) /\ z \in BOOLEAN /\ o = Moved(f, x, y, z)
      BY <1>5, <2>4
    <3> HIDE DEF x, y, z
    <3>2. /\ ObjLike(o) /\ o.valid = f.valid /\ o.offset = y /\ o.length = f.length
          /\ o.currCluster = x /\ o.firstCluster = f.firstCluster /\ o.file = f.file /\ o.listed = z
      BY <3>1, MovedObject
    <3> QED
      BY <3>2 DEF x, y, z
  <2>6. Table(files', MaxFiles) /\ files'[h] = o
        /\ \A i \in 0 .. MaxFiles - 1 : i # h => files'[i] = files[i]
    BY <1>2, <1>5, <2>3, <2>5, PutAt
  <2>7. ~o.listed => GoodFile(image, o)
    BY <1>2, <1>6, <1>7, <2>5, SeekEnds
  <2>8. GoodFiles(image, files')
    BY <1>2, <2>6, <2>7, Zenon DEF GoodFiles
  <2>9. CacheLike(cache') /\ failures' \in Nat /\ spoilt' \in BOOLEAN /\ Table(dirs', MaxDirs)
    BY <1>2, <1>3, <2>1, InvFacts, Zenon
  <2> QED
    BY <1>2, <1>3, <2>2, <2>6, <2>8, <2>9, StepKeepsInv, Zenon
<1>8. ASSUME NEW bad, NEW n, n = cluster_next(cache, call.at.cluster, bad), cache' = n.c, Charge(n.ok),
             call.offset - call.at.base >= vol.clusterBytes,
             spoilt' = n.spoilt,
             IF n.spoilt THEN SpoiltReturn(FALSE) /\ UNCHANGED files
             ELSE IF ~n.ok THEN seek_failed /\ Return([op |-> "file_seek", ok |-> FALSE])
             ELSE /\ call' = [call EXCEPT !.at = [cluster |-> n.next, base |-> @.base + vol.clusterBytes]]
                  /\ UNCHANGED <<files, ret>>
      PROVE  FileSysInv'
  <2>1. CacheLike(n.c) /\ n.ok \in BOOLEAN /\ n.spoilt \in BOOLEAN
    <3> DEFINE x == call.at.cluster
    <3>1. n = cluster_next(cache, x, bad)
      BY <1>8
    <3> HIDE DEF x
    <3> QED
      BY <1>2, <3>1, ClusterNext
  <2>2. failures' \in Nat
    BY <1>8, ChargeCounts
  <2>3. files' = files
    BY <1>8, Zenon DEF seek_failed
  <2>4. CASE n.spoilt
    <3>1. call' = NoCall /\ spoilt'
      BY <1>8, <2>4 DEF SpoiltReturn, Return
    <3> QED
      BY <1>2, <1>3, <1>8, <2>1, <2>2, <2>3, <3>1, StepKeepsInv, Zenon
  <2>5. CASE ~n.spoilt /\ ~n.ok
    <3>1. Return([op |-> "file_seek", ok |-> FALSE])
      BY <1>8, <2>5
    <3>2. CallOK(image, files', dirs', call') /\ FileReadsAreRight' /\ OpenFindsTheFile'
      BY <1>4, <3>1, Zenon
    <3>3. GoodFiles(image, files') /\ Table(files', MaxFiles)
      BY <1>2, <2>3
    <3>4. ~spoilt'
      BY <1>8, <2>5
    <3> QED
      BY <1>2, <1>3, <1>8, <2>1, <2>2, <3>2, <3>3, <3>4, StepKeepsInv, Zenon
  <2>6. CASE ~n.spoilt /\ n.ok
    <3> DEFINE b == call.at.base + vol.clusterBytes
               a == [cluster |-> n.next, base |-> b]
    <3>1. call' = [call EXCEPT !.at = a]
      BY <1>8, <2>6, Zenon
    <3>2. call = [op |-> "seek", h |-> call.h, offset |-> call.offset, at |-> call.at]
      BY <1>2, Zenon DEF Seeking
    <3> HIDE DEF b
    <3>3. a.cluster = n.next /\ a.base = b
      OBVIOUS
    <3>4. a = [cluster |-> a.cluster, base |-> a.base]
      BY <3>3, Zenon
    <3> HIDE DEF a
    <3>5. call' = [op |-> "seek", h |-> call.h, offset |-> call.offset, at |-> a]
      BY <3>1, <3>2
    <3>6. call'.op = "seek" /\ call'.h = call.h /\ call'.offset = call.offset /\ call'.at = a
      BY <3>5
    <3>7. call'.at.cluster = n.next /\ call'.at.base = call.at.base + vol.clusterBytes
      BY <3>3, <3>6, Zenon DEF b
    <3>8. ~f.listed => SoughtSoFar(image, f, call')
      <4> DEFINE g == f
                 c == call
                 d == call'
      <4>1. d.offset = c.offset /\ d.at.cluster = n.next /\ d.at.base = c.at.base + vol.clusterBytes
        BY <3>6, <3>7
      <4>2. c.offset - c.at.base >= vol.clusterBytes /\ n = cluster_next(cache, c.at.cluster, bad)
        BY <1>8
      <4>3. ~g.listed => GoodFile(image, g) /\ SoughtSoFar(image, g, c)
        BY <1>6
      <4> HIDE DEF g, c, d
      <4>4. ~g.listed => SoughtSoFar(image, g, d)
        BY <1>2, <2>6, <4>1, <4>2, <4>3, SeekGoesOn
      <4> QED
        BY <4>4 DEF g, d
    <3>9. Seeking(image, files', call')
      BY <1>5, <2>3, <3>4, <3>5, <3>6, <3>8, Zenon DEF Seeking, OnFile
    <3>10. CallOK(image, files', dirs', call')
      BY <3>6, <3>9, Zenon DEF CallOK
    <3>11. call' # NoCall
      <4>1. NoCall.op = "none"
        BY DEF NoCall
      <4> QED
        BY <3>6, <4>1
    <3>12. FileReadsAreRight' /\ OpenFindsTheFile'
      BY <3>11, OtherResult
    <3>13. ~spoilt'
      BY <1>8, <2>6
    <3> QED
      BY <1>2, <1>3, <1>8, <2>1, <2>2, <2>3, <3>10, <3>12, <3>13, StepKeepsInv, Zenon
  <2> QED
    BY <2>4, <2>5, <2>6
<1> QED
  BY <1>7, <1>8, Zenon DEF seek_cluster

\* The cells of a chain, and what two pieces of it make.
Cells(img, chain, p, n) == [i \in 1 .. n |-> CellOf(img, chain, p + i - 1)]
AreCells(d, img, chain, p, n) ==
    /\ d \in Seq({CellOf(img, chain, x) : x \in Int}) /\ Len(d) = n
    /\ \A i \in 1 .. n : d[i] = CellOf(img, chain, p + i - 1)
Join(img, chain, p, n, m) ==
    LET d == Cells(img, chain, p, n) \o Cells(img, chain, p + n, m)
    IN  Len(d) = n + m /\ d = Cells(img, chain, p, n + m)
LEMMA CellsAre ==
    ASSUME NEW img, NEW chain, NEW p \in Nat, NEW n \in Nat
    PROVE  AreCells(Cells(img, chain, p, n), img, chain, p, n)
<1> DEFINE G(x) == CellOf(img, chain, x)
           S == {G(x) : x \in Int}
           d == [i \in 1 .. n |-> G(p + i - 1)]
<1>1. \A i \in 1 .. n : p + i - 1 \in Int
  BY SMT
<1> HIDE DEF G
<1>2. \A i \in 1 .. n : G(p + i - 1) \in S
  BY <1>1, Zenon
<1>3. d \in [1 .. n -> S] /\ \A i \in 1 .. n : d[i] = G(p + i - 1)
  BY <1>2, Zenon
<1> HIDE DEF S, d
<1>4. d \in Seq(S) /\ Len(d) = n
  BY <1>3
<1>5. d = Cells(img, chain, p, n)
  BY Zenon DEF d, G, Cells
<1> QED
  BY <1>3, <1>4, <1>5, Zenon DEF S, G, AreCells

LEMMA CellsJoin ==
    ASSUME NEW img, NEW chain, NEW p \in Nat, NEW n \in Nat, NEW m \in Nat
    PROVE  Join(img, chain, p, n, m)
<1> DEFINE d == Cells(img, chain, p, n)
           q == p + n
           e == Cells(img, chain, q, m)
           k == n + m
           g == Cells(img, chain, p, k)
           S == {CellOf(img, chain, x) : x \in Int}
<1>1. q \in Nat /\ k \in Nat
  BY SMT
<1>2. d \in Seq(S) /\ Len(d) = n /\ \A i \in 1 .. n : d[i] = CellOf(img, chain, p + i - 1)
  <2>1. AreCells(d, img, chain, p, n)
    BY CellsAre, Zenon
  <2> QED
    BY <2>1, Zenon DEF AreCells
<1> HIDE DEF q, k
<1>3. e \in Seq(S) /\ Len(e) = m /\ \A i \in 1 .. m : e[i] = CellOf(img, chain, q + i - 1)
  <2>1. AreCells(e, img, chain, q, m)
    BY <1>1, CellsAre, Zenon
  <2> QED
    BY <2>1, Zenon DEF AreCells
<1>4. g \in Seq(S) /\ Len(g) = k /\ \A i \in 1 .. k : g[i] = CellOf(img, chain, p + i - 1)
  <2>1. AreCells(g, img, chain, p, k)
    BY <1>1, CellsAre, Zenon
  <2> QED
    BY <2>1, Zenon DEF AreCells
<1> HIDE DEF d, e, g, S
<1>5. /\ d \o e \in Seq(S) /\ Len(d \o e) = k
      /\ \A i \in 1 .. k : (d \o e)[i] = IF i <= n THEN d[i] ELSE e[i - n]
  BY <1>2, <1>3, ConcatProperties DEF k
<1>6. ASSUME NEW i \in 1 .. k PROVE (d \o e)[i] = g[i]
  <2>1. CASE i <= n
    <3>1. i \in 1 .. n
      BY <1>1, <2>1, SMT
    <3> QED
      BY <1>2, <1>4, <1>5, <2>1, <3>1, Zenon
  <2>2. CASE ~(i <= n)
    <3>1. i - n \in 1 .. m /\ q + (i - n) - 1 = p + i - 1
      BY <1>1, <2>2, SMT DEF q, k
    <3> QED
      BY <1>3, <1>4, <1>5, <2>2, <3>1, Zenon
  <2> QED
    BY <2>1, <2>2
<1>7. d \o e = g
  BY <1>4, <1>5, <1>6, SeqEqual
<1> QED
  BY <1>5, <1>7, Zenon DEF d, e, g, q, k, Join

\* The cluster of a file that is not at its end is the one that holds its offset.
LEMMA FilePosition ==
    ASSUME NEW img \in Images, NEW f, GoodFile(img, f), f.offset < f.length
    PROVE  LET k == f.offset \div ClusterCells(img)
           IN  k \in Nat /\ k < Len(img.files[f.file].chain) /\ f.currCluster = img.files[f.file].chain[k + 1]
<1> DEFINE C == ClusterCells(img)
           k == f.offset \div C
           chain == img.files[f.file].chain
           u == k * C
<1>1. C \in Nat \ {0}
  BY ClusterIsBlocks
<1>2. /\ f.file \in DOMAIN img.files /\ f.length = img.files[f.file].length /\ f.offset \in Nat
      /\ OnChain(img, chain, f.currCluster, f.offset, f.length)
  BY Zenon DEF GoodFile
<1>3. k \in Nat /\ f.offset % C \in Nat /\ f.offset = u + (f.offset % C)
  BY <1>1, <1>2, DivMod, Zenon
<1>4. f.length \in Nat /\ \A j \in Nat : j * C < f.length => j < Len(chain)
  BY <1>2, ChainCovers, SMT
<1>5. u < f.length
  <2>1. u \in Nat
    BY <1>1, <1>3, SMT
  <2> DEFINE r == f.offset % C
  <2>2. r \in Nat /\ f.offset = u + r
    BY <1>3
  <2> HIDE DEF u, r
  <2> QED
    BY <1>2, <1>4, <2>1, <2>2, SMT
<1>6. k < Len(chain)
  BY <1>3, <1>4, <1>5, Zenon
<1> QED
  BY <1>2, <1>3, <1>5, <1>6, Zenon DEF OnChain

\* A round of file_read() adds the cells that follow.
LEMMA ReadGoesOn ==
    ASSUME image \in Images, MountedAs(image, vol), CacheLike(cache),
           NEW f, ObjLike(f), GoodFile(image, f), f.offset < f.length, NEW c, ReadSoFar(image, f, c), c.len > 0,
           NEW bad, NEW r \in object_read(f, c.len, bad), r.ok, ~r.spoilt,
           NEW d, d.offset = c.offset, d.len = c.len - Len(r.data), d.data = c.data \o r.data
    PROVE  GoodFile(image, r.obj) /\ ReadSoFar(image, r.obj, d)
<1> DEFINE chain == image.files[f.file].chain
           len == c.len
           n == Len(c.data)
           p == c.offset
<1>1. /\ f.file \in DOMAIN image.files /\ f.length = image.files[f.file].length /\ f.offset \in Nat
      /\ f.firstCluster = chain[1]
  BY Zenon DEF GoodFile
<1>2. len \in Nat /\ p \in Nat /\ n \in Nat /\ c.data = Cells(image, chain, p, n) /\ f.offset = p + n
  BY Zenon DEF ReadSoFar, Cells
<1>3. Linked(image, chain) /\ f.length \in Nat
  BY <1>1, ChainCovers, SMT
<1>4. f.offset \div CC < Len(chain) /\ f.currCluster = chain[(f.offset \div CC) + 1]
  BY FilePosition, Zenon DEF CC
<1>5. r.obj.file = f.file /\ r.obj.length = f.length /\ r.obj.firstCluster = f.firstCluster
  <2>1. SameObject(r.obj, f)
    BY ObjectReadShape, Zenon
  <2> QED
    BY <2>1, Zenon DEF SameObject
<1>6. len \in Nat \ {0}
  <2> HIDE DEF len
  <2>1. len > 0
    BY DEF len
  <2> QED
    BY <1>2, <2>1, SMT
<1>7. PICK m \in 1 .. len :
        /\ f.offset + m <= f.length
        /\ r.data = [i \in 1 .. m |-> CellOf(image, chain, f.offset + i - 1)]
        /\ r.obj.offset = f.offset + m
        /\ OnChain(image, chain, r.obj.currCluster, r.obj.offset, f.length)
  <2> HIDE DEF chain
  <2>1. r \in object_read(f, len, bad)
    OBVIOUS
  <2> HIDE DEF len
  <2> QED
    BY <1>1, <1>3, <1>4, <1>6, <2>1, ObjectReadData
<1>8. m \in Nat /\ len - m \in Nat /\ p + n + m = p + (n + m) /\ n + m \in Nat /\ r.obj.offset \in Nat
  <2>1. r.obj.offset = p + n + m
    BY <1>2, <1>7, Zenon
  <2>2. m \in 1 .. len /\ len \in Nat /\ p \in Nat /\ n \in Nat
    BY <1>2
  <2> HIDE DEF len, p, n
  <2> QED
    BY <2>1, <2>2, SMT
<1>9. r.data = Cells(image, chain, p + n, m)
  BY <1>2, <1>7, Zenon DEF Cells
<1>10. Len(r.data) = m
  <2> DEFINE q == p + n
  <2>1. q \in Nat /\ r.data = Cells(image, chain, q, m)
    BY <1>1, <1>2, <1>9, Zenon
  <2> HIDE DEF q, chain
  <2>2. AreCells(Cells(image, chain, q, m), image, chain, q, m)
    BY <1>8, <2>1, CellsAre, Zenon
  <2> QED
    BY <2>1, <2>2, Zenon DEF AreCells
<1>11. Len(d.data) = n + m /\ d.data = Cells(image, chain, p, n + m)
  <2>1. d.data = Cells(image, chain, p, n) \o Cells(image, chain, p + n, m)
    BY <1>2, <1>9, Zenon
  <2>2. p \in Nat /\ n \in Nat /\ m \in Nat
    BY <1>2, <1>8
  <2> HIDE DEF chain, p, n
  <2>3. Join(image, chain, p, n, m)
    BY <2>2, CellsJoin, Zenon
  <2> QED
    BY <2>1, <2>3, Zenon DEF Join
<1>12. GoodFile(image, r.obj)
  BY <1>1, <1>5, <1>7, <1>8, Zenon DEF GoodFile
<1>13. ReadSoFar(image, r.obj, d)
  <2>1. d.len \in Nat /\ d.offset \in Nat /\ Len(d.data) \in Nat
    BY <1>2, <1>8, <1>10, <1>11, Zenon
  <2>2. r.obj.offset = d.offset + Len(d.data)
    BY <1>2, <1>7, <1>8, <1>11, Zenon
  <2>3. d.data = [i \in 1 .. Len(d.data) |-> CellOf(image, image.files[r.obj.file].chain, d.offset + i - 1)]
    BY <1>5, <1>11, Zenon DEF Cells
  <2> QED
    BY <2>1, <2>2, <2>3, Zenon DEF ReadSoFar
<1> QED
  BY <1>12, <1>13

\* The result of file_read() is what its rounds have copied.
LEMMA ReadResult ==
    ASSUME FileSysInv, call.op = "read", image' = image, files' = files, NEW ok \in BOOLEAN,
           ReadReturns(call.data, ok),
           ok => ~(call.len > 0 /\ files[call.h].offset < files[call.h].length)
    PROVE  call' = NoCall /\ FileReadsAreRight' /\ OpenFindsTheFile'
<1> DEFINE h == call.h
           f == files[h]
           n == Len(call.data)
           l == n + call.len
           p == call.offset
           chain == image.files[f.file].chain
<1>1. call' = NoCall /\ ret' = [op |-> "file_read", h |-> h, offset |-> p, data |-> call.data, ok |-> ok, len |-> l]
  BY Zenon DEF ReadReturns, Return
<1>2. Reading(image, files, call) /\ GoodFiles(image, files) /\ image \in Images
  BY UnderWay
<1>3. /\ ret'.op = "file_read" /\ ret'.h = h /\ ret'.offset = p /\ ret'.data = call.data
      /\ ret'.ok = ok /\ ret'.len = l
  <2> HIDE DEF h, p, l
  <2> QED
    BY <1>1
<1>4. OpenFindsTheFile'
  BY <1>3 DEF OpenFindsTheFile
<1>5. ASSUME ~f.listed
      PROVE  /\ call.data = [i \in 1 .. n |-> CellOf(image, chain, p + i - 1)]
             /\ ok => n = Min({l, image.files[f.file].length - p})
  <2>1. GoodFile(image, f) /\ ReadSoFar(image, f, call)
    BY <1>2, <1>5, Zenon DEF Reading, OnFile, GoodFiles
  <2>2. /\ call.len \in Nat /\ p \in Nat /\ n \in Nat /\ f.offset = p + n
        /\ call.data = [i \in 1 .. n |-> CellOf(image, chain, p + i - 1)]
    BY <2>1, Zenon DEF ReadSoFar
  <2>3. f.file \in DOMAIN image.files /\ f.offset <= f.length /\ f.length = image.files[f.file].length
    BY <2>1, Zenon DEF GoodFile
  <2>4. f.length \in Nat
    BY <1>2, <2>3, ChainCovers, SMT
  <2>5. ASSUME ok PROVE n = Min({l, f.length - p})
    <3> DEFINE k == call.len
               x == f.offset
               y == f.length
               z == y - p
    <3>1. k \in Nat /\ p \in Nat /\ n \in Nat /\ x = p + n /\ x <= y /\ y \in Nat /\ l = n + k /\ ~(k > 0 /\ x < y)
      BY <2>2, <2>3, <2>4, <2>5
    <3> HIDE DEF k, x, y, p, n, l
    <3>2. z \in Int /\ l \in Int /\ n = IF l <= z THEN l ELSE z
      BY <3>1, SMT
    <3> HIDE DEF z
    <3>3. Min({l, z}) = IF l <= z THEN l ELSE z
      BY <3>2, MinOfTwo, Zenon
    <3> QED
      BY <3>2, <3>3, Zenon DEF z, y
  <2> QED
    BY <2>2, <2>3, <2>5, Zenon
<1> HIDE DEF n, l, p, f, h
<1>6. FileReadsAreRight'
  <2>1. files'[ret'.h] = f /\ image' = image
    BY <1>3, Zenon DEF f, h
  <2>2. n = Len(ret'.data)
    BY <1>3, Zenon DEF n
  <2> QED
    BY <1>3, <1>5, <2>1, <2>2, Zenon DEF FileReadsAreRight, ReadIsRight, CellAt, FileOf
<1> QED
  BY <1>1, <1>4, <1>6

LEMMA ReadChunkKeepsInv ==
    ASSUME FileSysInv, read_chunk
    PROVE  FileSysInv'
<1> DEFINE h == call.h
           f == files[h]
           more == call.len > 0 /\ f.offset < f.length
<1>1. call.op = "read"
  BY DEF read_chunk
<1>2. Reading(image, files, call) /\ vol.partValid /\ MountedAs(image, vol) /\ image \in Images
      /\ CacheLike(cache) /\ GoodFiles(image, files) /\ Table(files, MaxFiles) /\ Table(dirs, MaxDirs)
      /\ failures \in Nat /\ ~spoilt
  BY <1>1, UnderWay
<1>3. image' = image /\ vol' = vol /\ dirs' = dirs
  BY DEF read_chunk
<1>4. ASSUME call' = NoCall PROVE CallOK(image, files', dirs', call')
  BY <1>4, Zenon DEF CallOK
<1>5. h \in 0 .. MaxFiles - 1 /\ f.valid /\ ObjLike(f)
  BY <1>2, Zenon DEF Reading, OnFile, Table
<1>6. ~f.listed => GoodFile(image, f) /\ ReadSoFar(image, f, call)
  BY <1>2, <1>5, Zenon DEF Reading, GoodFiles
<1>7. CASE ~more /\ ReadReturns(call.data, TRUE) /\ UNCHANGED <<cache, files, failures, spoilt>>
  <2>1. cache' = cache /\ files' = files /\ failures' = failures /\ spoilt' = spoilt
    BY <1>7
  <2>2. call' = NoCall /\ FileReadsAreRight' /\ OpenFindsTheFile'
    BY <1>1, <1>3, <1>7, <2>1, ReadResult, Zenon
  <2>3. /\ CacheLike(cache') /\ failures' \in Nat /\ spoilt' \in BOOLEAN /\ Table(files', MaxFiles)
        /\ Table(dirs', MaxDirs) /\ GoodFiles(image, files')
    BY <1>2, <1>3, <2>1, InvFacts, Zenon
  <2> QED
    BY <1>2, <1>3, <1>4, <2>2, <2>3, StepKeepsInv, Zenon
<1>8. ASSUME NEW bad, NEW r \in object_read(f, call.len, bad), more, cache' = r.c, Charge(r.ok),
             spoilt' = r.spoilt,
             IF r.spoilt /\ ~r.evicted THEN SpoiltReturn(FALSE) /\ UNCHANGED files
             ELSE IF ~r.ok THEN ReadReturns(call.data, FALSE) /\ UNCHANGED files
             ELSE /\ files' = [files EXCEPT ![h] = r.obj]
                  /\ IF r.spoilt THEN ReadReturns(call.data \o r.data, TRUE)
                     ELSE call' = [call EXCEPT !.len = @ - Len(r.data), !.data = @ \o r.data]
      PROVE  FileSysInv'
  <2>1. /\ CacheLike(r.c) /\ r.ok \in BOOLEAN /\ r.spoilt \in BOOLEAN /\ r.evicted \in BOOLEAN
        /\ r.evicted => r.spoilt
        /\ SameObject(r.obj, f)
    <3> DEFINE len == call.len
               g == f
    <3>1. r \in object_read(g, len, bad) /\ ObjLike(g)
      BY <1>5, <1>8
    <3> HIDE DEF len, g
    <3>2. /\ CacheLike(r.c) /\ r.ok \in BOOLEAN /\ r.spoilt \in BOOLEAN /\ r.evicted \in BOOLEAN
          /\ r.evicted => r.spoilt
          /\ SameObject(r.obj, g)
      BY <1>2, <3>1, ObjectReadShape
    <3> QED
      BY <3>2 DEF g
  <2>2. failures' \in Nat
    BY <1>8, ChargeCounts
  <2>3. ObjLike(r.obj) /\ r.obj.valid = f.valid /\ r.obj.listed = f.listed
    BY <2>1, Zenon DEF SameObject
  <2>4. files' = files \/ files' = Put(files, h, r.obj)
    BY <1>8, Zenon DEF Put
  <2>5. Table(files', MaxFiles)
    <3>1. Table(Put(files, h, r.obj), MaxFiles)
      BY <1>2, <2>3, TableUpdate, Zenon
    <3> QED
      BY <1>2, <2>4, <3>1, Zenon
  <2>6. CASE r.spoilt
    <3>1. call' = NoCall
      BY <1>8, <2>6, Zenon DEF ReadReturns, SpoiltReturn, Return
    <3>2. spoilt'
      BY <1>8, <2>6
    <3> QED
      BY <1>2, <1>3, <1>8, <2>1, <2>2, <2>5, <3>1, <3>2, StepKeepsInv, Zenon
  <2>7. CASE ~r.spoilt /\ ~r.ok
    <3>1. ReadReturns(call.data, FALSE) /\ files' = files /\ ~spoilt'
      BY <1>8, <2>7
    <3>2. call' = NoCall /\ FileReadsAreRight' /\ OpenFindsTheFile'
      BY <1>1, <1>3, <3>1, ReadResult, Zenon
    <3>3. GoodFiles(image, files')
      BY <1>2, <3>1
    <3> QED
      BY <1>2, <1>3, <1>4, <1>8, <2>1, <2>2, <2>5, <3>1, <3>2, <3>3, StepKeepsInv, Zenon
  <2>8. CASE ~r.spoilt /\ r.ok
    <3> DEFINE l == call.len - Len(r.data)
               d == call.data \o r.data
    <3>1. files' = Put(files, h, r.obj)
      BY <1>8, <2>8, Zenon DEF Put
    <3>2. call' = [call EXCEPT !.len = l, !.data = d]
      BY <1>8, <2>8, Zenon
    <3>3. call = [op |-> "read", h |-> call.h, len |-> call.len, data |-> call.data, offset |-> call.offset]
      BY <1>2, Zenon DEF Reading
    <3> HIDE DEF l, d
    <3> DEFINE c1 == [call EXCEPT !.len = l]
    <3>4. c1 = [op |-> "read", h |-> call.h, len |-> l, data |-> call.data, offset |-> call.offset]
      BY <3>3
    <3>5. call' = [c1 EXCEPT !.data = d]
      BY <3>2
    <3> HIDE DEF c1
    <3>6. call' = [op |-> "read", h |-> call.h, len |-> l, data |-> d, offset |-> call.offset]
      BY <3>4, <3>5
    <3>7. call'.op = "read" /\ call'.h = call.h /\ call'.len = l /\ call'.data = d /\ call'.offset = call.offset
      BY <3>6
    <3>8. files'[h] = r.obj /\ \A i \in 0 .. MaxFiles - 1 : i # h => files'[i] = files[i]
      BY <1>2, <1>5, <3>1, Zenon DEF Put, Table
    <3>9. ~f.listed => GoodFile(image, r.obj) /\ ReadSoFar(image, r.obj, call')
      <4> DEFINE g == f
                 c == call
                 e == call'
      <4>1. e.offset = c.offset /\ e.len = c.len - Len(r.data) /\ e.data = c.data \o r.data
        BY <3>7, Zenon DEF l, d
      <4>2. r \in object_read(g, c.len, bad) /\ ObjLike(g) /\ c.len > 0 /\ g.offset < g.length
        BY <1>5, <1>8
      <4>3. ~g.listed => GoodFile(image, g) /\ ReadSoFar(image, g, c)
        BY <1>6
      <4> HIDE DEF g, c, e
      <4>4. ~g.listed => GoodFile(image, r.obj) /\ ReadSoFar(image, r.obj, e)
        BY <1>2, <2>8, <4>1, <4>2, <4>3, ReadGoesOn
      <4> QED
        BY <4>4 DEF g, e
    <3>10. GoodFiles(image, files')
      BY <1>2, <2>3, <3>8, <3>9, Zenon DEF GoodFiles
    <3>11. Reading(image, files', call')
      BY <1>5, <2>3, <3>6, <3>7, <3>8, <3>9, Zenon DEF Reading, OnFile
    <3>12. CallOK(image, files', dirs', call')
      BY <3>7, <3>11, Zenon DEF CallOK
    <3>13. call' # NoCall
      <4>1. NoCall.op = "none"
        BY DEF NoCall
      <4> QED
        BY <3>7, <4>1
    <3>14. FileReadsAreRight' /\ OpenFindsTheFile'
      BY <3>13, OtherResult
    <3>15. ~spoilt'
      BY <1>8, <2>8
    <3> QED
      BY <1>2, <1>3, <1>8, <2>1, <2>2, <2>5, <3>10, <3>12, <3>14, <3>15, StepKeepsInv, Zenon
  <2> QED
    BY <2>6, <2>7, <2>8
<1> QED
  BY <1>7, <1>8, Zenon DEF read_chunk

(***************************************************************************)
(* The search of the root directory.                                       *)
(***************************************************************************)
LEMMA TwoTo30 == 2^30 \in Nat
BY SMT

\* The root directory has a cluster for each of its entries.
LEMMA RootFacts ==
    ASSUME NEW img \in Images
    PROVE  /\ SoundRoot(img) /\ Linked(img, img.root)
           /\ RootSize(img) \in Nat /\ RootSize(img) <= 2^30
           /\ \A p \in Nat : p < RootSize(img) =>
                 /\ p \div ClusterCells(img) \in Nat /\ p \div ClusterCells(img) < Len(img.root)
                 /\ (p \div ClusterCells(img)) * ClusterCells(img) < 2^30
<1> DEFINE L == Len(img.root)
           C == ClusterCells(img)
           R == RootSize(img)
           M == 2^30
<1>1. SoundRoot(img)
  BY ImagesAssumption
<1>2. C \in Nat \ {0}
  BY ClusterIsBlocks
<1>3. Linked(img, img.root) /\ R <= M
  BY <1>1, Zenon DEF SoundRoot
<1>4. L \in Nat
  BY <1>3 DEF Linked
<1>5. R = L * C
  BY Zenon DEF RootSize
<1>6. M \in Nat
  BY TwoTo30
<1> HIDE DEF L, C, R, M
<1>7. R \in Nat
  BY <1>2, <1>4, <1>5, SMT
<1>8. ASSUME NEW p \in Nat, p < R
      PROVE  p \div C \in Nat /\ p \div C < L /\ (p \div C) * C < M
  <2> DEFINE k == p \div C
             x == p % C
             u == k * C
  <2>1. k \in Nat /\ x \in Nat /\ p = u + x
    BY <1>2, DivMod, Zenon
  <2> HIDE DEF k, x
  <2>2. u \in Nat
    BY <1>2, <2>1, SMT
  <2>3. u <= p /\ u < R /\ u < M
    <3> HIDE DEF u
    <3> QED
      BY <1>3, <1>6, <1>7, <1>8, <2>1, <2>2, SMT
  <2>4. k < L
    <3> SUFFICES ASSUME L <= k PROVE FALSE
      BY <1>4, <2>1, SMT
    <3>1. PICK j \in Nat : k = L + j
      BY <1>4, <2>1, SMT
    <3>2. u = L * C + j * C /\ j * C \in Nat
      BY <1>2, <1>4, <3>1, SMT
    <3> DEFINE y == j * C
               z == L * C
    <3>3. y \in Nat /\ u = z + y /\ z = R
      BY <1>5, <3>2
    <3> HIDE DEF u, y, z
    <3> QED
      BY <1>7, <2>2, <2>3, <3>3, SMT
  <2> QED
    BY <2>1, <2>3, <2>4, Zenon DEF k
<1> QED
  BY <1>1, <1>3, <1>7, <1>8, Zenon DEF L, C, R, M

\* A round of the search reads the entry at the offset and moves to the next one.
LEMMA EntryIsRead ==
    ASSUME image \in Images, MountedAs(image, vol), CacheLike(cache), NEW d, ObjLike(d), NEW c,
           Finding(image, d, c), NEW bad, NEW r \in object_read(d, 1, bad), r.ok, ~r.spoilt
    PROVE  /\ r.data[1] = RootEntry(image, d.offset) /\ r.obj.offset = d.offset + 1
           /\ r.obj.length = d.length
           /\ d.offset + 1 < RootSize(image) => r.obj.currCluster = image.root[((d.offset + 1) \div CC) + 1]
<1> DEFINE o == d.offset
           root == image.root
           R == RootSize(image)
           len == 1
           M == 2^30
<1>1. /\ Linked(image, root) /\ R \in Nat /\ R <= M
      /\ \A p \in Nat : p < R => p \div CC \in Nat /\ p \div CC < Len(root) /\ (p \div CC) * CC < M
  BY RootFacts, SMT DEF CC
<1>2. o \in 0 .. R - 1 /\ d.length = M /\ d.currCluster = root[(o \div CC) + 1]
  BY Zenon DEF Finding, CC
<1>3. M \in Nat
  BY TwoTo30
<1>4. len \in Nat \ {0} /\ r \in object_read(d, len, bad)
  BY SMT
<1>a. len = 1
  OBVIOUS
<1> HIDE DEF M, R, len, root
<1>5. o \in Nat /\ o < R /\ o < M /\ o + 1 \in Nat
  <2> HIDE DEF o
  <2> QED
    BY <1>1, <1>2, <1>3, SMT
<1>6. o \div CC < Len(root) /\ d.length \in Nat /\ d.offset < d.length
  BY <1>1, <1>2, <1>3, <1>5, Zenon
<1>7. PICK m \in 1 .. len :
        /\ d.offset + m <= d.length
        /\ r.data = [i \in 1 .. m |-> CellOf(image, root, d.offset + i - 1)]
        /\ r.obj.offset = d.offset + m
        /\ OnChain(image, root, r.obj.currCluster, r.obj.offset, d.length)
  BY <1>1, <1>2, <1>4, <1>5, <1>6, ObjectReadData
<1>8. m = 1
  BY <1>7, <1>a, SMT
<1>9. r.data[1] = RootEntry(image, o)
  <2>1. 1 \in 1 .. 1 /\ o + 1 - 1 = o
    BY <1>5, SMT
  <2>2. r.data[1] = CellOf(image, root, o + 1 - 1)
    BY <1>7, <1>8, <2>1, Zenon
  <2> QED
    BY <2>1, <2>2, Zenon DEF RootEntry, root
<1>10. r.obj.length = d.length
  <2>1. SameObject(r.obj, d)
    BY <1>4, ObjectReadShape, Zenon
  <2> QED
    BY <2>1, Zenon DEF SameObject
<1>11. ASSUME o + 1 < R PROVE r.obj.currCluster = root[((o + 1) \div CC) + 1]
  <2>1. (o + 1) \div CC < Len(root) /\ ((o + 1) \div CC) * CC < d.length
    BY <1>1, <1>2, <1>5, <1>11, Zenon
  <2>2. OnChain(image, root, r.obj.currCluster, o + 1, d.length)
    BY <1>7, <1>8, Zenon
  <2> QED
    BY <2>1, <2>2, Zenon DEF OnChain, CC
<1> QED
  BY <1>7, <1>8, <1>9, <1>10, <1>11, Zenon DEF root, R

\* The name buffer up to the first NUL.
LEMMA NameInIs ==
    ASSUME NEW u, NEW m \in 1 .. 4, \A k \in 1 .. m : u[k] # NUL, m < 4 => u[m + 1] = NUL
    PROVE  NameIn(u) = [k \in 1 .. m |-> u[k]]
<1> DEFINE S == {s \in Slots : u[s] = NUL} \cup {5}
           n == Min(S)
<1>1. S \subseteq Int
  BY SMT DEF Slots
<1>2. m + 1 \in S
  <2>1. CASE m < 4
    <3>1. m + 1 \in 1 .. 4
      BY <2>1, SMT
    <3> QED
      BY <2>1, <3>1, Zenon DEF Slots
  <2>2. CASE ~(m < 4)
    <3>1. m + 1 = 5
      BY <2>2, SMT
    <3> QED
      BY <3>1
  <2> QED
    BY <2>1, <2>2
<1>3. \A y \in S : m + 1 <= y
  <2> SUFFICES ASSUME NEW y \in S PROVE m + 1 <= y
    OBVIOUS
  <2>1. CASE y = 5
    BY <2>1, SMT
  <2>2. CASE y \in 1 .. 4 /\ u[y] = NUL
    <3>1. y \notin 1 .. m
      BY <2>2, Zenon
    <3> QED
      BY <2>2, <3>1, SMT
  <2> QED
    BY <2>1, <2>2, Zenon DEF Slots
<1> DEFINE x == m + 1
<1> HIDE DEF S
<1>4. Min(S) = m + 1
  <2> HIDE DEF x
  <2>1. x \in S /\ \A y \in S : x <= y
    BY <1>2, <1>3 DEF x
  <2>2. Min(S) = x
    BY <1>1, <2>1, MinIs, Zenon
  <2> QED
    BY <2>2 DEF x
<1>5. NameIn(u) = [s \in 1 .. Min(S) - 1 |-> u[s]]
  BY Zenon DEF NameIn, S
<1>6. (m + 1) - 1 = m
  BY SMT
<1> QED
  BY <1>4, <1>5, <1>6, Zenon

\* At an entry that counts the buffer holds its name: the long one that the
\* entries before it spell, or the one generated from the entry.
LEMMA NameCollected ==
    ASSUME NEW img \in Images, NEW o \in 0 .. RootSize(img) - 1, NEW hasLFN, NEW ucs,
           hasLFN = (o > 0 /\ RootEntry(img, o - 1).kind = "lfn"), Collected(img, o, ucs),
           NEW m \in 0 .. 4, HasParts(img, o, m), RootEntry(img, o).part # NUL
    PROVE  NameIn(IF ~hasLFN THEN generate_lfn(ucs, RootEntry(img, o)) ELSE ucs) = NameOf(img, o, m)
<1> DEFINE e == RootEntry(img, o)
<1>1. o \in Nat
  BY RootFacts, SMT
<1>2. CASE m = 0
  <2>1. ~hasLFN
    <3>1. o - 0 - 1 = o - 1
      BY <1>1, SMT
    <3>2. 0 < o => RootEntry(img, o - 0 - 1).kind # "lfn"
      BY <1>2, Zenon DEF HasParts
    <3>3. o > 0 <=> 0 < o
      BY <1>1, SMT
    <3> QED
      BY <3>1, <3>2, <3>3, Zenon
  <2> DEFINE u == generate_lfn(ucs, e)
  <2>2. u[1] = e.part /\ u[2] = NUL
    <3>1. 1 \in Slots /\ 2 \in Slots /\ 2 # 1
      BY SMT DEF Slots
    <3> QED
      BY <3>1, Zenon DEF generate_lfn
  <2> HIDE DEF u, e
  <2>3. (\A k \in 1 .. 1 : u[k] # NUL) /\ 1 + 1 = 2 /\ 1 \in 1 .. 4
    <3>1. \A k \in 1 .. 1 : k = 1
      BY SMT
    <3>2. u[1] # NUL
      BY <2>2, Zenon DEF e
    <3> QED
      BY <3>1, <3>2, SMT
  <2>4. NameIn(u) = [k \in 1 .. 1 |-> u[k]]
    BY <2>2, <2>3, NameInIs, Zenon
  <2>5. [k \in 1 .. 1 |-> u[k]] = <<e.part>>
    BY <2>2
  <2>6. NameOf(img, o, m) = <<e.part>>
    BY <1>2, Zenon DEF NameOf, e
  <2> QED
    BY <2>1, <2>4, <2>5, <2>6, Zenon DEF u, e
<1>3. CASE m # 0
  <2>1. m \in 1 .. 4 /\ 1 \in 1 .. m /\ o <= o /\ o - m < o /\ o - o = 0 /\ m <= o
    <3>1. m <= o
      BY Zenon DEF HasParts
    <3> QED
      BY <1>1, <1>3, <3>1, SMT
  <2>2. \A k \in 1 .. m : RootEntry(img, o - k).kind = "lfn" /\ RootEntry(img, o - k).part # NUL
    BY Zenon DEF HasParts
  <2>3. hasLFN
    <3>1. o > 0
      BY <1>1, <2>1, SMT
    <3> QED
      BY <2>1, <2>2, <3>1, Zenon
  <2>4. \A k \in 1 .. m : 0 < k
    BY SMT
  <2>5. (\A k \in 1 .. m : ucs[k] = RootEntry(img, o - k).part) /\ (m < 4 => ucs[m + 1] = NUL)
    <3>1. (\A k \in 1 .. m : o - o < k => ucs[k] = RootEntry(img, o - k).part) /\ (m < 4 => ucs[m + 1] = NUL)
      BY <2>1, Zenon DEF Collected
    <3>2. \A k \in 1 .. m : o - o < k
      BY <2>1, <2>4, Zenon
    <3> QED
      BY <3>1, <3>2, Zenon
  <2>6. NameIn(ucs) = [k \in 1 .. m |-> ucs[k]]
    <3>1. \A k \in 1 .. m : ucs[k] # NUL
      BY <2>2, <2>5, Zenon
    <3>2. m \in 1 .. 4 /\ (m < 4 => ucs[m + 1] = NUL)
      BY <2>1, <2>5, Zenon
    <3> QED
      BY <3>1, <3>2, NameInIs
  <2>7. [k \in 1 .. m |-> ucs[k]] = [k \in 1 .. m |-> RootEntry(img, o - k).part]
    BY <2>5, Zenon
  <2> QED
    BY <1>3, <2>3, <2>6, <2>7, Zenon DEF NameOf
<1> QED
  BY <1>2, <1>3

\* An entry of a long name puts its part where the entry it belongs to looks.
LEMMA CollectedGoesOn ==
    ASSUME NEW img \in Images, NEW o \in Nat, NEW ucs, Collected(img, o, ucs),
           NEW u, RootEntry(img, o).kind = "lfn" => u = CollectLFN(ucs, RootEntry(img, o))
    PROVE  Collected(img, o + 1, u)
<1> SUFFICES ASSUME NEW p \in 0 .. RootSize(img) - 1, NEW m \in 1 .. 4,
                    o + 1 <= p, p - m < o + 1, HasParts(img, p, m)
             PROVE  /\ \A k \in 1 .. m : p - (o + 1) < k => u[k] = RootEntry(img, p - k).part
                    /\ m < 4 => u[m + 1] = NUL
  BY Zenon DEF Collected
<1> DEFINE e == RootEntry(img, o)
           j == p - o
<1>1. p \in Nat /\ m \in Nat
  BY RootFacts, SMT
<1>2. j \in 1 .. m /\ p - j = o
  BY <1>1, SMT
<1>3. e.kind = "lfn" /\ e.seq = j /\ e.last = (j = m)
  <2> HIDE DEF j
  <2> QED
    BY <1>2, Zenon DEF HasParts, e
<1>4. u = CollectLFN(ucs, e)
  BY <1>3
<1> HIDE DEF e, j
<1>5. \A s \in Slots : u[s] = IF s = j THEN e.part ELSE IF e.last /\ s = j + 1 THEN NUL ELSE ucs[s]
  BY <1>3, <1>4, Zenon DEF CollectLFN
<1>6. \A k \in 1 .. m : p - (o + 1) < k => k = j \/ (j < k /\ p - o < k)
  BY <1>1, <1>2, SMT DEF j
<1>7. 1 .. m \subseteq Slots /\ (m < 4 => m + 1 \in Slots /\ m + 1 # j)
  BY <1>2, SMT DEF Slots
<1>8. CASE j = m
  <2>1. \A k \in 1 .. m : ~(j < k)
    BY <1>8, SMT
  <2>2. e.last
    BY <1>3, <1>8
  <2>3. \A k \in 1 .. m : p - (o + 1) < k => u[k] = RootEntry(img, p - k).part
    <3> SUFFICES ASSUME NEW k \in 1 .. m, p - (o + 1) < k PROVE u[k] = RootEntry(img, p - k).part
      OBVIOUS
    <3>1. k = j
      BY <1>6, <2>1, Zenon
    <3>2. k \in Slots
      BY <1>7, Zenon
    <3> QED
      BY <1>2, <1>5, <3>1, <3>2, Zenon DEF e
  <2>4. m < 4 => u[m + 1] = NUL
    BY <1>5, <1>7, <1>8, <2>2, Zenon
  <2> QED
    BY <2>3, <2>4
<1>9. CASE j # m
  <2>1. o <= p /\ p - m < o
    BY <1>1, <1>2, <1>9, SMT DEF j
  <2>2. (\A k \in 1 .. m : p - o < k => ucs[k] = RootEntry(img, p - k).part) /\ (m < 4 => ucs[m + 1] = NUL)
    BY <2>1, Zenon DEF Collected
  <2>3. ~e.last
    BY <1>3, <1>9
  <2>4. \A k \in 1 .. m : p - (o + 1) < k => u[k] = RootEntry(img, p - k).part
    <3> SUFFICES ASSUME NEW k \in 1 .. m, p - (o + 1) < k PROVE u[k] = RootEntry(img, p - k).part
      OBVIOUS
    <3>1. k \in Slots
      BY <1>7, Zenon
    <3>2. CASE k = j
      BY <1>2, <1>5, <3>1, <3>2, Zenon DEF e
    <3>3. CASE k # j
      <4>1. p - o < k
        BY <1>6, <3>3, Zenon
      <4> QED
        BY <1>5, <2>2, <2>3, <3>1, <3>3, <4>1, Zenon
    <3> QED
      BY <3>2, <3>3
  <2>5. m < 4 => u[m + 1] = NUL
    BY <1>5, <1>7, <2>2, <2>3, Zenon
  <2> QED
    BY <2>4, <2>5
<1> QED
  BY <1>8, <1>9

LEMMA EntryName ==
    ASSUME NEW img \in Images, NEW d, NEW c, Finding(img, d, c), entryWanted(RootEntry(img, d.offset))
    PROVE  /\ Live(img, d.offset)
           /\ \A m \in 0 .. 4 : HasParts(img, d.offset, m) =>
                 NameIn(UcsAfter(c, RootEntry(img, d.offset))) = NameOf(img, d.offset, m)
<1> DEFINE o == d.offset
           e == RootEntry(img, o)
           hasLFN == c.hasLFN
           ucs == c.ucs
<1>1. /\ o \in 0 .. RootSize(img) - 1 /\ \A p \in 0 .. o - 1 : RootEntry(img, p).kind # "end"
      /\ hasLFN = (o > 0 /\ RootEntry(img, o - 1).kind = "lfn") /\ Collected(img, o, ucs)
  BY Zenon DEF Finding
<1>2. o \in Nat
  <2> HIDE DEF o
  <2> QED
    BY <1>1, RootFacts, SMT
<1>3. e.kind # "end" /\ e.kind \notin {"lfn", "dot"} /\ e.kind # "lfn" /\ include_entry(e)
  BY Zenon DEF entryWanted
<1>4. BeforeEnd(img, o)
  <2>1. \A p \in 0 .. o : p \in 0 .. o - 1 \/ p = o
    <3> HIDE DEF o
    <3> QED
      BY <1>2, SMT
  <2> QED
    BY <1>1, <1>3, <2>1, Zenon DEF BeforeEnd
<1>5. Live(img, o)
  BY <1>3, <1>4, Zenon DEF Live
<1>6. e.part # NUL
  <2>1. SoundRoot(img)
    BY RootFacts
  <2> QED
    BY <1>1, <1>5, <2>1, Zenon DEF SoundRoot
<1>7. UcsAfter(c, e) = IF ~hasLFN THEN generate_lfn(ucs, e) ELSE ucs
  BY <1>3, Zenon DEF UcsAfter
<1>8. ASSUME NEW m \in 0 .. 4, HasParts(img, o, m)
      PROVE  NameIn(IF ~hasLFN THEN generate_lfn(ucs, e) ELSE ucs) = NameOf(img, o, m)
  <2> HIDE DEF o, hasLFN, ucs
  <2> QED
    BY <1>1, <1>6, <1>8, NameCollected, Zenon DEF e
<1> QED
  BY <1>5, <1>7, <1>8, Zenon

\* The search goes on behind an entry that is neither the one looked for nor the
\* end.
LEMMA FindGoesOn ==
    ASSUME NEW img \in Images, NEW d, NEW c, Finding(img, d, c), NEW e, e = RootEntry(img, d.offset),
           e.kind # "end", ~(entryWanted(e) /\ NameIn(UcsAfter(c, e)) = c.name),
           NEW d2, d2.offset = d.offset + 1, d2.length = d.length,
           d.offset + 1 < RootSize(img) => d2.currCluster = img.root[((d.offset + 1) \div ClusterCells(img)) + 1],
           NEW c2, c2.name = c.name, c2.ucs = UcsAfter(c, e), c2.hasLFN = (e.kind = "lfn")
    PROVE  Finding(img, d2, c2)
<1> DEFINE o == d.offset
           R == RootSize(img)
<1>1. /\ o \in 0 .. R - 1 /\ \A p \in 0 .. o - 1 : RootEntry(img, p).kind # "end"
      /\ Collected(img, o, c.ucs) /\ NotFound(img, o, c.name) /\ d.length = 2^30
  BY Zenon DEF Finding
<1>2. R \in Nat /\ SoundRoot(img)
  BY RootFacts
<1>3. o \in Nat /\ o < R /\ o + 1 \in Nat /\ (o + 1) - 1 = o /\ o + 1 > 0
  <2> HIDE DEF o, R
  <2> QED
    BY <1>1, <1>2, SMT
<1>4. \A p \in 0 .. o : RootEntry(img, p).kind # "end"
  <2>1. \A p \in 0 .. o : p \in 0 .. o - 1 \/ p = o
    <3> HIDE DEF o
    <3> QED
      BY <1>3, SMT
  <2> QED
    BY <1>1, <2>1, Zenon
<1>5. o + 1 \in 0 .. R - 1 /\ o + 1 < R
  <2>1. PICK a \in 0 .. R - 1 : ~BeforeEnd(img, a)
    BY <1>2, Zenon DEF SoundRoot
  <2>2. PICK p \in 0 .. a : RootEntry(img, p).kind = "end"
    BY <2>1, Zenon DEF BeforeEnd
  <2>3. p \notin 0 .. o
    BY <1>4, <2>2, Zenon
  <2> HIDE DEF o, R
  <2> QED
    BY <1>2, <1>3, <2>1, <2>2, <2>3, SMT
<1>6. d2.offset \in 0 .. R - 1 /\ d2.length = 2^30
      /\ d2.currCluster = img.root[(d2.offset \div ClusterCells(img)) + 1]
  BY <1>1, <1>5, Zenon
<1>7. \A p \in 0 .. d2.offset - 1 : RootEntry(img, p).kind # "end"
  BY <1>3, <1>4, Zenon
<1>8. c2.hasLFN = (d2.offset > 0 /\ RootEntry(img, d2.offset - 1).kind = "lfn")
  BY <1>3, Zenon
<1>9. Collected(img, d2.offset, c2.ucs)
  <2> DEFINE u == UcsAfter(c, e)
             w == c.ucs
  <2>1. RootEntry(img, o).kind = "lfn" => u = CollectLFN(w, RootEntry(img, o))
    BY Zenon DEF UcsAfter
  <2>2. Collected(img, o, w) /\ o \in Nat
    BY <1>1, <1>3
  <2> HIDE DEF u, w, o
  <2>3. Collected(img, o + 1, u)
    BY <2>1, <2>2, CollectedGoesOn, Zenon
  <2> QED
    BY <2>3, Zenon DEF u, o
<1>10. NotFound(img, d2.offset, c2.name)
  <2> SUFFICES ASSUME NEW p \in 0 .. R - 1, NEW m \in 0 .. 4, p < o + 1, Live(img, p), HasParts(img, p, m)
               PROVE  NameOf(img, p, m) # c.name
    BY Zenon DEF NotFound
  <2>1. p < o \/ p = o
    <3> HIDE DEF o, R
    <3> QED
      BY <1>2, <1>3, SMT
  <2>2. CASE p < o
    BY <1>1, <2>2, Zenon DEF NotFound
  <2>3. CASE p = o
    <3>1. entryWanted(e)
      BY <2>3, Zenon DEF Live, entryWanted
    <3>2. NameIn(UcsAfter(c, e)) = NameOf(img, o, m)
      BY <2>3, <3>1, EntryName, Zenon
    <3> QED
      BY <2>3, <3>1, <3>2, Zenon
  <2> QED
    BY <2>1, <2>2, <2>3
<1> QED
  BY <1>6, <1>7, <1>8, <1>9, <1>10, Zenon DEF Finding

\* The search has seen every file when it comes to the end.
LEMMA NoFileAtEnd ==
    ASSUME NEW img \in Images, NEW d, NEW c, Finding(img, d, c), RootEntry(img, d.offset).kind = "end"
    PROVE  c.name \notin DOMAIN img.files
<1> DEFINE o == d.offset
           R == RootSize(img)
<1> SUFFICES ASSUME c.name \in DOMAIN img.files PROVE FALSE
  OBVIOUS
<1>1. R \in Nat /\ SoundRoot(img)
  BY RootFacts
<1>2. o \in 0 .. R - 1 /\ NotFound(img, o, c.name)
  BY Zenon DEF Finding
<1>3. PICK p \in 0 .. R - 1, m \in 0 .. 4 : Live(img, p) /\ HasParts(img, p, m) /\ NameOf(img, p, m) = c.name
  BY <1>1, Zenon DEF SoundRoot
<1>4. o \notin 0 .. p
  BY <1>3, Zenon DEF Live, BeforeEnd
<1>5. p < o
  <2> HIDE DEF o, R
  <2> QED
    BY <1>1, <1>2, <1>4, SMT
<1> QED
  BY <1>2, <1>3, <1>5, Zenon DEF NotFound

\* The entry that the search takes is that of the file.
LEMMA FileOfEntry ==
    ASSUME NEW img \in Images, NEW d, NEW c, Finding(img, d, c), NEW e, e = RootEntry(img, d.offset),
           entryWanted(e), NameIn(UcsAfter(c, e)) = c.name
    PROVE  /\ c.name \in DOMAIN img.files /\ img.files[c.name].chain[1] = e.cluster
           /\ img.files[c.name].length = e.length
<1> DEFINE o == d.offset
<1>1. SoundRoot(img)
  BY RootFacts
<1>2. o \in 0 .. RootSize(img) - 1
  BY Zenon DEF Finding
<1>3. Live(img, o)
  BY EntryName, Zenon
<1>4. PICK m \in 0 .. 4 : /\ HasParts(img, o, m)
                          /\ NameOf(img, o, m) \in DOMAIN img.files
                          /\ img.files[NameOf(img, o, m)].chain[1] = e.cluster
                          /\ img.files[NameOf(img, o, m)].length = e.length
  BY <1>1, <1>2, <1>3, Zenon DEF SoundRoot
<1>5. NameIn(UcsAfter(c, e)) = NameOf(img, o, m)
  BY <1>4, EntryName, Zenon
<1> QED
  BY <1>4, <1>5, Zenon

\* A file that has just been opened is at its start.
LEMMA OpenedFile ==
    ASSUME NEW img \in Images, NEW f \in DOMAIN img.files, NEW cluster, cluster = img.files[f].chain[1],
           NEW length, length = img.files[f].length, NEW o, o = Opened(cluster, length, f)
    PROVE  ObjLike(o) /\ GoodFile(img, o)
<1> DEFINE C == ClusterCells(img)
           chain == img.files[f].chain
<1>1. /\ ObjLike(o) /\ o.offset = 0 /\ o.length = length /\ o.currCluster = cluster
      /\ o.firstCluster = cluster /\ o.file = f
  <2>1. o = [valid |-> TRUE, offset |-> 0, length |-> length, currCluster |-> cluster,
             firstCluster |-> cluster, file |-> f, listed |-> FALSE]
    BY Zenon DEF Opened
  <2>2. /\ o.valid = TRUE /\ o.offset = 0 /\ o.length = length /\ o.currCluster = cluster
        /\ o.firstCluster = cluster /\ o.file = f /\ o.listed = FALSE
    BY <2>1
  <2> QED
    BY <2>1, <2>2, Zenon DEF ObjLike
<1>2. length \in Nat
  BY ChainCovers, SMT
<1>3. 0 \in Nat /\ 0 <= length
  BY <1>2, SMT
<1>4. (0 \div C) + 1 = 1
  <2>1. C \in Nat \ {0}
    BY ClusterIsBlocks
  <2> HIDE DEF C
  <2>2. 0 = 0 * C + 0 /\ 0 < C /\ 0 \in Nat
    BY <2>1, SMT
  <2>3. 0 \div C = 0
    BY <2>1, <2>2, DivModUnique
  <2> QED
    BY <2>3
<1>5. OnChain(img, chain, cluster, 0, length)
  BY <1>4, Zenon DEF OnChain
<1> QED
  BY <1>1, <1>2, <1>3, <1>5, Zenon DEF GoodFile

LEMMA FindEndsKeepsInv ==
    ASSUME FileSysInv, call.op = "find", image' = image, vol' = vol, CacheLike(cache'), failures' \in Nat,
           spoilt' = spoilt, dirs' = Closed(dirs, call.h), NEW found \in BOOLEAN, NEW e, FindEnds(found, e),
           found => /\ call.name \in DOMAIN image.files /\ image.files[call.name].chain[1] = e.cluster
                    /\ image.files[call.name].length = e.length,
           ~found => failures' # 0 \/ call.name \notin DOMAIN image.files
    PROVE  FileSysInv'
<1> DEFINE fh == FreeHandle(files)
           full == fh = kInvalidHandle
           open == found /\ fh # kInvalidHandle
           name == call.name
           o == Opened(e.cluster, e.length, name)
           x == IF found THEN e.cluster ELSE 0
<1>1. vol.partValid /\ image \in Images /\ GoodFiles(image, files) /\ Table(files, MaxFiles)
      /\ Table(dirs, MaxDirs) /\ ~spoilt
  BY UnderWay
<1>2. /\ files' = IF open THEN [files EXCEPT ![fh] = o] ELSE files
      /\ call' = NoCall
      /\ ret' = [op |-> "file_open", name |-> name, ok |-> open, full |-> full, cluster |-> x]
  BY Zenon DEF FindEnds, Return
<1>3. Table(dirs', MaxDirs)
  <2> DEFINE h == call.h
  <2> HIDE DEF h
  <2>1. Table(Closed(dirs, h), MaxDirs)
    BY <1>1, CloseHandle, Zenon
  <2> QED
    BY <2>1, Zenon DEF h
<1>4. Table(files', MaxFiles) /\ GoodFiles(image, files')
  <2>1. CASE open
    <3>1. files' = Put(files, fh, o)
      BY <1>2, <2>1, Zenon DEF Put
    <3>2. ObjLike(o) /\ GoodFile(image, o)
      <4> DEFINE a == e.cluster
                 b == e.length
      <4>1. o = Opened(a, b, name) /\ name \in DOMAIN image.files /\ a = image.files[name].chain[1]
            /\ b = image.files[name].length
        BY <2>1
      <4> HIDE DEF a, b, name, o
      <4> QED
        BY <1>1, <4>1, OpenedFile
    <3> HIDE DEF o, fh
    <3>3. Table(Put(files, fh, o), MaxFiles)
      BY <1>1, <3>2, TableUpdate, Zenon
    <3>4. \A i \in 0 .. MaxFiles - 1 : Put(files, fh, o)[i] = IF i = fh THEN o ELSE files[i]
      BY <1>1, Zenon DEF Put, Table
    <3>5. GoodFiles(image, Put(files, fh, o))
      BY <1>1, <3>2, <3>4, Zenon DEF GoodFiles
    <3> QED
      BY <3>1, <3>3, <3>5, Zenon
  <2>2. CASE ~open
    BY <1>1, <1>2, <2>2, Zenon
  <2> QED
    BY <2>1, <2>2
<1>5. /\ ret'.op = "file_open" /\ ret'.name = name /\ ret'.ok = open /\ ret'.full = full /\ ret'.cluster = x
  <2> HIDE DEF name, open, full, x
  <2> QED
    BY <1>2
<1>6. FileReadsAreRight'
  <2>1. ret'.op # "file_read"
    BY <1>5
  <2> QED
    BY <2>1, Zenon DEF FileReadsAreRight
<1>7. open => ret'.name \in DOMAIN image.files /\ ret'.cluster = image.files[ret'.name].chain[1]
  BY <1>5, Zenon
<1>8. (ret'.name \in DOMAIN image.files /\ failures' = 0 /\ ~full) => open
  BY <1>5, Zenon
<1> HIDE DEF open, full, x, name
<1>9. OpenFindsTheFile'
  BY <1>5, <1>7, <1>8, Zenon DEF OpenFindsTheFile, FileOf
<1>10. CallOK(image, files', dirs', call')
  BY <1>2, Zenon DEF CallOK
<1>11. spoilt' \in BOOLEAN /\ ~spoilt'
  BY <1>1, InvFacts, Zenon
<1> QED
  BY <1>1, <1>2, <1>3, <1>4, <1>6, <1>9, <1>10, <1>11, StepKeepsInv, Zenon

LEMMA ScanEntryKeepsInv ==
    ASSUME FileSysInv, scan_entry
    PROVE  FileSysInv'
<1> DEFINE h == call.h
           d == dirs[h]
           find == call.op = "find"
<1>1. call.op \in {"find", "next"}
  BY DEF scan_entry
<1>2. Searching(dirs, call) /\ vol.partValid /\ MountedAs(image, vol) /\ image \in Images
      /\ CacheLike(cache) /\ GoodFiles(image, files) /\ Table(files, MaxFiles) /\ Table(dirs, MaxDirs)
      /\ failures \in Nat /\ ~spoilt /\ spoilt \in BOOLEAN
      /\ (find => Finding(image, d, call))
  <2>1. call.op # "none"
    BY <1>1
  <2>2. /\ ~spoilt /\ vol.partValid /\ MountedAs(image, vol) /\ image \in Images /\ CacheLike(cache)
        /\ GoodFiles(image, files) /\ Table(files, MaxFiles) /\ Table(dirs, MaxDirs)
        /\ failures \in Nat
        /\ call.op = "find" => Searching(dirs, call) /\ Finding(image, dirs[call.h], call)
        /\ call.op = "next" => Searching(dirs, call)
    BY <2>1, UnderWay
  <2> QED
    BY <1>1, <2>2, InvFacts, Zenon
<1>3. image' = image /\ vol' = vol
  BY DEF scan_entry
<1>4. h \in 0 .. MaxDirs - 1 /\ d.valid /\ ObjLike(d)
  BY <1>2, Zenon DEF Searching, Table
<1>5. PICK bad \in Bad : \E r \in object_read(dirs[call.h], 1, bad) : cache' = r.c /\ Charge(r.ok) /\ EntryRead(r)
  BY Zenon DEF scan_entry
<1>r. PICK r \in object_read(d, 1, bad) : cache' = r.c /\ Charge(r.ok) /\ EntryRead(r)
  BY <1>5, Zenon
<1> DEFINE e == r.data[1]
           u == UcsAfter(call, e)
           lfn == (IF e.kind = "lfn" THEN TRUE ELSE LFN_after(call.hasLFN)) /\ ~entryWanted(e)
           moved == Put(dirs, h, r.obj)
<1>6. /\ CacheLike(r.c) /\ r.ok \in BOOLEAN /\ r.spoilt \in BOOLEAN
      /\ SameObject(r.obj, d)
  <2> DEFINE len == 1
             g == d
  <2>1. r \in object_read(g, len, bad) /\ ObjLike(g)
    BY <1>4
  <2> HIDE DEF len, g
  <2>2. CacheLike(r.c) /\ r.ok \in BOOLEAN /\ r.spoilt \in BOOLEAN /\ SameObject(r.obj, g)
    BY <1>2, <2>1, ObjectReadShape
  <2> QED
    BY <2>2 DEF g
<1>7. cache' = r.c /\ CacheLike(cache') /\ failures' \in Nat /\ (~r.ok => failures' # 0)
  BY <1>6, <1>r, ChargeCounts, Zenon
<1>8. ObjLike(r.obj) /\ r.obj.valid = d.valid
  BY <1>6, Zenon DEF SameObject
<1>9. Table(moved, MaxDirs) /\ moved[h] = r.obj
  <2>1. Table(Put(dirs, h, r.obj), MaxDirs)
    BY <1>2, <1>8, TableUpdate, Zenon
  <2>2. moved[h] = r.obj
    BY <1>2, <1>4, Zenon DEF Put, Table
  <2> QED
    BY <2>1, <2>2
<1>10. ASSUME NEW x, Return(x), x.op \notin {"file_read", "file_open"}, files' = files,
              Table(dirs', MaxDirs), spoilt' = spoilt
       PROVE  FileSysInv'
  <2>1. call' = NoCall /\ ret'.op \notin {"file_read", "file_open"}
    BY <1>10, Zenon DEF Return
  <2>2. CallOK(image, files', dirs', call')
    BY <2>1, Zenon DEF CallOK
  <2>3. FileReadsAreRight' /\ OpenFindsTheFile'
    BY <2>1, OtherResult, Zenon
  <2>4. Table(files', MaxFiles) /\ GoodFiles(image, files') /\ spoilt' \in BOOLEAN /\ ~spoilt'
    BY <1>2, <1>10, Zenon
  <2> QED
    BY <1>2, <1>3, <1>7, <1>10, <2>2, <2>3, <2>4, StepKeepsInv, Zenon
<1>11. CASE r.spoilt
  <2>1. spoilt' = TRUE /\ call' = NoCall /\ files' = files /\ dirs' = dirs
    BY <1>r, <1>11, Zenon DEF EntryRead, SpoiltReturn, Return, Put, Closed
  <2>2. Table(files', MaxFiles) /\ Table(dirs', MaxDirs) /\ spoilt' \in BOOLEAN
    BY <1>2, <2>1, Zenon
  <2> QED
    BY <1>2, <1>3, <1>7, <2>1, <2>2, StepKeepsInv, Zenon
<1>12. CASE ~r.spoilt /\ ~r.ok
  <2>1. spoilt' = spoilt
    BY <1>r, <1>12, Zenon DEF EntryRead, Put, Closed
  <2>2. CASE find
    <3>1. dirs' = Closed(dirs, call.h) /\ FindEnds(FALSE, NoCall)
      BY <1>r, <1>12, <2>2, Zenon DEF EntryRead, Put, Closed
    <3> QED
      BY <1>3, <1>7, <1>12, <2>1, <2>2, <3>1, FindEndsKeepsInv, Zenon
  <2>3. CASE ~find
    <3> DEFINE x == [op |-> "failed", ok |-> FALSE]
    <3>1. dirs' = dirs /\ Return(x) /\ files' = files
      BY <1>r, <1>12, <2>3, Zenon DEF EntryRead, Put, Closed
    <3>2. x.op \notin {"file_read", "file_open"}
      OBVIOUS
    <3>3. Table(dirs', MaxDirs)
      BY <1>2, <3>1
    <3> HIDE DEF x
    <3> QED
      BY <1>10, <2>1, <3>1, <3>2, <3>3, Zenon
  <2> QED
    BY <2>2, <2>3
<1>13. ASSUME find, ~r.spoilt, r.ok
       PROVE  /\ e = RootEntry(image, d.offset) /\ r.obj.offset = d.offset + 1 /\ r.obj.length = d.length
              /\ d.offset + 1 < RootSize(image) => r.obj.currCluster = image.root[((d.offset + 1) \div CC) + 1]
  <2> DEFINE g == d
             c == call
  <2>1. ObjLike(g) /\ Finding(image, g, c) /\ r \in object_read(g, 1, bad)
    BY <1>2, <1>4, <1>13
  <2> HIDE DEF g, c
  <2>2. /\ r.data[1] = RootEntry(image, g.offset) /\ r.obj.offset = g.offset + 1
        /\ r.obj.length = g.length
        /\ g.offset + 1 < RootSize(image) => r.obj.currCluster = image.root[((g.offset + 1) \div CC) + 1]
    BY <1>2, <1>13, <2>1, EntryIsRead
  <2> QED
    BY <2>2 DEF g
<1>14. CASE ~r.spoilt /\ r.ok /\ entryWanted(e) /\ (find => NameIn(u) = call.name)
  <2>1. spoilt' = spoilt
    BY <1>r, <1>14, Zenon DEF EntryRead, Put, Closed
  <2>2. CASE find
    <3>1. dirs' = Closed(dirs, call.h) /\ FindEnds(TRUE, e)
      BY <1>r, <1>14, <2>2, Zenon DEF EntryRead, Put, Closed
    <3>2. /\ call.name \in DOMAIN image.files /\ image.files[call.name].chain[1] = e.cluster
          /\ image.files[call.name].length = e.length
      <4> DEFINE g == d
                 c == call
      <4>1. Finding(image, g, c) /\ e = RootEntry(image, g.offset) /\ entryWanted(e)
            /\ NameIn(UcsAfter(c, e)) = c.name
        BY <1>2, <1>13, <1>14, <2>2, Zenon
      <4> HIDE DEF g, c, e
      <4>2. /\ c.name \in DOMAIN image.files /\ image.files[c.name].chain[1] = e.cluster
            /\ image.files[c.name].length = e.length
        BY <1>2, <4>1, FileOfEntry
      <4> QED
        BY <4>2 DEF c
    <3> HIDE DEF e
    <3> QED
      BY <1>3, <1>7, <2>1, <2>2, <3>1, <3>2, FindEndsKeepsInv, Zenon
  <2>3. CASE ~find
    <3> DEFINE w == NameIn(u)
               x == [op |-> "dir_next", ok |-> TRUE, name |-> w, entry |-> e]
    <3>1. dirs' = moved /\ Return(x) /\ files' = files
      BY <1>r, <1>14, <2>3, Zenon DEF EntryRead, Put, Closed
    <3> HIDE DEF w, e
    <3>2. x.op \notin {"file_read", "file_open"}
      OBVIOUS
    <3>3. Table(dirs', MaxDirs)
      BY <1>9, <3>1
    <3> HIDE DEF x
    <3> QED
      BY <1>10, <2>1, <3>1, <3>2, <3>3, Zenon
  <2> QED
    BY <2>2, <2>3
<1>15. CASE /\ ~r.spoilt /\ r.ok /\ ~(entryWanted(e) /\ (find => NameIn(u) = call.name))
            /\ e.kind = "end"
  <2>1. spoilt' = spoilt
    BY <1>r, <1>15, Zenon DEF EntryRead, Put, Closed
  <2>2. CASE find
    <3>1. dirs' = Closed(dirs, call.h) /\ FindEnds(FALSE, NoCall)
      BY <1>r, <1>15, <2>2, Zenon DEF EntryRead, Put, Closed
    <3>2. call.name \notin DOMAIN image.files
      BY <1>2, <1>13, <1>15, <2>2, NoFileAtEnd, Zenon
    <3> QED
      BY <1>3, <1>7, <2>1, <2>2, <3>1, <3>2, FindEndsKeepsInv, Zenon
  <2>3. CASE ~find
    <3> DEFINE x == [op |-> "dir_next", ok |-> FALSE]
    <3>1. dirs' = [moved EXCEPT ![h].listed = TRUE] /\ Return(x) /\ files' = files
      BY <1>r, <1>15, <2>3, Zenon DEF EntryRead, Put, Closed
    <3>2. x.op \notin {"file_read", "file_open"}
      OBVIOUS
    <3>3. Table(dirs', MaxDirs)
      <4> DEFINE o == Moved(r.obj, r.obj.currCluster, r.obj.offset, TRUE)
      <4>1. dirs' = Put(moved, h, o)
        <5> HIDE DEF moved
        <5>1. [moved EXCEPT ![h].listed = TRUE] = [moved EXCEPT ![h] = [moved[h] EXCEPT !.listed = TRUE]]
          BY Zenon
        <5>2. [r.obj EXCEPT !.listed = TRUE] = o
          <6> DEFINE y == r.obj
                     yes == TRUE
          <6>1. y = Moved(y, y.currCluster, y.offset, y.listed)
            BY <1>8, Zenon DEF ObjLike, Moved
          <6> HIDE DEF y, yes
          <6>2. [y EXCEPT !.listed = yes] = Moved(y, y.currCluster, y.offset, yes)
            BY <6>1 DEF Moved
          <6> QED
            BY <6>2, Zenon DEF y, yes
        <5> QED
          BY <1>9, <3>1, <5>1, <5>2, Zenon DEF Put
      <4>2. ObjLike(o)
        <5> DEFINE y == r.obj
                   a == y.currCluster
                   b == y.offset
                   yes == TRUE
        <5>1. ObjLike(y) /\ o = Moved(y, a, b, yes) /\ yes \in BOOLEAN
          BY <1>8
        <5> HIDE DEF o, y, a, b, yes
        <5> QED
          BY <5>1, MovedObject
      <4> HIDE DEF o, moved
      <4>3. Table(Put(moved, h, o), MaxDirs)
        BY <1>9, <4>2, TableUpdate, Zenon
      <4> QED
        BY <4>1, <4>3, Zenon
    <3> HIDE DEF x
    <3> QED
      BY <1>10, <2>1, <3>1, <3>2, <3>3, Zenon
  <2> QED
    BY <2>2, <2>3
<1>16. CASE /\ ~r.spoilt /\ r.ok /\ ~(entryWanted(e) /\ (find => NameIn(u) = call.name))
            /\ e.kind # "end"
  <2>1. spoilt' = spoilt /\ dirs' = moved /\ files' = files /\ call' = [call EXCEPT !.ucs = u, !.hasLFN = lfn]
    BY <1>r, <1>16, Zenon DEF EntryRead, Put, Closed
  <2>2. call = [op |-> call.op, h |-> call.h, name |-> call.name, hasLFN |-> call.hasLFN, ucs |-> call.ucs]
    BY <1>2, Zenon DEF Searching
  <2>3. u = [s \in Slots |-> u[s]]
    <3>1. call.ucs = [s \in Slots |-> call.ucs[s]]
      BY <1>2, Zenon DEF Searching
    <3> QED
      BY <3>1, Zenon DEF UcsAfter, CollectLFN, generate_lfn
  <2>4. lfn \in BOOLEAN /\ lfn = (e.kind = "lfn")
    BY Zenon DEF LFN_after, entryWanted
  <2> HIDE DEF lfn, u, moved
  <2> DEFINE c1 == [call EXCEPT !.ucs = u]
  <2>5. c1 = [op |-> call.op, h |-> call.h, name |-> call.name, hasLFN |-> call.hasLFN, ucs |-> u]
    BY <2>2
  <2>6. call' = [c1 EXCEPT !.hasLFN = lfn]
    BY <2>1
  <2> HIDE DEF c1
  <2>7. call' = [op |-> call.op, h |-> call.h, name |-> call.name, hasLFN |-> lfn, ucs |-> u]
    BY <2>5, <2>6
  <2>8. call'.op = call.op /\ call'.h = call.h /\ call'.name = call.name /\ call'.hasLFN = lfn /\ call'.ucs = u
    BY <2>7
  <2>9. dirs'[call'.h] = r.obj
    BY <1>9, <2>1, <2>8, Zenon
  <2>10. Searching(dirs', call')
    BY <1>4, <1>8, <2>3, <2>4, <2>7, <2>8, <2>9, Zenon DEF Searching
  <2>11. find => Finding(image, r.obj, call')
    <3> SUFFICES ASSUME find PROVE Finding(image, r.obj, call')
      OBVIOUS
    <3> DEFINE g == d
               c == call
               c2 == call'
               d2 == r.obj
               e2 == e
    <3>1. /\ Finding(image, g, c) /\ e2 = RootEntry(image, g.offset) /\ d2.offset = g.offset + 1
          /\ d2.length = g.length
          /\ g.offset + 1 < RootSize(image) => d2.currCluster = image.root[((g.offset + 1) \div ClusterCells(image)) + 1]
      BY <1>2, <1>13, <1>16, Zenon DEF CC
    <3>2. /\ c2.name = c.name /\ c2.ucs = UcsAfter(c, e2) /\ c2.hasLFN = (e2.kind = "lfn")
      BY <2>4, <2>8, Zenon DEF u
    <3>3. e2.kind # "end" /\ ~(entryWanted(e2) /\ NameIn(UcsAfter(c, e2)) = c.name)
      BY <1>16, Zenon DEF u
    <3> HIDE DEF g, c, c2, d2, e2
    <3>4. Finding(image, d2, c2)
      BY <1>2, <3>1, <3>2, <3>3, FindGoesOn
    <3> QED
      BY <3>4 DEF d2, c2
  <2>12. CallOK(image, files', dirs', call')
    <3>1. call.op = "find" \/ call.op = "next"
      BY <1>1
    <3> QED
      BY <2>8, <2>9, <2>10, <2>11, <3>1, Zenon DEF CallOK
  <2>13. call' # NoCall
    <3>1. NoCall.op = "none"
      BY DEF NoCall
    <3> QED
      BY <1>1, <2>8, <3>1
  <2>14. FileReadsAreRight' /\ OpenFindsTheFile'
    BY <2>13, OtherResult
  <2>15. Table(files', MaxFiles) /\ GoodFiles(image, files') /\ spoilt' \in BOOLEAN /\ ~spoilt'
         /\ Table(dirs', MaxDirs)
    BY <1>2, <1>9, <2>1, Zenon
  <2> QED
    BY <1>2, <1>3, <1>7, <2>12, <2>14, <2>15, StepKeepsInv, Zenon
<1> QED
  BY <1>6, <1>11, <1>12, <1>14, <1>15, <1>16, Zenon

(***************************************************************************)
(* The theorems.                                                           *)
(***************************************************************************)
LEMMA NextKeepsInv ==
    ASSUME FileSysInv, [Next]_vars
    PROVE  FileSysInv'
<1>1. CASE UNCHANGED vars
  <2>1. /\ image' = image /\ vol' = vol /\ cache' = cache /\ files' = files /\ dirs' = dirs /\ call' = call
        /\ ret' = ret /\ calls' = calls /\ failures' = failures /\ spoilt' = spoilt
    BY <1>1 DEF vars
  <2> QED
    BY <2>1, Zenon DEF FileSysInv, Shape, FileReadsAreRight, ReadIsRight, LastRoundEvicted,
                         OpenFindsTheFile, CellAt, FileOf
<1>2. CASE Calls
  <2>1. ~spoilt
    BY <1>2 DEF Calls
  <2>2. CASE init
    BY <2>1, <2>2, MountKeepsInv
  <2>3. CASE fin
    BY <2>1, <2>3, UnmountKeepsInv
  <2>4. CASE rootdir_open
    BY <2>1, <2>4, RootdirOpenKeepsInv
  <2>5. ASSUME NEW dh \in DOMAIN dirs, dir_close(dh) PROVE FileSysInv'
    BY <2>1, <2>5, DirCloseKeepsInv
  <2>6. ASSUME NEW dh \in DOMAIN dirs, dir_next(dh) PROVE FileSysInv'
    BY <2>1, <2>6, DirNextKeepsInv
  <2>7. ASSUME NEW name \in Names, file_open(name) PROVE FileSysInv'
    BY <2>1, <2>7, FileOpenKeepsInv
  <2>8. ASSUME NEW fh \in DOMAIN files, file_close(fh) PROVE FileSysInv'
    BY <2>1, <2>8, FileCloseKeepsInv
  <2>9. ASSUME NEW fh \in DOMAIN files, NEW n \in Lengths, file_read(fh, n) PROVE FileSysInv'
    BY <2>1, <2>9, FileReadKeepsInv
  <2>10. ASSUME NEW fh \in DOMAIN files, NEW n \in Lengths, file_clusters(fh, n) PROVE FileSysInv'
    BY <2>1, <2>10, FileClustersKeepsInv
  <2>11. ASSUME NEW fh \in DOMAIN files, NEW o \in 0 .. files[fh].length + 1, file_seek(fh, o) PROVE FileSysInv'
    <3>1. o \in Nat
      BY <2>11, SMT
    <3> QED
      BY <2>1, <2>11, <3>1, FileSeekKeepsInv
  <2> QED
    BY <1>2, <2>2, <2>3, <2>4, <2>5, <2>6, <2>7, <2>8, <2>9, <2>10, <2>11, Zenon DEF Calls
<1>3. CASE Step
  BY <1>3, ScanEntryKeepsInv, ReadChunkKeepsInv, SeekClusterKeepsInv, ListClusterKeepsInv DEF Step
<1>4. CASE Finished
  BY <1>1, <1>4 DEF Finished
<1> QED
  BY <1>1, <1>2, <1>3, <1>4 DEF Next

\* The inductive invariant: the handles, the cache and the volume have their
\* shape, every open file is on its chain, and a call that is under way has read,
\* sought or searched what it should have up to where it is.
THEOREM FileSysInvariant == Spec => []FileSysInv
<1>1. Init => FileSysInv
  BY InitInv
<1>2. FileSysInv /\ [Next]_vars => FileSysInv'
  BY NextKeepsInv
<1> QED
  BY <1>1, <1>2, PTL DEF Spec

\* A call that has come upon another block's data has read nothing.
LEMMA SpoiltResult ==
    ASSUME NEW x, SpoiltReturn(x)
    PROVE  FileReadsAreRight'
<1>1. ret' = [op |-> "spoilt", ok |-> FALSE, evicted |-> x]
  BY DEF SpoiltReturn, Return
<1>2. ret'.op \notin {"file_read", "file_open"}
  BY <1>1
<1> QED
  BY <1>2, OtherResult

\* The result of a read whose last round has copied from a slot that was taken.
LEMMA EvictedRead ==
    ASSUME FileSysInv, call.op = "read", image' = image, spoilt',
           call.len > 0, files[call.h].offset < files[call.h].length,
           NEW bad, NEW r \in object_read(files[call.h], call.len, bad), r.evicted,
           files' = [files EXCEPT ![call.h] = r.obj], ReadReturns(call.data \o r.data, TRUE)
    PROVE  FileReadsAreRight'
<1> DEFINE h == call.h
           f == files[h]
           d == call.data \o r.data
           p == call.offset
           n == Len(call.data)
           l == n + call.len
           chain == image.files[f.file].chain
<1>1. Reading(image, files, call) /\ MountedAs(image, vol) /\ image \in Images /\ CacheLike(cache)
      /\ GoodFiles(image, files) /\ Table(files, MaxFiles)
  BY UnderWay
<1>2. h \in 0 .. MaxFiles - 1 /\ f.valid /\ ObjLike(f)
  BY <1>1, Zenon DEF Reading, OnFile, Table
<1>3. ret' = [op |-> "file_read", h |-> h, offset |-> p, data |-> d, ok |-> TRUE, len |-> l]
  BY Zenon DEF ReadReturns, Return
<1>4. ret'.h = h /\ ret'.offset = p /\ ret'.data = d
  <2> HIDE DEF h, p, d, l
  <2> QED
    BY <1>3
<1>5. SameObject(r.obj, f)
  <2> DEFINE len == call.len
             g == f
  <2>1. r \in object_read(g, len, bad) /\ ObjLike(g)
    BY <1>2
  <2> HIDE DEF len, g
  <2>2. SameObject(r.obj, g)
    BY <1>1, <2>1, ObjectReadShape
  <2> QED
    BY <2>2 DEF g
<1>6. files'[ret'.h].file = f.file /\ files'[ret'.h].listed = f.listed
  <2>1. files'[h] = r.obj
    BY <1>1, <1>2, Zenon DEF Table
  <2> QED
    BY <1>4, <1>5, <2>1, Zenon DEF SameObject
<1> SUFFICES ASSUME ~f.listed PROVE LastRoundEvicted'
  BY <1>6, Zenon DEF FileReadsAreRight
<1>7. GoodFile(image, f) /\ ReadSoFar(image, f, call)
  BY <1>1, <1>2, Zenon DEF Reading, GoodFiles
<1>8. /\ call.len \in Nat /\ p \in Nat /\ n \in Nat /\ f.offset = p + n
      /\ call.data = Cells(image, chain, p, n)
  BY <1>7, Zenon DEF ReadSoFar, Cells
<1>9. f.length = image.files[f.file].length /\ f.length \in Nat
  <2>1. f.file \in DOMAIN image.files /\ f.length = image.files[f.file].length
    BY <1>7, Zenon DEF GoodFile
  <2> QED
    BY <1>1, <2>1, ChainCovers, SMT
<1>10. PICK m \in Nat : /\ m <= kBlockLen
                        /\ r.data = [i \in 1 .. m |-> r.data[i]]
                        /\ (f.offset + m) % CC = 0 /\ f.offset + m < f.length
  <2> DEFINE len == call.len
             g == f
  <2>1. r \in object_read(g, len, bad) /\ ObjLike(g) /\ g.offset < g.length
    BY <1>2
  <2>2. g.offset \in Nat /\ g.length \in Nat
    BY <1>7, <1>9, Zenon DEF GoodFile
  <2>3. len \in Nat \ {0}
    <3>1. len > 0 /\ len \in Nat
      BY <1>8
    <3> HIDE DEF len
    <3> QED
      BY <3>1, SMT
  <2> HIDE DEF len, g
  <2>4. \E m \in Nat : /\ m <= kBlockLen /\ r.ok
                       /\ r.data = [i \in 1 .. m |-> r.data[i]]
                       /\ (g.offset + m) % CC = 0 /\ g.offset + m < g.length
    BY <1>1, <2>1, <2>2, <2>3, ObjectReadEvicted
  <2> QED
    BY <2>4, Zenon DEF g
<1> DEFINE cell(i) == CellOf(image, chain, i)
<1>11. Len(d) = n + m /\ \A i \in 1 .. n : d[i] = cell(p + i - 1)
  <2> DEFINE c == call.data
             e == r.data
             S == {cell(i) : i \in Int} \cup {e[i] : i \in 1 .. m}
  <2>1. c \in Seq({cell(i) : i \in Int}) /\ Len(c) = n /\ \A i \in 1 .. n : c[i] = cell(p + i - 1)
    <3>1. AreCells(Cells(image, chain, p, n), image, chain, p, n)
      <4> HIDE DEF chain, n, p
      <4> QED
        BY <1>8, CellsAre, Zenon
    <3> QED
      BY <1>8, <3>1, Zenon DEF AreCells
  <2>2. e = [i \in 1 .. m |-> e[i]]
    BY <1>10
  <2> HIDE DEF cell, c, e
  <2>3. c \in Seq(S)
    <3> DEFINE T == {cell(i) : i \in Int}
    <3>1. c \in Seq(T) /\ T \subseteq S
      BY <2>1
    <3> HIDE DEF T, S
    <3> QED
      BY <3>1
  <2>4. e \in [1 .. m -> S]
    BY <2>2, Zenon
  <2> HIDE DEF S
  <2>5. e \in Seq(S) /\ Len(e) = m
    BY <1>10, <2>4
  <2>6. Len(c \o e) = n + m /\ \A i \in 1 .. n + m : (c \o e)[i] = IF i <= n THEN c[i] ELSE e[i - n]
    <3>1. Len(c) = n
      BY <2>1
    <3> HIDE DEF n
    <3> QED
      BY <2>3, <2>5, <3>1, ConcatProperties
  <2>7. ASSUME NEW i \in 1 .. n PROVE (c \o e)[i] = cell(p + i - 1)
    <3>1. i \in 1 .. n + m /\ i <= n
      <4> HIDE DEF n
      <4> QED
        BY <1>8, <1>10, SMT
    <3> QED
      BY <2>1, <2>6, <3>1, Zenon
  <2> QED
    BY <2>6, <2>7, Zenon DEF c, e
<1> DEFINE k == n + m
<1>12. \A i \in 1 .. k - kBlockLen : i \in 1 .. n
  <2> DEFINE K == kBlockLen
  <2>1. m <= K /\ K \in Nat /\ m \in Nat /\ n \in Nat
    BY <1>8, <1>10, BlockCells
  <2> HIDE DEF K, n
  <2>2. \A i \in 1 .. k - K : i \in 1 .. n
    BY <2>1, SMT
  <2> QED
    BY <2>2 DEF K
<1>13. p + k = f.offset + m
  <2> DEFINE o == f.offset
  <2>1. o = p + n /\ p \in Nat /\ n \in Nat /\ m \in Nat
    BY <1>8, <1>10
  <2> HIDE DEF o, p, n
  <2>2. p + k = o + m
    BY <2>1, SMT
  <2> QED
    BY <2>2 DEF o
<1> HIDE DEF d, p, n, k, cell
<1>14. Len(ret'.data) = k
  BY <1>4, <1>11, Zenon DEF k
<1>15. (ret'.offset + Len(ret'.data)) % ClusterCells(image) = 0
  BY <1>4, <1>10, <1>13, <1>14, Zenon DEF CC
<1>16. ret'.offset + Len(ret'.data) < image.files[files'[ret'.h].file].length
  BY <1>4, <1>6, <1>9, <1>10, <1>13, <1>14, Zenon
<1>17. ASSUME NEW i \in 1 .. k - kBlockLen
       PROVE  ret'.data[i] = CellOf(image, image.files[files'[ret'.h].file].chain, ret'.offset + i - 1)
  BY <1>4, <1>6, <1>11, <1>12, Zenon DEF cell
<1> QED
  BY <1>14, <1>15, <1>16, <1>17, Zenon DEF LastRoundEvicted, CellAt, FileOf

\* Every step keeps the reads right, also one that comes upon spoilt data.
LEMMA NextKeepsReads ==
    ASSUME FileSysInv, FileReadsAreRight, [Next]_vars
    PROVE  FileReadsAreRight'
<1>1. FileSysInv'
  BY NextKeepsInv
<1>2. CASE ~spoilt'
  BY <1>1, <1>2 DEF FileSysInv
<1>3. CASE spoilt' /\ UNCHANGED vars
  <2>1. image' = image /\ files' = files /\ call' = call /\ ret' = ret /\ spoilt' = spoilt
    BY <1>3 DEF vars
  <2> QED
    BY <2>1, Zenon DEF FileReadsAreRight, ReadIsRight, LastRoundEvicted, CellAt, FileOf
<1>4. CASE spoilt' /\ Calls
  <2>1. ~spoilt
    BY <1>4 DEF Calls
  <2>2. CASE init
    <3>1. ret' = [op |-> "init", ok |-> vol'.partValid] \/ ret' = [op |-> "init", ok |-> FALSE]
      BY <2>2, Zenon DEF init
    <3>2. ret'.op \notin {"file_read", "file_open"}
      BY <3>1
    <3> QED
      BY <3>2, OtherResult
  <2>3. CASE ~init
    <3>1. spoilt' = spoilt
      BY <1>4, <2>3 DEF Calls, fin, rootdir_open, dir_close, dir_next, file_open, file_close,
                        file_read, file_clusters, file_seek
    <3> QED
      BY <1>4, <2>1, <3>1
  <2> QED
    BY <2>2, <2>3
<1>5. CASE spoilt' /\ Step
  <2>1. CASE scan_entry
    <3>1. PICK bad \in Bad : \E r \in object_read(dirs[call.h], 1, bad) : EntryRead(r)
      BY <2>1, Zenon DEF scan_entry
    <3>2. PICK r \in object_read(dirs[call.h], 1, bad) : EntryRead(r)
      BY <3>1
    <3>3. ~spoilt
      <4>1. call.op # "none"
        BY <2>1 DEF scan_entry
      <4> QED
        BY <4>1, UnderWay
    <3>4. SpoiltReturn(r.evicted)
      BY <1>5, <3>2, <3>3, Zenon DEF EntryRead
    <3> QED
      BY <3>4, SpoiltResult
  <2>2. CASE read_chunk
    <3>1. ~spoilt /\ call.op = "read" /\ image' = image
      <4>1. call.op = "read" /\ image' = image
        BY <2>2 DEF read_chunk
      <4>2. call.op # "none"
        BY <4>1
      <4> QED
        BY <4>1, <4>2, UnderWay
    <3> DEFINE f == files[call.h]
    <3>2. PICK bad \in Bad : \E r \in object_read(f, call.len, bad) :
             /\ call.len > 0 /\ f.offset < f.length /\ r.spoilt
             /\ IF r.spoilt /\ ~r.evicted THEN SpoiltReturn(FALSE)
                ELSE IF ~r.ok THEN TRUE
                ELSE /\ files' = [files EXCEPT ![call.h] = r.obj]
                     /\ ReadReturns(call.data \o r.data, TRUE)
      BY <1>5, <2>2, <3>1, Zenon DEF read_chunk
    <3>3. PICK r \in object_read(f, call.len, bad) :
             /\ call.len > 0 /\ f.offset < f.length /\ r.spoilt
             /\ IF r.spoilt /\ ~r.evicted THEN SpoiltReturn(FALSE)
                ELSE IF ~r.ok THEN TRUE
                ELSE /\ files' = [files EXCEPT ![call.h] = r.obj]
                     /\ ReadReturns(call.data \o r.data, TRUE)
      BY <3>2
    <3>4. CASE ~r.evicted
      <4>1. SpoiltReturn(FALSE)
        BY <3>3, <3>4, Zenon
      <4> QED
        BY <4>1, SpoiltResult
    <3>5. CASE r.evicted
      <4>1. r.ok
        <5>1. \E b, n : ChunkFields(r, f, call.len, b, n)
          BY ObjectReadRound, Zenon
        <5> QED
          BY <3>5, <5>1, Zenon DEF ChunkFields
      <4>2. files' = [files EXCEPT ![call.h] = r.obj] /\ ReadReturns(call.data \o r.data, TRUE)
        BY <3>3, <3>5, <4>1, Zenon
      <4>3. call.len > 0 /\ files[call.h].offset < files[call.h].length
            /\ r \in object_read(files[call.h], call.len, bad)
        BY <3>3
      <4> HIDE DEF f
      <4> QED
        BY <1>5, <3>1, <3>5, <4>2, <4>3, EvictedRead
    <3> QED
      BY <3>4, <3>5
  <2>3. CASE seek_cluster \/ list_cluster
    <3>1. ~spoilt
      <4>1. call.op \in {"seek", "clusters"}
        BY <2>3 DEF seek_cluster, list_cluster
      <4>2. call.op # "none"
        BY <4>1
      <4> QED
        BY <4>2, UnderWay
    <3>2. SpoiltReturn(FALSE)
      BY <1>5, <2>3, <3>1, Zenon DEF seek_cluster, list_cluster
    <3> QED
      BY <3>2, SpoiltResult
  <2> QED
    BY <1>5, <2>1, <2>2, <2>3 DEF Step
<1> QED
  BY <1>2, <1>3, <1>4, <1>5 DEF Next, Finished

\* What file_read() returns are the cells of the file from where the handle stood,
\* for any sound volume, cache and interleaving of calls on several handles, and
\* whichever block reads fail.  Nothing is assumed of the slot that a read copies
\* from (which object_read() does not keep, see fs_v_evict): the theorem says how
\* far the damage goes, which is the last block before the end of a cluster.
THEOREM FileReadsRight == Spec => []FileReadsAreRight
<1>1. Init => FileSysInv /\ FileReadsAreRight
  <2> SUFFICES ASSUME Init PROVE FileSysInv /\ FileReadsAreRight
    OBVIOUS
  <2>1. FileSysInv /\ ~spoilt
    BY InitInv DEF Init
  <2> QED
    BY <2>1 DEF FileSysInv
<1>2. (FileSysInv /\ FileReadsAreRight) /\ [Next]_vars => (FileSysInv /\ FileReadsAreRight)'
  BY NextKeepsInv, NextKeepsReads
<1> QED
  BY <1>1, <1>2, PTL DEF Spec

\* file_open() finds a file if and only if it is in the directory, by the name that
\* its entries spell, and opens the cluster where it starts.
THEOREM OpenFinds == Spec => []OpenFindsTheFile
<1>1. FileSysInv => OpenFindsTheFile
  <2>1. FileSysInv /\ ~spoilt => OpenFindsTheFile
    BY DEF FileSysInv
  <2>2. spoilt => OpenFindsTheFile
    BY DEF OpenFindsTheFile
  <2> QED
    BY <2>1, <2>2
<1> QED
  BY <1>1, FileSysInvariant, PTL

\* The cluster that an open file remembers is the one that holds its offset, after
\* any sequence of reads and seeks, also of those that fail half way.
THEOREM PositionConsistent == Spec => []PositionIsConsistent
<1>1. FileSysInv => PositionIsConsistent
  <2> SUFFICES ASSUME FileSysInv, NEW h \in DOMAIN files,
                      files[h].valid, ~files[h].listed, ~spoilt, files[h].offset < files[h].length
               PROVE  files[h].currCluster =
                        FileOf(files[h].file).chain[(files[h].offset \div ClusterCells(image)) + 1]
    BY Zenon DEF PositionIsConsistent
  <2>1. image \in Images /\ h \in 0 .. MaxFiles - 1 /\ GoodFiles(image, files)
    BY InvFacts, Zenon
  <2>2. GoodFile(image, files[h])
    BY <2>1, Zenon DEF GoodFiles
  <2> QED
    BY <2>1, <2>2, FilePosition, Zenon DEF FileOf
<1> QED
  BY <1>1, FileSysInvariant, PTL
=============================================================================
