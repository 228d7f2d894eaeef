--------------------------- MODULE HbmcTlTopProofs ---------------------------
(***************************************************************************)
(* Proofs about the HyperRAM interface as a whole (HbmcTlTop), for every   *)
(* size of its buffers and FIFOs: the capability tags follow the reads.    *)
(***************************************************************************)
EXTENDS HbmcTlTop, FiniteSetTheorems, SequenceTheorems, TLAPS

-----------------------------------------------------------------------------
(* The reads among the first k entries of a request FIFO, and their        *)
(* number: the place in the tag FIFO of the tag of a read.                 *)
Reads(q, k) == {j \in 1 .. k : ~q[j].wr}

Rank(q, k) == Cardinality(Reads(q, k))

LEMMA RankType ==
    ASSUME NEW q, NEW k \in Nat
    PROVE  IsFiniteSet(Reads(q, k)) /\ Rank(q, k) \in Nat /\ Rank(q, k) <= k
  <1>1. IsFiniteSet(1 .. k) /\ Cardinality(1 .. k) = k
    <2>1. 1 \in Int /\ k \in Int /\ (IF 1 > k THEN 0 ELSE k - 1 + 1) = k
      OBVIOUS
    <2> QED
      BY <2>1, FS_Interval, Zenon
  <1>2. Reads(q, k) \in SUBSET (1 .. k)
    BY DEF Reads
  <1>3. IsFiniteSet(Reads(q, k)) /\ Cardinality(Reads(q, k)) <= k
    BY <1>1, <1>2, FS_Subset, Zenon
  <1> QED
    BY <1>3, FS_CardinalityType, Zenon DEF Rank

(* One more entry.                                                         *)
LEMMA RankNext ==
    ASSUME NEW q, NEW k \in Nat
    PROVE  /\ q[k + 1].wr => Rank(q, k + 1) = Rank(q, k)
           /\ ~q[k + 1].wr => Rank(q, k + 1) = Rank(q, k) + 1
  <1>1. IsFiniteSet(Reads(q, k))
    BY RankType, Zenon
  <1>2. ASSUME q[k + 1].wr PROVE Reads(q, k + 1) = Reads(q, k)
    BY <1>2 DEF Reads
  <1>3. ASSUME ~q[k + 1].wr
        PROVE  Reads(q, k + 1) = Reads(q, k) \cup {k + 1} /\ k + 1 \notin Reads(q, k)
    BY <1>3 DEF Reads
  <1> QED
    BY <1>1, <1>2, <1>3, FS_AddElement, Zenon DEF Rank

LEMMA RankZero ==
    ASSUME NEW q PROVE Rank(q, 0) = 0
  <1>1. Reads(q, 0) = {}
    BY DEF Reads
  <1> QED
    BY <1>1, FS_EmptySet, Zenon DEF Rank

(* The rank of a read lies between 1 and the number of reads.              *)
LEMMA RankOfRead ==
    ASSUME NEW q, NEW n \in Nat, NEW k \in 1 .. n
    PROVE  /\ Rank(q, k) <= Rank(q, n)
           /\ ~q[k].wr => Rank(q, k) >= 1
  <1>1. k \in Nat /\ k - 1 \in Nat /\ (k - 1) + 1 = k
    OBVIOUS
  <1>2. Rank(q, k) <= Rank(q, n)
    <2>1. Reads(q, k) \in SUBSET Reads(q, n)
      BY DEF Reads
    <2>2. IsFiniteSet(Reads(q, n))
      BY RankType, Zenon
    <2> QED
      BY <2>1, <2>2, FS_Subset, Zenon DEF Rank
  <1>3. ASSUME ~q[k].wr PROVE Rank(q, k) >= 1
    <2>1. Rank(q, k) = Rank(q, k - 1) + 1
      <3>1. ~q[(k - 1) + 1].wr => Rank(q, (k - 1) + 1) = Rank(q, k - 1) + 1
        BY <1>1, RankNext, Zenon
      <3> QED
        BY <1>1, <1>3, <3>1, Zenon
    <2>2. Rank(q, k - 1) \in Nat
      BY <1>1, RankType, Zenon
    <2> QED
      BY <2>1, <2>2
  <1> QED
    BY <1>2, <1>3

(* Ranks depend on the first entries only.                                 *)
LEMMA RankPrefix ==
    ASSUME NEW q, NEW r, NEW k \in Nat, \A j \in 1 .. k : q[j] = r[j]
    PROVE  Rank(q, k) = Rank(r, k)
  <1>1. Reads(q, k) = Reads(r, k)
    BY DEF Reads
  <1> QED
    BY <1>1, Zenon DEF Rank

(* Without its first entry.                                                *)
LEMMA RankTail ==
    ASSUME NEW q, NEW r, NEW k \in Nat, \A j \in 1 .. k : r[j] = q[j + 1]
    PROVE  /\ q[1].wr => Rank(q, k + 1) = Rank(r, k)
           /\ ~q[1].wr => Rank(q, k + 1) = Rank(r, k) + 1
  <1> DEFINE R == Reads(r, k)
             B == {j \in 2 .. k + 1 : ~q[j].wr}
             f == [j \in R |-> j + 1]
  <1>1. IsFiniteSet(R)
    BY RankType, Zenon
  <1>2. R \subseteq Nat /\ \A j \in R : j \in 1 .. k /\ ~q[j + 1].wr
    BY DEF Reads
  <1>3. \A j \in B : j - 1 \in R
    <2> TAKE j \in B
    <2>1. j - 1 \in 1 .. k /\ (j - 1) + 1 = j
      OBVIOUS
    <2>2. r[j - 1] = q[j]
      BY <2>1
    <2> QED
      BY <2>1, <2>2 DEF Reads
  <1> HIDE DEF R
  <1>4. f \in [R -> B]
    <2>1. \A j \in R : j + 1 \in B
      BY <1>2
    <2> HIDE DEF B
    <2> QED
      BY <2>1
  <1>5. IsInjective(f)
    <2>1. \A i, j \in R : i + 1 = j + 1 => i = j
      BY <1>2
    <2> QED
      BY <2>1 DEF IsInjective
  <1>6. \A t \in B : \E s \in R : f[s] = t
    <2> TAKE t \in B
    <2>1. t - 1 \in R /\ (t - 1) + 1 = t
      BY <1>3
    <2>2. f[t - 1] = t
      BY <2>1
    <2> QED
      BY <2>1, <2>2
  <1> HIDE DEF f, B
  <1>7. f \in Bijection(R, B)
    BY <1>4, <1>5, <1>6, Zenon DEF Bijection, Injection, Surjection
  <1>8. IsFiniteSet(B) /\ Cardinality(B) = Rank(r, k)
    BY <1>1, <1>7, FS_Bijection, Zenon DEF ExistsBijection, R, Rank
  <1>9. ASSUME q[1].wr PROVE Reads(q, k + 1) = B
    BY <1>9 DEF Reads, B
  <1>10. ASSUME ~q[1].wr PROVE Reads(q, k + 1) = B \cup {1}
    BY <1>10 DEF Reads, B
  <1>11. 1 \notin B
    BY DEF B
  <1> QED
    BY <1>8, <1>9, <1>10, <1>11, FS_AddElement, Zenon DEF Rank
-----------------------------------------------------------------------------
(* The tags t are those of the reads of the request FIFO q, in order.      *)
Requests == [wr : BOOLEAN, fetch : BOOLEAN, exp : Word, tag : BOOLEAN]

Matched(q, t) ==
    /\ q \in Seq(Requests) /\ t \in Seq(BOOLEAN)
    /\ Len(t) = Rank(q, Len(q))
    /\ \A k \in 1 .. Len(q) : ~q[k].wr => t[Rank(q, k)] = q[k].tag

(* There are never more tags than requests.                                *)
LEMMA MatchedBound ==
    ASSUME NEW q, NEW t, Matched(q, t)
    PROVE  Len(q) \in Nat /\ Len(t) \in Nat /\ Len(t) <= Len(q)
  <1>1. Len(q) \in Nat /\ Len(t) = Rank(q, Len(q))
    BY LenProperties, Zenon DEF Matched
  <1> QED
    BY <1>1, RankType, Zenon

(* A write is answered: no tag is consumed.                                *)
LEMMA PopWrite ==
    ASSUME NEW q, NEW t, Matched(q, t), q # <<>>, Head(q).wr
    PROVE  Matched(Tail(q), t)
  <1> DEFINE r == Tail(q)
             n == Len(r)
  <1>1. /\ r \in Seq(Requests) /\ Len(q) \in Nat /\ Len(q) = n + 1 /\ n \in Nat
        /\ \A j \in 1 .. n : r[j] = q[j + 1]
    BY HeadTailProperties, LenProperties DEF Matched
  <1>2. q[1].wr
    BY <1>1 DEF Matched
  <1> HIDE DEF r
  <1>3. \A k \in 0 .. n : Rank(q, k + 1) = Rank(r, k)
    <2> TAKE k \in 0 .. n
    <2>1. k \in Nat /\ \A j \in 1 .. k : r[j] = q[j + 1]
      BY <1>1
    <2> QED
      BY <1>2, <2>1, RankTail, Zenon
  <1>4. Len(t) = Rank(r, n)
    <2>1. n \in 0 .. n
      BY <1>1
    <2> QED
      BY <1>1, <1>3, <2>1, Zenon DEF Matched
  <1>5. ASSUME NEW k \in 1 .. n, ~r[k].wr PROVE t[Rank(r, k)] = r[k].tag
    <2>1. k \in 0 .. n /\ k + 1 \in 1 .. Len(q) /\ r[k] = q[k + 1]
      BY <1>1
    <2>2. t[Rank(q, k + 1)] = q[k + 1].tag
      BY <1>5, <2>1, Zenon DEF Matched
    <2> QED
      BY <1>3, <2>1, <2>2, Zenon
  <1> QED
    BY <1>1, <1>4, <1>5, Zenon DEF Matched, r

(* A read is answered: the first tag is its own and leaves with it.        *)
LEMMA PopRead ==
    ASSUME NEW q, NEW t, Matched(q, t), q # <<>>, ~Head(q).wr
    PROVE  t # <<>> /\ Head(t) = Head(q).tag /\ Matched(Tail(q), Tail(t))
  <1> DEFINE r == Tail(q)
             u == Tail(t)
             n == Len(r)
  <1>1. /\ r \in Seq(Requests) /\ Len(q) \in Nat /\ Len(q) = n + 1 /\ n \in Nat
        /\ \A j \in 1 .. n : r[j] = q[j + 1]
    BY HeadTailProperties, LenProperties DEF Matched
  <1>2. Head(q) = q[1] /\ ~q[1].wr /\ 1 \in 1 .. Len(q)
    BY <1>1 DEF Matched
  <1> HIDE DEF r
  <1>3. \A k \in 0 .. n : Rank(q, k + 1) = Rank(r, k) + 1 /\ Rank(r, k) \in Nat
    <2> TAKE k \in 0 .. n
    <2>1. k \in Nat /\ \A j \in 1 .. k : r[j] = q[j + 1]
      BY <1>1
    <2> QED
      BY <1>2, <2>1, RankTail, RankType, Zenon
  <1>4. Len(t) = Rank(r, n) + 1 /\ Rank(r, n) \in Nat
    <2>1. n \in 0 .. n
      BY <1>1
    <2> QED
      BY <1>1, <1>3, <2>1, Zenon DEF Matched
  <1>5. t # <<>> /\ t \in Seq(BOOLEAN)
    BY <1>4 DEF Matched
  <1>6. t[1] = q[1].tag
    <2>1. 0 \in 0 .. n /\ 0 + 1 = 1
      BY <1>1
    <2>2. Rank(q, 0 + 1) = Rank(r, 0) + 1
      BY <1>3, <2>1, Zenon
    <2>3. Rank(q, 1) = 1
      BY <2>1, <2>2, RankZero, Zenon
    <2> QED
      BY <1>2, <2>3, Zenon DEF Matched
  <1>7. /\ u \in Seq(BOOLEAN) /\ Len(u) = Rank(r, n) /\ Head(t) = t[1]
        /\ \A i \in 1 .. Len(u) : u[i] = t[i + 1]
    BY <1>4, <1>5, HeadTailProperties
  <1> HIDE DEF u
  <1>8. ASSUME NEW k \in 1 .. n, ~r[k].wr PROVE u[Rank(r, k)] = r[k].tag
    <2>1. k \in 0 .. n /\ k + 1 \in 1 .. Len(q) /\ r[k] = q[k + 1]
      BY <1>1
    <2>2. t[Rank(q, k + 1)] = q[k + 1].tag
      BY <1>8, <2>1, Zenon DEF Matched
    <2>3. Rank(r, k) <= Rank(r, n) /\ Rank(r, k) >= 1
      BY <1>1, <1>8, RankOfRead, Zenon
    <2>4. Rank(r, k) \in 1 .. Len(u)
      BY <1>3, <1>4, <1>7, <2>1, <2>3
    <2>5. u[Rank(r, k)] = t[Rank(r, k) + 1]
      BY <1>7, <2>4, Zenon
    <2> QED
      BY <1>3, <2>1, <2>2, <2>5, Zenon
  <1> QED
    BY <1>1, <1>2, <1>5, <1>6, <1>7, <1>8, Zenon DEF Matched, r, u

(* A request is accepted; a read brings its tag with it.                   *)
LEMMA PushRequest ==
    ASSUME NEW q, NEW t, Matched(q, t), NEW p \in Requests
    PROVE  /\ p.wr => Matched(Append(q, p), t)
           /\ ~p.wr => Matched(Append(q, p), Append(t, p.tag))
  <1> DEFINE r == Append(q, p)
             u == Append(t, p.tag)
             n == Len(q)
  <1>1. /\ q \in Seq(Requests) /\ t \in Seq(BOOLEAN) /\ n \in Nat
        /\ Len(t) = Rank(q, n)
        /\ \A k \in 1 .. n : ~q[k].wr => t[Rank(q, k)] = q[k].tag
    BY LenProperties, Zenon DEF Matched
  <1>2. /\ r \in Seq(Requests) /\ Len(r) = n + 1 /\ r[n + 1] = p
        /\ \A j \in 1 .. n : r[j] = q[j]
    BY <1>1, AppendProperties
  <1>3. p.tag \in BOOLEAN
    BY DEF Requests
  <1>4. /\ u \in Seq(BOOLEAN) /\ Len(u) = Len(t) + 1 /\ u[Len(t) + 1] = p.tag
        /\ \A j \in 1 .. Len(t) : u[j] = t[j]
    BY <1>1, <1>3, AppendProperties
  <1> HIDE DEF r, u
  <1>5. \A k \in 0 .. n : Rank(r, k) = Rank(q, k)
    <2> TAKE k \in 0 .. n
    <2>1. k \in Nat /\ \A j \in 1 .. k : r[j] = q[j]
      BY <1>1, <1>2
    <2> QED
      BY <2>1, RankPrefix, Zenon
  <1>6. Rank(r, n) = Rank(q, n)
    <2>1. n \in 0 .. n
      BY <1>1
    <2> QED
      BY <1>5, <2>1, Zenon
  <1>7. /\ p.wr => Rank(r, n + 1) = Rank(q, n)
        /\ ~p.wr => Rank(r, n + 1) = Rank(q, n) + 1
    BY <1>1, <1>2, <1>6, RankNext, Zenon
  <1>8. \A k \in 1 .. Len(r) : k \in 1 .. n \/ k = n + 1
    BY <1>1, <1>2
  <1>9. \A k \in 1 .. n : ~r[k].wr => t[Rank(r, k)] = r[k].tag /\ Rank(r, k) \in 1 .. Len(t)
    <2> TAKE k \in 1 .. n
    <2> HAVE ~r[k].wr
    <2>1. k \in 0 .. n /\ k \in Nat /\ r[k] = q[k]
      BY <1>1, <1>2
    <2>2. t[Rank(r, k)] = r[k].tag
      BY <1>1, <1>5, <2>1, Zenon
    <2>3. Rank(r, k) <= Rank(r, n) /\ Rank(r, k) >= 1 /\ Rank(r, k) \in Nat /\ Rank(r, n) \in Nat
      BY <1>1, <2>1, RankOfRead, RankType, Zenon
    <2> QED
      BY <1>1, <1>6, <2>2, <2>3
  <1>10. ASSUME p.wr PROVE Matched(r, t)
    <2>1. Len(t) = Rank(r, Len(r))
      BY <1>1, <1>2, <1>7, <1>10, Zenon
    <2>2. \A k \in 1 .. Len(r) : ~r[k].wr => t[Rank(r, k)] = r[k].tag
      BY <1>2, <1>8, <1>9, <1>10, Zenon
    <2> QED
      BY <1>1, <1>2, <2>1, <2>2, Zenon DEF Matched
  <1>11. ASSUME ~p.wr PROVE Matched(r, u)
    <2>1. Len(u) = Rank(r, Len(r))
      BY <1>1, <1>2, <1>4, <1>7, <1>11, Zenon
    <2>2. u[Rank(r, n + 1)] = r[n + 1].tag
      BY <1>1, <1>2, <1>4, <1>7, <1>11, Zenon
    <2>3. \A k \in 1 .. Len(r) : ~r[k].wr => u[Rank(r, k)] = r[k].tag
      BY <1>4, <1>8, <1>9, <2>2, Zenon
    <2> QED
      BY <1>2, <1>4, <2>1, <2>3, Zenon DEF Matched
  <1> QED
    BY <1>10, <1>11, Zenon DEF r, u
-----------------------------------------------------------------------------
(* Types of what the tag memory and the request FIFO depend on.            *)

LEMMA WindowFacts ==
    /\ NumWords \in Nat \ {0} /\ 0 \in Addr /\ InitWord(0) \in Word
    /\ \A a \in Addr : InitWord(a) \in Word
    /\ \A a \in Addr : TagAddr(a) \in 0 .. NumTags - 1
  <1>1. NumWords \in Nat \ {0}
    <2>1. \A m, n \in Nat \ {0} : m * n \in Nat \ {0}
      OBVIOUS
    <2> QED
      BY <2>1, DefsAssumption DEF NumWords
  <1>2. 0 \in Addr
    BY <1>1 DEF Addr
  <1>3. \A a \in Addr : a \in Bytes
    BY <1>1, DefsAssumption DEF Addr, Bytes, Phys, PhysWords
  <1>4. \A a \in Addr : InitWord(a) \in Word
    BY <1>3 DEF InitWord, Word
  <1>5. \A a \in Addr : TagAddr(a) \in 0 .. NumTags - 1
    BY <1>1 DEF Addr, TagAddr, NumTags
  <1> QED
    BY <1>1, <1>2, <1>4, <1>5

LEMMA MergedWord ==
    ASSUME NEW old \in Word, NEW new \in Word, NEW mask
    PROVE  Merge(old, mask, new) \in Word
  BY DEF Merge, Word

(* What the hosts present is a request.                                    *)
LEMMA PresentedType ==
    ASSUME dreq \in TLReq, NEW iss, PresentD(DRequests, iss)
    PROVE  dreq' \in TLReq
  <1>1. NoReq \in TLReq
    BY WindowFacts DEF NoReq, TLReq
  <1>2. ASSUME NEW a \in Addr PROVE Get(a) \in TLReq
    BY <1>1 DEF Get, TLReq
  <1>3. \A v \in Values : v \in Word
    BY DEF Values, Word, Bytes
  <1>4. ASSUME NEW a \in Addr, NEW m \in SUBSET Lanes, NEW v \in Values, NEW c \in Caps
        PROVE  Put(a, m, v, c) \in TLReq
    <2>1. v \in Word /\ c \in BOOLEAN
      BY <1>3, TopAssumption
    <2> QED
      BY <2>1 DEF Put, TLReq
  <1>5. DRequests \subseteq TLReq
    BY <1>2, <1>4 DEF DRequests
  <1>6. dreq' = dreq \/ dreq' = NoReq \/ dreq' \in DRequests
    BY Zenon DEF PresentD
  <1> QED
    BY <1>1, <1>5, <1>6

-----------------------------------------------------------------------------
(* The inductive invariant.                                                *)

TagTypes ==
    /\ dreq \in TLReq /\ gold \in [Addr -> Word]
    /\ tag_ram \in [0 .. NumTags - 1 -> BOOLEAN]
    /\ tag_q \in [valid : BOOLEAN, bit : BOOLEAN] /\ tag_fifo \in Seq(BOOLEAN)

TagInv == TagTypes /\ Matched(d_reqs, tag_queue) /\ Len(d_reqs) <= ReqDepth

(* The tag FIFO is at least as deep as the request FIFO of the port.       *)
TagFifoFits == ReqDepth \in Nat /\ ReqDepth <= TagDepth

LEMMA NothingMatched == Matched(<<>>, <<>>)
  <1>1. <<>> \in Seq(Requests) /\ <<>> \in Seq(BOOLEAN) /\ Len(<<>>) = 0
    OBVIOUS
  <1>2. \A k \in 1 .. 0 : FALSE
    OBVIOUS
  <1> QED
    BY <1>1, <1>2, RankZero, Zenon DEF Matched

LEMMA TagInitially ==
    ASSUME TagFifoFits, Init PROVE TagInv
  <1>1. /\ d_reqs = <<>> /\ dreq = NoReq /\ tag_q = NoTag /\ tag_fifo = <<>>
        /\ gold = [a \in Addr |-> InitWord(a)]
        /\ tag_ram = [t \in 0 .. NumTags - 1 |-> FALSE]
    BY Zenon DEF Init, D!PortInit
  <1>2. NoReq \in TLReq
    BY WindowFacts DEF NoReq, TLReq
  <1>3. gold \in [Addr -> Word]
    BY <1>1, WindowFacts
  <1>4. TagTypes
    BY <1>1, <1>2, <1>3 DEF TagTypes, NoTag
  <1>5. tag_queue = <<>>
    BY <1>1 DEF tag_queue, NoTag
  <1>6. Len(d_reqs) <= ReqDepth
    BY <1>1 DEF TagFifoFits
  <1> QED
    BY <1>1, <1>4, <1>5, <1>6, NothingMatched, Zenon DEF TagInv

(* The types are kept by a cycle.                                          *)
LEMMA TagTypesTick ==
    ASSUME TagTypes, tag_queue \in Seq(BOOLEAN), Tick PROVE TagTypes'
  <1> DEFINE t == TagAddr(dreq.addr)
             left == IF tag_queue # <<>> /\ D!tag_rdata_rready(ufifo_rd)
                     THEN Tail(tag_queue) ELSE tag_queue
             iss == d_issue
  <1>1. /\ PresentD(DRequests, iss)
        /\ gold' = IF iss /\ dreq.op = "Put"
                   THEN [gold EXCEPT ![dreq.addr] = Merge(@, dreq.mask, dreq.data)] ELSE gold
        /\ tag_ram' = IF iss /\ dreq.op = "Put" THEN [tag_ram EXCEPT ![t] = dreq.cap] ELSE tag_ram
        /\ tag_q' = IF iss /\ dreq.op = "Get"
                    THEN [valid |-> TRUE, bit |-> tag_ram[t]] ELSE NoTag
        /\ tag_fifo' = IF Len(left) > TagDepth THEN SubSeq(left, 1, TagDepth) ELSE left
    BY Zenon DEF Tick, Cycle, TagClock
  <1>2. /\ dreq.addr \in Addr /\ dreq.data \in Word /\ dreq.cap \in BOOLEAN
        /\ gold \in [Addr -> Word] /\ t \in 0 .. NumTags - 1
        /\ tag_ram \in [0 .. NumTags - 1 -> BOOLEAN]
    BY WindowFacts DEF TagTypes, TLReq
  <1> HIDE DEF t, iss
  <1>3. dreq' \in TLReq
    BY <1>1, PresentedType DEF TagTypes
  <1>4. gold' \in [Addr -> Word]
    <2>1. Merge(gold[dreq.addr], dreq.mask, dreq.data) \in Word
      BY <1>2, MergedWord
    <2> QED
      BY <1>1, <1>2, <2>1
  <1>5. tag_ram' \in [0 .. NumTags - 1 -> BOOLEAN]
    BY <1>1, <1>2
  <1>6. tag_q' \in [valid : BOOLEAN, bit : BOOLEAN]
    BY <1>1, <1>2 DEF NoTag
  <1>7. tag_fifo' \in Seq(BOOLEAN)
    <2>1. left \in Seq(BOOLEAN)
      BY HeadTailProperties
    <2> HIDE DEF left
    <2>2. ASSUME Len(left) > TagDepth PROVE SubSeq(left, 1, TagDepth) \in Seq(BOOLEAN)
      <3>1. \A i \in 1 .. TagDepth : left[i] \in BOOLEAN
        BY <2>1, <2>2, TopAssumption, ElementOfSeq
      <3> QED
        BY <3>1, TopAssumption, SubSeqProperties
    <2> QED
      BY <1>1, <2>1, <2>2
  <1> QED
    BY <1>3, <1>4, <1>5, <1>6, <1>7 DEF TagTypes
(* The tags keep up with the request FIFO in every cycle.                  *)
LEMMA TagTick ==
    ASSUME TagFifoFits, TagInv, Tick PROVE TagInv'
  <1> DEFINE q == d_reqs
             V == D!d_valid(ufifo_rd)
             W == D!tag_rdata_rready(ufifo_rd)
             rest == IF V THEN Tail(q) ELSE q
             left == IF tag_queue # <<>> /\ W THEN Tail(tag_queue) ELSE tag_queue
             iss == d_issue
             bit == tag_ram[TagAddr(dreq.addr)]
             fetch == ~(D!rd_req(dreq) /\ D!rdbuf_valid(dreq.addr))
             new == [wr |-> D!wr_req(dreq), fetch |-> fetch,
                     exp |-> gold[dreq.addr], tag |-> bit]
  <1>1. TagTypes'
    BY TagTypesTick, Zenon DEF TagInv, Matched
  <1>2. /\ d_reqs' = IF iss THEN Append(rest, new) ELSE rest
        /\ tag_q' = IF iss /\ dreq.op = "Get" THEN [valid |-> TRUE, bit |-> bit] ELSE NoTag
        /\ tag_fifo' = IF Len(left) > TagDepth THEN SubSeq(left, 1, TagDepth) ELSE left
    BY Zenon DEF Tick, Cycle, TagClock, D!PortClock, d_issue
  <1>3. V => q # <<>>
    BY Zenon DEF D!d_valid
  <1>4. W <=> V /\ ~Head(q).wr
    BY Zenon DEF D!tag_rdata_rready
  <1>5. iss => dreq.valid /\ Len(q) < ReqDepth
    BY Zenon DEF d_issue, D!issue, D!can_accept, D!req_fifo_wready
  <1>6. dreq.op \in {"Get", "Put"} /\ (dreq.valid => (D!wr_req(dreq) <=> dreq.op = "Put"))
    BY DEF TagInv, TagTypes, TLReq, D!wr_req
  <1>7. new \in Requests /\ bit \in BOOLEAN /\ new.wr = D!wr_req(dreq) /\ new.tag = bit
    <2>1. /\ gold[dreq.addr] \in Word /\ bit \in BOOLEAN
      BY WindowFacts DEF TagInv, TagTypes, TLReq
    <2>2. D!wr_req(dreq) \in BOOLEAN /\ fetch \in BOOLEAN
      BY Zenon DEF TagInv, TagTypes, TLReq, D!wr_req, D!rd_req
    <2> HIDE DEF bit, fetch
    <2> QED
      BY <2>1, <2>2 DEF Requests
  <1> HIDE DEF V, W, iss, bit, new
  <1>8. Matched(rest, left)
    <2>1. CASE ~V
      <3>1. rest = q /\ left = tag_queue
        BY <1>4, <2>1
      <3> QED
        BY <3>1, Zenon DEF TagInv
    <2>2. CASE V /\ Head(q).wr
      <3>1. rest = Tail(q) /\ left = tag_queue
        BY <1>4, <2>2
      <3>2. Matched(Tail(q), tag_queue)
        BY <1>3, <2>2, PopWrite, Zenon DEF TagInv
      <3> QED
        BY <3>1, <3>2, Zenon
    <2>3. CASE V /\ ~Head(q).wr
      <3>1. tag_queue # <<>> /\ Matched(Tail(q), Tail(tag_queue))
        BY <1>3, <2>3, PopRead, Zenon DEF TagInv
      <3>2. rest = Tail(q) /\ left = Tail(tag_queue)
        BY <1>4, <2>3, <3>1
      <3> QED
        BY <3>1, <3>2, Zenon
    <2> QED
      BY <2>1, <2>2, <2>3
  <1>9. Len(q) \in Nat /\ Len(q) <= ReqDepth /\ Len(rest) \in Nat /\ Len(rest) <= Len(q)
    <2>1. q \in Seq(Requests) /\ Len(q) \in Nat /\ Len(q) <= ReqDepth
      BY LenProperties, Zenon DEF TagInv, Matched
    <2>2. ASSUME V PROVE Len(Tail(q)) = Len(q) - 1 /\ Len(q) - 1 \in Nat
      BY <1>3, <2>1, <2>2, HeadTailProperties
    <2> QED
      BY <2>1, <2>2
  <1> HIDE DEF rest, left
  <1>10. /\ rest \in Seq(Requests) /\ left \in Seq(BOOLEAN)
         /\ Len(left) \in Nat /\ Len(left) <= Len(rest)
    BY <1>8, MatchedBound, Zenon DEF Matched
  <1>11. tag_fifo' = left
    <2>1. ~(Len(left) > TagDepth)
      BY <1>9, <1>10, TopAssumption DEF TagFifoFits
    <2> QED
      BY <1>2, <2>1, Zenon
  <1>12. CASE ~iss
    <2>1. d_reqs' = rest /\ tag_q' = NoTag
      BY <1>2, <1>12, Zenon
    <2>2. tag_queue' = left
      <3>1. tag_queue' = left \o <<>>
        BY <1>11, <2>1 DEF tag_queue, NoTag
      <3> QED
        BY <1>10, <3>1, ConcatEmptySeq, Zenon
    <2>3. Len(rest) <= ReqDepth
      BY <1>9 DEF TagFifoFits
    <2>4. Matched(d_reqs, tag_queue)' = Matched(d_reqs', tag_queue')
      BY Zenon DEF Matched, Rank, Reads, Requests
    <2> QED
      BY <1>1, <1>8, <2>1, <2>2, <2>3, <2>4, Zenon DEF TagInv
  <1>13. CASE iss
    <2>1. d_reqs' = Append(rest, new)
      BY <1>2, <1>13, Zenon
    <2>2. Len(d_reqs') <= ReqDepth
      <3>1. Len(d_reqs') = Len(rest) + 1 /\ Len(q) < ReqDepth
        BY <1>5, <1>7, <1>10, <1>13, <2>1, AppendProperties, Zenon
      <3> QED
        BY <1>9, <3>1 DEF TagFifoFits
    <2>3. Matched(d_reqs', tag_queue')
      <3>1. CASE dreq.op = "Put"
        <4>1. tag_q' = NoTag /\ new.wr
          BY <1>2, <1>5, <1>6, <1>7, <1>13, <3>1
        <4>2. tag_queue' = left \o <<>>
          BY <1>11, <4>1 DEF tag_queue, NoTag
        <4>3. tag_queue' = left
          BY <1>10, <4>2, ConcatEmptySeq, Zenon
        <4> QED
          BY <1>7, <1>8, <2>1, <4>1, <4>3, PushRequest, Zenon
      <3>2. CASE dreq.op = "Get"
        <4>1. tag_q' = [valid |-> TRUE, bit |-> bit] /\ ~new.wr
          BY <1>2, <1>5, <1>6, <1>7, <1>13, <3>2
        <4>2. tag_queue' = left \o <<bit>>
          BY <1>11, <4>1 DEF tag_queue
        <4>3. tag_queue' = Append(left, new.tag)
          BY <1>7, <1>10, <4>2, AppendIsConcat, Zenon
        <4> QED
          BY <1>7, <1>8, <2>1, <4>1, <4>3, PushRequest, Zenon
      <3> QED
        BY <1>6, <3>1, <3>2
    <2>4. Matched(d_reqs, tag_queue)' = Matched(d_reqs', tag_queue')
      BY Zenon DEF Matched, Rank, Reads, Requests
    <2> QED
      BY <1>1, <2>2, <2>3, <2>4, Zenon DEF TagInv
  <1> QED
    BY <1>12, <1>13

LEMMA TagKept ==
    ASSUME TagFifoFits, TagInv, [Next]_vars PROVE TagInv'
  <1>1. CASE Tick
    BY <1>1, TagTick
  <1>2. CASE UNCHANGED <<d_reqs, dreq, gold, tag_ram, tag_q, tag_fifo>>
    BY <1>2, Zenon DEF TagInv, TagTypes, Matched, Rank, Reads, Requests, tag_queue
  <1>3. CASE HbmcStart
    BY <1>2, <1>3, Zenon DEF HbmcStart, dVars, tagVars
  <1>4. CASE HbmcReadWord
    BY <1>2, <1>4, Zenon DEF HbmcReadWord, dVars, tagVars
  <1>5. CASE HbmcWriteWord
    BY <1>2, <1>5, Zenon DEF HbmcWriteWord, dVars, tagVars
  <1>6. CASE UNCHANGED vars
    BY <1>2, <1>6, Zenon DEF vars, dVars, tagVars
  <1> QED
    BY <1>1, <1>3, <1>4, <1>5, <1>6, Zenon DEF Next

LEMMA TagsFollow ==
    ASSUME TagFifoFits, TagInv PROVE TagsFollowReads
  <1> DEFINE q == d_reqs
  <1>1. Matched(q, tag_queue) /\ q \in Seq(Requests)
    BY Zenon DEF TagInv, Matched
  <1>2. Len(tag_queue) = Cardinality({k \in DOMAIN q : ~q[k].wr})
    <2>1. DOMAIN q = 1 .. Len(q)
      BY <1>1, LenProperties, Zenon
    <2> QED
      BY <1>1, <2>1, Zenon DEF Matched, Rank, Reads
  <1>3. Len(tag_queue) <= TagDepth
    <2>1. Len(q) \in Nat /\ Len(tag_queue) \in Nat /\ Len(tag_queue) <= Len(q) /\ Len(q) <= ReqDepth
      BY <1>1, MatchedBound, Zenon DEF TagInv
    <2> QED
      BY <2>1, TopAssumption DEF TagFifoFits
  <1>4. ASSUME D!tag_rdata_rready(ufifo_rd)
        PROVE  tag_queue # <<>> /\ Head(tag_queue) = Head(q).tag
    <2>1. q # <<>> /\ ~Head(q).wr
      BY <1>4, Zenon DEF D!tag_rdata_rready, D!d_valid
    <2> QED
      BY <1>1, <2>1, PopRead, Zenon
  <1> QED
    BY <1>2, <1>3, <1>4, Zenon DEF TagsFollowReads

(* With a tag FIFO as deep as the request FIFO of the port (4 and 4 in the *)
(* code) no tag is ever lost, although nobody looks at the full flag, and  *)
(* every read response of port D carries the tag that its word had when    *)
(* the read was accepted, whatever hosts, buffers and memory do            *)
(* (hbmc_tl_top.sv:597-630).                                               *)
THEOREM TagsStayInStep ==
    ASSUME TagFifoFits
    PROVE  Spec => []TagsFollowReads
  <1>1. Init => TagInv
    BY TagInitially
  <1>2. TagInv /\ [Next]_vars => TagInv'
    BY TagKept
  <1>3. TagInv => TagsFollowReads
    BY TagsFollow
  <1> QED
    BY <1>1, <1>2, <1>3, PTL DEF Spec

=============================================================================
