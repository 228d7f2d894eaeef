-------------------------- MODULE HbmcTlPortProofs --------------------------
(***************************************************************************)
(* Proofs about one HyperRAM port (HbmcTlPort) in an arbitrary             *)
(* environment, for every number and size of the read buffers.             *)
(***************************************************************************)
EXTENDS HbmcTlPort, WellFoundedInduction, SequenceTheorems, TLAPS

-----------------------------------------------------------------------------
(* Arithmetic of addresses.                                                *)

(* A remainder is below its divisor.                                       *)
LEMMA ModRange ==
    ASSUME NEW n \in Nat \ {0}, NEW x \in Int
    PROVE  x % n \in 0 .. n - 1
  OBVIOUS

(* Multiplication by a natural number is monotonic.                        *)
LEMMA MulMonotonic ==
    ASSUME NEW m \in Nat, NEW n \in Nat, NEW k \in Nat, m <= n
    PROVE  m * k <= n * k
  OBVIOUS

(* The line and the offset of an address are in range: the slices          *)
(* addr[AW-1:BBIT] and addr[BBIT-1:ABIT].                                  *)
LEMMA LineRange ==
    ASSUME NEW a \in Addr
    PROVE  Line(a) \in Lines /\ Offset(a) \in Offsets
  <1>1. a \in Nat /\ a < NumLines * BufWords
    BY DefsAssumption DEF Addr, NumWords
  <1>2. Offset(a) \in Offsets
    BY <1>1, DefsAssumption, ModRange DEF Offset, Offsets
  <1>3. a \div BufWords \in Nat /\ (a \div BufWords) * BufWords <= a
    BY <1>1, DefsAssumption
  <1>4. a \div BufWords < NumLines
    <2>1. SUFFICES ASSUME NumLines <= a \div BufWords PROVE FALSE
      BY <1>3, DefsAssumption
    <2>2. NumLines * BufWords <= (a \div BufWords) * BufWords
      BY <2>1, <1>3, MulMonotonic, DefsAssumption
    <2> QED
      BY <2>2, <1>1, <1>3, DefsAssumption
  <1> QED
    BY <1>2, <1>3, <1>4, DefsAssumption DEF Line, Lines

-----------------------------------------------------------------------------
(* Words.                                                                  *)

(* Merging two words under a strobe mask gives a word.                     *)
LEMMA MergeType ==
    ASSUME NEW old \in Word, NEW new \in Word, NEW mask
    PROVE  Merge(old, mask, new) \in Word
  BY DEF Merge, Word

(* Word 0 of the device has a value at reset.                              *)
LEMMA InitWordType == InitWord(0) \in Word
  <1>1. NumLines * BufWords \in Nat
    BY DefsAssumption
  <1>2. 0 \in Phys
    BY <1>1, DefsAssumption DEF Phys, PhysWords, NumWords
  <1> QED
    BY <1>2 DEF InitWord, Word, Bytes

-----------------------------------------------------------------------------
(* The choice of the buffer to be replaced.                                *)

(* There is a lowest free buffer when not all are in use, so avail_lsb of  *)
(* hyperram_rdbuf.sv has exactly the bit of that buffer set.               *)
LEMMA LowestFreeBuffer ==
    ASSUME rb.configured \in SUBSET Bufs, rb.configured # Bufs
    PROVE  \E b \in Bufs : avail_lsb(b)
  <1> DEFINE T == Bufs \ rb.configured
             R == OpToRel(<, Nat)
  <1>1. T \subseteq Nat
    BY DefsAssumption DEF Bufs
  <1>2. T # {}
    BY Zenon
  <1>3. IsWellFoundedOn(R, Nat)
    BY NatLessThanWellFounded, Zenon
  <1>4. \A x, y \in Nat : y < x => <<y, x>> \in R
    BY Zenon DEF OpToRel
  <1> HIDE DEF R
  <1>5. PICK x \in T : \A y \in T : ~(<<y, x>> \in R)
    BY <1>1, <1>2, <1>3, WFMin, Zenon
  <1>6. \A y \in T : ~(y < x)
    BY <1>1, <1>4, <1>5, Zenon
  <1>7. avail_lsb(x)
    BY <1>6, Zenon DEF avail_lsb
  <1> QED
    BY <1>7

(* The buffer that a new burst takes exists; it is free unless every       *)
(* buffer is in use.                                                       *)
LEMMA BufSetType ==
    ASSUME rb \in RdbufType
    PROVE  buf_set \in Bufs
  <1>1. rb.configured \in SUBSET Bufs /\ rb.buf_replace \in Bufs
    BY DEF RdbufType
  <1>2. CASE rb.configured = Bufs
    BY <1>1, <1>2 DEF buf_set
  <1>3. CASE rb.configured # Bufs
    BY <1>1, <1>3, LowestFreeBuffer DEF buf_set
  <1> QED
    BY <1>2, <1>3

-----------------------------------------------------------------------------
(* The read buffers keep their types.                                      *)

(* The TL-UL side of the buffer RAM addresses a word of the RAM.           *)
LEMMA UrType ==
    ASSUME rb \in RdbufType, NEW tl \in TLReq, NEW wn \in Notify
    PROVE  ur_buf(tl.addr, wn) \in Bufs /\ ur_offset(tl.addr, wn) \in Offsets
  <1>1. tl.addr \in Addr /\ wn.addr \in Addr
    BY DEF TLReq, Notify
  <1>2. ur_offset(tl.addr, wn) \in Offsets
    BY <1>1, LineRange DEF ur_offset
  <1>3. 0 \in Bufs
    BY DefsAssumption DEF Bufs
  <1>4. valid_all(tl.addr) \subseteq Bufs
    BY DEF valid_all, matches_all, RdbufType
  <1>5. wr_matches_all(wn) \subseteq Bufs
    BY DEF wr_matches_all, RdbufType
  <1> QED
    BY <1>2, <1>3, <1>4, <1>5 DEF ur_buf, one_hot_enc

(* One clock edge of hyperram_rdbuf preserves the types of its registers.  *)
LEMMA RdbufStepType ==
    ASSUME rb \in RdbufType, NEW tl \in TLReq, NEW wn \in Notify, NEW uf \in Ufifo,
           NEW invalidate_i, NEW update_i, NEW set_i, NEW read_i, NEW write_i,
           RdbufClock(tl, wn, invalidate_i, update_i, set_i, read_i, uf, write_i)
    PROVE  rb' \in RdbufType
  <1> DEFINE inval == (IF invalidate_i THEN matches_all(tl.addr) ELSE {})
                      \cup (IF wr_notify_invalidate(wn) THEN wr_matches_all(wn) ELSE {})
             set   == IF set_i THEN {buf_set} ELSE {}
             acc   == wr_accepted(uf, write_i)
             upd   == update_i \/ wr_notify_update(wn)
             umask == IF wr_notify_update(wn) THEN wn.mask ELSE tl.mask
             udata == IF wr_notify_update(wn) THEN wn.data ELSE tl.data
             ub    == ur_buf(tl.addr, wn)
             uo    == ur_offset(tl.addr, wn)
  <1>1. /\ tl.addr \in Addr /\ tl.data \in Word /\ wn.data \in Word
        /\ uf.data \in Word /\ buf_set \in Bufs
        /\ Line(tl.addr) \in Lines /\ Offset(tl.addr) \in Offsets
        /\ ub \in Bufs /\ uo \in Offsets /\ udata \in Word
    BY LineRange, BufSetType, UrType DEF TLReq, Notify, Ufifo
  <1>2. /\ rb.configured \in SUBSET Bufs
        /\ rb.valid \in [Bufs -> SUBSET Offsets]
        /\ rb.base_addr \in [Bufs -> Lines]
        /\ rb.woffset \in [Bufs -> Offsets]
        /\ rb.seq \in [Bufs -> SeqNums]
        /\ rb.buf_replace \in Bufs
        /\ rb.ram \in [Bufs -> [Offsets -> Word]]
        /\ rb.rdata \in Word
    BY DEF RdbufType
  <1> DEFINE configured1 == (rb.configured \ inval) \cup set
             valid1 == [b \in Bufs |-> IF b \in inval \cup set THEN {}
                                       ELSE IF b \in acc THEN rb.valid[b] \cup {rb.woffset[b]}
                                       ELSE rb.valid[b]]
             base1 == [b \in Bufs |-> IF b \in set THEN Line(tl.addr) ELSE rb.base_addr[b]]
             woffset1 == [b \in Bufs |-> IF b \in set THEN Offset(tl.addr)
                                         ELSE IF b \in acc THEN (rb.woffset[b] + 1) % BufWords
                                         ELSE rb.woffset[b]]
             seq1 == [b \in Bufs |-> IF b \in set THEN next_seq(b) ELSE rb.seq[b]]
             replace1 == IF set_i THEN (rb.buf_replace + 1) % NumBufs ELSE rb.buf_replace
             ram1 == [b \in Bufs |-> [o \in Offsets |->
                        IF write_i /\ b = uf.seq.buf /\ o = rb.woffset[b] THEN uf.data
                        ELSE IF upd /\ b = ub /\ o = uo
                        THEN Merge(rb.ram[b][o], umask, udata)
                        ELSE rb.ram[b][o]]]
             rdata1 == IF read_i /\ ~upd THEN rb.ram[ub][uo] ELSE rb.rdata
  <1>3. rb' = [configured |-> configured1, valid |-> valid1, base_addr |-> base1,
               woffset |-> woffset1, seq |-> seq1, buf_replace |-> replace1,
               ram |-> ram1, rdata |-> rdata1]
    BY Zenon DEF RdbufClock
  <1>4. configured1 \in SUBSET Bufs
    BY <1>1, <1>2
  <1>5. valid1 \in [Bufs -> SUBSET Offsets]
    BY <1>2
  <1>6. base1 \in [Bufs -> Lines]
    BY <1>1, <1>2
  <1>7. woffset1 \in [Bufs -> Offsets]
    <2>1. \A b \in Bufs : (rb.woffset[b] + 1) % BufWords \in Offsets
      BY <1>2, DefsAssumption, ModRange DEF Offsets
    <2> QED
      BY <1>1, <1>2, <2>1
  <1>8. seq1 \in [Bufs -> SeqNums]
    <2>1. \A b \in Bufs : next_seq(b) \in SeqNums
      BY <1>2, DefsAssumption, ModRange DEF SeqNums, next_seq
    <2> QED
      BY <1>2, <2>1
  <1>9. replace1 \in Bufs
    <2>1. rb.buf_replace + 1 \in Int
      BY <1>2, DefsAssumption DEF Bufs
    <2>2. (rb.buf_replace + 1) % NumBufs \in Bufs
      BY <2>1, DefsAssumption, ModRange DEF Bufs
    <2> QED
      BY <1>2, <2>2
  <1>10. ram1 \in [Bufs -> [Offsets -> Word]]
    <2>1. \A b \in Bufs, o \in Offsets : Merge(rb.ram[b][o], umask, udata) \in Word
      BY <1>1, <1>2, MergeType
    <2> QED
      BY <1>1, <1>2, <2>1
  <1>11. rdata1 \in Word
    BY <1>1, <1>2
  <1> HIDE DEF configured1, valid1, base1, woffset1, seq1, replace1, ram1, rdata1
  <1> QED
    BY <1>3, <1>4, <1>5, <1>6, <1>7, <1>8, <1>9, <1>10, <1>11 DEF RdbufType

-----------------------------------------------------------------------------
(* The write buffer keeps its types.                                       *)

(* The address after one in the window is in the window: next_addr is as   *)
(* wide as the address.                                                    *)
LEMMA NextAddrType ==
    ASSUME NEW c, c.addr \in Addr
    PROVE  next_addr(c) \in Addr
  <1>1. NumWords \in Nat \ {0}
    <2>1. 1 * BufWords <= NumLines * BufWords
      BY DefsAssumption, MulMonotonic
    <2>2. NumLines * BufWords \in Nat
      BY DefsAssumption
    <2> QED
      BY <2>1, <2>2, DefsAssumption DEF NumWords
  <1>2. c.addr + 1 \in Int
    BY <1>1 DEF Addr
  <1> QED
    BY <1>1, <1>2, ModRange DEF next_addr, Addr

(* One clock edge of hyperram_wrbuf preserves the types of its registers.  *)
LEMMA WrbufStepType ==
    ASSUME wb \in WrbufType, NEW c, NEW full, NEW gnt,
           c.addr \in Addr, c.strb \in SUBSET Lanes, c.din \in Word,
           c.req \in BOOLEAN, c.wr \in BOOLEAN,
           WrbufClock(c, full, gnt)
    PROVE  wb' \in WrbufType
  <1>1. CASE stalled(c, full, gnt)
    BY <1>1 DEF WrbufClock
  <1>2. CASE ~stalled(c, full, gnt)
    <2> DEFINE stored1 == IF wr_start(c) \/ flush_write(c) THEN wr_start(c) ELSE wb.stored
               timer1 == IF wr_start(c) \/ wr_storing(c) THEN TimerMax
                         ELSE IF wb.stored THEN (wb.timer - 1) % (TimerMax + 1)
                         ELSE wb.timer
               base1 == IF wr_start(c) \/ (wb_wr_req(c) /\ contig_below(c))
                        THEN c.addr ELSE wb.base
               len1 == IF wr_start(c) THEN 0
                       ELSE IF wb_wr_req(c) /\ (contig_above(c) \/ contig_below(c))
                       THEN next_len % BufWords ELSE wb.len
               exp1 == IF wr_start(c) \/ (wb_wr_req(c) /\ contig_above(c))
                       THEN next_addr(c) ELSE wb.exp
               strb1 == IF wr_storing(c)
                        THEN c.strb \cup (IF merge_strobes(c) THEN wb.strb ELSE {})
                        ELSE wb.strb
               data1 == IF wr_storing(c) THEN Merge(wb.data, c.strb, c.din) ELSE wb.data
    <2>1. /\ wb.stored \in BOOLEAN /\ wb.timer \in 0 .. TimerMax
          /\ wb.base \in Addr /\ wb.len \in Offsets /\ wb.exp \in Addr
          /\ wb.strb \in SUBSET Lanes /\ wb.data \in Word /\ wb.desc \in BOOLEAN
      BY DEF WrbufType
    <2>2. wb' = [stored |-> stored1, timer |-> timer1, base |-> base1, len |-> len1,
                 exp |-> exp1, strb |-> strb1, data |-> data1, desc |-> wr_descending(c)]
      BY <1>2, Zenon DEF WrbufClock
    <2>3. stored1 \in BOOLEAN /\ wr_descending(c) \in BOOLEAN
      BY <2>1, Zenon DEF wr_start, wr_descending, flush_write
    <2>4. timer1 \in 0 .. TimerMax
      <3>1. (wb.timer - 1) % (TimerMax + 1) \in 0 .. TimerMax
        <4>1. TimerMax + 1 \in Nat \ {0} /\ wb.timer - 1 \in Int
          BY <2>1, TimerAssumption
        <4>2. (wb.timer - 1) % (TimerMax + 1) \in 0 .. (TimerMax + 1) - 1
          BY <4>1, ModRange
        <4> QED
          BY <4>2, TimerAssumption
      <3> QED
        BY <2>1, <3>1, TimerAssumption
    <2>5. base1 \in Addr
      BY <2>1
    <2>6. len1 \in Offsets
      <3>1. next_len \in Int
        BY <2>1, DefsAssumption DEF next_len, Offsets
      <3>2. next_len % BufWords \in Offsets
        BY <3>1, DefsAssumption, ModRange DEF Offsets
      <3>3. 0 \in Offsets
        BY DefsAssumption DEF Offsets
      <3> QED
        BY <2>1, <3>2, <3>3
    <2>7. exp1 \in Addr
      BY <2>1, NextAddrType
    <2>8. strb1 \in SUBSET Lanes
      BY <2>1
    <2>9. data1 \in Word
      BY <2>1, MergeType
    <2> HIDE DEF stored1, timer1, base1, len1, exp1, strb1, data1
    <2> QED
      BY <2>2, <2>3, <2>4, <2>5, <2>6, <2>7, <2>8, <2>9 DEF WrbufType
  <1> QED
    BY <1>1, <1>2

-----------------------------------------------------------------------------
(* The whole port.                                                         *)

(* The request FIFO never overflows and holds well-formed entries: a push  *)
(* happens only while it has room.                                         *)
LEMMA ReqFifoStepType ==
    ASSUME PortTypeOK,
           NEW tl \in TLReq, NEW wn \in Notify, NEW uf \in Ufifo,
           NEW full \in BOOLEAN, NEW gnt \in BOOLEAN,
           NEW exp \in Word, NEW tag \in BOOLEAN,
           PortClock(tl, wn, uf, full, gnt, exp, tag)
    PROVE  reqs' \in Seq(ReqInfo) /\ Len(reqs') <= ReqDepth
  <1> DEFINE iss  == issue(tl, wn, full, gnt)
             rest == IF d_valid(uf) THEN Tail(reqs) ELSE reqs
             new  == [wr |-> wr_req(tl), fetch |-> ~(rd_req(tl) /\ rdbuf_valid(tl.addr)),
                      exp |-> exp, tag |-> tag]
  <1>1. reqs' = IF iss THEN Append(rest, new) ELSE rest
    BY Zenon DEF PortClock
  <1>2. new \in ReqInfo
    <2>1. wr_req(tl) \in BOOLEAN /\ (~(rd_req(tl) /\ rdbuf_valid(tl.addr))) \in BOOLEAN
      BY Zenon DEF TLReq, wr_req, rd_req
    <2> QED
      BY <2>1 DEF ReqInfo
  <1>3. reqs \in Seq(ReqInfo) /\ Len(reqs) <= ReqDepth /\ Len(reqs) \in Nat
    BY DEF PortTypeOK
  <1>4. d_valid(uf) => reqs # <<>>
    BY DEF d_valid
  <1>5. rest \in Seq(ReqInfo) /\ Len(rest) <= Len(reqs) /\ Len(rest) \in Nat
    <2> HIDE DEF new
    <2>1. CASE d_valid(uf)
      <3>1. Tail(reqs) \in Seq(ReqInfo) /\ Len(Tail(reqs)) = Len(reqs) - 1
        BY <1>3, <1>4, <2>1, HeadTailProperties
      <3> QED
        BY <1>3, <2>1, <3>1
    <2>2. CASE ~d_valid(uf)
      BY <1>3, <2>2
    <2> QED
      BY <2>1, <2>2
  <1>6. iss => Len(reqs) < ReqDepth
    BY DEF issue, can_accept, req_fifo_wready
  <1> HIDE DEF iss, rest, new
  <1>7. CASE iss
    <2>1. Append(rest, new) \in Seq(ReqInfo) /\ Len(Append(rest, new)) = Len(rest) + 1
      BY <1>2, <1>5, AppendProperties
    <2> QED
      BY <1>1, <1>3, <1>5, <1>6, <1>7, <2>1, PortAssumption
  <1>8. CASE ~iss
    BY <1>1, <1>3, <1>5, <1>8, PortAssumption
  <1> QED
    BY <1>7, <1>8

(* Every cycle of hbmc_tl_port, whatever its inputs, preserves the types.  *)
LEMMA PortStepType ==
    ASSUME PortTypeOK, [PortNext]_portVars
    PROVE  PortTypeOK'
  <1>1. CASE UNCHANGED portVars
    BY <1>1 DEF PortTypeOK, portVars
  <1>2. ASSUME NEW tl \in TLReq, NEW wn \in Notify, NEW uf \in Ufifo,
               NEW full \in BOOLEAN, NEW gnt \in BOOLEAN, NEW tag \in BOOLEAN,
               NEW exp \in Word, PortClock(tl, wn, uf, full, gnt, exp, tag)
        PROVE  PortTypeOK'
    <2> DEFINE iss == issue(tl, wn, full, gnt)
    <2>1. rb \in RdbufType /\ wb \in WrbufType /\ bursting \in BOOLEAN
      BY DEF PortTypeOK
    <2>2. rb' \in RdbufType
      <3>1. RdbufClock(tl, wn, rdbuf_invalidate(tl), rdbuf_update(tl), rdbuf_set(tl, iss),
                       rdbuf_re(tl, iss), uf, ufifo_rd_ena(uf))
        BY <1>2, Zenon DEF PortClock
      <3> QED
        BY <2>1, <3>1, RdbufStepType
    <2>3. wb' \in WrbufType
      <3>1. CASE SupportWrites
        <4>1. WrbufClock(wb_in(tl, full), full, gnt)
          BY <1>2, <3>1, Zenon DEF PortClock
        <4>2. tl.addr \in Addr /\ tl.mask \in SUBSET Lanes /\ tl.data \in Word
          BY DEF TLReq
        <4>3. cmd_req(tl, full) \in BOOLEAN /\ (tl.op = "Put") \in BOOLEAN
          BY Zenon DEF cmd_req
        <4>4. /\ wb_in(tl, full).addr \in Addr /\ wb_in(tl, full).strb \in SUBSET Lanes
              /\ wb_in(tl, full).din \in Word /\ wb_in(tl, full).req \in BOOLEAN
              /\ wb_in(tl, full).wr \in BOOLEAN
          BY <4>2, <4>3 DEF wb_in
        <4> QED
          BY <2>1, <4>1, <4>4, WrbufStepType
      <3>2. CASE ~SupportWrites
        <4>1. wb' = wb
          BY <1>2, <3>2, Zenon DEF PortClock
        <4> QED
          BY <2>1, <4>1
      <3> QED
        BY <3>1, <3>2
    <2>4. bursting' \in BOOLEAN
      <3>1. bursting' = IF ufifo_rd_ena(uf) THEN ~uf.last ELSE bursting
        BY <1>2, Zenon DEF PortClock
      <3> QED
        BY <2>1, <3>1, Zenon
    <2>5. reqs' \in Seq(ReqInfo) /\ Len(reqs') <= ReqDepth
      BY <1>2, ReqFifoStepType
    <2> QED
      BY <2>2, <2>3, <2>4, <2>5 DEF PortTypeOK
  <1> QED
    BY <1>1, <1>2 DEF PortNext

(* The registers start with values of their types.                         *)
LEMMA PortInitType == PortInit => PortTypeOK
  <1> SUFFICES ASSUME PortInit PROVE PortTypeOK
    OBVIOUS
  <1>1. 0 \in Lines /\ 0 \in Offsets /\ 0 \in Bufs /\ 0 \in SeqNums
    BY DefsAssumption DEF Lines, Offsets, Bufs, SeqNums
  <1>2. 0 \in Addr
    <2>1. 1 * BufWords <= NumLines * BufWords /\ NumLines * BufWords \in Nat
      BY DefsAssumption, MulMonotonic
    <2> QED
      BY <2>1, DefsAssumption DEF Addr, NumWords
  <1>3. rb \in RdbufType
    <2>1. PICK v \in [Bufs -> SUBSET Offsets] :
             rb = [configured |-> {}, valid |-> v,
                   base_addr  |-> [b \in Bufs |-> 0], woffset |-> [b \in Bufs |-> 0],
                   seq        |-> [b \in Bufs |-> 0], buf_replace |-> 0,
                   ram        |-> [b \in Bufs |-> [o \in Offsets |-> InitWord(0)]],
                   rdata      |-> InitWord(0)]
      BY DEF PortInit, RdbufInit
    <2> QED
      BY <1>1, <2>1, InitWordType DEF RdbufType
  <1>4. wb \in WrbufType
    BY <1>1, <1>2, InitWordType, TimerAssumption DEF PortInit, WrbufInit, WrbufType
  <1>5. reqs \in Seq(ReqInfo) /\ Len(reqs) <= ReqDepth
    <2>1. reqs = <<>>
      BY DEF PortInit
    <2> QED
      BY <2>1, PortAssumption
  <1> QED
    BY <1>3, <1>4, <1>5 DEF PortTypeOK, PortInit

(* Whatever the inputs do, the registers of hbmc_tl_port, of its read      *)
(* buffers and of its write buffer keep values that their widths can hold, *)
(* and the request FIFO never holds more than TL_REQ_FIFO_DEPTH requests.  *)
THEOREM PortTypeCorrect == PortSpec => []PortTypeOK
  <1>1. PortInit => PortTypeOK
    BY PortInitType
  <1>2. PortTypeOK /\ [PortNext]_portVars => PortTypeOK'
    BY PortStepType
  <1> QED
    BY <1>1, <1>2, PTL DEF PortSpec

-----------------------------------------------------------------------------
(* Uniqueness of the match.                                                *)

(* A buffer is set only when no buffer holds the line, and every other     *)
(* buffer keeps the line it has or is released.                            *)
LEMMA RdbufStepMatch ==
    ASSUME rb \in RdbufType, AtMostOneMatch,
           NEW tl, NEW wn, NEW uf,
           NEW invalidate_i, NEW update_i, NEW set_i, NEW read_i, NEW write_i,
           set_i => ~rdbuf_matches(tl.addr),
           RdbufClock(tl, wn, invalidate_i, update_i, set_i, read_i, uf, write_i)
    PROVE  AtMostOneMatch'
  <1> DEFINE inval == (IF invalidate_i THEN matches_all(tl.addr) ELSE {})
                      \cup (IF wr_notify_invalidate(wn) THEN wr_matches_all(wn) ELSE {})
             set   == IF set_i THEN {buf_set} ELSE {}
  <1>1. /\ rb'.configured = (rb.configured \ inval) \cup set
        /\ rb'.base_addr = [b \in Bufs |-> IF b \in set THEN Line(tl.addr)
                                           ELSE rb.base_addr[b]]
    BY DEF RdbufClock
  <1> HIDE DEF inval
  <1>2. buf_set \in Bufs /\ rb.configured \subseteq Bufs
    BY BufSetType DEF RdbufType
  <1> SUFFICES ASSUME NEW b \in rb'.configured, NEW c \in rb'.configured,
                      rb'.base_addr[b] = rb'.base_addr[c]
               PROVE  b = c
    BY DEF AtMostOneMatch
  <1>3. /\ b \in Bufs /\ (b \in set \/ b \in rb.configured)
        /\ c \in Bufs /\ (c \in set \/ c \in rb.configured)
    BY <1>1, <1>2
  <1>4. CASE b \in set /\ c \in set
    BY <1>4
  <1>5. CASE b \notin set /\ c \notin set
    BY <1>1, <1>3, <1>5 DEF AtMostOneMatch
  <1>6. CASE (b \in set) # (c \in set)
    <2>1. \A d \in rb.configured : rb.base_addr[d] # Line(tl.addr)
      BY <1>6 DEF rdbuf_matches, matches_all
    <2> QED
      BY <1>1, <1>3, <1>6, <2>1
  <1> QED
    BY <1>4, <1>5, <1>6

(* In no state of the port do two read buffers hold the same line, so the  *)
(* OR-combined hit tests and one_hot_enc of hyperram_rdbuf.sv are well     *)
(* defined.                                                                *)
THEOREM OneMatch == PortSpec => []AtMostOneMatch
  <1>1. PortInit => AtMostOneMatch
    BY DEF PortInit, RdbufInit, AtMostOneMatch
  <1>2. PortTypeOK /\ AtMostOneMatch /\ [PortNext]_portVars => AtMostOneMatch'
    <2> SUFFICES ASSUME PortTypeOK, AtMostOneMatch, [PortNext]_portVars
                 PROVE  AtMostOneMatch'
      OBVIOUS
    <2>1. CASE UNCHANGED portVars
      BY <2>1 DEF portVars, AtMostOneMatch
    <2>2. ASSUME NEW tl \in TLReq, NEW wn \in Notify, NEW uf \in Ufifo,
                 NEW full \in BOOLEAN, NEW gnt \in BOOLEAN, NEW tag \in BOOLEAN,
                 NEW exp \in Word, PortClock(tl, wn, uf, full, gnt, exp, tag)
          PROVE  AtMostOneMatch'
      <3> DEFINE iss == issue(tl, wn, full, gnt)
      <3>1. RdbufClock(tl, wn, rdbuf_invalidate(tl), rdbuf_update(tl), rdbuf_set(tl, iss),
                       rdbuf_re(tl, iss), uf, ufifo_rd_ena(uf))
        BY <2>2, Zenon DEF PortClock
      <3>2. rdbuf_set(tl, iss) => ~rdbuf_matches(tl.addr)
        BY DEF rdbuf_set
      <3>3. rb \in RdbufType
        BY DEF PortTypeOK
      <3> QED
        BY <3>1, <3>2, <3>3, RdbufStepMatch
    <2> QED
      BY <2>1, <2>2 DEF PortNext
  <1> QED
    BY <1>1, <1>2, PortTypeCorrect, PTL DEF PortSpec
=============================================================================
