---------------------------- MODULE HyperramRdbuf ----------------------------
(***************************************************************************)
(* hyperram_rdbuf.sv: the read buffers of one port.  Each of the NumBufs   *)
(* buffers retains one line; its words become valid as the wrapping burst  *)
(* that fetches them arrives.                                              *)
(*                                                                         *)
(* All registers of the block are one record, `rb'; the wires are          *)
(* operators of the inputs, and RdbufClock is the clock edge.              *)
(***************************************************************************)
EXTENDS HyperramDefs

CONSTANT PortID     \* portid_i

VARIABLE rb

RdbufType ==
    [configured : SUBSET Bufs,
     valid      : [Bufs -> SUBSET Offsets],
     base_addr  : [Bufs -> Lines],
     woffset    : [Bufs -> Offsets],
     seq        : [Bufs -> SeqNums],
     buf_replace : Bufs,
     ram        : [Bufs -> [Offsets -> Word]],
     rdata      : Word]

(* Reset clears `configured', `seq' and `buf_replace' only.  The validity   *)
(* flops have no reset, and a write notification consults those of every   *)
(* buffer: they start with any value.  The other registers are not read    *)
(* before they are written.                                                *)
RdbufInit ==
    \E v \in [Bufs -> SUBSET Offsets] :
       rb = [configured |-> {}, valid |-> v,
             base_addr  |-> [b \in Bufs |-> 0], woffset |-> [b \in Bufs |-> 0],
             seq        |-> [b \in Bufs |-> 0], buf_replace |-> 0,
             ram        |-> [b \in Bufs |-> [o \in Offsets |-> InitWord(0)]],
             rdata      |-> InitWord(0)]

-----------------------------------------------------------------------------
(* Hit tests for the request and for a write notification.                 *)

\* Mutant: does not ask whether the buffer is in use.
matches_all_ungated(a) == {b \in Bufs : rb.base_addr[b] = Line(a)}

matches_all(a) == {b \in rb.configured : rb.base_addr[b] = Line(a)}

valid_all(a) == {b \in matches_all(a) : Offset(a) \in rb.valid[b]}

rdbuf_matches(a) == matches_all(a) # {}

rdbuf_valid(a) == valid_all(a) # {}

wr_matches_all(wn) == {b \in rb.configured : rb.base_addr[b] = Line(wn.addr)}

\* Not qualified with `matches', not even with `configured'.
wr_valid_all(wn) == {b \in Bufs : Offset(wn.addr) \in rb.valid[b]}

wr_matches_o(wn) == wr_matches_all(wn) # {}

wr_notify_invalidate(wn) ==
    wn.valid /\ wr_matches_o(wn) /\ wr_valid_all(wn) = {}

\* Mutant: ignores notifications.
wr_notify_update_lost(wn) == FALSE

wr_notify_update(wn) ==
    wn.valid /\ wr_matches_o(wn) /\ wr_valid_all(wn) # {}

-----------------------------------------------------------------------------
(* Choice of the buffer that a new burst replaces: the lowest one that is  *)
(* free, in round-robin order when none is.                                *)

avail_lsb(b) == b \notin rb.configured /\ \A c \in Bufs : c < b => c \in rb.configured

buf_set == IF rb.configured = Bufs THEN rb.buf_replace
           ELSE CHOOSE b \in Bufs : avail_lsb(b)

\* Mutant: numbers repeat after two bursts.
next_seq_one_bit(b) == (rb.seq[b] + 1) % 2

next_seq(b) == (rb.seq[b] + 1) % NumSeqs

seq_o(set_i) ==
    IF set_i THEN [port |-> PortID, buf |-> buf_set, num |-> next_seq(buf_set)]
    ELSE SeqZero

(* Index of the single buffer in S, 0 when there is none.  For two or more *)
(* the code calls the result undefined; see AtMostOneMatch.                *)
one_hot_enc(S) == IF S = {} THEN 0 ELSE CHOOSE b \in S : TRUE

\* Buffer and offset that the TL-UL side of the RAM addresses.
ur_buf(a, wn) ==
    one_hot_enc(IF wr_notify_update(wn) THEN wr_matches_all(wn) \cap wr_valid_all(wn)
                ELSE valid_all(a))


ur_offset(a, wn) == IF wr_notify_update(wn) THEN Offset(wn.addr) ELSE Offset(a)


\* Returned data is accepted when it belongs to the content now being fetched.
\* wr_buf is declared with an initialiser (line 151), which a simulator evaluates
\* once; it is meant, and synthesised, as the field of wseq_i used here.
wr_accepted(uf, write_i) ==
    {b \in rb.configured : write_i /\ uf.seq.buf = b /\ uf.seq.num = rb.seq[b]}

(* The clock edge.  tl: the request wires; wn: the write notification;     *)
(* uf/write_i: a word drained from the Upstream FIFO by this port.  The    *)
(* HyperRAM side of the RAM stores the word whether or not it is accepted, *)
(* at the current fill offset of the buffer its sequence number names.     *)
RdbufClock(tl, wn, invalidate_i, update_i, set_i, read_i, uf, write_i) ==
    LET inval == (IF invalidate_i THEN matches_all(tl.addr) ELSE {})
                 \cup (IF wr_notify_invalidate(wn) THEN wr_matches_all(wn) ELSE {})
        set   == IF set_i THEN {buf_set} ELSE {}
        acc   == wr_accepted(uf, write_i)
        upd   == update_i \/ wr_notify_update(wn)
        umask == IF wr_notify_update(wn) THEN wn.mask ELSE tl.mask
        udata == IF wr_notify_update(wn) THEN wn.data ELSE tl.data
        ub    == ur_buf(tl.addr, wn)
        uo    == ur_offset(tl.addr, wn)
    IN  rb' = [configured |-> (rb.configured \ inval) \cup set,
               valid |-> [b \in Bufs |->
                             IF b \in inval \cup set THEN {}
                             ELSE IF b \in acc THEN rb.valid[b] \cup {rb.woffset[b]}
                             ELSE rb.valid[b]],
               base_addr |-> [b \in Bufs |-> IF b \in set THEN Line(tl.addr)
                                             ELSE rb.base_addr[b]],
               woffset |-> [b \in Bufs |-> IF b \in set THEN Offset(tl.addr)
                                           ELSE IF b \in acc
                                           THEN (rb.woffset[b] + 1) % BufWords
                                           ELSE rb.woffset[b]],
               seq |-> [b \in Bufs |-> IF b \in set THEN next_seq(b) ELSE rb.seq[b]],
               buf_replace |-> IF set_i THEN (rb.buf_replace + 1) % NumBufs
                               ELSE rb.buf_replace,
               ram |-> [b \in Bufs |-> [o \in Offsets |->
                           IF write_i /\ b = uf.seq.buf /\ o = rb.woffset[b]
                           THEN uf.data
                           ELSE IF upd /\ b = ub /\ o = uo
                           THEN Merge(rb.ram[b][o], umask, udata)
                           ELSE rb.ram[b][o]]],
               rdata |-> IF read_i /\ ~upd THEN rb.ram[ub][uo] ELSE rb.rdata]

-----------------------------------------------------------------------------
(* No two buffers hold the same line: the hit tests of hyperram_rdbuf.sv   *)
(* combine the answers of all buffers with OR, and one_hot_enc is defined  *)
(* for one match only.                                                     *)
AtMostOneMatch ==
    \A b, c \in rb.configured : rb.base_addr[b] = rb.base_addr[c] => b = c

=============================================================================
