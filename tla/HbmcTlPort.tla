----------------------------- MODULE HbmcTlPort -----------------------------
(***************************************************************************)
(* hbmc_tl_port.sv: one TL-UL port of the HyperRAM.  Reads are answered    *)
(* from the read buffers or fetched as wrapping bursts; writes, on the     *)
(* port that supports them, update or invalidate the read buffers and go   *)
(* to the write buffer.                                                    *)
(*                                                                         *)
(* A step is one cycle of clk_i.  Inputs: tl (channel A), wn (write        *)
(* notification), uf (head of the Upstream FIFO), full (Downstream FIFO    *)
(* full), gnt (grant of the command arbiter).  The host is always ready    *)
(* for responses (d_ready is 1 in the hosts of this system), so rdata_q    *)
(* is never used and is left out, as are source and size.                  *)
(***************************************************************************)
EXTENDS HyperramRdbuf, HyperramWrbuf

CONSTANTS
    SupportWrites,  \* TRUE for the data port
    ReqDepth        \* TL_REQ_FIFO_DEPTH (4 in the code)

(* The first word of a fetch is forwarded when it leaves the Upstream FIFO *)
(* and must find its request at the head of the request FIFO.  Requests    *)
(* queued between two fetches leave one per cycle while the words of the   *)
(* first burst arrive, so a burst must not be shorter than that queue.     *)
ASSUME PortAssumption ==
    /\ SupportWrites \in BOOLEAN
    /\ PortID \in {0, 1}
    /\ ReqDepth \in Nat \ {0}
    /\ ReqDepth <= BufWords + 1

VARIABLES
    reqs,       \* u_tl_req_fifo
    bursting    \* ufifo_rd_bursting

portVars == <<rb, wb, reqs, bursting>>

(* exp and tag are history values: what the host is entitled to read.      *)
ReqInfo == [wr : BOOLEAN, fetch : BOOLEAN, exp : Word, tag : BOOLEAN]

PortInit == RdbufInit /\ WrbufInit /\ reqs = <<>> /\ bursting = FALSE

-----------------------------------------------------------------------------
rd_req(tl) == tl.valid /\ tl.op = "Get"
wr_req(tl) == tl.valid /\ tl.op = "Put"

rdbuf_hit(tl) == rd_req(tl) /\ rdbuf_matches(tl.addr)


req_fifo_wready == Len(reqs) < ReqDepth

req_fifo_le1 == Len(reqs) <= 1

\* The write buffer never signals a full FIFO; without one the FIFO's own flag is used.
dfifo_wr_full(full) == ~SupportWrites /\ full

cmd_req(tl, full) ==
    /\ tl.valid
    /\ req_fifo_wready
    /\ ~rdbuf_hit(tl)
    /\ tl.op = "Get" \/ ~dfifo_wr_full(full)

wb_in(tl, full) == [req |-> cmd_req(tl, full), wr |-> tl.op = "Put",
                    addr |-> tl.addr, strb |-> tl.mask, din |-> tl.data]

cmd_wready(tl, full, gnt) ==
    IF SupportWrites THEN wb_cmd_wready_o(wb_in(tl, full), full, gnt) ELSE gnt

\* Mutant: accepts a read of a word that has not arrived.
can_accept_any_hit(tl, wn, full, gnt) ==
    /\ req_fifo_wready
    /\ (rd_req(tl) /\ rdbuf_valid(tl.addr) /\ req_fifo_le1) \/ cmd_wready(tl, full, gnt)
    /\ tl.op = "Get" \/ ~dfifo_wr_full(full)
    /\ ~(wn.valid /\ wr_matches_o(wn))

can_accept(tl, wn, full, gnt) ==
    /\ req_fifo_wready
    /\ \/ rd_req(tl) /\ rdbuf_valid(tl.addr) /\ req_fifo_le1
       \/ ~rdbuf_hit(tl) /\ cmd_wready(tl, full, gnt)
    /\ tl.op = "Get" \/ ~dfifo_wr_full(full)
    /\ ~(wn.valid /\ wr_matches_o(wn))

issue(tl, wn, full, gnt) == tl.valid /\ can_accept(tl, wn, full, gnt)


\* Applied in every cycle the write is presented, accepted or not.
rdbuf_invalidate(tl) ==
    SupportWrites /\ wr_req(tl) /\ rdbuf_matches(tl.addr) /\ ~rdbuf_valid(tl.addr)

\* Mutant: writes pass by a retained word.
rdbuf_update_never(tl) == FALSE

rdbuf_update(tl) == SupportWrites /\ wr_req(tl) /\ rdbuf_valid(tl.addr)

\* Mutant: allocates a second buffer for a line.
rdbuf_set_on_match(tl, iss) == rd_req(tl) /\ iss

\* iss stands for the wire `issue'.
rdbuf_set(tl, iss) == rd_req(tl) /\ ~rdbuf_matches(tl.addr) /\ iss

rdbuf_re(tl, iss) == rd_req(tl) /\ rdbuf_valid(tl.addr) /\ iss

-----------------------------------------------------------------------------
(* Commands and write data that leave the port.                            *)

cmd_req_o(tl, full) ==
    IF SupportWrites THEN wb_cmd_req_o(wb_in(tl, full), full) ELSE cmd_req(tl, full)

(* The sequence number is driven by the buffer being set, hence it is 0 in *)
(* a cycle in which a command is requested but the read is not issued.     *)
cmd_o(tl, full, iss) ==
    LET seq == seq_o(rdbuf_set(tl, iss))
    IN  IF SupportWrites THEN wb_cmd_o(wb_in(tl, full), seq)
        ELSE [wr |-> tl.op = "Put", addr |-> tl.addr,
              cnt |-> IF tl.op = "Get" THEN BufWords ELSE 1, seq |-> seq]

dfifo_wr_ena_o(tl, full, gnt, iss) ==
    IF SupportWrites THEN wb_dfifo_ena_o(wb_in(tl, full), full, gnt)
    ELSE iss /\ tl.op = "Put"

dfifo_o(tl, full) == IF SupportWrites THEN wb_dfifo_o(wb_in(tl, full))
                     ELSE [strb |-> tl.mask, data |-> tl.data]

\* Next value of the wr_notify_*_o registers.
wr_notify_next(tl, iss) ==
    IF SupportWrites /\ wr_req(tl) /\ iss
    THEN [valid |-> TRUE, addr |-> tl.addr, mask |-> tl.mask, data |-> tl.data]
    ELSE NoNotify

-----------------------------------------------------------------------------
(* Responses.                                                              *)


\* Only the port ID is checked here: stale data must be drained as well.
ufifo_rd_ena(uf) == uf.valid /\ uf.seq.port = PortID

\* Mutant: no response to a read buffer hit.
d_valid_fetches_only(uf) ==
    /\ reqs # <<>>
    /\ Head(reqs).wr \/ (ufifo_rd_ena(uf) /\ ~bursting)

d_valid(uf) ==
    /\ reqs # <<>>
    /\ \/ Head(reqs).wr
       \/ ufifo_rd_ena(uf) /\ ~bursting
       \/ ~Head(reqs).fetch

d_data(uf) == IF Head(reqs).fetch THEN uf.data ELSE rb.rdata

\* Mutant: write responses consume a tag.
tag_rdata_rready_writes(uf) == d_valid(uf)

tag_rdata_rready(uf) == d_valid(uf) /\ ~Head(reqs).wr

-----------------------------------------------------------------------------
(* One cycle; exp and tag are the history values of a request issued now.   *)
PortClock(tl, wn, uf, full, gnt, exp, tag) ==
    LET iss == issue(tl, wn, full, gnt)
    IN  /\ RdbufClock(tl, wn, rdbuf_invalidate(tl), rdbuf_update(tl),
                      rdbuf_set(tl, iss), rdbuf_re(tl, iss),
                      uf, ufifo_rd_ena(uf))
        /\ IF SupportWrites THEN WrbufClock(wb_in(tl, full), full, gnt)
           ELSE wb' = wb
        /\ bursting' = IF ufifo_rd_ena(uf) THEN ~uf.last ELSE bursting
        /\ LET rest == IF d_valid(uf) THEN Tail(reqs) ELSE reqs
           IN  reqs' = IF iss THEN Append(rest, [wr    |-> wr_req(tl),
                                                 fetch |-> ~(rd_req(tl) /\ rdbuf_valid(tl.addr)),
                                                 exp   |-> exp, tag |-> tag])
                       ELSE rest

-----------------------------------------------------------------------------
(* The port in an arbitrary environment: every input may have any value in *)
(* every cycle.                                                            *)
Ufifo == [valid : BOOLEAN, seq : Seqs({0, 1}), data : Word, last : BOOLEAN]

PortNext ==
    \E tl \in TLReq, wn \in Notify, uf \in Ufifo,
       full, gnt, tag \in BOOLEAN, exp \in Word :
        PortClock(tl, wn, uf, full, gnt, exp, tag)

PortSpec == PortInit /\ [][PortNext]_portVars

PortTypeOK ==
    /\ rb \in RdbufType
    /\ wb \in WrbufType
    /\ reqs \in Seq(ReqInfo) /\ Len(reqs) <= ReqDepth
    /\ bursting \in BOOLEAN

=============================================================================
