---------------------------- MODULE HyperramWrbuf ----------------------------
(***************************************************************************)
(* hyperram_wrbuf.sv: the write buffer of the data port.  It holds back    *)
(* the last word written, sends earlier words of the burst to the          *)
(* Downstream FIFO, and issues the write command of the burst when the     *)
(* burst cannot or must not grow any further.                              *)
(*                                                                         *)
(* The registers are one record, `wb'.  The inputs are the command wires   *)
(* `c' (req, wr, addr, strb, din), `full' (dfifo_wr_full_i) and `gnt'      *)
(* (cmd_wready_i, the grant of the command arbiter).                       *)
(***************************************************************************)
EXTENDS HyperramDefs

CONSTANT TimerMax   \* {TimerW{1'b1}}: cycles a word is held (31 in the code)

ASSUME TimerAssumption == TimerMax \in Nat

VARIABLE wb

WrbufType ==
    [stored : BOOLEAN,          \* wr_stored
     timer  : 0 .. TimerMax,    \* wr_timer
     base   : Addr,             \* base_addr_stored
     len    : Offsets,          \* burst_len_m1
     exp    : Addr,             \* exp_addr
     strb   : SUBSET Lanes,     \* strb_stored
     data   : Word,             \* data_stored
     desc   : BOOLEAN]          \* wr_descending_del

\* Only `stored' and `desc' are reset; the rest is not read until a write is stored.
WrbufInit ==
    wb = [stored |-> FALSE, timer |-> 0, base |-> 0, len |-> 0, exp |-> 0,
          strb |-> {}, data |-> InitWord(0), desc |-> FALSE]

-----------------------------------------------------------------------------
wb_wr_req(c) == c.req /\ c.wr
wb_rd_req(c) == c.req /\ ~c.wr

next_addr(c) == (c.addr + 1) % NumWords     \* wraps in AW-ABIT bits

contig_above(c) == c.addr = wb.exp

\* Mutant: extends longer bursts downwards.
contig_below_any_length(c) == next_addr(c) = wb.base

contig_below(c) == next_addr(c) = wb.base /\ wb.len = 0

addr_repeated(c) == next_addr(c) = wb.exp

coalesce(c) ==
    wb_wr_req(c) /\ (contig_above(c) \/ contig_below(c) \/ addr_repeated(c))

next_len == wb.len + 1


\* Reads overtake the held burst unless they touch its first line or the line
\* of the next expected word (ReadsOvertakeWrites is 1).
addr_collision(c) ==
    wb.stored /\ (Line(c.addr) = Line(wb.base) \/ Line(c.addr) = Line(wb.exp))

rd_collision(c) == wb_rd_req(c) /\ addr_collision(c)

burst_max == wb.len = BufWords - 1 /\ wb.strb = Lanes

\* Mutant: the timer never expires.
wr_timeout_never == FALSE

wr_timeout == wb.timer = 0

flush_write(c) ==
    /\ wb.stored
    /\ \/ wb_wr_req(c) /\ ~coalesce(c)
       \/ wb.desc
       \/ burst_max
       \/ rd_collision(c)
       \/ wr_timeout

wr_start(c) == wb_wr_req(c) /\ (~wb.stored \/ flush_write(c))

wr_descending(c) == wb.stored /\ wb_wr_req(c) /\ contig_below(c)

wr_storing(c) == wb_wr_req(c) /\ ~(wb.stored /\ contig_below(c))


merge_strobes(c) == addr_repeated(c) /\ ~wr_start(c)

-----------------------------------------------------------------------------
(* Outputs to the Downstream FIFO and to the command arbiter.              *)

\* Mutant: pushes a word that is being rewritten.
wb_dfifo_ena_repeats(c) ==
    flush_write(c) \/ wr_descending(c) \/ (wb.stored /\ wr_storing(c))

wb_dfifo_ena(c) ==
    flush_write(c) \/ wr_descending(c)
                   \/ (wb.stored /\ wr_storing(c) /\ ~addr_repeated(c))

wb_cmd_req_o(c, full) ==
    (flush_write(c) /\ ~full) \/ (wb_rd_req(c) /\ ~addr_collision(c))

cmd_stalled(c, full, gnt) == wb_cmd_req_o(c, full) /\ ~gnt

dfifo_stalled(c, full) == wb_dfifo_ena(c) /\ full

stalled(c, full, gnt) == cmd_stalled(c, full, gnt) \/ dfifo_stalled(c, full)

wb_dfifo_ena_o(c, full, gnt) == wb_dfifo_ena(c) /\ ~cmd_stalled(c, full, gnt)


wb_dfifo_o(c) == IF wr_descending(c) THEN [strb |-> c.strb, data |-> c.din]
                 ELSE [strb |-> wb.strb, data |-> wb.data]

wb_cmd_o(c, seq) ==
    [wr   |-> flush_write(c),
     addr |-> IF flush_write(c) /\ ~wr_descending(c) THEN wb.base ELSE c.addr,
     cnt  |-> IF flush_write(c) THEN next_len ELSE IF c.wr THEN 1 ELSE BufWords,
     seq  |-> seq]

wb_cmd_wready_o(c, full, gnt) ==
    ~(wb_rd_req(c) /\ flush_write(c)) /\ ~(c.req /\ stalled(c, full, gnt))

-----------------------------------------------------------------------------
(* The clock edge; `stalled' freezes every register.                      *)
WrbufClock(c, full, gnt) ==
    IF stalled(c, full, gnt) THEN UNCHANGED wb
    ELSE wb' = [stored |-> IF wr_start(c) \/ flush_write(c) THEN wr_start(c) ELSE wb.stored,
                timer  |-> IF wr_start(c) \/ wr_storing(c) THEN TimerMax
                           ELSE IF wb.stored THEN (wb.timer - 1) % (TimerMax + 1)
                           ELSE wb.timer,
                base   |-> IF wr_start(c) \/ (wb_wr_req(c) /\ contig_below(c))
                           THEN c.addr ELSE wb.base,
                len    |-> IF wr_start(c) THEN 0
                           ELSE IF wb_wr_req(c) /\ (contig_above(c) \/ contig_below(c))
                           THEN next_len % BufWords ELSE wb.len,
                exp    |-> IF wr_start(c) \/ (wb_wr_req(c) /\ contig_above(c))
                           THEN next_addr(c) ELSE wb.exp,
                strb   |-> IF wr_storing(c)
                           THEN c.strb \cup (IF merge_strobes(c) THEN wb.strb ELSE {})
                           ELSE wb.strb,
                data   |-> IF wr_storing(c) THEN Merge(wb.data, c.strb, c.din) ELSE wb.data,
                desc   |-> wr_descending(c)]

=============================================================================
