------------------------------ MODULE HbmcTlTop ------------------------------
(***************************************************************************)
(* hbmc_tl_top.sv: the data port D and the instruction port I, the command *)
(* arbiter and the FIFOs between them and the HyperRAM controller, the     *)
(* write notification from D to I, and the capability tags of D.           *)
(*                                                                         *)
(* Tick is one cycle of clk_i for everything in that clock domain.  The    *)
(* controller and the device run on their own clock: HbmcStart,            *)
(* HbmcReadWord and HbmcWriteWord interleave freely with Tick.             *)
(*                                                                         *)
(* `gold' is a history variable: the memory as the hosts see it, written   *)
(* in the order in which port D accepts writes.                            *)
(***************************************************************************)
EXTENDS HyperramDefs, SequencesExt

CONSTANTS
    TimerMax, ReqDepth,
    CmdDepth,   \* u_hbmc_cmd_fifo (4 in the code)
    TagDepth,   \* TAG_FIFO_DEPTH (4 in the code)
    ReadLatency,    \* cycles of clk_i before a started read command returns data
    Caps,       \* capability tags that the hosts write, a set of Booleans
    MaxReq      \* bound: requests that the hosts make in a behaviour

(* The first word of a fetch must not arrive before the requests ahead of  *)
(* it in the request FIFO, which leave one per cycle, have been answered:  *)
(* it would be lost.  The HyperBus access and the two clock domain         *)
(* crossings take longer than that.                                        *)
ASSUME TopAssumption ==
    /\ ReadLatency \in Nat /\ ReadLatency + 2 >= ReqDepth
    /\ CmdDepth \in Nat \ {0} /\ TagDepth \in Nat \ {0}
    /\ Caps \subseteq BOOLEAN /\ MaxReq \in Nat

DfifoDepth == BufWords          \* DFIFODepth
UfifoDepth == 2 * BufWords      \* UFIFODepth

VARIABLES
    d_rb, d_wb, d_reqs, d_bursting,     \* port D
    i_rb, i_reqs, i_bursting,           \* port I
    dreq, ireq,     \* request presented to each port, held until it is accepted
    notif,          \* wr_notify registers of port D
    cmdq,           \* command FIFO
    dfifo, ufifo,   \* Downstream and Upstream FIFOs
    hb,             \* command that the controller is executing
    mem,            \* content of the HyperRAM device
    tag_ram, tag_q, tag_fifo,           \* capability tags
    gold, nreq

dVars   == <<d_rb, d_wb, d_reqs, d_bursting>>
iVars   == <<i_rb, i_reqs, i_bursting>>
tagVars == <<tag_ram, tag_q, tag_fifo>>
vars    == <<dVars, iVars, dreq, ireq, notif, cmdq, dfifo, ufifo, hb, mem,
             tagVars, gold, nreq>>

\* Port I has no write buffer.
NoWrbuf == [stored |-> FALSE, timer |-> 0, base |-> 0, len |-> 0, exp |-> 0,
            strb |-> {}, data |-> InitWord(0), desc |-> FALSE]

D == INSTANCE HbmcTlPort WITH
        PortID <- 0, SupportWrites <- TRUE,
        rb <- d_rb, wb <- d_wb, reqs <- d_reqs, bursting <- d_bursting

I == INSTANCE HbmcTlPort WITH
        PortID <- 1, SupportWrites <- FALSE,
        rb <- i_rb, wb <- NoWrbuf, reqs <- i_reqs, bursting <- i_bursting

TagAddr(a) == a \div 2      \* one tag for 64 bits
NumTags    == (NumWords + 1) \div 2
NoTag      == [valid |-> FALSE, bit |-> FALSE]
Idle       == [state |-> "idle", addr |-> 0, left |-> 0, wait |-> 0, seq |-> SeqZero]

Init ==
    /\ D!PortInit
    /\ I!PortInit
    /\ dreq = NoReq /\ ireq = NoReq
    /\ notif = NoNotify
    /\ cmdq = <<>> /\ dfifo = <<>> /\ ufifo = <<>>
    /\ hb = Idle
    /\ mem = [p \in Phys |-> InitWord(p)]
    /\ tag_ram = [t \in 0 .. NumTags - 1 |-> FALSE]
    /\ tag_q = NoTag /\ tag_fifo = <<>>
    /\ gold = [a \in Addr |-> InitWord(a)]
    /\ nreq = 0

-----------------------------------------------------------------------------
(* Wires between the ports and the FIFOs.                                  *)

dfifo_full == Len(dfifo) = DfifoDepth

cmd_fifo_wready == Len(cmdq) < CmdDepth

\* prim_arbiter_fixed: the lower port number wins.
d_gnt == D!cmd_req_o(dreq, dfifo_full) /\ cmd_fifo_wready


i_gnt == I!cmd_req_o(ireq, dfifo_full) /\ ~D!cmd_req_o(dreq, dfifo_full)
                                       /\ cmd_fifo_wready

d_issue == D!issue(dreq, NoNotify, dfifo_full, d_gnt)

i_issue == I!issue(ireq, notif, dfifo_full, i_gnt)

ufifo_rd == IF ufifo = <<>> THEN NoUfifo
            ELSE [valid |-> TRUE, seq |-> Head(ufifo).seq,
                  data |-> Head(ufifo).data, last |-> Head(ufifo).last]

\* u_tag_rdata_fifo passes an entry through in the cycle in which it is written.
tag_queue == tag_fifo \o (IF tag_q.valid THEN <<tag_q.bit>> ELSE <<>>)

-----------------------------------------------------------------------------
(* Requests of the hosts.  A request is held until it is accepted; the     *)
(* tlul_fifo_sync in front of a port guarantees that.                      *)

Values == {[l \in Lanes |-> v] : v \in NewBytes}

DRequests ==
    {Get(a) : a \in Addr}
    \cup {Put(a, m, v, c) : a \in Addr, m \in SUBSET Lanes \ {{}}, v \in Values, c \in Caps}

IRequests == {Get(a) : a \in Addr}

PresentD(offers, d_iss) ==
    IF dreq.valid /\ ~d_iss THEN dreq' = dreq
    ELSE dreq' = NoReq \/ (nreq < MaxReq /\ dreq' \in offers)

PresentI(offers, i_iss) ==
    IF ireq.valid /\ ~i_iss THEN ireq' = ireq
    ELSE ireq' = NoReq \/ (nreq < MaxReq /\ ireq' \in offers)

CountRequests(d_iss, i_iss) ==
    nreq' = nreq + (IF dreq'.valid /\ (d_iss \/ ~dreq.valid) THEN 1 ELSE 0)
                 + (IF ireq'.valid /\ (i_iss \/ ~ireq.valid) THEN 1 ELSE 0)

-----------------------------------------------------------------------------
(* The next three operators are the clock edges of the FIFOs.              *)

CmdFifoClock(d_g, i_g, d_iss, i_iss) ==
    cmdq' = IF d_g THEN Append(cmdq, D!cmd_o(dreq, dfifo_full, d_iss))
            ELSE IF i_g THEN Append(cmdq, I!cmd_o(ireq, dfifo_full, i_iss))
            ELSE cmdq

\* A write is ignored while the FIFO is full.
DfifoClock(d_g, d_iss) ==
    dfifo' = IF D!dfifo_wr_ena_o(dreq, dfifo_full, d_g, d_iss) /\ ~dfifo_full
             THEN Append(dfifo, D!dfifo_o(dreq, dfifo_full)) ELSE dfifo

\* The ports drain every word in the cycle in which it appears.
UfifoClock ==
    ufifo' = IF D!ufifo_rd_ena(ufifo_rd) \/ I!ufifo_rd_ena(ufifo_rd)
             THEN Tail(ufifo) ELSE ufifo

(* The tag RAM is accessed when D issues a request; the bit that a read    *)
(* returns is queued one cycle later, until the read data is accepted.     *)
TagClock(d_iss) ==
    LET t    == TagAddr(dreq.addr)
        left == IF tag_queue # <<>> /\ D!tag_rdata_rready(ufifo_rd)
                THEN Tail(tag_queue) ELSE tag_queue
    IN  /\ tag_ram' = IF d_iss /\ dreq.op = "Put"
                      THEN [tag_ram EXCEPT ![t] = dreq.cap] ELSE tag_ram
        /\ tag_q' = IF d_iss /\ dreq.op = "Get"
                    THEN [valid |-> TRUE, bit |-> tag_ram[t]] ELSE NoTag
        /\ tag_fifo' = IF Len(left) > TagDepth THEN SubSeq(left, 1, TagDepth) ELSE left

(* One cycle of clk_i; the hosts may present what is offered.              *)
Cycle(d_offers, i_offers) ==
    LET d_g   == d_gnt
        i_g   == i_gnt
        d_iss == d_issue
        i_iss == i_issue
    IN  /\ D!PortClock(dreq, NoNotify, ufifo_rd, dfifo_full, d_g,
                       gold[dreq.addr], tag_ram[TagAddr(dreq.addr)])
        /\ I!PortClock(ireq, notif, ufifo_rd, dfifo_full, i_g, gold[ireq.addr], FALSE)
        /\ notif' = D!wr_notify_next(dreq, d_iss)
        /\ CmdFifoClock(d_g, i_g, d_iss, i_iss)
        /\ DfifoClock(d_g, d_iss)
        /\ UfifoClock
        /\ TagClock(d_iss)
        /\ gold' = IF d_iss /\ dreq.op = "Put"
                   THEN [gold EXCEPT ![dreq.addr] = Merge(@, dreq.mask, dreq.data)]
                   ELSE gold
        /\ hb' = [hb EXCEPT !.wait = IF @ = 0 THEN 0 ELSE @ - 1]
        /\ UNCHANGED mem
        /\ PresentD(d_offers, d_iss) /\ PresentI(i_offers, i_iss)
        /\ CountRequests(d_iss, i_iss)

Tick == Cycle(DRequests, IRequests)

-----------------------------------------------------------------------------
(* The HyperRAM controller and the device.                                 *)

\* The controller takes a command; reads come back with its sequence number.
HbmcStart ==
    /\ hb.state = "idle" /\ cmdq # <<>>
    /\ LET c == Head(cmdq)
       IN  hb' = [state |-> IF c.wr THEN "wr" ELSE "rd", addr |-> c.addr,
                  left |-> c.cnt, wait |-> IF c.wr THEN 0 ELSE ReadLatency,
                  seq |-> IF c.wr THEN SeqZero ELSE c.seq]
    /\ cmdq' = Tail(cmdq)
    /\ UNCHANGED <<dVars, iVars, dreq, ireq, notif, dfifo, ufifo, mem, tagVars, gold, nreq>>

\* Word done: read bursts wrap inside their line, write bursts are linear.
Advance == IF hb.left = 1 THEN Idle
           ELSE [hb EXCEPT !.left = @ - 1,
                           !.addr = IF hb.state = "wr" THEN @ + 1
                                    ELSE BufWords * Line(@) + ((@ + 1) % BufWords)]

HbmcReadWord ==
    /\ hb.state = "rd" /\ hb.wait = 0 /\ Len(ufifo) < UfifoDepth
    /\ ufifo' = Append(ufifo, [seq |-> hb.seq, data |-> mem[hb.addr], last |-> hb.left = 1])
    /\ hb' = Advance
    /\ UNCHANGED <<dVars, iVars, dreq, ireq, notif, cmdq, dfifo, mem, tagVars, gold, nreq>>

HbmcWriteWord ==
    /\ hb.state = "wr" /\ dfifo # <<>>
    /\ mem' = [mem EXCEPT ![hb.addr] = Merge(@, Head(dfifo).strb, Head(dfifo).data)]
    /\ dfifo' = Tail(dfifo)
    /\ hb' = Advance
    /\ UNCHANGED <<dVars, iVars, dreq, ireq, notif, cmdq, ufifo, tagVars, gold, nreq>>

Next == Tick \/ HbmcStart \/ HbmcReadWord \/ HbmcWriteWord

Spec == Init /\ [][Next]_vars

-----------------------------------------------------------------------------
Cmd   == [wr : BOOLEAN, addr : Addr, cnt : 1 .. BufWords, seq : Seqs({0, 1})]
Datum == [strb : SUBSET Lanes, data : Word]
Beat  == [seq : Seqs({0, 1}), data : Word, last : BOOLEAN]

(* Every register and FIFO of hbmc_tl_top holds a value of its width; no    *)
(* FIFO holds more than its depth.                                         *)
TypeOK ==
    /\ D!PortTypeOK /\ I!PortTypeOK
    /\ dreq \in TLReq /\ ireq \in TLReq /\ notif \in Notify
    /\ cmdq \in Seq(Cmd) /\ Len(cmdq) <= CmdDepth
    /\ dfifo \in Seq(Datum) /\ Len(dfifo) <= DfifoDepth
    /\ ufifo \in Seq(Beat) /\ Len(ufifo) <= UfifoDepth
    /\ hb \in [state : {"idle", "rd", "wr"}, addr : Phys, left : 0 .. BufWords,
               wait : 0 .. ReadLatency, seq : Seqs({0, 1})]
    /\ mem \in [Phys -> Word] /\ gold \in [Addr -> Word]
    /\ tag_ram \in [0 .. NumTags - 1 -> BOOLEAN]
    /\ tag_q \in [valid : BOOLEAN, bit : BOOLEAN]
    /\ tag_fifo \in Seq(BOOLEAN) /\ Len(tag_fifo) <= TagDepth
    /\ nreq \in 0 .. MaxReq + 1

(* A read response on port D carries the value that the preceding writes   *)
(* of that port left there, wherever those writes are held at the time:    *)
(* write buffer, FIFOs, read buffers or device (hbmc_tl_port.sv:327-350).  *)
DReadsReturnLastWrite ==
    D!d_valid(ufifo_rd) /\ ~Head(d_reqs).wr => D!d_data(ufifo_rd) = Head(d_reqs).exp

(* The same for instruction fetches on port I, which learns of writes only *)
(* through notifications (hbmc_tl_port.sv:5-7).                            *)
IReadsReturnLastWrite ==
    I!d_valid(ufifo_rd) => I!d_data(ufifo_rd) = Head(i_reqs).exp

\* Value that a valid word of D's read buffers must have; a write that is
\* presented but not yet accepted has already been merged into the buffer.
DExpected(a) ==
    IF dreq.valid /\ dreq.op = "Put" /\ dreq.addr = a
    THEN {gold[a], Merge(gold[a], dreq.mask, dreq.data)} ELSE {gold[a]}

(* Every valid word retained by D's read buffers is current, although the  *)
(* writes that changed it may not have reached the device                  *)
(* (hbmc_tl_port.sv:146-155).                                              *)
DBuffersCoherent ==
    \A b \in d_rb.configured : \A o \in d_rb.valid[b] :
        d_rb.ram[b][o] \in DExpected(BufWords * d_rb.base_addr[b] + o)

\* Sequence numbers of read bursts of a port whose first word is not yet drained.
FirstBeats(port) ==
    LET First(k) == IF k = 1 THEN ~(IF port = 0 THEN d_bursting ELSE i_bursting)
                    ELSE ufifo[k-1].last
        Mine(k)  == ufifo[k].seq.port = port
    IN  Cardinality({k \in DOMAIN ufifo : Mine(k) /\ First(k)})
        + Cardinality({k \in DOMAIN cmdq : ~cmdq[k].wr /\ cmdq[k].seq.port = port})
        + (IF hb.state = "rd" /\ hb.left = BufWords /\ hb.seq.port = port THEN 1 ELSE 0)

Fetches(q) == Cardinality({k \in DOMAIN q : q[k].fetch /\ ~q[k].wr})

(* Each read burst on its way answers exactly one waiting fetch of the     *)
(* port that asked for it: a burst without a request would answer another  *)
(* one, a request without a burst would wait for ever                      *)
(* (hbmc_tl_port.sv:244-247 and 287-297).                                  *)
FetchesMatchBursts ==
    FirstBeats(0) = Fetches(d_reqs) /\ FirstBeats(1) = Fetches(i_reqs)

(* A word that arrives for a buffer, of its current content or of one it   *)
(* has since given up, is stored where no valid word is: the RAM write is  *)
(* not gated by wr_accepted (hyperram_rdbuf.sv:225-226 and 268-273).       *)
FillsSpareValidWords ==
    ufifo # <<>> =>
        LET s == Head(ufifo).seq
            r == IF s.port = 0 THEN d_rb ELSE i_rb
        IN  r.woffset[s.buf] \notin r.valid[s.buf]

QueuedWords ==
    SumFunction([k \in DOMAIN cmdq |-> IF cmdq[k].wr THEN cmdq[k].cnt ELSE 0])
    + (IF hb.state = "wr" THEN hb.left ELSE 0)

(* The Downstream FIFO holds the words of the write commands issued so far *)
(* and the earlier words of the burst under construction, no other: the    *)
(* controller pops without checking for empty (hyperram_wrbuf.sv:74-78,    *)
(* hbmc_tl_top.sv:117-121).                                                *)
DfifoHoldsItsBursts ==
    Len(dfifo) = QueuedWords + (IF d_wb.stored THEN d_wb.len ELSE 0)

NothingInFlight ==
    ~d_wb.stored /\ dfifo = <<>> /\ cmdq = <<>> /\ hb.state = "idle"

(* When no write is held back, the device holds the last value written to  *)
(* each word, and nothing outside the window has been written              *)
(* (hyperram_wrbuf.sv:203-266).                                            *)
MemoryHoldsLastWrites ==
    NothingInFlight =>
        \A p \in Phys : mem[p] = IF p \in Addr THEN gold[p] ELSE InitWord(p)

(* At rest, every valid word retained by I's read buffers is current: a    *)
(* port must maintain coherency with any write traffic                     *)
(* (hbmc_tl_port.sv:5-7 and 332-333).                                      *)
IBuffersCurrentAtRest ==
    NothingInFlight /\ ufifo = <<>> /\ ~notif.valid =>
        \A b \in i_rb.configured : \A o \in i_rb.valid[b] :
            i_rb.ram[b][o] = gold[BufWords * i_rb.base_addr[b] + o]

(* A write notification that hits in I's read buffers is serviced at once: *)
(* the buffer that matches is either updated or given up                   *)
(* (hyperram_rdbuf.sv:98-105).                                             *)
NotificationsAreServiced ==
    [][Tick /\ notif.valid =>
          \A b \in I!wr_matches_all(notif) :
             LET o == Offset(notif.addr)
             IN  \/ b \notin i_rb'.configured
                 \/ /\ o \in i_rb'.valid[b]
                    /\ i_rb'.ram[b][o] = Merge(i_rb.ram[b][o], notif.mask, notif.data)]_vars

(* A read never passes an earlier write to its line that has not been sent *)
(* to the controller: such a write would be missing from the burst         *)
(* (hyperram_wrbuf.sv:14-15 and 132-143).                                  *)
HeldWords == IF d_wb.stored
             THEN {(d_wb.base + k) % NumWords : k \in 0 .. d_wb.len} ELSE {}

NoReadPassesHeldWrite ==
    [][\A a \in HeldWords :
          ~ ( /\ Len(cmdq') > Len(cmdq) /\ ~Last(cmdq').wr
              /\ Last(cmdq').seq.port = 0 /\ Line(Last(cmdq').addr) = Line(a))]_vars

(* The tag FIFO, whose full flag nobody looks at, never overflows and      *)
(* hands out the tag that belongs to the response                          *)
(* (hbmc_tl_top.sv:597-630).                                               *)
TagsFollowReads ==
    /\ Len(tag_queue) = Cardinality({k \in DOMAIN d_reqs : ~d_reqs[k].wr})
    /\ Len(tag_queue) <= TagDepth
    /\ D!tag_rdata_rready(ufifo_rd) => /\ tag_queue # <<>>
                                       /\ Head(tag_queue) = Head(d_reqs).tag

-----------------------------------------------------------------------------
(* Every request presented to a port is eventually accepted (neither the   *)
(* arbiter nor a stall holds it for ever), given finitely many requests.   *)
RequestsAreAccepted ==
    (dreq.valid ~> ~dreq.valid) /\ (ireq.valid ~> ~ireq.valid)

(* Every accepted request is answered (hbmc_tl_port.sv:322-350).           *)
RequestsAreAnswered == <>[](d_reqs = <<>> /\ i_reqs = <<>>)

(* Write data is not held indefinitely (hyperram_wrbuf.sv:16-20): a write  *)
(* that port D holds reaches the device.                                   *)
WritesReachMemory == d_wb.stored ~> NothingInFlight

=============================================================================
