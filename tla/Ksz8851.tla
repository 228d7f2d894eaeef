------------------------------- MODULE Ksz8851 -------------------------------
(***************************************************************************)
(* The Ethernet driver ksz8851.c over the legacy SPI driver, with the      *)
(* interrupt dispatch of rv_plic.c and the main loop of the demo.  A       *)
(* function of the driver is the sequence of what it does; cpu[x].prog is  *)
(* what is left of the function that context x, the main program or the    *)
(* interrupt handler, is in.  Registers are sets of bit numbers, counts    *)
(* the sets 1 .. n.  A frame has two fragments.  The chip is external: a   *)
(* command is understood at the start of a selection, and a frame raises   *)
(* the receive bit of ISR once, when it arrives.                           *)
(***************************************************************************)
EXTENDS Integers, Sequences, FiniteSets, SequencesExt

CONSTANTS TxMemory,         \* frames the transmit memory holds
          MaxArrivals,      \* bound: frames that arrive
          MaxOutputs,       \* bound: calls of ksz8851_output
          MaxPolls,         \* bound: calls of ksz8851_poll
          Undisturbed       \* whether interrupts spare the unprotected register reads

ASSUME Ksz8851Assumption == TxMemory \in Nat \ {0} /\ Undisturbed \in BOOLEAN

VARIABLES chip,             \* the KSZ8851
          spi,              \* the SPI block: transfer without data, receive FIFO
          plic,             \* gateway of the interrupt
          cpu, mie,         \* the two contexts, mstatus.MIE
          arrived, delivered, begun, sent,   \* history of frames
          outputs, polls
vars == <<chip, spi, plic, cpu, mie, arrived, delivered, begun, sent, outputs, polls>>

RxBit == 13
TxBit == 14
LinkBit == 15
AllBits == 0 .. 15
ReleaseRxErrorFrame == 0
StartDmaAccess == 3
ManualEnqueueTxQFrameEnable == 0
RxFrameValid == 15
RxErrors == {0, 1, 2, 4, 10, 11, 12, 13}

-----------------------------------------------------------------------------
(* Transactions *)

spi_set_cs(level) == <<[op |-> "cs", level |-> level]>>
\* spi_tx() and spi_rx() start a transfer when the block is idle.  A transfer out
\* has no data before the FIFO is filled; one in proceeds by itself.
spi_tx(step) == <<[op |-> "start"], step>>
spi_rx == <<[op |-> "rx"], [op |-> "take"]>>
Command(rw, reg) == spi_tx([op |-> "cmd", rw |-> rw, reg |-> reg])

ksz8851_reg_read(reg) == spi_set_cs(0) \o Command("read", reg) \o spi_rx \o spi_set_cs(1)
\* The value is made of the one read last, if it is kept, and of constants.
Written(reg, keep, on, off) ==
    spi_set_cs(0) \o Command("write", reg)
    \o spi_tx([op |-> "out", keep |-> keep, on |-> on, off |-> off]) \o spi_set_cs(1)
ksz8851_reg_write(reg, val) == Written(reg, FALSE, val, {})
ksz8851_reg_set(reg, mask) == ksz8851_reg_read(reg) \o Written(reg, TRUE, mask, {})
ksz8851_reg_clear(reg, mask) == ksz8851_reg_read(reg) \o Written(reg, TRUE, {}, mask)

-----------------------------------------------------------------------------
(* The functions *)

\* MIE is read, and cleared if the mask has it.
\* Mutant: the mask is empty.
arch_local_irq_save_never == <<[op |-> "save", mask |-> FALSE]>>
arch_local_irq_save == <<[op |-> "save", mask |-> TRUE]>>
arch_local_irq_restore == <<[op |-> "restore"]>>

\* ksz8851_output(), from the check for room on; id is the frame.
ksz8851_output(id) == ksz8851_reg_read("TXMIR") \o <<[op |-> "room", id |-> id]>>
transmit(id) ==
    arch_local_irq_save \o <<[op |-> "begin", id |-> id]>>
    \o ksz8851_reg_set("RXQCR", {StartDmaAccess})
    \o spi_set_cs(0) \o Command("dma_write", "none")
    \o spi_tx([op |-> "frag", part |-> <<id, 1>>]) \o spi_tx([op |-> "frag", part |-> <<id, 2>>])
    \o spi_set_cs(1)
    \o ksz8851_reg_clear("RXQCR", {StartDmaAccess})
    \o ksz8851_reg_set("TXQCR", {ManualEnqueueTxQFrameEnable})
    \o arch_local_irq_restore

ksz8851_drop_error_frame ==
    ksz8851_reg_set("RXQCR", {ReleaseRxErrorFrame}) \o ksz8851_reg_read("RXQCR") \o <<[op |-> "dropped"]>>

\* ksz8851_recv(): the frames are counted once, then taken one by one.
ksz8851_recv == ksz8851_reg_read("RXFCTR") \o <<[op |-> "frames"]>>
frame_status == ksz8851_reg_read("RXFHSR") \o <<[op |-> "status"]>>
frame_length == ksz8851_reg_read("RXFHBCR") \o <<[op |-> "length"]>>
\* Mutant: the frame pointer is not reset.
frame_data_no_reset ==
    ksz8851_reg_set("RXQCR", {StartDmaAccess})
    \o spi_set_cs(0) \o Command("dma_read", "none") \o <<[op |-> "data"], [op |-> "data"]>> \o spi_set_cs(1)
    \o ksz8851_reg_clear("RXQCR", {StartDmaAccess}) \o <<[op |-> "input"]>>
frame_data ==
    ksz8851_reg_write("RXFDPR", {14}) \o ksz8851_reg_set("RXQCR", {StartDmaAccess})
    \o spi_set_cs(0) \o Command("dma_read", "none") \o <<[op |-> "data"], [op |-> "data"]>> \o spi_set_cs(1)
    \o ksz8851_reg_clear("RXQCR", {StartDmaAccess}) \o <<[op |-> "input"]>>

ksz8851_poll ==
    arch_local_irq_save \o ksz8851_reg_read("ISR") \o <<[op |-> "poll"]>> \o arch_local_irq_restore

ksz8851_irq_handler == ksz8851_reg_read("ISR") \o <<[op |-> "handler"]>>
\* Mutant: the interrupts are acknowledged after they have been handled.
acknowledge_late(isr) == (IF RxBit \in isr THEN ksz8851_recv ELSE <<>>) \o ksz8851_reg_write("ISR", isr)
\* What the handler does about the interrupts it found.
acknowledge(isr) == ksz8851_reg_write("ISR", isr) \o (IF RxBit \in isr THEN ksz8851_recv ELSE <<>>)

rv_plic_handler == <<[op |-> "claim"]>>

\* The writes that only configure the chip are left out.
ksz8851_init ==
    ksz8851_reg_read("CIDER") \o <<[op |-> "chip_id"]>>
    \o ksz8851_reg_write("RXQCR", {4, 5})
    \o ksz8851_reg_write("ISR", AllBits) \o ksz8851_reg_write("IER", {RxBit, TxBit, LinkBit})
    \o ksz8851_reg_set("RXCR1", {0})
    \o <<[op |-> "rv_plic_enable"]>>

-----------------------------------------------------------------------------
(* The chip (external) *)

RegRead(reg) ==
    CASE reg = "TXMIR" -> 1 .. TxMemory - Len(chip.txq)
      [] reg = "RXFCTR" -> 1 .. Len(chip.rxq)
      [] reg = "RXFHSR" -> IF chip.rxq = <<>> THEN {} ELSE Head(chip.rxq).status
      [] reg = "RXFHBCR" -> IF chip.rxq = <<>> THEN {} ELSE 1 .. Head(chip.rxq).len
      [] reg = "ISR" -> chip.isr
      [] reg = "RXQCR" -> chip.rxqcr
      [] reg = "CIDER" -> IF chip.id THEN {4, 5, 6, 11, 15} ELSE AllBits
      [] OTHER -> {}

\* A frame that finds no room is lost.
RegWrite(reg, v) ==
    CASE reg = "ISR" -> [chip EXCEPT !.isr = @ \ v]
      [] reg = "IER" -> [chip EXCEPT !.ier = v]
      [] reg = "RXQCR" -> [chip EXCEPT !.rxqcr = v]
      [] reg = "RXFDPR" -> [chip EXCEPT !.rxptr = 0]
      [] reg = "RXCR1" -> [chip EXCEPT !.rxen = 0 \in v]
      [] reg = "TXQCR" /\ ManualEnqueueTxQFrameEnable \in v ->
            IF Len(chip.txq) < TxMemory THEN [chip EXCEPT !.txq = Append(@, chip.txbuf), !.txbuf = <<>>]
            ELSE [chip EXCEPT !.lost = Append(@, chip.txbuf), !.txbuf = <<>>]
      [] OTHER -> chip

\* A selection starts a command; a deselection ends it, and with it a frame that
\* has been read to its end.
ChipSelect(level) ==
    IF level = chip.cs THEN chip
    ELSE IF level = 0 THEN [chip EXCEPT !.cs = 0, !.rw = "command"]
    ELSE [chip EXCEPT !.cs = 1, !.rw = "none",
                      !.rxq = IF chip.rw = "dma_read" /\ chip.rxptr = 2 THEN Tail(@) ELSE @]

\* A command in the data of another one is data.
ChipCommand(rw, reg) ==
    CASE chip.rw = "command" -> [chip EXCEPT !.rw = rw, !.reg = reg,
                                             !.txbuf = IF rw = "dma_write" THEN <<>> ELSE @]
      [] chip.rw = "dma_write" -> [chip EXCEPT !.txbuf = Append(@, <<0, 0>>)]
      [] OTHER -> chip

Dma == StartDmaAccess \in chip.rxqcr

irq_line == chip.isr \cap chip.ier # {}

-----------------------------------------------------------------------------
(* Steps of a context *)

ctx == IF cpu["irq"].prog # <<>> THEN "irq" ELSE "main"
me == cpu[ctx]
step == Head(me.prog)
rest == Tail(me.prog)
Doing(op) == me.prog # <<>> /\ step.op = op
Goto(p) == cpu' = [cpu EXCEPT ![ctx].prog = p]

cs_write ==
    /\ Doing("cs") /\ chip' = ChipSelect(step.level) /\ Goto(rest)
    /\ UNCHANGED <<spi, plic, mie, arrived, delivered, begun, sent, outputs, polls>>

\* spi_wait_idle(), CONTROL and START of a transfer out.
tx_start ==
    /\ Doing("start") /\ ~spi.busy
    /\ spi' = [spi EXCEPT !.busy = TRUE] /\ Goto(rest)
    /\ UNCHANGED <<chip, plic, mie, arrived, delivered, begun, sent, outputs, polls>>

\* The FIFO is filled: a command, a register or a fragment of a frame goes out.
tx_fill ==
    /\ Doing("cmd") \/ Doing("out") \/ Doing("frag")
    /\ spi' = [spi EXCEPT !.busy = FALSE] /\ Goto(rest)
    /\ chip' = CASE chip.cs = 1 -> chip
                 [] step.op = "cmd" -> ChipCommand(step.rw, step.reg)
                 [] step.op = "out" /\ chip.rw = "write" ->
                      RegWrite(chip.reg, ((IF step.keep THEN me.val ELSE {}) \cup step.on) \ step.off)
                 [] step.op = "frag" /\ chip.rw = "dma_write" /\ Dma ->
                      [chip EXCEPT !.txbuf = Append(@, step.part)]
                 [] OTHER -> chip
    /\ UNCHANGED <<plic, mie, arrived, delivered, begun, sent, outputs, polls>>

\* A register comes in; without a read under way it is anything.
rx_start ==
    /\ Doing("rx") /\ ~spi.busy
    /\ \E v \in IF chip.cs = 0 /\ chip.rw = "read" THEN {RegRead(chip.reg)} ELSE {{}, AllBits} :
          spi' = [spi EXCEPT !.rx = Append(@, v)]
    /\ Goto(rest)
    /\ UNCHANGED <<chip, plic, mie, arrived, delivered, begun, sent, outputs, polls>>
rx_take ==
    /\ Doing("take") /\ spi.rx # <<>>
    /\ spi' = [spi EXCEPT !.rx = Tail(@)]
    /\ cpu' = [cpu EXCEPT ![ctx].prog = rest, ![ctx].val = Head(spi.rx)]
    /\ UNCHANGED <<chip, plic, mie, arrived, delivered, begun, sent, outputs, polls>>

irq_save ==
    /\ Doing("save") /\ mie' = (mie /\ ~step.mask)
    /\ cpu' = [cpu EXCEPT ![ctx].prog = rest, ![ctx].flags = Append(@, mie)]
    /\ UNCHANGED <<chip, spi, plic, arrived, delivered, begun, sent, outputs, polls>>
\* The saved state was a state of MIE; it is only ever set again.
irq_restore ==
    /\ Doing("restore") /\ mie' = (mie \/ Last(me.flags))
    /\ cpu' = [cpu EXCEPT ![ctx].prog = rest, ![ctx].flags = Front(@)]
    /\ UNCHANGED <<chip, spi, plic, arrived, delivered, begun, sent, outputs, polls>>

\* The decisions of the functions, from the value read last.
chosen ==
    CASE step.op = "chip_id" -> IF me.val = {4, 5, 6, 11, 15} THEN rest ELSE <<>>
      [] step.op = "room" -> IF me.val = {} THEN ksz8851_output(step.id) \o rest ELSE transmit(step.id) \o rest
      [] step.op = "frames" -> FlattenSeq([i \in 1 .. Cardinality(me.val) |-> frame_status]) \o rest
      [] step.op = "status" -> IF RxFrameValid \in me.val /\ me.val \cap RxErrors = {}
                               THEN frame_length \o rest ELSE ksz8851_drop_error_frame \o rest
      [] step.op = "length" -> (IF me.val = {} THEN ksz8851_drop_error_frame ELSE frame_data) \o rest
      [] step.op = "dropped" -> IF ReleaseRxErrorFrame \in me.val
                                THEN ksz8851_reg_read("RXQCR") \o me.prog ELSE rest
      [] step.op = "handler" -> IF me.val = {} THEN rest ELSE acknowledge(me.val) \o rest
      [] step.op = "poll" -> IF RxBit \in me.val
                             THEN ksz8851_reg_write("ISR", {RxBit}) \o ksz8851_recv \o rest ELSE rest
decide ==
    /\ me.prog # <<>>
    /\ step.op \in {"chip_id", "room", "frames", "status", "length", "dropped", "handler", "poll"}
    /\ Goto(chosen)
    /\ UNCHANGED <<chip, spi, plic, mie, arrived, delivered, begun, sent, outputs, polls>>

begin_transmit ==
    /\ Doing("begin") /\ begun' = Append(begun, step.id) /\ Goto(rest)
    /\ UNCHANGED <<chip, spi, plic, mie, arrived, delivered, sent, outputs, polls>>

\* A fragment of a frame comes in.
rx_data ==
    /\ Doing("data") /\ ~spi.busy
    /\ LET more == chip.cs = 0 /\ chip.rw = "dma_read" /\ Dma /\ chip.rxptr < 2 /\ chip.rxq # <<>>
       IN  /\ cpu' = [cpu EXCEPT ![ctx].prog = rest,
                        ![ctx].frame = Append(@, IF more THEN <<Head(chip.rxq).id, chip.rxptr + 1>> ELSE <<0, 0>>)]
           /\ chip' = IF more THEN [chip EXCEPT !.rxptr = @ + 1] ELSE chip
    /\ UNCHANGED <<spi, plic, mie, arrived, delivered, begun, sent, outputs, polls>>

\* netif->input(): the stack may answer at once.
input ==
    /\ Doing("input")
    /\ delivered' = Append(delivered, me.frame)
    /\ \/ cpu' = [cpu EXCEPT ![ctx].prog = rest, ![ctx].frame = <<>>] /\ UNCHANGED outputs
       \/ /\ outputs < MaxOutputs /\ outputs' = outputs + 1
          /\ cpu' = [cpu EXCEPT ![ctx].prog = ksz8851_output(outputs + 1) \o rest, ![ctx].frame = <<>>]
    /\ UNCHANGED <<chip, spi, plic, mie, arrived, begun, sent, polls>>

\* rv_plic_handler(): claims until there is nothing left, then returns.
claim ==
    /\ Doing("claim")
    /\ \/ /\ plic.ip
          /\ plic' = [plic EXCEPT !.ip = FALSE, !.claimed = TRUE]
          /\ Goto(ksz8851_irq_handler \o <<[op |-> "complete"]>> \o me.prog)
          /\ UNCHANGED mie
       \/ /\ ~plic.ip
          /\ Goto(rest) /\ mie' = TRUE
          /\ UNCHANGED plic
    /\ UNCHANGED <<chip, spi, arrived, delivered, begun, sent, outputs, polls>>
complete ==
    /\ Doing("complete") /\ plic' = [plic EXCEPT !.claimed = FALSE] /\ Goto(rest)
    /\ UNCHANGED <<chip, spi, mie, arrived, delivered, begun, sent, outputs, polls>>
rv_plic_enable ==
    /\ Doing("rv_plic_enable") /\ plic' = [plic EXCEPT !.enabled = TRUE] /\ Goto(rest)
    /\ UNCHANGED <<chip, spi, mie, arrived, delivered, begun, sent, outputs, polls>>

CpuStep == \/ cs_write \/ tx_start \/ tx_fill \/ rx_start \/ rx_take \/ irq_save \/ irq_restore \/ decide
           \/ begin_transmit \/ rx_data \/ input \/ claim \/ complete \/ rv_plic_enable

\* The interrupt is taken between two steps of the main program.
Interrupt ==
    /\ mie /\ plic.ip /\ ctx = "main"
    /\ Undisturbed => chip.cs = 1
    /\ mie' = FALSE
    /\ cpu' = [cpu EXCEPT !["irq"].prog = rv_plic_handler]
    /\ UNCHANGED <<chip, spi, plic, arrived, delivered, begun, sent, outputs, polls>>

\* The main loop: the timeouts of the stack send frames, and ksz8851_poll() may
\* be called too.
MainOutput ==
    /\ me.prog = <<>> /\ plic.enabled /\ outputs < MaxOutputs
    /\ outputs' = outputs + 1
    /\ Goto(ksz8851_output(outputs + 1))
    /\ UNCHANGED <<chip, spi, plic, mie, arrived, delivered, begun, sent, polls>>
MainPoll ==
    /\ me.prog = <<>> /\ plic.enabled /\ polls < MaxPolls
    /\ polls' = polls + 1
    /\ Goto(ksz8851_poll)
    /\ UNCHANGED <<chip, spi, plic, mie, arrived, delivered, begun, sent, outputs>>

-----------------------------------------------------------------------------
(* The chip and the interrupt controller by themselves *)

ChipOnly == UNCHANGED <<spi, plic, cpu, mie, delivered, begun, outputs, polls>>
Arrive ==
    /\ chip.rxen /\ Len(arrived) < MaxArrivals
    /\ \E f \in {[status |-> {RxFrameValid}, len |-> 1], [status |-> {RxFrameValid, 0}, len |-> 1],
                 [status |-> {RxFrameValid}, len |-> 0]} :
         LET frame == [id |-> Len(arrived) + 1, status |-> f.status, len |-> f.len]
         IN  /\ arrived' = Append(arrived, frame)
             /\ chip' = [chip EXCEPT !.rxq = Append(@, frame), !.isr = @ \cup {RxBit}]
    /\ ChipOnly /\ UNCHANGED sent
SendFrame ==
    /\ chip.txq # <<>>
    /\ sent' = Append(sent, Head(chip.txq))
    /\ chip' = [chip EXCEPT !.txq = Tail(@), !.isr = @ \cup {TxBit}]
    /\ ChipOnly /\ UNCHANGED arrived
ReleaseFrame ==
    /\ ReleaseRxErrorFrame \in chip.rxqcr
    /\ chip' = [chip EXCEPT !.rxqcr = @ \ {ReleaseRxErrorFrame}, !.rxq = IF @ = <<>> THEN @ ELSE Tail(@)]
    /\ ChipOnly /\ UNCHANGED <<arrived, sent>>
\* A level that is seen is remembered until it is claimed, and not looked at
\* again until it is completed.
Gateway ==
    /\ irq_line /\ plic.enabled /\ ~plic.ip /\ ~plic.claimed
    /\ plic' = [plic EXCEPT !.ip = TRUE]
    /\ UNCHANGED <<chip, spi, cpu, mie, arrived, delivered, begun, sent, outputs, polls>>

Init ==
    /\ \E id \in BOOLEAN :
         chip = [id |-> id, cs |-> 1, rw |-> "none", reg |-> "none", isr |-> {}, ier |-> {}, rxqcr |-> {},
                 rxen |-> FALSE, rxq |-> <<>>, rxptr |-> 0, txbuf |-> <<>>, txq |-> <<>>, lost |-> <<>>]
    /\ spi = [busy |-> FALSE, rx |-> <<>>]
    /\ plic = [ip |-> FALSE, claimed |-> FALSE, enabled |-> FALSE]
    /\ cpu = [x \in {"main", "irq"} |->
                [prog |-> IF x = "main" THEN ksz8851_init ELSE <<>>, val |-> {}, frame |-> <<>>, flags |-> <<>>]]
    /\ mie = TRUE
    /\ arrived = <<>> /\ delivered = <<>> /\ begun = <<>> /\ sent = <<>>
    /\ outputs = 0 /\ polls = 0

Finished == me.prog = <<>> /\ UNCHANGED vars
Next == \/ CpuStep \/ Interrupt \/ MainOutput \/ MainPoll \/ Arrive \/ SendFrame
        \/ ReleaseFrame \/ Gateway \/ Finished

\* The processor runs and takes interrupts, the chip sends and releases frames.
Spec == /\ Init /\ [][Next]_vars
        /\ WF_vars(CpuStep) /\ WF_vars(Interrupt) /\ WF_vars(Gateway)
        /\ WF_vars(SendFrame) /\ WF_vars(ReleaseFrame)

-----------------------------------------------------------------------------
Whole(id) == <<<<id, 1>>, <<id, 2>>>>
Good(f) == f.status = {RxFrameValid} /\ f.len > 0

\* The stack is given the good frames that arrived, whole, in order and once each:
\* whatever the chip receives between the reads of the interrupt status, of the
\* count and of the headers, and whether they are polled for or interrupt
\* (ksz8851_recv).
FramesInOrder ==
    IsPrefix(delivered, LET good == SelectSeq(arrived, Good) IN [i \in 1 .. Len(good) |-> Whole(good[i].id)])

\* The chip is given the frames of ksz8851_output whole, in order and once each,
\* although the interrupt handler transmits too; but for those it has no room
\* for.
FramesGoOutWhole ==
    LET done == sent \o chip.txq
        kept == SelectSeq(begun, LAMBDA id : Whole(id) \notin ToSet(chip.lost))
    IN  /\ \A i \in 1 .. Len(done) : done[i] = Whole(kept[i])
        /\ \A i \in 1 .. Len(chip.lost) : chip.lost[i] \in {Whole(id) : id \in ToSet(begun)}
        /\ cpu["main"].prog = <<>> /\ cpu["irq"].prog = <<>> => Len(done) = Len(kept)

\* "Wait until transmit buffer is available.", ksz8851_output says.  The handler
\* may use the room up between the check and the transmission.
OutputFitsTheBuffer == chip.lost = <<>>

\* Every frame that arrives leaves the chip: a frame that arrives while others are
\* being handled is counted, or interrupts again (acknowledgement before the
\* count in ksz8851_irq_handler).
FramesAreTaken == \A n \in 1 .. MaxArrivals : (Len(arrived) >= n) ~> (\A i \in 1 .. Len(chip.rxq) : chip.rxq[i].id # n)
=============================================================================
