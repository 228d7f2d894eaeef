------------------------------ MODULE SpiSystem ------------------------------
(***************************************************************************)
(* An SPI block, the device on its bus and the software that drives it:    *)
(* either the legacy driver (sw/legacy/common/spi.c), whose spi_tx returns *)
(* while its transfer is still under way, or the class Spi of the HAL      *)
(* (sw/legacy/hal/spi.hh), which resets the block and then writes.         *)
(*                                                                         *)
(* Each action is a cycle of clk_i.  The software makes one register       *)
(* access in a cycle, or none (Clock).                                     *)
(***************************************************************************)
EXTENDS Spi

CONSTANTS
    LegacyDepth, LegacyAvail,   \* 128 and 120 in spi_tx
    HalDepth,                   \* 8 in blocking_write
    SendBytes, AnswerBytes,     \* the bytes that the software and the device send
    Apis,                       \* SUBSET {"legacy", "hal"}: the software to consider
    TxLens, RxLens, HalLens,    \* lengths of the calls
    MaxFrames,                  \* bound: bytes requested in a behaviour
    MaxSelects                  \* bound: times the device is selected

ASSUME SpiSystemAssumption ==
    /\ SendBytes \subseteq Byte /\ AnswerBytes \subseteq Byte
    /\ TxLens \cup RxLens \cup HalLens \subseteq 1..ByteCounts - 1
    /\ LegacyDepth \in Nat /\ LegacyAvail \in Nat \ {0} /\ HalDepth \in Nat
    /\ Apis \subseteq {"legacy", "hal"}
    /\ MaxFrames \in Nat /\ MaxSelects \in Nat

VARIABLES
    drv,            \* the software: program counter and locals
    dev, received, answers,
    expected,       \* for the properties: the bytes the device is to receive
    got,            \* data[] of the current spi_rx
    rx_base         \* for the properties: bytes requested before that spi_rx

D == INSTANCE SpiDevice

vars == <<spiVars, drv, dev, received, answers, expected, got, rx_base>>

DrvType ==
    [api : {"legacy", "hal"}, pc : {"reset", "ready", "wait", "control", "start", "fill", "drain", "end"},
     call : {"spi_tx", "spi_rx", "blocking_write"}, i : 0..MaxFrames, len : 0..MaxFrames,
     avail : 0..LegacyDepth + HalDepth, selects : 0..MaxSelects]

Init ==
    /\ SpiInit /\ D!DevInit
    \* The device works in the two modes that sample on the rising edge.
    /\ cfg.cpha <=> cfg.cpol = 1
    /\ \E a \in Apis :
          drv = [api |-> a, pc |-> IF a = "hal" THEN "reset" ELSE "ready",
                 call |-> IF a = "hal" THEN "blocking_write" ELSE "spi_tx",
                 i |-> 0, len |-> 0, avail |-> 0, selects |-> 0]
    /\ expected = <<>> /\ got = <<>> /\ rx_base = 0

-----------------------------------------------------------------------------
(* One cycle: the block takes the access, the device sees the wires.       *)
Cycle(acc) ==
    /\ SpiClock(acc, dev.cipo)
    /\ D!DevStep(sc.clk, sc'.clk, spi_copi_o, cs, cs')

Clock == Cycle(NoAccess) /\ UNCHANGED <<drv, expected, got, rx_base>>

Goto(pc) == drv' = [drv EXCEPT !.pc = pc]

(* The constructor of Spi clears both FIFOs and resets the core.           *)
Construct ==
    /\ drv.pc = "reset"
    /\ Cycle(WriteControl(FALSE, FALSE, TRUE))
    /\ Goto("ready")
    /\ UNCHANGED <<expected, got, rx_base>>

(* spi_set_cs and chip_select_assert.  A device is deselected only once    *)
(* what it was sent has gone out: after spi_wait_idle, as in ksz8851.c,    *)
(* or straight after the last byte of spi_rx has been read.                *)
SetCs(level) ==
    /\ drv.pc = "ready" /\ cs # level
    /\ level = 1 => idle_o \/ drv.call = "spi_rx"
    /\ level = 0 => drv.selects < MaxSelects
    /\ Cycle(WriteCs(level))
    /\ drv' = [drv EXCEPT !.selects = IF level = 0 THEN @ + 1 ELSE @]
    /\ UNCHANGED <<expected, got, rx_base>>

(* Entry of spi_tx, spi_rx (which wait for the block) and blocking_write   *)
(* (which does not).                                                       *)
Enter(call, len) ==
    /\ drv.pc = "ready" /\ cs = 0
    /\ Len(expected) + len <= MaxFrames
    /\ Cycle(NoAccess)
    /\ drv' = [drv EXCEPT !.pc = IF call = "blocking_write" THEN "control" ELSE "wait",
                          !.call = call, !.i = 0, !.len = len, !.avail = 0]
    /\ UNCHANGED <<expected, got, rx_base>>

CallTx == \E n \in TxLens : drv.api = "legacy" /\ Enter("spi_tx", n)

CallRx == \E n \in RxLens : drv.api = "legacy" /\ Enter("spi_rx", n)

CallWrite == \E n \in HalLens : drv.api = "hal" /\ Enter("blocking_write", n)

\* spi_wait_idle
WaitIdle ==
    /\ drv.pc = "wait"
    /\ Cycle(ReadStatus)
    /\ IF idle_o THEN Goto("control") ELSE UNCHANGED drv
    /\ UNCHANGED <<expected, got, rx_base>>

(* CONTROL: spi_tx writes 4 and spi_rx 8, blocking_write sets TX_ENABLE.   *)
SetControl ==
    /\ drv.pc = "control"
    /\ Cycle(WriteControl(drv.call # "spi_rx",
                          drv.call = "spi_rx" \/ (drv.call = "blocking_write" /\ control.rx_enable),
                          FALSE))
    /\ Goto("start")
    /\ UNCHANGED <<expected, got, rx_base>>

(* START.  While it only receives, the block sends the idle level.         *)
SetStart ==
    /\ drv.pc = "start"
    /\ Cycle(WriteStart(drv.len))
    /\ IF drv.call = "spi_rx"
       THEN /\ Goto("drain") /\ got' = <<>> /\ rx_base' = Len(expected)
            /\ expected' = expected \o [j \in 1..drv.len |-> [i \in 1..ByteBits |-> cfg.copi_idle]]
       ELSE Goto("fill") /\ UNCHANGED <<expected, got, rx_base>>

-----------------------------------------------------------------------------
(* The loop that fills the transmit FIFO.                                  *)

filling == drv.pc = "fill" /\ drv.i < drv.len

\* Mutant: the FIFO taken for one byte larger than it is.
reckoned_one_more == IF drv.call = "spi_tx" THEN LegacyDepth - Len(tx_fifo)
                     ELSE HalDepth + 1 - Len(tx_fifo)

\* The room the software reckons with after reading TX_FIFO_LEVEL.
reckoned == IF drv.call = "spi_tx" THEN LegacyDepth - Len(tx_fifo) ELSE HalDepth - Len(tx_fifo)

enough(a) == IF drv.call = "spi_tx" THEN a >= LegacyAvail ELSE a > 0

PollTxLevel ==
    /\ filling /\ drv.avail = 0
    /\ Cycle(ReadStatus)
    /\ drv' = [drv EXCEPT !.avail = IF enough(reckoned) THEN reckoned ELSE 0]
    /\ UNCHANGED <<expected, got, rx_base>>

PushByte ==
    /\ filling /\ drv.avail > 0
    /\ \E b \in SendBytes :
          Cycle(WriteTxFifo(b)) /\ expected' = Append(expected, Ordered(b))
    /\ drv' = [drv EXCEPT !.i = @ + 1, !.avail = @ - 1]
    /\ UNCHANGED <<got, rx_base>>

\* spi_tx returns at once, blocking_write when the block is idle.
Filled ==
    /\ drv.pc = "fill" /\ drv.i = drv.len
    /\ Cycle(IF drv.call = "spi_tx" THEN NoAccess ELSE ReadStatus)
    /\ IF drv.call = "spi_tx" \/ idle_o THEN Goto("ready") ELSE UNCHANGED drv
    /\ UNCHANGED <<expected, got, rx_base>>

(* The loop that drains the receive FIFO.                                  *)

PollRxLevel ==
    /\ drv.pc = "drain"
    /\ Cycle(ReadStatus)
    /\ IF rx_fifo # <<>> THEN Goto("end") ELSE UNCHANGED drv
    /\ UNCHANGED <<expected, got, rx_base>>

PopByte ==
    /\ drv.pc = "end"
    /\ Cycle(ReadRxFifo)
    /\ got' = Append(got, Head(rx_fifo))
    /\ drv' = [drv EXCEPT !.i = @ + 1, !.pc = IF drv.i + 1 = drv.len THEN "ready" ELSE "drain"]
    /\ UNCHANGED <<expected, rx_base>>

Software ==
    \/ Construct \/ SetCs(0) \/ SetCs(1) \/ CallTx \/ CallRx \/ CallWrite
    \/ WaitIdle \/ SetControl \/ SetStart \/ PollTxLevel \/ PushByte \/ Filled
    \/ PollRxLevel \/ PopByte

Next == Clock \/ Software

(* The clock runs, and software that is inside a call goes on.             *)
Calling == drv.pc # "ready" /\ Software

Spec == Init /\ [][Next]_vars /\ WF_vars(Clock) /\ WF_vars(Calling)

-----------------------------------------------------------------------------
(* Properties.                                                             *)

(* Every register of the block, of the device and of the software keeps to *)
(* its width; the FIFOs keep to their depths.                              *)
SpiTypeOK ==
    /\ sc \in SpiCoreType /\ cfg \in CfgType /\ control \in ControlType /\ cs \in Bit
    /\ tx_fifo \in UNION {[1..n -> Byte] : n \in 0..TxFifoDepth}
    /\ rx_fifo \in UNION {[1..n -> Byte] : n \in 0..RxFifoDepth}
    /\ dev \in D!DevType /\ drv \in DrvType

\* No transfer and no call is under way.
AtRest == idle_o /\ drv.pc = "ready"

(* The device receives exactly the bytes that were asked for, in order and *)
(* bit for bit: those written to TX_FIFO, or the idle level while the      *)
(* block only receives.  At rest none is missing and no extra edge has     *)
(* left it within a byte (spi_core.sv, clock pauses and the last edge).    *)
DeviceReceivesWhatIsSent ==
    /\ Len(received) <= Len(expected)
    /\ \A f \in 1..Len(received) : received[f] = expected[f]
    /\ AtRest => Len(received) = Len(expected) /\ dev.inBits = 0

(* spi_rx returns the bytes that the device sent during its own transfer,  *)
(* not those of an earlier one, in both modes, also when the answer began  *)
(* with the last edge of the transfer before and when the receive FIFO     *)
(* filled up in between.                                                   *)
ReadsReturnWhatWasAnswered ==
    \A j \in 1..Len(got) :
       answers[rx_base + j] # <<>> => got[j] = Ordered(answers[rx_base + j])

(* A byte that spi_core hands over finds room in the receive FIFO, whose   *)
(* wready is looked at a cycle earlier (spi_core.sv:156, spi.sv:181).      *)
ReceivedBytesAreKept == rx_fifo_wvalid => Len(rx_fifo) < RxFifoDepth

(* A selected device sees clock edges only while a transfer is under way:  *)
(* the return to the idle level is the last edge of the transfer, not one  *)
(* of the time after it (spi_core.sv:183).                                 *)
ClockRestsBetweenTransfers == [][cs = 0 /\ sc'.clk # sc.clk => active]_vars

(* Every call of the drivers returns: none of their polling loops waits    *)
(* for something that does not happen (spi.c, spi.hh:30-49).               *)
CallsReturn == (drv.pc # "ready") ~> (drv.pc = "ready")

(* Every transfer ends: no pause of the SPI clock is for ever              *)
(* (spi_core.sv:139-159).                                                  *)
TransfersEnd == (~idle_o) ~> idle_o
=============================================================================
