--------------------------------- MODULE Spi ---------------------------------
(***************************************************************************)
(* spi.sv: spi_core with its FIFOs and registers.  A cycle takes at most   *)
(* one register access `acc'.  The bus adapter keeps accesses two cycles   *)
(* apart, so that each sees the effect of the one before: the access and   *)
(* its registered write strobe are one step.  Interrupts are left out.     *)
(***************************************************************************)
EXTENDS SpiCore

CONSTANTS
    RxFifoDepth,    \* 8
    TxFifoDepth     \* 8

ASSUME SpiAssumption ==
    /\ RxFifoDepth \in Nat \ {0}
    /\ TxFifoDepth \in Nat \ {0}

VARIABLES
    control,        \* the retained fields of CONTROL
    cs,             \* CS, for the one device on the bus; 0 selects it
    tx_fifo, rx_fifo

spiVars == <<sc, cfg, control, cs, tx_fifo, rx_fifo>>

ControlType == [tx_enable : BOOLEAN, rx_enable : BOOLEAN]

(* Register accesses.  CFG is written once, before the first transfer, and *)
(* is chosen in the initial state.                                         *)
NoAccess        == [reg |-> "none"]
ReadStatus      == [reg |-> "STATUS"]
ReadRxFifo      == [reg |-> "RX_FIFO"]
WriteTxFifo(b)  == [reg |-> "TX_FIFO", data |-> b]
WriteStart(n)   == [reg |-> "START", byte_count |-> n]
WriteCs(l)      == [reg |-> "CS", level |-> l]
WriteControl(tx, rx, clear) ==
    [reg |-> "CONTROL", fields |-> [tx_enable |-> tx, rx_enable |-> rx], clear |-> clear]

-----------------------------------------------------------------------------
(* FIFO status and the interface of spi_core.                              *)

tx_fifo_rvalid == tx_fifo # <<>>

rx_fifo_wready == Len(rx_fifo) < RxFifoDepth

spi_data_in == IF ~control.tx_enable THEN [i \in 1..ByteBits |-> cfg.copi_idle]
               ELSE IF tx_fifo_rvalid THEN Head(tx_fifo)
               ELSE [i \in 1..ByteBits |-> 0]

\* CONTROL written with TX_CLEAR, RX_CLEAR and SW_RESET set.
Clears(acc) == acc.reg = "CONTROL" /\ acc.clear

CoreIn(acc, cipo) ==
    [sw_reset       |-> Clears(acc),
     data_in        |-> spi_data_in,
     data_in_valid  |-> control.tx_enable => tx_fifo_rvalid,
     data_out_ready |-> control.rx_enable => rx_fifo_wready,
     start          |-> acc.reg = "START" /\ idle_o,
     byte_count     |-> IF acc.reg = "START" THEN acc.byte_count % ByteCounts ELSE 0,
     cipo           |-> cipo]

rx_fifo_wvalid == control.rx_enable /\ sc.data_out_valid

-----------------------------------------------------------------------------
(* prim_fifo_sync: a push into a full FIFO and a pop of an empty one are   *)
(* ignored.                                                                *)
Fifo(q, push, x, pop, depth, clear) ==
    LET popped == IF pop /\ q # <<>> THEN Tail(q) ELSE q
    IN  IF clear THEN <<>>
        ELSE IF push /\ Len(q) < depth THEN Append(popped, x) ELSE popped

SpiInit ==
    /\ cfg \in CfgType
    /\ SpiCoreInit
    /\ control = [tx_enable |-> FALSE, rx_enable |-> FALSE]
    /\ cs = 1
    /\ tx_fifo = <<>> /\ rx_fifo = <<>>

(* One cycle of the block, with the access `acc' and the level of CIPO.    *)
SpiClock(acc, cipo) ==
    LET in == CoreIn(acc, cipo) IN
    /\ SpiCoreClock(in)
    /\ tx_fifo' = Fifo(tx_fifo, acc.reg = "TX_FIFO",
                       IF acc.reg = "TX_FIFO" THEN acc.data ELSE 0,
                       control.tx_enable /\ data_in_ready_o(in), TxFifoDepth, Clears(acc))
    /\ rx_fifo' = Fifo(rx_fifo, rx_fifo_wvalid, data_out_o,
                       acc.reg = "RX_FIFO", RxFifoDepth, Clears(acc))
    /\ control' = IF acc.reg = "CONTROL" THEN acc.fields ELSE control
    /\ cs' = IF acc.reg = "CS" THEN acc.level ELSE cs
    /\ UNCHANGED cfg
=============================================================================
