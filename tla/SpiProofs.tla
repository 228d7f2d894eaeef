------------------------------ MODULE SpiProofs ------------------------------
(***************************************************************************)
(* Proofs about SpiSystem: for every width of a byte, every half period,   *)
(* both modes, every depth of the FIFOs and every sequence of calls.       *)
(***************************************************************************)
EXTENDS SpiSystem, SequenceTheorems, TLAPS

(***************************************************************************)
(* The invariant.                                                          *)
(***************************************************************************)

\* A byte is in copi_shift and not yet wholly on the device's side.
Mid == active /\ ~(sc.sample_phase /\ sc.bit_count \in {0, ByteBits})
MidBytes == IF Mid THEN 1 ELSE 0

\* Bytes of the transfer that have not been taken from the transmit FIFO, or
\* from the idle level.
Unloaded == IF idle_o THEN 0
            ELSE IF active /\ ~(sc.sample_phase /\ sc.bit_count = ByteBits)
            THEN sc.byte_count - 1 ELSE sc.byte_count

\* Bytes that the device is still to receive in this transfer; those that the
\* software has still to write; the byte that spi_core hands over.
Owed == Unloaded + MidBytes
Todo == IF drv.pc = "fill" THEN drv.len - drv.i ELSE 0
Handed == IF sc.data_out_valid THEN 1 ELSE 0

Full == IF cfg.cpha THEN ByteBits ELSE ByteBits - 1
IdleByte == [i \in 1..ByteBits |-> cfg.copi_idle]

\* The core: SCK follows the phase, rests at its idle level, and a received
\* byte is announced only between two bytes.
CoreInv ==
    /\ sc \in SpiCoreType /\ cfg \in CfgType
    /\ (cfg.cpha <=> cfg.cpol = 1)
    /\ (sc.sample_phase <=> sc.clk = 1)
    /\ ~active => sc.clk = cfg.cpol
    /\ sc.clk_counter <= cfg.half_clk_period
    /\ ~idle_o => sc.byte_count >= 1
    /\ active /\ ~sc.sample_phase => sc.bit_count < ByteBits
    /\ sc.state = "WAIT_START" => sc.bit_count = Full
    /\ sc.data_out_valid => active /\ sc.sample_phase /\ sc.bit_count = 0

\* Types of the rest.
DataInv ==
    /\ control \in ControlType /\ cs \in Bit
    /\ tx_fifo \in Seq(Byte) /\ Len(tx_fifo) <= TxFifoDepth
    /\ rx_fifo \in Seq(Byte) /\ Len(rx_fifo) <= RxFifoDepth
    /\ expected \in Seq(Byte) /\ received \in Seq(Byte)
    /\ dev \in D!DevType /\ drv \in DrvType
    /\ dev.inByte \in [1..dev.inBits -> Bit] /\ dev.outByte \in [1..dev.outBits -> Bit]

\* The software starts a transfer only on an idle block, and leaves CONTROL
\* alone until it is idle again.
SoftInv ==
    /\ drv.pc \in {"reset", "control", "start"} => idle_o
    /\ drv.api = "hal" /\ drv.pc = "ready" => idle_o
    /\ (drv.api = "hal" <=> drv.call = "blocking_write")
    /\ drv.api = "hal" => ~control.rx_enable
    /\ drv.pc \notin {"ready", "reset"} => cs = 0
    /\ drv.pc = "reset" => drv.api = "hal"
    /\ drv.pc = "wait" => drv.api = "legacy"
    /\ control.rx_enable => ~control.tx_enable
    /\ drv.pc = "start" => /\ control.tx_enable <=> drv.call # "spi_rx"
                           /\ control.rx_enable <=> drv.call = "spi_rx"
    /\ drv.pc = "fill" => control.tx_enable /\ drv.call # "spi_rx"
    /\ drv.pc \in {"drain", "end"} => drv.call = "spi_rx"
    /\ drv.call = "spi_rx" /\ drv.pc \in {"ready", "drain", "end"} => control.rx_enable

\* The calls: lengths, and the room that the software reckons with.
CallInv ==
    /\ drv.i <= drv.len
    /\ drv.pc \in {"wait", "control", "start"} =>
          /\ drv.i = 0 /\ drv.avail = 0 /\ drv.len \in 1..ByteCounts - 1
          /\ Len(expected) + drv.len <= MaxFrames
    /\ drv.pc \in {"drain", "end"} => drv.i < drv.len
    /\ drv.pc = "fill" =>
          /\ Len(expected) + drv.len - drv.i <= MaxFrames
          /\ Len(tx_fifo) <= drv.i
          /\ drv.call = "blocking_write" /\ drv.avail > 0 => Len(tx_fifo) + drv.avail <= HalDepth
    /\ drv.call = "spi_tx" /\ drv.pc \in {"wait", "control", "start", "fill"} => drv.len <= TxFifoDepth
    /\ Len(expected) <= MaxFrames

\* The receive FIFO: in a call of spi_rx every byte of the transfer is owed,
\* handed over, in the FIFO or with the caller; otherwise it is empty.
RxInv ==
    /\ IF drv.pc \in {"drain", "end"}
       THEN drv.i + Len(rx_fifo) + Handed + Owed = drv.len
       ELSE rx_fifo = <<>> /\ (control.rx_enable => Handed = 0 /\ Owed = 0)
    /\ drv.pc = "end" => rx_fifo # <<>>
    /\ control.rx_enable /\ sc.data_out_valid => Len(rx_fifo) < RxFifoDepth

\* What the device has not received yet: the byte in copi_shift, then the
\* transmit FIFO and what the software adds to it, or the idle level.
TxInv ==
    /\ cs = 1 => Owed = 0
    /\ active /\ sc.bit_count = ByteBits /\ control.tx_enable => tx_fifo # <<>>
    /\ control.tx_enable =>
          /\ Unloaded = Len(tx_fifo) + Todo
          /\ Len(expected) = Len(received) + Len(tx_fifo) + MidBytes
          /\ \A j \in 1..Len(tx_fifo) :
                expected[Len(received) + MidBytes + j] = Ordered(tx_fifo[j])
    /\ ~control.tx_enable =>
          /\ tx_fifo = <<>> /\ Todo = 0
          /\ Len(expected) = Len(received) + Owed
          /\ \A j \in 1..Len(expected) : j > Len(received) + MidBytes => expected[j] = IdleByte

\* The byte under way, bit by bit.
WireInv ==
    /\ ~Mid => dev.inBits = 0
    /\ Mid /\ ~sc.sample_phase => dev.inBits = ByteBits - 1 - sc.bit_count
    /\ Mid /\ sc.sample_phase => dev.inBits = ByteBits - sc.bit_count
    /\ Mid => /\ \A j \in 1..dev.inBits : dev.inByte[j] = expected[Len(received) + 1][j]
              /\ \A j \in 1..sc.bit_count + 1 :
                   sc.copi_shift[j] = expected[Len(received) + 1][j + ByteBits - 1 - sc.bit_count]
    /\ \A f \in 1..Len(received) : received[f] = expected[f]

SpiInv == CoreInv /\ DataInv /\ SoftInv /\ CallInv /\ RxInv /\ TxInv /\ WireInv

-----------------------------------------------------------------------------
(***************************************************************************)
(* A cycle of spi_core is one of seven events.                             *)
(***************************************************************************)

SameBits == sc'.bit_count = sc.bit_count /\ sc'.byte_count = sc.byte_count
SameCipo == sc'.cipo_shift = sc.cipo_shift

\* SCK rises: a bit is sampled at both ends.
Samples(in) ==
    /\ active /\ ~sc.sample_phase /\ sc.clk = 0
    /\ sc'.state = "ACTIVE" /\ sc'.clk = 1 /\ sc'.sample_phase
    /\ SameBits /\ sc'.copi_shift = sc.copi_shift
    /\ sc'.cipo_shift = ShiftIn(sc.cipo_shift, in.cipo)
    /\ sc'.data_out_valid <=> sc.bit_count = 0
    /\ sc.bit_count = 0 => in.data_out_ready
    /\ ~data_in_ready_o(in)

\* SCK falls, and a byte is taken.
Loads(in) ==
    /\ active /\ sc.sample_phase /\ sc.clk = 1 /\ sc.bit_count \in {0, ByteBits}
    /\ sc.bit_count = 0 => in.data_in_valid /\ sc.byte_count > 1
    /\ sc'.state = "ACTIVE" /\ sc'.clk = 0 /\ ~sc'.sample_phase
    /\ sc'.bit_count = ByteBits - 1
    /\ sc'.byte_count = IF sc.bit_count = 0 THEN sc.byte_count - 1 ELSE sc.byte_count
    /\ sc'.copi_shift = Ordered(in.data_in) /\ SameCipo
    /\ ~sc'.data_out_valid
    /\ data_in_ready_o(in)

\* SCK falls within a byte.
Shifts(in) ==
    /\ active /\ sc.sample_phase /\ sc.clk = 1 /\ sc.bit_count \in 1..ByteBits - 1
    /\ sc'.state = "ACTIVE" /\ sc'.clk = 0 /\ ~sc'.sample_phase
    /\ sc'.bit_count = sc.bit_count - 1 /\ sc'.byte_count = sc.byte_count
    /\ sc'.copi_shift = ShiftIn(sc.copi_shift, cfg.copi_idle) /\ SameCipo
    /\ ~sc'.data_out_valid
    /\ ~data_in_ready_o(in)

\* The last byte is over.
Finishes(in) ==
    /\ active /\ sc.sample_phase /\ sc.clk = 1 /\ sc.bit_count = 0 /\ sc.byte_count = 1
    /\ sc'.state = "IDLE" /\ sc'.clk = cfg.cpol
    /\ ~sc'.data_out_valid
    /\ ~data_in_ready_o(in)

\* A transfer begins, or waits for its first byte.
Begins(in) ==
    /\ ~active /\ in.data_in_valid
    /\ idle_o => in.start
    /\ sc'.state = "ACTIVE" /\ sc'.clk = sc.clk /\ sc.clk = cfg.cpol
    /\ sc'.bit_count = Full
    /\ sc'.byte_count = IF idle_o THEN in.byte_count ELSE sc.byte_count
    /\ ~cfg.cpha => sc'.copi_shift = Ordered(in.data_in)
    /\ SameCipo /\ ~sc'.data_out_valid
    /\ data_in_ready_o(in) <=> ~cfg.cpha

Awaits(in) ==
    /\ idle_o /\ in.start /\ ~in.data_in_valid
    /\ sc'.state = "WAIT_START" /\ sc'.clk = sc.clk /\ sc.clk = cfg.cpol
    /\ sc'.bit_count = Full /\ sc'.byte_count = in.byte_count
    /\ SameCipo /\ ~sc'.data_out_valid
    /\ ~data_in_ready_o(in)

Rests(in) ==
    /\ idle_o => ~in.start
    /\ sc'.state = sc.state /\ sc'.clk = sc.clk /\ (sc'.sample_phase <=> sc.sample_phase)
    /\ SameBits /\ sc'.copi_shift = sc.copi_shift /\ SameCipo
    /\ ~sc'.data_out_valid
    /\ ~data_in_ready_o(in)

CoreInputs(in) ==
    /\ in.sw_reset \in BOOLEAN /\ in.data_in_valid \in BOOLEAN
    /\ in.data_out_ready \in BOOLEAN /\ in.start \in BOOLEAN
    /\ in.data_in \in Byte /\ in.byte_count \in 0..ByteCounts - 1 /\ in.cipo \in Bit

\* Every cycle is one of them; SW_RESET is written only to an idle block.
LEMMA CoreEvents ==
    ASSUME CoreInv, NEW in, CoreInputs(in), SpiCoreClock(in),
           in.sw_reset => idle_o /\ ~in.start
    PROVE  \/ Samples(in) \/ Loads(in) \/ Shifts(in) \/ Finishes(in)
           \/ Begins(in) \/ Awaits(in) \/ Rests(in)
<1>1. /\ sc'.state = IF in.sw_reset THEN "IDLE" ELSE state_d(in)
      /\ sc'.clk = clk_d(in) /\ sc'.clk_counter = clk_counter_d(in)
      /\ sc'.sample_phase = sample_phase_d(in)
      /\ sc'.byte_count = byte_count_d(in) /\ sc'.bit_count = bit_count_d(in)
      /\ sc'.copi_shift = copi_shift_d(in) /\ sc'.cipo_shift = cipo_shift_d(in)
      /\ sc'.data_out_valid = (sample_edge(in) /\ sc.bit_count = 0)
  BY DEF SpiCoreClock
<1>2. /\ sc.state \in {"IDLE", "WAIT_START", "ACTIVE"}
      /\ sc.clk \in {0, 1} /\ sc.bit_count \in Nat /\ sc.bit_count <= ByteBits
      /\ sc.byte_count \in Nat /\ sc.byte_count < ByteCounts
      /\ sc.clk_counter \in Nat /\ cfg.half_clk_period \in Nat
      /\ sc.clk_counter <= cfg.half_clk_period
      /\ cfg.cpol \in {0, 1}
  BY SpiCoreAssumption DEF CoreInv, SpiCoreType, CfgType, Bit
<1>3. /\ sc.sample_phase \in BOOLEAN /\ cfg.cpha \in BOOLEAN
  BY DEF CoreInv, SpiCoreType, CfgType
<1>4. /\ cfg.cpha <=> cfg.cpol = 1
      /\ sc.sample_phase <=> sc.clk = 1
      /\ ~active => sc.clk = cfg.cpol
      /\ ~idle_o => sc.byte_count >= 1
      /\ active /\ ~sc.sample_phase => sc.bit_count < ByteBits
      /\ sc.state = "WAIT_START" => sc.bit_count = Full
  BY DEF CoreInv, Full
<1>5. ByteBits \in Nat /\ ByteBits > 1 /\ ByteCounts \in Nat /\ ByteCounts > 1
  BY SpiCoreAssumption
<1>6. CASE ~active
  <2>1. /\ ~output_edge(in) /\ ~sample_edge(in) /\ ~finish_edge /\ ~clk_running(in)
        /\ clk_rests /\ ~bit_done(in)
    BY <1>6, Zenon DEF output_edge, sample_edge, finish_edge, clk_running, clk_rests,
                       last_half, bit_done
  <2>2. /\ sc'.clk = sc.clk /\ sc.clk = cfg.cpol /\ SameCipo /\ sc'.data_out_valid = FALSE
        /\ (data_in_ready_o(in) <=> leave_idle(in) /\ ~cfg.cpha)
        /\ (sc'.sample_phase <=> sc.sample_phase)
    BY <1>1, <1>3, <1>4, <1>6, <2>1, Zenon
       DEF clk_d, cipo_shift_d, SameCipo, data_in_ready_o, start_edge, sample_phase_d
  <2>3. CASE leave_idle(in)
    <3>1. ~in.sw_reset
      BY <1>6, <2>3, Zenon DEF leave_idle, idle_o, CoreInputs
    <3>2. sc'.state = "ACTIVE"
      BY <1>1, <2>3, <3>1, Zenon DEF state_d
    <3>3. CASE idle_o
      <4>1. in.start
        BY <2>3, <3>3, Zenon DEF leave_idle, idle_o
      <4>2. sc'.bit_count = Full /\ sc'.byte_count = in.byte_count
        BY <1>1, <3>3, <4>1, Zenon DEF bit_count_d, byte_count_d, Full
      <4>3. ~cfg.cpha => sc'.copi_shift = Ordered(in.data_in)
        BY <1>1, <2>2, <2>3, Zenon DEF copi_shift_d
      <4> QED
        BY <1>6, <2>2, <2>3, <3>2, <3>3, <4>1, <4>2, <4>3, Zenon DEF Begins, leave_idle
    <3>4. CASE ~idle_o
      <4>1. sc.state = "WAIT_START"
        BY <1>2, <1>6, <3>4, Zenon DEF active, idle_o
      <4>2. sc'.bit_count = Full /\ sc'.byte_count = sc.byte_count
        BY <1>1, <1>4, <2>1, <3>4, <4>1, Zenon DEF bit_count_d, byte_count_d
      <4>3. ~cfg.cpha => sc'.copi_shift = Ordered(in.data_in)
        BY <1>1, <2>2, <2>3, Zenon DEF copi_shift_d
      <4> QED
        BY <1>6, <2>2, <2>3, <3>2, <3>4, <4>2, <4>3, Zenon DEF Begins, leave_idle
    <3> QED
      BY <3>3, <3>4
  <2>4. CASE ~leave_idle(in) /\ idle_o /\ in.start
    <3>1. ~in.sw_reset /\ ~in.data_in_valid
      BY <1>6, <2>4, Zenon DEF leave_idle, CoreInputs
    <3>2. sc'.state = "WAIT_START"
      BY <1>1, <2>4, <3>1, Zenon DEF state_d
    <3>3. sc'.bit_count = Full /\ sc'.byte_count = in.byte_count
      BY <1>1, <2>4, Zenon DEF bit_count_d, byte_count_d, Full
    <3> QED
      BY <2>2, <2>4, <3>1, <3>2, <3>3, Zenon DEF Awaits
  <2>5. CASE ~leave_idle(in) /\ ~(idle_o /\ in.start)
    <3>1. sc'.state = sc.state
      BY <1>1, <2>1, <2>5, Zenon DEF state_d, idle_o
    <3>2. SameBits /\ sc'.copi_shift = sc.copi_shift
      BY <1>1, <2>1, <2>2, <2>5, Zenon DEF bit_count_d, byte_count_d, copi_shift_d, SameBits
    <3> QED
      BY <2>2, <2>5, <3>1, <3>2, Zenon DEF Rests
  <2> QED
    BY <2>3, <2>4, <2>5
<1>7. CASE active
  <2>1. ~idle_o /\ ~leave_idle(in) /\ ~start_edge(in) /\ ~in.sw_reset
    BY <1>7, Zenon DEF active, idle_o, leave_idle, start_edge
  <2>2. sc'.state = IF bit_done(in) /\ sc.bit_count = 0 /\ sc.byte_count = 1 THEN "IDLE" ELSE "ACTIVE"
    BY <1>1, <1>7, <2>1, Zenon DEF state_d, active
  <2>3. bit_done(in) <=> output_edge(in) \/ finish_edge
    BY <1>7, Zenon DEF bit_done
  <2>4. CASE finish_edge
    <3>1. sc.sample_phase /\ sc.bit_count = 0 /\ sc.byte_count = 1
      BY <1>2, <1>4, <2>1, <2>4 DEF finish_edge, last_half, more_bytes
    <3>2. ~clk_running(in)
      BY <2>4, Zenon DEF finish_edge, clk_running
    <3>3. ~output_edge(in) /\ ~sample_edge(in)
      BY <3>2, Zenon DEF output_edge, sample_edge
    <3>4. sc'.clk = cfg.cpol /\ sc.clk = 1
      BY <1>1, <1>4, <2>4, <3>1, <3>2, Zenon DEF clk_d, clk_rests
    <3>5. sc'.state = "IDLE" /\ sc'.data_out_valid = FALSE /\ ~data_in_ready_o(in)
      BY <1>1, <2>1, <2>2, <2>3, <2>4, <3>1, <3>3, Zenon DEF data_in_ready_o
    <3> QED
      BY <1>7, <3>1, <3>4, <3>5, Zenon DEF Finishes
  <2>5. CASE ~finish_edge /\ output_edge(in)
    <3>1. /\ sc.sample_phase /\ clk_running(in) /\ half_done /\ sc.clk = 1
          /\ ~sample_edge(in)
      BY <1>4, <2>5, Zenon DEF output_edge, sample_edge
    <3>2. sc'.clk = 0
      BY <1>1, <3>1 DEF clk_d
    <3>3. sc'.sample_phase = FALSE /\ SameCipo /\ sc'.data_out_valid = FALSE
      BY <1>1, <3>1, Zenon DEF sample_phase_d, cipo_shift_d, SameCipo
    <3>4. data_in_ready_o(in) <=> sc.bit_count \in {0, ByteBits}
      BY <2>1, <2>5, Zenon DEF data_in_ready_o
    <3>5. sc.bit_count = 0 => in.data_in_valid /\ sc.byte_count > 1
      <4> SUFFICES ASSUME sc.bit_count = 0 PROVE in.data_in_valid /\ sc.byte_count > 1
        OBVIOUS
      <4>1. last_half
        BY <1>2, <1>7, <3>1 DEF last_half, half_done
      <4> QED
        BY <3>1, <4>1, Zenon DEF clk_running, more_bytes
    <3>6. sc'.state = "ACTIVE"
      <4>1. ~(sc.bit_count = 0 /\ sc.byte_count = 1)
        BY <3>5
      <4> QED
        BY <2>2, <4>1, Zenon
    <3>7. CASE sc.bit_count = 0
      <4>1. sc.byte_count # 1
        BY <3>5, <3>7
      <4>2. sc'.bit_count = ByteBits - 1
        BY <1>1, <2>1, <2>3, <2>5, <3>7, <4>1, Zenon DEF bit_count_d
      <4>3. sc'.byte_count = (sc.byte_count - 1) % ByteCounts
        BY <1>1, <2>1, <2>3, <2>5, <3>7, <4>1, Zenon DEF byte_count_d
      <4>4. (sc.byte_count - 1) % ByteCounts = sc.byte_count - 1
        BY <1>2, <1>5, <3>5, <3>7, SMT
      <4>5. data_in_ready_o(in) /\ sc'.copi_shift = Ordered(in.data_in)
        BY <1>1, <3>4, <3>7, Zenon DEF copi_shift_d
      <4>6. sc'.byte_count = IF sc.bit_count = 0 THEN sc.byte_count - 1 ELSE sc.byte_count
        BY <3>7, <4>3, <4>4, Zenon
      <4>7. sc.bit_count \in {0, ByteBits}
        BY <3>7
      <4> QED
        BY <1>7, <3>1, <3>2, <3>3, <3>5, <3>6, <4>2, <4>5, <4>6, <4>7, Zenon DEF Loads
    <3>8. CASE sc.bit_count = ByteBits
      <4>1. sc.bit_count # 0
        BY <1>5, <3>8
      <4>2. sc'.bit_count = sc.bit_count - 1 /\ sc'.byte_count = sc.byte_count
        BY <1>1, <2>1, <2>3, <2>5, <4>1, Zenon DEF bit_count_d, byte_count_d
      <4>3. sc'.bit_count = ByteBits - 1
        BY <3>8, <4>2
      <4>5. data_in_ready_o(in) /\ sc'.copi_shift = Ordered(in.data_in)
        BY <1>1, <3>4, <3>8, Zenon DEF copi_shift_d
      <4>6. sc'.byte_count = IF sc.bit_count = 0 THEN sc.byte_count - 1 ELSE sc.byte_count
        BY <4>1, <4>2, Zenon
      <4>7. sc.bit_count \in {0, ByteBits}
        BY <3>8
      <4> QED
        BY <1>7, <3>1, <3>2, <3>3, <3>5, <3>6, <4>3, <4>5, <4>6, <4>7, Zenon DEF Loads
    <3>9. CASE sc.bit_count \notin {0, ByteBits}
      <4>1. sc.bit_count \in 1..ByteBits - 1 /\ sc.bit_count # 0
        BY <1>2, <1>5, <3>9
      <4>2. sc'.bit_count = sc.bit_count - 1 /\ sc'.byte_count = sc.byte_count
        BY <1>1, <2>1, <2>3, <2>5, <4>1, Zenon DEF bit_count_d, byte_count_d
      <4>3. sc'.copi_shift = ShiftIn(sc.copi_shift, cfg.copi_idle)
        BY <1>1, <2>5, <3>4, <3>9, Zenon DEF copi_shift_d
      <4> QED
        BY <1>7, <3>1, <3>2, <3>3, <3>4, <3>6, <3>9, <4>1, <4>2, <4>3, Zenon DEF Shifts
    <3> QED
      BY <3>7, <3>8, <3>9
  <2>6. CASE ~finish_edge /\ ~output_edge(in) /\ sample_edge(in)
    <3>1. ~sc.sample_phase /\ clk_running(in) /\ half_done
      BY <2>6, Zenon DEF sample_edge
    <3>2. sc.clk = 0 /\ sc'.clk = 1
      <4>1. sc.clk = 0
        BY <1>2, <1>4, <3>1
      <4>2. sc'.clk = 1 - sc.clk
        BY <1>1, <3>1, Zenon DEF clk_d
      <4> QED
        BY <4>1, <4>2
    <3>3. /\ sc'.sample_phase = TRUE /\ SameBits
          /\ sc'.state = "ACTIVE" /\ ~data_in_ready_o(in)
          /\ (sc'.data_out_valid <=> sc.bit_count = 0)
          /\ sc'.cipo_shift = ShiftIn(sc.cipo_shift, in.cipo)
      BY <1>1, <1>3, <2>1, <2>2, <2>3, <2>6, <3>1, Zenon
         DEF sample_phase_d, bit_count_d, byte_count_d, SameBits, data_in_ready_o, cipo_shift_d
    <3>4. sc'.copi_shift = sc.copi_shift
      BY <1>1, <2>6, <3>3, Zenon DEF copi_shift_d
    <3>5. sc.bit_count = 0 => in.data_out_ready
      <4> SUFFICES ASSUME sc.bit_count = 0 PROVE in.data_out_ready
        OBVIOUS
      <4>1. last_half
        BY <1>2, <1>7, <3>1 DEF last_half, half_done
      <4> QED
        BY <3>1, <4>1, Zenon DEF clk_running
    <3> QED
      BY <1>7, <3>1, <3>2, <3>3, <3>4, <3>5, Zenon DEF Samples
  <2>7. CASE ~finish_edge /\ ~output_edge(in) /\ ~sample_edge(in)
    <3>1. ~(clk_running(in) /\ half_done)
      BY <2>7, Zenon DEF output_edge, sample_edge
    <3>2. ~clk_rests
      BY <1>7, <2>7, Zenon DEF clk_rests
    <3>3. ~bit_done(in) /\ ~data_in_ready_o(in)
      BY <2>1, <2>3, <2>7, Zenon DEF data_in_ready_o
    <3>4. /\ sc'.clk = sc.clk /\ sc'.state = sc.state /\ SameBits
          /\ sc'.copi_shift = sc.copi_shift /\ SameCipo /\ sc'.data_out_valid = FALSE
      BY <1>1, <1>7, <2>1, <2>2, <2>7, <3>1, <3>2, <3>3, Zenon
         DEF active, clk_d, SameBits, SameCipo, bit_count_d, byte_count_d, copi_shift_d, cipo_shift_d
    <3>5. sc'.sample_phase <=> sc.sample_phase
      BY <1>1, <1>3, <3>1, <3>2, Zenon DEF sample_phase_d
    <3> QED
      BY <2>1, <3>3, <3>4, <3>5, Zenon DEF Rests
  <2> QED
    BY <2>4, <2>5, <2>6, <2>7
<1> QED
  BY <1>6, <1>7

-----------------------------------------------------------------------------
(***************************************************************************)
(* What the events do to the core, and to the counts of bytes.             *)
(***************************************************************************)

\* The types of the registers, one by one.
LEMMA CoreFacts ==
    ASSUME CoreInv
    PROVE  /\ sc.state \in {"IDLE", "WAIT_START", "ACTIVE"}
           /\ sc.clk \in {0, 1} /\ sc.bit_count \in Nat /\ sc.bit_count <= ByteBits
           /\ sc.byte_count \in Nat /\ sc.byte_count < ByteCounts
           /\ sc.clk_counter \in Nat /\ cfg.half_clk_period \in Nat
           /\ sc.clk_counter <= cfg.half_clk_period /\ cfg.half_clk_period <= MaxHalf
           /\ cfg.cpol \in {0, 1} /\ cfg.copi_idle \in {0, 1}
           /\ sc.copi_shift \in Byte /\ sc.cipo_shift \in Byte
           /\ ByteBits \in Nat /\ ByteBits > 1 /\ ByteCounts \in Nat /\ ByteCounts > 1
           /\ MaxHalf \in Nat
BY SpiCoreAssumption DEF CoreInv, SpiCoreType, CfgType, Bit

LEMMA CoreFlags ==
    ASSUME CoreInv
    PROVE  /\ sc.sample_phase \in BOOLEAN /\ cfg.cpha \in BOOLEAN /\ cfg.msb_first \in BOOLEAN
           /\ sc.data_out_valid \in BOOLEAN
BY DEF CoreInv, SpiCoreType, CfgType

LEMMA OrderedByte ==
    ASSUME CoreInv, NEW b \in Byte
    PROVE  Ordered(b) \in Byte
<1>1. bit_reverse(b) \in Byte
  BY SpiCoreAssumption DEF bit_reverse, Byte, Bit
<1> QED
  BY <1>1, Zenon DEF Ordered

LEMMA ShiftInByte ==
    ASSUME NEW b \in Byte, NEW x \in Bit
    PROVE  ShiftIn(b, x) \in Byte
BY SpiCoreAssumption DEF ShiftIn, Byte, Bit

\* The registers keep to their widths.
LEMMA CoreTypes ==
    ASSUME CoreInv, NEW in, CoreInputs(in), SpiCoreClock(in)
    PROVE  sc' \in SpiCoreType /\ sc'.clk_counter <= cfg.half_clk_period
<1>1. /\ (IF in.sw_reset THEN "IDLE" ELSE state_d(in)) \in {"IDLE", "WAIT_START", "ACTIVE"}
  BY CoreFacts, Zenon DEF state_d
<1>2. clk_d(in) \in Bit
  <2>1. 1 - sc.clk \in Bit
    BY CoreFacts DEF Bit
  <2> QED
    BY <2>1, CoreFacts, Zenon DEF clk_d, Bit
<1>3. clk_counter_d(in) \in 0..MaxHalf /\ clk_counter_d(in) <= cfg.half_clk_period
  <2>1. CASE clk_running(in) /\ ~half_done
    <3>1. clk_counter_d(in) = sc.clk_counter + 1
      BY <2>1, Zenon DEF clk_counter_d
    <3>2. sc.clk_counter # cfg.half_clk_period
      BY <2>1, Zenon DEF half_done
    <3> QED
      BY <3>1, <3>2, CoreFacts
  <2>2. CASE ~(clk_running(in) /\ ~half_done)
    <3>1. clk_counter_d(in) = 0 \/ clk_counter_d(in) = sc.clk_counter
      BY <2>2, Zenon DEF clk_counter_d
    <3> QED
      BY <3>1, CoreFacts
  <2> QED
    BY <2>1, <2>2
<1>4. sample_phase_d(in) \in BOOLEAN
  BY CoreFlags, Zenon DEF sample_phase_d
<1>5. byte_count_d(in) \in 0..ByteCounts - 1
  <2>1. (sc.byte_count - 1) % ByteCounts \in 0..ByteCounts - 1
    BY CoreFacts
  <2>2. sc.byte_count \in 0..ByteCounts - 1
    BY CoreFacts
  <2> QED
    BY <2>1, <2>2, Zenon DEF byte_count_d, CoreInputs
<1>6. bit_count_d(in) \in 0..ByteBits
  <2>1. /\ ByteBits \in 0..ByteBits /\ ByteBits - 1 \in 0..ByteBits /\ 0 \in 0..ByteBits
        /\ sc.bit_count \in 0..ByteBits
        /\ sc.bit_count # 0 => sc.bit_count - 1 \in 0..ByteBits
    BY CoreFacts
  <2> QED
    BY <2>1, Zenon DEF bit_count_d
<1>7. copi_shift_d(in) \in Byte
  <2>1. Ordered(in.data_in) \in Byte
    BY OrderedByte DEF CoreInputs
  <2>2. ShiftIn(sc.copi_shift, cfg.copi_idle) \in Byte
    BY CoreFacts, ShiftInByte, Zenon DEF Bit
  <2> QED
    BY <2>1, <2>2, CoreFacts, Zenon DEF copi_shift_d
<1>8. cipo_shift_d(in) \in Byte
  <2>1. ShiftIn(sc.cipo_shift, in.cipo) \in Byte
    BY CoreFacts, ShiftInByte, Zenon DEF CoreInputs
  <2> QED
    BY <2>1, CoreFacts, Zenon DEF cipo_shift_d
<1>9. (sample_edge(in) /\ sc.bit_count = 0) \in BOOLEAN
  BY Zenon
<1>10. sc' \in SpiCoreType
  BY <1>1, <1>2, <1>3, <1>4, <1>5, <1>6, <1>7, <1>8, <1>9, Zenon DEF SpiCoreClock, SpiCoreType
<1>11. sc'.clk_counter = clk_counter_d(in)
  BY DEF SpiCoreClock
<1> QED
  BY <1>3, <1>10, <1>11, Zenon

Event(in) == \/ Samples(in) \/ Loads(in) \/ Shifts(in) \/ Finishes(in)
             \/ Begins(in) \/ Awaits(in) \/ Rests(in)

\* A cycle of the core keeps its invariant.
LEMMA CoreKept ==
    ASSUME CoreInv, NEW in, CoreInputs(in), SpiCoreClock(in), cfg' = cfg,
           in.sw_reset => idle_o /\ ~in.start,
           in.start => in.byte_count >= 1
    PROVE  Event(in) /\ CoreInv'
<1>1. Event(in)
  BY CoreEvents, Zenon DEF Event
<1>2. sc' \in SpiCoreType /\ sc'.clk_counter <= cfg.half_clk_period
  BY CoreTypes
<1>3. /\ sc'.sample_phase = sample_phase_d(in) /\ sc'.clk = clk_d(in)
  BY DEF SpiCoreClock
<1>4. sc'.sample_phase <=> sc'.clk = 1
  <2>1. CASE clk_running(in) /\ half_done
    <3>1. (sc'.sample_phase <=> ~sc.sample_phase) /\ sc'.clk = 1 - sc.clk
      BY <1>3, <2>1, CoreFlags, Zenon DEF sample_phase_d, clk_d
    <3>2. (1 - sc.clk = 1) <=> ~(sc.clk = 1)
      BY CoreFacts
    <3> QED
      BY <3>1, <3>2, Zenon DEF CoreInv
  <2>2. CASE ~(clk_running(in) /\ half_done)
    <3>1. CASE clk_rests
      <4>1. sc'.sample_phase = cfg.cpha /\ sc'.clk = cfg.cpol
        BY <1>3, <2>2, <3>1, Zenon DEF sample_phase_d, clk_d
      <4> QED
        BY <4>1, Zenon DEF CoreInv
    <3>2. CASE ~clk_rests
      <4>1. sc'.sample_phase = sc.sample_phase /\ sc'.clk = sc.clk
        BY <1>3, <2>2, <3>2, Zenon DEF sample_phase_d, clk_d
      <4> QED
        BY <4>1, Zenon DEF CoreInv
    <3> QED
      BY <3>1, <3>2
  <2> QED
    BY <2>1, <2>2
<1>5. /\ sc'.state # "ACTIVE" => sc'.clk = cfg.cpol
  BY <1>1, CoreFacts, Zenon DEF Event, Samples, Loads, Shifts, Finishes, Begins, Awaits, Rests,
                                CoreInv, active
<1>6. sc'.state # "IDLE" => sc'.byte_count >= 1
  <2>1. CASE Samples(in) \/ Loads(in) \/ Shifts(in)
    BY <2>1, CoreFacts DEF Samples, Loads, Shifts, SameBits, CoreInv, active, idle_o
  <2>2. CASE Finishes(in)
    BY <2>2, Zenon DEF Finishes
  <2>3. CASE Begins(in) \/ Awaits(in)
    BY <2>3, Zenon DEF Begins, Awaits, CoreInv, idle_o
  <2>4. CASE Rests(in)
    BY <2>4, Zenon DEF Rests, SameBits, CoreInv, idle_o
  <2> QED
    BY <1>1, <2>1, <2>2, <2>3, <2>4, Zenon DEF Event
<1>7. sc'.state = "ACTIVE" /\ ~sc'.sample_phase => sc'.bit_count < ByteBits
  <2>1. CASE Samples(in)
    BY <2>1, Zenon DEF Samples
  <2>2. CASE Loads(in) \/ Shifts(in)
    BY <2>2, CoreFacts DEF Loads, Shifts
  <2>3. CASE Finishes(in) \/ Awaits(in)
    BY <2>3, Zenon DEF Finishes, Awaits
  <2>4. CASE Begins(in)
    <3>1. CASE cfg.cpha
      <4>1. cfg.cpol = 1
        BY <3>1, Zenon DEF CoreInv
      <4> QED
        BY <1>4, <2>4, <4>1, Zenon DEF Begins
    <3>2. CASE ~cfg.cpha
      <4>1. sc'.bit_count = ByteBits - 1
        BY <2>4, <3>2, Zenon DEF Begins, Full
      <4> QED
        BY <4>1, CoreFacts
    <3> QED
      BY <3>1, <3>2
  <2>5. CASE Rests(in)
    BY <2>5, Zenon DEF Rests, SameBits, CoreInv, active
  <2> QED
    BY <1>1, <2>1, <2>2, <2>3, <2>4, <2>5, Zenon DEF Event
<1>8. sc'.state = "WAIT_START" => sc'.bit_count = Full
  BY <1>1, Zenon DEF Event, Samples, Loads, Shifts, Finishes, Begins, Awaits, Rests, SameBits, CoreInv
<1>9. sc'.data_out_valid => sc'.state = "ACTIVE" /\ sc'.sample_phase /\ sc'.bit_count = 0
  BY <1>1, Zenon DEF Event, Samples, Loads, Shifts, Finishes, Begins, Awaits, Rests, SameBits
<1>10. Full' = Full
  BY Zenon DEF Full
<1> QED
  BY <1>1, <1>2, <1>4, <1>5, <1>6, <1>7, <1>8, <1>9, <1>10, Zenon DEF CoreInv, active, idle_o

Taken(in) == IF data_in_ready_o(in) THEN 1 ELSE 0
Started(in) == IF in.start /\ idle_o THEN in.byte_count ELSE 0

\* Bytes are loaded one at a time, out of those that the transfer has left, and
\* a loaded byte is handed over when its last bit has been sampled.
LEMMA Bookkeeping ==
    ASSUME CoreInv, CoreInv', NEW in, CoreInputs(in), Event(in), cfg' = cfg,
           in.start => in.byte_count >= 1
    PROVE  /\ Unloaded \in Nat /\ Unloaded' \in Nat
           /\ MidBytes \in {0, 1} /\ Handed \in {0, 1} /\ Handed' \in {0, 1}
           /\ Taken(in) \in {0, 1} /\ Started(in) \in Nat
           /\ Unloaded' = Unloaded + Started(in) - Taken(in)
           /\ MidBytes' = MidBytes + Taken(in) - Handed'
           /\ Handed' = 1 => Samples(in) /\ sc.bit_count = 0
           /\ Samples(in) => Mid /\ Taken(in) = 0 /\ Started(in) = 0 /\ Owed >= 1
           /\ Taken(in) = 1 => ~Mid
           /\ Taken(in) = 1 => in.data_in_valid \/ (active /\ sc.bit_count = ByteBits)
<1>1. Unloaded \in Nat /\ Unloaded' \in Nat
  <2>1. Unloaded \in Nat
    <3>1. ~idle_o => sc.byte_count \in Nat /\ sc.byte_count - 1 \in Nat
      BY CoreFacts DEF CoreInv
    <3>2. 0 \in Nat
      BY SMT
    <3> QED
      BY <3>1, <3>2, Zenon DEF Unloaded
  <2>2. Unloaded' \in Nat
    <3>1. sc'.byte_count \in Nat
      BY SpiCoreAssumption DEF CoreInv, SpiCoreType
    <3>2. ~idle_o' => sc'.byte_count \in Nat /\ sc'.byte_count - 1 \in Nat
      BY <3>1 DEF CoreInv
    <3>3. 0 \in Nat
      BY SMT
    <3> QED
      BY <3>2, <3>3, Zenon DEF Unloaded
  <2> QED
    BY <2>1, <2>2
<1>2. MidBytes \in {0, 1} /\ Handed \in {0, 1} /\ Handed' \in {0, 1} /\ Taken(in) \in {0, 1}
  BY Zenon DEF MidBytes, Handed, Taken
<1>3. Started(in) \in Nat
  BY SpiCoreAssumption DEF Started, CoreInputs
<1>4. ByteBits \in Nat /\ ByteBits > 1 /\ sc.byte_count \in Nat /\ sc.bit_count \in Nat
      /\ 0 # ByteBits /\ ByteBits # ByteBits - 1 /\ 0 # ByteBits - 1
  BY CoreFacts
<1>5. CASE Samples(in)
  <2>1. /\ Mid /\ ~idle_o /\ ~idle_o' /\ Unloaded = sc.byte_count - 1 /\ MidBytes = 1
    BY <1>5, Zenon DEF Samples, Mid, Unloaded, MidBytes, active, idle_o
  <2>2. sc.bit_count # ByteBits
    BY <1>4, <1>5 DEF CoreInv, Samples
  <2>3. Unloaded' = sc.byte_count - 1
    BY <1>5, <2>2, Zenon DEF Samples, Unloaded, SameBits, active, idle_o
  <2>4. Taken(in) = 0 /\ Started(in) = 0
    BY <1>5, <2>1, Zenon DEF Samples, Taken, Started
  <2>5. CASE sc.bit_count = 0
    <3>1. MidBytes' = 0 /\ Handed' = 1
      BY <1>5, <2>5, Zenon DEF Samples, Mid, MidBytes, Handed, SameBits, active
    <3> QED
      BY <1>1, <1>2, <1>3, <1>4, <1>5, <2>1, <2>3, <2>4, <2>5, <3>1 DEF Owed
  <2>6. CASE sc.bit_count # 0
    <3>1. MidBytes' = 1 /\ Handed' = 0
      BY <1>5, <2>2, <2>6, Zenon DEF Samples, Mid, MidBytes, Handed, SameBits, active
    <3> QED
      BY <1>1, <1>2, <1>3, <1>4, <1>5, <2>1, <2>3, <2>4, <2>6, <3>1 DEF Owed
  <2> QED
    BY <2>5, <2>6
<1>6. CASE Loads(in)
  <2>1. /\ ~Mid /\ MidBytes = 0 /\ ~idle_o /\ Taken(in) = 1 /\ Handed' = 0 /\ Started(in) = 0
        /\ MidBytes' = 1 /\ ~Samples(in)
    BY <1>6, Zenon DEF Loads, Samples, Mid, MidBytes, active, idle_o, Taken, Handed, Started
  <2>2. Unloaded' = sc'.byte_count - 1
    BY <1>6, Zenon DEF Loads, Unloaded, active, idle_o
  <2>3. CASE sc.bit_count = 0
    <3>1. Unloaded = sc.byte_count - 1 /\ sc'.byte_count = sc.byte_count - 1 /\ in.data_in_valid
      BY <1>4, <1>6, <2>3, Zenon DEF Loads, Unloaded, active, idle_o
    <3> QED
      BY <1>1, <1>2, <1>3, <1>4, <2>1, <2>2, <2>3, <3>1
  <2>4. CASE sc.bit_count = ByteBits
    <3>1. Unloaded = sc.byte_count /\ sc'.byte_count = sc.byte_count /\ active
      BY <1>4, <1>6, <2>4, Zenon DEF Loads, Unloaded, active, idle_o
    <3> QED
      BY <1>1, <1>2, <1>3, <1>4, <2>1, <2>2, <2>4, <3>1
  <2> QED
    BY <1>6, <2>3, <2>4, Zenon DEF Loads
<1>7. CASE Shifts(in)
  <2>1. sc.bit_count # 0 /\ sc.bit_count # ByteBits
    BY <1>4, <1>7 DEF Shifts
  <2>2. /\ Mid /\ MidBytes = 1 /\ MidBytes' = 1 /\ Taken(in) = 0 /\ Handed' = 0 /\ Started(in) = 0
        /\ Unloaded = sc.byte_count - 1 /\ Unloaded' = sc.byte_count - 1 /\ ~Samples(in)
    BY <1>7, <2>1, Zenon DEF Shifts, Samples, Mid, MidBytes, active, idle_o, Taken, Handed, Started, Unloaded
  <2> QED
    BY <1>1, <1>2, <1>3, <1>4, <2>2
<1>8. CASE Finishes(in)
  <2>1. /\ ~Mid /\ MidBytes = 0 /\ MidBytes' = 0 /\ Taken(in) = 0 /\ Handed' = 0 /\ Started(in) = 0
        /\ Unloaded = sc.byte_count - 1 /\ sc.byte_count = 1 /\ Unloaded' = 0 /\ ~Samples(in)
    BY <1>4, <1>8, Zenon DEF Finishes, Samples, Mid, MidBytes, active, idle_o, Taken, Handed, Started, Unloaded
  <2> QED
    BY <1>1, <1>2, <1>3, <1>4, <2>1
<1>9. CASE Begins(in)
  <2>1. /\ ~Mid /\ MidBytes = 0 /\ Handed' = 0 /\ ~Samples(in) /\ in.data_in_valid
        /\ Unloaded + Started(in) = IF idle_o THEN 0 + in.byte_count ELSE sc.byte_count + 0
    BY <1>9, Zenon DEF Begins, Samples, Mid, MidBytes, active, Handed, Started, Unloaded
  <2>2. Unloaded + Started(in) = sc'.byte_count
    BY <1>4, <1>9, <2>1, SpiCoreAssumption DEF Begins, CoreInputs
  <2>3. CASE cfg.cpha
    <3>1. sc'.sample_phase
      BY <1>9, <2>3, Zenon DEF Begins, CoreInv
    <3>2. MidBytes' = 0 /\ Unloaded' = sc'.byte_count /\ Taken(in) = 0
      BY <1>4, <1>9, <2>3, <3>1, Zenon DEF Begins, Mid, MidBytes, active, idle_o, Unloaded, Taken, Full
    <3> QED
      BY <1>1, <1>2, <1>3, <1>4, <2>1, <2>2, <3>2
  <2>4. CASE ~cfg.cpha
    <3>1. sc'.sample_phase \in BOOLEAN
      BY DEF CoreInv, SpiCoreType
    <3>2. ~sc'.sample_phase
      <4>1. cfg.cpol # 1
        BY <2>4, Zenon DEF CoreInv
      <4> QED
        BY <1>9, <4>1, Zenon DEF Begins, CoreInv
    <3>3. MidBytes' = 1 /\ Unloaded' = sc'.byte_count - 1 /\ Taken(in) = 1
      BY <1>4, <1>9, <2>4, <3>2, Zenon DEF Begins, Mid, MidBytes, active, idle_o, Unloaded, Taken, Full
    <3> QED
      BY <1>1, <1>2, <1>3, <1>4, <2>1, <2>2, <3>3
  <2> QED
    BY <2>3, <2>4
<1>10. CASE Awaits(in)
  <2>1. /\ ~Mid /\ MidBytes = 0 /\ MidBytes' = 0 /\ Taken(in) = 0 /\ Handed' = 0 /\ ~Samples(in)
        /\ Started(in) = in.byte_count /\ Unloaded = 0 /\ Unloaded' = sc'.byte_count
        /\ sc'.byte_count = in.byte_count
    BY <1>10, Zenon DEF Awaits, Samples, Mid, MidBytes, active, idle_o, Taken, Handed, Started, Unloaded
  <2> QED
    BY <1>1, <1>2, <1>3, <1>4, <2>1
<1>11. CASE Rests(in)
  <2>1. (Mid' <=> Mid) /\ Unloaded' = Unloaded
    BY <1>11, Zenon DEF Rests, Mid, active, idle_o, Unloaded, SameBits
  <2>2. MidBytes' = MidBytes /\ Taken(in) = 0 /\ Handed' = 0 /\ Started(in) = 0
    BY <1>11, <2>1, Zenon DEF Rests, MidBytes, Taken, Handed, Started
  <2>3. ~Samples(in)
    BY <1>11, Zenon DEF Rests, Samples
  <2> QED
    BY <1>1, <1>2, <1>3, <1>4, <2>2, <2>1, <2>3
<1> QED
  BY <1>5, <1>6, <1>7, <1>8, <1>9, <1>10, <1>11, Zenon DEF Event

-----------------------------------------------------------------------------
(***************************************************************************)
(* The wires between the block and the device, and the FIFOs.              *)
(***************************************************************************)

\* A function on 1..n is a sequence of length n.
LEMMA FunIsSeq ==
    ASSUME NEW S, NEW n \in Nat, NEW f \in [1..n -> S]
    PROVE  f \in Seq(S) /\ Len(f) = n
<1>1. f \in Seq(S)
  BY SeqDef, Zenon
<1>2. Len(f) \in Nat /\ DOMAIN f = 1..Len(f)
  BY <1>1, LenProperties, Zenon
<1>3. DOMAIN f = 1..n
  OBVIOUS
<1>4. Len(f) = n
  <2>1. 1..n = 1..Len(f)
    BY <1>2, <1>3, Zenon
  <2>2. \A k : k \in 1..n <=> k \in 1..Len(f)
    BY <2>1, Zenon
  <2>3. /\ n >= 1 => n <= Len(f)
        /\ Len(f) >= 1 => Len(f) <= n
    BY <1>2, <2>2
  <2> QED
    BY <1>2, <2>3
<1> QED
  BY <1>1, <1>4

LEMMA SeqIsFun ==
    ASSUME NEW S, NEW q \in Seq(S)
    PROVE  q \in [1..Len(q) -> S] /\ Len(q) \in Nat
BY LenProperties, Zenon

\* The fields of the device.
LEMMA DevFacts ==
    ASSUME DataInv
    PROVE  /\ dev.inBits \in Nat /\ dev.inBits < ByteBits
           /\ dev.outBits \in Nat /\ dev.outBits < ByteBits
           /\ dev.cipo \in {0, 1}
           /\ dev.inByte \in [1..dev.inBits -> Bit] /\ dev.outByte \in [1..dev.outBits -> Bit]
BY SpiCoreAssumption DEF DataInv, D!DevType

DevRec(ib, i, ob, o, c, r) ==
    [inBits |-> ib, inByte |-> i, outBits |-> ob, outByte |-> o, cipo |-> c, bReading |-> r]

LEMMA DevTypeIntro ==
    ASSUME NEW ib \in 0..ByteBits - 1, NEW ob \in 0..ByteBits - 1, NEW c \in {0, 1}, NEW r \in BOOLEAN,
           NEW i \in [1..ib -> Bit], NEW o \in [1..ob -> Bit]
    PROVE  DevRec(ib, i, ob, o, c, r) \in D!DevType
<1>1. i \in UNION {D!Bits(n) : n \in 0..ByteBits - 1}
  BY Zenon DEF D!Bits, Bit
<1>2. o \in UNION {D!Bits(n) : n \in 0..ByteBits - 1}
  BY Zenon DEF D!Bits, Bit
<1> QED
  BY <1>1, <1>2, Zenon DEF D!DevType, DevRec

\* Appending a bit, and shifting one out.
LEMMA AppendBit ==
    ASSUME NEW n \in Nat, NEW f \in [1..n -> Bit], NEW x \in Bit
    PROVE  /\ Append(f, x) \in [1..n + 1 -> Bit]
           /\ Append(f, x)[n + 1] = x /\ \A j \in 1..n : Append(f, x)[j] = f[j]
<1>1. f \in Seq(Bit) /\ Len(f) = n
  BY FunIsSeq, Zenon
<1>2. /\ Append(f, x) \in Seq(Bit) /\ Len(Append(f, x)) = n + 1
      /\ Append(f, x)[n + 1] = x /\ \A j \in 1..n : Append(f, x)[j] = f[j]
  BY <1>1, AppendProperties
<1> QED
  BY <1>2, SeqIsFun, Zenon

LEMMA TailBits ==
    ASSUME NEW n \in Nat, n > 0, NEW f \in [1..n -> Bit]
    PROVE  /\ f[1] \in Bit
           /\ Tail(f) \in [1..n - 1 -> Bit] /\ \A j \in 1..n - 1 : Tail(f)[j] = f[j + 1]
<1>1. f \in Seq(Bit) /\ Len(f) = n
  BY FunIsSeq, Zenon
<1>2. f # <<>> /\ f[1] \in Bit
  BY <1>1
<1>3. /\ Tail(f) \in Seq(Bit) /\ Len(Tail(f)) = n - 1
      /\ \A j \in 1..n - 1 : Tail(f)[j] = f[j + 1]
  BY <1>1, <1>2, HeadTailProperties, Zenon
<1> QED
  BY <1>2, <1>3, SeqIsFun, Zenon

\* The four things the device may see in a cycle.
Rising == sc.clk = 0 /\ sc'.clk = 1 /\ cs' = 0
Falling == sc.clk = 1 /\ sc'.clk = 0
DevTakesBit ==
    /\ dev'.outBits = dev.outBits /\ dev'.outByte = dev.outByte /\ dev'.cipo = dev.cipo
    /\ answers' = answers
    /\ IF dev.inBits + 1 >= ByteBits
       THEN /\ received' = Append(received, Append(dev.inByte, sc.copi_shift[1]))
            /\ dev'.inBits = 0 /\ dev'.inByte = <<>> /\ dev'.bReading
       ELSE /\ received' = received
            /\ dev'.inBits = dev.inBits + 1
            /\ dev'.inByte = Append(dev.inByte, sc.copi_shift[1])
            /\ dev'.bReading => dev.bReading
DevKeepsIn ==
    /\ received' = received
    /\ dev'.inBits = dev.inBits /\ dev'.inByte = dev.inByte
    /\ dev'.bReading => dev.bReading
DevKeepsOut ==
    /\ dev'.outBits = dev.outBits /\ dev'.outByte = dev.outByte /\ dev'.cipo = dev.cipo
    /\ answers' = answers
DevLaunches ==
    \/ /\ dev.outBits > 0 /\ answers' = answers
       /\ dev'.outBits = dev.outBits - 1 /\ dev'.outByte = Tail(dev.outByte)
       /\ dev'.cipo = dev.outByte[1]
    \/ /\ dev.outBits = 0 /\ answers' = answers
       /\ ~dev'.bReading /\ dev'.outBits = 0 /\ dev'.outByte = <<>> /\ dev'.cipo = 0
    \/ /\ dev.outBits = 0 /\ dev.bReading
       /\ \E b \in AnswerBytes :
             /\ answers' = [answers EXCEPT ![Len(received) + 1] = b]
             /\ dev'.outBits = ByteBits - 1 /\ dev'.outByte = Tail(b) /\ dev'.cipo = b[1]
DevIgnores ==
    /\ answers' = answers
    /\ dev'.outBits = 0 /\ dev'.outByte = <<>> /\ dev'.cipo = 1

\* The device with its select line at its new level.
SelectedDev == IF cs' # cs THEN D!CsEdge(cs') ELSE dev

LEMMA SelectedDevice ==
    ASSUME DataInv, cs' \in Bit
    PROVE  \E r \in BOOLEAN :
              /\ SelectedDev = DevRec(dev.inBits, dev.inByte, dev.outBits, dev.outByte, dev.cipo, r)
              /\ r => dev.bReading
              /\ cs # cs' /\ cs' # 0 => ~r
<1>1. dev \in [inBits : 0..ByteBits - 1, inByte : UNION {D!Bits(n) : n \in 0..ByteBits - 1},
               outBits : 0..ByteBits - 1, outByte : UNION {D!Bits(n) : n \in 0..ByteBits - 1},
               cipo : {0, 1}, bReading : BOOLEAN]
  BY DEF DataInv, D!DevType
<1>2. dev.bReading \in BOOLEAN
  BY <1>1
<1>3. dev = DevRec(dev.inBits, dev.inByte, dev.outBits, dev.outByte, dev.cipo, dev.bReading)
  BY <1>1 DEF DevRec
<1>4. CASE cs' = cs
  <2>1. SelectedDev = dev
    BY <1>4, Zenon DEF SelectedDev
  <2> QED
    BY <1>2, <1>3, <1>4, <2>1, Zenon
<1>5. CASE cs' # cs
  <2> DEFINE r == dev.bReading /\ cs' = 0
  <2>1. SelectedDev = [dev EXCEPT !.bReading = r]
    BY <1>5, Zenon DEF D!CsEdge, SelectedDev
  <2>2. r \in BOOLEAN /\ (r => dev.bReading) /\ (cs' # 0 => ~r)
    BY Zenon
  <2> HIDE DEF r
  <2>3. [dev EXCEPT !.bReading = r]
          = DevRec(dev.inBits, dev.inByte, dev.outBits, dev.outByte, dev.cipo, r)
    BY <1>1 DEF DevRec
  <2> QED
    BY <2>1, <2>2, <2>3, Zenon
<1> QED
  BY <1>4, <1>5

\* A cycle of the device.
LEMMA DevEffects ==
    ASSUME DataInv, CoreInv, CoreInv', cs' \in Bit,
           D!DevStep(sc.clk, sc'.clk, spi_copi_o, cs, cs')
    PROVE  /\ dev' \in D!DevType /\ dev'.bReading \in BOOLEAN
           /\ dev'.inByte \in [1..dev'.inBits -> Bit] /\ dev'.outByte \in [1..dev'.outBits -> Bit]
           /\ received' \in Seq(Byte)
           /\ Rising => DevTakesBit
           /\ ~Rising => DevKeepsIn
           /\ ~Rising /\ ~Falling => DevKeepsOut
           /\ Falling /\ cs' = 0 => DevLaunches
           /\ Falling /\ cs' # 0 => DevIgnores
           /\ cs' # cs /\ cs' # 0 => ~dev'.bReading
<1> DEFINE d == SelectedDev
           copi == sc.copi_shift[1]
<1>1. PICK r \in BOOLEAN :
           /\ d = DevRec(dev.inBits, dev.inByte, dev.outBits, dev.outByte, dev.cipo, r)
           /\ r => dev.bReading
           /\ cs # cs' /\ cs' # 0 => ~r
  BY SelectedDevice, Zenon
<1>0. /\ d.inBits = dev.inBits /\ d.inByte = dev.inByte /\ d.outBits = dev.outBits
      /\ d.outByte = dev.outByte /\ d.bReading = r
  BY <1>1 DEF DevRec
<1>2. /\ sc.clk \in {0, 1} /\ sc'.clk \in {0, 1} /\ cs \in {0, 1} /\ cs' \in {0, 1}
      /\ ByteBits \in Nat /\ ByteBits > 1
  BY SpiCoreAssumption DEF CoreInv, SpiCoreType, DataInv, Bit
<1>3. /\ dev.inBits \in Nat /\ dev.inBits < ByteBits
      /\ dev.outBits \in Nat /\ dev.outBits < ByteBits /\ dev.cipo \in {0, 1}
      /\ dev.inBits \in 0..ByteBits - 1 /\ dev.outBits \in 0..ByteBits - 1
      /\ dev.inByte \in [1..dev.inBits -> Bit] /\ dev.outByte \in [1..dev.outBits -> Bit]
  BY DevFacts, <1>2
<1>4. received \in Seq(Byte)
  BY DEF DataInv
<1>5. copi \in Bit
  BY CoreFacts, <1>2 DEF Byte, Bit
<1>6. <<>> \in [1..0 -> Bit] /\ 0 \in 0..ByteBits - 1
  BY <1>2
<1>7. \/ /\ sc'.clk >= sc.clk /\ (sc'.clk > sc.clk => cs' # 0)
         /\ dev' = d /\ UNCHANGED <<received, answers>>
      \/ sc'.clk > sc.clk /\ cs' = 0 /\ D!SampleEdge(d, copi)
      \/ sc'.clk < sc.clk /\ cs' = 0 /\ D!LaunchEdge(d)
      \/ /\ sc'.clk < sc.clk /\ cs' # 0
         /\ dev' = [d EXCEPT !.outBits = 0, !.outByte = <<>>, !.cipo = 1]
         /\ UNCHANGED <<received, answers>>
  BY Zenon DEF D!DevStep, spi_copi_o, SelectedDev
<1> HIDE DEF d, copi
<1>8. CASE ~Rising /\ ~Falling
  <2>1. dev' = d /\ UNCHANGED <<received, answers>>
    BY <1>2, <1>7, <1>8 DEF Rising, Falling
  <2>2. dev' = DevRec(dev.inBits, dev.inByte, dev.outBits, dev.outByte, dev.cipo, r)
    BY <1>1, <2>1, Zenon
  <2>3. dev' \in D!DevType
    <3>1. /\ dev.inBits \in 0..ByteBits - 1 /\ dev.outBits \in 0..ByteBits - 1
          /\ dev.cipo \in {0, 1} /\ r \in BOOLEAN
          /\ dev.inByte \in [1..dev.inBits -> Bit] /\ dev.outByte \in [1..dev.outBits -> Bit]
      BY <1>1, <1>3, Zenon
    <3>2. DevRec(dev.inBits, dev.inByte, dev.outBits, dev.outByte, dev.cipo, r) \in D!DevType
      BY <3>1, DevTypeIntro, Zenon
    <3> QED
      BY <2>2, <3>2, Zenon
  <2>4. /\ dev'.inBits = dev.inBits /\ dev'.inByte = dev.inByte /\ dev'.outBits = dev.outBits
        /\ dev'.outByte = dev.outByte /\ dev'.cipo = dev.cipo /\ dev'.bReading = r
    BY <2>2 DEF DevRec
  <2> QED
    BY <1>1, <1>3, <1>4, <1>8, <2>1, <2>3, <2>4, Zenon DEF DevKeepsIn, DevKeepsOut
<1>9. CASE Rising
  <2>1. D!SampleEdge(d, copi)
    BY <1>2, <1>7, <1>9 DEF Rising
  <2>2. cs' = 0 /\ ~Falling
    BY <1>9 DEF Rising, Falling
  <2> DEFINE b == Append(dev.inByte, copi)
  <2>3. /\ b \in [1..dev.inBits + 1 -> Bit]
    BY <1>3, <1>5, AppendBit, Zenon
  <2>4. d.inBits = dev.inBits /\ d.inByte = dev.inByte
    BY <1>0
  <2> HIDE DEF b
  <2>5. CASE dev.inBits + 1 >= ByteBits
    <3>1. /\ received' = Append(received, b) /\ answers' = answers
          /\ dev' = [d EXCEPT !.inBits = 0, !.inByte = <<>>, !.bReading = TRUE]
      BY <2>1, <2>4, <2>5, Zenon DEF D!SampleEdge, b
    <3>2. dev' = DevRec(0, <<>>, dev.outBits, dev.outByte, dev.cipo, TRUE)
      <4> DEFINE yes == TRUE
      <4> HIDE DEF yes
      <4> DEFINE u1 == [d EXCEPT !.inBits = 0]
      <4>1. u1 = DevRec(0, dev.inByte, dev.outBits, dev.outByte, dev.cipo, r)
        BY <1>1 DEF DevRec
      <4> HIDE DEF u1
      <4> DEFINE u2 == [u1 EXCEPT !.inByte = <<>>]
      <4>2. u2 = DevRec(0, <<>>, dev.outBits, dev.outByte, dev.cipo, r)
        BY <4>1 DEF DevRec
      <4> HIDE DEF u2
      <4> DEFINE u3 == [u2 EXCEPT !.bReading = yes]
      <4>3. u3 = DevRec(0, <<>>, dev.outBits, dev.outByte, dev.cipo, yes)
        BY <4>2 DEF DevRec
      <4> HIDE DEF u3
      <4> QED
        BY <3>1, <4>3, Zenon DEF u1, u2, u3, yes
    <3>3. dev' \in D!DevType
      BY <1>3, <1>6, <3>2, DevTypeIntro, Zenon
    <3>4. /\ dev'.inBits = 0 /\ dev'.inByte = <<>> /\ dev'.outBits = dev.outBits
          /\ dev'.outByte = dev.outByte /\ dev'.cipo = dev.cipo /\ dev'.bReading = TRUE
      BY <3>2 DEF DevRec
    <3>5. b \in Byte
      <4>1. dev.inBits + 1 = ByteBits
        BY <1>2, <1>3, <2>5
      <4> QED
        BY <2>3, <4>1, Zenon DEF Byte
    <3>6. received' \in Seq(Byte)
      BY <1>4, <3>1, <3>5, AppendProperties, Zenon
    <3> QED
      BY <1>3, <1>6, <1>9, <2>2, <2>5, <3>1, <3>3, <3>4, <3>6, Zenon DEF DevTakesBit, b, copi
  <2>6. CASE ~(dev.inBits + 1 >= ByteBits)
    <3>1. /\ received' = received /\ answers' = answers
          /\ dev' = [d EXCEPT !.inBits = dev.inBits + 1, !.inByte = b]
      BY <2>1, <2>4, <2>6, Zenon DEF D!SampleEdge, b
    <3>2. dev' = DevRec(dev.inBits + 1, b, dev.outBits, dev.outByte, dev.cipo, r)
      <4> DEFINE u1 == [d EXCEPT !.inBits = dev.inBits + 1]
      <4>1. u1 = DevRec(dev.inBits + 1, dev.inByte, dev.outBits, dev.outByte, dev.cipo, r)
        BY <1>1 DEF DevRec
      <4> HIDE DEF u1
      <4> DEFINE u2 == [u1 EXCEPT !.inByte = b]
      <4>2. u2 = DevRec(dev.inBits + 1, b, dev.outBits, dev.outByte, dev.cipo, r)
        BY <4>1 DEF DevRec
      <4> HIDE DEF u2
      <4> QED
        BY <3>1, <4>2, Zenon DEF u1, u2
    <3>3. dev.inBits + 1 \in 0..ByteBits - 1
      BY <1>2, <1>3, <2>6
    <3>4. dev' \in D!DevType
      <4> DEFINE m == dev.inBits + 1
      <4>1. m \in 0..ByteBits - 1 /\ b \in [1..m -> Bit]
        BY <2>3, <3>3
      <4> HIDE DEF m, b
      <4>2. DevRec(m, b, dev.outBits, dev.outByte, dev.cipo, r) \in D!DevType
        BY <1>1, <1>3, <4>1, DevTypeIntro, Zenon
      <4> QED
        BY <3>2, <4>2, Zenon DEF m
    <3>5. /\ dev'.inBits = dev.inBits + 1 /\ dev'.inByte = b /\ dev'.outBits = dev.outBits
          /\ dev'.outByte = dev.outByte /\ dev'.cipo = dev.cipo /\ dev'.bReading = r
      BY <3>2 DEF DevRec
    <3> QED
      BY <1>1, <1>3, <1>4, <1>9, <2>2, <2>3, <2>6, <3>1, <3>4, <3>5, Zenon DEF DevTakesBit, b, copi
  <2> QED
    BY <2>5, <2>6
<1>10. CASE Falling /\ cs' # 0
  <2>1. dev' = [d EXCEPT !.outBits = 0, !.outByte = <<>>, !.cipo = 1] /\ UNCHANGED <<received, answers>>
    BY <1>2, <1>7, <1>10 DEF Falling
  <2>2. dev' = DevRec(dev.inBits, dev.inByte, 0, <<>>, 1, r)
    <3> DEFINE u1 == [d EXCEPT !.outBits = 0]
    <3>1. u1 = DevRec(dev.inBits, dev.inByte, 0, dev.outByte, dev.cipo, r)
      BY <1>1 DEF DevRec
    <3> HIDE DEF u1
    <3> DEFINE u2 == [u1 EXCEPT !.outByte = <<>>]
    <3>2. u2 = DevRec(dev.inBits, dev.inByte, 0, <<>>, dev.cipo, r)
      BY <3>1 DEF DevRec
    <3> HIDE DEF u2
    <3> DEFINE u3 == [u2 EXCEPT !.cipo = 1]
    <3>3. u3 = DevRec(dev.inBits, dev.inByte, 0, <<>>, 1, r)
      BY <3>2 DEF DevRec
    <3> HIDE DEF u3
    <3> QED
      BY <2>1, <3>3, Zenon DEF u1, u2, u3
  <2>3. dev' \in D!DevType
    BY <1>1, <1>3, <1>6, <2>2, DevTypeIntro, Zenon
  <2>4. /\ dev'.inBits = dev.inBits /\ dev'.inByte = dev.inByte /\ dev'.outBits = 0
        /\ dev'.outByte = <<>> /\ dev'.cipo = 1 /\ dev'.bReading = r
    BY <2>2 DEF DevRec
  <2>5. ~Rising
    BY <1>10 DEF Rising, Falling
  <2> QED
    BY <1>1, <1>3, <1>4, <1>6, <1>10, <2>1, <2>3, <2>4, <2>5, Zenon DEF DevKeepsIn, DevIgnores
<1>11. CASE Falling /\ cs' = 0
  <2>1. D!LaunchEdge(d)
    BY <1>2, <1>7, <1>11 DEF Falling
  <2>2. ~Rising /\ received' = received
    BY <1>11, <2>1 DEF Rising, Falling, D!LaunchEdge
  <2>3. d.outBits = dev.outBits /\ d.outByte = dev.outByte /\ d.bReading = r
    BY <1>0
  <2>4. CASE d.outBits > 0 /\ dev' = D!Launched(d, d.outByte, d.outBits) /\ UNCHANGED answers
    <3> DEFINE t == Tail(dev.outByte)
               c == dev.outByte[1]
               n == dev.outBits - 1
    <3> HIDE DEF t, c, n
    <3>1. dev' = [d EXCEPT !.cipo = c, !.outByte = t, !.outBits = n]
      BY <2>3, <2>4, Zenon DEF D!Launched, t, c, n
    <3>2. dev' = DevRec(dev.inBits, dev.inByte, n, t, c, r)
      <4> DEFINE u1 == [d EXCEPT !.cipo = c]
      <4>1. u1 = DevRec(dev.inBits, dev.inByte, dev.outBits, dev.outByte, c, r)
        BY <1>1 DEF DevRec
      <4> HIDE DEF u1
      <4> DEFINE u2 == [u1 EXCEPT !.outByte = t]
      <4>2. u2 = DevRec(dev.inBits, dev.inByte, dev.outBits, t, c, r)
        BY <4>1 DEF DevRec
      <4> HIDE DEF u2
      <4> DEFINE u3 == [u2 EXCEPT !.outBits = n]
      <4>3. u3 = DevRec(dev.inBits, dev.inByte, n, t, c, r)
        BY <4>2 DEF DevRec
      <4> HIDE DEF u3
      <4> QED
        BY <3>1, <4>3, Zenon DEF u1, u2, u3
    <3>3. /\ c \in {0, 1} /\ t \in [1..n -> Bit]
      BY <1>3, <2>3, <2>4, TailBits DEF Bit, t, c, n
    <3>4. n \in 0..ByteBits - 1
      BY <1>2, <1>3, <2>3, <2>4 DEF n
    <3>5. dev' \in D!DevType
      BY <1>1, <1>3, <3>2, <3>3, <3>4, DevTypeIntro, Zenon
    <3>6. /\ dev'.inBits = dev.inBits /\ dev'.inByte = dev.inByte /\ dev'.outBits = n
          /\ dev'.outByte = t /\ dev'.cipo = c /\ dev'.bReading = r
      BY <3>2 DEF DevRec
    <3> QED
      BY <1>1, <1>3, <1>4, <1>11, <2>2, <2>3, <2>4, <3>3, <3>5, <3>6, Zenon DEF DevKeepsIn, DevLaunches, t, c, n
  <2>5. CASE d.outBits = 0 /\ ~d.bReading /\ dev' = D!Launched(d, <<0>>, 1) /\ UNCHANGED answers
    <3>1. dev' = [d EXCEPT !.cipo = <<0>>[1], !.outByte = Tail(<<0>>), !.outBits = 1 - 1]
      BY <2>5, Zenon DEF D!Launched
    <3>2. <<0>>[1] = 0 /\ Tail(<<0>>) = <<>> /\ 1 - 1 = 0
      BY SMT
    <3>3. dev' = DevRec(dev.inBits, dev.inByte, 0, <<>>, 0, r)
      <4> DEFINE u1 == [d EXCEPT !.cipo = 0]
      <4>1. u1 = DevRec(dev.inBits, dev.inByte, dev.outBits, dev.outByte, 0, r)
        BY <1>1 DEF DevRec
      <4> HIDE DEF u1
      <4> DEFINE u2 == [u1 EXCEPT !.outByte = <<>>]
      <4>2. u2 = DevRec(dev.inBits, dev.inByte, dev.outBits, <<>>, 0, r)
        BY <4>1 DEF DevRec
      <4> HIDE DEF u2
      <4> DEFINE u3 == [u2 EXCEPT !.outBits = 0]
      <4>3. u3 = DevRec(dev.inBits, dev.inByte, 0, <<>>, 0, r)
        BY <4>2 DEF DevRec
      <4> HIDE DEF u3
      <4> QED
        BY <3>1, <3>2, <4>3, Zenon DEF u1, u2, u3
    <3>4. dev' \in D!DevType
      BY <1>1, <1>3, <1>6, <3>3, DevTypeIntro, Zenon
    <3>5. /\ dev'.inBits = dev.inBits /\ dev'.inByte = dev.inByte /\ dev'.outBits = 0
          /\ dev'.outByte = <<>> /\ dev'.cipo = 0 /\ dev'.bReading = r
      BY <3>3 DEF DevRec
    <3> QED
      BY <1>1, <1>3, <1>4, <1>6, <1>11, <2>2, <2>3, <2>5, <3>4, <3>5, Zenon DEF DevKeepsIn, DevLaunches
  <2>6. CASE /\ d.outBits = 0 /\ d.bReading
             /\ \E b \in AnswerBytes :
                   /\ dev' = D!Launched(d, b, ByteBits)
                   /\ answers' = [answers EXCEPT ![Len(received) + 1] = b]
    <3>1. PICK b \in AnswerBytes : /\ dev' = D!Launched(d, b, ByteBits)
                                   /\ answers' = [answers EXCEPT ![Len(received) + 1] = b]
      BY <2>6
    <3>2. b \in [1..ByteBits -> Bit]
      BY SpiSystemAssumption, Zenon DEF Byte
    <3> DEFINE t == Tail(b)
               c == b[1]
               n == ByteBits - 1
    <3> HIDE DEF t, c, n
    <3>3. dev' = [d EXCEPT !.cipo = c, !.outByte = t, !.outBits = n]
      BY <3>1, Zenon DEF D!Launched, t, c, n
    <3>4. dev' = DevRec(dev.inBits, dev.inByte, n, t, c, r)
      <4> DEFINE u1 == [d EXCEPT !.cipo = c]
      <4>1. u1 = DevRec(dev.inBits, dev.inByte, dev.outBits, dev.outByte, c, r)
        BY <1>1 DEF DevRec
      <4> HIDE DEF u1
      <4> DEFINE u2 == [u1 EXCEPT !.outByte = t]
      <4>2. u2 = DevRec(dev.inBits, dev.inByte, dev.outBits, t, c, r)
        BY <4>1 DEF DevRec
      <4> HIDE DEF u2
      <4> DEFINE u3 == [u2 EXCEPT !.outBits = n]
      <4>3. u3 = DevRec(dev.inBits, dev.inByte, n, t, c, r)
        BY <4>2 DEF DevRec
      <4> HIDE DEF u3
      <4> QED
        BY <3>3, <4>3, Zenon DEF u1, u2, u3
    <3>5. /\ c \in {0, 1} /\ t \in [1..n -> Bit]
      BY <1>2, <3>2, TailBits DEF Bit, t, c, n
    <3>6. n \in 0..ByteBits - 1
      BY <1>2 DEF n
    <3>7. dev' \in D!DevType
      BY <1>1, <1>3, <3>4, <3>5, <3>6, DevTypeIntro, Zenon
    <3>8. /\ dev'.inBits = dev.inBits /\ dev'.inByte = dev.inByte /\ dev'.outBits = n
          /\ dev'.outByte = t /\ dev'.cipo = c /\ dev'.bReading = r
      BY <3>4 DEF DevRec
    <3>9. DevLaunches
      BY <1>1, <2>3, <2>6, <3>1, <3>8, Zenon DEF DevLaunches, t, c, n
    <3> QED
      BY <1>1, <1>3, <1>4, <1>11, <2>2, <3>5, <3>7, <3>8, <3>9, Zenon DEF DevKeepsIn
  <2> QED
    BY <2>1, <2>4, <2>5, <2>6, Zenon DEF D!LaunchEdge
<1> QED
  BY <1>8, <1>9, <1>10, <1>11, Zenon

LEMMA FifoLengths ==
    ASSUME NEW l \in Nat, NEW P \in {0, 1}, NEW depth \in Nat, l <= depth
    PROVE  /\ l - P + 0 = l - P /\ l - P <= depth
           /\ l < depth => l - P + 1 <= depth
OBVIOUS

\* A FIFO that is not popped when empty and not pushed when full.
Count(b) == IF b THEN 1 ELSE 0
FifoStep(q, push, x, pop, depth, r) ==
    /\ r \in Seq(Byte) /\ Len(r) = Len(q) - Count(pop) + Count(push) /\ Len(r) <= depth
    /\ \A j \in 1..Len(q) - Count(pop) : r[j] = q[j + Count(pop)]
    /\ push => r[Len(q) - Count(pop) + 1] = x
    /\ q # <<>> => Len(q) >= 1
    /\ Len(q) \in Nat

LEMMA FifoEffects ==
    ASSUME NEW q \in Seq(Byte), NEW push \in BOOLEAN, NEW x, push => x \in Byte,
           NEW pop \in BOOLEAN, NEW depth \in Nat, Len(q) <= depth,
           pop => q # <<>>, push => Len(q) < depth
    PROVE  FifoStep(q, push, x, pop, depth, Fifo(q, push, x, pop, depth, FALSE))
<1> DEFINE P == Count(pop)
           A == Count(push)
           r == Fifo(q, push, x, pop, depth, FALSE)
<1>0. /\ (pop => P = 1) /\ (~pop => P = 0) /\ (push => A = 1) /\ (~push => A = 0)
  BY Zenon DEF Count
<1> HIDE DEF P, A
<1>1. Len(q) \in Nat /\ (q # <<>> => Len(q) >= 1)
  BY EmptySeq, LenProperties
<1> DEFINE p == IF pop /\ q # <<>> THEN Tail(q) ELSE q
<1>2. p \in Seq(Byte) /\ Len(p) = Len(q) - P /\ \A j \in 1..Len(q) - P : p[j] = q[j + P]
  <2>1. CASE pop
    <3>1. p = Tail(q) /\ P = 1
      BY <1>0, <2>1, Zenon
    <3>2. /\ Tail(q) \in Seq(Byte) /\ Len(Tail(q)) = Len(q) - 1
          /\ \A j \in 1..Len(q) - 1 : Tail(q)[j] = q[j + 1]
      BY <2>1, HeadTailProperties, Zenon
    <3> QED
      BY <3>1, <3>2, Zenon
  <2>2. CASE ~pop
    <3>1. p = q /\ P = 0
      BY <1>0, <2>2, Zenon
    <3>2. Len(q) - 0 = Len(q) /\ \A j \in 1..Len(q) : j + 0 = j
      BY <1>1
    <3> QED
      BY <3>1, <3>2, Zenon
  <2> QED
    BY <2>1, <2>2
<1>3. r = IF push /\ Len(q) < depth THEN Append(p, x) ELSE p
  BY Zenon DEF Fifo
<1>4. P \in {0, 1} /\ A \in {0, 1} /\ (pop => P = 1) /\ (~pop => P = 0)
  BY <1>0, Zenon
<1> HIDE DEF p, r
<1>5. CASE push
  <2>1. r = Append(p, x) /\ A = 1 /\ x \in Byte /\ p \in Seq(Byte)
    BY <1>0, <1>2, <1>3, <1>5, Zenon
  <2>2. /\ Append(p, x) \in Seq(Byte) /\ Len(Append(p, x)) = Len(p) + 1
        /\ \A j \in 1..Len(p) : Append(p, x)[j] = p[j]
        /\ Append(p, x)[Len(p) + 1] = x
    BY <2>1, AppendProperties
  <2>3. Len(q) < depth
    BY <1>5
  <2>4. r \in Seq(Byte) /\ Len(r) = Len(q) - P + A /\ Len(r) <= depth
    <3>1. Len(r) = Len(q) - P + 1
      BY <1>2, <2>1, <2>2, Zenon
    <3> QED
      BY <1>1, <1>4, <2>1, <2>2, <2>3, <3>1, FifoLengths, Zenon
  <2>5. \A j \in 1..Len(q) - P : r[j] = q[j + P]
    BY <1>2, <2>1, <2>2, Zenon
  <2>6. r[Len(q) - P + 1] = x
    BY <1>2, <2>1, <2>2, Zenon
  <2> QED
    BY <1>1, <2>4, <2>5, <2>6, Zenon DEF FifoStep, P, A, r
<1>6. CASE ~push
  <2>1. r = p /\ A = 0
    BY <1>0, <1>3, <1>6, Zenon
  <2>2. Len(r) = Len(q) - P
    BY <1>2, <2>1, Zenon
  <2>3. Len(r) = Len(q) - P + A /\ Len(r) <= depth
    BY <1>1, <1>4, <2>1, <2>2, FifoLengths, Zenon
  <2> QED
    BY <1>1, <1>2, <1>6, <2>1, <2>3, Zenon DEF FifoStep, P, A, r
<1> QED
  BY <1>5, <1>6

\* The inputs of spi_core.
LEMMA Inputs ==
    ASSUME CoreInv, DataInv, NEW acc,
           acc.reg = "START" => acc.byte_count \in 1..ByteCounts - 1,
           NEW in, in = CoreIn(acc, dev.cipo)
    PROVE  /\ CoreInputs(in)
           /\ in.sw_reset <=> Clears(acc)
           /\ in.start <=> acc.reg = "START" /\ idle_o
           /\ in.start => in.byte_count = acc.byte_count /\ in.byte_count >= 1
           /\ in.data_in_valid <=> (control.tx_enable => tx_fifo # <<>>)
           /\ in.data_out_ready <=> (control.rx_enable => Len(rx_fifo) < RxFifoDepth)
           /\ control.tx_enable /\ tx_fifo # <<>> => in.data_in = Head(tx_fifo)
           /\ ~control.tx_enable => in.data_in = IdleByte
           /\ in.cipo = dev.cipo
<1> DEFINE bc == IF acc.reg = "START" THEN acc.byte_count % ByteCounts ELSE 0
           iv == control.tx_enable => tx_fifo_rvalid
           ro == control.rx_enable => rx_fifo_wready
           st == acc.reg = "START" /\ idle_o
           cl == Clears(acc)
<1>1. in = [sw_reset |-> cl, data_in |-> spi_data_in, data_in_valid |-> iv, data_out_ready |-> ro,
            start |-> st, byte_count |-> bc, cipo |-> dev.cipo]
  BY Zenon DEF CoreIn
<1>2. cl \in BOOLEAN /\ iv \in BOOLEAN /\ ro \in BOOLEAN /\ st \in BOOLEAN
  BY Zenon DEF Clears
<1>3. bc \in 0..ByteCounts - 1 /\ (st => bc = acc.byte_count /\ bc >= 1)
  <2>1. ByteCounts \in Nat /\ ByteCounts > 1
    BY SpiCoreAssumption
  <2>2. CASE acc.reg = "START"
    <3> DEFINE n == acc.byte_count
    <3>1. bc = n % ByteCounts /\ n \in 1..ByteCounts - 1
      BY <2>2, Zenon
    <3> HIDE DEF n, bc
    <3>2. bc = n /\ bc \in 0..ByteCounts - 1 /\ bc >= 1
      BY <2>1, <3>1
    <3> QED
      BY <3>2 DEF n
  <2>3. CASE acc.reg # "START"
    <3>1. bc = 0 /\ ~st
      BY <2>3, Zenon
    <3>2. 0 \in 0..ByteCounts - 1
      BY <2>1
    <3> QED
      BY <3>1, <3>2, Zenon
  <2> QED
    BY <2>2, <2>3
<1>4. spi_data_in \in Byte
  <2>1. [i \in 1..ByteBits |-> cfg.copi_idle] \in Byte
    BY CoreFacts DEF Byte, Bit
  <2>2. [i \in 1..ByteBits |-> 0] \in Byte
    BY DEF Byte, Bit
  <2>3. tx_fifo # <<>> => Head(tx_fifo) \in Byte
    BY HeadTailProperties, Zenon DEF DataInv
  <2> QED
    BY <2>1, <2>2, <2>3, Zenon DEF spi_data_in, tx_fifo_rvalid
<1>5. dev.cipo \in Bit
  BY DevFacts DEF Bit
<1>6. /\ control.tx_enable /\ tx_fifo # <<>> => spi_data_in = Head(tx_fifo)
      /\ ~control.tx_enable => spi_data_in = IdleByte
  BY Zenon DEF spi_data_in, tx_fifo_rvalid, IdleByte
<1>7. /\ iv <=> (control.tx_enable => tx_fifo # <<>>)
      /\ ro <=> (control.rx_enable => Len(rx_fifo) < RxFifoDepth)
  BY Zenon DEF tx_fifo_rvalid, rx_fifo_wready
<1> HIDE DEF cl, iv, ro, st, bc
<1>8. /\ in.sw_reset = cl /\ in.data_in = spi_data_in /\ in.data_in_valid = iv
      /\ in.data_out_ready = ro /\ in.start = st /\ in.byte_count = bc /\ in.cipo = dev.cipo
  BY <1>1
<1> QED
  BY <1>2, <1>3, <1>4, <1>5, <1>6, <1>7, <1>8, Zenon DEF CoreInputs, cl, st

-----------------------------------------------------------------------------
(***************************************************************************)
(* A cycle with the access of the software.                                *)
(***************************************************************************)

\* What the software does to the block in a cycle, and when.
SoftStep(acc) ==
    /\ acc.reg \in {"none", "STATUS", "RX_FIFO", "TX_FIFO", "START", "CS", "CONTROL"}
    /\ acc.reg = "RX_FIFO" => rx_fifo # <<>>
    /\ acc.reg = "TX_FIFO" =>
          /\ acc.data \in Byte /\ control.tx_enable /\ Len(tx_fifo) < TxFifoDepth
          /\ expected' = Append(expected, Ordered(acc.data)) /\ Todo' = Todo - 1
    /\ acc.reg = "START" =>
          /\ idle_o /\ acc.byte_count \in 1..ByteCounts - 1 /\ cs = 0 /\ Todo = 0
          /\ control.tx_enable => expected' = expected /\ Todo' = acc.byte_count
          /\ ~control.tx_enable =>
                expected' = expected \o [j \in 1..acc.byte_count |-> IdleByte] /\ Todo' = 0
    /\ acc.reg \notin {"TX_FIFO", "START"} => expected' = expected /\ Todo' = Todo
    /\ acc.reg = "CS" => Owed = 0 /\ acc.level \in Bit
    /\ acc.reg = "CONTROL" => idle_o /\ acc.fields \in ControlType /\ Todo = 0
    /\ Clears(acc) => tx_fifo = <<>> /\ rx_fifo = <<>>

In(acc) == CoreIn(acc, dev.cipo)

\* The core, the configuration, CONTROL and CS.
LEMMA CycleCore ==
    ASSUME CoreInv, DataInv, NEW acc, SoftStep(acc), Cycle(acc)
    PROVE  /\ Event(In(acc)) /\ CoreInv' /\ cfg' = cfg
           /\ CoreInputs(In(acc)) /\ (In(acc).start => In(acc).byte_count >= 1)
           /\ control' = IF acc.reg = "CONTROL" THEN acc.fields ELSE control
           /\ cs' = IF acc.reg = "CS" THEN acc.level ELSE cs
           /\ control' \in ControlType /\ cs' \in Bit
           /\ D!DevStep(sc.clk, sc'.clk, spi_copi_o, cs, cs')
           /\ Started(In(acc)) = IF acc.reg = "START" THEN acc.byte_count ELSE 0
           /\ idle_o /\ acc.reg # "START" => idle_o' /\ Taken(In(acc)) = 0 /\ Handed' = 0
<1> DEFINE in == In(acc)
<1>1. acc.reg = "START" => acc.byte_count \in 1..ByteCounts - 1
  BY Zenon DEF SoftStep
<1>2. /\ CoreInputs(in)
      /\ in.sw_reset <=> Clears(acc)
      /\ in.start <=> acc.reg = "START" /\ idle_o
      /\ in.start => in.byte_count = acc.byte_count /\ in.byte_count >= 1
  BY <1>1, Inputs, Zenon DEF In
<1>3. /\ SpiCoreClock(in) /\ cfg' = cfg
      /\ control' = IF acc.reg = "CONTROL" THEN acc.fields ELSE control
      /\ cs' = IF acc.reg = "CS" THEN acc.level ELSE cs
      /\ D!DevStep(sc.clk, sc'.clk, spi_copi_o, cs, cs')
  BY Zenon DEF Cycle, SpiClock, In
<1>4. in.sw_reset => idle_o /\ ~in.start
  BY <1>2, Zenon DEF SoftStep, Clears
<1> HIDE DEF in
<1>5. Event(in) /\ CoreInv'
  BY <1>2, <1>3, <1>4, CoreKept, Zenon
<1>6. control' \in ControlType /\ cs' \in Bit
  BY <1>3, Zenon DEF SoftStep, DataInv
<1>7. Started(in) = IF acc.reg = "START" THEN acc.byte_count ELSE 0
  BY <1>2, Zenon DEF Started, SoftStep
<1>8. ASSUME idle_o, acc.reg # "START" PROVE idle_o' /\ Taken(in) = 0 /\ Handed' = 0
  <2>1. ~in.start /\ ~active
    BY <1>2, <1>8, Zenon DEF idle_o, active
  <2>2. Rests(in)
    BY <1>5, <1>8, <2>1, Zenon DEF Event, Samples, Loads, Shifts, Finishes, Begins, Awaits
  <2> QED
    BY <1>8, <2>2, Zenon DEF Rests, idle_o, Taken, Handed
<1> QED
  BY <1>2, <1>3, <1>5, <1>6, <1>7, <1>8, Zenon DEF in

\* The bytes of a cycle.
LEMMA CycleCounts ==
    ASSUME CoreInv, DataInv, NEW acc, SoftStep(acc), Cycle(acc)
    PROVE  /\ Unloaded \in Nat /\ Unloaded' \in Nat
           /\ MidBytes \in {0, 1} /\ Handed \in {0, 1} /\ Handed' \in {0, 1}
           /\ Taken(In(acc)) \in {0, 1} /\ Started(In(acc)) \in Nat
           /\ Unloaded' = Unloaded + Started(In(acc)) - Taken(In(acc))
           /\ MidBytes' = MidBytes + Taken(In(acc)) - Handed'
           /\ Handed' = 1 => Samples(In(acc)) /\ sc.bit_count = 0
           /\ Samples(In(acc)) =>
                 Mid /\ Taken(In(acc)) = 0 /\ Started(In(acc)) = 0 /\ Owed >= 1
           /\ Taken(In(acc)) = 1 => ~Mid
           /\ Taken(In(acc)) = 1 => In(acc).data_in_valid \/ (active /\ sc.bit_count = ByteBits)
<1>1. /\ Event(In(acc)) /\ CoreInv' /\ cfg' = cfg
      /\ CoreInputs(In(acc)) /\ (In(acc).start => In(acc).byte_count >= 1)
  BY CycleCore, Zenon
<1> QED
  BY <1>1, Bookkeeping, Zenon

TxPop(acc) == IF control.tx_enable THEN Taken(In(acc)) ELSE 0
TxPush(acc) == IF acc.reg = "TX_FIFO" THEN 1 ELSE 0

\* The transmit FIFO loses the byte that spi_core takes and gains the one that
\* the software writes.
LEMMA CycleTxFifo ==
    ASSUME CoreInv, DataInv, TxInv, NEW acc, SoftStep(acc), Cycle(acc)
    PROVE  /\ tx_fifo' \in Seq(Byte) /\ Len(tx_fifo') <= TxFifoDepth
           /\ Len(tx_fifo) \in Nat /\ Len(tx_fifo') = Len(tx_fifo) - TxPop(acc) + TxPush(acc)
           /\ TxPop(acc) = 1 => Len(tx_fifo) >= 1
           /\ \A j \in 1..Len(tx_fifo) - TxPop(acc) : tx_fifo'[j] = tx_fifo[j + TxPop(acc)]
           /\ TxPush(acc) = 1 => tx_fifo'[Len(tx_fifo) - TxPop(acc) + 1] = acc.data
<1> DEFINE P == TxPop(acc)
           A == TxPush(acc)
           in == In(acc)
           push == acc.reg = "TX_FIFO"
           x == IF acc.reg = "TX_FIFO" THEN acc.data ELSE 0
           pop == control.tx_enable /\ data_in_ready_o(in)
<1>1. tx_fifo' = Fifo(tx_fifo, push, x, pop, TxFifoDepth, Clears(acc))
  BY Zenon DEF Cycle, SpiClock, In
<1>2. tx_fifo \in Seq(Byte) /\ Len(tx_fifo) <= TxFifoDepth /\ TxFifoDepth \in Nat
      /\ Len(tx_fifo) \in Nat
  BY SpiAssumption, LenProperties DEF DataInv
<1>3. push \in BOOLEAN /\ pop \in BOOLEAN
  BY Zenon DEF data_in_ready_o
<1>4. (push => x \in Byte) /\ (push => Len(tx_fifo) < TxFifoDepth)
  BY Zenon DEF SoftStep
<1>5. P = (IF pop THEN 1 ELSE 0) /\ A = IF push THEN 1 ELSE 0
  BY Zenon DEF Taken, TxPop, TxPush
<1>6. pop => tx_fifo # <<>>
  <2> SUFFICES ASSUME pop PROVE tx_fifo # <<>>
    OBVIOUS
  <2>1. Taken(in) = 1
    BY Zenon DEF Taken
  <2>2. in.data_in_valid \/ (active /\ sc.bit_count = ByteBits)
    BY <2>1, CycleCounts, Zenon
  <2>3. in.data_in_valid <=> (control.tx_enable => tx_fifo # <<>>)
    <3>1. acc.reg = "START" => acc.byte_count \in 1..ByteCounts - 1
      BY Zenon DEF SoftStep
    <3> QED
      BY <3>1, Inputs, Zenon DEF In
  <2> QED
    BY <2>2, <2>3, Zenon DEF TxInv
<1>7. CASE ~Clears(acc)
  <2>1. Clears(acc) = FALSE
    BY <1>7, Zenon DEF Clears
  <2>2. tx_fifo' = Fifo(tx_fifo, push, x, pop, TxFifoDepth, FALSE)
    BY <1>1, <2>1, Zenon
  <2> HIDE DEF push, x, pop
  <2>3. /\ tx_fifo' \in Seq(Byte) /\ Len(tx_fifo') = Len(tx_fifo) - P + A
        /\ Len(tx_fifo') <= TxFifoDepth
        /\ \A j \in 1..Len(tx_fifo) - P : tx_fifo'[j] = tx_fifo[j + P]
        /\ push => tx_fifo'[Len(tx_fifo) - P + 1] = x
        /\ tx_fifo # <<>> => Len(tx_fifo) >= 1
    <3>1. FifoStep(tx_fifo, push, x, pop, TxFifoDepth, tx_fifo')
      BY <1>2, <1>3, <1>4, <1>6, <2>2, FifoEffects, Zenon
    <3>2. P = Count(pop) /\ A = Count(push)
      BY <1>5, Zenon DEF Count
    <3> QED
      BY <3>1, <3>2, Zenon DEF FifoStep
  <2>4. (P = 1 => pop) /\ (A = 1 => push /\ x = acc.data)
    <3>1. 0 # 1
      BY SMT
    <3> QED
      BY <1>5, <3>1, Zenon DEF push, x, pop
  <2> QED
    BY <1>2, <1>6, <2>3, <2>4, Zenon
<1>8. CASE Clears(acc)
  <2>1. tx_fifo' = <<>> /\ tx_fifo = <<>>
    BY <1>1, <1>8, Zenon DEF Fifo, SoftStep
  <2>2. A = 0
    BY <1>8, Zenon DEF Clears, TxPush
  <2>3. P = 0
    BY <1>5, <1>6, <2>1, Zenon
  <2> QED
    BY <1>2, <2>1, <2>2, <2>3
<1> QED
  BY <1>7, <1>8

RxPop(acc) == IF acc.reg = "RX_FIFO" THEN 1 ELSE 0
RxPush(acc) == IF control.rx_enable THEN Handed ELSE 0

\* The receive FIFO gains the byte that spi_core hands over, and loses the one
\* that the software reads.
LEMMA CycleRxFifo ==
    ASSUME CoreInv, DataInv, RxInv, NEW acc, SoftStep(acc), Cycle(acc)
    PROVE  /\ rx_fifo' \in Seq(Byte) /\ Len(rx_fifo') <= RxFifoDepth
           /\ Len(rx_fifo) \in Nat /\ Len(rx_fifo') = Len(rx_fifo) - RxPop(acc) + RxPush(acc)
           /\ RxPop(acc) = 1 => Len(rx_fifo) >= 1
           /\ \A j \in 1..Len(rx_fifo) - RxPop(acc) : rx_fifo'[j] = rx_fifo[j + RxPop(acc)]
           /\ RxPush(acc) = 1 => rx_fifo'[Len(rx_fifo) - RxPop(acc) + 1] = Ordered(sc.cipo_shift)
<1> DEFINE P == RxPop(acc)
           A == RxPush(acc)
           push == control.rx_enable /\ sc.data_out_valid
           pop == acc.reg = "RX_FIFO"
<1>1. rx_fifo' = Fifo(rx_fifo, push, Ordered(sc.cipo_shift), pop, RxFifoDepth, Clears(acc))
  BY Zenon DEF Cycle, SpiClock, rx_fifo_wvalid, data_out_o
<1>2. rx_fifo \in Seq(Byte) /\ Len(rx_fifo) <= RxFifoDepth /\ RxFifoDepth \in Nat
      /\ Len(rx_fifo) \in Nat
  BY SpiAssumption, LenProperties DEF DataInv
<1>3. push \in BOOLEAN /\ pop \in BOOLEAN
  BY Zenon
<1>4. (push => Ordered(sc.cipo_shift) \in Byte) /\ (push => Len(rx_fifo) < RxFifoDepth)
  BY CoreFacts, OrderedByte, Zenon DEF RxInv
<1>5. P = (IF pop THEN 1 ELSE 0) /\ A = IF push THEN 1 ELSE 0
  BY Zenon DEF Handed, RxPop, RxPush
<1>6. pop => rx_fifo # <<>>
  BY Zenon DEF SoftStep
<1>7. CASE ~Clears(acc)
  <2>1. Clears(acc) = FALSE
    BY <1>7, Zenon DEF Clears
  <2>2. rx_fifo' = Fifo(rx_fifo, push, Ordered(sc.cipo_shift), pop, RxFifoDepth, FALSE)
    BY <1>1, <2>1, Zenon
  <2> HIDE DEF push, pop
  <2>3. /\ rx_fifo' \in Seq(Byte) /\ Len(rx_fifo') = Len(rx_fifo) - P + A
        /\ Len(rx_fifo') <= RxFifoDepth
        /\ \A j \in 1..Len(rx_fifo) - P : rx_fifo'[j] = rx_fifo[j + P]
        /\ push => rx_fifo'[Len(rx_fifo) - P + 1] = Ordered(sc.cipo_shift)
        /\ rx_fifo # <<>> => Len(rx_fifo) >= 1
    <3>1. FifoStep(rx_fifo, push, Ordered(sc.cipo_shift), pop, RxFifoDepth, rx_fifo')
      BY <1>2, <1>3, <1>4, <1>6, <2>2, FifoEffects, Zenon
    <3>2. P = Count(pop) /\ A = Count(push)
      BY <1>5, Zenon DEF Count
    <3> QED
      BY <3>1, <3>2, Zenon DEF FifoStep
  <2>4. (P = 1 => pop) /\ (A = 1 => push)
    <3>1. 0 # 1
      BY SMT
    <3>2. (~pop => P = 0) /\ (~push => A = 0)
      BY <1>5, Zenon
    <3> QED
      BY <3>1, <3>2, Zenon
  <2> QED
    BY <1>2, <1>6, <2>3, <2>4, Zenon
<1>8. CASE Clears(acc)
  <2>1. rx_fifo' = <<>> /\ rx_fifo = <<>>
    BY <1>1, <1>8, Zenon DEF Fifo, SoftStep
  <2>2. idle_o
    BY <1>8, Zenon DEF SoftStep, Clears
  <2>3. ~push
    BY <2>2, Zenon DEF CoreInv, idle_o, active
  <2>4. A = 0
    BY <1>5, <2>3, Zenon
  <2>5. P = 0
    BY <1>5, <1>6, <2>1, Zenon
  <2> QED
    BY <1>2, <2>1, <2>4, <2>5
<1> QED
  BY <1>7, <1>8

-----------------------------------------------------------------------------
(***************************************************************************)
(* The software.                                                           *)
(***************************************************************************)

PCs == {"reset", "ready", "wait", "control", "start", "fill", "drain", "end"}

LEMMA DrvFacts ==
    ASSUME DataInv
    PROVE  /\ drv.api \in {"legacy", "hal"} /\ drv.pc \in PCs
           /\ drv.call \in {"spi_tx", "spi_rx", "blocking_write"}
           /\ drv.i \in Nat /\ drv.len \in Nat /\ drv.avail \in Nat /\ drv.selects \in Nat
           /\ drv.i <= MaxFrames /\ drv.len <= MaxFrames /\ drv.selects <= MaxSelects
           /\ drv.avail <= LegacyDepth + HalDepth
           /\ MaxFrames \in Nat /\ MaxSelects \in Nat /\ LegacyDepth \in Nat /\ HalDepth \in Nat
           /\ LegacyAvail \in Nat \ {0}
BY SpiSystemAssumption DEF DataInv, DrvType, PCs

SameCall == drv'.api = drv.api /\ drv'.call = drv.call /\ drv'.len = drv.len

LEMMA DrvGoto ==
    ASSUME DataInv, NEW p \in PCs, drv' = [drv EXCEPT !.pc = p]
    PROVE  /\ drv' \in DrvType /\ SameCall
           /\ drv'.pc = p /\ drv'.i = drv.i /\ drv'.avail = drv.avail
<1>1. drv \in DrvType
  BY DEF DataInv
<1> QED
  BY <1>1 DEF DrvType, PCs, SameCall

LEMMA DrvSelects ==
    ASSUME DataInv, NEW n \in 0..MaxSelects, drv' = [drv EXCEPT !.selects = n]
    PROVE  /\ drv' \in DrvType /\ SameCall
           /\ drv'.pc = drv.pc /\ drv'.i = drv.i /\ drv'.avail = drv.avail
<1>1. drv \in DrvType
  BY DEF DataInv
<1> QED
  BY <1>1 DEF DrvType, SameCall

LEMMA DrvAvail ==
    ASSUME DataInv, NEW n \in 0..LegacyDepth + HalDepth, drv' = [drv EXCEPT !.avail = n]
    PROVE  /\ drv' \in DrvType /\ SameCall
           /\ drv'.pc = drv.pc /\ drv'.i = drv.i /\ drv'.avail = n
<1>1. drv \in DrvType
  BY DEF DataInv
<1> QED
  BY <1>1 DEF DrvType, SameCall

LEMMA DrvPush ==
    ASSUME DataInv, NEW k \in 0..MaxFrames, NEW n \in 0..LegacyDepth + HalDepth,
           drv' = [drv EXCEPT !.i = k, !.avail = n]
    PROVE  /\ drv' \in DrvType /\ SameCall
           /\ drv'.pc = drv.pc /\ drv'.i = k /\ drv'.avail = n
<1>1. drv \in DrvType
  BY DEF DataInv
<1> DEFINE u == [drv EXCEPT !.i = k]
<1>2. /\ u \in DrvType /\ u.api = drv.api /\ u.call = drv.call /\ u.len = drv.len
      /\ u.pc = drv.pc /\ u.i = k
  BY <1>1 DEF DrvType
<1>3. drv' = [u EXCEPT !.avail = n]
  BY Zenon
<1> HIDE DEF u
<1> QED
  BY <1>2, <1>3 DEF DrvType, SameCall

LEMMA DrvPop ==
    ASSUME DataInv, NEW k \in 0..MaxFrames, NEW p \in PCs,
           drv' = [drv EXCEPT !.i = k, !.pc = p]
    PROVE  /\ drv' \in DrvType /\ SameCall
           /\ drv'.pc = p /\ drv'.i = k /\ drv'.avail = drv.avail
<1>1. drv \in DrvType
  BY DEF DataInv
<1> DEFINE u == [drv EXCEPT !.i = k]
<1>2. /\ u \in DrvType /\ u.api = drv.api /\ u.call = drv.call /\ u.len = drv.len
      /\ u.avail = drv.avail /\ u.i = k
  BY <1>1 DEF DrvType
<1>3. drv' = [u EXCEPT !.pc = p]
  BY Zenon
<1> HIDE DEF u
<1> QED
  BY <1>2, <1>3 DEF DrvType, SameCall, PCs

LEMMA DrvEnter ==
    ASSUME DataInv, NEW p \in PCs, NEW c \in {"spi_tx", "spi_rx", "blocking_write"},
           NEW n \in 0..MaxFrames,
           drv' = [drv EXCEPT !.pc = p, !.call = c, !.i = 0, !.len = n, !.avail = 0]
    PROVE  /\ drv' \in DrvType /\ drv'.api = drv.api
           /\ drv'.pc = p /\ drv'.call = c /\ drv'.i = 0 /\ drv'.len = n /\ drv'.avail = 0
<1>1. drv \in DrvType /\ MaxFrames \in Nat
  BY DrvFacts DEF DataInv
<1> DEFINE u1 == [drv EXCEPT !.pc = p]
<1>2. u1 \in DrvType /\ u1.api = drv.api /\ u1.pc = p
  BY <1>1 DEF DrvType, PCs
<1> DEFINE u2 == [u1 EXCEPT !.call = c]
<1> HIDE DEF u1
<1>3. u2 \in DrvType /\ u2.api = drv.api /\ u2.pc = p /\ u2.call = c
  BY <1>2 DEF DrvType
<1> DEFINE u3 == [u2 EXCEPT !.i = 0]
<1> HIDE DEF u2
<1>4. u3 \in DrvType /\ u3.api = drv.api /\ u3.pc = p /\ u3.call = c /\ u3.i = 0
  BY <1>1, <1>3 DEF DrvType
<1> DEFINE u4 == [u3 EXCEPT !.len = n]
<1> HIDE DEF u3
<1>5. u4 \in DrvType /\ u4.api = drv.api /\ u4.pc = p /\ u4.call = c /\ u4.i = 0 /\ u4.len = n
  BY <1>4 DEF DrvType
<1>6. drv' = [u4 EXCEPT !.avail = 0]
  BY Zenon DEF u1, u2, u3
<1>7. 0 \in 0..LegacyDepth + HalDepth
  BY DrvFacts
<1> HIDE DEF u4
<1> QED
  BY <1>5, <1>6, <1>7 DEF DrvType

-----------------------------------------------------------------------------
(***************************************************************************)
(* The bytes on their way to the device.                                   *)
(***************************************************************************)

\* The device samples exactly when the core does, and has a byte complete
\* exactly when the core hands one over.
LEMMA CycleDevice ==
    ASSUME CoreInv, DataInv, TxInv, WireInv, NEW acc, SoftStep(acc), Cycle(acc)
    PROVE  /\ dev' \in D!DevType /\ dev'.bReading \in BOOLEAN
           /\ dev'.inByte \in [1..dev'.inBits -> Bit] /\ dev'.outByte \in [1..dev'.outBits -> Bit]
           /\ received' \in Seq(Byte) /\ Len(received) \in Nat
           /\ Samples(In(acc)) => Rising /\ DevTakesBit /\ Mid
           /\ ~Samples(In(acc)) => ~Rising /\ DevKeepsIn
           /\ Samples(In(acc)) => (sc.bit_count = 0 <=> dev.inBits + 1 >= ByteBits)
           /\ Samples(In(acc)) => dev.inBits = ByteBits - 1 - sc.bit_count
           /\ Len(received') = Len(received) + Handed'
           /\ Handed' = 0 => received' = received
<1> DEFINE in == In(acc)
<1>1. /\ Event(in) /\ CoreInv' /\ cs' \in Bit
      /\ D!DevStep(sc.clk, sc'.clk, spi_copi_o, cs, cs')
      /\ cs' = IF acc.reg = "CS" THEN acc.level ELSE cs
  BY CycleCore, Zenon
<1>2. /\ dev' \in D!DevType /\ dev'.bReading \in BOOLEAN
      /\ dev'.inByte \in [1..dev'.inBits -> Bit] /\ dev'.outByte \in [1..dev'.outBits -> Bit]
      /\ received' \in Seq(Byte)
      /\ Rising => DevTakesBit
      /\ ~Rising => DevKeepsIn
  BY <1>1, DevEffects, Zenon
<1>3. received \in Seq(Byte) /\ Len(received) \in Nat
  BY LenProperties, Zenon DEF DataInv
<1>4. ByteBits \in Nat /\ sc.bit_count \in Nat /\ dev.inBits \in Nat /\ cs \in {0, 1}
  BY CoreFacts, DevFacts DEF DataInv, Bit
<1>5. Handed' = 1 => Samples(in) /\ sc.bit_count = 0
  BY CycleCounts, Zenon
<1>6. Handed' \in {0, 1}
  BY CycleCounts, Zenon
<1>7. CASE Samples(in)
  <2>1. Mid /\ ~sc.sample_phase /\ Owed >= 1 /\ Owed # 0
    <3>1. Mid /\ Owed >= 1 /\ Unloaded \in Nat /\ MidBytes \in {0, 1}
      BY <1>7, CycleCounts, Zenon
    <3>2. ~sc.sample_phase
      BY <1>7, Zenon DEF Samples
    <3> QED
      BY <3>1, <3>2 DEF Owed
  <2>2. cs # 1 /\ acc.reg # "CS"
    BY <2>1, Zenon DEF TxInv, SoftStep
  <2>3. cs' = 0
    <3>1. cs = 0
      BY <1>4, <2>2, Zenon
    <3> QED
      BY <1>1, <2>2, <3>1, Zenon
  <2>4. Rising
    BY <1>7, <2>3, Zenon DEF Rising, Samples
  <2>5. dev.inBits = ByteBits - 1 - sc.bit_count
    BY <2>1, Zenon DEF WireInv
  <2>6. sc.bit_count = 0 <=> dev.inBits + 1 >= ByteBits
    BY <1>4, <2>5
  <2>7. Handed' = 1 <=> sc.bit_count = 0
    <3>1. sc'.data_out_valid <=> sc.bit_count = 0
      BY <1>7, Zenon DEF Samples
    <3>2. 0 # 1
      BY SMT
    <3> QED
      BY <3>1, <3>2, Zenon DEF Handed
  <2>8. CASE sc.bit_count = 0
    <3> DEFINE b == Append(dev.inByte, sc.copi_shift[1])
    <3>1. received' = Append(received, b) /\ Handed' = 1
      BY <1>2, <2>4, <2>6, <2>7, <2>8, Zenon DEF DevTakesBit
    <3>2. Len(received') = Len(received) + 1
      <4> HIDE DEF b
      <4> QED
        BY <1>3, <3>1
    <3>3. Handed' # 0
      BY <3>1
    <3> QED
      BY <1>2, <1>3, <1>7, <2>1, <2>4, <2>5, <2>6, <3>1, <3>2, <3>3, Zenon
  <2>9. CASE sc.bit_count # 0
    <3>1. received' = received
      BY <1>2, <2>4, <2>6, <2>9, Zenon DEF DevTakesBit
    <3>2. Handed' = 0
      BY <1>6, <2>7, <2>9, Zenon
    <3>3. Len(received) + 0 = Len(received)
      BY <1>3
    <3> QED
      BY <1>2, <1>3, <1>7, <2>1, <2>4, <2>5, <2>6, <3>1, <3>2, <3>3, Zenon
  <2> QED
    BY <2>8, <2>9
<1>8. CASE ~Samples(in)
  <2>1. ~Rising
    <3>1. 0 # 1
      BY SMT
    <3> QED
      BY <1>1, <1>8, <3>1, Zenon DEF Event, Loads, Shifts, Finishes, Begins, Awaits, Rests, Rising
  <2>2. Handed' = 0
    BY <1>5, <1>6, <1>8, Zenon
  <2>3. received' = received
    BY <1>2, <2>1, Zenon DEF DevKeepsIn
  <2>4. Len(received) + 0 = Len(received)
    BY <1>3
  <2> QED
    BY <1>2, <1>3, <1>8, <2>1, <2>2, <2>3, <2>4, Zenon
<1> QED
  BY <1>7, <1>8

\* Nothing happens to an idle block without START.
LEMMA IdleFacts ==
    ASSUME CoreInv, DataInv, TxInv, idle_o, Todo = 0
    PROVE  /\ Unloaded = 0 /\ MidBytes = 0 /\ Owed = 0 /\ ~Mid
           /\ tx_fifo = <<>> /\ Len(expected) = Len(received)
<1>1. Unloaded = 0 /\ MidBytes = 0 /\ ~Mid
  BY Zenon DEF Unloaded, MidBytes, Mid, idle_o, active
<1>2. Owed = 0
  BY <1>1 DEF Owed
<1>3. /\ tx_fifo \in Seq(Byte) /\ Len(tx_fifo) \in Nat /\ Len(received) \in Nat
      /\ Len(expected) \in Nat
  BY LenProperties, Zenon DEF DataInv
<1>4. CASE control.tx_enable
  <2>1. /\ 0 = Len(tx_fifo) + 0
        /\ Len(expected) = Len(received) + Len(tx_fifo) + 0
    BY <1>1, <1>4, Zenon DEF TxInv
  <2>2. Len(tx_fifo) = 0 /\ Len(expected) = Len(received)
    BY <1>3, <2>1
  <2>3. tx_fifo = <<>>
    BY <1>3, <2>2, EmptySeq
  <2> QED
    BY <1>1, <1>2, <2>2, <2>3
<1>5. CASE ~control.tx_enable
  <2>1. tx_fifo = <<>> /\ Len(expected) = Len(received) + 0
    BY <1>2, <1>5, Zenon DEF TxInv
  <2> QED
    BY <1>1, <1>2, <1>3, <2>1
<1> QED
  BY <1>4, <1>5

\* What the device is to receive only grows.
LEMMA CycleExpected ==
    ASSUME CoreInv, DataInv, NEW acc, SoftStep(acc)
    PROVE  /\ expected' \in Seq(Byte) /\ Len(expected) \in Nat /\ Len(expected') \in Nat
           /\ Len(expected') >= Len(expected)
           /\ \A j \in 1..Len(expected) : expected'[j] = expected[j]
           /\ acc.reg = "TX_FIFO" =>
                 /\ Len(expected') = Len(expected) + 1
                 /\ expected'[Len(expected) + 1] = Ordered(acc.data)
           /\ acc.reg = "START" /\ ~control.tx_enable =>
                 /\ Len(expected') = Len(expected) + acc.byte_count
                 /\ \A j \in 1..Len(expected') : j > Len(expected) => expected'[j] = IdleByte
           /\ acc.reg # "TX_FIFO" /\ ~(acc.reg = "START" /\ ~control.tx_enable) =>
                 expected' = expected
<1>1. expected \in Seq(Byte) /\ Len(expected) \in Nat
  BY LenProperties, Zenon DEF DataInv
<1>2. CASE acc.reg = "TX_FIFO"
  <2> DEFINE b == Ordered(acc.data)
  <2>1. b \in Byte
    BY <1>2, OrderedByte, Zenon DEF SoftStep
  <2>2. expected' = Append(expected, b)
    BY <1>2, Zenon DEF SoftStep
  <2> HIDE DEF b
  <2>3. /\ expected' \in Seq(Byte) /\ Len(expected') = Len(expected) + 1
        /\ expected'[Len(expected) + 1] = b
        /\ \A j \in 1..Len(expected) : expected'[j] = expected[j]
    BY <1>1, <2>1, <2>2
  <2>4. acc.reg # "START" /\ Len(expected') \in Nat /\ Len(expected') >= Len(expected)
    BY <1>1, <1>2, <2>3
  <2> QED
    BY <1>1, <1>2, <2>3, <2>4, Zenon DEF b
<1>3. CASE acc.reg = "START" /\ ~control.tx_enable
  <2> DEFINE n == acc.byte_count
             q == [j \in 1..n |-> IdleByte]
  <2>1. n \in Nat
    BY <1>3, SpiCoreAssumption DEF SoftStep
  <2>2. IdleByte \in Byte
    BY CoreFacts DEF IdleByte, Byte, Bit
  <2>3. expected' = expected \o q
    BY <1>3, Zenon DEF SoftStep
  <2>4. q \in Seq(Byte) /\ Len(q) = n
    <3>1. q \in [1..n -> Byte]
      BY <2>2, Zenon
    <3> HIDE DEF q, n
    <3> QED
      BY <2>1, <3>1, FunIsSeq, Zenon
  <2>5. \A j \in 1..n : q[j] = IdleByte
    OBVIOUS
  <2> HIDE DEF q, n
  <2>6. /\ expected' \in Seq(Byte) /\ Len(expected') = Len(expected) + n
        /\ \A j \in 1..Len(expected) : expected'[j] = expected[j]
        /\ \A j \in 1..Len(expected') : j > Len(expected) => expected'[j] = q[j - Len(expected)]
    BY <1>1, <2>1, <2>3, <2>4
  <2>7. \A j \in 1..Len(expected') : j > Len(expected) => expected'[j] = IdleByte
    BY <1>1, <2>1, <2>5, <2>6
  <2>8. acc.reg # "TX_FIFO" /\ Len(expected') \in Nat /\ Len(expected') >= Len(expected)
    BY <1>1, <1>3, <2>1, <2>6
  <2> QED
    BY <1>1, <1>3, <2>6, <2>7, <2>8, Zenon DEF n
<1>4. CASE acc.reg # "TX_FIFO" /\ ~(acc.reg = "START" /\ ~control.tx_enable)
  <2>1. expected' = expected
    BY <1>4, Zenon DEF SoftStep
  <2>2. Len(expected) >= Len(expected)
    BY <1>1
  <2> QED
    BY <1>1, <1>4, <2>1, <2>2, Zenon
<1> QED
  BY <1>2, <1>3, <1>4, Zenon

\* Bytes owed to the device, and the order of the bytes in the core.
LEMMA CycleOwed ==
    ASSUME CoreInv, DataInv, NEW acc, SoftStep(acc), Cycle(acc)
    PROVE  /\ Owed \in Nat /\ Owed' = Owed + Started(In(acc)) - Handed'
           /\ Owed = 0 /\ acc.reg # "START" => Owed' = 0 /\ Handed' = 0
<1> DEFINE S == Started(In(acc))
           T == Taken(In(acc))
<1>1. /\ Unloaded \in Nat /\ Unloaded' \in Nat /\ MidBytes \in {0, 1}
      /\ Handed' \in {0, 1} /\ T \in {0, 1} /\ S \in Nat
      /\ Unloaded' = Unloaded + S - T /\ MidBytes' = MidBytes + T - Handed'
      /\ Handed' = 1 => Owed >= 1
  BY CycleCounts, Zenon
<1>2. acc.reg # "START" => S = 0
  BY CycleCore, Zenon
<1>3. Owed = Unloaded + MidBytes /\ Owed' = Unloaded' + MidBytes'
  BY DEF Owed
<1> HIDE DEF S, T
<1>4. Owed \in Nat /\ Owed' = Owed + S - Handed'
  BY <1>1, <1>3
<1>5. Owed = 0 /\ acc.reg # "START" => Owed' = 0 /\ Handed' = 0
  <2>1. SUFFICES ASSUME Owed = 0, S = 0 PROVE Owed' = 0 /\ Handed' = 0
    BY <1>2, Zenon
  <2>2. Handed' = 0
    BY <1>1, <1>4, <2>1
  <2> QED
    BY <1>4, <2>1, <2>2
<1> QED
  BY <1>4, <1>5, Zenon DEF S

\* The byte counts, the FIFO and the expected bytes stay in step.
LEMMA TxKept ==
    ASSUME CoreInv, DataInv, TxInv, WireInv, NEW acc, SoftStep(acc), Cycle(acc)
    PROVE  TxInv'
<1> DEFINE in == In(acc)
           S == Started(in)
           T == Taken(in)
           P == TxPop(acc)
           A == TxPush(acc)
<1>1. /\ Event(in) /\ CoreInv' /\ cfg' = cfg
      /\ control' = IF acc.reg = "CONTROL" THEN acc.fields ELSE control
      /\ cs' = IF acc.reg = "CS" THEN acc.level ELSE cs
      /\ S = IF acc.reg = "START" THEN acc.byte_count ELSE 0
      /\ idle_o /\ acc.reg # "START" => idle_o' /\ T = 0 /\ Handed' = 0
  BY CycleCore, Zenon
<1>2. /\ Unloaded \in Nat /\ Unloaded' \in Nat /\ MidBytes \in {0, 1}
      /\ Handed' \in {0, 1} /\ T \in {0, 1} /\ S \in Nat
      /\ Unloaded' = Unloaded + S - T /\ MidBytes' = MidBytes + T - Handed'
  BY CycleCounts, Zenon
<1>3. /\ tx_fifo' \in Seq(Byte) /\ Len(tx_fifo) \in Nat
      /\ Len(tx_fifo') = Len(tx_fifo) - P + A
      /\ P = 1 => Len(tx_fifo) >= 1
      /\ \A j \in 1..Len(tx_fifo) - P : tx_fifo'[j] = tx_fifo[j + P]
      /\ A = 1 => tx_fifo'[Len(tx_fifo) - P + 1] = acc.data
  BY CycleTxFifo, Zenon
<1>4. received' \in Seq(Byte) /\ Len(received) \in Nat /\ Len(received') = Len(received) + Handed'
  BY CycleDevice, Zenon
<1>5. /\ expected' \in Seq(Byte) /\ Len(expected) \in Nat /\ Len(expected') \in Nat
      /\ Len(expected') >= Len(expected)
      /\ \A j \in 1..Len(expected) : expected'[j] = expected[j]
  BY CycleExpected, Zenon
<1>6. /\ Owed \in Nat /\ Owed' = Owed + S - Handed'
      /\ Owed = 0 /\ acc.reg # "START" => Owed' = 0
  BY CycleOwed, Zenon
<1>7. \A b : Ordered(b)' = Ordered(b)
  BY <1>1, Zenon DEF Ordered, bit_reverse
<1>8. A \in {0, 1} /\ P \in {0, 1} /\ tx_fifo \in Seq(Byte) /\ expected \in Seq(Byte)
  <2>1. A \in {0, 1}
    BY Zenon DEF TxPush
  <2>2. P \in {0, 1}
    BY <1>2, Zenon DEF TxPop
  <2> QED
    BY <2>1, <2>2, Zenon DEF DataInv
<1> HIDE DEF in, S, T, P, A
<1>10. cs' = 1 => Owed' = 0
  <2>1. SUFFICES ASSUME cs' = 1 PROVE Owed' = 0
    OBVIOUS
  <2>2. CASE acc.reg = "CS"
    <3>1. Owed = 0 /\ acc.reg # "START"
      BY <2>2, Zenon DEF SoftStep
    <3> QED
      BY <1>6, <3>1, Zenon
  <2>3. CASE acc.reg # "CS"
    <3>1. cs = 1 /\ cs # 0
      BY <1>1, <2>1, <2>3
    <3>2. Owed = 0 /\ acc.reg # "START"
      BY <3>1, Zenon DEF SoftStep, TxInv
    <3> QED
      BY <1>6, <3>2, Zenon
  <2> QED
    BY <2>2, <2>3
<1>11. active' /\ sc'.bit_count = ByteBits /\ control'.tx_enable => tx_fifo' # <<>>
  <2>1. SUFFICES ASSUME active', sc'.bit_count = ByteBits, control'.tx_enable
                 PROVE  tx_fifo' # <<>>
    OBVIOUS
  <2>2. sc.bit_count \in Nat /\ ByteBits \in Nat /\ ByteBits > 1
    BY CoreFacts, Zenon
  <2>3. acc.reg # "CONTROL" /\ control' = control
    <3>1. acc.reg = "CONTROL" => idle_o'
      BY <1>1, Zenon DEF SoftStep
    <3> QED
      BY <1>1, <2>1, <3>1, Zenon DEF idle_o, active
  <2>4. ~Loads(in) /\ ~Shifts(in)
    <3>1. ~Loads(in)
      BY <2>1, <2>2 DEF Loads
    <3>2. ~Shifts(in)
      BY <2>1, <2>2 DEF Shifts
    <3> QED
      BY <3>1, <3>2
  <2>5. ~Samples(in)
    <3>1. Samples(in) => active /\ ~sc.sample_phase /\ sc.bit_count = ByteBits
      BY <2>1, Zenon DEF Samples, SameBits
    <3>2. ~(sc.bit_count = ByteBits /\ sc.bit_count < ByteBits)
      BY <2>2
    <3> QED
      BY <3>1, <3>2, Zenon DEF CoreInv
  <2>6. ~Finishes(in) /\ ~Awaits(in)
    <3>1. Finishes(in) => sc'.state = "IDLE"
      BY Zenon DEF Finishes
    <3>2. Awaits(in) => sc'.state = "WAIT_START"
      BY Zenon DEF Awaits
    <3> QED
      BY <2>1, <3>1, <3>2 DEF active
  <2>7. T = 0 /\ tx_fifo # <<>>
    <3>1. CASE Begins(in)
      <4>1. Full = ByteBits
        BY <2>1, <3>1, Zenon DEF Begins
      <4>2. cfg.cpha
        BY <2>2, <4>1 DEF Full
      <4>3. ~data_in_ready_o(in) /\ in.data_in_valid
        BY <3>1, <4>2, Zenon DEF Begins
      <4>4. acc.reg = "START" => acc.byte_count \in 1..ByteCounts - 1
        BY Zenon DEF SoftStep
      <4>5. in.data_in_valid <=> (control.tx_enable => tx_fifo # <<>>)
        BY <4>4, Inputs, Zenon DEF in, In
      <4> QED
        BY <2>1, <2>3, <4>3, <4>5, Zenon DEF T, Taken
    <3>2. CASE Rests(in)
      <4>1. ~data_in_ready_o(in) /\ active /\ sc.bit_count = ByteBits
        BY <2>1, <3>2, Zenon DEF Rests, SameBits, active
      <4> QED
        BY <2>1, <2>3, <4>1, Zenon DEF T, Taken, TxInv
    <3> QED
      BY <1>1, <2>4, <2>5, <2>6, <3>1, <3>2, Zenon DEF Event
  <2>8. P = 0
    BY <2>7, Zenon DEF P, TxPop, T, in
  <2>9. Len(tx_fifo) # 0
    BY <1>8, <2>7, EmptySeq, Zenon
  <2>10. Len(tx_fifo') # 0
    BY <1>3, <1>8, <2>8, <2>9
  <2> QED
    BY <2>10
<1>12. CASE acc.reg = "CONTROL"
  <2>1. idle_o /\ Todo = 0 /\ Todo' = Todo /\ expected' = expected /\ acc.reg # "START" /\ A = 0
    BY <1>12, Zenon DEF SoftStep, A, TxPush
  <2>2. /\ Unloaded = 0 /\ MidBytes = 0 /\ Owed = 0
        /\ tx_fifo = <<>> /\ Len(expected) = Len(received)
    BY <2>1, IdleFacts, Zenon
  <2>3. T = 0 /\ Handed' = 0 /\ S = 0
    BY <1>1, <2>1, Zenon
  <2>4. P = 0
    BY <2>3, Zenon DEF P, TxPop, T, in
  <2>5. Len(tx_fifo') = 0
    BY <1>3, <2>1, <2>2, <2>4
  <2>6. tx_fifo' = <<>>
    BY <1>3, <2>5, EmptySeq, Zenon
  <2>7. /\ Unloaded' = 0 /\ MidBytes' = 0 /\ Owed' = 0 /\ Todo' = 0
        /\ Len(expected') = Len(received')
    BY <1>2, <1>4, <1>6, <2>1, <2>2, <2>3
  <2>8. /\ Unloaded' = Len(tx_fifo') + Todo'
        /\ Len(expected') = Len(received') + Len(tx_fifo') + MidBytes'
        /\ Len(expected') = Len(received') + Owed'
        /\ \A j \in 1..Len(tx_fifo') : FALSE
        /\ \A j \in 1..Len(expected') : ~(j > Len(received') + MidBytes')
    BY <1>5, <2>5, <2>7
  <2> QED
    BY <1>10, <1>11, <2>6, <2>7, <2>8, Zenon DEF TxInv
<1>13. CASE acc.reg # "CONTROL" /\ control.tx_enable
  <2>1. control' = control /\ P = T
    BY <1>1, <1>13, Zenon DEF P, TxPop, T, in
  <2>2. /\ Unloaded = Len(tx_fifo) + Todo
        /\ Len(expected) = Len(received) + Len(tx_fifo) + MidBytes
        /\ \A j \in 1..Len(tx_fifo) : expected[Len(received) + MidBytes + j] = Ordered(tx_fifo[j])
    BY <1>13, Zenon DEF TxInv
  <2>3. Todo \in Int /\ Todo' = Todo + S - A /\ Len(expected') = Len(expected) + A
    <3>1. Todo \in Int
      BY <1>2, <1>3, DrvFacts DEF Todo
    <3>2. CASE acc.reg = "TX_FIFO"
      <4>1. A = 1 /\ S = 0 /\ Todo' = Todo - 1
        BY <1>1, <3>2 DEF A, TxPush, SoftStep
      <4>2. Len(expected') = Len(expected) + 1
        BY <3>2, CycleExpected, Zenon
      <4> QED
        BY <3>1, <4>1, <4>2
    <3>3. CASE acc.reg = "START"
      <4>1. A = 0 /\ S = acc.byte_count /\ Todo' = acc.byte_count /\ Todo = 0 /\ expected' = expected
        BY <1>1, <1>13, <3>3 DEF A, TxPush, SoftStep
      <4> QED
        BY <1>2, <1>5, <4>1
    <3>4. CASE acc.reg \notin {"TX_FIFO", "START"}
      <4>1. A = 0 /\ S = 0 /\ Todo' = Todo /\ expected' = expected
        BY <1>1, <3>4, Zenon DEF A, TxPush, SoftStep
      <4> QED
        BY <1>5, <3>1, <4>1
    <3> QED
      BY <3>2, <3>3, <3>4
  <2>4. /\ Unloaded' = Len(tx_fifo') + Todo'
        /\ Len(expected') = Len(received') + Len(tx_fifo') + MidBytes'
    <3>1. /\ Len(tx_fifo) \in Nat /\ Len(tx_fifo') = Len(tx_fifo) - T + A
          /\ Len(expected) = Len(received) + Len(tx_fifo) + MidBytes
          /\ Unloaded = Len(tx_fifo) + Todo
      BY <1>3, <2>1, <2>2, Zenon
    <3>2. A \in Int /\ T \in Int /\ S \in Int /\ Handed' \in Int /\ MidBytes \in Int
      BY <1>2, <1>8
    <3>3. Unloaded' = Len(tx_fifo') + Todo'
      BY <1>2, <2>3, <3>1, <3>2
    <3>4. Len(expected') = Len(received') + Len(tx_fifo') + MidBytes'
      <4>1. Len(received') + Len(tx_fifo') + MidBytes'
               = (Len(received) + Handed') + (Len(tx_fifo) - T + A) + (MidBytes + T - Handed')
        BY <1>2, <1>4, <3>1, Zenon
      <4>2. Len(expected') = (Len(received) + Len(tx_fifo) + MidBytes) + A
        BY <2>3, <3>1, Zenon
      <4>3. Len(received) \in Int
        BY <1>4
      <4>4. Len(tx_fifo) \in Int /\ T \in Int /\ A \in Int /\ Handed' \in Int /\ MidBytes \in Int
        BY <3>1, <3>2
      <4> DEFINE a == Len(received)
                 q == Len(tx_fifo)
                 h == Handed'
                 m == MidBytes
      <4> HIDE DEF a, q, h, m
      <4>5. a \in Int /\ q \in Int /\ h \in Int /\ m \in Int
        BY <4>3, <4>4 DEF a, q, h, m
      <4>6. (a + h) + (q - T + A) + (m + T - h) = (a + q + m) + A
        BY <4>4, <4>5
      <4> QED
        BY <4>1, <4>2, <4>6, Zenon DEF a, q, h, m
    <3> QED
      BY <3>3, <3>4
  <2>5. \A j \in 1..Len(tx_fifo') :
           expected'[Len(received) + MidBytes + P + j] = Ordered(tx_fifo'[j])
    <3>1. A = 1 => expected'[Len(expected) + 1] = Ordered(tx_fifo'[Len(tx_fifo) - P + 1])
      <4>1. A = 1 => acc.reg = "TX_FIFO"
        BY DEF A, TxPush
      <4> QED
        BY <1>3, <4>1, CycleExpected, Zenon
    <3>2. /\ Len(received) + MidBytes \in Nat /\ P <= Len(tx_fifo)
          /\ Len(expected) = (Len(received) + MidBytes) + Len(tx_fifo)
      <4>1. /\ Len(received) \in Nat /\ MidBytes \in {0, 1} /\ Len(tx_fifo) \in Nat
            /\ P \in {0, 1} /\ (P = 1 => Len(tx_fifo) >= 1)
            /\ Len(expected) = Len(received) + Len(tx_fifo) + MidBytes
        BY <1>2, <1>3, <1>4, <1>8, <2>2, Zenon
      <4> DEFINE a == Len(received)
                 q == Len(tx_fifo)
                 x == Len(expected)
      <4> HIDE DEF a, q, x
      <4>2. /\ a \in Nat /\ MidBytes \in {0, 1} /\ q \in Nat
            /\ P \in {0, 1} /\ (P = 1 => q >= 1) /\ x = a + q + MidBytes
        BY <4>1, Zenon DEF a, q, x
      <4>3. a + MidBytes \in Nat /\ P <= q /\ x = (a + MidBytes) + q
        BY <4>2
      <4> QED
        BY <4>3, Zenon DEF a, q, x
    <3>3. SUFFICES ASSUME NEW j \in 1..Len(tx_fifo')
                   PROVE  expected'[Len(received) + MidBytes + P + j] = Ordered(tx_fifo'[j])
      OBVIOUS
    <3>4. j \in Nat /\ j >= 1 /\ j <= Len(tx_fifo) - P + A
      BY <1>3, <1>8
    <3>5. CASE j <= Len(tx_fifo) - P
      <4>1. /\ j \in 1..Len(tx_fifo) - P /\ j + P \in 1..Len(tx_fifo)
            /\ Len(received) + MidBytes + (j + P) \in 1..Len(expected)
            /\ Len(received) + MidBytes + P + j = Len(received) + MidBytes + (j + P)
        <5> DEFINE a == Len(received) + MidBytes
                   q == Len(tx_fifo)
                   x == Len(expected)
        <5> HIDE DEF a, q, x
        <5>1. a \in Nat /\ q \in Nat /\ P \in {0, 1} /\ P <= q /\ x = a + q
          BY <1>3, <1>8, <3>2, Zenon DEF a, q, x
        <5>2. j \in Nat /\ j >= 1 /\ j <= q - P
          BY <3>4, <3>5 DEF q
        <5>3. /\ j \in 1..q - P /\ j + P \in 1..q /\ a + (j + P) \in 1..x
              /\ a + P + j = a + (j + P)
          BY <5>1, <5>2
        <5> QED
          BY <5>3, Zenon DEF a, q, x
      <4>2. tx_fifo'[j] = tx_fifo[j + P]
        BY <1>3, <4>1, Zenon
      <4>3. /\ expected[Len(received) + MidBytes + (j + P)] = Ordered(tx_fifo[j + P])
            /\ expected'[Len(received) + MidBytes + (j + P)]
                  = expected[Len(received) + MidBytes + (j + P)]
        BY <1>5, <2>2, <4>1, Zenon
      <4> QED
        BY <4>1, <4>2, <4>3, Zenon
    <3>6. CASE j > Len(tx_fifo) - P
      <4>1. /\ A = 1 /\ j = Len(tx_fifo) - P + 1
            /\ Len(received) + MidBytes + P + j = Len(expected) + 1
        <5>1. Len(tx_fifo) \in Int /\ P \in Int /\ Len(received) \in Int /\ MidBytes \in Int
          BY <1>2, <1>3, <1>4, <1>8
        <5>2. A = 1 /\ j = Len(tx_fifo) - P + 1
          BY <1>8, <3>4, <3>6, <5>1
        <5> QED
          BY <3>2, <5>1, <5>2
      <4> QED
        BY <3>1, <4>1, Zenon
    <3> QED
      BY <1>3, <1>8, <3>4, <3>5, <3>6
  <2>6. Len(received') + MidBytes' = Len(received) + MidBytes + P
    BY <1>2, <1>4, <2>1
  <2>7. \A j \in 1..Len(tx_fifo') :
           expected'[Len(received') + MidBytes' + j] = (Ordered(tx_fifo[j]))'
    <3>1. \A j \in 1..Len(tx_fifo') : expected'[Len(received') + MidBytes' + j] = Ordered(tx_fifo'[j])
      BY <2>5, <2>6, Zenon
    <3> QED
      BY <1>1, <3>1, Zenon DEF Ordered, bit_reverse
  <2> QED
    BY <1>10, <1>11, <1>13, <2>1, <2>4, <2>7, Zenon DEF TxInv
<1>14. CASE acc.reg # "CONTROL" /\ ~control.tx_enable
  <2>1. control' = control /\ P = 0 /\ acc.reg # "TX_FIFO" /\ A = 0
    BY <1>1, <1>14, Zenon DEF P, A, TxPop, TxPush, SoftStep
  <2>2. /\ tx_fifo = <<>> /\ Todo = 0 /\ Len(expected) = Len(received) + Owed
        /\ \A j \in 1..Len(expected) : j > Len(received) + MidBytes => expected[j] = IdleByte
    BY <1>14, Zenon DEF TxInv
  <2>3. tx_fifo' = <<>>
    <3>1. Len(tx_fifo') = 0
      BY <1>3, <2>1, <2>2
    <3> QED
      BY <1>3, <3>1, EmptySeq, Zenon
  <2>4. /\ Todo' = 0 /\ Len(expected') = Len(expected) + S
        /\ \A j \in 1..Len(expected') : j > Len(expected) => expected'[j] = IdleByte
    <3>1. CASE acc.reg = "START"
      <4>1. S = acc.byte_count /\ Todo' = 0
        BY <1>1, <1>14, <3>1, Zenon DEF SoftStep
      <4> QED
        BY <1>14, <3>1, <4>1, CycleExpected, Zenon
    <3>2. CASE acc.reg # "START"
      <4>1. S = 0 /\ Todo' = 0 /\ expected' = expected
        BY <1>1, <2>1, <2>2, <3>2, Zenon DEF SoftStep
      <4> QED
        BY <1>5, <4>1
    <3> QED
      BY <3>1, <3>2
  <2>5. Len(expected') = Len(received') + Owed'
    <3>1. Len(expected') = Len(expected) + S /\ Len(expected) = Len(received) + Owed
      BY <2>2, <2>4, Zenon
    <3>2. S \in Int /\ Handed' \in Int /\ Owed \in Int /\ Owed' = Owed + S - Handed'
      BY <1>2, <1>6
    <3> QED
      BY <1>4, <3>1, <3>2
  <2>6. \A j \in 1..Len(expected') : j > Len(received') + MidBytes' => expected'[j] = IdleByte'
    <3>1. SUFFICES ASSUME NEW j \in 1..Len(expected'), j > Len(received') + MidBytes'
                   PROVE  expected'[j] = IdleByte'
      OBVIOUS
    <3>2. IdleByte' = IdleByte
      BY <1>1, Zenon DEF IdleByte
    <3>3. j > Len(received) + MidBytes
      BY <1>2, <1>4, <1>5, <3>1
    <3>4. CASE j <= Len(expected)
      <4>1. j \in 1..Len(expected)
        BY <1>5, <3>1, <3>4
      <4> QED
        BY <1>5, <2>2, <3>2, <3>3, <4>1, Zenon
    <3>5. CASE j > Len(expected)
      BY <2>4, <3>1, <3>2, <3>5, Zenon
    <3> QED
      BY <1>5, <3>1, <3>4, <3>5
  <2> QED
    BY <1>10, <1>11, <1>14, <2>1, <2>3, <2>4, <2>5, <2>6, Zenon DEF TxInv
<1> QED
  BY <1>12, <1>13, <1>14

-----------------------------------------------------------------------------
(***************************************************************************)
(* The byte under way.                                                     *)
(***************************************************************************)

\* The device has not received more than was asked for.
LEMMA ReceivedSoFar ==
    ASSUME CoreInv, DataInv, TxInv, NEW acc, SoftStep(acc), Cycle(acc)
    PROVE  /\ Len(received) \in Nat /\ Len(expected) \in Nat
           /\ Len(received) + MidBytes <= Len(expected)
<1>1. /\ Len(received) \in Nat /\ Len(expected) \in Nat /\ Len(tx_fifo) \in Nat
  BY LenProperties, Zenon DEF DataInv
<1>2. Unloaded \in Nat /\ MidBytes \in {0, 1}
  BY CycleCounts, Zenon
<1>3. CASE control.tx_enable
  <2>1. Len(expected) = Len(received) + Len(tx_fifo) + MidBytes
    BY <1>3, Zenon DEF TxInv
  <2> QED
    BY <1>1, <1>2, <2>1
<1>4. CASE ~control.tx_enable
  <2>1. Len(expected) = Len(received) + (Unloaded + MidBytes)
    BY <1>4, Zenon DEF TxInv, Owed
  <2> QED
    BY <1>1, <1>2, <2>1
<1> QED
  BY <1>3, <1>4

\* The byte that spi_core takes is the one that the device is to receive next.
LEMMA NextByte ==
    ASSUME CoreInv, DataInv, TxInv, NEW acc, SoftStep(acc), Cycle(acc),
           Taken(In(acc)) = 1
    PROVE  /\ Len(received) + 1 <= Len(expected')
           /\ expected'[Len(received) + 1] = Ordered(In(acc).data_in)
<1> DEFINE in == In(acc)
           S == Started(in)
           n == Len(received)
<1>1. ~Mid /\ MidBytes = 0
  BY CycleCounts, Zenon DEF MidBytes
<1>2. /\ n \in Nat /\ Len(expected) \in Nat
  BY ReceivedSoFar, Zenon
<1>3. /\ Unloaded \in Nat /\ Unloaded' \in Nat /\ S \in Nat /\ Unloaded' = Unloaded + S - 1
  BY CycleCounts, Zenon
<1>4. /\ S = IF acc.reg = "START" THEN acc.byte_count ELSE 0
  BY CycleCore, Zenon
<1>5. /\ Len(expected') \in Nat /\ Len(expected') >= Len(expected)
      /\ \A j \in 1..Len(expected) : expected'[j] = expected[j]
  BY CycleExpected, Zenon
<1>6. acc.reg = "START" => acc.byte_count \in 1..ByteCounts - 1
  BY Zenon DEF SoftStep
<1>7. /\ control.tx_enable /\ tx_fifo # <<>> => in.data_in = Head(tx_fifo)
      /\ ~control.tx_enable => in.data_in = IdleByte
  BY <1>6, Inputs, Zenon DEF In
<1> HIDE DEF in, S
<1>8. CASE control.tx_enable
  <2>1. TxPop(acc) = 1
    BY <1>8, Zenon DEF TxPop
  <2>2. Len(tx_fifo) >= 1 /\ Len(tx_fifo) \in Nat
    BY <2>1, CycleTxFifo, Zenon
  <2>3. tx_fifo # <<>> /\ Head(tx_fifo) = tx_fifo[1] /\ 1 \in 1..Len(tx_fifo)
    BY <2>2 DEF DataInv
  <2>4. /\ Len(expected) = n + Len(tx_fifo) + 0
        /\ expected[n + 0 + 1] = Ordered(tx_fifo[1])
    BY <1>1, <1>8, <2>3, Zenon DEF TxInv
  <2>5. /\ n + 0 + 1 = n + 1 /\ n + 1 \in 1..Len(expected) /\ n + 1 <= Len(expected')
    BY <1>2, <1>5, <2>2, <2>4
  <2> QED
    BY <1>5, <1>7, <1>8, <2>3, <2>4, <2>5, Zenon DEF in
<1>9. CASE ~control.tx_enable
  <2>1. Len(expected) = n + Unloaded
    <3>1. Len(expected) = n + (Unloaded + 0)
      BY <1>1, <1>9, Zenon DEF TxInv, Owed
    <3> QED
      BY <1>3, <3>1
  <2>2. n + 1 <= Len(expected') /\ expected'[n + 1] = IdleByte
    <3>1. CASE Unloaded >= 1
      <4>1. n + 1 \in 1..Len(expected) /\ n + 1 > n + 0 /\ n + 1 <= Len(expected')
        BY <1>2, <1>3, <1>5, <2>1, <3>1
      <4>2. expected[n + 1] = IdleByte
        BY <1>1, <1>9, <4>1, Zenon DEF TxInv
      <4> QED
        BY <1>5, <4>1, <4>2, Zenon
    <3>2. CASE Unloaded = 0
      <4>1. S # 0 /\ acc.reg = "START"
        BY <1>3, <1>4, <3>2
      <4>2. /\ Len(expected') = Len(expected) + acc.byte_count
            /\ \A j \in 1..Len(expected') : j > Len(expected) => expected'[j] = IdleByte
        BY <1>9, <4>1, CycleExpected, Zenon
      <4>3. S = acc.byte_count
        BY <1>4, <4>1, Zenon
      <4>4. n + 1 \in 1..Len(expected') /\ n + 1 > Len(expected) /\ n + 1 <= Len(expected')
        BY <1>2, <1>3, <2>1, <3>2, <4>1, <4>2, <4>3
      <4> QED
        BY <4>2, <4>4, Zenon
    <3> QED
      BY <1>3, <3>1, <3>2
  <2>3. Ordered(IdleByte) = IdleByte
    BY CoreFacts DEF Ordered, bit_reverse, IdleByte
  <2> QED
    BY <1>7, <1>9, <2>2, <2>3, Zenon DEF in
<1> QED
  BY <1>8, <1>9

LEMMA SameByte ==
    ASSUME NEW b \in Byte, NEW c \in Byte, \A j \in 1..ByteBits : b[j] = c[j]
    PROVE  b = c
<1>1. b = [j \in 1..ByteBits |-> b[j]] /\ c = [j \in 1..ByteBits |-> c[j]]
  BY Zenon DEF Byte
<1>2. [j \in 1..ByteBits |-> b[j]] = [j \in 1..ByteBits |-> c[j]]
  BY Zenon
<1> QED
  BY <1>1, <1>2, Zenon

\* The byte in copi_shift and at the device, in one cycle.
LEMMA WireKept ==
    ASSUME CoreInv, DataInv, TxInv, WireInv, NEW acc, SoftStep(acc), Cycle(acc)
    PROVE  WireInv'
<1> DEFINE in == In(acc)
           n == Len(received)
           k == sc.bit_count
           e == expected'[n + 1]
<1>1. /\ Event(in) /\ CoreInv' /\ cfg' = cfg
  BY CycleCore, Zenon
<1>2. /\ k \in Nat /\ k <= ByteBits /\ ByteBits \in Nat /\ ByteBits > 1
      /\ sc.copi_shift \in Byte
  BY CoreFacts, Zenon
<1>3. /\ n \in Nat /\ Len(expected) \in Nat /\ n + MidBytes <= Len(expected)
  BY ReceivedSoFar, Zenon
<1>4. /\ expected' \in Seq(Byte) /\ Len(expected') \in Nat /\ Len(expected') >= Len(expected)
      /\ \A j \in 1..Len(expected) : expected'[j] = expected[j]
  BY CycleExpected, Zenon
<1>5. \A f \in 1..n : received[f] = expected'[f]
  <2>1. \A f \in 1..n : f \in 1..Len(expected)
    BY <1>3, CycleCounts
  <2> QED
    BY <1>4, <2>1, Zenon DEF WireInv
<1>6. Mid => n + 1 \in 1..Len(expected) /\ e = expected[n + 1] /\ e \in Byte
  <2> SUFFICES ASSUME Mid PROVE n + 1 \in 1..Len(expected) /\ e = expected[n + 1] /\ e \in Byte
    OBVIOUS
  <2>1. MidBytes = 1
    BY Zenon DEF MidBytes
  <2>2. n + 1 \in 1..Len(expected)
    BY <1>3, <2>1
  <2>3. expected \in [1..Len(expected) -> Byte]
    BY SeqIsFun, Zenon DEF DataInv
  <2> QED
    BY <1>4, <2>2, <2>3, Zenon
<1>7. /\ Samples(in) => DevTakesBit /\ Mid
      /\ ~Samples(in) => DevKeepsIn
      /\ Samples(in) => (k = 0 <=> dev.inBits + 1 >= ByteBits)
      /\ Samples(in) => dev.inBits = ByteBits - 1 - k
  BY CycleDevice, Zenon
<1>8. /\ dev.inBits \in Nat /\ dev.inByte \in [1..dev.inBits -> Bit]
  BY DevFacts, Zenon
<1>9. Mid => /\ \A j \in 1..dev.inBits : dev.inByte[j] = e[j]
             /\ \A j \in 1..k + 1 : sc.copi_shift[j] = e[j + ByteBits - 1 - k]
  BY <1>6, Zenon DEF WireInv
<1>10. sc'.sample_phase <=> sc'.clk = 1
  BY <1>1, Zenon DEF CoreInv
<1> HIDE DEF in, n, k, e
<1>20. ASSUME received' = received, ~Mid', dev'.inBits = 0 PROVE WireInv'
  BY <1>5, <1>20, Zenon DEF WireInv, n
<1>21. CASE Samples(in) /\ k # 0
  <2> DEFINE x == sc.copi_shift[1]
  <2>1. /\ DevTakesBit /\ Mid /\ ~(dev.inBits + 1 >= ByteBits) /\ dev.inBits = ByteBits - 1 - k
    BY <1>7, <1>21, Zenon
  <2>2. /\ received' = received /\ dev'.inBits = dev.inBits + 1
        /\ dev'.inByte = Append(dev.inByte, x)
    BY <2>1, Zenon DEF DevTakesBit
  <2>3. /\ sc'.sample_phase /\ sc'.bit_count = k /\ sc'.copi_shift = sc.copi_shift
        /\ sc'.state = "ACTIVE"
    BY <1>21, Zenon DEF Samples, SameBits, k
  <2>4. Mid'
    <3>1. k # ByteBits
      BY <1>2, <1>8, <2>1
    <3> QED
      BY <1>21, <2>3, <3>1, Zenon DEF Mid, active
  <2>5. x \in Bit
    BY <1>2 DEF Byte
  <2>6. /\ \A j \in 1..dev.inBits : Append(dev.inByte, x)[j] = dev.inByte[j]
        /\ Append(dev.inByte, x)[dev.inBits + 1] = x
    <3> HIDE DEF x
    <3> DEFINE m == dev.inBits
               f == dev.inByte
    <3>1. m \in Nat /\ f \in [1..m -> Bit]
      BY <1>8, Zenon
    <3> HIDE DEF m, f
    <3>2. /\ Append(f, x) \in [1..m + 1 -> Bit]
          /\ Append(f, x)[m + 1] = x /\ \A j \in 1..m : Append(f, x)[j] = f[j]
      BY <2>5, <3>1, AppendBit
    <3> QED
      BY <3>2, Zenon DEF m, f
  <2>7. x = e[dev.inBits + 1]
    <3>1. 1 \in 1..k + 1 /\ 1 + ByteBits - 1 - k = dev.inBits + 1
      BY <1>2, <2>1
    <3>2. x = e[1 + ByteBits - 1 - k]
      BY <1>9, <2>1, <3>1, Zenon
    <3> QED
      BY <3>1, <3>2, Zenon
  <2>8. dev'.inBits = ByteBits - k
    BY <1>2, <2>1, <2>2
  <2>9. \A j \in 1..dev'.inBits : dev'.inByte[j] = e[j]
    <3>1. \A j \in 1..dev'.inBits : j \in 1..dev.inBits \/ j = dev.inBits + 1
      BY <1>8, <2>2
    <3> QED
      BY <1>9, <2>1, <2>2, <2>6, <2>7, <3>1, Zenon
  <2>10. \A j \in 1..k + 1 : sc'.copi_shift[j] = e[j + ByteBits - 1 - k]
    BY <1>9, <2>1, <2>3, Zenon
  <2> QED
    BY <1>5, <2>2, <2>3, <2>4, <2>8, <2>9, <2>10, Zenon DEF WireInv, e, n
<1>22. CASE Samples(in) /\ k = 0
  <2> DEFINE x == sc.copi_shift[1]
             b == Append(dev.inByte, x)
  <2>1. /\ DevTakesBit /\ Mid /\ dev.inBits + 1 >= ByteBits /\ dev.inBits = ByteBits - 1 - k
    BY <1>7, <1>22, Zenon
  <2>2. received' = Append(received, b) /\ dev'.inBits = 0
    BY <2>1, Zenon DEF DevTakesBit
  <2>3. ~Mid'
    BY <1>22, Zenon DEF Mid, Samples, SameBits, k
  <2>4. x \in Bit
    BY <1>2 DEF Byte
  <2>5. /\ b \in [1..dev.inBits + 1 -> Bit]
        /\ \A j \in 1..dev.inBits : b[j] = dev.inByte[j]
        /\ b[dev.inBits + 1] = x
    <3> HIDE DEF x
    <3> DEFINE m == dev.inBits
               f == dev.inByte
    <3>1. m \in Nat /\ f \in [1..m -> Bit]
      BY <1>8, Zenon
    <3> HIDE DEF m, f
    <3>2. /\ Append(f, x) \in [1..m + 1 -> Bit]
          /\ Append(f, x)[m + 1] = x /\ \A j \in 1..m : Append(f, x)[j] = f[j]
      BY <2>4, <3>1, AppendBit
    <3> QED
      BY <3>2, Zenon DEF m, f
  <2>6. dev.inBits + 1 = ByteBits
    BY <1>2, <1>22, <2>1
  <2>7. x = e[dev.inBits + 1]
    <3>1. 1 \in 1..k + 1 /\ 1 + ByteBits - 1 - k = dev.inBits + 1
      BY <1>2, <1>22, <2>1
    <3>2. x = e[1 + ByteBits - 1 - k]
      BY <1>9, <2>1, <3>1, Zenon
    <3> QED
      BY <3>1, <3>2, Zenon
  <2> HIDE DEF b, x
  <2>8. b = e
    <3>1. \A j \in 1..ByteBits : j \in 1..dev.inBits \/ j = dev.inBits + 1
      BY <1>8, <2>6
    <3>2. \A j \in 1..ByteBits : b[j] = e[j]
      BY <1>9, <2>1, <2>5, <2>7, <3>1, Zenon
    <3>3. b \in Byte /\ e \in Byte
      BY <1>6, <2>1, <2>5, <2>6, Zenon DEF Byte
    <3> QED
      BY <3>2, <3>3, SameByte, Zenon
  <2>9. \A f \in 1..Len(received') : received'[f] = expected'[f]
    <3>1. received \in Seq(Byte)
      BY Zenon DEF DataInv
    <3>2. b \in Byte
      BY <1>6, <2>1, <2>8, Zenon
    <3>3. /\ Len(received') = n + 1 /\ received'[n + 1] = b
          /\ \A f \in 1..n : received'[f] = received[f]
      BY <2>2, <3>1, <3>2 DEF n
    <3>4. \A f \in 1..Len(received') : f \in 1..n \/ f = n + 1
      BY <1>3, <3>3
    <3> QED
      BY <1>5, <2>8, <3>3, <3>4, Zenon DEF e
  <2> QED
    BY <2>2, <2>3, <2>9, Zenon DEF WireInv
<1>23. CASE Shifts(in)
  <2>1. ~Samples(in)
    BY <1>23, Zenon DEF Shifts, Samples
  <2>2. received' = received /\ dev'.inBits = dev.inBits /\ dev'.inByte = dev.inByte
    BY <1>7, <2>1, Zenon DEF DevKeepsIn
  <2>3. /\ ~sc'.sample_phase /\ sc'.bit_count = k - 1 /\ sc'.state = "ACTIVE"
        /\ sc'.copi_shift = ShiftIn(sc.copi_shift, cfg.copi_idle)
        /\ sc.sample_phase /\ active /\ k \in 1..ByteBits - 1
    BY <1>23, Zenon DEF Shifts, k
  <2>4. k >= 1 /\ k < ByteBits /\ k \notin {0, ByteBits}
    BY <1>2, <2>3
  <2>5. Mid /\ Mid'
    BY <2>3, <2>4, Zenon DEF Mid, active, k
  <2>6. dev.inBits = ByteBits - k
    BY <2>3, <2>5, Zenon DEF WireInv, k
  <2>7. dev'.inBits = ByteBits - 1 - sc'.bit_count
    BY <1>2, <2>2, <2>3, <2>6
  <2>8. \A j \in 1..sc'.bit_count + 1 :
           sc'.copi_shift[j] = e[j + ByteBits - 1 - sc'.bit_count]
    <3>1. SUFFICES ASSUME NEW j \in 1..sc'.bit_count + 1
                   PROVE  sc'.copi_shift[j] = e[j + ByteBits - 1 - sc'.bit_count]
      OBVIOUS
    <3>2. /\ j \in 1..ByteBits /\ j # ByteBits /\ j + 1 \in 1..k + 1
          /\ j + ByteBits - 1 - sc'.bit_count = j + 1 + ByteBits - 1 - k
      BY <1>2, <2>3, <2>4
    <3>3. sc'.copi_shift[j] = sc.copi_shift[j + 1]
      BY <2>3, <3>2 DEF ShiftIn
    <3>4. sc.copi_shift[j + 1] = e[j + 1 + ByteBits - 1 - k]
      BY <1>9, <2>5, <3>2, Zenon
    <3> QED
      BY <3>2, <3>3, <3>4, Zenon
  <2>9. \A j \in 1..dev'.inBits : dev'.inByte[j] = e[j]
    BY <1>9, <2>2, <2>5, Zenon
  <2> QED
    BY <1>5, <2>2, <2>3, <2>5, <2>7, <2>8, <2>9, Zenon DEF WireInv, e, n
<1>24. ASSUME Taken(in) = 1, ~Samples(in), ~Mid, Mid', ~sc'.sample_phase,
              sc'.bit_count = ByteBits - 1, sc'.copi_shift = Ordered(in.data_in)
       PROVE  WireInv'
  <2>1. received' = received /\ dev'.inBits = dev.inBits /\ dev.inBits = 0
    BY <1>7, <1>24, Zenon DEF DevKeepsIn, WireInv
  <2>2. e = sc'.copi_shift
    BY <1>24, NextByte, Zenon DEF e, n, in
  <2>3. dev'.inBits = ByteBits - 1 - sc'.bit_count
    BY <1>2, <1>24, <2>1
  <2>4. \A j \in 1..sc'.bit_count + 1 :
           sc'.copi_shift[j] = e[j + ByteBits - 1 - sc'.bit_count]
    <3>1. \A j \in 1..sc'.bit_count + 1 : j + ByteBits - 1 - sc'.bit_count = j
      BY <1>2, <1>24
    <3> QED
      BY <2>2, <3>1, Zenon
  <2>5. \A j \in 1..dev'.inBits : dev'.inByte[j] = e[j]
    BY <2>1
  <2> QED
    BY <1>5, <1>24, <2>1, <2>3, <2>4, <2>5, Zenon DEF WireInv, e, n
<1>25. CASE Loads(in)
  <2>1. ~Samples(in) /\ ~Mid
    BY <1>25, Zenon DEF Loads, Samples, Mid
  <2>2. Mid'
    BY <1>25, Zenon DEF Loads, Mid, active
  <2> QED
    BY <1>24, <1>25, <2>1, <2>2, Zenon DEF Loads, Taken
<1>26. CASE Begins(in)
  <2>1. ~Samples(in) /\ ~Mid
    BY <1>26, Zenon DEF Begins, Samples, Mid
  <2>2. CASE cfg.cpha
    <3>1. sc'.bit_count = ByteBits
      BY <1>26, <2>2, Zenon DEF Begins, Full
    <3>2. sc'.sample_phase
      BY <1>10, <1>26, <2>2, Zenon DEF Begins, CoreInv
    <3>3. ~Mid'
      BY <3>1, <3>2, Zenon DEF Mid
    <3>4. received' = received /\ dev'.inBits = 0
      BY <1>7, <2>1, Zenon DEF DevKeepsIn, WireInv
    <3> QED
      BY <1>20, <3>3, <3>4, Zenon
  <2>3. CASE ~cfg.cpha
    <3>1. /\ sc'.bit_count = ByteBits - 1 /\ sc'.copi_shift = Ordered(in.data_in)
          /\ Taken(in) = 1 /\ sc'.state = "ACTIVE" /\ sc'.clk = cfg.cpol
      BY <1>26, <2>3, Zenon DEF Begins, Full, Taken
    <3>2. ~sc'.sample_phase
      BY <1>10, <2>3, <3>1, Zenon DEF CoreInv
    <3>3. Mid'
      BY <3>1, <3>2, Zenon DEF Mid, active
    <3> QED
      BY <1>24, <2>1, <3>1, <3>2, <3>3, Zenon
  <2> QED
    BY <2>2, <2>3
<1>27. CASE Finishes(in) \/ Awaits(in)
  <2>1. ~Samples(in) /\ ~Mid
    BY <1>27, Zenon DEF Finishes, Awaits, Samples, Mid, idle_o, active
  <2>2. ~Mid'
    BY <1>27, Zenon DEF Finishes, Awaits, Mid, active
  <2>3. received' = received /\ dev'.inBits = 0
    BY <1>7, <2>1, Zenon DEF DevKeepsIn, WireInv
  <2> QED
    BY <1>20, <2>2, <2>3, Zenon
<1>28. CASE Rests(in)
  <2>1. ~Samples(in)
    <3>1. 0 # 1
      BY SMT
    <3> QED
      BY <1>28, <3>1, Zenon DEF Rests, Samples
  <2>2. /\ received' = received /\ dev'.inBits = dev.inBits /\ dev'.inByte = dev.inByte
    BY <1>7, <2>1, Zenon DEF DevKeepsIn
  <2>3. /\ sc'.state = sc.state /\ (sc'.sample_phase <=> sc.sample_phase)
        /\ sc'.bit_count = sc.bit_count /\ sc'.copi_shift = sc.copi_shift
    BY <1>28, Zenon DEF Rests, SameBits
  <2>4. Mid' <=> Mid
    BY <2>3, Zenon DEF Mid, active
  <2>5. /\ ~Mid => dev'.inBits = 0
        /\ Mid /\ ~sc'.sample_phase => dev'.inBits = ByteBits - 1 - sc'.bit_count
        /\ Mid /\ sc'.sample_phase => dev'.inBits = ByteBits - sc'.bit_count
    BY <2>2, <2>3, Zenon DEF WireInv
  <2>6. Mid => /\ \A j \in 1..dev'.inBits : dev'.inByte[j] = e[j]
               /\ \A j \in 1..sc'.bit_count + 1 :
                     sc'.copi_shift[j] = e[j + ByteBits - 1 - sc'.bit_count]
    BY <1>9, <2>2, <2>3, Zenon DEF k
  <2> QED
    BY <1>5, <2>2, <2>4, <2>5, <2>6, Zenon DEF WireInv, e, n
<1> QED
  BY <1>1, <1>21, <1>22, <1>23, <1>25, <1>26, <1>27, <1>28, Zenon DEF Event

-----------------------------------------------------------------------------
(***************************************************************************)
(* The receive FIFO.                                                       *)
(***************************************************************************)

\* spi_core looks at wready a cycle before it hands a byte over, and nothing
\* fills the FIFO in between.
LEMMA RoomKept ==
    ASSUME CoreInv, DataInv, RxInv, NEW acc, SoftStep(acc), Cycle(acc)
    PROVE  control'.rx_enable /\ sc'.data_out_valid => Len(rx_fifo') < RxFifoDepth
<1> SUFFICES ASSUME control'.rx_enable, sc'.data_out_valid PROVE Len(rx_fifo') < RxFifoDepth
  OBVIOUS
<1> DEFINE in == In(acc)
<1>1. Samples(in) /\ sc.bit_count = 0
  <2>1. Handed' = 1
    BY Zenon DEF Handed
  <2> QED
    BY <2>1, CycleCounts, Zenon
<1>2. active /\ ~sc.sample_phase /\ in.data_out_ready
  BY <1>1, Zenon DEF Samples
<1>3. ~idle_o /\ acc.reg # "CONTROL" /\ ~sc.data_out_valid
  BY <1>2, Zenon DEF idle_o, active, SoftStep, CoreInv
<1>4. control' = control
  BY <1>3, CycleCore, Zenon
<1>5. Len(rx_fifo) < RxFifoDepth
  <2>1. acc.reg = "START" => acc.byte_count \in 1..ByteCounts - 1
    BY Zenon DEF SoftStep
  <2>2. in.data_out_ready <=> (control.rx_enable => Len(rx_fifo) < RxFifoDepth)
    BY <2>1, Inputs, Zenon DEF In
  <2> QED
    BY <1>2, <1>4, <2>2, Zenon
<1>6. RxPush(acc) = 0 /\ RxPop(acc) \in {0, 1}
  BY <1>3, Zenon DEF RxPush, RxPop, Handed
<1>7. Len(rx_fifo) \in Nat /\ Len(rx_fifo') = Len(rx_fifo) - RxPop(acc) + RxPush(acc)
  BY CycleRxFifo, Zenon
<1> QED
  BY <1>5, <1>6, <1>7, SpiAssumption

Draining == drv.pc \in {"drain", "end"}

\* Outside spi_rx nothing is received.
LEMMA RxOutside ==
    ASSUME CoreInv, DataInv, RxInv, TxInv, NEW acc, SoftStep(acc), Cycle(acc),
           ~Draining, ~Draining', acc.reg # "RX_FIFO",
           acc.reg = "START" => ~control.rx_enable
    PROVE  RxInv'
<1>1. rx_fifo = <<>> /\ (control.rx_enable => Handed = 0 /\ Owed = 0)
  BY Zenon DEF RxInv, Draining
<1>2. RxPop(acc) = 0 /\ RxPush(acc) = 0
  BY <1>1, Zenon DEF RxPop, RxPush
<1>3. rx_fifo' \in Seq(Byte) /\ Len(rx_fifo') = Len(rx_fifo) - RxPop(acc) + RxPush(acc)
  BY CycleRxFifo, Zenon
<1>4. rx_fifo' = <<>>
  <2>1. Len(rx_fifo') = 0
    BY <1>1, <1>2, <1>3
  <2> QED
    BY <1>3, <2>1, EmptySeq, Zenon
<1>5. control' = IF acc.reg = "CONTROL" THEN acc.fields ELSE control
  BY CycleCore, Zenon
<1>6. control'.rx_enable => Handed' = 0 /\ Owed' = 0
  <2>1. SUFFICES ASSUME control'.rx_enable PROVE Handed' = 0 /\ Owed' = 0
    OBVIOUS
  <2>2. Owed = 0 /\ acc.reg # "START"
    <3>1. CASE acc.reg = "CONTROL"
      <4>1. idle_o /\ Todo = 0
        BY <3>1, Zenon DEF SoftStep
      <4>2. Owed = 0
        BY <4>1, IdleFacts, Zenon
      <4> QED
        BY <3>1, <4>2
    <3>2. CASE acc.reg # "CONTROL"
      BY <1>1, <1>5, <2>1, <3>2, Zenon
    <3> QED
      BY <3>1, <3>2
  <2> QED
    BY <2>2, CycleOwed, Zenon
<1> QED
  BY <1>4, <1>6, RoomKept, Zenon DEF RxInv, Draining

\* START of spi_rx: every byte of the transfer is owed.
LEMMA RxStart ==
    ASSUME CoreInv, DataInv, RxInv, TxInv, NEW acc, SoftStep(acc), Cycle(acc),
           ~Draining, acc.reg = "START",
           drv'.pc = "drain", drv'.i = 0, drv'.len = acc.byte_count
    PROVE  RxInv'
<1>1. rx_fifo = <<>> /\ (control.rx_enable => Handed = 0 /\ Owed = 0)
  BY Zenon DEF RxInv, Draining
<1>2. RxPop(acc) = 0 /\ RxPush(acc) = 0
  BY <1>1, Zenon DEF RxPop, RxPush
<1>3. rx_fifo' \in Seq(Byte) /\ Len(rx_fifo') = Len(rx_fifo) - RxPop(acc) + RxPush(acc)
  BY CycleRxFifo, Zenon
<1>4. Len(rx_fifo') = 0
  BY <1>1, <1>2, <1>3
<1>5. idle_o /\ Todo = 0
  BY Zenon DEF SoftStep
<1>6. Owed = 0
  BY <1>5, IdleFacts, Zenon
<1>7. Handed' = 0
  <2>1. ~Samples(In(acc))
    BY <1>5, Zenon DEF Samples, idle_o, active
  <2> QED
    BY <2>1, CycleCounts, Zenon
<1>8. Owed' = Owed + Started(In(acc)) - Handed' /\ Started(In(acc)) = acc.byte_count
  BY CycleCore, CycleOwed, Zenon
<1>9. acc.byte_count \in Nat
  BY SpiCoreAssumption DEF SoftStep
<1>10. drv'.i + Len(rx_fifo') + Handed' + Owed' = drv'.len
  BY <1>4, <1>6, <1>7, <1>8, <1>9
<1>11. drv'.pc \in {"drain", "end"} /\ drv'.pc # "end"
  OBVIOUS
<1> QED
  BY <1>10, <1>11, RoomKept, Zenon DEF RxInv

\* Within spi_rx every byte is owed, handed over, in the FIFO or read.
LEMMA RxInside ==
    ASSUME CoreInv, DataInv, RxInv, TxInv, NEW acc, SoftStep(acc), Cycle(acc),
           Draining, control.rx_enable, acc.reg \notin {"START", "CONTROL"},
           drv'.len = drv.len, drv'.i = drv.i + RxPop(acc), drv'.pc \in PCs,
           ~Draining' => drv'.i = drv'.len,
           drv'.pc = "end" => rx_fifo # <<>> /\ acc.reg # "RX_FIFO"
    PROVE  RxInv'
<1>1. drv.i + Len(rx_fifo) + Handed + Owed = drv.len
  BY Zenon DEF RxInv, Draining
<1>2. RxPush(acc) = Handed /\ RxPop(acc) \in {0, 1}
  BY Zenon DEF RxPush, RxPop
<1>3. /\ rx_fifo' \in Seq(Byte) /\ Len(rx_fifo) \in Nat
      /\ Len(rx_fifo') = Len(rx_fifo) - RxPop(acc) + RxPush(acc)
      /\ RxPop(acc) = 1 => Len(rx_fifo) >= 1
  BY CycleRxFifo, Zenon
<1>4. Handed \in {0, 1} /\ Handed' \in {0, 1}
  BY CycleCounts, Zenon
<1>5. Started(In(acc)) = 0
  BY CycleCore, Zenon
<1>6. Owed \in Nat /\ Owed' = Owed + Started(In(acc)) - Handed'
  BY CycleOwed, Zenon
<1>7. drv.i \in Nat /\ drv.len \in Nat
  BY DrvFacts, Zenon
<1>8. drv'.i + Len(rx_fifo') + Handed' + Owed' = drv'.len
  <2>1. Len(rx_fifo') = Len(rx_fifo) - RxPop(acc) + Handed
    BY <1>2, <1>3, Zenon
  <2>2. RxPop(acc) \in Int /\ Handed \in Int /\ Handed' \in Int
    BY <1>2, <1>4
  <2>3. Owed' = Owed - Handed'
    BY <1>5, <1>6, <2>2
  <2>4. drv'.i + Len(rx_fifo') + Handed' + Owed'
           = (drv.i + RxPop(acc)) + (Len(rx_fifo) - RxPop(acc) + Handed) + Handed' + (Owed - Handed')
    BY <2>1, <2>3, Zenon
  <2>5. Len(rx_fifo) \in Int /\ Owed \in Int /\ drv.i \in Int
    BY <1>3, <1>6, <1>7
  <2>6. (drv.i + RxPop(acc)) + (Len(rx_fifo) - RxPop(acc) + Handed) + Handed' + (Owed - Handed')
           = drv.i + Len(rx_fifo) + Handed + Owed
    BY <2>2, <2>5
  <2> QED
    BY <1>1, <2>4, <2>6, Zenon
<1>9. drv'.pc = "end" => rx_fifo' # <<>>
  <2>1. SUFFICES ASSUME drv'.pc = "end" PROVE rx_fifo' # <<>>
    OBVIOUS
  <2>2. RxPop(acc) = 0 /\ rx_fifo # <<>> /\ rx_fifo \in Seq(Byte)
    BY <2>1, Zenon DEF RxPop, DataInv
  <2>3. Len(rx_fifo) # 0
    BY <2>2, EmptySeq, Zenon
  <2>4. Len(rx_fifo') # 0
    BY <1>2, <1>3, <1>4, <2>2, <2>3
  <2> QED
    BY <2>4
<1>10. ~Draining' => rx_fifo' = <<>> /\ Handed' = 0 /\ Owed' = 0
  <2>1. SUFFICES ASSUME ~Draining' PROVE rx_fifo' = <<>> /\ Handed' = 0 /\ Owed' = 0
    OBVIOUS
  <2>2. drv'.i = drv'.len
    BY <2>1, Zenon
  <2>3. drv'.i \in Int /\ Len(rx_fifo') \in Nat /\ Owed' \in Int /\ Owed' >= 0
    <3>1. drv'.i \in Int
      BY <1>2, <1>7
    <3>2. Len(rx_fifo') \in Nat
      BY <1>3, LenProperties, Zenon
    <3>3. Unloaded' \in Nat /\ MidBytes' = MidBytes + Taken(In(acc)) - Handed'
          /\ MidBytes \in {0, 1} /\ Taken(In(acc)) \in {0, 1}
      BY CycleCounts, Zenon
    <3>4. MidBytes' \in {0, 1}
      BY Zenon DEF MidBytes
    <3>5. Owed' = Unloaded' + MidBytes'
      BY Zenon DEF Owed
    <3> QED
      BY <3>1, <3>2, <3>3, <3>4, <3>5
  <2>4. Len(rx_fifo') = 0 /\ Handed' = 0 /\ Owed' = 0
    <3>1. drv'.i + Len(rx_fifo') + Handed' + Owed' = drv'.i
      BY <1>8, <2>2, Zenon
    <3> QED
      BY <1>4, <2>3, <3>1
  <2>5. rx_fifo' = <<>>
    BY <1>3, <2>4, EmptySeq, Zenon
  <2> QED
    BY <2>4, <2>5
<1> QED
  BY <1>8, <1>9, <1>10, RoomKept, Zenon DEF RxInv, Draining

\* What the software does with the bytes it reads.
ReadStep(acc) ==
    /\ acc.reg = "RX_FIFO" =>
          Draining /\ got' = Append(got, Head(rx_fifo)) /\ rx_base' = rx_base
    /\ acc.reg = "START" /\ ~control.tx_enable =>
          got' = <<>> /\ rx_base' = Len(expected) /\ drv'.i = 0 /\ drv'.len = acc.byte_count
    /\ acc.reg # "RX_FIFO" /\ ~(acc.reg = "START" /\ ~control.tx_enable) =>
          got' = got /\ rx_base' = rx_base
    /\ Draining' => \/ acc.reg = "START" /\ ~control.tx_enable
                    \/ /\ Draining /\ acc.reg # "START"
                       /\ drv'.len = drv.len /\ drv'.i = drv.i + RxPop(acc)

Stepped == \E acc : SoftStep(acc) /\ Cycle(acc) /\ ReadStep(acc)

LEMMA ReadsNothing ==
    ASSUME DataInv, NEW acc, acc.reg # "RX_FIFO", acc.reg = "START" => control.tx_enable,
           got' = got, rx_base' = rx_base,
           Draining' => Draining /\ acc.reg # "START" /\ drv'.len = drv.len /\ drv'.i = drv.i
    PROVE  ReadStep(acc)
<1>1. RxPop(acc) = 0 /\ drv.i \in Nat
  BY DrvFacts, Zenon DEF RxPop
<1>2. drv.i + RxPop(acc) = drv.i
  BY <1>1
<1> QED
  BY <1>2, Zenon DEF ReadStep

\* What is left to show of an action.
LEMMA StepKept ==
    ASSUME SpiInv, NEW acc, SoftStep(acc), Cycle(acc),
           ReadStep(acc), drv' \in DrvType, SoftInv', CallInv', RxInv'
    PROVE  SpiInv' /\ Stepped
<1>1. CoreInv /\ DataInv /\ RxInv /\ TxInv /\ WireInv
  BY Zenon DEF SpiInv
<1>2. CoreInv' /\ control' \in ControlType /\ cs' \in Bit
  BY <1>1, CycleCore, Zenon
<1>3. tx_fifo' \in Seq(Byte) /\ Len(tx_fifo') <= TxFifoDepth
  BY <1>1, CycleTxFifo, Zenon
<1>4. rx_fifo' \in Seq(Byte) /\ Len(rx_fifo') <= RxFifoDepth
  BY <1>1, CycleRxFifo, Zenon
<1>5. expected' \in Seq(Byte)
  BY <1>1, CycleExpected, Zenon
<1>6. /\ dev' \in D!DevType /\ received' \in Seq(Byte)
      /\ dev'.inByte \in [1..dev'.inBits -> Bit] /\ dev'.outByte \in [1..dev'.outBits -> Bit]
  BY <1>1, CycleDevice, Zenon
<1>7. DataInv'
  BY <1>2, <1>3, <1>4, <1>5, <1>6, Zenon DEF DataInv
<1>8. TxInv' /\ WireInv'
  BY <1>1, TxKept, WireKept, Zenon
<1> QED
  BY <1>2, <1>7, <1>8, Zenon DEF SpiInv, Stepped

-----------------------------------------------------------------------------
(***************************************************************************)
(* The actions.                                                            *)
(***************************************************************************)

\* The block during an access that neither writes TX_FIFO nor starts a transfer.
LEMMA Quiet ==
    ASSUME SpiInv, NEW acc, SoftStep(acc), Cycle(acc), acc.reg \notin {"TX_FIFO", "START"}
    PROVE  /\ expected' = expected /\ Len(expected) \in Nat
           /\ Len(tx_fifo) \in Nat /\ Len(tx_fifo') \in Nat /\ Len(tx_fifo') <= Len(tx_fifo)
           /\ idle_o => idle_o'
           /\ control' = IF acc.reg = "CONTROL" THEN acc.fields ELSE control
           /\ cs' = IF acc.reg = "CS" THEN acc.level ELSE cs
<1>1. CoreInv /\ DataInv /\ TxInv
  BY Zenon DEF SpiInv
<1>2. expected' = expected /\ Len(expected) \in Nat
  BY <1>1, LenProperties, Zenon DEF SoftStep, DataInv
<1>3. /\ tx_fifo' \in Seq(Byte) /\ Len(tx_fifo) \in Nat
      /\ Len(tx_fifo') = Len(tx_fifo) - TxPop(acc) + TxPush(acc)
  BY <1>1, CycleTxFifo, Zenon
<1>4. TxPop(acc) \in {0, 1} /\ TxPush(acc) = 0
  <2>1. Taken(In(acc)) \in {0, 1}
    BY Zenon DEF Taken
  <2> QED
    BY <2>1, Zenon DEF TxPop, TxPush
<1>5. Len(tx_fifo') \in Nat
  BY <1>3, LenProperties, Zenon
<1>6. Len(tx_fifo') <= Len(tx_fifo)
  BY <1>3, <1>4
<1> QED
  BY <1>1, <1>2, <1>3, <1>5, <1>6, CycleCore, Zenon

\* An access that changes nothing by itself.
Plain(acc) == acc.reg \in {"none", "STATUS"}

LEMMA PlainAccess == Plain(NoAccess) /\ Plain(ReadStatus)
BY DEF Plain, NoAccess, ReadStatus

LEMMA PlainStep ==
    ASSUME NEW acc, Plain(acc), expected' = expected, Todo' = Todo
    PROVE  SoftStep(acc) /\ acc.reg \notin {"TX_FIFO", "START", "RX_FIFO", "CS", "CONTROL"}
<1>1. acc.reg \notin {"TX_FIFO", "START", "RX_FIFO", "CS", "CONTROL"}
  BY DEF Plain
<1> QED
  BY <1>1, Zenon DEF Plain, SoftStep, Clears

\* The software waits.
LEMMA SameDrv ==
    ASSUME SpiInv, NEW acc, Plain(acc), Cycle(acc), drv' = drv, expected' = expected,
           got' = got, rx_base' = rx_base
    PROVE  SpiInv' /\ Stepped
<1>1. CoreInv /\ DataInv /\ SoftInv /\ CallInv /\ RxInv /\ TxInv
  BY Zenon DEF SpiInv
<1>2. Todo' = Todo
  BY Zenon DEF Todo
<1>3. SoftStep(acc) /\ acc.reg \notin {"TX_FIFO", "START", "RX_FIFO", "CS", "CONTROL"}
  BY <1>2, PlainStep, Zenon
<1>4. /\ Len(expected) \in Nat
      /\ Len(tx_fifo) \in Nat /\ Len(tx_fifo') \in Nat /\ Len(tx_fifo') <= Len(tx_fifo)
      /\ idle_o => idle_o'
      /\ control' = control /\ cs' = cs
  BY <1>3, Quiet, Zenon
<1>5. SoftInv'
  BY <1>1, <1>4, Zenon DEF SoftInv
<1>6. CallInv'
  <2>1. drv.pc = "fill" => Len(tx_fifo') <= drv.i
    BY <1>1, <1>4, DrvFacts DEF CallInv
  <2>2. drv.pc = "fill" /\ drv.call = "blocking_write" /\ drv.avail > 0 =>
           Len(tx_fifo') + drv.avail <= HalDepth
    <3>1. drv.avail \in Nat /\ HalDepth \in Nat
      BY <1>1, DrvFacts, Zenon
    <3>2. SUFFICES ASSUME Len(tx_fifo) + drv.avail <= HalDepth
                   PROVE  Len(tx_fifo') + drv.avail <= HalDepth
      BY <1>1, Zenon DEF CallInv
    <3> QED
      BY <1>4, <3>1, <3>2
  <2> QED
    BY <1>1, <2>1, <2>2, Zenon DEF CallInv
<1>7. RxInv'
  <2>1. CASE Draining
    <3>1. RxPop(acc) = 0 /\ drv.i \in Nat /\ drv.pc \in PCs
      BY <1>1, <1>3, DrvFacts, Zenon DEF RxPop
    <3>2. drv'.i = drv.i + RxPop(acc)
      BY <3>1
    <3>3. drv'.len = drv.len /\ drv'.pc \in PCs /\ Draining'
      BY <2>1, <3>1, Zenon DEF Draining
    <3>4. control.rx_enable /\ (drv'.pc = "end" => rx_fifo # <<>>)
      BY <1>1, <2>1, Zenon DEF SoftInv, RxInv, Draining
    <3>5. acc.reg \notin {"START", "CONTROL"} /\ acc.reg # "RX_FIFO"
      BY <1>3, Zenon
    <3> QED
      BY <1>1, <1>3, <2>1, <3>2, <3>3, <3>4, <3>5, RxInside, Zenon
  <2>2. CASE ~Draining
    <3>1. ~Draining' /\ acc.reg # "RX_FIFO" /\ acc.reg # "START"
      BY <1>3, <2>2, Zenon DEF Draining
    <3> QED
      BY <1>1, <1>3, <2>2, <3>1, RxOutside, Zenon
  <2> QED
    BY <2>1, <2>2
<1>8. ReadStep(acc)
  <2>1. acc.reg # "RX_FIFO" /\ acc.reg # "START" /\ (Draining' => Draining)
    BY <1>3, Zenon DEF Draining
  <2> QED
    BY <1>1, <2>1, ReadsNothing, Zenon
<1> QED
  BY <1>1, <1>3, <1>5, <1>6, <1>7, <1>8, StepKept, Zenon DEF DataInv

LEMMA ClockKept ==
    ASSUME SpiInv, Clock
    PROVE  SpiInv' /\ Stepped
BY SameDrv, PlainAccess, Zenon DEF Clock

LEMMA ControlAccess ==
    ASSUME NEW tx \in BOOLEAN, NEW rx \in BOOLEAN, NEW clear \in BOOLEAN
    PROVE  /\ WriteControl(tx, rx, clear).reg = "CONTROL"
           /\ WriteControl(tx, rx, clear).fields \in ControlType
           /\ WriteControl(tx, rx, clear).fields.tx_enable = tx
           /\ WriteControl(tx, rx, clear).fields.rx_enable = rx
           /\ WriteControl(tx, rx, clear).clear = clear
BY DEF WriteControl, ControlType

\* CONTROL is written while nothing is left of the last transfer.
LEMMA ControlStep ==
    ASSUME SpiInv, NEW tx \in BOOLEAN, NEW rx \in BOOLEAN, NEW clear \in BOOLEAN,
           NEW acc, acc = WriteControl(tx, rx, clear), Cycle(acc),
           drv.pc \in {"reset", "control"}, expected' = expected, Todo' = Todo,
           ~Draining', drv' \in DrvType
    PROVE  /\ SoftStep(acc) /\ RxInv'
           /\ idle_o /\ idle_o' /\ cs' = cs
           /\ (control'.tx_enable = tx) /\ (control'.rx_enable = rx)
<1>1. CoreInv /\ DataInv /\ SoftInv /\ CallInv /\ RxInv /\ TxInv
  BY Zenon DEF SpiInv
<1>2. /\ acc.reg = "CONTROL" /\ acc.fields \in ControlType
      /\ (acc.fields.tx_enable = tx) /\ (acc.fields.rx_enable = rx)
  <2> DEFINE w == WriteControl(tx, rx, clear)
  <2>1. /\ w.reg = "CONTROL" /\ w.fields \in ControlType
        /\ (w.fields.tx_enable = tx) /\ (w.fields.rx_enable = rx)
    BY ControlAccess
  <2>2. acc = w
    OBVIOUS
  <2> HIDE DEF w
  <2> QED
    BY <2>1, <2>2, Zenon
<1>3. idle_o /\ Todo = 0 /\ ~Draining
  BY <1>1, Zenon DEF SoftInv, Todo, Draining
<1>4. tx_fifo = <<>> /\ rx_fifo = <<>>
  BY <1>1, <1>3, IdleFacts, Zenon DEF RxInv, Draining
<1>5. SoftStep(acc)
  BY <1>2, <1>3, <1>4, Zenon DEF SoftStep
<1>6. acc.reg \notin {"TX_FIFO", "START"} /\ acc.reg # "RX_FIFO" /\ acc.reg # "START" /\ acc.reg # "CS"
  BY <1>2
<1>7. RxInv'
  BY <1>1, <1>3, <1>5, <1>6, RxOutside, Zenon
<1>8. idle_o' /\ control' = acc.fields /\ cs' = cs
  BY <1>2, <1>3, <1>5, <1>6, Quiet, Zenon
<1> QED
  BY <1>2, <1>3, <1>5, <1>7, <1>8, Zenon

LEMMA ConstructKept ==
    ASSUME SpiInv, Construct
    PROVE  SpiInv' /\ Stepped
<1>1. CoreInv /\ DataInv /\ SoftInv /\ CallInv
  BY Zenon DEF SpiInv
<1> DEFINE acc == WriteControl(FALSE, FALSE, TRUE)
<1>2. drv.pc = "reset" /\ Cycle(acc) /\ drv' = [drv EXCEPT !.pc = "ready"] /\ expected' = expected
      /\ got' = got /\ rx_base' = rx_base
  BY Zenon DEF Construct, Goto
<1>3. "ready" \in PCs
  BY DEF PCs
<1>4. /\ drv' \in DrvType /\ drv'.api = drv.api /\ drv'.call = drv.call /\ drv'.len = drv.len
      /\ drv'.pc = "ready" /\ drv'.i = drv.i
  BY <1>1, <1>2, <1>3, DrvGoto, Zenon DEF SameCall
<1>5. Todo' = Todo /\ ~Draining' /\ drv.pc \in {"reset", "control"}
  BY <1>2, <1>4, Zenon DEF Todo, Draining
<1>6. /\ SoftStep(acc) /\ RxInv' /\ idle_o' /\ cs' = cs
      /\ (control'.tx_enable = FALSE) /\ (control'.rx_enable = FALSE)
  BY <1>2, <1>4, <1>5, ControlStep, Zenon
<1>7. SoftInv'
  BY <1>1, <1>2, <1>4, <1>6, Zenon DEF SoftInv
<1>8. CallInv'
  BY <1>1, <1>2, <1>4, Zenon DEF CallInv
<1>9. ReadStep(acc)
  <2>1. acc.reg = "CONTROL"
    BY ControlAccess, Zenon
  <2>2. acc.reg # "RX_FIFO" /\ acc.reg # "START"
    BY <2>1
  <2> QED
    BY <1>1, <1>2, <1>5, <2>2, ReadsNothing, Zenon
<1> QED
  BY <1>2, <1>4, <1>6, <1>7, <1>8, <1>9, StepKept, Zenon

LEMMA SetControlKept ==
    ASSUME SpiInv, SetControl
    PROVE  SpiInv' /\ Stepped
<1>1. CoreInv /\ DataInv /\ SoftInv /\ CallInv
  BY Zenon DEF SpiInv
<1> DEFINE tx == drv.call # "spi_rx"
           rx == drv.call = "spi_rx" \/ (drv.call = "blocking_write" /\ control.rx_enable)
           acc == WriteControl(tx, rx, FALSE)
<1>2. /\ drv.pc = "control" /\ Cycle(acc) /\ drv' = [drv EXCEPT !.pc = "start"]
      /\ expected' = expected
      /\ got' = got /\ rx_base' = rx_base
  BY Zenon DEF SetControl, Goto
<1>3. "start" \in PCs
  BY DEF PCs
<1>4. /\ drv' \in DrvType /\ drv'.api = drv.api /\ drv'.call = drv.call /\ drv'.len = drv.len
      /\ drv'.pc = "start" /\ drv'.i = drv.i /\ drv'.avail = drv.avail
  BY <1>1, <1>2, <1>3, DrvGoto, Zenon DEF SameCall
<1>5. Todo' = Todo /\ ~Draining' /\ drv.pc \in {"reset", "control"}
  BY <1>2, <1>4, Zenon DEF Todo, Draining
<1>6. tx \in BOOLEAN /\ rx \in BOOLEAN
  OBVIOUS
<1>7. rx <=> drv.call = "spi_rx"
  BY <1>1, Zenon DEF SoftInv
<1>8. /\ SoftStep(acc) /\ RxInv' /\ idle_o' /\ cs' = cs
      /\ (control'.tx_enable = tx) /\ (control'.rx_enable = rx)
  <2> HIDE DEF tx, rx
  <2> QED
    BY <1>2, <1>4, <1>5, <1>6, ControlStep, Zenon
<1> HIDE DEF rx
<1>9. drv'.api = "hal" => ~control'.rx_enable
  <2>1. "blocking_write" # "spi_rx"
    OBVIOUS
  <2> QED
    BY <1>1, <1>4, <1>7, <1>8, <2>1, Zenon DEF SoftInv
<1>10. cs = 0
  BY <1>1, <1>2, Zenon DEF SoftInv
<1>11. SoftInv'
  BY <1>1, <1>2, <1>4, <1>7, <1>8, <1>9, <1>10, Zenon DEF SoftInv
<1>12. CallInv'
  BY <1>1, <1>2, <1>4, Zenon DEF CallInv
<1>13. ReadStep(acc)
  <2>1. acc.reg = "CONTROL"
    BY <1>6, ControlAccess, Zenon
  <2>2. acc.reg # "RX_FIFO" /\ acc.reg # "START"
    BY <2>1
  <2> QED
    BY <1>1, <1>2, <1>5, <2>2, ReadsNothing, Zenon
<1> QED
  BY <1>2, <1>4, <1>8, <1>11, <1>12, <1>13, StepKept, Zenon

\* CS moves only between transfers.
LEMMA SetCsKept ==
    ASSUME SpiInv, NEW level \in Bit, SetCs(level)
    PROVE  SpiInv' /\ Stepped
<1>1. CoreInv /\ DataInv /\ SoftInv /\ CallInv /\ RxInv /\ TxInv
  BY Zenon DEF SpiInv
<1> DEFINE acc == WriteCs(level)
           n == IF level = 0 THEN drv.selects + 1 ELSE drv.selects
<1>2. /\ drv.pc = "ready" /\ cs # level /\ Cycle(acc) /\ expected' = expected
      /\ got' = got /\ rx_base' = rx_base
      /\ level = 1 => idle_o \/ drv.call = "spi_rx"
      /\ level = 0 => drv.selects < MaxSelects
      /\ drv' = [drv EXCEPT !.selects = n]
  BY Zenon DEF SetCs
<1>3. n \in 0..MaxSelects
  BY <1>1, <1>2, DrvFacts
<1> HIDE DEF n
<1>4. /\ drv' \in DrvType /\ drv'.api = drv.api /\ drv'.call = drv.call /\ drv'.len = drv.len
      /\ drv'.pc = drv.pc /\ drv'.i = drv.i /\ drv'.avail = drv.avail
  BY <1>1, <1>2, <1>3, DrvSelects, Zenon DEF SameCall
<1>5. Todo' = Todo /\ ~Draining /\ ~Draining' /\ Todo = 0
  BY <1>2, <1>4, Zenon DEF Todo, Draining
<1>6. acc.reg = "CS" /\ acc.level = level
  BY DEF WriteCs
<1>7. Owed = 0
  <2>1. CASE idle_o
    BY <1>1, <1>5, <2>1, IdleFacts, Zenon
  <2>2. CASE level = 0
    <3>1. cs = 1
      BY <1>1, <1>2, <2>2 DEF DataInv, Bit
    <3> QED
      BY <1>1, <3>1, Zenon DEF TxInv
  <2>3. CASE drv.call = "spi_rx"
    BY <1>1, <1>2, <1>5, <2>3, Zenon DEF SoftInv, RxInv, Draining
  <2> QED
    BY <1>2, <2>1, <2>2, <2>3, Zenon DEF Bit
<1>8. SoftStep(acc)
  BY <1>2, <1>5, <1>6, <1>7, Zenon DEF SoftStep, Clears
<1>9. /\ acc.reg \notin {"TX_FIFO", "START"} /\ acc.reg # "RX_FIFO" /\ acc.reg # "START"
      /\ acc.reg # "CONTROL"
  BY <1>6
<1> HIDE DEF acc
<1>10. RxInv'
  BY <1>1, <1>2, <1>5, <1>8, <1>9, RxOutside, Zenon
<1>11. control' = control /\ (idle_o => idle_o')
  BY <1>2, <1>8, <1>9, Quiet, Zenon
<1>12. SoftInv'
  BY <1>1, <1>2, <1>4, <1>11, Zenon DEF SoftInv
<1>13. CallInv'
  BY <1>1, <1>2, <1>4, Zenon DEF CallInv
<1>14. ReadStep(acc)
  BY <1>1, <1>2, <1>5, <1>9, ReadsNothing, Zenon
<1> QED
  BY <1>2, <1>4, <1>8, <1>10, <1>12, <1>13, <1>14, StepKept, Zenon

\* Lengths for which the drivers reckon with room that is there: spi_tx takes
\* the FIFO for one of 128 bytes, so that a longer call would overrun it.
FitsFifo == (\A n \in TxLens : n <= TxFifoDepth) /\ HalDepth <= TxFifoDepth

LEMMA EnterKept ==
    ASSUME SpiInv, NEW call \in {"spi_tx", "spi_rx", "blocking_write"},
           NEW len \in 1..ByteCounts - 1, Enter(call, len),
           call = "blocking_write" <=> drv.api = "hal",
           call = "spi_tx" => len <= TxFifoDepth
    PROVE  SpiInv' /\ Stepped
<1>1. CoreInv /\ DataInv /\ SoftInv /\ CallInv /\ RxInv /\ TxInv
  BY Zenon DEF SpiInv
<1> DEFINE acc == NoAccess
           p == IF call = "blocking_write" THEN "control" ELSE "wait"
<1>2. /\ drv.pc = "ready" /\ cs = 0 /\ Len(expected) + len <= MaxFrames
      /\ Cycle(acc) /\ expected' = expected
      /\ got' = got /\ rx_base' = rx_base
      /\ drv' = [drv EXCEPT !.pc = p, !.call = call, !.i = 0, !.len = len, !.avail = 0]
  BY Zenon DEF Enter
<1>3. p \in PCs /\ p \in {"control", "wait"} /\ (p = "control" <=> call = "blocking_write")
  BY DEF PCs
<1>4. len \in Nat /\ len >= 0 /\ len \in 0..MaxFrames
  <2>1. Len(expected) \in Nat /\ MaxFrames \in Nat
    BY <1>1, LenProperties, DrvFacts, Zenon DEF DataInv
  <2> QED
    BY <1>2, <2>1, SpiCoreAssumption
<1> HIDE DEF p
<1>5. /\ drv' \in DrvType /\ drv'.api = drv.api /\ drv'.call = call /\ drv'.len = len
      /\ drv'.pc = p /\ drv'.i = 0 /\ drv'.avail = 0
  BY <1>1, <1>2, <1>3, <1>4, DrvEnter, Zenon
<1>6. p \notin {"fill", "drain", "end", "ready", "reset", "start"}
  BY <1>3
<1>7. Todo' = Todo /\ ~Draining /\ ~Draining'
  BY <1>2, <1>5, <1>6, Zenon DEF Todo, Draining
<1>8. SoftStep(acc) /\ acc.reg \notin {"TX_FIFO", "START", "RX_FIFO", "CS", "CONTROL"}
  BY <1>2, <1>7, PlainAccess, PlainStep, Zenon
<1>9. acc.reg \notin {"TX_FIFO", "START"} /\ acc.reg # "RX_FIFO" /\ acc.reg # "START"
  BY <1>8, Zenon
<1> HIDE DEF acc
<1>10. RxInv'
  BY <1>1, <1>2, <1>7, <1>8, <1>9, RxOutside, Zenon
<1>11. control' = control /\ (idle_o => idle_o') /\ cs' = cs
  BY <1>2, <1>8, <1>9, Quiet, Zenon
<1>12. SoftInv'
  <2>1. drv'.pc = "control" => idle_o'
    BY <1>1, <1>2, <1>3, <1>5, <1>11, Zenon DEF SoftInv
  <2>2. drv'.pc = "wait" => drv'.api = "legacy"
    <3>1. drv.api \in {"legacy", "hal"} /\ "wait" # "control"
      BY <1>1, DrvFacts
    <3> QED
      BY <1>3, <1>5, <3>1, Zenon
  <2> QED
    BY <1>1, <1>2, <1>3, <1>5, <1>6, <1>11, <2>1, <2>2, Zenon DEF SoftInv
<1>13. CallInv'
  BY <1>1, <1>2, <1>4, <1>5, <1>6, Zenon DEF CallInv
<1>14. ReadStep(acc)
  BY <1>1, <1>2, <1>7, <1>9, ReadsNothing, Zenon
<1> QED
  BY <1>2, <1>5, <1>8, <1>10, <1>12, <1>13, <1>14, StepKept, Zenon

LEMMA CallKept ==
    ASSUME SpiInv, FitsFifo, CallTx \/ CallRx \/ CallWrite
    PROVE  SpiInv' /\ Stepped
<1>1. DataInv
  BY SpiSystemAssumption, Zenon DEF SpiInv
<1>2. TxLens \subseteq 1..ByteCounts - 1 /\ RxLens \subseteq 1..ByteCounts - 1
      /\ HalLens \subseteq 1..ByteCounts - 1
  BY SpiSystemAssumption, Zenon
<1>3. /\ "spi_tx" # "spi_rx" /\ "spi_tx" # "blocking_write" /\ "spi_rx" # "blocking_write"
      /\ "legacy" # "hal"
  OBVIOUS
<1>4. CASE CallTx
  <2>1. PICK n \in TxLens : drv.api = "legacy" /\ Enter("spi_tx", n)
    BY <1>4, Zenon DEF CallTx
  <2>2. n \in 1..ByteCounts - 1 /\ n <= TxFifoDepth
    BY <1>2, Zenon DEF FitsFifo
  <2> QED
    BY <1>3, <2>1, <2>2, EnterKept, Zenon
<1>5. CASE CallRx
  <2>1. PICK n \in RxLens : drv.api = "legacy" /\ Enter("spi_rx", n)
    BY <1>5, Zenon DEF CallRx
  <2>2. n \in 1..ByteCounts - 1
    BY <1>2, Zenon
  <2> QED
    BY <1>3, <2>1, <2>2, EnterKept, Zenon
<1>6. CASE CallWrite
  <2>1. PICK n \in HalLens : drv.api = "hal" /\ Enter("blocking_write", n)
    BY <1>6, Zenon DEF CallWrite
  <2>2. n \in 1..ByteCounts - 1
    BY <1>2, Zenon
  <2> QED
    BY <1>3, <2>1, <2>2, EnterKept, Zenon
<1> QED
  BY <1>4, <1>5, <1>6, Zenon


LEMMA WaitIdleKept ==
    ASSUME SpiInv, WaitIdle
    PROVE  SpiInv' /\ Stepped
<1>1. CoreInv /\ DataInv /\ SoftInv /\ CallInv /\ RxInv /\ TxInv
  BY Zenon DEF SpiInv
<1> DEFINE acc == ReadStatus
<1>2. /\ drv.pc = "wait" /\ Cycle(acc) /\ expected' = expected
      /\ got' = got /\ rx_base' = rx_base
  BY Zenon DEF WaitIdle
<1>3. CASE ~idle_o
  <2>1. drv' = drv
    BY <1>3, Zenon DEF WaitIdle
  <2> QED
    BY <1>2, <2>1, SameDrv, PlainAccess, Zenon
<1>4. CASE idle_o
  <2>1. drv' = [drv EXCEPT !.pc = "control"] /\ "control" \in PCs
    BY <1>4, Zenon DEF WaitIdle, Goto, PCs
  <2>2. /\ drv' \in DrvType /\ drv'.api = drv.api /\ drv'.call = drv.call /\ drv'.len = drv.len
        /\ drv'.pc = "control" /\ drv'.i = drv.i /\ drv'.avail = drv.avail
    BY <1>1, <2>1, DrvGoto, Zenon DEF SameCall
  <2>3. Todo' = Todo /\ ~Draining /\ ~Draining'
    BY <1>2, <2>2, Zenon DEF Todo, Draining
  <2>4. SoftStep(acc) /\ acc.reg \notin {"TX_FIFO", "START", "RX_FIFO", "CS", "CONTROL"}
    BY <1>2, <2>3, PlainAccess, PlainStep, Zenon
  <2>5. acc.reg \notin {"TX_FIFO", "START"} /\ acc.reg # "RX_FIFO" /\ acc.reg # "START"
    BY <2>4, Zenon
  <2> HIDE DEF acc
  <2>6. RxInv'
    BY <1>1, <1>2, <2>3, <2>4, <2>5, RxOutside, Zenon
  <2>7. control' = control /\ idle_o' /\ cs' = cs
    BY <1>2, <1>4, <2>4, <2>5, Quiet, Zenon
  <2>8. SoftInv'
    BY <1>1, <1>2, <2>2, <2>7, Zenon DEF SoftInv
  <2>9. CallInv'
    BY <1>1, <1>2, <2>2, Zenon DEF CallInv
  <2>10. ReadStep(acc)
    BY <1>1, <1>2, <2>3, <2>5, ReadsNothing, Zenon
  <2> QED
    BY <1>2, <2>2, <2>4, <2>6, <2>8, <2>9, <2>10, StepKept, Zenon
<1> QED
  BY <1>3, <1>4

LEMMA FilledKept ==
    ASSUME SpiInv, Filled
    PROVE  SpiInv' /\ Stepped
<1>1. CoreInv /\ DataInv /\ SoftInv /\ CallInv /\ RxInv /\ TxInv
  BY Zenon DEF SpiInv
<1> DEFINE acc == IF drv.call = "spi_tx" THEN NoAccess ELSE ReadStatus
<1>2. /\ drv.pc = "fill" /\ drv.i = drv.len /\ Cycle(acc) /\ expected' = expected
      /\ got' = got /\ rx_base' = rx_base
  BY Zenon DEF Filled
<1>3. Plain(acc)
  BY PlainAccess, Zenon
<1> HIDE DEF acc
<1>4. CASE ~(drv.call = "spi_tx" \/ idle_o)
  <2>1. drv' = drv
    BY <1>4, Zenon DEF Filled
  <2> QED
    BY <1>2, <1>3, <2>1, SameDrv, Zenon
<1>5. CASE drv.call = "spi_tx" \/ idle_o
  <2>1. drv' = [drv EXCEPT !.pc = "ready"] /\ "ready" \in PCs
    BY <1>5, Zenon DEF Filled, Goto, PCs
  <2>2. /\ drv' \in DrvType /\ drv'.api = drv.api /\ drv'.call = drv.call /\ drv'.len = drv.len
        /\ drv'.pc = "ready" /\ drv'.i = drv.i /\ drv'.avail = drv.avail
    BY <1>1, <2>1, DrvGoto, Zenon DEF SameCall
  <2>3. Todo' = Todo
    <3>1. Todo' = 0
      BY <2>2, Zenon DEF Todo
    <3>2. Todo = 0
      BY <1>1, <1>2, DrvFacts DEF Todo
    <3> QED
      BY <3>1, <3>2
  <2>4. ~Draining /\ ~Draining'
    BY <1>2, <2>2, Zenon DEF Draining
  <2>5. SoftStep(acc) /\ acc.reg \notin {"TX_FIFO", "START", "RX_FIFO", "CS", "CONTROL"}
    BY <1>2, <1>3, <2>3, PlainStep, Zenon
  <2>6. acc.reg \notin {"TX_FIFO", "START"} /\ acc.reg # "RX_FIFO" /\ acc.reg # "START"
    BY <2>5, Zenon
  <2>7. RxInv'
    BY <1>1, <1>2, <2>4, <2>5, <2>6, RxOutside, Zenon
  <2>8. control' = control /\ (idle_o => idle_o') /\ cs' = cs
    BY <1>2, <2>5, <2>6, Quiet, Zenon
  <2>9. SoftInv'
    <3>1. "spi_tx" # "blocking_write"
      OBVIOUS
    <3> QED
      BY <1>1, <1>2, <1>5, <2>2, <2>8, <3>1, Zenon DEF SoftInv
  <2>10. CallInv'
    BY <1>1, <1>2, <2>2, Zenon DEF CallInv
  <2>11. ReadStep(acc)
    BY <1>1, <1>2, <2>4, <2>6, ReadsNothing, Zenon
  <2> QED
    BY <1>2, <2>2, <2>5, <2>7, <2>9, <2>10, <2>11, StepKept, Zenon
<1> QED
  BY <1>4, <1>5

\* START: the transfer is as long as what the software will write, or as the
\* idle bytes that spi_rx causes.
LEMMA SetStartKept ==
    ASSUME SpiInv, SetStart
    PROVE  SpiInv' /\ Stepped
<1>1. CoreInv /\ DataInv /\ SoftInv /\ CallInv /\ RxInv /\ TxInv
  BY Zenon DEF SpiInv
<1> DEFINE acc == WriteStart(drv.len)
           rxing == drv.call = "spi_rx"
           p == IF rxing THEN "drain" ELSE "fill"
<1>2. /\ drv.pc = "start" /\ Cycle(acc) /\ drv' = [drv EXCEPT !.pc = p]
      /\ rxing => /\ expected' = expected \o [j \in 1..drv.len |-> IdleByte]
                  /\ got' = <<>> /\ rx_base' = Len(expected)
      /\ ~rxing => expected' = expected /\ got' = got /\ rx_base' = rx_base
  BY Zenon DEF SetStart, Goto, IdleByte
<1>3. acc.reg = "START" /\ acc.byte_count = drv.len
  BY DEF WriteStart
<1>4. p \in PCs
  BY DEF PCs
<1>5. /\ drv' \in DrvType /\ drv'.api = drv.api /\ drv'.call = drv.call /\ drv'.len = drv.len
      /\ drv'.pc = p /\ drv'.i = drv.i /\ drv'.avail = drv.avail
  BY <1>1, <1>2, <1>4, DrvGoto, Zenon DEF SameCall
<1>6. /\ idle_o /\ cs = 0 /\ drv.i = 0 /\ drv.avail = 0 /\ drv.len \in 1..ByteCounts - 1
      /\ control.tx_enable <=> ~rxing
      /\ control.rx_enable <=> rxing
      /\ Len(expected) + drv.len <= MaxFrames
      /\ drv.call = "spi_tx" => drv.len <= TxFifoDepth
  BY <1>1, <1>2, Zenon DEF SoftInv, CallInv
<1>7. Todo = 0 /\ ~Draining
  BY <1>2, Zenon DEF Todo, Draining
<1>8. /\ rxing => Todo' = 0
      /\ ~rxing => Todo' = drv.len
  <2>1. rxing => Todo' = 0
    BY <1>5, Zenon DEF Todo
  <2>2. ~rxing => Todo' = drv'.len - drv'.i
    BY <1>5, Zenon DEF Todo
  <2>3. drv'.len - drv'.i = drv.len
    BY <1>1, <1>5, <1>6, DrvFacts
  <2> QED
    BY <2>1, <2>2, <2>3, Zenon
<1>9. SoftStep(acc)
  BY <1>2, <1>3, <1>6, <1>7, <1>8, Zenon DEF SoftStep, Clears
<1> HIDE DEF acc
<1>10. control' = control /\ cs' = cs
  BY <1>1, <1>2, <1>3, <1>9, CycleCore, Zenon
<1>11. /\ Len(expected) \in Nat
       /\ rxing => Len(expected') = Len(expected) + drv.len
  BY <1>1, <1>3, <1>6, <1>9, CycleExpected, Zenon
<1>12. MaxFrames \in Nat /\ drv.len \in Nat /\ drv.len >= 1
  BY <1>1, <1>6, DrvFacts, SpiCoreAssumption
<1>13. CASE rxing
  <2>1. drv'.pc = "drain"
    BY <1>5, <1>13, Zenon
  <2>2. RxInv'
    BY <1>1, <1>2, <1>3, <1>5, <1>6, <1>7, <1>9, <2>1, RxStart, Zenon
  <2>3. SoftInv'
    BY <1>1, <1>2, <1>5, <1>6, <1>10, <1>13, <2>1, Zenon DEF SoftInv
  <2>4. Len(expected') <= MaxFrames /\ drv'.i < drv'.len /\ drv'.i <= drv'.len
    BY <1>5, <1>6, <1>11, <1>12, <1>13
  <2>5. CallInv'
    BY <1>5, <1>13, <2>1, <2>4, Zenon DEF CallInv
  <2>6. ReadStep(acc)
    <3>1. acc.reg # "RX_FIFO"
      BY <1>3
    <3> QED
      BY <1>2, <1>3, <1>5, <1>6, <1>13, <3>1, Zenon DEF ReadStep
  <2> QED
    BY <1>2, <1>5, <1>9, <2>2, <2>3, <2>5, <2>6, StepKept, Zenon
<1>14. CASE ~rxing
  <2>1. drv'.pc = "fill"
    BY <1>5, <1>14, Zenon
  <2>2. ~Draining' /\ acc.reg # "RX_FIFO" /\ ~control.rx_enable
    BY <1>3, <1>6, <1>14, <2>1, Zenon DEF Draining
  <2>3. RxInv'
    BY <1>1, <1>2, <1>7, <1>9, <2>2, RxOutside, Zenon
  <2>4. drv.api = "hal" => drv.call = "blocking_write"
    BY <1>1, Zenon DEF SoftInv
  <2>5. SoftInv'
    BY <1>1, <1>2, <1>5, <1>6, <1>10, <1>14, <2>1, <2>4, Zenon DEF SoftInv
  <2>6. Len(tx_fifo') <= drv'.i
    <3>1. Len(tx_fifo) = 0
      BY <1>1, <1>6, <1>7, IdleFacts
    <3>2. /\ Len(tx_fifo') = Len(tx_fifo) - TxPop(acc) + TxPush(acc)
      BY <1>1, <1>2, <1>9, CycleTxFifo, Zenon
    <3>3. TxPush(acc) = 0 /\ TxPop(acc) \in {0, 1}
      <4>1. Taken(In(acc)) \in {0, 1}
        BY Zenon DEF Taken
      <4> QED
        BY <1>3, <4>1, Zenon DEF TxPush, TxPop
    <3> QED
      BY <1>5, <1>6, <3>1, <3>2, <3>3
  <2>7. /\ Len(expected') + drv'.len - drv'.i <= MaxFrames
        /\ Len(expected') <= MaxFrames /\ drv'.i <= drv'.len /\ ~(drv'.avail > 0)
    BY <1>2, <1>5, <1>6, <1>11, <1>12, <1>14
  <2>8. CallInv'
    BY <1>5, <1>6, <2>1, <2>6, <2>7, Zenon DEF CallInv
  <2>9. ReadStep(acc)
    BY <1>1, <1>2, <1>6, <1>14, <2>2, ReadsNothing, Zenon
  <2> QED
    BY <1>2, <1>5, <1>9, <2>3, <2>5, <2>8, <2>9, StepKept, Zenon
<1> QED
  BY <1>13, <1>14

\* The room that is reckoned with is there: the FIFO does not fill by itself.
LEMMA PollTxLevelKept ==
    ASSUME SpiInv, PollTxLevel
    PROVE  SpiInv' /\ Stepped
<1>1. CoreInv /\ DataInv /\ SoftInv /\ CallInv /\ RxInv /\ TxInv
  BY Zenon DEF SpiInv
<1> DEFINE acc == ReadStatus
           n == IF enough(reckoned) THEN reckoned ELSE 0
<1>2. /\ drv.pc = "fill" /\ Cycle(acc) /\ expected' = expected
      /\ got' = got /\ rx_base' = rx_base
      /\ drv' = [drv EXCEPT !.avail = n]
  BY Zenon DEF PollTxLevel, filling
<1>3. Len(tx_fifo) \in Nat /\ LegacyDepth \in Nat /\ HalDepth \in Nat /\ LegacyAvail \in Nat
      /\ LegacyAvail > 0
  BY <1>1, DrvFacts, LenProperties DEF DataInv
<1>4. n \in 0..LegacyDepth + HalDepth
  BY <1>3 DEF enough, reckoned
<1>5. drv.call = "blocking_write" /\ n > 0 => Len(tx_fifo) + n <= HalDepth
  <2>1. SUFFICES ASSUME drv.call = "blocking_write", n > 0 PROVE Len(tx_fifo) + n <= HalDepth
    OBVIOUS
  <2>2. n = HalDepth - Len(tx_fifo)
    BY <2>1 DEF reckoned
  <2> QED
    BY <1>3, <2>2
<1> HIDE DEF n
<1>6. /\ drv' \in DrvType /\ drv'.api = drv.api /\ drv'.call = drv.call /\ drv'.len = drv.len
      /\ drv'.pc = "fill" /\ drv'.i = drv.i /\ drv'.avail = n
  BY <1>1, <1>2, <1>4, DrvAvail, Zenon DEF SameCall
<1>7. Todo' = Todo /\ ~Draining /\ ~Draining'
  <2>1. Todo' = drv'.len - drv'.i /\ Todo = drv.len - drv.i
    BY <1>2, <1>6, Zenon DEF Todo
  <2>2. drv'.len - drv'.i = drv.len - drv.i
    BY <1>6, Zenon
  <2>3. ~Draining /\ ~Draining'
    BY <1>2, <1>6, Zenon DEF Draining
  <2> QED
    BY <2>1, <2>2, <2>3, Zenon
<1>8. SoftStep(acc) /\ acc.reg \notin {"TX_FIFO", "START", "RX_FIFO", "CS", "CONTROL"}
  BY <1>2, <1>7, PlainAccess, PlainStep, Zenon
<1>9. acc.reg \notin {"TX_FIFO", "START"} /\ acc.reg # "RX_FIFO" /\ acc.reg # "START"
  BY <1>8, Zenon
<1> HIDE DEF acc
<1>10. RxInv'
  BY <1>1, <1>2, <1>7, <1>8, <1>9, RxOutside, Zenon
<1>11. /\ control' = control /\ (idle_o => idle_o') /\ cs' = cs
       /\ Len(tx_fifo') \in Nat /\ Len(tx_fifo') <= Len(tx_fifo)
  BY <1>2, <1>8, <1>9, Quiet, Zenon
<1>12. SoftInv'
  BY <1>1, <1>2, <1>6, <1>11, Zenon DEF SoftInv
<1>13. CallInv'
  <2>1. /\ drv.i <= drv.len /\ Len(expected) + drv.len - drv.i <= MaxFrames
        /\ Len(tx_fifo) <= drv.i /\ Len(expected) <= MaxFrames
        /\ drv.call = "spi_tx" => drv.len <= TxFifoDepth
    BY <1>1, <1>2, Zenon DEF CallInv
  <2>2. Len(tx_fifo') <= drv.i
    BY <1>1, <1>3, <1>11, <2>1, DrvFacts
  <2>3. drv.call = "blocking_write" /\ n > 0 => Len(tx_fifo') + n <= HalDepth
    <3>1. SUFFICES ASSUME Len(tx_fifo) + n <= HalDepth PROVE Len(tx_fifo') + n <= HalDepth
      BY <1>5, Zenon
    <3> QED
      BY <1>3, <1>4, <1>11, <3>1
  <2> QED
    BY <1>2, <1>6, <2>1, <2>2, <2>3, Zenon DEF CallInv
<1>14. ReadStep(acc)
  BY <1>1, <1>2, <1>7, <1>9, ReadsNothing, Zenon
<1> QED
  BY <1>2, <1>6, <1>8, <1>10, <1>12, <1>13, <1>14, StepKept, Zenon

\* A byte finds room in the transmit FIFO.
LEMMA PushByteKept ==
    ASSUME SpiInv, FitsFifo, PushByte
    PROVE  SpiInv' /\ Stepped
<1>1. CoreInv /\ DataInv /\ SoftInv /\ CallInv /\ RxInv /\ TxInv
  BY Zenon DEF SpiInv
<1>2. PICK b \in SendBytes : Cycle(WriteTxFifo(b)) /\ expected' = Append(expected, Ordered(b))
  BY Zenon DEF PushByte
<1> DEFINE acc == WriteTxFifo(b)
           k == drv.i + 1
           n == drv.avail - 1
<1>3. /\ drv.pc = "fill" /\ drv.i < drv.len /\ drv.avail > 0
      /\ drv' = [drv EXCEPT !.i = k, !.avail = n]
      /\ got' = got /\ rx_base' = rx_base
  BY Zenon DEF PushByte, filling
<1>4. /\ drv.i \in Nat /\ drv.len \in Nat /\ drv.avail \in Nat /\ drv.len <= MaxFrames
      /\ MaxFrames \in Nat /\ HalDepth \in Nat /\ LegacyDepth \in Nat
      /\ drv.avail <= LegacyDepth + HalDepth /\ TxFifoDepth \in Nat /\ HalDepth <= TxFifoDepth
      /\ Len(tx_fifo) \in Nat /\ Len(expected) \in Nat
  BY <1>1, DrvFacts, SpiAssumption, LenProperties DEF FitsFifo, DataInv
<1>6. k = drv.i + 1 /\ n = drv.avail - 1
  OBVIOUS
<1> HIDE DEF k, n
<1>5. k \in 0..MaxFrames /\ n \in 0..LegacyDepth + HalDepth
  <2>1. /\ drv.i \in Nat /\ drv.len \in Nat /\ drv.avail \in Nat /\ drv.len <= MaxFrames
        /\ MaxFrames \in Nat /\ HalDepth \in Nat /\ LegacyDepth \in Nat
        /\ drv.avail <= LegacyDepth + HalDepth /\ drv.i < drv.len /\ drv.avail > 0
    BY <1>3, <1>4, Zenon
  <2> DEFINE i == drv.i
             l == drv.len
             v == drv.avail
  <2> HIDE DEF i, l, v
  <2>2. /\ i \in Nat /\ l \in Nat /\ v \in Nat /\ l <= MaxFrames
        /\ v <= LegacyDepth + HalDepth /\ i < l /\ v > 0 /\ k = i + 1 /\ n = v - 1
    BY <1>6, <2>1, Zenon DEF i, l, v
  <2> QED
    BY <1>4, <2>2
<1>7. /\ drv' \in DrvType /\ drv'.api = drv.api /\ drv'.call = drv.call /\ drv'.len = drv.len
      /\ drv'.pc = "fill" /\ drv'.i = k /\ drv'.avail = n
  BY <1>1, <1>3, <1>5, DrvPush, Zenon DEF SameCall
<1>8. /\ Len(expected) + drv.len - drv.i <= MaxFrames /\ Len(tx_fifo) <= drv.i
      /\ drv.call = "blocking_write" => Len(tx_fifo) + drv.avail <= HalDepth
      /\ drv.call = "spi_tx" => drv.len <= TxFifoDepth
  BY <1>1, <1>3, Zenon DEF CallInv
<1>9. control.tx_enable /\ drv.call # "spi_rx"
  BY <1>1, <1>3, Zenon DEF SoftInv
<1>10. drv.call = "spi_tx" \/ drv.call = "blocking_write"
  BY <1>1, <1>9, DrvFacts, Zenon
<1>11. Len(tx_fifo) < TxFifoDepth
  <2>1. CASE drv.call = "spi_tx"
    <3>1. drv.len <= TxFifoDepth
      BY <1>8, <2>1, Zenon
    <3> QED
      BY <1>3, <1>4, <1>8, <3>1
  <2>2. CASE drv.call = "blocking_write"
    <3>1. Len(tx_fifo) + drv.avail <= HalDepth
      BY <1>8, <2>2, Zenon
    <3> QED
      BY <1>3, <1>4, <3>1
  <2> QED
    BY <1>10, <2>1, <2>2
<1>12. Todo' = Todo - 1
  <2>1. Todo' = drv'.len - drv'.i /\ Todo = drv.len - drv.i
    BY <1>3, <1>7, Zenon DEF Todo
  <2>2. Todo' = drv.len - (drv.i + 1)
    BY <1>6, <1>7, <2>1, Zenon
  <2>3. drv.len \in Int /\ drv.i \in Int
    BY <1>4
  <2>4. drv.len - (drv.i + 1) = (drv.len - drv.i) - 1
    BY <2>3
  <2> QED
    BY <2>1, <2>2, <2>4, Zenon
<1>13. acc.reg = "TX_FIFO" /\ acc.data = b /\ b \in Byte
  BY SpiSystemAssumption DEF WriteTxFifo
<1>14. SoftStep(acc)
  BY <1>2, <1>9, <1>11, <1>12, <1>13, Zenon DEF SoftStep, Clears
<1> HIDE DEF acc
<1>15. ~Draining /\ ~Draining' /\ acc.reg # "RX_FIFO" /\ acc.reg # "START" /\ acc.reg # "CONTROL"
       /\ acc.reg # "CS"
  BY <1>3, <1>7, <1>13, Zenon DEF Draining
<1>16. Cycle(acc)
  BY <1>2, Zenon DEF acc
<1>17. RxInv'
  BY <1>1, <1>14, <1>15, <1>16, RxOutside, Zenon
<1>18. control' = control /\ cs' = cs
  BY <1>1, <1>14, <1>15, <1>16, CycleCore, Zenon
<1>19. SoftInv'
  <2>1. "fill" \notin {"reset", "control", "start", "ready", "wait", "drain", "end"}
    OBVIOUS
  <2> QED
    BY <1>1, <1>3, <1>7, <1>9, <1>18, <2>1, Zenon DEF SoftInv
<1>20. Len(expected') = Len(expected) + 1
  BY <1>1, <1>13, <1>14, CycleExpected, Zenon
<1>21. Len(tx_fifo') <= Len(tx_fifo) + 1 /\ Len(tx_fifo') \in Nat
  <2>1. tx_fifo' \in Seq(Byte) /\ Len(tx_fifo') = Len(tx_fifo) - TxPop(acc) + TxPush(acc)
    BY <1>1, <1>14, <1>16, CycleTxFifo, Zenon
  <2>2. TxPush(acc) = 1 /\ TxPop(acc) \in {0, 1}
    <3>1. Taken(In(acc)) \in {0, 1}
      BY Zenon DEF Taken
    <3> QED
      BY <1>13, <3>1, Zenon DEF TxPush, TxPop
  <2>3. Len(tx_fifo') \in Nat
    BY <2>1, LenProperties, Zenon
  <2> QED
    BY <1>4, <2>1, <2>2, <2>3
<1>22. CallInv'
  <2>1. /\ k <= drv.len /\ Len(expected') + drv.len - k <= MaxFrames
        /\ Len(expected') <= MaxFrames
    <3>1. /\ drv.i \in Int /\ drv.len \in Int /\ Len(expected) \in Int /\ MaxFrames \in Int
          /\ drv.i < drv.len /\ Len(expected) + drv.len - drv.i <= MaxFrames
      BY <1>3, <1>4, <1>8
    <3>2. (Len(expected) + 1) + drv.len - (drv.i + 1) <= MaxFrames
          /\ Len(expected) + 1 <= MaxFrames /\ drv.i + 1 <= drv.len
      BY <3>1
    <3> QED
      BY <1>6, <1>20, <3>2, Zenon
  <2>2. Len(tx_fifo') <= k
    BY <1>4, <1>6, <1>8, <1>21
  <2>3. drv.call = "blocking_write" => Len(tx_fifo') + n <= HalDepth
    <3>1. SUFFICES ASSUME Len(tx_fifo) + drv.avail <= HalDepth PROVE Len(tx_fifo') + n <= HalDepth
      BY <1>8, Zenon
    <3> QED
      BY <1>4, <1>6, <1>21, <3>1
  <2> QED
    BY <1>7, <1>8, <2>1, <2>2, <2>3, Zenon DEF CallInv
<1>23. ReadStep(acc)
  BY <1>1, <1>3, <1>15, ReadsNothing, Zenon
<1> QED
  BY <1>7, <1>14, <1>16, <1>17, <1>19, <1>22, <1>23, StepKept, Zenon

LEMMA PollRxLevelKept ==
    ASSUME SpiInv, PollRxLevel
    PROVE  SpiInv' /\ Stepped
<1>1. CoreInv /\ DataInv /\ SoftInv /\ CallInv /\ RxInv /\ TxInv
  BY Zenon DEF SpiInv
<1> DEFINE acc == ReadStatus
<1>2. drv.pc = "drain" /\ Cycle(acc) /\ expected' = expected
      /\ got' = got /\ rx_base' = rx_base
  BY Zenon DEF PollRxLevel
<1>3. CASE rx_fifo = <<>>
  <2>1. drv' = drv
    BY <1>3, Zenon DEF PollRxLevel
  <2> QED
    BY <1>2, <2>1, SameDrv, PlainAccess, Zenon
<1>4. CASE rx_fifo # <<>>
  <2>1. drv' = [drv EXCEPT !.pc = "end"] /\ "end" \in PCs
    BY <1>4, Zenon DEF PollRxLevel, Goto, PCs
  <2>2. /\ drv' \in DrvType /\ drv'.api = drv.api /\ drv'.call = drv.call /\ drv'.len = drv.len
        /\ drv'.pc = "end" /\ drv'.i = drv.i /\ drv'.avail = drv.avail
    BY <1>1, <2>1, DrvGoto, Zenon DEF SameCall
  <2>3. Todo' = Todo /\ Draining /\ Draining' /\ drv'.pc \in PCs
    BY <1>2, <2>1, <2>2, Zenon DEF Todo, Draining
  <2>4. SoftStep(acc) /\ acc.reg \notin {"TX_FIFO", "START", "RX_FIFO", "CS", "CONTROL"}
    BY <1>2, <2>3, PlainAccess, PlainStep, Zenon
  <2>5. acc.reg \notin {"TX_FIFO", "START"} /\ acc.reg # "RX_FIFO" /\ acc.reg \notin {"START", "CONTROL"}
    BY <2>4, Zenon
  <2> HIDE DEF acc
  <2>6. control.rx_enable
    BY <1>1, <1>2, Zenon DEF SoftInv
  <2>7. drv'.i = drv.i + RxPop(acc)
    <3>1. RxPop(acc) = 0 /\ drv.i \in Nat
      BY <1>1, <2>5, DrvFacts, Zenon DEF RxPop
    <3> QED
      BY <2>2, <3>1
  <2>8. RxInv'
    BY <1>1, <1>2, <1>4, <2>2, <2>3, <2>4, <2>5, <2>6, <2>7, RxInside, Zenon
  <2>9. control' = control /\ (idle_o => idle_o') /\ cs' = cs
    BY <1>2, <2>4, <2>5, Quiet, Zenon
  <2>10. SoftInv'
    BY <1>1, <1>2, <2>2, <2>6, <2>9, Zenon DEF SoftInv
  <2>11. CallInv'
    BY <1>1, <1>2, <2>2, Zenon DEF CallInv
  <2>12. ReadStep(acc)
    <3>1. acc.reg # "START"
      BY <2>5, Zenon
    <3> QED
      BY <1>1, <1>2, <2>2, <2>3, <2>5, <3>1, ReadsNothing, Zenon
  <2> QED
    BY <1>2, <2>2, <2>4, <2>8, <2>10, <2>11, <2>12, StepKept, Zenon
<1> QED
  BY <1>3, <1>4

LEMMA PopByteKept ==
    ASSUME SpiInv, PopByte
    PROVE  SpiInv' /\ Stepped
<1>1. CoreInv /\ DataInv /\ SoftInv /\ CallInv /\ RxInv /\ TxInv
  BY Zenon DEF SpiInv
<1> DEFINE acc == ReadRxFifo
           k == drv.i + 1
           p == IF drv.i + 1 = drv.len THEN "ready" ELSE "drain"
<1>2. /\ drv.pc = "end" /\ Cycle(acc) /\ expected' = expected
      /\ drv' = [drv EXCEPT !.i = k, !.pc = p]
      /\ got' = Append(got, Head(rx_fifo)) /\ rx_base' = rx_base
  BY Zenon DEF PopByte
<1>3. /\ drv.i \in Nat /\ drv.len \in Nat /\ drv.len <= MaxFrames /\ MaxFrames \in Nat
      /\ drv.i < drv.len
  <2>1. drv.i < drv.len
    BY <1>1, <1>2, Zenon DEF CallInv
  <2> QED
    BY <1>1, <2>1, DrvFacts, Zenon
<1>4. k \in 0..MaxFrames /\ k <= drv.len /\ (k # drv.len => k < drv.len) /\ k = drv.i + 1
  BY <1>3
<1>5. p \in PCs /\ (p = "ready" <=> k = drv.len) /\ p \in {"ready", "drain"}
  BY DEF PCs
<1> HIDE DEF k, p
<1>6. /\ drv' \in DrvType /\ drv'.api = drv.api /\ drv'.call = drv.call /\ drv'.len = drv.len
      /\ drv'.pc = p /\ drv'.i = k /\ drv'.avail = drv.avail
  BY <1>1, <1>2, <1>4, <1>5, DrvPop, Zenon DEF SameCall
<1>7. acc.reg = "RX_FIFO"
  BY DEF ReadRxFifo
<1>8. p \notin {"fill", "end", "control", "start", "reset", "wait"}
  BY <1>5
<1>9. Todo' = Todo
  BY <1>2, <1>6, <1>8, Zenon DEF Todo
<1>10. rx_fifo # <<>>
  BY <1>1, <1>2, Zenon DEF RxInv
<1>11. SoftStep(acc)
  BY <1>2, <1>7, <1>9, <1>10, Zenon DEF SoftStep, Clears
<1>12. acc.reg \notin {"TX_FIFO", "START"} /\ acc.reg \notin {"START", "CONTROL"} /\ acc.reg # "CS"
       /\ acc.reg # "CONTROL"
  BY <1>7
<1> HIDE DEF acc
<1>13. control.rx_enable /\ cs = 0 /\ drv.call = "spi_rx"
  BY <1>1, <1>2, Zenon DEF SoftInv
<1>14. /\ Draining /\ drv'.i = drv.i + RxPop(acc) /\ (~Draining' => drv'.i = drv'.len)
       /\ drv'.pc # "end"
  <2>1. drv'.i = drv.i + RxPop(acc)
    BY <1>4, <1>6, <1>7, Zenon DEF RxPop
  <2>2. ~Draining' => drv'.i = drv'.len
    BY <1>5, <1>6, Zenon DEF Draining
  <2> QED
    BY <1>2, <1>6, <1>8, <2>1, <2>2, Zenon DEF Draining
<1>15. RxInv'
  BY <1>1, <1>2, <1>5, <1>6, <1>11, <1>12, <1>13, <1>14, RxInside, Zenon
<1>16. control' = control /\ (idle_o => idle_o') /\ cs' = cs
  BY <1>2, <1>11, <1>12, Quiet, Zenon
<1>17. SoftInv'
  <2>1. drv.api # "hal"
    <3>1. "spi_rx" # "blocking_write"
      OBVIOUS
    <3> QED
      BY <1>1, <1>13, <3>1, Zenon DEF SoftInv
  <2> QED
    BY <1>1, <1>2, <1>6, <1>8, <1>13, <1>16, <2>1, Zenon DEF SoftInv
<1>18. CallInv'
  <2>1. drv'.pc \in {"drain", "end"} => drv'.i < drv'.len
    <3>1. "ready" \notin {"drain", "end"}
      OBVIOUS
    <3> QED
      BY <1>4, <1>5, <1>6, <3>1, Zenon
  <2> QED
    BY <1>1, <1>2, <1>4, <1>6, <1>8, <2>1, Zenon DEF CallInv
<1>19. ReadStep(acc)
  <2>1. acc.reg # "START"
    BY <1>12, Zenon
  <2> QED
    BY <1>2, <1>6, <1>7, <1>14, <2>1, Zenon DEF ReadStep
<1> QED
  BY <1>2, <1>6, <1>11, <1>15, <1>17, <1>18, <1>19, StepKept, Zenon

-----------------------------------------------------------------------------
(***************************************************************************)
(* The theorems.                                                           *)
(***************************************************************************)

LEMMA SpiInitially ==
    ASSUME Init
    PROVE  SpiInv
<1>1. /\ cfg \in CfgType /\ (cfg.cpha <=> cfg.cpol = 1)
      /\ cfg.cpol \in {0, 1} /\ cfg.half_clk_period \in Nat /\ cfg.half_clk_period <= MaxHalf
  BY SpiCoreAssumption DEF Init, SpiInit, CfgType, Bit
<1>2. cfg.cpha \in BOOLEAN
  BY <1>1 DEF CfgType
<1>3. ByteBits \in Nat /\ ByteBits > 1 /\ ByteCounts \in Nat /\ ByteCounts > 1 /\ MaxHalf \in Nat
  BY SpiCoreAssumption
<1> DEFINE zero == [i \in 1..ByteBits |-> 0]
           ph == cfg.cpha
           no == FALSE
<1>4. zero \in Byte
  BY DEF Byte, Bit
<1>5. no \in BOOLEAN /\ ph \in BOOLEAN /\ ~no
  BY <1>2
<1>6. sc = [state |-> "IDLE", clk |-> cfg.cpol, clk_counter |-> 0, sample_phase |-> ph,
            byte_count |-> 0, bit_count |-> 0, copi_shift |-> zero,
            cipo_shift |-> zero, data_out_valid |-> no]
  BY Zenon DEF Init, SpiInit, SpiCoreInit
<1> HIDE DEF zero, no, ph
<1>7. /\ sc.state = "IDLE" /\ sc.clk = cfg.cpol /\ sc.clk_counter = 0 /\ (sc.sample_phase = ph)
      /\ sc.byte_count = 0 /\ sc.bit_count = 0 /\ (sc.data_out_valid = no)
  BY <1>6
<1>8. sc \in SpiCoreType
  BY <1>1, <1>3, <1>4, <1>5, <1>6 DEF SpiCoreType, Bit
<1>9. CoreInv
  <2>1. sc.clk_counter <= cfg.half_clk_period
    BY <1>1, <1>7
  <2>2. ~active /\ idle_o /\ sc.state # "WAIT_START"
    BY <1>7 DEF active, idle_o
  <2> QED
    BY <1>1, <1>5, <1>7, <1>8, <2>1, <2>2, Zenon DEF CoreInv, ph
<1>10. /\ control = [tx_enable |-> FALSE, rx_enable |-> FALSE] /\ cs = 1
       /\ tx_fifo = <<>> /\ rx_fifo = <<>> /\ received = <<>> /\ expected = <<>>
  BY Zenon DEF Init, SpiInit, D!DevInit
<1>11. control \in ControlType /\ ~control.tx_enable /\ ~control.rx_enable
  BY <1>10 DEF ControlType
<1>12. /\ <<>> \in Seq(Byte) /\ Len(<<>>) = 0
  OBVIOUS
<1>13. dev = DevRec(0, <<>>, 0, <<>>, 0, no)
  BY Zenon DEF Init, D!DevInit, DevRec, no
<1>14. /\ dev \in D!DevType /\ dev.inBits = 0 /\ dev.inByte = <<>> /\ dev.outBits = 0
       /\ dev.outByte = <<>>
  <2>1. 0 \in 0..ByteBits - 1 /\ 0 \in {0, 1} /\ <<>> \in [1..0 -> Bit]
    BY <1>3
  <2>2. dev \in D!DevType
    BY <1>5, <1>13, <2>1, DevTypeIntro, Zenon
  <2> QED
    BY <1>13, <2>2 DEF DevRec
<1>15. PICK a \in Apis :
          drv = [api |-> a, pc |-> IF a = "hal" THEN "reset" ELSE "ready",
                 call |-> IF a = "hal" THEN "blocking_write" ELSE "spi_tx",
                 i |-> 0, len |-> 0, avail |-> 0, selects |-> 0]
  BY Zenon DEF Init
<1>16. /\ a \in {"legacy", "hal"} /\ drv.api = a
       /\ drv.pc = IF a = "hal" THEN "reset" ELSE "ready"
       /\ drv.call = IF a = "hal" THEN "blocking_write" ELSE "spi_tx"
       /\ drv.i = 0 /\ drv.len = 0 /\ drv.avail = 0
  BY <1>15, SpiSystemAssumption
<1>17. drv \in DrvType
  BY <1>15, <1>16, SpiSystemAssumption DEF DrvType
<1>18. idle_o /\ ~active /\ ~sc.data_out_valid
  BY <1>5, <1>7 DEF idle_o, active
<1>19. /\ drv.pc \in {"reset", "ready"} /\ drv.call # "spi_rx"
       /\ (drv.api = "hal" <=> drv.call = "blocking_write")
       /\ (drv.pc = "reset" => drv.api = "hal")
  BY <1>16
<1>20. drv.pc \notin {"wait", "control", "start", "fill", "drain", "end"}
  BY <1>19
<1>21. DataInv
  <2>1. Len(tx_fifo) <= TxFifoDepth /\ Len(rx_fifo) <= RxFifoDepth
    BY <1>10, <1>12, SpiAssumption
  <2>2. dev.inByte \in [1..dev.inBits -> Bit] /\ dev.outByte \in [1..dev.outBits -> Bit]
    <3>1. <<>> \in [1..0 -> Bit]
      OBVIOUS
    <3> QED
      BY <1>14, <3>1, Zenon
  <2>3. cs \in Bit
    BY <1>10 DEF Bit
  <2> QED
    BY <1>10, <1>11, <1>12, <1>14, <1>17, <2>1, <2>2, <2>3, Zenon DEF DataInv
<1>22. SoftInv
  BY <1>11, <1>18, <1>19, <1>20, Zenon DEF SoftInv
<1>23. CallInv
  <2>1. drv.i <= drv.len /\ Len(expected) <= MaxFrames
    BY <1>10, <1>16, SpiSystemAssumption
  <2> QED
    BY <1>20, <2>1, Zenon DEF CallInv
<1>24. Unloaded = 0 /\ MidBytes = 0 /\ ~Mid /\ Todo = 0 /\ Owed = 0
  <2>1. Unloaded = 0 /\ MidBytes = 0 /\ ~Mid /\ Todo = 0
    BY <1>18, <1>20, Zenon DEF Unloaded, MidBytes, Mid, Todo
  <2> QED
    BY <2>1 DEF Owed
<1>25. RxInv
  BY <1>10, <1>11, <1>20, Zenon DEF RxInv
<1>26. TxInv
  <2>1. /\ Len(expected) = Len(received) + Owed
        /\ \A j \in 1..Len(expected) : ~(j > Len(received) + MidBytes)
    BY <1>10, <1>12, <1>24
  <2> QED
    BY <1>10, <1>11, <1>24, <2>1, Zenon DEF TxInv
<1>27. WireInv
  <2>1. \A f \in 1..Len(received) : received[f] = expected[f]
    BY <1>10, <1>12
  <2> QED
    BY <1>14, <1>24, <2>1, Zenon DEF WireInv
<1> QED
  BY <1>9, <1>21, <1>22, <1>23, <1>25, <1>26, <1>27, Zenon DEF SpiInv

LEMMA NextKept ==
    ASSUME SpiInv, FitsFifo, [Next]_vars
    PROVE  SpiInv' /\ (Stepped \/ UNCHANGED vars)
<1>1. CASE UNCHANGED vars
  <2>1. /\ sc' = sc /\ cfg' = cfg /\ control' = control /\ cs' = cs /\ tx_fifo' = tx_fifo
        /\ rx_fifo' = rx_fifo /\ drv' = drv /\ dev' = dev /\ received' = received
        /\ expected' = expected
    BY <1>1, Zenon DEF vars, spiVars
  <2>2. (active' <=> active) /\ (idle_o' <=> idle_o) /\ Full' = Full /\ IdleByte' = IdleByte
    BY <2>1, Zenon DEF active, idle_o, Full, IdleByte
  <2>3. (Mid' <=> Mid) /\ Unloaded' = Unloaded /\ Todo' = Todo /\ Handed' = Handed
    BY <2>1, <2>2, Zenon DEF Mid, Unloaded, Todo, Handed
  <2>4. MidBytes' = MidBytes
    BY <2>3, Zenon DEF MidBytes
  <2>5. Owed' = Owed
    BY <2>3, <2>4, Zenon DEF Owed
  <2>6. CoreInv' /\ DataInv'
    BY <2>1, <2>2, Zenon DEF SpiInv, CoreInv, DataInv
  <2>7. SoftInv' /\ CallInv'
    BY <2>1, <2>2, Zenon DEF SpiInv, SoftInv, CallInv
  <2>8. RxInv' /\ WireInv'
    BY <2>1, <2>3, <2>5, Zenon DEF SpiInv, RxInv, WireInv
  <2>9. TxInv'
    BY <2>1, <2>2, <2>3, <2>4, <2>5, Zenon DEF SpiInv, TxInv, Ordered, bit_reverse
  <2> QED
    BY <1>1, <2>6, <2>7, <2>8, <2>9, Zenon DEF SpiInv
<1>2. CASE Clock
  BY <1>2, ClockKept, Zenon
<1>3. CASE Construct
  BY <1>3, ConstructKept, Zenon
<1>4. CASE SetCs(0) \/ SetCs(1)
  <2>1. 0 \in Bit /\ 1 \in Bit
    BY DEF Bit
  <2> QED
    BY <1>4, <2>1, SetCsKept, Zenon
<1>5. CASE CallTx \/ CallRx \/ CallWrite
  BY <1>5, CallKept, Zenon
<1>6. CASE WaitIdle
  BY <1>6, WaitIdleKept, Zenon
<1>7. CASE SetControl
  BY <1>7, SetControlKept, Zenon
<1>8. CASE SetStart
  BY <1>8, SetStartKept, Zenon
<1>9. CASE PollTxLevel
  BY <1>9, PollTxLevelKept, Zenon
<1>10. CASE PushByte
  BY <1>10, PushByteKept, Zenon
<1>11. CASE Filled
  BY <1>11, FilledKept, Zenon
<1>12. CASE PollRxLevel
  BY <1>12, PollRxLevelKept, Zenon
<1>13. CASE PopByte
  BY <1>13, PopByteKept, Zenon
<1> QED
  BY <1>1, <1>2, <1>3, <1>4, <1>5, <1>6, <1>7, <1>8, <1>9, <1>10, <1>11, <1>12, <1>13, Zenon
     DEF Next, Software

LEMMA SpiInvariant ==
    ASSUME FitsFifo
    PROVE  Spec => []SpiInv
<1>1. Init => SpiInv
  BY SpiInitially
<1>2. SpiInv /\ [Next]_vars => SpiInv'
  BY NextKept
<1> QED
  BY <1>1, <1>2, PTL DEF Spec

\* The registers of the block, of the device and of the software keep to
\* their widths, and the FIFOs to their depths, in every cycle.
THEOREM SpiTypeCorrect ==
    ASSUME FitsFifo
    PROVE  Spec => []SpiTypeOK
<1>1. SpiInv => SpiTypeOK
  <2> SUFFICES ASSUME SpiInv PROVE SpiTypeOK
    OBVIOUS
  <2>1. CoreInv /\ DataInv
    BY Zenon DEF SpiInv
  <2>2. tx_fifo \in UNION {[1..n -> Byte] : n \in 0..TxFifoDepth}
    <3>1. tx_fifo \in [1..Len(tx_fifo) -> Byte] /\ Len(tx_fifo) \in Nat /\ Len(tx_fifo) <= TxFifoDepth
      BY <2>1, SeqIsFun, Zenon DEF DataInv
    <3>2. Len(tx_fifo) \in 0..TxFifoDepth
      BY <3>1, SpiAssumption
    <3> QED
      BY <3>1, <3>2, Zenon
  <2>3. rx_fifo \in UNION {[1..n -> Byte] : n \in 0..RxFifoDepth}
    <3>1. rx_fifo \in [1..Len(rx_fifo) -> Byte] /\ Len(rx_fifo) \in Nat /\ Len(rx_fifo) <= RxFifoDepth
      BY <2>1, SeqIsFun, Zenon DEF DataInv
    <3>2. Len(rx_fifo) \in 0..RxFifoDepth
      BY <3>1, SpiAssumption
    <3> QED
      BY <3>1, <3>2, Zenon
  <2> QED
    BY <2>1, <2>2, <2>3, Zenon DEF SpiTypeOK, CoreInv, DataInv
<1> QED
  BY <1>1, SpiInvariant, PTL

\* The device receives the bytes that the software asked for, in order and bit
\* for bit, across every pause of the clock and both modes: the shift register
\* of spi_core.sv, the transmit FIFO and the fill loops of the two drivers
\* together lose, repeat and reorder nothing.
THEOREM DeviceGetsTheBytes ==
    ASSUME FitsFifo
    PROVE  Spec => []DeviceReceivesWhatIsSent
<1>1. SpiInv => DeviceReceivesWhatIsSent
  <2> SUFFICES ASSUME SpiInv PROVE DeviceReceivesWhatIsSent
    OBVIOUS
  <2>1. CoreInv /\ DataInv /\ TxInv /\ WireInv
    BY Zenon DEF SpiInv
  <2>2. /\ Len(received) \in Nat /\ Len(expected) \in Nat /\ Len(tx_fifo) \in Nat
    BY <2>1, LenProperties, Zenon DEF DataInv
  <2>3. Unloaded \in Nat /\ MidBytes \in {0, 1}
    <3>1. MidBytes \in {0, 1}
      BY Zenon DEF MidBytes
    <3>2. sc.byte_count \in Nat /\ (~idle_o => sc.byte_count >= 1)
      BY <2>1, CoreFacts, Zenon DEF CoreInv
    <3>3. ~idle_o => sc.byte_count - 1 \in Nat
      BY <3>2
    <3>4. 0 \in Nat
      OBVIOUS
    <3> QED
      BY <3>1, <3>2, <3>3, <3>4, Zenon DEF Unloaded
  <2>4. Len(received) <= Len(expected)
    <3>1. CASE control.tx_enable
      <4>1. Len(expected) = Len(received) + Len(tx_fifo) + MidBytes
        BY <2>1, <3>1, Zenon DEF TxInv
      <4> QED
        BY <2>2, <2>3, <4>1
    <3>2. CASE ~control.tx_enable
      <4>1. Len(expected) = Len(received) + (Unloaded + MidBytes)
        BY <2>1, <3>2, Zenon DEF TxInv, Owed
      <4> QED
        BY <2>2, <2>3, <4>1
    <3> QED
      BY <3>1, <3>2
  <2>5. AtRest => Len(received) = Len(expected) /\ dev.inBits = 0
    <3>1. AtRest => idle_o /\ Todo = 0
      BY Zenon DEF AtRest, Todo
    <3> QED
      BY <2>1, <3>1, IdleFacts, Zenon DEF WireInv
  <2> QED
    BY <2>1, <2>4, <2>5, Zenon DEF DeviceReceivesWhatIsSent, WireInv
<1> QED
  BY <1>1, SpiInvariant, PTL

\* A byte that spi_core hands over finds room in the receive FIFO, although
\* wready is looked at a cycle earlier (spi_core.sv:156, spi.sv:181).
THEOREM ReceivedByteFindsRoom ==
    ASSUME FitsFifo
    PROVE  Spec => []ReceivedBytesAreKept
<1>1. SpiInv => ReceivedBytesAreKept
  BY Zenon DEF SpiInv, RxInv, ReceivedBytesAreKept, rx_fifo_wvalid
<1> QED
  BY <1>1, SpiInvariant, PTL

\* The clock moves only within a transfer: when spi_core is not active SCK
\* already is at the level to which clk_rests returns it (spi_core.sv:183).
THEOREM ClockRests ==
    ASSUME FitsFifo
    PROVE  Spec => ClockRestsBetweenTransfers
<1>1. SpiInv /\ [Next]_vars => [cs = 0 /\ sc'.clk # sc.clk => active]_vars
  <2> SUFFICES ASSUME SpiInv, Next, ~active PROVE sc'.clk = sc.clk
    BY Zenon
  <2>1. PICK acc : Cycle(acc)
    BY Zenon DEF Next, Software, Clock, Construct, SetCs, CallTx, CallRx, CallWrite, Enter, WaitIdle,
       SetControl, SetStart, PollTxLevel, PushByte, Filled, PollRxLevel, PopByte
  <2> DEFINE in == CoreIn(acc, dev.cipo)
  <2>2. SpiCoreClock(in)
    BY <2>1, Zenon DEF Cycle, SpiClock
  <2> HIDE DEF in
  <2>3. sc'.clk = clk_d(in)
    BY <2>2 DEF SpiCoreClock
  <2>4. ~clk_running(in) /\ clk_rests
    BY Zenon DEF clk_running, clk_rests
  <2>5. sc'.clk = cfg.cpol
    BY <2>3, <2>4, Zenon DEF clk_d
  <2> QED
    BY <2>5, Zenon DEF SpiInv, CoreInv
<1> QED
  BY <1>1, SpiInvariant, PTL DEF Spec, ClockRestsBetweenTransfers
=============================================================================
