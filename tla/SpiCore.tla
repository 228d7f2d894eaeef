------------------------------- MODULE SpiCore -------------------------------
(***************************************************************************)
(* spi_core.sv: the SPI controller.  It shifts bytes out on COPI and in    *)
(* from CIPO, and pauses its clock while it has no byte to send or no room *)
(* for one that it has received.                                           *)
(*                                                                         *)
(* The registers are the record `sc', the configuration inputs are `cfg'   *)
(* (they "must not change whilst spi_core is active"), the other inputs of *)
(* a cycle are the record `in'.  A byte is the sequence of its bits, most  *)
(* significant first.                                                      *)
(***************************************************************************)
EXTENDS Integers, Sequences

CONSTANTS
    ByteBits,       \* bits of a byte; 8
    ByteCounts,     \* 2^BYTE_COUNT_W, the values of the byte counter
    MaxHalf         \* bound: largest half_clk_period_i

ASSUME SpiCoreAssumption ==
    /\ ByteBits \in Nat /\ ByteBits > 1
    /\ ByteCounts \in Nat /\ ByteCounts > 1
    /\ MaxHalf \in Nat

VARIABLES sc, cfg

Bit  == {0, 1}
Byte == [1..ByteBits -> Bit]

CfgType == [cpol : Bit, cpha : BOOLEAN, msb_first : BOOLEAN,
            half_clk_period : 0..MaxHalf, copi_idle : Bit]

SpiCoreType ==
    [state : {"IDLE", "WAIT_START", "ACTIVE"}, clk : Bit, clk_counter : 0..MaxHalf,
     sample_phase : BOOLEAN, byte_count : 0..ByteCounts - 1, bit_count : 0..ByteBits,
     copi_shift : Byte, cipo_shift : Byte, data_out_valid : BOOLEAN]

(* The state in which software finds the core.  Reset reaches `state' and  *)
(* `data_out_valid'; the clock and the phase have settled since CFG was    *)
(* written; the other registers are written before they are used.          *)
SpiCoreInit ==
    sc = [state |-> "IDLE", clk |-> cfg.cpol, clk_counter |-> 0, sample_phase |-> cfg.cpha,
          byte_count |-> 0, bit_count |-> 0, copi_shift |-> [i \in 1..ByteBits |-> 0],
          cipo_shift |-> [i \in 1..ByteBits |-> 0], data_out_valid |-> FALSE]

-----------------------------------------------------------------------------
(* Bit order: data_in and data_out are reversed unless msb_first.          *)

bit_reverse(b) == [i \in 1..ByteBits |-> b[ByteBits + 1 - i]]

Ordered(b) == IF cfg.msb_first THEN b ELSE bit_reverse(b)

ShiftIn(b, x) == [i \in 1..ByteBits |-> IF i = ByteBits THEN x ELSE b[i + 1]]

data_out_o == Ordered(sc.cipo_shift)

spi_copi_o == sc.copi_shift[1]

idle_o == sc.state = "IDLE"

active == sc.state = "ACTIVE"

-----------------------------------------------------------------------------
(* The SPI clock.  After the last bit of a byte it runs to the end of the  *)
(* half period and then on only with a byte to send (sample phase) or room *)
(* for the byte received (output phase).                                   *)


half_done == sc.clk_counter = cfg.half_clk_period

last_half == active /\ sc.bit_count = 0 /\ sc.clk_counter >= cfg.half_clk_period

\* Mutant: the transfer ends when no byte is left, one byte late.
more_bytes_late == sc.byte_count > 0

more_bytes == sc.byte_count > 1

finish_edge == last_half /\ sc.sample_phase /\ ~more_bytes

\* Mutant: the clock does not wait for room in the receive FIFO.
clk_running_no_room(in) ==
    active /\ (last_half => (sc.sample_phase => more_bytes /\ in.data_in_valid))

clk_running(in) ==
    active /\ (last_half => IF sc.sample_phase THEN more_bytes /\ in.data_in_valid
                            ELSE in.data_out_ready)

output_edge(in) == clk_running(in) /\ half_done /\ sc.sample_phase

sample_edge(in) == clk_running(in) /\ half_done /\ ~sc.sample_phase

leave_idle(in) == in.data_in_valid /\ (in.start \/ sc.state = "WAIT_START") /\ ~active

\* Mutant: the first bit is put out early whatever the phase.
start_edge_any_phase(in) == leave_idle(in)

start_edge(in) == leave_idle(in) /\ ~cfg.cpha

data_in_ready_o(in) ==
    \/ output_edge(in) /\ sc.bit_count \in {0, ByteBits}
    \/ start_edge(in)

\* Mutant: the clock goes back to its idle level only once the block is idle.
clk_rests_idle_only == ~active

clk_rests == ~active \/ finish_edge

-----------------------------------------------------------------------------
(* Next values of the registers.                                           *)

clk_d(in) == IF clk_running(in) /\ half_done THEN 1 - sc.clk
             ELSE IF clk_rests THEN cfg.cpol ELSE sc.clk

clk_counter_d(in) ==
    IF clk_running(in) THEN (IF half_done THEN 0 ELSE sc.clk_counter + 1)
    ELSE IF clk_rests THEN 0 ELSE sc.clk_counter

sample_phase_d(in) ==
    IF clk_running(in) /\ half_done THEN ~sc.sample_phase
    ELSE IF clk_rests THEN cfg.cpha ELSE sc.sample_phase

copi_shift_d(in) ==
    IF data_in_ready_o(in) THEN Ordered(in.data_in)
    ELSE IF output_edge(in) \/ finish_edge THEN ShiftIn(sc.copi_shift, cfg.copi_idle)
    ELSE sc.copi_shift

\* Mutant: CIPO is sampled at the edge at which the device changes it.
cipo_shift_d_output(in) ==
    IF output_edge(in) THEN ShiftIn(sc.cipo_shift, in.cipo) ELSE sc.cipo_shift

cipo_shift_d(in) ==
    IF sample_edge(in) THEN ShiftIn(sc.cipo_shift, in.cipo) ELSE sc.cipo_shift

bit_done(in) == active /\ (output_edge(in) \/ finish_edge)

state_d(in) ==
    IF leave_idle(in) THEN "ACTIVE"
    ELSE IF idle_o /\ in.start THEN "WAIT_START"
    ELSE IF bit_done(in) /\ sc.bit_count = 0 /\ sc.byte_count = 1 THEN "IDLE"
    ELSE sc.state

bit_count_d(in) ==
    IF idle_o /\ in.start THEN (IF cfg.cpha THEN ByteBits ELSE ByteBits - 1)
    ELSE IF ~bit_done(in) THEN sc.bit_count
    ELSE IF sc.bit_count # 0 THEN sc.bit_count - 1
    ELSE IF sc.byte_count = 1 THEN 0 ELSE ByteBits - 1

byte_count_d(in) ==
    IF idle_o /\ in.start THEN in.byte_count
    ELSE IF bit_done(in) /\ sc.bit_count = 0 /\ sc.byte_count # 1
         THEN (sc.byte_count - 1) % ByteCounts
    ELSE sc.byte_count

(* One cycle of clk_i.                                                     *)
SpiCoreClock(in) ==
    sc' = [state          |-> IF in.sw_reset THEN "IDLE" ELSE state_d(in),
           clk            |-> clk_d(in),
           clk_counter    |-> clk_counter_d(in),
           sample_phase   |-> sample_phase_d(in),
           byte_count     |-> byte_count_d(in),
           bit_count      |-> bit_count_d(in),
           copi_shift     |-> copi_shift_d(in),
           cipo_shift     |-> cipo_shift_d(in),
           data_out_valid |-> sample_edge(in) /\ sc.bit_count = 0]
=============================================================================
