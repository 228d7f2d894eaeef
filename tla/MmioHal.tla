------------------------------- MODULE MmioHal -------------------------------
(***************************************************************************)
(* The C++ hardware abstraction (sw/legacy/hal) on top of the registers of *)
(* Mmio, against the hardware.  Two programs are modelled, chosen by       *)
(* program:                                                                *)
(*   "field"  any one access to a field of any register, fetch, modify,    *)
(*            commit, while the hardware may change the register;          *)
(*   "spi"    the classes Spi and Lcd: constructor, chip selects and       *)
(*            blocking_write, against a SPI block that shifts bytes out.   *)
(***************************************************************************)
EXTENDS Mmio, Sequences

CONSTANTS TxDepth,     \* depth of the TX FIFO of the block
          HalTxDepth,  \* the depth blocking_write counts with, 8 in the source
          MaxSize,     \* bound: length of the array of blocking_write
          MaxCalls     \* bound: calls of chip_select_assert

ASSUME HalAssumption == /\ TxDepth \in Nat \ {0}
                        /\ HalTxDepth \in 1 .. TxDepth

\* The layouts: every field lies within the word and apart from the other fields
\* of its register.  There is nothing to choose here, TLC evaluates it.
ASSUME LayoutAssumption ==
    \A p \in DOMAIN AllFields : \A r \in DOMAIN AllFields[p] :
       LET F == AllFields[p][r]
       IN  \A n \in DOMAIN F :
             /\ F[n][1] \in 0 .. 31 /\ F[n][2] \in 1 .. 32 /\ F[n][1] + F[n][2] <= 32
             /\ \A m \in DOMAIN F : F[m] # F[n] => \/ F[m][1] + F[m][2] <= F[n][1]
                                                  \/ F[n][1] + F[n][2] <= F[m][1]

\* Registers that the hardware changes by itself although software may write
\* them (external: usbdev.sv).
HwUpdated == {<<"usbdev", n>> : n \in {"usbctrl", "rxenable_out", "in_sent", "out_stall",
                                       "in_stall", "configin"}}

VARIABLES program, pc,
          target, word, cache, fld, updated,       \* "field"
          cfg, ctrl, cs, lines, calls,             \* "spi": the registers, the chip
                                                   \* selects asked for
          left, txf, wire, overrun,                \* the SPI block
          size, idx, available                     \* locals of blocking_write
fieldvars == <<target, word, cache, fld, updated>>
spivars == <<cfg, ctrl, cs, lines, calls, left, txf, wire, overrun, size, idx, available>>
vars == <<program, pc, fieldvars, spivars>>

\* Chip select lines of the Lcd class.
Lines == 0 .. 2

-----------------------------------------------------------------------------
(* One access to a field *)

Registers == UNION {{<<p, n>> : n \in DOMAIN AllFields[p]} : p \in DOMAIN AllFields}
TargetFields == AllFields[target[1]][target[2]]
Readable(f) == f[3] \in {R, RW}
Writable(f) == f[3] \in {W, RW}

\* Register::fetch.  A register object is made for each access with an empty
\* cache; a write-only register is not fetched.
fetch ==
    /\ program = "field" /\ pc = "start"
    /\ cache' = IF \E n \in DOMAIN TargetFields : Readable(TargetFields[n]) THEN word ELSE {}
    /\ pc' = "modify"
    /\ UNCHANGED <<program, target, word, fld, updated, spivars>>

\* One of the modifiers of BitField, on a field that software may write.
modify ==
    /\ program = "field" /\ pc = "modify"
    /\ \E n \in DOMAIN TargetFields :
         LET f == TargetFields[n]
         IN  /\ Writable(f)
             /\ fld' = f
             /\ IF f[2] > 1
                THEN \/ \E v \in {{}, {0}, 0 .. 31} : cache' = write(cache, f, v)
                     \/ \E v \in BOOLEAN, i \in {0, f[2] - 1} : cache' = bit_mask(cache, f, v, i)
                ELSE \/ cache' = set(cache, f) \/ cache' = reset(cache, f)
                     \/ cache' = toggle(cache, f)
                     \/ \E b \in BOOLEAN : cache' = bit(cache, f, b)
    /\ pc' = "commit"
    /\ UNCHANGED <<program, target, word, updated, spivars>>

\* The hardware changes a field of the register.
HwUpdate ==
    /\ program = "field" /\ pc # "done" /\ ~updated
    /\ target \in HwUpdated
    /\ \E n \in DOMAIN TargetFields : word' = word \ mask(TargetFields[n])
    /\ updated' = TRUE
    /\ UNCHANGED <<program, pc, target, cache, fld, spivars>>

\* Register::commit: the whole word is written.
commit ==
    /\ program = "field" /\ pc = "commit"
    /\ word' = cache
    /\ pc' = "done"
    /\ UNCHANGED <<program, target, cache, fld, updated, spivars>>

-----------------------------------------------------------------------------
(* The SPI block (external: spi_core.sv, modelled in full in SpiCore) *)

\* A byte leaves the TX FIFO.
SpiShift ==
    /\ program = "spi" /\ left > 0 /\ txf # <<>>
    /\ is_set(ctrl, SpiRegs.ctrl.f.tx_enable)
    /\ wire' = Append(wire, Head(txf)) /\ txf' = Tail(txf) /\ left' = left - 1
    /\ UNCHANGED <<program, pc, fieldvars, cfg, ctrl, cs, lines, calls, overrun, size, idx,
                   available>>

\* The STATUS register.
status == Bits(Len(txf)) \cup (IF left = 0 THEN {SpiRegs.status.f.idle[1]} ELSE {})

(* The class Spi *)

\* The constructor: cfg and ctrl are written from empty caches.
Spi_Spi ==
    /\ program = "spi" /\ pc = "start"
    /\ \E cpol \in BOOLEAN, cpha \in BOOLEAN, divider \in {0, 3} :
         LET f == SpiRegs.cfg.f
         IN  cfg' = write(bit(bit(bit({}, f.cpol, cpol), f.cpha, cpha), f.msb_first, TRUE),
                          f.half_clk_period, Bits(divider))
    /\ left' = 0 /\ txf' = <<>> /\ ctrl' = {}     \* sw_reset, tx_clear and rx_clear
    /\ pc' = "idle"
    /\ UNCHANGED <<program, fieldvars, cs, lines, calls, wire, overrun, size, idx, available>>

\* chip_select_assert<CS, DEASSERT_OTHERS>(assert): one commit for all lines.
chip_select_assert(line, deassert_others, assert) ==
    /\ program = "spi" /\ pc = "idle" /\ calls < MaxCalls
    /\ LET f == SpiRegs.cs.f.cs
           c == IF deassert_others THEN write(cs, f, field_max(f)) ELSE cs
       IN  cs' = bit_mask(c, f, ~assert, line)
    /\ lines' = [l \in Lines |-> IF l = line THEN assert
                                 ELSE IF deassert_others THEN FALSE ELSE lines[l]]
    /\ calls' = calls + 1
    /\ UNCHANGED <<program, pc, fieldvars, cfg, ctrl, left, txf, wire, overrun, size, idx,
                   available>>


\* blocking_write: transmission is enabled and the length written before the
\* first byte is there.
blocking_write(n) ==
    /\ program = "spi" /\ pc = "idle"
    /\ n > 0
    /\ ctrl' = set(ctrl, SpiRegs.ctrl.f.tx_enable)
    /\ left' = Number(get(write({}, SpiRegs.start.f.byte_count, Bits(n)),
                          SpiRegs.start.f.byte_count))
    /\ size' = n /\ idx' = 0 /\ available' = 0 /\ wire' = <<>>
    /\ pc' = "poll"
    /\ UNCHANGED <<program, fieldvars, cfg, cs, lines, calls, txf, overrun>>


\* The inner loop: room is looked for only when the last known room is used up.
blocking_write_poll ==
    /\ program = "spi" /\ pc = "poll" /\ idx < size
    /\ available' = IF available = 0
                    THEN HalTxDepth - Number(get(status, SpiRegs.status.f.tx_fifo_level))
                    ELSE available
    /\ pc' = IF available' = 0 THEN "poll" ELSE "put"
    /\ UNCHANGED <<program, fieldvars, cfg, ctrl, cs, lines, calls, left, txf, wire, overrun,
                   size, idx>>

\* A byte is written; the block drops it when its FIFO is full.
blocking_write_put ==
    /\ program = "spi" /\ pc = "put"
    /\ IF Len(txf) < TxDepth THEN txf' = Append(txf, idx) /\ UNCHANGED overrun
       ELSE overrun' = TRUE /\ UNCHANGED txf
    /\ idx' = idx + 1 /\ available' = available - 1
    /\ pc' = "poll"
    /\ UNCHANGED <<program, fieldvars, cfg, ctrl, cs, lines, calls, left, wire, size>>

\* Mutant: the function does not wait for the end of the transfer.
blocking_write_return_early ==
    /\ program = "spi" /\ pc = "poll" /\ idx = size
    /\ pc' = "idle"
    /\ UNCHANGED <<program, fieldvars, spivars>>

\* The function returns when the block is idle.
blocking_write_return ==
    /\ program = "spi" /\ pc = "poll" /\ idx = size
    /\ is_set(status, SpiRegs.status.f.idle)
    /\ pc' = "idle"
    /\ UNCHANGED <<program, fieldvars, spivars>>

-----------------------------------------------------------------------------
Init ==
    /\ program \in {"field", "spi"} /\ pc = "start"
    /\ IF program = "field"
       THEN /\ target \in {t \in Registers : \E n \in DOMAIN AllFields[t[1]][t[2]] :
                                                Writable(AllFields[t[1]][t[2]][n])}
            /\ word \in {{}, 0 .. 31, {b \in 0 .. 31 : b % 2 = 0}}
       ELSE target = <<"spi", "cs">> /\ word = {}
    /\ cache = {} /\ fld = <<0, 1, R>> /\ updated = FALSE
    /\ cfg = {} /\ ctrl = {} /\ cs = 0 .. 4     \* all chip selects are high
    /\ lines = [l \in Lines |-> FALSE] /\ calls = 0
    /\ left = 0 /\ txf = <<>> /\ wire = <<>> /\ overrun = FALSE
    /\ size = 0 /\ idx = 0 /\ available = 0

SpiCall ==
    \/ Spi_Spi
    \/ \E l \in Lines, d \in BOOLEAN, a \in BOOLEAN : chip_select_assert(l, d, a)
    \/ \E n \in 1 .. MaxSize : blocking_write(n)
SpiStep == blocking_write_poll \/ blocking_write_put \/ blocking_write_return
FieldStep == fetch \/ modify \/ commit
Finished == program = "field" /\ pc = "done" /\ UNCHANGED vars
Next == FieldStep \/ HwUpdate \/ SpiCall \/ SpiStep \/ SpiShift \/ Finished

Spec == Init /\ [][Next]_vars

-----------------------------------------------------------------------------
\* Words are words, and the counters stay in range.
HalTypeOK ==
    /\ word \in Word /\ cache \in Word /\ cfg \in Word /\ ctrl \in Word /\ cs \in Word
    /\ lines \in [Lines -> BOOLEAN]
    /\ left \in 0 .. MaxSize /\ idx \in 0 .. MaxSize /\ available \in 0 .. HalTxDepth
    /\ Len(txf) <= TxDepth

\* A fetch, modify, commit of one field leaves every other field of the register
\* as the hardware had it, unless the hardware changed the register meanwhile:
\* the masks of the templates and the layouts of all registers fit together.
CommitKeepsOtherFields ==
    [][(commit /\ ~updated /\ \E n \in DOMAIN TargetFields : Readable(TargetFields[n])) =>
          \A n \in DOMAIN TargetFields :
             TargetFields[n] # fld => get(word', TargetFields[n]) = get(word, TargetFields[n])]_vars

\* After any sequence of calls of chip_select_assert, with and without
\* DEASSERT_OTHERS, exactly the lines last asserted are low.
LinesAsAsserted == \A l \in Lines : lines[l] <=> l \notin get(cs, SpiRegs.cs.f.cs)

\* blocking_write never overruns the FIFO, and when it returns the whole array
\* has been sent, in order.
WriteSendsTheArray ==
    /\ ~overrun
    /\ (pc = "idle" /\ size > 0) => wire = [i \in 1 .. size |-> i - 1]

\* The clock divider given to the constructor reaches the field of CFG that the
\* block divides by: bits 15 to 0 in rtl/ip/spi/data/spi.hjson.  It does not:
\* spi.hh places half_clk_period at bit 16.
DividerReachesTheBlock ==
    (program = "spi" /\ pc # "start") => cfg \cap (0 .. 15) = cfg \ (29 .. 31)
=============================================================================
