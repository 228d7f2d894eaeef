------------------------------ MODULE I2cDriver ------------------------------
(***************************************************************************)
(* The I2C driver (sw/legacy/common/i2c.c), the programs that call it, the *)
(* I2C controller between the driver and the bus, and the bus of I2cBus.   *)
(*                                                                         *)
(*   fmt, rx     the FIFOs of the controller                               *)
(*   ctl         its state machine (i2c_controller_fsm.sv)                 *)
(*   scl, sda    the lines as the controller drives them                   *)
(*   bus, devs, sda_o   the decoder, the devices and the line they drive   *)
(*   drv         the call in progress; script the calls still to make      *)
(*   timing      the timing registers                                      *)
(*   image       history: the EEPROM as the software believes it to be     *)
(*                                                                         *)
(* Controller and software run concurrently.  Prompt is the assumption     *)
(* that i2c_write looks at the status register before the controller has   *)
(* shifted out the byte it was given last: a few instructions against nine *)
(* periods of SCL.                                                         *)
(***************************************************************************)
EXTENDS I2cBus, SequencesExt

CONSTANTS FmtDepth, RxDepth,     \* FifoDepth: 8 in the hardware
          ChunkMax,              \* UINT8_MAX, the largest count of a READB
          EepromAddresses,       \* pairs of address bytes, high byte first
          Lengths,               \* lengths of the reads of the EEPROM
          NewBytes,              \* bytes written to the EEPROM
          Noise,                 \* what rand() returns for the temperature
          Speeds, SYSCLK_FREQ,   \* kHz and Hz
          Prompt,
          MaxScripts,            \* bound: programs run
          MaxResets,             \* bound: resets of the system
          MaxTimeouts            \* bound: reads that run out of time

ASSUME I2cDriverAssumption == /\ FmtDepth \in Nat \ {0}
                              /\ RxDepth \in Nat \ {0}
                              /\ ChunkMax \in 1 .. 255
                              /\ SYSCLK_FREQ \in Nat
                              /\ 1000000 <= SYSCLK_FREQ /\ SYSCLK_FREQ <= 1000000000
                              /\ Speeds \subseteq Nat
                              /\ EepromAddresses \subseteq Byte \X Byte
                              /\ NewBytes \subseteq Byte /\ Noise \subseteq Byte
                              /\ Lengths \subseteq Nat \ {0}

VARIABLES id, bus, devs, sda_o, scl, sda, ctl, fmt, rx,
          drv, script, timing, image, scripts, resets, timeouts
busvars == <<bus, devs, sda_o, scl, sda>>
vars == <<id, busvars, ctl, fmt, rx, drv, script, timing, image, scripts, resets, timeouts>>

(***************************************************************************)
(* Timing parameters.                                                      *)
(***************************************************************************)
\* A slip: the quotient is rounded down.
round_divide(a, b) == (a \div b) % 65536
round_up_divide(a, b) == (((a - 1) \div b) + 1) % 65536

\* The driver's table of times in nanoseconds, by bus mode.
spc == [thigh   |-> <<4000, 600, 260>>, tlow    |-> <<4700, 1300, 150>>,
        thd_sta |-> <<4000, 600, 260>>, tsu_sta |-> <<4700, 600, 260>>,
        thd_dat |-> <<5000, 1, 1>>,     tsu_dat |-> <<250, 100, 50>>,
        t_buf   |-> <<4700, 1300, 500>>, tsu_sto |-> <<4000, 600, 260>>]

sysclk_khz == (SYSCLK_FREQ + 999) \div 1000
ns_per_ms == 1000 * 1000
clk_period == ns_per_ms \div sysclk_khz
bus_mode(khz) == 1 + (IF khz > 100 THEN 1 ELSE 0) + (IF khz > 400 THEN 1 ELSE 0)
AtLeast(a, b) == IF a < b THEN b ELSE a

i2c_set_speed(khz) ==
    LET t == [p \in DOMAIN spc |-> round_up_divide(spc[p][bus_mode(khz)], clk_period)]
    IN  [t EXCEPT !.tlow = AtLeast(@, t.thd_dat + 1), !.t_buf = AtLeast(@, t.tsu_sta + 1)]

(***************************************************************************)
(* The controller.                                                         *)
(***************************************************************************)
Entry(byte, start, stop, read) == [byte |-> byte, start |-> start, stop |-> stop, read |-> read]
NewCtl == [st |-> "Idle", bit |-> 7, cnt |-> 0, byte |-> 0, started |-> FALSE,
           pend |-> FALSE, nak |-> FALSE, sent |-> <<>>]

BitOf(byte, i) == (byte \div 2^i) % 2 = 1

\* The lines in each state; the entry at the head of the FIFO supplies the
\* byte.  The last byte of a read is answered with a NAK.
SclOf(c, f) ==
    CASE c.st = "Idle" -> ~c.started
      [] c.st = "Active" -> Head(f).start /\ ~c.started
      [] c.st = "PopFmtFifo" -> Head(f).stop
      [] OTHER -> c.st \in {"SetupStart", "HoldStart", "ClockPulse", "ClockPulseAck",
                            "ReadClockPulse", "HostClockPulseAck", "SetupStop", "HoldStop"}
SdaOf(c, f) ==
    CASE c.st = "ClockLow" -> c.pend \/ BitOf(Head(f).byte, c.bit)
      [] c.st \in {"ClockPulse", "HoldBit"} -> BitOf(Head(f).byte, c.bit)
      [] c.st \in {"HostClockLowAck", "HostClockPulseAck", "HostHoldBitAck"} -> c.cnt = 1
      [] OTHER -> c.st \notin {"HoldStart", "ClockStart", "ClockStop", "SetupStop"}

CtlGo(c, st) == [c EXCEPT !.st = st]
AfterLast(c, e) == CtlGo(c, IF e.stop THEN "ClockStop" ELSE "PopFmtFifo")

\* The next state; line is SDA as the bus carries it.
CtlNext(c, f, line) ==
    LET e == Head(f)
    IN  CASE c.st = "Idle" -> CtlGo(c, "Active")
          [] c.st = "Active" ->
                IF e.read THEN [c EXCEPT !.st = "ReadClockLow", !.bit = 7,
                                         !.cnt = IF e.byte = 0 THEN 256 ELSE e.byte]
                ELSE IF e.start /\ ~c.started THEN CtlGo(c, "SetupStart")
                ELSE [c EXCEPT !.st = "ClockLow", !.pend = e.start, !.bit = 7]
          [] c.st = "SetupStart" -> [c EXCEPT !.st = "HoldStart", !.started = TRUE,
                                              !.pend = FALSE, !.sent = <<>>]
          [] c.st = "HoldStart"  -> CtlGo(c, "ClockStart")
          [] c.st = "ClockStart" -> [c EXCEPT !.st = "ClockLow", !.bit = 7]
          [] c.st = "ClockLow"   -> CtlGo(c, IF c.pend THEN "SetupStart" ELSE "ClockPulse")
          [] c.st = "ClockPulse" -> CtlGo(c, "HoldBit")
          [] c.st = "HoldBit"    -> IF c.bit = 0 THEN CtlGo(c, "ClockLowAck")
                                    ELSE [c EXCEPT !.st = "ClockLow", !.bit = @ - 1]
          [] c.st = "ClockLowAck" -> CtlGo(c, "ClockPulseAck")
          [] c.st = "ClockPulseAck" ->
                [c EXCEPT !.st = "HoldDevAck", !.nak = @ \/ line,
                          !.sent = IF e.start THEN @ ELSE Append(@, e.byte)]
          [] c.st = "HoldDevAck" -> AfterLast(c, e)
          [] c.st = "ReadClockLow" -> CtlGo(c, "ReadClockPulse")
          [] c.st = "ReadClockPulse" -> [c EXCEPT !.st = "ReadHoldBit",
                                                  !.byte = ShiftIn(@, line)]
          [] c.st = "ReadHoldBit" -> IF c.bit = 0
                                     THEN [c EXCEPT !.st = "HostClockLowAck", !.bit = 7]
                                     ELSE [c EXCEPT !.st = "ReadClockLow", !.bit = @ - 1]
          [] c.st = "HostClockLowAck" -> CtlGo(c, "HostClockPulseAck")
          [] c.st = "HostClockPulseAck" -> CtlGo(c, "HostHoldBitAck")
          [] c.st = "HostHoldBitAck" -> IF c.cnt = 1 THEN AfterLast(c, e)
                                        ELSE [c EXCEPT !.st = "ReadClockLow", !.cnt = @ - 1]
          [] c.st = "ClockStop" -> CtlGo(c, "SetupStop")
          [] c.st = "SetupStop" -> CtlGo(c, "HoldStop")
          [] c.st = "HoldStop"  -> [c EXCEPT !.st = "PopFmtFifo", !.started = FALSE]
          [] c.st = "PopFmtFifo" -> CtlGo(c, IF Len(f) = 1 \/ c.nak \/ ~c.started
                                             THEN "Idle" ELSE "Active")

\* Idle stays put without an entry, and halts on a NAK until the software
\* clears it; HoldStop waits for SDA.
CtlMoves == /\ ctl.st = "Idle" => fmt # <<>> /\ ~ctl.nak
            /\ ctl.st = "HoldStop" => sda_o
            /\ Prompt => drv.pc # "write_check"

\* A byte is complete when its last bit is held; a full FIFO drops it.
RxNext == IF ctl.st = "ReadHoldBit" /\ ctl.bit = 0 /\ Len(rx) < RxDepth
          THEN Append(rx, ctl.byte) ELSE rx

\* The decoder runs when a line changed.
Drive(newscl, newsda) ==
    /\ scl' = newscl /\ sda' = newsda
    /\ IF scl = newscl /\ sda = newsda THEN UNCHANGED <<bus, devs, sda_o>>
       ELSE \E noise \in Noise : \E r \in {decode(bus, devs, newscl, newsda, noise)} :
               bus' = r.bus /\ devs' = r.devs /\ sda_o' = r.sda_out

CtlStep ==
    /\ CtlMoves
    /\ \E c \in {CtlNext(ctl, fmt, sda /\ sda_o)} :
         \E f \in {IF ctl.st = "PopFmtFifo" THEN Tail(fmt) ELSE fmt} :
            /\ ctl' = c /\ fmt' = f
            /\ rx' = RxNext
            /\ Drive(SclOf(c, f), SdaOf(c, f))
    /\ UNCHANGED <<id, drv, script, timing, image, scripts, resets, timeouts>>

\* The simulator may evaluate the decoder again on the same lines.
Reevaluate ==
    /\ \E noise \in Noise : \E r \in {decode(bus, devs, scl, sda, noise)} :
          bus' = r.bus /\ devs' = r.devs /\ sda_o' = r.sda_out
    /\ UNCHANGED <<id, scl, sda, ctl, fmt, rx, drv, script, timing, image, scripts, resets, timeouts>>

(***************************************************************************)
(* The programs: the reports of the demo i2c_hat_id, with the addresses    *)
(* and lengths as parameters.  A byte may be written to the EEPROM first.  *)
(* The demo does not know whether a HAT is there: on a bus without one it  *)
(* begins with the same i2c_write.                                         *)
(***************************************************************************)
Write(addr, data, skip_stop) ==
    [call |-> "write", addr |-> addr, data |-> data, skip |-> skip_stop, n |-> Len(data)]
Read(addr, n) == [call |-> "read", addr |-> addr, data |-> <<>>, skip |-> FALSE, n |-> n]

id_eeprom_report(a, n) == <<Write(80, a, TRUE), Read(80, n)>>
read_sense_imu == <<Write(106, <<15>>, TRUE), Read(106, 1), Write(28, <<15>>, TRUE), Read(28, 1)>>
as6212_temperature_report == <<Write(72, <<1>>, FALSE), Read(72, 2),
                               Write(72, <<0>>, FALSE), Read(72, 2)>>
EepromUpdate(a, v) == <<Write(80, a \o <<v>>, FALSE)>>
Probe(n) == <<Read(80, n)>>

EepromScripts == {id_eeprom_report(a, n) : a \in EepromAddresses, n \in Lengths}
                 \cup {EepromUpdate(a, v) : a \in EepromAddresses, v \in NewBytes}
NoHatScripts == {id_eeprom_report(a, n) : a \in EepromAddresses, n \in Lengths}
                \cup {Probe(n) : n \in Lengths}
Scripts ==
    CASE id = "i2c_rpi0" -> EepromScripts
      [] id = "i2c_rpi1" -> {read_sense_imu}
      [] id = "i2c1"     -> {as6212_temperature_report}
      [] OTHER           -> NoHatScripts

NoCall == Read(NoDevice, 0)
Boot == [pc |-> "boot", op |-> NoCall, k |-> 0, n |-> 0, chunk |-> 0, rc |-> 0,
         buf |-> <<>>, reg |-> <<>>]

DriverKeeps == UNCHANGED <<id, busvars, scripts, resets>>
HwKeeps == UNCHANGED <<ctl, fmt, rx>>

\* Host mode and the timing parameters.
setup_bus ==
    /\ drv.pc = "boot"
    /\ \E khz \in Speeds : timing' = [mode |-> bus_mode(khz), t |-> i2c_set_speed(khz)]
    /\ drv' = [drv EXCEPT !.pc = "idle"]
    /\ HwKeeps /\ DriverKeeps /\ UNCHANGED <<script, image, timeouts>>

RunScript ==
    /\ drv.pc = "idle" /\ script = <<>> /\ scripts < MaxScripts
    /\ script' \in Scripts
    /\ scripts' = scripts + 1
    /\ UNCHANGED <<id, busvars, ctl, fmt, rx, drv, timing, image, resets, timeouts>>

\* The caller enters i2c_write or i2c_read.
Call ==
    /\ drv.pc = "idle" /\ script # <<>>
    /\ LET op == Head(script)
       IN  drv' = [drv EXCEPT !.pc = IF op.call = "write" THEN "write_fmt" ELSE "read_fmt",
                              !.op = op, !.n = op.n, !.k = 1, !.rc = 0, !.buf = <<>>]
    /\ script' = Tail(script)
    /\ HwKeeps /\ DriverKeeps /\ UNCHANGED <<timing, image, timeouts>>

\* An entry is written once the FIFO is not full.
write_raw_fmt(e) == Len(fmt) < FmtDepth /\ fmt' = Append(fmt, e) /\ UNCHANGED <<ctl, rx>>

write_start ==
    /\ drv.pc = "write_fmt"
    /\ write_raw_fmt(Entry(drv.op.addr * 2, TRUE, FALSE, FALSE))
    /\ drv' = [drv EXCEPT !.pc = "write_bytes"]
    /\ DriverKeeps /\ UNCHANGED <<script, timing, image, timeouts>>

\* The last byte is deferred, and carries the stop; what the EEPROM is told
\* becomes part of the image the software has of it.
Told(op) == IF op.addr = 80 /\ Len(op.data) > 2
            THEN [image EXCEPT ![(op.data[1] * 256 + op.data[2]) % kMemSize] = op.data[3]]
            ELSE image
write_raw_bytes ==
    /\ drv.pc = "write_bytes"
    /\ LET last == drv.k = drv.op.n
       IN  /\ write_raw_fmt(Entry(drv.op.data[drv.k], FALSE, last /\ ~drv.op.skip, FALSE))
           /\ drv' = [drv EXCEPT !.k = @ + 1, !.pc = IF last THEN "write_check" ELSE @,
                                 !.reg = IF last THEN drv.op.data ELSE @]
           /\ image' = IF last THEN Told(drv.op) ELSE image
    /\ DriverKeeps /\ UNCHANGED <<script, timing, timeouts>>

Return(rc) == drv' = [drv EXCEPT !.pc = "returned", !.rc = rc]
reset_controller_events == ctl' = [ctl EXCEPT !.nak = FALSE] /\ UNCHANGED <<fmt, rx>>

\* The loop runs while the FIFO IS empty.
i2c_write_check ==
    /\ drv.pc = "write_check"
    /\ IF fmt = <<>> THEN ctl.nak /\ reset_controller_events /\ Return(-1)
                     ELSE HwKeeps /\ Return(0)
    /\ DriverKeeps /\ UNCHANGED <<script, timing, image, timeouts>>

read_start ==
    /\ drv.pc = "read_fmt"
    /\ write_raw_fmt(Entry(drv.op.addr * 2 + 1, TRUE, FALSE, FALSE))
    /\ drv' = [drv EXCEPT !.pc = "read_addr"]
    /\ DriverKeeps /\ UNCHANGED <<script, timing, image, timeouts>>

\* wait_fmt_empty, then the look at the halt interrupt.
read_address_sent ==
    /\ drv.pc = "read_addr" /\ fmt = <<>>
    /\ drv' = [drv EXCEPT !.pc = "read_nak"]
    /\ HwKeeps /\ DriverKeeps /\ UNCHANGED <<script, timing, image, timeouts>>
read_nak ==
    /\ drv.pc = "read_nak"
    /\ IF ctl.nak THEN reset_controller_events /\ Return(-1)
       ELSE HwKeeps /\ drv' = [drv EXCEPT !.pc = "read_len"]
    /\ DriverKeeps /\ UNCHANGED <<script, timing, image, timeouts>>

read_chunk ==
    /\ drv.pc = "read_len"
    /\ LET chunk == IF drv.n >= ChunkMax THEN ChunkMax ELSE drv.n
       IN  /\ write_raw_fmt(Entry(chunk, FALSE, chunk >= drv.n, TRUE))
           /\ drv' = [drv EXCEPT !.pc = "read_data", !.chunk = chunk, !.n = @ - chunk]
    /\ DriverKeeps /\ UNCHANGED <<script, timing, image, timeouts>>

read_data_sent ==
    /\ drv.pc = "read_data" /\ fmt = <<>>
    /\ drv' = [drv EXCEPT !.pc = "read_drain"]
    /\ HwKeeps /\ DriverKeeps /\ UNCHANGED <<script, timing, image, timeouts>>

\* The chunk is finished: the next one, or the return.
ChunkDone(rc) == [drv EXCEPT !.rc = rc, !.pc = IF drv.n > 0 THEN "read_fmt" ELSE "returned"]

\* RDATA of an empty FIFO is whatever the RAM holds; two bytes stand for any.
read_drain ==
    /\ drv.pc = "read_drain"
    /\ IF drv.chunk = 0 THEN rx' = rx /\ drv' = ChunkDone(0)
       ELSE \E b \in IF rx = <<>> THEN {0, 255} ELSE {Head(rx)} :
              /\ rx' = IF rx = <<>> THEN rx ELSE Tail(rx)
              /\ drv' = [drv EXCEPT !.chunk = @ - 1, !.buf = Append(@, b)]
    /\ UNCHANGED <<ctl, fmt>>
    /\ DriverKeeps /\ UNCHANGED <<script, timing, image, timeouts>>

\* The time runs out before the next byte: what is left stays in the FIFO.
read_timeout ==
    /\ drv.pc = "read_drain" /\ drv.chunk > 0 /\ timeouts < MaxTimeouts
    /\ timeouts' = timeouts + 1
    /\ drv' = ChunkDone(-1)
    /\ HwKeeps /\ DriverKeeps /\ UNCHANGED <<script, timing, image>>

\* A program gives up on the first call that fails.
CallerContinues ==
    /\ drv.pc = "returned"
    /\ drv' = [drv EXCEPT !.pc = IF drv.rc = 0 THEN "idle" ELSE "stopped"]
    /\ HwKeeps /\ DriverKeeps /\ UNCHANGED <<script, timing, image, timeouts>>

\* A reset of the system, in the middle of anything.  The EEPROM keeps what
\* has reached it.
Reset ==
    /\ resets < MaxResets
    /\ resets' = resets + 1
    /\ bus' = under_reset(bus) /\ sda_o' = TRUE /\ scl' = TRUE /\ sda' = TRUE
    /\ ctl' = NewCtl /\ fmt' = <<>> /\ rx' = <<>>
    /\ drv' = Boot /\ script' = <<>>
    /\ image' = IF id = "i2c_rpi0" THEN devs[80].mem ELSE image
    /\ UNCHANGED <<id, devs, timing, scripts, timeouts>>

I2cInit ==
    /\ id \in BusIds
    /\ \E config \in ConfigValues : devs = i2cdpi_create(id, config)
    /\ bus = NewBus /\ sda_o = TRUE /\ scl = TRUE /\ sda = TRUE
    /\ ctl = NewCtl /\ fmt = <<>> /\ rx = <<>>
    /\ drv = Boot /\ script = <<>>
    /\ timing = [mode |-> 1, t |-> i2c_set_speed(100)]
    /\ image = HatImage
    /\ scripts = 0 /\ resets = 0 /\ timeouts = 0

DriverStep == \/ setup_bus \/ Call \/ write_start \/ write_raw_bytes \/ i2c_write_check
              \/ read_start \/ read_address_sent \/ read_nak \/ read_chunk
              \/ read_data_sent \/ read_drain \/ CallerContinues
I2cNext == CtlStep \/ Reevaluate \/ DriverStep \/ RunScript \/ read_timeout \/ Reset

\* The controller is clocked and the processor runs: neither stops for ever.
I2cSpec == I2cInit /\ [][I2cNext]_vars /\ WF_vars(CtlStep) /\ WF_vars(DriverStep)

(***************************************************************************)
(* Properties.                                                             *)
(***************************************************************************)
\* Types of the decoder, the controller and the driver.
I2cTypeOK ==
    /\ bus.state \in BusStates /\ bus.currByte \in Byte /\ bus.numBits \in 0 .. 8
    /\ bus.currDevice \in DOMAIN devs \cup {NoDevice}
    /\ bus.state \in {"SentData", "GotAckNak", "GotData"} => bus.currDevice # NoDevice
    /\ Len(fmt) <= FmtDepth /\ Len(rx) <= RxDepth
    /\ drv.rc \in {0, -1}

\* When a byte has been acknowledged, the decoder of i2cdpi has handed the
\* addressed device exactly the bytes the controller has shifted out in this
\* transaction: no bit is lost or counted twice over starts, repeated starts
\* and acknowledgements.
BytesArriveWhole ==
    ctl.st = "HoldDevAck" /\ ~ctl.nak => bus.heard = ctl.sent

\* What the register that the last i2c_write selected holds.
ReadIsRight ==
    LET a == drv.op.addr
        start == drv.reg[1] * 256 + drv.reg[2]
    IN  CASE a = 80  -> drv.buf = [i \in 1 .. drv.op.n |-> image[(start + i - 1) % kMemSize]]
          [] a = 106 -> drv.buf = <<104>>
          [] a = 28  -> drv.buf = <<61>>
          [] a = 72  -> IF drv.reg = <<0>> THEN drv.buf[1] = 12
                        ELSE drv.buf = <<devs[72].config \div 256, devs[72].config % 256>>

\* An i2c_read that reports success has filled the caller's buffer with what
\* the device holds from the address the i2c_write before it selected, the
\* bytes written earlier included, whatever the overlap of driver and bus and
\* wherever a reset cut in.
ReadsReturnTheRegister ==
    drv.pc = "returned" /\ drv.op.call = "read" /\ drv.rc = 0 => ReadIsRight

\* An i2c_read that does not run out of time fails exactly when no device
\* answers to the address, so the acknowledge bit of i2cdpi reaches its caller
\* whatever is still queued in front of it; i2c_write never reports a failure.
OnlyReadsReportAbsence ==
    drv.pc = "returned" /\ timeouts = 0 =>
        (drv.rc = -1 <=> drv.op.call = "read" /\ drv.op.addr \notin DOMAIN devs)

\* "While format is not empty, check for controller halts and fail if one
\* occurs" (i2c.c:143): a write to an address no device answers to is not
\* reported as a success.
WriteReportsAbsence ==
    drv.pc = "returned" /\ drv.op.call = "write" /\ drv.rc = 0 => drv.op.addr \in DOMAIN devs

\* The decoder changes SDA only with SCL low or on its rising edge: a change
\* while SCL stays high would be a start or a stop to everyone on the bus, and
\* the controller would abandon the transaction.
SdaStableWhileSclHigh == [][scl /\ scl' /\ resets' = resets => sda_o' = sda_o]_vars

\* The intervals i2c_set_speed programs last, on the clock the system really
\* has, no less than the times of the driver's own table: the three roundings
\* all lengthen them, and none is lost to the 16 bits of a register.  The
\* counters of the controller do not underflow.
IntervalsAreNotShortened ==
    LET t == timing.t
    IN  /\ \A p \in DOMAIN spc : t[p] * ns_per_ms >= spc[p][timing.mode] * sysclk_khz
        /\ t.tlow > t.thd_dat /\ t.t_buf > t.tsu_sta

\* i2c_set_speed is "distilled from" the programmer's guide of the controller
\* (i2c.c:63), which gives the minimum times of the fast mode plus.
guide_fm_plus == [thigh |-> 260, tlow |-> 500, thd_sta |-> 260, tsu_sta |-> 260,
                  thd_dat |-> 0, tsu_dat |-> 260, t_buf |-> 500, tsu_sto |-> 260]
\* In that mode, the intervals are no shorter than the guide's minimum.
TimingMeetsGuide ==
    timing.mode = 3 =>
        \A p \in DOMAIN spc : timing.t[p] * ns_per_ms >= guide_fm_plus[p] * sysclk_khz

\* Every call of the driver returns: as write_raw_fmt and wait_fmt_empty expect,
\* the FIFO "should drain quickly" and "should empty quickly" (i2c.c:35, 54).
I2cCallsReturn == (drv.pc \notin {"idle", "stopped"}) ~> (drv.pc \in {"idle", "stopped"})

\* The loop at the end of i2c_write waits for the FIFO (i2c.c:143), which
\* empties: the loop ends.
I2cWriteEnds == (drv.pc = "write_check") ~> (drv.pc # "write_check")
=============================================================================
