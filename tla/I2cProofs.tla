------------------------------ MODULE I2cProofs ------------------------------
(***************************************************************************)
(* Proofs about I2cDriver.  The roundings of i2c_set_speed never shorten   *)
(* an interval, for every clock the driver can be built for and for every  *)
(* speed a program asks for: MCI2c checks one clock and two speeds.        *)
(* The wire: an inductive invariant (I2cInv) says where the decoder of     *)
(* i2cdpi is in each state of the controller, and which entries the driver *)
(* has put into the FIFO in each of its own.  With it, bytes arrive whole, *)
(* i2c_read fails exactly for a missing device and the decoder leaves SDA  *)
(* alone while SCL is high, for every FIFO depth, EEPROM, chunk size,      *)
(* address and length, with a device or none.                              *)
(***************************************************************************)
EXTENDS I2cDriver, SequenceTheorems, TLAPS

\* The clock period in nanoseconds, rounded twice, is neither zero (it is a
\* divisor) nor beyond a microsecond.
LEMMA ClkPeriodRange ==
    /\ clk_period \in Nat /\ 1 <= clk_period /\ clk_period <= 1000
    /\ sysclk_khz \in Nat /\ clk_period * sysclk_khz <= ns_per_ms
<1> DEFINE khz == sysclk_khz
<1>1. khz \in Int /\ 1000 <= khz /\ khz <= 1000000
  BY I2cDriverAssumption, SMT DEF sysclk_khz
<1> HIDE DEF khz
<1> DEFINE q == clk_period
<1>2. q \in Int /\ q * khz <= 1000000 /\ 1000000 < q * khz + khz
  <2>1. q = 1000000 \div khz
    BY DEF clk_period, ns_per_ms, khz
  <2> DEFINE u == 1000000 \div khz
  <2>2. u \in Int /\ u * khz <= 1000000 /\ 1000000 < u * khz + khz
    BY <1>1, SMT
  <2> HIDE DEF q, u
  <2> QED
    BY <2>1, <2>2 DEF u
<1> HIDE DEF q
<1>3. q >= 1
  <2> SUFFICES ASSUME q <= 0 PROVE FALSE
    BY <1>2, SMT
  <2>1. q * khz <= 0
    BY <1>1, <1>2, SMT
  <2> QED
    BY <2>1, <1>1, <1>2, SMT
<1>4. q <= 1000
  <2> SUFFICES ASSUME q >= 1001 PROVE FALSE
    BY <1>2, SMT
  <2>1. q * khz >= 1001 * 1000
    BY <1>1, <1>2, SMT
  <2> QED
    BY <2>1, <1>1, <1>2, SMT
<1> QED
  <2>1. q \in Nat /\ khz \in Nat /\ 1 <= q /\ q <= 1000 /\ q * khz <= ns_per_ms
    BY <1>1, <1>2, <1>3, <1>4, SMT DEF ns_per_ms
  <2> QED
    BY <2>1, Zenon DEF q, khz

\* What lasts w on a period that is rounded down lasts w on the real one.
LEMMA ClockBound ==
    ASSUME NEW a \in Nat, NEW c \in Nat, NEW w \in Nat, NEW f \in Nat,
           c * f <= ns_per_ms, a * c >= w
    PROVE  a * ns_per_ms >= w * f
<1>0. ns_per_ms \in Nat
  BY DEF ns_per_ms
<1>1. (a * c) * f >= w * f
  <2> DEFINE u == a * c
  <2>1. u \in Nat /\ u >= w
    BY SMT
  <2> HIDE DEF u
  <2>2. u * f >= w * f
    BY <2>1, SMT
  <2> QED
    BY <2>2 DEF u
<1>2. a * (c * f) <= a * ns_per_ms
  <2> DEFINE u == c * f
  <2>1. u \in Nat /\ u <= ns_per_ms
    BY SMT
  <2> HIDE DEF u
  <2>2. a * u <= a * ns_per_ms
    BY <1>0, <2>1, SMT
  <2> QED
    BY <2>2 DEF u
<1>3. (a * c) * f = a * (c * f) /\ (a * c) * f \in Nat /\ w * f \in Nat /\ a * ns_per_ms \in Nat
  BY <1>0, SMT
<1> QED
  BY <1>1, <1>2, <1>3, SMT

\* round_up_divide neither rounds down nor loses a bit to its 16-bit result.
LEMMA RoundUpDivide ==
    ASSUME NEW a \in Nat, 1 <= a, a <= 5000,
           NEW b \in Nat, 1 <= b, b <= 1000
    PROVE  /\ round_up_divide(a, b) \in Nat
           /\ round_up_divide(a, b) * b >= a
<1> DEFINE q == (a - 1) \div b
<1>1. q \in Int /\ q * b <= a - 1 /\ a - 1 < q * b + b
  BY SMT
<1> HIDE DEF q
<1>2. q >= 0
  <2> SUFFICES ASSUME q <= 0 - 1 PROVE FALSE
    BY <1>1, SMT
  <2>1. q * b <= (0 - 1) * b
    BY <1>1, SMT
  <2> QED
    BY <2>1, <1>1, SMT
<1>3. q <= 5000
  <2> SUFFICES ASSUME q >= 5001 PROVE FALSE
    BY <1>1, SMT
  <2>1. q * b >= q
    BY <1>1, SMT
  <2> QED
    BY <2>1, <1>1, SMT
<1>4. round_up_divide(a, b) = q + 1
  BY <1>1, <1>2, <1>3, SMT DEF round_up_divide, q
<1>5. (q + 1) * b = q * b + b
  BY <1>1, SMT
<1> QED
  BY <1>1, <1>2, <1>4, <1>5, SMT

\* The times of the specification the driver works from.
LEMMA SpecTimes ==
    ASSUME NEW p \in DOMAIN spc, NEW mode \in 1 .. 3
    PROVE  spc[p][mode] \in Nat /\ 1 <= spc[p][mode] /\ spc[p][mode] <= 5000
<1>1. CASE mode = 1
  BY <1>1, SMT DEF spc
<1>2. CASE mode = 2
  BY <1>2, SMT DEF spc
<1>3. CASE mode = 3
  BY <1>3, SMT DEF spc
<1> QED
  BY <1>1, <1>2, <1>3, SMT

\* i2c_set_speed computes intervals that last the times of its table.
LEMMA SpeedMeetsSpec ==
    ASSUME NEW khz \in Nat
    PROVE  /\ bus_mode(khz) \in 1 .. 3
           /\ \A p \in DOMAIN spc :
                i2c_set_speed(khz)[p] * ns_per_ms >= spc[p][bus_mode(khz)] * sysclk_khz
           /\ i2c_set_speed(khz).tlow > i2c_set_speed(khz).thd_dat
           /\ i2c_set_speed(khz).t_buf > i2c_set_speed(khz).tsu_sta
<1> DEFINE mode == bus_mode(khz)
           t == [p \in DOMAIN spc |-> round_up_divide(spc[p][mode], clk_period)]
           s == i2c_set_speed(khz)
<1>1. mode \in 1 .. 3
  BY SMT DEF bus_mode
<1>2. s = [t EXCEPT !.tlow = AtLeast(@, t.thd_dat + 1), !.t_buf = AtLeast(@, t.tsu_sta + 1)]
  BY Zenon DEF i2c_set_speed
<1>3. DOMAIN spc = {"thigh", "tlow", "thd_sta", "tsu_sta", "thd_dat", "tsu_dat", "t_buf", "tsu_sto"}
  BY SMT DEF spc
<1> HIDE DEF mode, s
<1>4. ASSUME NEW p \in DOMAIN spc
      PROVE  t[p] \in Nat /\ t[p] * clk_period >= spc[p][mode]
  <2> DEFINE a == spc[p][mode]
             b == clk_period
  <2>1. t[p] = round_up_divide(a, b)
    OBVIOUS
  <2>2. a \in Nat /\ 1 <= a /\ a <= 5000
    BY <1>1, SpecTimes
  <2>3. b \in Nat /\ 1 <= b /\ b <= 1000
    BY ClkPeriodRange
  <2> HIDE DEF t, a, b
  <2>4. t[p] \in Nat /\ t[p] * b >= a
    BY <2>1, <2>2, <2>3, RoundUpDivide
  <2> QED
    BY <2>4 DEF a, b
<1> DEFINE D == DOMAIN spc
<1>5. DOMAIN t = D
  OBVIOUS
<1> HIDE DEF t, D
<1>6. /\ s.tlow = AtLeast(t.tlow, t.thd_dat + 1)
      /\ s.t_buf = AtLeast(t.t_buf, t.tsu_sta + 1)
      /\ \A p \in D \ {"tlow", "t_buf"} : s[p] = t[p]
  <2> DEFINE x == AtLeast(t.tlow, t.thd_dat + 1)
             y == AtLeast(t.t_buf, t.tsu_sta + 1)
             u == [t EXCEPT !.tlow = x]
  <2>1. s = [u EXCEPT !.t_buf = y]
    BY <1>2, Zenon
  <2>2. DOMAIN u = D /\ u.tlow = x /\ \A p \in D \ {"tlow"} : u[p] = t[p]
    <3> HIDE DEF x
    <3> QED
      BY <1>3, <1>5, Zenon DEF D
  <2> HIDE DEF x, y, u
  <2>3. s.t_buf = y /\ \A p \in D \ {"t_buf"} : s[p] = u[p]
    BY <1>3, <2>1, <2>2, Zenon DEF D
  <2>4. "tlow" \in D \ {"t_buf"}
    BY <1>3, Zenon DEF D
  <2> QED
    BY <2>2, <2>3, <2>4, Zenon DEF x, y
<1>7. ASSUME NEW p \in D
      PROVE  t[p] \in Nat /\ s[p] \in Nat /\ s[p] >= t[p]
  <2>1. /\ t.tlow \in Nat /\ t.thd_dat \in Nat /\ t.t_buf \in Nat /\ t.tsu_sta \in Nat
        /\ t[p] \in Nat
    BY <1>3, <1>4, Zenon DEF D
  <2>2. s.tlow \in Nat /\ s.tlow >= t.tlow /\ s.t_buf \in Nat /\ s.t_buf >= t.t_buf
    BY <1>6, <2>1, SMT DEF AtLeast
  <2> QED
    BY <1>6, <2>1, <2>2, SMT
<1>8. ASSUME NEW p \in D PROVE s[p] * clk_period >= spc[p][mode]
  <2> DEFINE a == s[p]  b == t[p]  c == clk_period  w == spc[p][mode]
  <2>1. a \in Nat /\ b \in Nat /\ c \in Nat /\ a >= b /\ b * c >= w /\ w \in Nat
    <3>1. p \in DOMAIN spc
      BY DEF D
    <3>2. b * c >= w
      BY <1>4, <3>1, Zenon
    <3>3. w \in Nat /\ c \in Nat
      BY <1>1, <3>1, ClkPeriodRange, SpecTimes
    <3> QED
      BY <1>7, <3>2, <3>3, Zenon
  <2> HIDE DEF a, b, c, w
  <2>2. a * c >= b * c
    BY <2>1, SMT
  <2>3. a * c >= w
    BY <2>1, <2>2, SMT
  <2> QED
    BY <2>3 DEF a, c, w
<1>9. s.tlow > s.thd_dat /\ s.t_buf > s.tsu_sta
  <2>1. t.tlow \in Nat /\ t.thd_dat \in Nat /\ t.t_buf \in Nat /\ t.tsu_sta \in Nat
    BY <1>3, <1>4, Zenon
  <2>2. s.thd_dat = t.thd_dat /\ s.tsu_sta = t.tsu_sta
    BY <1>3, <1>6, SMT DEF D
  <2> QED
    BY <1>6, <2>1, <2>2, SMT DEF AtLeast
<1>10. ASSUME NEW p \in D PROVE s[p] * ns_per_ms >= spc[p][mode] * sysclk_khz
  <2> DEFINE a == s[p]  c == clk_period  w == spc[p][mode]  f == sysclk_khz
  <2>1. a \in Nat /\ c \in Nat /\ w \in Nat /\ f \in Nat /\ c * f <= ns_per_ms /\ a * c >= w
    <3>1. p \in DOMAIN spc
      BY DEF D
    <3>2. w \in Nat /\ c \in Nat /\ f \in Nat /\ c * f <= ns_per_ms
      BY <1>1, <3>1, ClkPeriodRange, SpecTimes
    <3> QED
      BY <1>7, <1>8, <3>2, Zenon
  <2> HIDE DEF a, c, w, f
  <2> QED
    BY ONLY <2>1, ClockBound, Zenon DEF a, w, f
<1> QED
  BY <1>1, <1>9, <1>10, Zenon DEF D, s, mode

\* Only setup_bus programs the timing registers.
LEMMA TimingKept ==
    ASSUME I2cNext \/ UNCHANGED vars, ~setup_bus
    PROVE  timing' = timing
<1>1. CASE CtlStep
  BY <1>1 DEF CtlStep
<1>2. CASE Reevaluate
  BY <1>2 DEF Reevaluate
<1>3. CASE RunScript \/ read_timeout \/ Reset
  BY <1>3 DEF RunScript, read_timeout, Reset
<1>4. CASE Call \/ write_start \/ write_raw_bytes \/ i2c_write_check
  BY <1>4 DEF Call, write_start, write_raw_bytes, i2c_write_check
<1>5. CASE read_start \/ read_address_sent \/ read_nak \/ read_chunk
  BY <1>5 DEF read_start, read_address_sent, read_nak, read_chunk
<1>6. CASE read_data_sent \/ read_drain \/ CallerContinues
  BY <1>6 DEF read_data_sent, read_drain, CallerContinues
<1>7. CASE UNCHANGED vars
  BY <1>7 DEF vars
<1> QED
  BY <1>1, <1>2, <1>3, <1>4, <1>5, <1>6, <1>7 DEF I2cNext, DriverStep

\* i2c_set_speed of i2c.c: the intervals it programs for every speed, on every
\* system clock from 1 MHz to 1 GHz, last on that clock no less than the times
\* of the driver's own table (which is not the guide's), and leave the counters
\* of the controller room.
THEOREM RoundingLengthens == I2cSpec => []IntervalsAreNotShortened
<1>1. I2cInit => IntervalsAreNotShortened
  <2> SUFFICES ASSUME I2cInit PROVE IntervalsAreNotShortened
    OBVIOUS
  <2>1. timing.mode = bus_mode(100) /\ timing.t = i2c_set_speed(100)
    BY SMT DEF I2cInit, bus_mode
  <2>2. 100 \in Nat
    BY SMT
  <2> QED
    BY <2>1, <2>2, SpeedMeetsSpec, Zenon DEF IntervalsAreNotShortened
<1>2. IntervalsAreNotShortened /\ [I2cNext]_vars => IntervalsAreNotShortened'
  <2> SUFFICES ASSUME IntervalsAreNotShortened, I2cNext \/ UNCHANGED vars PROVE IntervalsAreNotShortened'
    BY Zenon
  <2>1. CASE setup_bus
    <3>1. PICK khz \in Speeds : timing' = [mode |-> bus_mode(khz), t |-> i2c_set_speed(khz)]
      BY <2>1 DEF setup_bus
    <3>2. khz \in Nat
      BY I2cDriverAssumption, SMT
    <3>3. timing'.mode = bus_mode(khz) /\ timing'.t = i2c_set_speed(khz)
      BY <3>1
    <3> QED
      BY <3>2, <3>3, SpeedMeetsSpec, Zenon DEF IntervalsAreNotShortened
  <2>2. CASE ~setup_bus
    BY <2>2, TimingKept, Zenon DEF IntervalsAreNotShortened
  <2> QED
    BY <2>1, <2>2
<1> QED
  BY <1>1, <1>2, PTL DEF I2cSpec

-----------------------------------------------------------------------------
(* The devices and the decoder of the bus. *)

BusRec == [state : BusStates, numBits : 0 .. 8, currByte : Byte, currDevice : 0 .. 128,
           reading : BOOLEAN, sendAck : BOOLEAN, prev_rst : BOOLEAN, prev_scl : BOOLEAN,
           prev_sda : BOOLEAN, heard : Seq(Byte)]
Word == {n \in Nat : n < 65536}
HatRec == [kind : {"hat_id"}, byteCount : Nat, currAddr : Nat, mem : [0 .. kMemSize - 1 -> Byte]]
TempRec == [kind : {"as621x"}, byteCount : Nat, index : 0 .. 3, dataHi : Byte, config : Word]
ImuRec == [kind : {"lsm9ds1"}, regNum : Byte]
DevOK(d) == d \in HatRec \/ d \in TempRec \/ d \in ImuRec
DevsOK(d) == DOMAIN d \subseteq 0 .. 127 /\ \A a \in DOMAIN d : DevOK(d[a])

\* What the decoder keeps when the lines tell it nothing.
Kept(b, x) ==
    /\ x.state = b.state /\ x.numBits = b.numBits /\ x.currByte = b.currByte
    /\ x.currDevice = b.currDevice /\ x.reading = b.reading /\ x.sendAck = b.sendAck
    /\ x.heard = b.heard
\* The lines as it has seen them, and its devices.
Latched(x, y, d, newscl, newsda) ==
    /\ x \in BusRec /\ x.prev_scl = newscl /\ x.prev_sda = newsda
    /\ DevsOK(y) /\ DOMAIN y = DOMAIN d

LEMMA ShiftInByte == ASSUME NEW byte \in Byte, NEW bit PROVE ShiftIn(byte, bit) \in Byte
  BY DEF ShiftIn, Byte

LEMMA DeviceKinds ==
    ASSUME NEW d, DevOK(d)
    PROVE  \/ d.kind = "hat_id" /\ d \in HatRec
           \/ d.kind = "as621x" /\ d \in TempRec
           \/ d.kind = "lsm9ds1" /\ d \in ImuRec
<1>1. d \in HatRec => d.kind = "hat_id"
  BY DEF HatRec
<1>2. d \in TempRec => d.kind = "as621x"
  BY DEF TempRec
<1>3. d \in ImuRec => d.kind = "lsm9ds1"
  BY DEF ImuRec
<1> QED
  BY <1>1, <1>2, <1>3, Zenon DEF DevOK

LEMMA HatFields ==
    ASSUME NEW d \in HatRec, NEW x \in Nat
    PROVE  /\ [d EXCEPT !.currAddr = x] \in HatRec
           /\ [d EXCEPT !.byteCount = x] \in HatRec
           /\ d.byteCount \in Nat /\ d.currAddr \in Nat /\ d.mem \in [0 .. kMemSize - 1 -> Byte]
           /\ [d EXCEPT !.byteCount = x].currAddr = d.currAddr
           /\ [d EXCEPT !.byteCount = x].mem = d.mem
<1>1. [d EXCEPT !.currAddr = x] \in HatRec
  BY DEF HatRec
<1>2. [d EXCEPT !.byteCount = x] \in HatRec
  BY DEF HatRec
<1>3. d.byteCount \in Nat /\ d.currAddr \in Nat /\ d.mem \in [0 .. kMemSize - 1 -> Byte]
  BY DEF HatRec
<1>4. [d EXCEPT !.byteCount = x].currAddr = d.currAddr /\ [d EXCEPT !.byteCount = x].mem = d.mem
  BY DEF HatRec
<1> QED
  BY <1>1, <1>2, <1>3, <1>4, Zenon

\* An access keeps the type of each kind of device.
LEMMA HatRead ==
    ASSUME NEW d \in HatRec
    PROVE  hat_id_readByte(d).dev \in HatRec /\ hat_id_readByte(d).byte \in Byte
<1> DEFINE m == d.currAddr % kMemSize
           u == (d.currAddr + 1) % 65536
           x == [d EXCEPT !.currAddr = u]
           y == d.mem[m]
<1>1. d.currAddr \in Nat /\ d.mem \in [0 .. kMemSize - 1 -> Byte]
  BY DEF HatRec
<1>2. m \in 0 .. kMemSize - 1 /\ u \in Nat
  BY <1>1, I2cBusAssumption
<1>3. hat_id_readByte(d) = [dev |-> x, byte |-> y]
  BY SMT DEF hat_id_readByte
<1> HIDE DEF m, u
<1>4. x \in HatRec
  BY <1>2, HatFields, Zenon
<1>5. y \in Byte
  BY <1>1, <1>2
<1> HIDE DEF x, y
<1> QED
  BY <1>3, <1>4, <1>5

LEMMA HatWrite ==
    ASSUME NEW d \in HatRec, NEW b \in Byte
    PROVE  hat_id_writeByte(d, b) \in HatRec
<1> DEFINE m == d.currAddr % kMemSize
           u == (d.currAddr + 1) % 65536
           n == (d.byteCount + 1) % 256
           p == b * 256
           q == (d.currAddr \div 256) * 256 + b
           t == PageWrap(u)
           e == [d EXCEPT !.byteCount = n]
           eq == (e.currAddr \div 256) * 256 + b
           et == PageWrap((e.currAddr + 1) % 65536)
<1>1. d.byteCount \in Nat /\ d.currAddr \in Nat /\ d.mem \in [0 .. kMemSize - 1 -> Byte]
  BY DEF HatRec
<1>2. m \in 0 .. kMemSize - 1 /\ u \in Nat /\ n \in Nat
  BY <1>1, I2cBusAssumption, SMTT(40)
<1>3. p \in Nat /\ q \in Nat
  BY <1>1 DEF Byte
<1>4. t \in Nat
  <2> HIDE DEF u
  <2> QED
    BY <1>2, I2cBusAssumption DEF PageWrap
<1>5. hat_id_writeByte(d, b) =
        IF d.byteCount = 0 THEN [e EXCEPT !.currAddr = p]
        ELSE IF d.byteCount = 1 THEN [e EXCEPT !.currAddr = eq]
        ELSE [e EXCEPT !.mem[m] = b, !.currAddr = et]
  BY SMT DEF hat_id_writeByte
<1> HIDE DEF m, n, p, u, t, q, eq, et
<1>6. e.currAddr = d.currAddr /\ e.mem = d.mem /\ e \in HatRec
  BY <1>2, HatFields, Zenon
<1> HIDE DEF e
<1>7. [e EXCEPT !.currAddr = p] \in HatRec
  BY <1>3, <1>6, HatFields, Zenon
<1>8. [e EXCEPT !.currAddr = q] \in HatRec
  BY <1>3, <1>6, HatFields, Zenon
<1>9. [e EXCEPT !.mem[m] = b, !.currAddr = t] \in HatRec
  <2> DEFINE k == [e.mem EXCEPT ![m] = b]
             g == [e EXCEPT !.mem = k]
  <2>1. k \in [0 .. kMemSize - 1 -> Byte]
    BY <1>1, <1>2, <1>6
  <2>2. [e EXCEPT !.mem[m] = b, !.currAddr = t] = [g EXCEPT !.currAddr = t]
    BY Zenon
  <2> HIDE DEF k
  <2>3. g \in HatRec
    BY <1>6, <2>1 DEF HatRec
  <2> HIDE DEF g
  <2>4. [g EXCEPT !.currAddr = t] \in HatRec
    BY <1>4, <2>3, HatFields, Zenon
  <2> QED
    BY <2>2, <2>4, Zenon
<1>10. eq = q /\ et = t
  BY <1>6, SMT DEF q, t, u, eq, et
<1>11. hat_id_writeByte(d, b) =
        IF d.byteCount = 0 THEN [e EXCEPT !.currAddr = p]
        ELSE IF d.byteCount = 1 THEN [e EXCEPT !.currAddr = q]
        ELSE [e EXCEPT !.mem[m] = b, !.currAddr = t]
  BY <1>5, <1>10, Zenon
<1> QED
  BY <1>7, <1>8, <1>9, <1>11, Zenon

LEMMA TempFields ==
    ASSUME NEW d \in TempRec
    PROVE  /\ d.byteCount \in Nat /\ d.index \in 0 .. 3 /\ d.dataHi \in Byte /\ d.config \in Word
           /\ \A x \in Nat : [d EXCEPT !.byteCount = x] \in TempRec
           /\ \A x \in 0 .. 3 : [d EXCEPT !.index = x] \in TempRec
           /\ \A x \in Byte : [d EXCEPT !.dataHi = x] \in TempRec
           /\ \A x \in Word : [d EXCEPT !.config = x] \in TempRec
<1>1. d.byteCount \in Nat /\ d.index \in 0 .. 3 /\ d.dataHi \in Byte /\ d.config \in Word
  BY DEF TempRec
<1>2. ASSUME NEW x \in Nat PROVE [d EXCEPT !.byteCount = x] \in TempRec
  BY DEF TempRec
<1>3. ASSUME NEW x \in 0 .. 3 PROVE [d EXCEPT !.index = x] \in TempRec
  BY DEF TempRec
<1>4. ASSUME NEW x \in Byte PROVE [d EXCEPT !.dataHi = x] \in TempRec
  BY DEF TempRec
<1>5. ASSUME NEW x \in Word PROVE [d EXCEPT !.config = x] \in TempRec
  BY DEF TempRec
<1> QED
  BY <1>1, <1>2, <1>3, <1>4, <1>5, Zenon

LEMMA TempRead ==
    ASSUME NEW d \in TempRec, NEW noise \in Byte
    PROVE  as621x_readByte(d, noise).dev \in TempRec /\ as621x_readByte(d, noise).byte \in Byte
<1> DEFINE val == IF d.index = 1 THEN d.config ELSE 3072 + noise
           odd == d.byteCount % 2 = 1
           n == IF odd THEN d.byteCount - 1 ELSE d.byteCount + 1
           v == IF odd THEN val % 256 ELSE val \div 256
           x == [d EXCEPT !.byteCount = n]
<1>1. d.byteCount \in Nat /\ d.config \in Word
  BY TempFields, Zenon
<1>2. as621x_readByte(d, noise) = [dev |-> x, byte |-> v]
  BY SMT DEF as621x_readByte
<1>3. val \in Word
  BY <1>1 DEF Byte, Word
<1>4. n \in Nat
  BY <1>1
<1>5. v \in Byte
  <2> HIDE DEF val
  <2> QED
    BY <1>3 DEF Byte, Word
<1> HIDE DEF n, v
<1>6. x \in TempRec
  BY <1>4, TempFields, Zenon
<1> HIDE DEF x
<1> QED
  BY <1>2, <1>5, <1>6

LEMMA TempWrite ==
    ASSUME NEW d \in TempRec, NEW b \in Byte
    PROVE  as621x_writeByte(d, b) \in TempRec
<1> DEFINE n == (d.byteCount + 1) % 256
           e == [d EXCEPT !.byteCount = n]
           i == b % 4
           v == d.dataHi * 256 + b
<1>1. \/ as621x_writeByte(d, b) = [e EXCEPT !.index = i]
      \/ as621x_writeByte(d, b) = [e EXCEPT !.dataHi = b]
      \/ as621x_writeByte(d, b) = [e EXCEPT !.config = v]
      \/ as621x_writeByte(d, b) = e
  BY SMT DEF as621x_writeByte
<1>2. d.byteCount \in Nat /\ d.dataHi \in Byte
  BY TempFields, Zenon
<1>3. n \in Nat /\ i \in 0 .. 3 /\ v \in Word
  BY <1>2, SMTT(40) DEF Byte, Word
<1> HIDE DEF n, i, v
<1>4. e \in TempRec
  BY <1>3, TempFields, Zenon
<1> HIDE DEF e
<1> QED
  BY <1>1, <1>3, <1>4, TempFields, Zenon

LEMMA ReadByteType ==
    ASSUME NEW d, DevOK(d), NEW a, NEW noise \in Byte
    PROVE  DevOK(readByte(d, a, noise).dev) /\ readByte(d, a, noise).byte \in Byte
<1>1. CASE d.kind = "hat_id" /\ d \in HatRec
  <2>1. readByte(d, a, noise) = hat_id_readByte(d)
    BY <1>1 DEF readByte
  <2> QED
    BY <1>1, <2>1, HatRead, Zenon DEF DevOK
<1>2. CASE d.kind = "as621x" /\ d \in TempRec
  <2>1. readByte(d, a, noise) = as621x_readByte(d, noise)
    BY <1>2 DEF readByte
  <2> QED
    BY <1>2, <2>1, TempRead, Zenon DEF DevOK
<1>3. CASE d.kind = "lsm9ds1" /\ d \in ImuRec
  <2>1. readByte(d, a, noise) = lsm9ds1_readByte(d, a)
    BY <1>3 DEF readByte
  <2>2. lsm9ds1_readByte(d, a).dev = d /\ lsm9ds1_readByte(d, a).byte \in Byte
    BY DEF lsm9ds1_readByte, Byte
  <2> QED
    BY <1>3, <2>1, <2>2, Zenon DEF DevOK
<1> QED
  BY <1>1, <1>2, <1>3, DeviceKinds, Zenon

LEMMA WriteByteType ==
    ASSUME NEW d, DevOK(d), NEW b \in Byte
    PROVE  DevOK(writeByte(d, b))
<1>1. CASE d.kind = "hat_id" /\ d \in HatRec
  <2>1. writeByte(d, b) = hat_id_writeByte(d, b)
    BY <1>1 DEF writeByte
  <2> QED
    BY <1>1, <2>1, HatWrite, Zenon DEF DevOK
<1>2. CASE d.kind = "as621x" /\ d \in TempRec
  <2>1. writeByte(d, b) = as621x_writeByte(d, b)
    BY <1>2 DEF writeByte
  <2> QED
    BY <1>2, <2>1, TempWrite, Zenon DEF DevOK
<1>3. CASE d.kind = "lsm9ds1" /\ d \in ImuRec
  <2>1. writeByte(d, b) = [d EXCEPT !.regNum = b]
    BY <1>3 DEF writeByte
  <2>2. [d EXCEPT !.regNum = b] \in ImuRec
    BY <1>3 DEF ImuRec
  <2> QED
    BY <2>1, <2>2, Zenon DEF DevOK
<1> QED
  BY <1>1, <1>2, <1>3, DeviceKinds, Zenon

LEMMA BusResetType ==
    ASSUME NEW d, DevOK(d)
    PROVE  DevOK(busReset(d)) /\ DevOK(startCond(d))
<1>0. 0 \in Nat /\ 0 \in 0 .. 3 /\ 0 \in Byte
  BY DEF Byte
<1>1. CASE d.kind = "hat_id" /\ d \in HatRec
  <2> DEFINE e == [d EXCEPT !.byteCount = 0]
  <2>1. busReset(d) = [e EXCEPT !.currAddr = 0] /\ startCond(d) = e
    BY <1>1, Zenon DEF busReset, startCond
  <2>2. e \in HatRec
    BY <1>0, <1>1, HatFields, Zenon
  <2> HIDE DEF e
  <2>3. [e EXCEPT !.currAddr = 0] \in HatRec
    BY <1>0, <2>2, HatFields, Zenon
  <2> QED
    BY <2>1, <2>2, <2>3, Zenon DEF DevOK
<1>2. CASE d.kind = "as621x" /\ d \in TempRec
  <2> DEFINE e == [d EXCEPT !.index = 0]
  <2>1. busReset(d) = [e EXCEPT !.byteCount = 0] /\ startCond(d) = [d EXCEPT !.byteCount = 0]
    BY <1>2, Zenon DEF busReset, startCond
  <2>2. e \in TempRec /\ [d EXCEPT !.byteCount = 0] \in TempRec
    BY <1>0, <1>2, TempFields, Zenon
  <2> HIDE DEF e
  <2>3. [e EXCEPT !.byteCount = 0] \in TempRec
    BY <1>0, <2>2, TempFields, Zenon
  <2> QED
    BY <2>1, <2>2, <2>3, Zenon DEF DevOK
<1>3. CASE d.kind = "lsm9ds1" /\ d \in ImuRec
  <2>1. busReset(d) = [d EXCEPT !.regNum = 0] /\ startCond(d) = d
    BY <1>3 DEF busReset, startCond
  <2>2. [d EXCEPT !.regNum = 0] \in ImuRec
    BY <1>0, <1>3 DEF ImuRec
  <2> QED
    BY <1>3, <2>1, <2>2, Zenon DEF DevOK
<1> QED
  BY <1>1, <1>2, <1>3, DeviceKinds, Zenon

\* What decode() does in its current state, between the test for a reset and
\* the note of the lines.
Inner(b, d, c, s, noise) ==
    CASE b.state = "Idle" -> decode_Idle(b, d, s)
      [] b.state = "Addr" -> decode_Addr(b, d, c, s, noise)
      [] b.state \in {"GotAddr", "GotData"} -> decode_Got(b, d, c)
      [] b.state = "SendAckNak" -> decode_SendAckNak(b, d, c)
      [] b.state = "SentData" -> decode_SentData(b, d, c, s, noise)
      [] b.state = "GotAckNak" -> decode_GotAckNak(b, d, c)
      [] b.state = "Data" -> decode_Data(b, d, c, s)

Noted(r, c, s) == [r EXCEPT !.bus.prev_scl = c, !.bus.prev_sda = s]

\* The same lines, seen by the decoder after a reset or not.
SameBus(b, x) == x \in BusRec /\ Kept(b, x) /\ x.prev_scl = b.prev_scl /\ x.prev_sda = b.prev_sda
SameDevs(d, y) == DevsOK(y) /\ DOMAIN y = DOMAIN d

LEMMA StateNames ==
    /\ "Idle" \in BusStates /\ "Addr" \in BusStates /\ "GotAddr" \in BusStates
    /\ "SendAckNak" \in BusStates /\ "Data" \in BusStates /\ "GotData" \in BusStates
    /\ "SentData" \in BusStates /\ "GotAckNak" \in BusStates
  BY DEF BusStates

LEMMA DecodeBegins ==
    ASSUME NEW b \in BusRec, NEW d, DevsOK(d), NEW c, NEW s, NEW noise
    PROVE  \E b0, d0 : /\ SameBus(b, b0) /\ SameDevs(d, d0)
                       /\ decode(b, d, c, s, noise)
                            = Noted(Inner(b0, d0, c, s, noise), c, s)
<1> DEFINE b0 == [b EXCEPT !.prev_rst = FALSE]
           d0 == IF b.prev_rst THEN [a \in DOMAIN d |-> busReset(d[a])] ELSE d
<1>1. b0 \in BusRec
  BY DEF BusRec
<1>2. Kept(b, b0) /\ b0.prev_scl = b.prev_scl /\ b0.prev_sda = b.prev_sda
  BY DEF BusRec, Kept
<1>3. SameDevs(d, d0)
  <2>1. CASE b.prev_rst
    <3> DEFINE e == [a \in DOMAIN d |-> busReset(d[a])]
    <3>1. DOMAIN e = DOMAIN d /\ \A a \in DOMAIN d : e[a] = busReset(d[a])
      OBVIOUS
    <3>2. \A a \in DOMAIN d : DevOK(busReset(d[a]))
      BY BusResetType, Zenon DEF DevsOK
    <3>3. d0 = e
      BY <2>1
    <3> QED
      BY <3>1, <3>2, <3>3, Zenon DEF SameDevs, DevsOK
  <2>2. CASE ~b.prev_rst
    BY <2>2 DEF SameDevs
  <2> QED
    BY <2>1, <2>2
<1>4. decode(b, d, c, s, noise)
        = Noted(Inner(b0, d0, c, s, noise), c, s)
  BY Zenon DEF decode, Inner, Noted
<1> HIDE DEF b0, d0
<1> QED
  BY <1>1, <1>2, <1>3, <1>4, Zenon DEF SameBus

LEMMA DecodeEnds ==
    ASSUME NEW x \in BusRec, NEW y, NEW o, NEW c \in BOOLEAN, NEW s \in BOOLEAN, NEW r,
           r = Noted(Reply(x, y, o), c, s)
    PROVE  /\ r.bus \in BusRec /\ Kept(x, r.bus) /\ r.bus.prev_scl = c /\ r.bus.prev_sda = s
           /\ r.devs = y /\ r.sda_out = o
<1> DEFINE p == [x EXCEPT !.prev_scl = c]
           q == [p EXCEPT !.prev_sda = s]
<1>1. r = [bus |-> q, devs |-> y, sda_out |-> o]
  BY DEF Reply, Noted
<1>2. p \in BusRec /\ Kept(x, p) /\ p.prev_scl = c
  <2>1. p \in BusRec
    BY DEF BusRec
  <2>2. Kept(x, p) /\ p.prev_scl = c
    BY DEF BusRec, Kept
  <2> QED
    BY <2>1, <2>2, Zenon
<1> HIDE DEF p
<1>3. q \in BusRec /\ Kept(p, q) /\ q.prev_scl = p.prev_scl /\ q.prev_sda = s
  <2>1. q \in BusRec
    BY <1>2 DEF BusRec
  <2>2. Kept(p, q) /\ q.prev_scl = p.prev_scl /\ q.prev_sda = s
    BY <1>2 DEF BusRec, Kept
  <2> QED
    BY <2>1, <2>2, Zenon
<1> HIDE DEF q
<1>4. r.bus = q
  BY ONLY <1>1, Zenon
<1>5. r.devs = y
  BY ONLY <1>1, Zenon
<1>6. r.sda_out = o
  BY ONLY <1>1, Zenon
<1> QED
  BY <1>2, <1>3, <1>4, <1>5, <1>6, Zenon DEF Kept

\* The decoder has found the device that is addressed; a device that sends has
\* let go of the line.
Found(b) == b.currDevice # NoDevice
Spent(b) == b.currByte = 255
Released(b) == b.reading /\ Found(b) => Spent(b)
\* The line that the decoder drives while SCL is high.
Out(b) == CASE b.state = "SendAckNak" -> ~Found(b)
            [] b.state = "Data" /\ Found(b) /\ b.reading -> b.currByte >= 128
            [] OTHER -> TRUE
Result(d, c, s, r) ==
    /\ r.bus \in BusRec /\ r.bus.prev_scl = c /\ r.bus.prev_sda = s
    /\ SameDevs(d, r.devs) /\ r.sda_out \in BOOLEAN
    /\ c => r.sda_out = Out(r.bus)

Decodes(d, c, s, r, x, o) == Result(d, c, s, r) /\ Kept(x, r.bus) /\ r.sda_out = o

LEMMA OutKept == ASSUME NEW x, NEW z, Kept(x, z) PROVE Out(z) = Out(x)
  BY Zenon DEF Kept, Out, Found

LEMMA DecodeVia ==
    ASSUME NEW d, NEW c \in BOOLEAN, NEW s \in BOOLEAN, NEW x \in BusRec, NEW y, SameDevs(d, y),
           NEW o \in BOOLEAN, c => o = Out(x), NEW r,
           r = Noted(Reply(x, y, o), c, s)
    PROVE  Decodes(d, c, s, r, x, o)
<1>1. /\ r.bus \in BusRec /\ Kept(x, r.bus) /\ r.bus.prev_scl = c /\ r.bus.prev_sda = s
      /\ r.devs = y /\ r.sda_out = o
  BY DecodeEnds
<1>2. Out(r.bus) = Out(x)
  BY <1>1, OutKept, Zenon
<1> QED
  BY <1>1, <1>2, Zenon DEF Result, Decodes

\* The fields of the decoder that are not a note of the lines.
Holds(x, st, n, cb, dev, rd, sa, h) ==
    /\ x \in BusRec /\ x.state = st /\ x.numBits = n /\ x.currByte = cb /\ x.currDevice = dev
    /\ x.reading = rd /\ x.sendAck = sa /\ x.heard = h

LEMMA HoldsItsFields ==
    ASSUME NEW x \in BusRec
    PROVE  Holds(x, x.state, x.numBits, x.currByte, x.currDevice, x.reading, x.sendAck, x.heard)
  BY Zenon DEF Holds

LEMMA BusFieldTypes ==
    ASSUME NEW x \in BusRec
    PROVE  /\ x.state \in BusStates /\ x.numBits \in 0 .. 8 /\ x.currByte \in Byte
           /\ x.currDevice \in 0 .. 128 /\ x.reading \in BOOLEAN /\ x.sendAck \in BOOLEAN
           /\ x.heard \in Seq(Byte)
  BY DEF BusRec

LEMMA SetState ==
    ASSUME NEW x, NEW st, NEW n, NEW cb, NEW dev, NEW rd, NEW sa, NEW h, Holds(x, st, n, cb, dev, rd, sa, h),
           NEW v \in BusStates
    PROVE  Holds([x EXCEPT !.state = v], v, n, cb, dev, rd, sa, h)
<1> DEFINE z == [x EXCEPT !.state = v]
<1>1. z \in BusRec
  BY DEF Holds, BusRec
<1>2. z.state = v
  BY DEF Holds, BusRec
<1>3. z.numBits = x.numBits /\ z.currByte = x.currByte /\ z.currDevice = x.currDevice /\ z.reading = x.reading /\ z.sendAck = x.sendAck /\ z.heard = x.heard
  BY DEF Holds, BusRec
<1> HIDE DEF z
<1>4. Holds(z, v, n, cb, dev, rd, sa, h)
  BY <1>1, <1>2, <1>3, Zenon DEF Holds
<1> QED
  BY <1>4 DEF z

LEMMA SetNumBits ==
    ASSUME NEW x, NEW st, NEW n, NEW cb, NEW dev, NEW rd, NEW sa, NEW h, Holds(x, st, n, cb, dev, rd, sa, h),
           NEW v \in 0 .. 8
    PROVE  Holds([x EXCEPT !.numBits = v], st, v, cb, dev, rd, sa, h)
<1> DEFINE z == [x EXCEPT !.numBits = v]
<1>1. z \in BusRec
  BY DEF Holds, BusRec
<1>2. z.numBits = v
  BY DEF Holds, BusRec
<1>3. z.state = x.state /\ z.currByte = x.currByte /\ z.currDevice = x.currDevice /\ z.reading = x.reading /\ z.sendAck = x.sendAck /\ z.heard = x.heard
  BY DEF Holds, BusRec
<1> HIDE DEF z
<1>4. Holds(z, st, v, cb, dev, rd, sa, h)
  BY <1>1, <1>2, <1>3, Zenon DEF Holds
<1> QED
  BY <1>4 DEF z

LEMMA SetCurrByte ==
    ASSUME NEW x, NEW st, NEW n, NEW cb, NEW dev, NEW rd, NEW sa, NEW h, Holds(x, st, n, cb, dev, rd, sa, h),
           NEW v \in Byte
    PROVE  Holds([x EXCEPT !.currByte = v], st, n, v, dev, rd, sa, h)
<1> DEFINE z == [x EXCEPT !.currByte = v]
<1>1. z \in BusRec
  BY DEF Holds, BusRec
<1>2. z.currByte = v
  BY DEF Holds, BusRec
<1>3. z.state = x.state /\ z.numBits = x.numBits /\ z.currDevice = x.currDevice /\ z.reading = x.reading /\ z.sendAck = x.sendAck /\ z.heard = x.heard
  BY DEF Holds, BusRec
<1> HIDE DEF z
<1>4. Holds(z, st, n, v, dev, rd, sa, h)
  BY <1>1, <1>2, <1>3, Zenon DEF Holds
<1> QED
  BY <1>4 DEF z

LEMMA SetCurrDevice ==
    ASSUME NEW x, NEW st, NEW n, NEW cb, NEW dev, NEW rd, NEW sa, NEW h, Holds(x, st, n, cb, dev, rd, sa, h),
           NEW v \in 0 .. 128
    PROVE  Holds([x EXCEPT !.currDevice = v], st, n, cb, v, rd, sa, h)
<1> DEFINE z == [x EXCEPT !.currDevice = v]
<1>1. z \in BusRec
  BY DEF Holds, BusRec
<1>2. z.currDevice = v
  BY DEF Holds, BusRec
<1>3. z.state = x.state /\ z.numBits = x.numBits /\ z.currByte = x.currByte /\ z.reading = x.reading /\ z.sendAck = x.sendAck /\ z.heard = x.heard
  BY DEF Holds, BusRec
<1> HIDE DEF z
<1>4. Holds(z, st, n, cb, v, rd, sa, h)
  BY <1>1, <1>2, <1>3, Zenon DEF Holds
<1> QED
  BY <1>4 DEF z

LEMMA SetReading ==
    ASSUME NEW x, NEW st, NEW n, NEW cb, NEW dev, NEW rd, NEW sa, NEW h, Holds(x, st, n, cb, dev, rd, sa, h),
           NEW v \in BOOLEAN
    PROVE  Holds([x EXCEPT !.reading = v], st, n, cb, dev, v, sa, h)
<1> DEFINE z == [x EXCEPT !.reading = v]
<1>1. z \in BusRec
  BY DEF Holds, BusRec
<1>2. z.reading = v
  BY DEF Holds, BusRec
<1>3. z.state = x.state /\ z.numBits = x.numBits /\ z.currByte = x.currByte /\ z.currDevice = x.currDevice /\ z.sendAck = x.sendAck /\ z.heard = x.heard
  BY DEF Holds, BusRec
<1> HIDE DEF z
<1>4. Holds(z, st, n, cb, dev, v, sa, h)
  BY <1>1, <1>2, <1>3, Zenon DEF Holds
<1> QED
  BY <1>4 DEF z

LEMMA SetSendAck ==
    ASSUME NEW x, NEW st, NEW n, NEW cb, NEW dev, NEW rd, NEW sa, NEW h, Holds(x, st, n, cb, dev, rd, sa, h),
           NEW v \in BOOLEAN
    PROVE  Holds([x EXCEPT !.sendAck = v], st, n, cb, dev, rd, v, h)
<1> DEFINE z == [x EXCEPT !.sendAck = v]
<1>1. z \in BusRec
  BY DEF Holds, BusRec
<1>2. z.sendAck = v
  BY DEF Holds, BusRec
<1>3. z.state = x.state /\ z.numBits = x.numBits /\ z.currByte = x.currByte /\ z.currDevice = x.currDevice /\ z.reading = x.reading /\ z.heard = x.heard
  BY DEF Holds, BusRec
<1> HIDE DEF z
<1>4. Holds(z, st, n, cb, dev, rd, v, h)
  BY <1>1, <1>2, <1>3, Zenon DEF Holds
<1> QED
  BY <1>4 DEF z

LEMMA SetHeard ==
    ASSUME NEW x, NEW st, NEW n, NEW cb, NEW dev, NEW rd, NEW sa, NEW h, Holds(x, st, n, cb, dev, rd, sa, h),
           NEW v \in Seq(Byte)
    PROVE  Holds([x EXCEPT !.heard = v], st, n, cb, dev, rd, sa, v)
<1> DEFINE z == [x EXCEPT !.heard = v]
<1>1. z \in BusRec
  BY DEF Holds, BusRec
<1>2. z.heard = v
  BY DEF Holds, BusRec
<1>3. z.state = x.state /\ z.numBits = x.numBits /\ z.currByte = x.currByte /\ z.currDevice = x.currDevice /\ z.reading = x.reading /\ z.sendAck = x.sendAck
  BY DEF Holds, BusRec
<1> HIDE DEF z
<1>4. Holds(z, st, n, cb, dev, rd, sa, v)
  BY <1>1, <1>2, <1>3, Zenon DEF Holds
<1> QED
  BY <1>4 DEF z
Target(dom, a) == IF a \in dom THEN a ELSE NoDevice

\* The result r of decode() on the lines c and s.
Gives(d, c, s, r, st, n, cb, dev, rd, sa, h) ==
    Result(d, c, s, r) /\ Holds(r.bus, st, n, cb, dev, rd, sa, h)
GivesSame(d, c, s, r, b) ==
    Gives(d, c, s, r, b.state, b.numBits, b.currByte, b.currDevice, b.reading, b.sendAck, b.heard)

Begun(b, d, b0, d0) ==
    /\ Holds(b0, b.state, b.numBits, b.currByte, b.currDevice, b.reading, b.sendAck, b.heard)
    /\ b0.prev_scl = b.prev_scl /\ b0.prev_sda = b.prev_sda /\ SameDevs(d, d0)

LEMMA DecodeFrom ==
    ASSUME NEW b \in BusRec, NEW d, DevsOK(d), NEW c, NEW s, NEW noise,
           NEW r, r = decode(b, d, c, s, noise)
    PROVE  \E b0, d0 : Begun(b, d, b0, d0) /\ r = Noted(Inner(b0, d0, c, s, noise), c, s)
<1>1. PICK b0, d0 : /\ SameBus(b, b0) /\ SameDevs(d, d0)
                    /\ decode(b, d, c, s, noise) = Noted(Inner(b0, d0, c, s, noise), c, s)
  BY ONLY DecodeBegins, b \in BusRec, DevsOK(d)
<1>2. Begun(b, d, b0, d0)
  BY <1>1, Zenon DEF SameBus, Kept, Begun, Holds
<1> QED
  BY <1>1, <1>2, Zenon

LEMMA DecodeTo ==
    ASSUME NEW d, NEW c \in BOOLEAN, NEW s \in BOOLEAN, NEW x, NEW y, NEW o \in BOOLEAN,
           NEW st, NEW n, NEW cb, NEW dev, NEW rd, NEW sa, NEW h,
           Holds(x, st, n, cb, dev, rd, sa, h), SameDevs(d, y), c => o = Out(x),
           NEW r, r = Noted(Reply(x, y, o), c, s)
    PROVE  Gives(d, c, s, r, st, n, cb, dev, rd, sa, h)
<1>1. x \in BusRec
  BY DEF Holds
<1>2. Decodes(d, c, s, r, x, o)
  BY <1>1, DecodeVia, Zenon
<1> QED
  BY <1>1, <1>2, Zenon DEF Decodes, Result, Kept, Holds, Gives

LEMMA DecodeIdle ==
    ASSUME NEW b \in BusRec, NEW d, DevsOK(d), NEW c \in BOOLEAN, NEW s \in BOOLEAN, NEW noise \in Byte,
           NEW r, r = decode(b, d, c, s, noise), b.state = "Idle"
    PROVE  /\ ~(b.prev_sda /\ ~s) => GivesSame(d, c, s, r, b)
           /\ b.prev_sda /\ ~s => Gives(d, c, s, r, "Addr", 0, b.currByte, b.currDevice,
                                        b.reading, b.sendAck, b.heard)
<1>1. PICK b0, d0 : Begun(b, d, b0, d0) /\ r = Noted(Inner(b0, d0, c, s, noise), c, s)
  BY ONLY b \in BusRec, DevsOK(d), r = decode(b, d, c, s, noise), DecodeFrom
<1>2. b0.state = "Idle" /\ b0.prev_sda = b.prev_sda
  BY <1>1, Zenon DEF Begun, Holds
<1>3. Inner(b0, d0, c, s, noise) = decode_Idle(b0, d0, s)
  BY <1>2 DEF Inner
<1> DEFINE yes == TRUE
<1>4. CASE b.prev_sda /\ ~s
  <2> DEFINE w == [b0 EXCEPT !.state = "Addr"]
             x == [w EXCEPT !.numBits = 0]
             y == [a \in DOMAIN d0 |-> startCond(d0[a])]
  <2>1. Inner(b0, d0, c, s, noise) = Reply(x, y, yes)
    BY <1>2, <1>3, <1>4, Zenon DEF decode_Idle
  <2>2. Holds(w, "Addr", b.numBits, b.currByte, b.currDevice, b.reading, b.sendAck, b.heard)
    BY <1>1, StateNames, SetState, Zenon DEF Begun
  <2> HIDE DEF w
  <2>3. 0 \in 0 .. 8
    BY SMT
  <2>4. Holds(x, "Addr", 0, b.currByte, b.currDevice, b.reading, b.sendAck, b.heard)
    BY <2>2, <2>3, SetNumBits, Zenon
  <2>5. SameDevs(d, y)
    <3>1. DOMAIN y = DOMAIN d0 /\ \A a \in DOMAIN d0 : y[a] = startCond(d0[a])
      OBVIOUS
    <3>2. \A a \in DOMAIN d0 : DevOK(startCond(d0[a]))
      BY <1>1, BusResetType, Zenon DEF Begun, SameDevs, DevsOK
    <3> HIDE DEF y
    <3> QED
      BY <1>1, <3>1, <3>2, Zenon DEF Begun, SameDevs, DevsOK
  <2> HIDE DEF x, y
  <2>6. Out(x) = yes
    BY <2>4 DEF Out, Holds
  <2>7. Gives(d, c, s, r, "Addr", 0, b.currByte, b.currDevice, b.reading, b.sendAck, b.heard)
    BY <1>1, <2>1, <2>4, <2>5, <2>6, DecodeTo, Zenon
  <2> QED
    BY <1>4, <2>7, Zenon
<1>5. CASE ~(b.prev_sda /\ ~s)
  <2>1. Inner(b0, d0, c, s, noise) = Reply(b0, d0, yes)
    BY <1>2, <1>3, <1>5, Zenon DEF decode_Idle
  <2>2. Out(b0) = yes
    BY <1>2 DEF Out
  <2>3. Holds(b0, b.state, b.numBits, b.currByte, b.currDevice, b.reading, b.sendAck, b.heard) /\ SameDevs(d, d0)
    BY <1>1, Zenon DEF Begun
  <2>4. GivesSame(d, c, s, r, b)
    BY <1>1, <2>1, <2>2, <2>3, DecodeTo, Zenon DEF GivesSame
  <2> QED
    BY <1>5, <2>4, Zenon
<1> QED
  BY <1>4, <1>5
LEMMA DecodeKeeps ==
    ASSUME NEW b, NEW d, NEW b0, NEW d0, Begun(b, d, b0, d0), NEW c \in BOOLEAN, NEW s \in BOOLEAN,
           NEW o \in BOOLEAN, c => o = Out(b0), NEW r, r = Noted(Reply(b0, d0, o), c, s)
    PROVE  GivesSame(d, c, s, r, b)
<1>1. Holds(b0, b.state, b.numBits, b.currByte, b.currDevice, b.reading, b.sendAck, b.heard) /\ SameDevs(d, d0)
  BY Zenon DEF Begun
<1> QED
  BY <1>1, DecodeTo, Zenon DEF GivesSame

LEMMA DecodeMoves ==
    ASSUME NEW b, NEW d, NEW b0, NEW d0, Begun(b, d, b0, d0), NEW c \in BOOLEAN, NEW s \in BOOLEAN, ~c,
           NEW o \in BOOLEAN, NEW v \in BusStates, NEW r, r = Noted(Reply([b0 EXCEPT !.state = v], d0, o), c, s)
    PROVE  Gives(d, c, s, r, v, b.numBits, b.currByte, b.currDevice, b.reading, b.sendAck, b.heard)
<1>1. Holds(b0, b.state, b.numBits, b.currByte, b.currDevice, b.reading, b.sendAck, b.heard) /\ SameDevs(d, d0)
  BY Zenon DEF Begun
<1> DEFINE x == [b0 EXCEPT !.state = v]
<1>2. Holds(x, v, b.numBits, b.currByte, b.currDevice, b.reading, b.sendAck, b.heard)
  BY <1>1, SetState, Zenon
<1>3. r = Noted(Reply(x, d0, o), c, s)
  OBVIOUS
<1> HIDE DEF x
<1> QED
  BY <1>1, <1>2, <1>3, DecodeTo, Zenon

LEMMA DecodeGot ==
    ASSUME NEW b \in BusRec, NEW d, DevsOK(d), NEW c \in BOOLEAN, NEW s \in BOOLEAN, NEW noise \in Byte,
           NEW r, r = decode(b, d, c, s, noise), b.state \in {"GotAddr", "GotData"}
    PROVE  /\ ~(b.prev_scl /\ ~c) => GivesSame(d, c, s, r, b)
           /\ b.prev_scl /\ ~c => Gives(d, c, s, r, "SendAckNak", b.numBits, b.currByte, b.currDevice,
                                        b.reading, b.sendAck, b.heard)
<1>1. PICK b0, d0 : Begun(b, d, b0, d0) /\ r = Noted(Inner(b0, d0, c, s, noise), c, s)
  BY ONLY b \in BusRec, DevsOK(d), r = decode(b, d, c, s, noise), DecodeFrom
<1>2. b0.state \in {"GotAddr", "GotData"} /\ b0.prev_scl = b.prev_scl
  BY <1>1, Zenon DEF Begun, Holds
<1>3. Inner(b0, d0, c, s, noise) = decode_Got(b0, d0, c)
  BY <1>2 DEF Inner
<1> DEFINE yes == TRUE
           o == ~b0.sendAck
<1>4. CASE b.prev_scl /\ ~c
  <2>1. Inner(b0, d0, c, s, noise) = Reply([b0 EXCEPT !.state = "SendAckNak"], d0, o)
    BY <1>2, <1>3, <1>4, Zenon DEF decode_Got
  <2>2. o \in BOOLEAN
    OBVIOUS
  <2> HIDE DEF o
  <2>3. r = Noted(Reply([b0 EXCEPT !.state = "SendAckNak"], d0, o), c, s)
    BY <1>1, <2>1, Zenon
  <2>4. Gives(d, c, s, r, "SendAckNak", b.numBits, b.currByte, b.currDevice, b.reading, b.sendAck, b.heard)
    BY <1>1, <1>4, <2>2, <2>3, StateNames, DecodeMoves
  <2> QED
    BY <1>4, <2>4, Zenon
<1>5. CASE ~(b.prev_scl /\ ~c)
  <2>1. Inner(b0, d0, c, s, noise) = Reply(b0, d0, yes)
    BY <1>2, <1>3, <1>5, Zenon DEF decode_Got
  <2>2. Out(b0) = yes
    BY <1>2 DEF Out
  <2> QED
    BY <1>1, <1>5, <2>1, <2>2, DecodeKeeps, Zenon
<1> QED
  BY <1>4, <1>5

LEMMA DecodeAckNak ==
    ASSUME NEW b \in BusRec, NEW d, DevsOK(d), NEW c \in BOOLEAN, NEW s \in BOOLEAN, NEW noise \in Byte,
           NEW r, r = decode(b, d, c, s, noise), b.state \in {"SendAckNak", "GotAckNak"}
    PROVE  /\ ~(b.prev_scl /\ ~c) => GivesSame(d, c, s, r, b)
           /\ b.prev_scl /\ ~c => Gives(d, c, s, r, "Data", b.numBits, b.currByte, b.currDevice,
                                        b.reading, b.sendAck, b.heard)
<1>1. PICK b0, d0 : Begun(b, d, b0, d0) /\ r = Noted(Inner(b0, d0, c, s, noise), c, s)
  BY ONLY b \in BusRec, DevsOK(d), r = decode(b, d, c, s, noise), DecodeFrom
<1>2. b0.state = b.state /\ b0.prev_scl = b.prev_scl
  BY <1>1, Zenon DEF Begun, Holds
<1> DEFINE o == IF b0.state = "SendAckNak" THEN b0.currDevice = NoDevice ELSE TRUE
<1>3. Inner(b0, d0, c, s, noise)
        = Reply(IF b0.prev_scl /\ ~c THEN [b0 EXCEPT !.state = "Data"] ELSE b0, d0, o)
  <2>1. CASE b.state = "SendAckNak"
    <3>1. Inner(b0, d0, c, s, noise) = decode_SendAckNak(b0, d0, c)
      BY <1>2, <2>1 DEF Inner
    <3> QED
      BY <1>2, <2>1, <3>1, Zenon DEF decode_SendAckNak
  <2>2. CASE b.state = "GotAckNak"
    <3>1. Inner(b0, d0, c, s, noise) = decode_GotAckNak(b0, d0, c)
      BY <1>2, <2>2 DEF Inner
    <3>2. "GotAckNak" # "SendAckNak"
      BY Zenon
    <3> QED
      BY <1>2, <2>2, <3>1, <3>2, Zenon DEF decode_GotAckNak
  <2> QED
    BY <2>1, <2>2
<1>4. o \in BOOLEAN
  BY Zenon
<1>5. o = Out(b0)
  BY <1>2 DEF Out, Found
<1> HIDE DEF o
<1>6. CASE b.prev_scl /\ ~c
  <2>1. Inner(b0, d0, c, s, noise) = Reply([b0 EXCEPT !.state = "Data"], d0, o)
    BY <1>2, <1>3, <1>6, Zenon
  <2>2. r = Noted(Reply([b0 EXCEPT !.state = "Data"], d0, o), c, s)
    BY <1>1, <2>1, Zenon
  <2>3. Gives(d, c, s, r, "Data", b.numBits, b.currByte, b.currDevice, b.reading, b.sendAck, b.heard)
    BY <1>1, <1>4, <1>6, <2>2, StateNames, DecodeMoves
  <2> QED
    BY <1>6, <2>3, Zenon
<1>7. CASE ~(b.prev_scl /\ ~c)
  <2>1. Inner(b0, d0, c, s, noise) = Reply(b0, d0, o)
    BY <1>2, <1>3, <1>7, Zenon
  <2> QED
    BY <1>1, <1>4, <1>5, <1>7, <2>1, DecodeKeeps, ZenonT(60)
<1> QED
  BY <1>6, <1>7

\* The device that is addressed supplies a byte.
LEMMA FetchGives ==
    ASSUME NEW x, NEW y, NEW noise \in Byte, DevsOK(y), NEW dev \in DOMAIN y,
           NEW st, NEW n, NEW cb, NEW rd, NEW sa, NEW h, Holds(x, st, n, cb, dev, rd, sa, h)
    PROVE  \E v \in Byte : /\ Holds(Fetch(x, y, noise).bus, st, n, v, dev, rd, sa, h)
                           /\ SameDevs(y, Fetch(x, y, noise).devs)
<1> DEFINE q == readByte(y[x.currDevice], x.currDevice, noise)
           g == [y EXCEPT ![x.currDevice] = q.dev]
           v == q.byte
<1>1. x.currDevice = dev
  BY DEF Holds
<1>2. DevOK(y[x.currDevice])
  BY <1>1, Zenon DEF DevsOK
<1>3. DevOK(q.dev) /\ v \in Byte
  BY <1>2, ReadByteType, Zenon
<1>4. Fetch(x, y, noise) = [bus |-> [x EXCEPT !.currByte = v], devs |-> g]
  BY Zenon DEF Fetch
<1> HIDE DEF q
<1>5. DOMAIN g = DOMAIN y /\ \A a \in DOMAIN y : g[a] = IF a = x.currDevice THEN q.dev ELSE y[a]
  OBVIOUS
<1>6. SameDevs(y, g)
  <2> HIDE DEF g
  <2> QED
    BY <1>3, <1>5, Zenon DEF SameDevs, DevsOK
<1> HIDE DEF g, v
<1>7. Fetch(x, y, noise).devs = g /\ Fetch(x, y, noise).bus = [x EXCEPT !.currByte = v]
  BY ONLY <1>4
<1>8. Holds([x EXCEPT !.currByte = v], st, n, v, dev, rd, sa, h)
  BY <1>3, SetCurrByte, Zenon
<1> QED
  BY <1>3, <1>6, <1>7, <1>8, Zenon

LEMMA DevsChain == ASSUME NEW d, NEW y, NEW z, SameDevs(d, y), SameDevs(y, z) PROVE SameDevs(d, z)
  BY Zenon DEF SameDevs
LEMMA AddressedGives ==
    ASSUME NEW x, NEW y, NEW noise \in Byte, DevsOK(y), NEW byte \in Byte,
           NEW st, NEW n, NEW cb, NEW dev, NEW rd, NEW sa, NEW h, Holds(x, st, n, cb, dev, rd, sa, h)
    PROVE  \E v \in Byte :
              /\ Holds(Addressed(x, y, byte, noise).bus, "GotAddr", 0, v, Target(DOMAIN y, byte \div 2),
                       byte % 2 = 1, Target(DOMAIN y, byte \div 2) # NoDevice, <<>>)
              /\ SameDevs(y, Addressed(x, y, byte, noise).devs)
<1> DEFINE t == find_device(y, byte \div 2)
           odd == byte % 2 = 1
           ack == t # NoDevice
           w1 == [x EXCEPT !.currByte = byte]
           w2 == [w1 EXCEPT !.numBits = 0]
           w3 == [w2 EXCEPT !.state = "GotAddr"]
           w4 == [w3 EXCEPT !.reading = odd]
           w5 == [w4 EXCEPT !.heard = <<>>]
           w6 == [w5 EXCEPT !.currDevice = t]
           w7 == [w6 EXCEPT !.sendAck = ack]
<1>1. Addressed(x, y, byte, noise) = IF w7.sendAck /\ w7.reading THEN Fetch(w7, y, noise)
                                     ELSE [bus |-> w7, devs |-> y]
  BY Zenon DEF Addressed
<1>2. t = Target(DOMAIN y, byte \div 2)
  BY Zenon DEF find_device, Target
<1>3. t \in 0 .. 128 /\ (ack => t \in DOMAIN y)
  <2>1. DOMAIN y \subseteq 0 .. 127
    BY DEF DevsOK
  <2> QED
    BY <2>1 DEF find_device, NoDevice
<1>4. 0 \in 0 .. 8 /\ <<>> \in Seq(Byte)
  BY SMT
<1>5. odd \in BOOLEAN /\ ack \in BOOLEAN
  BY Zenon
<1> HIDE DEF t, odd, ack
<1>6. Holds(w1, st, n, byte, dev, rd, sa, h)
  BY SetCurrByte, Zenon
<1> HIDE DEF w1
<1>7. Holds(w2, st, 0, byte, dev, rd, sa, h)
  BY <1>4, <1>6, SetNumBits, Zenon
<1> HIDE DEF w2
<1>8. Holds(w3, "GotAddr", 0, byte, dev, rd, sa, h)
  BY <1>7, StateNames, SetState, Zenon
<1> HIDE DEF w3
<1>9. Holds(w4, "GotAddr", 0, byte, dev, odd, sa, h)
  BY <1>5, <1>8, SetReading, Zenon
<1> HIDE DEF w4
<1>10. Holds(w5, "GotAddr", 0, byte, dev, odd, sa, <<>>)
  BY <1>4, <1>9, SetHeard, Zenon
<1> HIDE DEF w5
<1>11. Holds(w6, "GotAddr", 0, byte, t, odd, sa, <<>>)
  BY <1>3, <1>10, SetCurrDevice, Zenon
<1> HIDE DEF w6
<1>12. Holds(w7, "GotAddr", 0, byte, t, odd, ack, <<>>)
  BY <1>5, <1>11, SetSendAck, Zenon
<1> HIDE DEF w7
<1>13. w7.sendAck = ack
  BY <1>12, Zenon DEF Holds
<1>14. \E v \in Byte : /\ Holds(Addressed(x, y, byte, noise).bus, "GotAddr", 0, v, t, odd, ack, <<>>)
                       /\ SameDevs(y, Addressed(x, y, byte, noise).devs)
  <2>1. CASE w7.sendAck /\ w7.reading
    <3>1. t \in DOMAIN y
      BY <1>3, <1>13, <2>1, Zenon
    <3>2. Addressed(x, y, byte, noise) = Fetch(w7, y, noise)
      BY <1>1, <2>1, Zenon
    <3>3. \E v \in Byte : /\ Holds(Fetch(w7, y, noise).bus, "GotAddr", 0, v, t, odd, ack, <<>>)
                          /\ SameDevs(y, Fetch(w7, y, noise).devs)
      BY ONLY <1>12, <3>1, FetchGives, DevsOK(y), noise \in Byte
    <3> QED
      BY <3>2, <3>3, Zenon
  <2>2. CASE ~(w7.sendAck /\ w7.reading)
    <3>1. Addressed(x, y, byte, noise) = [bus |-> w7, devs |-> y]
      BY <1>1, <2>2, Zenon
    <3>2. Addressed(x, y, byte, noise).bus = w7 /\ Addressed(x, y, byte, noise).devs = y
      BY ONLY <3>1
    <3> QED
      BY <1>12, <3>2, Zenon DEF SameDevs
  <2> QED
    BY <2>1, <2>2
<1> QED
  BY <1>2, <1>14, Zenon DEF odd, ack

LEMMA NextBits ==
    ASSUME NEW b \in BusRec
    PROVE  /\ b.numBits + 1 < 8 => b.numBits + 1 \in 0 .. 8
           /\ b.numBits < 8 => b.numBits + 1 \in 0 .. 8
  BY BusFieldTypes

LEMMA DecodeAddr ==
    ASSUME NEW b \in BusRec, NEW d, DevsOK(d), NEW c \in BOOLEAN, NEW s \in BOOLEAN, NEW noise \in Byte,
           NEW r, r = decode(b, d, c, s, noise), b.state = "Addr"
    PROVE  /\ b.prev_scl \/ ~c => GivesSame(d, c, s, r, b)
           /\ ~b.prev_scl /\ c /\ b.numBits + 1 < 8 =>
                 Gives(d, c, s, r, "Addr", b.numBits + 1, ShiftIn(b.currByte, s), b.currDevice,
                       b.reading, b.sendAck, b.heard)
           /\ ~b.prev_scl /\ c /\ ~(b.numBits + 1 < 8) =>
                 \E v \in Byte : Gives(d, c, s, r, "GotAddr", 0, v,
                                       Target(DOMAIN d, ShiftIn(b.currByte, s) \div 2),
                                       ShiftIn(b.currByte, s) % 2 = 1,
                                       Target(DOMAIN d, ShiftIn(b.currByte, s) \div 2) # NoDevice, <<>>)
<1>1. PICK b0, d0 : Begun(b, d, b0, d0) /\ r = Noted(Inner(b0, d0, c, s, noise), c, s)
  BY ONLY b \in BusRec, DevsOK(d), r = decode(b, d, c, s, noise), DecodeFrom
<1> DEFINE byte == ShiftIn(b.currByte, s)
           yes == TRUE
           full == Addressed(b0, d0, byte, noise)
<1>2. /\ Holds(b0, "Addr", b.numBits, b.currByte, b.currDevice, b.reading, b.sendAck, b.heard)
      /\ b0.prev_scl = b.prev_scl /\ b0.numBits = b.numBits /\ b0.currByte = b.currByte
      /\ SameDevs(d, d0)
  BY <1>1, Zenon DEF Begun, Holds
<1>3. b0.state = "Addr"
  BY <1>2, Zenon DEF Holds
<1>4. Inner(b0, d0, c, s, noise) = decode_Addr(b0, d0, c, s, noise)
  BY <1>3 DEF Inner
<1>5. byte \in Byte
  BY BusFieldTypes, ShiftInByte, Zenon
<1>6. Inner(b0, d0, c, s, noise) =
        IF b.prev_scl \/ ~c THEN Reply(b0, d0, TRUE)
        ELSE IF b.numBits + 1 < 8
        THEN Reply([b0 EXCEPT !.currByte = byte, !.numBits = b0.numBits + 1], d0, TRUE)
        ELSE Reply(full.bus, full.devs, TRUE)
  BY <1>2, <1>4, Zenon DEF decode_Addr
<1> HIDE DEF byte
<1>7. CASE b.prev_scl \/ ~c
  <2>1. Inner(b0, d0, c, s, noise) = Reply(b0, d0, yes)
    BY <1>6, <1>7, Zenon
  <2>2. Out(b0) = yes
    BY <1>3 DEF Out
  <2>3. GivesSame(d, c, s, r, b)
    BY <1>1, <2>1, <2>2, DecodeKeeps, Zenon
  <2> QED
    BY <1>7, <2>3, Zenon
<1>8. CASE ~b.prev_scl /\ c /\ b.numBits + 1 < 8
  <2> DEFINE m == b.numBits + 1
             w == [b0 EXCEPT !.currByte = byte]
             x == [w EXCEPT !.numBits = m]
  <2>1. Inner(b0, d0, c, s, noise) = Reply(x, d0, yes)
    BY <1>2, <1>6, <1>8, Zenon
  <2>2. m \in 0 .. 8
    BY <1>8, NextBits, Zenon
  <2> HIDE DEF m
  <2>3. Holds(w, "Addr", b.numBits, byte, b.currDevice, b.reading, b.sendAck, b.heard)
    BY <1>2, <1>5, SetCurrByte, Zenon
  <2> HIDE DEF w
  <2>4. Holds(x, "Addr", m, byte, b.currDevice, b.reading, b.sendAck, b.heard)
    BY <2>2, <2>3, SetNumBits, Zenon
  <2> HIDE DEF x
  <2>5. Out(x) = yes
    BY <2>4 DEF Out, Holds
  <2>6. Gives(d, c, s, r, "Addr", m, byte, b.currDevice, b.reading, b.sendAck, b.heard)
    BY <1>1, <1>2, <2>1, <2>4, <2>5, DecodeTo, Zenon
  <2> QED
    BY <1>8, <2>6, Zenon DEF m, byte
<1>9. CASE ~b.prev_scl /\ c /\ ~(b.numBits + 1 < 8)
  <2> DEFINE t == Target(DOMAIN d0, byte \div 2)
             odd == byte % 2 = 1
             ack == t # NoDevice
  <2>1. Inner(b0, d0, c, s, noise) = Reply(full.bus, full.devs, yes)
    BY <1>6, <1>9, Zenon
  <2>2. DevsOK(d0)
    BY <1>2, Zenon DEF SameDevs
  <2>3. PICK v \in Byte : Holds(full.bus, "GotAddr", 0, v, t, odd, ack, <<>>) /\ SameDevs(d0, full.devs)
    BY ONLY <1>2, <1>5, <2>2, AddressedGives, noise \in Byte
  <2>4. t = Target(DOMAIN d, byte \div 2)
    BY <1>2, Zenon DEF SameDevs
  <2> HIDE DEF full, t, odd, ack
  <2>5. SameDevs(d, full.devs)
    BY <1>2, <2>3, DevsChain, Zenon
  <2>6. Out(full.bus) = yes
    BY <2>3 DEF Out, Holds
  <2>7. Gives(d, c, s, r, "GotAddr", 0, v, t, odd, ack, <<>>)
    BY <1>1, <2>1, <2>3, <2>5, <2>6, DecodeTo, Zenon
  <2> QED
    BY <1>9, <2>4, <2>7, Zenon DEF odd, ack, byte
<1> QED
  BY <1>7, <1>8, <1>9

LEMMA DecodeSentData ==
    ASSUME NEW b \in BusRec, NEW d, DevsOK(d), NEW c \in BOOLEAN, NEW s \in BOOLEAN, NEW noise \in Byte,
           NEW r, r = decode(b, d, c, s, noise), b.state = "SentData"
    PROVE  /\ b.prev_scl \/ ~c => GivesSame(d, c, s, r, b)
           /\ ~b.prev_scl /\ c /\ b.currDevice \in DOMAIN d =>
                 \E v \in Byte : /\ Gives(d, c, s, r, "GotAckNak", 0, v, b.currDevice,
                                          b.reading, b.sendAck, b.heard)
                                 /\ s => v = b.currByte
<1>1. PICK b0, d0 : Begun(b, d, b0, d0) /\ r = Noted(Inner(b0, d0, c, s, noise), c, s)
  BY ONLY b \in BusRec, DevsOK(d), r = decode(b, d, c, s, noise), DecodeFrom
<1> DEFINE yes == TRUE
           nxt == IF s THEN [bus |-> b0, devs |-> d0] ELSE Fetch(b0, d0, noise)
<1>2. /\ Holds(b0, "SentData", b.numBits, b.currByte, b.currDevice, b.reading, b.sendAck, b.heard)
      /\ b0.prev_scl = b.prev_scl /\ SameDevs(d, d0)
  BY <1>1, Zenon DEF Begun, Holds
<1>3. b0.state = "SentData"
  BY <1>2, Zenon DEF Holds
<1>4. Inner(b0, d0, c, s, noise) = decode_SentData(b0, d0, c, s, noise)
  BY <1>3 DEF Inner
<1>5. CASE b.prev_scl \/ ~c
  <2>1. Inner(b0, d0, c, s, noise) = Reply(b0, d0, yes)
    BY <1>2, <1>4, <1>5, Zenon DEF decode_SentData
  <2>2. Out(b0) = yes
    BY <1>3 DEF Out
  <2>3. GivesSame(d, c, s, r, b)
    BY <1>1, <2>1, <2>2, DecodeKeeps, Zenon
  <2> QED
    BY <1>5, <2>3, Zenon
<1>6. CASE ~b.prev_scl /\ c /\ b.currDevice \in DOMAIN d
  <2> DEFINE w == [nxt.bus EXCEPT !.numBits = 0]
             x == [w EXCEPT !.state = "GotAckNak"]
  <2>1. Inner(b0, d0, c, s, noise) = Reply(x, nxt.devs, yes)
    BY <1>2, <1>4, <1>6, Zenon DEF decode_SentData
  <2>2. PICK v \in Byte :
          /\ Holds(nxt.bus, "SentData", b.numBits, v, b.currDevice, b.reading, b.sendAck, b.heard)
          /\ SameDevs(d0, nxt.devs) /\ (s => v = b.currByte)
    <3>1. CASE s
      <4>1. nxt.bus = b0 /\ nxt.devs = d0
        BY <3>1
      <4>2. b.currByte \in Byte /\ SameDevs(d0, d0)
        BY <1>2, BusFieldTypes, Zenon DEF SameDevs
      <4> HIDE DEF nxt
      <4> QED
        BY <1>2, <4>1, <4>2, Zenon
    <3>2. CASE ~s
      <4>1. nxt = Fetch(b0, d0, noise)
        BY <3>2, Zenon
      <4>2. DevsOK(d0) /\ b.currDevice \in DOMAIN d0
        BY <1>2, <1>6, Zenon DEF SameDevs
      <4> HIDE DEF nxt
      <4>3. \E v \in Byte :
              /\ Holds(Fetch(b0, d0, noise).bus, "SentData", b.numBits, v, b.currDevice, b.reading, b.sendAck, b.heard)
              /\ SameDevs(d0, Fetch(b0, d0, noise).devs)
        BY ONLY <1>2, <4>2, FetchGives, noise \in Byte
      <4> QED
        BY <3>2, <4>1, <4>3, Zenon
    <3> QED
      BY <3>1, <3>2
  <2> HIDE DEF nxt
  <2>3. 0 \in 0 .. 8
    BY SMT
  <2>4. Holds(w, "SentData", 0, v, b.currDevice, b.reading, b.sendAck, b.heard)
    BY <2>2, <2>3, SetNumBits, Zenon
  <2> HIDE DEF w
  <2>5. Holds(x, "GotAckNak", 0, v, b.currDevice, b.reading, b.sendAck, b.heard)
    BY <2>4, StateNames, SetState, Zenon
  <2> HIDE DEF x
  <2>6. Out(x) = yes
    BY <2>5 DEF Out, Holds
  <2>7. SameDevs(d, nxt.devs)
    BY <1>2, <2>2, DevsChain, Zenon
  <2>8. Gives(d, c, s, r, "GotAckNak", 0, v, b.currDevice, b.reading, b.sendAck, b.heard)
    BY <1>1, <2>1, <2>5, <2>6, <2>7, DecodeTo, Zenon
  <2> QED
    BY <1>6, <2>2, <2>8, Zenon
<1> QED
  BY <1>5, <1>6
\* The state Data: a stop, a start, a bit for a device or one from it.
LEMMA DecodeStop ==
    ASSUME NEW b \in BusRec, NEW d, DevsOK(d), NEW c \in BOOLEAN, NEW s \in BOOLEAN, NEW noise \in Byte,
           NEW r, r = decode(b, d, c, s, noise), b.state = "Data", c, ~b.prev_sda, s
    PROVE  Gives(d, c, s, r, "Idle", b.numBits, b.currByte, NoDevice, b.reading, b.sendAck, b.heard)
<1>1. PICK b0, d0 : Begun(b, d, b0, d0) /\ r = Noted(Inner(b0, d0, c, s, noise), c, s)
  BY ONLY b \in BusRec, DevsOK(d), r = decode(b, d, c, s, noise), DecodeFrom
<1>2. /\ Holds(b0, "Data", b.numBits, b.currByte, b.currDevice, b.reading, b.sendAck, b.heard)
      /\ b0.prev_sda = b.prev_sda /\ SameDevs(d, d0)
  BY <1>1, Zenon DEF Begun, Holds
<1>3. b0.state = "Data"
  BY <1>2, Zenon DEF Holds
<1>4. Inner(b0, d0, c, s, noise) = decode_Data(b0, d0, c, s)
  BY <1>3 DEF Inner
<1> DEFINE yes == TRUE
           w == [b0 EXCEPT !.currDevice = NoDevice]
           x == [w EXCEPT !.state = "Idle"]
<1>5. Inner(b0, d0, c, s, noise) = Reply(x, d0, yes)
  BY <1>2, <1>4 DEF decode_Data
<1>6. NoDevice \in 0 .. 128
  BY DEF NoDevice
<1>7. Holds(w, "Data", b.numBits, b.currByte, NoDevice, b.reading, b.sendAck, b.heard)
  BY <1>2, <1>6, SetCurrDevice, Zenon
<1> HIDE DEF w
<1>8. Holds(x, "Idle", b.numBits, b.currByte, NoDevice, b.reading, b.sendAck, b.heard)
  BY <1>7, StateNames, SetState, Zenon
<1> HIDE DEF x
<1>9. Out(x) = yes
  BY <1>8 DEF Out, Holds
<1> QED
  BY <1>1, <1>2, <1>5, <1>8, <1>9, DecodeTo, Zenon

LEMMA DecodeRestart ==
    ASSUME NEW b \in BusRec, NEW d, DevsOK(d), NEW c \in BOOLEAN, NEW s \in BOOLEAN, NEW noise \in Byte,
           NEW r, r = decode(b, d, c, s, noise), b.state = "Data", c, b.prev_sda, ~s
    PROVE  Gives(d, c, s, r, "Addr", 0, b.currByte, NoDevice, b.reading, b.sendAck, b.heard)
<1>1. PICK b0, d0 : Begun(b, d, b0, d0) /\ r = Noted(Inner(b0, d0, c, s, noise), c, s)
  BY ONLY b \in BusRec, DevsOK(d), r = decode(b, d, c, s, noise), DecodeFrom
<1>2. /\ Holds(b0, "Data", b.numBits, b.currByte, b.currDevice, b.reading, b.sendAck, b.heard)
      /\ b0.prev_sda = b.prev_sda /\ SameDevs(d, d0)
  BY <1>1, Zenon DEF Begun, Holds
<1>3. b0.state = "Data"
  BY <1>2, Zenon DEF Holds
<1>4. Inner(b0, d0, c, s, noise) = decode_Data(b0, d0, c, s)
  BY <1>3 DEF Inner
<1> DEFINE yes == TRUE
           w == [b0 EXCEPT !.currDevice = NoDevice]
           z == [w EXCEPT !.state = "Addr"]
           x == [z EXCEPT !.numBits = 0]
<1>5. Inner(b0, d0, c, s, noise) = Reply(x, d0, yes)
  BY <1>2, <1>4 DEF decode_Data
<1>6. NoDevice \in 0 .. 128 /\ 0 \in 0 .. 8
  BY DEF NoDevice
<1>7. Holds(w, "Data", b.numBits, b.currByte, NoDevice, b.reading, b.sendAck, b.heard)
  BY <1>2, <1>6, SetCurrDevice, Zenon
<1> HIDE DEF w
<1>8. Holds(z, "Addr", b.numBits, b.currByte, NoDevice, b.reading, b.sendAck, b.heard)
  BY <1>7, StateNames, SetState, Zenon
<1> HIDE DEF z
<1>9. Holds(x, "Addr", 0, b.currByte, NoDevice, b.reading, b.sendAck, b.heard)
  BY <1>6, <1>8, SetNumBits, Zenon
<1> HIDE DEF x
<1>10. Out(x) = yes
  BY <1>9 DEF Out, Holds
<1> QED
  BY <1>1, <1>2, <1>5, <1>9, <1>10, DecodeTo, Zenon

LEMMA DecodeDeaf ==
    ASSUME NEW b \in BusRec, NEW d, DevsOK(d), NEW c \in BOOLEAN, NEW s \in BOOLEAN, NEW noise \in Byte,
           NEW r, r = decode(b, d, c, s, noise), b.state = "Data", ~c \/ b.prev_sda = s, ~Found(b)
    PROVE  GivesSame(d, c, s, r, b)
<1>1. PICK b0, d0 : Begun(b, d, b0, d0) /\ r = Noted(Inner(b0, d0, c, s, noise), c, s)
  BY ONLY b \in BusRec, DevsOK(d), r = decode(b, d, c, s, noise), DecodeFrom
<1>2. b0.state = "Data" /\ b0.prev_sda = b.prev_sda /\ b0.currDevice = NoDevice
  BY <1>1, Zenon DEF Begun, Holds, Found
<1>3. Inner(b0, d0, c, s, noise) = decode_Data(b0, d0, c, s)
  BY <1>2 DEF Inner
<1> DEFINE yes == TRUE
<1>4. Inner(b0, d0, c, s, noise) = Reply(b0, d0, yes)
  BY <1>2, <1>3 DEF decode_Data
<1>5. Out(b0) = yes
  BY <1>2 DEF Out, Found
<1> QED
  BY <1>1, <1>4, <1>5, DecodeKeeps, Zenon

LEMMA DecodeSending ==
    ASSUME NEW b \in BusRec, NEW d, DevsOK(d), NEW c \in BOOLEAN, NEW s \in BOOLEAN, NEW noise \in Byte,
           NEW r, r = decode(b, d, c, s, noise), b.state = "Data", ~c \/ b.prev_sda = s,
           Found(b), b.reading
    PROVE  /\ ~(b.prev_scl /\ ~c) => GivesSame(d, c, s, r, b)
           /\ b.prev_scl /\ ~c /\ b.numBits < 8 =>
                 Gives(d, c, s, r, IF b.numBits + 1 >= 8 THEN "SentData" ELSE "Data", b.numBits + 1,
                       ShiftIn(b.currByte, TRUE), b.currDevice, b.reading, b.sendAck, b.heard)
<1>1. PICK b0, d0 : Begun(b, d, b0, d0) /\ r = Noted(Inner(b0, d0, c, s, noise), c, s)
  BY ONLY b \in BusRec, DevsOK(d), r = decode(b, d, c, s, noise), DecodeFrom
<1>2. /\ Holds(b0, "Data", b.numBits, b.currByte, b.currDevice, b.reading, b.sendAck, b.heard)
      /\ b0.prev_scl = b.prev_scl /\ b0.prev_sda = b.prev_sda /\ SameDevs(d, d0)
  BY <1>1, Zenon DEF Begun, Holds
<1>3. /\ b0.state = "Data" /\ b0.currDevice # NoDevice /\ b0.reading
      /\ b0.numBits = b.numBits /\ b0.currByte = b.currByte
  BY <1>2, Zenon DEF Holds, Found
<1>4. Inner(b0, d0, c, s, noise) = decode_Data(b0, d0, c, s)
  BY <1>3 DEF Inner
<1>5. decode_Data(b0, d0, c, s) = SendBit(b0, d0, c)
  BY <1>2, <1>3 DEF decode_Data
<1> DEFINE o == b0.currByte >= 128
<1>6. o \in BOOLEAN
  BY <1>3, BusFieldTypes DEF Byte
<1>7. Out(b0) = o
  BY <1>3 DEF Out, Found
<1>8. CASE ~(b.prev_scl /\ ~c)
  <2>1. Inner(b0, d0, c, s, noise) = Reply(b0, d0, o)
    BY <1>2, <1>4, <1>5, <1>8, Zenon DEF SendBit
  <2> HIDE DEF o
  <2>2. GivesSame(d, c, s, r, b)
    BY <1>1, <1>6, <1>7, <2>1, DecodeKeeps, ZenonT(60)
  <2> QED
    BY <1>8, <2>2, Zenon
<1>9. CASE b.prev_scl /\ ~c /\ b.numBits < 8
  <2> DEFINE m == b.numBits + 1
             st == IF m >= 8 THEN "SentData" ELSE "Data"
             byte == ShiftIn(b.currByte, TRUE)
             w == [b0 EXCEPT !.currByte = byte]
             z == [w EXCEPT !.numBits = m]
             x == [z EXCEPT !.state = st]
  <2>1. Inner(b0, d0, c, s, noise)
          = Reply([b0 EXCEPT !.currByte = ShiftIn(b0.currByte, TRUE), !.numBits = b0.numBits + 1,
                             !.state = IF b0.numBits + 1 >= 8 THEN "SentData" ELSE b0.state], d0, o)
    BY <1>2, <1>4, <1>5, <1>9, Zenon DEF SendBit
  <2>2. Inner(b0, d0, c, s, noise) = Reply(x, d0, o)
    BY <1>3, <2>1, Zenon
  <2>3. m \in 0 .. 8
    BY <1>9, NextBits, Zenon
  <2>4. byte \in Byte
    BY BusFieldTypes, ShiftInByte, Zenon
  <2>5. st \in BusStates
    BY StateNames, Zenon
  <2> HIDE DEF o, m, st, byte
  <2>6. Holds(w, "Data", b.numBits, byte, b.currDevice, b.reading, b.sendAck, b.heard)
    BY <1>2, <2>4, SetCurrByte, Zenon
  <2> HIDE DEF w
  <2>7. Holds(z, "Data", m, byte, b.currDevice, b.reading, b.sendAck, b.heard)
    BY <2>3, <2>6, SetNumBits, Zenon
  <2> HIDE DEF z
  <2>8. Holds(x, st, m, byte, b.currDevice, b.reading, b.sendAck, b.heard)
    BY <2>5, <2>7, SetState, Zenon
  <2> HIDE DEF x
  <2>9. Gives(d, c, s, r, st, m, byte, b.currDevice, b.reading, b.sendAck, b.heard)
    BY <1>1, <1>2, <1>6, <1>9, <2>2, <2>8, DecodeTo, Zenon
  <2> QED
    BY <1>9, <2>9, Zenon DEF m, st, byte
<1> QED
  BY <1>8, <1>9

LEMMA DecodeTaking ==
    ASSUME NEW b \in BusRec, NEW d, DevsOK(d), NEW c \in BOOLEAN, NEW s \in BOOLEAN, NEW noise \in Byte,
           NEW r, r = decode(b, d, c, s, noise), b.state = "Data", ~c \/ b.prev_sda = s,
           Found(b), ~b.reading
    PROVE  /\ b.prev_scl \/ ~c => GivesSame(d, c, s, r, b)
           /\ ~b.prev_scl /\ c /\ b.numBits + 1 < 8 =>
                 Gives(d, c, s, r, "Data", b.numBits + 1, ShiftIn(b.currByte, s), b.currDevice,
                       b.reading, b.sendAck, b.heard)
           /\ ~b.prev_scl /\ c /\ ~(b.numBits + 1 < 8) /\ b.currDevice \in DOMAIN d =>
                 Gives(d, c, s, r, "GotData", 0, ShiftIn(b.currByte, s), b.currDevice,
                       b.reading, TRUE, Append(b.heard, ShiftIn(b.currByte, s)))
<1>1. PICK b0, d0 : Begun(b, d, b0, d0) /\ r = Noted(Inner(b0, d0, c, s, noise), c, s)
  BY ONLY b \in BusRec, DevsOK(d), r = decode(b, d, c, s, noise), DecodeFrom
<1> DEFINE byte == ShiftIn(b.currByte, s)
           yes == TRUE
           g == [d0 EXCEPT ![b0.currDevice] = writeByte(@, byte)]
<1>2. /\ Holds(b0, "Data", b.numBits, b.currByte, b.currDevice, b.reading, b.sendAck, b.heard)
      /\ b0.prev_scl = b.prev_scl /\ b0.prev_sda = b.prev_sda /\ SameDevs(d, d0)
  BY <1>1, Zenon DEF Begun, Holds
<1>3. /\ b0.state = "Data" /\ b0.currDevice # NoDevice /\ ~b0.reading
      /\ b0.numBits = b.numBits /\ b0.currByte = b.currByte /\ b0.heard = b.heard
      /\ b0.currDevice = b.currDevice
  BY <1>2, Zenon DEF Holds, Found
<1>4. Inner(b0, d0, c, s, noise) = decode_Data(b0, d0, c, s)
  BY <1>3 DEF Inner
<1>5. decode_Data(b0, d0, c, s) = TakeBit(b0, d0, c, s)
  BY <1>2, <1>3 DEF decode_Data
<1>6. Inner(b0, d0, c, s, noise) =
        IF b.prev_scl \/ ~c THEN Reply(b0, d0, TRUE)
        ELSE IF b.numBits + 1 < 8
        THEN Reply([b0 EXCEPT !.currByte = byte, !.numBits = b0.numBits + 1], d0, TRUE)
        ELSE Reply([b0 EXCEPT !.currByte = byte, !.numBits = 0, !.sendAck = TRUE,
                              !.state = "GotData", !.heard = Append(b0.heard, byte)], g, TRUE)
  BY <1>2, <1>3, <1>4, <1>5, Zenon DEF TakeBit
<1>7. byte \in Byte
  BY BusFieldTypes, ShiftInByte, Zenon
<1> HIDE DEF byte
<1>8. CASE b.prev_scl \/ ~c
  <2>1. Inner(b0, d0, c, s, noise) = Reply(b0, d0, yes)
    BY <1>6, <1>8, Zenon
  <2>2. Out(b0) = yes
    BY <1>3 DEF Out, Found
  <2>3. GivesSame(d, c, s, r, b)
    BY <1>1, <2>1, <2>2, DecodeKeeps, Zenon
  <2> QED
    BY <1>8, <2>3, Zenon
<1>9. CASE ~b.prev_scl /\ c /\ b.numBits + 1 < 8
  <2> DEFINE m == b.numBits + 1
             w == [b0 EXCEPT !.currByte = byte]
             x == [w EXCEPT !.numBits = m]
  <2>1. Inner(b0, d0, c, s, noise) = Reply(x, d0, yes)
    BY <1>3, <1>6, <1>9, Zenon
  <2>2. m \in 0 .. 8
    BY <1>9, NextBits, Zenon
  <2> HIDE DEF m
  <2>3. Holds(w, "Data", b.numBits, byte, b.currDevice, b.reading, b.sendAck, b.heard)
    BY <1>2, <1>7, SetCurrByte, Zenon
  <2> HIDE DEF w
  <2>4. Holds(x, "Data", m, byte, b.currDevice, b.reading, b.sendAck, b.heard)
    BY <2>2, <2>3, SetNumBits, Zenon
  <2> HIDE DEF x
  <2>5. Out(x) = yes
    BY <2>4 DEF Out, Holds, Found
  <2>6. Gives(d, c, s, r, "Data", m, byte, b.currDevice, b.reading, b.sendAck, b.heard)
    BY <1>1, <1>2, <2>1, <2>4, <2>5, DecodeTo, Zenon
  <2> QED
    BY <1>9, <2>6, Zenon DEF m, byte
<1>10. CASE ~b.prev_scl /\ c /\ ~(b.numBits + 1 < 8) /\ b.currDevice \in DOMAIN d
  <2> DEFINE k == Append(b.heard, byte)
             w1 == [b0 EXCEPT !.currByte = byte]
             w2 == [w1 EXCEPT !.numBits = 0]
             w3 == [w2 EXCEPT !.sendAck = yes]
             w4 == [w3 EXCEPT !.state = "GotData"]
             x == [w4 EXCEPT !.heard = k]
  <2>1. Inner(b0, d0, c, s, noise) = Reply(x, g, yes)
    BY <1>3, <1>6, <1>10, Zenon
  <2>2. k \in Seq(Byte)
    BY <1>7, BusFieldTypes
  <2>3. 0 \in 0 .. 8 /\ yes \in BOOLEAN
    BY SMT
  <2>4. SameDevs(d, g)
    <3>1. DevOK(d0[b0.currDevice])
      BY <1>2, <1>3, <1>10, Zenon DEF SameDevs, DevsOK
    <3>2. DevOK(writeByte(d0[b0.currDevice], byte))
      BY <1>7, <3>1, WriteByteType, Zenon
    <3> DEFINE q == writeByte(d0[b0.currDevice], byte)
    <3>3. g = [d0 EXCEPT ![b0.currDevice] = q]
      BY Zenon
    <3> HIDE DEF q
    <3>4. DOMAIN g = DOMAIN d0 /\ \A a \in DOMAIN d0 : g[a] = IF a = b0.currDevice THEN q ELSE d0[a]
      BY ONLY <3>3
    <3> HIDE DEF g
    <3> QED
      BY <1>2, <3>2, <3>4, Zenon DEF SameDevs, DevsOK, q
  <2> HIDE DEF g, k, yes
  <2>5. Holds(w1, "Data", b.numBits, byte, b.currDevice, b.reading, b.sendAck, b.heard)
    BY <1>2, <1>7, SetCurrByte, Zenon
  <2> HIDE DEF w1
  <2>6. Holds(w2, "Data", 0, byte, b.currDevice, b.reading, b.sendAck, b.heard)
    BY <2>3, <2>5, SetNumBits, Zenon
  <2> HIDE DEF w2
  <2>7. Holds(w3, "Data", 0, byte, b.currDevice, b.reading, yes, b.heard)
    BY ONLY <2>3, <2>6, SetSendAck
  <2> HIDE DEF w3
  <2>8. Holds(w4, "GotData", 0, byte, b.currDevice, b.reading, yes, b.heard)
    BY <2>7, StateNames, SetState, Zenon
  <2> HIDE DEF w4
  <2>9. Holds(x, "GotData", 0, byte, b.currDevice, b.reading, yes, k)
    BY <2>2, <2>8, SetHeard, Zenon
  <2> HIDE DEF x
  <2>10. Out(x) = yes
    BY <2>9 DEF Out, Holds, yes
  <2>11. Gives(d, c, s, r, "GotData", 0, byte, b.currDevice, b.reading, yes, k)
    BY <1>1, <2>1, <2>3, <2>4, <2>9, <2>10, DecodeTo, Zenon
  <2> QED
    BY <1>10, <2>11, Zenon DEF k, yes, byte
<1> QED
  BY <1>8, <1>9, <1>10
-----------------------------------------------------------------------------
(* The decoder as the controller drives it. *)

BusOK == /\ bus \in BusRec /\ DevsOK(devs) /\ bus.currDevice \in DOMAIN devs \cup {NoDevice}
         /\ scl \in BOOLEAN /\ sda \in BOOLEAN /\ sda_o \in BOOLEAN
         /\ bus.prev_scl = scl /\ bus.prev_sda = sda
         /\ scl => sda_o = Out(bus)

\* The lines become c and s, and the decoder what follows.
Turns(c, s, st, n, cb, dev, rd, sa, h) ==
    /\ scl' = c /\ sda' = s
    /\ Holds(bus', st, n, cb, dev, rd, sa, h)
    /\ bus'.prev_scl = c /\ bus'.prev_sda = s
    /\ SameDevs(devs, devs') /\ sda_o' \in BOOLEAN
    /\ c => sda_o' = Out(bus')
TurnsSame(c, s) == Turns(c, s, bus.state, bus.numBits, bus.currByte, bus.currDevice,
                         bus.reading, bus.sendAck, bus.heard)
Moved(r, c, s) == scl' = c /\ sda' = s /\ bus' = r.bus /\ devs' = r.devs /\ sda_o' = r.sda_out

LEMMA DriveStill ==
    ASSUME BusOK, NEW c, NEW s, Drive(c, s), c = scl, s = sda
    PROVE  TurnsSame(c, s) /\ sda_o' = sda_o
<1>1. scl' = c /\ sda' = s /\ bus' = bus /\ devs' = devs /\ sda_o' = sda_o
  BY Zenon DEF Drive
<1>2. Holds(bus, bus.state, bus.numBits, bus.currByte, bus.currDevice, bus.reading, bus.sendAck, bus.heard)
  BY HoldsItsFields, Zenon DEF BusOK
<1>3. Out(bus') = Out(bus)
  BY <1>1, Zenon
<1> QED
  BY <1>1, <1>2, <1>3, Zenon DEF BusOK, TurnsSame, Turns, SameDevs

LEMMA DriveDecodes ==
    ASSUME NEW c, NEW s, Drive(c, s), ~(c = scl /\ s = sda)
    PROVE  \E noise \in Byte : \E r : r = decode(bus, devs, c, s, noise) /\ Moved(r, c, s)
<1>1. Noise \subseteq Byte
  BY I2cDriverAssumption
<1>2. PICK noise \in Noise : \E r \in {decode(bus, devs, c, s, noise)} :
               bus' = r.bus /\ devs' = r.devs /\ sda_o' = r.sda_out
  BY Zenon DEF Drive
<1>3. scl' = c /\ sda' = s
  BY Zenon DEF Drive
<1> QED
  BY <1>1, <1>2, <1>3, Zenon DEF Moved

LEMMA TurnsGiven ==
    ASSUME NEW c, NEW s, NEW r, Moved(r, c, s), NEW st, NEW n, NEW cb, NEW dev, NEW rd, NEW sa, NEW h,
           Gives(devs, c, s, r, st, n, cb, dev, rd, sa, h)
    PROVE  Turns(c, s, st, n, cb, dev, rd, sa, h)
<1>1. bus' = r.bus /\ devs' = r.devs /\ sda_o' = r.sda_out /\ scl' = c /\ sda' = s
  BY Zenon DEF Moved
<1>2. /\ r.bus.prev_scl = c /\ r.bus.prev_sda = s
      /\ SameDevs(devs, r.devs) /\ r.sda_out \in BOOLEAN
      /\ c => r.sda_out = Out(r.bus)
      /\ Holds(r.bus, st, n, cb, dev, rd, sa, h)
  BY Zenon DEF Gives, Result
<1>3. Out(bus') = Out(r.bus)
  BY <1>1, Zenon
<1> QED
  BY <1>1, <1>2, <1>3, Zenon DEF Turns

\* Nothing happens on a line that changes while SCL is low.
LEMMA DriveLow ==
    ASSUME BusOK, NEW c \in BOOLEAN, NEW s \in BOOLEAN, Drive(c, s), bus.state # "Idle", ~scl, ~c
    PROVE  TurnsSame(c, s)
<1>0. CASE c = scl /\ s = sda
  BY <1>0, DriveStill, Zenon
<1>1. CASE ~(c = scl /\ s = sda)
  <2>0. PICK noise \in Byte : \E r : r = decode(bus, devs, c, s, noise) /\ Moved(r, c, s)
    BY <1>1, DriveDecodes, Zenon
  <2>1. PICK r : noise \in Byte /\ r = decode(bus, devs, c, s, noise) /\ Moved(r, c, s)
    BY <2>0, Zenon
  <2>2. bus \in BusRec /\ DevsOK(devs) /\ ~bus.prev_scl
    BY Zenon DEF BusOK
  <2>3. GivesSame(devs, c, s, r, bus)
    <3>1. CASE bus.state = "Addr"
      BY <2>1, <2>2, <3>1, DecodeAddr, Zenon
    <3>2. CASE bus.state \in {"GotAddr", "GotData"}
      BY <2>1, <2>2, <3>2, DecodeGot, Zenon
    <3>3. CASE bus.state \in {"SendAckNak", "GotAckNak"}
      BY <2>1, <2>2, <3>3, DecodeAckNak, Zenon
    <3>4. CASE bus.state = "SentData"
      BY <2>1, <2>2, <3>4, DecodeSentData, Zenon
    <3>5. CASE bus.state = "Data"
      <4>1. CASE ~Found(bus)
        BY <2>1, <2>2, <3>5, <4>1, DecodeDeaf, Zenon
      <4>2. CASE Found(bus) /\ bus.reading
        BY <2>1, <2>2, <3>5, <4>2, DecodeSending, Zenon
      <4>3. CASE Found(bus) /\ ~bus.reading
        BY <2>1, <2>2, <3>5, <4>3, DecodeTaking, Zenon
      <4> QED
        BY <4>1, <4>2, <4>3, Zenon
    <3>6. bus.state \in BusStates
      BY <2>2, BusFieldTypes, Zenon
    <3> QED
      BY <3>1, <3>2, <3>3, <3>4, <3>5, <3>6, Zenon DEF BusStates
  <2> QED
    BY <2>1, <2>3, TurnsGiven, Zenon DEF GivesSame, TurnsSame
<1> QED
  BY <1>0, <1>1

\* The same lines tell the decoder nothing.
LEMMA DecodeSame ==
    ASSUME BusOK, NEW noise \in Byte, NEW r, r = decode(bus, devs, scl, sda, noise)
    PROVE  GivesSame(devs, scl, sda, r, bus)
<1>1. /\ bus \in BusRec /\ DevsOK(devs) /\ bus.prev_scl = scl /\ bus.prev_sda = sda
      /\ scl \in BOOLEAN /\ sda \in BOOLEAN
  BY Zenon DEF BusOK
<1>2. CASE bus.state = "Idle"
  BY <1>1, <1>2, DecodeIdle, Zenon
<1>3. CASE bus.state = "Addr"
  BY <1>1, <1>3, DecodeAddr, Zenon
<1>4. CASE bus.state \in {"GotAddr", "GotData"}
  BY <1>1, <1>4, DecodeGot, Zenon
<1>5. CASE bus.state \in {"SendAckNak", "GotAckNak"}
  BY <1>1, <1>5, DecodeAckNak, Zenon
<1>6. CASE bus.state = "SentData"
  BY <1>1, <1>6, DecodeSentData, Zenon
<1>7. CASE bus.state = "Data"
  <2>1. CASE ~Found(bus)
    BY <1>1, <1>7, <2>1, DecodeDeaf, Zenon
  <2>2. CASE Found(bus) /\ bus.reading
    BY <1>1, <1>7, <2>2, DecodeSending, Zenon
  <2>3. CASE Found(bus) /\ ~bus.reading
    BY <1>1, <1>7, <2>3, DecodeTaking, Zenon
  <2> QED
    BY <2>1, <2>2, <2>3, Zenon
<1>8. bus.state \in BusStates
  BY <1>1, BusFieldTypes, Zenon
<1> QED
  BY <1>2, <1>3, <1>4, <1>5, <1>6, <1>7, <1>8, Zenon DEF BusStates
\* A start, and one in the middle of a transaction.
LEMMA DriveStart ==
    ASSUME BusOK, NEW c \in BOOLEAN, NEW s \in BOOLEAN, Drive(c, s),
           bus.state = "Idle", scl, c, sda, ~s
    PROVE  Turns(c, s, "Addr", 0, bus.currByte, bus.currDevice, bus.reading, bus.sendAck, bus.heard)
<1>0. PICK noise \in Byte : \E r : r = decode(bus, devs, c, s, noise) /\ Moved(r, c, s)
  BY DriveDecodes, Zenon
<1>1. PICK r : noise \in Byte /\ r = decode(bus, devs, c, s, noise) /\ Moved(r, c, s)
  BY <1>0, Zenon
<1>2. bus \in BusRec /\ DevsOK(devs) /\ bus.prev_scl = scl /\ bus.prev_sda = sda
  BY Zenon DEF BusOK
<1>3. Gives(devs, c, s, r, "Addr", 0, bus.currByte, bus.currDevice, bus.reading, bus.sendAck, bus.heard)
  BY <1>1, <1>2, DecodeIdle, Zenon
<1> QED
  BY <1>1, <1>3, TurnsGiven, Zenon

LEMMA DriveRestart ==
    ASSUME BusOK, NEW c \in BOOLEAN, NEW s \in BOOLEAN, Drive(c, s),
           bus.state = "Data", scl, c, sda, ~s
    PROVE  Turns(c, s, "Addr", 0, bus.currByte, NoDevice, bus.reading, bus.sendAck, bus.heard)
<1>0. PICK noise \in Byte : \E r : r = decode(bus, devs, c, s, noise) /\ Moved(r, c, s)
  BY DriveDecodes, Zenon
<1>1. PICK r : noise \in Byte /\ r = decode(bus, devs, c, s, noise) /\ Moved(r, c, s)
  BY <1>0, Zenon
<1>2. bus \in BusRec /\ DevsOK(devs) /\ bus.prev_scl = scl /\ bus.prev_sda = sda
  BY Zenon DEF BusOK
<1>3. Gives(devs, c, s, r, "Addr", 0, bus.currByte, NoDevice, bus.reading, bus.sendAck, bus.heard)
  BY <1>1, <1>2, DecodeRestart, Zenon
<1> QED
  BY <1>1, <1>3, TurnsGiven, Zenon

LEMMA DriveStop ==
    ASSUME BusOK, NEW c \in BOOLEAN, NEW s \in BOOLEAN, Drive(c, s),
           bus.state = "Data", scl, c, ~sda, s
    PROVE  Turns(c, s, "Idle", bus.numBits, bus.currByte, NoDevice, bus.reading, bus.sendAck, bus.heard)
<1>0. PICK noise \in Byte : \E r : r = decode(bus, devs, c, s, noise) /\ Moved(r, c, s)
  BY DriveDecodes, Zenon
<1>1. PICK r : noise \in Byte /\ r = decode(bus, devs, c, s, noise) /\ Moved(r, c, s)
  BY <1>0, Zenon
<1>2. bus \in BusRec /\ DevsOK(devs) /\ bus.prev_scl = scl /\ bus.prev_sda = sda
  BY Zenon DEF BusOK
<1>3. Gives(devs, c, s, r, "Idle", bus.numBits, bus.currByte, NoDevice, bus.reading, bus.sendAck, bus.heard)
  BY <1>1, <1>2, DecodeStop, Zenon
<1> QED
  BY <1>1, <1>3, TurnsGiven, Zenon

\* SCL rises on a bit of an address.
LEMMA DriveAddrBit ==
    ASSUME BusOK, NEW c \in BOOLEAN, NEW s \in BOOLEAN, Drive(c, s),
           bus.state = "Addr", ~scl, c, bus.numBits + 1 < 8
    PROVE  Turns(c, s, "Addr", bus.numBits + 1, ShiftIn(bus.currByte, s), bus.currDevice, bus.reading, bus.sendAck, bus.heard)
<1>0. PICK noise \in Byte : \E r : r = decode(bus, devs, c, s, noise) /\ Moved(r, c, s)
  BY DriveDecodes, Zenon
<1>1. PICK r : noise \in Byte /\ r = decode(bus, devs, c, s, noise) /\ Moved(r, c, s)
  BY <1>0, Zenon
<1>2. bus \in BusRec /\ DevsOK(devs) /\ bus.prev_scl = scl /\ bus.prev_sda = sda
  BY Zenon DEF BusOK
<1>3. Gives(devs, c, s, r, "Addr", bus.numBits + 1, ShiftIn(bus.currByte, s), bus.currDevice, bus.reading, bus.sendAck, bus.heard)
  BY <1>1, <1>2, DecodeAddr, Zenon
<1> QED
  BY <1>1, <1>3, TurnsGiven, Zenon

LEMMA DriveAddrLast ==
    ASSUME BusOK, NEW c \in BOOLEAN, NEW s \in BOOLEAN, Drive(c, s),
           bus.state = "Addr", ~scl, c, ~(bus.numBits + 1 < 8)
    PROVE  \E v \in Byte : Turns(c, s, "GotAddr", 0, v, Target(DOMAIN devs, ShiftIn(bus.currByte, s) \div 2),
                 ShiftIn(bus.currByte, s) % 2 = 1, Target(DOMAIN devs, ShiftIn(bus.currByte, s) \div 2) # NoDevice, <<>>)
<1>0. PICK noise \in Byte : \E r : r = decode(bus, devs, c, s, noise) /\ Moved(r, c, s)
  BY DriveDecodes, Zenon
<1>1. PICK r : noise \in Byte /\ r = decode(bus, devs, c, s, noise) /\ Moved(r, c, s)
  BY <1>0, Zenon
<1>2. bus \in BusRec /\ DevsOK(devs) /\ bus.prev_scl = scl /\ bus.prev_sda = sda
  BY Zenon DEF BusOK
<1>3. \E v \in Byte : Gives(devs, c, s, r, "GotAddr", 0, v, Target(DOMAIN devs, ShiftIn(bus.currByte, s) \div 2),
                 ShiftIn(bus.currByte, s) % 2 = 1, Target(DOMAIN devs, ShiftIn(bus.currByte, s) \div 2) # NoDevice, <<>>)
  BY <1>1, <1>2, DecodeAddr, Zenon
<1> QED
  BY <1>1, <1>3, TurnsGiven, Zenon

LEMMA DriveAddrFalls ==
    ASSUME BusOK, NEW c \in BOOLEAN, NEW s \in BOOLEAN, Drive(c, s),
           bus.state = "Addr", scl, ~c
    PROVE  TurnsSame(c, s)
<1>0. PICK noise \in Byte : \E r : r = decode(bus, devs, c, s, noise) /\ Moved(r, c, s)
  BY DriveDecodes, Zenon
<1>1. PICK r : noise \in Byte /\ r = decode(bus, devs, c, s, noise) /\ Moved(r, c, s)
  BY <1>0, Zenon
<1>2. bus \in BusRec /\ DevsOK(devs) /\ bus.prev_scl = scl /\ bus.prev_sda = sda
  BY Zenon DEF BusOK
<1>3. GivesSame(devs, c, s, r, bus)
  BY <1>1, <1>2, DecodeAddr, Zenon
<1> QED
  BY <1>1, <1>3, TurnsGiven, Zenon DEF GivesSame, TurnsSame

\* The acknowledgement.
LEMMA DriveGotFalls ==
    ASSUME BusOK, NEW c \in BOOLEAN, NEW s \in BOOLEAN, Drive(c, s),
           bus.state \in {"GotAddr", "GotData"}, scl, ~c
    PROVE  Turns(c, s, "SendAckNak", bus.numBits, bus.currByte, bus.currDevice, bus.reading, bus.sendAck, bus.heard)
<1>0. PICK noise \in Byte : \E r : r = decode(bus, devs, c, s, noise) /\ Moved(r, c, s)
  BY DriveDecodes, Zenon
<1>1. PICK r : noise \in Byte /\ r = decode(bus, devs, c, s, noise) /\ Moved(r, c, s)
  BY <1>0, Zenon
<1>2. bus \in BusRec /\ DevsOK(devs) /\ bus.prev_scl = scl /\ bus.prev_sda = sda
  BY Zenon DEF BusOK
<1>3. Gives(devs, c, s, r, "SendAckNak", bus.numBits, bus.currByte, bus.currDevice, bus.reading, bus.sendAck, bus.heard)
  BY <1>1, <1>2, DecodeGot, Zenon
<1> QED
  BY <1>1, <1>3, TurnsGiven, Zenon

LEMMA DriveAckRises ==
    ASSUME BusOK, NEW c \in BOOLEAN, NEW s \in BOOLEAN, Drive(c, s),
           bus.state = "SendAckNak", ~scl, c
    PROVE  TurnsSame(c, s)
<1>0. PICK noise \in Byte : \E r : r = decode(bus, devs, c, s, noise) /\ Moved(r, c, s)
  BY DriveDecodes, Zenon
<1>1. PICK r : noise \in Byte /\ r = decode(bus, devs, c, s, noise) /\ Moved(r, c, s)
  BY <1>0, Zenon
<1>2. bus \in BusRec /\ DevsOK(devs) /\ bus.prev_scl = scl /\ bus.prev_sda = sda
  BY Zenon DEF BusOK
<1>3. GivesSame(devs, c, s, r, bus)
  BY <1>1, <1>2, DecodeAckNak, Zenon
<1> QED
  BY <1>1, <1>3, TurnsGiven, Zenon DEF GivesSame, TurnsSame

LEMMA DriveAckFalls ==
    ASSUME BusOK, NEW c \in BOOLEAN, NEW s \in BOOLEAN, Drive(c, s),
           bus.state \in {"SendAckNak", "GotAckNak"}, scl, ~c
    PROVE  Turns(c, s, "Data", bus.numBits, bus.currByte, bus.currDevice, bus.reading, bus.sendAck, bus.heard)
<1>0. PICK noise \in Byte : \E r : r = decode(bus, devs, c, s, noise) /\ Moved(r, c, s)
  BY DriveDecodes, Zenon
<1>1. PICK r : noise \in Byte /\ r = decode(bus, devs, c, s, noise) /\ Moved(r, c, s)
  BY <1>0, Zenon
<1>2. bus \in BusRec /\ DevsOK(devs) /\ bus.prev_scl = scl /\ bus.prev_sda = sda
  BY Zenon DEF BusOK
<1>3. Gives(devs, c, s, r, "Data", bus.numBits, bus.currByte, bus.currDevice, bus.reading, bus.sendAck, bus.heard)
  BY <1>1, <1>2, DecodeAckNak, Zenon
<1> QED
  BY <1>1, <1>3, TurnsGiven, Zenon

\* Nobody listens.
LEMMA DriveDeaf ==
    ASSUME BusOK, NEW c \in BOOLEAN, NEW s \in BOOLEAN, Drive(c, s),
           bus.state = "Data", ~Found(bus), s = sda, ~(c = scl)
    PROVE  TurnsSame(c, s)
<1>0. PICK noise \in Byte : \E r : r = decode(bus, devs, c, s, noise) /\ Moved(r, c, s)
  BY DriveDecodes, Zenon
<1>1. PICK r : noise \in Byte /\ r = decode(bus, devs, c, s, noise) /\ Moved(r, c, s)
  BY <1>0, Zenon
<1>2. bus \in BusRec /\ DevsOK(devs) /\ bus.prev_scl = scl /\ bus.prev_sda = sda
  BY Zenon DEF BusOK
<1>3. GivesSame(devs, c, s, r, bus)
  BY <1>1, <1>2, DecodeDeaf, Zenon
<1> QED
  BY <1>1, <1>3, TurnsGiven, Zenon DEF GivesSame, TurnsSame

\* A device sends.
LEMMA DriveSendRises ==
    ASSUME BusOK, NEW c \in BOOLEAN, NEW s \in BOOLEAN, Drive(c, s),
           bus.state = "Data", Found(bus), bus.reading, ~scl, c, s = sda
    PROVE  TurnsSame(c, s)
<1>0. PICK noise \in Byte : \E r : r = decode(bus, devs, c, s, noise) /\ Moved(r, c, s)
  BY DriveDecodes, Zenon
<1>1. PICK r : noise \in Byte /\ r = decode(bus, devs, c, s, noise) /\ Moved(r, c, s)
  BY <1>0, Zenon
<1>2. bus \in BusRec /\ DevsOK(devs) /\ bus.prev_scl = scl /\ bus.prev_sda = sda
  BY Zenon DEF BusOK
<1>3. GivesSame(devs, c, s, r, bus)
  BY <1>1, <1>2, DecodeSending, Zenon
<1> QED
  BY <1>1, <1>3, TurnsGiven, Zenon DEF GivesSame, TurnsSame

LEMMA DriveSendFalls ==
    ASSUME BusOK, NEW c \in BOOLEAN, NEW s \in BOOLEAN, Drive(c, s),
           bus.state = "Data", Found(bus), bus.reading, scl, ~c, bus.numBits < 8
    PROVE  Turns(c, s, IF bus.numBits + 1 >= 8 THEN "SentData" ELSE "Data", bus.numBits + 1,
                 ShiftIn(bus.currByte, TRUE), bus.currDevice, bus.reading, bus.sendAck, bus.heard)
<1>0. PICK noise \in Byte : \E r : r = decode(bus, devs, c, s, noise) /\ Moved(r, c, s)
  BY DriveDecodes, Zenon
<1>1. PICK r : noise \in Byte /\ r = decode(bus, devs, c, s, noise) /\ Moved(r, c, s)
  BY <1>0, Zenon
<1>2. bus \in BusRec /\ DevsOK(devs) /\ bus.prev_scl = scl /\ bus.prev_sda = sda
  BY Zenon DEF BusOK
<1>3. Gives(devs, c, s, r, IF bus.numBits + 1 >= 8 THEN "SentData" ELSE "Data", bus.numBits + 1,
                 ShiftIn(bus.currByte, TRUE), bus.currDevice, bus.reading, bus.sendAck, bus.heard)
  BY <1>1, <1>2, DecodeSending, Zenon
<1> QED
  BY <1>1, <1>3, TurnsGiven, Zenon

LEMMA DriveSentRises ==
    ASSUME BusOK, NEW c \in BOOLEAN, NEW s \in BOOLEAN, Drive(c, s),
           bus.state = "SentData", bus.currDevice \in DOMAIN devs, ~scl, c
    PROVE  \E v \in Byte : Turns(c, s, "GotAckNak", 0, v, bus.currDevice, bus.reading, bus.sendAck, bus.heard) /\ (s => v = bus.currByte)
<1>0. PICK noise \in Byte : \E r : r = decode(bus, devs, c, s, noise) /\ Moved(r, c, s)
  BY DriveDecodes, Zenon
<1>1. PICK r : noise \in Byte /\ r = decode(bus, devs, c, s, noise) /\ Moved(r, c, s)
  BY <1>0, Zenon
<1>2. bus \in BusRec /\ DevsOK(devs) /\ bus.prev_scl = scl /\ bus.prev_sda = sda
  BY Zenon DEF BusOK
<1>3. \E v \in Byte : Gives(devs, c, s, r, "GotAckNak", 0, v, bus.currDevice, bus.reading, bus.sendAck, bus.heard) /\ (s => v = bus.currByte)
  BY <1>1, <1>2, DecodeSentData, Zenon
<1> QED
  BY <1>1, <1>3, TurnsGiven, Zenon

\* A device takes a bit.
LEMMA DriveTakeBit ==
    ASSUME BusOK, NEW c \in BOOLEAN, NEW s \in BOOLEAN, Drive(c, s),
           bus.state = "Data", Found(bus), ~bus.reading, ~scl, c, s = sda, bus.numBits + 1 < 8
    PROVE  Turns(c, s, "Data", bus.numBits + 1, ShiftIn(bus.currByte, s), bus.currDevice, bus.reading, bus.sendAck, bus.heard)
<1>0. PICK noise \in Byte : \E r : r = decode(bus, devs, c, s, noise) /\ Moved(r, c, s)
  BY DriveDecodes, Zenon
<1>1. PICK r : noise \in Byte /\ r = decode(bus, devs, c, s, noise) /\ Moved(r, c, s)
  BY <1>0, Zenon
<1>2. bus \in BusRec /\ DevsOK(devs) /\ bus.prev_scl = scl /\ bus.prev_sda = sda
  BY Zenon DEF BusOK
<1>3. Gives(devs, c, s, r, "Data", bus.numBits + 1, ShiftIn(bus.currByte, s), bus.currDevice, bus.reading, bus.sendAck, bus.heard)
  BY <1>1, <1>2, DecodeTaking, Zenon
<1> QED
  BY <1>1, <1>3, TurnsGiven, Zenon

LEMMA DriveTakeLast ==
    ASSUME BusOK, NEW c \in BOOLEAN, NEW s \in BOOLEAN, Drive(c, s),
           bus.state = "Data", Found(bus), ~bus.reading, bus.currDevice \in DOMAIN devs, ~scl, c, s = sda,
           ~(bus.numBits + 1 < 8)
    PROVE  Turns(c, s, "GotData", 0, ShiftIn(bus.currByte, s), bus.currDevice, bus.reading, TRUE,
                 Append(bus.heard, ShiftIn(bus.currByte, s)))
<1>0. PICK noise \in Byte : \E r : r = decode(bus, devs, c, s, noise) /\ Moved(r, c, s)
  BY DriveDecodes, Zenon
<1>1. PICK r : noise \in Byte /\ r = decode(bus, devs, c, s, noise) /\ Moved(r, c, s)
  BY <1>0, Zenon
<1>2. bus \in BusRec /\ DevsOK(devs) /\ bus.prev_scl = scl /\ bus.prev_sda = sda
  BY Zenon DEF BusOK
<1>3. Gives(devs, c, s, r, "GotData", 0, ShiftIn(bus.currByte, s), bus.currDevice, bus.reading, TRUE,
                 Append(bus.heard, ShiftIn(bus.currByte, s)))
  BY <1>1, <1>2, DecodeTaking, Zenon
<1> QED
  BY <1>1, <1>3, TurnsGiven, Zenon

LEMMA DriveTakeFalls ==
    ASSUME BusOK, NEW c \in BOOLEAN, NEW s \in BOOLEAN, Drive(c, s),
           bus.state = "Data", Found(bus), ~bus.reading, scl, ~c
    PROVE  TurnsSame(c, s)
<1>0. PICK noise \in Byte : \E r : r = decode(bus, devs, c, s, noise) /\ Moved(r, c, s)
  BY DriveDecodes, Zenon
<1>1. PICK r : noise \in Byte /\ r = decode(bus, devs, c, s, noise) /\ Moved(r, c, s)
  BY <1>0, Zenon
<1>2. bus \in BusRec /\ DevsOK(devs) /\ bus.prev_scl = scl /\ bus.prev_sda = sda
  BY Zenon DEF BusOK
<1>3. GivesSame(devs, c, s, r, bus)
  BY <1>1, <1>2, DecodeTaking, Zenon
<1> QED
  BY <1>1, <1>3, TurnsGiven, Zenon DEF GivesSame, TurnsSame

\* SCL rises between two bytes.
LEMMA DriveDataRises ==
    ASSUME BusOK, NEW c \in BOOLEAN, NEW s \in BOOLEAN, Drive(c, s),
           bus.state = "Data", ~scl, c, s = sda, bus.numBits = 0
    PROVE  \E n \in 0 .. 8, v \in Byte : /\ Turns(c, s, "Data", n, v, bus.currDevice, bus.reading, bus.sendAck, bus.heard)
                                         /\ bus.reading => v = bus.currByte
<1>0. /\ bus.numBits + 1 < 8 /\ bus.numBits \in 0 .. 8 /\ bus.numBits + 1 \in 0 .. 8
      /\ bus.currByte \in Byte /\ ShiftIn(bus.currByte, s) \in Byte
  <2>1. bus \in BusRec
    BY DEF BusOK
  <2>2. bus.currByte \in Byte
    BY <2>1, BusFieldTypes, Zenon
  <2>3. ShiftIn(bus.currByte, s) \in Byte
    BY <2>2, ShiftInByte, Zenon
  <2> QED
    BY <2>2, <2>3
<1>1. CASE ~Found(bus)
  <2>1. TurnsSame(c, s)
    BY <1>1, DriveDeaf, Zenon
  <2> QED
    BY <1>0, <2>1, Zenon DEF TurnsSame
<1>2. CASE Found(bus) /\ bus.reading
  <2>1. TurnsSame(c, s)
    BY <1>2, DriveSendRises, Zenon
  <2> QED
    BY <1>0, <2>1, Zenon DEF TurnsSame
<1>3. CASE Found(bus) /\ ~bus.reading
  <2>1. Turns(c, s, "Data", bus.numBits + 1, ShiftIn(bus.currByte, s), bus.currDevice, bus.reading, bus.sendAck, bus.heard)
    BY <1>0, <1>3, DriveTakeBit, Zenon
  <2> QED
    BY <1>0, <1>3, <2>1, Zenon
<1> QED
  BY <1>1, <1>2, <1>3, Zenon

-----------------------------------------------------------------------------
(* The bits of a byte. *)

\* cb ends in the first n bits of the byte; cb ends in n ones.
Prefix(cb, byte, n) == cb % 2^n = byte \div 2^(8 - n)
Ones(cb, n) == cb % 2^n = 2^n - 1

LEMMA BitPowers ==
    /\ 2^0 = 1 /\ 2^1 = 2 /\ 2^2 = 4 /\ 2^3 = 8 /\ 2^4 = 16
    /\ 2^5 = 32 /\ 2^6 = 64 /\ 2^7 = 128 /\ 2^8 = 256
  BY SMT

LEMMA PrefixNone == ASSUME NEW cb \in Byte, NEW byte \in Byte PROVE Prefix(cb, byte, 0)
<1>1. 8 - 0 = 8 /\ cb % 1 = 0 /\ byte \div 256 = 0
  BY DEF Byte
<1>2. cb % 2^0 = byte \div 2^8
  BY <1>1, BitPowers, SMT
<1> QED
  BY <1>1, <1>2, Zenon DEF Prefix
LEMMA OnesNone == ASSUME NEW cb \in Byte PROVE Ones(cb, 0)
<1>1. cb % 1 = 1 - 1
  BY DEF Byte
<1> QED
  BY <1>1, BitPowers, Zenon DEF Ones
LEMMA PrefixFull == ASSUME NEW cb \in Byte, NEW byte \in Byte, Prefix(cb, byte, 8) PROVE cb = byte
<1>1. cb % 2^8 = byte \div 2^(8 - 8)
  BY Zenon DEF Prefix
<1>2. cb % 256 = byte \div 1
  BY <1>1, BitPowers, SMT
<1> QED
  BY <1>2 DEF Byte
LEMMA OnesFull == ASSUME NEW cb \in Byte, Ones(cb, 8) PROVE cb = 255
<1>1. cb % 2^8 = 2^8 - 1
  BY Zenon DEF Ones
<1>2. cb % 256 = 255
  BY <1>1, BitPowers, SMT
<1> QED
  BY <1>2 DEF Byte

LEMMA PrefixNext ==
    ASSUME NEW cb \in Byte, NEW byte \in Byte, NEW n \in 0 .. 7, Prefix(cb, byte, n)
    PROVE  Prefix(ShiftIn(cb, BitOf(byte, 7 - n)), byte, n + 1)
<1> DEFINE x == IF BitOf(byte, 7 - n) THEN 1 ELSE 0
<1>0. cb % 2^n = byte \div 2^(8 - n) /\ ShiftIn(cb, BitOf(byte, 7 - n)) = (cb * 2 + x) % 256 /\ x \in 0 .. 1
  BY DEF Prefix, ShiftIn
<1>1. CASE n = 0
  <2>1. cb % 1 = byte \div 256
    BY <1>0, <1>1, BitPowers, SMT
  <2>2. 2^(7 - n) = 128
    BY <1>1, BitPowers, SMT
  <2>3. BitOf(byte, 7 - n) = ((byte \div 128) % 2 = 1)
    BY <2>2, SMT DEF BitOf
  <2>4. x = IF (byte \div 128) % 2 = 1 THEN 1 ELSE 0
    BY <2>3, Zenon
  <2> HIDE DEF x
  <2>5. byte \div 128 = 2 * (byte \div 256) + x
    BY <2>4, SMT DEF Byte
  <2>6. ((cb * 2 + x) % 256) % 2 = 2 * (cb % 1) + x
    BY <1>0, SMT DEF Byte
  <2>7. ((cb * 2 + x) % 256) % 2 = byte \div 128
    BY <2>1, <2>5, <2>6, SMT DEF Byte
  <2>8. 2^(n + 1) = 2 /\ 2^(8 - (n + 1)) = 128
    BY <1>1, BitPowers, SMT
  <2> QED
    BY <1>0, <2>7, <2>8, SMT DEF Prefix
<1>2. CASE n = 1
  <2>1. cb % 2 = byte \div 128
    BY <1>0, <1>2, BitPowers, SMT
  <2>2. 2^(7 - n) = 64
    BY <1>2, BitPowers, SMT
  <2>3. BitOf(byte, 7 - n) = ((byte \div 64) % 2 = 1)
    BY <2>2, SMT DEF BitOf
  <2>4. x = IF (byte \div 64) % 2 = 1 THEN 1 ELSE 0
    BY <2>3, Zenon
  <2> HIDE DEF x
  <2>5. byte \div 64 = 2 * (byte \div 128) + x
    BY <2>4, SMT DEF Byte
  <2>6. ((cb * 2 + x) % 256) % 4 = 2 * (cb % 2) + x
    BY <1>0, SMT DEF Byte
  <2>7. ((cb * 2 + x) % 256) % 4 = byte \div 64
    BY <2>1, <2>5, <2>6, SMT DEF Byte
  <2>8. 2^(n + 1) = 4 /\ 2^(8 - (n + 1)) = 64
    BY <1>2, BitPowers, SMT
  <2> QED
    BY <1>0, <2>7, <2>8, SMT DEF Prefix
<1>3. CASE n = 2
  <2>1. cb % 4 = byte \div 64
    BY <1>0, <1>3, BitPowers, SMT
  <2>2. 2^(7 - n) = 32
    BY <1>3, BitPowers, SMT
  <2>3. BitOf(byte, 7 - n) = ((byte \div 32) % 2 = 1)
    BY <2>2, SMT DEF BitOf
  <2>4. x = IF (byte \div 32) % 2 = 1 THEN 1 ELSE 0
    BY <2>3, Zenon
  <2> HIDE DEF x
  <2>5. byte \div 32 = 2 * (byte \div 64) + x
    BY <2>4, SMT DEF Byte
  <2>6. ((cb * 2 + x) % 256) % 8 = 2 * (cb % 4) + x
    BY <1>0, SMT DEF Byte
  <2>7. ((cb * 2 + x) % 256) % 8 = byte \div 32
    BY <2>1, <2>5, <2>6, SMT DEF Byte
  <2>8. 2^(n + 1) = 8 /\ 2^(8 - (n + 1)) = 32
    BY <1>3, BitPowers, SMT
  <2> QED
    BY <1>0, <2>7, <2>8, SMT DEF Prefix
<1>4. CASE n = 3
  <2>1. cb % 8 = byte \div 32
    BY <1>0, <1>4, BitPowers, SMT
  <2>2. 2^(7 - n) = 16
    BY <1>4, BitPowers, SMT
  <2>3. BitOf(byte, 7 - n) = ((byte \div 16) % 2 = 1)
    BY <2>2, SMT DEF BitOf
  <2>4. x = IF (byte \div 16) % 2 = 1 THEN 1 ELSE 0
    BY <2>3, Zenon
  <2> HIDE DEF x
  <2>5. byte \div 16 = 2 * (byte \div 32) + x
    BY <2>4, SMT DEF Byte
  <2>6. ((cb * 2 + x) % 256) % 16 = 2 * (cb % 8) + x
    BY <1>0, SMT DEF Byte
  <2>7. ((cb * 2 + x) % 256) % 16 = byte \div 16
    BY <2>1, <2>5, <2>6, SMT DEF Byte
  <2>8. 2^(n + 1) = 16 /\ 2^(8 - (n + 1)) = 16
    BY <1>4, BitPowers, SMT
  <2> QED
    BY <1>0, <2>7, <2>8, SMT DEF Prefix
<1>5. CASE n = 4
  <2>1. cb % 16 = byte \div 16
    BY <1>0, <1>5, BitPowers, SMT
  <2>2. 2^(7 - n) = 8
    BY <1>5, BitPowers, SMT
  <2>3. BitOf(byte, 7 - n) = ((byte \div 8) % 2 = 1)
    BY <2>2, SMT DEF BitOf
  <2>4. x = IF (byte \div 8) % 2 = 1 THEN 1 ELSE 0
    BY <2>3, Zenon
  <2> HIDE DEF x
  <2>5. byte \div 8 = 2 * (byte \div 16) + x
    BY <2>4, SMT DEF Byte
  <2>6. ((cb * 2 + x) % 256) % 32 = 2 * (cb % 16) + x
    BY <1>0, SMT DEF Byte
  <2>7. ((cb * 2 + x) % 256) % 32 = byte \div 8
    BY <2>1, <2>5, <2>6, SMT DEF Byte
  <2>8. 2^(n + 1) = 32 /\ 2^(8 - (n + 1)) = 8
    BY <1>5, BitPowers, SMT
  <2> QED
    BY <1>0, <2>7, <2>8, SMT DEF Prefix
<1>6. CASE n = 5
  <2>1. cb % 32 = byte \div 8
    BY <1>0, <1>6, BitPowers, SMT
  <2>2. 2^(7 - n) = 4
    BY <1>6, BitPowers, SMT
  <2>3. BitOf(byte, 7 - n) = ((byte \div 4) % 2 = 1)
    BY <2>2, SMT DEF BitOf
  <2>4. x = IF (byte \div 4) % 2 = 1 THEN 1 ELSE 0
    BY <2>3, Zenon
  <2> HIDE DEF x
  <2>5. byte \div 4 = 2 * (byte \div 8) + x
    BY <2>4, SMT DEF Byte
  <2>6. ((cb * 2 + x) % 256) % 64 = 2 * (cb % 32) + x
    BY <1>0, SMT DEF Byte
  <2>7. ((cb * 2 + x) % 256) % 64 = byte \div 4
    BY <2>1, <2>5, <2>6, SMT DEF Byte
  <2>8. 2^(n + 1) = 64 /\ 2^(8 - (n + 1)) = 4
    BY <1>6, BitPowers, SMT
  <2> QED
    BY <1>0, <2>7, <2>8, SMT DEF Prefix
<1>7. CASE n = 6
  <2>1. cb % 64 = byte \div 4
    BY <1>0, <1>7, BitPowers, SMT
  <2>2. 2^(7 - n) = 2
    BY <1>7, BitPowers, SMT
  <2>3. BitOf(byte, 7 - n) = ((byte \div 2) % 2 = 1)
    BY <2>2, SMT DEF BitOf
  <2>4. x = IF (byte \div 2) % 2 = 1 THEN 1 ELSE 0
    BY <2>3, Zenon
  <2> HIDE DEF x
  <2>5. byte \div 2 = 2 * (byte \div 4) + x
    BY <2>4, SMT DEF Byte
  <2>6. ((cb * 2 + x) % 256) % 128 = 2 * (cb % 64) + x
    BY <1>0, SMT DEF Byte
  <2>7. ((cb * 2 + x) % 256) % 128 = byte \div 2
    BY <2>1, <2>5, <2>6, SMT DEF Byte
  <2>8. 2^(n + 1) = 128 /\ 2^(8 - (n + 1)) = 2
    BY <1>7, BitPowers, SMT
  <2> QED
    BY <1>0, <2>7, <2>8, SMT DEF Prefix
<1>8. CASE n = 7
  <2>1. cb % 128 = byte \div 2
    BY <1>0, <1>8, BitPowers, SMT
  <2>2. 2^(7 - n) = 1
    BY <1>8, BitPowers, SMT
  <2>3. BitOf(byte, 7 - n) = ((byte \div 1) % 2 = 1)
    BY <2>2, SMT DEF BitOf
  <2>4. x = IF (byte \div 1) % 2 = 1 THEN 1 ELSE 0
    BY <2>3, Zenon
  <2> HIDE DEF x
  <2>5. byte \div 1 = 2 * (byte \div 2) + x
    BY <2>4, SMT DEF Byte
  <2>6. ((cb * 2 + x) % 256) % 256 = 2 * (cb % 128) + x
    BY <1>0, SMT DEF Byte
  <2>7. ((cb * 2 + x) % 256) % 256 = byte \div 1
    BY <2>1, <2>5, <2>6, SMT DEF Byte
  <2>8. 2^(n + 1) = 256 /\ 2^(8 - (n + 1)) = 1
    BY <1>8, BitPowers, SMT
  <2> QED
    BY <1>0, <2>7, <2>8, SMT DEF Prefix
<1> QED
  BY <1>1, <1>2, <1>3, <1>4, <1>5, <1>6, <1>7, <1>8

LEMMA OnesNext ==
    ASSUME NEW cb \in Byte, NEW n \in 0 .. 7, Ones(cb, n)
    PROVE  Ones(ShiftIn(cb, TRUE), n + 1)
<1>0. cb % 2^n = 2^n - 1 
  BY Zenon DEF Ones
<1> DEFINE z == ShiftIn(cb, TRUE)
<1>9. z = (cb * 2 + 1) % 256
  BY DEF ShiftIn
<1> HIDE DEF z
<1>1. CASE n = 0
  <2>1. cb % 1 = 0
    BY <1>0, <1>1, BitPowers, SMT
  <2>2. ((cb * 2 + 1) % 256) % 2 = 2 * (cb % 1) + 1
    BY SMT DEF Byte
  <2>3. 2^(n + 1) = 2
    BY <1>1, BitPowers, SMT
  <2> QED
    <3>1. z % 2^(n + 1) = 2^(n + 1) - 1
      BY <1>9, <2>1, <2>2, <2>3, SMT
    <3> QED
      BY <3>1, Zenon DEF Ones, z
<1>2. CASE n = 1
  <2>1. cb % 2 = 1
    BY <1>0, <1>2, BitPowers, SMT
  <2>2. ((cb * 2 + 1) % 256) % 4 = 2 * (cb % 2) + 1
    BY SMT DEF Byte
  <2>3. 2^(n + 1) = 4
    BY <1>2, BitPowers, SMT
  <2> QED
    <3>1. z % 2^(n + 1) = 2^(n + 1) - 1
      BY <1>9, <2>1, <2>2, <2>3, SMT
    <3> QED
      BY <3>1, Zenon DEF Ones, z
<1>3. CASE n = 2
  <2>1. cb % 4 = 3
    BY <1>0, <1>3, BitPowers, SMT
  <2>2. ((cb * 2 + 1) % 256) % 8 = 2 * (cb % 4) + 1
    BY SMT DEF Byte
  <2>3. 2^(n + 1) = 8
    BY <1>3, BitPowers, SMT
  <2> QED
    <3>1. z % 2^(n + 1) = 2^(n + 1) - 1
      BY <1>9, <2>1, <2>2, <2>3, SMT
    <3> QED
      BY <3>1, Zenon DEF Ones, z
<1>4. CASE n = 3
  <2>1. cb % 8 = 7
    BY <1>0, <1>4, BitPowers, SMT
  <2>2. ((cb * 2 + 1) % 256) % 16 = 2 * (cb % 8) + 1
    BY SMT DEF Byte
  <2>3. 2^(n + 1) = 16
    BY <1>4, BitPowers, SMT
  <2> QED
    <3>1. z % 2^(n + 1) = 2^(n + 1) - 1
      BY <1>9, <2>1, <2>2, <2>3, SMT
    <3> QED
      BY <3>1, Zenon DEF Ones, z
<1>5. CASE n = 4
  <2>1. cb % 16 = 15
    BY <1>0, <1>5, BitPowers, SMT
  <2>2. ((cb * 2 + 1) % 256) % 32 = 2 * (cb % 16) + 1
    BY SMT DEF Byte
  <2>3. 2^(n + 1) = 32
    BY <1>5, BitPowers, SMT
  <2> QED
    <3>1. z % 2^(n + 1) = 2^(n + 1) - 1
      BY <1>9, <2>1, <2>2, <2>3, SMT
    <3> QED
      BY <3>1, Zenon DEF Ones, z
<1>6. CASE n = 5
  <2>1. cb % 32 = 31
    BY <1>0, <1>6, BitPowers, SMT
  <2>2. ((cb * 2 + 1) % 256) % 64 = 2 * (cb % 32) + 1
    BY SMT DEF Byte
  <2>3. 2^(n + 1) = 64
    BY <1>6, BitPowers, SMT
  <2> QED
    <3>1. z % 2^(n + 1) = 2^(n + 1) - 1
      BY <1>9, <2>1, <2>2, <2>3, SMT
    <3> QED
      BY <3>1, Zenon DEF Ones, z
<1>7. CASE n = 6
  <2>1. cb % 64 = 63
    BY <1>0, <1>7, BitPowers, SMT
  <2>2. ((cb * 2 + 1) % 256) % 128 = 2 * (cb % 64) + 1
    BY SMT DEF Byte
  <2>3. 2^(n + 1) = 128
    BY <1>7, BitPowers, SMT
  <2> QED
    <3>1. z % 2^(n + 1) = 2^(n + 1) - 1
      BY <1>9, <2>1, <2>2, <2>3, SMT
    <3> QED
      BY <3>1, Zenon DEF Ones, z
<1>8. CASE n = 7
  <2>1. cb % 128 = 127
    BY <1>0, <1>8, BitPowers, SMT
  <2>2. ((cb * 2 + 1) % 256) % 256 = 2 * (cb % 128) + 1
    BY SMT DEF Byte
  <2>3. 2^(n + 1) = 256
    BY <1>8, BitPowers, SMT
  <2> QED
    <3>1. z % 2^(n + 1) = 2^(n + 1) - 1
      BY <1>9, <2>1, <2>2, <2>3, SMT
    <3> QED
      BY <3>1, Zenon DEF Ones, z
<1> QED
  <2>1. n \in {0, 1, 2, 3, 4, 5, 6, 7}
    BY SMT
  <2> QED
    BY <1>1, <1>2, <1>3, <1>4, <1>5, <1>6, <1>7, <1>8, <2>1, Zenon
-----------------------------------------------------------------------------
(* The controller and the decoder: where each is in a transaction.  An     *)
(* entry of the FIFO is a start with an address, a byte of data, or a      *)
(* count of bytes to read.                                                 *)

Entries == [byte : Byte, start : BOOLEAN, stop : BOOLEAN, read : BOOLEAN]
Odd(e) == e.byte % 2 = 1
Data(e) == ~e.start /\ ~e.read
\* What the driver may put into the FIFO, and behind an entry.
Sound(e) == ~(e.start /\ e.read) /\ (e.start => ~e.stop)
Follows(e, x) ==
    /\ e.stop \/ e.read => x.start
    /\ e.start /\ Odd(e) => x.read
    /\ e.start /\ ~Odd(e) => Data(x)
    /\ Data(e) => ~x.read
FmtOK(f) ==
    /\ f \in Seq(Entries)
    /\ \A k \in 1 .. Len(f) : Sound(f[k])
    /\ \A k \in 1 .. Len(f) : k < Len(f) => Follows(f[k], f[k + 1])

\* Between two bytes: no transaction, or one in which no bit is under way.
Between(c, b) ==
    IF c.started
    THEN b.state = "Data" /\ b.numBits = 0 /\ (~b.reading /\ Found(b) => b.heard = c.sent)
    ELSE b.state = "Idle"
\* The entry x may be served next.
Ready(c, b, x) ==
    IF ~c.started THEN x.start
    ELSE /\ x.read => b.reading /\ Found(b)
         /\ x.start => Released(b)
         /\ Data(x) => ~b.reading /\ Found(b)
\* What an entry that is done with leaves behind.
Done(c, b, e) ==
    /\ c.started = ~e.stop
    /\ e.start => b.reading = Odd(e) /\ (Found(b) \/ c.nak)
    /\ ~e.start => ~c.nak
    /\ ~e.start /\ ~e.stop => Found(b) /\ b.reading = e.read /\ Released(b)

\* The first n bits of the byte of e have arrived; all of them have.
Arriving(c, b, e, n) ==
    /\ c.started /\ ~e.read /\ ~c.nak
    /\ e.start => b.state = "Addr" /\ c.sent = <<>>
    /\ ~e.start => b.state = "Data" /\ Found(b) /\ ~b.reading /\ b.heard = c.sent
    /\ b.numBits = n /\ Prefix(b.currByte, e.byte, n)
Addressee(b, e, dom) == b.reading = Odd(e) /\ b.currDevice = Target(dom, e.byte \div 2)
Arrived(c, b, e, dom) ==
    /\ c.started /\ ~e.read /\ b.numBits = 0 /\ b.sendAck = Found(b)
    /\ e.start => Addressee(b, e, dom) /\ c.sent = <<>> /\ b.heard = <<>>
    /\ ~e.start => Found(b) /\ ~b.reading
Acking(c, b, e, dom) ==
    /\ ~c.nak /\ Arrived(c, b, e, dom)
    /\ ~e.start => b.heard = Append(c.sent, e.byte)

\* A device sends: the bits that were shifted out have been replaced by ones.
Sending(c, b, e) == c.started /\ ~c.nak /\ e.read /\ b.reading /\ Found(b) /\ c.cnt \in Nat \ {0}
Shifted(b, n) == b.numBits = n /\ Ones(b.currByte, n)
Stopping(c, b, e) == e.stop /\ ~e.start /\ ~c.nak /\ (c.started => b.state = "Data" /\ Released(b))

\* Where the decoder is in each state of the controller, which serves e.
Phase(c, b, e, dom) ==
    CASE c.st = "Idle" -> Between(c, b)
      [] c.st = "Active" -> ~c.nak /\ Between(c, b) /\ Ready(c, b, e)
      [] c.st = "SetupStart" -> /\ e.start /\ ~c.nak
                                /\ b.state = (IF c.started THEN "Data" ELSE "Idle")
                                /\ c.started => Released(b)
      [] c.st \in {"HoldStart", "ClockStart"} -> ~c.pend /\ e.start /\ Arriving(c, b, e, 0)
      [] c.st = "ClockLow" -> IF c.pend
                              THEN e.start /\ ~c.nak /\ c.started /\ Between(c, b) /\ Released(b)
                              ELSE Arriving(c, b, e, 7 - c.bit)
      [] c.st \in {"ClockPulse", "HoldBit"} ->
            /\ ~c.pend
            /\ IF c.bit > 0 THEN Arriving(c, b, e, 8 - c.bit)
               ELSE /\ Acking(c, b, e, dom)
                    /\ IF c.st = "HoldBit" THEN b.state = "SendAckNak"
                       ELSE b.state \in {"GotAddr", "GotData"}
      [] c.st \in {"ClockLowAck", "ClockPulseAck"} -> Acking(c, b, e, dom) /\ b.state = "SendAckNak"
      [] c.st = "HoldDevAck" -> /\ Arrived(c, b, e, dom) /\ b.state = "Data" /\ b.heard = c.sent
                                /\ c.nak = ~Found(b)
      [] c.st = "PopFmtFifo" -> /\ Between(c, b) /\ Done(c, b, e)
                                /\ e.start => Addressee(b, e, dom)
      [] c.st = "ClockStop" -> c.started /\ Stopping(c, b, e) /\ b.numBits = 0
      [] c.st = "SetupStop" -> c.started /\ Stopping(c, b, e)
      [] c.st = "HoldStop" -> e.stop /\ ~e.start /\ ~c.nak /\ b.state = "Idle"
      [] c.st \in {"ReadClockLow", "ReadClockPulse"} ->
            Sending(c, b, e) /\ b.state = "Data" /\ Shifted(b, 7 - c.bit)
      [] c.st = "ReadHoldBit" ->
            Sending(c, b, e) /\ b.state = (IF c.bit = 0 THEN "SentData" ELSE "Data") /\ Shifted(b, 8 - c.bit)
      [] c.st = "HostClockLowAck" -> c.bit = 7 /\ Sending(c, b, e) /\ b.state = "SentData" /\ Shifted(b, 8)
      [] c.st = "HostClockPulseAck" ->
            c.bit = 7 /\ Sending(c, b, e) /\ b.numBits = 0 /\ b.state = "GotAckNak" /\ (c.cnt = 1 => Spent(b))
      [] c.st = "HostHoldBitAck" ->
            c.bit = 7 /\ Sending(c, b, e) /\ b.numBits = 0 /\ b.state = "Data" /\ (c.cnt = 1 => Spent(b))

CtlStates == {"Idle", "Active", "SetupStart", "HoldStart", "ClockStart", "ClockLow", "ClockPulse",
              "HoldBit", "ClockLowAck", "ClockPulseAck", "HoldDevAck", "ReadClockLow", "ReadClockPulse",
              "ReadHoldBit", "HostClockLowAck", "HostClockPulseAck", "HostHoldBitAck", "ClockStop",
              "SetupStop", "HoldStop", "PopFmtFifo"}
CtlRec == [st : CtlStates, bit : 0 .. 7, cnt : Nat, byte : Byte, started : BOOLEAN,
           pend : BOOLEAN, nak : BOOLEAN, sent : Seq(Byte)]
WireOK ==
    /\ ctl \in CtlRec /\ BusOK
    /\ scl = SclOf(ctl, fmt) /\ sda = SdaOf(ctl, fmt)
    /\ FmtOK(fmt) /\ (ctl.st # "Idle" => fmt # <<>>)
    /\ Phase(ctl, bus, Head(fmt), DOMAIN devs)
    /\ ctl.st = "Idle" /\ fmt # <<>> /\ ~ctl.nak => Ready(ctl, bus, Head(fmt))
    /\ ctl.nak => ~Found(bus) /\ ctl.started

\* The fields of the controller.
Has(x, st, bit, cnt, byte, on, pend, nak, sent) ==
    /\ x \in CtlRec /\ x.st = st /\ x.bit = bit /\ x.cnt = cnt /\ x.byte = byte
    /\ x.started = on /\ x.pend = pend /\ x.nak = nak /\ x.sent = sent

LEMMA HasItsFields ==
    ASSUME NEW x \in CtlRec
    PROVE  Has(x, x.st, x.bit, x.cnt, x.byte, x.started, x.pend, x.nak, x.sent)
  BY Zenon DEF Has

LEMMA CtlFieldTypes ==
    ASSUME NEW x \in CtlRec
    PROVE  /\ x.st \in CtlStates /\ x.bit \in 0 .. 7 /\ x.cnt \in Nat /\ x.byte \in Byte
           /\ x.started \in BOOLEAN /\ x.pend \in BOOLEAN /\ x.nak \in BOOLEAN /\ x.sent \in Seq(Byte)
  BY DEF CtlRec

LEMMA CtlSt ==
    ASSUME NEW x, NEW st, NEW bit, NEW cnt, NEW byte, NEW on, NEW pend, NEW nak, NEW sent,
           Has(x, st, bit, cnt, byte, on, pend, nak, sent), NEW v \in CtlStates
    PROVE  Has([x EXCEPT !.st = v], v, bit, cnt, byte, on, pend, nak, sent)
<1> DEFINE z == [x EXCEPT !.st = v]
<1>1. z \in CtlRec
  BY DEF Has, CtlRec
<1>2. z.st = v
  BY DEF Has, CtlRec
<1>3. z.bit = x.bit /\ z.cnt = x.cnt /\ z.byte = x.byte /\ z.started = x.started /\ z.pend = x.pend /\ z.nak = x.nak /\ z.sent = x.sent
  BY DEF Has, CtlRec
<1> HIDE DEF z
<1>4. Has(z, v, bit, cnt, byte, on, pend, nak, sent)
  BY <1>1, <1>2, <1>3, Zenon DEF Has
<1> QED
  BY <1>4 DEF z

LEMMA CtlBit ==
    ASSUME NEW x, NEW st, NEW bit, NEW cnt, NEW byte, NEW on, NEW pend, NEW nak, NEW sent,
           Has(x, st, bit, cnt, byte, on, pend, nak, sent), NEW v \in 0 .. 7
    PROVE  Has([x EXCEPT !.bit = v], st, v, cnt, byte, on, pend, nak, sent)
<1> DEFINE z == [x EXCEPT !.bit = v]
<1>1. z \in CtlRec
  BY DEF Has, CtlRec
<1>2. z.bit = v
  BY DEF Has, CtlRec
<1>3. z.st = x.st /\ z.cnt = x.cnt /\ z.byte = x.byte /\ z.started = x.started /\ z.pend = x.pend /\ z.nak = x.nak /\ z.sent = x.sent
  BY DEF Has, CtlRec
<1> HIDE DEF z
<1>4. Has(z, st, v, cnt, byte, on, pend, nak, sent)
  BY <1>1, <1>2, <1>3, Zenon DEF Has
<1> QED
  BY <1>4 DEF z

LEMMA CtlCnt ==
    ASSUME NEW x, NEW st, NEW bit, NEW cnt, NEW byte, NEW on, NEW pend, NEW nak, NEW sent,
           Has(x, st, bit, cnt, byte, on, pend, nak, sent), NEW v \in Nat
    PROVE  Has([x EXCEPT !.cnt = v], st, bit, v, byte, on, pend, nak, sent)
<1> DEFINE z == [x EXCEPT !.cnt = v]
<1>1. z \in CtlRec
  BY DEF Has, CtlRec
<1>2. z.cnt = v
  BY DEF Has, CtlRec
<1>3. z.st = x.st /\ z.bit = x.bit /\ z.byte = x.byte /\ z.started = x.started /\ z.pend = x.pend /\ z.nak = x.nak /\ z.sent = x.sent
  BY DEF Has, CtlRec
<1> HIDE DEF z
<1>4. Has(z, st, bit, v, byte, on, pend, nak, sent)
  BY <1>1, <1>2, <1>3, Zenon DEF Has
<1> QED
  BY <1>4 DEF z

LEMMA CtlByte ==
    ASSUME NEW x, NEW st, NEW bit, NEW cnt, NEW byte, NEW on, NEW pend, NEW nak, NEW sent,
           Has(x, st, bit, cnt, byte, on, pend, nak, sent), NEW v \in Byte
    PROVE  Has([x EXCEPT !.byte = v], st, bit, cnt, v, on, pend, nak, sent)
<1> DEFINE z == [x EXCEPT !.byte = v]
<1>1. z \in CtlRec
  BY DEF Has, CtlRec
<1>2. z.byte = v
  BY DEF Has, CtlRec
<1>3. z.st = x.st /\ z.bit = x.bit /\ z.cnt = x.cnt /\ z.started = x.started /\ z.pend = x.pend /\ z.nak = x.nak /\ z.sent = x.sent
  BY DEF Has, CtlRec
<1> HIDE DEF z
<1>4. Has(z, st, bit, cnt, v, on, pend, nak, sent)
  BY <1>1, <1>2, <1>3, Zenon DEF Has
<1> QED
  BY <1>4 DEF z

LEMMA CtlStarted ==
    ASSUME NEW x, NEW st, NEW bit, NEW cnt, NEW byte, NEW on, NEW pend, NEW nak, NEW sent,
           Has(x, st, bit, cnt, byte, on, pend, nak, sent), NEW v \in BOOLEAN
    PROVE  Has([x EXCEPT !.started = v], st, bit, cnt, byte, v, pend, nak, sent)
<1> DEFINE z == [x EXCEPT !.started = v]
<1>1. z \in CtlRec
  BY DEF Has, CtlRec
<1>2. z.started = v
  BY DEF Has, CtlRec
<1>3. z.st = x.st /\ z.bit = x.bit /\ z.cnt = x.cnt /\ z.byte = x.byte /\ z.pend = x.pend /\ z.nak = x.nak /\ z.sent = x.sent
  BY DEF Has, CtlRec
<1> HIDE DEF z
<1>4. Has(z, st, bit, cnt, byte, v, pend, nak, sent)
  BY <1>1, <1>2, <1>3, Zenon DEF Has
<1> QED
  BY <1>4 DEF z

LEMMA CtlPend ==
    ASSUME NEW x, NEW st, NEW bit, NEW cnt, NEW byte, NEW on, NEW pend, NEW nak, NEW sent,
           Has(x, st, bit, cnt, byte, on, pend, nak, sent), NEW v \in BOOLEAN
    PROVE  Has([x EXCEPT !.pend = v], st, bit, cnt, byte, on, v, nak, sent)
<1> DEFINE z == [x EXCEPT !.pend = v]
<1>1. z \in CtlRec
  BY DEF Has, CtlRec
<1>2. z.pend = v
  BY DEF Has, CtlRec
<1>3. z.st = x.st /\ z.bit = x.bit /\ z.cnt = x.cnt /\ z.byte = x.byte /\ z.started = x.started /\ z.nak = x.nak /\ z.sent = x.sent
  BY DEF Has, CtlRec
<1> HIDE DEF z
<1>4. Has(z, st, bit, cnt, byte, on, v, nak, sent)
  BY <1>1, <1>2, <1>3, Zenon DEF Has
<1> QED
  BY <1>4 DEF z

LEMMA CtlNak ==
    ASSUME NEW x, NEW st, NEW bit, NEW cnt, NEW byte, NEW on, NEW pend, NEW nak, NEW sent,
           Has(x, st, bit, cnt, byte, on, pend, nak, sent), NEW v \in BOOLEAN
    PROVE  Has([x EXCEPT !.nak = v], st, bit, cnt, byte, on, pend, v, sent)
<1> DEFINE z == [x EXCEPT !.nak = v]
<1>1. z \in CtlRec
  BY DEF Has, CtlRec
<1>2. z.nak = v
  BY DEF Has, CtlRec
<1>3. z.st = x.st /\ z.bit = x.bit /\ z.cnt = x.cnt /\ z.byte = x.byte /\ z.started = x.started /\ z.pend = x.pend /\ z.sent = x.sent
  BY DEF Has, CtlRec
<1> HIDE DEF z
<1>4. Has(z, st, bit, cnt, byte, on, pend, v, sent)
  BY <1>1, <1>2, <1>3, Zenon DEF Has
<1> QED
  BY <1>4 DEF z

LEMMA CtlSent ==
    ASSUME NEW x, NEW st, NEW bit, NEW cnt, NEW byte, NEW on, NEW pend, NEW nak, NEW sent,
           Has(x, st, bit, cnt, byte, on, pend, nak, sent), NEW v \in Seq(Byte)
    PROVE  Has([x EXCEPT !.sent = v], st, bit, cnt, byte, on, pend, nak, v)
<1> DEFINE z == [x EXCEPT !.sent = v]
<1>1. z \in CtlRec
  BY DEF Has, CtlRec
<1>2. z.sent = v
  BY DEF Has, CtlRec
<1>3. z.st = x.st /\ z.bit = x.bit /\ z.cnt = x.cnt /\ z.byte = x.byte /\ z.started = x.started /\ z.pend = x.pend /\ z.nak = x.nak
  BY DEF Has, CtlRec
<1> HIDE DEF z
<1>4. Has(z, st, bit, cnt, byte, on, pend, nak, v)
  BY <1>1, <1>2, <1>3, Zenon DEF Has
<1> QED
  BY <1>4 DEF z

LEMMA HeadEntry ==
    ASSUME NEW f, FmtOK(f), f # <<>>
    PROVE  Head(f) \in Entries /\ Sound(Head(f)) /\ Head(f) = f[1] /\ Len(f) \in Nat \ {0}
<1>1. f \in Seq(Entries)
  BY DEF FmtOK
<1>2. Len(f) \in Nat \ {0} /\ Head(f) = f[1] /\ 1 \in 1 .. Len(f) /\ f[1] \in Entries
  BY <1>1
<1> QED
  BY <1>2, Zenon DEF FmtOK

LEMMA EntryFields ==
    ASSUME NEW e \in Entries
    PROVE  e.byte \in Byte /\ e.start \in BOOLEAN /\ e.stop \in BOOLEAN /\ e.read \in BOOLEAN
  BY DEF Entries

LEMMA LinesBoolean ==
    ASSUME NEW c \in CtlRec, NEW f, c.st # "Idle" => Head(f) \in Entries
    PROVE  SclOf(c, f) \in BOOLEAN /\ SdaOf(c, f) \in BOOLEAN
<1>1. c.started \in BOOLEAN /\ c.pend \in BOOLEAN
  BY CtlFieldTypes, Zenon
<1>2. c.st # "Idle" => Head(f).start \in BOOLEAN /\ Head(f).stop \in BOOLEAN
  BY EntryFields, Zenon
<1>3. SclOf(c, f) \in BOOLEAN
  <2>1. CASE c.st = "Idle"
    <3>1. SclOf(c, f) = ~c.started
      BY <2>1 DEF SclOf
    <3> QED
      BY <1>1, <3>1, Zenon
  <2>2. CASE c.st = "Active"
    <3>1. SclOf(c, f) = (Head(f).start /\ ~c.started)
      BY <2>2 DEF SclOf
    <3> QED
      BY <1>1, <1>2, <2>2, <3>1, Zenon
  <2>3. CASE c.st = "PopFmtFifo"
    <3>1. SclOf(c, f) = Head(f).stop
      BY <2>3 DEF SclOf
    <3>2. c.st # "Idle"
      BY <2>3
    <3> QED
      BY <1>2, <3>1, <3>2, Zenon
  <2>4. CASE c.st \notin {"Idle", "Active", "PopFmtFifo"}
    <3>1. SclOf(c, f) = (c.st \in {"SetupStart", "HoldStart", "ClockPulse", "ClockPulseAck",
                                   "ReadClockPulse", "HostClockPulseAck", "SetupStop", "HoldStop"})
      BY <2>4 DEF SclOf
    <3> QED
      BY <3>1
  <2> QED
    BY <2>1, <2>2, <2>3, <2>4
<1>4. SdaOf(c, f) \in BOOLEAN
  BY <1>1 DEF SdaOf, BitOf
<1> QED
  BY <1>3, <1>4
\* The driver.  What it has put into the FIFO last, and the same when that has
\* been served.
Last1(d, x) ==
    /\ d.pc = "write_bytes" => ~x.read /\ ~x.stop /\ (x.start => ~Odd(x))
    /\ d.pc = "read_addr" => x.start /\ x.byte = d.op.addr * 2 + 1
    /\ d.pc \notin {"write_bytes", "read_addr"} => ~x.start
Served(d, c, b, dom) ==
    /\ d.pc = "write_bytes" => c.started /\ ~b.reading /\ (Found(b) \/ c.nak)
    /\ d.pc \in {"read_addr", "read_nak", "read_len"} =>
          /\ c.started /\ b.reading /\ b.currDevice = Target(dom, d.op.addr)
          /\ c.nak = ~Found(b)
    /\ d.pc = "read_len" => ~c.nak
    /\ d.pc \notin {"write_bytes", "read_addr", "read_nak", "read_len"} => ~c.nak /\ (c.started => Released(b))

Ops == [call : {"write", "read"}, addr : 0 .. 128, data : Seq(Byte), skip : BOOLEAN, n : Nat]
\* A call of a program: a write has data; the device may be missing.
OpOK(op) ==
    /\ op \in Ops /\ op.addr < 128
    /\ op.call = "write" => op.n = Len(op.data) /\ op.n > 0
WritePcs == {"write_fmt", "write_bytes", "write_check"}
ReadPcs == {"read_fmt", "read_addr", "read_nak", "read_len", "read_data", "read_drain"}
Pcs == {"boot", "idle", "returned", "stopped"} \cup WritePcs \cup ReadPcs
DrvRec == [pc : Pcs, op : Ops, k : Nat, n : Nat, chunk : Nat, rc : {0, -1},
           buf : Seq(Byte), reg : Seq(Byte)]
\* Where the driver is in a call, and what the FIFO holds of it.
CallAt(d, dom) ==
    /\ d.pc \in {"returned"} \cup WritePcs \cup ReadPcs => OpOK(d.op)
    /\ d.pc \in WritePcs => d.op.call = "write"
    /\ d.pc \in ReadPcs => d.op.call = "read"
    /\ d.pc = "write_fmt" => d.k = 1
    /\ d.pc = "write_bytes" => 1 <= d.k /\ d.k <= d.op.n
    /\ d.pc \in {"read_data", "read_drain"} => d.op.addr \in dom
FifoAt(d, c, b, f, dom) ==
    /\ f # <<>> => Last1(d, f[Len(f)])
    /\ d.pc \in {"read_nak", "read_len"} => f = <<>>
    /\ f = <<>> => Served(d, c, b, dom)
ScriptOK(s) == s \in Seq(Ops) /\ (\A k \in 1 .. Len(s) : OpOK(s[k]))
DriverOK ==
    /\ drv \in DrvRec /\ rx \in Seq(Byte) /\ timeouts \in Nat /\ resets \in Nat
    /\ id \in BusIds /\ ScriptOK(script)
    /\ CallAt(drv, DOMAIN devs) /\ FifoAt(drv, ctl, bus, fmt, DOMAIN devs)
    /\ OnlyReadsReportAbsence
I2cInv == WireOK /\ DriverOK

-----------------------------------------------------------------------------
(* The steps of the controller. *)

LEMMA NextIdle ==
    ASSUME NEW c, NEW f, NEW line, c.st = "Idle"
    PROVE  CtlNext(c, f, line) =
             CtlGo(c, "Active")
  BY Zenon DEF CtlNext

LEMMA NextActive ==
    ASSUME NEW c, NEW f, NEW line, c.st = "Active"
    PROVE  CtlNext(c, f, line) =
             IF Head(f).read THEN [c EXCEPT !.st = "ReadClockLow", !.bit = 7,
                                         !.cnt = IF Head(f).byte = 0 THEN 256 ELSE Head(f).byte]
             ELSE IF Head(f).start /\ ~c.started THEN CtlGo(c, "SetupStart")
             ELSE [c EXCEPT !.st = "ClockLow", !.pend = Head(f).start, !.bit = 7]
  BY Zenon DEF CtlNext

LEMMA NextSetupStart ==
    ASSUME NEW c, NEW f, NEW line, c.st = "SetupStart"
    PROVE  CtlNext(c, f, line) =
             [c EXCEPT !.st = "HoldStart", !.started = TRUE, !.pend = FALSE, !.sent = <<>>]
  BY Zenon DEF CtlNext

LEMMA NextHoldStart ==
    ASSUME NEW c, NEW f, NEW line, c.st = "HoldStart"
    PROVE  CtlNext(c, f, line) =
             CtlGo(c, "ClockStart")
  BY Zenon DEF CtlNext

LEMMA NextClockStart ==
    ASSUME NEW c, NEW f, NEW line, c.st = "ClockStart"
    PROVE  CtlNext(c, f, line) =
             [c EXCEPT !.st = "ClockLow", !.bit = 7]
  BY Zenon DEF CtlNext

LEMMA NextClockLow ==
    ASSUME NEW c, NEW f, NEW line, c.st = "ClockLow"
    PROVE  CtlNext(c, f, line) =
             CtlGo(c, IF c.pend THEN "SetupStart" ELSE "ClockPulse")
  BY Zenon DEF CtlNext

LEMMA NextClockPulse ==
    ASSUME NEW c, NEW f, NEW line, c.st = "ClockPulse"
    PROVE  CtlNext(c, f, line) =
             CtlGo(c, "HoldBit")
  BY Zenon DEF CtlNext

LEMMA NextHoldBit ==
    ASSUME NEW c, NEW f, NEW line, c.st = "HoldBit"
    PROVE  CtlNext(c, f, line) =
             IF c.bit = 0 THEN CtlGo(c, "ClockLowAck") ELSE [c EXCEPT !.st = "ClockLow", !.bit = c.bit - 1]
  BY Zenon DEF CtlNext

LEMMA NextClockLowAck ==
    ASSUME NEW c, NEW f, NEW line, c.st = "ClockLowAck"
    PROVE  CtlNext(c, f, line) =
             CtlGo(c, "ClockPulseAck")
  BY Zenon DEF CtlNext

LEMMA NextHoldDevAck ==
    ASSUME NEW c, NEW f, NEW line, c.st = "HoldDevAck"
    PROVE  CtlNext(c, f, line) =
             AfterLast(c, Head(f))
  BY Zenon DEF CtlNext

LEMMA NextReadClockLow ==
    ASSUME NEW c, NEW f, NEW line, c.st = "ReadClockLow"
    PROVE  CtlNext(c, f, line) =
             CtlGo(c, "ReadClockPulse")
  BY Zenon DEF CtlNext

LEMMA NextReadClockPulse ==
    ASSUME NEW c, NEW f, NEW line, c.st = "ReadClockPulse"
    PROVE  CtlNext(c, f, line) =
             [c EXCEPT !.st = "ReadHoldBit", !.byte = ShiftIn(c.byte, line)]
  BY Zenon DEF CtlNext

LEMMA NextReadHoldBit ==
    ASSUME NEW c, NEW f, NEW line, c.st = "ReadHoldBit"
    PROVE  CtlNext(c, f, line) =
             IF c.bit = 0 THEN [c EXCEPT !.st = "HostClockLowAck", !.bit = 7]
             ELSE [c EXCEPT !.st = "ReadClockLow", !.bit = c.bit - 1]
  BY Zenon DEF CtlNext

LEMMA NextHostClockLowAck ==
    ASSUME NEW c, NEW f, NEW line, c.st = "HostClockLowAck"
    PROVE  CtlNext(c, f, line) =
             CtlGo(c, "HostClockPulseAck")
  BY Zenon DEF CtlNext

LEMMA NextHostClockPulseAck ==
    ASSUME NEW c, NEW f, NEW line, c.st = "HostClockPulseAck"
    PROVE  CtlNext(c, f, line) =
             CtlGo(c, "HostHoldBitAck")
  BY Zenon DEF CtlNext

LEMMA NextHostHoldBitAck ==
    ASSUME NEW c, NEW f, NEW line, c.st = "HostHoldBitAck"
    PROVE  CtlNext(c, f, line) =
             IF c.cnt = 1 THEN AfterLast(c, Head(f))
             ELSE [c EXCEPT !.st = "ReadClockLow", !.cnt = c.cnt - 1]
  BY Zenon DEF CtlNext

LEMMA NextClockStop ==
    ASSUME NEW c, NEW f, NEW line, c.st = "ClockStop"
    PROVE  CtlNext(c, f, line) =
             CtlGo(c, "SetupStop")
  BY Zenon DEF CtlNext

LEMMA NextSetupStop ==
    ASSUME NEW c, NEW f, NEW line, c.st = "SetupStop"
    PROVE  CtlNext(c, f, line) =
             CtlGo(c, "HoldStop")
  BY Zenon DEF CtlNext

LEMMA NextHoldStop ==
    ASSUME NEW c, NEW f, NEW line, c.st = "HoldStop"
    PROVE  CtlNext(c, f, line) =
             [c EXCEPT !.st = "PopFmtFifo", !.started = FALSE]
  BY Zenon DEF CtlNext

LEMMA NextPopFmtFifo ==
    ASSUME NEW c, NEW f, NEW line, c.st = "PopFmtFifo"
    PROVE  CtlNext(c, f, line) =
             CtlGo(c, IF Len(f) = 1 \/ c.nak \/ ~c.started THEN "Idle" ELSE "Active")
  BY Zenon DEF CtlNext

LEMMA LineIdle ==
    ASSUME NEW c, NEW f, c.st = "Idle"
    PROVE  SclOf(c, f) = ~c.started /\ SdaOf(c, f)
<1>1. SclOf(c, f) = ~c.started
  BY DEF SclOf
<1>2. SdaOf(c, f)
  BY DEF SdaOf
<1> QED
  BY <1>1, <1>2, Zenon

LEMMA LineActive ==
    ASSUME NEW c, NEW f, c.st = "Active"
    PROVE  SclOf(c, f) = (Head(f).start /\ ~c.started) /\ SdaOf(c, f)
<1>1. SclOf(c, f) = (Head(f).start /\ ~c.started)
  BY DEF SclOf
<1>2. SdaOf(c, f)
  BY DEF SdaOf
<1> QED
  BY <1>1, <1>2, Zenon

LEMMA LineSetupStart ==
    ASSUME NEW c, NEW f, c.st = "SetupStart"
    PROVE  SclOf(c, f) /\ SdaOf(c, f)
<1>1. SclOf(c, f)
  BY DEF SclOf
<1>2. SdaOf(c, f)
  BY DEF SdaOf
<1> QED
  BY <1>1, <1>2, Zenon

LEMMA LineHoldStart ==
    ASSUME NEW c, NEW f, c.st = "HoldStart"
    PROVE  SclOf(c, f) /\ ~SdaOf(c, f)
<1>1. SclOf(c, f)
  BY DEF SclOf
<1>2. ~SdaOf(c, f)
  BY DEF SdaOf
<1> QED
  BY <1>1, <1>2, Zenon

LEMMA LineClockStart ==
    ASSUME NEW c, NEW f, c.st = "ClockStart"
    PROVE  ~SclOf(c, f) /\ ~SdaOf(c, f)
<1>1. ~SclOf(c, f)
  BY DEF SclOf
<1>2. ~SdaOf(c, f)
  BY DEF SdaOf
<1> QED
  BY <1>1, <1>2, Zenon

LEMMA LineClockLow ==
    ASSUME NEW c, NEW f, c.st = "ClockLow"
    PROVE  ~SclOf(c, f) /\ SdaOf(c, f) = (c.pend \/ BitOf(Head(f).byte, c.bit))
<1>1. ~SclOf(c, f)
  BY DEF SclOf
<1>2. SdaOf(c, f) = (c.pend \/ BitOf(Head(f).byte, c.bit))
  BY DEF SdaOf
<1> QED
  BY <1>1, <1>2, Zenon

LEMMA LineClockPulse ==
    ASSUME NEW c, NEW f, c.st = "ClockPulse"
    PROVE  SclOf(c, f) /\ SdaOf(c, f) = BitOf(Head(f).byte, c.bit)
<1>1. SclOf(c, f)
  BY DEF SclOf
<1>2. SdaOf(c, f) = BitOf(Head(f).byte, c.bit)
  BY DEF SdaOf
<1> QED
  BY <1>1, <1>2, Zenon

LEMMA LineHoldBit ==
    ASSUME NEW c, NEW f, c.st = "HoldBit"
    PROVE  ~SclOf(c, f) /\ SdaOf(c, f) = BitOf(Head(f).byte, c.bit)
<1>1. ~SclOf(c, f)
  BY DEF SclOf
<1>2. SdaOf(c, f) = BitOf(Head(f).byte, c.bit)
  BY DEF SdaOf
<1> QED
  BY <1>1, <1>2, Zenon

LEMMA LineClockLowAck ==
    ASSUME NEW c, NEW f, c.st = "ClockLowAck"
    PROVE  ~SclOf(c, f) /\ SdaOf(c, f)
<1>1. ~SclOf(c, f)
  BY DEF SclOf
<1>2. SdaOf(c, f)
  BY DEF SdaOf
<1> QED
  BY <1>1, <1>2, Zenon

LEMMA LineClockPulseAck ==
    ASSUME NEW c, NEW f, c.st = "ClockPulseAck"
    PROVE  SclOf(c, f) /\ SdaOf(c, f)
<1>1. SclOf(c, f)
  BY DEF SclOf
<1>2. SdaOf(c, f)
  BY DEF SdaOf
<1> QED
  BY <1>1, <1>2, Zenon

LEMMA LineHoldDevAck ==
    ASSUME NEW c, NEW f, c.st = "HoldDevAck"
    PROVE  ~SclOf(c, f) /\ SdaOf(c, f)
<1>1. ~SclOf(c, f)
  BY DEF SclOf
<1>2. SdaOf(c, f)
  BY DEF SdaOf
<1> QED
  BY <1>1, <1>2, Zenon

LEMMA LinePopFmtFifo ==
    ASSUME NEW c, NEW f, c.st = "PopFmtFifo"
    PROVE  SclOf(c, f) = Head(f).stop /\ SdaOf(c, f)
<1>1. SclOf(c, f) = Head(f).stop
  BY DEF SclOf
<1>2. SdaOf(c, f)
  BY DEF SdaOf
<1> QED
  BY <1>1, <1>2, Zenon

LEMMA LineClockStop ==
    ASSUME NEW c, NEW f, c.st = "ClockStop"
    PROVE  ~SclOf(c, f) /\ ~SdaOf(c, f)
<1>1. ~SclOf(c, f)
  BY DEF SclOf
<1>2. ~SdaOf(c, f)
  BY DEF SdaOf
<1> QED
  BY <1>1, <1>2, Zenon

LEMMA LineSetupStop ==
    ASSUME NEW c, NEW f, c.st = "SetupStop"
    PROVE  SclOf(c, f) /\ ~SdaOf(c, f)
<1>1. SclOf(c, f)
  BY DEF SclOf
<1>2. ~SdaOf(c, f)
  BY DEF SdaOf
<1> QED
  BY <1>1, <1>2, Zenon

LEMMA LineHoldStop ==
    ASSUME NEW c, NEW f, c.st = "HoldStop"
    PROVE  SclOf(c, f) /\ SdaOf(c, f)
<1>1. SclOf(c, f)
  BY DEF SclOf
<1>2. SdaOf(c, f)
  BY DEF SdaOf
<1> QED
  BY <1>1, <1>2, Zenon

LEMMA LineReadClockLow ==
    ASSUME NEW c, NEW f, c.st = "ReadClockLow"
    PROVE  ~SclOf(c, f) /\ SdaOf(c, f)
<1>1. ~SclOf(c, f)
  BY DEF SclOf
<1>2. SdaOf(c, f)
  BY DEF SdaOf
<1> QED
  BY <1>1, <1>2, Zenon

LEMMA LineReadClockPulse ==
    ASSUME NEW c, NEW f, c.st = "ReadClockPulse"
    PROVE  SclOf(c, f) /\ SdaOf(c, f)
<1>1. SclOf(c, f)
  BY DEF SclOf
<1>2. SdaOf(c, f)
  BY DEF SdaOf
<1> QED
  BY <1>1, <1>2, Zenon

LEMMA LineReadHoldBit ==
    ASSUME NEW c, NEW f, c.st = "ReadHoldBit"
    PROVE  ~SclOf(c, f) /\ SdaOf(c, f)
<1>1. ~SclOf(c, f)
  BY DEF SclOf
<1>2. SdaOf(c, f)
  BY DEF SdaOf
<1> QED
  BY <1>1, <1>2, Zenon

LEMMA LineHostClockLowAck ==
    ASSUME NEW c, NEW f, c.st = "HostClockLowAck"
    PROVE  ~SclOf(c, f) /\ SdaOf(c, f) = (c.cnt = 1)
<1>1. ~SclOf(c, f)
  BY DEF SclOf
<1>2. SdaOf(c, f) = (c.cnt = 1)
  BY DEF SdaOf
<1> QED
  BY <1>1, <1>2, Zenon

LEMMA LineHostClockPulseAck ==
    ASSUME NEW c, NEW f, c.st = "HostClockPulseAck"
    PROVE  SclOf(c, f) /\ SdaOf(c, f) = (c.cnt = 1)
<1>1. SclOf(c, f)
  BY DEF SclOf
<1>2. SdaOf(c, f) = (c.cnt = 1)
  BY DEF SdaOf
<1> QED
  BY <1>1, <1>2, Zenon

LEMMA LineHostHoldBitAck ==
    ASSUME NEW c, NEW f, c.st = "HostHoldBitAck"
    PROVE  ~SclOf(c, f) /\ SdaOf(c, f) = (c.cnt = 1)
<1>1. ~SclOf(c, f)
  BY DEF SclOf
<1>2. SdaOf(c, f) = (c.cnt = 1)
  BY DEF SdaOf
<1> QED
  BY <1>1, <1>2, Zenon

LEMMA CtlStateNames ==
    /\ "Idle" \in CtlStates
    /\ "Active" \in CtlStates
    /\ "SetupStart" \in CtlStates
    /\ "HoldStart" \in CtlStates
    /\ "ClockStart" \in CtlStates
    /\ "ClockLow" \in CtlStates
    /\ "ClockPulse" \in CtlStates
    /\ "HoldBit" \in CtlStates
    /\ "ClockLowAck" \in CtlStates
    /\ "ClockPulseAck" \in CtlStates
    /\ "HoldDevAck" \in CtlStates
    /\ "ReadClockLow" \in CtlStates
    /\ "ReadClockPulse" \in CtlStates
    /\ "ReadHoldBit" \in CtlStates
    /\ "HostClockLowAck" \in CtlStates
    /\ "HostClockPulseAck" \in CtlStates
    /\ "HostHoldBitAck" \in CtlStates
    /\ "ClockStop" \in CtlStates
    /\ "SetupStop" \in CtlStates
    /\ "HoldStop" \in CtlStates
    /\ "PopFmtFifo" \in CtlStates
  BY Zenon DEF CtlStates

LEMMA CtlStepIs ==
    ASSUME WireOK, CtlStep
    PROVE  /\ ctl' = CtlNext(ctl, fmt, sda /\ sda_o)
           /\ fmt' = (IF ctl.st = "PopFmtFifo" THEN Tail(fmt) ELSE fmt)
           /\ Drive(SclOf(ctl', fmt'), SdaOf(ctl', fmt'))
           /\ fmt # <<>> /\ Head(fmt) \in Entries /\ Sound(Head(fmt))
           /\ ctl \in CtlRec /\ BusOK /\ scl = SclOf(ctl, fmt) /\ sda = SdaOf(ctl, fmt) /\ FmtOK(fmt)
           /\ Phase(ctl, bus, Head(fmt), DOMAIN devs)
           /\ ctl.st = "Idle" => ~ctl.nak /\ Ready(ctl, bus, Head(fmt))
           /\ ctl.nak => ~Found(bus) /\ ctl.started
<1>1. /\ ctl' = CtlNext(ctl, fmt, sda /\ sda_o)
      /\ fmt' = (IF ctl.st = "PopFmtFifo" THEN Tail(fmt) ELSE fmt)
      /\ Drive(SclOf(ctl', fmt'), SdaOf(ctl', fmt'))
  BY Zenon DEF CtlStep
<1>2. ctl.st = "Idle" => fmt # <<>> /\ ~ctl.nak
  BY Zenon DEF CtlStep, CtlMoves
<1>3. fmt # <<>>
  BY <1>2, Zenon DEF WireOK
<1>4. Head(fmt) \in Entries /\ Sound(Head(fmt))
  BY <1>3, HeadEntry, Zenon DEF WireOK
<1> QED
  BY <1>1, <1>2, <1>3, <1>4, Zenon DEF WireOK

\* A step that serves the same entry on.
LEMMA CtlEnds ==
    ASSUME WireOK, CtlStep, ctl.st # "PopFmtFifo",
           NEW st, NEW n, NEW cb, NEW dev, NEW rd, NEW sa, NEW h,
           Turns(SclOf(ctl', fmt), SdaOf(ctl', fmt), st, n, cb, dev, rd, sa, h),
           dev \in DOMAIN devs \cup {NoDevice},
           ctl' \in CtlRec, ctl'.st # "Idle", Phase(ctl', bus', Head(fmt), DOMAIN devs),
           ctl'.nak => ~Found(bus') /\ ctl'.started
    PROVE  WireOK'
<1>1. fmt' = fmt /\ fmt # <<>> /\ FmtOK(fmt) /\ Head(fmt) \in Entries
  BY CtlStepIs, Zenon
<1>2. SclOf(ctl', fmt) \in BOOLEAN /\ SdaOf(ctl', fmt) \in BOOLEAN
  BY <1>1, LinesBoolean, Zenon
<1>3. /\ scl' = SclOf(ctl', fmt) /\ sda' = SdaOf(ctl', fmt)
      /\ Holds(bus', st, n, cb, dev, rd, sa, h)
      /\ bus'.prev_scl = scl' /\ bus'.prev_sda = sda'
      /\ DevsOK(devs') /\ DOMAIN devs' = DOMAIN devs /\ sda_o' \in BOOLEAN
      /\ scl' => sda_o' = Out(bus')
  BY Zenon DEF Turns, SameDevs
<1>4. bus' \in BusRec /\ bus'.currDevice \in DOMAIN devs' \cup {NoDevice}
  BY <1>3, Zenon DEF Holds
<1>5. BusOK'
  BY <1>2, <1>3, <1>4, Zenon DEF BusOK
<1>6. Phase(ctl', bus', Head(fmt'), DOMAIN devs')
  BY <1>1, <1>3, Zenon
<1> QED
  BY <1>1, <1>3, <1>5, <1>6, Zenon DEF WireOK
LEMMA PhaseIdle ==
    ASSUME NEW c, NEW b, NEW e, NEW dom, c.st = "Idle"
    PROVE  Phase(c, b, e, dom) <=>
                Between(c, b)
  BY Zenon DEF Phase

LEMMA PhaseActive ==
    ASSUME NEW c, NEW b, NEW e, NEW dom, c.st = "Active"
    PROVE  Phase(c, b, e, dom) <=>
                (~c.nak /\ Between(c, b) /\ Ready(c, b, e))
  BY Zenon DEF Phase

LEMMA PhaseSetupStart ==
    ASSUME NEW c, NEW b, NEW e, NEW dom, c.st = "SetupStart"
    PROVE  Phase(c, b, e, dom) <=>
                (e.start /\ ~c.nak /\ b.state = (IF c.started THEN "Data" ELSE "Idle") /\ (c.started => Released(b)))
  BY Zenon DEF Phase

LEMMA PhaseHoldStart ==
    ASSUME NEW c, NEW b, NEW e, NEW dom, c.st = "HoldStart"
    PROVE  Phase(c, b, e, dom) <=>
                (~c.pend /\ e.start /\ Arriving(c, b, e, 0))
  BY Zenon DEF Phase

LEMMA PhaseClockStart ==
    ASSUME NEW c, NEW b, NEW e, NEW dom, c.st = "ClockStart"
    PROVE  Phase(c, b, e, dom) <=>
                (~c.pend /\ e.start /\ Arriving(c, b, e, 0))
  BY Zenon DEF Phase

LEMMA PhaseClockLow ==
    ASSUME NEW c, NEW b, NEW e, NEW dom, c.st = "ClockLow"
    PROVE  Phase(c, b, e, dom) <=>
                IF c.pend THEN e.start /\ ~c.nak /\ c.started /\ Between(c, b) /\ Released(b)
                ELSE Arriving(c, b, e, 7 - c.bit)
  BY Zenon DEF Phase

LEMMA PhaseClockPulse ==
    ASSUME NEW c, NEW b, NEW e, NEW dom, c.st = "ClockPulse"
    PROVE  Phase(c, b, e, dom) <=>
                (~c.pend /\
                   IF c.bit > 0 THEN Arriving(c, b, e, 8 - c.bit)
                   ELSE Acking(c, b, e, dom) /\ b.state \in {"GotAddr", "GotData"})
  BY Zenon DEF Phase

LEMMA PhaseHoldBit ==
    ASSUME NEW c, NEW b, NEW e, NEW dom, c.st = "HoldBit"
    PROVE  Phase(c, b, e, dom) <=>
                (~c.pend /\
                   IF c.bit > 0 THEN Arriving(c, b, e, 8 - c.bit)
                   ELSE Acking(c, b, e, dom) /\ b.state = "SendAckNak")
  BY Zenon DEF Phase

LEMMA PhaseClockLowAck ==
    ASSUME NEW c, NEW b, NEW e, NEW dom, c.st = "ClockLowAck"
    PROVE  Phase(c, b, e, dom) <=>
                (Acking(c, b, e, dom) /\ b.state = "SendAckNak")
  BY Zenon DEF Phase

LEMMA PhaseClockPulseAck ==
    ASSUME NEW c, NEW b, NEW e, NEW dom, c.st = "ClockPulseAck"
    PROVE  Phase(c, b, e, dom) <=>
                (Acking(c, b, e, dom) /\ b.state = "SendAckNak")
  BY Zenon DEF Phase

LEMMA PhaseHoldDevAck ==
    ASSUME NEW c, NEW b, NEW e, NEW dom, c.st = "HoldDevAck"
    PROVE  Phase(c, b, e, dom) <=>
                (Arrived(c, b, e, dom) /\ b.state = "Data" /\ b.heard = c.sent /\ c.nak = ~Found(b))
  BY Zenon DEF Phase

LEMMA PhasePopFmtFifo ==
    ASSUME NEW c, NEW b, NEW e, NEW dom, c.st = "PopFmtFifo"
    PROVE  Phase(c, b, e, dom) <=>
                (Between(c, b) /\ Done(c, b, e) /\ (e.start => Addressee(b, e, dom)))
  BY Zenon DEF Phase

LEMMA PhaseClockStop ==
    ASSUME NEW c, NEW b, NEW e, NEW dom, c.st = "ClockStop"
    PROVE  Phase(c, b, e, dom) <=>
                (c.started /\ Stopping(c, b, e) /\ b.numBits = 0)
  BY Zenon DEF Phase

LEMMA PhaseSetupStop ==
    ASSUME NEW c, NEW b, NEW e, NEW dom, c.st = "SetupStop"
    PROVE  Phase(c, b, e, dom) <=>
                (c.started /\ Stopping(c, b, e))
  BY Zenon DEF Phase

LEMMA PhaseHoldStop ==
    ASSUME NEW c, NEW b, NEW e, NEW dom, c.st = "HoldStop"
    PROVE  Phase(c, b, e, dom) <=>
                (e.stop /\ ~e.start /\ ~c.nak /\ b.state = "Idle")
  BY Zenon DEF Phase

LEMMA PhaseReadClockLow ==
    ASSUME NEW c, NEW b, NEW e, NEW dom, c.st = "ReadClockLow"
    PROVE  Phase(c, b, e, dom) <=>
                (Sending(c, b, e) /\ b.state = "Data" /\ Shifted(b, 7 - c.bit))
  BY Zenon DEF Phase

LEMMA PhaseReadClockPulse ==
    ASSUME NEW c, NEW b, NEW e, NEW dom, c.st = "ReadClockPulse"
    PROVE  Phase(c, b, e, dom) <=>
                (Sending(c, b, e) /\ b.state = "Data" /\ Shifted(b, 7 - c.bit))
  BY Zenon DEF Phase

LEMMA PhaseReadHoldBit ==
    ASSUME NEW c, NEW b, NEW e, NEW dom, c.st = "ReadHoldBit"
    PROVE  Phase(c, b, e, dom) <=>
                (Sending(c, b, e) /\ b.state = (IF c.bit = 0 THEN "SentData" ELSE "Data") /\ Shifted(b, 8 - c.bit))
  BY Zenon DEF Phase

LEMMA PhaseHostClockLowAck ==
    ASSUME NEW c, NEW b, NEW e, NEW dom, c.st = "HostClockLowAck"
    PROVE  Phase(c, b, e, dom) <=>
                (c.bit = 7 /\ Sending(c, b, e) /\ b.state = "SentData" /\ Shifted(b, 8))
  BY Zenon DEF Phase

LEMMA PhaseHostClockPulseAck ==
    ASSUME NEW c, NEW b, NEW e, NEW dom, c.st = "HostClockPulseAck"
    PROVE  Phase(c, b, e, dom) <=>
                (c.bit = 7 /\ Sending(c, b, e) /\ b.numBits = 0 /\ b.state = "GotAckNak" /\ (c.cnt = 1 => Spent(b)))
  BY Zenon DEF Phase

LEMMA PhaseHostHoldBitAck ==
    ASSUME NEW c, NEW b, NEW e, NEW dom, c.st = "HostHoldBitAck"
    PROVE  Phase(c, b, e, dom) <=>
                (c.bit = 7 /\ Sending(c, b, e) /\ b.numBits = 0 /\ b.state = "Data" /\ (c.cnt = 1 => Spent(b)))
  BY Zenon DEF Phase
LEMMA StepIdle ==
    ASSUME WireOK, CtlStep, ctl.st = "Idle"
    PROVE  WireOK' /\ (scl /\ scl' => sda_o' = sda_o) /\ DOMAIN devs' = DOMAIN devs
<1> DEFINE e == Head(fmt)
           c == SclOf(ctl', fmt)
           s == SdaOf(ctl', fmt)
<1>1. /\ ctl' = CtlNext(ctl, fmt, sda /\ sda_o) /\ Drive(c, s)
      /\ e \in Entries /\ Sound(e) /\ ctl \in CtlRec /\ BusOK /\ scl = SclOf(ctl, fmt) /\ sda = SdaOf(ctl, fmt)
      /\ Phase(ctl, bus, e, DOMAIN devs)
      /\ ctl.st = "Idle" => ~ctl.nak /\ Ready(ctl, bus, e)
      /\ ctl.nak => ~Found(bus) /\ ctl.started
  BY CtlStepIs, Zenon
<1>2. /\ e.byte \in Byte /\ e.start \in BOOLEAN /\ e.stop \in BOOLEAN /\ e.read \in BOOLEAN
      /\ ctl.bit \in 0 .. 7 /\ ctl.cnt \in Nat /\ ctl.byte \in Byte /\ ctl.started \in BOOLEAN
      /\ ctl.pend \in BOOLEAN /\ ctl.nak \in BOOLEAN /\ ctl.sent \in Seq(Byte)
      /\ bus.numBits \in 0 .. 8 /\ bus.currByte \in Byte /\ bus.reading \in BOOLEAN
      /\ bus.currDevice \in DOMAIN devs \cup {NoDevice}
      /\ scl \in BOOLEAN /\ sda \in BOOLEAN /\ sda_o \in BOOLEAN
  BY <1>1, EntryFields, CtlFieldTypes, BusFieldTypes, Zenon DEF BusOK
<1>3. Between(ctl, bus)
  BY <1>1, PhaseIdle, Zenon
<1>15. ctl' = CtlNext(ctl, fmt, sda /\ sda_o)
  BY <1>1, Zenon
<1>4. Has(ctl', "Active", ctl.bit, ctl.cnt, ctl.byte, ctl.started, ctl.pend, ctl.nak, ctl.sent)
  <2> DEFINE w1 == [ctl EXCEPT !.st = "Active"]
  <2>1. ctl' = w1
    BY <1>15, NextIdle, Zenon DEF CtlGo
  <2>2. "Active" \in CtlStates
    BY CtlStateNames, Zenon
  <2>3. Has(w1, "Active", ctl.bit, ctl.cnt, ctl.byte, ctl.started, ctl.pend, ctl.nak, ctl.sent)
    BY <1>1, HasItsFields, <2>2, CtlSt, Zenon
  <2> HIDE DEF w1
  <2> QED
    BY <2>1, <2>3, Zenon
<1>5. /\ ctl' \in CtlRec /\ ctl'.st = "Active" /\ ctl'.bit = ctl.bit /\ ctl'.cnt = ctl.cnt
      /\ ctl'.byte = ctl.byte /\ ctl'.started = ctl.started /\ ctl'.pend = ctl.pend
      /\ ctl'.nak = ctl.nak /\ ctl'.sent = ctl.sent
  BY <1>4, Zenon DEF Has
<1>6. c \in BOOLEAN /\ s \in BOOLEAN
  BY <1>1, <1>5, LinesBoolean, Zenon
<1>7. c = scl /\ s = sda
  <2>1. ~ctl.started => e.start
    BY <1>1, Zenon DEF Ready
  <2> QED
    BY <1>1, <1>2, <1>5, <1>6, <2>1, LineIdle, LineActive, Zenon
<1> HIDE DEF c, s
<1>8. TurnsSame(c, s)
  BY <1>1, <1>7, DriveStill, Zenon
<1>9. /\ bus'.state = bus.state /\ bus'.numBits = bus.numBits /\ bus'.currByte = bus.currByte
      /\ bus'.currDevice = bus.currDevice /\ bus'.reading = bus.reading
      /\ bus'.sendAck = bus.sendAck /\ bus'.heard = bus.heard
  BY <1>8, Zenon DEF TurnsSame, Turns, Holds
<1>10. (~ctl'.nak /\ Between(ctl', bus') /\ Ready(ctl', bus', e))
  <2>1. Between(ctl', bus')
    BY <1>3, <1>5, <1>9, Zenon DEF Between, Found
  <2>2. Ready(ctl', bus', e)
    BY <1>1, <1>5, <1>9, ZenonT(60) DEF Ready, Found, Released, Spent
  <2> QED
    BY <1>1, <1>5, <2>1, <2>2, Zenon
<1>11. Phase(ctl', bus', e, DOMAIN devs)
  BY <1>5, <1>10, PhaseActive, Zenon
<1>12. ctl'.nak => ~Found(bus') /\ ctl'.started
  BY <1>1, <1>3, <1>5, <1>9, Zenon DEF Found, Arriving, Acking, Arrived, Sending, Stopping
<1>13. bus.currDevice \in DOMAIN devs \cup {NoDevice}
  BY <1>2, Zenon
<1>14. WireOK'
  BY <1>5, <1>8, <1>11, <1>12, <1>13, CtlEnds, Zenon DEF TurnsSame, c, s
<1>18. scl /\ scl' => sda_o' = sda_o
  BY <1>1, <1>7, <1>8, <1>14, DriveStill, Zenon
<1>19. DOMAIN devs' = DOMAIN devs
  BY <1>8, Zenon DEF TurnsSame, Turns, SameDevs
<1> QED
  BY <1>14, <1>18, <1>19, Zenon

LEMMA StepActiveRead ==
    ASSUME WireOK, CtlStep, ctl.st = "Active", Head(fmt).read
    PROVE  WireOK' /\ (scl /\ scl' => sda_o' = sda_o) /\ DOMAIN devs' = DOMAIN devs
<1> DEFINE e == Head(fmt)
           c == SclOf(ctl', fmt)
           s == SdaOf(ctl', fmt)
<1>1. /\ ctl' = CtlNext(ctl, fmt, sda /\ sda_o) /\ Drive(c, s)
      /\ e \in Entries /\ Sound(e) /\ ctl \in CtlRec /\ BusOK /\ scl = SclOf(ctl, fmt) /\ sda = SdaOf(ctl, fmt)
      /\ Phase(ctl, bus, e, DOMAIN devs)
      /\ ctl.st = "Idle" => ~ctl.nak /\ Ready(ctl, bus, e)
      /\ ctl.nak => ~Found(bus) /\ ctl.started
  BY CtlStepIs, Zenon
<1>2. /\ e.byte \in Byte /\ e.start \in BOOLEAN /\ e.stop \in BOOLEAN /\ e.read \in BOOLEAN
      /\ ctl.bit \in 0 .. 7 /\ ctl.cnt \in Nat /\ ctl.byte \in Byte /\ ctl.started \in BOOLEAN
      /\ ctl.pend \in BOOLEAN /\ ctl.nak \in BOOLEAN /\ ctl.sent \in Seq(Byte)
      /\ bus.numBits \in 0 .. 8 /\ bus.currByte \in Byte /\ bus.reading \in BOOLEAN
      /\ bus.currDevice \in DOMAIN devs \cup {NoDevice}
      /\ scl \in BOOLEAN /\ sda \in BOOLEAN /\ sda_o \in BOOLEAN
  BY <1>1, EntryFields, CtlFieldTypes, BusFieldTypes, Zenon DEF BusOK
<1>3. (~ctl.nak /\ Between(ctl, bus) /\ Ready(ctl, bus, e))
  BY <1>1, PhaseActive, Zenon
<1>15. ctl' = CtlNext(ctl, fmt, sda /\ sda_o)
  BY <1>1, Zenon
<1> DEFINE m == IF e.byte = 0 THEN 256 ELSE e.byte
<1>21. m \in Nat \ {0}
  <2>1. e.byte \in Byte
    BY <1>2, Zenon
  <2> QED
    BY ONLY <2>1 DEF Byte
<1> HIDE DEF m
<1>20. ctl.started /\ bus.reading /\ Found(bus) /\ bus.state = "Data" /\ bus.numBits = 0 /\ ~e.start
  BY <1>1, <1>3, Zenon DEF Ready, Between, Sound
<1>4. Has(ctl', "ReadClockLow", 7, m, ctl.byte, ctl.started, ctl.pend, ctl.nak, ctl.sent)
  <2> DEFINE w1 == [ctl EXCEPT !.st = "ReadClockLow"]
             w2 == [w1 EXCEPT !.bit = 7]
             w3 == [w2 EXCEPT !.cnt = m]
  <2>1. ctl' = w3
    BY <1>15, NextActive, Zenon DEF m
  <2>2. "ReadClockLow" \in CtlStates
    BY CtlStateNames, Zenon
  <2>3. Has(w1, "ReadClockLow", ctl.bit, ctl.cnt, ctl.byte, ctl.started, ctl.pend, ctl.nak, ctl.sent)
    BY <1>1, HasItsFields, <2>2, CtlSt, Zenon
  <2> HIDE DEF w1
  <2>4. 7 \in 0 .. 7
    BY SMT
  <2>5. Has(w2, "ReadClockLow", 7, ctl.cnt, ctl.byte, ctl.started, ctl.pend, ctl.nak, ctl.sent)
    BY <2>3, <2>4, CtlBit, Zenon
  <2> HIDE DEF w2
  <2>6. m \in Nat
    BY <1>21, Zenon
  <2>7. Has(w3, "ReadClockLow", 7, m, ctl.byte, ctl.started, ctl.pend, ctl.nak, ctl.sent)
    BY <2>5, <2>6, CtlCnt, Zenon
  <2> HIDE DEF w3
  <2> QED
    BY <2>1, <2>7, Zenon
<1>5. /\ ctl' \in CtlRec /\ ctl'.st = "ReadClockLow" /\ ctl'.bit = 7 /\ ctl'.cnt = m
      /\ ctl'.byte = ctl.byte /\ ctl'.started = ctl.started /\ ctl'.pend = ctl.pend
      /\ ctl'.nak = ctl.nak /\ ctl'.sent = ctl.sent
  BY <1>4, Zenon DEF Has
<1>6. c \in BOOLEAN /\ s \in BOOLEAN
  BY <1>1, <1>5, LinesBoolean, Zenon
<1>7. c = scl /\ s = sda
  BY <1>1, <1>2, <1>5, <1>6, <1>20, LineActive, LineReadClockLow, Zenon
<1> HIDE DEF c, s
<1>8. TurnsSame(c, s)
  BY <1>1, <1>7, DriveStill, Zenon
<1>9. /\ bus'.state = bus.state /\ bus'.numBits = bus.numBits /\ bus'.currByte = bus.currByte
      /\ bus'.currDevice = bus.currDevice /\ bus'.reading = bus.reading
      /\ bus'.sendAck = bus.sendAck /\ bus'.heard = bus.heard
  BY <1>8, Zenon DEF TurnsSame, Turns, Holds
<1>10. (Sending(ctl', bus', e) /\ bus'.state = "Data" /\ Shifted(bus', 7 - ctl'.bit))
  <2>1. ctl'.cnt \in Nat \ {0}
    BY <1>5, <1>21, Zenon
  <2>2. 7 - ctl'.bit = 0
    BY <1>5
  <2>3. Ones(bus.currByte, 0)
    BY <1>2, OnesNone, Zenon
  <2> QED
    BY <1>3, <1>5, <1>9, <1>20, <2>1, <2>2, <2>3, Zenon DEF Sending, Shifted, Found
<1>11. Phase(ctl', bus', e, DOMAIN devs)
  BY <1>5, <1>10, PhaseReadClockLow, Zenon
<1>12. ctl'.nak => ~Found(bus') /\ ctl'.started
  BY <1>1, <1>3, <1>5, <1>9, Zenon DEF Found, Arriving, Acking, Arrived, Sending, Stopping
<1>13. bus.currDevice \in DOMAIN devs \cup {NoDevice}
  BY <1>2, Zenon
<1>14. WireOK'
  BY <1>5, <1>8, <1>11, <1>12, <1>13, CtlEnds, Zenon DEF TurnsSame, c, s
<1>18. scl /\ scl' => sda_o' = sda_o
  BY <1>1, <1>7, <1>8, <1>14, DriveStill, Zenon
<1>19. DOMAIN devs' = DOMAIN devs
  BY <1>8, Zenon DEF TurnsSame, Turns, SameDevs
<1> QED
  BY <1>14, <1>18, <1>19, Zenon

LEMMA StepActiveStart ==
    ASSUME WireOK, CtlStep, ctl.st = "Active", ~Head(fmt).read, Head(fmt).start, ~ctl.started
    PROVE  WireOK' /\ (scl /\ scl' => sda_o' = sda_o) /\ DOMAIN devs' = DOMAIN devs
<1> DEFINE e == Head(fmt)
           c == SclOf(ctl', fmt)
           s == SdaOf(ctl', fmt)
<1>1. /\ ctl' = CtlNext(ctl, fmt, sda /\ sda_o) /\ Drive(c, s)
      /\ e \in Entries /\ Sound(e) /\ ctl \in CtlRec /\ BusOK /\ scl = SclOf(ctl, fmt) /\ sda = SdaOf(ctl, fmt)
      /\ Phase(ctl, bus, e, DOMAIN devs)
      /\ ctl.st = "Idle" => ~ctl.nak /\ Ready(ctl, bus, e)
      /\ ctl.nak => ~Found(bus) /\ ctl.started
  BY CtlStepIs, Zenon
<1>2. /\ e.byte \in Byte /\ e.start \in BOOLEAN /\ e.stop \in BOOLEAN /\ e.read \in BOOLEAN
      /\ ctl.bit \in 0 .. 7 /\ ctl.cnt \in Nat /\ ctl.byte \in Byte /\ ctl.started \in BOOLEAN
      /\ ctl.pend \in BOOLEAN /\ ctl.nak \in BOOLEAN /\ ctl.sent \in Seq(Byte)
      /\ bus.numBits \in 0 .. 8 /\ bus.currByte \in Byte /\ bus.reading \in BOOLEAN
      /\ bus.currDevice \in DOMAIN devs \cup {NoDevice}
      /\ scl \in BOOLEAN /\ sda \in BOOLEAN /\ sda_o \in BOOLEAN
  BY <1>1, EntryFields, CtlFieldTypes, BusFieldTypes, Zenon DEF BusOK
<1>3. (~ctl.nak /\ Between(ctl, bus) /\ Ready(ctl, bus, e))
  BY <1>1, PhaseActive, Zenon
<1>15. ctl' = CtlNext(ctl, fmt, sda /\ sda_o)
  BY <1>1, Zenon
<1>4. Has(ctl', "SetupStart", ctl.bit, ctl.cnt, ctl.byte, ctl.started, ctl.pend, ctl.nak, ctl.sent)
  <2> DEFINE w1 == [ctl EXCEPT !.st = "SetupStart"]
  <2>1. ctl' = w1
    BY <1>15, NextActive, Zenon DEF CtlGo
  <2>2. "SetupStart" \in CtlStates
    BY CtlStateNames, Zenon
  <2>3. Has(w1, "SetupStart", ctl.bit, ctl.cnt, ctl.byte, ctl.started, ctl.pend, ctl.nak, ctl.sent)
    BY <1>1, HasItsFields, <2>2, CtlSt, Zenon
  <2> HIDE DEF w1
  <2> QED
    BY <2>1, <2>3, Zenon
<1>5. /\ ctl' \in CtlRec /\ ctl'.st = "SetupStart" /\ ctl'.bit = ctl.bit /\ ctl'.cnt = ctl.cnt
      /\ ctl'.byte = ctl.byte /\ ctl'.started = ctl.started /\ ctl'.pend = ctl.pend
      /\ ctl'.nak = ctl.nak /\ ctl'.sent = ctl.sent
  BY <1>4, Zenon DEF Has
<1>6. c \in BOOLEAN /\ s \in BOOLEAN
  BY <1>1, <1>5, LinesBoolean, Zenon
<1>7. c = scl /\ s = sda
  BY <1>1, <1>2, <1>3, <1>5, <1>6, LineActive, LineSetupStart, Zenon
<1> HIDE DEF c, s
<1>8. TurnsSame(c, s)
  BY <1>1, <1>7, DriveStill, Zenon
<1>9. /\ bus'.state = bus.state /\ bus'.numBits = bus.numBits /\ bus'.currByte = bus.currByte
      /\ bus'.currDevice = bus.currDevice /\ bus'.reading = bus.reading
      /\ bus'.sendAck = bus.sendAck /\ bus'.heard = bus.heard
  BY <1>8, Zenon DEF TurnsSame, Turns, Holds
<1>10. (e.start /\ ~ctl'.nak /\ bus'.state = (IF ctl'.started THEN "Data" ELSE "Idle") /\ (ctl'.started => Released(bus')))
  BY <1>3, <1>5, <1>9, Zenon DEF Between
<1>11. Phase(ctl', bus', e, DOMAIN devs)
  BY <1>5, <1>10, PhaseSetupStart, Zenon
<1>12. ctl'.nak => ~Found(bus') /\ ctl'.started
  BY <1>1, <1>3, <1>5, <1>9, Zenon DEF Found, Arriving, Acking, Arrived, Sending, Stopping
<1>13. bus.currDevice \in DOMAIN devs \cup {NoDevice}
  BY <1>2, Zenon
<1>14. WireOK'
  BY <1>5, <1>8, <1>11, <1>12, <1>13, CtlEnds, Zenon DEF TurnsSame, c, s
<1>18. scl /\ scl' => sda_o' = sda_o
  BY <1>1, <1>7, <1>8, <1>14, DriveStill, Zenon
<1>19. DOMAIN devs' = DOMAIN devs
  BY <1>8, Zenon DEF TurnsSame, Turns, SameDevs
<1> QED
  BY <1>14, <1>18, <1>19, Zenon

LEMMA StepActiveByte ==
    ASSUME WireOK, CtlStep, ctl.st = "Active", ~Head(fmt).read, ~(Head(fmt).start /\ ~ctl.started)
    PROVE  WireOK' /\ (scl /\ scl' => sda_o' = sda_o) /\ DOMAIN devs' = DOMAIN devs
<1> DEFINE e == Head(fmt)
           c == SclOf(ctl', fmt)
           s == SdaOf(ctl', fmt)
<1>1. /\ ctl' = CtlNext(ctl, fmt, sda /\ sda_o) /\ Drive(c, s)
      /\ e \in Entries /\ Sound(e) /\ ctl \in CtlRec /\ BusOK /\ scl = SclOf(ctl, fmt) /\ sda = SdaOf(ctl, fmt)
      /\ Phase(ctl, bus, e, DOMAIN devs)
      /\ ctl.st = "Idle" => ~ctl.nak /\ Ready(ctl, bus, e)
      /\ ctl.nak => ~Found(bus) /\ ctl.started
  BY CtlStepIs, Zenon
<1>2. /\ e.byte \in Byte /\ e.start \in BOOLEAN /\ e.stop \in BOOLEAN /\ e.read \in BOOLEAN
      /\ ctl.bit \in 0 .. 7 /\ ctl.cnt \in Nat /\ ctl.byte \in Byte /\ ctl.started \in BOOLEAN
      /\ ctl.pend \in BOOLEAN /\ ctl.nak \in BOOLEAN /\ ctl.sent \in Seq(Byte)
      /\ bus.numBits \in 0 .. 8 /\ bus.currByte \in Byte /\ bus.reading \in BOOLEAN
      /\ bus.currDevice \in DOMAIN devs \cup {NoDevice}
      /\ scl \in BOOLEAN /\ sda \in BOOLEAN /\ sda_o \in BOOLEAN
  BY <1>1, EntryFields, CtlFieldTypes, BusFieldTypes, Zenon DEF BusOK
<1>3. (~ctl.nak /\ Between(ctl, bus) /\ Ready(ctl, bus, e))
  BY <1>1, PhaseActive, Zenon
<1>15. ctl' = CtlNext(ctl, fmt, sda /\ sda_o)
  BY <1>1, Zenon
<1>20. ctl.started /\ bus.state = "Data" /\ bus.numBits = 0
  BY <1>3, Zenon DEF Ready, Between
<1>4. Has(ctl', "ClockLow", 7, ctl.cnt, ctl.byte, ctl.started, e.start, ctl.nak, ctl.sent)
  <2> DEFINE w1 == [ctl EXCEPT !.st = "ClockLow"]
             w2 == [w1 EXCEPT !.pend = e.start]
             w3 == [w2 EXCEPT !.bit = 7]
  <2>1. ctl' = w3
    BY <1>15, NextActive, Zenon
  <2>2. "ClockLow" \in CtlStates
    BY CtlStateNames, Zenon
  <2>3. Has(w1, "ClockLow", ctl.bit, ctl.cnt, ctl.byte, ctl.started, ctl.pend, ctl.nak, ctl.sent)
    BY <1>1, HasItsFields, <2>2, CtlSt, Zenon
  <2> HIDE DEF w1
  <2>4. e.start \in BOOLEAN
    BY <1>2, Zenon
  <2>5. Has(w2, "ClockLow", ctl.bit, ctl.cnt, ctl.byte, ctl.started, e.start, ctl.nak, ctl.sent)
    BY <2>3, <2>4, CtlPend, ZenonT(60)
  <2> HIDE DEF w2
  <2>6. 7 \in 0 .. 7
    BY SMT
  <2>7. Has(w3, "ClockLow", 7, ctl.cnt, ctl.byte, ctl.started, e.start, ctl.nak, ctl.sent)
    BY <2>5, <2>6, CtlBit, Zenon
  <2> HIDE DEF w3
  <2> QED
    BY <2>1, <2>7, Zenon
<1>5. /\ ctl' \in CtlRec /\ ctl'.st = "ClockLow" /\ ctl'.bit = 7 /\ ctl'.cnt = ctl.cnt
      /\ ctl'.byte = ctl.byte /\ ctl'.started = ctl.started /\ ctl'.pend = e.start
      /\ ctl'.nak = ctl.nak /\ ctl'.sent = ctl.sent
  BY <1>4, Zenon DEF Has
<1>6. c \in BOOLEAN /\ s \in BOOLEAN
  BY <1>1, <1>5, LinesBoolean, Zenon
<1>7. ~scl /\ ~c
  BY <1>1, <1>2, <1>5, <1>6, <1>20, LineActive, LineClockLow, Zenon
<1> HIDE DEF c, s
<1>8. TurnsSame(c, s)
  <2>1. bus.state # "Idle"
    BY <1>20
  <2> QED
    BY <1>1, <1>6, <1>7, <2>1, DriveLow, Zenon
<1>9. /\ bus'.state = bus.state /\ bus'.numBits = bus.numBits /\ bus'.currByte = bus.currByte
      /\ bus'.currDevice = bus.currDevice /\ bus'.reading = bus.reading
      /\ bus'.sendAck = bus.sendAck /\ bus'.heard = bus.heard
  BY <1>8, Zenon DEF TurnsSame, Turns, Holds
<1>10. IF ctl'.pend THEN e.start /\ ~ctl'.nak /\ ctl'.started /\ Between(ctl', bus') /\ Released(bus')
                ELSE Arriving(ctl', bus', e, 7 - ctl'.bit)
  <2>1. 7 - ctl'.bit = 0
    BY <1>5
  <2>2. Prefix(bus.currByte, e.byte, 0)
    BY <1>2, PrefixNone, Zenon
  <2>3. CASE e.start
    <3>1. Between(ctl', bus')
      BY <1>3, <1>5, <1>9, Zenon DEF Between, Found
    <3>2. Released(bus')
      BY <1>3, <1>9, <1>20, <2>3, ZenonT(60) DEF Ready, Released, Found, Spent
    <3> QED
      BY <1>3, <1>5, <1>20, <2>3, <3>1, <3>2, Zenon
  <2>4. CASE ~e.start
    BY <1>3, <1>5, <1>9, <1>20, <2>1, <2>2, <2>4, Zenon DEF Between, Ready, Found, Data, Arriving
  <2> QED
    BY <2>3, <2>4
<1>11. Phase(ctl', bus', e, DOMAIN devs)
  BY <1>5, <1>10, PhaseClockLow, Zenon
<1>12. ctl'.nak => ~Found(bus') /\ ctl'.started
  BY <1>1, <1>3, <1>5, <1>9, Zenon DEF Found, Arriving, Acking, Arrived, Sending, Stopping
<1>13. bus.currDevice \in DOMAIN devs \cup {NoDevice}
  BY <1>2, Zenon
<1>14. WireOK'
  BY <1>5, <1>8, <1>11, <1>12, <1>13, CtlEnds, Zenon DEF TurnsSame, c, s
<1>18. scl /\ scl' => sda_o' = sda_o
  BY <1>7, <1>8, <1>14, Zenon DEF TurnsSame, Turns
<1>19. DOMAIN devs' = DOMAIN devs
  BY <1>8, Zenon DEF TurnsSame, Turns, SameDevs
<1> QED
  BY <1>14, <1>18, <1>19, Zenon
\* A start, when no transaction is under way and in the middle of one.
LEMMA StepStart ==
    ASSUME WireOK, CtlStep, ctl.st = "SetupStart", ~ctl.started
    PROVE  WireOK' /\ (scl /\ scl' => sda_o' = sda_o) /\ DOMAIN devs' = DOMAIN devs
<1> DEFINE e == Head(fmt)
           c == SclOf(ctl', fmt)
           s == SdaOf(ctl', fmt)
<1>1. /\ ctl' = CtlNext(ctl, fmt, sda /\ sda_o) /\ Drive(c, s)
      /\ e \in Entries /\ Sound(e) /\ ctl \in CtlRec /\ BusOK /\ scl = SclOf(ctl, fmt) /\ sda = SdaOf(ctl, fmt)
      /\ Phase(ctl, bus, e, DOMAIN devs)
      /\ ctl.st = "Idle" => ~ctl.nak /\ Ready(ctl, bus, e)
      /\ ctl.nak => ~Found(bus) /\ ctl.started
  BY CtlStepIs, Zenon
<1>2. /\ e.byte \in Byte /\ e.start \in BOOLEAN /\ e.stop \in BOOLEAN /\ e.read \in BOOLEAN
      /\ ctl.bit \in 0 .. 7 /\ ctl.cnt \in Nat /\ ctl.byte \in Byte /\ ctl.started \in BOOLEAN
      /\ ctl.pend \in BOOLEAN /\ ctl.nak \in BOOLEAN /\ ctl.sent \in Seq(Byte)
      /\ bus.numBits \in 0 .. 8 /\ bus.currByte \in Byte /\ bus.reading \in BOOLEAN
      /\ bus.currDevice \in DOMAIN devs \cup {NoDevice}
      /\ scl \in BOOLEAN /\ sda \in BOOLEAN /\ sda_o \in BOOLEAN
  BY <1>1, EntryFields, CtlFieldTypes, BusFieldTypes, Zenon DEF BusOK
<1>3. (e.start /\ ~ctl.nak /\ bus.state = (IF ctl.started THEN "Data" ELSE "Idle") /\ (ctl.started => Released(bus)))
  BY <1>1, PhaseSetupStart, Zenon
<1>15. ctl' = CtlNext(ctl, fmt, sda /\ sda_o)
  BY <1>1, Zenon
<1> DEFINE yes == TRUE
           no == FALSE
<1>4. Has(ctl', "HoldStart", ctl.bit, ctl.cnt, ctl.byte, yes, no, ctl.nak, <<>>)
  <2> DEFINE w1 == [ctl EXCEPT !.st = "HoldStart"]
             w2 == [w1 EXCEPT !.started = yes]
             w3 == [w2 EXCEPT !.pend = no]
             w4 == [w3 EXCEPT !.sent = <<>>]
  <2>1. ctl' = w4
    BY <1>15, NextSetupStart, Zenon
  <2>2. "HoldStart" \in CtlStates
    BY CtlStateNames, Zenon
  <2>3. Has(w1, "HoldStart", ctl.bit, ctl.cnt, ctl.byte, ctl.started, ctl.pend, ctl.nak, ctl.sent)
    BY <1>1, HasItsFields, <2>2, CtlSt, Zenon
  <2> HIDE DEF w1
  <2>4. yes \in BOOLEAN
    BY Zenon DEF yes
  <2>5. Has(w2, "HoldStart", ctl.bit, ctl.cnt, ctl.byte, yes, ctl.pend, ctl.nak, ctl.sent)
    BY <2>3, <2>4, CtlStarted, Zenon
  <2> HIDE DEF w2
  <2>6. no \in BOOLEAN
    BY Zenon DEF no
  <2>7. Has(w3, "HoldStart", ctl.bit, ctl.cnt, ctl.byte, yes, no, ctl.nak, ctl.sent)
    BY <2>5, <2>6, CtlPend, Zenon
  <2> HIDE DEF w3
  <2>8. <<>> \in Seq(Byte)
    BY SMT
  <2>9. Has(w4, "HoldStart", ctl.bit, ctl.cnt, ctl.byte, yes, no, ctl.nak, <<>>)
    BY <2>7, <2>8, CtlSent, Zenon
  <2> HIDE DEF w4
  <2> QED
    BY <2>1, <2>9, Zenon
<1>5. /\ ctl' \in CtlRec /\ ctl'.st = "HoldStart" /\ ctl'.bit = ctl.bit /\ ctl'.cnt = ctl.cnt
      /\ ctl'.byte = ctl.byte /\ ctl'.started = yes /\ ctl'.pend = no /\ ctl'.nak = ctl.nak
      /\ ctl'.sent = <<>>
  BY <1>4, Zenon DEF Has
<1>6. c \in BOOLEAN /\ s \in BOOLEAN
  BY <1>1, <1>5, LinesBoolean, Zenon
<1>7. scl /\ c /\ sda /\ ~s
  BY <1>1, <1>2, <1>3, <1>5, <1>6, LineSetupStart, LineHoldStart, Zenon
<1> HIDE DEF c, s
<1>8. Turns(c, s, "Addr", 0, bus.currByte, bus.currDevice, bus.reading, bus.sendAck, bus.heard)
  BY <1>1, <1>2, <1>3, <1>6, <1>7, DriveStart, Zenon
<1>9. /\ bus'.state = "Addr" /\ bus'.numBits = 0 /\ bus'.currByte = bus.currByte
      /\ bus'.currDevice = bus.currDevice /\ bus'.reading = bus.reading
      /\ bus'.sendAck = bus.sendAck /\ bus'.heard = bus.heard
  BY <1>8, Zenon DEF TurnsSame, Turns, Holds
<1>10. (~ctl'.pend /\ e.start /\ Arriving(ctl', bus', e, 0))
  <2>1. Prefix(bus.currByte, e.byte, 0) /\ ~e.read
    BY <1>1, <1>2, <1>3, PrefixNone, Zenon DEF Sound
  <2> QED
    BY <1>3, <1>5, <1>9, <2>1, Zenon DEF Arriving, yes, no
<1>11. Phase(ctl', bus', e, DOMAIN devs)
  BY <1>5, <1>10, PhaseHoldStart, Zenon
<1>12. ctl'.nak => ~Found(bus') /\ ctl'.started
  BY <1>3, <1>5, Zenon
<1>13. bus.currDevice \in DOMAIN devs \cup {NoDevice}
  BY <1>2, Zenon
<1>14. WireOK'
  BY <1>5, <1>8, <1>11, <1>12, <1>13, CtlEnds, Zenon DEF TurnsSame, c, s
<1>18. scl /\ scl' => sda_o' = sda_o
  <2>1. Out(bus') = yes
    BY <1>9 DEF Out
  <2>2. sda_o' = yes
    BY <1>7, <1>8, <2>1, Zenon DEF Turns
  <2>3. Out(bus) = yes
    BY <1>3 DEF Out
  <2>4. sda_o = yes
    BY <1>1, <1>7, <2>3, Zenon DEF BusOK
  <2> QED
    BY <1>14, <2>2, <2>4, Zenon
<1>19. DOMAIN devs' = DOMAIN devs
  BY <1>8, Zenon DEF TurnsSame, Turns, SameDevs
<1> QED
  BY <1>14, <1>18, <1>19, Zenon

LEMMA StepRestart ==
    ASSUME WireOK, CtlStep, ctl.st = "SetupStart", ctl.started
    PROVE  WireOK' /\ (scl /\ scl' => sda_o' = sda_o) /\ DOMAIN devs' = DOMAIN devs
<1> DEFINE e == Head(fmt)
           c == SclOf(ctl', fmt)
           s == SdaOf(ctl', fmt)
<1>1. /\ ctl' = CtlNext(ctl, fmt, sda /\ sda_o) /\ Drive(c, s)
      /\ e \in Entries /\ Sound(e) /\ ctl \in CtlRec /\ BusOK /\ scl = SclOf(ctl, fmt) /\ sda = SdaOf(ctl, fmt)
      /\ Phase(ctl, bus, e, DOMAIN devs)
      /\ ctl.st = "Idle" => ~ctl.nak /\ Ready(ctl, bus, e)
      /\ ctl.nak => ~Found(bus) /\ ctl.started
  BY CtlStepIs, Zenon
<1>2. /\ e.byte \in Byte /\ e.start \in BOOLEAN /\ e.stop \in BOOLEAN /\ e.read \in BOOLEAN
      /\ ctl.bit \in 0 .. 7 /\ ctl.cnt \in Nat /\ ctl.byte \in Byte /\ ctl.started \in BOOLEAN
      /\ ctl.pend \in BOOLEAN /\ ctl.nak \in BOOLEAN /\ ctl.sent \in Seq(Byte)
      /\ bus.numBits \in 0 .. 8 /\ bus.currByte \in Byte /\ bus.reading \in BOOLEAN
      /\ bus.currDevice \in DOMAIN devs \cup {NoDevice}
      /\ scl \in BOOLEAN /\ sda \in BOOLEAN /\ sda_o \in BOOLEAN
  BY <1>1, EntryFields, CtlFieldTypes, BusFieldTypes, Zenon DEF BusOK
<1>3. (e.start /\ ~ctl.nak /\ bus.state = (IF ctl.started THEN "Data" ELSE "Idle") /\ (ctl.started => Released(bus)))
  BY <1>1, PhaseSetupStart, Zenon
<1>15. ctl' = CtlNext(ctl, fmt, sda /\ sda_o)
  BY <1>1, Zenon
<1> DEFINE yes == TRUE
           no == FALSE
<1>4. Has(ctl', "HoldStart", ctl.bit, ctl.cnt, ctl.byte, yes, no, ctl.nak, <<>>)
  <2> DEFINE w1 == [ctl EXCEPT !.st = "HoldStart"]
             w2 == [w1 EXCEPT !.started = yes]
             w3 == [w2 EXCEPT !.pend = no]
             w4 == [w3 EXCEPT !.sent = <<>>]
  <2>1. ctl' = w4
    BY <1>15, NextSetupStart, Zenon
  <2>2. "HoldStart" \in CtlStates
    BY CtlStateNames, Zenon
  <2>3. Has(w1, "HoldStart", ctl.bit, ctl.cnt, ctl.byte, ctl.started, ctl.pend, ctl.nak, ctl.sent)
    BY <1>1, HasItsFields, <2>2, CtlSt, Zenon
  <2> HIDE DEF w1
  <2>4. yes \in BOOLEAN
    BY Zenon DEF yes
  <2>5. Has(w2, "HoldStart", ctl.bit, ctl.cnt, ctl.byte, yes, ctl.pend, ctl.nak, ctl.sent)
    BY <2>3, <2>4, CtlStarted, Zenon
  <2> HIDE DEF w2
  <2>6. no \in BOOLEAN
    BY Zenon DEF no
  <2>7. Has(w3, "HoldStart", ctl.bit, ctl.cnt, ctl.byte, yes, no, ctl.nak, ctl.sent)
    BY <2>5, <2>6, CtlPend, Zenon
  <2> HIDE DEF w3
  <2>8. <<>> \in Seq(Byte)
    BY SMT
  <2>9. Has(w4, "HoldStart", ctl.bit, ctl.cnt, ctl.byte, yes, no, ctl.nak, <<>>)
    BY <2>7, <2>8, CtlSent, Zenon
  <2> HIDE DEF w4
  <2> QED
    BY <2>1, <2>9, Zenon
<1>5. /\ ctl' \in CtlRec /\ ctl'.st = "HoldStart" /\ ctl'.bit = ctl.bit /\ ctl'.cnt = ctl.cnt
      /\ ctl'.byte = ctl.byte /\ ctl'.started = yes /\ ctl'.pend = no /\ ctl'.nak = ctl.nak
      /\ ctl'.sent = <<>>
  BY <1>4, Zenon DEF Has
<1>6. c \in BOOLEAN /\ s \in BOOLEAN
  BY <1>1, <1>5, LinesBoolean, Zenon
<1>7. scl /\ c /\ sda /\ ~s
  BY <1>1, <1>2, <1>3, <1>5, <1>6, LineSetupStart, LineHoldStart, Zenon
<1> HIDE DEF c, s
<1>8. Turns(c, s, "Addr", 0, bus.currByte, NoDevice, bus.reading, bus.sendAck, bus.heard)
  BY <1>1, <1>2, <1>3, <1>6, <1>7, DriveRestart, Zenon
<1>9. /\ bus'.state = "Addr" /\ bus'.numBits = 0 /\ bus'.currByte = bus.currByte
      /\ bus'.currDevice = NoDevice /\ bus'.reading = bus.reading /\ bus'.sendAck = bus.sendAck
      /\ bus'.heard = bus.heard
  BY <1>8, Zenon DEF TurnsSame, Turns, Holds
<1>10. (~ctl'.pend /\ e.start /\ Arriving(ctl', bus', e, 0))
  <2>1. Prefix(bus.currByte, e.byte, 0) /\ ~e.read
    BY <1>1, <1>2, <1>3, PrefixNone, Zenon DEF Sound
  <2> QED
    BY <1>3, <1>5, <1>9, <2>1, Zenon DEF Arriving, yes, no
<1>11. Phase(ctl', bus', e, DOMAIN devs)
  BY <1>5, <1>10, PhaseHoldStart, Zenon
<1>12. ctl'.nak => ~Found(bus') /\ ctl'.started
  BY <1>3, <1>5, Zenon
<1>13. NoDevice \in DOMAIN devs \cup {NoDevice}
  BY Zenon
<1>14. WireOK'
  BY <1>5, <1>8, <1>11, <1>12, <1>13, CtlEnds, Zenon DEF TurnsSame, c, s
<1>18. scl /\ scl' => sda_o' = sda_o
  <2>1. Out(bus') = yes
    BY <1>9 DEF Out
  <2>2. sda_o' = yes
    BY <1>7, <1>8, <2>1, Zenon DEF Turns
  <2>3. Out(bus) = yes
    BY <1>3 DEF Out, Released, Spent
  <2>4. sda_o = yes
    BY <1>1, <1>7, <2>3, Zenon DEF BusOK
  <2> QED
    BY <1>14, <2>2, <2>4, Zenon
<1>19. DOMAIN devs' = DOMAIN devs
  BY <1>8, Zenon DEF TurnsSame, Turns, SameDevs
<1> QED
  BY <1>14, <1>18, <1>19, Zenon

LEMMA StepHoldStart ==
    ASSUME WireOK, CtlStep, ctl.st = "HoldStart"
    PROVE  WireOK' /\ (scl /\ scl' => sda_o' = sda_o) /\ DOMAIN devs' = DOMAIN devs
<1> DEFINE e == Head(fmt)
           c == SclOf(ctl', fmt)
           s == SdaOf(ctl', fmt)
<1>1. /\ ctl' = CtlNext(ctl, fmt, sda /\ sda_o) /\ Drive(c, s)
      /\ e \in Entries /\ Sound(e) /\ ctl \in CtlRec /\ BusOK /\ scl = SclOf(ctl, fmt) /\ sda = SdaOf(ctl, fmt)
      /\ Phase(ctl, bus, e, DOMAIN devs)
      /\ ctl.st = "Idle" => ~ctl.nak /\ Ready(ctl, bus, e)
      /\ ctl.nak => ~Found(bus) /\ ctl.started
  BY CtlStepIs, Zenon
<1>2. /\ e.byte \in Byte /\ e.start \in BOOLEAN /\ e.stop \in BOOLEAN /\ e.read \in BOOLEAN
      /\ ctl.bit \in 0 .. 7 /\ ctl.cnt \in Nat /\ ctl.byte \in Byte /\ ctl.started \in BOOLEAN
      /\ ctl.pend \in BOOLEAN /\ ctl.nak \in BOOLEAN /\ ctl.sent \in Seq(Byte)
      /\ bus.numBits \in 0 .. 8 /\ bus.currByte \in Byte /\ bus.reading \in BOOLEAN
      /\ bus.currDevice \in DOMAIN devs \cup {NoDevice}
      /\ scl \in BOOLEAN /\ sda \in BOOLEAN /\ sda_o \in BOOLEAN
  BY <1>1, EntryFields, CtlFieldTypes, BusFieldTypes, Zenon DEF BusOK
<1>3. (~ctl.pend /\ e.start /\ Arriving(ctl, bus, e, 0))
  BY <1>1, PhaseHoldStart, Zenon
<1>15. ctl' = CtlNext(ctl, fmt, sda /\ sda_o)
  BY <1>1, Zenon
<1>4. Has(ctl', "ClockStart", ctl.bit, ctl.cnt, ctl.byte, ctl.started, ctl.pend, ctl.nak, ctl.sent)
  <2> DEFINE w1 == [ctl EXCEPT !.st = "ClockStart"]
  <2>1. ctl' = w1
    BY <1>15, NextHoldStart, Zenon DEF CtlGo
  <2>2. "ClockStart" \in CtlStates
    BY CtlStateNames, Zenon
  <2>3. Has(w1, "ClockStart", ctl.bit, ctl.cnt, ctl.byte, ctl.started, ctl.pend, ctl.nak, ctl.sent)
    BY <1>1, HasItsFields, <2>2, CtlSt, Zenon
  <2> HIDE DEF w1
  <2> QED
    BY <2>1, <2>3, Zenon
<1>5. /\ ctl' \in CtlRec /\ ctl'.st = "ClockStart" /\ ctl'.bit = ctl.bit /\ ctl'.cnt = ctl.cnt
      /\ ctl'.byte = ctl.byte /\ ctl'.started = ctl.started /\ ctl'.pend = ctl.pend
      /\ ctl'.nak = ctl.nak /\ ctl'.sent = ctl.sent
  BY <1>4, Zenon DEF Has
<1>6. c \in BOOLEAN /\ s \in BOOLEAN
  BY <1>1, <1>5, LinesBoolean, Zenon
<1>7. scl /\ ~c
  BY <1>1, <1>2, <1>3, <1>5, <1>6, LineHoldStart, LineClockStart, Zenon
<1> HIDE DEF c, s
<1>8. TurnsSame(c, s)
  <2>1. bus.state = "Addr"
    BY <1>3, Zenon DEF Arriving
  <2> QED
    BY <1>1, <1>6, <1>7, <2>1, DriveAddrFalls, Zenon
<1>9. /\ bus'.state = bus.state /\ bus'.numBits = bus.numBits /\ bus'.currByte = bus.currByte
      /\ bus'.currDevice = bus.currDevice /\ bus'.reading = bus.reading
      /\ bus'.sendAck = bus.sendAck /\ bus'.heard = bus.heard
  BY <1>8, Zenon DEF TurnsSame, Turns, Holds
<1>10. (~ctl'.pend /\ e.start /\ Arriving(ctl', bus', e, 0))
  BY <1>3, <1>5, <1>9, Zenon DEF Arriving
<1>11. Phase(ctl', bus', e, DOMAIN devs)
  BY <1>5, <1>10, PhaseClockStart, Zenon
<1>12. ctl'.nak => ~Found(bus') /\ ctl'.started
  BY <1>1, <1>3, <1>5, <1>9, Zenon DEF Found, Arriving, Acking, Arrived, Sending, Stopping
<1>13. bus.currDevice \in DOMAIN devs \cup {NoDevice}
  BY <1>2, Zenon
<1>14. WireOK'
  BY <1>5, <1>8, <1>11, <1>12, <1>13, CtlEnds, Zenon DEF TurnsSame, c, s
<1>18. scl /\ scl' => sda_o' = sda_o
  BY <1>7, <1>8, <1>14, Zenon DEF TurnsSame, Turns
<1>19. DOMAIN devs' = DOMAIN devs
  BY <1>8, Zenon DEF TurnsSame, Turns, SameDevs
<1> QED
  BY <1>14, <1>18, <1>19, Zenon

LEMMA StepClockStart ==
    ASSUME WireOK, CtlStep, ctl.st = "ClockStart"
    PROVE  WireOK' /\ (scl /\ scl' => sda_o' = sda_o) /\ DOMAIN devs' = DOMAIN devs
<1> DEFINE e == Head(fmt)
           c == SclOf(ctl', fmt)
           s == SdaOf(ctl', fmt)
<1>1. /\ ctl' = CtlNext(ctl, fmt, sda /\ sda_o) /\ Drive(c, s)
      /\ e \in Entries /\ Sound(e) /\ ctl \in CtlRec /\ BusOK /\ scl = SclOf(ctl, fmt) /\ sda = SdaOf(ctl, fmt)
      /\ Phase(ctl, bus, e, DOMAIN devs)
      /\ ctl.st = "Idle" => ~ctl.nak /\ Ready(ctl, bus, e)
      /\ ctl.nak => ~Found(bus) /\ ctl.started
  BY CtlStepIs, Zenon
<1>2. /\ e.byte \in Byte /\ e.start \in BOOLEAN /\ e.stop \in BOOLEAN /\ e.read \in BOOLEAN
      /\ ctl.bit \in 0 .. 7 /\ ctl.cnt \in Nat /\ ctl.byte \in Byte /\ ctl.started \in BOOLEAN
      /\ ctl.pend \in BOOLEAN /\ ctl.nak \in BOOLEAN /\ ctl.sent \in Seq(Byte)
      /\ bus.numBits \in 0 .. 8 /\ bus.currByte \in Byte /\ bus.reading \in BOOLEAN
      /\ bus.currDevice \in DOMAIN devs \cup {NoDevice}
      /\ scl \in BOOLEAN /\ sda \in BOOLEAN /\ sda_o \in BOOLEAN
  BY <1>1, EntryFields, CtlFieldTypes, BusFieldTypes, Zenon DEF BusOK
<1>3. (~ctl.pend /\ e.start /\ Arriving(ctl, bus, e, 0))
  BY <1>1, PhaseClockStart, Zenon
<1>15. ctl' = CtlNext(ctl, fmt, sda /\ sda_o)
  BY <1>1, Zenon
<1>4. Has(ctl', "ClockLow", 7, ctl.cnt, ctl.byte, ctl.started, ctl.pend, ctl.nak, ctl.sent)
  <2> DEFINE w1 == [ctl EXCEPT !.st = "ClockLow"]
             w2 == [w1 EXCEPT !.bit = 7]
  <2>1. ctl' = w2
    BY <1>15, NextClockStart, Zenon
  <2>2. "ClockLow" \in CtlStates
    BY CtlStateNames, Zenon
  <2>3. Has(w1, "ClockLow", ctl.bit, ctl.cnt, ctl.byte, ctl.started, ctl.pend, ctl.nak, ctl.sent)
    BY <1>1, HasItsFields, <2>2, CtlSt, Zenon
  <2> HIDE DEF w1
  <2>4. 7 \in 0 .. 7
    BY SMT
  <2>5. Has(w2, "ClockLow", 7, ctl.cnt, ctl.byte, ctl.started, ctl.pend, ctl.nak, ctl.sent)
    BY <2>3, <2>4, CtlBit, Zenon
  <2> HIDE DEF w2
  <2> QED
    BY <2>1, <2>5, Zenon
<1>5. /\ ctl' \in CtlRec /\ ctl'.st = "ClockLow" /\ ctl'.bit = 7 /\ ctl'.cnt = ctl.cnt
      /\ ctl'.byte = ctl.byte /\ ctl'.started = ctl.started /\ ctl'.pend = ctl.pend
      /\ ctl'.nak = ctl.nak /\ ctl'.sent = ctl.sent
  BY <1>4, Zenon DEF Has
<1>6. c \in BOOLEAN /\ s \in BOOLEAN
  BY <1>1, <1>5, LinesBoolean, Zenon
<1>7. ~scl /\ ~c
  BY <1>1, <1>2, <1>3, <1>5, <1>6, LineClockStart, LineClockLow, Zenon
<1> HIDE DEF c, s
<1>8. TurnsSame(c, s)
  <2>1. bus.state # "Idle"
    BY <1>3 DEF Arriving
  <2> QED
    BY <1>1, <1>6, <1>7, <2>1, DriveLow, Zenon
<1>9. /\ bus'.state = bus.state /\ bus'.numBits = bus.numBits /\ bus'.currByte = bus.currByte
      /\ bus'.currDevice = bus.currDevice /\ bus'.reading = bus.reading
      /\ bus'.sendAck = bus.sendAck /\ bus'.heard = bus.heard
  BY <1>8, Zenon DEF TurnsSame, Turns, Holds
<1>10. IF ctl'.pend THEN e.start /\ ~ctl'.nak /\ ctl'.started /\ Between(ctl', bus') /\ Released(bus')
                ELSE Arriving(ctl', bus', e, 7 - ctl'.bit)
  <2>1. 7 - ctl'.bit = 0
    BY <1>5
  <2> QED
    BY <1>3, <1>5, <1>9, <2>1, Zenon DEF Arriving
<1>11. Phase(ctl', bus', e, DOMAIN devs)
  BY <1>5, <1>10, PhaseClockLow, Zenon
<1>12. ctl'.nak => ~Found(bus') /\ ctl'.started
  BY <1>1, <1>3, <1>5, <1>9, Zenon DEF Found, Arriving, Acking, Arrived, Sending, Stopping
<1>13. bus.currDevice \in DOMAIN devs \cup {NoDevice}
  BY <1>2, Zenon
<1>14. WireOK'
  BY <1>5, <1>8, <1>11, <1>12, <1>13, CtlEnds, Zenon DEF TurnsSame, c, s
<1>18. scl /\ scl' => sda_o' = sda_o
  BY <1>7, <1>8, <1>14, Zenon DEF TurnsSame, Turns
<1>19. DOMAIN devs' = DOMAIN devs
  BY <1>8, Zenon DEF TurnsSame, Turns, SameDevs
<1> QED
  BY <1>14, <1>18, <1>19, Zenon

\* SCL rises for a repeated start.
LEMMA StepRestartRises ==
    ASSUME WireOK, CtlStep, ctl.st = "ClockLow", ctl.pend
    PROVE  WireOK' /\ (scl /\ scl' => sda_o' = sda_o) /\ DOMAIN devs' = DOMAIN devs
<1> DEFINE e == Head(fmt)
           c == SclOf(ctl', fmt)
           s == SdaOf(ctl', fmt)
<1>1. /\ ctl' = CtlNext(ctl, fmt, sda /\ sda_o) /\ Drive(c, s)
      /\ e \in Entries /\ Sound(e) /\ ctl \in CtlRec /\ BusOK /\ scl = SclOf(ctl, fmt) /\ sda = SdaOf(ctl, fmt)
      /\ Phase(ctl, bus, e, DOMAIN devs)
      /\ ctl.st = "Idle" => ~ctl.nak /\ Ready(ctl, bus, e)
      /\ ctl.nak => ~Found(bus) /\ ctl.started
  BY CtlStepIs, Zenon
<1>2. /\ e.byte \in Byte /\ e.start \in BOOLEAN /\ e.stop \in BOOLEAN /\ e.read \in BOOLEAN
      /\ ctl.bit \in 0 .. 7 /\ ctl.cnt \in Nat /\ ctl.byte \in Byte /\ ctl.started \in BOOLEAN
      /\ ctl.pend \in BOOLEAN /\ ctl.nak \in BOOLEAN /\ ctl.sent \in Seq(Byte)
      /\ bus.numBits \in 0 .. 8 /\ bus.currByte \in Byte /\ bus.reading \in BOOLEAN
      /\ bus.currDevice \in DOMAIN devs \cup {NoDevice}
      /\ scl \in BOOLEAN /\ sda \in BOOLEAN /\ sda_o \in BOOLEAN
  BY <1>1, EntryFields, CtlFieldTypes, BusFieldTypes, Zenon DEF BusOK
<1>3. IF ctl.pend THEN e.start /\ ~ctl.nak /\ ctl.started /\ Between(ctl, bus) /\ Released(bus)
                ELSE Arriving(ctl, bus, e, 7 - ctl.bit)
  BY <1>1, PhaseClockLow, Zenon
<1>15. ctl' = CtlNext(ctl, fmt, sda /\ sda_o)
  BY <1>1, Zenon
<1>20. bus.state = "Data" /\ bus.numBits = 0
  BY <1>3, Zenon DEF Between
<1>4. Has(ctl', "SetupStart", ctl.bit, ctl.cnt, ctl.byte, ctl.started, ctl.pend, ctl.nak, ctl.sent)
  <2> DEFINE w1 == [ctl EXCEPT !.st = "SetupStart"]
  <2>1. ctl' = w1
    BY <1>15, NextClockLow, Zenon DEF CtlGo
  <2>2. "SetupStart" \in CtlStates
    BY CtlStateNames, Zenon
  <2>3. Has(w1, "SetupStart", ctl.bit, ctl.cnt, ctl.byte, ctl.started, ctl.pend, ctl.nak, ctl.sent)
    BY <1>1, HasItsFields, <2>2, CtlSt, Zenon
  <2> HIDE DEF w1
  <2> QED
    BY <2>1, <2>3, Zenon
<1>5. /\ ctl' \in CtlRec /\ ctl'.st = "SetupStart" /\ ctl'.bit = ctl.bit /\ ctl'.cnt = ctl.cnt
      /\ ctl'.byte = ctl.byte /\ ctl'.started = ctl.started /\ ctl'.pend = ctl.pend
      /\ ctl'.nak = ctl.nak /\ ctl'.sent = ctl.sent
  BY <1>4, Zenon DEF Has
<1>6. c \in BOOLEAN /\ s \in BOOLEAN
  BY <1>1, <1>5, LinesBoolean, Zenon
<1>7. ~scl /\ c /\ s = sda
  BY <1>1, <1>2, <1>3, <1>5, <1>6, LineClockLow, LineSetupStart, Zenon
<1> HIDE DEF c, s
<1>16. PICK n \in 0 .. 8, v \in Byte :
          Turns(c, s, "Data", n, v, bus.currDevice, bus.reading, bus.sendAck, bus.heard) /\ (bus.reading => v = bus.currByte)
  BY <1>1, <1>6, <1>7, <1>20, DriveDataRises, ZenonT(60)
<1>8. Turns(c, s, "Data", n, v, bus.currDevice, bus.reading, bus.sendAck, bus.heard)
  BY <1>16, Zenon
<1>9. /\ bus'.state = "Data" /\ bus'.numBits = n /\ bus'.currByte = v
      /\ bus'.currDevice = bus.currDevice /\ bus'.reading = bus.reading
      /\ bus'.sendAck = bus.sendAck /\ bus'.heard = bus.heard
  BY <1>8, Zenon DEF TurnsSame, Turns, Holds
<1>10. (e.start /\ ~ctl'.nak /\ bus'.state = (IF ctl'.started THEN "Data" ELSE "Idle") /\ (ctl'.started => Released(bus')))
  BY <1>3, <1>5, <1>9, <1>16, ZenonT(60) DEF Released, Found, Spent
<1>11. Phase(ctl', bus', e, DOMAIN devs)
  BY <1>5, <1>10, PhaseSetupStart, Zenon
<1>12. ctl'.nak => ~Found(bus') /\ ctl'.started
  BY <1>3, <1>5, Zenon
<1>13. bus.currDevice \in DOMAIN devs \cup {NoDevice}
  BY <1>2, Zenon
<1>14. WireOK'
  BY <1>5, <1>8, <1>11, <1>12, <1>13, CtlEnds, Zenon DEF TurnsSame, c, s
<1>18. scl /\ scl' => sda_o' = sda_o
  BY <1>7, <1>8, <1>14, Zenon DEF TurnsSame, Turns
<1>19. DOMAIN devs' = DOMAIN devs
  BY <1>8, Zenon DEF TurnsSame, Turns, SameDevs
<1> QED
  BY <1>14, <1>18, <1>19, Zenon

LEMMA StepAddrBit ==
    ASSUME WireOK, CtlStep, ctl.st = "ClockLow", ~ctl.pend, ctl.bit > 0, Head(fmt).start
    PROVE  WireOK' /\ (scl /\ scl' => sda_o' = sda_o) /\ DOMAIN devs' = DOMAIN devs
<1> DEFINE e == Head(fmt)
           c == SclOf(ctl', fmt)
           s == SdaOf(ctl', fmt)
<1>1. /\ ctl' = CtlNext(ctl, fmt, sda /\ sda_o) /\ Drive(c, s)
      /\ e \in Entries /\ Sound(e) /\ ctl \in CtlRec /\ BusOK /\ scl = SclOf(ctl, fmt) /\ sda = SdaOf(ctl, fmt)
      /\ Phase(ctl, bus, e, DOMAIN devs)
      /\ ctl.st = "Idle" => ~ctl.nak /\ Ready(ctl, bus, e)
      /\ ctl.nak => ~Found(bus) /\ ctl.started
  BY CtlStepIs, Zenon
<1>2. /\ e.byte \in Byte /\ e.start \in BOOLEAN /\ e.stop \in BOOLEAN /\ e.read \in BOOLEAN
      /\ ctl.bit \in 0 .. 7 /\ ctl.cnt \in Nat /\ ctl.byte \in Byte /\ ctl.started \in BOOLEAN
      /\ ctl.pend \in BOOLEAN /\ ctl.nak \in BOOLEAN /\ ctl.sent \in Seq(Byte)
      /\ bus.numBits \in 0 .. 8 /\ bus.currByte \in Byte /\ bus.reading \in BOOLEAN
      /\ bus.currDevice \in DOMAIN devs \cup {NoDevice}
      /\ scl \in BOOLEAN /\ sda \in BOOLEAN /\ sda_o \in BOOLEAN
  BY <1>1, EntryFields, CtlFieldTypes, BusFieldTypes, Zenon DEF BusOK
<1>3. IF ctl.pend THEN e.start /\ ~ctl.nak /\ ctl.started /\ Between(ctl, bus) /\ Released(bus)
                ELSE Arriving(ctl, bus, e, 7 - ctl.bit)
  BY <1>1, PhaseClockLow, Zenon
<1>15. ctl' = CtlNext(ctl, fmt, sda /\ sda_o)
  BY <1>1, Zenon
<1>20. ~ctl.nak /\ Arriving(ctl, bus, e, 7 - ctl.bit)
  BY <1>3, Zenon DEF Arriving
<1>21. 7 - ctl.bit \in 0 .. 7 /\ 7 - (7 - ctl.bit) = ctl.bit /\ (7 - ctl.bit) + 1 = 8 - ctl.bit
  BY <1>2
<1>22. bus.numBits = 7 - ctl.bit /\ Prefix(bus.currByte, e.byte, 7 - ctl.bit)
  BY <1>20, Zenon DEF Arriving
<1>23. Prefix(ShiftIn(bus.currByte, BitOf(e.byte, ctl.bit)), e.byte, 8 - ctl.bit)
  <2> DEFINE m == 7 - ctl.bit
  <2>1. m \in 0 .. 7 /\ 7 - m = ctl.bit /\ m + 1 = 8 - ctl.bit /\ Prefix(bus.currByte, e.byte, m)
    BY <1>21, <1>22, Zenon
  <2> HIDE DEF m
  <2>2. Prefix(ShiftIn(bus.currByte, BitOf(e.byte, 7 - m)), e.byte, m + 1)
    BY <1>2, <2>1, PrefixNext, Zenon
  <2> QED
    BY <2>1, <2>2, Zenon
<1>24. bus.numBits + 1 < 8 /\ bus.numBits + 1 = 8 - ctl.bit
  BY <1>2, <1>22
<1>25. bus.state = "Addr"
  BY <1>20, Zenon DEF Arriving
<1>4. Has(ctl', "ClockPulse", ctl.bit, ctl.cnt, ctl.byte, ctl.started, ctl.pend, ctl.nak, ctl.sent)
  <2> DEFINE w1 == [ctl EXCEPT !.st = "ClockPulse"]
  <2>1. ctl' = w1
    BY <1>15, NextClockLow, Zenon DEF CtlGo
  <2>2. "ClockPulse" \in CtlStates
    BY CtlStateNames, Zenon
  <2>3. Has(w1, "ClockPulse", ctl.bit, ctl.cnt, ctl.byte, ctl.started, ctl.pend, ctl.nak, ctl.sent)
    BY <1>1, HasItsFields, <2>2, CtlSt, Zenon
  <2> HIDE DEF w1
  <2> QED
    BY <2>1, <2>3, Zenon
<1>5. /\ ctl' \in CtlRec /\ ctl'.st = "ClockPulse" /\ ctl'.bit = ctl.bit /\ ctl'.cnt = ctl.cnt
      /\ ctl'.byte = ctl.byte /\ ctl'.started = ctl.started /\ ctl'.pend = ctl.pend
      /\ ctl'.nak = ctl.nak /\ ctl'.sent = ctl.sent
  BY <1>4, Zenon DEF Has
<1>6. c \in BOOLEAN /\ s \in BOOLEAN
  BY <1>1, <1>5, LinesBoolean, Zenon
<1>7. ~scl /\ c /\ s = sda /\ s = BitOf(e.byte, ctl.bit)
  BY <1>1, <1>2, <1>3, <1>5, <1>6, LineClockLow, LineClockPulse, ZenonT(60)
<1> HIDE DEF c, s
<1>8. Turns(c, s, "Addr", bus.numBits + 1, ShiftIn(bus.currByte, s), bus.currDevice, bus.reading, bus.sendAck, bus.heard)
  BY <1>1, <1>6, <1>7, <1>24, <1>25, DriveAddrBit, Zenon
<1>9. bus'.state = "Addr" /\ bus'.numBits = bus.numBits + 1 /\ bus'.currByte = ShiftIn(bus.currByte, s) /\ bus'.currDevice = bus.currDevice /\ bus'.reading = bus.reading /\ bus'.sendAck = bus.sendAck /\ bus'.heard = bus.heard
  BY <1>8, Zenon DEF TurnsSame, Turns, Holds
<1>10. (~ctl'.pend /\
                   IF ctl'.bit > 0 THEN Arriving(ctl', bus', e, 8 - ctl'.bit)
                   ELSE Acking(ctl', bus', e, DOMAIN devs) /\ bus'.state \in {"GotAddr", "GotData"})
  <2>1. Arriving(ctl', bus', e, 8 - ctl'.bit)
    BY <1>5, <1>7, <1>9, <1>20, <1>23, <1>24, Zenon DEF Arriving, Found
  <2> QED
    BY <1>5, <2>1, Zenon
<1>11. Phase(ctl', bus', e, DOMAIN devs)
  BY <1>5, <1>10, PhaseClockPulse, Zenon
<1>12. ctl'.nak => ~Found(bus') /\ ctl'.started
  BY <1>5, <1>20, Zenon
<1>13. bus.currDevice \in DOMAIN devs \cup {NoDevice}
  BY <1>2, Zenon
<1>14. WireOK'
  BY <1>5, <1>8, <1>11, <1>12, <1>13, CtlEnds, Zenon DEF TurnsSame, c, s
<1>18. scl /\ scl' => sda_o' = sda_o
  BY <1>7, <1>8, <1>14, Zenon DEF TurnsSame, Turns
<1>19. DOMAIN devs' = DOMAIN devs
  BY <1>8, Zenon DEF TurnsSame, Turns, SameDevs
<1> QED
  BY <1>14, <1>18, <1>19, Zenon

LEMMA StepDataBit ==
    ASSUME WireOK, CtlStep, ctl.st = "ClockLow", ~ctl.pend, ctl.bit > 0, ~Head(fmt).start
    PROVE  WireOK' /\ (scl /\ scl' => sda_o' = sda_o) /\ DOMAIN devs' = DOMAIN devs
<1> DEFINE e == Head(fmt)
           c == SclOf(ctl', fmt)
           s == SdaOf(ctl', fmt)
<1>1. /\ ctl' = CtlNext(ctl, fmt, sda /\ sda_o) /\ Drive(c, s)
      /\ e \in Entries /\ Sound(e) /\ ctl \in CtlRec /\ BusOK /\ scl = SclOf(ctl, fmt) /\ sda = SdaOf(ctl, fmt)
      /\ Phase(ctl, bus, e, DOMAIN devs)
      /\ ctl.st = "Idle" => ~ctl.nak /\ Ready(ctl, bus, e)
      /\ ctl.nak => ~Found(bus) /\ ctl.started
  BY CtlStepIs, Zenon
<1>2. /\ e.byte \in Byte /\ e.start \in BOOLEAN /\ e.stop \in BOOLEAN /\ e.read \in BOOLEAN
      /\ ctl.bit \in 0 .. 7 /\ ctl.cnt \in Nat /\ ctl.byte \in Byte /\ ctl.started \in BOOLEAN
      /\ ctl.pend \in BOOLEAN /\ ctl.nak \in BOOLEAN /\ ctl.sent \in Seq(Byte)
      /\ bus.numBits \in 0 .. 8 /\ bus.currByte \in Byte /\ bus.reading \in BOOLEAN
      /\ bus.currDevice \in DOMAIN devs \cup {NoDevice}
      /\ scl \in BOOLEAN /\ sda \in BOOLEAN /\ sda_o \in BOOLEAN
  BY <1>1, EntryFields, CtlFieldTypes, BusFieldTypes, Zenon DEF BusOK
<1>3. IF ctl.pend THEN e.start /\ ~ctl.nak /\ ctl.started /\ Between(ctl, bus) /\ Released(bus)
                ELSE Arriving(ctl, bus, e, 7 - ctl.bit)
  BY <1>1, PhaseClockLow, Zenon
<1>15. ctl' = CtlNext(ctl, fmt, sda /\ sda_o)
  BY <1>1, Zenon
<1>20. ~ctl.nak /\ Arriving(ctl, bus, e, 7 - ctl.bit)
  BY <1>3, Zenon DEF Arriving
<1>21. 7 - ctl.bit \in 0 .. 7 /\ 7 - (7 - ctl.bit) = ctl.bit /\ (7 - ctl.bit) + 1 = 8 - ctl.bit
  BY <1>2
<1>22. bus.numBits = 7 - ctl.bit /\ Prefix(bus.currByte, e.byte, 7 - ctl.bit)
  BY <1>20, Zenon DEF Arriving
<1>23. Prefix(ShiftIn(bus.currByte, BitOf(e.byte, ctl.bit)), e.byte, 8 - ctl.bit)
  <2> DEFINE m == 7 - ctl.bit
  <2>1. m \in 0 .. 7 /\ 7 - m = ctl.bit /\ m + 1 = 8 - ctl.bit /\ Prefix(bus.currByte, e.byte, m)
    BY <1>21, <1>22, Zenon
  <2> HIDE DEF m
  <2>2. Prefix(ShiftIn(bus.currByte, BitOf(e.byte, 7 - m)), e.byte, m + 1)
    BY <1>2, <2>1, PrefixNext, Zenon
  <2> QED
    BY <2>1, <2>2, Zenon
<1>24. bus.numBits + 1 < 8 /\ bus.numBits + 1 = 8 - ctl.bit
  BY <1>2, <1>22
<1>25. bus.state = "Data" /\ Found(bus) /\ ~bus.reading
  BY <1>20, Zenon DEF Arriving
<1>4. Has(ctl', "ClockPulse", ctl.bit, ctl.cnt, ctl.byte, ctl.started, ctl.pend, ctl.nak, ctl.sent)
  <2> DEFINE w1 == [ctl EXCEPT !.st = "ClockPulse"]
  <2>1. ctl' = w1
    BY <1>15, NextClockLow, Zenon DEF CtlGo
  <2>2. "ClockPulse" \in CtlStates
    BY CtlStateNames, Zenon
  <2>3. Has(w1, "ClockPulse", ctl.bit, ctl.cnt, ctl.byte, ctl.started, ctl.pend, ctl.nak, ctl.sent)
    BY <1>1, HasItsFields, <2>2, CtlSt, Zenon
  <2> HIDE DEF w1
  <2> QED
    BY <2>1, <2>3, Zenon
<1>5. /\ ctl' \in CtlRec /\ ctl'.st = "ClockPulse" /\ ctl'.bit = ctl.bit /\ ctl'.cnt = ctl.cnt
      /\ ctl'.byte = ctl.byte /\ ctl'.started = ctl.started /\ ctl'.pend = ctl.pend
      /\ ctl'.nak = ctl.nak /\ ctl'.sent = ctl.sent
  BY <1>4, Zenon DEF Has
<1>6. c \in BOOLEAN /\ s \in BOOLEAN
  BY <1>1, <1>5, LinesBoolean, Zenon
<1>7. ~scl /\ c /\ s = sda /\ s = BitOf(e.byte, ctl.bit)
  BY <1>1, <1>2, <1>3, <1>5, <1>6, LineClockLow, LineClockPulse, ZenonT(60)
<1> HIDE DEF c, s
<1>8. Turns(c, s, "Data", bus.numBits + 1, ShiftIn(bus.currByte, s), bus.currDevice, bus.reading, bus.sendAck, bus.heard)
  BY <1>1, <1>6, <1>7, <1>24, <1>25, DriveTakeBit, Zenon
<1>9. bus'.state = "Data" /\ bus'.numBits = bus.numBits + 1 /\ bus'.currByte = ShiftIn(bus.currByte, s) /\ bus'.currDevice = bus.currDevice /\ bus'.reading = bus.reading /\ bus'.sendAck = bus.sendAck /\ bus'.heard = bus.heard
  BY <1>8, Zenon DEF TurnsSame, Turns, Holds
<1>10. (~ctl'.pend /\
                   IF ctl'.bit > 0 THEN Arriving(ctl', bus', e, 8 - ctl'.bit)
                   ELSE Acking(ctl', bus', e, DOMAIN devs) /\ bus'.state \in {"GotAddr", "GotData"})
  <2>1. Arriving(ctl', bus', e, 8 - ctl'.bit)
    BY <1>5, <1>7, <1>9, <1>20, <1>23, <1>24, Zenon DEF Arriving, Found
  <2> QED
    BY <1>5, <2>1, Zenon
<1>11. Phase(ctl', bus', e, DOMAIN devs)
  BY <1>5, <1>10, PhaseClockPulse, Zenon
<1>12. ctl'.nak => ~Found(bus') /\ ctl'.started
  BY <1>5, <1>20, Zenon
<1>13. bus.currDevice \in DOMAIN devs \cup {NoDevice}
  BY <1>2, Zenon
<1>14. WireOK'
  BY <1>5, <1>8, <1>11, <1>12, <1>13, CtlEnds, Zenon DEF TurnsSame, c, s
<1>18. scl /\ scl' => sda_o' = sda_o
  BY <1>7, <1>8, <1>14, Zenon DEF TurnsSame, Turns
<1>19. DOMAIN devs' = DOMAIN devs
  BY <1>8, Zenon DEF TurnsSame, Turns, SameDevs
<1> QED
  BY <1>14, <1>18, <1>19, Zenon

\* The last bit of an address, and of a byte.
LEMMA StepAddrLast ==
    ASSUME WireOK, CtlStep, ctl.st = "ClockLow", ~ctl.pend, ctl.bit = 0, Head(fmt).start
    PROVE  WireOK' /\ (scl /\ scl' => sda_o' = sda_o) /\ DOMAIN devs' = DOMAIN devs
<1> DEFINE e == Head(fmt)
           c == SclOf(ctl', fmt)
           s == SdaOf(ctl', fmt)
<1>1. /\ ctl' = CtlNext(ctl, fmt, sda /\ sda_o) /\ Drive(c, s)
      /\ e \in Entries /\ Sound(e) /\ ctl \in CtlRec /\ BusOK /\ scl = SclOf(ctl, fmt) /\ sda = SdaOf(ctl, fmt)
      /\ Phase(ctl, bus, e, DOMAIN devs)
      /\ ctl.st = "Idle" => ~ctl.nak /\ Ready(ctl, bus, e)
      /\ ctl.nak => ~Found(bus) /\ ctl.started
  BY CtlStepIs, Zenon
<1>2. /\ e.byte \in Byte /\ e.start \in BOOLEAN /\ e.stop \in BOOLEAN /\ e.read \in BOOLEAN
      /\ ctl.bit \in 0 .. 7 /\ ctl.cnt \in Nat /\ ctl.byte \in Byte /\ ctl.started \in BOOLEAN
      /\ ctl.pend \in BOOLEAN /\ ctl.nak \in BOOLEAN /\ ctl.sent \in Seq(Byte)
      /\ bus.numBits \in 0 .. 8 /\ bus.currByte \in Byte /\ bus.reading \in BOOLEAN
      /\ bus.currDevice \in DOMAIN devs \cup {NoDevice}
      /\ scl \in BOOLEAN /\ sda \in BOOLEAN /\ sda_o \in BOOLEAN
  BY <1>1, EntryFields, CtlFieldTypes, BusFieldTypes, ZenonT(60) DEF BusOK
<1>3. IF ctl.pend THEN e.start /\ ~ctl.nak /\ ctl.started /\ Between(ctl, bus) /\ Released(bus)
                ELSE Arriving(ctl, bus, e, 7 - ctl.bit)
  BY <1>1, PhaseClockLow, Zenon
<1>15. ctl' = CtlNext(ctl, fmt, sda /\ sda_o)
  BY <1>1, Zenon
<1>20. ~ctl.nak /\ Arriving(ctl, bus, e, 7 - ctl.bit)
  BY <1>3, Zenon DEF Arriving
<1>21. 7 - ctl.bit \in 0 .. 7 /\ 7 - (7 - ctl.bit) = ctl.bit /\ (7 - ctl.bit) + 1 = 8 - ctl.bit
  BY <1>2
<1>22. bus.numBits = 7 - ctl.bit /\ Prefix(bus.currByte, e.byte, 7 - ctl.bit)
  BY <1>20, Zenon DEF Arriving
<1>23. Prefix(ShiftIn(bus.currByte, BitOf(e.byte, ctl.bit)), e.byte, 8 - ctl.bit)
  <2> DEFINE m == 7 - ctl.bit
  <2>1. m \in 0 .. 7 /\ 7 - m = ctl.bit /\ m + 1 = 8 - ctl.bit /\ Prefix(bus.currByte, e.byte, m)
    BY <1>21, <1>22, Zenon
  <2> HIDE DEF m
  <2>2. Prefix(ShiftIn(bus.currByte, BitOf(e.byte, 7 - m)), e.byte, m + 1)
    BY <1>2, <2>1, PrefixNext, Zenon
  <2> QED
    BY <2>1, <2>2, Zenon
<1>24. ~(bus.numBits + 1 < 8)
  BY <1>2, <1>22
<1>25. bus.state = "Addr" /\ ctl.sent = <<>> /\ ctl.started /\ ~e.read
  BY <1>20, Zenon DEF Arriving
<1>26. ShiftIn(bus.currByte, BitOf(e.byte, ctl.bit)) = e.byte
  <2>1. 8 - ctl.bit = 8
    BY <1>2
  <2>2. ShiftIn(bus.currByte, BitOf(e.byte, ctl.bit)) \in Byte
    BY <1>2, ShiftInByte, Zenon
  <2> QED
    BY <1>2, <1>23, <2>1, <2>2, PrefixFull, Zenon
<1>27. ~(ctl.bit > 0)
  BY <1>2
<1>4. Has(ctl', "ClockPulse", ctl.bit, ctl.cnt, ctl.byte, ctl.started, ctl.pend, ctl.nak, ctl.sent)
  <2> DEFINE w1 == [ctl EXCEPT !.st = "ClockPulse"]
  <2>1. ctl' = w1
    BY <1>15, NextClockLow, Zenon DEF CtlGo
  <2>2. "ClockPulse" \in CtlStates
    BY CtlStateNames, Zenon
  <2>3. Has(w1, "ClockPulse", ctl.bit, ctl.cnt, ctl.byte, ctl.started, ctl.pend, ctl.nak, ctl.sent)
    BY <1>1, HasItsFields, <2>2, CtlSt, Zenon
  <2> HIDE DEF w1
  <2> QED
    BY <2>1, <2>3, Zenon
<1>5. /\ ctl' \in CtlRec /\ ctl'.st = "ClockPulse" /\ ctl'.bit = ctl.bit /\ ctl'.cnt = ctl.cnt
      /\ ctl'.byte = ctl.byte /\ ctl'.started = ctl.started /\ ctl'.pend = ctl.pend
      /\ ctl'.nak = ctl.nak /\ ctl'.sent = ctl.sent
  BY <1>4, Zenon DEF Has
<1>6. c \in BOOLEAN /\ s \in BOOLEAN
  BY <1>1, <1>5, LinesBoolean, Zenon
<1>7. ~scl /\ c /\ s = sda /\ s = BitOf(e.byte, ctl.bit)
  BY <1>1, <1>2, <1>3, <1>5, <1>6, LineClockLow, LineClockPulse, ZenonT(60)
<1> HIDE DEF c, s
<1>8. PICK v \in Byte : Turns(c, s, "GotAddr", 0, v, Target(DOMAIN devs, e.byte \div 2), (e.byte % 2 = 1), (Target(DOMAIN devs, e.byte \div 2) # NoDevice), <<>>)
  <2>1. ShiftIn(bus.currByte, s) = e.byte
    BY <1>7, <1>26, Zenon
  <2>2. \E v \in Byte : Turns(c, s, "GotAddr", 0, v, Target(DOMAIN devs, ShiftIn(bus.currByte, s) \div 2),
                 ShiftIn(bus.currByte, s) % 2 = 1, Target(DOMAIN devs, ShiftIn(bus.currByte, s) \div 2) # NoDevice, <<>>)
    BY <1>1, <1>6, <1>7, <1>24, <1>25, DriveAddrLast, Zenon
  <2> QED
    BY <2>1, <2>2, Zenon
<1>9. bus'.state = "GotAddr" /\ bus'.numBits = 0 /\ bus'.currByte = v /\ bus'.currDevice = Target(DOMAIN devs, e.byte \div 2) /\ bus'.reading = (e.byte % 2 = 1) /\ bus'.sendAck = (Target(DOMAIN devs, e.byte \div 2) # NoDevice) /\ bus'.heard = <<>>
  BY <1>8, Zenon DEF TurnsSame, Turns, Holds
<1>10. (~ctl'.pend /\
                   IF ctl'.bit > 0 THEN Arriving(ctl', bus', e, 8 - ctl'.bit)
                   ELSE Acking(ctl', bus', e, DOMAIN devs) /\ bus'.state \in {"GotAddr", "GotData"})
  <2>1. Arrived(ctl', bus', e, DOMAIN devs)
    BY <1>5, <1>9, <1>25, Zenon DEF Arrived, Addressee, Found, Odd
  <2> QED
    BY <1>5, <1>9, <1>20, <1>27, <2>1, Zenon DEF Acking
<1>11. Phase(ctl', bus', e, DOMAIN devs)
  BY <1>5, <1>10, PhaseClockPulse, Zenon
<1>12. ctl'.nak => ~Found(bus') /\ ctl'.started
  BY <1>5, <1>20, Zenon
<1>13. Target(DOMAIN devs, e.byte \div 2) \in DOMAIN devs \cup {NoDevice}
  BY Zenon DEF Target
<1>14. WireOK'
  BY <1>5, <1>8, <1>11, <1>12, <1>13, CtlEnds, Zenon DEF TurnsSame, c, s
<1>18. scl /\ scl' => sda_o' = sda_o
  BY <1>7, <1>8, <1>14, Zenon DEF TurnsSame, Turns
<1>19. DOMAIN devs' = DOMAIN devs
  BY <1>8, Zenon DEF TurnsSame, Turns, SameDevs
<1> QED
  BY <1>14, <1>18, <1>19, Zenon

LEMMA StepDataLast ==
    ASSUME WireOK, CtlStep, ctl.st = "ClockLow", ~ctl.pend, ctl.bit = 0, ~Head(fmt).start
    PROVE  WireOK' /\ (scl /\ scl' => sda_o' = sda_o) /\ DOMAIN devs' = DOMAIN devs
<1> DEFINE e == Head(fmt)
           c == SclOf(ctl', fmt)
           s == SdaOf(ctl', fmt)
<1>1. /\ ctl' = CtlNext(ctl, fmt, sda /\ sda_o) /\ Drive(c, s)
      /\ e \in Entries /\ Sound(e) /\ ctl \in CtlRec /\ BusOK /\ scl = SclOf(ctl, fmt) /\ sda = SdaOf(ctl, fmt)
      /\ Phase(ctl, bus, e, DOMAIN devs)
      /\ ctl.st = "Idle" => ~ctl.nak /\ Ready(ctl, bus, e)
      /\ ctl.nak => ~Found(bus) /\ ctl.started
  BY CtlStepIs, Zenon
<1>2. /\ e.byte \in Byte /\ e.start \in BOOLEAN /\ e.stop \in BOOLEAN /\ e.read \in BOOLEAN
      /\ ctl.bit \in 0 .. 7 /\ ctl.cnt \in Nat /\ ctl.byte \in Byte /\ ctl.started \in BOOLEAN
      /\ ctl.pend \in BOOLEAN /\ ctl.nak \in BOOLEAN /\ ctl.sent \in Seq(Byte)
      /\ bus.numBits \in 0 .. 8 /\ bus.currByte \in Byte /\ bus.reading \in BOOLEAN
      /\ bus.currDevice \in DOMAIN devs \cup {NoDevice}
      /\ scl \in BOOLEAN /\ sda \in BOOLEAN /\ sda_o \in BOOLEAN
  BY <1>1, EntryFields, CtlFieldTypes, BusFieldTypes, ZenonT(60) DEF BusOK
<1>3. IF ctl.pend THEN e.start /\ ~ctl.nak /\ ctl.started /\ Between(ctl, bus) /\ Released(bus)
                ELSE Arriving(ctl, bus, e, 7 - ctl.bit)
  BY <1>1, PhaseClockLow, Zenon
<1>15. ctl' = CtlNext(ctl, fmt, sda /\ sda_o)
  BY <1>1, Zenon
<1>20. ~ctl.nak /\ Arriving(ctl, bus, e, 7 - ctl.bit)
  BY <1>3, Zenon DEF Arriving
<1>21. 7 - ctl.bit \in 0 .. 7 /\ 7 - (7 - ctl.bit) = ctl.bit /\ (7 - ctl.bit) + 1 = 8 - ctl.bit
  BY <1>2
<1>22. bus.numBits = 7 - ctl.bit /\ Prefix(bus.currByte, e.byte, 7 - ctl.bit)
  BY <1>20, Zenon DEF Arriving
<1>23. Prefix(ShiftIn(bus.currByte, BitOf(e.byte, ctl.bit)), e.byte, 8 - ctl.bit)
  <2> DEFINE m == 7 - ctl.bit
  <2>1. m \in 0 .. 7 /\ 7 - m = ctl.bit /\ m + 1 = 8 - ctl.bit /\ Prefix(bus.currByte, e.byte, m)
    BY <1>21, <1>22, Zenon
  <2> HIDE DEF m
  <2>2. Prefix(ShiftIn(bus.currByte, BitOf(e.byte, 7 - m)), e.byte, m + 1)
    BY <1>2, <2>1, PrefixNext, Zenon
  <2> QED
    BY <2>1, <2>2, Zenon
<1>24. ~(bus.numBits + 1 < 8)
  BY <1>2, <1>22
<1>25. bus.state = "Data" /\ ctl.started /\ ~e.read /\ Found(bus) /\ ~bus.reading /\ bus.heard = ctl.sent
  BY <1>20, Zenon DEF Arriving
<1>26. ShiftIn(bus.currByte, BitOf(e.byte, ctl.bit)) = e.byte
  <2>1. 8 - ctl.bit = 8
    BY <1>2
  <2>2. ShiftIn(bus.currByte, BitOf(e.byte, ctl.bit)) \in Byte
    BY <1>2, ShiftInByte, Zenon
  <2> QED
    BY <1>2, <1>23, <2>1, <2>2, PrefixFull, Zenon
<1>27. ~(ctl.bit > 0)
  BY <1>2
<1>28. bus.currDevice \in DOMAIN devs
  BY <1>2, <1>25, Zenon DEF Found
<1> DEFINE yes == TRUE
<1>4. Has(ctl', "ClockPulse", ctl.bit, ctl.cnt, ctl.byte, ctl.started, ctl.pend, ctl.nak, ctl.sent)
  <2> DEFINE w1 == [ctl EXCEPT !.st = "ClockPulse"]
  <2>1. ctl' = w1
    BY <1>15, NextClockLow, Zenon DEF CtlGo
  <2>2. "ClockPulse" \in CtlStates
    BY CtlStateNames, Zenon
  <2>3. Has(w1, "ClockPulse", ctl.bit, ctl.cnt, ctl.byte, ctl.started, ctl.pend, ctl.nak, ctl.sent)
    BY <1>1, HasItsFields, <2>2, CtlSt, Zenon
  <2> HIDE DEF w1
  <2> QED
    BY <2>1, <2>3, Zenon
<1>5. /\ ctl' \in CtlRec /\ ctl'.st = "ClockPulse" /\ ctl'.bit = ctl.bit /\ ctl'.cnt = ctl.cnt
      /\ ctl'.byte = ctl.byte /\ ctl'.started = ctl.started /\ ctl'.pend = ctl.pend
      /\ ctl'.nak = ctl.nak /\ ctl'.sent = ctl.sent
  BY <1>4, Zenon DEF Has
<1>6. c \in BOOLEAN /\ s \in BOOLEAN
  BY <1>1, <1>5, LinesBoolean, Zenon
<1>7. ~scl /\ c /\ s = sda /\ s = BitOf(e.byte, ctl.bit)
  BY <1>1, <1>2, <1>3, <1>5, <1>6, LineClockLow, LineClockPulse, ZenonT(60)
<1> HIDE DEF c, s
<1>8. Turns(c, s, "GotData", 0, e.byte, bus.currDevice, bus.reading, yes, Append(bus.heard, e.byte))
  <2>1. ShiftIn(bus.currByte, s) = e.byte
    BY <1>7, <1>26, Zenon
  <2>2. Turns(c, s, "GotData", 0, ShiftIn(bus.currByte, s), bus.currDevice, bus.reading, TRUE,
                 Append(bus.heard, ShiftIn(bus.currByte, s)))
    BY <1>1, <1>6, <1>7, <1>24, <1>25, <1>28, DriveTakeLast, Zenon
  <2> QED
    BY <2>1, <2>2, Zenon
<1>9. bus'.state = "GotData" /\ bus'.numBits = 0 /\ bus'.currByte = e.byte /\ bus'.currDevice = bus.currDevice /\ bus'.reading = bus.reading /\ bus'.sendAck = yes /\ bus'.heard = Append(bus.heard, e.byte)
  BY <1>8, Zenon DEF TurnsSame, Turns, Holds
<1>10. (~ctl'.pend /\
                   IF ctl'.bit > 0 THEN Arriving(ctl', bus', e, 8 - ctl'.bit)
                   ELSE Acking(ctl', bus', e, DOMAIN devs) /\ bus'.state \in {"GotAddr", "GotData"})
  <2>1. Arrived(ctl', bus', e, DOMAIN devs)
    BY <1>5, <1>9, <1>25, Zenon DEF Arrived, Found
  <2> QED
    BY <1>5, <1>9, <1>20, <1>25, <1>27, <2>1, Zenon DEF Acking
<1>11. Phase(ctl', bus', e, DOMAIN devs)
  BY <1>5, <1>10, PhaseClockPulse, Zenon
<1>12. ctl'.nak => ~Found(bus') /\ ctl'.started
  BY <1>5, <1>20, Zenon
<1>13. bus.currDevice \in DOMAIN devs \cup {NoDevice}
  BY <1>2, Zenon
<1>14. WireOK'
  BY <1>5, <1>8, <1>11, <1>12, <1>13, CtlEnds, Zenon DEF TurnsSame, c, s
<1>18. scl /\ scl' => sda_o' = sda_o
  BY <1>7, <1>8, <1>14, Zenon DEF TurnsSame, Turns
<1>19. DOMAIN devs' = DOMAIN devs
  BY <1>8, Zenon DEF TurnsSame, Turns, SameDevs
<1> QED
  BY <1>14, <1>18, <1>19, Zenon
\* SCL falls after a bit, and after the last one.
LEMMA StepAddrFalls ==
    ASSUME WireOK, CtlStep, ctl.st = "ClockPulse", ctl.bit > 0, Head(fmt).start
    PROVE  WireOK' /\ (scl /\ scl' => sda_o' = sda_o) /\ DOMAIN devs' = DOMAIN devs
<1> DEFINE e == Head(fmt)
           c == SclOf(ctl', fmt)
           s == SdaOf(ctl', fmt)
<1>1. /\ ctl' = CtlNext(ctl, fmt, sda /\ sda_o) /\ Drive(c, s)
      /\ e \in Entries /\ Sound(e) /\ ctl \in CtlRec /\ BusOK /\ scl = SclOf(ctl, fmt) /\ sda = SdaOf(ctl, fmt)
      /\ Phase(ctl, bus, e, DOMAIN devs)
      /\ ctl.st = "Idle" => ~ctl.nak /\ Ready(ctl, bus, e)
      /\ ctl.nak => ~Found(bus) /\ ctl.started
  BY CtlStepIs, Zenon
<1>2. /\ e.byte \in Byte /\ e.start \in BOOLEAN /\ e.stop \in BOOLEAN /\ e.read \in BOOLEAN
      /\ ctl.bit \in 0 .. 7 /\ ctl.cnt \in Nat /\ ctl.byte \in Byte /\ ctl.started \in BOOLEAN
      /\ ctl.pend \in BOOLEAN /\ ctl.nak \in BOOLEAN /\ ctl.sent \in Seq(Byte)
      /\ bus.numBits \in 0 .. 8 /\ bus.currByte \in Byte /\ bus.reading \in BOOLEAN
      /\ bus.currDevice \in DOMAIN devs \cup {NoDevice}
      /\ scl \in BOOLEAN /\ sda \in BOOLEAN /\ sda_o \in BOOLEAN
  BY <1>1, EntryFields, CtlFieldTypes, BusFieldTypes, Zenon DEF BusOK
<1>3. (~ctl.pend /\
                   IF ctl.bit > 0 THEN Arriving(ctl, bus, e, 8 - ctl.bit)
                   ELSE Acking(ctl, bus, e, DOMAIN devs) /\ bus.state \in {"GotAddr", "GotData"})
  BY <1>1, PhaseClockPulse, Zenon
<1>15. ctl' = CtlNext(ctl, fmt, sda /\ sda_o)
  BY <1>1, Zenon
<1>20. ~ctl.pend /\ ~ctl.nak /\ Arriving(ctl, bus, e, 8 - ctl.bit)
  BY <1>3, Zenon DEF Arriving
<1>21. bus.state = "Addr"
  BY <1>20, Zenon DEF Arriving
<1>4. Has(ctl', "HoldBit", ctl.bit, ctl.cnt, ctl.byte, ctl.started, ctl.pend, ctl.nak, ctl.sent)
  <2> DEFINE w1 == [ctl EXCEPT !.st = "HoldBit"]
  <2>1. ctl' = w1
    BY <1>15, NextClockPulse, Zenon DEF CtlGo
  <2>2. "HoldBit" \in CtlStates
    BY CtlStateNames, Zenon
  <2>3. Has(w1, "HoldBit", ctl.bit, ctl.cnt, ctl.byte, ctl.started, ctl.pend, ctl.nak, ctl.sent)
    BY <1>1, HasItsFields, <2>2, CtlSt, Zenon
  <2> HIDE DEF w1
  <2> QED
    BY <2>1, <2>3, Zenon
<1>5. /\ ctl' \in CtlRec /\ ctl'.st = "HoldBit" /\ ctl'.bit = ctl.bit /\ ctl'.cnt = ctl.cnt
      /\ ctl'.byte = ctl.byte /\ ctl'.started = ctl.started /\ ctl'.pend = ctl.pend
      /\ ctl'.nak = ctl.nak /\ ctl'.sent = ctl.sent
  BY <1>4, Zenon DEF Has
<1>6. c \in BOOLEAN /\ s \in BOOLEAN
  BY <1>1, <1>5, LinesBoolean, Zenon
<1>7. scl /\ ~c
  BY <1>1, <1>2, <1>3, <1>5, <1>6, LineClockPulse, LineHoldBit, Zenon
<1> HIDE DEF c, s
<1>8. TurnsSame(c, s)
  BY <1>1, <1>6, <1>7, <1>21, DriveAddrFalls, Zenon
<1>9. /\ bus'.state = bus.state /\ bus'.numBits = bus.numBits /\ bus'.currByte = bus.currByte
      /\ bus'.currDevice = bus.currDevice /\ bus'.reading = bus.reading
      /\ bus'.sendAck = bus.sendAck /\ bus'.heard = bus.heard
  BY <1>8, Zenon DEF TurnsSame, Turns, Holds
<1>10. (~ctl'.pend /\
                   IF ctl'.bit > 0 THEN Arriving(ctl', bus', e, 8 - ctl'.bit)
                   ELSE Acking(ctl', bus', e, DOMAIN devs) /\ bus'.state = "SendAckNak")
  <2>1. Arriving(ctl', bus', e, 8 - ctl'.bit)
    BY <1>5, <1>9, <1>20, Zenon DEF Arriving, Found
  <2> QED
    BY <1>5, <1>20, <2>1, Zenon
<1>11. Phase(ctl', bus', e, DOMAIN devs)
  BY <1>5, <1>10, PhaseHoldBit, Zenon
<1>12. ctl'.nak => ~Found(bus') /\ ctl'.started
  BY <1>5, <1>20, Zenon
<1>13. bus.currDevice \in DOMAIN devs \cup {NoDevice}
  BY <1>2, Zenon
<1>14. WireOK'
  BY <1>5, <1>8, <1>11, <1>12, <1>13, CtlEnds, Zenon DEF TurnsSame, c, s
<1>18. scl /\ scl' => sda_o' = sda_o
  BY <1>7, <1>8, <1>14, Zenon DEF TurnsSame, Turns
<1>19. DOMAIN devs' = DOMAIN devs
  BY <1>8, Zenon DEF TurnsSame, Turns, SameDevs
<1> QED
  BY <1>14, <1>18, <1>19, Zenon

LEMMA StepDataFalls ==
    ASSUME WireOK, CtlStep, ctl.st = "ClockPulse", ctl.bit > 0, ~Head(fmt).start
    PROVE  WireOK' /\ (scl /\ scl' => sda_o' = sda_o) /\ DOMAIN devs' = DOMAIN devs
<1> DEFINE e == Head(fmt)
           c == SclOf(ctl', fmt)
           s == SdaOf(ctl', fmt)
<1>1. /\ ctl' = CtlNext(ctl, fmt, sda /\ sda_o) /\ Drive(c, s)
      /\ e \in Entries /\ Sound(e) /\ ctl \in CtlRec /\ BusOK /\ scl = SclOf(ctl, fmt) /\ sda = SdaOf(ctl, fmt)
      /\ Phase(ctl, bus, e, DOMAIN devs)
      /\ ctl.st = "Idle" => ~ctl.nak /\ Ready(ctl, bus, e)
      /\ ctl.nak => ~Found(bus) /\ ctl.started
  BY CtlStepIs, Zenon
<1>2. /\ e.byte \in Byte /\ e.start \in BOOLEAN /\ e.stop \in BOOLEAN /\ e.read \in BOOLEAN
      /\ ctl.bit \in 0 .. 7 /\ ctl.cnt \in Nat /\ ctl.byte \in Byte /\ ctl.started \in BOOLEAN
      /\ ctl.pend \in BOOLEAN /\ ctl.nak \in BOOLEAN /\ ctl.sent \in Seq(Byte)
      /\ bus.numBits \in 0 .. 8 /\ bus.currByte \in Byte /\ bus.reading \in BOOLEAN
      /\ bus.currDevice \in DOMAIN devs \cup {NoDevice}
      /\ scl \in BOOLEAN /\ sda \in BOOLEAN /\ sda_o \in BOOLEAN
  BY <1>1, EntryFields, CtlFieldTypes, BusFieldTypes, Zenon DEF BusOK
<1>3. (~ctl.pend /\
                   IF ctl.bit > 0 THEN Arriving(ctl, bus, e, 8 - ctl.bit)
                   ELSE Acking(ctl, bus, e, DOMAIN devs) /\ bus.state \in {"GotAddr", "GotData"})
  BY <1>1, PhaseClockPulse, Zenon
<1>15. ctl' = CtlNext(ctl, fmt, sda /\ sda_o)
  BY <1>1, Zenon
<1>20. ~ctl.pend /\ ~ctl.nak /\ Arriving(ctl, bus, e, 8 - ctl.bit)
  BY <1>3, Zenon DEF Arriving
<1>21. bus.state = "Data" /\ Found(bus) /\ ~bus.reading
  BY <1>20, Zenon DEF Arriving
<1>4. Has(ctl', "HoldBit", ctl.bit, ctl.cnt, ctl.byte, ctl.started, ctl.pend, ctl.nak, ctl.sent)
  <2> DEFINE w1 == [ctl EXCEPT !.st = "HoldBit"]
  <2>1. ctl' = w1
    BY <1>15, NextClockPulse, Zenon DEF CtlGo
  <2>2. "HoldBit" \in CtlStates
    BY CtlStateNames, Zenon
  <2>3. Has(w1, "HoldBit", ctl.bit, ctl.cnt, ctl.byte, ctl.started, ctl.pend, ctl.nak, ctl.sent)
    BY <1>1, HasItsFields, <2>2, CtlSt, Zenon
  <2> HIDE DEF w1
  <2> QED
    BY <2>1, <2>3, Zenon
<1>5. /\ ctl' \in CtlRec /\ ctl'.st = "HoldBit" /\ ctl'.bit = ctl.bit /\ ctl'.cnt = ctl.cnt
      /\ ctl'.byte = ctl.byte /\ ctl'.started = ctl.started /\ ctl'.pend = ctl.pend
      /\ ctl'.nak = ctl.nak /\ ctl'.sent = ctl.sent
  BY <1>4, Zenon DEF Has
<1>6. c \in BOOLEAN /\ s \in BOOLEAN
  BY <1>1, <1>5, LinesBoolean, Zenon
<1>7. scl /\ ~c
  BY <1>1, <1>2, <1>3, <1>5, <1>6, LineClockPulse, LineHoldBit, Zenon
<1> HIDE DEF c, s
<1>8. TurnsSame(c, s)
  BY <1>1, <1>6, <1>7, <1>21, DriveTakeFalls, Zenon
<1>9. /\ bus'.state = bus.state /\ bus'.numBits = bus.numBits /\ bus'.currByte = bus.currByte
      /\ bus'.currDevice = bus.currDevice /\ bus'.reading = bus.reading
      /\ bus'.sendAck = bus.sendAck /\ bus'.heard = bus.heard
  BY <1>8, Zenon DEF TurnsSame, Turns, Holds
<1>10. (~ctl'.pend /\
                   IF ctl'.bit > 0 THEN Arriving(ctl', bus', e, 8 - ctl'.bit)
                   ELSE Acking(ctl', bus', e, DOMAIN devs) /\ bus'.state = "SendAckNak")
  <2>1. Arriving(ctl', bus', e, 8 - ctl'.bit)
    BY <1>5, <1>9, <1>20, Zenon DEF Arriving, Found
  <2> QED
    BY <1>5, <1>20, <2>1, Zenon
<1>11. Phase(ctl', bus', e, DOMAIN devs)
  BY <1>5, <1>10, PhaseHoldBit, Zenon
<1>12. ctl'.nak => ~Found(bus') /\ ctl'.started
  BY <1>5, <1>20, Zenon
<1>13. bus.currDevice \in DOMAIN devs \cup {NoDevice}
  BY <1>2, Zenon
<1>14. WireOK'
  BY <1>5, <1>8, <1>11, <1>12, <1>13, CtlEnds, Zenon DEF TurnsSame, c, s
<1>18. scl /\ scl' => sda_o' = sda_o
  BY <1>7, <1>8, <1>14, Zenon DEF TurnsSame, Turns
<1>19. DOMAIN devs' = DOMAIN devs
  BY <1>8, Zenon DEF TurnsSame, Turns, SameDevs
<1> QED
  BY <1>14, <1>18, <1>19, Zenon

LEMMA StepGotFalls ==
    ASSUME WireOK, CtlStep, ctl.st = "ClockPulse", ~(ctl.bit > 0)
    PROVE  WireOK' /\ (scl /\ scl' => sda_o' = sda_o) /\ DOMAIN devs' = DOMAIN devs
<1> DEFINE e == Head(fmt)
           c == SclOf(ctl', fmt)
           s == SdaOf(ctl', fmt)
<1>1. /\ ctl' = CtlNext(ctl, fmt, sda /\ sda_o) /\ Drive(c, s)
      /\ e \in Entries /\ Sound(e) /\ ctl \in CtlRec /\ BusOK /\ scl = SclOf(ctl, fmt) /\ sda = SdaOf(ctl, fmt)
      /\ Phase(ctl, bus, e, DOMAIN devs)
      /\ ctl.st = "Idle" => ~ctl.nak /\ Ready(ctl, bus, e)
      /\ ctl.nak => ~Found(bus) /\ ctl.started
  BY CtlStepIs, Zenon
<1>2. /\ e.byte \in Byte /\ e.start \in BOOLEAN /\ e.stop \in BOOLEAN /\ e.read \in BOOLEAN
      /\ ctl.bit \in 0 .. 7 /\ ctl.cnt \in Nat /\ ctl.byte \in Byte /\ ctl.started \in BOOLEAN
      /\ ctl.pend \in BOOLEAN /\ ctl.nak \in BOOLEAN /\ ctl.sent \in Seq(Byte)
      /\ bus.numBits \in 0 .. 8 /\ bus.currByte \in Byte /\ bus.reading \in BOOLEAN
      /\ bus.currDevice \in DOMAIN devs \cup {NoDevice}
      /\ scl \in BOOLEAN /\ sda \in BOOLEAN /\ sda_o \in BOOLEAN
  BY <1>1, EntryFields, CtlFieldTypes, BusFieldTypes, Zenon DEF BusOK
<1>3. (~ctl.pend /\
                   IF ctl.bit > 0 THEN Arriving(ctl, bus, e, 8 - ctl.bit)
                   ELSE Acking(ctl, bus, e, DOMAIN devs) /\ bus.state \in {"GotAddr", "GotData"})
  BY <1>1, PhaseClockPulse, Zenon
<1>15. ctl' = CtlNext(ctl, fmt, sda /\ sda_o)
  BY <1>1, Zenon
<1>20. ~ctl.pend /\ ~ctl.nak /\ Acking(ctl, bus, e, DOMAIN devs) /\ bus.state \in {"GotAddr", "GotData"}
  BY <1>3, Zenon DEF Acking
<1>4. Has(ctl', "HoldBit", ctl.bit, ctl.cnt, ctl.byte, ctl.started, ctl.pend, ctl.nak, ctl.sent)
  <2> DEFINE w1 == [ctl EXCEPT !.st = "HoldBit"]
  <2>1. ctl' = w1
    BY <1>15, NextClockPulse, Zenon DEF CtlGo
  <2>2. "HoldBit" \in CtlStates
    BY CtlStateNames, Zenon
  <2>3. Has(w1, "HoldBit", ctl.bit, ctl.cnt, ctl.byte, ctl.started, ctl.pend, ctl.nak, ctl.sent)
    BY <1>1, HasItsFields, <2>2, CtlSt, Zenon
  <2> HIDE DEF w1
  <2> QED
    BY <2>1, <2>3, Zenon
<1>5. /\ ctl' \in CtlRec /\ ctl'.st = "HoldBit" /\ ctl'.bit = ctl.bit /\ ctl'.cnt = ctl.cnt
      /\ ctl'.byte = ctl.byte /\ ctl'.started = ctl.started /\ ctl'.pend = ctl.pend
      /\ ctl'.nak = ctl.nak /\ ctl'.sent = ctl.sent
  BY <1>4, Zenon DEF Has
<1>6. c \in BOOLEAN /\ s \in BOOLEAN
  BY <1>1, <1>5, LinesBoolean, Zenon
<1>7. scl /\ ~c
  BY <1>1, <1>2, <1>3, <1>5, <1>6, LineClockPulse, LineHoldBit, Zenon
<1> HIDE DEF c, s
<1>8. Turns(c, s, "SendAckNak", bus.numBits, bus.currByte, bus.currDevice, bus.reading, bus.sendAck, bus.heard)
  BY <1>1, <1>6, <1>7, <1>20, DriveGotFalls, Zenon
<1>9. /\ bus'.state = "SendAckNak" /\ bus'.numBits = bus.numBits
      /\ bus'.currByte = bus.currByte /\ bus'.currDevice = bus.currDevice
      /\ bus'.reading = bus.reading /\ bus'.sendAck = bus.sendAck /\ bus'.heard = bus.heard
  BY <1>8, Zenon DEF TurnsSame, Turns, Holds
<1>10. (~ctl'.pend /\
                   IF ctl'.bit > 0 THEN Arriving(ctl', bus', e, 8 - ctl'.bit)
                   ELSE Acking(ctl', bus', e, DOMAIN devs) /\ bus'.state = "SendAckNak")
  <2>1. Acking(ctl', bus', e, DOMAIN devs)
    BY <1>5, <1>9, <1>20, Zenon DEF Acking, Arrived, Addressee, Found
  <2> QED
    BY <1>5, <1>9, <1>20, <2>1, Zenon
<1>11. Phase(ctl', bus', e, DOMAIN devs)
  BY <1>5, <1>10, PhaseHoldBit, Zenon
<1>12. ctl'.nak => ~Found(bus') /\ ctl'.started
  BY <1>5, <1>20, Zenon
<1>13. bus.currDevice \in DOMAIN devs \cup {NoDevice}
  BY <1>2, Zenon
<1>14. WireOK'
  BY <1>5, <1>8, <1>11, <1>12, <1>13, CtlEnds, Zenon DEF TurnsSame, c, s
<1>18. scl /\ scl' => sda_o' = sda_o
  BY <1>7, <1>8, <1>14, Zenon DEF TurnsSame, Turns
<1>19. DOMAIN devs' = DOMAIN devs
  BY <1>8, Zenon DEF TurnsSame, Turns, SameDevs
<1> QED
  BY <1>14, <1>18, <1>19, Zenon

\* The next bit, and the acknowledgement.
LEMMA StepBitHeld ==
    ASSUME WireOK, CtlStep, ctl.st = "HoldBit", ctl.bit > 0
    PROVE  WireOK' /\ (scl /\ scl' => sda_o' = sda_o) /\ DOMAIN devs' = DOMAIN devs
<1> DEFINE e == Head(fmt)
           c == SclOf(ctl', fmt)
           s == SdaOf(ctl', fmt)
<1>1. /\ ctl' = CtlNext(ctl, fmt, sda /\ sda_o) /\ Drive(c, s)
      /\ e \in Entries /\ Sound(e) /\ ctl \in CtlRec /\ BusOK /\ scl = SclOf(ctl, fmt) /\ sda = SdaOf(ctl, fmt)
      /\ Phase(ctl, bus, e, DOMAIN devs)
      /\ ctl.st = "Idle" => ~ctl.nak /\ Ready(ctl, bus, e)
      /\ ctl.nak => ~Found(bus) /\ ctl.started
  BY CtlStepIs, Zenon
<1>2. /\ e.byte \in Byte /\ e.start \in BOOLEAN /\ e.stop \in BOOLEAN /\ e.read \in BOOLEAN
      /\ ctl.bit \in 0 .. 7 /\ ctl.cnt \in Nat /\ ctl.byte \in Byte /\ ctl.started \in BOOLEAN
      /\ ctl.pend \in BOOLEAN /\ ctl.nak \in BOOLEAN /\ ctl.sent \in Seq(Byte)
      /\ bus.numBits \in 0 .. 8 /\ bus.currByte \in Byte /\ bus.reading \in BOOLEAN
      /\ bus.currDevice \in DOMAIN devs \cup {NoDevice}
      /\ scl \in BOOLEAN /\ sda \in BOOLEAN /\ sda_o \in BOOLEAN
  BY <1>1, EntryFields, CtlFieldTypes, BusFieldTypes, Zenon DEF BusOK
<1>3. (~ctl.pend /\
                   IF ctl.bit > 0 THEN Arriving(ctl, bus, e, 8 - ctl.bit)
                   ELSE Acking(ctl, bus, e, DOMAIN devs) /\ bus.state = "SendAckNak")
  BY <1>1, PhaseHoldBit, Zenon
<1>15. ctl' = CtlNext(ctl, fmt, sda /\ sda_o)
  BY <1>1, Zenon
<1>20. ~ctl.pend /\ ~ctl.nak /\ Arriving(ctl, bus, e, 8 - ctl.bit)
  BY <1>3, Zenon DEF Arriving
<1>21. 7 - (ctl.bit - 1) = 8 - ctl.bit
  BY <1>2
<1>22. ctl.bit # 0
  BY <1>2
<1>23. bus.state # "Idle"
  <2>1. bus.state \in {"Addr", "Data"}
    BY <1>20, Zenon DEF Arriving
  <2> QED
    BY <2>1
<1>4. Has(ctl', "ClockLow", ctl.bit - 1, ctl.cnt, ctl.byte, ctl.started, ctl.pend, ctl.nak, ctl.sent)
  <2> DEFINE w1 == [ctl EXCEPT !.st = "ClockLow"]
             w2 == [w1 EXCEPT !.bit = ctl.bit - 1]
  <2>1. ctl' = w2
    BY <1>15, NextHoldBit, <1>22, Zenon
  <2>2. "ClockLow" \in CtlStates
    BY CtlStateNames, Zenon
  <2>3. Has(w1, "ClockLow", ctl.bit, ctl.cnt, ctl.byte, ctl.started, ctl.pend, ctl.nak, ctl.sent)
    BY <1>1, HasItsFields, <2>2, CtlSt, Zenon
  <2> HIDE DEF w1
  <2>4. ctl.bit - 1 \in 0 .. 7
    BY <1>2
  <2>5. Has(w2, "ClockLow", ctl.bit - 1, ctl.cnt, ctl.byte, ctl.started, ctl.pend, ctl.nak, ctl.sent)
    BY <2>3, <2>4, CtlBit, Zenon
  <2> HIDE DEF w2
  <2> QED
    BY <2>1, <2>5, Zenon
<1>5. /\ ctl' \in CtlRec /\ ctl'.st = "ClockLow" /\ ctl'.bit = ctl.bit - 1
      /\ ctl'.cnt = ctl.cnt /\ ctl'.byte = ctl.byte /\ ctl'.started = ctl.started
      /\ ctl'.pend = ctl.pend /\ ctl'.nak = ctl.nak /\ ctl'.sent = ctl.sent
  BY <1>4, Zenon DEF Has
<1>6. c \in BOOLEAN /\ s \in BOOLEAN
  BY <1>1, <1>5, LinesBoolean, Zenon
<1>7. ~scl /\ ~c
  BY <1>1, <1>2, <1>3, <1>5, <1>6, LineHoldBit, LineClockLow, Zenon
<1> HIDE DEF c, s
<1>8. TurnsSame(c, s)
  BY <1>1, <1>6, <1>7, <1>23, DriveLow, Zenon
<1>9. /\ bus'.state = bus.state /\ bus'.numBits = bus.numBits /\ bus'.currByte = bus.currByte
      /\ bus'.currDevice = bus.currDevice /\ bus'.reading = bus.reading
      /\ bus'.sendAck = bus.sendAck /\ bus'.heard = bus.heard
  BY <1>8, Zenon DEF TurnsSame, Turns, Holds
<1>10. IF ctl'.pend THEN e.start /\ ~ctl'.nak /\ ctl'.started /\ Between(ctl', bus') /\ Released(bus')
                ELSE Arriving(ctl', bus', e, 7 - ctl'.bit)
  <2>1. 7 - ctl'.bit = 8 - ctl.bit
    BY <1>5, <1>21, Zenon
  <2>2. Arriving(ctl', bus', e, 7 - ctl'.bit)
    BY <1>5, <1>9, <1>20, <2>1, Zenon DEF Arriving, Found
  <2> QED
    BY <1>5, <1>20, <2>2, Zenon
<1>11. Phase(ctl', bus', e, DOMAIN devs)
  BY <1>5, <1>10, PhaseClockLow, Zenon
<1>12. ctl'.nak => ~Found(bus') /\ ctl'.started
  BY <1>5, <1>20, Zenon
<1>13. bus.currDevice \in DOMAIN devs \cup {NoDevice}
  BY <1>2, Zenon
<1>14. WireOK'
  BY <1>5, <1>8, <1>11, <1>12, <1>13, CtlEnds, Zenon DEF TurnsSame, c, s
<1>18. scl /\ scl' => sda_o' = sda_o
  BY <1>7, <1>8, <1>14, Zenon DEF TurnsSame, Turns
<1>19. DOMAIN devs' = DOMAIN devs
  BY <1>8, Zenon DEF TurnsSame, Turns, SameDevs
<1> QED
  BY <1>14, <1>18, <1>19, Zenon

LEMMA StepByteHeld ==
    ASSUME WireOK, CtlStep, ctl.st = "HoldBit", ctl.bit = 0
    PROVE  WireOK' /\ (scl /\ scl' => sda_o' = sda_o) /\ DOMAIN devs' = DOMAIN devs
<1> DEFINE e == Head(fmt)
           c == SclOf(ctl', fmt)
           s == SdaOf(ctl', fmt)
<1>1. /\ ctl' = CtlNext(ctl, fmt, sda /\ sda_o) /\ Drive(c, s)
      /\ e \in Entries /\ Sound(e) /\ ctl \in CtlRec /\ BusOK /\ scl = SclOf(ctl, fmt) /\ sda = SdaOf(ctl, fmt)
      /\ Phase(ctl, bus, e, DOMAIN devs)
      /\ ctl.st = "Idle" => ~ctl.nak /\ Ready(ctl, bus, e)
      /\ ctl.nak => ~Found(bus) /\ ctl.started
  BY CtlStepIs, Zenon
<1>2. /\ e.byte \in Byte /\ e.start \in BOOLEAN /\ e.stop \in BOOLEAN /\ e.read \in BOOLEAN
      /\ ctl.bit \in 0 .. 7 /\ ctl.cnt \in Nat /\ ctl.byte \in Byte /\ ctl.started \in BOOLEAN
      /\ ctl.pend \in BOOLEAN /\ ctl.nak \in BOOLEAN /\ ctl.sent \in Seq(Byte)
      /\ bus.numBits \in 0 .. 8 /\ bus.currByte \in Byte /\ bus.reading \in BOOLEAN
      /\ bus.currDevice \in DOMAIN devs \cup {NoDevice}
      /\ scl \in BOOLEAN /\ sda \in BOOLEAN /\ sda_o \in BOOLEAN
  BY <1>1, EntryFields, CtlFieldTypes, BusFieldTypes, ZenonT(60) DEF BusOK
<1>3. (~ctl.pend /\
                   IF ctl.bit > 0 THEN Arriving(ctl, bus, e, 8 - ctl.bit)
                   ELSE Acking(ctl, bus, e, DOMAIN devs) /\ bus.state = "SendAckNak")
  BY <1>1, PhaseHoldBit, Zenon
<1>15. ctl' = CtlNext(ctl, fmt, sda /\ sda_o)
  BY <1>1, Zenon
<1>17. ~(ctl.bit > 0)
  BY <1>2
<1>20. ~ctl.nak /\ Acking(ctl, bus, e, DOMAIN devs) /\ bus.state = "SendAckNak"
  BY <1>3, <1>17, Zenon DEF Acking
<1>4. Has(ctl', "ClockLowAck", ctl.bit, ctl.cnt, ctl.byte, ctl.started, ctl.pend, ctl.nak, ctl.sent)
  <2> DEFINE w1 == [ctl EXCEPT !.st = "ClockLowAck"]
  <2>1. ctl' = w1
    BY <1>15, NextHoldBit, Zenon DEF CtlGo
  <2>2. "ClockLowAck" \in CtlStates
    BY CtlStateNames, Zenon
  <2>3. Has(w1, "ClockLowAck", ctl.bit, ctl.cnt, ctl.byte, ctl.started, ctl.pend, ctl.nak, ctl.sent)
    BY <1>1, HasItsFields, <2>2, CtlSt, Zenon
  <2> HIDE DEF w1
  <2> QED
    BY <2>1, <2>3, Zenon
<1>5. /\ ctl' \in CtlRec /\ ctl'.st = "ClockLowAck" /\ ctl'.bit = ctl.bit /\ ctl'.cnt = ctl.cnt
      /\ ctl'.byte = ctl.byte /\ ctl'.started = ctl.started /\ ctl'.pend = ctl.pend
      /\ ctl'.nak = ctl.nak /\ ctl'.sent = ctl.sent
  BY <1>4, Zenon DEF Has
<1>6. c \in BOOLEAN /\ s \in BOOLEAN
  BY <1>1, <1>5, LinesBoolean, Zenon
<1>7. ~scl /\ ~c
  BY <1>1, <1>2, <1>3, <1>5, <1>6, LineHoldBit, LineClockLowAck, Zenon
<1> HIDE DEF c, s
<1>8. TurnsSame(c, s)
  <2>1. bus.state # "Idle"
    BY <1>20
  <2> QED
    BY <1>1, <1>6, <1>7, <2>1, DriveLow, Zenon
<1>9. /\ bus'.state = bus.state /\ bus'.numBits = bus.numBits /\ bus'.currByte = bus.currByte
      /\ bus'.currDevice = bus.currDevice /\ bus'.reading = bus.reading
      /\ bus'.sendAck = bus.sendAck /\ bus'.heard = bus.heard
  BY <1>8, Zenon DEF TurnsSame, Turns, Holds
<1>10. (Acking(ctl', bus', e, DOMAIN devs) /\ bus'.state = "SendAckNak")
  <2>1. Acking(ctl', bus', e, DOMAIN devs)
    BY <1>5, <1>9, <1>20, Zenon DEF Acking, Arrived, Addressee, Found
  <2> QED
    BY <1>5, <1>9, <1>20, <2>1, Zenon
<1>11. Phase(ctl', bus', e, DOMAIN devs)
  BY <1>5, <1>10, PhaseClockLowAck, Zenon
<1>12. ctl'.nak => ~Found(bus') /\ ctl'.started
  BY <1>5, <1>20, Zenon
<1>13. bus.currDevice \in DOMAIN devs \cup {NoDevice}
  BY <1>2, Zenon
<1>14. WireOK'
  BY <1>5, <1>8, <1>11, <1>12, <1>13, CtlEnds, Zenon DEF TurnsSame, c, s
<1>18. scl /\ scl' => sda_o' = sda_o
  BY <1>7, <1>8, <1>14, Zenon DEF TurnsSame, Turns
<1>19. DOMAIN devs' = DOMAIN devs
  BY <1>8, Zenon DEF TurnsSame, Turns, SameDevs
<1> QED
  BY <1>14, <1>18, <1>19, Zenon

LEMMA StepAckRises ==
    ASSUME WireOK, CtlStep, ctl.st = "ClockLowAck"
    PROVE  WireOK' /\ (scl /\ scl' => sda_o' = sda_o) /\ DOMAIN devs' = DOMAIN devs
<1> DEFINE e == Head(fmt)
           c == SclOf(ctl', fmt)
           s == SdaOf(ctl', fmt)
<1>1. /\ ctl' = CtlNext(ctl, fmt, sda /\ sda_o) /\ Drive(c, s)
      /\ e \in Entries /\ Sound(e) /\ ctl \in CtlRec /\ BusOK /\ scl = SclOf(ctl, fmt) /\ sda = SdaOf(ctl, fmt)
      /\ Phase(ctl, bus, e, DOMAIN devs)
      /\ ctl.st = "Idle" => ~ctl.nak /\ Ready(ctl, bus, e)
      /\ ctl.nak => ~Found(bus) /\ ctl.started
  BY CtlStepIs, Zenon
<1>2. /\ e.byte \in Byte /\ e.start \in BOOLEAN /\ e.stop \in BOOLEAN /\ e.read \in BOOLEAN
      /\ ctl.bit \in 0 .. 7 /\ ctl.cnt \in Nat /\ ctl.byte \in Byte /\ ctl.started \in BOOLEAN
      /\ ctl.pend \in BOOLEAN /\ ctl.nak \in BOOLEAN /\ ctl.sent \in Seq(Byte)
      /\ bus.numBits \in 0 .. 8 /\ bus.currByte \in Byte /\ bus.reading \in BOOLEAN
      /\ bus.currDevice \in DOMAIN devs \cup {NoDevice}
      /\ scl \in BOOLEAN /\ sda \in BOOLEAN /\ sda_o \in BOOLEAN
  BY <1>1, EntryFields, CtlFieldTypes, BusFieldTypes, Zenon DEF BusOK
<1>3. (Acking(ctl, bus, e, DOMAIN devs) /\ bus.state = "SendAckNak")
  BY <1>1, PhaseClockLowAck, Zenon
<1>15. ctl' = CtlNext(ctl, fmt, sda /\ sda_o)
  BY <1>1, Zenon
<1>20. ~ctl.nak /\ Acking(ctl, bus, e, DOMAIN devs) /\ bus.state = "SendAckNak"
  BY <1>3, Zenon DEF Acking
<1>4. Has(ctl', "ClockPulseAck", ctl.bit, ctl.cnt, ctl.byte, ctl.started, ctl.pend, ctl.nak, ctl.sent)
  <2> DEFINE w1 == [ctl EXCEPT !.st = "ClockPulseAck"]
  <2>1. ctl' = w1
    BY <1>15, NextClockLowAck, Zenon DEF CtlGo
  <2>2. "ClockPulseAck" \in CtlStates
    BY CtlStateNames, Zenon
  <2>3. Has(w1, "ClockPulseAck", ctl.bit, ctl.cnt, ctl.byte, ctl.started, ctl.pend, ctl.nak, ctl.sent)
    BY <1>1, HasItsFields, <2>2, CtlSt, Zenon
  <2> HIDE DEF w1
  <2> QED
    BY <2>1, <2>3, Zenon
<1>5. /\ ctl' \in CtlRec /\ ctl'.st = "ClockPulseAck" /\ ctl'.bit = ctl.bit
      /\ ctl'.cnt = ctl.cnt /\ ctl'.byte = ctl.byte /\ ctl'.started = ctl.started
      /\ ctl'.pend = ctl.pend /\ ctl'.nak = ctl.nak /\ ctl'.sent = ctl.sent
  BY <1>4, Zenon DEF Has
<1>6. c \in BOOLEAN /\ s \in BOOLEAN
  BY <1>1, <1>5, LinesBoolean, Zenon
<1>7. ~scl /\ c
  BY <1>1, <1>2, <1>3, <1>5, <1>6, LineClockLowAck, LineClockPulseAck, Zenon
<1> HIDE DEF c, s
<1>8. TurnsSame(c, s)
  BY <1>1, <1>6, <1>7, <1>20, DriveAckRises, Zenon
<1>9. /\ bus'.state = bus.state /\ bus'.numBits = bus.numBits /\ bus'.currByte = bus.currByte
      /\ bus'.currDevice = bus.currDevice /\ bus'.reading = bus.reading
      /\ bus'.sendAck = bus.sendAck /\ bus'.heard = bus.heard
  BY <1>8, Zenon DEF TurnsSame, Turns, Holds
<1>10. (Acking(ctl', bus', e, DOMAIN devs) /\ bus'.state = "SendAckNak")
  <2>1. Acking(ctl', bus', e, DOMAIN devs)
    BY <1>5, <1>9, <1>20, Zenon DEF Acking, Arrived, Addressee, Found
  <2> QED
    BY <1>5, <1>9, <1>20, <2>1, Zenon
<1>11. Phase(ctl', bus', e, DOMAIN devs)
  BY <1>5, <1>10, PhaseClockPulseAck, Zenon
<1>12. ctl'.nak => ~Found(bus') /\ ctl'.started
  BY <1>5, <1>20, Zenon
<1>13. bus.currDevice \in DOMAIN devs \cup {NoDevice}
  BY <1>2, Zenon
<1>14. WireOK'
  BY <1>5, <1>8, <1>11, <1>12, <1>13, CtlEnds, Zenon DEF TurnsSame, c, s
<1>18. scl /\ scl' => sda_o' = sda_o
  BY <1>7, <1>8, <1>14, Zenon DEF TurnsSame, Turns
<1>19. DOMAIN devs' = DOMAIN devs
  BY <1>8, Zenon DEF TurnsSame, Turns, SameDevs
<1> QED
  BY <1>14, <1>18, <1>19, Zenon

\* The acknowledgement has been seen.
LEMMA StepAckFalls ==
    ASSUME WireOK, CtlStep, ctl.st = "ClockPulseAck"
    PROVE  WireOK' /\ (scl /\ scl' => sda_o' = sda_o) /\ DOMAIN devs' = DOMAIN devs
<1> DEFINE e == Head(fmt)
           c == SclOf(ctl', fmt)
           s == SdaOf(ctl', fmt)
<1>1. /\ ctl' = CtlNext(ctl, fmt, sda /\ sda_o) /\ Drive(c, s)
      /\ e \in Entries /\ Sound(e) /\ ctl \in CtlRec /\ BusOK /\ scl = SclOf(ctl, fmt) /\ sda = SdaOf(ctl, fmt)
      /\ Phase(ctl, bus, e, DOMAIN devs)
      /\ ctl.st = "Idle" => ~ctl.nak /\ Ready(ctl, bus, e)
      /\ ctl.nak => ~Found(bus) /\ ctl.started
  BY CtlStepIs, Zenon
<1>2. /\ e.byte \in Byte /\ e.start \in BOOLEAN /\ e.stop \in BOOLEAN /\ e.read \in BOOLEAN
      /\ ctl.bit \in 0 .. 7 /\ ctl.cnt \in Nat /\ ctl.byte \in Byte /\ ctl.started \in BOOLEAN
      /\ ctl.pend \in BOOLEAN /\ ctl.nak \in BOOLEAN /\ ctl.sent \in Seq(Byte)
      /\ bus.numBits \in 0 .. 8 /\ bus.currByte \in Byte /\ bus.reading \in BOOLEAN
      /\ bus.currDevice \in DOMAIN devs \cup {NoDevice}
      /\ scl \in BOOLEAN /\ sda \in BOOLEAN /\ sda_o \in BOOLEAN
  BY <1>1, EntryFields, CtlFieldTypes, BusFieldTypes, Zenon DEF BusOK
<1>3. (Acking(ctl, bus, e, DOMAIN devs) /\ bus.state = "SendAckNak")
  BY <1>1, PhaseClockPulseAck, Zenon
<1>15. ctl' = CtlNext(ctl, fmt, sda /\ sda_o)
  BY <1>1, Zenon
<1>20. ~ctl.nak /\ Acking(ctl, bus, e, DOMAIN devs) /\ bus.state = "SendAckNak"
  BY <1>3, Zenon DEF Acking
<1> DEFINE m == ctl.nak \/ (sda /\ sda_o)
           p == IF e.start THEN ctl.sent ELSE Append(ctl.sent, e.byte)
<1>21. m = ~Found(bus)
  <2>1. scl /\ sda
    BY <1>1, LineClockPulseAck, Zenon
  <2>2. sda_o = Out(bus)
    BY <1>1, <2>1, Zenon DEF BusOK
  <2>3. Out(bus) = ~Found(bus)
    BY <1>20 DEF Out
  <2> QED
    BY <1>20, <2>1, <2>2, <2>3, Zenon DEF m
<1>22. p \in Seq(Byte)
  <2>1. Append(ctl.sent, e.byte) \in Seq(Byte)
    BY <1>2
  <2> QED
    BY <1>2, <2>1, Zenon DEF p
<1>23. p = bus.heard
  BY <1>2, <1>20, Zenon DEF Acking, Arrived, p
<1>24. e.start => p = <<>>
  BY <1>20, Zenon DEF Acking, Arrived, p
<1>25. ctl' = [ctl EXCEPT !.st = "HoldDevAck", !.nak = m, !.sent = p]
  <2>1. ctl' = [ctl EXCEPT !.st = "HoldDevAck", !.nak = ctl.nak \/ (sda /\ sda_o),
                       !.sent = IF e.start THEN ctl.sent ELSE Append(ctl.sent, e.byte)]
    BY <1>15, Zenon DEF CtlNext
  <2> QED
    BY <2>1 DEF m, p
<1> HIDE DEF m, p
<1>4. Has(ctl', "HoldDevAck", ctl.bit, ctl.cnt, ctl.byte, ctl.started, ctl.pend, m, p)
  <2> DEFINE w1 == [ctl EXCEPT !.st = "HoldDevAck"]
             w2 == [w1 EXCEPT !.nak = m]
             w3 == [w2 EXCEPT !.sent = p]
  <2>1. ctl' = w3
    BY <1>25, Zenon
  <2>2. "HoldDevAck" \in CtlStates
    BY CtlStateNames, Zenon
  <2>3. Has(w1, "HoldDevAck", ctl.bit, ctl.cnt, ctl.byte, ctl.started, ctl.pend, ctl.nak, ctl.sent)
    BY <1>1, HasItsFields, <2>2, CtlSt, Zenon
  <2> HIDE DEF w1
  <2>4. m \in BOOLEAN
    BY <1>21, Zenon DEF Found
  <2>5. Has(w2, "HoldDevAck", ctl.bit, ctl.cnt, ctl.byte, ctl.started, ctl.pend, m, ctl.sent)
    BY <2>3, <2>4, CtlNak, Zenon
  <2> HIDE DEF w2
  <2>6. p \in Seq(Byte)
    BY <1>22, Zenon
  <2>7. Has(w3, "HoldDevAck", ctl.bit, ctl.cnt, ctl.byte, ctl.started, ctl.pend, m, p)
    BY <2>5, <2>6, CtlSent, Zenon
  <2> HIDE DEF w3
  <2> QED
    BY <2>1, <2>7, Zenon
<1>5. /\ ctl' \in CtlRec /\ ctl'.st = "HoldDevAck" /\ ctl'.bit = ctl.bit /\ ctl'.cnt = ctl.cnt
      /\ ctl'.byte = ctl.byte /\ ctl'.started = ctl.started /\ ctl'.pend = ctl.pend
      /\ ctl'.nak = m /\ ctl'.sent = p
  BY <1>4, Zenon DEF Has
<1>6. c \in BOOLEAN /\ s \in BOOLEAN
  BY <1>1, <1>5, LinesBoolean, Zenon
<1>7. scl /\ ~c
  BY <1>1, <1>2, <1>3, <1>5, <1>6, LineClockPulseAck, LineHoldDevAck, Zenon
<1> HIDE DEF c, s
<1>8. Turns(c, s, "Data", bus.numBits, bus.currByte, bus.currDevice, bus.reading, bus.sendAck, bus.heard)
  BY <1>1, <1>6, <1>7, <1>20, DriveAckFalls, Zenon
<1>9. /\ bus'.state = "Data" /\ bus'.numBits = bus.numBits /\ bus'.currByte = bus.currByte
      /\ bus'.currDevice = bus.currDevice /\ bus'.reading = bus.reading
      /\ bus'.sendAck = bus.sendAck /\ bus'.heard = bus.heard
  BY <1>8, Zenon DEF TurnsSame, Turns, Holds
<1>10. (Arrived(ctl', bus', e, DOMAIN devs) /\ bus'.state = "Data" /\ bus'.heard = ctl'.sent /\ ctl'.nak = ~Found(bus'))
  <2>1. Arrived(ctl', bus', e, DOMAIN devs)
    BY <1>5, <1>9, <1>20, <1>24, Zenon DEF Acking, Arrived, Addressee, Found
  <2>2. ctl'.nak = ~Found(bus')
    BY <1>5, <1>9, <1>21, Zenon DEF Found
  <2> QED
    BY <1>5, <1>9, <1>23, <2>1, <2>2, Zenon
<1>11. Phase(ctl', bus', e, DOMAIN devs)
  BY <1>5, <1>10, PhaseHoldDevAck, Zenon
<1>12. ctl'.nak => ~Found(bus') /\ ctl'.started
  <2>1. ctl.started
    BY <1>20, Zenon DEF Acking, Arrived
  <2> QED
    BY <1>5, <1>9, <1>21, <2>1, Zenon DEF Found
<1>13. bus.currDevice \in DOMAIN devs \cup {NoDevice}
  BY <1>2, Zenon
<1>14. WireOK'
  BY <1>5, <1>8, <1>11, <1>12, <1>13, CtlEnds, Zenon DEF TurnsSame, c, s
<1>18. scl /\ scl' => sda_o' = sda_o
  BY <1>7, <1>8, <1>14, Zenon DEF TurnsSame, Turns
<1>19. DOMAIN devs' = DOMAIN devs
  BY <1>8, Zenon DEF TurnsSame, Turns, SameDevs
<1> QED
  BY <1>14, <1>18, <1>19, Zenon

\* A byte is done with.
LEMMA StepAckedStop ==
    ASSUME WireOK, CtlStep, ctl.st = "HoldDevAck", Head(fmt).stop
    PROVE  WireOK' /\ (scl /\ scl' => sda_o' = sda_o) /\ DOMAIN devs' = DOMAIN devs
<1> DEFINE e == Head(fmt)
           c == SclOf(ctl', fmt)
           s == SdaOf(ctl', fmt)
<1>1. /\ ctl' = CtlNext(ctl, fmt, sda /\ sda_o) /\ Drive(c, s)
      /\ e \in Entries /\ Sound(e) /\ ctl \in CtlRec /\ BusOK /\ scl = SclOf(ctl, fmt) /\ sda = SdaOf(ctl, fmt)
      /\ Phase(ctl, bus, e, DOMAIN devs)
      /\ ctl.st = "Idle" => ~ctl.nak /\ Ready(ctl, bus, e)
      /\ ctl.nak => ~Found(bus) /\ ctl.started
  BY CtlStepIs, Zenon
<1>2. /\ e.byte \in Byte /\ e.start \in BOOLEAN /\ e.stop \in BOOLEAN /\ e.read \in BOOLEAN
      /\ ctl.bit \in 0 .. 7 /\ ctl.cnt \in Nat /\ ctl.byte \in Byte /\ ctl.started \in BOOLEAN
      /\ ctl.pend \in BOOLEAN /\ ctl.nak \in BOOLEAN /\ ctl.sent \in Seq(Byte)
      /\ bus.numBits \in 0 .. 8 /\ bus.currByte \in Byte /\ bus.reading \in BOOLEAN
      /\ bus.currDevice \in DOMAIN devs \cup {NoDevice}
      /\ scl \in BOOLEAN /\ sda \in BOOLEAN /\ sda_o \in BOOLEAN
  BY <1>1, EntryFields, CtlFieldTypes, BusFieldTypes, Zenon DEF BusOK
<1>3. (Arrived(ctl, bus, e, DOMAIN devs) /\ bus.state = "Data" /\ bus.heard = ctl.sent /\ ctl.nak = ~Found(bus))
  BY <1>1, PhaseHoldDevAck, Zenon
<1>15. ctl' = CtlNext(ctl, fmt, sda /\ sda_o)
  BY <1>1, Zenon
<1>20. Arrived(ctl, bus, e, DOMAIN devs) /\ bus.state = "Data" /\ bus.heard = ctl.sent /\ ctl.nak = ~Found(bus)
  BY <1>3, Zenon
<1>21. ctl.started /\ bus.numBits = 0 /\ (~e.start => Found(bus) /\ ~bus.reading)
  BY <1>20, Zenon DEF Arrived
<1>22. ~e.start
  BY <1>1, Zenon DEF Sound
<1>4. Has(ctl', "ClockStop", ctl.bit, ctl.cnt, ctl.byte, ctl.started, ctl.pend, ctl.nak, ctl.sent)
  <2> DEFINE w1 == [ctl EXCEPT !.st = "ClockStop"]
  <2>1. ctl' = w1
    BY <1>15, NextHoldDevAck, Zenon DEF AfterLast, CtlGo
  <2>2. "ClockStop" \in CtlStates
    BY CtlStateNames, Zenon
  <2>3. Has(w1, "ClockStop", ctl.bit, ctl.cnt, ctl.byte, ctl.started, ctl.pend, ctl.nak, ctl.sent)
    BY <1>1, HasItsFields, <2>2, CtlSt, Zenon
  <2> HIDE DEF w1
  <2> QED
    BY <2>1, <2>3, Zenon
<1>5. /\ ctl' \in CtlRec /\ ctl'.st = "ClockStop" /\ ctl'.bit = ctl.bit /\ ctl'.cnt = ctl.cnt
      /\ ctl'.byte = ctl.byte /\ ctl'.started = ctl.started /\ ctl'.pend = ctl.pend
      /\ ctl'.nak = ctl.nak /\ ctl'.sent = ctl.sent
  BY <1>4, Zenon DEF Has
<1>6. c \in BOOLEAN /\ s \in BOOLEAN
  BY <1>1, <1>5, LinesBoolean, Zenon
<1>7. ~scl /\ ~c
  BY <1>1, <1>2, <1>3, <1>5, <1>6, LineHoldDevAck, LineClockStop, Zenon
<1> HIDE DEF c, s
<1>8. TurnsSame(c, s)
  <2>1. bus.state # "Idle"
    BY <1>20
  <2> QED
    BY <1>1, <1>6, <1>7, <2>1, DriveLow, Zenon
<1>9. /\ bus'.state = bus.state /\ bus'.numBits = bus.numBits /\ bus'.currByte = bus.currByte
      /\ bus'.currDevice = bus.currDevice /\ bus'.reading = bus.reading
      /\ bus'.sendAck = bus.sendAck /\ bus'.heard = bus.heard
  BY <1>8, Zenon DEF TurnsSame, Turns, Holds
<1>10. (ctl'.started /\ Stopping(ctl', bus', e) /\ bus'.numBits = 0)
  <2>1. Released(bus')
    BY <1>9, <1>21, <1>22, Zenon DEF Released, Found
  <2> QED
    BY <1>5, <1>9, <1>20, <1>21, <1>22, <2>1, Zenon DEF Stopping
<1>11. Phase(ctl', bus', e, DOMAIN devs)
  BY <1>5, <1>10, PhaseClockStop, Zenon
<1>12. ctl'.nak => ~Found(bus') /\ ctl'.started
  BY <1>5, <1>20, <1>21, <1>22, Zenon
<1>13. bus.currDevice \in DOMAIN devs \cup {NoDevice}
  BY <1>2, Zenon
<1>14. WireOK'
  BY <1>5, <1>8, <1>11, <1>12, <1>13, CtlEnds, Zenon DEF TurnsSame, c, s
<1>18. scl /\ scl' => sda_o' = sda_o
  BY <1>7, <1>8, <1>14, Zenon DEF TurnsSame, Turns
<1>19. DOMAIN devs' = DOMAIN devs
  BY <1>8, Zenon DEF TurnsSame, Turns, SameDevs
<1> QED
  BY <1>14, <1>18, <1>19, Zenon

LEMMA StepAcked ==
    ASSUME WireOK, CtlStep, ctl.st = "HoldDevAck", ~Head(fmt).stop
    PROVE  WireOK' /\ (scl /\ scl' => sda_o' = sda_o) /\ DOMAIN devs' = DOMAIN devs
<1> DEFINE e == Head(fmt)
           c == SclOf(ctl', fmt)
           s == SdaOf(ctl', fmt)
<1>1. /\ ctl' = CtlNext(ctl, fmt, sda /\ sda_o) /\ Drive(c, s)
      /\ e \in Entries /\ Sound(e) /\ ctl \in CtlRec /\ BusOK /\ scl = SclOf(ctl, fmt) /\ sda = SdaOf(ctl, fmt)
      /\ Phase(ctl, bus, e, DOMAIN devs)
      /\ ctl.st = "Idle" => ~ctl.nak /\ Ready(ctl, bus, e)
      /\ ctl.nak => ~Found(bus) /\ ctl.started
  BY CtlStepIs, Zenon
<1>2. /\ e.byte \in Byte /\ e.start \in BOOLEAN /\ e.stop \in BOOLEAN /\ e.read \in BOOLEAN
      /\ ctl.bit \in 0 .. 7 /\ ctl.cnt \in Nat /\ ctl.byte \in Byte /\ ctl.started \in BOOLEAN
      /\ ctl.pend \in BOOLEAN /\ ctl.nak \in BOOLEAN /\ ctl.sent \in Seq(Byte)
      /\ bus.numBits \in 0 .. 8 /\ bus.currByte \in Byte /\ bus.reading \in BOOLEAN
      /\ bus.currDevice \in DOMAIN devs \cup {NoDevice}
      /\ scl \in BOOLEAN /\ sda \in BOOLEAN /\ sda_o \in BOOLEAN
  BY <1>1, EntryFields, CtlFieldTypes, BusFieldTypes, Zenon DEF BusOK
<1>3. (Arrived(ctl, bus, e, DOMAIN devs) /\ bus.state = "Data" /\ bus.heard = ctl.sent /\ ctl.nak = ~Found(bus))
  BY <1>1, PhaseHoldDevAck, Zenon
<1>15. ctl' = CtlNext(ctl, fmt, sda /\ sda_o)
  BY <1>1, Zenon
<1>20. Arrived(ctl, bus, e, DOMAIN devs) /\ bus.state = "Data" /\ bus.heard = ctl.sent /\ ctl.nak = ~Found(bus)
  BY <1>3, Zenon
<1>21. ctl.started /\ bus.numBits = 0 /\ (~e.start => Found(bus) /\ ~bus.reading)
  BY <1>20, Zenon DEF Arrived
<1>4. Has(ctl', "PopFmtFifo", ctl.bit, ctl.cnt, ctl.byte, ctl.started, ctl.pend, ctl.nak, ctl.sent)
  <2> DEFINE w1 == [ctl EXCEPT !.st = "PopFmtFifo"]
  <2>1. ctl' = w1
    BY <1>15, NextHoldDevAck, Zenon DEF AfterLast, CtlGo
  <2>2. "PopFmtFifo" \in CtlStates
    BY CtlStateNames, Zenon
  <2>3. Has(w1, "PopFmtFifo", ctl.bit, ctl.cnt, ctl.byte, ctl.started, ctl.pend, ctl.nak, ctl.sent)
    BY <1>1, HasItsFields, <2>2, CtlSt, Zenon
  <2> HIDE DEF w1
  <2> QED
    BY <2>1, <2>3, Zenon
<1>5. /\ ctl' \in CtlRec /\ ctl'.st = "PopFmtFifo" /\ ctl'.bit = ctl.bit /\ ctl'.cnt = ctl.cnt
      /\ ctl'.byte = ctl.byte /\ ctl'.started = ctl.started /\ ctl'.pend = ctl.pend
      /\ ctl'.nak = ctl.nak /\ ctl'.sent = ctl.sent
  BY <1>4, Zenon DEF Has
<1>6. c \in BOOLEAN /\ s \in BOOLEAN
  BY <1>1, <1>5, LinesBoolean, Zenon
<1>7. ~scl /\ ~c
  BY <1>1, <1>2, <1>3, <1>5, <1>6, LineHoldDevAck, LinePopFmtFifo, ZenonT(60)
<1> HIDE DEF c, s
<1>8. TurnsSame(c, s)
  <2>1. bus.state # "Idle"
    BY <1>20
  <2> QED
    BY <1>1, <1>6, <1>7, <2>1, DriveLow, Zenon
<1>9. /\ bus'.state = bus.state /\ bus'.numBits = bus.numBits /\ bus'.currByte = bus.currByte
      /\ bus'.currDevice = bus.currDevice /\ bus'.reading = bus.reading
      /\ bus'.sendAck = bus.sendAck /\ bus'.heard = bus.heard
  BY <1>8, Zenon DEF TurnsSame, Turns, Holds
<1>10. (Between(ctl', bus') /\ Done(ctl', bus', e) /\ (e.start => Addressee(bus', e, DOMAIN devs)))
  <2>1. Between(ctl', bus')
    BY <1>5, <1>9, <1>20, <1>21, Zenon DEF Between, Found
  <2>2. e.start => Addressee(bus', e, DOMAIN devs)
    BY <1>5, <1>9, <1>20, Zenon DEF Arrived, Addressee
  <2>3. ~e.read
    BY <1>20, Zenon DEF Arrived
  <2>4. Done(ctl', bus', e)
    <3>1. ctl'.started = ~e.stop
      BY <1>2, <1>5, <1>21, Zenon
    <3>2. e.start => bus'.reading = Odd(e) /\ (Found(bus') \/ ctl'.nak)
      BY <1>5, <1>9, <1>20, <2>2, Zenon DEF Addressee, Found
    <3>3. ~e.start => ~ctl'.nak
      BY <1>5, <1>20, <1>21, Zenon
    <3>4. ~e.start => Found(bus') /\ bus'.reading = e.read /\ Released(bus')
      BY <1>2, <1>9, <1>21, <2>3, Zenon DEF Found, Released
    <3> QED
      BY <3>1, <3>2, <3>3, <3>4, Zenon DEF Done
  <2> QED
    BY <1>5, <1>9, <2>1, <2>2, <2>4, Zenon
<1>11. Phase(ctl', bus', e, DOMAIN devs)
  BY <1>5, <1>10, PhasePopFmtFifo, Zenon
<1>12. ctl'.nak => ~Found(bus') /\ ctl'.started
  BY <1>5, <1>9, <1>20, <1>21, Zenon DEF Found
<1>13. bus.currDevice \in DOMAIN devs \cup {NoDevice}
  BY <1>2, Zenon
<1>14. WireOK'
  BY <1>5, <1>8, <1>11, <1>12, <1>13, CtlEnds, Zenon DEF TurnsSame, c, s
<1>18. scl /\ scl' => sda_o' = sda_o
  BY <1>7, <1>8, <1>14, Zenon DEF TurnsSame, Turns
<1>19. DOMAIN devs' = DOMAIN devs
  BY <1>8, Zenon DEF TurnsSame, Turns, SameDevs
<1> QED
  BY <1>14, <1>18, <1>19, Zenon
\* A bit of a byte a device sends.
LEMMA StepReadRises ==
    ASSUME WireOK, CtlStep, ctl.st = "ReadClockLow"
    PROVE  WireOK' /\ (scl /\ scl' => sda_o' = sda_o) /\ DOMAIN devs' = DOMAIN devs
<1> DEFINE e == Head(fmt)
           c == SclOf(ctl', fmt)
           s == SdaOf(ctl', fmt)
<1>1. /\ ctl' = CtlNext(ctl, fmt, sda /\ sda_o) /\ Drive(c, s)
      /\ e \in Entries /\ Sound(e) /\ ctl \in CtlRec /\ BusOK /\ scl = SclOf(ctl, fmt) /\ sda = SdaOf(ctl, fmt)
      /\ Phase(ctl, bus, e, DOMAIN devs)
      /\ ctl.st = "Idle" => ~ctl.nak /\ Ready(ctl, bus, e)
      /\ ctl.nak => ~Found(bus) /\ ctl.started
  BY CtlStepIs, Zenon
<1>2. /\ e.byte \in Byte /\ e.start \in BOOLEAN /\ e.stop \in BOOLEAN /\ e.read \in BOOLEAN
      /\ ctl.bit \in 0 .. 7 /\ ctl.cnt \in Nat /\ ctl.byte \in Byte /\ ctl.started \in BOOLEAN
      /\ ctl.pend \in BOOLEAN /\ ctl.nak \in BOOLEAN /\ ctl.sent \in Seq(Byte)
      /\ bus.numBits \in 0 .. 8 /\ bus.currByte \in Byte /\ bus.reading \in BOOLEAN
      /\ bus.currDevice \in DOMAIN devs \cup {NoDevice}
      /\ scl \in BOOLEAN /\ sda \in BOOLEAN /\ sda_o \in BOOLEAN
  BY <1>1, EntryFields, CtlFieldTypes, BusFieldTypes, Zenon DEF BusOK
<1>3. (Sending(ctl, bus, e) /\ bus.state = "Data" /\ Shifted(bus, 7 - ctl.bit))
  BY <1>1, PhaseReadClockLow, Zenon
<1>15. ctl' = CtlNext(ctl, fmt, sda /\ sda_o)
  BY <1>1, Zenon
<1>20. Sending(ctl, bus, e) /\ ~ctl.nak /\ Found(bus) /\ bus.reading /\ ctl.started
  BY <1>3, Zenon DEF Sending
<1>4. Has(ctl', "ReadClockPulse", ctl.bit, ctl.cnt, ctl.byte, ctl.started, ctl.pend, ctl.nak, ctl.sent)
  <2> DEFINE w1 == [ctl EXCEPT !.st = "ReadClockPulse"]
  <2>1. ctl' = w1
    BY <1>15, NextReadClockLow, Zenon DEF CtlGo
  <2>2. "ReadClockPulse" \in CtlStates
    BY CtlStateNames, Zenon
  <2>3. Has(w1, "ReadClockPulse", ctl.bit, ctl.cnt, ctl.byte, ctl.started, ctl.pend, ctl.nak, ctl.sent)
    BY <1>1, HasItsFields, <2>2, CtlSt, Zenon
  <2> HIDE DEF w1
  <2> QED
    BY <2>1, <2>3, Zenon
<1>5. /\ ctl' \in CtlRec /\ ctl'.st = "ReadClockPulse" /\ ctl'.bit = ctl.bit
      /\ ctl'.cnt = ctl.cnt /\ ctl'.byte = ctl.byte /\ ctl'.started = ctl.started
      /\ ctl'.pend = ctl.pend /\ ctl'.nak = ctl.nak /\ ctl'.sent = ctl.sent
  BY <1>4, Zenon DEF Has
<1>6. c \in BOOLEAN /\ s \in BOOLEAN
  BY <1>1, <1>5, LinesBoolean, Zenon
<1>7. ~scl /\ c /\ s = sda
  BY <1>1, <1>2, <1>3, <1>5, <1>6, LineReadClockLow, LineReadClockPulse, Zenon
<1> HIDE DEF c, s
<1>8. TurnsSame(c, s)
  BY <1>1, <1>3, <1>6, <1>7, <1>20, DriveSendRises, Zenon
<1>9. /\ bus'.state = bus.state /\ bus'.numBits = bus.numBits /\ bus'.currByte = bus.currByte
      /\ bus'.currDevice = bus.currDevice /\ bus'.reading = bus.reading
      /\ bus'.sendAck = bus.sendAck /\ bus'.heard = bus.heard
  BY <1>8, Zenon DEF TurnsSame, Turns, Holds
<1>10. (Sending(ctl', bus', e) /\ bus'.state = "Data" /\ Shifted(bus', 7 - ctl'.bit))
  <2>1. Sending(ctl', bus', e)
    BY <1>5, <1>9, <1>20, Zenon DEF Sending, Found
  <2> QED
    BY <1>3, <1>5, <1>9, <2>1, Zenon DEF Shifted
<1>11. Phase(ctl', bus', e, DOMAIN devs)
  BY <1>5, <1>10, PhaseReadClockPulse, Zenon
<1>12. ctl'.nak => ~Found(bus') /\ ctl'.started
  BY <1>5, <1>20, Zenon
<1>13. bus.currDevice \in DOMAIN devs \cup {NoDevice}
  BY <1>2, Zenon
<1>14. WireOK'
  BY <1>5, <1>8, <1>11, <1>12, <1>13, CtlEnds, Zenon DEF TurnsSame, c, s
<1>18. scl /\ scl' => sda_o' = sda_o
  BY <1>7, <1>8, <1>14, Zenon DEF TurnsSame, Turns
<1>19. DOMAIN devs' = DOMAIN devs
  BY <1>8, Zenon DEF TurnsSame, Turns, SameDevs
<1> QED
  BY <1>14, <1>18, <1>19, Zenon

LEMMA StepReadFalls ==
    ASSUME WireOK, CtlStep, ctl.st = "ReadClockPulse"
    PROVE  WireOK' /\ (scl /\ scl' => sda_o' = sda_o) /\ DOMAIN devs' = DOMAIN devs
<1> DEFINE e == Head(fmt)
           c == SclOf(ctl', fmt)
           s == SdaOf(ctl', fmt)
<1>1. /\ ctl' = CtlNext(ctl, fmt, sda /\ sda_o) /\ Drive(c, s)
      /\ e \in Entries /\ Sound(e) /\ ctl \in CtlRec /\ BusOK /\ scl = SclOf(ctl, fmt) /\ sda = SdaOf(ctl, fmt)
      /\ Phase(ctl, bus, e, DOMAIN devs)
      /\ ctl.st = "Idle" => ~ctl.nak /\ Ready(ctl, bus, e)
      /\ ctl.nak => ~Found(bus) /\ ctl.started
  BY CtlStepIs, Zenon
<1>2. /\ e.byte \in Byte /\ e.start \in BOOLEAN /\ e.stop \in BOOLEAN /\ e.read \in BOOLEAN
      /\ ctl.bit \in 0 .. 7 /\ ctl.cnt \in Nat /\ ctl.byte \in Byte /\ ctl.started \in BOOLEAN
      /\ ctl.pend \in BOOLEAN /\ ctl.nak \in BOOLEAN /\ ctl.sent \in Seq(Byte)
      /\ bus.numBits \in 0 .. 8 /\ bus.currByte \in Byte /\ bus.reading \in BOOLEAN
      /\ bus.currDevice \in DOMAIN devs \cup {NoDevice}
      /\ scl \in BOOLEAN /\ sda \in BOOLEAN /\ sda_o \in BOOLEAN
  BY <1>1, EntryFields, CtlFieldTypes, BusFieldTypes, Zenon DEF BusOK
<1>3. (Sending(ctl, bus, e) /\ bus.state = "Data" /\ Shifted(bus, 7 - ctl.bit))
  BY <1>1, PhaseReadClockPulse, Zenon
<1>15. ctl' = CtlNext(ctl, fmt, sda /\ sda_o)
  BY <1>1, Zenon
<1>20. Sending(ctl, bus, e) /\ ~ctl.nak /\ Found(bus) /\ bus.reading /\ ctl.started
  BY <1>3, Zenon DEF Sending
<1>21. bus.numBits = 7 - ctl.bit /\ Ones(bus.currByte, 7 - ctl.bit) /\ bus.state = "Data"
  BY <1>3, Zenon DEF Shifted
<1> DEFINE m == ShiftIn(ctl.byte, sda /\ sda_o)
           k == bus.numBits + 1
           q == IF bus.numBits + 1 >= 8 THEN "SentData" ELSE "Data"
           y == ShiftIn(bus.currByte, TRUE)
<1>22. m \in Byte
  BY <1>2, ShiftInByte, Zenon
<1>23. ctl' = [ctl EXCEPT !.st = "ReadHoldBit", !.byte = m]
  BY <1>15, Zenon DEF CtlNext
<1>24. bus.numBits < 8 /\ k = 8 - ctl.bit /\ q = (IF ctl.bit = 0 THEN "SentData" ELSE "Data")
  BY <1>2, <1>21
<1>25. Ones(y, k)
  <2> DEFINE j == 7 - ctl.bit
  <2>1. j \in 0 .. 7 /\ j + 1 = k
    BY <1>2, <1>21
  <2>2. Ones(bus.currByte, j)
    BY <1>21, Zenon
  <2> HIDE DEF j, k
  <2>3. Ones(ShiftIn(bus.currByte, TRUE), j + 1)
    BY <1>2, <2>1, <2>2, OnesNext, Zenon
  <2> QED
    BY <2>1, <2>3, Zenon
<1> HIDE DEF m
<1>4. Has(ctl', "ReadHoldBit", ctl.bit, ctl.cnt, m, ctl.started, ctl.pend, ctl.nak, ctl.sent)
  <2> DEFINE w1 == [ctl EXCEPT !.st = "ReadHoldBit"]
             w2 == [w1 EXCEPT !.byte = m]
  <2>1. ctl' = w2
    BY <1>23, Zenon
  <2>2. "ReadHoldBit" \in CtlStates
    BY CtlStateNames, Zenon
  <2>3. Has(w1, "ReadHoldBit", ctl.bit, ctl.cnt, ctl.byte, ctl.started, ctl.pend, ctl.nak, ctl.sent)
    BY <1>1, HasItsFields, <2>2, CtlSt, Zenon
  <2> HIDE DEF w1
  <2>4. m \in Byte
    BY <1>22, Zenon
  <2>5. Has(w2, "ReadHoldBit", ctl.bit, ctl.cnt, m, ctl.started, ctl.pend, ctl.nak, ctl.sent)
    BY <2>3, <2>4, CtlByte, Zenon
  <2> HIDE DEF w2
  <2> QED
    BY <2>1, <2>5, Zenon
<1>5. /\ ctl' \in CtlRec /\ ctl'.st = "ReadHoldBit" /\ ctl'.bit = ctl.bit /\ ctl'.cnt = ctl.cnt
      /\ ctl'.byte = m /\ ctl'.started = ctl.started /\ ctl'.pend = ctl.pend
      /\ ctl'.nak = ctl.nak /\ ctl'.sent = ctl.sent
  BY <1>4, Zenon DEF Has
<1>6. c \in BOOLEAN /\ s \in BOOLEAN
  BY <1>1, <1>5, LinesBoolean, Zenon
<1>7. scl /\ ~c
  BY <1>1, <1>2, <1>3, <1>5, <1>6, LineReadClockPulse, LineReadHoldBit, Zenon
<1> HIDE DEF c, s
<1>8. Turns(c, s, q, k, y, bus.currDevice, bus.reading, bus.sendAck, bus.heard)
  BY <1>1, <1>6, <1>7, <1>20, <1>21, <1>24, DriveSendFalls, Zenon
<1>9. /\ bus'.state = q /\ bus'.numBits = k /\ bus'.currByte = y
      /\ bus'.currDevice = bus.currDevice /\ bus'.reading = bus.reading
      /\ bus'.sendAck = bus.sendAck /\ bus'.heard = bus.heard
  BY <1>8, Zenon DEF TurnsSame, Turns, Holds
<1>10. (Sending(ctl', bus', e) /\ bus'.state = (IF ctl'.bit = 0 THEN "SentData" ELSE "Data") /\ Shifted(bus', 8 - ctl'.bit))
  <2> HIDE DEF q, k, y
  <2>1. Sending(ctl', bus', e)
    BY <1>5, <1>9, <1>20, Zenon DEF Sending, Found
  <2>2. bus'.state = (IF ctl'.bit = 0 THEN "SentData" ELSE "Data")
    BY <1>5, <1>9, <1>24, Zenon
  <2>3. Shifted(bus', 8 - ctl'.bit)
    BY <1>5, <1>9, <1>24, <1>25, Zenon DEF Shifted
  <2> QED
    BY <2>1, <2>2, <2>3, Zenon
<1>11. Phase(ctl', bus', e, DOMAIN devs)
  BY <1>5, <1>10, PhaseReadHoldBit, Zenon
<1>12. ctl'.nak => ~Found(bus') /\ ctl'.started
  BY <1>5, <1>20, Zenon
<1>13. bus.currDevice \in DOMAIN devs \cup {NoDevice}
  BY <1>2, Zenon
<1>14. WireOK'
  BY <1>5, <1>8, <1>11, <1>12, <1>13, CtlEnds, Zenon DEF TurnsSame, c, s
<1>18. scl /\ scl' => sda_o' = sda_o
  BY <1>7, <1>8, <1>14, Zenon DEF TurnsSame, Turns
<1>19. DOMAIN devs' = DOMAIN devs
  BY <1>8, Zenon DEF TurnsSame, Turns, SameDevs
<1> QED
  BY <1>14, <1>18, <1>19, Zenon

LEMMA StepReadNext ==
    ASSUME WireOK, CtlStep, ctl.st = "ReadHoldBit", ctl.bit # 0
    PROVE  WireOK' /\ (scl /\ scl' => sda_o' = sda_o) /\ DOMAIN devs' = DOMAIN devs
<1> DEFINE e == Head(fmt)
           c == SclOf(ctl', fmt)
           s == SdaOf(ctl', fmt)
<1>1. /\ ctl' = CtlNext(ctl, fmt, sda /\ sda_o) /\ Drive(c, s)
      /\ e \in Entries /\ Sound(e) /\ ctl \in CtlRec /\ BusOK /\ scl = SclOf(ctl, fmt) /\ sda = SdaOf(ctl, fmt)
      /\ Phase(ctl, bus, e, DOMAIN devs)
      /\ ctl.st = "Idle" => ~ctl.nak /\ Ready(ctl, bus, e)
      /\ ctl.nak => ~Found(bus) /\ ctl.started
  BY CtlStepIs, Zenon
<1>2. /\ e.byte \in Byte /\ e.start \in BOOLEAN /\ e.stop \in BOOLEAN /\ e.read \in BOOLEAN
      /\ ctl.bit \in 0 .. 7 /\ ctl.cnt \in Nat /\ ctl.byte \in Byte /\ ctl.started \in BOOLEAN
      /\ ctl.pend \in BOOLEAN /\ ctl.nak \in BOOLEAN /\ ctl.sent \in Seq(Byte)
      /\ bus.numBits \in 0 .. 8 /\ bus.currByte \in Byte /\ bus.reading \in BOOLEAN
      /\ bus.currDevice \in DOMAIN devs \cup {NoDevice}
      /\ scl \in BOOLEAN /\ sda \in BOOLEAN /\ sda_o \in BOOLEAN
  BY <1>1, EntryFields, CtlFieldTypes, BusFieldTypes, Zenon DEF BusOK
<1>3. (Sending(ctl, bus, e) /\ bus.state = (IF ctl.bit = 0 THEN "SentData" ELSE "Data") /\ Shifted(bus, 8 - ctl.bit))
  BY <1>1, PhaseReadHoldBit, Zenon
<1>15. ctl' = CtlNext(ctl, fmt, sda /\ sda_o)
  BY <1>1, Zenon
<1>20. Sending(ctl, bus, e) /\ ~ctl.nak /\ Found(bus) /\ bus.reading /\ ctl.started
  BY <1>3, Zenon DEF Sending
<1>21. bus.state = "Data" /\ Shifted(bus, 8 - ctl.bit)
  BY <1>3, Zenon
<1>22. 7 - (ctl.bit - 1) = 8 - ctl.bit
  BY <1>2, SMTT(40)
<1>4. Has(ctl', "ReadClockLow", ctl.bit - 1, ctl.cnt, ctl.byte, ctl.started, ctl.pend, ctl.nak, ctl.sent)
  <2> DEFINE w1 == [ctl EXCEPT !.st = "ReadClockLow"]
             w2 == [w1 EXCEPT !.bit = ctl.bit - 1]
  <2>1. ctl' = w2
    BY <1>15, NextReadHoldBit, Zenon
  <2>2. "ReadClockLow" \in CtlStates
    BY CtlStateNames, Zenon
  <2>3. Has(w1, "ReadClockLow", ctl.bit, ctl.cnt, ctl.byte, ctl.started, ctl.pend, ctl.nak, ctl.sent)
    BY <1>1, HasItsFields, <2>2, CtlSt, Zenon
  <2> HIDE DEF w1
  <2>4. ctl.bit - 1 \in 0 .. 7
    BY <1>2
  <2>5. Has(w2, "ReadClockLow", ctl.bit - 1, ctl.cnt, ctl.byte, ctl.started, ctl.pend, ctl.nak, ctl.sent)
    BY <2>3, <2>4, CtlBit, Zenon
  <2> HIDE DEF w2
  <2> QED
    BY <2>1, <2>5, Zenon
<1>5. /\ ctl' \in CtlRec /\ ctl'.st = "ReadClockLow" /\ ctl'.bit = ctl.bit - 1
      /\ ctl'.cnt = ctl.cnt /\ ctl'.byte = ctl.byte /\ ctl'.started = ctl.started
      /\ ctl'.pend = ctl.pend /\ ctl'.nak = ctl.nak /\ ctl'.sent = ctl.sent
  BY <1>4, Zenon DEF Has
<1>6. c \in BOOLEAN /\ s \in BOOLEAN
  BY <1>1, <1>5, LinesBoolean, Zenon
<1>7. ~scl /\ ~c
  BY <1>1, <1>2, <1>3, <1>5, <1>6, LineReadHoldBit, LineReadClockLow, Zenon
<1> HIDE DEF c, s
<1>8. TurnsSame(c, s)
  <2>1. bus.state # "Idle"
    BY <1>21
  <2> QED
    BY <1>1, <1>6, <1>7, <2>1, DriveLow, Zenon
<1>9. /\ bus'.state = bus.state /\ bus'.numBits = bus.numBits /\ bus'.currByte = bus.currByte
      /\ bus'.currDevice = bus.currDevice /\ bus'.reading = bus.reading
      /\ bus'.sendAck = bus.sendAck /\ bus'.heard = bus.heard
  BY <1>8, Zenon DEF TurnsSame, Turns, Holds
<1>10. (Sending(ctl', bus', e) /\ bus'.state = "Data" /\ Shifted(bus', 7 - ctl'.bit))
  <2>1. Sending(ctl', bus', e)
    BY <1>5, <1>9, <1>20, Zenon DEF Sending, Found
  <2>2. 7 - ctl'.bit = 8 - ctl.bit
    BY <1>5, <1>22, Zenon
  <2> QED
    BY <1>5, <1>9, <1>21, <2>1, <2>2, Zenon DEF Shifted
<1>11. Phase(ctl', bus', e, DOMAIN devs)
  BY <1>5, <1>10, PhaseReadClockLow, Zenon
<1>12. ctl'.nak => ~Found(bus') /\ ctl'.started
  BY <1>5, <1>20, Zenon
<1>13. bus.currDevice \in DOMAIN devs \cup {NoDevice}
  BY <1>2, Zenon
<1>14. WireOK'
  BY <1>5, <1>8, <1>11, <1>12, <1>13, CtlEnds, Zenon DEF TurnsSame, c, s
<1>18. scl /\ scl' => sda_o' = sda_o
  BY <1>7, <1>8, <1>14, Zenon DEF TurnsSame, Turns
<1>19. DOMAIN devs' = DOMAIN devs
  BY <1>8, Zenon DEF TurnsSame, Turns, SameDevs
<1> QED
  BY <1>14, <1>18, <1>19, Zenon

\* The byte is complete, and answered.
LEMMA StepReadByte ==
    ASSUME WireOK, CtlStep, ctl.st = "ReadHoldBit", ctl.bit = 0
    PROVE  WireOK' /\ (scl /\ scl' => sda_o' = sda_o) /\ DOMAIN devs' = DOMAIN devs
<1> DEFINE e == Head(fmt)
           c == SclOf(ctl', fmt)
           s == SdaOf(ctl', fmt)
<1>1. /\ ctl' = CtlNext(ctl, fmt, sda /\ sda_o) /\ Drive(c, s)
      /\ e \in Entries /\ Sound(e) /\ ctl \in CtlRec /\ BusOK /\ scl = SclOf(ctl, fmt) /\ sda = SdaOf(ctl, fmt)
      /\ Phase(ctl, bus, e, DOMAIN devs)
      /\ ctl.st = "Idle" => ~ctl.nak /\ Ready(ctl, bus, e)
      /\ ctl.nak => ~Found(bus) /\ ctl.started
  BY CtlStepIs, Zenon
<1>2. /\ e.byte \in Byte /\ e.start \in BOOLEAN /\ e.stop \in BOOLEAN /\ e.read \in BOOLEAN
      /\ ctl.bit \in 0 .. 7 /\ ctl.cnt \in Nat /\ ctl.byte \in Byte /\ ctl.started \in BOOLEAN
      /\ ctl.pend \in BOOLEAN /\ ctl.nak \in BOOLEAN /\ ctl.sent \in Seq(Byte)
      /\ bus.numBits \in 0 .. 8 /\ bus.currByte \in Byte /\ bus.reading \in BOOLEAN
      /\ bus.currDevice \in DOMAIN devs \cup {NoDevice}
      /\ scl \in BOOLEAN /\ sda \in BOOLEAN /\ sda_o \in BOOLEAN
  BY <1>1, EntryFields, CtlFieldTypes, BusFieldTypes, ZenonT(60) DEF BusOK
<1>3. (Sending(ctl, bus, e) /\ bus.state = (IF ctl.bit = 0 THEN "SentData" ELSE "Data") /\ Shifted(bus, 8 - ctl.bit))
  BY <1>1, PhaseReadHoldBit, Zenon
<1>15. ctl' = CtlNext(ctl, fmt, sda /\ sda_o)
  BY <1>1, Zenon
<1>20. Sending(ctl, bus, e) /\ ~ctl.nak /\ Found(bus) /\ bus.reading /\ ctl.started
  BY <1>3, Zenon DEF Sending
<1>21. bus.state = "SentData" /\ Shifted(bus, 8)
  <2>1. 8 - ctl.bit = 8
    BY <1>2
  <2> QED
    BY <1>3, <2>1, Zenon
<1>4. Has(ctl', "HostClockLowAck", 7, ctl.cnt, ctl.byte, ctl.started, ctl.pend, ctl.nak, ctl.sent)
  <2> DEFINE w1 == [ctl EXCEPT !.st = "HostClockLowAck"]
             w2 == [w1 EXCEPT !.bit = 7]
  <2>1. ctl' = w2
    BY <1>15, NextReadHoldBit, ZenonT(60)
  <2>2. "HostClockLowAck" \in CtlStates
    BY CtlStateNames, Zenon
  <2>3. Has(w1, "HostClockLowAck", ctl.bit, ctl.cnt, ctl.byte, ctl.started, ctl.pend, ctl.nak, ctl.sent)
    BY <1>1, HasItsFields, <2>2, CtlSt, Zenon
  <2> HIDE DEF w1
  <2>4. 7 \in 0 .. 7
    BY SMT
  <2>5. Has(w2, "HostClockLowAck", 7, ctl.cnt, ctl.byte, ctl.started, ctl.pend, ctl.nak, ctl.sent)
    BY <2>3, <2>4, CtlBit, Zenon
  <2> HIDE DEF w2
  <2> QED
    BY <2>1, <2>5, Zenon
<1>5. /\ ctl' \in CtlRec /\ ctl'.st = "HostClockLowAck" /\ ctl'.bit = 7 /\ ctl'.cnt = ctl.cnt
      /\ ctl'.byte = ctl.byte /\ ctl'.started = ctl.started /\ ctl'.pend = ctl.pend
      /\ ctl'.nak = ctl.nak /\ ctl'.sent = ctl.sent
  BY <1>4, Zenon DEF Has
<1>6. c \in BOOLEAN /\ s \in BOOLEAN
  BY <1>1, <1>5, LinesBoolean, Zenon
<1>7. ~scl /\ ~c
  BY <1>1, <1>2, <1>3, <1>5, <1>6, LineReadHoldBit, LineHostClockLowAck, Zenon
<1> HIDE DEF c, s
<1>8. TurnsSame(c, s)
  <2>1. bus.state # "Idle"
    BY <1>21
  <2> QED
    BY <1>1, <1>6, <1>7, <2>1, DriveLow, Zenon
<1>9. /\ bus'.state = bus.state /\ bus'.numBits = bus.numBits /\ bus'.currByte = bus.currByte
      /\ bus'.currDevice = bus.currDevice /\ bus'.reading = bus.reading
      /\ bus'.sendAck = bus.sendAck /\ bus'.heard = bus.heard
  BY <1>8, Zenon DEF TurnsSame, Turns, Holds
<1>10. (ctl'.bit = 7 /\ Sending(ctl', bus', e) /\ bus'.state = "SentData" /\ Shifted(bus', 8))
  <2>1. Sending(ctl', bus', e)
    BY <1>5, <1>9, <1>20, Zenon DEF Sending, Found
  <2> QED
    BY <1>5, <1>9, <1>21, <2>1, Zenon DEF Shifted
<1>11. Phase(ctl', bus', e, DOMAIN devs)
  BY <1>5, <1>10, PhaseHostClockLowAck, Zenon
<1>12. ctl'.nak => ~Found(bus') /\ ctl'.started
  BY <1>5, <1>20, Zenon
<1>13. bus.currDevice \in DOMAIN devs \cup {NoDevice}
  BY <1>2, Zenon
<1>14. WireOK'
  BY <1>5, <1>8, <1>11, <1>12, <1>13, CtlEnds, Zenon DEF TurnsSame, c, s
<1>18. scl /\ scl' => sda_o' = sda_o
  BY <1>7, <1>8, <1>14, Zenon DEF TurnsSame, Turns
<1>19. DOMAIN devs' = DOMAIN devs
  BY <1>8, Zenon DEF TurnsSame, Turns, SameDevs
<1> QED
  BY <1>14, <1>18, <1>19, Zenon

LEMMA StepHostAckRises ==
    ASSUME WireOK, CtlStep, ctl.st = "HostClockLowAck"
    PROVE  WireOK' /\ (scl /\ scl' => sda_o' = sda_o) /\ DOMAIN devs' = DOMAIN devs
<1> DEFINE e == Head(fmt)
           c == SclOf(ctl', fmt)
           s == SdaOf(ctl', fmt)
<1>1. /\ ctl' = CtlNext(ctl, fmt, sda /\ sda_o) /\ Drive(c, s)
      /\ e \in Entries /\ Sound(e) /\ ctl \in CtlRec /\ BusOK /\ scl = SclOf(ctl, fmt) /\ sda = SdaOf(ctl, fmt)
      /\ Phase(ctl, bus, e, DOMAIN devs)
      /\ ctl.st = "Idle" => ~ctl.nak /\ Ready(ctl, bus, e)
      /\ ctl.nak => ~Found(bus) /\ ctl.started
  BY CtlStepIs, Zenon
<1>2. /\ e.byte \in Byte /\ e.start \in BOOLEAN /\ e.stop \in BOOLEAN /\ e.read \in BOOLEAN
      /\ ctl.bit \in 0 .. 7 /\ ctl.cnt \in Nat /\ ctl.byte \in Byte /\ ctl.started \in BOOLEAN
      /\ ctl.pend \in BOOLEAN /\ ctl.nak \in BOOLEAN /\ ctl.sent \in Seq(Byte)
      /\ bus.numBits \in 0 .. 8 /\ bus.currByte \in Byte /\ bus.reading \in BOOLEAN
      /\ bus.currDevice \in DOMAIN devs \cup {NoDevice}
      /\ scl \in BOOLEAN /\ sda \in BOOLEAN /\ sda_o \in BOOLEAN
  BY <1>1, EntryFields, CtlFieldTypes, BusFieldTypes, Zenon DEF BusOK
<1>3. (ctl.bit = 7 /\ Sending(ctl, bus, e) /\ bus.state = "SentData" /\ Shifted(bus, 8))
  BY <1>1, PhaseHostClockLowAck, Zenon
<1>15. ctl' = CtlNext(ctl, fmt, sda /\ sda_o)
  BY <1>1, Zenon
<1>20. Sending(ctl, bus, e) /\ ~ctl.nak /\ Found(bus) /\ bus.reading /\ ctl.started
  BY <1>3, Zenon DEF Sending
<1>21. Spent(bus)
  <2>1. Ones(bus.currByte, 8)
    BY <1>3, Zenon DEF Shifted
  <2> QED
    BY <1>2, <2>1, OnesFull DEF Spent
<1>22. bus.currDevice \in DOMAIN devs
  BY <1>2, <1>20, Zenon DEF Found
<1>4. Has(ctl', "HostClockPulseAck", ctl.bit, ctl.cnt, ctl.byte, ctl.started, ctl.pend, ctl.nak, ctl.sent)
  <2> DEFINE w1 == [ctl EXCEPT !.st = "HostClockPulseAck"]
  <2>1. ctl' = w1
    BY <1>15, NextHostClockLowAck, Zenon DEF CtlGo
  <2>2. "HostClockPulseAck" \in CtlStates
    BY CtlStateNames, Zenon
  <2>3. Has(w1, "HostClockPulseAck", ctl.bit, ctl.cnt, ctl.byte, ctl.started, ctl.pend, ctl.nak, ctl.sent)
    BY <1>1, HasItsFields, <2>2, CtlSt, Zenon
  <2> HIDE DEF w1
  <2> QED
    BY <2>1, <2>3, Zenon
<1>5. /\ ctl' \in CtlRec /\ ctl'.st = "HostClockPulseAck" /\ ctl'.bit = ctl.bit
      /\ ctl'.cnt = ctl.cnt /\ ctl'.byte = ctl.byte /\ ctl'.started = ctl.started
      /\ ctl'.pend = ctl.pend /\ ctl'.nak = ctl.nak /\ ctl'.sent = ctl.sent
  BY <1>4, Zenon DEF Has
<1>6. c \in BOOLEAN /\ s \in BOOLEAN
  BY <1>1, <1>5, LinesBoolean, Zenon
<1>7. ~scl /\ c /\ s = (ctl.cnt = 1)
  <2>1. ~scl
    BY <1>1, LineHostClockLowAck, Zenon
  <2>2. c /\ s = (ctl'.cnt = 1)
    BY ONLY <1>5, LineHostClockPulseAck, Zenon DEF c, s
  <2> QED
    BY <1>5, <2>1, <2>2, Zenon
<1> HIDE DEF c, s
<1>16. PICK v \in Byte : Turns(c, s, "GotAckNak", 0, v, bus.currDevice, bus.reading, bus.sendAck, bus.heard) /\ (s => v = bus.currByte)
  BY <1>1, <1>3, <1>6, <1>7, <1>22, DriveSentRises, Zenon
<1>8. Turns(c, s, "GotAckNak", 0, v, bus.currDevice, bus.reading, bus.sendAck, bus.heard)
  BY <1>16, Zenon
<1>9. /\ bus'.state = "GotAckNak" /\ bus'.numBits = 0 /\ bus'.currByte = v
      /\ bus'.currDevice = bus.currDevice /\ bus'.reading = bus.reading
      /\ bus'.sendAck = bus.sendAck /\ bus'.heard = bus.heard
  BY <1>8, Zenon DEF TurnsSame, Turns, Holds
<1>10. (ctl'.bit = 7 /\ Sending(ctl', bus', e) /\ bus'.numBits = 0 /\ bus'.state = "GotAckNak" /\ (ctl'.cnt = 1 => Spent(bus')))
  <2>1. Sending(ctl', bus', e)
    BY <1>5, <1>9, <1>20, Zenon DEF Sending, Found
  <2>2. ctl'.cnt = 1 => bus'.currByte = bus.currByte
    BY <1>5, <1>7, <1>9, <1>16, Zenon
  <2>3. ctl'.cnt = 1 => Spent(bus')
    BY <1>21, <2>2 DEF Spent
  <2> QED
    BY <1>3, <1>5, <1>9, <2>1, <2>3, Zenon
<1>11. Phase(ctl', bus', e, DOMAIN devs)
  BY <1>5, <1>10, PhaseHostClockPulseAck, Zenon
<1>12. ctl'.nak => ~Found(bus') /\ ctl'.started
  BY <1>5, <1>20, Zenon
<1>13. bus.currDevice \in DOMAIN devs \cup {NoDevice}
  BY <1>2, Zenon
<1>14. WireOK'
  BY <1>5, <1>8, <1>11, <1>12, <1>13, CtlEnds, Zenon DEF TurnsSame, c, s
<1>18. scl /\ scl' => sda_o' = sda_o
  BY <1>7, <1>8, <1>14, Zenon DEF TurnsSame, Turns
<1>19. DOMAIN devs' = DOMAIN devs
  BY <1>8, Zenon DEF TurnsSame, Turns, SameDevs
<1> QED
  BY <1>14, <1>18, <1>19, Zenon

LEMMA StepHostAckFalls ==
    ASSUME WireOK, CtlStep, ctl.st = "HostClockPulseAck"
    PROVE  WireOK' /\ (scl /\ scl' => sda_o' = sda_o) /\ DOMAIN devs' = DOMAIN devs
<1> DEFINE e == Head(fmt)
           c == SclOf(ctl', fmt)
           s == SdaOf(ctl', fmt)
<1>1. /\ ctl' = CtlNext(ctl, fmt, sda /\ sda_o) /\ Drive(c, s)
      /\ e \in Entries /\ Sound(e) /\ ctl \in CtlRec /\ BusOK /\ scl = SclOf(ctl, fmt) /\ sda = SdaOf(ctl, fmt)
      /\ Phase(ctl, bus, e, DOMAIN devs)
      /\ ctl.st = "Idle" => ~ctl.nak /\ Ready(ctl, bus, e)
      /\ ctl.nak => ~Found(bus) /\ ctl.started
  BY CtlStepIs, Zenon
<1>2. /\ e.byte \in Byte /\ e.start \in BOOLEAN /\ e.stop \in BOOLEAN /\ e.read \in BOOLEAN
      /\ ctl.bit \in 0 .. 7 /\ ctl.cnt \in Nat /\ ctl.byte \in Byte /\ ctl.started \in BOOLEAN
      /\ ctl.pend \in BOOLEAN /\ ctl.nak \in BOOLEAN /\ ctl.sent \in Seq(Byte)
      /\ bus.numBits \in 0 .. 8 /\ bus.currByte \in Byte /\ bus.reading \in BOOLEAN
      /\ bus.currDevice \in DOMAIN devs \cup {NoDevice}
      /\ scl \in BOOLEAN /\ sda \in BOOLEAN /\ sda_o \in BOOLEAN
  BY <1>1, EntryFields, CtlFieldTypes, BusFieldTypes, Zenon DEF BusOK
<1>3. (ctl.bit = 7 /\ Sending(ctl, bus, e) /\ bus.numBits = 0 /\ bus.state = "GotAckNak" /\ (ctl.cnt = 1 => Spent(bus)))
  BY <1>1, PhaseHostClockPulseAck, Zenon
<1>15. ctl' = CtlNext(ctl, fmt, sda /\ sda_o)
  BY <1>1, Zenon
<1>20. Sending(ctl, bus, e) /\ ~ctl.nak /\ Found(bus) /\ bus.reading /\ ctl.started
  BY <1>3, Zenon DEF Sending
<1>4. Has(ctl', "HostHoldBitAck", ctl.bit, ctl.cnt, ctl.byte, ctl.started, ctl.pend, ctl.nak, ctl.sent)
  <2> DEFINE w1 == [ctl EXCEPT !.st = "HostHoldBitAck"]
  <2>1. ctl' = w1
    BY <1>15, NextHostClockPulseAck, Zenon DEF CtlGo
  <2>2. "HostHoldBitAck" \in CtlStates
    BY CtlStateNames, Zenon
  <2>3. Has(w1, "HostHoldBitAck", ctl.bit, ctl.cnt, ctl.byte, ctl.started, ctl.pend, ctl.nak, ctl.sent)
    BY <1>1, HasItsFields, <2>2, CtlSt, Zenon
  <2> HIDE DEF w1
  <2> QED
    BY <2>1, <2>3, Zenon
<1>5. /\ ctl' \in CtlRec /\ ctl'.st = "HostHoldBitAck" /\ ctl'.bit = ctl.bit
      /\ ctl'.cnt = ctl.cnt /\ ctl'.byte = ctl.byte /\ ctl'.started = ctl.started
      /\ ctl'.pend = ctl.pend /\ ctl'.nak = ctl.nak /\ ctl'.sent = ctl.sent
  BY <1>4, Zenon DEF Has
<1>6. c \in BOOLEAN /\ s \in BOOLEAN
  BY <1>1, <1>5, LinesBoolean, Zenon
<1>7. scl /\ ~c
  BY <1>1, <1>2, <1>3, <1>5, <1>6, LineHostClockPulseAck, LineHostHoldBitAck, Zenon
<1> HIDE DEF c, s
<1>8. Turns(c, s, "Data", bus.numBits, bus.currByte, bus.currDevice, bus.reading, bus.sendAck, bus.heard)
  BY <1>1, <1>3, <1>6, <1>7, DriveAckFalls, Zenon
<1>9. /\ bus'.state = "Data" /\ bus'.numBits = bus.numBits /\ bus'.currByte = bus.currByte
      /\ bus'.currDevice = bus.currDevice /\ bus'.reading = bus.reading
      /\ bus'.sendAck = bus.sendAck /\ bus'.heard = bus.heard
  BY <1>8, Zenon DEF TurnsSame, Turns, Holds
<1>10. (ctl'.bit = 7 /\ Sending(ctl', bus', e) /\ bus'.numBits = 0 /\ bus'.state = "Data" /\ (ctl'.cnt = 1 => Spent(bus')))
  <2>1. Sending(ctl', bus', e)
    BY <1>5, <1>9, <1>20, Zenon DEF Sending, Found
  <2>2. bus'.currByte = bus.currByte /\ ctl'.cnt = ctl.cnt /\ (ctl.cnt = 1 => Spent(bus))
    BY <1>3, <1>5, <1>9, Zenon
  <2>3. ctl'.cnt = 1 => Spent(bus')
    BY <2>2 DEF Spent
  <2> QED
    BY <1>3, <1>5, <1>9, <2>1, <2>3, Zenon
<1>11. Phase(ctl', bus', e, DOMAIN devs)
  BY <1>5, <1>10, PhaseHostHoldBitAck, Zenon
<1>12. ctl'.nak => ~Found(bus') /\ ctl'.started
  BY <1>5, <1>20, Zenon
<1>13. bus.currDevice \in DOMAIN devs \cup {NoDevice}
  BY <1>2, Zenon
<1>14. WireOK'
  BY <1>5, <1>8, <1>11, <1>12, <1>13, CtlEnds, Zenon DEF TurnsSame, c, s
<1>18. scl /\ scl' => sda_o' = sda_o
  BY <1>7, <1>8, <1>14, Zenon DEF TurnsSame, Turns
<1>19. DOMAIN devs' = DOMAIN devs
  BY <1>8, Zenon DEF TurnsSame, Turns, SameDevs
<1> QED
  BY <1>14, <1>18, <1>19, Zenon

LEMMA StepReadMore ==
    ASSUME WireOK, CtlStep, ctl.st = "HostHoldBitAck", ctl.cnt # 1
    PROVE  WireOK' /\ (scl /\ scl' => sda_o' = sda_o) /\ DOMAIN devs' = DOMAIN devs
<1> DEFINE e == Head(fmt)
           c == SclOf(ctl', fmt)
           s == SdaOf(ctl', fmt)
<1>1. /\ ctl' = CtlNext(ctl, fmt, sda /\ sda_o) /\ Drive(c, s)
      /\ e \in Entries /\ Sound(e) /\ ctl \in CtlRec /\ BusOK /\ scl = SclOf(ctl, fmt) /\ sda = SdaOf(ctl, fmt)
      /\ Phase(ctl, bus, e, DOMAIN devs)
      /\ ctl.st = "Idle" => ~ctl.nak /\ Ready(ctl, bus, e)
      /\ ctl.nak => ~Found(bus) /\ ctl.started
  BY CtlStepIs, Zenon
<1>2. /\ e.byte \in Byte /\ e.start \in BOOLEAN /\ e.stop \in BOOLEAN /\ e.read \in BOOLEAN
      /\ ctl.bit \in 0 .. 7 /\ ctl.cnt \in Nat /\ ctl.byte \in Byte /\ ctl.started \in BOOLEAN
      /\ ctl.pend \in BOOLEAN /\ ctl.nak \in BOOLEAN /\ ctl.sent \in Seq(Byte)
      /\ bus.numBits \in 0 .. 8 /\ bus.currByte \in Byte /\ bus.reading \in BOOLEAN
      /\ bus.currDevice \in DOMAIN devs \cup {NoDevice}
      /\ scl \in BOOLEAN /\ sda \in BOOLEAN /\ sda_o \in BOOLEAN
  BY <1>1, EntryFields, CtlFieldTypes, BusFieldTypes, Zenon DEF BusOK
<1>3. (ctl.bit = 7 /\ Sending(ctl, bus, e) /\ bus.numBits = 0 /\ bus.state = "Data" /\ (ctl.cnt = 1 => Spent(bus)))
  BY <1>1, PhaseHostHoldBitAck, Zenon
<1>15. ctl' = CtlNext(ctl, fmt, sda /\ sda_o)
  BY <1>1, Zenon
<1>20. Sending(ctl, bus, e) /\ ~ctl.nak /\ Found(bus) /\ bus.reading /\ ctl.started
  BY <1>3, Zenon DEF Sending
<1>21. ctl.cnt - 1 \in Nat /\ ctl.cnt - 1 # 0
  <2>1. ctl.cnt \in Nat \ {0}
    BY <1>20, Zenon DEF Sending
  <2> QED
    BY <2>1
<1>4. Has(ctl', "ReadClockLow", ctl.bit, ctl.cnt - 1, ctl.byte, ctl.started, ctl.pend, ctl.nak, ctl.sent)
  <2> DEFINE w1 == [ctl EXCEPT !.st = "ReadClockLow"]
             w2 == [w1 EXCEPT !.cnt = ctl.cnt - 1]
  <2>1. ctl' = w2
    BY <1>15, NextHostHoldBitAck, Zenon
  <2>2. "ReadClockLow" \in CtlStates
    BY CtlStateNames, Zenon
  <2>3. Has(w1, "ReadClockLow", ctl.bit, ctl.cnt, ctl.byte, ctl.started, ctl.pend, ctl.nak, ctl.sent)
    BY <1>1, HasItsFields, <2>2, CtlSt, Zenon
  <2> HIDE DEF w1
  <2>4. ctl.cnt - 1 \in Nat
    BY <1>21, Zenon
  <2>5. Has(w2, "ReadClockLow", ctl.bit, ctl.cnt - 1, ctl.byte, ctl.started, ctl.pend, ctl.nak, ctl.sent)
    BY <2>3, <2>4, CtlCnt, Zenon
  <2> HIDE DEF w2
  <2> QED
    BY <2>1, <2>5, Zenon
<1>5. /\ ctl' \in CtlRec /\ ctl'.st = "ReadClockLow" /\ ctl'.bit = ctl.bit
      /\ ctl'.cnt = ctl.cnt - 1 /\ ctl'.byte = ctl.byte /\ ctl'.started = ctl.started
      /\ ctl'.pend = ctl.pend /\ ctl'.nak = ctl.nak /\ ctl'.sent = ctl.sent
  BY <1>4, Zenon DEF Has
<1>6. c \in BOOLEAN /\ s \in BOOLEAN
  BY <1>1, <1>5, LinesBoolean, Zenon
<1>7. ~scl /\ ~c
  BY <1>1, <1>2, <1>3, <1>5, <1>6, LineHostHoldBitAck, LineReadClockLow, Zenon
<1> HIDE DEF c, s
<1>8. TurnsSame(c, s)
  <2>1. bus.state # "Idle"
    BY <1>3
  <2> QED
    BY <1>1, <1>6, <1>7, <2>1, DriveLow, Zenon
<1>9. /\ bus'.state = bus.state /\ bus'.numBits = bus.numBits /\ bus'.currByte = bus.currByte
      /\ bus'.currDevice = bus.currDevice /\ bus'.reading = bus.reading
      /\ bus'.sendAck = bus.sendAck /\ bus'.heard = bus.heard
  BY <1>8, Zenon DEF TurnsSame, Turns, Holds
<1>10. (Sending(ctl', bus', e) /\ bus'.state = "Data" /\ Shifted(bus', 7 - ctl'.bit))
  <2>1. Sending(ctl', bus', e)
    BY <1>5, <1>9, <1>20, <1>21, Zenon DEF Sending, Found
  <2>2. 7 - ctl'.bit = 0
    BY <1>3, <1>5
  <2>3. Ones(bus.currByte, 0)
    BY <1>2, OnesNone, Zenon
  <2> QED
    BY <1>3, <1>5, <1>9, <2>1, <2>2, <2>3, Zenon DEF Shifted
<1>11. Phase(ctl', bus', e, DOMAIN devs)
  BY <1>5, <1>10, PhaseReadClockLow, Zenon
<1>12. ctl'.nak => ~Found(bus') /\ ctl'.started
  BY <1>5, <1>20, Zenon
<1>13. bus.currDevice \in DOMAIN devs \cup {NoDevice}
  BY <1>2, Zenon
<1>14. WireOK'
  BY <1>5, <1>8, <1>11, <1>12, <1>13, CtlEnds, Zenon DEF TurnsSame, c, s
<1>18. scl /\ scl' => sda_o' = sda_o
  BY <1>7, <1>8, <1>14, Zenon DEF TurnsSame, Turns
<1>19. DOMAIN devs' = DOMAIN devs
  BY <1>8, Zenon DEF TurnsSame, Turns, SameDevs
<1> QED
  BY <1>14, <1>18, <1>19, Zenon

\* The last byte has been read.
LEMMA StepReadStop ==
    ASSUME WireOK, CtlStep, ctl.st = "HostHoldBitAck", ctl.cnt = 1, Head(fmt).stop
    PROVE  WireOK' /\ (scl /\ scl' => sda_o' = sda_o) /\ DOMAIN devs' = DOMAIN devs
<1> DEFINE e == Head(fmt)
           c == SclOf(ctl', fmt)
           s == SdaOf(ctl', fmt)
<1>1. /\ ctl' = CtlNext(ctl, fmt, sda /\ sda_o) /\ Drive(c, s)
      /\ e \in Entries /\ Sound(e) /\ ctl \in CtlRec /\ BusOK /\ scl = SclOf(ctl, fmt) /\ sda = SdaOf(ctl, fmt)
      /\ Phase(ctl, bus, e, DOMAIN devs)
      /\ ctl.st = "Idle" => ~ctl.nak /\ Ready(ctl, bus, e)
      /\ ctl.nak => ~Found(bus) /\ ctl.started
  BY CtlStepIs, Zenon
<1>2. /\ e.byte \in Byte /\ e.start \in BOOLEAN /\ e.stop \in BOOLEAN /\ e.read \in BOOLEAN
      /\ ctl.bit \in 0 .. 7 /\ ctl.cnt \in Nat /\ ctl.byte \in Byte /\ ctl.started \in BOOLEAN
      /\ ctl.pend \in BOOLEAN /\ ctl.nak \in BOOLEAN /\ ctl.sent \in Seq(Byte)
      /\ bus.numBits \in 0 .. 8 /\ bus.currByte \in Byte /\ bus.reading \in BOOLEAN
      /\ bus.currDevice \in DOMAIN devs \cup {NoDevice}
      /\ scl \in BOOLEAN /\ sda \in BOOLEAN /\ sda_o \in BOOLEAN
  BY <1>1, EntryFields, CtlFieldTypes, BusFieldTypes, Zenon DEF BusOK
<1>3. (ctl.bit = 7 /\ Sending(ctl, bus, e) /\ bus.numBits = 0 /\ bus.state = "Data" /\ (ctl.cnt = 1 => Spent(bus)))
  BY <1>1, PhaseHostHoldBitAck, Zenon
<1>15. ctl' = CtlNext(ctl, fmt, sda /\ sda_o)
  BY <1>1, Zenon
<1>20. Sending(ctl, bus, e) /\ ~ctl.nak /\ Found(bus) /\ bus.reading /\ ctl.started
  BY <1>3, Zenon DEF Sending
<1>21. ~e.start /\ e.read /\ Spent(bus)
  BY <1>1, <1>3, <1>20, Zenon DEF Sound, Sending
<1>4. Has(ctl', "ClockStop", ctl.bit, ctl.cnt, ctl.byte, ctl.started, ctl.pend, ctl.nak, ctl.sent)
  <2> DEFINE w1 == [ctl EXCEPT !.st = "ClockStop"]
  <2>1. ctl' = w1
    BY <1>15, NextHostHoldBitAck, Zenon DEF AfterLast, CtlGo
  <2>2. "ClockStop" \in CtlStates
    BY CtlStateNames, Zenon
  <2>3. Has(w1, "ClockStop", ctl.bit, ctl.cnt, ctl.byte, ctl.started, ctl.pend, ctl.nak, ctl.sent)
    BY <1>1, HasItsFields, <2>2, CtlSt, Zenon
  <2> HIDE DEF w1
  <2> QED
    BY <2>1, <2>3, Zenon
<1>5. /\ ctl' \in CtlRec /\ ctl'.st = "ClockStop" /\ ctl'.bit = ctl.bit /\ ctl'.cnt = ctl.cnt
      /\ ctl'.byte = ctl.byte /\ ctl'.started = ctl.started /\ ctl'.pend = ctl.pend
      /\ ctl'.nak = ctl.nak /\ ctl'.sent = ctl.sent
  BY <1>4, Zenon DEF Has
<1>6. c \in BOOLEAN /\ s \in BOOLEAN
  BY <1>1, <1>5, LinesBoolean, Zenon
<1>7. ~scl /\ ~c
  BY <1>1, <1>2, <1>3, <1>5, <1>6, LineHostHoldBitAck, LineClockStop, Zenon
<1> HIDE DEF c, s
<1>8. TurnsSame(c, s)
  <2>1. bus.state # "Idle"
    BY <1>3
  <2> QED
    BY <1>1, <1>6, <1>7, <2>1, DriveLow, Zenon
<1>9. /\ bus'.state = bus.state /\ bus'.numBits = bus.numBits /\ bus'.currByte = bus.currByte
      /\ bus'.currDevice = bus.currDevice /\ bus'.reading = bus.reading
      /\ bus'.sendAck = bus.sendAck /\ bus'.heard = bus.heard
  BY <1>8, Zenon DEF TurnsSame, Turns, Holds
<1>10. (ctl'.started /\ Stopping(ctl', bus', e) /\ bus'.numBits = 0)
  <2>0. Spent(bus')
    BY <1>9, <1>21 DEF Spent
  <2>1. Released(bus')
    BY <2>0, Zenon DEF Released
  <2> QED
    BY <1>3, <1>5, <1>9, <1>20, <1>21, <2>1, Zenon DEF Stopping
<1>11. Phase(ctl', bus', e, DOMAIN devs)
  BY <1>5, <1>10, PhaseClockStop, Zenon
<1>12. ctl'.nak => ~Found(bus') /\ ctl'.started
  BY <1>5, <1>20, Zenon
<1>13. bus.currDevice \in DOMAIN devs \cup {NoDevice}
  BY <1>2, Zenon
<1>14. WireOK'
  BY <1>5, <1>8, <1>11, <1>12, <1>13, CtlEnds, Zenon DEF TurnsSame, c, s
<1>18. scl /\ scl' => sda_o' = sda_o
  BY <1>7, <1>8, <1>14, Zenon DEF TurnsSame, Turns
<1>19. DOMAIN devs' = DOMAIN devs
  BY <1>8, Zenon DEF TurnsSame, Turns, SameDevs
<1> QED
  BY <1>14, <1>18, <1>19, Zenon

LEMMA StepReadDone ==
    ASSUME WireOK, CtlStep, ctl.st = "HostHoldBitAck", ctl.cnt = 1, ~Head(fmt).stop
    PROVE  WireOK' /\ (scl /\ scl' => sda_o' = sda_o) /\ DOMAIN devs' = DOMAIN devs
<1> DEFINE e == Head(fmt)
           c == SclOf(ctl', fmt)
           s == SdaOf(ctl', fmt)
<1>1. /\ ctl' = CtlNext(ctl, fmt, sda /\ sda_o) /\ Drive(c, s)
      /\ e \in Entries /\ Sound(e) /\ ctl \in CtlRec /\ BusOK /\ scl = SclOf(ctl, fmt) /\ sda = SdaOf(ctl, fmt)
      /\ Phase(ctl, bus, e, DOMAIN devs)
      /\ ctl.st = "Idle" => ~ctl.nak /\ Ready(ctl, bus, e)
      /\ ctl.nak => ~Found(bus) /\ ctl.started
  BY CtlStepIs, Zenon
<1>2. /\ e.byte \in Byte /\ e.start \in BOOLEAN /\ e.stop \in BOOLEAN /\ e.read \in BOOLEAN
      /\ ctl.bit \in 0 .. 7 /\ ctl.cnt \in Nat /\ ctl.byte \in Byte /\ ctl.started \in BOOLEAN
      /\ ctl.pend \in BOOLEAN /\ ctl.nak \in BOOLEAN /\ ctl.sent \in Seq(Byte)
      /\ bus.numBits \in 0 .. 8 /\ bus.currByte \in Byte /\ bus.reading \in BOOLEAN
      /\ bus.currDevice \in DOMAIN devs \cup {NoDevice}
      /\ scl \in BOOLEAN /\ sda \in BOOLEAN /\ sda_o \in BOOLEAN
  BY <1>1, EntryFields, CtlFieldTypes, BusFieldTypes, Zenon DEF BusOK
<1>3. (ctl.bit = 7 /\ Sending(ctl, bus, e) /\ bus.numBits = 0 /\ bus.state = "Data" /\ (ctl.cnt = 1 => Spent(bus)))
  BY <1>1, PhaseHostHoldBitAck, Zenon
<1>15. ctl' = CtlNext(ctl, fmt, sda /\ sda_o)
  BY <1>1, Zenon
<1>20. Sending(ctl, bus, e) /\ ~ctl.nak /\ Found(bus) /\ bus.reading /\ ctl.started
  BY <1>3, Zenon DEF Sending
<1>21. ~e.start /\ e.read /\ Spent(bus)
  BY <1>1, <1>3, <1>20, Zenon DEF Sound, Sending
<1>4. Has(ctl', "PopFmtFifo", ctl.bit, ctl.cnt, ctl.byte, ctl.started, ctl.pend, ctl.nak, ctl.sent)
  <2> DEFINE w1 == [ctl EXCEPT !.st = "PopFmtFifo"]
  <2>1. ctl' = w1
    BY <1>15, NextHostHoldBitAck, ZenonT(60) DEF AfterLast, CtlGo
  <2>2. "PopFmtFifo" \in CtlStates
    BY CtlStateNames, Zenon
  <2>3. Has(w1, "PopFmtFifo", ctl.bit, ctl.cnt, ctl.byte, ctl.started, ctl.pend, ctl.nak, ctl.sent)
    BY <1>1, HasItsFields, <2>2, CtlSt, Zenon
  <2> HIDE DEF w1
  <2> QED
    BY <2>1, <2>3, Zenon
<1>5. /\ ctl' \in CtlRec /\ ctl'.st = "PopFmtFifo" /\ ctl'.bit = ctl.bit /\ ctl'.cnt = ctl.cnt
      /\ ctl'.byte = ctl.byte /\ ctl'.started = ctl.started /\ ctl'.pend = ctl.pend
      /\ ctl'.nak = ctl.nak /\ ctl'.sent = ctl.sent
  BY <1>4, Zenon DEF Has
<1>6. c \in BOOLEAN /\ s \in BOOLEAN
  BY <1>1, <1>5, LinesBoolean, Zenon
<1>7. ~scl /\ ~c
  <2>1. ~scl
    BY <1>1, LineHostHoldBitAck, Zenon
  <2>2. c = e.stop
    BY <1>5, LinePopFmtFifo, Zenon
  <2> QED
    BY <2>1, <2>2, Zenon
<1> HIDE DEF c, s
<1>8. TurnsSame(c, s)
  <2>1. bus.state # "Idle"
    BY <1>3
  <2> QED
    BY <1>1, <1>6, <1>7, <2>1, DriveLow, Zenon
<1>9. /\ bus'.state = bus.state /\ bus'.numBits = bus.numBits /\ bus'.currByte = bus.currByte
      /\ bus'.currDevice = bus.currDevice /\ bus'.reading = bus.reading
      /\ bus'.sendAck = bus.sendAck /\ bus'.heard = bus.heard
  BY <1>8, Zenon DEF TurnsSame, Turns, Holds
<1>10. (Between(ctl', bus') /\ Done(ctl', bus', e) /\ (e.start => Addressee(bus', e, DOMAIN devs)))
  <2>0. Spent(bus')
    BY <1>9, <1>21 DEF Spent
  <2>1. Released(bus')
    BY <2>0, Zenon DEF Released
  <2>2. Done(ctl', bus', e)
    BY <1>2, <1>5, <1>9, <1>20, <1>21, <2>1, Zenon DEF Done, Found
  <2>3. Between(ctl', bus')
    BY <1>3, <1>5, <1>9, <1>20, Zenon DEF Between
  <2> QED
    BY <1>21, <2>2, <2>3, Zenon
<1>11. Phase(ctl', bus', e, DOMAIN devs)
  BY <1>5, <1>10, PhasePopFmtFifo, Zenon
<1>12. ctl'.nak => ~Found(bus') /\ ctl'.started
  BY <1>5, <1>20, Zenon
<1>13. bus.currDevice \in DOMAIN devs \cup {NoDevice}
  BY <1>2, Zenon
<1>14. WireOK'
  BY <1>5, <1>8, <1>11, <1>12, <1>13, CtlEnds, Zenon DEF TurnsSame, c, s
<1>18. scl /\ scl' => sda_o' = sda_o
  BY <1>7, <1>8, <1>14, Zenon DEF TurnsSame, Turns
<1>19. DOMAIN devs' = DOMAIN devs
  BY <1>8, Zenon DEF TurnsSame, Turns, SameDevs
<1> QED
  BY <1>14, <1>18, <1>19, Zenon

\* A stop.
LEMMA StepStopRises ==
    ASSUME WireOK, CtlStep, ctl.st = "ClockStop"
    PROVE  WireOK' /\ (scl /\ scl' => sda_o' = sda_o) /\ DOMAIN devs' = DOMAIN devs
<1> DEFINE e == Head(fmt)
           c == SclOf(ctl', fmt)
           s == SdaOf(ctl', fmt)
<1>1. /\ ctl' = CtlNext(ctl, fmt, sda /\ sda_o) /\ Drive(c, s)
      /\ e \in Entries /\ Sound(e) /\ ctl \in CtlRec /\ BusOK /\ scl = SclOf(ctl, fmt) /\ sda = SdaOf(ctl, fmt)
      /\ Phase(ctl, bus, e, DOMAIN devs)
      /\ ctl.st = "Idle" => ~ctl.nak /\ Ready(ctl, bus, e)
      /\ ctl.nak => ~Found(bus) /\ ctl.started
  BY CtlStepIs, Zenon
<1>2. /\ e.byte \in Byte /\ e.start \in BOOLEAN /\ e.stop \in BOOLEAN /\ e.read \in BOOLEAN
      /\ ctl.bit \in 0 .. 7 /\ ctl.cnt \in Nat /\ ctl.byte \in Byte /\ ctl.started \in BOOLEAN
      /\ ctl.pend \in BOOLEAN /\ ctl.nak \in BOOLEAN /\ ctl.sent \in Seq(Byte)
      /\ bus.numBits \in 0 .. 8 /\ bus.currByte \in Byte /\ bus.reading \in BOOLEAN
      /\ bus.currDevice \in DOMAIN devs \cup {NoDevice}
      /\ scl \in BOOLEAN /\ sda \in BOOLEAN /\ sda_o \in BOOLEAN
  BY <1>1, EntryFields, CtlFieldTypes, BusFieldTypes, Zenon DEF BusOK
<1>3. (ctl.started /\ Stopping(ctl, bus, e) /\ bus.numBits = 0)
  BY <1>1, PhaseClockStop, Zenon
<1>15. ctl' = CtlNext(ctl, fmt, sda /\ sda_o)
  BY <1>1, Zenon
<1>20. bus.state = "Data" /\ ~ctl.nak /\ Released(bus) /\ Stopping(ctl, bus, e)
  BY <1>3, Zenon DEF Stopping
<1>4. Has(ctl', "SetupStop", ctl.bit, ctl.cnt, ctl.byte, ctl.started, ctl.pend, ctl.nak, ctl.sent)
  <2> DEFINE w1 == [ctl EXCEPT !.st = "SetupStop"]
  <2>1. ctl' = w1
    BY <1>15, NextClockStop, Zenon DEF CtlGo
  <2>2. "SetupStop" \in CtlStates
    BY CtlStateNames, Zenon
  <2>3. Has(w1, "SetupStop", ctl.bit, ctl.cnt, ctl.byte, ctl.started, ctl.pend, ctl.nak, ctl.sent)
    BY <1>1, HasItsFields, <2>2, CtlSt, Zenon
  <2> HIDE DEF w1
  <2> QED
    BY <2>1, <2>3, Zenon
<1>5. /\ ctl' \in CtlRec /\ ctl'.st = "SetupStop" /\ ctl'.bit = ctl.bit /\ ctl'.cnt = ctl.cnt
      /\ ctl'.byte = ctl.byte /\ ctl'.started = ctl.started /\ ctl'.pend = ctl.pend
      /\ ctl'.nak = ctl.nak /\ ctl'.sent = ctl.sent
  BY <1>4, Zenon DEF Has
<1>6. c \in BOOLEAN /\ s \in BOOLEAN
  BY <1>1, <1>5, LinesBoolean, Zenon
<1>7. ~scl /\ c /\ s = sda
  BY <1>1, <1>2, <1>3, <1>5, <1>6, LineClockStop, LineSetupStop, Zenon
<1> HIDE DEF c, s
<1>16. PICK n \in 0 .. 8, v \in Byte : Turns(c, s, "Data", n, v, bus.currDevice, bus.reading, bus.sendAck, bus.heard) /\ (bus.reading => v = bus.currByte)
  BY <1>1, <1>3, <1>6, <1>7, <1>20, DriveDataRises, Zenon
<1>8. Turns(c, s, "Data", n, v, bus.currDevice, bus.reading, bus.sendAck, bus.heard)
  BY <1>16, Zenon
<1>9. /\ bus'.state = "Data" /\ bus'.numBits = n /\ bus'.currByte = v
      /\ bus'.currDevice = bus.currDevice /\ bus'.reading = bus.reading
      /\ bus'.sendAck = bus.sendAck /\ bus'.heard = bus.heard
  BY <1>8, Zenon DEF TurnsSame, Turns, Holds
<1>10. (ctl'.started /\ Stopping(ctl', bus', e))
  <2>1. Released(bus')
    BY <1>9, <1>16, <1>20, ZenonT(60) DEF Released, Found, Spent
  <2> QED
    BY <1>3, <1>5, <1>9, <1>20, <2>1, Zenon DEF Stopping
<1>11. Phase(ctl', bus', e, DOMAIN devs)
  BY <1>5, <1>10, PhaseSetupStop, Zenon
<1>12. ctl'.nak => ~Found(bus') /\ ctl'.started
  BY <1>5, <1>20, Zenon
<1>13. bus.currDevice \in DOMAIN devs \cup {NoDevice}
  BY <1>2, Zenon
<1>14. WireOK'
  BY <1>5, <1>8, <1>11, <1>12, <1>13, CtlEnds, Zenon DEF TurnsSame, c, s
<1>18. scl /\ scl' => sda_o' = sda_o
  BY <1>7, <1>8, <1>14, Zenon DEF TurnsSame, Turns
<1>19. DOMAIN devs' = DOMAIN devs
  BY <1>8, Zenon DEF TurnsSame, Turns, SameDevs
<1> QED
  BY <1>14, <1>18, <1>19, Zenon

LEMMA StepStop ==
    ASSUME WireOK, CtlStep, ctl.st = "SetupStop"
    PROVE  WireOK' /\ (scl /\ scl' => sda_o' = sda_o) /\ DOMAIN devs' = DOMAIN devs
<1> DEFINE e == Head(fmt)
           c == SclOf(ctl', fmt)
           s == SdaOf(ctl', fmt)
<1>1. /\ ctl' = CtlNext(ctl, fmt, sda /\ sda_o) /\ Drive(c, s)
      /\ e \in Entries /\ Sound(e) /\ ctl \in CtlRec /\ BusOK /\ scl = SclOf(ctl, fmt) /\ sda = SdaOf(ctl, fmt)
      /\ Phase(ctl, bus, e, DOMAIN devs)
      /\ ctl.st = "Idle" => ~ctl.nak /\ Ready(ctl, bus, e)
      /\ ctl.nak => ~Found(bus) /\ ctl.started
  BY CtlStepIs, Zenon
<1>2. /\ e.byte \in Byte /\ e.start \in BOOLEAN /\ e.stop \in BOOLEAN /\ e.read \in BOOLEAN
      /\ ctl.bit \in 0 .. 7 /\ ctl.cnt \in Nat /\ ctl.byte \in Byte /\ ctl.started \in BOOLEAN
      /\ ctl.pend \in BOOLEAN /\ ctl.nak \in BOOLEAN /\ ctl.sent \in Seq(Byte)
      /\ bus.numBits \in 0 .. 8 /\ bus.currByte \in Byte /\ bus.reading \in BOOLEAN
      /\ bus.currDevice \in DOMAIN devs \cup {NoDevice}
      /\ scl \in BOOLEAN /\ sda \in BOOLEAN /\ sda_o \in BOOLEAN
  BY <1>1, EntryFields, CtlFieldTypes, BusFieldTypes, Zenon DEF BusOK
<1>3. (ctl.started /\ Stopping(ctl, bus, e))
  BY <1>1, PhaseSetupStop, Zenon
<1>15. ctl' = CtlNext(ctl, fmt, sda /\ sda_o)
  BY <1>1, Zenon
<1> DEFINE yes == TRUE
<1>20. bus.state = "Data" /\ ~ctl.nak /\ Released(bus) /\ e.stop /\ ~e.start
  BY <1>3, Zenon DEF Stopping
<1>4. Has(ctl', "HoldStop", ctl.bit, ctl.cnt, ctl.byte, ctl.started, ctl.pend, ctl.nak, ctl.sent)
  <2> DEFINE w1 == [ctl EXCEPT !.st = "HoldStop"]
  <2>1. ctl' = w1
    BY <1>15, NextSetupStop, Zenon DEF CtlGo
  <2>2. "HoldStop" \in CtlStates
    BY CtlStateNames, Zenon
  <2>3. Has(w1, "HoldStop", ctl.bit, ctl.cnt, ctl.byte, ctl.started, ctl.pend, ctl.nak, ctl.sent)
    BY <1>1, HasItsFields, <2>2, CtlSt, Zenon
  <2> HIDE DEF w1
  <2> QED
    BY <2>1, <2>3, Zenon
<1>5. /\ ctl' \in CtlRec /\ ctl'.st = "HoldStop" /\ ctl'.bit = ctl.bit /\ ctl'.cnt = ctl.cnt
      /\ ctl'.byte = ctl.byte /\ ctl'.started = ctl.started /\ ctl'.pend = ctl.pend
      /\ ctl'.nak = ctl.nak /\ ctl'.sent = ctl.sent
  BY <1>4, Zenon DEF Has
<1>6. c \in BOOLEAN /\ s \in BOOLEAN
  BY <1>1, <1>5, LinesBoolean, Zenon
<1>7. scl /\ c /\ ~sda /\ s
  BY <1>1, <1>2, <1>3, <1>5, <1>6, LineSetupStop, LineHoldStop, Zenon
<1> HIDE DEF c, s
<1>8. Turns(c, s, "Idle", bus.numBits, bus.currByte, NoDevice, bus.reading, bus.sendAck, bus.heard)
  BY <1>1, <1>6, <1>7, <1>20, DriveStop, Zenon
<1>9. /\ bus'.state = "Idle" /\ bus'.numBits = bus.numBits /\ bus'.currByte = bus.currByte
      /\ bus'.currDevice = NoDevice /\ bus'.reading = bus.reading /\ bus'.sendAck = bus.sendAck
      /\ bus'.heard = bus.heard
  BY <1>8, Zenon DEF TurnsSame, Turns, Holds
<1>10. (e.stop /\ ~e.start /\ ~ctl'.nak /\ bus'.state = "Idle")
  BY <1>5, <1>9, <1>20, Zenon
<1>11. Phase(ctl', bus', e, DOMAIN devs)
  BY <1>5, <1>10, PhaseHoldStop, Zenon
<1>12. ctl'.nak => ~Found(bus') /\ ctl'.started
  BY <1>5, <1>20, Zenon
<1>13. NoDevice \in DOMAIN devs \cup {NoDevice}
  BY Zenon
<1>14. WireOK'
  BY <1>5, <1>8, <1>11, <1>12, <1>13, CtlEnds, Zenon DEF TurnsSame, c, s
<1>18. scl /\ scl' => sda_o' = sda_o
  <2>1. Out(bus') = yes
    BY <1>9 DEF Out
  <2>2. sda_o' = yes
    BY <1>7, <1>8, <2>1, Zenon DEF Turns
  <2>3. Out(bus) = yes
    BY <1>20 DEF Out, Released, Spent
  <2>4. sda_o = yes
    BY <1>1, <1>7, <2>3, Zenon DEF BusOK
  <2> QED
    BY <1>14, <2>2, <2>4, Zenon
<1>19. DOMAIN devs' = DOMAIN devs
  BY <1>8, Zenon DEF TurnsSame, Turns, SameDevs
<1> QED
  BY <1>14, <1>18, <1>19, Zenon

LEMMA StepStopped ==
    ASSUME WireOK, CtlStep, ctl.st = "HoldStop"
    PROVE  WireOK' /\ (scl /\ scl' => sda_o' = sda_o) /\ DOMAIN devs' = DOMAIN devs
<1> DEFINE e == Head(fmt)
           c == SclOf(ctl', fmt)
           s == SdaOf(ctl', fmt)
<1>1. /\ ctl' = CtlNext(ctl, fmt, sda /\ sda_o) /\ Drive(c, s)
      /\ e \in Entries /\ Sound(e) /\ ctl \in CtlRec /\ BusOK /\ scl = SclOf(ctl, fmt) /\ sda = SdaOf(ctl, fmt)
      /\ Phase(ctl, bus, e, DOMAIN devs)
      /\ ctl.st = "Idle" => ~ctl.nak /\ Ready(ctl, bus, e)
      /\ ctl.nak => ~Found(bus) /\ ctl.started
  BY CtlStepIs, Zenon
<1>2. /\ e.byte \in Byte /\ e.start \in BOOLEAN /\ e.stop \in BOOLEAN /\ e.read \in BOOLEAN
      /\ ctl.bit \in 0 .. 7 /\ ctl.cnt \in Nat /\ ctl.byte \in Byte /\ ctl.started \in BOOLEAN
      /\ ctl.pend \in BOOLEAN /\ ctl.nak \in BOOLEAN /\ ctl.sent \in Seq(Byte)
      /\ bus.numBits \in 0 .. 8 /\ bus.currByte \in Byte /\ bus.reading \in BOOLEAN
      /\ bus.currDevice \in DOMAIN devs \cup {NoDevice}
      /\ scl \in BOOLEAN /\ sda \in BOOLEAN /\ sda_o \in BOOLEAN
  BY <1>1, EntryFields, CtlFieldTypes, BusFieldTypes, Zenon DEF BusOK
<1>3. (e.stop /\ ~e.start /\ ~ctl.nak /\ bus.state = "Idle")
  BY <1>1, PhaseHoldStop, Zenon
<1>15. ctl' = CtlNext(ctl, fmt, sda /\ sda_o)
  BY <1>1, Zenon
<1> DEFINE no == FALSE
<1>4. Has(ctl', "PopFmtFifo", ctl.bit, ctl.cnt, ctl.byte, no, ctl.pend, ctl.nak, ctl.sent)
  <2> DEFINE w1 == [ctl EXCEPT !.st = "PopFmtFifo"]
             w2 == [w1 EXCEPT !.started = no]
  <2>1. ctl' = w2
    BY <1>15, NextHoldStop, Zenon
  <2>2. "PopFmtFifo" \in CtlStates
    BY CtlStateNames, Zenon
  <2>3. Has(w1, "PopFmtFifo", ctl.bit, ctl.cnt, ctl.byte, ctl.started, ctl.pend, ctl.nak, ctl.sent)
    BY <1>1, HasItsFields, <2>2, CtlSt, Zenon
  <2> HIDE DEF w1
  <2>4. no \in BOOLEAN
    BY Zenon DEF no
  <2>5. Has(w2, "PopFmtFifo", ctl.bit, ctl.cnt, ctl.byte, no, ctl.pend, ctl.nak, ctl.sent)
    BY <2>3, <2>4, CtlStarted, Zenon
  <2> HIDE DEF w2
  <2> QED
    BY <2>1, <2>5, Zenon
<1>5. /\ ctl' \in CtlRec /\ ctl'.st = "PopFmtFifo" /\ ctl'.bit = ctl.bit /\ ctl'.cnt = ctl.cnt
      /\ ctl'.byte = ctl.byte /\ ctl'.started = no /\ ctl'.pend = ctl.pend
      /\ ctl'.nak = ctl.nak /\ ctl'.sent = ctl.sent
  BY <1>4, Zenon DEF Has
<1>6. c \in BOOLEAN /\ s \in BOOLEAN
  BY <1>1, <1>5, LinesBoolean, Zenon
<1>7. c = scl /\ s = sda
  BY <1>1, <1>2, <1>3, <1>5, <1>6, LineHoldStop, LinePopFmtFifo, Zenon
<1> HIDE DEF c, s
<1>8. TurnsSame(c, s)
  BY <1>1, <1>7, DriveStill, Zenon
<1>9. /\ bus'.state = bus.state /\ bus'.numBits = bus.numBits /\ bus'.currByte = bus.currByte
      /\ bus'.currDevice = bus.currDevice /\ bus'.reading = bus.reading
      /\ bus'.sendAck = bus.sendAck /\ bus'.heard = bus.heard
  BY <1>8, Zenon DEF TurnsSame, Turns, Holds
<1>10. (Between(ctl', bus') /\ Done(ctl', bus', e) /\ (e.start => Addressee(bus', e, DOMAIN devs)))
  <2>1. Between(ctl', bus')
    BY <1>3, <1>5, <1>9, Zenon DEF Between, no
  <2>2. Done(ctl', bus', e)
    BY <1>2, <1>3, <1>5, <1>9, Zenon DEF Done, no
  <2> QED
    BY <1>3, <2>1, <2>2, Zenon
<1>11. Phase(ctl', bus', e, DOMAIN devs)
  BY <1>5, <1>10, PhasePopFmtFifo, Zenon
<1>12. ctl'.nak => ~Found(bus') /\ ctl'.started
  BY <1>3, <1>5, Zenon
<1>13. bus.currDevice \in DOMAIN devs \cup {NoDevice}
  BY <1>2, Zenon
<1>14. WireOK'
  BY <1>5, <1>8, <1>11, <1>12, <1>13, CtlEnds, Zenon DEF TurnsSame, c, s
<1>18. scl /\ scl' => sda_o' = sda_o
  BY <1>1, <1>7, <1>8, <1>14, DriveStill, Zenon
<1>19. DOMAIN devs' = DOMAIN devs
  BY <1>8, Zenon DEF TurnsSame, Turns, SameDevs
<1> QED
  BY <1>14, <1>18, <1>19, Zenon
\* The FIFO moves on to the next entry.
LEMMA TailOK ==
    ASSUME NEW f, FmtOK(f), f # <<>>
    PROVE  /\ FmtOK(Tail(f)) /\ (Len(f) = 1 <=> Tail(f) = <<>>)
           /\ Tail(f) # <<>> => Follows(Head(f), Head(Tail(f))) /\ Tail(f)[Len(Tail(f))] = f[Len(f)]
           /\ Tail(f) = <<>> => f[Len(f)] = Head(f)
<1>1. f \in Seq(Entries) /\ Head(f) = f[1] /\ Len(f) \in Nat \ {0}
  BY HeadEntry DEF FmtOK
<1>2. /\ Tail(f) \in Seq(Entries) /\ Len(Tail(f)) = Len(f) - 1
      /\ \A k \in 1 .. Len(Tail(f)) : Tail(f)[k] = f[k + 1] /\ k + 1 \in 1 .. Len(f)
  BY <1>1
<1>3. Len(f) = 1 <=> Tail(f) = <<>>
  <2> DEFINE t == Tail(f)
  <2>1. t \in Seq(Entries) /\ Len(t) = Len(f) - 1
    BY <1>2, Zenon
  <2> HIDE DEF t
  <2>2. Len(t) = 0 <=> t = <<>>
    BY ONLY <2>1, EmptySeq
  <2>3. Len(f) = 1 <=> t = <<>>
    BY <1>1, <2>1, <2>2
  <2> QED
    BY <2>3 DEF t
<1>4. \A k \in 1 .. Len(Tail(f)) : Sound(Tail(f)[k])
  BY <1>2, Zenon DEF FmtOK
<1>5. ASSUME NEW k \in 1 .. Len(Tail(f)), k < Len(Tail(f))
      PROVE  Follows(Tail(f)[k], Tail(f)[k + 1])
  <2>1. k + 1 \in 1 .. Len(f) /\ k + 1 < Len(f) /\ k + 1 \in 1 .. Len(Tail(f))
    BY <1>1, <1>2, <1>5
  <2>2. Tail(f)[k] = f[k + 1] /\ Tail(f)[k + 1] = f[(k + 1) + 1]
    BY <1>2, <2>1, Zenon
  <2>3. Follows(f[k + 1], f[(k + 1) + 1])
    BY <2>1, Zenon DEF FmtOK
  <2> QED
    BY <2>2, <2>3, Zenon
<1>6. FmtOK(Tail(f))
  BY <1>2, <1>4, <1>5, Zenon DEF FmtOK
<1>7. ASSUME Tail(f) # <<>>
      PROVE  Follows(Head(f), Head(Tail(f))) /\ Tail(f)[Len(Tail(f))] = f[Len(f)]
  <2>1. 1 \in 1 .. Len(f) /\ 1 < Len(f) /\ Head(Tail(f)) = f[1 + 1]
    BY <1>1, <1>2, <1>7
  <2>2. Follows(f[1], f[1 + 1])
    BY <2>1, Zenon DEF FmtOK
  <2>3. Tail(f)[Len(Tail(f))] = f[Len(f)]
    BY <1>1, <1>2, <1>7
  <2> QED
    BY <1>1, <2>1, <2>2, <2>3, Zenon
<1>8. Tail(f) = <<>> => f[Len(f)] = Head(f)
  BY <1>1, <1>3
<1> QED
  BY <1>3, <1>6, <1>7, <1>8, Zenon

LEMMA ReadyNext ==
    ASSUME NEW c, NEW b, NEW e, NEW x, Done(c, b, e), Follows(e, x), ~c.nak, Sound(e), Sound(x)
    PROVE  Ready(c, b, x)
<1>1. CASE ~c.started
  BY <1>1, Zenon DEF Done, Follows, Ready
<1>2. CASE c.started
  <2>1. ~e.stop
    BY <1>2, Zenon DEF Done
  <2>2. x.read => b.reading /\ Found(b)
    BY Zenon DEF Done, Follows, Sound, Data
  <2>3. x.start => Released(b)
    BY <2>1, Zenon DEF Done, Follows, Sound, Data
  <2>4. Data(x) => ~b.reading /\ Found(b)
    BY <2>1, Zenon DEF Done, Follows, Sound, Data
  <2> QED
    BY <1>2, <2>2, <2>3, <2>4, Zenon DEF Ready
<1> QED
  BY <1>1, <1>2

\* When the FIFO is empty, what the driver put there last has been served.
LEMMA ServedLast ==
    ASSUME NEW d, NEW c, NEW b, NEW e, NEW dom, Done(c, b, e), e.start => Addressee(b, e, dom),
           Sound(e), Last1(d, e), c.nak => ~Found(b), d.pc \notin {"read_nak", "read_len"},
           d.pc = "read_addr" => d.op.addr \in Nat, c.nak \in BOOLEAN, b.reading \in BOOLEAN
    PROVE  Served(d, c, b, dom)
<1>1. ASSUME d.pc = "write_bytes"
      PROVE  c.started /\ ~b.reading /\ (Found(b) \/ c.nak)
  BY <1>1, Zenon DEF Done, Last1, Sound
<1>2. ASSUME d.pc = "read_addr"
      PROVE  /\ c.started /\ b.reading /\ b.currDevice = Target(dom, d.op.addr)
             /\ c.nak = ~Found(b)
  <2>1. e.start /\ e.byte = d.op.addr * 2 + 1
    BY <1>2, Zenon DEF Last1
  <2>2. e.byte % 2 = 1 /\ e.byte \div 2 = d.op.addr
    BY <1>2, <2>1
  <2>3. c.started /\ b.reading = Odd(e) /\ (Found(b) \/ c.nak) /\ b.currDevice = Target(dom, e.byte \div 2)
    BY <2>1, Zenon DEF Done, Sound, Addressee
  <2>4. b.currDevice = Target(dom, d.op.addr) /\ Odd(e)
    BY <2>2, <2>3, Zenon DEF Odd
  <2>5. b.reading
    BY <2>3, <2>4, Zenon
  <2>6. c.nak = ~Found(b)
    BY <2>3, Zenon
  <2> QED
    BY <2>3, <2>4, <2>5, <2>6, Zenon
<1>3. ASSUME d.pc \notin {"write_bytes", "read_addr", "read_nak", "read_len"}
      PROVE  ~c.nak /\ (c.started => Released(b))
  <2>1. ~e.start
    BY <1>3, Zenon DEF Last1
  <2> QED
    BY <2>1, Zenon DEF Done
<1> QED
  <2>1. d.pc \in {"read_addr", "read_nak", "read_len"} => d.pc = "read_addr"
    BY Zenon
  <2>2. d.pc # "read_len"
    BY Zenon
  <2> QED
    BY <1>1, <1>2, <1>3, <2>1, <2>2, Zenon DEF Served

LEMMA StepPop ==
    ASSUME WireOK, CtlStep, ctl.st = "PopFmtFifo"
    PROVE  /\ WireOK' /\ bus' = bus /\ devs' = devs /\ sda_o' = sda_o
           /\ fmt' = Tail(fmt) /\ fmt # <<>> /\ Sound(Head(fmt))
           /\ Done(ctl', bus', Head(fmt)) /\ (Head(fmt).start => Addressee(bus', Head(fmt), DOMAIN devs))
           /\ ctl'.nak \in BOOLEAN /\ bus'.reading \in BOOLEAN
<1> DEFINE e == Head(fmt)
           f == Tail(fmt)
           q == IF Len(fmt) = 1 \/ ctl.nak \/ ~ctl.started THEN "Idle" ELSE "Active"
<1>1. /\ ctl' = CtlNext(ctl, fmt, sda /\ sda_o) /\ fmt' = f /\ Drive(SclOf(ctl', fmt'), SdaOf(ctl', fmt'))
      /\ e \in Entries /\ Sound(e) /\ ctl \in CtlRec /\ BusOK /\ scl = SclOf(ctl, fmt) /\ sda = SdaOf(ctl, fmt)
      /\ Phase(ctl, bus, e, DOMAIN devs) /\ FmtOK(fmt) /\ fmt # <<>>
      /\ ctl.nak => ~Found(bus) /\ ctl.started
  BY CtlStepIs, Zenon
<1>2. /\ e.byte \in Byte /\ e.start \in BOOLEAN /\ e.stop \in BOOLEAN /\ e.read \in BOOLEAN
      /\ ctl.started \in BOOLEAN /\ ctl.nak \in BOOLEAN
      /\ bus.reading \in BOOLEAN
  BY <1>1, EntryFields, CtlFieldTypes, BusFieldTypes, Zenon DEF BusOK
<1>3. Between(ctl, bus) /\ Done(ctl, bus, e) /\ (e.start => Addressee(bus, e, DOMAIN devs))
  BY <1>1, PhasePopFmtFifo, Zenon
<1>4. Has(ctl', q, ctl.bit, ctl.cnt, ctl.byte, ctl.started, ctl.pend, ctl.nak, ctl.sent)
  <2>0. ctl' = CtlNext(ctl, fmt, sda /\ sda_o)
    BY <1>1, Zenon
  <2>1. ctl' = [ctl EXCEPT !.st = q]
    BY <2>0, NextPopFmtFifo, Zenon DEF CtlGo
  <2>2. q \in CtlStates
    BY CtlStateNames, Zenon
  <2> HIDE DEF q
  <2>3. Has(ctl, ctl.st, ctl.bit, ctl.cnt, ctl.byte, ctl.started, ctl.pend, ctl.nak, ctl.sent)
    BY <1>1, HasItsFields, Zenon
  <2>4. Has([ctl EXCEPT !.st = q], q, ctl.bit, ctl.cnt, ctl.byte, ctl.started, ctl.pend, ctl.nak, ctl.sent)
    BY <2>2, <2>3, CtlSt, Zenon
  <2> QED
    BY <2>1, <2>4, Zenon
<1>5. /\ ctl' \in CtlRec /\ ctl'.st = q /\ ctl'.started = ctl.started /\ ctl'.nak = ctl.nak
      /\ ctl'.sent = ctl.sent
  BY <1>4, Zenon DEF Has
<1>6. FmtOK(f) /\ (Len(fmt) = 1 <=> f = <<>>) /\ (f # <<>> => Follows(e, Head(f)))
  BY <1>1, TailOK, Zenon
<1>7. q = "Idle" \/ (q = "Active" /\ ~ctl.nak /\ ctl.started /\ f # <<>>)
  BY <1>2, <1>6, Zenon
<1>8. scl = ~ctl.started /\ sda = TRUE
  <2>1. scl = e.stop /\ sda
    BY <1>1, LinePopFmtFifo, Zenon
  <2>2. ctl.started = ~e.stop
    BY <1>3, Zenon DEF Done
  <2>3. scl = ~ctl.started
    BY <1>2, <2>1, <2>2, Zenon
  <2>4. sda = TRUE
    BY <1>1, <2>1, Zenon DEF BusOK
  <2> QED
    BY <2>3, <2>4, Zenon
<1>9. SclOf(ctl', f) = ~ctl.started /\ SdaOf(ctl', f) = TRUE
  <2>1. CASE q = "Idle"
    <3>1. SclOf(ctl', f) = ~ctl'.started /\ SdaOf(ctl', f)
      BY <1>5, <2>1, LineIdle, Zenon
    <3>2. SdaOf(ctl', f) \in BOOLEAN
      BY <1>5, <2>1, LinesBoolean
    <3> QED
      BY <1>5, <3>1, <3>2, Zenon
  <2>2. CASE q = "Active" /\ ~ctl.nak /\ ctl.started /\ f # <<>>
    <3>1. Head(f) \in Entries
      BY <1>6, <2>2, HeadEntry, Zenon
    <3>2. SclOf(ctl', f) \in BOOLEAN /\ SdaOf(ctl', f) \in BOOLEAN
      BY <1>5, <3>1, LinesBoolean, Zenon
    <3>3. SclOf(ctl', f) = (Head(f).start /\ ~ctl'.started) /\ SdaOf(ctl', f)
      BY <1>5, <2>2, LineActive, Zenon
    <3> QED
      BY <1>5, <2>2, <3>2, <3>3, Zenon
  <2> QED
    BY <1>7, <2>1, <2>2, Zenon
<1>10. scl' = scl /\ sda' = sda /\ bus' = bus /\ devs' = devs /\ sda_o' = sda_o
  <2> DEFINE c == SclOf(ctl', f)
             s == SdaOf(ctl', f)
  <2>1. Drive(c, s)
    BY <1>1, Zenon
  <2>2. c = scl /\ s = sda
    BY <1>8, <1>9, Zenon
  <2> HIDE DEF c, s
  <2> QED
    BY <2>1, <2>2, Zenon DEF Drive
<1>11. Between(ctl', bus') /\ Done(ctl', bus', e)
  BY <1>3, <1>5, <1>10, Zenon DEF Between, Done
<1>12. f # <<>> /\ ~ctl'.nak => Ready(ctl', bus', Head(f))
  <2>1. f # <<>> => Sound(Head(f))
    BY <1>6, HeadEntry, Zenon
  <2> QED
    BY <1>1, <1>6, <1>11, <2>1, ReadyNext, Zenon
<1>13. BusOK'
  <2>1. Out(bus') = Out(bus)
    BY <1>10, Zenon
  <2> QED
    BY <1>1, <1>10, <2>1, Zenon DEF BusOK
<1>14. scl' = SclOf(ctl', fmt') /\ sda' = SdaOf(ctl', fmt')
  BY <1>1, <1>8, <1>9, <1>10, Zenon
<1>15. Phase(ctl', bus', Head(f), DOMAIN devs')
  <2>1. CASE q = "Idle"
    BY <1>5, <1>11, <2>1, PhaseIdle, Zenon
  <2>2. CASE q = "Active" /\ ~ctl.nak /\ ctl.started /\ f # <<>>
    BY <1>5, <1>11, <1>12, <2>2, PhaseActive, Zenon
  <2> QED
    BY <1>7, <2>1, <2>2, Zenon
<1>16. ctl'.nak => ~Found(bus') /\ ctl'.started
  BY <1>1, <1>5, <1>10, Zenon
<1>17. ctl'.st # "Idle" => f # <<>>
  BY <1>5, <1>7, Zenon
<1> HIDE DEF q
<1>18. WireOK'
  BY <1>1, <1>5, <1>6, <1>12, <1>13, <1>14, <1>15, <1>16, <1>17, Zenon DEF WireOK
<1>19. Addressee(bus, e, DOMAIN devs) => Addressee(bus', e, DOMAIN devs)
  BY <1>10, Zenon DEF Addressee
<1>20. ctl'.nak \in BOOLEAN /\ bus'.reading \in BOOLEAN
  BY <1>2, <1>5, <1>10, Zenon
<1> QED
  BY <1>1, <1>3, <1>10, <1>11, <1>18, <1>19, <1>20, Zenon

\* A step of the controller keeps the invariant, and SDA while SCL is high.
LEMMA CtlStepKeeps ==
    ASSUME WireOK, CtlStep
    PROVE  WireOK' /\ (scl /\ scl' => sda_o' = sda_o) /\ DOMAIN devs' = DOMAIN devs
<1>0. ctl.st \in CtlStates /\ ctl.bit \in 0 .. 7
  BY CtlFieldTypes, Zenon DEF WireOK
<1>22. ctl.bit > 0 \/ ctl.bit = 0
  BY <1>0
<1>1. CASE ctl.st = "Idle"
  BY <1>1, StepIdle, Zenon
<1>2. CASE ctl.st = "Active"
  BY <1>2, StepActiveRead, StepActiveStart, StepActiveByte, Zenon
<1>3. CASE ctl.st = "SetupStart"
  BY <1>3, StepStart, StepRestart, Zenon
<1>4. CASE ctl.st = "HoldStart"
  BY <1>4, StepHoldStart, Zenon
<1>5. CASE ctl.st = "ClockStart"
  BY <1>5, StepClockStart, Zenon
<1>6. CASE ctl.st = "ClockLow"
  BY <1>6, <1>22, StepRestartRises, StepAddrBit, StepDataBit, StepAddrLast, StepDataLast, Zenon
<1>7. CASE ctl.st = "ClockPulse"
  BY <1>7, StepAddrFalls, StepDataFalls, StepGotFalls, Zenon
<1>8. CASE ctl.st = "HoldBit"
  BY <1>8, <1>22, StepBitHeld, StepByteHeld, Zenon
<1>9. CASE ctl.st = "ClockLowAck"
  BY <1>9, StepAckRises, Zenon
<1>10. CASE ctl.st = "ClockPulseAck"
  BY <1>10, StepAckFalls, Zenon
<1>11. CASE ctl.st = "HoldDevAck"
  BY <1>11, StepAckedStop, StepAcked, Zenon
<1>12. CASE ctl.st = "ReadClockLow"
  BY <1>12, StepReadRises, Zenon
<1>13. CASE ctl.st = "ReadClockPulse"
  BY <1>13, StepReadFalls, Zenon
<1>14. CASE ctl.st = "ReadHoldBit"
  BY <1>14, StepReadNext, StepReadByte, Zenon
<1>15. CASE ctl.st = "HostClockLowAck"
  BY <1>15, StepHostAckRises, Zenon
<1>16. CASE ctl.st = "HostClockPulseAck"
  BY <1>16, StepHostAckFalls, Zenon
<1>17. CASE ctl.st = "HostHoldBitAck"
  BY <1>17, StepReadMore, StepReadStop, StepReadDone, Zenon
<1>18. CASE ctl.st = "ClockStop"
  BY <1>18, StepStopRises, Zenon
<1>19. CASE ctl.st = "SetupStop"
  BY <1>19, StepStop, Zenon
<1>20. CASE ctl.st = "HoldStop"
  BY <1>20, StepStopped, Zenon
<1>21. CASE ctl.st = "PopFmtFifo"
  BY <1>21, StepPop, Zenon
<1> QED
  BY <1>0, <1>1, <1>2, <1>3, <1>4, <1>5, <1>6, <1>7, <1>8, <1>9, <1>10, <1>11, <1>12, <1>13, <1>14, <1>15, <1>16, <1>17, <1>18, <1>19, <1>20, <1>21, Zenon DEF CtlStates
-----------------------------------------------------------------------------
(* The steps of the driver. *)

\* The fields of the driver.
At(x, pc, op, k, n, chunk, rc, buf, reg) ==
    /\ x \in DrvRec /\ x.pc = pc /\ x.op = op /\ x.k = k /\ x.n = n
    /\ x.chunk = chunk /\ x.rc = rc /\ x.buf = buf /\ x.reg = reg

LEMMA AtItsFields ==
    ASSUME NEW x \in DrvRec
    PROVE  At(x, x.pc, x.op, x.k, x.n, x.chunk, x.rc, x.buf, x.reg)
  BY Zenon DEF At

LEMMA DrvFieldTypes ==
    ASSUME NEW x \in DrvRec
    PROVE  /\ x.pc \in Pcs /\ x.op \in Ops /\ x.k \in Nat /\ x.n \in Nat /\ x.chunk \in Nat
           /\ x.rc \in {0, -1} /\ x.buf \in Seq(Byte) /\ x.reg \in Seq(Byte)
  BY DEF DrvRec

LEMMA OpFieldTypes ==
    ASSUME NEW x \in Ops
    PROVE  x.addr \in 0 .. 128 /\ x.data \in Seq(Byte) /\ x.skip \in BOOLEAN /\ x.n \in Nat
  BY DEF Ops

LEMMA AtPc ==
    ASSUME NEW x, NEW pc, NEW op, NEW k, NEW n, NEW chunk, NEW rc, NEW buf, NEW reg,
           At(x, pc, op, k, n, chunk, rc, buf, reg), NEW v \in Pcs
    PROVE  At([x EXCEPT !.pc = v], v, op, k, n, chunk, rc, buf, reg)
<1> DEFINE z == [x EXCEPT !.pc = v]
<1>1. z \in DrvRec
  BY DEF At, DrvRec
<1>2. z.pc = v
  BY DEF At, DrvRec
<1>3. z.op = x.op /\ z.k = x.k /\ z.n = x.n /\ z.chunk = x.chunk /\ z.rc = x.rc /\ z.buf = x.buf /\ z.reg = x.reg
  BY DEF At, DrvRec
<1> HIDE DEF z
<1>4. At(z, v, op, k, n, chunk, rc, buf, reg)
  BY <1>1, <1>2, <1>3, Zenon DEF At
<1> QED
  BY <1>4 DEF z

LEMMA AtOp ==
    ASSUME NEW x, NEW pc, NEW op, NEW k, NEW n, NEW chunk, NEW rc, NEW buf, NEW reg,
           At(x, pc, op, k, n, chunk, rc, buf, reg), NEW v \in Ops
    PROVE  At([x EXCEPT !.op = v], pc, v, k, n, chunk, rc, buf, reg)
<1> DEFINE z == [x EXCEPT !.op = v]
<1>1. z \in DrvRec
  BY DEF At, DrvRec
<1>2. z.op = v
  BY DEF At, DrvRec
<1>3. z.pc = x.pc /\ z.k = x.k /\ z.n = x.n /\ z.chunk = x.chunk /\ z.rc = x.rc /\ z.buf = x.buf /\ z.reg = x.reg
  BY DEF At, DrvRec
<1> HIDE DEF z
<1>4. At(z, pc, v, k, n, chunk, rc, buf, reg)
  BY <1>1, <1>2, <1>3, Zenon DEF At
<1> QED
  BY <1>4 DEF z

LEMMA AtK ==
    ASSUME NEW x, NEW pc, NEW op, NEW k, NEW n, NEW chunk, NEW rc, NEW buf, NEW reg,
           At(x, pc, op, k, n, chunk, rc, buf, reg), NEW v \in Nat
    PROVE  At([x EXCEPT !.k = v], pc, op, v, n, chunk, rc, buf, reg)
<1> DEFINE z == [x EXCEPT !.k = v]
<1>1. z \in DrvRec
  BY DEF At, DrvRec
<1>2. z.k = v
  BY DEF At, DrvRec
<1>3. z.pc = x.pc /\ z.op = x.op /\ z.n = x.n /\ z.chunk = x.chunk /\ z.rc = x.rc /\ z.buf = x.buf /\ z.reg = x.reg
  BY DEF At, DrvRec
<1> HIDE DEF z
<1>4. At(z, pc, op, v, n, chunk, rc, buf, reg)
  BY <1>1, <1>2, <1>3, Zenon DEF At
<1> QED
  BY <1>4 DEF z

LEMMA AtN ==
    ASSUME NEW x, NEW pc, NEW op, NEW k, NEW n, NEW chunk, NEW rc, NEW buf, NEW reg,
           At(x, pc, op, k, n, chunk, rc, buf, reg), NEW v \in Nat
    PROVE  At([x EXCEPT !.n = v], pc, op, k, v, chunk, rc, buf, reg)
<1> DEFINE z == [x EXCEPT !.n = v]
<1>1. z \in DrvRec
  BY DEF At, DrvRec
<1>2. z.n = v
  BY DEF At, DrvRec
<1>3. z.pc = x.pc /\ z.op = x.op /\ z.k = x.k /\ z.chunk = x.chunk /\ z.rc = x.rc /\ z.buf = x.buf /\ z.reg = x.reg
  BY DEF At, DrvRec
<1> HIDE DEF z
<1>4. At(z, pc, op, k, v, chunk, rc, buf, reg)
  BY <1>1, <1>2, <1>3, Zenon DEF At
<1> QED
  BY <1>4 DEF z

LEMMA AtChunk ==
    ASSUME NEW x, NEW pc, NEW op, NEW k, NEW n, NEW chunk, NEW rc, NEW buf, NEW reg,
           At(x, pc, op, k, n, chunk, rc, buf, reg), NEW v \in Nat
    PROVE  At([x EXCEPT !.chunk = v], pc, op, k, n, v, rc, buf, reg)
<1> DEFINE z == [x EXCEPT !.chunk = v]
<1>1. z \in DrvRec
  BY DEF At, DrvRec
<1>2. z.chunk = v
  BY DEF At, DrvRec
<1>3. z.pc = x.pc /\ z.op = x.op /\ z.k = x.k /\ z.n = x.n /\ z.rc = x.rc /\ z.buf = x.buf /\ z.reg = x.reg
  BY DEF At, DrvRec
<1> HIDE DEF z
<1>4. At(z, pc, op, k, n, v, rc, buf, reg)
  BY <1>1, <1>2, <1>3, Zenon DEF At
<1> QED
  BY <1>4 DEF z

LEMMA AtRc ==
    ASSUME NEW x, NEW pc, NEW op, NEW k, NEW n, NEW chunk, NEW rc, NEW buf, NEW reg,
           At(x, pc, op, k, n, chunk, rc, buf, reg), NEW v \in {0, -1}
    PROVE  At([x EXCEPT !.rc = v], pc, op, k, n, chunk, v, buf, reg)
<1> DEFINE z == [x EXCEPT !.rc = v]
<1>1. z \in DrvRec
  BY DEF At, DrvRec
<1>2. z.rc = v
  BY DEF At, DrvRec
<1>3. z.pc = x.pc /\ z.op = x.op /\ z.k = x.k /\ z.n = x.n /\ z.chunk = x.chunk /\ z.buf = x.buf /\ z.reg = x.reg
  BY DEF At, DrvRec
<1> HIDE DEF z
<1>4. At(z, pc, op, k, n, chunk, v, buf, reg)
  BY <1>1, <1>2, <1>3, Zenon DEF At
<1> QED
  BY <1>4 DEF z

LEMMA AtBuf ==
    ASSUME NEW x, NEW pc, NEW op, NEW k, NEW n, NEW chunk, NEW rc, NEW buf, NEW reg,
           At(x, pc, op, k, n, chunk, rc, buf, reg), NEW v \in Seq(Byte)
    PROVE  At([x EXCEPT !.buf = v], pc, op, k, n, chunk, rc, v, reg)
<1> DEFINE z == [x EXCEPT !.buf = v]
<1>1. z \in DrvRec
  BY DEF At, DrvRec
<1>2. z.buf = v
  BY DEF At, DrvRec
<1>3. z.pc = x.pc /\ z.op = x.op /\ z.k = x.k /\ z.n = x.n /\ z.chunk = x.chunk /\ z.rc = x.rc /\ z.reg = x.reg
  BY DEF At, DrvRec
<1> HIDE DEF z
<1>4. At(z, pc, op, k, n, chunk, rc, v, reg)
  BY <1>1, <1>2, <1>3, Zenon DEF At
<1> QED
  BY <1>4 DEF z

LEMMA AtReg ==
    ASSUME NEW x, NEW pc, NEW op, NEW k, NEW n, NEW chunk, NEW rc, NEW buf, NEW reg,
           At(x, pc, op, k, n, chunk, rc, buf, reg), NEW v \in Seq(Byte)
    PROVE  At([x EXCEPT !.reg = v], pc, op, k, n, chunk, rc, buf, v)
<1> DEFINE z == [x EXCEPT !.reg = v]
<1>1. z \in DrvRec
  BY DEF At, DrvRec
<1>2. z.reg = v
  BY DEF At, DrvRec
<1>3. z.pc = x.pc /\ z.op = x.op /\ z.k = x.k /\ z.n = x.n /\ z.chunk = x.chunk /\ z.rc = x.rc /\ z.buf = x.buf
  BY DEF At, DrvRec
<1> HIDE DEF z
<1>4. At(z, pc, op, k, n, chunk, rc, buf, v)
  BY <1>1, <1>2, <1>3, Zenon DEF At
<1> QED
  BY <1>4 DEF z

\* An entry is put into the FIFO.
LEMMA AppendOK ==
    ASSUME NEW f, FmtOK(f), NEW x \in Entries, Sound(x), f # <<>> => Follows(f[Len(f)], x)
    PROVE  /\ FmtOK(Append(f, x)) /\ Append(f, x) # <<>>
           /\ Append(f, x)[Len(Append(f, x))] = x
           /\ f # <<>> => Head(Append(f, x)) = Head(f)
           /\ f = <<>> => Head(Append(f, x)) = x
<1>1. f \in Seq(Entries) /\ Len(f) \in Nat /\ (f # <<>> => Len(f) # 0)
  <2>1. f \in Seq(Entries)
    BY Zenon DEF FmtOK
  <2> QED
    BY <2>1, EmptySeq
<1> DEFINE g == Append(f, x)
<1>2. g \in Seq(Entries) /\ Len(g) = Len(f) + 1 /\ g[Len(f) + 1] = x /\ g # <<>>
  <2>1. g \in Seq(Entries) /\ Len(g) = Len(f) + 1 /\ g[Len(f) + 1] = x
    BY <1>1
  <2> HIDE DEF g
  <2>2. g # <<>>
    BY <1>1, <2>1
  <2> QED
    BY <2>1, <2>2
<1>3. \A k \in 1 .. Len(f) : g[k] = f[k]
  BY <1>1
<1> HIDE DEF g
<1>4. ASSUME NEW k \in 1 .. Len(g)
      PROVE  Sound(g[k])
  <2>1. CASE k = Len(f) + 1
    BY <1>2, <2>1, Zenon
  <2>2. CASE k # Len(f) + 1
    <3>1. k \in 1 .. Len(f)
      BY <1>1, <1>2, <2>2
    <3> QED
      BY <1>3, <3>1, Zenon DEF FmtOK
  <2> QED
    BY <2>1, <2>2
<1>5. ASSUME NEW k \in 1 .. Len(g), k < Len(g)
      PROVE  Follows(g[k], g[k + 1])
  <2>1. k \in 1 .. Len(f)
    BY <1>1, <1>2, <1>5
  <2>2. CASE k = Len(f)
    <3>1. f # <<>>
      BY <2>1
    <3> QED
      BY <1>2, <1>3, <2>1, <2>2, <3>1, Zenon
  <2>3. CASE k # Len(f)
    <3>1. k < Len(f) /\ k + 1 \in 1 .. Len(f)
      BY <1>1, <2>1, <2>3
    <3> QED
      BY <1>3, <2>1, <3>1, Zenon DEF FmtOK
  <2> QED
    BY <2>2, <2>3
<1>6. FmtOK(g)
  BY <1>2, <1>4, <1>5, Zenon DEF FmtOK
<1>7. g[Len(g)] = x
  BY <1>2, Zenon
<1>8. f # <<>> => Head(g) = Head(f)
  BY <1>1, <1>2, <1>3
<1>9. f = <<>> => Head(g) = x
  BY <1>1, <1>2
<1> QED
  BY <1>2, <1>6, <1>7, <1>8, <1>9, Zenon DEF g

\* The lines depend on the FIFO through its head, and not at all when idle.
LEMMA LinesSame ==
    ASSUME NEW c, NEW f, NEW g, c.st = "Idle" \/ Head(f) = Head(g)
    PROVE  SclOf(c, f) = SclOf(c, g) /\ SdaOf(c, f) = SdaOf(c, g)
<1>1. CASE c.st = "Idle"
  <2>1. SclOf(c, f) = ~c.started /\ SclOf(c, g) = ~c.started
    BY <1>1 DEF SclOf
  <2>2. SdaOf(c, f) = SdaOf(c, g)
    BY <1>1 DEF SdaOf
  <2> QED
    BY <2>1, <2>2, Zenon
<1>2. CASE Head(f) = Head(g)
  <2>1. SclOf(c, f) = SclOf(c, g)
    BY <1>2, Zenon DEF SclOf
  <2>2. SdaOf(c, f) = SdaOf(c, g)
    BY <1>2, Zenon DEF SdaOf
  <2> QED
    BY <2>1, <2>2, Zenon
<1> QED
  BY <1>1, <1>2

\* Nothing moves on the bus.
BusKept == bus' = bus /\ devs' = devs /\ sda_o' = sda_o /\ scl' = scl /\ sda' = sda

LEMMA BusKeptOK == ASSUME BusOK, BusKept PROVE BusOK'
<1>1. bus' = bus /\ devs' = devs /\ sda_o' = sda_o /\ scl' = scl /\ sda' = sda
  BY Zenon DEF BusKept
<1>2. Out(bus') = Out(bus)
  BY <1>1, Zenon
<1> QED
  BY <1>1, <1>2, Zenon DEF BusOK

LEMMA WireKept == ASSUME WireOK, BusKept, ctl' = ctl, fmt' = fmt PROVE WireOK'
<1>1. bus' = bus /\ devs' = devs /\ scl' = scl /\ sda' = sda
  BY Zenon DEF BusKept
<1>2. BusOK'
  BY BusKeptOK, Zenon DEF WireOK
<1> QED
  BY <1>1, <1>2, Zenon DEF WireOK

LEMMA WirePush ==
    ASSUME WireOK, BusKept, NEW x \in Entries, Sound(x), write_raw_fmt(x),
           fmt # <<>> => Follows(fmt[Len(fmt)], x), fmt = <<>> /\ ~ctl.nak => Ready(ctl, bus, x)
    PROVE  WireOK' /\ fmt' # <<>> /\ fmt'[Len(fmt')] = x
<1>1. ctl' = ctl /\ fmt' = Append(fmt, x)
  BY DEF write_raw_fmt
<1>2. bus' = bus /\ devs' = devs /\ scl' = scl /\ sda' = sda
  BY Zenon DEF BusKept
<1>3. BusOK'
  BY BusKeptOK, Zenon DEF WireOK
<1>4. /\ FmtOK(fmt') /\ fmt' # <<>> /\ fmt'[Len(fmt')] = x
      /\ fmt # <<>> => Head(fmt') = Head(fmt)
      /\ fmt = <<>> => Head(fmt') = x
  <2>1. FmtOK(fmt)
    BY Zenon DEF WireOK
  <2> QED
    BY <1>1, <2>1, AppendOK, Zenon
<1>5. ctl.st = "Idle" \/ Head(fmt') = Head(fmt)
  BY <1>4, Zenon DEF WireOK
<1>6. scl' = SclOf(ctl', fmt') /\ sda' = SdaOf(ctl', fmt')
  BY <1>1, <1>2, <1>5, LinesSame, Zenon DEF WireOK
<1>7. Phase(ctl', bus', Head(fmt'), DOMAIN devs')
  <2>1. Phase(ctl, bus, Head(fmt), DOMAIN devs)
    BY Zenon DEF WireOK
  <2>2. CASE ctl.st = "Idle"
    BY <1>1, <1>2, <2>1, <2>2, PhaseIdle, Zenon
  <2>3. CASE Head(fmt') = Head(fmt)
    BY <1>1, <1>2, <2>1, <2>3, Zenon
  <2> QED
    BY <1>5, <2>2, <2>3
<1>8. ctl'.st = "Idle" /\ fmt' # <<>> /\ ~ctl'.nak => Ready(ctl', bus', Head(fmt'))
  <2>1. CASE fmt = <<>>
    BY <1>1, <1>2, <1>4, <2>1, Zenon
  <2>2. CASE fmt # <<>>
    BY <1>1, <1>2, <1>4, <2>2, Zenon DEF WireOK
  <2> QED
    BY <2>1, <2>2
<1> QED
  BY <1>1, <1>2, <1>3, <1>4, <1>6, <1>7, <1>8, Zenon DEF WireOK

LEMMA WireCleared ==
    ASSUME WireOK, BusKept, reset_controller_events, fmt = <<>>
    PROVE  WireOK' /\ ctl'.started = ctl.started /\ ~ctl'.nak /\ fmt' = fmt
<1> DEFINE no == FALSE
<1>1. ctl' = [ctl EXCEPT !.nak = no] /\ fmt' = fmt /\ ctl \in CtlRec /\ ctl.st = "Idle" /\ BusOK
  BY Zenon DEF reset_controller_events, WireOK
<1>2. no \in BOOLEAN /\ ~no
  BY Zenon
<1> HIDE DEF no
<1>3. Has(ctl', ctl.st, ctl.bit, ctl.cnt, ctl.byte, ctl.started, ctl.pend, no, ctl.sent)
  BY <1>1, <1>2, HasItsFields, CtlNak, Zenon
<1>4. ctl' \in CtlRec /\ ctl'.st = "Idle" /\ ctl'.started = ctl.started /\ ~ctl'.nak /\ ctl'.sent = ctl.sent
  BY <1>1, <1>2, <1>3, Zenon DEF Has
<1>5. bus' = bus /\ devs' = devs /\ scl' = scl /\ sda' = sda
  BY Zenon DEF BusKept
<1>6. BusOK'
  BY <1>1, BusKeptOK, Zenon
<1>7. scl' = SclOf(ctl', fmt') /\ sda' = SdaOf(ctl', fmt')
  <2>1. SclOf(ctl, fmt) = ~ctl.started /\ SdaOf(ctl, fmt) /\ SclOf(ctl', fmt') = ~ctl'.started /\ SdaOf(ctl', fmt')
    BY <1>1, <1>4, LineIdle, Zenon
  <2>2. SdaOf(ctl, fmt) \in BOOLEAN /\ SdaOf(ctl', fmt') \in BOOLEAN
    BY <1>1, <1>4, LinesBoolean, Zenon
  <2>3. scl = SclOf(ctl, fmt) /\ sda = SdaOf(ctl, fmt)
    BY Zenon DEF WireOK
  <2>4. SclOf(ctl', fmt') = SclOf(ctl, fmt)
    BY <1>4, <2>1, Zenon
  <2>5. SdaOf(ctl', fmt') = SdaOf(ctl, fmt)
    BY <2>1, <2>2, Zenon
  <2> QED
    BY <1>5, <2>3, <2>4, <2>5, Zenon
<1>8. Phase(ctl', bus', Head(fmt'), DOMAIN devs')
  <2>1. Between(ctl, bus)
    BY <1>1, PhaseIdle, Zenon DEF WireOK
  <2>2. Between(ctl', bus')
    BY <1>4, <1>5, <2>1, Zenon DEF Between
  <2> QED
    BY <1>4, <2>2, PhaseIdle, Zenon
<1>9. WireOK'
  BY <1>1, <1>4, <1>6, <1>7, <1>8, Zenon DEF WireOK
<1> QED
  BY <1>1, <1>4, <1>9, Zenon
\* Places of the driver with nothing special in the FIFO.
Quiet == {"boot", "idle", "returned", "stopped", "write_fmt", "write_check", "read_fmt", "read_data", "read_drain"}

LEMMA DriverKept == ASSUME DriverKeeps PROVE BusKept /\ id' = id /\ resets' = resets
  BY DEF DriverKeeps, busvars, BusKept

LEMMA HwKept == ASSUME HwKeeps PROVE ctl' = ctl /\ fmt' = fmt /\ rx' = rx
  BY DEF HwKeeps

LEMMA DriverEnds ==
    ASSUME DriverOK, BusKept, id' = id, resets' = resets, drv' \in DrvRec, rx' \in Seq(Byte), timeouts' \in Nat,
           ScriptOK(script'), CallAt(drv', DOMAIN devs),
           FifoAt(drv', ctl', bus, fmt', DOMAIN devs), OnlyReadsReportAbsence'
    PROVE  DriverOK'
<1>1. bus' = bus /\ devs' = devs
  BY Zenon DEF BusKept
<1> QED
  BY <1>1, Zenon DEF DriverOK

LEMMA NotBack == ASSUME drv'.pc # "returned" PROVE OnlyReadsReportAbsence'
  BY Zenon DEF OnlyReadsReportAbsence

LEMMA FifoPushed ==
    ASSUME NEW d, NEW c, NEW b, NEW f, NEW dom, NEW x, f # <<>>, f[Len(f)] = x, Last1(d, x),
           d.pc \notin {"read_nak", "read_len"}
    PROVE  FifoAt(d, c, b, f, dom)
  BY Zenon DEF FifoAt

LEMMA FifoQuiet ==
    ASSUME NEW d, NEW y, NEW c, NEW b, NEW f, NEW dom, FifoAt(d, c, b, f, dom), d.pc \in Quiet, y.pc \in Quiet
    PROVE  FifoAt(y, c, b, f, dom)
<1>1. d.pc \notin {"write_bytes", "read_addr", "read_nak", "read_len"}
  BY DEF Quiet
<1>2. y.pc \notin {"write_bytes", "read_addr", "read_nak", "read_len"}
  BY DEF Quiet
<1>3. ASSUME f # <<>>
      PROVE  Last1(y, f[Len(f)])
  <2>1. ~f[Len(f)].start
    BY <1>1, <1>3, Zenon DEF FifoAt, Last1
  <2> QED
    BY <1>2, <2>1, Zenon DEF Last1
<1>4. ASSUME f = <<>>
      PROVE  Served(y, c, b, dom)
  <2>1. ~c.nak /\ (c.started => Released(b))
    BY <1>1, <1>4, Zenon DEF FifoAt, Served
  <2> QED
    BY <1>2, <2>1, Zenon DEF Served
<1> QED
  BY <1>2, <1>3, <1>4, Zenon DEF FifoAt

\* An address may follow whatever the FIFO holds when the driver starts a call.
LEMMA StartFits ==
    ASSUME WireOK, DriverOK, drv.pc \in Quiet, NEW b \in Byte, NEW x, x = Entry(b, TRUE, FALSE, FALSE)
    PROVE  /\ x \in Entries /\ Sound(x) /\ x.byte = b /\ x.start /\ ~x.stop /\ ~x.read
           /\ fmt # <<>> => Follows(fmt[Len(fmt)], x)
           /\ fmt = <<>> /\ ~ctl.nak => Ready(ctl, bus, x)
<1>1. x \in Entries
  BY DEF Entry, Entries
<1>2. x.byte = b
  BY DEF Entry
<1>3. x.start /\ ~x.stop /\ ~x.read
  <2>1. x.start
    BY Zenon DEF Entry
  <2>2. ~x.stop
    BY Zenon DEF Entry
  <2>3. ~x.read
    BY Zenon DEF Entry
  <2> QED
    BY <2>1, <2>2, <2>3, Zenon
<1>4. Sound(x)
  BY <1>3, Zenon DEF Sound
<1>5. drv.pc \notin {"write_bytes", "read_addr", "read_nak", "read_len"}
  BY DEF Quiet
<1>6. ASSUME fmt # <<>>
      PROVE  Follows(fmt[Len(fmt)], x)
  <2>1. ~fmt[Len(fmt)].start
    BY <1>5, <1>6, Zenon DEF DriverOK, FifoAt, Last1
  <2> QED
    BY <1>3, <2>1, Zenon DEF Follows
<1>7. ASSUME fmt = <<>>
      PROVE  Ready(ctl, bus, x)
  <2>1. ctl.started => Released(bus)
    BY <1>5, <1>7, Zenon DEF DriverOK, FifoAt, Served
  <2> QED
    BY <1>3, <2>1, Zenon DEF Ready, Data
<1> QED
  BY <1>1, <1>2, <1>3, <1>4, <1>6, <1>7, Zenon

LEMMA Called ==
    ASSUME DriverOK
    PROVE  /\ drv \in DrvRec /\ rx \in Seq(Byte) /\ timeouts \in Nat /\ ScriptOK(script)
           /\ CallAt(drv, DOMAIN devs) /\ FifoAt(drv, ctl, bus, fmt, DOMAIN devs)
           /\ At(drv, drv.pc, drv.op, drv.k, drv.n, drv.chunk, drv.rc, drv.buf, drv.reg)
           /\ drv.pc \in Pcs /\ drv.op \in Ops /\ drv.k \in Nat /\ drv.n \in Nat /\ drv.chunk \in Nat
           /\ drv.rc \in {0, -1} /\ drv.buf \in Seq(Byte) /\ drv.reg \in Seq(Byte)
           /\ drv.op.addr \in 0 .. 128 /\ drv.op.data \in Seq(Byte) /\ drv.op.skip \in BOOLEAN /\ drv.op.n \in Nat
  BY AtItsFields, DrvFieldTypes, OpFieldTypes, Zenon DEF DriverOK

LEMMA PcNames ==
    /\ "boot" \in Pcs /\ "idle" \in Pcs /\ "returned" \in Pcs /\ "stopped" \in Pcs
    /\ "write_fmt" \in Pcs /\ "write_bytes" \in Pcs /\ "write_check" \in Pcs
    /\ "read_fmt" \in Pcs /\ "read_addr" \in Pcs /\ "read_nak" \in Pcs /\ "read_len" \in Pcs
    /\ "read_data" \in Pcs /\ "read_drain" \in Pcs
  BY Zenon DEF Pcs, WritePcs, ReadPcs

\* What is known of a call at each place.
LEMMA CallBoot ==
    ASSUME NEW d, NEW dom, d.pc = "boot"
    PROVE  CallAt(d, dom)
  BY Zenon DEF CallAt, WritePcs, ReadPcs

LEMMA CallIdleCall ==
    ASSUME NEW d, NEW dom, d.pc = "idle"
    PROVE  CallAt(d, dom)
  BY Zenon DEF CallAt, WritePcs, ReadPcs

LEMMA CallStopped ==
    ASSUME NEW d, NEW dom, d.pc = "stopped"
    PROVE  CallAt(d, dom)
  BY Zenon DEF CallAt, WritePcs, ReadPcs

LEMMA CallReturned ==
    ASSUME NEW d, NEW dom, d.pc = "returned"
    PROVE  CallAt(d, dom) <=> OpOK(d.op)
  BY Zenon DEF CallAt, WritePcs, ReadPcs

LEMMA CallWriteFmt ==
    ASSUME NEW d, NEW dom, d.pc = "write_fmt"
    PROVE  CallAt(d, dom) <=> OpOK(d.op) /\ d.op.call = "write" /\ d.k = 1
  BY Zenon DEF CallAt, WritePcs, ReadPcs

LEMMA CallWriteBytes ==
    ASSUME NEW d, NEW dom, d.pc = "write_bytes"
    PROVE  CallAt(d, dom) <=> OpOK(d.op) /\ d.op.call = "write" /\ 1 <= d.k /\ d.k <= d.op.n
  BY Zenon DEF CallAt, WritePcs, ReadPcs

LEMMA CallWriteCheck ==
    ASSUME NEW d, NEW dom, d.pc = "write_check"
    PROVE  CallAt(d, dom) <=> OpOK(d.op) /\ d.op.call = "write"
  BY Zenon DEF CallAt, WritePcs, ReadPcs

LEMMA CallReadFmt ==
    ASSUME NEW d, NEW dom, d.pc = "read_fmt"
    PROVE  CallAt(d, dom) <=> OpOK(d.op) /\ d.op.call = "read"
  BY Zenon DEF CallAt, WritePcs, ReadPcs

LEMMA CallReadAddr ==
    ASSUME NEW d, NEW dom, d.pc = "read_addr"
    PROVE  CallAt(d, dom) <=> OpOK(d.op) /\ d.op.call = "read"
  BY Zenon DEF CallAt, WritePcs, ReadPcs

LEMMA CallReadNak ==
    ASSUME NEW d, NEW dom, d.pc = "read_nak"
    PROVE  CallAt(d, dom) <=> OpOK(d.op) /\ d.op.call = "read"
  BY Zenon DEF CallAt, WritePcs, ReadPcs

LEMMA CallReadLen ==
    ASSUME NEW d, NEW dom, d.pc = "read_len"
    PROVE  CallAt(d, dom) <=> OpOK(d.op) /\ d.op.call = "read"
  BY Zenon DEF CallAt, WritePcs, ReadPcs

LEMMA CallReadData ==
    ASSUME NEW d, NEW dom, d.pc = "read_data"
    PROVE  CallAt(d, dom) <=> OpOK(d.op) /\ d.op.call = "read" /\ d.op.addr \in dom
  BY Zenon DEF CallAt, WritePcs, ReadPcs

LEMMA CallReadDrain ==
    ASSUME NEW d, NEW dom, d.pc = "read_drain"
    PROVE  CallAt(d, dom) <=> OpOK(d.op) /\ d.op.call = "read" /\ d.op.addr \in dom
  BY Zenon DEF CallAt, WritePcs, ReadPcs
\* An address goes into the FIFO.
LEMMA WriteStartKeeps == ASSUME I2cInv, write_start PROVE I2cInv'
<1>1. WireOK /\ DriverOK
  BY Zenon DEF I2cInv
<1>2. /\ drv \in DrvRec /\ rx \in Seq(Byte) /\ timeouts \in Nat /\ ScriptOK(script)
      /\ CallAt(drv, DOMAIN devs) /\ FifoAt(drv, ctl, bus, fmt, DOMAIN devs)
      /\ At(drv, drv.pc, drv.op, drv.k, drv.n, drv.chunk, drv.rc, drv.buf, drv.reg)
  BY <1>1, Called, Zenon
<1>3. drv.pc = "write_fmt" /\ BusKept /\ id' = id /\ resets' = resets
  BY DriverKept, Zenon DEF write_start
<1> DEFINE b == drv.op.addr * 2
           x == Entry(b, TRUE, FALSE, FALSE)
<1>4. OpOK(drv.op) /\ drv.op.call = "write" /\ drv.k = 1
  BY <1>2, <1>3, CallWriteFmt, Zenon
<1>5. drv.op.addr \in 0 .. 127
  <2>1. drv.op.addr \in 0 .. 128 /\ drv.op.addr < 128
    BY <1>4, OpFieldTypes, Zenon DEF OpOK
  <2> QED
    BY <2>1
<1>6. b \in Byte /\ b % 2 = 0
  BY <1>5 DEF Byte
<1>7. write_raw_fmt(x) /\ drv' = [drv EXCEPT !.pc = "write_bytes"] /\ script' = script /\ timeouts' = timeouts
  BY Zenon DEF write_start
<1>8. ctl' = ctl /\ rx' = rx
  BY <1>7, Zenon DEF write_raw_fmt
<1>9. At(drv', "write_bytes", drv.op, drv.k, drv.n, drv.chunk, drv.rc, drv.buf, drv.reg)
  BY <1>2, <1>7, AtPc, PcNames, Zenon
<1>10. drv' \in DrvRec /\ drv'.pc = "write_bytes" /\ drv'.op = drv.op /\ drv'.k = drv.k
  BY <1>9, Zenon DEF At
<1>11. drv.pc \in Quiet
  BY <1>3, Zenon DEF Quiet
<1>12. /\ x \in Entries /\ Sound(x) /\ x.byte = b /\ x.start /\ ~x.stop /\ ~x.read
       /\ fmt # <<>> => Follows(fmt[Len(fmt)], x)
       /\ fmt = <<>> /\ ~ctl.nak => Ready(ctl, bus, x)
  <2> HIDE DEF b
  <2> QED
    BY <1>1, <1>6, <1>11, StartFits, Zenon
<1> HIDE DEF b, x
<1>13. WireOK' /\ fmt' # <<>> /\ fmt'[Len(fmt')] = x
  BY <1>1, <1>3, <1>7, <1>12, WirePush, Zenon
<1>14. Last1(drv', x)
  <2>1. ~Odd(x)
    BY <1>6, <1>12 DEF Odd
  <2> QED
    BY <1>10, <1>12, <2>1, Zenon DEF Last1
<1>20. CallAt(drv', DOMAIN devs)
  <2>1. drv.op.n \in Nat /\ drv.op.n > 0
    BY <1>4, OpFieldTypes, Zenon DEF OpOK
  <2>2. 1 <= drv.k /\ drv.k <= drv.op.n
    BY <1>4, <2>1
  <2> QED
    BY <1>4, <1>10, <2>2, CallWriteBytes, Zenon
<1>21. FifoAt(drv', ctl', bus, fmt', DOMAIN devs)
  <2>1. drv'.pc \notin {"read_nak", "read_len"}
    BY <1>10, Zenon
  <2> QED
    BY <1>13, <1>14, <2>1, FifoPushed, Zenon
<1>22. OnlyReadsReportAbsence'
  BY <1>10, NotBack, Zenon
<1>23. drv' \in DrvRec /\ rx' \in Seq(Byte) /\ timeouts' \in Nat /\ ScriptOK(script')
  BY <1>2, <1>7, <1>8, <1>10, Zenon
<1>24. WireOK'
  BY <1>13, Zenon
<1> QED
  BY <1>1, <1>3, <1>20, <1>21, <1>22, <1>23, <1>24, DriverEnds, Zenon DEF I2cInv

LEMMA ReadStartKeeps == ASSUME I2cInv, read_start PROVE I2cInv'
<1>1. WireOK /\ DriverOK
  BY Zenon DEF I2cInv
<1>2. /\ drv \in DrvRec /\ rx \in Seq(Byte) /\ timeouts \in Nat /\ ScriptOK(script)
      /\ CallAt(drv, DOMAIN devs) /\ FifoAt(drv, ctl, bus, fmt, DOMAIN devs)
      /\ At(drv, drv.pc, drv.op, drv.k, drv.n, drv.chunk, drv.rc, drv.buf, drv.reg)
  BY <1>1, Called, Zenon
<1>3. drv.pc = "read_fmt" /\ BusKept /\ id' = id /\ resets' = resets
  BY DriverKept, Zenon DEF read_start
<1> DEFINE b == drv.op.addr * 2 + 1
           x == Entry(b, TRUE, FALSE, FALSE)
<1>4. OpOK(drv.op) /\ drv.op.call = "read"
  BY <1>2, <1>3, CallReadFmt, Zenon
<1>5. drv.op.addr \in 0 .. 127
  <2>1. drv.op.addr \in 0 .. 128 /\ drv.op.addr < 128
    BY <1>4, OpFieldTypes, Zenon DEF OpOK
  <2> QED
    BY <2>1
<1>6. b \in Byte /\ b % 2 = 1
  BY <1>5 DEF Byte
<1>7. write_raw_fmt(x) /\ drv' = [drv EXCEPT !.pc = "read_addr"] /\ script' = script /\ timeouts' = timeouts
  BY Zenon DEF read_start
<1>8. ctl' = ctl /\ rx' = rx
  BY <1>7, Zenon DEF write_raw_fmt
<1>9. At(drv', "read_addr", drv.op, drv.k, drv.n, drv.chunk, drv.rc, drv.buf, drv.reg)
  BY <1>2, <1>7, AtPc, PcNames, Zenon
<1>10. drv' \in DrvRec /\ drv'.pc = "read_addr" /\ drv'.op = drv.op /\ drv'.k = drv.k
  BY <1>9, Zenon DEF At
<1>11. drv.pc \in Quiet
  BY <1>3, Zenon DEF Quiet
<1>12. /\ x \in Entries /\ Sound(x) /\ x.byte = b /\ x.start /\ ~x.stop /\ ~x.read
       /\ fmt # <<>> => Follows(fmt[Len(fmt)], x)
       /\ fmt = <<>> /\ ~ctl.nak => Ready(ctl, bus, x)
  <2> HIDE DEF b
  <2> QED
    BY <1>1, <1>6, <1>11, StartFits, Zenon
<1> HIDE DEF b, x
<1>13. WireOK' /\ fmt' # <<>> /\ fmt'[Len(fmt')] = x
  BY <1>1, <1>3, <1>7, <1>12, WirePush, Zenon
<1>14. Last1(drv', x)
  <2>1. x.byte = drv'.op.addr * 2 + 1
    BY <1>10, <1>12, Zenon DEF b
  <2> QED
    BY <1>10, <1>12, <2>1, Zenon DEF Last1
<1>20. CallAt(drv', DOMAIN devs)
  BY <1>4, <1>10, CallReadAddr, Zenon
<1>21. FifoAt(drv', ctl', bus, fmt', DOMAIN devs)
  <2>1. drv'.pc \notin {"read_nak", "read_len"}
    BY <1>10, Zenon
  <2> QED
    BY <1>13, <1>14, <2>1, FifoPushed, Zenon
<1>22. OnlyReadsReportAbsence'
  BY <1>10, NotBack, Zenon
<1>23. drv' \in DrvRec /\ rx' \in Seq(Byte) /\ timeouts' \in Nat /\ ScriptOK(script')
  BY <1>2, <1>7, <1>8, <1>10, Zenon
<1>24. WireOK'
  BY <1>13, Zenon
<1> QED
  BY <1>1, <1>3, <1>20, <1>21, <1>22, <1>23, <1>24, DriverEnds, Zenon DEF I2cInv
\* A byte of data goes into the FIFO.
LEMMA WriteBytesKeeps == ASSUME I2cInv, write_raw_bytes PROVE I2cInv'
<1>1. WireOK /\ DriverOK
  BY Zenon DEF I2cInv
<1>2. /\ drv \in DrvRec /\ rx \in Seq(Byte) /\ timeouts \in Nat /\ ScriptOK(script)
      /\ CallAt(drv, DOMAIN devs) /\ FifoAt(drv, ctl, bus, fmt, DOMAIN devs)
      /\ At(drv, drv.pc, drv.op, drv.k, drv.n, drv.chunk, drv.rc, drv.buf, drv.reg)
  BY <1>1, Called, Zenon
<1>3. drv.pc = "write_bytes" /\ BusKept /\ id' = id /\ resets' = resets
  BY DriverKept, Zenon DEF write_raw_bytes
<1> DEFINE last == drv.k = drv.op.n
           z == last /\ ~drv.op.skip
           b == drv.op.data[drv.k]
           x == Entry(b, FALSE, z, FALSE)
           q == IF last THEN "write_check" ELSE drv.pc
           g == IF last THEN drv.op.data ELSE drv.reg
<1>4. OpOK(drv.op) /\ drv.op.call = "write" /\ 1 <= drv.k /\ drv.k <= drv.op.n
  BY <1>2, <1>3, CallWriteBytes, Zenon
<1>5. drv.op.n = Len(drv.op.data) /\ drv.op.data \in Seq(Byte) /\ drv.k \in Nat /\ drv.op.n \in Nat /\ drv.reg \in Seq(Byte)
  BY <1>2, <1>4, OpFieldTypes, DrvFieldTypes, Zenon DEF OpOK
<1>6. b \in Byte
  BY <1>4, <1>5
<1>7. /\ write_raw_fmt(x) /\ script' = script /\ timeouts' = timeouts
      /\ drv' = [drv EXCEPT !.k = drv.k + 1, !.pc = q, !.reg = g]
  BY Zenon DEF write_raw_bytes
<1>8. ctl' = ctl /\ rx' = rx
  BY <1>7, Zenon DEF write_raw_fmt
<1>9. At(drv', q, drv.op, drv.k + 1, drv.n, drv.chunk, drv.rc, drv.buf, g)
  <2> DEFINE w1 == [drv EXCEPT !.k = drv.k + 1]
             w2 == [w1 EXCEPT !.pc = q]
             w3 == [w2 EXCEPT !.reg = g]
  <2>1. drv' = w3
    BY <1>7, Zenon
  <2>2. drv.k + 1 \in Nat
    BY <1>5
  <2>3. At(w1, drv.pc, drv.op, drv.k + 1, drv.n, drv.chunk, drv.rc, drv.buf, drv.reg)
    BY <1>2, <2>2, AtK, Zenon
  <2>4. q \in Pcs
    BY <1>3, PcNames, Zenon
  <2>5. g \in Seq(Byte)
    BY <1>5, Zenon
  <2> HIDE DEF w1, q, g
  <2>6. At(w2, q, drv.op, drv.k + 1, drv.n, drv.chunk, drv.rc, drv.buf, drv.reg)
    BY <2>3, <2>4, AtPc, Zenon
  <2> HIDE DEF w2
  <2>7. At(w3, q, drv.op, drv.k + 1, drv.n, drv.chunk, drv.rc, drv.buf, g)
    BY <2>5, <2>6, AtReg, Zenon
  <2> QED
    BY <2>1, <2>7, Zenon
<1>10. drv' \in DrvRec /\ drv'.pc = (IF last THEN "write_check" ELSE "write_bytes") /\ drv'.op = drv.op /\ drv'.k = drv.k + 1
  BY <1>3, <1>9, Zenon DEF At
<1>11. last \in BOOLEAN /\ z \in BOOLEAN /\ (z => last)
  BY <1>5, OpFieldTypes, Zenon
<1>12. /\ x \in Entries /\ Sound(x) /\ ~x.start /\ ~x.read /\ (x.stop => last)
       /\ fmt # <<>> => Follows(fmt[Len(fmt)], x)
       /\ fmt = <<>> /\ ~ctl.nak => Ready(ctl, bus, x)
  <2> HIDE DEF b, z
  <2>1. x \in Entries
    BY <1>6, <1>11 DEF Entry, Entries
  <2>2. ~x.start
    BY Zenon DEF Entry
  <2>3. ~x.read
    BY Zenon DEF Entry
  <2>4. x.stop = z
    BY Zenon DEF Entry
  <2> HIDE DEF x, last
  <2>5. x.stop => last
    BY <1>11, <2>4, Zenon
  <2>6. fmt # <<>> => Follows(fmt[Len(fmt)], x)
    <3>1. SUFFICES ASSUME fmt # <<>> PROVE Follows(fmt[Len(fmt)], x)
      OBVIOUS
    <3>2. Last1(drv, fmt[Len(fmt)])
      BY <1>2, <3>1, Zenon DEF FifoAt
    <3> QED
      BY <1>3, <2>2, <2>3, <3>2, Zenon DEF Last1, Follows, Data
  <2>7. fmt = <<>> /\ ~ctl.nak => Ready(ctl, bus, x)
    BY <1>2, <1>3, <2>2, <2>3, Zenon DEF FifoAt, Served, Ready, Data
  <2> QED
    BY <2>1, <2>2, <2>3, <2>5, <2>6, <2>7, Zenon DEF Sound
<1> HIDE DEF b, z, x, q, g
<1>13. WireOK' /\ fmt' # <<>> /\ fmt'[Len(fmt')] = x
  BY <1>1, <1>3, <1>7, <1>12, WirePush, Zenon
<1>14. Last1(drv', x)
  BY <1>10, <1>12, Zenon DEF Last1
<1>20. CallAt(drv', DOMAIN devs)
  <2>1. CASE last
    BY <1>4, <1>10, <2>1, CallWriteCheck, Zenon
  <2>2. CASE ~last
    <3>1. 1 <= drv.k + 1 /\ drv.k + 1 <= drv.op.n
      BY <1>4, <1>5, <2>2
    <3> QED
      BY <1>4, <1>10, <2>2, <3>1, CallWriteBytes, Zenon
  <2> QED
    BY <2>1, <2>2
<1>21. FifoAt(drv', ctl', bus, fmt', DOMAIN devs)
  <2>1. drv'.pc \notin {"read_nak", "read_len"}
    BY <1>10, Zenon
  <2> QED
    BY <1>13, <1>14, <2>1, FifoPushed, Zenon
<1>22. OnlyReadsReportAbsence'
  BY <1>10, NotBack, Zenon
<1>23. drv' \in DrvRec /\ rx' \in Seq(Byte) /\ timeouts' \in Nat /\ ScriptOK(script')
  BY <1>2, <1>7, <1>8, <1>10, Zenon
<1>24. WireOK'
  BY <1>13, Zenon
<1> QED
  BY <1>1, <1>3, <1>20, <1>21, <1>22, <1>23, <1>24, DriverEnds, Zenon DEF I2cInv

\* The end of i2c_write: by then a missing acknowledgement would be seen.
LEMMA WriteCheckKeeps == ASSUME I2cInv, i2c_write_check PROVE I2cInv'
<1>1. WireOK /\ DriverOK
  BY Zenon DEF I2cInv
<1>2. /\ drv \in DrvRec /\ rx \in Seq(Byte) /\ timeouts \in Nat /\ ScriptOK(script)
      /\ CallAt(drv, DOMAIN devs) /\ FifoAt(drv, ctl, bus, fmt, DOMAIN devs)
      /\ At(drv, drv.pc, drv.op, drv.k, drv.n, drv.chunk, drv.rc, drv.buf, drv.reg)
  BY <1>1, Called, Zenon
<1>3. drv.pc = "write_check" /\ BusKept /\ id' = id /\ resets' = resets
  BY DriverKept, Zenon DEF i2c_write_check
<1>4. OpOK(drv.op) /\ drv.op.call = "write"
  BY <1>2, <1>3, CallWriteCheck, Zenon
<1>5. ~(fmt = <<>> /\ ctl.nak)
  BY <1>2, <1>3, Zenon DEF FifoAt, Served
<1>7. HwKeeps /\ Return(0) /\ script' = script /\ timeouts' = timeouts
  BY <1>5, Zenon DEF i2c_write_check
<1>8. ctl' = ctl /\ fmt' = fmt /\ rx' = rx
  BY <1>7, HwKept, Zenon
<1>9. At(drv', "returned", drv.op, drv.k, drv.n, drv.chunk, 0, drv.buf, drv.reg)
  <2> DEFINE w1 == [drv EXCEPT !.pc = "returned"]
             w2 == [w1 EXCEPT !.rc = 0]
  <2>1. drv' = w2
    BY <1>7, Zenon DEF Return
  <2>2. At(w1, "returned", drv.op, drv.k, drv.n, drv.chunk, drv.rc, drv.buf, drv.reg)
    BY <1>2, PcNames, AtPc, Zenon
  <2>3. 0 \in {0, -1}
    BY Zenon
  <2> HIDE DEF w1
  <2>4. At(w2, "returned", drv.op, drv.k, drv.n, drv.chunk, 0, drv.buf, drv.reg)
    BY <2>2, <2>3, AtRc, Zenon
  <2> QED
    BY <2>1, <2>4, Zenon
<1>10. drv' \in DrvRec /\ drv'.pc = "returned" /\ drv'.op = drv.op /\ drv'.rc = 0
  BY <1>9, Zenon DEF At
<1>20. CallAt(drv', DOMAIN devs)
  BY <1>4, <1>10, CallReturned, Zenon
<1>21. FifoAt(drv', ctl', bus, fmt', DOMAIN devs)
  <2>1. drv.pc \in Quiet /\ drv'.pc \in Quiet
    BY <1>3, <1>10, Zenon DEF Quiet
  <2> QED
    BY <1>2, <1>8, <2>1, FifoQuiet, Zenon
<1>22. OnlyReadsReportAbsence'
  <2>1. devs' = devs
    BY <1>3, Zenon DEF BusKept
  <2>2. ~(drv'.rc = -1)
    BY <1>10
  <2> QED
    BY <1>4, <1>10, <2>1, <2>2, Zenon DEF OnlyReadsReportAbsence
<1>23. drv' \in DrvRec /\ rx' \in Seq(Byte) /\ timeouts' \in Nat /\ ScriptOK(script')
  BY <1>2, <1>7, <1>8, <1>10, Zenon
<1>24. WireOK'
  BY <1>1, <1>3, <1>8, WireKept, Zenon
<1> QED
  BY <1>1, <1>3, <1>20, <1>21, <1>22, <1>23, <1>24, DriverEnds, Zenon DEF I2cInv

\* The address has been sent.
LEMMA ReadSentKeeps == ASSUME I2cInv, read_address_sent PROVE I2cInv'
<1>1. WireOK /\ DriverOK
  BY Zenon DEF I2cInv
<1>2. /\ drv \in DrvRec /\ rx \in Seq(Byte) /\ timeouts \in Nat /\ ScriptOK(script)
      /\ CallAt(drv, DOMAIN devs) /\ FifoAt(drv, ctl, bus, fmt, DOMAIN devs)
      /\ At(drv, drv.pc, drv.op, drv.k, drv.n, drv.chunk, drv.rc, drv.buf, drv.reg)
  BY <1>1, Called, Zenon
<1>3. drv.pc = "read_addr" /\ BusKept /\ id' = id /\ resets' = resets
  BY DriverKept, Zenon DEF read_address_sent
<1>4. OpOK(drv.op) /\ drv.op.call = "read"
  BY <1>2, <1>3, CallReadAddr, Zenon
<1>7. HwKeeps /\ fmt = <<>> /\ drv' = [drv EXCEPT !.pc = "read_nak"] /\ script' = script /\ timeouts' = timeouts
  BY Zenon DEF read_address_sent
<1>8. ctl' = ctl /\ fmt' = fmt /\ rx' = rx
  BY <1>7, HwKept, Zenon
<1>9. At(drv', "read_nak", drv.op, drv.k, drv.n, drv.chunk, drv.rc, drv.buf, drv.reg)
  BY <1>2, <1>7, AtPc, PcNames, Zenon
<1>10. drv' \in DrvRec /\ drv'.pc = "read_nak" /\ drv'.op = drv.op
  BY <1>9, Zenon DEF At
<1>20. CallAt(drv', DOMAIN devs)
  BY <1>4, <1>10, CallReadNak, Zenon
<1>21. FifoAt(drv', ctl', bus, fmt', DOMAIN devs)
  <2>1. Served(drv, ctl, bus, DOMAIN devs)
    BY <1>2, <1>7, Zenon DEF FifoAt
  <2>2. Served(drv', ctl, bus, DOMAIN devs)
    BY <1>3, <1>10, <2>1, Zenon DEF Served
  <2> QED
    BY <1>7, <1>8, <2>2, Zenon DEF FifoAt
<1>22. OnlyReadsReportAbsence'
  BY <1>10, NotBack, Zenon
<1>23. drv' \in DrvRec /\ rx' \in Seq(Byte) /\ timeouts' \in Nat /\ ScriptOK(script')
  BY <1>2, <1>7, <1>8, <1>10, Zenon
<1>24. WireOK'
  BY <1>1, <1>3, <1>8, WireKept, Zenon
<1> QED
  BY <1>1, <1>3, <1>20, <1>21, <1>22, <1>23, <1>24, DriverEnds, Zenon DEF I2cInv

LEMMA TargetIs ==
    ASSUME NEW dom, NEW a \in 0 .. 127
    PROVE  Target(dom, a) # NoDevice <=> a \in dom
  BY DEF Target, NoDevice

\* Nobody has answered to the address.
LEMMA ReadNakKeeps == ASSUME I2cInv, read_nak, ctl.nak PROVE I2cInv'
<1>1. WireOK /\ DriverOK
  BY Zenon DEF I2cInv
<1>2. /\ drv \in DrvRec /\ rx \in Seq(Byte) /\ timeouts \in Nat /\ ScriptOK(script)
      /\ CallAt(drv, DOMAIN devs) /\ FifoAt(drv, ctl, bus, fmt, DOMAIN devs)
      /\ At(drv, drv.pc, drv.op, drv.k, drv.n, drv.chunk, drv.rc, drv.buf, drv.reg)
  BY <1>1, Called, Zenon
<1>3. drv.pc = "read_nak" /\ BusKept /\ id' = id /\ resets' = resets
  BY DriverKept, Zenon DEF read_nak
<1>4. OpOK(drv.op) /\ drv.op.call = "read"
  BY <1>2, <1>3, CallReadNak, Zenon
<1>5. drv.op.addr \in 0 .. 127
  <2>1. drv.op.addr \in 0 .. 128 /\ drv.op.addr < 128
    BY <1>4, OpFieldTypes, Zenon DEF OpOK
  <2> QED
    BY <2>1
<1>6. fmt = <<>> /\ ctl.started /\ bus.reading /\ bus.currDevice = Target(DOMAIN devs, drv.op.addr) /\ ctl.nak = ~Found(bus)
  BY <1>2, <1>3, Zenon DEF FifoAt, Served
<1>7. reset_controller_events /\ Return(-1) /\ script' = script /\ timeouts' = timeouts
  BY Zenon DEF read_nak
<1>8. WireOK' /\ ctl'.started = ctl.started /\ ~ctl'.nak /\ fmt' = fmt /\ rx' = rx
  <2>1. rx' = rx
    BY <1>7, Zenon DEF reset_controller_events
  <2> QED
    BY <1>1, <1>3, <1>6, <1>7, <2>1, WireCleared, Zenon
<1>9. At(drv', "returned", drv.op, drv.k, drv.n, drv.chunk, -1, drv.buf, drv.reg)
  <2> DEFINE w1 == [drv EXCEPT !.pc = "returned"]
             m == -1
             w2 == [w1 EXCEPT !.rc = m]
  <2>1. drv' = w2
    BY <1>7, Zenon DEF Return
  <2>2. At(w1, "returned", drv.op, drv.k, drv.n, drv.chunk, drv.rc, drv.buf, drv.reg)
    BY <1>2, PcNames, AtPc, Zenon
  <2>3. m \in {0, -1}
    BY Zenon
  <2> HIDE DEF w1, m
  <2>4. At(w2, "returned", drv.op, drv.k, drv.n, drv.chunk, m, drv.buf, drv.reg)
    BY <2>2, <2>3, AtRc, Zenon
  <2> QED
    BY <2>1, <2>4, Zenon DEF m
<1>10. drv' \in DrvRec /\ drv'.pc = "returned" /\ drv'.op = drv.op /\ drv'.rc = -1
  BY <1>9, Zenon DEF At
<1>20. CallAt(drv', DOMAIN devs)
  BY <1>4, <1>10, CallReturned, Zenon
<1>21. FifoAt(drv', ctl', bus, fmt', DOMAIN devs)
  <2>1. Released(bus)
    BY <1>6, Zenon DEF Released
  <2>2. Served(drv', ctl', bus, DOMAIN devs)
    BY <1>8, <1>10, <2>1, Zenon DEF Served
  <2> QED
    BY <1>6, <1>8, <1>10, <2>2, Zenon DEF FifoAt
<1>22. OnlyReadsReportAbsence'
  <2>1. devs' = devs
    BY <1>3, Zenon DEF BusKept
  <2>2. drv.op.addr \notin DOMAIN devs
    BY <1>5, <1>6, TargetIs, Zenon DEF Found
  <2> QED
    BY <1>4, <1>10, <2>1, <2>2, Zenon DEF OnlyReadsReportAbsence
<1>23. drv' \in DrvRec /\ rx' \in Seq(Byte) /\ timeouts' \in Nat /\ ScriptOK(script')
  BY <1>2, <1>7, <1>8, <1>10, Zenon
<1>24. WireOK'
  BY <1>8, Zenon
<1> QED
  BY <1>1, <1>3, <1>20, <1>21, <1>22, <1>23, <1>24, DriverEnds, Zenon DEF I2cInv

LEMMA ReadAckKeeps == ASSUME I2cInv, read_nak, ~ctl.nak PROVE I2cInv'
<1>1. WireOK /\ DriverOK
  BY Zenon DEF I2cInv
<1>2. /\ drv \in DrvRec /\ rx \in Seq(Byte) /\ timeouts \in Nat /\ ScriptOK(script)
      /\ CallAt(drv, DOMAIN devs) /\ FifoAt(drv, ctl, bus, fmt, DOMAIN devs)
      /\ At(drv, drv.pc, drv.op, drv.k, drv.n, drv.chunk, drv.rc, drv.buf, drv.reg)
  BY <1>1, Called, Zenon
<1>3. drv.pc = "read_nak" /\ BusKept /\ id' = id /\ resets' = resets
  BY DriverKept, Zenon DEF read_nak
<1>4. OpOK(drv.op) /\ drv.op.call = "read"
  BY <1>2, <1>3, CallReadNak, Zenon
<1>5. drv.op.addr \in 0 .. 127
  <2>1. drv.op.addr \in 0 .. 128 /\ drv.op.addr < 128
    BY <1>4, OpFieldTypes, Zenon DEF OpOK
  <2> QED
    BY <2>1
<1>6. fmt = <<>> /\ ctl.started /\ bus.reading /\ bus.currDevice = Target(DOMAIN devs, drv.op.addr) /\ ctl.nak = ~Found(bus)
  BY <1>2, <1>3, Zenon DEF FifoAt, Served
<1>7. HwKeeps /\ drv' = [drv EXCEPT !.pc = "read_len"] /\ script' = script /\ timeouts' = timeouts
  BY Zenon DEF read_nak
<1>8. ctl' = ctl /\ fmt' = fmt /\ rx' = rx
  BY <1>7, HwKept, Zenon
<1>9. At(drv', "read_len", drv.op, drv.k, drv.n, drv.chunk, drv.rc, drv.buf, drv.reg)
  BY <1>2, <1>7, AtPc, PcNames, Zenon
<1>10. drv' \in DrvRec /\ drv'.pc = "read_len" /\ drv'.op = drv.op
  BY <1>9, Zenon DEF At
<1>20. CallAt(drv', DOMAIN devs)
  BY <1>4, <1>10, CallReadLen, Zenon
<1>21. FifoAt(drv', ctl', bus, fmt', DOMAIN devs)
  <2>1. Served(drv', ctl, bus, DOMAIN devs)
    BY <1>6, <1>10, Zenon DEF Served
  <2> QED
    BY <1>6, <1>8, <2>1, Zenon DEF FifoAt
<1>22. OnlyReadsReportAbsence'
  BY <1>10, NotBack, Zenon
<1>23. drv' \in DrvRec /\ rx' \in Seq(Byte) /\ timeouts' \in Nat /\ ScriptOK(script')
  BY <1>2, <1>7, <1>8, <1>10, Zenon
<1>24. WireOK'
  BY <1>1, <1>3, <1>8, WireKept, Zenon
<1> QED
  BY <1>1, <1>3, <1>20, <1>21, <1>22, <1>23, <1>24, DriverEnds, Zenon DEF I2cInv
\* A count of bytes to read goes into the FIFO.
LEMMA ReadChunkKeeps == ASSUME I2cInv, read_chunk PROVE I2cInv'
<1>1. WireOK /\ DriverOK
  BY Zenon DEF I2cInv
<1>2. /\ drv \in DrvRec /\ rx \in Seq(Byte) /\ timeouts \in Nat /\ ScriptOK(script)
      /\ CallAt(drv, DOMAIN devs) /\ FifoAt(drv, ctl, bus, fmt, DOMAIN devs)
      /\ At(drv, drv.pc, drv.op, drv.k, drv.n, drv.chunk, drv.rc, drv.buf, drv.reg)
  BY <1>1, Called, Zenon
<1>3. drv.pc = "read_len" /\ BusKept /\ id' = id /\ resets' = resets
  BY DriverKept, Zenon DEF read_chunk
<1> DEFINE m == IF drv.n >= ChunkMax THEN ChunkMax ELSE drv.n
           z == m >= drv.n
           x == Entry(m, FALSE, z, TRUE)
<1>4. OpOK(drv.op) /\ drv.op.call = "read"
  BY <1>2, <1>3, CallReadLen, Zenon
<1>5. drv.op.addr \in 0 .. 127
  <2>1. drv.op.addr \in 0 .. 128 /\ drv.op.addr < 128
    BY <1>4, OpFieldTypes, Zenon DEF OpOK
  <2> QED
    BY <2>1
<1>6. fmt = <<>> /\ ctl.started /\ bus.reading /\ bus.currDevice = Target(DOMAIN devs, drv.op.addr) /\ ~ctl.nak /\ Found(bus)
  BY <1>2, <1>3, Zenon DEF FifoAt, Served
<1>7. /\ write_raw_fmt(x) /\ script' = script /\ timeouts' = timeouts
      /\ drv' = [drv EXCEPT !.pc = "read_data", !.chunk = m, !.n = drv.n - m]
  BY Zenon DEF read_chunk
<1>8. ctl' = ctl /\ rx' = rx
  BY <1>7, Zenon DEF write_raw_fmt
<1>11. m \in Byte /\ m \in Nat /\ drv.n - m \in Nat
  <2>1. drv.n \in Nat
    BY <1>2, DrvFieldTypes, Zenon
  <2>2. ChunkMax \in 1 .. 255
    BY I2cDriverAssumption
  <2> QED
    BY ONLY <2>1, <2>2 DEF Byte
<1>12. /\ x \in Entries /\ Sound(x) /\ ~x.start /\ x.read
  <2>1. z \in BOOLEAN
    BY <1>11
  <2> HIDE DEF m, z
  <2>2. x \in Entries
    BY <1>11, <2>1 DEF Entry, Entries
  <2>3. ~x.start
    BY Zenon DEF Entry
  <2>4. x.read
    BY Zenon DEF Entry
  <2> QED
    BY <2>2, <2>3, <2>4, Zenon DEF Sound
<1> HIDE DEF m, z, x
<1>9. At(drv', "read_data", drv.op, drv.k, drv.n - m, m, drv.rc, drv.buf, drv.reg)
  <2> DEFINE w1 == [drv EXCEPT !.pc = "read_data"]
             w2 == [w1 EXCEPT !.chunk = m]
             w3 == [w2 EXCEPT !.n = drv.n - m]
  <2>1. drv' = w3
    BY <1>7, Zenon
  <2>2. At(w1, "read_data", drv.op, drv.k, drv.n, drv.chunk, drv.rc, drv.buf, drv.reg)
    BY <1>2, PcNames, AtPc, Zenon
  <2> HIDE DEF w1
  <2>3. At(w2, "read_data", drv.op, drv.k, drv.n, m, drv.rc, drv.buf, drv.reg)
    BY <1>11, <2>2, AtChunk, Zenon
  <2> HIDE DEF w2
  <2>4. At(w3, "read_data", drv.op, drv.k, drv.n - m, m, drv.rc, drv.buf, drv.reg)
    BY <1>11, <2>3, AtN, Zenon
  <2> QED
    BY <2>1, <2>4, Zenon
<1>10. drv' \in DrvRec /\ drv'.pc = "read_data" /\ drv'.op = drv.op
  BY <1>9, Zenon DEF At
<1>13. WireOK' /\ fmt' # <<>> /\ fmt'[Len(fmt')] = x
  <2>1. Ready(ctl, bus, x)
    BY <1>6, <1>12, Zenon DEF Ready, Data
  <2> QED
    BY <1>1, <1>3, <1>6, <1>7, <1>12, <2>1, WirePush, Zenon
<1>14. Last1(drv', x)
  BY <1>10, <1>12, Zenon DEF Last1
<1>20. CallAt(drv', DOMAIN devs)
  <2>1. drv.op.addr \in DOMAIN devs
    BY <1>5, <1>6, TargetIs, Zenon DEF Found
  <2> QED
    BY <1>4, <1>10, <2>1, CallReadData, Zenon
<1>21. FifoAt(drv', ctl', bus, fmt', DOMAIN devs)
  <2>1. drv'.pc \notin {"read_nak", "read_len"}
    BY <1>10, Zenon
  <2> QED
    BY <1>13, <1>14, <2>1, FifoPushed, Zenon
<1>22. OnlyReadsReportAbsence'
  BY <1>10, NotBack, Zenon
<1>23. drv' \in DrvRec /\ rx' \in Seq(Byte) /\ timeouts' \in Nat /\ ScriptOK(script')
  BY <1>2, <1>7, <1>8, <1>10, Zenon
<1>24. WireOK'
  BY <1>13, Zenon
<1> QED
  BY <1>1, <1>3, <1>20, <1>21, <1>22, <1>23, <1>24, DriverEnds, Zenon DEF I2cInv

\* The bytes have been read, and are taken out of the FIFO.
LEMMA ReadDataSentKeeps == ASSUME I2cInv, read_data_sent PROVE I2cInv'
<1>1. WireOK /\ DriverOK
  BY Zenon DEF I2cInv
<1>2. /\ drv \in DrvRec /\ rx \in Seq(Byte) /\ timeouts \in Nat /\ ScriptOK(script)
      /\ CallAt(drv, DOMAIN devs) /\ FifoAt(drv, ctl, bus, fmt, DOMAIN devs)
      /\ At(drv, drv.pc, drv.op, drv.k, drv.n, drv.chunk, drv.rc, drv.buf, drv.reg)
  BY <1>1, Called, Zenon
<1>3. drv.pc = "read_data" /\ BusKept /\ id' = id /\ resets' = resets
  BY DriverKept, Zenon DEF read_data_sent
<1>4. OpOK(drv.op) /\ drv.op.call = "read" /\ drv.op.addr \in DOMAIN devs
  BY <1>2, <1>3, CallReadData, Zenon
<1>7. HwKeeps /\ drv' = [drv EXCEPT !.pc = "read_drain"] /\ script' = script /\ timeouts' = timeouts
  BY Zenon DEF read_data_sent
<1>8. ctl' = ctl /\ fmt' = fmt /\ rx' = rx
  BY <1>7, HwKept, Zenon
<1>9. At(drv', "read_drain", drv.op, drv.k, drv.n, drv.chunk, drv.rc, drv.buf, drv.reg)
  BY <1>2, <1>7, AtPc, PcNames, Zenon
<1>10. drv' \in DrvRec /\ drv'.pc = "read_drain" /\ drv'.op = drv.op
  BY <1>9, Zenon DEF At
<1>20. CallAt(drv', DOMAIN devs)
  BY <1>4, <1>10, CallReadDrain, Zenon
<1>21. FifoAt(drv', ctl', bus, fmt', DOMAIN devs)
  <2>1. drv.pc \in Quiet /\ drv'.pc \in Quiet
    BY <1>3, <1>10, Zenon DEF Quiet
  <2> QED
    BY <1>2, <1>8, <2>1, FifoQuiet, Zenon
<1>22. OnlyReadsReportAbsence'
  BY <1>10, NotBack, Zenon
<1>23. drv' \in DrvRec /\ rx' \in Seq(Byte) /\ timeouts' \in Nat /\ ScriptOK(script')
  BY <1>2, <1>7, <1>8, <1>10, Zenon
<1>24. WireOK'
  BY <1>1, <1>3, <1>8, WireKept, Zenon
<1> QED
  BY <1>1, <1>3, <1>20, <1>21, <1>22, <1>23, <1>24, DriverEnds, Zenon DEF I2cInv

LEMMA ChunkDoneIs ==
    ASSUME drv \in DrvRec, NEW rc \in {0, -1}, drv' = ChunkDone(rc)
    PROVE  drv' \in DrvRec /\ drv'.pc \in {"read_fmt", "returned"} /\ drv'.op = drv.op /\ drv'.rc = rc
<1> DEFINE q == IF drv.n > 0 THEN "read_fmt" ELSE "returned"
           w1 == [drv EXCEPT !.rc = rc]
           w2 == [w1 EXCEPT !.pc = q]
<1>1. drv' = w2
  BY Zenon DEF ChunkDone
<1>2. At(drv, drv.pc, drv.op, drv.k, drv.n, drv.chunk, drv.rc, drv.buf, drv.reg)
  BY AtItsFields, Zenon
<1>3. At(w1, drv.pc, drv.op, drv.k, drv.n, drv.chunk, rc, drv.buf, drv.reg)
  BY <1>2, AtRc, Zenon
<1>4. q \in Pcs /\ q \in {"read_fmt", "returned"}
  BY PcNames, Zenon
<1> HIDE DEF w1, q
<1>5. At(w2, q, drv.op, drv.k, drv.n, drv.chunk, rc, drv.buf, drv.reg)
  BY <1>3, <1>4, AtPc, Zenon
<1> QED
  BY <1>1, <1>4, <1>5, Zenon DEF At

LEMMA ReadDrainedKeeps == ASSUME I2cInv, read_drain, drv.chunk = 0 PROVE I2cInv'
<1>1. WireOK /\ DriverOK
  BY Zenon DEF I2cInv
<1>2. /\ drv \in DrvRec /\ rx \in Seq(Byte) /\ timeouts \in Nat /\ ScriptOK(script)
      /\ CallAt(drv, DOMAIN devs) /\ FifoAt(drv, ctl, bus, fmt, DOMAIN devs)
      /\ At(drv, drv.pc, drv.op, drv.k, drv.n, drv.chunk, drv.rc, drv.buf, drv.reg)
  BY <1>1, Called, Zenon
<1>3. drv.pc = "read_drain" /\ BusKept /\ id' = id /\ resets' = resets
  BY DriverKept, Zenon DEF read_drain
<1>4. OpOK(drv.op) /\ drv.op.call = "read" /\ drv.op.addr \in DOMAIN devs
  BY <1>2, <1>3, CallReadDrain, Zenon
<1>7. drv' = ChunkDone(0) /\ rx' = rx /\ ctl' = ctl /\ fmt' = fmt /\ script' = script /\ timeouts' = timeouts
  BY Zenon DEF read_drain
<1>8. ctl' = ctl /\ fmt' = fmt /\ rx' = rx
  BY <1>7, Zenon
<1>10. drv' \in DrvRec /\ drv'.pc \in {"read_fmt", "returned"} /\ drv'.op = drv.op /\ drv'.rc = 0
  <2>1. 0 \in {0, -1}
    BY Zenon
  <2> QED
    BY <1>2, <1>7, <2>1, ChunkDoneIs, Zenon
<1>20. CallAt(drv', DOMAIN devs)
  <2>1. CASE drv'.pc = "read_fmt"
    BY <1>4, <1>10, <2>1, CallReadFmt, Zenon
  <2>2. CASE drv'.pc = "returned"
    BY <1>4, <1>10, <2>2, CallReturned, Zenon
  <2> QED
    BY <1>10, <2>1, <2>2, Zenon
<1>21. FifoAt(drv', ctl', bus, fmt', DOMAIN devs)
  <2>1. drv.pc \in Quiet /\ drv'.pc \in Quiet
    BY <1>3, <1>10, Zenon DEF Quiet
  <2> QED
    BY <1>2, <1>8, <2>1, FifoQuiet, Zenon
<1>22. OnlyReadsReportAbsence'
  <2>1. devs' = devs
    BY <1>3, Zenon DEF BusKept
  <2>2. ~(drv'.rc = -1)
    BY <1>10
  <2> QED
    BY <1>4, <1>10, <2>1, <2>2, Zenon DEF OnlyReadsReportAbsence
<1>23. drv' \in DrvRec /\ rx' \in Seq(Byte) /\ timeouts' \in Nat /\ ScriptOK(script')
  BY <1>2, <1>7, <1>8, <1>10, Zenon
<1>24. WireOK'
  BY <1>1, <1>3, <1>8, WireKept, Zenon
<1> QED
  BY <1>1, <1>3, <1>20, <1>21, <1>22, <1>23, <1>24, DriverEnds, Zenon DEF I2cInv

LEMMA ReadTakesKeeps == ASSUME I2cInv, read_drain, drv.chunk # 0 PROVE I2cInv'
<1>1. WireOK /\ DriverOK
  BY Zenon DEF I2cInv
<1>2. /\ drv \in DrvRec /\ rx \in Seq(Byte) /\ timeouts \in Nat /\ ScriptOK(script)
      /\ CallAt(drv, DOMAIN devs) /\ FifoAt(drv, ctl, bus, fmt, DOMAIN devs)
      /\ At(drv, drv.pc, drv.op, drv.k, drv.n, drv.chunk, drv.rc, drv.buf, drv.reg)
  BY <1>1, Called, Zenon
<1>3. drv.pc = "read_drain" /\ BusKept /\ id' = id /\ resets' = resets
  BY DriverKept, Zenon DEF read_drain
<1>4. OpOK(drv.op) /\ drv.op.call = "read" /\ drv.op.addr \in DOMAIN devs
  BY <1>2, <1>3, CallReadDrain, Zenon
<1>7. /\ ctl' = ctl /\ fmt' = fmt /\ script' = script /\ timeouts' = timeouts
      /\ rx' = IF rx = <<>> THEN rx ELSE Tail(rx)
  BY Zenon DEF read_drain
<1>5. PICK b \in IF rx = <<>> THEN {0, 255} ELSE {Head(rx)} :
         drv' = [drv EXCEPT !.chunk = drv.chunk - 1, !.buf = Append(drv.buf, b)]
  BY Zenon DEF read_drain
<1>6. b \in Byte /\ rx' \in Seq(Byte)
  <2>1. rx \in Seq(Byte)
    BY <1>2, Zenon
  <2>2. rx # <<>> => Head(rx) \in Byte /\ Tail(rx) \in Seq(Byte)
    BY <2>1
  <2>3. 0 \in Byte /\ 255 \in Byte
    BY DEF Byte
  <2> QED
    BY <1>5, <1>7, <2>1, <2>2, <2>3
<1>8. ctl' = ctl /\ fmt' = fmt
  BY <1>7, Zenon
<1>9. At(drv', drv.pc, drv.op, drv.k, drv.n, drv.chunk - 1, drv.rc, Append(drv.buf, b), drv.reg)
  <2> DEFINE w1 == [drv EXCEPT !.chunk = drv.chunk - 1]
             w2 == [w1 EXCEPT !.buf = Append(drv.buf, b)]
  <2>1. drv' = w2
    BY <1>5, Zenon
  <2>2. drv.chunk \in Nat /\ drv.buf \in Seq(Byte)
    BY <1>2, DrvFieldTypes, Zenon
  <2>3. drv.chunk - 1 \in Nat
    BY <2>2
  <2>4. Append(drv.buf, b) \in Seq(Byte)
    BY <1>6, <2>2
  <2>5. At(w1, drv.pc, drv.op, drv.k, drv.n, drv.chunk - 1, drv.rc, drv.buf, drv.reg)
    BY <1>2, <2>3, AtChunk, Zenon
  <2> HIDE DEF w1
  <2>6. At(w2, drv.pc, drv.op, drv.k, drv.n, drv.chunk - 1, drv.rc, Append(drv.buf, b), drv.reg)
    BY <2>4, <2>5, AtBuf, Zenon
  <2> QED
    BY <2>1, <2>6, Zenon
<1>10. drv' \in DrvRec /\ drv'.pc = "read_drain" /\ drv'.op = drv.op
  BY <1>3, <1>9, Zenon DEF At
<1>20. CallAt(drv', DOMAIN devs)
  BY <1>4, <1>10, CallReadDrain, Zenon
<1>21. FifoAt(drv', ctl', bus, fmt', DOMAIN devs)
  <2>1. drv.pc \in Quiet /\ drv'.pc \in Quiet
    BY <1>3, <1>10, Zenon DEF Quiet
  <2> QED
    BY <1>2, <1>8, <2>1, FifoQuiet, Zenon
<1>22. OnlyReadsReportAbsence'
  BY <1>10, NotBack, Zenon
<1>23. drv' \in DrvRec /\ rx' \in Seq(Byte) /\ timeouts' \in Nat /\ ScriptOK(script')
  BY <1>2, <1>6, <1>7, <1>10, Zenon
<1>24. WireOK'
  BY <1>1, <1>3, <1>8, WireKept, Zenon
<1> QED
  BY <1>1, <1>3, <1>20, <1>21, <1>22, <1>23, <1>24, DriverEnds, Zenon DEF I2cInv

\* The time runs out.
LEMMA ReadTimeoutKeeps == ASSUME I2cInv, read_timeout PROVE I2cInv'
<1>1. WireOK /\ DriverOK
  BY Zenon DEF I2cInv
<1>2. /\ drv \in DrvRec /\ rx \in Seq(Byte) /\ timeouts \in Nat /\ ScriptOK(script)
      /\ CallAt(drv, DOMAIN devs) /\ FifoAt(drv, ctl, bus, fmt, DOMAIN devs)
      /\ At(drv, drv.pc, drv.op, drv.k, drv.n, drv.chunk, drv.rc, drv.buf, drv.reg)
  BY <1>1, Called, Zenon
<1>3. drv.pc = "read_drain" /\ BusKept /\ id' = id /\ resets' = resets
  BY DriverKept, Zenon DEF read_timeout
<1>4. OpOK(drv.op) /\ drv.op.call = "read" /\ drv.op.addr \in DOMAIN devs
  BY <1>2, <1>3, CallReadDrain, Zenon
<1>7. HwKeeps /\ drv' = ChunkDone(-1) /\ script' = script /\ timeouts' = timeouts + 1
  BY Zenon DEF read_timeout
<1>8. ctl' = ctl /\ fmt' = fmt /\ rx' = rx
  BY <1>7, HwKept, Zenon
<1>10. drv' \in DrvRec /\ drv'.pc \in {"read_fmt", "returned"} /\ drv'.op = drv.op /\ drv'.rc = -1
  <2> DEFINE m == -1
  <2>1. m \in {0, -1}
    BY Zenon
  <2>2. drv' = ChunkDone(m)
    BY <1>7, Zenon
  <2> HIDE DEF m
  <2>3. drv' \in DrvRec /\ drv'.pc \in {"read_fmt", "returned"} /\ drv'.op = drv.op /\ drv'.rc = m
    BY <1>2, <2>1, <2>2, ChunkDoneIs, Zenon
  <2> QED
    BY <2>3 DEF m
<1>11. timeouts' \in Nat /\ timeouts' # 0
  BY <1>2, <1>7
<1>20. CallAt(drv', DOMAIN devs)
  <2>1. CASE drv'.pc = "read_fmt"
    BY <1>4, <1>10, <2>1, CallReadFmt, Zenon
  <2>2. CASE drv'.pc = "returned"
    BY <1>4, <1>10, <2>2, CallReturned, Zenon
  <2> QED
    BY <1>10, <2>1, <2>2, Zenon
<1>21. FifoAt(drv', ctl', bus, fmt', DOMAIN devs)
  <2>1. drv.pc \in Quiet /\ drv'.pc \in Quiet
    BY <1>3, <1>10, Zenon DEF Quiet
  <2> QED
    BY <1>2, <1>8, <2>1, FifoQuiet, Zenon
<1>22. OnlyReadsReportAbsence'
  BY <1>11, Zenon DEF OnlyReadsReportAbsence
<1>23. drv' \in DrvRec /\ rx' \in Seq(Byte) /\ timeouts' \in Nat /\ ScriptOK(script')
  BY <1>2, <1>7, <1>8, <1>10, <1>11, Zenon
<1>24. WireOK'
  BY <1>1, <1>3, <1>8, WireKept, Zenon
<1> QED
  BY <1>1, <1>3, <1>20, <1>21, <1>22, <1>23, <1>24, DriverEnds, Zenon DEF I2cInv

\* The program goes on, or stops.
LEMMA CallerKeeps == ASSUME I2cInv, CallerContinues PROVE I2cInv'
<1>1. WireOK /\ DriverOK
  BY Zenon DEF I2cInv
<1>2. /\ drv \in DrvRec /\ rx \in Seq(Byte) /\ timeouts \in Nat /\ ScriptOK(script)
      /\ CallAt(drv, DOMAIN devs) /\ FifoAt(drv, ctl, bus, fmt, DOMAIN devs)
      /\ At(drv, drv.pc, drv.op, drv.k, drv.n, drv.chunk, drv.rc, drv.buf, drv.reg)
  BY <1>1, Called, Zenon
<1>3. drv.pc = "returned" /\ BusKept /\ id' = id /\ resets' = resets
  BY DriverKept, Zenon DEF CallerContinues
<1> DEFINE q == IF drv.rc = 0 THEN "idle" ELSE "stopped"
<1>7. HwKeeps /\ drv' = [drv EXCEPT !.pc = q] /\ script' = script /\ timeouts' = timeouts
  BY Zenon DEF CallerContinues
<1>8. ctl' = ctl /\ fmt' = fmt /\ rx' = rx
  BY <1>7, HwKept, Zenon
<1>4. q \in Pcs /\ q \in {"idle", "stopped"}
  BY PcNames, Zenon
<1> HIDE DEF q
<1>9. At(drv', q, drv.op, drv.k, drv.n, drv.chunk, drv.rc, drv.buf, drv.reg)
  BY <1>2, <1>4, <1>7, AtPc, Zenon
<1>10. drv' \in DrvRec /\ drv'.pc \in {"idle", "stopped"} /\ drv'.op = drv.op
  BY <1>4, <1>9, Zenon DEF At
<1>20. CallAt(drv', DOMAIN devs)
  BY <1>10, CallIdleCall, CallStopped, Zenon
<1>21. FifoAt(drv', ctl', bus, fmt', DOMAIN devs)
  <2>1. drv.pc \in Quiet /\ drv'.pc \in Quiet
    BY <1>3, <1>10, Zenon DEF Quiet
  <2> QED
    BY <1>2, <1>8, <2>1, FifoQuiet, Zenon
<1>22. OnlyReadsReportAbsence'
  <2>1. drv'.pc # "returned"
    BY <1>10
  <2> QED
    BY <2>1, NotBack, Zenon
<1>23. drv' \in DrvRec /\ rx' \in Seq(Byte) /\ timeouts' \in Nat /\ ScriptOK(script')
  BY <1>2, <1>7, <1>8, <1>10, Zenon
<1>24. WireOK'
  BY <1>1, <1>3, <1>8, WireKept, Zenon
<1> QED
  BY <1>1, <1>3, <1>20, <1>21, <1>22, <1>23, <1>24, DriverEnds, Zenon DEF I2cInv

\* The bus is set up.
LEMMA SetupKeeps == ASSUME I2cInv, setup_bus PROVE I2cInv'
<1>1. WireOK /\ DriverOK
  BY Zenon DEF I2cInv
<1>2. /\ drv \in DrvRec /\ rx \in Seq(Byte) /\ timeouts \in Nat /\ ScriptOK(script)
      /\ CallAt(drv, DOMAIN devs) /\ FifoAt(drv, ctl, bus, fmt, DOMAIN devs)
      /\ At(drv, drv.pc, drv.op, drv.k, drv.n, drv.chunk, drv.rc, drv.buf, drv.reg)
  BY <1>1, Called, Zenon
<1>3. drv.pc = "boot" /\ BusKept /\ id' = id /\ resets' = resets
  BY DriverKept, Zenon DEF setup_bus
<1>7. HwKeeps /\ drv' = [drv EXCEPT !.pc = "idle"] /\ script' = script /\ timeouts' = timeouts
  BY Zenon DEF setup_bus
<1>8. ctl' = ctl /\ fmt' = fmt /\ rx' = rx
  BY <1>7, HwKept, Zenon
<1>9. At(drv', "idle", drv.op, drv.k, drv.n, drv.chunk, drv.rc, drv.buf, drv.reg)
  BY <1>2, <1>7, PcNames, AtPc, Zenon
<1>10. drv' \in DrvRec /\ drv'.pc = "idle" /\ drv'.op = drv.op
  BY <1>9, Zenon DEF At
<1>20. CallAt(drv', DOMAIN devs)
  BY <1>10, CallIdleCall, Zenon
<1>21. FifoAt(drv', ctl', bus, fmt', DOMAIN devs)
  <2>1. drv.pc \in Quiet /\ drv'.pc \in Quiet
    BY <1>3, <1>10, Zenon DEF Quiet
  <2> QED
    BY <1>2, <1>8, <2>1, FifoQuiet, Zenon
<1>22. OnlyReadsReportAbsence'
  BY <1>10, NotBack, Zenon
<1>23. drv' \in DrvRec /\ rx' \in Seq(Byte) /\ timeouts' \in Nat /\ ScriptOK(script')
  BY <1>2, <1>7, <1>8, <1>10, Zenon
<1>24. WireOK'
  BY <1>1, <1>3, <1>8, WireKept, Zenon
<1> QED
  BY <1>1, <1>3, <1>20, <1>21, <1>22, <1>23, <1>24, DriverEnds, Zenon DEF I2cInv

\* A program calls the driver.
LEMMA CallKeeps == ASSUME I2cInv, Call PROVE I2cInv'
<1>1. WireOK /\ DriverOK
  BY Zenon DEF I2cInv
<1>2. /\ drv \in DrvRec /\ rx \in Seq(Byte) /\ timeouts \in Nat /\ ScriptOK(script)
      /\ CallAt(drv, DOMAIN devs) /\ FifoAt(drv, ctl, bus, fmt, DOMAIN devs)
      /\ At(drv, drv.pc, drv.op, drv.k, drv.n, drv.chunk, drv.rc, drv.buf, drv.reg)
  BY <1>1, Called, Zenon
<1>3. drv.pc = "idle" /\ BusKept /\ id' = id /\ resets' = resets
  BY DriverKept, Zenon DEF Call
<1> DEFINE op == Head(script)
           q == IF op.call = "write" THEN "write_fmt" ELSE "read_fmt"
<1>7. /\ HwKeeps /\ script # <<>> /\ script' = Tail(script) /\ timeouts' = timeouts
      /\ drv' = [drv EXCEPT !.pc = q, !.op = op, !.n = op.n, !.k = 1, !.rc = 0, !.buf = <<>>]
  BY Zenon DEF Call
<1>8. ctl' = ctl /\ fmt' = fmt /\ rx' = rx
  BY <1>7, HwKept, Zenon
<1>4. OpOK(op) /\ op \in Ops /\ op.n \in Nat /\ ScriptOK(Tail(script))
  <2>1. script \in Seq(Ops) /\ (\A k \in 1 .. Len(script) : OpOK(script[k]))
    BY <1>2, Zenon DEF ScriptOK
  <2>2. 1 \in 1 .. Len(script) /\ op = script[1] /\ op \in Ops /\ Tail(script) \in Seq(Ops)
    BY <1>7, <2>1
  <2>3. \A k \in 1 .. Len(Tail(script)) : k + 1 \in 1 .. Len(script) /\ Tail(script)[k] = script[k + 1]
    BY <1>7, <2>1
  <2>4. op.n \in Nat
    BY <2>2, OpFieldTypes, Zenon
  <2> QED
    BY <2>1, <2>2, <2>3, <2>4, Zenon DEF ScriptOK
<1>5. q \in Pcs
  BY PcNames, Zenon
<1> HIDE DEF op
<1>9. At(drv', q, op, 1, op.n, drv.chunk, 0, <<>>, drv.reg)
  <2> DEFINE w1 == [drv EXCEPT !.pc = q]
             w2 == [w1 EXCEPT !.op = op]
             w3 == [w2 EXCEPT !.n = op.n]
             w4 == [w3 EXCEPT !.k = 1]
             w5 == [w4 EXCEPT !.rc = 0]
             w6 == [w5 EXCEPT !.buf = <<>>]
  <2>0. 1 \in Nat /\ 0 \in {0, -1} /\ <<>> \in Seq(Byte)
    BY SMT
  <2>1. drv' = w6
    BY <1>7, Zenon
  <2> HIDE DEF q
  <2>2. At(w1, q, drv.op, drv.k, drv.n, drv.chunk, drv.rc, drv.buf, drv.reg)
    BY <1>2, <1>5, AtPc, Zenon
  <2> HIDE DEF w1
  <2>3. At(w2, q, op, drv.k, drv.n, drv.chunk, drv.rc, drv.buf, drv.reg)
    BY <1>4, <2>2, AtOp, Zenon
  <2> HIDE DEF w2
  <2>4. At(w3, q, op, drv.k, op.n, drv.chunk, drv.rc, drv.buf, drv.reg)
    BY <1>4, <2>3, AtN, Zenon
  <2> HIDE DEF w3
  <2>5. At(w4, q, op, 1, op.n, drv.chunk, drv.rc, drv.buf, drv.reg)
    BY <2>0, <2>4, AtK, Zenon
  <2> HIDE DEF w4
  <2>6. At(w5, q, op, 1, op.n, drv.chunk, 0, drv.buf, drv.reg)
    BY <2>0, <2>5, AtRc, Zenon
  <2> HIDE DEF w5
  <2>7. At(w6, q, op, 1, op.n, drv.chunk, 0, <<>>, drv.reg)
    BY <2>0, <2>6, AtBuf, Zenon
  <2> QED
    BY <2>1, <2>7, Zenon
<1>10. drv' \in DrvRec /\ drv'.pc = q /\ drv'.op = op /\ drv'.k = 1 /\ q \in {"write_fmt", "read_fmt"}
  BY <1>9, Zenon DEF At
<1>11. op.call \in {"write", "read"}
  BY <1>4 DEF Ops
<1>20. CallAt(drv', DOMAIN devs)
  <2>1. CASE op.call = "write"
    BY <1>4, <1>10, <2>1, CallWriteFmt, Zenon
  <2>2. CASE op.call = "read"
    BY <1>4, <1>10, <2>2, CallReadFmt, Zenon
  <2> QED
    BY <1>11, <2>1, <2>2, Zenon
<1>21. FifoAt(drv', ctl', bus, fmt', DOMAIN devs)
  <2>1. drv.pc \in Quiet /\ drv'.pc \in Quiet
    BY <1>3, <1>10, Zenon DEF Quiet
  <2> QED
    BY <1>2, <1>8, <2>1, FifoQuiet, Zenon
<1>22. OnlyReadsReportAbsence'
  <2>1. drv'.pc # "returned"
    BY <1>10
  <2> QED
    BY <2>1, NotBack, Zenon
<1>23. drv' \in DrvRec /\ rx' \in Seq(Byte) /\ timeouts' \in Nat /\ ScriptOK(script')
  BY <1>2, <1>4, <1>7, <1>8, <1>10, Zenon DEF op
<1>24. WireOK'
  BY <1>1, <1>3, <1>8, WireKept, Zenon
<1> QED
  BY <1>1, <1>3, <1>20, <1>21, <1>22, <1>23, <1>24, DriverEnds, Zenon DEF I2cInv
\* The programs are made of calls the driver can serve.
LEMMA WriteOp ==
    ASSUME NEW a \in 0 .. 127, NEW d \in Seq(Byte), Len(d) > 0, NEW sk \in BOOLEAN
    PROVE  OpOK(Write(a, d, sk))
<1> DEFINE x == Write(a, d, sk)
<1>1. x \in Ops
  BY DEF Write, Ops
<1>2. x.addr = a /\ x.call = "write" /\ x.n = Len(d) /\ x.data = d
  BY DEF Write
<1>3. x.addr < 128
  BY <1>2
<1> HIDE DEF x
<1>4. OpOK(x)
  BY <1>1, <1>2, <1>3, Zenon DEF OpOK
<1> QED
  BY <1>4 DEF x

LEMMA ReadOp ==
    ASSUME NEW a \in 0 .. 127, NEW n \in Nat
    PROVE  OpOK(Read(a, n))
<1> DEFINE x == Read(a, n)
<1>1. x \in Ops
  BY DEF Read, Ops
<1>2. x.addr = a /\ x.call = "read"
  BY DEF Read
<1>3. x.addr < 128 /\ x.call # "write"
  BY <1>2
<1> HIDE DEF x
<1>4. OpOK(x)
  BY <1>1, <1>3, Zenon DEF OpOK
<1> QED
  BY <1>4 DEF x

LEMMA ScriptOfOne == ASSUME NEW x, OpOK(x) PROVE ScriptOK(<<x>>)
<1>1. x \in Ops
  BY Zenon DEF OpOK
<1>2. <<x>> \in Seq(Ops) /\ \A k \in 1 .. Len(<<x>>) : <<x>>[k] = x
  BY <1>1
<1> QED
  BY <1>2, Zenon DEF ScriptOK

LEMMA ScriptOfTwo ==
    ASSUME NEW x, NEW y, OpOK(x), OpOK(y)
    PROVE  ScriptOK(<<x, y>>)
<1>1. x \in Ops /\ y \in Ops
  BY Zenon DEF OpOK
<1>2. <<x, y>> \in Seq(Ops) /\ \A k \in 1 .. Len(<<x, y>>) : <<x, y>>[k] = x \/ <<x, y>>[k] = y
  BY <1>1
<1> QED
  BY <1>2, Zenon DEF ScriptOK

LEMMA ScriptOfFour ==
    ASSUME NEW x, NEW y, NEW z, NEW w, OpOK(x), OpOK(y), OpOK(z), OpOK(w)
    PROVE  ScriptOK(<<x, y, z, w>>)
<1> DEFINE s == <<x, y, z, w>>
<1>1. x \in Ops /\ y \in Ops /\ z \in Ops /\ w \in Ops
  BY Zenon DEF OpOK
<1>2. s \in Seq(Ops)
  BY <1>1
<1>3. ASSUME NEW k \in 1 .. Len(s)
      PROVE  s[k] = x \/ s[k] = y \/ s[k] = z \/ s[k] = w
  <2>1. Len(s) = 4
    BY SMT
  <2>2. k = 1 \/ k = 2 \/ k = 3 \/ k = 4
    BY <1>3, <2>1
  <2> QED
    BY <2>2
<1> HIDE DEF s
<1>4. ScriptOK(s)
  BY <1>2, <1>3, Zenon DEF ScriptOK
<1> QED
  BY <1>4 DEF s

LEMMA ScriptsAre ==
    /\ id = "i2c_rpi0" => Scripts = EepromScripts
    /\ id = "i2c_rpi1" => Scripts = {read_sense_imu}
    /\ id = "i2c1" => Scripts = {as6212_temperature_report}
    /\ id = "unpopulated" => Scripts = NoHatScripts
  BY DEF Scripts

LEMMA ScriptsOK ==
    ASSUME id \in BusIds, NEW s \in Scripts
    PROVE  ScriptOK(s)
<1> DEFINE yes == TRUE
           no == FALSE
<1>0. yes \in BOOLEAN /\ no \in BOOLEAN
  BY Zenon
<1>1. Lengths \subseteq Nat /\ EepromAddresses \subseteq Byte \X Byte /\ NewBytes \subseteq Byte
  BY I2cDriverAssumption
<1>2. ASSUME NEW a \in EepromAddresses
      PROVE  a \in Seq(Byte) /\ Len(a) = 2
  <2>1. a \in Byte \X Byte
    BY <1>1, Zenon
  <2>2. PICK u \in Byte, v \in Byte : a = <<u, v>>
    BY <2>1
  <2> QED
    BY <2>2
<1>7. ASSUME NEW a \in EepromAddresses, NEW n \in Lengths, s = id_eeprom_report(a, n)
      PROVE  ScriptOK(s)
  <2>1. n \in Nat /\ a \in Seq(Byte) /\ Len(a) > 0 /\ 80 \in 0 .. 127
    BY <1>1, <1>2
  <2>2. s = <<Write(80, a, yes), Read(80, n)>>
    BY <1>7, Zenon DEF id_eeprom_report
  <2> HIDE DEF yes, no
  <2>3. OpOK(Write(80, a, yes))
    BY <1>0, <2>1, WriteOp
  <2>4. OpOK(Read(80, n))
    BY <2>1, ReadOp
  <2> QED
    BY <2>2, <2>3, <2>4, ScriptOfTwo, Zenon
<1>3. CASE id = "i2c_rpi0"
  <2>1. 80 \in 0 .. 127
    OBVIOUS
  <2>2. \/ \E a \in EepromAddresses, n \in Lengths : s = id_eeprom_report(a, n)
        \/ \E a \in EepromAddresses, v \in NewBytes : s = EepromUpdate(a, v)
    <3>1. s \in EepromScripts
      BY <1>3, ScriptsAre, Zenon
    <3> QED
      BY ONLY <3>1 DEF EepromScripts
  <2>3. ASSUME NEW a \in EepromAddresses, NEW n \in Lengths, s = id_eeprom_report(a, n)
        PROVE  ScriptOK(s)
    BY <1>7, <2>3, Zenon
  <2>4. ASSUME NEW a \in EepromAddresses, NEW v \in NewBytes, s = EepromUpdate(a, v)
        PROVE  ScriptOK(s)
    <3> DEFINE d == a \o <<v>>
    <3>1. v \in Byte /\ a \in Seq(Byte) /\ Len(a) = 2
      BY <1>1, <1>2, Zenon
    <3>2. d \in Seq(Byte) /\ Len(d) > 0
      BY <3>1
    <3>3. s = <<Write(80, d, no)>>
      BY <2>4, Zenon DEF EepromUpdate
    <3> HIDE DEF yes, no, d
    <3>4. OpOK(Write(80, d, no))
      BY <1>0, <2>1, <3>2, WriteOp
    <3> QED
      BY <3>3, <3>4, ScriptOfOne, Zenon
  <2> QED
    BY <2>2, <2>3, <2>4, Zenon
<1>4. CASE id = "i2c_rpi1"
  <2> DEFINE d == <<15>>
  <2>1. 106 \in 0 .. 127 /\ 28 \in 0 .. 127
    OBVIOUS
  <2>2. s = <<Write(106, d, yes), Read(106, 1), Write(28, d, yes), Read(28, 1)>>
    <3>1. Scripts = {read_sense_imu}
      BY <1>4, ScriptsAre, Zenon
    <3>2. s = read_sense_imu
      BY <3>1, Zenon
    <3> QED
      BY <3>2, Zenon DEF read_sense_imu
  <2>3. d \in Seq(Byte) /\ Len(d) > 0
    BY DEF Byte
  <2> HIDE DEF d, yes
  <2>4. OpOK(Write(106, d, yes))
    BY <1>0, <2>1, <2>3, WriteOp
  <2>5. OpOK(Write(28, d, yes))
    BY <1>0, <2>1, <2>3, WriteOp
  <2>0. 106 \in 0 .. 127 /\ 28 \in 0 .. 127 /\ 1 \in Nat
    BY SMT
  <2>6. OpOK(Read(106, 1))
    BY <2>0, ReadOp, Zenon
  <2>7. OpOK(Read(28, 1))
    BY <2>0, ReadOp, Zenon
  <2> QED
    BY <2>2, <2>4, <2>5, <2>6, <2>7, ScriptOfFour, Zenon
<1>5. CASE id = "i2c1"
  <2> DEFINE d == <<1>>
             g == <<0>>
  <2>1. 72 \in 0 .. 127
    OBVIOUS
  <2>2. s = <<Write(72, d, no), Read(72, 2), Write(72, g, no), Read(72, 2)>>
    <3>1. Scripts = {as6212_temperature_report}
      BY <1>5, ScriptsAre, Zenon
    <3>2. s = as6212_temperature_report
      BY <3>1, Zenon
    <3> QED
      BY <3>2, Zenon DEF as6212_temperature_report
  <2>3. d \in Seq(Byte) /\ Len(d) > 0 /\ g \in Seq(Byte) /\ Len(g) > 0
    BY DEF Byte
  <2> HIDE DEF d, g, no
  <2>4. OpOK(Write(72, d, no))
    BY <1>0, <2>1, <2>3, WriteOp
  <2>5. OpOK(Write(72, g, no))
    BY <1>0, <2>1, <2>3, WriteOp
  <2>6. OpOK(Read(72, 2))
    <3>1. 72 \in 0 .. 127 /\ 2 \in Nat
      BY SMT
    <3> QED
      BY <3>1, ReadOp, Zenon
  <2> QED
    BY <2>2, <2>4, <2>5, <2>6, ScriptOfFour, Zenon
<1>6. CASE id = "unpopulated"
  <2>0. s \in NoHatScripts
    BY <1>6, ScriptsAre, Zenon
  <2>1. \/ \E a \in EepromAddresses, n \in Lengths : s = id_eeprom_report(a, n)
        \/ \E n \in Lengths : s = Probe(n)
    BY ONLY <2>0 DEF NoHatScripts
  <2>2. ASSUME NEW n \in Lengths
        PROVE  OpOK(Read(80, n))
    <3>1. 80 \in 0 .. 127 /\ n \in Nat
      BY <1>1
    <3> QED
      BY <3>1, ReadOp, Zenon
  <2>3. ASSUME NEW a \in EepromAddresses, NEW n \in Lengths, s = id_eeprom_report(a, n)
        PROVE  ScriptOK(s)
    BY <1>7, <2>3, Zenon
  <2>4. ASSUME NEW n \in Lengths, s = Probe(n)
        PROVE  ScriptOK(s)
    BY <2>2, <2>4, ScriptOfOne, Zenon DEF Probe
  <2> QED
    BY <2>1, <2>3, <2>4, Zenon
<1> QED
  BY <1>3, <1>4, <1>5, <1>6, Zenon DEF BusIds

LEMMA RunScriptKeeps == ASSUME I2cInv, RunScript PROVE I2cInv'
<1>1. WireOK /\ DriverOK
  BY Zenon DEF I2cInv
<1>2. BusKept /\ id' = id /\ resets' = resets /\ ctl' = ctl /\ fmt' = fmt /\ rx' = rx /\ drv' = drv /\ timeouts' = timeouts
  BY DEF RunScript, busvars, BusKept
<1>3. WireOK'
  BY <1>1, <1>2, WireKept, Zenon
<1>4. ScriptOK(script')
  <2>1. script' \in Scripts /\ id \in BusIds
    BY <1>1, Zenon DEF RunScript, DriverOK
  <2> QED
    BY <2>1, ScriptsOK, Zenon
<1>5. OnlyReadsReportAbsence'
  <2>1. devs' = devs
    BY <1>2, Zenon DEF BusKept
  <2>2. OnlyReadsReportAbsence
    BY <1>1, Zenon DEF DriverOK
  <2> QED
    BY <1>2, <2>1, <2>2, Zenon DEF OnlyReadsReportAbsence
<1>6. /\ drv' \in DrvRec /\ rx' \in Seq(Byte) /\ timeouts' \in Nat
      /\ CallAt(drv', DOMAIN devs) /\ FifoAt(drv', ctl', bus, fmt', DOMAIN devs)
  BY <1>1, <1>2, Called, Zenon
<1> QED
  BY <1>1, <1>2, <1>3, <1>4, <1>5, <1>6, DriverEnds, Zenon DEF I2cInv

LEMMA StutterKeeps == ASSUME I2cInv, UNCHANGED vars PROVE I2cInv'
<1>1. WireOK /\ DriverOK
  BY Zenon DEF I2cInv
<1>2. /\ BusKept /\ id' = id /\ resets' = resets /\ ctl' = ctl /\ fmt' = fmt /\ rx' = rx /\ drv' = drv
      /\ timeouts' = timeouts /\ script' = script
  BY DEF vars, busvars, BusKept
<1>3. WireOK'
  BY <1>1, <1>2, WireKept, Zenon
<1>5. OnlyReadsReportAbsence'
  <2>1. devs' = devs
    BY <1>2, Zenon DEF BusKept
  <2>2. OnlyReadsReportAbsence
    BY <1>1, Zenon DEF DriverOK
  <2> QED
    BY <1>2, <2>1, <2>2, Zenon DEF OnlyReadsReportAbsence
<1>6. /\ drv' \in DrvRec /\ rx' \in Seq(Byte) /\ timeouts' \in Nat /\ ScriptOK(script')
      /\ CallAt(drv', DOMAIN devs) /\ FifoAt(drv', ctl', bus, fmt', DOMAIN devs)
  BY <1>1, <1>2, Called, Zenon
<1> QED
  BY <1>1, <1>2, <1>3, <1>5, <1>6, DriverEnds, Zenon DEF I2cInv

-----------------------------------------------------------------------------
(* The controller, the decoder and a reset. *)

\* What the driver may rely on survives a step of the controller.
LEMMA CtlStepDriver == ASSUME I2cInv, CtlStep PROVE I2cInv' /\ (scl /\ scl' => sda_o' = sda_o)
<1>1. WireOK /\ DriverOK
  BY Zenon DEF I2cInv
<1>2. WireOK' /\ (scl /\ scl' => sda_o' = sda_o) /\ DOMAIN devs' = DOMAIN devs
  BY <1>1, CtlStepKeeps, Zenon
<1>3. id' = id /\ drv' = drv /\ script' = script /\ timeouts' = timeouts /\ resets' = resets /\ rx' = RxNext
  BY DEF CtlStep
<1>4. /\ drv \in DrvRec /\ rx \in Seq(Byte) /\ timeouts \in Nat /\ ScriptOK(script)
      /\ CallAt(drv, DOMAIN devs) /\ FifoAt(drv, ctl, bus, fmt, DOMAIN devs)
      /\ id \in BusIds /\ resets \in Nat /\ OnlyReadsReportAbsence
  BY <1>1, Zenon DEF DriverOK
<1>5. rx' \in Seq(Byte)
  <2>1. ctl.byte \in Byte
    BY <1>1, CtlFieldTypes, Zenon DEF WireOK
  <2>2. Append(rx, ctl.byte) \in Seq(Byte)
    BY <1>4, <2>1
  <2> QED
    BY <1>3, <1>4, <2>2, Zenon DEF RxNext
<1>6. /\ fmt' = (IF ctl.st = "PopFmtFifo" THEN Tail(fmt) ELSE fmt) /\ fmt # <<>> /\ FmtOK(fmt)
  BY <1>1, CtlStepIs, Zenon
<1>7. FifoAt(drv', ctl', bus', fmt', DOMAIN devs')
  <2>1. CASE ctl.st # "PopFmtFifo"
    BY <1>2, <1>3, <1>4, <1>6, <2>1, Zenon DEF FifoAt
  <2>2. CASE ctl.st = "PopFmtFifo"
    <3> DEFINE e == Head(fmt)
    <3>1. /\ Sound(e) /\ Done(ctl', bus', e) /\ (e.start => Addressee(bus', e, DOMAIN devs))
          /\ ctl'.nak \in BOOLEAN /\ bus'.reading \in BOOLEAN /\ fmt' = Tail(fmt)
      BY <1>1, <2>2, StepPop, Zenon
    <3>2. Last1(drv, fmt[Len(fmt)]) /\ drv.pc \notin {"read_nak", "read_len"}
      BY <1>4, <1>6, Zenon DEF FifoAt
    <3>3. CASE Tail(fmt) # <<>>
      <4>1. Tail(fmt)[Len(Tail(fmt))] = fmt[Len(fmt)]
        BY <1>6, <3>3, TailOK, Zenon
      <4> QED
        BY <1>3, <3>1, <3>2, <3>3, <4>1, Zenon DEF FifoAt
    <3>4. CASE Tail(fmt) = <<>>
      <4>1. Last1(drv, e)
        BY <1>6, <3>2, <3>4, TailOK, Zenon
      <4>2. ctl'.nak => ~Found(bus')
        BY <1>2, Zenon DEF WireOK
      <4>3. drv.pc = "read_addr" => drv.op.addr \in Nat
        <5>1. drv.op.addr \in 0 .. 128
          BY <1>4, DrvFieldTypes, OpFieldTypes, Zenon
        <5> QED
          BY <5>1
      <4> HIDE DEF e
      <4>4. Served(drv, ctl', bus', DOMAIN devs)
        BY <3>1, <3>2, <4>1, <4>2, <4>3, ServedLast, Zenon
      <4> QED
        BY <1>2, <1>3, <3>1, <3>2, <3>4, <4>4, Zenon DEF FifoAt
    <3> QED
      BY <3>3, <3>4
  <2> QED
    BY <2>1, <2>2
<1>8. OnlyReadsReportAbsence'
  BY <1>2, <1>3, <1>4, Zenon DEF OnlyReadsReportAbsence
<1>9. DriverOK'
  BY <1>2, <1>3, <1>4, <1>5, <1>7, <1>8, Zenon DEF DriverOK
<1> QED
  BY <1>2, <1>9, Zenon DEF I2cInv

\* The same fields of the decoder say the same.
LEMMA PhaseSame ==
    ASSUME NEW c, c.st \in CtlStates, NEW b, NEW x, NEW e, NEW dom, Kept(b, x), Phase(c, b, e, dom)
    PROVE  Phase(c, x, e, dom)
<1>0. /\ x.state = b.state /\ x.numBits = b.numBits /\ x.currByte = b.currByte
      /\ x.currDevice = b.currDevice /\ x.reading = b.reading /\ x.sendAck = b.sendAck
      /\ x.heard = b.heard
  BY Zenon DEF Kept
<1>22. /\ Found(x) = Found(b) /\ Spent(x) = Spent(b) /\ Addressee(x, e, dom) = Addressee(b, e, dom)
  BY <1>0, Zenon DEF Found, Spent, Addressee
<1>23. Released(x) = Released(b)
  BY <1>0, <1>22, Zenon DEF Released
<1>24. Arrived(c, x, e, dom) <=> Arrived(c, b, e, dom)
  BY <1>0, <1>22, Zenon DEF Arrived
<1>25. Acking(c, x, e, dom) <=> Acking(c, b, e, dom)
  BY <1>0, <1>24, Zenon DEF Acking
<1>26. \A n : Arriving(c, x, e, n) <=> Arriving(c, b, e, n)
  BY <1>0, <1>22, Zenon DEF Arriving
<1>27. Between(c, x) <=> Between(c, b)
  BY <1>0, <1>22, Zenon DEF Between
<1>28. Done(c, x, e) <=> Done(c, b, e)
  BY <1>0, <1>22, <1>23, Zenon DEF Done
<1>1. CASE c.st = "Idle"
  BY <1>0, <1>1, <1>22, <1>23, <1>27, PhaseIdle, Zenon
<1>2. CASE c.st = "Active"
  BY <1>0, <1>2, <1>22, <1>23, PhaseActive, ZenonT(60) DEF Between, Ready
<1>3. CASE c.st = "SetupStart"
  BY <1>0, <1>3, <1>22, <1>23, PhaseSetupStart, Zenon
<1>4. CASE c.st = "HoldStart"
  BY <1>0, <1>4, <1>22, <1>23, <1>26, PhaseHoldStart, Zenon
<1>5. CASE c.st = "ClockStart"
  BY <1>0, <1>5, <1>22, <1>23, <1>26, PhaseClockStart, Zenon
<1>6. CASE c.st = "ClockLow"
  BY <1>0, <1>6, <1>22, <1>23, <1>26, <1>27, PhaseClockLow, Zenon
<1>7. CASE c.st = "ClockPulse"
  BY <1>0, <1>7, <1>22, <1>23, <1>25, <1>26, PhaseClockPulse, Zenon
<1>8. CASE c.st = "HoldBit"
  BY <1>0, <1>8, <1>22, <1>23, <1>25, <1>26, PhaseHoldBit, Zenon
<1>9. CASE c.st = "ClockLowAck"
  BY <1>0, <1>9, <1>22, <1>23, <1>25, PhaseClockLowAck, Zenon
<1>10. CASE c.st = "ClockPulseAck"
  BY <1>0, <1>10, <1>22, <1>23, <1>25, PhaseClockPulseAck, Zenon
<1>11. CASE c.st = "HoldDevAck"
  BY <1>0, <1>11, <1>22, <1>23, <1>24, PhaseHoldDevAck, Zenon
<1>12. CASE c.st = "PopFmtFifo"
  BY <1>0, <1>12, <1>22, <1>23, <1>27, <1>28, PhasePopFmtFifo, Zenon
<1>13. CASE c.st = "ClockStop"
  BY <1>0, <1>13, <1>22, <1>23, PhaseClockStop, Zenon DEF Stopping
<1>14. CASE c.st = "SetupStop"
  BY <1>0, <1>14, <1>22, <1>23, PhaseSetupStop, Zenon DEF Stopping
<1>15. CASE c.st = "HoldStop"
  BY <1>0, <1>15, <1>22, <1>23, PhaseHoldStop, Zenon
<1>16. CASE c.st = "ReadClockLow"
  BY <1>0, <1>16, <1>22, <1>23, PhaseReadClockLow, Zenon DEF Sending, Shifted
<1>17. CASE c.st = "ReadClockPulse"
  BY <1>0, <1>17, <1>22, <1>23, PhaseReadClockPulse, Zenon DEF Sending, Shifted
<1>18. CASE c.st = "ReadHoldBit"
  BY <1>0, <1>18, <1>22, <1>23, PhaseReadHoldBit, Zenon DEF Sending, Shifted
<1>19. CASE c.st = "HostClockLowAck"
  BY <1>0, <1>19, <1>22, <1>23, PhaseHostClockLowAck, Zenon DEF Sending, Shifted
<1>20. CASE c.st = "HostClockPulseAck"
  BY <1>0, <1>20, <1>22, <1>23, PhaseHostClockPulseAck, Zenon DEF Sending
<1>21. CASE c.st = "HostHoldBitAck"
  BY <1>0, <1>21, <1>22, <1>23, PhaseHostHoldBitAck, Zenon DEF Sending
<1> QED
  BY <1>1, <1>2, <1>3, <1>4, <1>5, <1>6, <1>7, <1>8, <1>9, <1>10, <1>11, <1>12, <1>13, <1>14, <1>15, <1>16, <1>17, <1>18, <1>19, <1>20, <1>21, Zenon DEF CtlStates

LEMMA ReevaluateKeeps == ASSUME I2cInv, Reevaluate PROVE I2cInv' /\ (scl /\ scl' => sda_o' = sda_o)
<1>1. WireOK /\ DriverOK /\ BusOK
  BY Zenon DEF I2cInv, WireOK
<1>2. /\ scl' = scl /\ sda' = sda /\ ctl' = ctl /\ fmt' = fmt /\ rx' = rx /\ drv' = drv /\ id' = id
      /\ script' = script /\ timeouts' = timeouts /\ resets' = resets
  BY DEF Reevaluate
<1>3. PICK noise \in Noise : \E r \in {decode(bus, devs, scl, sda, noise)} :
          bus' = r.bus /\ devs' = r.devs /\ sda_o' = r.sda_out
  BY Zenon DEF Reevaluate
<1>4. PICK r : r = decode(bus, devs, scl, sda, noise) /\ Moved(r, scl, sda)
  BY <1>2, <1>3, Zenon DEF Moved
<1>5. noise \in Byte
  BY I2cDriverAssumption
<1>6. GivesSame(devs, scl, sda, r, bus)
  BY <1>1, <1>4, <1>5, DecodeSame, Zenon
<1>7. TurnsSame(scl, sda)
  BY <1>4, <1>6, TurnsGiven, Zenon DEF GivesSame, TurnsSame
<1>8. /\ bus' \in BusRec /\ Kept(bus, bus') /\ bus'.prev_scl = scl /\ bus'.prev_sda = sda
      /\ DevsOK(devs') /\ DOMAIN devs' = DOMAIN devs /\ sda_o' \in BOOLEAN
      /\ scl => sda_o' = Out(bus')
  BY <1>7, Zenon DEF TurnsSame, Turns, Holds, SameDevs, Kept
<1>9. Out(bus') = Out(bus)
  BY <1>8, OutKept, Zenon
<1>10. scl => sda_o' = sda_o
  <2>1. scl => sda_o = Out(bus)
    BY <1>1, Zenon DEF BusOK
  <2>2. scl => sda_o' = Out(bus')
    BY <1>8, Zenon
  <2> QED
    BY <1>9, <2>1, <2>2, Zenon
<1>11. BusOK'
  <2>1. bus'.currDevice \in DOMAIN devs' \cup {NoDevice}
    BY <1>1, <1>8, Zenon DEF BusOK, Kept
  <2> QED
    BY <1>1, <1>2, <1>8, <2>1, Zenon DEF BusOK
<1>12. /\ bus'.currDevice = bus.currDevice /\ bus'.reading = bus.reading /\ bus'.currByte = bus.currByte
       /\ Found(bus') = Found(bus) /\ Released(bus') = Released(bus)
  BY <1>8, ZenonT(60) DEF Kept, Found, Released, Spent
<1>13. WireOK'
  <2>1. Phase(ctl', bus', Head(fmt'), DOMAIN devs')
    <3>1. ctl.st \in CtlStates /\ Phase(ctl, bus, Head(fmt), DOMAIN devs)
      BY <1>1, CtlFieldTypes, Zenon DEF WireOK
    <3>2. Phase(ctl, bus', Head(fmt), DOMAIN devs)
      BY <1>8, <3>1, PhaseSame, Zenon
    <3> QED
      BY <1>2, <1>8, <3>2, Zenon
  <2>2. ctl.st = "Idle" /\ fmt # <<>> /\ ~ctl.nak => Ready(ctl, bus', Head(fmt))
    BY <1>1, <1>12, Zenon DEF WireOK, Ready
  <2> QED
    BY <1>1, <1>2, <1>11, <1>12, <2>1, <2>2, Zenon DEF WireOK
<1>14. FifoAt(drv', ctl', bus', fmt', DOMAIN devs')
  <2>1. FifoAt(drv, ctl, bus, fmt, DOMAIN devs)
    BY <1>1, Zenon DEF DriverOK
  <2>2. fmt = <<>> => Served(drv, ctl, bus', DOMAIN devs)
    BY <1>12, <2>1, Zenon DEF FifoAt, Served
  <2> QED
    BY <1>2, <1>8, <2>1, <2>2, Zenon DEF FifoAt
<1>15. OnlyReadsReportAbsence'
  BY <1>1, <1>2, <1>8, Zenon DEF OnlyReadsReportAbsence, DriverOK
<1>16. DriverOK'
  BY <1>1, <1>2, <1>8, <1>14, <1>15, Zenon DEF DriverOK
<1> QED
  BY <1>10, <1>13, <1>16, Zenon DEF I2cInv
-----------------------------------------------------------------------------
(* The start, a reset, and the theorems. *)

\* After power-up, and after a reset in the middle of anything.
Fresh ==
    /\ ctl = NewCtl /\ fmt = <<>> /\ rx = <<>> /\ drv = Boot /\ script = <<>>
    /\ scl = TRUE /\ sda = TRUE /\ sda_o = TRUE
    /\ bus \in BusRec /\ bus.state = "Idle" /\ bus.currDevice = NoDevice
    /\ bus.prev_scl = TRUE /\ bus.prev_sda = TRUE
    /\ DevsOK(devs) /\ id \in BusIds
    /\ timeouts \in Nat /\ resets \in Nat

LEMMA NewCtlIs ==
    /\ NewCtl \in CtlRec /\ NewCtl.st = "Idle" /\ NewCtl.started = FALSE
    /\ NewCtl.nak = FALSE
<1>1. NewCtl \in CtlRec
  BY DEF NewCtl, CtlRec, CtlStates, Byte
<1> QED
  BY <1>1 DEF NewCtl

LEMMA BootIs == Boot \in DrvRec /\ Boot.pc = "boot"
<1>1. NoCall \in Ops
  BY DEF NoCall, Read, Ops, NoDevice
<1> QED
  BY <1>1 DEF Boot, DrvRec, Pcs

LEMMA FreshOK == Fresh => I2cInv
<1> SUFFICES ASSUME Fresh PROVE I2cInv
  OBVIOUS
<1>1. /\ ctl = NewCtl /\ fmt = <<>> /\ rx = <<>> /\ drv = Boot /\ script = <<>>
      /\ scl = TRUE /\ sda = TRUE /\ sda_o = TRUE
  BY Zenon DEF Fresh
<1>2. /\ bus \in BusRec /\ bus.state = "Idle" /\ bus.currDevice = NoDevice
      /\ bus.prev_scl = TRUE /\ bus.prev_sda = TRUE
      /\ DevsOK(devs) /\ id \in BusIds /\ timeouts \in Nat /\ resets \in Nat
  BY Zenon DEF Fresh
<1>3. ctl \in CtlRec /\ ctl.st = "Idle" /\ ctl.started = FALSE /\ ctl.nak = FALSE
  BY <1>1, NewCtlIs, Zenon
<1>4. drv \in DrvRec /\ drv.pc = "boot"
  BY <1>1, BootIs, Zenon
<1>5. BusOK
  <2>1. Out(bus) = TRUE
    BY <1>2 DEF Out
  <2> QED
    BY <1>1, <1>2, <2>1, Zenon DEF BusOK
<1>6. WireOK
  <2>1. SclOf(ctl, fmt) = TRUE
    BY <1>3 DEF SclOf
  <2>2. SdaOf(ctl, fmt) = TRUE
    BY <1>3 DEF SdaOf
  <2>3. FmtOK(fmt)
    BY <1>1 DEF FmtOK
  <2>4. Between(ctl, bus)
    BY <1>2, <1>3, Zenon DEF Between
  <2>5. Phase(ctl, bus, Head(fmt), DOMAIN devs)
    BY <1>3, <2>4, PhaseIdle, Zenon
  <2> QED
    BY <1>1, <1>3, <1>5, <2>1, <2>2, <2>3, <2>5, Zenon DEF WireOK
<1>7. DriverOK
  <2>1. rx \in Seq(Byte)
    BY <1>1
  <2>2. ScriptOK(script)
    BY <1>1 DEF ScriptOK
  <2>3. CallAt(drv, DOMAIN devs)
    BY <1>4, CallBoot, Zenon
  <2>4. Served(drv, ctl, bus, DOMAIN devs)
    BY <1>3, <1>4, Zenon DEF Served
  <2>5. FifoAt(drv, ctl, bus, fmt, DOMAIN devs)
    BY <1>1, <1>4, <2>4, Zenon DEF FifoAt
  <2>6. OnlyReadsReportAbsence
    BY <1>4, Zenon DEF OnlyReadsReportAbsence
  <2> QED
    BY <1>2, <1>4, <2>1, <2>2, <2>3, <2>5, <2>6, Zenon DEF DriverOK
<1> QED
  BY <1>6, <1>7, Zenon DEF I2cInv

LEMMA NewDevices ==
    ASSUME NEW i \in BusIds, NEW config \in ConfigValues
    PROVE  DevsOK(i2cdpi_create(i, config))
<1> DEFINE t == i2c_as621x(config)
<1>1. i2c_hat_id \in HatRec
  BY I2cBusAssumption DEF i2c_hat_id, HatRec, Byte
<1>2. t \in TempRec
  BY I2cBusAssumption DEF i2c_as621x, TempRec, Byte, Word
<1>3. i2c_lsm9ds1 \in ImuRec
  BY DEF i2c_lsm9ds1, ImuRec, Byte
<1>4. DevOK(i2c_hat_id) /\ DevOK(t) /\ DevOK(i2c_lsm9ds1)
  BY <1>1, <1>2, <1>3, Zenon DEF DevOK
<1> DEFINE h == i2c_hat_id
           m == i2c_lsm9ds1
<1>5. /\ i = "i2c_rpi0" => i2cdpi_create(i, config) = [a \in {80} |-> h]
      /\ i = "i2c_rpi1" => i2cdpi_create(i, config) = [a \in {106, 28} |-> m]
      /\ i = "i2c1" => i2cdpi_create(i, config) = [a \in {72} |-> t]
      /\ i = "unpopulated" => i2cdpi_create(i, config) = [a \in {} |-> m]
  BY DEF i2cdpi_create
<1>6. DevOK(h) /\ DevOK(t) /\ DevOK(m)
  BY <1>4
<1> HIDE DEF t, h, m
<1>7. CASE i = "i2c_rpi0"
  <2>1. DevsOK([a \in {80} |-> h])
    BY <1>6 DEF DevsOK
  <2> QED
    BY <1>5, <1>7, <2>1
<1>8. CASE i = "i2c_rpi1"
  <2>1. DevsOK([a \in {106, 28} |-> m])
    BY <1>6 DEF DevsOK
  <2> QED
    BY <1>5, <1>8, <2>1
<1>9. CASE i = "i2c1"
  <2>1. DevsOK([a \in {72} |-> t])
    BY <1>6 DEF DevsOK
  <2> QED
    BY <1>5, <1>9, <2>1
<1>10. CASE i = "unpopulated"
  <2>1. DevsOK([a \in {} |-> m])
    BY <1>6 DEF DevsOK
  <2> QED
    BY <1>5, <1>10, <2>1
<1> QED
  BY <1>7, <1>8, <1>9, <1>10, Zenon DEF BusIds

LEMMA InitKeeps == ASSUME I2cInit PROVE I2cInv
<1>1. PICK config \in ConfigValues : devs = i2cdpi_create(id, config)
  BY Zenon DEF I2cInit
<1>2. id \in BusIds
  BY Zenon DEF I2cInit
<1>3. DevsOK(devs) /\ id \in BusIds
  BY <1>1, <1>2, NewDevices, Zenon
<1>4. /\ NewBus \in BusRec /\ NewBus.state = "Idle" /\ NewBus.currDevice = NoDevice
      /\ NewBus.prev_scl = TRUE /\ NewBus.prev_sda = TRUE
  <2>1. NewBus \in BusRec
    BY DEF NewBus, BusRec, BusStates, Byte, NoDevice
  <2> QED
    BY <2>1 DEF NewBus
<1>5. 0 \in Nat
  OBVIOUS
<1>6. Fresh
  BY <1>3, <1>4, <1>5, Zenon DEF Fresh, I2cInit
<1> QED
  BY <1>6, FreshOK, Zenon

LEMMA ResetKeeps == ASSUME I2cInv, Reset PROVE I2cInv' /\ resets' # resets
<1>1. /\ bus \in BusRec /\ DevsOK(devs) /\ id \in BusIds /\ timeouts \in Nat /\ resets \in Nat
  BY Zenon DEF I2cInv, WireOK, BusOK, DriverOK
<1>2. /\ bus' = under_reset(bus) /\ sda_o' = TRUE /\ scl' = TRUE /\ sda' = TRUE
      /\ ctl' = NewCtl /\ fmt' = <<>> /\ rx' = <<>> /\ drv' = Boot /\ script' = <<>>
      /\ id' = id /\ devs' = devs /\ timeouts' = timeouts /\ resets' = resets + 1
  BY DEF Reset
<1> DEFINE b == under_reset(bus)
<1>3. b \in BusRec
  <2> DEFINE yes == TRUE
             no == FALSE
             none == 0
             u1 == [bus EXCEPT !.state = "Idle"]
             u2 == [u1 EXCEPT !.numBits = none]
             u3 == [u2 EXCEPT !.currDevice = NoDevice]
             u4 == [u3 EXCEPT !.reading = no]
             u5 == [u4 EXCEPT !.sendAck = yes]
             u6 == [u5 EXCEPT !.prev_rst = yes]
             u7 == [u6 EXCEPT !.prev_scl = yes]
             u8 == [u7 EXCEPT !.prev_sda = yes]
  <2>1. b = u8
    BY DEF under_reset
  <2>2. yes \in BOOLEAN /\ no \in BOOLEAN
    BY Zenon
  <2>3. NoDevice \in 0 .. 128 /\ "Idle" \in BusStates /\ none \in 0 .. 8
    BY DEF NoDevice, BusStates
  <2> HIDE DEF yes, no, none, b, u1, u2, u3, u4, u5, u6, u7, u8
  <2>4. u1 \in BusRec
    BY <1>1, <2>2, <2>3 DEF u1, BusRec
  <2>5. u2 \in BusRec
    BY <2>4, <2>2, <2>3 DEF u2, BusRec
  <2>6. u3 \in BusRec
    BY <2>5, <2>2, <2>3 DEF u3, BusRec
  <2>7. u4 \in BusRec
    BY <2>6, <2>2, <2>3 DEF u4, BusRec
  <2>8. u5 \in BusRec
    BY <2>7, <2>2, <2>3 DEF u5, BusRec
  <2>9. u6 \in BusRec
    BY <2>8, <2>2, <2>3 DEF u6, BusRec
  <2>10. u7 \in BusRec
    BY <2>9, <2>2, <2>3 DEF u7, BusRec
  <2>11. u8 \in BusRec
    BY <2>10, <2>2, <2>3 DEF u8, BusRec
  <2> QED
    BY <2>1, <2>11
<1>4. b.state = "Idle" /\ b.currDevice = NoDevice /\ b.prev_scl = TRUE /\ b.prev_sda = TRUE
  BY <1>1 DEF under_reset, BusRec
<1>5. resets' \in Nat /\ resets' # resets
  BY <1>1, <1>2
<1>6. bus' = b
  BY <1>2, Zenon
<1> HIDE DEF b
<1>7. /\ bus' \in BusRec /\ bus'.state = "Idle" /\ bus'.currDevice = NoDevice
      /\ bus'.prev_scl = TRUE /\ bus'.prev_sda = TRUE
      /\ DevsOK(devs') /\ id' \in BusIds /\ timeouts' \in Nat
  BY <1>1, <1>2, <1>3, <1>4, <1>6, Zenon
<1>8. Fresh'
  BY <1>2, <1>5, <1>7, Zenon DEF Fresh
<1>9. I2cInv'
  BY <1>8, FreshOK, PTL
<1> QED
  BY <1>5, <1>9

\* A step of the driver leaves the lines to the controller.
LEMMA DriverSteps == ASSUME I2cInv, DriverStep PROVE I2cInv' /\ sda_o' = sda_o
<1>1. CASE setup_bus
  BY <1>1, SetupKeeps, DriverKept, Zenon DEF setup_bus, BusKept
<1>2. CASE Call
  BY <1>2, CallKeeps, DriverKept, Zenon DEF Call, BusKept
<1>3. CASE write_start
  BY <1>3, WriteStartKeeps, DriverKept, Zenon DEF write_start, BusKept
<1>4. CASE write_raw_bytes
  BY <1>4, WriteBytesKeeps, DriverKept, Zenon DEF write_raw_bytes, BusKept
<1>5. CASE i2c_write_check
  BY <1>5, WriteCheckKeeps, DriverKept, Zenon DEF i2c_write_check, BusKept
<1>6. CASE read_start
  BY <1>6, ReadStartKeeps, DriverKept, Zenon DEF read_start, BusKept
<1>7. CASE read_address_sent
  BY <1>7, ReadSentKeeps, DriverKept, Zenon DEF read_address_sent, BusKept
<1>8. CASE read_nak
  BY <1>8, ReadNakKeeps, ReadAckKeeps, DriverKept, Zenon DEF read_nak, BusKept
<1>9. CASE read_chunk
  BY <1>9, ReadChunkKeeps, DriverKept, Zenon DEF read_chunk, BusKept
<1>10. CASE read_data_sent
  BY <1>10, ReadDataSentKeeps, DriverKept, Zenon DEF read_data_sent, BusKept
<1>11. CASE read_drain
  BY <1>11, ReadDrainedKeeps, ReadTakesKeeps, DriverKept, Zenon DEF read_drain, BusKept
<1>12. CASE CallerContinues
  BY <1>12, CallerKeeps, DriverKept, Zenon DEF CallerContinues, BusKept
<1> QED
  BY <1>1, <1>2, <1>3, <1>4, <1>5, <1>6, <1>7, <1>8, <1>9, <1>10, <1>11, <1>12, Zenon DEF DriverStep

LEMMA NextKeeps ==
    ASSUME I2cInv, [I2cNext]_vars
    PROVE  I2cInv' /\ (scl /\ scl' /\ resets' = resets => sda_o' = sda_o)
<1>1. CASE CtlStep
  BY <1>1, CtlStepDriver, Zenon
<1>2. CASE Reevaluate
  BY <1>2, ReevaluateKeeps, Zenon
<1>3. CASE DriverStep
  BY <1>3, DriverSteps, Zenon
<1>4. CASE RunScript
  <2>1. sda_o' = sda_o
    BY <1>4 DEF RunScript, busvars
  <2> QED
    BY <1>4, <2>1, RunScriptKeeps, Zenon
<1>5. CASE read_timeout
  BY <1>5, ReadTimeoutKeeps, DriverKept, Zenon DEF read_timeout, BusKept
<1>6. CASE Reset
  BY <1>6, ResetKeeps, Zenon
<1>7. CASE UNCHANGED vars
  <2>1. sda_o' = sda_o
    BY <1>7 DEF vars, busvars
  <2> QED
    BY <1>7, <2>1, StutterKeeps, Zenon
<1> QED
  BY <1>1, <1>2, <1>3, <1>4, <1>5, <1>6, <1>7, Zenon DEF I2cNext

\* The inductive invariant of the driver, the controller, the decoder and the
\* devices, in every interleaving of their steps, with timeouts and resets
\* anywhere: it ties each state of the controller to the state and the bit
\* count of the decoder.
THEOREM I2cInvariant == I2cSpec => []I2cInv
<1>1. I2cInit => I2cInv
  BY InitKeeps
<1>2. I2cInv /\ [I2cNext]_vars => I2cInv'
  BY NextKeeps
<1> QED
  BY <1>1, <1>2, PTL DEF I2cSpec

\* Whenever the decoder of i2cdpi has acknowledged a byte, it has handed the
\* addressed device exactly the bytes the controller has shifted out in this
\* transaction, bit by bit over starts, repeated starts and acknowledgements.
THEOREM BytesArrive == I2cSpec => []BytesArriveWhole
<1>1. I2cInv => BytesArriveWhole
  <2> SUFFICES ASSUME I2cInv, ctl.st = "HoldDevAck" PROVE bus.heard = ctl.sent
    BY Zenon DEF BytesArriveWhole
  <2>1. Phase(ctl, bus, Head(fmt), DOMAIN devs)
    BY Zenon DEF I2cInv, WireOK
  <2> QED
    BY <2>1, PhaseHoldDevAck, Zenon
<1> QED
  BY <1>1, I2cInvariant, PTL

\* An i2c_read that did not run out of time fails exactly when no device answers
\* to its address: the acknowledge bit of i2cdpi reaches its caller.  An
\* i2c_write never fails, the device missing or not.
THEOREM ReadsReport == I2cSpec => []OnlyReadsReportAbsence
<1>1. I2cInv => OnlyReadsReportAbsence
  BY Zenon DEF I2cInv, DriverOK
<1> QED
  BY <1>1, I2cInvariant, PTL

\* The decoder of i2cdpi never changes SDA while SCL stays high, which would be
\* a start or a stop to everyone on the bus; a reset apart.
THEOREM SdaIsStable == I2cSpec => SdaStableWhileSclHigh
<1>1. I2cInv /\ [I2cNext]_vars => [scl /\ scl' /\ resets' = resets => sda_o' = sda_o]_vars
  BY NextKeeps
<1> QED
  BY <1>1, I2cInvariant, PTL DEF I2cSpec, SdaStableWhileSclHigh

=============================================================================
