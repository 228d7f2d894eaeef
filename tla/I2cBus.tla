------------------------------- MODULE I2cBus -------------------------------
(***************************************************************************)
(* The I2C bus of the simulation (dv/dpi/i2cdpi): the decoder that follows *)
(* the two lines the controller drives, and the device models attached to  *)
(* it.  The decoder is called whenever a line changes.  Its results are    *)
(* records [bus, devs, sda_out]; the Out-Of-Band signals, which no device  *)
(* uses, are left out.  bus.heard is history: the bytes handed to the      *)
(* addressed device in this transaction.                                   *)
(***************************************************************************)
EXTENDS Integers, Sequences

CONSTANTS kMemSize, kPageSize,   \* of the EEPROM: 0x1000 and 0x20 in the code
          HatImage,              \* the contents the EEPROM is created with
          ConfigValues           \* what the uninitialised config register may hold

ASSUME I2cBusAssumption == /\ kMemSize \in Nat \ {0}
                           /\ kPageSize \in 1 .. kMemSize
                           /\ HatImage \in [0 .. kMemSize - 1 -> 0 .. 255]
                           /\ \A c \in ConfigValues : c \in Nat /\ c < 65536

Byte == 0 .. 255
NoDevice == 128     \* no 7-bit address: nullptr

(***************************************************************************)
(* The devices.                                                            *)
(***************************************************************************)
busReset(d) ==
    CASE d.kind = "hat_id"  -> [d EXCEPT !.byteCount = 0, !.currAddr = 0]
      [] d.kind = "as621x"  -> [d EXCEPT !.index = 0, !.byteCount = 0]
      [] d.kind = "lsm9ds1" -> [d EXCEPT !.regNum = 0]

\* Broadcast on a (S)tart; nothing overrides restartCond, accessStarting and
\* stopCond.
startCond_ignored(d) == d          \* a slip: no override
startCond(d) == IF d.kind = "lsm9ds1" THEN d ELSE [d EXCEPT !.byteCount = 0]

i2c_hat_id == [kind |-> "hat_id", byteCount |-> 0, currAddr |-> 0, mem |-> HatImage]
i2c_as621x(config) == [kind |-> "as621x", byteCount |-> 0, index |-> 0,
                       dataHi |-> 0, config |-> config]
i2c_lsm9ds1 == [kind |-> "lsm9ds1", regNum |-> 0]

\* The address goes back by a page whenever its page bit is clear.
PageWrap(a) == IF (a \div kPageSize) % 2 = 0 THEN (a - kPageSize) % 65536 ELSE a

hat_id_writeByte(d, b) ==
    LET counted == [d EXCEPT !.byteCount = (@ + 1) % 256]
    IN  CASE d.byteCount = 0 -> [counted EXCEPT !.currAddr = b * 256]
          [] d.byteCount = 1 -> [counted EXCEPT !.currAddr = (@ \div 256) * 256 + b]
          [] OTHER -> [counted EXCEPT !.mem[d.currAddr % kMemSize] = b,
                                      !.currAddr = PageWrap((@ + 1) % 65536)]

hat_id_readByte(d) ==
    [dev |-> [d EXCEPT !.currAddr = (@ + 1) % 65536], byte |-> d.mem[d.currAddr % kMemSize]]

\* tlow and thigh, which no program of the repository touches, are left out.
as621x_writeByte(d, b) ==
    LET counted == [d EXCEPT !.byteCount = (@ + 1) % 256]
    IN  CASE d.byteCount = 0 -> [counted EXCEPT !.index = b % 4]
          [] d.byteCount = 1 -> [counted EXCEPT !.dataHi = b]
          [] d.byteCount = 2 /\ d.index = 1 -> [counted EXCEPT !.config = d.dataHi * 256 + b]
          [] OTHER -> counted

\* noise is what rand() adds to the temperature, which is generated anew for
\* every byte.
as621x_readByte(d, noise) ==
    LET val == IF d.index = 1 THEN d.config ELSE 3072 + noise
        odd == d.byteCount % 2 = 1
    IN  [dev  |-> [d EXCEPT !.byteCount = IF odd THEN @ - 1 ELSE @ + 1],
         byte |-> IF odd THEN val % 256 ELSE val \div 256]

lsm9ds1_readByte(d, addr) ==
    [dev  |-> d,
     byte |-> CASE d.regNum = 15 /\ addr = 106 -> 104      \* 0x6a: 0x68
                [] d.regNum = 15 /\ addr = 28  -> 61       \* 0x1c: 0x3d
                [] OTHER -> 255]

writeByte(d, b) == CASE d.kind = "hat_id"  -> hat_id_writeByte(d, b)
                     [] d.kind = "as621x"  -> as621x_writeByte(d, b)
                     [] d.kind = "lsm9ds1" -> [d EXCEPT !.regNum = b]

readByte(d, addr, noise) == CASE d.kind = "hat_id"  -> hat_id_readByte(d)
                              [] d.kind = "as621x"  -> as621x_readByte(d, noise)
                              [] d.kind = "lsm9ds1" -> lsm9ds1_readByte(d, addr)

BusIds == {"i2c_rpi0", "i2c_rpi1", "i2c1", "unpopulated"}
i2cdpi_create(id, config) ==
    CASE id = "i2c_rpi0" -> [a \in {80} |-> i2c_hat_id]             \* 0x50
      [] id = "i2c_rpi1" -> [a \in {106, 28} |-> i2c_lsm9ds1]       \* 0x6a, 0x1c
      [] id = "i2c1"     -> [a \in {72} |-> i2c_as621x(config)]     \* 0x48
      [] OTHER           -> [a \in {} |-> i2c_lsm9ds1]

find_device(devs, addr) == IF addr \in DOMAIN devs THEN addr ELSE NoDevice

(***************************************************************************)
(* The decoder.                                                            *)
(***************************************************************************)
BusStates == {"Idle", "Addr", "GotAddr", "SendAckNak", "Data", "GotData",
              "SentData", "GotAckNak"}

\* What the constructor leaves and under_reset sets; the bytes of currByte
\* survive a reset, and eight of its bits are shifted out before it is used.
under_reset(bus) ==
    [bus EXCEPT !.state = "Idle", !.numBits = 0, !.currDevice = NoDevice,
                !.reading = FALSE, !.sendAck = TRUE, !.prev_rst = TRUE,
                !.prev_scl = TRUE, !.prev_sda = TRUE]
NewBus == [state |-> "Idle", numBits |-> 0, currByte |-> 0, currDevice |-> NoDevice,
           reading |-> FALSE, sendAck |-> TRUE, prev_rst |-> TRUE,
           prev_scl |-> TRUE, prev_sda |-> TRUE, heard |-> <<>>]

ShiftIn(byte, sda) == (byte * 2 + IF sda THEN 1 ELSE 0) % 256
Reply(bus, devs, sda_out) == [bus |-> bus, devs |-> devs, sda_out |-> sda_out]

\* The addressed device supplies the next byte to send.
Fetch(bus, devs, noise) ==
    LET r == readByte(devs[bus.currDevice], bus.currDevice, noise)
    IN  [bus  |-> [bus EXCEPT !.currByte = r.byte],
         devs |-> [devs EXCEPT ![bus.currDevice] = r.dev]]

decode_Idle(bus, devs, sda) ==
    IF bus.prev_sda /\ ~sda
    THEN Reply([bus EXCEPT !.state = "Addr", !.numBits = 0],
               [a \in DOMAIN devs |-> startCond(devs[a])], TRUE)
    ELSE Reply(bus, devs, TRUE)

\* The address byte is complete.
Addressed(bus, devs, byte, noise) ==
    LET addr == byte \div 2
        b == [bus EXCEPT !.currByte = byte, !.numBits = 0, !.state = "GotAddr",
                         !.reading = (byte % 2 = 1), !.heard = <<>>,
                         !.currDevice = find_device(devs, addr),
                         !.sendAck = (find_device(devs, addr) # NoDevice)]
    IN  IF b.sendAck /\ b.reading THEN Fetch(b, devs, noise)
                                  ELSE [bus |-> b, devs |-> devs]

decode_Addr(bus, devs, scl, sda, noise) ==
    LET byte == ShiftIn(bus.currByte, sda)
        full == Addressed(bus, devs, byte, noise)
    IN  IF bus.prev_scl \/ ~scl THEN Reply(bus, devs, TRUE)
        ELSE IF bus.numBits + 1 < 8
        THEN Reply([bus EXCEPT !.currByte = byte, !.numBits = @ + 1], devs, TRUE)
        ELSE Reply(full.bus, full.devs, TRUE)

decode_Got(bus, devs, scl) ==
    IF bus.prev_scl /\ ~scl THEN Reply([bus EXCEPT !.state = "SendAckNak"], devs, ~bus.sendAck)
                            ELSE Reply(bus, devs, TRUE)

\* A slip: every address is acknowledged.
decode_SendAckNak_always(bus, devs, scl) ==
    Reply(IF bus.prev_scl /\ ~scl THEN [bus EXCEPT !.state = "Data"] ELSE bus, devs, FALSE)
decode_SendAckNak(bus, devs, scl) ==
    Reply(IF bus.prev_scl /\ ~scl THEN [bus EXCEPT !.state = "Data"] ELSE bus,
          devs, bus.currDevice = NoDevice)

decode_SentData(bus, devs, scl, sda, noise) ==
    LET next == IF sda THEN [bus |-> bus, devs |-> devs] ELSE Fetch(bus, devs, noise)
    IN  IF bus.prev_scl \/ ~scl THEN Reply(bus, devs, TRUE)
        ELSE Reply([next.bus EXCEPT !.numBits = 0, !.state = "GotAckNak"], next.devs, TRUE)

decode_GotAckNak(bus, devs, scl) ==
    Reply(IF bus.prev_scl /\ ~scl THEN [bus EXCEPT !.state = "Data"] ELSE bus, devs, TRUE)

\* A slip: the next bit is launched as soon as SCL is high.
SendBit_high(bus, devs, scl) ==
    Reply(IF bus.prev_scl /\ ~scl
          THEN [bus EXCEPT !.numBits = @ + 1,
                           !.state = IF bus.numBits + 1 >= 8 THEN "SentData" ELSE @]
          ELSE IF scl THEN [bus EXCEPT !.currByte = ShiftIn(@, TRUE)] ELSE bus,
          devs, bus.currByte >= 128)
\* A read: the most significant bit is on the line, and is shifted out when
\* SCL falls.
SendBit(bus, devs, scl) ==
    Reply(IF bus.prev_scl /\ ~scl
          THEN [bus EXCEPT !.currByte = ShiftIn(@, TRUE), !.numBits = @ + 1,
                           !.state = IF bus.numBits + 1 >= 8 THEN "SentData" ELSE @]
          ELSE bus, devs, bus.currByte >= 128)

\* A write: a bit is sampled when SCL rises.  (A slip first: the count is not
\* reset at the end of a byte.)
TakeBit_no_reset(bus, devs, scl, sda) ==
    LET byte == ShiftIn(bus.currByte, sda)
    IN  IF bus.prev_scl \/ ~scl THEN Reply(bus, devs, TRUE)
        ELSE IF bus.numBits + 1 < 8
        THEN Reply([bus EXCEPT !.currByte = byte, !.numBits = @ + 1], devs, TRUE)
        ELSE Reply([bus EXCEPT !.currByte = byte, !.sendAck = TRUE,
                               !.state = "GotData", !.heard = Append(@, byte)],
                   [devs EXCEPT ![bus.currDevice] = writeByte(@, byte)], TRUE)
TakeBit(bus, devs, scl, sda) ==
    LET byte == ShiftIn(bus.currByte, sda)
    IN  IF bus.prev_scl \/ ~scl THEN Reply(bus, devs, TRUE)
        ELSE IF bus.numBits + 1 < 8
        THEN Reply([bus EXCEPT !.currByte = byte, !.numBits = @ + 1], devs, TRUE)
        ELSE Reply([bus EXCEPT !.currByte = byte, !.numBits = 0, !.sendAck = TRUE,
                               !.state = "GotData", !.heard = Append(@, byte)],
                   [devs EXCEPT ![bus.currDevice] = writeByte(@, byte)], TRUE)

decode_Data(bus, devs, scl, sda) ==
    CASE scl /\ ~bus.prev_sda /\ sda ->
            Reply([bus EXCEPT !.currDevice = NoDevice, !.state = "Idle"], devs, TRUE)
      [] scl /\ bus.prev_sda /\ ~sda ->
            Reply([bus EXCEPT !.currDevice = NoDevice, !.state = "Addr", !.numBits = 0],
                  devs, TRUE)
      [] OTHER ->
            IF bus.currDevice = NoDevice THEN Reply(bus, devs, TRUE)
            ELSE IF bus.reading THEN SendBit(bus, devs, scl)
            ELSE TakeBit(bus, devs, scl, sda)

decode(bus0, devs0, scl, sda, noise) ==
    LET bus == [bus0 EXCEPT !.prev_rst = FALSE]
        devs == IF bus0.prev_rst THEN [a \in DOMAIN devs0 |-> busReset(devs0[a])] ELSE devs0
        r == CASE bus.state = "Idle" -> decode_Idle(bus, devs, sda)
               [] bus.state = "Addr" -> decode_Addr(bus, devs, scl, sda, noise)
               [] bus.state \in {"GotAddr", "GotData"} -> decode_Got(bus, devs, scl)
               [] bus.state = "SendAckNak" -> decode_SendAckNak(bus, devs, scl)
               [] bus.state = "SentData" -> decode_SentData(bus, devs, scl, sda, noise)
               [] bus.state = "GotAckNak" -> decode_GotAckNak(bus, devs, scl)
               [] bus.state = "Data" -> decode_Data(bus, devs, scl, sda)
    IN  [r EXCEPT !.bus.prev_scl = scl, !.bus.prev_sda = sda]

=============================================================================
