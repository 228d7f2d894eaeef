------------------------------- MODULE Microsd -------------------------------
(***************************************************************************)
(* A microSD card on a SPI bus, as a device that is given a byte and       *)
(* offers a byte.  A card of kind "sim" is spi_microsd of the simulation,  *)
(* which supports transfers of single blocks; one of kind "real" (external)*)
(* also has the commands for several blocks, checks the CRC of write data, *)
(* needs time to get ready and leaves the line high when it is silent.     *)
(* The card is a record, its operations are functions of it.               *)
(***************************************************************************)
EXTENDS Integers, Sequences, FiniteSets, SequencesExt, Bitwise

CONSTANTS BlockLen,     \* bytes in a block, 512 in the source
          NumBlocks     \* blocks of the medium

Byte == 0 .. 255
Block == [1 .. BlockLen -> Byte]

GO_IDLE_STATE == 0
SEND_IF_COND == 8
SEND_CID == 10
STOP_TRANSMISSION == 12
SET_BLOCKLEN == 16
READ_SINGLE_BLOCK == 17
READ_MULTIPLE_BLOCK == 18
WRITE_SINGLE_BLOCK == 24
WRITE_MULTIPLE_BLOCK == 25
SD_SEND_OP_COND == 41
APP_CMD == 55
READ_OCR == 58
CRC_ON_OFF == 59

-----------------------------------------------------------------------------
(* Checksums *)

\* One round for each bit of a byte, most significant first.
CrcByte(crc, d, w, poly) ==
    LET round[b \in 0 .. 8, c \in Nat] ==
          IF b = 0 THEN c
          ELSE round[b - 1, ((2 * c) % 2^w) ^^
                            (IF c \div 2^(w - 1) # (d \div 2^(b - 1)) % 2 THEN poly ELSE 0)]
    IN  round[8, crc]
Crc(crc, data, w, poly) ==
    LET from[i \in 1 .. Len(data) + 1, c \in Nat] ==
          IF i > Len(data) THEN c ELSE from[i + 1, CrcByte(c, data[i], w, poly)]
    IN  from[1, crc]
update_crc16(crc, data) == Crc(crc, data, 16, 4129)
\* The CRC7 is held in the upper bits of a byte whose lowest bit is 1.
update_crc7(crc, data) == Crc(crc, data, 8, 18) + 1

-----------------------------------------------------------------------------
Medium == [0 .. NumBlocks - 1 -> Block]

\* reset()
CardReset(kind, medium) ==
    [kind |-> kind, medium |-> medium, cmd |-> <<>>, code |-> 0, rsp |-> <<>>,
     reading |-> FALSE, readState |-> "DataBytes", readBytes |-> 0, readCrc16 |-> 0,
     writing |-> FALSE, writeState |-> "StartToken", writeBuf |-> <<>>, crcOk |-> TRUE,
     pos |-> 0,                              \* byte position in the image file
     cid |-> LET id == <<112, 108, 82>> IN Append(id, update_crc7(0, id)),
     ready |-> kind = "sim",                 \* has left its idle state
     started |-> <<>>]                       \* for the properties: the last command

\* csChanged(): a command or an answer is abandoned, a write is not.
csChanged(c) == [c EXCEPT !.cmd = <<>>, !.rsp = <<>>, !.reading = FALSE]

sendResponse(c, bytes) == [c EXCEPT !.rsp = bytes]

\* fseek() to a block of the image.
Seek(c, block) == [c EXCEPT !.pos = block * BlockLen]

StartReading(c) == [c EXCEPT !.reading = TRUE, !.readState = "CmdStatus", !.readBytes = 0]
StartWriting(c) == [c EXCEPT !.writing = TRUE, !.writeState = "StartToken", !.writeBuf = <<>>]

\* startCommand() of the simulated card; a real one differs in what it answers
\* to a write and in ending a transmission.
startCommand(c, code, address) ==
    LET real == c.kind = "real"
    IN  CASE code = GO_IDLE_STATE -> sendResponse(c, <<1>>)
          [] code \in {SEND_IF_COND, READ_OCR} -> sendResponse(c, <<0, 0, 0, 0, 0>>)
          [] code = SEND_CID -> StartReading(sendResponse(c, <<0, 254>>))
          [] code = STOP_TRANSMISSION ->
                IF real THEN sendResponse([c EXCEPT !.reading = FALSE], <<255, 0, 0, 255>>) ELSE c
          [] code \in {READ_SINGLE_BLOCK, READ_MULTIPLE_BLOCK} ->
                StartReading(sendResponse(Seek(c, address), <<0, 254>>))
          [] code \in {WRITE_SINGLE_BLOCK, WRITE_MULTIPLE_BLOCK} ->
                StartWriting(sendResponse(Seek(c, address), IF real THEN <<0>> ELSE <<254>>))
          [] code = SD_SEND_OP_COND ->
                sendResponse([c EXCEPT !.ready = TRUE], <<IF c.ready THEN 0 ELSE 1>>)
          [] code \in {SET_BLOCKLEN, APP_CMD} -> sendResponse(c, <<0>>)
          [] OTHER -> sendResponse(c, <<5>>)

\* The bytes that follow the first of a command, collected; the last is the CRC.
TakeCommand(c, b) ==
    CASE c.cmd = <<>> -> IF b \in 64 .. 127 THEN [c EXCEPT !.cmd = <<b>>] ELSE c
      [] Len(c.cmd) \in 1 .. 4 -> [c EXCEPT !.cmd = Append(@, b)]
      [] OTHER ->
            LET code == c.cmd[1] - 64
                address == c.cmd[2] * 2^24 + c.cmd[3] * 2^16 + c.cmd[4] * 2^8 + c.cmd[5]
            IN  startCommand([c EXCEPT !.cmd = <<>>, !.code = code,
                                       !.started = Append(c.cmd, b)],
                             code, address)

\* The block is accepted, then the card is busy.
Written(c) ==
    LET ok == c.kind = "real" => c.crcOk
        b == c.pos \div BlockLen
        busy == <<0, 0, 0, 0, 0, 0, 1>>
        d == [sendResponse(c, <<IF ok THEN 229 ELSE 235>> \o busy) EXCEPT
                !.writing = c.kind = "real" /\ c.code = WRITE_MULTIPLE_BLOCK,
                !.writeState = "StartToken", !.writeBuf = <<>>]
    IN  IF ok /\ b < NumBlocks
        THEN [d EXCEPT !.medium[b] = c.writeBuf, !.pos = @ + BlockLen] ELSE d

\* writeByte() while a block is being written.
TakeData(c, b) ==
    LET crc == update_crc16(0, c.writeBuf)
        multi == c.kind = "real" /\ c.code = WRITE_MULTIPLE_BLOCK
    IN  CASE c.writeState = "StartToken" ->
               IF b = (IF multi THEN 252 ELSE 254) THEN [c EXCEPT !.writeState = "DataBytes"]
               ELSE IF multi /\ b = 253 THEN sendResponse([c EXCEPT !.writing = FALSE], <<255, 0, 0, 255>>)
               ELSE c
          [] c.writeState = "DataBytes" ->
               [c EXCEPT !.writeBuf = Append(@, b),
                         !.writeState = IF Len(c.writeBuf) + 1 >= BlockLen THEN "CRC0" ELSE @]
          [] c.writeState = "CRC0" ->
               [c EXCEPT !.crcOk = b = crc \div 256, !.writeState = "CRC1"]
          [] OTHER -> Written([c EXCEPT !.crcOk = @ /\ b = crc % 256])

\* Mutant: a write under way does not keep the bytes from the command parser.
writeByte_parses(c, b) == IF c.writing /\ b \notin 64 .. 127 THEN TakeData(c, b) ELSE TakeCommand(c, b)
writeByte(c, b) == IF c.writing THEN TakeData(c, b) ELSE TakeCommand(c, b)

\* fgetc(): past the end of the image it is EOF.
MediumByte(c) == IF c.pos \div BlockLen < NumBlocks
                 THEN c.medium[c.pos \div BlockLen][(c.pos % BlockLen) + 1] ELSE 255

\* One byte of the data of a read.
ReadData(c) ==
    CASE c.code = SEND_CID ->
           LET b == c.cid[c.readBytes + 1]
           IN  [out |-> b, card |-> [c EXCEPT !.readCrc16 = update_crc16(@, <<b>>),
                  !.readBytes = @ + 1,
                  !.readState = IF c.readBytes + 1 >= Len(c.cid) THEN "CRC0" ELSE @]]
      [] c.code \in {READ_SINGLE_BLOCK, READ_MULTIPLE_BLOCK} ->
           LET b == MediumByte(c)
           IN  [out |-> b, card |-> [c EXCEPT !.readCrc16 = update_crc16(@, <<b>>),
                  !.readBytes = @ + 1, !.pos = @ + 1,
                  !.readState = IF (c.readBytes + 1) % BlockLen = 0 THEN "CRC0" ELSE @]]
      [] OTHER -> [out |-> 0, card |-> c]

\* Mutant: the CRC goes on from one block to the next.
ReadStart_no_seed(c) == [c EXCEPT !.readState = "DataBytes"]
\* The data follow the response; the CRC is seeded with zeros.
ReadStart(c) == [c EXCEPT !.readState = "DataBytes", !.readCrc16 = 0]

\* After a block, a real card that reads several offers the next one.
NextBlock(c) ==
    IF c.kind = "real" /\ c.code = READ_MULTIPLE_BLOCK
    THEN [sendResponse(c, <<255, 254>>) EXCEPT !.readBytes = 0, !.readState = "CmdStatus"]
    ELSE [c EXCEPT !.readBytes = 0, !.readState = "DataBytes"]

\* readByte(): the byte offered, and the card after it.  With nothing to say
\* the simulated card repeats a cleared shift register.
readByte(c) ==
    LET d == IF c.reading /\ c.readState = "CmdStatus" THEN ReadStart(c) ELSE c
    IN  CASE c.rsp # <<>> -> [out |-> Head(c.rsp), card |-> [c EXCEPT !.rsp = Tail(@)]]
          [] c.rsp = <<>> /\ ~c.reading -> [out |-> IF c.kind = "real" THEN 255 ELSE 0, card |-> c]
          [] c.rsp = <<>> /\ c.reading /\ d.readState = "DataBytes" -> ReadData(d)
          [] c.rsp = <<>> /\ c.reading /\ d.readState = "CRC0" ->
               [out |-> d.readCrc16 \div 256, card |-> [d EXCEPT !.readState = "CRC1"]]
          [] OTHER -> [out |-> d.readCrc16 % 256, card |-> NextBlock(d)]
=============================================================================
