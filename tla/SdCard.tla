------------------------------- MODULE SdCard -------------------------------
(***************************************************************************)
(* The driver SdCard of sdcard-utils.hh and a card.  A function of the     *)
(* driver is the sequence of what it does on the bus: chip select, bytes   *)
(* out, bytes in and tests on them; prog is what is left of the function   *)
(* being called.  Every byte out is a byte in, and the byte that comes in  *)
(* was offered by the card before it saw the byte that goes out.  A fault  *)
(* flips a bit of the data or of the checksum of a block on the wire.      *)
(***************************************************************************)
EXTENDS Microsd

CONSTANTS Data,         \* blocks that are written
          Fill,         \* the block the medium starts with
          MaxCalls,     \* bound: calls after init()
          MaxFaults,    \* bound: bits flipped on the wire
          FaultyMulti   \* whether faults also hit transfers of several blocks

VARIABLES card, out,          \* the card and the byte it offers
          cs,                 \* the card is selected
          prog, call,         \* the function being called, what is left of it
          buf, crc16, ok,     \* its locals
          calls, faults,
          sent, before        \* for the properties: the last command sent, and the
                              \* medium when the function was called
vars == <<card, out, cs, prog, call, buf, crc16, ok, calls, faults, sent, before>>

-----------------------------------------------------------------------------
calc_crc7(data) == Crc(0, data, 8, 18) \div 2
calc_crc16(data) == Crc(0, data, 16, 4129)

(* The steps *)
select_card(on) == <<[op |-> "select", on |-> on]>>
blocking_write(bytes) == <<[op |-> "out", bytes |-> bytes]>>
\* get_response_R1(); again is what precedes it in a loop that ends with a
\* response in accept.
R1_until(accept, again) == <<[op |-> "R1", accept |-> accept, again |-> again]>>
get_response_R1 == R1_until(0 .. 127, <<>>)
wait_not_busy == <<[op |-> "not_busy"]>>
get_response_R1b == get_response_R1 \o wait_not_busy
read_card_data(n) == <<[op |-> "in", n |-> n]>>
get_response_R3 == get_response_R1 \o <<[op |-> "skip", n |-> 4]>>
\* get_data_response_busy(); fail is done when the data were not accepted.
get_data_response_busy(fail) == <<[op |-> "data_response", fail |-> fail]>>

\* The card is deselected at once on a mismatch, then fail is done.
collected_data(n, fail) ==
    <<[op |-> "token"]>> \o read_card_data(n) \o <<[op |-> "crc"]>> \o <<[op |-> "crc"]>>
    \o <<[op |-> "check", n |-> n, fail |-> select_card(FALSE) \o fail]>>

\* Mutant: the CRC7 is not shifted into the upper bits.
command_unshifted(code, arg) ==
    LET cmd == <<64 + code, arg \div 2^24, (arg \div 2^16) % 256, (arg \div 2^8) % 256, arg % 256>>
    IN  Append(cmd, calc_crc7(cmd))
command(code, arg) ==
    LET cmd == <<64 + code, arg \div 2^24, (arg \div 2^16) % 256, (arg \div 2^8) % 256, arg % 256>>
    IN  Append(cmd, 1 + 2 * calc_crc7(cmd))
\* A byte of ones goes first.
send_command(code, arg) ==
    blocking_write(<<255>>) \o <<[op |-> "send", bytes |-> command(code, arg)]>>

(* The functions *)
init ==
    LET go_idle == send_command(GO_IDLE_STATE, 0)
        op_cond == send_command(APP_CMD, 0) \o get_response_R1 \o send_command(SD_SEND_OP_COND, 2^30)
    IN  blocking_write([i \in 1 .. 10 |-> 255]) \o select_card(TRUE)
        \o go_idle \o R1_until({1}, go_idle)
        \o send_command(SEND_IF_COND, 426) \o get_response_R3
        \o send_command(CRC_ON_OFF, 1) \o get_response_R1
        \o send_command(READ_OCR, 0) \o get_response_R3
        \o op_cond \o R1_until({r \in 0 .. 127 : r % 2 = 0}, op_cond)
        \o send_command(READ_OCR, 0) \o get_response_R3
        \o send_command(SET_BLOCKLEN, BlockLen) \o get_response_R1
        \o select_card(FALSE)

read_cid(n) ==
    select_card(TRUE) \o send_command(SEND_CID, 0) \o get_response_R1
    \o collected_data(n, select_card(FALSE)) \o select_card(FALSE)

read_blocks(block, num) ==
    LET multi == num > 1
        end == (IF multi THEN send_command(STOP_TRANSMISSION, 0) \o get_response_R1b ELSE <<>>)
               \o select_card(FALSE)
        cmd(blk) == CASE ~multi -> send_command(READ_SINGLE_BLOCK, block + blk) \o get_response_R1
                      [] multi /\ blk = 0 -> send_command(READ_MULTIPLE_BLOCK, block) \o get_response_R1
                      [] OTHER -> <<>>
    IN  select_card(TRUE)
        \o FlattenSeq([b \in 1 .. num |-> cmd(b - 1) \o collected_data(BlockLen, end)])
        \o end

write_blocks(block, data) ==
    LET multi == Len(data) > 1
        end == (IF multi THEN blocking_write(<<253>>) \o <<[op |-> "busy"]>> \o wait_not_busy ELSE <<>>)
               \o select_card(FALSE)
        cmd(blk) == CASE ~multi -> send_command(WRITE_SINGLE_BLOCK, block + blk) \o get_response_R1
                      [] multi /\ blk = 0 -> send_command(WRITE_MULTIPLE_BLOCK, block) \o get_response_R1
                      [] OTHER -> <<>>
        crc(b) == calc_crc16(data[b])
    IN  select_card(TRUE)
        \o FlattenSeq([b \in 1 .. Len(data) |->
                          cmd(b - 1) \o blocking_write(<<IF multi THEN 252 ELSE 254>>)
                          \o <<[op |-> "block", bytes |-> data[b] \o <<crc(b) \div 256, crc(b) % 256>>]>>
                          \o get_data_response_busy(end)])
        \o end

-----------------------------------------------------------------------------
(* Steps on the bus *)

step == Head(prog)
Doing(op) == prog # <<>> /\ step.op = op
Goto(p) == prog' = p
Done == Goto(Tail(prog))
\* What is left of a step that is repeated n times, or that sends bytes.
Rest == IF Len(step.bytes) = 1 THEN Done ELSE Goto(<<[step EXCEPT !.bytes = Tail(@)]>> \o Tail(prog))
Count == IF step.n = 1 THEN Done ELSE Goto(<<[step EXCEPT !.n = @ - 1]>> \o Tail(prog))

\* A byte goes to the card and the card makes its next one ready.  A card that
\* is not selected hears nothing, and the line is high.
Exchange(b) ==
    IF cs THEN \E c \in {writeByte(card, b)} : \E r \in {readByte(c)} :
                  card' = r.card /\ out' = r.out
    ELSE card' = card /\ out' = 255
Quiet == UNCHANGED <<cs, call, buf, crc16, ok, calls, faults, sent, before>>

Flip(b) == IF b % 2 = 0 THEN b + 1 ELSE b - 1
MayFault == faults < MaxFaults /\ (call.num > 1 => FaultyMulti)
\* The byte that was sent or offered, or one with a bit flipped.
Wire(b) == {b} \cup (IF MayFault THEN {Flip(b)} ELSE {})
Faulted(b, w) == faults' = IF w = b THEN faults ELSE faults + 1

Select ==
    /\ Doing("select")
    /\ cs' = step.on
    /\ card' = IF cs = step.on THEN card ELSE csChanged(card)
    /\ Done
    /\ UNCHANGED <<out, call, buf, crc16, ok, calls, faults, sent, before>>
Out == Doing("out") /\ Exchange(Head(step.bytes)) /\ Rest /\ Quiet
Send ==
    /\ Doing("send")
    /\ Exchange(Head(step.bytes)) /\ Rest
    /\ sent' = IF Len(step.bytes) = 6 THEN step.bytes ELSE sent
    /\ UNCHANGED <<cs, call, buf, crc16, ok, calls, faults, before>>
BlockOut ==
    /\ Doing("block")
    /\ \E w \in Wire(Head(step.bytes)) :
         Exchange(w) /\ Faulted(Head(step.bytes), w)
    /\ Rest
    /\ UNCHANGED <<cs, call, buf, crc16, ok, calls, sent, before>>
R1 ==
    /\ Doing("R1")
    /\ Exchange(255)
    /\ CASE out > 127 -> Goto(prog)
         [] out \in step.accept -> Done
         [] OTHER -> Goto(step.again \o prog)
    /\ Quiet
Skip == Doing("skip") /\ Exchange(255) /\ Count /\ Quiet
\* Loops that read bytes until one is as awaited.
Until(p) == Exchange(255) /\ (IF p THEN Done ELSE Goto(prog)) /\ Quiet
Token == Doing("token") /\ Until(out = 254)
Busy == Doing("busy") /\ Until(out = 0)
NotBusy == Doing("not_busy") /\ Until(out # 0)
BlockIn ==
    /\ Doing("in")
    /\ \E w \in Wire(out) : buf' = Append(buf, w) /\ Faulted(out, w)
    /\ Exchange(255) /\ Count
    /\ crc16' = <<>>
    /\ UNCHANGED <<cs, call, ok, calls, sent, before>>
CrcIn ==
    /\ Doing("crc")
    /\ \E w \in Wire(out) : crc16' = Append(crc16, w) /\ Faulted(out, w)
    /\ Exchange(255) /\ Done
    /\ UNCHANGED <<cs, call, buf, ok, calls, sent, before>>
Check ==
    /\ Doing("check")
    /\ IF crc16[1] * 256 + crc16[2] = calc_crc16(SubSeq(buf, Len(buf) - step.n + 1, Len(buf)))
       THEN Done /\ UNCHANGED ok
       ELSE ok' = FALSE /\ Goto(step.fail)
    /\ UNCHANGED <<card, out, cs, call, buf, crc16, calls, faults, sent, before>>
\* Mutant: only an acceptance is taken for a response.
DataResponse_accepted ==
    /\ Doing("data_response")
    /\ Exchange(255)
    /\ IF out % 32 = 5 THEN Goto(wait_not_busy \o Tail(prog)) ELSE Goto(prog)
    /\ UNCHANGED <<cs, call, buf, crc16, ok, calls, faults, sent, before>>
\* The response is looked for by two of its bits, and accepted by five.
DataResponse ==
    /\ Doing("data_response")
    /\ Exchange(255)
    /\ IF ~(out % 2 = 1 /\ (out \div 16) % 2 = 0) THEN Goto(prog) /\ UNCHANGED ok
       ELSE IF out % 32 = 5 THEN Goto(wait_not_busy \o Tail(prog)) /\ UNCHANGED ok
       ELSE Goto(wait_not_busy \o step.fail) /\ ok' = FALSE
    /\ UNCHANGED <<cs, call, buf, crc16, calls, faults, sent, before>>

DriverStep == \/ Select \/ Out \/ Send \/ BlockOut \/ R1 \/ Skip \/ Token \/ Busy \/ NotBusy
              \/ BlockIn \/ CrcIn \/ Check \/ DataResponse

-----------------------------------------------------------------------------
Call(name, block, num, data, p) ==
    /\ prog = <<>> /\ calls < MaxCalls
    /\ call' = [name |-> name, block |-> block, num |-> num, data |-> data, faults |-> faults]
    /\ prog' = p
    /\ buf' = <<>> /\ crc16' = <<>> /\ ok' = TRUE /\ calls' = calls + 1 /\ before' = card.medium
    /\ UNCHANGED <<card, out, cs, faults, sent>>

\* Several blocks only with a real card.
Sizes == IF card.kind = "real" THEN {1, 2} ELSE {1}
CallRead == \E n \in Sizes, b \in 0 .. NumBlocks - 2 : Call("read", b, n, <<>>, read_blocks(b, n))
CallWrite == \E n \in Sizes, b \in 0 .. NumBlocks - 2 :
                 \E data \in [1 .. n -> Data] : Call("write", b, n, data, write_blocks(b, data))
CallCid == Call("cid", 0, 1, <<>>, read_cid(Len(card.cid)))

Init ==
    /\ \E kind \in {"sim", "real"} :
         card = CardReset(kind, [b \in 0 .. NumBlocks - 1 |-> Fill])
    /\ out = 255 /\ cs = FALSE
    /\ prog = init
    /\ call = [name |-> "init", block |-> 0, num |-> 1, data |-> <<>>, faults |-> 0]
    /\ buf = <<>> /\ crc16 = <<>> /\ ok = TRUE /\ calls = 0 /\ faults = 0
    /\ sent = <<>> /\ before = card.medium

Finished == prog = <<>> /\ calls = MaxCalls /\ UNCHANGED vars
Next == DriverStep \/ CallRead \/ CallWrite \/ CallCid \/ Finished

\* The driver runs to the end of the function it is in.
Spec == Init /\ [][Next]_vars /\ WF_vars(DriverStep)

-----------------------------------------------------------------------------
Returned(name) == prog = <<>> /\ call.name = name
Range2(m, b, n) == FlattenSeq([i \in 1 .. n |-> m[b + i - 1]])

\* A read that returns true has put the blocks of the medium, in order, in the
\* buffer, whatever bit was flipped on the way; a read that met no fault returns
\* true.  So the CRC16 of the driver and the one of the card agree, over several
\* blocks and after a failed read.
ReadReturnsTheMedium ==
    /\ Returned("read") =>
         /\ ok => buf = Range2(card.medium, call.block, call.num)
         /\ faults = call.faults => ok
    /\ Returned("cid") => ((ok => buf = card.cid) /\ (faults = call.faults => ok))

\* A write that returns true has written its blocks, a write that met no fault
\* returns true, and no function changes a block that it was not asked to write.
\* (The simulated card does not act on the CRC of write data.)
WriteReachesTheMedium ==
    LET clean == faults = call.faults
    IN  /\ Returned("write") =>
             /\ clean => ok
             /\ (ok /\ (clean \/ card.kind = "real")) =>
                   \A i \in 1 .. call.num : card.medium[call.block + i - 1] = call.data[i]
        /\ \A b \in 0 .. NumBlocks - 1 :
             (call.name # "write" \/ b \notin call.block .. call.block + call.num - 1) =>
                card.medium[b] = before[b]

\* While the driver waits for a response the card has started the command that
\* was sent, with the checksum that the card computes for it: no byte of data, of
\* an abandoned answer or of a checksum is ever taken for part of a command.
CommandsArriveWhole ==
    Doing("R1") => /\ card.started = sent
                   /\ sent[6] = update_crc7(0, SubSeq(sent, 1, 5))

\* Every function returns: none of the loops that wait for a byte of the card
\* waits for one that does not come.
CallsReturn == (prog # <<>>) ~> (prog = <<>>)
=============================================================================
