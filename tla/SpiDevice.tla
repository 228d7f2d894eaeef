------------------------------ MODULE SpiDevice ------------------------------
(***************************************************************************)
(* spidevicedpi: the simulated device at the other end of the bus.  It     *)
(* samples COPI at rising edges of SCK and launches CIPO at falling ones,  *)
(* most significant bit first.  In the manner of spi_flash it takes a      *)
(* byte as its command and then answers until it is deselected; what it    *)
(* answers is left open.                                                   *)
(***************************************************************************)
EXTENDS Integers, Sequences

CONSTANTS
    ByteBits,
    AnswerBytes,    \* bytes that the device may answer
    MaxFrames       \* bound: bytes exchanged in a behaviour

VARIABLES
    dev,
    received,       \* for the properties: the bytes that writeByte was given
    answers         \* for the properties: per byte received or to come, the
                    \* byte that readByte chose to send at the same time

devVars == <<dev, received, answers>>

Bits(n) == [1..n -> {0, 1}]

DevType ==
    [inBits : 0..ByteBits - 1, inByte : UNION {Bits(n) : n \in 0..ByteBits - 1},
     outBits : 0..ByteBits - 1, outByte : UNION {Bits(n) : n \in 0..ByteBits - 1},
     cipo : {0, 1}, bReading : BOOLEAN]

DevInit ==
    /\ dev = [inBits |-> 0, inByte |-> <<>>, outBits |-> 0, outByte |-> <<>>,
              cipo |-> 0, bReading |-> FALSE]
    /\ received = <<>>
    /\ answers = [f \in 1..MaxFrames + 1 |-> <<>>]

(* csChanged: deselection ends an answer, but not the byte under way.      *)
CsEdge(level) == [dev EXCEPT !.bReading = @ /\ level = 0]

(* sampleEdge: the last bit completes a byte, which writeByte takes.       *)
SampleEdge(d, copi) ==
    LET b == Append(d.inByte, copi)
    IN  IF d.inBits + 1 >= ByteBits
        THEN /\ received' = Append(received, b)
             /\ dev' = [d EXCEPT !.inBits = 0, !.inByte = <<>>, !.bReading = TRUE]
             /\ UNCHANGED answers
        ELSE /\ dev' = [d EXCEPT !.inBits = @ + 1, !.inByte = b]
             /\ UNCHANGED <<received, answers>>

(* launchEdge: asks readByte for a byte when none is left.  A device that   *)
(* is not answering is asked again for every bit.                          *)
Launched(d, b, n) == [d EXCEPT !.cipo = b[1], !.outByte = Tail(b), !.outBits = n - 1]

LaunchEdge(d) ==
    /\ UNCHANGED received
    /\ \/ d.outBits > 0 /\ dev' = Launched(d, d.outByte, d.outBits) /\ UNCHANGED answers
       \/ d.outBits = 0 /\ ~d.bReading /\ dev' = Launched(d, <<0>>, 1) /\ UNCHANGED answers
       \/ /\ d.outBits = 0 /\ d.bReading
          /\ \E b \in AnswerBytes :
                /\ dev' = Launched(d, b, ByteBits)
                /\ answers' = [answers EXCEPT ![Len(received) + 1] = b]

(* What the device sees of a cycle in which SCK goes from sck to sck_d and  *)
(* CS from level to level_d.  Edges of SCK are ignored with CS high, but   *)
(* for the end of the byte being launched.                                 *)
DevStep(sck, sck_d, copi, level, level_d) ==
    LET d == IF level_d # level THEN CsEdge(level_d) ELSE dev
    IN  \/ /\ sck_d >= sck /\ (sck_d > sck => level_d # 0)
           /\ dev' = d /\ UNCHANGED <<received, answers>>
        \/ sck_d > sck /\ level_d = 0 /\ SampleEdge(d, copi)
        \/ sck_d < sck /\ level_d = 0 /\ LaunchEdge(d)
        \/ /\ sck_d < sck /\ level_d # 0
           /\ dev' = [d EXCEPT !.outBits = 0, !.outByte = <<>>, !.cipo = 1]
           /\ UNCHANGED <<received, answers>>
=============================================================================
