---------------------------- MODULE SpiReadProofs ----------------------------
(***************************************************************************)
(* Proof that spi_rx returns what the device answered, on top of the       *)
(* invariant of SpiProofs: the way of a byte from CIPO through cipo_shift  *)
(* and the receive FIFO to data[].                                         *)
(***************************************************************************)
EXTENDS SpiProofs

\* The byte that the device sends while it receives the next one; <<>> while
\* it is not answering.
Answer == answers[Len(received) + 1]

\* The byte b on its way: what CIPO shows, what the device has left of it, and
\* what is in cipo_shift.  It starts with the byte that the device receives, or
\* with the last edge of the transfer before.
UnderWay(b) ==
    /\ IF Mid THEN dev.outBits = sc.bit_count
       ELSE ~active /\ ~cfg.cpha /\ dev.outBits = ByteBits - 1
    /\ dev.cipo = b[ByteBits - dev.outBits]
    /\ \A j \in 1..dev.outBits : dev.outByte[j] = b[ByteBits - dev.outBits + j]
    /\ \A j \in 1..dev.inBits : sc.cipo_shift[ByteBits - dev.inBits + j] = b[j]

AnswerType == [1..MaxFrames + 1 -> Byte \cup {<<>>}]

AnswerInv ==
    /\ cs = 1 => ~dev.bReading
    /\ answers \in AnswerType
    /\ \A g \in 1..MaxFrames + 1 : g > Len(received) + 1 => answers[g] = <<>>
    /\ Answer = <<>> => dev.outBits = 0
    /\ Answer # <<>> => UnderWay(Answer)
    /\ dev.bReading /\ (Mid \/ (~active /\ ~cfg.cpha)) => Answer # <<>>
    /\ sc.data_out_valid =>
          /\ Len(received) > 0
          /\ answers[Len(received)] # <<>> => sc.cipo_shift = answers[Len(received)]

\* What spi_rx has read, and what waits for it in the receive FIFO.
ReadInv ==
    /\ rx_base \in Nat /\ got \in Seq(Byte) /\ rx_base + Len(got) <= Len(received)
    /\ Draining =>
          /\ rx_base + drv.len = Len(expected)
          /\ Len(got) = drv.i
          /\ \A j \in 1..Len(rx_fifo) : answers[rx_base + drv.i + j] # <<>> =>
                rx_fifo[j] = Ordered(answers[rx_base + drv.i + j])
    /\ ReadsReturnWhatWasAnswered

-----------------------------------------------------------------------------
(***************************************************************************)
(* The answers.                                                            *)
(***************************************************************************)

LEMMA ByteIsNotEmpty ==
    ASSUME NEW b \in Byte
    PROVE  b # <<>>
<1>1. ByteBits \in Nat /\ ByteBits # 0
  BY SpiCoreAssumption
<1>2. b \in Seq(Bit) /\ Len(b) = ByteBits
  BY <1>1, FunIsSeq, Zenon DEF Byte
<1>3. Len(b) # 0
  BY <1>1, <1>2, Zenon
<1> QED
  BY <1>3

\* There is an entry for every byte that the device receives.
LEMMA FramesLeft ==
    ASSUME SpiInv, NEW acc, SoftStep(acc), Cycle(acc)
    PROVE  /\ Len(received) \in Nat /\ MaxFrames \in Nat /\ Len(received) <= MaxFrames
           /\ Mid => Len(received) + 1 <= MaxFrames
<1>1. CoreInv /\ DataInv /\ TxInv /\ CallInv
  BY Zenon DEF SpiInv
<1>2. /\ Len(received) \in Nat /\ Len(expected) \in Nat
      /\ Len(received) + MidBytes <= Len(expected)
  BY <1>1, ReceivedSoFar, Zenon
<1>3. Len(expected) <= MaxFrames /\ MaxFrames \in Nat
  BY <1>1, SpiSystemAssumption, Zenon DEF CallInv
<1>4. MidBytes \in {0, 1} /\ (Mid => MidBytes = 1)
  BY Zenon DEF MidBytes
<1> QED
  BY <1>2, <1>3, <1>4

\* The device chooses an answer only at an edge of SCK, and only for the next
\* byte.
LEMMA AnswersKept ==
    ASSUME SpiInv, AnswerInv, NEW acc, SoftStep(acc), Cycle(acc)
    PROVE  /\ answers' \in AnswerType
           /\ \A g \in 1..MaxFrames + 1 : g # Len(received) + 1 => answers'[g] = answers[g]
           /\ cs' = 1 => ~dev'.bReading
<1>1. CoreInv /\ DataInv
  BY Zenon DEF SpiInv
<1>2. CoreInv' /\ cs' \in Bit /\ D!DevStep(sc.clk, sc'.clk, spi_copi_o, cs, cs')
  BY <1>1, CycleCore, Zenon
<1>3. /\ Rising => DevTakesBit
      /\ ~Rising => DevKeepsIn
      /\ ~Rising /\ ~Falling => DevKeepsOut
      /\ Falling /\ cs' = 0 => DevLaunches
      /\ Falling /\ cs' # 0 => DevIgnores
      /\ cs' # cs /\ cs' # 0 => ~dev'.bReading
  BY <1>1, <1>2, DevEffects, Zenon
<1>4. answers' = answers \/ \E b \in AnswerBytes : answers' = [answers EXCEPT ![Len(received) + 1] = b]
  BY <1>3, Zenon DEF DevTakesBit, DevKeepsOut, DevLaunches, DevIgnores
<1>5. /\ answers' \in AnswerType
      /\ \A g \in 1..MaxFrames + 1 : g # Len(received) + 1 => answers'[g] = answers[g]
  <2>1. answers \in AnswerType
    BY Zenon DEF AnswerInv
  <2>2. CASE answers' = answers
    BY <2>1, <2>2, Zenon
  <2>3. CASE answers' # answers
    <3>1. PICK b \in AnswerBytes : answers' = [answers EXCEPT ![Len(received) + 1] = b]
      BY <1>4, <2>3, Zenon
    <3>2. b \in Byte \cup {<<>>}
      BY SpiSystemAssumption, Zenon
    <3> QED
      BY <2>1, <3>1, <3>2, Zenon DEF AnswerType
  <2> QED
    BY <2>2, <2>3
<1>6. cs' = 1 => ~dev'.bReading
  <2>1. SUFFICES ASSUME cs' = 1 PROVE ~dev'.bReading
    OBVIOUS
  <2>2. cs' # 0
    BY <2>1
  <2>3. ~Rising
    BY <2>2, Zenon DEF Rising
  <2> QED
    BY <1>3, <2>1, <2>2, <2>3, Zenon DEF DevKeepsIn, AnswerInv
<1> QED
  BY <1>5, <1>6

\* At the first falling edge of a byte the device asks for an answer.
LEMMA FirstEdge ==
    ASSUME SpiInv, AnswerInv, NEW acc, SoftStep(acc), Cycle(acc),
           Falling, cs' = 0, received' = received, Answer = <<>>
    PROVE  \/ Answer' = <<>> /\ dev'.outBits = 0 /\ ~dev'.bReading
           \/ /\ Answer' \in Byte /\ dev'.outBits = ByteBits - 1 /\ dev'.cipo = Answer'[1]
              /\ \A j \in 1..ByteBits - 1 : dev'.outByte[j] = Answer'[j + 1]
<1>1. CoreInv /\ DataInv
  BY Zenon DEF SpiInv
<1>2. CoreInv' /\ cs' \in Bit /\ D!DevStep(sc.clk, sc'.clk, spi_copi_o, cs, cs')
  BY <1>1, CycleCore, Zenon
<1>3. DevLaunches
  BY <1>1, <1>2, DevEffects, Zenon
<1>4. dev.outBits = 0
  BY Zenon DEF AnswerInv
<1>5. CASE answers' = answers /\ ~dev'.bReading /\ dev'.outBits = 0
  BY <1>5, Zenon DEF Answer
<1>6. CASE \E b \in AnswerBytes :
             /\ answers' = [answers EXCEPT ![Len(received) + 1] = b]
             /\ dev'.outBits = ByteBits - 1 /\ dev'.outByte = Tail(b) /\ dev'.cipo = b[1]
  <2>1. PICK b \in AnswerBytes :
             /\ answers' = [answers EXCEPT ![Len(received) + 1] = b]
             /\ dev'.outBits = ByteBits - 1 /\ dev'.outByte = Tail(b) /\ dev'.cipo = b[1]
    BY <1>6, Zenon
  <2>2. b \in Byte
    BY SpiSystemAssumption, Zenon
  <2>3. Len(received) + 1 \in 1..MaxFrames + 1
    BY FramesLeft
  <2>4. Answer' = b
    BY <2>1, <2>3, Zenon DEF AnswerInv, AnswerType, Answer
  <2>5. ByteBits \in Nat /\ ByteBits > 0
    BY SpiCoreAssumption
  <2>6. \A j \in 1..ByteBits - 1 : Tail(b)[j] = b[j + 1]
    BY <2>2, <2>5, TailBits, Zenon DEF Byte
  <2> QED
    BY <2>1, <2>2, <2>4, <2>6, Zenon
<1>7. ~(dev.outBits > 0)
  BY <1>4
<1> QED
  BY <1>3, <1>5, <1>6, <1>7, Zenon DEF DevLaunches

\* The answer on the wire, in one cycle.
LEMMA AnswerKept ==
    ASSUME SpiInv, AnswerInv, NEW acc, SoftStep(acc), Cycle(acc)
    PROVE  AnswerInv'
<1> DEFINE in == In(acc)
           n == Len(received)
           k == sc.bit_count
           a == Answer
<1>1. CoreInv /\ DataInv /\ TxInv /\ WireInv
  BY Zenon DEF SpiInv
<1>2. /\ Event(in) /\ CoreInv' /\ cfg' = cfg /\ cs' \in Bit
      /\ D!DevStep(sc.clk, sc'.clk, spi_copi_o, cs, cs')
      /\ cs' = IF acc.reg = "CS" THEN acc.level ELSE cs
  BY <1>1, CycleCore, Zenon
<1>3. /\ ~Rising /\ ~Falling => DevKeepsOut
      /\ Falling /\ cs' = 0 => DevLaunches
      /\ Falling /\ cs' # 0 => DevIgnores
  BY <1>1, <1>2, DevEffects, Zenon
<1>4. /\ Samples(in) => Rising /\ DevTakesBit /\ Mid
      /\ ~Samples(in) => ~Rising /\ DevKeepsIn
      /\ Samples(in) => (k = 0 <=> dev.inBits + 1 >= ByteBits)
      /\ Samples(in) => dev.inBits = ByteBits - 1 - k
      /\ received' \in Seq(Byte)
  BY <1>1, CycleDevice, Zenon
<1>5. /\ answers' \in AnswerType
      /\ \A g \in 1..MaxFrames + 1 : g # n + 1 => answers'[g] = answers[g]
      /\ cs' = 1 => ~dev'.bReading
  BY AnswersKept, Zenon
<1>6. /\ n \in Nat /\ MaxFrames \in Nat /\ n <= MaxFrames
      /\ Mid => n + 1 <= MaxFrames
  BY FramesLeft, Zenon
<1>7. /\ k \in Nat /\ k <= ByteBits /\ ByteBits \in Nat /\ ByteBits > 1
      /\ sc.cipo_shift \in Byte
  BY <1>1, CoreFacts, Zenon
<1>8. /\ dev.inBits \in Nat /\ dev.inBits < ByteBits /\ dev.outBits \in Nat /\ dev.cipo \in Bit
  <2>1. dev.inBits \in Nat /\ dev.inBits < ByteBits /\ dev.outBits \in Nat /\ dev.cipo \in {0, 1}
    BY <1>1, DevFacts, Zenon
  <2> QED
    BY <2>1, Zenon DEF Bit
<1>9. /\ a = <<>> => dev.outBits = 0
      /\ a # <<>> => UnderWay(a)
      /\ dev.bReading /\ (Mid \/ (~active /\ ~cfg.cpha)) => a # <<>>
      /\ \A g \in 1..MaxFrames + 1 : g > n + 1 => answers[g] = <<>>
  BY Zenon DEF AnswerInv
<1>10. a \in Byte \cup {<<>>}
  <2>1. n + 1 \in 1..MaxFrames + 1
    BY <1>6
  <2> QED
    BY <2>1, Zenon DEF AnswerInv, AnswerType, Answer
<1>11. \A b \in Byte : b # <<>>
  BY ByteIsNotEmpty, Zenon
<1>12. ~Mid => dev.inBits = 0
  BY <1>1, Zenon DEF WireInv
<1>13. active /\ ~Mid => a = <<>>
  BY <1>9, Zenon DEF UnderWay
<1>14. Owed # 0 => cs' = 0
  <2>1. SUFFICES ASSUME Owed # 0 PROVE cs' = 0
    OBVIOUS
  <2>2. acc.reg # "CS" /\ cs # 1
    BY <1>1, <2>1, Zenon DEF SoftStep, TxInv
  <2> QED
    BY <1>1, <1>2, <2>2 DEF DataInv, Bit
<1>15. /\ Unloaded \in Nat /\ MidBytes \in {0, 1} /\ Owed = Unloaded + MidBytes
       /\ Taken(in) = 1 => Unloaded + Started(in) >= 1
       /\ Started(in) \in Nat
  <2>1. /\ Unloaded \in Nat /\ Unloaded' \in Nat /\ MidBytes \in {0, 1} /\ Started(in) \in Nat
        /\ Unloaded' = Unloaded + Started(in) - Taken(in)
    BY <1>1, CycleCounts, Zenon
  <2>2. Owed = Unloaded + MidBytes
    BY Zenon DEF Owed
  <2>3. Taken(in) = 1 => Unloaded + Started(in) >= 1
    <3> SUFFICES ASSUME Taken(in) = 1 PROVE Unloaded + Started(in) >= 1
      OBVIOUS
    <3> HIDE DEF in
    <3> QED
      BY <2>1
  <2> QED
    BY <2>1, <2>2, <2>3, Zenon
<1> HIDE DEF in, n, k, a
\* The invariant follows from what becomes of the answer.
<1>20. ASSUME received' = received, ~sc'.data_out_valid,
              Answer' = <<>> => dev'.outBits = 0,
              Answer' # <<>> => UnderWay(Answer)',
              dev'.bReading /\ (Mid' \/ (~active' /\ ~cfg.cpha)) => Answer' # <<>>
       PROVE  AnswerInv'
  <2>1. \A g \in 1..MaxFrames + 1 : g > n + 1 => g # n + 1
    BY <1>6
  <2>2. \A g \in 1..MaxFrames + 1 : g > n + 1 => answers'[g] = <<>>
    BY <1>5, <1>9, <2>1, Zenon
  <2> QED
    BY <1>2, <1>5, <1>20, <2>2, Zenon DEF AnswerInv, n
\* The device keeps its output.
<1>21. ASSUME DevKeepsOut, DevKeepsIn, ~sc'.data_out_valid, sc'.cipo_shift = sc.cipo_shift,
              Mid => Mid' /\ sc'.bit_count = sc.bit_count,
              ~Mid /\ ~active /\ ~cfg.cpha =>
                 IF Mid' THEN sc'.bit_count = ByteBits - 1 ELSE ~active',
              ~Mid /\ (active \/ cfg.cpha) => ~Mid' /\ (active' \/ cfg.cpha)
       PROVE  AnswerInv'
  <2>1. /\ received' = received /\ Answer' = a /\ dev'.outBits = dev.outBits
        /\ dev'.outByte = dev.outByte /\ dev'.cipo = dev.cipo /\ dev'.inBits = dev.inBits
        /\ (dev'.bReading => dev.bReading)
    BY <1>21, Zenon DEF DevKeepsOut, DevKeepsIn, Answer, a
  <2>2. a # <<>> => UnderWay(Answer)'
    <3>1. SUFFICES ASSUME a # <<>> PROVE UnderWay(Answer)'
      OBVIOUS
    <3>2. UnderWay(a)
      BY <1>9, <3>1, Zenon
    <3>3. /\ dev'.cipo = Answer'[ByteBits - dev'.outBits]
          /\ \A j \in 1..dev'.outBits : dev'.outByte[j] = Answer'[ByteBits - dev'.outBits + j]
          /\ \A j \in 1..dev'.inBits : sc'.cipo_shift[ByteBits - dev'.inBits + j] = Answer'[j]
      BY <1>21, <2>1, <3>2, Zenon DEF UnderWay
    <3>4. IF Mid' THEN dev'.outBits = sc'.bit_count
          ELSE ~active' /\ ~cfg'.cpha /\ dev'.outBits = ByteBits - 1
      <4>1. CASE Mid
        BY <1>21, <2>1, <3>2, <4>1, Zenon DEF UnderWay
      <4>2. CASE ~Mid
        <5>1. ~active /\ ~cfg.cpha /\ dev.outBits = ByteBits - 1
          BY <3>2, <4>2, Zenon DEF UnderWay
        <5> QED
          BY <1>2, <1>21, <2>1, <4>2, <5>1, Zenon
      <4> QED
        BY <4>1, <4>2
    <3> QED
      BY <3>3, <3>4, Zenon DEF UnderWay
  <2>3. dev'.bReading /\ (Mid' \/ (~active' /\ ~cfg.cpha)) => a # <<>>
    BY <1>9, <1>21, <2>1, Zenon
  <2> QED
    BY <1>9, <1>20, <1>21, <2>1, <2>2, <2>3, Zenon
\* A byte begins, or the last edge of a transfer begins the next one.
<1>22. ASSUME Falling, cs' = 0, DevKeepsIn, a = <<>>, ~Mid, ~sc'.data_out_valid,
              IF Mid' THEN sc'.bit_count = ByteBits - 1 ELSE ~active' /\ ~cfg.cpha
       PROVE  AnswerInv'
  <2>1. received' = received /\ dev'.inBits = 0
    BY <1>12, <1>22, Zenon DEF DevKeepsIn
  <2>2. \/ Answer' = <<>> /\ dev'.outBits = 0 /\ ~dev'.bReading
        \/ /\ Answer' \in Byte /\ dev'.outBits = ByteBits - 1 /\ dev'.cipo = Answer'[1]
           /\ \A j \in 1..ByteBits - 1 : dev'.outByte[j] = Answer'[j + 1]
    BY <1>22, <2>1, FirstEdge, Zenon DEF a
  <2>3. CASE Answer' = <<>> /\ dev'.outBits = 0 /\ ~dev'.bReading
    BY <1>20, <1>22, <2>1, <2>3, Zenon
  <2>4. CASE /\ Answer' \in Byte /\ dev'.outBits = ByteBits - 1 /\ dev'.cipo = Answer'[1]
             /\ \A j \in 1..ByteBits - 1 : dev'.outByte[j] = Answer'[j + 1]
    <3>1. Answer' # <<>>
      BY <1>11, <2>4, Zenon
    <3>2. /\ ByteBits - dev'.outBits = 1
          /\ \A j \in 1..dev'.outBits : ByteBits - dev'.outBits + j = j + 1
      BY <1>7, <2>4
    <3>3. /\ dev'.cipo = Answer'[ByteBits - dev'.outBits]
          /\ \A j \in 1..dev'.outBits : dev'.outByte[j] = Answer'[ByteBits - dev'.outBits + j]
      BY <2>4, <3>2, Zenon
    <3>4. \A j \in 1..dev'.inBits : sc'.cipo_shift[ByteBits - dev'.inBits + j] = Answer'[j]
      BY <2>1
    <3>5. IF Mid' THEN dev'.outBits = sc'.bit_count
          ELSE ~active' /\ ~cfg'.cpha /\ dev'.outBits = ByteBits - 1
      BY <1>2, <1>22, <2>4, Zenon
    <3>6. UnderWay(Answer)'
      BY <3>3, <3>4, <3>5, Zenon DEF UnderWay
    <3> QED
      BY <1>20, <1>22, <2>1, <3>1, <3>6, Zenon
  <2> QED
    BY <2>2, <2>3, <2>4
\* A bit is sampled: cipo_shift has one bit more of the answer.
<1>23. Samples(in) /\ a # <<>> =>
          \A j \in 1..dev.inBits + 1 : sc'.cipo_shift[ByteBits - (dev.inBits + 1) + j] = a[j]
  <2>1. SUFFICES ASSUME Samples(in), a # <<>>, NEW j \in 1..dev.inBits + 1
                 PROVE  sc'.cipo_shift[ByteBits - (dev.inBits + 1) + j] = a[j]
    OBVIOUS
  <2>2. Mid /\ dev.inBits = ByteBits - 1 - k
    BY <1>4, <2>1, Zenon
  <2>3. /\ dev.outBits = k /\ dev.cipo = a[ByteBits - dev.outBits]
        /\ \A i \in 1..dev.inBits : sc.cipo_shift[ByteBits - dev.inBits + i] = a[i]
    BY <1>9, <2>1, <2>2, Zenon DEF UnderWay, k
  <2>4. sc'.cipo_shift = ShiftIn(sc.cipo_shift, dev.cipo)
    <3>1. acc.reg = "START" => acc.byte_count \in 1..ByteCounts - 1
      BY Zenon DEF SoftStep
    <3>2. in.cipo = dev.cipo
      BY <1>1, <3>1, Inputs, Zenon DEF in, In
    <3> QED
      BY <2>1, <3>2, Zenon DEF Samples
  <2> DEFINE m == ByteBits - (dev.inBits + 1) + j
  <2>5. m \in 1..ByteBits
    BY <1>7, <1>8
  <2>6. CASE j = dev.inBits + 1
    <3>1. m = ByteBits /\ ByteBits - dev.outBits = j
      BY <1>7, <1>8, <2>2, <2>3, <2>6
    <3>2. sc'.cipo_shift[m] = dev.cipo
      <4> HIDE DEF m
      <4> QED
        BY <2>4, <2>5, <3>1 DEF ShiftIn
    <3> QED
      BY <2>3, <3>1, <3>2, Zenon
  <2>7. CASE j # dev.inBits + 1
    <3>1. j \in 1..dev.inBits /\ m # ByteBits /\ m + 1 = ByteBits - dev.inBits + j
      BY <1>7, <1>8, <2>7
    <3>2. sc'.cipo_shift[m] = sc.cipo_shift[m + 1]
      <4> HIDE DEF m
      <4> QED
        BY <2>4, <2>5, <3>1 DEF ShiftIn
    <3> QED
      BY <2>3, <3>1, <3>2, Zenon
  <2> QED
    BY <2>6, <2>7
<1>24. CASE Samples(in) /\ k # 0
  <2>1. DevTakesBit /\ Mid /\ ~(dev.inBits + 1 >= ByteBits) /\ dev.inBits = ByteBits - 1 - k
    BY <1>4, <1>24, Zenon
  <2>2. /\ received' = received /\ dev'.inBits = dev.inBits + 1 /\ answers' = answers
        /\ dev'.outBits = dev.outBits /\ dev'.outByte = dev.outByte /\ dev'.cipo = dev.cipo
        /\ (dev'.bReading => dev.bReading)
    BY <2>1, Zenon DEF DevTakesBit
  <2>3. Answer' = a
    BY <2>2, Zenon DEF Answer, a
  <2>4. /\ sc'.sample_phase /\ sc'.bit_count = k /\ sc'.state = "ACTIVE" /\ ~sc'.data_out_valid
    BY <1>24, Zenon DEF Samples, SameBits, k
  <2>5. Mid'
    <3>1. k # ByteBits
      BY <1>7, <1>8, <2>1
    <3> QED
      BY <1>24, <2>4, <3>1, Zenon DEF Mid, active
  <2>6. a # <<>> => UnderWay(Answer)'
    <3>1. SUFFICES ASSUME a # <<>> PROVE UnderWay(Answer)'
      OBVIOUS
    <3>2. UnderWay(a)
      BY <1>9, <3>1, Zenon
    <3>3. \A j \in 1..dev'.inBits : sc'.cipo_shift[ByteBits - dev'.inBits + j] = Answer'[j]
      BY <1>23, <1>24, <2>2, <2>3, <3>1, Zenon
    <3> QED
      BY <2>1, <2>2, <2>3, <2>4, <2>5, <3>2, <3>3, Zenon DEF UnderWay, k
  <2> QED
    BY <1>9, <1>20, <2>1, <2>2, <2>3, <2>4, <2>6, Zenon
<1>25. CASE Samples(in) /\ k = 0
  <2>1. DevTakesBit /\ Mid /\ dev.inBits + 1 >= ByteBits /\ dev.inBits = ByteBits - 1 - k
    BY <1>4, <1>25, Zenon
  <2>2. /\ answers' = answers /\ dev'.outBits = dev.outBits
        /\ received' = Append(received, Append(dev.inByte, sc.copi_shift[1]))
    BY <2>1, Zenon DEF DevTakesBit
  <2>3. Len(received') = n + 1
    <3> DEFINE b == Append(dev.inByte, sc.copi_shift[1])
    <3>1. received \in Seq(Byte) /\ received' = Append(received, b)
      BY <1>1, <2>2, Zenon DEF DataInv
    <3> HIDE DEF b
    <3> QED
      BY <3>1 DEF n
  <2>4. /\ n + 1 > 0 /\ n + 1 + 1 \in 1..MaxFrames + 1 /\ n + 1 + 1 > n + 1
        /\ \A g \in 1..MaxFrames + 1 : g > n + 1 + 1 => g > n + 1
    BY <1>6, <2>1
  <2>5. Answer' = <<>>
    BY <1>9, <2>2, <2>3, <2>4, Zenon DEF Answer
  <2>6. dev'.outBits = 0
    BY <1>9, <1>25, <2>1, <2>2, Zenon DEF UnderWay, k
  <2>7. ~Mid' /\ active'
    BY <1>25, Zenon DEF Samples, SameBits, Mid, active, k
  <2>8. a # <<>> => sc'.cipo_shift = a
    <3>1. SUFFICES ASSUME a # <<>> PROVE sc'.cipo_shift = a
      OBVIOUS
    <3>2. a \in Byte
      BY <1>10, <3>1, Zenon
    <3>3. sc'.cipo_shift \in Byte
      BY <1>2 DEF CoreInv, SpiCoreType
    <3>4. dev.inBits + 1 = ByteBits /\ \A j \in 1..ByteBits : ByteBits - ByteBits + j = j
      BY <1>7, <1>25, <2>1
    <3>5. \A j \in 1..ByteBits : sc'.cipo_shift[j] = a[j]
      BY <1>23, <1>25, <3>1, <3>4, Zenon
    <3> QED
      BY <3>2, <3>3, <3>5, SameByte, Zenon
  <2>9. answers'[Len(received')] = a
    BY <2>2, <2>3, Zenon DEF Answer, a, n
  <2>10. \A g \in 1..MaxFrames + 1 : g > Len(received') + 1 => answers'[g] = <<>>
    BY <1>9, <2>2, <2>3, <2>4, Zenon
  <2> QED
    BY <1>5, <2>3, <2>4, <2>5, <2>6, <2>7, <2>8, <2>9, <2>10, Zenon DEF AnswerInv
<1>26. CASE Loads(in)
  <2>1. ~Samples(in) /\ ~Mid /\ active /\ Taken(in) = 1 /\ ~sc'.data_out_valid
    BY <1>26, Zenon DEF Loads, Samples, Mid, Taken
  <2>2. Mid' /\ sc'.bit_count = ByteBits - 1
    BY <1>26, Zenon DEF Loads, Mid, active
  <2>3. DevKeepsIn /\ Falling /\ a = <<>>
    BY <1>4, <1>13, <1>26, <2>1, Zenon DEF Loads, Falling
  <2>4. cs' = 0
    <3>1. Started(in) = 0
      BY <2>1, Zenon DEF Started, active, idle_o
    <3>2. Owed # 0
      BY <1>15, <2>1, <3>1
    <3> QED
      BY <1>14, <3>2, Zenon
  <2> QED
    BY <1>22, <2>1, <2>2, <2>3, <2>4, Zenon
<1>27. CASE Shifts(in)
  <2>1. /\ ~Samples(in) /\ active /\ sc.sample_phase /\ k \in 1..ByteBits - 1
        /\ ~sc'.sample_phase /\ sc'.state = "ACTIVE" /\ sc'.bit_count = k - 1
        /\ sc'.cipo_shift = sc.cipo_shift /\ ~sc'.data_out_valid /\ Falling
    BY <1>27, Zenon DEF Shifts, Samples, SameCipo, Falling, k
  <2>2. k >= 1 /\ k \notin {0, ByteBits}
    BY <1>7, <2>1
  <2>3. Mid /\ Mid'
    BY <2>1, <2>2, Zenon DEF Mid, active, k
  <2>4. DevKeepsIn
    BY <1>4, <2>1, Zenon
  <2>5. cs' = 0
    <3>1. MidBytes = 1
      BY <2>3, Zenon DEF MidBytes
    <3>2. Owed # 0
      BY <1>15, <3>1
    <3> QED
      BY <1>14, <3>2, Zenon
  <2>6. DevLaunches
    BY <1>3, <2>1, <2>5, Zenon
  <2>7. received' = received /\ dev'.inBits = dev.inBits
    BY <2>4, Zenon DEF DevKeepsIn
  <2>8. CASE a = <<>>
    <3>1. dev.outBits = 0 /\ ~dev.bReading
      BY <1>9, <2>3, <2>8, Zenon
    <3>2. ~(dev.outBits > 0)
      BY <3>1
    <3>3. answers' = answers /\ ~dev'.bReading /\ dev'.outBits = 0
      BY <2>6, <3>1, <3>2, Zenon DEF DevLaunches
    <3>4. Answer' = <<>>
      BY <2>7, <2>8, <3>3, Zenon DEF Answer, a
    <3> QED
      BY <1>20, <2>1, <2>7, <3>3, <3>4, Zenon
  <2>9. CASE a # <<>>
    <3>1. /\ dev.outBits = k
          /\ \A j \in 1..dev.outBits : dev.outByte[j] = a[ByteBits - dev.outBits + j]
          /\ \A j \in 1..dev.inBits : sc.cipo_shift[ByteBits - dev.inBits + j] = a[j]
      BY <1>9, <2>3, <2>9, Zenon DEF UnderWay, k
    <3>2. dev.outBits # 0
      BY <2>2, <3>1
    <3>3. /\ answers' = answers /\ dev'.outBits = dev.outBits - 1
          /\ dev'.outByte = Tail(dev.outByte) /\ dev'.cipo = dev.outByte[1]
      BY <2>6, <3>2, Zenon DEF DevLaunches
    <3>4. Answer' = a
      BY <2>7, <3>3, Zenon DEF Answer, a
    <3>5. \A j \in 1..dev.outBits - 1 : Tail(dev.outByte)[j] = dev.outByte[j + 1]
      <4>1. dev.outByte \in [1..dev.outBits -> Bit] /\ dev.outBits > 0
        <5>1. dev.outByte \in [1..dev.outBits -> Bit]
          BY <1>1, DevFacts, Zenon
        <5>2. dev.outBits > 0
          BY <1>8, <3>2
        <5> QED
          BY <5>1, <5>2
      <4> QED
        BY <1>8, <4>1, TailBits, Zenon
    <3>6. dev'.outBits = sc'.bit_count
      BY <2>1, <3>1, <3>3, Zenon
    <3>7. dev'.cipo = a[ByteBits - dev'.outBits]
      <4>1. 1 \in 1..dev.outBits /\ ByteBits - dev.outBits + 1 = ByteBits - dev'.outBits
        BY <1>7, <1>8, <3>2, <3>3
      <4> QED
        BY <3>1, <3>3, <4>1, Zenon
    <3>8. \A j \in 1..dev'.outBits : dev'.outByte[j] = a[ByteBits - dev'.outBits + j]
      <4>1. SUFFICES ASSUME NEW j \in 1..dev'.outBits
                     PROVE  dev'.outByte[j] = a[ByteBits - dev'.outBits + j]
        OBVIOUS
      <4>2. /\ j \in 1..dev.outBits - 1 /\ j + 1 \in 1..dev.outBits
            /\ ByteBits - dev.outBits + (j + 1) = ByteBits - dev'.outBits + j
        BY <1>7, <1>8, <3>3
      <4> QED
        BY <3>1, <3>3, <3>5, <4>2, Zenon
    <3>9. UnderWay(Answer)'
      BY <2>1, <2>3, <2>7, <3>1, <3>4, <3>6, <3>7, <3>8, Zenon DEF UnderWay
    <3> QED
      BY <1>20, <2>1, <2>7, <2>9, <3>4, <3>9, Zenon
  <2> QED
    BY <2>8, <2>9
<1>28. CASE Finishes(in)
  <2>1. /\ ~Samples(in) /\ active /\ ~Mid /\ ~sc'.data_out_valid /\ sc'.state = "IDLE"
        /\ sc.clk = 1 /\ sc'.clk = cfg.cpol
    BY <1>28, Zenon DEF Finishes, Samples, Mid
  <2>2. ~Mid' /\ ~active'
    BY <2>1, Zenon DEF Mid, active
  <2>3. DevKeepsIn /\ a = <<>>
    BY <1>4, <1>13, <2>1, Zenon
  <2>4. received' = received
    BY <2>3, Zenon DEF DevKeepsIn
  <2>5. ~Rising
    BY <1>4, <2>1, Zenon
  <2>6. CASE cfg.cpha
    <3>1. ~Falling
      <4>1. cfg.cpol = 1 /\ 0 # 1
        BY <1>1, <2>6 DEF CoreInv
      <4> QED
        BY <2>1, <4>1, Zenon DEF Falling
    <3>2. DevKeepsOut
      BY <1>3, <2>5, <3>1, Zenon
    <3>3. Answer' = <<>> /\ dev'.outBits = 0
      BY <1>9, <2>3, <2>4, <3>2, Zenon DEF DevKeepsOut, Answer, a
    <3> QED
      BY <1>20, <2>1, <2>2, <2>4, <2>6, <3>3, Zenon
  <2>7. CASE ~cfg.cpha
    <3>1. Falling
      <4>1. cfg.cpol = 0
        BY <1>1, <2>7, CoreFacts DEF CoreInv
      <4> QED
        BY <2>1, <4>1, Zenon DEF Falling
    <3>2. CASE cs' = 0
      BY <1>22, <2>1, <2>2, <2>3, <2>7, <3>1, <3>2, Zenon
    <3>3. CASE cs' # 0
      <4>1. DevIgnores
        BY <1>3, <3>1, <3>3, Zenon
      <4>2. Answer' = <<>> /\ dev'.outBits = 0
        BY <2>3, <2>4, <4>1, Zenon DEF DevIgnores, Answer, a
      <4>3. ~dev'.bReading
        BY <1>2, <1>5, <3>3, Zenon DEF Bit
      <4> QED
        BY <1>20, <2>1, <2>4, <4>2, <4>3, Zenon
    <3> QED
      BY <3>2, <3>3
  <2> QED
    BY <2>6, <2>7
<1>29. CASE Begins(in) \/ Awaits(in) \/ Rests(in)
  <2>1. ~Samples(in) /\ ~Falling /\ ~sc'.data_out_valid /\ sc'.cipo_shift = sc.cipo_shift
    <3>1. 0 # 1
      BY SMT
    <3>2. sc'.clk = sc.clk
      BY <1>29, Zenon DEF Begins, Awaits, Rests
    <3> QED
      BY <1>29, <3>1, <3>2, Zenon DEF Begins, Awaits, Rests, Samples, Falling, SameCipo
  <2>2. DevKeepsIn /\ DevKeepsOut
    BY <1>3, <1>4, <2>1, Zenon
  <2>3. CASE Begins(in)
    <3>1. ~active /\ ~Mid /\ sc'.bit_count = Full /\ sc'.state = "ACTIVE" /\ sc'.clk = cfg.cpol
      BY <2>3, Zenon DEF Begins, Mid
    <3>2. CASE cfg.cpha
      <4>1. sc'.bit_count = ByteBits /\ sc'.sample_phase
        BY <1>1, <1>2, <3>1, <3>2, Zenon DEF Full, CoreInv
      <4>2. ~Mid'
        BY <4>1, Zenon DEF Mid
      <4> QED
        BY <1>21, <2>1, <2>2, <3>1, <3>2, <4>2, Zenon
    <3>3. CASE ~cfg.cpha
      <4>1. sc'.bit_count = ByteBits - 1 /\ ~sc'.sample_phase
        BY <1>1, <1>2, <3>1, <3>3, Zenon DEF Full, CoreInv
      <4>2. Mid'
        BY <3>1, <4>1, Zenon DEF Mid, active
      <4> QED
        BY <1>21, <2>1, <2>2, <3>1, <3>3, <4>1, <4>2, Zenon
    <3> QED
      BY <3>2, <3>3
  <2>4. CASE Awaits(in)
    <3>1. ~active /\ ~active' /\ ~Mid /\ ~Mid'
      BY <2>4, Zenon DEF Awaits, Mid, active, idle_o
    <3> QED
      BY <1>21, <2>1, <2>2, <3>1, Zenon
  <2>5. CASE Rests(in)
    <3>1. (active' <=> active) /\ (Mid' <=> Mid) /\ sc'.bit_count = sc.bit_count
      BY <2>5, Zenon DEF Rests, SameBits, Mid, active
    <3> QED
      BY <1>21, <2>1, <2>2, <3>1, Zenon
  <2> QED
    BY <1>29, <2>3, <2>4, <2>5
<1> QED
  BY <1>2, <1>24, <1>25, <1>26, <1>27, <1>28, <1>29, Zenon DEF Event

-----------------------------------------------------------------------------
(***************************************************************************)
(* The bytes that spi_rx reads.                                            *)
(***************************************************************************)

\* Within spi_rx every byte that the device has received has been read, waits
\* in the FIFO or is being handed over.
LEMMA DrainFacts ==
    ASSUME SpiInv, ReadInv, Draining, NEW acc, SoftStep(acc), Cycle(acc)
    PROVE  /\ control.rx_enable /\ ~control.tx_enable
           /\ rx_base \in Nat /\ drv.i \in Nat /\ Len(rx_fifo) \in Nat /\ Handed \in {0, 1}
           /\ Len(received) = rx_base + drv.i + Len(rx_fifo) + Handed
<1>1. CoreInv /\ DataInv /\ SoftInv /\ RxInv /\ TxInv
  BY Zenon DEF SpiInv
<1>2. control.rx_enable /\ ~control.tx_enable
  BY <1>1, Zenon DEF SoftInv, Draining
<1>3. rx_base \in Nat /\ rx_base + drv.len = Len(expected)
  BY Zenon DEF ReadInv
<1>4. drv.i \in Nat /\ drv.len \in Nat
  BY <1>1, DrvFacts, Zenon
<1>5. Len(rx_fifo) \in Nat /\ Len(received) \in Nat /\ Len(expected) \in Nat
  BY <1>1, LenProperties, Zenon DEF DataInv
<1>6. Handed \in {0, 1} /\ Owed \in Nat
  BY <1>1, CycleCounts, CycleOwed, Zenon
<1>7. drv.i + Len(rx_fifo) + Handed + Owed = drv.len
  BY <1>1, Zenon DEF RxInv, Draining
<1>8. Len(expected) = Len(received) + Owed
  BY <1>1, <1>2, Zenon DEF TxInv
<1>9. Len(received) = rx_base + drv.i + Len(rx_fifo) + Handed
  <2> DEFINE i == drv.i
             l == Len(rx_fifo)
             n == Len(received)
             h == Handed
             o == Owed
  <2>1. i \in Int /\ l \in Int /\ n \in Int /\ h \in Int /\ o \in Int /\ rx_base \in Int
    BY <1>3, <1>4, <1>5, <1>6
  <2>2. rx_base + (i + l + h + o) = n + o
    BY <1>3, <1>7, <1>8, Zenon
  <2> HIDE DEF i, l, n, h, o
  <2>3. n = rx_base + i + l + h
    BY <2>1, <2>2
  <2> QED
    BY <2>3 DEF i, l, n, h
<1> QED
  BY <1>2, <1>3, <1>4, <1>5, <1>6, <1>9, Zenon

\* The answers to the bytes received so far stay.
LEMMA OldAnswers ==
    ASSUME SpiInv, AnswerInv, NEW acc, SoftStep(acc), Cycle(acc)
    PROVE  /\ \A g \in 1..Len(received) : answers'[g] = answers[g]
           /\ Len(received) \in Nat /\ Len(received') \in Nat /\ Len(received') >= Len(received)
<1>1. CoreInv /\ DataInv /\ TxInv /\ WireInv
  BY Zenon DEF SpiInv
<1>2. Len(received) \in Nat /\ MaxFrames \in Nat /\ Len(received) <= MaxFrames
  BY FramesLeft, Zenon
<1>3. \A g \in 1..Len(received) : g \in 1..MaxFrames + 1 /\ g # Len(received) + 1
  BY <1>2
<1>4. \A g \in 1..Len(received) : answers'[g] = answers[g]
  BY <1>3, AnswersKept, Zenon
<1>5. Len(received') = Len(received) + Handed' /\ Handed' \in {0, 1}
  BY <1>1, CycleDevice, CycleCounts, Zenon
<1>6. Len(received') \in Nat /\ Len(received') >= Len(received)
  BY <1>2, <1>5
<1> QED
  BY <1>2, <1>4, <1>6, Zenon

\* The receive FIFO holds the answers that spi_rx has not read.
LEMMA QueuedAnswers ==
    ASSUME SpiInv, AnswerInv, ReadInv, Draining, NEW acc, SoftStep(acc), Cycle(acc)
    PROVE  \A j \in 1..Len(rx_fifo') :
              LET g == rx_base + drv.i + RxPop(acc) + j
              IN  answers'[g] # <<>> => rx_fifo'[j] = Ordered(answers'[g])
<1> DEFINE b == rx_base + drv.i
           l == Len(rx_fifo)
           P == RxPop(acc)
<1>1. CoreInv /\ DataInv /\ RxInv
  BY Zenon DEF SpiInv
<1>2. /\ control.rx_enable /\ b \in Nat /\ l \in Nat /\ Handed \in {0, 1}
      /\ Len(received) = b + l + Handed
  <2>1. /\ control.rx_enable /\ rx_base \in Nat /\ drv.i \in Nat /\ l \in Nat /\ Handed \in {0, 1}
        /\ Len(received) = rx_base + drv.i + l + Handed
    BY DrainFacts, Zenon
  <2>2. b \in Nat
    BY <2>1
  <2> QED
    BY <2>1, <2>2, Zenon
<1>3. /\ Len(rx_fifo') = l - P + RxPush(acc) /\ (P = 1 => l >= 1)
      /\ \A j \in 1..l - P : rx_fifo'[j] = rx_fifo[j + P]
      /\ RxPush(acc) = 1 => rx_fifo'[l - P + 1] = Ordered(sc.cipo_shift)
  BY <1>1, CycleRxFifo, Zenon
<1>4. RxPush(acc) = Handed /\ P \in {0, 1}
  BY <1>2, Zenon DEF RxPush, RxPop
<1>5. \A g \in 1..Len(received) : answers'[g] = answers[g]
  BY OldAnswers, Zenon
<1>6. \A j \in 1..l : answers[b + j] # <<>> => rx_fifo[j] = Ordered(answers[b + j])
  BY Zenon DEF ReadInv
<1> SUFFICES ASSUME NEW j \in 1..Len(rx_fifo'), answers'[b + P + j] # <<>>
             PROVE  rx_fifo'[j] = Ordered(answers'[b + P + j])
  BY Zenon
<1> HIDE DEF b, l, P
<1>7. j \in Nat /\ j >= 1 /\ j <= l - P + Handed
  BY <1>2, <1>3, <1>4
<1>8. answers'[b + P + j] = answers[b + P + j]
  <2>1. b + P + j \in 1..Len(received)
    BY <1>2, <1>4, <1>7
  <2> QED
    BY <1>5, <2>1, Zenon
<1>9. CASE j <= l - P
  <2>1. j \in 1..l - P /\ j + P \in 1..l /\ b + (j + P) = b + P + j
    BY <1>2, <1>4, <1>7, <1>9
  <2> QED
    BY <1>3, <1>6, <1>8, <2>1, Zenon
<1>10. CASE ~(j <= l - P)
  <2>1. Handed = 1 /\ j = l - P + 1 /\ b + P + j = Len(received)
    BY <1>2, <1>4, <1>7, <1>10
  <2>2. sc.data_out_valid
    <3>1. 0 # 1
      BY SMT
    <3> QED
      BY <2>1, <3>1, Zenon DEF Handed
  <2>3. sc.cipo_shift = answers[Len(received)]
    BY <1>8, <2>1, <2>2, Zenon DEF AnswerInv
  <2> QED
    BY <1>3, <1>4, <1>8, <2>1, <2>3, Zenon
<1> QED
  BY <1>9, <1>10

\* What is left to show of ReadInv.
LEMMA ReadIntro ==
    ASSUME cfg' = cfg, rx_base' \in Nat, got' \in Seq(Byte),
           rx_base' + Len(got') <= Len(received'),
           Draining' =>
              /\ rx_base' + drv'.len = Len(expected')
              /\ Len(got') = drv'.i
              /\ \A j \in 1..Len(rx_fifo') : answers'[rx_base' + drv'.i + j] # <<>> =>
                    rx_fifo'[j] = Ordered(answers'[rx_base' + drv'.i + j]),
           \A j \in 1..Len(got') : answers'[rx_base' + j] # <<>> =>
              got'[j] = Ordered(answers'[rx_base' + j])
    PROVE  ReadInv'
BY Zenon DEF ReadInv, ReadsReturnWhatWasAnswered, Ordered, bit_reverse

\* What spi_rx has read and what it will read, in one cycle.
LEMMA ReadKept ==
    ASSUME SpiInv, SpiInv', AnswerInv, ReadInv, NEW acc, SoftStep(acc), Cycle(acc), ReadStep(acc)
    PROVE  ReadInv'
<1>1. CoreInv /\ DataInv /\ SoftInv /\ RxInv /\ TxInv
  BY Zenon DEF SpiInv
<1>2. cfg' = cfg /\ Started(In(acc)) = IF acc.reg = "START" THEN acc.byte_count ELSE 0
  BY <1>1, CycleCore, Zenon
<1>3. /\ \A g \in 1..Len(received) : answers'[g] = answers[g]
      /\ Len(received) \in Nat /\ Len(received') \in Nat /\ Len(received') >= Len(received)
  BY OldAnswers, Zenon
<1>4. /\ rx_base \in Nat /\ got \in Seq(Byte) /\ Len(got) \in Nat
      /\ rx_base + Len(got) <= Len(received)
  BY LenProperties, Zenon DEF ReadInv
<1>5. \A j \in 1..Len(got) : answers'[rx_base + j] # <<>> => got[j] = Ordered(answers'[rx_base + j])
  <2>1. \A j \in 1..Len(got) : rx_base + j \in 1..Len(received)
    BY <1>3, <1>4
  <2> QED
    BY <1>3, <2>1, Zenon DEF ReadInv, ReadsReturnWhatWasAnswered
\* START of spi_rx.
<1>6. CASE acc.reg = "START" /\ ~control.tx_enable
  <2> DEFINE n == acc.byte_count
  <2>1. got' = <<>> /\ rx_base' = Len(expected) /\ drv'.i = 0 /\ drv'.len = n
    BY <1>6, Zenon DEF ReadStep
  <2>2. idle_o /\ Todo = 0 /\ n \in Nat
    BY <1>6, SpiCoreAssumption DEF SoftStep
  <2>3. Owed = 0 /\ Len(expected) = Len(received)
    BY <1>1, <2>2, IdleFacts, Zenon
  <2>4. Len(expected') = Len(expected) + n
    BY <1>1, <1>6, CycleExpected, Zenon
  <2>5. got' \in Seq(Byte) /\ Len(got') = 0
    BY <2>1
  <2>6. rx_base' \in Nat /\ rx_base' + Len(got') <= Len(received')
    BY <1>3, <2>1, <2>3, <2>5
  <2>7. Draining' => Len(rx_fifo') = 0
    <3>1. SUFFICES ASSUME Draining' PROVE Len(rx_fifo') = 0
      OBVIOUS
    <3>2. 0 + Len(rx_fifo') + Handed' + Owed' = n
      BY <2>1, <3>1, Zenon DEF SpiInv, RxInv, Draining
    <3>3. Owed' = 0 + n - Handed' /\ Handed' \in {0, 1}
      BY <1>1, <1>2, <1>6, <2>3, CycleOwed, CycleCounts, Zenon
    <3>4. Len(rx_fifo') \in Nat
      BY LenProperties, Zenon DEF SpiInv, DataInv
    <3> HIDE DEF n
    <3> QED
      BY <2>2, <3>2, <3>3, <3>4
  <2>8. /\ \A j \in 1..Len(got') : answers'[rx_base' + j] # <<>> =>
              got'[j] = Ordered(answers'[rx_base' + j])
        /\ Draining' => \A j \in 1..Len(rx_fifo') : answers'[rx_base' + drv'.i + j] # <<>> =>
              rx_fifo'[j] = Ordered(answers'[rx_base' + drv'.i + j])
    <3>1. 1..0 = {}
      OBVIOUS
    <3> QED
      BY <2>5, <2>7, <3>1, Zenon
  <2>9. rx_base' + drv'.len = Len(expected') /\ Len(got') = drv'.i
    BY <2>1, <2>4, <2>5, Zenon
  <2> QED
    BY <1>2, <2>5, <2>6, <2>8, <2>9, ReadIntro, Zenon
\* Every other access.
<1>7. CASE ~(acc.reg = "START" /\ ~control.tx_enable)
  <2>1. rx_base' = rx_base
    BY <1>7, Zenon DEF ReadStep
  <2>2. /\ got' \in Seq(Byte) /\ Len(got') = Len(got) + RxPop(acc)
        /\ rx_base + Len(got') <= Len(received)
        /\ \A j \in 1..Len(got') : answers'[rx_base + j] # <<>> =>
              got'[j] = Ordered(answers'[rx_base + j])
    <3>1. CASE acc.reg = "RX_FIFO"
      <4>1. Draining /\ got' = Append(got, Head(rx_fifo)) /\ RxPop(acc) = 1
        BY <3>1, Zenon DEF ReadStep, RxPop
      <4>2. /\ drv.i \in Nat /\ Len(rx_fifo) \in Nat /\ Handed \in {0, 1}
            /\ Len(received) = rx_base + drv.i + Len(rx_fifo) + Handed
        BY <4>1, DrainFacts, Zenon
      <4>3. Len(rx_fifo) >= 1
        BY <1>1, <4>1, CycleRxFifo, Zenon
      <4>4. Len(got) = drv.i
        BY <4>1, Zenon DEF ReadInv
      <4> DEFINE x == Head(rx_fifo)
                 l == Len(got)
      <4>5. rx_base + l + 1 \in 1..Len(received) /\ 1 \in 1..Len(rx_fifo)
        BY <1>4, <4>2, <4>3, <4>4
      <4>6. x = rx_fifo[1] /\ x \in Byte
        <5>1. rx_fifo \in Seq(Byte)
          BY <1>1, Zenon DEF DataInv
        <5> QED
          BY <4>5, <5>1
      <4>7. answers'[rx_base + l + 1] # <<>> => x = Ordered(answers'[rx_base + l + 1])
        BY <1>3, <4>1, <4>4, <4>5, <4>6, Zenon DEF ReadInv
      <4>8. got' = Append(got, x)
        BY <4>1, Zenon
      <4> HIDE DEF x
      <4>9. /\ got' \in Seq(Byte) /\ Len(got') = l + 1 /\ got'[l + 1] = x
            /\ \A j \in 1..l : got'[j] = got[j]
        BY <1>4, <4>6, <4>8
      <4> HIDE DEF l
      <4>10. /\ l \in Nat /\ rx_base + (l + 1) <= Len(received)
             /\ rx_base + (l + 1) = rx_base + l + 1
             /\ \A j \in 1..l + 1 : j \in 1..l \/ j = l + 1
        <5>1. l \in Nat
          BY <1>4 DEF l
        <5> QED
          BY <1>3, <1>4, <4>5, <5>1
      <4>11. \A j \in 1..Len(got') : answers'[rx_base + j] # <<>> =>
                got'[j] = Ordered(answers'[rx_base + j])
        BY <1>5, <4>7, <4>9, <4>10, Zenon DEF l
      <4> QED
        BY <4>1, <4>9, <4>10, <4>11, Zenon DEF l
    <3>2. CASE acc.reg # "RX_FIFO"
      <4>1. got' = got /\ RxPop(acc) = 0
        BY <1>7, <3>2, Zenon DEF ReadStep, RxPop
      <4>2. Len(got) + 0 = Len(got)
        BY <1>4
      <4> QED
        BY <1>4, <1>5, <4>1, <4>2, Zenon
    <3> QED
      BY <3>1, <3>2
  <2>3. rx_base + Len(got') <= Len(received')
    <3>1. Len(got') \in Nat
      BY <2>2, LenProperties, Zenon
    <3> QED
      BY <1>3, <1>4, <2>2, <3>1
  <2>4. ASSUME Draining'
        PROVE  /\ rx_base + drv'.len = Len(expected')
               /\ Len(got') = drv'.i
               /\ \A j \in 1..Len(rx_fifo') : answers'[rx_base + drv'.i + j] # <<>> =>
                     rx_fifo'[j] = Ordered(answers'[rx_base + drv'.i + j])
    <3>1. /\ Draining /\ acc.reg # "START"
          /\ drv'.len = drv.len /\ drv'.i = drv.i + RxPop(acc)
      BY <1>7, <2>4, Zenon DEF ReadStep
    <3>2. rx_base + drv.len = Len(expected) /\ Len(got) = drv.i
      BY <3>1, Zenon DEF ReadInv
    <3>3. ~control.tx_enable /\ drv.i \in Nat
      BY <3>1, DrainFacts, Zenon
    <3>4. expected' = expected
      BY <3>1, <3>3, Zenon DEF SoftStep
    <3>5. \A j \in 1..Len(rx_fifo') : answers'[rx_base + drv.i + RxPop(acc) + j] # <<>> =>
                     rx_fifo'[j] = Ordered(answers'[rx_base + drv.i + RxPop(acc) + j])
      BY <3>1, QueuedAnswers, Zenon
    <3>6. rx_base + drv'.i = rx_base + drv.i + RxPop(acc)
      <4>1. RxPop(acc) \in {0, 1}
        BY Zenon DEF RxPop
      <4> QED
        BY <1>4, <3>1, <3>3, <4>1
    <3> QED
      BY <2>2, <3>1, <3>2, <3>4, <3>5, <3>6, Zenon
  <2> QED
    BY <1>2, <1>4, <2>1, <2>2, <2>3, <2>4, ReadIntro, Zenon
<1> QED
  BY <1>6, <1>7

LEMMA ReadInitially ==
    ASSUME Init
    PROVE  AnswerInv /\ ReadInv
<1> DEFINE no == FALSE
<1>1. /\ answers = [f \in 1..MaxFrames + 1 |-> <<>>] /\ received = <<>> /\ got = <<>> /\ rx_base = 0
      /\ dev = DevRec(0, <<>>, 0, <<>>, 0, no)
  BY Zenon DEF Init, D!DevInit, DevRec, no
<1>2. MaxFrames \in Nat /\ Len(received) = 0 /\ Len(got) = 0 /\ got \in Seq(Byte)
  BY <1>1, SpiSystemAssumption
<1>3. answers \in AnswerType /\ \A g \in 1..MaxFrames + 1 : answers[g] = <<>>
  BY <1>1, Zenon DEF AnswerType
<1>4. Answer = <<>>
  <2>1. Len(received) + 1 \in 1..MaxFrames + 1
    BY <1>2
  <2> QED
    BY <1>3, <2>1, Zenon DEF Answer
<1>5. ~no
  BY DEF no
<1> HIDE DEF no
<1>6. dev.outBits = 0 /\ dev.bReading = no
  BY <1>1 DEF DevRec
<1>7. ~sc.data_out_valid
  <2>1. CoreInv /\ ~active
    <3>1. SpiInv
      BY SpiInitially
    <3>2. sc.state = "IDLE"
      BY DEF Init, SpiInit, SpiCoreInit
    <3> QED
      BY <3>1, <3>2, Zenon DEF SpiInv, active
  <2> QED
    BY <2>1, Zenon DEF CoreInv
<1>8. AnswerInv
  BY <1>3, <1>4, <1>5, <1>6, <1>7, Zenon DEF AnswerInv
<1>9. ~Draining
  <2>1. PICK a \in Apis : drv.pc = IF a = "hal" THEN "reset" ELSE "ready"
    BY DEF Init
  <2> QED
    BY <2>1, Zenon DEF Draining
<1>10. rx_base \in Nat /\ rx_base + Len(got) <= Len(received)
  BY <1>1, <1>2
<1>11. ReadsReturnWhatWasAnswered
  <2>1. 1..0 = {}
    OBVIOUS
  <2> QED
    BY <1>2, <2>1, Zenon DEF ReadsReturnWhatWasAnswered
<1> QED
  BY <1>2, <1>8, <1>9, <1>10, <1>11, Zenon DEF ReadInv

\* spi_rx returns the bytes that the device sent during its own transfer, bit
\* for bit and in order: cipo_shift, the byte handed over a cycle later
\* (spi_core.sv) and the receive FIFO lose and mix nothing, also when the
\* answer began with the last edge of the transfer before.
THEOREM ReadsGetTheAnswers ==
    ASSUME FitsFifo
    PROVE  Spec => []ReadsReturnWhatWasAnswered
<1> DEFINE Inv == SpiInv /\ AnswerInv /\ ReadInv
<1>1. Init => Inv
  BY SpiInitially, ReadInitially
<1>2. Inv /\ [Next]_vars => Inv'
  <2> SUFFICES ASSUME SpiInv, AnswerInv, ReadInv, [Next]_vars
               PROVE  (SpiInv /\ AnswerInv /\ ReadInv)'
    OBVIOUS
  <2>1. SpiInv' /\ (Stepped \/ UNCHANGED vars)
    BY NextKept, Zenon
  <2>2. CASE Stepped
    <3>1. PICK acc : SoftStep(acc) /\ Cycle(acc) /\ ReadStep(acc)
      BY <2>2, Zenon DEF Stepped
    <3> QED
      BY <2>1, <3>1, AnswerKept, ReadKept, Zenon
  <2>3. CASE UNCHANGED vars
    <3>1. /\ sc' = sc /\ cfg' = cfg /\ cs' = cs /\ rx_fifo' = rx_fifo /\ drv' = drv /\ dev' = dev
          /\ received' = received /\ answers' = answers /\ expected' = expected
          /\ got' = got /\ rx_base' = rx_base
      BY <2>3, Zenon DEF vars, spiVars
    <3>2. AnswerInv'
      <4>1. (Mid' <=> Mid) /\ (active' <=> active) /\ Answer' = Answer
        BY <3>1, Zenon DEF Mid, active, Answer
      <4>2. UnderWay(Answer)' <=> UnderWay(Answer)
        BY <3>1, <4>1, Zenon DEF UnderWay
      <4> QED
        BY <3>1, <4>1, <4>2, Zenon DEF AnswerInv
    <3>3. ReadInv'
      BY <3>1, Zenon DEF ReadInv, ReadsReturnWhatWasAnswered, Draining, Ordered, bit_reverse
    <3> QED
      BY <2>1, <3>2, <3>3
  <2> QED
    BY <2>1, <2>2, <2>3
<1>3. Inv => ReadsReturnWhatWasAnswered
  BY DEF ReadInv
<1> QED
  BY <1>1, <1>2, <1>3, PTL DEF Spec
=============================================================================
