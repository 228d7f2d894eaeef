----------------------------- MODULE MmioProofs -----------------------------
(***************************************************************************)
(* Proofs about MmioHal: what a modifier of BitField leaves alone, for     *)
(* every word and value, and that blocking_write sends its array, for      *)
(* every depth of the FIFO and every length.                               *)
(***************************************************************************)
EXTENDS MmioHal, SequenceTheorems, TLAPS

(***************************************************************************)
(* The modifiers change no bit outside of their field.                     *)
(***************************************************************************)

IsField(f) == f[1] \in 0 .. 31 /\ f[2] \in 1 .. 32 /\ f[1] + f[2] <= 32
Outside(c, f) == c \ mask(f)

LEMMA WriteOutside ==
    ASSUME NEW c, NEW f, NEW v PROVE Outside(write(c, f, v), f) = Outside(c, f)
  BY DEF Outside, write, clear

LEMMA BitMaskOutside ==
    ASSUME NEW c, NEW f, NEW v \in BOOLEAN, NEW i
    PROVE  Outside(bit_mask(c, f, v, i), f) = Outside(c, f)
  BY DEF Outside, bit_mask

LEMMA FirstBitInside ==
    ASSUME NEW f, IsField(f) PROVE f[1] \in mask(f)
  BY DEF IsField, mask

LEMMA SingleBitOutside ==
    ASSUME NEW c, NEW f, IsField(f), NEW b \in BOOLEAN
    PROVE  /\ Outside(set(c, f), f) = Outside(c, f)
           /\ Outside(reset(c, f), f) = Outside(c, f)
           /\ Outside(toggle(c, f), f) = Outside(c, f)
           /\ Outside(bit(c, f, b), f) = Outside(c, f)
  <1>1. f[1] \in mask(f)
    BY FirstBitInside
  <1> QED
    BY <1>1 DEF Outside, set, reset, clear, toggle, bit

\* A field apart from f reads the same in two words that differ within f only.
LEMMA GetElsewhere ==
    ASSUME NEW c, NEW d, NEW f, NEW g, IsField(f), IsField(g), Outside(c, f) = Outside(d, f),
           f[1] + f[2] <= g[1] \/ g[1] + g[2] <= f[1]
    PROVE  get(c, g) = get(d, g)
  <1>1. mask(f) \cap mask(g) = {}
    <2>1. \A a, b, x, y \in Int : a + b <= x => (a .. a + b - 1) \cap (x .. x + y - 1) = {}
      OBVIOUS
    <2>2. f[1] \in Int /\ f[2] \in Int /\ g[1] \in Int /\ g[2] \in Int
      BY DEF IsField
    <2>3. \/ (f[1] .. f[1] + f[2] - 1) \cap (g[1] .. g[1] + g[2] - 1) = {}
          \/ (g[1] .. g[1] + g[2] - 1) \cap (f[1] .. f[1] + f[2] - 1) = {}
      BY <2>1, <2>2, Zenon
    <2> QED
      BY <2>3, Zenon DEF mask
  <1>2. c \cap mask(g) = d \cap mask(g)
    BY <1>1 DEF Outside
  <1> QED
    BY <1>2, Zenon DEF get

-----------------------------------------------------------------------------
(***************************************************************************)
(* Fetch, modify, commit.                                                  *)
(***************************************************************************)

Seen == \E n \in DOMAIN TargetFields : Readable(TargetFields[n])

FieldInv ==
    program = "field" =>
       /\ target \in Registers
       /\ pc = "modify" /\ Seen /\ ~updated => cache = word
       /\ pc = "commit" =>
             /\ \E n \in DOMAIN TargetFields : fld = TargetFields[n]
             /\ Seen /\ ~updated => Outside(cache, fld) = Outside(word, fld)

LEMMA Layout ==
    ASSUME target \in Registers
    PROVE  \A n \in DOMAIN TargetFields :
              /\ IsField(TargetFields[n])
              /\ \A m \in DOMAIN TargetFields : TargetFields[m] # TargetFields[n] =>
                    \/ TargetFields[m][1] + TargetFields[m][2] <= TargetFields[n][1]
                    \/ TargetFields[n][1] + TargetFields[n][2] <= TargetFields[m][1]
  <1>1. PICK p \in DOMAIN AllFields : target \in {<<p, r>> : r \in DOMAIN AllFields[p]}
    BY Zenon DEF Registers
  <1>2. PICK r \in DOMAIN AllFields[p] : target = <<p, r>>
    BY <1>1, Zenon
  <1>3. TargetFields = AllFields[p][r]
    BY <1>2 DEF TargetFields
  <1> QED
    BY <1>3, LayoutAssumption, Zenon DEF IsField

\* Every modifier keeps what is outside of its field.
LEMMA ModifyOutside ==
    ASSUME FieldInv, modify
    PROVE  /\ \E n \in DOMAIN TargetFields : fld' = TargetFields[n]
           /\ Outside(cache', fld') = Outside(cache, fld')
  <1>1. PICK n \in DOMAIN TargetFields :
          LET f == TargetFields[n]
          IN  /\ fld' = f
              /\ IF f[2] > 1
                 THEN \/ \E v \in {{}, {0}, 0 .. 31} : cache' = write(cache, f, v)
                      \/ \E v \in BOOLEAN, i \in {0, f[2] - 1} : cache' = bit_mask(cache, f, v, i)
                 ELSE \/ cache' = set(cache, f) \/ cache' = reset(cache, f)
                      \/ cache' = toggle(cache, f)
                      \/ \E b \in BOOLEAN : cache' = bit(cache, f, b)
    BY Zenon DEF modify
  <1>2. IsField(fld') /\ fld' = TargetFields[n]
    <2>1. target \in Registers
      BY Zenon DEF FieldInv, modify
    <2> QED
      BY <1>1, <2>1, Layout, Zenon
  <1>3. \/ \E v \in {{}, {0}, 0 .. 31} : cache' = write(cache, fld', v)
        \/ \E v \in BOOLEAN, i \in {0, fld'[2] - 1} : cache' = bit_mask(cache, fld', v, i)
        \/ cache' = set(cache, fld') \/ cache' = reset(cache, fld')
        \/ cache' = toggle(cache, fld')
        \/ \E b \in BOOLEAN : cache' = bit(cache, fld', b)
    BY <1>1, Zenon
  <1>4. Outside(cache', fld') = Outside(cache, fld')
    <2>1. CASE \E v \in {{}, {0}, 0 .. 31} : cache' = write(cache, fld', v)
      <3>1. PICK v : cache' = write(cache, fld', v)
        BY <2>1, Zenon
      <3> QED
        BY <3>1, WriteOutside, Zenon
    <2>2. CASE \E v \in BOOLEAN, i \in {0, fld'[2] - 1} : cache' = bit_mask(cache, fld', v, i)
      <3>1. PICK v \in BOOLEAN, i \in {0, fld'[2] - 1} : cache' = bit_mask(cache, fld', v, i)
        BY <2>2
      <3>2. Outside(bit_mask(cache, fld', v, i), fld') = Outside(cache, fld')
        BY BitMaskOutside
      <3> QED
        BY <3>1, <3>2
    <2>3. /\ Outside(set(cache, fld'), fld') = Outside(cache, fld')
          /\ Outside(reset(cache, fld'), fld') = Outside(cache, fld')
          /\ Outside(toggle(cache, fld'), fld') = Outside(cache, fld')
          /\ \A b \in BOOLEAN : Outside(bit(cache, fld', b), fld') = Outside(cache, fld')
      BY <1>2, SingleBitOutside, Zenon
    <2>4. CASE \/ cache' = set(cache, fld') \/ cache' = reset(cache, fld')
               \/ cache' = toggle(cache, fld')
               \/ \E b \in BOOLEAN : cache' = bit(cache, fld', b)
      BY <2>3, <2>4, Zenon
    <2> QED
      BY <1>3, <2>1, <2>2, <2>4, Zenon
  <1> QED
    BY <1>2, <1>4, Zenon

LEMMA FieldInitially == Init => FieldInv
  BY Zenon DEF Init, FieldInv

LEMMA FieldKept ==
    ASSUME FieldInv, [Next]_vars PROVE FieldInv'
  <1> SUFFICES ASSUME program' = "field" PROVE FieldInv'
    BY DEF FieldInv
  <1>1. CASE fetch
    BY <1>1 DEF fetch, FieldInv, Seen, TargetFields, Readable
  <1>2. CASE modify
    <2>1. /\ program = "field" /\ pc = "modify" /\ pc' = "commit"
          /\ target' = target /\ word' = word /\ updated' = updated
      BY <1>2, Zenon DEF modify
    <2>2. TargetFields' = TargetFields
      BY <2>1, Zenon DEF TargetFields
    <2>3. Seen' = Seen
      BY <2>2, Zenon DEF Seen, Readable
    <2>4. /\ \E n \in DOMAIN TargetFields : fld' = TargetFields[n]
          /\ Outside(cache', fld') = Outside(cache, fld')
      BY <1>2, ModifyOutside, Zenon
    <2>5. Outside(cache, fld)' = Outside(cache', fld') /\ Outside(word, fld)' = Outside(word', fld')
      BY Zenon DEF Outside, mask
    <2> QED
      BY <2>1, <2>2, <2>3, <2>4, <2>5, Zenon DEF FieldInv
  <1>3. CASE HwUpdate
    BY <1>3, Zenon DEF HwUpdate, FieldInv, TargetFields
  <1>4. CASE commit
    BY <1>4, Zenon DEF commit, FieldInv
  <1>5. CASE program' = program /\ UNCHANGED fieldvars /\ pc' = pc
    BY <1>5, Zenon DEF fieldvars, FieldInv, Seen, TargetFields, Readable, Outside, mask
  <1>6. CASE SpiCall \/ SpiStep \/ SpiShift
    BY <1>6, Zenon DEF SpiCall, SpiStep, SpiShift, Spi_Spi, chip_select_assert, blocking_write,
       blocking_write_poll, blocking_write_put, blocking_write_return
  <1> QED
    BY <1>1, <1>2, <1>3, <1>4, <1>5, <1>6, Zenon DEF Next, FieldStep, Finished, vars

(* A commit changes the field that was modified and no other, for every    *)
(* register, field, modifier and word, unless the hardware changed the     *)
(* register between fetch and commit (mmio.hh:28-108).                     *)
THEOREM OtherFieldsKept == Spec => CommitKeepsOtherFields
  <1> DEFINE Keeps ==
        (commit /\ ~updated /\ \E n \in DOMAIN TargetFields : Readable(TargetFields[n])) =>
          \A n \in DOMAIN TargetFields :
             TargetFields[n] # fld => get(word', TargetFields[n]) = get(word, TargetFields[n])
  <1>1. ASSUME FieldInv PROVE Keeps
    <2> SUFFICES ASSUME commit, ~updated, Seen, NEW n \in DOMAIN TargetFields, TargetFields[n] # fld
                 PROVE  get(word', TargetFields[n]) = get(word, TargetFields[n])
      BY Zenon DEF Seen
    <2>1. program = "field" /\ pc = "commit" /\ word' = cache
      BY Zenon DEF commit
    <2>2. target \in Registers /\ Outside(cache, fld) = Outside(word, fld)
      BY <1>1, <2>1, Zenon DEF FieldInv
    <2>3. PICK m \in DOMAIN TargetFields : fld = TargetFields[m]
      BY <1>1, <2>1, Zenon DEF FieldInv
    <2>4. /\ IsField(fld) /\ IsField(TargetFields[n])
          /\ \/ fld[1] + fld[2] <= TargetFields[n][1]
             \/ TargetFields[n][1] + TargetFields[n][2] <= fld[1]
      BY <2>2, <2>3, Layout, Zenon
    <2> DEFINE g == TargetFields[n]
    <2> HIDE DEF g
    <2>5. IsField(g) /\ (fld[1] + fld[2] <= g[1] \/ g[1] + g[2] <= fld[1])
      BY <2>4, Zenon DEF g
    <2>6. get(cache, g) = get(word, g)
      BY <2>2, <2>4, <2>5, GetElsewhere, SMT
    <2> QED
      BY <2>1, <2>6, Zenon DEF g
  <1>2. FieldInv /\ [Next]_vars => [Keeps]_vars
    BY <1>1, Zenon
  <1>3. CommitKeepsOtherFields <=> [][Keeps]_vars
    BY PTL DEF CommitKeepsOtherFields
  <1>4. FieldInv /\ [Next]_vars => FieldInv'
    BY FieldKept
  <1> HIDE DEF Keeps
  <1> QED
    BY FieldInitially, <1>2, <1>3, <1>4, PTL DEF Spec
-----------------------------------------------------------------------------
(***************************************************************************)
(* Numbers and their bits.                                                 *)
(***************************************************************************)

LEMMA Powers ==
    /\ 2^0 = 1 /\ 2^1 = 2 /\ 2^2 = 4 /\ 2^3 = 8 /\ 2^4 = 16 /\ 2^5 = 32 /\ 2^6 = 64
    /\ 2^7 = 128 /\ 2^8 = 256 /\ 2^9 = 512 /\ 2^10 = 1024
  OBVIOUS

\* Bit i of n, for the positions one by one.
LEMMA BitsOf ==
    ASSUME NEW n \in Numbers
    PROVE  /\ Bits(n) \subseteq 0 .. 10
           /\ n <= 255 => Bits(n) \subseteq 0 .. 7
  <1>1. Bits(n) \subseteq 0 .. 10
    BY DEF Bits
  <1>2. ASSUME n <= 255, NEW i \in Bits(n) PROVE i \in 0 .. 7
    <2>1. i \in 0 .. 10 /\ (n \div 2^i) % 2 = 1
      BY DEF Bits
    <2>2. i # 8 /\ i # 9 /\ i # 10
      <3>1. (n \div 256) % 2 # 1 /\ (n \div 512) % 2 # 1 /\ (n \div 1024) % 2 # 1
        <4>1. n \in 0 .. 255
          BY <1>2 DEF Numbers
        <4>2. n \div 256 = 0 /\ n \div 512 = 0 /\ n \div 1024 = 0
          BY <4>1
        <4> QED
          BY <4>2
      <3>2. /\ i = 8 => (n \div 2^8) % 2 = 1
            /\ i = 9 => (n \div 2^9) % 2 = 1
            /\ i = 10 => (n \div 2^10) % 2 = 1
        BY <2>1, Zenon
      <3> QED
        BY <3>1, <3>2, Powers
    <2> QED
      BY <2>1, <2>2
  <1> QED
    BY <1>1, <1>2

\* A number is known from its half and its last bit.
LEMMA FromHalf ==
    ASSUME NEW a \in Nat, NEW b \in Nat, a \div 2 = b \div 2, a % 2 = 1 <=> b % 2 = 1
    PROVE  a = b
  OBVIOUS

LEMMA HalfByHalf ==
    ASSUME NEW n \in Nat
    PROVE  /\ (n \div 1) \div 2 = n \div 2 /\ n \div 1 \in Nat
           /\ (n \div 2) \div 2 = n \div 4 /\ n \div 2 \in Nat
           /\ (n \div 4) \div 2 = n \div 8 /\ n \div 4 \in Nat
           /\ (n \div 8) \div 2 = n \div 16 /\ n \div 8 \in Nat
           /\ (n \div 16) \div 2 = n \div 32 /\ n \div 16 \in Nat
           /\ (n \div 32) \div 2 = n \div 64 /\ n \div 32 \in Nat
           /\ (n \div 64) \div 2 = n \div 128 /\ n \div 64 \in Nat
           /\ (n \div 128) \div 2 = n \div 256 /\ n \div 128 \in Nat
           /\ (n \div 256) \div 2 = n \div 512 /\ n \div 256 \in Nat
           /\ (n \div 512) \div 2 = n \div 1024 /\ n \div 512 \in Nat
  <1>1. (n \div 1) \div 2 = n \div 2 /\ n \div 1 \in Nat
    OBVIOUS
  <1>2. (n \div 2) \div 2 = n \div 4 /\ n \div 2 \in Nat
    OBVIOUS
  <1>3. (n \div 4) \div 2 = n \div 8 /\ n \div 4 \in Nat
    OBVIOUS
  <1>4. (n \div 8) \div 2 = n \div 16 /\ n \div 8 \in Nat
    OBVIOUS
  <1>5. (n \div 16) \div 2 = n \div 32 /\ n \div 16 \in Nat
    OBVIOUS
  <1>6. (n \div 32) \div 2 = n \div 64 /\ n \div 32 \in Nat
    OBVIOUS
  <1>7. (n \div 64) \div 2 = n \div 128 /\ n \div 64 \in Nat
    OBVIOUS
  <1>8. (n \div 128) \div 2 = n \div 256 /\ n \div 128 \in Nat
    OBVIOUS
  <1>9. (n \div 256) \div 2 = n \div 512 /\ n \div 256 \in Nat
    OBVIOUS
  <1>10. (n \div 512) \div 2 = n \div 1024 /\ n \div 512 \in Nat
    OBVIOUS
  <1> QED
    BY <1>1, <1>2, <1>3, <1>4, <1>5, <1>6, <1>7, <1>8, <1>9, <1>10

LEMMA BitsDiffer ==
    ASSUME NEW m \in Numbers, NEW n \in Numbers, Bits(m) = Bits(n)
    PROVE  m = n
  <1>1. ASSUME NEW i \in 0 .. 10 PROVE (m \div 2^i) % 2 = 1 <=> (n \div 2^i) % 2 = 1
    <2>1. i \in Bits(m) <=> i \in Bits(n)
      OBVIOUS
    <2> QED
      BY <2>1 DEF Bits
  <1>2. (m \div 1) % 2 = 1 <=> (n \div 1) % 2 = 1
    BY <1>1, Powers
  <1>3. (m \div 2) % 2 = 1 <=> (n \div 2) % 2 = 1
    BY <1>1, Powers
  <1>4. (m \div 4) % 2 = 1 <=> (n \div 4) % 2 = 1
    BY <1>1, Powers
  <1>5. (m \div 8) % 2 = 1 <=> (n \div 8) % 2 = 1
    BY <1>1, Powers
  <1>6. (m \div 16) % 2 = 1 <=> (n \div 16) % 2 = 1
    BY <1>1, Powers
  <1>7. (m \div 32) % 2 = 1 <=> (n \div 32) % 2 = 1
    BY <1>1, Powers
  <1>8. (m \div 64) % 2 = 1 <=> (n \div 64) % 2 = 1
    BY <1>1, Powers
  <1>9. (m \div 128) % 2 = 1 <=> (n \div 128) % 2 = 1
    BY <1>1, Powers
  <1>10. (m \div 256) % 2 = 1 <=> (n \div 256) % 2 = 1
    BY <1>1, Powers
  <1>11. (m \div 512) % 2 = 1 <=> (n \div 512) % 2 = 1
    BY <1>1, Powers
  <1>12. (m \div 1024) % 2 = 1 <=> (n \div 1024) % 2 = 1
    BY <1>1, Powers
  <1>13. m \div 1024 = n \div 1024
    BY <1>12 DEF Numbers
  <1>14. m \in Nat /\ n \in Nat
    BY DEF Numbers
  <1>15. m \div 512 = n \div 512
    <2>1. /\ (m \div 512) \div 2 = (n \div 512) \div 2 /\ m \div 512 \in Nat /\ n \div 512 \in Nat
      BY <1>14, <1>13, HalfByHalf
    <2> QED
      BY <1>11, <2>1, FromHalf
  <1>16. m \div 256 = n \div 256
    <2>1. /\ (m \div 256) \div 2 = (n \div 256) \div 2 /\ m \div 256 \in Nat /\ n \div 256 \in Nat
      BY <1>14, <1>15, HalfByHalf
    <2> QED
      BY <1>10, <2>1, FromHalf
  <1>17. m \div 128 = n \div 128
    <2>1. /\ (m \div 128) \div 2 = (n \div 128) \div 2 /\ m \div 128 \in Nat /\ n \div 128 \in Nat
      BY <1>14, <1>16, HalfByHalf
    <2> QED
      BY <1>9, <2>1, FromHalf
  <1>18. m \div 64 = n \div 64
    <2>1. /\ (m \div 64) \div 2 = (n \div 64) \div 2 /\ m \div 64 \in Nat /\ n \div 64 \in Nat
      BY <1>14, <1>17, HalfByHalf
    <2> QED
      BY <1>8, <2>1, FromHalf
  <1>19. m \div 32 = n \div 32
    <2>1. /\ (m \div 32) \div 2 = (n \div 32) \div 2 /\ m \div 32 \in Nat /\ n \div 32 \in Nat
      BY <1>14, <1>18, HalfByHalf
    <2> QED
      BY <1>7, <2>1, FromHalf
  <1>20. m \div 16 = n \div 16
    <2>1. /\ (m \div 16) \div 2 = (n \div 16) \div 2 /\ m \div 16 \in Nat /\ n \div 16 \in Nat
      BY <1>14, <1>19, HalfByHalf
    <2> QED
      BY <1>6, <2>1, FromHalf
  <1>21. m \div 8 = n \div 8
    <2>1. /\ (m \div 8) \div 2 = (n \div 8) \div 2 /\ m \div 8 \in Nat /\ n \div 8 \in Nat
      BY <1>14, <1>20, HalfByHalf
    <2> QED
      BY <1>5, <2>1, FromHalf
  <1>22. m \div 4 = n \div 4
    <2>1. /\ (m \div 4) \div 2 = (n \div 4) \div 2 /\ m \div 4 \in Nat /\ n \div 4 \in Nat
      BY <1>14, <1>21, HalfByHalf
    <2> QED
      BY <1>4, <2>1, FromHalf
  <1>23. m \div 2 = n \div 2
    <2>1. /\ (m \div 2) \div 2 = (n \div 2) \div 2 /\ m \div 2 \in Nat /\ n \div 2 \in Nat
      BY <1>14, <1>22, HalfByHalf
    <2> QED
      BY <1>3, <2>1, FromHalf
  <1>24. m \div 1 = n \div 1
    <2>1. /\ (m \div 1) \div 2 = (n \div 1) \div 2 /\ m \div 1 \in Nat /\ n \div 1 \in Nat
      BY <1>14, <1>23, HalfByHalf
    <2> QED
      BY <1>2, <2>1, FromHalf
  <1> QED
    BY <1>14, <1>24

LEMMA NumberOfBits ==
    ASSUME NEW n \in Numbers PROVE Number(Bits(n)) = n
  <1>1. Number(Bits(n)) \in Numbers /\ Bits(Number(Bits(n))) = Bits(n)
    BY Zenon DEF Number
  <1> QED
    BY <1>1, BitsDiffer, Zenon
-----------------------------------------------------------------------------
(***************************************************************************)
(* blocking_write.                                                         *)
(***************************************************************************)

(* The level of the TX FIFO is reported in 8 bits, the length of a         *)
(* transfer is written to 11 bits.                                         *)
FieldsHold == TxDepth <= 255 /\ MaxSize \in Numbers

\* Bytes 0 to idx - 1 have been written: those on the wire, then those in the
\* FIFO; the room known to the function is there.
ArrayInv ==
    /\ overrun = FALSE
    /\ program \in {"field", "spi"} /\ (program = "field" => size = 0)
    /\ pc \in {"start", "idle"} /\ program = "spi" => left = 0 /\ idx = size
    /\ pc = "put" => idx < size /\ available > 0
    /\ size \in Numbers /\ left \in Nat /\ idx \in 0 .. size /\ available \in Nat
    /\ txf \in Seq(Nat) /\ wire \in Seq(Nat)
    /\ Len(txf) + available <= HalTxDepth
    /\ Len(wire) + Len(txf) = idx /\ Len(wire) + left = size
    /\ \A j \in 1 .. Len(wire) : wire[j] = j - 1
    /\ \A j \in 1 .. Len(txf) : txf[j] = Len(wire) + j - 1

LEMMA ReadByteCount ==
    ASSUME NEW n \in Numbers
    PROVE  Number(get(write({}, SpiRegs.start.f.byte_count, Bits(n)),
                      SpiRegs.start.f.byte_count)) = n
  <1> DEFINE f == <<0, 11, W>>
             w == write({}, f, Bits(n))
  <1>1. SpiRegs.start.f.byte_count = f
    BY DEF SpiRegs
  <1>2. Bits(n) \subseteq 0 .. 10
    BY BitsOf
  <1>3. f[1] = 0 /\ f[2] = 11 /\ mask(f) = 0 .. 10
    BY DEF mask
  <1> HIDE DEF f
  <1>4. w = Bits(n)
    BY <1>2, <1>3 DEF write, clear
  <1>5. get(w, f) = Bits(n)
    <2>1. \A b \in 0 .. 10 : b - f[1] = b
      BY <1>3
    <2> QED
      BY <1>2, <1>3, <1>4, <2>1 DEF get
  <1> HIDE DEF w
  <1> QED
    BY <1>1, <1>5, NumberOfBits DEF w

LEMMA ReadStatus ==
    ASSUME txf \in Seq(Nat), Len(txf) <= 255
    PROVE  /\ Number(get(status, SpiRegs.status.f.tx_fifo_level)) = Len(txf)
           /\ is_set(status, SpiRegs.status.f.idle) <=> left = 0
  <1> DEFINE f == <<0, 8, R>>
             g == <<18, 1, R>>
  <1>1. SpiRegs.status.f.tx_fifo_level = f /\ SpiRegs.status.f.idle = g
    BY DEF SpiRegs
  <1>2. Len(txf) \in Numbers /\ Bits(Len(txf)) \subseteq 0 .. 7
    <2>1. Len(txf) \in Numbers
      <3>1. Len(txf) \in Nat
        BY LenProperties, Zenon
      <3>2. \A k \in Nat : k <= 255 => k \in Numbers
        BY DEF Numbers
      <3> QED
        BY <3>1, <3>2, Zenon
    <2> QED
      BY <2>1, BitsOf
  <1>3. f[1] = 0 /\ mask(f) = 0 .. 7 /\ g[1] = 18 /\ mask(g) = {18}
    BY DEF mask
  <1> HIDE DEF f, g
  <1>4. status = Bits(Len(txf)) \cup (IF left = 0 THEN {18} ELSE {})
    BY <1>1, <1>3 DEF status
  <1>5. get(status, f) = Bits(Len(txf))
    <2>1. status \cap mask(f) = Bits(Len(txf))
      BY <1>2, <1>3, <1>4
    <2>2. \A b \in Bits(Len(txf)) : b - f[1] = b
      BY <1>2, <1>3
    <2> QED
      BY <2>1, <2>2 DEF get
  <1>6. is_set(status, g) <=> left = 0
    BY <1>2, <1>3, <1>4 DEF is_set
  <1> QED
    BY <1>1, <1>2, <1>5, <1>6, NumberOfBits

LEMMA ArrayInitially == ASSUME FieldsHold, Init PROVE ArrayInv
  <1>1. /\ overrun = FALSE /\ size = 0 /\ left = 0 /\ idx = 0 /\ available = 0 /\ pc = "start"
        /\ txf = <<>> /\ wire = <<>> /\ program \in {"field", "spi"}
    BY Zenon DEF Init
  <1> QED
    BY <1>1, HalAssumption DEF ArrayInv, Numbers

LEMMA ArrayKept ==
    ASSUME FieldsHold, ArrayInv, [Next]_vars PROVE ArrayInv'
  <1> DEFINE Same == UNCHANGED <<program, left, txf, wire, overrun, size, idx, available>>
  <1>1. /\ overrun = FALSE /\ size \in Numbers /\ left \in Nat /\ idx \in 0 .. size
        /\ size \in Nat /\ available \in Nat /\ txf \in Seq(Nat) /\ wire \in Seq(Nat)
        /\ Len(txf) \in Nat /\ Len(wire) \in Nat
        /\ Len(txf) + available <= HalTxDepth
        /\ Len(wire) + Len(txf) = idx /\ Len(wire) + left = size
    BY DEF ArrayInv, Numbers
  <1>2. HalTxDepth \in Nat /\ TxDepth \in Nat /\ HalTxDepth <= TxDepth /\ TxDepth <= 255
    BY HalAssumption DEF FieldsHold
  <1>3. CASE SpiShift
    <2> DEFINE t == Tail(txf)
               w == Append(wire, Head(txf))
    <2>1. /\ program = "spi" /\ left > 0 /\ txf # <<>> /\ wire' = w /\ txf' = t /\ left' = left - 1
          /\ program' = program /\ pc' = pc /\ overrun' = overrun /\ size' = size /\ idx' = idx
          /\ available' = available
      BY <1>3, Zenon DEF SpiShift
    <2>2. /\ t \in Seq(Nat) /\ Len(t) = Len(txf) - 1 /\ Len(txf) - 1 \in Nat
          /\ \A j \in 1 .. Len(t) : t[j] = txf[j + 1]
          /\ Head(txf) = txf[1] /\ Head(txf) \in Nat
      BY <1>1, <2>1, HeadTailProperties
    <2>3. /\ w \in Seq(Nat) /\ Len(w) = Len(wire) + 1 /\ w[Len(wire) + 1] = Head(txf)
          /\ \A j \in 1 .. Len(wire) : w[j] = wire[j]
      BY <1>1, <2>2, AppendProperties
    <2> HIDE DEF t, w
    <2>4. Head(txf) = Len(wire)
      BY <1>1, <2>2 DEF ArrayInv
    <2>5. ASSUME NEW j \in 1 .. Len(w) PROVE w[j] = j - 1
      <3>1. CASE j = Len(wire) + 1
        BY <1>1, <2>3, <2>4, <3>1
      <3>2. CASE j \in 1 .. Len(wire)
        BY <2>3, <3>2 DEF ArrayInv
      <3> QED
        BY <1>1, <2>3, <3>1, <3>2
    <2>6. ASSUME NEW j \in 1 .. Len(t) PROVE t[j] = Len(w) + j - 1
      <3>1. j + 1 \in 1 .. Len(txf)
        BY <1>1, <2>2
      <3>2. txf[j + 1] = Len(wire) + (j + 1) - 1
        BY <3>1 DEF ArrayInv
      <3> QED
        BY <1>1, <2>2, <2>3, <3>2
    <2>7. pc \notin {"start", "idle"} /\ (pc = "put" => idx < size /\ available > 0)
      BY <2>1 DEF ArrayInv
    <2>8. /\ left - 1 \in Nat /\ Len(t) + available <= HalTxDepth
          /\ Len(w) + Len(t) = idx /\ Len(w) + (left - 1) = size
      <3>1. /\ Len(t) = Len(txf) - 1 /\ Len(w) = Len(wire) + 1 /\ left > 0
        BY <2>1, <2>2, <2>3, Zenon
      <3>2. /\ left \in Nat /\ Len(txf) \in Nat /\ Len(wire) \in Nat /\ available \in Nat
            /\ Len(txf) + available <= HalTxDepth /\ HalTxDepth \in Nat
            /\ Len(wire) + Len(txf) = idx /\ Len(wire) + left = size
        BY <1>1, <1>2, Zenon
      <3> QED
        BY <3>1, <3>2, SMT
    <2> QED
      BY <1>1, <2>1, <2>2, <2>3, <2>5, <2>6, <2>7, <2>8, Zenon DEF ArrayInv
  <1>4. CASE Spi_Spi
    <2>1. /\ pc = "start" /\ program = "spi" /\ left' = 0 /\ txf' = <<>> /\ pc' = "idle"
          /\ UNCHANGED <<program, wire, overrun, size, idx, available>>
      BY <1>4, Zenon DEF Spi_Spi
    <2>2. left = 0 /\ idx = size
      BY <2>1 DEF ArrayInv
    <2>3. txf = <<>>
      BY <1>1, <2>2
    <2> QED
      BY <2>1, <2>2, <2>3 DEF ArrayInv
  <1>5. CASE \E n \in 1 .. MaxSize : blocking_write(n)
    <2>1. PICK n \in 1 .. MaxSize : blocking_write(n)
      BY <1>5
    <2>2. n \in Numbers
      <3>1. ASSUME NEW k \in Numbers, NEW i \in 1 .. k PROVE i \in Numbers
        <4>1. k \in Int /\ k <= 2047 /\ i \in Int /\ 1 <= i /\ i <= k
          BY SMT DEF Numbers
        <4>2. 0 <= i /\ i <= 2047
          BY <4>1, SMT
        <4> QED
          BY <4>1, <4>2, SMT DEF Numbers
      <3> QED
        BY <3>1, Zenon DEF FieldsHold
    <2>3. /\ pc = "idle" /\ program = "spi" /\ program' = "spi" /\ left' = n /\ size' = n /\ idx' = 0
          /\ available' = 0 /\ wire' = <<>> /\ pc' = "poll" /\ txf' = txf /\ overrun' = overrun
      BY <2>1, <2>2, ReadByteCount, Zenon DEF blocking_write
    <2>4. left = 0 /\ idx = size
      BY <2>3 DEF ArrayInv
    <2>5. txf = <<>>
      BY <1>1, <2>4
    <2> QED
      BY <1>1, <1>2, <2>2, <2>3, <2>5 DEF ArrayInv, Numbers
  <1>6. CASE blocking_write_poll
    <2>1. /\ program = "spi" /\ pc = "poll" /\ idx < size
          /\ available' = IF available = 0 THEN HalTxDepth - Len(txf) ELSE available
          /\ pc' = IF available' = 0 THEN "poll" ELSE "put"
          /\ UNCHANGED <<program, left, txf, wire, overrun, size, idx>>
      <3>1. Len(txf) <= 255
        BY <1>1, <1>2
      <3> QED
        BY <1>1, <3>1, <1>6, ReadStatus, Zenon DEF blocking_write_poll
    <2>2. available' \in Nat /\ Len(txf) + available' <= HalTxDepth
      BY <1>1, <1>2, <2>1
    <2> QED
      BY <1>1, <2>1, <2>2 DEF ArrayInv
  <1>7. CASE blocking_write_put
    <2>1. idx < size /\ available > 0 /\ Len(txf) < TxDepth
      <3>1. idx < size /\ available > 0
        BY <1>7 DEF ArrayInv, blocking_write_put
      <3> QED
        BY <1>1, <1>2, <3>1
    <2> DEFINE t == Append(txf, idx)
    <2>2. /\ program = "spi" /\ txf' = t /\ idx' = idx + 1 /\ available' = available - 1
          /\ pc' = "poll" /\ UNCHANGED <<program, left, wire, overrun, size>>
      BY <1>7, <2>1, Zenon DEF blocking_write_put
    <2>3. /\ t \in Seq(Nat) /\ Len(t) = Len(txf) + 1 /\ t[Len(txf) + 1] = idx
          /\ \A j \in 1 .. Len(txf) : t[j] = txf[j]
      BY <1>1, AppendProperties
    <2> HIDE DEF t
    <2>4. ASSUME NEW j \in 1 .. Len(t) PROVE t[j] = Len(wire) + j - 1
      <3>1. CASE j = Len(txf) + 1
        BY <1>1, <2>3, <3>1
      <3>2. CASE j \in 1 .. Len(txf)
        BY <2>3, <3>2 DEF ArrayInv
      <3> QED
        BY <1>1, <2>3, <3>1, <3>2
    <2>5. /\ idx + 1 \in 0 .. size /\ available - 1 \in Nat
          /\ Len(t) + (available - 1) <= HalTxDepth /\ Len(wire) + Len(t) = idx + 1
      BY <1>1, <1>2, <2>1, <2>3
    <2> QED
      BY <1>1, <2>2, <2>3, <2>4, <2>5 DEF ArrayInv
  <1>8. CASE blocking_write_return
    <2>1. /\ program = "spi" /\ idx = size /\ left = 0 /\ pc' = "idle" /\ Same
      <3>1. Len(txf) <= 255
        BY <1>1, <1>2
      <3> QED
        BY <1>1, <3>1, <1>8, ReadStatus, Zenon DEF blocking_write_return, spivars
    <2> QED
      BY <2>1 DEF ArrayInv
  <1>9. CASE Same /\ pc' = pc
    BY <1>9 DEF ArrayInv
  <1>10. CASE \E l \in Lines, d \in BOOLEAN, a \in BOOLEAN : chip_select_assert(l, d, a)
    BY <1>9, <1>10, Zenon DEF chip_select_assert
  <1>11. CASE FieldStep \/ HwUpdate
    <2>1. program = "field" /\ Same /\ pc' \in {pc, "modify", "commit", "done"}
      BY <1>11, Zenon DEF FieldStep, fetch, modify, commit, HwUpdate, spivars
    <2> QED
      BY <2>1 DEF ArrayInv
  <1>12. CASE Finished \/ UNCHANGED vars
    BY <1>9, <1>12, Zenon DEF Finished, vars, spivars
  <1> QED
    BY <1>3, <1>4, <1>5, <1>6, <1>7, <1>8, <1>10, <1>11, <1>12, Zenon DEF Next, SpiCall, SpiStep

(* blocking_write never writes to a full FIFO, and when it returns the     *)
(* whole array is on the wire, in order, for every depth that the level    *)
(* field can report and every length that the byte count can hold          *)
(* (hal/spi.hh:30-48).                                                     *)
THEOREM ArrayIsSent ==
    ASSUME FieldsHold
    PROVE  Spec => []WriteSendsTheArray
  <1>1. ArrayInv => WriteSendsTheArray
    <2> SUFFICES ASSUME ArrayInv, pc = "idle", size > 0
                 PROVE  wire = [i \in 1 .. size |-> i - 1]
      BY Zenon DEF WriteSendsTheArray, ArrayInv
    <2>1. program # "field"
      BY DEF ArrayInv
    <2> QED
      BY DEF ArrayInv
  <1>2. Init => ArrayInv
    BY ArrayInitially
  <1>3. ArrayInv /\ [Next]_vars => ArrayInv'
    BY ArrayKept
  <1> QED
    BY <1>1, <1>2, <1>3, PTL DEF Spec

=============================================================================
