---------------------------- MODULE HyperramDefs ----------------------------
(***************************************************************************)
(* Addresses, bus words and the records carried by the wires between the  *)
(* blocks of the HyperRAM interface (rtl/ip/hyperram/rtl).                 *)
(*                                                                         *)
(* An address is the index of a TL-UL bus word inside the HyperRAM window  *)
(* (a_address[HyperRAMAddrW-1:ABIT]); a line is the aligned burst of       *)
(* BufWords words that one read command fetches.  A bus word is a function *)
(* from byte lanes to bytes, because writes carry one strobe per lane.     *)
(***************************************************************************)
EXTENDS Integers, Sequences, FiniteSets

CONSTANTS
    NumLines,   \* lines in the window (2^15 in the code: 1 MiB of 32 byte bursts)
    BufWords,   \* words in a line, 1 << (BBIT - ABIT) (8 in the code)
    NumBufs,    \* read buffers of a port, MaxBufs (4 in the code)
    NumSeqs,    \* sequence numbers of a buffer, 2^3 in the code
    Lanes,      \* byte lanes of a bus word (4 in the code)
    NewBytes    \* byte values that the hosts write

ASSUME DefsAssumption ==
    /\ NumLines \in Nat \ {0}
    /\ BufWords \in Nat \ {0, 1}
    /\ NumBufs \in Nat \ {0, 1}
    /\ NumSeqs \in Nat \ {0, 1}
    /\ Lanes # {}

NumWords == NumLines * BufWords
Addr     == 0 .. NumWords - 1
Lines    == 0 .. NumLines - 1
Offsets  == 0 .. BufWords - 1
Bufs     == 0 .. NumBufs - 1
SeqNums  == 0 .. NumSeqs - 1

Line(a)   == a \div BufWords      \* addr[AW-1:BBIT]
Offset(a) == a % BufWords         \* addr[BBIT-1:ABIT]

(***************************************************************************)
(* Before the first write every byte of a word holds the index of that     *)
(* word, so that data taken from the wrong address is recognised.          *)
(* PhysWords counts the words that linear write bursts can reach: the      *)
(* device (8 MiB) is larger than the window, so a burst that runs over its *)
(* top does not wrap.                                                      *)
(***************************************************************************)
PhysWords   == NumWords + BufWords
Phys        == 0 .. PhysWords - 1
Bytes       == Phys \cup NewBytes
Word        == [Lanes -> Bytes]
InitWord(p) == [l \in Lanes |-> p]

\* A write with strobes `mask' replaces exactly the strobed lanes.
Merge(old, mask, new) == [l \in Lanes |-> IF l \in mask THEN new[l] ELSE old[l]]

-----------------------------------------------------------------------------
(* A TL-UL request on channel A.  `cap' is the capability tag of a write;  *)
(* PutFullData and PutPartialData are treated alike by the port.           *)
TLReq == [valid : BOOLEAN, op : {"Get", "Put"}, addr : Addr,
          mask : SUBSET Lanes, data : Word, cap : BOOLEAN]

NoReq == [valid |-> FALSE, op |-> "Get", addr |-> 0, mask |-> {},
          data |-> InitWord(0), cap |-> FALSE]

Get(a) == [NoReq EXCEPT !.valid = TRUE, !.addr = a]

Put(a, m, d, c) == [valid |-> TRUE, op |-> "Put", addr |-> a, mask |-> m,
                    data |-> d, cap |-> c]

\* Notification of a write accepted by the other port (wr_notify_*).
Notify == [valid : BOOLEAN, addr : Addr, mask : SUBSET Lanes, data : Word]

NoNotify == [valid |-> FALSE, addr |-> 0, mask |-> {}, data |-> InitWord(0)]

\* A sequence number: {port, buffer, number}.  Wires that nobody drives are 0.
Seqs(Ports) == [port : Ports, buf : Bufs, num : SeqNums]

SeqZero == [port |-> 0, buf |-> 0, num |-> 0]

\* Head of the Upstream FIFO as it is presented to every port.
NoUfifo == [valid |-> FALSE, seq |-> SeqZero, data |-> InitWord(0), last |-> FALSE]

=============================================================================
