----------------------------- MODULE MCHyperram -----------------------------
(***************************************************************************)
(* The environments in which TLC checks HbmcTlTop.                         *)
(*                                                                         *)
(* Restrictions 1-4 keep port D away from four situations in which the     *)
(* code loses or misplaces write data; each of the specifications MCWrap,  *)
(* MCDescend, MCRoom and MCPartial lifts one of them, and TLC then shows   *)
(* what happens.  Restrictions 5 and 6 do the same for port I.             *)
(***************************************************************************)
EXTENDS HbmcTlTop, TLC

\* Written values are interchangeable.
NewBytesSymmetry == Permutations(NewBytes)

Presents(req, iss) == req'.valid /\ (iss \/ ~req.valid)
PresentsWrite == Presents(dreq, d_issue) /\ dreq'.op = "Put"
PresentsRead  == Presents(dreq, d_issue) /\ dreq'.op = "Get"

\* 1. The top word of the window is not written.
SparesTopWord == PresentsWrite => dreq'.addr # NumWords - 1

\* 2. A write just below the held word is presented before the held word ages
\*    and when the request FIFO can take it at once.
DescendsEarly ==
    PresentsWrite /\ d_wb'.stored /\ d_wb'.len = 0 /\ dreq'.addr + 1 = d_wb'.base
        => d_wb'.timer > 0 /\ Len(d_reqs') < ReqDepth

\* 3. No read is presented while a write is held and the Downstream FIFO is full.
ReadsLeaveRoom == PresentsRead /\ d_wb'.stored => Len(dfifo') < DfifoDepth

\* 4. The last word of a maximum length burst is complete before the burst is
\*    continued.
CompletesBursts ==
    PresentsWrite /\ d_wb'.stored /\ d_wb'.len = BufWords - 1 /\ dreq'.addr = d_wb'.exp
        => d_wb'.strb = Lanes

Careful == SparesTopWord /\ DescendsEarly /\ ReadsLeaveRoom /\ CompletesBursts

\* 5. Code and data are disjoint: only line 0 is written, and it is not fetched.
Disjoint ==
    /\ dreq'.valid /\ dreq'.op = "Put" => Line(dreq'.addr) = 0
    /\ ireq'.valid => Line(ireq'.addr) # 0

\* 6. Code is loaded while nothing is fetched, and fetched when it has arrived.
IQuiet == /\ ~ireq.valid /\ i_reqs = <<>>
          /\ \A k \in DOMAIN cmdq : cmdq[k].seq.port # 1
          /\ \A k \in DOMAIN ufifo : ufifo[k].seq.port # 1
          /\ hb.seq.port # 1

Phased ==
    /\ Presents(dreq, d_issue) => IQuiet'
    /\ Presents(ireq, i_issue) => /\ ~dreq'.valid /\ d_reqs' = <<>> /\ ~notif'.valid
                                  /\ NothingInFlight' /\ ufifo' = <<>>

DataOnly == ~ireq'.valid

-----------------------------------------------------------------------------
(* The validity flops start cleared, as they do after the FPGA has been    *)
(* configured; HbmcTlPort is checked with every other value as well.       *)
MCInit == Init /\ \A b \in Bufs : d_rb.valid[b] = {} /\ i_rb.valid[b] = {}

MCData     == MCInit /\ [][Next /\ DataOnly /\ Careful]_vars
MCDisjoint == MCInit /\ [][Next /\ Careful /\ Disjoint]_vars
MCPhased   == MCInit /\ [][Next /\ Careful /\ Phased]_vars

\* One restriction lifted at a time.
MCWrap     == MCInit /\ [][Next /\ DataOnly /\ DescendsEarly /\ ReadsLeaveRoom]_vars
MCDescend  == MCInit /\ [][Next /\ DataOnly /\ SparesTopWord /\ ReadsLeaveRoom]_vars
MCRoom     == MCInit /\ [][Next /\ DataOnly /\ SparesTopWord /\ DescendsEarly]_vars
MCShared   == MCInit /\ [][Next /\ Careful]_vars

-----------------------------------------------------------------------------
(* Liveness: neither clock stops.                                          *)
Controller == HbmcStart \/ HbmcReadWord \/ HbmcWriteWord

\* Code is fetched from the start of line 1, data is accessed in line 0.
Apart     == Careful /\ Disjoint /\ Line(dreq'.addr) = 0 /\ Offset(ireq'.addr) = 0
MCFair    == /\ MCInit /\ [][Next /\ Apart]_vars
             /\ WF_vars(Tick /\ Apart) /\ WF_vars(Controller /\ Apart)

\* Restriction 4 lifted.
Partial   == DataOnly /\ SparesTopWord /\ DescendsEarly /\ ReadsLeaveRoom
MCPartial == /\ MCInit /\ [][Next /\ Partial]_vars
             /\ WF_vars(Tick /\ Partial) /\ WF_vars(Controller /\ Partial)
=============================================================================
