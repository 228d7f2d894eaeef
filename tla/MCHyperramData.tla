--------------------------- MODULE MCHyperramData ---------------------------
(***************************************************************************)
(* The two environments in which the safety of HbmcTlTop is checked        *)
(* together.  A behaviour is one scene:                                    *)
(*   code  port I fetches what port D has loaded, D rewrites it with every *)
(*         byte mask, and I fetches it again                               *)
(*   line  port D alone reads and rewrites one line, with and without      *)
(*         capability tags, long enough for words of abandoned bursts to   *)
(*         arrive at buffers that have been taken again                    *)
(***************************************************************************)
EXTENDS MCHyperram

CONSTANT MaxCodeReq     \* bound: requests of a behaviour of the scene "code"

VARIABLE scene

\* What the hosts may ask for.  In the scene "line" one word is written, the other
\* one only read.
CodeRequests == {r \in DRequests : ~r.cap}
LineRequests == {r \in DRequests : /\ Line(r.addr) = 0
                                   /\ r.op = "Put" => r.addr = 0 /\ r.mask = Lanes}

Offers(requests, line) ==
    CASE scene = "line" -> line
      [] scene = "code" -> IF nreq < MaxCodeReq THEN requests ELSE {}

SceneTick == Cycle(Offers(CodeRequests, LineRequests), Offers(IRequests, {}))

MCScenes ==
    /\ MCInit /\ scene \in {"code", "line"}
    /\ [][/\ SceneTick \/ Controller
          /\ UNCHANGED scene
          /\ scene = "code" => Phased
          /\ Careful]_<<vars, scene>>
=============================================================================
