------------------------------- MODULE MCPort -------------------------------
(***************************************************************************)
(* HbmcTlPort in an environment that drives its control inputs freely,     *)
(* with data of one value: TLC's counterpart of the theorems of            *)
(* HbmcTlPortProofs.                                                       *)
(***************************************************************************)
EXTENDS HbmcTlPort

CONSTANT MaxCycles      \* bound: length of a behaviour

VARIABLE cycles

W == InitWord(0)

Requests == {NoReq} \cup {Get(a) : a \in Addr}
            \cup (IF SupportWrites THEN {Put(a, Lanes, W, FALSE) : a \in Addr} ELSE {})

Notifications ==
    {NoNotify} \cup (IF SupportWrites THEN {}
                     ELSE {[valid |-> TRUE, addr |-> a, mask |-> Lanes, data |-> W] : a \in Addr})

\* Words of any burst that could be on its way, current or stale.
Beats == {NoUfifo} \cup {[valid |-> TRUE, seq |-> [port |-> PortID, buf |-> b, num |-> n],
                          data |-> W, last |-> TRUE] : b \in Bufs, n \in SeqNums}

Cycle ==
    /\ cycles < MaxCycles /\ cycles' = cycles + 1
    /\ \E tl \in Requests, wn \in Notifications, uf \in Beats, gnt \in BOOLEAN :
          PortClock(tl, wn, uf, FALSE, gnt, W, FALSE)

MCPortInit == PortInit /\ cycles = 0

MCPortSpec == MCPortInit /\ [][Cycle]_<<portVars, cycles>>
=============================================================================
