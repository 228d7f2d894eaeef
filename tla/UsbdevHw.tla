------------------------------ MODULE UsbdevHw ------------------------------
(***************************************************************************)
(* The USB device block (vendored from OpenTitan, usbdev.sv) as its two    *)
(* drivers see it, and the USB host at the other end of the cable.  Both   *)
(* are external: only what the drivers rely on is modelled.                *)
(*                                                                         *)
(*   avsetup, avout   the Available SETUP / OUT buffer FIFOs               *)
(*   rx     the receive FIFO: endpoint, buffer and content of a packet, a  *)
(*          request for a SETUP packet                                     *)
(*   cfgin  the CONFIGIN registers                                         *)
(*   xact   the IN transaction that is on the bus: the block captures the  *)
(*          buffer when the transaction starts (in_buf_q)                  *)
(*   enabled   the pull-up is on: the host sees a device                   *)
(***************************************************************************)
EXTENDS Integers, Sequences, FiniteSets

CONSTANTS NumBuffers,      \* USBDEV_NUM_BUFFERS, 32 in the hardware
          AvSetupDepth, AvOutDepth, RxDepth,   \* FIFO depths
          MaxSetups,       \* bound: SETUP packets the host sends
          MaxOuts,         \* bound: OUT packets the host sends to endpoint 1
          MaxSends         \* bound: packets an application sends on endpoint 1

ASSUME UsbAssumption == /\ NumBuffers \in Nat \ {0}
                        /\ AvSetupDepth \in Nat \ {0}
                        /\ AvOutDepth \in Nat \ {0}
                        /\ RxDepth \in Nat \ {0}

Buffers == 0 .. NumBuffers - 1
\* Endpoint 0 is the Default Control Pipe, endpoint 1 the serial port of the
\* two applications.
Endpoints == {0, 1}
NoBuf == NumBuffers

\* Requests of the host, by what ep0_recv tells apart.  GetDesc stands for the
\* device and the configuration descriptor and for the vendor's test
\* descriptor, GetOther for any other descriptor, Other for any other request.
Requests == {"GetDesc", "GetOther", "SetAddr", "SetConfig", "Other"}
\* What the receive FIFO holds of a packet.
Packets == [ep : Endpoints, data : Requests \cup {"out"}, buf : Buffers]

VARIABLES avsetup, avout, rx, cfgin, in_sent, xact, stalled, hwaddr, enabled,
          hreq, hstage, haddr, hconf, aborting, setups, outs
hwvars == <<avsetup, avout, rx, cfgin, in_sent, xact, stalled, hwaddr, enabled>>
hostvars == <<hreq, hstage, haddr, hconf, aborting, setups, outs>>

HwInit ==
    /\ avsetup = <<>> /\ avout = <<>> /\ rx = <<>>
    /\ cfgin = [e \in Endpoints |-> [buf |-> 0, rdy |-> FALSE, sending |-> FALSE]]
    /\ in_sent = {} /\ xact = [ep |-> 0, buf |-> NoBuf]
    /\ stalled = FALSE /\ hwaddr = FALSE /\ enabled = FALSE

HostInit ==
    /\ hreq = "Other" /\ hstage = "idle"
    /\ haddr = FALSE /\ hconf = FALSE
    /\ aborting \in BOOLEAN
    /\ setups = 0 /\ outs = 0

\* The bus carries one transaction at a time, and the block answers only to
\* the address it has been given.
BusIdle == enabled /\ xact.buf = NoBuf
Addressed == hwaddr = haddr

\* The request an enumerating host makes next.  A host that gives up on
\* transfers also makes the requests that the device does not answer.
next_request(r) ==
    \/ r = IF haddr THEN IF hconf THEN "GetDesc" ELSE "SetConfig"
                    ELSE IF hreq = "GetDesc" THEN "SetAddr" ELSE "GetDesc"
    \/ aborting /\ r \in {"GetOther", "Other"}

\* A SETUP packet starts a control transfer.  It withdraws whatever endpoint 0
\* was offering and ends a stall.
HostSetup(r) ==
    /\ BusIdle /\ Addressed /\ setups < MaxSetups
    /\ hstage = "idle" \/ aborting
    /\ next_request(r)
    /\ avsetup # <<>> /\ Len(rx) < RxDepth
    /\ rx' = Append(rx, [ep |-> 0, data |-> r, buf |-> Head(avsetup)])
    /\ avsetup' = Tail(avsetup)
    /\ cfgin' = [cfgin EXCEPT ![0].rdy = FALSE, ![0].sending = FALSE]
    /\ stalled' = FALSE
    /\ hreq' = r /\ setups' = setups + 1
    /\ hstage' = IF r \in {"GetDesc", "GetOther"} THEN "data" ELSE "statusIn"
    /\ UNCHANGED <<avout, in_sent, xact, hwaddr, enabled, haddr, hconf, aborting, outs>>

\* An OUT packet: the status stage of a transfer that read a descriptor, or
\* data for endpoint 1 of a configured device.
HostOut(ep) ==
    /\ BusIdle /\ Addressed
    /\ IF ep = 0 THEN hstage = "statusOut" ELSE hconf /\ outs < MaxOuts
    /\ avout # <<>> /\ Len(rx) < RxDepth
    /\ rx' = Append(rx, [ep |-> ep, data |-> "out", buf |-> Head(avout)])
    /\ avout' = Tail(avout)
    /\ hstage' = IF ep = 0 THEN "idle" ELSE hstage
    /\ outs' = IF ep = 0 THEN outs ELSE outs + 1
    /\ UNCHANGED <<avsetup, cfgin, in_sent, xact, stalled, hwaddr, enabled, hreq,
                   haddr, hconf, aborting, setups>>

\* The host starts to collect an IN packet.
HostInStart(ep) ==
    /\ BusIdle /\ Addressed
    /\ IF ep = 0 THEN hstage \in {"data", "statusIn"} /\ ~stalled ELSE hconf
    /\ cfgin[ep].rdy
    /\ xact' = [ep |-> ep, buf |-> cfgin[ep].buf]
    /\ cfgin' = [cfgin EXCEPT ![ep].sending = TRUE]
    /\ UNCHANGED <<avsetup, avout, rx, in_sent, stalled, hwaddr, enabled,
                   hostvars>>

\* The host acknowledges the packet: IN_SENT is set, RDY and SENDING are
\* cleared whatever CONFIGIN holds by now.
HostInEnd ==
    /\ enabled /\ xact.buf # NoBuf
    /\ in_sent' = in_sent \cup {xact.ep}
    /\ cfgin' = [cfgin EXCEPT ![xact.ep].rdy = FALSE, ![xact.ep].sending = FALSE]
    /\ xact' = [ep |-> 0, buf |-> NoBuf]
    /\ IF xact.ep = 0
       THEN /\ hstage' = IF hstage = "data" THEN "statusOut" ELSE "idle"
            /\ haddr' = (haddr \/ (hstage = "statusIn" /\ hreq = "SetAddr"))
            /\ hconf' = (hconf \/ (hstage = "statusIn" /\ hreq = "SetConfig"))
       ELSE UNCHANGED <<hstage, haddr, hconf>>
    /\ UNCHANGED <<avsetup, avout, rx, stalled, hwaddr, enabled, hreq,
                   aborting, setups, outs>>

\* The host sees the stall and ends the transfer.
HostStalled ==
    /\ BusIdle /\ Addressed /\ stalled /\ hstage # "idle"
    /\ hstage' = "idle"
    /\ UNCHANGED <<hwvars, hreq, haddr, hconf, aborting, setups, outs>>

HostNext ==
    \/ \E r \in Requests : HostSetup(r)
    \/ \E ep \in Endpoints : HostOut(ep) \/ HostInStart(ep)
    \/ HostInEnd \/ HostStalled
=============================================================================
