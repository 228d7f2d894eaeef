---------------------------- MODULE UsbdevProofs ----------------------------
(***************************************************************************)
(* Proofs about the USB device drivers (UsbdevDriver), for every number of *)
(* packet buffers, all depths of the FIFOs and any number of transfers.    *)
(***************************************************************************)
EXTENDS UsbdevDriver, WellFoundedInduction, FiniteSetTheorems, SequenceTheorems, TLAPS

-----------------------------------------------------------------------------
(* The packet buffers as numbers.                                          *)

(* A set of natural numbers that is not empty has a least element, which   *)
(* is what usbdev_buf_alloc returns.                                       *)
LEMMA MinProperties ==
    ASSUME NEW S \in SUBSET Nat, S # {}
    PROVE  Min(S) \in S /\ \A x \in S : Min(S) <= x
  <1> DEFINE R == OpToRel(<, Nat)
  <1>1. IsWellFoundedOn(R, Nat)
    BY NatLessThanWellFounded, Zenon
  <1>2. \A x, y \in Nat : y < x => <<y, x>> \in R
    BY Zenon DEF OpToRel
  <1> HIDE DEF R
  <1>3. PICK x \in S : \A y \in S : ~(<<y, x>> \in R)
    BY <1>1, WFMin, Zenon
  <1>4. \A y \in S : ~(y < x)
    BY <1>2, <1>3, Zenon
  <1>5. \A y \in S : x <= y
    BY <1>4
  <1> QED
    BY <1>5 DEF Min

LEMMA BuffersAreFinite ==
    /\ Buffers \in SUBSET Nat /\ IsFiniteSet(Buffers)
    /\ Cardinality(Buffers) = NumBuffers
    /\ \A F \in SUBSET Buffers : F \in SUBSET Nat /\ IsFiniteSet(F)
  <1>1. NumBuffers \in Nat
    BY UsbAssumption
  <1>2. Buffers \in SUBSET Nat
    BY <1>1 DEF Buffers
  <1>3. IsFiniteSet(Buffers) /\ Cardinality(Buffers) = NumBuffers
    <2>1. NumBuffers - 1 \in Int /\ 0 \in Int
          /\ (IF 0 > NumBuffers - 1 THEN 0 ELSE NumBuffers - 1 - 0 + 1) = NumBuffers
      BY <1>1
    <2> QED
      BY <2>1, FS_Interval, Zenon DEF Buffers
  <1> QED
    BY <1>2, <1>3, FS_Subset

-----------------------------------------------------------------------------
(* Type correctness.                                                       *)

(* The endpoints that usbdev_service_sending still has to handle: there    *)
(* are some exactly while it handles them, and until it clears their bits  *)
(* of IN_SENT the bits stay set.  Then, where supply_buffers returns to,   *)
(* and when ep0_recv of usbdev-utils.hh has a packet to look at.           *)
SentInv == /\ (sent # {}) <=> (pc \in {"clear", "sent"})
           /\ pc = "clear" => sent \subseteq in_sent
           /\ sent # {} => driver = "legacy"
           /\ (after # "none") <=> (pc \in {"supply_setup", "supply_out"})
           /\ (taken # "none") <=> (pc = "ep0_recv" \/ after = "ep0_recv")
           /\ (pc \in {"sent_cb", "ep0_recv"} \/ after \in {"sending", "sent_cb", "ep0_recv"})
                 => driver = "cheri"

LEMMA InitTypeOK == Init => UsbTypeOK /\ SentInv
  <1> SUFFICES ASSUME Init PROVE UsbTypeOK /\ SentInv
    OBVIOUS
  <1> USE DEF Init, HwInit, HostInit, DriverInit
  <1>1. 0 \in Buffers /\ NumBuffers \in Nat
    BY UsbAssumption DEF Buffers
  <1>2. /\ avsetup \in Seq(Buffers) /\ Len(avsetup) <= AvSetupDepth
        /\ avout \in Seq(Buffers) /\ Len(avout) <= AvOutDepth
        /\ rx \in Seq(Packets) /\ Len(rx) <= RxDepth
    BY UsbAssumption
  <1>3. /\ cfgin \in [Endpoints -> [buf : Buffers, rdy : BOOLEAN, sending : BOOLEAN]]
        /\ xact \in [ep : Endpoints, buf : Buffers \cup {NoBuf}]
        /\ reply \in [ep : Endpoints, buf : Buffers, ctrl : CtrlStates]
    BY <1>1 DEF NoReply, CtrlStates, Endpoints
  <1>4. do_disconnect \in BOOLEAN
    BY Zenon
  <1> QED
    BY <1>2, <1>3, <1>4 DEF UsbTypeOK, SentInv, Requests, CtrlStates

LEMMA EndpointsProperties ==
    \A E \in SUBSET Endpoints : E # {} => Min(E) \in E /\ Min(E) \in Endpoints
  <1>1. Endpoints \in SUBSET Nat
    BY DEF Endpoints
  <1> QED
    BY <1>1, MinProperties

LEMMA AllocProperties ==
    \A F \in SUBSET Buffers : F # {} => buf_alloc(F) \in F /\ buf_alloc(F) \in Buffers
  BY MinProperties, BuffersAreFinite, Zenon DEF buf_alloc

(* What the driver and the host write in CONFIGIN keeps its type.          *)
LEMMA CfginUpdate ==
    ASSUME NEW c \in [Endpoints -> [buf : Buffers, rdy : BOOLEAN, sending : BOOLEAN]],
           NEW e \in Endpoints, NEW b \in Buffers
    PROVE  /\ [c EXCEPT ![e].rdy = FALSE] \in [Endpoints -> [buf : Buffers, rdy : BOOLEAN, sending : BOOLEAN]]
           /\ [c EXCEPT ![e].sending = TRUE] \in [Endpoints -> [buf : Buffers, rdy : BOOLEAN, sending : BOOLEAN]]
           /\ [c EXCEPT ![e].buf = b, ![e].rdy = TRUE]
                 \in [Endpoints -> [buf : Buffers, rdy : BOOLEAN, sending : BOOLEAN]]
           /\ [c EXCEPT ![e].rdy = FALSE, ![e].sending = FALSE]
                 \in [Endpoints -> [buf : Buffers, rdy : BOOLEAN, sending : BOOLEAN]]
  <1> DEFINE Rec == [buf : Buffers, rdy : BOOLEAN, sending : BOOLEAN]
             g == c[e]
             g1 == [g EXCEPT !.rdy = FALSE]
             g2 == [g EXCEPT !.sending = TRUE]
             g3 == [g EXCEPT !.buf = b, !.rdy = TRUE]
             g4 == [g EXCEPT !.rdy = FALSE, !.sending = FALSE]
  <1>1. g \in Rec
    OBVIOUS
  <1> HIDE DEF g
  <1>2. g1 \in Rec
    BY <1>1
  <1>3. g2 \in Rec
    BY <1>1
  <1>4. g3 \in Rec
    BY <1>1
  <1>5. g4 \in Rec
    BY <1>1
  <1>6. /\ [c EXCEPT ![e].rdy = FALSE] = [c EXCEPT ![e] = g1]
        /\ [c EXCEPT ![e].sending = TRUE] = [c EXCEPT ![e] = g2]
        /\ [c EXCEPT ![e].buf = b, ![e].rdy = TRUE] = [c EXCEPT ![e] = g3]
        /\ [c EXCEPT ![e].rdy = FALSE, ![e].sending = FALSE] = [c EXCEPT ![e] = g4]
    BY DEF g
  <1> HIDE DEF g1, g2, g3, g4, Rec
  <1>7. \A h \in Rec : [c EXCEPT ![e] = h] \in [Endpoints -> Rec]
    BY DEF Rec
  <1> QED
    BY <1>2, <1>3, <1>4, <1>5, <1>6, <1>7, Zenon DEF Rec

LEMMA NextTypeOK == UsbTypeOK /\ SentInv /\ [Next]_vars => UsbTypeOK' /\ SentInv'
  <1> SUFFICES ASSUME UsbTypeOK, SentInv, [Next]_vars PROVE UsbTypeOK' /\ SentInv'
    OBVIOUS
  <1> USE DEF hwvars, hostvars, drvvars
  <1>1. CASE supply_setup_buffer \/ supply_out_buffer
    <2>1. buf_alloc(buf_free) \in Buffers
      BY <1>1, AllocProperties
      DEF supply_setup_buffer, supply_out_buffer, SetupWanted, OutWanted, UsbTypeOK
    <2>2. /\ Append(avsetup, buf_alloc(buf_free)) \in Seq(Buffers)
          /\ Len(Append(avsetup, buf_alloc(buf_free))) = Len(avsetup) + 1
          /\ Append(avout, buf_alloc(buf_free)) \in Seq(Buffers)
          /\ Len(Append(avout, buf_alloc(buf_free))) = Len(avout) + 1
          /\ Len(avsetup) \in Nat /\ Len(avout) \in Nat
      BY <2>1, AppendProperties, LenProperties DEF UsbTypeOK
    <2>3. /\ avsetup' \in Seq(Buffers) /\ Len(avsetup') <= AvSetupDepth
          /\ avout' \in Seq(Buffers) /\ Len(avout') <= AvOutDepth
      <3> DEFINE s == Append(avsetup, buf_alloc(buf_free))
                 o == Append(avout, buf_alloc(buf_free))
      <3>1. \/ avsetup' = s /\ avout' = avout /\ Len(avsetup) < AvSetupDepth
            \/ avout' = o /\ avsetup' = avsetup /\ Len(avout) < AvOutDepth
        BY <1>1 DEF supply_setup_buffer, supply_out_buffer, SetupWanted, OutWanted
      <3> HIDE DEF s, o
      <3>2. /\ s \in Seq(Buffers) /\ Len(s) = Len(avsetup) + 1
            /\ o \in Seq(Buffers) /\ Len(o) = Len(avout) + 1
        BY <2>2 DEF s, o
      <3> QED
        BY <3>1, <3>2, <2>2, UsbAssumption DEF UsbTypeOK
    <2>4. buf_free' \subseteq Buffers
      BY <1>1 DEF supply_setup_buffer, supply_out_buffer, UsbTypeOK
    <2>5. /\ pc \in {"supply_setup", "supply_out"} /\ pc' \in {"supply_setup", "supply_out"}
          /\ after' = after /\ SupplyKeeps
      BY <1>1 DEF supply_setup_buffer, supply_out_buffer, SetupWanted, OutWanted
    <2>6. UsbTypeOK'
      BY <2>3, <2>4, <2>5 DEF SupplyKeeps, UsbTypeOK
    <2>7. SentInv'
      BY <2>5 DEF SupplyKeeps, SentInv
    <2> QED
      BY <2>6, <2>7
  <1>a. CASE supply_ends
    <2>1. /\ pc \in {"supply_setup", "supply_out"} /\ pc' = after /\ after' = "none"
          /\ UNCHANGED <<avsetup, avout, buf_free>> /\ SupplyKeeps
      BY <1>a DEF supply_ends
    <2>2. after \in {"connect", "sending", "sent_cb", "recving", "ep0_recv"}
      BY <2>1 DEF SentInv, UsbTypeOK
    <2> QED
      BY <2>1, <2>2 DEF SupplyKeeps, UsbTypeOK, SentInv
  <1>b. CASE Initialise
    BY <1>b DEF Initialise, UsbTypeOK, SentInv
  <1>2. CASE service_sending_read
    BY <1>2 DEF service_sending_read, supply_buffers, UsbTypeOK, SentInv
  <1>3. CASE service_sending_clear
    BY <1>3 DEF service_sending_clear, UsbTypeOK, SentInv
  <1>4. CASE service_sending_release
    <2>1. Min(sent) \in Endpoints /\ Min(sent) \in sent
      BY <1>4, EndpointsProperties DEF service_sending_release, UsbTypeOK, SentInv
    <2>2. buf_free' \subseteq Buffers
      BY <1>4, <2>1 DEF service_sending_release, usbdev_buf_release, UsbTypeOK
    <2>3. dev_state' \in {"Reset", "Addressed", "Configured"} /\ hwaddr' \in BOOLEAN
          /\ ctrl_state' \in CtrlStates
      BY <1>4 DEF service_sending_release, ep0_sent, UsbTypeOK, CtrlStates
    <2> QED
      BY <1>4, <2>1, <2>2, <2>3
      DEF service_sending_release, supply_buffers, UsbTypeOK, SentInv
  <1>5. CASE retrieve_collected_packet
    <2>1. CASE in_sent = {}
      BY <1>5, <2>1 DEF retrieve_collected_packet, supply_buffers, UsbTypeOK, SentInv
    <2>2. CASE in_sent # {}
      <3>1. Min(in_sent) \in Endpoints
        BY <2>2, EndpointsProperties DEF UsbTypeOK
      <3>2. usbdev_buf_release(buf_free, cfgin[Min(in_sent)].buf) \in SUBSET Buffers
        BY <3>1 DEF usbdev_buf_release, UsbTypeOK
      <3> QED
        BY <1>5, <2>2, <3>1, <3>2
        DEF retrieve_collected_packet, supply_buffers, UsbTypeOK, SentInv
    <2> QED
      BY <2>1, <2>2
  <1>6. CASE ep0_sent_cb
    <2>1. dev_state' \in {"Reset", "Addressed", "Configured"} /\ hwaddr' \in BOOLEAN
          /\ ctrl_state' \in CtrlStates
      BY <1>6 DEF ep0_sent_cb, ep0_sent, UsbTypeOK, CtrlStates
    <2> QED
      BY <1>6, <2>1 DEF ep0_sent_cb, UsbTypeOK, SentInv
  <1>7. CASE usbdev_service_recving
    <2>1. CASE rx = <<>>
      BY <1>7, <2>1 DEF usbdev_service_recving, UsbTypeOK, SentInv
    <2>2. CASE rx # <<>>
      <3>1. /\ Head(rx) \in Packets /\ Tail(rx) \in Seq(Packets)
            /\ Len(Tail(rx)) <= RxDepth
        BY <2>2, UsbAssumption, HeadTailProperties DEF UsbTypeOK
      <3>2. /\ rx' = Tail(rx) /\ buf_free' \subseteq Buffers
            /\ dev_addr' \in BOOLEAN /\ stalled' \in BOOLEAN /\ ctrl_state' \in CtrlStates
            /\ reply' \in [ep : Endpoints, buf : Buffers, ctrl : CtrlStates]
            /\ pc' \in {"send", "loop"}
        <4>1. CASE is_answered(Head(rx).ep, Head(rx).data)
          <5>1. status_state(Head(rx).data) \in CtrlStates
            BY <4>1 DEF is_answered, Answered, status_state, CtrlStates
          <5>2. Head(rx).buf \in Buffers /\ 0 \in Endpoints
            BY <3>1 DEF Packets, Endpoints
          <5> QED
            BY <1>7, <2>2, <4>1, <5>1, <5>2 DEF usbdev_service_recving, UsbTypeOK
        <4>2. CASE ~is_answered(Head(rx).ep, Head(rx).data)
          <5>1. buf_free \cup {Head(rx).buf} \subseteq Buffers
            BY <3>1 DEF Packets, UsbTypeOK
          <5>2. stalled' \in BOOLEAN /\ ctrl_state' \in CtrlStates
            BY <1>7, <2>2, <4>2
            DEF usbdev_service_recving, ep0_unanswered, is_stalled, UsbTypeOK, CtrlStates
          <5> QED
            BY <1>7, <2>2, <4>2, <5>1, <5>2
            DEF usbdev_service_recving, usbdev_buf_release, UsbTypeOK
        <4> QED
          BY <4>1, <4>2
      <3> QED
        BY <1>7, <3>1, <3>2 DEF usbdev_service_recving, UsbTypeOK, SentInv
    <2> QED
      BY <2>1, <2>2
  <1>8. CASE packet_take
    <2>1. CASE rx = <<>>
      BY <1>8, <2>1 DEF packet_take, UsbTypeOK, SentInv
    <2>2. CASE rx # <<>>
      <3>1. /\ Head(rx) \in Packets /\ Tail(rx) \in Seq(Packets)
            /\ Len(Tail(rx)) <= RxDepth
        BY <2>2, UsbAssumption, HeadTailProperties DEF UsbTypeOK
      <3>2. buf_free' \subseteq Buffers
        BY <1>8, <2>2, <3>1 DEF packet_take, usbdev_buf_release, Packets, UsbTypeOK
      <3>3. Head(rx).data \in Requests \cup {"out"} /\ Head(rx).data # "none"
        BY <3>1 DEF Packets, Requests
      <3>4. /\ taken' \in Requests \cup {"out", "none"}
            /\ taken' # "none" <=> Head(rx).ep = 0
        BY <1>8, <2>2, <3>3 DEF packet_take
      <3> QED
        <4>1. /\ rx' = Tail(rx) /\ pc = "recving" /\ driver = "cheri" /\ pc' = "supply_setup"
              /\ after' = IF Head(rx).ep = 0 THEN "ep0_recv" ELSE "recving"
              /\ UNCHANGED <<avsetup, avout, cfgin, in_sent, xact, stalled, hwaddr, enabled,
                             hostvars, driver, do_disconnect, sends, dev_state, ctrl_state,
                             dev_addr, sent, reply, overwritten>>
          BY <1>8, <2>2 DEF packet_take, supply_buffers
        <4>2. UsbTypeOK'
          BY <3>1, <3>2, <3>4, <4>1 DEF UsbTypeOK
        <4>3. SentInv'
          BY <3>4, <4>1 DEF SentInv
        <4> QED
          BY <4>2, <4>3
    <2> QED
      BY <2>1, <2>2
  <1>c. CASE ep0_recv
    <2>1. buf_free # {} => buf_alloc(buf_free) \in Buffers
      BY AllocProperties DEF UsbTypeOK
    <2>2. is_answered(0, taken) => status_state(taken) \in CtrlStates
      BY DEF is_answered, Answered, status_state, CtrlStates
    <2>3. ep0_unanswered(0, taken) => stalled' \in BOOLEAN /\ ctrl_state' \in CtrlStates
      BY DEF ep0_unanswered, is_stalled, UsbTypeOK, CtrlStates
    <2>4. 0 \in Endpoints /\ dev_addr \in BOOLEAN /\ stalled \in BOOLEAN
          /\ ctrl_state \in CtrlStates /\ buf_free \subseteq Buffers
          /\ reply \in [ep : Endpoints, buf : Buffers, ctrl : CtrlStates]
      BY DEF UsbTypeOK, Endpoints
    <2>5. /\ buf_free' \subseteq Buffers
          /\ dev_addr' \in BOOLEAN /\ stalled' \in BOOLEAN /\ ctrl_state' \in CtrlStates
          /\ reply' \in [ep : Endpoints, buf : Buffers, ctrl : CtrlStates]
      <3> DEFINE b == buf_alloc(buf_free)
                 c == status_state(taken)
                 R == [ep : Endpoints, buf : Buffers, ctrl : CtrlStates]
      <3>1. b \in Buffers /\ c \in CtrlStates => [ep |-> 0, buf |-> b, ctrl |-> c] \in R
        BY <2>4
      <3> HIDE DEF b, c, R
      <3>2. \/ UNCHANGED <<buf_free, reply, stalled, ctrl_state, dev_addr>>
            \/ /\ buf_free # {} /\ is_answered(0, taken)
               /\ reply' = [ep |-> 0, buf |-> b, ctrl |-> c]
               /\ dev_addr' = (dev_addr \/ taken = "SetAddr")
               /\ buf_free' = buf_free \ {b} /\ UNCHANGED <<stalled, ctrl_state>>
            \/ ep0_unanswered(0, taken) /\ UNCHANGED <<buf_free, reply, dev_addr>>
        BY <1>c DEF ep0_recv, b, c
      <3>3. reply \in R
        BY <2>4 DEF R
      <3>4. reply' \in R
        BY <2>1, <2>2, <3>1, <3>2, <3>3 DEF b, c
      <3>5. stalled' \in BOOLEAN /\ ctrl_state' \in CtrlStates
        BY <2>3, <2>4, <3>2, Zenon
      <3>6. buf_free' \subseteq Buffers
        BY <2>4, <3>2
      <3>7. dev_addr' \in BOOLEAN
        BY <2>4, <3>2
      <3> QED
        BY <3>4, <3>5, <3>6, <3>7 DEF R
    <2>6. /\ pc = "ep0_recv" /\ taken' = "none"
          /\ \/ pc' \in {"failed", "write"} /\ after' = after
             \/ pc' = "supply_setup" /\ after' = "recving"
      BY <1>c DEF ep0_recv, supply_buffers
    <2>7. UNCHANGED <<avsetup, avout, rx, cfgin, in_sent, xact, hwaddr, enabled, hostvars,
                      driver, do_disconnect, sends, dev_state, sent, overwritten>>
      BY <1>c DEF ep0_recv
    <2>8. after = "none"
      BY <2>6 DEF SentInv
    <2>9. UsbTypeOK'
      BY <2>5, <2>6, <2>7, <2>8 DEF UsbTypeOK
    <2>10. SentInv'
      BY <2>6, <2>7, <2>8 DEF SentInv
    <2> QED
      BY <2>9, <2>10
  <1>9. CASE packet_send_read
    BY <1>9 DEF packet_send_read, UsbTypeOK, SentInv
  <1>10. CASE packet_send_retract
    <2>1. cfgin' \in [Endpoints -> [buf : Buffers, rdy : BOOLEAN, sending : BOOLEAN]]
      <3>1. cfgin' = [cfgin EXCEPT ![reply.ep].rdy = FALSE] /\ reply.ep \in Endpoints
        BY <1>10 DEF packet_send_retract, UsbTypeOK
      <3> QED
        BY <3>1, CfginUpdate, Zenon DEF UsbTypeOK
    <2> QED
      BY <1>10, <2>1 DEF packet_send_retract, UsbTypeOK, SentInv
  <1>11. CASE packet_send_release
    <2>1. buf_free' \subseteq Buffers /\ overwritten' \subseteq Endpoints
      BY <1>11 DEF packet_send_release, usbdev_buf_release, UsbTypeOK
    <2> QED
      BY <1>11, <2>1 DEF packet_send_release, UsbTypeOK, SentInv
  <1>12. CASE packet_write
    <2>1. cfgin' \in [Endpoints -> [buf : Buffers, rdy : BOOLEAN, sending : BOOLEAN]]
      <3>1. /\ cfgin' = [cfgin EXCEPT ![reply.ep].buf = reply.buf, ![reply.ep].rdy = TRUE]
            /\ reply.ep \in Endpoints /\ reply.buf \in Buffers
        BY <1>12 DEF packet_write, UsbTypeOK
      <3> QED
        BY <3>1, CfginUpdate, Zenon DEF UsbTypeOK
    <2>2. overwritten' \subseteq Endpoints /\ ctrl_state' \in CtrlStates
      BY <1>12 DEF packet_write, UsbTypeOK
    <2>3. reply' \in [ep : Endpoints, buf : Buffers, ctrl : CtrlStates]
      BY <1>12, UsbAssumption DEF packet_write, NoReply, Endpoints, Buffers, CtrlStates
    <2> QED
      BY <1>12, <2>1, <2>2, <2>3 DEF packet_write, UsbTypeOK, SentInv
  <1>13. CASE hello_usb
    <2>0. /\ buf_free # {} => buf_alloc(buf_free) \in Buffers
          /\ buf_free \subseteq Buffers /\ 1 \in Endpoints /\ "Setup" \in CtrlStates
          /\ reply \in [ep : Endpoints, buf : Buffers, ctrl : CtrlStates]
      BY AllocProperties DEF UsbTypeOK, Endpoints, CtrlStates
    <2>1. /\ buf_free' \subseteq Buffers
          /\ reply' \in [ep : Endpoints, buf : Buffers, ctrl : CtrlStates]
      BY <1>13, <2>0 DEF hello_usb, send_on_ep1
    <2>2. pc = "loop" /\ pc' \in {"send", "sending"}
      BY <1>13 DEF hello_usb, send_on_ep1
    <2>3. enabled' \in BOOLEAN /\ hwaddr' \in BOOLEAN
      BY <1>13 DEF hello_usb, UsbTypeOK
    <2>a. sends' \in Nat
      BY <1>13 DEF hello_usb, send_on_ep1, UsbTypeOK
    <2> QED
      BY <1>13, <2>1, <2>2, <2>3, <2>a DEF hello_usb, UsbTypeOK, SentInv
  <1>14. CASE usbdev_check
    <2>0. /\ buf_free # {} => buf_alloc(buf_free) \in Buffers
          /\ buf_free \subseteq Buffers /\ 1 \in Endpoints /\ "Setup" \in CtrlStates
          /\ reply \in [ep : Endpoints, buf : Buffers, ctrl : CtrlStates]
      BY AllocProperties DEF UsbTypeOK, Endpoints, CtrlStates
    <2>1. /\ buf_free' \subseteq Buffers
          /\ reply' \in [ep : Endpoints, buf : Buffers, ctrl : CtrlStates]
      BY <1>14, <2>0 DEF usbdev_check, send_on_ep1
    <2>2. pc = "loop" /\ pc' \in {"write", "sending"}
      BY <1>14 DEF usbdev_check, send_on_ep1
    <2>3. enabled' \in BOOLEAN /\ hwaddr' \in BOOLEAN
      BY <1>14 DEF usbdev_check, UsbTypeOK
    <2>a. sends' \in Nat
      BY <1>14 DEF usbdev_check, send_on_ep1, UsbTypeOK
    <2>4. UNCHANGED <<avsetup, avout, rx, cfgin, in_sent, xact, stalled, hostvars, driver,
                      do_disconnect, after, taken, dev_state, ctrl_state, dev_addr, sent,
                      overwritten>>
      BY <1>14 DEF usbdev_check
    <2>5. UsbTypeOK'
      BY <2>1, <2>2, <2>3, <2>4, <2>a DEF UsbTypeOK
    <2>6. SentInv'
      BY <2>2, <2>4 DEF SentInv
    <2> QED
      BY <2>5, <2>6
  <1>15. ASSUME NEW r \in Requests, HostSetup(r), UNCHANGED drvvars
         PROVE  UsbTypeOK' /\ SentInv'
    <2>1. /\ avsetup' \in Seq(Buffers) /\ Len(avsetup') <= AvSetupDepth
          /\ Head(avsetup) \in Buffers
      BY <1>15, UsbAssumption, HeadTailProperties DEF HostSetup, UsbTypeOK
    <2>2. rx' \in Seq(Packets) /\ Len(rx') <= RxDepth
      BY <1>15, <2>1, UsbAssumption, AppendProperties
      DEF HostSetup, UsbTypeOK, Packets, Endpoints
    <2>3. cfgin' \in [Endpoints -> [buf : Buffers, rdy : BOOLEAN, sending : BOOLEAN]]
      <3>1. cfgin' = [cfgin EXCEPT ![0].rdy = FALSE, ![0].sending = FALSE] /\ 0 \in Endpoints
        BY <1>15 DEF HostSetup, Endpoints
      <3> QED
        BY <3>1, CfginUpdate, Zenon DEF UsbTypeOK
    <2>4. stalled' \in BOOLEAN /\ hreq' \in Requests /\ hstage' \in {"data", "statusIn"}
      BY <1>15 DEF HostSetup
    <2>5. UNCHANGED <<avout, in_sent, xact, hwaddr, enabled, haddr, hconf, aborting>>
      BY <1>15 DEF HostSetup
    <2>a. setups' \in Nat /\ outs' \in Nat /\ sends' \in Nat
      BY <1>15 DEF HostSetup, UsbTypeOK
    <2>6. UNCHANGED <<driver, do_disconnect, pc, after, taken, buf_free, dev_state, ctrl_state,
                      dev_addr, sent, reply, overwritten>>
      BY <1>15
    <2>7. UsbTypeOK'
      BY <2>1, <2>2, <2>3, <2>4, <2>5, <2>a, <2>6 DEF UsbTypeOK
    <2>8. SentInv'
      BY <2>5, <2>6 DEF SentInv
    <2> QED
      BY <2>7, <2>8
  <1>16. ASSUME NEW ep \in Endpoints, HostOut(ep), UNCHANGED drvvars
         PROVE  UsbTypeOK' /\ SentInv'
    <2>1. /\ avout' \in Seq(Buffers) /\ Len(avout') <= AvOutDepth
          /\ Head(avout) \in Buffers
      BY <1>16, UsbAssumption, HeadTailProperties DEF HostOut, UsbTypeOK
    <2>2. rx' \in Seq(Packets) /\ Len(rx') <= RxDepth
      BY <1>16, <2>1, UsbAssumption, AppendProperties DEF HostOut, UsbTypeOK, Packets
    <2> QED
      BY <1>16, <2>1, <2>2 DEF HostOut, UsbTypeOK, SentInv
  <1>17. ASSUME NEW ep \in Endpoints, HostInStart(ep), UNCHANGED drvvars
         PROVE  UsbTypeOK' /\ SentInv'
    <2>1. cfgin' \in [Endpoints -> [buf : Buffers, rdy : BOOLEAN, sending : BOOLEAN]]
      BY <1>17, CfginUpdate, Zenon DEF HostInStart, UsbTypeOK
    <2>2. xact' \in [ep : Endpoints, buf : Buffers \cup {NoBuf}]
      BY <1>17 DEF HostInStart, UsbTypeOK
    <2> QED
      BY <1>17, <2>1, <2>2 DEF HostInStart, UsbTypeOK, SentInv
  <1>18. CASE HostInEnd /\ UNCHANGED drvvars
    <2>1. cfgin' \in [Endpoints -> [buf : Buffers, rdy : BOOLEAN, sending : BOOLEAN]]
      <3>1. /\ cfgin' = [cfgin EXCEPT ![xact.ep].rdy = FALSE, ![xact.ep].sending = FALSE]
            /\ xact.ep \in Endpoints
        BY <1>18 DEF HostInEnd, UsbTypeOK
      <3> QED
        BY <3>1, CfginUpdate, Zenon DEF UsbTypeOK
    <2>2. xact' \in [ep : Endpoints, buf : Buffers \cup {NoBuf}]
      BY <1>18 DEF HostInEnd, Endpoints
    <2>3. in_sent' \subseteq Endpoints
      BY <1>18 DEF HostInEnd, UsbTypeOK
    <2>4. /\ hstage' \in {"idle", "data", "statusIn", "statusOut"}
          /\ haddr' \in BOOLEAN /\ hconf' \in BOOLEAN
      BY <1>18 DEF HostInEnd, UsbTypeOK
    <2> QED
      BY <1>18, <2>1, <2>2, <2>3, <2>4 DEF HostInEnd, UsbTypeOK, SentInv
  <1>19. CASE HostStalled /\ UNCHANGED drvvars
    BY <1>19 DEF HostStalled, UsbTypeOK, SentInv
  <1>20. CASE UNCHANGED vars
    BY <1>20 DEF vars, UsbTypeOK, SentInv
  <1> QED
    BY <1>1, <1>a, <1>b, <1>2, <1>3, <1>4, <1>5, <1>6, <1>7, <1>8, <1>c, <1>9, <1>10, <1>11,
       <1>12, <1>13, <1>14, <1>15, <1>16, <1>17, <1>18, <1>19, <1>20
    DEF Next, DriverNext, HostStep, HostNext

(* The FIFOs never exceed their depths, and every register and variable of *)
(* the drivers stays in its type, for any number of buffers and any depths.*)
THEOREM UsbTypeCorrect == Spec => []UsbTypeOK
  <1>1. Spec => [](UsbTypeOK /\ SentInv)
    BY InitTypeOK, NextTypeOK, PTL DEF Spec
  <1> QED
    BY <1>1, PTL

-----------------------------------------------------------------------------
(* The Default Control Pipe.                                               *)

Replying == pc \in {"send", "retract", "wait", "write"}
Answering == Replying /\ reply.ep = 0
Offered0 == cfgin[0].rdy \/ cfgin[0].sending
stage(r) == IF r \in {"GetDesc", "GetOther"} THEN "data" ELSE "statusIn"
NoPacket0 == \A i \in 1 .. Len(rx) : rx[i].ep # 0
IsSetup(i) == rx[i].ep = 0 /\ rx[i].data # "out"
Handling == taken \notin {"none", "out"}
Collected0 == 0 \in in_sent \cup sent \/ pc = "sent_cb" \/ after = "sent_cb"

(* SENDING is set for the endpoint of the transaction on the bus.          *)
XactInv == \A e \in Endpoints : cfgin[e].sending <=> (xact.buf # NoBuf /\ xact.ep = e)

(* A request is in one place: in the receive FIFO, where nothing for       *)
(* endpoint 0 comes after it, taken from there for ep0_recv, with the      *)
(* driver that answers it, or answered by the packet that endpoint 0       *)
(* offers.  It is then the host's latest request, in its first stage.      *)
SetupInv ==
    \A i \in 1 .. Len(rx) : IsSetup(i) =>
        /\ hreq = rx[i].data /\ hstage = stage(hreq) /\ ~stalled
        /\ ~Answering /\ ~Offered0 /\ ~Handling
        /\ \A j \in 1 .. Len(rx) : rx[j].ep = 0 => j <= i
TakenInv ==
    Handling => hreq = taken /\ hstage = stage(hreq) /\ ~stalled /\ ~Offered0 /\ NoPacket0
AnswerInv ==
    Answering =>
        /\ hreq \in Answered /\ reply.ctrl = status_state(hreq) /\ hstage = stage(hreq)
        /\ ~stalled /\ ctrl_state = "Setup" /\ ~Offered0 /\ NoPacket0
        /\ pc \in {"send", "write"}
OfferInv ==
    Offered0 => /\ hreq \in Answered /\ hstage = stage(hreq) /\ ~stalled /\ NoPacket0
                /\ taken = "none"
OneRequest == SetupInv /\ TakenInv /\ AnswerInv /\ OfferInv

(* As long as no packet of endpoint 0 was replaced before its collection   *)
(* was serviced: while a packet is offered the control state is the one    *)
(* of its request, and once it has been collected the host has completed   *)
(* the request that the control state names.                               *)
StatusInv ==
    0 \notin overwritten =>
        /\ Offered0 => ctrl_state = status_state(hreq) /\ ~Collected0
        /\ Collected0 => /\ ctrl_state = "StatusSetAddr" => haddr
                         /\ ctrl_state = "StatusSetConfig" => hconf
        /\ pc = "sent" => ~(0 \in sent /\ 0 \in in_sent)
        /\ hwaddr => haddr
        /\ dev_state = "Configured" => hconf

(* usbdev.c never replaces a packet of endpoint 0: a collection that the   *)
(* control state does not wait for any more is handled before the driver   *)
(* looks at the receive FIFO again.                                        *)
LegacyInv ==
    driver = "legacy" =>
        /\ 0 \notin overwritten
        /\ (0 \in in_sent /\ ctrl_state = "Setup") =>
              /\ pc \notin {"supply_setup", "supply_out", "recving", "sent"} /\ ~Answering
              /\ pc = "clear" => 0 \in sent

ProtoInv == XactInv /\ OneRequest /\ StatusInv /\ LegacyInv

LEMMA InitProto == Init => ProtoInv
  <1> SUFFICES ASSUME Init PROVE ProtoInv
    OBVIOUS
  <1> USE DEF Init, HwInit, HostInit, DriverInit
  <1>1. Len(rx) = 0 /\ ~Replying /\ ~Offered0
    BY DEF Replying, Offered0, Endpoints
  <1>2. XactInv
    BY DEF XactInv
  <1>3. OneRequest
    BY <1>1 DEF OneRequest, SetupInv, TakenInv, AnswerInv, OfferInv, Answering, Handling
  <1>4. StatusInv /\ LegacyInv
    BY <1>1 DEF StatusInv, LegacyInv, Collected0
  <1> QED
    BY <1>2, <1>3, <1>4 DEF ProtoInv

(* What the receive FIFO holds after a packet is taken and after one is    *)
(* added.                                                                  *)
LEMMA TakeRx ==
    ASSUME rx \in Seq(Packets), rx # <<>>, rx' = Tail(rx)
    PROVE  /\ Len(rx) \in Nat /\ Len(rx) # 0 /\ Len(rx') = Len(rx) - 1
           /\ Head(rx) = rx[1]
           /\ \A i \in 1 .. Len(rx') : i + 1 \in 1 .. Len(rx) /\ rx'[i] = rx[i + 1]
  BY HeadTailProperties, LenProperties, EmptySeq

LEMMA AddRx ==
    ASSUME rx \in Seq(Packets), NEW p \in Packets, rx' = Append(rx, p)
    PROVE  /\ Len(rx) \in Nat /\ Len(rx') = Len(rx) + 1 /\ rx'[Len(rx) + 1] = p
           /\ \A i \in 1 .. Len(rx) : rx'[i] = rx[i]
  BY AppendProperties, LenProperties

LEMMA StatusStates ==
    \A r \in Answered : /\ status_state(r) # "Setup"
                        /\ (status_state(r) = "StatusSetAddr") => r = "SetAddr"
                        /\ (status_state(r) = "StatusSetConfig") => r = "SetConfig"
  BY DEF Answered, status_state

(* Actions that touch neither endpoint 0 nor its control state.            *)
LEMMA ProtoSupply ==
    ASSUME UsbTypeOK, SentInv, ProtoInv,
           supply_setup_buffer \/ supply_out_buffer \/ supply_ends \/ Initialise
    PROVE  ProtoInv'
  <1> USE DEF hostvars
  <1>1. /\ UNCHANGED <<rx, cfgin, in_sent, xact, stalled, hwaddr, hreq, hstage, haddr, hconf,
                       driver, taken, dev_state, ctrl_state, sent, reply, overwritten>>
        /\ \/ /\ pc \in {"supply_setup", "supply_out"} /\ after' = after
              /\ pc' \in {"supply_setup", "supply_out"}
           \/ pc \in {"supply_setup", "supply_out"} /\ pc' = after /\ after' = "none"
           \/ pc = "connect" /\ pc' = "sending" /\ after' = after
    BY DEF supply_setup_buffer, supply_out_buffer, supply_ends, Initialise, SupplyKeeps,
           SetupWanted, OutWanted
  <1>2. /\ pc' \in {"supply_setup", "supply_out", "connect", "sending", "sent_cb", "recving",
                    "ep0_recv"}
        /\ pc \in {"supply_setup", "supply_out", "connect"}
        /\ pc' \in {"supply_setup", "supply_out", "recving"} => pc # "connect"
    BY <1>1 DEF SentInv, UsbTypeOK
  <1>3. Offered0' = Offered0 /\ ~Answering' /\ ~Answering /\ Collected0' = Collected0
    BY <1>1, <1>2 DEF Offered0, Answering, Replying, Collected0
  <1>4. OneRequest'
    BY <1>1, <1>3 DEF ProtoInv, OneRequest, SetupInv, TakenInv, AnswerInv, OfferInv, NoPacket0,
       IsSetup, Handling
  <1>5. StatusInv'
    BY <1>1, <1>2, <1>3 DEF ProtoInv, StatusInv
  <1>6. LegacyInv'
    BY <1>1, <1>2, <1>3 DEF ProtoInv, LegacyInv
  <1>7. XactInv'
    BY <1>1 DEF ProtoInv, XactInv
  <1> QED
    BY <1>4, <1>5, <1>6, <1>7 DEF ProtoInv

(* service_sending of both drivers: a collection is handled in the control *)
(* state that waited for it.                                               *)
LEMMA ProtoSending ==
    ASSUME UsbTypeOK, SentInv, ProtoInv,
           \/ service_sending_read \/ service_sending_clear
           \/ service_sending_release \/ retrieve_collected_packet \/ ep0_sent_cb
    PROVE  ProtoInv'
  <1> USE DEF hostvars, hwvars, supply_buffers
  <1>1. /\ UNCHANGED <<rx, cfgin, xact, stalled, hreq, hstage, haddr, hconf,
                       driver, taken, reply, overwritten>>
        /\ pc \in {"sending", "clear", "sent", "sent_cb"}
        /\ pc' \in {"sending", "clear", "sent", "supply_setup"}
    BY DEF service_sending_read, service_sending_clear, service_sending_release,
           retrieve_collected_packet, ep0_sent_cb
  <1>2. \/ ctrl_state' = ctrl_state /\ hwaddr' = hwaddr /\ dev_state' = dev_state
        \/ Collected0 /\ ep0_sent
    <2>1. sent # {} => Min(sent) \in sent
      BY EndpointsProperties DEF UsbTypeOK
    <2>3. CASE service_sending_read \/ service_sending_clear
      BY <2>3 DEF service_sending_read, service_sending_clear
    <2>4. CASE service_sending_release
      BY <2>1, <2>4 DEF service_sending_release, SentInv, Collected0
    <2>5. CASE retrieve_collected_packet
      BY <2>5 DEF retrieve_collected_packet
    <2>6. CASE ep0_sent_cb
      BY <2>6 DEF ep0_sent_cb, Collected0
    <2> QED
      BY <2>3, <2>4, <2>5, <2>6
  <1>3. Collected0' => Collected0
    <2>1. in_sent # {} => Min(in_sent) \in in_sent
      BY EndpointsProperties DEF UsbTypeOK
    <2>2. CASE retrieve_collected_packet
      BY <2>1, <2>2 DEF retrieve_collected_packet, Collected0
    <2>3. CASE ep0_sent_cb
      BY <2>3 DEF ep0_sent_cb, Collected0
    <2>4. CASE service_sending_read \/ service_sending_clear \/ service_sending_release
      BY <2>4
      DEF service_sending_read, service_sending_clear, service_sending_release, Collected0, SentInv
    <2> QED
      BY <2>2, <2>3, <2>4
  <1>4. Offered0' = Offered0 /\ ~Answering' /\ ~Answering
    BY <1>1 DEF Offered0, Answering, Replying
  <1>5. XactInv'
    BY <1>1 DEF ProtoInv, XactInv
  <1>6. OneRequest'
    BY <1>1, <1>4 DEF ProtoInv, OneRequest, SetupInv, TakenInv, AnswerInv, OfferInv,
       NoPacket0, IsSetup, Handling
  <1>7. pc' = "sent" /\ 0 \notin overwritten => ~(0 \in sent' /\ 0 \in in_sent')
    BY DEF service_sending_read, service_sending_clear, service_sending_release,
           retrieve_collected_packet, ep0_sent_cb, ProtoInv, StatusInv, SentInv
  <1>8. StatusInv'
    <2>1. CASE ctrl_state' = ctrl_state /\ hwaddr' = hwaddr /\ dev_state' = dev_state
      BY <2>1, <1>1, <1>3, <1>4, <1>7 DEF ProtoInv, StatusInv
    <2>2. CASE Collected0 /\ ep0_sent
      <3>1. ctrl_state' = "Setup"
        BY <2>2 DEF ep0_sent
      <3> SUFFICES ASSUME 0 \notin overwritten PROVE StatusInv'
        BY <1>1 DEF StatusInv
      <3>2. ~Offered0 /\ (hwaddr' => haddr) /\ (dev_state' = "Configured" => hconf)
        BY <2>2 DEF ProtoInv, StatusInv, ep0_sent
      <3> QED
        BY <3>1, <3>2, <1>1, <1>4, <1>7 DEF StatusInv
    <2> QED
      BY <1>2, <2>1, <2>2
  <1>9. LegacyInv'
    <2> SUFFICES ASSUME driver = "legacy" PROVE LegacyInv'
      BY <1>1 DEF LegacyInv
    <2>0. 0 \notin overwritten' /\ 0 \notin overwritten
      BY <1>1 DEF ProtoInv, LegacyInv
    <2>1. CASE service_sending_read
      BY <2>1, <2>0, <1>4 DEF service_sending_read, LegacyInv
    <2>2. CASE service_sending_clear
      BY <2>2, <2>0, <1>4 DEF service_sending_clear, LegacyInv, ProtoInv
    <2>3. CASE service_sending_release
      <3>1. Min(sent) \in sent
        BY <2>3, EndpointsProperties DEF service_sending_release, SentInv, UsbTypeOK
      <3>2. 0 \in in_sent' /\ ctrl_state' = "Setup" => FALSE
        BY <2>3, <2>0, <3>1 DEF service_sending_release, ep0_sent, LegacyInv, StatusInv, ProtoInv
      <3> QED
        BY <3>2, <2>0 DEF LegacyInv
    <2>4. CASE retrieve_collected_packet
      BY <2>4 DEF retrieve_collected_packet
    <2>5. CASE ep0_sent_cb
      BY <2>5 DEF ep0_sent_cb, SentInv
    <2> QED
      BY <2>1, <2>2, <2>3, <2>4, <2>5
  <1> QED
    BY <1>5, <1>6, <1>8, <1>9 DEF ProtoInv

(* A received packet is taken.  A request moves from the receive FIFO to   *)
(* the driver, which answers it.                                           *)
LEMMA ProtoRecving ==
    ASSUME UsbTypeOK, SentInv, ProtoInv, usbdev_service_recving \/ packet_take
    PROVE  ProtoInv'
  <1> USE DEF hostvars
  <1> DEFINE p == Head(rx)
  <1>0. taken = "none" /\ after = "none" /\ pc = "recving"
    BY DEF usbdev_service_recving, packet_take, SentInv
  <1>1. /\ UNCHANGED <<cfgin, in_sent, xact, hwaddr, hreq, hstage, haddr, hconf,
                       driver, dev_state, sent, overwritten>>
        /\ pc = "recving" /\ pc' \in {"supply_setup", "loop", "send"}
        /\ after' # "sent_cb"
        /\ driver = "legacy" => pc' \in {"loop", "send"}
    BY <1>0 DEF usbdev_service_recving, packet_take, supply_buffers
  <1>2. \/ rx' = rx /\ UNCHANGED <<taken, reply, stalled, ctrl_state>> /\ pc' = "loop"
        \/ /\ rx # <<>> /\ rx' = Tail(rx) /\ driver = "cheri"
           /\ UNCHANGED <<reply, stalled, ctrl_state>> /\ pc' = "supply_setup"
           /\ taken' = IF p.ep = 0 THEN p.data ELSE "none"
        \/ /\ rx # <<>> /\ rx' = Tail(rx) /\ is_answered(p.ep, p.data)
           /\ reply'.ep = 0 /\ reply'.ctrl = status_state(p.data)
           /\ UNCHANGED <<taken, stalled, ctrl_state>> /\ pc' = "send"
        \/ /\ rx # <<>> /\ rx' = Tail(rx) /\ ~is_answered(p.ep, p.data)
           /\ ep0_unanswered(p.ep, p.data) /\ UNCHANGED <<taken, reply>> /\ pc' = "loop"
    <2>1. CASE rx = <<>>
      BY <2>1 DEF usbdev_service_recving, packet_take
    <2>2. CASE rx # <<>> /\ usbdev_service_recving
      BY <2>2 DEF usbdev_service_recving
    <2>3. CASE rx # <<>> /\ packet_take
      BY <2>3 DEF packet_take, supply_buffers
    <2> QED
      BY <2>1, <2>2, <2>3
  <1>3. Offered0' = Offered0 /\ ~Answering /\ Collected0' = Collected0
    BY <1>0, <1>1 DEF Offered0, Answering, Replying, Collected0
  <1>4. XactInv'
    BY <1>1 DEF ProtoInv, XactInv
  <1>5. CASE rx' = rx
    <2>1. UNCHANGED <<taken, reply, stalled, ctrl_state>> /\ pc' = "loop"
      <3>1. Len(rx) \in Nat
        BY LenProperties DEF UsbTypeOK
      <3>2. rx # <<>> => rx # Tail(rx)
        BY <3>1, HeadTailProperties, EmptySeq DEF UsbTypeOK
      <3> QED
        BY <1>2, <1>5, <3>2
    <2>2. ~Answering'
      BY <2>1 DEF Answering, Replying
    <2>3. OneRequest'
      BY <1>1, <1>3, <1>5, <2>1, <2>2
      DEF ProtoInv, OneRequest, SetupInv, TakenInv, AnswerInv, OfferInv, NoPacket0, IsSetup,
          Handling
    <2>4. StatusInv' /\ LegacyInv'
      BY <1>1, <1>3, <2>1, <2>2 DEF ProtoInv, StatusInv, LegacyInv
    <2> QED
      BY <1>4, <2>3, <2>4 DEF ProtoInv
  <1>6. CASE rx # <<>> /\ rx' = Tail(rx)
    <2>1. /\ Len(rx) \in Nat /\ Len(rx) # 0 /\ Len(rx') = Len(rx) - 1
          /\ p = rx[1]
          /\ \A i \in 1 .. Len(rx') : i + 1 \in 1 .. Len(rx) /\ rx'[i] = rx[i + 1]
      BY <1>6, TakeRx DEF UsbTypeOK
    <2> HIDE DEF p
    <2>2. 1 \in 1 .. Len(rx) /\ p \in Packets
      BY <2>1 DEF UsbTypeOK
    <2>3. IsSetup(1) => NoPacket0' /\ ~Offered0 /\ hreq = p.data /\ hstage = stage(hreq) /\ ~stalled
      BY <2>1, <2>2 DEF ProtoInv, OneRequest, SetupInv, NoPacket0
    <2>4. p.ep = 0 => ~Offered0
      BY <2>1, <2>2 DEF ProtoInv, OneRequest, OfferInv, NoPacket0
    <2>5. NoPacket0 => NoPacket0'
      BY <2>1 DEF NoPacket0
    <2>6. is_answered(p.ep, p.data) \/ is_stalled(p.ep, p.data) => IsSetup(1)
      BY <2>1 DEF is_answered, is_stalled, IsSetup, Answered
    <2>7. \A i \in 1 .. Len(rx') : IsSetup(i)' =>
             /\ hreq = rx'[i].data /\ hstage = stage(hreq) /\ ~stalled /\ ~Offered0
             /\ ~IsSetup(1)
             /\ \A j \in 1 .. Len(rx') : rx'[j].ep = 0 => j <= i
      <3> TAKE i \in 1 .. Len(rx')
      <3> HAVE IsSetup(i)'
      <3>1. IsSetup(i + 1) /\ i + 1 \in 1 .. Len(rx) /\ rx'[i] = rx[i + 1]
        BY <2>1 DEF IsSetup
      <3>2. /\ hreq = rx[i + 1].data /\ hstage = stage(hreq) /\ ~stalled /\ ~Offered0
            /\ \A j \in 1 .. Len(rx) : rx[j].ep = 0 => j <= i + 1
        BY <3>1 DEF ProtoInv, OneRequest, SetupInv
      <3>3. ~IsSetup(1)
        <4> SUFFICES ASSUME IsSetup(1) PROVE FALSE
          OBVIOUS
        <4>1. \A j \in 1 .. Len(rx) : rx[j].ep = 0 => j <= 1
          BY <2>2 DEF ProtoInv, OneRequest, SetupInv
        <4> QED
          BY <4>1, <3>1 DEF IsSetup
      <3>4. \A j \in 1 .. Len(rx') : rx'[j].ep = 0 => j <= i
        <4> TAKE j \in 1 .. Len(rx')
        <4>1. j + 1 \in 1 .. Len(rx) /\ rx'[j] = rx[j + 1]
          BY <2>1
        <4>2. rx'[j].ep = 0 => j + 1 <= i + 1
          BY <3>2, <4>1, Zenon
        <4>3. j \in Int /\ i \in Int
          OBVIOUS
        <4> QED
          BY <4>2, <4>3
      <3> QED
        BY <3>1, <3>2, <3>3, <3>4
    <2>8. \/ /\ pc' = "supply_setup" /\ driver = "cheri" /\ UNCHANGED <<reply, stalled, ctrl_state>>
             /\ taken' = IF p.ep = 0 THEN p.data ELSE "none"
          \/ /\ is_answered(p.ep, p.data) /\ reply'.ep = 0 /\ reply'.ctrl = status_state(p.data)
             /\ UNCHANGED <<taken, stalled, ctrl_state>> /\ pc' = "send"
          \/ /\ ~is_answered(p.ep, p.data) /\ ep0_unanswered(p.ep, p.data)
             /\ UNCHANGED <<taken, reply>> /\ pc' = "loop"
      <3>1. rx' # rx
        BY <2>1
      <3> QED
        BY <1>2, <3>1
    <2>9. CASE is_answered(p.ep, p.data) /\ pc' = "send"
      <3>1. /\ IsSetup(1) /\ NoPacket0' /\ ~Offered0 /\ hreq = p.data /\ hstage = stage(hreq)
            /\ ~stalled /\ ctrl_state = "Setup" /\ hreq \in Answered
            /\ reply'.ep = 0 /\ reply'.ctrl = status_state(hreq)
            /\ UNCHANGED <<taken, stalled, ctrl_state>>
        BY <2>3, <2>6, <2>8, <2>9 DEF is_answered
      <3>2. AnswerInv' /\ OfferInv' /\ TakenInv'
        BY <1>0, <1>1, <1>3, <2>9, <3>1 DEF AnswerInv, OfferInv, TakenInv, Handling
      <3>3. SetupInv'
        BY <2>7, <3>1, <1>0, <1>3 DEF SetupInv, Handling
      <3>4. StatusInv'
        BY <1>1, <1>3, <2>9, <3>1 DEF ProtoInv, StatusInv
      <3>5. LegacyInv'
        BY <1>1, <2>9, <3>1 DEF ProtoInv, LegacyInv
      <3> QED
        BY <1>4, <3>2, <3>3, <3>4, <3>5 DEF ProtoInv, OneRequest
    <2>10. CASE /\ pc' = "supply_setup" /\ driver = "cheri" /\ UNCHANGED <<reply, stalled, ctrl_state>>
                /\ taken' = IF p.ep = 0 THEN p.data ELSE "none"
      <3>1. ~Answering' /\ driver # "legacy"
        BY <1>1, <2>10 DEF Answering, Replying
      <3>2. Handling' <=> IsSetup(1)
        BY <2>1, <2>2, <2>10 DEF Handling, IsSetup, Packets, Requests
      <3>3. Handling' => taken' = p.data
        BY <2>10 DEF Handling
      <3>4. AnswerInv' /\ OfferInv' /\ TakenInv'
        BY <1>1, <1>3, <2>3, <2>4, <2>5, <2>10, <3>1, <3>2, <3>3
        DEF AnswerInv, OfferInv, TakenInv, ProtoInv, OneRequest
      <3>5. SetupInv'
        BY <1>1, <1>3, <2>7, <2>10, <3>1, <3>2 DEF SetupInv
      <3>6. StatusInv' /\ LegacyInv'
        BY <1>1, <1>3, <2>10, <3>1 DEF ProtoInv, StatusInv, LegacyInv
      <3> QED
        BY <1>4, <3>4, <3>5, <3>6 DEF ProtoInv, OneRequest
    <2>11. CASE ~is_answered(p.ep, p.data) /\ ep0_unanswered(p.ep, p.data) 
                /\ UNCHANGED <<taken, reply>> /\ pc' = "loop"
      <3>1. ~Answering'
        BY <2>11 DEF Answering, Replying
      <3>2. Offered0 => stalled' = stalled /\ ctrl_state' = ctrl_state
        BY <2>4, <2>11 DEF ep0_unanswered, is_stalled, UsbTypeOK
      <3>3. AnswerInv' /\ OfferInv' /\ TakenInv'
        BY <1>0, <1>1, <1>3, <2>5, <2>11, <3>1, <3>2
        DEF AnswerInv, OfferInv, TakenInv, Handling, ProtoInv, OneRequest
      <3>4. ~IsSetup(1) => stalled' = stalled
        BY <2>6, <2>11 DEF ep0_unanswered, UsbTypeOK
      <3>5. SetupInv'
        BY <1>0, <1>1, <1>3, <2>7, <2>11, <3>1, <3>4 DEF SetupInv, Handling
      <3>6. ctrl_state' \in {ctrl_state, "Setup"}
        BY <2>11 DEF ep0_unanswered
      <3>7. StatusInv'
        BY <1>1, <1>3, <2>11, <3>2, <3>6 DEF ProtoInv, StatusInv
      <3>8. LegacyInv'
        BY <1>1, <2>11, <3>1, <3>6 DEF ProtoInv, LegacyInv
      <3> QED
        BY <1>4, <3>3, <3>5, <3>7, <3>8 DEF ProtoInv, OneRequest
    <2> QED
      BY <2>8, <2>9, <2>10, <2>11
  <1> QED
    BY <1>2, <1>5, <1>6

(* ep0_recv of usbdev-utils.hh looks at the packet that was taken.         *)
LEMMA ProtoTaken ==
    ASSUME UsbTypeOK, SentInv, ProtoInv, ep0_recv
    PROVE  ProtoInv'
  <1> USE DEF hostvars
  <1>1. /\ UNCHANGED <<rx, cfgin, in_sent, xact, hwaddr, hreq, hstage, haddr, hconf,
                       driver, dev_state, sent, overwritten>>
        /\ pc = "ep0_recv" /\ taken' = "none" /\ driver = "cheri" /\ after = "none"
        /\ after' # "sent_cb" /\ pc' \in {"failed", "write", "supply_setup"}
    BY DEF ep0_recv, supply_buffers, SentInv
  <1>2. \/ pc' = "failed" /\ UNCHANGED <<reply, stalled, ctrl_state>>
        \/ /\ is_answered(0, taken) /\ reply'.ep = 0 /\ reply'.ctrl = status_state(taken)
           /\ UNCHANGED <<stalled, ctrl_state>> /\ pc' = "write"
        \/ /\ ~is_answered(0, taken) /\ ep0_unanswered(0, taken) /\ UNCHANGED reply
           /\ pc' = "supply_setup"
    BY DEF ep0_recv, supply_buffers
  <1>3. taken # "none" /\ ~Offered0 /\ ~Answering
    BY <1>1 DEF SentInv, ProtoInv, OneRequest, OfferInv, Answering, Replying
  <1>4. ~Offered0' /\ ~Handling' /\ Collected0' = Collected0 /\ NoPacket0' = NoPacket0
    BY <1>1, <1>3 DEF Offered0, Handling, Collected0, NoPacket0
  <1>5. /\ is_answered(0, taken) \/ is_stalled(0, taken) => Handling
        /\ is_answered(0, taken) => taken \in Answered /\ ctrl_state = "Setup"
    BY DEF is_answered, is_stalled, Handling, Answered
  <1>6. AnswerInv'
    <2>1. CASE pc' # "write"
      BY <1>1, <2>1 DEF AnswerInv, Answering, Replying
    <2>2. CASE pc' = "write"
      <3>1. /\ is_answered(0, taken) /\ reply'.ctrl = status_state(taken)
            /\ UNCHANGED <<stalled, ctrl_state>>
        BY <1>2, <2>2
      <3>2. hreq = taken /\ hstage = stage(hreq) /\ ~stalled /\ NoPacket0
        BY <1>5, <3>1 DEF ProtoInv, OneRequest, TakenInv
      <3> QED
        BY <1>1, <1>4, <1>5, <2>2, <3>1, <3>2 DEF AnswerInv
    <2> QED
      BY <2>1, <2>2
  <1>7. SetupInv'
    <2> SUFFICES ASSUME NEW i \in 1 .. Len(rx), IsSetup(i)
                 PROVE  /\ ~stalled' /\ ~Answering'
      BY <1>1, <1>4 DEF ProtoInv, OneRequest, SetupInv, IsSetup
    <2>1. ~Handling /\ ~stalled
      BY DEF ProtoInv, OneRequest, SetupInv
    <2> QED
      BY <1>2, <1>5, <2>1 DEF ep0_unanswered, UsbTypeOK, Answering, Replying
  <1>8. TakenInv' /\ OfferInv'
    BY <1>4 DEF TakenInv, OfferInv
  <1>9. ctrl_state' \in {ctrl_state, "Setup"}
    BY <1>2 DEF ep0_unanswered
  <1>10. StatusInv' /\ LegacyInv'
    BY <1>1, <1>4, <1>9 DEF ProtoInv, StatusInv, LegacyInv
  <1>11. XactInv'
    BY <1>1 DEF ProtoInv, XactInv
  <1> QED
    BY <1>6, <1>7, <1>8, <1>10, <1>11 DEF ProtoInv, OneRequest

(* packet_send and the applications.  What is withdrawn or replaced is a   *)
(* packet of endpoint 1 unless the driver is the CHERI one.                *)
LEMMA ProtoSend ==
    ASSUME UsbTypeOK, SentInv, ProtoInv,
           \/ packet_send_read \/ packet_send_retract \/ packet_send_release
           \/ packet_write \/ hello_usb \/ usbdev_check
    PROVE  ProtoInv'
  <1> USE DEF hostvars, hwvars
  <1>0. /\ pc \in {"send", "retract", "wait", "write", "loop"} /\ pc' # "sent_cb"
        /\ UNCHANGED <<after, taken>> /\ after = "none" /\ taken = "none"
    <2>1. /\ pc \in {"send", "retract", "wait", "write", "loop"} /\ pc' # "sent_cb"
          /\ UNCHANGED <<after, taken>>
      BY DEF packet_send_read, packet_send_retract, packet_send_release, packet_write,
             hello_usb, usbdev_check, send_on_ep1
    <2> QED
      BY <2>1 DEF SentInv
  <1>z. ~Handling /\ ~Handling' /\ (in_sent' = in_sent /\ sent' = sent => Collected0' = Collected0)
    BY <1>0 DEF Handling, Collected0
  <1>1. CASE packet_send_read
    <2>1. /\ UNCHANGED <<rx, cfgin, in_sent, xact, stalled, hwaddr, hreq, hstage, haddr, hconf,
                         driver, dev_state, ctrl_state, sent, reply, overwritten>>
          /\ pc = "send" /\ pc' \in {"retract", "write"}
          /\ ~cfgin[reply.ep].rdy => pc' = "write"
      BY <1>1 DEF packet_send_read
    <2>2. Offered0' = Offered0 /\ Answering' = Answering
      BY <2>1 DEF Offered0, Answering, Replying
    <2>3. AnswerInv'
      BY <2>1, <2>2 DEF ProtoInv, OneRequest, AnswerInv, NoPacket0, Offered0, Answering
    <2>4. SetupInv' /\ OfferInv' /\ TakenInv'
      BY <1>0, <1>z, <2>1, <2>2
      DEF ProtoInv, OneRequest, SetupInv, TakenInv, OfferInv, NoPacket0, IsSetup
    <2>5. StatusInv' /\ LegacyInv' /\ XactInv'
      BY <1>0, <1>z, <2>1, <2>2 DEF ProtoInv, StatusInv, LegacyInv, XactInv
    <2> QED
      BY <2>3, <2>4, <2>5 DEF ProtoInv, OneRequest
  <1>2. CASE packet_send_retract
    <2>1. reply.ep = 1 /\ ~Answering /\ ~Answering'
      BY <1>2 DEF packet_send_retract, ProtoInv, OneRequest, AnswerInv, Answering, Replying,
                  UsbTypeOK, Endpoints
    <2>2. /\ cfgin'[0] = cfgin[0]
          /\ \A e \in Endpoints : cfgin'[e].sending = cfgin[e].sending
      BY <1>2, <2>1 DEF packet_send_retract, UsbTypeOK, Endpoints
    <2>3. Offered0' = Offered0
      BY <2>2 DEF Offered0
    <2>4. OneRequest'
      BY <1>0, <1>z, <1>2, <2>1, <2>3 DEF packet_send_retract, ProtoInv, OneRequest, SetupInv, TakenInv, AnswerInv,
         OfferInv, NoPacket0, IsSetup
    <2>5. StatusInv' /\ LegacyInv'
      BY <1>0, <1>z, <1>2, <2>1, <2>3 DEF packet_send_retract, ProtoInv, StatusInv, LegacyInv
    <2>6. XactInv'
      BY <1>2, <2>2 DEF packet_send_retract, ProtoInv, XactInv
    <2> QED
      BY <2>4, <2>5, <2>6 DEF ProtoInv
  <1>3. CASE packet_send_release
    <2>1. reply.ep = 1 /\ ~Answering /\ ~Answering'
      BY <1>3 DEF packet_send_release, ProtoInv, OneRequest, AnswerInv, Answering, Replying,
                  UsbTypeOK, Endpoints
    <2>2. /\ UNCHANGED <<rx, cfgin, in_sent, xact, stalled, hwaddr, hreq, hstage, haddr, hconf,
                         driver, dev_state, ctrl_state, sent, reply>>
          /\ pc = "wait" /\ pc' = "write"
          /\ (0 \in overwritten' <=> 0 \in overwritten)
      BY <1>3, <2>1 DEF packet_send_release
    <2>3. Offered0' = Offered0
      BY <2>2 DEF Offered0
    <2>4. OneRequest'
      BY <1>0, <1>z, <2>2, <2>1, <2>3 DEF ProtoInv, OneRequest, SetupInv, TakenInv, AnswerInv,
         OfferInv, NoPacket0, IsSetup
    <2>5. StatusInv' /\ LegacyInv' /\ XactInv'
      BY <1>0, <1>z, <2>2, <2>1, <2>3 DEF ProtoInv, StatusInv, LegacyInv, XactInv
    <2> QED
      BY <2>4, <2>5 DEF ProtoInv
  <1>4. CASE packet_write /\ reply.ep = 0
    <2>1. /\ UNCHANGED <<rx, in_sent, xact, stalled, hwaddr, hreq, hstage, haddr, hconf,
                         driver, dev_state, sent>>
          /\ pc = "write" /\ pc' \in {"loop", "recving"} /\ ctrl_state' = reply.ctrl
      BY <1>4 DEF packet_write
    <2>2. /\ Answering /\ ~Answering' /\ ~Offered0
          /\ hreq \in Answered /\ reply.ctrl = status_state(hreq) /\ hstage = stage(hreq)
          /\ ~stalled /\ ctrl_state = "Setup" /\ NoPacket0
      BY <1>4, <2>1 DEF ProtoInv, OneRequest, AnswerInv, Answering, Replying
    <2>3. \A e \in Endpoints : cfgin'[e].sending = cfgin[e].sending
      BY <1>4 DEF packet_write, UsbTypeOK, Endpoints
    <2>4. NoPacket0'
      BY <2>1, <2>2 DEF NoPacket0
    <2>5. OneRequest'
      BY <1>0, <1>z, <2>1, <2>2, <2>4 DEF OneRequest, SetupInv, TakenInv, AnswerInv, OfferInv, NoPacket0, IsSetup
    <2>6. 0 \notin overwritten' <=> 0 \notin overwritten /\ 0 \notin in_sent
      BY <1>4, <2>2 DEF packet_write, Offered0, UsbTypeOK
    <2>7. 0 \notin sent /\ (Collected0 <=> 0 \in in_sent)
      BY <1>0, <2>1 DEF SentInv, Collected0
    <2>8. StatusInv'
      BY <1>0, <1>z, <2>1, <2>2, <2>6, <2>7, StatusStates DEF ProtoInv, StatusInv
    <2>9. LegacyInv'
      BY <2>1, <2>2, <2>6, StatusStates DEF ProtoInv, LegacyInv
    <2>10. XactInv'
      BY <2>1, <2>3 DEF ProtoInv, XactInv
    <2> QED
      BY <2>5, <2>8, <2>9, <2>10 DEF ProtoInv
  <1>5. CASE packet_write /\ reply.ep = 1
    <2>1. /\ UNCHANGED <<rx, in_sent, xact, stalled, hwaddr, hreq, hstage, haddr, hconf,
                         driver, dev_state, sent, ctrl_state>>
          /\ pc = "write" /\ pc' = "sending"
          /\ (0 \in overwritten' <=> 0 \in overwritten)
      BY <1>5 DEF packet_write
    <2>2. ~Answering /\ ~Answering'
      BY <1>5, <2>1 DEF Answering, Replying
    <2>3. /\ cfgin'[0] = cfgin[0]
          /\ \A e \in Endpoints : cfgin'[e].sending = cfgin[e].sending
      BY <1>5 DEF packet_write, UsbTypeOK, Endpoints
    <2>4. Offered0' = Offered0
      BY <2>3 DEF Offered0
    <2>5. OneRequest'
      BY <1>0, <1>z, <2>1, <2>2, <2>4 DEF ProtoInv, OneRequest, SetupInv, TakenInv, AnswerInv, OfferInv, NoPacket0,
         IsSetup
    <2>6. StatusInv' /\ LegacyInv'
      BY <1>0, <1>z, <2>1, <2>2, <2>4 DEF ProtoInv, StatusInv, LegacyInv
    <2>7. XactInv'
      BY <2>1, <2>3 DEF ProtoInv, XactInv
    <2> QED
      BY <2>5, <2>6, <2>7 DEF ProtoInv
  <1>6. CASE hello_usb \/ usbdev_check
    <2>1. /\ UNCHANGED <<rx, cfgin, in_sent, xact, stalled, hreq, hstage, haddr, hconf,
                         driver, dev_state, ctrl_state, sent, overwritten>>
          /\ pc = "loop" /\ pc' \in {"sending", "send", "write"}
          /\ hwaddr' => hwaddr
      BY <1>6 DEF hello_usb, usbdev_check, send_on_ep1, UsbTypeOK
    <2>2. ~Answering /\ ~Answering'
      BY <1>6 DEF hello_usb, usbdev_check, send_on_ep1, Answering, Replying
    <2>3. Offered0' = Offered0
      BY <2>1 DEF Offered0
    <2>4. OneRequest'
      BY <1>0, <1>z, <2>1, <2>2, <2>3 DEF ProtoInv, OneRequest, SetupInv, TakenInv, AnswerInv, OfferInv, NoPacket0,
         IsSetup
    <2>5. StatusInv' /\ LegacyInv' /\ XactInv'
      BY <1>0, <1>z, <2>1, <2>2, <2>3 DEF ProtoInv, StatusInv, LegacyInv, XactInv
    <2> QED
      BY <2>4, <2>5 DEF ProtoInv
  <1>7. reply.ep = 0 \/ reply.ep = 1
    BY DEF UsbTypeOK, Endpoints
  <1> QED
    BY <1>1, <1>2, <1>3, <1>4, <1>5, <1>6, <1>7

(* The host.  It makes a new request when its last one has ended, or when  *)
(* the driver has long dealt with all that it received.                    *)
LEMMA ProtoHost ==
    ASSUME UsbTypeOK, SentInv, ProtoInv, HostStep
    PROVE  ProtoInv'
  <1> USE DEF hostvars, hwvars, drvvars
  <1>0. UNCHANGED <<driver, pc, after, taken, dev_state, ctrl_state, sent, reply, overwritten>>
    BY DEF HostStep
  <1>z. /\ Handling' = Handling /\ (in_sent' = in_sent => Collected0' = Collected0)
        /\ (in_sent' = in_sent \cup {0} => Collected0')
        /\ (in_sent' = in_sent \cup {1} => Collected0' = Collected0)
    BY <1>0 DEF Handling, Collected0
  <1>1. ASSUME NEW r \in Requests, HostSetup(r) PROVE ProtoInv'
    <2>1. Head(avsetup) \in Buffers
      BY <1>1, HeadTailProperties DEF HostSetup, UsbTypeOK
    <2> DEFINE p == [ep |-> 0, data |-> r, buf |-> Head(avsetup)]
    <2>2. p \in Packets
      BY <2>1 DEF Packets, Endpoints
    <2>3. /\ Len(rx) \in Nat /\ Len(rx') = Len(rx) + 1 /\ rx'[Len(rx) + 1] = p
          /\ \A i \in 1 .. Len(rx) : rx'[i] = rx[i]
      BY <1>1, <2>2, AddRx DEF HostSetup, UsbTypeOK
    <2>4. /\ UNCHANGED <<in_sent, xact, hwaddr, haddr, hconf>>
          /\ hreq' = r /\ hstage' = stage(r) /\ ~stalled' /\ xact.buf = NoBuf
      BY <1>1 DEF HostSetup, stage, BusIdle
    <2>5. /\ ~cfgin'[0].rdy /\ ~cfgin'[0].sending /\ cfgin'[1] = cfgin[1]
      BY <1>1 DEF HostSetup, UsbTypeOK, Endpoints
    <2>6. hstage = "idle" \/ (rx = <<>> /\ ~Replying /\ taken = "none")
      BY <1>1 DEF HostStep, HostSetup, HostTimeout, Replying, UsbTypeOK
    <2>7. ~Answering /\ ~Handling /\ \A i \in 1 .. Len(rx) : ~IsSetup(i)
      BY <2>6 DEF ProtoInv, OneRequest, AnswerInv, TakenInv, SetupInv, stage, Answering, Handling
    <2>8. ~Offered0' /\ ~Answering' /\ ~Handling'
      BY <1>0, <1>z, <2>5, <2>7 DEF Offered0, Answering, Replying
    <2>9. SetupInv'
      <3> SUFFICES ASSUME NEW i \in 1 .. Len(rx'), IsSetup(i)'
                   PROVE  /\ hreq' = rx'[i].data /\ hstage' = stage(hreq')
                          /\ \A j \in 1 .. Len(rx') : rx'[j].ep = 0 => j <= i
        BY <2>4, <2>8 DEF SetupInv
      <3>1. i = Len(rx) + 1
        BY <2>3, <2>7 DEF IsSetup
      <3> QED
        BY <3>1, <2>3, <2>4
    <2>10. AnswerInv' /\ OfferInv' /\ TakenInv'
      BY <2>8 DEF AnswerInv, OfferInv, TakenInv
    <2>11. StatusInv' /\ LegacyInv'
      BY <1>z, <1>0, <2>4, <2>8, <2>7 DEF ProtoInv, StatusInv, LegacyInv
    <2>12. XactInv'
      BY <2>4, <2>5 DEF ProtoInv, XactInv, Endpoints
    <2> QED
      BY <2>9, <2>10, <2>11, <2>12 DEF ProtoInv, OneRequest
  <1>2. ASSUME NEW ep \in Endpoints, HostOut(ep) PROVE ProtoInv'
    <2>1. Head(avout) \in Buffers
      BY <1>2, HeadTailProperties DEF HostOut, UsbTypeOK
    <2> DEFINE p == [ep |-> ep, data |-> "out", buf |-> Head(avout)]
    <2>2. p \in Packets
      BY <2>1 DEF Packets
    <2>3. /\ Len(rx) \in Nat /\ Len(rx') = Len(rx) + 1 /\ rx'[Len(rx) + 1] = p
          /\ \A i \in 1 .. Len(rx) : rx'[i] = rx[i]
      BY <1>2, <2>2, AddRx DEF HostOut, UsbTypeOK
    <2>4. UNCHANGED <<cfgin, in_sent, xact, stalled, hwaddr, hreq, haddr, hconf>>
      BY <1>2 DEF HostOut
    <2>5. Offered0' = Offered0 /\ Answering' = Answering
      BY <1>0, <2>4 DEF Offered0, Answering, Replying
    <2>6. \A i \in 1 .. Len(rx') : IsSetup(i)' => i \in 1 .. Len(rx) /\ IsSetup(i)
      BY <2>3 DEF IsSetup
    <2>7. CASE ep = 0
      <3>1. hstage = "statusOut"
        BY <1>2, <2>7 DEF HostOut
      <3>2. ~Offered0 /\ ~Answering /\ ~Handling /\ \A i \in 1 .. Len(rx) : ~IsSetup(i)
        BY <3>1 DEF ProtoInv, OneRequest, OfferInv, AnswerInv, TakenInv, SetupInv, stage
      <3> QED
        BY <1>0, <1>z, <2>4, <2>5, <2>6, <3>2 DEF OneRequest, SetupInv, TakenInv, AnswerInv,
           OfferInv, ProtoInv, StatusInv, LegacyInv, XactInv
    <2>8. CASE ep = 1
      <3>1. hstage' = hstage
        BY <1>2, <2>8 DEF HostOut
      <3>2. NoPacket0 => NoPacket0'
        BY <2>3, <2>8 DEF NoPacket0
      <3>3. AnswerInv' /\ OfferInv' /\ TakenInv'
        BY <1>0, <1>z, <2>4, <2>5, <3>1, <3>2
        DEF ProtoInv, OneRequest, AnswerInv, OfferInv, TakenInv
      <3>4. SetupInv'
        BY <1>z, <2>3, <2>4, <2>5, <2>6, <2>8, <3>1 DEF ProtoInv, OneRequest, SetupInv
      <3>5. StatusInv' /\ LegacyInv' /\ XactInv'
        BY <1>z, <1>0, <2>4, <2>5 DEF ProtoInv, StatusInv, LegacyInv, XactInv
      <3> QED
        BY <3>3, <3>4, <3>5 DEF ProtoInv, OneRequest
    <2> QED
      BY <2>7, <2>8 DEF Endpoints
  <1>3. ASSUME NEW ep \in Endpoints, HostInStart(ep) PROVE ProtoInv'
    <2>1. /\ UNCHANGED <<rx, in_sent, stalled, hwaddr, hreq, hstage, haddr, hconf>>
          /\ xact.buf = NoBuf /\ xact'.ep = ep /\ xact'.buf = cfgin[ep].buf /\ cfgin[ep].rdy
      BY <1>3 DEF HostInStart, BusIdle
    <2>2. cfgin[ep].buf # NoBuf
      BY UsbAssumption DEF UsbTypeOK, Buffers, NoBuf
    <2>3. \A e \in Endpoints : /\ cfgin'[e].rdy = cfgin[e].rdy
                               /\ cfgin'[e].sending <=> (e = ep \/ cfgin[e].sending)
      BY <1>3 DEF HostInStart, UsbTypeOK
    <2>4. Offered0' <=> Offered0
      BY <2>1, <2>3 DEF Offered0, Endpoints
    <2>5. Answering' = Answering
      BY <1>0 DEF Answering, Replying
    <2>6. OneRequest'
      BY <1>z, <1>0, <2>1, <2>4, <2>5 DEF ProtoInv, OneRequest, SetupInv, TakenInv, AnswerInv, OfferInv,
         NoPacket0, IsSetup
    <2>7. StatusInv' /\ LegacyInv'
      BY <1>z, <1>0, <2>1, <2>4, <2>5 DEF ProtoInv, StatusInv, LegacyInv
    <2>8. XactInv'
      BY <2>1, <2>2, <2>3 DEF ProtoInv, XactInv
    <2> QED
      BY <2>6, <2>7, <2>8 DEF ProtoInv
  <1>4. CASE HostInEnd /\ xact.ep = 0
    <2>1. /\ UNCHANGED <<rx, stalled, hwaddr, hreq>>
          /\ xact.buf # NoBuf /\ xact'.buf = NoBuf /\ in_sent' = in_sent \cup {0}
          /\ haddr' = (haddr \/ (hstage = "statusIn" /\ hreq = "SetAddr"))
          /\ hconf' = (hconf \/ (hstage = "statusIn" /\ hreq = "SetConfig"))
      BY <1>4 DEF HostInEnd
    <2>2. /\ ~cfgin'[0].rdy /\ ~cfgin'[0].sending /\ cfgin'[1] = cfgin[1]
      BY <1>4 DEF HostInEnd, UsbTypeOK, Endpoints
    <2>3. Offered0 /\ ~Offered0'
      BY <1>4, <2>1, <2>2 DEF ProtoInv, XactInv, Offered0, Endpoints
    <2>4. hreq \in Answered /\ hstage = stage(hreq) /\ NoPacket0
      BY <2>3 DEF ProtoInv, OneRequest, OfferInv
    <2>5. ~Answering /\ ~Answering' /\ ~Handling /\ ~Handling'
      BY <1>0, <1>z, <2>3 DEF ProtoInv, OneRequest, AnswerInv, TakenInv, Answering, Replying
    <2>6. OneRequest'
      BY <1>z, <2>1, <2>3, <2>4, <2>5 DEF OneRequest, SetupInv, TakenInv, AnswerInv, OfferInv, NoPacket0, IsSetup
    <2>7. StatusInv'
      <3> SUFFICES ASSUME 0 \notin overwritten PROVE StatusInv'
        BY <1>0 DEF StatusInv
      <3>1. ctrl_state = status_state(hreq) /\ 0 \notin sent
        BY <2>3 DEF ProtoInv, StatusInv, Collected0
      <3>2. (ctrl_state = "StatusSetAddr" => haddr') /\ (ctrl_state = "StatusSetConfig" => hconf')
        BY <2>1, <2>4, <3>1, StatusStates DEF stage
      <3>3. (haddr => haddr') /\ (hconf => hconf')
        BY <2>1
      <3> QED
        BY <1>0, <2>1, <2>3, <3>1, <3>2, <3>3 DEF ProtoInv, StatusInv
    <2>8. LegacyInv'
      <3> SUFFICES ASSUME driver = "legacy" PROVE LegacyInv'
        BY <1>0 DEF LegacyInv
      <3>1. 0 \notin overwritten
        BY DEF ProtoInv, LegacyInv
      <3>2. ctrl_state = status_state(hreq)
        BY <2>3, <3>1 DEF ProtoInv, StatusInv
      <3> QED
        BY <1>0, <2>4, <3>1, <3>2, StatusStates DEF LegacyInv
    <2>9. XactInv'
      BY <1>4, <2>1, <2>2 DEF ProtoInv, XactInv, Endpoints
    <2> QED
      BY <2>6, <2>7, <2>8, <2>9 DEF ProtoInv
  <1>5. CASE HostInEnd /\ xact.ep = 1
    <2>1. /\ UNCHANGED <<rx, stalled, hwaddr, hreq, hstage, haddr, hconf>>
          /\ xact.buf # NoBuf /\ xact'.buf = NoBuf /\ in_sent' = in_sent \cup {1}
      BY <1>5 DEF HostInEnd
    <2>2. ~cfgin'[1].sending /\ cfgin'[0] = cfgin[0]
      BY <1>5 DEF HostInEnd, UsbTypeOK, Endpoints
    <2>3. Offered0' = Offered0 /\ Answering' = Answering
      BY <1>0, <2>2 DEF Offered0, Answering, Replying
    <2>4. OneRequest'
      BY <1>z, <1>0, <2>1, <2>3 DEF ProtoInv, OneRequest, SetupInv, TakenInv, AnswerInv, OfferInv,
         NoPacket0, IsSetup
    <2>5. StatusInv' /\ LegacyInv'
      BY <1>z, <1>0, <2>1, <2>3 DEF ProtoInv, StatusInv, LegacyInv
    <2>6. XactInv'
      BY <1>5, <2>1, <2>2 DEF ProtoInv, XactInv, Endpoints
    <2> QED
      BY <2>4, <2>5, <2>6 DEF ProtoInv
  <1>6. CASE HostStalled
    <2>1. UNCHANGED <<rx, cfgin, in_sent, xact, stalled, hwaddr, hreq, haddr, hconf>> /\ stalled
      BY <1>6 DEF HostStalled
    <2>2. ~Offered0 /\ ~Answering /\ ~Handling /\ \A i \in 1 .. Len(rx) : ~IsSetup(i)
      BY <2>1 DEF ProtoInv, OneRequest, SetupInv, TakenInv, AnswerInv, OfferInv
    <2>3. ~Offered0' /\ ~Answering' /\ \A i \in 1 .. Len(rx') : ~IsSetup(i)'
      BY <1>0, <2>1, <2>2 DEF Offered0, Answering, Replying, IsSetup
    <2>4. OneRequest'
      BY <1>z, <2>2, <2>3 DEF OneRequest, SetupInv, TakenInv, AnswerInv, OfferInv
    <2>5. StatusInv' /\ LegacyInv' /\ XactInv'
      BY <1>z, <1>0, <2>1, <2>2, <2>3 DEF ProtoInv, StatusInv, LegacyInv, XactInv
    <2> QED
      BY <2>4, <2>5 DEF ProtoInv
  <1>7. xact.ep = 0 \/ xact.ep = 1
    BY DEF UsbTypeOK, Endpoints
  <1> QED
    BY <1>1, <1>2, <1>3, <1>4, <1>5, <1>6, <1>7 DEF HostStep, HostNext

LEMMA NextProto == UsbTypeOK /\ SentInv /\ ProtoInv /\ [Next]_vars => ProtoInv'
  <1> SUFFICES ASSUME UsbTypeOK, SentInv, ProtoInv, [Next]_vars PROVE ProtoInv'
    OBVIOUS
  <1>1. CASE UNCHANGED vars
    BY <1>1 DEF vars, hwvars, hostvars, drvvars, ProtoInv, XactInv, OneRequest, SetupInv,
       TakenInv, AnswerInv, OfferInv, NoPacket0, IsSetup, Handling, Collected0, StatusInv, LegacyInv,
       Offered0, Answering, Replying
  <1> QED
    BY <1>1, ProtoSupply, ProtoSending, ProtoRecving, ProtoTaken, ProtoSend, ProtoHost
    DEF Next, DriverNext

(* usbdev.c takes its address, and calls itself configured, only after the *)
(* host has collected the status packet of that very request, whatever the *)
(* host does; the CHERI driver does so unless it replaced a packet of      *)
(* endpoint 0 whose collection it had not serviced.                        *)
THEOREM StateFollowsStatus == Spec => []StateFollowsStatusStage
  <1>1. Spec => [](UsbTypeOK /\ SentInv /\ ProtoInv)
    BY InitTypeOK, NextTypeOK, InitProto, NextProto, PTL DEF Spec
  <1>2. ProtoInv => StateFollowsStatusStage
    BY DEF ProtoInv, StatusInv, LegacyInv, StateFollowsStatusStage
  <1> QED
    BY <1>1, <1>2, PTL

-----------------------------------------------------------------------------
(* The packet buffers.                                                     *)

Items(s) == {s[i] : i \in 1 .. Len(s)}
Distinct(s) == \A i, j \in 1 .. Len(s) : s[i] = s[j] => i = j
Bufs(q) == [i \in 1 .. Len(q) |-> q[i].buf]

(* The buffer of a CONFIGIN register is in use while its packet is offered *)
(* or withdrawn, and until the driver has handled its collection.          *)
Held(e) == \/ cfgin[e].rdy \/ cfgin[e].sending \/ e \in in_sent \cup sent
           \/ pc \in {"retract", "wait"} /\ reply.ep = e
InCfg(e) == IF Held(e) THEN {cfgin[e].buf} ELSE {}
InReply == IF Replying THEN {reply.buf} ELSE {}

Exclusive(f, a, o, r, c, d, p) ==
    /\ f \cap (a \cup o \cup r \cup c \cup d \cup p) = {}
    /\ a \cap (o \cup r \cup c \cup d \cup p) = {}
    /\ o \cap (r \cup c \cup d \cup p) = {}
    /\ r \cap (c \cup d \cup p) = {}
    /\ c \cap (d \cup p) = {}
    /\ d \cap p = {}

DistinctInv == Distinct(avsetup) /\ Distinct(avout) /\ Distinct(Bufs(rx))
ExclusiveInv == Exclusive(buf_free, Items(avsetup), Items(avout), Items(Bufs(rx)),
                          InCfg(0), InCfg(1), InReply)
AllHeld == Buffers \subseteq buf_free \cup Items(avsetup) \cup Items(avout)
                             \cup Items(Bufs(rx)) \cup InCfg(0) \cup InCfg(1) \cup InReply

(* Where a packet is on its way through CONFIGIN.                          *)
CfgInv ==
    /\ \A e \in in_sent \cup sent : ~cfgin[e].rdy /\ ~cfgin[e].sending
    /\ pc = "sent" => sent \cap in_sent = {}
    /\ pc = "retract" => cfgin[reply.ep].rdy \/ reply.ep \in in_sent
    /\ pc = "wait" => ~cfgin[reply.ep].rdy

HeldInv == (overwritten = {} /\ pc # "failed") =>
               CfgInv /\ DistinctInv /\ ExclusiveInv /\ (aborting \/ AllHeld)

(* Sequences without duplicates.                                           *)
LEMMA TakeItems ==
    ASSUME NEW S, NEW s \in Seq(S), s # <<>>, Distinct(s)
    PROVE  /\ Head(s) \in Items(s) /\ Items(Tail(s)) = Items(s) \ {Head(s)}
           /\ Distinct(Tail(s))
  <1>1. /\ Len(s) \in Nat /\ Len(s) # 0 /\ Len(Tail(s)) = Len(s) - 1 /\ Head(s) = s[1]
        /\ \A i \in 1 .. Len(Tail(s)) : i + 1 \in 2 .. Len(s) /\ Tail(s)[i] = s[i + 1]
    BY HeadTailProperties, LenProperties, EmptySeq
  <1>2. 1 \in 1 .. Len(s) /\ \A i \in 2 .. Len(s) : i \in 1 .. Len(s) /\ i # 1
    BY <1>1
  <1>3. Head(s) \in Items(s)
    BY <1>1, <1>2 DEF Items
  <1>4. Items(Tail(s)) \subseteq Items(s) \ {Head(s)}
    BY <1>1, <1>2 DEF Items, Distinct
  <1>5. ASSUME NEW x \in Items(s), x # Head(s) PROVE x \in Items(Tail(s))
    <2>1. PICK i \in 1 .. Len(s) : x = s[i]
      BY <1>5 DEF Items
    <2>2. i - 1 \in 1 .. Len(Tail(s)) /\ (i - 1) + 1 = i
      BY <1>1, <1>5, <2>1
    <2>3. Tail(s)[i - 1] = x
      BY <1>1, <2>1, <2>2
    <2> QED
      BY <2>2, <2>3 DEF Items
  <1>6. Distinct(Tail(s))
    <2> SUFFICES ASSUME NEW i \in 1 .. Len(Tail(s)), NEW j \in 1 .. Len(Tail(s)),
                        Tail(s)[i] = Tail(s)[j]
                 PROVE  i = j
      BY DEF Distinct
    <2>1. i + 1 = j + 1
      BY <1>1, <1>2 DEF Distinct
    <2> QED
      BY <2>1, <1>1
  <1> QED
    BY <1>3, <1>4, <1>5, <1>6

LEMMA AddItems ==
    ASSUME NEW S, NEW s \in Seq(S), NEW x \in S
    PROVE  /\ Items(Append(s, x)) = Items(s) \cup {x}
           /\ Distinct(s) /\ x \notin Items(s) => Distinct(Append(s, x))
  <1>1. /\ Len(s) \in Nat /\ Len(Append(s, x)) = Len(s) + 1
        /\ Append(s, x)[Len(s) + 1] = x
        /\ \A i \in 1 .. Len(s) : Append(s, x)[i] = s[i]
    BY AppendProperties, LenProperties
  <1>2. 1 .. (Len(s) + 1) = (1 .. Len(s)) \cup {Len(s) + 1}
    BY <1>1
  <1> DEFINE t == Append(s, x)
  <1> HIDE DEF t
  <1>3. Items(t) = Items(s) \cup {x}
    BY <1>1, <1>2 DEF Items, t
  <1>4. Distinct(s) /\ x \notin Items(s) => Distinct(t)
    BY <1>1, <1>2 DEF Items, Distinct, t
  <1> QED
    BY <1>3, <1>4 DEF t

LEMMA BufsProperties ==
    ASSUME NEW q \in Seq(Packets)
    PROVE  /\ Bufs(q) \in Seq(Buffers) /\ Len(Bufs(q)) = Len(q)
           /\ q # <<>> => /\ Bufs(q) # <<>> /\ Head(Bufs(q)) = Head(q).buf
                          /\ Bufs(Tail(q)) = Tail(Bufs(q))
           /\ \A p \in Packets : Bufs(Append(q, p)) = Append(Bufs(q), p.buf)
  <1>1. Len(q) \in Nat /\ \A i \in 1 .. Len(q) : q[i].buf \in Buffers
    <2>1. Len(q) \in Nat /\ \A i \in 1 .. Len(q) : q[i] \in Packets
      BY LenProperties, ElementOfSeq
    <2> QED
      BY <2>1 DEF Packets
  <1>2. Bufs(q) \in Seq(Buffers) /\ Len(Bufs(q)) = Len(q)
    BY <1>1 DEF Bufs
  <1>3. ASSUME q # <<>> PROVE /\ Bufs(q) # <<>> /\ Head(Bufs(q)) = Head(q).buf
                              /\ Bufs(Tail(q)) = Tail(Bufs(q))
    <2>1. /\ Len(q) # 0 /\ Len(Tail(q)) = Len(q) - 1 /\ Head(q) = q[1]
          /\ \A i \in 1 .. Len(Tail(q)) : Tail(q)[i] = q[i + 1]
      BY <1>1, <1>3, HeadTailProperties, EmptySeq
    <2>2. Bufs(q) # <<>> /\ Head(Bufs(q)) = Head(q).buf
      <3>1. Bufs(q) # <<>>
        BY <1>2, <2>1, EmptySeq
      <3>2. Head(Bufs(q)) = Bufs(q)[1]
        BY <1>2, <3>1
      <3>3. Bufs(q)[1] = q[1].buf
        BY <1>1, <2>1 DEF Bufs
      <3> QED
        BY <3>1, <3>2, <3>3, <2>1
    <2>3. Tail(Bufs(q)) = [i \in 1 .. Len(q) - 1 |-> Bufs(q)[i + 1]]
      <3> DEFINE t == Tail(Bufs(q))
      <3>1. /\ t \in Seq(Buffers) /\ Len(t) = Len(q) - 1
            /\ \A i \in 1 .. Len(t) : t[i] = Bufs(q)[i + 1]
        BY <1>2, <2>2, HeadTailProperties
      <3> HIDE DEF t
      <3>2. t = [i \in 1 .. Len(t) |-> t[i]]
        BY <3>1
      <3> QED
        BY <3>1, <3>2 DEF t
    <2>4. \A i \in 1 .. Len(q) - 1 : Bufs(q)[i + 1] = Tail(q)[i].buf
      BY <1>1, <2>1 DEF Bufs
    <2> QED
      BY <2>1, <2>2, <2>3, <2>4 DEF Bufs
  <1>4. ASSUME NEW p \in Packets PROVE Bufs(Append(q, p)) = Append(Bufs(q), p.buf)
    <2>1. /\ Append(q, p) \in Seq(Packets) /\ Len(Append(q, p)) = Len(q) + 1
          /\ Append(q, p)[Len(q) + 1] = p
          /\ \A i \in 1 .. Len(q) : Append(q, p)[i] = q[i]
      BY AppendProperties
    <2>2. p.buf \in Buffers
      BY DEF Packets
    <2>3. /\ Append(Bufs(q), p.buf) \in Seq(Buffers) /\ Len(Append(Bufs(q), p.buf)) = Len(q) + 1
          /\ Append(Bufs(q), p.buf)[Len(q) + 1] = p.buf
          /\ \A i \in 1 .. Len(q) : Append(Bufs(q), p.buf)[i] = Bufs(q)[i]
      BY <1>2, <2>2, AppendProperties
    <2>4. \A i \in 1 .. Len(q) + 1 : Append(Bufs(q), p.buf)[i] = Append(q, p)[i].buf
      BY <1>1, <2>1, <2>3 DEF Bufs
    <2>5. Append(Bufs(q), p.buf) = [i \in 1 .. Len(q) + 1 |-> Append(Bufs(q), p.buf)[i]]
      BY <2>3
    <2> QED
      BY <2>1, <2>4, <2>5 DEF Bufs
  <1> QED
    BY <1>2, <1>3, <1>4

LEMMA InitHeld == Init => HeldInv
  <1> SUFFICES ASSUME Init PROVE HeldInv
    OBVIOUS
  <1> USE DEF Init, HwInit, HostInit, DriverInit
  <1>1. Len(avsetup) = 0 /\ Len(avout) = 0 /\ Len(rx) = 0
    OBVIOUS
  <1>2. Items(avsetup) = {} /\ Items(avout) = {}
    BY <1>1 DEF Items
  <1>3. Len(Bufs(rx)) = 0
    <2>1. rx \in Seq(Packets)
      OBVIOUS
    <2> QED
      BY BufsProperties, <1>1, <2>1
  <1>4. Items(Bufs(rx)) = {}
    BY <1>3 DEF Items
  <1>5. InCfg(0) = {} /\ InCfg(1) = {} /\ InReply = {}
    BY DEF InCfg, InReply, Held, Replying, Endpoints
  <1>6. DistinctInv
    BY <1>1, <1>3 DEF DistinctInv, Distinct
  <1>7. ExclusiveInv /\ AllHeld
    BY <1>2, <1>4, <1>5 DEF ExclusiveInv, Exclusive, AllHeld
  <1>8. CfgInv
    BY DEF CfgInv
  <1> QED
    BY <1>6, <1>7, <1>8 DEF HeldInv

(* One buffer moves from the free list to a FIFO of the receive side.      *)
LEMMA HeldSupply ==
    ASSUME UsbTypeOK, SentInv, HeldInv,
           supply_setup_buffer \/ supply_out_buffer \/ supply_ends \/ Initialise
    PROVE  HeldInv'
  <1> USE DEF hostvars
  <1> SUFFICES ASSUME overwritten' = {} PROVE HeldInv'
    BY DEF HeldInv
  <1>1. /\ UNCHANGED <<rx, cfgin, in_sent, aborting, sent, reply, overwritten>>
        /\ pc \in {"supply_setup", "supply_out", "connect"}
        /\ pc' \in {"supply_setup", "supply_out", "sending", after}
    BY DEF supply_setup_buffer, supply_out_buffer, supply_ends, Initialise, SupplyKeeps,
           SetupWanted, OutWanted
  <1>2. pc' \notin {"send", "retract", "wait", "write", "sent", "clear"}
    BY <1>1 DEF UsbTypeOK
  <1>3. CfgInv /\ DistinctInv /\ ExclusiveInv /\ (aborting \/ AllHeld)
    BY <1>1 DEF HeldInv
  <1>4. InCfg(0)' = InCfg(0) /\ InCfg(1)' = InCfg(1) /\ InReply' = InReply
    BY <1>1, <1>2 DEF InCfg, InReply, Held, Replying
  <1>5. CfgInv'
    BY <1>1, <1>2, <1>3 DEF CfgInv
  <1> DEFINE b == buf_alloc(buf_free)
  <1>6. buf_free # {} => b \in buf_free /\ b \in Buffers
    BY AllocProperties DEF UsbTypeOK
  <1>7. CASE supply_setup_buffer
    <2>1. /\ avsetup' = Append(avsetup, b) /\ buf_free' = buf_free \ {b} /\ avout' = avout
          /\ b \in buf_free /\ b \in Buffers
      BY <1>6, <1>7 DEF supply_setup_buffer, SetupWanted
    <2> HIDE DEF b
    <2>2. b \notin Items(avsetup)
      BY <1>3, <2>1 DEF ExclusiveInv, Exclusive
    <2>3. Items(avsetup') = Items(avsetup) \cup {b} /\ Distinct(avsetup')
      BY <1>3, <2>1, <2>2, AddItems DEF DistinctInv, UsbTypeOK
    <2>4. Items(avsetup)' = Items(avsetup') /\ Distinct(avsetup)' = Distinct(avsetup')
      BY Zenon DEF Items, Distinct
    <2>5. ExclusiveInv'
      BY <1>1, <1>3, <1>4, <2>1, <2>3, <2>4 DEF ExclusiveInv, Exclusive
    <2>6. AllHeld => AllHeld'
      BY <1>1, <1>4, <2>1, <2>3, <2>4 DEF AllHeld
    <2> QED
      BY <1>1, <1>3, <1>5, <2>1, <2>3, <2>4, <2>5, <2>6 DEF HeldInv, DistinctInv
  <1>8. CASE supply_out_buffer
    <2>1. /\ avout' = Append(avout, b) /\ buf_free' = buf_free \ {b} /\ avsetup' = avsetup
          /\ b \in buf_free /\ b \in Buffers
      BY <1>6, <1>8 DEF supply_out_buffer, OutWanted
    <2> HIDE DEF b
    <2>2. b \notin Items(avout)
      BY <1>3, <2>1 DEF ExclusiveInv, Exclusive
    <2>3. Items(avout') = Items(avout) \cup {b} /\ Distinct(avout')
      BY <1>3, <2>1, <2>2, AddItems DEF DistinctInv, UsbTypeOK
    <2>4. Items(avout)' = Items(avout') /\ Distinct(avout)' = Distinct(avout')
      BY Zenon DEF Items, Distinct
    <2>5. ExclusiveInv'
      BY <1>1, <1>3, <1>4, <2>1, <2>3, <2>4 DEF ExclusiveInv, Exclusive
    <2>6. AllHeld => AllHeld'
      BY <1>1, <1>4, <2>1, <2>3, <2>4 DEF AllHeld
    <2> QED
      BY <1>1, <1>3, <1>5, <2>1, <2>3, <2>4, <2>5, <2>6 DEF HeldInv, DistinctInv
  <1>9. CASE supply_ends \/ Initialise
    <2>1. UNCHANGED <<avsetup, avout, buf_free>>
      BY <1>9 DEF supply_ends, Initialise
    <2>2. DistinctInv' /\ ExclusiveInv' /\ (AllHeld => AllHeld')
      BY <1>1, <1>3, <1>4, <2>1 DEF DistinctInv, ExclusiveInv, AllHeld
    <2> QED
      BY <1>1, <1>3, <1>5, <2>2 DEF HeldInv
  <1> QED
    BY <1>7, <1>8, <1>9

(* The driver reads and clears the collections, and releases the buffer of *)
(* each.                                                                   *)
LEMMA HeldSending ==
    ASSUME UsbTypeOK, SentInv, HeldInv,
           \/ service_sending_read \/ service_sending_clear
           \/ service_sending_release \/ retrieve_collected_packet \/ ep0_sent_cb
    PROVE  HeldInv'
  <1> USE DEF hostvars, hwvars, supply_buffers
  <1> SUFFICES ASSUME overwritten' = {} PROVE HeldInv'
    BY DEF HeldInv
  <1>1. /\ UNCHANGED <<rx, cfgin, aborting, reply, overwritten>>
        /\ pc \in {"sending", "clear", "sent", "sent_cb"}
        /\ pc' \in {"sending", "clear", "sent", "supply_setup"}
    BY DEF service_sending_read, service_sending_clear, service_sending_release,
           retrieve_collected_packet, ep0_sent_cb
  <1>2. CfgInv /\ DistinctInv /\ ExclusiveInv /\ (aborting \/ AllHeld)
    BY <1>1 DEF HeldInv
  <1>3. InReply = {} /\ InReply' = {}
    BY <1>1 DEF InReply, Replying
  <1>4. (in_sent' \cup sent') \subseteq (in_sent \cup sent)
    BY DEF service_sending_read, service_sending_clear, service_sending_release,
           retrieve_collected_packet, ep0_sent_cb
  <1>5. CfgInv'
    <2>1. pc' = "sent" => sent' \cap in_sent' = {}
      BY <1>2 DEF service_sending_read, service_sending_clear, service_sending_release,
           retrieve_collected_packet, ep0_sent_cb, CfgInv
    <2> QED
      BY <1>1, <1>2, <1>4, <2>1 DEF CfgInv
  <1>6. CASE service_sending_read \/ service_sending_clear
    <2>1. UNCHANGED <<avsetup, avout, buf_free>> /\ in_sent' \cup sent' = in_sent \cup sent
      BY <1>6 DEF service_sending_read, service_sending_clear, SentInv
    <2>2. InCfg(0)' = InCfg(0) /\ InCfg(1)' = InCfg(1)
      BY <1>1, <2>1 DEF InCfg, Held
    <2>3. DistinctInv' /\ ExclusiveInv' /\ (AllHeld => AllHeld')
      BY <1>1, <1>2, <1>3, <2>1, <2>2 DEF DistinctInv, ExclusiveInv, AllHeld
    <2> QED
      BY <1>1, <1>2, <1>5, <2>3 DEF HeldInv
  <1>7. ASSUME NEW e \in Endpoints, e \in in_sent \cup sent, 
               in_sent' \cup sent' = (in_sent \cup sent) \ {e}
        PROVE  /\ InCfg(e) = {cfgin[e].buf} /\ InCfg(e)' = {}
               /\ \A g \in Endpoints : g # e => InCfg(g)' = InCfg(g)
    <2>1. Held(e) /\ ~Held(e)'
      BY <1>1, <1>2, <1>7 DEF Held, CfgInv
    <2>2. \A g \in Endpoints : g # e => Held(g)' = Held(g)
      BY <1>1, <1>7 DEF Held
    <2> QED
      BY <1>1, <2>1, <2>2 DEF InCfg
  <1>8. ASSUME NEW e \in Endpoints, e \in in_sent \cup sent,
               in_sent' \cup sent' = (in_sent \cup sent) \ {e},
               UNCHANGED <<avsetup, avout>>, buf_free' = buf_free \cup {cfgin[e].buf}
        PROVE  HeldInv'
    <2>1. /\ InCfg(e) = {cfgin[e].buf} /\ InCfg(e)' = {}
          /\ \A g \in Endpoints : g # e => InCfg(g)' = InCfg(g)
      BY <1>7, <1>8, Zenon
    <2>2. CASE e = 0
      <3>1. InCfg(0) = {cfgin[e].buf} /\ InCfg(0)' = {} /\ InCfg(1)' = InCfg(1)
        BY <2>1, <2>2 DEF Endpoints
      <3>2. ExclusiveInv' /\ (AllHeld => AllHeld')
        BY <1>1, <1>2, <1>3, <1>8, <3>1 DEF ExclusiveInv, Exclusive, AllHeld
      <3> QED
        BY <1>1, <1>2, <1>5, <1>8, <3>2 DEF HeldInv, DistinctInv
    <2>3. CASE e = 1
      <3>1. InCfg(1) = {cfgin[e].buf} /\ InCfg(1)' = {} /\ InCfg(0)' = InCfg(0)
        BY <2>1, <2>3 DEF Endpoints
      <3>2. ExclusiveInv' /\ (AllHeld => AllHeld')
        BY <1>1, <1>2, <1>3, <1>8, <3>1 DEF ExclusiveInv, Exclusive, AllHeld
      <3> QED
        BY <1>1, <1>2, <1>5, <1>8, <3>2 DEF HeldInv, DistinctInv
    <2> QED
      BY <1>8, <2>2, <2>3 DEF Endpoints
  <1>9. CASE service_sending_release
    <2>1. PICK e \in Endpoints : e = Min(sent) /\ e \in sent
      BY <1>9, EndpointsProperties DEF service_sending_release, SentInv, UsbTypeOK
    <2>2. /\ UNCHANGED <<avsetup, avout>> /\ in_sent' = in_sent /\ sent' = sent \ {e}
          /\ buf_free' = buf_free \cup {cfgin[e].buf} /\ pc = "sent"
      BY <1>9, <2>1 DEF service_sending_release, usbdev_buf_release
    <2>3. in_sent' \cup sent' = (in_sent \cup sent) \ {e}
      BY <1>2, <2>1, <2>2 DEF CfgInv
    <2> QED
      BY <1>8, <2>1, <2>2, <2>3
  <1>10. CASE retrieve_collected_packet /\ in_sent # {}
    <2>1. PICK e \in Endpoints : e = Min(in_sent) /\ e \in in_sent
      BY <1>10, EndpointsProperties DEF UsbTypeOK
    <2>2. /\ in_sent' = in_sent \ {e} /\ sent' = sent /\ sent = {}
          /\ UNCHANGED <<avsetup, avout>> /\ buf_free' = buf_free \cup {cfgin[e].buf}
      BY <1>10, <2>1 DEF retrieve_collected_packet, usbdev_buf_release, SentInv
    <2>3. in_sent' \cup sent' = (in_sent \cup sent) \ {e}
      BY <2>1, <2>2
    <2> QED
      BY <1>8, <2>1, <2>2, <2>3
  <1>11. CASE ep0_sent_cb \/ (retrieve_collected_packet /\ in_sent = {})
    <2>1. UNCHANGED <<avsetup, avout, buf_free, in_sent, sent>>
      BY <1>11 DEF retrieve_collected_packet, ep0_sent_cb
    <2>2. InCfg(0)' = InCfg(0) /\ InCfg(1)' = InCfg(1)
      BY <1>1, <2>1 DEF InCfg, Held
    <2>3. DistinctInv' /\ ExclusiveInv' /\ (AllHeld => AllHeld')
      BY <1>1, <1>2, <1>3, <2>1, <2>2 DEF DistinctInv, ExclusiveInv, AllHeld
    <2> QED
      BY <1>1, <1>2, <1>5, <2>3 DEF HeldInv
  <1> QED
    BY <1>6, <1>9, <1>10, <1>11

(* The buffer of a received packet goes to the answer (usbdev.c) or to the *)
(* free list.                                                              *)
LEMMA HeldRecving ==
    ASSUME UsbTypeOK, SentInv, HeldInv, usbdev_service_recving \/ packet_take
    PROVE  HeldInv'
  <1> USE DEF hostvars
  <1> SUFFICES ASSUME overwritten' = {}, pc' # "failed" PROVE HeldInv'
    BY DEF HeldInv
  <1>1. /\ UNCHANGED <<cfgin, in_sent, aborting, sent, overwritten>>
        /\ pc = "recving" /\ pc' \in {"supply_setup", "loop", "send"}
    BY DEF usbdev_service_recving, packet_take, supply_buffers
  <1>2. CfgInv /\ DistinctInv /\ ExclusiveInv /\ (aborting \/ AllHeld)
    BY <1>1 DEF HeldInv
  <1>3. InReply = {} /\ InCfg(0)' = InCfg(0) /\ InCfg(1)' = InCfg(1)
    BY <1>1 DEF InReply, Replying, InCfg, Held
  <1>4. CfgInv'
    BY <1>1, <1>2 DEF CfgInv
  <1>5. CASE rx = <<>>
    <2>1. UNCHANGED <<rx, avsetup, avout, buf_free>> /\ pc' = "loop"
      BY <1>5 DEF usbdev_service_recving, packet_take
    <2>2. InReply' = {}
      BY <2>1 DEF InReply, Replying
    <2>3. DistinctInv' /\ ExclusiveInv' /\ (AllHeld => AllHeld')
      BY <1>2, <1>3, <2>1, <2>2 DEF DistinctInv, ExclusiveInv, AllHeld
    <2> QED
      BY <1>1, <1>2, <1>4, <2>3 DEF HeldInv
  <1>6. CASE rx # <<>>
    <2> DEFINE b == Head(rx).buf
    <2>1. Head(rx) \in Packets /\ b \in Buffers
      <3>1. Head(rx) \in Packets
        BY <1>6, HeadTailProperties DEF UsbTypeOK
      <3> QED
        BY <3>1 DEF Packets
    <2>2. rx' = Tail(rx)
      BY <1>6 DEF usbdev_service_recving, packet_take
    <2>3. /\ Bufs(rx) \in Seq(Buffers) /\ Bufs(rx) # <<>> /\ Head(Bufs(rx)) = b
          /\ Bufs(rx') = Tail(Bufs(rx))
      BY <1>6, <2>2, BufsProperties DEF UsbTypeOK
    <2>4. /\ b \in Items(Bufs(rx)) /\ Items(Bufs(rx')) = Items(Bufs(rx)) \ {b}
          /\ Distinct(Bufs(rx'))
      BY <1>2, <2>3, TakeItems DEF DistinctInv
    <2>5. Items(Bufs(rx))' = Items(Bufs(rx')) /\ Distinct(Bufs(rx))' = Distinct(Bufs(rx'))
      BY DEF Items, Distinct, Bufs
    <2>6. /\ UNCHANGED <<avsetup, avout>>
          /\ \/ buf_free' = buf_free /\ reply'.buf = b /\ pc' = "send"
             \/ buf_free' = buf_free \cup {b} /\ pc' \in {"loop", "supply_setup"}
      <3>1. CASE usbdev_service_recving
        BY <1>6, <3>1 DEF usbdev_service_recving, usbdev_buf_release
      <3>2. CASE packet_take
        BY <1>6, <3>2 DEF packet_take, usbdev_buf_release, supply_buffers
      <3> QED
        BY <3>1, <3>2
    <2>7. \/ buf_free' = buf_free /\ InReply' = {b}
          \/ buf_free' = buf_free \cup {b} /\ InReply' = {}
      BY <2>6 DEF InReply, Replying
    <2> HIDE DEF b
    <2>8. ExclusiveInv'
      BY <1>2, <1>3, <2>4, <2>5, <2>6, <2>7 DEF ExclusiveInv, Exclusive
    <2>9. AllHeld => AllHeld'
      BY <1>3, <2>4, <2>5, <2>6, <2>7 DEF AllHeld
    <2> QED
      BY <1>1, <1>2, <1>4, <2>4, <2>5, <2>6, <2>8, <2>9 DEF HeldInv, DistinctInv
  <1> QED
    BY <1>5, <1>6

(* The answer of usbdev-utils.hh takes a free buffer.                      *)
LEMMA HeldTaken ==
    ASSUME UsbTypeOK, SentInv, HeldInv, ep0_recv
    PROVE  HeldInv'
  <1> USE DEF hostvars
  <1> SUFFICES ASSUME overwritten' = {}, pc' # "failed" PROVE HeldInv'
    BY DEF HeldInv
  <1> DEFINE b == buf_alloc(buf_free)
  <1>1. /\ UNCHANGED <<avsetup, avout, rx, cfgin, in_sent, aborting, sent, overwritten>>
        /\ pc = "ep0_recv"
        /\ \/ buf_free # {} /\ reply'.buf = b /\ pc' = "write" /\ buf_free' = buf_free \ {b}
           \/ pc' = "supply_setup" /\ buf_free' = buf_free
    BY DEF ep0_recv, supply_buffers
  <1>2. CfgInv /\ DistinctInv /\ ExclusiveInv /\ (aborting \/ AllHeld)
    BY <1>1 DEF HeldInv
  <1>3. buf_free # {} => b \in buf_free
    BY AllocProperties DEF UsbTypeOK
  <1> HIDE DEF b
  <1>4. /\ InReply = {}
        /\ \/ b \in buf_free /\ InReply' = {b} /\ buf_free' = buf_free \ {b}
           \/ InReply' = {} /\ buf_free' = buf_free
    BY <1>1, <1>3 DEF InReply, Replying
  <1>5. InCfg(0)' = InCfg(0) /\ InCfg(1)' = InCfg(1)
    BY <1>1 DEF InCfg, Held
  <1>6. DistinctInv' /\ CfgInv'
    BY <1>1, <1>2 DEF DistinctInv, CfgInv
  <1>7. ExclusiveInv' /\ (AllHeld => AllHeld')
    BY <1>1, <1>2, <1>4, <1>5 DEF ExclusiveInv, Exclusive, AllHeld
  <1> QED
    BY <1>1, <1>2, <1>6, <1>7 DEF HeldInv

(* packet_send: the earlier packet's buffer is released once, and the one  *)
(* of the new packet moves to CONFIGIN.                                    *)
LEMMA HeldSend ==
    ASSUME UsbTypeOK, SentInv, HeldInv,
           packet_send_read \/ packet_send_retract \/ packet_send_release \/ packet_write
    PROVE  HeldInv'
  <1> USE DEF hostvars, hwvars
  <1> SUFFICES ASSUME overwritten' = {} PROVE HeldInv'
    BY DEF HeldInv
  <1>1. /\ UNCHANGED <<avsetup, avout, rx, in_sent, aborting, sent>> /\ overwritten = {}
        /\ pc \in {"send", "retract", "wait", "write"}
    BY DEF packet_send_read, packet_send_retract, packet_send_release, packet_write
  <1>2. CfgInv /\ DistinctInv /\ ExclusiveInv /\ (aborting \/ AllHeld)
    BY <1>1 DEF HeldInv
  <1>3. PICK e \in Endpoints : e = reply.ep
    BY DEF UsbTypeOK
  <1>4. sent = {}
    BY <1>1 DEF SentInv
  <1>5. InReply = {reply.buf}
    BY <1>1 DEF InReply, Replying
  <1>6. DistinctInv'
    BY <1>1, <1>2 DEF DistinctInv
  <1>7. CASE packet_send_read
    <2>1. /\ UNCHANGED <<cfgin, buf_free, reply>> /\ pc = "send"
          /\ pc' = "write" \/ (pc' = "retract" /\ cfgin[e].rdy)
      BY <1>3, <1>7 DEF packet_send_read
    <2>2. \A g \in Endpoints : Held(g)' = Held(g)
      BY <1>1, <1>3, <2>1 DEF Held
    <2>3. InCfg(0)' = InCfg(0) /\ InCfg(1)' = InCfg(1) /\ InReply' = InReply
      BY <2>1, <2>2, <1>5 DEF InCfg, InReply, Replying, Endpoints
    <2>4. CfgInv'
      BY <1>1, <1>2, <1>3, <2>1 DEF CfgInv
    <2>5. ExclusiveInv' /\ (AllHeld => AllHeld')
      BY <1>1, <1>2, <2>1, <2>3 DEF ExclusiveInv, AllHeld
    <2> QED
      BY <1>1, <1>2, <1>6, <2>4, <2>5 DEF HeldInv
  <1>8. CASE packet_send_retract
    <2>1. /\ UNCHANGED <<buf_free, reply>> /\ pc = "retract" /\ pc' = "wait"
          /\ ~cfgin'[e].rdy /\ cfgin'[e].sending = cfgin[e].sending
          /\ \A g \in Endpoints : g # e => cfgin'[g] = cfgin[g]
          /\ \A g \in Endpoints : cfgin'[g].buf = cfgin[g].buf
      BY <1>3, <1>8 DEF packet_send_retract, UsbTypeOK
    <2>2. \A g \in Endpoints : Held(g)' = Held(g)
      BY <1>1, <1>3, <2>1 DEF Held
    <2>3. InCfg(0)' = InCfg(0) /\ InCfg(1)' = InCfg(1) /\ InReply' = InReply
      BY <2>1, <2>2, <1>5 DEF InCfg, InReply, Replying, Endpoints
    <2>4. CfgInv'
      <3>1. \A g \in in_sent : ~cfgin'[g].rdy /\ ~cfgin'[g].sending
        BY <1>2, <1>3, <2>1 DEF CfgInv, UsbTypeOK
      <3> QED
        BY <1>1, <1>3, <1>4, <2>1, <3>1 DEF CfgInv
    <2>5. ExclusiveInv' /\ (AllHeld => AllHeld')
      BY <1>1, <1>2, <2>1, <2>3 DEF ExclusiveInv, AllHeld
    <2> QED
      BY <1>1, <1>2, <1>6, <2>4, <2>5 DEF HeldInv
  <1>9. CASE packet_send_release
    <2>1. /\ UNCHANGED <<cfgin, reply>> /\ pc = "wait" /\ pc' = "write"
          /\ buf_free' = buf_free \cup {cfgin[e].buf} /\ ~cfgin[e].sending /\ e \notin in_sent
      BY <1>3, <1>9 DEF packet_send_release, usbdev_buf_release
    <2>2. Held(e) /\ ~Held(e)' /\ \A g \in Endpoints : g # e => Held(g)' = Held(g)
      BY <1>1, <1>2, <1>3, <1>4, <2>1 DEF Held, CfgInv
    <2>3. /\ InCfg(e) = {cfgin[e].buf} /\ InCfg(e)' = {}
          /\ \A g \in Endpoints : g # e => InCfg(g)' = InCfg(g)
      BY <2>1, <2>2 DEF InCfg
    <2>4. InReply' = InReply
      BY <1>5, <2>1 DEF InReply, Replying
    <2>5. CfgInv'
      BY <1>1, <1>2, <2>1 DEF CfgInv
    <2>6. CASE e = 0
      <3>1. InCfg(0) = {cfgin[e].buf} /\ InCfg(0)' = {} /\ InCfg(1)' = InCfg(1)
        BY <2>3, <2>6 DEF Endpoints
      <3>2. ExclusiveInv' /\ (AllHeld => AllHeld')
        BY <1>1, <1>2, <2>1, <2>4, <3>1 DEF ExclusiveInv, Exclusive, AllHeld
      <3> QED
        BY <1>1, <1>2, <1>6, <2>5, <3>2 DEF HeldInv
    <2>7. CASE e = 1
      <3>1. InCfg(1) = {cfgin[e].buf} /\ InCfg(1)' = {} /\ InCfg(0)' = InCfg(0)
        BY <2>3, <2>7 DEF Endpoints
      <3>2. ExclusiveInv' /\ (AllHeld => AllHeld')
        BY <1>1, <1>2, <2>1, <2>4, <3>1 DEF ExclusiveInv, Exclusive, AllHeld
      <3> QED
        BY <1>1, <1>2, <1>6, <2>5, <3>2 DEF HeldInv
    <2> QED
      BY <2>6, <2>7 DEF Endpoints
  <1>10. CASE packet_write
    <2>1. /\ UNCHANGED buf_free /\ pc = "write" /\ pc' \in {"loop", "recving", "sending"}
          /\ ~cfgin[e].rdy /\ ~cfgin[e].sending /\ e \notin in_sent
      BY <1>3, <1>10 DEF packet_write
    <2>2. /\ cfgin'[e].rdy /\ cfgin'[e].buf = reply.buf
          /\ \A g \in Endpoints : g # e => cfgin'[g] = cfgin[g]
      BY <1>3, <1>10 DEF packet_write, UsbTypeOK
    <2>3. Held(e)' /\ ~Held(e) /\ \A g \in Endpoints : g # e => Held(g)' = Held(g)
      BY <1>1, <1>4, <2>1, <2>2 DEF Held
    <2>4. /\ InCfg(e) = {} /\ InCfg(e)' = {reply.buf}
          /\ \A g \in Endpoints : g # e => InCfg(g)' = InCfg(g)
      BY <2>2, <2>3 DEF InCfg
    <2>5. InReply' = {}
      BY <2>1 DEF InReply, Replying
    <2>6. CfgInv'
      <3>1. \A g \in in_sent : ~cfgin'[g].rdy /\ ~cfgin'[g].sending
        BY <1>2, <2>1, <2>2 DEF CfgInv, UsbTypeOK
      <3> QED
        BY <1>1, <1>4, <2>1, <3>1 DEF CfgInv
    <2>7. CASE e = 0
      <3>1. InCfg(0) = {} /\ InCfg(0)' = {reply.buf} /\ InCfg(1)' = InCfg(1)
        BY <2>4, <2>7 DEF Endpoints
      <3>2. ExclusiveInv' /\ (AllHeld => AllHeld')
        BY <1>1, <1>2, <1>5, <2>1, <2>5, <3>1 DEF ExclusiveInv, Exclusive, AllHeld
      <3> QED
        BY <1>1, <1>2, <1>6, <2>6, <3>2 DEF HeldInv
    <2>8. CASE e = 1
      <3>1. InCfg(1) = {} /\ InCfg(1)' = {reply.buf} /\ InCfg(0)' = InCfg(0)
        BY <2>4, <2>8 DEF Endpoints
      <3>2. ExclusiveInv' /\ (AllHeld => AllHeld')
        BY <1>1, <1>2, <1>5, <2>1, <2>5, <3>1 DEF ExclusiveInv, Exclusive, AllHeld
      <3> QED
        BY <1>1, <1>2, <1>6, <2>6, <3>2 DEF HeldInv
    <2> QED
      BY <2>7, <2>8 DEF Endpoints
  <1> QED
    BY <1>7, <1>8, <1>9, <1>10

(* The applications take the buffer of their packet from the free list.    *)
LEMMA HeldApplication ==
    ASSUME UsbTypeOK, SentInv, HeldInv, hello_usb \/ usbdev_check
    PROVE  HeldInv'
  <1> USE DEF hostvars, hwvars
  <1> SUFFICES ASSUME overwritten' = {} PROVE HeldInv'
    BY DEF HeldInv
  <1>1. /\ UNCHANGED <<avsetup, avout, rx, cfgin, in_sent, aborting, sent, overwritten>>
        /\ pc = "loop"
        /\ \/ /\ buf_free # {} /\ reply'.buf = buf_alloc(buf_free) /\ pc' \in {"send", "write"}
              /\ buf_free' = buf_free \ {buf_alloc(buf_free)}
           \/ pc' = "sending" /\ buf_free' = buf_free
    BY DEF hello_usb, usbdev_check, send_on_ep1
  <1>2. CfgInv /\ DistinctInv /\ ExclusiveInv /\ (aborting \/ AllHeld)
    BY <1>1 DEF HeldInv
  <1>3. buf_free # {} => buf_alloc(buf_free) \in buf_free
    BY AllocProperties DEF UsbTypeOK
  <1>4. /\ InReply = {}
        /\ \/ /\ buf_alloc(buf_free) \in buf_free /\ InReply' = {buf_alloc(buf_free)}
              /\ buf_free' = buf_free \ {buf_alloc(buf_free)}
           \/ InReply' = {} /\ buf_free' = buf_free
    BY <1>1, <1>3 DEF InReply, Replying
  <1>5. InCfg(0)' = InCfg(0) /\ InCfg(1)' = InCfg(1)
    BY <1>1 DEF InCfg, Held
  <1>6. DistinctInv' /\ CfgInv'
    BY <1>1, <1>2 DEF DistinctInv, CfgInv
  <1>7. ExclusiveInv' /\ (AllHeld => AllHeld')
    BY <1>1, <1>2, <1>4, <1>5 DEF ExclusiveInv, Exclusive, AllHeld
  <1> QED
    BY <1>1, <1>2, <1>6, <1>7 DEF HeldInv

(* The host takes buffers from the Available FIFOs to the receive FIFO.    *)
(* Only a SETUP packet of a host that gives its transfers up takes a       *)
(* buffer away from everyone.                                              *)
LEMMA HeldHost ==
    ASSUME UsbTypeOK, SentInv, ProtoInv, HeldInv, HostStep
    PROVE  HeldInv'
  <1> USE DEF hostvars, hwvars, drvvars
  <1> SUFFICES ASSUME overwritten' = {}, pc' # "failed" PROVE HeldInv'
    BY DEF HeldInv
  <1>0. /\ UNCHANGED <<driver, pc, buf_free, dev_state, ctrl_state, sent, reply, overwritten>>
        /\ InReply' = InReply
    BY DEF HostStep, InReply, Replying
  <1>1. CfgInv /\ DistinctInv /\ ExclusiveInv /\ (aborting \/ AllHeld)
    BY <1>0 DEF HeldInv
  <1>2. ASSUME NEW r \in Requests, HostSetup(r) PROVE HeldInv'
    <2> DEFINE b == Head(avsetup)
               p == [ep |-> 0, data |-> r, buf |-> b]
    <2>1. b \in Buffers /\ p \in Packets /\ p.buf = b
      <3>1. b \in Buffers
        BY <1>2, HeadTailProperties DEF HostSetup, UsbTypeOK
      <3> HIDE DEF b
      <3> QED
        BY <3>1 DEF Packets, Endpoints
    <2>2. /\ avsetup # <<>> /\ avsetup' = Tail(avsetup) /\ avout' = avout
          /\ rx' = Append(rx, p) /\ in_sent' = in_sent /\ aborting' = aborting
      BY <1>2 DEF HostSetup
    <2>3. /\ b \in Items(avsetup) /\ Items(Tail(avsetup)) = Items(avsetup) \ {b}
          /\ Distinct(Tail(avsetup))
      BY <1>1, <2>2, TakeItems DEF DistinctInv, UsbTypeOK
    <2>4. b \notin Items(Bufs(rx))
      BY <1>1, <2>3 DEF ExclusiveInv, Exclusive
    <2> HIDE DEF b
    <2>5. Bufs(rx) \in Seq(Buffers) /\ Bufs(rx') = Append(Bufs(rx), b)
      BY <2>1, <2>2, BufsProperties DEF UsbTypeOK
    <2>6. Items(Bufs(rx')) = Items(Bufs(rx)) \cup {b} /\ Distinct(Bufs(rx'))
      BY <1>1, <2>1, <2>4, <2>5, AddItems DEF DistinctInv
    <2>7. Items(Bufs(rx))' = Items(Bufs(rx')) /\ Distinct(Bufs(rx))' = Distinct(Bufs(rx'))
      BY DEF Items, Distinct, Bufs
    <2>8. Items(avsetup)' = Items(avsetup) \ {b} /\ Distinct(avsetup)'
      <3>1. Items(avsetup)' = Items(avsetup') /\ Distinct(avsetup)' = Distinct(avsetup')
        BY Zenon DEF Items, Distinct
      <3> QED
        BY <2>2, <2>3, <3>1, Zenon
    <2>9. /\ ~cfgin'[0].rdy /\ ~cfgin'[0].sending /\ cfgin'[1] = cfgin[1]
          /\ cfgin'[0].buf = cfgin[0].buf
      BY <1>2 DEF HostSetup, UsbTypeOK, Endpoints
    <2>10. Held(1)' = Held(1) /\ (Held(0)' => Held(0)) /\ (~Offered0 => Held(0)' = Held(0))
      BY <1>0, <2>2, <2>9 DEF Held, Offered0
    <2>11. /\ InCfg(1)' = InCfg(1) /\ InCfg(0)' \subseteq InCfg(0)
           /\ ~Offered0 => InCfg(0)' = InCfg(0)
      BY <2>9, <2>10 DEF InCfg
    <2>12. ~aborting => ~Offered0
      BY <1>2 DEF HostSetup, ProtoInv, OneRequest, OfferInv, stage
    <2>13. ~(pc \in {"retract", "wait"} /\ reply.ep = 0)
      BY DEF ProtoInv, OneRequest, AnswerInv, Answering, Replying
    <2>14. CfgInv'
      <3>1. \A g \in in_sent \cup sent : ~cfgin'[g].rdy /\ ~cfgin'[g].sending
        BY <1>1, <2>9 DEF CfgInv, UsbTypeOK, Endpoints
      <3>2. pc \in {"retract", "wait"} => reply.ep = 1
        BY <2>13 DEF UsbTypeOK, Endpoints
      <3> QED
        BY <1>0, <1>1, <2>2, <2>9, <3>1, <3>2 DEF CfgInv
    <2>15. ExclusiveInv'
      BY <1>0, <1>1, <2>2, <2>3, <2>6, <2>7, <2>8, <2>11 DEF ExclusiveInv, Exclusive
    <2>16. AllHeld /\ ~aborting => AllHeld'
      BY <1>0, <2>2, <2>6, <2>7, <2>8, <2>11, <2>12 DEF AllHeld
    <2> QED
      BY <1>0, <1>1, <2>2, <2>6, <2>7, <2>8, <2>14, <2>15, <2>16 DEF HeldInv, DistinctInv
  <1>3. ASSUME NEW ep \in Endpoints, HostOut(ep) PROVE HeldInv'
    <2> DEFINE b == Head(avout)
               p == [ep |-> ep, data |-> "out", buf |-> b]
    <2>1. b \in Buffers /\ p \in Packets /\ p.buf = b
      <3>1. b \in Buffers
        BY <1>3, HeadTailProperties DEF HostOut, UsbTypeOK
      <3> HIDE DEF b
      <3> QED
        BY <3>1 DEF Packets
    <2>2. /\ avout # <<>> /\ avout' = Tail(avout) /\ avsetup' = avsetup
          /\ rx' = Append(rx, p) /\ UNCHANGED <<in_sent, cfgin, aborting>>
      BY <1>3 DEF HostOut
    <2>3. /\ b \in Items(avout) /\ Items(Tail(avout)) = Items(avout) \ {b}
          /\ Distinct(Tail(avout))
      BY <1>1, <2>2, TakeItems DEF DistinctInv, UsbTypeOK
    <2>4. b \notin Items(Bufs(rx))
      BY <1>1, <2>3 DEF ExclusiveInv, Exclusive
    <2> HIDE DEF b
    <2>5. Bufs(rx) \in Seq(Buffers) /\ Bufs(rx') = Append(Bufs(rx), b)
      BY <2>1, <2>2, BufsProperties DEF UsbTypeOK
    <2>6. Items(Bufs(rx')) = Items(Bufs(rx)) \cup {b} /\ Distinct(Bufs(rx'))
      BY <1>1, <2>1, <2>4, <2>5, AddItems DEF DistinctInv
    <2>7. Items(Bufs(rx))' = Items(Bufs(rx')) /\ Distinct(Bufs(rx))' = Distinct(Bufs(rx'))
      BY DEF Items, Distinct, Bufs
    <2>8. Items(avout)' = Items(avout) \ {b} /\ Distinct(avout)'
      <3>1. Items(avout)' = Items(avout') /\ Distinct(avout)' = Distinct(avout')
        BY Zenon DEF Items, Distinct
      <3> QED
        BY <2>2, <2>3, <3>1, Zenon
    <2>9. InCfg(0)' = InCfg(0) /\ InCfg(1)' = InCfg(1) /\ CfgInv'
      BY <1>0, <1>1, <2>2 DEF InCfg, Held, CfgInv
    <2>10. ExclusiveInv'
      BY <1>0, <1>1, <2>2, <2>3, <2>6, <2>7, <2>8, <2>9 DEF ExclusiveInv, Exclusive
    <2>11. AllHeld => AllHeld'
      BY <1>0, <2>2, <2>6, <2>7, <2>8, <2>9 DEF AllHeld
    <2> QED
      BY <1>0, <1>1, <2>2, <2>6, <2>7, <2>8, <2>9, <2>10, <2>11 DEF HeldInv, DistinctInv
  <1>4. ASSUME UNCHANGED <<avsetup, avout, rx, aborting>>, CfgInv',
               \A g \in Endpoints : Held(g)' = Held(g) /\ cfgin'[g].buf = cfgin[g].buf
        PROVE  HeldInv'
    <2>1. InCfg(0)' = InCfg(0) /\ InCfg(1)' = InCfg(1)
      BY <1>4 DEF InCfg, Endpoints
    <2>2. DistinctInv' /\ ExclusiveInv' /\ (AllHeld => AllHeld')
      BY <1>0, <1>1, <1>4, <2>1 DEF DistinctInv, ExclusiveInv, AllHeld
    <2> QED
      BY <1>0, <1>1, <1>4, <2>2 DEF HeldInv
  <1>5. ASSUME NEW ep \in Endpoints, HostInStart(ep) PROVE HeldInv'
    <2>1. UNCHANGED <<avsetup, avout, rx, aborting, in_sent>> /\ cfgin[ep].rdy
      BY <1>5 DEF HostInStart
    <2>2. /\ \A g \in Endpoints : /\ cfgin'[g].rdy = cfgin[g].rdy /\ cfgin'[g].buf = cfgin[g].buf
                                  /\ g # ep => cfgin'[g].sending = cfgin[g].sending
      BY <1>5 DEF HostInStart, UsbTypeOK
    <2>3. \A g \in Endpoints : Held(g)' = Held(g)
      BY <1>0, <2>1, <2>2 DEF Held
    <2>4. CfgInv'
      <3>1. \A g \in in_sent \cup sent : ~cfgin'[g].rdy /\ ~cfgin'[g].sending
        BY <1>1, <2>1, <2>2 DEF CfgInv, UsbTypeOK
      <3> QED
        BY <1>0, <1>1, <2>1, <2>2, <3>1 DEF CfgInv, UsbTypeOK
    <2> QED
      BY <1>4, <2>1, <2>2, <2>3, <2>4
  <1>6. CASE HostInEnd
    <2>1. PICK e \in Endpoints : e = xact.ep
      BY DEF UsbTypeOK
    <2>2. UNCHANGED <<avsetup, avout, rx, aborting>> /\ in_sent' = in_sent \cup {e}
      BY <1>6, <2>1 DEF HostInEnd
    <2>3. cfgin[e].sending
      BY <1>6, <2>1 DEF HostInEnd, ProtoInv, XactInv
    <2>4. /\ ~cfgin'[e].rdy /\ ~cfgin'[e].sending
          /\ \A g \in Endpoints : g # e => cfgin'[g] = cfgin[g]
          /\ \A g \in Endpoints : cfgin'[g].buf = cfgin[g].buf
      BY <1>6, <2>1 DEF HostInEnd, UsbTypeOK
    <2>5. \A g \in Endpoints : Held(g)' = Held(g)
      BY <1>0, <2>2, <2>3, <2>4 DEF Held
    <2>6. CfgInv'
      <3>1. \A g \in in_sent' \cup sent : ~cfgin'[g].rdy /\ ~cfgin'[g].sending
        BY <1>1, <2>2, <2>4 DEF CfgInv, UsbTypeOK
      <3>2. pc = "sent" => sent \cap in_sent' = {}
        BY <1>1, <2>2, <2>3 DEF CfgInv
      <3>3. reply.ep \in Endpoints
        BY DEF UsbTypeOK
      <3>4. pc = "retract" => cfgin'[reply.ep].rdy \/ reply.ep \in in_sent'
        BY <1>1, <2>2, <2>4, <3>3 DEF CfgInv
      <3>5. pc = "wait" => ~cfgin'[reply.ep].rdy
        BY <1>1, <2>4, <3>3 DEF CfgInv
      <3> QED
        BY <1>0, <1>1, <3>1, <3>2, <3>4, <3>5 DEF CfgInv
    <2> QED
      BY <1>4, <2>2, <2>4, <2>5, <2>6
  <1>7. CASE HostStalled
    <2>1. UNCHANGED <<avsetup, avout, rx, aborting, in_sent, cfgin>>
      BY <1>7 DEF HostStalled
    <2>2. CfgInv' /\ \A g \in Endpoints : Held(g)' = Held(g)
      BY <1>0, <1>1, <2>1 DEF CfgInv, Held
    <2> QED
      BY <1>4, <2>1, <2>2
  <1> QED
    BY <1>2, <1>3, <1>5, <1>6, <1>7 DEF HostStep, HostNext

LEMMA NextHeld == UsbTypeOK /\ SentInv /\ ProtoInv /\ HeldInv /\ [Next]_vars => HeldInv'
  <1> SUFFICES ASSUME UsbTypeOK, SentInv, ProtoInv, HeldInv, [Next]_vars PROVE HeldInv'
    OBVIOUS
  <1>1. CASE UNCHANGED vars
    BY <1>1 DEF vars, hwvars, hostvars, drvvars, HeldInv, CfgInv, DistinctInv, ExclusiveInv,
       AllHeld, InCfg, InReply, Held, Replying
  <1> QED
    BY <1>1, HeldSupply, HeldSending, HeldRecving, HeldTaken, HeldSend, HeldApplication,
       HeldHost
    DEF Next, DriverNext

(* The sets of places of HeldInv tell what Holders counts.                 *)
LEMMA HeldOnce ==
    ASSUME UsbTypeOK, HeldInv, overwritten = {}, pc # "failed", NEW b \in Buffers
    PROVE  /\ \A x, y \in Holders(b) : x = y
           /\ aborting \/ Holders(b) # {}
  <1>1. CfgInv /\ DistinctInv /\ ExclusiveInv /\ (aborting \/ AllHeld)
    BY DEF HeldInv
  <1>2. /\ DOMAIN avsetup = 1 .. Len(avsetup) /\ DOMAIN avout = 1 .. Len(avout)
        /\ DOMAIN rx = 1 .. Len(rx)
    BY DEF UsbTypeOK
  <1>3. Len(Bufs(rx)) = Len(rx) /\ \A i \in 1 .. Len(rx) : Bufs(rx)[i] = rx[i].buf
    <2>1. Len(Bufs(rx)) = Len(rx)
      BY BufsProperties DEF UsbTypeOK
    <2> QED
      BY <2>1 DEF Bufs
  <1> DEFINE AtFree(x) == x = <<"free", 0>> /\ b \in buf_free
             AtSetup(x) == \E i \in 1 .. Len(avsetup) : x = <<"avsetup", i>> /\ avsetup[i] = b
             AtOut(x) == \E i \in 1 .. Len(avout) : x = <<"avout", i>> /\ avout[i] = b
             AtRx(x) == \E i \in 1 .. Len(rx) : x = <<"rx", i>> /\ rx[i].buf = b
             AtCfg(e, x) == x = <<"cfgin", e>> /\ b \in InCfg(e)
             AtReply(x) == x = <<"reply", 0>> /\ b \in InReply
             F == IF b \in buf_free THEN {<<"free", 0>>} ELSE {}
             A == {<<"avsetup", i>> : i \in {j \in DOMAIN avsetup : avsetup[j] = b}}
             O == {<<"avout", i>> : i \in {j \in DOMAIN avout : avout[j] = b}}
             R == {<<"rx", i>> : i \in {j \in DOMAIN rx : rx[j].buf = b}}
             C == {<<"cfgin", e>> : e \in {e \in Endpoints : /\ cfgin[e].buf = b
                                                 /\ \/ cfgin[e].rdy
                                                    \/ cfgin[e].sending
                                                    \/ e \in in_sent \cup sent
                                                    \/ pc = "wait" /\ reply.ep = e}}
             P == IF pc \in {"send", "retract", "wait", "write"} /\ reply.buf = b
                  THEN {<<"reply", 0>>} ELSE {}
  <1>4. Holders(b) = F \cup A \cup O \cup R \cup C \cup P
    BY DEF Holders
  <1>5. \A x : x \in F <=> AtFree(x)
    OBVIOUS
  <1>6. \A x : x \in A <=> AtSetup(x)
    BY <1>2
  <1>7. \A x : x \in O <=> AtOut(x)
    BY <1>2
  <1>8. \A x : x \in R <=> AtRx(x)
    BY <1>2
  <1>9. \A e \in Endpoints : Held(e) <=> \/ cfgin[e].rdy
                                         \/ cfgin[e].sending
                                         \/ e \in in_sent \cup sent
                                         \/ pc = "wait" /\ reply.ep = e
    BY <1>1 DEF CfgInv, Held
  <1>10. \A x : x \in C <=> AtCfg(0, x) \/ AtCfg(1, x)
    BY <1>9 DEF InCfg, Endpoints
  <1>11. \A x : x \in P <=> AtReply(x)
    BY DEF InReply, Replying
  <1> HIDE DEF F, A, O, R, C, P
  <1>12. /\ \A x : AtSetup(x) => b \in Items(avsetup)
         /\ \A x : AtOut(x) => b \in Items(avout)
         /\ \A x : AtRx(x) => b \in Items(Bufs(rx))
    BY <1>3 DEF Items
  <1>13. \A x, y : AtSetup(x) /\ AtSetup(y) => x = y
    BY <1>1 DEF DistinctInv, Distinct
  <1>14. \A x, y : AtOut(x) /\ AtOut(y) => x = y
    BY <1>1 DEF DistinctInv, Distinct
  <1>15. \A x, y : AtRx(x) /\ AtRx(y) => x = y
    BY <1>1, <1>3 DEF DistinctInv, Distinct
  <1>16. /\ b \in Items(avsetup) => \E x : AtSetup(x)
         /\ b \in Items(avout) => \E x : AtOut(x)
         /\ b \in Items(Bufs(rx)) => \E x : AtRx(x)
    BY <1>3 DEF Items
  <1>17. /\ b \in buf_free => \E x : AtFree(x)
         /\ b \in InCfg(0) => \E x : AtCfg(0, x)
         /\ b \in InCfg(1) => \E x : AtCfg(1, x)
         /\ b \in InReply => \E x : AtReply(x)
    OBVIOUS
  <1>18. /\ \A x : AtFree(x) => b \in buf_free /\ \A y : AtFree(y) => x = y
         /\ \A x : AtCfg(0, x) => b \in InCfg(0) /\ \A y : AtCfg(0, y) => x = y
         /\ \A x : AtCfg(1, x) => b \in InCfg(1) /\ \A y : AtCfg(1, y) => x = y
         /\ \A x : AtReply(x) => b \in InReply /\ \A y : AtReply(y) => x = y
    OBVIOUS
  <1> HIDE DEF AtFree, AtSetup, AtOut, AtRx, AtCfg, AtReply
  <1>19. \A x : x \in Holders(b) <=> \/ AtFree(x) \/ AtSetup(x) \/ AtOut(x) \/ AtRx(x)
                                     \/ AtCfg(0, x) \/ AtCfg(1, x) \/ AtReply(x)
    BY <1>4, <1>5, <1>6, <1>7, <1>8, <1>10, <1>11
  <1>20. \A x, y \in Holders(b) : x = y
    <2>1. Exclusive(buf_free, Items(avsetup), Items(avout), Items(Bufs(rx)),
                    InCfg(0), InCfg(1), InReply)
      BY <1>1 DEF ExclusiveInv
    <2> QED
      BY <1>12, <1>13, <1>14, <1>15, <1>18, <1>19, <2>1 DEF Exclusive
  <1>21. AllHeld => Holders(b) # {}
    BY <1>16, <1>17, <1>19 DEF AllHeld
  <1> QED
    BY <1>1, <1>20, <1>21

LEMMA HeldGivesOnce == UsbTypeOK /\ HeldInv => BuffersHeldOnce
  <1> SUFFICES ASSUME UsbTypeOK, HeldInv, overwritten = {}, pc # "failed", NEW b \in Buffers
               PROVE  /\ Cardinality(Holders(b)) <= 1
                      /\ aborting \/ (Cardinality(Holders(b)) = 1)
    BY DEF BuffersHeldOnce
  <1> DEFINE H == Holders(b)
  <1>1. (\A x, y \in H : x = y) /\ (aborting \/ H # {})
    BY HeldOnce
  <1> HIDE DEF H
  <1>2. H = {} \/ \E x : H = {x}
    BY <1>1
  <1>3. H = {} => Cardinality(H) = 0
    BY FS_EmptySet
  <1>4. (\E x : H = {x}) => Cardinality(H) = 1
    BY FS_Singleton
  <1> QED
    <2>1. Cardinality(H) <= 1
      BY <1>2, <1>3, <1>4
    <2>2. H # {} => Cardinality(H) = 1
      BY <1>2, <1>4, Zenon
    <2> QED
      BY <1>1, <2>1, <2>2, Zenon DEF H

LEMMA UsbInvariant == Spec => [](UsbTypeOK /\ SentInv /\ ProtoInv /\ HeldInv)
  BY InitTypeOK, NextTypeOK, InitProto, NextProto, InitHeld, NextHeld, PTL DEF Spec

(* Until the driver offers a packet in place of one that the host has      *)
(* collected and the driver has not serviced, no packet buffer is in two   *)
(* places, and none is lost unless the host abandons a transfer, with any  *)
(* number of buffers and any depths of the FIFOs.  That offer is thus the  *)
(* only way to the double release of ReleasedBuffersAreNotOffered.         *)
THEOREM BuffersAreHeldOnce == Spec => []BuffersHeldOnce
  BY UsbInvariant, HeldGivesOnce, PTL

-----------------------------------------------------------------------------
(* Enough buffers for an answer.                                           *)

(* As many buffers as the three FIFOs hold, one for each endpoint and one  *)
(* for the answer; the hardware has 32 for FIFOs of 4, 8 and 8.            *)
EnoughBuffers == NumBuffers >= AvSetupDepth + AvOutDepth + RxDepth + 3

LEMMA ItemsBound ==
    ASSUME NEW S, NEW s \in Seq(S)
    PROVE  IsFiniteSet(Items(s)) /\ Cardinality(Items(s)) \in Nat /\ Cardinality(Items(s)) <= Len(s)
  <1>1. Len(s) \in Nat
    BY LenProperties
  <1>2. IsFiniteSet(1 .. Len(s)) /\ Cardinality(1 .. Len(s)) = Len(s)
    <2>1. Len(s) \in Int /\ 1 \in Int /\ (IF 1 > Len(s) THEN 0 ELSE Len(s) - 1 + 1) = Len(s)
      BY <1>1
    <2> QED
      BY <2>1, FS_Interval, Zenon
  <1> DEFINE f == [i \in 1 .. Len(s) |-> s[i]]
  <1>3. f \in Surjection(1 .. Len(s), Items(s))
    BY DEF Surjection, Items
  <1>4. IsFiniteSet(Items(s)) /\ Cardinality(Items(s)) <= Cardinality(1 .. Len(s))
    BY <1>2, <1>3, FS_Surjection
  <1>5. Cardinality(Items(s)) \in Nat
    BY <1>4, FS_CardinalityType
  <1> QED
    BY <1>2, <1>4, <1>5

LEMMA UnionBound ==
    ASSUME NEW S, IsFiniteSet(S), NEW T, IsFiniteSet(T)
    PROVE  /\ IsFiniteSet(S \cup T) /\ Cardinality(S \cup T) \in Nat
           /\ Cardinality(S) \in Nat /\ Cardinality(T) \in Nat
           /\ Cardinality(S \cup T) <= Cardinality(S) + Cardinality(T)
  <1>1. /\ IsFiniteSet(S \cup T)
        /\ Cardinality(S \cup T) = Cardinality(S) + Cardinality(T) - Cardinality(S \cap T)
    BY FS_Union
  <1>2. IsFiniteSet(S \cap T)
    BY FS_Subset
  <1>3. /\ Cardinality(S \cup T) \in Nat /\ Cardinality(S) \in Nat /\ Cardinality(T) \in Nat
        /\ Cardinality(S \cap T) \in Nat
    BY <1>1, <1>2, FS_CardinalityType
  <1> QED
    BY <1>1, <1>3

(* However much the host received since the packet was taken, a buffer is  *)
(* left for its answer.                                                    *)
LEMMA BufferIsLeft ==
    ASSUME EnoughBuffers, UsbTypeOK, SentInv, HeldInv, ~aborting, overwritten = {},
           pc = "ep0_recv"
    PROVE  buf_free # {}
  <1> SUFFICES ASSUME buf_free = {} PROVE FALSE
    OBVIOUS
  <1>1. AllHeld
    BY DEF HeldInv
  <1>2. InReply = {}
    BY DEF InReply, Replying
  <1>3. Bufs(rx) \in Seq(Buffers) /\ Len(Bufs(rx)) = Len(rx)
    BY BufsProperties DEF UsbTypeOK
  <1> DEFINE A == Items(avsetup)
             O == Items(avout)
             R == Items(Bufs(rx))
             C == InCfg(0)
             D == InCfg(1)
  <1>10. Buffers \subseteq ((A \cup O) \cup (C \cup D)) \cup R
    BY <1>1, <1>2 DEF AllHeld
  <1>11. /\ IsFiniteSet(A) /\ Cardinality(A) \in Nat /\ Cardinality(A) <= AvSetupDepth
         /\ IsFiniteSet(O) /\ Cardinality(O) \in Nat /\ Cardinality(O) <= AvOutDepth
         /\ IsFiniteSet(R) /\ Cardinality(R) \in Nat /\ Cardinality(R) <= RxDepth
    <2>1. avsetup \in Seq(Buffers) /\ avout \in Seq(Buffers)
      BY DEF UsbTypeOK
    <2>2. IsFiniteSet(A) /\ Cardinality(A) \in Nat /\ Cardinality(A) <= Len(avsetup)
      BY <2>1, ItemsBound
    <2>3. IsFiniteSet(O) /\ Cardinality(O) \in Nat /\ Cardinality(O) <= Len(avout)
      BY <2>1, ItemsBound
    <2>4. IsFiniteSet(R) /\ Cardinality(R) \in Nat /\ Cardinality(R) <= Len(rx)
      BY <1>3, ItemsBound
    <2>5. /\ Len(avsetup) \in Nat /\ Len(avsetup) <= AvSetupDepth
          /\ Len(avout) \in Nat /\ Len(avout) <= AvOutDepth
          /\ Len(rx) \in Nat /\ Len(rx) <= RxDepth
      BY LenProperties DEF UsbTypeOK
    <2> HIDE DEF A, O, R
    <2> QED
      BY <2>2, <2>3, <2>4, <2>5, UsbAssumption
  <1>13. /\ IsFiniteSet(C) /\ Cardinality(C) \in Nat /\ Cardinality(C) <= 1
         /\ IsFiniteSet(D) /\ Cardinality(D) \in Nat /\ Cardinality(D) <= 1
    <2>1. \A X : X = {} \/ (\E x : X = {x}) =>
             IsFiniteSet(X) /\ Cardinality(X) \in Nat /\ Cardinality(X) <= 1
      <3>1. \A x : IsFiniteSet({x}) /\ Cardinality({x}) \in Nat /\ Cardinality({x}) <= 1
        <4> TAKE x
        <4>1. IsFiniteSet({x}) /\ Cardinality({x}) = 1
          BY FS_Singleton, Zenon
        <4> QED
          BY <4>1
      <3>2. IsFiniteSet({}) /\ Cardinality({}) \in Nat /\ Cardinality({}) <= 1
        BY FS_EmptySet
      <3> QED
        BY <3>1, <3>2, Zenon
    <2>2. \A e : InCfg(e) = {} \/ \E x : InCfg(e) = {x}
      BY DEF InCfg
    <2> QED
      BY <2>1, <2>2, Zenon
  <1> HIDE DEF A, O, R, C, D
  <1> DEFINE U == A \cup O
             V == C \cup D
             W == U \cup V
  <1>14. /\ IsFiniteSet(U) /\ Cardinality(U) \in Nat
         /\ Cardinality(U) <= Cardinality(A) + Cardinality(O)
    BY <1>11, UnionBound
  <1>15. /\ IsFiniteSet(V) /\ Cardinality(V) \in Nat
         /\ Cardinality(V) <= Cardinality(C) + Cardinality(D)
    BY <1>13, UnionBound
  <1> HIDE DEF U, V
  <1>16. /\ IsFiniteSet(W) /\ Cardinality(W) \in Nat
         /\ Cardinality(W) <= Cardinality(U) + Cardinality(V)
    BY <1>14, <1>15, UnionBound
  <1> HIDE DEF W
  <1>17. /\ IsFiniteSet(W \cup R) /\ Cardinality(W \cup R) \in Nat
         /\ Cardinality(W \cup R) <= Cardinality(W) + Cardinality(R)
    BY <1>11, <1>16, UnionBound
  <1>18. Cardinality(Buffers) <= Cardinality(W \cup R) /\ Cardinality(Buffers) = NumBuffers
    <2>1. Buffers \in SUBSET (W \cup R)
      BY <1>10 DEF U, V, W
    <2> QED
      BY <1>17, <2>1, FS_Subset, BuffersAreFinite
  <1>19. /\ Cardinality(U) <= AvSetupDepth + AvOutDepth /\ Cardinality(V) <= 2
         /\ Cardinality(U) \in Nat /\ Cardinality(V) \in Nat
    BY <1>11, <1>13, <1>14, <1>15, UsbAssumption
  <1>20. NumBuffers <= AvSetupDepth + AvOutDepth + 2 + RxDepth
    BY <1>11, <1>16, <1>17, <1>18, <1>19, UsbAssumption
  <1> QED
    BY <1>20, UsbAssumption DEF EnoughBuffers

(* With as many buffers as the receive side can own, one more for each     *)
(* endpoint and one for the reply, ep0_recv of usbdev-utils.hh always      *)
(* finds a buffer for it, as its assertion says, if the host completes its *)
(* transfers and no packet replaced one whose collection was not serviced. *)
THEOREM ReplyBufferIsAvailable ==
    ASSUME EnoughBuffers
    PROVE  Spec => []ReplyBufferAvailable
  <1>1. Init => ReplyBufferAvailable
    BY DEF Init, DriverInit, ReplyBufferAvailable
  <1>2. ASSUME UsbTypeOK, SentInv, ProtoInv, HeldInv, ReplyBufferAvailable, [Next]_vars
        PROVE  ReplyBufferAvailable'
    <2> USE DEF ReplyBufferAvailable, hostvars, hwvars, drvvars
    <2> SUFFICES ASSUME pc' = "failed", ~aborting', overwritten' = {} PROVE FALSE
      OBVIOUS
    <2>1. CASE ep0_recv
      <3>1. /\ pc = "ep0_recv" /\ aborting' = aborting /\ overwritten' = overwritten
            /\ buf_free = {}
        BY <2>1 DEF ep0_recv, supply_buffers
      <3> QED
        BY <1>2, <3>1, BufferIsLeft
    <2>2. CASE ~ep0_recv /\ DriverNext
      <3>1. CASE supply_ends
        BY <1>2, <3>1 DEF supply_ends, UsbTypeOK
      <3>2. CASE ~supply_ends
        BY <2>2, <3>2 DEF DriverNext, supply_setup_buffer, supply_out_buffer, SupplyKeeps,
           SetupWanted, Initialise, service_sending_read, service_sending_clear,
           service_sending_release, retrieve_collected_packet, ep0_sent_cb, supply_buffers,
           usbdev_service_recving, packet_take, packet_send_read, packet_send_retract,
           packet_send_release, packet_write, hello_usb, usbdev_check, send_on_ep1
      <3> QED
        BY <3>1, <3>2
    <2>3. CASE HostStep
      <3>1. pc' = pc /\ overwritten' = overwritten
        BY <2>3 DEF HostStep
      <3>2. aborting' = aborting
        BY <2>3 DEF HostStep, HostNext, HostSetup, HostOut, HostInStart, HostInEnd, HostStalled
      <3> QED
        BY <1>2, <3>1, <3>2
    <2>4. CASE UNCHANGED vars
      BY <1>2, <2>4 DEF vars
    <2> QED
      BY <1>2, <2>1, <2>2, <2>3, <2>4 DEF Next
  <1> QED
    BY <1>1, <1>2, UsbInvariant, PTL DEF Spec
=============================================================================
