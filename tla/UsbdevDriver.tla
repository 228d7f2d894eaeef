---------------------------- MODULE UsbdevDriver ----------------------------
(***************************************************************************)
(* The two drivers of the USB device and the application each one serves:  *)
(*   "legacy"  sw/legacy/common/usbdev.c with demo/hello_usb/main.c        *)
(*   "cheri"   sw/cheri/common/usbdev-utils.hh with checks/usbdev_check.cc *)
(* They share the structure of their service loop and the handling of the  *)
(* Default Control Pipe; driver says which image runs.  A step is the code *)
(* from one access of the hardware that the host can influence to the      *)
(* next.                                                                   *)
(***************************************************************************)
EXTENDS UsbdevHw, FiniteSetsExt

VARIABLES driver,         \* which of the two images runs
          do_disconnect,  \* the compile-time choice of usbdev_check.cc
          sends,          \* packets sent on endpoint 1; "sent" of usbdev_check.cc
          pc,             \* where the program is
          after,          \* where supply_buffers returns to
          taken,          \* what the packet said that ep0_recv is called for
          buf_free,       \* buf_free / bufAvail: the buffers software holds
          dev_state, ctrl_state, dev_addr,
          sent,           \* the endpoints service_sending has yet to handle
          reply,          \* the packet being sent: arguments of packet_send
          overwritten     \* history: endpoints whose packet was replaced when it
                          \* had been collected but not been serviced yet
drvvars == <<driver, do_disconnect, sends, pc, after, taken, buf_free, dev_state,
             ctrl_state, dev_addr, sent, reply, overwritten>>
CtrlStates == {"Setup", "StatusSetAddr", "StatusGetDesc", "StatusSetConfig"}
\* The arguments of packet_send when it is not running.
NoReply == [ep |-> 0, buf |-> 0, ctrl |-> "Setup"]
vars == <<hwvars, hostvars, drvvars>>

\* usbdev_buf_alloc / buf_alloc: the lowest free buffer.
buf_alloc(free) == Min(free)
\* Mutant: the buffer is forgotten.
usbdev_buf_release_never(free, b) == free

\* usbdev_buf_release: releasing a free buffer is an error that no caller
\* looks at, and changes nothing.
usbdev_buf_release(free, b) == free \cup {b}

\* usbdev_supply_buffers and OpenTitanUsbdev::supply_buffers hand the lowest free
\* buffers to the SETUP FIFO until it is full and the next ones to the OUT FIFO,
\* one write of a register for each, and the status is read again in between: the
\* host goes on receiving meanwhile.
supply_buffers(return) == pc' = "supply_setup" /\ after' = return
SetupWanted == pc = "supply_setup" /\ buf_free # {} /\ Len(avsetup) < AvSetupDepth
OutWanted == /\ pc \in {"supply_setup", "supply_out"} /\ ~SetupWanted
             /\ buf_free # {} /\ Len(avout) < AvOutDepth
SupplyKeeps == UNCHANGED <<rx, cfgin, in_sent, xact, stalled, hwaddr, enabled, hostvars,
                           driver, do_disconnect, sends, taken, dev_state, ctrl_state,
                           dev_addr, sent, reply, overwritten>>
supply_setup_buffer ==
    /\ SetupWanted
    /\ avsetup' = Append(avsetup, buf_alloc(buf_free))
    /\ buf_free' = buf_free \ {buf_alloc(buf_free)}
    /\ UNCHANGED <<avout, pc, after>> /\ SupplyKeeps
supply_out_buffer ==
    /\ OutWanted
    /\ avout' = Append(avout, buf_alloc(buf_free))
    /\ buf_free' = buf_free \ {buf_alloc(buf_free)}
    /\ pc' = "supply_out"
    /\ UNCHANGED <<avsetup, after>> /\ SupplyKeeps
supply_ends ==
    /\ pc \in {"supply_setup", "supply_out"} /\ ~SetupWanted /\ ~OutWanted
    /\ pc' = after /\ after' = "none"
    /\ UNCHANGED <<avsetup, avout, buf_free>> /\ SupplyKeeps

\* The end of usbdev_init with usbdev_ep_config, or of the constructor of
\* UsbdevUtils with setup_out_endpoint, setup_in_endpoint and connect.
Initialise ==
    /\ pc = "connect"
    /\ enabled' = TRUE
    /\ pc' = "sending"
    /\ UNCHANGED <<avsetup, avout, rx, cfgin, in_sent, xact, stalled, hwaddr, hostvars,
                   driver, do_disconnect, sends, after, taken, buf_free, dev_state,
                   ctrl_state, dev_addr, sent, reply, overwritten>>

\* Mutant: the control transfer is not ended.
ep0_sent_stuck ==
    /\ dev_state' = CASE ctrl_state = "StatusSetAddr" -> "Addressed"
                      [] ctrl_state = "StatusSetConfig" -> "Configured"
                      [] OTHER -> dev_state
    /\ hwaddr' = IF ctrl_state = "StatusSetAddr" THEN dev_addr ELSE hwaddr
    /\ UNCHANGED ctrl_state

\* usbdev_ep0_sent / ep0_sent: the host has collected the packet of endpoint 0.
ep0_sent ==
    /\ dev_state' = CASE ctrl_state = "StatusSetAddr" -> "Addressed"
                      [] ctrl_state = "StatusSetConfig" -> "Configured"
                      [] OTHER -> dev_state
    /\ hwaddr' = IF ctrl_state = "StatusSetAddr" THEN dev_addr ELSE hwaddr
    /\ ctrl_state' = "Setup"

\* The first read of usbdev_service_sending.
service_sending_read ==
    /\ driver = "legacy" /\ pc = "sending"
    /\ sent' = in_sent
    /\ IF in_sent = {} THEN supply_buffers("recving") ELSE pc' = "clear" /\ UNCHANGED after
    /\ UNCHANGED <<hwvars, hostvars, driver, do_disconnect, sends, taken, buf_free,
                   dev_state, ctrl_state, dev_addr, reply, overwritten>>

\* The bits that were read are cleared at once ...
service_sending_clear ==
    /\ pc = "clear"
    /\ in_sent' = in_sent \ sent
    /\ pc' = "sent"
    /\ UNCHANGED <<avsetup, avout, rx, cfgin, xact, stalled, hwaddr, enabled,
                   hostvars, driver, do_disconnect, sends, after, taken, buf_free,
                   dev_state, ctrl_state, dev_addr, sent, reply, overwritten>>

\* ... and then handled one by one: the buffer that CONFIGIN names is released.
service_sending_release ==
    /\ pc = "sent"
    /\ LET ep == Min(sent)
       IN  /\ buf_free' = usbdev_buf_release(buf_free, cfgin[ep].buf)
           /\ sent' = sent \ {ep}
           /\ IF ep = 0 THEN ep0_sent ELSE UNCHANGED <<dev_state, hwaddr, ctrl_state>>
           /\ IF sent \ {ep} = {} THEN supply_buffers("recving") ELSE UNCHANGED <<pc, after>>
    /\ UNCHANGED <<avsetup, avout, rx, cfgin, in_sent, xact, stalled, enabled,
                   hostvars, driver, do_disconnect, sends, taken, dev_addr, reply,
                   overwritten>>

\* The loop of UsbdevUtils::service over retrieve_collected_packet, which
\* clears IN_SENT for one endpoint and returns the buffer of its CONFIGIN;
\* buf_release gives that to the receive side.
retrieve_collected_packet ==
    /\ driver = "cheri" /\ pc = "sending"
    /\ IF in_sent = {}
       THEN supply_buffers("recving") /\ UNCHANGED <<buf_free, in_sent>>
       ELSE LET ep == Min(in_sent)
            IN  /\ in_sent' = in_sent \ {ep}
                /\ buf_free' = usbdev_buf_release(buf_free, cfgin[ep].buf)
                /\ supply_buffers(IF ep = 0 THEN "sent_cb" ELSE "sending")
    /\ UNCHANGED <<avsetup, avout, rx, cfgin, xact, stalled, hwaddr, enabled, hostvars,
                   driver, do_disconnect, sends, taken, dev_state, ctrl_state, dev_addr,
                   sent, reply, overwritten>>

\* Then the callback of endpoint 0; endpoint 1 has none.
ep0_sent_cb ==
    /\ pc = "sent_cb"
    /\ ep0_sent
    /\ pc' = "sending"
    /\ UNCHANGED <<avsetup, avout, rx, cfgin, in_sent, xact, stalled, enabled, hostvars,
                   driver, do_disconnect, sends, after, taken, buf_free, dev_addr, sent,
                   reply, overwritten>>

\* usbdev_ep0_recv / ep0_recv: the requests that are answered with a packet
\* (a descriptor, or an empty packet) and the state that waits for the host to
\* collect it.
Answered == {"GetDesc", "SetAddr", "SetConfig"}
status_state(r) == CASE r = "GetDesc" -> "StatusGetDesc" [] r = "SetAddr" -> "StatusSetAddr"
                     [] r = "SetConfig" -> "StatusSetConfig"
\* Only a SETUP packet that arrives in the state Ctrl_Setup is looked at; in
\* any other state a packet of endpoint 0 ends the transfer.
is_answered(ep, data) == ep = 0 /\ ctrl_state = "Setup" /\ data \in Answered
is_stalled(ep, data) == ep = 0 /\ ctrl_state = "Setup" /\ data = "GetOther"

\* The state changes of ep0_recv for a packet that is not answered.
ep0_unanswered(ep, data) ==
    /\ stalled' = (stalled \/ is_stalled(ep, data))
    /\ ctrl_state' = IF ep = 0 THEN "Setup" ELSE ctrl_state

\* Mutant: a packet that needs no answer does not end the reception.
usbdev_service_recving_all ==
    /\ driver = "legacy" /\ pc = "recving"
    /\ IF rx = <<>>
       THEN pc' = "loop" /\ UNCHANGED <<rx, buf_free, reply, stalled, ctrl_state, dev_addr>>
       ELSE LET p == Head(rx)
            IN  /\ rx' = Tail(rx)
                /\ IF is_answered(p.ep, p.data)
                   THEN /\ reply' = [ep |-> 0, buf |-> p.buf, ctrl |-> status_state(p.data)]
                        /\ dev_addr' = (dev_addr \/ p.data = "SetAddr")
                        /\ pc' = "send"
                        /\ UNCHANGED <<buf_free, stalled, ctrl_state>>
                   ELSE /\ ep0_unanswered(p.ep, p.data)
                        /\ buf_free' = usbdev_buf_release(buf_free, p.buf)
                        /\ pc' = "recving"
                        /\ UNCHANGED <<reply, dev_addr>>
    /\ UNCHANGED <<avsetup, avout, cfgin, in_sent, xact, hwaddr, enabled, hostvars,
                   driver, do_disconnect, sends, after, taken, dev_state, sent,
                   overwritten>>

\* usbdev_service_recving: at most one packet in each turn of the loop.  The
\* buffer of a request is used for its answer.
usbdev_service_recving ==
    /\ driver = "legacy" /\ pc = "recving"
    /\ IF rx = <<>>
       THEN pc' = "loop" /\ UNCHANGED <<rx, buf_free, reply, stalled, ctrl_state, dev_addr>>
       ELSE LET p == Head(rx)
            IN  /\ rx' = Tail(rx)
                /\ IF is_answered(p.ep, p.data)
                   THEN /\ reply' = [ep |-> 0, buf |-> p.buf, ctrl |-> status_state(p.data)]
                        /\ dev_addr' = (dev_addr \/ p.data = "SetAddr")
                        /\ pc' = "send"
                        /\ UNCHANGED <<buf_free, stalled, ctrl_state>>
                   ELSE /\ ep0_unanswered(p.ep, p.data)
                        /\ buf_free' = usbdev_buf_release(buf_free, p.buf)
                        /\ pc' = "loop"
                        /\ UNCHANGED <<reply, dev_addr>>
    /\ UNCHANGED <<avsetup, avout, cfgin, in_sent, xact, hwaddr, enabled, hostvars,
                   driver, do_disconnect, sends, after, taken, dev_state, sent,
                   overwritten>>

\* The loop of UsbdevUtils::service over packet_take: every packet of the
\* receive FIFO is handled.  Its data are copied, and buf_release gives its buffer
\* back to the receive side before the callback.  The callback of endpoint 1 only
\* prints.
packet_take ==
    /\ driver = "cheri" /\ pc = "recving"
    /\ IF rx = <<>>
       THEN pc' = "loop" /\ UNCHANGED <<rx, buf_free, after, taken>>
       ELSE LET p == Head(rx)
            IN  /\ rx' = Tail(rx)
                /\ buf_free' = usbdev_buf_release(buf_free, p.buf)
                /\ taken' = IF p.ep = 0 THEN p.data ELSE "none"
                /\ supply_buffers(IF p.ep = 0 THEN "ep0_recv" ELSE "recving")
    /\ UNCHANGED <<avsetup, avout, cfgin, in_sent, xact, stalled, hwaddr, enabled,
                   hostvars, driver, do_disconnect, sends, dev_state, ctrl_state, dev_addr,
                   sent, reply, overwritten>>

\* ep0_recv allocates a buffer for the answer first, and asserts that there is one;
\* if there is no answer it is released again.
ep0_recv ==
    /\ pc = "ep0_recv"
    /\ taken' = "none"
    /\ \/ /\ buf_free = {}
          /\ pc' = "failed"
          /\ UNCHANGED <<after, buf_free, reply, stalled, ctrl_state, dev_addr>>
       \/ /\ buf_free # {} /\ is_answered(0, taken)
          /\ reply' = [ep |-> 0, buf |-> buf_alloc(buf_free), ctrl |-> status_state(taken)]
          /\ dev_addr' = (dev_addr \/ taken = "SetAddr")
          /\ pc' = "write" /\ buf_free' = buf_free \ {buf_alloc(buf_free)}
          /\ UNCHANGED <<after, stalled, ctrl_state>>
       \/ /\ buf_free # {} /\ ~is_answered(0, taken)
          /\ ep0_unanswered(0, taken)
          /\ supply_buffers("recving")
          /\ UNCHANGED <<buf_free, reply, dev_addr>>
    /\ UNCHANGED <<avsetup, avout, rx, cfgin, in_sent, xact, hwaddr, enabled, hostvars,
                   driver, do_disconnect, sends, dev_state, sent, overwritten>>

\* usbdev_packet_send: is an earlier packet still waiting to be collected?
packet_send_read ==
    /\ pc = "send"
    /\ pc' = IF cfgin[reply.ep].rdy THEN "retract" ELSE "write"
    /\ UNCHANGED <<hwvars, hostvars, driver, do_disconnect, sends, after, taken, buf_free,
                   dev_state, ctrl_state, dev_addr, sent, reply, overwritten>>

\* It is withdrawn by clearing RDY ...
packet_send_retract ==
    /\ pc = "retract"
    /\ cfgin' = [cfgin EXCEPT ![reply.ep].rdy = FALSE]
    /\ pc' = "wait"
    /\ UNCHANGED <<avsetup, avout, rx, in_sent, xact, stalled, hwaddr, enabled,
                   hostvars, driver, do_disconnect, sends, after, taken, buf_free,
                   dev_state, ctrl_state, dev_addr, sent, reply, overwritten>>

\* Mutant: the driver does not wait for the end of a collection.
packet_send_release_early ==
    /\ pc = "wait"
    /\ buf_free' = usbdev_buf_release(buf_free, cfgin[reply.ep].buf)
    /\ overwritten' = overwritten \cup ({reply.ep} \cap in_sent)
    /\ pc' = "write"
    /\ UNCHANGED <<hwvars, hostvars, driver, do_disconnect, sends, after, taken, dev_state,
                   ctrl_state, dev_addr, sent, reply>>

\* ... and its buffer released once the host is not collecting it.
packet_send_release ==
    /\ pc = "wait"
    /\ ~cfgin[reply.ep].sending
    /\ buf_free' = usbdev_buf_release(buf_free, cfgin[reply.ep].buf)
    /\ overwritten' = overwritten \cup ({reply.ep} \cap in_sent)
    /\ pc' = "write"
    /\ UNCHANGED <<hwvars, hostvars, driver, do_disconnect, sends, after, taken, dev_state,
                   ctrl_state, dev_addr, sent, reply>>

\* The packet is copied to its buffer and offered to the host; then the caller
\* sets the state of the control transfer.  The CHERI driver comes here without
\* looking at what CONFIGIN holds.
packet_write ==
    /\ pc = "write"
    /\ cfgin' = [cfgin EXCEPT ![reply.ep].buf = reply.buf, ![reply.ep].rdy = TRUE]
    /\ overwritten' = IF \/ cfgin[reply.ep].rdy \/ cfgin[reply.ep].sending
                         \/ reply.ep \in in_sent
                      THEN overwritten \cup {reply.ep} ELSE overwritten
    /\ reply' = NoReply
    /\ IF reply.ep = 0
       THEN /\ ctrl_state' = reply.ctrl
            /\ pc' = IF driver = "legacy" THEN "loop" ELSE "recving"
       ELSE pc' = "sending" /\ UNCHANGED ctrl_state
    /\ UNCHANGED <<avsetup, avout, rx, in_sent, xact, stalled, hwaddr, enabled, hostvars,
                   driver, do_disconnect, sends, after, taken, buf_free, dev_state, dev_addr,
                   sent>>

\* The application hands a packet for endpoint 1 to the driver.
send_on_ep1(next) ==
    /\ reply' = [ep |-> 1, buf |-> buf_alloc(buf_free), ctrl |-> "Setup"]
    /\ buf_free' = buf_free \ {buf_alloc(buf_free)}
    /\ sends' = sends + 1
    /\ pc' = next

\* hello_usb, after each call of usbdev_service: one line on endpoint 1 in
\* every turn once the device is configured and a buffer is free.
hello_usb ==
    /\ driver = "legacy" /\ pc = "loop"
    /\ IF dev_state = "Configured" /\ buf_free # {} /\ sends < MaxSends
       THEN send_on_ep1("send")
       ELSE pc' = "sending" /\ UNCHANGED <<reply, buf_free, sends>>
    /\ UNCHANGED <<hwvars, hostvars, driver, do_disconnect, after, taken, dev_state,
                   ctrl_state, dev_addr, sent, overwritten>>

\* usbdev_check, after each call of service: once configured it disconnects, or
\* sends its greeting once.
usbdev_check ==
    /\ driver = "cheri" /\ pc = "loop"
    /\ IF dev_state = "Configured" /\ ~do_disconnect /\ sends = 0 /\ buf_free # {}
       THEN send_on_ep1("write")
       ELSE pc' = "sending" /\ UNCHANGED <<reply, buf_free, sends>>
    /\ IF dev_state = "Configured" /\ do_disconnect
       THEN enabled' = FALSE /\ hwaddr' = FALSE
       ELSE UNCHANGED <<enabled, hwaddr>>
    /\ UNCHANGED <<avsetup, avout, rx, cfgin, in_sent, xact, stalled, hostvars, driver,
                   do_disconnect, after, taken, dev_state, ctrl_state, dev_addr, sent,
                   overwritten>>

DriverNext ==
    \/ supply_setup_buffer \/ supply_out_buffer \/ supply_ends \/ Initialise
    \/ service_sending_read \/ service_sending_clear \/ service_sending_release
    \/ retrieve_collected_packet \/ ep0_sent_cb
    \/ usbdev_service_recving \/ packet_take \/ ep0_recv
    \/ packet_send_read \/ packet_send_retract \/ packet_send_release \/ packet_write
    \/ hello_usb \/ usbdev_check

DriverInit ==
    /\ driver \in {"legacy", "cheri"}
    /\ do_disconnect \in IF driver = "cheri" THEN BOOLEAN ELSE {FALSE}
    /\ sends = 0
    /\ pc = "supply_setup" /\ after = "connect" /\ taken = "none" /\ buf_free = Buffers
    /\ dev_state = "Reset" /\ ctrl_state = "Setup" /\ dev_addr = FALSE
    /\ sent = {} /\ overwritten = {}
    /\ reply = NoReply

Init == HwInit /\ HostInit /\ DriverInit

\* A host gives a transfer up only after a timeout of seconds, when the driver
\* has long dealt with all that it has received.
HostTimeout == /\ rx = <<>> /\ taken = "none"
               /\ pc \notin {"send", "retract", "wait", "write"}
HostStep == /\ HostNext
            /\ (setups' # setups /\ hstage # "idle") => HostTimeout
            /\ UNCHANGED drvvars
Next == DriverNext \/ HostStep
\* The host goes on with a transfer and with the enumeration; once it has
\* configured the device it need not make another request.
HostGoesOn == HostStep /\ (setups' # setups => ~hconf)
Spec == Init /\ [][Next]_vars /\ WF_vars(DriverNext) /\ WF_vars(HostGoesOn)

-----------------------------------------------------------------------------
(* Properties *)

\* The registers, FIFOs and the driver's variables stay within their types.
UsbTypeOK ==
    /\ avsetup \in Seq(Buffers) /\ Len(avsetup) <= AvSetupDepth
    /\ avout \in Seq(Buffers) /\ Len(avout) <= AvOutDepth
    /\ rx \in Seq(Packets) /\ Len(rx) <= RxDepth
    /\ cfgin \in [Endpoints -> [buf : Buffers, rdy : BOOLEAN, sending : BOOLEAN]]
    /\ in_sent \subseteq Endpoints /\ sent \subseteq Endpoints
    /\ xact \in [ep : Endpoints, buf : Buffers \cup {NoBuf}]
    /\ stalled \in BOOLEAN /\ hwaddr \in BOOLEAN /\ enabled \in BOOLEAN
    /\ hreq \in Requests /\ hstage \in {"idle", "data", "statusIn", "statusOut"}
    /\ haddr \in BOOLEAN /\ hconf \in BOOLEAN /\ aborting \in BOOLEAN
    /\ driver \in {"legacy", "cheri"} /\ do_disconnect \in BOOLEAN
    /\ pc \in {"supply_setup", "supply_out", "connect", "sending", "clear", "sent", "sent_cb",
              "recving", "ep0_recv", "send", "retract", "wait", "write", "loop", "failed"}
    /\ after \in {"none", "connect", "sending", "sent_cb", "recving", "ep0_recv"}
    /\ taken \in Requests \cup {"out", "none"}
    /\ buf_free \subseteq Buffers
    /\ dev_state \in {"Reset", "Addressed", "Configured"}
    /\ ctrl_state \in CtrlStates /\ dev_addr \in BOOLEAN
    /\ reply \in [ep : Endpoints, buf : Buffers, ctrl : CtrlStates]
    /\ overwritten \subseteq Endpoints
    /\ setups \in Nat /\ outs \in Nat /\ sends \in Nat

\* Who holds buffer b: the free list, each entry of the FIFOs, a CONFIGIN
\* register whose packet is offered or not accounted for, the packet that the
\* driver is about to offer.
Holders(b) ==
    (IF b \in buf_free THEN {<<"free", 0>>} ELSE {})
    \cup {<<"avsetup", i>> : i \in {j \in DOMAIN avsetup : avsetup[j] = b}}
    \cup {<<"avout", i>> : i \in {j \in DOMAIN avout : avout[j] = b}}
    \cup {<<"rx", i>> : i \in {j \in DOMAIN rx : rx[j].buf = b}}
    \cup {<<"cfgin", e>> : e \in {e \in Endpoints : /\ cfgin[e].buf = b
                                                 /\ \/ cfgin[e].rdy
                                                    \/ cfgin[e].sending
                                                    \/ e \in in_sent \cup sent
                                                    \/ pc = "wait" /\ reply.ep = e}}
    \cup (IF pc \in {"send", "retract", "wait", "write"} /\ reply.buf = b
          THEN {<<"reply", 0>>} ELSE {})

\* Until a packet is offered on an endpoint whose last packet has been collected
\* but not yet serviced, no packet buffer is in two places, and none is lost unless
\* the host abandons a transfer (the buffer of the abandoned reply is not
\* reclaimed): buf_free, what service gives to the receive side and what it
\* releases after collection agree, in both drivers.
BuffersHeldOnce ==
    (overwritten = {} /\ pc # "failed") =>
        \A b \in Buffers :
            /\ Cardinality(Holders(b)) <= 1
            /\ aborting \/ (Cardinality(Holders(b)) = 1)

\* The device takes its address, and calls itself configured, only after the
\* host has collected the status packet of that very request: usbdev_ep0_sent
\* is not told of the collection of an earlier packet.  In usbdev.c this holds
\* for every host because one call of service handles the collected packets
\* before it takes at most one received packet.
StateFollowsStatusStage ==
    (driver = "legacy" \/ 0 \notin overwritten) =>
        /\ (hwaddr => haddr)
        /\ (dev_state = "Configured" => hconf)

\* What usbdev_service_sending says of the buffers that it releases, "Any packets
\* sent?  These buffers may be released immediately": the buffer of a packet that
\* is still on offer is not free.  It fails after a packet is offered on an endpoint
\* whose last packet has been collected but not yet serviced: CONFIGIN names the
\* buffer of the new packet when service_sending reads it.
ReleasedBuffersAreNotOffered ==
    driver = "legacy" => \A e \in Endpoints : cfgin[e].rdy => cfgin[e].buf \notin buf_free

\* With as many buffers as the receive side can own, one more for each endpoint
\* and one for the reply, ep0_recv of usbdev-utils.hh always finds a buffer for
\* it, as its assertion says, whatever the host sends between the steps of service:
\* if the host completes its transfers and no packet was offered over one that was
\* collected but not yet serviced.
ReplyBufferAvailable == pc = "failed" => aborting \/ overwritten # {}

\* A host that completes its transfers gets the device of usbdev.c configured,
\* unless it makes another request before the device is (ConfigurationIsNoticed
\* is about that host): no order of collections, retractions and polls makes the
\* enumeration stop.
EnumerationCompletes ==
    (driver = "legacy" /\ ~aborting) =>
        <>(dev_state = "Configured" \/ (hconf /\ hreq # "SetConfig"))

\* What usbdev_active says it tells: once the host has completed the
\* SET_CONFIGURATION request the device becomes configured.  It fails when the
\* host collects the status packet after service_sending has looked and its
\* next SETUP packet arrives before service_recving: usbdev_ep0_recv then ends
\* the transfer, and the collection is reported to a state that ignores it.
ConfigurationIsNoticed ==
    (driver = "legacy" /\ ~aborting) => (hconf ~> dev_state = "Configured")
=============================================================================
