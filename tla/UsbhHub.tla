------------------------------- MODULE UsbhHub -------------------------------
(***************************************************************************)
(* The root hub: the port interrupt of the DWC2 driver                     *)
(* (dwc2_port_irq_handler and the disconnect interrupt of USBH_IRQHandler, *)
(* port/dwc2/usb_hc_dwc2.c) and the hub thread (usbh_hub_events,           *)
(* class/hub/usbh_hub.c), which debounces the port, resets it and          *)
(* enumerates or releases the device.                                      *)
(*                                                                         *)
(* The interrupt and the thread share the change flags port_csc and        *)
(* port_pec, the interrupt buffer and the hub's message queue; the user    *)
(* plugs and unplugs devices at any moment.  A step of the thread runs to  *)
(* its next access of shared state or its next sleep.  Devices are         *)
(* numbered in the order they are plugged in.  UsbhEnum has the detail of  *)
(* the enumeration, which is one step here.                                *)
(***************************************************************************)
EXTENDS Integers

CONSTANTS StableSteps,    \* HUB_DEBOUNCE_STABLE / HUB_DEBOUNCE_STEP
          TimeoutSteps,   \* HUB_DEBOUNCE_TIMEOUT / HUB_DEBOUNCE_STEP
          QueueSize,      \* messages the hub queue holds (usbh_hub_initialize: 7)
          MaxPlugs        \* bound: devices plugged in during a behaviour

ASSUME HubAssumption ==
    /\ StableSteps \in Nat \ {0} /\ TimeoutSteps \in Nat
    /\ QueueSize \in Nat \ {0} /\ MaxPlugs \in Nat

VARIABLES
    dev,       \* the device in the port, 0 when it is empty (HPRT.PCSTS)
    plugs,     \* devices plugged in so far
    pena,      \* HPRT.PENA, the port is enabled
    pcdet,     \* HPRT.PCDET, connect detected, not yet handled
    penchng,   \* HPRT.PENCHNG, enable changed, not yet handled
    discint,   \* GINTSTS.DISCINT, disconnect, not yet handled
    csc,       \* g_dwc2_hcd.port_csc
    pec,       \* g_dwc2_hcd.port_pec
    intbuf,    \* the bit of the port in the root hub's int_buffer
    mq,        \* messages in the hub queue
    pc,        \* where the hub thread is
    chg,       \* the change bits the thread has read: csc, pec
    conn,      \* debouncing: connection
    stable,    \* debouncing: debouncestable, in steps
    time,      \* debouncing: debouncetime, in steps
    seen,      \* portstatus & HUB_PORT_STATUS_CONNECTION as last read
    child,     \* the device the connected child port was set up for, or 0
    since,     \* history: the device at the first read of the stable passes
    gaveup,    \* history: debouncing failed, and no change was signalled since
    failed     \* history: the last device that could not be enumerated

hw == <<dev, plugs, pena, pcdet, penchng, discint>>
shared == <<csc, pec, intbuf, mq>>
locals == <<chg, conn, stable, time, seen>>
result == <<child, since, gaveup, failed>>
vars == <<hw, shared, pc, locals, result>>

Init ==
    /\ dev = 0 /\ plugs = 0
    /\ pena = FALSE /\ pcdet = FALSE /\ penchng = FALSE /\ discint = FALSE
    /\ csc = FALSE /\ pec = FALSE /\ intbuf = FALSE /\ mq = 0
    /\ pc = "recv"
    /\ chg = [csc |-> FALSE, pec |-> FALSE]
    /\ conn = FALSE /\ stable = 0 /\ time = 0 /\ seen = FALSE
    /\ child = 0 /\ since = 0 /\ gaveup = FALSE /\ failed = 0

-----------------------------------------------------------------------------
(* The user and the port hardware.                                         *)

Plug ==
    /\ dev = 0 /\ plugs < MaxPlugs
    /\ plugs' = plugs + 1 /\ dev' = plugs + 1
    /\ pcdet' = TRUE
    /\ UNCHANGED <<pena, penchng, discint, shared, pc, locals, result>>

\* The port is disabled when its device leaves.
Unplug ==
    /\ dev # 0
    /\ dev' = 0 /\ discint' = TRUE
    /\ pena' = FALSE /\ penchng' = (penchng \/ pena)
    /\ UNCHANGED <<plugs, pcdet, shared, pc, locals, result>>

-----------------------------------------------------------------------------
(* The interrupt.                                                          *)

\* Mutant: the queue is not bounded.
MutWakeup(n) == n + 1

\* usbh_hub_thread_wakeup: the result of the send is ignored.
Wakeup(n) == IF n < QueueSize THEN n + 1 ELSE n

\* Mutant: a disconnect sets the change flag and wakes nobody.
MutPortIrq ==
    /\ pcdet \/ penchng \/ discint
    /\ csc' = (csc \/ pcdet \/ discint)
    /\ pec' = (pec \/ penchng)
    /\ intbuf' = (intbuf \/ (pcdet /\ dev # 0))
    /\ mq' = IF pcdet /\ dev # 0 THEN Wakeup(mq) ELSE mq
    /\ pcdet' = FALSE /\ penchng' = FALSE /\ discint' = FALSE
    /\ gaveup' = (gaveup /\ ~pcdet /\ ~discint)
    /\ UNCHANGED <<dev, plugs, pena, pc, locals, child, since, failed>>

\* USBH_IRQHandler with dwc2_port_irq_handler: a connect wakes the thread if
\* the device is still there, a change of the enable bit only sets its flag,
\* a disconnect always wakes the thread.
PortIrq ==
    LET connect == pcdet /\ dev # 0 IN
    /\ pcdet \/ penchng \/ discint
    /\ csc' = (csc \/ pcdet \/ discint)
    /\ pec' = (pec \/ penchng)
    /\ intbuf' = (intbuf \/ connect \/ discint)
    /\ mq' = LET m == IF connect THEN Wakeup(mq) ELSE mq
             IN  IF discint THEN Wakeup(m) ELSE m
    /\ pcdet' = FALSE /\ penchng' = FALSE /\ discint' = FALSE
    /\ gaveup' = (gaveup /\ ~pcdet /\ ~discint)
    /\ UNCHANGED <<dev, plugs, pena, pc, locals, child, since, failed>>

-----------------------------------------------------------------------------
(* The hub thread.                                                         *)

\* usbh_hub_thread: a message makes it look at the ports in int_buffer.
Receive ==
    /\ pc = "recv" /\ mq > 0
    /\ mq' = mq - 1
    /\ pc' = IF intbuf THEN "status" ELSE "recv"
    /\ UNCHANGED <<hw, csc, pec, intbuf, locals, result>>

\* The port's status is read; without a change there is nothing to do.
ReadStatus ==
    /\ pc = "status"
    /\ chg' = [csc |-> csc, pec |-> pec]
    /\ pc' = IF csc \/ pec THEN "clear" ELSE "recv"
    /\ UNCHANGED <<hw, shared, conn, stable, time, seen, result>>

\* "First, clear all change bits"; a change that came since the read is
\* cleared with them.  Only a connection change starts the debouncing.
ClearChanges ==
    /\ pc = "clear"
    /\ csc' = (csc /\ ~chg.csc) /\ pec' = (pec /\ ~chg.pec)
    /\ pc' = IF chg.csc THEN "read" ELSE "recv"
    /\ conn' = FALSE /\ stable' = 0 /\ time' = 0
    /\ UNCHANGED <<hw, intbuf, mq, chg, seen, result>>

\* One pass of the debounce loop reads the port register ...
DebounceRead ==
    /\ pc = "read" /\ time < TimeoutSteps
    /\ seen' = (dev # 0)
    /\ since' = IF stable = 0 THEN dev ELSE since
    /\ pc' = "check"
    /\ UNCHANGED <<hw, shared, chg, conn, stable, time, child, gaveup, failed>>

\* Mutant: a connection change does not restart the count.
MutDebounceCheck ==
    LET quiet == seen = conn
        n     == IF quiet THEN stable + 1 ELSE 0 IN
    /\ pc = "check"
    /\ stable' = n
    /\ conn' = IF quiet THEN conn ELSE seen
    /\ chg' = [chg EXCEPT !.csc = csc]
    /\ pc' = IF n >= StableSteps THEN "decide" ELSE IF csc THEN "unflag" ELSE "read"
    /\ time' = IF n >= StableSteps \/ csc THEN time ELSE time + 1
    /\ UNCHANGED <<hw, shared, seen, result>>

\* ... then the change flag, and counts the passes without a change; enough
\* of them in a row end the loop, else it clears the flag it saw and sleeps.
DebounceCheck ==
    LET quiet == ~csc /\ seen = conn
        n     == IF quiet THEN stable + 1 ELSE 0 IN
    /\ pc = "check"
    /\ stable' = n
    /\ conn' = IF quiet THEN conn ELSE seen
    /\ chg' = [chg EXCEPT !.csc = csc]
    /\ pc' = IF n >= StableSteps THEN "decide" ELSE IF csc THEN "unflag" ELSE "read"
    /\ time' = IF n >= StableSteps \/ csc THEN time ELSE time + 1
    /\ UNCHANGED <<hw, shared, seen, result>>

DebounceClear ==
    /\ pc = "unflag"
    /\ csc' = FALSE
    /\ time' = time + 1
    /\ pc' = "read"
    /\ UNCHANGED <<hw, pec, intbuf, mq, chg, conn, stable, seen, result>>

\* The loop ran out: the event is dropped.
DebounceFails ==
    /\ pc = "read" /\ time >= TimeoutSteps
    /\ gaveup' = TRUE
    /\ pc' = "recv"
    /\ UNCHANGED <<hw, shared, locals, child, since, failed>>

\* Mutant: "check connect status" releases nothing.
MutDecide ==
    /\ pc = "decide"
    /\ gaveup' = FALSE
    /\ pc' = IF seen THEN "reset" ELSE "recv"
    /\ UNCHANGED <<hw, shared, locals, child, since, failed>>

\* "Last, check connect status": an empty port is released, another is reset.
Decide ==
    /\ pc = "decide"
    /\ gaveup' = FALSE
    /\ pc' = IF seen THEN "reset" ELSE "recv"
    /\ child' = IF seen THEN child ELSE 0
    /\ UNCHANGED <<hw, shared, locals, since, failed>>

\* usbh_reset_port: the reset signal ends; the port becomes enabled if there
\* is a device in it.
ResetEnds ==
    /\ pc = "reset"
    /\ pena' = (pena \/ dev # 0)
    /\ penchng' = (penchng \/ (dev # 0 /\ ~pena))
    /\ pc' = "poll"
    /\ UNCHANGED <<dev, plugs, pcdet, discint, shared, locals, result>>

\* The thread leaves usbh_reset_port only when it sees the port enabled.
PortEnabled ==
    /\ pc = "poll" /\ pena
    /\ pc' = "after"
    /\ UNCHANGED <<hw, shared, locals, result>>

\* After the delay the status is read again.  An enabled port: the previous
\* device is released and the child set up for the one that is there.
SetUpChild ==
    /\ pc = "after" /\ pena
    /\ child' = dev
    /\ pc' = "enum"
    /\ UNCHANGED <<hw, shared, locals, since, gaveup, failed>>

\* The port was disabled during the delay: "Failed to enable port".
NotEnabled ==
    /\ pc = "after" /\ ~pena
    /\ child' = 0
    /\ pc' = "recv"
    /\ UNCHANGED <<hw, shared, locals, since, gaveup, failed>>

\* usbh_enumerate succeeds: its last transfer needs the device.
EnumerateOk ==
    /\ pc = "enum" /\ pena /\ dev = child
    /\ pc' = "recv"
    /\ UNCHANGED <<hw, shared, locals, result>>

EnumerateFails ==
    /\ pc = "enum"
    /\ child' = 0 /\ failed' = child
    /\ pc' = "recv"
    /\ UNCHANGED <<hw, shared, locals, since, gaveup>>

HubThread ==
    \/ Receive \/ ReadStatus \/ ClearChanges
    \/ DebounceRead \/ DebounceCheck \/ DebounceClear \/ DebounceFails
    \/ Decide \/ ResetEnds \/ PortEnabled \/ SetUpChild \/ NotEnabled
    \/ EnumerateOk \/ EnumerateFails

Next == Plug \/ Unplug \/ PortIrq \/ HubThread

Spec == Init /\ [][Next]_vars

\* The interrupt is taken and the hub thread, the highest in priority, runs.
FairSpec == Spec /\ WF_vars(PortIrq) /\ WF_vars(HubThread)

-----------------------------------------------------------------------------
(* Properties.                                                             *)

\* The variables of the interrupt handler and of the hub thread keep their types.
TypeOK ==
    /\ plugs \in 0 .. MaxPlugs /\ {dev, child, since, failed} \subseteq 0 .. plugs
    /\ {pena, pcdet, penchng, discint, csc, pec, intbuf, conn, seen, gaveup} \subseteq BOOLEAN
    /\ chg \in [csc : BOOLEAN, pec : BOOLEAN]
    /\ mq \in 0 .. QueueSize
    /\ stable \in 0 .. StableSteps /\ time \in 0 .. TimeoutSteps
    /\ pc \in {"recv", "status", "clear", "read", "check", "unflag", "decide",
               "reset", "poll", "after", "enum"}

\* The child port is set up for the device that is in the port, or the
\* port's device could not be enumerated.
Matches == child = dev \/ (child = 0 /\ failed = dev)

\* The thread waits in usbh_reset_port for an enable bit that will not come.
Hung == pc = "poll" /\ ~pena

\* No change is forgotten: when the hub thread waits for a message and the
\* child does not match the port, an interrupt is pending or the change flag
\* is set with a message in the queue, however plugging, the interrupt, a
\* full queue and the clearing of flags interleaved (a failed debouncing
\* excepted, which drops the event).
ChangePending ==
    pc = "recv" /\ ~Matches => pcdet \/ discint \/ (csc /\ mq > 0 /\ intbuf) \/ gaveup

\* Debouncing: when the thread decides and nothing is pending, the port has
\* held one and the same device (or none) during all the passes that were
\* counted; an exchange between two reads of the same connection status does
\* not go unnoticed.
DecisionStable ==
    pc = "decide" /\ ~csc /\ ~pcdet /\ ~discint => dev = since /\ seen = (dev # 0)

\* When the user stops, the child port in the end matches the port for good:
\* no device that left stays connected, none that stays is ignored.  Two
\* exceptions: a debouncing that failed has dropped the event (usbh_hub_events,
\* "Failed to debounce port"), and usbh_reset_port waits without limit for the
\* enable bit of a device that was unplugged during the reset.
Settles == <>[](Matches \/ gaveup \/ Hung)
=============================================================================
