------------------------------ MODULE Dwc2Urb ------------------------------
(***************************************************************************)
(* The life of a USB request block in the CherryUSB host driver for the    *)
(* DWC2 controller (port/dwc2/usb_hc_dwc2.c): usbh_submit_urb by its       *)
(* thread, usbh_kill_urb by the same thread after a timeout or by the hub  *)
(* thread after a disconnection, and the channel interrupt.                *)
(*                                                                         *)
(* A critical section (interrupts disabled) is one action.  What happens   *)
(* between two of them is not protected: the submitting thread has a       *)
(* program counter, and the hub thread, which has the highest priority     *)
(* (CONFIG_USBHOST_PSC_PRIO is 0), or the interrupt may come in at every   *)
(* point of it; the interrupt may also come in between the steps of the    *)
(* hub thread and of the tick handler.                                     *)
(*                                                                         *)
(* Each URB is used by one thread (the class drivers' threads, and         *)
(* usbh_control_transfer under the port's mutex).  chan->waitsem is an     *)
(* rt_sem: a release while the waiter's timeout is being processed is      *)
(* lost, as RtSem shows.                                                   *)
(***************************************************************************)
EXTENDS Naturals, FiniteSets

CONSTANTS
  Urb, Chan,     \* the URBs and the channels (CONFIG_USBHOST_PIPE_NUM)
  NoUrb, NoChan, \* NULL
  Control,       \* the URBs of control endpoints
  Oversize       \* the URBs whose endpoint may have packets that do not fit the FIFO

ASSUME UrbAssumption ==
  /\ NoUrb \notin Urb /\ NoChan \notin Chan
  /\ Control \subseteq Urb /\ Oversize \subseteq Urb

VARIABLES
  inuse,      \* chan->inuse
  urb,        \* chan->urb
  ep0_state,  \* chan->ep0_state
  waitsem,    \* the value of chan->waitsem
  hw,         \* the channel: "off", "run" (enabled), "halted" (interrupt pending)
  hcpriv,     \* urb->hcpriv
  errorcode,  \* urb->errorcode
  timeout,    \* urb->timeout # 0
  pc,         \* where usbh_submit_urb is
  chan,       \* its local chan, NULL when it is not used any more
  kpc,        \* where the hub thread is with killing the URB
  connected,  \* hport->connected
  attached,   \* the class drivers' connect handlers have run
  fault,      \* a NULL pointer has been used
  orphan      \* history: channels whose URB was zeroed while linked to them

chanVars == <<inuse, urb, ep0_state, waitsem, hw>>
urbVars == <<hcpriv, errorcode, timeout>>
portVars == <<connected, attached, orphan>>
vars == <<chanVars, urbVars, pc, chan, kpc, portVars, fault>>

(***************************************************************************)
(* pc: "alloc" once the checks are passed, "link" with a channel, "start"  *)
(* with the URB linked to it, "wait" in usb_osal_sem_take, "firing" while  *)
(* the timeout of that wait is processed, "timedout" when it has returned  *)
(* -USB_ERR_TIMEOUT, "kill" with urb->timeout cleared, "killing" once      *)
(* usbh_kill_urb has found urb->hcpriv set.                                *)
(***************************************************************************)
Where == {"idle", "alloc", "link", "start", "wait", "firing", "timedout", "kill", "killing"}
Stage == {"SETUP", "INDATA", "OUTDATA", "INSTATUS", "OUTSTATUS"}

TypeOK ==
  /\ inuse \in [Chan -> BOOLEAN]
  /\ urb \in [Chan -> Urb \cup {NoUrb}]
  /\ ep0_state \in [Chan -> Stage]
  /\ waitsem \in [Chan -> 0..1]
  /\ hw \in [Chan -> {"off", "run", "halted"}]
  /\ hcpriv \in [Urb -> Chan \cup {NoChan}]
  /\ errorcode \in [Urb -> {"OK", "BUSY", "SHUTDOWN", "ERR"}]
  /\ timeout \in [Urb -> BOOLEAN]
  /\ pc \in [Urb -> Where]
  /\ chan \in [Urb -> Chan \cup {NoChan}]
  /\ kpc \in [Urb -> {"idle", "kill", "killing"}]
  /\ connected \in BOOLEAN /\ attached \in BOOLEAN
  /\ fault \in BOOLEAN
  /\ orphan \subseteq Chan

\* usb_hc_init, and a device that has been enumerated.
Init ==
  /\ inuse = [c \in Chan |-> FALSE]
  /\ urb = [c \in Chan |-> NoUrb]
  /\ ep0_state = [c \in Chan |-> "SETUP"]
  /\ waitsem = [c \in Chan |-> 0]
  /\ hw = [c \in Chan |-> "off"]
  /\ hcpriv = [u \in Urb |-> NoChan]
  /\ errorcode = [u \in Urb |-> "OK"]
  /\ timeout = [u \in Urb |-> FALSE]
  /\ pc = [u \in Urb |-> "idle"]
  /\ chan = [u \in Urb |-> NoChan]
  /\ kpc = [u \in Urb |-> "idle"]
  /\ connected = TRUE /\ attached = TRUE
  /\ fault = FALSE
  /\ orphan = {}

\* The hub thread runs when no interrupt handler does, the others when the
\* hub thread has nothing to do.
HubRuns == ~fault /\ \A u \in Urb : pc[u] # "firing"
Runs == HubRuns /\ \A u \in Urb : kpc[u] = "idle"

-----------------------------------------------------------------------------
(* The channel.                                                            *)

\* dwc2_chan_free.
ChanFree(c) == inuse' = [inuse EXCEPT ![c] = FALSE]

\* dwc2_chan_init and dwc2_chan_transfer: clear the channel's old interrupts
\* and enable it.
ChanTransfer(c) == hw' = [hw EXCEPT ![c] = "run"]

\* dwc2_halt leaves a channel that has just halted by itself alone, with its
\* interrupt pending.
Halt(c) == hw' = [hw EXCEPT ![c] = IF @ = "run" THEN "off" ELSE @]

-----------------------------------------------------------------------------
(* usbh_submit_urb.                                                        *)

\* The checks.  sync: a timeout was given.  Control transfers always have one.
\* A URB of a class object has its hport only from connect to disconnect.
Submit(u, sync) ==
  /\ Runs /\ pc[u] = "idle" /\ (u \in Control => sync)
  /\ connected /\ (u \in Control \/ attached)
  /\ errorcode[u] # "BUSY"
  /\ timeout' = [timeout EXCEPT ![u] = sync]
  /\ pc' = [pc EXCEPT ![u] = "alloc"]
  /\ UNCHANGED <<chanVars, hcpriv, errorcode, chan, kpc, portVars, fault>>

\* dwc2_chan_alloc finds a channel, and the packets of the endpoint fit ...
ChanAlloc(u) ==
  /\ Runs /\ pc[u] = "alloc"
  /\ \E c \in Chan :
       /\ ~inuse[c]
       /\ inuse' = [inuse EXCEPT ![c] = TRUE]
       /\ chan' = [chan EXCEPT ![u] = c]
  /\ pc' = [pc EXCEPT ![u] = "link"]
  /\ UNCHANGED <<urb, ep0_state, waitsem, hw, urbVars, kpc, portVars, fault>>

\* ... or they do not: -USB_ERR_RANGE, and the channel stays allocated.
ChanRange(u) ==
  /\ Runs /\ pc[u] = "alloc" /\ u \in Oversize
  /\ \E c \in Chan :
       /\ ~inuse[c]
       /\ inuse' = [inuse EXCEPT ![c] = TRUE]
  /\ pc' = [pc EXCEPT ![u] = "idle"]
  /\ UNCHANGED <<urb, ep0_state, waitsem, hw, urbVars, chan, kpc, portVars, fault>>

\* All channels are in use: -USB_ERR_NOMEM.
ChanNone(u) ==
  /\ Runs /\ pc[u] = "alloc"
  /\ \A c \in Chan : inuse[c]
  /\ pc' = [pc EXCEPT ![u] = "idle"]
  /\ UNCHANGED <<chanVars, urbVars, chan, kpc, portVars, fault>>

\* The critical section that ties the URB and the channel together.
Link(u) ==
  /\ Runs /\ pc[u] = "link"
  /\ urb' = [urb EXCEPT ![chan[u]] = u]
  /\ hcpriv' = [hcpriv EXCEPT ![u] = chan[u]]
  /\ errorcode' = [errorcode EXCEPT ![u] = "BUSY"]
  /\ pc' = [pc EXCEPT ![u] = "start"]
  /\ UNCHANGED <<inuse, ep0_state, waitsem, hw, timeout, chan, kpc, portVars, fault>>

\* dwc2_control_urb_init or dwc2_bulk_intr_urb_init.  Without a timeout that is
\* all, and a timed submission that a disconnection has overtaken finds its URB
\* zeroed: it too returns at once.  (The endpoint's type is then read through
\* NULL, which is flash; it is taken to be what it was.)
Start(u) ==
  /\ Runs /\ pc[u] = "start"
  /\ ChanTransfer(chan[u])
  /\ ep0_state' = [ep0_state EXCEPT ![chan[u]] = IF u \in Control THEN "SETUP" ELSE @]
  /\ pc' = [pc EXCEPT ![u] = IF timeout[u] THEN "wait" ELSE "idle"]
  /\ chan' = [chan EXCEPT ![u] = IF timeout[u] THEN @ ELSE NoChan]
  /\ UNCHANGED <<inuse, urb, waitsem, urbVars, kpc, portVars, fault>>

\* (mutant) polls waitsem and does not consume the give.
TakeSemPolls(u) ==
  /\ Runs /\ pc[u] = "wait"
  /\ waitsem[chan[u]] > 0
  /\ timeout' = [timeout EXCEPT ![u] = FALSE]
  /\ ChanFree(chan[u])
  /\ pc' = [pc EXCEPT ![u] = "idle"]
  /\ chan' = [chan EXCEPT ![u] = NoChan]
  /\ UNCHANGED <<urb, ep0_state, waitsem, hw, hcpriv, errorcode, kpc, portVars, fault>>

\* usb_osal_sem_take succeeds: the channel is freed, and urb->errorcode is the
\* result.
TakeSem(u) ==
  /\ Runs /\ pc[u] = "wait"
  /\ waitsem[chan[u]] > 0
  /\ waitsem' = [waitsem EXCEPT ![chan[u]] = @ - 1]
  /\ timeout' = [timeout EXCEPT ![u] = FALSE]
  /\ ChanFree(chan[u])
  /\ pc' = [pc EXCEPT ![u] = "idle"]
  /\ chan' = [chan EXCEPT ![u] = NoChan]
  /\ UNCHANGED <<urb, ep0_state, hw, hcpriv, errorcode, kpc, portVars, fault>>

\* The tick handler takes up the timeout of the wait, and finishes it.
TimerFires(u) ==
  /\ HubRuns /\ pc[u] = "wait"
  /\ waitsem[chan[u]] = 0
  /\ pc' = [pc EXCEPT ![u] = "firing"]
  /\ UNCHANGED <<chanVars, urbVars, chan, kpc, portVars, fault>>

TakeTimesOut(u) ==
  /\ ~fault /\ pc[u] = "firing"
  /\ pc' = [pc EXCEPT ![u] = "timedout"]
  /\ UNCHANGED <<chanVars, urbVars, chan, kpc, portVars, fault>>

\* errout_timeout: urb->timeout = 0, after which nobody gives waitsem.
ClearTimeout(u) ==
  /\ Runs /\ pc[u] = "timedout"
  /\ timeout' = [timeout EXCEPT ![u] = FALSE]
  /\ pc' = [pc EXCEPT ![u] = "kill"]
  /\ chan' = [chan EXCEPT ![u] = NoChan]
  /\ UNCHANGED <<chanVars, hcpriv, errorcode, kpc, portVars, fault>>

-----------------------------------------------------------------------------
(* Giving a channel back, usbh_kill_urb and the interrupt.                 *)

\* usb_osal_sem_give(chan->waitsem) by the hub thread or the interrupt: lost
\* when the waiter's timeout is being processed.
SemGive(c) ==
  waitsem' = IF \E u \in Urb : chan[u] = c /\ pc[u] = "firing"
             THEN waitsem ELSE [waitsem EXCEPT ![c] = @ + 1]

\* (mutant) always gives, also to a channel nobody waits for.
DoneGives(u, c, err) ==
  /\ urb' = [urb EXCEPT ![c] = NoUrb]
  /\ hcpriv' = [hcpriv EXCEPT ![u] = NoChan]
  /\ errorcode' = [errorcode EXCEPT ![u] = err]
  /\ SemGive(c)
  /\ inuse' = [inuse EXCEPT ![c] = timeout[u]]

\* (mutant) does not clear chan->urb.
DoneKeepsUrb(u, c, err) ==
  /\ hcpriv' = [hcpriv EXCEPT ![u] = NoChan]
  /\ errorcode' = [errorcode EXCEPT ![u] = err]
  /\ IF timeout[u] THEN SemGive(c) /\ UNCHANGED inuse
                   ELSE ChanFree(c) /\ UNCHANGED waitsem
  /\ UNCHANGED urb

\* (mutant) frees the channel, and wakes nobody.
DoneFrees(u, c, err) ==
  /\ urb' = [urb EXCEPT ![c] = NoUrb]
  /\ hcpriv' = [hcpriv EXCEPT ![u] = NoChan]
  /\ errorcode' = [errorcode EXCEPT ![u] = err]
  /\ ChanFree(c) /\ UNCHANGED waitsem

\* The end of dwc2_urb_waitup and of usbh_kill_urb: separate the URB from the
\* channel, then wake its thread or, when nobody waits, free the channel.
Done(u, c, err) ==
  /\ urb' = [urb EXCEPT ![c] = NoUrb]
  /\ hcpriv' = [hcpriv EXCEPT ![u] = NoChan]
  /\ errorcode' = [errorcode EXCEPT ![u] = err]
  /\ IF timeout[u] THEN SemGive(c) /\ UNCHANGED inuse
                   ELSE ChanFree(c) /\ UNCHANGED waitsem

\* usbh_kill_urb's critical section; NULL is used when urb->hcpriv has been
\* cleared since it was tested.
KillUrb(u, err) ==
  LET c == hcpriv[u] IN
  IF c = NoChan THEN fault' = TRUE /\ UNCHANGED <<chanVars, hcpriv, errorcode>>
  ELSE /\ Halt(c)
       /\ Done(u, c, err)
       /\ UNCHANGED <<ep0_state, fault>>

\* (mutant) does not kill the URB of a port that is disconnected.
SelfKillTestConnected(u) ==
  /\ Runs /\ pc[u] = "kill"
  /\ pc' = [pc EXCEPT ![u] = IF hcpriv[u] = NoChan \/ ~connected THEN "idle" ELSE "killing"]
  /\ UNCHANGED <<chanVars, urbVars, chan, kpc, portVars, fault>>

\* usbh_kill_urb after a timeout: the test of urb->hcpriv is outside of the
\* critical section.
SelfKillTest(u) ==
  /\ Runs /\ pc[u] = "kill"
  /\ pc' = [pc EXCEPT ![u] = IF hcpriv[u] = NoChan THEN "idle" ELSE "killing"]
  /\ UNCHANGED <<chanVars, urbVars, chan, kpc, portVars, fault>>

SelfKill(u) ==
  /\ Runs /\ pc[u] = "killing"
  /\ KillUrb(u, "SHUTDOWN")
  /\ pc' = [pc EXCEPT ![u] = "idle"]
  /\ UNCHANGED <<timeout, chan, kpc, portVars>>

\* usbh_hubport_release: the hub thread marks the port disconnected and kills
\* every URB of the device; the class drivers' disconnect zeroes their URBs.
\* While the device is being enumerated there are only control transfers.
Disconnect ==
  /\ HubRuns /\ connected
  /\ connected' = FALSE /\ attached' = FALSE
  /\ kpc' = [u \in Urb |-> IF u \in Control \/ attached THEN "kill" ELSE "idle"]
  /\ UNCHANGED <<chanVars, urbVars, pc, chan, fault, orphan>>

HubKillTest(u) ==
  /\ HubRuns /\ kpc[u] = "kill"
  /\ IF hcpriv[u] = NoChan
     THEN /\ kpc' = [kpc EXCEPT ![u] = "idle"]
          /\ errorcode' = [errorcode EXCEPT ![u] = IF u \in Control THEN @ ELSE "OK"]
          /\ timeout' = [timeout EXCEPT ![u] = @ /\ u \in Control]
     ELSE kpc' = [kpc EXCEPT ![u] = "killing"] /\ UNCHANGED <<errorcode, timeout>>
  /\ UNCHANGED <<chanVars, hcpriv, pc, chan, portVars, fault>>

HubKill(u) ==
  /\ HubRuns /\ kpc[u] = "killing"
  /\ KillUrb(u, IF u \in Control THEN "SHUTDOWN" ELSE "OK")
  /\ kpc' = [kpc EXCEPT ![u] = "idle"]
  /\ timeout' = [timeout EXCEPT ![u] = @ /\ u \in Control]
  /\ UNCHANGED <<pc, chan, portVars>>

\* usbh_hub_events: a device is there again, and the port with its ep0_urb is
\* zeroed.  Assumed: the control transfers of the last device have returned.
Connect ==
  /\ Runs /\ ~connected
  /\ \A u \in Control : pc[u] = "idle" /\ hcpriv[u] = NoChan
  /\ connected' = TRUE
  /\ errorcode' = [u \in Urb |-> IF u \in Control THEN "OK" ELSE errorcode[u]]
  /\ UNCHANGED <<chanVars, hcpriv, timeout, pc, chan, kpc, attached, fault, orphan>>

\* The end of usbh_enumerate: the connect handlers allocate and zero their
\* class objects with the URBs in them, also a URB that its thread, overtaken
\* by the disconnection, has linked to a channel since then.
ClassConnect ==
  /\ Runs /\ connected /\ ~attached
  /\ \A u \in Control : pc[u] = "idle"
  /\ attached' = TRUE
  /\ hcpriv' = [u \in Urb |-> IF u \in Control THEN hcpriv[u] ELSE NoChan]
  /\ errorcode' = [u \in Urb |-> IF u \in Control THEN errorcode[u] ELSE "OK"]
  /\ timeout' = [u \in Urb |-> u \in Control /\ timeout[u]]
  /\ orphan' = orphan \cup {c \in Chan : \E u \in Urb \ Control : hcpriv[u] = c}
  /\ UNCHANGED <<chanVars, pc, chan, kpc, connected, fault>>

\* The controller ends the transaction of a channel: HCINT.CHH is set.
Halted(c) ==
  /\ ~fault /\ hw[c] = "run"
  /\ hw' = [hw EXCEPT ![c] = "halted"]
  /\ UNCHANGED <<inuse, urb, ep0_state, waitsem, urbVars, pc, chan, kpc, portVars, fault>>

\* What follows a stage of a control transfer; nothing after a status stage.
NextStages(s) ==
  CASE s = "SETUP" -> {"INDATA", "OUTDATA", "INSTATUS"}
    [] s = "INDATA" -> {"OUTSTATUS"}
    [] s = "OUTDATA" -> {"INSTATUS"}
    [] OTHER -> {}

\* A stage of a control transfer is done and the next one starts:
\* urb->errorcode is 0 from here on, although the transfer is in progress.
StageIrq(c) ==
  /\ ~fault /\ hw[c] = "halted" /\ urb[c] \in Control
  /\ \E s \in NextStages(ep0_state[c]) : ep0_state' = [ep0_state EXCEPT ![c] = s]
  /\ errorcode' = [errorcode EXCEPT ![urb[c]] = "OK"]
  /\ ChanTransfer(c)
  /\ UNCHANGED <<inuse, urb, waitsem, hcpriv, timeout, pc, chan, kpc, portVars, fault>>

\* The transfer is done, or has failed: dwc2_urb_waitup, for the channel that
\* urb->hcpriv points to.
DoneIrq(c) ==
  /\ ~fault /\ hw[c] = "halted" /\ urb[c] # NoUrb
  /\ hcpriv[urb[c]] # NoChan
  /\ hw' = [hw EXCEPT ![c] = "off"]
  /\ \/ Done(urb[c], hcpriv[urb[c]], "ERR") /\ UNCHANGED ep0_state
     \/ /\ urb[c] \in Control => NextStages(ep0_state[c]) = {}
        /\ Done(urb[c], hcpriv[urb[c]], "OK")
        /\ ep0_state' = [ep0_state EXCEPT ![c] = IF urb[c] \in Control THEN "SETUP" ELSE @]
  /\ UNCHANGED <<timeout, pc, chan, kpc, portVars, fault>>

\* The interrupt of a channel without a URB writes through chan->urb, and that
\* of a channel whose URB was zeroed through urb->hcpriv.
NullIrq(c) ==
  /\ ~fault /\ hw[c] = "halted"
  /\ urb[c] # NoUrb => hcpriv[urb[c]] = NoChan
  /\ hw' = [hw EXCEPT ![c] = "off"]
  /\ fault' = TRUE
  /\ UNCHANGED <<inuse, urb, ep0_state, waitsem, urbVars, pc, chan, kpc, portVars>>

-----------------------------------------------------------------------------
Next ==
  \/ Disconnect \/ Connect \/ ClassConnect
  \/ \E u \in Urb :
       \/ \E sync \in BOOLEAN : Submit(u, sync)
       \/ ChanAlloc(u) \/ ChanRange(u) \/ ChanNone(u) \/ Link(u) \/ Start(u)
       \/ TakeSem(u) \/ TimerFires(u) \/ TakeTimesOut(u) \/ ClearTimeout(u)
       \/ SelfKillTest(u) \/ SelfKill(u)
       \/ HubKillTest(u) \/ HubKill(u)
  \/ \E c \in Chan : Halted(c) \/ StageIrq(c) \/ DoneIrq(c) \/ NullIrq(c)

Spec == Init /\ [][Next]_vars

-----------------------------------------------------------------------------
(* Properties.                                                             *)

\* urb->hcpriv and chan->urb are two ends of one link, whoever cuts it
\* (interrupt, timeout or disconnection), and a linked channel is allocated.
\* Only a connect handler that zeroes a linked URB leaves chan->urb behind.
LinkExact ==
  \A u \in Urb, c \in Chan :
    /\ hcpriv[u] = c => urb[c] = u /\ inuse[c]
    /\ urb[c] = u => hcpriv[u] = c \/ c \in orphan

\* No lost wake-up: a thread that waits in usb_osal_sem_take for a URB that is
\* already done finds waitsem given.
NoLostWakeup ==
  \A u \in Urb : pc[u] = "wait" /\ hcpriv[u] = NoChan => waitsem[chan[u]] = 1

\* No stale wake-up: waitsem is not given while the URB is in progress, so a
\* give left over from an earlier, timed-out transfer of that channel cannot
\* end a later one.
NoStaleWakeup ==
  \A u \in Urb : pc[u] = "wait" /\ waitsem[chan[u]] > 0 => hcpriv[u] = NoChan

\* A thread that waits in usbh_submit_urb keeps its channel until it returns,
\* even though interrupt, kill and timeout all may give the channel back: no
\* other URB is linked to it.  (A killed URB without a timeout whose thread has
\* yet to reach Start still knows the channel.)
WaiterKeepsChan ==
  \A u \in Urb :
    pc[u] \in {"wait", "firing", "timedout"} \/ (pc[u] = "start" /\ timeout[u]) =>
    /\ inuse[chan[u]]
    /\ \A v \in Urb \ {u} :
         hcpriv[v] # chan[u] /\ (chan[v] = chan[u] => pc[v] = "start" /\ ~timeout[v])

\* usbh_submit_urb returns with its URB still linked to a channel only from
\* Start with urb->timeout 0: no timeout was given, or the disconnection zeroed
\* it before.  One that waited returns when the URB is unlinked: its memory may
\* be used again.
ReturnsUnlinked ==
  [][\A u \in Urb : pc[u] # "idle" /\ pc'[u] = "idle"
       => hcpriv'[u] = NoChan \/ (pc[u] = "start" /\ ~timeout[u])]_vars

\* The comment in usbh_submit_urb: the channel can be freed when waitsem is
\* done.  Every allocated channel belongs to a URB.
NoChanLost ==
  \A c \in Chan : inuse[c] => \E u \in Urb : hcpriv[u] = c \/ chan[u] = c
=============================================================================
