------------------------------ MODULE UsbhPoll ------------------------------
(***************************************************************************)
(* How an external hub is polled (class/hub/usbh_hub.c): a one-shot soft   *)
(* timer whose callback hub_int_timeout submits the interrupt URB, the USB *)
(* interrupt that completes it (hub_int_complete_callback), and the hub    *)
(* thread that handles the change and starts the timer again.  Every link  *)
(* of this chain is a call whose result the code ignores.                  *)
(*                                                                         *)
(* Composes the timer and the timer thread of RtTimer with the hub thread, *)
(* which has a higher priority (CONFIG_USBHOST_PSC_PRIO 0,                 *)
(* RT_TIMER_THREAD_PRIO 4): the timer thread runs only while the hub       *)
(* thread waits.  UsbhHub has the detail of debouncing and reset, UsbhEnum *)
(* of enumeration, Dwc2Urb of the URBs; here they are a few steps.         *)
(***************************************************************************)
EXTENDS RtTimer

CONSTANTS IntTimer,    \* hub->int_timer
          QueueSize,   \* messages the hub queue holds
          MaxPlugs     \* bound: times the hub is plugged in

ASSUME PollAssumption ==
    /\ Hard = {} /\ Soft = {IntTimer}
    /\ QueueSize \in Nat \ {0} /\ MaxPlugs \in Nat

VARIABLES
    plug,      \* the hub in the root port: "out", "in" (does not answer),
               \* "reset" (answers at address 0), "set" (configured)
    plugs,     \* times it was plugged in
    hub,       \* hub->connected: the class object and its timer exist
    urb,       \* hub->intin_urb: "idle" or "busy"
    sub,       \* the running callback has called usbh_submit_urb
    csc,       \* the root port has a connection change
    mq,        \* the hub queue: messages for the root hub and for this hub
    ht,        \* where the hub thread is
    stop       \* history: what made the polling of this hub stop (or "late":
               \* a message of the hub before it was in the queue)

pollvars == <<plug, plugs, hub, urb, sub, csc, mq, ht, stop>>
allvars == <<vars, pollvars>>

PollInit ==
    /\ Init /\ ~timer[IntTimer].per
    /\ plug = "out" /\ plugs = 0
    /\ hub = FALSE /\ urb = "idle" /\ sub = FALSE
    /\ csc = FALSE /\ mq = <<>> /\ ht = "recv"
    /\ stop = {}

-----------------------------------------------------------------------------
(* Starting the timer and posting to the hub thread.                       *)

\* usb_osal_timer_start: that rt_timer_start refuses is not looked at.
StartTimer ==
    /\ Calling
    /\ rt_timer_start(IntTimer)
    /\ stop' = IF timer[IntTimer].proc THEN stop \union {"refused"} ELSE stop

\* usbh_hub_thread_wakeup: a message that does not fit is lost.
Full(q) == Len(q) = QueueSize
Posted(q, m) == IF Full(q) THEN q ELSE Append(q, m)
Queued(m) == \E i \in DOMAIN mq : mq[i] = m

-----------------------------------------------------------------------------
(* The user, and the root port's interrupt.                                *)

Plug ==
    /\ plug = "out" /\ plugs < MaxPlugs
    /\ plug' = "in" /\ plugs' = plugs + 1
    /\ csc' = TRUE /\ mq' = Posted(mq, "root")
    /\ UNCHANGED <<vars, hub, urb, sub, ht, stop>>

Unplug ==
    /\ plug # "out"
    /\ plug' = "out"
    /\ csc' = TRUE /\ mq' = Posted(mq, "root")
    /\ UNCHANGED <<vars, plugs, hub, urb, sub, ht, stop>>

-----------------------------------------------------------------------------
(* The USB interrupt: hub_int_complete_callback.                           *)

\* A change is reported: the hub thread is woken.  When the hub has left by
\* the time of the interrupt, USBH_IRQHandler looks at the port before the
\* channels: the root hub's message is first.
UrbData ==
    /\ urb = "busy" /\ plug = "set"
    /\ urb' = "idle"
    /\ \E gone \in BOOLEAN :
           LET q == IF gone THEN Posted(mq, "root") ELSE mq IN
           /\ plug' = IF gone THEN "out" ELSE plug
           /\ csc' = (csc \/ gone)
           /\ mq' = Posted(q, "ext")
           /\ stop' = IF Full(q) THEN stop \union {"full"} ELSE stop
    /\ UNCHANGED <<vars, plugs, hub, sub, ht>>

\* Nothing to report: "Restart timer to submit urb again".
UrbNak ==
    /\ urb = "busy" /\ plug = "set"
    /\ urb' = "idle"
    /\ StartTimer
    /\ UNCHANGED <<plug, plugs, hub, sub, csc, mq, ht>>

\* An empty packet or an error: the callback does nothing.
UrbError ==
    /\ urb = "busy"
    /\ urb' = "idle"
    /\ stop' = stop \union {"error"}
    /\ UNCHANGED <<vars, plug, plugs, hub, sub, csc, mq, ht>>

-----------------------------------------------------------------------------
(* The timer thread, which runs while the hub thread waits.                *)

\* The hub thread waits for a message, a transfer or the end of a sleep.  A
\* transfer with nothing in the port is refused at once, and the loops of
\* parse_config_descriptor do not sleep.
Waits ==
    \/ ht = "recv" /\ mq = <<>>
    \/ ht \in {"status", "work", "child", "debounce", "reset", "enabled", "enum"}
    \/ ht = "clear" /\ plug # "out"

\* hub_int_timeout: usbh_submit_urb works when the hub's port is connected
\* and a channel is free; its result is ignored.
Submit ==
    /\ Waits /\ Run("callback") /\ ~sub
    /\ sub' = TRUE
    /\ \/ hub /\ plug # "out" /\ urb = "idle"
          /\ urb' = "busy" /\ UNCHANGED stop
       \/ stop' = stop \union (IF hub THEN {"submit"} ELSE {})
          /\ UNCHANGED urb
    /\ UNCHANGED <<vars, plug, plugs, hub, csc, mq, ht>>

TimerIdles ==
    /\ Waits
    /\ GetNext \/ Delta \/ Take \/ Wake \/ SoftDone
    /\ UNCHANGED pollvars

CallbackBegins ==
    /\ Waits /\ SoftBegin
    /\ sub' = FALSE
    /\ UNCHANGED <<plug, plugs, hub, urb, csc, mq, ht, stop>>

CallbackEnds ==
    /\ Waits /\ sub /\ SoftEnd
    /\ sub' = FALSE
    /\ UNCHANGED <<plug, plugs, hub, urb, csc, mq, ht, stop>>

\* The tick interrupt, with no hard timer to run.
Clock ==
    /\ Advance
    /\ UNCHANGED <<timer, list, local, sem, isr, stale, pollvars>>

-----------------------------------------------------------------------------
(* The hub thread and an event of the external hub.                        *)

Recv ==
    /\ ht = "recv" /\ mq # <<>>
    /\ ht' = Head(mq) /\ mq' = Tail(mq)
    /\ UNCHANGED <<vars, plug, plugs, hub, urb, sub, csc, stop>>

Goes(from, to) ==
    /\ ht = from /\ ht' = to
    /\ UNCHANGED <<vars, plug, plugs, hub, urb, sub, csc, mq, stop>>

\* A hub that is not connected is left alone; a notification names a port,
\* or none that the hub has.
EventStarts ==
    \/ ~hub /\ Goes("ext", "recv")
    \/ hub /\ (Goes("ext", "status") \/ Goes("ext", "end"))


\* usbh_hub_get_portstatus fails: the port is skipped.
StatusFails == Goes("status", "end")

StatusRead == plug = "set" /\ Goes("status", "clear")

\* "First, clear all change bits": a request that fails is repeated, so only
\* a request that works is a step.
Cleared == plug = "set" /\ Goes("clear", "work")

\* Debouncing and reset of the hub's port: the event ends here, or goes on to
\* the enumeration of the device behind it.
PortDone == Goes("work", "end")

PortReset == plug = "set" /\ Goes("work", "child")

ChildDone == Goes("child", "end")

\* parse_config_descriptor: "Interface num overflow" (altsetting, endpoint)
\* is a loop without end.
ParseHangs == Goes("child", "stuck") \/ Goes("enum", "stuck")

\* Mutant: the next transfer is not started.
MutEventEnds == Goes("end", "recv")

\* "Start next hub int transfer".
EventEnds ==
    /\ ht = "end" /\ ht' = "recv"
    /\ IF hub THEN StartTimer ELSE UNCHANGED <<vars, stop>>
    /\ UNCHANGED <<plug, plugs, hub, urb, sub, csc, mq>>

-----------------------------------------------------------------------------
(* An event of the root hub.                                               *)

RootStarts ==
    \/ ~csc /\ Goes("root", "recv")
    \/ csc /\ ht = "root" /\ ht' = "debounce" /\ csc' = FALSE
       /\ UNCHANGED <<vars, plug, plugs, hub, urb, sub, mq, stop>>

\* A change during the debouncing starts it again.
Bounces ==
    /\ ht = "debounce" /\ csc
    /\ csc' = FALSE
    /\ UNCHANGED <<vars, plug, plugs, hub, urb, sub, mq, ht, stop>>

\* usbh_hubport_release with usbh_hub_disconnect: the URB is killed, the
\* timer stopped and deleted, the class object zeroed.
Release ==
    /\ hub' = FALSE /\ urb' = "idle"
    /\ stop' = {}
    /\ IF hub
       THEN TakeOut(IntTimer) /\ UNCHANGED <<tick, sem, isr, thr>>
       ELSE UNCHANGED vars

RootGone ==
    /\ ht = "debounce" /\ ~csc /\ plug = "out"
    /\ ht' = "recv"
    /\ Release
    /\ UNCHANGED <<plug, plugs, sub, csc, mq>>

\* "Failed to debounce": the port kept changing (UsbhHub has the passes).
DebounceFails == Goes("debounce", "recv")

\* The reset takes the hub's address away.
RootHere ==
    /\ ht = "debounce" /\ ~csc /\ plug # "out"
    /\ ht' = "reset" /\ plug' = "reset"
    /\ UNCHANGED <<vars, plugs, hub, urb, sub, csc, mq, stop>>

\* usbh_reset_port waits for the enable bit, which the controller sets for
\* the hub that was reset only; the loop has no limit.
ResetDone == plug = "reset" /\ Goes("reset", "enabled")

\* The port is read again: enabled or not, the old class object is released.
RootEnabled ==
    /\ ht = "enabled"
    /\ ht' = IF plug = "reset" THEN "enum" ELSE "recv"
    /\ Release
    /\ UNCHANGED <<plug, plugs, sub, csc, mq>>

\* usbh_hub_connect: a new timer is created and started.  The class object is
\* the one the last hub had, so a message left by that hub is now one of this
\* hub.  An enumeration waits for many transfers, so a callback that was
\* running when the old timer was deleted has ended (no thread but these two
\* has a priority of 4 or above).
Connected ==
    /\ ht = "enum" /\ plug = "reset" /\ thr.pc # "callback"
    /\ ht' = "recv" /\ plug' = "set" /\ hub' = TRUE
    /\ timer' = [timer EXCEPT ![IntTimer].act = TRUE, ![IntTimer].proc = FALSE]
    /\ list' = [list EXCEPT !["soft"] = Insert(@, IntTimer)]
    /\ sem' = 1
    /\ stop' = IF Queued("ext") THEN {"late"} ELSE {}
    /\ UNCHANGED <<tick, local, isr, thr, stale, plugs, urb, sub, csc, mq>>

EnumFails == Goes("enum", "recv")

-----------------------------------------------------------------------------
HubThread ==
    \/ Recv
    \/ EventStarts \/ StatusFails \/ StatusRead \/ Cleared
    \/ PortDone \/ PortReset \/ ChildDone \/ ParseHangs \/ EventEnds
    \/ RootStarts \/ Bounces \/ DebounceFails \/ RootGone
    \/ RootHere \/ ResetDone \/ RootEnabled \/ Connected \/ EnumFails

TimerSteps == TimerIdles \/ CallbackBegins \/ Submit \/ CallbackEnds

UrbDone == UrbData \/ UrbNak \/ UrbError

PollNext == Plug \/ Unplug \/ UrbDone \/ Clock \/ TimerSteps \/ HubThread

PollSpec == PollInit /\ [][PollNext]_allvars

\* Both threads are scheduled, time passes, and the controller ends a
\* transfer with a hub that is there.
FairPollSpec ==
    /\ PollSpec
    /\ WF_allvars(HubThread) /\ WF_allvars(TimerSteps) /\ WF_allvars(Clock)
    /\ WF_allvars(UrbDone /\ plug = "set")

-----------------------------------------------------------------------------
(* Properties.                                                             *)

\* What will lead to the next poll of the hub.
Pending ==
    {c \in {"timer", "callback", "urb", "message", "event"} :
        CASE c = "timer"    -> timer[IntTimer].act
          [] c = "callback" -> timer[IntTimer].proc /\ ~sub
          [] c = "urb"      -> urb = "busy"
          [] c = "message"  -> Queued("ext")
          [] c = "event"    -> ht \in {"ext", "status", "clear", "work", "child", "stuck", "end"}}

\* The chain from timer to URB to message to event is never cut and never
\* doubled: a connected hub has exactly one of them under way, unless the
\* polling was stopped by an error, a refused call or a full queue
\* (hub_int_timeout, hub_int_complete_callback, usbh_hub_events).  Only a
\* late message of the hub that was in the port before starts a second chain.
PollAlive ==
    hub => CASE stop = {}        -> Cardinality(Pending) = 1
             [] "late" \in stop  -> stop = {"late"} => Pending # {}
             [] OTHER            -> Pending = {}

\* A connected hub that stays plugged in is polled again and again unless
\* the polling was stopped in one of these ways, or the hub thread is in a
\* loop of parse_config_descriptor: with the timer thread, the interrupt and
\* the hub thread taking turns the URB is always submitted again.
Polled ==
    []<>(urb = "busy" \/ ~hub \/ plug # "set" \/ stop # {} \/ ht = "stuck")


\* "Restart timer to submit urb again" (hub_int_complete_callback): a hub
\* whose transfers, submissions and enumerations work is polled again and
\* again.
RestartPolls ==
    []<>(urb = "busy" \/ ~hub \/ plug # "set" \/ stop \ {"refused"} # {} \/ ht = "stuck")
=============================================================================
