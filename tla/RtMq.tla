-------------------------------- MODULE RtMq --------------------------------
(***************************************************************************)
(* One RT-Thread message queue (rt-thread/src/ipc.c): its messages as the  *)
(* linked lists of the code, its waiting senders and receivers, and the    *)
(* timeouts of their waits.                                                *)
(*                                                                         *)
(* A section with interrupts disabled is one action.  A message is copied  *)
(* between two such sections, with interrupts enabled, by senders as well  *)
(* as by receivers.  The USB interrupt sends without waiting (usbh_hub.c); *)
(* it cannot be interrupted by other users of the queue and is one action. *)
(* The tick handler's timeout is two actions, as in RtSem, and RtSem shows *)
(* when a waiter cannot be made ready: while its own timeout is handled.   *)
(* How long a timeout takes is left open.  Any ready thread may run next.  *)
(***************************************************************************)
EXTENDS Integers, Sequences, FiniteSets, SequencesExt

CONSTANTS
  Thread, NoThread,
  Flag,       \* mq->parent.parent.flag
  MaxMsgs,    \* mq->max_msgs; RT_MQ_ENTRY_MAX (65535) is never reached
  Msg, NoMsg  \* the contents of a message

ASSUME MqAssumption ==
  /\ IsFiniteSet(Thread) /\ NoThread \notin Thread /\ NoMsg \notin Msg
  /\ Flag \in {"FIFO", "PRIO"}
  /\ MaxMsgs \in Nat /\ 1 <= MaxMsgs /\ MaxMsgs <= 65535

Slot == 1..MaxMsgs  \* the struct rt_mq_message of msg_pool
Null == 0

VARIABLES
  alive,                  \* not detached
  msg_queue_head, msg_queue_tail, msg_queue_free,
  next,                   \* msg->next
  content,                \* the bytes behind msg
  entry,                  \* mq->entry
  suspend_thread,         \* the waiting receivers, head first
  suspend_sender_thread,  \* the waiting senders
  stat,                   \* "ready" (READY or RUNNING) or "suspend"
  error,                  \* thread->error: "EOK" or an error
  timed,                  \* the local timeout is positive
  msg,                    \* the local msg
  pc,                     \* where the thread is
  firing,                 \* the thread whose timeout is being handled
  ttmr_set,               \* its sched_flag_ttmr_set
  missed                  \* history: a wake-up of a receiver was lost to its timeout

listVars == <<msg_queue_head, msg_queue_tail, msg_queue_free, next, entry>>
waitVars == <<suspend_thread, suspend_sender_thread, stat, error>>
tmrVars == <<firing, ttmr_set, missed>>
vars == <<alive, listVars, content, waitVars, timed, msg, pc, tmrVars>>

(***************************************************************************)
(* pc: "run" outside; "send" and "recv" in the waiting loops; "copy" and   *)
(* "link" in _rt_mq_send_wait with a free message, before and after it has *)
(* been filled, "ucopy" and "ulink" in rt_mq_urgent; "taken" in            *)
(* _rt_mq_recv with a message out of the queue and not yet free.           *)
(***************************************************************************)
Where == {"run", "send", "recv", "copy", "link", "ucopy", "ulink", "taken"}
Holding == {"copy", "link", "ucopy", "ulink", "taken"}

TypeOK ==
  /\ alive \in BOOLEAN
  /\ {msg_queue_head, msg_queue_tail, msg_queue_free} \subseteq Slot \cup {Null}
  /\ next \in [Slot -> Slot \cup {Null}]
  /\ content \in [Slot -> Msg \cup {NoMsg}]
  /\ entry \in 0..MaxMsgs
  /\ suspend_thread \in Seq(Thread) /\ suspend_sender_thread \in Seq(Thread)
  /\ stat \in [Thread -> {"ready", "suspend"}]
  /\ error \in [Thread -> {"EOK", "ERR"}]
  /\ timed \in [Thread -> BOOLEAN]
  /\ msg \in [Thread -> Slot \cup {Null}]
  /\ pc \in [Thread -> Where]
  /\ firing \in Thread \cup {NoThread}
  /\ ttmr_set \in BOOLEAN /\ missed \in BOOLEAN

\* rt_mq_init: the free list is built by putting each message in front.
Init ==
  /\ alive = TRUE
  /\ msg_queue_head = Null /\ msg_queue_tail = Null /\ msg_queue_free = MaxMsgs
  /\ next = [s \in Slot |-> s - 1]
  /\ content = [s \in Slot |-> NoMsg]
  /\ entry = 0
  /\ suspend_thread = <<>> /\ suspend_sender_thread = <<>>
  /\ stat = [t \in Thread |-> "ready"]
  /\ error = [t \in Thread |-> "EOK"]
  /\ timed = [t \in Thread |-> FALSE]
  /\ msg = [t \in Thread |-> Null]
  /\ pc = [t \in Thread |-> "run"]
  /\ firing = NoThread /\ ttmr_set = FALSE /\ missed = FALSE

\* Thread code runs when the tick handler does not.
Running(t) == firing = NoThread /\ stat[t] = "ready"

-----------------------------------------------------------------------------
(* Lists.                                                                  *)

\* Where the code is after following nx for i - 1 steps from p, and the messages
\* it meets; a list cannot be longer than the number of messages.
Nodes(p, nx) ==
  LET node[i \in Slot] ==
        IF i = 1 THEN p ELSE IF node[i - 1] = Null THEN Null ELSE nx[node[i - 1]]
  IN  node
Walk(p, nx) ==
  LET node == Nodes(p, nx) IN [i \in {j \in Slot : node[j] # Null} |-> node[i]]

\* The messages reached from p through next.
Path(p) == Walk(p, next)

\* rt_list_remove of t's node.
Unlink(s, t) ==
  IF \E i \in DOMAIN s : s[i] = t
  THEN RemoveAt(s, CHOOSE i \in DOMAIN s : s[i] = t)
  ELSE s

\* The lists rt_susp_list_enqueue can make of s: t at the end, or before the
\* first less urgent thread.  The priorities of waiting threads change (RtSem)
\* and are left open here, so that may be any place.
Enqueue(s, t) ==
  {InsertAt(s, i, t) : i \in IF Flag = "FIFO" THEN {Len(s) + 1} ELSE 1..(Len(s) + 1)}

\* Link msg s, with nx as the next pointers: as the tail of the queue ...
LinkTail(s, nx) ==
  /\ next' = IF msg_queue_tail # Null THEN [nx EXCEPT ![msg_queue_tail] = s] ELSE nx
  /\ msg_queue_tail' = s
  /\ msg_queue_head' = IF msg_queue_head = Null THEN s ELSE msg_queue_head

\* ... or, by rt_mq_urgent, as its head.
LinkHead(s) ==
  /\ next' = [next EXCEPT ![s] = msg_queue_head]
  /\ msg_queue_head' = s
  /\ msg_queue_tail' = IF msg_queue_tail = Null THEN s ELSE msg_queue_tail

-----------------------------------------------------------------------------
(* Waiting and waking.                                                     *)

\* rt_thread_suspend_to_list and the start of the thread timer.
Suspend(t, tm) ==
  /\ error' = [error EXCEPT ![t] = "ERR"]
  /\ stat' = [stat EXCEPT ![t] = "suspend"]
  /\ timed' = [timed EXCEPT ![t] = tm]

\* rt_sched_thread_ready fails on the thread whose timeout is being handled,
\* the first time, since its timer is not active any more.
CanReady(t) == t = firing => ~ttmr_set

Ready(T, err) ==
  /\ stat' = [t \in Thread |-> IF t \in T THEN "ready" ELSE stat[t]]
  /\ error' = [t \in Thread |-> IF t \in T THEN err ELSE error[t]]

\* rt_susp_list_dequeue of the receivers, when there are any.
WakeReceiver ==
  IF suspend_thread = <<>> THEN UNCHANGED <<suspend_thread, stat, error, ttmr_set, missed>>
  ELSE LET t == Head(suspend_thread) IN
       /\ suspend_thread' = IF CanReady(t) THEN Tail(suspend_thread) ELSE suspend_thread
       /\ Ready({t} \cap {u \in Thread : CanReady(u)}, "EOK")
       /\ ttmr_set' = (ttmr_set /\ t # firing)
       /\ missed' = (missed \/ ~CanReady(t))

\* rt_susp_list_dequeue of the senders; only threads call it, so that nobody's
\* timeout is being handled.
WakeSender ==
  IF suspend_sender_thread = <<>> THEN UNCHANGED <<suspend_sender_thread, stat, error>>
  ELSE /\ suspend_sender_thread' = Tail(suspend_sender_thread)
       /\ Ready({Head(suspend_sender_thread)}, "EOK")

\* rt_susp_list_resume_all of both lists, by a thread.
WakeAll ==
  /\ Ready(ToSet(suspend_thread) \cup ToSet(suspend_sender_thread), "ERR")
  /\ suspend_thread' = <<>> /\ suspend_sender_thread' = <<>>

\* The thread starts an operation, or is back in its loop after a wake-up.
Enters(t, loop) ==
  /\ Running(t)
  /\ \/ pc[t] = "run" /\ alive
     \/ pc[t] = loop /\ error[t] = "EOK"

\* The wait has ended with an error: return it.
WaitFails(t) ==
  /\ Running(t) /\ pc[t] \in {"send", "recv"} /\ error[t] # "EOK"
  /\ pc' = [pc EXCEPT ![t] = "run"]
  /\ timed' = [timed EXCEPT ![t] = FALSE]
  /\ UNCHANGED <<alive, listVars, content, waitVars, msg, tmrVars>>

\* Woken, but another thread was faster and no time is left.
WaitGivesUp(t) ==
  /\ Running(t) /\ error[t] = "EOK" /\ timed[t]
  /\ \/ pc[t] = "send" /\ msg_queue_free = Null
     \/ pc[t] = "recv" /\ entry = 0
  /\ pc' = [pc EXCEPT ![t] = "run"]
  /\ timed' = [timed EXCEPT ![t] = FALSE]
  /\ error' = [error EXCEPT ![t] = "ERR"]
  /\ UNCHANGED <<alive, listVars, content, suspend_thread, suspend_sender_thread,
                 stat, msg, tmrVars>>

-----------------------------------------------------------------------------
(* _rt_mq_send_wait and rt_mq_urgent.                                      *)

SendBlock(t, tm) ==
  /\ Enters(t, "send") /\ (pc[t] = "send" => tm = timed[t])
  /\ msg_queue_free = Null
  /\ Suspend(t, tm)
  /\ suspend_sender_thread' \in Enqueue(suspend_sender_thread, t)
  /\ pc' = [pc EXCEPT ![t] = "send"]
  /\ UNCHANGED <<alive, listVars, content, suspend_thread, msg, tmrVars>>

\* (mutant) leaves the message in the free list.
ReserveKeepsFree(t, where) ==
  /\ msg_queue_free # Null
  /\ msg' = [msg EXCEPT ![t] = msg_queue_free]
  /\ pc' = [pc EXCEPT ![t] = where]
  /\ timed' = [timed EXCEPT ![t] = FALSE]
  /\ UNCHANGED <<alive, listVars, content, waitVars, tmrVars>>

\* Take a message out of the free list.
Reserve(t, where) ==
  /\ msg_queue_free # Null
  /\ msg' = [msg EXCEPT ![t] = msg_queue_free]
  /\ msg_queue_free' = next[msg_queue_free]
  /\ pc' = [pc EXCEPT ![t] = where]
  /\ timed' = [timed EXCEPT ![t] = FALSE]
  /\ UNCHANGED <<alive, msg_queue_head, msg_queue_tail, next, entry, content, waitVars, tmrVars>>

SendReserve(t) == Enters(t, "send") /\ Reserve(t, "copy")
UrgentReserve(t) == Running(t) /\ alive /\ pc[t] = "run" /\ Reserve(t, "ucopy")

\* With interrupts enabled: fill the message, which send also ends with NULL.
Copy(t, m) ==
  /\ Running(t) /\ pc[t] \in {"copy", "ucopy"}
  /\ content' = [content EXCEPT ![msg[t]] = m]
  /\ next' = IF pc[t] = "copy" THEN [next EXCEPT ![msg[t]] = Null] ELSE next
  /\ pc' = [pc EXCEPT ![t] = IF @ = "copy" THEN "link" ELSE "ulink"]
  /\ UNCHANGED <<alive, msg_queue_head, msg_queue_tail, msg_queue_free, entry, waitVars,
                 timed, msg, tmrVars>>

\* (mutant) resumes a receiver only when the queue was empty.
LinkWakesFirst(t) ==
  /\ Running(t) /\ pc[t] \in {"link", "ulink"}
  /\ IF pc[t] = "link" THEN LinkTail(msg[t], next) ELSE LinkHead(msg[t])
  /\ entry' = entry + 1
  /\ IF entry = 0 THEN WakeReceiver
                  ELSE UNCHANGED <<suspend_thread, stat, error, ttmr_set, missed>>
  /\ msg' = [msg EXCEPT ![t] = Null]
  /\ pc' = [pc EXCEPT ![t] = "run"]
  /\ UNCHANGED <<alive, msg_queue_free, content, suspend_sender_thread, timed, firing>>

\* Link the message and resume the first receiver.
Link(t) ==
  /\ Running(t) /\ pc[t] \in {"link", "ulink"}
  /\ IF pc[t] = "link" THEN LinkTail(msg[t], next) ELSE LinkHead(msg[t])
  /\ entry' = entry + 1
  /\ WakeReceiver
  /\ msg' = [msg EXCEPT ![t] = Null]
  /\ pc' = [pc EXCEPT ![t] = "run"]
  /\ UNCHANGED <<alive, msg_queue_free, content, suspend_sender_thread, timed, firing>>

\* usbh_hub_thread_wakeup in the USB interrupt: rt_mq_send without waiting.
\* With the queue full nothing happens, and the result is ignored.
IsrSend(m) ==
  /\ alive /\ msg_queue_free # Null
  /\ msg_queue_free' = next[msg_queue_free]
  /\ content' = [content EXCEPT ![msg_queue_free] = m]
  /\ LinkTail(msg_queue_free, [next EXCEPT ![msg_queue_free] = Null])
  /\ entry' = entry + 1
  /\ WakeReceiver
  /\ UNCHANGED <<alive, suspend_sender_thread, timed, msg, pc, firing>>

-----------------------------------------------------------------------------
(* _rt_mq_recv.                                                            *)

RecvBlock(t, tm) ==
  /\ Enters(t, "recv") /\ (pc[t] = "recv" => tm = timed[t])
  /\ entry = 0
  /\ Suspend(t, tm)
  /\ suspend_thread' \in Enqueue(suspend_thread, t)
  /\ pc' = [pc EXCEPT ![t] = "recv"]
  /\ UNCHANGED <<alive, listVars, content, suspend_sender_thread, msg, tmrVars>>

\* (mutant) does not clear the tail with the last message.
RecvTakeKeepsTail(t) ==
  /\ Enters(t, "recv") /\ entry > 0
  /\ msg' = [msg EXCEPT ![t] = msg_queue_head]
  /\ msg_queue_head' = next[msg_queue_head]
  /\ entry' = entry - 1
  /\ pc' = [pc EXCEPT ![t] = "taken"]
  /\ timed' = [timed EXCEPT ![t] = FALSE]
  /\ UNCHANGED <<alive, msg_queue_tail, msg_queue_free, next, content, waitVars, tmrVars>>

\* Take the first message out of the queue; it is copied after this.
RecvTake(t) ==
  /\ Enters(t, "recv") /\ entry > 0
  /\ msg' = [msg EXCEPT ![t] = msg_queue_head]
  /\ msg_queue_head' = next[msg_queue_head]
  /\ msg_queue_tail' = IF msg_queue_tail = msg_queue_head THEN Null ELSE msg_queue_tail
  /\ entry' = entry - 1
  /\ pc' = [pc EXCEPT ![t] = "taken"]
  /\ timed' = [timed EXCEPT ![t] = FALSE]
  /\ UNCHANGED <<alive, msg_queue_free, next, content, waitVars, tmrVars>>

\* (mutant) resumes a sender only when the queue was full.
RecvFreeWakesFirst(t) ==
  /\ Running(t) /\ pc[t] = "taken"
  /\ next' = [next EXCEPT ![msg[t]] = msg_queue_free]
  /\ msg_queue_free' = msg[t]
  /\ IF msg_queue_free = Null THEN WakeSender
                              ELSE UNCHANGED <<suspend_sender_thread, stat, error>>
  /\ msg' = [msg EXCEPT ![t] = Null]
  /\ pc' = [pc EXCEPT ![t] = "run"]
  /\ UNCHANGED <<alive, msg_queue_head, msg_queue_tail, entry, content, suspend_thread,
                 timed, tmrVars>>

\* Put the copied message into the free list and resume the first sender.
RecvFree(t) ==
  /\ Running(t) /\ pc[t] = "taken"
  /\ next' = [next EXCEPT ![msg[t]] = msg_queue_free]
  /\ msg_queue_free' = msg[t]
  /\ WakeSender
  /\ msg' = [msg EXCEPT ![t] = Null]
  /\ pc' = [pc EXCEPT ![t] = "run"]
  /\ UNCHANGED <<alive, msg_queue_head, msg_queue_tail, entry, content, suspend_thread,
                 timed, tmrVars>>

-----------------------------------------------------------------------------
(* rt_mq_control, rt_mq_detach and the tick handler.                       *)

\* Move the queued messages to the free list, one by one from the head.
FreeAll ==
  LET p == Path(msg_queue_head) IN
  /\ next' = [s \in Slot |-> IF s \notin ToSet(p) THEN next[s]
                             ELSE LET i == CHOOSE j \in DOMAIN p : p[j] = s
                                  IN  IF i = 1 THEN msg_queue_free ELSE p[i - 1]]
  /\ msg_queue_free' = IF p = <<>> THEN msg_queue_free ELSE Last(p)
  /\ msg_queue_head' = Null /\ msg_queue_tail' = Null

\* RT_IPC_CMD_RESET: wake everybody with an error and free the messages.
Reset(t) ==
  /\ Running(t) /\ alive /\ pc[t] = "run"
  /\ WakeAll
  /\ FreeAll
  /\ entry' = 0
  /\ UNCHANGED <<alive, content, timed, msg, pc, tmrVars>>

\* rt_mq_detach.  No operation starts afterwards; the ones in progress go on.
Detach(t) ==
  /\ Running(t) /\ alive /\ pc[t] = "run"
  /\ alive' = FALSE
  /\ WakeAll
  /\ UNCHANGED <<listVars, content, timed, msg, pc, tmrVars>>

\* rt_timer_check takes the timer of a waiting thread and enables interrupts.
TimerFires(t) ==
  /\ firing = NoThread /\ stat[t] = "suspend" /\ timed[t]
  /\ firing' = t /\ ttmr_set' = TRUE
  /\ UNCHANGED <<alive, listVars, content, waitVars, timed, msg, pc, missed>>

\* _thread_timeout, whatever state the thread is in by now.
ThreadTimeout ==
  /\ firing # NoThread
  /\ error' = [error EXCEPT ![firing] = "ERR"]
  /\ stat' = [stat EXCEPT ![firing] = "ready"]
  /\ suspend_thread' = Unlink(suspend_thread, firing)
  /\ suspend_sender_thread' = Unlink(suspend_sender_thread, firing)
  /\ missed' = (missed \/ stat[firing] = "ready")
  /\ firing' = NoThread /\ ttmr_set' = FALSE
  /\ UNCHANGED <<alive, listVars, content, timed, msg, pc>>

-----------------------------------------------------------------------------
Next ==
  \/ \E m \in Msg : IsrSend(m)
  \/ ThreadTimeout
  \/ \E t \in Thread :
       \/ \E tm \in BOOLEAN : SendBlock(t, tm) \/ RecvBlock(t, tm)
       \/ SendReserve(t) \/ UrgentReserve(t) \/ Link(t)
       \/ \E m \in Msg : Copy(t, m)
       \/ RecvTake(t) \/ RecvFree(t) \/ WaitFails(t) \/ WaitGivesUp(t)
       \/ Reset(t) \/ Detach(t) \/ TimerFires(t)

Spec == Init /\ [][Next]_vars

-----------------------------------------------------------------------------
(* Properties.                                                             *)

\* No message is lost, shared or linked twice, although it is in no list while
\* a thread copies it: every rt_mq_message is in the queue, in the free list or
\* in the hands of exactly one thread; tail and entry agree with the list.
SlotsExact ==
  LET queued == Path(msg_queue_head)
      free == Path(msg_queue_free)
      held == {t \in Thread : pc[t] \in Holding}
  IN  /\ Len(queued) + Len(free) + Cardinality(held) = MaxMsgs
      /\ ToSet(queued) \cup ToSet(free) \cup {msg[t] : t \in held} = Slot
      /\ entry = Len(queued)
      /\ msg_queue_tail = IF queued = <<>> THEN Null ELSE Last(queued)

\* A thread that was resumed for a message or a place and has not run since.
Woken(where) == {t \in Thread : pc[t] = where /\ stat[t] = "ready" /\ error[t] = "EOK"}

\* No sender is stranded: when senders wait although messages are free, as many
\* have been resumed as there are free messages, whoever was faster since.
NoStrandedSender ==
  suspend_sender_thread # <<>> =>
    Len(Path(msg_queue_free)) <= Cardinality(Woken("send"))

\* The comment above rt_mq_send, a suspended thread will be resumed: unless a
\* wake-up was lost to the receiver's own timeout, nobody waits for a message
\* that no resumed receiver will fetch.
NoStrandedReceiver ==
  suspend_thread # <<>> /\ ~missed => entry <= Cardinality(Woken("recv"))

\* The state of the abstract queue: the contents of the queued messages, what
\* the senders have reserved a message for, and what the receivers have taken.
absQueue == [i \in DOMAIN Path(msg_queue_head) |-> content[Path(msg_queue_head)[i]]]
absPut == [t \in Thread |-> IF pc[t] \in {"copy", "link"} THEN "send"
                            ELSE IF pc[t] \in {"ucopy", "ulink"} THEN "urgent" ELSE "none"]
absHand == [t \in Thread |-> IF pc[t] = "taken" THEN content[msg[t]] ELSE NoMsg]

Abs == INSTANCE MsgQueue WITH
  Client <- Thread,
  Capacity <- MaxMsgs,
  queue <- absQueue, put <- absPut, hand <- absHand

\* The linked lists, the copying outside of the critical sections and the
\* retries implement a queue: every message that was linked is delivered once,
\* unchanged and in order, unless the queue is reset.
ImplementsQueue == Abs!Spec
=============================================================================
