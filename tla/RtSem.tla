------------------------------- MODULE RtSem -------------------------------
(***************************************************************************)
(* One RT-Thread semaphore (rt-thread/src/ipc.c) together with everything  *)
(* that can wake a thread blocked on it: the scheduler's suspend and ready *)
(* operations (scheduler_comm.c, thread.c), the thread's own timeout timer *)
(* (timer.c) and the SysTick handler that fires it (clock.c).              *)
(*                                                                         *)
(* The kernel is uniprocessor, so an operation that runs with interrupts   *)
(* disabled is one action.  Two places are not atomic and are split:       *)
(*   - rt_timer_check enables interrupts before it calls the timeout       *)
(*     function.  SysTick has the lowest NVIC priority (0xFF) and the USB  *)
(*     interrupt the highest (0), so the USB handler may run, and release  *)
(*     the semaphore, between the two;                                     *)
(*   - _thread_sleep suspends the thread and arms its timer in two         *)
(*     interrupt-disabled sections, with only the scheduler locked.        *)
(* A READY and a RUNNING thread are not told apart: any ready thread may   *)
(* take the next step, whatever the priorities.  Priorities matter where a *)
(* thread enters the list, and they change: priority inheritance and       *)
(* rt_thread_control store a new current_priority in a waiting thread.     *)
(***************************************************************************)
EXTENDS Integers, Sequences, FiniteSets, SequencesExt

CONSTANTS
  Thread,          \* the threads that use the semaphore
  NoThread,        \* "no thread"
  PriorityMax,     \* RT_THREAD_PRIORITY_MAX (32 in rtconfig.h)
  SemValueMax,     \* RT_SEM_VALUE_MAX (65535 in rtdef.h)
  MaxTimeout       \* bound: longest timeout, in ticks

ASSUME SemAssumption ==
  /\ IsFiniteSet(Thread) /\ NoThread \notin Thread
  /\ PriorityMax \in Nat \ {0}
  /\ SemValueMax \in Nat \ {0}
  /\ MaxTimeout \in Nat \ {0}

VARIABLES
  alive,           \* the semaphore object has not been deleted
  flag,            \* sem->parent.parent.flag: RT_IPC_FLAG_FIFO or RT_IPC_FLAG_PRIO
  value,           \* sem->value
  max_value,       \* sem->max_value
  suspend_thread,  \* sem->parent.suspend_thread, head first
  stat,            \* "ready" (READY or RUNNING), "suspend" or "close"
  error,           \* thread->error
  prio,            \* current_priority: a smaller number is more urgent
  ttmr_set,        \* sched_flag_ttmr_set
  activated,       \* RT_TIMER_FLAG_ACTIVATED of thread->thread_timer
  left,            \* ticks until thread_timer expires, 0 when it is not active
  pc,              \* where the thread is
  tick,            \* where the SysTick handler is
  firing           \* the thread whose timer is RT_TIMER_FLAG_PROCESSING

semVars == <<alive, flag, value, max_value, suspend_thread>>
thrVars == <<stat, error, pc>>
tmrVars == <<ttmr_set, activated, left>>
vars == <<semVars, thrVars, tmrVars, prio, tick, firing>>

(***************************************************************************)
(* pc: "run" outside the kernel, "take" in rt_sem_take without and "timed" *)
(* with a timeout, "arm" in _thread_sleep with the timer not yet started   *)
(* (the scheduler is locked), "sleep" after it, "dead" once detached.      *)
(***************************************************************************)
Where == {"run", "take", "timed", "arm", "sleep", "dead"}
Err == {"EOK", "EINTR", "ERROR", "ETIMEOUT"}

TypeOK ==
  /\ alive \in BOOLEAN
  /\ flag \in {"FIFO", "PRIO"}
  /\ value \in 0..SemValueMax
  /\ max_value \in 1..SemValueMax
  /\ suspend_thread \in Seq(Thread)
  /\ stat \in [Thread -> {"ready", "suspend", "close"}]
  /\ error \in [Thread -> Err]
  /\ prio \in [Thread -> 0..(PriorityMax - 1)]
  /\ ttmr_set \in [Thread -> BOOLEAN]
  /\ activated \in [Thread -> BOOLEAN]
  /\ left \in [Thread -> 0..MaxTimeout]
  /\ pc \in [Thread -> Where]
  /\ tick \in {"idle", "check", "fire", "fired"}
  /\ firing \in Thread \cup {NoThread}

Init ==
  /\ alive = TRUE
  /\ flag \in {"FIFO", "PRIO"}
  /\ value \in 0..SemValueMax
  /\ max_value = SemValueMax
  /\ suspend_thread = <<>>
  /\ stat = [t \in Thread |-> "ready"]
  /\ error = [t \in Thread |-> "EOK"]
  /\ prio \in [Thread -> 0..(PriorityMax - 1)]
  /\ ttmr_set = [t \in Thread |-> FALSE]
  /\ activated = [t \in Thread |-> FALSE]
  /\ left = [t \in Thread |-> 0]
  /\ pc = [t \in Thread |-> "run"]
  /\ tick = "idle"
  /\ firing = NoThread

\* Thread code runs when no handler does; _thread_sleep locks the scheduler.
Running(t) ==
  /\ tick = "idle"
  /\ stat[t] = "ready"
  /\ \A u \in Thread : pc[u] # "arm"

InKernel(t) == Running(t) /\ pc[t] = "run"

-----------------------------------------------------------------------------
(* Lists.                                                                  *)

\* rt_list_remove of t's node: a no-op when the node is in no list.
Unlink(s, t) ==
  IF \E i \in DOMAIN s : s[i] = t
  THEN RemoveAt(s, CHOOSE i \in DOMAIN s : s[i] = t)
  ELSE s

\* (mutant) compares with the first waiter only.
EnqueueAtFirstOnly(t, i) ==
  IF flag = "PRIO" /\ suspend_thread # <<>> /\ prio[t] < prio[Head(suspend_thread)]
  THEN i = 1
  ELSE i = Len(suspend_thread) + 1

\* Where rt_susp_list_enqueue puts t: at the end, or before the first thread
\* with a larger priority number.
EnqueueAt(t, i) ==
  IF flag = "FIFO" THEN i = Len(suspend_thread) + 1
  ELSE /\ \A j \in 1..(i - 1) : ~(prio[t] < prio[suspend_thread[j]])
       /\ i <= Len(suspend_thread) => prio[t] < prio[suspend_thread[i]]

-----------------------------------------------------------------------------
(* Making a suspended thread ready.                                        *)

\* rt_sched_thread_ready(t) succeeds: t is suspended, and its timer, if it was
\* set, was still active and could be stopped.
CanReady(t) == stat[t] = "suspend" /\ (ttmr_set[t] => activated[t])

\* rt_sched_thread_ready clears sched_flag_ttmr_set whether or not it could
\* stop the timer; the rest happens only when it could.
Ready(T, err) ==
  /\ stat' = [t \in Thread |-> IF t \in T THEN "ready" ELSE stat[t]]
  /\ error' = [t \in Thread |-> IF t \in T THEN err[t] ELSE error[t]]
  /\ activated' = [t \in Thread |-> IF t \in T THEN FALSE ELSE activated[t]]
  /\ left' = [t \in Thread |-> IF t \in T THEN 0 ELSE left[t]]

\* (mutant) does not hand the error number to the resumed thread.
DequeueKeepsError(err) ==
  LET t == Head(suspend_thread) IN
  /\ ttmr_set' = [ttmr_set EXCEPT ![t] = FALSE]
  /\ Ready({t} \cap {u \in Thread : CanReady(u)}, error)
  /\ suspend_thread' = IF CanReady(t) THEN Tail(suspend_thread)
                                      ELSE suspend_thread

\* rt_susp_list_dequeue: try to resume the first thread of the list.
Dequeue(err) ==
  LET t == Head(suspend_thread) IN
  /\ ttmr_set' = [ttmr_set EXCEPT ![t] = FALSE]
  /\ Ready({t} \cap {u \in Thread : CanReady(u)}, [u \in Thread |-> err])
  /\ suspend_thread' = IF CanReady(t) THEN Tail(suspend_thread)
                                      ELSE suspend_thread

\* rt_susp_list_resume_all: dequeue until the list is empty or a thread could
\* not be resumed.
ResumeAll(err) ==
  \E k \in 0..Len(suspend_thread) :
    /\ \A i \in 1..k : CanReady(suspend_thread[i])
    /\ k < Len(suspend_thread) => ~CanReady(suspend_thread[k + 1])
    /\ suspend_thread' = SubSeq(suspend_thread, k + 1, Len(suspend_thread))
    /\ Ready({suspend_thread[i] : i \in 1..k}, [t \in Thread |-> err])
    /\ ttmr_set' = [t \in Thread |->
         IF \E i \in 1..Len(suspend_thread) : i <= k + 1 /\ suspend_thread[i] = t
         THEN FALSE ELSE ttmr_set[t]]

-----------------------------------------------------------------------------
(* Thread operations.                                                      *)

\* rt_sem_take and rt_sem_trytake when the semaphore is available.
Take(t) ==
  /\ alive /\ InKernel(t)
  /\ value > 0
  /\ value' = value - 1
  /\ UNCHANGED <<alive, flag, max_value, suspend_thread, thrVars, tmrVars, prio, tick, firing>>

\* (mutant) rt_thread_suspend_to_list does not stop the thread timer.
BlockKeepsTimerFlag(t, n) ==
  /\ alive /\ InKernel(t)
  /\ value = 0
  /\ error' = [error EXCEPT ![t] = "EINTR"]
  /\ stat' = [stat EXCEPT ![t] = "suspend"]
  /\ \E i \in 1..(Len(suspend_thread) + 1) :
       /\ EnqueueAt(t, i)
       /\ suspend_thread' = InsertAt(suspend_thread, i, t)
  /\ ttmr_set' = [ttmr_set EXCEPT ![t] = @ \/ n > 0]
  /\ activated' = [activated EXCEPT ![t] = n > 0]
  /\ left' = [left EXCEPT ![t] = n]
  /\ pc' = [pc EXCEPT ![t] = IF n > 0 THEN "timed" ELSE "take"]
  /\ UNCHANGED <<alive, flag, value, max_value, prio, tick, firing>>

\* (mutant) sets the time of the thread timer and does not start it.
BlockNoTimer(t, n) ==
  /\ alive /\ InKernel(t)
  /\ value = 0
  /\ error' = [error EXCEPT ![t] = "EINTR"]
  /\ stat' = [stat EXCEPT ![t] = "suspend"]
  /\ \E i \in 1..(Len(suspend_thread) + 1) :
       /\ EnqueueAt(t, i)
       /\ suspend_thread' = InsertAt(suspend_thread, i, t)
  /\ ttmr_set' = [ttmr_set EXCEPT ![t] = FALSE]
  /\ activated' = [activated EXCEPT ![t] = FALSE]
  /\ left' = [left EXCEPT ![t] = 0]
  /\ pc' = [pc EXCEPT ![t] = IF n > 0 THEN "timed" ELSE "take"]
  /\ UNCHANGED <<alive, flag, value, max_value, prio, tick, firing>>

\* rt_sem_take with nothing available: suspend, and arm the thread timer when
\* n > 0 ticks are given (n = 0 stands for RT_WAITING_FOREVER).
\* rt_thread_suspend_to_list stops the thread timer whatever it was set for.
\* (A take with no waiting changes nothing, so it is no action.)
Block(t, n) ==
  /\ alive /\ InKernel(t)
  /\ value = 0
  /\ error' = [error EXCEPT ![t] = "EINTR"]
  /\ stat' = [stat EXCEPT ![t] = "suspend"]
  /\ \E i \in 1..(Len(suspend_thread) + 1) :
       /\ EnqueueAt(t, i)
       /\ suspend_thread' = InsertAt(suspend_thread, i, t)
  /\ ttmr_set' = [ttmr_set EXCEPT ![t] = n > 0]
  /\ activated' = [activated EXCEPT ![t] = n > 0]
  /\ left' = [left EXCEPT ![t] = n]
  /\ pc' = [pc EXCEPT ![t] = IF n > 0 THEN "timed" ELSE "take"]
  /\ UNCHANGED <<alive, flag, value, max_value, prio, tick, firing>>

\* The blocked rt_sem_take is scheduled again and returns thread->error, which
\* nobody reads after that: it goes back to its initial value.
TakeReturns(t) ==
  /\ Running(t)
  /\ pc[t] \in {"take", "timed"}
  /\ pc' = [pc EXCEPT ![t] = "run"]
  /\ error' = [error EXCEPT ![t] = "EOK"]
  /\ UNCHANGED <<semVars, stat, tmrVars, prio, tick, firing>>

\* (mutant) does not check the limit.
ReleaseNoLimit ==
  /\ alive
  /\ IF suspend_thread # <<>>
     THEN Dequeue("EOK") /\ UNCHANGED value
     ELSE value' = value + 1 /\ UNCHANGED <<suspend_thread, stat, error, tmrVars>>
  /\ UNCHANGED <<alive, flag, max_value, prio, pc, tick, firing>>

\* rt_sem_release.  A waiter whose timer could not be stopped is not resumed,
\* and the value is not increased either: RT_EOK is returned all the same.
Release ==
  /\ alive
  /\ IF suspend_thread # <<>>
     THEN Dequeue("EOK") /\ UNCHANGED value
     ELSE /\ value' = IF value < max_value THEN value + 1 ELSE value
          /\ UNCHANGED <<suspend_thread, stat, error, tmrVars>>
  /\ UNCHANGED <<alive, flag, max_value, prio, pc, tick, firing>>

ThreadRelease(t) == InKernel(t) /\ Release

\* A release from the USB interrupt (dwc2_urb_waitup), nested or not.
IsrRelease == Release

\* (mutant) sets the value without resuming the waiters.
ResetKeepsWaiters(t, v) ==
  /\ alive /\ InKernel(t)
  /\ value' = v
  /\ UNCHANGED <<alive, flag, max_value, suspend_thread, thrVars, tmrVars, prio, tick, firing>>

\* rt_sem_control(RT_IPC_CMD_RESET, v).
Reset(t, v) ==
  /\ alive /\ InKernel(t)
  /\ ResumeAll("ERROR")
  /\ value' = v
  /\ UNCHANGED <<alive, flag, max_value, prio, pc, tick, firing>>

\* rt_sem_control(RT_IPC_CMD_SET_VLIMIT, m): waiters are resumed when the
\* value exceeds the new limit, and the value itself stays.
SetVlimit(t, m) ==
  /\ alive /\ InKernel(t)
  /\ IF m < value /\ suspend_thread # <<>>
     THEN ResumeAll("ERROR")
     ELSE UNCHANGED <<suspend_thread, stat, error, tmrVars>>
  /\ max_value' = m
  /\ UNCHANGED <<alive, flag, value, prio, pc, tick, firing>>

\* rt_sem_detach and rt_sem_delete.
Delete(t) ==
  /\ alive /\ InKernel(t)
  /\ ResumeAll("ERROR")
  /\ alive' = FALSE
  /\ UNCHANGED <<flag, value, max_value, prio, pc, tick, firing>>

\* _thread_sleep, first section: suspend on no list, the timer stopped.
SleepSuspend(t) ==
  /\ InKernel(t)
  /\ stat' = [stat EXCEPT ![t] = "suspend"]
  /\ error' = [error EXCEPT ![t] = "EOK"]
  /\ ttmr_set' = [ttmr_set EXCEPT ![t] = FALSE]
  /\ activated' = [activated EXCEPT ![t] = FALSE]
  /\ left' = [left EXCEPT ![t] = 0]
  /\ pc' = [pc EXCEPT ![t] = "arm"]
  /\ UNCHANGED <<semVars, prio, tick, firing>>

\* _thread_sleep, second section: arm the timer, even if an interrupt has
\* resumed the thread in between.
SleepArm(t, n) ==
  /\ tick = "idle" /\ pc[t] = "arm"
  /\ ttmr_set' = [ttmr_set EXCEPT ![t] = TRUE]
  /\ activated' = [activated EXCEPT ![t] = TRUE]
  /\ left' = [left EXCEPT ![t] = n]
  /\ error' = [error EXCEPT ![t] = "EINTR"]
  /\ pc' = [pc EXCEPT ![t] = "sleep"]
  /\ UNCHANGED <<semVars, stat, prio, tick, firing>>

SleepReturns(t) ==
  /\ Running(t)
  /\ pc[t] = "sleep"
  /\ pc' = [pc EXCEPT ![t] = "run"]
  /\ error' = [error EXCEPT ![t] = "EOK"]
  /\ UNCHANGED <<semVars, stat, tmrVars, prio, tick, firing>>

\* rt_thread_resume(t), from a thread or from an interrupt handler.
Resume(t) ==
  /\ stat[t] = "suspend"
  /\ ttmr_set' = [ttmr_set EXCEPT ![t] = FALSE]
  /\ Ready({t} \cap {u \in Thread : CanReady(u)}, error)
  /\ suspend_thread' = IF CanReady(t) THEN Unlink(suspend_thread, t)
                                      ELSE suspend_thread
  /\ UNCHANGED <<alive, flag, value, max_value, prio, pc, tick, firing>>

\* _thread_detach (rt_thread_delete by another thread, or the thread's exit).
Detach(t) ==
  /\ \E u \in Thread : InKernel(u)
  /\ stat[t] # "close"
  /\ stat' = [stat EXCEPT ![t] = "close"]
  /\ suspend_thread' = Unlink(suspend_thread, t)
  /\ activated' = [activated EXCEPT ![t] = FALSE]
  /\ left' = [left EXCEPT ![t] = 0]
  /\ pc' = [pc EXCEPT ![t] = "dead"]
  /\ UNCHANGED <<alive, flag, value, max_value, error, ttmr_set, prio, tick, firing>>

\* rt_sched_thread_change_priority(t, p) by whichever thread runs, one that
\* does not use the semaphore included: t owns a mutex that another thread
\* takes, gives up waiting for or sets a ceiling for, or rt_thread_control is
\* called for t.  Only a thread that waits for a mutex is queued anew: in the
\* list of a semaphore t stays where it is.
ChangePriority(t, p) ==
  /\ tick = "idle"
  /\ \A u \in Thread : pc[u] # "arm"
  /\ stat[t] # "close"
  /\ prio' = [prio EXCEPT ![t] = p]
  /\ UNCHANGED <<semVars, thrVars, tmrVars, tick, firing>>

-----------------------------------------------------------------------------
(* The SysTick handler: rt_tick_increase and rt_timer_check.               *)

\* rt_tick goes up by one.
TickIncrease ==
  /\ tick = "idle"
  /\ tick' = "check"
  /\ left' = [t \in Thread |-> IF activated[t] /\ left[t] > 0 THEN left[t] - 1 ELSE left[t]]
  /\ UNCHANGED <<semVars, thrVars, prio, ttmr_set, activated, firing>>

Expired == {t \in Thread : activated[t] /\ left[t] = 0}

\* One turn of rt_timer_check's loop: unmark the timer just handled, take the
\* next expired one out of the list, deactivate it, mark it PROCESSING and
\* enable interrupts.
TimerCheckPick ==
  /\ tick \in {"check", "fired"}
  /\ \E t \in Expired :
       /\ activated' = [activated EXCEPT ![t] = FALSE]
       /\ firing' = t
  /\ tick' = "fire"
  /\ UNCHANGED <<semVars, thrVars, prio, ttmr_set, left>>

TimerCheckDone ==
  /\ tick \in {"check", "fired"}
  /\ Expired = {}
  /\ firing' = NoThread
  /\ tick' = "idle"
  /\ UNCHANGED <<semVars, thrVars, tmrVars, prio>>

\* (mutant) leaves the thread in the list it waited in.
ThreadTimeoutNoUnlink ==
  /\ tick = "fire"
  /\ tick' = "fired"
  /\ error' = [error EXCEPT ![firing] = "ETIMEOUT"]
  /\ stat' = [stat EXCEPT ![firing] = "ready"]
  /\ UNCHANGED <<semVars, pc, tmrVars, prio, firing>>

\* _thread_timeout: whatever state the thread is in by now.
ThreadTimeout ==
  /\ tick = "fire"
  /\ tick' = "fired"
  /\ error' = [error EXCEPT ![firing] = "ETIMEOUT"]
  /\ suspend_thread' = Unlink(suspend_thread, firing)
  /\ stat' = [stat EXCEPT ![firing] = "ready"]
  /\ UNCHANGED <<alive, flag, value, max_value, pc, tmrVars, prio, firing>>

SysTick == TickIncrease \/ TimerCheckPick \/ TimerCheckDone \/ ThreadTimeout

-----------------------------------------------------------------------------
Next ==
  \/ IsrRelease
  \/ SysTick
  \/ \E t \in Thread :
       \/ Take(t) \/ \E n \in 0..MaxTimeout : Block(t, n)
       \/ TakeReturns(t)
       \/ ThreadRelease(t)
       \/ \E v \in 0..SemValueMax : Reset(t, v)
       \/ \E m \in 1..SemValueMax : SetVlimit(t, m)
       \/ Delete(t)
       \/ SleepSuspend(t) \/ \E n \in 1..MaxTimeout : SleepArm(t, n)
       \/ SleepReturns(t)
       \/ Resume(t)
       \/ Detach(t)
       \/ \E p \in 0..(PriorityMax - 1) : ChangePriority(t, p)

Spec == Init /\ [][Next]_vars

\* The tick interrupt keeps coming and its handler runs to its end: interrupts
\* are enabled again after every operation of the kernel.
FairSpec == Spec /\ WF_vars(SysTick)

-----------------------------------------------------------------------------
(* Properties.                                                             *)

Blocked(t) == pc[t] \in {"take", "timed"} /\ stat[t] = "suspend"

\* The thread has been given a permit and has not returned from rt_sem_take.
Granted(t) == pc[t] \in {"take", "timed"} /\ stat[t] = "ready" /\ error[t] = "EOK"

\* Permits in the semaphore and on their way to a resumed thread.
Permits == value + Cardinality({t \in Thread : Granted(t)})

\* The suspend list and the thread states never disagree, whoever woke a
\* thread (release, reset, resume, timeout, detach): every thread blocked in
\* rt_sem_take is in the list exactly once, and nobody else is in it.
SuspListExact ==
  /\ \A i, j \in DOMAIN suspend_thread :
       suspend_thread[i] = suspend_thread[j] => i = j
  /\ \A t \in Thread : Blocked(t) <=> \E i \in DOMAIN suspend_thread : suspend_thread[i] = t

\* No waiter is stranded: nobody sleeps in rt_sem_take while the semaphore has
\* permits, and nobody is left in the list of a semaphore that was deleted.
NoStrandedWaiter == value > 0 \/ ~alive => suspend_thread = <<>>

\* sched_flag_ttmr_set left behind by an earlier wait cannot make a later one
\* unwakeable: outside the handler's window (the timer of the waiter itself is
\* being fired) rt_sched_thread_ready succeeds on every thread of the list.
WaiterWakeable ==
  \A i \in DOMAIN suspend_thread :
    suspend_thread[i] # firing => CanReady(suspend_thread[i])

\* A timer is PROCESSING exactly while rt_timer_check has handed it to its
\* timeout function, and the thread is ready once _thread_timeout has run.
HandlerInv ==
  /\ firing = NoThread <=> tick \in {"idle", "check"}
  /\ tick = "fired" => stat[firing] = "ready"

\* The inductive invariant of the proofs.
IInv == TypeOK /\ SuspListExact /\ NoStrandedWaiter /\ WaiterWakeable /\ HandlerInv

\* rt_sem_release that returns RT_EOK adds exactly one permit, to the value or
\* to a resumed thread, unless the first waiter is the one timing out.
ReleaseAddsPermit ==
  [][Release /\ (suspend_thread = <<>> => value < max_value)
             /\ (suspend_thread # <<>> => Head(suspend_thread) # firing)
       => Permits' = Permits + 1]_vars

\* The comment and the assertion in _thread_timeout, for a thread in a timed
\* rt_sem_take: it has not been resumed when its timer's function runs.
TimeoutFindsSuspended ==
  [][ThreadTimeout /\ pc[firing] = "timed" => stat[firing] = "suspend"]_vars

\* The comment above rt_sem_init on RT_IPC_FLAG_PRIO: the pending threads queue
\* in order of priority.
QueuedByPriority ==
  flag = "PRIO" =>
    \A i, j \in DOMAIN suspend_thread :
      i < j => prio[suspend_thread[i]] <= prio[suspend_thread[j]]

\* What the code does keep of that order: a list that is in order stays so
\* through takes, releases, timeouts, resets, resumes and detaches, unless the
\* step changes the priority of a thread in the list.
OrderKept ==
  [][/\ QueuedByPriority
     /\ \A i \in DOMAIN suspend_thread : prio'[suspend_thread[i]] = prio[suspend_thread[i]]
     => QueuedByPriority']_vars

\* A thread that waits with a timeout is resumed, by a release, by the timeout
\* or by the end of the semaphore.
TimedWaitEnds ==
  \A t \in Thread :
    (pc[t] = "timed" /\ stat[t] = "suspend") ~> stat[t] # "suspend"
=============================================================================
