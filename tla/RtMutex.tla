------------------------------ MODULE RtMutex ------------------------------
(***************************************************************************)
(* RT-Thread mutexes with priority inheritance and priority ceilings       *)
(* (rt-thread/src/ipc.c), the thread timeout that takes a waiter out of    *)
(* the queue, and the end of a thread that holds or waits for a mutex      *)
(* (thread.c).                                                             *)
(*                                                                         *)
(* Every mutex operation holds the mutex's spin lock, which on one core is *)
(* the scheduler lock: no other thread runs, so an operation is one        *)
(* action.  The exception is the loop of _thread_update_priority, which    *)
(* walks the chain of blocked owners: each turn is one ChainStep, and      *)
(* while chain # NoThread nothing else can happen (the scheduler is locked *)
(* with interrupts disabled).                                              *)
(*                                                                         *)
(* SysTick can interrupt an operation only to time out a waiter of the     *)
(* queue, which commutes with the rest of the operation.  Mutexes are not  *)
(* used by interrupt handlers, so the window between a timer's expiry and  *)
(* _thread_timeout, which RtSem models, cannot be seen here; the branch of *)
(* rt_mutex_release that skips a waiter it cannot make ready is therefore  *)
(* dead on one core (RtSem!WaiterWakeable).                                *)
(***************************************************************************)
EXTENDS Integers, Sequences, FiniteSets, SequencesExt

CONSTANTS
  Thread, Mutex,
  NoThread, NoMutex,  \* RT_NULL
  InitPrio,           \* init_priority of every thread; smaller is more urgent
  HoldMax,            \* RT_MUTEX_HOLD_MAX (255 in rtdef.h)
  Ceilings,           \* the priorities given to rt_mutex_setprioceiling
  MaxEnds             \* bound: mutexes detached and threads ended

NoPrio == 255         \* 0xff: no waiter, no ceiling

ASSUME MutexAssumption ==
  /\ IsFiniteSet(Thread) /\ IsFiniteSet(Mutex)
  /\ NoThread \notin Thread /\ NoMutex \notin Mutex
  /\ InitPrio \in [Thread -> 0..(NoPrio - 1)]
  /\ Ceilings \subseteq 0..(NoPrio - 1)
  /\ HoldMax \in Nat \ {0}
  /\ MaxEnds \in Nat

VARIABLES
  alive,           \* the mutex has not been detached
  owner,           \* mutex->owner
  hold,            \* mutex->hold
  priority,        \* mutex->priority
  ceiling,         \* mutex->ceiling_priority
  suspend_thread,  \* mutex->parent.suspend_thread, head first
  taken,           \* thread->taken_object_list, as a set
  cur,             \* thread's current_priority
  stat,            \* "ready" (READY or RUNNING), "suspend" or "close"
  error,           \* thread->error
  pending,         \* thread->pending_object
  timer,           \* thread_timer is active
  taking,          \* the mutex of the rt_mutex_take the thread is blocked in
  got,             \* history: successful takes not yet released, per thread
  chain            \* the thread _thread_update_priority has to look at next

mtxVars == <<alive, owner, hold, priority, ceiling, suspend_thread>>
thrVars == <<taken, cur, stat, error, pending, timer, taking, got>>
vars == <<mtxVars, thrVars, chain>>

TypeOK ==
  /\ alive \in [Mutex -> BOOLEAN]
  /\ owner \in [Mutex -> Thread \cup {NoThread}]
  /\ hold \in [Mutex -> 0..HoldMax]
  /\ priority \in [Mutex -> 0..NoPrio]
  /\ ceiling \in [Mutex -> 0..NoPrio]
  /\ suspend_thread \in [Mutex -> Seq(Thread)]
  /\ taken \in [Thread -> SUBSET Mutex]
  /\ cur \in [Thread -> 0..(NoPrio - 1)]
  /\ stat \in [Thread -> {"ready", "suspend", "close"}]
  /\ error \in [Thread -> {"EOK", "ERROR", "ETIMEOUT"}]
  /\ pending \in [Thread -> Mutex \cup {NoMutex}]
  /\ timer \in [Thread -> BOOLEAN]
  /\ taking \in [Thread -> Mutex \cup {NoMutex}]
  /\ got \in [Thread -> [Mutex -> 0..HoldMax]]
  /\ chain \in Thread \cup {NoThread}

\* rt_mutex_init and rt_mutex_create; threads that hold nothing.
Init ==
  /\ alive = [m \in Mutex |-> TRUE]
  /\ owner = [m \in Mutex |-> NoThread]
  /\ hold = [m \in Mutex |-> 0]
  /\ priority = [m \in Mutex |-> NoPrio]
  /\ ceiling = [m \in Mutex |-> NoPrio]
  /\ suspend_thread = [m \in Mutex |-> <<>>]
  /\ taken = [t \in Thread |-> {}]
  /\ cur = InitPrio
  /\ stat = [t \in Thread |-> "ready"]
  /\ error = [t \in Thread |-> "EOK"]
  /\ pending = [t \in Thread |-> NoMutex]
  /\ timer = [t \in Thread |-> FALSE]
  /\ taking = [t \in Thread |-> NoMutex]
  /\ got = [t \in Thread |-> [m \in Mutex |-> 0]]
  /\ chain = NoThread

\* Any ready thread may run, whatever the priorities: more than rt_schedule
\* allows.
Running(t) == chain = NoThread /\ stat[t] = "ready"

\* t is outside rt_mutex_take and calls the kernel.
Calls(t) == Running(t) /\ taking[t] = NoMutex

-----------------------------------------------------------------------------
(* Queues and priorities.                                                  *)

In(t, s) == \E i \in DOMAIN s : s[i] = t

\* (mutant) forgets to remove the node.
UnlinkNothing(s, t) == s

\* rt_list_remove of t's node.
Unlink(s, t) ==
  IF In(t, s) THEN RemoveAt(s, CHOOSE i \in DOMAIN s : s[i] = t) ELSE s

\* rt_susp_list_enqueue with RT_IPC_FLAG_PRIO puts t at i of s.
EnqueueAt(s, t, i) ==
  /\ \A j \in 1..(i - 1) : ~(cur[t] < cur[s[j]])
  /\ i <= Len(s) => cur[t] < cur[s[i]]

\* (mutant) at the end, as with RT_IPC_FLAG_FIFO.
EnqueueFifo(s, t) == Append(s, t)

Enqueue(s, t) ==
  InsertAt(s, CHOOSE i \in 1..(Len(s) + 1) : EnqueueAt(s, t, i), t)

\* _mutex_update_priority: the priority of the first thread of the queue.
UpdatePriority(s) == IF s = <<>> THEN NoPrio ELSE cur[Head(s)]

\* (mutant) starts from 0xff instead of the thread's own priority.
GetMutexPriorityNoInit(t, M, p, c) ==
  Min({NoPrio} \cup {p[m] : m \in M} \cup {c[m] : m \in M})

\* _thread_get_mutex_priority: the most urgent of t's own priority and the
\* priorities and ceilings of the mutexes M, where p is mutex->priority and
\* c is mutex->ceiling_priority.
GetMutexPriority(t, M, p, c) ==
  Min({InitPrio[t]} \cup {p[m] : m \in M} \cup {c[m] : m \in M})

\* The condition of _thread_update_priority's loop for t.
Follow(t) ==
  IF stat[t] = "suspend" /\ pending[t] # NoMutex THEN t ELSE NoThread

-----------------------------------------------------------------------------
(* _thread_update_priority.                                                *)

\* (mutant) raises the owner only, not those the owner waits for.
BoostOnce(o, p) ==
  /\ cur' = [cur EXCEPT ![o] = p]
  /\ chain' = NoThread

\* cur[o] becomes p, and the loop goes on from o.
Boost(o, p) ==
  /\ cur' = [cur EXCEPT ![o] = p]
  /\ chain' = Follow(o)

NoBoost == UNCHANGED <<cur, chain>>

\* (mutant) goes on to the owner although its priority does not change.
ChainStepNoStop ==
  /\ chain # NoThread
  /\ LET m == pending[chain]
         o == owner[m]
         s == Enqueue(Unlink(suspend_thread[m], chain), chain)
     IN  /\ suspend_thread' = [suspend_thread EXCEPT ![m] = s]
         /\ priority' = [priority EXCEPT ![m] = UpdatePriority(s)]
         /\ Boost(o, GetMutexPriority(o, taken[o], priority', ceiling))
  /\ UNCHANGED <<alive, owner, hold, ceiling, taken, stat, error, pending, timer,
                 taking, got>>

\* One turn of the loop: the blocked thread is queued again by its new
\* priority, and the priority of the mutex and of its owner follow; the loop
\* ends when the owner's priority is already right or the owner is not blocked
\* on a mutex itself.
ChainStep ==
  /\ chain # NoThread
  /\ LET m == pending[chain]
         o == owner[m]
         s == Enqueue(Unlink(suspend_thread[m], chain), chain)
         p == GetMutexPriority(o, taken[o], priority', ceiling)
     IN  /\ suspend_thread' = [suspend_thread EXCEPT ![m] = s]
         /\ priority' = [priority EXCEPT ![m] = UpdatePriority(s)]
         /\ IF p # cur[o] THEN Boost(o, p) ELSE chain' = NoThread /\ UNCHANGED cur
  /\ UNCHANGED <<alive, owner, hold, ceiling, taken, stat, error, pending, timer,
                 taking, got>>

\* t is no longer in the queue of m, which is s now: the end of a failed
\* rt_mutex_take and of rt_mutex_drop_thread.
LeaveQueue(t, m, s) ==
  LET o == owner[m]
      p == GetMutexPriority(o, taken[o], priority', ceiling)
  IN  /\ priority' = [priority EXCEPT ![m] = UpdatePriority(s)]
      /\ IF o # NoThread /\ cur[o] = cur[t] /\ p # cur[o] THEN Boost(o, p) ELSE NoBoost

-----------------------------------------------------------------------------
(* rt_mutex_take.                                                          *)

\* The owner takes it again; beyond RT_MUTEX_HOLD_MAX -RT_EFULL is returned.
TakeAgain(t, m) ==
  /\ alive[m] /\ Calls(t)
  /\ owner[m] = t
  /\ hold[m] < HoldMax
  /\ hold' = [hold EXCEPT ![m] = @ + 1]
  /\ got' = [got EXCEPT ![t][m] = @ + 1]
  /\ UNCHANGED <<alive, owner, priority, ceiling, suspend_thread, taken, cur, stat,
                 error, pending, timer, taking, chain>>

\* The mutex has no owner.
TakeFree(t, m) ==
  /\ alive[m] /\ Calls(t)
  /\ owner[m] = NoThread
  /\ owner' = [owner EXCEPT ![m] = t]
  /\ priority' = [priority EXCEPT ![m] = NoPrio]
  /\ hold' = [hold EXCEPT ![m] = 1]
  /\ cur' = [cur EXCEPT ![t] = IF ceiling[m] < @ THEN ceiling[m] ELSE @]
  /\ taken' = [taken EXCEPT ![t] = @ \cup {m}]
  /\ got' = [got EXCEPT ![t][m] = 1]
  /\ UNCHANGED <<alive, ceiling, suspend_thread, stat, error, pending, timer, taking,
                 chain>>

\* Another thread owns the mutex: suspend, and raise the owner to t's priority
\* if t is more urgent than all who wait already.  (With no waiting time
\* rt_mutex_take returns -RT_ETIMEOUT and changes nothing.)
Wait(t, m, timed) ==
  /\ alive[m] /\ Calls(t)
  /\ owner[m] \notin {t, NoThread}
  /\ stat' = [stat EXCEPT ![t] = "suspend"]
  /\ error' = [error EXCEPT ![t] = "EOK"]
  /\ suspend_thread' = [suspend_thread EXCEPT ![m] = Enqueue(@, t)]
  /\ pending' = [pending EXCEPT ![t] = m]
  /\ taking' = [taking EXCEPT ![t] = m]
  /\ timer' = [timer EXCEPT ![t] = timed]
  /\ priority' = [priority EXCEPT ![m] = IF cur[t] < @ THEN cur[t] ELSE @]
  /\ IF cur[t] < priority[m] /\ cur[t] < cur[owner[m]]
     THEN Boost(owner[m], cur[t]) ELSE NoBoost
  /\ UNCHANGED <<alive, owner, hold, ceiling, taken, got>>

\* The blocked rt_mutex_take runs again with RT_EOK: it owns the mutex.
TakeSucceeds(t) ==
  /\ Running(t) /\ taking[t] # NoMutex
  /\ error[t] = "EOK"
  /\ got' = [got EXCEPT ![t][taking[t]] = 1]
  /\ taking' = [taking EXCEPT ![t] = NoMutex]
  /\ UNCHANGED <<mtxVars, taken, cur, stat, error, pending, timer, chain>>

\* The blocked rt_mutex_take runs again with an error: the priorities of the
\* mutex and of its owner, if it has one, are computed again without t.
TakeFails(t) ==
  /\ Running(t) /\ taking[t] # NoMutex
  /\ error[t] # "EOK"
  /\ LeaveQueue(t, taking[t], suspend_thread[taking[t]])
  /\ pending' = [pending EXCEPT ![t] = NoMutex]
  /\ taking' = [taking EXCEPT ![t] = NoMutex]
  /\ error' = [error EXCEPT ![t] = "EOK"]
  /\ UNCHANGED <<alive, owner, hold, ceiling, suspend_thread, taken, stat, timer, got>>

\* _thread_timeout of a waiter.
Timeout(t) ==
  /\ chain = NoThread
  /\ timer[t] /\ stat[t] = "suspend"
  /\ timer' = [timer EXCEPT ![t] = FALSE]
  /\ error' = [error EXCEPT ![t] = "ETIMEOUT"]
  /\ suspend_thread' = [m \in Mutex |-> Unlink(suspend_thread[m], t)]
  /\ stat' = [stat EXCEPT ![t] = "ready"]
  /\ UNCHANGED <<alive, owner, hold, priority, ceiling, taken, cur, pending, taking,
                 got, chain>>

-----------------------------------------------------------------------------
(* rt_mutex_release.                                                       *)

\* (mutant) compares the hold count before it is decreased.
FreedOffByOne(R) == {m \in R : hold[m] = 0}

\* The mutexes of R whose last hold is given up.
Freed(R) == {m \in R : hold[m] = 1}

\* The first waiters of the freed ones: their next owners.
NextOwners(R) == {Head(suspend_thread[m]) : m \in {n \in Freed(R) : suspend_thread[n] # <<>>}}

\* The owner t releases every mutex of R once.  A freed mutex goes straight to
\* its first waiter, or to nobody.
GiveUp(t, R) ==
  LET next(m) == IF suspend_thread[m] = <<>> THEN NoThread ELSE Head(suspend_thread[m])
      rest(m) == IF suspend_thread[m] = <<>> THEN <<>> ELSE Tail(suspend_thread[m])
  IN
  /\ hold' = [m \in Mutex |-> IF m \notin R THEN hold[m]
                              ELSE IF hold[m] = 1 /\ next(m) # NoThread THEN 1
                              ELSE hold[m] - 1]
  /\ owner' = [m \in Mutex |-> IF m \in Freed(R) THEN next(m) ELSE owner[m]]
  /\ suspend_thread' = [m \in Mutex |-> IF m \in Freed(R) THEN rest(m) ELSE suspend_thread[m]]
  /\ priority' = [m \in Mutex |-> IF m \in Freed(R)
                    THEN UpdatePriority(rest(m)) ELSE priority[m]]
  /\ taken' = [u \in Thread |-> (IF u = t THEN taken[u] \ Freed(R) ELSE taken[u])
                                \cup {m \in Freed(R) : next(m) = u}]
  /\ pending' = [u \in Thread |-> IF u \in NextOwners(R) THEN NoMutex ELSE pending[u]]
  /\ timer' = [u \in Thread |-> IF u \in NextOwners(R) THEN FALSE ELSE timer[u]]

\* _check_and_update_prio: o's priority once m is out of its taken list.  It is
\* left alone when the mutex has no ceiling and does not look like its cause.
PrioWithout(o, m) ==
  IF ceiling[m] # NoPrio \/ cur[o] = priority[m]
  THEN GetMutexPriority(o, taken[o] \ {m}, priority, ceiling)
  ELSE cur[o]

\* (mutant) does not test the ownership.
ReleaseByAnyone(t, m) ==
  /\ alive[m] /\ Calls(t)
  /\ owner[m] # NoThread
  /\ GiveUp(t, {m})
  /\ cur' = [cur EXCEPT ![t] = IF hold[m] = 1 THEN PrioWithout(t, m) ELSE @]
  /\ stat' = [u \in Thread |-> IF u \in NextOwners({m}) THEN "ready" ELSE stat[u]]
  /\ UNCHANGED <<alive, ceiling, error, taking, got, chain>>

\* rt_mutex_release by the owner; anybody else gets -RT_ERROR.
Release(t, m) ==
  /\ alive[m] /\ Calls(t)
  /\ owner[m] = t
  /\ GiveUp(t, {m})
  /\ cur' = [cur EXCEPT ![t] = IF hold[m] = 1 THEN PrioWithout(t, m) ELSE @]
  /\ stat' = [u \in Thread |-> IF u \in NextOwners({m}) THEN "ready" ELSE stat[u]]
  /\ got' = [got EXCEPT ![t][m] = @ - 1]
  /\ UNCHANGED <<alive, ceiling, error, taking, chain>>

-----------------------------------------------------------------------------
(* Ceilings, the end of a mutex, the end of a thread.                      *)

MayEnd ==
  Cardinality({m \in Mutex : ~alive[m]}) + Cardinality({t \in Thread : stat[t] = "close"})
    < MaxEnds

\* rt_mutex_setprioceiling.
SetPrioCeiling(t, m, c) ==
  /\ alive[m] /\ Calls(t)
  /\ ceiling' = [ceiling EXCEPT ![m] = c]
  /\ LET o == owner[m]
         p == GetMutexPriority(o, taken[o], priority, ceiling')
     IN  IF o # NoThread /\ p # cur[o] THEN Boost(o, p) ELSE NoBoost
  /\ UNCHANGED <<alive, owner, hold, priority, suspend_thread, taken, stat, error,
                 pending, timer, taking, got>>

\* rt_mutex_detach (and rt_mutex_delete up to the free): the waiters get
\* RT_ERROR; the owner's priority changes without _thread_update_priority, and
\* mutex->owner stays.
MutexDetach(t, m) ==
  /\ alive[m] /\ Calls(t) /\ MayEnd
  /\ alive' = [alive EXCEPT ![m] = FALSE]
  /\ stat' = [u \in Thread |-> IF In(u, suspend_thread[m]) THEN "ready" ELSE stat[u]]
  /\ error' = [u \in Thread |-> IF In(u, suspend_thread[m]) THEN "ERROR" ELSE error[u]]
  /\ timer' = [u \in Thread |-> IF In(u, suspend_thread[m]) THEN FALSE ELSE timer[u]]
  /\ suspend_thread' = [suspend_thread EXCEPT ![m] = <<>>]
  /\ LET o == owner[m] IN
     IF o = NoThread THEN UNCHANGED <<taken, cur>>
     ELSE /\ taken' = [taken EXCEPT ![o] = @ \ {m}]
          /\ cur' = [cur EXCEPT ![o] = PrioWithout(o, m)]
  /\ got' = [u \in Thread |-> [got[u] EXCEPT ![m] = 0]]
  /\ UNCHANGED <<owner, hold, priority, ceiling, pending, taking, chain>>

\* _thread_detach of the running thread itself: it releases each mutex of its
\* taken list once.  (Its priority is of no consequence any more.)
ThreadExit(t) ==
  /\ Calls(t) /\ MayEnd
  /\ GiveUp(t, taken[t])
  /\ stat' = [u \in Thread |-> IF u = t THEN "close"
                               ELSE IF u \in NextOwners(taken[t]) THEN "ready" ELSE stat[u]]
  /\ got' = [got EXCEPT ![t] = [m \in Mutex |-> 0]]
  /\ UNCHANGED <<alive, ceiling, cur, error, taking, chain>>

\* _thread_exit: the thread's entry function returns.  Its mutexes are left as
\* they are.
EntryReturns(t) ==
  /\ Calls(t) /\ MayEnd
  /\ stat' = [stat EXCEPT ![t] = "close"]
  /\ got' = [got EXCEPT ![t] = [m \in Mutex |-> 0]]
  /\ UNCHANGED <<mtxVars, taken, cur, error, pending, timer, taking, chain>>

\* _thread_detach of t by u: t leaves the queue it waits in; rt_mutex_release
\* refuses to release the mutexes t holds, because u is not their owner.
ThreadDelete(u, t) ==
  /\ Calls(u) /\ u # t /\ MayEnd
  /\ stat[t] # "close"
  /\ stat' = [stat EXCEPT ![t] = "close"]
  /\ timer' = [timer EXCEPT ![t] = FALSE]
  /\ pending' = [pending EXCEPT ![t] = NoMutex]
  /\ taking' = [taking EXCEPT ![t] = NoMutex]
  /\ got' = [got EXCEPT ![t] = [m \in Mutex |-> 0]]
  /\ suspend_thread' = [m \in Mutex |-> Unlink(suspend_thread[m], t)]
  /\ IF pending[t] # NoMutex
     THEN LeaveQueue(t, pending[t], Unlink(suspend_thread[pending[t]], t))
     ELSE NoBoost /\ UNCHANGED priority
  /\ UNCHANGED <<alive, owner, hold, ceiling, taken, error>>

\* t blocks in some other service of the kernel, and is woken from there.
Sleep(t) ==
  /\ Calls(t)
  /\ stat' = [stat EXCEPT ![t] = "suspend"]
  /\ UNCHANGED <<mtxVars, taken, cur, error, pending, timer, taking, got, chain>>

Wake(t) ==
  /\ chain = NoThread
  /\ stat[t] = "suspend" /\ taking[t] = NoMutex
  /\ stat' = [stat EXCEPT ![t] = "ready"]
  /\ UNCHANGED <<mtxVars, taken, cur, error, pending, timer, taking, got, chain>>

-----------------------------------------------------------------------------
Next ==
  \/ ChainStep
  \/ \E t \in Thread :
       \/ \E m \in Mutex :
            \/ TakeAgain(t, m) \/ TakeFree(t, m)
            \/ \E timed \in BOOLEAN : Wait(t, m, timed)
            \/ Release(t, m)
            \/ \E c \in Ceilings : SetPrioCeiling(t, m, c)
            \/ MutexDetach(t, m)
       \/ TakeSucceeds(t) \/ TakeFails(t) \/ Timeout(t)
       \/ Sleep(t) \/ Wake(t)
       \/ ThreadExit(t) \/ EntryReturns(t)
       \/ \E u \in Thread : ThreadDelete(u, t)

\* The loop of _thread_update_priority runs to its end: nothing can preempt it.
Spec == Init /\ [][Next]_vars /\ WF_vars(ChainStep)

-----------------------------------------------------------------------------
(* Properties.                                                             *)

\* Mutual exclusion, seen from the callers: whoever has taken a mutex and not
\* released it as often is its owner, and mutex->hold is exactly that count,
\* through hand-over, timeouts, recursion and the end of other threads.
HolderOwns ==
  \A t \in Thread, m \in Mutex :
    alive[m] /\ got[t][m] > 0 => owner[m] = t /\ hold[m] = got[t][m]

\* mutex->owner and the threads' taken lists never disagree, and an ownerless
\* mutex has nobody waiting for it: a release cannot lose a waiter.
TakenExact ==
  \A m \in Mutex : alive[m] =>
    /\ \A t \in Thread : owner[m] = t <=> m \in taken[t]
    /\ owner[m] = NoThread <=> hold[m] = 0
    /\ owner[m] = NoThread => suspend_thread[m] = <<>>

\* Every queue holds each blocked thread once, the one whose pending_object is
\* that mutex; a thread waits in no second queue.
QueueExact ==
  \A m \in Mutex :
    /\ \A i, j \in DOMAIN suspend_thread[m] :
         suspend_thread[m][i] = suspend_thread[m][j] => i = j
    /\ \A t \in Thread :
         In(t, suspend_thread[m]) <=> stat[t] = "suspend" /\ pending[t] = m

\* No mutex has been detached and no thread has ended.
Undisturbed == (\A m \in Mutex : alive[m]) /\ (\A t \in Thread : stat[t] # "close")

\* No priority inversion: once _thread_update_priority is done, the owner is at
\* least as urgent as every thread waiting for it, along chains of owners too.
OwnerInherits ==
  Undisturbed /\ chain = NoThread =>
    \A m \in Mutex : \A i \in DOMAIN suspend_thread[m] :
      cur[owner[m]] <= cur[suspend_thread[m][i]]

\* The queue stays in order of priority although the priorities of the waiters
\* change while they wait, so the hand-over goes to the most urgent one.
QueuedByPriority ==
  Undisturbed /\ chain = NoThread =>
    \A m \in Mutex : \A i, j \in DOMAIN suspend_thread[m] :
      i < j => cur[suspend_thread[m][i]] <= cur[suspend_thread[m][j]]

\* _thread_update_priority, which runs with interrupts disabled, always ends,
\* even when the threads wait for each other in a circle.
ChainEnds == chain # NoThread ~> chain = NoThread
=============================================================================
