------------------------------- MODULE RtTimer -------------------------------
(***************************************************************************)
(* RT-Thread timers (src/timer.c): the two lists ordered by expiry tick,   *)
(* the tick interrupt that runs the hard timers (rt_timer_check), and the  *)
(* timer thread that sleeps until the next soft timer and runs it          *)
(* (_timer_thread_entry, _soft_timer_check).                               *)
(*                                                                         *)
(* Ticks wrap around and are compared by halves of their range.  A timer   *)
(* whose callback runs is PROCESSING and waits in a list local to the      *)
(* check function, where another thread, an interrupt or the callback      *)
(* itself may stop, change or detach it.                                   *)
(*                                                                         *)
(* RT_TIMER_SKIP_LIST_LEVEL is 1 in this build: a list is one sequence,    *)
(* whose entries carry the timeout_tick of their timer.                    *)
(***************************************************************************)
EXTENDS Integers, Sequences, FiniteSets, SequencesExt

CONSTANTS Hard, Soft,   \* the timers of each kind
          Times,        \* the values the init_tick of each timer takes
          TickMax,      \* RT_TICK_MAX
          MaxLate       \* bound: ticks a due timer waits for its callback, and
                        \* ticks the timer thread is kept from arming its sleep

Half == TickMax \div 2

\* init_tick is below half the range (RT_ASSERT in rt_timer_create), and a
\* late timer is still told from a future one.
ASSUME TimerAssumption ==
    /\ TickMax \in Nat /\ MaxLate \in Nat
    /\ Times \in [Hard \union Soft -> SUBSET (1 .. Half - 1)]
    /\ MaxLate < Half
    /\ \A t \in Hard \union Soft : \A d \in Times[t] : d + MaxLate <= TickMax + 1 - Half
    /\ Hard \intersect Soft = {}

VARIABLES
    tick,     \* rt_tick
    timer,    \* of each timer: ACTIVATED, PERIODIC, PROCESSING and init_tick
    list,     \* _timer_list and _soft_timer_list
    local,    \* the local list of rt_timer_check and of _soft_timer_check
    sem,      \* _soft_timer_sem, at most 1
    isr,      \* the tick interrupt: pc, the timer it runs
    thr,      \* the timer thread: pc, the timer it runs, next_timeout (a
              \* tick, at "take" the ticks to wait), and as history the ticks
              \* that came at "take"
    stale     \* history: made one-shot while their callback ran

vars == <<tick, timer, list, local, sem, isr, thr, stale>>

Timers == Hard \union Soft
Kind(t) == IF t \in Soft THEN "soft" ELSE "hard"
Forever == -1

Init ==
    /\ tick = 0
    /\ timer \in [Timers -> [act : {FALSE}, per : BOOLEAN, proc : {FALSE}, init : 1 .. Half - 1]]
    /\ \A t \in Timers : timer[t].init \in Times[t]
    /\ list = [k \in {"hard", "soft"} |-> <<>>]
    /\ local = [k \in {"hard", "soft"} |-> {}]
    /\ sem = 0
    /\ isr = [pc |-> "none", t |-> {}]
    /\ thr = [pc |-> "next", t |-> {}, until |-> Forever, slip |-> 0]
    /\ stale = {}

-----------------------------------------------------------------------------
(* The ordered list.                                                       *)

\* Unsigned subtraction of ticks.
Minus(a, b) == (a - b) % (TickMax + 1)

\* The list l without timer t (_timer_remove).
Without(l, t) ==
    IF \E i \in DOMAIN l : l[i].t = t
    THEN RemoveAt(l, CHOOSE i \in DOMAIN l : l[i].t = t) ELSE l

\* Mutant: ticks compared as plain numbers.
MutLater(a, b) == a > b

\* a is later than b.
Later(a, b) == Minus(a, b) # 0 /\ Minus(a, b) < Half

\* The entry goes before the first one that expires later, so after those
\* that expire at the same tick.
Place(l, e) ==
    LET n == Cardinality({i \in DOMAIN l : \A j \in 1 .. i : ~Later(l[j].timeout, e.timeout)})
    IN  InsertAt(l, n + 1, e)

\* Mutant: the sum of two ticks does not wrap around.
MutInsert(l, t) == Place(Without(l, t), [t |-> t, timeout |-> tick + timer[t].init])

\* Inserting timer t with a new timeout_tick (_timer_start).
Insert(l, t) == Place(Without(l, t), [t |-> t, timeout |-> (tick + timer[t].init) % (TickMax + 1)])

\* The tick a has come (ticks further back than half the range are future).
Reached(a) == Minus(tick, a) < Half

Expired(l) == l # <<>> /\ Reached(Head(l).timeout)

-----------------------------------------------------------------------------
(* The functions threads, interrupts and callbacks call.                   *)

\* Anyone but the tick interrupt between two callbacks may call.
Calling == isr.pc \in {"none", "callback"}

\* Mutant: the timer thread is not woken.
MutStart(t) ==
    /\ ~timer[t].proc
    /\ timer' = [timer EXCEPT ![t].act = TRUE]
    /\ list' = [list EXCEPT ![Kind(t)] = Insert(@, t)]
    /\ stale' = stale \ {t}
    /\ UNCHANGED <<tick, local, sem, isr, thr>>

\* rt_timer_start: refused while the callback runs; a soft timer wakes the
\* timer thread.
rt_timer_start(t) ==
    /\ IF timer[t].proc
       THEN UNCHANGED <<timer, list, sem, stale>>
       ELSE /\ timer' = [timer EXCEPT ![t].act = TRUE]
            /\ list' = [list EXCEPT ![Kind(t)] = Insert(@, t)]
            /\ sem' = IF t \in Soft THEN 1 ELSE sem
            /\ stale' = stale \ {t}
    /\ UNCHANGED <<tick, local, isr, thr>>

\* Taking a timer out of whichever list it is in.
TakeOut(t) ==
    /\ list' = [list EXCEPT ![Kind(t)] = Without(@, t)]
    /\ local' = [local EXCEPT ![Kind(t)] = @ \ {t}]
    /\ timer' = [timer EXCEPT ![t].act = FALSE]
    /\ stale' = stale \ {t}

\* rt_timer_stop: only an activated timer.
rt_timer_stop(t) ==
    /\ timer[t].act
    /\ TakeOut(t)
    /\ UNCHANGED <<tick, sem, isr, thr>>

\* rt_timer_detach, whatever the timer's state, and rt_timer_init, after
\* which the owner may use it again: the flags are cleared, PROCESSING too.
Reinit(t) ==
    /\ list' = [list EXCEPT ![Kind(t)] = Without(@, t)]
    /\ local' = [local EXCEPT ![Kind(t)] = @ \ {t}]
    /\ timer' = [timer EXCEPT ![t].act = FALSE, ![t].proc = FALSE]
    /\ stale' = stale \ {t}
    /\ UNCHANGED <<tick, sem, isr, thr>>

\* RT_TIMER_CTRL_SET_TIME: an activated timer is stopped.
SetTime(t, d) ==
    /\ IF timer[t].act
       THEN /\ list' = [list EXCEPT ![Kind(t)] = Without(@, t)]
            /\ local' = [local EXCEPT ![Kind(t)] = @ \ {t}]
       ELSE UNCHANGED <<list, local>>
    /\ timer' = [timer EXCEPT ![t].act = FALSE, ![t].init = d]
    /\ stale' = stale \ {t}
    /\ UNCHANGED <<tick, sem, isr, thr>>

\* RT_TIMER_CTRL_SET_PERIODIC and RT_TIMER_CTRL_SET_ONESHOT: only the flag.
SetPeriodic(t, b) ==
    /\ timer' = [timer EXCEPT ![t].per = b]
    /\ stale' = IF timer[t].act /\ timer[t].proc
                THEN IF b THEN stale \ {t} ELSE stale \union {t}
                ELSE stale
    /\ UNCHANGED <<tick, list, local, sem, isr, thr>>

Call(t) ==
    /\ Calling
    /\ \/ rt_timer_start(t)
       \/ rt_timer_stop(t)
       \/ Reinit(t)
       \/ \E d \in Times[t] : SetTime(t, d)
       \/ \E b \in BOOLEAN : SetPeriodic(t, b)

-----------------------------------------------------------------------------
(* One pass of the check functions.                                        *)

\* The first timer leaves the list for the local one; a one-shot timer is
\* deactivated; then its callback runs.
Begin(k) ==
    LET t == Head(list[k]).t IN
    /\ Expired(list[k])
    /\ list' = [list EXCEPT ![k] = Tail(@)]
    /\ local' = [local EXCEPT ![k] = {t}]
    /\ timer' = [timer EXCEPT ![t].proc = TRUE, ![t].act = timer[t].per]

\* Mutant: the local list is not looked at, a stopped timer starts again.
MutRestarts(k, t) == timer[t].per

\* The callback returned and the timer is still in the local list: an
\* activated periodic timer starts again.
Restarts(k, t) == local[k] # {} /\ timer[t].per /\ timer[t].act

End(k, t) ==
    /\ timer' = [timer EXCEPT ![t].proc = FALSE]
    /\ local' = [local EXCEPT ![k] = {}]
    /\ list' = IF Restarts(k, t) THEN [list EXCEPT ![k] = Insert(@, t)] ELSE list

-----------------------------------------------------------------------------
(* The tick interrupt.                                                     *)

Moves(pc, t, until, slip) == thr' = [pc |-> pc, t |-> t, until |-> until, slip |-> slip]

\* The timer thread has computed how long to sleep and not armed it yet.
Arming == thr.pc = "take" /\ thr.until # Forever

\* Bound: a due timer waits at most MaxLate ticks for its callback, the
\* timer thread at most MaxLate ticks to arm its sleep and to run once its
\* time is over.
InTime ==
    /\ \A k \in {"hard", "soft"} :
           Expired(list[k]) => Minus(tick, Head(list[k]).timeout) < MaxLate
    /\ Arming => thr.slip < MaxLate
    /\ thr.pc \in {"delta", "sleep"} /\ thr.until # Forever /\ Reached(thr.until) =>
           Minus(tick, thr.until) < MaxLate

\* A tick: a waiting time computed before it is now too long by one.
Advance ==
    /\ InTime
    /\ tick' = (tick + 1) % (TickMax + 1)
    /\ IF Arming THEN Moves("take", {}, thr.until, thr.slip + 1) ELSE thr' = thr

Tick ==
    /\ isr.pc = "none" /\ Advance
    /\ isr' = [pc |-> "check", t |-> {}]
    /\ UNCHANGED <<timer, list, local, sem, stale>>

HardBegin ==
    /\ isr.pc = "check"
    /\ Begin("hard")
    /\ isr' = [pc |-> "callback", t |-> {Head(list["hard"]).t}]
    /\ UNCHANGED <<tick, sem, thr, stale>>

HardEnd ==
    /\ isr.pc = "callback"
    /\ \E t \in isr.t : End("hard", t)
    /\ isr' = [pc |-> "check", t |-> {}]
    /\ UNCHANGED <<tick, sem, thr, stale>>

HardDone ==
    /\ isr.pc = "check" /\ ~Expired(list["hard"])
    /\ isr' = [pc |-> "none", t |-> {}]
    /\ UNCHANGED <<tick, timer, list, local, sem, thr, stale>>

-----------------------------------------------------------------------------
(* The timer thread.                                                       *)

Run(pc) == isr.pc = "none" /\ thr.pc = pc
Goto(pc, t, until) == Moves(pc, t, until, 0)

\* _timer_list_next_timeout, under the lock.
GetNext ==
    /\ Run("next")
    /\ IF list["soft"] = <<>>
       THEN Goto("take", {}, Forever)
       ELSE Goto("delta", {}, Head(list["soft"]).timeout)
    /\ UNCHANGED <<tick, timer, list, local, sem, isr, stale>>

\* "get the delta timeout tick"; a time that has passed is not waited for.
Delta ==
    /\ Run("delta")
    /\ IF Minus(thr.until, tick) < Half
       THEN Goto("take", {}, Minus(thr.until, tick))
       ELSE Goto("check", {}, Forever)
    /\ UNCHANGED <<tick, timer, list, local, sem, isr, stale>>

\* rt_sem_take: returns at once when the semaphore is there or no tick is
\* left, else starts the thread's timer against the tick of now.
Take ==
    /\ Run("take")
    /\ sem' = 0
    /\ IF sem = 1 \/ thr.until = 0
       THEN Goto("check", {}, Forever)
       ELSE Moves("sleep", {}, IF thr.until = Forever THEN Forever
                               ELSE (tick + thr.until) % (TickMax + 1), thr.slip)
    /\ UNCHANGED <<tick, timer, list, local, isr, stale>>

\* Mutant: the thread waits for the semaphore without a timeout.
MutWake ==
    /\ Run("sleep")
    /\ sem = 1
    /\ sem' = 0
    /\ Goto("check", {}, Forever)
    /\ UNCHANGED <<tick, timer, list, local, isr, stale>>

\* The semaphore was released or its timeout is over.
Wake ==
    /\ Run("sleep")
    /\ sem = 1 \/ (thr.until # Forever /\ Reached(thr.until))
    /\ sem' = 0
    /\ Goto("check", {}, Forever)
    /\ UNCHANGED <<tick, timer, list, local, isr, stale>>

SoftBegin ==
    /\ Run("check")
    /\ Begin("soft")
    /\ Goto("callback", {Head(list["soft"]).t}, Forever)
    /\ UNCHANGED <<tick, sem, isr, stale>>

SoftEnd ==
    /\ Run("callback")
    /\ \E t \in thr.t : End("soft", t)
    /\ Goto("check", {}, Forever)
    /\ UNCHANGED <<tick, sem, isr, stale>>

SoftDone ==
    /\ Run("check") /\ ~Expired(list["soft"])
    /\ Goto("next", {}, Forever)
    /\ UNCHANGED <<tick, timer, list, local, sem, isr, stale>>

Interrupt == Tick \/ HardBegin \/ HardEnd \/ HardDone
TimerThread == GetNext \/ Delta \/ Take \/ Wake \/ SoftBegin \/ SoftEnd \/ SoftDone

Next == Interrupt \/ TimerThread \/ \E t \in Timers : Call(t)

Spec == Init /\ [][Next]_vars

-----------------------------------------------------------------------------
(* Properties.                                                             *)

Entry(T) == [t : T, timeout : 0 .. TickMax]

\* The variables of timer.c keep their types.
TypeOK ==
    /\ tick \in 0 .. TickMax /\ sem \in {0, 1}
    /\ timer \in [Timers -> [act : BOOLEAN, per : BOOLEAN, proc : BOOLEAN, init : 1 .. Half - 1]]
    /\ list["hard"] \in Seq(Entry(Hard)) /\ list["soft"] \in Seq(Entry(Soft))
    /\ local["hard"] \subseteq Hard /\ local["soft"] \subseteq Soft
    /\ isr.pc \in {"none", "check", "callback"} /\ isr.t \subseteq Hard
    /\ thr.pc \in {"next", "delta", "take", "sleep", "check", "callback"} /\ thr.t \subseteq Soft
    /\ thr.until \in 0 .. TickMax \union {Forever} /\ thr.slip \in 0 .. MaxLate
    /\ stale \subseteq Timers

Places(t) == {i \in DOMAIN list[Kind(t)] : list[Kind(t)][i].t = t}

\* Flags and lists agree: through starts, stops, changes and detachments
\* before, during and after callbacks, a timer is in its list exactly when it
\* is activated and its callback does not run, and there only once, so that
\* no timer is lost or runs twice.  (One timer is ACTIVATED in no list: a
\* periodic one made one-shot while its callback ran.)
ListExact ==
    /\ \A t \in Timers :
           /\ Cardinality(Places(t)) <= 1
           /\ Places(t) # {} => timer[t].act /\ ~timer[t].proc
           /\ timer[t].act /\ ~timer[t].proc => Places(t) # {} \/ t \in stale
    /\ local["hard"] \subseteq isr.t /\ local["soft"] \subseteq thr.t
    /\ \A k \in {"hard", "soft"} : \A t \in local[k] : timer[t].proc

\* Ticks left until a, at most MaxLate past counted as negative.
Left(a) == Minus(a + MaxLate, tick) - MaxLate

\* Both lists stay ordered by the time left although ticks wrap around, and
\* no timer in them is half the tick range away.
Ordered ==
    \A k \in {"hard", "soft"} : \A i, j \in DOMAIN list[k] :
        /\ i < j => Left(list[k][i].timeout) <= Left(list[k][j].timeout)
        /\ Left(list[k][i].timeout) < Half

\* Ticks the timer thread will wait from now on.
WaitLeft == IF thr.pc = "take" THEN thr.until ELSE Left(thr.until)

\* The timer thread sleeps past a soft timer by no more than the ticks that
\* came between the computing of its waiting time and the start of its own
\* timer (_timer_thread_entry, rt_sem_take): a timer started in any window of
\* the three steps has released the semaphore.
NotOverslept ==
    thr.pc \in {"delta", "take", "sleep"} /\ sem = 0 =>
        \A i \in DOMAIN list["soft"] :
            thr.until # Forever /\ WaitLeft <= Left(list["soft"][i].timeout) + thr.slip
=============================================================================
