--------------------------- MODULE RtMutexProofs ---------------------------
(***************************************************************************)
(* For any number of threads and mutexes, every priority and every limit   *)
(* of recursion: a mutex is owned by whoever holds it, the owner agrees    *)
(* with the taken lists, and the suspend lists agree with the threads,     *)
(* through hand-over, timeout, detachment and the end of threads; priority *)
(* inheritance reaches every owner.                                        *)
(***************************************************************************)
EXTENDS RtMutex, SeqLemmas

\* A detached mutex is out of every list.
DeadInv ==
  \A m \in Mutex : ~alive[m] =>
    /\ suspend_thread[m] = <<>>
    /\ \A t \in Thread : m \notin taken[t]

\* A thread in rt_mutex_take: blocked with no error so far; ready again as
\* the owner, its take not yet counted; or ready again with an error.
TakingInv ==
  \A t \in Thread :
    /\ taking[t] = NoMutex => pending[t] = NoMutex
    /\ pending[t] # NoMutex => pending[t] = taking[t] /\ owner[pending[t]] # t
    /\ stat[t] = "close" => taking[t] = NoMutex
    /\ stat[t] = "suspend" /\ taking[t] # NoMutex =>
         pending[t] = taking[t] /\ error[t] = "EOK"
    /\ stat[t] = "ready" /\ taking[t] # NoMutex /\ error[t] = "EOK" =>
         /\ pending[t] = NoMutex
         /\ alive[taking[t]] => owner[taking[t]] = t /\ hold[taking[t]] = 1
    /\ stat[t] = "ready" /\ taking[t] # NoMutex /\ error[t] # "EOK" => pending[t] = taking[t]
    /\ timer[t] => stat[t] = "suspend" /\ pending[t] # NoMutex

\* An owner that is alive and not on its way out of rt_mutex_take knows of
\* every hold.
GotInv ==
  \A t \in Thread, m \in Mutex :
    alive[m] /\ owner[m] = t /\ stat[t] # "close" /\ taking[t] # m => got[t][m] = hold[m]

\* The loop of _thread_update_priority is at a thread that waits for a mutex.
ChainInv == chain # NoThread => stat[chain] = "suspend" /\ pending[chain] # NoMutex

IInv ==
  /\ TypeOK /\ HolderOwns /\ TakenExact /\ QueueExact
  /\ DeadInv /\ TakingInv /\ GotInv /\ ChainInv

-----------------------------------------------------------------------------
(* Queues and priorities.                                                  *)

\* What rt_list_remove of a thread's node leaves in a queue.
LEMMA UnlinkMembers ==
  ASSUME NEW s \in Seq(Thread), NEW t, NoDup(s)
  PROVE  /\ Unlink(s, t) \in Seq(Thread) /\ NoDup(Unlink(s, t))
         /\ \A x : Member(Unlink(s, t), x) <=> (Member(s, x) /\ x # t)
<1>1. CASE Member(s, t)
  <2>1. Unlink(s, t) = RemoveAt(s, CHOOSE i \in DOMAIN s : s[i] = t)
    BY <1>1 DEF Unlink, In, Member
  <2>2. QED
    BY <1>1, <2>1, RemoveMember
<1>2. CASE ~Member(s, t)
  BY <1>2 DEF Unlink, In, Member
<1>3. QED BY <1>1, <1>2

\* rt_susp_list_enqueue finds a place.
LEMMA EnqueueAtExists ==
  ASSUME TypeOK, NEW s \in Seq(Thread), NEW t \in Thread
  PROVE  \E i \in 1..(Len(s) + 1) : EnqueueAt(s, t, i)
<1> DEFINE D == {i \in 1..Len(s) : cur[t] < cur[s[i]]}
<1>1. Len(s) \in Nat /\ D \subseteq 1..Len(s)
  OBVIOUS
<1>2. \E i \in 1..(Len(s) + 1) : /\ \A j \in 1..(i - 1) : j \notin D
                                 /\ i <= Len(s) => i \in D
  <2> HIDE DEF D
  <2>1. QED BY <1>1, FirstPlace
<1>3. PICK i \in 1..(Len(s) + 1) : /\ \A j \in 1..(i - 1) : j \notin D
                                   /\ i <= Len(s) => i \in D
  BY <1>2
<1>4. \A j \in 1..(i - 1) : ~(cur[t] < cur[s[j]])
  <2>1. \A j \in 1..(i - 1) : j \in 1..Len(s)
    BY <1>1, <1>3
  <2>2. QED BY <1>3, <2>1
<1>5. i <= Len(s) => cur[t] < cur[s[i]]
  BY <1>3
<1>6. QED
  BY <1>4, <1>5 DEF EnqueueAt

\* What rt_susp_list_enqueue of a thread that is in no queue adds to one.
LEMMA EnqueueMembers ==
  ASSUME TypeOK, NEW s \in Seq(Thread), NEW t \in Thread, NoDup(s), ~Member(s, t)
  PROVE  /\ Enqueue(s, t) \in Seq(Thread) /\ NoDup(Enqueue(s, t))
         /\ \A x : Member(Enqueue(s, t), x) <=> (Member(s, x) \/ x = t)
<1> DEFINE k == CHOOSE i \in 1..(Len(s) + 1) : EnqueueAt(s, t, i)
<1>1. k \in 1..(Len(s) + 1)
  BY EnqueueAtExists
<1>2. Enqueue(s, t) = InsertAt(s, k, t)
  BY DEF Enqueue
<1> HIDE DEF k
<1>3. QED
  BY <1>1, <1>2, InsertAtElements, InsertAtMembers

\* Putting a thread of the queue at its new place changes the order only.
LEMMA RequeueMembers ==
  ASSUME TypeOK, NEW s \in Seq(Thread), NEW t \in Thread, NoDup(s), Member(s, t)
  PROVE  LET r == Enqueue(Unlink(s, t), t)
         IN  /\ r \in Seq(Thread) /\ NoDup(r)
             /\ \A x : Member(r, x) <=> Member(s, x)
<1> DEFINE q == Unlink(s, t)
<1>1. /\ q \in Seq(Thread) /\ NoDup(q)
      /\ \A x : Member(q, x) <=> (Member(s, x) /\ x # t)
  BY UnlinkMembers
<1> HIDE DEF q
<1>2. /\ Enqueue(q, t) \in Seq(Thread) /\ NoDup(Enqueue(q, t))
      /\ \A x : Member(Enqueue(q, t), x) <=> (Member(q, x) \/ x = t)
  BY <1>1, EnqueueMembers
<1>3. QED
  BY <1>1, <1>2 DEF q

\* _mutex_update_priority returns a priority.
LEMMA UpdatePriorityType ==
  ASSUME TypeOK, NEW s \in Seq(Thread)
  PROVE  UpdatePriority(s) \in 0..NoPrio
<1>1. CASE s = <<>>
  BY <1>1 DEF UpdatePriority, NoPrio
<1>2. CASE s # <<>>
  <2>1. Head(s) \in Thread
    BY <1>2, HeadTailProperties
  <2>2. QED
    BY <1>2, <2>1 DEF UpdatePriority, NoPrio, TypeOK
<1>3. QED BY <1>1, <1>2

\* _thread_get_mutex_priority returns a priority of a thread.
LEMMA GetMutexPriorityType ==
  ASSUME NEW t \in Thread, NEW M \in SUBSET Mutex,
         NEW p \in [Mutex -> 0..NoPrio], NEW c \in [Mutex -> 0..NoPrio]
  PROVE  GetMutexPriority(t, M, p, c) \in 0..(NoPrio - 1)
<1> DEFINE S == {InitPrio[t]} \cup {p[m] : m \in M} \cup {c[m] : m \in M}
<1>1. InitPrio[t] \in 0..(NoPrio - 1)
  BY MutexAssumption
<1>2. S \subseteq Nat /\ InitPrio[t] \in S
  BY <1>1 DEF NoPrio
<1> HIDE DEF S
<1>3. Min(S) \in S /\ Min(S) <= InitPrio[t]
  BY <1>2, MinLeast
<1>4. Min(S) \in 0..(NoPrio - 1)
  <2>1. Min(S) \in Nat
    BY <1>2, <1>3
  <2>2. QED BY <1>1, <1>3, <2>1 DEF NoPrio
<1>5. QED
  BY <1>4 DEF GetMutexPriority, S

\* The step that starts or continues the loop of _thread_update_priority.
LEMMA BoostType ==
  ASSUME TypeOK, NEW o \in Thread, NEW p \in 0..(NoPrio - 1), Boost(o, p)
  PROVE  /\ cur' \in [Thread -> 0..(NoPrio - 1)]
         /\ chain' \in Thread \cup {NoThread}
         /\ chain' # NoThread => chain' = o /\ stat[o] = "suspend" /\ pending[o] # NoMutex
BY DEF TypeOK, Boost, Follow

-----------------------------------------------------------------------------
(* The queues as sets without duplicates.                                  *)

QueueInv ==
  \A m \in Mutex :
    /\ NoDup(suspend_thread[m])
    /\ \A t \in Thread :
         Member(suspend_thread[m], t) <=> stat[t] = "suspend" /\ pending[t] = m

\* QueueExact in terms of the lemmas about lists, before and after a step.
LEMMA QueueForm == (QueueExact <=> QueueInv) /\ (QueueExact' <=> QueueInv')
BY DEF QueueExact, QueueInv, NoDup, Member, In

\* A step that changes neither the queues nor who waits for what.
LEMMA SameWaiters ==
  ASSUME QueueExact, UNCHANGED suspend_thread,
         \A u \in Thread, m \in Mutex :
           (stat'[u] = "suspend" /\ pending'[u] = m) <=> (stat[u] = "suspend" /\ pending[u] = m)
  PROVE  QueueExact'
BY DEF QueueExact

\* A queue holds only threads; one with a member is not empty.
LEMMA QueueMembers ==
  ASSUME TypeOK, NEW m \in Mutex
  PROVE  /\ suspend_thread[m] \in Seq(Thread)
         /\ \A x : Member(suspend_thread[m], x) => x \in Thread /\ suspend_thread[m] # <<>>
BY DEF TypeOK, Member

\* The owner takes its mutex once more.
LEMMA TakeAgainInv ==
  ASSUME IInv, NEW t \in Thread, NEW m \in Mutex, TakeAgain(t, m)
  PROVE  IInv'
<1> USE MutexAssumption DEF IInv, TakeAgain, Running, Calls, mtxVars
<1>0. got[t][m] = hold[m] /\ hold[m] \in Nat /\ hold[m] + 1 \in 0..HoldMax
  <2>1. got[t][m] = hold[m]
    BY DEF GotInv
  <2>2. hold[m] \in 0..HoldMax
    BY DEF TypeOK
  <2>3. QED BY <2>1, <2>2
<1>a. /\ hold'[m] = hold[m] + 1 /\ got'[t][m] = hold[m] + 1
      /\ \A u \in Thread, n \in Mutex : u # t \/ n # m => got'[u][n] = got[u][n]
      /\ \A n \in Mutex : n # m => hold'[n] = hold[n]
  BY <1>0 DEF TypeOK
<1>1. TypeOK'
  <2>1. hold' \in [Mutex -> 0..HoldMax]
    BY <1>0 DEF TypeOK
  <2>2. got' \in [Thread -> [Mutex -> 0..HoldMax]]
    <3>1. [got[t] EXCEPT ![m] = got[t][m] + 1] \in [Mutex -> 0..HoldMax]
      BY <1>0 DEF TypeOK
    <3>2. got' = [got EXCEPT ![t] = [got[t] EXCEPT ![m] = got[t][m] + 1]]
      BY DEF TypeOK
    <3>3. QED BY <3>1, <3>2 DEF TypeOK
  <2>3. QED BY <2>1, <2>2 DEF TypeOK
<1>2. HolderOwns'
  BY <1>0, <1>a DEF HolderOwns
<1>3. TakenExact'
  BY <1>0, <1>a DEF TakenExact
<1>4. QueueExact'
  BY DEF QueueExact
<1>5. DeadInv'
  BY DEF TypeOK, DeadInv
<1>6. TakingInv'
  BY DEF TypeOK, TakingInv
<1>7. GotInv'
  <2>1. UNCHANGED <<alive, owner, stat, taking>> /\ owner[m] = t
    OBVIOUS
  <2> HIDE DEF TakeAgain
  <2>2. QED BY <1>0, <1>a, <2>1 DEF GotInv
<1>8. ChainInv'
  BY DEF TypeOK, ChainInv
<1>9. QED
  BY <1>1, <1>2, <1>3, <1>4, <1>5, <1>6, <1>7, <1>8

\* A free mutex is taken.
LEMMA TakeFreeInv ==
  ASSUME IInv, NEW t \in Thread, NEW m \in Mutex, TakeFree(t, m)
  PROVE  IInv'
<1> USE MutexAssumption DEF IInv, TakeFree, Running, Calls, mtxVars
<1>1. TypeOK'
  <2>1. got' \in [Thread -> [Mutex -> 0..HoldMax]]
    BY DEF TypeOK
  <2>2. cur' \in [Thread -> 0..(NoPrio - 1)] /\ priority' \in [Mutex -> 0..NoPrio]
    <3>1. (IF ceiling[m] < cur[t] THEN ceiling[m] ELSE cur[t]) \in 0..(NoPrio - 1)
      <4>1. ceiling[m] \in 0..NoPrio /\ cur[t] \in 0..(NoPrio - 1)
        BY DEF TypeOK
      <4>2. QED BY <4>1 DEF NoPrio
    <3>2. NoPrio \in 0..NoPrio
      BY DEF NoPrio
    <3>3. QED BY <3>1, <3>2 DEF TypeOK
  <2>3. hold' \in [Mutex -> 0..HoldMax] /\ owner' \in [Mutex -> Thread \cup {NoThread}]
    BY DEF TypeOK
  <2>4. taken' \in [Thread -> SUBSET Mutex]
    BY DEF TypeOK
  <2>5. QED BY <2>1, <2>2, <2>3, <2>4 DEF TypeOK
<1>e. /\ UNCHANGED <<alive, stat, taking>>
      /\ \A n \in Mutex : /\ owner'[n] = (IF n = m THEN t ELSE owner[n])
                          /\ hold'[n] = (IF n = m THEN 1 ELSE hold[n])
      /\ \A u \in Thread, n \in Mutex :
           got'[u][n] = IF u = t /\ n = m THEN 1 ELSE got[u][n]
  BY DEF TypeOK
<1>2. HolderOwns'
  <2>1. HolderOwns /\ alive[m] /\ owner[m] = NoThread /\ NoThread \notin Thread
    OBVIOUS
  <2> HIDE DEF TakeFree, IInv
  <2>2. QED BY <1>e, <2>1 DEF HolderOwns
<1>3. TakenExact'
  <2>1. \A n \in Mutex : owner'[n] = (IF n = m THEN t ELSE owner[n])
    BY DEF TypeOK
  <2>2. \A n \in Mutex : hold'[n] = (IF n = m THEN 1 ELSE hold[n])
    BY DEF TypeOK
  <2>3. \A u \in Thread, n \in Mutex :
          n \in taken'[u] <=> (n \in taken[u] \/ (n = m /\ u = t))
    BY DEF TypeOK
  <2>4. QED BY <2>1, <2>2, <2>3 DEF TakenExact
<1>4. QueueExact'
  BY DEF QueueExact
<1>5. DeadInv'
  BY DEF TypeOK, DeadInv
<1>6. TakingInv'
  BY DEF TypeOK, TakingInv
<1>7. GotInv'
  <2>1. GotInv
    OBVIOUS
  <2> HIDE DEF TakeFree, IInv
  <2>2. QED BY <1>e, <2>1 DEF GotInv
<1>8. ChainInv'
  BY DEF TypeOK, ChainInv
<1>9. QED
  BY <1>1, <1>2, <1>3, <1>4, <1>5, <1>6, <1>7, <1>8

\* The blocked take returns with the mutex.
LEMMA TakeSucceedsInv ==
  ASSUME IInv, NEW t \in Thread, TakeSucceeds(t)
  PROVE  IInv'
<1> USE MutexAssumption DEF IInv, TakeSucceeds, Running, Calls, mtxVars
<1>1. TypeOK'
  BY DEF TypeOK
<1>2. HolderOwns'
  <2>1. alive[taking[t]] => owner[taking[t]] = t /\ hold[taking[t]] = 1
    BY DEF TakingInv
  <2>2. \A u \in Thread, m \in Mutex :
          got'[u][m] = IF u = t /\ m = taking[t] THEN 1 ELSE got[u][m]
    BY DEF TypeOK
  <2>3. UNCHANGED <<alive, owner, hold>>
    OBVIOUS
  <2> HIDE DEF TakeSucceeds
  <2>4. QED BY <2>1, <2>2, <2>3 DEF HolderOwns
<1>3. TakenExact'
  BY DEF TypeOK, TakenExact
<1>4. QueueExact'
  BY DEF QueueExact
<1>5. DeadInv'
  BY DEF TypeOK, DeadInv
<1>6. TakingInv'
  BY DEF TypeOK, TakingInv
<1>7. GotInv'
  <2>1. alive[taking[t]] => owner[taking[t]] = t /\ hold[taking[t]] = 1
    BY DEF TakingInv
  <2>2. \A u \in Thread, m \in Mutex :
          got'[u][m] = IF u = t /\ m = taking[t] THEN 1 ELSE got[u][m]
    BY DEF TypeOK
  <2>3. /\ UNCHANGED <<alive, owner, hold, stat>>
        /\ \A u \in Thread : u # t => taking'[u] = taking[u]
    BY DEF TypeOK
  <2>4. GotInv
    OBVIOUS
  <2> HIDE DEF TakeSucceeds, IInv
  <2>5. QED BY <2>1, <2>2, <2>3, <2>4 DEF GotInv
<1>8. ChainInv'
  BY DEF TypeOK, ChainInv
<1>9. QED
  BY <1>1, <1>2, <1>3, <1>4, <1>5, <1>6, <1>7, <1>8

\* A thread blocks elsewhere.
LEMMA SleepInv ==
  ASSUME IInv, NEW t \in Thread, Sleep(t)
  PROVE  IInv'
<1> USE MutexAssumption DEF IInv, Sleep, Running, Calls, mtxVars
<1>1. TypeOK'
  BY DEF TypeOK
<1>2. HolderOwns'
  BY DEF TypeOK, HolderOwns, TakenExact, TakingInv, GotInv
<1>3. TakenExact'
  BY DEF TypeOK, TakenExact
<1>4. QueueExact'
  <2>1. pending[t] = NoMutex /\ pending' = pending /\ suspend_thread' = suspend_thread
    BY DEF TakingInv
  <2>2. \A u \in Thread : u # t => stat'[u] = stat[u]
    BY DEF TypeOK
  <2>3. \A u \in Thread, m \in Mutex :
          (stat'[u] = "suspend" /\ pending'[u] = m) <=> (stat[u] = "suspend" /\ pending[u] = m)
    BY <2>1, <2>2
  <2>4. QED BY <2>1, <2>3, SameWaiters
<1>5. DeadInv'
  BY DEF TypeOK, DeadInv
<1>6. TakingInv'
  BY DEF TypeOK, TakingInv
<1>7. GotInv'
  BY DEF TypeOK, GotInv, TakingInv, HolderOwns
<1>8. ChainInv'
  BY DEF TypeOK, ChainInv
<1>9. QED
  BY <1>1, <1>2, <1>3, <1>4, <1>5, <1>6, <1>7, <1>8

\* A thread is woken from elsewhere.
LEMMA WakeInv ==
  ASSUME IInv, NEW t \in Thread, Wake(t)
  PROVE  IInv'
<1> USE MutexAssumption DEF IInv, Wake, Running, Calls, mtxVars
<1>1. TypeOK'
  BY DEF TypeOK
<1>2. HolderOwns'
  BY DEF TypeOK, HolderOwns, TakenExact, TakingInv, GotInv
<1>3. TakenExact'
  BY DEF TypeOK, TakenExact
<1>4. QueueExact'
  <2>1. pending[t] = NoMutex /\ pending' = pending /\ suspend_thread' = suspend_thread
    BY DEF TakingInv
  <2>2. \A u \in Thread : u # t => stat'[u] = stat[u]
    BY DEF TypeOK
  <2>3. \A u \in Thread, m \in Mutex :
          (stat'[u] = "suspend" /\ pending'[u] = m) <=> (stat[u] = "suspend" /\ pending[u] = m)
    BY <2>1, <2>2
  <2>4. QED BY <2>1, <2>3, SameWaiters
<1>5. DeadInv'
  BY DEF TypeOK, DeadInv
<1>6. TakingInv'
  BY DEF TypeOK, TakingInv
<1>7. GotInv'
  BY DEF TypeOK, GotInv, TakingInv, HolderOwns
<1>8. ChainInv'
  BY DEF TypeOK, ChainInv
<1>9. QED
  BY <1>1, <1>2, <1>3, <1>4, <1>5, <1>6, <1>7, <1>8

\* A thread's entry function returns.
LEMMA EntryReturnsInv ==
  ASSUME IInv, NEW t \in Thread, EntryReturns(t)
  PROVE  IInv'
<1> USE MutexAssumption DEF IInv, EntryReturns, Running, Calls, mtxVars
<1>1. TypeOK'
  BY DEF TypeOK
<1>2. HolderOwns'
  BY DEF TypeOK, HolderOwns, TakenExact, TakingInv, GotInv
<1>3. TakenExact'
  BY DEF TypeOK, TakenExact
<1>4. QueueExact'
  <2>1. pending[t] = NoMutex /\ pending' = pending /\ suspend_thread' = suspend_thread
    BY DEF TakingInv
  <2>2. \A u \in Thread : u # t => stat'[u] = stat[u]
    BY DEF TypeOK
  <2>3. \A u \in Thread, m \in Mutex :
          (stat'[u] = "suspend" /\ pending'[u] = m) <=> (stat[u] = "suspend" /\ pending[u] = m)
    BY <2>1, <2>2
  <2>4. QED BY <2>1, <2>3, SameWaiters
<1>5. DeadInv'
  BY DEF TypeOK, DeadInv
<1>6. TakingInv'
  BY DEF TypeOK, TakingInv
<1>7. GotInv'
  BY DEF TypeOK, GotInv, TakingInv, HolderOwns
<1>8. ChainInv'
  BY DEF TypeOK, ChainInv
<1>9. QED
  BY <1>1, <1>2, <1>3, <1>4, <1>5, <1>6, <1>7, <1>8
\* A waiter that times out leaves its queue with an error.
LEMMA TimeoutInv ==
  ASSUME IInv, NEW t \in Thread, Timeout(t)
  PROVE  IInv'
<1> USE MutexAssumption DEF IInv, Timeout
<1>1. TypeOK'
  <2>1. timer' \in [Thread -> BOOLEAN]
    BY Zenon DEF TypeOK
  <2>2. suspend_thread' \in [Mutex -> Seq(Thread)]
    BY QueueForm, UnlinkMembers DEF QueueInv, TypeOK
  <2>3. QED BY <2>1, <2>2 DEF TypeOK
<1>2. HolderOwns'
  BY DEF HolderOwns
<1>3. TakenExact'
  <2>1. Unlink(<<>>, t) = <<>>
    BY DEF Unlink, In
  <2>2. QED BY <2>1 DEF TakenExact, TypeOK
<1>4. QueueExact'
  <2>1. ASSUME NEW m \in Mutex
        PROVE  /\ NoDup(suspend_thread'[m])
               /\ \A u \in Thread :
                    Member(suspend_thread'[m], u) <=> stat'[u] = "suspend" /\ pending'[u] = m
    <3>1. suspend_thread[m] \in Seq(Thread) /\ NoDup(suspend_thread[m])
      BY QueueForm DEF QueueInv, TypeOK
    <3>2. suspend_thread'[m] = Unlink(suspend_thread[m], t)
      OBVIOUS
    <3>3. /\ NoDup(suspend_thread'[m])
          /\ \A x : Member(suspend_thread'[m], x) <=> (Member(suspend_thread[m], x) /\ x # t)
      BY <3>1, <3>2, UnlinkMembers
    <3>4. QED BY <3>3, QueueForm DEF QueueInv, TypeOK
  <2>2. QED BY <2>1, QueueForm DEF QueueInv
<1>5. DeadInv'
  <2>1. Unlink(<<>>, t) = <<>>
    BY DEF Unlink, In
  <2>2. QED BY <2>1 DEF DeadInv, TypeOK
<1>6. TakingInv'
  BY DEF TakingInv, TypeOK
<1>7. GotInv'
  BY DEF GotInv, TakingInv, TypeOK
<1>8. ChainInv'
  BY DEF ChainInv, TypeOK
<1>9. QED
  BY <1>1, <1>2, <1>3, <1>4, <1>5, <1>6, <1>7, <1>8 DEF IInv

\* A thread is suspended on a mutex of another thread.
LEMMA WaitInv ==
  ASSUME IInv, NEW t \in Thread, NEW m \in Mutex, NEW timed \in BOOLEAN, Wait(t, m, timed)
  PROVE  IInv'
<1> USE MutexAssumption DEF IInv, Wait, Running, Calls
<1>a. /\ owner[m] \in Thread /\ owner[m] # t
      /\ \A n \in Mutex : ~Member(suspend_thread[n], t)
      /\ suspend_thread[m] \in Seq(Thread) /\ NoDup(suspend_thread[m])
  BY QueueForm DEF TypeOK, QueueInv
<1>b. /\ Enqueue(suspend_thread[m], t) \in Seq(Thread)
      /\ NoDup(Enqueue(suspend_thread[m], t))
      /\ \A x : Member(Enqueue(suspend_thread[m], t), x) <=>
                 (Member(suspend_thread[m], x) \/ x = t)
  BY <1>a, EnqueueMembers
<1>1. TypeOK'
  <2>1. timer' \in [Thread -> BOOLEAN]
    BY Zenon DEF TypeOK
  <2>2. suspend_thread' \in [Mutex -> Seq(Thread)]
    BY <1>b DEF TypeOK
  <2>3. cur' \in [Thread -> 0..(NoPrio - 1)] /\ chain' \in Thread \cup {NoThread}
    <3>1. CASE NoBoost
      BY <3>1 DEF NoBoost, TypeOK
    <3>2. CASE Boost(owner[m], cur[t])
      <4>1. cur[t] \in 0..(NoPrio - 1)
        BY DEF TypeOK
      <4>2. QED BY <1>a, <3>2, <4>1, BoostType
    <3>3. QED BY <3>1, <3>2
  <2>4. priority' \in [Mutex -> 0..NoPrio]
    <3>1. (IF cur[t] < priority[m] THEN cur[t] ELSE priority[m]) \in 0..NoPrio
      BY DEF TypeOK, NoPrio
    <3>2. QED BY <3>1 DEF TypeOK
  <2>5. QED BY <2>1, <2>2, <2>3, <2>4 DEF TypeOK
<1>2. HolderOwns'
  BY DEF HolderOwns
<1>3. TakenExact'
  <2>1. /\ UNCHANGED <<alive, owner, hold, taken>>
        /\ owner[m] # NoThread
        /\ \A n \in Mutex : n # m => suspend_thread'[n] = suspend_thread[n]
    BY DEF TypeOK
  <2>2. TakenExact
    OBVIOUS
  <2> HIDE DEF Wait, IInv
  <2>3. QED BY <2>1, <2>2 DEF TakenExact
<1>4. QueueExact'
  <2>1. ASSUME NEW n \in Mutex
        PROVE  /\ NoDup(suspend_thread'[n])
               /\ \A u \in Thread :
                    Member(suspend_thread'[n], u) <=> stat'[u] = "suspend" /\ pending'[u] = n
    <3>1. suspend_thread'[n] = IF n = m THEN Enqueue(suspend_thread[m], t) ELSE suspend_thread[n]
      BY DEF TypeOK
    <3>2. \A u \in Thread : /\ stat'[u] = IF u = t THEN "suspend" ELSE stat[u]
                            /\ pending'[u] = IF u = t THEN m ELSE pending[u]
      BY DEF TypeOK
    <3> HIDE DEF Wait
    <3>3. QED BY <1>a, <1>b, <3>1, <3>2, QueueForm DEF QueueInv
  <2>2. QED BY <2>1, QueueForm DEF QueueInv
<1>5. DeadInv'
  BY DEF DeadInv, TypeOK
<1>6. TakingInv'
  <2>1. \A u \in Thread :
          IF u = t
          THEN /\ stat'[u] = "suspend" /\ error'[u] = "EOK"
               /\ pending'[u] = m /\ taking'[u] = m
          ELSE /\ stat'[u] = stat[u] /\ error'[u] = error[u] /\ timer'[u] = timer[u]
               /\ pending'[u] = pending[u] /\ taking'[u] = taking[u]
    BY DEF TypeOK
  <2>2. UNCHANGED <<alive, owner, hold>>
    OBVIOUS
  <2> HIDE DEF Wait
  <2>3. QED BY <1>a, <2>1, <2>2 DEF TakingInv
<1>7. GotInv'
  <2>1. \A u \in Thread : u # t => taking'[u] = taking[u] /\ stat'[u] = stat[u]
    BY DEF TypeOK
  <2>2. UNCHANGED <<alive, owner, hold, got>>
    OBVIOUS
  <2>3. \A n \in Mutex : taking[t] # n /\ stat[t] # "close"
    OBVIOUS
  <2> HIDE DEF Wait
  <2>4. QED BY <2>1, <2>2, <2>3 DEF GotInv
<1>8. ChainInv'
  BY <1>a DEF ChainInv, TypeOK, Boost, NoBoost, Follow
<1>9. QED
  BY <1>1, <1>2, <1>3, <1>4, <1>5, <1>6, <1>7, <1>8 DEF IInv

\* A new ceiling may start the loop at the owner.
LEMMA SetPrioCeilingInv ==
  ASSUME IInv, NEW t \in Thread, NEW m \in Mutex, NEW c \in Ceilings, SetPrioCeiling(t, m, c)
  PROVE  IInv'
<1> USE MutexAssumption DEF IInv, SetPrioCeiling, Running, Calls
<1>1. TypeOK'
  <2>1. ceiling' \in [Mutex -> 0..NoPrio]
    <3>1. c \in 0..NoPrio
      BY DEF NoPrio
    <3>2. QED BY <3>1 DEF TypeOK
  <2>2. ASSUME owner[m] # NoThread
        PROVE  GetMutexPriority(owner[m], taken[owner[m]], priority, ceiling') \in 0..(NoPrio - 1)
    BY <2>1, <2>2, GetMutexPriorityType DEF TypeOK
  <2>3. cur' \in [Thread -> 0..(NoPrio - 1)] /\ chain' \in Thread \cup {NoThread}
    <3> DEFINE o == owner[m]
               p == GetMutexPriority(o, taken[o], priority, ceiling')
    <3>1. CASE NoBoost
      BY <3>1 DEF NoBoost, TypeOK
    <3>2. CASE o # NoThread /\ Boost(o, p)
      <4>1. o \in Thread /\ p \in 0..(NoPrio - 1)
        BY <2>2, <3>2 DEF TypeOK
      <4> HIDE DEF o, p
      <4>2. QED BY <3>2, <4>1, BoostType
    <3>3. QED BY <3>1, <3>2
  <2>4. QED BY <2>1, <2>3 DEF TypeOK
<1>2. HolderOwns'
  BY DEF HolderOwns
<1>3. TakenExact'
  BY DEF TakenExact
<1>4. QueueExact'
  BY DEF QueueExact
<1>5. DeadInv'
  BY DEF DeadInv
<1>6. TakingInv'
  BY DEF TakingInv
<1>7. GotInv'
  BY DEF GotInv
<1>8. ChainInv'
  BY DEF ChainInv, TypeOK, Boost, NoBoost, Follow
<1>9. QED
  BY <1>1, <1>2, <1>3, <1>4, <1>5, <1>6, <1>7, <1>8 DEF IInv

\* The blocked take returns without the mutex.
LEMMA TakeFailsInv ==
  ASSUME IInv, NEW t \in Thread, TakeFails(t)
  PROVE  IInv'
<1> USE MutexAssumption DEF IInv, TakeFails, Running, Calls
<1> DEFINE m == taking[t]
           o == owner[m]
<1>a. m \in Mutex /\ o \in Thread \cup {NoThread} /\ stat[t] = "ready" /\ chain = NoThread
  BY DEF TypeOK
<1>b. /\ priority' = [priority EXCEPT ![m] = UpdatePriority(suspend_thread[m])]
      /\ \/ o # NoThread /\ Boost(o, GetMutexPriority(o, taken[o], priority', ceiling))
         \/ NoBoost
  BY DEF LeaveQueue
<1>c. /\ pending' = [pending EXCEPT ![t] = NoMutex]
      /\ taking' = [taking EXCEPT ![t] = NoMutex]
      /\ error' = [error EXCEPT ![t] = "EOK"]
      /\ UNCHANGED <<alive, owner, hold, ceiling, suspend_thread, taken, stat, timer, got>>
  OBVIOUS
<1> HIDE DEF m, o, TakeFails
<1>d. priority' \in [Mutex -> 0..NoPrio]
  <2>1. suspend_thread[m] \in Seq(Thread)
    BY <1>a DEF TypeOK
  <2>2. QED BY <1>b, <2>1, UpdatePriorityType DEF TypeOK
<1>e. /\ cur' \in [Thread -> 0..(NoPrio - 1)]
      /\ chain' \in Thread \cup {NoThread}
      /\ chain' # NoThread => stat[chain'] = "suspend" /\ pending[chain'] # NoMutex
  <2>1. CASE NoBoost
    BY <1>a, <2>1 DEF NoBoost, TypeOK
  <2>2. CASE o # NoThread /\ Boost(o, GetMutexPriority(o, taken[o], priority', ceiling))
    <3>1. GetMutexPriority(o, taken[o], priority', ceiling) \in 0..(NoPrio - 1)
      BY <1>a, <1>d, <2>2, GetMutexPriorityType DEF TypeOK
    <3>2. QED BY <1>a, <2>2, <3>1, BoostType
  <2>3. QED BY <1>b, <2>1, <2>2
<1>1. TypeOK'
  BY <1>a, <1>c, <1>d, <1>e DEF TypeOK
<1>2. HolderOwns'
  BY <1>c DEF HolderOwns
<1>3. TakenExact'
  BY <1>c DEF TakenExact
<1>4. QueueExact'
  <2>1. \A u \in Thread : u # t => pending'[u] = pending[u]
    BY <1>c DEF TypeOK
  <2>2. \A u \in Thread, n \in Mutex :
          (stat'[u] = "suspend" /\ pending'[u] = n) <=> (stat[u] = "suspend" /\ pending[u] = n)
    BY <1>a, <1>c, <2>1
  <2>3. QED BY <1>c, <2>2, SameWaiters
<1>5. DeadInv'
  BY <1>c DEF DeadInv
<1>6. TakingInv'
  BY <1>a, <1>c DEF TakingInv, TypeOK
<1>7. GotInv'
  <2>1. owner[m] # t
    BY DEF TakingInv, m, TakeFails
  <2>2. QED BY <1>a, <1>c, <2>1 DEF GotInv, TypeOK, m
<1>8. ChainInv'
  BY <1>a, <1>c, <1>e DEF ChainInv, TypeOK
<1>9. QED
  BY <1>1, <1>2, <1>3, <1>4, <1>5, <1>6, <1>7, <1>8 DEF IInv

\* A mutex is detached: its waiters leave with an error, its owner loses it.
LEMMA MutexDetachInv ==
  ASSUME IInv, NEW t \in Thread, NEW m \in Mutex, MutexDetach(t, m)
  PROVE  IInv'
<1> DEFINE o == owner[m]
<1> USE MutexAssumption DEF IInv
<1>a. /\ alive[m] /\ chain = NoThread /\ stat[t] = "ready" /\ taking[t] = NoMutex
      /\ o \in Thread \cup {NoThread}
  BY DEF MutexDetach, Running, Calls, TypeOK
<1>b. /\ alive' = [alive EXCEPT ![m] = FALSE]
      /\ suspend_thread' = [suspend_thread EXCEPT ![m] = <<>>]
      /\ got' = [u \in Thread |-> [got[u] EXCEPT ![m] = 0]]
      /\ UNCHANGED <<owner, hold, priority, ceiling, pending, taking, chain>>
  BY DEF MutexDetach
<1>c. \A u \in Thread :
        IF stat[u] = "suspend" /\ pending[u] = m
        THEN stat'[u] = "ready" /\ error'[u] = "ERROR" /\ timer'[u] = FALSE
        ELSE stat'[u] = stat[u] /\ error'[u] = error[u] /\ timer'[u] = timer[u]
  BY DEF MutexDetach, QueueExact
<1>d. IF o = NoThread THEN UNCHANGED <<taken, cur>>
      ELSE /\ taken' = [taken EXCEPT ![o] = @ \ {m}]
           /\ cur' = [cur EXCEPT ![o] = PrioWithout(o, m)]
  BY DEF MutexDetach
<1>1. TypeOK'
  <2>1. /\ stat' \in [Thread -> {"ready", "suspend", "close"}]
        /\ error' \in [Thread -> {"EOK", "ERROR", "ETIMEOUT"}]
    BY DEF MutexDetach, TypeOK
  <2>2. timer' \in [Thread -> BOOLEAN]
    BY Zenon DEF MutexDetach, TypeOK
  <2>3. alive' \in [Mutex -> BOOLEAN]
    BY <1>b, Zenon DEF TypeOK
  <2>4. suspend_thread' \in [Mutex -> Seq(Thread)]
    BY <1>b DEF TypeOK
  <2>5. got' \in [Thread -> [Mutex -> 0..HoldMax]]
    BY <1>b DEF TypeOK
  <2>6. taken' \in [Thread -> SUBSET Mutex]
    <3>1. CASE o = NoThread
      BY <1>d, <3>1 DEF TypeOK
    <3>2. CASE o # NoThread
      <4>1. taken' = [taken EXCEPT ![o] = taken[o] \ {m}]
        BY <1>d, <3>2
      <4>2. QED BY <4>1 DEF TypeOK
    <3>3. QED BY <3>1, <3>2
  <2>7. cur' \in [Thread -> 0..(NoPrio - 1)]
    <3>1. CASE o = NoThread
      BY <1>d, <3>1 DEF TypeOK
    <3>2. CASE o # NoThread
      <4>1. o \in Thread /\ taken[o] \ {m} \in SUBSET Mutex
        BY <1>a, <3>2 DEF TypeOK
      <4>2. GetMutexPriority(o, taken[o] \ {m}, priority, ceiling) \in 0..(NoPrio - 1)
        BY <4>1, GetMutexPriorityType DEF TypeOK
      <4>3. PrioWithout(o, m) \in 0..(NoPrio - 1)
        BY <4>1, <4>2 DEF PrioWithout, TypeOK
      <4>4. QED BY <1>d, <3>2, <4>1, <4>3 DEF TypeOK
    <3>3. QED BY <3>1, <3>2
  <2>8. QED
    BY <1>b, <2>1, <2>2, <2>3, <2>4, <2>5, <2>6, <2>7 DEF TypeOK
<1> HIDE DEF o
<1>e. \A u \in Thread, n \in Mutex : n # m => (n \in taken'[u] <=> n \in taken[u])
  <2>1. CASE o = NoThread
    BY <1>d, <2>1
  <2>2. CASE o # NoThread
    <3>1. taken' = [taken EXCEPT ![o] = taken[o] \ {m}]
      BY <1>d, <2>2
    <3>2. QED BY <3>1 DEF TypeOK
  <2>3. QED BY <2>1, <2>2
<1>2. HolderOwns'
  <2>1. \A n \in Mutex : alive'[n] => n # m /\ alive[n]
    BY <1>b DEF TypeOK
  <2>2. \A u \in Thread, n \in Mutex : n # m => got'[u][n] = got[u][n]
    BY <1>b DEF TypeOK
  <2>3. QED BY <1>b, <2>1, <2>2 DEF HolderOwns
<1>3. TakenExact'
  <2>1. \A n \in Mutex : alive'[n] => n # m /\ alive[n]
    BY <1>b DEF TypeOK
  <2>2. \A n \in Mutex : n # m => suspend_thread'[n] = suspend_thread[n]
    BY <1>b DEF TypeOK
  <2>3. QED BY <1>b, <1>e, <2>1, <2>2 DEF TakenExact
<1>4. QueueExact'
  <2>1. /\ suspend_thread'[m] = <<>>
        /\ \A n \in Mutex : n # m => suspend_thread'[n] = suspend_thread[n]
    BY <1>b DEF TypeOK
  <2>2. NoDup(<<>>) /\ \A u : ~Member(<<>>, u)
    BY DEF NoDup, Member
  <2>3. QED BY <1>b, <1>c, <2>1, <2>2, QueueForm DEF QueueInv
<1>5. DeadInv'
  <2>1. /\ suspend_thread'[m] = <<>>
        /\ \A n \in Mutex : n # m => suspend_thread'[n] = suspend_thread[n]
        /\ \A n \in Mutex : n # m => alive'[n] = alive[n]
    BY <1>b DEF TypeOK
  <2>2. \A u \in Thread : m \notin taken'[u]
    BY <1>a, <1>d DEF TakenExact, TypeOK, o
  <2>3. QED BY <1>e, <2>1, <2>2 DEF DeadInv
<1>6. TakingInv'
  <2>1. \A n \in Mutex : alive'[n] => alive[n]
    BY <1>b DEF TypeOK
  <2>2. \A u \in Thread :
          /\ taking'[u] = NoMutex => pending'[u] = NoMutex
          /\ pending'[u] # NoMutex => pending'[u] = taking'[u] /\ owner'[pending'[u]] # u
    BY <1>b DEF TakingInv
  <2>3. \A u \in Thread :
          /\ stat'[u] = "close" => taking'[u] = NoMutex
          /\ stat'[u] = "suspend" /\ taking'[u] # NoMutex =>
               pending'[u] = taking'[u] /\ error'[u] = "EOK"
          /\ timer'[u] => stat'[u] = "suspend" /\ pending'[u] # NoMutex
    BY <1>b, <1>c DEF TakingInv
  <2>4. \A u \in Thread :
          stat'[u] = "ready" /\ taking'[u] # NoMutex =>
            IF error'[u] = "EOK"
            THEN /\ pending'[u] = NoMutex
                 /\ alive'[taking'[u]] => owner'[taking'[u]] = u /\ hold'[taking'[u]] = 1
            ELSE pending'[u] = taking'[u]
    <3>1. SUFFICES ASSUME NEW u \in Thread, stat'[u] = "ready", taking'[u] # NoMutex
                   PROVE  IF error'[u] = "EOK"
                          THEN /\ pending'[u] = NoMutex
                               /\ alive'[taking'[u]] =>
                                    owner'[taking'[u]] = u /\ hold'[taking'[u]] = 1
                          ELSE pending'[u] = taking'[u]
      OBVIOUS
    <3>2. CASE stat[u] = "suspend" /\ pending[u] = m
      BY <1>b, <1>c, <3>1, <3>2 DEF TakingInv
    <3>3. CASE ~(stat[u] = "suspend" /\ pending[u] = m)
      <4>1. stat[u] = "ready" /\ error'[u] = error[u] /\ taking[u] \in Mutex
        BY <1>b, <1>c, <3>1, <3>3 DEF TypeOK
      <4>2. QED BY <1>b, <2>1, <3>1, <4>1 DEF TakingInv
    <3>4. QED BY <3>2, <3>3
  <2>5. QED BY <2>2, <2>3, <2>4 DEF TakingInv
<1>7. GotInv'
  <2>1. \A n \in Mutex : alive'[n] => n # m /\ alive[n]
    BY <1>b DEF TypeOK
  <2>2. \A u \in Thread, n \in Mutex : n # m => got'[u][n] = got[u][n]
    BY <1>b DEF TypeOK
  <2>3. \A u \in Thread : stat'[u] # "close" => stat[u] # "close"
    BY <1>c
  <2>4. QED BY <1>b, <2>1, <2>2, <2>3 DEF GotInv
<1>8. ChainInv'
  BY <1>a, <1>b DEF ChainInv
<1>9. QED
  BY <1>1, <1>2, <1>3, <1>4, <1>5, <1>6, <1>7, <1>8 DEF IInv

\* A thread deletes another, which leaves its queue and its mutexes.
LEMMA ThreadDeleteInv ==
  ASSUME IInv, NEW t \in Thread, NEW v \in Thread, ThreadDelete(v, t)
  PROVE  IInv'
<1> DEFINE m == pending[t]
           o == owner[m]
<1> USE MutexAssumption DEF IInv
<1>a. /\ chain = NoThread /\ stat[t] # "close"
      /\ pending[t] \in Mutex \cup {NoMutex}
  BY DEF ThreadDelete, Running, Calls, TypeOK
<1>b. /\ stat' = [stat EXCEPT ![t] = "close"]
      /\ timer' = [timer EXCEPT ![t] = FALSE]
      /\ pending' = [pending EXCEPT ![t] = NoMutex]
      /\ taking' = [taking EXCEPT ![t] = NoMutex]
      /\ got' = [got EXCEPT ![t] = [n \in Mutex |-> 0]]
      /\ suspend_thread' = [n \in Mutex |-> Unlink(suspend_thread[n], t)]
      /\ UNCHANGED <<alive, owner, hold, ceiling, taken, error>>
  BY DEF ThreadDelete
<1>c. \/ NoBoost /\ UNCHANGED priority
      \/ /\ m # NoMutex
         /\ priority' = [priority EXCEPT ![m] = UpdatePriority(Unlink(suspend_thread[m], t))]
         /\ \/ o # NoThread /\ Boost(o, GetMutexPriority(o, taken[o], priority', ceiling))
            \/ NoBoost
  BY DEF ThreadDelete, LeaveQueue
<1> HIDE DEF m, o
<1>d. \A n \in Mutex :
        /\ suspend_thread[n] \in Seq(Thread) /\ NoDup(suspend_thread[n])
        /\ Unlink(suspend_thread[n], t) \in Seq(Thread)
        /\ NoDup(Unlink(suspend_thread[n], t))
        /\ \A x : Member(Unlink(suspend_thread[n], t), x) <=>
                   (Member(suspend_thread[n], x) /\ x # t)
  BY QueueForm, UnlinkMembers DEF QueueInv, TypeOK
<1>e. priority' \in [Mutex -> 0..NoPrio]
  <2>1. CASE UNCHANGED priority
    BY <2>1 DEF TypeOK
  <2>2. CASE /\ m # NoMutex
             /\ priority' = [priority EXCEPT ![m] = UpdatePriority(Unlink(suspend_thread[m], t))]
    <3>1. m \in Mutex
      BY <1>a, <2>2 DEF m
    <3>2. UpdatePriority(Unlink(suspend_thread[m], t)) \in 0..NoPrio
      BY <1>d, <3>1, UpdatePriorityType
    <3>3. QED BY <2>2, <3>1, <3>2 DEF TypeOK
  <2>3. QED BY <1>c, <2>1, <2>2
<1>f. /\ cur' \in [Thread -> 0..(NoPrio - 1)]
      /\ chain' \in Thread \cup {NoThread}
      /\ chain' # NoThread => chain' # t /\ stat[chain'] = "suspend" /\ pending[chain'] # NoMutex
  <2>1. CASE NoBoost
    BY <1>a, <2>1 DEF NoBoost, TypeOK
  <2>2. CASE m # NoMutex /\ o # NoThread /\ Boost(o, GetMutexPriority(o, taken[o], priority', ceiling))
    <3>1. m \in Mutex /\ o \in Thread /\ o # t
      BY <1>a, <2>2 DEF m, o, TypeOK, TakingInv
    <3>2. GetMutexPriority(o, taken[o], priority', ceiling) \in 0..(NoPrio - 1)
      BY <1>e, <3>1, GetMutexPriorityType DEF TypeOK
    <3>3. QED BY <2>2, <3>1, <3>2, BoostType
  <2>3. QED BY <1>c, <2>1, <2>2
<1>g. Unlink(<<>>, t) = <<>>
  BY DEF Unlink, In
<1>1. TypeOK'
  <2>1. timer' \in [Thread -> BOOLEAN]
    BY <1>b, Zenon DEF TypeOK
  <2>2. suspend_thread' \in [Mutex -> Seq(Thread)]
    BY <1>b, <1>d
  <2>3. got' \in [Thread -> [Mutex -> 0..HoldMax]]
    BY <1>b DEF TypeOK
  <2>4. QED BY <1>b, <1>e, <1>f, <2>1, <2>2, <2>3 DEF TypeOK
<1>2. HolderOwns'
  BY <1>b DEF HolderOwns, TypeOK
<1>3. TakenExact'
  BY <1>b, <1>g DEF TakenExact
<1>4. QueueExact'
  <2>1. \A n \in Mutex : suspend_thread'[n] = Unlink(suspend_thread[n], t)
    BY <1>b
  <2>2. \A u \in Thread : IF u = t THEN stat'[u] = "close"
                          ELSE stat'[u] = stat[u] /\ pending'[u] = pending[u]
    BY <1>b DEF TypeOK
  <2>3. ASSUME NEW n \in Mutex, NEW u \in Thread
        PROVE  Member(suspend_thread'[n], u) <=> stat'[u] = "suspend" /\ pending'[u] = n
    <3>1. Member(suspend_thread'[n], u) <=> (Member(suspend_thread[n], u) /\ u # t)
      BY <1>d, <2>1
    <3>2. Member(suspend_thread[n], u) <=> stat[u] = "suspend" /\ pending[u] = n
      BY QueueForm DEF QueueInv
    <3>3. QED BY <2>2, <3>1, <3>2
  <2>4. QED BY <1>d, <2>1, <2>3, QueueForm DEF QueueInv
<1>5. DeadInv'
  BY <1>b, <1>g DEF DeadInv
<1>6. TakingInv'
  BY <1>b DEF TakingInv, TypeOK
<1>7. GotInv'
  <2>1. \A u \in Thread : IF u = t THEN stat'[u] = "close"
                          ELSE stat'[u] = stat[u] /\ taking'[u] = taking[u] /\ got'[u] = got[u]
    BY <1>b DEF TypeOK
  <2>2. QED BY <1>b, <2>1 DEF GotInv
<1>8. ChainInv'
  BY <1>b, <1>f DEF ChainInv, TypeOK
<1>9. QED
  BY <1>1, <1>2, <1>3, <1>4, <1>5, <1>6, <1>7, <1>8 DEF IInv

\* One turn of the loop reorders a queue and recomputes priorities.
LEMMA ChainStepInv ==
  ASSUME IInv, ChainStep
  PROVE  IInv'
<1> DEFINE m == pending[chain]
           o == owner[m]
           q == Enqueue(Unlink(suspend_thread[m], chain), chain)
           p == GetMutexPriority(o, taken[o], priority', ceiling)
<1> USE MutexAssumption DEF IInv
<1>a. /\ chain # NoThread
      /\ suspend_thread' = [suspend_thread EXCEPT ![m] = q]
      /\ priority' = [priority EXCEPT ![m] = UpdatePriority(q)]
      /\ Boost(o, p) \/ (chain' = NoThread /\ UNCHANGED cur)
      /\ UNCHANGED <<alive, owner, hold, ceiling, taken, stat, error, pending, timer,
                     taking, got>>
  BY DEF ChainStep
<1> HIDE DEF m, o, q, p
<1>b. chain \in Thread /\ m \in Mutex /\ Member(suspend_thread[m], chain)
  BY <1>a, QueueForm DEF ChainInv, TypeOK, QueueInv, m
<1>c. suspend_thread[m] \in Seq(Thread) /\ NoDup(suspend_thread[m]) /\ suspend_thread[m] # <<>>
  BY <1>b, QueueForm, QueueMembers DEF QueueInv
<1>d. /\ q \in Seq(Thread) /\ NoDup(q)
      /\ \A x : Member(q, x) <=> Member(suspend_thread[m], x)
  BY <1>b, <1>c, RequeueMembers DEF q
<1>e. o \in Thread
  BY <1>b, <1>c DEF o, DeadInv, TakenExact, TypeOK
<1>f. priority' \in [Mutex -> 0..NoPrio]
  BY <1>a, <1>d, UpdatePriorityType DEF TypeOK
<1>g. /\ cur' \in [Thread -> 0..(NoPrio - 1)]
      /\ chain' \in Thread \cup {NoThread}
      /\ chain' # NoThread => stat[chain'] = "suspend" /\ pending[chain'] # NoMutex
  <2>1. CASE Boost(o, p)
    <3>1. p \in 0..(NoPrio - 1)
      BY <1>e, <1>f, GetMutexPriorityType DEF TypeOK, p
    <3>2. QED BY <1>e, <2>1, <3>1, BoostType
  <2>2. CASE chain' = NoThread /\ UNCHANGED cur
    BY <2>2 DEF TypeOK
  <2>3. QED BY <1>a, <2>1, <2>2
<1>h. /\ \A n \in Mutex : NoDup(suspend_thread'[n])
      /\ \A n \in Mutex, x \in Thread :
           Member(suspend_thread'[n], x) <=> Member(suspend_thread[n], x)
      /\ \A n \in Mutex : n # m => suspend_thread'[n] = suspend_thread[n]
  <2>1. \A n \in Mutex : suspend_thread'[n] = IF n = m THEN q ELSE suspend_thread[n]
    BY <1>a DEF TypeOK
  <2>2. QED BY <1>d, <2>1, QueueForm DEF QueueInv
<1>1. TypeOK'
  <2>1. suspend_thread' \in [Mutex -> Seq(Thread)]
    BY <1>a, <1>d DEF TypeOK
  <2>2. QED BY <1>a, <1>f, <1>g, <2>1 DEF TypeOK
<1>2. HolderOwns'
  BY <1>a DEF HolderOwns
<1>3. TakenExact'
  <2>1. \A n \in Mutex : alive[n] /\ owner[n] = NoThread => n # m
    BY <1>e DEF o, TypeOK
  <2>2. QED BY <1>a, <1>h, <2>1 DEF TakenExact
<1>4. QueueExact'
  BY <1>a, <1>h, QueueForm DEF QueueInv
<1>5. DeadInv'
  <2>1. alive[m]
    BY <1>b, <1>c DEF DeadInv
  <2>2. QED BY <1>a, <1>h, <2>1 DEF DeadInv
<1>6. TakingInv'
  BY <1>a DEF TakingInv
<1>7. GotInv'
  BY <1>a DEF GotInv
<1>8. ChainInv'
  BY <1>a, <1>g DEF ChainInv
<1>9. QED
  BY <1>1, <1>2, <1>3, <1>4, <1>5, <1>6, <1>7, <1>8 DEF IInv

-----------------------------------------------------------------------------
(* Release.                                                                *)

\* What giving up the mutexes of R means for each mutex and each thread: a
\* freed mutex goes to the first of its queue, which leaves the queue.
LEMMA GiveUpStep ==
  ASSUME IInv, NEW t \in Thread, NEW R \in SUBSET taken[t], GiveUp(t, R)
  PROVE  /\ \A m \in Mutex \ R : owner'[m] = owner[m] /\ hold'[m] = hold[m]
                                 /\ suspend_thread'[m] = suspend_thread[m]
         /\ \A m \in R : /\ m \in Mutex /\ alive[m] /\ owner[m] = t /\ hold[m] \in 1..HoldMax
         /\ \A m \in R : hold[m] # 1 =>
              /\ owner'[m] = t /\ hold'[m] = hold[m] - 1
              /\ suspend_thread'[m] = suspend_thread[m]
         /\ \A m \in R : hold[m] = 1 /\ suspend_thread[m] = <<>> =>
              /\ owner'[m] = NoThread /\ hold'[m] = 0
              /\ suspend_thread'[m] = <<>>
         /\ \A m \in R : hold[m] = 1 /\ suspend_thread[m] # <<>> =>
              /\ Head(suspend_thread[m]) \in Thread
              /\ Member(suspend_thread[m], Head(suspend_thread[m]))
              /\ owner'[m] = Head(suspend_thread[m]) /\ hold'[m] = 1
              /\ suspend_thread'[m] = Tail(suspend_thread[m])
         /\ \A u \in Thread, m \in Mutex :
              m \in taken'[u] <=> IF m \in Freed(R) THEN owner'[m] = u ELSE m \in taken[u]
<1> USE MutexAssumption
<1>1. R \subseteq Mutex
  BY DEF IInv, TypeOK
<1>2. ASSUME NEW m \in R
      PROVE  m \in Mutex /\ alive[m] /\ owner[m] = t /\ hold[m] \in 1..HoldMax
  <2>1. m \in Mutex /\ m \in taken[t]
    BY <1>1
  <2>2. alive[m]
    BY <2>1 DEF IInv, DeadInv
  <2>3. owner[m] = t
    BY <2>1, <2>2 DEF IInv, TakenExact
  <2>4. hold[m] # 0
    BY <2>1, <2>2, <2>3 DEF IInv, TakenExact
  <2>5. hold[m] \in 0..HoldMax
    BY <2>1 DEF IInv, TypeOK
  <2>6. QED BY <2>1, <2>2, <2>3, <2>4, <2>5
<1>3. \A m \in Mutex : m \in Freed(R) <=> m \in R /\ hold[m] = 1
  BY <1>1 DEF Freed
<1>4. \A m \in Mutex \ R : owner'[m] = owner[m] /\ hold'[m] = hold[m]
                           /\ suspend_thread'[m] = suspend_thread[m]
  BY <1>3 DEF GiveUp
<1>5. \A m \in R : hold[m] # 1 =>
        /\ owner'[m] = t /\ hold'[m] = hold[m] - 1
        /\ suspend_thread'[m] = suspend_thread[m]
  BY <1>2, <1>3 DEF GiveUp
<1>6. \A m \in R : hold[m] = 1 /\ suspend_thread[m] = <<>> =>
        /\ owner'[m] = NoThread /\ hold'[m] = 0
        /\ suspend_thread'[m] = <<>>
  BY <1>1, <1>3 DEF GiveUp
<1>7. ASSUME NEW m \in R, hold[m] = 1, suspend_thread[m] # <<>>
      PROVE  /\ Head(suspend_thread[m]) \in Thread
             /\ Member(suspend_thread[m], Head(suspend_thread[m]))
             /\ owner'[m] = Head(suspend_thread[m]) /\ hold'[m] = 1
             /\ suspend_thread'[m] = Tail(suspend_thread[m])
  <2>1. m \in Mutex /\ suspend_thread[m] \in Seq(Thread) /\ NoDup(suspend_thread[m])
    BY <1>1, QueueForm DEF IInv, QueueInv, TypeOK
  <2>2. Head(suspend_thread[m]) \in Thread /\ Member(suspend_thread[m], Head(suspend_thread[m]))
    BY <1>7, <2>1, TailMembers
  <2>3. Head(suspend_thread[m]) # NoThread
    BY <2>2
  <2>4. QED BY <1>3, <1>7, <2>1, <2>2, <2>3 DEF GiveUp
<1>8. ASSUME NEW u \in Thread, NEW m \in Mutex
      PROVE  m \in taken'[u] <=> IF m \in Freed(R) THEN owner'[m] = u ELSE m \in taken[u]
  <2>1. CASE m \notin Freed(R)
    BY <2>1 DEF GiveUp
  <2>2. CASE m \in Freed(R)
    <3>1. m \in taken[u] <=> u = t
      BY <1>2, <1>3, <2>2 DEF IInv, TakenExact
    <3>2. QED BY <2>2, <3>1 DEF GiveUp
  <2>3. QED BY <2>1, <2>2
<1>9. QED
  BY <1>2, <1>4, <1>5, <1>6, <1>7, <1>8

\* The common part of rt_mutex_release and of the end of the running thread,
\* which stays ready or is closed (x).
LEMMA GiveUpInv ==
  ASSUME IInv, NEW t \in Thread, NEW R \in SUBSET taken[t], Calls(t), GiveUp(t, R),
         cur' \in [Thread -> 0..(NoPrio - 1)],
         NEW x \in {"ready", "close"},
         stat' = [u \in Thread |-> IF u = t THEN x
                                   ELSE IF u \in NextOwners(R) THEN "ready" ELSE stat[u]],
         got' \in [Thread -> [Mutex -> 0..HoldMax]],
         \A u \in Thread \ {t} : got'[u] = got[u],
         \A m \in Mutex : got'[t][m] = IF x = "close" THEN 0
                                       ELSE IF m \in R THEN got[t][m] - 1 ELSE got[t][m],
         UNCHANGED <<alive, ceiling, error, taking, chain>>
  PROVE  IInv'
<1> USE MutexAssumption
<1> DEFINE Handed(m) == m \in R /\ hold[m] = 1 /\ suspend_thread[m] # <<>>
<1>a. /\ \A m \in Mutex \ R : owner'[m] = owner[m] /\ hold'[m] = hold[m]
                              /\ suspend_thread'[m] = suspend_thread[m]
      /\ \A m \in R : /\ m \in Mutex /\ alive[m] /\ owner[m] = t /\ hold[m] \in 1..HoldMax
      /\ \A m \in R : hold[m] # 1 =>
           /\ owner'[m] = t /\ hold'[m] = hold[m] - 1
           /\ suspend_thread'[m] = suspend_thread[m]
      /\ \A m \in R : hold[m] = 1 /\ suspend_thread[m] = <<>> =>
           /\ owner'[m] = NoThread /\ hold'[m] = 0
           /\ suspend_thread'[m] = <<>>
      /\ \A m \in R : hold[m] = 1 /\ suspend_thread[m] # <<>> =>
           /\ Head(suspend_thread[m]) \in Thread
           /\ Member(suspend_thread[m], Head(suspend_thread[m]))
           /\ owner'[m] = Head(suspend_thread[m]) /\ hold'[m] = 1
           /\ suspend_thread'[m] = Tail(suspend_thread[m])
      /\ \A u \in Thread, m \in Mutex :
           m \in taken'[u] <=> IF m \in Freed(R) THEN owner'[m] = u ELSE m \in taken[u]
  BY GiveUpStep
<1>b. /\ chain = NoThread /\ stat[t] = "ready" /\ taking[t] = NoMutex /\ pending[t] = NoMutex
      /\ ~timer[t]
  BY DEF IInv, Calls, Running, TakingInv
<1> DEFINE NextOwner(m, u) ==
             /\ u = Head(suspend_thread[m]) /\ m \in Mutex
             /\ u \in Thread /\ u # t /\ u \in NextOwners(R)
             /\ stat[u] = "suspend" /\ pending[u] = m /\ taking[u] = m /\ error[u] = "EOK"
             /\ owner'[m] = u /\ hold'[m] = 1
<1>c. ASSUME NEW m \in R, Handed(m)
      PROVE  NextOwner(m, Head(suspend_thread[m]))
  <2> DEFINE u == Head(suspend_thread[m])
  <2>1. m \in Mutex /\ u \in Thread /\ Member(suspend_thread[m], u) /\ owner'[m] = u /\ hold'[m] = 1
    BY <1>a, <1>c
  <2>2. u \in NextOwners(R)
    BY <1>c DEF NextOwners, Freed
  <2> HIDE DEF u
  <2>3. stat[u] = "suspend" /\ pending[u] = m
    BY <2>1, QueueForm DEF IInv, QueueInv
  <2>4. taking[u] = m /\ error[u] = "EOK" /\ u # t
    BY <1>b, <2>1, <2>3 DEF IInv, TakingInv
  <2>5. QED BY <2>1, <2>2, <2>3, <2>4 DEF u
<1>d. ASSUME NEW u \in NextOwners(R)
      PROVE  \E m \in R : Handed(m) /\ u = Head(suspend_thread[m])
  BY DEF NextOwners, Freed
<1>e. \A u \in NextOwners(R) :
        \E m \in R : Handed(m) /\ NextOwner(m, u)
  <2> HIDE DEF Handed, NextOwner
  <2>1. QED BY <1>c, <1>d
<1>f. /\ \A u \in Thread : u = t => stat'[u] = x
      /\ \A u \in Thread : u # t /\ u \in NextOwners(R) => stat'[u] = "ready"
      /\ \A u \in Thread : u # t /\ u \notin NextOwners(R) => stat'[u] = stat[u]
      /\ \A u \in Thread : u \in NextOwners(R) => pending'[u] = NoMutex /\ timer'[u] = FALSE
      /\ \A u \in Thread : u \notin NextOwners(R) =>
            pending'[u] = pending[u] /\ timer'[u] = timer[u]
  BY DEF GiveUp
<1>g. t \notin NextOwners(R)
  BY <1>e
<1>h. \A m \in Mutex :
        /\ suspend_thread'[m] \in Seq(Thread) /\ NoDup(suspend_thread'[m])
        /\ \A u : Member(suspend_thread'[m], u) <=>
                   /\ Member(suspend_thread[m], u)
                   /\ ~(Handed(m) /\ u = Head(suspend_thread[m]))
  <2>1. SUFFICES ASSUME NEW m \in Mutex
                 PROVE  /\ suspend_thread'[m] \in Seq(Thread) /\ NoDup(suspend_thread'[m])
                        /\ \A u : Member(suspend_thread'[m], u) <=>
                                   /\ Member(suspend_thread[m], u)
                                   /\ ~(Handed(m) /\ u = Head(suspend_thread[m]))
    OBVIOUS
  <2>2. suspend_thread[m] \in Seq(Thread) /\ NoDup(suspend_thread[m])
    BY QueueForm DEF IInv, QueueInv, TypeOK
  <2>3. CASE Handed(m)
    <3>1. suspend_thread'[m] = Tail(suspend_thread[m]) /\ suspend_thread[m] # <<>>
      BY <1>a, <2>3
    <3>2. QED BY <2>2, <2>3, <3>1, TailMembers
  <2>4. CASE ~Handed(m)
    <3>1. suspend_thread'[m] = suspend_thread[m]
      BY <1>a, <2>4
    <3>2. QED BY <2>2, <2>4, <3>1
  <2>5. QED BY <2>3, <2>4
<1>i. Freed(R) = {m \in R : hold[m] = 1} /\ R \subseteq Mutex
  BY <1>a DEF Freed
<1>1. TypeOK'
  <2>1. /\ stat' \in [Thread -> {"ready", "suspend", "close"}]
        /\ alive' \in [Mutex -> BOOLEAN] /\ ceiling' \in [Mutex -> 0..NoPrio]
        /\ error' \in [Thread -> {"EOK", "ERROR", "ETIMEOUT"}]
        /\ taking' \in [Thread -> Mutex \cup {NoMutex}] /\ chain' \in Thread \cup {NoThread}
    BY DEF IInv, TypeOK
  <2>2. owner' \in [Mutex -> Thread \cup {NoThread}]
    <3>1. \A m \in Mutex : owner'[m] \in Thread \cup {NoThread}
      <4>1. \A m \in Mutex : owner[m] \in Thread \cup {NoThread}
        BY DEF IInv, TypeOK
      <4>2. ASSUME NEW m \in R PROVE owner'[m] \in Thread \cup {NoThread}
        BY <1>a
      <4>3. QED BY <1>a, <4>1, <4>2
    <3>2. owner' = [m \in Mutex |-> owner'[m]]
      BY DEF GiveUp
    <3>3. QED BY <3>1, <3>2
  <2>3. hold' \in [Mutex -> 0..HoldMax]
    <3>1. \A m \in Mutex : hold'[m] \in 0..HoldMax
      <4>1. ASSUME NEW m \in Mutex PROVE hold'[m] \in 0..HoldMax
        <5>1. hold[m] \in 0..HoldMax
          BY DEF IInv, TypeOK
        <5>2. CASE m \notin R
          BY <1>a, <5>1, <5>2
        <5>3. CASE m \in R /\ hold[m] # 1
          <6>1. hold'[m] = hold[m] - 1 /\ hold[m] \in 1..HoldMax
            BY <1>a, <5>3
          <6>2. QED BY <6>1
        <5>4. CASE m \in R /\ hold[m] = 1
          <6>1. hold'[m] = 0 \/ hold'[m] = 1
            BY <1>a, <5>4
          <6>2. QED BY <6>1
        <5>5. QED BY <5>2, <5>3, <5>4
      <4>2. QED BY <4>1
    <3>2. hold' = [m \in Mutex |-> hold'[m]]
      BY DEF GiveUp
    <3>3. QED BY <3>1, <3>2
  <2>4. suspend_thread' \in [Mutex -> Seq(Thread)]
    <3>1. suspend_thread' = [m \in Mutex |-> suspend_thread'[m]]
      BY DEF GiveUp
    <3>2. QED BY <1>h, <3>1
  <2>5. priority' \in [Mutex -> 0..NoPrio]
    <3>1. /\ priority' = [m \in Mutex |-> priority'[m]]
          /\ \A m \in Mutex : priority'[m] =
               IF m \in Freed(R) THEN UpdatePriority(suspend_thread'[m]) ELSE priority[m]
      BY DEF GiveUp
    <3>2. ASSUME NEW m \in Mutex PROVE priority'[m] \in 0..NoPrio
      <4>1. UpdatePriority(suspend_thread'[m]) \in 0..NoPrio
        BY <1>h, UpdatePriorityType DEF IInv
      <4>2. priority[m] \in 0..NoPrio
        BY DEF IInv, TypeOK
      <4>3. QED BY <3>1, <4>1, <4>2
    <3>3. QED BY <3>1, <3>2
  <2>6. taken' \in [Thread -> SUBSET Mutex]
    <3>1. taken' = [u \in Thread |-> (IF u = t THEN taken[u] \ Freed(R) ELSE taken[u]) \cup
             {m \in Freed(R) : (IF suspend_thread[m] = <<>> THEN NoThread
                                ELSE Head(suspend_thread[m])) = u}]
      BY DEF GiveUp
    <3>2. Freed(R) \subseteq Mutex
      BY <1>i
    <3>3. taken \in [Thread -> SUBSET Mutex]
      BY DEF IInv, TypeOK
    <3>4. QED BY <3>1, <3>2, <3>3
  <2>7. pending' \in [Thread -> Mutex \cup {NoMutex}]
    BY DEF IInv, TypeOK, GiveUp
  <2>8. timer' \in [Thread -> BOOLEAN]
    BY Zenon DEF IInv, TypeOK, GiveUp
  <2>9. QED
    BY <2>1, <2>2, <2>3, <2>4, <2>5, <2>6, <2>7, <2>8 DEF TypeOK
<1>j. \A m \in R : got[t][m] = hold[m]
  BY <1>a, <1>b DEF IInv, GotInv
<1>k. /\ \A u \in Thread, m \in Mutex : got[u][m] \in Nat
      /\ \A u \in Thread, m \in Mutex : alive[m] /\ got[u][m] > 0 =>
           owner[m] = u /\ hold[m] = got[u][m]
  BY DEF IInv, TypeOK, HolderOwns
<1>2. HolderOwns'
  <2>1. SUFFICES ASSUME NEW u \in Thread, NEW m \in Mutex, alive[m], got'[u][m] > 0
                 PROVE  owner'[m] = u /\ hold'[m] = got'[u][m]
    BY DEF HolderOwns
  <2>2. CASE u # t
    <3>1. got'[u][m] = got[u][m]
      BY <2>2
    <3>2. owner[m] = u /\ hold[m] = got[u][m]
      BY <1>k, <2>1, <3>1
    <3>3. m \notin R
      BY <1>a, <2>2, <3>2
    <3>4. QED BY <1>a, <3>1, <3>2, <3>3
  <2>3. CASE u = t /\ m \notin R
    <3>1. got'[u][m] = got[u][m]
      BY <2>1, <2>3
    <3>2. QED BY <1>a, <1>k, <2>1, <2>3, <3>1
  <2>4. CASE u = t /\ m \in R
    <3>1. got'[t][m] = hold[m] - 1 /\ hold[m] # 1
      <4>1. x # "close" /\ hold[m] \in 1..HoldMax /\ got[t][m] = hold[m]
        BY <1>a, <1>j, <2>1, <2>4
      <4>2. got'[t][m] = got[t][m] - 1
        BY <2>4, <4>1
      <4>3. QED BY <2>1, <2>4, <4>1, <4>2
    <3>2. QED BY <1>a, <2>4, <3>1
  <2>5. QED BY <2>2, <2>3, <2>4
<1>3. TakenExact'
  <2>1. SUFFICES ASSUME NEW m \in Mutex, alive[m]
                 PROVE  /\ \A u \in Thread : owner'[m] = u <=> m \in taken'[u]
                        /\ owner'[m] = NoThread <=> hold'[m] = 0
                        /\ owner'[m] = NoThread => suspend_thread'[m] = <<>>
    BY DEF TakenExact
  <2>2. /\ \A u \in Thread : owner[m] = u <=> m \in taken[u]
        /\ owner[m] = NoThread <=> hold[m] = 0
        /\ owner[m] = NoThread => suspend_thread[m] = <<>>
    BY <2>1 DEF IInv, TakenExact
  <2>3. CASE m \notin R
    BY <1>a, <1>i, <2>2, <2>3
  <2>4. CASE m \in R /\ hold[m] # 1
    <3>1. hold[m] - 1 # 0 /\ t # NoThread
      BY <1>a, <2>4
    <3>2. QED BY <1>a, <1>i, <2>2, <2>4, <3>1
  <2>5. CASE m \in R /\ hold[m] = 1 /\ suspend_thread[m] = <<>>
    BY <1>a, <1>i, <2>5
  <2>6. CASE m \in R /\ hold[m] = 1 /\ suspend_thread[m] # <<>>
    <3>1. owner'[m] \in Thread /\ hold'[m] = 1 /\ owner'[m] # NoThread
      BY <1>c, <2>6
    <3>2. QED BY <1>a, <1>i, <2>6, <3>1
  <2>7. QED BY <2>3, <2>4, <2>5, <2>6
<1>4. QueueExact'
  <2>1. ASSUME NEW m \in Mutex, NEW u \in Thread
        PROVE  Member(suspend_thread'[m], u) <=> stat'[u] = "suspend" /\ pending'[u] = m
    <3>1. Member(suspend_thread[m], u) <=> stat[u] = "suspend" /\ pending[u] = m
      BY QueueForm DEF IInv, QueueInv
    <3>2. CASE u = t
      BY <1>b, <1>f, <1>h, <3>1, <3>2
    <3>3. CASE u # t /\ u \notin NextOwners(R)
      <4>1. ~(Handed(m) /\ u = Head(suspend_thread[m]))
        BY <1>c, <3>3
      <4>2. QED BY <1>f, <1>h, <3>1, <3>3, <4>1
    <3>4. CASE u # t /\ u \in NextOwners(R)
      <4>1. PICK n \in R : Handed(n) /\ u = Head(suspend_thread[n]) /\ pending[u] = n
        BY <1>e, <3>4
      <4>2. CASE n = m
        BY <1>f, <1>h, <3>4, <4>1, <4>2
      <4>3. CASE n # m
        BY <1>f, <1>h, <3>1, <3>4, <4>1, <4>3
      <4>4. QED BY <4>2, <4>3
    <3>5. QED BY <3>2, <3>3, <3>4
  <2>2. QED BY <1>h, <2>1, QueueForm DEF QueueInv
<1>5. DeadInv'
  BY <1>a, <1>i DEF IInv, DeadInv
<1>6. TakingInv'
  <2>1. SUFFICES ASSUME NEW u \in Thread
                 PROVE  /\ taking[u] = NoMutex => pending'[u] = NoMutex
                        /\ pending'[u] # NoMutex => pending'[u] = taking[u] /\ owner'[pending'[u]] # u
                        /\ stat'[u] = "close" => taking[u] = NoMutex
                        /\ stat'[u] = "suspend" /\ taking[u] # NoMutex =>
                             pending'[u] = taking[u] /\ error[u] = "EOK"
                        /\ stat'[u] = "ready" /\ taking[u] # NoMutex /\ error[u] = "EOK" =>
                             /\ pending'[u] = NoMutex
                             /\ alive[taking[u]] => owner'[taking[u]] = u /\ hold'[taking[u]] = 1
                        /\ stat'[u] = "ready" /\ taking[u] # NoMutex /\ error[u] # "EOK" =>
                             pending'[u] = taking[u]
                        /\ timer'[u] => stat'[u] = "suspend" /\ pending'[u] # NoMutex
    BY DEF TakingInv
  <2>2. CASE u = t
    BY <1>b, <1>f, <1>g, <2>2
  <2>3. CASE u # t /\ u \in NextOwners(R)
    BY <1>e, <1>f, <2>3
  <2>4. CASE u # t /\ u \notin NextOwners(R)
    <3>1. stat'[u] = stat[u] /\ pending'[u] = pending[u] /\ timer'[u] = timer[u]
      BY <1>f, <2>4
    <3>2. \A m \in Mutex : owner'[m] = u => owner[m] = u
      <4>1. ASSUME NEW m \in Mutex, owner'[m] = u PROVE owner[m] = u
        <5>1. ~Handed(m)
          BY <1>c, <2>4, <4>1
        <5>2. u # NoThread
          OBVIOUS
        <5>3. QED BY <1>a, <2>4, <4>1, <5>1, <5>2
      <4>2. QED BY <4>1
    <3>3. \A m \in Mutex : owner[m] = u => owner'[m] = u /\ hold'[m] = hold[m]
      BY <1>a, <2>4
    <3>4. pending[u] \in Mutex \cup {NoMutex} /\ taking[u] \in Mutex \cup {NoMutex}
      BY DEF IInv, TypeOK
    <3>5. QED BY <3>1, <3>2, <3>3, <3>4 DEF IInv, TakingInv
  <2>5. QED BY <2>2, <2>3, <2>4
<1>7. GotInv'
  <2>1. SUFFICES ASSUME NEW u \in Thread, NEW m \in Mutex, alive[m], owner'[m] = u,
                        stat'[u] # "close", taking[u] # m
                 PROVE  got'[u][m] = hold'[m]
    BY DEF GotInv
  <2>2. stat[u] # "close"
    BY <1>b, <1>e, <1>f, <2>1
  <2>3. CASE m \notin R
    <3>1. owner[m] = u /\ hold'[m] = hold[m]
      BY <1>a, <2>1, <2>3
    <3>2. got[u][m] = hold[m]
      BY <2>1, <2>2, <3>1 DEF IInv, GotInv
    <3>3. got'[u][m] = got[u][m]
      BY <1>f, <2>1, <2>3
    <3>4. QED BY <3>1, <3>2, <3>3
  <2>4. CASE m \in R /\ hold[m] # 1
    <3>1. u = t /\ hold'[m] = hold[m] - 1 /\ x # "close"
      BY <1>a, <1>f, <2>1, <2>4
    <3>2. QED BY <1>j, <2>4, <3>1
  <2>5. CASE m \in R /\ hold[m] = 1 /\ suspend_thread[m] = <<>>
    BY <1>a, <2>1, <2>5
  <2>6. CASE Handed(m)
    <3>1. NextOwner(m, Head(suspend_thread[m]))
      BY <1>c, <2>6
    <3>2. QED BY <2>1, <3>1
  <2>7. QED BY <2>3, <2>4, <2>5, <2>6
<1>8. ChainInv'
  BY <1>b DEF ChainInv
<1>9. QED
  BY <1>1, <1>2, <1>3, <1>4, <1>5, <1>6, <1>7, <1>8 DEF IInv

\* rt_mutex_release.
LEMMA ReleaseInv ==
  ASSUME IInv, NEW t \in Thread, NEW m \in Mutex, Release(t, m)
  PROVE  IInv'
<1> USE MutexAssumption
<1>1. /\ alive[m] /\ Calls(t) /\ owner[m] = t /\ GiveUp(t, {m})
      /\ stat[t] = "ready" /\ taking[t] = NoMutex
      /\ UNCHANGED <<alive, ceiling, error, taking, chain>>
  BY DEF Release, Calls, Running
<1>2. m \in taken[t] /\ hold[m] \in 1..HoldMax /\ got[t][m] = hold[m]
  <2>1. m \in taken[t] /\ hold[m] # 0
    BY <1>1 DEF IInv, TakenExact
  <2>2. got[t][m] = hold[m]
    BY <1>1 DEF IInv, GotInv
  <2>3. hold[m] \in 0..HoldMax
    BY DEF IInv, TypeOK
  <2>4. QED BY <2>1, <2>2, <2>3
<1>3. cur' \in [Thread -> 0..(NoPrio - 1)]
  <2>1. taken[t] \ {m} \in SUBSET Mutex
    BY DEF IInv, TypeOK
  <2>2. GetMutexPriority(t, taken[t] \ {m}, priority, ceiling) \in 0..(NoPrio - 1)
    BY <2>1, GetMutexPriorityType DEF IInv, TypeOK
  <2>3. PrioWithout(t, m) \in 0..(NoPrio - 1)
    BY <2>2 DEF PrioWithout, IInv, TypeOK
  <2>4. cur' = [cur EXCEPT ![t] = IF hold[m] = 1 THEN PrioWithout(t, m) ELSE cur[t]]
    BY DEF Release
  <2>5. QED BY <2>3, <2>4 DEF IInv, TypeOK
<1>4. t \notin NextOwners({m})
  <2>1. ASSUME t \in NextOwners({m}) PROVE FALSE
    <3>1. suspend_thread[m] # <<>> /\ t = Head(suspend_thread[m])
      BY <2>1 DEF NextOwners, Freed
    <3>2. suspend_thread[m] \in Seq(Thread) /\ NoDup(suspend_thread[m])
      BY QueueForm DEF IInv, QueueInv, TypeOK
    <3>3. Member(suspend_thread[m], t)
      BY <3>1, <3>2, TailMembers
    <3>4. QED BY <1>1, <3>3, QueueForm DEF IInv, QueueInv
  <2>2. QED BY <2>1
<1>5. stat' = [u \in Thread |-> IF u = t THEN "ready"
                                ELSE IF u \in NextOwners({m}) THEN "ready" ELSE stat[u]]
  BY <1>1, <1>4 DEF Release
<1>6. /\ got' \in [Thread -> [Mutex -> 0..HoldMax]]
      /\ \A u \in Thread \ {t} : got'[u] = got[u]
      /\ \A n \in Mutex : got'[t][n] = IF n \in {m} THEN got[t][n] - 1 ELSE got[t][n]
  <2>1. got' = [got EXCEPT ![t] = [got[t] EXCEPT ![m] = got[t][m] - 1]]
    BY DEF Release
  <2>2. [got[t] EXCEPT ![m] = got[t][m] - 1] \in [Mutex -> 0..HoldMax]
    BY <1>2 DEF IInv, TypeOK
  <2>3. QED BY <2>1, <2>2 DEF IInv, TypeOK
<1>7. {m} \in SUBSET taken[t]
  BY <1>2
<1>8. \A n \in Mutex : got'[t][n] = IF "ready" = "close" THEN 0
                                    ELSE IF n \in {m} THEN got[t][n] - 1 ELSE got[t][n]
  BY <1>6
<1>9. QED
  BY <1>1, <1>3, <1>5, <1>6, <1>7, <1>8, GiveUpInv

\* The running thread detaches itself.
LEMMA ThreadExitInv ==
  ASSUME IInv, NEW t \in Thread, ThreadExit(t)
  PROVE  IInv'
<1>1. /\ Calls(t) /\ GiveUp(t, taken[t])
      /\ UNCHANGED <<alive, ceiling, cur, error, taking, chain>>
      /\ stat' = [u \in Thread |-> IF u = t THEN "close"
                    ELSE IF u \in NextOwners(taken[t]) THEN "ready" ELSE stat[u]]
      /\ got' = [got EXCEPT ![t] = [m \in Mutex |-> 0]]
  BY DEF ThreadExit
<1>2. cur' \in [Thread -> 0..(NoPrio - 1)]
  BY <1>1 DEF IInv, TypeOK
<1>3. /\ got' \in [Thread -> [Mutex -> 0..HoldMax]]
      /\ \A u \in Thread \ {t} : got'[u] = got[u]
      /\ \A m \in Mutex : got'[t][m] = 0
  BY <1>1, MutexAssumption DEF IInv, TypeOK
<1>4. taken[t] \in SUBSET taken[t]
  OBVIOUS
<1>5. QED
  BY <1>1, <1>2, <1>3, <1>4, GiveUpInv

-----------------------------------------------------------------------------
(* The theorems.                                                           *)

\* Mutexes that nobody holds, and threads that hold nothing.
LEMMA InitInv == Init => IInv
<1> SUFFICES ASSUME Init PROVE IInv
  OBVIOUS
<1> USE MutexAssumption
<1>1. TypeOK
  <2>1. /\ alive \in [Mutex -> BOOLEAN] /\ timer \in [Thread -> BOOLEAN]
    BY Zenon DEF Init
  <2>2. /\ priority \in [Mutex -> 0..NoPrio] /\ ceiling \in [Mutex -> 0..NoPrio]
    BY DEF Init, NoPrio
  <2>3. QED BY <2>1, <2>2 DEF Init, TypeOK
<1>2. HolderOwns /\ TakenExact /\ DeadInv /\ TakingInv /\ GotInv /\ ChainInv
  BY DEF Init, HolderOwns, TakenExact, DeadInv, TakingInv, GotInv, ChainInv
<1>3. QueueExact
  BY DEF Init, QueueExact, In
<1>4. QED
  BY <1>1, <1>2, <1>3 DEF IInv

\* Every operation keeps IInv.
LEMMA NextInv == IInv /\ [Next]_vars => IInv'
<1> SUFFICES ASSUME IInv, [Next]_vars PROVE IInv'
  OBVIOUS
<1>1. CASE UNCHANGED vars
  BY <1>1 DEF vars, mtxVars, thrVars, IInv, TypeOK, HolderOwns, TakenExact, QueueExact,
              DeadInv, TakingInv, GotInv, ChainInv
<1>2. CASE ChainStep
  BY <1>2, ChainStepInv
<1>3. ASSUME NEW t \in Thread, NEW m \in Mutex,
             \/ TakeAgain(t, m) \/ TakeFree(t, m)
             \/ \E timed \in BOOLEAN : Wait(t, m, timed)
             \/ Release(t, m)
             \/ \E c \in Ceilings : SetPrioCeiling(t, m, c)
             \/ MutexDetach(t, m)
      PROVE  IInv'
  BY <1>3, TakeAgainInv, TakeFreeInv, WaitInv, ReleaseInv, SetPrioCeilingInv, MutexDetachInv
<1>4. ASSUME NEW t \in Thread,
             \/ TakeSucceeds(t) \/ TakeFails(t) \/ Timeout(t)
             \/ Sleep(t) \/ Wake(t)
             \/ ThreadExit(t) \/ EntryReturns(t)
             \/ \E u \in Thread : ThreadDelete(u, t)
      PROVE  IInv'
  BY <1>4, TakeSucceedsInv, TakeFailsInv, TimeoutInv, SleepInv, WakeInv, ThreadExitInv,
     EntryReturnsInv, ThreadDeleteInv
<1>5. QED
  BY <1>1, <1>2, <1>3, <1>4 DEF Next

\* The inductive invariant of the mutexes.
THEOREM MutexInvariant == Spec => []IInv
BY InitInv, NextInv, PTL DEF Spec

\* Every variable keeps its type; in particular no recursion of rt_mutex_take
\* and no release takes the hold count out of its range, and every priority
\* that the inheritance computes is one a thread can have.
THEOREM MutexTypeCorrect == Spec => []TypeOK
<1>1. IInv => TypeOK
  BY DEF IInv
<1>2. QED BY <1>1, MutexInvariant, PTL

\* Mutual exclusion: two threads never hold one mutex, and mutex->hold is the
\* number of takes its holder has not released.
THEOREM MutexHolderOwns == Spec => []HolderOwns
<1>1. IInv => HolderOwns
  BY DEF IInv
<1>2. QED BY <1>1, MutexInvariant, PTL

\* mutex->owner and the taken lists agree, and nobody waits for a free mutex.
THEOREM MutexTakenExact == Spec => []TakenExact
<1>1. IInv => TakenExact
  BY DEF IInv
<1>2. QED BY <1>1, MutexInvariant, PTL

\* The suspend lists and the threads' pending_object agree.
THEOREM MutexQueueExact == Spec => []QueueExact
<1>1. IInv => QueueExact
  BY DEF IInv
<1>2. QED BY <1>1, MutexInvariant, PTL

-----------------------------------------------------------------------------
(* Priority inheritance, for any chain of owners that wait for each other: *)
(* while no mutex is detached and no thread ends, every owner is at least  *)
(* as urgent as whoever waits for it, and every queue is in order.         *)

\* Every queue is sorted by current_priority, but for the thread that the loop
\* of _thread_update_priority is about to put at its new place.
SortInv == \A m \in Mutex : SortedBut(suspend_thread[m], cur, chain)

\* mutex->priority is at least as urgent as every waiter, but for that thread.
WaiterPrio ==
  \A m \in Mutex, u \in Thread :
    Member(suspend_thread[m], u) /\ u # chain => priority[m] <= cur[u]

\* An owner is at least as urgent as the priority of each of its mutexes,
\* even while the loop runs.
OwnerPrio == \A t \in Thread : \A m \in taken[t] : cur[t] <= priority[m]

PrioInv == Undisturbed => SortInv /\ WaiterPrio /\ OwnerPrio

-----------------------------------------------------------------------------
(* Sorted queues.                                                          *)

\* The order of a list depends on the keys of its members only.
LEMMA SameKeys ==
  ASSUME NEW s, NEW f, NEW g, NEW e, SortedBut(s, f, e),
         \A x : Member(s, x) /\ x # e => g[x] = f[x]
  PROVE  SortedBut(s, g, e)
BY DEF SortedBut, Member

\* A waiter that leaves a queue does not disturb the order of the others.
LEMMA UnlinkSorted ==
  ASSUME NEW s \in Seq(Thread), NEW t, NEW f, NEW e, SortedBut(s, f, e)
  PROVE  SortedBut(Unlink(s, t), f, e)
<1>1. CASE In(t, s)
  <2> DEFINE k == CHOOSE i \in DOMAIN s : s[i] = t
  <2>1. k \in 1..Len(s)
    BY <1>1 DEF In
  <2> HIDE DEF k
  <2>2. SortedBut(RemoveAt(s, k), f, e)
    BY <2>1, RemoveAtSorted
  <2>3. QED BY <1>1, <2>2 DEF Unlink, k
<1>2. CASE ~In(t, s)
  BY <1>2 DEF Unlink
<1>3. QED BY <1>1, <1>2

\* rt_susp_list_enqueue keeps a sorted queue sorted.
LEMMA EnqueueSorted ==
  ASSUME TypeOK, NEW s \in Seq(Thread), NEW t \in Thread, Sorted(s, cur)
  PROVE  Sorted(Enqueue(s, t), cur)
<1> DEFINE k == CHOOSE i \in 1..(Len(s) + 1) : EnqueueAt(s, t, i)
<1>1. k \in 1..(Len(s) + 1) /\ EnqueueAt(s, t, k)
  BY EnqueueAtExists
<1>2. Enqueue(s, t) = InsertAt(s, k, t)
  BY DEF Enqueue
<1> HIDE DEF k
<1>3. cur \in [Thread -> Int]
  BY DEF TypeOK
<1>4. \A j \in 1..(k - 1) : cur[s[j]] <= cur[t]
  <2>1. ASSUME NEW j \in 1..(k - 1) PROVE cur[s[j]] <= cur[t]
    <3>1. j \in 1..Len(s)
      BY <1>1
    <3>2. cur[s[j]] \in Int /\ cur[t] \in Int
      BY <1>3, <3>1
    <3>3. ~(cur[t] < cur[s[j]])
      BY <1>1 DEF EnqueueAt
    <3>4. QED BY <3>2, <3>3
  <2>2. QED BY <2>1
<1>5. k <= Len(s) => cur[t] <= cur[s[k]]
  <2>1. SUFFICES ASSUME k <= Len(s) PROVE cur[t] <= cur[s[k]]
    OBVIOUS
  <2>2. cur[s[k]] \in Int /\ cur[t] \in Int
    BY <1>1, <1>3, <2>1
  <2>3. QED BY <1>1, <2>1, <2>2 DEF EnqueueAt
<1>6. QED
  BY <1>1, <1>2, <1>3, <1>4, <1>5, InsertAtSorted

\* _mutex_update_priority of a sorted queue is the most urgent waiter's.
LEMMA UpdatePriorityLeast ==
  ASSUME TypeOK, NEW s \in Seq(Thread), Sorted(s, cur)
  PROVE  /\ \A u : Member(s, u) => UpdatePriority(s) <= cur[u]
         /\ \A b \in 0..NoPrio :
              (\A u \in Thread : Member(s, u) => b <= cur[u]) => b <= UpdatePriority(s)
<1>1. CASE s = <<>>
  <2>1. UpdatePriority(s) = NoPrio
    BY <1>1 DEF UpdatePriority
  <2>2. \A u : ~Member(s, u)
    BY <1>1 DEF Member
  <2>3. \A b \in 0..NoPrio : b <= NoPrio
    BY DEF NoPrio
  <2>4. QED BY <2>1, <2>2, <2>3
<1>2. CASE s # <<>>
  <2>1. /\ Len(s) \in Nat \ {0} /\ DOMAIN s = 1..Len(s)
        /\ Head(s) = s[1] /\ \A i \in 1..Len(s) : s[i] \in Thread
    BY <1>2, HeadTailProperties, EmptySeq, LenProperties
  <2>2. UpdatePriority(s) = cur[s[1]] /\ s[1] \in Thread /\ Member(s, s[1])
    BY <1>2, <2>1 DEF UpdatePriority, Member
  <2>3. ASSUME NEW i \in 1..Len(s) PROVE cur[s[1]] <= cur[s[i]]
    <3>1. CASE i = 1
      <4>1. cur[s[1]] \in Int
        BY <2>2 DEF TypeOK
      <4>2. QED BY <3>1, <4>1
    <3>2. CASE 1 < i
      BY <2>1, <3>2 DEF Sorted
    <3>3. QED BY <2>1, <3>1, <3>2
  <2>4. QED BY <2>1, <2>2, <2>3 DEF Member
<1>3. QED BY <1>1, <1>2

\* _thread_get_mutex_priority is at least as urgent as each mutex taken.
LEMMA GetMutexPriorityLeast ==
  ASSUME NEW t \in Thread, NEW M \in SUBSET Mutex, NEW n \in M,
         NEW p \in [Mutex -> 0..NoPrio], NEW c \in [Mutex -> 0..NoPrio]
  PROVE  GetMutexPriority(t, M, p, c) <= p[n]
<1> DEFINE S == {InitPrio[t]} \cup {p[m] : m \in M} \cup {c[m] : m \in M}
<1>1. InitPrio[t] \in 0..(NoPrio - 1)
  BY MutexAssumption
<1>2. S \subseteq Nat /\ p[n] \in S
  BY <1>1 DEF NoPrio
<1> HIDE DEF S
<1>3. Min(S) <= p[n]
  BY <1>2, MinLeast
<1>4. QED
  BY <1>3 DEF GetMutexPriority, S

\* Outside the loop every queue is sorted and every waiter counts.
LEMMA Settled ==
  ASSUME IInv, chain = NoThread, SortInv, WaiterPrio
  PROVE  /\ \A m \in Mutex : Sorted(suspend_thread[m], cur)
         /\ \A m \in Mutex, u \in Thread :
              Member(suspend_thread[m], u) => priority[m] <= cur[u]
<1>1. ASSUME NEW m \in Mutex PROVE Sorted(suspend_thread[m], cur)
  <2>1. ~Member(suspend_thread[m], NoThread)
    BY QueueMembers, MutexAssumption DEF IInv
  <2>2. SortedBut(suspend_thread[m], cur, NoThread)
    BY DEF SortInv
  <2>3. QED BY <2>1, <2>2, SortedWithout
<1>2. \A u \in Thread : u # NoThread
  BY MutexAssumption
<1>3. QED BY <1>1, <1>2 DEF WaiterPrio

\* A step that leaves the priorities of the waiters alone and ends outside the
\* loop.
LEMMA NoRaise ==
  ASSUME \A m \in Mutex : Sorted(suspend_thread'[m], cur),
         \A m \in Mutex, u \in Thread : Member(suspend_thread'[m], u) => priority'[m] <= cur[u],
         TypeOK',
         \A m \in Mutex, u \in Thread : Member(suspend_thread'[m], u) => cur'[u] = cur[u]
  PROVE  SortInv' /\ WaiterPrio'
<1>1. ASSUME NEW m \in Mutex PROVE SortedBut(suspend_thread'[m], cur', chain')
  <2>1. \A x : Member(suspend_thread'[m], x) => x \in Thread
    BY DEF TypeOK, Member
  <2>2. SortedBut(suspend_thread'[m], cur, chain')
    BY DEF Sorted, SortedBut
  <2>3. QED BY <2>1, <2>2, SameKeys
<1>2. QED BY <1>1 DEF SortInv, WaiterPrio

\* A step that gives o another priority: when o waits for a mutex, the loop of
\* _thread_update_priority is now at o.
LEMMA Raise ==
  ASSUME TypeOK, TypeOK',
         \A m \in Mutex : Sorted(suspend_thread'[m], cur),
         \A m \in Mutex, u \in Thread : Member(suspend_thread'[m], u) => priority'[m] <= cur[u],
         NEW o \in Thread, NEW p, Boost(o, p),
         \A m \in Mutex : Member(suspend_thread'[m], o) =>
           stat[o] = "suspend" /\ pending[o] # NoMutex
  PROVE  SortInv' /\ WaiterPrio'
<1>1. \A x \in Thread : x # o => cur'[x] = cur[x]
  BY DEF Boost, TypeOK
<1>2. ASSUME NEW m \in Mutex
      PROVE  /\ SortedBut(suspend_thread'[m], cur', chain')
             /\ \A u \in Thread : Member(suspend_thread'[m], u) /\ u # chain' => u # o
  <2>1. \A x : Member(suspend_thread'[m], x) => x \in Thread
    BY DEF TypeOK, Member
  <2>2. SortedBut(suspend_thread'[m], cur, chain')
    BY DEF Sorted, SortedBut
  <2>3. Member(suspend_thread'[m], o) => chain' = o
    BY DEF Boost, Follow
  <2>4. QED BY <1>1, <2>1, <2>2, <2>3, SameKeys
<1>3. QED BY <1>1, <1>2 DEF SortInv, WaiterPrio

-----------------------------------------------------------------------------
(* The operations.                                                         *)

\* Operations that touch neither queues nor priorities.
LEMMA QuietPrio ==
  ASSUME SortInv, WaiterPrio, OwnerPrio, UNCHANGED <<suspend_thread, priority, taken, cur, chain>>
  PROVE  SortInv' /\ WaiterPrio' /\ OwnerPrio'
BY DEF SortInv, WaiterPrio, OwnerPrio

\* The range of every priority.
LEMMA PrioRange ==
  ASSUME IInv
  PROVE  /\ priority \in [Mutex -> 0..NoPrio]
         /\ \A n \in Mutex : priority[n] \in 0..NoPrio /\ priority[n] \in Int
         /\ \A u \in Thread : cur[u] \in 0..NoPrio /\ cur[u] \in Int
<1>1. priority \in [Mutex -> 0..NoPrio] /\ cur \in [Thread -> 0..(NoPrio - 1)]
  BY DEF IInv, TypeOK
<1>2. 0..(NoPrio - 1) \subseteq 0..NoPrio /\ 0..NoPrio \subseteq Int
  BY DEF NoPrio
<1>3. QED BY <1>1, <1>2

\* A ceiling can only make a thread more urgent.
LEMMA MoreUrgent ==
  ASSUME NEW a \in 0..(NoPrio - 1), NEW b \in 0..NoPrio
  PROVE  /\ (IF b < a THEN b ELSE a) <= a
         /\ (IF b < a THEN b ELSE a) \in 0..NoPrio
         /\ a \in 0..NoPrio
BY DEF NoPrio

\* A free mutex: nobody waits for it, and the new owner only becomes more
\* urgent.
LEMMA TakeFreePrio ==
  ASSUME IInv, IInv', Undisturbed, SortInv, WaiterPrio, OwnerPrio, NEW t \in Thread, NEW m \in Mutex, TakeFree(t, m)
  PROVE  SortInv' /\ WaiterPrio' /\ OwnerPrio'
<1>1. /\ chain = NoThread /\ stat[t] = "ready" /\ suspend_thread[m] = <<>> /\ owner[m] = NoThread
      /\ UNCHANGED suspend_thread
      /\ t # NoThread
  BY MutexAssumption DEF TakeFree, Calls, Running, IInv, TakenExact
<1>2. /\ \A n \in Mutex : priority'[n] = IF n = m THEN NoPrio ELSE priority[n]
      /\ \A u \in Thread : u # t => cur'[u] = cur[u]
      /\ cur'[t] <= cur[t]
      /\ \A u \in Thread, n \in Mutex : n \in taken'[u] => n \in taken[u] \/ (u = t /\ n = m)
      /\ cur'[t] \in 0..NoPrio /\ cur[t] \in 0..NoPrio
  <2>1. cur[t] \in 0..(NoPrio - 1) /\ ceiling[m] \in 0..NoPrio
    BY DEF IInv, TypeOK
  <2>2. cur'[t] = IF ceiling[m] < cur[t] THEN ceiling[m] ELSE cur[t]
    BY DEF TakeFree, IInv, TypeOK
  <2>3. cur'[t] <= cur[t] /\ cur'[t] \in 0..NoPrio /\ cur[t] \in 0..NoPrio
    BY <2>1, <2>2, MoreUrgent
  <2>4. /\ \A n \in Mutex : priority'[n] = IF n = m THEN NoPrio ELSE priority[n]
        /\ \A u \in Thread : u # t => cur'[u] = cur[u]
        /\ \A u \in Thread, n \in Mutex : n \in taken'[u] => n \in taken[u] \/ (u = t /\ n = m)
    BY DEF TakeFree, IInv, TypeOK
  <2>5. QED BY <2>3, <2>4
<1>3. SortInv' /\ WaiterPrio'
  <2>1. \A n \in Mutex : Sorted(suspend_thread'[n], cur)
    BY <1>1, Settled
  <2>2. \A n \in Mutex, u \in Thread : Member(suspend_thread'[n], u) =>
          u # t /\ n # m /\ priority[n] <= cur[u]
    <3>1. \A u : ~Member(<<>>, u)
      BY DEF Member
    <3>2. \A n \in Mutex : ~Member(suspend_thread[n], t)
      BY <1>1, QueueForm DEF IInv, QueueInv
    <3>3. QED BY <1>1, <3>1, <3>2, Settled
  <2>3. \A n \in Mutex, u \in Thread : Member(suspend_thread'[n], u) =>
          priority'[n] <= cur[u] /\ cur'[u] = cur[u]
    BY <1>2, <2>2
  <2>4. QED BY <2>1, <2>3, NoRaise DEF IInv
<1>4. OwnerPrio'
  <2>1. SUFFICES ASSUME NEW u \in Thread, NEW n \in taken'[u] PROVE cur'[u] <= priority'[n]
    BY DEF OwnerPrio
  <2>2. n \in Mutex /\ priority[n] \in 0..NoPrio /\ cur[u] \in 0..NoPrio
    <3>1. taken' \in [Thread -> SUBSET Mutex]
      BY DEF IInv, TypeOK
    <3>2. n \in Mutex
      BY <3>1
    <3>3. QED BY <3>2, PrioRange
  <2>3. CASE u = t /\ n = m
    BY <1>2, <2>3 DEF NoPrio
  <2>4. CASE n \in taken[u] /\ u # t
    <3>1. n # m
      BY <1>1, <2>4, MutexAssumption DEF TakeFree, IInv, TakenExact
    <3>2. cur[u] <= priority[n]
      BY <2>4 DEF OwnerPrio
    <3>3. QED BY <1>2, <2>2, <2>4, <3>1, <3>2
  <2>5. CASE n \in taken[u] /\ u = t /\ n # m
    <3>1. cur[u] <= priority[n]
      BY <2>5 DEF OwnerPrio
    <3>2. cur'[u] <= cur[u] /\ cur'[u] \in Int /\ cur[u] \in Int /\ priority[n] \in Int
      BY <1>2, <2>2, <2>5
    <3>3. priority'[n] = priority[n]
      BY <1>2, <2>2, <2>5
    <3>4. QED BY <3>1, <3>2, <3>3
  <2>6. QED BY <1>2, <2>2, <2>3, <2>4, <2>5
<1>5. QED BY <1>3, <1>4

\* A waiter that times out leaves sorted queues behind.
LEMMA TimeoutPrio ==
  ASSUME IInv, IInv', Undisturbed, SortInv, WaiterPrio, OwnerPrio, NEW t \in Thread, Timeout(t)
  PROVE  SortInv' /\ WaiterPrio' /\ OwnerPrio'
<1>1. /\ chain = NoThread /\ UNCHANGED <<cur, priority, taken, chain>>
      /\ \A m \in Mutex : suspend_thread'[m] = Unlink(suspend_thread[m], t)
  BY DEF Timeout
<1>2. ASSUME NEW m \in Mutex
      PROVE  /\ SortedBut(suspend_thread'[m], cur, chain)
             /\ \A u : Member(suspend_thread'[m], u) => Member(suspend_thread[m], u)
  <2>1. suspend_thread[m] \in Seq(Thread) /\ NoDup(suspend_thread[m])
    BY QueueForm DEF IInv, QueueInv, TypeOK
  <2>2. QED BY <1>1, <2>1, UnlinkMembers, UnlinkSorted DEF SortInv
<1>3. QED BY <1>1, <1>2 DEF SortInv, WaiterPrio, OwnerPrio

\* A thread begins to wait: the owner is raised unless it is urgent enough.
LEMMA WaitPrio ==
  ASSUME IInv, IInv', Undisturbed, SortInv, WaiterPrio, OwnerPrio, NEW t \in Thread, NEW m \in Mutex, NEW timed \in BOOLEAN, Wait(t, m, timed)
  PROVE  SortInv' /\ WaiterPrio' /\ OwnerPrio'
<1> DEFINE o == owner[m]
<1>1. /\ alive[m] /\ chain = NoThread /\ stat[t] = "ready"
      /\ o \in Thread /\ o # t
      /\ UNCHANGED taken
  BY DEF Wait, Calls, Running, IInv, TypeOK
<1>2. /\ \A n \in Mutex : suspend_thread'[n] = IF n = m THEN Enqueue(suspend_thread[m], t)
                                               ELSE suspend_thread[n]
      /\ \A n \in Mutex : priority'[n] = IF n = m /\ cur[t] < priority[m] THEN cur[t]
                                         ELSE priority[n]
      /\ IF cur[t] < priority[m] /\ cur[t] < cur[o] THEN Boost(o, cur[t]) ELSE NoBoost
  BY DEF Wait, IInv, TypeOK
<1>3. /\ \A n \in Mutex : priority[n] \in Int
      /\ \A u \in Thread : cur[u] \in Int
  BY PrioRange
<1> HIDE DEF o
<1>4. /\ suspend_thread[m] \in Seq(Thread) /\ NoDup(suspend_thread[m])
      /\ ~Member(suspend_thread[m], t)
  BY <1>1, QueueForm DEF IInv, QueueInv, TypeOK
<1>5. /\ \A n \in Mutex : Sorted(suspend_thread[n], cur)
      /\ \A n \in Mutex, u \in Thread : Member(suspend_thread[n], u) => priority[n] <= cur[u]
  BY <1>1, Settled
<1>6. \A n \in Mutex : Sorted(suspend_thread'[n], cur)
  BY <1>2, <1>4, <1>5, EnqueueSorted DEF IInv
<1>7. ASSUME NEW n \in Mutex, NEW u \in Thread, Member(suspend_thread'[n], u)
      PROVE  /\ priority'[n] <= cur[u]
             /\ u # t => Member(suspend_thread[n], u)
  <2>1. CASE n = m
    <3>1. Member(suspend_thread[m], u) \/ u = t
      BY <1>2, <1>4, <1>7, <2>1, EnqueueMembers DEF IInv
    <3>2. QED BY <1>2, <1>3, <1>5, <2>1, <3>1
  <2>2. CASE n # m
    BY <1>2, <1>5, <1>7, <2>2
  <2>3. QED BY <2>1, <2>2
<1>8. SortInv' /\ WaiterPrio'
  <2>1. CASE NoBoost
    <3>1. cur' = cur
      BY <2>1 DEF NoBoost
    <3>2. QED BY <1>6, <1>7, <3>1, NoRaise DEF IInv
  <2>2. CASE Boost(o, cur[t])
    <3>1. \A n \in Mutex : Member(suspend_thread'[n], o) =>
            stat[o] = "suspend" /\ pending[o] # NoMutex
      <4>1. ASSUME NEW n \in Mutex, Member(suspend_thread'[n], o)
            PROVE  stat[o] = "suspend" /\ pending[o] # NoMutex
        <5>1. Member(suspend_thread[n], o)
          BY <1>1, <1>7, <4>1
        <5>2. QED BY <1>1, <5>1, QueueForm, MutexAssumption DEF IInv, QueueInv
      <4>2. QED BY <4>1
    <3>2. QED BY <1>1, <1>6, <1>7, <2>2, <3>1, Raise DEF IInv
  <2>3. QED BY <1>2, <2>1, <2>2
<1>9. OwnerPrio'
  <2>1. SUFFICES ASSUME NEW u \in Thread, NEW n \in taken[u] PROVE cur'[u] <= priority'[n]
    BY <1>1 DEF OwnerPrio
  <2>2. n \in Mutex /\ cur[u] <= priority[n] /\ (n = m => u = o)
    BY <1>1 DEF IInv, TypeOK, OwnerPrio, TakenExact, o
  <2>3. CASE cur[t] < priority[m] /\ cur[t] < cur[o]
    <3>1. \A v \in Thread : cur'[v] = IF v = o THEN cur[t] ELSE cur[v]
      BY <1>2, <2>3 DEF Boost, IInv, TypeOK
    <3>2. QED BY <1>1, <1>2, <1>3, <2>2, <2>3, <3>1
  <2>4. CASE ~(cur[t] < priority[m] /\ cur[t] < cur[o])
    <3>1. cur' = cur
      BY <1>2, <2>4 DEF NoBoost
    <3>2. QED BY <1>1, <1>2, <1>3, <2>2, <2>4, <3>1
  <2>5. QED BY <2>3, <2>4
<1>10. QED BY <1>8, <1>9

\* A new ceiling: the owner's priority is computed afresh from its mutexes.
LEMMA SetPrioCeilingPrio ==
  ASSUME IInv, IInv', Undisturbed, SortInv, WaiterPrio, OwnerPrio,
         NEW t \in Thread, NEW m \in Mutex, NEW c \in Ceilings, SetPrioCeiling(t, m, c)
  PROVE  SortInv' /\ WaiterPrio' /\ OwnerPrio'
<1> DEFINE o == owner[m]
           p == GetMutexPriority(o, taken[o], priority, ceiling')
<1>1. /\ chain = NoThread
      /\ UNCHANGED <<suspend_thread, priority, taken>>
      /\ (o # NoThread /\ Boost(o, p)) \/ NoBoost
  BY DEF SetPrioCeiling, Calls, Running
<1>2. CASE NoBoost
  BY <1>1, <1>2, QuietPrio DEF NoBoost
<1>3. CASE o # NoThread /\ Boost(o, p)
  <2>1. /\ o \in Thread /\ ceiling' \in [Mutex -> 0..NoPrio]
        /\ priority \in [Mutex -> 0..NoPrio] /\ taken[o] \in SUBSET Mutex
    <3>1. owner[m] \in Thread
      BY <1>3 DEF IInv, TypeOK
    <3>2. taken[owner[m]] \in SUBSET Mutex
      BY <3>1 DEF IInv, TypeOK
    <3>3. ceiling' \in [Mutex -> 0..NoPrio] /\ priority \in [Mutex -> 0..NoPrio]
      BY DEF IInv, TypeOK
    <3>4. QED BY <3>1, <3>2, <3>3
  <2>2. \A n \in taken[o] : p <= priority[n]
    BY <2>1, GetMutexPriorityLeast
  <2> HIDE DEF o, p
  <2>3. \A v \in Thread : cur'[v] = IF v = o THEN p ELSE cur[v]
    BY <1>3, <2>1 DEF Boost, IInv, TypeOK
  <2>4. OwnerPrio'
    BY <1>1, <2>2, <2>3 DEF OwnerPrio
  <2>5. \A n \in Mutex : Member(suspend_thread'[n], o) => stat[o] = "suspend" /\ pending[o] # NoMutex
    BY <1>1, <2>1, QueueForm, MutexAssumption DEF IInv, QueueInv
  <2>6. /\ \A n \in Mutex : Sorted(suspend_thread'[n], cur)
        /\ \A n \in Mutex, u \in Thread : Member(suspend_thread'[n], u) => priority'[n] <= cur[u]
    BY <1>1, Settled
  <2>7. SortInv' /\ WaiterPrio'
    BY <1>3, <2>1, <2>5, <2>6, Raise DEF IInv
  <2>8. QED BY <2>4, <2>7
<1>4. QED BY <1>1, <1>2, <1>3

\* A failed take: the mutex has the priority of those who still wait, and its
\* owner keeps a priority that is at least as urgent.
LEMMA TakeFailsPrio ==
  ASSUME IInv, IInv', Undisturbed, SortInv, WaiterPrio, OwnerPrio, NEW t \in Thread, TakeFails(t)
  PROVE  SortInv' /\ WaiterPrio' /\ OwnerPrio'
<1> DEFINE m == taking[t]
           o == owner[m]
           p == GetMutexPriority(o, taken[o], priority', ceiling)
<1>1. /\ chain = NoThread /\ m \in Mutex /\ alive[m]
      /\ UNCHANGED <<suspend_thread, taken>>
  BY DEF TakeFails, Running, IInv, TypeOK, Undisturbed
<1>2. /\ priority' = [priority EXCEPT ![m] = UpdatePriority(suspend_thread[m])]
      /\ (o # NoThread /\ Boost(o, p)) \/ NoBoost
  BY DEF TakeFails, LeaveQueue
<1>3. /\ \A n \in Mutex : Sorted(suspend_thread[n], cur)
      /\ \A n \in Mutex, u \in Thread : Member(suspend_thread[n], u) => priority[n] <= cur[u]
  BY <1>1, Settled
<1>4. /\ suspend_thread[m] \in Seq(Thread)
      /\ priority \in [Mutex -> 0..NoPrio] /\ priority' \in [Mutex -> 0..NoPrio]
      /\ \A u \in Thread : cur[u] \in 0..NoPrio
  <2>1. suspend_thread[m] \in Seq(Thread)
    BY <1>1 DEF IInv, TypeOK
  <2>2. priority' \in [Mutex -> 0..NoPrio]
    BY DEF IInv, TypeOK
  <2>3. QED BY <2>1, <2>2, PrioRange
<1> HIDE DEF m, o, p
<1>5. \A n \in Mutex : priority'[n] = IF n = m THEN UpdatePriority(suspend_thread[m]) ELSE priority[n]
  BY <1>1, <1>2, <1>4
<1>6. /\ \A u : Member(suspend_thread[m], u) => UpdatePriority(suspend_thread[m]) <= cur[u]
      /\ \A b \in 0..NoPrio : (\A u \in Thread : Member(suspend_thread[m], u) => b <= cur[u])
                                => b <= UpdatePriority(suspend_thread[m])
  BY <1>1, <1>3, <1>4, UpdatePriorityLeast DEF IInv
<1>7. /\ \A n \in Mutex : Sorted(suspend_thread'[n], cur)
      /\ \A n \in Mutex, u \in Thread : Member(suspend_thread'[n], u) => priority'[n] <= cur[u]
  BY <1>1, <1>3, <1>5, <1>6
<1>8. CASE NoBoost
  <2>1. cur' = cur
    BY <1>8 DEF NoBoost
  <2>2. SortInv' /\ WaiterPrio'
    BY <1>7, <2>1, NoRaise DEF IInv
  <2>3. ASSUME NEW u \in Thread, NEW n \in taken[u] PROVE cur[u] <= priority'[n]
    <3>1. n \in Mutex /\ cur[u] <= priority[n]
      BY DEF IInv, TypeOK, OwnerPrio
    <3>2. CASE n # m
      BY <1>5, <3>1, <3>2
    <3>3. CASE n = m
      <4>1. ASSUME NEW w \in Thread, Member(suspend_thread[m], w) PROVE cur[u] <= cur[w]
        <5>1. priority[m] <= cur[w]
          BY <1>1, <1>3, <4>1
        <5>2. cur[u] \in Int /\ cur[w] \in Int /\ priority[m] \in Int
          BY <1>1, <1>4
        <5>3. QED BY <3>1, <3>3, <5>1, <5>2
      <4>2. cur[u] <= UpdatePriority(suspend_thread[m])
        BY <1>4, <1>6, <4>1
      <4>3. QED BY <1>5, <3>1, <3>3, <4>2
    <3>4. QED BY <3>2, <3>3
  <2>4. OwnerPrio'
    BY <1>1, <2>1, <2>3 DEF OwnerPrio
  <2>5. QED BY <2>2, <2>4
<1>9. CASE o # NoThread /\ Boost(o, p)
  <2>1. o \in Thread /\ taken[o] \in SUBSET Mutex /\ ceiling \in [Mutex -> 0..NoPrio]
    BY <1>1, <1>9 DEF IInv, TypeOK, o
  <2>2. \A n \in taken[o] : p <= priority'[n]
    BY <1>4, <2>1, GetMutexPriorityLeast DEF p
  <2>3. \A v \in Thread : cur'[v] = IF v = o THEN p ELSE cur[v]
    BY <1>9, <2>1 DEF Boost, IInv, TypeOK
  <2>4. \A n \in Mutex : Member(suspend_thread'[n], o) => stat[o] = "suspend" /\ pending[o] # NoMutex
    BY <1>1, <2>1, QueueForm, MutexAssumption DEF IInv, QueueInv
  <2>5. SortInv' /\ WaiterPrio'
    BY <1>7, <1>9, <2>1, <2>4, Raise DEF IInv
  <2>6. ASSUME NEW u \in Thread, NEW n \in taken[u] PROVE cur'[u] <= priority'[n]
    <3>1. CASE u = o
      BY <2>2, <2>3, <3>1
    <3>2. CASE u # o
      <4>1. n \in Mutex /\ n # m /\ cur[u] <= priority[n]
        BY <1>1, <3>2 DEF IInv, TypeOK, TakenExact, OwnerPrio, o
      <4>2. QED BY <1>5, <2>3, <3>2, <4>1
    <3>3. QED BY <3>1, <3>2
  <2>7. OwnerPrio'
    BY <1>1, <2>6 DEF OwnerPrio
  <2>8. QED BY <2>5, <2>7
<1>10. QED BY <1>2, <1>8, <1>9

\* One turn of the loop: the queue is sorted again, and the owner's priority
\* is computed afresh; if it waits itself, the loop goes on with it.
LEMMA ChainStepPrio ==
  ASSUME IInv, IInv', Undisturbed, SortInv, WaiterPrio, OwnerPrio, ChainStep
  PROVE  SortInv' /\ WaiterPrio' /\ OwnerPrio'
<1> DEFINE m == pending[chain]
           o == owner[m]
           q == Enqueue(Unlink(suspend_thread[m], chain), chain)
           p == GetMutexPriority(o, taken[o], priority', ceiling)
<1>1. /\ chain # NoThread
      /\ suspend_thread' = [suspend_thread EXCEPT ![m] = q]
      /\ priority' = [priority EXCEPT ![m] = UpdatePriority(q)]
      /\ IF p # cur[o] THEN Boost(o, p) ELSE chain' = NoThread /\ UNCHANGED cur
      /\ UNCHANGED <<taken, stat, pending>>
  BY DEF ChainStep
<1> HIDE DEF m, o, q, p
<1>2. chain \in Thread /\ m \in Mutex /\ Member(suspend_thread[m], chain)
  BY <1>1, QueueForm DEF IInv, ChainInv, TypeOK, QueueInv, m
<1>3. /\ suspend_thread[m] \in Seq(Thread) /\ NoDup(suspend_thread[m])
      /\ suspend_thread[m] # <<>> /\ alive[m]
  BY <1>2, QueueForm, QueueMembers DEF IInv, QueueInv, Undisturbed
<1>4. o \in Thread /\ taken[o] \in SUBSET Mutex
  BY <1>2, <1>3 DEF o, IInv, TakenExact, TypeOK
<1>5. q \in Seq(Thread) /\ Sorted(q, cur)
  <2> DEFINE r == Unlink(suspend_thread[m], chain)
  <2>1. r \in Seq(Thread) /\ NoDup(r) /\ ~Member(r, chain)
    BY <1>3, UnlinkMembers
  <2>2. SortedBut(r, cur, chain)
    BY <1>2, <1>3, UnlinkSorted DEF SortInv
  <2> HIDE DEF r
  <2>3. Sorted(r, cur)
    BY <2>1, <2>2, SortedWithout
  <2>4. QED BY <1>2, <2>1, <2>3, EnqueueSorted, EnqueueMembers DEF IInv, q, r
<1>6. /\ \A n \in Mutex : suspend_thread'[n] = IF n = m THEN q ELSE suspend_thread[n]
      /\ \A n \in Mutex : priority'[n] = IF n = m THEN UpdatePriority(q) ELSE priority[n]
      /\ priority' \in [Mutex -> 0..NoPrio] /\ ceiling \in [Mutex -> 0..NoPrio]
  BY <1>1, <1>2 DEF IInv, TypeOK
<1>7. ASSUME NEW n \in Mutex, n # m PROVE ~Member(suspend_thread[n], chain)
  BY <1>2, <1>7, QueueForm DEF IInv, QueueInv, m
<1>8. \A n \in Mutex : Sorted(suspend_thread'[n], cur)
  BY <1>5, <1>6, <1>7, SortedWithout DEF SortInv
<1>9. \A n \in Mutex, u \in Thread : Member(suspend_thread'[n], u) => priority'[n] <= cur[u]
  <2>1. ASSUME NEW n \in Mutex, NEW u \in Thread, Member(suspend_thread'[n], u)
        PROVE  priority'[n] <= cur[u]
    <3>1. CASE n = m
      BY <1>5, <1>6, <2>1, <3>1, UpdatePriorityLeast DEF IInv
    <3>2. CASE n # m
      <4>1. Member(suspend_thread[n], u) /\ u # chain
        BY <1>6, <1>7, <2>1, <3>2
      <4>2. QED BY <1>6, <3>2, <4>1 DEF WaiterPrio
    <3>3. QED BY <3>1, <3>2
  <2>2. QED BY <2>1
<1>10. \A n \in taken[o] : p <= priority'[n]
  BY <1>4, <1>6, GetMutexPriorityLeast DEF p
<1>11. \A v \in Thread : cur'[v] = IF v = o THEN p ELSE cur[v]
  BY <1>1, <1>4 DEF Boost, IInv, TypeOK
<1>12. OwnerPrio'
  <2>1. ASSUME NEW u \in Thread, NEW n \in taken[u] PROVE cur'[u] <= priority'[n]
    <3>1. CASE u = o
      BY <1>10, <1>11, <3>1
    <3>2. CASE u # o
      <4>1. n \in Mutex /\ n # m /\ cur[u] <= priority[n]
        BY <1>2, <1>3, <3>2 DEF IInv, TypeOK, TakenExact, OwnerPrio, o
      <4>2. QED BY <1>6, <1>11, <3>2, <4>1
    <3>3. QED BY <3>1, <3>2
  <2>2. QED BY <1>1, <2>1 DEF OwnerPrio
<1>13. SortInv' /\ WaiterPrio'
  <2>1. CASE p # cur[o]
    <3>1. \A n \in Mutex : Member(suspend_thread'[n], o) => stat[o] = "suspend" /\ pending[o] # NoMutex
      <4>1. \A n \in Mutex : Member(suspend_thread'[n], o) => stat'[o] = "suspend" /\ pending'[o] = n
        BY <1>4, QueueForm DEF IInv, QueueInv
      <4>2. QED BY <1>1, <4>1, MutexAssumption
    <3>2. Boost(o, p)
      BY <1>1, <2>1
    <3>3. QED BY <1>4, <1>8, <1>9, <3>1, <3>2, Raise DEF IInv
  <2>2. CASE p = cur[o]
    <3>1. cur' = cur
      BY <1>1, <2>2
    <3>2. QED BY <1>8, <1>9, <3>1, NoRaise DEF IInv
  <2>3. QED BY <2>1, <2>2
<1>14. QED BY <1>12, <1>13

\* A release: the new owner is the most urgent of the queue, hence at least as
\* urgent as those who still wait; the old owner keeps what its other mutexes
\* require.
LEMMA ReleasePrio ==
  ASSUME IInv, IInv', Undisturbed, SortInv, WaiterPrio, OwnerPrio, NEW t \in Thread, NEW m \in Mutex, Release(t, m)
  PROVE  SortInv' /\ WaiterPrio' /\ OwnerPrio'
<1> DEFINE q == suspend_thread[m]
           r == IF q = <<>> THEN <<>> ELSE Tail(q)
<1>1. /\ chain = NoThread /\ UNCHANGED chain /\ owner[m] = t /\ stat[t] = "ready" /\ GiveUp(t, {m})
      /\ cur' = [cur EXCEPT ![t] = IF hold[m] = 1 THEN PrioWithout(t, m) ELSE cur[t]]
  BY DEF Release, Calls, Running
<1>2. m \in taken[t] /\ {m} \in SUBSET taken[t]
  BY <1>1 DEF IInv, TakenExact, Undisturbed
<1>3. \A n \in Mutex : n \in Freed({m}) <=> n = m /\ hold[m] = 1
  BY DEF Freed
<1>4. /\ \A n \in Mutex : suspend_thread'[n] = IF n = m /\ hold[m] = 1 THEN r ELSE suspend_thread[n]
      /\ \A n \in Mutex : priority'[n] = IF n = m /\ hold[m] = 1 THEN UpdatePriority(r) ELSE priority[n]
  BY <1>3 DEF GiveUp, Release
<1>5. \A u \in Thread, n \in Mutex :
        n \in taken'[u] <=> IF n = m /\ hold[m] = 1 THEN owner'[n] = u ELSE n \in taken[u]
  <2>1. \A u \in Thread, n \in Mutex :
          n \in taken'[u] <=> IF n \in Freed({m}) THEN owner'[n] = u ELSE n \in taken[u]
    BY <1>1, <1>2, GiveUpStep
  <2>2. QED BY <1>3, <2>1
<1>6. CASE hold[m] # 1
  <2>1. cur' = cur
    BY <1>1, <1>6 DEF IInv, TypeOK
  <2>2. suspend_thread' = suspend_thread /\ priority' = priority
    <3>1. /\ suspend_thread \in [Mutex -> Seq(Thread)] /\ suspend_thread' \in [Mutex -> Seq(Thread)]
          /\ priority \in [Mutex -> 0..NoPrio] /\ priority' \in [Mutex -> 0..NoPrio]
      BY DEF IInv, TypeOK
    <3>2. \A n \in Mutex : suspend_thread'[n] = suspend_thread[n] /\ priority'[n] = priority[n]
      BY <1>4, <1>6
    <3>3. QED BY <3>1, <3>2
  <2>3. taken' = taken
    <3>1. taken \in [Thread -> SUBSET Mutex] /\ taken' \in [Thread -> SUBSET Mutex]
      BY DEF IInv, TypeOK
    <3>2. \A u \in Thread : taken'[u] = taken[u]
      BY <1>5, <1>6, <3>1
    <3>3. QED BY <3>1, <3>2
  <2>4. QED BY <1>1, <2>1, <2>2, <2>3, QuietPrio
<1>7. CASE hold[m] = 1
  <2>1. q \in Seq(Thread) /\ NoDup(q) /\ \A n \in Mutex : ~Member(suspend_thread[n], t)
    BY <1>1, QueueForm DEF IInv, QueueInv, TypeOK
  <2>2. /\ \A n \in Mutex : Sorted(suspend_thread[n], cur)
        /\ \A n \in Mutex, u \in Thread : Member(suspend_thread[n], u) => priority[n] <= cur[u]
    BY <1>1, Settled
  <2>3. /\ r \in Seq(Thread) /\ Sorted(r, cur) /\ \A u : Member(r, u) => Member(q, u)
        /\ q # <<>> => \A u : Member(r, u) => cur[Head(q)] <= cur[u]
    <3>1. CASE q = <<>>
      <4>1. r = <<>>
        BY <3>1
      <4>2. Sorted(<<>>, cur) /\ \A u : ~Member(<<>>, u)
        BY DEF Sorted, Member
      <4>3. QED BY <3>1, <4>1, <4>2
    <3>2. CASE q # <<>>
      <4>1. r = Tail(q)
        BY <3>2
      <4>2. Head(q) \in Thread /\ r \in Seq(Thread) /\ \A u : Member(r, u) => Member(q, u)
        BY <2>1, <3>2, <4>1, TailMembers
      <4>3. ~Member(q, NoThread) /\ ~Member(r, NoThread) /\ Head(q) # NoThread
        BY <2>1, <4>2, MutexAssumption DEF Member
      <4>4. SortedBut(q, cur, NoThread)
        BY <2>2, <4>3, SortedWithout
      <4> HIDE DEF q, r
      <4>5. SortedBut(r, cur, NoThread) /\ \A u : Member(r, u) /\ u # NoThread => cur[Head(q)] <= cur[u]
        BY <2>1, <3>2, <4>1, <4>3, <4>4, TailSorted
      <4>6. QED BY <4>2, <4>3, <4>5, SortedWithout
    <3>3. QED BY <3>1, <3>2
  <2>4. owner'[m] \in Thread => q # <<>> /\ owner'[m] = Head(q) /\ Head(q) # t
    <3>1. q = <<>> => owner'[m] = NoThread
      BY <1>1, <1>2, <1>7, GiveUpStep
    <3>2. q # <<>> => owner'[m] = Head(q) /\ Member(q, Head(q))
      BY <1>1, <1>2, <1>7, GiveUpStep
    <3>3. QED BY <2>1, <3>1, <3>2, MutexAssumption
  <2> HIDE DEF q, r
  <2>5. /\ \A u \in Thread : cur[u] \in 0..NoPrio
        /\ \A n \in Mutex : priority[n] \in 0..NoPrio
    BY PrioRange
  <2>6. /\ \A u : Member(r, u) => UpdatePriority(r) <= cur[u]
        /\ \A b \in 0..NoPrio : (\A u \in Thread : Member(r, u) => b <= cur[u]) => b <= UpdatePriority(r)
    BY <2>3, UpdatePriorityLeast DEF IInv
  <2>7. ASSUME NEW n \in Mutex, NEW u \in Thread, Member(suspend_thread'[n], u)
        PROVE  priority'[n] <= cur[u] /\ u # t
    <3>1. CASE n = m
      BY <1>4, <1>7, <2>1, <2>3, <2>6, <2>7, <3>1 DEF q
    <3>2. CASE n # m
      BY <1>4, <2>1, <2>2, <2>7, <3>2
    <3>3. QED BY <3>1, <3>2
  <2>8. \A u \in Thread : u # t => cur'[u] = cur[u]
    BY <1>1 DEF IInv, TypeOK
  <2>9. SortInv' /\ WaiterPrio'
    <3>1. \A n \in Mutex : Sorted(suspend_thread'[n], cur)
      BY <1>4, <2>2, <2>3
    <3>2. QED BY <2>7, <2>8, <3>1, NoRaise DEF IInv
  <2>10. ASSUME NEW n \in taken[t], n # m PROVE cur'[t] <= priority[n]
    <3>1. cur'[t] = PrioWithout(t, m)
      BY <1>1, <1>7 DEF IInv, TypeOK
    <3>2. cur[t] <= priority[n]
      BY DEF OwnerPrio
    <3>3. /\ taken[t] \ {m} \in SUBSET Mutex /\ n \in taken[t] \ {m}
          /\ priority \in [Mutex -> 0..NoPrio] /\ ceiling \in [Mutex -> 0..NoPrio]
      BY <2>10 DEF IInv, TypeOK
    <3>4. GetMutexPriority(t, taken[t] \ {m}, priority, ceiling) <= priority[n]
      BY <3>3, GetMutexPriorityLeast
    <3>5. QED BY <3>1, <3>2, <3>4 DEF PrioWithout
  <2>11. ASSUME NEW u \in Thread, NEW n \in taken'[u] PROVE cur'[u] <= priority'[n]
    <3>1. n \in Mutex
      BY DEF IInv, TypeOK
    <3>2. CASE n # m
      <4>1. n \in taken[u] /\ priority'[n] = priority[n]
        BY <1>4, <1>5, <3>1, <3>2
      <4>2. QED BY <2>8, <2>10, <3>2, <4>1 DEF OwnerPrio
    <3>3. CASE n = m
      <4>1. owner'[m] = u /\ priority'[n] = UpdatePriority(r)
        BY <1>4, <1>5, <1>7, <3>3
      <4>2. q # <<>> /\ u = Head(q) /\ u # t
        BY <2>4, <4>1
      <4>3. cur[u] <= UpdatePriority(r)
        BY <2>3, <2>5, <2>6, <4>2
      <4>4. QED BY <2>8, <4>1, <4>2, <4>3
    <3>4. QED BY <3>2, <3>3
  <2>12. QED BY <2>9, <2>11 DEF OwnerPrio
<1>8. QED BY <1>6, <1>7

-----------------------------------------------------------------------------
(* The theorems.                                                           *)

\* Once a mutex is detached or a thread has ended, that stays so; the
\* operations that do it are the only ones the inheritance does not cover.
LEMMA Disturbs ==
  ASSUME IInv, [Next]_vars, Undisturbed'
  PROVE  /\ Undisturbed
         /\ \A t \in Thread, m \in Mutex : ~MutexDetach(t, m)
         /\ \A t \in Thread : ~ThreadExit(t) /\ ~EntryReturns(t)
         /\ \A t, u \in Thread : ~ThreadDelete(u, t)
<1>1. ASSUME NEW t \in Thread, NEW m \in Mutex, MutexDetach(t, m) PROVE FALSE
  BY <1>1 DEF MutexDetach, Undisturbed, IInv, TypeOK
<1>2. ASSUME NEW t \in Thread, ThreadExit(t) \/ EntryReturns(t) PROVE FALSE
  <2>1. stat'[t] = "close"
    BY <1>2 DEF ThreadExit, EntryReturns, IInv, TypeOK
  <2>2. QED BY <2>1 DEF Undisturbed
<1>3. ASSUME NEW t \in Thread, NEW u \in Thread, ThreadDelete(u, t) PROVE FALSE
  <2>1. stat'[t] = "close"
    BY <1>3 DEF ThreadDelete, IInv, TypeOK
  <2>2. QED BY <2>1 DEF Undisturbed
<1>4. alive' = alive
  <2>1. \A t \in Thread, m \in Mutex :
          TakeAgain(t, m) \/ TakeFree(t, m) \/ Release(t, m) => alive' = alive
    BY DEF TakeAgain, TakeFree, Release
  <2>2. \A t \in Thread, m \in Mutex, timed \in BOOLEAN : Wait(t, m, timed) => alive' = alive
    BY DEF Wait
  <2>3. \A t \in Thread, m \in Mutex, c \in Ceilings : SetPrioCeiling(t, m, c) => alive' = alive
    BY DEF SetPrioCeiling
  <2>4. \A t \in Thread : TakeSucceeds(t) \/ TakeFails(t) \/ Timeout(t) \/ Sleep(t) \/ Wake(t)
                            => alive' = alive
    BY DEF TakeSucceeds, TakeFails, Timeout, Sleep, Wake, mtxVars
  <2>5. ChainStep \/ UNCHANGED vars => alive' = alive
    BY DEF ChainStep, vars, mtxVars
  <2>6. QED BY <1>1, <1>2, <1>3, <2>1, <2>2, <2>3, <2>4, <2>5 DEF Next
<1>5. ASSUME NEW x \in Thread, stat[x] = "close" PROVE stat'[x] = "close"
  <2>1. /\ \A t \in Thread, m \in Mutex, timed \in BOOLEAN : Wait(t, m, timed) => stat'[x] = stat[x]
    BY <1>5 DEF Wait, Calls, Running, IInv, TypeOK
  <2>2. \A t \in Thread : Timeout(t) \/ Sleep(t) \/ Wake(t) => stat'[x] = stat[x]
    BY <1>5 DEF Timeout, Sleep, Wake, Calls, Running, IInv, TypeOK
  <2>3. ASSUME NEW t \in Thread, NEW m \in Mutex, Release(t, m) PROVE stat'[x] = stat[x]
    <3>1. x \notin NextOwners({m})
      <4>1. ASSUME x \in NextOwners({m}) PROVE FALSE
        <5>1. suspend_thread[m] # <<>> /\ x = Head(suspend_thread[m])
          BY <4>1 DEF NextOwners, Freed
        <5>2. suspend_thread[m] \in Seq(Thread) /\ NoDup(suspend_thread[m])
          BY QueueForm DEF IInv, QueueInv, TypeOK
        <5>3. Member(suspend_thread[m], x)
          BY <5>1, <5>2, TailMembers
        <5>4. QED BY <1>5, <5>3, QueueForm DEF IInv, QueueInv
      <4>2. QED BY <4>1
    <3>2. QED BY <2>3, <3>1 DEF Release
  <2>4. \A t \in Thread, m \in Mutex : TakeAgain(t, m) \/ TakeFree(t, m) => stat'[x] = stat[x]
    BY DEF TakeAgain, TakeFree
  <2>5. \A t \in Thread, m \in Mutex, c \in Ceilings : SetPrioCeiling(t, m, c) => stat'[x] = stat[x]
    BY DEF SetPrioCeiling
  <2>6. \A t \in Thread : TakeSucceeds(t) \/ TakeFails(t) => stat'[x] = stat[x]
    BY DEF TakeSucceeds, TakeFails
  <2>7. ChainStep \/ UNCHANGED vars => stat'[x] = stat[x]
    BY DEF ChainStep, vars, thrVars
  <2>8. QED BY <1>1, <1>2, <1>3, <1>5, <2>1, <2>2, <2>3, <2>4, <2>5, <2>6, <2>7 DEF Next
<1>6. Undisturbed
  BY <1>4, <1>5 DEF Undisturbed
<1>7. QED BY <1>1, <1>2, <1>3, <1>6

\* Empty queues, and no mutex taken.
LEMMA PrioInit == Init => PrioInv
<1> SUFFICES ASSUME Init PROVE SortInv /\ WaiterPrio /\ OwnerPrio
  BY DEF PrioInv
<1>1. \A m \in Mutex : suspend_thread[m] = <<>>
  BY DEF Init
<1>2. \A f, e : SortedBut(<<>>, f, e)
  BY DEF SortedBut
<1>3. \A u : ~Member(<<>>, u)
  BY DEF Member
<1>4. OwnerPrio
  BY DEF Init, OwnerPrio
<1>5. QED BY <1>1, <1>2, <1>3, <1>4 DEF SortInv, WaiterPrio

\* Every operation keeps PrioInv.
LEMMA PrioNext == IInv /\ IInv' /\ PrioInv /\ [Next]_vars => PrioInv'
<1> SUFFICES ASSUME IInv, IInv', PrioInv, [Next]_vars, Undisturbed'
             PROVE  SortInv' /\ WaiterPrio' /\ OwnerPrio'
  BY DEF PrioInv
<1>1. Undisturbed /\ SortInv /\ WaiterPrio /\ OwnerPrio
  BY Disturbs DEF PrioInv
<1>2. CASE UNCHANGED vars
  BY <1>1, <1>2, QuietPrio DEF vars, mtxVars, thrVars
<1>3. CASE ChainStep
  BY <1>1, <1>3, ChainStepPrio
<1>4. ASSUME NEW t \in Thread, NEW m \in Mutex,
             \/ TakeAgain(t, m) \/ TakeFree(t, m)
             \/ \E timed \in BOOLEAN : Wait(t, m, timed)
             \/ Release(t, m)
             \/ \E c \in Ceilings : SetPrioCeiling(t, m, c)
      PROVE  SortInv' /\ WaiterPrio' /\ OwnerPrio'
  <2>1. CASE TakeAgain(t, m)
    <3>1. UNCHANGED <<suspend_thread, priority, taken, cur, chain>>
      BY <2>1 DEF TakeAgain
    <3>2. QED BY <1>1, <3>1, QuietPrio
  <2>2. CASE TakeFree(t, m)
    BY <1>1, <2>2, TakeFreePrio
  <2>3. CASE \E timed \in BOOLEAN : Wait(t, m, timed)
    BY <1>1, <2>3, WaitPrio
  <2>4. CASE Release(t, m)
    BY <1>1, <2>4, ReleasePrio
  <2>5. CASE \E c \in Ceilings : SetPrioCeiling(t, m, c)
    BY <1>1, <2>5, SetPrioCeilingPrio
  <2>6. QED BY <1>4, <2>1, <2>2, <2>3, <2>4, <2>5
<1>5. ASSUME NEW t \in Thread, TakeSucceeds(t) \/ TakeFails(t) \/ Timeout(t) \/ Sleep(t) \/ Wake(t)
      PROVE  SortInv' /\ WaiterPrio' /\ OwnerPrio'
  <2>1. CASE TakeSucceeds(t) \/ Sleep(t) \/ Wake(t)
    <3>1. UNCHANGED <<suspend_thread, priority, taken, cur, chain>>
      BY <2>1 DEF TakeSucceeds, Sleep, Wake, mtxVars
    <3>2. QED BY <1>1, <3>1, QuietPrio
  <2>2. CASE TakeFails(t)
    BY <1>1, <2>2, TakeFailsPrio
  <2>3. CASE Timeout(t)
    BY <1>1, <2>3, TimeoutPrio
  <2>4. QED BY <1>5, <2>1, <2>2, <2>3
<1>6. QED
  BY <1>2, <1>3, <1>4, <1>5, Disturbs DEF Next

\* The inductive invariant of the priorities, on top of the one of the lists.
THEOREM MutexPrioInvariant == Spec => []PrioInv
<1>1. Spec => []IInv
  BY MutexInvariant
<1>2. QED BY <1>1, PrioInit, PrioNext, PTL DEF Spec

\* Priority inheritance: outside the loop of _thread_update_priority every
\* owner is at least as urgent as every thread that waits for it, whatever the
\* chains and circles of owners and whatever ceilings are set meanwhile.
THEOREM MutexOwnerInherits == Spec => []OwnerInherits
<1>1. ASSUME IInv, PrioInv PROVE OwnerInherits
  <2>1. SUFFICES ASSUME Undisturbed, chain = NoThread, NEW m \in Mutex,
                        NEW i \in DOMAIN suspend_thread[m]
                 PROVE  cur[owner[m]] <= cur[suspend_thread[m][i]]
    BY DEF OwnerInherits
  <2> DEFINE u == suspend_thread[m][i]
  <2>2. u \in Thread /\ Member(suspend_thread[m], u)
    BY <1>1, <2>1 DEF Member, IInv, TypeOK
  <2>3. suspend_thread[m] # <<>>
    BY <2>1
  <2> HIDE DEF u
  <2>4. owner[m] \in Thread /\ m \in taken[owner[m]]
    BY <1>1, <2>1, <2>3 DEF IInv, TypeOK, TakenExact, Undisturbed
  <2>5. cur[owner[m]] <= priority[m]
    BY <1>1, <2>1, <2>4 DEF PrioInv, OwnerPrio
  <2>6. priority[m] <= cur[u]
    BY <1>1, <2>1, <2>2, Settled DEF PrioInv
  <2>7. cur[owner[m]] \in Int /\ priority[m] \in Int /\ cur[u] \in Int
    BY <1>1, <2>1, <2>2, <2>4 DEF IInv, TypeOK
  <2>8. QED BY <2>5, <2>6, <2>7 DEF u
<1>2. QED BY <1>1, MutexInvariant, MutexPrioInvariant, PTL

\* The suspend lists stay in order of priority while the inheritance changes
\* the priorities of threads that wait in them.
THEOREM MutexQueuedByPriority == Spec => []QueuedByPriority
<1>1. ASSUME IInv, PrioInv PROVE QueuedByPriority
  <2>1. SUFFICES ASSUME Undisturbed, chain = NoThread, NEW m \in Mutex
                 PROVE  Sorted(suspend_thread[m], cur)
    BY DEF QueuedByPriority, Sorted
  <2>2. QED BY <1>1, <2>1, Settled DEF PrioInv
<1>2. QED BY <1>1, MutexInvariant, MutexPrioInvariant, PTL
=============================================================================
