---------------------------- MODULE RtSemProofs ----------------------------
(***************************************************************************)
(* For every set of threads, every limit and every timeout: the suspend    *)
(* list of a semaphore agrees with the thread states, no waiter is         *)
(* stranded, and outside the timeout window every waiter can be resumed.   *)
(***************************************************************************)
EXTENDS RtSem, SeqLemmas, FiniteSetTheorems

USE SemAssumption

\* What rt_list_remove of a thread's node leaves in the list.
LEMMA UnlinkMembers ==
  ASSUME NEW s \in Seq(Thread), NEW t, NoDup(s)
  PROVE  /\ Unlink(s, t) \in Seq(Thread)
         /\ NoDup(Unlink(s, t))
         /\ \A x : Member(Unlink(s, t), x) <=> (Member(s, x) /\ x # t)
<1>1. CASE Member(s, t)
  <2>1. Unlink(s, t) = RemoveAt(s, CHOOSE i \in DOMAIN s : s[i] = t)
    BY <1>1 DEF Unlink, Member
  <2>2. QED
    BY <1>1, <2>1, RemoveMember
<1>2. CASE ~Member(s, t)
  BY <1>2 DEF Unlink, Member
<1>3. QED BY <1>1, <1>2

\* What making the threads of T ready does to the state of every thread.
LEMMA ReadyThreads ==
  ASSUME TypeOK, NEW T, NEW err \in [Thread -> Err], Ready(T, err)
  PROVE  /\ stat' \in [Thread -> {"ready", "suspend", "close"}]
         /\ \A t \in Thread : stat'[t] = IF t \in T THEN "ready" ELSE stat[t]
         /\ error' \in [Thread -> Err]
         /\ activated' \in [Thread -> BOOLEAN]
         /\ \A t \in Thread : t \notin T => activated'[t] = activated[t]
         /\ left' \in [Thread -> 0..MaxTimeout]
<1>1. /\ stat' \in [Thread -> {"ready", "suspend", "close"}]
      /\ \A t \in Thread : stat'[t] = IF t \in T THEN "ready" ELSE stat[t]
  BY DEF Ready, TypeOK
<1>2. error' \in [Thread -> Err]
  BY DEF Ready, TypeOK
<1>3. activated' \in [Thread -> BOOLEAN]
  BY Zenon DEF Ready, TypeOK
<1>4. \A t \in Thread : t \notin T => activated'[t] = activated[t]
  BY DEF Ready
<1>5. left' \in [Thread -> 0..MaxTimeout]
  BY DEF Ready, TypeOK
<1>6. QED BY <1>1, <1>2, <1>3, <1>4, <1>5

\* rt_susp_list_resume_all outside the SysTick handler resumes everybody.
LEMMA ResumeAllEmpties ==
  ASSUME TypeOK, SuspListExact, WaiterWakeable, HandlerInv, tick = "idle",
         NEW err \in Err, ResumeAll(err)
  PROVE  /\ suspend_thread' = <<>>
         /\ stat' \in [Thread -> {"ready", "suspend", "close"}]
         /\ \A t \in Thread : stat'[t] = IF Blocked(t) THEN "ready" ELSE stat[t]
         /\ error' \in [Thread -> Err]
         /\ activated' \in [Thread -> BOOLEAN]
         /\ left' \in [Thread -> 0..MaxTimeout]
         /\ ttmr_set' \in [Thread -> BOOLEAN]
<1> DEFINE s == suspend_thread
<1>1. s \in Seq(Thread) /\ Len(s) \in Nat /\ DOMAIN s = 1..Len(s)
  BY DEF TypeOK
<1>2. \A i \in 1..Len(s) : CanReady(s[i])
  <2>1. firing = NoThread BY DEF HandlerInv
  <2>2. \A i \in 1..Len(s) : s[i] \in Thread BY <1>1
  <2>3. QED BY <1>1, <2>1, <2>2 DEF WaiterWakeable
<1>3. PICK k \in 0..Len(s) :
        /\ k < Len(s) => ~CanReady(s[k + 1])
        /\ suspend_thread' = SubSeq(s, k + 1, Len(s))
        /\ Ready({s[i] : i \in 1..k}, [t \in Thread |-> err])
        /\ ttmr_set' = [t \in Thread |->
             IF \E i \in 1..Len(s) : i <= k + 1 /\ s[i] = t THEN FALSE ELSE ttmr_set[t]]
  BY DEF ResumeAll
<1>4. k = Len(s)
  BY <1>1, <1>2, <1>3
<1>5. suspend_thread' = <<>>
  BY <1>1, <1>3, <1>4
<1>6. \A t \in Thread : t \in {s[i] : i \in 1..k} <=> Blocked(t)
  <2>1. \A t : t \in {s[i] : i \in 1..k} <=> \E i \in DOMAIN s : s[i] = t
    BY <1>1, <1>4
  <2>2. \A t \in Thread : Blocked(t) <=> \E i \in DOMAIN s : s[i] = t
    BY DEF SuspListExact
  <2>3. QED BY <2>1, <2>2
<1>7. /\ stat' \in [Thread -> {"ready", "suspend", "close"}]
      /\ \A t \in Thread : stat'[t] = IF Blocked(t) THEN "ready" ELSE stat[t]
      /\ error' \in [Thread -> Err]
      /\ activated' \in [Thread -> BOOLEAN]
      /\ left' \in [Thread -> 0..MaxTimeout]
  <2>1. [t \in Thread |-> err] \in [Thread -> Err]
    OBVIOUS
  <2>2. QED BY <1>3, <1>6, <2>1, ReadyThreads
<1>8. ttmr_set' \in [Thread -> BOOLEAN]
  BY <1>3 DEF TypeOK
<1>9. QED BY <1>5, <1>7, <1>8

\* WaiterWakeable for a member of the list.
LEMMA MemberWakeable ==
  ASSUME WaiterWakeable, NEW x, Member(suspend_thread, x), x # firing
  PROVE  CanReady(x)
<1>1. PICK i \in DOMAIN suspend_thread : suspend_thread[i] = x
  BY DEF Member
<1>2. CanReady(suspend_thread[i])
  BY <1>1 DEF WaiterWakeable
<1>3. QED BY <1>1, <1>2

\* rt_susp_list_dequeue resumes the first waiter or leaves the list alone.
LEMMA DequeueFirst ==
  ASSUME TypeOK, SuspListExact, suspend_thread # <<>>, NEW err \in Err, Dequeue(err)
  PROVE  /\ Head(suspend_thread) \in Thread
         /\ Blocked(Head(suspend_thread))
         /\ suspend_thread' \in Seq(Thread) /\ NoDup(suspend_thread')
         /\ \A x : Member(suspend_thread', x) <=>
                    /\ Member(suspend_thread, x)
                    /\ ~(x = Head(suspend_thread) /\ CanReady(x))
         /\ stat' = [stat EXCEPT ![Head(suspend_thread)] =
                      IF CanReady(Head(suspend_thread)) THEN "ready" ELSE @]
         /\ error' \in [Thread -> Err]
         /\ ttmr_set' = [ttmr_set EXCEPT ![Head(suspend_thread)] = FALSE]
         /\ activated' \in [Thread -> BOOLEAN]
         /\ \A t \in Thread \ {Head(suspend_thread)} : activated'[t] = activated[t]
         /\ left' \in [Thread -> 0..MaxTimeout]
<1> DEFINE h == Head(suspend_thread)
<1>1. suspend_thread \in Seq(Thread) /\ NoDup(suspend_thread)
  BY DEF TypeOK, SuspListExact, NoDup
<1>2. /\ h \in Thread /\ Member(suspend_thread, h)
      /\ Tail(suspend_thread) \in Seq(Thread) /\ NoDup(Tail(suspend_thread))
      /\ \A x : Member(Tail(suspend_thread), x) <=> (Member(suspend_thread, x) /\ x # h)
  BY <1>1, TailMembers
<1>3. Blocked(h)
  BY <1>2 DEF SuspListExact, Member
<1> HIDE DEF h
<1>4. /\ suspend_thread' = IF CanReady(h) THEN Tail(suspend_thread) ELSE suspend_thread
      /\ ttmr_set' = [ttmr_set EXCEPT ![h] = FALSE]
      /\ Ready({h} \cap {u \in Thread : CanReady(u)}, [u \in Thread |-> err])
  BY DEF Dequeue, h
<1>5. /\ stat' = [stat EXCEPT ![h] = IF CanReady(h) THEN "ready" ELSE @]
      /\ error' \in [Thread -> Err]
      /\ activated' \in [Thread -> BOOLEAN]
      /\ \A t \in Thread \ {h} : activated'[t] = activated[t]
      /\ left' \in [Thread -> 0..MaxTimeout]
  <2>1. [u \in Thread |-> err] \in [Thread -> Err]
    OBVIOUS
  <2> DEFINE T == {h} \cap {u \in Thread : CanReady(u)}
  <2>2. \A t \in Thread : t \in T <=> (t = h /\ CanReady(h))
    OBVIOUS
  <2>3. Ready(T, [u \in Thread |-> err])
    BY <1>4
  <2> HIDE DEF T
  <2>4. /\ stat' \in [Thread -> {"ready", "suspend", "close"}]
        /\ \A t \in Thread : stat'[t] = IF t \in T THEN "ready" ELSE stat[t]
        /\ error' \in [Thread -> Err]
        /\ activated' \in [Thread -> BOOLEAN]
        /\ \A t \in Thread : t \notin T => activated'[t] = activated[t]
        /\ left' \in [Thread -> 0..MaxTimeout]
    BY <2>1, <2>3, ReadyThreads
  <2>5. stat' = [stat EXCEPT ![h] = IF CanReady(h) THEN "ready" ELSE @]
    BY <1>2, <2>2, <2>4 DEF TypeOK
  <2>6. QED BY <1>2, <2>2, <2>4, <2>5
<1>6. /\ suspend_thread' \in Seq(Thread) /\ NoDup(suspend_thread')
      /\ \A x : Member(suspend_thread', x) <=>
                 (Member(suspend_thread, x) /\ ~(x = h /\ CanReady(x)))
  BY <1>1, <1>2, <1>4
<1>7. QED BY <1>2, <1>3, <1>4, <1>5, <1>6 DEF h

-----------------------------------------------------------------------------
\* Every step of a thread preserves the invariant.
LEMMA ThreadStep ==
  ASSUME IInv, NEW t \in Thread,
         \/ Take(t) \/ TakeReturns(t) \/ SleepSuspend(t) \/ SleepReturns(t)
         \/ \E n \in 1..MaxTimeout : SleepArm(t, n)
         \/ \E n \in 0..MaxTimeout : Block(t, n)
         \/ \E p \in 0..(PriorityMax - 1) : ChangePriority(t, p)
  PROVE  IInv'
<1> USE DEF IInv
<1>1. CASE Take(t)
  <2>1. TypeOK' /\ NoStrandedWaiter' /\ UNCHANGED <<alive, suspend_thread, thrVars, tmrVars, tick, firing>>
    BY <1>1 DEF Take, TypeOK, NoStrandedWaiter, thrVars, tmrVars
  <2>2. QED
    BY <2>1 DEF SuspListExact, Blocked, WaiterWakeable, CanReady, HandlerInv, thrVars, tmrVars
<1>2. CASE TakeReturns(t)
  <2>1. TypeOK'
    BY <1>2 DEF TakeReturns, TypeOK, semVars, tmrVars, Where, Err
  <2>2. SuspListExact'
    BY <1>2 DEF TakeReturns, Running, TypeOK, SuspListExact, Blocked, semVars
  <2>3. QED
    BY <1>2, <2>1, <2>2 DEF TakeReturns, NoStrandedWaiter, WaiterWakeable, CanReady, HandlerInv,
                 semVars, tmrVars
<1>3. CASE SleepSuspend(t)
  <2>1. TypeOK'
    BY <1>3 DEF SleepSuspend, TypeOK, semVars, Where, Err
  <2>2. SuspListExact'
    BY <1>3 DEF SleepSuspend, InKernel, TypeOK, SuspListExact, Blocked, semVars
  <2>3. ~\E i \in DOMAIN suspend_thread : suspend_thread[i] = t
    BY <1>3 DEF SleepSuspend, InKernel, SuspListExact, Blocked
  <2>4. WaiterWakeable'
    BY <1>3, <2>3 DEF SleepSuspend, TypeOK, WaiterWakeable, CanReady, semVars
  <2>5. QED
    BY <1>3, <2>1, <2>2, <2>4 DEF SleepSuspend, InKernel, Running, NoStrandedWaiter, HandlerInv, semVars
<1>4. CASE SleepReturns(t)
  <2>1. TypeOK'
    BY <1>4 DEF SleepReturns, TypeOK, semVars, tmrVars, Where, Err
  <2>2. SuspListExact'
    BY <1>4 DEF SleepReturns, Running, TypeOK, SuspListExact, Blocked, semVars
  <2>3. QED
    BY <1>4, <2>1, <2>2 DEF SleepReturns, NoStrandedWaiter, WaiterWakeable, CanReady, HandlerInv,
                 semVars, tmrVars
<1>5. ASSUME NEW n \in 1..MaxTimeout, SleepArm(t, n) PROVE IInv'
  <2>1. TypeOK'
    BY <1>5 DEF SleepArm, TypeOK, semVars, Where, Err
  <2>2. SuspListExact'
    BY <1>5 DEF SleepArm, TypeOK, SuspListExact, Blocked, semVars
  <2>3. WaiterWakeable'
    BY <1>5 DEF SleepArm, TypeOK, WaiterWakeable, CanReady, semVars
  <2>4. QED
    BY <1>5, <2>1, <2>2, <2>3 DEF SleepArm, NoStrandedWaiter, HandlerInv, semVars
<1>6. ASSUME NEW n \in 0..MaxTimeout, Block(t, n) PROVE IInv'
  <2>1. PICK i \in 1..(Len(suspend_thread) + 1) :
          suspend_thread' = InsertAt(suspend_thread, i, t)
    BY <1>6 DEF Block
  <2>2. suspend_thread \in Seq(Thread) /\ NoDup(suspend_thread) /\ ~Member(suspend_thread, t)
    BY <1>6 DEF Block, InKernel, TypeOK, SuspListExact, Blocked, NoDup, Member
  <2>3. /\ suspend_thread' \in Seq(Thread) /\ NoDup(suspend_thread')
        /\ \A x : Member(suspend_thread', x) <=> (Member(suspend_thread, x) \/ x = t)
    BY <2>1, <2>2, InsertAtElements, InsertAtMembers
  <2>4. /\ stat' = [stat EXCEPT ![t] = "suspend"]
        /\ ttmr_set' = [ttmr_set EXCEPT ![t] = n > 0]
        /\ activated' = [activated EXCEPT ![t] = n > 0]
        /\ pc' = [pc EXCEPT ![t] = IF n > 0 THEN "timed" ELSE "take"]
        /\ UNCHANGED <<alive, value, firing, tick>>
        /\ alive /\ value = 0 /\ tick = "idle"
    BY <1>6 DEF Block, InKernel, Running
  <2>5. TypeOK'
    BY <1>6, <2>3, <2>4 DEF Block, TypeOK, Where, Err
  <2>6. \A u \in Thread : Blocked(u)' <=> (Blocked(u) \/ u = t)
    BY <2>4 DEF TypeOK, Blocked
  <2>7. SuspListExact'
    BY <2>3, <2>6 DEF SuspListExact, NoDup, Member
  <2>8. WaiterWakeable'
    <3>1. SUFFICES ASSUME NEW x \in Thread, Member(suspend_thread', x), x # firing
                   PROVE  CanReady(x)'
      BY <2>3, <2>4 DEF WaiterWakeable, Member
    <3>2. CASE x = t
      BY <2>4, <3>2 DEF TypeOK, CanReady
    <3>3. CASE x # t
      <4>1. CanReady(x)
        <5>1. Member(suspend_thread, x)
          BY <2>3, <3>1, <3>3
        <5>2. QED BY <3>1, <5>1, MemberWakeable
      <4>2. /\ stat'[x] = stat[x] /\ ttmr_set'[x] = ttmr_set[x]
            /\ activated'[x] = activated[x]
        BY <2>4, <3>3 DEF TypeOK
      <4>3. QED BY <4>1, <4>2 DEF CanReady
    <3>4. QED BY <3>2, <3>3
  <2>9. QED
    BY <2>4, <2>5, <2>7, <2>8 DEF NoStrandedWaiter, HandlerInv
<1>7. ASSUME NEW p \in 0..(PriorityMax - 1), ChangePriority(t, p) PROVE IInv'
  <2>1. /\ prio' = [prio EXCEPT ![t] = p]
        /\ UNCHANGED <<semVars, thrVars, tmrVars, tick, firing>>
    BY <1>7 DEF ChangePriority
  <2>2. TypeOK'
    BY <2>1 DEF TypeOK, semVars, thrVars, tmrVars
  <2>3. QED
    BY <2>1, <2>2 DEF SuspListExact, Blocked, NoStrandedWaiter, WaiterWakeable, CanReady,
                      HandlerInv, semVars, thrVars, tmrVars
<1>8. QED
  BY <1>1, <1>2, <1>3, <1>4, <1>5, <1>6, <1>7

\* rt_sem_release, from a thread or from an interrupt, preserves the invariant.
LEMMA ReleaseStep ==
  ASSUME IInv, Release
  PROVE  IInv'
<1> USE DEF IInv
<1>1. CASE suspend_thread = <<>>
  <2>1. TypeOK' /\ UNCHANGED <<alive, suspend_thread, thrVars, tmrVars, tick, firing>>
    BY <1>1 DEF Release, TypeOK, thrVars, tmrVars
  <2>2. QED
    BY <1>1, <2>1 DEF SuspListExact, Blocked, NoStrandedWaiter, WaiterWakeable, CanReady, HandlerInv,
                      thrVars, tmrVars
<1>2. CASE suspend_thread # <<>>
  <2> DEFINE h == Head(suspend_thread)
  <2>1. Dequeue("EOK") /\ UNCHANGED <<alive, flag, value, max_value, prio, pc, tick, firing>>
    BY <1>2 DEF Release
  <2>2. "EOK" \in Err
    BY DEF Err
  <2>3. /\ h \in Thread /\ Blocked(h)
        /\ suspend_thread' \in Seq(Thread) /\ NoDup(suspend_thread')
        /\ \A x : Member(suspend_thread', x) <=>
                   (Member(suspend_thread, x) /\ ~(x = h /\ CanReady(x)))
        /\ stat' = [stat EXCEPT ![h] = IF CanReady(h) THEN "ready" ELSE @]
        /\ error' \in [Thread -> Err]
        /\ ttmr_set' = [ttmr_set EXCEPT ![h] = FALSE]
        /\ activated' \in [Thread -> BOOLEAN]
        /\ \A t \in Thread \ {h} : activated'[t] = activated[t]
        /\ left' \in [Thread -> 0..MaxTimeout]
    BY <1>2, <2>1, <2>2, DequeueFirst
  <2> HIDE DEF h
  <2>4. TypeOK'
    BY <2>1, <2>3 DEF TypeOK
  <2>5. \A t \in Thread : Blocked(t)' <=> (Blocked(t) /\ ~(t = h /\ CanReady(t)))
    BY <2>1, <2>3 DEF TypeOK, Blocked
  <2>6. SuspListExact'
    BY <2>3, <2>5 DEF SuspListExact, NoDup, Member
  <2>7. WaiterWakeable'
    <3>1. SUFFICES ASSUME NEW x \in Thread, Member(suspend_thread', x), x # firing
                   PROVE  CanReady(x)'
      BY <2>1, <2>3 DEF WaiterWakeable, Member
    <3>2. Member(suspend_thread, x) /\ ~(x = h /\ CanReady(x))
      BY <2>3, <3>1
    <3>3. CanReady(x)
      BY <3>1, <3>2, MemberWakeable
    <3>4. x # h
      BY <3>2, <3>3
    <3>5. stat'[x] = stat[x] /\ ttmr_set'[x] = ttmr_set[x] /\ activated'[x] = activated[x]
      BY <2>3, <3>4 DEF TypeOK
    <3>6. QED BY <3>3, <3>5 DEF CanReady
  <2>8. NoStrandedWaiter'
    BY <1>2, <2>1 DEF Release, NoStrandedWaiter
  <2>9. HandlerInv'
    BY <2>1, <2>3 DEF HandlerInv, TypeOK
  <2>10. QED BY <2>4, <2>6, <2>7, <2>8, <2>9
<1>3. QED BY <1>1, <1>2

\* rt_sem_control and rt_sem_delete preserve the invariant.
LEMMA ControlStep ==
  ASSUME IInv, NEW t \in Thread,
         \/ \E v \in 0..SemValueMax : Reset(t, v)
         \/ \E m \in 1..SemValueMax : SetVlimit(t, m)
         \/ Delete(t)
  PROVE  IInv'
<1> USE DEF IInv
<1>0. "ERROR" \in Err
  BY DEF Err
<1>1. CASE ResumeAll("ERROR") /\ UNCHANGED <<flag, prio, pc, tick, firing>> /\ tick = "idle"
           /\ alive' \in BOOLEAN /\ value' \in 0..SemValueMax /\ max_value' \in 1..SemValueMax
  <2>1. /\ suspend_thread' = <<>>
        /\ stat' \in [Thread -> {"ready", "suspend", "close"}]
        /\ \A u \in Thread : stat'[u] = IF Blocked(u) THEN "ready" ELSE stat[u]
        /\ error' \in [Thread -> Err]
        /\ activated' \in [Thread -> BOOLEAN]
        /\ left' \in [Thread -> 0..MaxTimeout]
        /\ ttmr_set' \in [Thread -> BOOLEAN]
    BY <1>0, <1>1, ResumeAllEmpties
  <2>2. TypeOK'
    BY <1>1, <2>1 DEF TypeOK
  <2>3. \A u \in Thread : ~Blocked(u)'
    BY <1>1, <2>1 DEF Blocked
  <2>4. QED
    BY <1>1, <2>1, <2>2, <2>3
       DEF SuspListExact, NoStrandedWaiter, WaiterWakeable, HandlerInv
<1>2. CASE /\ UNCHANGED <<alive, flag, value, suspend_thread, stat, error, prio, pc, tick, firing>>
           /\ UNCHANGED tmrVars /\ max_value' \in 1..SemValueMax
  BY <1>2 DEF TypeOK, SuspListExact, Blocked, NoStrandedWaiter, WaiterWakeable, CanReady,
              HandlerInv, tmrVars
<1>3. ASSUME NEW v \in 0..SemValueMax, Reset(t, v) PROVE IInv'
  BY <1>1, <1>3 DEF Reset, InKernel, Running, TypeOK
<1>4. ASSUME NEW m \in 1..SemValueMax, SetVlimit(t, m) PROVE IInv'
  BY <1>1, <1>2, <1>4 DEF SetVlimit, InKernel, Running, TypeOK
<1>5. CASE Delete(t)
  BY <1>1, <1>5 DEF Delete, InKernel, Running, TypeOK
<1>6. QED BY <1>3, <1>4, <1>5

\* rt_thread_resume and _thread_detach preserve the invariant.
LEMMA RemoveStep ==
  ASSUME IInv, NEW t \in Thread, Resume(t) \/ Detach(t)
  PROVE  IInv'
<1> USE DEF IInv
<1> DEFINE l == Unlink(suspend_thread, t)
<1>1. suspend_thread \in Seq(Thread) /\ NoDup(suspend_thread)
  BY DEF TypeOK, SuspListExact, NoDup
<1>2. /\ l \in Seq(Thread) /\ NoDup(l)
      /\ \A x : Member(l, x) <=> (Member(suspend_thread, x) /\ x # t)
  BY <1>1, UnlinkMembers
<1> HIDE DEF l
<1>3. CASE Resume(t) /\ CanReady(t)
  <2> DEFINE T == {t} \cap {u \in Thread : CanReady(u)}
  <2>1. \A u \in Thread : u \in T <=> u = t
    BY <1>3
  <2>2. /\ Ready(T, error) /\ suspend_thread' = l
        /\ ttmr_set' = [ttmr_set EXCEPT ![t] = FALSE]
        /\ UNCHANGED <<alive, flag, value, max_value, prio, pc, tick, firing>>
    BY <1>3 DEF Resume, l
  <2>3. error \in [Thread -> Err]
    BY DEF TypeOK
  <2> HIDE DEF T
  <2>4. /\ stat' \in [Thread -> {"ready", "suspend", "close"}]
        /\ \A u \in Thread : stat'[u] = IF u \in T THEN "ready" ELSE stat[u]
        /\ error' \in [Thread -> Err]
        /\ activated' \in [Thread -> BOOLEAN]
        /\ \A u \in Thread : u \notin T => activated'[u] = activated[u]
        /\ left' \in [Thread -> 0..MaxTimeout]
    BY <2>2, <2>3, ReadyThreads
  <2>5. TypeOK'
    BY <1>2, <2>2, <2>4 DEF TypeOK
  <2>6. \A u \in Thread : Blocked(u)' <=> (Blocked(u) /\ u # t)
    BY <2>1, <2>2, <2>4 DEF Blocked
  <2>7. SuspListExact'
    BY <1>2, <2>2, <2>6 DEF SuspListExact, NoDup, Member
  <2>8. WaiterWakeable'
    <3>1. SUFFICES ASSUME NEW x \in Thread, Member(l, x), x # firing
                   PROVE  CanReady(x)'
      BY <1>2, <2>2 DEF WaiterWakeable, Member
    <3>2. Member(suspend_thread, x) /\ x # t
      BY <1>2, <3>1
    <3>3. CanReady(x)
      BY <3>1, <3>2, MemberWakeable
    <3>4. stat'[x] = stat[x] /\ ttmr_set'[x] = ttmr_set[x] /\ activated'[x] = activated[x]
      BY <2>1, <2>2, <2>4, <3>2 DEF TypeOK
    <3>5. QED BY <3>3, <3>4 DEF CanReady
  <2>9. NoStrandedWaiter'
    <3>1. SUFFICES ASSUME suspend_thread = <<>> PROVE l = <<>>
      BY <2>2 DEF NoStrandedWaiter
    <3>2. QED BY <3>1 DEF l, Unlink
  <2>10. HandlerInv'
    BY <2>2, <2>4 DEF HandlerInv, TypeOK
  <2>11. QED BY <2>5, <2>7, <2>8, <2>9, <2>10
<1>4. CASE Resume(t) /\ ~CanReady(t)
  <2> DEFINE T == {t} \cap {u \in Thread : CanReady(u)}
  <2>1. T = {}
    BY <1>4
  <2>2. /\ Ready({}, error)
        /\ ttmr_set' = [ttmr_set EXCEPT ![t] = FALSE]
        /\ UNCHANGED <<alive, flag, value, max_value, suspend_thread, prio, pc, tick, firing>>
    BY <1>4, <2>1 DEF Resume
  <2>3. UNCHANGED <<stat, error, activated, left>>
    BY <2>2 DEF Ready, TypeOK
  <2>4. TypeOK'
    BY <2>2, <2>3 DEF TypeOK
  <2>5. QED
    BY <2>2, <2>3, <2>4 DEF TypeOK, SuspListExact, Blocked, NoStrandedWaiter, WaiterWakeable, CanReady, HandlerInv
<1>5. CASE Detach(t)
  <2>1. /\ tick = "idle"
        /\ stat' = [stat EXCEPT ![t] = "close"]
        /\ suspend_thread' = l
        /\ activated' = [activated EXCEPT ![t] = FALSE]
        /\ pc' = [pc EXCEPT ![t] = "dead"]
        /\ UNCHANGED <<alive, value, ttmr_set, tick, firing>>
    BY <1>5 DEF Detach, InKernel, Running, l
  <2>2. TypeOK'
    BY <1>2, <1>5, <2>1 DEF Detach, TypeOK, Where
  <2>3. \A u \in Thread : Blocked(u)' <=> (Blocked(u) /\ u # t)
    BY <2>1 DEF TypeOK, Blocked
  <2>4. SuspListExact'
    BY <1>2, <2>1, <2>3 DEF SuspListExact, NoDup, Member
  <2>5. WaiterWakeable'
    <3>1. SUFFICES ASSUME NEW x \in Thread, Member(l, x), x # firing
                   PROVE  CanReady(x)'
      BY <1>2, <2>1 DEF WaiterWakeable, Member
    <3>2. Member(suspend_thread, x) /\ x # t
      BY <1>2, <3>1
    <3>3. CanReady(x)
      BY <3>1, <3>2, MemberWakeable
    <3>4. stat'[x] = stat[x] /\ ttmr_set'[x] = ttmr_set[x] /\ activated'[x] = activated[x]
      BY <2>1, <3>2 DEF TypeOK
    <3>5. QED BY <3>3, <3>4 DEF CanReady
  <2>6. NoStrandedWaiter'
    <3>1. SUFFICES ASSUME suspend_thread = <<>> PROVE l = <<>>
      BY <2>1 DEF NoStrandedWaiter
    <3>2. QED BY <3>1 DEF l, Unlink
  <2>7. HandlerInv'
    BY <2>1 DEF HandlerInv
  <2>8. QED BY <2>2, <2>4, <2>5, <2>6, <2>7
<1>6. QED BY <1>3, <1>4, <1>5

\* Every step of the SysTick handler preserves the invariant.
LEMMA SysTickStep ==
  ASSUME IInv, SysTick
  PROVE  IInv'
<1> USE DEF IInv
<1>1. CASE TickIncrease
  <2>1. TypeOK'
    BY <1>1 DEF TickIncrease, TypeOK, semVars, thrVars
  <2>2. QED
    BY <1>1, <2>1 DEF TickIncrease, SuspListExact, Blocked, NoStrandedWaiter, WaiterWakeable,
                      CanReady, HandlerInv, semVars, thrVars
<1>2. CASE TimerCheckPick
  <2>1. PICK p \in Thread : activated' = [activated EXCEPT ![p] = FALSE] /\ firing' = p
    BY <1>2 DEF TimerCheckPick, Expired
  <2>2. /\ tick \in {"check", "fired"} /\ tick' = "fire"
        /\ UNCHANGED <<alive, flag, value, max_value, suspend_thread, stat, error, prio, pc, ttmr_set, left>>
    BY <1>2 DEF TimerCheckPick, semVars, thrVars
  <2>3. TypeOK'
    BY <2>1, <2>2 DEF TypeOK
  <2>4. \A x \in Thread : Member(suspend_thread, x) => x # firing
    BY <2>2 DEF HandlerInv, SuspListExact, Blocked, Member
  <2>5. WaiterWakeable'
    <3>1. SUFFICES ASSUME NEW x \in Thread, Member(suspend_thread, x), x # p
                   PROVE  CanReady(x)'
      BY <2>1, <2>2 DEF WaiterWakeable, Member, TypeOK
    <3>2. CanReady(x)
      BY <2>4, <3>1, MemberWakeable
    <3>3. QED BY <2>1, <2>2, <3>1, <3>2 DEF CanReady, TypeOK
  <2>6. QED
    BY <2>1, <2>2, <2>3, <2>5 DEF SuspListExact, Blocked, NoStrandedWaiter, HandlerInv
<1>3. CASE TimerCheckDone
  <2>1. /\ tick \in {"check", "fired"} /\ tick' = "idle" /\ firing' = NoThread
        /\ UNCHANGED <<alive, flag, value, max_value, suspend_thread, stat, error, prio, pc>>
        /\ UNCHANGED <<ttmr_set, activated, left>>
    BY <1>3 DEF TimerCheckDone, semVars, thrVars, tmrVars
  <2>2. TypeOK'
    BY <2>1 DEF TypeOK
  <2>3. \A x \in Thread : Member(suspend_thread, x) => x # firing
    BY <2>1 DEF HandlerInv, SuspListExact, Blocked, Member
  <2>4. WaiterWakeable'
    <3>1. SUFFICES ASSUME NEW x \in Thread, Member(suspend_thread, x)
                   PROVE  CanReady(x)'
      BY <2>1 DEF WaiterWakeable, Member, TypeOK
    <3>2. CanReady(x)
      BY <2>3, <3>1, MemberWakeable
    <3>3. QED BY <2>1, <3>2 DEF CanReady
  <2>5. QED
    BY <2>1, <2>2, <2>4 DEF SuspListExact, Blocked, NoStrandedWaiter, HandlerInv
<1>4. CASE ThreadTimeout
  <2> DEFINE l == Unlink(suspend_thread, firing)
  <2>1. suspend_thread \in Seq(Thread) /\ NoDup(suspend_thread)
    BY DEF TypeOK, SuspListExact, NoDup
  <2>2. /\ l \in Seq(Thread) /\ NoDup(l)
        /\ \A x : Member(l, x) <=> (Member(suspend_thread, x) /\ x # firing)
    BY <2>1, UnlinkMembers
  <2> HIDE DEF l
  <2>3. /\ tick = "fire" /\ tick' = "fired"
        /\ suspend_thread' = l
        /\ stat' = [stat EXCEPT ![firing] = "ready"]
        /\ error' = [error EXCEPT ![firing] = "ETIMEOUT"]
        /\ UNCHANGED <<alive, flag, value, max_value, prio, pc, ttmr_set, activated, left, firing>>
    BY <1>4 DEF ThreadTimeout, tmrVars, l
  <2>4. firing \in Thread
    BY <2>3 DEF HandlerInv, TypeOK
  <2>5. TypeOK'
    BY <2>2, <2>3 DEF TypeOK, Err
  <2>6. \A u \in Thread : Blocked(u)' <=> (Blocked(u) /\ u # firing)
    BY <2>3, <2>4 DEF TypeOK, Blocked
  <2>7. SuspListExact'
    BY <2>2, <2>3, <2>6 DEF SuspListExact, NoDup, Member
  <2>8. WaiterWakeable'
    <3>1. SUFFICES ASSUME NEW x \in Thread, Member(l, x)
                   PROVE  CanReady(x)'
      BY <2>2, <2>3 DEF WaiterWakeable, Member
    <3>2. Member(suspend_thread, x) /\ x # firing
      BY <2>2, <3>1
    <3>3. CanReady(x)
      BY <3>2, MemberWakeable
    <3>4. QED BY <2>3, <3>2, <3>3 DEF CanReady, TypeOK
  <2>9. NoStrandedWaiter'
    <3>1. SUFFICES ASSUME suspend_thread = <<>> PROVE l = <<>>
      BY <2>3 DEF NoStrandedWaiter
    <3>2. QED BY <3>1 DEF l, Unlink
  <2>10. HandlerInv'
    BY <2>3, <2>4 DEF HandlerInv, TypeOK
  <2>11. QED BY <2>5, <2>7, <2>8, <2>9, <2>10
<1>5. QED BY <1>1, <1>2, <1>3, <1>4 DEF SysTick

-----------------------------------------------------------------------------
\* The invariant holds initially.
LEMMA InitInv == Init => IInv
<1> SUFFICES ASSUME Init PROVE IInv
  OBVIOUS
<1>1. TypeOK
  BY DEF Init, TypeOK, Where, Err
<1>2. SuspListExact /\ NoStrandedWaiter /\ WaiterWakeable /\ HandlerInv
  BY DEF Init, SuspListExact, Blocked, NoStrandedWaiter, WaiterWakeable, HandlerInv
<1>3. QED BY <1>1, <1>2 DEF IInv

\* Every step preserves it.
LEMMA NextInv == IInv /\ [Next]_vars => IInv'
<1> SUFFICES ASSUME IInv, [Next]_vars PROVE IInv'
  OBVIOUS
<1>1. CASE IsrRelease
  BY <1>1, ReleaseStep DEF IsrRelease
<1>2. CASE SysTick
  BY <1>2, SysTickStep
<1>3. ASSUME NEW t \in Thread,
             \/ Take(t) \/ \E n \in 0..MaxTimeout : Block(t, n)
             \/ TakeReturns(t)
             \/ ThreadRelease(t)
             \/ \E v \in 0..SemValueMax : Reset(t, v)
             \/ \E m \in 1..SemValueMax : SetVlimit(t, m)
             \/ Delete(t)
             \/ SleepSuspend(t) \/ \E n \in 1..MaxTimeout : SleepArm(t, n)
             \/ SleepReturns(t)
             \/ Resume(t)
             \/ Detach(t)
             \/ \E p \in 0..(PriorityMax - 1) : ChangePriority(t, p)
      PROVE  IInv'
  <2>1. CASE ThreadRelease(t)
    BY <2>1, ReleaseStep DEF ThreadRelease
  <2>2. QED
    BY <1>3, <2>1, ThreadStep, ControlStep, RemoveStep
<1>4. CASE UNCHANGED vars
  BY <1>4 DEF IInv, TypeOK, SuspListExact, Blocked, NoStrandedWaiter, WaiterWakeable, CanReady,
              HandlerInv, vars, semVars, thrVars, tmrVars
<1>5. QED
  BY <1>1, <1>2, <1>3, <1>4 DEF Next

\* The semaphore's invariant: the suspend list agrees with the thread states,
\* nobody waits while there are permits, every waiter can be resumed.
THEOREM SemInvariant == Spec => []IInv
<1>1. QED BY InitInv, NextInv, PTL DEF Spec

\* Type correctness of the semaphore, the threads and their timers.
THEOREM SemTypeCorrect == Spec => []TypeOK
<1>1. IInv => TypeOK
  BY DEF IInv
<1>2. QED BY <1>1, SemInvariant, PTL

\* rt_sem_take, rt_sem_release, timeouts, resets, resumes and detaches together
\* keep the suspend list exact.
THEOREM SemListExact == Spec => []SuspListExact
<1>1. IInv => SuspListExact
  BY DEF IInv
<1>2. QED BY <1>1, SemInvariant, PTL

\* Nobody waits on a semaphore that has permits or that was deleted.
THEOREM SemNoStranded == Spec => []NoStrandedWaiter
<1>1. IInv => NoStrandedWaiter
  BY DEF IInv
<1>2. QED BY <1>1, SemInvariant, PTL

\* Outside its own timeout window every waiter can be resumed by a release.
THEOREM SemWakeable == Spec => []WaiterWakeable
<1>1. IInv => WaiterWakeable
  BY DEF IInv
<1>2. QED BY <1>1, SemInvariant, PTL

-----------------------------------------------------------------------------
(* The order of the list.                                                  *)

\* A waiter that leaves the list does not disturb the order of the others.
LEMMA UnlinkSorted ==
  ASSUME NEW s \in Seq(Thread), NEW t, NEW p \in [Thread -> Int], Sorted(s, p)
  PROVE  Sorted(Unlink(s, t), p)
<1>1. CASE Member(s, t)
  <2> DEFINE k == CHOOSE i \in DOMAIN s : s[i] = t
  <2>1. k \in DOMAIN s /\ DOMAIN s = 1..Len(s)
    BY <1>1 DEF Member
  <2>2. Unlink(s, t) = RemoveAt(s, k)
    BY <1>1 DEF Unlink, Member
  <2> HIDE DEF k
  <2>3. ~Member(s, NoThread)
    BY DEF Member
  <2>4. SortedBut(s, p, NoThread)
    BY <2>3, SortedWithout
  <2>5. SortedBut(RemoveAt(s, k), p, NoThread) /\ RemoveAt(s, k) \in Seq(Thread)
    BY <2>1, <2>4, RemoveAtSorted, RemoveAtElements
  <2>6. ~Member(RemoveAt(s, k), NoThread)
    BY <2>5 DEF Member
  <2>7. QED BY <2>2, <2>5, <2>6, SortedWithout
<1>2. CASE ~Member(s, t)
  BY <1>2 DEF Unlink, Member
<1>3. QED BY <1>1, <1>2

\* The first waiter leaves.
LEMMA DequeueSorted ==
  ASSUME TypeOK, suspend_thread # <<>>, NEW err, Dequeue(err), Sorted(suspend_thread, prio)
  PROVE  Sorted(suspend_thread', prio)
<1> DEFINE s == suspend_thread
<1>1. suspend_thread' = Tail(s) \/ suspend_thread' = s
  BY DEF Dequeue
<1>2. s \in Seq(Thread) /\ Tail(s) \in Seq(Thread)
  BY DEF TypeOK
<1>3. ~Member(s, NoThread) /\ ~Member(Tail(s), NoThread)
  BY <1>2 DEF Member
<1>4. Sorted(Tail(s), prio)
  BY <1>2, <1>3, TailSorted, SortedWithout
<1>5. QED BY <1>1, <1>4

\* rt_susp_list_enqueue puts a thread at its place.
LEMMA BlockSorted ==
  ASSUME TypeOK, flag = "PRIO", Sorted(suspend_thread, prio),
         NEW t \in Thread, NEW n \in 0..MaxTimeout, Block(t, n)
  PROVE  Sorted(suspend_thread', prio)
<1> DEFINE s == suspend_thread
<1>1. s \in Seq(Thread) /\ Len(s) \in Nat
  BY DEF TypeOK
<1>2. PICK k \in 1..(Len(s) + 1) : EnqueueAt(t, k) /\ suspend_thread' = InsertAt(s, k, t)
  BY DEF Block
<1>3. prio \in [Thread -> Int]
  BY DEF TypeOK
<1>4. /\ \A j \in 1..(k - 1) : ~(prio[t] < prio[s[j]])
      /\ k <= Len(s) => prio[t] < prio[s[k]]
  BY <1>2 DEF EnqueueAt
<1>5. ASSUME NEW j \in 1..(k - 1) PROVE prio[s[j]] <= prio[t]
  <2>1. j \in 1..Len(s)
    BY <1>1, <1>2
  <2>2. prio[s[j]] \in Int /\ prio[t] \in Int
    BY <1>1, <1>3, <2>1
  <2>3. QED BY <1>4, <2>2
<1>6. k <= Len(s) => prio[t] <= prio[s[k]]
  <2>1. k <= Len(s) => prio[s[k]] \in Int /\ prio[t] \in Int
    BY <1>1, <1>2, <1>3
  <2>2. QED BY <1>4, <2>1
<1> HIDE DEF s
<1>7. Sorted(InsertAt(s, k, t), prio)
  BY <1>1, <1>2, <1>3, <1>5, <1>6, InsertAtSorted DEF s
<1>8. QED BY <1>2, <1>7

\* The queueing discipline is fixed, and only ChangePriority changes priorities.
LEMMA OrderFrame ==
  ASSUME [Next]_vars
  PROVE  /\ flag' = flag
         /\ prio' = prio \/ \E t \in Thread, p \in 0..(PriorityMax - 1) : ChangePriority(t, p)
<1>1. Release \/ SysTick \/ UNCHANGED vars => flag' = flag /\ prio' = prio
  BY DEF Release, SysTick, TickIncrease, TimerCheckPick, TimerCheckDone, ThreadTimeout,
         vars, semVars
<1>2. \A t \in Thread :
        /\ Take(t) \/ TakeReturns(t) \/ Delete(t) => flag' = flag /\ prio' = prio
        /\ \A n : Block(t, n) \/ Reset(t, n) \/ SetVlimit(t, n) => flag' = flag /\ prio' = prio
  BY DEF Take, TakeReturns, Delete, Block, Reset, SetVlimit, semVars
<1>3. \A t \in Thread :
        /\ SleepSuspend(t) \/ SleepReturns(t) => flag' = flag /\ prio' = prio
        /\ Resume(t) \/ Detach(t) => flag' = flag /\ prio' = prio
        /\ \A n : SleepArm(t, n) => flag' = flag /\ prio' = prio
  BY DEF SleepSuspend, SleepReturns, Resume, Detach, SleepArm, semVars
<1>4. \A t \in Thread : \A p : ChangePriority(t, p) => flag' = flag
  BY DEF ChangePriority, semVars
<1>5. QED BY <1>1, <1>2, <1>3, <1>4 DEF Next, IsrRelease, ThreadRelease

\* Every step but a change of priority keeps the order.
LEMMA StepSorted ==
  ASSUME IInv, [Next]_vars, prio' = prio, flag = "PRIO", Sorted(suspend_thread, prio)
  PROVE  Sorted(suspend_thread', prio)
<1>1. suspend_thread \in Seq(Thread) /\ TypeOK /\ prio \in [Thread -> Int]
  BY DEF IInv, TypeOK
<1>2. Sorted(<<>>, prio)
  BY DEF Sorted
<1>3. ASSUME Release PROVE Sorted(suspend_thread', prio)
  BY <1>1, <1>3, DequeueSorted DEF Release
<1>4. CASE SysTick
  BY <1>1, <1>4, UnlinkSorted DEF SysTick, TickIncrease, TimerCheckPick, TimerCheckDone,
     ThreadTimeout, semVars
<1>5. ASSUME NEW t \in Thread, NEW n \in 0..MaxTimeout, Block(t, n)
      PROVE  Sorted(suspend_thread', prio)
  BY <1>1, <1>5, BlockSorted
<1>6. ASSUME NEW t \in Thread, InKernel(t), ResumeAll("ERROR")
      PROVE  Sorted(suspend_thread', prio)
  <2>1. tick = "idle" /\ "ERROR" \in Err
    BY <1>6 DEF InKernel, Running, Err
  <2>2. suspend_thread' = <<>>
    BY <1>6, <2>1, ResumeAllEmpties DEF IInv
  <2>3. QED BY <1>2, <2>2
<1>7. ASSUME NEW t \in Thread,
             \/ \E v \in 0..SemValueMax : Reset(t, v)
             \/ \E m \in 1..SemValueMax : SetVlimit(t, m)
             \/ Delete(t)
      PROVE  Sorted(suspend_thread', prio)
  BY <1>6, <1>7 DEF Reset, SetVlimit, Delete
<1>8. ASSUME NEW t \in Thread, Resume(t) \/ Detach(t) PROVE Sorted(suspend_thread', prio)
  BY <1>1, <1>8, UnlinkSorted DEF Resume, Detach
<1>9. ASSUME NEW t \in Thread,
             \/ Take(t) \/ TakeReturns(t) \/ SleepSuspend(t)
             \/ \E n \in 1..MaxTimeout : SleepArm(t, n)
             \/ SleepReturns(t)
             \/ \E p \in 0..(PriorityMax - 1) : ChangePriority(t, p)
      PROVE  suspend_thread' = suspend_thread
  BY <1>9 DEF Take, TakeReturns, SleepSuspend, SleepArm, SleepReturns, ChangePriority, semVars
<1>10. CASE UNCHANGED vars
  BY <1>10 DEF vars, semVars
<1>11. QED
  BY <1>3, <1>4, <1>5, <1>7, <1>8, <1>9, <1>10 DEF Next, IsrRelease, ThreadRelease

\* With RT_IPC_FLAG_PRIO a list in order of priority stays in that order,
\* whoever enters it or leaves it early, until the priority of a thread in it
\* changes.
THEOREM SemOrderKept == Spec => OrderKept
<1>1. ASSUME IInv, [Next]_vars, QueuedByPriority,
             \A i \in DOMAIN suspend_thread : prio'[suspend_thread[i]] = prio[suspend_thread[i]]
      PROVE  QueuedByPriority'
  <2>1. SUFFICES ASSUME flag = "PRIO" PROVE Sorted(suspend_thread', prio')
    BY <1>1, OrderFrame DEF QueuedByPriority, Sorted
  <2>2. Sorted(suspend_thread, prio)
    BY <1>1, <2>1 DEF QueuedByPriority, Sorted
  <2>3. CASE prio' = prio
    BY <1>1, <2>1, <2>2, <2>3, StepSorted
  <2>4. CASE \E t \in Thread, p \in 0..(PriorityMax - 1) : ChangePriority(t, p)
    <3>1. suspend_thread' = suspend_thread
      BY <2>4 DEF ChangePriority, semVars
    <3>2. QED BY <1>1, <2>2, <3>1 DEF Sorted
  <2>5. QED BY <1>1, <2>3, <2>4, OrderFrame
<1>2. IInv /\ [Next]_vars =>
        [/\ QueuedByPriority
         /\ \A i \in DOMAIN suspend_thread : prio'[suspend_thread[i]] = prio[suspend_thread[i]]
         => QueuedByPriority']_vars
  BY <1>1
<1>3. QED BY <1>2, SemInvariant, PTL DEF Spec, OrderKept

-----------------------------------------------------------------------------
(* Permits.                                                                *)

\* A release whose first waiter can be resumed grants it exactly one permit.
LEMMA ReleaseGrants ==
  ASSUME IInv, Release, suspend_thread = <<>> => value < max_value,
         suspend_thread # <<>> => Head(suspend_thread) # firing
  PROVE  Permits' = Permits + 1
<1> DEFINE G == {t \in Thread : Granted(t)}
<1>1. IsFiniteSet(G)
  BY FS_Subset
<1>2. Cardinality(G) \in Nat /\ value \in Nat /\ max_value \in Nat
  BY <1>1, FS_CardinalityType DEF IInv, TypeOK
<1>3. CASE suspend_thread = <<>>
  <2>1. value' = value + 1 /\ UNCHANGED <<pc, stat, error>>
    BY <1>2, <1>3 DEF Release
  <2>2. G' = G
    BY <2>1 DEF Granted
  <2>3. Permits' = value' + Cardinality(G)
    BY <2>2 DEF Permits
  <2>4. Permits = value + Cardinality(G)
    BY DEF Permits
  <2> HIDE DEF G
  <2>5. QED BY <1>2, <2>1, <2>3, <2>4
<1>4. CASE suspend_thread # <<>>
  <2>1. Dequeue("EOK") /\ UNCHANGED <<value, pc>> /\ "EOK" \in Err
    BY <1>4 DEF Release, Err
  <2>2. PICK h \in Thread : h = Head(suspend_thread)
    BY <1>4, <2>1, DequeueFirst DEF IInv
  <2>3. Blocked(h) /\ Member(suspend_thread, h)
    BY <1>4, <2>1, <2>2, DequeueFirst, TailMembers DEF IInv, SuspListExact, Member
  <2>4. CanReady(h)
    BY <1>4, <2>2, <2>3, MemberWakeable DEF IInv
  <2>5. \A t \in Thread : /\ stat'[t] = IF t = h THEN "ready" ELSE stat[t]
                          /\ error'[t] = IF t = h THEN "EOK" ELSE error[t]
    <3>1. Ready({h} \cap {u \in Thread : CanReady(u)}, [u \in Thread |-> "EOK"])
      BY <2>1, <2>2 DEF Dequeue
    <3>2. \A t \in Thread : t \in {h} \cap {u \in Thread : CanReady(u)} <=> t = h
      BY <2>2, <2>4
    <3>3. QED BY <3>1, <3>2 DEF Ready
  <2>6. h \notin G /\ G' = G \cup {h}
    <3>1. ~Granted(h) /\ Granted(h)'
      BY <2>1, <2>3, <2>5 DEF Blocked, Granted
    <3>2. \A t \in Thread : t # h => (Granted(t)' <=> Granted(t))
      BY <2>1, <2>5 DEF Granted
    <3>3. \A t \in Thread : t \in G' <=> Granted(t)'
      OBVIOUS
    <3>4. \A t : t \in G' <=> t \in G \/ t = h
      BY <3>1, <3>2, <3>3
    <3>5. QED BY <3>1, <3>4
  <2>7. Cardinality(G \cup {h}) = Cardinality(G) + 1
    BY <1>1, <2>6, FS_AddElement
  <2>8. Permits' = value' + Cardinality(G')
    BY DEF Permits
  <2>9. Permits = value + Cardinality(G)
    BY DEF Permits
  <2> HIDE DEF G
  <2>10. QED BY <1>2, <2>1, <2>6, <2>7, <2>8, <2>9
<1>5. QED BY <1>3, <1>4

\* rt_sem_release that returns RT_EOK adds exactly one permit, to the value or
\* to the thread it resumes, unless that thread is timing out: no release is
\* lost and none is counted twice.
THEOREM SemReleaseAddsPermit == Spec => ReleaseAddsPermit
<1>1. IInv => [Release /\ (suspend_thread = <<>> => value < max_value)
                       /\ (suspend_thread # <<>> => Head(suspend_thread) # firing)
                 => Permits' = Permits + 1]_vars
  BY ReleaseGrants
<1>2. QED BY <1>1, SemInvariant, PTL DEF ReleaseAddsPermit
=============================================================================
