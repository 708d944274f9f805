--------------------------- MODULE Dwc2UrbProofs ---------------------------
(***************************************************************************)
(* For every set of URBs and channels: URB and channel are linked both     *)
(* ways or not at all unless a connect handler zeroed the URB, no wake-up  *)
(* is lost or stale, a waiting thread keeps its channel, and a submission  *)
(* that waited returns with its URB unlinked.                              *)
(***************************************************************************)
EXTENDS Dwc2Urb, TLAPS

\* The thread of u may still use its local chan: not once the URB was killed
\* before Start and nobody waits for it.
Claims(u) ==
  \/ pc[u] \in {"link", "wait", "firing", "timedout"}
  \/ pc[u] = "start" /\ (timeout[u] \/ hcpriv[u] # NoChan)

\* chan is set exactly between the allocation and its last use.
ChanInv ==
  \A u \in Urb : chan[u] # NoChan <=> pc[u] \in {"link", "start", "wait", "firing", "timedout"}

\* Ownership of channels: a claimed channel is allocated, claimed by one
\* thread, and no other URB is linked to it.
ClaimInv ==
  \A u \in Urb : Claims(u) =>
    /\ inuse[chan[u]]
    /\ \A v \in Urb \ {u} : hcpriv[v] # chan[u] /\ (Claims(v) => chan[v] # chan[u])

\* What a submission knows of its URB at each point.
PcInv ==
  \A u \in Urb :
    /\ pc[u] \in {"alloc", "link"} => hcpriv[u] = NoChan
    /\ pc[u] \in {"start", "wait", "firing", "timedout"} => hcpriv[u] \in {NoChan, chan[u]}
    /\ pc[u] \in {"wait", "firing", "timedout"} /\ hcpriv[u] # NoChan => timeout[u]
    /\ pc[u] \in {"kill", "killing"} => ~timeout[u]

\* Why a URB in progress is not submitted again: errorcode is BUSY, except for
\* a control transfer, whose thread always waits for it.
BusyInv ==
  \A u \in Urb :
    /\ u \notin Control /\ hcpriv[u] # NoChan => errorcode[u] = "BUSY"
    /\ u \in Control /\ hcpriv[u] # NoChan => pc[u] # "idle"
    /\ u \in Control /\ pc[u] \in {"alloc", "link", "start"} => timeout[u]

\* waitsem is 0 on a free channel and while a URB is linked or about to be,
\* and given to a waiter (or one about to wait) whose URB is done.
SemInv ==
  /\ \A c \in Chan : ~inuse[c] => waitsem[c] = 0
  /\ \A u \in Urb :
       /\ hcpriv[u] # NoChan => waitsem[hcpriv[u]] = 0
       /\ pc[u] = "link" => waitsem[chan[u]] = 0
       /\ (pc[u] = "wait" \/ (pc[u] = "start" /\ timeout[u])) /\ hcpriv[u] = NoChan
            => waitsem[chan[u]] = 1

\* Why a connect handler zeroes no URB that a thread waits for: between
\* disconnect and connect the timeouts of the class drivers' URBs are 0.
AttachInv ==
  /\ connected => \A u \in Urb : kpc[u] = "idle"
  /\ \A u \in Urb \ Control : attached \/ kpc[u] # "idle" \/ ~timeout[u]

IInv == TypeOK /\ LinkExact /\ ChanInv /\ ClaimInv /\ PcInv /\ BusyInv /\ SemInv /\ AttachInv

-----------------------------------------------------------------------------
(* One lemma per step of usbh_submit_urb, of the hub thread, of the tick   *)
(* handler and of the interrupt.                                           *)

\* The checks of usbh_submit_urb: a URB that passes them is not linked.
LEMMA SubmitStep ==
  ASSUME IInv, NEW u \in Urb, NEW sync \in BOOLEAN, Submit(u, sync)
  PROVE  IInv'
<1> USE UrbAssumption DEF IInv, TypeOK, Submit, Runs, chanVars, portVars
<1>1. TypeOK'
  BY DEF Where, ChanInv
<1>2. LinkExact'
  BY DEF LinkExact, ChanInv, ClaimInv, Claims, PcInv, SemInv
<1>3. ChanInv'
  BY DEF ChanInv
<1>4. ClaimInv'
  BY DEF ChanInv, LinkExact, ClaimInv, PcInv, Claims
<1>5. PcInv'
  BY DEF PcInv, BusyInv, ChanInv
<1>6. BusyInv'
  BY DEF PcInv, BusyInv, SemInv
<1>7. SemInv'
  BY DEF SemInv, PcInv, ClaimInv, ChanInv, Claims, LinkExact
<1>8. AttachInv'
  BY DEF AttachInv
<1>9. QED BY <1>1, <1>2, <1>3, <1>4, <1>5, <1>6, <1>7, <1>8

\* dwc2_chan_alloc: nobody knows a channel that is not in use.
LEMMA ChanAllocStep ==
  ASSUME IInv, NEW u \in Urb, ChanAlloc(u)
  PROVE  IInv'
<1> USE UrbAssumption DEF IInv, TypeOK, ChanAlloc, urbVars, portVars
<1>1. TypeOK'
  BY DEF Where, ChanInv
<1>2. LinkExact'
  BY DEF LinkExact, ChanInv, ClaimInv, Claims, PcInv, SemInv
<1>3. ChanInv'
  BY DEF ChanInv
<1>4. ClaimInv'
  BY DEF ChanInv, LinkExact, ClaimInv, PcInv, Claims
<1>5. PcInv'
  BY DEF PcInv, BusyInv, ChanInv
<1>6. BusyInv'
  BY DEF PcInv, BusyInv, SemInv
<1>7. SemInv'
  BY DEF SemInv, PcInv, ClaimInv, ChanInv, Claims, LinkExact
<1>8. AttachInv'
  BY DEF AttachInv
<1>9. QED BY <1>1, <1>2, <1>3, <1>4, <1>5, <1>6, <1>7, <1>8

\* The URB is tied to a channel that only this thread claims.
LEMMA LinkStep ==
  ASSUME IInv, NEW u \in Urb, Link(u)
  PROVE  IInv'
<1> USE UrbAssumption DEF IInv, TypeOK, Link, portVars
<1>1. TypeOK'
  BY DEF Where, ChanInv
<1>2. LinkExact'
  BY DEF LinkExact, ChanInv, ClaimInv, Claims, PcInv, SemInv
<1>3. ChanInv'
  BY DEF ChanInv
<1>4. ClaimInv'
  BY DEF ChanInv, LinkExact, ClaimInv, PcInv, Claims
<1>5. PcInv'
  BY DEF PcInv, BusyInv, ChanInv
<1>6. BusyInv'
  BY DEF PcInv, BusyInv, SemInv
<1>7. SemInv'
  BY DEF SemInv, PcInv, ClaimInv, ChanInv, Claims, LinkExact
<1>8. AttachInv'
  BY DEF AttachInv
<1>9. QED BY <1>1, <1>2, <1>3, <1>4, <1>5, <1>6, <1>7, <1>8

\* Starting a channel changes no ownership, even when the thread has lost it.
LEMMA StartStep ==
  ASSUME IInv, NEW u \in Urb, Start(u)
  PROVE  IInv'
<1> USE UrbAssumption DEF IInv, TypeOK, Start, ChanTransfer, urbVars, portVars
<1>1. TypeOK'
  BY DEF Where, Stage, ChanInv
<1>2. LinkExact'
  BY DEF LinkExact, ChanInv, ClaimInv, Claims, PcInv, SemInv
<1>3. ChanInv'
  BY DEF ChanInv
<1>4. ClaimInv'
  BY DEF ChanInv, LinkExact, ClaimInv, PcInv, Claims
<1>5. PcInv'
  BY DEF PcInv, BusyInv, ChanInv
<1>6. BusyInv'
  BY DEF PcInv, BusyInv, SemInv
<1>7. SemInv'
  BY DEF SemInv, PcInv, ClaimInv, ChanInv, Claims, LinkExact
<1>8. AttachInv'
  BY DEF AttachInv
<1>9. QED BY <1>1, <1>2, <1>3, <1>4, <1>5, <1>6, <1>7, <1>8

\* The wait succeeds: the URB is done, and the channel is given back clean.
LEMMA TakeSemStep ==
  ASSUME IInv, NEW u \in Urb, TakeSem(u)
  PROVE  IInv'
<1> USE UrbAssumption DEF IInv, TypeOK, TakeSem, ChanFree, portVars
<1>1. TypeOK'
  BY DEF Where, ChanInv
<1>2. LinkExact'
  BY DEF LinkExact, ChanInv, ClaimInv, Claims, PcInv, SemInv
<1>3. ChanInv'
  BY DEF ChanInv
<1>4. ClaimInv'
  BY DEF ChanInv, LinkExact, ClaimInv, PcInv, Claims
<1>5. PcInv'
  BY DEF PcInv, BusyInv, ChanInv
<1>6. BusyInv'
  BY DEF PcInv, BusyInv, SemInv
<1>7. SemInv'
  BY DEF SemInv, PcInv, ClaimInv, ChanInv, Claims, LinkExact
<1>8. AttachInv'
  BY DEF AttachInv
<1>9. QED BY <1>1, <1>2, <1>3, <1>4, <1>5, <1>6, <1>7, <1>8

\* After the timeout the thread gives up its channel, linked or not.
LEMMA ClearTimeoutStep ==
  ASSUME IInv, NEW u \in Urb, ClearTimeout(u)
  PROVE  IInv'
<1> USE UrbAssumption DEF IInv, TypeOK, ClearTimeout, chanVars, portVars
<1>1. TypeOK'
  BY DEF Where, ChanInv
<1>2. LinkExact'
  BY DEF LinkExact, ChanInv, ClaimInv, Claims, PcInv, SemInv
<1>3. ChanInv'
  BY DEF ChanInv
<1>4. ClaimInv'
  BY DEF ChanInv, LinkExact, ClaimInv, PcInv, Claims
<1>5. PcInv'
  BY DEF PcInv, BusyInv, ChanInv
<1>6. BusyInv'
  BY DEF PcInv, BusyInv, SemInv
<1>7. SemInv'
  BY DEF SemInv, PcInv, ClaimInv, ChanInv, Claims, LinkExact
<1>8. AttachInv'
  BY DEF AttachInv
<1>9. QED BY <1>1, <1>2, <1>3, <1>4, <1>5, <1>6, <1>7, <1>8

\* A URB without a channel is zeroed, if it is of a class driver.
LEMMA HubKillTestStep ==
  ASSUME IInv, NEW u \in Urb, HubKillTest(u)
  PROVE  IInv'
<1> USE UrbAssumption DEF IInv, TypeOK, HubKillTest, chanVars, portVars
<1>1. TypeOK'
  BY DEF Where, ChanInv
<1>2. LinkExact'
  BY DEF LinkExact, ChanInv, ClaimInv, Claims, PcInv, SemInv
<1>3. ChanInv'
  BY DEF ChanInv
<1>4. ClaimInv'
  BY DEF ChanInv, LinkExact, ClaimInv, PcInv, Claims
<1>5. PcInv'
  BY DEF PcInv, BusyInv, ChanInv
<1>6. BusyInv'
  BY DEF PcInv, BusyInv, SemInv
<1>7. SemInv'
  BY DEF SemInv, PcInv, ClaimInv, ChanInv, Claims, LinkExact
<1>8. AttachInv'
  BY DEF AttachInv
<1>9. QED BY <1>1, <1>2, <1>3, <1>4, <1>5, <1>6, <1>7, <1>8

\* The types after a URB and its channel have been separated.
LEMMA DoneTypes ==
  ASSUME IInv, NEW u \in Urb, NEW c \in Chan, hcpriv[u] = c,
         NEW err \in {"OK", "SHUTDOWN", "ERR"}, Done(u, c, err)
  PROVE  /\ inuse' \in [Chan -> BOOLEAN]
         /\ urb' \in [Chan -> Urb \cup {NoUrb}]
         /\ waitsem' \in [Chan -> 0..1]
         /\ hcpriv' \in [Urb -> Chan \cup {NoChan}]
         /\ errorcode' \in [Urb -> {"OK", "BUSY", "SHUTDOWN", "ERR"}]
<1>1. waitsem[c] = 0 /\ waitsem \in [Chan -> 0..1] /\ inuse \in [Chan -> BOOLEAN]
  BY UrbAssumption DEF IInv, SemInv, TypeOK
<1>2. waitsem' \in [Chan -> 0..1] /\ inuse' \in [Chan -> BOOLEAN]
  <2>1. CASE timeout[u]
    <3>1. waitsem' = waitsem \/ waitsem' = [waitsem EXCEPT ![c] = @ + 1]
      BY <2>1 DEF Done, SemGive
    <3>2. inuse' = inuse
      BY <2>1 DEF Done
    <3>3. QED BY <1>1, <3>1, <3>2
  <2>2. CASE ~timeout[u]
    BY <1>1, <2>2 DEF Done, ChanFree
  <2>3. QED BY <2>1, <2>2
<1>3. QED
  BY <1>2 DEF Done, IInv, TypeOK

\* usbh_kill_urb after the timeout.
LEMMA SelfKillStep ==
  ASSUME IInv, NEW u \in Urb, SelfKill(u)
  PROVE  IInv'
<1> USE UrbAssumption DEF IInv, TypeOK, SelfKill, KillUrb, Halt, chanVars, portVars
<1>1. TypeOK'
  <2>1. CASE hcpriv[u] = NoChan
    BY <2>1 DEF chanVars, Where
  <2>2. CASE hcpriv[u] # NoChan
    <3>1. hcpriv[u] \in Chan /\ Done(u, hcpriv[u], "SHUTDOWN")
      BY <2>2
    <3>2. /\ inuse' \in [Chan -> BOOLEAN]
          /\ urb' \in [Chan -> Urb \cup {NoUrb}]
          /\ waitsem' \in [Chan -> 0..1]
          /\ hcpriv' \in [Urb -> Chan \cup {NoChan}]
          /\ errorcode' \in [Urb -> {"OK", "BUSY", "SHUTDOWN", "ERR"}]
      BY <3>1, DoneTypes
    <3>3. hw' \in [Chan -> {"off", "run", "halted"}]
      BY <2>2, <3>1
    <3>4. pc' \in [Urb -> Where] /\ kpc' \in [Urb -> {"idle", "kill", "killing"}]
      BY DEF Where
    <3>5. timeout' \in [Urb -> BOOLEAN]
      OBVIOUS
    <3>6. UNCHANGED <<ep0_state, chan, portVars, fault>>
      BY <2>2
    <3>7. QED
      BY <3>2, <3>3, <3>4, <3>5, <3>6
  <2>3. QED BY <2>1, <2>2
<1>2. LinkExact'
  BY DEF LinkExact, ChanInv, ClaimInv, Claims, PcInv, SemInv, Done, SemGive, ChanFree
<1>3. ChanInv'
  BY DEF ChanInv
<1>4. ClaimInv'
  BY DEF ChanInv, LinkExact, ClaimInv, PcInv, Claims, Done, SemGive, ChanFree
<1>5. PcInv'
  BY DEF PcInv, BusyInv, ChanInv, Done
<1>6. BusyInv'
  BY DEF PcInv, BusyInv, SemInv, Done
<1>7. SemInv'
  BY DEF SemInv, PcInv, ClaimInv, ChanInv, Claims, LinkExact, Done, SemGive, ChanFree
<1>8. AttachInv'
  BY DEF AttachInv
<1>9. QED BY <1>1, <1>2, <1>3, <1>4, <1>5, <1>6, <1>7, <1>8

\* usbh_kill_urb by the hub thread, at any point of a submission.
LEMMA HubKillStep ==
  ASSUME IInv, NEW u \in Urb, HubKill(u)
  PROVE  IInv'
<1> USE UrbAssumption DEF IInv, TypeOK, HubKill, KillUrb, Halt, chanVars, portVars
<1>1. TypeOK'
  <2>1. CASE hcpriv[u] = NoChan
    BY <2>1 DEF chanVars, Where
  <2>2. CASE hcpriv[u] # NoChan
    <3>1. hcpriv[u] \in Chan /\ Done(u, hcpriv[u], IF u \in Control THEN "SHUTDOWN" ELSE "OK")
      BY <2>2
    <3>2. /\ inuse' \in [Chan -> BOOLEAN]
          /\ urb' \in [Chan -> Urb \cup {NoUrb}]
          /\ waitsem' \in [Chan -> 0..1]
          /\ hcpriv' \in [Urb -> Chan \cup {NoChan}]
          /\ errorcode' \in [Urb -> {"OK", "BUSY", "SHUTDOWN", "ERR"}]
      BY <3>1, DoneTypes
    <3>3. hw' \in [Chan -> {"off", "run", "halted"}]
      BY <2>2, <3>1
    <3>4. pc' \in [Urb -> Where] /\ kpc' \in [Urb -> {"idle", "kill", "killing"}]
      BY DEF Where
    <3>5. timeout' \in [Urb -> BOOLEAN]
      OBVIOUS
    <3>6. UNCHANGED <<ep0_state, chan, portVars, fault>>
      BY <2>2
    <3>7. QED
      BY <3>2, <3>3, <3>4, <3>5, <3>6
  <2>3. QED BY <2>1, <2>2
<1>2. LinkExact'
  BY DEF LinkExact, ChanInv, ClaimInv, Claims, PcInv, SemInv, Done, SemGive, ChanFree
<1>3. ChanInv'
  BY DEF ChanInv
<1>4. ClaimInv'
  BY DEF ChanInv, LinkExact, ClaimInv, PcInv, Claims, Done, SemGive, ChanFree
<1>5. PcInv'
  BY DEF PcInv, BusyInv, ChanInv, Done
<1>6. BusyInv'
  BY DEF PcInv, BusyInv, SemInv, Done
<1>7. SemInv'
  BY DEF SemInv, PcInv, ClaimInv, ChanInv, Claims, LinkExact, Done, SemGive, ChanFree
<1>8. AttachInv'
  BY DEF AttachInv
<1>9. QED BY <1>1, <1>2, <1>3, <1>4, <1>5, <1>6, <1>7, <1>8

\* dwc2_urb_waitup in the interrupt.
LEMMA DoneIrqStep ==
  ASSUME IInv, NEW c \in Chan, DoneIrq(c)
  PROVE  IInv'
<1>a. PICK v \in Urb, d \in Chan, err \in {"ERR", "OK"} : hcpriv[v] = d /\ Done(v, d, err)
  BY UrbAssumption DEF DoneIrq, IInv, TypeOK
<1>b. UNCHANGED <<timeout, pc, chan, kpc, connected, attached, orphan, fault>>
  BY DEF DoneIrq, portVars
<1>c. ep0_state' \in [Chan -> Stage] /\ hw' \in [Chan -> {"off", "run", "halted"}]
  BY DEF DoneIrq, IInv, TypeOK, Stage
<1> USE UrbAssumption DEF IInv, TypeOK
<1>1. TypeOK'
  BY <1>a, <1>b, <1>c, DoneTypes
<1>2. LinkExact'
  BY <1>a, <1>b DEF LinkExact, ChanInv, ClaimInv, Claims, PcInv, SemInv, Done, SemGive, ChanFree
<1>3. ChanInv'
  BY <1>a, <1>b DEF ChanInv
<1>4. ClaimInv'
  BY <1>a, <1>b DEF ChanInv, LinkExact, ClaimInv, PcInv, Claims, Done, SemGive, ChanFree
<1>5. PcInv'
  BY <1>a, <1>b DEF PcInv, BusyInv, ChanInv, Done
<1>6. BusyInv'
  BY <1>a, <1>b DEF PcInv, BusyInv, SemInv, Done
<1>7. SemInv'
  BY <1>a, <1>b DEF SemInv, PcInv, ClaimInv, ChanInv, Claims, LinkExact, Done, SemGive, ChanFree
<1>8. AttachInv'
  BY <1>b DEF AttachInv
<1>9. QED BY <1>1, <1>2, <1>3, <1>4, <1>5, <1>6, <1>7, <1>8

-----------------------------------------------------------------------------
(* The other steps.                                                        *)

\* Steps that move a program counter or the hardware, and no link, channel or
\* semaphore.
LEMMA QuietStep ==
  ASSUME IInv,
         \/ Disconnect \/ Connect
         \/ \E u \in Urb : ChanRange(u) \/ ChanNone(u) \/ TimerFires(u) \/ TakeTimesOut(u) \/ SelfKillTest(u)
         \/ \E c \in Chan : Halted(c) \/ StageIrq(c) \/ NullIrq(c)
         \/ UNCHANGED vars
  PROVE  IInv'
<1> USE UrbAssumption DEF IInv, TypeOK, LinkExact, ChanInv, ClaimInv, Claims, PcInv, BusyInv, SemInv,
                          AttachInv, portVars
<1>1. CASE Disconnect
  <2>1. UNCHANGED <<chanVars, urbVars, pc, chan, fault, orphan>> /\ ~connected' /\ ~attached'
    BY <1>1 DEF Disconnect
  <2>2. /\ kpc' \in [Urb -> {"idle", "kill", "killing"}]
        /\ \A u \in Urb : kpc'[u] = IF u \in Control \/ attached THEN "kill" ELSE "idle"
    BY <1>1 DEF Disconnect
  <2>3. connected' \in BOOLEAN /\ attached' \in BOOLEAN
    BY <1>1 DEF Disconnect
  <2>4. AttachInv'
    BY <1>1, <2>1, <2>2 DEF Disconnect, urbVars
  <2>5. QED BY <2>1, <2>2, <2>3, <2>4 DEF chanVars, urbVars
<1>2. CASE Connect
  BY <1>2 DEF Connect, Runs, chanVars
<1>12. ASSUME NEW u \in Urb, ChanRange(u) PROVE IInv'
  BY <1>12 DEF ChanRange, urbVars, Where
<1>3. ASSUME NEW u \in Urb, ChanNone(u) PROVE IInv'
  BY <1>3 DEF ChanNone, chanVars, urbVars, Where
<1>4. ASSUME NEW u \in Urb, TimerFires(u) PROVE IInv'
  BY <1>4 DEF TimerFires, chanVars, urbVars, Where
<1>5. ASSUME NEW u \in Urb, TakeTimesOut(u) PROVE IInv'
  BY <1>5 DEF TakeTimesOut, chanVars, urbVars, Where
<1>6. ASSUME NEW u \in Urb, SelfKillTest(u) PROVE IInv'
  BY <1>6 DEF SelfKillTest, chanVars, urbVars, Where
<1>7. ASSUME NEW c \in Chan, Halted(c) PROVE IInv'
  BY <1>7 DEF Halted, urbVars
<1>8. ASSUME NEW c \in Chan, StageIrq(c) PROVE IInv'
  <2>1. ep0_state' \in [Chan -> Stage]
    BY <1>8 DEF StageIrq, NextStages, Stage
  <2>2. QED
    BY <1>8, <2>1 DEF StageIrq, ChanTransfer
<1>9. ASSUME NEW c \in Chan, NullIrq(c) PROVE IInv'
  BY <1>9 DEF NullIrq, urbVars
<1>10. CASE UNCHANGED vars
  BY <1>10 DEF vars, chanVars, urbVars
<1>11. QED
  BY <1>1, <1>2, <1>3, <1>4, <1>5, <1>6, <1>7, <1>8, <1>9, <1>10, <1>12

\* The connect handlers zero class objects: a thread that waits has its channel
\* unlinked by then, and other channels that are linked become orphans.
LEMMA ClassConnectStep ==
  ASSUME IInv, ClassConnect
  PROVE  IInv'
<1> USE UrbAssumption DEF IInv, TypeOK, ClassConnect, Runs, chanVars
<1>a. \A u \in Urb : u \notin Control => ~timeout[u]
  BY DEF AttachInv
<1>b. \A u \in Urb : /\ hcpriv'[u] = IF u \in Control THEN hcpriv[u] ELSE NoChan
                     /\ timeout'[u] = timeout[u]
  <2>1. \A u \in Urb : hcpriv'[u] = IF u \in Control THEN hcpriv[u] ELSE NoChan
    OBVIOUS
  <2>2. \A u \in Urb : timeout'[u] = (u \in Control /\ timeout[u])
    OBVIOUS
  <2>3. \A u \in Urb : timeout'[u] = timeout[u]
    BY <1>a, <2>2
  <2>4. QED BY <2>1, <2>3
<1>1. TypeOK'
  <2>1. timeout' \in [Urb -> BOOLEAN] /\ attached' \in BOOLEAN
    OBVIOUS
  <2>2. QED BY <2>1
<1>2. LinkExact'
  BY <1>b DEF LinkExact
<1>3. ChanInv'
  BY DEF ChanInv
<1>4. ClaimInv'
  BY <1>b DEF ChanInv, ClaimInv, Claims
<1>5. PcInv'
  BY <1>b DEF PcInv
<1>6. BusyInv'
  BY <1>b DEF BusyInv
<1>7. SemInv'
  BY <1>a, <1>b DEF SemInv, PcInv
<1>8. AttachInv'
  BY DEF AttachInv
<1>9. QED BY <1>1, <1>2, <1>3, <1>4, <1>5, <1>6, <1>7, <1>8

-----------------------------------------------------------------------------
(* The theorems.                                                           *)

\* After usb_hc_init nothing is linked.
LEMMA InitInv == Init => IInv
<1> SUFFICES ASSUME Init PROVE IInv
  OBVIOUS
<1> USE UrbAssumption DEF Init
<1>1. TypeOK
  <2>1. connected \in BOOLEAN /\ attached \in BOOLEAN /\ fault \in BOOLEAN
    OBVIOUS
  <2>2. QED
    BY <2>1 DEF TypeOK, Where, Stage
<1>2. LinkExact /\ ChanInv /\ ClaimInv
  BY DEF LinkExact, ChanInv, ClaimInv, Claims
<1>3. PcInv /\ BusyInv /\ SemInv /\ AttachInv
  BY DEF PcInv, BusyInv, SemInv, AttachInv
<1>4. QED BY <1>1, <1>2, <1>3 DEF IInv

\* The parts of IInv are preserved together.
LEMMA NextInv == IInv /\ [Next]_vars => IInv'
  BY SubmitStep, ChanAllocStep, LinkStep, StartStep, TakeSemStep, ClearTimeoutStep,
     HubKillTestStep, SelfKillStep, HubKillStep, DoneIrqStep, QuietStep, ClassConnectStep DEF Next

\* The inductive invariant of usbh_submit_urb, usbh_kill_urb and the channel
\* interrupt holds always.
THEOREM UrbInvariant == Spec => []IInv
  BY InitInv, NextInv, PTL DEF Spec

\* The variables of the driver keep their types; in particular chan->waitsem is
\* never given twice.
THEOREM UrbTypeCorrect == Spec => []TypeOK
<1>1. IInv => TypeOK
  BY DEF IInv
<1>2. QED BY UrbInvariant, <1>1, PTL

\* urb->hcpriv and chan->urb are two ends of one link, and a linked channel is
\* allocated, whichever of interrupt, timeout and disconnection comes first; a
\* connect handler that zeroes a linked URB is the one exception.
THEOREM UrbLinkExact == Spec => []LinkExact
<1>1. IInv => LinkExact
  BY DEF IInv
<1>2. QED BY UrbInvariant, <1>1, PTL

\* A thread waiting in usb_osal_sem_take for a URB that is done finds waitsem
\* given.
THEOREM UrbNoLostWakeup == Spec => []NoLostWakeup
<1>1. IInv => NoLostWakeup
  BY DEF IInv, SemInv, NoLostWakeup
<1>2. QED BY UrbInvariant, <1>1, PTL

\* waitsem is not given while the waiter's URB is in progress.
THEOREM UrbNoStaleWakeup == Spec => []NoStaleWakeup
<1>1. IInv => NoStaleWakeup
  BY UrbAssumption DEF IInv, TypeOK, SemInv, PcInv, ChanInv, NoStaleWakeup
<1>2. QED BY UrbInvariant, <1>1, PTL

\* A thread that waits in usbh_submit_urb keeps its channel until it returns.
THEOREM UrbWaiterKeepsChan == Spec => []WaiterKeepsChan
<1>1. IInv => WaiterKeepsChan
  BY UrbAssumption DEF IInv, TypeOK, ClaimInv, Claims, ChanInv, WaiterKeepsChan
<1>2. QED BY UrbInvariant, <1>1, PTL

\* usbh_submit_urb returns with its URB unlinked, unless it returns from Start
\* with urb->timeout 0, not given or zeroed by a disconnection.
THEOREM UrbReturnsUnlinked == Spec => ReturnsUnlinked
<1> DEFINE A == \A u \in Urb : pc[u] # "idle" /\ pc'[u] = "idle"
                   => hcpriv'[u] = NoChan \/ (pc[u] = "start" /\ ~timeout[u])
<1>1. ASSUME IInv, Next PROVE A
  <2> SUFFICES ASSUME NEW v \in Urb, pc[v] # "idle", pc'[v] = "idle"
               PROVE  hcpriv'[v] = NoChan \/ (pc[v] = "start" /\ ~timeout[v])
    OBVIOUS
  <2> HIDE DEF A
  <2> USE UrbAssumption DEF IInv, TypeOK
  <2>1. CASE TakeSem(v)
    <3>1. waitsem[chan[v]] # 0 /\ hcpriv' = hcpriv
      BY <2>1 DEF TakeSem
    <3>2. hcpriv[v] \in {NoChan, chan[v]} /\ (hcpriv[v] # NoChan => waitsem[hcpriv[v]] = 0)
      BY <1>1, <2>1 DEF TakeSem, SemInv, PcInv
    <3>3. QED BY <3>1, <3>2
  <2>2. CASE SelfKillTest(v)
    BY <2>2 DEF SelfKillTest, urbVars
  <2>3. CASE SelfKill(v)
    <3>1. CASE hcpriv[v] = NoChan
      BY <1>1, <2>3, <3>1 DEF SelfKill, KillUrb
    <3>2. CASE hcpriv[v] # NoChan
      BY <1>1, <2>3, <3>2 DEF SelfKill, KillUrb, Done
    <3>3. QED BY <3>1, <3>2
  <2>4. CASE ChanRange(v) \/ ChanNone(v)
    <3>1. pc[v] = "alloc" /\ hcpriv' = hcpriv
      BY <2>4 DEF ChanRange, ChanNone, urbVars
    <3>2. QED BY <1>1, <3>1 DEF PcInv
  <2>5. CASE Start(v)
    BY <1>1, <2>5 DEF Start
  <2>6. TakeSem(v) \/ SelfKillTest(v) \/ SelfKill(v) \/ ChanRange(v) \/ ChanNone(v) \/ Start(v)
    BY <1>1 DEF Next, Disconnect, Connect, ClassConnect, Submit, ChanAlloc, ChanRange, ChanNone,
       Link, Start, TakeSem, TimerFires, TakeTimesOut, ClearTimeout, SelfKillTest, SelfKill,
       HubKillTest, HubKill, Halted, StageIrq, DoneIrq, NullIrq
  <2>7. QED BY <2>1, <2>2, <2>3, <2>4, <2>5, <2>6
<1>2. IInv /\ [Next]_vars => [A]_vars
  BY <1>1
<1>3. QED
  BY UrbInvariant, <1>2, PTL DEF Spec, ReturnsUnlinked
=============================================================================
