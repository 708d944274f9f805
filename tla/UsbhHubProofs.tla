--------------------------- MODULE UsbhHubProofs ---------------------------
(***************************************************************************)
(* For every debounce time, every queue and any number of devices: the hub *)
(* thread forgets no change of the root port, and decides only about a     *)
(* device that was there during all the passes it counted.                 *)
(***************************************************************************)
EXTENDS UsbhHub, TLAPS

\* A change of the port is signalled to the thread or about to be.
Signalled == pcdet \/ discint \/ csc

\* The interrupt keeps its promises: a connect that finds the port empty comes
\* with a disconnect, and the change flag with a message, until the thread has
\* received it and goes to read the flag.
FlagInv ==
    /\ pcdet /\ dev = 0 => discint
    /\ csc => intbuf
    /\ csc => mq > 0 \/ pc = "status" \/ (pc = "clear" /\ chg.csc)

\* The counters of the debounce loop.
LoopInv ==
    /\ pc \in {"read", "check", "unflag"} => stable < StableSteps
    /\ pc \in {"check", "unflag"} => time < TimeoutSteps
    /\ pc = "unflag" => stable = 0

\* Debouncing: with no change signalled the device is the one that was there
\* when the count began.
StableInv ==
    ~Signalled =>
        /\ pc = "read" /\ stable > 0 => dev = since
        /\ pc \in {"check", "decide"} => dev = since /\ seen = (dev # 0)

\* What makes the child right or a change signalled, at each point.
ChildInv ==
    ~Signalled =>
        /\ pc \in {"recv", "status"} \/ (pc = "clear" /\ ~chg.csc) => Matches \/ gaveup
        /\ pc = "after" => pena
        /\ pc = "enum" => child = dev

IInv == TypeOK /\ FlagInv /\ LoopInv /\ StableInv /\ ChildInv

\* usbh_hub_thread_wakeup leaves at least one message in the queue.
LEMMA WakeupRange ==
    ASSUME NEW n \in 0 .. QueueSize
    PROVE  Wakeup(n) \in 1 .. QueueSize
BY HubAssumption DEF Wakeup

\* A device is plugged in: the connect interrupt is pending.
LEMMA PlugInv == IInv /\ Plug => IInv'
<1> SUFFICES ASSUME IInv, Plug PROVE IInv'
    OBVIOUS
<1> USE HubAssumption DEF Plug, hw, shared, locals, result
<1>1. TypeOK'
    BY DEF IInv, TypeOK, LoopInv
<1>2. FlagInv'
    BY DEF IInv, TypeOK, FlagInv
<1>3. LoopInv'
    BY DEF IInv, TypeOK, LoopInv
<1>4. StableInv'
    BY DEF IInv, TypeOK, FlagInv, LoopInv, StableInv, Signalled
<1>5. ChildInv'
    BY DEF IInv, TypeOK, FlagInv, StableInv, ChildInv, Signalled, Matches
<1> QED
    BY <1>1, <1>2, <1>3, <1>4, <1>5 DEF IInv

\* A device leaves: the disconnect interrupt is pending, a pending connect
\* that now finds the port empty included.
LEMMA UnplugInv == IInv /\ Unplug => IInv'
<1> SUFFICES ASSUME IInv, Unplug PROVE IInv'
    OBVIOUS
<1> USE HubAssumption DEF Unplug, hw, shared, locals, result
<1>1. TypeOK'
  <2>1. pena' \in BOOLEAN /\ penchng' \in BOOLEAN
    BY DEF IInv, TypeOK
  <2> QED
    BY <2>1 DEF IInv, TypeOK, LoopInv
<1>2. FlagInv'
    BY DEF IInv, TypeOK, FlagInv
<1>3. LoopInv'
    BY DEF IInv, TypeOK, LoopInv
<1>4. StableInv'
    BY DEF IInv, TypeOK, FlagInv, LoopInv, StableInv, Signalled
<1>5. ChildInv'
    BY DEF IInv, TypeOK, FlagInv, StableInv, ChildInv, Signalled, Matches
<1> QED
    BY <1>1, <1>2, <1>3, <1>4, <1>5 DEF IInv

\* dwc2_port_irq_handler and the disconnect interrupt: the flag is set and,
\* in the same step, a message is in the queue, be it an older one because the
\* queue was full.
LEMMA PortIrqInv == IInv /\ PortIrq => IInv'
<1> SUFFICES ASSUME IInv, PortIrq PROVE IInv'
    OBVIOUS
<1> USE HubAssumption DEF PortIrq, hw, shared, locals, result
<1>1. TypeOK'
  <2>1. csc' \in BOOLEAN /\ pec' \in BOOLEAN /\ intbuf' \in BOOLEAN /\ gaveup' \in BOOLEAN
    BY DEF IInv, TypeOK
  <2>2. ({pena, pcdet, penchng, discint, csc, pec, intbuf, conn, seen, gaveup} \subseteq BOOLEAN)'
    BY <2>1 DEF IInv, TypeOK
  <2>3. mq' \in 0 .. QueueSize
    BY WakeupRange DEF IInv, TypeOK
  <2>4. pc' = pc
    OBVIOUS
  <2>5. plugs' = plugs /\ dev' = dev /\ child' = child /\ since' = since
        /\ failed' = failed /\ chg' = chg /\ stable' = stable /\ time' = time
    OBVIOUS
  <2> HIDE DEF PortIrq
  <2> QED
    BY <2>2, <2>3, <2>4, <2>5 DEF IInv, TypeOK
<1>2. FlagInv'
    BY WakeupRange DEF IInv, TypeOK, FlagInv
<1>3. LoopInv'
    BY DEF IInv, TypeOK, LoopInv
<1>4. StableInv'
    BY DEF IInv, TypeOK, FlagInv, LoopInv, StableInv, Signalled
<1>5. ChildInv'
    BY DEF IInv, TypeOK, FlagInv, StableInv, ChildInv, Signalled, Matches
<1> QED
    BY <1>1, <1>2, <1>3, <1>4, <1>5 DEF IInv

\* usbh_hub_thread: the last message is only consumed on the way to the flag,
\* because a set flag comes with the bit of int_buffer.
LEMMA ReceiveInv == IInv /\ Receive => IInv'
<1> SUFFICES ASSUME IInv, Receive PROVE IInv'
    OBVIOUS
<1> USE HubAssumption DEF Receive, hw, shared, locals, result
<1>1. TypeOK'
    BY DEF IInv, TypeOK, LoopInv
<1>2. FlagInv'
    BY DEF IInv, TypeOK, FlagInv
<1>3. LoopInv'
    BY DEF IInv, TypeOK, LoopInv
<1>4. StableInv'
    BY DEF IInv, TypeOK, FlagInv, LoopInv, StableInv, Signalled
<1>5. ChildInv'
    BY DEF IInv, TypeOK, FlagInv, StableInv, ChildInv, Signalled, Matches
<1> QED
    BY <1>1, <1>2, <1>3, <1>4, <1>5 DEF IInv

\* The status is read: a flag seen set makes the thread clear it and look.
LEMMA ReadStatusInv == IInv /\ ReadStatus => IInv'
<1> SUFFICES ASSUME IInv, ReadStatus PROVE IInv'
    OBVIOUS
<1> USE HubAssumption DEF ReadStatus, hw, shared, locals, result
<1>1. TypeOK'
    BY DEF IInv, TypeOK, LoopInv
<1>2. FlagInv'
    BY DEF IInv, TypeOK, FlagInv
<1>3. LoopInv'
    BY DEF IInv, TypeOK, LoopInv
<1>4. StableInv'
    BY DEF IInv, TypeOK, FlagInv, LoopInv, StableInv, Signalled
<1>5. ChildInv'
    BY DEF IInv, TypeOK, FlagInv, StableInv, ChildInv, Signalled, Matches
<1> QED
    BY <1>1, <1>2, <1>3, <1>4, <1>5 DEF IInv

\* The change bits are cleared: the debouncing that follows counts from zero,
\* and without a connection change there is none to forget.
LEMMA ClearChangesInv == IInv /\ ClearChanges => IInv'
<1> SUFFICES ASSUME IInv, ClearChanges PROVE IInv'
    OBVIOUS
<1> USE HubAssumption DEF ClearChanges, hw, shared, locals, result
<1>1. TypeOK'
  <2>1. csc' \in BOOLEAN /\ pec' \in BOOLEAN
    BY DEF IInv, TypeOK
  <2>2. ({pena, pcdet, penchng, discint, csc, pec, intbuf, conn, seen, gaveup} \subseteq BOOLEAN)'
    BY <2>1 DEF IInv, TypeOK
  <2>3. stable' \in 0 .. StableSteps /\ time' \in 0 .. TimeoutSteps
    BY DEF IInv, TypeOK
  <2>4. pc' \in {"read", "recv"}
    OBVIOUS
  <2>5. plugs' = plugs /\ dev' = dev /\ child' = child /\ since' = since
        /\ failed' = failed /\ chg' = chg /\ mq' = mq
    OBVIOUS
  <2> HIDE DEF ClearChanges
  <2> QED
    BY <2>2, <2>3, <2>4, <2>5 DEF IInv, TypeOK
<1>2. FlagInv'
    BY DEF IInv, TypeOK, FlagInv
<1>3. LoopInv'
    BY DEF IInv, TypeOK, LoopInv
<1>4. StableInv'
    BY DEF IInv, TypeOK, FlagInv, LoopInv, StableInv, Signalled
<1>5. ChildInv'
    BY DEF IInv, TypeOK, FlagInv, StableInv, ChildInv, Signalled, Matches
<1> QED
    BY <1>1, <1>2, <1>3, <1>4, <1>5 DEF IInv

\* The port is read: the first read of a count sets what it is compared with.
LEMMA DebounceReadInv == IInv /\ DebounceRead => IInv'
<1> SUFFICES ASSUME IInv, DebounceRead PROVE IInv'
    OBVIOUS
<1> USE HubAssumption DEF DebounceRead, hw, shared, locals, result
<1>1. TypeOK'
    BY DEF IInv, TypeOK, LoopInv
<1>2. FlagInv'
    BY DEF IInv, TypeOK, FlagInv
<1>3. LoopInv'
    BY DEF IInv, TypeOK, LoopInv
<1>4. StableInv'
    BY DEF IInv, TypeOK, FlagInv, LoopInv, StableInv, Signalled
<1>5. ChildInv'
    BY DEF IInv, TypeOK, FlagInv, StableInv, ChildInv, Signalled, Matches
<1> QED
    BY <1>1, <1>2, <1>3, <1>4, <1>5 DEF IInv

\* The flag is read: a change restarts the count.
LEMMA DebounceCheckInv == IInv /\ DebounceCheck => IInv'
<1> SUFFICES ASSUME IInv, DebounceCheck PROVE IInv'
    OBVIOUS
<1> USE HubAssumption DEF DebounceCheck, hw, shared, locals, result
<1>1. TypeOK'
    BY DEF IInv, TypeOK, LoopInv
<1>2. FlagInv'
    BY DEF IInv, TypeOK, FlagInv
<1>3. LoopInv'
    BY DEF IInv, TypeOK, LoopInv
<1>4. StableInv'
    BY DEF IInv, TypeOK, FlagInv, LoopInv, StableInv, Signalled
<1>5. ChildInv'
    BY DEF IInv, TypeOK, FlagInv, StableInv, ChildInv, Signalled, Matches
<1> QED
    BY <1>1, <1>2, <1>3, <1>4, <1>5 DEF IInv

\* The flag that was seen is cleared, with the count at zero.
LEMMA DebounceClearInv == IInv /\ DebounceClear => IInv'
<1> SUFFICES ASSUME IInv, DebounceClear PROVE IInv'
    OBVIOUS
<1> USE HubAssumption DEF DebounceClear, hw, shared, locals, result
<1>1. TypeOK'
  <2>1. time' \in 0 .. TimeoutSteps /\ child' \in 0 .. plugs
    BY DEF IInv, TypeOK, LoopInv
  <2> QED
    BY <2>1 DEF IInv, TypeOK
<1>2. FlagInv'
    BY DEF IInv, TypeOK, FlagInv
<1>3. LoopInv'
    BY DEF IInv, TypeOK, LoopInv
<1>4. StableInv'
    BY DEF IInv, TypeOK, FlagInv, LoopInv, StableInv, Signalled
<1>5. ChildInv'
    BY DEF IInv, TypeOK, FlagInv, StableInv, ChildInv, Signalled, Matches
<1> QED
    BY <1>1, <1>2, <1>3, <1>4, <1>5 DEF IInv

\* The loop ran out.
LEMMA DebounceFailsInv == IInv /\ DebounceFails => IInv'
<1> SUFFICES ASSUME IInv, DebounceFails PROVE IInv'
    OBVIOUS
<1> USE HubAssumption DEF DebounceFails, hw, shared, locals, result
<1>1. TypeOK'
    BY DEF IInv, TypeOK, LoopInv
<1>2. FlagInv'
    BY DEF IInv, TypeOK, FlagInv
<1>3. LoopInv'
    BY DEF IInv, TypeOK, LoopInv
<1>4. StableInv'
    BY DEF IInv, TypeOK, FlagInv, LoopInv, StableInv, Signalled
<1>5. ChildInv'
    BY DEF IInv, TypeOK, FlagInv, StableInv, ChildInv, Signalled, Matches
<1> QED
    BY <1>1, <1>2, <1>3, <1>4, <1>5 DEF IInv

\* The decision: an empty port releases the child.
LEMMA DecideInv == IInv /\ Decide => IInv'
<1> SUFFICES ASSUME IInv, Decide PROVE IInv'
    OBVIOUS
<1> USE HubAssumption DEF Decide, hw, shared, locals, result
<1>1. TypeOK'
  <2>1. time' \in 0 .. TimeoutSteps /\ child' \in 0 .. plugs
    BY DEF IInv, TypeOK, LoopInv
  <2> QED
    BY <2>1 DEF IInv, TypeOK
<1>2. FlagInv'
    BY DEF IInv, TypeOK, FlagInv
<1>3. LoopInv'
    BY DEF IInv, TypeOK, LoopInv
<1>4. StableInv'
    BY DEF IInv, TypeOK, FlagInv, LoopInv, StableInv, Signalled
<1>5. ChildInv'
    BY DEF IInv, TypeOK, FlagInv, StableInv, ChildInv, Signalled, Matches
<1> QED
    BY <1>1, <1>2, <1>3, <1>4, <1>5 DEF IInv

\* The reset of the port ends.
LEMMA ResetEndsInv == IInv /\ ResetEnds => IInv'
<1> SUFFICES ASSUME IInv, ResetEnds PROVE IInv'
    OBVIOUS
<1> USE HubAssumption DEF ResetEnds, hw, shared, locals, result
<1>1. TypeOK'
    BY DEF IInv, TypeOK, LoopInv
<1>2. FlagInv'
    BY DEF IInv, TypeOK, FlagInv
<1>3. LoopInv'
    BY DEF IInv, TypeOK, LoopInv
<1>4. StableInv'
    BY DEF IInv, TypeOK, FlagInv, LoopInv, StableInv, Signalled
<1>5. ChildInv'
    BY DEF IInv, TypeOK, FlagInv, StableInv, ChildInv, Signalled, Matches
<1> QED
    BY <1>1, <1>2, <1>3, <1>4, <1>5 DEF IInv

\* The port is seen enabled.
LEMMA PortEnabledInv == IInv /\ PortEnabled => IInv'
<1> SUFFICES ASSUME IInv, PortEnabled PROVE IInv'
    OBVIOUS
<1> USE HubAssumption DEF PortEnabled, hw, shared, locals, result
<1>1. TypeOK'
    BY DEF IInv, TypeOK, LoopInv
<1>2. FlagInv'
    BY DEF IInv, TypeOK, FlagInv
<1>3. LoopInv'
    BY DEF IInv, TypeOK, LoopInv
<1>4. StableInv'
    BY DEF IInv, TypeOK, FlagInv, LoopInv, StableInv, Signalled
<1>5. ChildInv'
    BY DEF IInv, TypeOK, FlagInv, StableInv, ChildInv, Signalled, Matches
<1> QED
    BY <1>1, <1>2, <1>3, <1>4, <1>5 DEF IInv

\* The child is set up for the device that is there.
LEMMA SetUpChildInv == IInv /\ SetUpChild => IInv'
<1> SUFFICES ASSUME IInv, SetUpChild PROVE IInv'
    OBVIOUS
<1> USE HubAssumption DEF SetUpChild, hw, shared, locals, result
<1>1. TypeOK'
    BY DEF IInv, TypeOK, LoopInv
<1>2. FlagInv'
    BY DEF IInv, TypeOK, FlagInv
<1>3. LoopInv'
    BY DEF IInv, TypeOK, LoopInv
<1>4. StableInv'
    BY DEF IInv, TypeOK, FlagInv, LoopInv, StableInv, Signalled
<1>5. ChildInv'
    BY DEF IInv, TypeOK, FlagInv, StableInv, ChildInv, Signalled, Matches
<1> QED
    BY <1>1, <1>2, <1>3, <1>4, <1>5 DEF IInv

\* The port is disabled again, so a disconnect has been signalled.
LEMMA NotEnabledInv == IInv /\ NotEnabled => IInv'
<1> SUFFICES ASSUME IInv, NotEnabled PROVE IInv'
    OBVIOUS
<1> USE HubAssumption DEF NotEnabled, hw, shared, locals, result
<1>1. TypeOK'
    BY DEF IInv, TypeOK, LoopInv
<1>2. FlagInv'
    BY DEF IInv, TypeOK, FlagInv
<1>3. LoopInv'
    BY DEF IInv, TypeOK, LoopInv
<1>4. StableInv'
    BY DEF IInv, TypeOK, FlagInv, LoopInv, StableInv, Signalled
<1>5. ChildInv'
    BY DEF IInv, TypeOK, FlagInv, StableInv, ChildInv, Signalled, Matches
<1> QED
    BY <1>1, <1>2, <1>3, <1>4, <1>5 DEF IInv

\* The enumeration ends well, with the device it was for.
LEMMA EnumerateOkInv == IInv /\ EnumerateOk => IInv'
<1> SUFFICES ASSUME IInv, EnumerateOk PROVE IInv'
    OBVIOUS
<1> USE HubAssumption DEF EnumerateOk, hw, shared, locals, result
<1>1. TypeOK'
    BY DEF IInv, TypeOK, LoopInv
<1>2. FlagInv'
    BY DEF IInv, TypeOK, FlagInv
<1>3. LoopInv'
    BY DEF IInv, TypeOK, LoopInv
<1>4. StableInv'
    BY DEF IInv, TypeOK, FlagInv, LoopInv, StableInv, Signalled
<1>5. ChildInv'
    BY DEF IInv, TypeOK, FlagInv, StableInv, ChildInv, Signalled, Matches
<1> QED
    BY <1>1, <1>2, <1>3, <1>4, <1>5 DEF IInv

\* The enumeration fails, and the device that is there is the one it was for.
LEMMA EnumerateFailsInv == IInv /\ EnumerateFails => IInv'
<1> SUFFICES ASSUME IInv, EnumerateFails PROVE IInv'
    OBVIOUS
<1> USE HubAssumption DEF EnumerateFails, hw, shared, locals, result
<1>1. TypeOK'
    BY DEF IInv, TypeOK, LoopInv
<1>2. FlagInv'
    BY DEF IInv, TypeOK, FlagInv
<1>3. LoopInv'
    BY DEF IInv, TypeOK, LoopInv
<1>4. StableInv'
    BY DEF IInv, TypeOK, FlagInv, LoopInv, StableInv, Signalled
<1>5. ChildInv'
    BY DEF IInv, TypeOK, FlagInv, StableInv, ChildInv, Signalled, Matches
<1> QED
    BY <1>1, <1>2, <1>3, <1>4, <1>5 DEF IInv

\* A port that is empty when the driver starts.
LEMMA InitInv == Init => IInv
<1> SUFFICES ASSUME Init PROVE IInv
    OBVIOUS
<1>1. TypeOK
  <2>1. {pena, pcdet, penchng, discint, csc, pec, intbuf, conn, seen, gaveup} \subseteq BOOLEAN
    BY DEF Init
  <2>2. chg \in [csc : BOOLEAN, pec : BOOLEAN]
    BY DEF Init
  <2>3. /\ plugs \in 0 .. MaxPlugs /\ {dev, child, since, failed} \subseteq 0 .. plugs
        /\ mq \in 0 .. QueueSize
        /\ stable \in 0 .. StableSteps /\ time \in 0 .. TimeoutSteps
    BY HubAssumption DEF Init
  <2> QED
    BY <2>1, <2>2, <2>3 DEF Init, TypeOK
<1>2. FlagInv /\ LoopInv /\ StableInv
    BY HubAssumption DEF Init, FlagInv, LoopInv, StableInv
<1>3. ChildInv
    BY DEF Init, ChildInv, Matches
<1> QED
    BY <1>1, <1>2, <1>3 DEF IInv

\* Every step of the user, of the interrupt and of the thread keeps IInv.
LEMMA NextInv == IInv /\ [Next]_vars => IInv'
<1> SUFFICES ASSUME IInv, [Next]_vars PROVE IInv'
    OBVIOUS
<1>1. CASE UNCHANGED vars
    BY <1>1
    DEF IInv, TypeOK, FlagInv, LoopInv, StableInv, ChildInv, Signalled, Matches,
        vars, hw, shared, locals, result
<1>2. CASE Plug
    BY <1>2, PlugInv
<1>3. CASE Unplug
    BY <1>3, UnplugInv
<1>4. CASE PortIrq
    BY <1>4, PortIrqInv
<1>5. CASE Receive
    BY <1>5, ReceiveInv
<1>6. CASE ReadStatus
    BY <1>6, ReadStatusInv
<1>7. CASE ClearChanges
    BY <1>7, ClearChangesInv
<1>8. CASE DebounceRead
    BY <1>8, DebounceReadInv
<1>9. CASE DebounceCheck
    BY <1>9, DebounceCheckInv
<1>10. CASE DebounceClear
    BY <1>10, DebounceClearInv
<1>11. CASE DebounceFails
    BY <1>11, DebounceFailsInv
<1>12. CASE Decide
    BY <1>12, DecideInv
<1>13. CASE ResetEnds
    BY <1>13, ResetEndsInv
<1>14. CASE PortEnabled
    BY <1>14, PortEnabledInv
<1>15. CASE SetUpChild
    BY <1>15, SetUpChildInv
<1>16. CASE NotEnabled
    BY <1>16, NotEnabledInv
<1>17. CASE EnumerateOk
    BY <1>17, EnumerateOkInv
<1>18. CASE EnumerateFails
    BY <1>18, EnumerateFailsInv
<1> QED
    BY <1>1, <1>2, <1>3, <1>4, <1>5, <1>6, <1>7, <1>8, <1>9,
       <1>10, <1>11, <1>12, <1>13, <1>14, <1>15, <1>16, <1>17, <1>18
    DEF Next, HubThread

\* The inductive invariant of the root hub, whatever the order of plugging,
\* interrupts and steps of the thread.
THEOREM HubInvariant == Spec => []IInv
BY InitInv, NextInv, PTL DEF Spec

\* The variables keep their types; in particular the queue never holds more
\* than QueueSize messages and the debounce counters stay in their bounds.
THEOREM HubTypeCorrect == Spec => []TypeOK
<1>1. IInv => TypeOK
    BY DEF IInv
<1> QED
    BY <1>1, HubInvariant, PTL

\* No change of the port is forgotten: a thread that waits for a message has
\* the right child, or a message on its way.
THEOREM HubChangePending == Spec => []ChangePending
<1>1. IInv => ChangePending
    BY DEF IInv, FlagInv, ChildInv, Signalled, ChangePending
<1> QED
    BY <1>1, HubInvariant, PTL

\* The debouncing decides about one device: no exchange between two reads that
\* both see a connection goes unnoticed.
THEOREM HubDecisionStable == Spec => []DecisionStable
<1>1. IInv => DecisionStable
    BY DEF IInv, StableInv, Signalled, DecisionStable
<1> QED
    BY <1>1, HubInvariant, PTL
=============================================================================
