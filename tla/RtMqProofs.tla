----------------------------- MODULE RtMqProofs -----------------------------
(***************************************************************************)
(* For every set of threads, every number of messages and every content:   *)
(* the linked lists of a message queue keep every message in exactly one   *)
(* place, no sender and no receiver is stranded, and the queue implements  *)
(* the abstract one of MsgQueue.                                           *)
(***************************************************************************)
EXTENDS RtMq, SeqLemmas, FiniteSetTheorems

Link0 == Slot \cup {Null}  \* what a pointer to a message can hold

\* The next pointers nx link the messages of q, in this order, behind p.
Chain(q, p, nx) ==
  /\ q \in Seq(Slot) /\ NoDup(q)
  /\ p = IF q = <<>> THEN Null ELSE q[1]
  /\ \A i \in 1..Len(q) : nx[q[i]] = IF i < Len(q) THEN q[i + 1] ELSE Null

\* Every message is in the list q of queued ones, in the list f of free ones or
\* in the hands of exactly one thread, by the local msg m and the place w of the
\* threads.
Owned(q, f, m, w) ==
  /\ \A x : ~(Member(q, x) /\ Member(f, x))
  /\ \A t \in Thread : w[t] \notin Holding => m[t] = Null
  /\ \A t \in Thread : w[t] \in Holding =>
       m[t] \in Slot /\ ~Member(q, m[t]) /\ ~Member(f, m[t])
  /\ \A t, u \in Thread : m[t] = m[u] /\ m[t] # Null => t = u
  /\ \A x \in Slot : Member(q, x) \/ Member(f, x) \/ \E t \in Thread : m[t] = x

\* The queued messages, and those a thread has filled or is about to deliver,
\* have a content.
Filled(q, c, m, w) ==
  /\ \A x : Member(q, x) => c[x] \in Msg
  /\ \A t \in Thread : w[t] \in {"link", "ulink", "taken"} => c[m[t]] \in Msg

\* The queue's messages are those of q and the free ones those of f.
Lists(q, f) ==
  /\ Chain(q, msg_queue_head, next) /\ Chain(f, msg_queue_free, next)
  /\ entry = Len(q)
  /\ msg_queue_tail = IF q = <<>> THEN Null ELSE q[Len(q)]
  /\ \A t \in Thread : pc[t] = "link" => next[msg[t]] = Null
  /\ Owned(q, f, msg, pc) /\ Filled(q, content, msg, pc)

ListInv == Lists(Path(msg_queue_head), Path(msg_queue_free))

\* A thread is in a suspend list exactly while it is suspended by the loop of
\* that list, and is there once.
WaitInv ==
  /\ NoDup(suspend_thread) /\ NoDup(suspend_sender_thread)
  /\ \A t \in Thread : Member(suspend_thread, t) <=> (stat[t] = "suspend" /\ pc[t] = "recv")
  /\ \A t \in Thread : Member(suspend_sender_thread, t) <=> (stat[t] = "suspend" /\ pc[t] = "send")
  /\ \A t \in Thread : stat[t] = "suspend" => pc[t] \in {"send", "recv"}

\* A sender whose timeout is being handled is still suspended: only threads
\* resume senders, and none runs meanwhile.
FireInv == firing # NoThread /\ pc[firing] = "send" => stat[firing] = "suspend"

IInv ==
  /\ TypeOK /\ ListInv /\ WaitInv /\ FireInv
  /\ NoStrandedSender /\ NoStrandedReceiver

-----------------------------------------------------------------------------
(* Lists of messages.                                                      *)

\* The number of messages is a number, and Null is not one of them.
LEMMA Slots == MaxMsgs \in Nat /\ MaxMsgs >= 1 /\ Null \notin Slot /\ Null = 0 /\ 1 \in Slot
BY MqAssumption DEF Slot, Null

\* There are finitely many threads, and NoThread and NoMsg are none.
LEMMA Finite == IsFiniteSet(Thread) /\ NoThread \notin Thread /\ NoMsg \notin Msg
BY MqAssumption

\* A list without duplicates has no more elements than there are.
LEMMA ShortList ==
  ASSUME NEW S, IsFiniteSet(S), NEW q \in Seq(S), NoDup(q)
  PROVE  /\ Len(q) \in Nat /\ Len(q) <= Cardinality(S)
         /\ IsFiniteSet({q[i] : i \in 1..Len(q)})
         /\ Cardinality({q[i] : i \in 1..Len(q)}) = Len(q)
<1>1. Len(q) \in Nat /\ DOMAIN q = 1..Len(q) /\ q \in [1..Len(q) -> S]
  BY LenProperties
<1> DEFINE R == {q[i] : i \in 1..Len(q)}
<1>2. q \in Injection(1..Len(q), S)
  BY <1>1 DEF NoDup, Injection, IsInjective
<1>3. q \in Bijection(1..Len(q), R)
  BY <1>1 DEF NoDup, Bijection, Injection, Surjection, IsInjective
<1>4. IsFiniteSet(1..Len(q)) /\ Cardinality(1..Len(q)) = Len(q)
  BY <1>1, FS_Interval
<1>5. Len(q) <= Cardinality(S)
  BY <1>2, <1>4, FS_Injection
<1>6. ExistsBijection(1..Len(q), R)
  BY <1>3 DEF ExistsBijection
<1> HIDE DEF R
<1>7. IsFiniteSet(R) /\ Cardinality(R) = Len(q)
  BY <1>4, <1>6, FS_Bijection
<1>8. QED BY <1>1, <1>5, <1>7 DEF R

\* A list of messages without duplicates.
LEMMA ShortPath ==
  ASSUME NEW q \in Seq(Slot), NoDup(q)
  PROVE  Len(q) \in Nat /\ Len(q) <= MaxMsgs /\ DOMAIN q = 1..Len(q)
<1>1. IsFiniteSet(Slot) /\ Cardinality(Slot) = MaxMsgs
  BY Slots, FS_Interval DEF Slot
<1>2. Len(q) <= Cardinality(Slot) /\ Len(q) \in Nat
  BY <1>1, ShortList
<1>3. QED BY <1>1, <1>2

\* One step of following the next pointers: f is where it leads from each place.
StepOf(p, nx, f) ==
  [i \in Slot |-> IF i = 1 THEN p ELSE IF f[i - 1] = Null THEN Null ELSE nx[f[i - 1]]]

LEMMA NodesChosen ==
  ASSUME NEW p, NEW nx
  PROVE  Nodes(p, nx) = CHOOSE f : f = StepOf(p, nx, f)
BY DEF Nodes, StepOf

\* The walk along a chain meets the messages of the chain.
LEMMA WalkChain ==
  ASSUME NEW q, NEW p, NEW nx, Chain(q, p, nx)
  PROVE  Walk(p, nx) = q
<1> DEFINE g == [i \in Slot |-> IF i <= Len(q) THEN q[i] ELSE Null]
           h == Nodes(p, nx)
<1>1. /\ q \in Seq(Slot) /\ NoDup(q) /\ p = IF q = <<>> THEN Null ELSE q[1]
      /\ \A i \in 1..Len(q) : nx[q[i]] = IF i < Len(q) THEN q[i + 1] ELSE Null
  BY DEF Chain
<1>2. Len(q) \in Nat /\ Len(q) <= MaxMsgs /\ DOMAIN q = 1..Len(q)
  BY <1>1, ShortPath
<1>3. \A i \in 1..Len(q) : q[i] \in Slot /\ q[i] # Null /\ i \in Slot
  BY <1>1, <1>2, Slots DEF Slot
<1>4. g = StepOf(p, nx, g)
  <2>1. ASSUME NEW i \in Slot
        PROVE  g[i] = IF i = 1 THEN p ELSE IF g[i - 1] = Null THEN Null ELSE nx[g[i - 1]]
    <3>1. i \in Nat /\ i >= 1
      BY Slots DEF Slot
    <3>2. CASE i = 1
      <4>1. q = <<>> <=> Len(q) = 0
        BY <1>1, EmptySeq
      <4>2. QED BY <1>1, <1>2, <3>2, <4>1
    <3>3. CASE i # 1
      <4>1. i - 1 \in Slot
        BY <3>1, <3>3, Slots DEF Slot
      <4>2. g[i - 1] = IF i - 1 <= Len(q) THEN q[i - 1] ELSE Null
        BY <4>1
      <4>3. g[i] = IF i <= Len(q) THEN q[i] ELSE Null
        OBVIOUS
      <4> HIDE DEF g
      <4>4. CASE i - 1 <= Len(q)
        <5>1. i - 1 \in 1..Len(q)
          BY <1>2, <3>1, <3>3, <4>4
        <5>2. nx[q[i - 1]] = IF i - 1 < Len(q) THEN q[(i - 1) + 1] ELSE Null
          BY <1>1, <5>1
        <5>3. (i - 1) + 1 = i /\ (i - 1 < Len(q) <=> i <= Len(q))
          BY <1>2, <3>1
        <5>4. g[i - 1] # Null
          BY <1>3, <4>2, <4>4, <5>1
        <5>5. QED BY <3>3, <4>2, <4>3, <4>4, <5>2, <5>3, <5>4
      <4>5. CASE ~(i - 1 <= Len(q))
        <5>1. ~(i <= Len(q))
          BY <1>2, <3>1, <4>5
        <5>2. QED BY <3>3, <4>2, <4>3, <4>5, <5>1
      <4>6. QED BY <4>4, <4>5
    <3>4. QED BY <3>2, <3>3
  <2>2. DOMAIN g = Slot
    OBVIOUS
  <2> HIDE DEF g
  <2>3. g = [i \in Slot |-> g[i]]
    BY <2>2 DEF g
  <2>4. [i \in Slot |-> g[i]] = StepOf(p, nx, g)
    BY <2>1, Zenon DEF StepOf
  <2>5. QED BY <2>3, <2>4
<1>5. h = StepOf(p, nx, h)
  BY <1>4, NodesChosen, Zenon
<1>6. \A i \in Slot : g[i] = IF i = 1 THEN p ELSE IF g[i - 1] = Null THEN Null ELSE nx[g[i - 1]]
  BY <1>4, Zenon DEF StepOf
<1>7. \A i \in Slot : h[i] = IF i = 1 THEN p ELSE IF h[i - 1] = Null THEN Null ELSE nx[h[i - 1]]
  BY <1>5, Zenon DEF StepOf
<1>8. DOMAIN g = Slot /\ \A i \in Slot : g[i] = IF i <= Len(q) THEN q[i] ELSE Null
  OBVIOUS
<1> HIDE DEF g, h
<1>9. \A i \in Slot : g[i] = h[i]
  <2> DEFINE D == {i \in Slot : g[i] # h[i]}
  <2>1. SUFFICES ASSUME D # {} PROVE FALSE
    OBVIOUS
  <2>2. D \subseteq Nat
    BY Slots DEF Slot
  <2> HIDE DEF D
  <2>3. PICK k \in D : \A j \in D : k <= j
    BY <2>1, <2>2, Least
  <2>4. k \in Slot /\ g[k] # h[k]
    BY <2>3 DEF D
  <2>5. CASE k = 1
    BY <1>6, <1>7, <2>4, <2>5
  <2>6. CASE k # 1
    <3>1. k - 1 \in Slot /\ ~(k <= k - 1)
      BY <2>4, <2>6, Slots DEF Slot
    <3>2. k - 1 \notin D
      BY <2>3, <3>1
    <3>3. g[k - 1] = h[k - 1]
      BY <3>1, <3>2 DEF D
    <3>4. QED BY <1>6, <1>7, <2>4, <2>6, <3>3
  <2>7. QED BY <2>5, <2>6
<1>10. {j \in Slot : h[j] # Null} = 1..Len(q)
  <2>1. \A j \in Slot : j \in Nat /\ j >= 1
    BY Slots DEF Slot
  <2>2. QED BY <1>2, <1>3, <1>8, <1>9, <2>1
<1>11. \A j \in 1..Len(q) : h[j] = q[j]
  BY <1>2, <1>3, <1>8, <1>9
<1>12. Walk(p, nx) = [i \in {j \in Slot : h[j] # Null} |-> h[i]]
  BY DEF Walk, h
<1>13. [i \in {j \in Slot : h[j] # Null} |-> h[i]] = [i \in 1..Len(q) |-> q[i]]
  BY <1>10, <1>11
<1>14. q = [i \in 1..Len(q) |-> q[i]]
  BY <1>1, <1>2
<1>15. QED BY <1>12, <1>13, <1>14
\* What a pointer to the first message of a list says about the list.
LEMMA ChainHead ==
  ASSUME NEW q, NEW p, NEW nx, Chain(q, p, nx)
  PROVE  /\ p \in Link0 /\ (p = Null <=> q = <<>>)
         /\ Len(q) \in Nat /\ Len(q) <= MaxMsgs /\ DOMAIN q = 1..Len(q)
         /\ q = <<>> <=> Len(q) = 0
         /\ q # <<>> => p = q[1] /\ p = Head(q) /\ Member(q, p)
         /\ \A x : Member(q, x) => x \in Slot
<1>1. /\ q \in Seq(Slot) /\ NoDup(q) /\ p = IF q = <<>> THEN Null ELSE q[1]
  BY DEF Chain
<1>2. Len(q) \in Nat /\ Len(q) <= MaxMsgs /\ DOMAIN q = 1..Len(q)
  BY <1>1, ShortPath
<1>3. q = <<>> <=> Len(q) = 0
  BY <1>1, EmptySeq
<1>4. \A i \in 1..Len(q) : q[i] \in Slot /\ q[i] # Null
  BY <1>1, <1>2, Slots
<1>5. \A x : Member(q, x) => x \in Slot
  BY <1>2, <1>4 DEF Member
<1>6. q # <<>> => 1 \in 1..Len(q)
  BY <1>2, <1>3
<1>7. q # <<>> => p = q[1] /\ p = Head(q) /\ Member(q, p)
  <2>1. Head(q) = q[1]
    OBVIOUS
  <2>2. QED BY <1>1, <1>2, <1>6, <2>1 DEF Member
<1>8. p \in Link0 /\ (p = Null <=> q = <<>>)
  BY <1>1, <1>4, <1>6 DEF Link0
<1>9. QED BY <1>2, <1>3, <1>5, <1>7, <1>8

\* Changing the pointers of other messages does not change a list.
LEMMA ChainFrame ==
  ASSUME NEW q, NEW p, NEW nx, NEW nx2, Chain(q, p, nx),
         \A x : Member(q, x) => nx2[x] = nx[x]
  PROVE  Chain(q, p, nx2)
<1>1. Len(q) \in Nat /\ DOMAIN q = 1..Len(q)
  BY ChainHead
<1>2. \A i \in 1..Len(q) : nx2[q[i]] = nx[q[i]]
  BY <1>1 DEF Member
<1>3. QED BY <1>2 DEF Chain

\* Taking the first message of a list.
LEMMA ChainTail ==
  ASSUME NEW q, NEW p, NEW nx, Chain(q, p, nx), p # Null
  PROVE  /\ q # <<>> /\ p \in Slot /\ Member(q, p) /\ p = Head(q)
         /\ Chain(Tail(q), nx[p], nx)
         /\ Len(Tail(q)) = Len(q) - 1
         /\ \A x : Member(Tail(q), x) <=> (Member(q, x) /\ x # p)
<1>1. /\ q \in Seq(Slot) /\ NoDup(q)
      /\ \A i \in 1..Len(q) : nx[q[i]] = IF i < Len(q) THEN q[i + 1] ELSE Null
  BY DEF Chain
<1>2. q # <<>> /\ p = q[1] /\ p = Head(q) /\ Member(q, p) /\ p \in Slot /\ Len(q) \in Nat /\ Len(q) # 0
  BY ChainHead
<1>3. /\ Tail(q) \in Seq(Slot) /\ NoDup(Tail(q))
      /\ \A x : Member(Tail(q), x) <=> (Member(q, x) /\ x # p)
  BY <1>1, <1>2, TailMembers
<1>4. /\ Len(Tail(q)) = Len(q) - 1
      /\ \A i \in 1..(Len(q) - 1) : Tail(q)[i] = q[i + 1]
  BY <1>1, <1>2, HeadTailProperties
<1>5. Tail(q) = <<>> <=> Len(q) = 1
  <2>1. Tail(q) = <<>> <=> Len(Tail(q)) = 0
    BY <1>3, EmptySeq
  <2>2. Len(q) \in Nat
    BY <1>2
  <2>3. QED BY <1>4, <2>1, <2>2
<1>6. nx[p] = IF Tail(q) = <<>> THEN Null ELSE Tail(q)[1]
  <2>1. nx[p] = IF 1 < Len(q) THEN q[1 + 1] ELSE Null
    BY <1>1, <1>2
  <2>2. Len(q) # 1 => 1 \in 1..(Len(q) - 1) /\ 1 < Len(q)
    <3>1. Len(q) \in Nat /\ Len(q) # 0
      BY <1>2
    <3>2. \A n \in Nat : n # 0 /\ n # 1 => 1 \in 1..(n - 1) /\ 1 < n
      OBVIOUS
    <3>3. QED BY <3>1, <3>2, Zenon
  <2>3. CASE Len(q) = 1
    BY <1>5, <2>1, <2>3
  <2>4. CASE Len(q) # 1
    BY <1>4, <1>5, <2>1, <2>2, <2>4
  <2>5. QED BY <2>3, <2>4
<1>7. ASSUME NEW i \in 1..(Len(q) - 1)
      PROVE  nx[Tail(q)[i]] = IF i < Len(q) - 1 THEN Tail(q)[i + 1] ELSE Null
  <2>1. i + 1 \in 1..Len(q) /\ (i + 1 < Len(q) <=> i < Len(q) - 1)
    BY <1>2
  <2>2. nx[q[i + 1]] = IF i + 1 < Len(q) THEN q[(i + 1) + 1] ELSE Null
    BY <1>1, <2>1
  <2>3. i < Len(q) - 1 => i + 1 \in 1..(Len(q) - 1)
    BY <1>2
  <2>4. QED BY <1>4, <2>1, <2>2, <2>3
<1>8. Chain(Tail(q), nx[p], nx)
  BY <1>3, <1>4, <1>6, <1>7 DEF Chain
<1>9. QED BY <1>2, <1>3, <1>4, <1>8

\* Putting a message in front of a list.
LEMMA ChainCons ==
  ASSUME NEW q, NEW p, NEW nx, NEW nx2, NEW s \in Slot,
         Chain(q, p, nx), ~Member(q, s), nx2[s] = p,
         \A x : Member(q, x) => nx2[x] = nx[x]
  PROVE  /\ Chain(<<s>> \o q, s, nx2)
         /\ Len(<<s>> \o q) = Len(q) + 1
         /\ \A x : Member(<<s>> \o q, x) <=> (Member(q, x) \/ x = s)
<1> DEFINE r == <<s>> \o q
<1>1. Chain(q, p, nx2)
  BY ChainFrame
<1>2. /\ q \in Seq(Slot) /\ NoDup(q) /\ p = IF q = <<>> THEN Null ELSE q[1]
      /\ \A i \in 1..Len(q) : nx2[q[i]] = IF i < Len(q) THEN q[i + 1] ELSE Null
  BY <1>1 DEF Chain
<1>3. Len(q) \in Nat /\ DOMAIN q = 1..Len(q) /\ (q = <<>> <=> Len(q) = 0)
  BY ChainHead
<1>4. <<s>> \in Seq(Slot) /\ Len(<<s>>) = 1 /\ <<s>>[1] = s
  OBVIOUS
<1>5. /\ r \in Seq(Slot) /\ Len(r) = Len(q) + 1 /\ r[1] = s
      /\ \A i \in 1..(Len(q) + 1) : r[i] = IF i = 1 THEN s ELSE q[i - 1]
  BY <1>2, <1>3, <1>4, ConcatProperties
<1> HIDE DEF r
<1>6. DOMAIN r = 1..(Len(q) + 1)
  BY <1>5, LenProperties
<1>7. \A i \in 1..Len(q) : r[i + 1] = q[i] /\ i + 1 \in DOMAIN r
  <2>1. \A i \in 1..Len(q) : i + 1 \in 1..(Len(q) + 1) /\ i + 1 # 1 /\ (i + 1) - 1 = i
    BY <1>3
  <2>2. QED BY <1>5, <1>6, <2>1
<1>8. \A i \in DOMAIN r : i = 1 \/ (i # 1 /\ i - 1 \in 1..Len(q) /\ r[i] = q[i - 1])
  <2>1. \A i \in 1..(Len(q) + 1) : i # 1 => i - 1 \in 1..Len(q)
    BY <1>3
  <2>2. QED BY <1>5, <1>6, <2>1
<1>9. \A x : Member(r, x) <=> (Member(q, x) \/ x = s)
  <2>1. ASSUME NEW x, Member(r, x) PROVE Member(q, x) \/ x = s
    BY <1>3, <1>5, <1>8, <2>1 DEF Member
  <2>2. ASSUME NEW x, Member(q, x) PROVE Member(r, x)
    <3>1. PICK i \in 1..Len(q) : q[i] = x
      BY <1>3, <2>2 DEF Member
    <3>2. QED BY <1>7, <3>1 DEF Member
  <2>3. 1 \in DOMAIN r
    BY <1>3, <1>6
  <2>4. Member(r, s)
    BY <1>5, <2>3 DEF Member
  <2>5. QED BY <2>1, <2>2, <2>4
<1>10. NoDup(r)
  <2>1. \A i \in 1..Len(q) : q[i] # s
    BY <1>3 DEF Member
  <2>2. \A i, j \in 1..Len(q) : q[i] = q[j] => i = j
    BY <1>2, <1>3 DEF NoDup
  <2>3. ASSUME NEW i \in DOMAIN r, NEW j \in DOMAIN r, r[i] = r[j] PROVE i = j
    <3>1. CASE i = 1
      BY <1>5, <1>8, <2>1, <2>3, <3>1
    <3>2. CASE j = 1
      BY <1>5, <1>8, <2>1, <2>3, <3>2
    <3>3. CASE i # 1 /\ j # 1
      <4>1. i - 1 = j - 1
        BY <1>8, <2>2, <2>3, <3>3
      <4>2. QED BY <1>3, <1>6, <4>1
    <3>4. QED BY <3>1, <3>2, <3>3
  <2>4. QED BY <2>3 DEF NoDup
<1>11. ASSUME NEW i \in 1..Len(r)
       PROVE  nx2[r[i]] = IF i < Len(r) THEN r[i + 1] ELSE Null
  <2>1. CASE i = 1
    <3>1. CASE q = <<>>
      BY <1>2, <1>3, <1>5, <2>1, <3>1
    <3>2. CASE q # <<>>
      <4>1. 1 \in 1..Len(q) /\ 1 < Len(r)
        BY <1>3, <1>5, <3>2
      <4>2. r[i + 1] = q[1]
        BY <1>7, <2>1, <4>1
      <4>3. QED BY <1>2, <1>5, <2>1, <3>2, <4>1, <4>2
    <3>3. QED BY <3>1, <3>2
  <2>2. CASE i # 1
    <3>1. i - 1 \in 1..Len(q) /\ r[i] = q[i - 1]
      BY <1>5, <1>6, <1>8, <2>2
    <3>2. nx2[q[i - 1]] = IF i - 1 < Len(q) THEN q[(i - 1) + 1] ELSE Null
      BY <1>2, <3>1
    <3>3. /\ (i - 1 < Len(q) <=> i < Len(r)) /\ (i - 1) + 1 = i
          /\ i < Len(r) => i \in 1..Len(q)
      BY <1>3, <1>5, <3>1
    <3>4. QED BY <1>7, <3>1, <3>2, <3>3
  <2>3. QED BY <2>1, <2>2
<1>12. r # <<>>
  BY <1>3, <1>5, EmptySeq
<1>13. Chain(r, s, nx2)
  BY <1>5, <1>10, <1>11, <1>12 DEF Chain
<1>14. QED BY <1>5, <1>9, <1>13 DEF r

\* Linking a message behind the last one of a list.
LEMMA ChainAppend ==
  ASSUME NEW q, NEW p, NEW nx, NEW nx2, NEW s \in Slot,
         Chain(q, p, nx), ~Member(q, s), nx2[s] = Null,
         q # <<>> => nx2[q[Len(q)]] = s,
         \A x : Member(q, x) /\ x # q[Len(q)] => nx2[x] = nx[x]
  PROVE  /\ Chain(Append(q, s), IF p = Null THEN s ELSE p, nx2)
         /\ Len(Append(q, s)) = Len(q) + 1
         /\ Append(q, s)[Len(q) + 1] = s
         /\ \A i \in 1..Len(q) : Append(q, s)[i] = q[i]
         /\ \A x : Member(Append(q, s), x) <=> (Member(q, x) \/ x = s)
<1> DEFINE r == Append(q, s)
<1>1. /\ q \in Seq(Slot) /\ NoDup(q) /\ p = IF q = <<>> THEN Null ELSE q[1]
      /\ \A i \in 1..Len(q) : nx[q[i]] = IF i < Len(q) THEN q[i + 1] ELSE Null
  BY DEF Chain
<1>2. Len(q) \in Nat /\ DOMAIN q = 1..Len(q) /\ (q = <<>> <=> Len(q) = 0) /\ (p = Null <=> q = <<>>)
  BY ChainHead
<1>3. /\ r \in Seq(Slot) /\ Len(r) = Len(q) + 1 /\ r[Len(q) + 1] = s
      /\ \A i \in 1..Len(q) : r[i] = q[i]
  BY <1>1, AppendProperties
<1> HIDE DEF r
<1>4. DOMAIN r = 1..(Len(q) + 1)
  BY <1>3, LenProperties
<1>5. \A i \in DOMAIN r : i = Len(q) + 1 \/ (i \in 1..Len(q) /\ i # Len(q) + 1)
  BY <1>2, <1>4
<1>6. Len(q) + 1 \in DOMAIN r /\ \A i \in 1..Len(q) : i \in DOMAIN r
  BY <1>2, <1>4
<1>7. \A x : Member(r, x) <=> (Member(q, x) \/ x = s)
  <2>1. ASSUME NEW x, Member(r, x) PROVE Member(q, x) \/ x = s
    BY <1>2, <1>3, <1>5, <2>1 DEF Member
  <2>2. ASSUME NEW x, Member(q, x) PROVE Member(r, x)
    BY <1>2, <1>3, <1>6, <2>2 DEF Member
  <2>3. Member(r, s)
    BY <1>3, <1>6 DEF Member
  <2>4. QED BY <2>1, <2>2, <2>3
<1>8. NoDup(r)
  <2>1. \A i \in 1..Len(q) : q[i] # s
    BY <1>2 DEF Member
  <2>2. \A i, j \in 1..Len(q) : q[i] = q[j] => i = j
    BY <1>1, <1>2 DEF NoDup
  <2>3. ASSUME NEW i \in DOMAIN r, NEW j \in DOMAIN r, r[i] = r[j] PROVE i = j
    BY <1>3, <1>5, <2>1, <2>2, <2>3
  <2>4. QED BY <2>3 DEF NoDup
<1>9. ASSUME NEW i \in 1..Len(r)
      PROVE  nx2[r[i]] = IF i < Len(r) THEN r[i + 1] ELSE Null
  <2>1. CASE i = Len(q) + 1
    BY <1>2, <1>3, <2>1
  <2>2. CASE i = Len(q)
    <3>1. q # <<>> /\ i \in 1..Len(q) /\ i < Len(r)
      BY <1>2, <1>3, <2>2
    <3>2. QED BY <1>3, <2>2, <3>1
  <2>3. CASE i < Len(q)
    <3>1. /\ i \in 1..Len(q) /\ i + 1 \in 1..Len(q) /\ i < Len(r) /\ i # Len(q) /\ Len(q) \in 1..Len(q)
      BY <1>2, <1>3, <2>3
    <3>2. q[i] # q[Len(q)] /\ Member(q, q[i])
      BY <1>1, <1>2, <3>1 DEF NoDup, Member
    <3>3. nx2[q[i]] = nx[q[i]] /\ nx[q[i]] = q[i + 1]
      BY <1>1, <2>3, <3>1, <3>2
    <3>4. QED BY <1>3, <3>1, <3>3
  <2>4. i = Len(q) + 1 \/ i = Len(q) \/ i < Len(q)
    <3>1. Len(q) \in Nat /\ i \in 1..(Len(q) + 1)
      BY <1>2, <1>3
    <3>2. QED BY <3>1
  <2>5. QED BY <2>1, <2>2, <2>3, <2>4
<1>10. r # <<>> /\ r[1] = IF p = Null THEN s ELSE p
  <2>1. r # <<>>
    BY <1>2, <1>3, EmptySeq
  <2>2. CASE q = <<>>
    BY <1>2, <1>3, <2>2
  <2>3. CASE q # <<>>
    <3>1. 1 \in 1..Len(q)
      BY <1>2, <2>3
    <3>2. QED BY <1>1, <1>2, <1>3, <2>3, <3>1
  <2>4. QED BY <2>1, <2>2, <2>3
<1>11. Chain(r, IF p = Null THEN s ELSE p, nx2)
  BY <1>3, <1>8, <1>9, <1>10 DEF Chain
<1>12. QED BY <1>3, <1>7, <1>11 DEF r

\* What rt_mq_control leaves in the free list: the messages of the queue q, the
\* last one first, in front of those of f.
Freed(q, f) ==
  [i \in 1..(Len(q) + Len(f)) |-> IF i <= Len(q) THEN q[Len(q) + 1 - i] ELSE f[i - Len(q)]]

\* Moving the messages of one list to another, one by one from its head.
LEMMA ChainFreed ==
  ASSUME NEW q, NEW p, NEW f, NEW pf, NEW nx, NEW nx2,
         Chain(q, p, nx), Chain(f, pf, nx),
         \A x : ~(Member(q, x) /\ Member(f, x)),
         \A i \in 1..Len(q) : nx2[q[i]] = IF i = 1 THEN pf ELSE q[i - 1],
         \A x : Member(f, x) => nx2[x] = nx[x]
  PROVE  /\ Chain(Freed(q, f), IF q = <<>> THEN pf ELSE q[Len(q)], nx2)
         /\ \A x : Member(Freed(q, f), x) <=> (Member(q, x) \/ Member(f, x))
<1> DEFINE r == Freed(q, f)
           m == Len(q)
           n == Len(f)
<1>1. Chain(f, pf, nx2)
  BY ChainFrame
<1>2. /\ q \in Seq(Slot) /\ NoDup(q) /\ f \in Seq(Slot) /\ NoDup(f)
      /\ pf = IF f = <<>> THEN Null ELSE f[1]
      /\ \A i \in 1..n : nx2[f[i]] = IF i < n THEN f[i + 1] ELSE Null
  BY <1>1 DEF Chain
<1>3. m \in Nat /\ DOMAIN q = 1..m /\ (q = <<>> <=> m = 0)
  BY ChainHead
<1>4. n \in Nat /\ DOMAIN f = 1..n /\ (f = <<>> <=> n = 0)
  BY ChainHead
<1>5. \A i \in 1..m : nx2[q[i]] = IF i = 1 THEN pf ELSE q[i - 1]
  OBVIOUS
<1>6. r = [i \in 1..(m + n) |-> IF i <= m THEN q[m + 1 - i] ELSE f[i - m]]
  BY DEF Freed
<1> HIDE DEF r, m, n
<1>7. \A i \in 1..(m + n) : \/ i <= m /\ m + 1 - i \in 1..m /\ r[i] = q[m + 1 - i]
                            \/ ~(i <= m) /\ i - m \in 1..n /\ r[i] = f[i - m]
  BY <1>3, <1>4, <1>6
<1>8. r \in Seq(Slot) /\ Len(r) = m + n /\ DOMAIN r = 1..(m + n)
  <2>1. \A i \in 1..m : q[i] \in Slot
    BY <1>2, <1>3
  <2>2. \A i \in 1..n : f[i] \in Slot
    BY <1>2, <1>4
  <2>3. \A i \in 1..(m + n) : r[i] \in Slot
    BY <1>7, <2>1, <2>2
  <2>4. r \in [1..(m + n) -> Slot] /\ m + n \in Nat
    BY <1>3, <1>4, <1>6, <2>3
  <2>5. QED BY <2>4, LenProperties
<1>9. \A i \in 1..m : m + 1 - i \in 1..(m + n) /\ r[m + 1 - i] = q[i]
  <2>1. \A i \in 1..m : m + 1 - i \in 1..(m + n) /\ m + 1 - i <= m /\ m + 1 - (m + 1 - i) = i
    BY <1>3, <1>4
  <2>2. QED BY <1>6, <2>1
<1>10. \A i \in 1..n : i + m \in 1..(m + n) /\ r[i + m] = f[i]
  <2>1. \A i \in 1..n : i + m \in 1..(m + n) /\ ~(i + m <= m) /\ (i + m) - m = i
    BY <1>3, <1>4
  <2>2. QED BY <1>6, <2>1
<1>11. \A x : Member(r, x) <=> (Member(q, x) \/ Member(f, x))
  <2>1. ASSUME NEW x, Member(r, x) PROVE Member(q, x) \/ Member(f, x)
    <3>1. PICK i \in 1..(m + n) : r[i] = x
      BY <1>8, <2>1 DEF Member
    <3>2. CASE i <= m
      BY <1>3, <1>7, <3>1, <3>2 DEF Member
    <3>3. CASE ~(i <= m)
      BY <1>4, <1>7, <3>1, <3>3 DEF Member
    <3>4. QED BY <3>2, <3>3
  <2>2. ASSUME NEW x, Member(q, x) PROVE Member(r, x)
    BY <1>3, <1>8, <1>9, <2>2 DEF Member
  <2>3. ASSUME NEW x, Member(f, x) PROVE Member(r, x)
    BY <1>4, <1>8, <1>10, <2>3 DEF Member
  <2>4. QED BY <2>1, <2>2, <2>3
<1>12. NoDup(r)
  <2>1. \A i \in 1..m, j \in 1..n : q[i] # f[j]
    BY <1>3, <1>4 DEF Member
  <2>2. \A i, j \in 1..m : q[i] = q[j] => i = j
    BY <1>2, <1>3 DEF NoDup
  <2>3. \A i, j \in 1..n : f[i] = f[j] => i = j
    BY <1>2, <1>4 DEF NoDup
  <2>4. ASSUME NEW i \in 1..(m + n), NEW j \in 1..(m + n), r[i] = r[j] PROVE i = j
    <3>1. CASE i <= m /\ j <= m
      <4>1. m + 1 - i = m + 1 - j
        BY <1>7, <2>2, <2>4, <3>1
      <4>2. QED BY <1>3, <1>4, <4>1
    <3>2. CASE ~(i <= m) /\ ~(j <= m)
      <4>1. i - m = j - m
        BY <1>7, <2>3, <2>4, <3>2
      <4>2. QED BY <1>3, <1>4, <4>1
    <3>3. CASE i <= m /\ ~(j <= m)
      BY <1>7, <2>1, <2>4, <3>3
    <3>4. CASE ~(i <= m) /\ j <= m
      BY <1>7, <2>1, <2>4, <3>4
    <3>5. QED BY <3>1, <3>2, <3>3, <3>4
  <2>5. QED BY <1>8, <2>4 DEF NoDup
<1>13. ASSUME NEW i \in 1..(m + n)
       PROVE  nx2[r[i]] = IF i < m + n THEN r[i + 1] ELSE Null
  <2>1. CASE i < m
    <3>1. /\ m + 1 - i \in 1..m /\ r[i] = q[m + 1 - i] /\ m + 1 - i # 1 /\ i < m + n
          /\ i + 1 \in 1..(m + n) /\ i + 1 <= m /\ m + 1 - (i + 1) = (m + 1 - i) - 1
      BY <1>3, <1>4, <1>7, <2>1
    <3>2. r[i + 1] = q[m + 1 - (i + 1)]
      BY <1>7, <3>1
    <3>3. QED BY <1>5, <3>1, <3>2
  <2>2. CASE i = m
    <3>1. r[i] = q[1] /\ 1 \in 1..m
      <4>1. m + 1 - i = 1 /\ i <= m /\ 1 \in 1..m
        BY <1>3, <1>4, <2>2
      <4>2. QED BY <1>7, <4>1
    <3>2. nx2[r[i]] = pf
      BY <1>5, <3>1
    <3>3. CASE n = 0
      <4>1. ~(i < m + n)
        BY <1>3, <1>4, <2>2, <3>3
      <4>2. QED BY <1>2, <1>4, <3>2, <3>3, <4>1
    <3>4. CASE n # 0
      <4>1. 1 \in 1..n /\ i < m + n /\ 1 + m = i + 1
        BY <1>3, <1>4, <2>2, <3>4
      <4>2. r[i + 1] = f[1]
        BY <1>10, <4>1
      <4>3. QED BY <1>2, <1>4, <3>2, <3>4, <4>1, <4>2
    <3>5. QED BY <3>3, <3>4
  <2>3. CASE i > m
    <3>1. /\ i - m \in 1..n /\ r[i] = f[i - m] /\ (i - m < n <=> i < m + n)
          /\ (i - m) + 1 = (i + 1) - m
      BY <1>3, <1>4, <1>7, <2>3
    <3>2. nx2[f[i - m]] = IF i - m < n THEN f[(i - m) + 1] ELSE Null
      BY <1>2, <3>1
    <3>3. i < m + n => r[i + 1] = f[(i + 1) - m]
      <4>1. i < m + n => i + 1 \in 1..(m + n) /\ ~(i + 1 <= m)
        BY <1>3, <1>4, <2>3
      <4>2. QED BY <1>7, <4>1
    <3>4. QED BY <3>1, <3>2, <3>3
  <2>4. QED BY <1>3, <1>4, <2>1, <2>2, <2>3
<1>14. (IF q = <<>> THEN pf ELSE q[m]) = IF r = <<>> THEN Null ELSE r[1]
  <2>1. r = <<>> <=> m + n = 0
    BY <1>8, EmptySeq
  <2>2. CASE m = 0
    <3>1. CASE n = 0
      BY <1>2, <1>3, <1>4, <2>1, <2>2, <3>1
    <3>2. CASE n # 0
      <4>1. 1 \in 1..n /\ 1 + m = 1 /\ m + n # 0
        BY <1>4, <2>2, <3>2
      <4>2. r[1] = f[1]
        BY <1>10, <4>1
      <4>3. QED BY <1>2, <1>3, <1>4, <2>1, <2>2, <3>2, <4>1, <4>2
    <3>3. QED BY <3>1, <3>2
  <2>3. CASE m # 0
    <3>1. m \in 1..m /\ m + 1 - m = 1 /\ m + n # 0
      BY <1>3, <1>4, <2>3
    <3>2. r[1] = q[m]
      BY <1>9, <3>1
    <3>3. QED BY <1>3, <2>1, <2>3, <3>1, <3>2
  <2>4. QED BY <2>2, <2>3
<1>15. Chain(r, IF q = <<>> THEN pf ELSE q[m], nx2)
  BY <1>8, <1>12, <1>13, <1>14 DEF Chain
<1>16. QED BY <1>11, <1>15 DEF r, m

\* The free list that rt_mq_init builds.
LEMMA ChainInit ==
  ASSUME NEW nx, nx = [s \in Slot |-> s - 1]
  PROVE  /\ Chain(<<>>, Null, nx)
         /\ \E f : /\ Chain(f, MaxMsgs, nx)
                   /\ \A x : Member(f, x) <=> x \in Slot
<1>1. Chain(<<>>, Null, nx)
  <2>1. <<>> \in Seq(Slot) /\ Len(<<>>) = 0 /\ DOMAIN <<>> = {}
    OBVIOUS
  <2>2. \A i \in 1..0 : FALSE
    OBVIOUS
  <2>3. NoDup(<<>>)
    BY <2>1 DEF NoDup
  <2>4. QED BY <2>1, <2>2, <2>3 DEF Chain
<1> DEFINE f == [i \in 1..MaxMsgs |-> MaxMsgs + 1 - i]
<1>2. \A i \in 1..MaxMsgs : MaxMsgs + 1 - i \in Slot /\ f[i] = MaxMsgs + 1 - i
  BY Slots DEF Slot
<1>3. DOMAIN f = 1..MaxMsgs /\ f \in [1..MaxMsgs -> Slot]
  BY <1>2
<1> HIDE DEF f
<1>4. f \in Seq(Slot) /\ Len(f) = MaxMsgs
  BY <1>3, Slots, LenProperties
<1>5. \A i, j \in 1..MaxMsgs : f[i] = f[j] => i = j
  BY <1>2, Slots
<1>6. NoDup(f)
  BY <1>3, <1>5 DEF NoDup
<1>7. \A x : Member(f, x) <=> x \in Slot
  <2>1. ASSUME NEW x, Member(f, x) PROVE x \in Slot
    BY <1>2, <1>3, <2>1 DEF Member
  <2>2. ASSUME NEW x \in Slot PROVE Member(f, x)
    <3>1. MaxMsgs + 1 - x \in 1..MaxMsgs /\ MaxMsgs + 1 - (MaxMsgs + 1 - x) = x
      BY Slots DEF Slot
    <3>2. f[MaxMsgs + 1 - x] = x
      BY <1>2, <3>1
    <3>3. QED BY <1>3, <3>1, <3>2 DEF Member
  <2>3. QED BY <2>1, <2>2
<1>8. ASSUME NEW i \in 1..MaxMsgs
      PROVE  nx[f[i]] = IF i < MaxMsgs THEN f[i + 1] ELSE Null
  <2>1. nx[f[i]] = (MaxMsgs + 1 - i) - 1
    BY <1>2
  <2>2. CASE i < MaxMsgs
    <3>1. i + 1 \in 1..MaxMsgs /\ (MaxMsgs + 1 - i) - 1 = MaxMsgs + 1 - (i + 1)
      BY <2>2, Slots
    <3>2. QED BY <1>2, <2>1, <2>2, <3>1
  <2>3. CASE ~(i < MaxMsgs)
    <3>1. (MaxMsgs + 1 - i) - 1 = Null
      BY <2>3, Slots
    <3>2. QED BY <2>1, <2>3, <3>1
  <2>4. QED BY <2>2, <2>3
<1>9. f # <<>> /\ f[1] = MaxMsgs
  <2>1. 1 \in 1..MaxMsgs /\ MaxMsgs + 1 - 1 = MaxMsgs /\ MaxMsgs # 0
    BY Slots
  <2>2. QED BY <1>2, <1>4, <2>1, EmptySeq
<1>10. Chain(f, MaxMsgs, nx)
  BY <1>4, <1>6, <1>8, <1>9 DEF Chain
<1>11. QED BY <1>1, <1>7, <1>10

-----------------------------------------------------------------------------
(* Who has a message.                                                      *)

\* The queue and the free list have the same part in Owned.
LEMMA OwnedSwap ==
  ASSUME NEW q, NEW f, NEW m, NEW w, Owned(q, f, m, w)
  PROVE  Owned(f, q, m, w)
BY DEF Owned

\* A thread takes the message s out of a list.
LEMMA OwnedTake ==
  ASSUME NEW q, NEW f, NEW f2, NEW m \in [Thread -> Link0], NEW w \in [Thread -> Where],
         NEW t \in Thread, NEW s \in Slot, NEW where \in Holding,
         Owned(q, f, m, w), w[t] \notin Holding, Member(f, s),
         \A x : Member(f2, x) <=> (Member(f, x) /\ x # s)
  PROVE  Owned(q, f2, [m EXCEPT ![t] = s], [w EXCEPT ![t] = where])
<1> DEFINE m2 == [m EXCEPT ![t] = s]
           w2 == [w EXCEPT ![t] = where]
<1>1. /\ m2[t] = s /\ w2[t] = where
      /\ \A u \in Thread : u # t => m2[u] = m[u] /\ w2[u] = w[u]
  OBVIOUS
<1> HIDE DEF m2, w2
<1>2. m[t] = Null /\ s # Null
  BY Slots DEF Owned
<1>3. \A x : ~(Member(q, x) /\ Member(f2, x))
  BY DEF Owned
<1>4. \A u \in Thread : w2[u] \notin Holding => m2[u] = Null
  BY <1>1 DEF Owned
<1>5. ASSUME NEW u \in Thread, w2[u] \in Holding
      PROVE  m2[u] \in Slot /\ ~Member(q, m2[u]) /\ ~Member(f2, m2[u])
  <2>1. CASE u = t
    BY <1>1, <2>1 DEF Owned
  <2>2. CASE u # t
    BY <1>1, <1>5, <2>2 DEF Owned
  <2>3. QED BY <2>1, <2>2
<1>6. \A u \in Thread : m[u] # s
  BY <1>2 DEF Owned
<1>7. \A u, v \in Thread : m2[u] = m2[v] /\ m2[u] # Null => u = v
  BY <1>1, <1>6 DEF Owned
<1>8. ASSUME NEW x \in Slot
      PROVE  Member(q, x) \/ Member(f2, x) \/ \E u \in Thread : m2[u] = x
  <2>1. CASE x = s
    BY <1>1, <2>1
  <2>2. CASE x # s
    <3>1. CASE \E u \in Thread : m[u] = x
      <4>1. PICK u \in Thread : m[u] = x
        BY <3>1
      <4>2. u # t
        BY <1>2, <4>1, Slots
      <4>3. QED BY <1>1, <4>1, <4>2
    <3>2. CASE Member(q, x) \/ Member(f, x)
      BY <2>2, <3>2
    <3>3. QED BY <3>1, <3>2 DEF Owned
  <2>3. QED BY <2>1, <2>2
<1>9. Owned(q, f2, m2, w2)
  BY <1>3, <1>4, <1>5, <1>7, <1>8 DEF Owned
<1>10. QED BY <1>9 DEF m2, w2

\* A thread puts its message into a list.
LEMMA OwnedGive ==
  ASSUME NEW q, NEW f, NEW f2, NEW m \in [Thread -> Link0], NEW w \in [Thread -> Where],
         NEW t \in Thread, Owned(q, f, m, w), w[t] \in Holding,
         \A x : Member(f2, x) <=> (Member(f, x) \/ x = m[t])
  PROVE  Owned(q, f2, [m EXCEPT ![t] = Null], [w EXCEPT ![t] = "run"])
<1> DEFINE m2 == [m EXCEPT ![t] = Null]
           w2 == [w EXCEPT ![t] = "run"]
<1>1. /\ m2[t] = Null /\ w2[t] = "run"
      /\ \A u \in Thread : u # t => m2[u] = m[u] /\ w2[u] = w[u]
  OBVIOUS
<1> HIDE DEF m2, w2
<1>2. m[t] \in Slot /\ m[t] # Null /\ "run" \notin Holding
  BY Slots DEF Owned, Holding
<1>3. \A x : ~(Member(q, x) /\ Member(f2, x))
  BY DEF Owned
<1>4. \A u \in Thread : w2[u] \notin Holding => m2[u] = Null
  BY <1>1 DEF Owned
<1>5. ASSUME NEW u \in Thread, w2[u] \in Holding
      PROVE  m2[u] \in Slot /\ ~Member(q, m2[u]) /\ ~Member(f2, m2[u])
  <2>1. u # t
    BY <1>1, <1>2, <1>5
  <2>2. m2[u] = m[u] /\ w[u] \in Holding
    BY <1>1, <1>5, <2>1
  <2>3. m[u] \in Slot /\ ~Member(q, m[u]) /\ ~Member(f, m[u])
    BY <2>2 DEF Owned
  <2>4. m[u] # m[t]
    BY <1>2, <2>1 DEF Owned
  <2>5. QED BY <2>2, <2>3, <2>4
<1>6. \A u, v \in Thread : m2[u] = m2[v] /\ m2[u] # Null => u = v
  BY <1>1 DEF Owned
<1>7. ASSUME NEW x \in Slot
      PROVE  Member(q, x) \/ Member(f2, x) \/ \E u \in Thread : m2[u] = x
  <2>1. CASE \E u \in Thread : m[u] = x
    <3>1. PICK u \in Thread : m[u] = x
      BY <2>1
    <3>2. QED BY <1>1, <3>1
  <2>2. CASE Member(q, x) \/ Member(f, x)
    BY <2>2
  <2>3. QED BY <2>1, <2>2 DEF Owned
<1>8. Owned(q, f2, m2, w2)
  BY <1>3, <1>4, <1>5, <1>6, <1>7 DEF Owned
<1>9. QED BY <1>8 DEF m2, w2

\* Messages go from one list to the other, or stay.
LEMMA OwnedMove ==
  ASSUME NEW q, NEW f, NEW q2, NEW f2, NEW m, NEW w, Owned(q, f, m, w),
         \A x : (Member(q2, x) \/ Member(f2, x)) <=> (Member(q, x) \/ Member(f, x)),
         \A x : ~(Member(q2, x) /\ Member(f2, x))
  PROVE  Owned(q2, f2, m, w)
BY DEF Owned

\* A thread goes on, with its message or without.
LEMMA OwnedStay ==
  ASSUME NEW q, NEW f, NEW m, NEW w, NEW w2, Owned(q, f, m, w),
         \A t \in Thread : w2[t] \in Holding <=> w[t] \in Holding
  PROVE  Owned(q, f, m, w2)
BY DEF Owned

\* The lists of the invariant are the ones that the code walks along.
LEMMA ListsPaths ==
  ASSUME NEW q, NEW f, Lists(q, f)
  PROVE  q = Path(msg_queue_head) /\ f = Path(msg_queue_free) /\ ListInv
<1>1. Chain(q, msg_queue_head, next) /\ Chain(f, msg_queue_free, next)
  BY DEF Lists
<1>2. q = Path(msg_queue_head) /\ f = Path(msg_queue_free)
  BY <1>1, WalkChain DEF Path
<1>3. QED BY <1>2 DEF ListInv

LEMMA ListsPathsPrimed ==
  ASSUME NEW q, NEW f, Lists(q, f)'
  PROVE  q = Path(msg_queue_head)' /\ f = Path(msg_queue_free)' /\ ListInv'
<1>1. PICK h, g, n : h = msg_queue_head' /\ g = msg_queue_free' /\ n = next'
  OBVIOUS
<1>2. Chain(q, h, n) /\ Chain(f, g, n)
  BY <1>1 DEF Lists
<1>3. q = Walk(h, n) /\ f = Walk(g, n)
  BY <1>2, WalkChain
<1>4. q = Path(msg_queue_head)' /\ f = Path(msg_queue_free)'
  BY <1>1, <1>3 DEF Path
<1>5. QED BY <1>4 DEF ListInv

\* What the lists say about the types of the control block.
LEMMA ListsType ==
  ASSUME NEW q, NEW f, Lists(q, f)'
  PROVE  /\ msg_queue_head' \in Link0 /\ msg_queue_tail' \in Link0 /\ msg_queue_free' \in Link0
         /\ entry' \in 0..MaxMsgs
<1>1. PICK h, g, n : h = msg_queue_head' /\ g = msg_queue_free' /\ n = next'
  OBVIOUS
<1>2. Chain(q, h, n) /\ Chain(f, g, n)
  BY <1>1 DEF Lists
<1>3. h \in Link0 /\ g \in Link0
  BY <1>2, ChainHead
<1>4. /\ Len(q) \in Nat /\ Len(q) <= MaxMsgs /\ DOMAIN q = 1..Len(q) /\ (q = <<>> <=> Len(q) = 0)
      /\ \A x : Member(q, x) => x \in Slot
  BY <1>2, ChainHead
<1>5. q # <<>> => Len(q) \in DOMAIN q
  BY <1>4
<1>6. q # <<>> => q[Len(q)] \in Slot
  BY <1>4, <1>5 DEF Member
<1>7. msg_queue_tail' = IF q = <<>> THEN Null ELSE q[Len(q)]
  BY DEF Lists
<1>8. msg_queue_tail' \in Link0
  BY <1>6, <1>7 DEF Link0
<1>9. entry' \in 0..MaxMsgs
  BY <1>4, Slots DEF Lists
<1>10. QED BY <1>1, <1>3, <1>8, <1>9

-----------------------------------------------------------------------------
(* What each step does to the lists.                                       *)

\* Steps that leave the messages alone.
LEMMA ListsSame ==
  ASSUME NEW q, NEW f, Lists(q, f), UNCHANGED <<listVars, content, msg>>,
         \A t \in Thread : pc'[t] = pc[t] \/ (pc[t] \notin Holding /\ pc'[t] \notin Holding)
  PROVE  Lists(q, f)'
<1>1. PICK w : w = pc'
  OBVIOUS
<1>2. \A t \in Thread : w[t] \in Holding <=> pc[t] \in Holding
  BY <1>1
<1>3. Owned(q, f, msg, pc)
  BY DEF Lists
<1>4. Owned(q, f, msg, w)
  BY <1>2, <1>3, OwnedStay
<1>5. \A t \in Thread : w[t] \in {"link", "ulink", "taken"} => w[t] = pc[t]
  BY <1>1 DEF Holding
<1>6. Filled(q, content, msg, w)
  BY <1>5 DEF Lists, Filled
<1>7. \A t \in Thread : w[t] = "link" => next[msg[t]] = Null
  BY <1>5 DEF Lists
<1>8. QED BY <1>1, <1>4, <1>6, <1>7 DEF Lists, listVars

\* Taking a message out of the free list.
LEMMA ReserveLists ==
  ASSUME NEW q, NEW f, TypeOK, Lists(q, f), NEW t \in Thread, NEW where \in {"copy", "ucopy"},
         pc[t] \notin Holding, Reserve(t, where)
  PROVE  f # <<>> /\ Len(Tail(f)) = Len(f) - 1 /\ Lists(q, Tail(f))'
<1>1. PICK s : s = msg_queue_free
  OBVIOUS
<1>2. /\ Chain(q, msg_queue_head, next) /\ Chain(f, s, next)
      /\ Owned(q, f, msg, pc) /\ Filled(q, content, msg, pc)
  BY <1>1 DEF Lists
<1>3. s # Null
  BY <1>1 DEF Reserve
<1>4. /\ f # <<>> /\ s \in Slot /\ Member(f, s) /\ Len(Tail(f)) = Len(f) - 1
      /\ Chain(Tail(f), next[s], next)
      /\ \A x : Member(Tail(f), x) <=> (Member(f, x) /\ x # s)
  BY <1>2, <1>3, ChainTail
<1>5. msg \in [Thread -> Link0] /\ pc \in [Thread -> Where] /\ where \in Holding
  BY DEF TypeOK, Link0, Holding
<1>6. Owned(q, Tail(f), [msg EXCEPT ![t] = s], [pc EXCEPT ![t] = where])
  BY <1>2, <1>4, <1>5, OwnedTake
<1>7. Filled(q, content, [msg EXCEPT ![t] = s], [pc EXCEPT ![t] = where])
  BY <1>2, <1>5 DEF Filled
<1>8. msg' = [msg EXCEPT ![t] = s] /\ pc' = [pc EXCEPT ![t] = where]
  BY <1>1 DEF Reserve
<1>9. \A u \in Thread : pc'[u] = "link" => next[msg'[u]] = Null
  BY <1>5, <1>8 DEF Lists
<1>10. /\ UNCHANGED <<msg_queue_head, msg_queue_tail, next, entry, content>>
       /\ msg_queue_free' = next[s]
  BY <1>1 DEF Reserve
<1>11. Lists(q, Tail(f))'
  BY <1>2, <1>4, <1>6, <1>7, <1>8, <1>9, <1>10 DEF Lists
<1>12. QED BY <1>4, <1>11

\* Filling a message, which is in no list.
LEMMA CopyLists ==
  ASSUME NEW q, NEW f, TypeOK, Lists(q, f), NEW t \in Thread, NEW m \in Msg, Copy(t, m)
  PROVE  Lists(q, f)'
<1>1. PICK s : s = msg[t]
  OBVIOUS
<1>2. /\ Chain(q, msg_queue_head, next) /\ Chain(f, msg_queue_free, next)
      /\ Owned(q, f, msg, pc) /\ Filled(q, content, msg, pc)
  BY DEF Lists
<1>3. /\ pc[t] \in {"copy", "ucopy"} /\ pc[t] \in Holding
      /\ content' = [content EXCEPT ![s] = m]
      /\ next' = IF pc[t] = "copy" THEN [next EXCEPT ![s] = Null] ELSE next
      /\ pc' = [pc EXCEPT ![t] = IF @ = "copy" THEN "link" ELSE "ulink"]
      /\ UNCHANGED <<msg_queue_head, msg_queue_tail, msg_queue_free, entry, msg>>
  BY <1>1 DEF Copy, Holding
<1>4. s \in Slot /\ ~Member(q, s) /\ ~Member(f, s) /\ s # Null
  BY <1>1, <1>2, <1>3, Slots DEF Owned
<1>5. /\ next \in [Slot -> Link0] /\ content \in [Slot -> Msg \cup {NoMsg}]
      /\ pc \in [Thread -> Where]
  BY DEF TypeOK, Link0
<1>6. PICK n, c, w : n = next' /\ c = content' /\ w = pc'
  OBVIOUS
<1>7. /\ \A x : Member(q, x) => x \in Slot
      /\ \A x : Member(f, x) => x \in Slot
  BY <1>2, ChainHead
<1>8. /\ \A x \in Slot : x # s => n[x] = next[x] /\ c[x] = content[x]
      /\ c[s] = m /\ (pc[t] = "copy" => n[s] = Null)
  BY <1>3, <1>4, <1>5, <1>6
<1>9. Chain(q, msg_queue_head, n)
  BY <1>2, <1>4, <1>7, <1>8, ChainFrame
<1>10. Chain(f, msg_queue_free, n)
  BY <1>2, <1>4, <1>7, <1>8, ChainFrame
<1>11. /\ w[t] = (IF pc[t] = "copy" THEN "link" ELSE "ulink")
       /\ \A u \in Thread : u # t => w[u] = pc[u]
  BY <1>3, <1>5, <1>6
<1>12. Owned(q, f, msg, w)
  <2>1. \A u \in Thread : w[u] \in Holding <=> pc[u] \in Holding
    BY <1>3, <1>11 DEF Holding
  <2>2. QED BY <1>2, <2>1, OwnedStay
<1>13. \A u \in Thread : u # t /\ pc[u] \in Holding => msg[u] \in Slot /\ msg[u] # s
  BY <1>1, <1>2, <1>4 DEF Owned
<1>14. Filled(q, c, msg, w)
  <2>1. \A x : Member(q, x) => c[x] \in Msg
    BY <1>2, <1>4, <1>7, <1>8 DEF Filled
  <2>2. ASSUME NEW u \in Thread, w[u] \in {"link", "ulink", "taken"} PROVE c[msg[u]] \in Msg
    <3>1. CASE u = t
      BY <1>1, <1>8, <3>1
    <3>2. CASE u # t
      <4>1. pc[u] \in {"link", "ulink", "taken"} /\ pc[u] \in Holding
        BY <1>11, <2>2, <3>2 DEF Holding
      <4>2. content[msg[u]] \in Msg /\ msg[u] \in Slot /\ msg[u] # s
        BY <1>2, <1>13, <3>2, <4>1 DEF Filled
      <4>3. QED BY <1>8, <4>2
    <3>3. QED BY <3>1, <3>2
  <2>3. QED BY <2>1, <2>2 DEF Filled
<1>15. ASSUME NEW u \in Thread, w[u] = "link" PROVE n[msg[u]] = Null
  <2>1. CASE u = t
    BY <1>1, <1>8, <1>11, <1>15, <2>1
  <2>2. CASE u # t
    <3>1. pc[u] = "link" /\ pc[u] \in Holding
      BY <1>11, <1>15, <2>2 DEF Holding
    <3>2. next[msg[u]] = Null /\ msg[u] \in Slot /\ msg[u] # s
      BY <1>13, <2>2, <3>1 DEF Lists
    <3>3. QED BY <1>8, <3>2
  <2>3. QED BY <2>1, <2>2
<1>16. QED BY <1>3, <1>6, <1>9, <1>10, <1>12, <1>14, <1>15 DEF Lists

\* Taking the first message out of the queue.
LEMMA TakeLists ==
  ASSUME NEW q, NEW f, TypeOK, Lists(q, f), NEW t \in Thread, pc[t] \notin Holding, RecvTake(t)
  PROVE  q # <<>> /\ Head(q) = msg_queue_head /\ Lists(Tail(q), f)'
<1>1. PICK s : s = msg_queue_head
  OBVIOUS
<1>2. /\ Chain(q, s, next) /\ Chain(f, msg_queue_free, next)
      /\ Owned(q, f, msg, pc) /\ Filled(q, content, msg, pc)
      /\ entry = Len(q) /\ msg_queue_tail = IF q = <<>> THEN Null ELSE q[Len(q)]
  BY <1>1 DEF Lists
<1>3. /\ Len(q) \in Nat /\ (s = Null <=> q = <<>>) /\ (q = <<>> <=> Len(q) = 0)
      /\ (q # <<>> => s = q[1])
  BY <1>2, ChainHead
<1>4. entry > 0 /\ q # <<>> /\ s # Null
  BY <1>2, <1>3 DEF RecvTake
<1>5. /\ s \in Slot /\ Member(q, s) /\ Len(Tail(q)) = Len(q) - 1 /\ s = Head(q)
      /\ Chain(Tail(q), next[s], next)
      /\ \A x : Member(Tail(q), x) <=> (Member(q, x) /\ x # s)
  BY <1>2, <1>4, ChainTail
<1>6. msg \in [Thread -> Link0] /\ pc \in [Thread -> Where] /\ "taken" \in Holding
  BY DEF TypeOK, Link0, Holding
<1>7. Owned(Tail(q), f, [msg EXCEPT ![t] = s], [pc EXCEPT ![t] = "taken"])
  <2>1. PICK where : where = "taken"
    OBVIOUS
  <2>2. Owned(f, q, msg, pc) /\ where \in Holding
    BY <1>2, <1>6, <2>1, OwnedSwap
  <2>3. Owned(f, Tail(q), [msg EXCEPT ![t] = s], [pc EXCEPT ![t] = where])
    BY <1>5, <1>6, <2>2, OwnedTake
  <2>4. QED BY <2>1, <2>3, OwnedSwap
<1>8. /\ msg' = [msg EXCEPT ![t] = s] /\ pc' = [pc EXCEPT ![t] = "taken"]
      /\ UNCHANGED <<msg_queue_free, next, content>>
      /\ msg_queue_head' = next[s] /\ entry' = entry - 1
      /\ msg_queue_tail' = IF msg_queue_tail = s THEN Null ELSE msg_queue_tail
  BY <1>1 DEF RecvTake
<1>9. Filled(Tail(q), content, [msg EXCEPT ![t] = s], [pc EXCEPT ![t] = "taken"])
  BY <1>2, <1>5, <1>6 DEF Filled
<1>10. \A u \in Thread : pc'[u] = "link" => next[msg'[u]] = Null
  BY <1>6, <1>8 DEF Lists
<1>11. msg_queue_tail' = IF Tail(q) = <<>> THEN Null ELSE Tail(q)[Len(Tail(q))]
  <2>1. q \in Seq(Slot) /\ NoDup(q) /\ Tail(q) \in Seq(Slot) /\ DOMAIN q = 1..Len(q)
    BY <1>2, <1>5, ChainHead DEF Chain
  <2>2. Tail(q) = <<>> <=> Len(Tail(q)) = 0
    BY <2>1, EmptySeq
  <2>3. Tail(q) = <<>> <=> Len(q) = 1
    BY <1>3, <1>5, <2>2
  <2>4. CASE Len(q) = 1
    BY <1>2, <1>3, <1>4, <1>8, <2>3, <2>4
  <2>5. CASE Len(q) # 1
    <3>1. /\ 1 \in 1..Len(q) /\ Len(q) \in 1..Len(q)
          /\ Len(q) - 1 \in 1..(Len(q) - 1) /\ (Len(q) - 1) + 1 = Len(q)
      <4>1. \A n \in Nat : n # 0 /\ n # 1 =>
              1 \in 1..n /\ n \in 1..n /\ n - 1 \in 1..(n - 1) /\ (n - 1) + 1 = n
        OBVIOUS
      <4>2. Len(q) # 0
        BY <1>3, <1>4
      <4>3. QED BY <1>3, <2>5, <4>1, <4>2, Zenon
    <3>2. q[1] # q[Len(q)]
      BY <2>1, <2>5, <3>1 DEF NoDup
    <3>3. Tail(q)[Len(q) - 1] = q[(Len(q) - 1) + 1]
      BY <1>4, <2>1, <3>1, HeadTailProperties
    <3>4. Tail(q)[Len(Tail(q))] = q[Len(q)]
      BY <1>5, <3>1, <3>3
    <3>5. QED BY <1>2, <1>3, <1>4, <1>8, <2>3, <2>5, <3>2, <3>4
  <2>6. QED BY <2>4, <2>5
<1>12. Lists(Tail(q), f)'
  BY <1>2, <1>5, <1>7, <1>8, <1>9, <1>10, <1>11 DEF Lists
<1>13. QED BY <1>1, <1>4, <1>5, <1>12

\* Putting a message back into the free list.
LEMMA FreeLists ==
  ASSUME NEW q, NEW f, TypeOK, Lists(q, f), NEW t \in Thread, RecvFree(t),
         NEW s, s = msg[t]
  PROVE  Len(<<s>> \o f) = Len(f) + 1 /\ Lists(q, <<s>> \o f)'
<1>1. s = msg[t]
  OBVIOUS
<1>2. /\ Chain(q, msg_queue_head, next) /\ Chain(f, msg_queue_free, next)
      /\ Owned(q, f, msg, pc) /\ Filled(q, content, msg, pc)
  BY DEF Lists
<1>3. /\ pc[t] = "taken" /\ pc[t] \in Holding
      /\ next' = [next EXCEPT ![s] = msg_queue_free]
      /\ msg_queue_free' = s
      /\ msg' = [msg EXCEPT ![t] = Null] /\ pc' = [pc EXCEPT ![t] = "run"]
      /\ UNCHANGED <<msg_queue_head, msg_queue_tail, entry, content>>
  BY <1>1 DEF RecvFree, Holding
<1>4. s \in Slot /\ ~Member(q, s) /\ ~Member(f, s) /\ s # Null
  BY <1>1, <1>2, <1>3, Slots DEF Owned
<1>5. /\ next \in [Slot -> Link0] /\ pc \in [Thread -> Where] /\ msg \in [Thread -> Link0]
  BY DEF TypeOK, Link0
<1>6. PICK n : n = next'
  OBVIOUS
<1>7. /\ \A x : Member(q, x) => x \in Slot
      /\ \A x : Member(f, x) => x \in Slot
  BY <1>2, ChainHead
<1>8. n[s] = msg_queue_free /\ \A x \in Slot : x # s => n[x] = next[x]
  BY <1>3, <1>4, <1>5, <1>6
<1>9. Chain(q, msg_queue_head, n)
  BY <1>2, <1>4, <1>7, <1>8, ChainFrame
<1>10. /\ Chain(<<s>> \o f, s, n) /\ Len(<<s>> \o f) = Len(f) + 1
       /\ \A x : Member(<<s>> \o f, x) <=> (Member(f, x) \/ x = s)
  <2>1. \A x : Member(f, x) => n[x] = next[x]
    BY <1>4, <1>7, <1>8
  <2>2. QED BY <1>2, <1>4, <1>8, <2>1, ChainCons
<1>11. Owned(q, <<s>> \o f, [msg EXCEPT ![t] = Null], [pc EXCEPT ![t] = "run"])
  BY <1>1, <1>2, <1>3, <1>5, <1>10, OwnedGive
<1>12. Filled(q, content, [msg EXCEPT ![t] = Null], [pc EXCEPT ![t] = "run"])
  BY <1>2, <1>5 DEF Filled
<1>13. ASSUME NEW u \in Thread, pc'[u] = "link" PROVE n[msg'[u]] = Null
  <2>1. u # t /\ pc[u] = "link" /\ pc[u] \in Holding /\ msg'[u] = msg[u]
    BY <1>3, <1>5, <1>13 DEF Holding
  <2>2. msg[u] \in Slot /\ msg[u] # s /\ next[msg[u]] = Null
    BY <1>1, <1>2, <1>4, <2>1 DEF Owned, Lists
  <2>3. QED BY <1>8, <2>1, <2>2
<1>14. Lists(q, <<s>> \o f)'
  BY <1>2, <1>3, <1>6, <1>9, <1>10, <1>11, <1>12, <1>13 DEF Lists
<1>15. QED BY <1>1, <1>10, <1>14

\* Linking a message, which is in no list, as the tail of the queue.
LEMMA TailLinked ==
  ASSUME NEW q, NEW f, NEW g, NEW nx \in [Slot -> Link0], NEW s \in Slot,
         Chain(q, msg_queue_head, nx), Chain(f, g, nx),
         msg_queue_tail = IF q = <<>> THEN Null ELSE q[Len(q)],
         \A x : ~(Member(q, x) /\ Member(f, x)),
         nx[s] = Null, ~Member(q, s), ~Member(f, s), LinkTail(s, nx)
  PROVE  /\ next' \in [Slot -> Link0]
         /\ Chain(Append(q, s), msg_queue_head', next') /\ Chain(f, g, next')
         /\ Len(Append(q, s)) = Len(q) + 1
         /\ msg_queue_tail' = IF Append(q, s) = <<>> THEN Null
                              ELSE Append(q, s)[Len(Append(q, s))]
         /\ \A x : Member(Append(q, s), x) <=> (Member(q, x) \/ x = s)
         /\ \A x \in Slot : ~Member(q, x) => next'[x] = nx[x]
<1>1. PICK n : n = next'
  OBVIOUS
<1>2. /\ Len(q) \in Nat /\ DOMAIN q = 1..Len(q) /\ (q = <<>> <=> Len(q) = 0)
      /\ (msg_queue_head = Null <=> q = <<>>)
      /\ \A x : Member(q, x) => x \in Slot
  BY ChainHead
<1>3. \A x : Member(f, x) => x \in Slot
  BY ChainHead
<1>4. q # <<>> => Member(q, q[Len(q)])
  <2>1. q # <<>> => Len(q) \in DOMAIN q
    BY <1>2
  <2>2. QED BY <2>1 DEF Member
<1>5. q # <<>> => msg_queue_tail = q[Len(q)] /\ msg_queue_tail \in Slot /\ msg_queue_tail # Null
  BY <1>2, <1>4, Slots
<1>6. n = IF q # <<>> THEN [nx EXCEPT ![q[Len(q)]] = s] ELSE nx
  <2>1. CASE q = <<>>
    BY <1>1, <2>1 DEF LinkTail
  <2>2. CASE q # <<>>
    BY <1>1, <1>5, <2>2 DEF LinkTail
  <2>3. QED BY <2>1, <2>2
<1>7. /\ n \in [Slot -> Link0]
      /\ q # <<>> => n[q[Len(q)]] = s
      /\ \A x \in Slot : q = <<>> \/ x # q[Len(q)] => n[x] = nx[x]
  BY <1>5, <1>6 DEF Link0
<1>8. \A x \in Slot : ~Member(q, x) => n[x] = nx[x]
  BY <1>4, <1>7
<1>9. Chain(f, g, n)
  BY <1>3, <1>8, ChainFrame
<1>10. n[s] = Null
  BY <1>8
<1>11. \A x : Member(q, x) /\ x # q[Len(q)] => n[x] = nx[x]
  BY <1>2, <1>7
<1>12. /\ Chain(Append(q, s), IF msg_queue_head = Null THEN s ELSE msg_queue_head, n)
       /\ Len(Append(q, s)) = Len(q) + 1
       /\ Append(q, s)[Len(q) + 1] = s
       /\ \A x : Member(Append(q, s), x) <=> (Member(q, x) \/ x = s)
  BY <1>7, <1>10, <1>11, ChainAppend
<1>13. Append(q, s) # <<>>
  BY <1>2, <1>12, EmptySeq
<1>14. msg_queue_tail' = s /\ msg_queue_head' = IF msg_queue_head = Null THEN s ELSE msg_queue_head
  BY DEF LinkTail
<1>15. QED BY <1>1, <1>7, <1>8, <1>9, <1>12, <1>13, <1>14

\* Linking a message as the head of the queue.
LEMMA HeadLinked ==
  ASSUME NEW q, NEW f, next \in [Slot -> Link0], NEW s \in Slot,
         Chain(q, msg_queue_head, next), Chain(f, msg_queue_free, next),
         msg_queue_tail = IF q = <<>> THEN Null ELSE q[Len(q)],
         ~Member(q, s), ~Member(f, s), LinkHead(s)
  PROVE  /\ next' \in [Slot -> Link0]
         /\ Chain(<<s>> \o q, msg_queue_head', next') /\ Chain(f, msg_queue_free, next')
         /\ Len(<<s>> \o q) = Len(q) + 1
         /\ msg_queue_tail' = IF <<s>> \o q = <<>> THEN Null
                              ELSE (<<s>> \o q)[Len(<<s>> \o q)]
         /\ \A x : Member(<<s>> \o q, x) <=> (Member(q, x) \/ x = s)
         /\ \A x \in Slot : x # s => next'[x] = next[x]
<1>1. PICK n : n = next'
  OBVIOUS
<1>2. /\ Len(q) \in Nat /\ DOMAIN q = 1..Len(q) /\ (q = <<>> <=> Len(q) = 0)
      /\ msg_queue_head \in Link0
      /\ \A x : Member(q, x) => x \in Slot
  BY ChainHead
<1>3. \A x : Member(f, x) => x \in Slot
  BY ChainHead
<1>4. n = [next EXCEPT ![s] = msg_queue_head] /\ msg_queue_head' = s
  BY <1>1 DEF LinkHead
<1>5. /\ n \in [Slot -> Link0] /\ n[s] = msg_queue_head
      /\ \A x \in Slot : x # s => n[x] = next[x]
  BY <1>2, <1>4
<1>6. Chain(f, msg_queue_free, n)
  BY <1>3, <1>5, ChainFrame
<1>7. /\ Chain(<<s>> \o q, s, n)
      /\ Len(<<s>> \o q) = Len(q) + 1
      /\ \A x : Member(<<s>> \o q, x) <=> (Member(q, x) \/ x = s)
  <2>1. \A x : Member(q, x) => n[x] = next[x]
    BY <1>2, <1>5
  <2>2. QED BY <1>5, <2>1, ChainCons
<1>8. <<s>> \o q # <<>> /\ (<<s>> \o q)[1] = s
  <2>1. PICK c : c = <<s>> \o q
    OBVIOUS
  <2>2. Chain(c, s, n) /\ s # Null
    BY <1>7, <2>1, Slots
  <2>3. c # <<>> /\ c[1] = s
    BY <2>2, ChainHead
  <2>4. QED BY <2>1, <2>3
<1>9. msg_queue_tail' = (<<s>> \o q)[Len(<<s>> \o q)]
  <2>1. CASE q = <<>>
    <3>1. Len(<<s>> \o q) = 1 /\ msg_queue_tail = Null
      BY <1>2, <1>7, <2>1
    <3>2. QED BY <1>8, <3>1 DEF LinkHead
  <2>2. CASE q # <<>>
    <3>1. Len(q) \in 1..Len(q)
      BY <1>2, <2>2
    <3>2. Member(q, q[Len(q)])
      BY <1>2, <3>1 DEF Member
    <3>3. msg_queue_tail = q[Len(q)] /\ msg_queue_tail # Null
      BY <1>2, <2>2, <3>2, Slots
    <3>4. (<<s>> \o q)[Len(q) + 1] = q[Len(q)]
      <4>1. q \in Seq(Slot)
        BY DEF Chain
      <4>2. <<s>> \in Seq(Slot) /\ Len(<<s>>) = 1
        OBVIOUS
      <4>3. Len(q) + 1 \in 1..(1 + Len(q)) /\ (Len(q) + 1) - 1 = Len(q) /\ ~(Len(q) + 1 <= 1)
        BY <1>2, <3>1
      <4>4. QED BY <4>1, <4>2, <4>3, ConcatProperties
    <3>5. QED BY <1>7, <3>3, <3>4 DEF LinkHead
  <2>3. QED BY <2>1, <2>2
<1>10. QED BY <1>1, <1>4, <1>5, <1>6, <1>7, <1>8, <1>9

\* The queue after a thread has linked its message s.
Linked(q, s, where) == IF where = "link" THEN Append(q, s) ELSE <<s>> \o q

LEMMA LinkLists ==
  ASSUME NEW q, NEW f, TypeOK, Lists(q, f), NEW t \in Thread, Link(t),
         NEW s, s = msg[t], NEW where, where = pc[t]
  PROVE  /\ next' \in [Slot -> Link0] /\ s \in Slot
         /\ Len(Linked(q, s, where)) = Len(q) + 1
         /\ Lists(Linked(q, s, where), f)'
<1>1. /\ Chain(q, msg_queue_head, next) /\ Chain(f, msg_queue_free, next)
      /\ Owned(q, f, msg, pc) /\ Filled(q, content, msg, pc)
      /\ entry = Len(q) /\ msg_queue_tail = IF q = <<>> THEN Null ELSE q[Len(q)]
  BY DEF Lists
<1>2. /\ where \in {"link", "ulink"} /\ pc[t] \in Holding
      /\ where = "link" => LinkTail(s, next)
      /\ where # "link" => LinkHead(s)
      /\ entry' = entry + 1
      /\ msg' = [msg EXCEPT ![t] = Null] /\ pc' = [pc EXCEPT ![t] = "run"]
      /\ UNCHANGED <<msg_queue_free, content>>
  BY DEF Link, Holding
<1>3. s \in Slot /\ ~Member(q, s) /\ ~Member(f, s) /\ s # Null
  BY <1>1, <1>2, Slots DEF Owned
<1>4. next \in [Slot -> Link0] /\ pc \in [Thread -> Where] /\ msg \in [Thread -> Link0]
  BY DEF TypeOK, Link0
<1>5. PICK c : c = Linked(q, s, where)
  OBVIOUS
<1>6. /\ next' \in [Slot -> Link0]
      /\ Chain(c, msg_queue_head', next') /\ Chain(f, msg_queue_free, next')
      /\ Len(c) = Len(q) + 1
      /\ msg_queue_tail' = IF c = <<>> THEN Null ELSE c[Len(c)]
      /\ \A x : Member(c, x) <=> (Member(q, x) \/ x = s)
      /\ \A x \in Slot : ~Member(q, x) /\ x # s => next'[x] = next[x]
  <2>1. CASE where = "link"
    <3>1. next[s] = Null
      BY <1>2, <2>1 DEF Lists
    <3>2. LinkTail(s, next) /\ c = Append(q, s)
      BY <1>2, <1>5, <2>1 DEF Linked
    <3>3. \A x : ~(Member(q, x) /\ Member(f, x))
      BY <1>1 DEF Owned
    <3>4. PICK nx, g : nx = next /\ g = msg_queue_free
      OBVIOUS
    <3>5. /\ next' \in [Slot -> Link0]
          /\ Chain(Append(q, s), msg_queue_head', next') /\ Chain(f, g, next')
          /\ Len(Append(q, s)) = Len(q) + 1
          /\ msg_queue_tail' = IF Append(q, s) = <<>> THEN Null
                               ELSE Append(q, s)[Len(Append(q, s))]
          /\ \A x : Member(Append(q, s), x) <=> (Member(q, x) \/ x = s)
          /\ \A x \in Slot : ~Member(q, x) => next'[x] = nx[x]
      <4>1. /\ nx \in [Slot -> Link0] /\ Chain(q, msg_queue_head, nx) /\ Chain(f, g, nx)
            /\ nx[s] = Null /\ LinkTail(s, nx)
        BY <1>1, <1>4, <3>1, <3>2, <3>4
      <4>2. QED BY <1>1, <1>3, <3>3, <4>1, TailLinked
    <3>6. QED BY <3>2, <3>4, <3>5
  <2>2. CASE where # "link"
    <3>1. LinkHead(s) /\ c = <<s>> \o q
      BY <1>2, <1>5, <2>2 DEF Linked
    <3>2. QED BY <1>1, <1>3, <1>4, <3>1, HeadLinked
  <2>3. QED BY <2>1, <2>2
<1>7. Owned(c, f, [msg EXCEPT ![t] = Null], [pc EXCEPT ![t] = "run"])
  <2>1. Owned(f, q, msg, pc)
    BY <1>1, OwnedSwap
  <2>2. \A x : Member(c, x) <=> (Member(q, x) \/ x = msg[t])
    BY <1>6
  <2>3. Owned(f, c, [msg EXCEPT ![t] = Null], [pc EXCEPT ![t] = "run"])
    BY <1>2, <1>4, <2>1, <2>2, OwnedGive
  <2>4. QED BY <2>3, OwnedSwap
<1>8. Filled(c, content, [msg EXCEPT ![t] = Null], [pc EXCEPT ![t] = "run"])
  <2>1. content[s] \in Msg
    BY <1>1, <1>2 DEF Filled
  <2>2. QED BY <1>1, <1>4, <1>6, <2>1 DEF Filled
<1>9. ASSUME NEW u \in Thread, pc'[u] = "link" PROVE next'[msg'[u]] = Null
  <2>1. u # t /\ pc[u] = "link" /\ pc[u] \in Holding /\ msg'[u] = msg[u]
    BY <1>2, <1>4, <1>9 DEF Holding
  <2>2. msg[u] \in Slot /\ msg[u] # s /\ next[msg[u]] = Null /\ ~Member(q, msg[u])
    BY <1>1, <1>3, <2>1 DEF Owned, Lists
  <2>3. QED BY <1>6, <2>1, <2>2
<1>10. Lists(c, f)'
  BY <1>1, <1>2, <1>6, <1>7, <1>8, <1>9 DEF Lists
<1>11. QED BY <1>3, <1>5, <1>6, <1>10

\* The interrupt handler takes a free message, fills it and links it.
LEMMA IsrLists ==
  ASSUME NEW q, NEW f, TypeOK, Lists(q, f), NEW m \in Msg, IsrSend(m),
         NEW s, s = msg_queue_free
  PROVE  /\ next' \in [Slot -> Link0] /\ s \in Slot /\ f # <<>>
         /\ Len(Tail(f)) = Len(f) - 1 /\ Len(Append(q, s)) = Len(q) + 1
         /\ ~Member(q, s)
         /\ Lists(Append(q, s), Tail(f))'
<1>1. /\ Chain(q, msg_queue_head, next) /\ Chain(f, s, next)
      /\ Owned(q, f, msg, pc) /\ Filled(q, content, msg, pc)
      /\ entry = Len(q) /\ msg_queue_tail = IF q = <<>> THEN Null ELSE q[Len(q)]
  BY DEF Lists
<1>2. /\ s # Null /\ msg_queue_free' = next[s] /\ content' = [content EXCEPT ![s] = m]
      /\ LinkTail(s, [next EXCEPT ![s] = Null])
      /\ entry' = entry + 1 /\ UNCHANGED <<msg, pc>>
  BY DEF IsrSend
<1>3. /\ f # <<>> /\ s \in Slot /\ Member(f, s) /\ Len(Tail(f)) = Len(f) - 1
      /\ Chain(Tail(f), next[s], next)
      /\ \A x : Member(Tail(f), x) <=> (Member(f, x) /\ x # s)
  BY <1>1, <1>2, ChainTail
<1>4. /\ next \in [Slot -> Link0] /\ content \in [Slot -> Msg \cup {NoMsg}]
      /\ Null \in Link0
  BY DEF TypeOK, Link0
<1>5. PICK nx : nx = [next EXCEPT ![s] = Null]
  OBVIOUS
<1>6. /\ nx \in [Slot -> Link0] /\ nx[s] = Null
      /\ \A x \in Slot : x # s => nx[x] = next[x]
  BY <1>3, <1>4, <1>5
<1>7. /\ ~Member(q, s) /\ ~Member(Tail(f), s)
      /\ \A x : ~(Member(q, x) /\ Member(Tail(f), x))
  BY <1>1, <1>3 DEF Owned
<1>8. /\ \A x : Member(q, x) => x \in Slot
      /\ \A x : Member(f, x) => x \in Slot
  BY <1>1, ChainHead
<1>9. Chain(q, msg_queue_head, nx)
  BY <1>1, <1>6, <1>7, <1>8, ChainFrame
<1>10. PICK g, h : g = next[s] /\ h = Tail(f)
  OBVIOUS
<1>11. Chain(h, g, nx)
  <2>1. Chain(h, g, next) /\ \A x : Member(h, x) => nx[x] = next[x]
    BY <1>3, <1>6, <1>8, <1>10
  <2>2. QED BY <2>1, ChainFrame
<1>12. /\ next' \in [Slot -> Link0]
       /\ Chain(Append(q, s), msg_queue_head', next') /\ Chain(h, g, next')
       /\ Len(Append(q, s)) = Len(q) + 1
       /\ msg_queue_tail' = IF Append(q, s) = <<>> THEN Null
                            ELSE Append(q, s)[Len(Append(q, s))]
       /\ \A x : Member(Append(q, s), x) <=> (Member(q, x) \/ x = s)
       /\ \A x \in Slot : ~Member(q, x) => next'[x] = nx[x]
  <2>1. /\ LinkTail(s, nx) /\ ~Member(h, s)
        /\ \A x : ~(Member(q, x) /\ Member(h, x))
    BY <1>2, <1>5, <1>7, <1>10
  <2>2. QED BY <1>1, <1>3, <1>6, <1>7, <1>9, <1>11, <2>1, TailLinked
<1>13. Owned(Append(q, s), h, msg, pc)
  <2>1. PICK c : c = Append(q, s)
    OBVIOUS
  <2>2. /\ \A x : (Member(c, x) \/ Member(h, x)) <=> (Member(q, x) \/ Member(f, x))
        /\ \A x : ~(Member(c, x) /\ Member(h, x))
    BY <1>3, <1>7, <1>10, <1>12, <2>1
  <2>3. Owned(c, h, msg, pc)
    BY <1>1, <2>2, OwnedMove
  <2>4. QED BY <2>1, <2>3
<1>14. \A u \in Thread : pc[u] \in Holding => msg[u] \in Slot /\ msg[u] # s /\ ~Member(q, msg[u])
  BY <1>1, <1>3 DEF Owned
<1>15. /\ content'[s] = m /\ \A x \in Slot : x # s => content'[x] = content[x]
  BY <1>2, <1>3, <1>4
<1>16. Filled(Append(q, s), content', msg, pc)
  <2>1. \A x : Member(Append(q, s), x) => content'[x] \in Msg
    BY <1>1, <1>8, <1>12, <1>15 DEF Filled
  <2>2. \A u \in Thread : pc[u] \in {"link", "ulink", "taken"} => content'[msg[u]] \in Msg
    BY <1>1, <1>14, <1>15 DEF Filled, Holding
  <2>3. QED BY <2>1, <2>2 DEF Filled
<1>17. ASSUME NEW u \in Thread, pc[u] = "link" PROVE next'[msg[u]] = Null
  <2>1. msg[u] \in Slot /\ msg[u] # s /\ ~Member(q, msg[u]) /\ next[msg[u]] = Null
    BY <1>14, <1>17 DEF Lists, Holding
  <2>2. QED BY <1>6, <1>12, <2>1
<1>18. Lists(Append(q, s), h)'
  BY <1>1, <1>2, <1>10, <1>12, <1>13, <1>16, <1>17 DEF Lists
<1>19. QED BY <1>3, <1>7, <1>10, <1>12, <1>18

\* rt_mq_control moves the queued messages to the free list.
LEMMA ResetLists ==
  ASSUME NEW q, NEW f, TypeOK, Lists(q, f), FreeAll, entry' = 0, UNCHANGED <<content, msg, pc>>
  PROVE  /\ next' \in [Slot -> Link0]
         /\ Lists(<<>>, Freed(q, f))'
<1>1. /\ Chain(q, msg_queue_head, next) /\ Chain(f, msg_queue_free, next)
      /\ Owned(q, f, msg, pc) /\ Filled(q, content, msg, pc)
  BY DEF Lists
<1>2. q = Path(msg_queue_head)
  BY ListsPaths
<1>3. /\ q \in Seq(Slot) /\ NoDup(q) /\ Len(q) \in Nat /\ DOMAIN q = 1..Len(q)
      /\ (q = <<>> <=> Len(q) = 0) /\ \A x : Member(q, x) => x \in Slot
  BY <1>1, ChainHead DEF Chain
<1>4. ToSet(q) = {x \in Slot : Member(q, x)}
  BY <1>3 DEF ToSet, Member
<1> DEFINE At(x) == CHOOSE j \in DOMAIN q : q[j] = x
<1>5. /\ next' = [x \in Slot |-> IF x \notin ToSet(q) THEN next[x]
                                 ELSE IF At(x) = 1 THEN msg_queue_free ELSE q[At(x) - 1]]
      /\ msg_queue_free' = IF q = <<>> THEN msg_queue_free ELSE Last(q)
      /\ msg_queue_head' = Null /\ msg_queue_tail' = Null
  BY <1>2 DEF FreeAll
<1>6. \A i \in 1..Len(q) : At(q[i]) = i
  <2>1. \A i, j \in 1..Len(q) : q[i] = q[j] => i = j
    BY <1>3 DEF NoDup
  <2>2. ASSUME NEW i \in 1..Len(q) PROVE At(q[i]) = i
    <3>1. \E j \in DOMAIN q : q[j] = q[i]
      BY <1>3
    <3>2. At(q[i]) \in DOMAIN q /\ q[At(q[i])] = q[i]
      BY <3>1
    <3> HIDE DEF At
    <3>3. QED BY <1>3, <2>1, <3>2
  <2>3. QED BY <2>2
<1>7. \A x : Member(q, x) => At(x) \in 1..Len(q)
  BY <1>3 DEF Member
<1> HIDE DEF At
<1>8. PICK n, g : n = next' /\ g = msg_queue_free
  OBVIOUS
<1>9. /\ next \in [Slot -> Link0] /\ g \in Link0
      /\ \A i \in 1..Len(q) : q[i] \in Slot /\ q[i] \in Link0
      /\ Null \in Link0
  BY <1>3, <1>8 DEF TypeOK, Link0
<1>10. n = [x \in Slot |-> IF ~Member(q, x) THEN next[x]
                           ELSE IF At(x) = 1 THEN g ELSE q[At(x) - 1]]
  BY <1>4, <1>5, <1>8
<1>11. n \in [Slot -> Link0]
  <2>1. ASSUME NEW x \in Slot PROVE n[x] \in Link0
    <3>1. n[x] = IF ~Member(q, x) THEN next[x] ELSE IF At(x) = 1 THEN g ELSE q[At(x) - 1]
      BY <1>10
    <3>2. Member(q, x) /\ At(x) # 1 => At(x) - 1 \in 1..Len(q)
      BY <1>3, <1>7
    <3>3. QED BY <1>9, <3>1, <3>2
  <2>2. QED BY <1>10, <2>1
<1>12. \A i \in 1..Len(q) : n[q[i]] = IF i = 1 THEN g ELSE q[i - 1]
  <2>1. ASSUME NEW i \in 1..Len(q) PROVE n[q[i]] = IF i = 1 THEN g ELSE q[i - 1]
    <3>1. Member(q, q[i]) /\ q[i] \in Slot /\ At(q[i]) = i
      BY <1>3, <1>6, <1>9 DEF Member
    <3>2. QED BY <1>10, <3>1
  <2>2. QED BY <2>1
<1>13. \A x \in Slot : ~Member(q, x) => n[x] = next[x]
  BY <1>10
<1>14. \A x : Member(f, x) => x \in Slot
  BY <1>1, ChainHead
<1>15. /\ Chain(Freed(q, f), IF q = <<>> THEN g ELSE q[Len(q)], n)
       /\ \A x : Member(Freed(q, f), x) <=> (Member(q, x) \/ Member(f, x))
  <2>1. \A x : ~(Member(q, x) /\ Member(f, x))
    BY <1>1 DEF Owned
  <2>2. \A x : Member(f, x) => n[x] = next[x]
    BY <1>13, <1>14, <2>1
  <2>3. Chain(f, g, next)
    BY <1>1, <1>8
  <2>4. QED BY <1>1, <1>12, <2>1, <2>2, <2>3, ChainFreed
<1>16. msg_queue_free' = IF q = <<>> THEN g ELSE q[Len(q)]
  BY <1>5, <1>8 DEF Last
<1>17. Chain(<<>>, Null, n) /\ Len(<<>>) = 0 /\ \A x : ~Member(<<>>, x)
  <2>1. \E n0 : n0 = [x \in Slot |-> x - 1]
    OBVIOUS
  <2>2. PICK e : e = <<>>
    OBVIOUS
  <2>3. \A x : ~Member(e, x)
    BY <2>2 DEF Member
  <2>4. \E n0 : Chain(e, Null, n0)
    BY <2>1, <2>2, ChainInit
  <2>5. Chain(e, Null, n)
    BY <2>3, <2>4, ChainFrame
  <2>6. QED BY <2>2, <2>3, <2>5
<1>18. PICK e, c : e = <<>> /\ c = Freed(q, f)
  OBVIOUS
<1>19. Owned(e, c, msg, pc)
  <2>1. /\ \A x : (Member(e, x) \/ Member(c, x)) <=> (Member(q, x) \/ Member(f, x))
        /\ \A x : ~(Member(e, x) /\ Member(c, x))
    BY <1>15, <1>17, <1>18
  <2>2. QED BY <1>1, <2>1, OwnedMove
<1>20. Filled(e, content, msg, pc)
  BY <1>1, <1>17, <1>18 DEF Filled
<1>21. ASSUME NEW u \in Thread, pc[u] = "link" PROVE n[msg[u]] = Null
  <2>1. msg[u] \in Slot /\ ~Member(q, msg[u]) /\ next[msg[u]] = Null
    BY <1>1, <1>21 DEF Lists, Owned, Holding
  <2>2. QED BY <1>13, <2>1
<1>22. Lists(e, c)'
  BY <1>5, <1>8, <1>15, <1>16, <1>17, <1>18, <1>19, <1>20, <1>21 DEF Lists
<1>23. QED BY <1>8, <1>11, <1>18, <1>22

-----------------------------------------------------------------------------
(* Waiting and waking.                                                     *)

\* What rt_list_remove of a thread's node leaves in a list.
LEMMA UnlinkMembers ==
  ASSUME NEW s \in Seq(Thread), NEW t, NoDup(s)
  PROVE  /\ Unlink(s, t) \in Seq(Thread) /\ NoDup(Unlink(s, t))
         /\ \A x : Member(Unlink(s, t), x) <=> (Member(s, x) /\ x # t)
<1>1. CASE Member(s, t)
  <2>1. Unlink(s, t) = RemoveAt(s, CHOOSE i \in DOMAIN s : s[i] = t)
    BY <1>1 DEF Unlink, Member
  <2>2. QED BY <1>1, <2>1, RemoveMember
<1>2. CASE ~Member(s, t)
  BY <1>2 DEF Unlink, Member
<1>3. QED BY <1>1, <1>2

\* rt_susp_list_enqueue adds the thread.
LEMMA EnqueueMembers ==
  ASSUME NEW s \in Seq(Thread), NEW t \in Thread, NoDup(s), ~Member(s, t),
         NEW q \in Enqueue(s, t)
  PROVE  /\ q \in Seq(Thread) /\ NoDup(q)
         /\ \A x : Member(q, x) <=> (Member(s, x) \/ x = t)
<1>1. Len(s) \in Nat
  BY LenProperties
<1>2. PICK k \in 1..(Len(s) + 1) : q = InsertAt(s, k, t)
  BY <1>1 DEF Enqueue
<1>3. QED BY <1>2, InsertAtElements, InsertAtMembers

\* An empty list has no members, and only that one.
LEMMA EmptyMembers ==
  ASSUME NEW S, NEW s \in Seq(S)
  PROVE  s = <<>> <=> \A x \in S : ~Member(s, x)
<1>1. Len(s) \in Nat /\ DOMAIN s = 1..Len(s) /\ (s = <<>> <=> Len(s) = 0)
  BY LenProperties, EmptySeq
<1>2. CASE Len(s) = 0
  BY <1>1, <1>2 DEF Member
<1>3. CASE Len(s) # 0
  <2>1. 1 \in 1..Len(s)
    BY <1>1, <1>3
  <2>2. s[1] \in S /\ Member(s, s[1])
    BY <1>1, <2>1 DEF Member
  <2>3. QED BY <1>1, <1>3, <2>2
<1>4. QED BY <1>2, <1>3

\* What making the threads of T ready does to every thread.
LEMMA ReadyThreads ==
  ASSUME TypeOK, NEW T, NEW err \in {"EOK", "ERR"}, Ready(T, err)
  PROVE  /\ stat' \in [Thread -> {"ready", "suspend"}]
         /\ error' \in [Thread -> {"EOK", "ERR"}]
         /\ \A t \in Thread : stat'[t] = IF t \in T THEN "ready" ELSE stat[t]
         /\ \A t \in Thread : error'[t] = IF t \in T THEN err ELSE error[t]
BY DEF Ready, TypeOK

\* The receiver h was resumed: it was waiting, and is so no more.
Resumed(h) ==
  /\ stat[h] = "suspend" /\ pc[h] = "recv"
  /\ stat' = [stat EXCEPT ![h] = "ready"] /\ error' = [error EXCEPT ![h] = "EOK"]
  /\ \A x : Member(suspend_thread', x) <=> (Member(suspend_thread, x) /\ x # h)
  /\ missed' <=> missed

\* rt_susp_list_dequeue of the receivers resumes one, finds none, or finds one
\* whose timeout is being handled.
LEMMA WakeReceiverEffect ==
  ASSUME TypeOK, WaitInv, WakeReceiver
  PROVE  /\ suspend_thread' \in Seq(Thread) /\ NoDup(suspend_thread')
         /\ \/ suspend_thread = <<>> /\ UNCHANGED <<suspend_thread, stat, error, ttmr_set, missed>>
            \/ \E h \in Thread : Resumed(h)
            \/ firing # NoThread /\ missed' /\ UNCHANGED <<suspend_thread, stat, error>>
<1>1. suspend_thread \in Seq(Thread) /\ NoDup(suspend_thread)
  BY DEF TypeOK, WaitInv
<1>2. CASE suspend_thread = <<>>
  BY <1>1, <1>2 DEF WakeReceiver
<1>3. CASE suspend_thread # <<>>
  <2>1. PICK h : h = Head(suspend_thread)
    OBVIOUS
  <2>2. /\ h \in Thread /\ Member(suspend_thread, h)
        /\ Tail(suspend_thread) \in Seq(Thread) /\ NoDup(Tail(suspend_thread))
        /\ \A x : Member(Tail(suspend_thread), x) <=> (Member(suspend_thread, x) /\ x # h)
    BY <1>1, <1>3, <2>1, TailMembers
  <2>3. stat[h] = "suspend" /\ pc[h] = "recv"
    BY <2>2 DEF WaitInv
  <2>4. /\ suspend_thread' = IF CanReady(h) THEN Tail(suspend_thread) ELSE suspend_thread
        /\ Ready({h} \cap {u \in Thread : CanReady(u)}, "EOK")
        /\ missed' = (missed \/ ~CanReady(h))
    BY <1>3, <2>1 DEF WakeReceiver
  <2>5. PICK T, err : T = {h} \cap {u \in Thread : CanReady(u)} /\ err = "EOK"
    OBVIOUS
  <2>6. /\ stat' \in [Thread -> {"ready", "suspend"}]
        /\ error' \in [Thread -> {"EOK", "ERR"}]
        /\ \A t \in Thread : stat'[t] = IF t \in T THEN "ready" ELSE stat[t]
        /\ \A t \in Thread : error'[t] = IF t \in T THEN err ELSE error[t]
    BY <2>4, <2>5, ReadyThreads
  <2>7. stat \in [Thread -> {"ready", "suspend"}] /\ error \in [Thread -> {"EOK", "ERR"}]
    BY DEF TypeOK
  <2>8. CASE CanReady(h)
    <3>1. \A t \in Thread : t \in T <=> t = h
      BY <2>2, <2>5, <2>8
    <3>2. stat' = [stat EXCEPT ![h] = "ready"] /\ error' = [error EXCEPT ![h] = "EOK"]
      BY <2>2, <2>5, <2>6, <2>7, <3>1
    <3>3. missed' <=> missed
      BY <2>4, <2>8
    <3>4. Resumed(h)
      BY <2>2, <2>3, <2>4, <2>8, <3>2, <3>3 DEF Resumed
    <3>5. QED BY <2>2, <2>4, <2>8, <3>4
  <2>9. CASE ~CanReady(h)
    <3>1. \A t \in Thread : t \notin T
      BY <2>5, <2>9
    <3>2. stat' = stat /\ error' = error
      BY <2>6, <2>7, <3>1
    <3>3. missed'
      BY <2>4, <2>9
    <3>4. firing # NoThread
      BY <2>2, <2>9, Finite DEF CanReady
    <3>5. QED BY <1>1, <2>4, <2>9, <3>2, <3>3, <3>4
  <2>10. QED BY <2>8, <2>9
<1>4. QED BY <1>2, <1>3

\* rt_susp_list_dequeue of the senders.
LEMMA WakeSenderEffect ==
  ASSUME TypeOK, WaitInv, WakeSender
  PROVE  /\ suspend_sender_thread' \in Seq(Thread) /\ NoDup(suspend_sender_thread')
         /\ \/ suspend_sender_thread = <<>> /\ UNCHANGED <<suspend_sender_thread, stat, error>>
            \/ \E h \in Thread :
                 /\ stat[h] = "suspend" /\ pc[h] = "send"
                 /\ stat' = [stat EXCEPT ![h] = "ready"] /\ error' = [error EXCEPT ![h] = "EOK"]
                 /\ \A x : Member(suspend_sender_thread', x) <=>
                             (Member(suspend_sender_thread, x) /\ x # h)
<1>1. suspend_sender_thread \in Seq(Thread) /\ NoDup(suspend_sender_thread)
  BY DEF TypeOK, WaitInv
<1>2. CASE suspend_sender_thread = <<>>
  BY <1>1, <1>2 DEF WakeSender
<1>3. CASE suspend_sender_thread # <<>>
  <2>1. PICK h : h = Head(suspend_sender_thread)
    OBVIOUS
  <2>2. /\ h \in Thread /\ Member(suspend_sender_thread, h)
        /\ Tail(suspend_sender_thread) \in Seq(Thread) /\ NoDup(Tail(suspend_sender_thread))
        /\ \A x : Member(Tail(suspend_sender_thread), x) <=>
                    (Member(suspend_sender_thread, x) /\ x # h)
    BY <1>1, <1>3, <2>1, TailMembers
  <2>3. stat[h] = "suspend" /\ pc[h] = "send"
    BY <2>2 DEF WaitInv
  <2>4. suspend_sender_thread' = Tail(suspend_sender_thread) /\ Ready({h}, "EOK")
    BY <1>3, <2>1 DEF WakeSender
  <2>5. PICK T, err : T = {h} /\ err = "EOK"
    OBVIOUS
  <2>6. /\ stat' \in [Thread -> {"ready", "suspend"}]
        /\ error' \in [Thread -> {"EOK", "ERR"}]
        /\ \A t \in Thread : stat'[t] = IF t \in T THEN "ready" ELSE stat[t]
        /\ \A t \in Thread : error'[t] = IF t \in T THEN err ELSE error[t]
    BY <2>4, <2>5, ReadyThreads
  <2>7. stat' = [stat EXCEPT ![h] = "ready"] /\ error' = [error EXCEPT ![h] = "EOK"]
    BY <2>2, <2>5, <2>6 DEF TypeOK
  <2>8. QED BY <2>2, <2>3, <2>4, <2>7
<1>4. QED BY <1>2, <1>3

\* rt_susp_list_resume_all of both lists.
LEMMA WakeAllEffect ==
  ASSUME TypeOK, WaitInv, WakeAll
  PROVE  /\ suspend_thread' = <<>> /\ suspend_sender_thread' = <<>>
         /\ stat' = [t \in Thread |-> "ready"]
         /\ error' \in [Thread -> {"EOK", "ERR"}]
<1>1. PICK T, err : T = ToSet(suspend_thread) \cup ToSet(suspend_sender_thread) /\ err = "ERR"
  OBVIOUS
<1>2. Ready(T, err)
  BY <1>1 DEF WakeAll
<1>3. /\ stat' \in [Thread -> {"ready", "suspend"}]
      /\ error' \in [Thread -> {"EOK", "ERR"}]
      /\ \A t \in Thread : stat'[t] = IF t \in T THEN "ready" ELSE stat[t]
  BY <1>1, <1>2, ReadyThreads
<1>4. ASSUME NEW t \in Thread PROVE stat'[t] = "ready"
  <2>1. CASE stat[t] = "suspend"
    <3>1. Member(suspend_thread, t) \/ Member(suspend_sender_thread, t)
      BY <2>1 DEF WaitInv
    <3>2. t \in T
      BY <1>1, <3>1 DEF Member, ToSet
    <3>3. QED BY <1>3, <3>2
  <2>2. CASE stat[t] # "suspend"
    BY <1>3, <2>2 DEF TypeOK
  <2>3. QED BY <2>1, <2>2
<1>5. stat' = [t \in Thread |-> "ready"]
  BY <1>3, <1>4
<1>6. QED BY <1>3, <1>5 DEF WakeAll

-----------------------------------------------------------------------------
(* Counting.                                                               *)

\* Enough threads are on their way if none of them, at most one or one more
\* than before has left or joined them.
LEMMA CountStep ==
  ASSUME NEW S, NEW T, IsFiniteSet(S), IsFiniteSet(T), NEW n \in Int, NEW k \in Int,
         n <= Cardinality(S),
         \/ k <= n /\ S \subseteq T
         \/ k <= n - 1 /\ \E t : S \ {t} \subseteq T
         \/ k <= n + 1 /\ \E t : t \notin S /\ S \cup {t} \subseteq T
  PROVE  k <= Cardinality(T)
<1>1. Cardinality(S) \in Nat /\ Cardinality(T) \in Nat
  BY FS_CardinalityType
<1>2. CASE k <= n /\ S \subseteq T
  <2>1. Cardinality(S) <= Cardinality(T)
    BY <1>2, FS_Subset
  <2>2. QED BY <1>1, <1>2, <2>1
<1>3. CASE k <= n - 1 /\ \E t : S \ {t} \subseteq T
  <2>1. PICK t : S \ {t} \subseteq T
    BY <1>3
  <2>2. Cardinality(S \ {t}) <= Cardinality(T)
    BY <2>1, FS_Subset
  <2>3. Cardinality(S \ {t}) = IF t \in S THEN Cardinality(S) - 1 ELSE Cardinality(S)
    BY FS_RemoveElement
  <2>4. QED BY <1>1, <1>3, <2>2, <2>3
<1>4. CASE k <= n + 1 /\ \E t : t \notin S /\ S \cup {t} \subseteq T
  <2>1. PICK t : t \notin S /\ S \cup {t} \subseteq T
    BY <1>4
  <2>2. Cardinality(S \cup {t}) <= Cardinality(T)
    BY <2>1, FS_Subset
  <2>3. Cardinality(S \cup {t}) = Cardinality(S) + 1
    BY <2>1, FS_AddElement
  <2>4. QED BY <1>1, <1>4, <2>2, <2>3
<1>5. QED BY <1>2, <1>3, <1>4

\* The threads that are on their way, before and after a step, are finitely many.
LEMMA WokenFinite ==
  ASSUME NEW where
  PROVE  /\ IsFiniteSet(Woken(where)) /\ IsFiniteSet(Woken(where)')
         /\ Cardinality(Woken(where)) \in Nat /\ Cardinality(Woken(where)') \in Nat
<1>1. PICK S, T : S = Woken(where) /\ T = Woken(where)'
  OBVIOUS
<1>2. S \subseteq Thread /\ T \subseteq Thread /\ IsFiniteSet(Thread)
  <2>1. S \subseteq Thread
    BY <1>1 DEF Woken
  <2>2. T \subseteq Thread
    BY <1>1 DEF Woken
  <2>3. IsFiniteSet(Thread)
    BY Finite
  <2>4. QED BY <2>1, <2>2, <2>3
<1>3. IsFiniteSet(S) /\ IsFiniteSet(T)
  BY <1>2, FS_Subset
<1>4. Cardinality(S) \in Nat /\ Cardinality(T) \in Nat
  BY <1>3, FS_CardinalityType
<1>5. QED BY <1>1, <1>3, <1>4

\* A step after which no sender waits, no message is free, or the free messages
\* and the resumed senders still match.
LEMMA SenderStep ==
  ASSUME NoStrandedSender, NEW q, NEW f, NEW q2, NEW f2, Lists(q, f), Lists(q2, f2)',
         \/ suspend_sender_thread' = <<>>
         \/ f2 = <<>>
         \/ /\ suspend_sender_thread # <<>>
            /\ \/ Len(f2) <= Len(f) /\ Woken("send") \subseteq Woken("send")'
               \/ Len(f2) <= Len(f) - 1 /\ \E t : Woken("send") \ {t} \subseteq Woken("send")'
               \/ /\ Len(f2) <= Len(f) + 1
                  /\ \E t : t \notin Woken("send") /\ Woken("send") \cup {t} \subseteq Woken("send")'
  PROVE  NoStrandedSender'
<1>1. f = Path(msg_queue_free)
  BY ListsPaths
<1>2. f2 = Path(msg_queue_free)'
  BY ListsPathsPrimed
<1>3. PICK S, T : S = Woken("send") /\ T = Woken("send")'
  OBVIOUS
<1>4. IsFiniteSet(S) /\ IsFiniteSet(T) /\ Cardinality(T) \in Nat
  BY <1>3, WokenFinite
<1>5. Len(f) \in Nat
  <2>1. Chain(f, msg_queue_free, next)
    BY DEF Lists
  <2>2. QED BY <2>1, ChainHead
<1>6. Len(f2) \in Nat /\ (f2 = <<>> => Len(f2) = 0)
  <2>1. PICK g, n : g = msg_queue_free' /\ n = next'
    OBVIOUS
  <2>2. Chain(f2, g, n)
    BY <2>1 DEF Lists
  <2>3. QED BY <2>2, ChainHead
<1>7. SUFFICES ASSUME suspend_sender_thread' # <<>> PROVE Len(f2) <= Cardinality(T)
  BY <1>2, <1>3 DEF NoStrandedSender
<1>8. CASE f2 = <<>>
  BY <1>4, <1>6, <1>8
<1>9. CASE f2 # <<>>
  <2>1. /\ suspend_sender_thread # <<>>
        /\ \/ Len(f2) <= Len(f) /\ S \subseteq T
           \/ Len(f2) <= Len(f) - 1 /\ \E t : S \ {t} \subseteq T
           \/ Len(f2) <= Len(f) + 1 /\ \E t : t \notin S /\ S \cup {t} \subseteq T
    BY <1>3, <1>7, <1>9
  <2>2. Len(f) <= Cardinality(S)
    BY <1>1, <1>3, <2>1 DEF NoStrandedSender
  <2>3. PICK n, k \in Int : n = Len(f) /\ k = Len(f2)
    BY <1>5, <1>6
  <2>4. k <= Cardinality(T)
    BY <1>4, <2>1, <2>2, <2>3, CountStep
  <2>5. QED BY <2>3, <2>4
<1>10. QED BY <1>8, <1>9

\* The same for the queued messages and the receivers.
LEMMA ReceiverStep ==
  ASSUME NoStrandedReceiver, entry \in Nat, entry' \in Nat,
         \/ suspend_thread' = <<>>
         \/ missed'
         \/ entry' = 0
         \/ /\ suspend_thread # <<>> /\ ~missed
            /\ \/ entry' <= entry /\ Woken("recv") \subseteq Woken("recv")'
               \/ entry' <= entry - 1 /\ \E t : Woken("recv") \ {t} \subseteq Woken("recv")'
               \/ /\ entry' <= entry + 1
                  /\ \E t : t \notin Woken("recv") /\ Woken("recv") \cup {t} \subseteq Woken("recv")'
  PROVE  NoStrandedReceiver'
<1>1. PICK S, T : S = Woken("recv") /\ T = Woken("recv")'
  OBVIOUS
<1>2. IsFiniteSet(S) /\ IsFiniteSet(T) /\ Cardinality(T) \in Nat
  BY <1>1, WokenFinite
<1>3. SUFFICES ASSUME suspend_thread' # <<>>, ~missed' PROVE entry' <= Cardinality(T)
  BY <1>1 DEF NoStrandedReceiver
<1>4. CASE entry' = 0
  BY <1>2, <1>4
<1>5. CASE entry' # 0
  <2>1. /\ suspend_thread # <<>> /\ ~missed
        /\ \/ entry' <= entry /\ S \subseteq T
           \/ entry' <= entry - 1 /\ \E t : S \ {t} \subseteq T
           \/ entry' <= entry + 1 /\ \E t : t \notin S /\ S \cup {t} \subseteq T
    BY <1>1, <1>3, <1>5
  <2>2. entry <= Cardinality(S)
    BY <1>1, <2>1 DEF NoStrandedReceiver
  <2>3. PICK n, k \in Int : n = entry /\ k = entry'
    OBVIOUS
  <2>4. k <= Cardinality(T)
    BY <1>2, <2>1, <2>2, <2>3, CountStep
  <2>5. QED BY <2>3, <2>4
<1>6. QED BY <1>4, <1>5

-----------------------------------------------------------------------------
(* The steps.                                                              *)

\* The invariant gives the two lists a name.
LEMMA ListsExist ==
  ASSUME ListInv
  PROVE  \E q, f : Lists(q, f) /\ entry = Len(q) /\ Len(q) \in Nat /\ Len(f) \in Nat
<1>1. PICK q, f : Lists(q, f)
  BY DEF ListInv
<1>2. Chain(q, msg_queue_head, next) /\ Chain(f, msg_queue_free, next) /\ entry = Len(q)
  BY <1>1 DEF Lists
<1>3. Len(q) \in Nat /\ Len(f) \in Nat
  BY <1>2, ChainHead
<1>4. QED BY <1>1, <1>2, <1>3

\* The free list is empty exactly when its pointer is Null.
LEMMA NoFree ==
  ASSUME NEW q, NEW f, Lists(q, f)
  PROVE  msg_queue_free = Null <=> f = <<>>
<1>1. Chain(f, msg_queue_free, next)
  BY DEF Lists
<1>2. QED BY <1>1, ChainHead

\* The conjuncts of TypeOK, with the types that the lists give.
LEMMA TypeStep ==
  ASSUME NEW q, NEW f, Lists(q, f)',
         alive' \in BOOLEAN, next' \in [Slot -> Link0], content' \in [Slot -> Msg \cup {NoMsg}],
         suspend_thread' \in Seq(Thread), suspend_sender_thread' \in Seq(Thread),
         stat' \in [Thread -> {"ready", "suspend"}], error' \in [Thread -> {"EOK", "ERR"}],
         timed' \in [Thread -> BOOLEAN], msg' \in [Thread -> Link0], pc' \in [Thread -> Where],
         firing' \in Thread \cup {NoThread}, ttmr_set' \in BOOLEAN, missed' \in BOOLEAN
  PROVE  TypeOK'
<1>1. /\ msg_queue_head' \in Link0 /\ msg_queue_tail' \in Link0 /\ msg_queue_free' \in Link0
      /\ entry' \in 0..MaxMsgs
  BY ListsType
<1>2. {msg_queue_head', msg_queue_tail', msg_queue_free'} \subseteq Slot \cup {Null}
  BY <1>1, Zenon DEF Link0
<1>3. QED BY <1>1, <1>2, Zenon DEF TypeOK, Link0

\* TypeOK, in the form of the lemma above.
LEMMA Types ==
  ASSUME TypeOK
  PROVE  /\ alive \in BOOLEAN /\ next \in [Slot -> Link0]
         /\ content \in [Slot -> Msg \cup {NoMsg}]
         /\ suspend_thread \in Seq(Thread) /\ suspend_sender_thread \in Seq(Thread)
         /\ stat \in [Thread -> {"ready", "suspend"}] /\ error \in [Thread -> {"EOK", "ERR"}]
         /\ timed \in [Thread -> BOOLEAN] /\ msg \in [Thread -> Link0] /\ pc \in [Thread -> Where]
         /\ firing \in Thread \cup {NoThread} /\ ttmr_set \in BOOLEAN /\ missed \in BOOLEAN
         /\ \A b \in BOOLEAN, t \in Thread : [timed EXCEPT ![t] = b] \in [Thread -> BOOLEAN]
<1>1. \A b \in BOOLEAN, t \in Thread : [timed EXCEPT ![t] = b] \in [Thread -> BOOLEAN]
  BY DEF TypeOK
<1>2. QED BY <1>1, Zenon DEF TypeOK, Link0

\* A wait ends with an error.
LEMMA WaitFailsStep ==
  ASSUME IInv, NEW t \in Thread, WaitFails(t)
  PROVE  IInv'
<1>1. PICK q, f : Lists(q, f) /\ entry = Len(q) /\ Len(q) \in Nat /\ Len(f) \in Nat
  BY ListsExist DEF IInv
<1>2. /\ stat[t] = "ready" /\ pc[t] \in {"send", "recv"} /\ error[t] # "EOK" /\ firing = NoThread
      /\ pc' = [pc EXCEPT ![t] = "run"] /\ timed' = [timed EXCEPT ![t] = FALSE]
      /\ UNCHANGED <<alive, listVars, content, waitVars, msg, tmrVars>>
  BY DEF WaitFails, Running
<1>3. pc \in [Thread -> Where]
  BY Types DEF IInv
<1>4. Lists(q, f)'
  <2>1. \A u \in Thread : pc'[u] = pc[u] \/ (pc[u] \notin Holding /\ pc'[u] \notin Holding)
    BY <1>2, <1>3 DEF Holding
  <2>2. QED BY <1>1, <1>2, <2>1, ListsSame
<1>5. TypeOK'
  <2>1. timed' \in [Thread -> BOOLEAN] /\ pc' \in [Thread -> Where]
    BY <1>2, Types DEF IInv, Where
  <2>2. QED BY <1>2, <1>4, <2>1, Types, TypeStep DEF IInv, listVars, waitVars, tmrVars
<1>6. WaitInv'
  BY <1>2, <1>3 DEF IInv, WaitInv, waitVars
<1>7. FireInv'
  BY <1>2 DEF FireInv, tmrVars
<1>8. Woken("send") \subseteq Woken("send")' /\ Woken("recv") \subseteq Woken("recv")'
  BY <1>2, <1>3 DEF Woken, waitVars
<1>9. NoStrandedSender'
  <2>1. \/ suspend_sender_thread' = <<>>
        \/ suspend_sender_thread # <<>> /\ Len(f) <= Len(f) /\ Woken("send") \subseteq Woken("send")'
    BY <1>1, <1>2, <1>8 DEF waitVars
  <2>2. QED BY <1>1, <1>4, <2>1, SenderStep DEF IInv
<1>10. NoStrandedReceiver'
  <2>1. /\ entry \in Nat /\ entry' \in Nat
        /\ \/ suspend_thread' = <<>>
           \/ missed'
           \/ suspend_thread # <<>> /\ ~missed /\ entry' <= entry /\ Woken("recv") \subseteq Woken("recv")'
    BY <1>1, <1>2, <1>8 DEF waitVars, listVars, tmrVars
  <2>2. QED BY <2>1, ReceiverStep DEF IInv
<1>11. QED BY <1>4, <1>5, <1>6, <1>7, <1>9, <1>10, ListsPathsPrimed DEF IInv

\* Another thread was faster and no time is left.
LEMMA WaitGivesUpStep ==
  ASSUME IInv, NEW t \in Thread, WaitGivesUp(t)
  PROVE  IInv'
<1>1. PICK q, f : Lists(q, f) /\ entry = Len(q) /\ Len(q) \in Nat /\ Len(f) \in Nat
  BY ListsExist DEF IInv
<1>2. /\ stat[t] = "ready" /\ firing = NoThread
      /\ pc[t] \in {"send", "recv"}
      /\ pc[t] = "send" => msg_queue_free = Null
      /\ pc[t] = "recv" => entry = 0
      /\ pc' = [pc EXCEPT ![t] = "run"] /\ timed' = [timed EXCEPT ![t] = FALSE]
      /\ error' = [error EXCEPT ![t] = "ERR"]
      /\ UNCHANGED <<alive, listVars, content, suspend_thread, suspend_sender_thread, stat,
                     msg, tmrVars>>
  BY DEF WaitGivesUp, Running
<1>3. pc \in [Thread -> Where] /\ error \in [Thread -> {"EOK", "ERR"}]
  BY Types DEF IInv
<1>4. Lists(q, f)'
  <2>1. \A u \in Thread : pc'[u] = pc[u] \/ (pc[u] \notin Holding /\ pc'[u] \notin Holding)
    BY <1>2, <1>3 DEF Holding
  <2>2. QED BY <1>1, <1>2, <2>1, ListsSame
<1>5. TypeOK'
  <2>1. /\ timed' \in [Thread -> BOOLEAN] /\ pc' \in [Thread -> Where]
        /\ error' \in [Thread -> {"EOK", "ERR"}]
    BY <1>2, <1>3, Types DEF IInv, Where
  <2>2. QED BY <1>2, <1>4, <2>1, Types, TypeStep DEF IInv, listVars, tmrVars
<1>6. WaitInv'
  BY <1>2, <1>3 DEF IInv, WaitInv
<1>7. FireInv'
  BY <1>2 DEF FireInv, tmrVars
<1>8. /\ pc[t] = "recv" => Woken("send") \subseteq Woken("send")'
      /\ pc[t] = "send" => Woken("recv") \subseteq Woken("recv")'
  BY <1>2, <1>3 DEF Woken
<1>9. NoStrandedSender'
  <2>1. \/ suspend_sender_thread' = <<>>
        \/ f = <<>>
        \/ suspend_sender_thread # <<>> /\ Len(f) <= Len(f) /\ Woken("send") \subseteq Woken("send")'
    BY <1>1, <1>2, <1>8, NoFree
  <2>2. QED BY <1>1, <1>4, <2>1, SenderStep DEF IInv
<1>10. NoStrandedReceiver'
  <2>1. /\ entry \in Nat /\ entry' \in Nat
        /\ \/ suspend_thread' = <<>>
           \/ missed'
           \/ entry' = 0
           \/ suspend_thread # <<>> /\ ~missed /\ entry' <= entry /\ Woken("recv") \subseteq Woken("recv")'
    BY <1>1, <1>2, <1>8 DEF listVars, tmrVars
  <2>2. QED BY <2>1, ReceiverStep DEF IInv
<1>11. QED BY <1>4, <1>5, <1>6, <1>7, <1>9, <1>10, ListsPathsPrimed DEF IInv

\* A sender starts to wait: no message is free.
LEMMA SendBlockStep ==
  ASSUME IInv, NEW t \in Thread, NEW tm \in BOOLEAN, SendBlock(t, tm)
  PROVE  IInv'
<1>1. PICK q, f : Lists(q, f) /\ entry = Len(q) /\ Len(q) \in Nat /\ Len(f) \in Nat
  BY ListsExist DEF IInv
<1>2. /\ stat[t] = "ready" /\ firing = NoThread /\ pc[t] \in {"run", "send"}
      /\ msg_queue_free = Null
      /\ error' = [error EXCEPT ![t] = "ERR"] /\ stat' = [stat EXCEPT ![t] = "suspend"]
      /\ timed' = [timed EXCEPT ![t] = tm]
      /\ suspend_sender_thread' \in Enqueue(suspend_sender_thread, t)
      /\ pc' = [pc EXCEPT ![t] = "send"]
      /\ UNCHANGED <<alive, listVars, content, suspend_thread, msg, tmrVars>>
  BY DEF SendBlock, Enters, Running, Suspend
<1>3. /\ pc \in [Thread -> Where] /\ error \in [Thread -> {"EOK", "ERR"}]
      /\ stat \in [Thread -> {"ready", "suspend"}] /\ suspend_sender_thread \in Seq(Thread)
  BY Types DEF IInv
<1>4. Lists(q, f)'
  <2>1. \A u \in Thread : pc'[u] = pc[u] \/ (pc[u] \notin Holding /\ pc'[u] \notin Holding)
    BY <1>2, <1>3 DEF Holding
  <2>2. QED BY <1>1, <1>2, <2>1, ListsSame
<1>5. /\ suspend_sender_thread' \in Seq(Thread) /\ NoDup(suspend_sender_thread')
      /\ \A x : Member(suspend_sender_thread', x) <=> (Member(suspend_sender_thread, x) \/ x = t)
  <2>1. NoDup(suspend_sender_thread) /\ ~Member(suspend_sender_thread, t)
    BY <1>2 DEF IInv, WaitInv
  <2>2. QED BY <1>2, <1>3, <2>1, EnqueueMembers
<1>6. TypeOK'
  <2>1. /\ timed' \in [Thread -> BOOLEAN] /\ pc' \in [Thread -> Where]
        /\ error' \in [Thread -> {"EOK", "ERR"}] /\ stat' \in [Thread -> {"ready", "suspend"}]
    BY <1>2, <1>3, Types DEF IInv, Where
  <2>2. QED BY <1>2, <1>4, <1>5, <2>1, Types, TypeStep DEF IInv, listVars, tmrVars
<1>7. WaitInv'
  BY <1>2, <1>3, <1>5 DEF IInv, WaitInv
<1>8. FireInv'
  BY <1>2 DEF FireInv, tmrVars
<1>9. Woken("recv") \subseteq Woken("recv")'
  BY <1>2, <1>3 DEF Woken
<1>10. NoStrandedSender'
  <2>1. f = <<>>
    BY <1>1, <1>2, NoFree
  <2>2. QED BY <1>1, <1>4, <2>1, SenderStep DEF IInv
<1>11. NoStrandedReceiver'
  <2>1. /\ entry \in Nat /\ entry' \in Nat
        /\ \/ suspend_thread' = <<>>
           \/ missed'
           \/ suspend_thread # <<>> /\ ~missed /\ entry' <= entry /\ Woken("recv") \subseteq Woken("recv")'
    BY <1>1, <1>2, <1>9 DEF listVars, tmrVars
  <2>2. QED BY <2>1, ReceiverStep DEF IInv
<1>12. QED BY <1>4, <1>6, <1>7, <1>8, <1>10, <1>11, ListsPathsPrimed DEF IInv

\* A receiver starts to wait: no message is queued.
LEMMA RecvBlockStep ==
  ASSUME IInv, NEW t \in Thread, NEW tm \in BOOLEAN, RecvBlock(t, tm)
  PROVE  IInv'
<1>1. PICK q, f : Lists(q, f) /\ entry = Len(q) /\ Len(q) \in Nat /\ Len(f) \in Nat
  BY ListsExist DEF IInv
<1>2. /\ stat[t] = "ready" /\ firing = NoThread /\ pc[t] \in {"run", "recv"}
      /\ entry = 0
      /\ error' = [error EXCEPT ![t] = "ERR"] /\ stat' = [stat EXCEPT ![t] = "suspend"]
      /\ timed' = [timed EXCEPT ![t] = tm]
      /\ suspend_thread' \in Enqueue(suspend_thread, t)
      /\ pc' = [pc EXCEPT ![t] = "recv"]
      /\ UNCHANGED <<alive, listVars, content, suspend_sender_thread, msg, tmrVars>>
  BY DEF RecvBlock, Enters, Running, Suspend
<1>3. /\ pc \in [Thread -> Where] /\ error \in [Thread -> {"EOK", "ERR"}]
      /\ stat \in [Thread -> {"ready", "suspend"}] /\ suspend_thread \in Seq(Thread)
  BY Types DEF IInv
<1>4. Lists(q, f)'
  <2>1. \A u \in Thread : pc'[u] = pc[u] \/ (pc[u] \notin Holding /\ pc'[u] \notin Holding)
    BY <1>2, <1>3 DEF Holding
  <2>2. QED BY <1>1, <1>2, <2>1, ListsSame
<1>5. /\ suspend_thread' \in Seq(Thread) /\ NoDup(suspend_thread')
      /\ \A x : Member(suspend_thread', x) <=> (Member(suspend_thread, x) \/ x = t)
  <2>1. NoDup(suspend_thread) /\ ~Member(suspend_thread, t)
    BY <1>2 DEF IInv, WaitInv
  <2>2. QED BY <1>2, <1>3, <2>1, EnqueueMembers
<1>6. TypeOK'
  <2>1. /\ timed' \in [Thread -> BOOLEAN] /\ pc' \in [Thread -> Where]
        /\ error' \in [Thread -> {"EOK", "ERR"}] /\ stat' \in [Thread -> {"ready", "suspend"}]
    BY <1>2, <1>3, Types DEF IInv, Where
  <2>2. QED BY <1>2, <1>4, <1>5, <2>1, Types, TypeStep DEF IInv, listVars, tmrVars
<1>7. WaitInv'
  BY <1>2, <1>3, <1>5 DEF IInv, WaitInv
<1>8. FireInv'
  BY <1>2 DEF FireInv, tmrVars
<1>9. Woken("send") \subseteq Woken("send")'
  BY <1>2, <1>3 DEF Woken
<1>10. NoStrandedSender'
  <2>1. \/ suspend_sender_thread' = <<>>
        \/ suspend_sender_thread # <<>> /\ Len(f) <= Len(f) /\ Woken("send") \subseteq Woken("send")'
    BY <1>1, <1>2, <1>9
  <2>2. QED BY <1>1, <1>4, <2>1, SenderStep DEF IInv
<1>11. NoStrandedReceiver'
  <2>1. entry \in Nat /\ entry' \in Nat /\ entry' = 0
    BY <1>1, <1>2 DEF listVars
  <2>2. QED BY <2>1, ReceiverStep DEF IInv
<1>12. QED BY <1>4, <1>6, <1>7, <1>8, <1>10, <1>11, ListsPathsPrimed DEF IInv

\* A sender, ordinary or urgent, takes a free message.
LEMMA ReserveStep ==
  ASSUME IInv, NEW t \in Thread, SendReserve(t) \/ UrgentReserve(t)
  PROVE  IInv'
<1>1. PICK q, f : Lists(q, f) /\ entry = Len(q) /\ Len(q) \in Nat /\ Len(f) \in Nat
  BY ListsExist DEF IInv
<1>2. /\ stat[t] = "ready" /\ firing = NoThread /\ pc[t] \in {"run", "send"}
      /\ \E where \in {"copy", "ucopy"} : Reserve(t, where)
  BY DEF SendReserve, UrgentReserve, Enters, Running
<1>3. PICK where \in {"copy", "ucopy"} : Reserve(t, where)
  BY <1>2
<1>4. /\ pc \in [Thread -> Where] /\ msg \in [Thread -> Link0] /\ next \in [Slot -> Link0]
  BY Types DEF IInv
<1>5. /\ f # <<>> /\ Len(Tail(f)) = Len(f) - 1 /\ Lists(q, Tail(f))'
  <2>1. pc[t] \notin Holding
    BY <1>2 DEF Holding
  <2>2. QED BY <1>1, <1>3, <2>1, ReserveLists DEF IInv
<1>6. /\ msg_queue_free \in Slot /\ msg' = [msg EXCEPT ![t] = msg_queue_free]
      /\ pc' = [pc EXCEPT ![t] = where] /\ timed' = [timed EXCEPT ![t] = FALSE]
      /\ UNCHANGED <<alive, msg_queue_head, msg_queue_tail, next, entry, content, waitVars, tmrVars>>
  BY <1>3 DEF Reserve, IInv, TypeOK
<1>7. PICK f2 : f2 = Tail(f) /\ Lists(q, f2)'
  BY <1>5
<1>8. TypeOK'
  <2>1. timed' \in [Thread -> BOOLEAN] /\ pc' \in [Thread -> Where] /\ msg' \in [Thread -> Link0]
    BY <1>4, <1>6, Types DEF IInv, Where, Link0
  <2>2. QED BY <1>6, <1>7, <2>1, Types, TypeStep DEF IInv, waitVars, tmrVars
<1>9. WaitInv'
  BY <1>2, <1>4, <1>6 DEF IInv, WaitInv, waitVars
<1>10. FireInv'
  BY <1>2, <1>6 DEF FireInv, tmrVars
<1>11. /\ Woken("send") \ {t} \subseteq Woken("send")'
      /\ Woken("recv") \subseteq Woken("recv")'
  BY <1>2, <1>4, <1>6 DEF Woken, waitVars
<1>12. NoStrandedSender'
  <2>1. \/ suspend_sender_thread' = <<>>
        \/ /\ suspend_sender_thread # <<>>
           /\ Len(f2) <= Len(f) - 1 /\ \E u : Woken("send") \ {u} \subseteq Woken("send")'
    <3>1. Len(f2) <= Len(f) - 1
      BY <1>1, <1>5, <1>7
    <3>2. suspend_sender_thread' = suspend_sender_thread
      BY <1>6 DEF waitVars
    <3>3. QED BY <1>11, <3>1, <3>2
  <2>2. QED BY <1>1, <1>7, <2>1, SenderStep DEF IInv
<1>13. NoStrandedReceiver'
  <2>1. /\ entry \in Nat /\ entry' \in Nat
        /\ \/ suspend_thread' = <<>>
           \/ missed'
           \/ suspend_thread # <<>> /\ ~missed /\ entry' <= entry /\ Woken("recv") \subseteq Woken("recv")'
    BY <1>1, <1>6, <1>11 DEF waitVars, tmrVars
  <2>2. QED BY <2>1, ReceiverStep DEF IInv
<1>14. QED BY <1>7, <1>8, <1>9, <1>10, <1>12, <1>13, ListsPathsPrimed DEF IInv

\* A thread fills its message.
LEMMA CopyStep ==
  ASSUME IInv, NEW t \in Thread, NEW m \in Msg, Copy(t, m)
  PROVE  IInv'
<1>1. PICK q, f : Lists(q, f) /\ entry = Len(q) /\ Len(q) \in Nat /\ Len(f) \in Nat
  BY ListsExist DEF IInv
<1>2. /\ stat[t] = "ready" /\ firing = NoThread /\ pc[t] \in {"copy", "ucopy"}
      /\ content' = [content EXCEPT ![msg[t]] = m]
      /\ next' = IF pc[t] = "copy" THEN [next EXCEPT ![msg[t]] = Null] ELSE next
      /\ pc' = [pc EXCEPT ![t] = IF pc[t] = "copy" THEN "link" ELSE "ulink"]
      /\ UNCHANGED <<alive, msg_queue_head, msg_queue_tail, msg_queue_free, entry, waitVars,
                     timed, msg, tmrVars>>
  BY DEF Copy, Running
<1>3. /\ pc \in [Thread -> Where] /\ next \in [Slot -> Link0]
      /\ content \in [Slot -> Msg \cup {NoMsg}] /\ Null \in Link0
  BY Types DEF IInv, Link0
<1>4. Lists(q, f)'
  BY <1>1, CopyLists DEF IInv
<1>5. TypeOK'
  <2>1. pc' \in [Thread -> Where] /\ next' \in [Slot -> Link0]
    BY <1>2, <1>3 DEF Where
  <2>2. content' \in [Slot -> Msg \cup {NoMsg}]
    BY <1>2, <1>3
  <2>3. QED BY <1>2, <1>4, <2>1, <2>2, Types, TypeStep DEF IInv, waitVars, tmrVars
<1>6. WaitInv'
  BY <1>2, <1>3 DEF IInv, WaitInv, waitVars
<1>7. FireInv'
  BY <1>2 DEF FireInv, tmrVars
<1>8. Woken("send") \subseteq Woken("send")' /\ Woken("recv") \subseteq Woken("recv")'
  BY <1>2, <1>3 DEF Woken, waitVars
<1>9. NoStrandedSender'
  <2>1. \/ suspend_sender_thread' = <<>>
        \/ suspend_sender_thread # <<>> /\ Len(f) <= Len(f) /\ Woken("send") \subseteq Woken("send")'
    BY <1>1, <1>2, <1>8 DEF waitVars
  <2>2. QED BY <1>1, <1>4, <2>1, SenderStep DEF IInv
<1>10. NoStrandedReceiver'
  <2>1. /\ entry \in Nat /\ entry' \in Nat
        /\ \/ suspend_thread' = <<>>
           \/ missed'
           \/ suspend_thread # <<>> /\ ~missed /\ entry' <= entry /\ Woken("recv") \subseteq Woken("recv")'
    BY <1>1, <1>2, <1>8 DEF waitVars, tmrVars
  <2>2. QED BY <2>1, ReceiverStep DEF IInv
<1>11. QED BY <1>4, <1>5, <1>6, <1>7, <1>9, <1>10, ListsPathsPrimed DEF IInv

\* A message was linked, by a thread or by the interrupt handler, and a receiver
\* resumed if one waits.
LEMMA WakeStep ==
  ASSUME IInv, NEW q, NEW f, NEW q2, NEW f2, Lists(q, f), Lists(q2, f2)',
         Len(f) \in Nat, Len(f2) \in Nat, Len(f2) <= Len(f), entry \in Nat, entry' = entry + 1,
         WakeReceiver, UNCHANGED <<suspend_sender_thread, firing>>,
         \A u \in Thread : \/ pc'[u] = pc[u]
                           \/ stat[u] = "ready" /\ pc[u] \in Holding /\ pc'[u] = "run"
  PROVE  /\ WaitInv' /\ FireInv' /\ NoStrandedSender' /\ NoStrandedReceiver'
         /\ suspend_thread' \in Seq(Thread)
         /\ stat' \in [Thread -> {"ready", "suspend"}] /\ error' \in [Thread -> {"EOK", "ERR"}]
         /\ ttmr_set' \in BOOLEAN /\ missed' \in BOOLEAN
<1>1. /\ suspend_thread' \in Seq(Thread) /\ NoDup(suspend_thread')
      /\ \/ suspend_thread = <<>> /\ UNCHANGED <<suspend_thread, stat, error, ttmr_set, missed>>
         \/ \E h \in Thread : Resumed(h)
         \/ firing # NoThread /\ missed' /\ UNCHANGED <<suspend_thread, stat, error>>
  BY WakeReceiverEffect DEF IInv
<1>2. /\ stat \in [Thread -> {"ready", "suspend"}] /\ error \in [Thread -> {"EOK", "ERR"}]
  BY Types DEF IInv
<1>3. ttmr_set' \in BOOLEAN /\ missed' \in BOOLEAN
  <2>1. CASE suspend_thread = <<>>
    BY <2>1, Types DEF WakeReceiver, IInv
  <2>2. CASE suspend_thread # <<>>
    BY <2>2 DEF WakeReceiver
  <2>3. QED BY <2>1, <2>2
<1>4. stat' \in [Thread -> {"ready", "suspend"}] /\ error' \in [Thread -> {"EOK", "ERR"}]
  BY <1>1, <1>2 DEF Resumed
<1>5. CASE stat' = stat /\ error' = error /\ suspend_thread' = suspend_thread
  <2>1. WaitInv'
    BY <1>5 DEF IInv, WaitInv, Holding
  <2>2. FireInv'
    <3>1. SUFFICES ASSUME firing # NoThread, pc'[firing] = "send" PROVE stat[firing] = "suspend"
      BY <1>5 DEF FireInv
    <3>2. firing \in Thread
      BY <3>1, Types DEF IInv
    <3>3. QED BY <3>1, <3>2 DEF IInv, FireInv
  <2>3. Woken("send") \subseteq Woken("send")'
    BY <1>5 DEF Woken, Holding
  <2>4. NoStrandedSender'
    <3>1. \/ suspend_sender_thread' = <<>>
          \/ suspend_sender_thread # <<>> /\ Len(f2) <= Len(f) /\ Woken("send") \subseteq Woken("send")'
      BY <2>3
    <3>2. QED BY <3>1, SenderStep DEF IInv
  <2>5. NoStrandedReceiver'
    <3>1. suspend_thread' = <<>> \/ missed'
      BY <1>1, <1>2, <1>5 DEF Resumed
    <3>2. entry' \in Nat
      OBVIOUS
    <3>3. QED BY <3>1, <3>2, ReceiverStep DEF IInv
  <2>6. QED BY <1>1, <1>3, <1>4, <2>1, <2>2, <2>4, <2>5
<1>6. CASE \E h \in Thread : Resumed(h)
  <2>1. PICK h \in Thread : Resumed(h)
    BY <1>6
  <2>2. /\ stat[h] = "suspend" /\ pc[h] = "recv" /\ pc'[h] = "recv"
        /\ stat'[h] = "ready" /\ error'[h] = "EOK"
        /\ \A u \in Thread : u # h => stat'[u] = stat[u] /\ error'[u] = error[u]
        /\ \A x : Member(suspend_thread', x) <=> (Member(suspend_thread, x) /\ x # h)
        /\ missed' <=> missed
    BY <1>2, <2>1 DEF Resumed, Holding
  <2>3. WaitInv'
    BY <1>1, <2>2 DEF IInv, WaitInv, Holding
  <2>4. FireInv'
    <3>1. SUFFICES ASSUME firing # NoThread, pc'[firing] = "send" PROVE stat'[firing] = "suspend"
      BY DEF FireInv
    <3>2. firing \in Thread
      BY <3>1, Types DEF IInv
    <3>3. QED BY <2>2, <3>1, <3>2 DEF IInv, FireInv
  <2>5. /\ Woken("send") \subseteq Woken("send")'
        /\ h \notin Woken("recv") /\ Woken("recv") \cup {h} \subseteq Woken("recv")'
    BY <2>2 DEF Woken, Holding
  <2>6. NoStrandedSender'
    <3>1. \/ suspend_sender_thread' = <<>>
          \/ suspend_sender_thread # <<>> /\ Len(f2) <= Len(f) /\ Woken("send") \subseteq Woken("send")'
      BY <2>5
    <3>2. QED BY <3>1, SenderStep DEF IInv
  <2>7. suspend_thread # <<>>
    <3>1. Member(suspend_thread, h) /\ suspend_thread \in Seq(Thread)
      BY <2>2, Types DEF IInv, WaitInv
    <3>2. QED BY <3>1, EmptyMembers
  <2>8. NoStrandedReceiver'
    <3>1. \/ missed'
          \/ /\ suspend_thread # <<>> /\ ~missed
             /\ entry' <= entry + 1
             /\ \E u : u \notin Woken("recv") /\ Woken("recv") \cup {u} \subseteq Woken("recv")'
      BY <2>2, <2>5, <2>7
    <3>2. entry' \in Nat
      OBVIOUS
    <3>3. QED BY <3>1, <3>2, ReceiverStep DEF IInv
  <2>9. QED BY <1>1, <1>3, <1>4, <2>3, <2>4, <2>6, <2>8
<1>7. QED BY <1>1, <1>5, <1>6

\* A thread links its message.
LEMMA LinkStep ==
  ASSUME IInv, NEW t \in Thread, Link(t)
  PROVE  IInv'
<1>1. PICK q, f : Lists(q, f) /\ entry = Len(q) /\ Len(q) \in Nat /\ Len(f) \in Nat
  BY ListsExist DEF IInv
<1>2. /\ stat[t] = "ready" /\ firing = NoThread /\ pc[t] \in {"link", "ulink"}
      /\ entry' = entry + 1 /\ WakeReceiver
      /\ msg' = [msg EXCEPT ![t] = Null] /\ pc' = [pc EXCEPT ![t] = "run"]
      /\ UNCHANGED <<alive, msg_queue_free, content, suspend_sender_thread, timed, firing>>
  BY DEF Link, Running
<1>3. /\ pc \in [Thread -> Where] /\ msg \in [Thread -> Link0] /\ Null \in Link0
  BY Types DEF IInv, Link0
<1>4. PICK s, where : s = msg[t] /\ where = pc[t]
  OBVIOUS
<1>5. /\ next' \in [Slot -> Link0] /\ s \in Slot
      /\ Lists(Linked(q, s, where), f)'
  BY <1>1, <1>4, LinkLists DEF IInv
<1>6. PICK q2 : q2 = Linked(q, s, where) /\ Lists(q2, f)'
  BY <1>5
<1>7. \A u \in Thread : \/ pc'[u] = pc[u]
                        \/ stat[u] = "ready" /\ pc[u] \in Holding /\ pc'[u] = "run"
  BY <1>2, <1>3 DEF Holding
<1>8. /\ WaitInv' /\ FireInv' /\ NoStrandedSender' /\ NoStrandedReceiver'
      /\ suspend_thread' \in Seq(Thread)
      /\ stat' \in [Thread -> {"ready", "suspend"}] /\ error' \in [Thread -> {"EOK", "ERR"}]
      /\ ttmr_set' \in BOOLEAN /\ missed' \in BOOLEAN
  <2>1. Len(f) <= Len(f) /\ entry \in Nat
    BY <1>1
  <2>2. QED BY <1>1, <1>2, <1>6, <1>7, <2>1, WakeStep
<1>9. TypeOK'
  <2>1. pc' \in [Thread -> Where] /\ msg' \in [Thread -> Link0]
    BY <1>2, <1>3 DEF Where
  <2>2. QED BY <1>2, <1>5, <1>6, <1>8, <2>1, Types, TypeStep DEF IInv
<1>10. QED BY <1>6, <1>8, <1>9, ListsPathsPrimed DEF IInv

\* The interrupt handler sends.
LEMMA IsrSendStep ==
  ASSUME IInv, NEW m \in Msg, IsrSend(m)
  PROVE  IInv'
<1>1. PICK q, f : Lists(q, f) /\ entry = Len(q) /\ Len(q) \in Nat /\ Len(f) \in Nat
  BY ListsExist DEF IInv
<1>2. /\ content' = [content EXCEPT ![msg_queue_free] = m]
      /\ entry' = entry + 1 /\ WakeReceiver
      /\ UNCHANGED <<alive, suspend_sender_thread, timed, msg, pc, firing>>
  BY DEF IsrSend
<1>3. content \in [Slot -> Msg \cup {NoMsg}]
  BY Types DEF IInv
<1>4. PICK s : s = msg_queue_free
  OBVIOUS
<1>5. /\ next' \in [Slot -> Link0] /\ s \in Slot
      /\ Len(Tail(f)) = Len(f) - 1 /\ f # <<>>
      /\ Lists(Append(q, s), Tail(f))'
  BY <1>1, <1>4, IsrLists DEF IInv
<1>6. PICK q2, f2 : q2 = Append(q, s) /\ f2 = Tail(f) /\ Lists(q2, f2)'
  BY <1>5
<1>7. Len(f2) \in Nat /\ Len(f2) <= Len(f) /\ entry \in Nat
  <2>1. PICK g, n : g = msg_queue_free' /\ n = next'
    OBVIOUS
  <2>2. Chain(f2, g, n)
    BY <1>6, <2>1 DEF Lists
  <2>3. Len(f2) \in Nat
    BY <2>2, ChainHead
  <2>4. QED BY <1>1, <1>5, <1>6, <2>3
<1>8. /\ WaitInv' /\ FireInv' /\ NoStrandedSender' /\ NoStrandedReceiver'
      /\ suspend_thread' \in Seq(Thread)
      /\ stat' \in [Thread -> {"ready", "suspend"}] /\ error' \in [Thread -> {"EOK", "ERR"}]
      /\ ttmr_set' \in BOOLEAN /\ missed' \in BOOLEAN
  <2>1. \A u \in Thread : pc'[u] = pc[u]
    BY <1>2
  <2>2. QED BY <1>1, <1>2, <1>6, <1>7, <2>1, WakeStep
<1>9. TypeOK'
  <2>1. content' \in [Slot -> Msg \cup {NoMsg}]
    BY <1>2, <1>3
  <2>2. QED BY <1>2, <1>5, <1>6, <1>8, <2>1, Types, TypeStep DEF IInv
<1>10. QED BY <1>6, <1>8, <1>9, ListsPathsPrimed DEF IInv

\* A receiver takes the first message.
LEMMA RecvTakeStep ==
  ASSUME IInv, NEW t \in Thread, RecvTake(t)
  PROVE  IInv'
<1>1. PICK q, f : Lists(q, f) /\ entry = Len(q) /\ Len(q) \in Nat /\ Len(f) \in Nat
  BY ListsExist DEF IInv
<1>2. /\ stat[t] = "ready" /\ firing = NoThread /\ pc[t] \in {"run", "recv"}
      /\ entry > 0 /\ entry' = entry - 1
      /\ msg' = [msg EXCEPT ![t] = msg_queue_head] /\ pc' = [pc EXCEPT ![t] = "taken"]
      /\ timed' = [timed EXCEPT ![t] = FALSE]
      /\ UNCHANGED <<alive, msg_queue_free, next, content, waitVars, tmrVars>>
  BY DEF RecvTake, Enters, Running
<1>3. /\ pc \in [Thread -> Where] /\ msg \in [Thread -> Link0] /\ msg_queue_head \in Link0
  BY Types DEF IInv, TypeOK, Link0
<1>4. PICK q2 : q2 = Tail(q) /\ Lists(q2, f)'
  <2>1. pc[t] \notin Holding
    BY <1>2 DEF Holding
  <2>2. Lists(Tail(q), f)'
    BY <1>1, <2>1, TakeLists DEF IInv
  <2>3. QED BY <2>2
<1>5. TypeOK'
  <2>1. timed' \in [Thread -> BOOLEAN] /\ pc' \in [Thread -> Where] /\ msg' \in [Thread -> Link0]
    BY <1>2, <1>3, Types DEF IInv, Where
  <2>2. QED BY <1>2, <1>4, <2>1, Types, TypeStep DEF IInv, waitVars, tmrVars
<1>6. WaitInv'
  BY <1>2, <1>3 DEF IInv, WaitInv, waitVars
<1>7. FireInv'
  BY <1>2 DEF FireInv, tmrVars
<1>8. /\ Woken("recv") \ {t} \subseteq Woken("recv")'
      /\ Woken("send") \subseteq Woken("send")'
  BY <1>2, <1>3 DEF Woken, waitVars
<1>9. NoStrandedSender'
  <2>1. \/ suspend_sender_thread' = <<>>
        \/ suspend_sender_thread # <<>> /\ Len(f) <= Len(f) /\ Woken("send") \subseteq Woken("send")'
    BY <1>1, <1>2, <1>8 DEF waitVars
  <2>2. QED BY <1>1, <1>4, <2>1, SenderStep DEF IInv
<1>10. NoStrandedReceiver'
  <2>1. /\ \/ suspend_thread' = <<>>
           \/ missed'
           \/ /\ suspend_thread # <<>> /\ ~missed
              /\ entry' <= entry - 1 /\ \E u : Woken("recv") \ {u} \subseteq Woken("recv")'
    <3>1. entry' <= entry - 1
      BY <1>1, <1>2
    <3>2. suspend_thread' = suspend_thread /\ missed' = missed
      BY <1>2 DEF waitVars, tmrVars
    <3>3. QED BY <1>8, <3>1, <3>2
  <2>2. entry \in Nat /\ entry' \in Nat
    BY <1>1, <1>2
  <2>3. QED BY <2>1, <2>2, ReceiverStep DEF IInv
<1>11. QED BY <1>4, <1>5, <1>6, <1>7, <1>9, <1>10, ListsPathsPrimed DEF IInv

\* A receiver puts its message into the free list and resumes a sender.
LEMMA RecvFreeStep ==
  ASSUME IInv, NEW t \in Thread, RecvFree(t)
  PROVE  IInv'
<1>1. PICK q, f : Lists(q, f) /\ entry = Len(q) /\ Len(q) \in Nat /\ Len(f) \in Nat
  BY ListsExist DEF IInv
<1>2. /\ stat[t] = "ready" /\ firing = NoThread /\ pc[t] = "taken"
      /\ WakeSender
      /\ next' = [next EXCEPT ![msg[t]] = msg_queue_free]
      /\ msg' = [msg EXCEPT ![t] = Null] /\ pc' = [pc EXCEPT ![t] = "run"]
      /\ UNCHANGED <<alive, msg_queue_head, msg_queue_tail, entry, content, suspend_thread,
                     timed, tmrVars>>
  BY DEF RecvFree, Running
<1>3. /\ pc \in [Thread -> Where] /\ msg \in [Thread -> Link0] /\ Null \in Link0
      /\ next \in [Slot -> Link0] /\ msg_queue_free \in Link0
      /\ stat \in [Thread -> {"ready", "suspend"}] /\ error \in [Thread -> {"EOK", "ERR"}]
  BY Types DEF IInv, TypeOK, Link0
<1>4. PICK f2 : Len(f2) = Len(f) + 1 /\ Lists(q, f2)'
  <2>1. PICK s : s = msg[t]
    OBVIOUS
  <2>2. Len(<<s>> \o f) = Len(f) + 1 /\ Lists(q, <<s>> \o f)'
    BY <1>1, <2>1, FreeLists DEF IInv
  <2>3. QED BY <2>2
<1>5. /\ suspend_sender_thread' \in Seq(Thread) /\ NoDup(suspend_sender_thread')
      /\ \/ suspend_sender_thread = <<>> /\ UNCHANGED <<suspend_sender_thread, stat, error>>
         \/ \E h \in Thread :
              /\ stat[h] = "suspend" /\ pc[h] = "send"
              /\ stat' = [stat EXCEPT ![h] = "ready"] /\ error' = [error EXCEPT ![h] = "EOK"]
              /\ \A x : Member(suspend_sender_thread', x) <=>
                          (Member(suspend_sender_thread, x) /\ x # h)
  BY <1>2, WakeSenderEffect DEF IInv
<1>6. TypeOK'
  <2>1. pc' \in [Thread -> Where] /\ msg' \in [Thread -> Link0] /\ next' \in [Slot -> Link0]
    BY <1>2, <1>3 DEF Where
  <2>2. stat' \in [Thread -> {"ready", "suspend"}] /\ error' \in [Thread -> {"EOK", "ERR"}]
    BY <1>3, <1>5
  <2>3. QED BY <1>2, <1>4, <1>5, <2>1, <2>2, Types, TypeStep DEF IInv, tmrVars
<1>7. FireInv'
  BY <1>2 DEF FireInv, tmrVars
<1>8. WaitInv' /\ NoStrandedSender' /\ Woken("recv") \subseteq Woken("recv")'
  <2>1. CASE suspend_sender_thread = <<>> /\ UNCHANGED <<suspend_sender_thread, stat, error>>
    <3>1. WaitInv'
      BY <1>2, <1>3, <2>1 DEF IInv, WaitInv
    <3>2. NoStrandedSender'
      BY <1>1, <1>4, <2>1, SenderStep DEF IInv
    <3>3. Woken("recv") \subseteq Woken("recv")'
      BY <1>2, <1>3, <2>1 DEF Woken
    <3>4. QED BY <3>1, <3>2, <3>3
  <2>2. CASE ~(suspend_sender_thread = <<>> /\ UNCHANGED <<suspend_sender_thread, stat, error>>)
    <3>1. PICK h \in Thread :
            /\ stat[h] = "suspend" /\ pc[h] = "send"
            /\ stat' = [stat EXCEPT ![h] = "ready"] /\ error' = [error EXCEPT ![h] = "EOK"]
            /\ \A x : Member(suspend_sender_thread', x) <=>
                        (Member(suspend_sender_thread, x) /\ x # h)
      BY <1>5, <2>2
    <3>2. WaitInv'
      BY <1>2, <1>3, <1>5, <3>1 DEF IInv, WaitInv
    <3>3. /\ Woken("recv") \subseteq Woken("recv")'
          /\ h \notin Woken("send") /\ Woken("send") \cup {h} \subseteq Woken("send")'
      BY <1>2, <1>3, <3>1 DEF Woken
    <3>4. suspend_sender_thread # <<>>
      <4>1. Member(suspend_sender_thread, h) /\ suspend_sender_thread \in Seq(Thread)
        BY <3>1, Types DEF IInv, WaitInv
      <4>2. QED BY <4>1, EmptyMembers
    <3>5. Len(f2) <= Len(f) + 1
      BY <1>1, <1>4
    <3>6. NoStrandedSender'
      BY <1>1, <1>4, <3>3, <3>4, <3>5, SenderStep DEF IInv
    <3>7. QED BY <3>2, <3>3, <3>6
  <2>3. QED BY <2>1, <2>2
<1>9. NoStrandedReceiver'
  <2>1. /\ entry \in Nat /\ entry' \in Nat
        /\ \/ suspend_thread' = <<>>
           \/ missed'
           \/ suspend_thread # <<>> /\ ~missed /\ entry' <= entry /\ Woken("recv") \subseteq Woken("recv")'
    BY <1>1, <1>2, <1>8 DEF tmrVars
  <2>2. QED BY <2>1, ReceiverStep DEF IInv
<1>10. QED BY <1>4, <1>6, <1>7, <1>8, <1>9, ListsPathsPrimed DEF IInv

\* The queue is reset.
LEMMA ResetStep ==
  ASSUME IInv, NEW t \in Thread, Reset(t)
  PROVE  IInv'
<1>1. PICK q, f : Lists(q, f) /\ entry = Len(q) /\ Len(q) \in Nat /\ Len(f) \in Nat
  BY ListsExist DEF IInv
<1>2. /\ firing = NoThread /\ WakeAll /\ FreeAll /\ entry' = 0
      /\ UNCHANGED <<alive, content, timed, msg, pc, tmrVars>>
  BY DEF Reset, Running
<1>3. /\ suspend_thread' = <<>> /\ suspend_sender_thread' = <<>>
      /\ stat' = [u \in Thread |-> "ready"] /\ error' \in [Thread -> {"EOK", "ERR"}]
  BY <1>2, WakeAllEffect DEF IInv
<1>4. PICK q2, f2 : Lists(q2, f2)' /\ next' \in [Slot -> Link0]
  BY <1>1, <1>2, ResetLists DEF IInv
<1>5. TypeOK'
  <2>1. /\ <<>> \in Seq(Thread)
        /\ [u \in Thread |-> "ready"] \in [Thread -> {"ready", "suspend"}]
    OBVIOUS
  <2>2. QED BY <1>2, <1>3, <1>4, <2>1, Types, TypeStep DEF IInv, tmrVars
<1>6. WaitInv'
  <2>1. NoDup(<<>>) /\ \A x : ~Member(<<>>, x)
    BY DEF NoDup, Member
  <2>2. QED BY <1>3, <2>1 DEF WaitInv
<1>7. FireInv'
  BY <1>2 DEF FireInv, tmrVars
<1>8. NoStrandedSender' /\ NoStrandedReceiver'
  BY <1>3 DEF NoStrandedSender, NoStrandedReceiver
<1>9. QED BY <1>4, <1>5, <1>6, <1>7, <1>8, ListsPathsPrimed DEF IInv

\* The queue is detached.
LEMMA DetachStep ==
  ASSUME IInv, NEW t \in Thread, Detach(t)
  PROVE  IInv'
<1>1. PICK q, f : Lists(q, f) /\ entry = Len(q) /\ Len(q) \in Nat /\ Len(f) \in Nat
  BY ListsExist DEF IInv
<1>2. /\ firing = NoThread /\ WakeAll /\ alive' = FALSE
      /\ UNCHANGED <<listVars, content, timed, msg, pc, tmrVars>>
  BY DEF Detach, Running
<1>3. /\ suspend_thread' = <<>> /\ suspend_sender_thread' = <<>>
      /\ stat' = [u \in Thread |-> "ready"] /\ error' \in [Thread -> {"EOK", "ERR"}]
  BY <1>2, WakeAllEffect DEF IInv
<1>4. Lists(q, f)'
  <2>1. \A u \in Thread : pc'[u] = pc[u]
    BY <1>2
  <2>2. QED BY <1>1, <1>2, <2>1, ListsSame
<1>5. TypeOK'
  <2>1. /\ <<>> \in Seq(Thread)
        /\ [u \in Thread |-> "ready"] \in [Thread -> {"ready", "suspend"}]
        /\ FALSE \in BOOLEAN
    OBVIOUS
  <2>2. QED BY <1>2, <1>3, <1>4, <2>1, Types, TypeStep DEF IInv, listVars, tmrVars
<1>6. WaitInv'
  <2>1. NoDup(<<>>) /\ \A x : ~Member(<<>>, x)
    BY DEF NoDup, Member
  <2>2. QED BY <1>3, <2>1 DEF WaitInv
<1>7. FireInv'
  BY <1>2 DEF FireInv, tmrVars
<1>8. NoStrandedSender' /\ NoStrandedReceiver'
  BY <1>3 DEF NoStrandedSender, NoStrandedReceiver
<1>9. QED BY <1>4, <1>5, <1>6, <1>7, <1>8, ListsPathsPrimed DEF IInv

\* The tick handler takes the timer of a waiting thread.
LEMMA TimerFiresStep ==
  ASSUME IInv, NEW t \in Thread, TimerFires(t)
  PROVE  IInv'
<1>1. PICK q, f : Lists(q, f) /\ entry = Len(q) /\ Len(q) \in Nat /\ Len(f) \in Nat
  BY ListsExist DEF IInv
<1>2. /\ stat[t] = "suspend" /\ firing' = t /\ ttmr_set' = TRUE
      /\ UNCHANGED <<alive, listVars, content, waitVars, timed, msg, pc, missed>>
  BY DEF TimerFires
<1>3. Lists(q, f)'
  <2>1. \A u \in Thread : pc'[u] = pc[u]
    BY <1>2
  <2>2. QED BY <1>1, <1>2, <2>1, ListsSame
<1>4. TypeOK'
  <2>1. TRUE \in BOOLEAN /\ firing' \in Thread \cup {NoThread}
    BY <1>2
  <2>2. QED BY <1>2, <1>3, <2>1, Types, TypeStep DEF IInv, listVars, waitVars
<1>5. WaitInv' /\ FireInv'
  BY <1>2 DEF IInv, WaitInv, FireInv, waitVars
<1>6. Woken("send") = Woken("send")' /\ Woken("recv") = Woken("recv")'
  BY <1>2 DEF Woken, waitVars
<1>7. NoStrandedSender'
  <2>1. \/ suspend_sender_thread' = <<>>
        \/ suspend_sender_thread # <<>> /\ Len(f) <= Len(f) /\ Woken("send") \subseteq Woken("send")'
    BY <1>1, <1>2, <1>6 DEF waitVars
  <2>2. QED BY <1>1, <1>3, <2>1, SenderStep DEF IInv
<1>8. NoStrandedReceiver'
  <2>1. UNCHANGED <<suspend_thread, missed, entry>>
    BY <1>2 DEF waitVars, listVars
  <2>2. QED BY <1>6, <2>1 DEF IInv, NoStrandedReceiver
<1>9. QED BY <1>3, <1>4, <1>5, <1>7, <1>8, ListsPathsPrimed DEF IInv

\* _thread_timeout.
LEMMA ThreadTimeoutStep ==
  ASSUME IInv, ThreadTimeout
  PROVE  IInv'
<1>1. PICK q, f : Lists(q, f) /\ entry = Len(q) /\ Len(q) \in Nat /\ Len(f) \in Nat
  BY ListsExist DEF IInv
<1>2. PICK t : t = firing
  OBVIOUS
<1>3. /\ t # NoThread
      /\ error' = [error EXCEPT ![t] = "ERR"] /\ stat' = [stat EXCEPT ![t] = "ready"]
      /\ suspend_thread' = Unlink(suspend_thread, t)
      /\ suspend_sender_thread' = Unlink(suspend_sender_thread, t)
      /\ missed' = (missed \/ stat[t] = "ready")
      /\ firing' = NoThread /\ ttmr_set' = FALSE
      /\ UNCHANGED <<alive, listVars, content, timed, msg, pc>>
  BY <1>2 DEF ThreadTimeout
<1>4. /\ t \in Thread /\ (pc[t] = "send" => stat[t] = "suspend")
      /\ stat \in [Thread -> {"ready", "suspend"}] /\ error \in [Thread -> {"EOK", "ERR"}]
      /\ suspend_thread \in Seq(Thread) /\ suspend_sender_thread \in Seq(Thread)
      /\ NoDup(suspend_thread) /\ NoDup(suspend_sender_thread)
  BY <1>2, <1>3, Types DEF IInv, FireInv, WaitInv
<1>5. /\ suspend_thread' \in Seq(Thread) /\ NoDup(suspend_thread')
      /\ \A x : Member(suspend_thread', x) <=> (Member(suspend_thread, x) /\ x # t)
  BY <1>3, <1>4, UnlinkMembers
<1>6. /\ suspend_sender_thread' \in Seq(Thread) /\ NoDup(suspend_sender_thread')
      /\ \A x : Member(suspend_sender_thread', x) <=> (Member(suspend_sender_thread, x) /\ x # t)
  BY <1>3, <1>4, UnlinkMembers
<1>7. Lists(q, f)'
  <2>1. \A u \in Thread : pc'[u] = pc[u]
    BY <1>3
  <2>2. QED BY <1>1, <1>3, <2>1, ListsSame
<1>8. TypeOK'
  <2>1. /\ missed' \in BOOLEAN /\ ttmr_set' \in BOOLEAN /\ firing' \in Thread \cup {NoThread}
    BY <1>3
  <2>2. stat' \in [Thread -> {"ready", "suspend"}] /\ error' \in [Thread -> {"EOK", "ERR"}]
    BY <1>3, <1>4
  <2>3. QED BY <1>3, <1>5, <1>6, <1>7, <2>1, <2>2, Types, TypeStep DEF IInv, listVars
<1>9. WaitInv' /\ FireInv'
  <2>1. FireInv'
    BY <1>3 DEF FireInv
  <2>2. WaitInv'
    BY <1>3, <1>4, <1>5, <1>6 DEF IInv, WaitInv
  <2>3. QED BY <2>1, <2>2
<1>10. /\ Woken("send") \subseteq Woken("send")'
       /\ stat[t] # "ready" => Woken("recv") \subseteq Woken("recv")'
  BY <1>3, <1>4 DEF Woken
<1>11. /\ suspend_sender_thread' # <<>> => suspend_sender_thread # <<>>
       /\ suspend_thread' # <<>> => suspend_thread # <<>>
  <2>1. suspend_sender_thread' # <<>> => suspend_sender_thread # <<>>
    BY <1>4, <1>6, EmptyMembers
  <2>2. suspend_thread' # <<>> => suspend_thread # <<>>
    BY <1>4, <1>5, EmptyMembers
  <2>3. QED BY <2>1, <2>2
<1>12. NoStrandedSender'
  <2>1. \/ suspend_sender_thread' = <<>>
        \/ suspend_sender_thread # <<>> /\ Len(f) <= Len(f) /\ Woken("send") \subseteq Woken("send")'
    BY <1>1, <1>10, <1>11
  <2>2. QED BY <1>1, <1>7, <2>1, SenderStep DEF IInv
<1>13. NoStrandedReceiver'
  <2>1. entry \in Nat /\ entry' \in Nat /\ entry' <= entry
    BY <1>1, <1>3 DEF listVars
  <2>2. \/ suspend_thread' = <<>>
        \/ missed'
        \/ suspend_thread # <<>> /\ ~missed /\ entry' <= entry /\ Woken("recv") \subseteq Woken("recv")'
    BY <1>3, <1>10, <1>11, <2>1
  <2>3. QED BY <2>1, <2>2, ReceiverStep DEF IInv
<1>14. QED BY <1>7, <1>8, <1>9, <1>12, <1>13, ListsPathsPrimed DEF IInv

\* The state after rt_mq_init.
LEMMA InitStep ==
  ASSUME Init
  PROVE  IInv
<1>1. PICK e, n : e = <<>> /\ n = next
  OBVIOUS
<1>2. n = [x \in Slot |-> x - 1]
  BY <1>1 DEF Init
<1>3. Chain(e, Null, n)
  BY <1>1, <1>2, ChainInit
<1>4. PICK f : Chain(f, MaxMsgs, n) /\ \A x : Member(f, x) <=> x \in Slot
  BY <1>2, ChainInit
<1>5. NoDup(e) /\ (\A x : ~Member(e, x)) /\ Len(e) = 0
  BY <1>1 DEF NoDup, Member
<1>6. \A t \in Thread : pc[t] = "run" /\ msg[t] = Null /\ stat[t] = "ready"
  BY DEF Init
<1>7. Owned(e, f, msg, pc) /\ Filled(e, content, msg, pc)
  BY <1>4, <1>5, <1>6 DEF Owned, Filled, Holding
<1>8. Lists(e, f)
  <2>1. \A t \in Thread : pc[t] = "link" => next[msg[t]] = Null
    BY <1>6
  <2>2. /\ msg_queue_head = Null /\ msg_queue_tail = Null /\ msg_queue_free = MaxMsgs
        /\ entry = 0
    BY DEF Init
  <2>3. QED BY <1>1, <1>3, <1>4, <1>5, <1>7, <2>1, <2>2 DEF Lists
<1>9. ListInv
  BY <1>8, ListsPaths
<1>10. TypeOK
  <2>1. \A x \in Slot : x - 1 \in Slot \cup {Null}
    BY Slots DEF Slot
  <2>2. next \in [Slot -> Slot \cup {Null}] /\ content \in [Slot -> Msg \cup {NoMsg}]
    BY <1>1, <1>2, <2>1 DEF Init
  <2>3. {msg_queue_head, msg_queue_tail, msg_queue_free} \subseteq Slot \cup {Null} /\ entry \in 0..MaxMsgs
    BY Slots DEF Init, Slot
  <2>4. /\ suspend_thread \in Seq(Thread) /\ suspend_sender_thread \in Seq(Thread)
        /\ stat \in [Thread -> {"ready", "suspend"}] /\ error \in [Thread -> {"EOK", "ERR"}]
        /\ timed \in [Thread -> BOOLEAN] /\ msg \in [Thread -> Slot \cup {Null}]
    BY DEF Init
  <2>5. pc \in [Thread -> Where]
    BY DEF Init, Where
  <2>6. alive \in BOOLEAN /\ firing \in Thread \cup {NoThread} /\ ttmr_set \in BOOLEAN /\ missed \in BOOLEAN
    BY DEF Init
  <2>7. QED BY <2>2, <2>3, <2>4, <2>5, <2>6, Zenon DEF TypeOK
<1>11. WaitInv
  BY <1>1, <1>5, <1>6 DEF WaitInv, Init
<1>12. FireInv /\ NoStrandedSender /\ NoStrandedReceiver
  BY DEF FireInv, NoStrandedSender, NoStrandedReceiver, Init
<1>13. QED BY <1>9, <1>10, <1>11, <1>12 DEF IInv

\* A step that changes nothing.
LEMMA StutterStep ==
  ASSUME IInv, UNCHANGED vars
  PROVE  IInv'
<1>1. /\ UNCHANGED <<alive, content, timed, msg, pc>>
      /\ UNCHANGED <<msg_queue_head, msg_queue_tail, msg_queue_free, next, entry>>
      /\ UNCHANGED <<suspend_thread, suspend_sender_thread, stat, error>>
      /\ UNCHANGED <<firing, ttmr_set, missed>>
  BY DEF vars, listVars, waitVars, tmrVars
<1>2. TypeOK'
  BY <1>1, Zenon DEF IInv, TypeOK
<1>3. ListInv'
  BY <1>1 DEF IInv, ListInv, Lists, Path
<1>4. WaitInv' /\ FireInv'
  BY <1>1 DEF IInv, WaitInv, FireInv
<1>5. NoStrandedSender' /\ NoStrandedReceiver'
  BY <1>1 DEF IInv, NoStrandedSender, NoStrandedReceiver, Path, Woken
<1>6. QED BY <1>2, <1>3, <1>4, <1>5 DEF IInv

\* Every step preserves the invariant.
LEMMA NextStep ==
  ASSUME IInv, [Next]_vars
  PROVE  IInv'
<1>1. CASE \E m \in Msg : IsrSend(m)
  BY <1>1, IsrSendStep
<1>2. CASE ThreadTimeout
  BY <1>2, ThreadTimeoutStep
<1>3. ASSUME NEW t \in Thread,
             \/ \E tm \in BOOLEAN : SendBlock(t, tm) \/ RecvBlock(t, tm)
             \/ SendReserve(t) \/ UrgentReserve(t) \/ Link(t)
             \/ \E m \in Msg : Copy(t, m)
             \/ RecvTake(t) \/ RecvFree(t) \/ WaitFails(t) \/ WaitGivesUp(t)
             \/ Reset(t) \/ Detach(t) \/ TimerFires(t)
      PROVE  IInv'
  BY <1>3, SendBlockStep, RecvBlockStep, ReserveStep, LinkStep, CopyStep, RecvTakeStep,
     RecvFreeStep, WaitFailsStep, WaitGivesUpStep, ResetStep, DetachStep, TimerFiresStep
<1>4. CASE UNCHANGED vars
  BY <1>4, StutterStep
<1>5. QED BY <1>1, <1>2, <1>3, <1>4 DEF Next

\* The lists, the suspend lists, the types and the two counts hold in every state
\* that the operations on a message queue, the USB interrupt and the tick handler
\* reach together.
THEOREM MqInvariant == Spec => []IInv
<1>1. Init => IInv
  BY InitStep
<1>2. IInv /\ [Next]_vars => IInv'
  BY NextStep
<1>3. QED BY <1>1, <1>2, PTL DEF Spec

\* The state of a message queue and of the threads that use it keeps its types.
THEOREM MqTypeCorrect == Spec => []TypeOK
<1>1. IInv => TypeOK
  BY DEF IInv
<1>2. QED BY <1>1, MqInvariant, PTL

\* No sender waits while a free message has nobody on the way to it.
THEOREM MqNoStrandedSender == Spec => []NoStrandedSender
<1>1. IInv => NoStrandedSender
  BY DEF IInv
<1>2. QED BY <1>1, MqInvariant, PTL

\* Unless a wake-up was lost to a timeout, no receiver waits while a queued
\* message has nobody on the way to it.
THEOREM MqNoStrandedReceiver == Spec => []NoStrandedReceiver
<1>1. IInv => NoStrandedReceiver
  BY DEF IInv
<1>2. QED BY <1>1, MqInvariant, PTL

-----------------------------------------------------------------------------
(* Counting the messages.                                                  *)

Held == {t \in Thread : pc[t] \in Holding}

\* The queued and the free messages and those in the hands of threads add up.
LEMMA SlotCount ==
  ASSUME NEW q, NEW f, TypeOK, Lists(q, f)
  PROVE  /\ IsFiniteSet(Held) /\ Cardinality(Held) \in Nat
         /\ Len(q) \in Nat /\ Len(f) \in Nat
         /\ Len(q) + Len(f) + Cardinality(Held) = MaxMsgs
         /\ ToSet(q) \cup ToSet(f) \cup {msg[t] : t \in Held} = Slot
<1> DEFINE A == {q[i] : i \in 1..Len(q)}
           B == {f[i] : i \in 1..Len(f)}
           M == {msg[t] : t \in Held}
<1>1. Chain(q, msg_queue_head, next) /\ Chain(f, msg_queue_free, next) /\ Owned(q, f, msg, pc)
  BY DEF Lists
<1>2. /\ q \in Seq(Slot) /\ NoDup(q) /\ f \in Seq(Slot) /\ NoDup(f)
  BY <1>1 DEF Chain
<1>3. IsFiniteSet(Slot) /\ Cardinality(Slot) = MaxMsgs
  BY Slots, FS_Interval DEF Slot
<1>4. IsFiniteSet(A) /\ Cardinality(A) = Len(q) /\ Len(q) \in Nat
  BY <1>2, <1>3, ShortList
<1>5. IsFiniteSet(B) /\ Cardinality(B) = Len(f) /\ Len(f) \in Nat
  BY <1>2, <1>3, ShortList
<1>6. A = ToSet(q) /\ B = ToSet(f)
  BY <1>2 DEF ToSet
<1>7. /\ \A x : x \in A <=> Member(q, x)
      /\ \A x : x \in B <=> Member(f, x)
  <2>1. DOMAIN q = 1..Len(q) /\ DOMAIN f = 1..Len(f)
    BY <1>2
  <2>2. \A x : x \in A <=> Member(q, x)
    BY <2>1 DEF Member
  <2>3. \A x : x \in B <=> Member(f, x)
    BY <2>1 DEF Member
  <2>4. QED BY <2>2, <2>3, Zenon
<1>8. Held \subseteq Thread
  BY DEF Held
<1>9. IsFiniteSet(Held)
  BY <1>8, Finite, FS_Subset
<1>10. \A t \in Held : msg[t] \in Slot /\ msg[t] \notin A /\ msg[t] \notin B
  BY <1>1, <1>7 DEF Owned, Held
<1>11. IsFiniteSet(M) /\ Cardinality(M) = Cardinality(Held)
  <2> DEFINE g == [t \in Held |-> msg[t]]
  <2>1. \A t, u \in Held : msg[t] = msg[u] => t = u
    BY <1>1, <1>8, <1>10, Slots DEF Owned
  <2>2. g \in Bijection(Held, M)
    BY <2>1 DEF Bijection, Injection, Surjection, IsInjective
  <2>3. ExistsBijection(Held, M)
    BY <2>2 DEF ExistsBijection
  <2> HIDE DEF M
  <2>4. QED BY <1>9, <2>3, FS_Bijection
<1>12. \A x : x \in M <=> \E t \in Held : msg[t] = x
  OBVIOUS
<1>13. A \cup B \cup M = Slot
  <2>1. ASSUME NEW x \in Slot PROVE x \in A \/ x \in B \/ x \in M
    <3>1. CASE \E t \in Thread : msg[t] = x
      <4>1. PICK t \in Thread : msg[t] = x
        BY <3>1
      <4>2. t \in Held
        BY <1>1, <4>1, Slots DEF Owned, Held
      <4>3. QED BY <1>12, <4>1, <4>2
    <3>2. CASE Member(q, x) \/ Member(f, x)
      BY <1>7, <3>2
    <3>3. QED BY <1>1, <3>1, <3>2 DEF Owned
  <2>2. A \subseteq Slot /\ B \subseteq Slot
    BY <1>2
  <2>3. M \subseteq Slot
    BY <1>10
  <2>4. QED BY <2>1, <2>2, <2>3
<1>14. A \cap B = {} /\ (A \cup B) \cap M = {}
  <2>1. \A x : ~(x \in A /\ x \in B)
    BY <1>1, <1>7, Zenon DEF Owned
  <2>2. \A x \in M : x \notin A /\ x \notin B
    BY <1>10
  <2> HIDE DEF A, B, M
  <2>3. QED BY <2>1, <2>2
<1> HIDE DEF A, B, M
<1>15. IsFiniteSet(A \cup B) /\ Cardinality(A \cup B) = Len(q) + Len(f)
  <2>1. /\ IsFiniteSet(A \cup B)
        /\ Cardinality(A \cup B) = Cardinality(A) + Cardinality(B) - Cardinality(A \cap B)
    BY <1>4, <1>5, FS_Union
  <2>2. Cardinality(A \cap B) = 0
    BY <1>14, FS_EmptySet
  <2>3. QED BY <1>4, <1>5, <2>1, <2>2
<1>16. Cardinality(Held) \in Nat
  BY <1>9, FS_CardinalityType
<1>17. Cardinality((A \cup B) \cup M) = Len(q) + Len(f) + Cardinality(Held)
  <2>1. Cardinality((A \cup B) \cup M) =
          Cardinality(A \cup B) + Cardinality(M) - Cardinality((A \cup B) \cap M)
    BY <1>11, <1>15, FS_Union
  <2>2. Cardinality((A \cup B) \cap M) = 0
    BY <1>14, FS_EmptySet
  <2>3. QED BY <1>4, <1>5, <1>11, <1>15, <1>16, <2>1, <2>2
<1>18. Len(q) + Len(f) + Cardinality(Held) = MaxMsgs
  BY <1>3, <1>13, <1>17
<1>19. ToSet(q) \cup ToSet(f) \cup {msg[t] : t \in Held} = Slot
  BY <1>6, <1>13 DEF M
<1>20. QED BY <1>4, <1>5, <1>9, <1>16, <1>18, <1>19

\* Every rt_mq_message is in the queue, in the free list or in the hands of
\* exactly one thread, and tail and entry agree with the queue, whatever the
\* interleaving of senders, receivers, the interrupt and timeouts.
THEOREM MqSlotsExact == Spec => []SlotsExact
<1>1. IInv => SlotsExact
  <2>1. SUFFICES ASSUME IInv PROVE SlotsExact
    OBVIOUS
  <2>2. PICK q, f : Lists(q, f)
    BY <2>1, ListsExist DEF IInv
  <2>3. q = Path(msg_queue_head) /\ f = Path(msg_queue_free)
    BY <2>2, ListsPaths
  <2>4. /\ Len(q) + Len(f) + Cardinality(Held) = MaxMsgs
        /\ ToSet(q) \cup ToSet(f) \cup {msg[t] : t \in Held} = Slot
    BY <2>1, <2>2, SlotCount DEF IInv
  <2>5. entry = Len(q) /\ msg_queue_tail = IF q = <<>> THEN Null ELSE Last(q)
    BY <2>2 DEF Lists, Last
  <2>6. QED BY <2>3, <2>4, <2>5 DEF SlotsExact, Held
<1>2. QED BY <1>1, MqInvariant, PTL

-----------------------------------------------------------------------------
(* The message queue implements the abstract one.                          *)

\* What is behind the messages of q.
Contents(q, c) == [i \in DOMAIN q |-> c[q[i]]]

\* The counting of the abstract specification is that of FiniteSets.
LEMMA AbsCardinality ==
  ASSUME NEW S
  PROVE  Abs!Cardinality(S) = Cardinality(S)
BY DEF Abs!Cardinality, Cardinality

\* The contents are a sequence as long as the list.
LEMMA ContentsLen ==
  ASSUME NEW q \in Seq(Slot), NEW c
  PROVE  /\ Contents(q, c) \in Seq({c[x] : x \in Slot}) /\ Len(Contents(q, c)) = Len(q)
         /\ \A i \in 1..Len(q) : Contents(q, c)[i] = c[q[i]]
BY DEF Contents

\* A list's contents change only with one of its messages.
LEMMA ContentsSame ==
  ASSUME NEW q, NEW c, NEW d, \A x : Member(q, x) => d[x] = c[x]
  PROVE  Contents(q, d) = Contents(q, c)
BY DEF Contents, Member

\* The contents follow a message linked as the tail, ...
LEMMA ContentsAppend ==
  ASSUME NEW q \in Seq(Slot), NEW s \in Slot, NEW c
  PROVE  Contents(Append(q, s), c) = Append(Contents(q, c), c[s])
BY DEF Contents

\* ... one linked as the head, ...
LEMMA ContentsCons ==
  ASSUME NEW q \in Seq(Slot), NEW s \in Slot, NEW c
  PROVE  Contents(<<s>> \o q, c) = <<c[s]>> \o Contents(q, c)
BY DEF Contents

\* ... and the removal of the head.
LEMMA ContentsTail ==
  ASSUME NEW q \in Seq(Slot), NEW c, q # <<>>
  PROVE  /\ Contents(q, c) # <<>> /\ Head(Contents(q, c)) = c[Head(q)]
         /\ Contents(Tail(q), c) = Tail(Contents(q, c))
BY DEF Contents

\* The abstract queue is what is behind the queued messages, before a step ...
LEMMA AbsQueueIs ==
  ASSUME NEW q, NEW f, Lists(q, f)
  PROVE  absQueue = Contents(q, content) /\ q \in Seq(Slot)
<1>1. q = Path(msg_queue_head)
  BY ListsPaths
<1>2. q \in Seq(Slot)
  BY DEF Lists, Chain
<1>3. QED BY <1>1, <1>2 DEF absQueue, Contents

\* ... and after it.
LEMMA AbsQueueIsPrimed ==
  ASSUME NEW q, NEW f, Lists(q, f)'
  PROVE  absQueue' = Contents(q, content')
<1>1. q = Path(msg_queue_head)'
  BY ListsPathsPrimed
<1>2. QED BY <1>1 DEF absQueue, Contents

\* A message in use is a queued one or in the hands of a thread.
LEMMA AbsUsed ==
  ASSUME NEW q, NEW f, TypeOK, Lists(q, f), f # <<>>
  PROVE  Abs!Used < MaxMsgs
<1> DEFINE P == {t \in Thread : absPut[t] # "none"}
           H == {t \in Thread : absHand[t] # NoMsg}
<1>1. P = {t \in Thread : pc[t] \in {"copy", "link", "ucopy", "ulink"}}
  BY DEF absPut
<1>2. H = {t \in Thread : pc[t] = "taken"}
  <2>1. \A t \in Thread : pc[t] = "taken" => content[msg[t]] \in Msg
    BY DEF Lists, Filled
  <2>2. QED BY <2>1, Finite DEF absHand
<1>3. P \cup H = Held /\ P \cap H = {}
  BY <1>1, <1>2 DEF Held, Holding
<1>4. P \subseteq Thread /\ H \subseteq Thread
  OBVIOUS
<1> HIDE DEF P, H
<1>5. IsFiniteSet(P) /\ IsFiniteSet(H)
  BY <1>4, Finite, FS_Subset
<1>6. Cardinality(P) \in Nat /\ Cardinality(H) \in Nat
  BY <1>5, FS_CardinalityType
<1>7. Cardinality(P) + Cardinality(H) = Cardinality(Held)
  <2>1. Cardinality(P \cup H) = Cardinality(P) + Cardinality(H) - Cardinality(P \cap H)
    BY <1>5, FS_Union
  <2>2. Cardinality(P \cap H) = 0
    BY <1>3, FS_EmptySet
  <2>3. Cardinality(Held) = Cardinality(P) + Cardinality(H) - 0
    BY <1>3, <2>1, <2>2, Zenon
  <2>4. QED BY <1>6, <2>3
<1>8. /\ Len(q) \in Nat /\ Len(f) \in Nat
      /\ Len(q) + Len(f) + Cardinality(Held) = MaxMsgs
  BY SlotCount
<1>9. Len(f) # 0
  <2>1. f \in Seq(Slot)
    BY DEF Lists, Chain
  <2>2. QED BY <2>1, EmptySeq
<1>10. Len(absQueue) = Len(q)
  BY AbsQueueIs, ContentsLen
<1>11. Abs!Used = Len(absQueue) + Cardinality(P) + Cardinality(H)
  BY AbsCardinality DEF Abs!Used, P, H
<1>12. QED BY <1>6, <1>7, <1>8, <1>9, <1>10, <1>11, Slots

\* A step that leaves the abstract state alone.
LEMMA AbsStutter ==
  ASSUME UNCHANGED <<absQueue, absPut, absHand>>
  PROVE  [Abs!Next]_(Abs!vars)
BY DEF Abs!vars

\* Taking a message out of the free list reserves a place.
LEMMA ReserveMaps ==
  ASSUME IInv, NEW t \in Thread, NEW where \in {"copy", "ucopy"}, pc[t] \in {"run", "send"},
         Reserve(t, where)
  PROVE  Abs!Next
<1>1. PICK q, f : Lists(q, f)
  BY ListsExist DEF IInv
<1>2. /\ pc \in [Thread -> Where] /\ msg \in [Thread -> Link0]
  BY Types DEF IInv
<1>3. /\ pc' = [pc EXCEPT ![t] = where] /\ msg' = [msg EXCEPT ![t] = msg_queue_free]
      /\ content' = content
  BY DEF Reserve
<1>4. pc[t] \notin Holding
  BY DEF Holding
<1>5. PICK f2 : f # <<>> /\ Lists(q, f2)'
  BY <1>1, <1>4, ReserveLists DEF IInv
<1>6. absQueue' = absQueue
  BY <1>1, <1>3, <1>5, AbsQueueIs, AbsQueueIsPrimed, Zenon
<1>7. absHand' = absHand /\ absHand[t] = NoMsg
  BY <1>2, <1>3 DEF absHand
<1>8. PICK kind \in {"send", "urgent"} : kind = IF where = "copy" THEN "send" ELSE "urgent"
  OBVIOUS
<1>9. absPut' = [absPut EXCEPT ![t] = kind] /\ absPut[t] = "none"
  <2>1. absPut[t] = "none"
    BY DEF absPut
  <2>2. ASSUME NEW u \in Thread PROVE absPut'[u] = IF u = t THEN kind ELSE absPut[u]
    BY <1>2, <1>3, <1>8 DEF absPut
  <2>3. QED BY <2>1, <2>2 DEF absPut
<1>10. Abs!Used < MaxMsgs
  BY <1>1, <1>5, AbsUsed DEF IInv
<1>11. Abs!Reserve(t, kind)
  BY <1>6, <1>7, <1>9, <1>10 DEF Abs!Reserve
<1>12. QED BY <1>8, <1>11 DEF Abs!Next

\* Filling a message is not visible: nobody sees it before it is linked.
LEMMA CopyMaps ==
  ASSUME IInv, NEW t \in Thread, NEW m \in Msg, Copy(t, m)
  PROVE  UNCHANGED <<absQueue, absPut, absHand>>
<1>1. PICK q, f : Lists(q, f)
  BY ListsExist DEF IInv
<1>2. /\ pc \in [Thread -> Where] /\ msg \in [Thread -> Link0]
      /\ content \in [Slot -> Msg \cup {NoMsg}]
  BY Types DEF IInv
<1>3. /\ pc[t] \in {"copy", "ucopy"} /\ content' = [content EXCEPT ![msg[t]] = m]
      /\ pc' = [pc EXCEPT ![t] = IF pc[t] = "copy" THEN "link" ELSE "ulink"]
      /\ msg' = msg
  BY DEF Copy
<1>4. Lists(q, f)'
  BY <1>1, CopyLists DEF IInv
<1>5. Owned(q, f, msg, pc) /\ q \in Seq(Slot)
  BY <1>1, AbsQueueIs DEF Lists
<1>6. \A x : Member(q, x) => content'[x] = content[x]
  <2>1. ~Member(q, msg[t])
    BY <1>3, <1>5 DEF Owned, Holding
  <2>2. \A x : Member(q, x) => x \in Slot
    BY <1>5 DEF Member
  <2>3. QED BY <1>2, <1>3, <2>1, <2>2
<1>7. absQueue' = absQueue
  <2>1. PICK c : c = content'
    OBVIOUS
  <2>2. Contents(q, c) = Contents(q, content)
    BY <1>6, <2>1, ContentsSame
  <2>3. absQueue = Contents(q, content)
    BY <1>1, AbsQueueIs
  <2>4. absQueue' = Contents(q, c)
    BY <1>4, <2>1, AbsQueueIsPrimed
  <2>5. QED BY <2>2, <2>3, <2>4
<1>8. absPut' = absPut
  BY <1>2, <1>3 DEF absPut
<1>9. absHand' = absHand
  <2>1. ASSUME NEW u \in Thread, pc[u] = "taken" PROVE content'[msg[u]] = content[msg[u]]
    <3>1. msg[u] \in Slot /\ msg[u] # msg[t]
      BY <1>3, <1>5, <2>1, Slots DEF Owned, Holding
    <3>2. QED BY <1>2, <1>3, <3>1
  <2>2. \A u \in Thread : pc'[u] = "taken" <=> pc[u] = "taken"
    BY <1>2, <1>3
  <2>3. QED BY <1>3, <2>1, <2>2 DEF absHand
<1>10. QED BY <1>7, <1>8, <1>9

\* Linking a message puts it.
LEMMA LinkMaps ==
  ASSUME IInv, NEW t \in Thread, Link(t)
  PROVE  Abs!Next
<1>1. PICK q, f : Lists(q, f)
  BY ListsExist DEF IInv
<1>2. /\ pc \in [Thread -> Where] /\ msg \in [Thread -> Link0]
  BY Types DEF IInv
<1>3. /\ pc[t] \in {"link", "ulink"} /\ content' = content
      /\ msg' = [msg EXCEPT ![t] = Null] /\ pc' = [pc EXCEPT ![t] = "run"]
  BY DEF Link
<1>4. PICK s, where, m : s = msg[t] /\ where = pc[t] /\ m = content[msg[t]]
  OBVIOUS
<1>5. s \in Slot /\ Lists(Linked(q, s, where), f)'
  BY <1>1, <1>4, LinkLists DEF IInv
<1>6. m \in Msg
  BY <1>1, <1>3, <1>4 DEF Lists, Filled
<1>7. absQueue = Contents(q, content) /\ q \in Seq(Slot)
  BY <1>1, AbsQueueIs
<1>8. absQueue' = Contents(Linked(q, s, where), content)
  <2>1. PICK q2 : q2 = Linked(q, s, where) /\ Lists(q2, f)'
    BY <1>5
  <2>2. QED BY <1>3, <2>1, AbsQueueIsPrimed, Zenon
<1>9. /\ absPut[t] = IF where = "link" THEN "send" ELSE "urgent"
      /\ absPut' = [absPut EXCEPT ![t] = "none"]
  <2>1. absPut[t] = IF where = "link" THEN "send" ELSE "urgent"
    BY <1>3, <1>4 DEF absPut
  <2>2. ASSUME NEW u \in Thread PROVE absPut'[u] = IF u = t THEN "none" ELSE absPut[u]
    BY <1>2, <1>3 DEF absPut
  <2>3. QED BY <2>1, <2>2 DEF absPut
<1>10. absHand' = absHand
  BY <1>2, <1>3 DEF absHand
<1>11. absQueue' = IF absPut[t] = "urgent" THEN <<m>> \o absQueue ELSE Append(absQueue, m)
  <2>1. CASE where = "link"
    <3>1. absQueue' = Append(absQueue, m)
      BY <1>4, <1>5, <1>7, <1>8, <2>1, ContentsAppend DEF Linked
    <3>2. QED BY <1>9, <2>1, <3>1
  <2>2. CASE where # "link"
    <3>1. absQueue' = <<m>> \o absQueue
      BY <1>4, <1>5, <1>7, <1>8, <2>2, ContentsCons DEF Linked
    <3>2. QED BY <1>9, <2>2, <3>1
  <2>3. QED BY <2>1, <2>2
<1>12. Abs!Put(t, m)
  <2>1. absPut[t] # "none"
    BY <1>9
  <2>2. QED BY <1>9, <1>10, <1>11, <2>1 DEF Abs!Put
<1>13. QED BY <1>6, <1>12 DEF Abs!Next

\* The interrupt handler posts a message.
LEMMA IsrMaps ==
  ASSUME IInv, NEW m \in Msg, IsrSend(m)
  PROVE  Abs!Next
<1>1. PICK q, f : Lists(q, f)
  BY ListsExist DEF IInv
<1>2. /\ pc \in [Thread -> Where] /\ msg \in [Thread -> Link0]
      /\ content \in [Slot -> Msg \cup {NoMsg}]
  BY Types DEF IInv
<1>3. content' = [content EXCEPT ![msg_queue_free] = m] /\ UNCHANGED <<msg, pc>>
  BY DEF IsrSend
<1>4. PICK s, c : s = msg_queue_free /\ c = content'
  OBVIOUS
<1>5. s \in Slot /\ f # <<>> /\ ~Member(q, s) /\ Lists(Append(q, s), Tail(f))'
  BY <1>1, <1>4, IsrLists DEF IInv
<1>6. absQueue = Contents(q, content) /\ q \in Seq(Slot)
  BY <1>1, AbsQueueIs
<1>7. c[s] = m /\ \A x \in Slot : x # s => c[x] = content[x]
  BY <1>2, <1>3, <1>4, <1>5
<1>8. absQueue' = Append(absQueue, m)
  <2>1. PICK q2, f2 : q2 = Append(q, s) /\ Lists(q2, f2)'
    BY <1>5
  <2>2. absQueue' = Contents(q2, c)
    BY <1>4, <2>1, AbsQueueIsPrimed
  <2>3. Contents(q2, c) = Append(Contents(q, c), m)
    BY <1>5, <1>6, <1>7, <2>1, ContentsAppend
  <2>4. \A x : Member(q, x) => x \in Slot /\ x # s
    BY <1>5, <1>6 DEF Member
  <2>5. Contents(q, c) = Contents(q, content)
    BY <1>7, <2>4, ContentsSame
  <2>6. QED BY <1>6, <2>2, <2>3, <2>5
<1>9. absPut' = absPut
  BY <1>3 DEF absPut
<1>10. absHand' = absHand
  <2>1. Owned(q, f, msg, pc) /\ Chain(f, msg_queue_free, next)
    BY <1>1 DEF Lists
  <2>2. Member(f, s)
    BY <1>4, <1>5, <2>1, ChainHead DEF Chain, Member
  <2>3. ASSUME NEW u \in Thread, pc[u] = "taken" PROVE content'[msg[u]] = content[msg[u]]
    <3>1. msg[u] \in Slot /\ msg[u] # s
      BY <2>1, <2>2, <2>3 DEF Owned, Holding
    <3>2. QED BY <1>4, <1>7, <3>1
  <2>4. QED BY <1>3, <2>3 DEF absHand
<1>11. Abs!Used < MaxMsgs
  BY <1>1, <1>5, AbsUsed DEF IInv
<1>12. Abs!Post(m)
  BY <1>8, <1>9, <1>10, <1>11 DEF Abs!Post
<1>13. QED BY <1>12 DEF Abs!Next

\* Taking the first message out of the queue.
LEMMA TakeMaps ==
  ASSUME IInv, NEW t \in Thread, RecvTake(t)
  PROVE  Abs!Next
<1>1. PICK q, f : Lists(q, f)
  BY ListsExist DEF IInv
<1>2. /\ pc \in [Thread -> Where] /\ msg \in [Thread -> Link0]
  BY Types DEF IInv
<1>3. /\ pc[t] \in {"run", "recv"} /\ content' = content
      /\ msg' = [msg EXCEPT ![t] = msg_queue_head] /\ pc' = [pc EXCEPT ![t] = "taken"]
  BY DEF RecvTake, Enters
<1>4. q # <<>> /\ Head(q) = msg_queue_head /\ Lists(Tail(q), f)'
  <2>1. pc[t] \notin Holding
    BY <1>3 DEF Holding
  <2>2. QED BY <1>1, <2>1, TakeLists DEF IInv
<1>5. absQueue = Contents(q, content) /\ q \in Seq(Slot)
  BY <1>1, AbsQueueIs
<1>6. /\ absQueue # <<>> /\ Head(absQueue) = content[msg_queue_head]
      /\ Contents(Tail(q), content) = Tail(absQueue)
  BY <1>4, <1>5, ContentsTail
<1>7. absQueue' = Tail(absQueue)
  <2>1. PICK q2 : q2 = Tail(q) /\ Lists(q2, f)'
    BY <1>4
  <2>2. absQueue' = Contents(q2, content)
    BY <1>3, <2>1, AbsQueueIsPrimed, Zenon
  <2>3. QED BY <1>6, <2>1, <2>2
<1>8. absPut' = absPut /\ absPut[t] = "none"
  BY <1>2, <1>3 DEF absPut
<1>9. absHand[t] = NoMsg /\ absHand' = [absHand EXCEPT ![t] = Head(absQueue)]
  <2>1. absHand[t] = NoMsg
    BY <1>3 DEF absHand
  <2>2. PICK m : m = content[msg_queue_head]
    OBVIOUS
  <2>3. absHand' = [absHand EXCEPT ![t] = m]
    <3>1. ASSUME NEW u \in Thread PROVE absHand'[u] = IF u = t THEN m ELSE absHand[u]
      BY <1>2, <1>3, <2>2 DEF absHand
    <3>2. QED BY <3>1 DEF absHand
  <2>4. QED BY <1>6, <2>1, <2>2, <2>3
<1>10. Abs!Take(t)
  BY <1>6, <1>7, <1>8, <1>9 DEF Abs!Take
<1>11. QED BY <1>10 DEF Abs!Next

\* Putting a message back into the free list ends its delivery.
LEMMA FreeMaps ==
  ASSUME IInv, NEW t \in Thread, RecvFree(t)
  PROVE  Abs!Next
<1>1. PICK q, f : Lists(q, f)
  BY ListsExist DEF IInv
<1>2. /\ pc \in [Thread -> Where] /\ msg \in [Thread -> Link0]
  BY Types DEF IInv
<1>3. /\ pc[t] = "taken" /\ content' = content
      /\ msg' = [msg EXCEPT ![t] = Null] /\ pc' = [pc EXCEPT ![t] = "run"]
  BY DEF RecvFree
<1>4. PICK f2 : Lists(q, f2)'
  <2>1. PICK s : s = msg[t]
    OBVIOUS
  <2>2. Lists(q, <<s>> \o f)'
    BY <1>1, <2>1, FreeLists DEF IInv
  <2>3. QED BY <2>2
<1>5. absQueue' = absQueue
  BY <1>1, <1>3, <1>4, AbsQueueIs, AbsQueueIsPrimed, Zenon
<1>6. absPut' = absPut
  BY <1>2, <1>3 DEF absPut
<1>7. absHand[t] # NoMsg
  <2>1. content[msg[t]] \in Msg
    BY <1>1, <1>3 DEF Lists, Filled
  <2>2. QED BY <1>3, <2>1, Finite DEF absHand
<1>8. absHand' = [absHand EXCEPT ![t] = NoMsg]
  <2>1. ASSUME NEW u \in Thread PROVE absHand'[u] = IF u = t THEN NoMsg ELSE absHand[u]
    BY <1>2, <1>3 DEF absHand
  <2>2. QED BY <2>1 DEF absHand
<1>9. Abs!Deliver(t)
  BY <1>5, <1>6, <1>7, <1>8 DEF Abs!Deliver
<1>10. QED BY <1>9 DEF Abs!Next

\* A reset clears the queue; messages in the hands of threads stay there.
LEMMA ResetMaps ==
  ASSUME IInv, NEW t \in Thread, Reset(t)
  PROVE  Abs!Next
<1>1. PICK q, f : Lists(q, f)
  BY ListsExist DEF IInv
<1>2. FreeAll /\ entry' = 0 /\ UNCHANGED <<content, msg, pc>>
  BY DEF Reset
<1>3. PICK e, f2 : e = <<>> /\ Lists(e, f2)'
  BY <1>1, <1>2, ResetLists DEF IInv
<1>4. absQueue' = <<>>
  <2>1. PICK c : c = content'
    OBVIOUS
  <2>2. absQueue' = Contents(e, c)
    BY <1>3, <2>1, AbsQueueIsPrimed
  <2>3. QED BY <1>3, <2>2 DEF Contents
<1>5. absPut' = absPut /\ absHand' = absHand
  BY <1>2 DEF absPut, absHand
<1>6. Abs!Clear
  BY <1>4, <1>5 DEF Abs!Clear
<1>7. QED BY <1>6 DEF Abs!Next

\* Waiting, waking and timeouts are not visible.
LEMMA WaitMaps ==
  ASSUME IInv, UNCHANGED <<listVars, content, msg>>,
         \A t \in Thread : pc'[t] = pc[t] \/ (pc[t] \notin Holding /\ pc'[t] \notin Holding)
  PROVE  UNCHANGED <<absQueue, absPut, absHand>>
<1>1. PICK q, f : Lists(q, f)
  BY ListsExist DEF IInv
<1>2. Lists(q, f)'
  BY <1>1, ListsSame
<1>3. content' = content
  OBVIOUS
<1>4. absQueue' = absQueue
  <2>1. absQueue = Contents(q, content)
    BY <1>1, AbsQueueIs
  <2>2. absQueue' = Contents(q, content')
    BY <1>2, AbsQueueIsPrimed
  <2>3. QED BY <1>3, <2>1, <2>2
<1>5. absPut' = absPut
  BY DEF absPut, Holding
<1>6. absHand' = absHand
  BY DEF absHand, Holding
<1>7. QED BY <1>4, <1>5, <1>6

\* The initial state is the initial state of the abstract queue.
LEMMA InitMaps ==
  ASSUME Init
  PROVE  Abs!Init
<1>1. IInv
  BY InitStep
<1>2. PICK q, f : Lists(q, f) /\ entry = Len(q)
  BY <1>1, ListsExist DEF IInv
<1>3. absQueue = Contents(q, content) /\ q \in Seq(Slot)
  BY <1>2, AbsQueueIs
<1>4. q = <<>>
  <2>1. Len(q) = 0
    BY <1>2 DEF Init
  <2>2. QED BY <1>3, <2>1, EmptySeq
<1>5. absQueue = <<>>
  BY <1>3, <1>4 DEF Contents
<1>6. absPut = [t \in Thread |-> "none"] /\ absHand = [t \in Thread |-> NoMsg]
  BY DEF Init, absPut, absHand
<1>7. QED BY <1>5, <1>6 DEF Abs!Init

\* Every step of a thread is a step of the abstract queue or is not visible.
LEMMA ThreadMaps ==
  ASSUME IInv, NEW t \in Thread,
         \/ \E tm \in BOOLEAN : SendBlock(t, tm) \/ RecvBlock(t, tm)
         \/ SendReserve(t) \/ UrgentReserve(t) \/ Link(t)
         \/ \E m \in Msg : Copy(t, m)
         \/ RecvTake(t) \/ RecvFree(t) \/ WaitFails(t) \/ WaitGivesUp(t)
         \/ Reset(t) \/ Detach(t) \/ TimerFires(t)
  PROVE  Abs!Next \/ UNCHANGED <<absQueue, absPut, absHand>>
<1>1. pc \in [Thread -> Where]
  BY Types DEF IInv
<1>2. CASE \E tm \in BOOLEAN : SendBlock(t, tm) \/ RecvBlock(t, tm)
  <2>1. PICK where \in {"send", "recv"} :
          /\ pc[t] \in {"run", "send", "recv"} /\ pc' = [pc EXCEPT ![t] = where]
          /\ UNCHANGED <<listVars, content, msg>>
    <3>1. CASE \E tm \in BOOLEAN : SendBlock(t, tm)
      BY <3>1 DEF SendBlock, Enters
    <3>2. CASE \E tm \in BOOLEAN : RecvBlock(t, tm)
      BY <3>2 DEF RecvBlock, Enters
    <3>3. QED BY <1>2, <3>1, <3>2
  <2>2. \A u \in Thread : pc'[u] = pc[u] \/ (pc[u] \notin Holding /\ pc'[u] \notin Holding)
    BY <1>1, <2>1 DEF Holding
  <2>3. QED BY <2>1, <2>2, WaitMaps
<1>3. CASE SendReserve(t)
  <2>1. PICK where \in {"copy", "ucopy"} : where = "copy"
    OBVIOUS
  <2>2. pc[t] \in {"run", "send"} /\ Reserve(t, where)
    BY <1>3, <2>1 DEF SendReserve, Enters
  <2>3. QED BY <2>2, ReserveMaps
<1>4. CASE UrgentReserve(t)
  <2>1. PICK where \in {"copy", "ucopy"} : where = "ucopy"
    OBVIOUS
  <2>2. pc[t] \in {"run", "send"} /\ Reserve(t, where)
    BY <1>4, <2>1 DEF UrgentReserve
  <2>3. QED BY <2>2, ReserveMaps
<1>5. CASE Link(t)
  BY <1>5, LinkMaps
<1>6. CASE \E m \in Msg : Copy(t, m)
  BY <1>6, CopyMaps
<1>7. CASE RecvTake(t)
  BY <1>7, TakeMaps
<1>8. CASE RecvFree(t)
  BY <1>8, FreeMaps
<1>9. CASE WaitFails(t) \/ WaitGivesUp(t)
  <2>1. /\ pc[t] \in {"send", "recv"} /\ pc' = [pc EXCEPT ![t] = "run"]
        /\ UNCHANGED <<listVars, content, msg>>
    BY <1>9 DEF WaitFails, WaitGivesUp
  <2>2. \A u \in Thread : pc'[u] = pc[u] \/ (pc[u] \notin Holding /\ pc'[u] \notin Holding)
    BY <1>1, <2>1 DEF Holding
  <2>3. QED BY <2>1, <2>2, WaitMaps
<1>10. CASE Reset(t)
  BY <1>10, ResetMaps
<1>11. CASE Detach(t) \/ TimerFires(t)
  <2>1. UNCHANGED <<listVars, content, msg, pc>>
    BY <1>11 DEF Detach, TimerFires
  <2>2. QED BY <2>1, WaitMaps
<1>12. QED BY <1>2, <1>3, <1>4, <1>5, <1>6, <1>7, <1>8, <1>9, <1>10, <1>11

\* Every step is a step of the abstract queue or is not visible.
LEMMA NextMaps ==
  ASSUME IInv, [Next]_vars
  PROVE  [Abs!Next]_(Abs!vars)
<1>1. CASE \E m \in Msg : IsrSend(m)
  BY <1>1, IsrMaps
<1>2. CASE ThreadTimeout
  <2>1. UNCHANGED <<listVars, content, msg, pc>>
    BY <1>2 DEF ThreadTimeout
  <2>2. QED BY <2>1, WaitMaps, AbsStutter
<1>3. ASSUME NEW t \in Thread,
             \/ \E tm \in BOOLEAN : SendBlock(t, tm) \/ RecvBlock(t, tm)
             \/ SendReserve(t) \/ UrgentReserve(t) \/ Link(t)
             \/ \E m \in Msg : Copy(t, m)
             \/ RecvTake(t) \/ RecvFree(t) \/ WaitFails(t) \/ WaitGivesUp(t)
             \/ Reset(t) \/ Detach(t) \/ TimerFires(t)
      PROVE  [Abs!Next]_(Abs!vars)
  BY <1>3, ThreadMaps, AbsStutter
<1>4. CASE UNCHANGED vars
  <2>1. UNCHANGED <<listVars, content, msg, pc>>
    BY <1>4 DEF vars
  <2>2. QED BY <2>1, WaitMaps, AbsStutter
<1>5. QED BY <1>1, <1>2, <1>3, <1>4 DEF Next

\* The linked lists, filled and emptied outside of the critical sections,
\* implement the abstract queue: a message that was put is delivered once,
\* unchanged and in order, unless the queue is reset, and no place is used twice.
THEOREM MqImplementsQueue == Spec => ImplementsQueue
<1>1. Init => Abs!Init
  BY InitMaps
<1>2. IInv /\ [Next]_vars => [Abs!Next]_(Abs!vars)
  BY NextMaps
<1>3. QED BY <1>1, <1>2, MqInvariant, PTL DEF Spec, ImplementsQueue, Abs!Spec
=============================================================================
