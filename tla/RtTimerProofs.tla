---------------------------- MODULE RtTimerProofs ----------------------------
(***************************************************************************)
(* The timers and the poll timer of the external hub.                      *)
(*                                                                         *)
(* For any timers, any range of the tick and any init_ticks below half of  *)
(* it: the flags and the lists of timer.c agree, both lists stay ordered   *)
(* when ticks wrap around, and the timer thread oversleeps only by ticks   *)
(* that came before it armed its sleep.  These theorems are about Spec of  *)
(* RtTimer and use nothing of UsbhPoll.                                    *)
(*                                                                         *)
(* For a hub queue of any size, any tick range and any number of times the *)
(* hub is plugged in: the chain from timer to URB to message to event that *)
(* polls an external hub is never cut and never doubled.  These theorems   *)
(* are about PollSpec, of which the timer's actions are a part.            *)
(***************************************************************************)
EXTENDS UsbhPoll, SeqLemmas, FiniteSetTheorems

Kinds == {"hard", "soft"}
N == TickMax + 1

\* The timers of a kind, and the one whose callback runs.
Of(k) == IF k = "soft" THEN Soft ELSE Hard
Runs(k) == IF k = "soft" THEN thr.t ELSE isr.t

\* Timer t is in the list l.
On(l, t) == \E e : Member(l, e) /\ e.t = t
Listed(t) == \E i \in DOMAIN list[Kind(t)] : list[Kind(t)][i].t = t

\* No timer is in the list l twice.
Once(l) == NoDup(l) /\ \A x, y : Member(l, x) /\ Member(l, y) /\ x.t = y.t => x = y

\* A list of the timers of T, in the order of the time they have left.
ByLeft == [e \in Entry(Timers) |-> Left(e.timeout)]
GoodList(l, T) ==
  /\ l \in Seq(Entry(Timers)) /\ Once(l) /\ Sorted(l, ByLeft)
  /\ \A e : Member(l, e) => e.t \in T /\ Left(e.timeout) < Half

TimerRec == [act : BOOLEAN, per : BOOLEAN, proc : BOOLEAN, init : 1 .. Half - 1]

\* Where the timer thread is.  A waiting time is below half the range, and no
\* tick has been missed before it is computed.
ThrType ==
  /\ thr.pc \in {"next", "delta", "take", "sleep", "check", "callback"} /\ thr.t \subseteq Soft
  /\ thr.until \in 0 .. TickMax \union {Forever} /\ thr.slip \in 0 .. MaxLate
  /\ thr.pc = "delta" => thr.slip = 0 /\ thr.until # Forever
  /\ thr.pc = "take" => thr.until < Half

\* The types, in a form that says which functions there are.
VarType ==
  /\ tick \in 0..TickMax /\ sem \in {0, 1} /\ stale \subseteq Timers
  /\ timer \in [Timers -> TimerRec] /\ \A t \in Timers : timer[t].init \in Times[t]
  /\ list \in [Kinds -> Seq(Entry(Timers))] /\ local \in [Kinds -> SUBSET Timers]
  /\ \A k \in Kinds : local[k] \subseteq Of(k)
  /\ isr.pc \in {"none", "check", "callback"} /\ isr.t \subseteq Hard
  /\ ThrType

\* Both lists are in order, also when ticks wrap around.
OrderInv == \A k \in Kinds : GoodList(list[k], Of(k))

\* A timer in a list is activated and its callback does not run; an activated
\* timer is there, or processing, or was made one-shot meanwhile.
FlagInv ==
  \A t \in Timers :
    /\ Listed(t) => timer[t].act /\ ~timer[t].proc
    /\ timer[t].act /\ ~timer[t].proc => Listed(t) \/ t \in stale

\* The local lists of the check functions: an activated timer whose callback
\* runs is still there, and if it is one-shot now, it was made so meanwhile.
LocalInv ==
  \A t \in Timers :
    /\ t \in local[Kind(t)] => timer[t].proc
    /\ timer[t].proc /\ timer[t].act => t \in local[Kind(t)]
    /\ t \in local[Kind(t)] /\ timer[t].act /\ ~timer[t].per => t \in stale

\* A check function runs one callback at a time, that of the timer in its
\* local list.
RunInv ==
  /\ \A k \in Kinds : local[k] \subseteq Runs(k)
  /\ \A k \in Kinds : \A t, u \in Runs(k) : t = u
  /\ isr.pc # "callback" => isr.t = {}
  /\ thr.pc # "callback" => thr.t = {}

IInv == VarType /\ OrderInv /\ FlagInv /\ LocalInv /\ RunInv /\ NotOverslept

-----------------------------------------------------------------------------
(* Ticks.                                                                  *)

\* The remainder of a number less than two moduli away.
LEMMA ModCases ==
  ASSUME NEW m \in Nat \ {0}, NEW x \in Int
  PROVE  /\ 0 <= x /\ x < m => x % m = x
         /\ -m <= x /\ x < 0 => x % m = x + m
         /\ m <= x /\ x < 2 * m => x % m = x - m
         /\ x % m \in 0..(m - 1)
<1>1. x % m \in 0..(m - 1)
  OBVIOUS
<1>2. 0 <= x /\ x < m => x % m = x
  OBVIOUS
<1>3. -m <= x /\ x < 0 => x % m = x + m
  OBVIOUS
<1>4. m <= x /\ x < 2 * m => x % m = x - m
  OBVIOUS
<1>5. QED BY <1>1, <1>2, <1>3, <1>4

\* The same as one of three differences.
LEMMA ModStep ==
  ASSUME NEW m \in Nat \ {0}, NEW x \in Int, -m <= x, x < 2 * m, NEW y, y = x % m
  PROVE  y \in 0..(m - 1) /\ (y = x \/ y = x + m \/ y = x - m)
<1>1. \A k \in Nat \ {0}, z \in Int : 0 <= z /\ z < k => z % k = z
  BY ModCases
<1>2. \A k \in Nat \ {0}, z \in Int : -k <= z /\ z < 0 => z % k = z + k
  BY ModCases
<1>3. \A k \in Nat \ {0}, z \in Int : k <= z /\ z < 2 * k => z % k = z - k
  BY ModCases
<1>4. \A k \in Nat \ {0}, z \in Int : z % k \in 0..(k - 1)
  BY ModCases
<1>5. CASE 0 <= x /\ x < m
  BY <1>1, <1>4, <1>5, Zenon
<1>6. CASE -m <= x /\ x < 0
  BY <1>2, <1>4, <1>6, Zenon
<1>7. CASE m <= x /\ x < 2 * m
  BY <1>3, <1>4, <1>7, Zenon
<1>8. \A k \in Nat \ {0}, z \in Int : -k <= z /\ z < 2 * k =>
        (0 <= z /\ z < k) \/ (-k <= z /\ z < 0) \/ (k <= z /\ z < 2 * k)
  OBVIOUS
<1>9. QED BY <1>5, <1>6, <1>7, <1>8, Zenon

\* The tick range and its half.
LEMMA Ranges ==
  /\ TickMax \in Nat /\ MaxLate \in Nat /\ Half \in Nat /\ N \in Nat \ {0} /\ N = TickMax + 1
  /\ 2 * Half < N /\ MaxLate < Half
  /\ \A t \in Timers : \A d \in Times[t] : d \in 1..(Half - 1) /\ d + MaxLate <= N - Half
<1>1. TickMax \in Nat /\ MaxLate \in Nat /\ MaxLate < Half
  BY TimerAssumption
<1>2. Half \in Nat /\ 2 * Half < N /\ N \in Nat \ {0} /\ N = TickMax + 1
  BY <1>1 DEF Half, N
<1>3. ASSUME NEW t \in Timers, NEW d \in Times[t]
      PROVE  d \in 1..(Half - 1) /\ d + MaxLate <= N - Half
  <2>1. Times[t] \subseteq 1..(Half - 1) /\ d + MaxLate <= TickMax + 1 - Half
    BY TimerAssumption DEF Timers
  <2>2. d \in 1..(Half - 1)
    BY <2>1
  <2>3. QED BY <1>1, <1>2, <2>1, <2>2
<1>4. QED BY <1>1, <1>2, <1>3

\* The remainder that ticks are taken to.
Mod(x) == x % N

\* What it does to sums and differences of two ticks.
LEMMA ModN ==
  ASSUME NEW x \in Int, -N <= x, x < 2 * N
  PROVE  Mod(x) \in 0..(N - 1) /\ (Mod(x) = x \/ Mod(x) = x + N \/ Mod(x) = x - N)
<1>1. N \in Nat \ {0}
  BY Ranges
<1>2. QED BY <1>1, ModStep DEF Mod

\* The operators of the model that take it.
LEMMA TickForms ==
  /\ \A a, b : Minus(a, b) = Mod(a - b)
  /\ \A a : Left(a) = Mod((a + MaxLate) - tick) - MaxLate
  /\ \A a : Left(a)' = Mod((a + MaxLate) - tick') - MaxLate
  /\ \A d : (tick + d) % (TickMax + 1) = Mod(tick + d)
BY DEF Minus, Left, Mod, N

\* Subtraction of ticks, and the time that is left until one.
LEMMA TickArith ==
  ASSUME NEW a \in 0..TickMax, NEW b \in 0..TickMax, tick \in 0..TickMax
  PROVE  /\ Minus(a, b) = IF a >= b THEN a - b ELSE a - b + N
         /\ Left(a) \in (-MaxLate)..(TickMax - MaxLate)
         /\ \/ Left(a) = a - tick \/ Left(a) = a - tick + N \/ Left(a) = a - tick - N
<1>1. /\ TickMax \in Nat /\ MaxLate \in Nat /\ Half \in Nat /\ N \in Nat \ {0} /\ N = TickMax + 1
      /\ 2 * Half < N /\ MaxLate < Half
  BY Ranges
<1>2. Minus(a, b) = IF a >= b THEN a - b ELSE a - b + N
  <2>1. PICK x \in Int : x = a - b
    BY <1>1
  <2>2. -N <= x /\ x < 2 * N
    BY <1>1, <2>1
  <2>3. Minus(a, b) = Mod(x)
    BY <2>1, TickForms
  <2>4. Mod(x) \in 0..(N - 1) /\ (Mod(x) = x \/ Mod(x) = x + N \/ Mod(x) = x - N)
    BY <2>2, ModN
  <2>5. QED BY <1>1, <2>1, <2>3, <2>4
<1>3. PICK x \in Int : x = (a + MaxLate) - tick
  BY <1>1
<1>4. Left(a) = Mod(x) - MaxLate
  BY <1>3, TickForms
<1>5. -N <= x /\ x < 2 * N
  BY <1>1, <1>3
<1>6. Mod(x) \in 0..(N - 1) /\ (Mod(x) = x \/ Mod(x) = x + N \/ Mod(x) = x - N)
  BY <1>5, ModN
<1>7. QED BY <1>1, <1>2, <1>3, <1>4, <1>6

\* A tick has been reached when no time is left until it.
LEMMA ReachedLeft ==
  ASSUME NEW a \in 0..TickMax, tick \in 0..TickMax, Left(a) < Half
  PROVE  Reached(a) <=> Left(a) <= 0
<1>1. /\ TickMax \in Nat /\ MaxLate \in Nat /\ Half \in Nat /\ N \in Nat \ {0} /\ N = TickMax + 1
      /\ 2 * Half < N /\ MaxLate < Half
  BY Ranges
<1>2. /\ Minus(tick, a) = IF tick >= a THEN tick - a ELSE tick - a + N
      /\ Left(a) \in (-MaxLate)..(TickMax - MaxLate)
      /\ \/ Left(a) = a - tick \/ Left(a) = a - tick + N \/ Left(a) = a - tick - N
  BY TickArith
<1>3. QED BY <1>1, <1>2 DEF Reached

\* The comparison by halves of the range orders a new entry, which has d
\* ticks left, among those of a list.
LEMMA LaterLeft ==
  ASSUME NEW t \in Timers, NEW d \in Times[t], NEW a \in 0..TickMax, tick \in 0..TickMax,
         Left(a) < Half, NEW b, b = (tick + d) % (TickMax + 1)
  PROVE  b \in 0..TickMax /\ Left(b) = d /\ (Later(a, b) <=> Left(a) > d)
<1>1. /\ TickMax \in Nat /\ MaxLate \in Nat /\ Half \in Nat /\ N \in Nat \ {0} /\ N = TickMax + 1
      /\ 2 * Half < N /\ MaxLate < Half /\ d \in 1..(Half - 1) /\ d + MaxLate <= N - Half
  BY Ranges
<1>2. PICK x \in Int : x = tick + d
  BY <1>1
<1>3. b = Mod(x)
  BY <1>2, TickForms
<1>4. b \in 0..TickMax /\ (b = tick + d \/ b = tick + d - N)
  <2>1. -N <= x /\ x < 2 * N
    BY <1>1, <1>2
  <2>2. Mod(x) \in 0..(N - 1) /\ (Mod(x) = x \/ Mod(x) = x + N \/ Mod(x) = x - N)
    BY <2>1, ModN
  <2>3. QED BY <1>1, <1>2, <1>3, <2>2
<1>5. /\ Left(b) \in (-MaxLate)..(TickMax - MaxLate)
      /\ \/ Left(b) = b - tick \/ Left(b) = b - tick + N \/ Left(b) = b - tick - N
  BY <1>4, TickArith
<1>6. Left(b) = d
  BY <1>1, <1>4, <1>5
<1>7. /\ Minus(a, b) = IF a >= b THEN a - b ELSE a - b + N
      /\ Left(a) \in (-MaxLate)..(TickMax - MaxLate)
      /\ \/ Left(a) = a - tick \/ Left(a) = a - tick + N \/ Left(a) = a - tick - N
  BY <1>4, TickArith
<1>8. Later(a, b) <=> Left(a) > d
  BY <1>1, <1>4, <1>7 DEF Later
<1>9. QED BY <1>4, <1>6, <1>8

\* A tick later every time that was not over by MaxLate is one tick shorter.
LEMMA TickLeft ==
  ASSUME tick \in 0..TickMax, tick' = (tick + 1) % (TickMax + 1)
  PROVE  /\ tick' \in 0..TickMax
         /\ \A a \in 0..TickMax : Left(a) # -MaxLate => Left(a)' = Left(a) - 1
<1>1. /\ TickMax \in Nat /\ MaxLate \in Nat /\ Half \in Nat /\ N \in Nat \ {0} /\ N = TickMax + 1
      /\ 2 * Half < N /\ MaxLate < Half
  BY Ranges
<1>2. PICK u : u = tick'
  OBVIOUS
<1>3. PICK x \in Int : x = tick + 1
  BY <1>1
<1>4. (u = tick + 1 \/ u = tick + 1 - N) /\ u \in 0..TickMax
  <2>1. -N <= x /\ x < 2 * N
    BY <1>1, <1>3
  <2>2. u = Mod(x)
    BY <1>2, <1>3, TickForms
  <2>3. Mod(x) \in 0..(N - 1) /\ (Mod(x) = x \/ Mod(x) = x + N \/ Mod(x) = x - N)
    BY <2>1, ModN
  <2>4. QED BY <1>1, <1>3, <2>2, <2>3
<1>5. ASSUME NEW a \in 0..TickMax, Left(a) # -MaxLate PROVE Left(a)' = Left(a) - 1
  <2>1. PICK z \in Int : z = (a + MaxLate) - u
    BY <1>1, <1>4
  <2>2. Left(a)' = Mod(z) - MaxLate
    BY <1>2, <2>1, TickForms
  <2>3. /\ Left(a) \in (-MaxLate)..(TickMax - MaxLate)
        /\ \/ Left(a) = a - tick \/ Left(a) = a - tick + N \/ Left(a) = a - tick - N
    BY TickArith
  <2>4. -N <= z /\ z < 2 * N
    BY <1>1, <1>4, <2>1
  <2>5. Mod(z) \in 0..(N - 1) /\ (Mod(z) = z \/ Mod(z) = z + N \/ Mod(z) = z - N)
    BY <2>4, ModN
  <2>6. Mod(z) - MaxLate = Left(a) - 1
    BY <1>1, <1>4, <1>5, <2>1, <2>3, <2>5
  <2>7. QED BY <2>2, <2>6
<1>6. QED BY <1>2, <1>4, <1>5

-----------------------------------------------------------------------------
(* Lists.                                                                  *)

\* The kinds of timers.
LEMMA KindOf ==
  /\ \A t \in Timers : Kind(t) \in Kinds /\ t \in Of(Kind(t))
  /\ \A k \in Kinds : \A t \in Of(k) : t \in Timers /\ Kind(t) = k
BY TimerAssumption DEF Kind, Kinds, Of, Timers

\* The entries, and the time each has left.
LEMMA EntryLeft ==
  ASSUME tick \in 0..TickMax
  PROVE  /\ \A e \in Entry(Timers) : e.t \in Timers /\ e.timeout \in 0..TickMax
         /\ \A e \in Entry(Timers) : ByLeft[e] = Left(e.timeout)
         /\ \A a \in 0..TickMax : Left(a) \in Int /\ Left(a) >= -MaxLate
         /\ ByLeft \in [Entry(Timers) -> Int]
<1>1. \A e \in Entry(Timers) : e.t \in Timers /\ e.timeout \in 0..TickMax
  BY DEF Entry
<1>2. \A e \in Entry(Timers) : ByLeft[e] = Left(e.timeout)
  BY DEF ByLeft
<1>3. \A a \in 0..TickMax : Left(a) \in Int /\ Left(a) >= -MaxLate
  <2>1. ASSUME NEW a \in 0..TickMax PROVE Left(a) \in Int /\ Left(a) >= -MaxLate
    <3>1. Left(a) \in (-MaxLate)..(TickMax - MaxLate) /\ MaxLate \in Nat /\ TickMax \in Nat
      BY TickArith, Ranges
    <3>2. QED BY <3>1
  <2>2. QED BY <2>1
<1>4. ByLeft \in [Entry(Timers) -> Int]
  BY <1>1, <1>3 DEF ByLeft
<1>5. QED BY <1>1, <1>2, <1>3, <1>4

\* _timer_remove: the entry of t is gone, the others are as before.
LEMMA GoodWithout ==
  ASSUME NEW l, NEW T, NEW t, GoodList(l, T)
  PROVE  /\ GoodList(Without(l, t), T)
         /\ \A x : Member(Without(l, t), x) <=> Member(l, x) /\ x.t # t
<1>1. l \in Seq(Entry(Timers)) /\ NoDup(l) /\ Sorted(l, ByLeft)
  BY DEF GoodList, Once
<1>2. CASE \E i \in DOMAIN l : l[i].t = t
  <2> DEFINE k == CHOOSE i \in DOMAIN l : l[i].t = t
             r == RemoveAt(l, k)
  <2>1. k \in 1..Len(l) /\ l[k].t = t
    BY <1>1, <1>2
  <2>2. Without(l, t) = r
    BY <1>2 DEF Without
  <2> HIDE DEF k
  <2>3. r \in Seq(Entry(Timers))
    BY <1>1, <2>1, RemoveAtElements
  <2>4. NoDup(r) /\ \A x : Member(r, x) <=> Member(l, x) /\ x # l[k]
    BY <1>1, <2>1, RemoveAtMembers
  <2>5. Member(l, l[k])
    BY <1>1, <2>1 DEF Member
  <2>6. \A x : Member(r, x) <=> Member(l, x) /\ x.t # t
    BY <2>1, <2>4, <2>5 DEF GoodList, Once
  <2>7. Sorted(r, ByLeft)
    <3>1. PICK z : z \notin Entry(Timers)
      BY NoSetContainsEverything
    <3>2. ~Member(l, z) /\ ~Member(r, z)
      BY <1>1, <2>3, <3>1 DEF Member
    <3>3. SortedBut(l, ByLeft, z)
      BY <1>1, <3>2, SortedWithout
    <3>4. SortedBut(r, ByLeft, z)
      BY <1>1, <2>1, <3>3, RemoveAtSorted
    <3>5. QED BY <3>2, <3>4, SortedWithout
  <2>8. GoodList(r, T)
    BY <2>3, <2>4, <2>6, <2>7 DEF GoodList, Once
  <2>9. QED BY <2>2, <2>6, <2>8
<1>3. CASE ~\E i \in DOMAIN l : l[i].t = t
  <2>1. Without(l, t) = l
    BY <1>3 DEF Without
  <2>2. \A x : Member(l, x) => x.t # t
    BY <1>3 DEF Member
  <2>3. QED BY <2>1, <2>2
<1>4. QED BY <1>2, <1>3

\* The walk of _timer_start ends before the first entry that expires later.
LEMMA PlaceForm ==
  ASSUME NEW S, NEW l \in Seq(S), NEW e
  PROVE  \E k \in 1..(Len(l) + 1) :
           /\ Place(l, e) = InsertAt(l, k, e)
           /\ \A j \in 1..(k - 1) : ~Later(l[j].timeout, e.timeout)
           /\ k <= Len(l) => Later(l[k].timeout, e.timeout)
<1> DEFINE D == {i \in 1..Len(l) : Later(l[i].timeout, e.timeout)}
           B == {i \in DOMAIN l : \A j \in 1..i : ~Later(l[j].timeout, e.timeout)}
<1>1. Len(l) \in Nat /\ DOMAIN l = 1..Len(l)
  OBVIOUS
<1>2. D \subseteq 1..Len(l)
  OBVIOUS
<1>3. PICK k \in 1..(Len(l) + 1) : (\A j \in 1..(k - 1) : j \notin D) /\ (k <= Len(l) => k \in D)
  <2> HIDE DEF D
  <2>1. QED BY <1>1, <1>2, FirstPlace
<1>4. k \in Nat /\ k - 1 \in Nat /\ \A j \in 1..(k - 1) : j \in 1..Len(l)
  BY <1>1
<1>5. B = 1..(k - 1)
  <2>1. ASSUME NEW i \in B PROVE i \in 1..(k - 1)
    <3>1. i \in 1..Len(l) /\ \A j \in 1..i : j \in 1..Len(l) /\ j \notin D
      BY <1>1, <2>1
    <3>2. k <= Len(l) => k \notin 1..i
      BY <1>3, <3>1
    <3>3. QED BY <1>1, <1>4, <3>1, <3>2
  <2>2. ASSUME NEW i \in 1..(k - 1) PROVE i \in B
    <3>1. i \in 1..Len(l) /\ \A j \in 1..i : j \in 1..(k - 1)
      BY <1>1, <1>4
    <3>2. \A j \in 1..i : ~Later(l[j].timeout, e.timeout)
      BY <1>3, <1>4, <3>1
    <3>3. QED BY <1>1, <3>1, <3>2
  <2>3. QED BY <2>1, <2>2
<1>6. Cardinality(1..(k - 1)) = k - 1
  <2>1. 1 \in Int /\ k - 1 \in Int
    BY <1>4
  <2>2. Cardinality(1..(k - 1)) = IF 1 > k - 1 THEN 0 ELSE (k - 1) - 1 + 1
    BY <2>1, FS_Interval
  <2>3. QED BY <1>4, <2>2
<1>7. Cardinality(B) + 1 = k
  <2> HIDE DEF B
  <2>1. QED BY <1>4, <1>5, <1>6
<1>8. Place(l, e) = InsertAt(l, k, e)
  BY <1>7 DEF Place
<1>9. \A j \in 1..(k - 1) : ~Later(l[j].timeout, e.timeout)
  BY <1>3, <1>4
<1>10. k <= Len(l) => Later(l[k].timeout, e.timeout)
  BY <1>3
<1>11. QED BY <1>8, <1>9, <1>10

\* _timer_start: t has one entry, in its place.
LEMMA GoodInsert ==
  ASSUME VarType, NEW T, NEW t \in T, T \subseteq Timers, NEW l, GoodList(l, T)
  PROVE  /\ GoodList(Insert(l, t), T)
         /\ \A u : On(Insert(l, t), u) <=> On(l, u) \/ u = t
<1> DEFINE w == Without(l, t)
           e == [t |-> t, timeout |-> (tick + timer[t].init) % (TickMax + 1)]
<1>1. GoodList(w, T) /\ \A x : Member(w, x) <=> Member(l, x) /\ x.t # t
  BY GoodWithout
<1>2. Insert(l, t) = Place(w, e)
  BY DEF Insert
<1>3. tick \in 0..TickMax /\ t \in Timers /\ timer[t].init \in Times[t]
  BY DEF VarType
<1>4. PICK d \in Times[t] : d = timer[t].init
  BY <1>3
<1>5. /\ e.t = t /\ e.timeout \in 0..TickMax /\ Left(e.timeout) = d /\ Left(e.timeout) < Half
      /\ \A a \in 0..TickMax : Left(a) < Half => (Later(a, e.timeout) <=> Left(a) > Left(e.timeout))
  <2>1. PICK b : b = (tick + d) % (TickMax + 1)
    OBVIOUS
  <2>2. e = [t |-> t, timeout |-> b]
    BY <1>4, <2>1
  <2>3. d \in Int /\ d < Half /\ Half \in Int
    BY <1>3, Ranges
  <2>4. \A a \in 0..TickMax : Left(a) < Half =>
          b \in 0..TickMax /\ Left(b) = d /\ (Later(a, b) <=> Left(a) > d)
    BY <1>3, <2>1, LaterLeft
  <2>5. \E a \in 0..TickMax : Left(a) < Half
    <3>1. tick \in Int /\ TickMax \in Nat /\ MaxLate \in Nat /\ MaxLate < Half /\ Half \in Nat /\ 2 * Half < TickMax + 1
      BY <1>3, Ranges DEF N
    <3>2. /\ Left(tick) \in (-MaxLate)..(TickMax - MaxLate)
          /\ \/ Left(tick) = tick - tick \/ Left(tick) = tick - tick + N \/ Left(tick) = tick - tick - N
      BY <1>3, TickArith
    <3>3. Left(tick) < Half
      BY <3>1, <3>2 DEF N
    <3>4. QED BY <1>3, <3>3
  <2>6. b \in 0..TickMax /\ Left(b) = d
    BY <2>4, <2>5
  <2>7. QED BY <2>2, <2>3, <2>4, <2>6
<1>6. e \in Entry(Timers)
  BY <1>3, <1>5 DEF Entry
<1> HIDE DEF e, w
<1>7. w \in Seq(Entry(Timers)) /\ NoDup(w) /\ Sorted(w, ByLeft)
      /\ \A x : Member(w, x) => x.t \in T /\ Left(x.timeout) < Half
  BY <1>1 DEF GoodList, Once
<1>8. PICK k \in 1..(Len(w) + 1) :
        /\ Place(w, e) = InsertAt(w, k, e)
        /\ \A j \in 1..(k - 1) : ~Later(w[j].timeout, e.timeout)
        /\ k <= Len(w) => Later(w[k].timeout, e.timeout)
  BY <1>7, PlaceForm
<1>9. ~Member(w, e)
  BY <1>1, <1>5
<1> DEFINE r == InsertAt(w, k, e)
<1>10. r \in Seq(Entry(Timers)) /\ NoDup(r) /\ \A x : Member(r, x) <=> Member(w, x) \/ x = e
  BY <1>6, <1>7, <1>9, InsertAtElements, InsertAtMembers
<1>11. \A j \in 1..Len(w) : /\ w[j] \in Entry(Timers) /\ w[j].timeout \in 0..TickMax
                            /\ Left(w[j].timeout) < Half
                            /\ Left(w[j].timeout) \in Int
                            /\ ByLeft[w[j]] = Left(w[j].timeout)
  <2>1. ASSUME NEW j \in 1..Len(w)
        PROVE  /\ w[j] \in Entry(Timers) /\ w[j].timeout \in 0..TickMax
               /\ Left(w[j].timeout) < Half
               /\ Left(w[j].timeout) \in Int
               /\ ByLeft[w[j]] = Left(w[j].timeout)
    <3>1. w[j] \in Entry(Timers) /\ Member(w, w[j])
      BY <1>7 DEF Member
    <3>2. QED BY <1>3, <1>7, <3>1, EntryLeft
  <2>2. QED BY <2>1
<1>12. Sorted(r, ByLeft)
  <2>1. ByLeft \in [Entry(Timers) -> Int] /\ ByLeft[e] = Left(e.timeout) /\ Left(e.timeout) \in Int
    BY <1>3, <1>5, <1>6, EntryLeft
  <2>2. Len(w) \in Nat
    BY <1>7
  <2>3. \A j \in 1..(k - 1) : j \in 1..Len(w)
    BY <2>2
  <2>4. \A j \in 1..(k - 1) : ByLeft[w[j]] <= ByLeft[e]
    <3>1. ASSUME NEW j \in 1..(k - 1) PROVE ByLeft[w[j]] <= ByLeft[e]
      <4>1. ~(Left(w[j].timeout) > Left(e.timeout))
        BY <1>5, <1>8, <1>11, <2>3
      <4>2. QED BY <1>11, <2>1, <2>3, <4>1
    <3>2. QED BY <3>1
  <2>5. k <= Len(w) => ByLeft[e] <= ByLeft[w[k]]
    <3>1. ASSUME k <= Len(w) PROVE ByLeft[e] <= ByLeft[w[k]]
      <4>1. k \in 1..Len(w)
        BY <2>2, <3>1
      <4>2. Left(w[k].timeout) > Left(e.timeout)
        BY <1>5, <1>8, <1>11, <3>1, <4>1
      <4>3. QED BY <1>11, <2>1, <4>1, <4>2
    <3>2. QED BY <3>1
  <2>6. QED BY <1>6, <1>7, <2>1, <2>4, <2>5, InsertAtSorted
<1> HIDE DEF r
<1>13. Once(r)
  <2>1. Once(w)
    BY <1>1 DEF GoodList
  <2>2. \A x : Member(w, x) => x.t # e.t
    BY <1>1, <1>5
  <2>3. QED BY <1>10, <2>1, <2>2 DEF Once
<1>14. GoodList(r, T)
  BY <1>5, <1>7, <1>10, <1>12, <1>13 DEF GoodList
<1>15. \A u : On(r, u) <=> On(l, u) \/ u = t
  BY <1>1, <1>5, <1>10 DEF On
<1>16. Insert(l, t) = r
  BY <1>2, <1>8 DEF r
<1>17. QED BY <1>14, <1>15, <1>16

\* Taking the first entry, which has the least time left.
LEMMA GoodTail ==
  ASSUME tick \in 0..TickMax, NEW l, NEW T, GoodList(l, T), l # <<>>
  PROVE  /\ GoodList(Tail(l), T) /\ Member(l, Head(l)) /\ Head(l) \in Entry(Timers)
         /\ \A x : Member(Tail(l), x) <=> Member(l, x) /\ x.t # Head(l).t
         /\ \A x : Member(l, x) => Left(Head(l).timeout) <= Left(x.timeout)
<1>1. l \in Seq(Entry(Timers)) /\ NoDup(l) /\ Sorted(l, ByLeft) /\ Once(l)
  BY DEF GoodList, Once
<1>2. /\ Head(l) \in Entry(Timers) /\ Member(l, Head(l)) /\ Tail(l) \in Seq(Entry(Timers))
      /\ NoDup(Tail(l)) /\ \A x : Member(Tail(l), x) <=> (Member(l, x) /\ x # Head(l))
  BY <1>1, TailMembers
<1>3. \A x : Member(Tail(l), x) <=> Member(l, x) /\ x.t # Head(l).t
  BY <1>1, <1>2 DEF Once
<1>4. PICK z : z \notin Entry(Timers)
  BY NoSetContainsEverything
<1>5. ~Member(l, z) /\ ~Member(Tail(l), z)
  BY <1>1, <1>2, <1>4 DEF Member
<1>6. SortedBut(l, ByLeft, z)
  BY <1>1, <1>5, SortedWithout
<1>7. /\ SortedBut(Tail(l), ByLeft, z)
      /\ Head(l) # z => \A x : Member(Tail(l), x) /\ x # z => ByLeft[Head(l)] <= ByLeft[x]
  BY <1>1, <1>6, TailSorted
<1>8. Sorted(Tail(l), ByLeft)
  BY <1>5, <1>7, SortedWithout
<1>9. GoodList(Tail(l), T)
  BY <1>2, <1>3, <1>8, <1>1 DEF GoodList, Once
<1>10. ASSUME NEW x, Member(l, x) PROVE Left(Head(l).timeout) <= Left(x.timeout)
  <2>1. x \in Entry(Timers)
    BY <1>1, <1>10 DEF Member
  <2>2. /\ ByLeft[x] = Left(x.timeout) /\ ByLeft[Head(l)] = Left(Head(l).timeout)
        /\ Left(x.timeout) \in Int
    BY <1>2, <2>1, EntryLeft
  <2>3. CASE x = Head(l)
    BY <2>2, <2>3
  <2>4. CASE x # Head(l)
    BY <1>2, <1>4, <1>7, <1>10, <2>1, <2>2, <2>4
  <2>5. QED BY <2>3, <2>4
<1>11. QED BY <1>2, <1>3, <1>9, <1>10

-----------------------------------------------------------------------------
(* What a step must keep.                                                  *)

\* A timer is listed when the list of its kind has an entry for it.
LEMMA ListedOn ==
  ASSUME NEW t PROVE Listed(t) <=> On(list[Kind(t)], t)
BY DEF Listed, On, Member

\* The same after the step.
LEMMA ListedOnNext ==
  ASSUME NEW t, NEW l, l = list'[Kind(t)] PROVE Listed(t)' <=> On(l, t)
BY DEF Listed, On, Member, Kind

\* A list that is in order stays so while the tick does not change.
LEMMA GoodNext ==
  ASSUME tick' = tick, NEW k, NEW l, l = list'[k], GoodList(l, Of(k))
  PROVE  GoodList(list[k], Of(k))'
<1>1. ByLeft' = ByLeft /\ \A a : Left(a)' = Left(a)
  BY DEF ByLeft, Left, Minus, Entry, Timers
<1>2. QED BY <1>1 DEF GoodList, Once, NoDup, Sorted, Member, Of, Entry, Timers

\* One list changes, to one in order.
LEMMA ListsAfter ==
  ASSUME VarType, OrderInv, tick' = tick, NEW k \in Kinds, NEW l, GoodList(l, Of(k)),
         list' = [list EXCEPT ![k] = l]
  PROVE  /\ list' \in [Kinds -> Seq(Entry(Timers))]
         /\ OrderInv'
         /\ \A t \in Timers : Listed(t)' <=> IF Kind(t) = k THEN On(l, t) ELSE Listed(t)
<1>1. list \in [Kinds -> Seq(Entry(Timers))] /\ l \in Seq(Entry(Timers))
  BY DEF VarType, GoodList
<1>2. list'[k] = l /\ \A j \in Kinds : j # k => list'[j] = list[j]
  BY <1>1
<1>3. list' \in [Kinds -> Seq(Entry(Timers))]
  BY <1>1
<1>4. ASSUME NEW j \in Kinds PROVE GoodList(list[j], Of(j))'
  <2>1. PICK m : m = list'[j]
    OBVIOUS
  <2>2. GoodList(m, Of(j))
    BY <1>2, <2>1 DEF OrderInv
  <2>3. QED BY <2>1, <2>2, GoodNext
<1>5. OrderInv'
  BY <1>4 DEF OrderInv, Kinds, Of
<1>6. ASSUME NEW t \in Timers
      PROVE  Listed(t)' <=> IF Kind(t) = k THEN On(l, t) ELSE Listed(t)
  <2>1. Kind(t) \in Kinds
    BY KindOf
  <2>2. PICK m : m = list'[Kind(t)]
    OBVIOUS
  <2>3. Listed(t)' <=> On(m, t)
    BY <2>2, ListedOnNext
  <2>4. Listed(t) <=> On(list[Kind(t)], t)
    BY ListedOn
  <2>5. QED BY <1>2, <2>1, <2>2, <2>3, <2>4
<1>7. QED BY <1>3, <1>5, <1>6

\* A step that changes the entry, the flags and the place of one timer t
\* keeps what there is to say about the others, so it is enough to look at t.
LEMMA TimerStep ==
  ASSUME IInv, NEW t \in Timers, NEW l, GoodList(l, Of(Kind(t))),
         \A u : u # t => (On(l, u) <=> On(list[Kind(t)], u)),
         tick' = tick, list' = [list EXCEPT ![Kind(t)] = l],
         timer' \in [Timers -> TimerRec], timer'[t].init \in Times[t],
         \A u \in Timers \ {t} : timer'[u] = timer[u],
         \A u \in Timers \ {t} : u \in stale' <=> u \in stale,
         \A u \in Timers \ {t} : u \in local'[Kind(u)] <=> u \in local[Kind(u)],
         On(l, t) => timer'[t].act /\ ~timer'[t].proc,
         timer'[t].act /\ ~timer'[t].proc => On(l, t) \/ t \in stale',
         t \in local'[Kind(t)] => timer'[t].proc,
         timer'[t].proc /\ timer'[t].act => t \in local'[Kind(t)],
         t \in local'[Kind(t)] /\ timer'[t].act /\ ~timer'[t].per => t \in stale'
  PROVE  /\ list' \in [Kinds -> Seq(Entry(Timers))]
         /\ \A u \in Timers : timer'[u].init \in Times[u]
         /\ OrderInv' /\ FlagInv' /\ LocalInv'
<1>1. Kind(t) \in Kinds /\ VarType /\ OrderInv
  BY KindOf DEF IInv
<1>2. /\ list' \in [Kinds -> Seq(Entry(Timers))]
      /\ OrderInv'
      /\ \A u \in Timers : Listed(u)' <=> IF Kind(u) = Kind(t) THEN On(l, u) ELSE Listed(u)
  BY <1>1, ListsAfter
<1>3. \A u \in Timers : timer'[u].init \in Times[u]
  BY <1>1 DEF VarType
<1>4. \A u \in Timers \ {t} : Listed(u)' <=> Listed(u)
  BY <1>2, ListedOn
<1>5. Listed(t)' <=> On(l, t)
  BY <1>2
<1>6. FlagInv'
  <2>1. ASSUME NEW u \in Timers
        PROVE  /\ Listed(u)' => timer'[u].act /\ ~timer'[u].proc
               /\ timer'[u].act /\ ~timer'[u].proc => Listed(u)' \/ u \in stale'
    <3>1. CASE u = t
      BY <1>5, <3>1
    <3>2. CASE u # t
      <4>1. timer'[u] = timer[u] /\ (u \in stale' <=> u \in stale) /\ (Listed(u)' <=> Listed(u))
        BY <1>4, <3>2
      <4>2. /\ Listed(u) => timer[u].act /\ ~timer[u].proc
            /\ timer[u].act /\ ~timer[u].proc => Listed(u) \/ u \in stale
        BY DEF IInv, FlagInv
      <4>3. QED BY <4>1, <4>2
    <3>3. QED BY <3>1, <3>2
  <2>2. QED BY <2>1 DEF FlagInv, Timers
<1>7. LocalInv'
  <2>1. ASSUME NEW u \in Timers
        PROVE  /\ u \in local'[Kind(u)] => timer'[u].proc
               /\ timer'[u].proc /\ timer'[u].act => u \in local'[Kind(u)]
               /\ u \in local'[Kind(u)] /\ timer'[u].act /\ ~timer'[u].per => u \in stale'
    <3>1. CASE u = t
      BY <3>1
    <3>2. CASE u # t
      <4>1. /\ timer'[u] = timer[u] /\ (u \in stale' <=> u \in stale)
            /\ u \in local'[Kind(u)] <=> u \in local[Kind(u)]
        BY <3>2
      <4>2. /\ u \in local[Kind(u)] => timer[u].proc
            /\ timer[u].proc /\ timer[u].act => u \in local[Kind(u)]
            /\ u \in local[Kind(u)] /\ timer[u].act /\ ~timer[u].per => u \in stale
        BY DEF IInv, LocalInv
      <4>3. QED BY <4>1, <4>2
    <3>3. QED BY <3>1, <3>2
  <2>2. QED BY <2>1 DEF LocalInv, Timers, Kind
<1>8. QED BY <1>2, <1>3, <1>6, <1>7

\* The timer thread does not oversleep while nothing but an entry of the soft
\* list goes.
LEMMA AwakeKept ==
  ASSUME NotOverslept, tick' = tick, thr' = thr, sem' = 0 => sem = 0,
         NEW l, l = list'["soft"], \A x : Member(l, x) => Member(list["soft"], x)
  PROVE  NotOverslept'
<1>1. \A a : Left(a)' = Left(a)
  BY DEF Left, Minus
<1>2. SUFFICES ASSUME thr.pc \in {"delta", "take", "sleep"}, sem = 0, NEW i \in DOMAIN l
               PROVE  thr.until # Forever /\ WaitLeft <= Left(l[i].timeout) + thr.slip
  BY <1>1 DEF NotOverslept, WaitLeft, Forever
<1>3. PICK j \in DOMAIN list["soft"] : list["soft"][j] = l[i]
  BY <1>2 DEF Member
<1>4. QED BY <1>2, <1>3 DEF NotOverslept

\* What a call leaves alone: the two check functions, and their local lists
\* but for a timer taken out.
LEMMA CallRest ==
  ASSUME IInv, tick' = tick, isr' = isr, thr' = thr, sem' \in {0, 1}, stale' \subseteq Timers,
         local' \in [Kinds -> SUBSET Timers], \A k \in Kinds : local'[k] \subseteq local[k],
         timer' \in [Timers -> TimerRec], \A u \in Timers : timer'[u].init \in Times[u],
         list' \in [Kinds -> Seq(Entry(Timers))]
  PROVE  VarType' /\ RunInv'
<1>1. VarType'
  <2>1. VarType /\ ThrType'
    BY DEF IInv, VarType, ThrType, Half
  <2>2. QED BY <2>1 DEF VarType, Of, Kinds, Timers, TimerRec, Entry, Half
<1>2. RunInv'
  <2>1. \A k \in Kinds : Runs(k)' = Runs(k)
    BY DEF Runs
  <2>2. QED BY <2>1 DEF IInv, RunInv, Kinds
<1>3. QED BY <1>1, <1>2

\* A timer taken out of the local list of its kind.
LEMMA LocalOut ==
  ASSUME VarType, NEW t \in Timers, local' = [local EXCEPT ![Kind(t)] = local[Kind(t)] \ {t}]
  PROVE  /\ local' \in [Kinds -> SUBSET Timers] /\ \A k \in Kinds : local'[k] \subseteq local[k]
         /\ \A u \in Timers \ {t} : u \in local'[Kind(u)] <=> u \in local[Kind(u)]
         /\ t \notin local'[Kind(t)]
<1>1. local \in [Kinds -> SUBSET Timers] /\ Kind(t) \in Kinds
  BY KindOf DEF VarType
<1>2. \A k \in Kinds : local'[k] = IF k = Kind(t) THEN local[k] \ {t} ELSE local[k]
  BY <1>1
<1>3. local' \in [Kinds -> SUBSET Timers]
  BY <1>1
<1>4. QED BY <1>1, <1>2, <1>3, KindOf

\* A timer taken out of its list.
LEMMA ListOut ==
  ASSUME OrderInv, NEW t \in Timers
  PROVE  \E l : /\ l = Without(list[Kind(t)], t) /\ GoodList(l, Of(Kind(t))) /\ ~On(l, t)
                /\ \A u : u # t => (On(l, u) <=> On(list[Kind(t)], u))
                /\ \A x : Member(l, x) => Member(list[Kind(t)], x)
<1>1. GoodList(list[Kind(t)], Of(Kind(t)))
  BY KindOf DEF OrderInv
<1>2. PICK l : l = Without(list[Kind(t)], t)
  OBVIOUS
<1>3. GoodList(l, Of(Kind(t))) /\ \A x : Member(l, x) <=> Member(list[Kind(t)], x) /\ x.t # t
  BY <1>1, <1>2, GoodWithout
<1>4. ~On(l, t) /\ \A u : u # t => (On(l, u) <=> On(list[Kind(t)], u))
  BY <1>3 DEF On
<1>5. QED BY <1>2, <1>3, <1>4

\* The soft list when the list of one kind becomes l.
LEMMA SoftAfter ==
  ASSUME VarType, NEW t \in Timers, NEW l, list' = [list EXCEPT ![Kind(t)] = l],
         Kind(t) = "hard" \/ \A x : Member(l, x) => Member(list["soft"], x)
  PROVE  \E m : m = list'["soft"] /\ \A x : Member(m, x) => Member(list["soft"], x)
<1>1. PICK m : m = list'["soft"]
  OBVIOUS
<1>2. list \in [Kinds -> Seq(Entry(Timers))] /\ Kind(t) \in Kinds
  BY KindOf DEF VarType
<1>3. m = IF Kind(t) = "soft" THEN l ELSE list["soft"]
  BY <1>1, <1>2 DEF Kinds
<1>4. QED BY <1>1, <1>3

\* A timer taken out of whichever list it is in, and deactivated.
LEMMA OutInv ==
  ASSUME IInv, NEW t \in Timers, list' = [list EXCEPT ![Kind(t)] = Without(list[Kind(t)], t)],
         local' = [local EXCEPT ![Kind(t)] = local[Kind(t)] \ {t}],
         timer' \in [Timers -> TimerRec], ~timer'[t].act, timer'[t].init \in Times[t],
         \A u \in Timers \ {t} : timer'[u] = timer[u],
         stale' = stale \ {t}, UNCHANGED <<tick, sem, isr, thr>>
  PROVE  IInv'
<1>1. /\ VarType /\ OrderInv /\ NotOverslept /\ tick' = tick /\ isr' = isr /\ thr' = thr
      /\ sem' = sem /\ sem' \in {0, 1} /\ stale \subseteq Timers /\ stale' \subseteq Timers
  BY DEF IInv, VarType
<1>2. /\ local' \in [Kinds -> SUBSET Timers] /\ \A k \in Kinds : local'[k] \subseteq local[k]
      /\ \A u \in Timers \ {t} : u \in local'[Kind(u)] <=> u \in local[Kind(u)]
      /\ t \notin local'[Kind(t)]
  BY <1>1, LocalOut
<1>3. PICK l : /\ l = Without(list[Kind(t)], t) /\ GoodList(l, Of(Kind(t))) /\ ~On(l, t)
               /\ \A u : u # t => (On(l, u) <=> On(list[Kind(t)], u))
               /\ \A x : Member(l, x) => Member(list[Kind(t)], x)
  BY <1>1, ListOut
<1>4. list' = [list EXCEPT ![Kind(t)] = l]
  BY <1>3
<1>5. /\ list' \in [Kinds -> Seq(Entry(Timers))]
      /\ \A u \in Timers : timer'[u].init \in Times[u]
      /\ OrderInv' /\ FlagInv' /\ LocalInv'
  <2>1. \A u \in Timers \ {t} : u \in stale' <=> u \in stale
    OBVIOUS
  <2>2. QED BY <1>1, <1>2, <1>3, <1>4, <2>1, TimerStep
<1>6. VarType' /\ RunInv'
  BY <1>1, <1>2, <1>5, CallRest
<1>7. NotOverslept'
  <2>1. Kind(t) = "hard" \/ Kind(t) = "soft"
    BY KindOf DEF Kinds
  <2>2. PICK m : m = list'["soft"] /\ \A x : Member(m, x) => Member(list["soft"], x)
    BY <1>1, <1>3, <1>4, <2>1, SoftAfter
  <2>3. QED BY <1>1, <2>2, AwakeKept
<1>8. QED BY <1>5, <1>6, <1>7 DEF IInv

\* Only the flags or the init_tick of t change, with t where it was.
LEMMA StayInv ==
  ASSUME IInv, NEW t \in Timers, UNCHANGED <<tick, list, local, sem, isr, thr>>,
         timer' \in [Timers -> TimerRec], timer'[t].init \in Times[t],
         timer'[t].act = timer[t].act, timer'[t].proc = timer[t].proc,
         \A u \in Timers \ {t} : timer'[u] = timer[u],
         stale' \subseteq Timers, \A u \in Timers \ {t} : u \in stale' <=> u \in stale,
         timer[t].act /\ ~timer[t].proc => (t \in stale => t \in stale'),
         timer[t].act /\ timer[t].proc => timer'[t].per \/ t \in stale'
  PROVE  IInv'
<1>1. /\ VarType /\ OrderInv /\ NotOverslept /\ tick' = tick /\ isr' = isr /\ thr' = thr
      /\ sem' = sem /\ sem' \in {0, 1} /\ list' = list /\ local' = local
      /\ local \in [Kinds -> SUBSET Timers] /\ list \in [Kinds -> Seq(Entry(Timers))]
  BY DEF IInv, VarType
<1>2. PICK l : l = list[Kind(t)]
  OBVIOUS
<1>3. list' = [list EXCEPT ![Kind(t)] = l] /\ GoodList(l, Of(Kind(t)))
  BY <1>1, <1>2, KindOf DEF OrderInv
<1>4. /\ list' \in [Kinds -> Seq(Entry(Timers))]
      /\ \A u \in Timers : timer'[u].init \in Times[u]
      /\ OrderInv' /\ FlagInv' /\ LocalInv'
  <2>1. \A u : u # t => (On(l, u) <=> On(list[Kind(t)], u))
    BY <1>2
  <2>2. On(l, t) <=> Listed(t)
    BY <1>2, ListedOn
  <2>3. /\ On(l, t) => timer[t].act /\ ~timer[t].proc
        /\ timer[t].act /\ ~timer[t].proc => On(l, t) \/ t \in stale
    BY <2>2 DEF IInv, FlagInv
  <2>4. /\ t \in local[Kind(t)] => timer[t].proc
        /\ timer[t].proc /\ timer[t].act => t \in local[Kind(t)]
    BY DEF IInv, LocalInv
  <2>5. /\ \A u \in Timers \ {t} : u \in local'[Kind(u)] <=> u \in local[Kind(u)]
        /\ On(l, t) => timer'[t].act /\ ~timer'[t].proc
        /\ timer'[t].act /\ ~timer'[t].proc => On(l, t) \/ t \in stale'
        /\ t \in local'[Kind(t)] => timer'[t].proc
        /\ timer'[t].proc /\ timer'[t].act => t \in local'[Kind(t)]
        /\ t \in local'[Kind(t)] /\ timer'[t].act /\ ~timer'[t].per => t \in stale'
    BY <1>1, <2>3, <2>4
  <2>6. QED BY <1>1, <1>3, <2>1, <2>5, TimerStep
<1>5. VarType' /\ RunInv'
  BY <1>1, <1>4, CallRest
<1>6. NotOverslept'
  BY <1>1, AwakeKept
<1>7. QED BY <1>4, <1>5, <1>6 DEF IInv

-----------------------------------------------------------------------------
(* The calls.                                                              *)

\* Nothing changes.
LEMMA StutterInv ==
  ASSUME IInv, UNCHANGED vars
  PROVE  IInv'
<1>1. /\ VarType /\ OrderInv /\ NotOverslept /\ FlagInv /\ LocalInv /\ RunInv
      /\ tick' = tick /\ isr' = isr /\ thr' = thr /\ timer' = timer /\ stale' = stale
      /\ sem' = sem /\ list' = list /\ local' = local
  BY DEF IInv, vars
<1>2. VarType'
  <2>1. ThrType'
    BY <1>1 DEF VarType, ThrType, Half
  <2>2. QED BY <1>1, <2>1 DEF VarType, Of, Kinds, Timers, TimerRec, Entry, Half
<1>3. OrderInv'
  <2>1. ASSUME NEW k \in Kinds PROVE GoodList(list[k], Of(k))'
    <3>1. PICK l : l = list[k]
      OBVIOUS
    <3>2. GoodList(l, Of(k)) /\ l = list'[k]
      BY <1>1, <3>1 DEF OrderInv
    <3>3. QED BY <1>1, <3>2, GoodNext
  <2>2. QED BY <2>1 DEF OrderInv, Kinds, Of
<1>4. FlagInv'
  BY <1>1 DEF FlagInv, Listed, Timers, Kind
<1>5. LocalInv'
  BY <1>1 DEF LocalInv, Timers, Kind
<1>6. RunInv'
  BY <1>1 DEF RunInv, Runs, Kinds
<1>7. NotOverslept'
  BY <1>1, AwakeKept
<1>8. QED BY <1>2, <1>3, <1>4, <1>5, <1>6, <1>7 DEF IInv

\* rt_timer_start.
LEMMA StartInv ==
  ASSUME IInv, NEW t \in Timers, rt_timer_start(t)
  PROVE  IInv'
<1>1. CASE timer[t].proc
  <2>1. UNCHANGED vars
    BY <1>1 DEF rt_timer_start, vars
  <2>2. QED BY <2>1, StutterInv
<1>2. CASE ~timer[t].proc
  <2>1. /\ timer' = [timer EXCEPT ![t].act = TRUE]
        /\ list' = [list EXCEPT ![Kind(t)] = Insert(list[Kind(t)], t)]
        /\ sem' = IF t \in Soft THEN 1 ELSE sem
        /\ stale' = stale \ {t}
        /\ tick' = tick /\ local' = local /\ isr' = isr /\ thr' = thr
    BY <1>2 DEF rt_timer_start
  <2>2. /\ VarType /\ OrderInv /\ NotOverslept /\ timer \in [Timers -> TimerRec]
        /\ sem' \in {0, 1} /\ stale' \subseteq Timers /\ local \in [Kinds -> SUBSET Timers]
        /\ timer[t].init \in Times[t]
    BY <2>1 DEF IInv, VarType
  <2>3. /\ timer' \in [Timers -> TimerRec] /\ timer'[t].init \in Times[t]
        /\ timer'[t].act /\ ~timer'[t].proc
        /\ \A u \in Timers \ {t} : timer'[u] = timer[u]
    BY <1>2, <2>1, <2>2 DEF TimerRec
  <2>4. PICK l : l = Insert(list[Kind(t)], t)
    OBVIOUS
  <2>5. GoodList(l, Of(Kind(t))) /\ \A u : On(l, u) <=> On(list[Kind(t)], u) \/ u = t
    <3>1. PICK T : T = Of(Kind(t))
      OBVIOUS
    <3>2. t \in T /\ T \subseteq Timers /\ GoodList(list[Kind(t)], T)
      BY <2>2, <3>1, KindOf DEF OrderInv
    <3>3. QED BY <2>2, <2>4, <3>1, <3>2, GoodInsert
  <2>6. list' = [list EXCEPT ![Kind(t)] = l]
    BY <2>1, <2>4
  <2>7. t \notin local[Kind(t)]
    BY <1>2 DEF IInv, LocalInv
  <2>8. /\ list' \in [Kinds -> Seq(Entry(Timers))]
        /\ \A u \in Timers : timer'[u].init \in Times[u]
        /\ OrderInv' /\ FlagInv' /\ LocalInv'
    <3>1. /\ \A u \in Timers \ {t} : u \in stale' <=> u \in stale
          /\ \A u \in Timers \ {t} : u \in local'[Kind(u)] <=> u \in local[Kind(u)]
          /\ t \notin local'[Kind(t)] /\ On(l, t)
      BY <2>1, <2>5, <2>7
    <3>2. QED BY <2>1, <2>3, <2>5, <2>6, <3>1, TimerStep
  <2>9. VarType' /\ RunInv'
    BY <2>1, <2>2, <2>3, <2>8, CallRest
  <2>10. NotOverslept'
    <3>1. CASE t \in Soft
      BY <2>1, <3>1 DEF NotOverslept
    <3>2. CASE t \notin Soft
      <4>1. Kind(t) = "hard"
        BY <3>2 DEF Kind
      <4>2. PICK m : m = list'["soft"] /\ \A x : Member(m, x) => Member(list["soft"], x)
        BY <2>2, <2>6, <4>1, SoftAfter
      <4>3. QED BY <2>1, <2>2, <3>2, <4>2, AwakeKept
    <3>3. QED BY <3>1, <3>2
  <2>11. QED BY <2>8, <2>9, <2>10 DEF IInv
<1>3. QED BY <1>1, <1>2

\* rt_timer_stop.
LEMMA StopInv ==
  ASSUME IInv, NEW t \in Timers, rt_timer_stop(t)
  PROVE  IInv'
<1>1. /\ list' = [list EXCEPT ![Kind(t)] = Without(list[Kind(t)], t)]
      /\ local' = [local EXCEPT ![Kind(t)] = local[Kind(t)] \ {t}]
      /\ timer' = [timer EXCEPT ![t].act = FALSE]
      /\ stale' = stale \ {t} /\ UNCHANGED <<tick, sem, isr, thr>>
  BY DEF rt_timer_stop, TakeOut
<1>2. timer \in [Timers -> TimerRec] /\ timer[t].init \in Times[t]
  BY DEF IInv, VarType
<1>3. /\ timer' \in [Timers -> TimerRec] /\ timer'[t].init \in Times[t] /\ ~timer'[t].act
      /\ \A u \in Timers \ {t} : timer'[u] = timer[u]
  BY <1>1, <1>2 DEF TimerRec
<1>4. QED BY <1>1, <1>3, OutInv

\* rt_timer_detach, and rt_timer_init after it.
LEMMA ReinitInv ==
  ASSUME IInv, NEW t \in Timers, Reinit(t)
  PROVE  IInv'
<1>1. /\ list' = [list EXCEPT ![Kind(t)] = Without(list[Kind(t)], t)]
      /\ local' = [local EXCEPT ![Kind(t)] = local[Kind(t)] \ {t}]
      /\ timer' = [timer EXCEPT ![t].act = FALSE, ![t].proc = FALSE]
      /\ stale' = stale \ {t} /\ UNCHANGED <<tick, sem, isr, thr>>
  BY DEF Reinit
<1>2. timer \in [Timers -> TimerRec] /\ timer[t].init \in Times[t]
  BY DEF IInv, VarType
<1>3. /\ timer' \in [Timers -> TimerRec] /\ timer'[t].init \in Times[t] /\ ~timer'[t].act
      /\ \A u \in Timers \ {t} : timer'[u] = timer[u]
  BY <1>1, <1>2 DEF TimerRec
<1>4. QED BY <1>1, <1>3, OutInv

\* RT_TIMER_CTRL_SET_TIME.
LEMMA SetTimeInv ==
  ASSUME IInv, NEW t \in Timers, NEW d \in Times[t], SetTime(t, d)
  PROVE  IInv'
<1>1. /\ timer' = [timer EXCEPT ![t].act = FALSE, ![t].init = d]
      /\ stale' = stale \ {t} /\ UNCHANGED <<tick, sem, isr, thr>>
  BY DEF SetTime
<1>2. timer \in [Timers -> TimerRec] /\ d \in 1..(Half - 1) /\ timer[t] \in TimerRec
  BY Ranges DEF IInv, VarType
<1>3. /\ timer' \in [Timers -> TimerRec] /\ timer'[t].init \in Times[t]
      /\ timer'[t].act = FALSE /\ timer'[t].proc = timer[t].proc
      /\ \A u \in Timers \ {t} : timer'[u] = timer[u]
  BY <1>1, <1>2 DEF TimerRec
<1>4. CASE timer[t].act
  <2>1. /\ list' = [list EXCEPT ![Kind(t)] = Without(list[Kind(t)], t)]
        /\ local' = [local EXCEPT ![Kind(t)] = local[Kind(t)] \ {t}]
    BY <1>4 DEF SetTime
  <2>2. QED BY <1>1, <1>3, <2>1, OutInv
<1>5. CASE ~timer[t].act
  <2>1. UNCHANGED <<tick, list, local, sem, isr, thr>>
    BY <1>5 DEF SetTime
  <2>2. timer[t].act = FALSE /\ stale' \subseteq Timers
    BY <1>1, <1>2, <1>5 DEF TimerRec, IInv, VarType
  <2>3. \A u \in Timers \ {t} : u \in stale' <=> u \in stale
    BY <1>1
  <2>4. QED BY <1>3, <2>1, <2>2, <2>3, StayInv
<1>6. QED BY <1>4, <1>5

\* RT_TIMER_CTRL_SET_PERIODIC and RT_TIMER_CTRL_SET_ONESHOT.
LEMMA SetPeriodicInv ==
  ASSUME IInv, NEW t \in Timers, NEW b \in BOOLEAN, SetPeriodic(t, b)
  PROVE  IInv'
<1>1. /\ timer' = [timer EXCEPT ![t].per = b]
      /\ stale' = IF timer[t].act /\ timer[t].proc
                  THEN IF b THEN stale \ {t} ELSE stale \union {t}
                  ELSE stale
      /\ UNCHANGED <<tick, list, local, sem, isr, thr>>
  BY DEF SetPeriodic
<1>2. timer \in [Timers -> TimerRec] /\ timer[t].init \in Times[t] /\ stale \subseteq Timers
  BY DEF IInv, VarType
<1>3. /\ timer' \in [Timers -> TimerRec] /\ timer'[t].init \in Times[t] /\ timer'[t].per = b
      /\ timer'[t].act = timer[t].act /\ timer'[t].proc = timer[t].proc
      /\ \A u \in Timers \ {t} : timer'[u] = timer[u]
  BY <1>1, <1>2 DEF TimerRec
<1>4. CASE ~timer[t].act \/ ~timer[t].proc
  <2>1. stale' = stale
    BY <1>1, <1>4
  <2>2. QED BY <1>1, <1>2, <1>3, <1>4, <2>1, StayInv
<1>5. CASE timer[t].act /\ timer[t].proc /\ b
  <2>1. stale' = stale \ {t}
    BY <1>1, <1>5
  <2>2. /\ stale' \subseteq Timers /\ \A u \in Timers \ {t} : u \in stale' <=> u \in stale
    BY <1>2, <2>1
  <2>3. QED BY <1>1, <1>3, <1>5, <2>2, StayInv
<1>6. CASE timer[t].act /\ timer[t].proc /\ ~b
  <2>1. stale' = stale \union {t}
    BY <1>1, <1>6
  <2>2. /\ stale' \subseteq Timers /\ \A u \in Timers \ {t} : u \in stale' <=> u \in stale
        /\ t \in stale'
    BY <1>2, <2>1
  <2>3. QED BY <1>1, <1>3, <1>6, <2>2, StayInv
<1>7. QED BY <1>4, <1>5, <1>6

-----------------------------------------------------------------------------
(* The tick.                                                               *)

\* What the bound on late callbacks says about the time left.
LEMMA LateLeft ==
  ASSUME NEW a \in 0..TickMax, tick \in 0..TickMax,
         Reached(a) => Minus(tick, a) < MaxLate
  PROVE  Left(a) # -MaxLate
<1>1. /\ TickMax \in Nat /\ MaxLate \in Nat /\ Half \in Nat /\ N \in Nat \ {0} /\ N = TickMax + 1
      /\ 2 * Half < N /\ MaxLate < Half
  BY Ranges
<1>2. /\ Minus(tick, a) = IF tick >= a THEN tick - a ELSE tick - a + N
      /\ Left(a) \in (-MaxLate)..(TickMax - MaxLate)
      /\ \/ Left(a) = a - tick \/ Left(a) = a - tick + N \/ Left(a) = a - tick - N
  BY TickArith
<1>3. QED BY <1>1, <1>2 DEF Reached

\* The first entry is the one that could be too late.
LEMMA NoneLate ==
  ASSUME tick \in 0..TickMax, NEW l, NEW T, GoodList(l, T),
         Expired(l) => Minus(tick, Head(l).timeout) < MaxLate,
         NEW x, Member(l, x)
  PROVE  Left(x.timeout) # -MaxLate
<1>1. l # <<>>
  BY DEF Member
<1>2. Head(l) \in Entry(Timers) /\ Left(Head(l).timeout) <= Left(x.timeout)
  BY <1>1, GoodTail
<1>3. x \in Entry(Timers)
  BY DEF GoodList, Member
<1>4. /\ Head(l).timeout \in 0..TickMax
      /\ Left(Head(l).timeout) \in Int /\ Left(Head(l).timeout) >= -MaxLate
      /\ Left(x.timeout) \in Int /\ Left(x.timeout) >= -MaxLate
  BY <1>2, <1>3, EntryLeft
<1>5. Left(Head(l).timeout) # -MaxLate
  BY <1>1, <1>4, LateLeft DEF Expired
<1>6. MaxLate \in Nat
  BY Ranges
<1>7. QED BY <1>2, <1>4, <1>5, <1>6

\* A tick keeps a list in order.
LEMMA GoodTick ==
  ASSUME tick \in 0..TickMax, tick' = (tick + 1) % (TickMax + 1), NEW k,
         NEW l, l = list'[k], GoodList(l, Of(k)), \A x : Member(l, x) => Left(x.timeout) # -MaxLate
  PROVE  GoodList(list[k], Of(k))'
<1>1. l \in Seq(Entry(Timers)) /\ Once(l) /\ Sorted(l, ByLeft)
      /\ \A e : Member(l, e) => e.t \in Of(k) /\ Left(e.timeout) < Half
  BY DEF GoodList
<1>2. ASSUME NEW i \in DOMAIN l
      PROVE  /\ l[i] \in Entry(Timers) /\ ByLeft[l[i]] = Left(l[i].timeout)
             /\ Left(l[i].timeout)' = Left(l[i].timeout) - 1
             /\ ByLeft'[l[i]] = Left(l[i].timeout)'
             /\ Left(l[i].timeout) \in Int
  <2>1. l[i] \in Entry(Timers) /\ Member(l, l[i])
    BY <1>1 DEF Member
  <2>2. l[i].timeout \in 0..TickMax /\ Left(l[i].timeout) # -MaxLate
    BY <2>1, EntryLeft
  <2>3. Left(l[i].timeout)' = Left(l[i].timeout) - 1
    BY <2>2, TickLeft
  <2>4. ByLeft'[l[i]] = Left(l[i].timeout)'
    BY <2>1 DEF ByLeft, Entry, Timers
  <2>5. QED BY <2>1, <2>3, <2>4, EntryLeft
<1>3. Sorted(l, ByLeft')
  <2>1. ASSUME NEW i \in DOMAIN l, NEW j \in DOMAIN l, i < j
        PROVE  ByLeft'[l[i]] <= ByLeft'[l[j]]
    <3>1. ByLeft[l[i]] <= ByLeft[l[j]]
      BY <1>1, <2>1 DEF Sorted
    <3>2. QED BY <1>2, <3>1
  <2>2. QED BY <2>1 DEF Sorted
<1>4. \A e : Member(l, e) => e.t \in Of(k) /\ Left(e.timeout)' < Half
  <2>1. ASSUME NEW e, Member(l, e) PROVE e.t \in Of(k) /\ Left(e.timeout)' < Half
    <3>1. PICK i \in DOMAIN l : l[i] = e
      BY <2>1 DEF Member
    <3>2. e.t \in Of(k) /\ Left(e.timeout) < Half /\ Left(e.timeout) \in Int /\ Half \in Int
      BY <1>1, <1>2, <2>1, <3>1, Ranges
    <3>3. Left(e.timeout)' = Left(e.timeout) - 1
      BY <1>2, <3>1
    <3>4. QED BY <3>2, <3>3
  <2>2. QED BY <2>1
<1>5. Once(list'[k]) /\ list'[k] \in Seq(Entry(Timers)) /\ Sorted(list'[k], ByLeft')
  BY <1>1, <1>3
<1>6. \A e : Member(list'[k], e) => e.t \in Of(k) /\ Left(e.timeout)' < Half
  BY <1>4
<1>7. QED BY <1>5, <1>6 DEF GoodList, Once, NoDup, Sorted, Member, Of, Entry, Timers, Half

\* The tick interrupt begins.
LEMMA TickInv ==
  ASSUME IInv, Tick
  PROVE  IInv'
<1>1. /\ VarType /\ OrderInv /\ NotOverslept /\ FlagInv /\ LocalInv /\ RunInv
      /\ tick' = (tick + 1) % (TickMax + 1) /\ isr' = [pc |-> "check", t |-> {}]
      /\ timer' = timer /\ stale' = stale
      /\ sem' = sem /\ list' = list /\ local' = local /\ isr.pc = "none" /\ InTime
  BY DEF IInv, Tick, Advance
<1>11. /\ thr'.pc = thr.pc /\ thr'.t = thr.t /\ thr'.until = thr.until
       /\ thr'.slip = IF Arming THEN thr.slip + 1 ELSE thr.slip
  <2>1. CASE Arming
    <3>1. thr' = [pc |-> "take", t |-> {}, until |-> thr.until, slip |-> thr.slip + 1]
      BY <2>1 DEF Tick, Advance, Moves
    <3>2. thr.pc = "take" /\ thr.t = {}
      BY <1>1, <2>1 DEF Arming, RunInv
    <3>3. QED BY <2>1, <3>1, <3>2
  <2>2. CASE ~Arming
    BY <2>2 DEF Tick, Advance
  <2>3. QED BY <2>1, <2>2
<1>12. ThrType'
  <2>1. ThrType /\ (Arming => thr.slip < MaxLate) /\ MaxLate \in Nat
    BY <1>1, Ranges DEF VarType, InTime
  <2>2. thr'.slip \in 0 .. MaxLate /\ (thr.pc = "delta" => thr'.slip = thr.slip)
    BY <1>11, <2>1 DEF ThrType, Arming
  <2>3. QED BY <1>11, <2>1, <2>2 DEF ThrType, Half
<1>2. /\ tick \in 0..TickMax /\ tick' \in 0..TickMax
      /\ \A a \in 0..TickMax : Left(a) # -MaxLate => Left(a)' = Left(a) - 1
  BY <1>1, TickLeft DEF VarType
<1>3. VarType'
  BY <1>1, <1>2, <1>12 DEF VarType, Of, Kinds, Timers, TimerRec, Entry, Half
<1>4. ASSUME NEW k \in Kinds, NEW x, Member(list[k], x) PROVE Left(x.timeout) # -MaxLate
  <2>1. Expired(list[k]) => Minus(tick, Head(list[k]).timeout) < MaxLate
    BY <1>1 DEF InTime, Kinds
  <2>2. PICK l : l = list[k]
    OBVIOUS
  <2>3. GoodList(l, Of(k)) /\ (Expired(l) => Minus(tick, Head(l).timeout) < MaxLate)
    BY <1>1, <2>1, <2>2 DEF OrderInv
  <2>4. QED BY <1>2, <1>4, <2>2, <2>3, NoneLate
<1>5. OrderInv'
  <2>1. ASSUME NEW k \in Kinds PROVE GoodList(list[k], Of(k))'
    <3>1. PICK l : l = list[k]
      OBVIOUS
    <3>2. GoodList(l, Of(k)) /\ l = list'[k] /\ \A x : Member(l, x) => Left(x.timeout) # -MaxLate
      BY <1>1, <1>4, <3>1 DEF OrderInv
    <3>3. QED BY <1>1, <1>2, <3>2, GoodTick
  <2>2. QED BY <2>1 DEF OrderInv, Kinds, Of
<1>6. FlagInv'
  BY <1>1 DEF FlagInv, Listed, Timers, Kind
<1>7. LocalInv'
  BY <1>1 DEF LocalInv, Timers, Kind
<1>8. RunInv'
  <2>1. isr.t = {} /\ isr'.t = {} /\ isr'.pc = "check"
    BY <1>1 DEF RunInv
  <2>2. \A k \in Kinds : Runs(k)' = Runs(k)
    BY <1>11, <2>1 DEF Runs
  <2>3. QED BY <1>1, <1>11, <2>1, <2>2 DEF RunInv, Kinds
<1>9. NotOverslept'
  <2>1. SUFFICES ASSUME thr.pc \in {"delta", "take", "sleep"}, sem = 0,
                        NEW i \in DOMAIN list["soft"]
                 PROVE  thr.until # Forever
                        /\ WaitLeft' <= Left(list["soft"][i].timeout)' + thr'.slip
    BY <1>1, <1>11 DEF NotOverslept, Forever
  <2>2. PICK u, a, w : u = thr.until /\ a = list["soft"][i].timeout /\ w = WaitLeft
    OBVIOUS
  <2>3. u # Forever /\ w <= Left(a) + thr.slip
    BY <1>1, <2>1, <2>2 DEF NotOverslept
  <2>4. u \in 0..TickMax /\ thr.slip \in Int
    BY <1>1, <2>2, <2>3, Ranges DEF VarType, ThrType
  <2>5. a \in 0..TickMax
    <3>1. list["soft"] \in Seq(Entry(Timers))
      BY <1>1 DEF VarType, Kinds
    <3>2. list["soft"][i] \in Entry(Timers)
      BY <2>1, <3>1
    <3>3. QED BY <1>2, <2>2, <3>2, EntryLeft
  <2>6. Left(a) # -MaxLate
    <3>1. Member(list["soft"], list["soft"][i])
      BY <2>1 DEF Member
    <3>2. "soft" \in Kinds
      BY DEF Kinds
    <3>3. QED BY <1>4, <2>2, <3>1, <3>2
  <2>7. Left(a)' = Left(a) - 1 /\ Left(a) \in Int /\ Left(u) \in Int
    BY <1>2, <2>4, <2>5, <2>6, EntryLeft
  <2>8. Left(list["soft"][i].timeout)' = Left(a)'
    BY <1>1, <2>2 DEF Left
  <2>9. CASE thr.pc = "take"
    <3>1. WaitLeft' = u /\ w = u /\ thr'.slip = thr.slip + 1 /\ u \in Int
      BY <1>11, <2>2, <2>3, <2>4, <2>9, Ranges DEF WaitLeft, Arming
    <3>2. u <= (Left(a) - 1) + (thr.slip + 1)
      BY <2>3, <2>4, <2>7, <3>1
    <3>3. QED BY <2>2, <2>3, <2>7, <2>8, <3>1, <3>2
  <2>10. CASE thr.pc \in {"delta", "sleep"}
    <3>1. Reached(u) => Minus(tick, u) < MaxLate
      BY <1>1, <2>2, <2>3, <2>10 DEF InTime
    <3>2. Left(u) # -MaxLate
      BY <1>2, <2>4, <3>1, LateLeft
    <3>3. Left(u)' = Left(u) - 1
      BY <1>2, <2>4, <3>2
    <3>4. WaitLeft' = Left(u)' /\ w = Left(u) /\ thr'.slip = thr.slip
      <4>1. Left(thr.until)' = Left(u)'
        BY <1>11, <2>2 DEF Left
      <4>2. QED BY <1>11, <2>2, <2>10, <4>1 DEF WaitLeft, Arming
    <3>5. Left(u) - 1 <= (Left(a) - 1) + thr.slip
      BY <2>3, <2>4, <2>7, <3>4
    <3>6. QED BY <2>2, <2>3, <2>7, <2>8, <3>3, <3>4, <3>5
  <2>11. QED BY <2>1, <2>9, <2>10
<1>10. QED BY <1>3, <1>5, <1>6, <1>7, <1>8, <1>9 DEF IInv

-----------------------------------------------------------------------------
(* The check functions.                                                    *)

\* One pass starts: the first timer moves to the local list, which was empty.
LEMMA BeginLists ==
  ASSUME IInv, NEW k \in Kinds, Begin(k), Runs(k) = {}, tick' = tick, stale' = stale,
         NEW t, t = Head(list[k]).t
  PROVE  /\ t \in Of(k) /\ local' = [local EXCEPT ![k] = {t}]
         /\ timer' \in [Timers -> TimerRec]
         /\ list' \in [Kinds -> Seq(Entry(Timers))]
         /\ \A u \in Timers : timer'[u].init \in Times[u]
         /\ OrderInv' /\ FlagInv' /\ LocalInv'
         /\ k = "hard" => list'["soft"] = list["soft"]
<1>1. /\ VarType /\ OrderInv /\ list[k] # <<>>
      /\ list' = [list EXCEPT ![k] = Tail(list[k])]
      /\ local' = [local EXCEPT ![k] = {t}]
      /\ timer' = [timer EXCEPT ![t].proc = TRUE, ![t].act = timer[t].per]
  BY DEF Begin, IInv, Expired
<1>2. /\ timer \in [Timers -> TimerRec] /\ local \in [Kinds -> SUBSET Timers]
      /\ tick \in 0..TickMax /\ list \in [Kinds -> Seq(Entry(Timers))]
  BY <1>1 DEF VarType
<1>3. PICK m : m = list[k]
  OBVIOUS
<1>4. GoodList(m, Of(k)) /\ m # <<>> /\ t = Head(m).t
  BY <1>1, <1>3 DEF OrderInv
<1>5. /\ GoodList(Tail(m), Of(k)) /\ Member(m, Head(m))
      /\ \A x : Member(Tail(m), x) <=> Member(m, x) /\ x.t # t
  BY <1>2, <1>4, GoodTail
<1>6. t \in Of(k) /\ t \in Timers /\ Kind(t) = k
  BY <1>4, <1>5, KindOf DEF GoodList
<1>7. timer[t].init \in Times[t] /\ timer[t] \in TimerRec
  BY <1>1, <1>2, <1>6 DEF VarType
<1>8. /\ timer' \in [Timers -> TimerRec] /\ timer'[t].init \in Times[t]
      /\ timer'[t].proc = TRUE /\ timer'[t].act = timer[t].per /\ timer'[t].per = timer[t].per
      /\ \A u \in Timers \ {t} : timer'[u] = timer[u]
  BY <1>1, <1>2, <1>6, <1>7 DEF TimerRec
<1>9. PICK l : l = Tail(m)
  OBVIOUS
<1>10. /\ GoodList(l, Of(Kind(t))) /\ ~On(l, t) /\ list' = [list EXCEPT ![Kind(t)] = l]
       /\ \A u : u # t => (On(l, u) <=> On(list[Kind(t)], u))
  BY <1>1, <1>3, <1>5, <1>6, <1>9 DEF On
<1>11. /\ \A u \in Timers \ {t} : u \in local'[Kind(u)] <=> u \in local[Kind(u)]
       /\ t \in local'[Kind(t)]
  <2>1. local[k] = {}
    BY DEF IInv, RunInv
  <2>2. local'[k] = {t} /\ \A j \in Kinds : j # k => local'[j] = local[j]
    BY <1>1, <1>2
  <2>3. QED BY <1>6, <2>1, <2>2, KindOf
<1>12. /\ list' \in [Kinds -> Seq(Entry(Timers))]
       /\ \A u \in Timers : timer'[u].init \in Times[u]
       /\ OrderInv' /\ FlagInv' /\ LocalInv'
  BY <1>6, <1>8, <1>10, <1>11, TimerStep
<1>13. k = "hard" => list'["soft"] = list["soft"]
  BY <1>1, <1>2 DEF Kinds
<1>14. QED BY <1>1, <1>6, <1>8, <1>12, <1>13

\* A pass ends: the timer starts again if it is still in the local list,
\* periodic and activated.
LEMMA EndLists ==
  ASSUME IInv, NEW k \in Kinds, NEW t \in Runs(k), End(k, t), tick' = tick, stale' = stale
  PROVE  /\ local' = [local EXCEPT ![k] = {}]
         /\ timer' \in [Timers -> TimerRec]
         /\ list' \in [Kinds -> Seq(Entry(Timers))]
         /\ \A u \in Timers : timer'[u].init \in Times[u]
         /\ OrderInv' /\ FlagInv' /\ LocalInv'
         /\ k = "hard" => list'["soft"] = list["soft"]
<1>1. /\ VarType /\ OrderInv /\ timer' = [timer EXCEPT ![t].proc = FALSE]
      /\ local' = [local EXCEPT ![k] = {}]
      /\ list' = IF Restarts(k, t) THEN [list EXCEPT ![k] = Insert(list[k], t)] ELSE list
  BY DEF End, IInv
<1>2. /\ timer \in [Timers -> TimerRec] /\ local \in [Kinds -> SUBSET Timers]
      /\ tick \in 0..TickMax /\ list \in [Kinds -> Seq(Entry(Timers))]
  BY <1>1 DEF VarType
<1>3. t \in Of(k) /\ t \in Timers /\ Kind(t) = k
  <2>1. Runs(k) \subseteq Of(k)
    BY <1>1 DEF VarType, ThrType, Runs, Of
  <2>2. QED BY <2>1, KindOf
<1>4. timer[t].init \in Times[t] /\ timer[t] \in TimerRec
  BY <1>1, <1>2, <1>3 DEF VarType
<1>5. /\ timer' \in [Timers -> TimerRec] /\ timer'[t].init \in Times[t]
      /\ timer'[t].proc = FALSE /\ timer'[t].act = timer[t].act
      /\ \A u \in Timers \ {t} : timer'[u] = timer[u]
  BY <1>1, <1>2, <1>3, <1>4 DEF TimerRec
<1>6. local[k] \subseteq {t}
  BY DEF IInv, RunInv
<1>7. /\ \A u \in Timers \ {t} : u \in local'[Kind(u)] <=> u \in local[Kind(u)]
      /\ t \notin local'[Kind(t)]
  <2>1. local'[k] = {} /\ \A j \in Kinds : j # k => local'[j] = local[j]
    BY <1>1, <1>2
  <2>2. QED BY <1>3, <1>6, <2>1, KindOf
<1>8. /\ Listed(t) => timer[t].act /\ ~timer[t].proc
      /\ timer[t].act /\ ~timer[t].proc => Listed(t) \/ t \in stale
      /\ t \in local[k] => timer[t].proc
      /\ timer[t].proc /\ timer[t].act => t \in local[k]
      /\ t \in local[k] /\ timer[t].act /\ ~timer[t].per => t \in stale
  BY <1>3 DEF IInv, FlagInv, LocalInv
<1>9. PICK m : m = list[k]
  OBVIOUS
<1>10. GoodList(m, Of(k)) /\ (Listed(t) <=> On(m, t))
  BY <1>1, <1>3, <1>9, ListedOn DEF OrderInv
<1>11. \E l : /\ GoodList(l, Of(k)) /\ list' = [list EXCEPT ![k] = l]
              /\ \A u : u # t => (On(l, u) <=> On(m, u))
              /\ On(l, t) => timer[t].act
              /\ timer[t].act => On(l, t) \/ t \in stale
  <2>1. CASE Restarts(k, t)
    <3>1. list' = [list EXCEPT ![k] = Insert(m, t)] /\ timer[t].act
      BY <1>1, <1>9, <2>1 DEF Restarts
    <3>2. PICK T : T = Of(k)
      OBVIOUS
    <3>3. t \in T /\ T \subseteq Timers /\ GoodList(m, T)
      BY <1>3, <1>10, <3>2, KindOf
    <3>4. GoodList(Insert(m, t), T) /\ \A u : On(Insert(m, t), u) <=> On(m, u) \/ u = t
      BY <1>1, <3>3, GoodInsert
    <3>5. PICK l : l = Insert(m, t)
      OBVIOUS
    <3>6. QED BY <3>1, <3>2, <3>4, <3>5
  <2>2. CASE ~Restarts(k, t)
    <3>1. list' = [list EXCEPT ![k] = m]
      BY <1>1, <1>2, <1>9, <2>2
    <3>2. timer[t].act => On(m, t) \/ t \in stale
      BY <1>8, <1>10, <2>2 DEF Restarts
    <3>3. QED BY <1>8, <1>10, <3>1, <3>2
  <2>3. QED BY <2>1, <2>2
<1>12. PICK l : /\ GoodList(l, Of(k)) /\ list' = [list EXCEPT ![k] = l]
                /\ \A u : u # t => (On(l, u) <=> On(m, u))
                /\ On(l, t) => timer[t].act
                /\ timer[t].act => On(l, t) \/ t \in stale
  BY <1>11
<1>13. /\ list' \in [Kinds -> Seq(Entry(Timers))]
       /\ \A u \in Timers : timer'[u].init \in Times[u]
       /\ OrderInv' /\ FlagInv' /\ LocalInv'
  BY <1>3, <1>5, <1>7, <1>9, <1>12, TimerStep
<1>14. k = "hard" => list'["soft"] = list["soft"]
  BY <1>2, <1>12 DEF Kinds
<1>15. QED BY <1>1, <1>5, <1>13, <1>14

\* The types after a pass has started or ended, with S the new local list.
LEMMA CheckType ==
  ASSUME VarType, NEW k \in Kinds, NEW S, S \subseteq Of(k), local' = [local EXCEPT ![k] = S],
         tick' = tick, sem' = sem, stale' = stale,
         timer' \in [Timers -> TimerRec], \A u \in Timers : timer'[u].init \in Times[u],
         list' \in [Kinds -> Seq(Entry(Timers))],
         isr'.pc \in {"none", "check", "callback"} /\ isr'.t \subseteq Hard,
         ThrType'
  PROVE  VarType' /\ local'[k] = S /\ \A j \in Kinds : j # k => local'[j] = local[j]
<1>1. local \in [Kinds -> SUBSET Timers] /\ \A j \in Kinds : local[j] \subseteq Of(j)
  BY DEF VarType
<1>2. S \subseteq Timers
  BY KindOf
<1>3. local' \in [Kinds -> SUBSET Timers]
  BY <1>1, <1>2
<1>4. local'[k] = S /\ \A j \in Kinds : j # k => local'[j] = local[j]
  BY <1>1
<1>5. \A j \in Kinds : local'[j] \subseteq Of(j)
  BY <1>1, <1>4
<1>6. VarType'
  BY <1>3, <1>5 DEF VarType, Of, Kinds, Timers, TimerRec, Entry, Half, Forever
<1>7. QED BY <1>4, <1>6

\* The tick interrupt runs the callback of the first hard timer.
LEMMA HardBeginInv ==
  ASSUME IInv, HardBegin
  PROVE  IInv'
<1>1. PICK t : t = Head(list["hard"]).t
  OBVIOUS
<1>2. /\ VarType /\ RunInv /\ NotOverslept /\ "hard" \in Kinds
      /\ isr.pc = "check" /\ Begin("hard") /\ isr' = [pc |-> "callback", t |-> {t}]
      /\ tick' = tick /\ sem' = sem /\ thr' = thr /\ stale' = stale
  BY <1>1 DEF IInv, HardBegin, Kinds
<1>3. Runs("hard") = {}
  BY <1>2 DEF RunInv, Runs
<1>4. /\ t \in Of("hard") /\ local' = [local EXCEPT !["hard"] = {t}]
      /\ timer' \in [Timers -> TimerRec]
      /\ list' \in [Kinds -> Seq(Entry(Timers))]
      /\ \A u \in Timers : timer'[u].init \in Times[u]
      /\ OrderInv' /\ FlagInv' /\ LocalInv'
      /\ list'["soft"] = list["soft"]
  BY <1>1, <1>2, <1>3, BeginLists
<1>5. t \in Hard /\ isr'.pc = "callback" /\ isr'.t = {t}
  BY <1>2, <1>4 DEF Of
<1>6. VarType' /\ local'["hard"] = {t} /\ local'["soft"] = local["soft"]
  <2>1. /\ isr'.pc \in {"none", "check", "callback"} /\ isr'.t \subseteq Hard
        /\ ThrType'
    BY <1>2, <1>5, Ranges DEF VarType, ThrType, Forever
  <2>2. PICK S, k : S = {t} /\ k = "hard"
    OBVIOUS
  <2>3. /\ S \subseteq Of(k) /\ k \in Kinds /\ "soft" \in Kinds /\ "soft" # k
        /\ local' = [local EXCEPT ![k] = S]
    BY <1>4, <2>2 DEF Kinds
  <2>4. VarType' /\ local'[k] = S /\ \A j \in Kinds : j # k => local'[j] = local[j]
    BY <1>2, <1>4, <2>1, <2>3, CheckType
  <2>5. QED BY <2>2, <2>3, <2>4
<1>7. RunInv'
  BY <1>2, <1>5, <1>6 DEF RunInv, Runs, Kinds
<1>8. NotOverslept'
  BY <1>2, <1>4, AwakeKept
<1>9. QED BY <1>4, <1>6, <1>7, <1>8 DEF IInv

\* The callback of a hard timer returns.
LEMMA HardEndInv ==
  ASSUME IInv, HardEnd
  PROVE  IInv'
<1>1. PICK t \in isr.t : End("hard", t)
  BY DEF HardEnd
<1>2. /\ VarType /\ RunInv /\ NotOverslept /\ "hard" \in Kinds /\ t \in Runs("hard")
      /\ isr' = [pc |-> "check", t |-> {}]
      /\ tick' = tick /\ sem' = sem /\ thr' = thr /\ stale' = stale
  BY DEF IInv, HardEnd, Kinds, Runs
<1>3. /\ local' = [local EXCEPT !["hard"] = {}]
      /\ timer' \in [Timers -> TimerRec]
      /\ list' \in [Kinds -> Seq(Entry(Timers))]
      /\ \A u \in Timers : timer'[u].init \in Times[u]
      /\ OrderInv' /\ FlagInv' /\ LocalInv'
      /\ list'["soft"] = list["soft"]
  BY <1>1, <1>2, EndLists
<1>4. isr'.pc = "check" /\ isr'.t = {}
  BY <1>2
<1>5. VarType' /\ local'["hard"] = {} /\ local'["soft"] = local["soft"]
  <2>1. /\ isr'.pc \in {"none", "check", "callback"} /\ isr'.t \subseteq Hard
        /\ ThrType'
    BY <1>2, <1>4, Ranges DEF VarType, ThrType, Forever
  <2>2. PICK S, k : S = {} /\ k = "hard"
    OBVIOUS
  <2>3. /\ S \subseteq Of(k) /\ k \in Kinds /\ "soft" \in Kinds /\ "soft" # k
        /\ local' = [local EXCEPT ![k] = S]
    BY <1>3, <2>2 DEF Kinds
  <2>4. VarType' /\ local'[k] = S /\ \A j \in Kinds : j # k => local'[j] = local[j]
    BY <1>2, <1>3, <2>1, <2>3, CheckType
  <2>5. QED BY <2>2, <2>3, <2>4
<1>6. RunInv'
  BY <1>2, <1>4, <1>5 DEF RunInv, Runs, Kinds
<1>7. NotOverslept'
  BY <1>2, <1>3, AwakeKept
<1>8. QED BY <1>3, <1>5, <1>6, <1>7 DEF IInv

\* The timer thread runs the callback of the first soft timer.
LEMMA SoftBeginInv ==
  ASSUME IInv, SoftBegin
  PROVE  IInv'
<1>1. PICK t : t = Head(list["soft"]).t
  OBVIOUS
<1>2. /\ VarType /\ RunInv /\ "soft" \in Kinds
      /\ thr.pc = "check" /\ Begin("soft")
      /\ thr' = [pc |-> "callback", t |-> {t}, until |-> Forever, slip |-> 0]
      /\ tick' = tick /\ sem' = sem /\ isr' = isr /\ stale' = stale
  BY <1>1 DEF IInv, SoftBegin, Kinds, Run, Goto, Moves
<1>3. Runs("soft") = {}
  BY <1>2 DEF RunInv, Runs
<1>4. /\ t \in Of("soft") /\ local' = [local EXCEPT !["soft"] = {t}]
      /\ timer' \in [Timers -> TimerRec]
      /\ list' \in [Kinds -> Seq(Entry(Timers))]
      /\ \A u \in Timers : timer'[u].init \in Times[u]
      /\ OrderInv' /\ FlagInv' /\ LocalInv'
  BY <1>1, <1>2, <1>3, BeginLists
<1>5. t \in Soft /\ thr'.pc = "callback" /\ thr'.t = {t} /\ thr'.until = Forever /\ thr'.slip = 0
  BY <1>2, <1>4 DEF Of
<1>6. VarType' /\ local'["soft"] = {t} /\ local'["hard"] = local["hard"]
  <2>1. /\ isr'.pc \in {"none", "check", "callback"} /\ isr'.t \subseteq Hard
        /\ ThrType'
    BY <1>2, <1>5, Ranges DEF VarType, ThrType, Forever
  <2>2. PICK S, k : S = {t} /\ k = "soft"
    OBVIOUS
  <2>3. /\ S \subseteq Of(k) /\ k \in Kinds /\ "hard" \in Kinds /\ "hard" # k
        /\ local' = [local EXCEPT ![k] = S]
    BY <1>4, <2>2 DEF Kinds
  <2>4. VarType' /\ local'[k] = S /\ \A j \in Kinds : j # k => local'[j] = local[j]
    BY <1>2, <1>4, <2>1, <2>3, CheckType
  <2>5. QED BY <2>2, <2>3, <2>4
<1>7. RunInv'
  BY <1>2, <1>5, <1>6 DEF RunInv, Runs, Kinds
<1>8. NotOverslept'
  BY <1>5 DEF NotOverslept
<1>9. QED BY <1>4, <1>6, <1>7, <1>8 DEF IInv

\* The callback of a soft timer returns.
LEMMA SoftEndInv ==
  ASSUME IInv, SoftEnd
  PROVE  IInv'
<1>1. PICK t \in thr.t : End("soft", t)
  BY DEF SoftEnd
<1>2. /\ VarType /\ RunInv /\ "soft" \in Kinds /\ t \in Runs("soft")
      /\ thr' = [pc |-> "check", t |-> {}, until |-> Forever, slip |-> 0]
      /\ tick' = tick /\ sem' = sem /\ isr' = isr /\ stale' = stale
  BY DEF IInv, SoftEnd, Kinds, Runs, Goto, Moves
<1>3. /\ local' = [local EXCEPT !["soft"] = {}]
      /\ timer' \in [Timers -> TimerRec]
      /\ list' \in [Kinds -> Seq(Entry(Timers))]
      /\ \A u \in Timers : timer'[u].init \in Times[u]
      /\ OrderInv' /\ FlagInv' /\ LocalInv'
  BY <1>1, <1>2, EndLists
<1>4. thr'.pc = "check" /\ thr'.t = {} /\ thr'.until = Forever /\ thr'.slip = 0
  BY <1>2
<1>5. VarType' /\ local'["soft"] = {} /\ local'["hard"] = local["hard"]
  <2>1. /\ isr'.pc \in {"none", "check", "callback"} /\ isr'.t \subseteq Hard
        /\ ThrType'
    BY <1>2, <1>4, Ranges DEF VarType, ThrType, Forever
  <2>2. PICK S, k : S = {} /\ k = "soft"
    OBVIOUS
  <2>3. /\ S \subseteq Of(k) /\ k \in Kinds /\ "hard" \in Kinds /\ "hard" # k
        /\ local' = [local EXCEPT ![k] = S]
    BY <1>3, <2>2 DEF Kinds
  <2>4. VarType' /\ local'[k] = S /\ \A j \in Kinds : j # k => local'[j] = local[j]
    BY <1>2, <1>3, <2>1, <2>3, CheckType
  <2>5. QED BY <2>2, <2>3, <2>4
<1>6. RunInv'
  BY <1>2, <1>4, <1>5 DEF RunInv, Runs, Kinds
<1>7. NotOverslept'
  BY <1>4 DEF NotOverslept
<1>8. QED BY <1>3, <1>5, <1>6, <1>7 DEF IInv

\* The timers and the lists stay as they are, as do the callbacks that run.
LEMMA SameTimers ==
  ASSUME IInv, UNCHANGED <<tick, timer, list, local, stale>>, sem' \in {0, 1},
         isr'.t = isr.t, isr'.pc \in {"none", "check", "callback"},
         isr'.pc # "callback" => isr.t = {},
         thr'.t = thr.t, thr'.pc # "callback" => thr.t = {}, ThrType'
  PROVE  VarType' /\ OrderInv' /\ FlagInv' /\ LocalInv' /\ RunInv'
<1>1. /\ VarType /\ OrderInv /\ FlagInv /\ LocalInv /\ RunInv
      /\ tick' = tick /\ timer' = timer /\ stale' = stale /\ list' = list /\ local' = local
  BY DEF IInv
<1>2. VarType'
  BY <1>1 DEF VarType, Of, Kinds, Timers, TimerRec, Entry, Half, Forever
<1>3. OrderInv'
  <2>1. ASSUME NEW k \in Kinds PROVE GoodList(list[k], Of(k))'
    <3>1. PICK l : l = list[k]
      OBVIOUS
    <3>2. GoodList(l, Of(k)) /\ l = list'[k]
      BY <1>1, <3>1 DEF OrderInv
    <3>3. QED BY <1>1, <3>2, GoodNext
  <2>2. QED BY <2>1 DEF OrderInv, Kinds, Of
<1>4. FlagInv'
  BY <1>1 DEF FlagInv, Listed, Timers, Kind
<1>5. LocalInv'
  BY <1>1 DEF LocalInv, Timers, Kind
<1>6. RunInv'
  BY <1>1 DEF RunInv, Runs, Kinds
<1>7. QED BY <1>2, <1>3, <1>4, <1>5, <1>6

\* rt_timer_check ends.
LEMMA HardDoneInv ==
  ASSUME IInv, HardDone
  PROVE  IInv'
<1>1. /\ isr.pc = "check" /\ isr' = [pc |-> "none", t |-> {}]
      /\ UNCHANGED <<tick, timer, list, local, stale>> /\ sem' = sem /\ thr' = thr
  BY DEF HardDone
<1>2. /\ isr.t = {} /\ isr'.t = {} /\ isr'.pc = "none" /\ sem' \in {0, 1}
      /\ ThrType' /\ (thr.pc # "callback" => thr.t = {})
  BY <1>1 DEF IInv, VarType, RunInv, ThrType, Half
<1>3. VarType' /\ OrderInv' /\ FlagInv' /\ LocalInv' /\ RunInv'
  BY <1>1, <1>2, SameTimers
<1>4. NotOverslept'
  BY <1>1, AwakeKept DEF IInv
<1>5. QED BY <1>3, <1>4 DEF IInv

\* The timer thread goes from one point without a callback to another.
LEMMA GotoInv ==
  ASSUME IInv, ThrType', thr'.t = {}, thr.pc # "callback", sem' \in {0, 1},
         UNCHANGED <<tick, timer, list, local, isr, stale>>
  PROVE  VarType' /\ OrderInv' /\ FlagInv' /\ LocalInv' /\ RunInv'
<1>1. /\ thr.t = {} /\ isr' = isr
      /\ isr.pc \in {"none", "check", "callback"} /\ (isr.pc # "callback" => isr.t = {})
  BY DEF IInv, VarType, RunInv
<1>2. QED BY <1>1, SameTimers

\* A waiting time below half the range, counted from now.
LEMMA WaitFrom ==
  ASSUME NEW d \in 0 .. Half - 1, tick \in 0..TickMax, NEW b, b = (tick + d) % (TickMax + 1)
  PROVE  b \in 0..TickMax /\ Left(b) = d
<1>1. /\ TickMax \in Nat /\ MaxLate \in Nat /\ Half \in Nat /\ N \in Nat \ {0} /\ N = TickMax + 1
      /\ 2 * Half < N /\ MaxLate < Half
  BY Ranges
<1>2. PICK x \in Int : x = tick + d
  BY <1>1
<1>3. b = Mod(x)
  BY <1>2, TickForms
<1>4. b \in 0..TickMax /\ (b = tick + d \/ b = tick + d - N)
  <2>1. -N <= x /\ x < 2 * N
    BY <1>1, <1>2
  <2>2. Mod(x) \in 0..(N - 1) /\ (Mod(x) = x \/ Mod(x) = x + N \/ Mod(x) = x - N)
    BY <2>1, ModN
  <2>3. QED BY <1>1, <1>2, <1>3, <2>2
<1>5. /\ Left(b) \in (-MaxLate)..(TickMax - MaxLate)
      /\ \/ Left(b) = b - tick \/ Left(b) = b - tick + N \/ Left(b) = b - tick - N
  BY <1>4, TickArith
<1>6. QED BY <1>1, <1>4, <1>5

\* The waiting time of a tick ahead is the time left until it.
LEMMA DeltaLeft ==
  ASSUME NEW u \in 0..TickMax, tick \in 0..TickMax, Minus(u, tick) < Half
  PROVE  Minus(u, tick) \in 0 .. Half - 1 /\ Minus(u, tick) = Left(u)
<1>1. /\ TickMax \in Nat /\ MaxLate \in Nat /\ Half \in Nat /\ N \in Nat \ {0} /\ N = TickMax + 1
      /\ 2 * Half < N /\ MaxLate < Half
  BY Ranges
<1>2. /\ Minus(u, tick) = IF u >= tick THEN u - tick ELSE u - tick + N
      /\ Left(u) \in (-MaxLate)..(TickMax - MaxLate)
      /\ \/ Left(u) = u - tick \/ Left(u) = u - tick + N \/ Left(u) = u - tick - N
  BY TickArith
<1>3. QED BY <1>1, <1>2

\* _timer_list_next_timeout: the first entry of an ordered list is the one
\* with the least time left.
LEMMA GetNextInv ==
  ASSUME IInv, GetNext
  PROVE  IInv'
<1>1. PICK l : l = list["soft"]
  OBVIOUS
<1>2. /\ thr.pc = "next" /\ UNCHANGED <<tick, timer, list, local, isr, stale>> /\ sem' = sem
      /\ list' = list /\ tick' = tick /\ thr'.t = {} /\ thr'.slip = 0
      /\ l = <<>> => thr'.pc = "take" /\ thr'.until = Forever
      /\ l # <<>> => thr'.pc = "delta" /\ thr'.until = Head(l).timeout
  BY <1>1 DEF GetNext, Run, Goto, Moves
<1>3. GoodList(l, Of("soft")) /\ tick \in 0..TickMax /\ sem' \in {0, 1}
  BY <1>1, <1>2 DEF IInv, OrderInv, VarType, Kinds
<1>4. l # <<>> => Head(l) \in Entry(Timers) /\ \A x : Member(l, x) => Left(Head(l).timeout) <= Left(x.timeout)
  BY <1>3, GoodTail
<1>5. l # <<>> => Head(l).timeout \in 0..TickMax /\ Head(l).timeout # Forever
  <2>1. \A a \in 0..TickMax : a # Forever
    BY Ranges DEF Forever
  <2>2. QED BY <1>3, <1>4, <2>1, EntryLeft
<1>6. ThrType'
  <2>1. CASE l = <<>>
    BY <1>2, <2>1, Ranges DEF ThrType, Forever
  <2>2. CASE l # <<>>
    BY <1>2, <1>5, <2>2, Ranges DEF ThrType
  <2>3. QED BY <2>1, <2>2
<1>7. VarType' /\ OrderInv' /\ FlagInv' /\ LocalInv' /\ RunInv'
  BY <1>2, <1>3, <1>6, GotoInv
<1>8. NotOverslept'
  <2>1. \A a : Left(a)' = Left(a)
    BY <1>2 DEF Left, Minus
  <2>2. SUFFICES ASSUME NEW i \in DOMAIN l
                 PROVE  thr'.until # Forever /\ WaitLeft' <= Left(l[i].timeout) + thr'.slip
    BY <1>1, <1>2, <2>1 DEF NotOverslept, Forever
  <2>3. l # <<>> /\ Member(l, l[i])
    BY <2>2 DEF Member
  <2>4. PICK h, a : h = Head(l).timeout /\ a = l[i].timeout
    OBVIOUS
  <2>5. h # Forever /\ h \in 0..TickMax /\ Left(h) <= Left(a)
    BY <1>4, <1>5, <2>3, <2>4
  <2>6. l[i] \in Entry(Timers)
    BY <1>3, <2>3 DEF GoodList, Member
  <2>7. Left(h) \in Int /\ Left(a) \in Int
    BY <1>3, <2>4, <2>5, <2>6, EntryLeft
  <2>8. WaitLeft' = Left(h)
    <3>1. thr'.pc = "delta" /\ thr'.until = h
      BY <1>2, <2>3, <2>4
    <3>2. Left(thr.until)' = Left(h)'
      BY <3>1 DEF Left
    <3>3. QED BY <2>1, <3>1, <3>2 DEF WaitLeft
  <2>9. Left(h) <= Left(a) + 0
    BY <2>5, <2>7
  <2>10. QED BY <1>2, <2>3, <2>4, <2>5, <2>8, <2>9
<1>9. QED BY <1>7, <1>8 DEF IInv

\* The waiting time is computed.
LEMMA DeltaInv ==
  ASSUME IInv, Delta
  PROVE  IInv'
<1>1. PICK u, d : u = thr.until /\ d = Minus(thr.until, tick)
  OBVIOUS
<1>2. /\ thr.pc = "delta" /\ UNCHANGED <<tick, timer, list, local, isr, stale>>
      /\ list' = list /\ tick' = tick /\ sem' = sem /\ thr'.t = {} /\ thr'.slip = 0
      /\ \/ d < Half /\ thr'.pc = "take" /\ thr'.until = d
         \/ thr'.pc = "check" /\ thr'.until = Forever
  BY <1>1 DEF Delta, Run, Goto, Moves
<1>3. /\ u \in 0 .. TickMax /\ tick \in 0..TickMax /\ sem' \in {0, 1} /\ thr.slip = 0
      /\ u # Forever
  BY <1>1, <1>2 DEF IInv, VarType, ThrType
<1>4. d < Half => d \in 0 .. Half - 1 /\ d = Left(u)
  BY <1>1, <1>3, DeltaLeft
<1>5. d < Half => d \in 0..TickMax /\ d # Forever
  BY <1>4, Ranges DEF Forever
<1>6. ThrType'
  <2>1. 0 \in 0..MaxLate
    BY Ranges
  <2>2. QED BY <1>2, <1>5, <2>1 DEF ThrType, Half
<1>7. VarType' /\ OrderInv' /\ FlagInv' /\ LocalInv' /\ RunInv'
  BY <1>2, <1>3, <1>6, GotoInv
<1>8. NotOverslept'
  <2>1. \A a : Left(a)' = Left(a)
    BY <1>2 DEF Left, Minus
  <2>2. SUFFICES ASSUME thr'.pc = "take", sem = 0, NEW i \in DOMAIN list["soft"]
                 PROVE  /\ thr'.until # Forever
                        /\ thr'.until <= Left(list["soft"][i].timeout) + thr'.slip
    BY <1>2, <2>1 DEF NotOverslept, WaitLeft, Forever
  <2>3. d < Half /\ thr'.until = d
    BY <1>2, <2>2
  <2>4. WaitLeft = Left(u) /\ WaitLeft <= Left(list["soft"][i].timeout) + thr.slip
    BY <1>1, <1>2, <2>2 DEF IInv, NotOverslept, WaitLeft
  <2>5. QED BY <1>2, <1>3, <1>4, <1>5, <2>3, <2>4
<1>9. QED BY <1>7, <1>8 DEF IInv

\* rt_sem_take: the timer thread goes to sleep only with no release pending.
LEMMA TakeInv ==
  ASSUME IInv, Take
  PROVE  IInv'
<1>1. PICK u, b : u = thr.until /\ b = (tick + thr.until) % (TickMax + 1)
  OBVIOUS
<1>2. /\ thr.pc = "take" /\ UNCHANGED <<tick, timer, list, local, isr, stale>>
      /\ list' = list /\ tick' = tick /\ sem' = 0 /\ thr'.t = {}
      /\ \/ thr'.pc = "check" /\ thr'.until = Forever /\ thr'.slip = 0
         \/ /\ thr'.pc = "sleep" /\ sem # 1 /\ thr'.slip = thr.slip
            /\ thr'.until = IF u = Forever THEN Forever ELSE b
  BY <1>1 DEF Take, Run, Goto, Moves
<1>3. /\ u \in 0 .. TickMax \union {Forever} /\ u < Half /\ tick \in 0..TickMax
      /\ sem \in {0, 1} /\ sem' \in {0, 1} /\ thr.slip \in 0..MaxLate
  BY <1>1, <1>2 DEF IInv, VarType, ThrType
<1>4. u # Forever => u \in 0 .. Half - 1
  BY <1>3, Ranges
<1>5. u # Forever => b \in 0..TickMax /\ Left(b) = u
  BY <1>1, <1>3, <1>4, WaitFrom
<1>6. ThrType'
  <2>1. 0 \in 0..MaxLate
    BY Ranges
  <2>2. QED BY <1>2, <1>3, <1>5, <2>1 DEF ThrType
<1>7. VarType' /\ OrderInv' /\ FlagInv' /\ LocalInv' /\ RunInv'
  BY <1>2, <1>3, <1>6, GotoInv
<1>8. NotOverslept'
  <2>1. \A a : Left(a)' = Left(a)
    BY <1>2 DEF Left, Minus
  <2>2. SUFFICES ASSUME thr'.pc = "sleep", NEW i \in DOMAIN list["soft"]
                 PROVE  /\ thr'.until # Forever
                        /\ WaitLeft' <= Left(list["soft"][i].timeout) + thr'.slip
    BY <1>2, <2>1 DEF NotOverslept, Forever
  <2>3. sem = 0 /\ thr'.slip = thr.slip /\ thr'.until = IF u = Forever THEN Forever ELSE b
    BY <1>2, <1>3, <2>2
  <2>4. u # Forever /\ u <= Left(list["soft"][i].timeout) + thr.slip
    BY <1>1, <1>2, <2>2, <2>3 DEF IInv, NotOverslept, WaitLeft
  <2>5. thr'.until = b /\ b # Forever
    <3>1. \A a \in 0..TickMax : a # Forever
      BY Ranges DEF Forever
    <3>2. QED BY <1>5, <2>3, <2>4, <3>1
  <2>6. WaitLeft' = Left(b)
    <3>1. Left(thr.until)' = Left(b)'
      BY <2>5 DEF Left
    <3>2. QED BY <2>1, <2>2, <3>1 DEF WaitLeft
  <2>7. QED BY <1>5, <2>3, <2>4, <2>5, <2>6
<1>9. QED BY <1>7, <1>8 DEF IInv

\* The timer thread wakes up, or has run all that had expired.
LEMMA ResumeInv ==
  ASSUME IInv, Wake \/ SoftDone
  PROVE  IInv'
<1>1. \E p \in {"check", "next"} :
        /\ thr' = [pc |-> p, t |-> {}, until |-> Forever, slip |-> 0] /\ thr.pc # "callback"
        /\ UNCHANGED <<tick, timer, list, local, isr, stale>> /\ sem' \in {sem, 0}
  BY DEF Wake, SoftDone, Run, Goto, Moves
<1>2. PICK p \in {"check", "next"} :
        /\ thr' = [pc |-> p, t |-> {}, until |-> Forever, slip |-> 0] /\ thr.pc # "callback"
        /\ UNCHANGED <<tick, timer, list, local, isr, stale>> /\ sem' \in {sem, 0}
  BY <1>1
<1>3. ThrType' /\ sem' \in {0, 1} /\ thr'.t = {} /\ thr'.pc # "callback"
  BY <1>2, Ranges DEF IInv, VarType, ThrType
<1>4. VarType' /\ OrderInv' /\ FlagInv' /\ LocalInv' /\ RunInv'
  BY <1>2, <1>3, GotoInv
<1>5. NotOverslept'
  BY <1>2 DEF NotOverslept
<1>6. QED BY <1>4, <1>5 DEF IInv

-----------------------------------------------------------------------------
(* The invariant and what it implies.                                      *)

\* Nothing is started at first.
LEMMA InitInv == Init => IInv
<1> SUFFICES ASSUME Init PROVE IInv
  OBVIOUS
<1>1. /\ tick = 0 /\ list = [k \in Kinds |-> <<>>] /\ local = [k \in Kinds |-> {}] /\ sem = 0
      /\ isr = [pc |-> "none", t |-> {}] /\ thr = [pc |-> "next", t |-> {}, until |-> Forever, slip |-> 0]
      /\ stale = {}
  BY DEF Init, Kinds
<1>2. /\ timer \in [Timers -> TimerRec] /\ \A t \in Timers : timer[t].init \in Times[t]
      /\ \A t \in Timers : ~timer[t].act /\ ~timer[t].proc
  BY DEF Init, TimerRec
<1>3. \A k \in Kinds : list[k] = <<>> /\ local[k] = {}
  BY <1>1
<1>4. list \in [Kinds -> Seq(Entry(Timers))] /\ local \in [Kinds -> SUBSET Timers]
  BY <1>1
<1>5. VarType
  <2>1. 0 \in 0..TickMax
    BY Ranges
  <2>2. ThrType
    BY <1>1, Ranges DEF ThrType
  <2>3. QED BY <1>1, <1>2, <1>3, <1>4, <2>1, <2>2 DEF VarType
<1>6. OrderInv
  <2>1. \A x : ~Member(<<>>, x)
    BY DEF Member
  <2>2. <<>> \in Seq(Entry(Timers)) /\ NoDup(<<>>) /\ Sorted(<<>>, ByLeft)
    BY DEF NoDup, Sorted
  <2>3. QED BY <1>3, <2>1, <2>2 DEF OrderInv, GoodList, Once
<1>7. FlagInv
  <2>1. \A t \in Timers : ~Listed(t)
    BY <1>3, KindOf DEF Listed
  <2>2. QED BY <1>2, <2>1 DEF FlagInv
<1>8. LocalInv
  BY <1>2, <1>3, KindOf DEF LocalInv
<1>9. RunInv
  BY <1>1, <1>3 DEF RunInv, Runs
<1>10. NotOverslept
  BY <1>1 DEF NotOverslept
<1>11. QED BY <1>5, <1>6, <1>7, <1>8, <1>9, <1>10 DEF IInv

\* A function thread, interrupt or callback calls.
LEMMA CallInv ==
  ASSUME IInv, NEW t \in Timers, Call(t)
  PROVE  IInv'
<1>1. CASE rt_timer_start(t)
  BY <1>1, StartInv
<1>2. CASE rt_timer_stop(t)
  BY <1>2, StopInv
<1>3. CASE Reinit(t)
  BY <1>3, ReinitInv
<1>4. CASE \E d \in Times[t] : SetTime(t, d)
  BY <1>4, SetTimeInv
<1>5. CASE \E b \in BOOLEAN : SetPeriodic(t, b)
  BY <1>5, SetPeriodicInv
<1>6. QED BY <1>1, <1>2, <1>3, <1>4, <1>5 DEF Call

\* Every step keeps the invariant.
LEMMA NextInv == IInv /\ [Next]_vars => IInv'
<1> SUFFICES ASSUME IInv, [Next]_vars PROVE IInv'
  OBVIOUS
<1>1. CASE UNCHANGED vars
  BY <1>1, StutterInv
<1>2. CASE Interrupt
  <2>1. CASE Tick
    BY <2>1, TickInv
  <2>2. CASE HardBegin
    BY <2>2, HardBeginInv
  <2>3. CASE HardEnd
    BY <2>3, HardEndInv
  <2>4. CASE HardDone
    BY <2>4, HardDoneInv
  <2>5. QED BY <1>2, <2>1, <2>2, <2>3, <2>4 DEF Interrupt
<1>3. CASE TimerThread
  <2>1. CASE GetNext
    BY <2>1, GetNextInv
  <2>2. CASE Delta \/ Take
    BY <2>2, DeltaInv, TakeInv
  <2>3. CASE Wake \/ SoftDone
    BY <2>3, ResumeInv
  <2>4. CASE SoftBegin
    BY <2>4, SoftBeginInv
  <2>5. CASE SoftEnd
    BY <2>5, SoftEndInv
  <2>6. QED BY <1>3, <2>1, <2>2, <2>3, <2>4, <2>5 DEF TimerThread
<1>4. ASSUME NEW t \in Timers, Call(t) PROVE IInv'
  BY <1>4, CallInv
<1>5. QED BY <1>1, <1>2, <1>3, <1>4 DEF Next

\* A sequence of elements that all are in a smaller set.
LEMMA SeqInto ==
  ASSUME NEW S, NEW T, NEW l \in Seq(S), \A x : Member(l, x) => x \in T
  PROVE  l \in Seq(T)
<1>1. Len(l) \in Nat /\ l \in [1..Len(l) -> S] /\ DOMAIN l = 1..Len(l)
  OBVIOUS
<1>2. \A i \in 1..Len(l) : l[i] \in T
  BY <1>1 DEF Member
<1>3. l \in [1..Len(l) -> T]
  BY <1>1, <1>2
<1>4. QED BY <1>1, <1>3, SeqDef

\* The list of a kind has entries for the timers of that kind only.
LEMMA InvType == IInv => TypeOK
<1> SUFFICES ASSUME IInv PROVE TypeOK
  OBVIOUS
<1>1. VarType /\ "hard" \in Kinds /\ "soft" \in Kinds /\ Of("hard") = Hard /\ Of("soft") = Soft
  BY DEF IInv, Kinds, Of
<1>2. ASSUME NEW k \in Kinds PROVE list[k] \in Seq(Entry(Of(k)))
  <2>1. PICK l : l = list[k]
    OBVIOUS
  <2>2. GoodList(l, Of(k))
    BY <2>1 DEF IInv, OrderInv
  <2>3. l \in Seq(Entry(Timers)) /\ \A x : Member(l, x) => x.t \in Of(k)
    BY <2>2 DEF GoodList
  <2>4. \A x : Member(l, x) => x \in Entry(Of(k))
    <3>1. ASSUME NEW x, Member(l, x) PROVE x \in Entry(Of(k))
      <4>1. x \in Entry(Timers) /\ x.t \in Of(k)
        BY <2>3, <3>1 DEF Member
      <4>2. QED BY <4>1 DEF Entry
    <3>2. QED BY <3>1
  <2>5. QED BY <2>1, <2>3, <2>4, SeqInto
<1>3. list["hard"] \in Seq(Entry(Hard)) /\ list["soft"] \in Seq(Entry(Soft))
  BY <1>1, <1>2
<1>4. local["hard"] \subseteq Hard /\ local["soft"] \subseteq Soft
  BY <1>1 DEF VarType
<1>5. QED BY <1>1, <1>3, <1>4 DEF VarType, ThrType, TypeOK, TimerRec

\* A timer has at most one entry, so its places are none or one.
LEMMA InvListExact == IInv => ListExact
<1> SUFFICES ASSUME IInv PROVE ListExact
  OBVIOUS
<1>1. ASSUME NEW t \in Timers
      PROVE  /\ Cardinality(Places(t)) <= 1
             /\ Places(t) # {} => timer[t].act /\ ~timer[t].proc
             /\ timer[t].act /\ ~timer[t].proc => Places(t) # {} \/ t \in stale
  <2>1. Places(t) # {} <=> Listed(t)
    BY DEF Places, Listed
  <2>2. PICK l : l = list[Kind(t)]
    OBVIOUS
  <2>3. Once(l)
    BY <2>2, KindOf DEF IInv, OrderInv, GoodList
  <2>4. \A i, j \in Places(t) : i = j
    <3>1. ASSUME NEW i \in Places(t), NEW j \in Places(t) PROVE i = j
      <4>1. i \in DOMAIN l /\ j \in DOMAIN l /\ l[i].t = l[j].t
        BY <2>2, <3>1 DEF Places
      <4>2. Member(l, l[i]) /\ Member(l, l[j])
        BY <4>1 DEF Member
      <4>3. l[i] = l[j]
        BY <2>3, <4>1, <4>2 DEF Once
      <4>4. QED BY <2>3, <4>1, <4>3 DEF Once, NoDup
    <3>2. QED BY <3>1
  <2>5. Cardinality(Places(t)) <= 1
    <3>1. CASE Places(t) = {}
      BY <3>1, FS_EmptySet
    <3>2. CASE Places(t) # {}
      <4>1. PICK i : Places(t) = {i}
        BY <2>4, <3>2
      <4>2. Cardinality({i}) = 1
        BY FS_Singleton
      <4>3. QED BY <4>1, <4>2
    <3>3. QED BY <3>1, <3>2
  <2>6. QED BY <2>1, <2>5 DEF IInv, FlagInv
<1>2. local["hard"] \subseteq isr.t /\ local["soft"] \subseteq thr.t
  BY DEF IInv, RunInv, Runs, Kinds
<1>3. \A k \in Kinds : \A t \in local[k] : timer[t].proc
  <2>1. ASSUME NEW k \in Kinds, NEW t \in local[k] PROVE timer[t].proc
    <3>1. t \in Of(k)
      BY <2>1 DEF IInv, VarType
    <3>2. t \in Timers /\ Kind(t) = k
      BY <3>1, KindOf
    <3>3. QED BY <2>1, <3>2 DEF IInv, LocalInv
  <2>2. QED BY <2>1
<1>4. QED BY <1>1, <1>2, <1>3 DEF ListExact, Kinds

\* The order of the lists is that of the time left.
LEMMA InvOrdered == IInv => Ordered
<1> SUFFICES ASSUME IInv, NEW k \in Kinds, NEW i \in DOMAIN list[k], NEW j \in DOMAIN list[k]
             PROVE  /\ i < j => Left(list[k][i].timeout) <= Left(list[k][j].timeout)
                    /\ Left(list[k][i].timeout) < Half
  BY DEF Ordered, Kinds
<1>1. PICK l : l = list[k]
  OBVIOUS
<1>2. GoodList(l, Of(k)) /\ tick \in 0..TickMax /\ i \in DOMAIN l /\ j \in DOMAIN l
  BY <1>1 DEF IInv, OrderInv, VarType
<1>3. l[i] \in Entry(Timers) /\ l[j] \in Entry(Timers) /\ Member(l, l[i])
  BY <1>2 DEF GoodList, Member
<1>4. ByLeft[l[i]] = Left(l[i].timeout) /\ ByLeft[l[j]] = Left(l[j].timeout)
  BY <1>2, <1>3, EntryLeft
<1>5. i < j => ByLeft[l[i]] <= ByLeft[l[j]]
  BY <1>2 DEF GoodList, Sorted
<1>6. Left(l[i].timeout) < Half
  BY <1>2, <1>3 DEF GoodList
<1>7. QED BY <1>1, <1>4, <1>5, <1>6

-----------------------------------------------------------------------------
(* The theorems.                                                           *)

\* The invariant that all of the following need, of timer.c as a whole.
THEOREM TimerInvariant == Spec => []IInv
BY InitInv, NextInv, PTL DEF Spec

\* The variables of timer.c keep their types: an entry is only ever in the
\* list of its timer's kind.
THEOREM TimerTypeCorrect == Spec => []TypeOK
BY TimerInvariant, InvType, PTL

\* Whatever is started, stopped, changed or detached before, during and after
\* callbacks, a timer is in its list exactly when it is activated and its
\* callback does not run, and there once.
THEOREM TimerListExact == Spec => []ListExact
BY TimerInvariant, InvListExact, PTL

\* _timer_list and _soft_timer_list stay ordered when ticks wrap around, as
\* long as no due timer waits for its callback longer than MaxLate.
THEOREM TimerOrdered == Spec => []Ordered
BY TimerInvariant, InvOrdered, PTL

\* The timer thread never waits for longer than the first soft timer allows
\* and the ticks that came between the computing of its waiting time and
\* rt_sem_take, unless _soft_timer_sem has been released to wake it.
THEOREM TimerNotOverslept == Spec => []NotOverslept
<1>1. IInv => NotOverslept
  BY DEF IInv
<1>2. QED BY <1>1, TimerInvariant, PTL

-----------------------------------------------------------------------------
(* The poll timer of the external hub.                                     *)

\* The entries of the soft timer list, the states of the hub thread, and
\* those of an event of the external hub.
IntEntry == [t : {IntTimer}, timeout : Int]
ExtEvent == {"ext", "status", "clear", "work", "child", "stuck", "end"}
HubPc == ExtEvent \union {"recv", "root", "debounce", "reset", "enabled", "enum"}

\* The timer and the timer thread: the timer is one-shot, and it is in its
\* list, once, or runs its callback, or neither.
TimerInv ==
  /\ tick \in Int
  /\ timer \in [{IntTimer} -> [act : BOOLEAN, per : {FALSE}, proc : BOOLEAN, init : Int]]
  /\ list \in [{"hard", "soft"} -> Seq(IntEntry)] /\ Len(list["soft"]) <= 1
  /\ timer[IntTimer].act <=> list["soft"] # <<>>
  /\ timer[IntTimer].proc <=> thr.pc = "callback"
  /\ ~(timer[IntTimer].act /\ timer[IntTimer].proc)
  /\ thr.pc = "callback" => thr.t = {IntTimer}

\* The types of the hub's variables.
HubType ==
  /\ hub \in BOOLEAN /\ sub \in BOOLEAN /\ urb \in {"idle", "busy"}
  /\ mq \in Seq({"root", "ext"}) /\ ht \in HubPc

\* Messages of the external hub.
HasExt(q) == \E i \in DOMAIN q : q[i] = "ext"
OneExt(q) == \A i, j \in DOMAIN q : q[i] = "ext" /\ q[j] = "ext" => i = j

\* The links of the chain.
Armed == timer[IntTimer].act
Calls == timer[IntTimer].proc /\ ~sub
Busy == urb = "busy"
Told == HasExt(mq)
Event == ht \in ExtEvent

\* Exactly one, or none, of five.
One(a, b, c, d, e) ==
  \/ a /\ ~b /\ ~c /\ ~d /\ ~e
  \/ ~a /\ b /\ ~c /\ ~d /\ ~e
  \/ ~a /\ ~b /\ c /\ ~d /\ ~e
  \/ ~a /\ ~b /\ ~c /\ d /\ ~e
  \/ ~a /\ ~b /\ ~c /\ ~d /\ e
None(a, b, c, d, e) == ~a /\ ~b /\ ~c /\ ~d /\ ~e

\* A hub that is gone has neither timer nor URB nor event; one that is
\* connected has one link of the chain under way, and at most one message.
ChainInv ==
  /\ ~hub => ~Armed /\ ~Busy /\ ht \notin {"status", "clear", "work", "child", "end"}
  /\ ht = "enum" => ~hub
  /\ hub /\ stop = {} => One(Armed, Calls, Busy, Told, Event) /\ OneExt(mq)
  /\ hub /\ stop # {} /\ "late" \notin stop => None(Armed, Calls, Busy, Told, Event)
  /\ hub /\ stop = {"late"} => ~None(Armed, Calls, Busy, Told, Event)

PollInv == TimerInv /\ HubType /\ ChainInv

-----------------------------------------------------------------------------
(* The timer list and the hub queue.                                       *)

\* The constants of this composition: one soft timer.
LEMMA OneTimer ==
  Timers = {IntTimer} /\ Kind(IntTimer) = "soft" /\ IntTimer \in Soft /\ TickMax \in Nat
BY PollAssumption, TimerAssumption DEF Timers, Kind

\* A list of at most one entry is empty without its timer.
LEMMA WithoutInt ==
  ASSUME NEW l \in Seq(IntEntry), Len(l) <= 1
  PROVE  Without(l, IntTimer) = <<>>
<1>1. CASE l = <<>>
  BY <1>1 DEF Without
<1>2. CASE l # <<>>
  <2>1. Len(l) = 1 /\ DOMAIN l = {1} /\ l[1] \in IntEntry
    <3>1. Len(l) \in Nat \ {0}
      BY <1>2, EmptySeq, Zenon
    <3>2. l \in [1..Len(l) -> IntEntry]
      BY LenProperties, Zenon
    <3>3. \A n \in Nat \ {0} : n <= 1 => n = 1
      OBVIOUS
    <3>4. Len(l) = 1
      BY <3>1, <3>3, Zenon
    <3>5. 1..1 = {1}
      OBVIOUS
    <3>6. QED BY <3>2, <3>4, <3>5
  <2>2. l[1].t = IntTimer
    BY <2>1 DEF IntEntry
  <2>3. (CHOOSE i \in DOMAIN l : l[i].t = IntTimer) = 1
    BY <2>1, <2>2
  <2>4. Without(l, IntTimer) = RemoveAt(l, 1)
    BY <2>1, <2>2, <2>3 DEF Without
  <2>5. RemoveAt(l, 1) \in Seq(IntEntry) /\ Len(RemoveAt(l, 1)) = 0
    <3>1. 1 \in 1..Len(l)
      BY <2>1
    <3>2. RemoveAt(l, 1) \in Seq(IntEntry) /\ Len(RemoveAt(l, 1)) = Len(l) - 1
      BY <3>1, RemoveAtElements, Zenon
    <3>3. QED BY <2>1, <3>2
  <2>6. QED BY <2>4, <2>5, EmptySeq
<1>3. QED BY <1>1, <1>2

\* Starting the timer leaves one entry in its list.
LEMMA InsertInt ==
  ASSUME NEW l \in Seq(IntEntry), Len(l) <= 1, tick \in Int, timer[IntTimer].init \in Int
  PROVE  Insert(l, IntTimer) \in Seq(IntEntry) /\ Len(Insert(l, IntTimer)) = 1
<1> DEFINE x == (tick + timer[IntTimer].init) % (TickMax + 1)
           e == [t |-> IntTimer, timeout |-> x]
<1>1. x \in Int
  BY OneTimer
<1>2. e \in IntEntry
  BY <1>1 DEF IntEntry
<1>3. Insert(l, IntTimer) = Place(<<>>, e)
  BY WithoutInt DEF Insert
<1> HIDE DEF e
<1>4. {i \in DOMAIN <<>> : \A j \in 1 .. i : ~Later(<<>>[j].timeout, e.timeout)} = {}
  OBVIOUS
<1>5. Place(<<>>, e) = InsertAt(<<>>, 1, e)
  <2>1. Cardinality({}) = 0
    BY FS_EmptySet
  <2>2. QED BY <1>4, <2>1 DEF Place
<1>6. <<>> \in Seq(IntEntry) /\ Len(<<>>) = 0 /\ 1 \in 1..(Len(<<>>) + 1)
  OBVIOUS
<1>7. InsertAt(<<>>, 1, e) \in Seq(IntEntry) /\ Len(InsertAt(<<>>, 1, e)) = Len(<<>>) + 1
  <2>1. ASSUME NEW q \in Seq(IntEntry), NEW k \in 1..(Len(q) + 1)
        PROVE  InsertAt(q, k, e) \in Seq(IntEntry) /\ Len(InsertAt(q, k, e)) = Len(q) + 1
    BY <1>2, InsertAtElements, Zenon
  <2>2. QED BY <1>6, <2>1
<1>8. QED BY <1>3, <1>5, <1>6, <1>7

\* Posting a message of the root hub.
LEMMA PostRoot ==
  ASSUME NEW q \in Seq({"root", "ext"})
  PROVE  /\ Posted(q, "root") \in Seq({"root", "ext"})
         /\ HasExt(Posted(q, "root")) <=> HasExt(q)
         /\ OneExt(q) => OneExt(Posted(q, "root"))
<1> DEFINE p == Append(q, "root")
<1>1. /\ p \in Seq({"root", "ext"}) /\ Len(q) \in Nat
      /\ DOMAIN q = 1..Len(q) /\ DOMAIN p = 1..(Len(q) + 1)
      /\ \A i \in 1..Len(q) : p[i] = q[i]
      /\ p[Len(q) + 1] = "root"
  BY AppendProperties, LenProperties
<1> HIDE DEF p
<1>2. HasExt(p) <=> HasExt(q)
  BY <1>1 DEF HasExt
<1>3. OneExt(q) => OneExt(p)
  BY <1>1 DEF OneExt
<1>4. QED BY <1>1, <1>2, <1>3 DEF Posted, p

\* Posting a message of the external hub.
LEMMA PostExt ==
  ASSUME NEW q \in Seq({"root", "ext"})
  PROVE  /\ Posted(q, "ext") \in Seq({"root", "ext"})
         /\ Full(q) => Posted(q, "ext") = q
         /\ ~Full(q) => HasExt(Posted(q, "ext"))
         /\ ~Full(q) /\ ~HasExt(q) => OneExt(Posted(q, "ext"))
<1> DEFINE p == Append(q, "ext")
<1>1. /\ p \in Seq({"root", "ext"}) /\ Len(q) \in Nat
      /\ DOMAIN q = 1..Len(q) /\ DOMAIN p = 1..(Len(q) + 1)
      /\ \A i \in 1..Len(q) : p[i] = q[i]
      /\ p[Len(q) + 1] = "ext"
  BY AppendProperties, LenProperties
<1> HIDE DEF p
<1>2. HasExt(p)
  BY <1>1 DEF HasExt
<1>3. ~HasExt(q) => OneExt(p)
  BY <1>1 DEF HasExt, OneExt
<1>4. QED BY <1>1, <1>2, <1>3 DEF Posted, p

\* Taking the first message.
LEMMA TakeFirst ==
  ASSUME NEW q \in Seq({"root", "ext"}), q # <<>>
  PROVE  /\ Head(q) \in {"root", "ext"} /\ Tail(q) \in Seq({"root", "ext"})
         /\ HasExt(q) <=> HasExt(Tail(q)) \/ Head(q) = "ext"
         /\ OneExt(q) => OneExt(Tail(q))
         /\ OneExt(q) /\ Head(q) = "ext" => ~HasExt(Tail(q))
<1> DEFINE p == Tail(q)
<1>1. /\ p \in Seq({"root", "ext"}) /\ Len(q) \in Nat \ {0} /\ Len(p) = Len(q) - 1
      /\ \A i \in 1..(Len(q) - 1) : p[i] = q[i + 1]
      /\ Head(q) = q[1]
  BY HeadTailProperties, EmptySeq, LenProperties
<1>2. DOMAIN q = 1..Len(q) /\ DOMAIN p = 1..(Len(q) - 1)
  BY <1>1, LenProperties
<1>3. q[1] \in {"root", "ext"}
  BY <1>1, <1>2
<1> HIDE DEF p
<1>4. HasExt(p) <=> \E i \in 2..Len(q) : q[i] = "ext"
  <2>1. ASSUME NEW i \in 2..Len(q), q[i] = "ext" PROVE HasExt(p)
    <3>1. i - 1 \in 1..(Len(q) - 1) /\ p[i - 1] = q[(i - 1) + 1] /\ (i - 1) + 1 = i
      BY <1>1
    <3>2. QED BY <1>2, <2>1, <3>1 DEF HasExt
  <2>2. ASSUME NEW i \in 1..(Len(q) - 1), p[i] = "ext"
        PROVE  \E j \in 2..Len(q) : q[j] = "ext"
    <3>1. i + 1 \in 2..Len(q) /\ q[i + 1] = "ext"
      BY <1>1, <2>2
    <3>2. QED BY <3>1
  <2>3. QED BY <1>2, <2>1, <2>2 DEF HasExt
<1>5. HasExt(q) <=> (q[1] = "ext" \/ \E i \in 2..Len(q) : q[i] = "ext")
  BY <1>1, <1>2 DEF HasExt
<1>6. OneExt(q) => OneExt(p)
  <2>1. SUFFICES ASSUME OneExt(q), NEW i \in 1..(Len(q) - 1), NEW j \in 1..(Len(q) - 1),
                        p[i] = "ext", p[j] = "ext"
                 PROVE  i = j
    BY <1>2 DEF OneExt
  <2>2. q[i + 1] = "ext" /\ q[j + 1] = "ext" /\ i + 1 \in DOMAIN q /\ j + 1 \in DOMAIN q
    BY <1>1, <1>2, <2>1
  <2>3. i + 1 = j + 1
    BY <2>1, <2>2 DEF OneExt
  <2>4. QED BY <2>3
<1>7. OneExt(q) /\ q[1] = "ext" => ~\E i \in 2..Len(q) : q[i] = "ext"
  BY <1>1, <1>2 DEF OneExt
<1>8. QED BY <1>1, <1>3, <1>4, <1>5, <1>6, <1>7 DEF p

-----------------------------------------------------------------------------
(* Steps that leave the timer alone.                                       *)

LEMMA SameTimer ==
  ASSUME TimerInv, UNCHANGED vars
  PROVE  TimerInv' /\ UNCHANGED Armed /\ UNCHANGED timer
BY DEF TimerInv, vars, Armed

\* The root port's interrupt.
LEMMA PlugInv ==
  ASSUME PollInv, Plug \/ Unplug
  PROVE  PollInv'
<1>1. /\ UNCHANGED vars /\ UNCHANGED <<hub, urb, sub, ht, stop>>
      /\ mq' = Posted(mq, "root")
  BY DEF Plug, Unplug
<1>2. TimerInv' /\ UNCHANGED <<timer, Armed>>
  BY <1>1, SameTimer DEF PollInv
<1>3. mq \in Seq({"root", "ext"})
  BY DEF PollInv, HubType
<1>4. /\ mq' \in Seq({"root", "ext"})
      /\ HasExt(mq') <=> HasExt(mq)
      /\ OneExt(mq) => OneExt(mq')
  BY <1>1, <1>3, PostRoot, Zenon
<1>5. HubType'
  BY <1>1, <1>4 DEF PollInv, HubType
<1>6. ChainInv'
  BY <1>1, <1>2, <1>4 DEF PollInv, ChainInv, Calls, Busy, Told, Event, One, None
<1>7. QED BY <1>2, <1>5, <1>6 DEF PollInv

\* The hub reports a change.
LEMMA UrbDataInv ==
  ASSUME PollInv, UrbData
  PROVE  PollInv'
<1>1. PICK q \in {mq, Posted(mq, "root")} :
        /\ mq' = Posted(q, "ext")
        /\ stop' = IF Full(q) THEN stop \union {"full"} ELSE stop
  BY DEF UrbData
<1>2. UNCHANGED vars /\ UNCHANGED <<hub, sub, ht>> /\ urb = "busy" /\ urb' = "idle"
  BY DEF UrbData
<1>3. TimerInv' /\ UNCHANGED <<timer, Armed>>
  BY <1>2, SameTimer DEF PollInv
<1>4. mq \in Seq({"root", "ext"})
  BY DEF PollInv, HubType
<1>5. q \in Seq({"root", "ext"}) /\ (HasExt(q) <=> HasExt(mq))
  BY <1>1, <1>4, PostRoot
<1>6. /\ mq' \in Seq({"root", "ext"})
      /\ Full(q) => mq' = q
      /\ ~Full(q) => HasExt(mq')
      /\ ~Full(q) /\ ~HasExt(q) => OneExt(mq')
  BY <1>1, <1>5, PostExt, Zenon
<1>7. HubType'
  BY <1>2, <1>6 DEF PollInv, HubType
<1>8. ChainInv'
  <2>1. hub
    BY <1>2 DEF PollInv, ChainInv, Busy
  <2>2. stop # {} => "late" \in stop
    BY <1>2, <2>1 DEF PollInv, ChainInv, Busy, None
  <2>3. stop = {} => ~Armed /\ ~Calls /\ ~HasExt(mq) /\ ~Event
    BY <1>2, <2>1 DEF PollInv, ChainInv, Busy, Told, One
  <2>4. ht # "enum"
    BY <2>1 DEF PollInv, ChainInv
  <2>5. CASE Full(q)
    <3>1. stop' = stop \union {"full"} /\ (HasExt(mq') <=> HasExt(mq))
      BY <1>1, <1>5, <1>6, <2>5
    <3>2. stop' # {} /\ stop' # {"late"} /\ ("late" \notin stop' => stop = {})
      BY <2>2, <3>1
    <3>3. QED
      BY <1>2, <1>3, <2>1, <2>3, <2>4, <3>1, <3>2
      DEF ChainInv, Calls, Busy, Told, Event, None
  <2>6. CASE ~Full(q)
    BY <1>1, <1>2, <1>3, <1>5, <1>6, <2>1, <2>2, <2>3, <2>4, <2>6
    DEF ChainInv, Calls, Busy, Told, Event, One, None
  <2>7. QED BY <2>5, <2>6
<1>9. QED BY <1>3, <1>7, <1>8 DEF PollInv

\* The transfer fails.
LEMMA UrbErrorInv ==
  ASSUME PollInv, UrbError
  PROVE  PollInv'
<1>1. /\ UNCHANGED vars /\ UNCHANGED <<hub, sub, ht, mq>> /\ urb = "busy" /\ urb' = "idle"
      /\ stop' = stop \union {"error"}
  BY DEF UrbError
<1>2. TimerInv' /\ UNCHANGED <<timer, Armed>>
  BY <1>1, SameTimer DEF PollInv
<1>3. HubType'
  BY <1>1 DEF PollInv, HubType
<1>4. ChainInv'
  BY <1>1, <1>2 DEF PollInv, HubType, ChainInv, Calls, Busy, Told, Event, One, None
<1>5. QED BY <1>2, <1>3, <1>4 DEF PollInv

\* The callback submits the URB, or fails to.
LEMMA SubmitInv ==
  ASSUME PollInv, Submit
  PROVE  PollInv'
<1>1. /\ UNCHANGED vars /\ UNCHANGED <<hub, ht, mq>> /\ ~sub /\ sub' = TRUE
      /\ \/ hub /\ urb = "idle" /\ urb' = "busy" /\ stop' = stop
         \/ stop' = stop \union (IF hub THEN {"submit"} ELSE {}) /\ urb' = urb
  BY DEF Submit
<1>2. TimerInv' /\ UNCHANGED <<timer, Armed>> /\ timer[IntTimer].proc
  BY <1>1, SameTimer DEF PollInv, TimerInv, Submit, Run
<1>3. HubType'
  BY <1>1 DEF PollInv, HubType
<1>4. ChainInv'
  BY <1>1, <1>2 DEF PollInv, HubType, ChainInv, Calls, Busy, Told, Event, One, None
<1>5. QED BY <1>2, <1>3, <1>4 DEF PollInv

\* The hub thread takes a message.
LEMMA RecvInv ==
  ASSUME PollInv, Recv
  PROVE  PollInv'
<1>1. /\ UNCHANGED vars /\ UNCHANGED <<hub, sub, urb, stop>> /\ mq # <<>> /\ ht = "recv"
      /\ ht' = Head(mq) /\ mq' = Tail(mq)
  BY DEF Recv
<1>2. TimerInv' /\ UNCHANGED <<timer, Armed>>
  BY <1>1, SameTimer DEF PollInv
<1>3. mq \in Seq({"root", "ext"})
  BY DEF PollInv, HubType
<1>4. /\ ht' \in {"root", "ext"} /\ mq' \in Seq({"root", "ext"})
      /\ HasExt(mq) <=> HasExt(mq') \/ ht' = "ext"
      /\ OneExt(mq) => OneExt(mq')
      /\ OneExt(mq) /\ ht' = "ext" => ~HasExt(mq')
  BY <1>1, <1>3, TakeFirst, Zenon
<1>5. HubType'
  BY <1>1, <1>4 DEF PollInv, HubType, HubPc, ExtEvent
<1>6. ChainInv'
  BY <1>1, <1>2, <1>4
  DEF PollInv, HubType, ChainInv, Calls, Busy, Told, Event, One, None, ExtEvent
<1>7. QED BY <1>2, <1>5, <1>6 DEF PollInv

\* The hub thread goes on: within an event of the external hub, back from it
\* or into a loop when the hub is gone, or between states that are none.
LEMMA GoesInv ==
  ASSUME PollInv, NEW from, NEW to,
         ht = from /\ ht' = to /\ UNCHANGED <<vars, hub, urb, sub, mq, stop>>,
         to \in HubPc \ {"enum"},
         \/ from \in ExtEvent /\ to \in ExtEvent /\ hub
         \/ from \notin ExtEvent /\ to \notin ExtEvent
         \/ ~hub /\ to \in {"recv", "stuck"}
  PROVE  PollInv'
<1>1. /\ UNCHANGED vars /\ UNCHANGED <<hub, sub, urb, mq, stop>>
      /\ ht = from /\ ht' = to
  OBVIOUS
<1>2. TimerInv' /\ UNCHANGED <<timer, Armed>>
  BY <1>1, SameTimer DEF PollInv
<1>3. HubType'
  BY <1>1 DEF PollInv, HubType
<1>4. ChainInv'
  BY <1>1, <1>2
  DEF PollInv, HubType, HubPc, ChainInv, Calls, Busy, Told, Event, One, None, ExtEvent
<1>5. QED BY <1>2, <1>3, <1>4 DEF PollInv

\* The root port is debounced and reset: the flag and the port change.
LEMMA RootInv ==
  ASSUME PollInv, ht \in {"root", "debounce"}, ht' \in {"debounce", "reset"},
         UNCHANGED <<vars, hub, urb, sub, mq, stop>>
  PROVE  PollInv'
<1>1. /\ ht \notin ExtEvent /\ ht' \notin ExtEvent /\ ht' \in HubPc \ {"enum"}
  BY DEF ExtEvent, HubPc
<1>2. PICK from, to : ht = from /\ ht' = to
  OBVIOUS
<1>3. QED BY <1>1, <1>2, GoesInv

-----------------------------------------------------------------------------
(* Steps that start or stop the timer.                                     *)

\* rt_timer_start is refused while the callback runs and starts the timer
\* otherwise.
LEMMA StartTimerInv ==
  ASSUME TimerInv, StartTimer
  PROVE  /\ TimerInv' /\ (timer'[IntTimer].proc <=> timer[IntTimer].proc)
         /\ IF timer[IntTimer].proc
            THEN stop' = stop \union {"refused"} /\ ~timer'[IntTimer].act
            ELSE stop' = stop /\ timer'[IntTimer].act
<1>1. CASE timer[IntTimer].proc
  BY <1>1 DEF StartTimer, rt_timer_start, TimerInv
<1>2. CASE ~timer[IntTimer].proc
  <2>1. /\ list["soft"] \in Seq(IntEntry) /\ Len(list["soft"]) <= 1 /\ tick \in Int
        /\ timer[IntTimer].init \in Int
    BY DEF TimerInv
  <2>2. PICK l : l = Insert(list["soft"], IntTimer)
    OBVIOUS
  <2>3. l \in Seq(IntEntry) /\ Len(l) = 1
    BY <2>1, <2>2, InsertInt
  <2>4. Len(l) <= 1 /\ l # <<>>
    BY <2>3
  <2>5. /\ timer' = [timer EXCEPT ![IntTimer].act = TRUE]
        /\ list' = [list EXCEPT !["soft"] = l]
        /\ UNCHANGED <<tick, thr, stop>>
    BY <1>2, <2>2, OneTimer DEF StartTimer, rt_timer_start
  <2>6. /\ timer' \in [{IntTimer} -> [act : BOOLEAN, per : {FALSE}, proc : BOOLEAN, init : Int]]
        /\ timer'[IntTimer].act /\ (timer'[IntTimer].proc <=> timer[IntTimer].proc)
    BY <2>5 DEF TimerInv
  <2>7. list' \in [{"hard", "soft"} -> Seq(IntEntry)] /\ list'["soft"] = l
    BY <2>3, <2>5 DEF TimerInv
  <2>8. /\ tick' \in Int /\ Len(list'["soft"]) <= 1 /\ list'["soft"] # <<>>
        /\ thr'.pc = thr.pc /\ thr'.t = thr.t /\ stop' = stop
    BY <2>1, <2>4, <2>5, <2>7, Zenon
  <2>9. (timer[IntTimer].proc <=> thr.pc = "callback") /\ thr.pc # "callback"
    BY <1>2 DEF TimerInv
  <2>10. TimerInv'
    BY <1>2, <2>6, <2>7, <2>8, <2>9, Zenon DEF TimerInv
  <2>11. QED BY <1>2, <2>6, <2>8, <2>10
<1>3. QED BY <1>1, <1>2

\* The hub has nothing to report.
LEMMA UrbNakInv ==
  ASSUME PollInv, UrbNak
  PROVE  PollInv'
<1>1. StartTimer /\ UNCHANGED <<hub, sub, ht, mq>> /\ urb = "busy" /\ urb' = "idle"
  BY DEF UrbNak
<1>2. HubType'
  BY <1>1 DEF PollInv, HubType
<1>3. /\ TimerInv' /\ (timer'[IntTimer].proc <=> timer[IntTimer].proc)
      /\ IF timer[IntTimer].proc
         THEN stop' = stop \union {"refused"} /\ ~timer'[IntTimer].act
         ELSE stop' = stop /\ timer'[IntTimer].act
  BY <1>1, StartTimerInv DEF PollInv
<1>4. hub /\ ht # "enum"
  BY <1>1 DEF PollInv, ChainInv, Busy
<1>5. ChainInv'
  <2>1. stop # {} => "late" \in stop
    BY <1>1, <1>4 DEF PollInv, ChainInv, Busy, None
  <2>2. stop = {} => ~Armed /\ ~Calls /\ ~HasExt(mq) /\ ~Event /\ OneExt(mq)
    BY <1>1, <1>4 DEF PollInv, ChainInv, Busy, Told, One
  <2>3. CASE timer[IntTimer].proc
    BY <1>1, <1>3, <1>4, <2>1, <2>2, <2>3
    DEF ChainInv, Armed, Calls, Busy, Told, Event, None
  <2>4. CASE ~timer[IntTimer].proc
    BY <1>1, <1>3, <1>4, <2>1, <2>2, <2>4
    DEF ChainInv, Armed, Calls, Busy, Told, Event, One, None
  <2>5. QED BY <2>3, <2>4
<1>6. QED BY <1>2, <1>3, <1>5 DEF PollInv

\* The event of the external hub ends and the timer is started.
LEMMA EventEndsInv ==
  ASSUME PollInv, EventEnds
  PROVE  PollInv'
<1>1. /\ hub /\ StartTimer /\ UNCHANGED <<hub, sub, mq, urb>>
      /\ ht = "end" /\ ht' = "recv" /\ Event
  BY DEF EventEnds, PollInv, ChainInv, Event, ExtEvent
<1>2. HubType'
  BY <1>1 DEF PollInv, HubType, HubPc
<1>3. /\ TimerInv' /\ (timer'[IntTimer].proc <=> timer[IntTimer].proc)
      /\ IF timer[IntTimer].proc
         THEN stop' = stop \union {"refused"} /\ ~timer'[IntTimer].act
         ELSE stop' = stop /\ timer'[IntTimer].act
  BY <1>1, StartTimerInv DEF PollInv
<1>4. ChainInv'
  <2>1. stop # {} => "late" \in stop
    BY <1>1 DEF PollInv, ChainInv, None
  <2>2. stop = {} => ~Armed /\ ~Calls /\ ~HasExt(mq) /\ ~Busy /\ OneExt(mq)
    BY <1>1 DEF PollInv, ChainInv, Told, One
  <2>3. CASE timer[IntTimer].proc
    BY <1>1, <1>3, <2>1, <2>2, <2>3
    DEF ChainInv, Armed, Calls, Busy, Told, Event, None, ExtEvent
  <2>4. CASE ~timer[IntTimer].proc
    BY <1>1, <1>3, <2>1, <2>2, <2>4
    DEF ChainInv, Armed, Calls, Busy, Told, Event, One, None, ExtEvent
  <2>5. QED BY <2>3, <2>4
<1>5. QED BY <1>2, <1>3, <1>4 DEF PollInv

\* The class object is released with its timer.
LEMMA ReleaseInv ==
  ASSUME PollInv, Release, UNCHANGED <<sub, mq>>, ht' \in {"recv", "enum"}
  PROVE  PollInv'
<1>1. hub' = FALSE /\ urb' = "idle" /\ UNCHANGED <<sub, mq>> /\ ht' \in {"recv", "enum"}
  BY DEF Release
<1>2. TimerInv' /\ ~timer'[IntTimer].act
  <2>1. CASE hub
    <3>1. list["soft"] \in Seq(IntEntry) /\ Len(list["soft"]) <= 1
      BY DEF PollInv, TimerInv
    <3>2. Without(list["soft"], IntTimer) = <<>>
      BY <3>1, WithoutInt
    <3>3. /\ timer' = [timer EXCEPT ![IntTimer].act = FALSE]
          /\ list' = [list EXCEPT !["soft"] = <<>>]
          /\ UNCHANGED <<tick, thr>>
      BY <2>1, <3>2, OneTimer DEF Release, TakeOut
    <3>4. /\ timer' \in [{IntTimer} -> [act : BOOLEAN, per : {FALSE}, proc : BOOLEAN, init : Int]]
          /\ ~timer'[IntTimer].act /\ (timer'[IntTimer].proc <=> timer[IntTimer].proc)
      BY <3>3 DEF PollInv, TimerInv
    <3>5. list' \in [{"hard", "soft"} -> Seq(IntEntry)] /\ list'["soft"] = <<>>
      BY <3>3 DEF PollInv, TimerInv
    <3>6. /\ tick' \in Int /\ Len(list'["soft"]) <= 1
          /\ thr'.pc = thr.pc /\ thr'.t = thr.t
      BY <3>3, <3>5 DEF PollInv, TimerInv
    <3>7. /\ timer[IntTimer].proc <=> thr.pc = "callback"
          /\ thr.pc = "callback" => thr.t = {IntTimer}
      BY DEF PollInv, TimerInv
    <3>8. QED BY <3>4, <3>5, <3>6, <3>7, Zenon DEF TimerInv
  <2>2. CASE ~hub
    <3>1. UNCHANGED vars
      BY <2>2 DEF Release
    <3>2. QED BY <2>2, <3>1, SameTimer DEF PollInv, ChainInv, Armed
  <2>3. QED BY <2>1, <2>2
<1>3. HubType'
  BY <1>1 DEF PollInv, HubType, HubPc
<1>4. ChainInv'
  BY <1>1, <1>2 DEF ChainInv, Armed, Busy
<1>5. QED BY <1>2, <1>3, <1>4 DEF PollInv

\* A new hub is connected and its timer started.
LEMMA ConnectedInv ==
  ASSUME PollInv, Connected
  PROVE  PollInv'
<1>1. /\ ~hub /\ hub' = TRUE /\ UNCHANGED <<urb, sub, mq, tick, thr>>
      /\ ht' = "recv" /\ thr.pc # "callback"
      /\ stop' = IF Queued("ext") THEN {"late"} ELSE {}
  BY DEF Connected, PollInv, ChainInv
<1>2. TimerInv' /\ timer'[IntTimer].act /\ ~timer'[IntTimer].proc
  <2>1. /\ list["soft"] \in Seq(IntEntry) /\ Len(list["soft"]) <= 1 /\ tick \in Int
        /\ timer[IntTimer].init \in Int
    BY DEF PollInv, TimerInv
  <2>2. PICK l : l = Insert(list["soft"], IntTimer)
    OBVIOUS
  <2>3. l \in Seq(IntEntry) /\ Len(l) = 1
    BY <2>1, <2>2, InsertInt
  <2>4. Len(l) <= 1 /\ l # <<>>
    BY <2>3
  <2>5. /\ timer' = [timer EXCEPT ![IntTimer].act = TRUE, ![IntTimer].proc = FALSE]
        /\ list' = [list EXCEPT !["soft"] = l]
    BY <2>2 DEF Connected
  <2>6. /\ timer' \in [{IntTimer} -> [act : BOOLEAN, per : {FALSE}, proc : BOOLEAN, init : Int]]
        /\ timer'[IntTimer].act /\ ~timer'[IntTimer].proc
    BY <2>5 DEF PollInv, TimerInv
  <2>7. list' \in [{"hard", "soft"} -> Seq(IntEntry)] /\ list'["soft"] = l
    BY <2>3, <2>5 DEF PollInv, TimerInv
  <2>8. /\ tick' \in Int /\ Len(list'["soft"]) <= 1 /\ list'["soft"] # <<>>
        /\ thr'.pc = thr.pc
    BY <1>1, <2>1, <2>4, <2>7, Zenon
  <2>9. QED BY <1>1, <2>6, <2>7, <2>8, Zenon DEF TimerInv
<1>3. HubType'
  BY <1>1 DEF PollInv, HubType, HubPc
<1>4. ChainInv'
  <2>1. Queued("ext") <=> HasExt(mq)
    BY DEF Queued, HasExt
  <2>2. ~HasExt(mq) => OneExt(mq)
    BY DEF HasExt, OneExt
  <2>3. urb = "idle"
    BY <1>1 DEF PollInv, HubType, ChainInv, Busy
  <2>4. QED
    BY <1>1, <1>2, <2>1, <2>2, <2>3
    DEF ChainInv, Armed, Calls, Busy, Told, Event, One, None, ExtEvent
<1>5. QED BY <1>2, <1>3, <1>4 DEF PollInv

-----------------------------------------------------------------------------
(* Steps of the timer thread and of the clock.                             *)

\* Whatever leaves timer, list and the hub alone and neither enters nor ends
\* a callback.
LEMMA QuietInv ==
  ASSUME PollInv, UNCHANGED pollvars, UNCHANGED <<timer, list>>, tick' \in Int,
         \/ thr' = thr
         \/ thr.pc # "callback" /\ thr'.pc # "callback"
  PROVE  PollInv'
<1>1. TimerInv'
  BY DEF PollInv, TimerInv
<1>2. HubType'
  BY DEF PollInv, HubType, pollvars
<1>3. ChainInv'
  BY DEF PollInv, ChainInv, pollvars, Armed, Calls, Busy, Told, Event, One, None
<1>4. QED BY <1>1, <1>2, <1>3 DEF PollInv

LEMMA TimerIdlesInv ==
  ASSUME PollInv, TimerIdles
  PROVE  PollInv'
<1>1. UNCHANGED pollvars /\ UNCHANGED <<timer, list, tick>>
  BY DEF TimerIdles, GetNext, Delta, Take, Wake, SoftDone
<1>2. thr.pc # "callback" /\ thr'.pc # "callback"
  <2>1. ASSUME NEW pc, NEW t, NEW until, NEW slip, Moves(pc, t, until, slip)
        PROVE  thr'.pc = pc
    BY <2>1 DEF Moves
  <2>2. CASE GetNext
    BY <2>1, <2>2 DEF GetNext, Run, Goto
  <2>3. CASE Delta
    BY <2>1, <2>3 DEF Delta, Run, Goto
  <2>4. CASE Take
    BY <2>1, <2>4 DEF Take, Run, Goto
  <2>5. CASE Wake
    BY <2>1, <2>5 DEF Wake, Run, Goto
  <2>6. CASE SoftDone
    BY <2>1, <2>6 DEF SoftDone, Run, Goto
  <2>7. QED BY <2>2, <2>3, <2>4, <2>5, <2>6 DEF TimerIdles
<1>3. tick' \in Int
  BY <1>1 DEF PollInv, TimerInv
<1>4. QED BY <1>1, <1>2, <1>3, QuietInv

LEMMA ClockInv ==
  ASSUME PollInv, Clock
  PROVE  PollInv'
<1>1. UNCHANGED pollvars /\ UNCHANGED <<timer, list>>
      /\ tick' = (tick + 1) % (TickMax + 1)
  BY DEF Clock, Advance
<1>2. tick' \in Int
  BY <1>1, OneTimer DEF PollInv, TimerInv
<1>3. thr' = thr \/ (thr.pc # "callback" /\ thr'.pc # "callback")
  BY DEF Clock, Advance, Arming, Moves
<1>4. QED BY <1>1, <1>2, <1>3, QuietInv

\* The timer leaves its list and its callback runs.
LEMMA CallbackBeginsInv ==
  ASSUME PollInv, CallbackBegins
  PROVE  PollInv'
<1>1. /\ SoftBegin /\ sub' = FALSE /\ UNCHANGED <<hub, urb, mq, ht, stop>>
  BY DEF CallbackBegins
<1>2. PICK l : l = list["soft"]
  OBVIOUS
<1>3. l \in Seq(IntEntry) /\ Len(l) <= 1 /\ l # <<>>
  BY <1>1, <1>2 DEF PollInv, TimerInv, SoftBegin, Begin, Expired
<1>4. Head(l).t = IntTimer /\ Tail(l) = <<>>
  <2>1. Head(l) \in IntEntry /\ Tail(l) \in Seq(IntEntry) /\ Len(Tail(l)) = Len(l) - 1
    BY <1>3, HeadTailProperties, Zenon
  <2>2. Len(Tail(l)) \in Nat /\ (Tail(l) # <<>> => Len(Tail(l)) \in Nat \ {0})
    BY <2>1, LenProperties, EmptySeq, Zenon
  <2>3. Len(l) \in Nat
    BY <1>3, LenProperties, Zenon
  <2>4. \A m, n \in Nat : m <= 1 /\ n = m - 1 => n \notin Nat \ {0}
    OBVIOUS
  <2>5. Tail(l) = <<>>
    BY <1>3, <2>1, <2>2, <2>3, <2>4, Zenon
  <2>6. QED BY <2>1, <2>5 DEF IntEntry
<1>5. /\ list' = [list EXCEPT !["soft"] = <<>>]
      /\ timer' = [timer EXCEPT ![IntTimer].proc = TRUE,
                                ![IntTimer].act = timer[IntTimer].per]
      /\ thr'.pc = "callback" /\ thr'.t = {IntTimer} /\ tick' = tick
  BY <1>1, <1>2, <1>4 DEF SoftBegin, Begin, Goto, Moves
<1>6. /\ timer' \in [{IntTimer} -> [act : BOOLEAN, per : {FALSE}, proc : BOOLEAN, init : Int]]
      /\ timer[IntTimer].act /\ ~timer[IntTimer].proc
      /\ ~timer'[IntTimer].act /\ timer'[IntTimer].proc
  BY <1>2, <1>3, <1>5 DEF PollInv, TimerInv
<1>7. /\ list' \in [{"hard", "soft"} -> Seq(IntEntry)] /\ list'["soft"] = <<>>
      /\ Len(list'["soft"]) <= 1 /\ tick' \in Int
  BY <1>5 DEF PollInv, TimerInv
<1>8. TimerInv'
  BY <1>5, <1>6, <1>7, Zenon DEF TimerInv
<1>9. HubType'
  BY <1>1 DEF PollInv, HubType
<1>10. ChainInv'
  <2>1. hub /\ Armed /\ ~Calls /\ ~Armed' /\ Calls'
    BY <1>1, <1>6 DEF PollInv, ChainInv, Armed, Calls
  <2>2. QED
    BY <1>1, <2>1 DEF PollInv, ChainInv, Busy, Told, Event, One, None
<1>11. QED BY <1>8, <1>9, <1>10 DEF PollInv

\* The callback returns: the one-shot timer is not started again.
LEMMA CallbackEndsInv ==
  ASSUME PollInv, CallbackEnds
  PROVE  PollInv'
<1>1. SoftEnd /\ sub /\ sub' = FALSE /\ UNCHANGED <<hub, urb, mq, ht, stop>>
  BY DEF CallbackEnds
<1>2. thr.pc = "callback" /\ thr.t = {IntTimer} /\ timer[IntTimer].proc
      /\ ~timer[IntTimer].act /\ ~timer[IntTimer].per
  BY <1>1 DEF SoftEnd, Run, PollInv, TimerInv
<1>3. /\ timer' = [timer EXCEPT ![IntTimer].proc = FALSE]
      /\ list' = list /\ thr'.pc = "check" /\ tick' = tick
  BY <1>1, <1>2 DEF SoftEnd, End, Restarts, Goto, Moves
<1>4. /\ timer' \in [{IntTimer} -> [act : BOOLEAN, per : {FALSE}, proc : BOOLEAN, init : Int]]
      /\ ~timer'[IntTimer].act /\ ~timer'[IntTimer].proc
  BY <1>2, <1>3 DEF PollInv, TimerInv
<1>5. TimerInv'
  BY <1>2, <1>3, <1>4 DEF PollInv, TimerInv
<1>6. HubType'
  BY <1>1 DEF PollInv, HubType
<1>7. ChainInv'
  <2>1. ~Armed /\ ~Calls /\ ~Armed' /\ ~Calls'
    BY <1>1, <1>2, <1>4 DEF Armed, Calls
  <2>2. QED
    BY <1>1, <2>1 DEF PollInv, ChainInv, Busy, Told, Event, One, None
<1>8. QED BY <1>5, <1>6, <1>7 DEF PollInv

-----------------------------------------------------------------------------
(* The specification.                                                      *)

LEMMA PollInitInv == PollInit => PollInv
<1> SUFFICES ASSUME PollInit PROVE PollInv
  OBVIOUS
<1>1. /\ timer \in [{IntTimer} -> [act : {FALSE}, per : BOOLEAN, proc : {FALSE},
                                  init : 1 .. Half - 1]]
      /\ ~timer[IntTimer].per /\ tick = 0 /\ thr.pc = "next"
      /\ list = [k \in {"hard", "soft"} |-> <<>>]
  BY OneTimer DEF PollInit, Init
<1>2. timer \in [{IntTimer} -> [act : BOOLEAN, per : {FALSE}, proc : BOOLEAN, init : Int]]
  <2>1. PICK r \in [act : {FALSE}, per : BOOLEAN, proc : {FALSE}, init : 1 .. Half - 1] :
          timer = [t \in {IntTimer} |-> r] /\ ~r.per
    BY <1>1
  <2>2. r \in [act : BOOLEAN, per : {FALSE}, proc : BOOLEAN, init : Int]
    <3>1. r = [act |-> r.act, per |-> r.per, proc |-> r.proc, init |-> r.init]
      BY <2>1
    <3>2. r.act \in BOOLEAN /\ r.per = FALSE /\ r.proc \in BOOLEAN
      BY <2>1, Zenon
    <3>3. r.init \in Int
      <4>1. Half \in Int
        BY OneTimer DEF Half
      <4>2. r.init \in 1 .. Half - 1
        BY <2>1, Zenon
      <4>3. QED BY <4>1, <4>2
    <3>4. QED BY <3>1, <3>2, <3>3
  <2>3. QED BY <2>1, <2>2
<1>3. ~timer[IntTimer].act /\ ~timer[IntTimer].proc
  BY <1>1
<1>4. TimerInv
  <2>1. <<>> \in Seq(IntEntry) /\ Len(<<>>) <= 1 /\ tick \in Int
    BY <1>1
  <2>2. list["soft"] = <<>> /\ list \in [{"hard", "soft"} -> Seq(IntEntry)]
    BY <1>1, <2>1
  <2>3. thr.pc # "callback" /\ Len(list["soft"]) <= 1
    BY <1>1, <2>1, <2>2
  <2>4. QED BY <1>2, <1>3, <2>1, <2>2, <2>3, Zenon DEF TimerInv
<1>5. HubType
  <2>1. mq \in Seq({"root", "ext"}) /\ ht \in HubPc
    BY DEF PollInit, HubPc
  <2>2. QED BY <2>1, Zenon DEF PollInit, HubType
<1>6. ChainInv
  BY <1>3 DEF PollInit, ChainInv, Armed, Busy
<1>7. QED BY <1>4, <1>5, <1>6 DEF PollInv

\* The steps of the hub thread that only move it.
OnlyMoves ==
  \/ EventStarts \/ StatusFails \/ StatusRead \/ Cleared
  \/ PortDone \/ PortReset \/ ChildDone \/ ParseHangs
  \/ DebounceFails \/ ResetDone \/ EnumFails

LEMMA MovesInv ==
  ASSUME PollInv, OnlyMoves \/ (~csc /\ Goes("root", "recv"))
  PROVE  PollInv'
<1> USE DEF Goes
<1>1. /\ \A x \in {"recv", "root", "debounce", "reset", "enabled", "enum"} : x \notin ExtEvent
      /\ "recv" \in HubPc \ {"enum"} /\ "enabled" \in HubPc \ {"enum"}
      /\ \A x \in ExtEvent : x \in HubPc \ {"enum"}
  BY DEF HubPc, ExtEvent
<1>2. "ext" \in ExtEvent /\ "status" \in ExtEvent /\ "clear" \in ExtEvent
      /\ "work" \in ExtEvent /\ "child" \in ExtEvent /\ "stuck" \in ExtEvent
      /\ "end" \in ExtEvent
  BY DEF ExtEvent
<1>3. (ht \in {"status", "clear", "work", "child"} => hub) /\ (ht = "enum" => ~hub)
  BY DEF PollInv, ChainInv
<1>4. CASE EventStarts
  BY <1>1, <1>2, <1>4, GoesInv DEF EventStarts
<1>5. CASE StatusFails \/ StatusRead \/ Cleared
  BY <1>1, <1>2, <1>3, <1>5, GoesInv DEF StatusFails, StatusRead, Cleared
<1>6. CASE PortDone \/ PortReset \/ ChildDone
  BY <1>1, <1>2, <1>3, <1>6, GoesInv DEF PortDone, PortReset, ChildDone
<1>7. CASE ParseHangs
  BY <1>1, <1>2, <1>3, <1>7, GoesInv DEF ParseHangs
<1>8. CASE DebounceFails \/ ResetDone \/ EnumFails
  BY <1>1, <1>8, GoesInv DEF DebounceFails, ResetDone, EnumFails
<1>9. CASE ~csc /\ Goes("root", "recv")
  BY <1>1, <1>9, GoesInv
<1>10. QED BY <1>4, <1>5, <1>6, <1>7, <1>8, <1>9 DEF OnlyMoves

LEMMA PollNextInv == PollInv /\ [PollNext]_allvars => PollInv'
<1> SUFFICES ASSUME PollInv, [PollNext]_allvars PROVE PollInv'
  OBVIOUS
<1>1. CASE UNCHANGED allvars
  <2>1. UNCHANGED vars /\ UNCHANGED pollvars
    BY <1>1 DEF allvars
  <2>2. UNCHANGED <<timer, list, tick, thr>>
    BY <2>1 DEF vars
  <2>3. tick' \in Int
    BY <2>2 DEF PollInv, TimerInv
  <2>4. QED BY <2>1, <2>2, <2>3, QuietInv
<1>2. CASE Plug \/ Unplug
  BY <1>2, PlugInv
<1>3. CASE UrbDone
  BY <1>3, UrbDataInv, UrbNakInv, UrbErrorInv DEF UrbDone
<1>4. CASE Clock
  BY <1>4, ClockInv
<1>5. CASE TimerSteps
  BY <1>5, TimerIdlesInv, CallbackBeginsInv, SubmitInv, CallbackEndsInv DEF TimerSteps
<1>6. CASE HubThread
  <2>1. CASE Recv
    BY <2>1, RecvInv
  <2>2. CASE OnlyMoves
    BY <2>2, MovesInv
  <2>3. CASE EventEnds
    BY <2>3, EventEndsInv
  <2>4. CASE RootStarts \/ Bounces \/ RootHere
    <3>1. CASE ~csc /\ Goes("root", "recv")
      BY <3>1, MovesInv
    <3>2. CASE ~(~csc /\ Goes("root", "recv"))
      <4>1. /\ ht \in {"root", "debounce"} /\ ht' \in {"debounce", "reset"}
            /\ UNCHANGED <<vars, hub, urb, sub, mq, stop>>
        BY <2>4, <3>2 DEF RootStarts, Bounces, RootHere
      <4>2. QED BY <4>1, RootInv
    <3>3. QED BY <3>1, <3>2
  <2>5. CASE RootGone \/ RootEnabled
    <3>1. Release /\ UNCHANGED <<sub, mq>> /\ ht' \in {"recv", "enum"}
      BY <2>5 DEF RootGone, RootEnabled
    <3>2. QED BY <3>1, ReleaseInv
  <2>6. CASE Connected
    BY <2>6, ConnectedInv
  <2>7. QED BY <1>6, <2>1, <2>2, <2>3, <2>4, <2>5, <2>6 DEF HubThread, OnlyMoves
<1>7. QED BY <1>1, <1>2, <1>3, <1>4, <1>5, <1>6 DEF PollNext

\* The chain of links, counted.
LEMMA InvAlive == PollInv => PollAlive
<1> SUFFICES ASSUME PollInv, hub PROVE PollAlive
  BY DEF PollAlive
<1>1. Queued("ext") <=> Told
  BY DEF Queued, Told, HasExt
<1>2. \A c : c \in Pending <=>
        \/ c = "timer" /\ Armed
        \/ c = "callback" /\ Calls
        \/ c = "urb" /\ Busy
        \/ c = "message" /\ Told
        \/ c = "event" /\ Event
  BY <1>1 DEF Pending, Armed, Calls, Busy, Event, ExtEvent
<1>3. Pending = {} <=> None(Armed, Calls, Busy, Told, Event)
  BY <1>2 DEF None
<1>4. ASSUME One(Armed, Calls, Busy, Told, Event) PROVE Cardinality(Pending) = 1
  <2>1. \E c : Pending = {c}
    <3>1. CASE Armed
      <4>1. Pending = {"timer"}
        BY <1>2, <1>4, <3>1 DEF One
      <4>2. QED BY <4>1
    <3>2. CASE Calls
      <4>1. Pending = {"callback"}
        BY <1>2, <1>4, <3>2 DEF One
      <4>2. QED BY <4>1
    <3>3. CASE Busy
      <4>1. Pending = {"urb"}
        BY <1>2, <1>4, <3>3 DEF One
      <4>2. QED BY <4>1
    <3>4. CASE Told
      <4>1. Pending = {"message"}
        BY <1>2, <1>4, <3>4 DEF One
      <4>2. QED BY <4>1
    <3>5. CASE Event
      <4>1. Pending = {"event"}
        BY <1>2, <1>4, <3>5 DEF One
      <4>2. QED BY <4>1
    <3>6. QED BY <1>4, <3>1, <3>2, <3>3, <3>4, <3>5 DEF One
  <2>2. QED BY <2>1, FS_Singleton
<1>5. QED BY <1>3, <1>4 DEF PollInv, ChainInv, PollAlive

\* The invariant of the composition: the timer is one-shot and in at most one
\* place, and a connected hub has exactly one link of the chain under way
\* (hub_int_timeout, hub_int_complete_callback, usbh_hub_events).
THEOREM PollInvariant == PollSpec => []PollInv
<1>1. PollInit => PollInv
  BY PollInitInv
<1>2. PollInv /\ [PollNext]_allvars => PollInv'
  BY PollNextInv
<1>3. QED BY <1>1, <1>2, PTL DEF PollSpec

\* The chain that polls an external hub is never cut and never doubled, for
\* any queue size and any number of plugs: what stops it is an error, a
\* refused call or a full queue, and only a late message doubles it.
THEOREM PollIsAlive == PollSpec => []PollAlive
BY PollInvariant, InvAlive, PTL
=============================================================================
