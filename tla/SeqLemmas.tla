----------------------------- MODULE SeqLemmas -----------------------------
(***************************************************************************)
(* What the kernel's list operations do to the members of a list: the      *)
(* lemmas that the proofs about its suspend lists cite.                    *)
(***************************************************************************)
EXTENDS Integers, Sequences, SequencesExt, SequenceTheorems, WellFoundedInduction, TLAPS

NoDup(s) == \A i, j \in DOMAIN s : s[i] = s[j] => i = j
Member(s, e) == \E i \in DOMAIN s : s[i] = e

\* s is in ascending order of f, and is so without the element e.
Sorted(s, f) == \A i, j \in DOMAIN s : i < j => f[s[i]] <= f[s[j]]
SortedBut(s, f, e) ==
  \A i, j \in DOMAIN s : i < j /\ s[i] # e /\ s[j] # e => f[s[i]] <= f[s[j]]

\* What is at position j after e was inserted at position i.
Inserted(s, i, e, j) == IF j < i THEN s[j] ELSE IF j = i THEN e ELSE s[j - 1]

\* rt_list_insert_before at position i, element by element.
LEMMA InsertAtElements ==
  ASSUME NEW S, NEW s \in Seq(S), NEW i \in 1..(Len(s) + 1), NEW e \in S
  PROVE  /\ InsertAt(s, i, e) \in Seq(S)
         /\ Len(InsertAt(s, i, e)) = Len(s) + 1
         /\ \A j \in 1..(Len(s) + 1) : InsertAt(s, i, e)[j] = Inserted(s, i, e, j)
<1> DEFINE a == SubSeq(s, 1, i - 1)
           b == SubSeq(s, i, Len(s))
<1>1. /\ a \in Seq(S) /\ Len(a) = i - 1
      /\ \A j \in 1..(i - 1) : a[j] = s[j]
  OBVIOUS
<1>2. /\ b \in Seq(S) /\ Len(b) = Len(s) + 1 - i
      /\ \A j \in 1..(Len(s) + 1 - i) : b[j] = s[i + j - 1]
  OBVIOUS
<1> DEFINE c == a \o <<e>>
<1> HIDE DEF a, b
<1>3. InsertAt(s, i, e) = c \o b
  BY DEF InsertAt, a, b
<1>4. /\ c \in Seq(S) /\ Len(c) = i
      /\ \A j \in 1..i : c[j] = IF j < i THEN s[j] ELSE e
  BY <1>1
<1> HIDE DEF c
<1>5. /\ InsertAt(s, i, e) \in Seq(S)
      /\ Len(InsertAt(s, i, e)) = Len(s) + 1
  BY <1>2, <1>3, <1>4, ConcatProperties
<1>6. ASSUME NEW j \in 1..(Len(s) + 1)
      PROVE  InsertAt(s, i, e)[j] =
               IF j < i THEN s[j] ELSE IF j = i THEN e ELSE s[j - 1]
  <2>1. CASE j <= i
    BY <1>2, <1>3, <1>4, <2>1, ConcatProperties
  <2>2. CASE j > i
    <3>1. j - i \in 1..(Len(s) + 1 - i)
      BY <2>2
    <3>2. InsertAt(s, i, e)[j] = b[j - i]
      BY <1>2, <1>3, <1>4, <2>2, ConcatProperties
    <3>3. b[j - i] = s[j - 1]
      BY <1>2, <3>1
    <3>4. QED BY <2>2, <3>2, <3>3
  <2>3. QED BY <2>1, <2>2
<1>7. \A j \in 1..(Len(s) + 1) : InsertAt(s, i, e)[j] = Inserted(s, i, e, j)
  BY <1>6 DEF Inserted
<1>8. QED
  BY <1>5, <1>7, Zenon

\* rt_list_remove of the node at position i, element by element.
LEMMA RemoveAtElements ==
  ASSUME NEW S, NEW s \in Seq(S), NEW i \in 1..Len(s)
  PROVE  /\ RemoveAt(s, i) \in Seq(S)
         /\ Len(RemoveAt(s, i)) = Len(s) - 1
         /\ \A j \in 1..(Len(s) - 1) :
              RemoveAt(s, i)[j] = IF j < i THEN s[j] ELSE s[j + 1]
<1> DEFINE a == SubSeq(s, 1, i - 1)
           b == SubSeq(s, i + 1, Len(s))
<1>1. /\ a \in Seq(S) /\ Len(a) = i - 1
      /\ \A j \in 1..(i - 1) : a[j] = s[j]
  OBVIOUS
<1>2. /\ b \in Seq(S) /\ Len(b) = Len(s) - i
      /\ \A j \in 1..(Len(s) - i) : b[j] = s[i + j]
  OBVIOUS
<1> HIDE DEF a, b
<1>3. RemoveAt(s, i) = a \o b
  BY DEF RemoveAt, a, b
<1>4. /\ RemoveAt(s, i) \in Seq(S)
      /\ Len(RemoveAt(s, i)) = Len(s) - 1
  BY <1>1, <1>2, <1>3, ConcatProperties
<1>5. ASSUME NEW j \in 1..(Len(s) - 1)
      PROVE  RemoveAt(s, i)[j] = IF j < i THEN s[j] ELSE s[j + 1]
  <2>1. CASE j < i
    BY <1>1, <1>2, <1>3, <2>1, ConcatProperties
  <2>2. CASE j >= i
    <3>1. j - (i - 1) \in 1..(Len(s) - i)
      BY <2>2
    <3>2. RemoveAt(s, i)[j] = b[j - (i - 1)]
      BY <1>1, <1>2, <1>3, <2>2, ConcatProperties
    <3>3. b[j - (i - 1)] = s[j + 1]
      BY <1>2, <3>1
    <3>4. QED BY <2>2, <3>2, <3>3
  <2>3. QED BY <2>1, <2>2
<1>6. QED
  BY <1>4, <1>5

\* Inserting a new element keeps a list without duplicates and adds exactly
\* that element.
LEMMA InsertAtMembers ==
  ASSUME NEW S, NEW s \in Seq(S), NEW i \in 1..(Len(s) + 1), NEW e \in S,
         NoDup(s), ~Member(s, e)
  PROVE  /\ NoDup(InsertAt(s, i, e))
         /\ \A x : Member(InsertAt(s, i, e), x) <=> (Member(s, x) \/ x = e)
<1> DEFINE r == InsertAt(s, i, e)
<1>1. /\ r \in Seq(S)
      /\ DOMAIN r = 1..(Len(s) + 1)
      /\ \A j \in 1..(Len(s) + 1) :
           r[j] = IF j < i THEN s[j] ELSE IF j = i THEN e ELSE s[j - 1]
  <2>1. /\ r \in Seq(S) /\ Len(r) = Len(s) + 1
        /\ \A j \in 1..(Len(s) + 1) : r[j] = Inserted(s, i, e, j)
    BY InsertAtElements, Zenon
  <2> HIDE DEF r
  <2>2. DOMAIN r = 1..Len(r)
    BY <2>1, LenProperties
  <2>3. QED BY <2>1, <2>2 DEF Inserted
<1>2. DOMAIN s = 1..Len(s) /\ Len(s) \in Nat
  OBVIOUS
<1> HIDE DEF r
<1>3. NoDup(r)
  <2>1. SUFFICES ASSUME NEW j \in 1..(Len(s) + 1), NEW k \in 1..(Len(s) + 1),
                        r[j] = r[k], j < k
                 PROVE  FALSE
    BY <1>1, <1>2 DEF NoDup
  <2>2. \A m \in 1..Len(s) : s[m] # e
    BY <1>2 DEF Member
  <2>3. \A m, n \in 1..Len(s) : s[m] = s[n] => m = n
    BY <1>2 DEF NoDup
  <2>4. CASE k < i
    BY <1>1, <1>2, <2>1, <2>3, <2>4
  <2>5. CASE k = i
    BY <1>1, <1>2, <2>1, <2>2, <2>5
  <2>6. CASE k > i /\ j < i
    BY <1>1, <1>2, <2>1, <2>3, <2>6
  <2>7. CASE k > i /\ j = i
    BY <1>1, <1>2, <2>1, <2>2, <2>7
  <2>8. CASE k > i /\ j > i
    BY <1>1, <1>2, <2>1, <2>3, <2>8
  <2>9. QED BY <1>2, <2>4, <2>5, <2>6, <2>7, <2>8
<1>4. ASSUME NEW x, Member(r, x) PROVE Member(s, x) \/ x = e
  BY <1>1, <1>2, <1>4 DEF Member
<1>5. Member(r, e)
  BY <1>1, <1>2 DEF Member
<1>6. ASSUME NEW x, Member(s, x) PROVE Member(r, x)
  <2>1. PICK k \in 1..Len(s) : s[k] = x
    BY <1>2, <1>6 DEF Member
  <2>2. CASE k < i
    <3>1. r[k] = x /\ k \in DOMAIN r
      BY <1>1, <1>2, <2>1, <2>2
    <3>2. QED BY <3>1 DEF Member
  <2>3. CASE k >= i
    <3>1. r[k + 1] = x /\ k + 1 \in DOMAIN r
      BY <1>1, <1>2, <2>1, <2>3
    <3>2. QED BY <3>1 DEF Member
  <2>4. QED BY <1>2, <2>1, <2>2, <2>3
<1>7. QED
  BY <1>3, <1>4, <1>5, <1>6 DEF r

\* Removing a position of a list without duplicates removes exactly the
\* element that was there.
LEMMA RemoveAtMembers ==
  ASSUME NEW S, NEW s \in Seq(S), NEW i \in 1..Len(s), NoDup(s)
  PROVE  /\ NoDup(RemoveAt(s, i))
         /\ \A x : Member(RemoveAt(s, i), x) <=> (Member(s, x) /\ x # s[i])
<1> DEFINE r == RemoveAt(s, i)
<1>1. /\ r \in Seq(S)
      /\ DOMAIN r = 1..(Len(s) - 1)
      /\ \A j \in 1..(Len(s) - 1) : r[j] = IF j < i THEN s[j] ELSE s[j + 1]
  <2>1. /\ r \in Seq(S) /\ Len(r) = Len(s) - 1
        /\ \A j \in 1..(Len(s) - 1) : r[j] = IF j < i THEN s[j] ELSE s[j + 1]
    BY RemoveAtElements, Zenon
  <2> HIDE DEF r
  <2>2. DOMAIN r = 1..Len(r)
    BY <2>1, LenProperties
  <2>3. QED BY <2>1, <2>2
<1>2. DOMAIN s = 1..Len(s) /\ Len(s) \in Nat
  OBVIOUS
<1> HIDE DEF r
<1>3. \A m, n \in 1..Len(s) : s[m] = s[n] => m = n
  BY <1>2 DEF NoDup
<1>4. NoDup(r)
  <2>1. SUFFICES ASSUME NEW j \in 1..(Len(s) - 1), NEW k \in 1..(Len(s) - 1),
                        r[j] = r[k], j < k
                 PROVE  FALSE
    BY <1>1, <1>2 DEF NoDup
  <2>2. CASE k < i
    BY <1>1, <1>2, <1>3, <2>1, <2>2
  <2>3. CASE k >= i /\ j < i
    BY <1>1, <1>2, <1>3, <2>1, <2>3
  <2>4. CASE k >= i /\ j >= i
    BY <1>1, <1>2, <1>3, <2>1, <2>4
  <2>5. QED BY <1>2, <2>2, <2>3, <2>4
<1>5. ASSUME NEW x, Member(r, x) PROVE Member(s, x) /\ x # s[i]
  <2>1. PICK k \in 1..(Len(s) - 1) : r[k] = x
    BY <1>1, <1>5 DEF Member
  <2>2. CASE k < i
    BY <1>1, <1>2, <1>3, <2>1, <2>2 DEF Member
  <2>3. CASE k >= i
    <3>1. s[k + 1] = x /\ k + 1 \in DOMAIN s /\ k + 1 # i
      BY <1>1, <1>2, <2>1, <2>3
    <3>2. QED BY <1>2, <1>3, <3>1 DEF Member
  <2>4. QED BY <1>2, <2>2, <2>3
<1>6. ASSUME NEW x, Member(s, x), x # s[i] PROVE Member(r, x)
  <2>1. PICK k \in 1..Len(s) : s[k] = x
    BY <1>2, <1>6 DEF Member
  <2>2. CASE k < i
    <3>1. r[k] = x /\ k \in DOMAIN r
      BY <1>1, <1>2, <2>1, <2>2
    <3>2. QED BY <3>1 DEF Member
  <2>3. CASE k > i
    <3>1. r[k - 1] = x /\ k - 1 \in DOMAIN r
      BY <1>1, <1>2, <2>1, <2>3
    <3>2. QED BY <3>1 DEF Member
  <2>4. QED BY <1>2, <1>6, <2>1, <2>2, <2>3
<1>7. QED
  BY <1>4, <1>5, <1>6 DEF r

\* rt_list_remove of the node of e.
LEMMA RemoveMember ==
  ASSUME NEW S, NEW s \in Seq(S), NEW e, NoDup(s), Member(s, e)
  PROVE  LET r == RemoveAt(s, CHOOSE i \in DOMAIN s : s[i] = e)
         IN  /\ r \in Seq(S) /\ NoDup(r)
             /\ \A x : Member(r, x) <=> (Member(s, x) /\ x # e)
<1> DEFINE k == CHOOSE i \in DOMAIN s : s[i] = e
<1>1. k \in 1..Len(s) /\ s[k] = e
  BY DEF Member
<1> HIDE DEF k
<1>2. RemoveAt(s, k) \in Seq(S)
  BY <1>1, RemoveAtElements
<1>3. /\ NoDup(RemoveAt(s, k))
      /\ \A x : Member(RemoveAt(s, k), x) <=> (Member(s, x) /\ x # s[k])
  BY <1>1, RemoveAtMembers
<1>4. QED
  BY <1>1, <1>2, <1>3 DEF k

\* What taking the first element leaves in the list.
LEMMA TailMembers ==
  ASSUME NEW S, NEW s \in Seq(S), s # <<>>, NoDup(s)
  PROVE  /\ Head(s) \in S /\ Member(s, Head(s))
         /\ Tail(s) \in Seq(S)
         /\ NoDup(Tail(s))
         /\ \A x : Member(Tail(s), x) <=> (Member(s, x) /\ x # Head(s))
<1>1. /\ Len(s) \in Nat \ {0} /\ DOMAIN s = 1..Len(s)
      /\ Head(s) = s[1] /\ Head(s) \in S
      /\ Tail(s) \in Seq(S) /\ DOMAIN Tail(s) = 1..(Len(s) - 1)
      /\ \A i \in 1..(Len(s) - 1) : Tail(s)[i] = s[i + 1]
  BY HeadTailProperties, EmptySeq, LenProperties
<1>2. \A m, n \in 1..Len(s) : s[m] = s[n] => m = n
  BY <1>1 DEF NoDup
<1>3. Member(s, Head(s))
  BY <1>1 DEF Member
<1>4. NoDup(Tail(s))
  BY <1>1, <1>2 DEF NoDup
<1>5. ASSUME NEW x, Member(Tail(s), x) PROVE Member(s, x) /\ x # Head(s)
  <2>1. PICK i \in 1..(Len(s) - 1) : Tail(s)[i] = x
    BY <1>1, <1>5 DEF Member
  <2>2. s[i + 1] = x /\ i + 1 \in DOMAIN s /\ i + 1 # 1
    BY <1>1, <2>1
  <2>3. QED BY <1>1, <1>2, <2>2 DEF Member
<1>6. ASSUME NEW x, Member(s, x), x # Head(s) PROVE Member(Tail(s), x)
  <2>1. PICK i \in 1..Len(s) : s[i] = x
    BY <1>1, <1>6 DEF Member
  <2>2. Tail(s)[i - 1] = x /\ i - 1 \in DOMAIN Tail(s)
    BY <1>1, <1>6, <2>1
  <2>3. QED BY <2>2 DEF Member
<1>7. QED BY <1>1, <1>3, <1>4, <1>5, <1>6

\* Every non-empty set of natural numbers has a least element.
LEMMA Least ==
  ASSUME NEW S, S \subseteq Nat, S # {}
  PROVE  \E x \in S : \A y \in S : x <= y
<1> DEFINE R == {ss \in Nat \X Nat : ss[1] < ss[2]}
<1>1. R = OpToRel(<, Nat)
  BY Zenon DEF OpToRel
<1>2. IsWellFoundedOn(R, Nat)
  BY <1>1, NatLessThanWellFounded, Zenon
<1>3. \A x, y \in Nat : y < x => <<y, x>> \in R
  OBVIOUS
<1> HIDE DEF R
<1>4. \E x \in S : \A y \in S : ~(<<y, x>> \in R)
  BY <1>2, WFMin
<1>5. PICK x \in S : \A y \in S : ~(<<y, x>> \in R)
  BY <1>4
<1>6. ASSUME NEW y \in S PROVE x <= y
  <2>1. ~(y < x)
    BY <1>3, <1>5
  <2>2. QED BY <2>1
<1>7. QED
  BY <1>6

\* The smallest of a list of priorities is one of them.
LEMMA MinLeast ==
  ASSUME NEW S, S \subseteq Nat, S # {}
  PROVE  Min(S) \in S /\ \A y \in S : Min(S) <= y
BY Least DEF Min

\* A list that is walked up to the first element with property D (the members
\* of D are the positions of those) always has a place to insert before.
LEMMA FirstPlace ==
  ASSUME NEW n \in Nat, NEW D, D \subseteq 1..n
  PROVE  \E i \in 1..(n + 1) : /\ \A j \in 1..(i - 1) : j \notin D
                               /\ i <= n => i \in D
<1>1. CASE D = {}
  <2>1. /\ \A j \in 1..n : j \notin D
        /\ n + 1 \in 1..(n + 1) /\ (n + 1) - 1 = n /\ ~(n + 1 <= n)
    BY <1>1
  <2>2. QED BY <2>1
<1>2. CASE D # {}
  <2>1. D \subseteq Nat
    OBVIOUS
  <2>2. PICK i \in D : \A j \in D : i <= j
    BY <1>2, <2>1, Least
  <2>3. i \in 1..(n + 1) /\ \A j \in 1..(i - 1) : j \notin D
    BY <2>2
  <2>4. QED BY <2>2, <2>3
<1>3. QED BY <1>1, <1>2

\* Taking the first element of a sorted list leaves a sorted list, and what is
\* left does not come before what was taken.
LEMMA TailSorted ==
  ASSUME NEW S, NEW s \in Seq(S), NEW f, NEW e, s # <<>>, SortedBut(s, f, e)
  PROVE  /\ SortedBut(Tail(s), f, e)
         /\ Head(s) # e => \A x : Member(Tail(s), x) /\ x # e => f[Head(s)] <= f[x]
<1>1. /\ Len(s) \in Nat \ {0} /\ DOMAIN s = 1..Len(s)
      /\ Head(s) = s[1]
      /\ DOMAIN Tail(s) = 1..(Len(s) - 1)
      /\ \A i \in 1..(Len(s) - 1) : Tail(s)[i] = s[i + 1]
  BY HeadTailProperties, EmptySeq, LenProperties
<1>2. \A i, j \in 1..Len(s) : i < j /\ s[i] # e /\ s[j] # e => f[s[i]] <= f[s[j]]
  BY <1>1 DEF SortedBut
<1>3. SortedBut(Tail(s), f, e)
  BY <1>1, <1>2 DEF SortedBut
<1>4. ASSUME NEW x, Head(s) # e, Member(Tail(s), x), x # e
      PROVE  f[Head(s)] <= f[x]
  <2>1. PICK i \in 1..(Len(s) - 1) : Tail(s)[i] = x
    BY <1>1, <1>4 DEF Member
  <2>2. s[i + 1] = x /\ i + 1 \in 1..Len(s) /\ 1 \in 1..Len(s) /\ 1 < i + 1
    BY <1>1, <2>1
  <2>3. QED BY <1>1, <1>2, <1>4, <2>2
<1>5. QED BY <1>3, <1>4

\* Removing an element keeps the order of the others.
LEMMA RemoveAtSorted ==
  ASSUME NEW S, NEW s \in Seq(S), NEW k \in 1..Len(s), NEW f, NEW e, SortedBut(s, f, e)
  PROVE  SortedBut(RemoveAt(s, k), f, e)
<1> DEFINE r == RemoveAt(s, k)
<1>1. /\ r \in Seq(S)
      /\ DOMAIN r = 1..(Len(s) - 1)
      /\ \A j \in 1..(Len(s) - 1) : r[j] = IF j < k THEN s[j] ELSE s[j + 1]
  <2>1. /\ r \in Seq(S) /\ Len(r) = Len(s) - 1
        /\ \A j \in 1..(Len(s) - 1) : r[j] = IF j < k THEN s[j] ELSE s[j + 1]
    BY RemoveAtElements, Zenon
  <2> HIDE DEF r
  <2>2. DOMAIN r = 1..Len(r)
    BY <2>1, LenProperties
  <2>3. QED BY <2>1, <2>2
<1>2. DOMAIN s = 1..Len(s) /\ Len(s) \in Nat
  OBVIOUS
<1> HIDE DEF r
<1>3. \A i, j \in 1..Len(s) : i < j /\ s[i] # e /\ s[j] # e => f[s[i]] <= f[s[j]]
  BY <1>2 DEF SortedBut
<1>4. SUFFICES ASSUME NEW i \in 1..(Len(s) - 1), NEW j \in 1..(Len(s) - 1), i < j,
                      r[i] # e, r[j] # e
               PROVE  f[r[i]] <= f[r[j]]
  BY <1>1 DEF SortedBut, r
<1>5. CASE j < k
  BY <1>1, <1>2, <1>3, <1>4, <1>5
<1>6. CASE j >= k /\ i < k
  <2>1. r[i] = s[i] /\ r[j] = s[j + 1] /\ i \in 1..Len(s) /\ j + 1 \in 1..Len(s) /\ i < j + 1
    BY <1>1, <1>2, <1>4, <1>6
  <2>2. QED BY <1>3, <1>4, <2>1
<1>7. CASE i >= k
  <2>1. /\ r[i] = s[i + 1] /\ r[j] = s[j + 1]
        /\ i + 1 \in 1..Len(s) /\ j + 1 \in 1..Len(s) /\ i + 1 < j + 1
    BY <1>1, <1>2, <1>4, <1>7
  <2>2. QED BY <1>3, <1>4, <2>1
<1>8. QED BY <1>2, <1>5, <1>6, <1>7

\* Inserting an element behind those that are not larger and before one that
\* is larger keeps the list sorted.
LEMMA InsertAtSorted ==
  ASSUME NEW S, NEW s \in Seq(S), NEW k \in 1..(Len(s) + 1), NEW e \in S,
         NEW f \in [S -> Int], Sorted(s, f),
         \A j \in 1..(k - 1) : f[s[j]] <= f[e],
         k <= Len(s) => f[e] <= f[s[k]]
  PROVE  Sorted(InsertAt(s, k, e), f)
<1> DEFINE r == InsertAt(s, k, e)
<1>1. /\ r \in Seq(S)
      /\ DOMAIN r = 1..(Len(s) + 1)
      /\ \A j \in 1..(Len(s) + 1) :
           r[j] = IF j < k THEN s[j] ELSE IF j = k THEN e ELSE s[j - 1]
  <2>1. /\ r \in Seq(S) /\ Len(r) = Len(s) + 1
        /\ \A j \in 1..(Len(s) + 1) : r[j] = Inserted(s, k, e, j)
    BY InsertAtElements, Zenon
  <2> HIDE DEF r
  <2>2. DOMAIN r = 1..Len(r)
    BY <2>1, LenProperties
  <2>3. QED BY <2>1, <2>2 DEF Inserted
<1>2. /\ DOMAIN s = 1..Len(s) /\ Len(s) \in Nat
      /\ \A j \in 1..Len(s) : s[j] \in S /\ f[s[j]] \in Int
      /\ f[e] \in Int
  OBVIOUS
<1> HIDE DEF r
<1>3. \A i, j \in 1..Len(s) : i < j => f[s[i]] <= f[s[j]]
  BY <1>2 DEF Sorted
<1>4. SUFFICES ASSUME NEW i \in 1..(Len(s) + 1), NEW j \in 1..(Len(s) + 1), i < j
               PROVE  f[r[i]] <= f[r[j]]
  BY <1>1 DEF Sorted, r
<1>5. CASE j < k
  <2>1. r[i] = s[i] /\ r[j] = s[j] /\ i \in 1..Len(s) /\ j \in 1..Len(s)
    BY <1>1, <1>2, <1>4, <1>5
  <2>2. QED BY <1>3, <1>4, <2>1
<1>6. CASE j = k
  <2>1. r[i] = s[i] /\ r[j] = e /\ i \in 1..(k - 1)
    BY <1>1, <1>2, <1>4, <1>6
  <2>2. QED BY <2>1
<1>7. CASE j > k /\ i < k
  <2>1. r[i] = s[i] /\ r[j] = s[j - 1] /\ i \in 1..Len(s) /\ j - 1 \in 1..Len(s) /\ i < j - 1
    BY <1>1, <1>2, <1>4, <1>7
  <2>2. QED BY <1>3, <2>1
<1>8. CASE i = k
  <2>1. r[i] = e /\ r[j] = s[j - 1] /\ j - 1 \in 1..Len(s) /\ k <= j - 1 /\ k \in 1..Len(s)
    BY <1>1, <1>2, <1>4, <1>8
  <2>2. f[e] <= f[s[k]]
    BY <2>1
  <2>3. f[s[k]] <= f[s[j - 1]]
    BY <1>2, <1>3, <2>1
  <2>4. QED BY <1>2, <2>1, <2>2, <2>3
<1>9. CASE i > k
  <2>1. /\ r[i] = s[i - 1] /\ r[j] = s[j - 1]
        /\ i - 1 \in 1..Len(s) /\ j - 1 \in 1..Len(s) /\ i - 1 < j - 1
    BY <1>1, <1>2, <1>4, <1>9
  <2>2. QED BY <1>3, <2>1
<1>10. QED BY <1>2, <1>4, <1>5, <1>6, <1>7, <1>8, <1>9

\* Without the element e, a list that is sorted but for e is sorted.
LEMMA SortedWithout ==
  ASSUME NEW s, NEW f, NEW e, ~Member(s, e)
  PROVE  SortedBut(s, f, e) <=> Sorted(s, f)
BY DEF SortedBut, Sorted, Member
=============================================================================
