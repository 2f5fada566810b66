--------------------------- MODULE KernelSyncProofs ---------------------------
(***************************************************************************)
(* Theorems of module KernelSync, for every set of threads, mutexes and    *)
(* condition variables, every assignment of priorities and protocols and   *)
(* every set of calls the application makes.                               *)
(***************************************************************************)
EXTENDS KernelSync, FiniteSetTheorems, SequenceTheorems, WellFoundedInduction, TLAPS

(***************************************************************************)
(* What the operations on a wait queue do to its members and its order.    *)
(***************************************************************************)

(* A nonempty set of positions has a last one.                             *)
LEMMA HasMaximum ==
  ASSUME NEW n \in Nat, NEW T \in SUBSET (1 .. n), T # {}
  PROVE  \E i \in T : \A j \in T : j <= i
<1> DEFINE R == OpToRel(<, Nat)
<1>1. IsWellFoundedOn(R, Nat)
  BY NatLessThanWellFounded
<1>2. \A x, y \in Nat : x < y => <<x, y>> \in R
  BY DEF OpToRel
<1> HIDE DEF R
<1>3. \A i \in T : i \in Int /\ n - i \in Nat
  <2> SUFFICES ASSUME NEW i \in T PROVE i \in Int /\ n - i \in Nat
    OBVIOUS
  <2>1. i \in 1 .. n
    OBVIOUS
  <2> QED BY <2>1
<1> DEFINE gaps == {n - i : i \in T}
<1>4. gaps \subseteq Nat /\ gaps # {}
  BY <1>3
<1>5. \E g \in gaps : \A h \in gaps : ~(<<h, g>> \in R)
  <2> HIDE DEF gaps
  <2> QED BY <1>1, <1>4, WFMin
<1>6. PICK k \in T : \A j \in T : ~(<<n - j, n - k>> \in R)
  BY <1>5
<1>7. \A j \in T : ~(n - j < n - k)
  BY <1>2, <1>3, <1>6
<1> QED BY <1>3, <1>7

(* Where enqueue() stops: everything in front of that place is at least as *)
(* urgent, when the queue is sorted, and everything behind is less urgent. *)
LEMMA LastNotBelowPlace ==
  ASSUME NEW S, NEW q \in Seq(S), NEW prio \in [S -> Int], NEW p \in Int
  PROVE  /\ LastNotBelow(q, p, prio) \in 0 .. Len(q)
         /\ LastNotBelow(q, p, prio) # 0 => prio[q[LastNotBelow(q, p, prio)]] <= p
         /\ \A j \in DOMAIN q : prio[q[j]] <= p => j <= LastNotBelow(q, p, prio)
<1> DEFINE higher == {i \in DOMAIN q : prio[q[i]] <= p}
<1>1. Len(q) \in Nat /\ DOMAIN q = 1 .. Len(q)
  BY LenProperties
<1>2. CASE higher = {}
  BY <1>1, <1>2 DEF LastNotBelow
<1>3. CASE higher # {}
  <2> DEFINE k == CHOOSE i \in higher : \A j \in higher : j <= i
  <2>1. LastNotBelow(q, p, prio) = k
    BY <1>3 DEF LastNotBelow
  <2>2. \E i \in higher : \A j \in higher : j <= i
    <3>1. higher \in SUBSET (1 .. Len(q))
      BY <1>1
    <3> HIDE DEF higher
    <3> QED BY <1>1, <1>3, <3>1, HasMaximum
  <2>3. k \in higher /\ \A j \in higher : j <= k
    <3> HIDE DEF higher
    <3> QED BY <2>2
  <2> HIDE DEF k
  <2> QED BY <1>1, <2>1, <2>3
<1> QED BY <1>2, <1>3

(* A sequence with one element put in, and with one taken out.             *)
IsInserted(e, S, q, k, t) ==
  /\ e \in Seq(S) /\ Len(e) = Len(q) + 1
  /\ \A i \in 1 .. Len(q) + 1 :
       e[i] = IF i <= k THEN q[i] ELSE IF i = k + 1 THEN t ELSE q[i - 1]

LEMMA InsertAtShape ==
  ASSUME NEW S, NEW q \in Seq(S), NEW k \in 0 .. Len(q), NEW t \in S
  PROVE  IsInserted(InsertAt(q, k + 1, t), S, q, k, t)
<1> DEFINE front == SubSeq(q, 1, k)
           back == SubSeq(q, k + 1, Len(q))
<1>1. Len(q) \in Nat /\ k \in Nat
  BY LenProperties
<1>2. /\ front \in Seq(S) /\ Len(front) = k
      /\ \A i \in 1 .. k : front[i] = q[i]
  BY <1>1, SubSeqProperties
<1>3. /\ back \in Seq(S) /\ Len(back) = Len(q) - k
      /\ \A i \in 1 .. Len(q) - k : back[i] = q[k + i]
  BY <1>1, SubSeqProperties
<1>4. InsertAt(q, k + 1, t) = (front \o <<t>>) \o back
  <2>1. (k + 1) - 1 = k
    BY <1>1
  <2> QED BY <2>1 DEF InsertAt
<1> HIDE DEF front, back
<1>5. /\ front \o <<t>> \in Seq(S) /\ Len(front \o <<t>>) = k + 1
      /\ \A i \in 1 .. k + 1 : (front \o <<t>>)[i] = IF i <= k THEN q[i] ELSE t
  BY <1>1, <1>2, ConcatProperties
<1> DEFINE most == front \o <<t>>
<1>6. most \in Seq(S) /\ Len(most) = k + 1 /\ \A i \in 1 .. k + 1 : most[i] = IF i <= k THEN q[i] ELSE t
  BY <1>5
<1>7. InsertAt(q, k + 1, t) = most \o back
  BY <1>4
<1> HIDE DEF most
<1>8. /\ most \o back \in Seq(S) /\ Len(most \o back) = Len(most) + Len(back)
      /\ \A i \in 1 .. Len(most) + Len(back) :
           (most \o back)[i] = IF i <= Len(most) THEN most[i] ELSE back[i - Len(most)]
  BY <1>3, <1>6, ConcatProperties
<1>9. Len(most) + Len(back) = Len(q) + 1
  BY <1>1, <1>3, <1>6
<1>10. ASSUME NEW i \in 1 .. Len(q) + 1
       PROVE  (most \o back)[i] = IF i <= k THEN q[i] ELSE IF i = k + 1 THEN t ELSE q[i - 1]
  <2>1. CASE i <= k + 1
    BY <1>1, <1>6, <1>8, <1>9, <2>1
  <2>2. CASE i > k + 1
    <3>1. i - (k + 1) \in 1 .. Len(q) - k /\ k + (i - (k + 1)) = i - 1
      BY <1>1, <2>2
    <3>2. back[i - (k + 1)] = q[i - 1]
      BY <1>3, <3>1
    <3> QED BY <1>1, <1>6, <1>8, <1>9, <2>2, <3>2
  <2>3. i <= k + 1 \/ i > k + 1
    BY <1>1
  <2> QED BY <2>1, <2>2, <2>3
<1> DEFINE e == most \o back
<1>11. /\ e \in Seq(S) /\ Len(e) = Len(q) + 1
       /\ \A i \in 1 .. Len(q) + 1 :
            e[i] = IF i <= k THEN q[i] ELSE IF i = k + 1 THEN t ELSE q[i - 1]
  BY <1>8, <1>9, <1>10
<1>12. IsInserted(e, S, q, k, t)
  <2> HIDE DEF e
  <2> QED BY <1>11 DEF IsInserted
<1> QED BY <1>7, <1>12

LEMMA RemoveAtShape ==
  ASSUME NEW S, NEW q \in Seq(S), NEW k \in 1 .. Len(q)
  PROVE  /\ RemoveAt(q, k) \in Seq(S)
         /\ Len(RemoveAt(q, k)) = Len(q) - 1
         /\ \A i \in 1 .. Len(q) - 1 :
              RemoveAt(q, k)[i] = IF i < k THEN q[i] ELSE q[i + 1]
<1> DEFINE front == SubSeq(q, 1, k - 1)
           back == SubSeq(q, k + 1, Len(q))
<1>1. Len(q) \in Nat /\ k \in Nat
  BY LenProperties
<1>2. /\ front \in Seq(S) /\ Len(front) = k - 1
      /\ \A i \in 1 .. k - 1 : front[i] = q[i]
  BY <1>1, SubSeqProperties
<1>3. /\ back \in Seq(S) /\ Len(back) = Len(q) - k
      /\ \A i \in 1 .. Len(q) - k : back[i] = q[k + i]
  BY <1>1, SubSeqProperties
<1>4. RemoveAt(q, k) = front \o back
  BY DEF RemoveAt
<1> HIDE DEF front, back
<1>5. /\ front \o back \in Seq(S) /\ Len(front \o back) = Len(front) + Len(back)
      /\ \A i \in 1 .. Len(front) + Len(back) :
           (front \o back)[i] = IF i <= Len(front) THEN front[i] ELSE back[i - Len(front)]
  BY <1>2, <1>3, ConcatProperties
<1>6. Len(front) + Len(back) = Len(q) - 1
  BY <1>1, <1>2, <1>3
<1>7. ASSUME NEW i \in 1 .. Len(q) - 1
      PROVE  (front \o back)[i] = IF i < k THEN q[i] ELSE q[i + 1]
  <2>1. CASE i < k
    BY <1>1, <1>2, <1>5, <1>6, <2>1
  <2>2. CASE i >= k
    <3>1. i - (k - 1) \in 1 .. Len(q) - k /\ k + (i - (k - 1)) = i + 1
      BY <1>1, <2>2
    <3>2. back[i - (k - 1)] = q[i + 1]
      BY <1>3, <3>1
    <3> QED BY <1>1, <1>2, <1>5, <1>6, <2>2, <3>2
  <2>3. i < k \/ i >= k
    BY <1>1
  <2> QED BY <2>1, <2>2, <2>3
<1> QED BY <1>4, <1>5, <1>6, <1>7

(* A thread enters a queue: nobody else comes or goes, nobody is there     *)
(* twice, and a sorted queue stays sorted.                                 *)
LEMMA EnqueueProperties ==
  ASSUME NEW S, NEW q \in Seq(S), NEW t \in S, NEW prio \in [S -> Int]
  PROVE  /\ enqueue(q, t, prio) \in Seq(S)
         /\ ToSet(enqueue(q, t, prio)) = ToSet(q) \cup {t}
         /\ NoDuplicates(q) /\ t \notin ToSet(q) => NoDuplicates(enqueue(q, t, prio))
         /\ Sorted(q, prio) => Sorted(enqueue(q, t, prio), prio)
<1> DEFINE k == LastNotBelow(q, prio[t], prio)
           e == enqueue(q, t, prio)
<1>1. /\ k \in 0 .. Len(q)
      /\ k # 0 => prio[q[k]] <= prio[t]
      /\ \A j \in DOMAIN q : prio[q[j]] <= prio[t] => j <= k
  BY LastNotBelowPlace
<1>2. e = InsertAt(q, k + 1, t)
  BY DEF enqueue
<1> HIDE DEF k, e
<1>3. /\ Len(q) \in Nat /\ DOMAIN q = 1 .. Len(q)
      /\ \A i \in 1 .. Len(q) : q[i] \in S
  BY LenProperties
<1>4. /\ e \in Seq(S) /\ Len(e) = Len(q) + 1
      /\ \A i \in 1 .. Len(q) + 1 :
           e[i] = IF i <= k THEN q[i] ELSE IF i = k + 1 THEN t ELSE q[i - 1]
  <2>1. k \in 0 .. Len(q)
    BY <1>1
  <2>2. IsInserted(InsertAt(q, k + 1, t), S, q, k, t)
    BY <2>1, InsertAtShape
  <2> QED BY <1>2, <2>2 DEF IsInserted
<1>5. DOMAIN e = 1 .. Len(q) + 1
  BY <1>4, LenProperties
<1>6. \A i \in DOMAIN e : \/ i \in DOMAIN q /\ i <= k /\ e[i] = q[i]
                          \/ i = k + 1 /\ e[i] = t
                          \/ i - 1 \in DOMAIN q /\ i - 1 > k /\ e[i] = q[i - 1]
  <2> SUFFICES ASSUME NEW i \in DOMAIN e
               PROVE  \/ i \in DOMAIN q /\ i <= k /\ e[i] = q[i]
                      \/ i = k + 1 /\ e[i] = t
                      \/ i - 1 \in DOMAIN q /\ i - 1 > k /\ e[i] = q[i - 1]
    OBVIOUS
  <2>1. i \in 1 .. Len(q) + 1 /\ k \in 0 .. Len(q)
    BY <1>1, <1>5
  <2>2. i <= k \/ i = k + 1 \/ i > k + 1
    BY <1>3, <2>1
  <2>3. e[i] = IF i <= k THEN q[i] ELSE IF i = k + 1 THEN t ELSE q[i - 1]
    BY <1>4, <2>1
  <2> QED BY <1>3, <2>1, <2>2, <2>3
<1>7. /\ k + 1 \in DOMAIN e /\ e[k + 1] = t
      /\ \A i \in DOMAIN q : \/ i \in DOMAIN e /\ e[i] = q[i]
                             \/ i + 1 \in DOMAIN e /\ e[i + 1] = q[i]
  <2>1. k \in 0 .. Len(q)
    BY <1>1
  <2>2. k + 1 \in 1 .. Len(q) + 1 /\ ~(k + 1 <= k)
    BY <1>3, <2>1
  <2>3. k + 1 \in DOMAIN e /\ e[k + 1] = t
    BY <1>4, <1>5, <2>2
  <2>4. ASSUME NEW i \in DOMAIN q
        PROVE  \/ i \in DOMAIN e /\ e[i] = q[i]
               \/ i + 1 \in DOMAIN e /\ e[i + 1] = q[i]
    <3>1. i \in 1 .. Len(q) /\ i + 1 - 1 = i
      BY <1>3
    <3>2. CASE i <= k
      BY <1>3, <1>4, <1>5, <3>1, <3>2
    <3>3. CASE i > k
      <4>1. i + 1 \in 1 .. Len(q) + 1 /\ ~(i + 1 <= k) /\ i + 1 # k + 1
        BY <1>3, <2>1, <3>1, <3>3
      <4> QED BY <1>4, <1>5, <3>1, <4>1
    <3>4. i <= k \/ i > k
      BY <1>3, <2>1, <3>1
    <3> QED BY <3>2, <3>3, <3>4
  <2> QED BY <2>3, <2>4
<1>8. ToSet(e) = ToSet(q) \cup {t}
  <2>1. ToSet(e) \subseteq ToSet(q) \cup {t}
    BY <1>6 DEF ToSet
  <2>2. ToSet(q) \cup {t} \subseteq ToSet(e)
    BY <1>7 DEF ToSet
  <2> QED BY <2>1, <2>2
<1>9. ASSUME NoDuplicates(q), t \notin ToSet(q) PROVE NoDuplicates(e)
  <2>1. \A i \in DOMAIN q : q[i] # t
    BY <1>9 DEF ToSet
  <2>2. \A i, j \in DOMAIN q : q[i] = q[j] => i = j
    BY <1>9 DEF NoDuplicates
  <2> SUFFICES ASSUME NEW i \in DOMAIN e, NEW j \in DOMAIN e, e[i] = e[j] PROVE i = j
    BY DEF NoDuplicates
  <2>3. i \in Int /\ j \in Int /\ k \in Int
    BY <1>1, <1>3, <1>5
  <2>4. \/ i \in DOMAIN q /\ i <= k /\ e[i] = q[i]
        \/ i = k + 1 /\ e[i] = t
        \/ i - 1 \in DOMAIN q /\ i - 1 > k /\ e[i] = q[i - 1]
    BY <1>6
  <2>5. \/ j \in DOMAIN q /\ j <= k /\ e[j] = q[j]
        \/ j = k + 1 /\ e[j] = t
        \/ j - 1 \in DOMAIN q /\ j - 1 > k /\ e[j] = q[j - 1]
    BY <1>6
  <2> QED BY <2>1, <2>2, <2>3, <2>4, <2>5
<1>10. ASSUME Sorted(q, prio) PROVE Sorted(e, prio)
  <2> SUFFICES ASSUME NEW i \in DOMAIN e, NEW j \in DOMAIN e, i < j
               PROVE  prio[e[i]] <= prio[e[j]]
    BY DEF Sorted
  <2>1. i \in Int /\ j \in Int /\ k \in 0 .. Len(q)
    BY <1>1, <1>3, <1>5
  <2>2. \A a, b \in DOMAIN q : a < b => prio[q[a]] <= prio[q[b]]
    BY <1>10 DEF Sorted
  <2>3. \A a \in DOMAIN q : prio[q[a]] \in Int
    BY <1>3
  <2>4. prio[t] \in Int
    OBVIOUS
  <2>5. \A a \in DOMAIN q : a > k => prio[t] <= prio[q[a]]
    BY <1>1, <1>3, <2>1, <2>3, <2>4
  <2>6. \A a \in DOMAIN q : a <= k => prio[q[a]] <= prio[t]
    <3> SUFFICES ASSUME NEW a \in DOMAIN q, a <= k PROVE prio[q[a]] <= prio[t]
      OBVIOUS
    <3>1. k \in DOMAIN q /\ prio[q[k]] <= prio[t]
      BY <1>1, <1>3, <2>1
    <3>2. a = k \/ a < k
      BY <1>3, <2>1
    <3> QED BY <2>2, <2>3, <2>4, <3>1, <3>2
  <2>7. \/ i \in DOMAIN q /\ i <= k /\ e[i] = q[i]
        \/ i = k + 1 /\ e[i] = t
        \/ i - 1 \in DOMAIN q /\ i - 1 > k /\ e[i] = q[i - 1]
    BY <1>6
  <2>8. \/ j \in DOMAIN q /\ j <= k /\ e[j] = q[j]
        \/ j = k + 1 /\ e[j] = t
        \/ j - 1 \in DOMAIN q /\ j - 1 > k /\ e[j] = q[j - 1]
    BY <1>6
  <2> HIDE DEF k
  <2> QED BY <2>1, <2>2, <2>3, <2>4, <2>5, <2>6, <2>7, <2>8
<1> QED BY <1>4, <1>8, <1>9, <1>10 DEF e

(* A thread leaves a queue: it is gone, the others stay in their order.    *)
LEMMA RemoveProperties ==
  ASSUME NEW S, NEW q \in Seq(S), NEW t
  PROVE  /\ remove(q, t) \in Seq(S)
         /\ ToSet(remove(q, t)) \subseteq ToSet(q)
         /\ NoDuplicates(q) => /\ NoDuplicates(remove(q, t))
                               /\ ToSet(remove(q, t)) = ToSet(q) \ {t}
         /\ \A prio \in [S -> Int] : Sorted(q, prio) => Sorted(remove(q, t), prio)
<1>1. CASE t \notin ToSet(q)
  BY <1>1 DEF remove
<1>2. CASE t \in ToSet(q)
  <2> DEFINE k == CHOOSE i \in DOMAIN q : q[i] = t
             r == remove(q, t)
  <2>1. k \in DOMAIN q /\ q[k] = t
    BY <1>2 DEF ToSet
  <2>2. r = RemoveAt(q, k)
    BY <1>2 DEF remove
  <2> HIDE DEF k, r
  <2>3. /\ Len(q) \in Nat /\ DOMAIN q = 1 .. Len(q)
        /\ \A i \in 1 .. Len(q) : q[i] \in S
    BY LenProperties
  <2>4. /\ r \in Seq(S) /\ Len(r) = Len(q) - 1
        /\ \A i \in 1 .. Len(q) - 1 : r[i] = IF i < k THEN q[i] ELSE q[i + 1]
    BY <2>1, <2>2, <2>3, RemoveAtShape
  <2>5. DOMAIN r = 1 .. Len(q) - 1
    BY <2>4, LenProperties
  <2>6. ASSUME NEW a \in DOMAIN r
        PROVE  \/ a < k /\ a \in DOMAIN q /\ r[a] = q[a]
               \/ a >= k /\ a + 1 \in DOMAIN q /\ r[a] = q[a + 1]
    <3>1. a \in 1 .. Len(q) - 1 /\ k \in 1 .. Len(q)
      BY <2>1, <2>3, <2>5
    <3>2. r[a] = IF a < k THEN q[a] ELSE q[a + 1]
      BY <2>4, <3>1
    <3>3. a \in 1 .. Len(q) /\ a + 1 \in 1 .. Len(q) /\ (a < k \/ a >= k)
      BY <2>3, <3>1
    <3> QED BY <2>3, <3>2, <3>3
  <2>7. k \in Int /\ (\A i \in DOMAIN r : i \in Int) /\ (\A i \in DOMAIN q : i \in Int)
    BY <2>1, <2>3, <2>5
  <2>8. ToSet(r) \subseteq ToSet(q)
    <3> SUFFICES ASSUME NEW i \in DOMAIN r PROVE r[i] \in ToSet(q)
      BY DEF ToSet
    <3>1. \E j \in DOMAIN q : q[j] = r[i]
      BY <2>6
    <3> QED BY <3>1 DEF ToSet
  <2>9. ASSUME NoDuplicates(q) PROVE NoDuplicates(r) /\ ToSet(r) = ToSet(q) \ {t}
    <3>1. \A i, j \in DOMAIN q : q[i] = q[j] => i = j
      BY <2>9 DEF NoDuplicates
    <3>2. NoDuplicates(r)
      <4> SUFFICES ASSUME NEW i \in DOMAIN r, NEW j \in DOMAIN r, r[i] = r[j] PROVE i = j
        BY DEF NoDuplicates
      <4>1. /\ \/ i < k /\ i \in DOMAIN q /\ r[i] = q[i]
               \/ i >= k /\ i + 1 \in DOMAIN q /\ r[i] = q[i + 1]
            /\ \/ j < k /\ j \in DOMAIN q /\ r[j] = q[j]
               \/ j >= k /\ j + 1 \in DOMAIN q /\ r[j] = q[j + 1]
        BY <2>6
      <4> QED BY <2>7, <3>1, <4>1
    <3>3. t \notin ToSet(r)
      <4> SUFFICES ASSUME NEW i \in DOMAIN r PROVE r[i] # t
        BY DEF ToSet
      <4>1. \/ i < k /\ i \in DOMAIN q /\ r[i] = q[i]
            \/ i >= k /\ i + 1 \in DOMAIN q /\ r[i] = q[i + 1]
        BY <2>6
      <4> QED BY <2>1, <2>7, <3>1, <4>1
    <3>4. ASSUME NEW i \in DOMAIN q, q[i] # t PROVE q[i] \in ToSet(r)
      <4>1. CASE i < k
        BY <2>1, <2>3, <2>4, <2>5, <4>1 DEF ToSet
      <4>2. CASE i > k
        <5>1. i - 1 \in DOMAIN r /\ r[i - 1] = q[i]
          BY <2>1, <2>3, <2>4, <2>5, <4>2
        <5> QED BY <5>1 DEF ToSet
      <4> QED BY <2>1, <2>3, <3>4, <4>1, <4>2
    <3> QED BY <2>8, <3>2, <3>3, <3>4 DEF ToSet
  <2>10. ASSUME NEW prio \in [S -> Int], Sorted(q, prio) PROVE Sorted(r, prio)
    <3> SUFFICES ASSUME NEW i \in DOMAIN r, NEW j \in DOMAIN r, i < j
                 PROVE  prio[r[i]] <= prio[r[j]]
      BY DEF Sorted
    <3>1. \A a, b \in DOMAIN q : a < b => prio[q[a]] <= prio[q[b]]
      BY <2>10 DEF Sorted
    <3>2. /\ \/ i < k /\ i \in DOMAIN q /\ r[i] = q[i]
             \/ i >= k /\ i + 1 \in DOMAIN q /\ r[i] = q[i + 1]
          /\ \/ j < k /\ j \in DOMAIN q /\ r[j] = q[j]
             \/ j >= k /\ j + 1 \in DOMAIN q /\ r[j] = q[j + 1]
      BY <2>6
    <3>3. i \in Int /\ j \in Int /\ k \in Int
      BY <2>7
    <3>4. \E a, b \in DOMAIN q : a < b /\ r[i] = q[a] /\ r[j] = q[b]
      <4>1. CASE i < k /\ j < k
        BY <3>2, <3>3, <4>1
      <4>2. CASE i < k /\ j >= k
        <5>1. i < j + 1
          BY <3>3
        <5> QED BY <3>2, <3>3, <4>2, <5>1
      <4>3. CASE i >= k /\ j >= k
        <5>1. i + 1 < j + 1
          BY <3>3
        <5> QED BY <3>2, <3>3, <4>3, <5>1
      <4> QED BY <3>3, <4>1, <4>2, <4>3
    <3> QED BY <3>1, <3>4
  <2> QED BY <2>4, <2>8, <2>9, <2>10 DEF r
<1> QED BY <1>1, <1>2

(* The head of a queue leaves it.                                          *)
LEMMA TailProperties ==
  ASSUME NEW S, NEW q \in Seq(S), q # <<>>
  PROVE  /\ Head(q) \in ToSet(q) /\ Tail(q) \in Seq(S)
         /\ ToSet(Tail(q)) \subseteq ToSet(q)
         /\ NoDuplicates(q) => NoDuplicates(Tail(q)) /\ Head(q) \notin ToSet(Tail(q))
         /\ \A prio \in [S -> Int] : Sorted(q, prio) => Sorted(Tail(q), prio)
<1>1. /\ Len(q) \in Nat \ {0} /\ DOMAIN q = 1 .. Len(q) /\ Head(q) = q[1]
  BY EmptySeq, LenProperties
<1>2. /\ Tail(q) \in Seq(S) /\ Len(Tail(q)) = Len(q) - 1
      /\ \A i \in 1 .. Len(Tail(q)) : Tail(q)[i] = q[i + 1]
  BY HeadTailProperties
<1>3. DOMAIN Tail(q) = 1 .. Len(q) - 1
  BY <1>2, LenProperties
<1>4. \A i \in DOMAIN Tail(q) : i \in Int /\ i > 0 /\ i + 1 \in DOMAIN q /\ Tail(q)[i] = q[i + 1]
  BY <1>1, <1>2, <1>3
<1>5. Head(q) \in ToSet(q)
  BY <1>1 DEF ToSet
<1>6. ToSet(Tail(q)) \subseteq ToSet(q)
  BY <1>4 DEF ToSet
<1>7. ASSUME NoDuplicates(q) PROVE NoDuplicates(Tail(q)) /\ Head(q) \notin ToSet(Tail(q))
  <2>1. 1 \in DOMAIN q /\ \A i, j \in DOMAIN q : q[i] = q[j] => i = j
    BY <1>1, <1>7 DEF NoDuplicates
  <2>2. NoDuplicates(Tail(q))
    BY <1>4, <2>1 DEF NoDuplicates
  <2>3. \A i \in DOMAIN Tail(q) : Tail(q)[i] # Head(q)
    BY <1>1, <1>4, <2>1
  <2> QED BY <2>2, <2>3 DEF ToSet
<1>8. ASSUME NEW prio \in [S -> Int], Sorted(q, prio) PROVE Sorted(Tail(q), prio)
  BY <1>4, <1>8 DEF Sorted
<1> QED BY <1>2, <1>5, <1>6, <1>7, <1>8

-----------------------------------------------------------------------------
(* The bookkeeping of a priority record keeps it one.                      *)
LEMMA PriorityRecordType ==
  ASSUME NEW r \in PriorityRecord
  PROVE  /\ \A p \in Priority : /\ SetPriorityOf(r, p) \in PriorityRecord
                                /\ Inherit(r, p) \in PriorityRecord
         /\ Disinherit(r) \in PriorityRecord
         /\ \A m \in Mutex : /\ Claim(m, r) \in PriorityRecord
                             /\ Unclaim(m, r) \in PriorityRecord
<1>1. \A s \in PriorityRecord, p \in Priority : Inherit(s, p) \in PriorityRecord
  BY DEF PriorityRecord, Inherit
<1>2. \A s \in PriorityRecord : Disinherit(s) \in PriorityRecord
  BY DEF PriorityRecord, Disinherit
<1>3. \A p \in Priority : SetPriorityOf(r, p) \in PriorityRecord
  BY DEF PriorityRecord, SetPriorityOf
<1>4. /\ [r EXCEPT !.count = @ + 1] \in PriorityRecord
      /\ [r EXCEPT !.count = @ - 1] \in PriorityRecord
  BY DEF PriorityRecord
<1>5. ASSUME NEW m \in Mutex PROVE Claim(m, r) \in PriorityRecord
  <2>1. Protocol[m] \in {"NONE", "INHERIT", "CEILING"} /\ Ceiling[m] \in Priority
    BY PriorityAssumption DEF Protocols
  <2> QED BY <1>1, <1>4, <2>1 DEF Claim
<1>6. ASSUME NEW m \in Mutex PROVE Unclaim(m, r) \in PriorityRecord
  BY <1>2, <1>4 DEF Unclaim
<1> QED BY <1>1, <1>2, <1>3, <1>5, <1>6

LEMMA CurType ==
  ASSUME NEW pr \in [Thread -> PriorityRecord]
  PROVE  Cur(pr) \in [Thread -> Int]
<1>1. \A x \in Thread : pr[x].cur \in Int
  BY PriorityAssumption DEF PriorityRecord, Priority
<1> QED BY <1>1 DEF Cur
-----------------------------------------------------------------------------
(* Type correctness.                                                       *)

LEMMA RequeuedType ==
  ASSUME NEW qs \in [Mutex \cup Cond -> Seq(Thread)], NEW x \in Thread,
         NEW pr \in [Thread -> PriorityRecord]
  PROVE  Requeued(qs, x, pr) \in [Mutex \cup Cond -> Seq(Thread)]
<1> SUFFICES ASSUME NEW q \in Mutex \cup Cond
             PROVE  (IF x \in ToSet(qs[q])
                     THEN enqueue(remove(qs[q], x), x, Cur(pr)) ELSE qs[q]) \in Seq(Thread)
  BY DEF Requeued
<1>1. qs[q] \in Seq(Thread)
  OBVIOUS
<1>2. remove(qs[q], x) \in Seq(Thread)
  BY <1>1, RemoveProperties
<1>3. enqueue(remove(qs[q], x), x, Cur(pr)) \in Seq(Thread)
  BY <1>2, CurType, EnqueueProperties
<1> QED BY <1>1, <1>3

LEMMA UnlinkedType ==
  ASSUME TypeOK, NEW x
  PROVE  Unlinked(x) \in [Mutex \cup Cond -> Seq(Thread)]
<1> SUFFICES ASSUME NEW q \in Mutex \cup Cond PROVE remove(queue[q], x) \in Seq(Thread)
  BY DEF Unlinked, TypeOK
<1>1. queue[q] \in Seq(Thread)
  BY DEF TypeOK
<1> QED BY <1>1, RemoveProperties

LEMMA UnlockTypes ==
  ASSUME TypeOK, NEW t \in Thread, NEW m \in Mutex
  PROVE  /\ Heir(m) \subseteq Thread
         /\ UnlockPri(t, m) \in [Thread -> PriorityRecord]
         /\ UnlockQueue(m) \in [Mutex \cup Cond -> Seq(Thread)]
         /\ UnlockResched(t, m) \in BOOLEAN
<1>1. queue[m] \in Seq(Thread)
  BY DEF TypeOK
<1>2. Heir(m) \subseteq Thread
  BY <1>1, HeadTailProperties DEF Heir
<1>3. UnlockQueue(m) \in [Mutex \cup Cond -> Seq(Thread)]
  BY <1>1, HeadTailProperties DEF UnlockQueue, TypeOK
<1>4. \A x \in Thread : pri[x] \in PriorityRecord /\ pri[x].cur \in Priority
  BY DEF TypeOK, PriorityRecord
<1>5. \A x \in Thread : RelayPriority(t, m, x) \in PriorityRecord
  BY <1>4, PriorityRecordType DEF RelayPriority
<1>6. UnlockPri(t, m) \in [Thread -> PriorityRecord]
  BY <1>4, <1>5, PriorityRecordType DEF UnlockPri
<1> QED BY <1>2, <1>3, <1>6 DEF UnlockResched

LEMMA WakeType ==
  ASSUME TypeOK, NEW S, NEW reason \in WakeReasons, Wake(S, reason)
  PROVE  /\ state' \in [Thread -> SUBSET Bits]
         /\ sleepReason' \in [Thread -> SleepReasons]
         /\ wakeReason' \in [Thread -> WakeReasons]
         /\ resched' \in BOOLEAN
<1>1. state' \in [Thread -> SUBSET Bits]
  BY DEF Wake, Awake, TypeOK
<1>2. sleepReason' \in [Thread -> SleepReasons]
  BY DEF Wake, SleepReasons, TypeOK
<1>3. wakeReason' \in [Thread -> WakeReasons]
  BY DEF Wake, TypeOK
<1>4. resched' \in BOOLEAN
  BY DEF Wake
<1> QED BY <1>1, <1>2, <1>3, <1>4

LEMMA ExitNowType ==
  ASSUME TypeOK, NEW t \in Thread, ExitNow(t)
  PROVE  TypeOK'
BY DEF TypeOK, ExitNow, Bits

LEMMA AcquireType ==
  ASSUME TypeOK, NEW t \in Thread, NEW m, NEW pr \in [Thread -> PriorityRecord],
         Acquire(t, m, pr), UNCHANGED <<current, suspendCount, timer>>
  PROVE  TypeOK'
<1>1. User \in Place
  BY DEF User, At, Place, Outside
<1> QED BY <1>1 DEF TypeOK, Acquire

LEMMA BlockType ==
  ASSUME TypeOK, NEW t \in Thread, NEW m \in Mutex, NEW pr \in [Thread -> PriorityRecord],
         NEW label \in Labels \ Outside,
         Block(t, m, pr, label), UNCHANGED <<current, suspendCount, timer>>
  PROVE  TypeOK'
<1>1. At(label, m) \in Place
  BY DEF At, Place
<1>2. BoostedOwner(t, m, pr) \in [Thread -> PriorityRecord]
  <2>1. owner[m] \in Thread
    BY DEF Block
  <2>2. pr[t].cur \in Priority /\ pr[owner[m]] \in PriorityRecord
    BY <2>1 DEF PriorityRecord
  <2>3. Inherit(pr[owner[m]], pr[t].cur) \in PriorityRecord
    BY <2>2, PriorityRecordType
  <2> QED BY <2>1, <2>3 DEF BoostedOwner
<1>3. queue' \in [Mutex \cup Cond -> Seq(Thread)]
  <2> DEFINE queued == [queue EXCEPT ![m] = enqueue(@, t, Cur(pr))]
  <2>1. queue[m] \in Seq(Thread)
    BY DEF TypeOK
  <2>2. enqueue(queue[m], t, Cur(pr)) \in Seq(Thread)
    BY <2>1, CurType, EnqueueProperties
  <2>3. queued \in [Mutex \cup Cond -> Seq(Thread)]
    BY <2>2 DEF TypeOK
  <2>4. owner[m] \in Thread
    BY DEF Block
  <2>5. Requeued(queued, owner[m], BoostedOwner(t, m, pr)) \in [Mutex \cup Cond -> Seq(Thread)]
    <3> HIDE DEF queued
    <3> QED BY <1>2, <2>3, <2>4, RequeuedType
  <2> QED BY <2>3, <2>5 DEF Block
<1>4. /\ state' \in [Thread -> SUBSET Bits]
      /\ sleepReason' \in [Thread -> SleepReasons]
      /\ wakeReason' \in [Thread -> WakeReasons]
  BY DEF Block, Sleep, TypeOK, Bits, SleepReasons, WakeReasons
<1>5. pri' \in [Thread -> PriorityRecord] /\ resched' \in BOOLEAN
  BY <1>2 DEF Block
<1>6. pc' \in [Thread -> Place]
  BY <1>1 DEF Block, TypeOK
<1>7. UNCHANGED <<current, suspendCount, timer, owner>>
  BY DEF Block
<1> QED BY <1>3, <1>4, <1>5, <1>6, <1>7 DEF TypeOK

LEMMA ClaimedType ==
  ASSUME TypeOK, NEW t \in Thread, NEW m \in Mutex
  PROVE  Claimed(t, m) \in [Thread -> PriorityRecord]
<1>1. pri[t] \in PriorityRecord
  BY DEF TypeOK
<1> QED BY <1>1, PriorityRecordType DEF Claimed, TypeOK

LEMMA TypeInit == Init => TypeOK
<1> SUFFICES ASSUME Init PROVE TypeOK
  OBVIOUS
<1>1. /\ state \in [Thread -> SUBSET Bits] /\ suspendCount \in [Thread -> Nat]
      /\ sleepReason \in [Thread -> SleepReasons] /\ wakeReason \in [Thread -> WakeReasons]
  BY DEF Init, Bits, SleepReasons, WakeReasons
<1>2. pri \in [Thread -> PriorityRecord]
  BY PriorityAssumption DEF Init, PriorityRecord
<1>3. queue \in [Mutex \cup Cond -> Seq(Thread)] /\ owner \in [Mutex -> Thread \cup {NoThread}]
  BY DEF Init
<1>4. pc \in [Thread -> Place]
  BY DEF Init, User, At, Place, Outside
<1> QED BY <1>1, <1>2, <1>3, <1>4 DEF Init, TypeOK

LEMMA WaitType ==
  ASSUME TypeOK, NEW t \in Thread, NEW c \in Cond, NEW m \in Mutex,
         NEW reason \in SleepReasons, Wait(t, c, m, reason), timer' \subseteq Thread
  PROVE  TypeOK'
<1>1. At("condwait", m) \in Place
  BY DEF At, Place, Labels, Outside
<1>2. queue' \in [Mutex \cup Cond -> Seq(Thread)]
  <2>1. UnlockQueue(m) \in [Mutex \cup Cond -> Seq(Thread)]
    BY UnlockTypes
  <2>2. UnlockQueue(m)[c] \in Seq(Thread) /\ Cur(UnlockPri(t, m)) \in [Thread -> Int]
    BY <2>1, UnlockTypes, CurType
  <2>3. enqueue(UnlockQueue(m)[c], t, Cur(UnlockPri(t, m))) \in Seq(Thread)
    BY <2>2, EnqueueProperties
  <2> QED BY <2>1, <2>3 DEF Wait
<1>3. /\ state' \in [Thread -> SUBSET Bits]
      /\ sleepReason' \in [Thread -> SleepReasons]
      /\ wakeReason' \in [Thread -> WakeReasons]
  BY DEF Wait, Awake, TypeOK, Bits, SleepReasons, WakeReasons
<1>4. pri' \in [Thread -> PriorityRecord] /\ resched' \in BOOLEAN
  BY UnlockTypes DEF Wait
<1>5. pc' \in [Thread -> Place]
  BY <1>1 DEF Wait, TypeOK
<1>6. owner' \in [Mutex -> Thread \cup {NoThread}] /\ UNCHANGED <<current, suspendCount>>
  BY DEF Wait, TypeOK
<1> QED BY <1>2, <1>3, <1>4, <1>5, <1>6 DEF TypeOK

(* Every step of the kernel keeps the types.                               *)
LEMMA TypeStep == TypeOK /\ [Next]_vars => TypeOK'
<1> SUFFICES ASSUME TypeOK, [Next]_vars PROVE TypeOK'
  OBVIOUS
<1> USE DEF Calling, Running
<1>1. CASE UNCHANGED vars
  BY <1>1 DEF vars, TypeOK
<1>2. CASE Dispatch
  BY <1>2 DEF Dispatch, DispatchTo, TypeOK
<1>3. CASE Timeslice
  BY <1>3 DEF Timeslice, TypeOK
<1>4. ASSUME NEW x \in Thread, TimerAlarm(x) PROVE TypeOK'
  <2>1. UNCHANGED <<current, suspendCount, pri, owner, pc>> /\ timer' \subseteq Thread
    BY <1>4 DEF TimerAlarm, TypeOK
  <2>2. CASE sleepReason[x] \in {"DELAY", "TIMEOUT"}
    <3>1. /\ Wake({x}, IF sleepReason[x] = "DELAY" THEN "DONE" ELSE "TIMEOUT")
          /\ queue' = Unlinked(x)
      BY <1>4, <2>2 DEF TimerAlarm
    <3>2. (IF sleepReason[x] = "DELAY" THEN "DONE" ELSE "TIMEOUT") \in WakeReasons
      BY DEF WakeReasons
    <3>3. queue' \in [Mutex \cup Cond -> Seq(Thread)]
      BY <3>1, UnlinkedType
    <3>4. /\ state' \in [Thread -> SUBSET Bits] /\ resched' \in BOOLEAN
          /\ sleepReason' \in [Thread -> SleepReasons]
          /\ wakeReason' \in [Thread -> WakeReasons]
      BY <3>1, <3>2, WakeType
    <3> QED BY <2>1, <3>3, <3>4 DEF TypeOK
  <2>3. CASE sleepReason[x] \notin {"DELAY", "TIMEOUT"}
    BY <1>4, <2>1, <2>3 DEF TimerAlarm, TypeOK
  <2> QED BY <2>2, <2>3
<1>5. ASSUME NEW c \in Cond, SignalOne(c) PROVE TypeOK'
  <2>1. queue[c] \in Seq(Thread)
    BY DEF TypeOK
  <2>2. queue' \in [Mutex \cup Cond -> Seq(Thread)]
    BY <1>5, <2>1, HeadTailProperties DEF SignalOne, TypeOK
  <2>3. /\ Wake({Head(queue[c])}, "DONE")
        /\ UNCHANGED <<current, suspendCount, pri, timer, owner, pc>>
    BY <1>5 DEF SignalOne
  <2>4. "DONE" \in WakeReasons
    BY DEF WakeReasons
  <2> QED BY <2>2, <2>3, <2>4, WakeType DEF TypeOK
<1>6. ASSUME NEW q \in Mutex \cup Cond, NEW reason \in WakeReasons,
             Wake(ToSet(queue[q]), reason), queue' = [queue EXCEPT ![q] = <<>>],
             UNCHANGED <<current, suspendCount, pri, timer, owner, pc>>
      PROVE  TypeOK'
  <2>1. queue' \in [Mutex \cup Cond -> Seq(Thread)]
    BY <1>6 DEF TypeOK
  <2> QED BY <1>6, <2>1, WakeType DEF TypeOK
<1>7. ASSUME NEW t \in Thread, MutexStep(t) PROVE TypeOK'
  <2> SUFFICES ASSUME NEW m \in Mutex,
                      Lock(t, m) \/ TryLock(t, m) \/ Unlock(t, m) \/ MutexRelease(t, m)
               PROVE  TypeOK'
    BY <1>7 DEF MutexStep
  <2>1. CASE Lock(t, m)
    <3>1. "lock" \in Labels \ Outside
      BY DEF Labels, Outside
    <3> QED BY <2>1, <3>1, ClaimedType, AcquireType, BlockType DEF Lock
  <2>2. CASE TryLock(t, m)
    BY <2>2, ClaimedType, AcquireType DEF TryLock
  <2>3. CASE Unlock(t, m)
    <3>1. /\ state' \in [Thread -> SUBSET Bits]
          /\ sleepReason' \in [Thread -> SleepReasons]
          /\ wakeReason' \in [Thread -> WakeReasons]
      BY <2>3 DEF Unlock, Awake, TypeOK, SleepReasons, WakeReasons
    <3>2. owner' \in [Mutex -> Thread \cup {NoThread}]
      BY <2>3 DEF Unlock, TypeOK
    <3>3. /\ pri' \in [Thread -> PriorityRecord] /\ resched' \in BOOLEAN
          /\ queue' \in [Mutex \cup Cond -> Seq(Thread)]
      BY <2>3, UnlockTypes DEF Unlock
    <3> QED BY <2>3, <3>1, <3>2, <3>3 DEF Unlock, TypeOK
  <2>4. CASE MutexRelease(t, m)
    BY <1>6, <2>4 DEF MutexRelease, WakeReasons
  <2> QED BY <2>1, <2>2, <2>3, <2>4
<1>8. ASSUME NEW t \in Thread, CondStep(t) PROVE TypeOK'
  <2> SUFFICES ASSUME NEW c \in Cond,
                      \/ Signal(t, c) \/ Broadcast(t, c)
                      \/ \E m \in Mutex : CondWait(t, c, m) \/ CondTimedWait(t, c, m)
               PROVE  TypeOK'
    BY <1>8 DEF CondStep
  <2>1. CASE Signal(t, c)
    BY <1>5, <2>1 DEF Signal
  <2>2. CASE Broadcast(t, c)
    BY <1>6, <2>2 DEF Broadcast, WakeReasons
  <2>3. ASSUME NEW m \in Mutex, CondWait(t, c, m) \/ CondTimedWait(t, c, m)
        PROVE  TypeOK'
    <3>1. "WAIT" \in SleepReasons /\ "TIMEOUT" \in SleepReasons
      BY DEF SleepReasons
    <3>2. timer' \subseteq Thread
      BY <2>3 DEF CondWait, CondTimedWait, TypeOK
    <3> QED BY <2>3, <3>1, <3>2, WaitType DEF CondWait, CondTimedWait
  <2> QED BY <2>1, <2>2, <2>3
<1>9. ASSUME NEW t \in Thread, ThreadStep(t) PROVE TypeOK'
  <2> SUFFICES ASSUME NEW x \in Thread,
                      \/ Suspend(t, x) \/ Resume(t, x) \/ Release(t, x) \/ Kill(t, x)
                      \/ \E p \in Given : SetPriority(t, x, p)
               PROVE  TypeOK'
    BY <1>9 DEF ThreadStep
  <2>1. CASE Suspend(t, x)
    BY <2>1 DEF Suspend, TypeOK, Bits
  <2>2. CASE Resume(t, x)
    <3>1. suspendCount' \in [Thread -> Nat]
      BY <2>2 DEF Resume, TypeOK
    <3>2. state' \in [Thread -> SUBSET Bits]
      BY <2>2 DEF Resume, TypeOK
    <3>3. resched' \in BOOLEAN
      BY <2>2 DEF Resume, Preempts
    <3> QED BY <2>2, <3>1, <3>2, <3>3 DEF Resume, TypeOK
  <2>3. CASE Release(t, x)
    <3>1. "BREAK" \in WakeReasons
      BY DEF WakeReasons
    <3> QED BY <2>3, <3>1, WakeType, UnlinkedType DEF Release, TypeOK
  <2>4. CASE Kill(t, x)
    <3>1. queue' \in [Mutex \cup Cond -> Seq(Thread)]
      BY <2>4, UnlinkedType DEF Kill, TypeOK
    <3>2. /\ state' \in [Thread -> SUBSET Bits] /\ suspendCount' \in [Thread -> Nat]
          /\ sleepReason' \in [Thread -> SleepReasons]
          /\ wakeReason' \in [Thread -> WakeReasons] /\ timer' \subseteq Thread
      BY <2>4 DEF Kill, TypeOK, Bits, SleepReasons, WakeReasons
    <3>3. resched' \in BOOLEAN
      BY <2>4 DEF Kill, Preempts
    <3> QED BY <2>4, <3>1, <3>2, <3>3 DEF Kill, TypeOK
  <2>5. ASSUME NEW p \in Given, SetPriority(t, x, p) PROVE TypeOK'
    <3>1. p \in Priority /\ pri[x] \in PriorityRecord
      BY StartAssumption DEF TypeOK
    <3>2. pri' \in [Thread -> PriorityRecord]
      BY <2>5, <3>1, PriorityRecordType DEF SetPriority, TypeOK
    <3>3. queue' \in [Mutex \cup Cond -> Seq(Thread)]
      BY <2>5, <3>2, RequeuedType DEF SetPriority, TypeOK
    <3>4. resched' \in BOOLEAN
      BY <2>5 DEF SetPriority
    <3> QED BY <2>5, <3>2, <3>3, <3>4 DEF SetPriority, TypeOK
  <2> QED BY <2>1, <2>2, <2>3, <2>4, <2>5
<1>10. ASSUME NEW t \in Thread, Continue(t) PROVE TypeOK'
  <2>1. pc[t] \in Place
    BY DEF TypeOK
  <2>2. pc[t].at \notin Outside => pc[t].mx \in Mutex /\ pc[t].at \in Labels \ Outside
    BY <2>1 DEF Place
  <2>3. CASE LockRetry(t)
    <3>1. pc[t].mx \in Mutex /\ pc[t].at \in Labels \ Outside
      BY <2>2, <2>3 DEF LockRetry, Outside
    <3>2. pri \in [Thread -> PriorityRecord]
      BY DEF TypeOK
    <3> QED BY <2>3, <3>1, <3>2, AcquireType, BlockType DEF LockRetry
  <2>4. CASE LockFail(t)
    <3>1. pc[t].mx \in Mutex
      BY <2>2, <2>4 DEF LockFail, Outside
    <3>2. User \in Place /\ At("relock", pc[t].mx) \in Place
      BY <3>1 DEF User, At, Place, Labels, Outside
    <3>3. Unclaim(pc[t].mx, pri[t]) \in PriorityRecord
      BY <3>1, PriorityRecordType DEF TypeOK
    <3>4. pri' \in [Thread -> PriorityRecord]
      BY <2>4, <3>3 DEF LockFail, TypeOK
    <3>5. pc' \in [Thread -> Place] /\ resched' \in BOOLEAN
      BY <2>4, <3>2 DEF LockFail, TypeOK
    <3> QED BY <2>4, <3>4, <3>5 DEF LockFail, TypeOK
  <2>5. CASE LockExit(t)
    BY <2>5, ExitNowType DEF LockExit
  <2>6. CASE CondWakeup(t)
    <3>1. CASE ExitNow(t)
      BY <3>1, ExitNowType
    <3>2. CASE ~ExitNow(t)
      <4>1. pc[t].at = "condwait" /\ pc' = [pc EXCEPT ![t].at = "relock"]
        BY <2>6, <3>2 DEF CondWakeup
      <4>2. [pc[t] EXCEPT !.at = "relock"] \in Place
        BY <2>1, <2>2, <4>1 DEF Place, Labels, Outside
      <4>3. pc' \in [Thread -> Place]
        BY <4>1, <4>2 DEF TypeOK
      <4> QED BY <2>6, <3>2, <4>3 DEF CondWakeup, TypeOK
    <3> QED BY <3>1, <3>2
  <2>7. CASE Relock(t)
    <3>1. pc[t].mx \in Mutex
      BY <2>2, <2>7 DEF Relock, Outside
    <3>2. "relocking" \in Labels \ Outside
      BY DEF Labels, Outside
    <3> QED BY <2>7, <3>1, <3>2, ClaimedType, AcquireType, BlockType DEF Relock
  <2>8. CASE DelayWakeup(t)
    <3>1. CASE ExitNow(t)
      BY <3>1, ExitNowType
    <3>2. CASE ~ExitNow(t)
      <4>1. User \in Place
        BY DEF User, At, Place, Outside
      <4> QED BY <2>8, <3>2, <4>1 DEF DelayWakeup, TypeOK
    <3> QED BY <3>1, <3>2
  <2> QED BY <1>10, <2>3, <2>4, <2>5, <2>6, <2>7, <2>8 DEF Continue
<1>11. ASSUME NEW t \in Thread, Exit(t) PROVE TypeOK'
  BY <1>11, ExitNowType DEF Exit
<1>12. ASSUME NEW t \in Thread, Delay(t) PROVE TypeOK'
  <2>1. At("delay", NoMutex) \in Place
    BY DEF At, Place, Outside
  <2>2. pc' \in [Thread -> Place]
    BY <1>12, <2>1 DEF Delay, TypeOK
  <2>3. /\ state' \in [Thread -> SUBSET Bits]
        /\ sleepReason' \in [Thread -> SleepReasons]
        /\ wakeReason' \in [Thread -> WakeReasons] /\ timer' \subseteq Thread
    <3>1. CASE Sleep(t, "DELAY") /\ timer' = timer \cup {t}
      BY <3>1 DEF Sleep, TypeOK, Bits, SleepReasons, WakeReasons
    <3>2. CASE /\ wakeReason' = [wakeReason EXCEPT ![t] = "DONE"]
               /\ UNCHANGED <<state, sleepReason, timer>>
      BY <3>2 DEF TypeOK, WakeReasons
    <3> QED BY <1>12, <3>1, <3>2 DEF Delay
  <2> QED BY <1>12, <2>2, <2>3 DEF Delay, TypeOK
<1>13. ASSUME NEW t \in Thread, NEW m \in Mutex, CondTimedWaitPast(t, m) PROVE TypeOK'
  <2>1. At("condwait", m) \in Place
    BY DEF At, Place, Labels, Outside
  <2>2. pc' \in [Thread -> Place]
    BY <1>13, <2>1 DEF CondTimedWaitPast, TypeOK
  <2>3. /\ state' \in [Thread -> SUBSET Bits]
        /\ sleepReason' \in [Thread -> SleepReasons]
        /\ wakeReason' \in [Thread -> WakeReasons]
    BY <1>13 DEF CondTimedWaitPast, Awake, TypeOK, SleepReasons, WakeReasons
  <2>4. owner' \in [Mutex -> Thread \cup {NoThread}]
    BY <1>13 DEF CondTimedWaitPast, TypeOK
  <2>5. /\ pri' \in [Thread -> PriorityRecord] /\ resched' \in BOOLEAN
        /\ queue' \in [Mutex \cup Cond -> Seq(Thread)]
    BY <1>13, UnlockTypes DEF CondTimedWaitPast
  <2> QED BY <1>13, <2>2, <2>3, <2>4, <2>5 DEF CondTimedWaitPast, TypeOK
<1> QED
  BY <1>1, <1>2, <1>3, <1>4, <1>5, <1>7, <1>8, <1>9, <1>10, <1>11, <1>12, <1>13
  DEF Next, Dsr, DsrSignal

(* Every reachable state is well typed, a thread that is inside a lock or  *)
(* a condition wait knows its mutex.                                       *)
THEOREM TypeCorrect == Spec => []TypeOK
BY TypeInit, TypeStep, PTL DEF Spec
-----------------------------------------------------------------------------
(* Implementation of the abstract monitor.                                 *)

(* What the abstract state is at each program point.                       *)
LEMMA StandingAt ==
  ASSUME TypeOK, NEW t \in Thread
  PROVE  /\ pc[t].at \in Outside => Standing[t] = M!Out
         /\ pc[t].at = "lock" => Standing[t] = M!Place("entering", pc[t].mx)
         /\ pc[t].at = "condwait" => Standing[t] = M!Place("waiting", pc[t].mx)
         /\ pc[t].at \in {"relock", "relocking"} => Standing[t] = M!Place("returning", pc[t].mx)
<1>1. pc[t] \in Place
  BY DEF TypeOK
<1>2. pc[t].at \in Outside => pc[t].mx = NoMutex
  BY <1>1 DEF Place, Outside
<1> QED BY <1>2 DEF Standing, Stand, Outside, M!Out, M!Place

(* A thread that moves inside the kernel moves in the abstract state.      *)
LEMMA StandingStep ==
  ASSUME TypeOK, NEW t \in Thread, NEW at, NEW m, pc' = [pc EXCEPT ![t] = At(at, m)]
  PROVE  Standing' = [Standing EXCEPT ![t] = [stand |-> Stand(at), mx |-> m]]
BY DEF TypeOK, Standing, At

LEMMA StandingSame ==
  ASSUME UNCHANGED <<owner, pc>>
  PROVE  UNCHANGED M!vars
BY DEF M!vars, Standing

LEMMA TakeStep ==
  ASSUME TypeOK, NEW t \in Thread, NEW m \in Mutex, NEW pr, Acquire(t, m, pr),
         Standing[t] \in {M!Out, M!Place("entering", m), M!Place("returning", m)}
  PROVE  M!Next
<1>1. Standing' = [Standing EXCEPT ![t] = M!Out]
  <2>1. pc' = [pc EXCEPT ![t] = At("user", NoMutex)]
    BY DEF Acquire, User
  <2>2. Standing' = [Standing EXCEPT ![t] = [stand |-> Stand("user"), mx |-> NoMutex]]
    BY <2>1, StandingStep
  <2> QED BY <2>2 DEF Stand, Outside, M!Out, M!Place
<1>2. M!Take(t, m)
  BY <1>1 DEF M!Take, Acquire
<1> QED BY <1>2 DEF M!Next

LEMMA MonitorInit == Init => M!Init
BY DEF Init, M!Init, User, At, Standing, Stand, Outside, M!Out, M!Place

(* Every step of the kernel is a step of the monitor or changes nothing    *)
(* its users see.                                                          *)
LEMMA MonitorStep == TypeOK /\ [Next]_vars => [M!Next]_(M!vars)
<1> SUFFICES ASSUME TypeOK, [Next]_vars PROVE M!Next \/ UNCHANGED M!vars
  OBVIOUS
<1> USE DEF Calling, Running
<1> DEFINE Goal == M!Next \/ UNCHANGED M!vars
<1>1. CASE UNCHANGED vars \/ Dispatch \/ Timeslice
  BY <1>1, StandingSame DEF vars, Dispatch, DispatchTo, Timeslice
<1>2. ASSUME NEW x \in Thread, TimerAlarm(x) PROVE Goal
  BY <1>2, StandingSame DEF TimerAlarm
<1>3. ASSUME NEW c \in Cond, SignalOne(c) PROVE Goal
  BY <1>3, StandingSame DEF SignalOne
<1>4. ASSUME NEW t \in Thread, ThreadStep(t) PROVE Goal
  BY <1>4, StandingSame DEF ThreadStep, Suspend, Resume, Release, Kill, SetPriority
<1>5. ASSUME NEW t \in Thread, ExitNow(t) PROVE Goal
  BY <1>5, StandingSame DEF ExitNow
<1>6. ASSUME NEW t \in Thread, MutexStep(t) PROVE Goal
  <2> SUFFICES ASSUME NEW m \in Mutex,
                      Lock(t, m) \/ TryLock(t, m) \/ Unlock(t, m) \/ MutexRelease(t, m)
               PROVE  Goal
    BY <1>6 DEF MutexStep
  <2>1. ASSUME pc[t].at = "user" PROVE Standing[t] = M!Out
    BY <2>1, StandingAt DEF Outside
  <2>2. CASE Lock(t, m)
    <3>1. CASE Acquire(t, m, Claimed(t, m))
      BY <2>1, <2>2, <3>1, TakeStep DEF Lock
    <3>2. CASE Block(t, m, Claimed(t, m), "lock")
      <4>1. pc' = [pc EXCEPT ![t] = At("lock", m)] /\ UNCHANGED owner
        BY <3>2 DEF Block
      <4>2. Standing' = [Standing EXCEPT ![t] = [stand |-> Stand("lock"), mx |-> m]]
        BY <4>1, StandingStep
      <4>3. owner[m] \notin {NoThread, t}
        BY <2>2, <3>2, NoThreadAssumption DEF Block, Lock
      <4>4. Stand("lock") = "entering"
        BY DEF Stand, Outside
      <4>5. M!Enter(t, m)
        BY <2>1, <2>2, <4>1, <4>2, <4>3, <4>4 DEF M!Enter, M!Place, Lock
      <4> QED BY <4>5 DEF M!Next
    <3> QED BY <2>2, <3>1, <3>2 DEF Lock
  <2>3. CASE TryLock(t, m)
    BY <2>1, <2>3, TakeStep DEF TryLock
  <2>4. CASE Unlock(t, m)
    <3>1. UNCHANGED Standing
      BY <2>4 DEF Unlock, Standing
    <3>2. M!Leave(t, m)
      BY <2>1, <2>4, <3>1 DEF Unlock, M!Leave
    <3> QED BY <3>2 DEF M!Next
  <2>5. CASE MutexRelease(t, m)
    BY <2>5, StandingSame DEF MutexRelease
  <2> QED BY <2>2, <2>3, <2>4, <2>5
<1>7. ASSUME NEW t \in Thread, NEW m \in Mutex, pc[t].at = "user", owner[m] = t,
             owner' = [owner EXCEPT ![m] = NoThread], pc' = [pc EXCEPT ![t] = At("condwait", m)]
      PROVE  Goal
  <2>1. Standing' = [Standing EXCEPT ![t] = [stand |-> Stand("condwait"), mx |-> m]]
    BY <1>7, StandingStep
  <2>2. Stand("condwait") = "waiting" /\ Standing[t] = M!Out
    BY <1>7, StandingAt DEF Stand, Outside
  <2>3. M!StartWait(t, m)
    BY <1>7, <2>1, <2>2 DEF M!StartWait, M!Place
  <2> QED BY <2>3 DEF M!Next
<1>8. ASSUME NEW t \in Thread, CondStep(t) PROVE Goal
  <2> SUFFICES ASSUME NEW c \in Cond,
                      \/ Signal(t, c) \/ Broadcast(t, c)
                      \/ \E m \in Mutex : CondWait(t, c, m) \/ CondTimedWait(t, c, m)
               PROVE  Goal
    BY <1>8 DEF CondStep
  <2>1. CASE Signal(t, c) \/ Broadcast(t, c)
    BY <1>3, <2>1, StandingSame DEF Signal, Broadcast
  <2>2. ASSUME NEW m \in Mutex, CondWait(t, c, m) \/ CondTimedWait(t, c, m) PROVE Goal
    BY <1>7, <2>2 DEF CondWait, CondTimedWait, Wait
  <2> QED BY <2>1, <2>2
<1>9. ASSUME NEW t \in Thread, Continue(t) PROVE Goal
  <2>1. pc[t] \in Place
    BY DEF TypeOK
  <2>2. pc[t].at \notin Outside => pc[t].mx \in Mutex
    BY <2>1 DEF Place
  <2>3. pc[t] = At(pc[t].at, pc[t].mx)
    BY <2>1 DEF Place, At
  <2> DEFINE m == pc[t].mx
  <2>4. CASE LockRetry(t)
    <3>1. m \in Mutex /\ Standing[t] \in {M!Place("entering", m), M!Place("returning", m)}
      BY <2>2, <2>4, StandingAt DEF LockRetry, Outside
    <3>2. CASE Acquire(t, m, pri)
      BY <3>1, <3>2, TakeStep
    <3>3. CASE Block(t, m, pri, pc[t].at)
      <4>1. UNCHANGED <<owner, pc>>
        BY <2>3, <3>3 DEF Block, TypeOK
      <4> QED BY <4>1, StandingSame
    <3> QED BY <2>4, <3>2, <3>3 DEF LockRetry
  <2>5. CASE LockFail(t)
    <3>1. CASE pc[t].at = "lock"
      <4>1. pc' = [pc EXCEPT ![t] = At("user", NoMutex)] /\ UNCHANGED owner
        BY <2>5, <3>1 DEF LockFail, User
      <4>2. Standing' = [Standing EXCEPT ![t] = [stand |-> Stand("user"), mx |-> NoMutex]]
        BY <4>1, StandingStep
      <4>3. Standing' = [Standing EXCEPT ![t] = M!Out]
        BY <4>2 DEF Stand, Outside, M!Out, M!Place
      <4>4. Standing[t].stand = "entering"
        <5>1. Standing[t] = M!Place("entering", pc[t].mx)
          BY <3>1, StandingAt
        <5> QED BY <5>1 DEF M!Place
      <4>5. M!GiveUp(t)
        BY <4>1, <4>3, <4>4 DEF M!GiveUp
      <4> QED BY <4>5 DEF M!Next
    <3>2. CASE pc[t].at = "relocking"
      <4>1. pc' = [pc EXCEPT ![t] = At("relock", m)] /\ UNCHANGED owner
        BY <2>5, <3>2 DEF LockFail
      <4>2. Standing' = [Standing EXCEPT ![t] = [stand |-> Stand("relock"), mx |-> m]]
        BY <4>1, StandingStep
      <4>3. Standing[t] = [stand |-> Stand("relock"), mx |-> m]
        BY <3>2, StandingAt DEF M!Place, Stand, Outside
      <4>4. UNCHANGED Standing
        BY <4>2, <4>3 DEF Standing
      <4> QED BY <4>1, <4>4 DEF M!vars
    <3> QED BY <2>5, <3>1, <3>2 DEF LockFail
  <2>6. CASE LockExit(t)
    BY <1>5, <2>6 DEF LockExit
  <2>7. CASE CondWakeup(t)
    <3>1. CASE ExitNow(t)
      BY <1>5, <3>1
    <3>2. CASE ~ExitNow(t)
      <4>1. /\ pc[t].at = "condwait" /\ pc' = [pc EXCEPT ![t].at = "relock"]
            /\ UNCHANGED owner
        BY <2>7, <3>2 DEF CondWakeup
      <4>2. pc' = [pc EXCEPT ![t] = At("relock", m)]
        <5>1. [pc[t] EXCEPT !.at = "relock"] = At("relock", m)
          BY <2>3 DEF At
        <5>2. pc' = [pc EXCEPT ![t] = [pc[t] EXCEPT !.at = "relock"]]
          BY <4>1
        <5> QED BY <5>1, <5>2
      <4>3. Standing' = [Standing EXCEPT ![t] = [stand |-> Stand("relock"), mx |-> m]]
        BY <4>2, StandingStep
      <4>4. Standing[t] = M!Place("waiting", m) /\ Stand("relock") = "returning"
        BY <4>1, StandingAt DEF Stand, Outside
      <4>5. M!EndWait(t)
        BY <4>1, <4>3, <4>4 DEF M!EndWait, M!Place, Standing
      <4> QED BY <4>5 DEF M!Next
    <3> QED BY <3>1, <3>2
  <2>8. CASE Relock(t)
    <3>1. m \in Mutex /\ Standing[t] = M!Place("returning", m)
      BY <2>2, <2>8, StandingAt DEF Relock, Outside
    <3>2. CASE Acquire(t, m, Claimed(t, m))
      BY <3>1, <3>2, TakeStep
    <3>3. CASE Block(t, m, Claimed(t, m), "relocking")
      <4>1. pc' = [pc EXCEPT ![t] = At("relocking", m)] /\ UNCHANGED owner
        BY <3>3 DEF Block
      <4>2. Standing' = [Standing EXCEPT ![t] = [stand |-> Stand("relocking"), mx |-> m]]
        BY <4>1, StandingStep
      <4>3. Standing[t] = [stand |-> Stand("relocking"), mx |-> m]
        BY <3>1 DEF M!Place, Stand, Outside
      <4>4. UNCHANGED Standing
        BY <4>2, <4>3 DEF Standing
      <4> QED BY <4>1, <4>4 DEF M!vars
    <3> QED BY <2>8, <3>2, <3>3 DEF Relock
  <2>9. CASE DelayWakeup(t)
    <3>1. CASE ExitNow(t)
      BY <1>5, <3>1
    <3>2. CASE ~ExitNow(t)
      <4>1. pc[t].at = "delay" /\ pc' = [pc EXCEPT ![t] = At("user", NoMutex)] /\ UNCHANGED owner
        BY <2>9, <3>2 DEF DelayWakeup, User
      <4>2. Standing' = [Standing EXCEPT ![t] = [stand |-> Stand("user"), mx |-> NoMutex]]
        BY <4>1, StandingStep
      <4>3. Standing[t] = [stand |-> Stand("user"), mx |-> NoMutex]
        BY <4>1, StandingAt DEF M!Out, M!Place, Stand, Outside
      <4>4. UNCHANGED Standing
        BY <4>2, <4>3 DEF Standing
      <4> QED BY <4>1, <4>4 DEF M!vars
    <3> QED BY <3>1, <3>2
  <2> QED BY <1>9, <2>4, <2>5, <2>6, <2>7, <2>8, <2>9 DEF Continue
<1>10. ASSUME NEW t \in Thread, Delay(t) PROVE Goal
  <2>1. pc[t].at = "user" /\ pc' = [pc EXCEPT ![t] = At("delay", NoMutex)] /\ UNCHANGED owner
    BY <1>10 DEF Delay
  <2>2. Standing' = [Standing EXCEPT ![t] = [stand |-> Stand("delay"), mx |-> NoMutex]]
    BY <2>1, StandingStep
  <2>3. Standing[t] = [stand |-> Stand("delay"), mx |-> NoMutex]
    BY <2>1, StandingAt DEF M!Out, M!Place, Stand, Outside
  <2>4. UNCHANGED Standing
    BY <2>2, <2>3 DEF Standing
  <2> QED BY <2>1, <2>4 DEF M!vars
<1>11. ASSUME NEW t \in Thread, NEW m \in Mutex, CondTimedWaitPast(t, m) PROVE Goal
  BY <1>7, <1>11 DEF CondTimedWaitPast
<1> QED
  BY <1>1, <1>2, <1>3, <1>4, <1>5, <1>6, <1>8, <1>9, <1>10, <1>11
  DEF Next, Dsr, DsrSignal, Exit

(* The kernel implements module Monitor: whatever the priorities, the      *)
(* timeouts and the calls of other threads do, a mutex is taken only when  *)
(* free and freed only by its owner, and a condition wait frees the mutex  *)
(* as it goes to sleep and returns only with the mutex.                    *)
THEOREM ImplementsMonitor == Spec => MonitorSpec
<1>1. Init => M!Init
  BY MonitorInit
<1>2. TypeOK /\ [Next]_vars => [M!Next]_(M!vars)
  BY MonitorStep
<1> QED BY <1>1, <1>2, TypeCorrect, PTL DEF Spec, MonitorSpec, M!Spec
-----------------------------------------------------------------------------
(* The wait queues.                                                        *)

Queues == Mutex \cup Cond

(* A thread inside lock() or a condition wait does not own its mutex.      *)
ClaimsOthers ==
  \A t \in Thread : pc[t].at \notin Outside => owner[pc[t].mx] # t

(* The inductive invariant of the wait queues.                             *)
WaitInv == TypeOK /\ ClaimsOthers /\ QueueOK /\ QueuesSorted

LEMMA MembersAreThreads ==
  ASSUME NEW q \in Seq(Thread) PROVE ToSet(q) \subseteq Thread
BY LenProperties DEF ToSet

LEMMA SortedAgree ==
  ASSUME NEW q \in Seq(Thread), NEW p1 \in [Thread -> Int], NEW p2 \in [Thread -> Int],
         \A x \in ToSet(q) : p1[x] = p2[x], Sorted(q, p1)
  PROVE  Sorted(q, p2)
<1>1. \A i \in DOMAIN q : p1[q[i]] = p2[q[i]]
  BY DEF ToSet
<1> QED BY <1>1 DEF Sorted

(* Requeueing changes nobody's queue and repairs the order that the new    *)
(* priority of x has upset.                                                *)
LEMMA RequeuedProperties ==
  ASSUME NEW qs \in [Queues -> Seq(Thread)], NEW x \in Thread,
         NEW p1 \in [Thread -> PriorityRecord], NEW p2 \in [Thread -> PriorityRecord],
         \A y \in Thread \ {x} : p1[y].cur = p2[y].cur,
         NEW q \in Queues, NoDuplicates(qs[q]), Sorted(qs[q], Cur(p1))
  PROVE  /\ ToSet(Requeued(qs, x, p2)[q]) = ToSet(qs[q])
         /\ NoDuplicates(Requeued(qs, x, p2)[q])
         /\ Sorted(Requeued(qs, x, p2)[q], Cur(p2))
<1>1. /\ qs[q] \in Seq(Thread)
      /\ Cur(p1) \in [Thread -> Int] /\ Cur(p2) \in [Thread -> Int]
  BY CurType
<1>2. \A y \in Thread \ {x} : Cur(p1)[y] = Cur(p2)[y]
  BY DEF Cur
<1>3. ToSet(qs[q]) \subseteq Thread
  BY <1>1, MembersAreThreads
<1>4. CASE x \notin ToSet(qs[q])
  <2>1. Requeued(qs, x, p2)[q] = qs[q]
    BY <1>4 DEF Requeued, Queues
  <2>2. Sorted(qs[q], Cur(p2))
    BY <1>1, <1>2, <1>3, <1>4, SortedAgree
  <2> QED BY <2>1, <2>2
<1>5. CASE x \in ToSet(qs[q])
  <2> DEFINE rest == remove(qs[q], x)
  <2>1. Requeued(qs, x, p2)[q] = enqueue(rest, x, Cur(p2))
    BY <1>5 DEF Requeued, Queues
  <2>2. /\ rest \in Seq(Thread) /\ NoDuplicates(rest)
        /\ ToSet(rest) = ToSet(qs[q]) \ {x} /\ Sorted(rest, Cur(p1))
    BY <1>1, RemoveProperties
  <2> HIDE DEF rest
  <2>3. Sorted(rest, Cur(p2))
    BY <1>1, <1>2, <1>3, <2>2, SortedAgree
  <2>4. /\ ToSet(enqueue(rest, x, Cur(p2))) = ToSet(rest) \cup {x}
        /\ x \notin ToSet(rest) => NoDuplicates(enqueue(rest, x, Cur(p2)))
        /\ Sorted(enqueue(rest, x, Cur(p2)), Cur(p2))
    BY <1>1, <2>2, <2>3, EnqueueProperties
  <2> QED BY <1>5, <2>1, <2>2, <2>4
<1> QED BY <1>4, <1>5

(* A thread that can run waits for nothing.                                *)
LEMMA RunningNotQueued ==
  ASSUME TypeOK, QueueOK, NEW t \in Thread, Running(t)
  PROVE  \A q \in Queues : t \notin ToSet(queue[q])
BY DEF QueueOK, OnQueue, Running, Ready, Queues, TypeOK

(* A thread that stays on its queue, and one that goes to sleep on one.    *)
Stays(t, q) ==
  t \in ToSet(queue[q]) /\ pc'[t] = pc[t] /\ sleepReason'[t] = sleepReason[t]
    /\ "SLEEPING" \in state'[t]

Joins(t, q) ==
  /\ \A r \in Queues : t \notin ToSet(queue[r])
  /\ \A r \in Queues : t \in ToSet(queue'[r]) => r = q
  /\ "SLEEPING" \in state'[t] /\ Waits(t, q)'

LEMMA QueueStep ==
  ASSUME TypeOK, TypeOK', ClaimsOthers', QueueOK,
         \A q \in Queues : NoDuplicates(queue'[q]),
         \A q \in Queues : \A t \in ToSet(queue'[q]) : Stays(t, q) \/ Joins(t, q)
  PROVE  QueueOK'
<1>1. DOMAIN queue = Queues /\ DOMAIN queue' = Queues
  BY DEF TypeOK, Queues
<1>2. ASSUME NEW t \in Thread, NEW q \in Queues, t \in ToSet(queue'[q])
      PROVE  /\ "SLEEPING" \in state'[t] /\ Waits(t, q)'
             /\ \A r \in Queues : t \in ToSet(queue'[r]) => r = q
  <2>1. CASE Joins(t, q)
    BY <2>1 DEF Joins
  <2>2. CASE Stays(t, q)
    <3>1. Waits(t, q) /\ \A r \in Queues : t \in ToSet(queue[r]) => r = q
      BY <1>1, <2>2 DEF QueueOK, OnQueue, Stays
    <3>2. Waits(t, q)'
      BY <2>2, <3>1 DEF Waits, Stays
    <3>3. \A r \in Queues : t \in ToSet(queue'[r]) => r = q
      BY <2>2, <3>1 DEF Stays, Joins
    <3> QED BY <2>2, <3>2, <3>3 DEF Stays
  <2> QED BY <1>2, <2>1, <2>2
<1>3. ASSUME NEW m \in Mutex PROVE owner'[m] \notin ToSet(queue'[m])
  <2> SUFFICES ASSUME NEW t \in ToSet(queue'[m]) PROVE owner'[m] # t
    OBVIOUS
  <2>1. queue'[m] \in Seq(Thread)
    BY DEF TypeOK
  <2>2. t \in Thread
    BY <2>1, MembersAreThreads
  <2>3. Waits(t, m)'
    BY <1>2, <2>2 DEF Queues
  <2>4. pc'[t].at \notin Outside /\ pc'[t].mx = m
    BY <2>3 DEF Waits, Outside
  <2> QED BY <2>2, <2>4 DEF ClaimsOthers
<1> QED BY <1>1, <1>2, <1>3 DEF QueueOK, OnQueue

(* A step by which threads only leave queues, and the ones that stay keep  *)
(* what makes them waiters and their priority.                             *)
LEMMA LeaveStep ==
  ASSUME WaitInv, TypeOK', ClaimsOthers',
         \A q \in Queues : NoDuplicates(queue'[q]) /\ Sorted(queue'[q], Cur(pri)),
         \A q \in Queues : \A t \in ToSet(queue'[q]) : Stays(t, q) /\ pri'[t].cur = pri[t].cur
  PROVE  WaitInv'
<1>1. QueueOK'
  BY QueueStep DEF WaitInv
<1>2. ASSUME NEW q \in Queues PROVE Sorted(queue'[q], Cur(pri'))
  <2>1. /\ queue'[q] \in Seq(Thread)
        /\ pri \in [Thread -> PriorityRecord] /\ pri' \in [Thread -> PriorityRecord]
    BY DEF TypeOK, WaitInv, Queues
  <2>2. Cur(pri) \in [Thread -> Int] /\ Cur(pri') \in [Thread -> Int]
    BY <2>1, CurType
  <2>3. ToSet(queue'[q]) \subseteq Thread
    BY <2>1, MembersAreThreads
  <2>4. \A x \in ToSet(queue'[q]) : Cur(pri)[x] = Cur(pri')[x]
    BY <2>3 DEF Cur
  <2> QED BY <2>1, <2>2, <2>4, SortedAgree
<1>3. QueuesSorted'
  BY <1>2 DEF QueuesSorted, TypeOK, Queues
<1> QED BY <1>1, <1>3 DEF WaitInv

(* A step that leaves the queues and all who are on them alone.            *)
LEMMA QuietStep ==
  ASSUME WaitInv, TypeOK', ClaimsOthers', queue' = queue,
         \A q \in Queues : \A t \in ToSet(queue[q]) : Stays(t, q) /\ pri'[t].cur = pri[t].cur
  PROVE  WaitInv'
<1>1. \A q \in Queues : NoDuplicates(queue'[q]) /\ Sorted(queue'[q], Cur(pri))
  BY DEF WaitInv, QueueOK, QueuesSorted, TypeOK, Queues
<1> QED BY <1>1, LeaveStep

(* What a waiting thread is known to be.                                   *)
LEMMA Waiter ==
  ASSUME WaitInv, NEW q \in Queues, NEW t \in ToSet(queue[q])
  PROVE  t \in Thread /\ "SLEEPING" \in state[t]
<1>1. queue[q] \in Seq(Thread)
  BY DEF WaitInv, TypeOK, Queues
<1>2. t \in Thread
  BY <1>1, MembersAreThreads
<1> QED BY <1>2 DEF WaitInv, QueueOK, OnQueue, TypeOK, Queues

LEMMA StillStep ==
  ASSUME WaitInv, TypeOK', ClaimsOthers', UNCHANGED <<queue, pc, sleepReason, pri>>,
         \A t \in Thread : "SLEEPING" \in state[t] => "SLEEPING" \in state'[t]
  PROVE  WaitInv'
<1>1. ASSUME NEW q \in Queues, NEW t \in ToSet(queue[q])
      PROVE  Stays(t, q) /\ pri'[t].cur = pri[t].cur
  <2>1. t \in Thread /\ "SLEEPING" \in state[t]
    BY Waiter
  <2> QED BY <2>1 DEF Stays
<1> QED BY <1>1, QuietStep

(* Only a thread that is not on a queue changes.                           *)
LEMMA OwnStep ==
  ASSUME WaitInv, TypeOK', ClaimsOthers', UNCHANGED queue, NEW x \in Thread,
         \A q \in Queues : x \notin ToSet(queue[q]),
         \A t \in Thread \ {x} : /\ pc'[t] = pc[t] /\ sleepReason'[t] = sleepReason[t]
                                 /\ state'[t] = state[t] /\ pri'[t].cur = pri[t].cur
  PROVE  WaitInv'
<1>1. ASSUME NEW q \in Queues, NEW t \in ToSet(queue[q])
      PROVE  Stays(t, q) /\ pri'[t].cur = pri[t].cur
  <2>1. t \in Thread \ {x} /\ "SLEEPING" \in state[t]
    BY Waiter
  <2> QED BY <2>1 DEF Stays
<1> QED BY <1>1, QuietStep

(* A step that takes one thread off whatever queue it is on.               *)
LEMMA UnlinkStep ==
  ASSUME WaitInv, TypeOK', ClaimsOthers', NEW x \in Thread, queue' = Unlinked(x), pri' = pri,
         \A t \in Thread \ {x} : /\ pc'[t] = pc[t] /\ sleepReason'[t] = sleepReason[t]
                                 /\ state'[t] = state[t]
  PROVE  WaitInv'
<1>1. ASSUME NEW q \in Queues
      PROVE  /\ NoDuplicates(queue'[q]) /\ Sorted(queue'[q], Cur(pri))
             /\ ToSet(queue'[q]) = ToSet(queue[q]) \ {x}
  <2>1. /\ queue[q] \in Seq(Thread) /\ Cur(pri) \in [Thread -> Int]
        /\ NoDuplicates(queue[q]) /\ Sorted(queue[q], Cur(pri))
    BY CurType DEF WaitInv, TypeOK, Queues, QueueOK, QueuesSorted
  <2>2. queue'[q] = remove(queue[q], x)
    BY DEF Unlinked, WaitInv, TypeOK, Queues
  <2> QED BY <2>1, <2>2, RemoveProperties
<1>2. ASSUME NEW q \in Queues, NEW t \in ToSet(queue'[q])
      PROVE  Stays(t, q) /\ pri'[t].cur = pri[t].cur
  <2>1. queue[q] \in Seq(Thread)
    BY DEF WaitInv, TypeOK, Queues
  <2>2. t \in Thread \ {x} /\ t \in ToSet(queue[q])
    BY <1>1, <2>1, MembersAreThreads
  <2>3. "SLEEPING" \in state[t]
    BY <2>2 DEF WaitInv, QueueOK, OnQueue, TypeOK, Queues
  <2> QED BY <2>2, <2>3 DEF Stays
<1> QED BY <1>1, <1>2, LeaveStep

LEMMA ClaimsStep == TypeOK /\ ClaimsOthers /\ [Next]_vars => ClaimsOthers'
<1> SUFFICES ASSUME TypeOK, ClaimsOthers, [Next]_vars PROVE ClaimsOthers'
  OBVIOUS
<1> USE DEF Calling, Running
<1>1. \A t \in Thread : pc[t].at \notin Outside => pc[t].mx \in Mutex
  BY DEF TypeOK, Place
<1>2. ASSUME UNCHANGED <<owner, pc>> PROVE ClaimsOthers'
  BY <1>2 DEF ClaimsOthers
<1>3. ASSUME NEW t \in Thread, NEW at, NEW m, pc' = [pc EXCEPT ![t] = At(at, m)],
             UNCHANGED owner, at \notin Outside => owner[m] # t
      PROVE  ClaimsOthers'
  <2> SUFFICES ASSUME NEW u \in Thread, pc'[u].at \notin Outside PROVE owner'[pc'[u].mx] # u
    BY DEF ClaimsOthers
  <2>1. CASE u = t
    <3>1. pc'[u] = At(at, m)
      BY <1>3, <2>1 DEF TypeOK
    <3> QED BY <1>3, <2>1, <3>1 DEF At
  <2>2. CASE u # t
    <3>1. pc'[u] = pc[u]
      BY <1>3, <2>2 DEF TypeOK
    <3> QED BY <1>3, <3>1 DEF ClaimsOthers
  <2> QED BY <2>1, <2>2
<1>4. ASSUME NEW t \in Thread, NEW m \in Mutex, NEW pr, Acquire(t, m, pr) PROVE ClaimsOthers'
  <2>1. /\ owner' = [owner EXCEPT ![m] = t] /\ pc' = [pc EXCEPT ![t] = User]
        /\ User.at \in Outside
    BY <1>4 DEF Acquire, User, At, Outside
  <2> SUFFICES ASSUME NEW u \in Thread, pc'[u].at \notin Outside PROVE owner'[pc'[u].mx] # u
    BY DEF ClaimsOthers
  <2>2. u # t /\ pc'[u] = pc[u]
    BY <2>1 DEF TypeOK
  <2>3. pc[u].mx \in Mutex /\ owner[pc[u].mx] # u
    BY <1>1, <2>2 DEF ClaimsOthers
  <2> QED BY <2>1, <2>2, <2>3 DEF TypeOK
<1>5. ASSUME NEW m \in Mutex, owner' = [owner EXCEPT ![m] = NoThread],
             \/ UNCHANGED pc
             \/ \E t \in Thread : pc' = [pc EXCEPT ![t] = At("condwait", m)]
      PROVE  ClaimsOthers'
  <2> SUFFICES ASSUME NEW u \in Thread, pc'[u].at \notin Outside PROVE owner'[pc'[u].mx] # u
    BY DEF ClaimsOthers
  <2>1. NoThread # u
    BY NoThreadAssumption
  <2>2. pc'[u] = pc[u] \/ pc'[u] = At("condwait", m)
    BY <1>5 DEF TypeOK
  <2>3. CASE pc'[u] = pc[u]
    <3>1. pc[u].mx \in Mutex /\ owner[pc[u].mx] # u
      BY <1>1, <2>3 DEF ClaimsOthers
    <3> QED BY <1>5, <2>1, <2>3, <3>1 DEF TypeOK
  <2>4. CASE pc'[u] = At("condwait", m)
    BY <1>5, <2>1, <2>4 DEF TypeOK, At
  <2> QED BY <2>2, <2>3, <2>4
<1>6. CASE UNCHANGED vars \/ Dispatch \/ Timeslice
  BY <1>2, <1>6 DEF vars, Dispatch, DispatchTo, Timeslice
<1>7. ASSUME NEW x \in Thread, TimerAlarm(x) PROVE ClaimsOthers'
  BY <1>2, <1>7 DEF TimerAlarm
<1>8. ASSUME NEW c \in Cond, SignalOne(c) PROVE ClaimsOthers'
  BY <1>2, <1>8 DEF SignalOne
<1>9. ASSUME NEW t \in Thread, ThreadStep(t) PROVE ClaimsOthers'
  BY <1>2, <1>9 DEF ThreadStep, Suspend, Resume, Release, Kill, SetPriority
<1>10. ASSUME NEW t \in Thread, ExitNow(t) PROVE ClaimsOthers'
  BY <1>2, <1>10 DEF ExitNow
<1>11. ASSUME NEW t \in Thread, MutexStep(t) PROVE ClaimsOthers'
  <2> SUFFICES ASSUME NEW m \in Mutex,
                      Lock(t, m) \/ TryLock(t, m) \/ Unlock(t, m) \/ MutexRelease(t, m)
               PROVE  ClaimsOthers'
    BY <1>11 DEF MutexStep
  <2>1. CASE Lock(t, m)
    <3>1. CASE Acquire(t, m, Claimed(t, m))
      BY <1>4, <3>1
    <3>2. CASE Block(t, m, Claimed(t, m), "lock")
      <4>1. pc' = [pc EXCEPT ![t] = At("lock", m)] /\ UNCHANGED owner /\ owner[m] # t
        BY <2>1, <3>2 DEF Lock, Block
      <4> QED BY <1>3, <4>1
    <3> QED BY <2>1, <3>1, <3>2 DEF Lock
  <2>2. CASE TryLock(t, m)
    BY <1>4, <2>2 DEF TryLock
  <2>3. CASE Unlock(t, m)
    BY <1>5, <2>3 DEF Unlock
  <2>4. CASE MutexRelease(t, m)
    BY <1>2, <2>4 DEF MutexRelease
  <2> QED BY <2>1, <2>2, <2>3, <2>4
<1>12. ASSUME NEW t \in Thread, CondStep(t) PROVE ClaimsOthers'
  <2>1. CASE \E c \in Cond : Signal(t, c) \/ Broadcast(t, c)
    BY <1>2, <1>8, <2>1 DEF Signal, Broadcast
  <2>2. ASSUME NEW c \in Cond, NEW m \in Mutex, NEW reason, Wait(t, c, m, reason)
        PROVE  ClaimsOthers'
    BY <1>5, <2>2 DEF Wait
  <2> QED BY <1>12, <2>1, <2>2 DEF CondStep, CondWait, CondTimedWait
<1>13. ASSUME NEW t \in Thread, Continue(t) PROVE ClaimsOthers'
  <2> DEFINE m == pc[t].mx
  <2>1. ASSUME pc[t].at \notin Outside PROVE m \in Mutex /\ owner[m] # t
    BY <1>1, <2>1 DEF ClaimsOthers
  <2>2. ASSUME NEW pr, NEW label, pc[t].at \notin Outside,
               Acquire(t, m, pr) \/ Block(t, m, pr, label)
        PROVE  ClaimsOthers'
    <3>1. CASE Acquire(t, m, pr)
      BY <1>4, <2>1, <2>2, <3>1
    <3>2. CASE Block(t, m, pr, label)
      <4>1. pc' = [pc EXCEPT ![t] = At(label, m)] /\ UNCHANGED owner
        BY <3>2 DEF Block
      <4> QED BY <1>3, <2>1, <2>2, <4>1
    <3> QED BY <2>2, <3>1, <3>2
  <2>3. CASE LockRetry(t) \/ Relock(t)
    BY <2>2, <2>3 DEF LockRetry, Relock, Outside
  <2>4. CASE LockFail(t)
    <3>1. pc[t].at \notin Outside /\ UNCHANGED owner
      BY <2>4 DEF LockFail, Outside
    <3>2. \/ pc' = [pc EXCEPT ![t] = At("user", NoMutex)]
          \/ pc' = [pc EXCEPT ![t] = At("relock", m)]
      BY <2>4 DEF LockFail, User
    <3>3. "user" \in Outside
      BY DEF Outside
    <3> QED BY <1>3, <2>1, <3>1, <3>2, <3>3
  <2>5. CASE LockExit(t)
    BY <1>10, <2>5 DEF LockExit
  <2>6. CASE CondWakeup(t) /\ ~ExitNow(t)
    <3>1. pc[t].at \notin Outside /\ pc' = [pc EXCEPT ![t].at = "relock"] /\ UNCHANGED owner
      BY <2>6 DEF CondWakeup, Outside
    <3>2. pc[t] = At(pc[t].at, m)
      BY DEF TypeOK, Place, At
    <3>3. [pc[t] EXCEPT !.at = "relock"] = At("relock", m)
      BY <3>2 DEF At
    <3>4. pc' = [pc EXCEPT ![t] = [pc[t] EXCEPT !.at = "relock"]]
      BY <3>1
    <3>5. pc' = [pc EXCEPT ![t] = At("relock", m)]
      BY <3>3, <3>4
    <3>6. owner[m] # t
      BY <2>1, <3>1
    <3>7. owner' = owner
      BY <2>6 DEF CondWakeup
    <3> HIDE DEF m
    <3> QED BY <1>3, <3>5, <3>6, <3>7, Zenon
  <2>7. CASE DelayWakeup(t) /\ ~ExitNow(t)
    <3>1. pc' = [pc EXCEPT ![t] = At("user", NoMutex)] /\ UNCHANGED owner
      BY <2>7 DEF DelayWakeup, User
    <3>2. "user" \in Outside
      BY DEF Outside
    <3> QED BY <1>3, <3>1, <3>2
  <2> QED BY <1>10, <1>13, <2>3, <2>4, <2>5, <2>6, <2>7 DEF Continue
<1>14. ASSUME NEW t \in Thread, Delay(t) PROVE ClaimsOthers'
  BY <1>14 DEF Delay, ClaimsOthers, TypeOK, At, Outside
<1>15. ASSUME NEW t \in Thread, NEW m \in Mutex, CondTimedWaitPast(t, m) PROVE ClaimsOthers'
  BY <1>5, <1>15 DEF CondTimedWaitPast
<1> QED
  BY <1>6, <1>7, <1>8, <1>9, <1>10, <1>11, <1>12, <1>13, <1>14, <1>15
  DEF Next, Dsr, DsrSignal, Exit

(* The queues when the head of one of them has left.                       *)
LEMMA HeadGone ==
  ASSUME WaitInv, NEW r \in Queues, queue[r] # <<>>, NEW q \in Queues
  PROVE  LET left == [queue EXCEPT ![r] = Tail(@)][q]
         IN  /\ left \in Seq(Thread) /\ NoDuplicates(left) /\ Sorted(left, Cur(pri))
             /\ ToSet(left) \subseteq ToSet(queue[q]) \ {Head(queue[r])}
<1>1. /\ queue \in [Queues -> Seq(Thread)] /\ DOMAIN queue = Queues
      /\ queue[q] \in Seq(Thread) /\ queue[r] \in Seq(Thread) /\ Cur(pri) \in [Thread -> Int]
  BY CurType DEF WaitInv, TypeOK, Queues
<1>2. /\ NoDuplicates(queue[q]) /\ Sorted(queue[q], Cur(pri))
      /\ NoDuplicates(queue[r]) /\ Sorted(queue[r], Cur(pri))
  BY <1>1 DEF WaitInv, QueueOK, QueuesSorted
<1>3. Head(queue[r]) \in ToSet(queue[r]) /\ Head(queue[r]) \in Thread
  BY <1>1, TailProperties, MembersAreThreads
<1>4. CASE q = r
  <2>1. [queue EXCEPT ![r] = Tail(@)][q] = Tail(queue[r])
    BY <1>1, <1>4
  <2> QED BY <1>1, <1>2, <1>4, <2>1, TailProperties
<1>5. CASE q # r
  <2>1. [queue EXCEPT ![r] = Tail(@)][q] = queue[q]
    BY <1>1, <1>5
  <2>2. Head(queue[r]) \notin ToSet(queue[q])
    BY <1>1, <1>3, <1>5 DEF WaitInv, QueueOK, OnQueue
  <2> QED BY <1>1, <1>2, <2>1, <2>2
<1> QED BY <1>4, <1>5

(* What unlock() leaves of the queues: the woken thread and the caller are *)
(* on none, the rest is in order under the priorities unlock() leaves.     *)
LEMMA UnlockQueueProperties ==
  ASSUME WaitInv, NEW t \in Thread, Running(t), NEW m \in Mutex, NEW q \in Queues
  PROVE  /\ UnlockQueue(m)[q] \in Seq(Thread) /\ NoDuplicates(UnlockQueue(m)[q])
         /\ Sorted(UnlockQueue(m)[q], Cur(UnlockPri(t, m)))
         /\ ToSet(UnlockQueue(m)[q]) \subseteq ToSet(queue[q]) \ (Heir(m) \cup {t})
<1>1. TypeOK /\ m \in Queues /\ queue[q] \in Seq(Thread)
  BY DEF WaitInv, Queues, TypeOK
<1>2. t \notin ToSet(queue[q])
  BY <1>1, RunningNotQueued DEF WaitInv
<1>3. /\ UnlockQueue(m)[q] \in Seq(Thread) /\ NoDuplicates(UnlockQueue(m)[q])
      /\ Sorted(UnlockQueue(m)[q], Cur(pri))
      /\ ToSet(UnlockQueue(m)[q]) \subseteq ToSet(queue[q]) \ Heir(m)
  <2>1. CASE queue[m] = <<>>
    BY <1>1, <2>1 DEF UnlockQueue, Heir, WaitInv, QueueOK, QueuesSorted, TypeOK, Queues
  <2>2. CASE queue[m] # <<>>
    BY <1>1, <2>2, HeadGone DEF UnlockQueue, Heir
  <2> QED BY <2>1, <2>2
<1>4. \A x \in ToSet(UnlockQueue(m)[q]) : Cur(pri)[x] = Cur(UnlockPri(t, m))[x]
  <2> SUFFICES ASSUME NEW x \in ToSet(UnlockQueue(m)[q])
               PROVE  Cur(pri)[x] = Cur(UnlockPri(t, m))[x]
    OBVIOUS
  <2>1. x \in Thread /\ x # t /\ x \notin Heir(m)
    BY <1>2, <1>3, MembersAreThreads
  <2> QED BY <2>1 DEF Cur, UnlockPri
<1>5. Cur(pri) \in [Thread -> Int] /\ Cur(UnlockPri(t, m)) \in [Thread -> Int]
  BY <1>1, UnlockTypes, CurType DEF TypeOK
<1>6. Sorted(UnlockQueue(m)[q], Cur(UnlockPri(t, m)))
  BY <1>3, <1>4, <1>5, SortedAgree
<1> QED BY <1>2, <1>3, <1>6

(* unlock(), alone or as the first half of a condition wait.               *)
LEMMA UnlockStep ==
  ASSUME WaitInv, TypeOK', ClaimsOthers', NEW t \in Thread, Running(t), NEW m \in Mutex,
         queue' = UnlockQueue(m), pri' = UnlockPri(t, m),
         \A x \in Thread \ (Heir(m) \cup {t}) :
           pc'[x] = pc[x] /\ sleepReason'[x] = sleepReason[x] /\ state'[x] = state[x]
  PROVE  WaitInv'
<1>1. ASSUME NEW q \in Queues
      PROVE  /\ NoDuplicates(queue'[q]) /\ Sorted(queue'[q], Cur(pri'))
             /\ ToSet(queue'[q]) \subseteq ToSet(queue[q]) \ (Heir(m) \cup {t})
  BY UnlockQueueProperties
<1>2. ASSUME NEW q \in Queues, NEW x \in ToSet(queue'[q]) PROVE Stays(x, q)
  <2>1. x \in ToSet(queue[q]) \ (Heir(m) \cup {t}) /\ queue[q] \in Seq(Thread)
    BY <1>1 DEF WaitInv, TypeOK, Queues
  <2>2. x \in Thread \ (Heir(m) \cup {t})
    BY <2>1, MembersAreThreads
  <2>3. "SLEEPING" \in state[x]
    BY <2>1, <2>2 DEF WaitInv, QueueOK, OnQueue, TypeOK, Queues
  <2> QED BY <2>1, <2>2, <2>3 DEF Stays
<1>3. QueueOK'
  BY <1>1, <1>2, QueueStep DEF WaitInv
<1>4. QueuesSorted'
  BY <1>1 DEF QueuesSorted, TypeOK, Queues
<1> QED BY <1>3, <1>4 DEF WaitInv

(* The first half of a condition wait.                                     *)
LEMMA WaitStep ==
  ASSUME WaitInv, TypeOK', ClaimsOthers', NEW t \in Thread, Running(t), NEW c \in Cond,
         NEW m \in Mutex, NEW reason \in {"WAIT", "TIMEOUT"}, Wait(t, c, m, reason)
  PROVE  WaitInv'
<1> DEFINE mid == UnlockQueue(m)
           pr == UnlockPri(t, m)
<1>1. /\ queue' = [mid EXCEPT ![c] = enqueue(@, t, Cur(pr))] /\ pri' = pr
      /\ TypeOK /\ c \in Queues
  BY DEF Wait, WaitInv, Queues
<1>2. \A q \in Queues :
        /\ mid[q] \in Seq(Thread) /\ NoDuplicates(mid[q]) /\ Sorted(mid[q], Cur(pr))
        /\ ToSet(mid[q]) \subseteq ToSet(queue[q]) \ (Heir(m) \cup {t})
  BY UnlockQueueProperties
<1>3. mid \in [Queues -> Seq(Thread)] /\ Cur(pr) \in [Thread -> Int]
  BY <1>1, UnlockTypes, CurType DEF Queues
<1>4. \A x \in Thread \ (Heir(m) \cup {t}) :
        pc'[x] = pc[x] /\ sleepReason'[x] = sleepReason[x] /\ state'[x] = state[x]
  BY <1>1 DEF Wait, Awake, TypeOK
<1>5. pc'[t] = At("condwait", m) /\ sleepReason'[t] = reason /\ "SLEEPING" \in state'[t]
  BY <1>1 DEF Wait, Awake, TypeOK
<1> HIDE DEF mid, pr
<1>6. /\ ToSet(enqueue(mid[c], t, Cur(pr))) = ToSet(mid[c]) \cup {t}
      /\ NoDuplicates(enqueue(mid[c], t, Cur(pr)))
      /\ Sorted(enqueue(mid[c], t, Cur(pr)), Cur(pr))
  BY <1>1, <1>2, <1>3, EnqueueProperties
<1>7. queue'[c] = enqueue(mid[c], t, Cur(pr)) /\ \A q \in Queues \ {c} : queue'[q] = mid[q]
  BY <1>1, <1>3
<1>8. \A q \in Queues : NoDuplicates(queue'[q]) /\ Sorted(queue'[q], Cur(pri'))
  BY <1>1, <1>2, <1>6, <1>7
<1>9. ASSUME NEW q \in Queues, NEW x \in ToSet(queue'[q]) PROVE Stays(x, q) \/ Joins(x, q)
  <2>1. CASE x = t
    <3>1. \A r \in Queues \ {c} : t \notin ToSet(queue'[r])
      BY <1>2, <1>7
    <3>2. q = c /\ c \notin Mutex
      BY <1>9, <2>1, <3>1, ObjectAssumption
    <3>3. \A r \in Queues : t \notin ToSet(queue[r])
      BY <1>1, RunningNotQueued DEF WaitInv
    <3>4. Waits(t, c)'
      BY <1>5, <3>2 DEF Waits, At
    <3> QED BY <1>5, <2>1, <3>1, <3>2, <3>3, <3>4 DEF Joins
  <2>2. CASE x # t
    <3>1. x \in ToSet(queue[q]) \ (Heir(m) \cup {t})
      BY <1>2, <1>6, <1>7, <1>9, <2>2
    <3>2. queue[q] \in Seq(Thread)
      BY <1>1 DEF TypeOK, Queues
    <3>3. x \in Thread \ (Heir(m) \cup {t})
      BY <3>1, <3>2, MembersAreThreads
    <3>4. "SLEEPING" \in state[x]
      BY <3>1, <3>3 DEF WaitInv, QueueOK, OnQueue, TypeOK, Queues
    <3> QED BY <1>4, <3>1, <3>3, <3>4 DEF Stays
  <2> QED BY <2>1, <2>2
<1>10. QueueOK'
  BY <1>8, <1>9, QueueStep DEF WaitInv
<1>11. QueuesSorted'
  BY <1>8 DEF QueuesSorted, TypeOK, Queues
<1> QED BY <1>10, <1>11 DEF WaitInv

(* The queues when a thread goes to sleep on a mutex and its owner         *)
(* inherits: the thread has joined one, in its place, and nobody left.     *)
LEMMA BlockQueues ==
  ASSUME WaitInv, TypeOK', NEW t \in Thread, Running(t), NEW m \in Mutex,
         NEW pr \in [Thread -> PriorityRecord],
         \A x \in Thread \ {t} : pr[x].cur = pri[x].cur,
         NEW label \in {"lock", "relocking"}, Block(t, m, pr, label)
  PROVE  \A q \in Queues :
           /\ NoDuplicates(queue'[q]) /\ Sorted(queue'[q], Cur(pri'))
           /\ ToSet(queue'[q]) = ToSet(queue[q]) \cup (IF q = m THEN {t} ELSE {})
<1> DEFINE queued == [queue EXCEPT ![m] = enqueue(@, t, Cur(pr))]
           boosted == BoostedOwner(t, m, pr)
<1>1. /\ TypeOK /\ m \in Queues /\ owner[m] \in Thread
      /\ queue \in [Queues -> Seq(Thread)]
      /\ Cur(pri) \in [Thread -> Int] /\ Cur(pr) \in [Thread -> Int]
  BY CurType DEF Block, WaitInv, TypeOK, Queues
<1>2. /\ pri' = boosted
      /\ queue' = IF boosted = pr THEN queued ELSE Requeued(queued, owner[m], boosted)
  BY DEF Block
<1>3. boosted \in [Thread -> PriorityRecord]
  BY <1>2 DEF TypeOK
<1>4. \A x \in Thread \ {owner[m]} : pr[x].cur = boosted[x].cur
  BY <1>1 DEF BoostedOwner
<1>5. \A q \in Queues : t \notin ToSet(queue[q])
  BY <1>1, RunningNotQueued DEF WaitInv
<1>6. ASSUME NEW q \in Queues
      PROVE  NoDuplicates(queue[q]) /\ Sorted(queue[q], Cur(pr))
  <2>1. NoDuplicates(queue[q]) /\ Sorted(queue[q], Cur(pri))
    BY <1>1 DEF WaitInv, QueueOK, QueuesSorted
  <2>2. \A x \in ToSet(queue[q]) : x \in Thread \ {t}
    BY <1>1, <1>5, MembersAreThreads
  <2>3. \A x \in ToSet(queue[q]) : Cur(pri)[x] = Cur(pr)[x]
    BY <2>2 DEF Cur
  <2> QED BY <1>1, <2>1, <2>3, SortedAgree
<1>7. /\ queued \in [Queues -> Seq(Thread)]
      /\ \A q \in Queues : /\ NoDuplicates(queued[q]) /\ Sorted(queued[q], Cur(pr))
                           /\ ToSet(queued[q]) = ToSet(queue[q]) \cup (IF q = m THEN {t} ELSE {})
  <2> DEFINE longer == enqueue(queue[m], t, Cur(pr))
  <2>1. /\ longer \in Seq(Thread) /\ NoDuplicates(longer) /\ Sorted(longer, Cur(pr))
        /\ ToSet(longer) = ToSet(queue[m]) \cup {t}
    BY <1>1, <1>5, <1>6, EnqueueProperties
  <2>2. queued = [queue EXCEPT ![m] = longer]
    OBVIOUS
  <2> HIDE DEF longer, queued
  <2>3. queued \in [Queues -> Seq(Thread)]
    BY <1>1, <2>1, <2>2
  <2>4. queued[m] = longer /\ \A q \in Queues \ {m} : queued[q] = queue[q]
    BY <1>1, <2>2
  <2> QED BY <1>1, <1>6, <2>1, <2>3, <2>4
<1> HIDE DEF queued, boosted
<1>8. ASSUME NEW q \in Queues
      PROVE  /\ NoDuplicates(queue'[q]) /\ Sorted(queue'[q], Cur(pri'))
             /\ ToSet(queue'[q]) = ToSet(queue[q]) \cup (IF q = m THEN {t} ELSE {})
  <2>1. CASE boosted = pr
    BY <1>2, <1>7, <2>1
  <2>2. CASE boosted # pr
    <3>1. /\ ToSet(Requeued(queued, owner[m], boosted)[q]) = ToSet(queued[q])
          /\ NoDuplicates(Requeued(queued, owner[m], boosted)[q])
          /\ Sorted(Requeued(queued, owner[m], boosted)[q], Cur(boosted))
      BY <1>1, <1>3, <1>4, <1>7, RequeuedProperties
    <3> QED BY <1>2, <1>7, <2>2, <3>1
  <2> QED BY <2>1, <2>2
<1> QED BY <1>8

LEMMA BlockStep ==
  ASSUME WaitInv, TypeOK', ClaimsOthers', NEW t \in Thread, Running(t), NEW m \in Mutex,
         NEW pr \in [Thread -> PriorityRecord],
         \A x \in Thread \ {t} : pr[x].cur = pri[x].cur,
         NEW label \in {"lock", "relocking"}, Block(t, m, pr, label)
  PROVE  WaitInv'
<1>1. TypeOK /\ queue \in [Queues -> Seq(Thread)]
  BY DEF WaitInv, TypeOK, Queues
<1>2. /\ pc'[t] = At(label, m) /\ sleepReason'[t] = "WAIT" /\ "SLEEPING" \in state'[t]
      /\ \A x \in Thread \ {t} :
           pc'[x] = pc[x] /\ sleepReason'[x] = sleepReason[x] /\ state'[x] = state[x]
  BY <1>1 DEF Block, Sleep, TypeOK
<1>3. \A q \in Queues : t \notin ToSet(queue[q])
  BY <1>1, RunningNotQueued DEF WaitInv
<1>4. ASSUME NEW q \in Queues
      PROVE  /\ NoDuplicates(queue'[q]) /\ Sorted(queue'[q], Cur(pri'))
             /\ ToSet(queue'[q]) = ToSet(queue[q]) \cup (IF q = m THEN {t} ELSE {})
  <2>1. NoDuplicates(queue'[q])
    BY BlockQueues
  <2>2. Sorted(queue'[q], Cur(pri'))
    BY BlockQueues
  <2>3. ToSet(queue'[q]) = ToSet(queue[q]) \cup (IF q = m THEN {t} ELSE {})
    BY BlockQueues
  <2> QED BY <2>1, <2>2, <2>3
<1>5. ASSUME NEW q \in Queues, NEW x \in ToSet(queue'[q]) PROVE Stays(x, q) \/ Joins(x, q)
  <2>1. CASE x = t
    <3>1. q = m /\ \A r \in Queues \ {m} : t \notin ToSet(queue'[r])
      BY <1>3, <1>4, <1>5, <2>1
    <3>2. Waits(t, m)'
      BY <1>2 DEF Waits, At
    <3> QED BY <1>2, <1>3, <2>1, <3>1, <3>2 DEF Joins
  <2>2. CASE x # t
    <3>1. x \in ToSet(queue[q]) /\ x \in Thread \ {t}
      BY <1>1, <1>4, <1>5, <2>2, MembersAreThreads
    <3>2. "SLEEPING" \in state[x]
      BY <1>1, <3>1 DEF WaitInv, QueueOK, OnQueue
    <3> QED BY <1>2, <3>1, <3>2 DEF Stays
  <2> QED BY <2>1, <2>2
<1>6. QueueOK'
  BY <1>1, <1>4, <1>5, QueueStep DEF WaitInv
<1>7. QueuesSorted'
  BY <1>4 DEF QueuesSorted, TypeOK, Queues
<1> QED BY <1>6, <1>7 DEF WaitInv

(* set_priority() of any thread, wherever it waits.                        *)
LEMMA SetPriorityStep ==
  ASSUME WaitInv, TypeOK', ClaimsOthers', NEW t \in Thread, NEW x \in Thread, NEW p,
         SetPriority(t, x, p)
  PROVE  WaitInv'
<1>1. /\ queue \in [Queues -> Seq(Thread)] /\ DOMAIN queue = Queues
      /\ pri \in [Thread -> PriorityRecord] /\ pri' \in [Thread -> PriorityRecord]
      /\ queue' = Requeued(queue, x, pri')
      /\ UNCHANGED <<state, sleepReason, pc>>
  BY DEF SetPriority, WaitInv, TypeOK, Queues
<1>2. \A y \in Thread \ {x} : pri[y].cur = pri'[y].cur
  BY <1>1 DEF SetPriority
<1>3. ASSUME NEW q \in Queues
      PROVE  /\ ToSet(queue'[q]) = ToSet(queue[q])
             /\ NoDuplicates(queue'[q]) /\ Sorted(queue'[q], Cur(pri'))
  <2>1. NoDuplicates(queue[q]) /\ Sorted(queue[q], Cur(pri))
    BY <1>1 DEF WaitInv, QueueOK, QueuesSorted
  <2>2. DOMAIN queue = Queues /\ queue[q] \in Seq(Thread)
    BY <1>1
  <2>3. LET r == Requeued(queue, x, pri')
        IN  /\ ToSet(r[q]) = ToSet(queue[q])
            /\ NoDuplicates(r[q]) /\ Sorted(r[q], Cur(pri'))
    BY <1>1, <1>2, <2>1, <2>2, RequeuedProperties
  <2> QED BY <1>1, <2>3
<1>4. ASSUME NEW q \in Queues, NEW y \in ToSet(queue'[q]) PROVE Stays(y, q)
  <2>1. y \in ToSet(queue[q]) /\ y \in Thread
    BY <1>1, <1>3, MembersAreThreads
  <2> QED BY <1>1, <2>1 DEF WaitInv, QueueOK, OnQueue, Stays
<1>5. QueueOK'
  BY <1>3, <1>4, QueueStep DEF WaitInv
<1>6. QueuesSorted'
  BY <1>3 DEF QueuesSorted, TypeOK, Queues
<1> QED BY <1>5, <1>6 DEF WaitInv

LEMMA WaitInit == Init => WaitInv
<1> SUFFICES ASSUME Init PROVE WaitInv
  OBVIOUS
<1>1. TypeOK
  BY TypeInit
<1>2. ClaimsOthers
  BY DEF Init, ClaimsOthers, User, At, Outside
<1>3. DOMAIN queue = Queues /\ \A q \in Queues : queue[q] = <<>> /\ DOMAIN queue[q] = {}
  BY DEF Init, Queues
<1>4. QueueOK
  BY <1>3 DEF QueueOK, NoDuplicates, OnQueue, ToSet, Queues
<1>5. QueuesSorted
  BY <1>3 DEF QueuesSorted, Sorted
<1> QED BY <1>1, <1>2, <1>4, <1>5 DEF WaitInv

(* Every step of the kernel keeps the wait queues in order.                *)
LEMMA WaitInvStep == WaitInv /\ [Next]_vars => WaitInv'
<1> SUFFICES ASSUME WaitInv, [Next]_vars PROVE WaitInv'
  OBVIOUS
<1>1. TypeOK /\ TypeOK' /\ ClaimsOthers'
  BY TypeStep, ClaimsStep DEF WaitInv
<1>2. CASE UNCHANGED vars \/ Dispatch \/ Timeslice
  <2>1. UNCHANGED <<queue, pc, sleepReason, pri, state>>
    BY <1>2 DEF vars, Dispatch, DispatchTo, Timeslice
  <2> QED BY <1>1, <2>1, StillStep
<1>3. ASSUME NEW x \in Thread, TimerAlarm(x) PROVE WaitInv'
  <2>1. CASE sleepReason[x] \in {"DELAY", "TIMEOUT"}
    <3>1. /\ queue' = Unlinked(x) /\ UNCHANGED <<pri, pc>>
          /\ Wake({x}, IF sleepReason[x] = "DELAY" THEN "DONE" ELSE "TIMEOUT")
      BY <1>3, <2>1 DEF TimerAlarm
    <3>2. \A t \in Thread \ {x} : /\ pc'[t] = pc[t] /\ sleepReason'[t] = sleepReason[t]
                                 /\ state'[t] = state[t]
      BY <3>1 DEF Wake, Awake
    <3> QED BY <1>1, <3>1, <3>2, UnlinkStep
  <2>2. CASE sleepReason[x] \notin {"DELAY", "TIMEOUT"}
    <3>1. UNCHANGED <<queue, pc, sleepReason, pri, state>>
      BY <1>3, <2>2 DEF TimerAlarm
    <3> QED BY <1>1, <3>1, StillStep
  <2> QED BY <2>1, <2>2
<1>4. ASSUME NEW t \in Thread, Running(t), UNCHANGED queue,
             \A x \in Thread \ {t} : /\ pc'[x] = pc[x] /\ sleepReason'[x] = sleepReason[x]
                                     /\ state'[x] = state[x] /\ pri'[x].cur = pri[x].cur
      PROVE  WaitInv'
  <2>1. \A q \in Queues : t \notin ToSet(queue[q])
    BY <1>1, <1>4, RunningNotQueued DEF WaitInv
  <2> QED BY <1>1, <1>4, <2>1, OwnStep
<1>5. ASSUME NEW c \in Cond, SignalOne(c) PROVE WaitInv'
  <2> DEFINE h == Head(queue[c])
  <2>1. /\ c \in Queues /\ queue[c] # <<>> /\ queue' = [queue EXCEPT ![c] = Tail(@)]
        /\ Wake({h}, "DONE") /\ UNCHANGED <<pri, pc>>
    BY <1>5 DEF SignalOne, Queues
  <2>2. \A q \in Queues : /\ NoDuplicates(queue'[q]) /\ Sorted(queue'[q], Cur(pri))
                         /\ ToSet(queue'[q]) \subseteq ToSet(queue[q]) \ {h}
    BY <2>1, HeadGone
  <2> HIDE DEF h
  <2>3. ASSUME NEW q \in Queues, NEW t \in ToSet(queue'[q])
        PROVE  Stays(t, q) /\ pri'[t].cur = pri[t].cur
    <3>1. t \in ToSet(queue[q]) \ {h} /\ queue[q] \in Seq(Thread)
      BY <1>1, <2>2 DEF TypeOK, Queues
    <3>2. t \in Thread \ {h}
      BY <3>1, MembersAreThreads
    <3>3. "SLEEPING" \in state[t]
      BY <1>1, <3>1, <3>2 DEF WaitInv, QueueOK, OnQueue, TypeOK, Queues
    <3> QED BY <2>1, <3>1, <3>2, <3>3 DEF Stays, Wake, Awake
  <2> QED BY <1>1, <2>2, <2>3, LeaveStep
<1>6. ASSUME NEW r \in Queues, NEW reason, Wake(ToSet(queue[r]), reason),
             queue' = [queue EXCEPT ![r] = <<>>], UNCHANGED <<pri, pc>>
      PROVE  WaitInv'
  <2>1. DOMAIN queue = Queues /\ \A q \in Queues : queue[q] \in Seq(Thread)
    BY <1>1 DEF TypeOK, Queues
  <2>2. queue'[r] = <<>> /\ \A q \in Queues \ {r} : queue'[q] = queue[q]
    BY <1>6, <2>1
  <2>3. DOMAIN queue'[r] = {}
    BY <2>2
  <2>4. \A q \in Queues : NoDuplicates(queue'[q]) /\ Sorted(queue'[q], Cur(pri))
    BY <2>1, <2>2, <2>3 DEF WaitInv, QueueOK, QueuesSorted, NoDuplicates, Sorted
  <2>5. ASSUME NEW q \in Queues, NEW t \in ToSet(queue'[q])
        PROVE  Stays(t, q) /\ pri'[t].cur = pri[t].cur
    <3>1. q # r /\ t \in ToSet(queue[q])
      BY <2>2, <2>3 DEF ToSet
    <3>2. t \in Thread
      BY <2>1, <3>1, MembersAreThreads
    <3>3. "SLEEPING" \in state[t] /\ t \notin ToSet(queue[r])
      BY <2>1, <3>1, <3>2 DEF WaitInv, QueueOK, OnQueue
    <3> QED BY <1>6, <3>1, <3>2, <3>3 DEF Stays, Wake, Awake
  <2> QED BY <1>1, <2>4, <2>5, LeaveStep
<1>7. ASSUME NEW t \in Thread, NEW m \in Mutex, NEW pr, Running(t), Acquire(t, m, pr),
             \A x \in Thread \ {t} : pr[x].cur = pri[x].cur
      PROVE  WaitInv'
  <2>1. UNCHANGED queue
    BY <1>7 DEF Acquire
  <2>2. \A x \in Thread \ {t} : /\ pc'[x] = pc[x] /\ sleepReason'[x] = sleepReason[x]
                                /\ state'[x] = state[x] /\ pri'[x].cur = pri[x].cur
    BY <1>1, <1>7 DEF Acquire, TypeOK
  <2> QED BY <1>4, <1>7, <2>1, <2>2
<1>8. ASSUME NEW t \in Thread, NEW m \in Mutex
      PROVE  /\ Claimed(t, m) \in [Thread -> PriorityRecord]
             /\ \A x \in Thread \ {t} : Claimed(t, m)[x].cur = pri[x].cur
  BY <1>1, ClaimedType DEF Claimed, TypeOK
<1>9. ASSUME NEW t \in Thread, Running(t), ExitNow(t) PROVE WaitInv'
  <2>1. \A x \in Thread \ {t} : /\ pc'[x] = pc[x] /\ sleepReason'[x] = sleepReason[x]
                                /\ state'[x] = state[x] /\ pri'[x].cur = pri[x].cur
    BY <1>1, <1>9 DEF ExitNow, TypeOK
  <2> QED BY <1>4, <1>9, <2>1 DEF ExitNow
<1>10. ASSUME NEW t \in Thread, MutexStep(t) PROVE WaitInv'
  <2> SUFFICES ASSUME NEW m \in Mutex,
                      Lock(t, m) \/ TryLock(t, m) \/ Unlock(t, m) \/ MutexRelease(t, m)
               PROVE  WaitInv'
    BY <1>10 DEF MutexStep
  <2>1. CASE Lock(t, m)
    <3>1. Running(t) /\ "lock" \in {"lock", "relocking"}
      BY <2>1 DEF Lock, Calling
    <3>2. CASE Acquire(t, m, Claimed(t, m))
      BY <1>7, <1>8, <3>1, <3>2
    <3>3. CASE Block(t, m, Claimed(t, m), "lock")
      BY <1>1, <1>8, <3>1, <3>3, BlockStep
    <3> QED BY <2>1, <3>2, <3>3 DEF Lock
  <2>2. CASE TryLock(t, m)
    BY <1>7, <1>8, <2>2 DEF TryLock, Calling
  <2>3. CASE Unlock(t, m)
    <3>1. Running(t) /\ queue' = UnlockQueue(m) /\ pri' = UnlockPri(t, m)
      BY <2>3 DEF Unlock, Calling
    <3>2. \A x \in Thread \ (Heir(m) \cup {t}) :
            pc'[x] = pc[x] /\ sleepReason'[x] = sleepReason[x] /\ state'[x] = state[x]
      BY <2>3 DEF Unlock, Awake
    <3> QED BY <1>1, <3>1, <3>2, UnlockStep
  <2>4. CASE MutexRelease(t, m)
    BY <1>6, <2>4 DEF MutexRelease, Queues
  <2> QED BY <2>1, <2>2, <2>3, <2>4
<1>11. ASSUME NEW t \in Thread, CondStep(t) PROVE WaitInv'
  <2> SUFFICES ASSUME NEW c \in Cond,
                      \/ Signal(t, c) \/ Broadcast(t, c)
                      \/ \E m \in Mutex : CondWait(t, c, m) \/ CondTimedWait(t, c, m)
               PROVE  WaitInv'
    BY <1>11 DEF CondStep
  <2>1. CASE Signal(t, c)
    BY <1>5, <2>1 DEF Signal
  <2>2. CASE Broadcast(t, c)
    BY <1>6, <2>2 DEF Broadcast, Queues
  <2>3. ASSUME NEW m \in Mutex, CondWait(t, c, m) \/ CondTimedWait(t, c, m)
        PROVE  WaitInv'
    <3>1. Running(t)
      BY <2>3 DEF CondWait, CondTimedWait, Calling
    <3>2. Wait(t, c, m, "WAIT") \/ Wait(t, c, m, "TIMEOUT")
      BY <2>3 DEF CondWait, CondTimedWait
    <3>3. "WAIT" \in {"WAIT", "TIMEOUT"} /\ "TIMEOUT" \in {"WAIT", "TIMEOUT"}
      OBVIOUS
    <3> QED BY <1>1, <3>1, <3>2, <3>3, WaitStep
  <2> QED BY <2>1, <2>2, <2>3
<1>12. ASSUME NEW t \in Thread, ThreadStep(t) PROVE WaitInv'
  <2> SUFFICES ASSUME NEW x \in Thread,
                      \/ Suspend(t, x) \/ Resume(t, x) \/ Release(t, x) \/ Kill(t, x)
                      \/ \E p \in Given : SetPriority(t, x, p)
               PROVE  WaitInv'
    BY <1>12 DEF ThreadStep
  <2>1. CASE Suspend(t, x) \/ Resume(t, x)
    <3>1. UNCHANGED <<queue, pc, sleepReason, pri>>
      BY <2>1 DEF Suspend, Resume
    <3>2. ASSUME NEW y \in Thread, "SLEEPING" \in state[y] PROVE "SLEEPING" \in state'[y]
      <4>1. CASE Suspend(t, x)
        <5>1. state' = [state EXCEPT ![x] = @ \cup {"SUSPENDED"}]
          BY <4>1 DEF Suspend
        <5> QED BY <1>1, <3>2, <5>1 DEF TypeOK
      <4>2. CASE Resume(t, x)
        <5>1. state'[y] \in {state[y], state[y] \ {"SUSPENDED"}}
          BY <1>1, <4>2 DEF Resume, TypeOK
        <5> QED BY <3>2, <5>1
      <4> QED BY <2>1, <4>1, <4>2
    <3> QED BY <1>1, <3>1, <3>2, StillStep
  <2>2. CASE Release(t, x)
    <3>1. \A y \in Thread \ {x} : /\ pc'[y] = pc[y] /\ sleepReason'[y] = sleepReason[y]
                                 /\ state'[y] = state[y]
      BY <2>2 DEF Release, Wake, Awake
    <3> QED BY <1>1, <2>2, <3>1, UnlinkStep DEF Release
  <2>3. CASE Kill(t, x)
    <3>1. /\ UNCHANGED <<pri, pc>>
          /\ \A y \in Thread \ {x} : /\ pc'[y] = pc[y] /\ sleepReason'[y] = sleepReason[y]
                                      /\ state'[y] = state[y]
      BY <1>1, <2>3 DEF Kill, TypeOK
    <3>2. CASE sleepReason[x] # "NONE"
      <4>1. queue' = Unlinked(x)
        BY <2>3, <3>2 DEF Kill
      <4> QED BY <1>1, <3>1, <4>1, UnlinkStep
    <3>3. CASE sleepReason[x] = "NONE"
      <4>1. queue' = queue
        BY <2>3, <3>3 DEF Kill
      <4>2. \A q \in Queues : x \notin ToSet(queue[q])
        BY <1>1, <3>3 DEF WaitInv, QueueOK, OnQueue, Waits, TypeOK, Queues
      <4> QED BY <1>1, <3>1, <4>1, <4>2, OwnStep
    <3> QED BY <3>2, <3>3
  <2>4. ASSUME NEW p \in Given, SetPriority(t, x, p) PROVE WaitInv'
    BY <1>1, <2>4, SetPriorityStep
  <2> QED BY <2>1, <2>2, <2>3, <2>4
<1>13. ASSUME NEW t \in Thread, Continue(t) PROVE WaitInv'
  <2> DEFINE m == pc[t].mx
  <2>1. pc[t].at \notin Outside => m \in Mutex
    BY <1>1 DEF TypeOK, Place
  <2>2. Running(t)
    BY <1>13 DEF Continue, LockRetry, LockFail, LockExit, CondWakeup, Relock, DelayWakeup
  <2>3. CASE LockRetry(t)
    <3>1. m \in Mutex /\ pc[t].at \in {"lock", "relocking"}
      BY <2>1, <2>3 DEF LockRetry, Outside
    <3>2. CASE Acquire(t, m, pri)
      BY <1>7, <2>2, <3>1, <3>2
    <3>3. CASE Block(t, m, pri, pc[t].at)
      <4>1. pri \in [Thread -> PriorityRecord]
        BY <1>1 DEF TypeOK
      <4> QED BY <1>1, <2>2, <3>1, <3>3, <4>1, BlockStep
    <3> QED BY <2>3, <3>2, <3>3 DEF LockRetry
  <2>4. CASE Relock(t)
    <3>1. m \in Mutex /\ "relocking" \in {"lock", "relocking"}
      BY <2>1, <2>4 DEF Relock, Outside
    <3>2. CASE Acquire(t, m, Claimed(t, m))
      BY <1>7, <1>8, <2>2, <3>1, <3>2
    <3>3. CASE Block(t, m, Claimed(t, m), "relocking")
      BY <1>1, <1>8, <2>2, <3>1, <3>3, BlockStep
    <3> QED BY <2>4, <3>2, <3>3 DEF Relock
  <2>5. CASE LockExit(t) \/ ExitNow(t)
    BY <1>9, <2>2, <2>5 DEF LockExit
  <2>6. CASE LockFail(t) \/ (CondWakeup(t) /\ ~ExitNow(t)) \/ (DelayWakeup(t) /\ ~ExitNow(t))
    <3>1. UNCHANGED queue
      BY <2>6 DEF LockFail, CondWakeup, DelayWakeup
    <3>2. \A x \in Thread \ {t} : /\ pc'[x] = pc[x] /\ sleepReason'[x] = sleepReason[x]
                                  /\ state'[x] = state[x] /\ pri'[x].cur = pri[x].cur
      BY <1>1, <2>6 DEF LockFail, CondWakeup, DelayWakeup, TypeOK
    <3> QED BY <1>4, <2>2, <3>1, <3>2
  <2> QED BY <1>13, <2>3, <2>4, <2>5, <2>6 DEF Continue
<1>14. ASSUME NEW t \in Thread, Delay(t) PROVE WaitInv'
  <2>1. Running(t) /\ UNCHANGED <<queue, pri>>
    BY <1>14 DEF Delay, Calling
  <2>2. \A x \in Thread \ {t} : /\ pc'[x] = pc[x] /\ sleepReason'[x] = sleepReason[x]
                                /\ state'[x] = state[x]
    BY <1>1, <1>14 DEF Delay, Sleep, TypeOK
  <2> QED BY <1>4, <2>1, <2>2
<1>15. ASSUME NEW t \in Thread, NEW m \in Mutex, CondTimedWaitPast(t, m) PROVE WaitInv'
  <2>1. Running(t) /\ queue' = UnlockQueue(m) /\ pri' = UnlockPri(t, m)
    BY <1>15 DEF CondTimedWaitPast, Calling
  <2>2. \A x \in Thread \ (Heir(m) \cup {t}) :
          pc'[x] = pc[x] /\ sleepReason'[x] = sleepReason[x] /\ state'[x] = state[x]
    BY <1>1, <1>15 DEF CondTimedWaitPast, Awake, TypeOK
  <2> QED BY <1>1, <2>1, <2>2, UnlockStep
<1>16. ASSUME NEW t \in Thread, Exit(t) PROVE WaitInv'
  BY <1>9, <1>16 DEF Exit, Calling
<1> QED
  BY <1>2, <1>3, <1>5, <1>10, <1>11, <1>12, <1>13, <1>14, <1>15, <1>16
  DEF Next, Dsr, DsrSignal

(* A thread is on at most one wait queue, once, and only while it sleeps   *)
(* for that very object, whoever woke, killed, released, suspended or      *)
(* reprioritised it in between.                                            *)
THEOREM QueuesConsistent == Spec => []QueueOK
<1>1. WaitInv => QueueOK
  BY DEF WaitInv
<1> QED BY <1>1, WaitInit, WaitInvStep, PTL DEF Spec

(* Wait queues stay in priority order through every inheritance, ceiling,  *)
(* relay and set_priority().                                               *)
THEOREM QueuesStaySorted == Spec => []QueuesSorted
<1>1. WaitInv => QueuesSorted
  BY DEF WaitInv
<1> QED BY <1>1, WaitInit, WaitInvStep, PTL DEF Spec
-----------------------------------------------------------------------------
(* Priorities.                                                             *)

(* What mutex m adds to the count of a thread that holds or claims it.     *)
Weight(m) == IF Protocol[m] = "NONE" THEN 0 ELSE 1
Protected(t) == {m \in Held(t) : Protocol[m] # "NONE"}

Within(r) == r.inh => r.cur <= r.orig
BaseOf(r) == IF r.inh THEN r.orig ELSE r.cur

(* The record s comes from r by boosts and returns alone.                  *)
Keeps(r, s) == Within(s) /\ BaseOf(s) = BaseOf(r)

(* The inductive invariant of a thread's priorities: the count is exact, a *)
(* boost rests on it, and the priority to return to is not above it.       *)
Account(t) ==
  /\ IsFiniteSet(Protected(t))
  /\ ~Dead(t) => pri[t].count = Cardinality(Protected(t)) + Claiming(t)
  /\ pri[t].inh => pri[t].count > 0 \/ Dead(t)
  /\ Within(pri[t])

PriInv == WaitInv /\ \A t \in Thread : Account(t)

LEMMA RecordSteps ==
  ASSUME NEW r \in PriorityRecord, Within(r)
  PROVE  /\ Keeps(r, r)
         /\ \A p \in Priority : Keeps(r, Inherit(r, p)) /\ Inherit(r, p).count = r.count
         /\ \A m \in Mutex : /\ Keeps(r, Claim(m, r))
                             /\ Claim(m, r).count = r.count + Weight(m)
                             /\ Claim(m, r).inh => r.inh \/ Weight(m) = 1
         /\ \A m \in Mutex : /\ Keeps(r, Unclaim(m, r))
                             /\ Unclaim(m, r).count = r.count - Weight(m)
                             /\ Unclaim(m, r).inh =>
                                  r.inh /\ (Weight(m) = 1 => Unclaim(m, r).count # 0)
<1> USE DEF Keeps, Within, BaseOf
<1>0. Priority \subseteq Int
  BY PriorityAssumption DEF Priority
<1>1. ASSUME NEW s \in PriorityRecord, Within(s), NEW p \in Priority
      PROVE  Keeps(s, Inherit(s, p)) /\ Inherit(s, p).count = s.count
  BY <1>0, <1>1 DEF PriorityRecord, Inherit
<1>2. ASSUME NEW s \in PriorityRecord, Within(s)
      PROVE  /\ Keeps(s, Disinherit(s)) /\ Disinherit(s).count = s.count
             /\ Disinherit(s).inh => s.inh /\ s.count # 0
  BY <1>0, <1>2 DEF PriorityRecord, Disinherit
<1>3. ASSUME NEW k \in Int
      PROVE  /\ [r EXCEPT !.count = k] \in PriorityRecord
             /\ Keeps(r, [r EXCEPT !.count = k])
             /\ [r EXCEPT !.count = k].count = k /\ [r EXCEPT !.count = k].inh = r.inh
  BY DEF PriorityRecord
<1>4. r.count \in Int /\ Keeps(r, r)
  BY DEF PriorityRecord
<1>5. ASSUME NEW m \in Mutex
      PROVE  /\ Keeps(r, Claim(m, r)) /\ Claim(m, r).count = r.count + Weight(m)
             /\ Claim(m, r).inh => r.inh \/ Weight(m) = 1
  <2> DEFINE s == [r EXCEPT !.count = @ + 1]
  <2>1. Protocol[m] \in {"NONE", "INHERIT", "CEILING"} /\ Ceiling[m] \in Priority
    BY PriorityAssumption DEF Protocols
  <2>2. s \in PriorityRecord /\ Keeps(r, s) /\ s.count = r.count + 1
    BY <1>3, <1>4
  <2>3. Keeps(s, Inherit(s, Ceiling[m])) /\ Inherit(s, Ceiling[m]).count = r.count + 1
    BY <1>1, <2>1, <2>2
  <2>4. CASE Protocol[m] = "NONE"
    BY <1>4, <2>4 DEF Claim, Weight
  <2>5. CASE Protocol[m] = "INHERIT"
    BY <2>2, <2>5 DEF Claim, Weight
  <2>6. CASE Protocol[m] = "CEILING"
    <3>1. Claim(m, r) = Inherit(s, Ceiling[m]) /\ Weight(m) = 1
      BY <2>6 DEF Claim, Weight
    <3> QED BY <2>2, <2>3, <3>1
  <2> QED BY <2>1, <2>4, <2>5, <2>6
<1>6. ASSUME NEW m \in Mutex
      PROVE  /\ Keeps(r, Unclaim(m, r)) /\ Unclaim(m, r).count = r.count - Weight(m)
             /\ Unclaim(m, r).inh => r.inh /\ (Weight(m) = 1 => Unclaim(m, r).count # 0)
  <2> DEFINE s == [r EXCEPT !.count = @ - 1]
  <2>1. s \in PriorityRecord /\ Keeps(r, s) /\ s.count = r.count - 1 /\ s.inh = r.inh
    BY <1>3, <1>4
  <2>2. CASE Protocol[m] = "NONE"
    BY <1>4, <2>2 DEF Unclaim, Weight
  <2>3. CASE Protocol[m] # "NONE"
    <3>1. Unclaim(m, r) = Disinherit(s) /\ Weight(m) = 1
      BY <2>3 DEF Unclaim, Weight
    <3> HIDE DEF s
    <3>2. /\ Keeps(s, Disinherit(s)) /\ Disinherit(s).count = s.count
          /\ Disinherit(s).inh => s.inh /\ s.count # 0
      BY <1>2, <2>1
    <3> QED BY <2>1, <3>1, <3>2
  <2> QED BY <2>2, <2>3
<1> QED BY <1>1, <1>4, <1>5, <1>6

(* What is taken and given up.                                             *)
LEMMA ProtectedAdds ==
  ASSUME TypeOK, NEW t \in Thread, NEW m \in Mutex, IsFiniteSet(Protected(t)),
         owner[m] = NoThread, owner' = [owner EXCEPT ![m] = t]
  PROVE  /\ IsFiniteSet(Protected(t)') /\ Cardinality(Protected(t)) \in Nat
         /\ Cardinality(Protected(t)') = Cardinality(Protected(t)) + Weight(m)
         /\ \A x \in Thread \ {t} : Protected(x)' = Protected(x)
<1>1. \A n \in Mutex : owner'[n] = IF n = m THEN t ELSE owner[n]
  BY DEF TypeOK
<1>2. \A x \in Thread : owner[m] # x
  BY NoThreadAssumption
<1>3. \A x \in Thread \ {t} : Protected(x)' = Protected(x)
  BY <1>1, <1>2 DEF Protected, Held
<1>4. Cardinality(Protected(t)) \in Nat
  BY FS_CardinalityType
<1>5. CASE Protocol[m] = "NONE"
  <2>1. Protected(t)' = Protected(t) /\ Weight(m) = 0
    BY <1>1, <1>2, <1>5 DEF Protected, Held, Weight
  <2> QED BY <1>3, <1>4, <2>1
<1>6. CASE Protocol[m] # "NONE"
  <2>1. Protected(t)' = Protected(t) \cup {m} /\ m \notin Protected(t) /\ Weight(m) = 1
    BY <1>1, <1>2, <1>6 DEF Protected, Held, Weight
  <2> QED BY <1>3, <1>4, <2>1, FS_AddElement
<1> QED BY <1>5, <1>6

LEMMA ProtectedDrops ==
  ASSUME TypeOK, NEW t \in Thread, NEW m \in Mutex, IsFiniteSet(Protected(t)),
         owner[m] = t, owner' = [owner EXCEPT ![m] = NoThread]
  PROVE  /\ IsFiniteSet(Protected(t)') /\ Cardinality(Protected(t)') \in Nat
         /\ Cardinality(Protected(t)') = Cardinality(Protected(t)) - Weight(m)
         /\ \A x \in Thread \ {t} : Protected(x)' = Protected(x)
<1>1. \A n \in Mutex : owner'[n] = IF n = m THEN NoThread ELSE owner[n]
  BY DEF TypeOK
<1>2. \A x \in Thread : NoThread # x
  BY NoThreadAssumption
<1>3. \A x \in Thread \ {t} : Protected(x)' = Protected(x)
  BY <1>1, <1>2 DEF Protected, Held
<1>4. CASE Protocol[m] = "NONE"
  <2>1. Protected(t)' = Protected(t) /\ Weight(m) = 0
    BY <1>1, <1>2, <1>4 DEF Protected, Held, Weight
  <2> QED BY <1>3, <2>1, FS_CardinalityType
<1>5. CASE Protocol[m] # "NONE"
  <2>1. Protected(t)' = Protected(t) \ {m} /\ m \in Protected(t) /\ Weight(m) = 1
    BY <1>1, <1>2, <1>5 DEF Protected, Held, Weight
  <2>2. IsFiniteSet(Protected(t)') /\ Cardinality(Protected(t)') = Cardinality(Protected(t)) - 1
    BY <2>1, FS_RemoveElement
  <2> QED BY <1>3, <2>1, <2>2, FS_CardinalityType
<1> QED BY <1>4, <1>5

(* A thread that neither takes, gives up nor claims anything, boosted or   *)
(* not.                                                                    *)
LEMMA AccountKept ==
  ASSUME NEW x \in Thread, Account(x), Protected(x)' = Protected(x),
         ~Dead(x)' => ~Dead(x), ~Dead(x)' => Claiming(x)' = Claiming(x),
         Keeps(pri[x], pri'[x]), pri'[x].count = pri[x].count,
         pri'[x].inh => pri[x].inh \/ pri[x].count > 0 \/ Dead(x)
  PROVE  Account(x)' /\ Base(x)' = Base(x)
<1>1. Base(x)' = Base(x) /\ Within(pri'[x])
  BY DEF Keeps, Base, BaseOf
<1>2. pri'[x].inh => pri'[x].count > 0 \/ Dead(x)'
  BY DEF Account
<1>3. ~Dead(x)' => pri'[x].count = Cardinality(Protected(x)') + Claiming(x)'
  BY DEF Account
<1>4. IsFiniteSet(Protected(x)')
  BY DEF Account
<1> QED BY <1>1, <1>2, <1>3, <1>4 DEF Account

(* A thread the step does not touch.                                       *)
LEMMA BystanderKept ==
  ASSUME NEW x \in Thread, Account(x), Protected(x)' = Protected(x), pri'[x] = pri[x],
         Dead(x) => Dead(x)', Claiming(x)' = Claiming(x)
  PROVE  Account(x)' /\ Base(x)' = Base(x)
<1>1. Keeps(pri[x], pri'[x])
  BY DEF Account, Keeps
<1> QED BY <1>1, AccountKept

Accounts == \A x \in Thread : Account(x)' /\ Base(x)' = Base(x)

(* No priority changes and nothing is taken or given up.                   *)
LEMMA StillAccounts ==
  ASSUME PriInv, UNCHANGED <<pri, owner>>,
         \A x \in Thread : ~Dead(x)' => ~Dead(x) /\ Claiming(x)' = Claiming(x)
  PROVE  Accounts
<1> SUFFICES ASSUME NEW x \in Thread PROVE Account(x)' /\ Base(x)' = Base(x)
  BY DEF Accounts
<1>1. Account(x) /\ Protected(x)' = Protected(x) /\ pri'[x] = pri[x]
  BY DEF PriInv, Protected, Held
<1>2. Keeps(pri[x], pri'[x])
  BY <1>1 DEF Account, Keeps
<1> QED BY <1>1, <1>2, AccountKept

LEMMA RunningAlive ==
  ASSUME NEW t \in Thread, Running(t) PROVE ~Dead(t) /\ state[t] = {}
BY DEF Running, Ready, Dead

(* A mutex is taken: what was claimed of it, and counted, is owned now.    *)
LEMMA AcquireAccounts ==
  ASSUME PriInv, NEW t \in Thread, NEW m \in Mutex, NEW pr, Running(t), Acquire(t, m, pr),
         \/ pr = Claimed(t, m) /\ Claiming(t) = 0
         \/ pr = pri /\ Claiming(t) = Weight(m)
  PROVE  Accounts
<1>1. TypeOK /\ \A x \in Thread : Account(x)
  BY DEF PriInv, WaitInv
<1>2. /\ owner[m] = NoThread /\ owner' = [owner EXCEPT ![m] = t] /\ pri' = pr
      /\ pc' = [pc EXCEPT ![t] = User] /\ UNCHANGED state
  BY DEF Acquire
<1>3. /\ IsFiniteSet(Protected(t)') /\ Cardinality(Protected(t)) \in Nat
      /\ Cardinality(Protected(t)') = Cardinality(Protected(t)) + Weight(m)
      /\ \A x \in Thread \ {t} : Protected(x)' = Protected(x)
  BY <1>1, <1>2, ProtectedAdds DEF Account
<1>4. \A x \in Thread : pri[x] \in PriorityRecord /\ Within(pri[x])
  BY <1>1 DEF TypeOK, Account
<1>5. pri[t].count = Cardinality(Protected(t)) + Claiming(t)
      /\ (pri[t].inh => pri[t].count > 0)
  BY <1>1, RunningAlive DEF Account
<1>6. Weight(m) \in {0, 1} /\ Claiming(t)' = 0
  BY <1>1, <1>2 DEF Weight, Claiming, User, At, TypeOK
<1>7. /\ Keeps(pri[t], pri'[t])
      /\ pri'[t].count = Cardinality(Protected(t)) + Weight(m)
      /\ pri'[t].inh => pri[t].inh \/ Weight(m) = 1
  <2>1. CASE pr = Claimed(t, m) /\ Claiming(t) = 0
    <3>1. pri'[t] = Claim(m, pri[t])
      BY <1>1, <1>2, <2>1 DEF Claimed, TypeOK
    <3>2. /\ Keeps(pri[t], Claim(m, pri[t])) /\ Claim(m, pri[t]).count = pri[t].count + Weight(m)
          /\ Claim(m, pri[t]).inh => pri[t].inh \/ Weight(m) = 1
      BY <1>4, RecordSteps
    <3> QED BY <1>3, <1>5, <2>1, <3>1, <3>2
  <2>2. CASE pr = pri /\ Claiming(t) = Weight(m)
    <3>1. Keeps(pri[t], pri[t])
      BY <1>4, RecordSteps
    <3> QED BY <1>2, <1>5, <2>2, <3>1
  <2> QED BY <2>1, <2>2
<1>8. Account(t)' /\ Base(t)' = Base(t)
  <2>1. pri'[t].inh => pri'[t].count > 0
    <3>1. pri[t].inh => Cardinality(Protected(t)) + Claiming(t) > 0
      BY <1>5
    <3>2. CASE Claiming(t) = 0
      BY <1>3, <1>6, <1>7, <3>1, <3>2
    <3>3. CASE Claiming(t) = Weight(m)
      BY <1>3, <1>6, <1>7, <3>1, <3>3
    <3> QED BY <3>2, <3>3
  <2>2. pri'[t].count = Cardinality(Protected(t)') + Claiming(t)'
    BY <1>3, <1>6, <1>7
  <2> QED BY <1>3, <1>7, <2>1, <2>2 DEF Account, Keeps, Base, BaseOf
<1>9. ASSUME NEW x \in Thread \ {t} PROVE Account(x)' /\ Base(x)' = Base(x)
  <2>1. pri'[x] = pri[x] /\ pc'[x] = pc[x]
    BY <1>1, <1>2 DEF Claimed, TypeOK
  <2> QED BY <1>1, <1>2, <1>3, <2>1, BystanderKept DEF Dead, Claiming
<1> QED BY <1>8, <1>9 DEF Accounts

(* The owner of a protected mutex counts it.                               *)
LEMMA OwnerCounts ==
  ASSUME NEW o \in Thread, NEW m \in Mutex, Account(o), owner[m] = o,
         Protocol[m] # "NONE", ~Dead(o)
  PROVE  pri[o].count > 0
<1>1. m \in Protected(o)
  BY DEF Protected, Held
<1>2. Cardinality(Protected(o)) \in Nat /\ Cardinality(Protected(o)) # 0
  BY <1>1, FS_CardinalityType, FS_EmptySet DEF Account
<1>3. Claiming(o) \in {0, 1}
  BY DEF Claiming
<1> QED BY <1>2, <1>3 DEF Account

(* A thread goes to sleep for a mutex it claims, and boosts the owner.     *)
LEMMA BlockAccounts ==
  ASSUME PriInv, NEW t \in Thread, NEW m \in Mutex, NEW pr,
         NEW label \in {"lock", "relocking"}, Running(t), Block(t, m, pr, label),
         owner[m] # t,
         \/ pr = Claimed(t, m) /\ Claiming(t) = 0
         \/ pr = pri /\ Claiming(t) = Weight(m)
  PROVE  Accounts
<1>0. PICK o \in Thread : o = owner[m]
  BY DEF Block
<1>1. TypeOK /\ \A x \in Thread : Account(x)
  BY DEF PriInv, WaitInv
<1>2. /\ pri' = BoostedOwner(t, m, pr) /\ UNCHANGED owner
      /\ pc' = [pc EXCEPT ![t] = At(label, m)]
      /\ state' = [state EXCEPT ![t] = @ \cup {"SLEEPING"}]
  BY DEF Block, Sleep
<1>3. \A x \in Thread : /\ pri[x] \in PriorityRecord /\ Within(pri[x])
                        /\ Protected(x)' = Protected(x) /\ (Dead(x)' <=> Dead(x))
  BY <1>1, <1>2 DEF TypeOK, Account, Protected, Held, Dead
<1>4. pri[t].count = Cardinality(Protected(t)) + Claiming(t)
      /\ (pri[t].inh => pri[t].count > 0)
  BY <1>1, RunningAlive DEF Account
<1>5. /\ Weight(m) \in {0, 1} /\ Claiming(t)' = Weight(m)
      /\ Cardinality(Protected(t)) \in Nat
  <2>1. pc'[t] = At(label, m)
    BY <1>1, <1>2 DEF TypeOK
  <2>2. Claiming(t)' = Weight(m)
    BY <2>1 DEF Claiming, Weight, At
  <2> QED BY <1>1, <2>2, FS_CardinalityType DEF Weight, Account
<1>6. pr \in [Thread -> PriorityRecord] /\ \A x \in Thread \ {t} : pr[x] = pri[x]
  <2>1. pri \in [Thread -> PriorityRecord]
    BY <1>1 DEF TypeOK
  <2>2. CASE pr = pri
    BY <2>1, <2>2
  <2>3. CASE pr = Claimed(t, m)
    <3>1. pr \in [Thread -> PriorityRecord]
      BY <1>1, <2>3, ClaimedType
    <3>2. \A x \in Thread \ {t} : pr[x] = pri[x]
      BY <2>1, <2>3 DEF Claimed
    <3> QED BY <3>1, <3>2
  <2> QED BY <2>2, <2>3
<1>7. pri'[t] = pr[t] /\ \A x \in Thread \ {t, o} : pri'[x] = pri[x]
  BY <1>0, <1>2, <1>6 DEF BoostedOwner
<1>8. Account(t)' /\ Base(t)' = Base(t)
  <2>1. /\ Keeps(pri[t], pr[t])
        /\ pr[t].count = Cardinality(Protected(t)) + Weight(m)
        /\ pr[t].inh => pri[t].inh \/ Weight(m) = 1
    <3>1. CASE pr = Claimed(t, m) /\ Claiming(t) = 0
      <4>1. pr[t] = Claim(m, pri[t])
        BY <1>1, <3>1 DEF Claimed, TypeOK
      <4>2. /\ Keeps(pri[t], Claim(m, pri[t])) /\ Claim(m, pri[t]).count = pri[t].count + Weight(m)
            /\ Claim(m, pri[t]).inh => pri[t].inh \/ Weight(m) = 1
        BY <1>3, RecordSteps
      <4> QED BY <1>4, <1>5, <3>1, <4>1, <4>2
    <3>2. CASE pr = pri /\ Claiming(t) = Weight(m)
      <4>1. Keeps(pri[t], pri[t])
        BY <1>3, RecordSteps
      <4> QED BY <1>4, <3>2, <4>1
    <3> QED BY <3>1, <3>2
  <2>2. pr[t].inh => pr[t].count > 0
    <3>1. pri[t].inh => Cardinality(Protected(t)) + Claiming(t) > 0
      BY <1>4
    <3>2. CASE Claiming(t) = 0
      BY <1>5, <2>1, <3>1, <3>2
    <3>3. CASE Claiming(t) = Weight(m)
      BY <1>5, <2>1, <3>1, <3>3
    <3> QED BY <3>2, <3>3
  <2>3. Protected(t)' = Protected(t) /\ IsFiniteSet(Protected(t))
    BY <1>1, <1>3 DEF Account
  <2>4. Base(t)' = Base(t) /\ Within(pri'[t])
    BY <1>7, <2>1 DEF Keeps, Base, BaseOf
  <2> QED BY <1>5, <1>7, <2>1, <2>2, <2>3, <2>4 DEF Account
<1>9. \A x \in Thread \ {t} : Claiming(x)' = Claiming(x)
  BY <1>1, <1>2 DEF Claiming, TypeOK
<1>10. Account(o)' /\ Base(o)' = Base(o)
  <2>1. CASE Protocol[m] = "INHERIT"
    <3>1. pri'[o] = Inherit(pri[o], pr[t].cur) /\ pr[t].cur \in Priority
      BY <1>0, <1>2, <1>6, <2>1 DEF BoostedOwner, PriorityRecord
    <3>2. Keeps(pri[o], pri'[o]) /\ pri'[o].count = pri[o].count
      BY <1>2, <1>3, <3>1, RecordSteps
    <3>3. pri[o].count > 0 \/ Dead(o)
      BY <1>0, <1>1, <2>1, OwnerCounts
    <3> QED BY <1>0, <1>1, <1>3, <1>9, <3>2, <3>3, AccountKept
  <2>2. CASE Protocol[m] # "INHERIT"
    <3>1. pri'[o] = pri[o]
      BY <1>0, <1>2, <1>6, <2>2 DEF BoostedOwner
    <3> QED BY <1>0, <1>1, <1>3, <1>9, <3>1, BystanderKept
  <2> QED BY <2>1, <2>2
<1>11. ASSUME NEW x \in Thread \ {t, o} PROVE Account(x)' /\ Base(x)' = Base(x)
  <2>1. x \in Thread /\ pri'[x] = pri[x] /\ Claiming(x)' = Claiming(x)
    BY <1>7, <1>9
  <2>2. Account(x) /\ Protected(x)' = Protected(x) /\ (Dead(x) => Dead(x)')
    BY <1>1, <1>3, <2>1
  <2> QED BY <2>1, <2>2, BystanderKept
<1>12. \A x \in Thread : Account(x)' /\ Base(x)' = Base(x)
  <2> SUFFICES ASSUME NEW x \in Thread PROVE Account(x)' /\ Base(x)' = Base(x)
    OBVIOUS
  <2>1. CASE x \notin {t, o}
    BY <1>11, <2>1
  <2>2. CASE x = o
    BY <1>10, <2>2
  <2> QED BY <1>8, <2>1, <2>2
<1> QED BY <1>12 DEF Accounts

(* A mutex is unlocked, and the head of its queue, which has claimed it,   *)
(* may be given the owner's priority.                                      *)
LEMMA UnlockAccounts ==
  ASSUME PriInv, NEW t \in Thread, NEW m \in Mutex, Running(t), owner[m] = t,
         owner' = [owner EXCEPT ![m] = NoThread], pri' = UnlockPri(t, m),
         \A x \in Thread : Dead(x)' <=> Dead(x),
         \A x \in Thread \ {t} : pc'[x] = pc[x],
         Claiming(t) = 0, Claiming(t)' = 0
  PROVE  Accounts
<1>1. TypeOK /\ QueueOK /\ \A x \in Thread : Account(x)
  BY DEF PriInv, WaitInv
<1>2. \A x \in Thread : pri[x] \in PriorityRecord /\ Within(pri[x])
  BY <1>1 DEF TypeOK, Account
<1>3. /\ IsFiniteSet(Protected(t)') /\ Cardinality(Protected(t)') \in Nat
      /\ Cardinality(Protected(t)') = Cardinality(Protected(t)) - Weight(m)
      /\ \A x \in Thread \ {t} : Protected(x)' = Protected(x)
  BY <1>1, ProtectedDrops DEF Account
<1>4. pri[t].count = Cardinality(Protected(t)) /\ (pri[t].inh => pri[t].count > 0)
  <2>1. IsFiniteSet(Protected(t))
    BY <1>1 DEF Account
  <2> QED BY <1>1, <2>1, RunningAlive, FS_CardinalityType DEF Account
<1>5. Account(t)' /\ Base(t)' = Base(t)
  <2>1. pri'[t] = Unclaim(m, pri[t])
    BY DEF UnlockPri
  <2>2. /\ Keeps(pri[t], pri'[t]) /\ pri'[t].count = pri[t].count - Weight(m)
        /\ pri'[t].inh => pri[t].inh /\ (Weight(m) = 1 => pri'[t].count # 0)
    BY <1>2, <2>1, RecordSteps
  <2>3. Weight(m) \in {0, 1}
    BY DEF Weight
  <2>4. pri'[t].count = Cardinality(Protected(t)') + Claiming(t)'
    BY <1>3, <1>4, <2>2
  <2>5. pri'[t].inh => pri'[t].count > 0
    <3> DEFINE k == pri[t].count
               n == pri'[t].count
    <3>1. k \in Int /\ n \in Nat /\ n = k - Weight(m)
      BY <1>2, <1>3, <1>4, <2>2 DEF PriorityRecord
    <3>2. (pri'[t].inh => pri[t].inh) /\ (pri[t].inh => k > 0)
      BY <1>4, <2>2
    <3>3. pri'[t].inh /\ Weight(m) = 1 => n # 0
      BY <2>2
    <3> HIDE DEF k, n
    <3>4. CASE Weight(m) = 0
      <4>1. n = k
        BY <3>1, <3>4
      <4> QED BY <3>2, <4>1 DEF n
    <3>5. CASE Weight(m) = 1
      <4>1. n # 0 => n > 0
        BY <3>1
      <4> QED BY <3>3, <3>5, <4>1 DEF n
    <3> QED BY <2>3, <3>4, <3>5
  <2> QED BY <1>3, <2>2, <2>4, <2>5 DEF Account, Keeps, Base, BaseOf
<1>6. ASSUME NEW x \in Thread \ {t} PROVE Account(x)' /\ Base(x)' = Base(x)
  <2>1. Protected(x)' = Protected(x) /\ Claiming(x)' = Claiming(x)
    BY <1>3 DEF Claiming
  <2>2. CASE pri'[x] = pri[x]
    <3>1. Keeps(pri[x], pri'[x])
      BY <1>2, <2>2 DEF Keeps
    <3> QED BY <1>1, <2>1, <2>2, <3>1, AccountKept
  <2>3. CASE pri'[x] # pri[x]
    <3>1. /\ queue[m] # <<>> /\ x = Head(queue[m]) /\ Protocol[m] = "INHERIT"
          /\ pri'[x] = Inherit(pri[x], pri[t].cur)
      BY <2>3 DEF UnlockPri, Heir, RelayPriority
    <3>2. pri[t].cur \in Priority
      BY <1>2 DEF PriorityRecord
    <3>3. Keeps(pri[x], pri'[x]) /\ pri'[x].count = pri[x].count
      BY <1>2, <3>1, <3>2, RecordSteps
    <3>4. queue[m] \in Seq(Thread) /\ m \in DOMAIN queue
      BY <1>1 DEF TypeOK
    <3>5. OnQueue(x, m)
      BY <3>1, <3>4 DEF OnQueue, ToSet
    <3>6. Claiming(x) = 1
      BY <1>1, <3>1, <3>4, <3>5 DEF QueueOK, Waits, Claiming
    <3>7. Cardinality(Protected(x)) \in Nat
      BY <1>1, FS_CardinalityType DEF Account
    <3>8. pri[x].count > 0 \/ Dead(x)
      BY <1>1, <3>6, <3>7 DEF Account
    <3> QED BY <1>1, <2>1, <3>3, <3>8, AccountKept
  <2> QED BY <2>2, <2>3
<1> QED BY <1>5, <1>6 DEF Accounts

(* set_priority() changes the priority to return to, and nothing else.     *)
LEMMA SetPriorityAccounts ==
  ASSUME PriInv, NEW u \in Thread, NEW t \in Thread, NEW p \in Given, SetPriority(u, t, p)
  PROVE  /\ \A x \in Thread : Account(x)'
         /\ \A x \in Thread \ {t} : Base(x)' = Base(x)
<1>1. /\ TypeOK /\ \A x \in Thread : Account(x)
      /\ pri' = [pri EXCEPT ![t] = SetPriorityOf(@, p)] /\ UNCHANGED <<state, owner, pc>>
  BY DEF PriInv, WaitInv, SetPriority
<1>2. \A x \in Thread : /\ pri[x] \in PriorityRecord /\ Within(pri[x])
                        /\ Protected(x)' = Protected(x) /\ (Dead(x)' <=> Dead(x))
                        /\ Claiming(x)' = Claiming(x)
  BY <1>1 DEF TypeOK, Account, Protected, Held, Dead, Claiming
<1>3. ASSUME NEW x \in Thread \ {t} PROVE Account(x)' /\ Base(x)' = Base(x)
  <2>1. x \in Thread /\ pri'[x] = pri[x]
    BY <1>1 DEF TypeOK
  <2>2. Keeps(pri[x], pri'[x])
    BY <1>2, <2>1 DEF Keeps
  <2> QED BY <1>1, <1>2, <2>1, <2>2, AccountKept
<1>4. Account(t)'
  <2>1. pri'[t] = SetPriorityOf(pri[t], p)
    BY <1>1 DEF TypeOK
  <2>2. p \in Int /\ Priority \subseteq Int
    BY PriorityAssumption, StartAssumption DEF Priority
  <2>3. /\ pri'[t].inh = pri[t].inh /\ pri'[t].count = pri[t].count
        /\ Within(pri'[t])
    BY <1>2, <2>1, <2>2 DEF SetPriorityOf, PriorityRecord, Within
  <2> QED BY <1>1, <1>2, <2>3 DEF Account
<1> QED BY <1>3, <1>4

(* A step that leaves the mutexes alone: a thread outside lock() moves, or *)
(* none does, and nobody comes back to life.                               *)
LEMMA ElsewhereAccounts ==
  ASSUME PriInv, UNCHANGED <<pri, owner>>, NEW t \in Thread,
         \A x \in Thread : Dead(x) => Dead(x)',
         \A x \in Thread \ {t} : pc'[x] = pc[x],
         \/ pc'[t] = pc[t]
         \/ {pc[t].at, pc'[t].at} \cap {"lock", "relocking"} = {}
  PROVE  Accounts
<1>1. \A x \in Thread \ {t} : Claiming(x)' = Claiming(x)
  BY DEF Claiming
<1>2. Claiming(t)' = Claiming(t)
  BY DEF Claiming
<1> QED BY <1>1, <1>2, StillAccounts

LEMMA WakeAccounts ==
  ASSUME PriInv, NEW S, NEW reason, Wake(S, reason), UNCHANGED <<pri, owner, pc>>
  PROVE  Accounts
<1>1. \A x \in Thread : Dead(x) => Dead(x)'
  BY DEF Wake, Awake, Dead
<1> QED BY <1>1, StillAccounts DEF Claiming

(* A lock() that was broken gives its claim back.                          *)
LEMMA LockFailAccounts ==
  ASSUME PriInv, NEW t \in Thread, LockFail(t) PROVE Accounts
<1> DEFINE m == pc[t].mx
<1>1. TypeOK /\ \A x \in Thread : Account(x)
  BY DEF PriInv, WaitInv
<1>2. /\ Running(t) /\ pc[t].at \in {"lock", "relocking"}
      /\ pri' = [pri EXCEPT ![t] = Unclaim(m, @)]
      /\ pc' = [pc EXCEPT ![t] = IF @.at = "lock" THEN User ELSE At("relock", m)]
      /\ UNCHANGED <<state, owner>>
  BY DEF LockFail
<1>3. m \in Mutex
  BY <1>1, <1>2 DEF TypeOK, Place, Outside
<1>4. /\ Claiming(t) = Weight(m) /\ Claiming(t)' = 0 /\ Weight(m) \in {0, 1}
      /\ \A x \in Thread \ {t} : pc'[x] = pc[x] /\ pri'[x] = pri[x]
      /\ pri'[t] = Unclaim(m, pri[t])
  BY <1>1, <1>2 DEF TypeOK, Claiming, Weight, User, At
<1>5. \A x \in Thread : /\ pri[x] \in PriorityRecord /\ Within(pri[x])
                        /\ Protected(x)' = Protected(x) /\ (Dead(x)' <=> Dead(x))
  BY <1>1, <1>2 DEF TypeOK, Account, Protected, Held, Dead
<1> HIDE DEF m
<1>6. ASSUME NEW x \in Thread \ {t} PROVE Account(x)' /\ Base(x)' = Base(x)
  <2>1. x \in Thread /\ pri'[x] = pri[x] /\ Claiming(x)' = Claiming(x)
    BY <1>4 DEF Claiming
  <2>2. Keeps(pri[x], pri'[x])
    BY <1>5, <2>1 DEF Keeps
  <2> QED BY <1>1, <1>5, <2>1, <2>2, AccountKept
<1>7. Account(t)' /\ Base(t)' = Base(t)
  <2>1. /\ pri[t].count = Cardinality(Protected(t)) + Weight(m)
        /\ pri[t].inh => pri[t].count > 0
    BY <1>1, <1>2, <1>4, RunningAlive DEF Account
  <2>2. /\ Keeps(pri[t], pri'[t]) /\ pri'[t].count = pri[t].count - Weight(m)
        /\ pri'[t].inh => pri[t].inh /\ (Weight(m) = 1 => pri'[t].count # 0)
    BY <1>3, <1>4, <1>5, RecordSteps
  <2>3. Cardinality(Protected(t)) \in Nat /\ IsFiniteSet(Protected(t))
    BY <1>1, FS_CardinalityType DEF Account
  <2>4. pri'[t].count = Cardinality(Protected(t))
    BY <1>4, <2>1, <2>2, <2>3
  <2>5. pri'[t].inh => pri'[t].count > 0
    <3>1. CASE Weight(m) = 0
      BY <2>1, <2>2, <2>3, <3>1
    <3>2. CASE Weight(m) = 1
      <4>1. pri'[t].inh => pri'[t].count # 0
        BY <2>2, <3>2
      <4>2. pri'[t].count # 0 => pri'[t].count > 0
        BY <2>3, <2>4
      <4> QED BY <4>1, <4>2
    <3> QED BY <1>4, <3>1, <3>2
  <2>6. pri'[t].count = Cardinality(Protected(t)') + Claiming(t)'
    BY <1>4, <1>5, <2>3, <2>4
  <2> QED BY <1>5, <2>2, <2>3, <2>5, <2>6 DEF Account, Keeps, Base, BaseOf
<1> QED BY <1>6, <1>7 DEF Accounts

(* Only set_priority() changes a base priority.                            *)
BasesMove ==
  \A t \in Thread : Base(t)' # Base(t) =>
    \E u \in Thread, p \in Given : SetPriority(u, t, p)

LEMMA AccountInit == Init => PriInv
<1> SUFFICES ASSUME Init PROVE PriInv
  OBVIOUS
<1>1. WaitInv
  BY WaitInit
<1>2. ASSUME NEW t \in Thread PROVE Account(t)
  <2>1. Protected(t) = {}
    BY NoThreadAssumption DEF Init, Protected, Held
  <2>2. pri[t].count = 0 /\ pri[t].inh = FALSE /\ Claiming(t) = 0
    BY DEF Init, Claiming, User, At
  <2> QED BY <2>1, <2>2, FS_EmptySet DEF Account, Within
<1> QED BY <1>1, <1>2 DEF PriInv

LEMMA AccountStep == PriInv /\ [Next]_vars => PriInv' /\ BasesMove
<1> SUFFICES ASSUME PriInv, [Next]_vars
             PROVE  (\A x \in Thread : Account(x)') /\ BasesMove
  BY WaitInvStep DEF PriInv
<1>1. TypeOK /\ ClaimsOthers
  BY DEF PriInv, WaitInv
<1>2. ASSUME Accounts PROVE (\A x \in Thread : Account(x)') /\ BasesMove
  BY <1>2 DEF Accounts, BasesMove
<1>3. CASE UNCHANGED vars \/ Dispatch \/ Timeslice
  <2>1. UNCHANGED <<pri, owner, pc, state>>
    BY <1>3 DEF vars, Dispatch, DispatchTo, Timeslice
  <2>2. \A x \in Thread : (Dead(x)' <=> Dead(x)) /\ Claiming(x)' = Claiming(x)
    BY <2>1 DEF Dead, Claiming
  <2> QED BY <1>2, <2>1, <2>2, StillAccounts
<1>4. ASSUME NEW x \in Thread, TimerAlarm(x) PROVE Accounts
  <2>1. UNCHANGED <<pri, owner, pc>>
    BY <1>4 DEF TimerAlarm
  <2>2. (\E r \in WakeReasons : Wake({x}, r)) \/ UNCHANGED state
    BY <1>4 DEF TimerAlarm, WakeReasons
  <2>3. CASE UNCHANGED state
    <3>1. \A y \in Thread : (Dead(y)' <=> Dead(y)) /\ Claiming(y)' = Claiming(y)
      BY <2>1, <2>3 DEF Dead, Claiming
    <3> QED BY <2>1, <3>1, StillAccounts
  <2> QED BY <2>1, <2>2, <2>3, WakeAccounts
<1>5. ASSUME NEW c \in Cond, SignalOne(c) PROVE Accounts
  <2>1. Wake({Head(queue[c])}, "DONE") /\ UNCHANGED <<pri, owner, pc>>
    BY <1>5 DEF SignalOne
  <2> QED BY <2>1, WakeAccounts
<1>6. ASSUME NEW t \in Thread, Running(t), ExitNow(t) PROVE Accounts
  <2>1. state' = [state EXCEPT ![t] = {"EXITED"}] /\ UNCHANGED <<pri, owner, pc>>
    BY <1>6 DEF ExitNow
  <2>2. \A x \in Thread : Dead(x) => Dead(x)'
    BY <1>1, <2>1 DEF Dead, TypeOK
  <2> QED BY <2>1, <2>2, StillAccounts DEF Claiming
<1>7. ASSUME NEW t \in Thread, pc[t].at = "user" PROVE Claiming(t) = 0
  BY <1>7 DEF Claiming
<1>8. ASSUME NEW t \in Thread, MutexStep(t) PROVE Accounts
  <2> SUFFICES ASSUME NEW m \in Mutex,
                      Lock(t, m) \/ TryLock(t, m) \/ Unlock(t, m) \/ MutexRelease(t, m)
               PROVE  Accounts
    BY <1>8 DEF MutexStep
  <2>1. Running(t) /\ Claiming(t) = 0
    BY <1>7 DEF Lock, TryLock, Unlock, MutexRelease, Calling
  <2>2. CASE Lock(t, m)
    <3>1. "lock" \in {"lock", "relocking"} /\ owner[m] # t
      BY <2>2 DEF Lock
    <3>2. CASE Acquire(t, m, Claimed(t, m))
      BY <2>1, <3>2, AcquireAccounts
    <3>3. CASE Block(t, m, Claimed(t, m), "lock")
      BY <2>1, <3>1, <3>3, BlockAccounts
    <3> QED BY <2>2, <3>2, <3>3 DEF Lock
  <2>3. CASE TryLock(t, m)
    BY <2>1, <2>3, AcquireAccounts DEF TryLock
  <2>4. CASE Unlock(t, m)
    <3>1. /\ owner[m] = t /\ owner' = [owner EXCEPT ![m] = NoThread] /\ pri' = UnlockPri(t, m)
          /\ state' = Awake(Heir(m)) /\ UNCHANGED pc
      BY <2>4 DEF Unlock
    <3>2. \A x \in Thread : (Dead(x)' <=> Dead(x)) /\ Claiming(x)' = Claiming(x)
      BY <3>1 DEF Dead, Awake, Claiming
    <3>3. Claiming(t)' = 0
      BY <2>1, <3>2
    <3> QED BY <2>1, <3>1, <3>2, <3>3, UnlockAccounts
  <2>5. CASE MutexRelease(t, m)
    BY <2>5, WakeAccounts DEF MutexRelease
  <2> QED BY <2>2, <2>3, <2>4, <2>5
<1>9. ASSUME NEW t \in Thread, NEW c \in Cond, NEW m \in Mutex, NEW reason,
             Calling(t, "wait") \/ Calling(t, "timedwait"), Wait(t, c, m, reason)
      PROVE  Accounts
  <2>1. /\ owner[m] = t /\ owner' = [owner EXCEPT ![m] = NoThread] /\ pri' = UnlockPri(t, m)
        /\ state' = [Awake(Heir(m)) EXCEPT ![t] = @ \cup {"SLEEPING"}]
        /\ pc' = [pc EXCEPT ![t] = At("condwait", m)]
    BY <1>9 DEF Wait
  <2>2. Running(t) /\ Claiming(t) = 0
    BY <1>7, <1>9 DEF Calling
  <2>3. \A x \in Thread : Dead(x)' <=> Dead(x)
    BY <2>1 DEF Dead, Awake
  <2>4. Claiming(t)' = 0 /\ \A x \in Thread \ {t} : pc'[x] = pc[x]
    BY <1>1, <2>1 DEF Claiming, At, TypeOK
  <2> QED BY <2>1, <2>2, <2>3, <2>4, UnlockAccounts
<1>10. ASSUME NEW t \in Thread, CondStep(t) PROVE Accounts
  <2> SUFFICES ASSUME NEW c \in Cond,
                      \/ Signal(t, c) \/ Broadcast(t, c)
                      \/ \E m \in Mutex : CondWait(t, c, m) \/ CondTimedWait(t, c, m)
               PROVE  Accounts
    BY <1>10 DEF CondStep
  <2>1. CASE Signal(t, c)
    BY <1>5, <2>1 DEF Signal
  <2>2. CASE Broadcast(t, c)
    BY <2>2, WakeAccounts DEF Broadcast
  <2>3. ASSUME NEW m \in Mutex, CondWait(t, c, m) \/ CondTimedWait(t, c, m) PROVE Accounts
    BY <1>9, <2>3 DEF CondWait, CondTimedWait
  <2> QED BY <2>1, <2>2, <2>3
<1>11. ASSUME NEW t \in Thread, NEW x \in Thread,
              Suspend(t, x) \/ Resume(t, x) \/ Release(t, x) \/ Kill(t, x)
       PROVE  Accounts
  <2>1. CASE Release(t, x)
    BY <2>1, WakeAccounts DEF Release
  <2>2. CASE ~Release(t, x)
    <3>1. UNCHANGED <<pri, owner, pc>>
      BY <1>11, <2>2 DEF Suspend, Resume, Kill
    <3>2. \A y \in Thread : Dead(y) => Dead(y)'
      <4>1. CASE Suspend(t, x)
        <5>1. state' = [state EXCEPT ![x] = @ \cup {"SUSPENDED"}]
          BY <4>1 DEF Suspend
        <5> QED BY <1>1, <5>1 DEF Dead, TypeOK
      <4>2. CASE Resume(t, x)
        <5>1. state' = [state EXCEPT ![x] = IF suspendCount[x] = 1 THEN @ \ {"SUSPENDED"} ELSE @]
          BY <4>2 DEF Resume
        <5> QED BY <1>1, <5>1 DEF Dead, TypeOK
      <4>3. CASE Kill(t, x)
        <5>1. \/ state' = [state EXCEPT ![x] = {"EXITED"}]
              \/ state' = [state EXCEPT ![x] = (state[x] \ {"SUSPENDED"}) \ {"SLEEPING"}]
          BY <4>3 DEF Kill
        <5> QED BY <1>1, <5>1 DEF Dead, TypeOK
      <4> QED BY <1>11, <2>2, <4>1, <4>2, <4>3
    <3> QED BY <3>1, <3>2, StillAccounts DEF Claiming
  <2> QED BY <2>1, <2>2
<1>12. ASSUME NEW u \in Thread, NEW t \in Thread, NEW p \in Given, SetPriority(u, t, p)
       PROVE  (\A x \in Thread : Account(x)') /\ BasesMove
  BY <1>12, SetPriorityAccounts DEF BasesMove
<1>13. ASSUME NEW t \in Thread, ThreadStep(t)
       PROVE  (\A x \in Thread : Account(x)') /\ BasesMove
  BY <1>2, <1>11, <1>12, <1>13 DEF ThreadStep
<1>14. ASSUME NEW t \in Thread, Continue(t) PROVE Accounts
  <2> DEFINE m == pc[t].mx
  <2>1. pc[t].at \notin Outside => m \in Mutex /\ owner[m] # t
    BY <1>1 DEF TypeOK, Place, ClaimsOthers
  <2>2. Running(t)
    BY <1>14 DEF Continue, LockRetry, LockFail, LockExit, CondWakeup, Relock, DelayWakeup
  <2>3. CASE LockRetry(t)
    <3>1. m \in Mutex /\ owner[m] # t /\ pc[t].at \in {"lock", "relocking"}
      BY <2>1, <2>3 DEF LockRetry, Outside
    <3>2. Claiming(t) = Weight(m)
      BY <3>1 DEF Claiming, Weight
    <3>3. CASE Acquire(t, m, pri)
      BY <2>2, <3>1, <3>2, <3>3, AcquireAccounts
    <3>4. CASE Block(t, m, pri, pc[t].at)
      BY <2>2, <3>1, <3>2, <3>4, BlockAccounts
    <3> QED BY <2>3, <3>3, <3>4 DEF LockRetry
  <2>4. CASE Relock(t)
    <3>1. m \in Mutex /\ owner[m] # t /\ "relocking" \in {"lock", "relocking"}
      BY <2>1, <2>4 DEF Relock, Outside
    <3>2. Claiming(t) = 0
      BY <2>4 DEF Relock, Claiming
    <3>3. CASE Acquire(t, m, Claimed(t, m))
      BY <2>2, <3>1, <3>2, <3>3, AcquireAccounts
    <3>4. CASE Block(t, m, Claimed(t, m), "relocking")
      BY <2>2, <3>1, <3>2, <3>4, BlockAccounts
    <3> QED BY <2>4, <3>3, <3>4 DEF Relock
  <2>5. CASE LockExit(t) \/ ExitNow(t)
    BY <1>6, <2>2, <2>5 DEF LockExit
  <2>6. CASE (CondWakeup(t) \/ DelayWakeup(t)) /\ ~ExitNow(t)
    <3>1. /\ UNCHANGED <<pri, owner, state>> /\ pc[t].at \in {"condwait", "delay"}
          /\ pc' = [pc EXCEPT ![t].at = "relock"] \/ pc' = [pc EXCEPT ![t] = User]
      BY <2>6 DEF CondWakeup, DelayWakeup
    <3>2. \A x \in Thread \ {t} : pc'[x] = pc[x]
      BY <1>1, <3>1 DEF TypeOK
    <3>3. pc'[t].at \in {"relock", "user"}
      BY <1>1, <3>1 DEF TypeOK, Place, User, At
    <3>4. \A x \in Thread : Dead(x) => Dead(x)'
      BY <3>1 DEF Dead
    <3> QED BY <3>1, <3>2, <3>3, <3>4, ElsewhereAccounts
  <2> QED BY <1>14, <2>3, <2>4, <2>5, <2>6, LockFailAccounts DEF Continue
<1>15. ASSUME NEW t \in Thread, Delay(t) PROVE Accounts
  <2>1. /\ UNCHANGED <<pri, owner>> /\ pc[t].at = "user"
        /\ pc' = [pc EXCEPT ![t] = At("delay", NoMutex)]
    BY <1>15 DEF Delay, Calling
  <2>2. pc'[t].at = "delay" /\ \A x \in Thread \ {t} : pc'[x] = pc[x]
    BY <1>1, <2>1 DEF TypeOK, At
  <2>3. \A x \in Thread : Dead(x) => Dead(x)'
    <3>1. state' = state \/ state' = [state EXCEPT ![t] = @ \cup {"SLEEPING"}]
      BY <1>15 DEF Delay, Sleep
    <3> QED BY <1>1, <3>1 DEF Dead, TypeOK
  <2> QED BY <2>1, <2>2, <2>3, ElsewhereAccounts
<1>16. ASSUME NEW t \in Thread, NEW m \in Mutex, CondTimedWaitPast(t, m) PROVE Accounts
  <2>1. /\ owner[m] = t /\ owner' = [owner EXCEPT ![m] = NoThread] /\ pri' = UnlockPri(t, m)
        /\ state' = Awake(Heir(m)) /\ pc' = [pc EXCEPT ![t] = At("condwait", m)]
    BY <1>16 DEF CondTimedWaitPast
  <2>2. Running(t) /\ Claiming(t) = 0
    BY <1>7, <1>16 DEF CondTimedWaitPast, Calling
  <2>3. \A x \in Thread : Dead(x)' <=> Dead(x)
    BY <2>1 DEF Dead, Awake
  <2>4. Claiming(t)' = 0 /\ \A x \in Thread \ {t} : pc'[x] = pc[x]
    BY <1>1, <2>1 DEF Claiming, At, TypeOK
  <2> QED BY <2>1, <2>2, <2>3, <2>4, UnlockAccounts
<1>17. ASSUME NEW t \in Thread, Exit(t) PROVE Accounts
  BY <1>6, <1>17 DEF Exit, Calling
<1> QED
  BY <1>2, <1>3, <1>4, <1>5, <1>8, <1>10, <1>13, <1>14, <1>15, <1>16, <1>17
  DEF Next, Dsr, DsrSignal

(* mutex_count is exact for every living thread: the protected mutexes it  *)
(* owns and the one it is trying to lock, through every failed lock, wait, *)
(* break, timeout and kill.                                                *)
THEOREM CountsExact == Spec => []CountOK
<1>1. PriInv => CountOK
  BY DEF PriInv, Account, CountOK, Protected
<1> QED BY <1>1, AccountInit, AccountStep, PTL DEF Spec

(* An inherited priority is given back with the last mutex and is never    *)
(* worse than the thread's own.                                            *)
THEOREM BoostsEnd == Spec => []BoostEnds
<1>1. PriInv => BoostEnds
  BY DEF PriInv, Account, BoostEnds, Within
<1> QED BY <1>1, AccountInit, AccountStep, PTL DEF Spec

(* No boost, relay or return changes the priority the application gave a   *)
(* thread: only set_priority() does.                                       *)
THEOREM BasesKept == Spec => BaseKept
<1>1. PriInv /\ [Next]_vars =>
        [\A t \in Thread : Base(t)' # Base(t) =>
           \E u \in Thread, p \in Given : SetPriority(u, t, p)]_vars
  BY AccountStep DEF BasesMove
<1> QED BY <1>1, AccountInit, AccountStep, PTL DEF Spec, BaseKept
-----------------------------------------------------------------------------
(* Preemption.                                                             *)

LEMMA SettledStep ==
  ASSUME IdleAssumption, NEW t \in Thread, current' = t,
         ~resched' /\ state'[t] = {} =>
           \A x \in Thread : state'[x] = {} => pri'[t].cur <= pri'[x].cur
  PROVE  MostUrgentRuns'
BY DEF IdleAssumption, MostUrgentRuns, Unsettled, Candidates, Ready

LEMMA RunningUrgent ==
  ASSUME MostUrgentRuns, NEW t \in Thread, Running(t), NEW x \in Thread, state[x] = {}
  PROVE  pri[t].cur <= pri[x].cur
BY DEF MostUrgentRuns, Running, Unsettled, Candidates, Ready

LEMMA StillUrgent ==
  ASSUME MostUrgentRuns, UNCHANGED <<current, resched, state, pri>>
  PROVE  MostUrgentRuns'
BY DEF MostUrgentRuns, Unsettled, Candidates, Ready

(* The running thread stops, or nothing but its own priority could make it *)
(* less urgent.                                                            *)
LEMMA OwnUrgent ==
  ASSUME MostUrgentRuns, NEW t \in Thread, Running(t), current' = current,
         ~resched' /\ state'[t] = {} =>
           /\ pri'[t].cur = pri[t].cur
           /\ \A x \in Thread \ {t} : state'[x] = {} => state[x] = {} /\ pri'[x].cur = pri[x].cur
  PROVE  MostUrgentRuns'
<1>1. current' = t
  BY DEF Running
<1>2. ASSUME ~resched', state'[t] = {}, NEW x \in Thread, state'[x] = {}
      PROVE  pri'[t].cur <= pri'[x].cur
  <2>1. CASE x = t
    <3>1. state[t] = {} /\ pri'[t].cur = pri[t].cur
      BY <1>2 DEF Running, Ready
    <3>2. pri[t].cur <= pri[t].cur
      BY <3>1, RunningUrgent
    <3> QED BY <2>1, <3>1, <3>2
  <2>2. CASE x # t
    <3>1. state[x] = {} /\ pri'[x].cur = pri[x].cur /\ pri'[t].cur = pri[t].cur
      BY <1>2, <2>2
    <3>2. pri[t].cur <= pri[x].cur
      BY <3>1, RunningUrgent
    <3> QED BY <3>1, <3>2
  <2> QED BY <2>1, <2>2
<1> QED BY <1>1, <1>2, SettledStep, IdleAssumption

LEMMA WakeUrgent ==
  ASSUME TypeOK, MostUrgentRuns, NEW S, NEW reason, Wake(S, reason), UNCHANGED <<current, pri>>
  PROVE  MostUrgentRuns'
<1> DEFINE W == {y \in S : Awake(S)[y] = {}}
<1>1. /\ state' = Awake(S) /\ resched' = (resched \/ Preempts(W, pri))
      /\ \A x \in Thread : pri[x].cur \in Int
  BY PriorityAssumption DEF Wake, TypeOK, PriorityRecord, Priority
<1>2. SUFFICES ASSUME ~resched', current # Idle => state'[current] = {},
                      NEW x \in Thread, state'[x] = {}
               PROVE  current # Idle /\ pri[current].cur <= pri[x].cur
  BY <1>1 DEF MostUrgentRuns, Unsettled, Candidates, Ready
<1>3. ~resched /\ \A y \in W : /\ current # Idle /\ Ready(current)
                               /\ ~(pri[y].cur < pri[current].cur)
  BY <1>1, <1>2 DEF Preempts
<1>4. \A y \in Thread \ W : state'[y] = {} => state[y] = {}
  BY <1>1 DEF Awake
<1> HIDE DEF W
<1>5. current # Idle => current \in Thread /\ Ready(current)
  <2> SUFFICES ASSUME current # Idle PROVE current \in Thread /\ Ready(current)
    OBVIOUS
  <2>1. current \in Thread
    BY DEF TypeOK
  <2>2. CASE current \in W
    BY <1>3, <2>1, <2>2
  <2>3. CASE current \notin W
    BY <1>2, <1>4, <2>1, <2>3 DEF Ready
  <2> QED BY <2>2, <2>3
<1>6. CASE x \in W
  BY <1>1, <1>3, <1>5, <1>6
<1>7. CASE x \notin W
  <2>1. ~Unsettled /\ x \in Candidates
    BY <1>2, <1>3, <1>4, <1>5, <1>7 DEF Unsettled, Candidates, Ready
  <2> QED BY <2>1 DEF MostUrgentRuns
<1> QED BY <1>6, <1>7

LEMMA UnlockUrgent ==
  ASSUME TypeOK, MostUrgentRuns, NEW t \in Thread, NEW m \in Mutex, Running(t),
         current' = current, resched' = UnlockResched(t, m), pri' = UnlockPri(t, m),
         state'[t] = {} => state' = Awake(Heir(m))
  PROVE  MostUrgentRuns'
<1> SUFFICES ASSUME ~resched', state'[t] = {}, NEW x \in Thread, state'[x] = {}
             PROVE  pri'[t].cur <= pri'[x].cur
  BY SettledStep, IdleAssumption DEF Running
<1>1. pri'[t].cur = pri[t].cur
  BY DEF UnlockResched
<1>2. \A y \in Thread : pri'[y].cur \in Int
  <2>1. pri' \in [Thread -> PriorityRecord]
    BY UnlockTypes DEF TypeOK
  <2> QED BY <2>1, PriorityAssumption DEF PriorityRecord, Priority
<1>3. CASE x = t
  BY <1>2, <1>3
<1>4. CASE x # t /\ x \in Heir(m)
  <2>1. Awake({x})[x] = {}
    BY <1>4 DEF Awake
  <2>2. ~(pri'[x].cur < pri[t].cur)
    BY <1>4, <2>1 DEF UnlockResched
  <2> QED BY <1>1, <1>2, <2>2
<1>5. CASE x # t /\ x \notin Heir(m)
  <2>1. state[x] = {} /\ pri'[x] = pri[x]
    BY <1>5 DEF Awake, UnlockPri
  <2>2. pri[t].cur <= pri[x].cur
    BY <2>1, RunningUrgent
  <2> QED BY <1>1, <2>1, <2>2
<1> QED BY <1>3, <1>4, <1>5

LEMMA UrgentStep == TypeOK /\ MostUrgentRuns /\ [Next]_vars => MostUrgentRuns'
<1> SUFFICES ASSUME TypeOK, MostUrgentRuns, [Next]_vars PROVE MostUrgentRuns'
  OBVIOUS
<1>0. \A x \in Thread : pri[x].cur \in Int
  BY PriorityAssumption DEF TypeOK, PriorityRecord, Priority
<1>1. CASE UNCHANGED vars
  BY <1>1, StillUrgent DEF vars
<1>2. CASE Dispatch
  <2> SUFFICES ASSUME NEW t \in Thread \cup {Idle}, DispatchTo(t) PROVE MostUrgentRuns'
    BY <1>2 DEF Dispatch
  <2>1. /\ current' = t /\ UNCHANGED <<state, pri>>
        /\ t \in IF Candidates = {} THEN {Idle} ELSE Highest
    BY DEF DispatchTo
  <2>2. Candidates' = Candidates
    BY <2>1 DEF Candidates, Ready
  <2>3. CASE Candidates = {}
    BY <2>2, <2>3 DEF MostUrgentRuns
  <2>4. CASE Candidates # {}
    <3>1. t \in Thread /\ \A y \in Candidates : pri[t].cur <= pri[y].cur
      BY <2>1, <2>4 DEF Highest, Candidates
    <3> QED BY <2>1, <2>2, <3>1, IdleAssumption DEF MostUrgentRuns
  <2> QED BY <2>3, <2>4
<1>3. CASE Timeslice
  BY <1>3 DEF Timeslice, MostUrgentRuns, Unsettled
<1>4. ASSUME NEW x \in Thread, TimerAlarm(x) PROVE MostUrgentRuns'
  <2>1. UNCHANGED <<current, pri>>
    BY <1>4 DEF TimerAlarm
  <2>2. (\E r \in WakeReasons : Wake({x}, r)) \/ UNCHANGED <<state, resched>>
    BY <1>4 DEF TimerAlarm, WakeReasons
  <2> QED BY <2>1, <2>2, WakeUrgent, StillUrgent
<1>5. ASSUME NEW c \in Cond, SignalOne(c) PROVE MostUrgentRuns'
  BY <1>5, WakeUrgent DEF SignalOne
<1>6. ASSUME NEW t \in Thread, Running(t), ExitNow(t) PROVE MostUrgentRuns'
  <2>1. state'[t] # {} /\ current' = current
    BY <1>6 DEF ExitNow, TypeOK
  <2> QED BY <1>6, <2>1, OwnUrgent
<1>7. ASSUME NEW t \in Thread, NEW m \in Mutex, NEW pr, Running(t), current' = current,
             Acquire(t, m, pr), \A x \in Thread \ {t} : pr[x].cur = pri[x].cur
      PROVE  MostUrgentRuns'
  <2>1. pri' = pr /\ resched' = (pr[t].cur # pri[t].cur) /\ UNCHANGED state
    BY <1>7 DEF Acquire
  <2> QED BY <1>7, <2>1, OwnUrgent
<1>8. ASSUME NEW t \in Thread, Running(t), current' = current, "SLEEPING" \in state'[t]
      PROVE  MostUrgentRuns'
  <2>1. state'[t] # {}
    BY <1>8
  <2> QED BY <1>8, <2>1, OwnUrgent
<1>9. ASSUME NEW t \in Thread, NEW m \in Mutex, NEW pr, NEW label, Block(t, m, pr, label)
      PROVE  "SLEEPING" \in state'[t]
  BY <1>9 DEF Block, Sleep, TypeOK
<1>10. ASSUME NEW t \in Thread, NEW m \in Mutex
       PROVE  \A x \in Thread \ {t} : Claimed(t, m)[x].cur = pri[x].cur
  BY DEF Claimed, TypeOK
<1>11. ASSUME NEW t \in Thread, MutexStep(t) PROVE MostUrgentRuns'
  <2> SUFFICES ASSUME NEW m \in Mutex,
                      Lock(t, m) \/ TryLock(t, m) \/ Unlock(t, m) \/ MutexRelease(t, m)
               PROVE  MostUrgentRuns'
    BY <1>11 DEF MutexStep
  <2>1. Running(t) /\ current' = current
    BY DEF Lock, TryLock, Unlock, MutexRelease, Calling
  <2>2. CASE Lock(t, m) \/ TryLock(t, m)
    <3>1. Acquire(t, m, Claimed(t, m)) \/ Block(t, m, Claimed(t, m), "lock")
      BY <2>2 DEF Lock, TryLock
    <3> QED BY <1>7, <1>8, <1>9, <1>10, <2>1, <3>1
  <2>3. CASE Unlock(t, m)
    BY <2>1, <2>3, UnlockUrgent DEF Unlock
  <2>4. CASE MutexRelease(t, m)
    BY <2>4, WakeUrgent DEF MutexRelease
  <2> QED BY <2>2, <2>3, <2>4
<1>12. ASSUME NEW t \in Thread, CondStep(t) PROVE MostUrgentRuns'
  <2> SUFFICES ASSUME NEW c \in Cond,
                      \/ Signal(t, c) \/ Broadcast(t, c)
                      \/ \E m \in Mutex : CondWait(t, c, m) \/ CondTimedWait(t, c, m)
               PROVE  MostUrgentRuns'
    BY <1>12 DEF CondStep
  <2>1. CASE Signal(t, c)
    BY <1>5, <2>1 DEF Signal
  <2>2. CASE Broadcast(t, c)
    BY <2>2, WakeUrgent DEF Broadcast
  <2>3. ASSUME NEW m \in Mutex, CondWait(t, c, m) \/ CondTimedWait(t, c, m)
        PROVE  MostUrgentRuns'
    <3>1. /\ Running(t) /\ current' = current
          /\ state' = [Awake(Heir(m)) EXCEPT ![t] = @ \cup {"SLEEPING"}]
      BY <2>3 DEF CondWait, CondTimedWait, Calling, Wait
    <3>2. "SLEEPING" \in state'[t]
      BY <3>1 DEF Awake
    <3> QED BY <1>8, <3>1, <3>2
  <2> QED BY <2>1, <2>2, <2>3
<1>13. ASSUME NEW t \in Thread, ThreadStep(t) PROVE MostUrgentRuns'
  <2> SUFFICES ASSUME NEW x \in Thread,
                      \/ Suspend(t, x) \/ Resume(t, x) \/ Release(t, x) \/ Kill(t, x)
                      \/ \E p \in Given : SetPriority(t, x, p)
               PROVE  MostUrgentRuns'
    BY <1>13 DEF ThreadStep
  <2>1. Running(t) /\ current' = current /\ current = t /\ Ready(t) /\ t # Idle
    BY IdleAssumption DEF Suspend, Resume, Release, Kill, SetPriority, Calling, Running
  <2>2. CASE Suspend(t, x)
    <3>1. state' = [state EXCEPT ![x] = @ \cup {"SUSPENDED"}] /\ UNCHANGED pri
      BY <2>2 DEF Suspend
    <3>2. \A y \in Thread : state'[y] = {} => state[y] = {}
      BY <3>1 DEF TypeOK
    <3> QED BY <2>1, <3>1, <3>2, OwnUrgent
  <2>3. ASSUME NEW seen, resched' = Preempts({y \in {x} : state[y] # {} /\ seen}, pri),
               state'[x] = {} => seen, UNCHANGED pri,
               \A y \in Thread \ {x} : state'[y] = state[y]
        PROVE  MostUrgentRuns'
    <3> SUFFICES ASSUME ~resched', NEW y \in Thread, state'[y] = {}
                 PROVE  pri'[t].cur <= pri'[y].cur
      BY <2>1, SettledStep, IdleAssumption
    <3>1. CASE state[y] = {}
      BY <2>1, <2>3, <3>1, RunningUrgent
    <3>2. CASE state[y] # {}
      <4>1. y = x /\ seen
        BY <2>3, <3>2
      <4>2. ~(pri[y].cur < pri[t].cur)
        BY <2>1, <2>3, <3>2, <4>1 DEF Preempts
      <4> QED BY <1>0, <2>3, <4>2
    <3> QED BY <3>1, <3>2
  <2>4. CASE Resume(t, x)
    <3>1. /\ resched' = Preempts({y \in {x} : state[y] # {} /\ state'[y] = {}}, pri)
          /\ UNCHANGED pri /\ \A y \in Thread \ {x} : state'[y] = state[y]
      BY <2>4 DEF Resume, TypeOK
    <3>2. {y \in {x} : state[y] # {} /\ state'[y] = {}}
            = {y \in {x} : state[y] # {} /\ state'[x] = {}}
      OBVIOUS
    <3> QED BY <2>3, <3>1, <3>2
  <2>5. CASE Release(t, x)
    BY <2>5, WakeUrgent DEF Release
  <2>6. CASE Kill(t, x)
    <3> DEFINE resumed == state[x] \ {"SUSPENDED"}
               final == IF sleepReason[x] # "NONE" \/ wakeReason[x] = "EXIT"
                        THEN resumed \ {"SLEEPING"} ELSE {"EXITED"}
    <3>1. /\ resched' = Preempts({y \in {x} : state[y] # {} /\ {} \in {resumed, final}}, pri)
          /\ state' = [state EXCEPT ![x] = final] /\ UNCHANGED pri
      BY <2>6 DEF Kill
    <3>2. state'[x] = final /\ \A y \in Thread \ {x} : state'[y] = state[y]
      BY <3>1 DEF TypeOK
    <3> HIDE DEF resumed, final
    <3>3. state'[x] = {} => {} \in {resumed, final}
      BY <3>2
    <3> QED BY <2>3, <3>1, <3>2, <3>3
  <2>7. ASSUME NEW p \in Given, SetPriority(t, x, p) PROVE MostUrgentRuns'
    <3>1. /\ resched' = (x = t \/ Preempts({x}, pri')) /\ UNCHANGED state
          /\ \A y \in Thread \ {x} : pri'[y] = pri[y]
      BY <2>7 DEF SetPriority, TypeOK
    <3>2. pri' \in [Thread -> PriorityRecord]
      <4>1. SetPriorityOf(pri[x], p) \in PriorityRecord
        BY PriorityRecordType, StartAssumption DEF TypeOK
      <4> QED BY <2>7, <4>1 DEF SetPriority, TypeOK
    <3>3. \A y \in Thread : pri'[y].cur \in Int
      BY <3>2, PriorityAssumption DEF PriorityRecord, Priority
    <3> SUFFICES ASSUME ~resched', NEW y \in Thread, state'[y] = {}
                 PROVE  pri'[t].cur <= pri'[y].cur
      BY <2>1, SettledStep, IdleAssumption
    <3>4. x # t /\ pri'[t] = pri[t] /\ ~(pri'[x].cur < pri'[t].cur)
      BY <2>1, <3>1 DEF Preempts
    <3>5. CASE y = x
      BY <3>3, <3>4, <3>5
    <3>6. CASE y # x
      BY <2>1, <3>1, <3>4, <3>6, RunningUrgent
    <3> QED BY <3>5, <3>6
  <2> QED BY <2>2, <2>4, <2>5, <2>6, <2>7
<1>14. ASSUME NEW t \in Thread, Continue(t) PROVE MostUrgentRuns'
  <2> DEFINE m == pc[t].mx
  <2>1. pc[t].at \notin Outside => m \in Mutex
    BY DEF TypeOK, Place
  <2>2. Running(t) /\ current' = current
    BY <1>14 DEF Continue, LockRetry, LockFail, LockExit, CondWakeup, Relock, DelayWakeup, ExitNow
  <2>3. CASE LockRetry(t)
    <3>1. m \in Mutex /\ (Acquire(t, m, pri) \/ Block(t, m, pri, pc[t].at))
      BY <2>1, <2>3 DEF LockRetry, Outside
    <3>2. \A x \in Thread \ {t} : pri[x].cur = pri[x].cur
      OBVIOUS
    <3> QED BY <1>7, <1>8, <1>9, <2>2, <3>1, <3>2
  <2>4. CASE Relock(t)
    <3>1. m \in Mutex /\ (\/ Acquire(t, m, Claimed(t, m))
                          \/ Block(t, m, Claimed(t, m), "relocking"))
      BY <2>1, <2>4 DEF Relock, Outside
    <3> QED BY <1>7, <1>8, <1>9, <1>10, <2>2, <3>1
  <2>5. CASE LockFail(t)
    <3>1. /\ resched' = (pri'[t].cur # pri[t].cur) /\ UNCHANGED state
          /\ \A x \in Thread \ {t} : pri'[x] = pri[x]
      BY <2>5 DEF LockFail, TypeOK
    <3> QED BY <2>2, <3>1, OwnUrgent
  <2>6. CASE LockExit(t) \/ ExitNow(t)
    BY <1>6, <2>2, <2>6 DEF LockExit
  <2>7. CASE (CondWakeup(t) \/ DelayWakeup(t)) /\ ~ExitNow(t)
    BY <2>7, StillUrgent DEF CondWakeup, DelayWakeup
  <2> QED BY <1>14, <2>3, <2>4, <2>5, <2>6, <2>7 DEF Continue
<1>15. ASSUME NEW t \in Thread, Delay(t) PROVE MostUrgentRuns'
  <2>1. /\ Running(t) /\ UNCHANGED <<current, resched, pri>>
        /\ Sleep(t, "DELAY") \/ UNCHANGED state
    BY <1>15 DEF Delay, Calling
  <2>2. CASE Sleep(t, "DELAY")
    <3>1. "SLEEPING" \in state'[t]
      BY <2>2 DEF Sleep, TypeOK
    <3> QED BY <1>8, <2>1, <3>1
  <2> QED BY <2>1, <2>2, StillUrgent
<1>16. ASSUME NEW t \in Thread, NEW m \in Mutex, CondTimedWaitPast(t, m) PROVE MostUrgentRuns'
  BY <1>16, UnlockUrgent DEF CondTimedWaitPast, Calling
<1>17. ASSUME NEW t \in Thread, Exit(t) PROVE MostUrgentRuns'
  BY <1>6, <1>17 DEF Exit, Calling
<1> QED
  BY <1>1, <1>2, <1>3, <1>4, <1>5, <1>11, <1>12, <1>13, <1>14, <1>15, <1>16, <1>17
  DEF Next, Dsr, DsrSignal

(* No preemption is missed: whatever woke, resumed, boosted or lowered a   *)
(* thread, once the kernel has settled a most urgent ready thread runs.    *)
THEOREM NobodyMoreUrgentWaits == Spec => []MostUrgentRuns
<1>1. Init => MostUrgentRuns
  BY DEF Init, MostUrgentRuns, Unsettled
<1>2. TypeOK /\ MostUrgentRuns /\ [Next]_vars => MostUrgentRuns'
  BY UrgentStep
<1> QED BY <1>1, <1>2, TypeCorrect, PTL DEF Spec
-----------------------------------------------------------------------------
(* Sleepers.                                                               *)

LEMMA TailKeeps ==
  ASSUME NEW q \in Seq(Thread), q # <<>>
  PROVE  \A x \in ToSet(q) \ {Head(q)} : x \in ToSet(Tail(q))
<1> SUFFICES ASSUME NEW i \in DOMAIN q, q[i] # Head(q) PROVE q[i] \in ToSet(Tail(q))
  BY DEF ToSet
<1>1. Len(q) \in Nat \ {0} /\ DOMAIN q = 1 .. Len(q) /\ Head(q) = q[1]
  BY EmptySeq, LenProperties
<1>2. /\ Tail(q) \in Seq(Thread) /\ Len(Tail(q)) = Len(q) - 1
      /\ \A j \in 1 .. Len(Tail(q)) : Tail(q)[j] = q[j + 1]
  BY HeadTailProperties
<1>3. i - 1 \in 1 .. Len(q) - 1 /\ (i - 1) + 1 = i
  BY <1>1
<1>4. DOMAIN Tail(q) = 1 .. Len(q) - 1
  BY <1>2, LenProperties
<1>5. Tail(q)[i - 1] = q[i] /\ i - 1 \in DOMAIN Tail(q)
  BY <1>2, <1>3, <1>4
<1> QED BY <1>5 DEF ToSet

(* A wakeup can reach t: its timer or a queue.                             *)
Timed(t) == t \in timer /\ sleepReason[t] \in {"DELAY", "TIMEOUT"}
Queued(t) == \E q \in Queues : t \in ToSet(queue[q])

(* What reaches t, asleep before, still does.                              *)
Undisturbed(t) ==
  /\ "SLEEPING" \in state[t] /\ sleepReason'[t] = sleepReason[t]
  /\ t \in timer => t \in timer'
  /\ \A q \in Queues : t \in ToSet(queue[q]) => t \in ToSet(queue'[q])

LEMMA ReachedStep ==
  ASSUME TypeOK, TypeOK', NoOrphanSleeper,
         \A t \in Thread : "SLEEPING" \in state'[t] => Undisturbed(t) \/ Timed(t)' \/ Queued(t)'
  PROVE  NoOrphanSleeper'
<1>1. DOMAIN queue = Queues /\ DOMAIN queue' = Queues
  BY DEF TypeOK, Queues
<1> SUFFICES ASSUME NEW t \in Thread, "SLEEPING" \in state'[t] PROVE Timed(t)' \/ Queued(t)'
  BY <1>1 DEF NoOrphanSleeper, Timed, Queued, OnQueue
<1>2. CASE Undisturbed(t)
  <2>1. Timed(t) \/ Queued(t)
    BY <1>1, <1>2 DEF Undisturbed, NoOrphanSleeper, Timed, Queued, OnQueue
  <2>2. Timed(t) => Timed(t)'
    BY <1>2 DEF Undisturbed, Timed
  <2>3. Queued(t) => Queued(t)'
    BY <1>2 DEF Undisturbed, Queued
  <2> QED BY <2>1, <2>2, <2>3
<1> QED BY <1>2

(* Nobody falls asleep and nothing that reaches a sleeper goes away.       *)
LEMMA StillReached ==
  ASSUME TypeOK, TypeOK', NoOrphanSleeper, UNCHANGED <<sleepReason, timer>>,
         \A t \in Thread : "SLEEPING" \in state'[t] => "SLEEPING" \in state[t],
         \A q \in Queues : ToSet(queue'[q]) = ToSet(queue[q])
  PROVE  NoOrphanSleeper'
BY ReachedStep DEF Undisturbed

(* Only thread t changes, and it is awake afterwards.                      *)
LEMMA OneAwake ==
  ASSUME WaitInv, TypeOK', NoOrphanSleeper, NEW t \in Thread, "SLEEPING" \notin state'[t],
         \A x \in Thread \ {t} : state'[x] = state[x] /\ sleepReason'[x] = sleepReason[x],
         timer \ {t} \subseteq timer', queue' \in {queue, Unlinked(t)}
  PROVE  NoOrphanSleeper'
<1>1. \A q \in Queues : \A x \in ToSet(queue[q]) \ {t} : x \in ToSet(queue'[q])
  <2> SUFFICES ASSUME NEW q \in Queues, queue' = Unlinked(t)
               PROVE  \A x \in ToSet(queue[q]) \ {t} : x \in ToSet(queue'[q])
    OBVIOUS
  <2>1. /\ queue[q] \in Seq(Thread) /\ queue'[q] = remove(queue[q], t)
        /\ NoDuplicates(queue[q])
    BY DEF Unlinked, WaitInv, QueueOK, TypeOK, Queues
  <2>2. ToSet(remove(queue[q], t)) = ToSet(queue[q]) \ {t}
    BY <2>1, RemoveProperties
  <2> QED BY <2>1, <2>2
<1>2. ASSUME NEW x \in Thread, "SLEEPING" \in state'[x] PROVE Undisturbed(x)
  <2>1. x # t /\ "SLEEPING" \in state[x] /\ sleepReason'[x] = sleepReason[x]
    BY <1>2
  <2> QED BY <1>1, <2>1 DEF Undisturbed
<1> QED BY <1>2, ReachedStep DEF WaitInv

(* The threads of S are woken, and no other leaves a queue.                *)
LEMMA WakeReached ==
  ASSUME TypeOK, TypeOK', NoOrphanSleeper, NEW S, NEW reason, Wake(S, reason), timer' = timer,
         \A q \in Queues : \A t \in ToSet(queue[q]) \ S : t \in ToSet(queue'[q])
  PROVE  NoOrphanSleeper'
<1>1. ASSUME NEW x \in Thread, "SLEEPING" \in state'[x] PROVE Undisturbed(x)
  <2>1. x \notin S /\ "SLEEPING" \in state[x] /\ sleepReason'[x] = sleepReason[x]
    BY <1>1 DEF Wake, Awake
  <2> QED BY <2>1 DEF Undisturbed
<1> QED BY <1>1, ReachedStep

(* A queue without its head.                                               *)
LEMMA TailReached ==
  ASSUME TypeOK, NEW r \in Queues, queue[r] # <<>>, NEW q \in Queues
  PROVE  \A x \in ToSet(queue[q]) \ {Head(queue[r])} : x \in ToSet([queue EXCEPT ![r] = Tail(@)][q])
<1>1. queue \in [Queues -> Seq(Thread)]
  BY DEF TypeOK, Queues
<1>2. [queue EXCEPT ![r] = Tail(@)][q] = IF q = r THEN Tail(queue[r]) ELSE queue[q]
  BY <1>1
<1> QED BY <1>1, <1>2, TailKeeps

LEMMA UnlockKeeps ==
  ASSUME TypeOK, NEW m \in Mutex, NEW q \in Queues
  PROVE  \A x \in ToSet(queue[q]) \ Heir(m) : x \in ToSet(UnlockQueue(m)[q])
<1>1. CASE queue[m] = <<>>
  BY <1>1 DEF UnlockQueue
<1>2. CASE queue[m] # <<>>
  <2>1. UnlockQueue(m)[q] = [queue EXCEPT ![m] = Tail(@)][q] /\ m \in Queues
    BY <1>2 DEF UnlockQueue, Queues
  <2> QED BY <1>2, <2>1, TailReached DEF Heir
<1> QED BY <1>1, <1>2

(* unlock(), in a step in which the caller does not fall asleep.           *)
LEMMA UnlockReached ==
  ASSUME TypeOK, TypeOK', NoOrphanSleeper, NEW t \in Thread, Running(t), NEW m \in Mutex,
         queue' = UnlockQueue(m), timer' = timer, state' = Awake(Heir(m)),
         \A x \in Thread \ (Heir(m) \cup {t}) : sleepReason'[x] = sleepReason[x]
  PROVE  NoOrphanSleeper'
<1>1. ASSUME NEW x \in Thread, "SLEEPING" \in state'[x] PROVE Undisturbed(x)
  <2>1. x \notin Heir(m) /\ x # t /\ "SLEEPING" \in state[x] /\ sleepReason'[x] = sleepReason[x]
    BY <1>1 DEF Awake, Running, Ready
  <2> QED BY <2>1, UnlockKeeps DEF Undisturbed
<1> QED BY <1>1, ReachedStep

(* The first half of a condition wait.                                     *)
LEMMA WaitReached ==
  ASSUME TypeOK, TypeOK', NoOrphanSleeper, NEW t \in Thread, NEW c \in Cond, NEW m \in Mutex,
         NEW reason, Wait(t, c, m, reason), timer \subseteq timer'
  PROVE  NoOrphanSleeper'
<1> DEFINE p == Cur(UnlockPri(t, m))
<1>1. /\ state' = [Awake(Heir(m)) EXCEPT ![t] = @ \cup {"SLEEPING"}]
      /\ queue' = [UnlockQueue(m) EXCEPT ![c] = enqueue(@, t, p)]
      /\ \A x \in Thread \ (Heir(m) \cup {t}) : sleepReason'[x] = sleepReason[x]
  BY DEF Wait
<1>2. UnlockQueue(m) \in [Queues -> Seq(Thread)] /\ p \in [Thread -> Int] /\ c \in Queues
  BY UnlockTypes, CurType DEF TypeOK, Queues
<1> HIDE DEF p
<1>3. ToSet(queue'[c]) = ToSet(UnlockQueue(m)[c]) \cup {t}
      /\ \A q \in Queues \ {c} : queue'[q] = UnlockQueue(m)[q]
  <2>1. UnlockQueue(m)[c] \in Seq(Thread) /\ queue'[c] = enqueue(UnlockQueue(m)[c], t, p)
    BY <1>1, <1>2
  <2>2. \A q \in Queues \ {c} : queue'[q] = UnlockQueue(m)[q]
    BY <1>1, <1>2
  <2> QED BY <1>2, <2>1, <2>2, EnqueueProperties
<1>4. Queued(t)'
  BY <1>2, <1>3 DEF Queued
<1>5. ASSUME NEW x \in Thread \ {t}, "SLEEPING" \in state'[x] PROVE Undisturbed(x)
  <2>1. x \notin Heir(m) /\ "SLEEPING" \in state[x] /\ sleepReason'[x] = sleepReason[x]
    BY <1>1, <1>5 DEF Awake
  <2>2. \A q \in Queues : x \in ToSet(queue[q]) => x \in ToSet(UnlockQueue(m)[q])
    BY <2>1, UnlockKeeps
  <2>3. \A q \in Queues : x \in ToSet(queue[q]) => x \in ToSet(queue'[q])
    BY <1>3, <2>2
  <2> QED BY <2>1, <2>3 DEF Undisturbed
<1> QED BY <1>4, <1>5, ReachedStep

(* A thread goes to sleep on a mutex.                                      *)
LEMMA BlockReached ==
  ASSUME WaitInv, TypeOK', NoOrphanSleeper, NEW t \in Thread, Running(t), NEW m \in Mutex,
         NEW pr \in [Thread -> PriorityRecord],
         \A x \in Thread \ {t} : pr[x].cur = pri[x].cur,
         NEW label \in {"lock", "relocking"}, Block(t, m, pr, label), timer' = timer
  PROVE  NoOrphanSleeper'
<1>1. \A q \in Queues : ToSet(queue'[q]) = ToSet(queue[q]) \cup (IF q = m THEN {t} ELSE {})
  BY BlockQueues
<1>2. \A x \in Thread \ {t} : state'[x] = state[x] /\ sleepReason'[x] = sleepReason[x]
  BY DEF Block, Sleep, WaitInv, TypeOK
<1>3. Queued(t)'
  BY <1>1 DEF Queued, Queues
<1>4. ASSUME NEW x \in Thread \ {t}, "SLEEPING" \in state'[x] PROVE Undisturbed(x)
  BY <1>1, <1>2, <1>4 DEF Undisturbed
<1> QED BY <1>3, <1>4, ReachedStep DEF WaitInv

LEMMA OrphanStep == WaitInv /\ NoOrphanSleeper /\ [Next]_vars => NoOrphanSleeper'
<1> SUFFICES ASSUME WaitInv, NoOrphanSleeper, [Next]_vars PROVE NoOrphanSleeper'
  OBVIOUS
<1>1. TypeOK /\ TypeOK' /\ DOMAIN queue = Queues
  BY TypeStep DEF WaitInv, TypeOK, Queues
<1>2. ASSUME UNCHANGED <<sleepReason, timer, queue, state>> PROVE NoOrphanSleeper'
  BY <1>1, <1>2, StillReached
<1>3. CASE UNCHANGED vars \/ Dispatch \/ Timeslice
  BY <1>2, <1>3 DEF vars, Dispatch, DispatchTo, Timeslice
<1>4. ASSUME NEW x \in Thread, TimerAlarm(x) PROVE NoOrphanSleeper'
  <2>1. CASE sleepReason[x] \in {"DELAY", "TIMEOUT"}
    <3>1. /\ queue' = Unlinked(x) /\ timer' = timer \ {x}
          /\ \E r \in WakeReasons : Wake({x}, r)
      BY <1>4, <2>1 DEF TimerAlarm, WakeReasons
    <3>2. /\ "SLEEPING" \notin state'[x]
          /\ \A y \in Thread \ {x} : state'[y] = state[y] /\ sleepReason'[y] = sleepReason[y]
      BY <3>1 DEF Wake, Awake
    <3> QED BY <1>1, <3>1, <3>2, OneAwake
  <2>2. CASE sleepReason[x] \notin {"DELAY", "TIMEOUT"}
    <3>1. timer' = timer \ {x} /\ UNCHANGED <<state, sleepReason, queue>>
      BY <1>4, <2>2 DEF TimerAlarm
    <3>2. ASSUME NEW y \in Thread, "SLEEPING" \in state'[y] PROVE Undisturbed(y) \/ Queued(y)'
      <4>1. CASE y = x
        <5>1. \E q \in Queues : OnQueue(x, q)
          BY <1>1, <2>2, <3>1, <3>2, <4>1 DEF NoOrphanSleeper
        <5> QED BY <3>1, <4>1, <5>1 DEF OnQueue, Queued
      <4>2. CASE y # x
        BY <3>1, <3>2, <4>2 DEF Undisturbed
      <4> QED BY <4>1, <4>2
    <3> QED BY <1>1, <3>2, ReachedStep
  <2> QED BY <2>1, <2>2
<1>5. ASSUME NEW c \in Cond, SignalOne(c) PROVE NoOrphanSleeper'
  <2>1. /\ c \in Queues /\ queue[c] # <<>> /\ queue' = [queue EXCEPT ![c] = Tail(@)]
        /\ Wake({Head(queue[c])}, "DONE") /\ timer' = timer
    BY <1>5 DEF SignalOne, Queues
  <2>2. \A q \in Queues : \A x \in ToSet(queue[q]) \ {Head(queue[c])} : x \in ToSet(queue'[q])
    BY <1>1, <2>1, TailReached
  <2> QED BY <1>1, <2>1, <2>2, WakeReached
<1>6. ASSUME NEW r \in Queues, NEW reason, Wake(ToSet(queue[r]), reason),
             queue' = [queue EXCEPT ![r] = <<>>], timer' = timer
      PROVE  NoOrphanSleeper'
  <2>1. \A q \in Queues : \A x \in ToSet(queue[q]) \ ToSet(queue[r]) : x \in ToSet(queue'[q])
    BY <1>1, <1>6
  <2> QED BY <1>1, <1>6, <2>1, WakeReached
<1>7. ASSUME NEW t \in Thread, Running(t), ExitNow(t) PROVE NoOrphanSleeper'
  <2>1. /\ "SLEEPING" \notin state'[t] /\ queue' = queue /\ timer' = timer \ {t}
        /\ \A x \in Thread \ {t} : state'[x] = state[x] /\ sleepReason'[x] = sleepReason[x]
    BY <1>1, <1>7 DEF ExitNow, TypeOK
  <2> QED BY <1>1, <2>1, OneAwake
<1>8. ASSUME NEW t \in Thread, NEW m \in Mutex
      PROVE  /\ Claimed(t, m) \in [Thread -> PriorityRecord]
             /\ \A x \in Thread \ {t} : Claimed(t, m)[x].cur = pri[x].cur
  BY <1>1, ClaimedType DEF Claimed, TypeOK
<1>9. ASSUME NEW t \in Thread, MutexStep(t) PROVE NoOrphanSleeper'
  <2> SUFFICES ASSUME NEW m \in Mutex,
                      Lock(t, m) \/ TryLock(t, m) \/ Unlock(t, m) \/ MutexRelease(t, m)
               PROVE  NoOrphanSleeper'
    BY <1>9 DEF MutexStep
  <2>1. Running(t)
    BY DEF Lock, TryLock, Unlock, MutexRelease, Calling
  <2>2. CASE Lock(t, m) \/ TryLock(t, m)
    <3>1. /\ Acquire(t, m, Claimed(t, m)) \/ Block(t, m, Claimed(t, m), "lock")
          /\ timer' = timer /\ "lock" \in {"lock", "relocking"}
      BY <2>2 DEF Lock, TryLock
    <3>2. CASE Acquire(t, m, Claimed(t, m))
      BY <1>2, <3>1, <3>2 DEF Acquire
    <3>3. CASE Block(t, m, Claimed(t, m), "lock")
      BY <1>1, <1>8, <2>1, <3>1, <3>3, BlockReached
    <3> QED BY <3>1, <3>2, <3>3
  <2>3. CASE Unlock(t, m)
    BY <1>1, <2>1, <2>3, UnlockReached DEF Unlock
  <2>4. CASE MutexRelease(t, m)
    BY <1>6, <2>4 DEF MutexRelease, Queues
  <2> QED BY <2>2, <2>3, <2>4
<1>10. ASSUME NEW t \in Thread, CondStep(t) PROVE NoOrphanSleeper'
  <2> SUFFICES ASSUME NEW c \in Cond,
                      \/ Signal(t, c) \/ Broadcast(t, c)
                      \/ \E m \in Mutex : CondWait(t, c, m) \/ CondTimedWait(t, c, m)
               PROVE  NoOrphanSleeper'
    BY <1>10 DEF CondStep
  <2>1. CASE Signal(t, c)
    BY <1>5, <2>1 DEF Signal
  <2>2. CASE Broadcast(t, c)
    BY <1>6, <2>2 DEF Broadcast, Queues
  <2>3. ASSUME NEW m \in Mutex, CondWait(t, c, m) \/ CondTimedWait(t, c, m)
        PROVE  NoOrphanSleeper'
    <3>1. timer \subseteq timer' /\ \E reason \in SleepReasons : Wait(t, c, m, reason)
      BY <2>3 DEF CondWait, CondTimedWait, SleepReasons
    <3> QED BY <1>1, <3>1, WaitReached
  <2> QED BY <2>1, <2>2, <2>3
<1>11. ASSUME NEW t \in Thread, ThreadStep(t) PROVE NoOrphanSleeper'
  <2> SUFFICES ASSUME NEW x \in Thread,
                      \/ Suspend(t, x) \/ Resume(t, x) \/ Release(t, x) \/ Kill(t, x)
                      \/ \E p \in Given : SetPriority(t, x, p)
               PROVE  NoOrphanSleeper'
    BY <1>11 DEF ThreadStep
  <2>1. CASE Suspend(t, x)
    <3>1. /\ state' = [state EXCEPT ![x] = @ \cup {"SUSPENDED"}]
          /\ UNCHANGED <<sleepReason, timer, queue>>
      BY <2>1 DEF Suspend
    <3>2. \A y \in Thread : "SLEEPING" \in state'[y] => "SLEEPING" \in state[y]
      BY <1>1, <3>1 DEF TypeOK
    <3> QED BY <1>1, <3>1, <3>2, StillReached
  <2>2. CASE Resume(t, x)
    <3>1. \A y \in Thread : "SLEEPING" \in state'[y] => "SLEEPING" \in state[y]
      <4>1. state' = [state EXCEPT ![x] = IF suspendCount[x] = 1 THEN @ \ {"SUSPENDED"} ELSE @]
        BY <2>2 DEF Resume
      <4> QED BY <1>1, <4>1 DEF TypeOK
    <3>2. UNCHANGED <<sleepReason, timer, queue>>
      BY <2>2 DEF Resume
    <3> QED BY <1>1, <3>1, <3>2, StillReached
  <2>3. CASE Release(t, x)
    <3>1. /\ "SLEEPING" \notin state'[x] /\ queue' = Unlinked(x) /\ timer' = timer
          /\ \A y \in Thread \ {x} : state'[y] = state[y] /\ sleepReason'[y] = sleepReason[y]
      BY <2>3 DEF Release, Wake, Awake
    <3> QED BY <1>1, <3>1, OneAwake
  <2>4. CASE Kill(t, x)
    <3>1. /\ queue' \in {queue, Unlinked(x)} /\ timer' = timer \ {x}
          /\ \A y \in Thread \ {x} : state'[y] = state[y] /\ sleepReason'[y] = sleepReason[y]
      BY <1>1, <2>4 DEF Kill, TypeOK
    <3>2. "SLEEPING" \notin state'[x]
      BY <1>1, <2>4 DEF Kill, TypeOK
    <3> QED BY <1>1, <3>1, <3>2, OneAwake
  <2>5. ASSUME NEW p \in Given, SetPriority(t, x, p) PROVE NoOrphanSleeper'
    <3>1. /\ UNCHANGED <<state, sleepReason, timer>> /\ queue' = Requeued(queue, x, pri')
          /\ queue \in [Queues -> Seq(Thread)]
          /\ pri \in [Thread -> PriorityRecord] /\ pri' \in [Thread -> PriorityRecord]
      BY <1>1, <2>5 DEF SetPriority, TypeOK, Queues
    <3>2. \A y \in Thread \ {x} : pri[y].cur = pri'[y].cur
      BY <3>1, <2>5 DEF SetPriority
    <3>3. ASSUME NEW q \in Queues PROVE ToSet(queue'[q]) = ToSet(queue[q])
      <4>1. NoDuplicates(queue[q]) /\ Sorted(queue[q], Cur(pri))
        BY <1>1 DEF WaitInv, QueueOK, QueuesSorted
      <4>2. ToSet(Requeued(queue, x, pri')[q]) = ToSet(queue[q])
        BY <3>1, <3>2, <4>1, RequeuedProperties
      <4> QED BY <3>1, <4>2
    <3> QED BY <1>1, <3>1, <3>3, StillReached
  <2> QED BY <2>1, <2>2, <2>3, <2>4, <2>5
<1>12. ASSUME NEW t \in Thread, Continue(t) PROVE NoOrphanSleeper'
  <2> DEFINE m == pc[t].mx
  <2>1. pc[t].at \notin Outside => m \in Mutex
    BY <1>1 DEF TypeOK, Place
  <2>2. Running(t)
    BY <1>12 DEF Continue, LockRetry, LockFail, LockExit, CondWakeup, Relock, DelayWakeup
  <2>3. ASSUME NEW label \in {"lock", "relocking"}, NEW pr \in {pri, Claimed(t, m)}, m \in Mutex,
               Acquire(t, m, pr) \/ Block(t, m, pr, label), timer' = timer
        PROVE  NoOrphanSleeper'
    <3>1. CASE Acquire(t, m, pr)
      BY <1>2, <2>3, <3>1 DEF Acquire
    <3>2. CASE Block(t, m, pr, label)
      <4> HIDE DEF m
      <4>1. pr \in [Thread -> PriorityRecord] /\ \A x \in Thread \ {t} : pr[x].cur = pri[x].cur
        <5>1. CASE pr = pri
          BY <1>1, <5>1 DEF TypeOK
        <5>2. CASE pr = Claimed(t, m)
          BY <1>8, <2>3, <5>2
        <5> QED BY <2>3, <5>1, <5>2
      <4> QED BY <1>1, <2>2, <2>3, <3>2, <4>1, BlockReached
    <3> QED BY <2>3, <3>1, <3>2
  <2>4. CASE LockRetry(t)
    <3>1. m \in Mutex /\ pc[t].at \in {"lock", "relocking"} /\ timer' = timer
          /\ (Acquire(t, m, pri) \/ Block(t, m, pri, pc[t].at))
      BY <2>1, <2>4 DEF LockRetry, Outside
    <3> QED BY <2>3, <3>1
  <2>5. CASE Relock(t)
    <3>1. m \in Mutex /\ timer' = timer
          /\ (\/ Acquire(t, m, Claimed(t, m))
              \/ Block(t, m, Claimed(t, m), "relocking"))
      BY <2>1, <2>5 DEF Relock, Outside
    <3> QED BY <2>3, <3>1
  <2>6. CASE LockFail(t)
    BY <1>2, <2>6 DEF LockFail
  <2>7. CASE LockExit(t) \/ ExitNow(t)
    BY <1>7, <2>2, <2>7 DEF LockExit
  <2>8. CASE (CondWakeup(t) \/ DelayWakeup(t)) /\ ~ExitNow(t)
    <3>1. timer' = timer \ {t} /\ UNCHANGED <<state, sleepReason, queue>>
      BY <2>8 DEF CondWakeup, DelayWakeup
    <3>2. "SLEEPING" \notin state'[t]
      BY <2>2, <3>1 DEF Running, Ready
    <3> QED BY <1>1, <3>1, <3>2, OneAwake
  <2> QED BY <1>12, <2>4, <2>5, <2>6, <2>7, <2>8 DEF Continue
<1>13. ASSUME NEW t \in Thread, Delay(t) PROVE NoOrphanSleeper'
  <2>1. queue' = queue
    BY <1>13 DEF Delay
  <2>2. CASE Sleep(t, "DELAY") /\ timer' = timer \cup {t}
    <3>1. /\ sleepReason'[t] = "DELAY"
          /\ \A x \in Thread \ {t} : state'[x] = state[x] /\ sleepReason'[x] = sleepReason[x]
      BY <1>1, <2>2 DEF Sleep, TypeOK
    <3>2. Timed(t)'
      BY <2>2, <3>1 DEF Timed
    <3>3. ASSUME NEW x \in Thread \ {t}, "SLEEPING" \in state'[x] PROVE Undisturbed(x)
      BY <2>1, <2>2, <3>1, <3>3 DEF Undisturbed
    <3> QED BY <1>1, <3>2, <3>3, ReachedStep
  <2>3. CASE UNCHANGED <<state, sleepReason, timer>>
    BY <1>2, <2>1, <2>3
  <2> QED BY <1>13, <2>2, <2>3 DEF Delay
<1>14. ASSUME NEW t \in Thread, NEW m \in Mutex, CondTimedWaitPast(t, m) PROVE NoOrphanSleeper'
  BY <1>1, <1>14, UnlockReached DEF CondTimedWaitPast, Calling
<1>15. ASSUME NEW t \in Thread, Exit(t) PROVE NoOrphanSleeper'
  BY <1>7, <1>15 DEF Exit, Calling
<1> QED
  BY <1>3, <1>4, <1>5, <1>9, <1>10, <1>11, <1>12, <1>13, <1>14, <1>15
  DEF Next, Dsr, DsrSignal

(* Whoever sleeps can be woken: through every unlock, signal, release,     *)
(* kill, timeout and priority change a living sleeper stays on the queue   *)
(* it waits on, or its timer runs.                                         *)
THEOREM SleepersAreReached == Spec => []NoOrphanSleeper
<1>1. Init => NoOrphanSleeper
  BY DEF Init, NoOrphanSleeper
<1>2. WaitInv /\ NoOrphanSleeper /\ [Next]_vars => NoOrphanSleeper'
  BY OrphanStep
<1> QED BY <1>1, <1>2, WaitInit, WaitInvStep, PTL DEF Spec
-----------------------------------------------------------------------------
(* The way from a wakeup to the mutex.                                     *)

(* The dead do not sleep: exit() and kill() clear the bit, and no wait     *)
(* sets it for a thread that does not run.                                 *)
DeadAwake == \A t \in Thread : Dead(t) => "SLEEPING" \notin state[t]

LEMMA DeadKept ==
  ASSUME DeadAwake,
         \A t \in Thread : \/ state'[t] = {"EXITED"}
                           \/ /\ Dead(t)' => Dead(t)
                              /\ "SLEEPING" \in state'[t] => "SLEEPING" \in state[t]
                           \/ ~Dead(t)'
  PROVE  DeadAwake'
BY DEF DeadAwake, Dead

LEMMA AwakeBits ==
  ASSUME NEW S, NEW t \in Thread
  PROVE  Awake(S)[t] \subseteq state[t] /\ ("EXITED" \in Awake(S)[t] <=> "EXITED" \in state[t])
BY DEF Awake

LEMMA DeadStep == TypeOK /\ DeadAwake /\ [Next]_vars => DeadAwake'
<1> SUFFICES ASSUME TypeOK, DeadAwake, [Next]_vars PROVE DeadAwake'
  OBVIOUS
<1>1. ASSUME state' = state PROVE DeadAwake'
  BY <1>1 DEF DeadAwake, Dead
<1>2. ASSUME NEW S, state' = Awake(S) PROVE DeadAwake'
  BY <1>2, AwakeBits, DeadKept DEF Dead
<1>3. ASSUME NEW t \in Thread, ExitNow(t) PROVE DeadAwake'
  BY <1>3, DeadKept DEF ExitNow, Dead, TypeOK
<1>4. ASSUME NEW t \in Thread, Running(t), NEW reason, Sleep(t, reason) PROVE DeadAwake'
  <2>1. ~Dead(t)'
    BY <1>4 DEF Sleep, Running, Ready, Dead, TypeOK
  <2>2. \A x \in Thread \ {t} : state'[x] = state[x]
    BY <1>4 DEF Sleep, TypeOK
  <2> QED BY <2>1, <2>2, DeadKept DEF Dead
<1>5. ASSUME NEW t \in Thread, Running(t), NEW m,
             state' = [Awake(Heir(m)) EXCEPT ![t] = @ \cup {"SLEEPING"}]
      PROVE  DeadAwake'
  <2>1. ~Dead(t)'
    BY <1>5 DEF Awake, Running, Ready, Dead
  <2>2. \A x \in Thread \ {t} : state'[x] = Awake(Heir(m))[x]
    BY <1>5 DEF Awake
  <2> QED BY <2>1, <2>2, AwakeBits, DeadKept DEF Dead
<1>6. CASE UNCHANGED vars \/ Dispatch \/ Timeslice
  BY <1>1, <1>6 DEF vars, Dispatch, DispatchTo, Timeslice
<1>7. ASSUME NEW x \in Thread, TimerAlarm(x) PROVE DeadAwake'
  BY <1>1, <1>2, <1>7 DEF TimerAlarm, Wake
<1>8. ASSUME NEW c \in Cond, SignalOne(c) PROVE DeadAwake'
  BY <1>2, <1>8 DEF SignalOne, Wake
<1>9. ASSUME NEW t \in Thread, MutexStep(t) PROVE DeadAwake'
  <2> SUFFICES ASSUME NEW m \in Mutex,
                      Lock(t, m) \/ TryLock(t, m) \/ Unlock(t, m) \/ MutexRelease(t, m)
               PROVE  DeadAwake'
    BY <1>9 DEF MutexStep
  <2>1. CASE Lock(t, m) \/ TryLock(t, m)
    BY <1>1, <1>4, <2>1 DEF Lock, TryLock, Calling, Acquire, Block
  <2>2. CASE Unlock(t, m)
    BY <1>2, <2>2 DEF Unlock
  <2>3. CASE MutexRelease(t, m)
    BY <1>2, <2>3 DEF MutexRelease, Wake
  <2> QED BY <2>1, <2>2, <2>3
<1>10. ASSUME NEW t \in Thread, CondStep(t) PROVE DeadAwake'
  <2> SUFFICES ASSUME NEW c \in Cond,
                      \/ Signal(t, c) \/ Broadcast(t, c)
                      \/ \E m \in Mutex : CondWait(t, c, m) \/ CondTimedWait(t, c, m)
               PROVE  DeadAwake'
    BY <1>10 DEF CondStep
  <2>1. CASE Signal(t, c)
    BY <1>8, <2>1 DEF Signal
  <2>2. CASE Broadcast(t, c)
    BY <1>2, <2>2 DEF Broadcast, Wake
  <2>3. ASSUME NEW m \in Mutex, CondWait(t, c, m) \/ CondTimedWait(t, c, m) PROVE DeadAwake'
    BY <1>5, <2>3 DEF CondWait, CondTimedWait, Wait, Calling
  <2> QED BY <2>1, <2>2, <2>3
<1>11. ASSUME NEW t \in Thread, ThreadStep(t) PROVE DeadAwake'
  <2> SUFFICES ASSUME NEW x \in Thread,
                      \/ Suspend(t, x) \/ Resume(t, x) \/ Release(t, x) \/ Kill(t, x)
                      \/ \E p \in Given : SetPriority(t, x, p)
               PROVE  DeadAwake'
    BY <1>11 DEF ThreadStep
  <2>1. CASE Suspend(t, x) \/ Resume(t, x)
    <3>1. \A y \in Thread : state'[y] \ {"SUSPENDED"} = state[y] \ {"SUSPENDED"}
      <4>1. CASE Suspend(t, x)
        BY <4>1 DEF Suspend, TypeOK
      <4>2. CASE Resume(t, x)
        <5>1. state' = [state EXCEPT ![x] = IF suspendCount[x] = 1 THEN @ \ {"SUSPENDED"} ELSE @]
          BY <4>2 DEF Resume
        <5> QED BY <5>1 DEF TypeOK
      <4> QED BY <2>1, <4>1, <4>2
    <3>2. \A y \in Thread : /\ "EXITED" \in state'[y] <=> "EXITED" \in state[y]
                            /\ "SLEEPING" \in state'[y] <=> "SLEEPING" \in state[y]
      BY <3>1
    <3> QED BY <3>2 DEF DeadAwake, Dead
  <2>2. CASE Release(t, x)
    BY <1>2, <2>2 DEF Release, Wake
  <2>3. CASE Kill(t, x)
    <3>1. "SLEEPING" \notin state'[x] /\ \A y \in Thread \ {x} : state'[y] = state[y]
      BY <2>3 DEF Kill, TypeOK
    <3> QED BY <3>1 DEF DeadAwake, Dead
  <2>4. ASSUME NEW p \in Given, SetPriority(t, x, p) PROVE DeadAwake'
    BY <1>1, <2>4 DEF SetPriority
  <2> QED BY <2>1, <2>2, <2>3, <2>4
<1>12. ASSUME NEW t \in Thread, Continue(t) PROVE DeadAwake'
  <2>1. CASE LockRetry(t)
    BY <1>1, <1>4, <2>1 DEF LockRetry, Acquire, Block
  <2>2. CASE Relock(t)
    BY <1>1, <1>4, <2>2 DEF Relock, Acquire, Block
  <2>3. CASE LockFail(t)
    BY <1>1, <2>3 DEF LockFail
  <2>4. CASE LockExit(t)
    BY <1>3, <2>4 DEF LockExit
  <2>5. CASE CondWakeup(t)
    BY <1>1, <1>3, <2>5 DEF CondWakeup
  <2>6. CASE DelayWakeup(t)
    BY <1>1, <1>3, <2>6 DEF DelayWakeup
  <2> QED BY <1>12, <2>1, <2>2, <2>3, <2>4, <2>5, <2>6 DEF Continue
<1>13. ASSUME NEW t \in Thread, Delay(t) PROVE DeadAwake'
  BY <1>1, <1>4, <1>13 DEF Delay, Calling
<1>14. ASSUME NEW t \in Thread, NEW m \in Mutex, CondTimedWaitPast(t, m) PROVE DeadAwake'
  BY <1>2, <1>14 DEF CondTimedWaitPast
<1>15. ASSUME NEW t \in Thread, Exit(t) PROVE DeadAwake'
  BY <1>3, <1>15 DEF Exit
<1> QED
  BY <1>6, <1>7, <1>8, <1>9, <1>10, <1>11, <1>12, <1>13, <1>14, <1>15
  DEF Next, Dsr, DsrSignal

(* t was woken by an unlock() of m and has not tried again yet.            *)
OnTheWay(t, m) ==
  /\ pc[t].at \in {"lock", "relocking"} /\ pc[t].mx = m
  /\ sleepReason[t] = "NONE" /\ wakeReason[t] = "DONE" /\ ~Dead(t)

(* m is free and somebody waits for it.                                    *)
LeftFree(m) == owner[m] = NoThread /\ queue[m] # <<>>

LEMMA WayStep ==
  ASSUME NoLostWakeup,
         \A m \in Mutex : LeftFree(m)' =>
           \/ LeftFree(m) /\ \A t \in Thread : OnTheWay(t, m) => OnTheWay(t, m)'
           \/ \E t \in Thread : OnTheWay(t, m)'
  PROVE  NoLostWakeup'
<1> SUFFICES ASSUME NEW m \in Mutex, LeftFree(m)' PROVE \E t \in Thread : OnTheWay(t, m)'
  BY DEF NoLostWakeup, LeftFree, OnTheWay
<1>1. CASE LeftFree(m) /\ \A t \in Thread : OnTheWay(t, m) => OnTheWay(t, m)'
  <2>1. \E t \in Thread : OnTheWay(t, m)
    BY <1>1 DEF NoLostWakeup, LeftFree, OnTheWay
  <2> QED BY <1>1, <2>1
<1> QED BY <1>1

(* A queue that is not empty has a member.                                 *)
LEMMA SomeWaiter ==
  ASSUME NEW q \in Seq(Thread)
  PROVE  q # <<>> <=> ToSet(q) # {}
<1>1. Len(q) \in Nat /\ DOMAIN q = 1 .. Len(q)
  BY LenProperties
<1>2. q = <<>> <=> Len(q) = 0
  BY EmptySeq, LenProperties
<1> QED BY <1>1, <1>2 DEF ToSet

(* What is needed of the way of t: nothing that would take it off.         *)
SameWay(t) ==
  /\ pc'[t] = pc[t] /\ sleepReason'[t] = sleepReason[t] /\ wakeReason'[t] = wakeReason[t]
  /\ Dead(t)' => Dead(t)

LEMMA SameWayKept ==
  ASSUME NEW t, NEW m, SameWay(t), OnTheWay(t, m)
  PROVE  OnTheWay(t, m)'
BY DEF SameWay, OnTheWay

(* Mutexes keep their owners and get no waiters, and whoever was on the    *)
(* way still is.                                                           *)
LEMMA StillOnWay ==
  ASSUME TypeOK, TypeOK', NoLostWakeup, owner' = owner,
         \A m \in Mutex : ToSet(queue'[m]) \subseteq ToSet(queue[m]),
         \A t \in Thread : SameWay(t) \/ \A m \in Mutex : ~OnTheWay(t, m)
  PROVE  NoLostWakeup'
<1> SUFFICES ASSUME NEW m \in Mutex, LeftFree(m)'
             PROVE  LeftFree(m) /\ \A t \in Thread : OnTheWay(t, m) => OnTheWay(t, m)'
  BY WayStep
<1>1. queue[m] \in Seq(Thread) /\ queue'[m] \in Seq(Thread)
  BY DEF TypeOK
<1>2. LeftFree(m)
  BY <1>1, SomeWaiter DEF LeftFree
<1> QED BY <1>2, SameWayKept

(* The threads of S sleep and are woken.                                   *)
LEMMA WakeWay ==
  ASSUME TypeOK, TypeOK', NoLostWakeup, UNCHANGED <<owner, pc>>, NEW S, NEW reason,
         Wake(S, reason), \A x \in S : sleepReason[x] # "NONE",
         \A m \in Mutex : ToSet(queue'[m]) \subseteq ToSet(queue[m])
  PROVE  NoLostWakeup'
<1>1. ASSUME NEW t \in Thread PROVE SameWay(t) \/ \A m \in Mutex : ~OnTheWay(t, m)
  <2>1. CASE t \in S
    BY <2>1 DEF OnTheWay
  <2>2. CASE t \notin S
    BY <2>2 DEF Wake, Awake, SameWay, Dead
  <2> QED BY <2>1, <2>2
<1> QED BY <1>1, StillOnWay

(* A thread takes m, or joins the queue of its owner: it was on the way to *)
(* no other mutex.                                                         *)
LEMMA AcquireWay ==
  ASSUME TypeOK, NoLostWakeup, NEW t \in Thread, NEW m \in Mutex, NEW pr,
         pc[t].at \in {"lock", "relocking"} => pc[t].mx = m, Acquire(t, m, pr)
  PROVE  NoLostWakeup'
<1> SUFFICES ASSUME NEW n \in Mutex, LeftFree(n)'
             PROVE  LeftFree(n) /\ \A x \in Thread : OnTheWay(x, n) => OnTheWay(x, n)'
  BY WayStep
<1>1. /\ owner' = [owner EXCEPT ![m] = t] /\ pc' = [pc EXCEPT ![t] = User]
      /\ UNCHANGED <<state, sleepReason, wakeReason, queue>>
  BY DEF Acquire
<1>2. n # m /\ LeftFree(n)
  BY <1>1, NoThreadAssumption DEF TypeOK, LeftFree
<1>3. ~OnTheWay(t, n)
  BY <1>2 DEF OnTheWay
<1>4. \A x \in Thread \ {t} : SameWay(x)
  BY <1>1 DEF TypeOK, SameWay, Dead
<1> QED BY <1>2, <1>3, <1>4, SameWayKept

LEMMA BlockWay ==
  ASSUME WaitInv, TypeOK', NoLostWakeup, NEW t \in Thread, Running(t), NEW m \in Mutex,
         NEW pr \in [Thread -> PriorityRecord],
         \A x \in Thread \ {t} : pr[x].cur = pri[x].cur,
         NEW label \in {"lock", "relocking"}, Block(t, m, pr, label),
         pc[t].at \in {"lock", "relocking"} => pc[t].mx = m
  PROVE  NoLostWakeup'
<1>1. \A q \in Queues : ToSet(queue'[q]) = ToSet(queue[q]) \cup (IF q = m THEN {t} ELSE {})
  BY BlockQueues, Z3
<1> SUFFICES ASSUME NEW n \in Mutex, LeftFree(n)'
             PROVE  LeftFree(n) /\ \A x \in Thread : OnTheWay(x, n) => OnTheWay(x, n)'
  BY WayStep DEF WaitInv
<1>2. owner' = owner /\ owner[m] \in Thread
  BY DEF Block
<1>3. n # m /\ n \in Queues
  BY <1>2, NoThreadAssumption DEF LeftFree, Queues
<1>4. queue[n] \in Seq(Thread) /\ queue'[n] \in Seq(Thread)
  BY DEF WaitInv, TypeOK
<1>5. LeftFree(n)
  BY <1>1, <1>2, <1>3, <1>4, SomeWaiter DEF LeftFree
<1>6. ~OnTheWay(t, n)
  BY <1>3 DEF OnTheWay
<1>7. \A x \in Thread \ {t} : SameWay(x)
  BY DEF Block, Sleep, SameWay, Dead, WaitInv, TypeOK
<1> QED BY <1>5, <1>6, <1>7, SameWayKept

(* unlock(), alone or before a condition wait: the head of the queue is    *)
(* now on its way.                                                         *)
LEMMA UnlockWay ==
  ASSUME WaitInv, DeadAwake, TypeOK', NoLostWakeup, NEW t \in Thread, Running(t),
         pc[t].at = "user", NEW m \in Mutex,
         owner' = [owner EXCEPT ![m] = NoThread],
         \A n \in Mutex : queue'[n] = UnlockQueue(m)[n],
         \A x \in Thread \ {t} : pc'[x] = pc[x],
         \A x \in Thread \ {t} : state'[x] = Awake(Heir(m))[x],
         \A x \in Thread \ {t} : sleepReason'[x] = IF x \in Heir(m) THEN "NONE" ELSE sleepReason[x],
         \A x \in Thread \ {t} : wakeReason'[x] = IF x \in Heir(m) THEN "DONE" ELSE wakeReason[x]
  PROVE  NoLostWakeup'
<1>1. TypeOK /\ m \in Queues /\ DOMAIN queue = Queues
  BY DEF WaitInv, TypeOK, Queues
<1>2. ASSUME NEW h \in Heir(m)
      PROVE  /\ h \in Thread \ {t} /\ OnTheWay(h, m)'
             /\ sleepReason[h] # "NONE" /\ queue[m] # <<>>
  <2>1. queue[m] \in Seq(Thread) /\ queue[m] # <<>> /\ h = Head(queue[m])
    BY <1>1, <1>2 DEF TypeOK, Queues, Heir
  <2>2. h \in ToSet(queue[m]) /\ h \in Thread
    BY <2>1, TailProperties, MembersAreThreads
  <2>3. h # t
    BY <1>1, <2>2, RunningNotQueued DEF WaitInv
  <2>4. "SLEEPING" \in state[h] /\ Waits(h, m)
    BY <1>1, <2>2 DEF WaitInv, QueueOK, OnQueue
  <2>5. "EXITED" \notin state[h]
    BY <2>2, <2>4 DEF DeadAwake, Dead
  <2>6. ~Dead(h)'
    BY <2>2, <2>3, <2>5, AwakeBits DEF Dead
  <2>7. pc[h].at \in {"lock", "relocking"} /\ pc[h].mx = m /\ sleepReason[h] = "WAIT"
    BY <2>4 DEF Waits
  <2> QED BY <1>2, <2>1, <2>2, <2>3, <2>6, <2>7 DEF OnTheWay
<1>3. ASSUME NEW n \in Mutex, n # m, LeftFree(n)'
      PROVE  LeftFree(n) /\ \A x \in Thread : OnTheWay(x, n) => OnTheWay(x, n)'
  <2>1. LeftFree(n)
    BY <1>1, <1>3 DEF LeftFree, UnlockQueue, TypeOK
  <2>2. ASSUME NEW x \in Thread, OnTheWay(x, n) PROVE OnTheWay(x, n)'
    <3>1. x # t /\ x \notin Heir(m)
      BY <1>2, <2>2 DEF OnTheWay
    <3>2. Dead(x)' => Dead(x)
      BY <3>1, AwakeBits DEF Dead
    <3> QED BY <2>2, <3>1, <3>2, SameWayKept DEF SameWay
  <2> QED BY <2>1, <2>2
<1>4. ASSUME LeftFree(m)' PROVE \E x \in Thread : OnTheWay(x, m)'
  <2>1. queue[m] # <<>>
    BY <1>4 DEF LeftFree, UnlockQueue
  <2>2. Head(queue[m]) \in Heir(m)
    BY <2>1 DEF Heir
  <2> QED BY <1>2, <2>2
<1> QED BY <1>3, <1>4, WayStep

LEMMA WayKept ==
  ASSUME "kill" \notin Calls, WaitInv, DeadAwake, NoLostWakeup, [Next]_vars
  PROVE  NoLostWakeup'
<1>1. TypeOK /\ TypeOK' /\ DOMAIN queue = Queues /\ Mutex \subseteq Queues
  BY TypeStep DEF WaitInv, TypeOK, Queues
<1>2. ASSUME UNCHANGED <<pc, sleepReason, wakeReason, queue, state, owner>>
      PROVE  NoLostWakeup'
  BY <1>2 DEF NoLostWakeup, Dead
(* Only t changes, and it was on no way.                                   *)
<1>3. ASSUME NEW t \in Thread, \A m \in Mutex : ~OnTheWay(t, m),
             UNCHANGED <<queue, owner>>,
             \A x \in Thread \ {t} : /\ pc'[x] = pc[x] /\ sleepReason'[x] = sleepReason[x]
                                     /\ wakeReason'[x] = wakeReason[x] /\ state'[x] = state[x]
      PROVE  NoLostWakeup'
  <2>1. \A x \in Thread \ {t} : SameWay(x)
    BY <1>3 DEF SameWay, Dead
  <2> QED BY <1>1, <1>3, <2>1, StillOnWay
<1>4. ASSUME NEW t \in Thread, \A m \in Mutex : ~OnTheWay(t, m), ExitNow(t)
      PROVE  NoLostWakeup'
  <2>1. \A x \in Thread \ {t} : state'[x] = state[x]
    BY <1>1, <1>4 DEF ExitNow, TypeOK
  <2>2. UNCHANGED <<queue, owner, pc, sleepReason, wakeReason>>
    BY <1>4 DEF ExitNow
  <2> QED BY <1>3, <1>4, <2>1, <2>2
<1>5. ASSUME NEW x \in Thread, NEW q \in Queues
      PROVE  ToSet(Unlinked(x)[q]) \subseteq ToSet(queue[q])
  <2>1. queue[q] \in Seq(Thread) /\ NoDuplicates(queue[q]) /\ Unlinked(x)[q] = remove(queue[q], x)
    BY <1>1 DEF Unlinked, WaitInv, QueueOK, TypeOK, Queues
  <2>2. ToSet(remove(queue[q], x)) = ToSet(queue[q]) \ {x}
    BY <2>1, RemoveProperties
  <2> QED BY <2>1, <2>2
<1>6. ASSUME NEW x \in Thread, sleepReason[x] # "NONE", NEW reason, Wake({x}, reason),
             queue' = Unlinked(x), UNCHANGED <<owner, pc>>
      PROVE  NoLostWakeup'
  BY <1>1, <1>5, <1>6, WakeWay
<1>7. ASSUME NEW q \in Queues, NEW x \in ToSet(queue[q]) PROVE sleepReason[x] # "NONE"
  <2>1. x \in Thread
    BY <1>7, Waiter
  <2>2. Waits(x, q)
    BY <1>1, <1>7, <2>1 DEF WaitInv, QueueOK, OnQueue
  <2> QED BY <2>2 DEF Waits
<1>8. ASSUME NEW c \in Cond, SignalOne(c) PROVE NoLostWakeup'
  <2>1. /\ c \in Queues /\ queue[c] # <<>> /\ queue' = [queue EXCEPT ![c] = Tail(@)]
        /\ Wake({Head(queue[c])}, "DONE") /\ UNCHANGED <<owner, pc>>
    BY <1>8 DEF SignalOne, Queues
  <2>2. queue[c] \in Seq(Thread)
    BY <1>1, <2>1 DEF TypeOK, Queues
  <2>3. sleepReason[Head(queue[c])] # "NONE"
    BY <1>7, <2>1, <2>2, TailProperties
  <2>4. \A m \in Mutex : queue'[m] = queue[m]
    BY <1>1, <2>1, ObjectAssumption
  <2> QED BY <1>1, <2>1, <2>3, <2>4, WakeWay
<1>9. ASSUME NEW r \in Queues, NEW reason, Wake(ToSet(queue[r]), reason),
             queue' = [queue EXCEPT ![r] = <<>>], UNCHANGED <<owner, pc>>
      PROVE  NoLostWakeup'
  <2>1. \A m \in Mutex : ToSet(queue'[m]) \subseteq ToSet(queue[m])
    BY <1>1, <1>9 DEF ToSet
  <2> QED BY <1>1, <1>7, <1>9, <2>1, WakeWay
<1>10. ASSUME NEW t \in Thread, NEW m \in Mutex
       PROVE  /\ Claimed(t, m) \in [Thread -> PriorityRecord]
              /\ \A x \in Thread \ {t} : Claimed(t, m)[x].cur = pri[x].cur
  BY <1>1, ClaimedType DEF Claimed, TypeOK
<1>11. ASSUME NEW t \in Thread, NEW m \in Mutex, Running(t), pc[t].at = "user",
              NEW c \in Cond, NEW reason, Wait(t, c, m, reason)
       PROVE  NoLostWakeup'
  <2>1. /\ owner' = [owner EXCEPT ![m] = NoThread]
        /\ queue' = [UnlockQueue(m) EXCEPT ![c] = enqueue(@, t, Cur(UnlockPri(t, m)))]
        /\ pc' = [pc EXCEPT ![t] = At("condwait", m)]
    BY <1>11 DEF Wait
  <2>2. DOMAIN UnlockQueue(m) = Queues
    BY <1>1 DEF UnlockQueue
  <2>3. \A n \in Mutex : queue'[n] = UnlockQueue(m)[n]
    BY <1>1, <2>1, <2>2, ObjectAssumption
  <2>4. \A x \in Thread \ {t} : pc'[x] = pc[x]
    BY <1>1, <2>1 DEF TypeOK
  <2>5. \A x \in Thread \ {t} : state'[x] = Awake(Heir(m))[x]
    BY <1>11 DEF Wait, Awake
  <2>6. \A x \in Thread \ {t} : sleepReason'[x] = IF x \in Heir(m) THEN "NONE" ELSE sleepReason[x]
    BY <1>11 DEF Wait
  <2>7. \A x \in Thread \ {t} : wakeReason'[x] = IF x \in Heir(m) THEN "DONE" ELSE wakeReason[x]
    BY <1>11 DEF Wait
  <2> QED BY <1>1, <1>11, <2>1, <2>3, <2>4, <2>5, <2>6, <2>7, UnlockWay
<1>12. CASE UNCHANGED vars \/ Dispatch \/ Timeslice
  BY <1>2, <1>12 DEF vars, Dispatch, DispatchTo, Timeslice
<1>13. ASSUME NEW x \in Thread, TimerAlarm(x) PROVE NoLostWakeup'
  <2>1. CASE sleepReason[x] \in {"DELAY", "TIMEOUT"}
    BY <1>6, <1>13, <2>1 DEF TimerAlarm
  <2>2. CASE sleepReason[x] \notin {"DELAY", "TIMEOUT"}
    BY <1>2, <1>13, <2>2 DEF TimerAlarm
  <2> QED BY <2>1, <2>2
<1>14. ASSUME NEW t \in Thread, MutexStep(t) PROVE NoLostWakeup'
  <2> SUFFICES ASSUME NEW m \in Mutex,
                      Lock(t, m) \/ TryLock(t, m) \/ Unlock(t, m) \/ MutexRelease(t, m)
               PROVE  NoLostWakeup'
    BY <1>14 DEF MutexStep
  <2>1. Running(t) /\ pc[t].at = "user"
    BY DEF Lock, TryLock, Unlock, MutexRelease, Calling
  <2>2. CASE Lock(t, m) \/ TryLock(t, m)
    <3>1. Acquire(t, m, Claimed(t, m)) \/ Block(t, m, Claimed(t, m), "lock")
      BY <2>2 DEF Lock, TryLock
    <3>2. CASE Acquire(t, m, Claimed(t, m))
      BY <1>1, <2>1, <3>2, AcquireWay
    <3>3. CASE Block(t, m, Claimed(t, m), "lock")
      BY <1>1, <1>10, <2>1, <3>3, BlockWay
    <3> QED BY <3>1, <3>2, <3>3
  <2>3. CASE Unlock(t, m)
    <3>1. /\ owner' = [owner EXCEPT ![m] = NoThread] /\ queue' = UnlockQueue(m)
          /\ pc' = pc /\ state' = Awake(Heir(m))
          /\ \A x \in Thread : sleepReason'[x] = IF x \in Heir(m) THEN "NONE" ELSE sleepReason[x]
          /\ \A x \in Thread : wakeReason'[x] = IF x \in Heir(m) THEN "DONE" ELSE wakeReason[x]
      BY <2>3 DEF Unlock
    <3> QED BY <1>1, <2>1, <3>1, UnlockWay
  <2>4. CASE MutexRelease(t, m)
    BY <1>9, <2>4 DEF MutexRelease, Queues
  <2> QED BY <2>2, <2>3, <2>4
<1>15. ASSUME NEW t \in Thread, CondStep(t) PROVE NoLostWakeup'
  <2> SUFFICES ASSUME NEW c \in Cond,
                      \/ Signal(t, c) \/ Broadcast(t, c)
                      \/ \E m \in Mutex : CondWait(t, c, m) \/ CondTimedWait(t, c, m)
               PROVE  NoLostWakeup'
    BY <1>15 DEF CondStep
  <2>1. CASE Signal(t, c)
    BY <1>8, <2>1 DEF Signal
  <2>2. CASE Broadcast(t, c)
    BY <1>9, <2>2 DEF Broadcast, Queues
  <2>3. ASSUME NEW m \in Mutex, CondWait(t, c, m) \/ CondTimedWait(t, c, m)
        PROVE  NoLostWakeup'
    BY <1>11, <2>3 DEF CondWait, CondTimedWait, Calling
  <2> QED BY <2>1, <2>2, <2>3
<1>16. ASSUME NEW t \in Thread, ThreadStep(t) PROVE NoLostWakeup'
  <2> SUFFICES ASSUME NEW x \in Thread,
                      \/ Suspend(t, x) \/ Resume(t, x) \/ Release(t, x) \/ Kill(t, x)
                      \/ \E p \in Given : SetPriority(t, x, p)
               PROVE  NoLostWakeup'
    BY <1>16 DEF ThreadStep
  <2>1. CASE Suspend(t, x) \/ Resume(t, x)
    <3>1. UNCHANGED <<pc, sleepReason, wakeReason, queue, owner>>
      BY <2>1 DEF Suspend, Resume
    <3>2. \A y \in Thread : state'[y] \ {"SUSPENDED"} = state[y] \ {"SUSPENDED"}
      <4>1. CASE Suspend(t, x)
        BY <1>1, <4>1 DEF Suspend, TypeOK
      <4>2. CASE Resume(t, x)
        <5>1. state' = [state EXCEPT ![x] = IF suspendCount[x] = 1 THEN @ \ {"SUSPENDED"} ELSE @]
          BY <4>2 DEF Resume
        <5> QED BY <1>1, <5>1 DEF TypeOK
      <4> QED BY <2>1, <4>1, <4>2
    <3>3. \A y \in Thread : "EXITED" \in state'[y] <=> "EXITED" \in state[y]
      BY <3>2
    <3>4. \A y \in Thread : SameWay(y)
      BY <3>1, <3>3 DEF SameWay, Dead
    <3> QED BY <1>1, <3>1, <3>4, StillOnWay
  <2>2. CASE Release(t, x)
    BY <1>6, <2>2 DEF Release
  <2>3. ASSUME Kill(t, x) PROVE FALSE
    BY <2>3 DEF Kill, Calling
  <2>4. ASSUME NEW p \in Given, SetPriority(t, x, p) PROVE NoLostWakeup'
    <3>0. UNCHANGED <<state, sleepReason, wakeReason, pc, owner>>
      BY <2>4 DEF SetPriority
    <3>1. /\ queue' = Requeued(queue, x, pri')
          /\ queue \in [Queues -> Seq(Thread)]
          /\ pri \in [Thread -> PriorityRecord] /\ pri' \in [Thread -> PriorityRecord]
      BY <1>1, <2>4 DEF SetPriority, TypeOK, Queues
    <3>2. \A y \in Thread \ {x} : pri[y].cur = pri'[y].cur
      BY <3>1, <2>4 DEF SetPriority
    <3>3. ASSUME NEW q \in Queues PROVE ToSet(queue'[q]) = ToSet(queue[q])
      <4>1. NoDuplicates(queue[q]) /\ Sorted(queue[q], Cur(pri))
        BY <1>1 DEF WaitInv, QueueOK, QueuesSorted
      <4>2. ToSet(Requeued(queue, x, pri')[q]) = ToSet(queue[q])
        BY <3>1, <3>2, <4>1, RequeuedProperties
      <4> QED BY <3>1, <4>2
    <3>4. \A y \in Thread : SameWay(y)
      BY <3>0 DEF SameWay, Dead
    <3> QED BY <1>1, <3>0, <3>3, <3>4, StillOnWay
  <2> QED BY <2>1, <2>2, <2>3, <2>4
<1>17. ASSUME NEW t \in Thread, Continue(t) PROVE NoLostWakeup'
  <2> DEFINE m == pc[t].mx
  <2>1. pc[t].at \notin Outside => m \in Mutex
    BY <1>1 DEF TypeOK, Place
  <2>2. Running(t)
    BY <1>17 DEF Continue, LockRetry, LockFail, LockExit, CondWakeup, Relock, DelayWakeup
  <2>3. ASSUME NEW label \in {"lock", "relocking"}, NEW pr \in {pri, Claimed(t, m)}, m \in Mutex,
               Acquire(t, m, pr) \/ Block(t, m, pr, label)
        PROVE  NoLostWakeup'
    <3>1. CASE Acquire(t, m, pr)
      BY <1>1, <2>3, <3>1, AcquireWay
    <3>2. CASE Block(t, m, pr, label)
      <4>0. pc[t].mx = m
        OBVIOUS
      <4> HIDE DEF m
      <4>1. pr \in [Thread -> PriorityRecord] /\ \A x \in Thread \ {t} : pr[x].cur = pri[x].cur
        <5>1. CASE pr = pri
          BY <1>1, <5>1 DEF TypeOK
        <5>2. CASE pr = Claimed(t, m)
          BY <1>10, <2>3, <5>2
        <5> QED BY <2>3, <5>1, <5>2
      <4> QED BY <1>1, <2>2, <2>3, <3>2, <4>0, <4>1, BlockWay
    <3> QED BY <2>3, <3>1, <3>2
  <2>4. CASE LockRetry(t)
    <3>1. m \in Mutex /\ pc[t].at \in {"lock", "relocking"}
          /\ (Acquire(t, m, pri) \/ Block(t, m, pri, pc[t].at))
      BY <2>1, <2>4 DEF LockRetry, Outside
    <3> QED BY <2>3, <3>1
  <2>5. CASE Relock(t)
    <3>1. m \in Mutex
          /\ (\/ Acquire(t, m, Claimed(t, m))
              \/ Block(t, m, Claimed(t, m), "relocking"))
      BY <2>1, <2>5 DEF Relock, Outside
    <3> QED BY <2>3, <3>1
  <2>6. CASE LockFail(t)
    <3>1. \A n \in Mutex : ~OnTheWay(t, n)
      BY <2>6 DEF LockFail, OnTheWay
    <3>2. \A x \in Thread \ {t} : pc'[x] = pc[x]
      BY <1>1, <2>6 DEF LockFail, TypeOK
    <3>3. UNCHANGED <<queue, owner, sleepReason, wakeReason, state>>
      BY <2>6 DEF LockFail
    <3> QED BY <1>3, <3>1, <3>2, <3>3
  <2>7. CASE LockExit(t)
    BY <1>4, <2>7 DEF LockExit, OnTheWay
  <2>8. CASE CondWakeup(t) \/ DelayWakeup(t)
    <3>1. \A n \in Mutex : ~OnTheWay(t, n)
      BY <2>8 DEF CondWakeup, DelayWakeup, OnTheWay
    <3>2. CASE ExitNow(t)
      BY <1>4, <3>1, <3>2
    <3>3. CASE UNCHANGED <<state, sleepReason, wakeReason, queue, owner>>
               /\ \A x \in Thread \ {t} : pc'[x] = pc[x]
      BY <1>3, <3>1, <3>3
    <3> QED BY <1>1, <2>8, <3>2, <3>3 DEF CondWakeup, DelayWakeup, TypeOK
  <2> QED BY <1>17, <2>4, <2>5, <2>6, <2>7, <2>8 DEF Continue
<1>18. ASSUME NEW t \in Thread, Delay(t) PROVE NoLostWakeup'
  <2>1. \A n \in Mutex : ~OnTheWay(t, n)
    BY <1>18 DEF Delay, Calling, OnTheWay
  <2>2. /\ UNCHANGED <<queue, owner>> /\ pc' = [pc EXCEPT ![t] = At("delay", NoMutex)]
        /\ \A x \in Thread \ {t} : /\ sleepReason'[x] = sleepReason[x]
                                   /\ wakeReason'[x] = wakeReason[x] /\ state'[x] = state[x]
    BY <1>1, <1>18 DEF Delay, Sleep, TypeOK
  <2>3. \A x \in Thread \ {t} : pc'[x] = pc[x]
    BY <1>1, <2>2 DEF TypeOK
  <2> QED BY <1>3, <2>1, <2>2, <2>3
<1>19. ASSUME NEW t \in Thread, NEW m \in Mutex, CondTimedWaitPast(t, m) PROVE NoLostWakeup'
  <2>1. /\ Running(t) /\ pc[t].at = "user"
        /\ owner' = [owner EXCEPT ![m] = NoThread] /\ queue' = UnlockQueue(m)
        /\ pc' = [pc EXCEPT ![t] = At("condwait", m)] /\ state' = Awake(Heir(m))
    BY <1>19 DEF CondTimedWaitPast, Calling
  <2>2. \A x \in Thread \ {t} : sleepReason'[x] = IF x \in Heir(m) THEN "NONE" ELSE sleepReason[x]
    BY <1>19 DEF CondTimedWaitPast
  <2>3. \A x \in Thread \ {t} : wakeReason'[x] = IF x \in Heir(m) THEN "DONE" ELSE wakeReason[x]
    BY <1>19 DEF CondTimedWaitPast
  <2>4. \A x \in Thread \ {t} : pc'[x] = pc[x]
    BY <1>1, <2>1 DEF TypeOK
  <2> QED BY <1>1, <2>1, <2>2, <2>3, <2>4, UnlockWay
<1>20. ASSUME NEW t \in Thread, Exit(t) PROVE NoLostWakeup'
  <2>1. \A n \in Mutex : ~OnTheWay(t, n)
    BY <1>20 DEF Exit, Calling, OnTheWay
  <2> QED BY <1>4, <1>20, <2>1 DEF Exit
<1> QED
  BY <1>8, <1>12, <1>13, <1>14, <1>15, <1>16, <1>17, <1>18, <1>19, <1>20
  DEF Next, Dsr, DsrSignal

(* A mutex is never left free with threads asleep on it and nobody on the  *)
(* way to take it, through every unlock, break, signal, timeout, suspend   *)
(* and priority change, as long as no thread is killed.                    *)
THEOREM FreedMutexIsTaken ==
  ASSUME "kill" \notin Calls
  PROVE  Spec => []NoLostWakeup
<1>1. Init => WaitInv /\ DeadAwake /\ NoLostWakeup
  BY WaitInit DEF Init, DeadAwake, Dead, NoLostWakeup
<1>2. WaitInv /\ DeadAwake /\ NoLostWakeup /\ [Next]_vars => (WaitInv /\ DeadAwake /\ NoLostWakeup)'
  BY WaitInvStep, DeadStep, WayKept DEF WaitInv
<1> QED BY <1>1, <1>2, PTL DEF Spec

-----------------------------------------------------------------------------
(* Priority inversion.  The SIMPLE protocol passes a priority on to the    *)
(* owner of a mutex and no further: when that owner waits for a second     *)
(* mutex, the boost stops there.  What follows is about threads that hold  *)
(* one mutex at a time.                                                    *)

OwnsNone(t) == \A m \in Mutex : owner[m] # t

(* A thread owns at most one mutex, and none while it waits for one.       *)
OneHeld ==
  \A t \in Thread, m \in Mutex :
    owner[m] = t => pc[t].at \in Outside /\ \A n \in Mutex : owner[n] = t => n = m

(* Without suspend() a sleeping thread has nothing but its sleep to keep   *)
(* it from running.                                                        *)
LightSleep == \A t \in Thread : "SLEEPING" \in state[t] => state[t] = {"SLEEPING"}

LEMMA NothingHeld ==
  ASSUME TypeOK, OneHeld, NEW t \in Thread, Cardinality(Held(t)) < 1
  PROVE  OwnsNone(t)
<1> SUFFICES ASSUME NEW m \in Mutex, owner[m] = t PROVE FALSE
  BY DEF OwnsNone
<1>1. Held(t) = {m}
  BY DEF OneHeld, Held
<1>2. Cardinality(Held(t)) = 1
  BY <1>1, FS_Singleton
<1> QED BY <1>2

LEMMA OneHeldStep ==
  ASSUME MaxHeld = 1, TypeOK, OneHeld, [Next]_vars
  PROVE  OneHeld'
<1> USE DEF Calling, Running
<1>1. ASSUME UNCHANGED <<owner, pc>> PROVE OneHeld'
  BY <1>1 DEF OneHeld
<1>2. ASSUME NEW t \in Thread, UNCHANGED owner, \A x \in Thread \ {t} : pc'[x] = pc[x],
             pc'[t].at \in Outside \/ OwnsNone(t)
      PROVE  OneHeld'
  BY <1>2 DEF OneHeld, OwnsNone
<1>3. ASSUME NEW t \in Thread, NEW m \in Mutex, NEW pr, OwnsNone(t), Acquire(t, m, pr)
      PROVE  OneHeld'
  <2>1. /\ owner' = [owner EXCEPT ![m] = t] /\ pc' = [pc EXCEPT ![t] = User]
        /\ User.at \in Outside
    BY <1>3 DEF Acquire, User, At, Outside
  <2>2. pc'[t].at \in Outside /\ \A x \in Thread \ {t} : pc'[x] = pc[x]
    BY <2>1 DEF TypeOK
  <2>3. owner'[m] = t /\ \A n \in Mutex \ {m} : owner'[n] = owner[n]
    BY <2>1 DEF TypeOK
  <2> QED BY <1>3, <2>2, <2>3 DEF OneHeld, OwnsNone
<1>4. ASSUME NEW t \in Thread, NEW m \in Mutex, owner[m] = t,
             owner' = [owner EXCEPT ![m] = NoThread], \A x \in Thread \ {t} : pc'[x] = pc[x]
      PROVE  OneHeld'
  <2>1. owner'[m] = NoThread /\ \A n \in Mutex \ {m} : owner'[n] = owner[n]
    BY <1>4 DEF TypeOK
  <2> QED BY <1>4, <2>1, NoThreadAssumption DEF OneHeld
<1>5. ASSUME NEW t \in Thread, NEW m, NEW pr, NEW label, Block(t, m, pr, label), OwnsNone(t)
      PROVE  OneHeld'
  <2>1. pc' = [pc EXCEPT ![t] = At(label, m)] /\ UNCHANGED owner
    BY <1>5 DEF Block
  <2>2. \A x \in Thread \ {t} : pc'[x] = pc[x]
    BY <2>1 DEF TypeOK
  <2> QED BY <1>2, <1>5, <2>1, <2>2
<1>6. CASE UNCHANGED vars \/ Dispatch \/ Timeslice
  BY <1>1, <1>6 DEF vars, Dispatch, DispatchTo, Timeslice
<1>7. ASSUME NEW x \in Thread, TimerAlarm(x) PROVE OneHeld'
  BY <1>1, <1>7 DEF TimerAlarm
<1>8. ASSUME NEW c \in Cond, SignalOne(c) PROVE OneHeld'
  BY <1>1, <1>8 DEF SignalOne
<1>9. ASSUME NEW t \in Thread, ThreadStep(t) PROVE OneHeld'
  BY <1>1, <1>9 DEF ThreadStep, Suspend, Resume, Release, Kill, SetPriority
<1>10. ASSUME NEW t \in Thread, ExitNow(t) PROVE OneHeld'
  BY <1>1, <1>10 DEF ExitNow
<1>11. ASSUME NEW t \in Thread, MutexStep(t) PROVE OneHeld'
  <2> SUFFICES ASSUME NEW m \in Mutex,
                      Lock(t, m) \/ TryLock(t, m) \/ Unlock(t, m) \/ MutexRelease(t, m)
               PROVE  OneHeld'
    BY <1>11 DEF MutexStep
  <2>1. CASE Lock(t, m) \/ TryLock(t, m)
    <3>1. /\ Cardinality(Held(t)) < 1
          /\ Acquire(t, m, Claimed(t, m)) \/ Block(t, m, Claimed(t, m), "lock")
      BY <2>1 DEF Lock, TryLock
    <3>2. OwnsNone(t)
      BY <3>1, NothingHeld
    <3> QED BY <1>3, <1>5, <3>1, <3>2
  <2>2. CASE Unlock(t, m)
    BY <1>4, <2>2 DEF Unlock
  <2>3. CASE MutexRelease(t, m)
    BY <1>1, <2>3 DEF MutexRelease
  <2> QED BY <2>1, <2>2, <2>3
<1>12. ASSUME NEW t \in Thread, NEW m \in Mutex, owner[m] = t,
              owner' = [owner EXCEPT ![m] = NoThread],
              pc' = [pc EXCEPT ![t] = At("condwait", m)]
       PROVE  OneHeld'
  <2>1. \A x \in Thread \ {t} : pc'[x] = pc[x]
    BY <1>12 DEF TypeOK
  <2> QED BY <1>4, <1>12, <2>1
<1>13. ASSUME NEW t \in Thread, CondStep(t) PROVE OneHeld'
  <2>1. CASE \E c \in Cond : Signal(t, c) \/ Broadcast(t, c)
    BY <1>1, <1>8, <2>1 DEF Signal, Broadcast
  <2>2. ASSUME NEW c \in Cond, NEW m \in Mutex, NEW reason, Wait(t, c, m, reason)
        PROVE  OneHeld'
    BY <1>12, <2>2 DEF Wait
  <2> QED BY <1>13, <2>1, <2>2 DEF CondStep, CondWait, CondTimedWait
<1>14. ASSUME NEW t \in Thread, Continue(t) PROVE OneHeld'
  <2> DEFINE m == pc[t].mx
  <2>1. ASSUME pc[t].at \notin Outside PROVE m \in Mutex /\ OwnsNone(t)
    BY <2>1 DEF OneHeld, OwnsNone, TypeOK, Place
  <2>2. CASE LockRetry(t) \/ Relock(t)
    <3>1. /\ pc[t].at \notin Outside
          /\ \E pr, label : Acquire(t, m, pr) \/ Block(t, m, pr, label)
      BY <2>2 DEF LockRetry, Relock, Outside
    <3> QED BY <1>3, <1>5, <2>1, <3>1
  <2>3. CASE LockFail(t)
    <3>1. /\ pc[t].at \notin Outside /\ UNCHANGED owner
          /\ pc' = [pc EXCEPT ![t] = IF @.at = "lock" THEN User ELSE At("relock", m)]
      BY <2>3 DEF LockFail, Outside
    <3>2. \A x \in Thread \ {t} : pc'[x] = pc[x]
      BY <3>1 DEF TypeOK
    <3> QED BY <1>2, <2>1, <3>1, <3>2
  <2>4. CASE LockExit(t)
    BY <1>10, <2>4 DEF LockExit
  <2>5. CASE CondWakeup(t) /\ ~ExitNow(t)
    <3>1. /\ pc[t].at \notin Outside /\ UNCHANGED owner
          /\ pc' = [pc EXCEPT ![t].at = "relock"]
      BY <2>5 DEF CondWakeup, Outside
    <3>2. \A x \in Thread \ {t} : pc'[x] = pc[x]
      BY <3>1 DEF TypeOK
    <3> QED BY <1>2, <2>1, <3>1, <3>2
  <2>6. CASE DelayWakeup(t) /\ ~ExitNow(t)
    <3>1. UNCHANGED owner /\ pc' = [pc EXCEPT ![t] = User]
      BY <2>6 DEF DelayWakeup
    <3>2. pc'[t].at \in Outside /\ \A x \in Thread \ {t} : pc'[x] = pc[x]
      BY <3>1 DEF TypeOK, User, At, Outside
    <3> QED BY <1>2, <3>1, <3>2
  <2> QED BY <1>10, <1>14, <2>2, <2>3, <2>4, <2>5, <2>6 DEF Continue
<1>15. ASSUME NEW t \in Thread, Delay(t) PROVE OneHeld'
  <2>1. UNCHANGED owner /\ pc' = [pc EXCEPT ![t] = At("delay", NoMutex)]
    BY <1>15 DEF Delay
  <2>2. pc'[t].at \in Outside /\ \A x \in Thread \ {t} : pc'[x] = pc[x]
    BY <2>1 DEF TypeOK, At, Outside
  <2> QED BY <1>2, <2>1, <2>2
<1>16. ASSUME NEW t \in Thread, NEW m \in Mutex, CondTimedWaitPast(t, m) PROVE OneHeld'
  BY <1>12, <1>16 DEF CondTimedWaitPast
<1> QED
  BY <1>6, <1>7, <1>8, <1>9, <1>10, <1>11, <1>13, <1>14, <1>15, <1>16
  DEF Next, Dsr, DsrSignal, Exit

LEMMA LightStep ==
  ASSUME Calls \cap {"kill", "suspend"} = {}, TypeOK, LightSleep, [Next]_vars
  PROVE  LightSleep'
<1>1. ASSUME \A t \in Thread : \/ state'[t] \subseteq state[t]
                               \/ state'[t] = {"SLEEPING"} \/ "SLEEPING" \notin state'[t]
      PROVE  LightSleep'
  BY <1>1 DEF LightSleep
<1>2. ASSUME NEW S, NEW t \in Thread PROVE Awake(S)[t] \subseteq state[t]
  BY DEF Awake
<1>3. ASSUME NEW S, state' = Awake(S) PROVE LightSleep'
  BY <1>1, <1>2, <1>3
<1>4. ASSUME NEW t \in Thread, ExitNow(t) PROVE LightSleep'
  <2>1. state' = [state EXCEPT ![t] = {"EXITED"}]
    BY <1>4 DEF ExitNow
  <2> QED BY <1>1, <2>1 DEF TypeOK
<1>5. ASSUME NEW t \in Thread, Running(t), NEW reason, Sleep(t, reason) PROVE LightSleep'
  <2>1. state' = [state EXCEPT ![t] = @ \cup {"SLEEPING"}] /\ state[t] = {}
    BY <1>5 DEF Sleep, Running, Ready
  <2> QED BY <1>1, <2>1 DEF TypeOK
<1>6. ASSUME NEW t \in Thread, Running(t), NEW m,
             state' = [Awake(Heir(m)) EXCEPT ![t] = @ \cup {"SLEEPING"}]
      PROVE  LightSleep'
  <2>1. state[t] = {}
    BY <1>6 DEF Running, Ready
  <2>2. state'[t] = Awake(Heir(m))[t] \cup {"SLEEPING"}
        /\ \A x \in Thread \ {t} : state'[x] = Awake(Heir(m))[x]
    BY <1>6 DEF Awake
  <2>3. state'[t] = {"SLEEPING"}
    BY <1>2, <2>1, <2>2
  <2> QED BY <1>1, <1>2, <2>2, <2>3
<1>7. ASSUME UNCHANGED state PROVE LightSleep'
  BY <1>1, <1>7
<1>8. CASE UNCHANGED vars \/ Dispatch \/ Timeslice
  BY <1>7, <1>8 DEF vars, Dispatch, DispatchTo, Timeslice
<1>9. ASSUME NEW x \in Thread, TimerAlarm(x) PROVE LightSleep'
  BY <1>3, <1>7, <1>9 DEF TimerAlarm, Wake
<1>10. ASSUME NEW c \in Cond, SignalOne(c) PROVE LightSleep'
  BY <1>3, <1>10 DEF SignalOne, Wake
<1>11. ASSUME NEW t \in Thread, MutexStep(t) PROVE LightSleep'
  <2> SUFFICES ASSUME NEW m \in Mutex,
                      Lock(t, m) \/ TryLock(t, m) \/ Unlock(t, m) \/ MutexRelease(t, m)
               PROVE  LightSleep'
    BY <1>11 DEF MutexStep
  <2>1. CASE Lock(t, m) \/ TryLock(t, m)
    BY <1>5, <1>7, <2>1 DEF Lock, TryLock, Calling, Acquire, Block
  <2>2. CASE Unlock(t, m)
    BY <1>3, <2>2 DEF Unlock
  <2>3. CASE MutexRelease(t, m)
    BY <1>3, <2>3 DEF MutexRelease, Wake
  <2> QED BY <2>1, <2>2, <2>3
<1>12. ASSUME NEW t \in Thread, CondStep(t) PROVE LightSleep'
  <2> SUFFICES ASSUME NEW c \in Cond,
                      \/ Signal(t, c) \/ Broadcast(t, c)
                      \/ \E m \in Mutex : CondWait(t, c, m) \/ CondTimedWait(t, c, m)
               PROVE  LightSleep'
    BY <1>12 DEF CondStep
  <2>1. CASE Signal(t, c)
    BY <1>10, <2>1 DEF Signal
  <2>2. CASE Broadcast(t, c)
    BY <1>3, <2>2 DEF Broadcast, Wake
  <2>3. ASSUME NEW m \in Mutex, CondWait(t, c, m) \/ CondTimedWait(t, c, m) PROVE LightSleep'
    BY <1>6, <2>3 DEF CondWait, CondTimedWait, Wait, Calling
  <2> QED BY <2>1, <2>2, <2>3
<1>13. ASSUME NEW t \in Thread, ThreadStep(t) PROVE LightSleep'
  <2> SUFFICES ASSUME NEW x \in Thread,
                      \/ Suspend(t, x) \/ Resume(t, x) \/ Release(t, x) \/ Kill(t, x)
                      \/ \E p \in Given : SetPriority(t, x, p)
               PROVE  LightSleep'
    BY <1>13 DEF ThreadStep
  <2>1. CASE Suspend(t, x) \/ Kill(t, x)
    BY <2>1 DEF Suspend, Kill, Calling
  <2>2. CASE Resume(t, x)
    <3>1. state' = [state EXCEPT ![x] = IF suspendCount[x] = 1 THEN @ \ {"SUSPENDED"} ELSE @]
      BY <2>2 DEF Resume
    <3> QED BY <1>1, <3>1 DEF TypeOK
  <2>3. CASE Release(t, x)
    BY <1>3, <2>3 DEF Release, Wake
  <2>4. ASSUME NEW p \in Given, SetPriority(t, x, p) PROVE LightSleep'
    BY <1>7, <2>4 DEF SetPriority
  <2> QED BY <2>1, <2>2, <2>3, <2>4
<1>14. ASSUME NEW t \in Thread, Continue(t) PROVE LightSleep'
  <2>1. CASE LockRetry(t)
    BY <1>5, <1>7, <2>1 DEF LockRetry, Acquire, Block
  <2>2. CASE Relock(t)
    BY <1>5, <1>7, <2>2 DEF Relock, Acquire, Block
  <2>3. CASE LockFail(t)
    BY <1>7, <2>3 DEF LockFail
  <2>4. CASE LockExit(t)
    BY <1>4, <2>4 DEF LockExit
  <2>5. CASE CondWakeup(t)
    BY <1>4, <1>7, <2>5 DEF CondWakeup
  <2>6. CASE DelayWakeup(t)
    BY <1>4, <1>7, <2>6 DEF DelayWakeup
  <2> QED BY <1>14, <2>1, <2>2, <2>3, <2>4, <2>5, <2>6 DEF Continue
<1>15. ASSUME NEW t \in Thread, Delay(t) PROVE LightSleep'
  BY <1>5, <1>7, <1>15 DEF Delay, Calling
<1>16. ASSUME NEW t \in Thread, NEW m \in Mutex, CondTimedWaitPast(t, m) PROVE LightSleep'
  BY <1>3, <1>16 DEF CondTimedWaitPast
<1>17. ASSUME NEW t \in Thread, Exit(t) PROVE LightSleep'
  BY <1>4, <1>17 DEF Exit
<1> QED
  BY <1>8, <1>9, <1>10, <1>11, <1>12, <1>13, <1>14, <1>15, <1>16, <1>17
  DEF Next, Dsr, DsrSignal

(* x is at least as urgent as every waiter of m.                           *)
Leads(x, m) == \A y \in ToSet(queue[m]) : pri[x].cur <= pri[y].cur

Heads(h, m) == OnTheWay(h, m) /\ Ready(h) /\ Leads(h, m)

(* An inheriting mutex is in good hands: its owner leads the waiters, or,  *)
(* when it was left free, a ready thread that leads them is on the way.    *)
InGoodHands(m) ==
  Protocol[m] = "INHERIT" =>
    /\ owner[m] # NoThread => Leads(owner[m], m)
    /\ LeftFree(m) => \E h \in Thread : Heads(h, m)

GoodHands == \A m \in Mutex : InGoodHands(m)

(* The inductive invariant behind priority inheritance.                    *)
FlatInv ==
  WaitInv /\ MostUrgentRuns /\ DeadAwake /\ OneHeld /\ LightSleep /\ GoodHands

LEMMA FlatInversion == FlatInv => NoInversion
<1> SUFFICES ASSUME FlatInv, NEW m \in Mutex, owner[m] # NoThread, Protocol[m] = "INHERIT",
                    NEW t \in Thread, OnQueue(t, m)
             PROVE  pri[owner[m]].cur <= pri[t].cur
  BY DEF NoInversion
<1> QED BY DEF FlatInv, GoodHands, InGoodHands, Leads, OnQueue

LEMMA LeadsEmpty ==
  ASSUME NEW m, queue[m] = <<>>, NEW x
  PROVE  Leads(x, m)
BY DEF Leads, ToSet

LEMMA CurInt ==
  ASSUME TypeOK, NEW t \in Thread PROVE pri[t].cur \in Int
BY PriorityAssumption DEF TypeOK, PriorityRecord, Priority

(* A step that leaves m alone: the owner, the waiters and whoever is on    *)
(* the way keep their priorities, the one on the way stays there.          *)
LEMMA LeftInGoodHands ==
  ASSUME TypeOK, TypeOK', NEW m \in Mutex, InGoodHands(m), owner'[m] = owner[m],
         ToSet(queue'[m]) \subseteq ToSet(queue[m]),
         \A x \in Thread : \/ pri'[x].cur = pri[x].cur
                           \/ owner[m] # x /\ x \notin ToSet(queue'[m]) /\ ~OnTheWay(x, m),
         \A x \in Thread : OnTheWay(x, m) /\ Ready(x) => OnTheWay(x, m)' /\ Ready(x)'
  PROVE  InGoodHands(m)'
<1>1. /\ queue[m] \in Seq(Thread) /\ queue'[m] \in Seq(Thread)
      /\ owner[m] \in Thread \cup {NoThread}
  BY DEF TypeOK
<1>2. ToSet(queue[m]) \subseteq Thread /\ ToSet(queue'[m]) \subseteq Thread
  BY <1>1, MembersAreThreads
<1>3. ASSUME NEW x \in Thread, Leads(x, m), owner[m] = x \/ OnTheWay(x, m)
      PROVE  \A y \in ToSet(queue'[m]) : pri'[x].cur <= pri'[y].cur
  BY <1>2, <1>3 DEF Leads
<1> SUFFICES ASSUME Protocol[m] = "INHERIT"
             PROVE  /\ owner'[m] # NoThread =>
                         \A y \in ToSet(queue'[m]) : pri'[owner'[m]].cur <= pri'[y].cur
                    /\ LeftFree(m)' => \E h \in Thread : Heads(h, m)'
  BY DEF InGoodHands, Leads
<1>4. ASSUME owner'[m] # NoThread
      PROVE  \A y \in ToSet(queue'[m]) : pri'[owner'[m]].cur <= pri'[y].cur
  BY <1>1, <1>3, <1>4 DEF InGoodHands
<1>5. ASSUME LeftFree(m)' PROVE \E h \in Thread : Heads(h, m)'
  <2>1. LeftFree(m)
    BY <1>1, <1>5, SomeWaiter DEF LeftFree
  <2>2. PICK h \in Thread : Heads(h, m)
    BY <2>1 DEF InGoodHands
  <2>3. OnTheWay(h, m)' /\ Ready(h)'
    BY <2>2 DEF Heads
  <2>4. Leads(h, m)'
    BY <1>3, <2>2 DEF Heads, Leads
  <2> QED BY <2>3, <2>4 DEF Heads
<1> QED BY <1>4, <1>5

(* Nobody moves up or down a queue, wakes for a mutex or loses one: each   *)
(* thread goes on as it was, or is one that no mutex is concerned with.    *)
LEMMA StillGood ==
  ASSUME TypeOK, TypeOK', GoodHands, owner' = owner,
         \A m \in Mutex : ToSet(queue'[m]) \subseteq ToSet(queue[m]),
         \A x \in Thread :
           \/ pri'[x].cur = pri[x].cur
           \/ \A m \in Mutex : owner[m] # x /\ x \notin ToSet(queue[m]) /\ ~OnTheWay(x, m),
         \A x \in Thread : \/ SameWay(x) /\ (Ready(x) => Ready(x)')
                           \/ \A m \in Mutex : ~OnTheWay(x, m)
  PROVE  GoodHands'
<1> SUFFICES ASSUME NEW m \in Mutex PROVE InGoodHands(m)'
  BY DEF GoodHands
<1>1. InGoodHands(m) /\ owner'[m] = owner[m] /\ ToSet(queue'[m]) \subseteq ToSet(queue[m])
  BY DEF GoodHands
<1>2. \A x \in Thread : \/ pri'[x].cur = pri[x].cur
                        \/ owner[m] # x /\ x \notin ToSet(queue'[m]) /\ ~OnTheWay(x, m)
  BY <1>1
<1>3. \A x \in Thread : OnTheWay(x, m) /\ Ready(x) => OnTheWay(x, m)' /\ Ready(x)'
  BY SameWayKept
<1> QED BY <1>1, <1>2, <1>3, LeftInGoodHands

(* The threads of S sleep and are woken.                                   *)
LEMMA WakeGood ==
  ASSUME TypeOK, TypeOK', GoodHands, UNCHANGED <<owner, pc, pri>>, NEW S, NEW reason,
         Wake(S, reason), \A x \in S : sleepReason[x] # "NONE",
         \A m \in Mutex : ToSet(queue'[m]) \subseteq ToSet(queue[m])
  PROVE  GoodHands'
<1>1. ASSUME NEW t \in Thread
      PROVE  \/ SameWay(t) /\ (Ready(t) => Ready(t)')
             \/ \A m \in Mutex : ~OnTheWay(t, m)
  <2>1. CASE t \in S
    BY <2>1 DEF OnTheWay
  <2>2. CASE t \notin S
    BY <2>2 DEF Wake, Awake, SameWay, Dead, Ready
  <2> QED BY <2>1, <2>2
<1> QED BY <1>1, StillGood

(* Claiming a mutex never makes a thread less urgent.                      *)
LEMMA ClaimUrgent ==
  ASSUME NEW r \in PriorityRecord, NEW m \in Mutex
  PROVE  Claim(m, r).cur <= r.cur
<1>1. Protocol[m] \in {"NONE", "INHERIT", "CEILING"} /\ Ceiling[m] \in Priority
      /\ Priority \subseteq Int
  BY PriorityAssumption DEF Protocols, Priority
<1> QED BY <1>1 DEF Claim, Inherit, PriorityRecord

(* The running thread takes m: were it not the most urgent, the one on the *)
(* way would be running.                                                   *)
LEMMA AcquireGood ==
  ASSUME WaitInv, TypeOK', MostUrgentRuns, GoodHands, NEW t \in Thread, Running(t),
         NEW m \in Mutex, OwnsNone(t),
         pc[t].at \in {"lock", "relocking"} => pc[t].mx = m,
         NEW pr \in [Thread -> PriorityRecord], pr[t].cur <= pri[t].cur,
         \A x \in Thread \ {t} : pr[x].cur = pri[x].cur, Acquire(t, m, pr)
  PROVE  GoodHands'
<1>1. /\ TypeOK /\ Mutex \subseteq Queues /\ owner[m] = NoThread
      /\ owner' = [owner EXCEPT ![m] = t] /\ pri' = pr /\ pc' = [pc EXCEPT ![t] = User]
      /\ UNCHANGED <<state, sleepReason, wakeReason, queue>>
  BY DEF Acquire, WaitInv, Queues
<1>2. owner'[m] = t /\ \A n \in Mutex \ {m} : owner'[n] = owner[n]
  BY <1>1 DEF TypeOK
<1>3. \A n \in Mutex : t \notin ToSet(queue[n])
  BY <1>1, RunningNotQueued DEF WaitInv
<1>4. ASSUME NEW n \in Mutex \ {m} PROVE InGoodHands(n)'
  <2>1. \A x \in Thread : \/ pri'[x].cur = pri[x].cur
                          \/ owner[n] # x /\ x \notin ToSet(queue'[n]) /\ ~OnTheWay(x, n)
    BY <1>1, <1>3 DEF OwnsNone, OnTheWay
  <2>2. \A x \in Thread \ {t} : SameWay(x) /\ (Ready(x) => Ready(x)')
    BY <1>1 DEF SameWay, Dead, Ready, TypeOK
  <2>3. \A x \in Thread : OnTheWay(x, n) /\ Ready(x) => OnTheWay(x, n)' /\ Ready(x)'
    BY <2>2, SameWayKept DEF OnTheWay
  <2>4. InGoodHands(n) /\ owner'[n] = owner[n] /\ ToSet(queue'[n]) \subseteq ToSet(queue[n])
    BY <1>1, <1>2 DEF GoodHands
  <2> QED BY <1>1, <2>1, <2>3, <2>4, LeftInGoodHands
<1>5. InGoodHands(m)'
  <2> SUFFICES ASSUME Protocol[m] = "INHERIT", NEW y \in ToSet(queue[m])
               PROVE  pri'[t].cur <= pri'[y].cur
    BY <1>1, <1>2, NoThreadAssumption DEF InGoodHands, Leads, LeftFree
  <2>1. queue[m] \in Seq(Thread) /\ queue[m] # <<>> /\ y \in Thread \ {t}
    <3>1. queue[m] \in Seq(Thread)
      BY <1>1 DEF TypeOK
    <3> QED BY <1>3, <3>1, MembersAreThreads, SomeWaiter
  <2>2. PICK h \in Thread : Heads(h, m)
    BY <1>1, <2>1 DEF GoodHands, InGoodHands, LeftFree
  <2>3. pri[t].cur <= pri[h].cur
    BY <2>2, RunningUrgent DEF Heads, Ready
  <2>4. pri[h].cur <= pri[y].cur
    BY <2>2 DEF Heads, Leads
  <2>5. pri[t].cur \in Int /\ pri[h].cur \in Int /\ pri[y].cur \in Int /\ pr[t].cur \in Int
    BY <1>1, <2>1, <2>2, CurInt, PriorityAssumption DEF PriorityRecord, Priority
  <2> QED BY <1>1, <2>1, <2>3, <2>4, <2>5
<1> QED BY <1>4, <1>5 DEF GoodHands

(* The running thread joins the queue of m, and the owner of m, which is   *)
(* itself on no queue, becomes at least as urgent.                         *)
LEMMA BlockGood ==
  ASSUME WaitInv, TypeOK', OneHeld, GoodHands, NEW t \in Thread, Running(t),
         NEW m \in Mutex, OwnsNone(t),
         pc[t].at \in {"lock", "relocking"} => pc[t].mx = m,
         NEW pr \in [Thread -> PriorityRecord],
         \A x \in Thread \ {t} : pr[x].cur = pri[x].cur,
         NEW label \in {"lock", "relocking"}, Block(t, m, pr, label)
  PROVE  GoodHands'
<1> DEFINE o == owner[m]
<1>1. /\ TypeOK /\ Mutex \subseteq Queues /\ o \in Thread
      /\ owner' = owner /\ pri' = BoostedOwner(t, m, pr)
      /\ pc' = [pc EXCEPT ![t] = At(label, m)] /\ Sleep(t, "WAIT")
  BY DEF Block, WaitInv, Queues
<1>2. \A q \in Queues : ToSet(queue'[q]) = ToSet(queue[q]) \cup (IF q = m THEN {t} ELSE {})
  BY BlockQueues, Z3
<1>3. /\ o # t /\ pc[o].at \in Outside /\ \A n \in Mutex : owner[n] = o => n = m
  BY <1>1 DEF OwnsNone, OneHeld
<1>4. \A n \in Mutex : t \notin ToSet(queue[n]) /\ o \notin ToSet(queue[n])
  <2>1. \A n \in Mutex : t \notin ToSet(queue[n])
    BY <1>1, RunningNotQueued DEF WaitInv
  <2>2. \A n \in Mutex : o \in ToSet(queue[n]) => Waits(o, n)
    BY <1>1 DEF WaitInv, QueueOK, OnQueue, TypeOK
  <2> QED BY <1>3, <2>1, <2>2 DEF Waits, Outside
<1>5. \A x \in Thread \ {t, o} : pri'[x].cur = pri[x].cur
  BY <1>1 DEF BoostedOwner
<1>6. ASSUME Protocol[m] = "INHERIT"
      PROVE  pri'[o].cur <= pri[o].cur /\ pri'[o].cur <= pri'[t].cur
  <2>1. pri' = [pr EXCEPT ![o] = Inherit(@, pr[t].cur)]
    BY <1>1, <1>6 DEF BoostedOwner
  <2>2. pri'[o] = Inherit(pr[o], pr[t].cur) /\ pri'[t] = pr[t] /\ pr[o].cur = pri[o].cur
    BY <1>1, <1>3, <2>1
  <2>3. pr[o] \in PriorityRecord /\ pr[t].cur \in Int /\ pr[o].cur \in Int
    BY <1>1, PriorityAssumption DEF PriorityRecord, Priority
  <2> QED BY <2>2, <2>3 DEF Inherit, PriorityRecord
<1> HIDE DEF o
<1>7. ASSUME NEW n \in Mutex \ {m} PROVE InGoodHands(n)'
  <2>1. ToSet(queue'[n]) = ToSet(queue[n])
    BY <1>1, <1>2
  <2>2. \A x \in Thread : \/ pri'[x].cur = pri[x].cur
                          \/ owner[n] # x /\ x \notin ToSet(queue'[n]) /\ ~OnTheWay(x, n)
    BY <1>3, <1>4, <1>5, <2>1 DEF OwnsNone, OnTheWay, Outside
  <2>3. \A x \in Thread \ {t} : SameWay(x) /\ (Ready(x) => Ready(x)')
    BY <1>1 DEF Sleep, SameWay, Dead, Ready, TypeOK
  <2>4. \A x \in Thread : OnTheWay(x, n) /\ Ready(x) => OnTheWay(x, n)' /\ Ready(x)'
    BY <2>3, SameWayKept DEF OnTheWay
  <2> QED BY <1>1, <2>1, <2>2, <2>4, LeftInGoodHands DEF GoodHands
<1>8. InGoodHands(m)'
  <2>1. owner'[m] = o /\ o # NoThread
    BY <1>1, NoThreadAssumption DEF o
  <2> SUFFICES ASSUME Protocol[m] = "INHERIT", NEW y \in ToSet(queue'[m])
               PROVE  pri'[o].cur <= pri'[y].cur
    BY <2>1 DEF InGoodHands, Leads, LeftFree
  <2>2. y = t \/ y \in ToSet(queue[m])
    BY <1>1, <1>2
  <2>3. CASE y = t
    BY <1>6, <2>3
  <2>4. CASE y \in ToSet(queue[m])
    <3>1. y \in Thread /\ y # t /\ y # o
      BY <1>1, <1>4, <2>4, MembersAreThreads DEF TypeOK
    <3>2. pri[o].cur <= pri[y].cur
      BY <2>1, <2>4, <1>1 DEF GoodHands, InGoodHands, Leads
    <3>3. pri[o].cur \in Int /\ pri[y].cur \in Int /\ pri'[o].cur \in Int
      BY <1>1, <3>1, CurInt, PriorityAssumption DEF TypeOK, PriorityRecord, Priority
    <3> QED BY <1>5, <1>6, <3>1, <3>2, <3>3
  <2> QED BY <2>2, <2>3, <2>4
<1> QED BY <1>7, <1>8 DEF GoodHands

(* unlock(), alone or before a condition wait: the head of a sorted queue  *)
(* leads the others, and the relay only makes it more urgent.              *)
LEMMA UnlockGood ==
  ASSUME WaitInv, TypeOK', DeadAwake, OneHeld, LightSleep, GoodHands,
         NEW t \in Thread, Running(t), pc[t].at = "user", NEW m \in Mutex, owner[m] = t,
         owner' = [owner EXCEPT ![m] = NoThread], pri' = UnlockPri(t, m),
         \A n \in Mutex : queue'[n] = UnlockQueue(m)[n],
         \A x \in Thread \ {t} : pc'[x] = pc[x],
         \A x \in Thread \ {t} : state'[x] = Awake(Heir(m))[x],
         \A x \in Thread \ {t} : sleepReason'[x] = IF x \in Heir(m) THEN "NONE" ELSE sleepReason[x],
         \A x \in Thread \ {t} : wakeReason'[x] = IF x \in Heir(m) THEN "DONE" ELSE wakeReason[x]
  PROVE  GoodHands'
<1>1. TypeOK /\ Mutex \subseteq Queues /\ DOMAIN queue = Queues
  BY DEF WaitInv, TypeOK, Queues
<1>2. \A n \in Mutex : t \notin ToSet(queue[n])
  BY <1>1, RunningNotQueued DEF WaitInv
<1>3. ASSUME NEW h \in Heir(m)
      PROVE  /\ h \in Thread \ {t} /\ h \in ToSet(queue[m]) /\ h = Head(queue[m])
             /\ queue[m] # <<>> /\ OwnsNone(h) /\ \A n \in Mutex : ~OnTheWay(h, n)
             /\ \A n \in Mutex \ {m} : h \notin ToSet(queue[n])
             /\ OnTheWay(h, m)' /\ Ready(h)'
  <2>1. queue[m] \in Seq(Thread) /\ queue[m] # <<>> /\ h = Head(queue[m])
    BY <1>1, <1>3 DEF TypeOK, Heir
  <2>2. h \in ToSet(queue[m]) /\ h \in Thread \ {t}
    BY <1>2, <2>1, TailProperties, MembersAreThreads
  <2>3. /\ "SLEEPING" \in state[h] /\ Waits(h, m)
        /\ \A n \in Mutex \ {m} : h \notin ToSet(queue[n])
    BY <1>1, <2>2 DEF WaitInv, QueueOK, OnQueue, Queues
  <2>4. state[h] = {"SLEEPING"}
    BY <2>2, <2>3 DEF LightSleep
  <2>5. state'[h] = {}
    BY <1>3, <2>2, <2>4 DEF Awake
  <2>6. pc[h].at \in {"lock", "relocking"} /\ pc[h].mx = m /\ sleepReason[h] = "WAIT"
    BY <2>3 DEF Waits
  <2>7. OwnsNone(h)
    BY <2>2, <2>6 DEF OneHeld, OwnsNone, Outside
  <2>8. OnTheWay(h, m)' /\ Ready(h)'
    BY <1>3, <2>2, <2>5, <2>6 DEF OnTheWay, Ready, Dead
  <2>9. \A n \in Mutex : ~OnTheWay(h, n)
    BY <2>6 DEF OnTheWay
  <2> QED BY <2>1, <2>2, <2>3, <2>7, <2>8, <2>9
<1>4. \A x \in Thread \ {t} : x \notin Heir(m) => pri'[x] = pri[x]
  BY DEF UnlockPri
<1>5. ASSUME NEW n \in Mutex \ {m} PROVE InGoodHands(n)'
  <2>1. queue'[n] = queue[n] /\ owner'[n] = owner[n] /\ owner[n] # t
    BY <1>1 DEF UnlockQueue, TypeOK, OneHeld
  <2>2. \A x \in Thread : \/ pri'[x].cur = pri[x].cur
                          \/ owner[n] # x /\ x \notin ToSet(queue'[n]) /\ ~OnTheWay(x, n)
    BY <1>2, <1>3, <1>4, <2>1 DEF OwnsNone, OnTheWay
  <2>3. ASSUME NEW x \in Thread, OnTheWay(x, n), Ready(x) PROVE OnTheWay(x, n)' /\ Ready(x)'
    <3>1. x # t /\ x \notin Heir(m)
      BY <1>3, <2>3 DEF OnTheWay
    <3>2. state'[x] = {}
      BY <2>3, <3>1 DEF Awake, Ready
    <3>3. SameWay(x)
      BY <3>1, <3>2 DEF SameWay, Dead
    <3> QED BY <2>3, <3>2, <3>3, SameWayKept DEF Ready
  <2> QED BY <1>1, <2>1, <2>2, <2>3, LeftInGoodHands DEF GoodHands
<1>6. InGoodHands(m)'
  <2>1. owner'[m] = NoThread
    BY <1>1 DEF TypeOK
  <2> SUFFICES ASSUME Protocol[m] = "INHERIT", queue'[m] # <<>>
               PROVE  \E h \in Thread : Heads(h, m)'
    BY <2>1 DEF InGoodHands, LeftFree
  <2>2. queue[m] # <<>> /\ queue'[m] = Tail(queue[m]) /\ queue[m] \in Seq(Thread)
    BY <1>1 DEF UnlockQueue, TypeOK
  <2>3. PICK h : h = Head(queue[m])
    OBVIOUS
  <2>4. h \in Heir(m)
    BY <2>2, <2>3 DEF Heir
  <2>5. h \in Thread \ {t} /\ OnTheWay(h, m)' /\ Ready(h)'
    BY <1>3, <2>4
  <2>6. ASSUME NEW y \in ToSet(Tail(queue[m])) PROVE pri'[h].cur <= pri'[y].cur
    <3>1. y \in ToSet(queue[m]) /\ y \in Thread /\ y # t /\ y # h
      <4>1. NoDuplicates(queue[m])
        BY <1>1 DEF WaitInv, QueueOK
      <4> QED BY <1>2, <2>2, <2>3, <4>1, TailProperties, MembersAreThreads
    <3>2. pri[h].cur <= pri[y].cur
      <4>1. Sorted(queue[m], Cur(pri))
        BY <1>1 DEF WaitInv, QueuesSorted
      <4>2. PICK j \in DOMAIN queue[m] : queue[m][j] = y
        BY <3>1 DEF ToSet
      <4>3. Len(queue[m]) \in Nat /\ DOMAIN queue[m] = 1 .. Len(queue[m]) /\ h = queue[m][1]
        BY <2>2, <2>3, LenProperties
      <4>4. 1 \in DOMAIN queue[m] /\ 1 < j
        BY <3>1, <4>2, <4>3
      <4>5. Cur(pri)[queue[m][1]] <= Cur(pri)[queue[m][j]]
        BY <4>1, <4>2, <4>4 DEF Sorted
      <4> QED BY <2>5, <3>1, <4>2, <4>3, <4>5 DEF Cur
    <3>3. pri'[y] = pri[y]
      BY <1>4, <2>3, <3>1 DEF Heir
    <3>4. pri'[h].cur <= pri[h].cur
      <4>1. pri'[h] = RelayPriority(t, m, h)
        BY <2>4, <2>5 DEF UnlockPri
      <4>2. pri[h] \in PriorityRecord /\ pri[h].cur \in Int /\ pri[t].cur \in Int
        BY <1>1, <2>5, CurInt DEF TypeOK
      <4> QED BY <4>1, <4>2 DEF RelayPriority, Inherit, PriorityRecord
    <3>5. pri[h].cur \in Int /\ pri[y].cur \in Int /\ pri'[h].cur \in Int
      <4>1. pri'[h] \in PriorityRecord
        BY <2>5 DEF TypeOK
      <4>2. pri'[h].cur \in Int
        BY <4>1, PriorityAssumption DEF PriorityRecord, Priority
      <4> QED BY <1>1, <2>5, <3>1, <4>2, CurInt
    <3> QED BY <3>2, <3>3, <3>4, <3>5
  <2> QED BY <2>2, <2>5, <2>6 DEF Heads, Leads
<1> QED BY <1>5, <1>6 DEF GoodHands

LEMMA GoodHandsStep ==
  ASSUME MaxHeld = 1, Calls \cap {"kill", "suspend", "setpriority"} = {},
         FlatInv, [Next]_vars
  PROVE  GoodHands'
<1> USE DEF FlatInv
<1>1. TypeOK /\ TypeOK' /\ DOMAIN queue = Queues /\ Mutex \subseteq Queues
  BY TypeStep DEF WaitInv, TypeOK, Queues
(* Only t changes: it is on no way, keeps its priority or is of no concern *)
(* to any mutex.                                                           *)
<1>2. ASSUME NEW t \in Thread, \A m \in Mutex : ~OnTheWay(t, m),
             UNCHANGED <<queue, owner>>,
             pri'[t].cur = pri[t].cur \/ (OwnsNone(t) /\ Running(t)),
             \A x \in Thread \ {t} : /\ pc'[x] = pc[x] /\ sleepReason'[x] = sleepReason[x]
                                     /\ wakeReason'[x] = wakeReason[x] /\ state'[x] = state[x]
                                     /\ pri'[x] = pri[x]
      PROVE  GoodHands'
  <2>1. \A x \in Thread \ {t} : SameWay(x) /\ (Ready(x) => Ready(x)')
    BY <1>2 DEF SameWay, Dead, Ready
  <2>2. Running(t) => \A m \in Mutex : t \notin ToSet(queue[m])
    BY <1>1, RunningNotQueued DEF WaitInv
  <2>3. \A x \in Thread :
          \/ pri'[x].cur = pri[x].cur
          \/ \A m \in Mutex : owner[m] # x /\ x \notin ToSet(queue[m]) /\ ~OnTheWay(x, m)
    BY <1>2, <2>2 DEF OwnsNone
  <2> QED BY <1>1, <1>2, <2>1, <2>3, StillGood
<1>3. ASSUME NEW t \in Thread, \A m \in Mutex : ~OnTheWay(t, m),
             UNCHANGED <<queue, owner, pri>>,
             \A x \in Thread \ {t} : /\ pc'[x] = pc[x] /\ sleepReason'[x] = sleepReason[x]
                                     /\ wakeReason'[x] = wakeReason[x] /\ state'[x] = state[x]
      PROVE  GoodHands'
  <2>1. \A x \in Thread \ {t} : SameWay(x) /\ (Ready(x) => Ready(x)')
    BY <1>3 DEF SameWay, Dead, Ready
  <2> QED BY <1>1, <1>3, <2>1, StillGood
<1>4. ASSUME UNCHANGED <<pc, sleepReason, wakeReason, queue, state, owner, pri>>
      PROVE  GoodHands'
  <2>1. \A x \in Thread : SameWay(x) /\ (Ready(x) => Ready(x)')
    BY <1>4 DEF SameWay, Dead, Ready
  <2> QED BY <1>1, <1>4, <2>1, StillGood
<1>5. ASSUME NEW t \in Thread, \A m \in Mutex : ~OnTheWay(t, m), ExitNow(t)
      PROVE  GoodHands'
  <2>1. \A x \in Thread \ {t} : state'[x] = state[x]
    BY <1>1, <1>5 DEF ExitNow, TypeOK
  <2>2. UNCHANGED <<queue, owner, pc, sleepReason, wakeReason, pri>>
    BY <1>5 DEF ExitNow
  <2> QED BY <1>3, <1>5, <2>1, <2>2
<1>6. ASSUME NEW x \in Thread, NEW q \in Queues
      PROVE  ToSet(Unlinked(x)[q]) \subseteq ToSet(queue[q])
  <2>1. queue[q] \in Seq(Thread) /\ Unlinked(x)[q] = remove(queue[q], x)
    BY <1>1 DEF Unlinked, TypeOK, Queues
  <2> QED BY <2>1, RemoveProperties
<1>7. ASSUME NEW x \in Thread, sleepReason[x] # "NONE", NEW reason, Wake({x}, reason),
             queue' = Unlinked(x), UNCHANGED <<owner, pc, pri>>
      PROVE  GoodHands'
  BY <1>1, <1>6, <1>7, WakeGood
<1>8. ASSUME NEW q \in Queues, NEW x \in ToSet(queue[q]) PROVE sleepReason[x] # "NONE"
  <2>1. x \in Thread
    BY <1>8, Waiter
  <2>2. Waits(x, q)
    BY <1>1, <1>8, <2>1 DEF WaitInv, QueueOK, OnQueue
  <2> QED BY <2>2 DEF Waits
<1>9. ASSUME NEW c \in Cond, SignalOne(c) PROVE GoodHands'
  <2>1. /\ c \in Queues /\ queue[c] # <<>> /\ queue' = [queue EXCEPT ![c] = Tail(@)]
        /\ Wake({Head(queue[c])}, "DONE") /\ UNCHANGED <<owner, pc, pri>>
    BY <1>9 DEF SignalOne, Queues
  <2>2. queue[c] \in Seq(Thread)
    BY <1>1, <2>1 DEF TypeOK, Queues
  <2>3. sleepReason[Head(queue[c])] # "NONE"
    BY <1>8, <2>1, <2>2, TailProperties
  <2>4. \A m \in Mutex : queue'[m] = queue[m]
    BY <1>1, <2>1, ObjectAssumption
  <2> QED BY <1>1, <2>1, <2>3, <2>4, WakeGood
<1>10. ASSUME NEW r \in Queues, NEW reason, Wake(ToSet(queue[r]), reason),
             queue' = [queue EXCEPT ![r] = <<>>], UNCHANGED <<owner, pc, pri>>
      PROVE  GoodHands'
  <2>1. \A m \in Mutex : ToSet(queue'[m]) \subseteq ToSet(queue[m])
    BY <1>1, <1>10 DEF ToSet
  <2> QED BY <1>1, <1>8, <1>10, <2>1, WakeGood
<1>11. ASSUME NEW t \in Thread, NEW m \in Mutex
       PROVE  /\ Claimed(t, m) \in [Thread -> PriorityRecord]
              /\ Claimed(t, m)[t].cur <= pri[t].cur
              /\ \A x \in Thread \ {t} : Claimed(t, m)[x].cur = pri[x].cur
  <2>1. Claimed(t, m) \in [Thread -> PriorityRecord]
    BY <1>1, ClaimedType
  <2>2. pri[t] \in PriorityRecord /\ Claimed(t, m)[t] = Claim(m, pri[t])
    BY <1>1 DEF Claimed, TypeOK
  <2>3. \A x \in Thread \ {t} : Claimed(t, m)[x] = pri[x]
    BY <1>1 DEF Claimed, TypeOK
  <2> QED BY <2>1, <2>2, <2>3, ClaimUrgent
<1>12. ASSUME NEW t \in Thread, NEW m \in Mutex, Running(t), pc[t].at = "user",
              NEW c \in Cond, NEW reason, Wait(t, c, m, reason)
       PROVE  GoodHands'
  <2>1. /\ owner[m] = t /\ owner' = [owner EXCEPT ![m] = NoThread] /\ pri' = UnlockPri(t, m)
        /\ queue' = [UnlockQueue(m) EXCEPT ![c] = enqueue(@, t, Cur(UnlockPri(t, m)))]
        /\ pc' = [pc EXCEPT ![t] = At("condwait", m)]
    BY <1>12 DEF Wait
  <2>2. DOMAIN UnlockQueue(m) = Queues
    BY <1>1 DEF UnlockQueue
  <2>3. \A n \in Mutex : queue'[n] = UnlockQueue(m)[n]
    BY <1>1, <2>1, <2>2, ObjectAssumption
  <2>4. \A x \in Thread \ {t} : pc'[x] = pc[x]
    BY <1>1, <2>1 DEF TypeOK
  <2>5. \A x \in Thread \ {t} : state'[x] = Awake(Heir(m))[x]
    BY <1>12 DEF Wait, Awake
  <2>6. \A x \in Thread \ {t} : sleepReason'[x] = IF x \in Heir(m) THEN "NONE" ELSE sleepReason[x]
    BY <1>12 DEF Wait
  <2>7. \A x \in Thread \ {t} : wakeReason'[x] = IF x \in Heir(m) THEN "DONE" ELSE wakeReason[x]
    BY <1>12 DEF Wait
  <2> QED BY <1>1, <1>12, <2>1, <2>3, <2>4, <2>5, <2>6, <2>7, UnlockGood
<1>13. CASE UNCHANGED vars \/ Dispatch \/ Timeslice
  BY <1>4, <1>13 DEF vars, Dispatch, DispatchTo, Timeslice
<1>14. ASSUME NEW x \in Thread, TimerAlarm(x) PROVE GoodHands'
  <2>1. CASE sleepReason[x] \in {"DELAY", "TIMEOUT"}
    BY <1>7, <1>14, <2>1 DEF TimerAlarm
  <2>2. CASE sleepReason[x] \notin {"DELAY", "TIMEOUT"}
    BY <1>4, <1>14, <2>2 DEF TimerAlarm
  <2> QED BY <2>1, <2>2
<1>15. ASSUME NEW t \in Thread, MutexStep(t) PROVE GoodHands'
  <2> SUFFICES ASSUME NEW m \in Mutex,
                      Lock(t, m) \/ TryLock(t, m) \/ Unlock(t, m) \/ MutexRelease(t, m)
               PROVE  GoodHands'
    BY <1>15 DEF MutexStep
  <2>1. Running(t) /\ pc[t].at = "user"
    BY DEF Lock, TryLock, Unlock, MutexRelease, Calling
  <2>2. CASE Lock(t, m) \/ TryLock(t, m)
    <3>1. /\ Cardinality(Held(t)) < 1
          /\ Acquire(t, m, Claimed(t, m)) \/ Block(t, m, Claimed(t, m), "lock")
      BY <1>15, <2>2 DEF Lock, TryLock
    <3>2. OwnsNone(t)
      BY <1>1, <3>1, NothingHeld
    <3>3. CASE Acquire(t, m, Claimed(t, m))
      BY <1>1, <1>11, <2>1, <3>2, <3>3, AcquireGood
    <3>4. CASE Block(t, m, Claimed(t, m), "lock")
      BY <1>1, <1>11, <2>1, <3>2, <3>4, BlockGood
    <3> QED BY <3>1, <3>3, <3>4
  <2>3. CASE Unlock(t, m)
    <3>1. /\ owner[m] = t /\ owner' = [owner EXCEPT ![m] = NoThread]
          /\ pri' = UnlockPri(t, m) /\ queue' = UnlockQueue(m)
          /\ pc' = pc /\ state' = Awake(Heir(m))
          /\ \A x \in Thread : sleepReason'[x] = IF x \in Heir(m) THEN "NONE" ELSE sleepReason[x]
          /\ \A x \in Thread : wakeReason'[x] = IF x \in Heir(m) THEN "DONE" ELSE wakeReason[x]
      BY <2>3 DEF Unlock
    <3> QED BY <1>1, <2>1, <3>1, UnlockGood
  <2>4. CASE MutexRelease(t, m)
    BY <1>10, <2>4 DEF MutexRelease, Queues
  <2> QED BY <2>2, <2>3, <2>4
<1>16. ASSUME NEW t \in Thread, CondStep(t) PROVE GoodHands'
  <2> SUFFICES ASSUME NEW c \in Cond,
                      \/ Signal(t, c) \/ Broadcast(t, c)
                      \/ \E m \in Mutex : CondWait(t, c, m) \/ CondTimedWait(t, c, m)
               PROVE  GoodHands'
    BY <1>16 DEF CondStep
  <2>1. CASE Signal(t, c)
    BY <1>9, <2>1 DEF Signal
  <2>2. CASE Broadcast(t, c)
    BY <1>10, <2>2 DEF Broadcast, Queues
  <2>3. ASSUME NEW m \in Mutex, CondWait(t, c, m) \/ CondTimedWait(t, c, m)
        PROVE  GoodHands'
    BY <1>12, <2>3 DEF CondWait, CondTimedWait, Calling
  <2> QED BY <2>1, <2>2, <2>3
<1>17. ASSUME NEW t \in Thread, ThreadStep(t) PROVE GoodHands'
  <2> SUFFICES ASSUME NEW x \in Thread,
                      \/ Suspend(t, x) \/ Resume(t, x) \/ Release(t, x) \/ Kill(t, x)
                      \/ \E p \in Given : SetPriority(t, x, p)
               PROVE  GoodHands'
    BY <1>17 DEF ThreadStep
  <2>1. CASE Resume(t, x)
    <3>1. UNCHANGED <<pc, sleepReason, wakeReason, queue, owner, pri>>
      BY <2>1 DEF Resume
    <3>2. \A y \in Thread : state'[y] \subseteq state[y]
      <4>1. state' = [state EXCEPT ![x] = IF suspendCount[x] = 1 THEN @ \ {"SUSPENDED"} ELSE @]
        BY <2>1 DEF Resume
      <4> QED BY <1>1, <4>1 DEF TypeOK
    <3>3. \A y \in Thread : SameWay(y) /\ (Ready(y) => Ready(y)')
      BY <3>1, <3>2 DEF SameWay, Dead, Ready
    <3> QED BY <1>1, <3>1, <3>3, StillGood
  <2>2. CASE Release(t, x)
    BY <1>7, <2>2 DEF Release
  <2>3. ASSUME Suspend(t, x) \/ Kill(t, x) \/ \E p \in Given : SetPriority(t, x, p) PROVE FALSE
    BY <2>3 DEF Suspend, Kill, SetPriority, Calling
  <2> QED BY <2>1, <2>2, <2>3
<1>18. ASSUME NEW t \in Thread, Continue(t) PROVE GoodHands'
  <2> DEFINE m == pc[t].mx
  <2>1. pc[t].at \notin Outside => m \in Mutex /\ OwnsNone(t)
    BY <1>1 DEF OneHeld, OwnsNone, TypeOK, Place
  <2>2. Running(t)
    BY <1>18 DEF Continue, LockRetry, LockFail, LockExit, CondWakeup, Relock, DelayWakeup
  <2>3. ASSUME NEW label \in {"lock", "relocking"}, NEW pr \in {pri, Claimed(t, m)}, m \in Mutex,
               OwnsNone(t), Acquire(t, m, pr) \/ Block(t, m, pr, label)
        PROVE  GoodHands'
    <3>0. pc[t].mx = m
      OBVIOUS
    <3> HIDE DEF m
    <3>1. /\ pr \in [Thread -> PriorityRecord] /\ pr[t].cur <= pri[t].cur
          /\ \A x \in Thread \ {t} : pr[x].cur = pri[x].cur
      <4>1. CASE pr = pri
        <5>1. pri[t].cur \in Int /\ pri \in [Thread -> PriorityRecord]
          BY <1>1, CurInt DEF TypeOK
        <5> QED BY <4>1, <5>1
      <4>2. CASE pr = Claimed(t, m)
        BY <1>11, <2>3, <4>2
      <4> QED BY <2>3, <4>1, <4>2
    <3>2. CASE Acquire(t, m, pr)
      BY <1>1, <2>2, <2>3, <3>0, <3>1, <3>2, AcquireGood
    <3>3. CASE Block(t, m, pr, label)
      BY <1>1, <2>2, <2>3, <3>0, <3>1, <3>3, BlockGood
    <3> QED BY <2>3, <3>2, <3>3
  <2>4. CASE LockRetry(t)
    <3>1. m \in Mutex /\ OwnsNone(t) /\ pc[t].at \in {"lock", "relocking"}
          /\ (Acquire(t, m, pri) \/ Block(t, m, pri, pc[t].at))
      BY <2>1, <2>4 DEF LockRetry, Outside
    <3> QED BY <2>3, <3>1
  <2>5. CASE Relock(t)
    <3>1. m \in Mutex /\ OwnsNone(t)
          /\ (\/ Acquire(t, m, Claimed(t, m))
              \/ Block(t, m, Claimed(t, m), "relocking"))
      BY <2>1, <2>5 DEF Relock, Outside
    <3> QED BY <2>3, <3>1
  <2>6. CASE LockFail(t)
    <3>1. OwnsNone(t) /\ \A n \in Mutex : ~OnTheWay(t, n)
      BY <2>1, <2>6 DEF LockFail, OnTheWay, Outside
    <3>2. \A x \in Thread \ {t} : pc'[x] = pc[x] /\ pri'[x] = pri[x]
      BY <1>1, <2>6 DEF LockFail, TypeOK
    <3>3. UNCHANGED <<queue, owner, sleepReason, wakeReason, state>>
      BY <2>6 DEF LockFail
    <3> QED BY <1>2, <2>2, <3>1, <3>2, <3>3
  <2>7. CASE LockExit(t)
    BY <1>5, <2>7 DEF LockExit, OnTheWay
  <2>8. CASE CondWakeup(t) \/ DelayWakeup(t)
    <3>1. \A n \in Mutex : ~OnTheWay(t, n)
      BY <2>8 DEF CondWakeup, DelayWakeup, OnTheWay
    <3>2. CASE ExitNow(t)
      BY <1>5, <3>1, <3>2
    <3>3. CASE UNCHANGED <<state, sleepReason, wakeReason, queue, owner, pri>>
               /\ \A x \in Thread \ {t} : pc'[x] = pc[x]
      BY <1>3, <3>1, <3>3
    <3> QED BY <1>1, <2>8, <3>2, <3>3 DEF CondWakeup, DelayWakeup, TypeOK
  <2> QED BY <1>18, <2>4, <2>5, <2>6, <2>7, <2>8 DEF Continue
<1>19. ASSUME NEW t \in Thread, Delay(t) PROVE GoodHands'
  <2>1. \A n \in Mutex : ~OnTheWay(t, n)
    BY <1>19 DEF Delay, Calling, OnTheWay
  <2>2. /\ UNCHANGED <<queue, owner, pri>> /\ pc' = [pc EXCEPT ![t] = At("delay", NoMutex)]
        /\ \A x \in Thread \ {t} : /\ sleepReason'[x] = sleepReason[x]
                                   /\ wakeReason'[x] = wakeReason[x] /\ state'[x] = state[x]
    BY <1>1, <1>19 DEF Delay, Sleep, TypeOK
  <2>3. \A x \in Thread \ {t} : pc'[x] = pc[x]
    BY <1>1, <2>2 DEF TypeOK
  <2> QED BY <1>3, <2>1, <2>2, <2>3
<1>20. ASSUME NEW t \in Thread, NEW m \in Mutex, CondTimedWaitPast(t, m) PROVE GoodHands'
  <2>1. /\ Running(t) /\ pc[t].at = "user" /\ owner[m] = t /\ pri' = UnlockPri(t, m)
        /\ owner' = [owner EXCEPT ![m] = NoThread] /\ queue' = UnlockQueue(m)
        /\ pc' = [pc EXCEPT ![t] = At("condwait", m)] /\ state' = Awake(Heir(m))
    BY <1>20 DEF CondTimedWaitPast, Calling
  <2>2. \A x \in Thread \ {t} : sleepReason'[x] = IF x \in Heir(m) THEN "NONE" ELSE sleepReason[x]
    BY <1>20 DEF CondTimedWaitPast
  <2>3. \A x \in Thread \ {t} : wakeReason'[x] = IF x \in Heir(m) THEN "DONE" ELSE wakeReason[x]
    BY <1>20 DEF CondTimedWaitPast
  <2>4. \A x \in Thread \ {t} : pc'[x] = pc[x]
    BY <1>1, <2>1 DEF TypeOK
  <2> QED BY <1>1, <2>1, <2>2, <2>3, <2>4, UnlockGood
<1>21. ASSUME NEW t \in Thread, Exit(t) PROVE GoodHands'
  <2>1. \A n \in Mutex : ~OnTheWay(t, n)
    BY <1>21 DEF Exit, Calling, OnTheWay
  <2> QED BY <1>5, <1>21, <2>1 DEF Exit
<1> QED
  BY <1>9, <1>13, <1>14, <1>15, <1>16, <1>17, <1>18, <1>19, <1>20, <1>21
  DEF Next, Dsr, DsrSignal

LEMMA FlatInit == Init => FlatInv
<1> SUFFICES ASSUME Init PROVE FlatInv
  OBVIOUS
<1>1. WaitInv
  BY WaitInit
<1>2. MostUrgentRuns
  BY DEF Init, MostUrgentRuns, Unsettled
<1>3. DeadAwake /\ LightSleep
  BY DEF Init, DeadAwake, Dead, LightSleep
<1>4. \A m \in Mutex : owner[m] = NoThread /\ queue[m] = <<>>
  BY DEF Init
<1>5. OneHeld
  BY <1>4, NoThreadAssumption DEF OneHeld
<1>6. GoodHands
  BY <1>4 DEF GoodHands, InGoodHands, LeftFree
<1> QED BY <1>1, <1>2, <1>3, <1>5, <1>6 DEF FlatInv

(* The owner of an inheriting mutex runs at least at the priority of every *)
(* waiter, through every lock, unlock, condition wait, break and timeout,  *)
(* as long as threads hold one mutex at a time and nobody suspends, kills  *)
(* or re-prioritises a thread.                                             *)
THEOREM OwnersInherit ==
  ASSUME MaxHeld = 1, Calls \cap {"kill", "suspend", "setpriority"} = {}
  PROVE  Spec => []NoInversion
<1>1. FlatInv /\ [Next]_vars => FlatInv'
  <2> SUFFICES ASSUME FlatInv, [Next]_vars PROVE FlatInv'
    OBVIOUS
  <2>1. TypeOK /\ WaitInv'
    BY WaitInvStep DEF FlatInv, WaitInv
  <2>2. MostUrgentRuns' /\ DeadAwake'
    BY <2>1, UrgentStep, DeadStep DEF FlatInv
  <2>3. OneHeld' /\ LightSleep'
    BY <2>1, OneHeldStep, LightStep DEF FlatInv
  <2>4. GoodHands'
    BY GoodHandsStep
  <2> QED BY <2>1, <2>2, <2>3, <2>4 DEF FlatInv
<1> QED BY <1>1, FlatInit, FlatInversion, PTL DEF Spec
=============================================================================
