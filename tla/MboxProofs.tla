----------------------------- MODULE MboxProofs -----------------------------
(***************************************************************************)
(* Theorems on Mbox, for any threads, priorities, items and room.          *)
(***************************************************************************)
EXTENDS Mbox, SequenceTheorems, FiniteSetTheorems, WellFoundedInduction, TLAPS

(***************************************************************************)
(* The threads on a queue, whatever their order.                           *)
(***************************************************************************)
Between(q, m, n) == {q[i] : i \in m .. n}

LEMMA SubSeqMembers ==
  ASSUME NEW S, NEW q \in Seq(S), NEW m \in Int, NEW n \in Int, 1 <= m, n <= Len(q)
  PROVE  /\ SubSeq(q, m, n) \in Seq(S) /\ ToSet(SubSeq(q, m, n)) = Between(q, m, n)
         /\ Between(q, m, n) \subseteq ToSet(q)
         /\ NoDuplicates(q) => NoDuplicates(SubSeq(q, m, n))
<1> DEFINE s == SubSeq(q, m, n)
<1>1. Len(q) \in Nat /\ DOMAIN q = 1 .. Len(q)
  BY LenProperties
<1>2. \A i \in m .. n : i \in DOMAIN q
  BY <1>1
<1>3. \A i \in m .. n : q[i] \in S
  BY <1>2, LenProperties
<1>4. /\ s \in Seq(S) /\ Len(s) = (IF m <= n THEN n - m + 1 ELSE 0)
      /\ \A i \in 1 .. n - m + 1 : s[i] = q[m + i - 1]
  BY <1>3, SubSeqProperties
<1>5. DOMAIN s = 1 .. n - m + 1
  <2>1. DOMAIN s = 1 .. Len(s)
    BY <1>4, LenProperties
  <2> QED BY <1>4, <2>1
<1>6. \A i \in DOMAIN s : i \in Int /\ m + i - 1 \in m .. n /\ s[i] = q[m + i - 1]
  BY <1>4, <1>5
<1>7. \A j \in m .. n : j - m + 1 \in DOMAIN s /\ s[j - m + 1] = q[j]
  <2> TAKE j \in m .. n
  <2>1. j - m + 1 \in 1 .. n - m + 1 /\ m + (j - m + 1) - 1 = j
    OBVIOUS
  <2> QED BY <1>4, <1>5, <2>1
<1> HIDE DEF s
<1>8. ToSet(s) = Between(q, m, n)
  <2>1. ToSet(s) \subseteq Between(q, m, n)
    BY <1>6 DEF ToSet, Between
  <2>2. Between(q, m, n) \subseteq ToSet(s)
    BY <1>7 DEF ToSet, Between
  <2> QED BY <2>1, <2>2
<1>9. Between(q, m, n) \subseteq ToSet(q)
  BY <1>2 DEF ToSet, Between
<1>10. ASSUME NoDuplicates(q) PROVE NoDuplicates(s)
  <2> SUFFICES ASSUME NEW i \in DOMAIN s, NEW j \in DOMAIN s, s[i] = s[j] PROVE i = j
    BY DEF NoDuplicates
  <2>1. m + i - 1 = m + j - 1
    BY <1>2, <1>6, <1>10 DEF NoDuplicates
  <2> QED BY <1>6, <2>1
<1> QED BY <1>4, <1>8, <1>9, <1>10 DEF s

LEMMA PartsDiffer ==
  ASSUME NEW S, NEW q \in Seq(S), NoDuplicates(q), NEW n \in Int, NEW m \in Int, n < m, 0 < m
  PROVE  Between(q, 1, n) \cap Between(q, m, Len(q)) = {}
<1> SUFFICES ASSUME NEW i \in 1 .. n, NEW j \in m .. Len(q), q[i] = q[j] PROVE FALSE
  BY DEF Between
<1>1. Len(q) \in Nat /\ DOMAIN q = 1 .. Len(q)
  BY LenProperties
<1>2. i \in DOMAIN q /\ j \in DOMAIN q /\ i < j
  BY <1>1
<1> QED BY <1>1, <1>2 DEF NoDuplicates

LEMMA ConcatMembers ==
  ASSUME NEW S, NEW a \in Seq(S), NEW b \in Seq(S)
  PROVE  /\ a \o b \in Seq(S) /\ ToSet(a \o b) = ToSet(a) \cup ToSet(b)
         /\ NoDuplicates(a) /\ NoDuplicates(b) /\ ToSet(a) \cap ToSet(b) = {} =>
              NoDuplicates(a \o b)
<1> DEFINE s == a \o b
<1>1. /\ Len(a) \in Nat /\ DOMAIN a = 1 .. Len(a) /\ Len(b) \in Nat /\ DOMAIN b = 1 .. Len(b)
  BY LenProperties
<1>2. /\ s \in Seq(S) /\ Len(s) = Len(a) + Len(b)
      /\ \A i \in 1 .. Len(a) + Len(b) : s[i] = IF i <= Len(a) THEN a[i] ELSE b[i - Len(a)]
  BY ConcatProperties
<1>3. DOMAIN s = 1 .. Len(a) + Len(b)
  BY <1>2, LenProperties
<1> HIDE DEF s
<1>4. \A i \in DOMAIN s : /\ i \in Int
                          /\ \/ i \in DOMAIN a /\ s[i] = a[i]
                             \/ i - Len(a) \in DOMAIN b /\ s[i] = b[i - Len(a)]
  BY <1>1, <1>2, <1>3
<1>5. \A i \in DOMAIN a : i \in DOMAIN s /\ s[i] = a[i]
  BY <1>1, <1>2, <1>3
<1>6. \A i \in DOMAIN b : i + Len(a) \in DOMAIN s /\ s[i + Len(a)] = b[i]
  <2> TAKE i \in DOMAIN b
  <2>1. i + Len(a) \in 1 .. Len(a) + Len(b) /\ ~(i + Len(a) <= Len(a)) /\ i + Len(a) - Len(a) = i
    BY <1>1
  <2> QED BY <1>2, <1>3, <2>1
<1>7. ToSet(s) = ToSet(a) \cup ToSet(b)
  <2>1. ToSet(s) \subseteq ToSet(a) \cup ToSet(b)
    BY <1>4 DEF ToSet
  <2>2. ToSet(a) \subseteq ToSet(s)
    BY <1>5 DEF ToSet
  <2>3. ToSet(b) \subseteq ToSet(s)
    BY <1>6 DEF ToSet
  <2> QED BY <2>1, <2>2, <2>3
<1>8. ASSUME NoDuplicates(a), NoDuplicates(b), ToSet(a) \cap ToSet(b) = {}
      PROVE  NoDuplicates(s)
  <2> SUFFICES ASSUME NEW i \in DOMAIN s, NEW j \in DOMAIN s, s[i] = s[j] PROVE i = j
    BY DEF NoDuplicates
  <2>1. i \in Int /\ j \in Int /\ Len(a) \in Int
    BY <1>1, <1>4
  <2>2. \A k \in DOMAIN a, l \in DOMAIN b : a[k] # b[l]
    BY <1>8 DEF ToSet
  <2>3. i - Len(a) = j - Len(a) => i = j
    BY <2>1
  <2> QED BY <1>4, <1>8, <2>2, <2>3 DEF NoDuplicates
<1> QED BY <1>2, <1>7, <1>8 DEF s

LEMMA StopsInQueue ==
  ASSUME NEW S, NEW q \in Seq(S), NEW p
  PROVE  LastNotBelow(q, p, prio) \in 0 .. Len(q)
<1> DEFINE higher == {i \in DOMAIN q : prio[q[i]] <= p}
           R == OpToRel(<, Nat)
           gaps == {Len(q) - i : i \in higher}
<1>1. Len(q) \in Nat /\ DOMAIN q = 1 .. Len(q)
  BY LenProperties
<1>2. higher \subseteq 1 .. Len(q)
  BY <1>1
<1>3. IsWellFoundedOn(R, Nat)
  BY NatLessThanWellFounded
<1>4. \A x, y \in Nat : x < y => <<x, y>> \in R
  BY DEF OpToRel
<1>5. CASE higher = {}
  BY <1>1, <1>5 DEF LastNotBelow
<1>6. CASE higher # {}
  <2> HIDE DEF R
  <2>1. \A i \in higher : i \in Int /\ Len(q) - i \in Nat
    <3> HIDE DEF higher
    <3> QED BY <1>1, <1>2
  <2>2. gaps \subseteq Nat /\ gaps # {}
    BY <1>6, <2>1
  <2>3. \E g \in gaps : \A h \in gaps : ~(<<h, g>> \in R)
    <3> HIDE DEF gaps
    <3> QED BY <1>3, <2>2, WFMin
  <2>4. PICK k \in higher : \A j \in higher : ~(<<Len(q) - j, Len(q) - k>> \in R)
    BY <2>3
  <2>5. \A j \in higher : j <= k
    <3> SUFFICES ASSUME NEW j \in higher PROVE j <= k
      OBVIOUS
    <3>1. ~(Len(q) - j < Len(q) - k)
      BY <1>4, <2>1, <2>4
    <3> HIDE DEF higher
    <3> QED BY <1>1, <2>1, <3>1
  <2> DEFINE l == CHOOSE i \in higher : \A j \in higher : j <= i
  <2>6. l \in higher
    <3> HIDE DEF higher
    <3> QED BY <2>5
  <2>7. LastNotBelow(q, p, prio) = l
    BY <1>6 DEF LastNotBelow
  <2> HIDE DEF l, higher
  <2> QED BY <1>1, <1>2, <2>6, <2>7
<1> QED BY <1>5, <1>6

(* A thread enters a queue: nobody else comes or goes, and nobody is there *)
(* twice.                                                                  *)
LEMMA EnqueueMembers ==
  ASSUME NEW S, NEW q \in Seq(S), NEW t \in S
  PROVE  /\ enqueue(q, t, prio) \in Seq(S)
         /\ ToSet(enqueue(q, t, prio)) = ToSet(q) \cup {t}
         /\ NoDuplicates(q) /\ t \notin ToSet(q) => NoDuplicates(enqueue(q, t, prio))
<1> DEFINE k == LastNotBelow(q, prio[t], prio)
           front == SubSeq(q, 1, k)
           one == <<t>>
           back == SubSeq(q, k + 1, Len(q))
<1>1. k \in 0 .. Len(q) /\ Len(q) \in Nat /\ DOMAIN q = 1 .. Len(q)
  BY StopsInQueue, LenProperties
<1>2. enqueue(q, t, prio) = (front \o one) \o back
  <2>1. (k + 1) - 1 = k
    BY <1>1
  <2> QED BY <2>1 DEF enqueue, InsertAt
<1> HIDE DEF k
<1>3. /\ k \in Int /\ k + 1 \in Int /\ 1 \in Int /\ Len(q) \in Int /\ 1 <= 1 /\ 1 <= k + 1
      /\ k <= Len(q) /\ Len(q) <= Len(q) /\ k < k + 1 /\ 0 < k + 1
  BY <1>1
<1>4. /\ front \in Seq(S) /\ ToSet(front) = Between(q, 1, k) /\ ToSet(front) \subseteq ToSet(q)
      /\ NoDuplicates(q) => NoDuplicates(front)
  BY <1>3, SubSeqMembers
<1>5. /\ back \in Seq(S) /\ ToSet(back) = Between(q, k + 1, Len(q)) /\ ToSet(back) \subseteq ToSet(q)
      /\ NoDuplicates(q) => NoDuplicates(back)
  BY <1>3, SubSeqMembers
<1>6. NoDuplicates(q) => ToSet(front) \cap ToSet(back) = {}
  BY <1>3, <1>4, <1>5, PartsDiffer
<1>7. ToSet(q) \subseteq ToSet(front) \cup ToSet(back)
  <2>1. \A i \in DOMAIN q : i \in 1 .. k \/ i \in k + 1 .. Len(q)
    BY <1>1, <1>3
  <2> HIDE DEF front, back
  <2> QED BY <1>4, <1>5, <2>1 DEF ToSet, Between
<1>8. one \in Seq(S) /\ ToSet(one) = {t} /\ NoDuplicates(one)
  BY DEF ToSet, NoDuplicates
<1> HIDE DEF front, one, back
<1>9. /\ front \o one \in Seq(S) /\ ToSet(front \o one) = ToSet(front) \cup {t}
      /\ NoDuplicates(q) /\ t \notin ToSet(q) => NoDuplicates(front \o one)
  BY <1>4, <1>8, ConcatMembers
<1> DEFINE most == front \o one
<1> HIDE DEF most
<1>10. /\ most \o back \in Seq(S) /\ ToSet(most \o back) = ToSet(most) \cup ToSet(back)
       /\ NoDuplicates(most) /\ NoDuplicates(back) /\ ToSet(most) \cap ToSet(back) = {} =>
            NoDuplicates(most \o back)
  BY <1>5, <1>9, ConcatMembers DEF most
<1> QED BY <1>2, <1>4, <1>5, <1>6, <1>7, <1>9, <1>10 DEF most

(* A thread leaves a queue.                                                *)
LEMMA RemoveMembers ==
  ASSUME NEW S, NEW q \in Seq(S), NEW t
  PROVE  /\ remove(q, t) \in Seq(S)
         /\ ToSet(remove(q, t)) \subseteq ToSet(q)
         /\ NoDuplicates(q) => /\ NoDuplicates(remove(q, t))
                               /\ t \notin ToSet(remove(q, t))
<1>1. CASE t \notin ToSet(q)
  BY <1>1 DEF remove
<1>2. CASE t \in ToSet(q)
  <2> DEFINE k == CHOOSE i \in DOMAIN q : q[i] = t
             front == SubSeq(q, 1, k - 1)
             back == SubSeq(q, k + 1, Len(q))
  <2>1. k \in DOMAIN q /\ q[k] = t
    BY <1>2 DEF ToSet
  <2>2. remove(q, t) = front \o back
    BY <1>2 DEF remove, RemoveAt
  <2>3. Len(q) \in Nat /\ DOMAIN q = 1 .. Len(q)
    BY LenProperties
  <2> HIDE DEF k
  <2>4. /\ k - 1 \in Int /\ k + 1 \in Int /\ 1 \in Int /\ Len(q) \in Int /\ 1 <= 1 /\ 1 <= k + 1
        /\ k - 1 <= Len(q) /\ Len(q) <= Len(q) /\ k - 1 < k + 1 /\ 0 < k + 1
    BY <2>1, <2>3
  <2>5. /\ front \in Seq(S) /\ ToSet(front) = Between(q, 1, k - 1) /\ ToSet(front) \subseteq ToSet(q)
        /\ NoDuplicates(q) => NoDuplicates(front)
    BY <2>4, SubSeqMembers
  <2>6. /\ back \in Seq(S) /\ ToSet(back) = Between(q, k + 1, Len(q)) /\ ToSet(back) \subseteq ToSet(q)
        /\ NoDuplicates(q) => NoDuplicates(back)
    BY <2>4, SubSeqMembers
  <2>7. NoDuplicates(q) => ToSet(front) \cap ToSet(back) = {}
    BY <2>4, <2>5, <2>6, PartsDiffer
  <2>8. ASSUME NoDuplicates(q) PROVE t \notin Between(q, 1, k - 1) \cup Between(q, k + 1, Len(q))
    <3>1. \A i \in DOMAIN q : i # k => q[i] # t
      BY <2>1, <2>8 DEF NoDuplicates
    <3>2. \A i \in (1 .. k - 1) \cup (k + 1 .. Len(q)) : i \in DOMAIN q /\ i # k
      BY <2>1, <2>3
    <3> QED BY <3>1, <3>2 DEF Between
  <2> HIDE DEF front, back
  <2>9. /\ front \o back \in Seq(S) /\ ToSet(front \o back) = ToSet(front) \cup ToSet(back)
        /\ NoDuplicates(front) /\ NoDuplicates(back) /\ ToSet(front) \cap ToSet(back) = {} =>
             NoDuplicates(front \o back)
    BY <2>5, <2>6, ConcatMembers
  <2> QED BY <2>2, <2>5, <2>6, <2>7, <2>8, <2>9
<1> QED BY <1>1, <1>2

(* The head of a queue leaves it.                                          *)
LEMMA TailMembers ==
  ASSUME NEW S, NEW q \in Seq(S), q # <<>>
  PROVE  /\ Head(q) \in ToSet(q) /\ ToSet(Tail(q)) \subseteq ToSet(q)
         /\ NoDuplicates(q) => NoDuplicates(Tail(q)) /\ Head(q) \notin ToSet(Tail(q))
<1>1. /\ Len(q) \in Nat \ {0} /\ DOMAIN q = 1 .. Len(q) /\ Head(q) = q[1]
  BY EmptySeq, LenProperties
<1>2. /\ Tail(q) \in Seq(S) /\ Len(Tail(q)) = Len(q) - 1
      /\ \A i \in 1 .. Len(Tail(q)) : Tail(q)[i] = q[i + 1]
  BY HeadTailProperties
<1>3. DOMAIN Tail(q) = 1 .. Len(q) - 1
  BY <1>2, LenProperties
<1>4. \A i \in DOMAIN Tail(q) : i \in Int /\ i > 0 /\ i + 1 \in DOMAIN q /\ Tail(q)[i] = q[i + 1]
  BY <1>1, <1>2, <1>3
<1>5. Head(q) \in ToSet(q) /\ 1 \in DOMAIN q
  BY <1>1 DEF ToSet
<1>6. ToSet(Tail(q)) \subseteq ToSet(q)
  BY <1>4 DEF ToSet
<1>7. ASSUME NoDuplicates(q) PROVE NoDuplicates(Tail(q)) /\ Head(q) \notin ToSet(Tail(q))
  <2>1. \A i, j \in DOMAIN q : q[i] = q[j] => i = j
    BY <1>7 DEF NoDuplicates
  <2>2. NoDuplicates(Tail(q))
    BY <1>4, <2>1 DEF NoDuplicates
  <2>3. \A i \in DOMAIN Tail(q) : Tail(q)[i] # Head(q)
    BY <1>1, <1>4, <1>5, <2>1
  <2> QED BY <2>2, <2>3 DEF ToSet
<1> QED BY <1>5, <1>6, <1>7

(***************************************************************************)
(* The calls.                                                              *)
(***************************************************************************)

Fields == [Thread -> [sleep : SleepReason, wake : WakeReason, timer : BOOLEAN]]

(* The threads on a queue are in the call it belongs to and have not been  *)
(* woken for it; a thread that waits to put has an item.                   *)
Waiters ==
  /\ NoDuplicates(get_threadq) /\ NoDuplicates(put_threadq)
  /\ \A t \in ToSet(get_threadq) : t \in Thread /\ call[t] = "get" /\ th[t].wake # "DONE"
  /\ \A t \in ToSet(put_threadq) : t \in Thread /\ call[t] = "put" /\ th[t].wake # "DONE"
  /\ \A t \in Thread : th[t].wake = "DONE" => th[t].sleep = "NONE"
  /\ \A t \in Thread : IF call[t] = "put" THEN given[t] \in Item ELSE given[t] = Null

MboxInv == TypeOK /\ Waiters

(* T is th after a thread has changed its own fields.                      *)
OfCaller(t, T) ==
  /\ T \in Fields
  /\ \A s \in Thread \ {t} : T[s] = th[s]
  /\ T[t].wake = "DONE" => T[t].sleep = "NONE"

Outside(t) == t \notin ToSet(get_threadq) /\ t \notin ToSet(put_threadq)

LEMMA FieldsTyped ==
  ASSUME NEW r \in [sleep : SleepReason, wake : WakeReason, timer : BOOLEAN]
  PROVE  /\ \A why \in WakeReason : WokenFor(r, why) \in [sleep : SleepReason, wake : WakeReason, timer : BOOLEAN]
         /\ \A why \in SleepReason : SleepingFor(r, why) \in [sleep : SleepReason, wake : WakeReason, timer : BOOLEAN]
         /\ TimerSet(r) \in [sleep : SleepReason, wake : WakeReason, timer : BOOLEAN]
         /\ Ended(r) \in [sleep : SleepReason, wake : WakeReason, timer : BOOLEAN]
         /\ Ended(r).wake # "DONE"
  BY DEF WokenFor, SleepingFor, TimerSet, Ended, SleepReason, WakeReason

LEMMA CallerTyped ==
  ASSUME MboxInv, NEW t \in Thread
  PROVE  /\ OfCaller(t, th)
         /\ \A limit \in BOOLEAN : OfCaller(t, Limited(t, limit))
<1>1. th \in Fields
  BY DEF MboxInv, TypeOK, Fields
<1>2. OfCaller(t, th)
  BY <1>1 DEF MboxInv, Waiters, OfCaller
<1>3. TimerSet(th[t]) \in [sleep : SleepReason, wake : WakeReason, timer : BOOLEAN]
  BY <1>1, FieldsTyped DEF Fields
<1>4. [th EXCEPT ![t] = TimerSet(@)] \in Fields
  BY <1>1, <1>3 DEF Fields
<1>5. OfCaller(t, [th EXCEPT ![t] = TimerSet(@)])
  BY <1>1, <1>4 DEF OfCaller, TimerSet, Fields
<1> QED BY <1>2, <1>5 DEF Limited

LEMMA WaiterWoken ==
  ASSUME NEW q \in Seq(Thread), NoDuplicates(q), NEW T \in Fields,
         NEW w, w = wakeup_waiter(q, T)
  PROVE  /\ w.queue \in Seq(Thread) /\ NoDuplicates(w.queue)
         /\ ToSet(w.queue) \subseteq ToSet(q)
         /\ w.threads \in Fields
         /\ q = <<>> => w.queue = <<>> /\ w.threads = T
         /\ q # <<>> =>
              /\ Head(q) \in ToSet(q) /\ Head(q) \in Thread
              /\ Head(q) \notin ToSet(w.queue)
              /\ w.threads[Head(q)].wake = "DONE" /\ w.threads[Head(q)].sleep = "NONE"
              /\ \A s \in Thread \ {Head(q)} : w.threads[s] = T[s]
<1>1. CASE q = <<>>
  BY <1>1 DEF wakeup_waiter
<1>2. CASE q # <<>>
  <2>1. /\ Head(q) \in ToSet(q) /\ Head(q) \in Thread /\ Tail(q) \in Seq(Thread)
        /\ ToSet(Tail(q)) \subseteq ToSet(q)
        /\ NoDuplicates(Tail(q)) /\ Head(q) \notin ToSet(Tail(q))
    BY <1>2, TailMembers, HeadTailProperties
  <2>2. w.queue = Tail(q) /\ w.threads = [T EXCEPT ![Head(q)] = WokenFor(T[Head(q)], "DONE")]
    BY <1>2 DEF wakeup_waiter
  <2>3. T[Head(q)] \in [sleep : SleepReason, wake : WakeReason, timer : BOOLEAN]
    BY <2>1 DEF Fields
  <2>4. WokenFor(T[Head(q)], "DONE") \in [sleep : SleepReason, wake : WakeReason, timer : BOOLEAN]
    BY <2>3, FieldsTyped DEF WakeReason
  <2>5. w.threads \in Fields
    BY <2>1, <2>2, <2>4 DEF Fields
  <2>6. WokenFor(T[Head(q)], "DONE").wake = "DONE" /\ WokenFor(T[Head(q)], "DONE").sleep = "NONE"
    BY <2>3 DEF WokenFor
  <2>7. w.threads[Head(q)] = WokenFor(T[Head(q)], "DONE")
    BY <2>1, <2>2 DEF Fields
  <2>8. \A s \in Thread \ {Head(q)} : w.threads[s] = T[s]
    BY <2>2 DEF Fields
  <2> QED BY <1>2, <2>1, <2>2, <2>5, <2>6, <2>7, <2>8
<1> QED BY <1>1, <1>2

LEMMA EndedTyped ==
  ASSUME NEW t \in Thread, NEW T, OfCaller(t, T)
  PROVE  /\ [T EXCEPT ![t] = Ended(T[t])] \in Fields
         /\ [T EXCEPT ![t] = Ended(T[t])][t].wake # "DONE"
         /\ \A s \in Thread \ {t} : [T EXCEPT ![t] = Ended(T[t])][s] = th[s]
<1>1. T[t] \in [sleep : SleepReason, wake : WakeReason, timer : BOOLEAN]
  BY DEF OfCaller, Fields
<1>2. Ended(T[t]) \in [sleep : SleepReason, wake : WakeReason, timer : BOOLEAN]
      /\ Ended(T[t]).wake # "DONE"
  BY <1>1, FieldsTyped
<1> QED BY <1>2 DEF OfCaller, Fields

(* The calling thread has left: no item, in no call.                       *)
LEMMA LeavesTyped ==
  ASSUME TypeOK, NEW t \in Thread, Leaves(t)
  PROVE  /\ call' \in [Thread -> {"none", "get", "put"}] /\ timed' \in [Thread -> BOOLEAN]
         /\ given' \in [Thread -> Item \cup {Null}]
         /\ call'[t] = "none" /\ given'[t] = Null
         /\ \A s \in Thread \ {t} : call'[s] = call[s] /\ given'[s] = given[s]
  BY DEF TypeOK, Leaves

LEMMA IndexTyped ==
  ASSUME TypeOK
  PROVE  /\ Following(base) \in 0 .. Size - 1
         /\ count < Size => In \in 0 .. Size - 1
  BY SizeAssumption DEF TypeOK, Following, In

(* Each stretch of a call keeps the invariant.                             *)
LEMMA TakeKeeps ==
  ASSUME MboxInv, NEW t \in Thread, Outside(t), NEW T, OfCaller(t, T), Take(t, T)
  PROVE  MboxInv'
<1> DEFINE U == [T EXCEPT ![t] = Ended(T[t])]
           w == wakeup_waiter(put_threadq, U)
<1>1. U \in Fields /\ U[t].wake # "DONE" /\ \A s \in Thread \ {t} : U[s] = th[s]
  BY EndedTyped
<1>2. put_threadq \in Seq(Thread) /\ NoDuplicates(put_threadq)
  BY DEF MboxInv, TypeOK, Waiters
<1>3. put_threadq' = w.queue /\ th' = w.threads /\ get_threadq' = get_threadq
  BY DEF Take
<1> HIDE DEF U
<1>4. /\ w.queue \in Seq(Thread) /\ NoDuplicates(w.queue)
      /\ ToSet(w.queue) \subseteq ToSet(put_threadq)
      /\ w.threads \in Fields
      /\ put_threadq = <<>> => w.queue = <<>> /\ w.threads = U
      /\ put_threadq # <<>> =>
           /\ Head(put_threadq) \in ToSet(put_threadq) /\ Head(put_threadq) \in Thread
           /\ Head(put_threadq) \notin ToSet(w.queue)
           /\ w.threads[Head(put_threadq)].wake = "DONE"
           /\ w.threads[Head(put_threadq)].sleep = "NONE"
           /\ \A s \in Thread \ {Head(put_threadq)} : w.threads[s] = U[s]
  BY <1>1, <1>2, WaiterWoken
<1> HIDE DEF w
<1>5. /\ call' \in [Thread -> {"none", "get", "put"}] /\ timed' \in [Thread -> BOOLEAN]
      /\ given' \in [Thread -> Item \cup {Null}]
      /\ call'[t] = "none" /\ given'[t] = Null
      /\ \A s \in Thread \ {t} : call'[s] = call[s] /\ given'[s] = given[s]
  BY LeavesTyped DEF MboxInv, Take
<1>6. TypeOK'
  <2>1. base' \in 0 .. Size - 1
    BY IndexTyped DEF MboxInv, Take
  <2>2. count' \in 0 .. Size
    BY SizeAssumption DEF MboxInv, TypeOK, Take
  <2>3. out' \in Item \cup {Null} /\ itemqueue' = itemqueue /\ exited' = exited
    BY DEF MboxInv, TypeOK, Take
  <2> QED BY <1>2, <1>3, <1>4, <1>5, <2>1, <2>2, <2>3 DEF MboxInv, TypeOK, Fields
<1>7. Waiters'
  <2>1. \A s \in ToSet(get_threadq') :
          s \in Thread /\ call'[s] = "get" /\ th'[s].wake # "DONE"
    <3> SUFFICES ASSUME NEW s \in ToSet(get_threadq)
                 PROVE  s \in Thread /\ call'[s] = "get" /\ th'[s].wake # "DONE"
      BY <1>3
    <3>1. s \in Thread /\ s # t /\ call[s] = "get" /\ th[s].wake # "DONE"
      BY DEF Outside, MboxInv, Waiters
    <3>2. put_threadq # <<>> => s # Head(put_threadq)
      BY <1>4, <3>1 DEF MboxInv, Waiters
    <3> QED BY <1>1, <1>3, <1>4, <1>5, <3>1, <3>2
  <2>2. \A s \in ToSet(put_threadq') :
          s \in Thread /\ call'[s] = "put" /\ th'[s].wake # "DONE"
    <3> SUFFICES ASSUME NEW s \in ToSet(w.queue)
                 PROVE  s \in Thread /\ call'[s] = "put" /\ th'[s].wake # "DONE"
      BY <1>3
    <3>1. s \in Thread /\ s # t /\ call[s] = "put" /\ th[s].wake # "DONE"
      BY <1>4 DEF Outside, MboxInv, Waiters
    <3>2. put_threadq # <<>> => s # Head(put_threadq)
      BY <1>4
    <3> QED BY <1>1, <1>3, <1>4, <1>5, <3>1, <3>2
  <2>3. \A s \in Thread : th'[s].wake = "DONE" => th'[s].sleep = "NONE"
    <3> TAKE s \in Thread
    <3>1. U[s].wake = "DONE" => U[s].sleep = "NONE"
      BY <1>1 DEF MboxInv, Waiters
    <3> QED BY <1>3, <1>4, <3>1
  <2>4. \A s \in Thread : IF call'[s] = "put" THEN given'[s] \in Item ELSE given'[s] = Null
    BY <1>5 DEF MboxInv, Waiters
  <2>5. NoDuplicates(get_threadq) /\ NoDuplicates(w.queue)
    BY <1>4 DEF MboxInv, Waiters
  <2>6. NoDuplicates(get_threadq)' /\ NoDuplicates(put_threadq)'
    BY <1>3, <2>5 DEF NoDuplicates
  <2> QED BY <2>1, <2>2, <2>3, <2>4, <2>6 DEF Waiters, ToSet
<1> QED BY <1>6, <1>7 DEF MboxInv

LEMMA StoreKeeps ==
  ASSUME MboxInv, NEW t \in Thread, NEW x \in Item, Outside(t), NEW T, OfCaller(t, T), Store(t, x, T)
  PROVE  MboxInv'
<1> DEFINE U == [T EXCEPT ![t] = Ended(T[t])]
           w == wakeup_waiter(get_threadq, U)
<1>1. U \in Fields /\ U[t].wake # "DONE" /\ \A s \in Thread \ {t} : U[s] = th[s]
  BY EndedTyped
<1>2. get_threadq \in Seq(Thread) /\ NoDuplicates(get_threadq)
  BY DEF MboxInv, TypeOK, Waiters
<1>3. get_threadq' = w.queue /\ th' = w.threads /\ put_threadq' = put_threadq
  BY DEF Store
<1> HIDE DEF U
<1>4. /\ w.queue \in Seq(Thread) /\ NoDuplicates(w.queue)
      /\ ToSet(w.queue) \subseteq ToSet(get_threadq)
      /\ w.threads \in Fields
      /\ get_threadq = <<>> => w.queue = <<>> /\ w.threads = U
      /\ get_threadq # <<>> =>
           /\ Head(get_threadq) \in ToSet(get_threadq) /\ Head(get_threadq) \in Thread
           /\ Head(get_threadq) \notin ToSet(w.queue)
           /\ w.threads[Head(get_threadq)].wake = "DONE"
           /\ w.threads[Head(get_threadq)].sleep = "NONE"
           /\ \A s \in Thread \ {Head(get_threadq)} : w.threads[s] = U[s]
  BY <1>1, <1>2, WaiterWoken
<1> HIDE DEF w
<1>5. /\ call' \in [Thread -> {"none", "get", "put"}] /\ timed' \in [Thread -> BOOLEAN]
      /\ given' \in [Thread -> Item \cup {Null}]
      /\ call'[t] = "none" /\ given'[t] = Null
      /\ \A s \in Thread \ {t} : call'[s] = call[s] /\ given'[s] = given[s]
  BY LeavesTyped DEF MboxInv, Store
<1>6. TypeOK'
  <2>1. In \in 0 .. Size - 1
    BY IndexTyped DEF MboxInv, Store
  <2>2. itemqueue' = [itemqueue EXCEPT ![In] = x]
    BY DEF Store
  <2>3. itemqueue' \in [0 .. Size - 1 -> Item \cup {Null}]
    BY <2>1, <2>2 DEF MboxInv, TypeOK
  <2>4. count' \in 0 .. Size
    BY SizeAssumption DEF MboxInv, TypeOK, Store
  <2>5. out' = out /\ base' = base /\ exited' = exited
    BY DEF Store
  <2> QED BY <1>2, <1>3, <1>4, <1>5, <2>3, <2>4, <2>5 DEF MboxInv, TypeOK, Fields
<1>7. Waiters'
  <2>1. \A s \in ToSet(put_threadq') :
          s \in Thread /\ call'[s] = "put" /\ th'[s].wake # "DONE"
    <3> SUFFICES ASSUME NEW s \in ToSet(put_threadq)
                 PROVE  s \in Thread /\ call'[s] = "put" /\ th'[s].wake # "DONE"
      BY <1>3
    <3>1. s \in Thread /\ s # t /\ call[s] = "put" /\ th[s].wake # "DONE"
      BY DEF Outside, MboxInv, Waiters
    <3>2. get_threadq # <<>> => s # Head(get_threadq)
      BY <1>4, <3>1 DEF MboxInv, Waiters
    <3> QED BY <1>1, <1>3, <1>4, <1>5, <3>1, <3>2
  <2>2. \A s \in ToSet(get_threadq') :
          s \in Thread /\ call'[s] = "get" /\ th'[s].wake # "DONE"
    <3> SUFFICES ASSUME NEW s \in ToSet(w.queue)
                 PROVE  s \in Thread /\ call'[s] = "get" /\ th'[s].wake # "DONE"
      BY <1>3
    <3>1. s \in Thread /\ s # t /\ call[s] = "get" /\ th[s].wake # "DONE"
      BY <1>4 DEF Outside, MboxInv, Waiters
    <3>2. get_threadq # <<>> => s # Head(get_threadq)
      BY <1>4
    <3> QED BY <1>1, <1>3, <1>4, <1>5, <3>1, <3>2
  <2>3. \A s \in Thread : th'[s].wake = "DONE" => th'[s].sleep = "NONE"
    <3> TAKE s \in Thread
    <3>1. U[s].wake = "DONE" => U[s].sleep = "NONE"
      BY <1>1 DEF MboxInv, Waiters
    <3> QED BY <1>3, <1>4, <3>1
  <2>4. \A s \in Thread : IF call'[s] = "put" THEN given'[s] \in Item ELSE given'[s] = Null
    BY <1>5 DEF MboxInv, Waiters
  <2>5. NoDuplicates(put_threadq) /\ NoDuplicates(w.queue)
    BY <1>4 DEF MboxInv, Waiters
  <2>6. NoDuplicates(put_threadq)' /\ NoDuplicates(get_threadq)'
    BY <1>3, <2>5 DEF NoDuplicates
  <2> QED BY <2>1, <2>2, <2>3, <2>4, <2>6 DEF Waiters, ToSet
<1> QED BY <1>6, <1>7 DEF MboxInv

LEMMA Asleeper ==
  ASSUME NEW t \in Thread, NEW T, OfCaller(t, T), NEW limit \in BOOLEAN
  PROVE  /\ ToSleep(t, T, limit) \in Fields
         /\ ToSleep(t, T, limit)[t].wake = "NONE"
         /\ \A s \in Thread \ {t} : ToSleep(t, T, limit)[s] = th[s]
<1> DEFINE why == IF limit THEN "TIMEOUT" ELSE "WAIT"
<1>1. T[t] \in [sleep : SleepReason, wake : WakeReason, timer : BOOLEAN]
  BY DEF OfCaller, Fields
<1>2. why \in SleepReason
  BY DEF SleepReason
<1>3. SleepingFor(T[t], why) \in [sleep : SleepReason, wake : WakeReason, timer : BOOLEAN]
  BY <1>1, <1>2, FieldsTyped
<1>4. SleepingFor(T[t], why).wake = "NONE"
  BY <1>1 DEF SleepingFor
<1>5. ToSleep(t, T, limit) = [T EXCEPT ![t] = SleepingFor(T[t], why)]
  BY DEF ToSleep
<1> HIDE DEF why
<1> QED BY <1>3, <1>4, <1>5 DEF OfCaller, Fields

LEMMA AwaitItemKeeps ==
  ASSUME MboxInv, NEW t \in Thread, Outside(t), call[t] \in {"none", "get"},
         NEW T, OfCaller(t, T), NEW limit \in BOOLEAN, AwaitItem(t, T, limit)
  PROVE  MboxInv'
<1>1. /\ th' \in Fields /\ th'[t].wake = "NONE"
      /\ \A s \in Thread \ {t} : th'[s] = th[s]
  BY Asleeper DEF AwaitItem
<1>2. /\ get_threadq' \in Seq(Thread) /\ ToSet(get_threadq') = ToSet(get_threadq) \cup {t}
      /\ NoDuplicates(get_threadq')
  <2>1. get_threadq \in Seq(Thread) /\ NoDuplicates(get_threadq) /\ t \notin ToSet(get_threadq)
    BY DEF MboxInv, TypeOK, Waiters, Outside
  <2>2. get_threadq' = enqueue(get_threadq, t, prio)
    BY DEF AwaitItem
  <2> QED BY <2>1, <2>2, EnqueueMembers
<1>3. /\ call' \in [Thread -> {"none", "get", "put"}] /\ timed' \in [Thread -> BOOLEAN]
      /\ call'[t] = "get" /\ \A s \in Thread \ {t} : call'[s] = call[s]
  BY DEF MboxInv, TypeOK, AwaitItem
<1>4. UNCHANGED <<ring, put_threadq, given, out, exited>>
  BY DEF AwaitItem
<1>5. TypeOK'
  BY <1>1, <1>2, <1>3, <1>4 DEF MboxInv, TypeOK, Fields, ring
<1>6. Waiters'
  <2>1. NoDuplicates(get_threadq)' /\ NoDuplicates(put_threadq)'
    BY <1>2, <1>4 DEF MboxInv, Waiters, NoDuplicates
  <2>2. \A s \in ToSet(get_threadq') :
          s \in Thread /\ call'[s] = "get" /\ th'[s].wake # "DONE"
    BY <1>1, <1>2, <1>3 DEF MboxInv, Waiters
  <2>3. \A s \in ToSet(put_threadq') :
          s \in Thread /\ call'[s] = "put" /\ th'[s].wake # "DONE"
    BY <1>1, <1>3, <1>4 DEF MboxInv, Waiters, Outside
  <2>4. \A s \in Thread : th'[s].wake = "DONE" => th'[s].sleep = "NONE"
    BY <1>1 DEF MboxInv, Waiters
  <2>5. \A s \in Thread : IF call'[s] = "put" THEN given'[s] \in Item ELSE given'[s] = Null
    BY <1>3, <1>4 DEF MboxInv, Waiters
  <2> QED BY <2>1, <2>2, <2>3, <2>4, <2>5 DEF Waiters, ToSet
<1> QED BY <1>5, <1>6 DEF MboxInv

LEMMA AwaitRoomKeeps ==
  ASSUME MboxInv, NEW t \in Thread, Outside(t), NEW x \in Item,
         NEW T, OfCaller(t, T), NEW limit \in BOOLEAN, AwaitRoom(t, x, T, limit)
  PROVE  MboxInv'
<1>1. /\ th' \in Fields /\ th'[t].wake = "NONE"
      /\ \A s \in Thread \ {t} : th'[s] = th[s]
  BY Asleeper DEF AwaitRoom
<1>2. /\ put_threadq' \in Seq(Thread) /\ ToSet(put_threadq') = ToSet(put_threadq) \cup {t}
      /\ NoDuplicates(put_threadq')
  <2>1. put_threadq \in Seq(Thread) /\ NoDuplicates(put_threadq) /\ t \notin ToSet(put_threadq)
    BY DEF MboxInv, TypeOK, Waiters, Outside
  <2>2. put_threadq' = enqueue(put_threadq, t, prio)
    BY DEF AwaitRoom
  <2> QED BY <2>1, <2>2, EnqueueMembers
<1>3. /\ call' \in [Thread -> {"none", "get", "put"}] /\ timed' \in [Thread -> BOOLEAN]
      /\ given' \in [Thread -> Item \cup {Null}]
      /\ call'[t] = "put" /\ given'[t] = x
      /\ \A s \in Thread \ {t} : call'[s] = call[s] /\ given'[s] = given[s]
  BY DEF MboxInv, TypeOK, AwaitRoom
<1>4. UNCHANGED <<ring, get_threadq, out, exited>>
  BY DEF AwaitRoom
<1>5. TypeOK'
  BY <1>1, <1>2, <1>3, <1>4 DEF MboxInv, TypeOK, Fields, ring
<1>6. Waiters'
  <2>1. NoDuplicates(get_threadq)' /\ NoDuplicates(put_threadq)'
    BY <1>2, <1>4 DEF MboxInv, Waiters, NoDuplicates
  <2>2. \A s \in ToSet(get_threadq') :
          s \in Thread /\ call'[s] = "get" /\ th'[s].wake # "DONE"
    BY <1>1, <1>3, <1>4 DEF MboxInv, Waiters, Outside
  <2>3. \A s \in ToSet(put_threadq') :
          s \in Thread /\ call'[s] = "put" /\ th'[s].wake # "DONE"
    BY <1>1, <1>2, <1>3 DEF MboxInv, Waiters
  <2>4. \A s \in Thread : th'[s].wake = "DONE" => th'[s].sleep = "NONE"
    BY <1>1 DEF MboxInv, Waiters
  <2>5. \A s \in Thread : IF call'[s] = "put" THEN given'[s] \in Item ELSE given'[s] = Null
    BY <1>3 DEF MboxInv, Waiters
  <2> QED BY <2>1, <2>2, <2>3, <2>4, <2>5 DEF Waiters, ToSet
<1> QED BY <1>5, <1>6 DEF MboxInv

(* A thread whose fields change, and that at most leaves the queues.       *)
LEMMA AsideKeeps ==
  ASSUME MboxInv, NEW t \in Thread,
         th' \in Fields, \A s \in Thread \ {t} : th'[s] = th[s],
         th'[t].wake = "DONE" => th[t].wake = "DONE" /\ th'[t].sleep = "NONE",
         Dequeued(t) \/ UNCHANGED <<get_threadq, put_threadq>>,
         UNCHANGED <<ring, call, timed, given, out>>, exited' \subseteq Thread
  PROVE  MboxInv'
<1>1. get_threadq \in Seq(Thread) /\ put_threadq \in Seq(Thread)
  BY DEF MboxInv, TypeOK
<1>2. /\ get_threadq' \in Seq(Thread) /\ put_threadq' \in Seq(Thread)
      /\ ToSet(get_threadq') \subseteq ToSet(get_threadq)
      /\ ToSet(put_threadq') \subseteq ToSet(put_threadq)
      /\ NoDuplicates(get_threadq') /\ NoDuplicates(put_threadq')
  <2>1. CASE Dequeued(t)
    BY <1>1, <2>1, RemoveMembers DEF Dequeued, MboxInv, Waiters
  <2>2. CASE UNCHANGED <<get_threadq, put_threadq>>
    BY <1>1, <2>2 DEF MboxInv, Waiters
  <2> QED BY <2>1, <2>2
<1>3. TypeOK'
  BY <1>2 DEF MboxInv, TypeOK, Fields, ring
<1>4. Waiters'
  <2>1. NoDuplicates(get_threadq)' /\ NoDuplicates(put_threadq)'
    BY <1>2 DEF NoDuplicates
  <2>2. \A s \in ToSet(get_threadq') :
          s \in Thread /\ call'[s] = "get" /\ th'[s].wake # "DONE"
    BY <1>2 DEF MboxInv, Waiters
  <2>3. \A s \in ToSet(put_threadq') :
          s \in Thread /\ call'[s] = "put" /\ th'[s].wake # "DONE"
    BY <1>2 DEF MboxInv, Waiters
  <2>4. \A s \in Thread : th'[s].wake = "DONE" => th'[s].sleep = "NONE"
    BY DEF MboxInv, Waiters
  <2>5. \A s \in Thread : IF call'[s] = "put" THEN given'[s] \in Item ELSE given'[s] = Null
    BY DEF MboxInv, Waiters
  <2> QED BY <2>1, <2>2, <2>3, <2>4, <2>5 DEF Waiters, ToSet
<1> QED BY <1>3, <1>4 DEF MboxInv

LEMMA FreeIsOutside ==
  ASSUME MboxInv, NEW t \in Thread
  PROVE  /\ call[t] = "none" => Outside(t)
         /\ ~Asleep(t) => Outside(t)
  BY DEF MboxInv, Waiters, Outside, Asleep

LEMMA GivesUpKeeps ==
  ASSUME MboxInv, NEW t \in Thread, GivesUp(t)
  PROVE  MboxInv'
<1>1. Outside(t)
  BY FreeIsOutside DEF GivesUp, Awake
<1>2. th' \in Fields /\ th'[t].wake # "DONE" /\ \A s \in Thread \ {t} : th'[s] = th[s]
  <2>1. OfCaller(t, th)
    BY CallerTyped
  <2>2. th' = [th EXCEPT ![t] = Ended(th[t])]
    BY DEF GivesUp
  <2> QED BY <2>1, <2>2, EndedTyped
<1>3. /\ call' \in [Thread -> {"none", "get", "put"}] /\ timed' \in [Thread -> BOOLEAN]
      /\ given' \in [Thread -> Item \cup {Null}]
      /\ call'[t] = "none" /\ given'[t] = Null
      /\ \A s \in Thread \ {t} : call'[s] = call[s] /\ given'[s] = given[s]
  BY LeavesTyped DEF MboxInv, GivesUp
<1>4. UNCHANGED <<ring, get_threadq, put_threadq, out, exited>>
  BY DEF GivesUp
<1>5. TypeOK'
  BY <1>2, <1>3, <1>4 DEF MboxInv, TypeOK, Fields, ring
<1>6. Waiters'
  <2>1. NoDuplicates(get_threadq)' /\ NoDuplicates(put_threadq)'
    BY <1>4 DEF MboxInv, Waiters, NoDuplicates
  <2>2. \A s \in ToSet(get_threadq') :
          s \in Thread /\ call'[s] = "get" /\ th'[s].wake # "DONE"
    BY <1>1, <1>2, <1>3, <1>4 DEF MboxInv, Waiters, Outside
  <2>3. \A s \in ToSet(put_threadq') :
          s \in Thread /\ call'[s] = "put" /\ th'[s].wake # "DONE"
    BY <1>1, <1>2, <1>3, <1>4 DEF MboxInv, Waiters, Outside
  <2>4. \A s \in Thread : th'[s].wake = "DONE" => th'[s].sleep = "NONE"
    BY <1>2 DEF MboxInv, Waiters
  <2>5. \A s \in Thread : IF call'[s] = "put" THEN given'[s] \in Item ELSE given'[s] = Null
    BY <1>3 DEF MboxInv, Waiters
  <2> QED BY <2>1, <2>2, <2>3, <2>4, <2>5 DEF Waiters, ToSet
<1> QED BY <1>5, <1>6 DEF MboxInv

(* What happens to a thread from outside, and the calls that only change   *)
(* the fields of the caller.                                               *)
LEMMA OthersKeep ==
  ASSUME MboxInv, NEW t \in Thread,
         Expired(t) \/ Exits(t) \/ alarm(t) \/ release(t) \/ kill(t)
  PROVE  MboxInv'
<1> DEFINE R == [sleep : SleepReason, wake : WakeReason, timer : BOOLEAN]
<1>1. th \in Fields /\ th[t] \in R /\ exited \subseteq Thread
  BY DEF MboxInv, TypeOK, Fields
<1>2. /\ \A why \in WakeReason : WokenFor(th[t], why) \in R /\ WokenFor(th[t], why).wake = why
      /\ TimerSet(th[t]) \in R
  BY <1>1, FieldsTyped DEF WokenFor
<1>3. CASE Expired(t)
  <2>1. WokenFor(TimerSet(th[t]), "TIMEOUT") \in R
    BY <1>2, FieldsTyped DEF WakeReason
  <2> DEFINE r == Ended(WokenFor(TimerSet(th[t]), "TIMEOUT"))
  <2>2. r \in R /\ r.wake # "DONE"
    BY <2>1, FieldsTyped
  <2>3. th' = [th EXCEPT ![t] = r]
    BY <1>3 DEF Expired
  <2> HIDE DEF r
  <2>4. th' \in Fields /\ th'[t].wake # "DONE" /\ \A s \in Thread \ {t} : th'[s] = th[s]
    BY <1>1, <2>2, <2>3 DEF Fields
  <2>5. /\ UNCHANGED <<get_threadq, put_threadq>> /\ UNCHANGED <<ring, call, timed, given, out>>
        /\ exited' \subseteq Thread
    BY <1>1, <1>3 DEF Expired
  <2> QED BY <2>4, <2>5, AsideKeeps
<1>4. CASE Exits(t)
  <2>1. /\ UNCHANGED <<get_threadq, put_threadq, th>> /\ UNCHANGED <<ring, call, timed, given, out>>
        /\ exited' \subseteq Thread
    BY <1>1, <1>4 DEF Exits
  <2> QED BY <1>1, <2>1, AsideKeeps DEF MboxInv, Waiters
<1>5. CASE alarm(t)
  <2>1. UNCHANGED <<ring, call, timed, given, out>> /\ exited' \subseteq Thread
    BY <1>1, <1>5 DEF alarm
  <2>2. CASE /\ th[t].sleep = "TIMEOUT" /\ Dequeued(t)
             /\ th' = [th EXCEPT ![t] = [WokenFor(th[t], "TIMEOUT") EXCEPT !.timer = FALSE]]
    <3> DEFINE r == [WokenFor(th[t], "TIMEOUT") EXCEPT !.timer = FALSE]
    <3>1. r \in R /\ r.wake = "TIMEOUT"
      BY <1>1 DEF WokenFor, WakeReason, SleepReason
    <3> HIDE DEF r
    <3>2. th' = [th EXCEPT ![t] = r]
      BY <2>2 DEF r
    <3>3. th' \in Fields /\ th'[t].wake # "DONE" /\ \A s \in Thread \ {t} : th'[s] = th[s]
      BY <1>1, <3>1, <3>2 DEF Fields
    <3> QED BY <2>1, <2>2, <3>3, AsideKeeps
  <2>3. CASE /\ th' = [th EXCEPT ![t] = [th[t] EXCEPT !.timer = FALSE]]
             /\ UNCHANGED <<get_threadq, put_threadq>>
    <3> DEFINE r == [th[t] EXCEPT !.timer = FALSE]
    <3>1. r \in R /\ r.wake = th[t].wake /\ r.sleep = th[t].sleep
      BY <1>1
    <3> HIDE DEF r
    <3>2. th' = [th EXCEPT ![t] = r]
      BY <2>3 DEF r
    <3>3. /\ th' \in Fields /\ th'[t] = r /\ \A s \in Thread \ {t} : th'[s] = th[s]
      BY <1>1, <3>1, <3>2 DEF Fields
    <3>4. th'[t].wake = "DONE" => th[t].wake = "DONE" /\ th'[t].sleep = "NONE"
      BY <3>1, <3>3 DEF MboxInv, Waiters
    <3> QED BY <2>1, <2>3, <3>3, <3>4, AsideKeeps
  <2> QED BY <1>5, <2>2, <2>3 DEF alarm
<1>6. CASE release(t)
  <2> DEFINE r == WokenFor(th[t], "BREAK")
  <2>1. r \in R /\ r.wake = "BREAK"
    BY <1>2 DEF WakeReason
  <2>2. th' = [th EXCEPT ![t] = r]
    BY <1>6 DEF release
  <2> HIDE DEF r
  <2>3. th' \in Fields /\ th'[t].wake # "DONE" /\ \A s \in Thread \ {t} : th'[s] = th[s]
    BY <1>1, <2>1, <2>2 DEF Fields
  <2>4. Dequeued(t) /\ UNCHANGED <<ring, call, timed, given, out>> /\ exited' \subseteq Thread
    BY <1>1, <1>6 DEF release
  <2> QED BY <2>3, <2>4, AsideKeeps
<1>7. CASE kill(t)
  <2>1. Dequeued(t) /\ UNCHANGED <<ring, call, timed, given, out>> /\ exited' \subseteq Thread
    BY <1>1, <1>7 DEF kill
  <2>2. CASE th[t].sleep = "NONE" /\ th' = [th EXCEPT ![t].timer = FALSE]
    <3> DEFINE r == [th[t] EXCEPT !.timer = FALSE]
    <3>1. r \in R /\ r.wake = th[t].wake /\ r.sleep = th[t].sleep
      BY <1>1
    <3>2. th' = [th EXCEPT ![t] = r]
      BY <2>2
    <3> HIDE DEF r
    <3>3. /\ th' \in Fields /\ th'[t] = r /\ \A s \in Thread \ {t} : th'[s] = th[s]
      BY <1>1, <3>1, <3>2 DEF Fields
    <3> QED BY <2>1, <2>2, <3>1, <3>3, AsideKeeps
  <2>3. CASE th' = [th EXCEPT ![t] = [WokenFor(th[t], "EXIT") EXCEPT !.timer = FALSE]]
    <3> DEFINE r == [WokenFor(th[t], "EXIT") EXCEPT !.timer = FALSE]
    <3>1. r \in R /\ r.wake = "EXIT"
      BY <1>1 DEF WokenFor, WakeReason, SleepReason
    <3> HIDE DEF r
    <3>2. th' = [th EXCEPT ![t] = r]
      BY <2>3 DEF r
    <3>3. th' \in Fields /\ th'[t].wake # "DONE" /\ \A s \in Thread \ {t} : th'[s] = th[s]
      BY <1>1, <3>1, <3>2 DEF Fields
    <3> QED BY <2>1, <3>3, AsideKeeps
  <2> QED BY <1>7, <2>2, <2>3 DEF kill
<1> QED BY <1>3, <1>4, <1>5, <1>6, <1>7

(* Every call goes through one of four stretches, with fields that only    *)
(* its own thread has changed; a thread that puts has no other item.       *)
Stretch(t) ==
  \E T \in Fields :
    /\ Outside(t) /\ OfCaller(t, T)
    /\ \/ /\ call[t] \in {"none", "get"} /\ given[t] = Null
          /\ Take(t, T) \/ \E limit \in BOOLEAN : AwaitItem(t, T, limit)
       \/ \E x \in Item :
            /\ call[t] \in {"none", "put"} /\ given[t] \in {Null, x}
            /\ Store(t, x, T) \/ \E limit \in BOOLEAN : AwaitRoom(t, x, T, limit)

LEMMA CallIsStretch ==
  ASSUME MboxInv, NEW t \in Thread,
         \/ \E limit \in BOOLEAN : get(t, limit) \/ \E x \in Item : put(t, x, limit)
         \/ tryget(t) \/ \E x \in Item : tryput(t, x)
         \/ GetWakes(t) \/ PutWakes(t)
  PROVE  Stretch(t)
<1>1. /\ OfCaller(t, th) /\ \A limit \in BOOLEAN : OfCaller(t, Limited(t, limit))
      /\ th \in Fields /\ \A limit \in BOOLEAN : Limited(t, limit) \in Fields
  BY CallerTyped DEF OfCaller
<1>2. /\ call[t] = "none" => Outside(t) /\ given[t] = Null
      /\ ~Asleep(t) => Outside(t)
      /\ call[t] = "get" => given[t] = Null
      /\ call[t] = "put" => given[t] \in Item
      /\ timed[t] \in BOOLEAN
  BY FreeIsOutside DEF MboxInv, TypeOK, Waiters
<1>3. ASSUME NEW limit \in BOOLEAN, get(t, limit) PROVE Stretch(t)
  <2>1. /\ call[t] = "none"
        /\ Take(t, Limited(t, limit)) \/ AwaitItem(t, Limited(t, limit), limit)
    BY <1>3 DEF get, Free
  <2> QED BY <1>1, <1>2, <2>1 DEF Stretch
<1>4. ASSUME NEW limit \in BOOLEAN, NEW x \in Item, put(t, x, limit) PROVE Stretch(t)
  <2>1. /\ call[t] = "none"
        /\ Store(t, x, Limited(t, limit)) \/ AwaitRoom(t, x, Limited(t, limit), limit)
    BY <1>4 DEF put, Free
  <2> QED BY <1>1, <1>2, <2>1 DEF Stretch
<1>5. ASSUME tryget(t) PROVE Stretch(t)
  BY <1>1, <1>2, <1>5 DEF tryget, Free, Stretch
<1>6. ASSUME NEW x \in Item, tryput(t, x) PROVE Stretch(t)
  BY <1>1, <1>2, <1>6 DEF tryput, Free, Stretch
<1>7. ASSUME GetWakes(t) PROVE Stretch(t)
  BY <1>1, <1>2, <1>7 DEF GetWakes, Awake, Stretch
<1>8. ASSUME PutWakes(t) PROVE Stretch(t)
  <2>1. /\ call[t] = "put" /\ ~Asleep(t)
        /\ Store(t, given[t], th) \/ AwaitRoom(t, given[t], th, timed[t])
    BY <1>8 DEF PutWakes, Awake
  <2> QED BY <1>1, <1>2, <2>1 DEF Stretch
<1> QED BY <1>3, <1>4, <1>5, <1>6, <1>7, <1>8

LEMMA StepCases ==
  ASSUME MboxInv, [Next]_vars
  PROVE  \/ \E t \in Thread : \/ Stretch(t) \/ GivesUp(t)
                              \/ Expired(t) \/ Exits(t) \/ alarm(t) \/ release(t) \/ kill(t)
         \/ UNCHANGED vars
  BY CallIsStretch DEF Next

LEMMA StretchKeeps ==
  ASSUME MboxInv, NEW t \in Thread, Stretch(t)
  PROVE  MboxInv'
  BY TakeKeeps, StoreKeeps, AwaitItemKeeps, AwaitRoomKeeps DEF Stretch

LEMMA MboxInit == Init => MboxInv
<1> SUFFICES ASSUME Init PROVE MboxInv
  OBVIOUS
<1>1. TypeOK
  BY SizeAssumption DEF Init, TypeOK, SleepReason, WakeReason
<1>2. Waiters
  BY DEF Init, Waiters, NoDuplicates, ToSet
<1> QED BY <1>1, <1>2 DEF MboxInv

LEMMA MboxStep == MboxInv /\ [Next]_vars => MboxInv'
<1> SUFFICES ASSUME MboxInv, [Next]_vars PROVE MboxInv'
  OBVIOUS
<1>1. CASE UNCHANGED vars
  BY <1>1 DEF vars, ring, MboxInv, TypeOK, Waiters, NoDuplicates, ToSet
<1> QED BY <1>1, StepCases, StretchKeeps, GivesUpKeeps, OthersKeep

LEMMA MboxAlways == Spec => []MboxInv
<1> QED BY MboxInit, MboxStep, PTL DEF Spec

(* Type correctness: the index of the ring stays inside it and the number  *)
(* of items between none and all, with no check in the code that they do   *)
(* (mboxt.inl:243, 471), whatever the threads.                             *)
THEOREM MboxTypeCorrect == Spec => []TypeOK
<1>1. MboxInv => TypeOK
  BY DEF MboxInv
<1> QED BY <1>1, MboxAlways, PTL

-----------------------------------------------------------------------------
(* The ring is a queue.                                                    *)
Place(b, k) == IF b + k < Size THEN b + k ELSE b + k - Size
Window(b, c, q) == [k \in 1 .. c |-> q[Place(b, k - 1)]]

LEMMA WindowShape ==
  ASSUME NEW b \in 0 .. Size - 1, NEW c \in 0 .. Size, NEW S, NEW q \in [0 .. Size - 1 -> S]
  PROVE  /\ Window(b, c, q) \in Seq(S) /\ Len(Window(b, c, q)) = c
         /\ \A k \in 1 .. c : /\ Place(b, k - 1) \in 0 .. Size - 1
                              /\ Window(b, c, q)[k] = q[Place(b, k - 1)]
<1>1. Size \in Nat /\ b \in Int /\ c \in Nat
  BY SizeAssumption
<1>2. \A k \in 1 .. c : Place(b, k - 1) \in 0 .. Size - 1
  BY <1>1 DEF Place
<1>3. Window(b, c, q) \in [1 .. c -> S]
  BY <1>2 DEF Window
<1>4. Window(b, c, q) \in Seq(S)
  BY <1>1, <1>3, SeqDef
<1>5. DOMAIN Window(b, c, q) = 1 .. c
  BY <1>3
<1> QED BY <1>1, <1>2, <1>4, <1>5, LenProperties DEF Window

LEMMA WindowTail ==
  ASSUME NEW b \in 0 .. Size - 1, NEW c \in 1 .. Size, NEW S, NEW q \in [0 .. Size - 1 -> S]
  PROVE  /\ Window(b, c, q) # <<>>
         /\ Window(Following(b), c - 1, q) = Tail(Window(b, c, q))
         /\ q[b] = Head(Window(b, c, q))
<1> DEFINE w == Window(b, c, q)
           v == Window(Following(b), c - 1, q)
<1>1. Size \in Nat /\ Size > 0 /\ b \in Int /\ c \in Nat /\ c \in 0 .. Size /\ c - 1 \in 0 .. Size
  BY SizeAssumption
<1>2. Following(b) \in 0 .. Size - 1
  BY <1>1 DEF Following
<1>3. /\ w \in Seq(S) /\ Len(w) = c
      /\ \A k \in 1 .. c : w[k] = q[Place(b, k - 1)]
  BY <1>1, WindowShape
<1>4. /\ v \in Seq(S) /\ Len(v) = c - 1
      /\ \A k \in 1 .. c - 1 : v[k] = q[Place(Following(b), k - 1)]
  BY <1>1, <1>2, WindowShape
<1> HIDE DEF w, v
<1>5. w # <<>>
  BY <1>1, <1>3, EmptySeq
<1>6. /\ Tail(w) \in Seq(S) /\ Len(Tail(w)) = c - 1
      /\ \A k \in 1 .. c - 1 : Tail(w)[k] = w[k + 1]
  BY <1>3, <1>5, HeadTailProperties
<1>7. \A k \in 1 .. c - 1 : v[k] = Tail(w)[k]
  <2> TAKE k \in 1 .. c - 1
  <2>1. Place(Following(b), k - 1) = Place(b, (k + 1) - 1)
    BY <1>1 DEF Place, Following
  <2>2. k + 1 \in 1 .. c
    BY <1>1
  <2> QED BY <1>3, <1>4, <1>6, <2>1, <2>2
<1>8. v = Tail(w)
  BY <1>4, <1>6, <1>7, SeqEqual
<1>9. Place(b, 1 - 1) = b
  BY <1>1 DEF Place
<1>10. Head(w) = w[1]
  BY <1>3, <1>5
<1>11. 1 \in 1 .. c
  BY <1>1
<1> QED BY <1>3, <1>5, <1>8, <1>9, <1>10, <1>11 DEF w, v

(* r is q with x in slot p.                                                *)
Written(q, r, p, x) == r[p] = x /\ \A k \in 0 .. Size - 1 : k # p => r[k] = q[k]

LEMMA WindowAppend ==
  ASSUME NEW b \in 0 .. Size - 1, NEW c \in 0 .. Size - 1, NEW S,
         NEW q \in [0 .. Size - 1 -> S], NEW x \in S,
         NEW r \in [0 .. Size - 1 -> S], Written(q, r, Place(b, c), x)
  PROVE  Window(b, c + 1, r) = Append(Window(b, c, q), x)
<1> DEFINE w == Window(b, c, q)
           v == Window(b, c + 1, r)
<1>1. Size \in Nat /\ Size > 0 /\ b \in Int /\ c \in Nat /\ c \in 0 .. Size /\ c + 1 \in 0 .. Size
  BY SizeAssumption
<1>2. /\ w \in Seq(S) /\ Len(w) = c
      /\ \A k \in 1 .. c : /\ Place(b, k - 1) \in 0 .. Size - 1
                           /\ w[k] = q[Place(b, k - 1)]
  <2>1. c \in 0 .. Size
    BY <1>1
  <2>2. Window(b, c, q) \in Seq(S) /\ Len(Window(b, c, q)) = c
    BY ONLY <2>1, q \in [0 .. Size - 1 -> S], b \in 0 .. Size - 1, WindowShape
  <2>3. \A k \in 1 .. c : /\ Place(b, k - 1) \in 0 .. Size - 1
                           /\ Window(b, c, q)[k] = q[Place(b, k - 1)]
    BY ONLY <2>1, q \in [0 .. Size - 1 -> S], b \in 0 .. Size - 1, WindowShape
  <2> QED BY <2>2, <2>3
<1>3. /\ v \in Seq(S) /\ Len(v) = c + 1
      /\ \A k \in 1 .. c + 1 : v[k] = r[Place(b, k - 1)]
  BY ONLY <1>1, r \in [0 .. Size - 1 -> S], b \in 0 .. Size - 1, WindowShape
<1> HIDE DEF w, v
<1>4. /\ Append(w, x) \in Seq(S) /\ Len(Append(w, x)) = c + 1
      /\ \A k \in 1 .. c : Append(w, x)[k] = w[k]
      /\ Append(w, x)[c + 1] = x
  BY <1>2, AppendProperties
<1>5. \A k \in 1 .. c + 1 : v[k] = Append(w, x)[k]
  <2> TAKE k \in 1 .. c + 1
  <2>1. CASE k = c + 1
    <3>1. (c + 1) - 1 = c
      BY <1>1
    <3> QED BY <1>3, <1>4, <2>1, <3>1 DEF Written
  <2>2. CASE k # c + 1
    <3>1. k \in 1 .. c
      BY <1>1, <2>2
    <3>2. Place(b, k - 1) # Place(b, c)
      BY <1>1, <3>1 DEF Place
    <3> QED BY <1>2, <1>3, <1>4, <3>1, <3>2 DEF Written
  <2> QED BY <2>1, <2>2
<1>6. v = Append(w, x)
  BY <1>3, <1>4, <1>5, SeqEqual
<1> QED BY <1>6 DEF v, w

LEMMA ContentIsWindow ==
  /\ Content = Window(base, count, itemqueue)
  /\ Content' = Window(base', count', itemqueue')
  BY DEF Content, Slot, Window, Place

-----------------------------------------------------------------------------
(* Every step is a step of Channel or leaves what Channel sees alone.      *)
LEMMA OfferInOrder ==
  ASSUME TypeOK, NEW t \in Thread, NEW x \in Item, given[t] \in {Null, x},
         given' = [given EXCEPT ![t] = x], UNCHANGED <<ring, out>>
  PROVE  [Ch!Next]_<<Content, given, out>>
<1>1. Content' = Content
  BY DEF Content, Slot, ring
<1>2. CASE given[t] = x
  <2>1. given' = given
    BY <1>2 DEF TypeOK
  <2> QED BY <1>1, <2>1
<1>3. CASE given[t] = Null
  BY <1>1, <1>3 DEF Ch!Next, Ch!Offer
<1> QED BY <1>2, <1>3

LEMMA WithdrawInOrder ==
  ASSUME NEW t \in Thread, Leaves(t), UNCHANGED <<ring, out>>
  PROVE  [Ch!Next]_<<Content, given, out>>
<1>1. Content' = Content
  BY DEF Content, Slot, ring
<1> QED BY <1>1 DEF Ch!Next, Ch!Withdraw, Leaves

LEMMA TakeInOrder ==
  ASSUME TypeOK, NEW t \in Thread, NEW T, Take(t, T), given[t] = Null
  PROVE  Ch!Next
<1>1. count \in 1 .. Size /\ base \in 0 .. Size - 1
      /\ itemqueue \in [0 .. Size - 1 -> Item \cup {Null}]
  BY SizeAssumption DEF TypeOK, Take
<1>2. base' = Following(base) /\ count' = count - 1 /\ itemqueue' = itemqueue
      /\ out' = itemqueue[base]
  BY DEF Take
<1>3. Content # <<>> /\ Content' = Tail(Content) /\ out' = Head(Content)
  BY <1>1, <1>2, WindowTail, ContentIsWindow
<1>4. given' = given
  BY DEF Take, Leaves, TypeOK
<1> QED BY <1>3, <1>4 DEF Ch!Next, Ch!Hand

LEMMA StoreInOrder ==
  ASSUME TypeOK, NEW t \in Thread, NEW T, NEW x \in Item, Store(t, x, T), given[t] \in {Null, x}
  PROVE  Ch!Next
<1>1. count \in 0 .. Size - 1 /\ count \in 0 .. Size /\ base \in 0 .. Size - 1
      /\ itemqueue \in [0 .. Size - 1 -> Item \cup {Null}]
  BY SizeAssumption DEF TypeOK, Store
<1>2. base' = base /\ count' = count + 1 /\ out' = out
      /\ itemqueue' = [itemqueue EXCEPT ![Place(base, count)] = x]
  BY DEF Store, In, Place
<1>3. Content' = Append(Content, x) /\ Len(Content) < Size
  <2> DEFINE S == Item \cup {Null}
  <2>1. x \in S
    OBVIOUS
  <2>2. itemqueue \in [0 .. Size - 1 -> S]
    BY <1>1
  <2> HIDE DEF S
  <2>3. /\ itemqueue' \in [0 .. Size - 1 -> S]
        /\ Written(itemqueue, itemqueue', Place(base, count), x)
    BY <1>1, <1>2, <2>1, <2>2, SizeAssumption DEF Place, Written
  <2>4. base \in 0 .. Size - 1 /\ count \in 0 .. Size - 1
    BY <1>1
  <2>5. Window(base, count + 1, itemqueue') = Append(Window(base, count, itemqueue), x)
    BY ONLY <2>1, <2>2, <2>3, <2>4, WindowAppend
  <2>6. Len(Window(base, count, itemqueue)) = count
    BY <1>1, <2>2, WindowShape
  <2>7. count < Size
    BY <1>1, SizeAssumption
  <2> QED BY <1>2, <2>5, <2>6, <2>7, ContentIsWindow
<1>4. given' = [given EXCEPT ![t] = Null]
  BY DEF Store, Leaves
<1> QED BY <1>2, <1>3, <1>4 DEF Ch!Next, Ch!Accept

LEMMA StepInOrder ==
  ASSUME MboxInv, [Next]_vars
  PROVE  [Ch!Next]_<<Content, given, out>>
<1> USE DEF MboxInv
<1>1. ASSUME NEW t \in Thread, Stretch(t) PROVE [Ch!Next]_<<Content, given, out>>
  <2>1. PICK T \in Fields :
          \/ Take(t, T) /\ given[t] = Null
          \/ \E x \in Item : Store(t, x, T) /\ given[t] \in {Null, x}
          \/ \E limit \in BOOLEAN : AwaitItem(t, T, limit)
          \/ \E x \in Item, limit \in BOOLEAN : AwaitRoom(t, x, T, limit) /\ given[t] \in {Null, x}
    BY <1>1 DEF Stretch
  <2>2. CASE Take(t, T) /\ given[t] = Null
    BY <2>2, TakeInOrder
  <2>3. CASE \E x \in Item : Store(t, x, T) /\ given[t] \in {Null, x}
    BY <2>3, StoreInOrder
  <2>4. CASE \E limit \in BOOLEAN : AwaitItem(t, T, limit)
    BY <2>4 DEF AwaitItem, Content, Slot, ring
  <2>5. CASE \E x \in Item, limit \in BOOLEAN : AwaitRoom(t, x, T, limit) /\ given[t] \in {Null, x}
    <3>1. PICK x \in Item, limit \in BOOLEAN : AwaitRoom(t, x, T, limit) /\ given[t] \in {Null, x}
      BY <2>5
    <3>2. given' = [given EXCEPT ![t] = x] /\ UNCHANGED <<ring, out>>
      BY <3>1 DEF AwaitRoom
    <3> QED BY <3>1, <3>2, OfferInOrder
  <2> QED BY <2>1, <2>2, <2>3, <2>4, <2>5
<1>2. ASSUME NEW t \in Thread, GivesUp(t) PROVE [Ch!Next]_<<Content, given, out>>
  BY <1>2, WithdrawInOrder DEF GivesUp
<1>3. ASSUME NEW t \in Thread, Expired(t) \/ Exits(t) \/ alarm(t) \/ release(t) \/ kill(t)
      PROVE  [Ch!Next]_<<Content, given, out>>
  <2>1. UNCHANGED <<ring, given, out>>
    BY <1>3 DEF Expired, Exits, alarm, release, kill
  <2> QED BY <2>1 DEF Content, Slot, ring
<1>4. CASE UNCHANGED vars
  BY <1>4 DEF vars, Content, Slot, ring
<1> QED BY <1>1, <1>2, <1>3, <1>4, StepCases

(* Every item accepted is handed out once and in the order in which the    *)
(* items came (mboxt.inl:247, 475), for a ring of any size and any number  *)
(* of getters and putters: the ring implements Channel.                    *)
THEOREM MboxIsInOrder == Spec => InOrder
<1>1. Init => Ch!Init
  <2> SUFFICES ASSUME Init PROVE Ch!Init
    OBVIOUS
  <2>1. Content = <<>>
    BY DEF Init, Content
  <2> QED BY <2>1 DEF Init, Ch!Init
<1>2. MboxInv /\ [Next]_vars => [Ch!Next]_<<Content, given, out>>
  BY StepInOrder
<1> QED BY <1>1, <1>2, MboxAlways, PTL DEF Spec, InOrder, Ch!Spec

-----------------------------------------------------------------------------
(* Nobody waits beside what it waits for.  A woken thread is not on a      *)
(* queue, so a claim depends on the call and the wake reason alone.        *)
Claims(c, T, op) == {s \in Thread : c[s] = op /\ T[s].wake = "DONE"}

NoIdle(n, gets, puts, c, T) ==
  /\ gets # <<>> => n <= Cardinality(Claims(c, T, "get"))
  /\ puts # <<>> => Size - n <= Cardinality(Claims(c, T, "put"))

LEMMA ClaimsAreClaimants ==
  MboxInv => (NoIdleWaiter <=> NoIdle(count, get_threadq, put_threadq, call, th))
<1> SUFFICES ASSUME MboxInv
             PROVE  NoIdleWaiter <=> NoIdle(count, get_threadq, put_threadq, call, th)
  OBVIOUS
<1>1. \A op \in {"get", "put"} : Claimants(op) = Claims(call, th, op)
  BY DEF MboxInv, Waiters, Claimants, Claims, Asleep
<1> QED BY <1>1 DEF NoIdleWaiter, NoIdle

LEMMA ClaimsAreClaimantsNext ==
  MboxInv' => (NoIdleWaiter' <=> NoIdle(count', get_threadq', put_threadq', call', th'))
<1> SUFFICES ASSUME MboxInv'
             PROVE  NoIdleWaiter' <=> NoIdle(count', get_threadq', put_threadq', call', th')
  OBVIOUS
<1>1. \A op \in {"get", "put"} : Claimants(op)' = Claims(call', th', op)
  BY DEF MboxInv, Waiters, Claimants, Claims, Asleep
<1> QED BY <1>1 DEF NoIdleWaiter, NoIdle

LEMMA CountOf ==
  ASSUME IsFiniteSet(Thread), NEW A \in SUBSET Thread, NEW B \in SUBSET Thread
  PROVE  /\ Cardinality(A) \in Nat /\ Cardinality(B) \in Nat
         /\ A \subseteq B => Cardinality(A) <= Cardinality(B)
         /\ \A t \in Thread : A \ {t} \subseteq B => Cardinality(A) - 1 <= Cardinality(B)
         /\ \A t \in Thread : A \cup {t} \subseteq B /\ t \notin A => Cardinality(A) + 1 <= Cardinality(B)
<1>1. IsFiniteSet(A) /\ IsFiniteSet(B)
  BY FS_Subset
<1>2. Cardinality(A) \in Nat /\ Cardinality(B) \in Nat
  BY <1>1, FS_CardinalityType
<1>3. \A C : C \subseteq B => Cardinality(C) <= Cardinality(B)
  BY <1>1, FS_Subset
<1>4. \A t \in Thread : A \ {t} \subseteq B => Cardinality(A) - 1 <= Cardinality(B)
  <2> SUFFICES ASSUME NEW t \in Thread, A \ {t} \subseteq B
               PROVE  Cardinality(A) - 1 <= Cardinality(B)
    OBVIOUS
  <2>1. Cardinality(A \ {t}) = IF t \in A THEN Cardinality(A) - 1 ELSE Cardinality(A)
    BY <1>1, FS_RemoveElement
  <2>2. Cardinality(A \ {t}) <= Cardinality(B)
    BY <1>3
  <2> QED BY <1>2, <2>1, <2>2
<1>5. \A t \in Thread : A \cup {t} \subseteq B /\ t \notin A => Cardinality(A) + 1 <= Cardinality(B)
  <2> SUFFICES ASSUME NEW t \in Thread, A \cup {t} \subseteq B, t \notin A
               PROVE  Cardinality(A) + 1 <= Cardinality(B)
    OBVIOUS
  <2>1. Cardinality(A \cup {t}) = Cardinality(A) + 1
    BY <1>1, FS_AddElement
  <2>2. Cardinality(A \cup {t}) <= Cardinality(B)
    BY <1>3
  <2> QED BY <2>1, <2>2
<1> QED BY <1>2, <1>3, <1>4, <1>5

(* The thread that takes an item loses its claim, and the putter it wakes  *)
(* gains one.                                                              *)
LEMMA TakeServes ==
  ASSUME IsFiniteSet(Thread), MboxInv, NoIdle(count, get_threadq, put_threadq, call, th),
         NEW t \in Thread, Outside(t), call[t] \in {"none", "get"},
         NEW T, OfCaller(t, T), Take(t, T)
  PROVE  NoIdle(count', get_threadq', put_threadq', call', th')
<1> DEFINE U == [T EXCEPT ![t] = Ended(T[t])]
           w == wakeup_waiter(put_threadq, U)
           G == Claims(call, th, "get")
           P == Claims(call, th, "put")
           Gn == Claims(call', th', "get")
           Pn == Claims(call', th', "put")
<1>1. U \in Fields /\ U[t].wake # "DONE" /\ \A s \in Thread \ {t} : U[s] = th[s]
  BY EndedTyped
<1>2. put_threadq \in Seq(Thread) /\ NoDuplicates(put_threadq)
  BY DEF MboxInv, TypeOK, Waiters
<1>3. put_threadq' = w.queue /\ th' = w.threads /\ get_threadq' = get_threadq /\ count' = count - 1
  BY DEF Take
<1> HIDE DEF U
<1>4. /\ put_threadq = <<>> => w.queue = <<>> /\ w.threads = U
      /\ put_threadq # <<>> =>
           /\ Head(put_threadq) \in ToSet(put_threadq) /\ Head(put_threadq) \in Thread
           /\ w.threads[Head(put_threadq)].wake = "DONE"
           /\ \A s \in Thread \ {Head(put_threadq)} : w.threads[s] = U[s]
  BY <1>1, <1>2, WaiterWoken
<1> HIDE DEF w
<1>5. \A s \in Thread \ {t} : call'[s] = call[s]
  BY LeavesTyped DEF MboxInv, Take
<1>6. put_threadq # <<>> =>
        /\ Head(put_threadq) # t /\ call[Head(put_threadq)] = "put"
        /\ th[Head(put_threadq)].wake # "DONE"
  BY <1>4 DEF Outside, MboxInv, Waiters
<1>7. G \ {t} \subseteq Gn
  BY <1>1, <1>3, <1>4, <1>5, <1>6 DEF Claims
<1>8. put_threadq # <<>> => P \cup {Head(put_threadq)} \subseteq Pn /\ Head(put_threadq) \notin P
  BY <1>1, <1>3, <1>4, <1>5, <1>6 DEF Claims
<1>9. G \in SUBSET Thread /\ P \in SUBSET Thread /\ Gn \in SUBSET Thread /\ Pn \in SUBSET Thread
  BY DEF Claims
<1>10. count \in Int /\ Size \in Int
  BY SizeAssumption DEF MboxInv, TypeOK
<1> HIDE DEF G, P, Gn, Pn
<1>11. Cardinality(G) - 1 <= Cardinality(Gn) /\ Cardinality(G) \in Nat /\ Cardinality(Gn) \in Nat
  BY <1>7, <1>9, CountOf
<1>12. /\ put_threadq # <<>> => Cardinality(P) + 1 <= Cardinality(Pn)
       /\ Cardinality(P) \in Nat /\ Cardinality(Pn) \in Nat
  BY <1>4, <1>8, <1>9, CountOf
<1>13. /\ get_threadq # <<>> => count <= Cardinality(G)
       /\ put_threadq # <<>> => Size - count <= Cardinality(P)
  BY DEF NoIdle, G, P
<1>14. get_threadq' # <<>> => count' <= Cardinality(Gn)
  BY <1>3, <1>10, <1>11, <1>13
<1>15. put_threadq' # <<>> => Size - count' <= Cardinality(Pn)
  BY <1>3, <1>4, <1>10, <1>12, <1>13
<1> QED BY <1>14, <1>15 DEF NoIdle, Gn, Pn

(* The thread that puts an item frees its claim of room, and the getter it *)
(* wakes gains one.                                                        *)
LEMMA StoreServes ==
  ASSUME IsFiniteSet(Thread), MboxInv, NoIdle(count, get_threadq, put_threadq, call, th),
         NEW t \in Thread, Outside(t), call[t] \in {"none", "put"},
         NEW T, NEW x \in Item, OfCaller(t, T), Store(t, x, T)
  PROVE  NoIdle(count', get_threadq', put_threadq', call', th')
<1> DEFINE U == [T EXCEPT ![t] = Ended(T[t])]
           w == wakeup_waiter(get_threadq, U)
           G == Claims(call, th, "get")
           P == Claims(call, th, "put")
           Gn == Claims(call', th', "get")
           Pn == Claims(call', th', "put")
<1>1. U \in Fields /\ U[t].wake # "DONE" /\ \A s \in Thread \ {t} : U[s] = th[s]
  BY EndedTyped
<1>2. get_threadq \in Seq(Thread) /\ NoDuplicates(get_threadq)
  BY DEF MboxInv, TypeOK, Waiters
<1>3. get_threadq' = w.queue /\ th' = w.threads /\ put_threadq' = put_threadq /\ count' = count + 1
  BY DEF Store
<1> HIDE DEF U
<1>4. /\ get_threadq = <<>> => w.queue = <<>> /\ w.threads = U
      /\ get_threadq # <<>> =>
           /\ Head(get_threadq) \in ToSet(get_threadq) /\ Head(get_threadq) \in Thread
           /\ w.threads[Head(get_threadq)].wake = "DONE"
           /\ \A s \in Thread \ {Head(get_threadq)} : w.threads[s] = U[s]
  BY <1>1, <1>2, WaiterWoken
<1> HIDE DEF w
<1>5. \A s \in Thread \ {t} : call'[s] = call[s]
  BY LeavesTyped DEF MboxInv, Store
<1>6. get_threadq # <<>> =>
        /\ Head(get_threadq) # t /\ call[Head(get_threadq)] = "get"
        /\ th[Head(get_threadq)].wake # "DONE"
  BY <1>4 DEF Outside, MboxInv, Waiters
<1>7. P \ {t} \subseteq Pn
  BY <1>1, <1>3, <1>4, <1>5, <1>6 DEF Claims
<1>8. get_threadq # <<>> => G \cup {Head(get_threadq)} \subseteq Gn /\ Head(get_threadq) \notin G
  BY <1>1, <1>3, <1>4, <1>5, <1>6 DEF Claims
<1>9. P \in SUBSET Thread /\ G \in SUBSET Thread /\ Pn \in SUBSET Thread /\ Gn \in SUBSET Thread
  BY DEF Claims
<1>10. count \in Int /\ Size \in Int
  BY SizeAssumption DEF MboxInv, TypeOK
<1> HIDE DEF P, G, Pn, Gn
<1>11. Cardinality(P) - 1 <= Cardinality(Pn) /\ Cardinality(P) \in Nat /\ Cardinality(Pn) \in Nat
  BY <1>7, <1>9, CountOf
<1>12. /\ get_threadq # <<>> => Cardinality(G) + 1 <= Cardinality(Gn)
       /\ Cardinality(G) \in Nat /\ Cardinality(Gn) \in Nat
  BY <1>4, <1>8, <1>9, CountOf
<1>13. /\ put_threadq # <<>> => Size - count <= Cardinality(P)
       /\ get_threadq # <<>> => count <= Cardinality(G)
  BY DEF NoIdle, P, G
<1>14. put_threadq' # <<>> => Size - count' <= Cardinality(Pn)
  BY <1>3, <1>10, <1>11, <1>13
<1>15. get_threadq' # <<>> => count' <= Cardinality(Gn)
  BY <1>3, <1>4, <1>10, <1>12, <1>13
<1> QED BY <1>14, <1>15 DEF NoIdle, Pn, Gn

(* A step that leaves the count alone, lengthens no queue but one that has *)
(* nothing to wait beside, and takes no claim away.                        *)
LEMMA QuietServes ==
  ASSUME IsFiniteSet(Thread), MboxInv, NoIdle(count, get_threadq, put_threadq, call, th),
         count' = count,
         get_threadq = <<>> => get_threadq' = <<>> \/ count = 0,
         put_threadq = <<>> => put_threadq' = <<>> \/ count = Size,
         \A s \in Thread :
           th[s].wake = "DONE" =>
             \/ th'[s].wake = "DONE" /\ call'[s] = call[s]
             \/ call[s] = "get" /\ count = 0
             \/ call[s] = "put" /\ count = Size
             \/ call[s] = "none"
  PROVE  NoIdle(count', get_threadq', put_threadq', call', th')
<1> DEFINE G == Claims(call, th, "get")
           P == Claims(call, th, "put")
           Gn == Claims(call', th', "get")
           Pn == Claims(call', th', "put")
<1>1. G \in SUBSET Thread /\ P \in SUBSET Thread /\ Gn \in SUBSET Thread /\ Pn \in SUBSET Thread
  BY DEF Claims
<1>2. (G \subseteq Gn \/ count = 0) /\ (P \subseteq Pn \/ count = Size)
  BY DEF Claims
<1>3. count \in Int /\ Size \in Int
  BY SizeAssumption DEF MboxInv, TypeOK
<1> HIDE DEF G, P, Gn, Pn
<1>4. /\ Cardinality(G) \in Nat /\ Cardinality(Gn) \in Nat
      /\ Cardinality(P) \in Nat /\ Cardinality(Pn) \in Nat
      /\ G \subseteq Gn => Cardinality(G) <= Cardinality(Gn)
      /\ P \subseteq Pn => Cardinality(P) <= Cardinality(Pn)
  BY <1>1, CountOf
<1>5. /\ get_threadq # <<>> => count <= Cardinality(G)
      /\ put_threadq # <<>> => Size - count <= Cardinality(P)
  BY DEF NoIdle, G, P
<1>6. get_threadq' # <<>> => count' <= Cardinality(Gn)
  BY <1>2, <1>3, <1>4, <1>5
<1>7. put_threadq' # <<>> => Size - count' <= Cardinality(Pn)
  BY <1>2, <1>3, <1>4, <1>5
<1> QED BY <1>6, <1>7 DEF NoIdle, Gn, Pn

LEMMA AwaitServes ==
  ASSUME IsFiniteSet(Thread), MboxInv, NoIdle(count, get_threadq, put_threadq, call, th),
         NEW t \in Thread, NEW T, OfCaller(t, T), NEW limit \in BOOLEAN,
         \/ AwaitItem(t, T, limit) /\ call[t] \in {"none", "get"}
         \/ \E x \in Item : AwaitRoom(t, x, T, limit) /\ call[t] \in {"none", "put"}
  PROVE  NoIdle(count', get_threadq', put_threadq', call', th')
<1>1. \A s \in Thread \ {t} : th'[s] = th[s] /\ call'[s] = call[s]
  <2>1. th' = ToSleep(t, T, limit)
    BY DEF AwaitItem, AwaitRoom
  <2>2. \A s \in Thread \ {t} : th'[s] = th[s]
    BY <2>1, Asleeper
  <2>3. \A s \in Thread \ {t} : call'[s] = call[s]
    BY DEF AwaitItem, AwaitRoom, MboxInv, TypeOK
  <2> QED BY <2>2, <2>3
<1>2. \/ count = 0 /\ put_threadq' = put_threadq /\ call[t] \in {"none", "get"}
      \/ count = Size /\ get_threadq' = get_threadq /\ call[t] \in {"none", "put"}
  BY DEF AwaitItem, AwaitRoom
<1>3. count' = count
  BY DEF AwaitItem, AwaitRoom, ring
<1>4. \A s \in Thread :
        th[s].wake = "DONE" =>
          \/ th'[s].wake = "DONE" /\ call'[s] = call[s]
          \/ call[s] = "get" /\ count = 0
          \/ call[s] = "put" /\ count = Size
          \/ call[s] = "none"
  <2> TAKE s \in Thread
  <2>1. CASE s # t
    BY <1>1, <2>1
  <2>2. CASE s = t
    BY <1>2, <2>2
  <2> QED BY <2>1, <2>2
<1>5. /\ get_threadq = <<>> => get_threadq' = <<>> \/ count = 0
      /\ put_threadq = <<>> => put_threadq' = <<>> \/ count = Size
  BY <1>2
<1> QED BY <1>3, <1>4, <1>5, QuietServes

LEMMA OthersServe ==
  ASSUME IsFiniteSet(Thread), MboxInv, NoIdle(count, get_threadq, put_threadq, call, th),
         NEW t \in Thread,
         GivesUp(t) \/ Expired(t) \/ Exits(t) \/ alarm(t) \/ release(t) \/ kill(t)
  PROVE  NoIdle(count', get_threadq', put_threadq', call', th')
<1>1. th \in Fields /\ \A s \in Thread : th[s].wake = "DONE" => th[s].sleep = "NONE"
  BY DEF MboxInv, TypeOK, Waiters, Fields
<1>2. remove(<<>>, t) = <<>>
  BY DEF remove, ToSet
<1>3. count' = count
  BY DEF GivesUp, Expired, Exits, alarm, release, kill, ring
<1>4. /\ get_threadq = <<>> => get_threadq' = <<>>
      /\ put_threadq = <<>> => put_threadq' = <<>>
  BY <1>2 DEF GivesUp, Expired, Exits, alarm, release, kill, Dequeued
<1>5. \A s \in Thread \ {t} : th'[s] = th[s] /\ call'[s] = call[s]
  <2>1. th' = th \/ \E r : th' = [th EXCEPT ![t] = r]
    <3>1. ASSUME GivesUp(t) PROVE th' = [th EXCEPT ![t] = Ended(th[t])]
      BY <3>1 DEF GivesUp
    <3>2. ASSUME Expired(t) PROVE th' = [th EXCEPT ![t] = Ended(WokenFor(TimerSet(th[t]), "TIMEOUT"))]
      BY <3>2 DEF Expired
    <3>3. ASSUME Exits(t) PROVE th' = th
      BY <3>3 DEF Exits
    <3>4. ASSUME alarm(t) PROVE \E r : th' = [th EXCEPT ![t] = r]
      BY <3>4 DEF alarm
    <3>5. ASSUME release(t) PROVE th' = [th EXCEPT ![t] = WokenFor(th[t], "BREAK")]
      BY <3>5 DEF release
    <3>6. ASSUME kill(t) PROVE \E r : th' = [th EXCEPT ![t] = r]
      BY <3>6 DEF kill
    <3> QED BY <3>1, <3>2, <3>3, <3>4, <3>5, <3>6
  <2>2. \A s \in Thread \ {t} : th'[s] = th[s]
    BY <1>1, <2>1 DEF Fields
  <2>3. call' = call \/ call' = [call EXCEPT ![t] = "none"]
    BY DEF GivesUp, Leaves, Expired, Exits, alarm, release, kill
  <2> QED BY <2>2, <2>3 DEF MboxInv, TypeOK
<1>6. th[t].wake = "DONE" => call[t] = "none" \/ (th'[t].wake = "DONE" /\ call'[t] = call[t])
  <2> SUFFICES ASSUME th[t].wake = "DONE"
               PROVE  call[t] = "none" \/ (th'[t].wake = "DONE" /\ call'[t] = call[t])
    OBVIOUS
  <2>1. ASSUME GivesUp(t) PROVE th[t].wake # "DONE"
    BY <2>1 DEF GivesUp, GoesOn
  <2>2. ASSUME Expired(t) PROVE call[t] = "none"
    BY <2>2 DEF Expired, Free
  <2>3. ASSUME Exits(t) PROVE th[t].wake # "DONE"
    BY <2>3 DEF Exits
  <2>4. ASSUME alarm(t) PROVE th'[t].wake = "DONE" /\ call'[t] = call[t]
    <3>1. th[t].sleep = "NONE"
      BY <1>1, <2>4
    <3>2. th' = [th EXCEPT ![t] = [th[t] EXCEPT !.timer = FALSE]] /\ call' = call
      BY <2>4, <3>1 DEF alarm
    <3> QED BY <1>1, <2>4, <3>2 DEF Fields
  <2>5. ASSUME release(t) PROVE th[t].wake # "DONE"
    BY <1>1, <2>5 DEF release
  <2>6. ASSUME kill(t) PROVE th'[t].wake = "DONE" /\ call'[t] = call[t]
    <3>1. th[t].sleep = "NONE"
      BY <1>1, <2>6
    <3>2. th' = [th EXCEPT ![t] = [th[t] EXCEPT !.timer = FALSE]] /\ call' = call
      BY <2>6, <3>1 DEF kill
    <3> QED BY <1>1, <2>6, <3>2 DEF Fields
  <2> QED BY <2>1, <2>2, <2>3, <2>4, <2>5, <2>6
<1> QED BY <1>3, <1>4, <1>5, <1>6, QuietServes

(* No getter sleeps beside an item, and no putter beside a free slot, that *)
(* no woken thread has come for (mboxt.inl:256, 488), for any finite       *)
(* number of threads.                                                      *)
THEOREM NobodyWaitsIdle ==
  ASSUME IsFiniteSet(Thread)
  PROVE  Spec => []NoIdleWaiter
<1>1. Init => NoIdleWaiter
  BY DEF Init, NoIdleWaiter
<1>2. MboxInv /\ MboxInv' /\ NoIdleWaiter /\ [Next]_vars => NoIdleWaiter'
  <2> SUFFICES ASSUME MboxInv, MboxInv', NoIdleWaiter, [Next]_vars PROVE NoIdleWaiter'
    OBVIOUS
  <2>1. NoIdle(count, get_threadq, put_threadq, call, th)
    BY ClaimsAreClaimants
  <2>2. NoIdle(count', get_threadq', put_threadq', call', th')
    <3>1. ASSUME NEW t \in Thread, Stretch(t)
          PROVE  NoIdle(count', get_threadq', put_threadq', call', th')
      BY <2>1, <3>1, TakeServes, StoreServes, AwaitServes DEF Stretch
    <3>2. CASE UNCHANGED vars
      BY <2>1, <3>2 DEF vars, ring
    <3> QED BY <2>1, <3>1, <3>2, OthersServe, StepCases
  <2> QED BY <2>2, ClaimsAreClaimantsNext
<1> QED BY <1>1, <1>2, MboxAlways, PTL DEF Spec
=============================================================================
