-------------------------- MODULE NetTimeoutProofs --------------------------
(***************************************************************************)
(* Theorems on NetTimeout, for any callouts, delays and lengths of         *)
(* callbacks; those that do not hold for any callback, preemption or start *)
(* of the clock say so.                                                    *)
(***************************************************************************)
EXTENDS NetTimeout, TLAPS

Link == Callout \cup {Null}
Lists == [head : Link, next : [Callout -> Link], prev : [Callout -> Link]]

LEMMA SlotTyped == \A k \in DOMAIN Slots : Slots[k] \in Callout
  BY DEF Callout

LEMMA PushedTyped ==
  ASSUME NEW L \in Lists, NEW c \in Callout
  PROVE  Pushed(L, c) \in Lists
<1>1. L.head \in Link /\ L.next \in [Callout -> Link] /\ L.prev \in [Callout -> Link]
  BY DEF Lists
<1>2. c \in Link /\ Null \in Link
  BY DEF Link
<1>3. [L.next EXCEPT ![c] = L.head] \in [Callout -> Link]
  BY <1>1
<1>4. [L.prev EXCEPT ![c] = Null] \in [Callout -> Link]
  BY <1>1, <1>2
<1>5. [L.prev EXCEPT ![c] = Null, ![L.head] = c] \in [Callout -> Link]
  BY <1>1, <1>2
<1> QED BY <1>1, <1>2, <1>3, <1>4, <1>5 DEF Pushed, Lists

LEMMA UnlinkedTyped ==
  ASSUME NEW L \in Lists, NEW c \in Callout
  PROVE  Unlinked(L, c) \in Lists
<1>1. L.head \in Link /\ L.next \in [Callout -> Link] /\ L.prev \in [Callout -> Link]
  BY DEF Lists
<1>2. L.next[c] \in Link /\ L.prev[c] \in Link
  BY <1>1
<1>3. (IF L.prev[c] = Null THEN L.next[c] ELSE L.head) \in Link
  BY <1>1, <1>2
<1>4. (IF L.prev[c] = Null THEN L.next
       ELSE [L.next EXCEPT ![L.prev[c]] = L.next[c]]) \in [Callout -> Link]
  BY <1>1, <1>2
<1>5. (IF L.next[c] = Null THEN L.prev
       ELSE [L.prev EXCEPT ![L.next[c]] = L.prev[c]]) \in [Callout -> Link]
  BY <1>1, <1>2
<1> QED BY <1>3, <1>4, <1>5 DEF Unlinked, Lists

(* What counts from last_set_time is positive: it never lies ahead.        *)
LEMMA CountedTyped ==
  ASSUME now \in Nat, lastSet \in 0 .. now, NEW d \in Delays
  PROVE  Counted(d) \in Nat \ {0}
<1>1. d \in Nat \ {0}
  BY TimeAssumption
<1> QED BY <1>1 DEF Counted

LEMMA RemainingTyped ==
  ASSUME delta \in [Callout -> Nat]
  PROVE  Remaining \subseteq Nat \ {0}
  BY DEF Remaining, Listed

LEMMA MayTouchTyped ==
  ASSUME NEW c \in Callout, MayTouch(c), left \in 0 .. MaxCalls
  PROVE  left' \in 0 .. MaxCalls /\ pc \in {"free", "callback"}
  BY TimeAssumption DEF MayTouch

LEMMA TypeInit == Init => TypeOK
<1> SUFFICES ASSUME Init PROVE TypeOK
  OBVIOUS
<1>1. now \in Tick /\ lastSet \in 0 .. now /\ left \in 0 .. MaxCalls
  BY TimeAssumption DEF Init, Tick
<1>2. /\ delta \in [Callout -> Nat] /\ due \in [Callout -> Nat]
      /\ fun \in [Callout -> Fun \cup {Null}] /\ pending \in [Callout -> BOOLEAN]
  BY DEF Init
<1>3. list \in [head : Callout \cup {Null}, next : [Callout -> Callout \cup {Null}],
                prev : [Callout -> Callout \cup {Null}]]
  BY DEF Init
<1> QED BY <1>1, <1>2, <1>3 DEF Init, TypeOK, Off

LEMMA ResetTyped ==
  ASSUME TypeOK, NEW c \in Callout, NEW f \in Fun \cup {Null}, NEW d \in Delays,
         Reset(c, f, d)
  PROVE  TypeOK'
<1>1. now \in Nat /\ lastSet \in 0 .. now
  BY TimeAssumption DEF TypeOK, Tick
<1>2. Counted(d) \in Nat \ {0} /\ d \in Nat
  BY <1>1, CountedTyped, TimeAssumption
<1>3. left' \in 0 .. MaxCalls /\ pc \in {"free", "callback"}
  BY MayTouchTyped DEF Reset, TypeOK
<1>4. list \in Lists
  BY DEF TypeOK, Lists, Link
<1>5. list' \in Lists
  <2>1. (IF pending[c] THEN Unlinked(list, c) ELSE list) \in Lists
    BY <1>4, UnlinkedTyped
  <2>2. list' = Pushed(IF pending[c] THEN Unlinked(list, c) ELSE list, c)
    BY DEF Reset
  <2> QED BY <2>1, <2>2, PushedTyped
<1>6. /\ delta' \in [Callout -> Nat] /\ due' \in [Callout -> Nat]
      /\ fun' \in [Callout -> Fun \cup {Null}] /\ pending' \in [Callout -> BOOLEAN]
  BY <1>1, <1>2 DEF Reset, TypeOK
<1>7. UNCHANGED <<now, alarm, flag, woken, lastDelta, cur, after>>
  BY DEF Reset
<1>8. CASE Sooner(Counted(d)) /\ pc' = "setting"
  <2>1. pc = "free"
    BY <1>2, <1>3, <1>8 DEF Sooner, TypeOK
  <2>2. lastSet' \in 0 .. now' /\ min' \in Nat /\ min' > 0
    BY <1>1, <1>2, <1>3, <1>7, <1>8 DEF Reset, TypeOK
  <2> QED BY <1>3, <1>5, <1>6, <1>7, <1>8, <2>1, <2>2 DEF TypeOK, Lists, Link
<1>9. CASE UNCHANGED <<lastSet, min, pc>>
  BY <1>3, <1>5, <1>6, <1>7, <1>9 DEF TypeOK, Lists, Link
<1> QED BY <1>8, <1>9 DEF Reset

LEMMA StopTyped ==
  ASSUME TypeOK, NEW c \in Callout, Stop(c)
  PROVE  TypeOK'
<1>1. list' \in Lists
  BY UnlinkedTyped DEF TypeOK, Stop, Lists, Link
<1>2. left' \in 0 .. MaxCalls
  BY MayTouchTyped DEF Stop, TypeOK
<1>3. due' \in [Callout -> Nat] /\ pending' \in [Callout -> BOOLEAN]
  BY DEF Stop, TypeOK
<1> QED BY <1>1, <1>2, <1>3 DEF Stop, TypeOK, Lists, Link

LEMMA TypeStep == TypeOK /\ [Next]_vars => TypeOK'
<1> SUFFICES ASSUME TypeOK, [Next]_vars PROVE TypeOK'
  OBVIOUS
<1>1. ASSUME NEW c \in Own, NEW d \in Delays, Reset(c, Null, d) PROVE TypeOK'
  BY <1>1, ResetTyped DEF Callout
<1>2. ASSUME NEW c \in Own, Stop(c) PROVE TypeOK'
  BY <1>2, StopTyped DEF Callout
<1>3. ASSUME NEW f \in Fun, NEW d \in Delays, Timeout(f, d) PROVE TypeOK'
  BY <1>3, ResetTyped, SlotTyped DEF Timeout
<1>4. ASSUME NEW f \in Fun, Untimeout(f) PROVE TypeOK'
  BY <1>4, StopTyped, SlotTyped DEF Untimeout
<1>5. CASE SetAlarm
  <2>1. alarm' \in Nat /\ lastDelta' \in Nat
    BY <1>5, TimeAssumption DEF SetAlarm, TypeOK, Tick, Off
  <2>2. flag' \in BOOLEAN
    BY <1>5, Zenon DEF SetAlarm, TypeOK
  <2> QED BY <1>5, <2>1, <2>2 DEF SetAlarm, TypeOK, fields
<1>6. CASE ClockTick
  <2>1. now' \in Tick /\ lastSet' \in 0 .. now'
    BY <1>6, TimeAssumption DEF ClockTick, TypeOK, Tick
  <2>2. alarm' \in Nat
    BY <1>6 DEF ClockTick, TypeOK, Off
  <2>3. flag' \in BOOLEAN
    BY <1>6, Zenon DEF ClockTick, TypeOK
  <2> QED BY <1>6, <2>1, <2>2, <2>3 DEF ClockTick, TypeOK, fields
<1>7. CASE TakeFlag
  BY <1>7 DEF TakeFlag, TypeOK, fields
<1>8. CASE StartScan
  BY <1>8 DEF StartScan, TypeOK, fields
<1>9. CASE ScanOver
  <2>1. cur \in Callout /\ cur' \in Callout \cup {Null}
    BY <1>9 DEF ScanOver, TypeOK
  <2>2. delta[cur] \in Nat /\ min \in Nat /\ (delta[cur] = 0 \/ delta[cur] > min)
    BY <1>9, <2>1 DEF ScanOver, Expires, TypeOK
  <2>3. (IF delta[cur] = 0 THEN 0 ELSE delta[cur] - min) \in Nat
    BY <2>2
  <2>4. delta' \in [Callout -> Nat]
    BY <1>9, <2>1, <2>3 DEF ScanOver, TypeOK
  <2> QED BY <1>9, <2>1, <2>4 DEF ScanOver, TypeOK
<1>10. CASE ScanFire
  <2>1. cur \in Callout /\ after' \in Callout \cup {Null}
    BY <1>10 DEF ScanFire, TypeOK
  <2>2. list' \in Lists
    BY <1>10, <2>1, UnlinkedTyped DEF ScanFire, TypeOK, Lists, Link
  <2>3. /\ delta' \in [Callout -> Nat] /\ due' \in [Callout -> Nat]
        /\ pending' \in [Callout -> BOOLEAN]
    BY <1>10 DEF ScanFire, TypeOK
  <2>4. left' \in 0 .. MaxCalls
    BY <1>10, TimeAssumption DEF ScanFire
  <2> QED BY <1>10, <2>1, <2>2, <2>3, <2>4 DEF ScanFire, TypeOK, Lists, Link
<1>11. CASE CallbackReturns
  <2>1. left' \in 0 .. MaxCalls
    BY <1>11, TimeAssumption DEF CallbackReturns
  <2> QED BY <1>11, <2>1 DEF CallbackReturns, TypeOK, fields
<1>12. CASE EndScan
  <2>1. CASE min' \in Remaining /\ lastSet' = now /\ pc' = "restarting"
             /\ UNCHANGED lastDelta
    <3>1. min' \in Nat /\ min' > 0
      BY <2>1, RemainingTyped DEF TypeOK
    <3>2. lastSet' \in 0 .. now'
      BY <1>12, <2>1, TimeAssumption DEF EndScan, TypeOK, Tick
    <3> QED BY <1>12, <2>1, <3>1, <3>2 DEF EndScan, TypeOK, fields
  <2>2. CASE lastDelta' = 0 /\ pc' = "free" /\ min' = 0 /\ UNCHANGED lastSet
    BY <1>12, <2>2 DEF EndScan, TypeOK, fields
  <2> QED BY <1>12, <2>1, <2>2 DEF EndScan
<1>13. CASE UNCHANGED vars
  BY <1>13 DEF vars, fields, TypeOK
<1> QED
  BY <1>1, <1>2, <1>3, <1>4, <1>5, <1>6, <1>7, <1>8, <1>9, <1>10, <1>11, <1>12,
     <1>13 DEF Next, AlarmThread

(* No delta runs under and no remembered time lies ahead, also when        *)
(* callbacks move the callouts the scan is about to look at and when an    *)
(* operation is preempted before it sets the alarm.                        *)
THEOREM NoUnderflow == Spec => []TypeOK
  BY TypeInit, TypeStep, PTL DEF Spec

-----------------------------------------------------------------------------
(* Walks along the list.                                                   *)
(* What a walk of L that begins at h meets.                                *)
From(L, h) ==
  {c \in Callout :
     \A S \in SUBSET Callout :
       /\ h \in S \cup {Null}
       /\ \A d \in S : L.next[d] \in S \cup {Null}
       => c \in S}

(* The head has nothing before it, and links agree both ways.              *)
WellLinked(L) ==
  /\ L.head # Null => L.prev[L.head] = Null
  /\ \A c \in From(L, L.head) : L.next[c] # Null => L.prev[L.next[c]] = c

LEMMA NullApart == Null \notin Callout
  BY CalloutAssumption

LEMMA FromClosed ==
  ASSUME NEW L \in Lists, NEW h \in Link
  PROVE  /\ From(L, h) \subseteq Callout
         /\ h \in From(L, h) \cup {Null}
         /\ \A d \in From(L, h) : L.next[d] \in From(L, h) \cup {Null}
<1>1. h \in From(L, h) \cup {Null}
  BY NullApart DEF From, Link
<1>2. ASSUME NEW d \in From(L, h) PROVE L.next[d] \in From(L, h) \cup {Null}
  <2>1. d \in Callout /\ L.next[d] \in Callout \cup {Null}
    BY <1>2 DEF From, Lists, Link
  <2>2. SUFFICES ASSUME L.next[d] # Null PROVE L.next[d] \in From(L, h)
    OBVIOUS
  <2>3. ASSUME NEW S \in SUBSET Callout, h \in S \cup {Null},
               \A e \in S : L.next[e] \in S \cup {Null}
        PROVE  L.next[d] \in S
    <3>1. d \in S
      BY <1>2, <2>3 DEF From
    <3> QED BY <2>2, <2>3, <3>1
  <2> QED BY <2>1, <2>2, <2>3 DEF From
<1> QED BY <1>1, <1>2 DEF From

LEMMA FromLeast ==
  ASSUME NEW L, NEW h, NEW S \in SUBSET Callout, h \in S \cup {Null},
         \A d \in S : L.next[d] \in S \cup {Null}
  PROVE  From(L, h) \subseteq S
  BY DEF From

(* The callout before a listed one is listed, and is the only one that     *)
(* leads to it; none leads to the head.                                    *)
LEMMA PrevListed ==
  ASSUME NEW L \in Lists, WellLinked(L), NEW c \in From(L, L.head)
  PROVE  /\ c = L.head <=> L.prev[c] = Null
         /\ L.prev[c] # Null =>
              L.prev[c] \in From(L, L.head) /\ L.next[L.prev[c]] = c
         /\ \A d \in From(L, L.head) : L.next[d] = c => L.prev[c] = d
<1> DEFINE W == From(L, L.head)
           S == {e \in W : e = L.head \/ (L.prev[e] \in W /\ L.next[L.prev[e]] = e)}
<1>1. /\ L.head \in Link /\ W \subseteq Callout /\ L.head \in W \cup {Null}
      /\ \A d \in W : L.next[d] \in W \cup {Null}
  BY FromClosed DEF Lists
<1>2. \A d \in W : L.next[d] # Null => L.prev[L.next[d]] = d
  BY DEF WellLinked
<1>3. L.head \in S \cup {Null}
  BY <1>1
<1>4. \A d \in S : L.next[d] \in S \cup {Null}
  BY <1>1, <1>2
<1>5. W \subseteq S
  <2>1. S \in SUBSET Callout
    BY <1>1
  <2> HIDE DEF S, W
  <2>2. From(L, L.head) \subseteq S
    BY <1>3, <1>4, <2>1, FromLeast
  <2> QED BY <2>2 DEF W
<1>6. c \in S /\ c # Null
  BY <1>1, <1>5, NullApart
<1>7. c = L.head => L.prev[c] = Null
  BY <1>6 DEF WellLinked
<1>8. Null \notin W
  BY <1>1, NullApart
<1> QED BY <1>2, <1>6, <1>7, <1>8

(* A walk does not come back: links that agree both ways make no circle.   *)
LEMMA NoCircle ==
  ASSUME NEW L \in Lists, WellLinked(L), NEW c \in From(L, L.head)
  PROVE  L.next[c] # c /\ c \notin From(L, L.next[c])
<1> DEFINE W == From(L, L.head)
           A == {e \in W : e \notin From(L, L.next[e])}
<1>1. /\ L.head \in Link /\ W \subseteq Callout /\ L.head \in W \cup {Null}
      /\ \A d \in W : L.next[d] \in W \cup {Null}
  BY FromClosed DEF Lists
<1>2. \A d \in W : L.next[d] \in Link
  BY <1>1 DEF Link
<1>3. ASSUME NEW e \in W, NEW d \in W, L.next[d] = e
      PROVE  L.prev[e] = d /\ e # L.head
  BY <1>1, <1>3, PrevListed, NullApart
<1>4. ASSUME NEW e \in W PROVE L.next[e] # e
  <2> DEFINE S == W \ {e}
  <2> SUFFICES ASSUME L.next[e] = e PROVE FALSE
    OBVIOUS
  <2>1. L.head \in S \cup {Null} /\ S \in SUBSET Callout
    BY <1>1, <1>3
  <2>2. \A d \in S : L.next[d] \in S \cup {Null}
    BY <1>1, <1>3
  <2> HIDE DEF S, W
  <2>3. From(L, L.head) \subseteq S
    BY <2>1, <2>2, FromLeast
  <2> QED BY <2>3 DEF W, S
<1>5. L.head \in A \cup {Null}
  <2> SUFFICES ASSUME L.head # Null PROVE L.head \notin From(L, L.next[L.head])
    BY <1>1
  <2> DEFINE S == W \ {L.head}
  <2>1. L.next[L.head] \in S \cup {Null} /\ S \in SUBSET Callout
    BY <1>1, <1>4
  <2>2. \A d \in S : L.next[d] \in S \cup {Null}
    BY <1>1, <1>3
  <2> HIDE DEF S, W
  <2>3. From(L, L.next[L.head]) \subseteq S
    BY <2>1, <2>2, FromLeast
  <2> QED BY <2>3 DEF S
<1>6. ASSUME NEW d \in A, L.next[d] # Null PROVE L.next[d] \in A
  <2> DEFINE e == L.next[d]
             F == From(L, L.next[e])
             S == F \ {e}
  <2>1. d \in W /\ e \in W /\ d \notin From(L, e) /\ L.prev[e] = d
    BY <1>1, <1>3, <1>6
  <2> SUFFICES ASSUME e \in F PROVE FALSE
    BY <2>1
  <2>2. e \in Link /\ L.next[e] \in Link
    BY <1>1, <1>2, <2>1 DEF Link
  <2>3. /\ F \subseteq Callout /\ L.next[e] \in F \cup {Null}
        /\ \A x \in F : L.next[x] \in F \cup {Null}
    BY <2>2, FromClosed
  <2>4. F \subseteq From(L, e)
    <3> DEFINE G == From(L, e)
    <3>1. /\ G \subseteq Callout /\ e \in G \cup {Null}
          /\ \A x \in G : L.next[x] \in G \cup {Null}
      BY <2>2, FromClosed
    <3>2. L.next[e] \in G \cup {Null}
      BY <1>6, <3>1
    <3> HIDE DEF G, e, W
    <3>3. From(L, L.next[e]) \subseteq G
      BY <3>1, <3>2, FromLeast
    <3> QED BY <3>3 DEF G
  <2>5. F \subseteq W
    <3> HIDE DEF e, F
    <3>1. /\ L.next[e] \in W \cup {Null} /\ W \in SUBSET Callout
          /\ \A x \in W : L.next[x] \in W \cup {Null}
      BY <1>1, <2>1
    <3> HIDE DEF W
    <3>2. From(L, L.next[e]) \subseteq W
      BY <3>1, FromLeast
    <3> QED BY <3>2 DEF F
  <2>6. \A x \in F : L.next[x] # e
    BY <1>3, <2>1, <2>4, <2>5
  <2>7. L.next[e] # e
    BY <1>4, <2>1
  <2>8. /\ L.next[e] \in S \cup {Null} /\ S \in SUBSET Callout
        /\ \A x \in S : L.next[x] \in S \cup {Null}
    BY <2>3, <2>6, <2>7
  <2> HIDE DEF S, e, W
  <2>9. From(L, L.next[e]) \subseteq S
    BY <2>8, FromLeast
  <2> QED BY <2>9 DEF S
<1>7. W \subseteq A
  <2>1. \A d \in A : L.next[d] \in A \cup {Null}
    BY <1>6
  <2>2. A \in SUBSET Callout
    BY <1>1
  <2> HIDE DEF A, W
  <2>3. From(L, L.head) \subseteq A
    BY <1>5, <2>1, <2>2, FromLeast
  <2> QED BY <2>3 DEF W
<1> QED BY <1>4, <1>7

(* What a walk within the list meets is listed.                            *)
LEMMA FromListed ==
  ASSUME NEW L \in Lists, NEW h \in From(L, L.head) \cup {Null}
  PROVE  From(L, h) \subseteq From(L, L.head)
<1> DEFINE W == From(L, L.head)
<1>1. /\ L.head \in Link /\ W \in SUBSET Callout /\ h \in W \cup {Null}
      /\ \A d \in W : L.next[d] \in W \cup {Null}
  BY FromClosed DEF Lists
<1> HIDE DEF W
<1>2. From(L, h) \subseteq W
  BY <1>1, FromLeast
<1> QED BY <1>2 DEF W

(* Pushed adds c to the list.                                              *)
LEMMA PushedListed ==
  ASSUME NEW L \in Lists, WellLinked(L), NEW c \in Callout,
         c \notin From(L, L.head)
  PROVE  /\ From(Pushed(L, c), Pushed(L, c).head) = From(L, L.head) \cup {c}
         /\ WellLinked(Pushed(L, c))
<1> DEFINE W == From(L, L.head)
           K == Pushed(L, c)
           V == From(K, K.head)
<1>1. /\ L.head \in Link /\ W \in SUBSET Callout /\ L.head \in W \cup {Null}
      /\ \A d \in W : L.next[d] \in W \cup {Null}
  BY FromClosed DEF Lists
<1>2. /\ K.head = c
      /\ K.next = [L.next EXCEPT ![c] = L.head]
      /\ K.prev = IF L.head = Null THEN [L.prev EXCEPT ![c] = Null]
                  ELSE [L.prev EXCEPT ![c] = Null, ![L.head] = c]
  BY DEF Pushed
<1>3. K \in Lists /\ K.head \in Link
  BY <1>2, PushedTyped DEF Link
<1>4. L.next \in [Callout -> Link] /\ L.prev \in [Callout -> Link]
  BY DEF Lists
<1>5. K.next[c] = L.head /\ \A d \in Callout \ {c} : K.next[d] = L.next[d]
  BY <1>2, <1>4
<1>6. /\ V \in SUBSET Callout /\ K.head \in V \cup {Null}
      /\ \A d \in V : K.next[d] \in V \cup {Null}
  <2> HIDE DEF K
  <2> QED BY <1>3, FromClosed
<1>7. V \subseteq W \cup {c}
  <2> DEFINE S == W \cup {c}
  <2>1. /\ S \in SUBSET Callout /\ K.head \in S \cup {Null}
    BY <1>1, <1>2
  <2>2. \A d \in S : K.next[d] \in S \cup {Null}
    BY <1>1, <1>5
  <2> HIDE DEF S, K
  <2>3. From(K, K.head) \subseteq S
    BY <2>1, <2>2, FromLeast
  <2> QED BY <2>3 DEF S
<1>8. c \in V
  BY <1>2, <1>6, NullApart
<1>9. W \subseteq V
  <2> DEFINE S == {d \in W : d \in V}
  <2>1. S \in SUBSET Callout /\ L.head \in S \cup {Null}
    BY <1>1, <1>5, <1>6, <1>8
  <2>2. \A d \in S : L.next[d] \in S \cup {Null}
    BY <1>1, <1>5, <1>6
  <2>3. S \subseteq V
    OBVIOUS
  <2> HIDE DEF S, K, V
  <2>4. From(L, L.head) \subseteq S
    BY <2>1, <2>2, FromLeast
  <2> QED BY <2>3, <2>4
<1>10. V = W \cup {c}
  BY <1>7, <1>8, <1>9
<1>11. K.prev[c] = Null
  BY <1>1, <1>2, <1>4, NullApart
<1>12. ASSUME NEW d \in V, K.next[d] # Null
       PROVE  K.prev[K.next[d]] = d
  <2>1. CASE d = c
    <3>1. K.next[d] = L.head /\ L.head \in Callout /\ L.head # c
      BY <1>1, <1>5, <1>12, <2>1
    <3> QED BY <1>2, <1>4, <1>12, <2>1, <3>1
  <2>2. CASE d # c
    <3>1. d \in W /\ K.next[d] = L.next[d] /\ L.next[d] \in W
      BY <1>1, <1>5, <1>10, <1>12, <2>2
    <3>2. L.next[d] # c /\ L.next[d] # L.head /\ L.next[d] \in Callout
      BY <1>1, <1>12, <3>1, PrevListed, NullApart
    <3>3. K.prev[L.next[d]] = L.prev[L.next[d]]
      BY <1>2, <1>4, <3>2
    <3> QED BY <1>12, <3>1, <3>3 DEF WellLinked
  <2> QED BY <2>1, <2>2
<1>13. WellLinked(K)
  <2> HIDE DEF K
  <2> QED BY <1>2, <1>11, <1>12 DEF WellLinked
<1> QED BY <1>10, <1>13

(* What taking c out of the list leaves of its links.                      *)
LEMMA UnlinkedLinks ==
  ASSUME NEW L \in Lists, WellLinked(L), NEW c \in From(L, L.head)
  PROVE  /\ Unlinked(L, c) \in Lists
         /\ L.next[c] \in From(L, L.head) \cup {Null}
         /\ Unlinked(L, c).head = IF c = L.head THEN L.next[c] ELSE L.head
         /\ \A d \in From(L, L.head) :
              Unlinked(L, c).next[d] = IF L.next[d] = c THEN L.next[c] ELSE L.next[d]
         /\ \A d \in From(L, L.head) :
              Unlinked(L, c).prev[d] = IF d = L.next[c] THEN L.prev[c] ELSE L.prev[d]
<1> DEFINE W == From(L, L.head)
           K == Unlinked(L, c)
<1>1. /\ L.head \in Link /\ W \in SUBSET Callout /\ L.head \in W \cup {Null}
      /\ \A d \in W : L.next[d] \in W \cup {Null}
  BY FromClosed DEF Lists
<1>2. /\ c = L.head <=> L.prev[c] = Null
      /\ L.prev[c] # Null => L.prev[c] \in W /\ L.next[L.prev[c]] = c
      /\ \A d \in W : L.next[d] = c => L.prev[c] = d
  BY PrevListed
<1>3. L.next \in [Callout -> Link] /\ L.prev \in [Callout -> Link] /\ c \in Callout
  BY <1>1 DEF Lists
<1>4. K \in Lists
  BY <1>3, UnlinkedTyped
<1>5. K.head = IF c = L.head THEN L.next[c] ELSE L.head
  BY <1>2 DEF Unlinked
<1>6. ASSUME NEW d \in W
      PROVE  K.next[d] = IF L.next[d] = c THEN L.next[c] ELSE L.next[d]
  <2>1. K.next = IF L.prev[c] = Null THEN L.next
                 ELSE [L.next EXCEPT ![L.prev[c]] = L.next[c]]
    BY DEF Unlinked
  <2>2. d # Null /\ d \in Callout
    BY <1>1, NullApart
  <2> HIDE DEF K
  <2> QED BY <1>2, <1>3, <2>1, <2>2
<1>7. ASSUME NEW d \in W
      PROVE  K.prev[d] = IF d = L.next[c] THEN L.prev[c] ELSE L.prev[d]
  <2>1. K.prev = IF L.next[c] = Null THEN L.prev
                 ELSE [L.prev EXCEPT ![L.next[c]] = L.prev[c]]
    BY DEF Unlinked
  <2>2. d # Null /\ d \in Callout
    BY <1>1, NullApart
  <2> HIDE DEF K
  <2> QED BY <1>3, <2>1, <2>2
<1> QED BY <1>1, <1>4, <1>5, <1>6, <1>7

(* Unlinked takes c out of the list.                                       *)
LEMMA UnlinkedListed ==
  ASSUME NEW L \in Lists, WellLinked(L), NEW c \in From(L, L.head)
  PROVE  /\ From(Unlinked(L, c), Unlinked(L, c).head) = From(L, L.head) \ {c}
         /\ WellLinked(Unlinked(L, c))
<1> DEFINE W == From(L, L.head)
           K == Unlinked(L, c)
           V == From(K, K.head)
<1>1. /\ L.head \in Link /\ W \in SUBSET Callout /\ L.head \in W \cup {Null}
      /\ \A d \in W : L.next[d] \in W \cup {Null}
  BY FromClosed DEF Lists
<1>2. L.next[c] # c
  BY NoCircle
<1>3. K \in Lists
  BY UnlinkedLinks
<1>4. L.next[c] \in W \cup {Null}
  BY <1>1
<1>5. K.head = IF c = L.head THEN L.next[c] ELSE L.head
  BY UnlinkedLinks
<1>6. \A d \in W : K.next[d] = IF L.next[d] = c THEN L.next[c] ELSE L.next[d]
  BY UnlinkedLinks
<1>7. \A d \in W : K.prev[d] = IF d = L.next[c] THEN L.prev[c] ELSE L.prev[d]
  BY UnlinkedLinks
<1>8. K.head \in Link
  BY <1>1, <1>4, <1>5 DEF Link
<1>9. Null \notin W /\ c \in W
  BY <1>1, NullApart
<1> HIDE DEF K
<1>10. /\ V \in SUBSET Callout /\ K.head \in V \cup {Null}
       /\ \A d \in V : K.next[d] \in V \cup {Null}
  BY <1>3, <1>8, FromClosed
<1>11. V \subseteq W \ {c}
  <2> DEFINE S == W \ {c}
  <2>1. S \in SUBSET Callout /\ K.head \in S \cup {Null}
    BY <1>1, <1>2, <1>4, <1>5
  <2>2. \A d \in S : K.next[d] \in S \cup {Null}
    BY <1>1, <1>2, <1>4, <1>6
  <2> HIDE DEF S
  <2>3. From(K, K.head) \subseteq S
    BY <2>1, <2>2, FromLeast
  <2> QED BY <2>3 DEF S
<1>12. W \ {c} \subseteq V
  <2> DEFINE S == {d \in W : IF d = c THEN L.next[c] \in V \cup {Null} ELSE d \in V}
  <2>1. S \in SUBSET Callout
    BY <1>1
  <2>2. L.head \in S \cup {Null}
    BY <1>1, <1>5, <1>10
  <2>3. ASSUME NEW d \in S PROVE L.next[d] \in S \cup {Null}
    <3>1. CASE d = c
      BY <1>2, <1>4, <2>3, <3>1
    <3>2. CASE d # c /\ L.next[d] = c
      <4>1. K.next[d] = L.next[c] /\ K.next[d] \in V \cup {Null}
        BY <1>6, <1>10, <2>3, <3>2
      <4> QED BY <1>9, <3>2, <4>1
    <3>3. CASE d # c /\ L.next[d] # c
      <4>1. K.next[d] = L.next[d] /\ K.next[d] \in V \cup {Null}
        BY <1>6, <1>10, <2>3, <3>3
      <4> QED BY <1>1, <2>3, <3>3, <4>1
    <3> QED BY <3>1, <3>2, <3>3
  <2>4. S \ {c} \subseteq V
    OBVIOUS
  <2> HIDE DEF S, V
  <2>5. From(L, L.head) \subseteq S
    BY <2>1, <2>2, <2>3, FromLeast
  <2> QED BY <2>4, <2>5
<1>13. V = W \ {c}
  BY <1>11, <1>12
<1>14. ASSUME K.head # Null PROVE K.prev[K.head] = Null
  <2>1. K.head \in W
    BY <1>1, <1>4, <1>5, <1>14
  <2>2. CASE c = L.head
    BY <1>5, <1>7, <2>1, <2>2, PrevListed
  <2>3. CASE c # L.head
    <3>1. K.head = L.head /\ L.head \in W /\ L.prev[L.head] = Null
      BY <1>5, <2>1, <2>3, <1>14 DEF WellLinked
    <3>2. L.head # L.next[c]
      BY <1>9, <3>1, PrevListed
    <3> QED BY <1>7, <3>1, <3>2
  <2> QED BY <2>2, <2>3
<1>15. ASSUME NEW d \in V, K.next[d] # Null PROVE K.prev[K.next[d]] = d
  <2>1. d \in W /\ d # c
    BY <1>13
  <2>2. CASE L.next[d] = c
    <3>1. K.next[d] = L.next[c] /\ L.next[c] \in W
      BY <1>4, <1>6, <1>15, <2>1, <2>2
    <3>2. K.prev[K.next[d]] = L.prev[c]
      BY <1>7, <3>1
    <3> QED BY <2>1, <2>2, <3>2, PrevListed
  <2>3. CASE L.next[d] # c
    <3>1. K.next[d] = L.next[d] /\ L.next[d] \in W /\ L.prev[L.next[d]] = d
      BY <1>1, <1>6, <1>15, <2>1, <2>3 DEF WellLinked
    <3>2. L.next[d] # L.next[c]
      BY <1>9, <2>1, <3>1 DEF WellLinked
    <3> QED BY <1>7, <3>1, <3>2
  <2> QED BY <2>2, <2>3
<1>16. WellLinked(K)
  BY <1>14, <1>15 DEF WellLinked
<1> QED BY <1>13, <1>16 DEF K

(* The rest of a walk that has passed c does not meet it, nor lose its     *)
(* way, when c is pushed or taken out.                                     *)
LEMMA PushedRest ==
  ASSUME NEW L \in Lists, NEW h \in Link, NEW c \in Callout, c \notin From(L, h)
  PROVE  From(Pushed(L, c), h) \subseteq From(L, h)
<1> DEFINE R == From(L, h)
           K == Pushed(L, c)
<1>1. /\ R \in SUBSET Callout /\ h \in R \cup {Null}
      /\ \A d \in R : L.next[d] \in R \cup {Null}
  BY FromClosed
<1>2. \A d \in Callout \ {c} : K.next[d] = L.next[d]
  BY DEF Pushed, Lists
<1>3. \A d \in R : K.next[d] \in R \cup {Null}
  BY <1>1, <1>2
<1> HIDE DEF K, R
<1>4. From(K, h) \subseteq R
  BY <1>1, <1>3, FromLeast
<1> QED BY <1>4 DEF K, R

LEMMA UnlinkedRest ==
  ASSUME NEW L \in Lists, WellLinked(L), NEW c \in From(L, L.head),
         NEW h \in From(L, L.head) \cup {Null}, h # c
  PROVE  From(Unlinked(L, c), h) \subseteq From(L, h) \ {c}
<1> DEFINE W == From(L, L.head)
           R == From(L, h)
           K == Unlinked(L, c)
           S == R \ {c}
<1>1. L.head \in Link /\ W \subseteq Callout
  BY FromClosed DEF Lists
<1>2. h \in Link
  BY <1>1 DEF Link
<1>3. /\ R \subseteq Callout /\ h \in R \cup {Null}
      /\ \A d \in R : L.next[d] \in R \cup {Null}
  BY <1>2, FromClosed
<1>4. R \subseteq W
  BY FromListed
<1>5. \A d \in W : K.next[d] = IF L.next[d] = c THEN L.next[c] ELSE L.next[d]
  BY UnlinkedLinks
<1>6. L.next[c] # c /\ c # Null
  BY <1>1, NoCircle, NullApart
<1>7. S \in SUBSET Callout /\ h \in S \cup {Null}
  BY <1>3
<1>8. ASSUME NEW d \in S PROVE K.next[d] \in S \cup {Null}
  <2>1. d \in W /\ L.next[d] \in R \cup {Null}
    BY <1>3, <1>4
  <2>2. CASE L.next[d] = c
    BY <1>3, <1>5, <1>6, <2>1, <2>2
  <2>3. CASE L.next[d] # c
    BY <1>5, <2>1, <2>3
  <2> QED BY <2>2, <2>3
<1> HIDE DEF K, S, R
<1>9. From(K, h) \subseteq S
  BY <1>7, <1>8, FromLeast
<1> QED BY <1>9 DEF K, S, R

-----------------------------------------------------------------------------
(* The list and the pending callouts.                                      *)
(* The scan, and the walk it goes on with after a callback, stand at a     *)
(* callout that is pending.                                                *)
ScanAtPending ==
  /\ pc = "scan" /\ cur # Null => pending[cur]
  /\ pc = "callback" /\ after # Null => pending[after]

ListInv == TypeOK /\ ListOK /\ ScanAtPending

(* The callouts with CALLOUT_PENDING.                                      *)
Pend == {c \in Callout : pending[c]}

(* ListOK in terms of From.                                                *)
LEMMA ListOKWellLinked == ListOK <=> From(list, list.head) = Pend /\ WellLinked(list)
  BY DEF ListOK, Listed, From, WellLinked, Pend

LEMMA ListsTyped == TypeOK => list \in Lists
  BY DEF TypeOK, Lists, Link

(* callout_reset() of c: c leaves the list if it is on it, and then goes   *)
(* to its head.                                                            *)
LEMMA ResetListed ==
  ASSUME TypeOK, ListOK, NEW c \in Callout, NEW f, NEW d, Reset(c, f, d)
  PROVE  ListOK'
<1> DEFINE L == IF pending[c] THEN Unlinked(list, c) ELSE list
<1>1. list \in Lists /\ From(list, list.head) = Pend /\ WellLinked(list)
  BY ListsTyped, ListOKWellLinked
<1>2. L \in Lists /\ From(L, L.head) = Pend \ {c} /\ WellLinked(L)
  <2>1. CASE pending[c]
    <3>1. c \in From(list, list.head)
      BY <1>1, <2>1 DEF Pend
    <3> QED BY <1>1, <2>1, <3>1, UnlinkedListed, UnlinkedTyped
  <2>2. CASE ~pending[c]
    BY <1>1, <2>2 DEF Pend
  <2> QED BY <2>1, <2>2
<1> HIDE DEF L
<1>3. /\ From(Pushed(L, c), Pushed(L, c).head) = (Pend \ {c}) \cup {c}
      /\ WellLinked(Pushed(L, c))
  BY <1>2, PushedListed
<1>4. list' = Pushed(L, c)
  BY DEF Reset, L
<1>5. Pend' = (Pend \ {c}) \cup {c}
  BY DEF Reset, Pend, TypeOK
<1>6. From(list, list.head)' = Pend' /\ WellLinked(list)'
  BY <1>3, <1>4, <1>5 DEF From, WellLinked
<1> QED BY <1>6, ListOKWellLinked DEF ListOK, Listed, From, WellLinked, Pend

(* callout_stop() of c, or do_timeout() taking off what is due.            *)
LEMMA UnlinkStepListed ==
  ASSUME TypeOK, ListOK, NEW c \in Callout, pending[c],
         list' = Unlinked(list, c), pending' = [pending EXCEPT ![c] = FALSE]
  PROVE  ListOK'
<1>1. list \in Lists /\ From(list, list.head) = Pend /\ WellLinked(list)
  BY ListsTyped, ListOKWellLinked
<1>2. c \in From(list, list.head)
  BY <1>1 DEF Pend
<1>3. /\ From(Unlinked(list, c), Unlinked(list, c).head) = Pend \ {c}
      /\ WellLinked(Unlinked(list, c))
  BY <1>1, <1>2, UnlinkedListed
<1>4. Pend' = Pend \ {c}
  BY DEF Pend, TypeOK
<1>5. From(list, list.head)' = Pend' /\ WellLinked(list)'
  BY <1>3, <1>4 DEF From, WellLinked
<1> QED BY <1>5 DEF ListOK, Listed, From, WellLinked, Pend

(* What follows a pending callout is pending, and it does not follow       *)
(* itself.                                                                 *)
LEMMA NextPending ==
  ASSUME TypeOK, ListOK, NEW c \in Callout, pending[c]
  PROVE  /\ list.next[c] \in Callout \cup {Null} /\ list.next[c] # c
         /\ list.next[c] # Null => pending[list.next[c]]
<1>1. list \in Lists /\ From(list, list.head) = Pend /\ WellLinked(list)
  BY ListsTyped, ListOKWellLinked
<1>2. c \in From(list, list.head) /\ list.head \in Link
  BY <1>1 DEF Pend, Lists
<1>3. list.next[c] \in From(list, list.head) \cup {Null}
  BY <1>1, <1>2, FromClosed
<1> QED BY <1>1, <1>2, <1>3, NoCircle DEF Pend

LEMMA ListStep ==
  ASSUME ~TouchNext, ListInv, [Next]_vars
  PROVE  ListInv'
<1> USE DEF ListInv
<1>1. SUFFICES ListOK' /\ ScanAtPending'
  BY TypeStep
<1>2. ASSUME NEW c \in Callout, NEW f, NEW d, Reset(c, f, d)
      PROVE  ListOK' /\ ScanAtPending'
  <2>1. ListOK'
    BY <1>2, ResetListed
  <2>2. /\ pc \in {"free", "callback"} /\ pc' \in {pc, "setting"}
        /\ after' = after /\ pending' = [pending EXCEPT ![c] = TRUE]
    BY <1>2 DEF Reset, MayTouch
  <2>3. ScanAtPending'
    BY <2>2 DEF ScanAtPending, TypeOK
  <2> QED BY <2>1, <2>3
<1>3. ASSUME NEW c \in Callout, Stop(c)
      PROVE  ListOK' /\ ScanAtPending'
  <2>1. ListOK'
    BY <1>3, UnlinkStepListed DEF Stop
  <2>2. /\ pc \in {"free", "callback"} /\ pc' = pc /\ after' = after
        /\ pc = "callback" => c # after
        /\ pending' = [pending EXCEPT ![c] = FALSE]
    BY <1>3 DEF Stop, MayTouch
  <2>3. ScanAtPending'
    BY <2>2 DEF ScanAtPending, TypeOK
  <2> QED BY <2>1, <2>3
<1>4. ASSUME NEW c \in Own, NEW d \in Delays, Reset(c, Null, d)
      PROVE  ListOK' /\ ScanAtPending'
  BY <1>2, <1>4 DEF Callout
<1>5. ASSUME NEW c \in Own, Stop(c) PROVE ListOK' /\ ScanAtPending'
  BY <1>3, <1>5 DEF Callout
<1>6. ASSUME NEW f \in Fun, NEW d \in Delays, Timeout(f, d)
      PROVE  ListOK' /\ ScanAtPending'
  BY <1>2, <1>6, SlotTyped DEF Timeout
<1>7. ASSUME NEW f \in Fun, Untimeout(f) PROVE ListOK' /\ ScanAtPending'
  BY <1>3, <1>7, SlotTyped DEF Untimeout
<1>8. ASSUME UNCHANGED <<list, pending>> PROVE ListOK'
  BY <1>8 DEF ListOK, Listed
<1>9. CASE SetAlarm
  BY <1>8, <1>9 DEF SetAlarm, fields, ScanAtPending
<1>10. CASE ClockTick
  BY <1>8, <1>10 DEF ClockTick, fields, ScanAtPending
<1>11. CASE TakeFlag
  BY <1>8, <1>11 DEF TakeFlag, fields, ScanAtPending
<1>12. CASE StartScan
  <2>1. list.head \in From(list, list.head) \cup {Null}
    BY FromClosed, ListsTyped DEF Lists
  <2>2. list.head # Null => pending[list.head]
    BY <2>1, ListOKWellLinked DEF Pend
  <2> QED BY <1>8, <1>12, <2>2 DEF StartScan, fields, ScanAtPending
<1>13. CASE ScanOver
  <2>1. cur \in Callout /\ pending[cur]
    BY <1>13 DEF ScanOver, ScanAtPending, TypeOK
  <2>2. cur' # Null => pending[cur']
    BY <1>13, <2>1, NextPending DEF ScanOver
  <2> QED BY <1>8, <1>13, <2>2 DEF ScanOver, ScanAtPending
<1>14. CASE ScanFire
  <2>1. cur \in Callout /\ pending[cur]
    BY <1>14 DEF ScanFire, ScanAtPending, TypeOK
  <2>2. ListOK'
    BY <1>14, <2>1, UnlinkStepListed DEF ScanFire
  <2>3. after' # Null => pending[after'] /\ after' # cur /\ after' \in Callout
    BY <1>14, <2>1, NextPending DEF ScanFire
  <2>4. pc' = "callback" /\ pending' = [pending EXCEPT ![cur] = FALSE]
    BY <1>14 DEF ScanFire
  <2>5. ScanAtPending'
    BY <2>1, <2>3, <2>4 DEF ScanAtPending, TypeOK
  <2> QED BY <2>2, <2>5
<1>15. CASE CallbackReturns
  BY <1>8, <1>15 DEF CallbackReturns, fields, ScanAtPending
<1>16. CASE EndScan
  BY <1>8, <1>16 DEF EndScan, fields, ScanAtPending
<1>17. CASE UNCHANGED vars
  BY <1>8, <1>17 DEF vars, fields, ScanAtPending
<1> QED
  BY <1>4, <1>5, <1>6, <1>7, <1>9, <1>10, <1>11, <1>12, <1>13, <1>14, <1>15,
     <1>16, <1>17 DEF Next, AlarmThread

LEMMA ListInit == Init => ListInv
<1> SUFFICES ASSUME Init PROVE ListInv
  OBVIOUS
<1>1. Listed \subseteq {}
  <2> DEFINE S == {}
  <2>1. S \in SUBSET Callout /\ list.head \in S \cup {Null}
    BY DEF Init
  <2>2. \A d \in S : list.next[d] \in S \cup {Null}
    OBVIOUS
  <2> HIDE DEF S
  <2>3. Listed \subseteq S
    BY <2>1, <2>2 DEF Listed
  <2> QED BY <2>3 DEF S
<1>2. ListOK
  BY <1>1 DEF ListOK, Init
<1>3. ScanAtPending
  BY DEF ScanAtPending, Init
<1> QED BY <1>2, <1>3, TypeInit DEF ListInv

LEMMA ListInvariant ==
  ASSUME ~TouchNext
  PROVE  Spec => []ListInv
<1>1. ListInv /\ [Next]_vars => ListInv'
  BY ListStep
<1> QED BY <1>1, ListInit, PTL DEF Spec

(* The list holds exactly the pending callouts and its links agree,        *)
(* whatever threads and callbacks set and stop and in whatever order,      *)
(* before, between and during scans, as long as no callback touches the    *)
(* callout the scan goes to next.                                          *)
THEOREM ListKept ==
  ASSUME ~TouchNext
  PROVE  Spec => []ListOK
<1>1. ListInv => ListOK
  BY DEF ListInv
<1> QED BY <1>1, ListInvariant, PTL

(* do_timeout() calls no callout that was stopped and not set again.       *)
THEOREM NotAfterStop ==
  ASSUME ~TouchNext
  PROVE  Spec => StoppedStays
<1>1. ASSUME ListInv, [Next]_vars
      PROVE  [\A c \in Callout : ScanFire /\ cur = c => pending[c]]_vars
  BY <1>1 DEF ListInv, ScanAtPending, ScanFire
<1>2. Spec => [][Next]_vars
  BY PTL DEF Spec
<1> QED BY <1>1, <1>2, ListInvariant, PTL DEF StoppedStays

-----------------------------------------------------------------------------
(* Alarms and deltas.                                                      *)
(* The callouts that the scan has still to meet.                           *)
Rest == IF pc = "callback" THEN From(list, after) ELSE From(list, cur)

(* No scan is to come.                                                     *)
NoFlag == ~flag /\ ~woken

(* At most one scan is to come.                                            *)
OneScan == ~(flag /\ woken)

(* The alarm or a scan to come stands for lastDelta, and no flag of an     *)
(* alarm that was set before is left over.                                 *)
AlarmInv ==
  /\ now > 0 /\ OneScan
  /\ pc \in {"scan", "callback", "restarting"} => alarm = Off /\ NoFlag
  /\ pc = "setting" => NoFlag /\ lastSet + min > now
  /\ pc = "free" /\ lastDelta = 0 => alarm = Off /\ NoFlag
  /\ pc = "free" /\ lastDelta # 0 =>
       \/ alarm = lastSet + lastDelta /\ alarm > now /\ NoFlag
       \/ alarm = Off /\ lastSet + lastDelta <= now /\ ~NoFlag
  /\ pc \in {"setting", "restarting"} => lastSet > 0
  /\ pc = "free" /\ lastDelta # 0 => lastSet > 0
  /\ pc \in {"scan", "callback"} => min > 0 /\ lastSet + min <= now

(* What delta counts from.                                                 *)
DueInv ==
  \A c \in Callout : pending[c] =>
    /\ pc = "free" =>
         0 < lastDelta /\ lastDelta <= delta[c] /\ due[c] <= lastSet + delta[c]
    /\ pc \in {"setting", "restarting"} =>
         min <= delta[c] /\ due[c] <= lastSet + delta[c]
    /\ pc \in {"scan", "callback"} =>
         0 < delta[c] /\ due[c] <= now + delta[c]
    /\ pc \in {"scan", "callback"} /\ c \in Rest =>
         min <= delta[c] /\ due[c] <= lastSet + delta[c]

IInv == ListInv /\ AlarmInv /\ DueInv

(* The types of the numbers, for the steps that calculate.                 *)
LEMMA Numbers ==
  ASSUME TypeOK
  PROVE  /\ now \in Nat /\ lastSet \in Nat /\ lastSet <= now /\ min \in Nat
         /\ alarm \in Nat /\ lastDelta \in Int
         /\ pc \in {"free", "setting"} => lastDelta \in Nat
         /\ pc \in {"scan", "callback", "restarting"} => lastDelta = -1
         /\ pc \in {"setting", "restarting"} => min > 0
         /\ \A c \in Callout : delta[c] \in Nat /\ due[c] \in Nat
         /\ pc \in {"free", "setting", "scan", "callback", "restarting"}
  BY TimeAssumption DEF TypeOK, Tick

(* callout_reset() by a thread.                                            *)
LEMMA ResetFreeKeeps ==
  ASSUME IInv, NEW c \in Callout, NEW f, NEW d \in Delays, Reset(c, f, d),
         pc = "free"
  PROVE  AlarmInv' /\ DueInv'
<1> USE DEF IInv, ListInv
<1>1. d \in Nat /\ d > 0
  BY TimeAssumption
<1>2. /\ now \in Nat /\ lastSet \in Nat /\ lastSet <= now /\ min \in Nat
      /\ alarm \in Nat /\ lastDelta \in Nat
      /\ \A b \in Callout : delta[b] \in Nat /\ due[b] \in Nat
  BY Numbers
<1>3. /\ pending' = [pending EXCEPT ![c] = TRUE]
      /\ delta' = [delta EXCEPT ![c] = Counted(d)]
      /\ due' = [due EXCEPT ![c] = now + d]
      /\ now' = now /\ alarm' = alarm /\ lastDelta' = lastDelta
  BY DEF Reset
<1>4. /\ delta \in [Callout -> Nat] /\ due \in [Callout -> Nat]
      /\ pending \in [Callout -> BOOLEAN]
  BY DEF TypeOK
<1>5. /\ pending'[c] /\ delta'[c] = Counted(d) /\ due'[c] = now + d
      /\ \A b \in Callout \ {c} :
           (pending'[b] <=> pending[b]) /\ delta'[b] = delta[b] /\ due'[b] = due[b]
  BY <1>3, <1>4
<1>6. (NoFlag' <=> NoFlag) /\ (OneScan' <=> OneScan)
  BY Zenon DEF Reset, NoFlag, OneScan
<1>7. lastDelta > 0 => Counted(d) = d + now - lastSet
  BY <1>2 DEF AlarmInv, Counted
<1>8. lastDelta = 0 => Counted(d) = d
  BY DEF Counted
<1>9. Counted(d) \in Nat /\ Counted(d) > 0
  BY <1>1, <1>2, <1>7, <1>8
<1>10. \A b \in Callout : pending[b] =>
         0 < lastDelta /\ lastDelta <= delta[b] /\ due[b] <= lastSet + delta[b]
  BY DEF DueInv
<1>11. /\ now > 0 /\ OneScan
       /\ lastDelta = 0 => alarm = Off /\ NoFlag
       /\ lastDelta # 0 =>
            \/ alarm = lastSet + lastDelta /\ alarm > now /\ NoFlag
            \/ alarm = Off /\ lastSet + lastDelta <= now /\ ~NoFlag
       /\ lastDelta # 0 => lastSet > 0
  BY DEF AlarmInv
<1>12. CASE Sooner(Counted(d)) /\ pc' = "setting" /\ min' = Counted(d)
            /\ lastSet' = IF lastDelta = 0 THEN now ELSE lastSet
  <2>1. CASE lastDelta = 0
    <3>1. lastSet' = now /\ min' = d /\ NoFlag'
      BY <1>6, <1>8, <1>11, <1>12, <2>1
    <3>2. AlarmInv'
      BY <1>1, <1>2, <1>3, <1>6, <1>11, <1>12, <3>1 DEF AlarmInv
    <3>3. DueInv'
      <4>1. \A b \in Callout : pending'[b] => b = c
        BY <1>5, <1>10, <2>1
      <4> QED BY <1>1, <1>2, <1>5, <1>8, <1>12, <2>1, <3>1, <4>1 DEF DueInv
    <3> QED BY <3>2, <3>3
  <2>2. CASE lastDelta > 0
    <3>1. lastSet' = lastSet /\ Counted(d) < lastDelta /\ Counted(d) = d + now - lastSet
      BY <1>7, <1>12, <2>2 DEF Sooner
    <3>2. lastSet + lastDelta > now
      BY <1>1, <1>2, <3>1
    <3>3. NoFlag' /\ lastSet > 0
      BY <1>2, <1>6, <1>11, <2>2, <3>2
    <3>4. AlarmInv'
      BY <1>1, <1>2, <1>3, <1>6, <1>11, <1>12, <3>1, <3>3 DEF AlarmInv
    <3>5. ASSUME NEW b \in Callout, pending'[b]
          PROVE  min' <= delta'[b] /\ due'[b] <= lastSet' + delta'[b]
      <4>1. CASE b = c
        BY <1>1, <1>2, <1>5, <1>12, <3>1, <4>1
      <4>2. CASE b # c
        <5>1. lastDelta <= delta[b] /\ due[b] <= lastSet + delta[b]
          BY <1>5, <1>10, <3>5, <4>2
        <5> QED BY <1>2, <1>5, <1>9, <1>12, <3>1, <4>2, <5>1
      <4> QED BY <4>1, <4>2
    <3>6. DueInv'
      BY <1>12, <3>5 DEF DueInv
    <3> QED BY <3>4, <3>6
  <2> QED BY <1>2, <2>1, <2>2
<1>13. CASE ~Sooner(Counted(d)) /\ UNCHANGED <<lastSet, min, pc>>
  <2>1. lastDelta > 0 /\ lastDelta <= Counted(d) /\ Counted(d) = d + now - lastSet
    BY <1>2, <1>7, <1>9, <1>13 DEF Sooner
  <2>2. AlarmInv'
    BY <1>3, <1>6, <1>11, <1>13 DEF AlarmInv
  <2>3. ASSUME NEW b \in Callout, pending'[b]
        PROVE  lastDelta <= delta'[b] /\ due'[b] <= lastSet + delta'[b]
    <3>1. CASE b = c
      BY <1>1, <1>2, <1>5, <2>1, <3>1
    <3>2. CASE b # c
      BY <1>5, <1>10, <2>3, <3>2
    <3> QED BY <3>1, <3>2
  <2>4. pc' = "free" /\ lastSet' = lastSet /\ lastDelta' = lastDelta
    BY <1>3, <1>13
  <2>5. DueInv'
    BY <2>1, <2>3, <2>4 DEF DueInv
  <2> QED BY <2>2, <2>5
<1> QED BY <1>12, <1>13 DEF Reset

(* What a callback does to c takes c out of what the scan has still to     *)
(* meet, and adds nothing to it.                                           *)
LEMMA TouchedRest ==
  ASSUME ListInv, NEW c \in Callout, NEW h \in Callout \cup {Null}, h # c,
         h # Null => pending[h]
  PROVE  /\ pending[c] => From(Unlinked(list, c), h) \subseteq From(list, h) \ {c}
         /\ From(Pushed(IF pending[c] THEN Unlinked(list, c) ELSE list, c), h)
              \subseteq From(list, h) \ {c}
<1> DEFINE L == IF pending[c] THEN Unlinked(list, c) ELSE list
<1>1. list \in Lists /\ From(list, list.head) = Pend /\ WellLinked(list)
  BY ListsTyped, ListOKWellLinked DEF ListInv
<1>2. h \in From(list, list.head) \cup {Null} /\ h \in Link
  BY <1>1 DEF Pend, Link
<1>3. ASSUME pending[c]
      PROVE  From(Unlinked(list, c), h) \subseteq From(list, h) \ {c}
  <2>1. c \in From(list, list.head)
    BY <1>1, <1>3 DEF Pend
  <2> QED BY <1>1, <1>2, <2>1, UnlinkedRest
<1>4. L \in Lists
  BY <1>1, UnlinkedTyped
<1>5. From(L, h) \subseteq From(list, h) \ {c}
  <2>1. CASE pending[c]
    BY <1>3, <2>1
  <2>2. CASE ~pending[c]
    <3>1. c \notin From(list, h)
      BY <1>1, <1>2, <2>2, FromListed DEF Pend
    <3> QED BY <2>2, <3>1
  <2> QED BY <2>1, <2>2
<1> HIDE DEF L
<1>6. From(Pushed(L, c), h) \subseteq From(L, h)
  BY <1>2, <1>4, <1>5, PushedRest
<1> QED BY <1>3, <1>5, <1>6 DEF L

(* callout_reset() by a callback.                                          *)
LEMMA ResetCallbackKeeps ==
  ASSUME ~TouchNext, IInv, NEW c \in Callout, NEW f, NEW d \in Delays,
         Reset(c, f, d), pc = "callback"
  PROVE  AlarmInv' /\ DueInv'
<1> USE DEF IInv, ListInv
<1>1. d \in Nat /\ d > 0
  BY TimeAssumption
<1>2. /\ now \in Nat /\ lastSet \in Nat /\ lastSet <= now /\ min \in Nat
      /\ lastDelta = -1
      /\ \A b \in Callout : delta[b] \in Nat /\ due[b] \in Nat
  BY Numbers
<1>3. Counted(d) = d
  BY <1>2 DEF Counted
<1>4. ~Sooner(Counted(d))
  BY <1>1, <1>2, <1>3 DEF Sooner
<1>5. UNCHANGED <<now, alarm, flag, woken, lastDelta, lastSet, min, pc, after>>
  BY <1>4 DEF Reset
<1>6. (NoFlag' <=> NoFlag) /\ (OneScan' <=> OneScan)
  BY <1>5, Zenon DEF NoFlag, OneScan
<1>7. AlarmInv'
  BY <1>5, <1>6 DEF AlarmInv
<1>8. /\ pending'[c] /\ delta'[c] = d /\ due'[c] = now + d
      /\ \A b \in Callout \ {c} :
           (pending'[b] <=> pending[b]) /\ delta'[b] = delta[b] /\ due'[b] = due[b]
  BY <1>3 DEF Reset, TypeOK
<1>9. c # after /\ after \in Callout \cup {Null} /\ (after # Null => pending[after])
  BY DEF Reset, MayTouch, TypeOK, ScanAtPending
<1>10. From(list', after) \subseteq From(list, after) \ {c}
  BY <1>9, TouchedRest DEF Reset
<1>11. Rest = From(list, after)
  BY DEF Rest
<1>12. Rest' = From(list', after)
  BY <1>5 DEF Rest, From
<1>13. ASSUME NEW b \in Callout, pending'[b]
       PROVE  /\ 0 < delta'[b] /\ due'[b] <= now + delta'[b]
              /\ b \in Rest' => min <= delta'[b] /\ due'[b] <= lastSet + delta'[b]
  <2>1. CASE b = c
    BY <1>1, <1>2, <1>8, <1>10, <1>12, <2>1
  <2>2. CASE b # c
    <3>1. pending[b] /\ delta'[b] = delta[b] /\ due'[b] = due[b]
      BY <1>8, <1>13, <2>2
    <3>2. b \in Rest' => b \in Rest
      BY <1>10, <1>11, <1>12
    <3> QED BY <3>1, <3>2 DEF DueInv
  <2> QED BY <2>1, <2>2
<1>14. DueInv'
  BY <1>5, <1>13 DEF DueInv
<1> QED BY <1>7, <1>14

(* callout_stop(), by a thread or a callback.                              *)
LEMMA StopKeeps ==
  ASSUME ~TouchNext, IInv, NEW c \in Callout, Stop(c)
  PROVE  AlarmInv' /\ DueInv'
<1> USE DEF IInv, ListInv
<1>1. UNCHANGED <<now, alarm, flag, woken, delta, lastDelta, lastSet, pc, min, after>>
  BY DEF Stop
<1>2. (NoFlag' <=> NoFlag) /\ (OneScan' <=> OneScan)
  BY <1>1, Zenon DEF NoFlag, OneScan
<1>3. AlarmInv'
  BY <1>1, <1>2 DEF AlarmInv
<1>4. \A b \in Callout : pending'[b] => pending[b] /\ due'[b] = due[b]
  BY DEF Stop, TypeOK
<1>5. pc = "free" \/ pc = "callback"
  BY DEF Stop, MayTouch
<1>6. pc = "callback" => Rest' \subseteq Rest
  <2> SUFFICES ASSUME pc = "callback" PROVE Rest' \subseteq Rest
    OBVIOUS
  <2>1. c # after /\ after \in Callout \cup {Null} /\ (after # Null => pending[after])
    BY DEF Stop, MayTouch, TypeOK, ScanAtPending
  <2>2. From(list', after) \subseteq From(list, after)
    BY <2>1, TouchedRest DEF Stop
  <2>3. Rest = From(list, after) /\ Rest' = From(list', after)
    BY <1>1 DEF Rest, From
  <2> QED BY <2>2, <2>3
<1>7. DueInv'
  BY <1>1, <1>4, <1>5, <1>6 DEF DueInv
<1> QED BY <1>3, <1>7

(* The alarm is set for min, or has come already.                          *)
LEMMA SetAlarmKeeps ==
  ASSUME IInv, SetAlarm
  PROVE  AlarmInv' /\ DueInv'
<1> USE DEF IInv, ListInv
<1>1. /\ now \in Nat /\ lastSet \in Nat /\ lastSet <= now /\ min \in Nat /\ min > 0
      /\ \A b \in Callout : delta[b] \in Nat /\ due[b] \in Nat
  BY Numbers DEF SetAlarm
<1>2. /\ pc \in {"setting", "restarting"} /\ pc' = "free" /\ lastDelta' = min
      /\ now' = now /\ lastSet' = lastSet /\ woken' = woken
      /\ pending' = pending /\ delta' = delta /\ due' = due
  BY DEF SetAlarm, fields
<1>3. now > 0 /\ lastSet > 0 /\ NoFlag
  BY <1>2 DEF AlarmInv
<1>4. CASE lastSet + min > now /\ alarm' = lastSet + min /\ UNCHANGED flag
  <2>1. NoFlag' /\ OneScan'
    BY <1>2, <1>3, <1>4, Zenon DEF NoFlag, OneScan
  <2> QED BY <1>1, <1>2, <1>3, <1>4, <2>1 DEF AlarmInv, DueInv
<1>5. CASE lastSet + min <= now /\ alarm' = Off /\ flag' = TRUE
  <2>1. ~NoFlag' /\ OneScan'
    BY <1>2, <1>3, <1>5, Zenon DEF NoFlag, OneScan
  <2> QED BY <1>1, <1>2, <1>3, <1>5, <2>1 DEF AlarmInv, DueInv
<1> QED BY <1>4, <1>5 DEF SetAlarm

(* No tick comes between the calculation of a delta and the setting of     *)
(* the alarm, so an alarm set by a thread lies ahead.                      *)
LEMMA ClockTickKeeps ==
  ASSUME ~Preempt, IInv, ClockTick
  PROVE  AlarmInv' /\ DueInv'
<1> USE DEF IInv, ListInv
<1>1. /\ now \in Nat /\ lastSet \in Nat /\ lastSet <= now /\ min \in Nat
      /\ alarm \in Nat /\ lastDelta \in Int
      /\ \A b \in Callout : delta[b] \in Nat /\ due[b] \in Nat
  BY Numbers
<1>2. /\ pc # "setting" /\ now' = now + 1
      /\ UNCHANGED <<woken, lastDelta, lastSet, pc, min, cur, after>>
      /\ pending' = pending /\ delta' = delta /\ due' = due /\ list' = list
  BY DEF ClockTick, fields
<1>3. Rest' = Rest
  BY <1>2 DEF Rest, From
<1>4. DueInv'
  BY <1>1, <1>2, <1>3 DEF DueInv
<1>5. CASE alarm = now' /\ flag' = TRUE /\ alarm' = Off
  <2>1. ~NoFlag'
    BY <1>5, Zenon DEF NoFlag
  <2>2. pc = "free" /\ lastDelta # 0 /\ alarm = lastSet + lastDelta /\ NoFlag
    BY <1>1, <1>2, <1>5, Numbers DEF AlarmInv, Off
  <2>3. OneScan'
    BY <1>2, <2>2, Zenon DEF NoFlag, OneScan
  <2> QED BY <1>1, <1>2, <1>4, <1>5, <2>1, <2>2, <2>3 DEF AlarmInv
<1>6. CASE alarm # now' /\ UNCHANGED <<flag, alarm>>
  <2>1. (NoFlag' <=> NoFlag) /\ (OneScan' <=> OneScan)
    BY <1>2, <1>6, Zenon DEF NoFlag, OneScan
  <2> QED BY <1>1, <1>2, <1>4, <1>6, <2>1 DEF AlarmInv
<1> QED BY <1>5, <1>6 DEF ClockTick

(* The steps of the alarm thread.                                          *)
LEMMA TakeFlagKeeps ==
  ASSUME IInv, TakeFlag
  PROVE  AlarmInv' /\ DueInv'
<1> USE DEF IInv, ListInv
<1>1. /\ UNCHANGED <<now, alarm, lastDelta, lastSet, pc, min, cur, after>>
      /\ pending' = pending /\ delta' = delta /\ due' = due /\ list' = list
  BY DEF TakeFlag, fields
<1>2. ~NoFlag /\ ~NoFlag' /\ OneScan'
  BY Zenon DEF TakeFlag, NoFlag, OneScan
<1>3. Rest' = Rest
  BY <1>1 DEF Rest, From
<1>4. AlarmInv'
  BY <1>1, <1>2 DEF AlarmInv
<1>5. DueInv'
  BY <1>1, <1>3 DEF DueInv
<1> QED BY <1>4, <1>5

LEMMA StartScanKeeps ==
  ASSUME IInv, StartScan
  PROVE  AlarmInv' /\ DueInv'
<1> USE DEF IInv, ListInv
<1>1. /\ now \in Nat /\ lastSet \in Nat /\ lastSet <= now /\ lastDelta \in Nat
      /\ \A b \in Callout : delta[b] \in Nat /\ due[b] \in Nat
  BY Numbers DEF StartScan
<1>2. /\ pc = "free" /\ pc' = "scan" /\ min' = lastDelta
      /\ UNCHANGED <<now, alarm, lastSet>>
      /\ pending' = pending /\ delta' = delta /\ due' = due
  BY DEF StartScan, fields
<1>3. ~NoFlag /\ (OneScan => NoFlag' /\ OneScan')
  BY Zenon DEF StartScan, NoFlag, OneScan
<1>4. lastDelta # 0 /\ alarm = Off /\ lastSet + lastDelta <= now
  BY <1>2, <1>3 DEF AlarmInv
<1>5. AlarmInv'
  BY <1>1, <1>2, <1>3, <1>4 DEF AlarmInv
<1>6. DueInv'
  BY <1>1, <1>2, <1>4 DEF DueInv
<1> QED BY <1>5, <1>6

(* The scan goes on past c, which it does not meet again.                  *)
LEMMA PassedRest ==
  ASSUME ListInv, NEW c \in Callout, pending[c]
  PROVE  From(list, list.next[c]) \subseteq From(list, c) \ {c}
<1>1. list \in Lists /\ From(list, list.head) = Pend /\ WellLinked(list)
  BY ListsTyped, ListOKWellLinked DEF ListInv
<1>2. c \in From(list, list.head) /\ c \in Link
  BY <1>1 DEF Pend, Link
<1> DEFINE R == From(list, c)
<1>3. /\ R \in SUBSET Callout /\ c \in R \cup {Null}
      /\ \A d \in R : list.next[d] \in R \cup {Null}
  BY <1>1, <1>2, FromClosed
<1>4. list.next[c] \in R \cup {Null}
  BY <1>3, NullApart
<1> HIDE DEF R
<1>5. From(list, list.next[c]) \subseteq R
  BY <1>3, <1>4, FromLeast
<1>6. c \notin From(list, list.next[c])
  BY <1>1, <1>2, NoCircle
<1> QED BY <1>5, <1>6 DEF R

LEMMA ScanOverKeeps ==
  ASSUME IInv, ScanOver
  PROVE  AlarmInv' /\ DueInv'
<1> USE DEF IInv, ListInv
<1>1. /\ now \in Nat /\ lastSet \in Nat /\ lastSet <= now /\ min \in Nat
      /\ \A b \in Callout : delta[b] \in Nat /\ due[b] \in Nat
  BY Numbers
<1>2. /\ pc = "scan" /\ pc' = "scan" /\ cur' = list.next[cur]
      /\ UNCHANGED <<now, alarm, flag, woken, lastDelta, lastSet, min>>
      /\ pending' = pending /\ due' = due /\ list' = list
  BY DEF ScanOver
<1>3. (NoFlag' <=> NoFlag) /\ (OneScan' <=> OneScan)
  BY <1>2, Zenon DEF NoFlag, OneScan
<1>4. AlarmInv'
  BY <1>2, <1>3 DEF AlarmInv
<1>5. cur \in Callout /\ pending[cur]
  BY DEF ScanOver, ScanAtPending, TypeOK
<1>6. /\ delta'[cur] = IF delta[cur] = 0 THEN 0 ELSE delta[cur] - min
      /\ \A b \in Callout \ {cur} : delta'[b] = delta[b]
  BY <1>5 DEF ScanOver, TypeOK
<1>7. Rest' \subseteq Rest \ {cur} /\ cur \in Rest
  <2>1. Rest = From(list, cur) /\ Rest' = From(list, list.next[cur])
    BY <1>2 DEF Rest, From
  <2>2. cur \in From(list, cur)
    BY <1>5, FromClosed, ListsTyped, NullApart DEF Link
  <2> QED BY <1>5, <2>1, <2>2, PassedRest
<1>8. min > 0 /\ lastSet + min <= now
  BY <1>2 DEF AlarmInv
<1>9. ASSUME NEW b \in Callout, pending'[b]
      PROVE  /\ 0 < delta'[b] /\ due'[b] <= now + delta'[b]
             /\ b \in Rest' => min <= delta'[b] /\ due'[b] <= lastSet + delta'[b]
  <2>1. CASE b = cur
    <3>1. min <= delta[cur] /\ due[cur] <= lastSet + delta[cur]
      BY <1>2, <1>5, <1>7 DEF DueInv
    <3>2. delta[cur] > min
      BY <1>1, <1>5, <1>8, <3>1 DEF ScanOver, Expires
    <3> QED BY <1>1, <1>2, <1>5, <1>6, <1>7, <1>8, <2>1, <3>1, <3>2
  <2>2. CASE b # cur
    <3>1. pending[b] /\ delta'[b] = delta[b] /\ due'[b] = due[b]
      BY <1>2, <1>6, <1>9, <2>2
    <3>2. b \in Rest' => b \in Rest
      BY <1>7
    <3> QED BY <1>2, <3>1, <3>2 DEF DueInv
  <2> QED BY <2>1, <2>2
<1>10. DueInv'
  BY <1>2, <1>9 DEF DueInv
<1> QED BY <1>4, <1>10

(* What fires has waited its delta, counted from last_set_time.            *)
LEMMA ScanFireKeeps ==
  ASSUME IInv, ScanFire
  PROVE  AlarmInv' /\ DueInv' /\ due[cur] <= now
<1> USE DEF IInv, ListInv
<1>1. /\ now \in Nat /\ lastSet \in Nat /\ lastSet <= now /\ min \in Nat
      /\ \A b \in Callout : delta[b] \in Nat /\ due[b] \in Nat
  BY Numbers
<1>2. /\ pc = "scan" /\ pc' = "callback" /\ after' = list.next[cur]
      /\ UNCHANGED <<now, alarm, flag, woken, lastDelta, lastSet, min, cur>>
      /\ list' = Unlinked(list, cur)
  BY DEF ScanFire
<1>3. (NoFlag' <=> NoFlag) /\ (OneScan' <=> OneScan)
  BY <1>2, Zenon DEF NoFlag, OneScan
<1>4. AlarmInv'
  BY <1>2, <1>3 DEF AlarmInv
<1>5. cur \in Callout /\ pending[cur]
  BY DEF ScanFire, ScanAtPending, TypeOK
<1>6. /\ ~pending'[cur]
      /\ \A b \in Callout \ {cur} :
           (pending'[b] <=> pending[b]) /\ delta'[b] = delta[b] /\ due'[b] = due[b]
  BY <1>5 DEF ScanFire, TypeOK
<1>7. Rest' \subseteq Rest /\ cur \in Rest
  <2>1. Rest = From(list, cur) /\ Rest' = From(Unlinked(list, cur), list.next[cur])
    BY <1>2 DEF Rest, From
  <2>2. cur \in From(list, cur)
    BY <1>5, FromClosed, ListsTyped, NullApart DEF Link
  <2>3. From(Unlinked(list, cur), list.next[cur]) \subseteq From(list, list.next[cur])
    BY <1>5, NextPending, TouchedRest
  <2> QED BY <1>5, <2>1, <2>2, <2>3, PassedRest
<1>8. min > 0 /\ lastSet + min <= now
  BY <1>2 DEF AlarmInv
<1>9. due[cur] <= now
  <2>1. min <= delta[cur] /\ due[cur] <= lastSet + delta[cur]
    BY <1>2, <1>5, <1>7 DEF DueInv
  <2>2. delta[cur] <= min
    BY DEF ScanFire, Expires
  <2> QED BY <1>1, <1>5, <1>8, <2>1, <2>2
<1>10. DueInv'
  BY <1>2, <1>6, <1>7 DEF DueInv
<1> QED BY <1>4, <1>9, <1>10

LEMMA CallbackReturnsKeeps ==
  ASSUME IInv, CallbackReturns
  PROVE  AlarmInv' /\ DueInv'
<1> USE DEF IInv, ListInv
<1>1. /\ pc = "callback" /\ pc' = "scan" /\ cur' = after
      /\ UNCHANGED <<now, alarm, flag, woken, lastDelta, lastSet, min>>
      /\ pending' = pending /\ delta' = delta /\ due' = due /\ list' = list
  BY DEF CallbackReturns, fields
<1>2. (NoFlag' <=> NoFlag) /\ (OneScan' <=> OneScan)
  BY <1>1, Zenon DEF NoFlag, OneScan
<1>3. Rest' = Rest
  BY <1>1 DEF Rest, From
<1>4. AlarmInv'
  BY <1>1, <1>2 DEF AlarmInv
<1>5. DueInv'
  BY <1>1, <1>3 DEF DueInv
<1> QED BY <1>4, <1>5

LEMMA EndScanKeeps ==
  ASSUME IInv, EndScan
  PROVE  AlarmInv' /\ DueInv'
<1> USE DEF IInv, ListInv
<1>1. /\ now \in Nat /\ lastSet \in Nat /\ lastSet <= now /\ min \in Nat
      /\ \A b \in Callout : delta[b] \in Nat /\ due[b] \in Nat
  BY Numbers
<1>2. /\ pc = "scan" /\ UNCHANGED <<now, alarm, flag, woken>>
      /\ pending' = pending /\ delta' = delta /\ due' = due
  BY DEF EndScan, fields
<1>3. (NoFlag' <=> NoFlag) /\ (OneScan' <=> OneScan)
  BY <1>2, Zenon DEF NoFlag, OneScan
<1>4. now > 0 /\ alarm = Off /\ NoFlag /\ OneScan
  BY <1>2 DEF AlarmInv
<1>5. ASSUME NEW b \in Callout, pending[b]
      PROVE  delta[b] \in Remaining /\ due[b] <= now + delta[b]
  <2>1. b \in Listed
    BY <1>5 DEF ListOK
  <2>2. 0 < delta[b] /\ due[b] <= now + delta[b]
    BY <1>2, <1>5 DEF DueInv
  <2> QED BY <2>1, <2>2 DEF Remaining
<1>6. CASE /\ min' \in Remaining /\ \A d \in Remaining : min' <= d
           /\ lastSet' = now /\ pc' = "restarting"
  <2>1. AlarmInv'
    BY <1>2, <1>3, <1>4, <1>6 DEF AlarmInv
  <2>2. DueInv'
    BY <1>2, <1>5, <1>6 DEF DueInv
  <2> QED BY <2>1, <2>2
<1>7. CASE Remaining = {} /\ lastDelta' = 0 /\ pc' = "free"
  <2>1. AlarmInv'
    BY <1>2, <1>3, <1>4, <1>7 DEF AlarmInv
  <2>2. DueInv'
    BY <1>2, <1>5, <1>7 DEF DueInv
  <2> QED BY <2>1, <2>2
<1> QED BY <1>6, <1>7 DEF EndScan

LEMMA IInvInit ==
  ASSUME Start > 0, Init
  PROVE  IInv
<1>1. ListInv
  BY ListInit
<1>2. NoFlag /\ OneScan
  BY Zenon DEF Init, NoFlag, OneScan
<1>3. AlarmInv
  BY <1>2 DEF Init, AlarmInv
<1>4. DueInv
  BY DEF Init, DueInv
<1> QED BY <1>1, <1>3, <1>4 DEF IInv

LEMMA IInvStep ==
  ASSUME ~Preempt, ~TouchNext, IInv, [Next]_vars
  PROVE  IInv'
<1>1. ListInv'
  BY ListStep DEF IInv
<1>2. SUFFICES AlarmInv' /\ DueInv'
  BY <1>1 DEF IInv
<1>3. ASSUME NEW c \in Callout, NEW f, NEW d \in Delays, Reset(c, f, d)
      PROVE  AlarmInv' /\ DueInv'
  <2>1. pc = "free" \/ pc = "callback"
    BY <1>3 DEF Reset, MayTouch
  <2> QED BY <1>3, <2>1, ResetFreeKeeps, ResetCallbackKeeps
<1>4. ASSUME NEW c \in Own, NEW d \in Delays, Reset(c, Null, d)
      PROVE  AlarmInv' /\ DueInv'
  BY <1>3, <1>4 DEF Callout
<1>5. ASSUME NEW c \in Own, Stop(c) PROVE AlarmInv' /\ DueInv'
  BY <1>5, StopKeeps DEF Callout
<1>6. ASSUME NEW f \in Fun, NEW d \in Delays, Timeout(f, d)
      PROVE  AlarmInv' /\ DueInv'
  BY <1>3, <1>6, SlotTyped DEF Timeout
<1>7. ASSUME NEW f \in Fun, Untimeout(f) PROVE AlarmInv' /\ DueInv'
  BY <1>7, StopKeeps, SlotTyped DEF Untimeout
<1>8. CASE SetAlarm
  BY <1>8, SetAlarmKeeps
<1>9. CASE ClockTick
  BY <1>9, ClockTickKeeps
<1>10. CASE AlarmThread
  BY <1>10, TakeFlagKeeps, StartScanKeeps, ScanOverKeeps, ScanFireKeeps,
     CallbackReturnsKeeps, EndScanKeeps DEF AlarmThread
<1>11. CASE UNCHANGED vars
  <2>1. (NoFlag' <=> NoFlag) /\ (OneScan' <=> OneScan)
    BY <1>11, Zenon DEF vars, NoFlag, OneScan
  <2>2. Rest' = Rest
    BY <1>11 DEF vars, fields, Rest, From
  <2>3. AlarmInv'
    BY <1>11, <2>1 DEF vars, IInv, AlarmInv
  <2>4. DueInv'
    BY <1>11, <2>2 DEF vars, fields, IInv, DueInv
  <2> QED BY <2>3, <2>4
<1> QED
  BY <1>4, <1>5, <1>6, <1>7, <1>8, <1>9, <1>10, <1>11 DEF Next

LEMMA AlarmInvariant ==
  ASSUME ~Preempt, ~TouchNext, Start > 0
  PROVE  Spec => []IInv
<1>1. Init => IInv
  BY IInvInit
<1>2. IInv /\ [Next]_vars => IInv'
  BY IInvStep
<1> QED BY <1>1, <1>2, PTL DEF Spec

(* No callout is left without an alarm: the alarm is set for the first,    *)
(* or a scan is to come, whenever the mutex is free.                       *)
THEOREM AlwaysCovered ==
  ASSUME ~Preempt, ~TouchNext, Start > 0
  PROVE  Spec => []Covered
<1>1. ASSUME IInv PROVE Covered
  <2> SUFFICES ASSUME pc = "free", NEW c \in Callout, pending[c]
               PROVE  /\ 0 < lastDelta /\ lastDelta <= delta[c]
                      /\ flag \/ woken \/ alarm = lastSet + lastDelta
    BY DEF Covered
  <2>1. 0 < lastDelta /\ lastDelta <= delta[c]
    BY <1>1 DEF IInv, DueInv
  <2>2. ~NoFlag \/ alarm = lastSet + lastDelta
    BY <1>1, <2>1 DEF IInv, AlarmInv
  <2>3. flag \/ woken \/ alarm = lastSet + lastDelta
    BY <2>2, Zenon DEF NoFlag
  <2> QED BY <2>1, <2>3
<1> QED BY <1>1, AlarmInvariant, PTL

(* do_timeout() calls no callout before the time its caller asked for:     *)
(* deltas that count from different alarms are never mixed up.             *)
THEOREM NotBeforeDue ==
  ASSUME ~Preempt, ~TouchNext, Start > 0
  PROVE  Spec => NeverEarly
<1>1. ASSUME IInv, [Next]_vars
      PROVE  [\A c \in Callout : ScanFire /\ cur = c => due[c] <= now]_vars
  BY <1>1, ScanFireKeeps
<1>2. Spec => [][Next]_vars
  BY PTL DEF Spec
<1> QED BY <1>1, <1>2, AlarmInvariant, PTL DEF NeverEarly
=============================================================================
