--------------------------- MODULE NetSynchProofs ---------------------------
(***************************************************************************)
(* Theorems on NetSynch, for any threads, levels, channels and numbers of  *)
(* slots and any nesting.                                                  *)
(***************************************************************************)
EXTENDS NetSynch, SequenceTheorems, TLAPS

Entry == [raised : Level, old : SUBSET Level]

(* The levels of a stack, those below its k-th entry, and a stack whose    *)
(* entries say what was raised before them.                                *)
Above(n) == {n[k].raised : k \in DOMAIN n}
Below(n, k) == {n[j].raised : j \in 1 .. k - 1}
Stacked(n) == \A k \in DOMAIN n : n[k].old = Below(n, k)

LEMMA EmptyAbove ==
  ASSUME NEW n \in Seq(Entry)
  PROVE  Above(n) = {} <=> n = <<>>
<1>1. ASSUME n # <<>> PROVE n[1].raised \in Above(n)
  BY <1>1 DEF Above
<1>2. ASSUME n = <<>> PROVE Above(n) = {}
  BY <1>2 DEF Above
<1> QED BY <1>1, <1>2

LEMMA PushAbove ==
  ASSUME NEW n \in Seq(Entry), Stacked(n), NEW w \in Level,
         NEW e, e = [raised |-> w, old |-> Above(n)]
  PROVE  /\ Append(n, e) \in Seq(Entry) /\ Append(n, e) # <<>>
         /\ Stacked(Append(n, e))
         /\ Above(Append(n, e)) = Above(n) \cup {w}
<1> DEFINE m == Append(n, e)
<1>1. Above(n) \subseteq Level
  <2>1. \A k \in DOMAIN n : n[k] \in Entry
    OBVIOUS
  <2>2. \A k \in DOMAIN n : n[k].raised \in Level
    BY <2>1 DEF Entry
  <2> QED BY <2>2 DEF Above
<1>2. e \in Entry
  BY <1>1 DEF Entry
<1>3. m \in Seq(Entry) /\ Len(m) = Len(n) + 1 /\ DOMAIN m = 1 .. Len(n) + 1
      /\ DOMAIN n = 1 .. Len(n) /\ Len(n) \in Nat
  BY <1>2
<1>4. \A k \in 1 .. Len(n) : m[k] = n[k]
  BY <1>2
<1>5. m[Len(n) + 1] = e
  BY <1>2
<1>6. m # <<>>
  BY <1>3
<1>7. ASSUME NEW k \in 1 .. Len(n) + 1 PROVE Below(m, k) = Below(n, k)
  <2>1. \A j \in 1 .. k - 1 : j \in 1 .. Len(n)
    BY <1>3
  <2> QED BY <2>1, <1>4 DEF Below
<1>8. Below(n, Len(n) + 1) = Above(n)
  <2>1. 1 .. (Len(n) + 1) - 1 = DOMAIN n
    BY <1>3
  <2> QED BY <2>1 DEF Below, Above
<1>9. ASSUME NEW k \in DOMAIN m PROVE m[k].old = Below(m, k)
  <2>1. CASE k = Len(n) + 1
    BY <2>1, <1>3, <1>5, <1>7, <1>8
  <2>2. CASE k \in 1 .. Len(n)
    BY <2>2, <1>3, <1>4, <1>7 DEF Stacked
  <2> QED BY <2>1, <2>2, <1>3
<1>10. Above(m) = Above(n) \cup {w}
  <2>1. ASSUME NEW x \in Above(m) PROVE x \in Above(n) \cup {w}
    <3>1. PICK k \in DOMAIN m : x = m[k].raised
      BY DEF Above
    <3>2. CASE k = Len(n) + 1
      BY <3>1, <3>2, <1>5
    <3>3. CASE k \in 1 .. Len(n)
      BY <3>1, <3>3, <1>3, <1>4 DEF Above
    <3> QED BY <3>2, <3>3, <1>3
  <2>2. w \in Above(m)
    <3>1. Len(n) + 1 \in DOMAIN m
      BY <1>3
    <3> QED BY <3>1, <1>5 DEF Above
  <2>3. ASSUME NEW x \in Above(n) PROVE x \in Above(m)
    <3>1. PICK k \in DOMAIN n : x = n[k].raised
      BY DEF Above
    <3>2. k \in DOMAIN m /\ m[k] = n[k]
      BY <1>3, <1>4
    <3> QED BY <3>1, <3>2 DEF Above
  <2> QED BY <2>1, <2>2, <2>3
<1> QED BY <1>3, <1>6, <1>9, <1>10 DEF Stacked

LEMMA PopAbove ==
  ASSUME NEW n \in Seq(Entry), n # <<>>, Stacked(n),
         NEW m, m = SubSeq(n, 1, Len(n) - 1)
  PROVE  /\ m \in Seq(Entry)
         /\ Stacked(m)
         /\ Above(m) = n[Len(n)].old
         /\ Above(m) \subseteq Above(n)
<1>1. Len(n) \in Nat \ {0} /\ DOMAIN n = 1 .. Len(n)
  BY EmptySeq
<1>2. m \in Seq(Entry) /\ Len(m) = Len(n) - 1 /\ DOMAIN m = 1 .. Len(n) - 1
      /\ \A k \in 1 .. Len(n) - 1 : m[k] = n[k]
  BY <1>1
<1>3. ASSUME NEW k \in 1 .. Len(n) PROVE Below(m, k) = Below(n, k)
  <2>1. \A j \in 1 .. k - 1 : j \in 1 .. Len(n) - 1
    BY <1>1
  <2> QED BY <2>1, <1>2 DEF Below
<1>4. Stacked(m)
  <2> SUFFICES ASSUME NEW k \in DOMAIN m PROVE m[k].old = Below(m, k)
    BY DEF Stacked
  <2>1. k \in 1 .. Len(n) /\ m[k] = n[k]
    BY <1>1, <1>2
  <2> QED BY <2>1, <1>1, <1>3 DEF Stacked
<1>5. Above(m) = Below(m, Len(n))
  BY <1>1, <1>2 DEF Above, Below
<1>6. Above(m) = n[Len(n)].old
  BY <1>1, <1>3, <1>5 DEF Stacked
<1>7. Above(m) \subseteq Above(n)
  BY <1>1, <1>2 DEF Above
<1> QED BY <1>2, <1>4, <1>6, <1>7

-----------------------------------------------------------------------------
(* The slots: every sleeper has one of its own, on its channel, and one    *)
(* that is to wake has been posted while it slept.                         *)
Sleeping == {"asleep", "posted", "broken"}
Slotted ==
  /\ \A t \in Thread : pc[t] \in Sleeping => slot[t] \in Slot /\ chan[slot[t]] \in Chan
  /\ \A s, t \in Thread :
       pc[s] \in Sleeping /\ pc[t] \in Sleeping /\ slot[s] = slot[t] => s = t
  /\ \A t \in Thread : pc[t] = "posted" => sem[slot[t]] > 0 /\ signalled[t]

SlotInv == TypeOK /\ Slotted /\ NoLostWakeup

LEMMA SlotInit == Init => SlotInv
<1> SUFFICES ASSUME Init PROVE SlotInv
  OBVIOUS
<1>1. TypeOK
  <2>1. <<>> \in Seq([raised : Level, old : SUBSET Level])
    OBVIOUS
  <2> QED BY <2>1 DEF Init, TypeOK, PC
<1>2. Slotted /\ NoLostWakeup
  BY DEF Init, Slotted, NoLostWakeup, Sleeping
<1> QED BY <1>1, <1>2 DEF SlotInv

(* Moves in and out of the levels: the slots and sleepers stay.            *)
LEMMA Elsewhere ==
  ASSUME SlotInv, NEW t \in Thread, pc[t] \notin Sleeping,
         NEW where \in PC \ Sleeping,
         pc' = [pc EXCEPT ![t] = where] \/ pc' = pc,
         ready' \subseteq ready, UNCHANGED <<events, sleeper>>
  PROVE  Slotted' /\ NoLostWakeup'
<1>1. pc \in [Thread -> PC]
  BY DEF SlotInv, TypeOK
<1>2. \A s \in Thread : pc'[s] \in Sleeping => pc[s] \in Sleeping /\ pc'[s] = pc[s]
  BY <1>1 DEF Sleeping
<1>3. chan' = chan /\ sem' = sem /\ slot' = slot /\ signalled' = signalled /\ saved' = saved
  BY DEF events, sleeper
<1>4. Slotted'
  BY <1>2, <1>3 DEF SlotInv, Slotted, Sleeping
<1>5. NoLostWakeup'
  BY <1>2, <1>3 DEF SlotInv, NoLostWakeup, Sleeping
<1> QED BY <1>4, <1>5

LEMMA SplTestKeeps ==
  ASSUME SlotInv, NEW t \in Thread, splTest(t)
  PROVE  SlotInv'
<1>1. TypeOK'
  BY DEF SlotInv, TypeOK, splTest, Goto, spl, events, sleeper, PC
<1>2. \E where \in {"free", "taken"} : pc' = [pc EXCEPT ![t] = where]
  BY DEF splTest, Goto
<1>3. Slotted' /\ NoLostWakeup'
  BY <1>2, Elsewhere DEF splTest, Sleeping, PC
<1> QED BY <1>1, <1>3 DEF SlotInv

LEMMA SplNestedKeeps ==
  ASSUME SlotInv, NEW t \in Thread, NEW w \in Level, splNested(t, w)
  PROVE  SlotInv'
<1>1. nest' \in [Thread -> Seq([raised : Level, old : SUBSET Level])]
  <2>1. [raised |-> w, old |-> spl_state] \in [raised : Level, old : SUBSET Level]
    BY DEF SlotInv, TypeOK
  <2>2. Append(nest[t], [raised |-> w, old |-> spl_state])
          \in Seq([raised : Level, old : SUBSET Level])
    BY <2>1, AppendProperties DEF SlotInv, TypeOK
  <2> QED BY <2>2 DEF splNested, SlotInv, TypeOK
<1>2. TypeOK'
  BY <1>1 DEF SlotInv, TypeOK, splNested, events, sleeper
<1>3. Slotted' /\ NoLostWakeup'
  BY Elsewhere DEF splNested, Sleeping, PC
<1> QED BY <1>2, <1>3 DEF SlotInv

LEMMA InsideTyped ==
  ASSUME TypeOK, NEW t \in Thread, NEW w \in Level, Inside(t, w)
  PROVE  /\ splx_thread' \in Thread \cup {NoThread} /\ spl_state' \subseteq Level
         /\ nest' \in [Thread -> Seq([raised : Level, old : SUBSET Level])]
         /\ pc' \in [Thread -> PC]
<1>1. [raised |-> w, old |-> {}] \in [raised : Level, old : SUBSET Level]
  OBVIOUS
<1>2. Append(nest[t], [raised |-> w, old |-> {}])
        \in Seq([raised : Level, old : SUBSET Level])
  BY <1>1, AppendProperties DEF TypeOK
<1> QED BY <1>2 DEF Inside, TypeOK, Goto, PC

LEMMA SplLockedKeeps ==
  ASSUME SlotInv, NEW t \in Thread, NEW w \in Level, splLocked(t, w)
  PROVE  SlotInv'
<1>1. TypeOK'
  BY InsideTyped DEF SlotInv, TypeOK, splLocked, events, sleeper
<1>2. Slotted' /\ NoLostWakeup'
  BY Elsewhere DEF splLocked, Inside, Goto, Sleeping, PC
<1> QED BY <1>1, <1>2 DEF SlotInv

LEMMA SplGetsKeeps ==
  ASSUME SlotInv, NEW t \in Thread, splGets(t)
  PROVE  SlotInv'
<1>1. TypeOK'
  BY DEF SlotInv, TypeOK, splGets, Goto, events, sleeper, PC
<1>2. Slotted' /\ NoLostWakeup'
  BY Elsewhere DEF splGets, Goto, Sleeping, PC
<1> QED BY <1>1, <1>2 DEF SlotInv

LEMMA SplEntersKeeps ==
  ASSUME SlotInv, NEW t \in Thread, NEW w \in Level, splEnters(t, w)
  PROVE  SlotInv'
<1>1. TypeOK'
  BY InsideTyped DEF SlotInv, TypeOK, splEnters, events, sleeper
<1>2. Slotted' /\ NoLostWakeup'
  BY Elsewhere DEF splEnters, Inside, Goto, Sleeping, PC
<1> QED BY <1>1, <1>2 DEF SlotInv

LEMMA SplxKeeps ==
  ASSUME SlotInv, NEW t \in Thread, splx(t)
  PROVE  SlotInv'
<1> DEFINE n == nest[t]
           m == SubSeq(n, 1, Len(n) - 1)
<1>1. n \in Seq([raised : Level, old : SUBSET Level]) /\ n # <<>>
  BY DEF SlotInv, TypeOK, splx
<1>2. Len(n) \in Nat \ {0}
  BY <1>1, EmptySeq
<1>3. \A k \in 1 .. Len(n) : n[k] \in [raised : Level, old : SUBSET Level]
  BY <1>1, ElementOfSeq
<1>4. m \in Seq([raised : Level, old : SUBSET Level])
  <2>1. \A k \in 1 .. Len(n) - 1 : n[k] \in [raised : Level, old : SUBSET Level]
    BY <1>2, <1>3
  <2> QED BY <2>1, <1>2, SubSeqProperties
<1>5. n[Len(n)].old \subseteq Level
  <2>1. n[Len(n)] \in [raised : Level, old : SUBSET Level]
    <3>1. Len(n) \in 1 .. Len(n)
      BY <1>2
    <3> QED BY <3>1, <1>3
  <2> QED BY <2>1
<1>6. nest' = [nest EXCEPT ![t] = m]
  BY DEF splx
<1>7. TypeOK'
  BY <1>4, <1>5, <1>6 DEF SlotInv, TypeOK, splx, Remains, events, sleeper
<1>8. Slotted' /\ NoLostWakeup'
  BY Elsewhere DEF splx, Sleeping, PC
<1> QED BY <1>7, <1>8 DEF SlotInv

LEMMA ConsumeKeeps ==
  ASSUME SlotInv, NEW t \in Thread, NEW c \in Chan, Consume(t, c)
  PROVE  SlotInv'
<1>1. TypeOK'
  BY DEF SlotInv, TypeOK, Consume, spl, events, sleeper
<1>2. Slotted' /\ NoLostWakeup'
  BY Elsewhere DEF Consume, Sleeping, PC
<1> QED BY <1>1, <1>2 DEF SlotInv

(* Going to sleep: the slot was free, so no other sleeper has it.          *)
LEMMA TsleepKeeps ==
  ASSUME SlotInv, NEW t \in Thread, NEW c \in Chan, tsleep(t, c)
  PROVE  SlotInv'
<1>1. PICK i \in Slot :
        /\ chan[i] = Free
        /\ chan' = [chan EXCEPT ![i] = c]
        /\ sem' = [sem EXCEPT ![i] = 0]
        /\ slot' = [slot EXCEPT ![t] = i]
        /\ pc' = [pc EXCEPT ![t] = IF sem'[i] = 0 THEN "asleep" ELSE "posted"]
  BY DEF tsleep, FirstFree, SemInit, Goto
<1>2. sem'[i] = 0 /\ pc' = [pc EXCEPT ![t] = "asleep"]
  BY <1>1 DEF SlotInv, TypeOK
<1>3. TypeOK'
  BY <1>1, <1>2 DEF SlotInv, TypeOK, tsleep, spl, PC
<1>4. pc[t] \notin Sleeping
  BY DEF tsleep, Sleeping
<1>5. ASSUME NEW s \in Thread, s # t, pc'[s] \in Sleeping
      PROVE  /\ pc[s] = pc'[s] /\ slot'[s] = slot[s] /\ slot[s] \in Slot /\ slot[s] # i
             /\ chan'[slot[s]] = chan[slot[s]] /\ chan[slot[s]] \in Chan
             /\ sem'[slot[s]] = sem[slot[s]] /\ signalled'[s] = signalled[s]
             /\ saved'[s] = saved[s]
  <2>1. pc[s] = pc'[s] /\ slot'[s] = slot[s] /\ signalled'[s] = signalled[s]
        /\ saved'[s] = saved[s]
    BY <1>1, <1>2, <1>5 DEF SlotInv, TypeOK, tsleep
  <2>2. slot[s] \in Slot /\ chan[slot[s]] \in Chan
    BY <1>5, <2>1 DEF SlotInv, Slotted
  <2>3. slot[s] # i
    BY <1>1, <2>2, SlotAssumption
  <2> QED BY <1>1, <2>1, <2>2, <2>3 DEF SlotInv, TypeOK
<1>6. pc'[t] = "asleep" /\ slot'[t] = i /\ chan'[i] = c
  BY <1>1, <1>2 DEF SlotInv, TypeOK
<1>7. Slotted'
  BY <1>5, <1>6 DEF SlotInv, Slotted, Sleeping
<1>8. NoLostWakeup'
  <2> SUFFICES ASSUME NEW s \in Thread, pc'[s] = "asleep", saved'[s] # {}
               PROVE  chan'[slot'[s]] \notin ready'
    BY DEF NoLostWakeup
  <2>1. ready' = ready
    BY DEF tsleep
  <2>2. CASE s = t
    <3>1. splx_thread = t
      BY <2>2 DEF tsleep, SlotInv, TypeOK
    <3> QED BY <2>1, <2>2, <3>1, <1>6 DEF tsleep
  <2>3. CASE s # t
    BY <2>1, <2>3, <1>5 DEF SlotInv, NoLostWakeup, Sleeping
  <2> QED BY <2>2, <2>3
<1> QED BY <1>3, <1>7, <1>8 DEF SlotInv

(* The sleepers of c are all posted, so c may become ready.                *)
LEMMA WakeupKeeps ==
  ASSUME SlotInv, NEW t \in Thread, NEW c \in Chan, wakeup(t, c)
  PROVE  SlotInv'
<1> DEFINE Woken(s) == pc[s] = "asleep" /\ slot[s] \in Posted(c)
<1>1. /\ pc' = [s \in Thread |-> IF Woken(s) THEN "posted" ELSE pc[s]]
      /\ signalled' = [s \in Thread |-> signalled[s] \/ Woken(s)]
      /\ sem' = [i \in Slot |-> IF i \in Posted(c) THEN sem[i] + 1 ELSE sem[i]]
      /\ chan' = chan /\ slot' = slot /\ saved' = saved
      /\ ready' \subseteq ready \cup {c}
  BY DEF wakeup
<1>2. \A i \in Slot : sem[i] \in Nat /\ sem'[i] \in Nat /\ sem'[i] >= sem[i]
        /\ (i \in Posted(c) => sem'[i] > 0)
  BY <1>1 DEF SlotInv, TypeOK
<1>3. TypeOK'
  <2>1. signalled' \in [Thread -> BOOLEAN]
    BY <1>1 DEF SlotInv, TypeOK
  <2>2. pc' \in [Thread -> PC]
    BY <1>1 DEF SlotInv, TypeOK, PC
  <2>3. sem' \in [Slot -> Nat]
    BY <1>1, <1>2
  <2> QED BY <1>1, <2>1, <2>2, <2>3 DEF SlotInv, TypeOK, wakeup, spl
<1>4. ASSUME NEW s \in Thread, pc'[s] \in Sleeping PROVE pc[s] \in Sleeping
  BY <1>1, <1>4 DEF Sleeping
<1>5. ASSUME NEW s \in Thread, pc'[s] = "posted"
      PROVE  sem'[slot[s]] > 0 /\ signalled'[s]
  <2>1. slot[s] \in Slot
    BY <1>4, <1>5 DEF SlotInv, Slotted, Sleeping
  <2>2. CASE Woken(s)
    BY <2>1, <2>2, <1>1, <1>2
  <2>3. CASE ~Woken(s)
    <3>1. pc[s] = "posted"
      BY <2>3, <1>1, <1>5
    <3>2. sem[slot[s]] > 0 /\ signalled[s]
      BY <3>1 DEF SlotInv, Slotted
    <3>3. signalled'[s]
      BY <1>1, <3>2
    <3> QED BY <3>2, <3>3, <2>1, <1>2
  <2> QED BY <2>2, <2>3
<1>6. Slotted'
  BY <1>1, <1>4, <1>5 DEF SlotInv, Slotted
<1>7. NoLostWakeup'
  <2> SUFFICES ASSUME NEW s \in Thread, pc'[s] = "asleep", saved'[s] # {}
               PROVE  chan'[slot'[s]] \notin ready'
    BY DEF NoLostWakeup
  <2>1. pc[s] = "asleep" /\ ~Woken(s)
    BY <1>1
  <2>2. slot[s] \in Slot
    BY <2>1 DEF SlotInv, Slotted, Sleeping
  <2>3. chan[slot[s]] # c
    BY <2>1, <2>2 DEF Posted
  <2>4. chan[slot[s]] \notin ready
    BY <2>1, <1>1 DEF SlotInv, NoLostWakeup
  <2> QED BY <2>3, <2>4, <1>1
<1> QED BY <1>3, <1>6, <1>7 DEF SlotInv

LEMMA BrokenKeeps ==
  ASSUME SlotInv, NEW t \in Thread, Broken(t)
  PROVE  SlotInv'
<1>1. TypeOK'
  BY DEF SlotInv, TypeOK, Broken, Goto, spl, events, sleeper, PC
<1>2. \A s \in Thread : pc'[s] = pc[s] \/ (s = t /\ pc[s] = "asleep" /\ pc'[s] = "broken")
  BY DEF SlotInv, TypeOK, Broken, Goto
<1>3. Slotted' /\ NoLostWakeup'
  BY <1>2 DEF SlotInv, Slotted, NoLostWakeup, Sleeping, Broken, events, sleeper
<1> QED BY <1>1, <1>3 DEF SlotInv

(* A thread that wakes gives up its slot, and with it nobody else's.       *)
LEMMA WakesKeeps ==
  ASSUME SlotInv, NEW t \in Thread, Wakes(t)
  PROVE  SlotInv'
<1>1. pc[t] \in Sleeping /\ slot[t] \in Slot
  BY DEF Wakes, SlotInv, Slotted, Sleeping
<1>2. /\ chan' = [chan EXCEPT ![slot[t]] = Free]
      /\ slot' = [slot EXCEPT ![t] = NoSlot]
      /\ signalled' = [signalled EXCEPT ![t] = FALSE]
      /\ ready' = ready /\ nest' = nest
  BY DEF Wakes
<1>3. sem' \in [Slot -> Nat] /\ \A i \in Slot : i # slot[t] => sem'[i] = sem[i]
  <2>1. CASE pc[t] = "posted"
    <3>1. sem[slot[t]] \in Nat /\ sem[slot[t]] > 0
      BY <2>1, <1>1 DEF SlotInv, Slotted, TypeOK
    <3>2. sem[slot[t]] - 1 \in Nat
      BY <3>1
    <3> QED BY <2>1, <3>2 DEF Wakes, Claimed, SlotInv, TypeOK
  <2>2. CASE pc[t] # "posted"
    BY <2>2 DEF Wakes, Claimed, SlotInv, TypeOK
  <2> QED BY <2>1, <2>2
<1>4. PICK where \in {"out", "relock"} : pc' = [pc EXCEPT ![t] = where]
  BY DEF Wakes, Goto, Restore
<1>5. /\ mutex' \in Thread \cup {NoThread} /\ splx_thread' \in Thread \cup {NoThread}
      /\ spl_state' \subseteq Level /\ saved' \in [Thread -> SUBSET Level]
      /\ \A s \in Thread \ {t} : saved'[s] = saved[s]
  BY DEF Wakes, Restore, Restored, SlotInv, TypeOK, spl
<1>6. TypeOK'
  <2>1. signalled' \in [Thread -> BOOLEAN]
    BY <1>2 DEF SlotInv, TypeOK
  <2>2. pc' \in [Thread -> PC]
    BY <1>4 DEF SlotInv, TypeOK, PC
  <2>3. chan' \in [Slot -> Chan \cup {Free}] /\ slot' \in [Thread -> Slot \cup {NoSlot}]
    BY <1>2 DEF SlotInv, TypeOK
  <2> QED BY <1>2, <1>3, <1>5, <2>1, <2>2, <2>3 DEF SlotInv, TypeOK
<1>7. ASSUME NEW s \in Thread, pc'[s] \in Sleeping
      PROVE  /\ s # t /\ pc[s] = pc'[s] /\ slot'[s] = slot[s] /\ slot[s] \in Slot
             /\ chan'[slot[s]] = chan[slot[s]] /\ chan[slot[s]] \in Chan
             /\ sem'[slot[s]] = sem[slot[s]] /\ signalled'[s] = signalled[s]
             /\ saved'[s] = saved[s]
  <2>1. s # t /\ pc[s] = pc'[s] /\ slot'[s] = slot[s] /\ signalled'[s] = signalled[s]
    BY <1>2, <1>4, <1>7 DEF SlotInv, TypeOK, Sleeping
  <2>2. slot[s] \in Slot /\ chan[slot[s]] \in Chan /\ slot[s] # slot[t]
    BY <1>1, <1>7, <2>1 DEF SlotInv, Slotted
  <2> QED BY <1>2, <1>3, <1>5, <2>1, <2>2 DEF SlotInv, TypeOK
<1>8. Slotted'
  BY <1>7 DEF SlotInv, Slotted, Sleeping
<1>9. NoLostWakeup'
  <2> SUFFICES ASSUME NEW s \in Thread, pc'[s] = "asleep", saved'[s] # {}
               PROVE  chan'[slot'[s]] \notin ready'
    BY DEF NoLostWakeup
  <2>1. pc[s] = "asleep" /\ saved[s] # {} /\ chan'[slot'[s]] = chan[slot[s]]
    BY <1>7 DEF Sleeping
  <2> QED BY <2>1, <1>2 DEF SlotInv, NoLostWakeup
<1> QED BY <1>6, <1>8, <1>9 DEF SlotInv

LEMMA RelocksKeeps ==
  ASSUME SlotInv, NEW t \in Thread, Relocks(t)
  PROVE  SlotInv'
<1>1. TypeOK'
  BY DEF SlotInv, TypeOK, Relocks, Restore, Restored, Goto, events, PC
<1>2. \A s \in Thread : pc'[s] \in Sleeping => s # t /\ pc'[s] = pc[s]
  BY DEF SlotInv, TypeOK, Relocks, Restore, Goto, Sleeping
<1>3. \A s \in Thread \ {t} : saved'[s] = saved[s]
  BY DEF SlotInv, TypeOK, Relocks, Restore
<1>4. Slotted'
  BY <1>2 DEF SlotInv, Slotted, Sleeping, Relocks, events
<1>5. NoLostWakeup'
  BY <1>2, <1>3 DEF SlotInv, NoLostWakeup, Sleeping, Relocks, events
<1> QED BY <1>1, <1>4, <1>5 DEF SlotInv

LEMMA SlotStep == SlotInv /\ [Next]_vars => SlotInv'
<1> SUFFICES ASSUME SlotInv, [Next]_vars PROVE SlotInv'
  OBVIOUS
<1>1. CASE UNCHANGED vars
  BY <1>1 DEF vars, spl, events, sleeper, SlotInv, TypeOK, Slotted, NoLostWakeup
<1>2. ASSUME Next PROVE SlotInv'
  <2>1. PICK t \in Thread :
          \/ splTest(t) \/ splGets(t) \/ splx(t)
          \/ \E w \in Level : splNested(t, w) \/ splLocked(t, w) \/ splEnters(t, w)
          \/ \E c \in Chan : tsleep(t, c) \/ wakeup(t, c) \/ Consume(t, c)
          \/ Broken(t) \/ Wakes(t) \/ Relocks(t)
    BY <1>2 DEF Next
  <2>2. CASE splTest(t) \/ splGets(t) \/ splx(t)
    BY <2>2, SplTestKeeps, SplGetsKeeps, SplxKeeps
  <2>3. CASE \E w \in Level : splNested(t, w) \/ splLocked(t, w) \/ splEnters(t, w)
    BY <2>3, SplNestedKeeps, SplLockedKeeps, SplEntersKeeps
  <2>4. CASE \E c \in Chan : tsleep(t, c) \/ wakeup(t, c) \/ Consume(t, c)
    BY <2>4, TsleepKeeps, WakeupKeeps, ConsumeKeeps
  <2>5. CASE Broken(t) \/ Wakes(t) \/ Relocks(t)
    BY <2>5, BrokenKeeps, WakesKeeps, RelocksKeeps
  <2> QED BY <2>1, <2>2, <2>3, <2>4, <2>5
<1> QED BY <1>1, <1>2

LEMMA SlotAlways == Spec => []SlotInv
  BY SlotInit, SlotStep, PTL DEF Spec

(* Type correctness; no count falls below zero.                            *)
THEOREM SynchTypeCorrect == Spec => []TypeOK
<1>1. SlotInv => TypeOK
  BY DEF SlotInv
<1> QED BY <1>1, SlotAlways, PTL

(* tsleep() returns 0 only to a thread that was woken while it slept, even *)
(* when threads are released at any wait (synch.c:347).                    *)
THEOREM NoPostIsStale == Spec => []NoStaleWakeup
<1>1. SlotInv => NoStaleWakeup
  BY DEF SlotInv, Slotted, NoStaleWakeup
<1> QED BY <1>1, SlotAlways, PTL

(* A thread that went to sleep inside a level does not sleep while what it *)
(* waits for is there, even when threads are released at any wait          *)
(* (synch.c:336).                                                          *)
THEOREM NoWakeupIsLost == Spec => []NoLostWakeup
<1>1. SlotInv => NoLostWakeup
  BY DEF SlotInv
<1> QED BY <1>1, SlotAlways, PTL

-----------------------------------------------------------------------------
(* The levels: splx_thread is the owner of the mutex while it is inside,   *)
(* and spl_state is what it has raised; the others are outside every level *)
(* or asleep, with what they have raised saved.                            *)
Owner ==
  /\ mutex = NoThread => splx_thread = NoThread
  /\ splx_thread = NoThread <=> spl_state = {}
  /\ \A t \in Thread :
       /\ splx_thread = t => mutex = t /\ pc[t] = "out" /\ nest[t] # <<>>
       /\ pc[t] = "got" => mutex = t /\ splx_thread = NoThread

Nested(t) ==
  /\ Stacked(nest[t])
  /\ pc[t] = "out" /\ nest[t] # <<>> => splx_thread = t /\ spl_state = Above(nest[t])
  /\ pc[t] \in {"free", "taken", "got"} => nest[t] = <<>>
  /\ pc[t] \in Sleeping \cup {"relock"} => saved[t] = Above(nest[t])
  /\ pc[t] = "relock" => nest[t] # <<>>

LevelInv == TypeOK /\ Owner /\ \A t \in Thread : Nested(t)

LEMMA LevelInit == Init => LevelInv
<1> SUFFICES ASSUME Init PROVE LevelInv
  OBVIOUS
<1>1. TypeOK
  BY SlotInit DEF SlotInv
<1>2. Owner
  BY ThreadAssumption DEF Init, Owner
<1>3. ASSUME NEW t \in Thread PROVE Nested(t)
  BY DEF Init, Nested, Stacked, Sleeping
<1> QED BY <1>1, <1>2, <1>3 DEF LevelInv

LEMMA Stack ==
  ASSUME TypeOK, NEW t \in Thread
  PROVE  nest[t] \in Seq(Entry)
  BY DEF TypeOK, Entry

(* A step of t leaves the others where they are: only a thread that is not *)
(* inside, or the one that is, changes the note of the owner.              *)
LEMMA OtherKeeps ==
  ASSUME LevelInv, NEW t \in Thread, NEW s \in Thread, s # t,
         pc'[s] = pc[s], nest'[s] = nest[s], saved'[s] = saved[s],
         (splx_thread' = splx_thread /\ spl_state' = spl_state)
           \/ splx_thread \in {t, NoThread}
  PROVE  Nested(s)'
<1>1. Nested(s)
  BY DEF LevelInv
<1>2. pc[s] = "out" /\ nest[s] # <<>> =>
        splx_thread' = s /\ spl_state' = Above(nest[s])
  BY <1>1, ThreadAssumption DEF Nested
<1> QED BY <1>1, <1>2 DEF Nested

LEMMA SplTestLevels ==
  ASSUME LevelInv, TypeOK', NEW t \in Thread, splTest(t)
  PROVE  LevelInv'
<1>1. pc'[t] \in {"free", "taken"} /\ nest' = nest
      /\ \A s \in Thread \ {t} : pc'[s] = pc[s]
  BY DEF LevelInv, TypeOK, splTest, Goto
<1>2. Nested(t)'
  BY <1>1 DEF LevelInv, Nested, splTest, Sleeping
<1>3. ASSUME NEW s \in Thread \ {t} PROVE Nested(s)'
  BY <1>1, OtherKeeps DEF splTest, spl, sleeper
<1>4. Owner'
  BY <1>1 DEF LevelInv, Owner, splTest, spl
<1> QED BY <1>2, <1>3, <1>4 DEF LevelInv

LEMMA SplNestedLevels ==
  ASSUME LevelInv, TypeOK', NEW t \in Thread, NEW w \in Level, splNested(t, w)
  PROVE  LevelInv'
<1> DEFINE e == [raised |-> w, old |-> spl_state]
<1>1. spl_state = Above(nest[t]) /\ Stacked(nest[t]) /\ nest[t] \in Seq(Entry)
  BY Stack DEF LevelInv, Owner, Nested, splNested
<1>2. nest'[t] = Append(nest[t], e) /\ \A s \in Thread \ {t} : nest'[s] = nest[s]
  BY DEF splNested, LevelInv, TypeOK
<1>3. /\ Append(nest[t], e) # <<>> /\ Stacked(Append(nest[t], e))
      /\ Above(Append(nest[t], e)) = Above(nest[t]) \cup {w}
  <2>1. e = [raised |-> w, old |-> Above(nest[t])]
    BY <1>1
  <2> QED BY <1>1, <2>1, PushAbove
<1>4. Nested(t)'
  BY <1>1, <1>2, <1>3 DEF splNested, Nested, Sleeping
<1>5. ASSUME NEW s \in Thread \ {t} PROVE Nested(s)'
  BY <1>2, OtherKeeps DEF splNested, sleeper
<1>6. Owner'
  BY <1>2, <1>3, ThreadAssumption DEF LevelInv, Owner, splNested
<1> QED BY <1>4, <1>5, <1>6 DEF LevelInv

LEMMA InsideLevels ==
  ASSUME LevelInv, TypeOK', NEW t \in Thread, NEW w \in Level,
         pc[t] \in {"free", "got"}, splx_thread = NoThread,
         mutex \in {NoThread, t}, mutex' = t, Inside(t, w), UNCHANGED saved
  PROVE  LevelInv'
<1> DEFINE e == [raised |-> w, old |-> {}]
<1>1. nest[t] = <<>> /\ spl_state = {}
  BY DEF LevelInv, Nested, Owner
<1>2. nest[t] \in Seq(Entry) /\ Above(nest[t]) = {} /\ Stacked(nest[t])
  BY <1>1, Stack, EmptyAbove DEF LevelInv, Stacked
<1>3. nest'[t] = Append(nest[t], e) /\ \A s \in Thread \ {t} : nest'[s] = nest[s]
  BY DEF Inside, LevelInv, TypeOK
<1>4. /\ Append(nest[t], e) # <<>> /\ Stacked(Append(nest[t], e))
      /\ Above(Append(nest[t], e)) = {w}
  <2>1. e = [raised |-> w, old |-> Above(nest[t])]
    BY <1>2
  <2>2. /\ Append(nest[t], e) # <<>> /\ Stacked(Append(nest[t], e))
        /\ Above(Append(nest[t], e)) = Above(nest[t]) \cup {w}
    BY <1>2, <2>1, PushAbove
  <2> QED BY <1>2, <2>2
<1>5. pc'[t] = "out" /\ \A s \in Thread \ {t} : pc'[s] = pc[s]
  BY DEF Inside, Goto, LevelInv, TypeOK
<1>6. splx_thread' = t /\ spl_state' = {w}
  BY <1>1 DEF Inside
<1>7. Nested(t)'
  BY <1>3, <1>4, <1>5, <1>6 DEF Nested, Sleeping
<1>8. ASSUME NEW s \in Thread \ {t} PROVE Nested(s)'
  BY <1>3, <1>5, OtherKeeps
<1>9. \A s \in Thread \ {t} : pc[s] # "got" \/ mutex = s
  BY DEF LevelInv, Owner
<1>10. Owner'
  BY <1>3, <1>4, <1>5, <1>6, <1>9, ThreadAssumption DEF Owner
<1> QED BY <1>7, <1>8, <1>10 DEF LevelInv

LEMMA SplLockedLevels ==
  ASSUME LevelInv, TypeOK', NEW t \in Thread, NEW w \in Level, splLocked(t, w)
  PROVE  LevelInv'
<1>1. splx_thread = NoThread
  BY DEF LevelInv, Owner, splLocked
<1> QED BY <1>1, InsideLevels DEF splLocked, sleeper

LEMMA SplEntersLevels ==
  ASSUME LevelInv, TypeOK', NEW t \in Thread, NEW w \in Level, splEnters(t, w)
  PROVE  LevelInv'
<1>1. mutex = t /\ splx_thread = NoThread
  BY DEF LevelInv, Owner, splEnters
<1> QED BY <1>1, InsideLevels DEF splEnters, sleeper

LEMMA SplGetsLevels ==
  ASSUME LevelInv, TypeOK', NEW t \in Thread, splGets(t)
  PROVE  LevelInv'
<1>1. pc'[t] = "got" /\ \A s \in Thread \ {t} : pc'[s] = pc[s]
  BY DEF LevelInv, TypeOK, splGets, Goto
<1>2. Nested(t)'
  BY <1>1 DEF LevelInv, Nested, splGets, Sleeping
<1>3. ASSUME NEW s \in Thread \ {t} PROVE Nested(s)'
  BY <1>1, OtherKeeps DEF splGets, sleeper
<1>4. splx_thread = NoThread /\ \A s \in Thread : pc[s] # "got"
  BY ThreadAssumption DEF LevelInv, Owner, splGets
<1>5. Owner'
  BY <1>1, <1>4, ThreadAssumption DEF LevelInv, Owner, splGets
<1> QED BY <1>2, <1>3, <1>5 DEF LevelInv

LEMMA SplxLevels ==
  ASSUME LevelInv, TypeOK', NEW t \in Thread, splx(t)
  PROVE  LevelInv'
<1> DEFINE n == nest[t]
           m == SubSeq(n, 1, Len(n) - 1)
<1>1. n \in Seq(Entry) /\ n # <<>> /\ Stacked(n)
      /\ splx_thread = t /\ mutex = t /\ spl_state = Above(n)
  BY Stack DEF LevelInv, Owner, Nested, splx
<1>2. /\ m \in Seq(Entry) /\ Stacked(m) /\ Above(m) = n[Len(n)].old
      /\ Above(m) \subseteq Above(n)
  BY <1>1, PopAbove
<1>3. Above(m) = {} <=> m = <<>>
  BY <1>2, EmptyAbove
<1>4. nest'[t] = m /\ (\A s \in Thread \ {t} : nest'[s] = nest[s]) /\ pc' = pc
  BY DEF splx, LevelInv, TypeOK
<1>5. spl_state' = Above(m)
  BY <1>1, <1>2 DEF splx, Remains
<1>6. \/ Above(m) = {} /\ splx_thread' = NoThread /\ mutex' = NoThread
      \/ Above(m) # {} /\ splx_thread' = t /\ mutex' = t
  BY <1>1, <1>2 DEF splx, Remains
<1>7. pc[t] = "out"
  BY DEF splx
<1>8. Nested(t)'
  BY <1>2, <1>3, <1>4, <1>5, <1>6, <1>7 DEF Nested, Sleeping
<1>9. ASSUME NEW s \in Thread \ {t} PROVE Nested(s)'
  BY <1>1, <1>4, OtherKeeps DEF splx, sleeper
<1>10. Owner'
  <2>1. \A s \in Thread : pc'[s] # "got"
    BY <1>1, <1>4, ThreadAssumption DEF LevelInv, Owner
  <2> QED BY <1>3, <1>4, <1>5, <1>6, <1>7, <2>1, ThreadAssumption DEF Owner
<1> QED BY <1>8, <1>9, <1>10 DEF LevelInv

LEMMA TsleepLevels ==
  ASSUME LevelInv, TypeOK', NEW t \in Thread, NEW c \in Chan, tsleep(t, c)
  PROVE  LevelInv'
<1>1. pc'[t] \in {"asleep", "posted"} /\ \A s \in Thread \ {t} : pc'[s] = pc[s]
  BY DEF LevelInv, TypeOK, tsleep, Goto
<1>2. nest' = nest /\ saved'[t] = (IF splx_thread = t THEN spl_state ELSE {})
      /\ \A s \in Thread \ {t} : saved'[s] = saved[s]
  BY DEF LevelInv, TypeOK, tsleep
<1>3. pc[t] = "out"
  BY DEF tsleep
<1>4. saved'[t] = Above(nest[t])
  <2>1. CASE splx_thread = t
    BY <2>1, <1>2, <1>3 DEF LevelInv, Owner, Nested
  <2>2. CASE splx_thread # t
    BY <2>2, <1>2, <1>3, EmptyAbove, Stack DEF LevelInv, Nested
  <2> QED BY <2>1, <2>2
<1>5. Nested(t)'
  BY <1>1, <1>2, <1>4 DEF LevelInv, Nested, Sleeping
<1>6. ASSUME NEW s \in Thread \ {t} PROVE Nested(s)'
  BY <1>1, <1>2, OtherKeeps DEF tsleep, spl
<1>7. Owner'
  <2>1. CASE splx_thread = t
    <3>1. splx_thread' = NoThread /\ spl_state' = {} /\ mutex' = NoThread
      BY <2>1 DEF tsleep
    <3>2. \A s \in Thread : pc[s] # "got"
      BY <2>1, ThreadAssumption DEF LevelInv, Owner
    <3> QED BY <3>1, <3>2, <1>1, ThreadAssumption DEF Owner
  <2>2. CASE splx_thread # t
    BY <2>2, <1>1, <1>2 DEF LevelInv, Owner, tsleep, spl
  <2> QED BY <2>1, <2>2
<1> QED BY <1>5, <1>6, <1>7 DEF LevelInv

(* Steps that only move sleepers.                                          *)
LEMMA SleeperLevels ==
  ASSUME LevelInv, TypeOK', UNCHANGED <<spl, nest, saved>>,
         \A s \in Thread : pc'[s] = pc[s] \/ {pc'[s], pc[s]} \subseteq Sleeping
  PROVE  LevelInv'
<1>1. ASSUME NEW s \in Thread PROVE Nested(s)'
  BY DEF LevelInv, Nested, Sleeping, spl
<1>2. Owner'
  BY DEF LevelInv, Owner, Sleeping, spl
<1> QED BY <1>1, <1>2 DEF LevelInv

LEMMA WakeupLevels ==
  ASSUME LevelInv, TypeOK', NEW t \in Thread, NEW c \in Chan, wakeup(t, c)
  PROVE  LevelInv'
<1>1. \A s \in Thread : pc'[s] = pc[s] \/ (pc[s] = "asleep" /\ pc'[s] = "posted")
  BY DEF wakeup
<1> QED BY <1>1, SleeperLevels DEF wakeup, Sleeping

LEMMA BrokenLevels ==
  ASSUME LevelInv, TypeOK', NEW t \in Thread, Broken(t)
  PROVE  LevelInv'
<1>1. \A s \in Thread : pc'[s] = pc[s] \/ (pc[s] = "asleep" /\ pc'[s] = "broken")
  BY DEF LevelInv, TypeOK, Broken, Goto
<1> QED BY <1>1, SleeperLevels DEF Broken, Sleeping, sleeper

LEMMA ConsumeLevels ==
  ASSUME LevelInv, TypeOK', NEW t \in Thread, NEW c \in Chan, Consume(t, c)
  PROVE  LevelInv'
  BY SleeperLevels DEF Consume, sleeper

(* The end of tsleep() with the mutex: the levels are those of before.     *)
LEMMA RestoreLevels ==
  ASSUME LevelInv, TypeOK', NEW t \in Thread, pc[t] \in Sleeping \cup {"relock"},
         saved[t] # {}, mutex = NoThread, mutex' = t, Restore(t), UNCHANGED nest
  PROVE  LevelInv'
<1>1. splx_thread = NoThread
  BY DEF LevelInv, Owner
<1>2. splx_thread' = t /\ spl_state' = saved[t]
  BY DEF Restore, Restored
<1>3. saved[t] = Above(nest[t]) /\ nest[t] # <<>> /\ Stacked(nest[t])
  BY EmptyAbove, Stack DEF LevelInv, Nested
<1>4. pc'[t] = "out" /\ \A s \in Thread \ {t} : pc'[s] = pc[s] /\ saved'[s] = saved[s]
  BY DEF Restore, Goto, LevelInv, TypeOK
<1>5. Nested(t)'
  BY <1>2, <1>3, <1>4 DEF Nested, Sleeping
<1>6. ASSUME NEW s \in Thread \ {t} PROVE Nested(s)'
  BY <1>1, <1>4, OtherKeeps
<1>7. \A s \in Thread : pc[s] # "got"
  BY ThreadAssumption DEF LevelInv, Owner
<1>8. Owner'
  BY <1>2, <1>3, <1>4, <1>7, ThreadAssumption DEF Owner
<1> QED BY <1>5, <1>6, <1>8 DEF LevelInv

LEMMA WakesLevels ==
  ASSUME LevelInv, TypeOK', NEW t \in Thread, Wakes(t)
  PROVE  LevelInv'
<1>1. pc[t] \in Sleeping /\ nest' = nest
  BY DEF Wakes, Sleeping
<1>2. saved[t] = Above(nest[t]) /\ Stacked(nest[t])
  BY <1>1 DEF LevelInv, Nested
<1>3. saved[t] = {} <=> nest[t] = <<>>
  BY <1>2, EmptyAbove, Stack DEF LevelInv
<1>4. CASE saved[t] # {} /\ mutex = NoThread
  BY <1>1, <1>4, RestoreLevels DEF Wakes
<1>5. CASE saved[t] = {} \/ mutex # NoThread
  <2>1. PICK where \in {"out", "relock"} :
          /\ pc' = [pc EXCEPT ![t] = where]
          /\ where = "out" <=> saved[t] = {}
          /\ UNCHANGED <<spl, saved>>
    BY <1>5 DEF Wakes, Goto
  <2>2. pc'[t] = where /\ \A s \in Thread \ {t} : pc'[s] = pc[s]
    BY <2>1 DEF LevelInv, TypeOK
  <2>3. Nested(t)'
    BY <1>1, <1>2, <1>3, <2>1, <2>2 DEF Nested, Sleeping
  <2>4. ASSUME NEW s \in Thread \ {t} PROVE Nested(s)'
    BY <1>1, <2>1, <2>2, OtherKeeps DEF spl
  <2>5. Owner'
    BY <1>1, <2>1, <2>2 DEF LevelInv, Owner, Sleeping, spl
  <2> QED BY <2>3, <2>4, <2>5 DEF LevelInv
<1> QED BY <1>4, <1>5

LEMMA RelocksLevels ==
  ASSUME LevelInv, TypeOK', NEW t \in Thread, Relocks(t), "relock" \notin Breakable
  PROVE  LevelInv'
<1>1. mutex = NoThread /\ mutex' = t /\ pc[t] = "relock"
  BY DEF Relocks
<1>2. saved[t] # {}
  BY <1>1, EmptyAbove, Stack DEF LevelInv, Nested
<1> QED BY <1>1, <1>2, RestoreLevels DEF Relocks

LEMMA LevelStep ==
  ASSUME "relock" \notin Breakable
  PROVE  SlotInv /\ LevelInv /\ [Next]_vars => LevelInv'
<1> SUFFICES ASSUME SlotInv, LevelInv, [Next]_vars PROVE LevelInv'
  OBVIOUS
<1>1. TypeOK'
  BY SlotStep DEF SlotInv
<1>2. CASE UNCHANGED vars
  BY <1>1, <1>2, SleeperLevels DEF vars, sleeper
<1>3. ASSUME Next PROVE LevelInv'
  <2>1. PICK t \in Thread :
          \/ splTest(t) \/ splGets(t) \/ splx(t)
          \/ \E w \in Level : splNested(t, w) \/ splLocked(t, w) \/ splEnters(t, w)
          \/ \E c \in Chan : tsleep(t, c) \/ wakeup(t, c) \/ Consume(t, c)
          \/ Broken(t) \/ Wakes(t) \/ Relocks(t)
    BY <1>3 DEF Next
  <2>2. CASE splTest(t) \/ splGets(t) \/ splx(t)
    BY <1>1, <2>2, SplTestLevels, SplGetsLevels, SplxLevels
  <2>3. CASE \E w \in Level : splNested(t, w) \/ splLocked(t, w) \/ splEnters(t, w)
    BY <1>1, <2>3, SplNestedLevels, SplLockedLevels, SplEntersLevels
  <2>4. CASE \E c \in Chan : tsleep(t, c) \/ wakeup(t, c) \/ Consume(t, c)
    BY <1>1, <2>4, TsleepLevels, WakeupLevels, ConsumeLevels
  <2>5. CASE Broken(t) \/ Wakes(t) \/ Relocks(t)
    BY <1>1, <2>5, BrokenLevels, WakesLevels, RelocksLevels
  <2> QED BY <2>1, <2>2, <2>3, <2>4, <2>5
<1> QED BY <1>2, <1>3

(* A thread that has raised levels and is not asleep has them to itself,   *)
(* all of them, and after tsleep() the same ones as before, provided that  *)
(* no thread is released while tsleep() takes the mutex back               *)
(* (synch.c:123, 238, 377).                                                *)
THEOREM LevelsAreExclusive ==
  ASSUME "relock" \notin Breakable
  PROVE  Spec => []Exclusive
<1>1. LevelInv => Exclusive
  BY DEF LevelInv, Owner, Nested, Exclusive, Raised, Above
<1>2. SlotInv /\ LevelInv /\ [Next]_vars => LevelInv'
  BY LevelStep
<1>3. Spec => []SlotInv
  BY SlotAlways
<1> QED BY <1>1, <1>2, <1>3, LevelInit, PTL DEF Spec
=============================================================================
