------------------------- MODULE CounterAlarmProofs -------------------------
(***************************************************************************)
(* Theorems on CounterAlarm, for any set of alarms, any width of the tick  *)
(* count, any settings and any nesting of alarm functions.                 *)
(***************************************************************************)
EXTENDS CounterAlarm, SequenceTheorems, TLAPS

(* The remainder of a division by a positive number is below it.           *)
LEMMA RemainderInRange ==
  ASSUME NEW x \in Int, NEW w \in Nat \ {0}
  PROVE  x % w \in 0 .. w - 1
  BY SMT

LEMMA WidthPositive == Width \in Nat \ {0} /\ 0 \in TickCount /\ TickCount \subseteq Nat
  BY CountAssumption DEF TickCount

(* synchronize() yields a tick count.                                      *)
LEMMA SynchronizedTyped ==
  ASSUME counter \in TickCount, NEW t \in TickCount, NEW i \in TickCount
  PROVE  Synchronized(t, i) \in TickCount
<1> DEFINE d == (counter + i - t) % Width
<1>1. CASE i # 0 /\ d > i
  <2>1. i \in Nat \ {0} /\ t \in Int /\ counter \in Int
    BY <1>1, WidthPositive
  <2>2. d \in Int
    BY <2>1, WidthPositive, RemainderInRange DEF TickCount
  <2>3. (d - 1) \div i \in Int
    BY <2>1, <2>2
  <2> HIDE DEF d
  <2>4. t + i * ((d - 1) \div i) \in Int
    BY <2>1, <2>3
  <2>5. (t + i * ((d - 1) \div i)) % Width \in 0 .. Width - 1
    BY <2>4, WidthPositive, RemainderInRange
  <2> USE DEF d
  <2> QED BY <1>1, <2>5 DEF Synchronized, TickCount
<1>2. CASE ~(i # 0 /\ d > i)
  BY <1>2 DEF Synchronized
<1> QED BY <1>1, <1>2

LEMMA SumTyped ==
  ASSUME NEW t \in TickCount, NEW i \in TickCount
  PROVE  (t + i) % Width \in TickCount
<1>1. t + i \in Int
  BY WidthPositive
<1> QED BY <1>1, WidthPositive, RemainderInRange DEF TickCount

LEMMA CallTyped ==
  ASSUME NEW by \in Callers, NEW a \in Alarm
  PROVE  Call(by, a) \in Frame /\ Call(by, a).by = by /\ Call(by, a).alarm = a
  BY BoundAssumption DEF Call, Frame

(* Charging a call to the innermost function leaves the frames alone but   *)
(* for what that function has left.                                        *)
LEMMA ChargedTyped ==
  ASSUME calls \in Seq(Frame), MayCall
  PROVE  /\ Charged \in Seq(Frame)
         /\ Len(Charged) = Len(calls)
         /\ \A k \in 1 .. Len(calls) : /\ Charged[k].by = calls[k].by
                                       /\ Charged[k].alarm = calls[k].alarm
<1>1. CASE calls = <<>>
  BY <1>1 DEF Charged
<1>2. CASE calls # <<>>
  <2>1. Len(calls) \in 1 .. Len(calls) /\ Top \in Frame
    BY <1>2 DEF Top
  <2>2. Top.left - 1 \in 0 .. MaxCalls
    BY <1>2, <2>1, BoundAssumption DEF MayCall, Frame
  <2>3. [Top EXCEPT !.left = @ - 1] \in Frame
    BY <2>1, <2>2 DEF Frame
  <2>4. Charged = [calls EXCEPT ![Len(calls)] = [Top EXCEPT !.left = @ - 1]]
    BY <1>2 DEF Charged, Top
  <2>5. Charged \in Seq(Frame) /\ Len(Charged) = Len(calls)
    BY <2>1, <2>3, <2>4
  <2>6. \A k \in 1 .. Len(calls) : /\ Charged[k].by = calls[k].by
                                   /\ Charged[k].alarm = calls[k].alarm
    BY <2>1, <2>4 DEF Top, Frame
  <2> QED BY <2>5, <2>6
<1> QED BY <1>1, <1>2

LEMMA PushTyped ==
  ASSUME calls \in Seq(Frame), MayCall, NEW a \in Alarm
  PROVE  Append(Charged, Call("add", a)) \in Seq(Frame)
  BY ChargedTyped, CallTyped DEF Callers

LEMMA FreshTyped ==
  ASSUME NEW by \in Callers, NEW a \in Alarm
  PROVE  <<Call(by, a)>> \in Seq(Frame)
  BY CallTyped

LEMMA BelowTyped ==
  ASSUME calls \in Seq(Frame), calls # <<>>
  PROVE  /\ Below \in Seq(Frame) /\ Len(Below) = Len(calls) - 1
         /\ \A k \in 1 .. Len(calls) - 1 : Below[k] = calls[k]
<1> DEFINE n == Len(calls) - 1
<1>1. 1 \in Int /\ n \in Nat
  OBVIOUS
<1>2. \A i \in 1 .. n : calls[i] \in Frame
  OBVIOUS
<1>3. /\ SubSeq(calls, 1, n) \in Seq(Frame)
      /\ Len(SubSeq(calls, 1, n)) = IF 1 <= n THEN n - 1 + 1 ELSE 0
      /\ \A i \in 1 .. n - 1 + 1 : SubSeq(calls, 1, n)[i] = calls[1 + i - 1]
  <2> HIDE DEF n
  <2> QED BY <1>1, <1>2, SubSeqProperties
<1>4. Below = SubSeq(calls, 1, n)
  BY DEF Below
<1>5. (IF 1 <= n THEN n - 1 + 1 ELSE 0) = n /\ n - 1 + 1 = n
  <2> HIDE DEF n
  <2> QED BY <1>1
<1>6. ASSUME NEW k \in 1 .. n PROVE Below[k] = calls[k]
  <2> HIDE DEF n
  <2>1. k \in 1 .. n - 1 + 1 /\ 1 + k - 1 = k
    BY <1>1, <1>5
  <2>2. SubSeq(calls, 1, n)[k] = calls[1 + k - 1]
    BY <1>3, <2>1
  <2> QED BY <1>4, <2>1, <2>2
<1>7. Len(Below) = n
  BY <1>3, <1>4, <1>5
<1> QED BY <1>3, <1>4, <1>6, <1>7

LEMMA UnlinkedTyped ==
  ASSUME linked \in [Alarm -> Nat], NEW a \in Alarm
  PROVE  Unlinked(a) \in [Alarm -> Nat]
  BY DEF Unlinked

(* add_alarm() keeps the types of what it assigns.                         *)
LEMMA AddAlarmTyped ==
  ASSUME TypeOK, NEW a \in Alarm, NEW t \in TickCount,
         NEW links \in [Alarm -> Nat],
         NEW quiet \in Seq(Frame), NEW call \in Seq(Frame),
         AddAlarm(a, t, links, quiet, call)
  PROVE  /\ trigger' \in [Alarm -> TickCount]
         /\ enabled' \in [Alarm -> BOOLEAN]
         /\ linked' \in [Alarm -> Nat]
         /\ calls' \in Seq(Frame)
<1>1. trigger' \in [Alarm -> TickCount]
  BY DEF TypeOK, AddAlarm
<1>2. enabled' \in [Alarm -> BOOLEAN]
  BY DEF TypeOK, AddAlarm
<1>3. linked' \in [Alarm -> Nat]
  BY DEF AddAlarm
<1>4. calls' \in Seq(Frame)
  BY DEF AddAlarm
<1> QED BY <1>1, <1>2, <1>3, <1>4

LEMMA TypeInit == Init => TypeOK
<1> SUFFICES ASSUME Init PROVE TypeOK
  OBVIOUS
<1>1. counter \in TickCount /\ ticking \in BOOLEAN
  BY WidthPositive DEF Init
<1>2. trigger \in [Alarm -> TickCount] /\ interval \in [Alarm -> TickCount]
  BY WidthPositive DEF Init
<1>3. enabled \in [Alarm -> BOOLEAN]
  BY DEF Init
<1>4. linked \in [Alarm -> Nat]
  BY DEF Init
<1>5. calls \in Seq(Frame)
  BY DEF Init
<1> QED BY <1>1, <1>2, <1>3, <1>4, <1>5 DEF TypeOK

LEMMA TypeStep == TypeOK /\ [Next]_vars => TypeOK'
<1> SUFFICES ASSUME TypeOK, [Next]_vars PROVE TypeOK'
  OBVIOUS
<1>1. ASSUME NEW a \in Alarm, NEW setting \in Settings, Initialize(a, setting)
      PROVE  TypeOK'
  <2>1. setting[2] \in TickCount
    BY SettingsAssumption
  <2>2. counter + setting[1] \in TickCount
    BY <1>1 DEF Initialize
  <2>3. (IF enabled[a] THEN Unlinked(a) ELSE linked) \in [Alarm -> Nat]
    BY UnlinkedTyped DEF TypeOK
  <2>4. /\ Charged \in Seq(Frame)
        /\ Append(Charged, Call("add", a)) \in Seq(Frame)
    BY <1>1, ChargedTyped, PushTyped DEF TypeOK, Initialize
  <2>5. AddAlarm(a, counter + setting[1],
                 IF enabled[a] THEN Unlinked(a) ELSE linked,
                 Charged, Append(Charged, Call("add", a)))
    BY <1>1 DEF Initialize
  <2>6. /\ trigger' \in [Alarm -> TickCount]
        /\ enabled' \in [Alarm -> BOOLEAN]
        /\ linked' \in [Alarm -> Nat]
        /\ calls' \in Seq(Frame)
    BY <2>2, <2>3, <2>4, <2>5, AddAlarmTyped
  <2>7. interval' \in [Alarm -> TickCount] /\ UNCHANGED <<counter, ticking>>
    BY <1>1, <2>1 DEF Initialize, TypeOK
  <2> QED BY <2>6, <2>7 DEF TypeOK
<1>2. ASSUME NEW a \in Alarm, Enable(a) PROVE TypeOK'
  <2>1. Synchronized(trigger[a], interval[a]) \in TickCount
    BY SynchronizedTyped DEF TypeOK
  <2>2. /\ Charged \in Seq(Frame)
        /\ Append(Charged, Call("add", a)) \in Seq(Frame)
    BY <1>2, ChargedTyped, PushTyped DEF TypeOK, Enable
  <2>3. AddAlarm(a, Synchronized(trigger[a], interval[a]), linked,
                 Charged, Append(Charged, Call("add", a)))
    BY <1>2 DEF Enable
  <2>4. linked \in [Alarm -> Nat]
    BY DEF TypeOK
  <2>5. /\ trigger' \in [Alarm -> TickCount]
        /\ enabled' \in [Alarm -> BOOLEAN]
        /\ linked' \in [Alarm -> Nat]
        /\ calls' \in Seq(Frame)
    BY <2>1, <2>2, <2>3, <2>4, AddAlarmTyped
  <2> QED BY <1>2, <2>5 DEF Enable, TypeOK
<1>3. ASSUME NEW a \in Alarm, Disable(a) PROVE TypeOK'
  <2>1. Charged \in Seq(Frame) /\ Unlinked(a) \in [Alarm -> Nat]
    BY <1>3, ChargedTyped, UnlinkedTyped DEF TypeOK, Disable
  <2> QED BY <1>3, <2>1 DEF Disable, TypeOK
<1>4. ASSUME NEW a \in Alarm, Fire(a) PROVE TypeOK'
  <2>1. CASE FireOnce(a)
    BY <1>4, <2>1, UnlinkedTyped, FreshTyped DEF Fire, FireOnce, TypeOK, Callers
  <2>2. CASE FirePeriodic(a)
    <3>1. (trigger[a] + interval[a]) % Width \in TickCount
      BY SumTyped DEF TypeOK
    <3>2. /\ Unlinked(a) \in [Alarm -> Nat]
          /\ <<Call("tick", a)>> \in Seq(Frame)
          /\ <<Call("requeue", a)>> \in Seq(Frame)
      BY UnlinkedTyped, FreshTyped DEF TypeOK, Callers
    <3>3. AddAlarm(a, (trigger[a] + interval[a]) % Width, Unlinked(a),
                   <<Call("tick", a)>>, <<Call("requeue", a)>>)
      BY <2>2 DEF FirePeriodic
    <3>4. /\ trigger' \in [Alarm -> TickCount]
          /\ enabled' \in [Alarm -> BOOLEAN]
          /\ linked' \in [Alarm -> Nat]
          /\ calls' \in Seq(Frame)
      BY <3>1, <3>2, <3>3, AddAlarmTyped
    <3> QED BY <1>4, <3>4 DEF Fire, TypeOK
  <2> QED BY <1>4, <2>1, <2>2 DEF Fire
<1>5. ASSUME NEW jump \in Jumps, SetValue(jump) PROVE TypeOK'
  <2>1. counter + jump \in TickCount
    BY <1>5, CountAssumption, WidthPositive DEF SetValue, TypeOK, TickCount
  <2> QED BY <1>5, <2>1 DEF SetValue, TypeOK
<1>6. CASE Tick
  <2>1. counter + Increment \in Int
    BY WidthPositive, CountAssumption DEF TypeOK
  <2>2. (counter + Increment) % Width \in TickCount
    BY <2>1, RemainderInRange, WidthPositive DEF TickCount
  <2> QED BY <1>6, <2>2 DEF Tick, TypeOK
<1>7. CASE EndScan
  BY <1>7 DEF EndScan, TypeOK
<1>8. CASE Return
  <2>1. Below \in Seq(Frame)
    BY <1>8, BelowTyped DEF TypeOK, Return
  <2>2. CASE ReturnToScan
    BY <1>8, <2>1, <2>2 DEF Return, ReturnToScan, TypeOK
  <2>3. ASSUME NEW a \in Alarm, ReturnToAdd(a) PROVE TypeOK'
    <3>1. Retrigger(trigger[a], interval[a]) \in TickCount
      BY SumTyped, SynchronizedTyped DEF TypeOK, Retrigger
    <3>2. calls' \in Seq(Frame)
      BY <2>1, <2>3, CallTyped DEF ReturnToAdd, Callers
    <3>3. trigger' \in [Alarm -> TickCount]
      BY <2>3, <3>1 DEF ReturnToAdd, TypeOK
    <3>4. enabled' \in [Alarm -> BOOLEAN]
      BY <2>3 DEF ReturnToAdd, TypeOK
    <3>5. linked' \in [Alarm -> Nat]
      BY <2>3 DEF ReturnToAdd, TypeOK
    <3> QED BY <1>8, <3>2, <3>3, <3>4, <3>5 DEF Return, TypeOK
  <2> QED BY <1>8, <2>2, <2>3 DEF Return
<1>9. CASE UNCHANGED vars
  BY <1>9 DEF vars, TypeOK
<1> QED BY <1>1, <1>2, <1>3, <1>4, <1>5, <1>6, <1>7, <1>8, <1>9 DEF Next

(* Every variable of a counter and its alarms keeps its type.              *)
THEOREM AlarmTypeCorrect == Spec => []TypeOK
  BY TypeInit, TypeStep, PTL DEF Spec

-----------------------------------------------------------------------------
(* ListOK is not inductive alone: when an alarm function returns to        *)
(* add_alarm(), the alarm must not be in the hands of another add_alarm()  *)
(* further out.  An alarm is being added by one frame at most.             *)
Adds(s, a) == \E k \in 1 .. Len(s) : s[k].alarm = a /\ s[k].by # "tick"
AddsOnce(s) ==
  \A j, k \in 1 .. Len(s) :
    s[j].by # "tick" /\ s[k].by # "tick" /\ s[j].alarm = s[k].alarm => j = k
ListInv == TypeOK /\ ListOK /\ AddsOnce(calls)

LEMMA ChargedAdds ==
  ASSUME calls \in Seq(Frame), MayCall, AddsOnce(calls)
  PROVE  /\ \A b \in Alarm : Adds(Charged, b) <=> Adds(calls, b)
         /\ AddsOnce(Charged)
  BY ChargedTyped DEF Adds, AddsOnce

LEMMA PushedAdds ==
  ASSUME NEW s \in Seq(Frame), NEW a \in Alarm, AddsOnce(s), ~Adds(s, a),
         NEW by \in Callers \ {"tick"}
  PROVE  /\ \A b \in Alarm : Adds(Append(s, Call(by, a)), b) <=> Adds(s, b) \/ b = a
         /\ AddsOnce(Append(s, Call(by, a)))
<1> DEFINE c == Call(by, a)
           t == Append(s, c)
<1>1. c \in Frame /\ c.by = by /\ c.alarm = a
  BY CallTyped
<1> HIDE DEF c
<1>2. Len(t) = Len(s) + 1 /\ t[Len(s) + 1] = c /\ \A k \in 1 .. Len(s) : t[k] = s[k]
  BY <1>1
<1> HIDE DEF t
<1>3. ASSUME NEW b \in Alarm PROVE Adds(t, b) <=> Adds(s, b) \/ b = a
  BY <1>1, <1>2 DEF Adds
<1>4. AddsOnce(t)
  BY <1>1, <1>2 DEF Adds, AddsOnce
<1> QED BY <1>3, <1>4 DEF t, c

(* A frame of the scan adds nothing.                                       *)
LEMMA ScannedAdds ==
  ASSUME NEW s \in Seq(Frame), NEW a \in Alarm, AddsOnce(s)
  PROVE  /\ \A b \in Alarm : Adds(Append(s, Call("tick", a)), b) <=> Adds(s, b)
         /\ AddsOnce(Append(s, Call("tick", a)))
<1> DEFINE c == Call("tick", a)
           t == Append(s, c)
<1>1. c \in Frame /\ c.by = "tick"
  BY CallTyped DEF Callers
<1> HIDE DEF c
<1>2. Len(t) = Len(s) + 1 /\ t[Len(s) + 1] = c /\ \A k \in 1 .. Len(s) : t[k] = s[k]
  BY <1>1
<1> HIDE DEF t
<1>3. ASSUME NEW b \in Alarm PROVE Adds(t, b) <=> Adds(s, b)
  BY <1>1, <1>2 DEF Adds
<1>4. AddsOnce(t)
  BY <1>1, <1>2 DEF AddsOnce
<1> QED BY <1>3, <1>4 DEF t, c

(* Without its innermost frame, calls adds what it did but the alarm of    *)
(* that frame.                                                             *)
LEMMA BelowAdds ==
  ASSUME calls \in Seq(Frame), calls # <<>>, AddsOnce(calls)
  PROVE  /\ \A b \in Alarm : Adds(Below, b) <=>
               Adds(calls, b) /\ (Top.by = "tick" \/ b # Top.alarm)
         /\ AddsOnce(Below)
<1>1. /\ Below \in Seq(Frame) /\ Len(Below) = Len(calls) - 1
      /\ \A k \in 1 .. Len(calls) - 1 : Below[k] = calls[k]
  BY BelowTyped
<1>2. Len(calls) \in Nat \ {0} /\ Top = calls[Len(calls)]
  BY DEF Top
<1>3. ASSUME NEW b \in Alarm
      PROVE  Adds(Below, b) <=> Adds(calls, b) /\ (Top.by = "tick" \/ b # Top.alarm)
  BY <1>1, <1>2 DEF Adds, AddsOnce
<1>4. AddsOnce(Below)
  BY <1>1, <1>2 DEF AddsOnce
<1> QED BY <1>3, <1>4

(* add_alarm() for an alarm that is not on the list and that no other      *)
(* add_alarm() has in hand.                                                *)
LEMMA AddAlarmLists ==
  ASSUME ListInv, NEW a \in Alarm, NEW t \in TickCount,
         NEW links \in [Alarm -> Nat], links = [linked EXCEPT ![a] = 0],
         ~Adds(calls, a),
         NEW quiet, AddsOnce(quiet),
         \A b \in Alarm : Adds(quiet, b) <=> Adds(calls, b),
         NEW call, AddsOnce(call),
         \A b \in Alarm : Adds(call, b) <=> Adds(calls, b) \/ b = a,
         AddAlarm(a, t, links, quiet, call)
  PROVE  ListOK' /\ AddsOnce(calls)'
<1>1. enabled' = [enabled EXCEPT ![a] = TRUE]
  BY DEF AddAlarm
<1>2. CASE calls' = quiet /\ linked' = [links EXCEPT ![a] = @ + 1]
  BY <1>1, <1>2 DEF ListInv, ListOK, TypeOK, BeingAdded, Adds
<1>3. CASE calls' = call /\ linked' = links
  BY <1>1, <1>3 DEF ListInv, ListOK, TypeOK, BeingAdded, Adds
<1> QED BY <1>2, <1>3 DEF AddAlarm

LEMMA ListsInit == Init => ListInv
<1> SUFFICES ASSUME Init PROVE ListInv
  OBVIOUS
<1>1. calls = <<>> /\ \A a \in Alarm : linked[a] = 0 /\ ~enabled[a]
  BY DEF Init
<1> QED BY <1>1, TypeInit DEF ListInv, ListOK, AddsOnce

LEMMA ListsStep ==
  ASSUME ListInv, [Next]_vars, ~RearmInside
  PROVE  ListInv'
<1> USE DEF ListInv
<1>0. TypeOK'
  BY TypeStep
<1>t. /\ trigger \in [Alarm -> TickCount] /\ interval \in [Alarm -> TickCount]
      /\ enabled \in [Alarm -> BOOLEAN] /\ linked \in [Alarm -> Nat]
      /\ calls \in Seq(Frame)
  BY DEF TypeOK
(* arming an alarm that is on no add_alarm() call                          *)
<1>a. ASSUME NEW a \in Alarm, NEW t \in TickCount, MayCall, ~BeingAdded(a),
             AddAlarm(a, t, [linked EXCEPT ![a] = 0],
                      Charged, Append(Charged, Call("add", a)))
      PROVE  ListOK' /\ AddsOnce(calls)'
  <2>1. ~Adds(calls, a)
    BY <1>a DEF BeingAdded, Adds
  <2>2. /\ AddsOnce(Charged) /\ Charged \in Seq(Frame)
        /\ \A b \in Alarm : Adds(Charged, b) <=> Adds(calls, b)
    BY <1>a, <1>t, ChargedAdds, ChargedTyped
  <2>3. /\ AddsOnce(Append(Charged, Call("add", a)))
        /\ \A b \in Alarm : Adds(Append(Charged, Call("add", a)), b) <=>
                               Adds(calls, b) \/ b = a
    BY <2>1, <2>2, PushedAdds DEF Callers
  <2>4. [linked EXCEPT ![a] = 0] \in [Alarm -> Nat]
    BY <1>t
  <2> QED BY <1>a, <2>1, <2>2, <2>3, <2>4, AddAlarmLists
<1>1. ASSUME NEW a \in Alarm, NEW setting \in Settings, Initialize(a, setting)
      PROVE  ListOK' /\ AddsOnce(calls)'
  <2>1. /\ MayCall /\ ~BeingAdded(a) /\ counter + setting[1] \in TickCount
        /\ AddAlarm(a, counter + setting[1],
                    IF enabled[a] THEN Unlinked(a) ELSE linked,
                    Charged, Append(Charged, Call("add", a)))
    BY <1>1 DEF Initialize
  <2>2. (IF enabled[a] THEN Unlinked(a) ELSE linked) = [linked EXCEPT ![a] = 0]
    BY <1>t DEF Unlinked, ListOK
  <2> QED BY <1>a, <2>1, <2>2
<1>2. ASSUME NEW a \in Alarm, Enable(a) PROVE ListOK' /\ AddsOnce(calls)'
  <2>1. /\ MayCall /\ ~BeingAdded(a) /\ ~enabled[a]
        /\ AddAlarm(a, Synchronized(trigger[a], interval[a]), linked,
                    Charged, Append(Charged, Call("add", a)))
    BY <1>2 DEF Enable
  <2>2. linked = [linked EXCEPT ![a] = 0]
    BY <1>t, <2>1 DEF ListOK
  <2>3. Synchronized(trigger[a], interval[a]) \in TickCount
    BY SynchronizedTyped DEF TypeOK
  <2> QED BY <1>a, <2>1, <2>2, <2>3
<1>3. ASSUME NEW a \in Alarm, Disable(a) PROVE ListOK' /\ AddsOnce(calls)'
  <2>1. /\ calls' = Charged /\ MayCall
        /\ enabled' = [enabled EXCEPT ![a] = FALSE]
        /\ linked' = [linked EXCEPT ![a] = 0]
    BY <1>3 DEF Disable, Unlinked
  <2>2. AddsOnce(Charged) /\ \A b \in Alarm : Adds(Charged, b) <=> Adds(calls, b)
    BY <1>t, <2>1, ChargedAdds
  <2> QED BY <1>t, <2>1, <2>2 DEF ListOK, BeingAdded, Adds
<1>4. ASSUME NEW a \in Alarm, Fire(a) PROVE ListOK' /\ AddsOnce(calls)'
  <2>1. calls = <<>> /\ \A b \in Alarm : ~Adds(calls, b)
    BY <1>4 DEF Fire, Adds
  <2>2. Append(calls, Call("tick", a)) = <<Call("tick", a)>>
    BY <2>1
  <2>3. /\ AddsOnce(<<Call("tick", a)>>)
        /\ \A b \in Alarm : ~Adds(<<Call("tick", a)>>, b)
    BY <1>t, <2>1, <2>2, ScannedAdds
  <2>4. CASE FireOnce(a)
    <3>1. /\ calls' = <<Call("tick", a)>>
          /\ enabled' = [enabled EXCEPT ![a] = FALSE]
          /\ linked' = [linked EXCEPT ![a] = 0]
      BY <2>4 DEF FireOnce, Unlinked
    <3> QED BY <1>t, <2>1, <2>3, <3>1 DEF ListOK, BeingAdded, Adds
  <2>5. CASE FirePeriodic(a)
    <3>1. AddAlarm(a, (trigger[a] + interval[a]) % Width, [linked EXCEPT ![a] = 0],
                   <<Call("tick", a)>>, <<Call("requeue", a)>>)
      BY <2>5 DEF FirePeriodic, Unlinked
    <3>2. (trigger[a] + interval[a]) % Width \in TickCount
      BY <1>t, SumTyped
    <3>3. Append(calls, Call("requeue", a)) = <<Call("requeue", a)>>
      BY <2>1
    <3>4. /\ AddsOnce(<<Call("requeue", a)>>)
          /\ \A b \in Alarm : Adds(<<Call("requeue", a)>>, b) <=>
                                 Adds(calls, b) \/ b = a
      <4>1. "requeue" \in Callers \ {"tick"}
        BY DEF Callers
      <4>2. /\ AddsOnce(Append(calls, Call("requeue", a)))
            /\ \A b \in Alarm : Adds(Append(calls, Call("requeue", a)), b) <=>
                                   Adds(calls, b) \/ b = a
        BY <1>t, <2>1, <4>1, PushedAdds
      <4> HIDE DEF ListInv
      <4> QED BY <3>3, <4>2, Zenon
    <3>5. [linked EXCEPT ![a] = 0] \in [Alarm -> Nat]
      BY <1>t
    <3> QED BY <2>1, <2>3, <3>1, <3>2, <3>4, <3>5, AddAlarmLists
  <2> QED BY <1>4, <2>4, <2>5 DEF Fire
<1>5. ASSUME UNCHANGED <<enabled, linked, calls>> PROVE ListOK' /\ AddsOnce(calls)'
  BY <1>5 DEF ListOK, BeingAdded, AddsOnce
<1>6. ASSUME Return PROVE ListOK' /\ AddsOnce(calls)'
  <2>1. /\ Below \in Seq(Frame) /\ AddsOnce(Below)
        /\ \A b \in Alarm : Adds(Below, b) <=>
             Adds(calls, b) /\ (Top.by = "tick" \/ b # Top.alarm)
    BY <1>6, <1>t, BelowAdds, BelowTyped DEF Return
  <2>2. CASE ReturnToScan
    BY <2>1, <2>2 DEF ReturnToScan, ListOK, BeingAdded, Adds
  <2>3. ASSUME NEW a \in Alarm, ReturnToAdd(a)
        PROVE  ListOK' /\ AddsOnce(calls)'
    <3>1. /\ Top.by # "tick" /\ Top.alarm = a /\ calls # <<>>
          /\ calls' = IF Top.by = "add" THEN Below
                      ELSE Append(Below, Call("tick", a))
      BY <1>6, <2>3 DEF ReturnToAdd, Return
    <3>2. /\ AddsOnce(calls')
          /\ \A b \in Alarm : Adds(calls', b) <=> Adds(calls, b) /\ b # a
      BY <2>1, <3>1, ScannedAdds
    <3>3. Adds(calls, a)
      BY <1>t, <3>1 DEF Adds, Top
    <3>4. linked[a] = 0
      BY <3>3 DEF ListOK, BeingAdded, Adds
    <3>5. \/ /\ enabled[a] /\ linked' = [linked EXCEPT ![a] = @ + 1]
             /\ UNCHANGED enabled
          \/ /\ enabled' = [enabled EXCEPT ![a] = FALSE]
             /\ UNCHANGED linked
      BY <2>3 DEF ReturnToAdd
    <3> QED BY <1>t, <3>2, <3>4, <3>5 DEF ListOK, BeingAdded, Adds
  <2> QED BY <1>6, <2>2, <2>3 DEF Return
<1> QED
  BY <1>0, <1>1, <1>2, <1>3, <1>4, <1>5, <1>6 DEF Next, SetValue, Tick, EndScan, vars

(* The list and the enabled flags agree at every moment of every call, as  *)
(* long as no alarm is armed from its own first call.                      *)
THEOREM ListsAgree ==
  ASSUME ~RearmInside
  PROVE  Spec => []ListOK
<1>1. ListInv /\ [Next]_vars => ListInv'
  BY ListsStep
<1>2. ListInv => ListOK
  BY DEF ListInv
<1> QED BY <1>1, <1>2, ListsInit, PTL DEF Spec
-----------------------------------------------------------------------------
(* Periods.                                                                *)

LEMMA RemainderBelow ==
  ASSUME NEW x \in Nat, NEW w \in Nat \ {0}
  PROVE  x % w <= x
BY SMT

LEMMA QuotientBelow ==
  ASSUME NEW x \in Nat, NEW i \in Nat \ {0}
  PROVE  x \div i \in Nat /\ i * (x \div i) <= x
BY SMT

(* synchronize() finds a time that is at most one interval away, if that   *)
(* is true of the time it starts from: then the unsigned difference does   *)
(* not wrap, and the reduction of the result only lowers it.               *)
LEMMA SynchronizedNear ==
  ASSUME counter \in TickCount, NEW t \in TickCount, NEW i \in TickCount \ {0},
         t <= counter + i
  PROVE  Synchronized(t, i) <= counter + i
<1>0. t \in Nat /\ i \in Nat \ {0} /\ counter \in Nat /\ Width \in Nat \ {0}
  BY WidthPositive
<1> DEFINE d == (counter + i - t) % Width
<1>1. counter + i - t \in Nat
  BY <1>0
<1>2. d \in Nat /\ d <= counter + i - t
  <2> DEFINE x == counter + i - t
  <2>1. x \in Nat
    BY <1>1
  <2> HIDE DEF x
  <2>a. x % Width <= x
    BY <1>0, <2>1, RemainderBelow
  <2>b. x \in Int
    BY <2>1
  <2>c. x % Width \in 0 .. Width - 1
    BY <1>0, <2>b, RemainderInRange
  <2>2. x % Width <= x /\ x % Width \in 0 .. Width - 1
    BY <2>a, <2>c
  <2>3. x % Width \in Nat
    BY <1>0, <2>2
  <2> QED BY <2>2, <2>3 DEF x
<1>3. Synchronized(t, i) = IF d > i THEN (t + i * ((d - 1) \div i)) % Width ELSE t
  BY <1>0 DEF Synchronized
<1> HIDE DEF d
<1>4. CASE d > i
  <2>1. d - 1 \in Nat
    BY <1>0, <1>2, <1>4
  <2> DEFINE k == i * ((d - 1) \div i)
  <2>2. k \in Nat /\ k <= d - 1
    <3>1. (d - 1) \div i \in Nat /\ i * ((d - 1) \div i) <= d - 1
      BY <1>0, <2>1, QuotientBelow
    <3> QED BY <1>0, <3>1
  <2> HIDE DEF k
  <2>3. t + k \in Nat /\ t + k <= counter + i
    BY <1>0, <1>2, <2>2
  <2>4. (t + k) % Width <= t + k /\ (t + k) % Width \in Int
    <3> DEFINE x == t + k
    <3>1. x \in Nat
      BY <2>3
    <3> HIDE DEF x
    <3>a. x % Width <= x
      BY <1>0, <3>1, RemainderBelow
    <3>b. x \in Int
      BY <3>1
    <3>c. x % Width \in 0 .. Width - 1
      BY <1>0, <3>b, RemainderInRange
    <3>2. x % Width <= x /\ x % Width \in 0 .. Width - 1
      BY <3>a, <3>c
    <3>3. x % Width \in Int
      BY <1>0, <3>2
    <3> QED BY <3>2, <3>3 DEF x
  <2>5. Synchronized(t, i) = (t + k) % Width
    BY <1>3, <1>4 DEF k
  <2> QED BY <1>0, <2>3, <2>4, <2>5
<1>5. CASE ~(d > i)
  BY <1>3, <1>5
<1> QED BY <1>4, <1>5

LEMMA RetriggerNear ==
  ASSUME counter \in TickCount, NEW t \in TickCount, NEW i \in TickCount \ {0}, t <= counter
  PROVE  Retrigger(t, i) <= counter + i
<1>0. t \in Nat /\ i \in Nat \ {0} /\ counter \in Nat /\ Width \in Nat \ {0}
  BY WidthPositive
<1>1. (t + i) % Width \in TickCount
  BY SumTyped
<1>2. (t + i) % Width <= t + i
  BY <1>0, RemainderBelow
<1>3. (t + i) % Width <= counter + i
  <2>1. (t + i) % Width \in Nat
    BY <1>1, WidthPositive
  <2> QED BY <1>0, <1>2, <2>1
<1> QED BY <1>1, <1>3, SynchronizedNear DEF Retrigger

(* The inductive invariant: an alarm that is off the list stays near too,  *)
(* so that enable() finds it so, and one whose function add_alarm() calls  *)
(* is due until that function returns, because the counter stands still.   *)
Near(a) == interval[a] # 0 => trigger[a] <= counter + interval[a]
AddedDue == \A a \in Alarm : Adds(calls, a) /\ enabled[a] => trigger[a] <= counter
PeriodInv == ListInv /\ AddedDue /\ \A a \in Alarm : Near(a)

(* add_alarm() for a trigger that is near.                                 *)
LEMMA AddAlarmNear ==
  ASSUME PeriodInv, TypeOK', NEW a \in Alarm, NEW t \in TickCount, NEW links, NEW quiet, NEW call,
         counter' = counter,
         \A b \in Alarm : Adds(quiet, b) <=> Adds(calls, b),
         \A b \in Alarm : Adds(call, b) <=> Adds(calls, b) \/ b = a,
         ~Adds(calls, a),
         \A b \in Alarm \ {a} : interval'[b] = interval[b],
         interval'[a] # 0 => t <= counter + interval'[a],
         AddAlarm(a, t, links, quiet, call)
  PROVE  AddedDue' /\ \A b \in Alarm : Near(b)'
<1>1. /\ trigger' = [trigger EXCEPT ![a] = t] /\ enabled' = [enabled EXCEPT ![a] = TRUE]
      /\ calls' = quiet \/ (t <= counter /\ calls' = call)
      /\ trigger \in [Alarm -> TickCount] /\ enabled \in [Alarm -> BOOLEAN]
  BY DEF AddAlarm, PeriodInv, ListInv, TypeOK
<1>2. trigger'[a] = t
  BY <1>1
<1>3. \A b \in Alarm \ {a} : trigger'[b] = trigger[b] /\ enabled'[b] = enabled[b]
  BY <1>1
<1>4. ASSUME NEW b \in Alarm PROVE Near(b)'
  <2>1. CASE b = a
    BY <1>2, <2>1 DEF Near
  <2>2. CASE b # a
    BY <1>3, <2>2 DEF Near, PeriodInv
  <2> QED BY <2>1, <2>2
<1>5. ASSUME NEW b \in Alarm, Adds(calls', b), enabled'[b] PROVE trigger'[b] <= counter
  <2>1. CASE b = a
    BY <1>1, <1>2, <1>5, <2>1
  <2>2. CASE b # a
    BY <1>1, <1>3, <1>5, <2>2 DEF PeriodInv, AddedDue
  <2> QED BY <2>1, <2>2
<1> QED BY <1>4, <1>5 DEF AddedDue, Adds

LEMMA PeriodStep ==
  ASSUME PeriodInv, [Next]_vars, ~RearmInside,
         \A s \in Settings : s[2] # 0 => s[1] <= s[2]
  PROVE  PeriodInv'
<1>0. ListInv' /\ TypeOK' /\ ListInv /\ TypeOK
  BY ListsStep DEF PeriodInv, ListInv
<1>t. /\ trigger \in [Alarm -> TickCount] /\ interval \in [Alarm -> TickCount]
      /\ enabled \in [Alarm -> BOOLEAN] /\ calls \in Seq(Frame) /\ AddsOnce(calls)
      /\ counter \in TickCount /\ TickCount \subseteq Nat
  BY <1>0, WidthPositive DEF TypeOK, ListInv
<1>i. /\ counter \in Nat /\ counter \in TickCount
      /\ \A b \in Alarm : /\ trigger[b] \in Nat /\ trigger[b] \in TickCount
                           /\ interval[b] \in Nat /\ interval[b] \in TickCount
  <2> TickCount \subseteq Nat
    BY <1>t
  <2>1. ASSUME NEW b \in Alarm PROVE trigger[b] \in TickCount /\ interval[b] \in TickCount
    BY <1>t, <2>1
  <2> QED BY <1>t, <2>1
<1>c. counter' = counter => counter' \in TickCount /\ counter <= counter'
  BY <1>i
<1>a. ASSUME NEW a \in Alarm, NEW t \in TickCount, NEW links, MayCall, ~BeingAdded(a),
             counter' = counter, \A b \in Alarm \ {a} : interval'[b] = interval[b],
             interval'[a] # 0 => t <= counter + interval'[a],
             AddAlarm(a, t, links, Charged, Append(Charged, Call("add", a)))
      PROVE  AddedDue' /\ \A b \in Alarm : Near(b)'
  <2>1. ~Adds(calls, a)
    BY <1>a DEF BeingAdded, Adds
  <2>2. /\ AddsOnce(Charged) /\ Charged \in Seq(Frame)
        /\ \A b \in Alarm : Adds(Charged, b) <=> Adds(calls, b)
    BY <1>a, <1>t, ChargedAdds, ChargedTyped
  <2>3. \A b \in Alarm : Adds(Append(Charged, Call("add", a)), b) <=>
                           Adds(calls, b) \/ b = a
    BY <2>1, <2>2, PushedAdds DEF Callers
  <2> QED BY <1>0, <1>a, <2>1, <2>2, <2>3, AddAlarmNear
<1>1. ASSUME NEW a \in Alarm, NEW setting \in Settings, Initialize(a, setting)
      PROVE  AddedDue' /\ \A b \in Alarm : Near(b)'
  <2> DEFINE t == counter + setting[1]
             links == IF enabled[a] THEN Unlinked(a) ELSE linked
  <2>1. /\ MayCall /\ ~BeingAdded(a) /\ t \in TickCount /\ counter' = counter
        /\ interval' = [interval EXCEPT ![a] = setting[2]]
        /\ AddAlarm(a, t, links, Charged, Append(Charged, Call("add", a)))
    BY <1>1 DEF Initialize
  <2>2. interval'[a] = setting[2] /\ \A b \in Alarm \ {a} : interval'[b] = interval[b]
    BY <1>t, <2>1
  <2>3. interval'[a] # 0 => t <= counter + interval'[a]
    <3>1. setting[1] \in Int /\ setting[2] \in Int
      <4>1. setting[1] \in Int /\ setting[2] \in TickCount
        BY SettingsAssumption
      <4>2. TickCount \subseteq Int
        BY <1>t
      <4> QED BY <4>1, <4>2
    <3>2. interval'[a] # 0 => setting[1] <= setting[2]
      BY <2>2
    <3> QED BY <1>i, <2>2, <3>1, <3>2
  <2> HIDE DEF t, links
  <2> QED BY <1>a, <2>1, <2>2, <2>3
<1>2. ASSUME NEW a \in Alarm, Enable(a) PROVE AddedDue' /\ \A b \in Alarm : Near(b)'
  <2> DEFINE t == Synchronized(trigger[a], interval[a])
  <2>1. /\ MayCall /\ ~BeingAdded(a) /\ counter' = counter /\ interval' = interval
        /\ AddAlarm(a, t, linked, Charged, Append(Charged, Call("add", a)))
    BY <1>2 DEF Enable
  <2>2. t \in TickCount
    BY <1>i, SynchronizedTyped
  <2>3. interval[a] # 0 => t <= counter + interval[a]
    <3>1. interval[a] # 0 => interval[a] \in TickCount \ {0}
      BY <1>i
    <3>2. interval[a] # 0 => trigger[a] <= counter + interval[a]
      BY DEF PeriodInv, Near
    <3> QED BY <1>i, <3>1, <3>2, SynchronizedNear
  <2> HIDE DEF t
  <2> QED BY <1>a, <2>1, <2>2, <2>3
<1>3. ASSUME UNCHANGED <<interval, trigger>>, counter' \in TickCount, counter <= counter',
             \A b \in Alarm : Adds(calls', b) /\ enabled'[b] => Adds(calls, b) /\ enabled[b]
      PROVE  AddedDue' /\ \A b \in Alarm : Near(b)'
  <2>1. ASSUME NEW b \in Alarm, interval[b] # 0 PROVE trigger[b] <= counter' + interval[b]
    <3>1. trigger[b] <= counter + interval[b]
      BY <2>1 DEF PeriodInv, Near
    <3>2. counter' \in Int /\ counter <= counter'
      BY <1>3, <1>t
    <3> QED BY <1>i, <3>1, <3>2
  <2>2. ASSUME NEW b \in Alarm, Adds(calls', b), enabled'[b] PROVE trigger[b] <= counter'
    <3>1. trigger[b] <= counter
      BY <1>3, <2>2 DEF PeriodInv, AddedDue
    <3>2. counter' \in Int /\ counter <= counter'
      BY <1>3, <1>t
    <3> QED BY <1>i, <3>1, <3>2
  <2> QED BY <1>3, <2>1, <2>2 DEF Near, AddedDue, Adds
<1>4. ASSUME NEW a \in Alarm, Disable(a) PROVE AddedDue' /\ \A b \in Alarm : Near(b)'
  <2>1. /\ calls' = Charged /\ MayCall /\ UNCHANGED <<counter, trigger, interval>>
        /\ enabled' = [enabled EXCEPT ![a] = FALSE]
    BY <1>4 DEF Disable
  <2>2. \A b \in Alarm : Adds(Charged, b) <=> Adds(calls, b)
    BY <1>t, <2>1, ChargedAdds
  <2>3. \A b \in Alarm : enabled'[b] => enabled[b]
    BY <1>t, <2>1
  <2>4. \A b \in Alarm : Adds(calls', b) /\ enabled'[b] => Adds(calls, b) /\ enabled[b]
    BY <2>1, <2>2, <2>3
  <2> QED BY <1>c, <1>3, <2>1, <2>4
<1>5. ASSUME NEW a \in Alarm, Fire(a) PROVE AddedDue' /\ \A b \in Alarm : Near(b)'
  <2>1. /\ calls = <<>> /\ (\A b \in Alarm : ~Adds(calls, b)) /\ trigger[a] <= counter
        /\ UNCHANGED <<counter, interval>>
    BY <1>5 DEF Fire, Expired, Adds
  <2>2. Append(calls, Call("tick", a)) = <<Call("tick", a)>>
        /\ Append(calls, Call("requeue", a)) = <<Call("requeue", a)>>
    BY <2>1
  <2>3. \A b \in Alarm : ~Adds(<<Call("tick", a)>>, b)
    BY <1>t, <2>1, <2>2, ScannedAdds
  <2>4. CASE FireOnce(a)
    <3>1. calls' = <<Call("tick", a)>> /\ UNCHANGED trigger
      BY <2>4 DEF FireOnce
    <3> QED BY <1>c, <1>3, <2>1, <2>3, <3>1
  <2>5. CASE FirePeriodic(a)
    <3> DEFINE t == (trigger[a] + interval[a]) % Width
    <3>1. AddAlarm(a, t, Unlinked(a), <<Call("tick", a)>>, <<Call("requeue", a)>>)
      BY <2>5 DEF FirePeriodic
    <3>2. t \in TickCount
      BY <1>i, SumTyped
    <3>3. \A b \in Alarm : Adds(<<Call("requeue", a)>>, b) <=> Adds(calls, b) \/ b = a
      <4>1. "requeue" \in Callers \ {"tick"}
        BY DEF Callers
      <4>2. \A b \in Alarm : Adds(Append(calls, Call("requeue", a)), b) <=>
                               Adds(calls, b) \/ b = a
        BY <1>t, <2>1, <4>1, PushedAdds
      <4> QED BY <2>2, <4>2, Zenon
    <3>4. t <= counter + interval[a]
      <4> DEFINE x == trigger[a] + interval[a]
      <4>1. x \in Nat /\ x <= counter + interval[a]
        BY <1>i, <2>1
      <4> HIDE DEF x
      <4>2. x % Width <= x
        BY <4>1, WidthPositive, RemainderBelow
      <4>3. x % Width \in Nat
        BY <1>t, <3>2 DEF x
      <4>4. counter + interval[a] \in Int
        BY <1>i
      <4>5. x % Width <= counter + interval[a]
        BY <4>1, <4>2, <4>3, <4>4
      <4> QED BY <4>5 DEF x
    <3> HIDE DEF t
    <3> QED BY <1>0, <2>1, <2>3, <3>1, <3>2, <3>3, <3>4, AddAlarmNear
  <2> QED BY <1>5, <2>4, <2>5 DEF Fire
<1>6. ASSUME NEW jump \in Jumps, SetValue(jump) PROVE AddedDue' /\ \A b \in Alarm : Near(b)'
  <2>1. counter' = counter + jump /\ jump \in Nat
        /\ UNCHANGED <<trigger, interval, enabled, calls>>
    BY <1>6, CountAssumption DEF SetValue
  <2>2. counter' \in TickCount
    BY <1>0 DEF TypeOK
  <2>3. counter <= counter'
    BY <1>i, <2>1
  <2> QED BY <1>3, <2>1, <2>2, <2>3
<1>7. ASSUME Tick PROVE AddedDue' /\ \A b \in Alarm : Near(b)'
  <2>1. counter + Increment <= MaxCount /\ counter' = (counter + Increment) % Width
        /\ UNCHANGED <<trigger, interval, enabled, calls>>
    BY <1>7 DEF Tick
  <2>2. counter + Increment \in 0 .. Width - 1 /\ Width \in Nat \ {0}
    BY <1>t, <2>1, CountAssumption DEF TickCount
  <2>3. counter' = counter + Increment
    BY <2>1, <2>2
  <2>4. counter <= counter'
    BY <1>i, <2>3, CountAssumption
  <2>5. counter' \in TickCount
    BY <1>0 DEF TypeOK
  <2> QED BY <1>3, <2>1, <2>4, <2>5
<1>8. ASSUME EndScan \/ UNCHANGED vars PROVE AddedDue' /\ \A b \in Alarm : Near(b)'
  <2>1. UNCHANGED <<counter, trigger, interval, enabled, calls>>
    BY <1>8 DEF EndScan, vars
  <2> QED BY <1>c, <1>3, <2>1
<1>9. ASSUME Return PROVE AddedDue' /\ \A b \in Alarm : Near(b)'
  <2>1. /\ Below \in Seq(Frame) /\ AddsOnce(Below) /\ calls # <<>>
        /\ UNCHANGED <<counter, interval>>
        /\ \A b \in Alarm : Adds(Below, b) <=>
             Adds(calls, b) /\ (Top.by = "tick" \/ b # Top.alarm)
    BY <1>9, <1>t, BelowAdds, BelowTyped DEF Return
  <2>2. CASE ReturnToScan
    <3>1. calls' = Below /\ UNCHANGED <<trigger, enabled>>
      BY <2>2 DEF ReturnToScan
    <3> QED BY <1>c, <1>3, <2>1, <3>1
  <2>3. ASSUME NEW a \in Alarm, ReturnToAdd(a)
        PROVE  AddedDue' /\ \A b \in Alarm : Near(b)'
    <3>1. /\ Top.by # "tick" /\ Top.alarm = a
          /\ calls' = IF Top.by = "add" THEN Below
                      ELSE Append(Below, Call("tick", a))
      BY <2>3 DEF ReturnToAdd
    <3>2. \A b \in Alarm : Adds(calls', b) <=> Adds(calls, b) /\ b # a
      BY <2>1, <3>1, ScannedAdds
    <3>3. Adds(calls, a)
      BY <1>t, <2>1, <3>1 DEF Adds, Top
    <3>4. CASE interval[a] # 0 /\ enabled[a]
               /\ trigger' = [trigger EXCEPT ![a] = Retrigger(@, interval[a])]
               /\ UNCHANGED enabled
      <4>1. trigger[a] <= counter
        BY <3>3, <3>4 DEF PeriodInv, AddedDue
      <4>2. trigger'[a] <= counter + interval[a]
        <5>1. interval[a] \in TickCount \ {0}
          BY <1>i, <3>4
        <5>2. trigger'[a] = Retrigger(trigger[a], interval[a])
          BY <1>t, <3>4
        <5> QED BY <1>i, <4>1, <5>1, <5>2, RetriggerNear
      <4>3. \A b \in Alarm \ {a} : trigger'[b] = trigger[b]
        BY <1>t, <3>4
      <4>4. ASSUME NEW b \in Alarm PROVE Near(b)'
        BY <2>1, <4>2, <4>3 DEF Near, PeriodInv
      <4>5. ASSUME NEW b \in Alarm, Adds(calls', b), enabled'[b] PROVE trigger'[b] <= counter'
        BY <2>1, <3>2, <3>4, <4>3, <4>5 DEF PeriodInv, AddedDue
      <4> QED BY <4>4, <4>5 DEF AddedDue, Adds
    <3>5. CASE enabled' = [enabled EXCEPT ![a] = FALSE] /\ UNCHANGED trigger
      <4>1. \A b \in Alarm : enabled'[b] => enabled[b]
        BY <1>t, <3>5
      <4> QED BY <1>c, <1>3, <2>1, <3>2, <3>5, <4>1
    <3> QED BY <2>3, <3>4, <3>5 DEF ReturnToAdd
  <2>4. ReturnToScan \/ \E a \in Alarm : ReturnToAdd(a)
    BY <1>9 DEF Return
  <2> QED BY <2>2, <2>3, <2>4
<1>10. AddedDue' /\ \A b \in Alarm : Near(b)'
  BY <1>1, <1>2, <1>4, <1>5, <1>6, <1>7, <1>8, <1>9 DEF Next
<1> QED BY <1>0, <1>10 DEF PeriodInv

(* No period is skipped, whatever alarm functions set, cancel and resume   *)
(* and however the counter is set forward, for alarms that are first set   *)
(* no further ahead than their period, as long as no alarm is armed from   *)
(* its own first call.                                                     *)
THEOREM NoPeriodSkipped ==
  ASSUME ~RearmInside, \A s \in Settings : s[2] # 0 => s[1] <= s[2]
  PROVE  Spec => []WithinPeriod
<1>1. Init => PeriodInv
  <2> SUFFICES ASSUME Init PROVE PeriodInv
    OBVIOUS
  <2>1. calls = <<>> /\ \A a \in Alarm : interval[a] = 0
    BY DEF Init
  <2> QED BY <2>1, ListsInit DEF PeriodInv, AddedDue, Near, Adds
<1>2. PeriodInv /\ [Next]_vars => PeriodInv'
  BY PeriodStep
<1>3. PeriodInv => WithinPeriod
  BY DEF PeriodInv, Near, WithinPeriod
<1> QED BY <1>1, <1>2, <1>3, PTL DEF Spec
-----------------------------------------------------------------------------
(* What the alarms promise.                                                *)

LEMMA Division ==
  ASSUME NEW x \in Nat, NEW p \in Nat \ {0}
  PROVE  /\ x \div p \in Nat /\ x % p \in 0 .. p - 1
         /\ x = p * (x \div p) + (x % p)
BY SMT

LEMMA QuotientUnique ==
  ASSUME NEW x \in Nat, NEW p \in Nat \ {0}, NEW q \in Nat, p * q <= x, x < p * q + p
  PROVE  x \div p = q
<1> DEFINE k == x \div p
<1>1. k \in Nat /\ p * k <= x /\ x < p * k + p
  BY SMT
<1> HIDE DEF k
<1>2. p * q < p * (k + 1) /\ p * k < p * (q + 1)
  BY <1>1
<1>3. q < k + 1 /\ k < q + 1
  BY <1>1, <1>2, SMT
<1> QED BY <1>1, <1>3 DEF k

(* Rounding x up to a multiple of p, as synchronize() does it.             *)
LEMMA RoundedUp ==
  ASSUME NEW x \in Nat \ {0}, NEW p \in Nat \ {0}
  PROVE  p * ((x + p - 1) \div p) = IF x % p = 0 THEN x ELSE p * (x \div p) + p
<1> DEFINE q == x \div p
           r == x % p
<1>1. q \in Nat /\ r \in 0 .. p - 1 /\ x = p * q + r
  BY Division
<1> HIDE DEF q, r
<1>2. x + p - 1 \in Nat /\ p * q \in Nat
  BY <1>1
<1>3. CASE r = 0
  <2>1. x + p - 1 = p * q + p - 1
    BY <1>1, <1>2, <1>3
  <2>2. (x + p - 1) \div p = q
    <3> DEFINE y == x + p - 1
    <3>1. y \in Nat /\ p * q <= y /\ y < p * q + p
      BY <1>2, <2>1
    <3> HIDE DEF y
    <3>2. y \div p = q
      BY <1>1, <3>1, QuotientUnique
    <3> QED BY <3>2 DEF y
  <2>3. p * q = x
    BY <1>1, <1>2, <1>3
  <2> QED BY <1>3, <2>2, <2>3 DEF r
<1>4. CASE r # 0
  <2>1. x + p - 1 = p * q + p + (r - 1) /\ p * (q + 1) = p * q + p
    BY <1>1, <1>2
  <2>2. (x + p - 1) \div p = q + 1
    <3> DEFINE y == x + p - 1
    <3>1. y \in Nat /\ p * (q + 1) <= y /\ y < p * (q + 1) + p /\ q + 1 \in Nat
      BY <1>1, <1>2, <1>4, <2>1
    <3> HIDE DEF y
    <3>2. y \div p = q + 1
      BY <3>1, QuotientUnique
    <3> QED BY <3>2 DEF y
  <2> QED BY <1>4, <2>1, <2>2 DEF r, q
<1> QED BY <1>3, <1>4

(* Where nothing wraps, synchronize() finds the first time of the stream   *)
(* that is not past: now if that is one of its times, else the next one.   *)
LEMMA SynchronizedIs ==
  ASSUME counter \in Nat, NEW t \in Nat, NEW p \in Nat \ {0},
         t <= counter + p, counter + p < Width
  PROVE  Synchronized(t, p) =
           IF Promised!IsNow(t, p) THEN counter ELSE Promised!Upcoming(t, p)
<1>0. Width \in Nat \ {0}
  BY WidthPositive
<1> DEFINE d == counter + p - t
<1>1. d \in 0 .. Width - 1
  BY <1>0
<1>2. d % Width = d
  <2> HIDE DEF d
  <2> QED BY <1>0, <1>1
<1>3. Synchronized(t, p) = IF d > p THEN (t + p * ((d - 1) \div p)) % Width ELSE t
  BY <1>2 DEF Synchronized
<1>4. CASE t > counter
  BY <1>3, <1>4 DEF Promised!IsNow, Promised!Upcoming
<1>5. CASE t = counter
  <2>1. (counter - t) % p = 0
    <3> DEFINE x == counter - t
    <3>1. x = 0 /\ 0 % p = 0
      BY <1>5
    <3> QED BY <3>1
  <2>2. Synchronized(t, p) = t
    BY <1>3, <1>5
  <2>3. Promised!IsNow(t, p)
    BY <1>5, <2>1 DEF Promised!IsNow
  <2> QED BY <1>5, <2>2, <2>3
<1>6. CASE t < counter
  <2> DEFINE x == counter - t
             u == p * ((x + p - 1) \div p)
  <2>1. x \in Nat \ {0} /\ d = x + p /\ d > p /\ d - 1 = x + p - 1 /\ t + x = counter
    BY <1>6
  <2>2. Synchronized(t, p) = (t + u) % Width
    BY <1>3, <2>1
  <2>3. Promised!IsNow(t, p) <=> x % p = 0
    BY <1>6 DEF Promised!IsNow
  <2>4. Promised!Upcoming(t, p) = t + p * ((x \div p) + 1)
    BY <1>6 DEF Promised!Upcoming
  <2> HIDE DEF x, d
  <2>5. u = IF x % p = 0 THEN x ELSE p * (x \div p) + p
    BY <2>1, RoundedUp
  <2> HIDE DEF u
  <2>6. x \div p \in Nat /\ p * (x \div p) \in Nat /\ p * (x \div p) <= x
        /\ p * ((x \div p) + 1) = p * (x \div p) + p
    <3>1. x \div p \in Nat /\ p * (x \div p) <= x
      BY <2>1, QuotientBelow
    <3> DEFINE q == x \div p
    <3> HIDE DEF q
    <3>2. q \in Nat => p * q \in Nat /\ p * (q + 1) = p * q + p
      OBVIOUS
    <3> QED BY <3>1, <3>2 DEF q
  <2>7. t + u \in 0 .. Width - 1
    BY <1>0, <2>1, <2>5, <2>6
  <2>8. (t + u) % Width = t + u
    <3> DEFINE y == t + u
    <3>1. y \in 0 .. Width - 1
      BY <2>7
    <3> HIDE DEF y
    <3>2. y % Width = y
      BY <1>0, <3>1
    <3> QED BY <3>2 DEF y
  <2> QED BY <2>1, <2>2, <2>3, <2>4, <2>5, <2>6, <2>8
<1> QED BY <1>4, <1>5, <1>6

(* add_alarm() is left with an alarm that is due now, and puts its next    *)
(* time one interval on.                                                   *)
LEMMA RetriggerIs ==
  ASSUME counter \in Nat, NEW p \in Nat \ {0}, counter + p < Width
  PROVE  Retrigger(counter, p) = counter + p
<1>0. Width \in Nat \ {0}
  BY WidthPositive
<1> DEFINE t == counter + p
<1>1. t \in 0 .. Width - 1
  BY <1>0
<1> HIDE DEF t
<1>2. t % Width = t
  BY <1>0, <1>1
<1>3. t > counter
  BY DEF t
<1>4. Synchronized(t, p) = t
  <2>1. t \in Nat /\ t <= counter + p
    BY <1>1 DEF t
  <2>2. Synchronized(t, p) =
          IF Promised!IsNow(t, p) THEN counter ELSE Promised!Upcoming(t, p)
    BY <2>1, SynchronizedIs
  <2> QED BY <1>3, <2>1, <2>2 DEF Promised!IsNow, Promised!Upcoming
<1> QED BY <1>2, <1>4 DEF Retrigger, t

LEMMA UpcomingNow ==
  ASSUME counter \in Nat, NEW p \in Nat \ {0}
  PROVE  Promised!Upcoming(counter, p) = counter + p
<1>1. counter - counter = 0 /\ 0 \div p = 0
  BY SMT
<1>2. p * ((0 \div p) + 1) = p
  BY <1>1
<1> QED BY <1>1, <1>2 DEF Promised!Upcoming
-----------------------------------------------------------------------------
(* The functions that are running.                                         *)
Alarms(s) == [k \in 1 .. Len(s) |-> s[k].alarm]

LEMMA AlarmsTyped ==
  ASSUME NEW s \in Seq(Frame)
  PROVE  Alarms(s) \in Seq(Alarm) /\ Len(Alarms(s)) = Len(s)
<1>1. \A k \in 1 .. Len(s) : s[k] \in Frame
  OBVIOUS
<1>2. \A k \in 1 .. Len(s) : s[k].alarm \in Alarm
  BY <1>1 DEF Frame
<1> QED BY <1>2 DEF Alarms

LEMMA AlarmsSame ==
  ASSUME NEW s \in Seq(Frame), NEW r \in Seq(Frame), Len(r) = Len(s),
         \A k \in 1 .. Len(s) : r[k].alarm = s[k].alarm
  PROVE  Alarms(r) = Alarms(s)
BY DEF Alarms

LEMMA AlarmsPushed ==
  ASSUME NEW s \in Seq(Frame), NEW c \in Frame
  PROVE  Alarms(Append(s, c)) = Append(Alarms(s), c.alarm)
<1> DEFINE r == Append(s, c)
           f == Alarms(s)
           g == Append(f, c.alarm)
<1>1. r \in Seq(Frame) /\ Len(r) = Len(s) + 1 /\ r[Len(s) + 1] = c
      /\ \A k \in 1 .. Len(s) : r[k] = s[k]
  BY AppendProperties
<1>2. f \in Seq(Alarm) /\ Len(f) = Len(s) /\ c.alarm \in Alarm
  BY AlarmsTyped DEF Frame
<1>3. \A k \in 1 .. Len(s) : f[k] = s[k].alarm
  BY DEF Alarms
<1>4. g \in Seq(Alarm) /\ Len(g) = Len(f) + 1 /\ g[Len(f) + 1] = c.alarm
      /\ \A k \in 1 .. Len(f) : g[k] = f[k]
  <2> HIDE DEF f
  <2> QED BY <1>2, AppendProperties
<1>5. Alarms(r) \in Seq(Alarm) /\ Len(Alarms(r)) = Len(r)
  BY <1>1, AlarmsTyped
<1>6. \A k \in 1 .. Len(r) : Alarms(r)[k] = r[k].alarm
  BY DEF Alarms
<1> HIDE DEF r, f, g
<1>7. \A k \in 1 .. Len(r) : Alarms(r)[k] = g[k]
  BY <1>1, <1>2, <1>3, <1>4, <1>6
<1>8. Alarms(r) = g
  BY <1>1, <1>2, <1>4, <1>5, <1>7, SeqEqual
<1> QED BY <1>8 DEF r, f, g

LEMMA AlarmsBelow ==
  ASSUME calls \in Seq(Frame), calls # <<>>
  PROVE  Alarms(Below) = SubSeq(Alarms(calls), 1, Len(Alarms(calls)) - 1)
<1> DEFINE n == Len(calls) - 1
           f == Alarms(calls)
           g == SubSeq(f, 1, n)
<1>1. /\ Below \in Seq(Frame) /\ Len(Below) = n /\ n \in Nat
      /\ \A k \in 1 .. n : Below[k] = calls[k]
  BY BelowTyped
<1>2. f \in Seq(Alarm) /\ Len(f) = Len(calls)
  BY AlarmsTyped
<1>3. \A k \in 1 .. n : f[k] = calls[k].alarm
  BY DEF Alarms
<1>4. Len(f) - 1 = n /\ 1 .. n \subseteq 1 .. Len(f)
  BY <1>2
<1>5. Alarms(Below) \in Seq(Alarm) /\ Len(Alarms(Below)) = n
  BY <1>1, AlarmsTyped
<1>6. \A k \in 1 .. n : Alarms(Below)[k] = Below[k].alarm
  BY <1>1 DEF Alarms
<1> HIDE DEF n, f
<1>7. g \in Seq(Alarm) /\ Len(g) = n /\ \A k \in 1 .. n : g[k] = f[k]
  <2>1. \A i \in 1 .. n : f[i] \in Alarm
    BY <1>2, <1>4
  <2>2. /\ SubSeq(f, 1, n) \in Seq(Alarm)
        /\ Len(SubSeq(f, 1, n)) = IF 1 <= n THEN n - 1 + 1 ELSE 0
        /\ \A i \in 1 .. n - 1 + 1 : SubSeq(f, 1, n)[i] = f[1 + i - 1]
    BY <1>1, <2>1, SubSeqProperties
  <2>3. Len(SubSeq(f, 1, n)) = n
    BY <1>1, <2>2
  <2>4. ASSUME NEW k \in 1 .. n PROVE SubSeq(f, 1, n)[k] = f[k]
    <3>1. k \in 1 .. n - 1 + 1 /\ 1 + k - 1 = k
      BY <1>1
    <3> QED BY <2>2, <3>1
  <2> QED BY <2>2, <2>3, <2>4
<1> HIDE DEF g
<1>8. Alarms(Below) = g
  <2>1. \A k \in 1 .. n : Alarms(Below)[k] = g[k]
    BY <1>1, <1>3, <1>6, <1>7
  <2> QED BY <1>5, <1>7, <2>1, SeqEqual
<1> QED BY <1>4, <1>8 DEF f, g
-----------------------------------------------------------------------------
(* The settings the promise is about: the counter counts one by one and is *)
(* not set, no alarm is armed from its own first call, and a periodic      *)
(* alarm is set for a time ahead, at most one period ahead, and so that    *)
(* its next time does not wrap.                                            *)
Punctual ==
  /\ ~RearmInside /\ Increment = 1 /\ Jumps = {}
  /\ \A s \in Settings : s[2] # 0 => 0 <= s[1] /\ s[1] <= s[2] /\ MaxCount + s[2] < Width

(* The inductive invariant: then no time passes unserved.  An alarm on the *)
(* list is due now at the earliest, and later than now when no tick is     *)
(* under way; so a periodic alarm is due exactly now when its function is  *)
(* called, its next time is ahead, and add_alarm() never calls a function  *)
(* on behalf of tick().                                                    *)
Fits(a) == interval[a] # 0 => MaxCount + interval[a] < Width
NotPast(a) == (enabled[a] /\ interval[a] # 0) \/ linked[a] > 0 => counter <= trigger[a]
Served(a) == linked[a] > 0 /\ ~ticking => counter < trigger[a]
NoRequeue == \A k \in 1 .. Len(calls) : calls[k].by # "requeue"
ServiceInv ==
  /\ PeriodInv /\ counter <= MaxCount /\ NoRequeue
  /\ \A a \in Alarm : Fits(a) /\ NotPast(a) /\ Served(a)

LEMMA ServiceTypes ==
  ASSUME ServiceInv
  PROVE  /\ TypeOK /\ ListOK /\ AddsOnce(calls) /\ calls \in Seq(Frame)
         /\ counter \in Nat /\ counter \in TickCount /\ MaxCount \in Nat
         /\ trigger \in [Alarm -> TickCount] /\ interval \in [Alarm -> TickCount]
         /\ enabled \in [Alarm -> BOOLEAN] /\ linked \in [Alarm -> Nat]
         /\ \A b \in Alarm : /\ trigger[b] \in Nat /\ trigger[b] \in TickCount
                             /\ interval[b] \in Nat /\ interval[b] \in TickCount
                             /\ linked[b] \in Nat
<1>1. TypeOK /\ ListOK /\ AddsOnce(calls)
  BY DEF ServiceInv, PeriodInv, ListInv
<1>2. TickCount \subseteq Nat /\ MaxCount \in Nat
  BY WidthPositive, CountAssumption
<1>3. /\ calls \in Seq(Frame) /\ counter \in TickCount
      /\ trigger \in [Alarm -> TickCount] /\ interval \in [Alarm -> TickCount]
      /\ enabled \in [Alarm -> BOOLEAN] /\ linked \in [Alarm -> Nat]
  BY <1>1 DEF TypeOK
<1>4. ASSUME NEW b \in Alarm
      PROVE  trigger[b] \in TickCount /\ interval[b] \in TickCount /\ linked[b] \in Nat
  BY <1>3
<1> QED BY <1>1, <1>2, <1>3, <1>4

LEMMA UpcomingAhead ==
  ASSUME counter \in Nat, NEW t \in Nat, NEW p \in Nat \ {0}
  PROVE  Promised!Upcoming(t, p) \in Nat /\ Promised!Upcoming(t, p) > counter
<1>1. CASE t > counter
  BY <1>1 DEF Promised!Upcoming
<1>2. CASE t <= counter
  <2> DEFINE x == counter - t
             q == x \div p
  <2>1. x \in Nat
    BY <1>2
  <2> HIDE DEF x
  <2>2. q \in Nat /\ x = p * q + (x % p) /\ x % p \in 0 .. p - 1
    BY <2>1, Division
  <2>3. Promised!Upcoming(t, p) = t + p * (q + 1)
    BY <1>2 DEF Promised!Upcoming, x
  <2> HIDE DEF q
  <2>4. p * (q + 1) = p * q + p /\ p * q \in Nat
    BY <2>2
  <2>5. p * (q + 1) \in Nat /\ p * (q + 1) > x
    BY <2>1, <2>2, <2>4
  <2>6. t + x = counter
    BY <1>2 DEF x
  <2> QED BY <2>1, <2>3, <2>5, <2>6
<1> QED BY <1>1, <1>2

(* tick() puts an alarm that is due now back for one interval on.          *)
LEMMA SumFits ==
  ASSUME ServiceInv, NEW p \in Nat, MaxCount + p < Width
  PROVE  (counter + p) % Width = counter + p
<1> DEFINE x == counter + p
<1>1. counter \in Nat /\ counter <= MaxCount /\ MaxCount \in Nat
  BY ServiceTypes DEF ServiceInv
<1>2. x \in 0 .. Width - 1 /\ Width \in Nat \ {0}
  BY <1>1, WidthPositive
<1> HIDE DEF x
<1>3. x % Width = x
  BY <1>2
<1> QED BY <1>3 DEF x

LEMMA RetriggerFits ==
  ASSUME ServiceInv, NEW p \in Nat \ {0}, MaxCount + p < Width
  PROVE  Retrigger(counter, p) = counter + p
<1>1. counter \in Nat /\ counter <= MaxCount /\ MaxCount \in Nat
  BY ServiceTypes DEF ServiceInv
<1>2. counter + p < Width
  BY <1>1, WidthPositive
<1> QED BY <1>1, <1>2, RetriggerIs

(* The alarm that add_alarm() has in hand, if periodic, is due now.        *)
LEMMA AddedIsNow ==
  ASSUME ServiceInv, NEW a \in Alarm, Adds(calls, a), enabled[a], interval[a] # 0
  PROVE  trigger[a] = counter
<1>1. trigger[a] <= counter
  BY DEF ServiceInv, PeriodInv, AddedDue
<1>2. counter <= trigger[a]
  BY DEF ServiceInv, NotPast
<1> QED BY <1>1, <1>2, ServiceTypes

(* tick() waits for no function as add_alarm().                            *)
LEMMA ServiceReturns ==
  ASSUME ServiceInv, calls # <<>>, NEW a \in Alarm, ReturnToAdd(a)
  PROVE  calls' = Below /\ Top.by = "add" /\ Top.alarm = a
<1>1. Len(calls) \in 1 .. Len(calls) /\ Top = calls[Len(calls)] /\ Top \in Frame
  BY ServiceTypes DEF Top
<1>2. Top.by \in Callers /\ Top.by # "requeue"
  BY <1>1 DEF Frame, ServiceInv, NoRequeue
<1> QED BY <1>2 DEF ReturnToAdd, Callers

(* add_alarm() for a time that is not past, of an alarm off the list.      *)
LEMMA AddAlarmTimely ==
  ASSUME ServiceInv, NEW a \in Alarm, NEW t \in TickCount, NEW links, NEW quiet, NEW call,
         counter' = counter, ticking' = ticking,
         \A b \in Alarm \ {a} : interval'[b] = interval[b],
         interval'[a] # 0 => counter <= t /\ MaxCount + interval'[a] < Width,
         links = [linked EXCEPT ![a] = 0],
         AddAlarm(a, t, links, quiet, call)
  PROVE  \A b \in Alarm : (Fits(b) /\ NotPast(b) /\ Served(b))'
<1>1. /\ trigger' = [trigger EXCEPT ![a] = t] /\ enabled' = [enabled EXCEPT ![a] = TRUE]
      /\ \/ t > counter /\ linked' = [links EXCEPT ![a] = @ + 1]
         \/ t <= counter /\ linked' = links
  BY DEF AddAlarm
<1>2. /\ \A b \in Alarm \ {a} :
           trigger'[b] = trigger[b] /\ enabled'[b] = enabled[b] /\ linked'[b] = linked[b]
      /\ trigger'[a] = t /\ (t > counter \/ linked'[a] = 0)
  BY <1>1, ServiceTypes
<1>3. ASSUME NEW b \in Alarm \ {a} PROVE (Fits(b) /\ NotPast(b) /\ Served(b))'
  BY <1>2 DEF Fits, NotPast, Served, ServiceInv
<1>4. Fits(a)' /\ NotPast(a)' /\ Served(a)'
  <2>1. t \in Nat /\ counter \in Nat
    BY ServiceTypes, WidthPositive
  <2>2. CASE t > counter
    <3>1. counter <= t
      BY <2>1, <2>2
    <3> QED BY <1>2, <2>2, <3>1 DEF Fits, NotPast, Served
  <2>3. CASE linked'[a] = 0
    <3>1. ~(linked'[a] > 0)
      BY <2>3
    <3> QED BY <1>2, <3>1 DEF Fits, NotPast, Served
  <2> QED BY <1>2, <2>2, <2>3
<1> QED BY <1>3, <1>4

LEMMA ServiceInit == Init => ServiceInv
<1> SUFFICES ASSUME Init PROVE ServiceInv
  OBVIOUS
<1>1. /\ calls = <<>> /\ counter = 0
      /\ \A a \in Alarm : interval[a] = 0 /\ linked[a] = 0 /\ ~enabled[a]
  BY DEF Init
<1>2. PeriodInv
  BY <1>1, ListsInit DEF PeriodInv, AddedDue, Near, Adds
<1>3. counter <= MaxCount
  BY <1>1, CountAssumption DEF TickCount
<1> QED BY <1>1, <1>2, <1>3 DEF ServiceInv, NoRequeue, Fits, NotPast, Served

LEMMA ServiceStep ==
  ASSUME ServiceInv, [Next]_vars, Punctual
  PROVE  ServiceInv'
<1>t. /\ TypeOK /\ ListOK /\ AddsOnce(calls) /\ calls \in Seq(Frame)
      /\ trigger \in [Alarm -> TickCount] /\ interval \in [Alarm -> TickCount]
      /\ enabled \in [Alarm -> BOOLEAN] /\ linked \in [Alarm -> Nat]
  BY ServiceTypes
<1>i. /\ counter \in Nat /\ counter \in TickCount /\ MaxCount \in Nat
      /\ \A b \in Alarm : /\ trigger[b] \in Nat /\ trigger[b] \in TickCount
                          /\ interval[b] \in Nat /\ interval[b] \in TickCount
                          /\ linked[b] \in Nat
  BY ServiceTypes
<1>p. PeriodInv'
  <2>1. \A s \in Settings : s[2] # 0 => s[1] <= s[2]
    BY DEF Punctual
  <2> QED BY <2>1, PeriodStep DEF ServiceInv, Punctual
<1> DEFINE Timely == \A b \in Alarm : (Fits(b) /\ NotPast(b) /\ Served(b))'
<1> SUFFICES Timely /\ counter' <= MaxCount /\ NoRequeue'
  BY <1>p DEF ServiceInv
<1>c. counter' = counter => counter' <= MaxCount
  BY DEF ServiceInv
<1>q. MayCall => \A k \in 1 .. Len(Charged) : Charged[k].by # "requeue"
  BY <1>t, ChargedTyped DEF ServiceInv, NoRequeue
<1>n. MayCall /\ calls' = Charged => NoRequeue'
  BY <1>q DEF NoRequeue
<1>m. ASSUME NEW a \in Alarm, MayCall, calls' = Append(Charged, Call("add", a)) PROVE NoRequeue'
  <2> DEFINE c == Call("add", a)
  <2>1. c \in Frame /\ c.by = "add" /\ Charged \in Seq(Frame)
    BY <1>t, <1>m, CallTyped, ChargedTyped DEF Callers
  <2> HIDE DEF c
  <2>2. /\ Len(Append(Charged, c)) = Len(Charged) + 1 /\ Append(Charged, c)[Len(Charged) + 1] = c
        /\ \A k \in 1 .. Len(Charged) : Append(Charged, c)[k] = Charged[k]
    BY <2>1, AppendProperties
  <2>3. ASSUME NEW k \in 1 .. Len(Append(Charged, c)) PROVE Append(Charged, c)[k].by # "requeue"
    <3>1. CASE k = Len(Charged) + 1
      BY <2>1, <2>2, <3>1
    <3>2. CASE k # Len(Charged) + 1
      <4>1. k \in 1 .. Len(Charged)
        BY <2>1, <2>2, <3>2
      <4> QED BY <1>m, <1>q, <2>2, <4>1
    <3> QED BY <3>1, <3>2
  <2>4. calls' = Append(Charged, c)
    BY <1>m DEF c
  <2> QED BY <2>3, <2>4 DEF NoRequeue
<1>a. ASSUME NEW a \in Alarm, NEW t \in TickCount, NEW links, MayCall,
             links = [linked EXCEPT ![a] = 0], counter' = counter, ticking' = ticking,
             \A b \in Alarm \ {a} : interval'[b] = interval[b],
             interval'[a] # 0 => counter <= t /\ MaxCount + interval'[a] < Width,
             AddAlarm(a, t, links, Charged, Append(Charged, Call("add", a)))
      PROVE  Timely /\ counter' <= MaxCount /\ NoRequeue'
  <2>1. calls' = Charged \/ calls' = Append(Charged, Call("add", a))
    BY <1>a DEF AddAlarm
  <2>2. Timely
    BY <1>a, AddAlarmTimely
  <2> QED BY <1>a, <1>c, <1>m, <1>n, <2>1, <2>2
<1>1. ASSUME NEW a \in Alarm, NEW setting \in Settings, Initialize(a, setting)
      PROVE  Timely /\ counter' <= MaxCount /\ NoRequeue'
  <2> DEFINE t == counter + setting[1]
             links == IF enabled[a] THEN Unlinked(a) ELSE linked
  <2>1. /\ MayCall /\ t \in TickCount /\ counter' = counter /\ ticking' = ticking
        /\ interval' = [interval EXCEPT ![a] = setting[2]]
        /\ AddAlarm(a, t, links, Charged, Append(Charged, Call("add", a)))
    BY <1>1 DEF Initialize
  <2>2. interval'[a] = setting[2] /\ \A b \in Alarm \ {a} : interval'[b] = interval[b]
    BY <1>t, <2>1
  <2>3. links = [linked EXCEPT ![a] = 0]
    BY <1>t DEF Unlinked, ListOK
  <2>4. interval'[a] # 0 => counter <= t /\ MaxCount + interval'[a] < Width
    <3>1. setting[1] \in Int
      BY SettingsAssumption
    <3>2. setting[2] # 0 => 0 <= setting[1] /\ MaxCount + setting[2] < Width
      BY DEF Punctual
    <3>3. 0 <= setting[1] => counter <= counter + setting[1]
      BY <1>i, <3>1
    <3> QED BY <2>2, <3>2, <3>3
  <2> HIDE DEF t, links, Timely
  <2> QED BY <1>a, <2>1, <2>2, <2>3, <2>4
<1>2. ASSUME NEW a \in Alarm, Enable(a) PROVE Timely /\ counter' <= MaxCount /\ NoRequeue'
  <2> DEFINE t == Synchronized(trigger[a], interval[a])
  <2>1. /\ MayCall /\ ~enabled[a] /\ counter' = counter /\ ticking' = ticking
        /\ interval' = interval
        /\ AddAlarm(a, t, linked, Charged, Append(Charged, Call("add", a)))
    BY <1>2 DEF Enable
  <2>2. t \in TickCount
    BY <1>i, SynchronizedTyped
  <2>3. linked = [linked EXCEPT ![a] = 0]
    BY <1>t, <2>1 DEF ListOK
  <2>4. interval[a] # 0 => counter <= t /\ MaxCount + interval[a] < Width
    <3> SUFFICES ASSUME interval[a] # 0 PROVE counter <= t /\ MaxCount + interval[a] < Width
      OBVIOUS
    <3>1. /\ interval[a] \in Nat \ {0} /\ trigger[a] \in Nat
          /\ trigger[a] <= counter + interval[a] /\ MaxCount + interval[a] < Width
          /\ counter <= MaxCount
      BY <1>i DEF ServiceInv, PeriodInv, Near, Fits
    <3>2. counter + interval[a] < Width
      BY <1>i, <3>1, WidthPositive
    <3>3. t = IF Promised!IsNow(trigger[a], interval[a]) THEN counter
              ELSE Promised!Upcoming(trigger[a], interval[a])
      BY <1>i, <3>1, <3>2, SynchronizedIs
    <3>4. Promised!Upcoming(trigger[a], interval[a]) >= counter
      BY <1>i, <3>1, UpcomingAhead
    <3> QED BY <1>i, <3>1, <3>3, <3>4
  <2> HIDE DEF t, Timely
  <2> QED BY <1>a, <2>1, <2>2, <2>3, <2>4
<1>3. ASSUME NEW a \in Alarm, Disable(a) PROVE Timely /\ counter' <= MaxCount /\ NoRequeue'
  <2>1. /\ calls' = Charged /\ MayCall /\ UNCHANGED <<counter, trigger, interval, ticking>>
        /\ enabled' = [enabled EXCEPT ![a] = FALSE] /\ linked' = [linked EXCEPT ![a] = 0]
    BY <1>3 DEF Disable, Unlinked
  <2>2. \A b \in Alarm : (enabled'[b] => enabled[b]) /\ (linked'[b] > 0 => linked[b] > 0)
    BY <1>t, <2>1
  <2>3. Timely
    BY <2>1, <2>2 DEF Fits, NotPast, Served, ServiceInv
  <2> QED BY <1>c, <1>n, <2>1, <2>3
<1>4. ASSUME NEW a \in Alarm, Fire(a) PROVE Timely /\ counter' <= MaxCount /\ NoRequeue'
  <2>1. /\ ticking /\ calls = <<>> /\ linked[a] > 0 /\ trigger[a] <= counter
        /\ UNCHANGED <<counter, interval, ticking>>
    BY <1>4 DEF Fire, Expired
  <2>2. trigger[a] = counter
    <3>1. counter <= trigger[a]
      BY <2>1 DEF ServiceInv, NotPast
    <3> QED BY <1>i, <2>1, <3>1
  <2>3. calls' = <<Call("tick", a)>> => NoRequeue'
    BY DEF NoRequeue, Call
  <2>4. CASE FireOnce(a)
    <3>1. /\ calls' = <<Call("tick", a)>> /\ UNCHANGED trigger
          /\ enabled' = [enabled EXCEPT ![a] = FALSE] /\ linked' = [linked EXCEPT ![a] = 0]
      BY <2>4 DEF FireOnce, Unlinked
    <3>2. \A b \in Alarm : (enabled'[b] => enabled[b]) /\ (linked'[b] > 0 => linked[b] > 0)
      BY <1>t, <3>1
    <3>3. Timely
      BY <2>1, <3>1, <3>2 DEF Fits, NotPast, Served, ServiceInv
    <3> QED BY <1>c, <2>1, <2>3, <3>1, <3>3
  <2>5. CASE FirePeriodic(a)
    <3> DEFINE t == (trigger[a] + interval[a]) % Width
    <3>1. /\ AddAlarm(a, t, Unlinked(a), <<Call("tick", a)>>, <<Call("requeue", a)>>)
          /\ interval[a] # 0
      BY <2>5 DEF FirePeriodic
    <3>2. t = counter + interval[a]
      BY <1>i, <2>2, <3>1, SumFits DEF ServiceInv, Fits
    <3>3. t \in TickCount
      BY <1>i, SumTyped
    <3> HIDE DEF t
    <3>4. t > counter
      BY <1>i, <3>1, <3>2
    <3>5. calls' = <<Call("tick", a)>>
      BY <1>i, <3>1, <3>2, <3>4 DEF AddAlarm
    <3>6. counter <= t /\ MaxCount + interval[a] < Width
      BY <1>i, <3>1, <3>2, <3>4 DEF ServiceInv, Fits
    <3>7. Unlinked(a) = [linked EXCEPT ![a] = 0]
      BY DEF Unlinked
    <3>8. Timely
      BY <2>1, <3>1, <3>3, <3>6, <3>7, AddAlarmTimely
    <3> HIDE DEF Timely
    <3> QED BY <1>c, <2>1, <2>3, <3>5, <3>8
  <2> QED BY <1>4, <2>4, <2>5 DEF Fire
<1>5. \A jump \in Jumps : ~SetValue(jump)
  BY DEF Punctual
<1>6. ASSUME Tick PROVE Timely /\ counter' <= MaxCount /\ NoRequeue'
  <2>1. /\ calls = <<>> /\ ~ticking /\ counter + 1 <= MaxCount
        /\ counter' = (counter + 1) % Width
        /\ ticking' /\ UNCHANGED <<trigger, interval, enabled, linked, calls>>
    BY <1>6 DEF Tick, Punctual
  <2>2. counter' = counter + 1
    <3>1. counter + 1 \in 0 .. Width - 1 /\ Width \in Nat \ {0}
      BY <1>i, <2>1, CountAssumption DEF TickCount
    <3> QED BY <2>1, <3>1
  <2>3. ASSUME NEW b \in Alarm, (enabled[b] /\ interval[b] # 0) \/ linked[b] > 0
        PROVE  counter + 1 <= trigger[b]
    <3>1. linked[b] > 0
      BY <2>1, <2>3 DEF ServiceInv, PeriodInv, ListInv, ListOK, BeingAdded
    <3>2. counter < trigger[b]
      BY <2>1, <3>1 DEF ServiceInv, Served
    <3> QED BY <1>i, <3>2
  <2>4. Timely
    BY <2>1, <2>2, <2>3 DEF Fits, NotPast, Served, ServiceInv
  <2> QED BY <2>1, <2>2, <2>4 DEF NoRequeue, ServiceInv
<1>7. ASSUME EndScan PROVE Timely /\ counter' <= MaxCount /\ NoRequeue'
  <2>1. UNCHANGED <<counter, trigger, interval, enabled, linked, calls>>
    BY <1>7 DEF EndScan
  <2>2. ASSUME NEW b \in Alarm, linked[b] > 0 PROVE counter < trigger[b]
    <3>1. ~(trigger[b] <= counter)
      BY <1>7, <2>2 DEF EndScan, Expired
    <3> QED BY <1>i, <3>1
  <2>3. Timely
    BY <2>1, <2>2 DEF Fits, NotPast, Served, ServiceInv
  <2> QED BY <1>c, <2>1, <2>3 DEF NoRequeue, ServiceInv
<1>8. ASSUME UNCHANGED vars PROVE Timely /\ counter' <= MaxCount /\ NoRequeue'
  BY <1>8 DEF vars, ServiceInv, Fits, NotPast, Served, NoRequeue
<1>9. ASSUME Return PROVE Timely /\ counter' <= MaxCount /\ NoRequeue'
  <2>1. /\ Below \in Seq(Frame) /\ calls # <<>> /\ UNCHANGED <<counter, interval, ticking>>
        /\ Len(Below) = Len(calls) - 1 /\ \A k \in 1 .. Len(calls) - 1 : Below[k] = calls[k]
    BY <1>9, <1>t, BelowTyped DEF Return
  <2>2. calls' = Below => NoRequeue'
    <3>1. Len(calls) \in Nat /\ \A k \in 1 .. Len(calls) : calls[k].by # "requeue"
      BY <1>t DEF NoRequeue, ServiceInv
    <3>2. \A k \in 1 .. Len(Below) : Below[k].by # "requeue"
      BY <2>1, <3>1
    <3> QED BY <3>2 DEF NoRequeue
  <2>3. CASE ReturnToScan
    <3>1. calls' = Below /\ UNCHANGED <<trigger, enabled, linked>>
      BY <2>3 DEF ReturnToScan
    <3>2. Timely
      BY <2>1, <3>1 DEF Fits, NotPast, Served, ServiceInv
    <3> QED BY <1>c, <2>1, <2>2, <3>1, <3>2
  <2>4. ASSUME NEW a \in Alarm, ReturnToAdd(a)
        PROVE  Timely /\ counter' <= MaxCount /\ NoRequeue'
    <3>1. calls' = Below /\ Top.by = "add" /\ Top.alarm = a
      BY <2>1, <2>4, ServiceReturns
    <3>2. Adds(calls, a)
      BY <1>t, <2>1, <3>1 DEF Adds, Top
    <3>3. CASE interval[a] # 0 /\ enabled[a]
               /\ trigger' = [trigger EXCEPT ![a] = Retrigger(@, interval[a])]
               /\ linked' = [linked EXCEPT ![a] = @ + 1]
               /\ UNCHANGED enabled
      <4>1. trigger[a] = counter
        BY <3>2, <3>3, AddedIsNow
      <4>2. trigger'[a] = counter + interval[a]
        BY <1>i, <1>t, <3>3, <4>1, RetriggerFits DEF ServiceInv, Fits
      <4>3. trigger'[a] > counter /\ counter <= trigger'[a]
        BY <1>i, <3>3, <4>2
      <4>4. \A b \in Alarm \ {a} : trigger'[b] = trigger[b] /\ linked'[b] = linked[b]
        BY <1>t, <3>3
      <4>5. ASSUME NEW b \in Alarm PROVE (Fits(b) /\ NotPast(b) /\ Served(b))'
        <5>1. CASE b = a
          BY <2>1, <4>3, <5>1 DEF Fits, NotPast, Served, ServiceInv
        <5>2. CASE b # a
          BY <2>1, <3>3, <4>4, <5>2 DEF Fits, NotPast, Served, ServiceInv
        <5> QED BY <5>1, <5>2
      <4> QED BY <1>c, <2>1, <2>2, <3>1, <4>5
    <3>4. CASE enabled' = [enabled EXCEPT ![a] = FALSE] /\ UNCHANGED <<trigger, linked>>
      <4>1. \A b \in Alarm : enabled'[b] => enabled[b]
        BY <1>t, <3>4
      <4>2. Timely
        BY <2>1, <3>4, <4>1 DEF Fits, NotPast, Served, ServiceInv
      <4> QED BY <1>c, <2>1, <2>2, <3>1, <4>2
    <3> QED BY <2>4, <3>3, <3>4 DEF ReturnToAdd
  <2>5. ReturnToScan \/ \E a \in Alarm : ReturnToAdd(a)
    BY <1>9 DEF Return
  <2> HIDE DEF Timely
  <2> QED BY <2>3, <2>4, <2>5
<1> HIDE DEF Timely
<1> QED BY <1>1, <1>2, <1>3, <1>4, <1>5, <1>6, <1>7, <1>8, <1>9 DEF Next
-----------------------------------------------------------------------------
(* Step by step.  The next time of every alarm, as the promise sees it:    *)
NextTime(a) ==
  IF enabled[a] /\ Adds(calls, a) /\ interval[a] # 0 THEN counter + interval[a] ELSE trigger[a]
Armed(a) == enabled[a] /\ ~(Adds(calls, a) /\ interval[a] = 0)
Mapped ==
  /\ PromisedAt = [a \in Alarm |-> NextTime(a)]
  /\ PromisedOn = [a \in Alarm |-> Armed(a)]
  /\ Ringing = Alarms(calls)

LEMMA MappedIs == ServiceInv => Mapped
<1> SUFFICES ASSUME ServiceInv PROVE Mapped
  OBVIOUS
<1>1. \A a \in Alarm : BeingAdded(a) <=> Adds(calls, a)
  BY DEF BeingAdded, Adds
<1>2. ASSUME NEW a \in Alarm
      PROVE  (IF enabled[a] /\ BeingAdded(a) /\ interval[a] # 0
              THEN Retrigger(trigger[a], interval[a]) ELSE trigger[a]) = NextTime(a)
  <2>1. CASE enabled[a] /\ Adds(calls, a) /\ interval[a] # 0
    <3>1. trigger[a] = counter
      BY <2>1, AddedIsNow
    <3>2. interval[a] \in Nat \ {0} /\ MaxCount + interval[a] < Width
      BY <2>1, ServiceTypes DEF ServiceInv, Fits
    <3>3. Retrigger(counter, interval[a]) = counter + interval[a]
      BY <3>2, RetriggerFits
    <3> QED BY <1>1, <2>1, <3>1, <3>3 DEF NextTime
  <2>2. CASE ~(enabled[a] /\ Adds(calls, a) /\ interval[a] # 0)
    BY <1>1, <2>2 DEF NextTime
  <2> QED BY <2>1, <2>2
<1>3. PromisedAt = [a \in Alarm |-> NextTime(a)]
  BY <1>2 DEF PromisedAt
<1>4. PromisedOn = [a \in Alarm |-> Armed(a)]
  BY <1>1 DEF PromisedOn, Armed
<1>5. Ringing = Alarms(calls)
  BY DEF Ringing, Alarms
<1> QED BY <1>3, <1>4, <1>5 DEF Mapped

(* One alarm changes.                                                      *)
LEMMA MappedStep ==
  ASSUME Mapped, Mapped', NEW a \in Alarm, NEW at, NEW on \in BOOLEAN,
         \A b \in Alarm \ {a} : NextTime(b)' = NextTime(b) /\ (Armed(b)' <=> Armed(b)),
         NextTime(a)' = at, Armed(a)' <=> on
  PROVE  /\ PromisedAt' = [PromisedAt EXCEPT ![a] = at]
         /\ PromisedOn' = [PromisedOn EXCEPT ![a] = on]
<1>0. /\ PromisedAt = [b \in Alarm |-> NextTime(b)] /\ PromisedOn = [b \in Alarm |-> Armed(b)]
      /\ PromisedAt' = [b \in Alarm |-> NextTime(b)']
      /\ PromisedOn' = [b \in Alarm |-> Armed(b)']
  BY DEF Mapped
<1>1. PromisedAt' = [PromisedAt EXCEPT ![a] = at]
  BY <1>0
<1>2. \A b \in Alarm : Armed(b) \in BOOLEAN /\ Armed(b)' \in BOOLEAN
  BY DEF Armed
<1>3. ASSUME NEW b \in Alarm PROVE Armed(b)' = IF b = a THEN on ELSE Armed(b)
  <2>1. CASE b = a
    BY <1>2, <2>1, Zenon
  <2>2. CASE b # a
    BY <1>2, <2>2, Zenon
  <2> QED BY <2>1, <2>2
<1>4. PromisedOn' = [PromisedOn EXCEPT ![a] = on]
  BY <1>0, <1>3
<1> QED BY <1>1, <1>4

LEMMA MappedSame ==
  ASSUME Mapped, Mapped',
         \A b \in Alarm : NextTime(b)' = NextTime(b) /\ (Armed(b)' <=> Armed(b))
  PROVE  PromisedAt' = PromisedAt /\ PromisedOn' = PromisedOn
<1>0. /\ PromisedAt = [b \in Alarm |-> NextTime(b)] /\ PromisedOn = [b \in Alarm |-> Armed(b)]
      /\ PromisedAt' = [b \in Alarm |-> NextTime(b)']
      /\ PromisedOn' = [b \in Alarm |-> Armed(b)']
  BY DEF Mapped
<1>1. PromisedAt' = PromisedAt
  BY <1>0
<1>2. \A b \in Alarm : Armed(b) \in BOOLEAN /\ Armed(b)' \in BOOLEAN
  BY DEF Armed
<1>3. \A b \in Alarm : Armed(b)' = Armed(b)
  BY <1>2, Zenon
<1>4. PromisedOn' = PromisedOn
  BY <1>0, <1>3
<1> QED BY <1>1, <1>4

(* The functions that are running after a call, and after a return.        *)
LEMMA RingingCharged ==
  ASSUME calls \in Seq(Frame), MayCall, Mapped, Mapped', calls' = Charged
  PROVE  Ringing' = Ringing
<1>1. Charged \in Seq(Frame) /\ Alarms(Charged) = Alarms(calls)
  BY ChargedTyped, AlarmsSame
<1> QED BY <1>1 DEF Mapped, Alarms

LEMMA RingingPushed ==
  ASSUME calls \in Seq(Frame), MayCall, Mapped, Mapped', NEW a \in Alarm,
         calls' = Append(Charged, Call("add", a))
  PROVE  Ringing' = Append(Ringing, a)
<1> DEFINE c == Call("add", a)
<1>1. Charged \in Seq(Frame) /\ Alarms(Charged) = Alarms(calls)
  BY ChargedTyped, AlarmsSame
<1>2. c \in Frame /\ c.alarm = a
  BY CallTyped DEF Callers
<1>3. calls' = Append(Charged, c)
  OBVIOUS
<1> HIDE DEF c
<1>4. Alarms(Append(Charged, c)) = Append(Alarms(Charged), c.alarm)
  BY <1>1, <1>2, AlarmsPushed
<1>5. Ringing' = Alarms(calls') /\ Ringing = Alarms(calls)
  BY DEF Mapped, Alarms
<1> QED BY <1>1, <1>2, <1>3, <1>4, <1>5

LEMMA RingingFresh ==
  ASSUME calls = <<>>, Mapped, Mapped', NEW a \in Alarm, calls' = <<Call("tick", a)>>
  PROVE  Ringing = <<>> /\ Ringing' = Append(Ringing, a)
<1> DEFINE c == Call("tick", a)
<1>1. c \in Frame /\ c.alarm = a
  BY CallTyped DEF Callers
<1>2. calls' = Append(calls, c) /\ calls \in Seq(Frame)
  OBVIOUS
<1> HIDE DEF c
<1>3. Alarms(Append(calls, c)) = Append(Alarms(calls), c.alarm)
  BY <1>1, <1>2, AlarmsPushed
<1>4. Ringing' = Alarms(calls') /\ Ringing = Alarms(calls)
  BY DEF Mapped, Alarms
<1>5. Ringing = <<>>
  <2>1. Alarms(calls) \in Seq(Alarm) /\ Len(Alarms(calls)) = 0
    BY <1>2, AlarmsTyped
  <2> QED BY <1>4, <2>1
<1> QED BY <1>1, <1>2, <1>3, <1>4, <1>5

LEMMA RingingBelow ==
  ASSUME calls \in Seq(Frame), calls # <<>>, Mapped, Mapped', calls' = Below
  PROVE  Ringing # <<>> /\ Ringing' = SubSeq(Ringing, 1, Len(Ringing) - 1)
<1>1. Alarms(Below) = SubSeq(Alarms(calls), 1, Len(Alarms(calls)) - 1)
  BY AlarmsBelow
<1>2. Ringing' = Alarms(calls') /\ Ringing = Alarms(calls)
  BY DEF Mapped, Alarms
<1>3. Ringing # <<>>
  <2>1. Len(Alarms(calls)) = Len(calls) /\ Len(calls) # 0 /\ Len(<<>>) = 0
    BY AlarmsTyped
  <2> QED BY <1>2, <2>1
<1> QED BY <1>1, <1>2, <1>3
-----------------------------------------------------------------------------
(* initialize() and enable() arm the alarm for the stream of times from    *)
(* t0 on, once they have found t, its first time that is not past.         *)
LEMMA ArmStep ==
  ASSUME ServiceInv, Mapped, Mapped', NEW a \in Alarm, NEW t \in TickCount, NEW p \in Nat,
         NEW links, NEW t0, MayCall, ~Adds(calls, a), counter' = counter,
         interval' = [interval EXCEPT ![a] = p],
         AddAlarm(a, t, links, Charged, Append(Charged, Call("add", a))),
         Promised!Upcoming(t0, p) = (IF t > counter \/ p = 0 THEN t ELSE counter + p),
         (t0 > counter \/ p # 0) <=> (t > counter \/ p # 0)
  PROVE  /\ PromisedAt' = [PromisedAt EXCEPT ![a] = Promised!Upcoming(t0, p)]
         /\ PromisedOn' = [PromisedOn EXCEPT ![a] = t0 > counter \/ p # 0]
         /\ t > counter => Ringing' = Ringing
         /\ t <= counter => Ringing' = Append(Ringing, a)
<1>t. /\ AddsOnce(calls) /\ calls \in Seq(Frame) /\ counter \in Nat /\ t \in Nat
      /\ trigger \in [Alarm -> TickCount] /\ interval \in [Alarm -> TickCount]
      /\ enabled \in [Alarm -> BOOLEAN]
  BY ServiceTypes, WidthPositive
<1>1. /\ trigger' = [trigger EXCEPT ![a] = t] /\ enabled' = [enabled EXCEPT ![a] = TRUE]
      /\ \/ t > counter /\ calls' = Charged
         \/ t <= counter /\ calls' = Append(Charged, Call("add", a))
  BY DEF AddAlarm
<1>2. /\ trigger'[a] = t /\ enabled'[a] /\ interval'[a] = p
      /\ \A b \in Alarm \ {a} :
           trigger'[b] = trigger[b] /\ enabled'[b] = enabled[b] /\ interval'[b] = interval[b]
  BY <1>1, <1>t
<1>3. /\ AddsOnce(Charged) /\ Charged \in Seq(Frame)
      /\ \A b \in Alarm : Adds(Charged, b) <=> Adds(calls, b)
  BY <1>t, ChargedAdds, ChargedTyped
<1>4. \A b \in Alarm : Adds(Append(Charged, Call("add", a)), b) <=> Adds(calls, b) \/ b = a
  BY <1>3, PushedAdds DEF Callers
<1>5. ~(t > counter /\ t <= counter)
  BY <1>t
<1>6. /\ \A b \in Alarm \ {a} : Adds(calls', b) <=> Adds(calls, b)
      /\ Adds(calls', a) <=> t <= counter
  BY <1>1, <1>3, <1>4, <1>5
<1>7. \A b \in Alarm \ {a} : NextTime(b)' = NextTime(b) /\ (Armed(b)' <=> Armed(b))
  BY <1>2, <1>6 DEF NextTime, Armed, Adds
<1>8. t > counter \/ t <= counter
  BY <1>t
<1>9. NextTime(a)' = Promised!Upcoming(t0, p)
  <2>1. NextTime(a)' = IF Adds(calls', a) /\ p # 0 THEN counter + p ELSE t
    BY <1>2 DEF NextTime, Adds
  <2> QED BY <1>5, <1>6, <1>8, <2>1
<1>10. Armed(a)' <=> t0 > counter \/ p # 0
  <2>1. Armed(a)' <=> ~(Adds(calls', a) /\ p = 0)
    BY <1>2 DEF Armed, Adds
  <2> QED BY <1>5, <1>6, <1>8, <2>1
<1>11. (t0 > counter \/ p # 0) \in BOOLEAN
  OBVIOUS
<1>12. /\ PromisedAt' = [PromisedAt EXCEPT ![a] = Promised!Upcoming(t0, p)]
       /\ PromisedOn' = [PromisedOn EXCEPT ![a] = t0 > counter \/ p # 0]
  <2> DEFINE on == t0 > counter \/ p # 0
  <2>1. on \in BOOLEAN /\ (Armed(a)' <=> on)
    BY <1>10
  <2> HIDE DEF on
  <2>2. /\ PromisedAt' = [PromisedAt EXCEPT ![a] = Promised!Upcoming(t0, p)]
        /\ PromisedOn' = [PromisedOn EXCEPT ![a] = on]
    BY <1>7, <1>9, <2>1, MappedStep
  <2> QED BY <2>2 DEF on
<1>13. t > counter => Ringing' = Ringing
  BY <1>t, <1>1, <1>5, RingingCharged
<1>14. t <= counter => Ringing' = Append(Ringing, a)
  BY <1>t, <1>1, <1>5, RingingPushed
<1> QED BY <1>12, <1>13, <1>14

LEMMA InitializeSets ==
  ASSUME ServiceInv, Mapped, Mapped', Punctual, NEW a \in Alarm, NEW setting \in Settings,
         Initialize(a, setting)
  PROVE  Promised!Set(a)
<1> DEFINE t == counter + setting[1]
           links == IF enabled[a] THEN Unlinked(a) ELSE linked
<1>1. /\ MayCall /\ t \in TickCount /\ counter' = counter /\ ~BeingAdded(a)
      /\ interval' = [interval EXCEPT ![a] = setting[2]]
      /\ AddAlarm(a, t, links, Charged, Append(Charged, Call("add", a)))
  BY DEF Initialize, Punctual
<1>2. setting[1] \in Int /\ setting[2] \in TickCount /\ counter \in Nat /\ setting[2] \in Nat
  BY SettingsAssumption, ServiceTypes, WidthPositive
<1>3. setting[2] # 0 => 0 <= setting[1]
  BY DEF Punctual
<1>4. t <= counter <=> setting[1] <= 0
  BY <1>2
<1>5. Promised!Upcoming(t, setting[2])
        = (IF t > counter \/ setting[2] = 0 THEN t ELSE counter + setting[2])
  <2>1. CASE t > counter \/ setting[2] = 0
    BY <2>1 DEF Promised!Upcoming
  <2>2. CASE ~(t > counter \/ setting[2] = 0)
    <3>1. t = counter /\ setting[2] \in Nat \ {0}
      BY <1>2, <1>3, <2>2
    <3> HIDE DEF t
    <3> QED BY <1>2, <2>2, <3>1, UpcomingNow
  <2> QED BY <2>1, <2>2
<1>6. ~Adds(calls, a)
  BY <1>1 DEF BeingAdded, Adds
<1>7. t > counter \/ t <= counter
  BY <1>2
<1> HIDE DEF t, links
<1>8. /\ PromisedAt' = [PromisedAt EXCEPT ![a] = Promised!Upcoming(t, setting[2])]
      /\ PromisedOn' = [PromisedOn EXCEPT ![a] = t > counter \/ setting[2] # 0]
      /\ t > counter => Ringing' = Ringing
      /\ t <= counter => Ringing' = Append(Ringing, a)
  BY <1>1, <1>2, <1>5, <1>6, ArmStep
<1>9. Ringing' = IF setting[1] <= 0 THEN Append(Ringing, a) ELSE Ringing
  BY <1>4, <1>7, <1>8
<1>10. Promised!Arm(a, t, setting[2], setting[1] <= 0)
  BY <1>1, <1>8, <1>9 DEF Promised!Arm
<1> QED BY <1>10 DEF Promised!Set, t

(* The time after now, of a stream that has a time now.                    *)
LEMMA UpcomingFromNow ==
  ASSUME counter \in Nat, NEW t \in Nat, NEW p \in Nat \ {0}, Promised!IsNow(t, p)
  PROVE  Promised!Upcoming(t, p) = counter + p
<1>1. t <= counter /\ (counter - t) % p = 0
  BY DEF Promised!IsNow
<1> DEFINE x == counter - t
           q == x \div p
<1>2. x \in Nat /\ x % p = 0 /\ t + x = counter
  BY <1>1
<1> HIDE DEF x
<1>3. q \in Nat /\ x = p * q + (x % p)
  BY <1>2, Division
<1>4. Promised!Upcoming(t, p) = t + p * (q + 1)
  BY <1>1 DEF Promised!Upcoming, x
<1> HIDE DEF q
<1>5. p * (q + 1) = p * q + p /\ p * q \in Nat
  BY <1>3
<1>6. p * q = x
  BY <1>2, <1>3, <1>5
<1> QED BY <1>2, <1>4, <1>5, <1>6

LEMMA EnableResumes ==
  ASSUME ServiceInv, Mapped, Mapped', Punctual, NEW a \in Alarm, Enable(a)
  PROVE  Promised!Resume(a)
<1> DEFINE t0 == trigger[a]
           p == interval[a]
           t == Synchronized(t0, p)
<1>1. /\ MayCall /\ ~BeingAdded(a) /\ ~enabled[a] /\ counter' = counter /\ interval' = interval
      /\ AddAlarm(a, t, linked, Charged, Append(Charged, Call("add", a)))
  BY DEF Enable, Punctual
<1>2. /\ counter \in Nat /\ t0 \in Nat /\ p \in Nat /\ t0 \in TickCount /\ p \in TickCount
      /\ counter \in TickCount /\ interval \in [Alarm -> TickCount]
  BY ServiceTypes
<1>3. t \in TickCount /\ t \in Nat
  BY <1>2, SynchronizedTyped, WidthPositive
<1>4. interval' = [interval EXCEPT ![a] = p] /\ ~Adds(calls, a)
  BY <1>1, <1>2 DEF BeingAdded, Adds
<1>5. PromisedAt[a] = t0 /\ ~PromisedOn[a]
  BY <1>1 DEF Mapped, NextTime, Armed
<1> DEFINE rings == IF p = 0 THEN t0 <= counter ELSE Promised!IsNow(t0, p)
           up == Promised!Upcoming(t0, p)
<1>6. /\ up = (IF t > counter \/ p = 0 THEN t ELSE counter + p)
      /\ (t0 > counter \/ p # 0) <=> (t > counter \/ p # 0)
      /\ rings <=> t <= counter
  <2>1. CASE p = 0
    <3>1. t = t0
      BY <2>1 DEF Synchronized
    <3>2. up = t0
      BY <2>1 DEF Promised!Upcoming
    <3> HIDE DEF t, t0, p, up
    <3> QED BY <2>1, <3>1, <3>2
  <2>2. CASE p # 0
    <3>1. p \in Nat \ {0} /\ t0 <= counter + p /\ MaxCount + p < Width /\ counter <= MaxCount
      BY <1>2, <2>2 DEF ServiceInv, PeriodInv, Near, Fits
    <3>2. counter + p < Width
      BY <1>2, <3>1, WidthPositive, CountAssumption
    <3>3. t = IF Promised!IsNow(t0, p) THEN counter ELSE up
      BY <1>2, <3>1, <3>2, SynchronizedIs
    <3>4. up \in Nat /\ up > counter
      BY <1>2, <3>1, UpcomingAhead
    <3>5. Promised!IsNow(t0, p) => up = counter + p
      BY <1>2, <3>1, UpcomingFromNow
    <3> HIDE DEF t, t0, p, up
    <3>6. CASE Promised!IsNow(t0, p)
      <4>1. t = counter
        BY <3>3, <3>6
      <4>2. ~(t > counter) /\ t <= counter
        BY <1>2, <4>1
      <4> QED BY <2>2, <3>5, <3>6, <4>2
    <3>7. CASE ~Promised!IsNow(t0, p)
      <4>1. t = up
        BY <3>3, <3>7
      <4>2. t > counter /\ ~(t <= counter)
        BY <1>2, <3>4, <4>1
      <4> QED BY <2>2, <3>7, <4>1, <4>2
    <3> QED BY <3>6, <3>7
  <2> QED BY <2>1, <2>2
<1>7. t > counter \/ t <= counter
  BY <1>2, <1>3
<1> HIDE DEF t, t0, p, rings
<1>8. /\ PromisedAt' = [PromisedAt EXCEPT ![a] = up]
      /\ PromisedOn' = [PromisedOn EXCEPT ![a] = t0 > counter \/ p # 0]
      /\ t > counter => Ringing' = Ringing
      /\ t <= counter => Ringing' = Append(Ringing, a)
  BY <1>1, <1>2, <1>3, <1>4, <1>6, ArmStep
<1>9. Ringing' = IF rings THEN Append(Ringing, a) ELSE Ringing
  BY <1>6, <1>7, <1>8
<1>10. /\ PromisedAt' = [PromisedAt EXCEPT ![a] = Promised!Upcoming(PromisedAt[a], interval[a])]
       /\ PromisedOn' = [PromisedOn EXCEPT ![a] = PromisedAt[a] > counter \/ interval[a] # 0]
       /\ interval' = [interval EXCEPT ![a] = interval[a]] /\ counter' = counter
       /\ ~PromisedOn[a]
  BY <1>1, <1>4, <1>5, <1>8 DEF p
<1>11. Ringing' = IF (IF interval[a] = 0 THEN PromisedAt[a] <= counter
                      ELSE Promised!IsNow(PromisedAt[a], interval[a]))
                  THEN Append(Ringing, a) ELSE Ringing
  BY <1>5, <1>9 DEF rings, p
<1> QED BY <1>10, <1>11 DEF Promised!Resume, Promised!Arm
-----------------------------------------------------------------------------
LEMMA DisableCancels ==
  ASSUME ServiceInv, Mapped, Mapped', NEW a \in Alarm, Disable(a)
  PROVE  Promised!Cancel(a) \/ Promised!Unserved(a)
<1>t. /\ AddsOnce(calls) /\ calls \in Seq(Frame) /\ counter \in Nat
      /\ interval[a] \in Nat /\ enabled \in [Alarm -> BOOLEAN]
  BY ServiceTypes
<1>1. /\ MayCall /\ calls' = Charged /\ UNCHANGED <<counter, trigger, interval>> /\ enabled[a]
      /\ enabled' = [enabled EXCEPT ![a] = FALSE]
  BY DEF Disable
<1>2. ~enabled'[a] /\ \A b \in Alarm \ {a} : enabled'[b] = enabled[b]
  BY <1>t, <1>1
<1>3. \A b \in Alarm : Adds(calls', b) <=> Adds(calls, b)
  BY <1>t, <1>1, ChargedAdds
<1>4. \A b \in Alarm \ {a} : NextTime(b)' = NextTime(b) /\ (Armed(b)' <=> Armed(b))
  BY <1>1, <1>2, <1>3 DEF NextTime, Armed, Adds
<1>5. NextTime(a)' = trigger[a] /\ (Armed(a)' <=> FALSE)
  BY <1>1, <1>2 DEF NextTime, Armed
<1>6. /\ PromisedAt' = [PromisedAt EXCEPT ![a] = trigger[a]]
      /\ PromisedOn' = [PromisedOn EXCEPT ![a] = FALSE]
  <2>1. FALSE \in BOOLEAN
    OBVIOUS
  <2> QED BY <1>4, <1>5, <2>1, MappedStep
<1>7. Ringing' = Ringing
  BY <1>t, <1>1, RingingCharged
<1>8. PromisedAt = [b \in Alarm |-> NextTime(b)]
  BY DEF Mapped
<1>9. CASE Adds(calls, a) /\ interval[a] # 0
  <2>1. trigger[a] = counter /\ PromisedAt[a] = counter + interval[a]
    BY <1>1, <1>8, <1>9, AddedIsNow DEF NextTime
  <2>2. \E k \in 1 .. Len(Ringing) : Ringing[k] = a
    <3>1. Ringing = Alarms(calls) /\ Len(Ringing) = Len(calls)
      BY <1>t, AlarmsTyped DEF Mapped
    <3>2. PICK k \in 1 .. Len(calls) : calls[k].alarm = a
      BY <1>9 DEF Adds
    <3>3. Ringing[k] = a
      BY <3>1, <3>2 DEF Alarms
    <3> QED BY <3>1, <3>3
  <2>3. (PromisedAt[a] - counter) % interval[a] = 0
    <3>1. PromisedAt[a] - counter = interval[a]
      BY <1>t, <2>1
    <3>2. \A p \in Nat \ {0} : p % p = 0
      BY SMT
    <3>3. interval[a] % interval[a] = 0
      BY <1>t, <1>9, <3>2
    <3> QED BY <3>1, <3>3
  <2>4. counter \in 0 .. counter
    BY <1>t
  <2>5. PromisedAt' = [PromisedAt EXCEPT ![a] = counter]
    BY <1>6, <2>1
  <2> QED BY <1>1, <1>6, <1>7, <1>9, <2>2, <2>3, <2>4, <2>5 DEF Promised!Unserved
<1>10. CASE ~(Adds(calls, a) /\ interval[a] # 0)
  <2>1. PromisedAt[a] = trigger[a]
    BY <1>8, <1>10 DEF NextTime
  <2>2. PromisedAt' = PromisedAt
    BY <1>6, <1>8, <2>1
  <2> QED BY <1>1, <1>6, <1>7, <2>2 DEF Promised!Cancel
<1> QED BY <1>9, <1>10

LEMMA FireRings ==
  ASSUME ServiceInv, Mapped, Mapped', NEW a \in Alarm, Fire(a)
  PROVE  Promised!Ring(a)
<1>t. /\ AddsOnce(calls) /\ calls \in Seq(Frame) /\ counter \in Nat /\ ListOK
      /\ interval[a] \in Nat /\ trigger[a] \in Nat /\ linked[a] \in Nat
      /\ trigger[a] \in TickCount /\ interval[a] \in TickCount
      /\ enabled \in [Alarm -> BOOLEAN] /\ trigger \in [Alarm -> TickCount]
      /\ interval \in [Alarm -> TickCount]
  BY ServiceTypes
<1>1. /\ calls = <<>> /\ linked[a] > 0 /\ trigger[a] <= counter
      /\ UNCHANGED <<counter, interval>>
  BY DEF Fire, Expired
<1>2. \A b \in Alarm : ~Adds(calls, b)
  BY <1>1 DEF Adds
<1>3. enabled[a] /\ trigger[a] = counter
  <2>1. enabled[a]
    BY <1>t, <1>1 DEF ListOK
  <2>2. counter <= trigger[a]
    BY <1>1 DEF ServiceInv, NotPast
  <2> QED BY <1>t, <1>1, <2>1, <2>2
<1>4. PromisedAt[a] = counter /\ PromisedOn[a]
  BY <1>2, <1>3 DEF Mapped, NextTime, Armed
<1> DEFINE up == Promised!Upcoming(counter, interval[a])
           on == counter > counter \/ interval[a] # 0
<1>5. /\ calls' = <<Call("tick", a)>> /\ trigger' = [trigger EXCEPT ![a] = up]
      /\ enabled' = [enabled EXCEPT ![a] = (interval[a] # 0)]
  <2>1. CASE FireOnce(a)
    <3>1. up = counter
      BY <2>1 DEF FireOnce, Promised!Upcoming
    <3>2. trigger = [trigger EXCEPT ![a] = counter]
      BY <1>t, <1>3
    <3> HIDE DEF up
    <3> QED BY <2>1, <3>1, <3>2 DEF FireOnce
  <2>2. CASE FirePeriodic(a)
    <3> DEFINE t == (trigger[a] + interval[a]) % Width
    <3>1. /\ AddAlarm(a, t, Unlinked(a), <<Call("tick", a)>>, <<Call("requeue", a)>>)
          /\ interval[a] # 0
      BY <2>2 DEF FirePeriodic
    <3>2. t = counter + interval[a]
      BY <1>t, <1>3, <3>1, SumFits DEF ServiceInv, Fits
    <3>3. up = counter + interval[a]
      BY <1>t, <3>1, UpcomingNow
    <3> HIDE DEF t, up
    <3>4. ~(t <= counter)
      BY <1>t, <3>1, <3>2
    <3>5. /\ calls' = <<Call("tick", a)>> /\ trigger' = [trigger EXCEPT ![a] = t]
          /\ enabled' = [enabled EXCEPT ![a] = TRUE]
      BY <3>1, <3>4 DEF AddAlarm
    <3> QED BY <3>1, <3>2, <3>3, <3>5
  <2> HIDE DEF up
  <2> QED BY <2>1, <2>2 DEF Fire
<1>6. Ringing = <<>> /\ Ringing' = Append(Ringing, a)
  BY <1>1, <1>5, RingingFresh
<1> HIDE DEF up
<1>7. \A b \in Alarm : ~Adds(calls', b)
  <2>1. Append(calls, Call("tick", a)) = <<Call("tick", a)>>
    BY <1>1
  <2> QED BY <1>t, <1>2, <1>5, <2>1, ScannedAdds
<1>8. /\ \A b \in Alarm \ {a} : trigger'[b] = trigger[b] /\ enabled'[b] = enabled[b]
      /\ trigger'[a] = up /\ (enabled'[a] <=> interval[a] # 0)
  BY <1>t, <1>5
<1>9. \A b \in Alarm \ {a} : NextTime(b)' = NextTime(b) /\ (Armed(b)' <=> Armed(b))
  BY <1>1, <1>2, <1>7, <1>8 DEF NextTime, Armed, Adds
<1>10. NextTime(a)' = up /\ (Armed(a)' <=> on) /\ on \in BOOLEAN
  <2>1. NextTime(a)' = up /\ (Armed(a)' <=> interval[a] # 0)
    BY <1>7, <1>8 DEF NextTime, Armed, Adds
  <2>2. ~(counter > counter)
    BY <1>t
  <2> QED BY <2>1, <2>2
<1> HIDE DEF on
<1>11. /\ PromisedAt' = [PromisedAt EXCEPT ![a] = up]
       /\ PromisedOn' = [PromisedOn EXCEPT ![a] = on]
  BY <1>9, <1>10, MappedStep
<1>12. interval' = [interval EXCEPT ![a] = interval[a]]
  BY <1>t, <1>1
<1>13. counter <= counter
  BY <1>t
<1> QED BY <1>1, <1>4, <1>6, <1>11, <1>12, <1>13
        DEF Promised!Ring, Promised!Due, Promised!Arm, up, on

LEMMA ReturnReturns ==
  ASSUME ServiceInv, Mapped, Mapped', Return
  PROVE  Promised!Return
<1>t. /\ AddsOnce(calls) /\ calls \in Seq(Frame) /\ counter \in Nat
      /\ enabled \in [Alarm -> BOOLEAN] /\ trigger \in [Alarm -> TickCount]
      /\ \A b \in Alarm : interval[b] \in Nat
  BY ServiceTypes
<1>1. calls # <<>> /\ UNCHANGED <<counter, interval>>
  BY DEF Return
<1>2. \A b \in Alarm : Adds(Below, b) <=>
        Adds(calls, b) /\ (Top.by = "tick" \/ b # Top.alarm)
  BY <1>t, <1>1, BelowAdds
<1> DEFINE Same == \A b \in Alarm : NextTime(b)' = NextTime(b) /\ (Armed(b)' <=> Armed(b))
<1>3. CASE ReturnToScan
  <2>1. calls' = Below /\ UNCHANGED <<trigger, enabled>> /\ Top.by = "tick"
    BY <1>3 DEF ReturnToScan
  <2>2. Same
    BY <1>1, <1>2, <2>1 DEF NextTime, Armed, Adds
  <2> HIDE DEF Same
  <2>3. calls' = Below /\ Same
    BY <2>1, <2>2
  <2> QED BY <1>t, <1>1, <2>3, MappedSame, RingingBelow DEF Promised!Return, Same
<1>4. ASSUME NEW a \in Alarm, ReturnToAdd(a) PROVE Promised!Return
  <2>1. calls' = Below /\ Top.by = "add" /\ Top.alarm = a
    BY <1>1, <1>4, ServiceReturns
  <2>2. /\ Adds(calls, a) /\ ~Adds(calls', a)
        /\ \A b \in Alarm \ {a} : Adds(calls', b) <=> Adds(calls, b)
    <3>1. Adds(calls, a)
      BY <1>t, <1>1, <2>1 DEF Adds, Top
    <3> QED BY <1>2, <2>1, <3>1
  <2>3. CASE interval[a] # 0 /\ enabled[a]
             /\ trigger' = [trigger EXCEPT ![a] = Retrigger(@, interval[a])] /\ UNCHANGED enabled
    <3>1. trigger[a] = counter
      BY <2>2, <2>3, AddedIsNow
    <3>2. interval[a] \in Nat \ {0} /\ MaxCount + interval[a] < Width
      BY <1>t, <2>3 DEF ServiceInv, Fits
    <3>3. Retrigger(counter, interval[a]) = counter + interval[a]
      BY <3>2, RetriggerFits
    <3>4. trigger'[a] = counter + interval[a] /\ \A b \in Alarm \ {a} : trigger'[b] = trigger[b]
      BY <1>t, <2>3, <3>1, <3>3
    <3>5. NextTime(a) = counter + interval[a] /\ Armed(a)
      BY <2>2, <2>3 DEF NextTime, Armed
    <3>6. NextTime(a)' = counter + interval[a] /\ Armed(a)'
      BY <1>1, <2>2, <2>3, <3>4 DEF NextTime, Armed, Adds
    <3>7. \A b \in Alarm \ {a} : NextTime(b)' = NextTime(b) /\ (Armed(b)' <=> Armed(b))
      BY <1>1, <2>2, <2>3, <3>4 DEF NextTime, Armed, Adds
    <3>8. Same
      BY <3>5, <3>6, <3>7
    <3> HIDE DEF Same
    <3> QED BY <1>t, <1>1, <2>1, <3>8, MappedSame, RingingBelow DEF Promised!Return, Same
  <2>4. CASE (interval[a] = 0 \/ ~enabled[a])
             /\ enabled' = [enabled EXCEPT ![a] = FALSE] /\ UNCHANGED trigger
    <3>1. ~enabled'[a] /\ \A b \in Alarm \ {a} : enabled'[b] = enabled[b]
      BY <1>t, <2>4
    <3>2. NextTime(a) = trigger[a] /\ ~Armed(a) /\ NextTime(a)' = trigger[a] /\ ~Armed(a)'
      BY <1>1, <2>2, <2>4, <3>1 DEF NextTime, Armed, Adds
    <3>3. \A b \in Alarm \ {a} : NextTime(b)' = NextTime(b) /\ (Armed(b)' <=> Armed(b))
      BY <1>1, <2>2, <2>4, <3>1 DEF NextTime, Armed, Adds
    <3>4. Same
      BY <3>2, <3>3
    <3> HIDE DEF Same
    <3> QED BY <1>t, <1>1, <2>1, <3>4, MappedSame, RingingBelow DEF Promised!Return, Same
  <2> QED BY <1>4, <2>3, <2>4 DEF ReturnToAdd
<1> HIDE DEF Same
<1> QED BY <1>3, <1>4 DEF Return

LEMMA TickTicks ==
  ASSUME ServiceInv, ServiceInv', Mapped, Mapped', Punctual, Tick
  PROVE  Promised!Tick
<1>t. /\ counter \in Nat /\ ListOK /\ MaxCount \in Nat /\ \A b \in Alarm : trigger[b] \in Nat
      /\ \A b \in Alarm : linked[b] \in Nat
  BY ServiceTypes
<1>1. /\ calls = <<>> /\ ~ticking /\ counter + 1 <= MaxCount
      /\ counter' = (counter + 1) % Width
      /\ UNCHANGED <<trigger, interval, enabled, linked, calls>>
  BY DEF Tick, Punctual
<1>2. counter' = counter + 1
  <2>1. counter + 1 \in 0 .. Width - 1 /\ Width \in Nat \ {0}
    BY <1>t, <1>1, CountAssumption DEF TickCount
  <2> QED BY <1>1, <2>1
<1>3. \A b \in Alarm : ~Adds(calls, b) /\ ~Adds(calls, b)'
  BY <1>1 DEF Adds
<1>4. \A b \in Alarm : NextTime(b)' = NextTime(b) /\ (Armed(b)' <=> Armed(b))
  BY <1>1, <1>3 DEF NextTime, Armed
<1>5. UNCHANGED <<PromisedAt, PromisedOn>>
  BY <1>4, MappedSame
<1>6. Ringing = <<>> /\ Ringing' = Ringing
  BY <1>1 DEF Ringing
<1>7. ASSUME NEW b \in Alarm PROVE ~Promised!Due(b)
  <2> SUFFICES ASSUME PromisedOn[b] PROVE ~(PromisedAt[b] <= counter)
    BY DEF Promised!Due
  <2>1. enabled[b] /\ PromisedAt[b] = trigger[b]
    BY <1>3 DEF Mapped, Armed, NextTime
  <2>2. linked[b] > 0
    BY <1>1, <2>1 DEF ServiceInv, PeriodInv, ListInv, ListOK, BeingAdded
  <2>3. counter < trigger[b]
    BY <1>1, <2>2 DEF ServiceInv, Served
  <2> QED BY <1>t, <2>1, <2>3
<1>8. counter < MaxCount
  BY <1>t, <1>1
<1> QED BY <1>1, <1>2, <1>5, <1>6, <1>7, <1>8 DEF Promised!Tick

LEMMA ServiceSimulates ==
  ASSUME ServiceInv, ServiceInv', Mapped, Mapped', Punctual, [Next]_vars
  PROVE  [Promised!Next]_(Promised!vars)
<1>1. ASSUME NEW a \in Alarm, NEW setting \in Settings, Initialize(a, setting)
      PROVE  Promised!Next
  BY <1>1, InitializeSets DEF Promised!Next
<1>2. ASSUME NEW a \in Alarm, Enable(a) \/ Disable(a) \/ Fire(a) PROVE Promised!Next
  BY <1>2, EnableResumes, DisableCancels, FireRings DEF Promised!Next
<1>3. \A jump \in Jumps : ~SetValue(jump)
  BY DEF Punctual
<1>4. CASE Tick
  BY <1>4, TickTicks DEF Promised!Next
<1>5. CASE EndScan \/ UNCHANGED vars
  <2>1. UNCHANGED <<counter, trigger, interval, enabled, calls>>
    BY <1>5 DEF EndScan, vars
  <2>2. \A b \in Alarm : NextTime(b)' = NextTime(b) /\ (Armed(b)' <=> Armed(b))
    BY <2>1 DEF NextTime, Armed, Adds
  <2>3. UNCHANGED <<PromisedAt, PromisedOn, Ringing>>
    BY <2>1, <2>2, MappedSame DEF Ringing
  <2> QED BY <2>1, <2>3 DEF Promised!vars
<1>6. CASE Return
  BY <1>6, ReturnReturns DEF Promised!Next
<1> QED BY <1>1, <1>2, <1>3, <1>4, <1>5, <1>6 DEF Next

(* Counter and alarms keep the promise of AlarmService: whatever alarm     *)
(* functions set, cancel and resume, and however deep they nest, a         *)
(* function is called once for each time its alarm is due, before the      *)
(* counter moves on, and periodic alarms stay in phase, while disabled,    *)
(* too.                                                                    *)
THEOREM ImplementsService ==
  ASSUME Punctual
  PROVE  Spec => KeepsPromise
<1>1. Init => Promised!Init
  <2> SUFFICES ASSUME Init PROVE Promised!Init
    OBVIOUS
  <2>1. /\ counter = 0 /\ interval = [a \in Alarm |-> 0] /\ calls = <<>>
        /\ \A a \in Alarm : trigger[a] = 0 /\ ~enabled[a] /\ interval[a] = 0
    BY DEF Init
  <2>2. PromisedAt = [a \in Alarm |-> 0] /\ PromisedOn = [a \in Alarm |-> FALSE]
    BY <2>1 DEF PromisedAt, PromisedOn
  <2>3. Ringing = <<>>
    BY <2>1 DEF Ringing
  <2> QED BY <2>1, <2>2, <2>3 DEF Promised!Init
<1>2. ServiceInv /\ [Next]_vars => ServiceInv'
  BY ServiceStep
<1>3. ServiceInv /\ ServiceInv' /\ Mapped /\ Mapped' /\ [Next]_vars => [Promised!Next]_(Promised!vars)
  BY ServiceSimulates
<1> QED BY <1>1, <1>2, <1>3, ServiceInit, MappedIs, PTL DEF Spec, KeepsPromise, Promised!Spec
=============================================================================
