---------------------------- MODULE CounterAlarm ----------------------------
(***************************************************************************)
(* A kernel counter and its alarms: Cyg_Counter and Cyg_Alarm in           *)
(* packages/kernel/v3_0/src/common/clock.cxx, with the single unsorted     *)
(* list of alarms the product is configured for.  The real-time clock is   *)
(* such a counter, ticked by its DSR; thread timers, the network timeouts  *)
(* and the Wi-Fi driver's timers are alarms on it.                         *)
(*                                                                         *)
(* All of it runs with the scheduler locked, so nothing interleaves with   *)
(* an operation except the alarm functions it calls.  An alarm function    *)
(* may itself initialise, enable and disable alarms; every call of a       *)
(* function is therefore a frame on calls, what the function does is       *)
(* actions of its own, and Return is the code that follows the call.       *)
(*                                                                         *)
(* Abstractions: the order of the list (the documentation leaves the order *)
(* of alarms due together open), so tick() may take any alarm that is due; *)
(* linked[a] counts how often a was put on the list and not removed.  On   *)
(* the real list a second insertion breaks the links, so states after one  *)
(* mean nothing.                                                           *)
(***************************************************************************)
EXTENDS Integers, Sequences

CONSTANTS
  Alarm,        \* the alarms attached to the counter
  Width,        \* 2^64, the values of cyg_tick_count
  Increment,    \* Cyg_Counter::increment
  Settings,     \* pairs <<ticks from now, interval>> alarms are set to
  Jumps,        \* what set_value() adds to the counter
  RearmInside,  \* whether an alarm may be armed from its own first call
  MaxCount,     \* bound on the counter
  MaxCalls,     \* bound on the alarm operations of one alarm function
  MaxDepth      \* bound on the nesting of alarm functions

TickCount == 0 .. Width - 1

ASSUME CountAssumption ==
  /\ Width \in Nat \ {0}
  /\ Increment \in Nat \ {0}
  /\ MaxCount \in TickCount
  /\ Jumps \subseteq Nat
ASSUME SettingsAssumption == Settings \subseteq Int \X TickCount
ASSUME BoundAssumption ==
  /\ RearmInside \in BOOLEAN
  /\ MaxCalls \in Nat
  /\ MaxDepth \in Nat \ {0}

VARIABLES
  counter,    \* Cyg_Counter::counter
  trigger,    \* Cyg_Alarm::trigger
  interval,   \* Cyg_Alarm::interval
  enabled,    \* Cyg_Alarm::enabled
  linked,     \* how many times the alarm is on Cyg_Counter::alarm_list
  ticking,    \* tick() is scanning the list
  calls       \* the alarm functions being called, innermost last

vars == <<counter, trigger, interval, enabled, linked, ticking, calls>>

(* Who called the function: the scan of tick(), add_alarm() on behalf of   *)
(* initialize() or enable(), add_alarm() on behalf of tick().              *)
Callers == {"tick", "add", "requeue"}
Frame == [by : Callers, alarm : Alarm, left : 0 .. MaxCalls]
Call(by, a) == [by |-> by, alarm |-> a, left |-> MaxCalls]

(* linked is at most one in every state that means something: ListOK.      *)
TypeOK ==
  /\ counter \in TickCount
  /\ trigger \in [Alarm -> TickCount]
  /\ interval \in [Alarm -> TickCount]
  /\ enabled \in [Alarm -> BOOLEAN]
  /\ linked \in [Alarm -> Nat]
  /\ ticking \in BOOLEAN
  /\ calls \in Seq(Frame)

Top == calls[Len(calls)]
Below == SubSeq(calls, 1, Len(calls) - 1)

(* a is in the hands of an add_alarm() that waits for a's function.        *)
BeingAdded(a) ==
  \E k \in 1 .. Len(calls) : calls[k].alarm = a /\ calls[k].by # "tick"

-----------------------------------------------------------------------------
(* Mutant of Synchronized: an alarm due right now is put off an interval.  *)
SynchronizedSkips(t, i) ==
  LET d == (counter + i - t) % Width
  IN  IF i # 0 /\ d > i THEN (t + i * (d \div i)) % Width ELSE t

(* Mutant of Synchronized: one interval too many.                          *)
SynchronizedOvershoots(t, i) ==
  LET d == (counter + i - t) % Width
  IN  IF i # 0 /\ d > i THEN (t + i * ((d - 1) \div i) + i) % Width ELSE t

(* synchronize(): the first time of the stream at or after now, in the     *)
(* unsigned arithmetic of cyg_tick_count.                                  *)
Synchronized(t, i) ==
  LET d == (counter + i - t) % Width
  IN  IF i # 0 /\ d > i THEN (t + i * ((d - 1) \div i)) % Width ELSE t

(* Where add_alarm() puts the trigger after it has called the function.    *)
Retrigger(t, i) == Synchronized((t + i) % Width, i)

(* The operations are called by threads, while no tick is under way, and   *)
(* by alarm functions.                                                     *)
MayCall == IF calls = <<>> THEN ~ticking ELSE Top.left > 0
Charged ==
  IF calls = <<>> THEN calls ELSE [calls EXCEPT ![Len(calls)].left = @ - 1]

(* add_alarm() for an alarm with trigger t: an alarm that is due has its   *)
(* function called first, as the frame call.                               *)
AddAlarm(a, t, links, quiet, call) ==
  /\ trigger' = [trigger EXCEPT ![a] = t]
  /\ enabled' = [enabled EXCEPT ![a] = TRUE]
  /\ \/ /\ t > counter
        /\ linked' = [links EXCEPT ![a] = @ + 1]
        /\ calls' = quiet
     \/ /\ t <= counter
        /\ Len(calls) < MaxDepth
        /\ linked' = links
        /\ calls' = call

(* rem_alarm(), which is harmless for an alarm that is not on the list     *)
Unlinked(a) == [linked EXCEPT ![a] = 0]

(* initialize()                                                            *)
Initialize(a, setting) ==
  LET t == counter + setting[1] IN
  /\ MayCall
  /\ RearmInside \/ ~BeingAdded(a)
  /\ t \in TickCount
  /\ interval' = [interval EXCEPT ![a] = setting[2]]
  /\ AddAlarm(a, t, IF enabled[a] THEN Unlinked(a) ELSE linked,
              Charged, Append(Charged, Call("add", a)))
  /\ UNCHANGED <<counter, ticking>>

(* enable()                                                                *)
Enable(a) ==
  /\ MayCall
  /\ RearmInside \/ ~BeingAdded(a)
  /\ ~enabled[a]
  /\ AddAlarm(a, Synchronized(trigger[a], interval[a]), linked,
              Charged, Append(Charged, Call("add", a)))
  /\ UNCHANGED <<counter, interval, ticking>>

(* disable(), and the destructor of an alarm                               *)
Disable(a) ==
  /\ MayCall
  /\ enabled[a]
  /\ enabled' = [enabled EXCEPT ![a] = FALSE]
  /\ linked' = Unlinked(a)
  /\ calls' = Charged
  /\ UNCHANGED <<counter, trigger, interval, ticking>>

(* set_value()                                                             *)
SetValue(jump) ==
  /\ calls = <<>> /\ ~ticking
  /\ counter + jump <= MaxCount
  /\ counter' = counter + jump
  /\ UNCHANGED <<trigger, interval, enabled, linked, ticking, calls>>

-----------------------------------------------------------------------------
(* tick(): count and start to scan                                         *)
Tick ==
  /\ calls = <<>> /\ ~ticking
  /\ counter + Increment <= MaxCount
  /\ counter' = (counter + Increment) % Width
  /\ ticking' = TRUE
  /\ UNCHANGED <<trigger, interval, enabled, linked, calls>>

Expired(a) == linked[a] > 0 /\ trigger[a] <= counter

(* Mutant of FireOnce: the alarm stays on the list.                        *)
FireOnceStays(a) ==
  /\ interval[a] = 0
  /\ enabled' = [enabled EXCEPT ![a] = FALSE]
  /\ calls' = <<Call("tick", a)>>
  /\ UNCHANGED <<trigger, linked>>

(* tick() takes an alarm off the list and calls its function; a periodic   *)
(* one is put back before the call.                                        *)
FireOnce(a) ==
  /\ interval[a] = 0
  /\ enabled' = [enabled EXCEPT ![a] = FALSE]
  /\ linked' = Unlinked(a)
  /\ calls' = <<Call("tick", a)>>
  /\ UNCHANGED trigger

FirePeriodic(a) ==
  /\ interval[a] # 0
  /\ AddAlarm(a, (trigger[a] + interval[a]) % Width, Unlinked(a),
              <<Call("tick", a)>>, <<Call("requeue", a)>>)

Fire(a) ==
  /\ ticking /\ calls = <<>>
  /\ Expired(a)
  /\ FireOnce(a) \/ FirePeriodic(a)
  /\ UNCHANGED <<counter, interval, ticking>>

(* tick() has scanned the whole list and found nothing due.                *)
EndScan ==
  /\ ticking /\ calls = <<>>
  /\ \A a \in Alarm : ~Expired(a)
  /\ ticking' = FALSE
  /\ UNCHANGED <<counter, trigger, interval, enabled, linked, calls>>

-----------------------------------------------------------------------------
(* An alarm function returns to the scan, which starts again.              *)
ReturnToScan ==
  /\ Top.by = "tick"
  /\ calls' = Below
  /\ UNCHANGED <<trigger, enabled, linked>>

(* Mutant of ReturnToAdd: an alarm its function disabled is queued again.  *)
ReturnToAddQueues(a) ==
  /\ Top.by # "tick" /\ Top.alarm = a
  /\ calls' = IF Top.by = "add" THEN Below ELSE Append(Below, Call("tick", a))
  /\ interval[a] # 0
  /\ trigger' = [trigger EXCEPT ![a] = Retrigger(@, interval[a])]
  /\ linked' = [linked EXCEPT ![a] = @ + 1]
  /\ UNCHANGED enabled

(* It returns to add_alarm(), which queues the alarm for its next time     *)
(* unless it is a one-shot alarm or was disabled meanwhile; tick() then    *)
(* calls the function of the alarm it was requeueing.                      *)
ReturnToAdd(a) ==
  /\ Top.by # "tick" /\ Top.alarm = a
  /\ calls' = IF Top.by = "add" THEN Below ELSE Append(Below, Call("tick", a))
  /\ \/ /\ interval[a] # 0 /\ enabled[a]
        /\ trigger' = [trigger EXCEPT ![a] = Retrigger(@, interval[a])]
        /\ linked' = [linked EXCEPT ![a] = @ + 1]
        /\ UNCHANGED enabled
     \/ /\ interval[a] = 0 \/ ~enabled[a]
        /\ enabled' = [enabled EXCEPT ![a] = FALSE]
        /\ UNCHANGED <<trigger, linked>>

Return ==
  /\ calls # <<>>
  /\ ReturnToScan \/ \E a \in Alarm : ReturnToAdd(a)
  /\ UNCHANGED <<counter, interval, ticking>>

-----------------------------------------------------------------------------
Init ==
  /\ counter = 0
  /\ trigger = [a \in Alarm |-> 0]
  /\ interval = [a \in Alarm |-> 0]
  /\ enabled = [a \in Alarm |-> FALSE]
  /\ linked = [a \in Alarm |-> 0]
  /\ ticking = FALSE
  /\ calls = <<>>

Next ==
  \/ \E a \in Alarm, setting \in Settings : Initialize(a, setting)
  \/ \E a \in Alarm : Enable(a) \/ Disable(a) \/ Fire(a)
  \/ \E jump \in Jumps : SetValue(jump)
  \/ Tick
  \/ EndScan
  \/ Return

Spec == Init /\ [][Next]_vars

(* tick() keeps the processor until it is done, and alarm functions return *)
FairSpec ==
  /\ Spec
  /\ \A a \in Alarm : WF_vars(Fire(a))
  /\ WF_vars(EndScan)
  /\ WF_vars(Return)

-----------------------------------------------------------------------------
(* The list and the enabled flags agree whatever alarm functions did: an   *)
(* alarm is on the list once or not at all, a listed alarm is enabled, and *)
(* an enabled alarm is listed unless add_alarm() is still calling its      *)
(* function.  Else disable() and initialize(), which look at enabled       *)
(* alone, would leave an alarm behind or link it twice.                    *)
ListOK ==
  \A a \in Alarm :
    /\ linked[a] \in {0, 1}
    /\ linked[a] = 1 => enabled[a] /\ ~BeingAdded(a)
    /\ enabled[a] => linked[a] = 1 \/ BeingAdded(a)

(* No period is skipped: the next time of a listed periodic alarm is at    *)
(* most one interval away, also after the counter has been set forward or  *)
(* the alarm was set for a time long past (add_alarm(), synchronize()).    *)
WithinPeriod ==
  \A a \in Alarm :
    linked[a] > 0 /\ interval[a] # 0 => trigger[a] <= counter + interval[a]

(* A tick comes to its end: the scan does not find new work for ever,      *)
(* though every alarm function may arm other alarms (the scheduler is      *)
(* locked meanwhile).                                                      *)
TickEnds == ticking ~> ~ticking

(* Counter and alarms implement AlarmService.  While add_alarm() calls an  *)
(* alarm's function the alarm counts as armed for the time it is going to  *)
(* be queued for.                                                          *)
PromisedAt ==
  [a \in Alarm |-> IF enabled[a] /\ BeingAdded(a) /\ interval[a] # 0
                   THEN Retrigger(trigger[a], interval[a])
                   ELSE trigger[a]]
PromisedOn == [a \in Alarm |-> enabled[a] /\ ~(BeingAdded(a) /\ interval[a] = 0)]
Ringing == [k \in 1 .. Len(calls) |-> calls[k].alarm]

Promised == INSTANCE AlarmService WITH
  Latest <- MaxCount,
  now <- counter,
  at <- PromisedAt,
  every <- interval,
  on <- PromisedOn,
  ringing <- Ringing
KeepsPromise == Promised!Spec
=============================================================================
