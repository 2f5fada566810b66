----------------------------- MODULE NetTimeout -----------------------------
(***************************************************************************)
(* The timeouts of the network stack and of the daemons above it:          *)
(* tcpip/os/timeout.c.  Callouts hang on one list; one kernel alarm is set *)
(* for the first of them, and its function raises a flag for the alarm     *)
(* thread, which scans the list and calls what is due.                     *)
(*                                                                         *)
(* Every operation and the whole scan hold the spl mutex, so they exclude  *)
(* each other; callbacks run inside the scan and may set and stop          *)
(* callouts.  Outside the mutex the clock goes on: between any two steps   *)
(* of the scan, and, if Preempt holds, between the moment an operation     *)
(* reads the clock and the moment it sets the alarm.                       *)
(*                                                                         *)
(* Times: delta counts from last_set_time.  due, what the caller asked     *)
(* for, is not in the code; the properties compare with it.                *)
(***************************************************************************)
EXTENDS Integers, Sequences

CONSTANTS
  Own,        \* the callouts that belong to their callers
  Slots,      \* the sequence _timeouts of callouts that timeout() hands out
  Fun,        \* functions with their arguments, as untimeout() compares them
  Null,       \* no callout, no function
  Delays,     \* the arguments of timeout() and callout_reset()
  Start,      \* the clock when the first callout may be set
  Preempt,    \* whether time passes before an operation sets the alarm
  TouchNext,  \* whether a callback may touch the callout the scan goes to next
  MaxTime,    \* bound on the clock
  MaxCalls    \* bound on the operations of one callback

Callout == Own \cup {Slots[k] : k \in DOMAIN Slots}
Tick == 0 .. MaxTime
Off == 0

ASSUME CalloutAssumption ==
  /\ Slots \in Seq(Callout)
  /\ \A j, k \in DOMAIN Slots : Slots[j] = Slots[k] => j = k
  /\ \A k \in DOMAIN Slots : Slots[k] \notin Own
  /\ Null \notin Callout \cup Fun \cup Int
ASSUME TimeAssumption ==
  /\ Delays \subseteq Nat \ {0}
  /\ MaxTime \in Nat /\ MaxCalls \in Nat
  /\ Start \in Tick
ASSUME ChoiceAssumption == Preempt \in BOOLEAN /\ TouchNext \in BOOLEAN

VARIABLES
  now,        \* cyg_current_time()
  alarm,      \* what timeout_alarm is set for; Off when it is not
  flag,       \* bit 1 of alarm_flag
  woken,      \* the alarm thread has taken the flag and waits for the mutex
  list,       \* timeouts and the links: [head, next, prev]
  delta, fun, \* fields of the callouts
  pending,    \* their CALLOUT_PENDING
  lastDelta,  \* last_delta; -1 while the scan is under way
  lastSet,    \* last_set_time
  pc,         \* what the holder of the mutex is doing
  min,        \* do_timeout()'s min_delta, or the delta the alarm is set to
  cur,        \* its e and, while the callback of e runs,
  after,      \* its e_next
  left,       \* the operations the callback has left
  due         \* when the caller wants it to be called; 0 if it is not pending

fields == <<list, delta, fun, pending, due>>
vars == <<now, alarm, flag, woken, fields, lastDelta, lastSet, pc, min, cur,
          after, left>>

(* No delta runs under: what is left of one is positive after every scan   *)
(* (timeout.c:135), and last_set_time never lies ahead of the clock.       *)
TypeOK ==
  /\ now \in Tick /\ alarm \in Nat
  /\ flag \in BOOLEAN /\ woken \in BOOLEAN
  /\ list \in [head : Callout \cup {Null}, next : [Callout -> Callout \cup {Null}],
               prev : [Callout -> Callout \cup {Null}]]
  /\ delta \in [Callout -> Nat] /\ due \in [Callout -> Nat]
  /\ fun \in [Callout -> Fun \cup {Null}]
  /\ pending \in [Callout -> BOOLEAN]
  /\ lastSet \in 0 .. now /\ min \in Nat
  /\ cur \in Callout \cup {Null} /\ after \in Callout \cup {Null}
  /\ left \in 0 .. MaxCalls
  /\ pc \in {"free", "setting", "scan", "callback", "restarting"}
  /\ pc \in {"free", "setting"} => lastDelta \in Nat
  /\ pc \in {"scan", "callback", "restarting"} => lastDelta = -1
  /\ pc \in {"setting", "restarting"} => min > 0

-----------------------------------------------------------------------------
(* The list of callouts.                                                   *)

(* Mutant of Pushed: the old head does not learn of the new one.           *)
PushedOneWay(L, c) ==
  [head |-> c,
   next |-> [L.next EXCEPT ![c] = L.head],
   prev |-> [L.prev EXCEPT ![c] = Null]]

(* c at the head.                                                          *)
Pushed(L, c) ==
  [head |-> c,
   next |-> [L.next EXCEPT ![c] = L.head],
   prev |-> IF L.head = Null THEN [L.prev EXCEPT ![c] = Null]
            ELSE [L.prev EXCEPT ![c] = Null, ![L.head] = c]]

(* Mutant of Unlinked: the head stays.                                     *)
UnlinkedKeepsHead(L, c) ==
  [head |-> L.head,
   next |-> IF L.prev[c] = Null THEN L.next
            ELSE [L.next EXCEPT ![L.prev[c]] = L.next[c]],
   prev |-> IF L.next[c] = Null THEN L.prev
            ELSE [L.prev EXCEPT ![L.next[c]] = L.prev[c]]]

(* c taken out; its own links stay as they are.                            *)
Unlinked(L, c) ==
  [head |-> IF L.prev[c] = Null THEN L.next[c] ELSE L.head,
   next |-> IF L.prev[c] = Null THEN L.next
            ELSE [L.next EXCEPT ![L.prev[c]] = L.next[c]],
   prev |-> IF L.next[c] = Null THEN L.prev
            ELSE [L.prev EXCEPT ![L.next[c]] = L.prev[c]]]

(* The callouts a walk from the head meets: the least set that holds the   *)
(* head and what follows its members.                                      *)
Listed ==
  {c \in Callout :
     \A S \in SUBSET Callout :
       /\ list.head \in S \cup {Null}
       /\ \A d \in S : list.next[d] \in S \cup {Null}
       => c \in S}

-----------------------------------------------------------------------------
(* The operations are called by any thread that gets the mutex, and by     *)
(* callbacks.                                                              *)
MayTouch(c) ==
  \/ pc = "free" /\ UNCHANGED left
  \/ /\ pc = "callback" /\ left > 0
     /\ TouchNext \/ c # after
     /\ left' = left - 1

(* Mutant of Counted: the time since the alarm was set is forgotten.       *)
CountedFromAlarm(d) == d

(* "Renormalize delta wrt the existing set alarm": d from now, counted     *)
(* from last_set_time.                                                     *)
Counted(d) == IF lastDelta > 0 /\ lastSet # 0 THEN d + now - lastSet ELSE d

(* Mutant of Sooner: an alarm that is set stays as it is.                  *)
SoonerNever(d) == lastDelta = 0

(* The alarm is off, or set for later than d.                              *)
Sooner(d) == lastDelta = 0 \/ d < lastDelta

(* callout_reset() up to cyg_alarm_initialize()                            *)
Reset(c, f, d) ==
  /\ MayTouch(c)
  /\ list' = Pushed(IF pending[c] THEN Unlinked(list, c) ELSE list, c)
  /\ pending' = [pending EXCEPT ![c] = TRUE]
  /\ fun' = [fun EXCEPT ![c] = f]
  /\ delta' = [delta EXCEPT ![c] = Counted(d)]
  /\ due' = [due EXCEPT ![c] = now + d]
  /\ \/ /\ Sooner(Counted(d))
        /\ lastSet' = IF lastDelta = 0 THEN now ELSE lastSet
        /\ min' = Counted(d)
        /\ pc' = "setting"
     \/ /\ ~Sooner(Counted(d))
        /\ UNCHANGED <<lastSet, min, pc>>
  /\ UNCHANGED <<now, alarm, flag, woken, lastDelta, cur, after>>

(* cyg_alarm_initialize() and what follows it in callout_reset() and in    *)
(* do_timeout(): for a time that has come the alarm function is called at  *)
(* once.                                                                   *)
SetAlarm ==
  /\ pc \in {"setting", "restarting"}
  /\ \/ lastSet + min > now /\ alarm' = lastSet + min /\ UNCHANGED flag
     \/ lastSet + min <= now /\ alarm' = Off /\ flag' = TRUE
  /\ lastDelta' = min
  /\ pc' = "free" /\ min' = 0
  /\ UNCHANGED <<now, woken, fields, lastSet, cur, after, left>>

(* callout_stop() of a pending callout; its delta stays                    *)
Stop(c) ==
  /\ MayTouch(c)
  /\ pending[c]
  /\ pending' = [pending EXCEPT ![c] = FALSE]
  /\ list' = Unlinked(list, c)
  /\ due' = [due EXCEPT ![c] = 0]
  /\ UNCHANGED <<now, alarm, flag, woken, delta, fun, lastDelta, lastSet,
                 pc, min, cur, after>>

(* timeout(), with the first slot that is not pending                      *)
Timeout(f, d) ==
  \E k \in DOMAIN Slots :
    /\ ~pending[Slots[k]] /\ \A j \in 1 .. k - 1 : pending[Slots[j]]
    /\ Reset(Slots[k], f, d)

(* untimeout(), of the first slot that matches                             *)
Matches(k, f) == delta[Slots[k]] # 0 /\ fun[Slots[k]] = f
Untimeout(f) ==
  \E k \in DOMAIN Slots :
    /\ Matches(k, f) /\ \A j \in 1 .. k - 1 : ~Matches(j, f)
    /\ Stop(Slots[k])

-----------------------------------------------------------------------------
(* The clock ticks; do_alarm() raises the flag when the alarm is due.      *)
ClockTick ==
  /\ now < MaxTime
  /\ pc # "setting" \/ Preempt
  /\ now' = now + 1
  /\ \/ alarm = now' /\ flag' = TRUE /\ alarm' = Off
     \/ alarm # now' /\ UNCHANGED <<flag, alarm>>
  /\ UNCHANGED <<woken, fields, lastDelta, lastSet, pc, min, cur, after, left>>

(* The alarm thread returns from cyg_flag_wait(), which clears the flag.   *)
TakeFlag ==
  /\ flag /\ ~woken /\ pc \in {"free", "setting"}
  /\ flag' = FALSE /\ woken' = TRUE
  /\ UNCHANGED <<now, alarm, fields, lastDelta, lastSet, pc, min, cur, after, left>>

(* It has the mutex: do_timeout() begins.                                  *)
StartScan ==
  /\ woken /\ pc = "free"
  /\ woken' = FALSE
  /\ min' = lastDelta
  /\ lastDelta' = -1
  /\ cur' = list.head
  /\ pc' = "scan"
  /\ UNCHANGED <<now, alarm, flag, fields, lastSet, after, left>>

Expires(c) == delta[c] # 0 /\ delta[c] <= min

ScanOver ==
  /\ pc = "scan" /\ cur # Null /\ ~Expires(cur)
  /\ delta' = [delta EXCEPT ![cur] = IF @ = 0 THEN 0 ELSE @ - min]
  /\ cur' = list.next[cur]
  /\ UNCHANGED <<now, alarm, flag, woken, list, fun, pending, due, lastDelta,
                 lastSet, pc, min, after, left>>

(* e is due: it leaves the list and its function is called.                *)
ScanFire ==
  /\ pc = "scan" /\ cur # Null /\ Expires(cur)
  /\ after' = list.next[cur]
  /\ pending' = [pending EXCEPT ![cur] = FALSE]
  /\ delta' = [delta EXCEPT ![cur] = 0]
  /\ list' = Unlinked(list, cur)
  /\ pc' = "callback"
  /\ left' = MaxCalls
  /\ due' = [due EXCEPT ![cur] = 0]
  /\ UNCHANGED <<now, alarm, flag, woken, fun, lastDelta, lastSet, min, cur>>

CallbackReturns ==
  /\ pc = "callback"
  /\ cur' = after
  /\ after' = Null
  /\ left' = 0
  /\ pc' = "scan"
  /\ UNCHANGED <<now, alarm, flag, woken, fields, lastDelta, lastSet, min>>

(* The end of the scan, up to cyg_alarm_initialize().                      *)
Remaining == {delta[c] : c \in Listed} \ {0}

EndScan ==
  /\ pc = "scan" /\ cur = Null
  /\ \/ /\ Remaining # {}
        /\ min' \in Remaining /\ \A d \in Remaining : min' <= d
        /\ lastSet' = now /\ pc' = "restarting"
        /\ UNCHANGED lastDelta
     \/ /\ Remaining = {}
        /\ lastDelta' = 0 /\ pc' = "free" /\ min' = 0
        /\ UNCHANGED lastSet
  /\ UNCHANGED <<now, alarm, flag, woken, fields, cur, after, left>>

-----------------------------------------------------------------------------
Init ==
  /\ now = Start /\ alarm = Off
  /\ flag = FALSE /\ woken = FALSE
  /\ list = [head |-> Null, next |-> [c \in Callout |-> Null],
             prev |-> [c \in Callout |-> Null]]
  /\ delta = [c \in Callout |-> 0] /\ due = [c \in Callout |-> 0]
  /\ fun = [c \in Callout |-> Null]
  /\ pending = [c \in Callout |-> FALSE]
  /\ lastDelta = 0 /\ lastSet = 0 /\ min = 0
  /\ cur = Null /\ after = Null /\ left = 0
  /\ pc = "free"

AlarmThread ==
  TakeFlag \/ StartScan \/ ScanOver \/ ScanFire \/ CallbackReturns \/ EndScan

Next ==
  \/ \E c \in Own, d \in Delays : Reset(c, Null, d)
  \/ \E c \in Own : Stop(c)
  \/ \E f \in Fun, d \in Delays : Timeout(f, d)
  \/ \E f \in Fun : Untimeout(f)
  \/ SetAlarm
  \/ ClockTick
  \/ AlarmThread

Spec == Init /\ [][Next]_vars

-----------------------------------------------------------------------------
(* The list holds the pending callouts, with links that agree both ways,   *)
(* at every point at which a callout may be set or stopped.                *)
ListOK ==
  /\ Listed = {c \in Callout : pending[c]}
  /\ list.head # Null => list.prev[list.head] = Null
  /\ \A c \in Listed : list.next[c] # Null => list.prev[list.next[c]] = c

(* No callout is left without an alarm: while one is pending, the alarm is *)
(* set for the first of them, or has fired and a scan is to come           *)
(* (timeout.c:410, "We didn't pick the smallest delta!").                  *)
Covered ==
  pc = "free" =>
    \A c \in Callout : pending[c] =>
      /\ 0 < lastDelta /\ lastDelta <= delta[c]
      /\ flag \/ woken \/ alarm = lastSet + lastDelta

(* "Function to execute when it expires" (param.h:932): no callback runs   *)
(* before the time its caller asked for, however late the alarm thread     *)
(* gets the mutex and whatever was set or stopped meanwhile.               *)
NeverEarly ==
  [][\A c \in Callout : ScanFire /\ cur = c => due[c] <= now]_vars

(* "CANCEL A TIMEOUT.  This can be called from anywhere, including         *)
(* recursively from the timeout functions themselves" (timeout.c:277): a   *)
(* callout that was stopped is not called until it is set again.           *)
StoppedStays ==
  [][\A c \in Callout : ScanFire /\ cur = c => pending[c]]_vars
=============================================================================
