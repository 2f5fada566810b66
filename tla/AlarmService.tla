---------------------------- MODULE AlarmService ----------------------------
(***************************************************************************)
(* What the alarms of a counter promise to the code that uses them         *)
(* (packages/kernel/v3_0/doc/kernel.sgml, "Alarms"): the function of an    *)
(* armed alarm is called once for each time it is due, before the counter  *)
(* moves on; a periodic alarm stays in phase with the time it was first    *)
(* set for, also over a time in which it was disabled; arming an alarm for *)
(* a time that has come calls its function at once.  Functions may set,    *)
(* cancel and resume alarms, so calls nest.                                *)
(***************************************************************************)
EXTENDS Integers, Sequences

CONSTANTS
  Alarm,    \* the alarms
  Settings, \* pairs <<time from now, period>> alarms are set to
  Latest    \* the last value of the counter

VARIABLES
  now,      \* the counter
  at,       \* the next time the alarm is, or was, due
  every,    \* its period, 0 for a one-shot alarm
  on,       \* whether it is armed
  ringing   \* the alarms whose functions are running, innermost last

vars == <<now, at, every, on, ringing>>

Init ==
  /\ now = 0
  /\ at = [a \in Alarm |-> 0]
  /\ every = [a \in Alarm |-> 0]
  /\ on = [a \in Alarm |-> FALSE]
  /\ ringing = <<>>

Due(a) == on[a] /\ at[a] <= now

(* The first time of the alarm set for t every p that is still to come.    *)
Upcoming(t, p) ==
  IF t > now \/ p = 0 THEN t ELSE t + p * (((now - t) \div p) + 1)

(* Whether one of its times is now.                                        *)
IsNow(t, p) == t <= now /\ (p = 0 \/ (now - t) % p = 0)

(* Arm a for t every p, and call its function at once if rings holds.      *)
Arm(a, t, p, rings) ==
  /\ at' = [at EXCEPT ![a] = Upcoming(t, p)]
  /\ every' = [every EXCEPT ![a] = p]
  /\ on' = [on EXCEPT ![a] = t > now \/ p # 0]
  /\ ringing' = IF rings THEN Append(ringing, a) ELSE ringing
  /\ UNCHANGED now

Set(a) == \E s \in Settings : Arm(a, now + s[1], s[2], s[1] <= 0)

Resume(a) ==
  /\ ~on[a]
  /\ Arm(a, at[a], every[a],
         IF every[a] = 0 THEN at[a] <= now ELSE IsNow(at[a], every[a]))

Cancel(a) ==
  /\ on' = [on EXCEPT ![a] = FALSE]
  /\ UNCHANGED <<now, at, every, ringing>>

(* A periodic alarm that is cancelled while its function runs may count as *)
(* not served: resumed at one of its times, it rings again.                *)
Unserved(a) ==
  /\ \E k \in 1 .. Len(ringing) : ringing[k] = a
  /\ every[a] # 0
  /\ on' = [on EXCEPT ![a] = FALSE]
  /\ \E t \in 0 .. now : /\ (at[a] - t) % every[a] = 0
                          /\ at' = [at EXCEPT ![a] = t]
  /\ UNCHANGED <<now, every, ringing>>

Ring(a) == ringing = <<>> /\ Due(a) /\ Arm(a, at[a], every[a], TRUE)

Return ==
  /\ ringing # <<>>
  /\ ringing' = SubSeq(ringing, 1, Len(ringing) - 1)
  /\ UNCHANGED <<now, at, every, on>>

Tick ==
  /\ ringing = <<>>
  /\ now < Latest
  /\ \A a \in Alarm : ~Due(a)
  /\ now' = now + 1
  /\ UNCHANGED <<at, every, on, ringing>>

Next ==
  \/ \E a \in Alarm : Set(a) \/ Resume(a) \/ Cancel(a) \/ Unserved(a) \/ Ring(a)
  \/ Return
  \/ Tick

Spec == Init /\ [][Next]_vars
=============================================================================
