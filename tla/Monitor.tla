------------------------------- MODULE Monitor -------------------------------
(***************************************************************************)
(* What mutexes and condition variables promise the threads that use them, *)
(* without the kernel that implements them: no scheduler, no priorities,   *)
(* no queues, no reasons for waking.  KernelSync implements this module.   *)
(***************************************************************************)
CONSTANTS Thread, Mutex, NoThread, NoMutex

VARIABLES
  holder,     \* the thread that holds each mutex, or NoThread
  place       \* how each thread stands to the mutexes

vars == <<holder, place>>

(* out: not inside a call; entering: lock() has not returned; waiting and  *)
(* returning: a condition wait has not returned, and the thread is, or is  *)
(* no longer, waiting for the condition.                                   *)
Stands == {"out", "entering", "waiting", "returning"}
Place(stand, m) == [stand |-> stand, mx |-> m]
Out == Place("out", NoMutex)

TypeOK ==
  /\ holder \in [Mutex -> Thread \cup {NoThread}]
  /\ place \in [Thread -> [stand : Stands, mx : Mutex \cup {NoMutex}]]

Init ==
  /\ holder = [m \in Mutex |-> NoThread]
  /\ place = [t \in Thread |-> Out]

(* A mutex is taken only when nobody holds it.                             *)
Take(t, m) ==
  /\ holder[m] = NoThread
  /\ place[t] \in {Out, Place("entering", m), Place("returning", m)}
  /\ holder' = [holder EXCEPT ![m] = t]
  /\ place' = [place EXCEPT ![t] = Out]

Enter(t, m) ==
  /\ place[t] = Out
  /\ holder[m] \notin {NoThread, t}
  /\ place' = [place EXCEPT ![t] = Place("entering", m)]
  /\ UNCHANGED holder

(* A lock call may come back without the mutex, a condition wait may not.  *)
GiveUp(t) ==
  /\ place[t].stand = "entering"
  /\ place' = [place EXCEPT ![t] = Out]
  /\ UNCHANGED holder

(* Only the holder frees the mutex.                                        *)
Leave(t, m) ==
  /\ place[t] = Out
  /\ holder[m] = t
  /\ holder' = [holder EXCEPT ![m] = NoThread]
  /\ UNCHANGED place

(* Freeing the mutex and starting to wait are one step.                    *)
StartWait(t, m) ==
  /\ place[t] = Out
  /\ holder[m] = t
  /\ holder' = [holder EXCEPT ![m] = NoThread]
  /\ place' = [place EXCEPT ![t] = Place("waiting", m)]

EndWait(t) ==
  /\ place[t].stand = "waiting"
  /\ place' = [place EXCEPT ![t] = Place("returning", @.mx)]
  /\ UNCHANGED holder

Next ==
  \E t \in Thread :
    \/ GiveUp(t) \/ EndWait(t)
    \/ \E m \in Mutex : Take(t, m) \/ Enter(t, m) \/ Leave(t, m) \/ StartWait(t, m)

Spec == Init /\ [][Next]_vars
=============================================================================
