----------------------------- MODULE KernelSync -----------------------------
(***************************************************************************)
(* The synchronisation core of the eCos kernel that the router runs on:    *)
(* threads (src/common/thread.cxx), the priority-inversion protocols       *)
(* (src/sched/sched.cxx), mutexes and condition variables                  *)
(* (src/sync/mutex.cxx), under packages/kernel/v3_0 and configured as      *)
(* ra305x_bsp/ra7628_bsp.ecc configures them: one CPU, multilevel-queue    *)
(* scheduler with sorted queues and timeslicing, priority inheritance and  *)
(* ceilings with the SIMPLE protocol, timed condition waits.               *)
(*                                                                         *)
(* Every kernel call runs with the scheduler locked from its first test to *)
(* its last assignment, so a call is one action up to the point where the  *)
(* thread gives up the processor; what it does when it runs again is       *)
(* another action, and pc[t] remembers where it stopped.  The switch to    *)
(* another thread is the action Dispatch.  The clock DSR (timeouts,        *)
(* timeslices) and DSRs that signal a condition run between two actions,   *)
(* except where the code holds the scheduler lock across the switch.       *)
(*                                                                         *)
(* Abstractions: time is not counted, an armed timer may expire at any     *)
(* moment and a deadline may already have passed when it is set; among the *)
(* ready threads of the highest priority the scheduler picks any, which    *)
(* one-tick timeslicing makes possible.                                    *)
(***************************************************************************)
EXTENDS Integers, FiniteSets, ThreadQueue

CONSTANTS
  Thread,         \* the application's threads
  Mutex,          \* the mutexes
  Cond,           \* the condition variables
  Idle,           \* the idle thread
  NoThread,       \* a null thread pointer
  NoMutex,        \* a null mutex pointer
  MinPriority,    \* CYG_THREAD_MIN_PRIORITY, the idle thread's priority
  InitPriority,   \* the priority each thread is created with
  Protocol,       \* the priority-inversion protocol of each mutex
  Ceiling,        \* the ceiling of each mutex (used by protocol CEILING)
  Given,          \* the priorities set_priority() is called with
  Started,        \* the threads resumed before the scheduler starts
  Calls,          \* the kernel calls the application makes
  MaxSuspend,     \* bound on suspend_count
  MaxHeld         \* bound on the mutexes a thread holds or asks for at once

Priority == 0 .. MinPriority
Protocols == {"NONE", "INHERIT", "CEILING"}

ASSUME IdleAssumption == Idle \notin Thread
ASSUME NoThreadAssumption == NoThread \notin Thread
ASSUME NoMutexAssumption == NoMutex \notin Mutex
ASSUME ObjectAssumption == Mutex \cap Cond = {}
ASSUME PriorityAssumption ==
  /\ MinPriority \in Nat
  /\ InitPriority \in [Thread -> Priority]
  /\ Protocol \in [Mutex -> Protocols]
  /\ Ceiling \in [Mutex -> Priority]
ASSUME StartAssumption == Started \subseteq Thread /\ Given \subseteq Priority
ASSUME BoundAssumption == MaxSuspend \in Nat /\ MaxHeld \in Nat

VARIABLES
  current,        \* Cyg_Scheduler::current_thread
  resched,        \* Cyg_Scheduler::need_reschedule
  state,          \* the state bits of a thread, {} is RUNNING
  suspendCount,   \* Cyg_Thread::suspend_count
  sleepReason,    \* Cyg_Thread::sleep_reason
  wakeReason,     \* Cyg_Thread::wake_reason
  pri,            \* the priority fields of Cyg_SchedThread
  timer,          \* the threads whose Cyg_ThreadTimer is enabled
  queue,          \* the wait queue of each mutex and condition variable
  owner,          \* Cyg_Mutex::owner; NoThread is an unlocked mutex
  pc              \* where the thread is inside the kernel, and for which mutex

vars == <<current, resched, state, suspendCount, sleepReason, wakeReason,
          pri, timer, queue, owner, pc>>

Bits == {"SLEEPING", "SUSPENDED", "EXITED"}
SleepReasons == {"NONE", "WAIT", "DELAY", "TIMEOUT"}
WakeReasons == {"NONE", "DONE", "TIMEOUT", "BREAK", "EXIT"}

(* user: outside the kernel; lock: asleep or just woken inside lock();     *)
(* condwait: inside the first half of a condition wait; relock: about to   *)
(* take the mutex back; relocking: asleep or just woken inside that lock() *)
(* ; delay: inside delay().                                                *)
Labels == {"user", "lock", "condwait", "relock", "relocking", "delay"}
Outside == {"user", "delay"}
At(label, m) == [at |-> label, mx |-> m]
User == At("user", NoMutex)

PriorityRecord == [cur : Priority, orig : Priority, inh : BOOLEAN, count : Int]
Place == [at : Outside, mx : {NoMutex}] \cup [at : Labels \ Outside, mx : Mutex]

(* Among the rest: a thread inside lock() or a condition wait has a mutex  *)
(* to go for.                                                              *)
TypeOK ==
  /\ current \in Thread \cup {Idle}
  /\ resched \in BOOLEAN
  /\ state \in [Thread -> SUBSET Bits]
  /\ suspendCount \in [Thread -> Nat]
  /\ sleepReason \in [Thread -> SleepReasons]
  /\ wakeReason \in [Thread -> WakeReasons]
  /\ pri \in [Thread -> PriorityRecord]
  /\ timer \subseteq Thread
  /\ queue \in [Mutex \cup Cond -> Seq(Thread)]
  /\ owner \in [Mutex -> Thread \cup {NoThread}]
  /\ pc \in [Thread -> Place]

-----------------------------------------------------------------------------
(* Priority bookkeeping of one thread, as functions on its record.         *)

(* set_priority(): while a priority is inherited the new one replaces the  *)
(* original, and takes effect at once only if it is better.                *)
SetPriorityOf(r, p) ==
  IF r.inh
  THEN [r EXCEPT !.orig = p, !.cur = IF p < @ THEN p ELSE @]
  ELSE [r EXCEPT !.cur = p]

(* Mutant of Inherit: a second boost is dropped.                           *)
BoostOnce(r, p) ==
  IF p < r.cur /\ ~r.inh
  THEN [r EXCEPT !.cur = p, !.orig = r.cur, !.inh = TRUE] ELSE r

(* Mutant of Inherit: a second boost overwrites the saved priority.        *)
BoostForgets(r, p) ==
  IF p < r.cur THEN [r EXCEPT !.cur = p, !.orig = r.cur, !.inh = TRUE] ELSE r

(* set_inherited_priority()                                                *)
Inherit(r, p) ==
  IF p < r.cur
  THEN [r EXCEPT !.cur = p, !.orig = IF r.inh THEN @ ELSE r.cur, !.inh = TRUE]
  ELSE r

(* clear_inherited_priority(): nothing is given back before the last mutex *)
(* is released.                                                            *)
Disinherit(r) ==
  IF r.count = 0 /\ r.inh
  THEN [r EXCEPT !.inh = FALSE, !.cur = IF @ < r.orig THEN r.orig ELSE @]
  ELSE r

(* What a thread's record becomes when it starts to claim mutex m, and     *)
(* when it gives m (or the attempt to lock it) up.                         *)
Claim(m, r) ==
  LET counted == [r EXCEPT !.count = @ + 1]
  IN  CASE Protocol[m] = "NONE"    -> r
        [] Protocol[m] = "INHERIT" -> counted
        [] Protocol[m] = "CEILING" -> Inherit(counted, Ceiling[m])

(* Mutant of Unclaim: the boost is given back before the count drops.      *)
UnclaimEarly(m, r) ==
  IF Protocol[m] = "NONE" THEN r ELSE [Disinherit(r) EXCEPT !.count = @ - 1]

Unclaim(m, r) ==
  IF Protocol[m] = "NONE" THEN r ELSE Disinherit([r EXCEPT !.count = @ - 1])

Cur(pr) == [x \in Thread |-> pr[x].cur]

-----------------------------------------------------------------------------
(* Scheduling.                                                             *)

Ready(t) == state[t] = {}
Dead(t) == "EXITED" \in state[t]
Held(t) == {m \in Mutex : owner[m] = t}

(* set_need_reschedule(x) for the threads x of S, under priorities pr      *)
Preempts(S, pr) ==
  \E x \in S : \/ current = Idle
               \/ ~Ready(current)
               \/ pr[x].cur < pr[current].cur

(* The thread that unlock_inner() must leave: it cannot run or it must be  *)
(* reconsidered.                                                           *)
Unsettled == resched \/ (current # Idle /\ ~Ready(current))

(* The scheduler lock is held across a switch by a thread inside lock() or *)
(* exit(): unlock_inner() runs no DSR for it.                              *)
SchedLocked ==
  current # Idle /\ (pc[current].at \in {"lock", "relocking"} \/ Dead(current))

Running(t) == current = t /\ Ready(t) /\ ~resched
Calling(t, call) == Running(t) /\ pc[t].at = "user" /\ call \in Calls

Candidates == {x \in Thread : Ready(x)}
Highest == {x \in Candidates : \A y \in Candidates : pri[x].cur <= pri[y].cur}

(* The scheduler part of unlock_inner(): the switch to a ready thread of   *)
(* the highest priority, which clears need_reschedule.                     *)
DispatchTo(t) ==
  /\ Unsettled
  /\ t \in IF Candidates = {} THEN {Idle} ELSE Highest
  /\ current' = t
  /\ resched' = FALSE
  /\ UNCHANGED <<state, suspendCount, sleepReason, wakeReason, pri, timer,
                 queue, owner, pc>>

Dispatch == \E t \in Thread \cup {Idle} : DispatchTo(t)

(* The clock DSR finds the time slice of the current thread used up and    *)
(* another thread of its priority ready.                                   *)
Timeslice ==
  /\ ~SchedLocked /\ ~resched
  /\ current # Idle /\ Ready(current)
  /\ \E x \in Candidates \ {current} : pri[x].cur = pri[current].cur
  /\ resched' = TRUE
  /\ UNCHANGED <<current, state, suspendCount, sleepReason, wakeReason, pri,
                 timer, queue, owner, pc>>

-----------------------------------------------------------------------------
(* Waking and leaving queues.                                              *)

Awake(S) == [x \in Thread |-> IF x \in S THEN state[x] \ {"SLEEPING"} ELSE state[x]]

(* set_wake_reason() or release(), and wake(), for the threads of S: a     *)
(* thread that is suspended as well stays off the run queue.               *)
Wake(S, reason) ==
  /\ state' = Awake(S)
  /\ sleepReason' = [x \in Thread |-> IF x \in S THEN "NONE" ELSE sleepReason[x]]
  /\ wakeReason' = [x \in Thread |-> IF x \in S THEN reason ELSE wakeReason[x]]
  /\ resched' = (resched \/ Preempts({x \in S : Awake(S)[x] = {}}, pri))

(* Mutant of Unlinked: a woken thread stays on its queue.                  *)
LeftOnQueue(x) == queue

Unlinked(x) == [q \in DOMAIN queue |-> remove(queue[q], x)]

(* Mutant of Requeued: a queued thread keeps its place.                    *)
KeptInPlace(qs, x, pr) == qs

(* set_priority() takes a queued thread out and puts it back at its place. *)
Requeued(qs, x, pr) ==
  [q \in DOMAIN qs |->
     IF x \in ToSet(qs[q])
     THEN enqueue(remove(qs[q], x), x, Cur(pr)) ELSE qs[q]]

Sleep(t, reason) ==
  /\ state' = [state EXCEPT ![t] = @ \cup {"SLEEPING"}]
  /\ sleepReason' = [sleepReason EXCEPT ![t] = reason]
  /\ wakeReason' = [wakeReason EXCEPT ![t] = "NONE"]

-----------------------------------------------------------------------------
(* Mutexes.                                                                *)

(* The loop of lock(), entered with the claim already counted in pr.       *)
(* Either the mutex is free ...                                            *)
Acquire(t, m, pr) ==
  /\ owner[m] = NoThread
  /\ owner' = [owner EXCEPT ![m] = t]
  /\ pri' = pr
  /\ resched' = (pr[t].cur # pri[t].cur)
  /\ pc' = [pc EXCEPT ![t] = User]
  /\ UNCHANGED <<state, sleepReason, wakeReason, queue>>

(* Mutant of BoostedOwner: the owner inherits nothing.                     *)
NoBoost(t, m, pr) == pr

(* ... or the thread sleeps on its queue and the owner, queued or not,     *)
(* inherits its priority.                                                  *)
BoostedOwner(t, m, pr) ==
  IF Protocol[m] = "INHERIT"
  THEN [pr EXCEPT ![owner[m]] = Inherit(@, pr[t].cur)] ELSE pr

Block(t, m, pr, label) ==
  LET boosted == BoostedOwner(t, m, pr)
      queued == [queue EXCEPT ![m] = enqueue(@, t, Cur(pr))]
  IN  /\ owner[m] \in Thread
      /\ Sleep(t, "WAIT")
      /\ pri' = boosted
      /\ queue' = IF boosted = pr THEN queued ELSE Requeued(queued, owner[m], boosted)
      /\ resched' = (boosted # pr)
      /\ pc' = [pc EXCEPT ![t] = At(label, m)]
      /\ UNCHANGED owner

Claimed(t, m) == [pri EXCEPT ![t] = Claim(m, @)]

(* lock() called by the application.                                       *)
Lock(t, m) ==
  /\ Calling(t, "lock")
  /\ owner[m] # t /\ Cardinality(Held(t)) < MaxHeld
  /\ Acquire(t, m, Claimed(t, m)) \/ Block(t, m, Claimed(t, m), "lock")
  /\ UNCHANGED <<current, suspendCount, timer>>

(* Mutant of TryLock: count_mutex() is left out.                           *)
TryLockUncounted(t, m) ==
  /\ Calling(t, "trylock")
  /\ Cardinality(Held(t)) < MaxHeld
  /\ Acquire(t, m, pri)
  /\ UNCHANGED <<current, suspendCount, timer>>

TryLock(t, m) ==
  /\ Calling(t, "trylock")
  /\ Cardinality(Held(t)) < MaxHeld
  /\ Acquire(t, m, Claimed(t, m))
  /\ UNCHANGED <<current, suspendCount, timer>>

(* exit(), with the timer cleared.                                         *)
ExitNow(t) ==
  /\ state' = [state EXCEPT ![t] = {"EXITED"}]
  /\ timer' = timer \ {t}
  /\ UNCHANGED <<current, resched, suspendCount, sleepReason, wakeReason, pri,
                 queue, owner, pc>>

(* lock() runs again after its reschedule(): it tries again, ...           *)
LockRetry(t) ==
  /\ Running(t) /\ pc[t].at \in {"lock", "relocking"}
  /\ wakeReason[t] \notin {"BREAK", "EXIT"}
  /\ Acquire(t, pc[t].mx, pri) \/ Block(t, pc[t].mx, pri, pc[t].at)
  /\ UNCHANGED <<current, suspendCount, timer>>

(* Mutant of LockFail: the wait does not loop until it has the mutex.      *)
LockFailReturns(t) ==
  /\ Running(t) /\ pc[t].at \in {"lock", "relocking"}
  /\ wakeReason[t] = "BREAK"
  /\ pri' = [pri EXCEPT ![t] = Unclaim(pc[t].mx, @)]
  /\ resched' = (pri'[t].cur # pri[t].cur)
  /\ pc' = [pc EXCEPT ![t] = User]
  /\ UNCHANGED <<current, state, suspendCount, sleepReason, wakeReason,
                 timer, queue, owner>>

(* ... fails because the wait was broken: the caller of lock() sees false, *)
(* a condition wait goes round its loop, ...                               *)
LockFail(t) ==
  LET m == pc[t].mx
  IN  /\ Running(t) /\ pc[t].at \in {"lock", "relocking"}
      /\ wakeReason[t] = "BREAK"
      /\ pri' = [pri EXCEPT ![t] = Unclaim(m, @)]
      /\ resched' = (pri'[t].cur # pri[t].cur)
      /\ pc' = [pc EXCEPT ![t] = IF @.at = "lock" THEN User ELSE At("relock", m)]
      /\ UNCHANGED <<current, state, suspendCount, sleepReason, wakeReason,
                     timer, queue, owner>>

(* ... or learns that it was killed.                                       *)
LockExit(t) ==
  /\ Running(t) /\ pc[t].at \in {"lock", "relocking"}
  /\ wakeReason[t] = "EXIT"
  /\ ExitNow(t)

(* unlock(): the head of the queue is taken off and, when others stay      *)
(* behind, given the owner's priority before the owner loses it.  The      *)
(* mutex is left free, it is not handed over.                              *)
Heir(m) == IF queue[m] = <<>> THEN {} ELSE {Head(queue[m])}

RelayPriority(t, m, x) ==
  IF Protocol[m] = "INHERIT" /\ Len(queue[m]) > 1
  THEN Inherit(pri[x], pri[t].cur) ELSE pri[x]

UnlockPri(t, m) ==
  [x \in Thread |-> IF x = t THEN Unclaim(m, pri[t])
                    ELSE IF x \in Heir(m) THEN RelayPriority(t, m, x) ELSE pri[x]]

UnlockQueue(m) == IF queue[m] = <<>> THEN queue ELSE [queue EXCEPT ![m] = Tail(@)]

(* Mutant of UnlockResched: an owner that loses its boost keeps running.   *)
HeirOnly(t, m) ==
  \E x \in Heir(m) : Awake({x})[x] = {} /\ UnlockPri(t, m)[x].cur < pri[t].cur

UnlockResched(t, m) ==
  \/ \E x \in Heir(m) : Awake({x})[x] = {} /\ UnlockPri(t, m)[x].cur < pri[t].cur
  \/ UnlockPri(t, m)[t].cur # pri[t].cur

Unlock(t, m) ==
  /\ Calling(t, "unlock")
  /\ owner[m] = t
  /\ state' = Awake(Heir(m))
  /\ sleepReason' = [x \in Thread |-> IF x \in Heir(m) THEN "NONE" ELSE sleepReason[x]]
  /\ wakeReason' = [x \in Thread |-> IF x \in Heir(m) THEN "DONE" ELSE wakeReason[x]]
  /\ pri' = UnlockPri(t, m)
  /\ queue' = UnlockQueue(m)
  /\ owner' = [owner EXCEPT ![m] = NoThread]
  /\ resched' = UnlockResched(t, m)
  /\ UNCHANGED <<current, suspendCount, timer, pc>>

(* Cyg_Mutex::release(): every waiter is woken to fail.                    *)
MutexRelease(t, m) ==
  /\ Calling(t, "mutexrelease")
  /\ queue[m] # <<>>
  /\ Wake(ToSet(queue[m]), "BREAK")
  /\ queue' = [queue EXCEPT ![m] = <<>>]
  /\ UNCHANGED <<current, suspendCount, pri, timer, owner, pc>>

-----------------------------------------------------------------------------
(* Condition variables.                                                    *)

(* The first half of a wait: the mutex is unlocked and the thread goes to  *)
(* sleep on c under one scheduler lock.                                    *)
Wait(t, c, m, reason) ==
  LET S == Heir(m)
  IN  /\ owner[m] = t
      /\ state' = [Awake(S) EXCEPT ![t] = @ \cup {"SLEEPING"}]
      /\ sleepReason' = [x \in Thread |-> IF x = t THEN reason
                                          ELSE IF x \in S THEN "NONE" ELSE sleepReason[x]]
      /\ wakeReason' = [x \in Thread |-> IF x = t THEN "NONE"
                                         ELSE IF x \in S THEN "DONE" ELSE wakeReason[x]]
      /\ pri' = UnlockPri(t, m)
      /\ queue' = [UnlockQueue(m) EXCEPT ![c] = enqueue(@, t, Cur(UnlockPri(t, m)))]
      /\ owner' = [owner EXCEPT ![m] = NoThread]
      /\ resched' = UnlockResched(t, m)
      /\ pc' = [pc EXCEPT ![t] = At("condwait", m)]
      /\ UNCHANGED <<current, suspendCount>>

CondWait(t, c, m) ==
  /\ Calling(t, "wait")
  /\ Wait(t, c, m, "WAIT")
  /\ UNCHANGED timer

(* timedwait() with a deadline in the future.                              *)
CondTimedWait(t, c, m) ==
  /\ Calling(t, "timedwait")
  /\ Wait(t, c, m, "TIMEOUT")
  /\ timer' = timer \cup {t}

(* Mutant of CondTimedWaitPast: sleep() comes after set_timer(), which has *)
(* run the alarm already.                                                  *)
SleepAfterAlarm(t, m) ==
  LET S == Heir(m)
  IN  /\ Calling(t, "timedwait")
      /\ owner[m] = t
      /\ state' = [Awake(S) EXCEPT ![t] = @ \cup {"SLEEPING"}]
      /\ sleepReason' = [x \in Thread |-> IF x = t THEN "TIMEOUT"
                                          ELSE IF x \in S THEN "NONE" ELSE sleepReason[x]]
      /\ wakeReason' = [x \in Thread |-> IF x = t THEN "NONE"
                                         ELSE IF x \in S THEN "DONE" ELSE wakeReason[x]]
      /\ pri' = UnlockPri(t, m)
      /\ queue' = UnlockQueue(m)
      /\ owner' = [owner EXCEPT ![m] = NoThread]
      /\ resched' = UnlockResched(t, m)
      /\ pc' = [pc EXCEPT ![t] = At("condwait", m)]
      /\ UNCHANGED <<current, suspendCount, timer>>

(* timedwait() with a deadline already past: set_timer() runs the alarm at *)
(* once, the thread does not sleep and is not put on the queue.            *)
CondTimedWaitPast(t, m) ==
  LET S == Heir(m)
  IN  /\ Calling(t, "timedwait")
      /\ owner[m] = t
      /\ state' = Awake(S)
      /\ sleepReason' = [x \in Thread |-> IF x \in S \cup {t} THEN "NONE" ELSE sleepReason[x]]
      /\ wakeReason' = [x \in Thread |-> IF x = t THEN "TIMEOUT"
                                         ELSE IF x \in S THEN "DONE" ELSE wakeReason[x]]
      /\ pri' = UnlockPri(t, m)
      /\ queue' = UnlockQueue(m)
      /\ owner' = [owner EXCEPT ![m] = NoThread]
      /\ resched' = UnlockResched(t, m)
      /\ pc' = [pc EXCEPT ![t] = At("condwait", m)]
      /\ UNCHANGED <<current, suspendCount, timer>>

(* The wait is over: the timer is cleared and the thread goes for the      *)
(* mutex, whatever woke it, or exits.                                      *)
CondWakeup(t) ==
  /\ Running(t) /\ pc[t].at = "condwait"
  /\ \/ /\ wakeReason[t] = "EXIT"
        /\ ExitNow(t)
     \/ /\ wakeReason[t] # "EXIT"
        /\ timer' = timer \ {t}
        /\ pc' = [pc EXCEPT ![t].at = "relock"]
        /\ UNCHANGED <<current, resched, state, suspendCount, sleepReason,
                       wakeReason, pri, queue, owner>>

(* The lock() of "while ( !mx->lock() ) continue;".                        *)
Relock(t) ==
  LET m == pc[t].mx
  IN  /\ Running(t) /\ pc[t].at = "relock"
      /\ Acquire(t, m, Claimed(t, m)) \/ Block(t, m, Claimed(t, m), "relocking")
      /\ UNCHANGED <<current, suspendCount, timer>>

SignalOne(c) ==
  /\ queue[c] # <<>>
  /\ Wake({Head(queue[c])}, "DONE")
  /\ queue' = [queue EXCEPT ![c] = Tail(@)]
  /\ UNCHANGED <<current, suspendCount, pri, timer, owner, pc>>

Signal(t, c) == Calling(t, "signal") /\ SignalOne(c)

(* signal() from a device driver's DSR.                                    *)
DsrSignal(c) == "dsrsignal" \in Calls /\ ~SchedLocked /\ SignalOne(c)

Broadcast(t, c) ==
  /\ Calling(t, "broadcast")
  /\ queue[c] # <<>>
  /\ Wake(ToSet(queue[c]), "DONE")
  /\ queue' = [queue EXCEPT ![c] = <<>>]
  /\ UNCHANGED <<current, suspendCount, pri, timer, owner, pc>>

-----------------------------------------------------------------------------
(* Threads acting on threads.                                              *)

Suspend(t, x) ==
  /\ Calling(t, "suspend")
  /\ suspendCount[x] < MaxSuspend
  /\ suspendCount' = [suspendCount EXCEPT ![x] = @ + 1]
  /\ state' = [state EXCEPT ![x] = @ \cup {"SUSPENDED"}]
  /\ UNCHANGED <<current, resched, sleepReason, wakeReason, pri, timer, queue,
                 owner, pc>>

Resume(t, x) ==
  /\ Calling(t, "resume")
  /\ suspendCount[x] > 0
  /\ suspendCount' = [suspendCount EXCEPT ![x] = @ - 1]
  /\ state' = [state EXCEPT ![x] = IF suspendCount[x] = 1 THEN @ \ {"SUSPENDED"} ELSE @]
  /\ resched' = Preempts({y \in {x} : state[y] # {} /\ state'[y] = {}}, pri)
  /\ UNCHANGED <<current, sleepReason, wakeReason, pri, timer, queue, owner, pc>>

(* Mutant of Release: a thread that was already woken is woken again.      *)
ReleaseAnyway(t, x) ==
  /\ Calling(t, "release")
  /\ Wake({x}, "BREAK")
  /\ queue' = Unlinked(x)
  /\ UNCHANGED <<current, suspendCount, pri, timer, owner, pc>>

(* Cyg_Thread::release(): a thread that sleeps for any reason is woken     *)
(* with BREAK; a thread that was already woken keeps its reason.           *)
Release(t, x) ==
  /\ Calling(t, "release")
  /\ sleepReason[x] # "NONE"
  /\ Wake({x}, "BREAK")
  /\ queue' = Unlinked(x)
  /\ UNCHANGED <<current, suspendCount, pri, timer, owner, pc>>

Exit(t) == Calling(t, "exit") /\ ExitNow(t)

(* kill() of another thread: resumed by force, its timer disabled, then    *)
(* woken to exit if it sleeps, taken off the run queue for good if not.    *)
Kill(t, x) ==
  LET resumed == state[x] \ {"SUSPENDED"}
      asleep == sleepReason[x] # "NONE"
      final == IF asleep \/ wakeReason[x] = "EXIT"
               THEN resumed \ {"SLEEPING"} ELSE {"EXITED"}
  IN  /\ Calling(t, "kill")
      /\ x # t
      /\ suspendCount' = [suspendCount EXCEPT ![x] = 0]
      /\ timer' = timer \ {x}
      /\ state' = [state EXCEPT ![x] = final]
      /\ sleepReason' = [sleepReason EXCEPT ![x] = "NONE"]
      /\ wakeReason' = [wakeReason EXCEPT ![x] = IF asleep THEN "EXIT" ELSE @]
      /\ queue' = IF asleep THEN Unlinked(x) ELSE queue
      /\ resched' = Preempts({y \in {x} : state[y] # {} /\ {} \in {resumed, final}}, pri)
      /\ UNCHANGED <<current, pri, owner, pc>>

SetPriority(t, x, p) ==
  /\ Calling(t, "setpriority")
  /\ pri' = [pri EXCEPT ![x] = SetPriorityOf(@, p)]
  /\ queue' = Requeued(queue, x, pri')
  /\ resched' = (x = t \/ Preempts({x}, pri'))
  /\ UNCHANGED <<current, state, suspendCount, sleepReason, wakeReason, timer,
                 owner, pc>>

(* delay(): the deadline lies in the future, or has passed already.        *)
Delay(t) ==
  /\ Calling(t, "delay")
  /\ \/ Sleep(t, "DELAY") /\ timer' = timer \cup {t}
     \/ /\ wakeReason' = [wakeReason EXCEPT ![t] = "DONE"]
        /\ UNCHANGED <<state, sleepReason, timer>>
  /\ pc' = [pc EXCEPT ![t] = At("delay", NoMutex)]
  /\ UNCHANGED <<current, resched, suspendCount, pri, queue, owner>>

DelayWakeup(t) ==
  /\ Running(t) /\ pc[t].at = "delay"
  /\ \/ wakeReason[t] = "EXIT" /\ ExitNow(t)
     \/ /\ wakeReason[t] # "EXIT"
        /\ timer' = timer \ {t}
        /\ pc' = [pc EXCEPT ![t] = User]
        /\ UNCHANGED <<current, resched, state, suspendCount, sleepReason,
                       wakeReason, pri, queue, owner>>

(* Cyg_ThreadTimer::alarm(), from the clock DSR.  A thread that was woken  *)
(* for another reason in the meantime is left alone.                       *)
TimerAlarm(x) ==
  /\ ~SchedLocked
  /\ x \in timer
  /\ timer' = timer \ {x}
  /\ \/ /\ sleepReason[x] \in {"DELAY", "TIMEOUT"}
        /\ Wake({x}, IF sleepReason[x] = "DELAY" THEN "DONE" ELSE "TIMEOUT")
        /\ queue' = Unlinked(x)
     \/ /\ sleepReason[x] \notin {"DELAY", "TIMEOUT"}
        /\ UNCHANGED <<resched, state, sleepReason, wakeReason, queue>>
  /\ UNCHANGED <<current, suspendCount, pri, owner, pc>>

-----------------------------------------------------------------------------
(* The scheduler starts: the threads are created suspended, the ones of    *)
(* Started have been resumed, and unlock_inner() is about to pick one.     *)
Init ==
  /\ current = Idle
  /\ resched = TRUE
  /\ state = [t \in Thread |-> IF t \in Started THEN {} ELSE {"SUSPENDED"}]
  /\ suspendCount = [t \in Thread |-> IF t \in Started THEN 0 ELSE 1]
  /\ sleepReason = [t \in Thread |-> "NONE"]
  /\ wakeReason = [t \in Thread |-> "NONE"]
  /\ pri = [t \in Thread |-> [cur |-> InitPriority[t], orig |-> InitPriority[t],
                              inh |-> FALSE, count |-> 0]]
  /\ timer = {}
  /\ queue = [q \in Mutex \cup Cond |-> <<>>]
  /\ owner = [m \in Mutex |-> NoThread]
  /\ pc = [t \in Thread |-> User]

MutexStep(t) ==
  \E m \in Mutex : Lock(t, m) \/ TryLock(t, m) \/ Unlock(t, m) \/ MutexRelease(t, m)

CondStep(t) ==
  \E c \in Cond : \/ Signal(t, c) \/ Broadcast(t, c)
                  \/ \E m \in Mutex : CondWait(t, c, m) \/ CondTimedWait(t, c, m)

ThreadStep(t) ==
  \E x \in Thread : \/ Suspend(t, x) \/ Resume(t, x) \/ Release(t, x) \/ Kill(t, x)
                    \/ \E p \in Given : SetPriority(t, x, p)

(* A thread goes on inside the kernel.                                     *)
Continue(t) ==
  LockRetry(t) \/ LockFail(t) \/ LockExit(t) \/ CondWakeup(t) \/ Relock(t) \/ DelayWakeup(t)

Dsr ==
  Timeslice \/ (\E x \in Thread : TimerAlarm(x)) \/ (\E c \in Cond : DsrSignal(c))

Next ==
  \/ Dispatch
  \/ Dsr
  \/ \E t \in Thread :
       \/ MutexStep(t) \/ CondStep(t) \/ ThreadStep(t) \/ Continue(t)
       \/ Exit(t) \/ Delay(t)
       \/ \E m \in Mutex : CondTimedWaitPast(t, m)

Spec == Init /\ [][Next]_vars

-----------------------------------------------------------------------------
(* Safety.                                                                 *)

OnQueue(t, q) == t \in ToSet(queue[q])

(* The program point and sleep reason of a thread that waits for q.        *)
Waits(t, q) ==
  IF q \in Mutex
  THEN pc[t].at \in {"lock", "relocking"} /\ pc[t].mx = q /\ sleepReason[t] = "WAIT"
  ELSE pc[t].at = "condwait" /\ sleepReason[t] \in {"WAIT", "TIMEOUT"}

(* A thread is on a wait queue only while it sleeps for that object: on    *)
(* one queue, once, with the sleep reason and at the program point of that *)
(* wait, whichever of unlock, signal, release, kill, set_priority and the  *)
(* timeout dealt with it in between (wake() and remove(), thread.cxx); and *)
(* no thread waits for itself.                                             *)
QueueOK ==
  /\ \A q \in DOMAIN queue : NoDuplicates(queue[q])
  /\ \A t \in Thread, q \in DOMAIN queue :
       OnQueue(t, q) => /\ "SLEEPING" \in state[t] /\ Waits(t, q)
                        /\ \A r \in DOMAIN queue : OnQueue(t, r) => r = q
  /\ \A m \in Mutex : owner[m] \notin ToSet(queue[m])

(* Nobody sleeps where no wakeup can reach: a thread asleep without being  *)
(* dead is on the queue of what it waits for, or its timer is running.     *)
NoOrphanSleeper ==
  \A t \in Thread :
    "SLEEPING" \in state[t] =>
      \/ t \in timer /\ sleepReason[t] \in {"DELAY", "TIMEOUT"}
      \/ \E q \in DOMAIN queue : OnQueue(t, q)

(* mutex_count is what clear_inherited_priority() takes it for: the        *)
(* protected mutexes the thread owns and the one it is claiming.           *)
Claiming(t) ==
  IF pc[t].at \in {"lock", "relocking"} /\ Protocol[pc[t].mx] # "NONE" THEN 1 ELSE 0

CountOK ==
  \A t \in Thread :
    ~Dead(t) => pri[t].count = Cardinality({m \in Held(t) : Protocol[m] # "NONE"}) + Claiming(t)

(* A boost ends with the last mutex: a thread that holds and claims none   *)
(* runs at its own priority, and a boosted one never below it.             *)
BoostEnds ==
  \A t \in Thread : /\ pri[t].inh => pri[t].count > 0 \/ Dead(t)
                    /\ pri[t].inh => pri[t].cur <= pri[t].orig

(* The priority a thread was given by the application survives every       *)
(* boost, relay and return: only set_priority() changes it.                *)
Base(t) == IF pri[t].inh THEN pri[t].orig ELSE pri[t].cur

BaseKept ==
  [][\A t \in Thread : Base(t)' # Base(t) =>
       \E u \in Thread, p \in Given : SetPriority(u, t, p)]_vars

(* Wait queues stay in priority order while inheritance and set_priority() *)
(* change the priorities of threads that are waiting.                      *)
QueuesSorted == \A q \in DOMAIN queue : Sorted(queue[q], Cur(pri))

(* A mutex is not left free with threads asleep on it and nobody on the    *)
(* way to take it: unlock() woke a thread that has not tried again yet.    *)
NoLostWakeup ==
  \A m \in Mutex :
    owner[m] = NoThread /\ queue[m] # <<>> =>
      \E t \in Thread : /\ pc[t].at \in {"lock", "relocking"} /\ pc[t].mx = m
                        /\ sleepReason[t] = "NONE" /\ wakeReason[t] = "DONE" /\ ~Dead(t)

(* The owner of an inheriting mutex runs at least at the priority of every *)
(* thread waiting for it.                                                  *)
NoInversion ==
  \A m \in Mutex :
    owner[m] # NoThread /\ Protocol[m] = "INHERIT" =>
      \A t \in Thread : OnQueue(t, m) => pri[owner[m]].cur <= pri[t].cur

(* No preemption is missed: when the kernel has settled, no ready thread   *)
(* is more urgent than the running one, and the processor does not idle.   *)
MostUrgentRuns ==
  ~Unsettled =>
    \A x \in Candidates : current # Idle /\ pri[current].cur <= pri[x].cur

-----------------------------------------------------------------------------
(* What the callers see: module Monitor.                                   *)
Stand(at) ==
  CASE at \in Outside                  -> "out"
    [] at = "lock"                     -> "entering"
    [] at = "condwait"                 -> "waiting"
    [] at \in {"relock", "relocking"}  -> "returning"

Standing == [t \in Thread |-> [stand |-> Stand(pc[t].at), mx |-> pc[t].mx]]

M == INSTANCE Monitor WITH holder <- owner, place <- Standing

(* Mutexes and condition waits keep the promises of Monitor through every  *)
(* preemption, suspension, break, timeout and kill: a mutex is taken only  *)
(* when free and freed only by its owner, a wait frees it and sleeps in    *)
(* one step and does not return without it.                                *)
MonitorSpec == M!Spec

-----------------------------------------------------------------------------
(* Progress.  The kernel finishes what it started and the clock ticks; an  *)
(* owner that gets the processor again and again ends its critical section *)
(* some time.  Threads of one priority take turns (timeslice_cpu()         *)
(* rotates their run queue), hence SF of DispatchTo.  Nothing else is      *)
(* promised: a thread outside a critical section may keep the processor    *)
(* for ever.                                                               *)
Fairness ==
  /\ WF_vars(Dispatch) /\ WF_vars(Timeslice)
  /\ \A t \in Thread : /\ SF_vars(DispatchTo(t))
                       /\ WF_vars(Continue(t)) /\ WF_vars(TimerAlarm(t))
                       /\ \A m \in Mutex : SF_vars(Unlock(t, m))

FairSpec == Spec /\ Fairness

(* The most urgent thread is never locked out by a middling one that       *)
(* computes for ever: inheritance lets the owner finish.                   *)
UrgentGetsMutex ==
  \A t \in Thread :
    (\A x \in Thread \ {t} : InitPriority[t] < InitPriority[x]) =>
      \A label \in {"lock", "relocking"} : pc[t].at = label ~> pc[t].at # label
=============================================================================
