-------------------------------- MODULE Mbox --------------------------------
(***************************************************************************)
(* The message boxes of the eCos kernel: packages/kernel/v3_0/include/     *)
(* mboxt.inl, with the parts of thread.cxx that their waiters meet: the    *)
(* thread timer, release() and kill().                                     *)
(*                                                                         *)
(* The scheduler is locked from the start of a call to its end or to the   *)
(* reschedule() in its waiting loop, and from there to the next one, so    *)
(* each of these stretches is one step.  Any thread that is ready may take *)
(* the next step: a superset of what the scheduler chooses, whatever the   *)
(* priorities, time slices and other threads.                              *)
(***************************************************************************)
EXTENDS ThreadQueue, FiniteSetsExt

CONSTANTS
  Thread, Item,
  Null,       \* no item
  Size,       \* of the ring (CYGNUM_KERNEL_SYNCH_MBOX_QUEUE_SIZE, 60)
  prio,       \* priority of each thread, a smaller number is more urgent
  Getter, Putter,
  Timed,      \* the threads that make calls with a timeout
  Killable    \* the threads other threads may kill

ASSUME SizeAssumption == Size \in Nat \ {0}
ASSUME ThreadAssumption ==
  /\ prio \in [Thread -> Nat]
  /\ {Getter, Putter, Timed, Killable} \subseteq SUBSET Thread
ASSUME ItemAssumption == Null \notin Item /\ Item # {}

VARIABLES
  base, count, itemqueue,   \* the ring: itemqueue[base] is the oldest item
  get_threadq, put_threadq, \* the threads asleep in get() and in put()
  call,       \* the blocking call each thread is in, "none" outside
  timed,      \* whether that call has a timeout
  given,      \* the item each thread waits to put
  out,        \* the item returned last
  th,         \* sleep_reason, wake_reason and timer of each thread
  exited      \* the threads in state EXITED

ring == <<base, count, itemqueue>>
vars == <<ring, get_threadq, put_threadq, call, timed, given, out, th, exited>>

SleepReason == {"NONE", "WAIT", "TIMEOUT"}
WakeReason == {"NONE", "DONE", "TIMEOUT", "BREAK", "EXIT"}

TypeOK ==
  /\ base \in 0 .. Size - 1 /\ count \in 0 .. Size
  /\ itemqueue \in [0 .. Size - 1 -> Item \cup {Null}]
  /\ get_threadq \in Seq(Thread) /\ put_threadq \in Seq(Thread)
  /\ call \in [Thread -> {"none", "get", "put"}]
  /\ timed \in [Thread -> BOOLEAN]
  /\ given \in [Thread -> Item \cup {Null}]
  /\ out \in Item \cup {Null}
  /\ th \in [Thread -> [sleep : SleepReason, wake : WakeReason, timer : BOOLEAN]]
  /\ exited \subseteq Thread

Init ==
  /\ base = 0 /\ count = 0 /\ itemqueue = [k \in 0 .. Size - 1 |-> Null]
  /\ get_threadq = <<>> /\ put_threadq = <<>>
  /\ call = [t \in Thread |-> "none"] /\ timed = [t \in Thread |-> FALSE]
  /\ given = [t \in Thread |-> Null] /\ out = Null
  /\ th = [t \in Thread |-> [sleep |-> "NONE", wake |-> "NONE", timer |-> FALSE]]
  /\ exited = {}

Asleep(t) == t \in ToSet(get_threadq) \cup ToSet(put_threadq)

(* A thread about to call, and one in the loop of a call that is ready.    *)
Free(t) == t \notin exited /\ call[t] = "none"
Awake(t, op) == t \notin exited /\ call[t] = op /\ ~Asleep(t)

-----------------------------------------------------------------------------
(* The threads' fields.                                                    *)

(* set_wake_reason() and set_sleep_reason()                                *)
WokenFor(r, why) == [r EXCEPT !.sleep = "NONE", !.wake = why]
SleepingFor(r, why) == [r EXCEPT !.sleep = why, !.wake = "NONE"]

(* set_timer() for a time to come                                          *)
TimerSet(r) == [sleep |-> "TIMEOUT", wake |-> "NONE", timer |-> TRUE]

(* Mutant of wakeup_waiter: the first of the queue stays on it.            *)
wakeup_waiter_none(q, T) == [queue |-> q, threads |-> T]

(* Mutant of wakeup_waiter: the wake reason is that of release().          *)
wakeup_waiter_break(q, T) ==
  IF q = <<>> THEN [queue |-> q, threads |-> T]
  ELSE [queue |-> Tail(q), threads |-> [T EXCEPT ![Head(q)] = WokenFor(@, "BREAK")]]

(* The first thread of q, if any, is woken.                                *)
wakeup_waiter(q, T) ==
  IF q = <<>> THEN [queue |-> q, threads |-> T]
  ELSE [queue |-> Tail(q), threads |-> [T EXCEPT ![Head(q)] = WokenFor(@, "DONE")]]

-----------------------------------------------------------------------------
(* The ends of the calls.  T is th as the calling thread has left it.  The *)
(* timer is cleared, and no wake reason but EXIT is looked at again.       *)
Ended(r) == [r EXCEPT !.timer = FALSE, !.wake = IF @ = "EXIT" THEN @ ELSE "NONE"]
Leaves(t) ==
  /\ call' = [call EXCEPT ![t] = "none"]
  /\ timed' = [timed EXCEPT ![t] = FALSE]
  /\ given' = [given EXCEPT ![t] = Null]

(* Mutant of In: the wrap is lost.                                         *)
InLast == IF base + count < Size THEN base + count ELSE Size - 1

(* The slot of the next item put.                                          *)
In == IF base + count < Size THEN base + count ELSE base + count - Size

Following(k) == IF k + 1 < Size THEN k + 1 ELSE 0

(* t takes the oldest item.                                                *)
Take(t, T) ==
  /\ count > 0
  /\ out' = itemqueue[base]
  /\ count' = count - 1
  /\ base' = Following(base)
  /\ LET w == wakeup_waiter(put_threadq, [T EXCEPT ![t] = Ended(@)])
     IN  put_threadq' = w.queue /\ th' = w.threads
  /\ Leaves(t)
  /\ UNCHANGED <<itemqueue, get_threadq, exited>>

(* t stores x.                                                             *)
Store(t, x, T) ==
  /\ count < Size
  /\ itemqueue' = [itemqueue EXCEPT ![In] = x]
  /\ count' = count + 1
  /\ LET w == wakeup_waiter(get_threadq, [T EXCEPT ![t] = Ended(@)])
     IN  get_threadq' = w.queue /\ th' = w.threads
  /\ Leaves(t)
  /\ UNCHANGED <<base, put_threadq, out, exited>>

(* One more time round the loop: t sleeps.                                 *)
ToSleep(t, T, limit) ==
  [T EXCEPT ![t] = SleepingFor(@, IF limit THEN "TIMEOUT" ELSE "WAIT")]

AwaitItem(t, T, limit) ==
  /\ count = 0
  /\ th' = ToSleep(t, T, limit)
  /\ get_threadq' = enqueue(get_threadq, t, prio)
  /\ call' = [call EXCEPT ![t] = "get"]
  /\ timed' = [timed EXCEPT ![t] = limit]
  /\ UNCHANGED <<ring, put_threadq, given, out, exited>>

AwaitRoom(t, x, T, limit) ==
  /\ count = Size
  /\ th' = ToSleep(t, T, limit)
  /\ put_threadq' = enqueue(put_threadq, t, prio)
  /\ given' = [given EXCEPT ![t] = x]
  /\ call' = [call EXCEPT ![t] = "put"]
  /\ timed' = [timed EXCEPT ![t] = limit]
  /\ UNCHANGED <<ring, get_threadq, out, exited>>

-----------------------------------------------------------------------------
(* The calls.  A timed call sets the timer once, before the loop, and      *)
(* clears it at its end.                                                   *)
Limited(t, limit) ==
  IF limit THEN [th EXCEPT ![t] = TimerSet(@)] ELSE th

(* get(), with a timeout to come if limit                                  *)
get(t, limit) ==
  /\ Free(t) /\ t \in Getter
  /\ limit => t \in Timed
  /\ Take(t, Limited(t, limit)) \/ AwaitItem(t, Limited(t, limit), limit)

put(t, x, limit) ==
  /\ Free(t) /\ t \in Putter
  /\ limit => t \in Timed
  /\ Store(t, x, Limited(t, limit)) \/ AwaitRoom(t, x, Limited(t, limit), limit)

(* get() or put() with a timeout that has passed: the alarm is called from *)
(* set_timer(), and the call fails even if it need not wait.               *)
Expired(t) ==
  /\ Free(t) /\ t \in Timed
  /\ th' = [th EXCEPT ![t] = Ended(WokenFor(TimerSet(@), "TIMEOUT"))]
  /\ UNCHANGED <<ring, get_threadq, put_threadq, call, timed, given, out, exited>>

(* tryget() and tryput(); when they fail they change nothing.              *)
tryget(t) == Free(t) /\ t \in Getter /\ Take(t, th)
tryput(t, x) == Free(t) /\ t \in Putter /\ Store(t, x, th)

(* After reschedule(): the wake reason decides whether the loop goes on.   *)
GoesOn(t) == th[t].wake = "DONE"

GetWakes(t) ==
  /\ Awake(t, "get") /\ GoesOn(t)
  /\ Take(t, th) \/ AwaitItem(t, th, timed[t])

PutWakes(t) ==
  /\ Awake(t, "put") /\ GoesOn(t)
  /\ Store(t, given[t], th) \/ AwaitRoom(t, given[t], th, timed[t])

(* TIMEOUT and BREAK end the call without an item.                         *)
GivesUp(t) ==
  /\ Awake(t, "get") \/ Awake(t, "put")
  /\ ~GoesOn(t) /\ th[t].wake # "EXIT"
  /\ Leaves(t)
  /\ th' = [th EXCEPT ![t] = Ended(@)]
  /\ UNCHANGED <<ring, get_threadq, put_threadq, out, exited>>

(* EXIT: exit()                                                            *)
Exits(t) ==
  /\ Awake(t, "get") \/ Awake(t, "put")
  /\ th[t].wake = "EXIT"
  /\ exited' = exited \cup {t}
  /\ UNCHANGED <<ring, get_threadq, put_threadq, call, timed, given, out, th>>

-----------------------------------------------------------------------------
(* What happens to a thread from outside.                                  *)

(* wake(): off the queue it sleeps on                                      *)
Dequeued(t) ==
  /\ get_threadq' = remove(get_threadq, t)
  /\ put_threadq' = remove(put_threadq, t)

(* Cyg_ThreadTimer::alarm(): a thread that is no longer asleep is left     *)
(* alone, and the timer is spent.                                          *)
alarm(t) ==
  /\ th[t].timer
  /\ \/ /\ th[t].sleep = "TIMEOUT"
        /\ th' = [th EXCEPT ![t] = [WokenFor(@, "TIMEOUT") EXCEPT !.timer = FALSE]]
        /\ Dequeued(t)
     \/ /\ th[t].sleep # "TIMEOUT"
        /\ th' = [th EXCEPT ![t] = [@ EXCEPT !.timer = FALSE]]
        /\ UNCHANGED <<get_threadq, put_threadq>>
  /\ UNCHANGED <<ring, call, timed, given, out, exited>>

release(t) ==
  /\ t \notin exited
  /\ th[t].sleep \in {"WAIT", "TIMEOUT"}
  /\ th' = [th EXCEPT ![t] = WokenFor(@, "BREAK")]
  /\ Dequeued(t)
  /\ UNCHANGED <<ring, call, timed, given, out, exited>>

(* kill(): a thread with a sleep reason is to exit when it wakes, another  *)
(* is taken out at once.                                                   *)
kill(t) ==
  /\ t \in Killable \ exited
  /\ th[t].wake # "EXIT"
  /\ \/ /\ th[t].sleep = "NONE"
        /\ th' = [th EXCEPT ![t].timer = FALSE]
        /\ exited' = exited \cup {t}
     \/ /\ th[t].sleep # "NONE"
        /\ th' = [th EXCEPT ![t] = [WokenFor(@, "EXIT") EXCEPT !.timer = FALSE]]
        /\ UNCHANGED exited
  /\ Dequeued(t)
  /\ UNCHANGED <<ring, call, timed, given, out>>

Next ==
  \E t \in Thread :
    \/ \E limit \in BOOLEAN : get(t, limit) \/ \E x \in Item : put(t, x, limit)
    \/ Expired(t)
    \/ tryget(t) \/ \E x \in Item : tryput(t, x)
    \/ GetWakes(t) \/ PutWakes(t) \/ GivesUp(t) \/ Exits(t)
    \/ alarm(t) \/ release(t) \/ kill(t)

(* A thread that is ready is run in the end: the threads more urgent than  *)
(* the product's users of a message box all wait between two jobs.         *)
Fairness ==
  \A t \in Thread :
    /\ WF_vars(GetWakes(t)) /\ WF_vars(PutWakes(t))
    /\ WF_vars(GivesUp(t)) /\ WF_vars(Exits(t))
    /\ WF_vars(alarm(t))

Spec == Init /\ [][Next]_vars
FairSpec == Spec /\ Fairness
-----------------------------------------------------------------------------
(* Properties.                                                             *)

(* The items in the ring, the oldest first.                                *)
Slot(k) == IF base + k < Size THEN base + k ELSE base + k - Size
Content == [k \in 1 .. count |-> itemqueue[Slot(k - 1)]]

(* Every item accepted is handed to exactly one getter, in the order in    *)
(* which the items came, however the waits of getters and putters, their   *)
(* timeouts, releases and deaths interleave and wherever the ring wraps    *)
(* (mboxt.inl:247, 475).                                                   *)
Ch == INSTANCE Channel WITH chan <- Content
InOrder == Ch!Spec

(* Threads woken for an item, or for room, that have not run since; those  *)
(* that were killed before they ran stay here.                             *)
Claimants(op) == {t \in Thread : call[t] = op /\ ~Asleep(t) /\ th[t].wake = "DONE"}

(* No getter sleeps beside an item, and no putter beside a free slot, that *)
(* no woken thread has come for: each put wakes one getter and each get    *)
(* one putter (mboxt.inl:256, 488), and a thread whose item was stolen     *)
(* sleeps again without a wakeup being lost.                               *)
NoIdleWaiter ==
  /\ get_threadq # <<>> => count <= Cardinality(Claimants("get"))
  /\ put_threadq # <<>> => Size - count <= Cardinality(Claimants("put"))

(* Items and sleeping getters, or free slots and sleeping putters, do not  *)
(* stay side by side for ever, unless a woken thread was killed before it  *)
(* ran: nobody else is woken in its place (mboxt.inl:488).                 *)
DiedAwake(op) == \E t \in Claimants(op) : t \in exited
Served ==
  /\ get_threadq # <<>> /\ count > 0
       ~> get_threadq = <<>> \/ count = 0 \/ DiedAwake("get")
  /\ put_threadq # <<>> /\ count < Size
       ~> put_threadq = <<>> \/ count = Size \/ DiedAwake("put")
=============================================================================
