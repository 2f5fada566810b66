------------------------------ MODULE NetSynch ------------------------------
(***************************************************************************)
(* The synchronisation of the network stack: tcpip/os/synch.c.  The spl    *)
(* levels of BSD, which masked interrupts, are one mutex here, with the    *)
(* thread that is inside and the set of levels it has raised; tsleep()     *)
(* and wakeup() are a list of slots with a counting semaphore each         *)
(* (packages/kernel/v3_0/src/sync/cnt_sem.cxx).                            *)
(*                                                                         *)
(* A stretch of code under the scheduler lock is one step.  The mutex is   *)
(* taken for what the kernel promises of it (Monitor): a thread gets it    *)
(* when nobody holds it.  The callers of the stack test what they sleep    *)
(* for, and change it, inside a level; ready stands for it.                *)
(***************************************************************************)
EXTENDS Integers, Sequences

CONSTANTS
  Thread, NoThread,
  Level,      \* the bits of spl_state
  Chan, Free, \* what threads sleep for; the chan of a free slot, 0
  Slots,      \* CYGPKG_NET_NUM_WAKEUP_EVENTS
  MaxNest,    \* bound on the nesting of levels
  MaxPosts,   \* bound on the count of a semaphore
  Breakable   \* where release() may hit a thread: "asleep", "relock"

Slot == 1 .. Slots
NoSlot == 0

ASSUME SlotAssumption == Slots \in Nat /\ Free \notin Chan
ASSUME BoundAssumption == MaxNest \in Nat /\ MaxPosts \in Nat
ASSUME ThreadAssumption == NoThread \notin Thread
ASSUME BreakAssumption == Breakable \subseteq {"asleep", "relock"}

VARIABLES
  mutex,      \* the owner of splx_mutex
  splx_thread, spl_state,
  nest,       \* the levels each thread is in: what it asked for, what to restore
  chan, sem,  \* of the slots
  pc,         \* where each thread is
  slot,       \* the slot it sleeps on: ev
  saved,      \* old_splflags of its tsleep()
  ready,      \* the channels whose condition holds
  signalled   \* wakeup() came while the thread slept; not in the code

spl == <<mutex, splx_thread, spl_state>>
events == <<chan, sem>>
sleeper == <<slot, saved, signalled>>
vars == <<spl, nest, events, pc, sleeper, ready>>

(* "free", "taken": spl_any() has found splx_thread zero, or not; "got":   *)
(* it has the mutex and has not locked the scheduler yet; "posted",        *)
(* "broken": woken from the semaphore, with an event or without; "relock": *)
(* waiting for the mutex at the end of tsleep().                           *)
PC == {"out", "free", "taken", "got", "asleep", "posted", "broken", "relock"}

TypeOK ==
  /\ mutex \in Thread \cup {NoThread} /\ splx_thread \in Thread \cup {NoThread}
  /\ spl_state \subseteq Level
  /\ nest \in [Thread -> Seq([raised : Level, old : SUBSET Level])]
  /\ chan \in [Slot -> Chan \cup {Free}]
  /\ sem \in [Slot -> Nat]
  /\ pc \in [Thread -> PC]
  /\ slot \in [Thread -> Slot \cup {NoSlot}]
  /\ saved \in [Thread -> SUBSET Level]
  /\ ready \subseteq Chan
  /\ signalled \in [Thread -> BOOLEAN]

(* cyg_tsleep_init()                                                       *)
Init ==
  /\ mutex = NoThread /\ splx_thread = NoThread /\ spl_state = {}
  /\ nest = [t \in Thread |-> <<>>]
  /\ chan = [i \in Slot |-> Free] /\ sem = [i \in Slot |-> 0]
  /\ pc = [t \in Thread |-> "out"]
  /\ slot = [t \in Thread |-> NoSlot] /\ saved = [t \in Thread |-> {}]
  /\ ready = {} /\ signalled = [t \in Thread |-> FALSE]

Goto(t, where) == pc' = [pc EXCEPT ![t] = where]

-----------------------------------------------------------------------------
(* spl_any() and splx().                                                   *)

(* splx_thread is read before any lock is taken.                           *)
splTest(t) ==
  /\ pc[t] = "out" /\ splx_thread # t
  /\ Goto(t, IF splx_thread = NoThread THEN "free" ELSE "taken")
  /\ UNCHANGED <<spl, nest, events, sleeper, ready>>

(* The thread that is inside raises a further level.                       *)
splNested(t, w) ==
  /\ pc[t] = "out" /\ splx_thread = t
  /\ Len(nest[t]) < MaxNest
  /\ nest' = [nest EXCEPT ![t] = Append(@, [raised |-> w, old |-> spl_state])]
  /\ spl_state' = spl_state \cup {w}
  /\ UNCHANGED <<mutex, splx_thread, events, pc, sleeper, ready>>

Inside(t, w) ==
  /\ splx_thread' = t
  /\ spl_state' = spl_state \cup {w}
  /\ nest' = [nest EXCEPT ![t] = Append(@, [raised |-> w, old |-> {}])]
  /\ Goto(t, "out")

(* With the scheduler locked first, taking the mutex and noting the owner  *)
(* are one step.                                                           *)
splLocked(t, w) ==
  /\ pc[t] = "free" /\ mutex = NoThread
  /\ mutex' = t
  /\ Inside(t, w)
  /\ UNCHANGED <<events, sleeper, ready>>

(* With the mutex first, others run before the owner is noted.             *)
splGets(t) ==
  /\ pc[t] = "taken" /\ mutex = NoThread
  /\ mutex' = t
  /\ Goto(t, "got")
  /\ UNCHANGED <<splx_thread, spl_state, nest, events, sleeper, ready>>

splEnters(t, w) ==
  /\ pc[t] = "got"
  /\ Inside(t, w)
  /\ UNCHANGED <<mutex, events, sleeper, ready>>

(* spl_state &= old_state                                                  *)
Remains(old) == spl_state \cap old

splx(t) ==
  /\ pc[t] = "out" /\ nest[t] # <<>>
  /\ LET old == nest[t][Len(nest[t])].old
     IN  /\ spl_state' = Remains(old)
         /\ \/ /\ Remains(old) = {}
               /\ splx_thread' = NoThread /\ mutex' = NoThread
            \/ /\ Remains(old) # {}
               /\ UNCHANGED <<splx_thread, mutex>>
  /\ nest' = [nest EXCEPT ![t] = SubSeq(@, 1, Len(@) - 1)]
  /\ UNCHANGED <<events, pc, sleeper, ready>>

-----------------------------------------------------------------------------
(* tsleep() and wakeup().                                                  *)

(* Mutant of SemInit: the count stays as the last sleeper left it.         *)
SemInitKept(i) == sem

(* A count may be left from a wakeup after the last sleeper timed out.     *)
SemInit(i) == [sem EXCEPT ![i] = 0]

FirstFree(i) == chan[i] = Free /\ \A j \in 1 .. i - 1 : chan[j] # Free

(* Up to the semaphore: the slot is taken, the level given up and the      *)
(* semaphore waited for under one scheduler lock.  Inside a level the      *)
(* caller has seen that what it waits for does not hold.  With no slot     *)
(* left tsleep() returns at once and nothing has changed.                  *)
tsleep(t, c) ==
  /\ pc[t] = "out"
  /\ splx_thread = t => c \notin ready
  /\ \E i \in Slot :
       /\ FirstFree(i)
       /\ chan' = [chan EXCEPT ![i] = c]
       /\ sem' = SemInit(i)
       /\ slot' = [slot EXCEPT ![t] = i]
       /\ Goto(t, IF sem'[i] = 0 THEN "asleep" ELSE "posted")
  /\ saved' = [saved EXCEPT ![t] = IF splx_thread = t THEN spl_state ELSE {}]
  /\ IF splx_thread = t
     THEN splx_thread' = NoThread /\ spl_state' = {} /\ mutex' = NoThread
     ELSE UNCHANGED spl
  /\ signalled' = [signalled EXCEPT ![t] = FALSE]
  /\ UNCHANGED <<nest, ready>>

(* Mutant of Posted: one slot is enough.                                   *)
PostedFirst(c) == {i \in Slot : chan[i] = c /\ \A j \in 1 .. i - 1 : chan[j] # c}

(* "NB this is broadcast semantics"                                        *)
Posted(c) == {i \in Slot : chan[i] = c}

(* Every slot of the channel is posted.  A thread inside a level has made  *)
(* the condition true; from elsewhere the call comes for nothing.          *)
wakeup(t, c) ==
  /\ pc[t] = "out"
  /\ \A i \in Posted(c) : sem[i] < MaxPosts
  /\ ready' = IF splx_thread = t THEN ready \cup {c} ELSE ready
  /\ sem' = [i \in Slot |-> IF i \in Posted(c) THEN sem[i] + 1 ELSE sem[i]]
  /\ LET Woken(s) == pc[s] = "asleep" /\ slot[s] \in Posted(c)
     IN  /\ pc' = [s \in Thread |-> IF Woken(s) THEN "posted" ELSE pc[s]]
         /\ signalled' = [s \in Thread |-> signalled[s] \/ Woken(s)]
  /\ UNCHANGED <<spl, nest, chan, slot, saved>>

(* The timeout passes, or the thread is released, before an event.         *)
Broken(t) ==
  /\ pc[t] = "asleep" /\ "asleep" \in Breakable
  /\ Goto(t, "broken")
  /\ UNCHANGED <<spl, nest, events, sleeper, ready>>

(* Mutant of Restored: tsleep() comes back at level zero.                  *)
RestoredZero(t) == spl_state' = {} /\ splx_thread' = t

Restored(t) == spl_state' = saved[t] /\ splx_thread' = t

(* What is left of tsleep() when it has the mutex again.                   *)
Restore(t) ==
  /\ Restored(t)
  /\ saved' = [saved EXCEPT ![t] = {}]
  /\ Goto(t, "out")

(* The semaphore: only a wait that succeeds takes the count down.          *)
Claimed(t) == IF pc[t] = "posted" THEN [sem EXCEPT ![slot[t]] = @ - 1] ELSE sem

(* From the semaphore to the end, or to the wait for the mutex.            *)
Wakes(t) ==
  /\ pc[t] \in {"posted", "broken"}
  /\ sem' = Claimed(t)
  /\ chan' = [chan EXCEPT ![slot[t]] = Free]
  /\ slot' = [slot EXCEPT ![t] = NoSlot]
  /\ signalled' = [signalled EXCEPT ![t] = FALSE]
  /\ \/ /\ saved[t] = {}
        /\ Goto(t, "out")
        /\ UNCHANGED <<spl, saved>>
     \/ /\ saved[t] # {} /\ mutex = NoThread
        /\ mutex' = t
        /\ Restore(t)
     \/ /\ saved[t] # {} /\ mutex # NoThread
        /\ Goto(t, "relock")
        /\ UNCHANGED <<spl, saved>>
  /\ UNCHANGED <<nest, ready>>

(* The lock is called without a loop: a thread that is released while it   *)
(* waits goes on as if it had the mutex.                                   *)
Relocks(t) ==
  /\ pc[t] = "relock"
  /\ mutex = NoThread \/ "relock" \in Breakable
  /\ mutex' = IF mutex = NoThread THEN t ELSE mutex
  /\ Restore(t)
  /\ UNCHANGED <<nest, events, slot, signalled, ready>>

(* The caller takes what it waited for, inside a level.                    *)
Consume(t, c) ==
  /\ pc[t] = "out" /\ splx_thread = t /\ c \in ready
  /\ ready' = ready \ {c}
  /\ UNCHANGED <<spl, nest, events, pc, sleeper>>

Next ==
  \E t \in Thread :
    \/ splTest(t) \/ splGets(t) \/ splx(t)
    \/ \E w \in Level : splNested(t, w) \/ splLocked(t, w) \/ splEnters(t, w)
    \/ \E c \in Chan : tsleep(t, c) \/ wakeup(t, c) \/ Consume(t, c)
    \/ Broken(t) \/ Wakes(t) \/ Relocks(t)

Spec == Init /\ [][Next]_vars
-----------------------------------------------------------------------------
(* Properties.                                                             *)

(* The mutex, its note of the owner and the levels agree, whichever way    *)
(* threads came in, and a thread that has raised levels and is not asleep  *)
(* has them to itself, all of them and after a tsleep() the same ones as   *)
(* before it (synch.c:123, 238, 375).                                      *)
Raised(t) == {nest[t][k].raised : k \in DOMAIN nest[t]}
Exclusive ==
  /\ mutex = NoThread => splx_thread = NoThread
  /\ splx_thread = NoThread <=> spl_state = {}
  /\ \A t \in Thread :
       nest[t] # <<>> /\ pc[t] = "out" =>
         mutex = t /\ splx_thread = t /\ spl_state = Raised(t)

(* A thread that went to sleep inside a level, for want of something, does *)
(* not sleep while it is there: no wakeup falls between its test and its   *)
(* sleep, between two sleepers of a channel, or into a slot of another     *)
(* (synch.c:284, 336).                                                     *)
NoLostWakeup ==
  \A t \in Thread :
    pc[t] = "asleep" /\ saved[t] # {} => chan[slot[t]] \notin ready

(* tsleep() returns 0 only to a thread that was woken while it slept: not  *)
(* for a post that came for an earlier sleeper of the slot (synch.c:347).  *)
NoStaleWakeup == \A t \in Thread : pc[t] = "posted" => signalled[t]
=============================================================================
