----------------------------- MODULE ThreadQueue -----------------------------
(***************************************************************************)
(* The queues on which eCos threads wait for a mutex or a condition        *)
(* variable: Cyg_ThreadQueue_Implementation of the multilevel-queue        *)
(* scheduler (packages/kernel/v3_0/src/sched/mlqueue.cxx), as configured   *)
(* with CYGIMP_KERNEL_SCHED_SORTED_QUEUES.                                 *)
(*                                                                         *)
(* A queue is a sequence of threads, its head first.  The circular list    *)
(* and the back pointer thread->queue of the code are the sequence itself  *)
(* and membership in it.  A smaller number is a higher priority.           *)
(***************************************************************************)
EXTENDS Integers, SequencesExt

(* Where the backward scan of enqueue() stops: the last thread whose       *)
(* priority is higher than or equal to p, 0 when there is none.            *)
LastNotBelow(q, p, prio) ==
  LET higher == {i \in DOMAIN q : prio[q[i]] <= p}
  IN  IF higher = {} THEN 0 ELSE CHOOSE i \in higher : \A j \in higher : j <= i

(* A new thread goes behind every thread of its own priority: the queue is *)
(* in priority order and first-in first-out among equals.                  *)
enqueue(q, t, prio) == InsertAt(q, LastNotBelow(q, prio[t], prio) + 1, t)

(* Takes a thread out of the middle of the queue.                          *)
remove(q, t) ==
  IF t \in ToSet(q)
  THEN RemoveAt(q, CHOOSE i \in DOMAIN q : q[i] = t)
  ELSE q

(* Every thread is at least as urgent as the one behind it.                *)
Sorted(q, prio) == \A i, j \in DOMAIN q : i < j => prio[q[i]] <= prio[q[j]]

NoDuplicates(q) == \A i, j \in DOMAIN q : q[i] = q[j] => i = j
=============================================================================
