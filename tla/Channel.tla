------------------------------- MODULE Channel -------------------------------
(***************************************************************************)
(* What a message box promises its callers: a queue of at most Size items. *)
(* An accepted item is the one its thread offered; it is handed out once,  *)
(* and in the order in which the items were accepted.  Which calls fail,   *)
(* and when, is left open.                                                 *)
(***************************************************************************)
EXTENDS Integers, Sequences

CONSTANTS Thread, Item, Null, Size

VARIABLES
  chan,       \* the items accepted and not handed out
  given,      \* what each thread waits to put, Null if it does not
  out         \* the item handed out last

Init ==
  /\ chan = <<>>
  /\ given = [t \in Thread |-> Null]
  /\ out = Null

Offer(t, x) ==
  /\ given[t] = Null
  /\ given' = [given EXCEPT ![t] = x]
  /\ UNCHANGED <<chan, out>>

Withdraw(t) ==
  /\ given' = [given EXCEPT ![t] = Null]
  /\ UNCHANGED <<chan, out>>

(* An item is accepted, at once or after a wait.                           *)
Accept(t, x) ==
  /\ Len(chan) < Size
  /\ given[t] \in {Null, x}
  /\ given' = [given EXCEPT ![t] = Null]
  /\ chan' = Append(chan, x)
  /\ UNCHANGED out

Hand ==
  /\ chan # <<>>
  /\ chan' = Tail(chan)
  /\ out' = Head(chan)
  /\ UNCHANGED given

Next ==
  \/ Hand
  \/ \E t \in Thread : Withdraw(t) \/ \E x \in Item : Offer(t, x) \/ Accept(t, x)

Spec == Init /\ [][Next]_<<chan, given, out>>
=============================================================================
