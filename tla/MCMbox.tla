------------------------------- MODULE MCMbox -------------------------------
(* A ring of two slots wraps after two items.  One getter can rob the      *)
(* other, and the ring can be filled with both putters asleep.             *)
EXTENDS Mbox
CONSTANTS t1, t2, t3, t4
MCThread == {t1, t2, t3, t4}
MCPrio == (t1 :> 1) @@ (t2 :> 2) @@ (t3 :> 2) @@ (t4 :> 1)
=============================================================================
