---------------------------- MODULE MCKernelSync ----------------------------
(* Small instances of KernelSync for TLC. *)
EXTENDS KernelSync

CONSTANTS high, mid, low, m1, m2, cv

MCPriority == (high :> 0) @@ (mid :> 1) @@ (low :> 2)
Three == {high, mid, low}

OneInherit == (m1 :> "INHERIT")
InheritAndCeiling == (m1 :> "INHERIT") @@ (m2 :> "CEILING")
TopCeiling == [m \in Mutex |-> 0]
=============================================================================
