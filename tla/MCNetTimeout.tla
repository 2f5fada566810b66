---------------------------- MODULE MCNetTimeout ----------------------------
(* Small instances of NetTimeout for TLC. *)
EXTENDS NetTimeout

CONSTANTS c1, c2, s1, s2, f, g

NoSlot == <<>>
OneSlot == <<s1>>
TwoSlots == <<s1, s2>>
=============================================================================
