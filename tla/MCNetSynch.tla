----------------------------- MODULE MCNetSynch -----------------------------
(* Three threads: one inside, one on its way in and one asleep, or two     *)
(* asleep on one channel.  Two slots are fewer than the sleepers can be.   *)
EXTENDS NetSynch, TLC
MCSymmetry == Permutations(Thread) \cup Permutations(Level) \cup Permutations(Chan)
=============================================================================
