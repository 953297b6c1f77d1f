---------------------------- MODULE MCTimedCache -----------------------------
(* TimedCache for TLC.                                                     *)
EXTENDS TimedCache, TLC

Symmetry == Permutations(Threads) \cup Permutations(Keys)
=============================================================================
