----------------------------- MODULE MCDeadlock -----------------------------
(* Instance of Deadlock for TLC.                                           *)
EXTENDS Deadlock

Symmetry == Permutations(Esis) \union Permutations(Keys)
=============================================================================
