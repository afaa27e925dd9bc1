--------------------------- MODULE MCDistribution ---------------------------
(* Instance of DistributionCalls for TLC: a key of the first letter, one of *)
(* the last, one that begins with '_' and one with '{'.                     *)
EXTENDS DistributionCalls, TLC

CONSTANTS kA, kZ, kLow, kHigh
Letters == (kA :> 0) @@ (kZ :> 25) @@ (kLow :> -2) @@ (kHigh :> 26)
Symmetry == Permutations(Instancias)
=============================================================================
