------------------------------ MODULE MCStorage ------------------------------
(* Storage with values of chosen lengths.  With two bytes to an entry, v1   *)
(* fits in one entry, v3 takes two and v9 exceeds any storage here.         *)
EXTENDS Storage, TLC

CONSTANTS v1, v3, v9

MixedValues == {v1, v3}
AllValues == {v1, v3, v9}
Lengths == v1 :> 1 @@ v3 :> 3 @@ v9 :> 9
SizeOfMixed == [v \in MixedValues |-> Lengths[v]]
SizeOfAll == [v \in AllValues |-> Lengths[v]]

Symmetry == Permutations(Keys)
=============================================================================
