--------------------------- MODULE MCCoordinador ---------------------------
(* Instances of Coordinador for TLC.                                       *)
EXTENDS Coordinador, TLC

Letters == [k \in Keys |-> 0]
=============================================================================
