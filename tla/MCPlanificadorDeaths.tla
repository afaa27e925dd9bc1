------------------------- MODULE MCPlanificadorDeaths -------------------------
(* An instance of PlanificadorDeaths for TLC.                               *)
EXTENDS PlanificadorDeaths

NoCommands == {}
Symmetry == Permutations(Esis) \union Permutations(Keys \ ConfigKeys)
=============================================================================
