--------------------------- MODULE MCPlanificador ---------------------------
(* Instances of Planificador for TLC.                                       *)
EXTENDS Planificador

NoCommands == {}
Cmd(name, k, e) == [name |-> name, key |-> k, esi |-> e]
KillCommands == {Cmd("kill", NoKey, e) : e \in Esis}
PauseCommands == {Cmd("pausar", NoKey, NoEsi), Cmd("continuar", NoKey, NoEsi)}
BlockCommands == {Cmd("bloquear", k, e) : k \in Keys, e \in Esis}
UnlockCommands == {Cmd("desbloquear", k, NoEsi) : k \in Keys}
StatusCommands == {Cmd("status", k, NoEsi) : k \in Keys}
ListCommands == {Cmd("listar", k, NoEsi) : k \in Keys}
OperatorCommands == KillCommands \union PauseCommands \union StatusCommands
DeadlockCommands == {Cmd("deadlock", NoKey, NoEsi)}
EveryCommand == OperatorCommands \union BlockCommands \union UnlockCommands
                \union ListCommands \union DeadlockCommands
\* sound where ConfigKeys is empty and nothing temporal is checked
Symmetry == Permutations(Esis) \union Permutations(Keys)
=============================================================================
