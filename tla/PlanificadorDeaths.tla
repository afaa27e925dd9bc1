-------------------------- MODULE PlanificadorDeaths --------------------------
(***************************************************************************)
(* Planificador with ESIs whose process dies in the middle of a line, from *)
(* outside.  The scheduler hears of it by the connection, aborts the ESI   *)
(* and orders the next one; but the ESI's thread in the coordinador goes   *)
(* on with the line, and asks for the status of its key when it gets       *)
(* esisMutex, which may be in the middle of the next ESI's line.           *)
(***************************************************************************)
EXTENDS Planificador

CONSTANT MaxDeaths  \* bound: ESIs that die in the middle of a line

ASSUME DeathsAssumption == MaxDeaths \in Nat

VARIABLES
    late,    \* the dead ESIs whose line has still to ask for its key
    deaths,  \* what is left of the bound
    crossed  \* history: such a question came in the middle of another line

deathVars == <<late, deaths, crossed>>

\* Whatever the line has come to, nobody will read its answer.
EsiDiesInLine(e) ==
    /\ phase[e] \in {"asking", "told"} /\ deaths > 0
    /\ deaths' = deaths - 1
    /\ late' = IF phase[e] = "asking" THEN late \union {e} ELSE late
    /\ phase' = [phase EXCEPT ![e] = "exited"]
    /\ inbox' = [inbox EXCEPT ![e] = <<>>]
    /\ UNCHANGED <<crossed, operation, left, status, info>>
    /\ planificadorUnchanged

\* The key of the line under way has been asked for, and its outcome not heard.
KeyIsInUse == \E f \in Esis : phase[f] = "told" \/ info[f] # NoInfo

\* KEYSTATUSMESSAGE again, for a line that nobody waits for.
HandleLateKeyStatus(e) ==
    /\ main = "select" /\ e \in late
    /\ late' = late \ {e}
    /\ crossed' = (crossed \/ KeyIsInUse)
    /\ keyRecieved' = operation[e].key
    /\ main' = "drain"
    /\ UNCHANGED <<deaths, tables, paused, finishedExec, globalKey,
                   statusReplies, pending, mode, dying, consoleVars, esiVars>>

DeathsInit == Init /\ late = {} /\ deaths = MaxDeaths /\ crossed = FALSE
DeathsNext ==
    \/ Next /\ UNCHANGED deathVars
    \/ mode = "up" /\ \E e \in Esis : EsiDiesInLine(e) \/ HandleLateKeyStatus(e)
DeathsSpec == DeathsInit /\ [][DeathsNext]_<<vars, deathVars>>

-----------------------------------------------------------------------------
(* Properties.                                                             *)

\* Whoever dies, and wherever its line was, the locks stay right, permissions
\* true and every queue there, unless the question of a dead ESI's line has
\* replaced keyRecieved in the middle of another line: the outcome of that line
\* is then applied to the wrong key.  There is no other way.
LocksSurviveDeaths ==
    ~crossed => MutualExclusion /\ LockTablesAgree /\ GrantIsFresh /\ QueuesExist
=============================================================================
