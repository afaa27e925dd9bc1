-------------------------- MODULE DistributionCalls --------------------------
(***************************************************************************)
(* Any sequence of choices and simulations, while instancias arrive, fall, *)
(* come back and report the space they use as they like: the algorithms of *)
(* Distribution by themselves.                                             *)
(*                                                                         *)
(* The simulation of equitative load runs the real search on the real      *)
(* globals and puts them back, the pointer before and the flag after it    *)
(* unlocks lastInstanciaChosenMutex: here each of these is a step of the   *)
(* planificador's thread, and what keeps the others out is the mutex of    *)
(* the list.                                                               *)
(***************************************************************************)
EXTENDS Distribution

VARIABLES
    simulating,  \* where equitativeLoadSimulation is: "no" while nobody is in
                 \* it, "saved", "searched", "unlocked"
    auxLastInstanciaChosen2, firstAlreadyPassAux,   \* its locals
    \* history
    waited,      \* choices made while each instancia was alive and not the
                 \* chosen one, since it last was (equitative load)
    predicted    \* what a simulation answered, while nothing has happened that
                 \* may change the answer

simulation == <<simulating, auxLastInstanciaChosen2, firstAlreadyPassAux>>
vars == <<distributionVars, simulation, waited, predicted>>

NoPrediction == [k \in Keys |-> NoInstancia]
Forget == predicted' = NoPrediction

WaitedAfter(chosen) ==
    [i \in Instancias |->
        IF algorithm # "EL" \/ i = chosen \/ i \notin AliveInstancias
        THEN 0 ELSE waited[i] + 1]

\* instanciasListMutex: the planificador's thread holds it for a simulation,
\* whoever does any of the rest for that.
ListMutexIsFree == simulating = "no"

Arrives(i) ==
    /\ ListMutexIsFree
    /\ AddNew(i) \/ (i \in fallen /\ InstanciaIsBack(i))
    /\ \E s \in 0..MaxSpace : spaceUsed' = [spaceUsed EXCEPT ![i] = s]
    /\ waited' = [waited EXCEPT ![i] = 0]
    /\ Forget
    /\ UNCHANGED <<algorithm, simulation>>
\* One that falls moves the others nearer to the front of the list of living
\* ones, which only key explicit counts; the others choose who was chosen.
Falls(i) ==
    /\ ListMutexIsFree
    /\ i \in AliveInstancias
    /\ InstanciaHasFallen(i)
    /\ waited' = [waited EXCEPT ![i] = 0]
    /\ predicted' = [k \in Keys |-> IF algorithm = "KE" \/ predicted[k] = i
                                    THEN NoInstancia ELSE predicted[k]]
    /\ UNCHANGED <<spaceUsed, algorithm, simulation>>
ReportsSpace(i) ==
    /\ ListMutexIsFree
    /\ i \in AliveInstancias
    /\ \E s \in (0..MaxSpace) \ {spaceUsed[i]} :
            spaceUsed' = [spaceUsed EXCEPT ![i] = s]
    /\ IF algorithm = "LSU" THEN Forget ELSE UNCHANGED predicted
    /\ UNCHANGED <<instancias, fallen, turn, algorithm, simulation, waited>>

\* chooseInstancia, for a SET of a key nobody has
ChooseInstancia(k) ==
    /\ ListMutexIsFree
    /\ TakeTurn
    /\ waited' = WaitedAfter(Chosen(k))
    /\ IF algorithm = "EL" THEN Forget ELSE UNCHANGED predicted
    /\ UNCHANGED <<list, algorithm, simulation>>

\* simulateChooseInstancia, for the status of a key nobody has.  With nobody
\* alive no algorithm is called, and the other two simulate themselves.
IsEquitativeLoad == algorithm = "EL" /\ AliveInstancias # {}
SimulatesAtOnce(k) ==
    /\ ListMutexIsFree /\ ~IsEquitativeLoad
    /\ TakeTurn
    /\ predicted' = [predicted EXCEPT ![k] = Chosen(k)]
    /\ UNCHANGED <<list, algorithm, simulation, waited>>
SavesTurn ==
    /\ ListMutexIsFree /\ IsEquitativeLoad
    /\ auxLastInstanciaChosen2' = lastInstanciaChosen
    /\ firstAlreadyPassAux' = firstAlreadyPass
    /\ simulating' = "saved"
    /\ UNCHANGED <<distributionVars, waited, predicted>>
SimulatesSearch(k) ==
    /\ simulating = "saved"
    /\ GetNextInstancia
    /\ predicted' = [predicted EXCEPT ![k] = NextInstancia]
    /\ simulating' = "searched"
    /\ UNCHANGED <<list, algorithm, auxLastInstanciaChosen2,
                   firstAlreadyPassAux, waited>>
PointerIsBack ==
    /\ simulating = "searched"
    /\ lastInstanciaChosen' = auxLastInstanciaChosen2
    /\ simulating' = "unlocked"
    /\ UNCHANGED <<list, firstAlreadyPass, algorithm, auxLastInstanciaChosen2,
                   firstAlreadyPassAux, waited, predicted>>
SimulationReturns ==
    /\ simulating' = "no"
    /\ auxLastInstanciaChosen2' = NoInstancia /\ firstAlreadyPassAux' = FALSE
FlagStays ==                       \* mistaken variant: only the pointer is back
    /\ simulating = "unlocked"
    /\ SimulationReturns
    /\ UNCHANGED <<distributionVars, waited, predicted>>
FlagIsBack ==
    /\ simulating = "unlocked"
    /\ firstAlreadyPass' = firstAlreadyPassAux
    /\ SimulationReturns
    /\ UNCHANGED <<list, lastInstanciaChosen, algorithm, waited, predicted>>

Init ==
    /\ DistributionInit
    /\ simulating = "no"
    /\ auxLastInstanciaChosen2 = NoInstancia /\ firstAlreadyPassAux = FALSE
    /\ waited = [i \in Instancias |-> 0]
    /\ predicted = NoPrediction

Next ==
    \/ \E i \in Instancias : Arrives(i) \/ Falls(i) \/ ReportsSpace(i)
    \/ \E k \in Keys : ChooseInstancia(k) \/ SimulatesAtOnce(k) \/ SimulatesSearch(k)
    \/ SavesTurn \/ PointerIsBack \/ FlagIsBack

Spec == Init /\ [][Next]_vars

-----------------------------------------------------------------------------
(* Properties.                                                             *)

TypeOK ==
    /\ DistributionTypeOK
    /\ simulating \in {"no", "saved", "searched", "unlocked"}
    /\ auxLastInstanciaChosen2 \in Instancias \union {NoInstancia}
    /\ firstAlreadyPassAux \in BOOLEAN
    /\ waited \in [Instancias -> Nat]
    /\ predicted \in [Keys -> Instancias \union {NoInstancia}]

\* Equitative load is a round robin whatever arrives, falls and comes back
\* meanwhile: an instancia that is alive all the time is passed over at most
\* once by each of the others before its turn.
RoundRobin ==
    algorithm = "EL" =>
        \A i \in AliveInstancias : waited[i] <= Cardinality(Known) - 1

\* Equitative load finds somebody whenever somebody is alive: the search that
\* starts again never ends with NULL, which would abort the ESI.
SomebodyIsNext ==
    algorithm = "EL" /\ AliveInstancias # {} => NextInstancia \in AliveInstancias

\* A key that begins with a letter has an instancia in key explicit: the index
\* is within the list of the living ones, however many they are.
IsLetter(k) == Letter[k] \in 0..(CantChars - 1)
IndexIsInList ==
    AliveInstancias # {} => \A k \in Keys :
        IsLetter(k) => KeyExplicitIndex(k) \in 0..(Cardinality(AliveInstancias) - 1)

\* What status shows for a key nobody has is where a SET would put it, whenever
\* a SET may choose: a simulation, which moves the turn and puts it back in two
\* pieces, leaves no trace, and its answer stays right through the falls of
\* others and through whatever the algorithm does not look at.
SimulationPredicts ==
    ListMutexIsFree =>
        \A k \in Keys : predicted[k] # NoInstancia => Chosen(k) = predicted[k]
=============================================================================
