----------------------------- MODULE Coordinador -----------------------------
(***************************************************************************)
(* The coordinator: a thread for each ESI, one for each instancia and one  *)
(* for the planificador, which share the list of instancias, two mutexes,  *)
(* the cells in which one thread leaves an answer for another, and the     *)
(* semaphores that say that it is there.                                   *)
(*                                                                         *)
(* esisMutex is held by an ESI's thread through a whole operation, and by  *)
(* the planificador's through a status request.  Under instanciasListMutex *)
(* a thread does not wait, except for the first answer of an instancia     *)
(* that arrives: every other section of it is one step.                    *)
(*                                                                         *)
(* The planificador and the ESIs appear as what they send: one ESI at a    *)
(* time is ordered to run a line, its id and the status of its key are     *)
(* sent, and a status command may come at any moment.  The instancias      *)
(* answer what they are asked, die and are started again.                  *)
(***************************************************************************)
EXTENDS Distribution, SequencesExt

CONSTANTS
    Esis,
    MaxOperations,   \* bound: lines ordered to run
    MaxStatus,       \* bound: status commands
    MaxFalls,        \* bound: instancias and ESIs that die
    MaxEvents,       \* bound: both together
    NoEsi,
    Planificador,    \* the thread that serves the planificador
    NoThread         \* nobody holds the mutex

ASSUME CoordinadorAssumption ==
    /\ NoEsi \notin Esis
    /\ {MaxOperations, MaxStatus, MaxFalls, MaxEvents} \subseteq Nat
    /\ {Planificador, NoThread} \cap (Esis \union Instancias) = {}
    /\ Planificador # NoThread

VARIABLES
    \* the records of the instancias, besides those of Distribution
    storedKeys, actualCommand,
    \* locks, cells and semaphores
    esisMutex, instanciasListMutex,
    esiIdSemaphore,
    keyStatus, keyStatusSemaphore,
    responseStatus, instanciaResponse,
    valueStatus, valueSemaphore,     \* valueFromKey, with the status of it
    compactSemaphore,
    actualOperation,                 \* of actualEsiRequest
    \* the threads
    esiThread, instanciaThread, compacting, planThread,
    \* sockets: what is on its way to and from each process
    fromPlan, toPlan, request, reply, toInstancia, fromInstancia, process,
    \* the planificador: the ESI under way and the holder of each key
    turnOf, holder,
    operations, statuses, falls,     \* what is left of the bounds
    \* history
    orderedFor, responseFor,  \* the operation an instancia was last given,
                              \* and the one the response is about
    sendFailed,               \* an operation could not be sent
    setBy                     \* who has set each key and not yet stored it
                              \* (nobody, if one that died is using it)

records   == <<list, turn, storedKeys, actualCommand>>
mutexes   == <<esisMutex, instanciasListMutex>>
cells     == <<esiIdSemaphore, keyStatus, keyStatusSemaphore, responseStatus,
               instanciaResponse, valueStatus, valueSemaphore,
               compactSemaphore, actualOperation>>
threads   == <<esiThread, instanciaThread, compacting, planThread>>
esiSide   == <<request, reply, turnOf, holder, setBy>>
instanciaSide == <<toInstancia, fromInstancia, process>>
bounds    == <<operations, statuses, falls>>
histories == <<orderedFor, responseFor, sendFailed>>
vars == <<records, algorithm, mutexes, cells, threads, fromPlan, toPlan,
          esiSide, instanciaSide, bounds, histories>>

Operations  == [code : {"GET", "SET", "STORE"}, key : Keys]
NoOperation == [code |-> "NONE"]
KeyStatuses == {"BLOCKED", "NOTBLOCKED", "LOCKED"}
Replies     == {"SUCCESS", "LOCK", "BLOCK", "FREE", "ABORT"}
InstanciaStatuses == {"SUCCESS", "FAILED", "FALLEN"}
InstanciaCommands == {"DO_OPERATION", "DO_COMPACT", "CHECK_KEY_STATUS"}
NoCommand == "NONE"

\* messages of the planificador
EsiId(e)       == [type |-> "ESI_ID", esi |-> e]
KeyStatusIs(s) == [type |-> "KEY_STATUS", status |-> s]
StatusOf(k)    == [type |-> "STATUS_REQUEST", key |-> k]
PlanMessages == {EsiId(e) : e \in Esis} \union {KeyStatusIs(s) : s \in KeyStatuses}
                \union {StatusOf(k) : k \in Keys}
\* RETRY: the instancia has asked for a compaction and tries again
ToInstancia == InstanciaCommands \union {"RETRY"}
FromInstancia == {"COMPACT_REQUEST", "DID_SUCCESS", "DID_FAILED", "DID_COMPACT",
                  "VALUE", "NO_VALUE"}

TypeOK ==
    /\ DistributionTypeOK
    /\ storedKeys \in [Instancias -> SUBSET Keys]
    /\ actualCommand \in [Instancias -> InstanciaCommands \union {NoCommand}]
    /\ esisMutex \in Esis \union {Planificador, NoThread}
    /\ instanciasListMutex \in Instancias \union {Planificador, NoThread}
    /\ esiIdSemaphore \in Nat /\ keyStatusSemaphore \in 0..1
    /\ instanciaResponse \in Nat /\ valueSemaphore \in 0..1
    /\ compactSemaphore \in [Instancias -> Nat]
    /\ keyStatus \in KeyStatuses
    /\ responseStatus \in InstanciaStatuses
    /\ valueStatus \in {"VALUE", "NO_VALUE", "FALLEN"}
    /\ actualOperation \in Operations \union {NoOperation}
    /\ esiThread \in [Esis -> {"idle", "id", "status", "response", "over"}]
    /\ instanciaThread \in [Instancias -> {"none", "starting", "loop", "compact"}]
    /\ compacting \in [Instancias -> SUBSET Instancias]
    /\ planThread \in {"read", "esis", "value", "stuck"}
    /\ fromPlan \in Seq(PlanMessages)
    /\ toPlan \in Seq(Keys)
    /\ request \in [Esis -> Operations \union {NoOperation}]
    /\ reply \in [Esis -> Replies \union {"NONE"}]
    /\ toInstancia \in [Instancias -> Seq(ToInstancia)]
    /\ fromInstancia \in [Instancias -> Seq(FromInstancia)]
    /\ process \in [Instancias -> {"down", "starting", "up"}]
    /\ turnOf \in Esis \union {NoEsi}
    /\ holder \in [Keys -> Esis \union {NoEsi}]
    /\ setBy \in [Keys -> Esis \union {NoEsi}]

Init ==
    /\ DistributionInit
    /\ storedKeys = [i \in Instancias |-> {}]
    /\ actualCommand = [i \in Instancias |-> NoCommand]
    /\ esisMutex = NoThread /\ instanciasListMutex = NoThread
    /\ esiIdSemaphore = 0 /\ keyStatusSemaphore = 0
    /\ instanciaResponse = 0 /\ valueSemaphore = 0
    /\ compactSemaphore = [i \in Instancias |-> 0]
    /\ keyStatus = "NOTBLOCKED" /\ responseStatus = "SUCCESS"
    /\ valueStatus = "NO_VALUE" /\ actualOperation = NoOperation
    /\ esiThread = [e \in Esis |-> "idle"]
    /\ instanciaThread = [i \in Instancias |-> "none"]
    /\ compacting = [i \in Instancias |-> {}]
    /\ planThread = "read"
    /\ fromPlan = <<>> /\ toPlan = <<>>
    /\ request = [e \in Esis |-> NoOperation]
    /\ reply = [e \in Esis |-> "NONE"]
    /\ toInstancia = [i \in Instancias |-> <<>>]
    /\ fromInstancia = [i \in Instancias |-> <<>>]
    /\ process = [i \in Instancias |-> "down"]
    /\ turnOf = NoEsi /\ holder = [k \in Keys |-> NoEsi]
    /\ operations = MaxOperations /\ statuses = MaxStatus /\ falls = MaxFalls
    /\ orderedFor = [i \in Instancias |-> <<>>] /\ responseFor = <<>>
    /\ sendFailed = FALSE /\ setBy = [k \in Keys |-> NoEsi]

ListIsFree == instanciasListMutex = NoThread
EventsAreLeft == (MaxStatus - statuses) + (MaxFalls - falls) < MaxEvents
SomebodyDies == falls > 0 /\ EventsAreLeft /\ falls' = falls - 1

-----------------------------------------------------------------------------
(* The planificador, and the ESI it orders to run a line.                  *)

coordinadorUnchanged == UNCHANGED <<records, algorithm, mutexes, cells, threads,
                                    instanciaSide, histories>>

\* The id goes to the coordinator and the order to the ESI, which sends the
\* same line again if it was blocked.
PlanificadorOrders(e) ==
    /\ turnOf = NoEsi /\ esiThread[e] = "idle" /\ operations > 0
    /\ IF reply[e] = "BLOCK"
       THEN holder[request[e].key] = NoEsi /\ UNCHANGED request
       ELSE \E o \in Operations : request' = [request EXCEPT ![e] = o]
    /\ reply' = [reply EXCEPT ![e] = "NONE"]
    /\ turnOf' = e
    /\ fromPlan' = Append(fromPlan, EsiId(e))
    /\ operations' = operations - 1
    /\ UNCHANGED <<toPlan, holder, setBy, statuses, falls>>
    /\ coordinadorUnchanged
StatusIn(k) ==
    CASE holder[k] = NoEsi                      -> "NOTBLOCKED"
      [] holder[k] = turnOf /\ turnOf # NoEsi -> "LOCKED"
      [] OTHER                                  -> "BLOCKED"
PlanificadorAnswers ==
    /\ toPlan # <<>>
    /\ fromPlan' = Append(fromPlan, KeyStatusIs(StatusIn(Head(toPlan))))
    /\ toPlan' = Tail(toPlan)
    /\ UNCHANGED <<esiSide, bounds>>
    /\ coordinadorUnchanged
\* The operator's command may be drained after any message.
StatusIsTyped(k) ==
    /\ statuses > 0 /\ EventsAreLeft
    /\ statuses' = statuses - 1
    /\ fromPlan' = Append(fromPlan, StatusOf(k))
    /\ UNCHANGED <<toPlan, esiSide, operations, falls>>
    /\ coordinadorUnchanged

-----------------------------------------------------------------------------
(* The thread of an ESI: recieveStentenceToProcess.                        *)

HasRequest(e) == turnOf = e /\ reply[e] = "NONE"

EsiLocksMutex(e) ==
    /\ esiThread[e] = "idle" /\ HasRequest(e) /\ esisMutex = NoThread
    /\ esisMutex' = e
    /\ esiThread' = [esiThread EXCEPT ![e] = "id"]
    /\ UNCHANGED <<records, algorithm, instanciasListMutex, cells,
                   instanciaThread, compacting, planThread, fromPlan, toPlan,
                   esiSide, instanciaSide, bounds, histories>>
\* getActualEsiID, then the question of checkKeyStatusFromPlanificador
EsiAsksStatus(e) ==
    /\ esiThread[e] = "id" /\ esiIdSemaphore > 0
    /\ esiIdSemaphore' = esiIdSemaphore - 1
    /\ toPlan' = Append(toPlan, request[e].key)
    /\ esiThread' = [esiThread EXCEPT ![e] = "status"]
    /\ UNCHANGED <<records, algorithm, mutexes, keyStatus, keyStatusSemaphore,
                   responseStatus, instanciaResponse, valueStatus,
                   valueSemaphore, compactSemaphore, actualOperation,
                   instanciaThread, compacting, planThread, fromPlan, esiSide,
                   instanciaSide, bounds, histories>>

\* lookForKey
Owners(k) == {i \in Known : k \in storedKeys[i]}
LookForKey(k) == IF Owners(k) = {} THEN NoInstancia ELSE FirstOf(Owners(k))
InFallen(k) == LookForKey(k) \in fallen

RemoveKey(k, i) == storedKeys' = [storedKeys EXCEPT ![i] = @ \ {k}]

\* sendResponseToEsi and the two unlocks.  The ESI informs the planificador,
\* which takes note; after an ABORT the ESI exits and loses its keys.
HolderAfter(e, response) ==
    [k \in Keys |->
        CASE response = "ABORT" /\ holder[k] = e -> NoEsi
          [] response = "LOCK" /\ k = request[e].key -> e
          [] response = "FREE" /\ k = request[e].key -> NoEsi
          [] OTHER -> holder[k]]
SetByAfter(e, response) ==
    [k \in Keys |->
        CASE response = "ABORT" /\ setBy[k] = e -> NoEsi
          [] response = "SUCCESS" /\ request[e] = [code |-> "SET", key |-> k] -> e
          [] response = "FREE" /\ k = request[e].key -> NoEsi
          [] OTHER -> setBy[k]]
\* One that has died hears nothing, and its thread ends all the same.
SendResponseToEsi(e, response) ==
    LET heard == IF turnOf = e THEN response ELSE "ABORT" IN
    /\ reply' = [reply EXCEPT ![e] = heard]
    /\ turnOf' = IF turnOf = e THEN NoEsi ELSE turnOf
    /\ holder' = HolderAfter(e, heard)
    /\ setBy' = SetByAfter(e, heard)
    /\ request' = IF heard = "BLOCK" THEN request
                  ELSE [request EXCEPT ![e] = NoOperation]
    /\ esisMutex' = NoThread
    /\ esiThread' = [esiThread EXCEPT ![e] =
                        IF heard = "ABORT" THEN "over" ELSE "idle"]

\* The line is not one the ESI can parse, or it is killed: nothing is sent, and
\* the id of the order is left for the next one that comes.
EsiExits(e) ==
    /\ esiThread[e] = "idle" /\ HasRequest(e)
    /\ SomebodyDies
    /\ turnOf' = NoEsi
    /\ holder' = HolderAfter(e, "ABORT") /\ setBy' = SetByAfter(e, "ABORT")
    /\ request' = [request EXCEPT ![e] = NoOperation]
    /\ esiThread' = [esiThread EXCEPT ![e] = "over"]
    /\ UNCHANGED <<reply, records, algorithm, mutexes, cells, instanciaThread,
                   compacting, planThread, fromPlan, toPlan, instanciaSide,
                   operations, statuses, histories>>

\* It dies while its line is worked on.  The planificador frees its keys and
\* orders another one to run; the coordinador goes on with the line, and the
\* status of the key may be that for the other one (StatusIn).
EsiDies(e) ==
    /\ esiThread[e] \in {"id", "status", "response"} /\ turnOf = e
    /\ SomebodyDies
    /\ turnOf' = NoEsi
    /\ holder' = HolderAfter(e, "ABORT")
    /\ setBy' = [SetByAfter(e, "ABORT") EXCEPT ![request[e].key] = NoEsi]
    /\ UNCHANGED <<request, reply, records, algorithm, mutexes, cells, threads,
                   fromPlan, toPlan, instanciaSide, operations, statuses,
                   histories>>

\* tryToExecuteOperationOnInstancia up to the answer.  Only a process that has
\* died, and whose thread does not know yet, makes the send fail, now or later.
sendUnchanged == UNCHANGED <<fromInstancia, process, responseFor>>
TryToExecute(e, i) ==
    /\ actualCommand' = [actualCommand EXCEPT ![i] = "DO_OPERATION"]
    /\ actualOperation' = request[e]
    /\ orderedFor' = [orderedFor EXCEPT ![i] = <<e, operations>>]
    /\ \/ /\ toInstancia' = IF process[i] = "up"
                THEN [toInstancia EXCEPT ![i] = Append(@, "DO_OPERATION")]
                ELSE toInstancia
          /\ esiThread' = [esiThread EXCEPT ![e] = "response"]
          /\ UNCHANGED <<esisMutex, esiSide, sendFailed>>
       \/ /\ process[i] = "down"
          /\ SendResponseToEsi(e, "ABORT")
          /\ sendFailed' = TRUE
          /\ UNCHANGED toInstancia
    /\ sendUnchanged
NothingSent ==
    UNCHANGED <<actualCommand, actualOperation, instanciaSide, histories>>
Answer(e, response) == SendResponseToEsi(e, response) /\ NothingSent
Refuse(e) == Answer(e, "ABORT") /\ UNCHANGED <<storedKeys, turn>>
\* lookForKeyAndRemoveIfInFallenInstancia, when it is
ForgetFallen(e) ==
    /\ InFallen(request[e].key)
    /\ RemoveKey(request[e].key, LookForKey(request[e].key))
    /\ Answer(e, "ABORT")
    /\ UNCHANGED turn

DoGetForgets(e) ==                 \* mistaken variant: looks for the key first
    /\ request[e].code = "GET"
    /\ \/ ForgetFallen(e)
       \/ /\ ~InFallen(request[e].key)
          /\ Answer(e, CASE keyStatus = "BLOCKED" -> "BLOCK"
                         [] keyStatus = "LOCKED" -> "SUCCESS"
                         [] OTHER -> "LOCK")
          /\ UNCHANGED <<storedKeys, turn>>
DoGet(e) ==
    /\ request[e].code = "GET"
    /\ \/ /\ keyStatus = "BLOCKED"
          /\ Answer(e, "BLOCK")
          /\ UNCHANGED <<storedKeys, turn>>
       \/ keyStatus # "BLOCKED" /\ ForgetFallen(e)
       \/ /\ keyStatus # "BLOCKED" /\ ~InFallen(request[e].key)
          /\ Answer(e, IF keyStatus = "LOCKED" THEN "SUCCESS" ELSE "LOCK")
          /\ UNCHANGED <<storedKeys, turn>>
SetAnywhere(e) ==                  \* mistaken variant: the key is not looked for
    LET k == request[e].key IN
    /\ Chosen(k) # NoInstancia
    /\ TakeTurn
    /\ storedKeys' = [storedKeys EXCEPT ![Chosen(k)] = @ \union {k}]
    /\ TryToExecute(e, Chosen(k))
SetUnknown(e) ==
    LET k == request[e].key IN
    /\ LookForKey(k) = NoInstancia
    /\ \/ Chosen(k) = NoInstancia /\ Refuse(e)
       \/ /\ Chosen(k) # NoInstancia
          /\ TakeTurn
          /\ storedKeys' = [storedKeys EXCEPT ![Chosen(k)] = @ \union {k}]
          /\ TryToExecute(e, Chosen(k))
UseKnown(e) ==
    LET i == LookForKey(request[e].key) IN
    /\ i # NoInstancia /\ i \notin fallen
    /\ TryToExecute(e, i)
    /\ UNCHANGED <<storedKeys, turn>>
DoSet(e) ==
    /\ request[e].code = "SET"
    /\ \/ keyStatus # "LOCKED" /\ Refuse(e)
       \/ keyStatus = "LOCKED" /\ (ForgetFallen(e) \/ SetUnknown(e) \/ UseKnown(e))
DoStore(e) ==
    /\ request[e].code = "STORE"
    /\ \/ /\ keyStatus # "LOCKED" \/ LookForKey(request[e].key) = NoInstancia
          /\ Refuse(e)
       \/ keyStatus = "LOCKED" /\ (ForgetFallen(e) \/ UseKnown(e))
EsiActs(e) ==
    /\ esiThread[e] = "status" /\ keyStatusSemaphore > 0 /\ ListIsFree
    /\ keyStatusSemaphore' = keyStatusSemaphore - 1
    /\ DoGet(e) \/ DoSet(e) \/ DoStore(e)
    /\ UNCHANGED <<list, algorithm, instanciasListMutex, esiIdSemaphore, keyStatus,
                   responseStatus, instanciaResponse, valueStatus,
                   valueSemaphore, compactSemaphore, instanciaThread,
                   compacting, planThread, fromPlan, toPlan, bounds>>
\* ... and from the answer on
EsiGetsResponse(e) ==
    /\ esiThread[e] = "response" /\ instanciaResponse > 0 /\ ListIsFree
    /\ instanciaResponse' = instanciaResponse - 1
    /\ SendResponseToEsi(e, IF responseStatus # "SUCCESS" THEN "ABORT"
                            ELSE IF request[e].code = "SET" THEN "SUCCESS"
                            ELSE "FREE")
    /\ UNCHANGED <<records, algorithm, instanciasListMutex, esiIdSemaphore,
                   keyStatus, keyStatusSemaphore, responseStatus, valueStatus,
                   valueSemaphore, compactSemaphore, actualOperation,
                   instanciaThread, compacting, planThread, fromPlan, toPlan,
                   instanciaSide, bounds, histories>>

-----------------------------------------------------------------------------
(* The instancia processes.                                                *)

processUnchanged == UNCHANGED <<records, algorithm, mutexes, cells, threads,
    fromPlan, toPlan, esiSide, operations, statuses, histories>>
Asked(i, message) ==
    process[i] = "up" /\ toInstancia[i] # <<>> /\ Head(toInstancia[i]) = message
Answers(i, message) ==
    /\ toInstancia' = [toInstancia EXCEPT ![i] = Tail(@)]
    /\ fromInstancia' = [fromInstancia EXCEPT ![i] = Append(@, message)]
    /\ UNCHANGED <<process, falls>>
    /\ processUnchanged

\* handleOperationRequest: a SET may need a compaction, and is tried again
InstanciaOperates(i) ==
    /\ Asked(i, "DO_OPERATION") \/ Asked(i, "RETRY")
    /\ Answers(i, "DID_SUCCESS") \/ Answers(i, "DID_FAILED")
InstanciaAsksCompaction(i) ==
    /\ Asked(i, "DO_OPERATION") /\ actualOperation.code = "SET"
    /\ toInstancia' = [toInstancia EXCEPT ![i] = <<"RETRY">> \o Tail(@)]
    /\ fromInstancia' = [fromInstancia EXCEPT ![i] = Append(@, "COMPACT_REQUEST")]
    /\ UNCHANGED <<process, falls>>
    /\ processUnchanged
InstanciaCompacts(i) == Asked(i, "DO_COMPACT") /\ Answers(i, "DID_COMPACT")
InstanciaChecksKey(i) ==
    /\ Asked(i, "CHECK_KEY_STATUS")
    /\ Answers(i, "VALUE") \/ Answers(i, "NO_VALUE")
\* What it has sent whole is delivered; half an answer is like none.
InstanciaDies(i) ==
    /\ process[i] = "up"
    /\ SomebodyDies
    /\ process' = [process EXCEPT ![i] = "down"]
    /\ toInstancia' = [toInstancia EXCEPT ![i] = <<>>]
    /\ UNCHANGED fromInstancia
    /\ processUnchanged

-----------------------------------------------------------------------------
(* The thread of an instancia: handleInstancia.                            *)

\* initialiceArrivedInstancia, with the mutex until the space used arrives.
\* (An instancia is started again when its old thread has ended.)
InstanciaArrives(i) ==
    /\ process[i] = "down" /\ instanciaThread[i] = "none" /\ ListIsFree
    /\ instanciasListMutex' = i
    /\ AddNew(i) \/ InstanciaIsBack(i)
    /\ actualCommand' = [actualCommand EXCEPT ![i] = NoCommand]
    /\ instanciaThread' = [instanciaThread EXCEPT ![i] = "starting"]
    /\ process' = [process EXCEPT ![i] = "starting"]
    /\ fromInstancia' = [fromInstancia EXCEPT ![i] = <<>>]
    /\ UNCHANGED <<spaceUsed, storedKeys, algorithm, esisMutex, cells, esiThread,
                   compacting, planThread, fromPlan, toPlan, esiSide,
                   toInstancia, bounds, histories>>
startUnchanged == UNCHANGED <<instancias, fallen, turn, storedKeys,
    actualCommand, algorithm, esisMutex, cells, esiThread, compacting,
    planThread, fromPlan, toPlan, esiSide, toInstancia, fromInstancia,
    operations, statuses, histories>>
InstanciaIsReady(i) ==
    /\ instanciaThread[i] = "starting"
    /\ \E s \in 0..MaxSpace : spaceUsed' = [spaceUsed EXCEPT ![i] = s]
    /\ process' = [process EXCEPT ![i] = "up"]
    /\ instanciaThread' = [instanciaThread EXCEPT ![i] = "loop"]
    /\ instanciasListMutex' = NoThread
    /\ UNCHANGED falls
    /\ startUnchanged
\* It dies while it brings its keys back: the thread ends, and the record
\* stays as it is, not fallen.
InstanciaIsLost(i) ==
    /\ instanciaThread[i] = "starting"
    /\ SomebodyDies
    /\ process' = [process EXCEPT ![i] = "down"]
    /\ instanciaThread' = [instanciaThread EXCEPT ![i] = "none"]
    /\ instanciasListMutex' = NoThread
    /\ UNCHANGED spaceUsed
    /\ startUnchanged

Receives(i, message) ==
    /\ instanciaThread[i] = "loop" /\ ListIsFree
    /\ fromInstancia[i] # <<>> /\ Head(fromInstancia[i]) = message
    /\ fromInstancia' = [fromInstancia EXCEPT ![i] = Tail(@)]
    /\ UNCHANGED <<instancias, fallen, turn, algorithm, mutexes, esiIdSemaphore,
                   keyStatus, keyStatusSemaphore, actualOperation, esiThread,
                   planThread, fromPlan, toPlan, esiSide, process, bounds,
                   orderedFor, sendFailed>>
CommandStays(i) ==                 \* mistaken variant: it is not reset
    UNCHANGED actualCommand
CommandIsOver(i) == actualCommand' = [actualCommand EXCEPT ![i] = NoCommand]
PostResponse(i, status) ==
    /\ responseStatus' = status /\ responseFor' = orderedFor[i]
    /\ instanciaResponse' = instanciaResponse + 1

HandleSuccess(i) ==
    /\ Receives(i, "DID_SUCCESS")
    /\ IF actualOperation.code = "SET"
       THEN \E s \in 0..MaxSpace : spaceUsed' = [spaceUsed EXCEPT ![i] = s]
       ELSE UNCHANGED spaceUsed
    /\ PostResponse(i, "SUCCESS") /\ CommandIsOver(i)
    /\ UNCHANGED <<storedKeys, valueStatus, valueSemaphore, compactSemaphore,
                   instanciaThread, compacting, toInstancia>>
HandleFailed(i) ==
    /\ Receives(i, "DID_FAILED")
    /\ RemoveKey(actualOperation.key, i)
    /\ PostResponse(i, "FAILED") /\ CommandIsOver(i)
    /\ UNCHANGED <<spaceUsed, valueStatus, valueSemaphore, compactSemaphore,
                   instanciaThread, compacting, toInstancia>>
\* sendCompactRequestToEveryAliveInstaciaButActual: a send that fails is
\* only logged.  The others are waited for without the mutex.
HandleCompactRequest(i) ==
    LET others == AliveInstancias \ {i} IN
    /\ Receives(i, "COMPACT_REQUEST")
    /\ actualCommand' = [j \in Instancias |-> IF j \in others THEN "DO_COMPACT"
                                                              ELSE actualCommand[j]]
    /\ toInstancia' = [j \in Instancias |->
            IF j \in others /\ process[j] = "up"
            THEN Append(toInstancia[j], "DO_COMPACT") ELSE toInstancia[j]]
    /\ compacting' = [compacting EXCEPT ![i] = others]
    /\ instanciaThread' = [instanciaThread EXCEPT ![i] = "compact"]
    /\ UNCHANGED <<spaceUsed, storedKeys, responseStatus, instanciaResponse,
                   valueStatus, valueSemaphore, compactSemaphore, responseFor>>
HandleDidCompact(i) ==
    /\ Receives(i, "DID_COMPACT")
    /\ compactSemaphore' = [compactSemaphore EXCEPT ![i] = @ + 1]
    /\ CommandIsOver(i)
    /\ UNCHANGED <<spaceUsed, storedKeys, responseStatus, instanciaResponse,
                   valueStatus, valueSemaphore, instanciaThread, compacting,
                   toInstancia, responseFor>>
HandleValue(i) ==
    /\ \E v \in {"VALUE", "NO_VALUE"} : Receives(i, v) /\ valueStatus' = v
    /\ valueSemaphore' = valueSemaphore + 1
    /\ CommandIsOver(i)
    /\ UNCHANGED <<spaceUsed, storedKeys, responseStatus, instanciaResponse,
                   compactSemaphore, instanciaThread, compacting, toInstancia,
                   responseFor>>

\* waitInstanciasToCompact
CompactionEnds(i) ==
    /\ instanciaThread[i] = "compact" /\ ListIsFree
    /\ \A j \in compacting[i] : compactSemaphore[j] > 0
    /\ compactSemaphore' = [j \in Instancias |->
            IF j \in compacting[i] THEN compactSemaphore[j] - 1
                                   ELSE compactSemaphore[j]]
    /\ compacting' = [compacting EXCEPT ![i] = {}]
    /\ instanciaThread' = [instanciaThread EXCEPT ![i] = "loop"]
    /\ UNCHANGED <<records, algorithm, mutexes, esiIdSemaphore, keyStatus,
                   keyStatusSemaphore, responseStatus, instanciaResponse,
                   valueStatus, valueSemaphore, actualOperation, esiThread,
                   planThread, fromPlan, toPlan, esiSide, instanciaSide, bounds,
                   histories>>

\* instanciaExitGracefully tells whoever waits for the command under way.
ExitGracefullyTellsNoCompaction(i) == \* mistaken variant: a case is missing
    CASE actualCommand[i] = "DO_OPERATION" ->
            /\ PostResponse(i, "FALLEN")
            /\ UNCHANGED <<valueStatus, valueSemaphore, compactSemaphore>>
      [] actualCommand[i] = "CHECK_KEY_STATUS" ->
            /\ valueStatus' = "FALLEN" /\ valueSemaphore' = valueSemaphore + 1
            /\ UNCHANGED <<responseStatus, responseFor, instanciaResponse,
                           compactSemaphore>>
      [] OTHER -> UNCHANGED <<responseStatus, responseFor, instanciaResponse,
                              valueStatus, valueSemaphore, compactSemaphore>>
ExitGracefullyTellsEsi(i) ==       \* mistaken variant: whatever the command was
    /\ PostResponse(i, "FALLEN")
    /\ UNCHANGED <<valueStatus, valueSemaphore, compactSemaphore>>
ExitGracefullyTells(i) ==
    CASE actualCommand[i] = "DO_OPERATION" ->
            /\ PostResponse(i, "FALLEN")
            /\ UNCHANGED <<valueStatus, valueSemaphore, compactSemaphore>>
      [] actualCommand[i] = "DO_COMPACT" ->
            /\ compactSemaphore' = [compactSemaphore EXCEPT ![i] = @ + 1]
            /\ UNCHANGED <<responseStatus, responseFor, instanciaResponse,
                           valueStatus, valueSemaphore>>
      [] actualCommand[i] = "CHECK_KEY_STATUS" ->
            /\ valueStatus' = "FALLEN" /\ valueSemaphore' = valueSemaphore + 1
            /\ UNCHANGED <<responseStatus, responseFor, instanciaResponse,
                           compactSemaphore>>
      [] OTHER -> UNCHANGED <<responseStatus, responseFor, instanciaResponse,
                              valueStatus, valueSemaphore, compactSemaphore>>
InstanciaExits(i) ==
    /\ instanciaThread[i] = "loop" /\ ListIsFree
    /\ process[i] = "down" /\ fromInstancia[i] = <<>>
    /\ InstanciaHasFallen(i)
    /\ ExitGracefullyTells(i)
    /\ instanciaThread' = [instanciaThread EXCEPT ![i] = "none"]
    /\ UNCHANGED <<spaceUsed, storedKeys, actualCommand, algorithm, mutexes,
                   esiIdSemaphore, keyStatus, keyStatusSemaphore,
                   actualOperation, esiThread, compacting, planThread, fromPlan,
                   toPlan, esiSide, instanciaSide, bounds, orderedFor,
                   sendFailed>>

-----------------------------------------------------------------------------
(* The thread of the planificador: planificadorHandler.                    *)

Reads(type) ==
    planThread = "read" /\ fromPlan # <<>> /\ Head(fromPlan).type = type
readUnchanged == UNCHANGED <<records, algorithm, instanciasListMutex,
    responseStatus, instanciaResponse, compactSemaphore, actualOperation,
    esiThread, instanciaThread, compacting, toPlan, esiSide, bounds, histories>>

PlanReadsEsiId ==
    /\ Reads("ESI_ID")
    /\ esiIdSemaphore' = esiIdSemaphore + 1
    /\ fromPlan' = Tail(fromPlan)
    /\ UNCHANGED <<esisMutex, keyStatus, keyStatusSemaphore, valueStatus,
                   valueSemaphore, planThread, instanciaSide>>
    /\ readUnchanged
PlanReadsKeyStatus ==
    /\ Reads("KEY_STATUS")
    /\ keyStatus' = Head(fromPlan).status
    /\ keyStatusSemaphore' = keyStatusSemaphore + 1
    /\ fromPlan' = Tail(fromPlan)
    /\ UNCHANGED <<esisMutex, esiIdSemaphore, valueStatus, valueSemaphore,
                   planThread, instanciaSide>>
    /\ readUnchanged
PlanReadsStatusRequest ==
    /\ Reads("STATUS_REQUEST")
    /\ planThread' = "esis"
    /\ UNCHANGED <<fromPlan, esisMutex, esiIdSemaphore, keyStatus,
                   keyStatusSemaphore, valueStatus, valueSemaphore,
                   instanciaSide>>
    /\ readUnchanged

\* respondStatusToPlanificador, when the answer is at hand: the key is in a
\* fallen instancia, or in none and the choice is simulated, all of it under
\* instanciasListMutex (DistributionCalls has the simulation step by step, and
\* puts the turn back before the mutex is free).
StatusUnchanged == UNCHANGED <<list, storedKeys, algorithm, esiIdSemaphore,
    keyStatus, keyStatusSemaphore, responseStatus, instanciaResponse,
    compactSemaphore, actualOperation, esiThread, instanciaThread, compacting,
    toPlan, esiSide, fromInstancia, process, bounds, histories>>
StatusIsSent ==
    /\ esisMutex' = NoThread
    /\ planThread' = "read"
    /\ fromPlan' = Tail(fromPlan)
RespondStatusAtOnce ==
    /\ planThread = "esis" /\ esisMutex = NoThread /\ ListIsFree
    /\ LookForKey(Head(fromPlan).key) \in fallen \union {NoInstancia}
    /\ StatusIsSent
    /\ UNCHANGED <<turn, actualCommand, instanciasListMutex, valueStatus,
                   valueSemaphore, toInstancia>>
    /\ StatusUnchanged
\* getValueFromKey
AskValue ==
    LET i == LookForKey(Head(fromPlan).key) IN
    /\ planThread = "esis" /\ esisMutex = NoThread /\ ListIsFree
    /\ i # NoInstancia /\ i \notin fallen
    /\ esisMutex' = Planificador
    /\ actualCommand' = [actualCommand EXCEPT ![i] = "CHECK_KEY_STATUS"]
    /\ \/ /\ toInstancia' = IF process[i] = "up"
                THEN [toInstancia EXCEPT ![i] = Append(@, "CHECK_KEY_STATUS")]
                ELSE toInstancia
          /\ planThread' = "value"
          /\ UNCHANGED instanciasListMutex
       \/ \* the send fails: the caller locks a mutex that it holds
          /\ process[i] = "down"
          /\ planThread' = "stuck" /\ instanciasListMutex' = Planificador
          /\ UNCHANGED toInstancia
    /\ UNCHANGED <<turn, valueStatus, valueSemaphore, fromPlan>>
    /\ StatusUnchanged
GetValue ==
    /\ planThread = "value" /\ valueSemaphore > 0 /\ ListIsFree
    /\ valueSemaphore' = valueSemaphore - 1
    /\ StatusIsSent
    /\ UNCHANGED <<turn, actualCommand, instanciasListMutex, valueStatus, toInstancia>>
    /\ StatusUnchanged

-----------------------------------------------------------------------------
EsiThread(e) ==
    EsiLocksMutex(e) \/ EsiAsksStatus(e) \/ EsiActs(e) \/ EsiGetsResponse(e)
InstanciaThread(i) ==
    \/ InstanciaIsReady(i) \/ HandleSuccess(i) \/ HandleFailed(i)
    \/ HandleCompactRequest(i) \/ HandleDidCompact(i) \/ HandleValue(i)
    \/ CompactionEnds(i) \/ InstanciaExits(i)
PlanThread ==
    \/ PlanReadsEsiId \/ PlanReadsKeyStatus \/ PlanReadsStatusRequest
    \/ RespondStatusAtOnce \/ AskValue \/ GetValue
Process(i) ==
    \/ InstanciaOperates(i) \/ InstanciaAsksCompaction(i)
    \/ InstanciaCompacts(i) \/ InstanciaChecksKey(i)

Next ==
    \/ \E e \in Esis :
          EsiThread(e) \/ PlanificadorOrders(e) \/ EsiExits(e) \/ EsiDies(e)
    \/ \E i \in Instancias :
          \/ InstanciaThread(i) \/ Process(i)
          \/ InstanciaArrives(i) \/ InstanciaDies(i) \/ InstanciaIsLost(i)
    \/ PlanThread \/ PlanificadorAnswers
    \/ \E k \in Keys : StatusIsTyped(k)

\* The threads and the processes run; nothing obliges an ESI to be ordered,
\* the operator to type, or an instancia to arrive or to die.
Fairness ==
    /\ WF_vars(\E e \in Esis : EsiThread(e))
    /\ WF_vars(\E i \in Instancias : InstanciaThread(i))
    /\ WF_vars(\E i \in Instancias : Process(i))
    /\ WF_vars(PlanThread) /\ WF_vars(PlanificadorAnswers)

Spec == Init /\ [][Next]_vars
FairSpec == Spec /\ Fairness

-----------------------------------------------------------------------------
(* Properties.                                                             *)

\* A key is recorded in one instancia only, whatever fails, falls and comes
\* back: lookForKey would otherwise go on with a value that is not the last.
KeyInOneInstancia ==
    \A i, j \in Instancias : storedKeys[i] \cap storedKeys[j] # {} => i = j

\* The response an ESI's thread is about to read is about its own operation.
OutcomeIsOwn ==
    \A e \in Esis :
        turnOf = e /\ esiThread[e] = "response" /\ instanciaResponse > 0
            => responseFor = <<e, operations>>
\* It is so unless an operation could not be sent: whatever the order of the
\* answers, falls and returns, no other post of a response is left over.
OutcomeIsOwnIfSent == ~sendFailed => OutcomeIsOwn

\* A post of an instancia that compacted or fell while it did is there for one
\* that waits for it, once: none is left for the next compaction.
CompactPostsAreAwaited ==
    \A j \in Instancias : compactSemaphore[j] > 0
        => \E i \in Instancias : instanciaThread[i] = "compact" /\ j \in compacting[i]

\* A key an ESI has SET and still holds is known to the coordinador, whatever
\* other ESIs and the operator ask about it: its STORE will find where it is.
\* (Or it is about to hear that the instancia failed, and will be aborted.  The
\* line of an ESI that has died may be taken for that of the holder, and make
\* the coordinador forget the key.)
IsTold(e, status) ==
    /\ esiThread[e] = "response" /\ instanciaResponse > 0
    /\ responseStatus = status
SetKeysAreKnown ==
    ~sendFailed => \A k \in Keys :
        setBy[k] # NoEsi => Owners(k) # {} \/ IsTold(setBy[k], "FAILED")

\* The ways in which an answer never comes: an order given to an instancia
\* whose thread ended while it arrived (InstanciaIsLost), or whose command was
\* replaced by that of a compaction; and those in which a status request stops
\* the thread of the planificador.
IsLost(i) == i \in AliveInstancias /\ instanciaThread[i] = "none"
IsAwaited(i, command) == ~IsLost(i) /\ actualCommand[i] = command
OrphanedOperation ==
    \E e \in Esis : /\ esiThread[e] = "response" /\ instanciaResponse = 0
                    /\ \A i \in Instancias : ~IsAwaited(i, "DO_OPERATION")
OrphanedCompaction ==
    \E i \in Instancias : \E j \in compacting[i] :
        compactSemaphore[j] = 0 /\ ~IsAwaited(j, "DO_COMPACT")
OrphanedStatus ==
    /\ planThread = "value" /\ valueSemaphore = 0
    /\ \A i \in Instancias : ~IsAwaited(i, "CHECK_KEY_STATUS")
StatusDeadlock ==
    \/ planThread = "stuck"
    \/ /\ planThread = "esis"
       /\ \E e \in Esis : \/ esiThread[e] = "id" /\ esiIdSemaphore = 0
                          \/ esiThread[e] = "status" /\ keyStatusSemaphore = 0
IsStopped ==
    StatusDeadlock \/ OrphanedOperation \/ OrphanedCompaction \/ OrphanedStatus

\* Every request of an ESI and every status command is answered, under any
\* interleaving of the threads, unless one of those has happened and stays for
\* ever: there is no other deadlock and no other lost post.
EveryoneIsAnswered ==
    /\ \A e \in Esis : <>[]HasRequest(e) => <>[]IsStopped
    /\ <>[](planThread # "read") => <>[]IsStopped

-----------------------------------------------------------------------------
(* What a message of the program says and the program does not do.         *)

\* planificador.c:633 "Waiting coordinador request": an ESI that was ordered to
\* run a line is answered by the coordinador.
RequestsAreAnswered == \A e \in Esis : HasRequest(e) ~> ~HasRequest(e)
=============================================================================
