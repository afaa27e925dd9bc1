---------------------------- MODULE Planificador ----------------------------
(***************************************************************************)
(* The scheduler process (planificador) with its two threads, the select   *)
(* loop and the operator's console, and the ESI processes it drives.       *)
(*                                                                         *)
(* The select loop runs one handler at a time under executionSemaphore.  A *)
(* handler is cut only where it meets a lock the console also takes:       *)
(*    body -> drain of the pending console commands -> executeInstruccion  *)
(* and, where the code says that the instruction is over,                  *)
(*    body -> drain -> finishedExecutingInstruccion := true -> drain -> ... *)
(* Variable main says where the loop is; main = "select" means that        *)
(* executionSemaphore is free.  Variable console says where the console    *)
(* thread is; "owning" means that it holds                                 *)
(* mutexFinishedExecutingInstruccion and waits for executionSemaphore.     *)
(*                                                                         *)
(* The coordinator appears only as the answer it computes from the status  *)
(* of the key (module scope: coordinador.c doGet, doSet, doStore).         *)
(***************************************************************************)
EXTENDS Integers, Sequences, FiniteSets, SequencesExt

CONSTANTS
    Esis,         \* the scripts (ESI processes) that may connect
    Keys,         \* the keys they use, pairwise different ignoring case
    ConfigKeys,   \* BLOCKED_KEYS of the configuration file
    Commands,     \* the console commands the operator may type
    Preemptive,   \* TRUE iff ALGORITHM is SJF-CD
    Failures,     \* TRUE iff scripts may be wrong and operations may abort
    MaxLines,     \* bound: lines of a script
    MaxCommands,  \* bound: commands typed
    NoEsi, NoKey

ASSUME PlanificadorAssumption ==
    /\ IsFiniteSet(Esis) /\ IsFiniteSet(Keys)
    /\ NoEsi \notin Esis /\ NoKey \notin Keys
    /\ ConfigKeys \subseteq Keys
    /\ Preemptive \in BOOLEAN /\ Failures \in BOOLEAN
    /\ MaxLines \in Nat \ {0} /\ MaxCommands \in Nat

CommandNames == {"pausar", "continuar", "bloquear", "desbloquear",
                 "listar", "kill", "status", "deadlock"}
AllCommands == [name : CommandNames, key : Keys \union {NoKey},
                esi : Esis \union {NoEsi}]

ASSUME CommandsAssumption ==
    /\ Commands \subseteq AllCommands
    /\ \A c \in Commands :
          /\ c.name \in {"bloquear", "kill"} => c.esi \in Esis
          /\ c.name \in {"bloquear", "desbloquear", "listar", "status"}
                => c.key \in Keys

VARIABLES
    \* the scheduler's tables
    system,      \* allSystemEsis
    ready,       \* readyEsis: how many times the list holds each ESI
    running,     \* runningEsi, NoEsi for NULL
    finished,    \* finishedEsis
    queue,       \* blockedEsiDic: the ids blocked on each key, oldest first
    dicKeys,     \* the keys blockedEsiDic has an entry for
    allKeys,     \* allSystemKeys
    taken,       \* allSystemTakenKeys
    locked,      \* lockedKeys of each ESI: how many times it lists each key
    paused,      \* pauseState = PAUSE
    finishedExec,\* finishedExecutingInstruccion
    keyRecieved, \* the key of the last key status message
    globalKey,   \* the key of the last status command
    pending,     \* instruccionsByConsoleList
    \* the threads and their locks
    mode,        \* "up" or "crashed"
    main, dying, \* where the select loop is, and the ESI it is aborting
    console, typed, budget,
    readyMutexLeaked,  \* isReady returned with mutexReadyList locked
    \* the ESI processes and the messages under way
    phase, inbox, operation, left, status, info,
    statusReplies      \* answers to status commands under way

tables   == <<system, ready, running, finished, queue, dicKeys, allKeys,
              taken, locked>>
messages == <<keyRecieved, globalKey, statusReplies>>
consoleVars == <<console, typed, budget, readyMutexLeaked>>
esiVars  == <<phase, inbox, operation, left, status, info>>
vars == <<tables, paused, finishedExec, messages, pending, mode, main, dying,
          consoleVars, esiVars>>

-----------------------------------------------------------------------------
(* The values the processes exchange.                                      *)

KeyStatuses == {"BLOCKED", "NOTBLOCKED", "LOCKED"}
Responses   == {"SUCCESS", "LOCK", "BLOCK", "FREE", "ABORT"}
Operations  == [code : {"GET", "SET", "STORE"}, key : Keys]
NoOperation == [code |-> "NONE", key |-> NoKey]
Infos       == [response : Responses, esiStatus : {"FINISHED", "NOTFINISHED"}]
NoInfo      == [response |-> "NONE", esiStatus |-> "NOTFINISHED"]
NoCommand   == [name |-> "none", key |-> NoKey, esi |-> NoEsi]

Advances(response) == response \in {"SUCCESS", "LOCK", "FREE"}

MainPoints == {"select", "drain", "schedule", "finish_drain", "finish_set",
               "abort_drain", "abort_set", "abort_end", "blocked", "stuck"}
ConsolePoints == {"prompt", "validated", "owning", "kick", "stuck"}
Phases == {"absent", "waiting", "asking", "told", "exited", "gone"}

Alive(e) == phase[e] \in {"waiting", "asking", "told"}

TablesTypeOK ==
    /\ system \in SUBSET Esis
    /\ ready \in [Esis -> Nat]
    /\ running \in Esis \union {NoEsi}
    /\ finished \in SUBSET Esis
    /\ queue \in [Keys -> Seq(Esis)]
    /\ dicKeys \in SUBSET Keys /\ allKeys \in SUBSET Keys
    /\ taken \in SUBSET Keys
    /\ locked \in [Esis -> [Keys -> Nat]]
FlagsTypeOK ==
    paused \in BOOLEAN /\ finishedExec \in BOOLEAN /\ readyMutexLeaked \in BOOLEAN
ThreadsTypeOK ==
    /\ keyRecieved \in Keys \union {NoKey}
    /\ globalKey \in Keys \union {NoKey}
    /\ statusReplies \in Nat
    /\ pending \in Seq(Commands)
    /\ mode \in {"up", "crashed"}
    /\ main \in MainPoints /\ dying \in Esis \union {NoEsi}
    /\ console \in ConsolePoints /\ typed \in Commands \union {NoCommand}
    /\ budget \in 0..MaxCommands
EsisTypeOK ==
    /\ phase \in [Esis -> Phases]
    /\ inbox \in [Esis -> Seq({"RUN", "KILLESI"})]
    /\ operation \in [Esis -> Operations \union {NoOperation}]
    /\ left \in [Esis -> 0..MaxLines]
    /\ status \in [Esis -> KeyStatuses]
    /\ info \in [Esis -> Infos \union {NoInfo}]
TypeOK == TablesTypeOK /\ FlagsTypeOK /\ ThreadsTypeOK /\ EsisTypeOK

Init ==
    /\ system = {} /\ ready = [e \in Esis |-> 0] /\ running = NoEsi
    /\ finished = {}
    /\ queue = [k \in Keys |-> <<>>]
    /\ dicKeys = ConfigKeys /\ allKeys = ConfigKeys /\ taken = ConfigKeys
    /\ locked = [e \in Esis |-> [k \in Keys |-> 0]]
    /\ paused = FALSE /\ finishedExec = TRUE
    /\ keyRecieved = NoKey /\ globalKey = NoKey
    /\ pending = <<>>
    /\ mode = "up" /\ main = "select" /\ dying = NoEsi
    /\ console = "prompt" /\ typed = NoCommand /\ budget = MaxCommands
    /\ readyMutexLeaked = FALSE
    /\ phase = [e \in Esis |-> "absent"]
    /\ inbox = [e \in Esis |-> <<>>]
    /\ operation = [e \in Esis |-> NoOperation]
    /\ left = [e \in Esis |-> 0]
    /\ status = [e \in Esis |-> "NOTBLOCKED"]
    /\ info = [e \in Esis |-> NoInfo]
    /\ statusReplies = 0

-----------------------------------------------------------------------------
(* Operations on the tables.                                               *)

ReadyIsEmpty == \A e \in Esis : ready[e] = 0

\* Tables after a segmentation fault are of no interest.
Crash == mode' = "crashed" /\ UNCHANGED <<tables, paused, finishedExec,
            messages, pending, main, dying, consoleVars, esiVars>>

\* A message to a process that has exited is lost.
Send(e, message) ==
    inbox' = IF Alive(e) THEN [inbox EXCEPT ![e] = Append(@, message)]
                         ELSE inbox

\* isLockedKey and the refinement of its answer in sendKeyStatusToCoordinador
IsLockedIfAwaited(k) ==            \* mistaken variant: looks at the queue
    IF queue[k] # <<>> THEN "BLOCKED" ELSE "NOTBLOCKED"
IsLockedKey(k) == IF k \in taken THEN "BLOCKED" ELSE "NOTBLOCKED"
KeyStatus(k) ==
    IF IsLockedKey(k) = "BLOCKED" /\ running # NoEsi
          /\ locked[running][k] > 0
    THEN "LOCKED" ELSE IsLockedKey(k)

\* The ids popped when key k is released times[k] times, as positions.
Popped(times) ==
    UNION {{<<k, i>> : i \in {j \in 1..Len(queue[k]) : j <= times[k]}} : k \in Keys}

\* getEsiById answers NULL for such an id.  unlockEsi puts that NULL in the
\* ready list, where the next scan of the list dereferences it.
PopsUnknownId(times) ==
    \E p \in Popped(times) : queue[p[1]][p[2]] \notin system

QueueAfterAll(times) ==            \* mistaken variant: every waiter is woken
    [k \in Keys |-> IF times[k] > 0 THEN <<>> ELSE queue[k]]
QueueAfter(times) ==
    [k \in Keys |-> IF times[k] <= Len(queue[k])
                    THEN SubSeq(queue[k], times[k] + 1, Len(queue[k]))
                    ELSE <<>>]

ReadyAfterForgotten(times) == ready  \* mistaken variant: popped, not readied
ReadyAfter(times) ==
    [e \in Esis |-> ready[e]
        + Cardinality({p \in Popped(times) : queue[p[1]][p[2]] = e})]

TakenAfterAll(times) == {}         \* mistaken variant: the list is cleaned
TakenAfter(times) == taken \ {k \in Keys : times[k] > 0}

\* unlockEsi(key, false) called times[k] times for each key k
Release(times) ==
    /\ queue' = QueueAfter(times)
    /\ ready' = ReadyAfter(times)
    /\ taken' = TakenAfter(times)

Once(k) == [x \in Keys |-> IF x = k THEN 1 ELSE 0]

\* What finishEsi frees when the last operation already locked or freed key k.
LockedPlus(e, k)  == [locked[e] EXCEPT ![k] = @ + 1]
LockedMinus(e, k) == [locked[e] EXCEPT ![k] = IF @ > 0 THEN @ - 1 ELSE @]
FreedAtLeast(e, k) == [locked[e] EXCEPT ![k] = IF @ = 0 THEN 1 ELSE @]

LocksOf(e, held) == [locked EXCEPT ![e] = held]
NothingHeld == [k \in Keys |-> 0]

\* The queue sweep of deleteEsiFromSystem.  The loop pops and pushes back
\* while j < queue_size, and the size shrinks with each id removed, so that
\* the tail it did not reach ends up in front.  (Exact up to two removals.)
RemoveTwice(s, e) == RemoveFirst(RemoveFirst(s, e), e)
SweepEnds(q, e, j) ==
    j >= Len(RemoveTwice(SubSeq(q, 1, j), e)) + Len(q) - j
SweepLength(q, e) ==
    CHOOSE j \in 0..Len(q) :
        /\ SweepEnds(q, e, j)
        /\ \A i \in 0..(j - 1) : ~SweepEnds(q, e, i)
Swept(q, e) ==
    LET n == SweepLength(q, e)
    IN  SubSeq(q, n + 1, Len(q)) \o RemoveTwice(SubSeq(q, 1, n), e)
SweepQueues(queues, e) ==
    [k \in Keys |-> IF k \in allKeys THEN Swept(queues[k], e) ELSE queues[k]]

\* blockEsi: the id joins the queue; the ESI leaves running or ready.
BlockRunningStays(k) ==            \* mistaken variant: runningEsi is kept
    /\ queue' = [queue EXCEPT ![k] = Append(@, running)]
    /\ dicKeys' = dicKeys \union {k}
    /\ UNCHANGED <<running, ready>>
BlockRunning(k) ==
    /\ queue' = [queue EXCEPT ![k] = Append(@, running)]
    /\ dicKeys' = dicKeys \union {k}
    /\ running' = NoEsi
    /\ UNCHANGED ready
BlockOtherUnchecked(k, e) ==       \* mistaken variant: e is taken to be ready
    /\ queue' = [queue EXCEPT ![k] = Append(@, e)]
    /\ dicKeys' = dicKeys \union {k}
    /\ ready' = [ready EXCEPT ![e] = @ - 1]
    /\ UNCHANGED running
BlockOther(k, e) ==
    /\ queue' = [queue EXCEPT ![k] = Append(@, e)]
    /\ dicKeys' = dicKeys \union {k}
    /\ ready' = [ready EXCEPT ![e] = IF @ > 0 THEN @ - 1 ELSE @]
    /\ UNCHANGED running

-----------------------------------------------------------------------------
(* executeInstruccion: choose what runs next and order it to run a line.   *)
(* The choice among the ready ESIs depends on the estimations, which are   *)
(* abstracted: any ready ESI may come first, and under SJF-CD any of them  *)
(* may have a lower estimation than the rest of the running one.           *)

MaySchedule == ~paused /\ finishedExec
ReadsReadyList == MaySchedule /\ (running = NoEsi \/ Preemptive)

\* the ready list may keep the address of an ESI that abortEsi has freed
ReadyHoldsFreedEsi == \E e \in Esis \ system : ready[e] > 0

OrderToRunUnmarked(e) ==           \* mistaken variant: the flag is not cleared
    /\ running' = e
    /\ UNCHANGED finishedExec
    /\ Send(e, "RUN")
OrderToRun(e) ==
    /\ running' = e
    /\ finishedExec' = FALSE
    /\ Send(e, "RUN")

NothingToRun ==
    /\ ~MaySchedule \/ (running = NoEsi /\ ReadyIsEmpty)
    /\ UNCHANGED <<running, ready, finishedExec, inbox>>
DispatchNext ==
    /\ MaySchedule /\ running = NoEsi
    /\ \E e \in system :
          /\ ready[e] > 0
          /\ ready' = [ready EXCEPT ![e] = @ - 1]
          /\ OrderToRun(e)
ContinueRunning ==
    /\ MaySchedule /\ running # NoEsi
    /\ OrderToRun(running)
    /\ UNCHANGED ready
DislodgeRunning ==
    /\ MaySchedule /\ running # NoEsi /\ Preemptive
    /\ \E e \in system \ {running} :
          /\ ready[e] > 0
          /\ ready' = [ready EXCEPT ![running] = @ + 1, ![e] = @ - 1]
          /\ OrderToRun(e)

ExecuteInstruccion ==
    /\ NothingToRun \/ DispatchNext \/ ContinueRunning \/ DislodgeRunning
    /\ UNCHANGED <<system, finished, queue, dicKeys, allKeys, taken, locked,
                   paused, messages, pending, mode, dying, budget,
                   readyMutexLeaked, phase, operation, left, status, info>>

\* executeInstruccion waits for the leaked mutexReadyList, and keeps the other
BlocksOnReadyList == ReadsReadyList /\ readyMutexLeaked
ReadsFreedEsi == ReadsReadyList /\ ~readyMutexLeaked /\ ReadyHoldsFreedEsi

MutexFinishedIsFree == console \notin {"owning", "stuck"} /\ main # "stuck"

MainSchedules ==
    /\ main = "schedule" /\ MutexFinishedIsFree
    /\ ReadsReadyList => ~readyMutexLeaked /\ ~ReadyHoldsFreedEsi
    /\ ExecuteInstruccion
    /\ main' = "select"
    /\ UNCHANGED <<console, typed>>

ConsoleReturns ==                  \* mistaken variant: nothing is scheduled
    /\ console = "kick" /\ main # "stuck"
    /\ console' = "prompt" /\ typed' = NoCommand
    /\ UNCHANGED <<tables, paused, finishedExec, messages, pending, mode, main,
                   dying, budget, readyMutexLeaked, esiVars>>
ConsoleKicks ==
    /\ console = "kick" /\ main # "stuck"
    /\ ReadsReadyList => ~readyMutexLeaked /\ ~ReadyHoldsFreedEsi
    /\ ExecuteInstruccion
    /\ console' = "prompt" /\ typed' = NoCommand
    /\ UNCHANGED main

-----------------------------------------------------------------------------
(* The console: validCommand, execute, and the thread around them.         *)

IsReady(e) == ready[e] > 0
\* isReady returns without unlocking when the list has others but not e
IsReadyLeaks(e) == ~IsReady(e) /\ ~ReadyIsEmpty

ValidCommand(c) ==
    CASE c.name = "bloquear" -> IsReady(c.esi) \/ running = c.esi
      [] c.name \in {"desbloquear", "listar"} -> c.key \in dicKeys
      [] OTHER -> TRUE
LocksReadyList(c) == c.name = "bloquear"
\* ... and execute does: unlockEsi if somebody waits, removeFromReady
ExecuteLocksReadyList(c) ==
    \/ c.name = "desbloquear" /\ queue[c.key] # <<>>
    \/ c.name = "bloquear" /\ running # c.esi
LeakAfter(c) == readyMutexLeaked \/ (c.name = "bloquear" /\ IsReadyLeaks(c.esi))

ExecutePausar(c) ==
    /\ c.name \in {"pausar", "continuar"}
    /\ paused' = (c.name = "pausar")
    /\ UNCHANGED <<running, ready, queue, dicKeys, taken, inbox, globalKey,
                   statusReplies>>
\* `if (!isLockedKey(key)) lockKey(...)' never locks: both answers of
\* isLockedKey are non-zero characters.
ExecuteBloquear(c) ==
    /\ c.name = "bloquear"
    /\ IF running = c.esi THEN BlockRunning(c.key) ELSE BlockOther(c.key, c.esi)
    /\ UNCHANGED <<taken, paused, inbox, globalKey, statusReplies>>
\* removeFromReady is handed the NULL of getEsiById for an ESI already gone
BloquearCrashes(c) ==
    /\ c.name = "bloquear" /\ c.esi \notin system /\ running # c.esi
    /\ ~ReadyIsEmpty
\* unlockEsi(key, true): the key is freed only if nobody waits for it.
ExecuteDesbloquear(c) ==
    /\ c.name = "desbloquear"
    /\ taken' = IF queue[c.key] = <<>> THEN taken \ {c.key} ELSE taken
    /\ queue' = QueueAfter(Once(c.key))
    /\ ready' = ReadyAfter(Once(c.key))
    /\ UNCHANGED <<running, dicKeys, paused, inbox, globalKey, statusReplies>>
DesbloquearCrashes(c) == c.name = "desbloquear" /\ PopsUnknownId(Once(c.key))
\* printEsi is handed the NULL of getEsiById for a blocked id already gone
ShowCrashes(k) ==
    k \in dicKeys /\ \E i \in 1..Len(queue[k]) : queue[k][i] \notin system
\* The matrix of executeDeadlockAlgorithm (module Deadlock) is written at the
\* index -1 of such an id, if somebody has the key.
DeadlockCrashes ==
    \E k \in allKeys : ShowCrashes(k) /\ \E e \in system : locked[e][k] > 0
\* listar and deadlock only print
ExecuteListar(c) ==
    /\ c.name \in {"listar", "deadlock"}
    /\ UNCHANGED <<running, ready, queue, dicKeys, taken, paused, inbox,
                   globalKey, statusReplies>>
ListarCrashes(c) ==
    \/ c.name = "listar" /\ ShowCrashes(c.key)
    \/ c.name = "deadlock" /\ DeadlockCrashes
ExecuteKill(c) ==
    /\ c.name = "kill"
    /\ IF c.esi \in system \ finished THEN Send(c.esi, "KILLESI")
                                      ELSE UNCHANGED inbox
    /\ UNCHANGED <<running, ready, queue, dicKeys, taken, paused, globalKey,
                   statusReplies>>
ExecuteStatus(c) ==
    /\ c.name = "status"
    /\ globalKey' = c.key
    /\ statusReplies' = statusReplies + 1
    /\ UNCHANGED <<running, ready, queue, dicKeys, taken, paused, inbox>>

ExecuteCrashes(c) ==
    BloquearCrashes(c) \/ DesbloquearCrashes(c) \/ ListarCrashes(c)
Execute(c) ==
    /\ \/ ExecutePausar(c) \/ ExecuteBloquear(c) \/ ExecuteDesbloquear(c)
       \/ ExecuteListar(c) \/ ExecuteKill(c) \/ ExecuteStatus(c)
    /\ UNCHANGED <<system, finished, allKeys, locked>>
Skip == UNCHANGED <<tables, paused, inbox, globalKey, statusReplies>>

\* A line is read and validated with no lock but mutexReadyList.
ConsoleReads(c) ==
    /\ console = "prompt" /\ budget > 0
    /\ LocksReadyList(c) => ~readyMutexLeaked
    /\ budget' = budget - 1
    /\ readyMutexLeaked' = LeakAfter(c)
    /\ IF ValidCommand(c) THEN console' = "validated" /\ typed' = c
                          ELSE UNCHANGED <<console, typed>>
    /\ UNCHANGED <<tables, paused, finishedExec, messages, pending, mode,
                   main, dying, esiVars>>

Draining == main \in {"drain", "finish_drain", "abort_drain"}

\* mutexFinishedExecutingInstruccion is locked; what follows depends on
\* whether an instruction is being executed.
ConsoleQueuesCommand ==
    /\ console = "validated" /\ main # "stuck" /\ ~finishedExec /\ ~Draining
    /\ pending' = Append(pending, typed)
    /\ console' = "kick"
    /\ UNCHANGED <<tables, paused, finishedExec, messages, mode, main, dying,
                   typed, budget, readyMutexLeaked, esiVars>>
ConsoleLocksMutex ==
    /\ console = "validated" /\ main # "stuck" /\ finishedExec
    /\ console' = "owning"
    /\ UNCHANGED <<tables, paused, finishedExec, messages, pending, mode,
                   main, dying, typed, budget, readyMutexLeaked, esiVars>>
ConsoleExecutes ==
    /\ console = "owning" /\ main = "select"
    /\ ExecuteLocksReadyList(typed) => ~readyMutexLeaked
    /\ \/ /\ ExecuteCrashes(typed)
          /\ Crash
       \/ /\ ~ExecuteCrashes(typed)
          /\ Execute(typed)
          /\ console' = "kick"
          /\ UNCHANGED <<finishedExec, keyRecieved, pending, mode, main,
                 dying, typed, budget, readyMutexLeaked, phase, operation,
                 left, status, info>>

\* executeConsoleInstruccions, one pending command after the other.
AfterDrain == CASE main = "drain"        -> "schedule"
                [] main = "finish_drain" -> "finish_set"
                [] main = "abort_drain"  -> "abort_set"
                [] OTHER -> main
DrainCommand ==
    /\ Draining /\ pending # <<>>
    /\ LocksReadyList(Head(pending)) \/ ExecuteLocksReadyList(Head(pending))
            => ~readyMutexLeaked
    /\ \/ /\ ValidCommand(Head(pending)) /\ ExecuteCrashes(Head(pending))
          /\ Crash
       \/ /\ IF ValidCommand(Head(pending))
             THEN ~ExecuteCrashes(Head(pending)) /\ Execute(Head(pending))
             ELSE Skip
          /\ pending' = Tail(pending)
          /\ readyMutexLeaked' = LeakAfter(Head(pending))
          /\ UNCHANGED <<finishedExec, keyRecieved, mode, main, dying,
                 console, typed, budget, phase, operation, left, status, info>>
DrainEnds ==
    /\ Draining /\ pending = <<>>
    /\ main' = AfterDrain
    /\ UNCHANGED <<tables, paused, finishedExec, messages, pending, mode,
                   dying, consoleVars, esiVars>>

-----------------------------------------------------------------------------
(* The handlers of the select loop.                                        *)

\* welcomeEsi, and the connection that causes it
EsiConnects(e) ==
    /\ main = "select" /\ phase[e] = "absent" /\ ~readyMutexLeaked
    /\ phase' = [phase EXCEPT ![e] = "waiting"]
    /\ \E lines \in 1..MaxLines : left' = [left EXCEPT ![e] = lines]
    /\ ready' = [ready EXCEPT ![e] = @ + 1]
    /\ system' = system \union {e}
    /\ main' = "drain"
    /\ UNCHANGED <<running, finished, queue, dicKeys, allKeys, taken, locked,
                   paused, finishedExec, messages, pending, mode, dying,
                   consoleVars, inbox, operation, status, info>>

\* KEYSTATUSMESSAGE: e's operation waits in the coordinator for the answer.
HandleKeyStatus(e) ==
    /\ main = "select" /\ phase[e] = "asking"
    /\ keyRecieved' = operation[e].key
    /\ status' = [status EXCEPT ![e] = KeyStatus(operation[e].key)]
    /\ phase' = [phase EXCEPT ![e] = "told"]
    /\ main' = "drain"
    /\ UNCHANGED <<tables, paused, finishedExec, globalKey, statusReplies,
                   pending, mode, dying, consoleVars, inbox, operation, left,
                   info>>

\* CORDINADORCONSOLERESPONSEMESSAGE; with no instancia nothing is shown.
HandleStatusResponse ==
    /\ main = "select" /\ statusReplies > 0
    /\ \/ ShowCrashes(globalKey) /\ Crash
       \/ /\ statusReplies' = statusReplies - 1
          /\ main' = "drain"
          /\ UNCHANGED <<tables, paused, finishedExec, keyRecieved, globalKey,
                         pending, mode, dying, consoleVars, esiVars>>

\* ESIINFORMATIONMESSAGE.  recieveEsiInformation reads the socket of the
\* running ESI before anything checks that there is one.  (If there is one, it is
\* e, which has informed: OneIsBusy in PlanificadorProofs.)
Releases(i) ==
    CASE i.esiStatus = "FINISHED" /\ i.response = "LOCK" ->
            LockedPlus(running, keyRecieved)
      [] i.esiStatus = "FINISHED" /\ i.response = "FREE" ->
            FreedAtLeast(running, keyRecieved)
      [] i.esiStatus = "FINISHED" /\ i.response = "SUCCESS" -> locked[running]
      [] i.esiStatus = "NOTFINISHED" /\ i.response = "FREE" -> Once(keyRecieved)
      [] OTHER -> NothingHeld
InformationCrashes(e) ==
    /\ main = "select" /\ info[e] # NoInfo
    /\ \/ running = NoEsi
       \/ /\ running # NoEsi /\ ~readyMutexLeaked
          /\ PopsUnknownId(Releases(info[e]))
    /\ Crash

Receives(e, response) ==
    /\ main = "select" /\ info[e] # NoInfo /\ running # NoEsi
    /\ ~readyMutexLeaked
    /\ info[e].response = response
    /\ ~PopsUnknownId(Releases(info[e]))
    /\ info' = [info EXCEPT ![e] = NoInfo]
    /\ main' = "finish_drain"
    /\ UNCHANGED <<system, paused, finishedExec, messages, pending, mode,
                   dying, consoleVars, phase, inbox, operation, left, status>>

\* handleEsiStatus and finishEsi
Continues(e) == info[e].esiStatus = "NOTFINISHED" /\ UNCHANGED <<finished, running>>
Finishes(e) ==
    /\ info[e].esiStatus = "FINISHED"
    /\ finished' = finished \union {running}
    /\ Release(Releases(info[e]))
    /\ locked' = LocksOf(running, NothingHeld)
    /\ running' = NoEsi

HandleSuccess(e) ==
    /\ Receives(e, "SUCCESS")
    /\ \/ Continues(e) /\ UNCHANGED <<ready, queue, taken, locked>>
       \/ Finishes(e)
    /\ UNCHANGED <<dicKeys, allKeys>>
HandleLockNoQueue(e) ==            \* mistaken variant: no queue is created
    /\ Receives(e, "LOCK")
    /\ allKeys' = allKeys \union {keyRecieved}
    /\ \/ /\ Continues(e)
          /\ taken' = taken \union {keyRecieved}
          /\ locked' = LocksOf(running, LockedPlus(running, keyRecieved))
          /\ UNCHANGED <<ready, queue>>
       \/ Finishes(e)
    /\ UNCHANGED dicKeys
HandleLock(e) ==
    /\ Receives(e, "LOCK")
    /\ dicKeys' = dicKeys \union {keyRecieved}
    /\ allKeys' = allKeys \union {keyRecieved}
    /\ \/ /\ Continues(e)
          /\ taken' = taken \union {keyRecieved}
          /\ locked' = LocksOf(running, LockedPlus(running, keyRecieved))
          /\ UNCHANGED <<ready, queue>>
       \/ Finishes(e)
HandleBlock(e) ==
    /\ Receives(e, "BLOCK")
    /\ BlockRunning(keyRecieved)
    /\ UNCHANGED <<finished, allKeys, taken, locked>>
HandleFree(e) ==
    /\ Receives(e, "FREE")
    /\ \/ /\ Continues(e)
          /\ Release(Releases(info[e]))
          /\ locked' = LocksOf(running, LockedMinus(running, keyRecieved))
       \/ Finishes(e)
    /\ UNCHANGED <<dicKeys, allKeys>>
\* The keys of an aborted ESI stay taken until its disconnection is handled.
HandleAbort(e) ==
    /\ Receives(e, "ABORT")
    /\ running' = NoEsi
    /\ UNCHANGED <<finished, ready, queue, dicKeys, allKeys, taken, locked>>

HandleEsiInformation(e) ==
    \/ HandleSuccess(e) \/ HandleLock(e) \/ HandleBlock(e)
    \/ HandleFree(e) \/ HandleAbort(e)

\* setFinishedExecutingInstruccion(true)
SetFinishedExecuting ==
    /\ main \in {"finish_set", "abort_set"} /\ MutexFinishedIsFree
    /\ finishedExec' = TRUE
    /\ main' = IF main = "finish_set" THEN "drain" ELSE "abort_end"
    /\ UNCHANGED <<tables, paused, messages, pending, mode, dying,
                   consoleVars, esiVars>>

\* The connection of a dead ESI is closed: abortEsi.  Its keys are freed
\* first; what happens next depends on where the ESI is by then.
Disconnects(e) ==
    /\ main = "select" /\ phase[e] = "exited" /\ info[e] = NoInfo
    /\ ~readyMutexLeaked
IsInReadyAfterFreeing(e) == ReadyAfter(locked[e])[e] > 0
FreesAllButTaken(e) ==             \* mistaken variant: the keys stay taken
    /\ ~PopsUnknownId(locked[e])
    /\ phase' = [phase EXCEPT ![e] = "gone"]
    /\ locked' = LocksOf(e, NothingHeld)
    /\ UNCHANGED <<finished, dicKeys, allKeys, taken, paused, finishedExec,
                   messages, pending, mode, consoleVars, inbox, operation,
                   left, status, info>>
FreesAll(e) ==
    /\ ~PopsUnknownId(locked[e])
    /\ phase' = [phase EXCEPT ![e] = "gone"]
    /\ locked' = LocksOf(e, NothingHeld)
    /\ taken' = TakenAfter(locked[e])
    /\ UNCHANGED <<finished, dicKeys, allKeys, paused, finishedExec, messages,
                   pending, mode, consoleVars, inbox, operation, left, status,
                   info>>
RemoveFromSystem(e) == system' = IF e \in finished THEN system ELSE system \ {e}

\* deleteEsiFromSystem destroys a ready ESI that it and abortEsi go on using
\* and destroy again: the heap detects it, or all goes on with an id that
\* matches nothing in the queues.
DisconnectReadyCrashes(e) ==
    /\ Disconnects(e)
    /\ PopsUnknownId(locked[e]) \/ IsInReadyAfterFreeing(e)
    /\ Crash
DisconnectReady(e) ==
    /\ Disconnects(e) /\ IsInReadyAfterFreeing(e) /\ running # e
    /\ FreesAll(e)
    /\ ready' = [ReadyAfter(locked[e]) EXCEPT ![e] = @ - 1]
    /\ queue' = QueueAfter(locked[e])
    /\ RemoveFromSystem(e)
    /\ main' = "schedule"
    /\ UNCHANGED <<running, dying>>
DisconnectRunningUnset(e) ==       \* mistaken variant: the flag is left as is
    /\ Disconnects(e) /\ ~IsInReadyAfterFreeing(e) /\ running = e
    /\ FreesAll(e)
    /\ ready' = ReadyAfter(locked[e])
    /\ queue' = QueueAfter(locked[e])
    /\ main' = "abort_end" /\ dying' = e
    /\ UNCHANGED <<system, running>>
DisconnectRunning(e) ==
    /\ Disconnects(e) /\ ~IsInReadyAfterFreeing(e) /\ running = e
    /\ FreesAll(e)
    /\ ready' = ReadyAfter(locked[e])
    /\ queue' = QueueAfter(locked[e])
    /\ main' = "abort_drain" /\ dying' = e
    /\ UNCHANGED <<system, running>>
DisconnectOther(e) ==
    /\ Disconnects(e) /\ ~IsInReadyAfterFreeing(e) /\ running # e
    /\ FreesAll(e)
    /\ ready' = ReadyAfter(locked[e])
    /\ queue' = SweepQueues(QueueAfter(locked[e]), e)
    /\ RemoveFromSystem(e)
    /\ main' = "schedule"
    /\ UNCHANGED <<running, dying>>
\* ... the rest for a running ESI: runningEsi = NULL comes after the drain
\* and after finishedExecutingInstruccion is set.
AbortEnds ==
    /\ main = "abort_end"
    /\ running' = NoEsi
    /\ queue' = SweepQueues(queue, dying)
    /\ RemoveFromSystem(dying)
    /\ main' = "schedule" /\ dying' = NoEsi
    /\ UNCHANGED <<ready, finished, dicKeys, allKeys, taken, locked, paused,
                   finishedExec, messages, pending, mode, consoleVars, esiVars>>

\* A thread waits for ever for mutexReadyList: the select loop in a handler, or
\* for executionSemaphore, which a console that waits there keeps; or in
\* executeInstruccion, with mutexFinishedExecutingInstruccion.  One that drains
\* stays there, with mutexInstruccionsByConsole.
WantsReadyList ==
    \/ main = "select" /\ \E e \in Esis :
          \/ phase[e] = "absent"
          \/ info[e] # NoInfo /\ running # NoEsi
          \/ phase[e] = "exited" /\ info[e] = NoInfo
    \/ main = "select" /\ console = "owning" /\ ExecuteLocksReadyList(typed)
    \/ main = "schedule" /\ MutexFinishedIsFree /\ ReadsReadyList
MainSticks ==
    /\ readyMutexLeaked /\ WantsReadyList
    /\ main' = IF main = "schedule" THEN "stuck" ELSE "blocked"
    /\ UNCHANGED <<tables, paused, finishedExec, messages, pending, mode,
                   dying, consoleVars, esiVars>>
ConsoleSticks ==
    /\ console = "kick" /\ main # "stuck" /\ BlocksOnReadyList
    /\ console' = "stuck"
    /\ UNCHANGED <<tables, paused, finishedExec, messages, pending, mode,
                   main, dying, typed, budget, readyMutexLeaked, esiVars>>
\* The next ESI is chosen in a list that holds freed ones.
ScheduleCrashes ==
    /\ ReadsFreedEsi
    /\ (main = "schedule" /\ MutexFinishedIsFree) \/ (console = "kick" /\ main # "stuck")
    /\ Crash

-----------------------------------------------------------------------------
(* The ESI processes (esi.c waitPlanificadorOrders, tryToExecute) and the  *)
(* coordinator's answers.                                                  *)

planificadorUnchanged == UNCHANGED <<tables, paused, finishedExec, messages,
    pending, mode, main, dying, consoleVars>>

\* A line of a correct script uses SET and STORE on keys the ESI holds.
Sensible(e, o) == Failures \/ o.code = "GET" \/ locked[e][o.key] > 0

\* RUN: the line at esiPC, the same as before if it did not advance, is sent.
EsiRunsLine(e) ==
    /\ phase[e] = "waiting" /\ inbox[e] # <<>> /\ Head(inbox[e]) = "RUN"
    /\ inbox' = [inbox EXCEPT ![e] = Tail(@)]
    /\ phase' = [phase EXCEPT ![e] = "asking"]
    /\ IF operation[e] = NoOperation
       THEN \E o \in Operations : /\ Sensible(e, o)
                                  /\ operation' = [operation EXCEPT ![e] = o]
       ELSE UNCHANGED operation
    /\ UNCHANGED <<left, status, info>>
    /\ planificadorUnchanged
\* A line the parser rejects ends the ESI before it sends anything.
EsiRejectsLine(e) ==
    /\ Failures
    /\ phase[e] = "waiting" /\ inbox[e] # <<>> /\ Head(inbox[e]) = "RUN"
    /\ operation[e] = NoOperation
    /\ inbox' = [inbox EXCEPT ![e] = <<>>]
    /\ phase' = [phase EXCEPT ![e] = "exited"]
    /\ UNCHANGED <<operation, left, status, info>>
    /\ planificadorUnchanged
EsiIsKilled(e) ==
    /\ phase[e] = "waiting" /\ inbox[e] # <<>> /\ Head(inbox[e]) = "KILLESI"
    /\ inbox' = [inbox EXCEPT ![e] = <<>>]
    /\ phase' = [phase EXCEPT ![e] = "exited"]
    /\ UNCHANGED <<operation, left, status, info>>
    /\ planificadorUnchanged

\* What the coordinator may answer: an instancia that fell or that cannot do
\* the operation aborts the ESI, whatever the status of the key was.
CoordinadorResponses(code, keyStatus) ==
    CASE code = "GET" /\ keyStatus = "BLOCKED"    -> {"BLOCK"}
      [] code = "GET" /\ keyStatus = "LOCKED"     -> {"SUCCESS", "ABORT"}
      [] code = "GET" /\ keyStatus = "NOTBLOCKED" -> {"LOCK", "ABORT"}
      [] code = "SET" /\ keyStatus = "LOCKED"     -> {"SUCCESS", "ABORT"}
      [] code = "STORE" /\ keyStatus = "LOCKED"   -> {"FREE", "ABORT"}
      [] OTHER -> {"ABORT"}

\* The answer reaches the ESI, which advances or not and informs the
\* scheduler; after an ABORT, or after its last line, it exits.
EsiAnswers(e) ==
    /\ phase[e] = "told"
    /\ \E r \in CoordinadorResponses(operation[e].code, status[e]) :
          /\ r = "ABORT" => Failures
          /\ LET rest == IF Advances(r) THEN left[e] - 1 ELSE left[e]
                 exits == r = "ABORT" \/ rest = 0
             IN  /\ left' = [left EXCEPT ![e] = rest]
                 /\ info' = [info EXCEPT ![e] = [response |-> r,
                        esiStatus |-> IF rest = 0 THEN "FINISHED"
                                                  ELSE "NOTFINISHED"]]
                 /\ operation' = [operation EXCEPT ![e] =
                        IF Advances(r) THEN NoOperation ELSE @]
                 /\ phase' = [phase EXCEPT ![e] =
                        IF exits THEN "exited" ELSE "waiting"]
                 /\ inbox' = [inbox EXCEPT ![e] = IF exits THEN <<>> ELSE @]
    /\ UNCHANGED status
    /\ planificadorUnchanged

-----------------------------------------------------------------------------
SelectLoop ==
    \/ \E e \in Esis :
          \/ HandleKeyStatus(e) \/ HandleEsiInformation(e)
          \/ InformationCrashes(e)
          \/ DisconnectReadyCrashes(e) \/ DisconnectReady(e)
          \/ DisconnectRunning(e) \/ DisconnectOther(e)
    \/ HandleStatusResponse
    \/ DrainCommand \/ DrainEnds \/ SetFinishedExecuting \/ AbortEnds
    \/ MainSchedules \/ MainSticks \/ ScheduleCrashes
Console ==
    \/ ConsoleQueuesCommand \/ ConsoleLocksMutex \/ ConsoleExecutes
    \/ ConsoleKicks \/ ConsoleSticks
EsiStep(e) ==
    EsiRunsLine(e) \/ EsiRejectsLine(e) \/ EsiIsKilled(e) \/ EsiAnswers(e)
Arrivals == \E e \in Esis : EsiConnects(e)
Typing   == \E c \in Commands : ConsoleReads(c)

Next == mode = "up" /\ (\/ SelectLoop \/ Console \/ Arrivals \/ Typing
                        \/ \E e \in Esis : EsiStep(e))

\* The threads run and the ESIs read their sockets; nothing obliges an ESI
\* to connect or the operator to type.
Fairness ==
    /\ WF_vars(mode = "up" /\ SelectLoop)
    /\ WF_vars(mode = "up" /\ Console)
    /\ \A e \in Esis : WF_vars(mode = "up" /\ EsiStep(e))

Spec == Init /\ [][Next]_vars
FairSpec == Spec /\ Fairness

-----------------------------------------------------------------------------
(* Properties.                                                             *)

\* An order to run a line is under way until the scheduler has handled what
\* came of it: the order, the operation or its outcome.
InFlight(e) ==
    \/ Alive(e) /\ (phase[e] \in {"asking", "told"} \/ Contains(inbox[e], "RUN"))
    \/ info[e] # NoInfo

\* Two ESIs never hold the same key: of those that ask for it, at most one is
\* answered NOTBLOCKED before lockKey takes it.  (The operator's desbloquear
\* takes a key from its holder's feet, so the runs that check it leave it out.
\* It rests on AtMostOneOperation, and so does its theorem on what that one needs
\* of SJF-CD; it is checked under SJF-CD with nothing typed.)
MutualExclusion ==
    \A e, f \in Esis, k \in Keys :
        locked[e][k] > 0 /\ locked[f][k] > 0 => e = f

\* The two records of a lock agree through locks, frees, finishes, aborts and
\* disconnections: what an ESI lists is taken, and what is taken is listed by
\* an ESI still in the system or comes from the configuration.  A taken key
\* nobody lists would block its waiters for ever.
LockTablesAgree ==
    /\ \A e \in Esis, k \in Keys : locked[e][k] > 0 => k \in taken
    /\ \A k \in taken \ ConfigKeys :
          \E e \in system \ finished : locked[e][k] > 0

\* An ESI that is alive is in exactly one of the ready list, the running slot
\* and the queues of blocked ids, and a finished one in none: the moves
\* between them (moveEsiToRunning, blockEsi, unlockEsi, finishEsi) lose no ESI
\* and duplicate none.
BlockedAt(e) == {p \in UNION {{k} \X (1..Len(queue[k])) : k \in Keys} :
                    queue[p[1]][p[2]] = e}
Places(e) ==
    ready[e] + (IF running = e THEN 1 ELSE 0) + Cardinality(BlockedAt(e))
OnePlace ==
    \A e \in system : /\ Alive(e) => Places(e) = 1
                      /\ e \in finished => Places(e) = 0

\* The operation under way is that of the running ESI.  The handler of its
\* outcome applies it to runningEsi without looking at who sent it.  (Of a
\* system where nobody types bloquear: one left pending is carried out when the
\* select loop is done with whatever comes next, the arrival of an ESI say, and
\* takes the running ESI off the CPU with its operation still on its way.)
OperationIsOfRunning == \A e \in Esis : InFlight(e) => running = e

\* At most one operation is under way in the whole system, and while it is
\* finishedExecutingInstruccion is false, whatever the operator types and
\* whoever dies.  (Under SJF-CD it is not so: executeInstruccion, called by the
\* console while the select loop aborts the running ESI, may dislodge it, and
\* the abort then sets the flag while the next ESI runs.  That takes all of
\* pausar, kill and continuar: the theorem is for SJF-CD too if one of them is not
\* typed, and the run that checks it for the algorithms that do not preempt.)
AtMostOneOperation ==
    /\ \A e, f \in Esis : InFlight(e) /\ InFlight(f) => e = f
    /\ \A e \in Esis : InFlight(e) => ~finishedExec

\* A key that is free and waited for has an ESI on its way to try it again
\* (the one unlockEsi woke), or the news that it has locked it: otherwise the
\* others would wait for ever.  It is so until an ESI dies before its end: the
\* one that was woken may.
Retries(e, k) ==
    \/ Alive(e) /\ operation[e].key = k /\ (ready[e] > 0 \/ running = e)
    \/ info[e].response = "LOCK" /\ keyRecieved = k
SomebodyDied == \E e \in Esis : phase[e] \in {"exited", "gone"} /\ left[e] > 0
FreeKeyHasRetrier ==
    ~SomebodyDied =>
        \A k \in Keys \ taken : queue[k] # <<>> => \E e \in system : Retries(e, k)

\* A permission on its way from sendKeyStatusToCoordinador to the ESI is still
\* true when it is used, although other ESIs may die and be aborted meanwhile:
\* a free key is still free and a key of the ESI is still its own.
GrantIsFresh ==
    \A e \in Esis : phase[e] = "told" /\ status[e] # "BLOCKED"
        => KeyStatus(operation[e].key) = status[e]

\* dictionary_get never answers NULL where the code uses the queue at once:
\* for the keys an ESI frees and for those deleteEsiFromSystem sweeps.
QueuesExist ==
    /\ allKeys \subseteq dicKeys
    /\ \A e \in Esis, k \in Keys : locked[e][k] > 0 => k \in dicKeys
    /\ \A e \in Esis : info[e].response = "FREE" => keyRecieved \in dicKeys
    /\ \A k \in Keys \ dicKeys : queue[k] = <<>>

\* Whenever both threads rest and the scheduler is not paused, there is
\* nothing it could have run: every event and every command that makes an ESI
\* runnable is followed by executeInstruccion.
NothingIdles ==
    mode = "up" /\ main = "select" /\ console = "prompt" /\ ~paused /\ finishedExec
        => running = NoEsi /\ ReadyIsEmpty

\* The scheduler never waits for ever for an instruction: a dead ESI counts as
\* one that has finished its instruction (deleteEsiFromSystem).  The log of the
\* order to run (planificador.c:633) says "Waiting coordinador request": the
\* wait ends.  It holds while the operator types nothing; a kill breaks it.
OperationEnds == ~finishedExec ~> finishedExec

\* With one key, every ESI that enters the system finishes, unless one dies
\* before it has: nobody is left in a queue or in ready.
EveryEsiFinishes ==
    \A e \in Esis : e \in system ~> e \in finished \/ SomebodyDied

\* Through its lists, handlers and the deaths of ESIs the planificador is the
\* lock service of KeyLocks: a key is given only when nobody has it and the
\* configuration does not keep it, to one who waits for none; keys given back
\* wake one waiter each; and nothing else changes who holds or awaits a key.
\* (Of a system where nobody types desbloquear.)
Locks == INSTANCE KeyLocks WITH
    Reserved <- ConfigKeys,
    holders  <- [k \in Keys |-> {e \in Esis : locked[e][k] > 0}],
    waiting  <- [k \in Keys |-> Range(queue[k])]
ImplementsKeyLocks == Locks!Spec

-----------------------------------------------------------------------------
(* What comments and messages of the program say and the program does not do. *)

\* esi.c:187 "Error response: try to execute same line when planificador says":
\* an ESI blocked on a key is told to try again once the key is free.
WaitersAreWoken ==
    \A k \in Keys : k \notin taken /\ queue[k] # <<>>
                        ~> k \in taken \/ queue[k] = <<>>

\* console.c:14 "1.Pausar 2.Continuar ...": the commands of the menu are
\* carried out or kept, and the console reads the next one.
ConsoleAnswers == console = "validated" ~> console = "prompt"
=============================================================================
