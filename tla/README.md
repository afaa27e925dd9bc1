# A verification of reDistinto

reDistinto runs scripts (*ESIs*) that GET, SET and STORE keys of a distributed
store. This directory holds TLA+ models of its processes, the TLC runs that check
them, and proofs checked by TLAPS. Paths are relative to the repository root; the
models are translated from the C code, line by line in the `map` of
`PROJECT.json`.

## 1. The system

| Process | Source | State it keeps | Operations |
|---|---|---|---|
| **planificador** (scheduler) | `src/planificador/src/planificador.c`, `tad_esi/`, `planif_algorithm/` | `allSystemEsis`, `readyEsis`, `runningEsi`, `finishedEsis`, `blockedEsiDic` (a queue of ids per key), `allSystemKeys`, `allSystemTakenKeys`, `lockedKeys` of each ESI, `pauseState`, `finishedExecutingInstruccion`, `keyRecieved` | a `select` loop: an ESI arrives, a key status is asked for, an ESI reports an outcome, an ESI disconnects, a status answer arrives; after each, pending console commands and `executeInstruccion` |
| **console** (a thread of the planificador) | `src/planificador/src/console/console.c` | `instruccionsByConsoleList` | pausar, continuar, bloquear, desbloquear, listar, kill, status, deadlock, exit |
| **esi** | `src/esi/src/esi.c` | the script and `esiPC` | RUN, KILLESI |
| **coordinador** | `src/coordinador/src/coordinador.c`, `submodules/instancia/` | the list of instancias with `storedKeys`, `spaceUsed`, `isFallen`, `actualCommand`; the response cells and semaphores | one thread per ESI, per instancia and for the planificador; `doGet`, `doSet`, `doStore`, distribution algorithms, compaction, status |
| **instancia** (storage) | `src/instancia/src/` | `entryTable`, `biMap`, `storage`, `currentReference`, files | SET (with replacement and compaction), STORE, compaction order, dump thread, recovery from files |
| **our-commons** | `src/our-commons/our-commons/` | none | message layout, `send_all`/`recv_all`, sockets |

How they interact: the planificador orders one ESI at a time to run a line (and
posts its id to the coordinador); the ESI sends the line's operation to the
coordinador, which asks the planificador for the status of the key, acts on an
instancia if it has to, and answers the ESI; the ESI reports the outcome to the
planificador, which updates its tables and schedules again. The two threads of
the planificador share its tables under `executionSemaphore`,
`mutexFinishedExecutingInstruccion`, `mutexReadyList` and others. The two threads
of an instancia share its memory under `dumpMutex`.

What is hard, by part:

* planificador: events of ESIs that die, abort or are killed at any point of an
  operation; two threads with several locks, taken in different orders; a console
  whose commands act now or after the instruction; wake-ups; two records of every
  lock (`allSystemTakenKeys` and `lockedKeys`).
  *Right when* a key has one holder, no ESI is lost or duplicated between the
  lists, one operation is under way at a time and its outcome goes to its sender,
  what waits is woken, and both threads go on.
* instancia: table, bitmap and storage are updated apart; a SET may evict, ask for
  a compaction and be tried again; the process may die while it rewrites a file.
  *Right when* the three agree, values survive compaction, a stored value stays in
  its file, and every SET ends.
* coordinador: four kinds of threads, two mutexes and five semaphores, posts left
  over from a failure, an instancia that falls at any point.
  *Right when* every ESI is answered, with the outcome of its own operation, and
  what is recorded of an instancia can be relied on.

`PROJECT.json` lists every component with its status and every hazard at its
line.

## 2. Modules

| Module | What it is |
|---|---|
| `KeyLocks` | what the planificador promises about keys: who holds and who awaits each |
| `Planificador` | the planificador's two threads, the ESIs, and the coordinador reduced to the answer it computes from a key status; implements `KeyLocks` |
| `PlanificadorDeaths` | `Planificador` with ESIs that die in the middle of a line |
| `Deadlock` | the `deadlock` command, run in the states of `KeyLocks` |
| `Distribution` | the coordinador's list of instancias and the algorithms EL, LSU and KE |
| `DistributionCalls` | `Distribution` by itself: choices and simulations in any order |
| `Coordinador` | the coordinador's threads, mutexes and semaphores; extends `Distribution` |
| `Storage` | one instancia's two threads, and what the coordinador records of it |
| `MCPlanificador`, `MCPlanificadorDeaths`, `MCDeadlock`, `MCDistribution`, `MCCoordinador`, `MCStorage` | values of constants and symmetry for TLC |
| `PlanificadorProofs` | theorems: types; one operation at a time; mutual exclusion and agreement of the lock records |
| `PlanificadorPlaces` | no ESI is lost or duplicated; the refinement of `KeyLocks` |
| `PlanificadorGrants` | what holds between two handlers: permissions, queues, wake-ups, nothing idle; and what of all this outlives deaths in the middle of a line |
| `DeadlockProofs` | a deadlock lasts; the `deadlock` command reports exactly the deadlocked ESIs |
| `DistributionLists` | lemmas about the list of instancias and the algorithms |
| `DistributionProofs` | types, turns, indexes and predictions of the distribution |
| `CoordinadorProofs` | types; a key is recorded in one instancia; outcomes, compactions and records of keys |
| `StorageProofs` | types; table, bitmap, values, retries, space reported and files of an instancia |

A definition whose comment says *mistaken variant* is a plausible slip in the code
beside which it stands. No specification uses it: it is there to show that a property
would notice the slip (`mutants` in `PROJECT.json`).

### KeyLocks and Planificador

*What is promised.* `KeyLocks` has two variables, `holders` and `waiting`, and four
operations: an ESI that waits for nothing may `Acquire` a key that is free and not
kept by the configuration, may `Wait` for a key, may `Release` keys that nobody else
holds, and may `Leave` at any time, giving back all it has. Keys given back wake one
waiter each. `Locks` in `Planificador` maps `lockedKeys` to `holders` and
`blockedEsiDic` to `waiting`.

*State.* Each list of the program is the simplest thing that tells apart what the
code tells apart: `readyEsis` is a bag (its order is decided by the scheduling
algorithm, see below), `blockedEsiDic` a sequence per key with `dicKeys` for the
keys that have one, `lockedKeys` a bag per ESI, `finishedEsis`, `allSystemEsis`
and the key lists are sets. ESIs and keys are model values.

*Atomicity.* The select loop holds `executionSemaphore` through a handler, and
the console takes it for an immediate command, so a handler is one action up to
the points where it meets a lock or the list the console writes without it:
the drain of pending commands (`drain`, `finish_drain`, `abort_drain`, one action
per command), the change of `finishedExecutingInstruccion` (`finish_set`,
`abort_set`), the rest of an abort (`abort_end`) and `executeInstruccion`
(`schedule`). The console thread validates a command with no lock
(`validated`), takes `mutexFinishedExecutingInstruccion` (`owning`), and calls
`executeInstruccion` after it (`kick`). Reads and writes inside one handler that
race with `validCommand` alone are those of word-sized variables.

*Actions.* `HandleKeyStatus`, `HandleEsiInformation` (one disjunct per
coordinador response), `EsiConnects`, `HandleStatusResponse` and `Disconnect*`
are the handlers of `clientMessageHandler` and `handleConcurrence`;
`ExecuteInstruccion` is `executeInstruccion` with its cases; `ConsoleReads`,
`ConsoleQueuesCommand`, `ConsoleLocksMutex`, `ConsoleExecutes`, `ConsoleKicks` are
`openConsole`; `Execute` is `execute`; `EsiRunsLine`, `EsiRejectsLine`,
`EsiIsKilled`, `EsiAnswers` are `waitPlanificadorOrders` and `tryToExecute`.
Where the code dereferences a NULL or a freed ESI, the model crashes
(`mode = "crashed"`). A thread that waits for ever for `mutexReadyList` is `"stuck"`
with the mutex of `executeInstruccion`, `"blocked"` in a handler of the select loop, or
stays in a drain: what the other one can still do depends on which locks it has.
The outcome is read from the socket of `runningEsi`, whoever sent it; `Receives` takes the
sender's, as they are the same or nobody is running (`OneIsBusy`, proved for every set
of commands on the assumption of *Safe aborts*, section 4).

*Abstractions.* The estimations (SJF, HRRN) decide only who is first, so any ready
ESI may be chosen and, under SJF-CD, any may displace the running one: what is
shown holds for every estimation. Scripts are not fixed: each line is chosen when
it is first run and kept while it is retried. With `Failures = FALSE` scripts use
SET and STORE only on keys they hold. Keys differ ignoring case
(`planificador.c:109` compares so). `so-commons` lists, dictionaries and queues
are modelled from their use; `list_iterate` reads the next element before it
calls its function.

*Deaths.* In `Planificador` an ESI ends by its last line, a line the parser rejects, an
ABORT or a KILLESI. `PlanificadorDeaths` adds an ESI whose process is killed from outside
while its line is with the coordinador (`EsiDiesInLine`). The scheduler aborts it and
orders the next one, but its thread in the coordinador goes on and, if it had not yet
asked for its key, asks when it gets `esisMutex` (`HandleLateKeyStatus`): between the
question and the outcome of the next ESI's line, for instance, when the thread of that
one has answered and released the mutex. The handler overwrites `keyRecieved`, and the
outcome is applied to the wrong key.

### Deadlock

`asignationMatrix` and `totalDeadlockEsis` are `executeDeadlockAlgorithm`
(`console.c:214`). Its scan of a row replaces the row while the loop over the columns
goes on, so that it may make several steps of the walk at once and pass over others:
`Scan` is that loop. The printed groups are therefore not the cycles (of a cycle of
three ESIs it prints the first and the last, then the rest), but the set of all ESIs
reported is right (`ReportIsRight`). The states are those of `KeyLocks`, hence of
`Planificador`, with `allSystemEsis` in order of arrival. An ESI that the operator
blocks by hand may wait twice; such states are left out.

### Distribution and Coordinador

`Distribution` has the list, `isFallen`, `spaceUsed`, and the two globals of
equitative load. `NextInstancia` is the search of `getNextInstancia`, whose condition
(`instanciaIsNextToActual`) changes `firstAlreadyPass` in the middle of it;
`KeyExplicitIndex` is the division of `keyExplicit`, which rounds towards zero as C
does. All of it runs under `instanciasListMutex`, so a choice is one step.
`DistributionCalls` takes the simulation of equitative load apart
(`equitativeLoadSimulation`): `SavesTurn` copies the two globals, `SimulatesSearch` is
`getNextInstancia` on the globals themselves, `PointerIsBack` and `FlagIsBack` put them
back, the second after `lastInstanciaChosenMutex` is free. Only `instanciasListMutex`
(`ListMutexIsFree`) keeps the others out meanwhile. A prediction is remembered until
something happens that may change the choice: a SET, an arrival, a space the algorithm
looks at, or, in key explicit only, the fall of another instancia.

`Coordinador` follows a line from the ESI's request to its response. The thread of an
ESI holds `esisMutex` from `EsiLocksMutex` on: it takes an id (`EsiAsksStatus`), the
status of its key (`EsiActs`: `doGet`, `doSet`, `doStore` up to the order to an
instancia) and the response (`EsiGetsResponse`). The thread of an instancia is
`InstanciaArrives` to `InstanciaExits`, one action per message; that of the
planificador is `PlanReads*`, `RespondStatusAtOnce`, `AskValue`, `GetValue`. Where a
thread holds `instanciasListMutex` without waiting, the section is part of its step;
where it waits, `instanciasListMutex` names it. Semaphores are counters, the globals
they guard are the cells beside them.

An ESI may die before its thread has taken its line (`EsiExits`) or at any point of it
(`EsiDies`). The thread goes on without it, and the planificador frees its keys and
orders another. `sendKeyStatusToCoordinador` compares the key with those of
`runningEsi`, whoever asks (`StatusIn`): if the next one ordered is the holder of the key,
the dead ESI's line is judged as the holder's and carried out on a key it does not hold,
although `coordinador.c:394` says "Key not blocked by him" of such a line. It may make the
coordinador forget the key; `SetKeysAreKnown` therefore says nothing of a key whose line
was that of an ESI that died.

*Abstractions.* The planificador is its promise: one ESI at a time is ordered, and the
status of a key is what `holder` says of the one ordered. The response is sent and `esisMutex` released in
one step although the code sleeps in between (`usleep(delay)`): whoever waits for the
mutex meanwhile waits in both. A send to an instancia that has died may fail or
succeed, as TCP does. The value of a key is not followed here (`Storage` does).

### Storage

*State.* `table` is `entryTable` in its order, `biMap` and `storage` are indexed
by entry, `recency` orders keys as `lastReference` does, `files` is what `PATH`
holds. Values are model values of given lengths; an entry holds a *piece*
`<<value, index>>`, so that a value is read back correctly exactly when its
pieces are in order. `storedKeys`, `spaceUsed` and `connection` are the
coordinador's record. `lastSet` and `lastStored` are history. The replacement
algorithm is read from the configuration when the process starts.

*Actions.* `RequestSet` to `Ends` are `handleOperationRequest` and `set`, cut at
each eviction and at the compaction; `StoreOpens`/`StoreWrites` and
`DumpOpens`/`DumpWrites` are the two halves of `storeKeyAndValue`; `BringsBack`
is `getKeyByFile`; `Fall`, `NoticesFall`, `ComesBack` are the death of the process,
`instanciaExitGracefully` and `instanciaIsBack`. Both threads hold `dumpMutex`
while they work, hence one `job`.

*Abstractions.* The lengths in bytes matter only through the entries they take and
through `atomicEntry`. BSU breaks ties as `list_sort` happens to: any of the
largest. An instancia comes back only after its old thread has ended. With `DiskFails`,
`fopen` and `open` may fail on any file, and what `fprintf` writes is all in the file or
not at all (a full disk, which nobody notices); a file cut within a value, which takes one
longer than a block of the disk, is left out.

## 3. Runs

| Run | Instance | Shows |
|---|---|---|
| `PlanificadorFailures` | 3 ESIs, 3 keys (one locked by configuration), failures, 1 death in the middle of a line, nothing typed | `OnePlace`, `OperationIsOfRunning`, `LocksSurviveDeaths` |
| `PlanificadorOperator` | 2 ESIs, 1 key, failures, no preemption, 2 commands of all eight | `TypeOK`, `QueuesExist`, `AtMostOneOperation`, `NothingIdles` |
| `PlanificadorFinishes` | 3 ESIs, 1 key, failures, SJF-CD, fair, nothing typed | `FreeKeyHasRetrier`, `MutualExclusion`, `LockTablesAgree`, `GrantIsFresh`, `ImplementsKeyLocks`, `EveryEsiFinishes`, `OperationEnds` |
| `Deadlock` | 4 ESIs, 4 keys, every order of arrival | `ReportIsRight`, `DeadlockLasts` |
| `Distribution` | 4 instancias, 4 keys (two letters, one character below them and one above), EL, LSU, KE | `TypeOK`, `RoundRobin`, `SomebodyIsNext`, `IndexIsInList`, `SimulationPredicts` |
| `Coordinador` | 2 ESIs, 1 key, 2 instancias, 3 lines, 2 events (at most 1 status command; deaths of ESIs or instancias), fair | `TypeOK`, `KeyInOneInstancia`, `OutcomeIsOwnIfSent`, `CompactPostsAreAwaited`, `SetKeysAreKnown`, `EveryoneIsAnswered` |
| `StorageRecovery` | 3 keys, 3 entries, values of 1 and 2 entries, falls, disk failures, CIRC, LRU, BSU | `TypeOK`, `StoreIsKept`, `BitmapIsTable`, `ValuesIntact`, `RetryFits`, `SpaceNeverUnderstated` |
| `StorageSetEnds` | 2 keys, 3 entries, values of 1, 2 and too many entries, falls, disk failures, CIRC, LRU, BSU, fair | `SetEnds` |

and four runs in which TLC finds that the code does not do what a comment or a
message of it says:

| Run | What happens |
|---|---|
| `PlanificadorAbortRace` | the console calls `executeInstruccion` between the two assignments with which the select loop aborts the running ESI: the dead ESI is ordered to run and nothing is scheduled any more |
| `PlanificadorLostWakeup` | the one ESI woken when a key is freed is aborted and disconnects before it locks it; the others wait for ever for a free key |
| `PlanificadorConsole` | console and select loop wait for each other's lock |
| `CoordinadorStatus` | the thread that reads what the planificador sends waits for `esisMutex`, which an ESI's thread holds while it waits for what comes behind in the same socket |

Three more disagreements are in the models and have no run of their own. Refusing a
`bloquear` while other ESIs are ready leaves `mutexReadyList` locked (`console.c:519`),
and the next thread that reads the list stops (`MainSticks`, `ConsoleSticks`). A file
left empty by a fall kills the instancia each time it comes back (`MapsEmptyFile`,
`instancia.c:768`). The late question of a dead ESI's line (see `PlanificadorDeaths`) gives
one key two holders or uses a queue that does not exist: without `~crossed`,
`LocksSurviveDeaths` is violated with three ESIs and two keys.

*Bounds.* Two ESIs and one key give every pair of events on one key; three ESIs
are needed for a queue that is longer than one, for a waiter beside a woken
one, and for a late question to give a key two holders (one asked late, one holds the
key, one has its outcome misapplied); two keys for an ESI that waits holding another. Two lines are a GET and a use or a STORE. Two commands let one act
while the other is pending or between the decision and the effect of the first.
More commands do find more (three are needed to see two operations under way with
SJF-CD, see below), so the properties that depend on what the operator types are
proved as well (section 4). In `Deadlock`, four ESIs and keys give two cycles at a time,
and cycles with tails. In `Coordinador`, three lines are a GET, a SET and what another
operation makes of what the SET left, so that a post left over has a next operation to
meet; two deaths let an instancia fall and fall again when it is back, both fall, or an ESI
die and the instancia of its key fall;
one status command, as two are served one after the other. The safety properties were also
checked, outside the runs, with three ESIs or with five lines or with three events. Its `MaxSpace` is 0 and it
has one key because which instancia is chosen matters only in `Distribution`. Three
entries with values of one and two entries give fragmentation, eviction of several
values for one, compaction and the failure of each; `StorageSetEnds` adds a value that
no storage has room for, the one for which a search could go on for ever. Symmetry (permutations of
ESIs, keys and instancias, where none is named by the configuration) is used where only
safety is checked.

*Deadlock.* In `Planificador` everything stops when every script has ended, when
scripts block each other, or after a crash, so deadlock is not checked; that it
does not stop otherwise is `NothingIdles`, `OperationEnds` and
`EveryEsiFinishes`. `Coordinador` stops when the bounds are used up, and what it owes
then is `EveryoneIsAnswered`. The others are checked for deadlock.

*Fairness.* Weak fairness of the select loop, of the console thread and of each
ESI: they are threads and processes that the system schedules, reading sockets
that deliver. Nothing obliges an ESI to arrive or the operator to type. In
`Coordinador`, weak fairness of the ESIs' threads, of the instancias' threads, of the
instancias and of the planificador's thread, of each kind as a whole, which is less
than the system gives; in `Storage` only of the main thread's work on a SET. Weak fairness
does not help against `PlanificadorConsole` and `CoordinadorStatus`, which are real
deadlocks. `EveryEsiFinishes` is checked with one key (with two, scripts may deadlock)
and says nothing once an ESI has died (see `PlanificadorLostWakeup`).

*Who is not answered.* `EveryoneIsAnswered` names the only four ways in which the
coordinador leaves somebody waiting, each of which TLC reaches: the deadlock of a status
request, either by `esisMutex` or by the mutex that `getValueFromKey` keeps when its
send fails (`StatusDeadlock`); and an operation, a compaction or a status request given
to an instancia that died while it brought its keys back, whose record says that it is
alive though nobody serves it (`OrphanedOperation`, `OrphanedCompaction`,
`OrphanedStatus`). Each of them is a state in which nobody is left to post what is waited for,
and the property asks that it lasts: whoever is never answered is so in a system that is
in one of them from some moment on. There is a rarer form of `OrphanedOperation`: a post left over lets two
operations be under way; if both instancias then ask for a compaction, each replaces the
other's command and waits for the other (`instanciaFunctions.c:177`, `:191`). TLC reaches it
with three ESIs, two keys and six lines. A post of `instanciaResponse` is left over in one way only: an
operation that could not be sent is answered at once, and the thread of the instancia
posts for it when it notices the fall (`coordinador.c:420`); hence `sendFailed` in
`OutcomeIsOwnIfSent`.

*What preemption breaks.* The race of `PlanificadorAbortRace` has a second form with
SJF-CD: the console's `executeInstruccion` dislodges the dead ESI, orders another
one, and the abort then sets `finishedExecutingInstruccion` while that one runs. It
takes `pausar`, `kill`, `continuar`: `AtMostOneOperation` fails in `MCPlanificador`
with `Preemptive = TRUE` and three commands. No two of
the three commands are enough, however many are typed: under SJF-CD `AtMostOneOperation` and
the locks are proved if one of the three is missing. The places of the ESIs are more delicate:
any command makes the console call `executeInstruccion`, also after the select loop has taken
a dead ESI out of the tables and before it empties `runningEsi`; dislodged then, the dead
ESI goes back to the ready list, and `OnePlace` fails with one command. What rests on the
places is proved under SJF-CD with nothing typed, which is how `PlanificadorFinishes` checks it.

*What the operator breaks.* `desbloquear` frees a key under its holder, so
`MutualExclusion`, `LockTablesAgree` and `ImplementsKeyLocks` are checked without
commands, and proved for all the others. A pending `bloquear` of the running ESI is carried out after whatever
message the select loop handles next, which may be the arrival of an ESI while
the operation is under way; its outcome then finds no running ESI, and the select loop dereferences NULL.
`OperationIsOfRunning` is therefore checked and proved without `bloquear`; the theorems
about mutual exclusion and the lock records hold with it.

## 4. Proofs

The theorems are for all sets of ESIs, keys, commands and instancias, all bounds, with
failures, with preemption or without, and every interleaving. What each assumes besides:

| Theorem | Property | Assumes |
|---|---|---|
| `PlanificadorProofs!TypeCorrect` | `TypeOK` | |
| `PlanificadorProofs!OneOperationAtATime` | `AtMostOneOperation` | safe aborts |
| `PlanificadorProofs!LocksAreExclusive`, `LockRecordsAgree` | `MutualExclusion`, `LockTablesAgree` | safe aborts, no `desbloquear` |
| `PlanificadorPlaces!EachInOnePlace` | `OnePlace` | nothing moved |
| `PlanificadorPlaces!PlanificadorIsALockService` | `ImplementsKeyLocks` | nothing moved |
| `PlanificadorGrants!NothingIsLeftIdle` | `NothingIdles` | |
| `PlanificadorGrants!OnlyTheRunningOperates`, `GrantsStayTrue`, `EveryQueueExists`, `WakeupsAreNotLost` | `OperationIsOfRunning`, `GrantIsFresh`, `QueuesExist`, `FreeKeyHasRetrier` | nothing moved |
| `PlanificadorGrants!OneOperationWhoeverDies` | `AtMostOneOperation`, of `DeathsSpec` | safe aborts |
| `PlanificadorGrants!LocksOutliveTheDead` | `LocksSurviveDeaths`, of `DeathsSpec` | nothing moved |
| `DeadlockProofs!DeadlocksLast`, `ReportsAreRight` | `DeadlockLasts`, `ReportIsRight` | |
| `DistributionProofs` (five) | all of `Distribution`'s run | |
| `CoordinadorProofs` (five) | the safety properties of `Coordinador`'s run | |
| `StorageProofs` (six) | all of `StorageRecovery`'s run | |

*Safe aborts* is `AbortsAreSafe`: under SJF-CD, one of `pausar`, `continuar` and `kill` is
not among the commands (without preemption, nothing). *Nothing moved* is `NothingIsMoved`:
no `bloquear` nor `desbloquear` among the commands and, under SJF-CD, no commands at all. So the
theorems cover the instance of `PlanificadorFinishes`, with SJF-CD, and that of
`PlanificadorFailures`. The assumptions are those the code needs: section 3 says what
breaks without them (*What preemption breaks*, *What the operator breaks*). The planificador's theorems are
about `Planificador`, in which no ESI dies in the middle of a line, but the last two; with
such deaths the others do not all hold, and what does is `LocksSurviveDeaths`.

*Types.* `TypeOK` of `Planificador` is not inductive: that an outcome is
applied to a key, that a dispatched command is a command and that a script never
runs past its end come from other processes. `TypeInv` adds that an ESI waiting
for the coordinador has an operation, that a key was asked for before its
status was given (`OperationsAreReal`), that a living ESI has lines left
(`LinesAreLeft`) and that a validated command was typed (`TypedIsReal`). The
proof goes by groups of variables, with one step per action in each. The part that takes
work is in the tables: that the sweep of `deleteEsiFromSystem`, whose loop bound shrinks
as it runs, ends and leaves a queue (`SweepLengthType`, from the least-number principle),
that popping ids keeps the ready list a bag (finiteness of `Popped`), and that no count of
the ready list drops below zero.

*Orders.* `AtMostOneOperation` is far from inductive: the flag is set by the select loop in
two places and read by both threads. `OrderInv` says that an order is one message, then
one operation, then one outcome (`OrdersAreSingle`); that one ESI is busy, with the flag
false and nobody else running (`OneIsBusy`); that whoever is about to set the flag knows
that nobody is busy (`FinishingIsOver`, `AbortingIsOver`); and that no command is pending
between two lines of the running ESI (`NothingPending`), as a `bloquear` executed in the
middle of an abort would let the console order another ESI. With preemption
`executeInstruccion` must not dislodge an ESI between two of its lines whose abort is under
way (`ScheduleOrders`). `SafeAborts` says why it does not, in one of two ways: without `pausar` or without
`continuar`, the scheduler is paused there, since it would have ordered the next line
otherwise, and stays so (`StoppedIsPaused`); without `kill`, the running ESI is alive there,
and nobody aborts it (`StoppedIsAlive`).

*Locks.* `LockInv` adds to the two properties that a key is listed once and only while it
is taken (`HeldIsTaken`, `TakenIsHeld`); that holders are in the system and not finished,
for which the phases of dead and finished ESIs are followed (`HoldersArePresent`,
`WorkersArePresent`, `FinishedHaveExited`, `DyingHoldsNothing`); and that the status the
scheduler gives of a key stays true until the LOCK or FREE it leads to is applied
(`AnswersHold`), which follows from `OrderInv`: nobody else can lock in between. Every
release of keys goes through one lemma, `ReleaseLocks`.

*Places.* `PlaceInv` says that an ESI is ready once or running or in one queue once
(`ReadyOnce`, `QueuedOnce`, `QueuedIsIdle`), that a place is that of an ESI of the system
and that a living one has a place, and that the queues an ESI may be in are those of
`allSystemKeys`, which are all that `deleteEsiFromSystem` sweeps (`AwaitedIsKnown`).
`SweptOnce` shows that the sweep removes exactly the ESI from a queue in which it stands
once, although it leaves the loop early: had the tail held the ESI, the loop would
not have ended. `WakesFirst` describes a release: the heads of the released queues, all
different, become ready.

*Refinement.* Under the mapping of `Locks`, each step is one of `KeyLocks` or a stutter:
a LOCK is an `Acquire` (the key is free by `AnswersHold`, not of the configuration by
`ConfigIsKept`, and the ESI waits for nothing by `QueuedIsIdle`), a BLOCK a `Wait`, a FREE
and a finish a `Release`, a disconnection a `Leave`. The end of an abort is a stutter, as the running
ESI is in none of the queues that it sweeps.

*Between handlers.* `RestInv` needs nothing else: whenever both threads rest,
`executeInstruccion` was the last to run. `GrantInv` says that the busy ESI is the running
one and that `keyRecieved` is the key of its line, and that a known key has a queue.
`RetryInv` adds that a waiter still has the line it was blocked at, that an outcome fits what
is left of the script, and that until somebody dies a refusal stays true
(`BlockIsTrue`): only the running ESI frees keys. From these, a release leaves the key taken,
its queue empty, or its first waiter ready.

*Deaths.* With `EsiDiesInLine` and the late question (`HandleLateKeyStatus`), types and the
order of messages are kept whatever is asked: the dead ESI's line keeps its operation
(`LateInv`), and the scheduler counts the death as the end of the line. The tables are kept
until a late question has replaced `keyRecieved` in the middle of another line. So the
inductive invariant is `TypeInv /\ OrderInv /\ LateInv /\ (~crossed => TableInv)`, where
`TableInv` is `LockInv`, `PlaceInv` and `GrantInv` together: none of the three is kept alone.
A question that comes between two lines changes no table, and the step of the handler shows
that it leaves `GrantInv` as it is.

*Deadlock.* (`DeadlocksLast`.) A set of ESIs in which each waits for a key that another one holds is kept by a
step that is not the deletion of one of them: a key given back is not one that keeps the
deadlock, because its only holder is in the set (`KeysHaveOneHolder`), and who is woken
waited for a key given back.
(`ReportsAreRight`.) Besides, an ESI waits for one key only (`OneWait`) and the list has
each ESI once (`ListInv`), so that a row of the matrix has one column at most
(`RowHasOneColumn`). Therefore a scan, however it jumps, goes from a row of a deadlock to one of
a deadlock, and from another to another (`StepStaysDead`). A walk from a row of a deadlock never
finds nothing, so it comes back to a row it has seen, at the latest when there are no others
(`WalkComesBack`, by counting the rows). Conversely the rows a walk comes back to, with
those that its scans passed over, wait for one another (`CircleIsDead`). The loops are
recursive functions of the number of rounds; what each round keeps holds at the end
(`LoopKeeps`).

*Distribution.* Any set of instancias and of keys, whatever their letters. `FirstOf` and
`AliveAt` are given by `CHOOSE`, so their lemmas show that there is something to choose.
`LettersHaveInstancias` is the arithmetic of the two divisions. `TurnInv` says that the
last one chosen is in the list, and is its head until the head has had its turn, so that
the search that starts again finds somebody. `WaitInv` says that the choices an instancia
has been passed over and its `Distance` from the last one chosen, in the list and around
its end, are together at most the length of the list: each choice either takes it or
brings the turn nearer, and an arrival lengthens both. All of this is about the *settled* turn
(`SettledLast`, `SettledPass`): the one that a simulation under way has saved and not put
back yet. `SimulationInv` says that the copies of the simulation are a right turn, and which of the
globals agree with them at each of its points, so that no step of a simulation changes the settled
turn (`SimulationKeepsTurn`). `PredictionInv` says that what was predicted is what the
algorithms choose on the settled turn; it survives the fall of another instancia, as the
first of those in a list is still the first when one that is not is taken away
(`SameChoiceAfterFall`). While the list's mutex is free the settled turn is that of
the globals (`FreeIsSettled`), which gives `SimulationPredicts`. The lemmas about the list itself
are in `DistributionLists`, for both specifications that use it.

*Coordinador.* `KeyInv`: only instancias of the list have threads and keys. A SET chooses
an instancia for a key that nobody has, because `lookForKey` looks at the whole list and
`removeKeyFromFallenInstancia` runs before the choice; everything else removes keys.
`CoordinadorInv` is the rest. `SocketInv` and `LineInv` say who has each mutex and what the
sockets carry: a dead process hears nothing, a living one has a thread, and one ESI's thread
is between `esisMutex` and its response. `QuestionInv`: of the questions about a key's status,
in the sockets or posted, there is one at most, and what is said of the key is true of
the ESI that is ordered. `OperationInv`, until a send fails: the order, the answer, the news of
a fall and the post of `instanciaResponse` of an operation, counted together, are one at most,
only while an ESI's thread waits for it, and for its instancia. `ValueInv` is the same for the
value of a key. `CompactInv` counts for each instancia what it has posted or may still post of
compactions (`Owed`), against the threads that wait for it: each order adds to both, each fall
or answer only moves what is owed. `KnownInv`: a key that its holder has set is recorded, or the
refusal that made the coordinador forget it is on its way to the holder.

*Storage.* `MemoryInv` is `BitmapIsTable` row by row (`RowsApart`, `MarksRight`), and that a
row holds, piece by piece, a value of its size (`RowsHold`). `ValuesIntact` follows, as a piece
belongs to one value only; it is not inductive, as it says nothing of the pieces of which
a value is read. Each kind of step has its lemma. An update keeps within the row, a new row takes
entries that were free, an eviction removes the row of the victim and no other
(`RemoveAtProperties`). A compaction is the long one: the starts it computes, a recursive
function, exist and add up the rows before (`SumsExist`, `NewStartAddsUp`); they never decrease and
leave no gap (`SumsGrow`, `SumsCover`); rows that do not overlap add up to the entries in use
(`CardinalityAddsUp`), so that the moved rows fill exactly the first `Used` entries. Hence what fits in the free
entries fits after them (`PackedFits`), which is why the retry finds its place:
`RetryInv` carries this from the compaction to the retry. `JobInv` says what each job works on, and
that a SET from a file has that file's value, which `StoreInv` needs to know that a stored key
comes back as it was; `SpaceInv` extends `SpaceNeverUnderstated` to the middle of a SET,
in which evictions free entries that are not reported.
The inductions over lengths and positions are arguments about the least counterexample
(`LeastNumber`).

The proofs assume `PlanificadorAssumption`, `CommandsAssumption`, `DeathsAssumption`,
`KeyLocksAssumption`, `DistributionAssumption`, `CoordinadorAssumption` and
`StorageAssumption`, which TLC evaluates in the runs of their modules. The invariants were
found and checked with TLC on the instances of the runs before they were proved.

Only model-checked: all liveness (`OperationEnds`, `EveryEsiFinishes`, `EveryoneIsAnswered`,
`SetEnds`), as fairness and ENABLED are out of the prover's reach.
## 5. Not modelled

The text of scripts, keys, values, logs and messages, and the parser; the byte
layout of messages and `recv_all`; the configuration files; `exit` and the end of
input at the console, which end the process; `list_sort`. `entrySize` travels in
one signed `char` (`tads.h:25`): sizes above 127 are excluded. Freed memory that
is used again is a crash or an entry that matches nothing.

The estimations of SJF and HRRN (`planif_algorithm.c`) are doubles, and decide only
who is chosen, which is left open; with alpha = 100 the response ratio of an ESI that has
run nothing is 0/0. `globalKey`, which two status commands in a row share, decides only
what is printed.

In `Coordinador`: an instancia that returns before its old thread has noticed the fall
(`instanciaFunctions.c:13`): two threads then read one socket, and what each gets is not
determined by the protocol. An ESI that dies with its line received by a thread that still
waits for `esisMutex` counts as dead before it sent the line.

Keys are pairwise different ignoring case (`planificador.c:109` would confuse them). No
system-wide module joins the processes: `Planificador` has the coordinador as the answers it
may give, `Coordinador` the planificador as what it may send, and `Storage` the coordinador
as what it orders and records.

## 6. Plan

1. Done: `Planificador`, `PlanificadorDeaths`, `KeyLocks`, `Deadlock`, `Distribution`,
   `Coordinador`, `Storage`; the theorems of section 4.
2. `Coordinador`: what of `OutcomeIsOwnIfSent` and `SetKeysAreKnown` can be said after a
   send has failed.
3. A composition of scheduler, coordinador and instancias at the level of whole
   operations, against a store with per-key locks.
