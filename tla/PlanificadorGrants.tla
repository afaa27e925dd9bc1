-------------------------- MODULE PlanificadorGrants --------------------------
(* What the scheduler may rely on between two handlers: NothingIdles in      *)
(* every case, and, when the operator types neither bloquear nor desbloquear *)
(* (nothing at all under SJF-CD), OperationIsOfRunning, GrantIsFresh,        *)
(* QueuesExist and FreeKeyHasRetrier; and what of this holds when ESIs die   *)
(* in the middle of a line (PlanificadorDeaths).                             *)
EXTENDS PlanificadorPlaces, PlanificadorDeaths

-----------------------------------------------------------------------------
(* At rest nothing can run.                                                 *)

\* The console may be about to execute a command as well.
AtRest == /\ mode = "up" /\ main = "select"
          /\ console \in {"prompt", "validated", "owning"}
          /\ ~paused /\ finishedExec
NothingCouldRun == running = NoEsi /\ ReadyIsEmpty
RestInv == AtRest => NothingCouldRun

\* executeInstruccion gives an order whenever it may and there is an ESI for it.
LEMMA ScheduleRests ==
  ASSUME ExecuteInstruccion PROVE finishedExec' /\ ~paused' => NothingCouldRun'
<1>1. CASE NothingToRun
  BY <1>1 DEF ExecuteInstruccion, NothingToRun, MaySchedule, NothingCouldRun,
              ReadyIsEmpty
<1>2. CASE DispatchNext \/ ContinueRunning \/ DislodgeRunning
  BY <1>2 DEF DispatchNext, ContinueRunning, DislodgeRunning, OrderToRun
<1> QED
  BY <1>1, <1>2 DEF ExecuteInstruccion

\* A handler leaves the select point, and a command the console's prompt: both
\* come back through executeInstruccion.
LEMMA RestStep == RestInv /\ [Next]_vars => RestInv'
<1> SUFFICES ASSUME RestInv, [Next]_vars, AtRest' PROVE NothingCouldRun'
  BY DEF RestInv
<1>1. CASE UNCHANGED <<tables, paused, finishedExec, main>>
           /\ (UNCHANGED <<mode, console>> \/ AtRest)
  BY <1>1 DEF RestInv, AtRest, NothingCouldRun, ReadyIsEmpty, tables
<1>2. CASE UNCHANGED vars
  BY <1>1, <1>2 DEF vars, consoleVars
<1>3. CASE Crash \/ ConsoleSticks \/ ConsoleQueuesCommand \/ ConsoleExecutes
  BY <1>3 DEF Crash, ConsoleSticks, ConsoleQueuesCommand, ConsoleExecutes, AtRest
<1>4. CASE MainSchedules \/ ConsoleKicks
  BY <1>4, ScheduleRests DEF MainSchedules, ConsoleKicks, AtRest
<1>5. CASE mode = "up" /\ (ConsoleLocksMutex \/ Typing)
  BY <1>1, <1>5 DEF ConsoleLocksMutex, Typing, ConsoleReads, AtRest
<1>6. CASE \E e \in Esis : EsiStep(e)
  BY <1>1, <1>6 DEF EsiStep, EsiRunsLine, EsiRejectsLine, EsiIsKilled,
                    EsiAnswers, planificadorUnchanged, consoleVars
<1>7. main' = "select" => ~(\/ DrainEnds \/ SetFinishedExecuting \/ AbortEnds
                            \/ MainSticks \/ (DrainCommand /\ ~Crash)
                            \/ (HandleStatusResponse /\ ~Crash))
  BY DEF DrainEnds, AfterDrain, Draining, SetFinishedExecuting, AbortEnds,
         MainSticks, DrainCommand, HandleStatusResponse
<1>8. ASSUME NEW e \in Esis, main' = "select"
      PROVE  ~(\/ EsiConnects(e) \/ HandleKeyStatus(e) \/ HandleEsiInformation(e)
               \/ DisconnectReady(e) \/ DisconnectRunning(e) \/ DisconnectOther(e))
  BY <1>8 DEF EsiConnects, HandleKeyStatus, HandleEsiInformation, HandleSuccess,
         HandleLock, HandleBlock, HandleFree, HandleAbort, Receives,
         DisconnectReady, DisconnectRunning, DisconnectOther
<1>9. CASE ScheduleCrashes
           \/ \E e \in Esis : InformationCrashes(e) \/ DisconnectReadyCrashes(e)
  BY <1>3, <1>9 DEF ScheduleCrashes, InformationCrashes, DisconnectReadyCrashes
<1> QED
  BY <1>2, <1>3, <1>4, <1>5, <1>6, <1>7, <1>8, <1>9
     DEF Next, SelectLoop, Console, Arrivals, AtRest

\* Whenever both threads rest and the scheduler is not paused there is nothing
\* it could have run: whatever the algorithm and whatever the operator types,
\* each event that makes an ESI runnable is followed by executeInstruccion.
THEOREM NothingIsLeftIdle == Spec => []NothingIdles
<1>1. Init => RestInv
  BY DEF Init, RestInv, NothingCouldRun, ReadyIsEmpty
<1>2. RestInv => NothingIdles
  BY DEF RestInv, AtRest, NothingCouldRun, NothingIdles
<1> QED
  BY <1>1, <1>2, RestStep, PTL DEF Spec

-----------------------------------------------------------------------------
(* The operation under way and the answer on its way.                       *)

BusyRuns     == \A e \in Esis : IsBusy(e) => running = e
ToldOfItsKey == \A e \in Esis : phase[e] = "told" => operation[e].key = keyRecieved
KnownHasQueue == allKeys \subseteq dicKeys
GrantInv == BusyRuns /\ ToldOfItsKey /\ KnownHasQueue

\* Only executeInstruccion makes an ESI busy.
LEMMA NobodyTurnsBusy ==
  ASSUME TypeInv, OrderInv, OrderInv', [Next]_vars,
         ~MainSchedules, ~ConsoleKicks, NEW f \in Esis, IsBusy(f)'
  PROVE  IsBusy(f)
<1>1. CASE UNCHANGED <<phase, inbox, info>>
  BY <1>1 DEF IsBusy, IsOrdered, Asks, HasInformed
<1>2. CASE UNCHANGED vars \/ Crash
  BY <1>1, <1>2 DEF vars, Crash, esiVars
<1>3. CASE ConsoleQueuesCommand \/ ConsoleLocksMutex \/ ConsoleSticks \/ Typing
             \/ DrainEnds \/ SetFinishedExecuting \/ AbortEnds \/ MainSticks
             \/ HandleStatusResponse
  BY <1>1, <1>2, <1>3 DEF ConsoleQueuesCommand, ConsoleLocksMutex, ConsoleSticks,
     Typing, ConsoleReads, DrainEnds, SetFinishedExecuting, AbortEnds,
     MainSticks, HandleStatusResponse, esiVars
<1>4. CASE (ConsoleExecutes \/ DrainCommand) /\ ~Crash
  <2>1. ASSUME NEW c \in Commands, Execute(c), UNCHANGED <<phase, info>>
        PROVE  IsBusy(f)
    BY <2>1, ExecuteOrders DEF OrderInv
  <2>2. CASE ConsoleExecutes
    <3>1. typed \in Commands /\ Execute(typed) /\ UNCHANGED <<phase, info>>
      BY <1>4, <2>2 DEF ConsoleExecutes, TypeInv, TypedIsReal
    <3> QED
      BY <2>1, <3>1
  <2>3. CASE DrainCommand
    <3>1. /\ UNCHANGED <<phase, info>>
          /\ pending # <<>> /\ pending \in Seq(Commands)
          /\ Execute(Head(pending)) \/ Skip
      BY <1>4, <2>3 DEF DrainCommand, TypeInv, TypeOK, ThreadsTypeOK
    <3>2. Head(pending) \in Commands
      BY <3>1
    <3>3. CASE Skip
      BY <1>1, <3>1, <3>3 DEF Skip
    <3> QED
      BY <2>1, <3>1, <3>2, <3>3
  <2> QED
    BY <1>4, <2>2, <2>3
<1>5. ASSUME NEW e \in Esis,
             \/ EsiConnects(e) \/ HandleKeyStatus(e)
             \/ DisconnectReady(e) \/ DisconnectRunning(e) \/ DisconnectOther(e)
      PROVE  IsBusy(f)
  <2>1. /\ UNCHANGED <<inbox, info>>
        /\ \/ phase[e] = "absent" /\ phase' = [phase EXCEPT ![e] = "waiting"]
           \/ phase[e] = "asking" /\ phase' = [phase EXCEPT ![e] = "told"]
           \/ phase[e] = "exited" /\ phase' = [phase EXCEPT ![e] = "gone"]
    BY <1>5 DEF EsiConnects, HandleKeyStatus, DisconnectReady, DisconnectRunning,
                DisconnectOther, Disconnects, FreesAll
  <2>2. phase \in [Esis -> Phases]
    BY DEF TypeInv, TypeOK, EsisTypeOK
  <2> QED
    BY <2>1, <2>2 DEF IsBusy, IsOrdered, Asks, HasInformed
<1>6. ASSUME NEW e \in Esis, HandleEsiInformation(e)
      PROVE  FALSE
  <2>1. main' = "finish_drain"
    BY <1>6 DEF HandleEsiInformation, HandleSuccess,
       HandleLock, HandleBlock, HandleFree, HandleAbort, Receives
  <2> QED
    BY <2>1 DEF OrderInv, FinishingIsOver, NobodyIsBusy
<1>7. ASSUME NEW e \in Esis, EsiStep(e), ~IsBusy(f)
      PROVE  FALSE
  <2>1. /\ phase \in [Esis -> Phases] /\ info \in [Esis -> Infos \union {NoInfo}]
        /\ inbox \in [Esis -> Seq({"RUN", "KILLESI"})]
    BY DEF TypeInv, TypeOK, EsisTypeOK
  <2>2. CASE EsiRejectsLine(e) \/ EsiIsKilled(e)
    <3>1. /\ phase' = [phase EXCEPT ![e] = "exited"]
          /\ inbox' = [inbox EXCEPT ![e] = <<>>] /\ UNCHANGED info
      BY <2>2 DEF EsiRejectsLine, EsiIsKilled
    <3>2. CASE f = e
      <4>1. inbox'[f] = <<>> /\ phase'[f] = "exited" /\ info'[f] = info[f]
        BY <2>1, <3>1, <3>2
      <4>2. ~IsOrdered(f)' /\ ~Asks(f)'
        BY <4>1 DEF IsOrdered, Asks
      <4> QED
        BY <1>7, <4>1, <4>2 DEF IsBusy, HasInformed
    <3>3. CASE f # e
      <4>1. inbox'[f] = inbox[f] /\ phase'[f] = phase[f] /\ info'[f] = info[f]
        BY <2>1, <3>1, <3>3
      <4> QED
        BY <1>7, <4>1 DEF IsBusy, IsOrdered, Asks, HasInformed
    <3> QED
      BY <3>2, <3>3
  <2>3. CASE EsiRunsLine(e) \/ EsiAnswers(e)
    <3>1. \A g \in Esis \ {e} : /\ phase'[g] = phase[g] /\ info'[g] = info[g]
                                /\ inbox'[g] = inbox[g]
      BY <2>1, <2>3 DEF EsiRunsLine, EsiAnswers
    <3>2. f = e
      BY <1>7, <3>1 DEF IsBusy, IsOrdered, Asks, HasInformed
    <3>3. CASE EsiRunsLine(e)
      <4>1. /\ inbox[e] \in Seq({"RUN", "KILLESI"})
            /\ inbox[e] # <<>> /\ Head(inbox[e]) = "RUN"
        BY <2>1, <3>3 DEF EsiRunsLine
      <4>2. 1 \in 1..Len(inbox[e]) /\ inbox[e][1] = "RUN"
        BY <4>1
      <4> QED
        BY <1>7, <3>2, <4>2 DEF IsBusy, IsOrdered
    <3>4. CASE EsiAnswers(e)
      BY <1>7, <3>2, <3>4 DEF EsiAnswers, IsBusy, Asks
    <3> QED
      BY <2>3, <3>3, <3>4
  <2> QED
    BY <1>7, <2>2, <2>3 DEF EsiStep
<1>8. CASE ScheduleCrashes
            \/ \E e \in Esis : InformationCrashes(e) \/ DisconnectReadyCrashes(e)
  BY <1>2, <1>8 DEF ScheduleCrashes, InformationCrashes, DisconnectReadyCrashes
<1> QED
  BY <1>2, <1>3, <1>4, <1>5, <1>6, <1>7, <1>8
     DEF Next, SelectLoop, Console, Arrivals

\* runningEsi is the ESI that is busy until its outcome has been handled.
LEMMA BusyStep ==
  ASSUME NothingIsMoved, TypeInv, OrderInv, LockInv, PlaceInv, BusyRuns, [Next]_vars
  PROVE  BusyRuns'
<1> SUFFICES ASSUME NEW e \in Esis, IsBusy(e)' PROVE running' = e
  BY DEF BusyRuns
<1>1. OrderInv' /\ NoEsi \notin Esis
  BY OperatorIsHarmless, OrderStep, PlanificadorAssumption
<1>2. running' \in {e, NoEsi}
  BY <1>1 DEF OrderInv, OneIsBusy
<1>3. CASE MainSchedules \/ ConsoleKicks
  <2>1. ExecuteInstruccion /\ UNCHANGED <<phase, info>>
    BY <1>3 DEF MainSchedules, ConsoleKicks, ExecuteInstruccion
  <2>2. CASE NothingToRun
    BY <2>1, <2>2 DEF NothingToRun, BusyRuns, IsBusy, IsOrdered, Asks, HasInformed
  <2>3. CASE ~NothingToRun
    <3>1. system \subseteq Esis
      BY DEF TypeInv, TypeOK, TablesTypeOK
    <3>2. running' # NoEsi
      BY <1>1, <2>1, <2>3, <3>1 DEF ExecuteInstruccion, DispatchNext,
         ContinueRunning, DislodgeRunning, OrderToRun
    <3> QED
      BY <1>2, <3>2
  <2> QED
    BY <2>2, <2>3
<1>4. CASE ~MainSchedules /\ ~ConsoleKicks
  <2>1. IsBusy(e) /\ running = e
    BY <1>1, <1>4, NobodyTurnsBusy DEF BusyRuns
  <2>2. ASSUME AbortEnds PROVE FALSE
    <3>1. phase[e] = "gone"
      BY <2>1, <2>2 DEF AbortEnds, OrderInv, AbortingIsOver, PlaceInv, DyingRuns
    <3>2. inbox[e] = <<>> /\ ~HasInformed(e)
      BY <3>1 DEF OrderInv, OrdersAreSingle, Alive, LockInv, WorkersArePresent
    <3> QED
      BY <2>1, <3>1, <3>2 DEF IsBusy, IsOrdered, Asks
  <2>3. ASSUME NEW f \in Esis, HandleEsiInformation(f) PROVE FALSE
    <3>1. main' = "finish_drain"
      BY <2>3 DEF HandleEsiInformation, HandleSuccess, HandleLock, HandleBlock,
                  HandleFree, HandleAbort, Receives
    <3> QED
      BY <1>1, <3>1 DEF OrderInv, FinishingIsOver, NobodyIsBusy
  <2>4. CASE ConsoleExecutes \/ DrainCommand
    BY <2>1, <2>4, CommandMovesNothing
  <2>5. CASE Crash \/ UNCHANGED vars
    BY <2>1, <2>5 DEF Crash, vars, tables
  <2>6. CASE ConsoleQueuesCommand \/ ConsoleLocksMutex \/ ConsoleSticks \/ Typing
             \/ DrainEnds \/ SetFinishedExecuting \/ MainSticks
             \/ HandleStatusResponse
    BY <2>1, <2>5, <2>6 DEF ConsoleQueuesCommand, ConsoleLocksMutex,
       ConsoleSticks, Typing, ConsoleReads, DrainEnds, SetFinishedExecuting,
       MainSticks, HandleStatusResponse, tables
  <2>7. CASE \E f \in Esis :
               \/ EsiConnects(f) \/ HandleKeyStatus(f) \/ EsiStep(f)
               \/ DisconnectReady(f) \/ DisconnectRunning(f) \/ DisconnectOther(f)
    BY <2>1, <2>7 DEF EsiConnects, HandleKeyStatus, EsiStep, EsiRunsLine,
       EsiRejectsLine, EsiIsKilled, EsiAnswers, planificadorUnchanged,
       DisconnectReady, DisconnectRunning, DisconnectOther, tables
  <2>8. CASE ScheduleCrashes
            \/ \E f \in Esis : InformationCrashes(f) \/ DisconnectReadyCrashes(f)
    BY <2>5, <2>8 DEF ScheduleCrashes, InformationCrashes, DisconnectReadyCrashes
  <2> QED
    BY <1>4, <2>2, <2>3, <2>4, <2>5, <2>6, <2>7, <2>8
       DEF Next, SelectLoop, Console, Arrivals
<1> QED
  BY <1>3, <1>4

\* The coordinator's answer and the outcome are about the key of keyRecieved.
LEMMA ToldStep ==
  ASSUME TypeInv, OrderInv, ToldOfItsKey, [Next]_vars
  PROVE  ToldOfItsKey'
<1>0. /\ phase \in [Esis -> Phases] /\ status \in [Esis -> KeyStatuses]
      /\ operation \in [Esis -> Operations \union {NoOperation}]
  BY DEF TypeInv, TypeOK, EsisTypeOK
<1>1. CASE UNCHANGED <<phase, operation, keyRecieved>>
  BY <1>1 DEF ToldOfItsKey
<1>2. CASE UNCHANGED vars \/ Crash
  BY <1>1, <1>2 DEF vars, Crash, esiVars, messages
<1>3. CASE ConsoleQueuesCommand \/ ConsoleLocksMutex \/ ConsoleSticks \/ Typing
             \/ DrainEnds \/ SetFinishedExecuting \/ AbortEnds \/ MainSticks
             \/ HandleStatusResponse \/ ConsoleExecutes \/ DrainCommand
             \/ MainSchedules \/ ConsoleKicks
  BY <1>1, <1>2, <1>3 DEF ConsoleQueuesCommand, ConsoleLocksMutex, ConsoleSticks,
     Typing, ConsoleReads, DrainEnds, SetFinishedExecuting, AbortEnds, MainSticks,
     HandleStatusResponse, ConsoleExecutes, DrainCommand, MainSchedules,
     ConsoleKicks, ExecuteInstruccion, esiVars, messages
<1>4. ASSUME NEW e \in Esis, HandleEsiInformation(e) PROVE ToldOfItsKey'
  BY <1>1, <1>4 DEF HandleEsiInformation, HandleSuccess, HandleLock, HandleBlock,
     HandleFree, HandleAbort, Receives, messages
<1>5. ASSUME NEW e \in Esis, EsiConnects(e) \/ DisconnectReady(e)
                             \/ DisconnectRunning(e) \/ DisconnectOther(e)
      PROVE  ToldOfItsKey'
  <2>1. /\ UNCHANGED <<operation, keyRecieved>>
        /\ \/ phase' = [phase EXCEPT ![e] = "waiting"]
           \/ phase' = [phase EXCEPT ![e] = "gone"]
    BY <1>5 DEF EsiConnects, DisconnectReady, DisconnectRunning, DisconnectOther,
                FreesAll, messages
  <2> QED
    BY <1>0, <2>1 DEF ToldOfItsKey
<1>6. ASSUME NEW e \in Esis, HandleKeyStatus(e) PROVE ToldOfItsKey'
  <2>1. /\ phase[e] = "asking" /\ phase' = [phase EXCEPT ![e] = "told"]
        /\ keyRecieved' = operation[e].key /\ UNCHANGED operation
    BY <1>6 DEF HandleKeyStatus
  <2>2. \A f \in Esis \ {e} : phase[f] # "told"
    BY <2>1 DEF OrderInv, OneIsBusy, IsBusy, Asks
  <2> QED
    BY <1>0, <2>1, <2>2 DEF ToldOfItsKey
<1>7. ASSUME NEW e \in Esis, EsiStep(e) PROVE ToldOfItsKey'
  <2>1. /\ UNCHANGED keyRecieved /\ phase'[e] # "told"
        /\ \A f \in Esis \ {e} : /\ phase'[f] = phase[f]
                                 /\ operation'[f] = operation[f]
    BY <1>0, <1>7 DEF EsiStep, EsiRunsLine, EsiRejectsLine, EsiIsKilled,
       EsiAnswers, planificadorUnchanged, messages
  <2> QED
    BY <2>1 DEF ToldOfItsKey
<1>8. CASE ScheduleCrashes
            \/ \E e \in Esis : InformationCrashes(e) \/ DisconnectReadyCrashes(e)
  BY <1>2, <1>8 DEF ScheduleCrashes, InformationCrashes, DisconnectReadyCrashes
<1> QED
  BY <1>2, <1>3, <1>4, <1>5, <1>6, <1>7, <1>8
     DEF Next, SelectLoop, Console, Arrivals

\* addKeyToBlockedEsiDic comes with every key that joins allSystemKeys.
LEMMA KnownStep ==
  ASSUME KnownHasQueue, [Next]_vars
  PROVE  KnownHasQueue'
<1>1. /\ UNCHANGED allKeys
      /\ \/ UNCHANGED dicKeys
         \/ \E k : dicKeys' = dicKeys \union {k}
      \/ \E k : /\ dicKeys' = dicKeys \union {k}
                /\ allKeys' = allKeys \union {k}
  <2>1. CASE Crash \/ UNCHANGED vars
    BY <2>1 DEF Crash, vars, tables
  <2>2. CASE ConsoleQueuesCommand \/ ConsoleLocksMutex \/ ConsoleSticks \/ Typing
             \/ DrainEnds \/ SetFinishedExecuting \/ AbortEnds \/ MainSticks
             \/ HandleStatusResponse \/ MainSchedules \/ ConsoleKicks
    BY <2>1, <2>2 DEF ConsoleQueuesCommand, ConsoleLocksMutex, ConsoleSticks,
       Typing, ConsoleReads, DrainEnds, SetFinishedExecuting, AbortEnds,
       MainSticks, HandleStatusResponse, MainSchedules, ConsoleKicks,
       ExecuteInstruccion, tables
  <2>3. CASE ConsoleExecutes \/ DrainCommand
    <3>1. Crash \/ Skip \/ \E c : Execute(c)
      BY <2>3 DEF ConsoleExecutes, DrainCommand
    <3>2. ASSUME NEW c, Execute(c)
          PROVE  /\ UNCHANGED allKeys
                 /\ UNCHANGED dicKeys \/ \E k : dicKeys' = dicKeys \union {k}
      BY <3>2 DEF Execute, ExecutePausar, ExecuteBloquear, ExecuteDesbloquear,
         ExecuteListar, ExecuteKill, ExecuteStatus, BlockRunning, BlockOther
    <3> QED
      BY <2>1, <3>1, <3>2 DEF Skip, tables
  <2>4. ASSUME NEW e \in Esis, HandleEsiInformation(e)
        PROVE  /\ UNCHANGED allKeys
               /\ \/ UNCHANGED dicKeys
                  \/ dicKeys' = dicKeys \union {keyRecieved}
               \/ /\ dicKeys' = dicKeys \union {keyRecieved}
                  /\ allKeys' = allKeys \union {keyRecieved}
    BY <2>4 DEF HandleEsiInformation, HandleSuccess, HandleLock, HandleBlock,
       HandleFree, HandleAbort, BlockRunning
  <2>5. CASE \E e \in Esis :
               \/ EsiConnects(e) \/ HandleKeyStatus(e) \/ EsiStep(e)
               \/ DisconnectReady(e) \/ DisconnectRunning(e) \/ DisconnectOther(e)
    BY <2>5 DEF EsiConnects, HandleKeyStatus, EsiStep, EsiRunsLine,
       EsiRejectsLine, EsiIsKilled, EsiAnswers, planificadorUnchanged,
       DisconnectReady, DisconnectRunning, DisconnectOther, FreesAll, tables
  <2>6. CASE ScheduleCrashes
            \/ \E e \in Esis : InformationCrashes(e) \/ DisconnectReadyCrashes(e)
    BY <2>1, <2>6 DEF ScheduleCrashes, InformationCrashes, DisconnectReadyCrashes
  <2> QED
    BY <2>1, <2>2, <2>3, <2>4, <2>5, <2>6
       DEF Next, SelectLoop, Console, Arrivals
<1> QED
  BY <1>1 DEF KnownHasQueue

\* When the scheduler starts nobody is busy and no key is known but those of the
\* configuration.
LEMMA GrantInit == Init => GrantInv
<1>1. Init => \A e \in Esis : ~IsBusy(e) /\ phase[e] # "told"
  <2>1. Init => \A e \in Esis : inbox[e] = <<>>
    BY DEF Init
  <2> QED
    BY <2>1 DEF Init, IsBusy, Asks, IsOrdered, HasInformed
<1>2. Init => KnownHasQueue
  BY DEF Init, KnownHasQueue
<1> QED
  BY <1>1, <1>2 DEF GrantInv, BusyRuns, ToldOfItsKey

\* The five invariants together, in every reachable state.
LEMMA GrantInvariant ==
  ASSUME NothingIsMoved
  PROVE  Spec => [](TypeInv /\ OrderInv /\ LockInv /\ PlaceInv /\ GrantInv)
<1> DEFINE Inv == TypeInv /\ OrderInv /\ LockInv /\ PlaceInv
<1>1. Spec => []Inv
  BY PlaceInvariant
<1>2. Init => GrantInv
  BY GrantInit
<1>3. Inv /\ Inv' /\ GrantInv /\ [Next]_vars => GrantInv'
  BY BusyStep, ToldStep, KnownStep DEF GrantInv
<1> HIDE DEF Inv
<1>4. Spec => [](Inv /\ GrantInv)
  BY <1>1, <1>2, <1>3, PTL DEF Spec
<1> QED
  BY <1>4, PTL DEF Inv

\* What the invariants say of the operation, the permission and the queues.
LEMMA RunningOperates ==
  ASSUME GrantInv
  PROVE  OperationIsOfRunning
<1>1. \A e \in Esis : InFlight(e) => IsBusy(e)
  BY DEF InFlight, IsBusy, Asks, IsOrdered, HasInformed, Contains
<1> QED
  BY <1>1 DEF GrantInv, BusyRuns, OperationIsOfRunning

LEMMA GrantsAreFresh ==
  ASSUME TypeInv, LockInv, GrantInv
  PROVE  GrantIsFresh
<1> SUFFICES ASSUME NEW e \in Esis, phase[e] = "told", status[e] # "BLOCKED"
             PROVE  KeyStatus(keyRecieved) = status[e]
  BY DEF GrantIsFresh, GrantInv, ToldOfItsKey
<1>1. keyRecieved \in Keys /\ status[e] \in {"NOTBLOCKED", "LOCKED"}
  BY DEF TypeInv, OperationsAreReal, TypeOK, EsisTypeOK, KeyStatuses
<1>2. CASE status[e] = "NOTBLOCKED"
  BY <1>2 DEF LockInv, AnswersHold, KeyStatus, IsLockedKey
<1>3. CASE status[e] = "LOCKED"
  <2>1. locked[e][keyRecieved] > 0 /\ keyRecieved \in taken
    BY <1>1, <1>3 DEF LockInv, AnswersHold, HeldIsTaken
  <2>2. running = e /\ running # NoEsi
    BY PlanificadorAssumption DEF GrantInv, BusyRuns, IsBusy, Asks
  <2> QED
    BY <1>3, <2>1, <2>2 DEF KeyStatus, IsLockedKey
<1> QED
  BY <1>1, <1>2, <1>3

LEMMA QueuesAreThere ==
  ASSUME TypeInv, LockInv, PlaceInv, GrantInv
  PROVE  QueuesExist
<1>1. taken \subseteq allKeys /\ allKeys \subseteq dicKeys
  BY DEF PlaceInv, AwaitedIsKnown, GrantInv, KnownHasQueue
<1>2. \A e \in Esis, k \in Keys : locked[e][k] > 0 => k \in dicKeys
  BY <1>1 DEF LockInv, HeldIsTaken
<1>3. \A e \in Esis : info[e].response = "FREE" => keyRecieved \in dicKeys
  <2> SUFFICES ASSUME NEW e \in Esis, info[e].response = "FREE"
               PROVE  keyRecieved \in dicKeys
    OBVIOUS
  <2>1. keyRecieved \in Keys /\ locked[e][keyRecieved] > 0
    BY DEF TypeInv, OperationsAreReal, LockInv, AnswersHold, NoInfo
  <2> QED
    BY <1>2, <2>1
<1>4. \A k \in Keys \ dicKeys : queue[k] = <<>>
  BY <1>1 DEF PlaceInv, AwaitedIsKnown
<1> QED
  BY <1>1, <1>2, <1>3, <1>4 DEF QueuesExist

\* The operation under way is that of runningEsi, to which the handler of its
\* outcome applies it without looking at who sent it.
THEOREM OnlyTheRunningOperates ==
  ASSUME NothingIsMoved
  PROVE  Spec => []OperationIsOfRunning
<1>1. GrantInv => OperationIsOfRunning
  BY RunningOperates
<1> QED
  BY <1>1, GrantInvariant, PTL

\* A permission on its way to an ESI is still true when the ESI uses it, however
\* many others die and are aborted in the meantime.
THEOREM GrantsStayTrue ==
  ASSUME NothingIsMoved
  PROVE  Spec => []GrantIsFresh
<1>1. TypeInv /\ LockInv /\ GrantInv => GrantIsFresh
  BY GrantsAreFresh
<1> QED
  BY <1>1, GrantInvariant, PTL

\* blockedEsiDic has an entry wherever dictionary_get's answer is used at once.
THEOREM EveryQueueExists ==
  ASSUME NothingIsMoved
  PROVE  Spec => []QueuesExist
<1>1. TypeInv /\ LockInv /\ PlaceInv /\ GrantInv => QueuesExist
  BY QueuesAreThere
<1> QED
  BY <1>1, GrantInvariant, PTL

-----------------------------------------------------------------------------
(* A free key that is waited for: the inductive invariant.                  *)

\* Who waits for a key waits to do the line it was blocked at.
WaitersRetry ==
    \A k \in Keys : \A e \in Waiters(k) : operation[e].key = k /\ left[e] > 0

\* The outcome that an ESI has sent fits what is left of its script.
OutcomeFits ==
    \A e \in Esis :
        /\ info[e].response \in {"SUCCESS", "LOCK", "FREE"}
              => operation[e] = NoOperation
        /\ info[e].response = "BLOCK" => operation[e].key = keyRecieved
        /\ info[e].response \in {"BLOCK", "ABORT"} => left[e] > 0
        /\ HasInformed(e) /\ left[e] = 0 => info[e].esiStatus = "FINISHED"
EndedAreFinished ==
    \A e \in Esis :
        phase[e] \in {"exited", "gone"} /\ left[e] = 0 /\ ~HasInformed(e)
            => e \in finished

\* A refusal stays true: until somebody dies, keys are freed by the running ESI
\* only.
BlockIsTrue ==
    ~SomebodyDied =>
        \A e \in Esis :
            /\ phase[e] = "told" /\ status[e] = "BLOCKED" => keyRecieved \in taken
            /\ info[e].response = "BLOCK" => keyRecieved \in taken

RetryInv ==
    /\ WaitersRetry /\ OutcomeFits /\ EndedAreFinished /\ BlockIsTrue
    /\ FreeKeyHasRetrier
BaseInv == TypeInv /\ OrderInv /\ LockInv /\ PlaceInv /\ GrantInv

-----------------------------------------------------------------------------
(* The steps.                                                               *)

LEMMA NonemptyQueue ==
  ASSUME NEW s \in Seq(Esis) PROVE s # <<>> <=> Range(s) # {}
<1>1. Range(s) = {s[i] : i \in 1..Len(s)}
  BY RangeIsElements
<1>2. s # <<>> => 1 \in 1..Len(s)
  OBVIOUS
<1>3. s = <<>> => Range(s) = {}
  BY <1>1
<1> QED
  BY <1>1, <1>2, <1>3

\* Where the ESIs with an outcome to tell are unchanged, so is the rest.
LEMMA QuietRetries ==
  ASSUME RetryInv,
         UNCHANGED <<queue, taken, system, ready, running, finished, phase,
                     operation, left, status, info, keyRecieved>>
  PROVE  RetryInv'
<1>1. WaitersRetry' /\ OutcomeFits' /\ EndedAreFinished'
  BY DEF RetryInv, WaitersRetry, Waiters, OutcomeFits, EndedAreFinished, HasInformed
<1>2. BlockIsTrue' /\ FreeKeyHasRetrier'
  BY DEF RetryInv, BlockIsTrue, SomebodyDied, FreeKeyHasRetrier, Retries, Alive
<1> QED
  BY <1>1, <1>2 DEF RetryInv

\* executeInstruccion: an ESI that retries goes from ready to the CPU or back.
LEMMA ScheduleRetries ==
  ASSUME BaseInv, RetryInv, MainSchedules \/ ConsoleKicks
  PROVE  RetryInv'
<1>1. /\ ExecuteInstruccion
      /\ UNCHANGED <<system, finished, queue, taken, phase, operation, left,
                     status, info, keyRecieved>>
  BY DEF MainSchedules, ConsoleKicks, ExecuteInstruccion, messages
<1>2. CASE UNCHANGED <<ready, running>>
  BY <1>1, <1>2, QuietRetries
<1>3. CASE DispatchNext \/ DislodgeRunning
  <2>1. PICK e \in Esis :
          /\ running' = e
          /\ \/ running = NoEsi /\ ready' = [ready EXCEPT ![e] = @ - 1]
             \/ ready' = [ready EXCEPT ![running] = @ + 1, ![e] = @ - 1]
    BY <1>3 DEF DispatchNext, DislodgeRunning, OrderToRun, BaseInv, TypeInv, TypeOK,
                TablesTypeOK
  <2>2. ready \in [Esis -> Nat] /\ NoEsi \notin Esis /\ system \subseteq Esis
    BY PlanificadorAssumption DEF BaseInv, TypeInv, TypeOK, TablesTypeOK
  <2>3. WaitersRetry' /\ OutcomeFits' /\ EndedAreFinished' /\ BlockIsTrue'
    BY <1>1 DEF RetryInv, WaitersRetry, Waiters, OutcomeFits, EndedAreFinished,
                HasInformed, BlockIsTrue, SomebodyDied
  <2>4. ASSUME NEW f \in system, NEW k \in Keys, Retries(f, k)
        PROVE  Retries(f, k)'
    BY <1>1, <2>1, <2>2, <2>4 DEF Retries, Alive
  <2>5. FreeKeyHasRetrier'
    BY <1>1, <2>4 DEF RetryInv, FreeKeyHasRetrier, SomebodyDied
  <2> QED
    BY <2>3, <2>5 DEF RetryInv
<1> QED
  BY <1>1, <1>2, <1>3 DEF ExecuteInstruccion, NothingToRun, ContinueRunning, OrderToRun

\* welcomeEsi: the new ESI waits for nothing and has told nothing.
LEMMA ConnectRetries ==
  ASSUME BaseInv, RetryInv, NEW e \in Esis, EsiConnects(e)
  PROVE  RetryInv'
<1>1. /\ UNCHANGED <<running, finished, queue, taken, operation, status, info,
                     keyRecieved>>
      /\ phase[e] = "absent" /\ phase' = [phase EXCEPT ![e] = "waiting"]
      /\ ready' = [ready EXCEPT ![e] = @ + 1]
      /\ system' = system \union {e}
      /\ \E lines \in 1..MaxLines : left' = [left EXCEPT ![e] = lines]
  BY DEF EsiConnects, messages
<1>2. /\ phase \in [Esis -> Phases] /\ ready \in [Esis -> Nat]
      /\ left \in [Esis -> 0..MaxLines] /\ system \subseteq Esis
      /\ MaxLines \in Nat
  BY PlanificadorAssumption DEF BaseInv, TypeInv, TypeOK, EsisTypeOK, TablesTypeOK
<1>3. /\ left'[e] > 0 /\ phase'[e] = "waiting"
      /\ \A f \in Esis \ {e} : /\ left'[f] = left[f] /\ phase'[f] = phase[f]
                               /\ ready'[f] = ready[f]
  BY <1>1, <1>2
<1>4. WaitersRetry'
  <2>1. \A k \in Keys : e \notin Waiters(k)
    BY <1>1 DEF BaseInv, PlaceInv, PlacesAreRight, PlacedIsPresent, Placed
  <2>2. \A k \in Keys : Waiters(k) \subseteq Esis
    BY RangeIsElements DEF BaseInv, TypeInv, TypeOK, TablesTypeOK, Waiters
  <2> QED
    BY <1>1, <1>3, <2>1, <2>2 DEF RetryInv, WaitersRetry, Waiters
<1>5. OutcomeFits'
  BY <1>1, <1>3 DEF RetryInv, OutcomeFits, HasInformed
<1>6. EndedAreFinished'
  BY <1>1, <1>3 DEF RetryInv, EndedAreFinished, HasInformed
<1>7. SomebodyDied' <=> SomebodyDied
  BY <1>1, <1>3 DEF SomebodyDied
<1>8. BlockIsTrue'
  BY <1>1, <1>3, <1>7 DEF RetryInv, BlockIsTrue
<1>9. ASSUME NEW f \in system, NEW k \in Keys, Retries(f, k)
      PROVE  Retries(f, k)'
  BY <1>1, <1>2, <1>3, <1>9 DEF Retries, Alive
<1>10. FreeKeyHasRetrier'
  BY <1>1, <1>7, <1>9 DEF RetryInv, FreeKeyHasRetrier
<1> QED
  BY <1>4, <1>5, <1>6, <1>8, <1>10 DEF RetryInv

\* sendKeyStatusToCoordinador: nobody has an outcome to tell that the new value
\* of keyRecieved could falsify.
LEMMA KeyStatusRetries ==
  ASSUME BaseInv, RetryInv, NEW e \in Esis, HandleKeyStatus(e)
  PROVE  RetryInv'
<1>1. /\ UNCHANGED <<system, ready, running, finished, queue, taken, operation,
                     left, info>>
      /\ phase[e] = "asking" /\ phase' = [phase EXCEPT ![e] = "told"]
      /\ keyRecieved' = operation[e].key
      /\ status' = [status EXCEPT ![e] = KeyStatus(operation[e].key)]
  BY DEF HandleKeyStatus, tables
<1>2. /\ phase \in [Esis -> Phases] /\ status \in [Esis -> KeyStatuses]
      /\ info \in [Esis -> Infos \union {NoInfo}] /\ system \subseteq Esis
  BY DEF BaseInv, TypeInv, TypeOK, EsisTypeOK, TablesTypeOK
<1>3. /\ \A f \in Esis : ~HasInformed(f)
      /\ \A f \in Esis \ {e} : ~Asks(f)
  BY <1>1 DEF BaseInv, OrderInv, OrdersAreSingle, OneIsBusy, IsBusy, Asks
<1>4. \A f \in Esis : info[f].response = "NONE"
  BY <1>3 DEF HasInformed, NoInfo
<1>5. WaitersRetry' /\ OutcomeFits'
  BY <1>1, <1>3, <1>4 DEF RetryInv, WaitersRetry, Waiters, OutcomeFits, HasInformed
<1>6. EndedAreFinished' /\ (SomebodyDied' <=> SomebodyDied)
  BY <1>1, <1>2 DEF RetryInv, EndedAreFinished, HasInformed, SomebodyDied
<1>7. BlockIsTrue'
  BY <1>1, <1>2, <1>3, <1>4
     DEF RetryInv, BlockIsTrue, Asks, KeyStatus, IsLockedKey
<1>8. ASSUME NEW f \in system, NEW k \in Keys, Retries(f, k)
      PROVE  Retries(f, k)'
  BY <1>1, <1>2, <1>4, <1>8 DEF Retries, Alive
<1>9. FreeKeyHasRetrier'
  BY <1>1, <1>6, <1>8 DEF RetryInv, FreeKeyHasRetrier
<1> QED
  BY <1>5, <1>6, <1>7, <1>9 DEF RetryInv

\* The end of abortEsi: the dead ESI was not the one that retried.
LEMMA AbortRetries ==
  ASSUME BaseInv, RetryInv, AbortEnds
  PROVE  RetryInv'
<1>1. /\ main = "abort_end" /\ running' = NoEsi
      /\ queue' = SweepQueues(queue, dying)
      /\ system' = system \/ system' = system \ {dying}
      /\ UNCHANGED <<ready, finished, taken, phase, operation, left, status,
                     info, keyRecieved>>
  BY DEF AbortEnds, RemoveFromSystem, messages, esiVars
<1>2. dying \in Esis /\ phase[dying] = "gone" /\ running = dying
  BY <1>1 DEF BaseInv, OrderInv, AbortingIsOver, PlaceInv, DyingRuns
<1>3. /\ queue \in [Keys -> Seq(Esis)] /\ ready \in [Esis -> Nat]
      /\ system \subseteq Esis
  BY DEF BaseInv, TypeInv, TypeOK, TablesTypeOK
<1>4. \A k \in Keys :
         /\ NoRepeats(queue[k]) /\ (queue[k] # <<>> => k \in allKeys)
  BY DEF BaseInv, PlaceInv, PlacesAreRight, QueuedOnce, AwaitedIsKnown
<1>5. \A k \in Keys : Range(queue'[k]) = Waiters(k) \ {dying}
  BY <1>1, <1>3, <1>4, SweepsAll DEF Waiters
<1>6. \A k \in Keys : queue'[k] # <<>> => queue[k] # <<>>
  <2> SUFFICES ASSUME NEW k \in Keys, queue[k] = <<>> PROVE queue'[k] = <<>>
    OBVIOUS
  <2>1. CASE k \notin allKeys
    BY <1>1, <2>1 DEF SweepQueues
  <2>2. CASE k \in allKeys
    <3>1. queue'[k] = Swept(queue[k], dying)
      BY <1>1, <2>2 DEF SweepQueues
    <3>2. Swept(queue[k], dying) \in Seq(Esis)
      BY <1>3, <1>4, SweptOnce
    <3>3. Range(queue'[k]) = {}
      <4>1. Range(queue[k]) = {}
        BY <1>3, NonemptyQueue
      <4> QED
        BY <1>5, <4>1 DEF Waiters
    <3> QED
      BY <3>1, <3>2, <3>3, NonemptyQueue
  <2> QED
    BY <2>1, <2>2
<1>7. WaitersRetry' /\ OutcomeFits' /\ EndedAreFinished' /\ BlockIsTrue'
  BY <1>1, <1>5 DEF RetryInv, WaitersRetry, Waiters, OutcomeFits,
     EndedAreFinished, HasInformed, BlockIsTrue, SomebodyDied
<1>8. ASSUME NEW f \in system, NEW k \in Keys, Retries(f, k)
      PROVE  f \in system' /\ Retries(f, k)'
  <2>1. Alive(f) \/ HasInformed(f)
    BY <1>8 DEF Retries, HasInformed, NoInfo
  <2>2. f # dying
    BY <1>2, <2>1 DEF Alive, BaseInv, LockInv, WorkersArePresent
  <2> QED
    BY <1>1, <1>2, <1>8, <2>2 DEF Retries, Alive
<1>9. FreeKeyHasRetrier'
  BY <1>1, <1>6, <1>8 DEF RetryInv, FreeKeyHasRetrier, SomebodyDied
<1> QED
  BY <1>7, <1>9 DEF RetryInv

\* The ESI takes an order, or exits before it sends a line.
LEMMA OrderRetries ==
  ASSUME BaseInv, RetryInv, NEW e \in Esis,
         EsiRunsLine(e) \/ EsiRejectsLine(e) \/ EsiIsKilled(e)
  PROVE  RetryInv'
<1>1. /\ UNCHANGED <<system, ready, running, finished, queue, taken, left,
                     status, info, keyRecieved>>
      /\ phase[e] = "waiting" /\ inbox[e] # <<>>
  BY DEF EsiRunsLine, EsiRejectsLine, EsiIsKilled, planificadorUnchanged, tables,
         messages
<1>2. /\ phase \in [Esis -> Phases] /\ system \subseteq Esis
      /\ operation \in [Esis -> Operations \union {NoOperation}]
      /\ inbox[e] \in Seq({"RUN", "KILLESI"})
      /\ left[e] > 0
  BY <1>1 DEF BaseInv, TypeInv, TypeOK, EsisTypeOK, TablesTypeOK, LinesAreLeft, Alive
<1>3. CASE EsiRunsLine(e)
  <2>1. /\ phase' = [phase EXCEPT ![e] = "asking"]
        /\ Head(inbox[e]) = "RUN"
        /\ operation[e] # NoOperation => UNCHANGED operation
        /\ \A f \in Esis \ {e} : operation'[f] = operation[f]
    BY <1>2, <1>3 DEF EsiRunsLine
  <2>2. 1 \in 1..Len(inbox[e]) /\ inbox[e][1] = "RUN"
    BY <1>1, <1>2, <2>1
  <2>3. IsOrdered(e)
    BY <2>2 DEF IsOrdered
  <2>4. running = e /\ ~HasInformed(e)
    BY <2>3 DEF IsBusy, BaseInv, GrantInv, BusyRuns, OrderInv, OrdersAreSingle
  <2>5. \A k \in Keys : e \notin Waiters(k) /\ Waiters(k) \subseteq Esis
    <3>1. \A k \in Keys : e \notin Waiters(k)
      BY <2>4 DEF BaseInv, PlaceInv, PlacesAreRight, QueuedIsIdle
    <3> QED
      BY <3>1, RangeIsElements DEF BaseInv, TypeInv, TypeOK, TablesTypeOK, Waiters
  <2>6. WaitersRetry'
    BY <1>1, <2>1, <2>5 DEF RetryInv, WaitersRetry, Waiters
  <2>7. info[e].response = "NONE"
    BY <2>4 DEF HasInformed, NoInfo
  <2>8. OutcomeFits'
    BY <1>1, <2>1, <2>4, <2>7 DEF RetryInv, OutcomeFits, HasInformed
  <2>9. EndedAreFinished' /\ (SomebodyDied' <=> SomebodyDied)
    BY <1>1, <1>2, <2>1 DEF RetryInv, EndedAreFinished, HasInformed, SomebodyDied
  <2>10. BlockIsTrue'
    BY <1>1, <1>2, <2>1, <2>9 DEF RetryInv, BlockIsTrue
  <2>11. ASSUME NEW f \in system, NEW k \in Keys, Retries(f, k)
         PROVE  Retries(f, k)'
    <3>1. k # NoKey
      BY PlanificadorAssumption
    <3>2. CASE info[f].response = "LOCK" /\ keyRecieved = k
      BY <1>1, <3>2 DEF Retries
    <3>3. CASE Alive(f) /\ operation[f].key = k
      <4>1. Alive(f)' /\ operation'[f] = operation[f]
        BY <1>2, <2>1, <3>1, <3>3 DEF Alive, NoOperation
      <4> QED
        BY <1>1, <2>11, <3>3, <4>1 DEF Retries
    <3> QED
      BY <2>11, <3>2, <3>3 DEF Retries
  <2>12. FreeKeyHasRetrier'
    BY <1>1, <2>9, <2>11 DEF RetryInv, FreeKeyHasRetrier
  <2> QED
    BY <2>6, <2>8, <2>9, <2>10, <2>12 DEF RetryInv
<1>4. CASE EsiRejectsLine(e) \/ EsiIsKilled(e)
  <2>1. phase' = [phase EXCEPT ![e] = "exited"] /\ UNCHANGED operation
    BY <1>4 DEF EsiRejectsLine, EsiIsKilled
  <2>2. phase'[e] = "exited" /\ \A f \in Esis \ {e} : phase'[f] = phase[f]
    BY <1>2, <2>1
  <2>3. SomebodyDied'
    BY <1>1, <1>2, <2>2 DEF SomebodyDied
  <2>4. WaitersRetry' /\ OutcomeFits'
    BY <1>1, <2>1 DEF RetryInv, WaitersRetry, Waiters, OutcomeFits, HasInformed
  <2>5. EndedAreFinished'
    <3>1. left[e] # 0
      <4>1. left[e] \in Nat
        BY DEF BaseInv, TypeInv, TypeOK, EsisTypeOK
      <4> QED
        BY <1>2, <4>1
    <3> QED
      BY <1>1, <2>2, <3>1 DEF RetryInv, EndedAreFinished, HasInformed
  <2>6. BlockIsTrue' /\ FreeKeyHasRetrier'
    BY <2>3 DEF BlockIsTrue, FreeKeyHasRetrier
  <2> QED
    BY <2>4, <2>5, <2>6 DEF RetryInv
<1> QED
  BY <1>3, <1>4

\* The coordinator's answer: a free key is locked or costs the ESI its life.
LEMMA AnswerRetries ==
  ASSUME BaseInv, RetryInv, NEW e \in Esis, EsiAnswers(e)
  PROVE  RetryInv'
<1>1. /\ UNCHANGED <<system, ready, running, finished, queue, taken, status,
                     keyRecieved>>
      /\ phase[e] = "told"
  BY DEF EsiAnswers, planificadorUnchanged, tables, messages
<1>2. /\ phase \in [Esis -> Phases] /\ info \in [Esis -> Infos \union {NoInfo}]
      /\ operation \in [Esis -> Operations \union {NoOperation}]
      /\ left \in [Esis -> 0..MaxLines] /\ status \in [Esis -> KeyStatuses]
      /\ system \subseteq Esis /\ MaxLines \in Nat
  BY PlanificadorAssumption DEF BaseInv, TypeInv, TypeOK, EsisTypeOK, TablesTypeOK
<1>3. /\ keyRecieved \in Keys /\ left[e] > 0 /\ operation[e].key = keyRecieved
  BY <1>1 DEF BaseInv, TypeInv, OperationsAreReal, LinesAreLeft, Alive, GrantInv,
              ToldOfItsKey
<1>4. /\ running = e /\ ~HasInformed(e)
      /\ \A f \in Esis \ {e} : ~Asks(f) /\ ~HasInformed(f)
  BY <1>1 DEF IsBusy, Asks, BaseInv, GrantInv, BusyRuns, OrderInv, OneIsBusy,
              OrdersAreSingle
<1>5. PICK r \in CoordinadorResponses(operation[e].code, status[e]) :
        LET rest == IF Advances(r) THEN left[e] - 1 ELSE left[e]
            exits == r = "ABORT" \/ rest = 0
        IN  /\ left' = [left EXCEPT ![e] = rest]
            /\ info' = [info EXCEPT ![e] = [response |-> r,
                   esiStatus |-> IF rest = 0 THEN "FINISHED"
                                             ELSE "NOTFINISHED"]]
            /\ operation' = [operation EXCEPT ![e] =
                   IF Advances(r) THEN NoOperation ELSE @]
            /\ phase' = [phase EXCEPT ![e] =
                   IF exits THEN "exited" ELSE "waiting"]
  BY DEF EsiAnswers
<1>6. /\ info'[e].response = r
      /\ info'[e].esiStatus = IF left'[e] = 0 THEN "FINISHED" ELSE "NOTFINISHED"
      /\ left'[e] = IF Advances(r) THEN left[e] - 1 ELSE left[e]
      /\ operation'[e] = IF Advances(r) THEN NoOperation ELSE operation[e]
      /\ phase'[e] = IF r = "ABORT" \/ left'[e] = 0 THEN "exited" ELSE "waiting"
      /\ \A f \in Esis \ {e} : /\ left'[f] = left[f] /\ info'[f] = info[f]
                               /\ operation'[f] = operation[f]
                               /\ phase'[f] = phase[f]
  BY <1>2, <1>5
<1>7. /\ r \in Responses
      /\ r = "BLOCK" => status[e] = "BLOCKED"
      /\ r # "ABORT" /\ status[e] = "NOTBLOCKED" => r = "LOCK"
  BY <1>2 DEF CoordinadorResponses, Responses, KeyStatuses
<1>8. HasInformed(e)'
  BY <1>6, <1>7 DEF HasInformed, NoInfo, Responses
<1>9. WaitersRetry'
  <2>1. \A k \in Keys : e \notin Waiters(k) /\ Waiters(k) \subseteq Esis
    <3>1. \A k \in Keys : e \notin Waiters(k)
      BY <1>4 DEF BaseInv, PlaceInv, PlacesAreRight, QueuedIsIdle
    <3> QED
      BY <3>1, RangeIsElements DEF BaseInv, TypeInv, TypeOK, TablesTypeOK, Waiters
  <2> QED
    BY <1>1, <1>6, <2>1 DEF RetryInv, WaitersRetry, Waiters
<1>10. OutcomeFits'
  <2>1. ASSUME NEW f \in Esis \ {e}
        PROVE  info'[f].response = "NONE" /\ ~HasInformed(f)'
    BY <1>4, <1>6, <2>1 DEF HasInformed, NoInfo
  <2>2. /\ r \in {"SUCCESS", "LOCK", "FREE"} => operation'[e] = NoOperation
        /\ r \in {"BLOCK", "ABORT"} => left'[e] > 0
        /\ r = "BLOCK" => operation'[e].key = keyRecieved
    BY <1>3, <1>6 DEF Advances
  <2> QED
    BY <1>1, <1>6, <2>1, <2>2 DEF OutcomeFits
<1>11. EndedAreFinished'
  BY <1>1, <1>6, <1>8 DEF RetryInv, EndedAreFinished, HasInformed
<1>12. SomebodyDied => SomebodyDied'
  BY <1>1, <1>6 DEF SomebodyDied
<1>13. BlockIsTrue'
  <2> SUFFICES ASSUME ~SomebodyDied', NEW f \in Esis
               PROVE  /\ phase'[f] = "told" /\ status'[f] = "BLOCKED"
                            => keyRecieved \in taken
                      /\ info'[f].response = "BLOCK" => keyRecieved \in taken
    BY <1>1 DEF BlockIsTrue
  <2>1. CASE f = e
    BY <1>1, <1>6, <1>7, <1>12, <2>1 DEF RetryInv, BlockIsTrue
  <2>2. CASE f # e
    BY <1>1, <1>6, <1>12, <2>2 DEF RetryInv, BlockIsTrue
  <2> QED
    BY <2>1, <2>2
<1>14. ASSUME ~SomebodyDied', NEW f \in system, NEW k \in Keys \ taken,
              Retries(f, k)
       PROVE  Retries(f, k)'
  <2>1. CASE f # e
    BY <1>1, <1>2, <1>6, <1>14, <2>1 DEF Retries, Alive
  <2>2. CASE f = e
    <3>1. keyRecieved = k
      BY <1>3, <1>4, <1>14, <2>2 DEF Retries, HasInformed, NoInfo
    <3>2. status[e] = "NOTBLOCKED"
      <4>1. status[e] # "BLOCKED"
        BY <1>1, <1>12, <1>14, <3>1 DEF RetryInv, BlockIsTrue
      <4>2. status[e] # "LOCKED"
        BY <1>1, <1>3, <1>14, <3>1 DEF BaseInv, LockInv, AnswersHold, HeldIsTaken
      <4> QED
        BY <1>2, <4>1, <4>2 DEF KeyStatuses
    <3>3. r # "ABORT"
      <4>1. r = "ABORT" => phase'[e] = "exited" /\ left'[e] > 0
        BY <1>3, <1>6 DEF Advances
      <4> QED
        BY <1>14, <4>1 DEF SomebodyDied
    <3>4. info'[e].response = "LOCK"
      BY <1>6, <1>7, <3>2, <3>3
    <3> QED
      BY <1>1, <2>2, <3>1, <3>4 DEF Retries
  <2> QED
    BY <2>1, <2>2
<1>15. FreeKeyHasRetrier'
  BY <1>1, <1>12, <1>14 DEF RetryInv, FreeKeyHasRetrier
<1> QED
  BY <1>9, <1>10, <1>11, <1>13, <1>15 DEF RetryInv

\* unlockEsi: the first of each queue goes to the ready list to try again.
LEMMA WokenRetries ==
  ASSUME BaseInv, BaseInv', WaitersRetry, ~SomebodyDied,
         NEW times \in [Keys -> Nat], \A k \in Keys : times[k] <= 1,
         queue' = QueueAfter(times), ready' = ReadyAfter(times),
         UNCHANGED <<system, phase, operation>>
  PROVE  /\ \A k \in Keys : /\ queue'[k] # <<>> => queue[k] # <<>>
                            /\ Range(queue'[k]) \subseteq Waiters(k)
         /\ \A e \in Esis : ready[e] > 0 => ready'[e] > 0
         /\ \A k \in Keys : times[k] > 0 /\ queue[k] # <<>>
               => \E e \in system : Retries(e, k)'
<1>1. /\ \A k \in Keys :
           /\ Range(QueueAfter(times)[k]) = Waiters(k) \ Woken(times)
           /\ QueueAfter(times)[k] # <<>> => queue[k] # <<>>
      /\ \A e \in Esis :
           ReadyAfter(times)[e] = IF e \in Woken(times) THEN 1 ELSE ready[e]
  BY WakesFirst DEF BaseInv, PlaceInv, PlacesAreRight
<1>2. ASSUME NEW k \in Keys, times[k] > 0, queue[k] # <<>>
      PROVE  \E e \in system : Retries(e, k)'
  <2>1. queue[k] \in Seq(Esis)
    BY DEF BaseInv, TypeInv, TypeOK, TablesTypeOK
  <2>2. PICK e \in Esis : e = Head(queue[k]) /\ e \in Waiters(k)
    <3>1. 1 \in 1..Len(queue[k]) /\ Head(queue[k]) = queue[k][1]
      BY <1>2, <2>1
    <3> QED
      BY <2>1, <3>1, RangeIsElements DEF Waiters
  <2>3. e \in Woken(times)
    BY <1>2, <2>2 DEF Woken
  <2>4. operation[e].key = k /\ left[e] > 0
    BY <2>2 DEF WaitersRetry
  <2>5. e \in system /\ phase[e] # "absent"
    BY <2>2 DEF BaseInv, PlaceInv, PlacesAreRight, PlacedIsPresent, Placed
  <2>6. Alive(e)
    BY <2>4, <2>5 DEF SomebodyDied, Alive, BaseInv, TypeInv, TypeOK, EsisTypeOK,
                      Phases
  <2>7. Retries(e, k)'
    BY <1>1, <2>3, <2>4, <2>6 DEF Retries, Alive
  <2> QED
    BY <2>5, <2>7
<1> QED
  BY <1>1, <1>2

\* What the outcomes that block nobody leave of the free keys' waiters: either
\* nothing is released, or unlockEsi wakes the first of each.
LEMMA InformationFrees ==
  ASSUME BaseInv, NEW e \in Esis, HandleEsiInformation(e),
         info[e].response # "BLOCK"
  PROVE  \/ /\ UNCHANGED <<queue, ready>>
            /\ taken \subseteq taken'
            /\ info[e].response = "LOCK" => keyRecieved \in taken'
         \/ /\ Release(Releases(info[e]))
            /\ \A k \in Keys : Releases(info[e])[k] <= 1
            /\ Releases(info[e]) \in [Keys -> Nat]
            /\ info[e].response = "LOCK" => Releases(info[e])[keyRecieved] > 0
<1>1. HasInformed(e) /\ running # NoEsi
  BY DEF HandleEsiInformation, HandleSuccess, HandleLock, HandleBlock,
         HandleFree, HandleAbort, Receives, HasInformed
<1>2. running = e /\ keyRecieved \in Keys
  BY <1>1 DEF IsBusy, BaseInv, GrantInv, BusyRuns, TypeInv, OperationsAreReal,
              HasInformed
<1>3. CASE UNCHANGED <<queue, ready>> /\ taken \subseteq taken'
           /\ (info[e].response = "LOCK" => keyRecieved \in taken')
  BY <1>3
<1>4. CASE Release(Releases(info[e]))
           /\ (info[e].response = "LOCK" => info[e].esiStatus = "FINISHED")
  <2>1. \A k \in Keys : Releases(info[e])[k] <= 1
    BY <1>2, OutcomeFrees DEF BaseInv
  <2>2. Releases(info[e]) \in [Keys -> Nat]
    BY <1>2, ReleasesType DEF BaseInv, TypeInv, TypeOK
  <2>3. info[e].response = "LOCK" => Releases(info[e])[keyRecieved] > 0
    <3> SUFFICES ASSUME info[e].response = "LOCK"
                 PROVE  Releases(info[e])[keyRecieved] > 0
      OBVIOUS
    <3>1. Releases(info[e]) = LockedPlus(e, keyRecieved)
      BY <1>2, <1>4 DEF Releases
    <3>2. locked[e] \in [Keys -> Nat]
      BY DEF BaseInv, TypeInv, TypeOK, TablesTypeOK
    <3>3. LockedPlus(e, keyRecieved)[keyRecieved] = locked[e][keyRecieved] + 1
      BY <1>2, <3>2 DEF LockedPlus
    <3> QED
      BY <1>2, <3>1, <3>2, <3>3
  <2> QED
    BY <1>4, <2>1, <2>2, <2>3
<1>5. CASE HandleSuccess(e)
  <2>1. info[e].response = "SUCCESS"
    BY <1>5 DEF HandleSuccess, Receives
  <2> QED
    BY <1>3, <1>4, <1>5, <2>1 DEF HandleSuccess, Finishes
<1>6. CASE HandleLock(e)
  BY <1>3, <1>4, <1>6 DEF HandleLock, Finishes
<1>7. CASE HandleFree(e)
  <2>1. info[e].response = "FREE"
    BY <1>7 DEF HandleFree, Receives
  <2> QED
    BY <1>4, <1>7, <2>1 DEF HandleFree, Finishes
<1>8. CASE HandleAbort(e)
  <2>1. info[e].response = "ABORT"
    BY <1>8 DEF HandleAbort, Receives
  <2> QED
    BY <1>3, <1>8, <2>1 DEF HandleAbort
<1>9. CASE HandleBlock(e)
  BY <1>9 DEF HandleBlock, Receives
<1> QED
  BY <1>5, <1>6, <1>7, <1>8, <1>9 DEF HandleEsiInformation

\* handleEsiInformation.
LEMMA InformationRetries ==
  ASSUME BaseInv, BaseInv', RetryInv, NEW e \in Esis, HandleEsiInformation(e)
  PROVE  RetryInv'
<1>1. /\ HasInformed(e) /\ running # NoEsi
      /\ info' = [info EXCEPT ![e] = NoInfo]
      /\ UNCHANGED <<system, phase, operation, left, status, keyRecieved>>
  BY DEF HandleEsiInformation, HandleSuccess, HandleLock, HandleBlock,
         HandleFree, HandleAbort, Receives, HasInformed, messages
<1>2. /\ info \in [Esis -> Infos \union {NoInfo}] /\ system \subseteq Esis
      /\ queue \in [Keys -> Seq(Esis)] /\ queue' \in [Keys -> Seq(Esis)]
  BY DEF BaseInv, TypeInv, TypeOK, EsisTypeOK, TablesTypeOK
<1>3. /\ running = e /\ keyRecieved \in Keys
      /\ \A f \in Esis : ~Asks(f)
      /\ \A f \in Esis \ {e} : ~HasInformed(f)
  BY <1>1 DEF IsBusy, BaseInv, GrantInv, BusyRuns, OrderInv, OneIsBusy,
              OrdersAreSingle, TypeInv, OperationsAreReal, HasInformed
<1>4. /\ \A f \in Esis : ~HasInformed(f)' /\ info'[f].response = "NONE"
      /\ info[e].response \in Responses
  BY <1>1, <1>2, <1>3 DEF HasInformed, NoInfo, Infos
<1>5. SomebodyDied' <=> SomebodyDied
  BY <1>1 DEF SomebodyDied
<1>6. OutcomeFits' /\ BlockIsTrue'
  BY <1>1, <1>3, <1>4 DEF OutcomeFits, BlockIsTrue, Asks
<1>7. EndedAreFinished'
  <2>1. finished \subseteq finished'
    BY DEF HandleEsiInformation, HandleSuccess, HandleLock, HandleBlock,
           HandleFree, HandleAbort, Continues, Finishes
  <2>2. left[e] = 0 => e \in finished'
    <3> SUFFICES ASSUME left[e] = 0 PROVE e \in finished'
      OBVIOUS
    <3>1. /\ info[e].esiStatus = "FINISHED"
          /\ info[e].response \notin {"BLOCK", "ABORT"}
      BY <1>1 DEF RetryInv, OutcomeFits
    <3>2. Finishes(e)
      BY <3>1 DEF HandleEsiInformation, HandleSuccess, HandleLock, HandleBlock,
                  HandleFree, HandleAbort, Receives, Continues
    <3> QED
      BY <1>3, <3>2 DEF Finishes
  <2> QED
    BY <1>1, <1>3, <2>1, <2>2 DEF RetryInv, EndedAreFinished
\* An ESI that retries a free key is not the one whose outcome is handled, but
\* for the news that it has locked the key.
<1>8. ASSUME ~SomebodyDied, NEW f \in system, NEW k \in Keys \ taken,
             Retries(f, k)
      PROVE  \/ ready[f] > 0 /\ Alive(f) /\ operation[f].key = k
             \/ info[e].response = "LOCK" /\ keyRecieved = k
  <2>1. k # NoKey
    BY PlanificadorAssumption
  <2>2. ASSUME info[f].response = "LOCK" /\ keyRecieved = k
        PROVE  info[e].response = "LOCK" /\ keyRecieved = k
    BY <1>2, <1>3, <2>2 DEF HasInformed, NoInfo
  <2>3. ASSUME f = e, Alive(f), operation[f].key = k
        PROVE  info[e].response = "LOCK" /\ keyRecieved = k
    <3>1. info[e].response # "BLOCK"
      BY <1>8, <2>3 DEF RetryInv, OutcomeFits, BlockIsTrue
    <3>2. info[e].response # "ABORT"
      BY <2>3 DEF Alive, BaseInv, PlaceInv, AbortedHaveExited
    <3>3. info[e].response \notin {"SUCCESS", "LOCK", "FREE"}
      BY <2>1, <2>3 DEF RetryInv, OutcomeFits, NoOperation
    <3> QED
      BY <1>4, <3>1, <3>2, <3>3 DEF Responses
  <2> QED
    BY <1>3, <1>8, <2>2, <2>3 DEF Retries
<1>9. CASE info[e].response = "BLOCK"
  <2>1. /\ BlockRunning(keyRecieved) /\ UNCHANGED <<taken, ready>>
        /\ queue' = [queue EXCEPT ![keyRecieved] = Append(@, running)]
    BY <1>9 DEF HandleEsiInformation, HandleSuccess, HandleLock, HandleBlock,
                HandleFree, HandleAbort, Receives, BlockRunning
  <2>2. PICK b \in Keys : b = keyRecieved
    BY <1>3
  <2>3. /\ queue'[b] = Append(queue[b], e)
        /\ \A k \in Keys \ {b} : queue'[k] = queue[k]
    BY <1>2, <1>3, <2>1, <2>2
  <2>4. NoRepeats(queue[b]) /\ e \notin Range(queue[b])
    BY <1>3 DEF BaseInv, PlaceInv, PlacesAreRight, QueuedOnce, QueuedIsIdle, Waiters
  <2>5. Range(queue'[b]) = Range(queue[b]) \union {e}
    BY <1>2, <2>3, <2>4, AppendOnce
  <2>6. operation[e].key = b /\ left[e] > 0
    BY <1>9, <2>2 DEF RetryInv, OutcomeFits
  <2>7. WaitersRetry'
    <3> SUFFICES ASSUME NEW k \in Keys, NEW f \in Range(queue'[k])
                 PROVE  operation[f].key = k /\ left[f] > 0
      BY <1>1 DEF WaitersRetry, Waiters
    <3>1. f \in Waiters(k) \/ (f = e /\ k = b)
      BY <2>3, <2>5 DEF Waiters
    <3> QED
      BY <2>6, <3>1 DEF RetryInv, WaitersRetry
  <2>8. FreeKeyHasRetrier'
    <3> SUFFICES ASSUME ~SomebodyDied', NEW k \in Keys \ taken',
                        queue'[k] # <<>>
                 PROVE  \E f \in system' : Retries(f, k)'
      BY DEF FreeKeyHasRetrier
    <3>1. k # b /\ k \notin taken
      BY <1>5, <1>9, <2>1, <2>2 DEF RetryInv, BlockIsTrue
    <3>2. PICK f \in system : Retries(f, k)
      BY <1>5, <2>3, <3>1 DEF RetryInv, FreeKeyHasRetrier
    <3>3. ready[f] > 0 /\ Alive(f) /\ operation[f].key = k
      BY <1>5, <1>8, <1>9, <3>1, <3>2
    <3>4. Retries(f, k)'
      BY <1>1, <2>1, <3>3 DEF Retries, Alive
    <3> QED
      BY <1>1, <3>4
  <2> QED
    BY <1>6, <1>7, <2>7, <2>8 DEF RetryInv
<1>10. CASE info[e].response # "BLOCK" /\ UNCHANGED <<queue, ready>>
            /\ taken \subseteq taken'
            /\ (info[e].response = "LOCK" => keyRecieved \in taken')
  <2>1. WaitersRetry'
    BY <1>1, <1>10 DEF RetryInv, WaitersRetry, Waiters
  <2>2. FreeKeyHasRetrier'
    <3> SUFFICES ASSUME ~SomebodyDied', NEW k \in Keys \ taken',
                        queue'[k] # <<>>
                 PROVE  \E f \in system' : Retries(f, k)'
      BY DEF FreeKeyHasRetrier
    <3>1. PICK f \in system : Retries(f, k)
      BY <1>5, <1>10 DEF RetryInv, FreeKeyHasRetrier
    <3>2. ready[f] > 0 /\ Alive(f) /\ operation[f].key = k
      BY <1>5, <1>8, <1>10, <3>1
    <3>3. Retries(f, k)'
      BY <1>1, <1>10, <3>2 DEF Retries, Alive
    <3> QED
      BY <1>1, <3>3
  <2> QED
    BY <1>6, <1>7, <2>1, <2>2 DEF RetryInv
<1>11. CASE /\ Release(Releases(info[e]))
            /\ \A k \in Keys : Releases(info[e])[k] <= 1
            /\ Releases(info[e]) \in [Keys -> Nat]
            /\ info[e].response = "LOCK" => Releases(info[e])[keyRecieved] > 0
  <2>1. PICK times \in [Keys -> Nat] :
          /\ times = Releases(info[e]) /\ \A k \in Keys : times[k] <= 1
          /\ info[e].response = "LOCK" => times[keyRecieved] > 0
    BY <1>11
  <2>2. /\ queue' = QueueAfter(times) /\ ready' = ReadyAfter(times)
        /\ taken' = TakenAfter(times)
    BY <1>11, <2>1 DEF Release
  <2>3. WaitersRetry
    BY DEF RetryInv
  <2>4. ASSUME ~SomebodyDied
        PROVE  /\ \A f \in Esis : ready[f] > 0 => ready'[f] > 0
               /\ \A k \in Keys : times[k] > 0 /\ queue[k] # <<>>
                     => \E f \in system : Retries(f, k)'
    BY <1>1, <2>1, <2>2, <2>3, <2>4, WokenRetries
  <2>5. \A k \in Keys : /\ queue'[k] # <<>> => queue[k] # <<>>
                        /\ Range(queue'[k]) \subseteq Waiters(k)
    BY <2>1, <2>2, WakesFirst DEF BaseInv, PlaceInv, PlacesAreRight
  <2>6. WaitersRetry'
    BY <1>1, <2>3, <2>5 DEF WaitersRetry, Waiters
  <2>7. FreeKeyHasRetrier'
    <3> SUFFICES ASSUME ~SomebodyDied', NEW k \in Keys \ taken',
                        queue'[k] # <<>>
                 PROVE  \E f \in system' : Retries(f, k)'
      BY DEF FreeKeyHasRetrier
    <3>1. queue[k] # <<>> /\ ~SomebodyDied /\ times[k] \in Nat
      BY <1>5, <2>5
    <3>2. CASE times[k] > 0
      BY <1>1, <2>4, <3>1, <3>2
    <3>3. CASE times[k] = 0
      <4>1. k \notin taken
        <5>1. ~(0 > 0)
          OBVIOUS
        <5> QED
          BY <2>2, <3>3, <5>1 DEF TakenAfter
      <4>2. PICK f \in system : Retries(f, k)
        BY <3>1, <4>1 DEF RetryInv, FreeKeyHasRetrier
      <4>3. ~(info[e].response = "LOCK" /\ keyRecieved = k)
        BY <2>1, <3>3
      <4>4. ready[f] > 0 /\ Alive(f) /\ operation[f].key = k
        BY <1>8, <3>1, <4>1, <4>2, <4>3
      <4>5. Retries(f, k)'
        BY <1>1, <1>2, <2>4, <3>1, <4>4 DEF Retries, Alive
      <4> QED
        BY <1>1, <4>5
    <3> QED
      BY <3>1, <3>2, <3>3
  <2> QED
    BY <1>6, <1>7, <2>6, <2>7 DEF RetryInv
<1> QED
  BY <1>9, <1>10, <1>11, InformationFrees

\* abortEsi: while nobody has died before its end, the ESI whose connection is
\* closed has finished, and holds and retries nothing.
LEMMA DisconnectRetries ==
  ASSUME BaseInv, BaseInv', RetryInv, NEW e \in Esis,
         DisconnectReady(e) \/ DisconnectRunning(e) \/ DisconnectOther(e)
  PROVE  RetryInv'
<1> DEFINE W == Woken(locked[e])
           G == IF DisconnectRunning(e) THEN {} ELSE {e}
<1>1. /\ phase[e] = "exited" /\ ~HasInformed(e)
      /\ phase' = [phase EXCEPT ![e] = "gone"]
      /\ taken' = TakenAfter(locked[e])
      /\ UNCHANGED <<running, finished, operation, left, status, info, keyRecieved>>
      /\ system' = system \/ system' = system \ {e}
  BY DEF DisconnectReady, DisconnectRunning, DisconnectOther, Disconnects,
         FreesAll, RemoveFromSystem, HasInformed, messages
<1>2. /\ phase \in [Esis -> Phases] /\ taken \in SUBSET Keys
      /\ left \in [Esis -> 0..MaxLines] /\ system \subseteq Esis
      /\ queue \in [Keys -> Seq(Esis)] /\ queue' \in [Keys -> Seq(Esis)]
      /\ locked \in [Esis -> [Keys -> Nat]] /\ MaxLines \in Nat
  BY PlanificadorAssumption DEF BaseInv, TypeInv, TypeOK, EsisTypeOK, TablesTypeOK
<1>3. /\ \A k \in Keys : Range(queue'[k]) = Waiters(k) \ (W \union G)
      /\ \A f \in Esis : ready'[f] = IF f \in G THEN 0
                                     ELSE IF f \in W THEN 1 ELSE ready[f]
  BY DisconnectMoves DEF BaseInv
<1>4. G \subseteq {e}
  OBVIOUS
<1> HIDE DEF G
<1>5. \A f \in Esis \ {e} : phase'[f] = phase[f]
  BY <1>1, <1>2
<1>6. SomebodyDied' <=> SomebodyDied
  BY <1>1, <1>2, <1>5 DEF SomebodyDied
<1>7. \A k \in Keys : queue'[k] # <<>> => queue[k] # <<>>
  <2> SUFFICES ASSUME NEW k \in Keys, queue[k] = <<>> PROVE queue'[k] = <<>>
    OBVIOUS
  <2>1. queue[k] \in Seq(Esis) /\ queue'[k] \in Seq(Esis)
    BY <1>2
  <2>2. Range(queue[k]) = {}
    BY <2>1, NonemptyQueue
  <2>3. Range(queue'[k]) = {}
    BY <1>3, <2>2 DEF Waiters
  <2> QED
    BY <2>1, <2>3, NonemptyQueue
<1>8. ASSUME ~SomebodyDied
      PROVE  e \in finished /\ (\A k \in Keys : locked[e][k] = 0) /\ W = {}
  <2>1. left[e] = 0
    BY <1>1, <1>2, <1>8 DEF SomebodyDied
  <2>2. e \in finished
    BY <1>1, <2>1 DEF RetryInv, EndedAreFinished
  <2>3. \A k \in Keys : locked[e][k] = 0
    BY <1>2, <2>2 DEF BaseInv, LockInv, HoldersArePresent
  <2>4. W = {}
    <3>1. ~(0 > 0)
      OBVIOUS
    <3> QED
      BY <2>3, <3>1 DEF Woken
  <2> QED
    BY <2>2, <2>3, <2>4
<1>9. ~SomebodyDied => taken' = taken
  <2>1. ~(0 > 0)
    OBVIOUS
  <2> QED
    BY <1>1, <1>2, <1>8, <2>1 DEF TakenAfter
<1> HIDE DEF W
<1>10. WaitersRetry'
  BY <1>1, <1>3 DEF RetryInv, WaitersRetry, Waiters
<1>11. OutcomeFits'
  BY <1>1 DEF RetryInv, OutcomeFits, HasInformed
<1>12. EndedAreFinished'
  BY <1>1, <1>5 DEF RetryInv, EndedAreFinished, HasInformed
<1>13. BlockIsTrue'
  BY <1>1, <1>2, <1>5, <1>6, <1>9 DEF RetryInv, BlockIsTrue
<1>14. ASSUME ~SomebodyDied, NEW f \in system, NEW k \in Keys, Retries(f, k)
       PROVE  f \in system' /\ Retries(f, k)'
  <2>1. Alive(f) \/ HasInformed(f)
    BY <1>14 DEF Retries, HasInformed, NoInfo
  <2>2. f # e /\ f \in Esis
    BY <1>1, <1>2, <2>1 DEF Alive
  <2>3. f \in system' /\ ready'[f] = ready[f] /\ phase'[f] = phase[f]
    BY <1>1, <1>3, <1>4, <1>5, <1>8, <1>14, <2>2
  <2> QED
    BY <1>1, <1>14, <2>3 DEF Retries, Alive
<1>15. FreeKeyHasRetrier'
  BY <1>6, <1>7, <1>9, <1>14 DEF RetryInv, FreeKeyHasRetrier
<1> QED
  BY <1>10, <1>11, <1>12, <1>13, <1>15 DEF RetryInv

\* Every step of Next keeps the invariant, but for bloquear and desbloquear.
LEMMA RetryStep ==
  ASSUME NothingIsMoved
  PROVE  BaseInv /\ BaseInv' /\ RetryInv /\ [Next]_vars => RetryInv'
<1> SUFFICES ASSUME BaseInv, BaseInv', RetryInv, [Next]_vars PROVE RetryInv'
  OBVIOUS
<1>1. ASSUME UNCHANGED <<tables, phase, operation, left, status, info, keyRecieved>>
      PROVE  RetryInv'
  BY <1>1, QuietRetries DEF tables
<1>2. CASE Crash \/ UNCHANGED vars
  BY <1>1, <1>2 DEF Crash, vars, messages, esiVars
<1>3. CASE ConsoleQueuesCommand \/ ConsoleLocksMutex \/ ConsoleSticks \/ Typing
             \/ DrainEnds \/ SetFinishedExecuting \/ MainSticks
             \/ HandleStatusResponse
  BY <1>1, <1>2, <1>3 DEF ConsoleQueuesCommand, ConsoleLocksMutex, ConsoleSticks,
     Typing, ConsoleReads, DrainEnds, SetFinishedExecuting, MainSticks,
     HandleStatusResponse, messages, esiVars
<1>4. CASE ConsoleExecutes \/ DrainCommand
  <2>1. UNCHANGED <<system, ready, running, finished, queue, taken, phase,
                    status, info, keyRecieved>>
    BY <1>4, CommandMovesNothing DEF BaseInv
  <2>2. UNCHANGED <<operation, left>>
    BY <1>4 DEF ConsoleExecutes, DrainCommand, Crash, esiVars
  <2> QED
    BY <2>1, <2>2, QuietRetries
<1>5. CASE MainSchedules \/ ConsoleKicks
  BY <1>5, ScheduleRetries
<1>6. CASE AbortEnds
  BY <1>6, AbortRetries
<1>7. CASE \E e \in Esis : EsiConnects(e)
  BY <1>7, ConnectRetries
<1>8. CASE \E e \in Esis : HandleKeyStatus(e)
  BY <1>8, KeyStatusRetries
<1>9. CASE \E e \in Esis : HandleEsiInformation(e)
  BY <1>9, InformationRetries
<1>10. CASE \E e \in Esis :
              DisconnectReady(e) \/ DisconnectRunning(e) \/ DisconnectOther(e)
  BY <1>10, DisconnectRetries
<1>11. CASE \E e \in Esis : EsiStep(e)
  BY <1>11, OrderRetries, AnswerRetries DEF EsiStep
<1>12. CASE ScheduleCrashes
            \/ \E e \in Esis : InformationCrashes(e) \/ DisconnectReadyCrashes(e)
  BY <1>2, <1>12 DEF ScheduleCrashes, InformationCrashes, DisconnectReadyCrashes
<1> QED
  BY <1>2, <1>3, <1>4, <1>5, <1>6, <1>7, <1>8, <1>9, <1>10, <1>11, <1>12
     DEF Next, SelectLoop, Console, Arrivals

\* No wakeup is lost: while nobody has died before its end, a key that is free
\* and waited for has an ESI on its way to try it again, or the news that one
\* has locked it.
THEOREM WakeupsAreNotLost ==
  ASSUME NothingIsMoved
  PROVE  Spec => []FreeKeyHasRetrier
<1>1. Spec => []BaseInv
  BY GrantInvariant DEF BaseInv
<1>2. Init => RetryInv
  <2> SUFFICES ASSUME Init PROVE RetryInv
    OBVIOUS
  <2>1. \A k \in Keys : queue[k] = <<>> /\ Waiters(k) = {}
    BY DEF Init, Waiters, Range
  <2>2. WaitersRetry /\ FreeKeyHasRetrier
    BY <2>1 DEF WaitersRetry, FreeKeyHasRetrier
  <2>3. OutcomeFits /\ EndedAreFinished /\ BlockIsTrue
    BY DEF Init, OutcomeFits, HasInformed, NoInfo, EndedAreFinished, BlockIsTrue
  <2> QED
    BY <2>2, <2>3 DEF RetryInv
<1>3. BaseInv /\ BaseInv' /\ RetryInv /\ [Next]_vars => RetryInv'
  BY RetryStep
<1>4. RetryInv => FreeKeyHasRetrier
  BY DEF RetryInv
<1> QED
  BY <1>1, <1>2, <1>3, <1>4, PTL DEF Spec

-----------------------------------------------------------------------------
(* ESIs that die in the middle of a line, any number of them: the locks stay *)
(* right until the question of a dead ESI's line comes in the middle of      *)
(* another (PlanificadorDeaths).                                             *)

\* A line whose ESI is dead still has the operation it was given.
LateLinesAreReal ==
    \A e \in late : phase[e] \in {"exited", "gone"} /\ operation[e] \in Operations
LateInv == late \subseteq Esis /\ LateLinesAreReal

\* Types and the order of messages do not depend on whose keyRecieved is; the
\* tables of locks do, so that the inductive invariant of DeathsSpec is
\* TypeInv /\ OrderInv /\ LateInv /\ (~crossed => TableInv).
TableInv == LockInv /\ PlaceInv /\ GrantInv

-----------------------------------------------------------------------------
(* The death of an ESI in the middle of a line.                             *)

LEMMA DeathTypes ==
  ASSUME TypeInv, NEW e \in Esis, EsiDiesInLine(e)
  PROVE  TypeInv'
<1>1. /\ phase' = [phase EXCEPT ![e] = "exited"]
      /\ inbox' = [inbox EXCEPT ![e] = <<>>]
      /\ UNCHANGED <<operation, left, status, info, tables, paused, finishedExec,
                     messages, pending, mode, main, dying, consoleVars>>
  BY DEF EsiDiesInLine, planificadorUnchanged
<1>2. TablesTypeOK' /\ FlagsTypeOK' /\ ThreadsTypeOK' /\ TypedIsReal'
  BY <1>1 DEF TypeInv, TypeOK, TablesTypeOK, FlagsTypeOK, ThreadsTypeOK,
              TypedIsReal, tables, messages, consoleVars
<1>3. EsisTypeOK' /\ OperationsAreReal' /\ LinesAreLeft'
  BY <1>1 DEF TypeInv, TypeOK, EsisTypeOK, Phases, OperationsAreReal,
              LinesAreLeft, Alive, messages
<1> QED
  BY <1>2, <1>3 DEF TypeInv, TypeOK

\* What everybody sees of it: an ESI that worked has exited.
LEMMA DeathIsAnExit ==
  ASSUME TypeInv, NEW e \in Esis, EsiDiesInLine(e)
  PROVE  /\ Asks(e) /\ phase'[e] = "exited" /\ inbox'[e] = <<>>
         /\ \A f \in Esis \ {e} : phase'[f] = phase[f] /\ inbox'[f] = inbox[f]
         /\ UNCHANGED <<system, ready, running, finished, queue, dicKeys, allKeys,
                        taken, locked, paused, finishedExec, keyRecieved, pending,
                        main, dying, operation, status, info>>
BY DEF EsiDiesInLine, planificadorUnchanged, tables, messages, Asks, TypeInv,
       TypeOK, EsisTypeOK

LEMMA DeathOrders ==
  ASSUME TypeInv, OrderInv, NEW e \in Esis, EsiDiesInLine(e)
  PROVE  OrderInv'
<1> USE DEF OrderInv
<1>1. \A f \in Esis \ {e} : /\ IsOrdered(f)' <=> IsOrdered(f)
                            /\ HasInformed(f)' <=> HasInformed(f)
                            /\ Asks(f)' <=> Asks(f)
                            /\ Alive(f)' <=> Alive(f)
                            /\ inbox'[f] = inbox[f]
  BY DeathIsAnExit DEF IsOrdered, HasInformed, Asks, Alive
<1>2. IsBusy(e) /\ ~IsBusy(e)' /\ ~IsOrdered(e)' /\ inbox'[e] = <<>> /\ ~Asks(e)'
  BY DeathIsAnExit DEF IsBusy, IsOrdered, Asks, HasInformed, OrdersAreSingle
<1>3. OrdersAreSingle'
  BY <1>1, <1>2 DEF OrdersAreSingle
<1>4. \A f \in Esis : IsBusy(f)' => IsBusy(f)
  BY <1>1, <1>2 DEF IsBusy
<1>5. \A f \in Esis : phase[f] = "gone" => phase'[f] = "gone"
  BY DeathIsAnExit DEF Asks
<1>6. StoppedIsPaused'
  BY DeathIsAnExit DEF SafeAborts, StoppedIsPaused
<1>7. ~finishedExec /\ main \notin {"finish_drain", "finish_set"}
  BY <1>2 DEF OneIsBusy, FinishingIsOver, NobodyIsBusy
<1>8. ~HasInformed(e)
  BY DeathIsAnExit DEF OrdersAreSingle
<1>9. StoppedIsAlive'
  BY <1>1, <1>2, <1>7, <1>8, DeathIsAnExit
     DEF SafeAborts, StoppedIsAlive, HasInformed, NoInfo, Advances
<1> QED
  BY <1>3, <1>4, <1>5, <1>6, <1>9, DeathIsAnExit, QuietStep DEF SafeAborts

LEMMA DeathLocks ==
  ASSUME TypeInv, LockInv, NEW e \in Esis, EsiDiesInLine(e)
  PROVE  LockInv'
<1> USE DEF LockInv
<1>1. MutualExclusion' /\ HeldIsTaken' /\ TakenIsHeld' /\ HoldersArePresent'
  BY DeathIsAnExit DEF MutualExclusion, HeldIsTaken, TakenIsHeld, HoldersArePresent
<1>2. e \in system \ finished
  BY DeathIsAnExit DEF WorkersArePresent, Asks, Alive
<1>3. WorkersArePresent' /\ FinishedHaveExited'
  BY <1>2, DeathIsAnExit DEF WorkersArePresent, FinishedHaveExited, Alive, Asks,
                             HasInformed
<1>4. DyingHoldsNothing' /\ AnswersHold'
  BY DeathIsAnExit DEF DyingHoldsNothing, AnswersHold
<1> QED
  BY <1>1, <1>3, <1>4

LEMMA DeathPlaces ==
  ASSUME TypeInv, PlaceInv, NEW e \in Esis, EsiDiesInLine(e)
  PROVE  PlaceInv'
<1>1. PlacesAreRight'
  BY DeathIsAnExit, QuietPlaces DEF PlaceInv, Alive, Asks
<1>2. AbortedHaveExited' /\ AwaitedIsKnown'
  BY DeathIsAnExit DEF PlaceInv, AbortedHaveExited, AwaitedIsKnown, Asks
<1>3. DyingRuns' /\ ConfigIsKept'
  BY DeathIsAnExit DEF PlaceInv, DyingRuns, ConfigIsKept
<1> QED
  BY <1>1, <1>2, <1>3 DEF PlaceInv

LEMMA DeathGrants ==
  ASSUME TypeInv, GrantInv, NEW e \in Esis, EsiDiesInLine(e)
  PROVE  GrantInv'
<1>1. BusyRuns'
  BY DeathIsAnExit DEF GrantInv, BusyRuns, IsBusy, Asks, IsOrdered, HasInformed
<1>2. ToldOfItsKey' /\ KnownHasQueue'
  BY DeathIsAnExit DEF GrantInv, ToldOfItsKey, KnownHasQueue
<1> QED
  BY <1>1, <1>2 DEF GrantInv

\* The line of an ESI that dies while it asks is one that may still come.
LEMMA DeathLateLines ==
  ASSUME TypeInv, LateInv, NEW e \in Esis, EsiDiesInLine(e)
  PROVE  LateInv'
<1>1. late' = IF phase[e] = "asking" THEN late \union {e} ELSE late
  BY DEF EsiDiesInLine
<1>2. phase[e] = "asking" => operation[e] \in Operations
  BY DEF TypeInv, OperationsAreReal
<1> QED
  BY <1>1, <1>2, DeathIsAnExit DEF LateInv, LateLinesAreReal

-----------------------------------------------------------------------------
(* The question of a line whose ESI is dead.                                *)

LEMMA LateQuestionTypes ==
  ASSUME TypeInv, LateInv, NEW e \in Esis, HandleLateKeyStatus(e)
  PROVE  TypeInv' /\ LateInv' /\ keyRecieved' \in Keys
<1>1. /\ e \in late /\ late' = late \ {e} /\ keyRecieved' = operation[e].key
      /\ main' = "drain"
      /\ UNCHANGED <<tables, paused, finishedExec, globalKey, statusReplies,
                     pending, mode, dying, consoleVars, esiVars>>
  BY DEF HandleLateKeyStatus
<1>2. keyRecieved' \in Keys
  BY <1>1 DEF LateInv, LateLinesAreReal, Operations
<1>3. TablesTypeOK' /\ FlagsTypeOK' /\ EsisTypeOK' /\ LinesAreLeft' /\ TypedIsReal'
  BY <1>1 DEF TypeInv, TypeOK, TablesTypeOK, FlagsTypeOK, EsisTypeOK,
              LinesAreLeft, Alive, TypedIsReal, tables, consoleVars, esiVars
<1>4. ThreadsTypeOK'
  BY <1>1, <1>2 DEF TypeInv, TypeOK, ThreadsTypeOK, MainPoints, consoleVars
<1>5. OperationsAreReal'
  BY <1>1, <1>2 DEF TypeInv, OperationsAreReal, esiVars
<1>6. LateInv'
  BY <1>1 DEF LateInv, LateLinesAreReal, esiVars
<1> QED
  BY <1>2, <1>3, <1>4, <1>5, <1>6 DEF TypeInv, TypeOK

LEMMA LateQuestionOrders ==
  ASSUME OrderInv, NEW e \in Esis, HandleLateKeyStatus(e)
  PROVE  OrderInv'
<1>1. /\ UNCHANGED <<phase, inbox, info, running, paused, finishedExec, dying>>
      /\ main = "select" /\ main' = "drain"
  BY DEF HandleLateKeyStatus, tables, esiVars
<1>2. OrdersAreSingle' /\ OneIsBusy'
  BY <1>1 DEF OrderInv, OrdersAreSingle, OneIsBusy, IsBusy, IsOrdered, Asks,
              HasInformed, Alive
<1>3. FinishingIsOver' /\ AbortingIsOver' /\ NothingPending'
  BY <1>1 DEF FinishingIsOver, AbortingIsOver, NothingPending
<1>4. SafeAborts'
  BY <1>1 DEF OrderInv, SafeAborts, StoppedIsPaused, StoppedIsAlive, Alive
<1> QED
  BY <1>2, <1>3, <1>4 DEF OrderInv

\* Between two lines nobody looks at keyRecieved before it is replaced.
LEMMA LateQuestionTables ==
  ASSUME TypeInv, LockInv, PlaceInv, GrantInv,
         NEW e \in Esis, HandleLateKeyStatus(e), ~KeyIsInUse
  PROVE  TableInv'
<1>1. /\ UNCHANGED <<system, ready, running, finished, queue, dicKeys, allKeys,
                     taken, locked, phase, inbox, operation, status, info>>
      /\ main' = "drain"
  BY DEF HandleLateKeyStatus, tables, esiVars
<1>2. \A f \in Esis : phase[f] # "told" /\ info[f] = NoInfo
  BY DEF KeyIsInUse
<1>3. LockInv'
  <2>1. MutualExclusion' /\ HeldIsTaken' /\ TakenIsHeld'
    BY <1>1 DEF LockInv, MutualExclusion, HeldIsTaken, TakenIsHeld
  <2>2. HoldersArePresent' /\ WorkersArePresent' /\ FinishedHaveExited'
    BY <1>1 DEF LockInv, HoldersArePresent, WorkersArePresent, FinishedHaveExited,
                Alive, HasInformed
  <2>3. DyingHoldsNothing' /\ AnswersHold'
    BY <1>1, <1>2 DEF DyingHoldsNothing, AnswersHold, NoInfo
  <2> QED
    BY <2>1, <2>2, <2>3 DEF LockInv
<1>4. PlaceInv'
  <2>1. PlacesAreRight'
    BY <1>1, QuietPlaces DEF PlaceInv, Alive
  <2>2. AbortedHaveExited' /\ AwaitedIsKnown'
    BY <1>1, <1>2 DEF PlaceInv, AbortedHaveExited, AwaitedIsKnown, NoInfo
  <2>3. DyingRuns' /\ ConfigIsKept'
    BY <1>1 DEF PlaceInv, DyingRuns, ConfigIsKept
  <2> QED
    BY <2>1, <2>2, <2>3 DEF PlaceInv
<1>5. GrantInv'
  <2>1. BusyRuns' /\ KnownHasQueue'
    BY <1>1 DEF GrantInv, BusyRuns, IsBusy, Asks, IsOrdered, HasInformed,
                KnownHasQueue
  <2>2. ToldOfItsKey'
    BY <1>1, <1>2 DEF ToldOfItsKey
  <2> QED
    BY <2>1, <2>2 DEF GrantInv
<1> QED
  BY <1>3, <1>4, <1>5 DEF TableInv

-----------------------------------------------------------------------------
(* The steps of Next.                                                       *)

\* A dead ESI takes no other line.
LEMMA LateLinesStay ==
  ASSUME TypeInv, LateInv, [Next]_vars, UNCHANGED late
  PROVE  LateInv'
<1> SUFFICES ASSUME NEW e \in Esis, phase[e] \in {"exited", "gone"}
             PROVE  phase'[e] \in {"exited", "gone"} /\ operation'[e] = operation[e]
  BY DEF LateInv, LateLinesAreReal
<1>1. phase \in [Esis -> Phases] /\ operation \in [Esis -> Operations \union {NoOperation}]
  BY DEF TypeInv, TypeOK, EsisTypeOK
<1>2. CASE UNCHANGED <<phase, operation>>
  BY <1>2
<1>3. CASE UNCHANGED vars \/ Crash
  BY <1>2, <1>3 DEF vars, Crash, esiVars
<1>4. CASE ConsoleQueuesCommand \/ ConsoleLocksMutex \/ ConsoleSticks \/ Typing
             \/ DrainEnds \/ SetFinishedExecuting \/ AbortEnds \/ MainSticks
             \/ HandleStatusResponse \/ ConsoleExecutes \/ DrainCommand
             \/ MainSchedules \/ ConsoleKicks
  BY <1>2, <1>3, <1>4 DEF ConsoleQueuesCommand, ConsoleLocksMutex, ConsoleSticks,
     Typing, ConsoleReads, DrainEnds, SetFinishedExecuting, AbortEnds, MainSticks,
     HandleStatusResponse, ConsoleExecutes, DrainCommand, MainSchedules,
     ConsoleKicks, ExecuteInstruccion, esiVars
<1>5. ASSUME NEW f \in Esis, HandleEsiInformation(f)
      PROVE  UNCHANGED <<phase, operation>>
  BY <1>5 DEF HandleEsiInformation, HandleSuccess, HandleLock, HandleBlock,
     HandleFree, HandleAbort, Receives
<1>6. ASSUME NEW f \in Esis,
             \/ EsiConnects(f) \/ HandleKeyStatus(f)
             \/ DisconnectReady(f) \/ DisconnectRunning(f) \/ DisconnectOther(f)
      PROVE  phase'[e] \in {"exited", "gone"} /\ operation'[e] = operation[e]
  <2>1. /\ UNCHANGED operation
        /\ \/ phase[f] = "absent" /\ phase' = [phase EXCEPT ![f] = "waiting"]
           \/ phase[f] = "asking" /\ phase' = [phase EXCEPT ![f] = "told"]
           \/ phase[f] = "exited" /\ phase' = [phase EXCEPT ![f] = "gone"]
    BY <1>6 DEF EsiConnects, HandleKeyStatus, DisconnectReady, DisconnectRunning,
                DisconnectOther, Disconnects, FreesAll
  <2> QED
    BY <1>1, <2>1
<1>7. ASSUME NEW f \in Esis, EsiStep(f)
      PROVE  phase'[e] = phase[e] /\ operation'[e] = operation[e]
  <2>1. f # e
    BY <1>7 DEF EsiStep, EsiRunsLine, EsiRejectsLine, EsiIsKilled, EsiAnswers
  <2> QED
    BY <1>1, <1>7, <2>1 DEF EsiStep, EsiRunsLine, EsiRejectsLine, EsiIsKilled,
                            EsiAnswers
<1>8. CASE ScheduleCrashes
            \/ \E f \in Esis : InformationCrashes(f) \/ DisconnectReadyCrashes(f)
  BY <1>3, <1>8 DEF ScheduleCrashes, InformationCrashes, DisconnectReadyCrashes
<1> QED
  BY <1>2, <1>3, <1>4, <1>5, <1>6, <1>7, <1>8
     DEF Next, SelectLoop, Console, Arrivals

LEMMA LivingStep ==
  ASSUME AbortsAreSafe, TypeInv, OrderInv, LateInv, [Next]_vars, UNCHANGED late
  PROVE  TypeInv' /\ OrderInv' /\ LateInv'
<1>1. TypeInv'
  BY TablesStep, FlagsStep, ThreadsStep, EsisStep DEF TypeInv, TypeOK
<1> QED
  BY <1>1, OrderStep, LateLinesStay

LEMMA LivingTables ==
  ASSUME NothingIsMoved, TypeInv, OrderInv, TableInv, [Next]_vars
  PROVE  TableInv'
<1> USE DEF TableInv
<1>1. TypeInv'
  BY TablesStep, FlagsStep, ThreadsStep, EsisStep DEF TypeInv, TypeOK
<1>2. OrderInv' /\ LockInv' /\ PlaceInv'
  BY OperatorIsHarmless, OrderStep, LockStep, PlaceStep
<1>3. BusyRuns' /\ ToldOfItsKey' /\ KnownHasQueue'
  BY <1>1, <1>2, BusyStep, ToldStep, KnownStep DEF GrantInv
<1> QED
  BY <1>2, <1>3 DEF GrantInv

-----------------------------------------------------------------------------
(* The theorems.                                                            *)

\* Types, orders and late lines, whatever the operator types.
LEMMA MessagesInvariant ==
  ASSUME AbortsAreSafe
  PROVE  DeathsSpec => [](TypeInv /\ OrderInv /\ LateInv)
<1>1. DeathsInit => TypeInv /\ OrderInv /\ LateInv
  BY TypeInit, OrderInit DEF DeathsInit, LateInv, LateLinesAreReal
<1>2. TypeInv /\ OrderInv /\ LateInv /\ [DeathsNext]_<<vars, deathVars>>
        => (TypeInv /\ OrderInv /\ LateInv)'
  <2> SUFFICES ASSUME TypeInv, OrderInv, LateInv, [DeathsNext]_<<vars, deathVars>>
               PROVE  TypeInv' /\ OrderInv' /\ LateInv'
    OBVIOUS
  <2>1. CASE [Next]_vars /\ UNCHANGED deathVars
    BY <2>1, LivingStep DEF deathVars
  <2>2. ASSUME NEW e \in Esis, EsiDiesInLine(e)
        PROVE  TypeInv' /\ OrderInv' /\ LateInv'
    BY <2>2, DeathTypes, DeathOrders, DeathLateLines
  <2>3. ASSUME NEW e \in Esis, HandleLateKeyStatus(e)
        PROVE  TypeInv' /\ OrderInv' /\ LateInv'
    BY <2>3, LateQuestionTypes, LateQuestionOrders
  <2> QED
    BY <2>1, <2>2, <2>3 DEF DeathsNext
<1> QED
  BY <1>1, <1>2, PTL DEF DeathsSpec

\* At most one operation is under way even when ESIs die in the middle of one,
\* from outside, and the question of their line comes late: the next line is
\* not ordered before the scheduler has counted the death as its end.
THEOREM OneOperationWhoeverDies ==
  ASSUME AbortsAreSafe
  PROVE  DeathsSpec => []AtMostOneOperation
<1>1. OrderInv => AtMostOneOperation
  <2> SUFFICES ASSUME OrderInv PROVE AtMostOneOperation
    OBVIOUS
  <2>1. \A e \in Esis : InFlight(e) => IsBusy(e)
    BY DEF InFlight, IsBusy, Asks, IsOrdered, HasInformed, Contains
  <2> QED
    BY <2>1 DEF AtMostOneOperation, OrderInv, OneIsBusy
<1> QED
  BY <1>1, MessagesInvariant, PTL

\* Whoever dies, and wherever its line was, the locks stay exclusive and their
\* records in agreement, permissions true and every queue there, unless the
\* question of a dead ESI's line has replaced keyRecieved in the middle of
\* another line (sendKeyStatusToCoordinador does not ask whose line it is).
THEOREM LocksOutliveTheDead ==
  ASSUME NothingIsMoved
  PROVE  DeathsSpec => []LocksSurviveDeaths
<1> DEFINE I == TypeInv /\ OrderInv /\ LateInv
           T == ~crossed => TableInv
<1>1. DeathsSpec => []I
  BY OperatorIsHarmless, MessagesInvariant
<1>2. DeathsInit => T
  <2>1. Init => LockInv /\ PlaceInv
    BY LockInit, PlaceInit
  <2>2. Init => GrantInv
    BY GrantInit
  <2> QED
    BY <2>1, <2>2 DEF DeathsInit, TableInv
<1>3. I /\ T /\ [DeathsNext]_<<vars, deathVars>> => T'
  <2> SUFFICES ASSUME I, T, [DeathsNext]_<<vars, deathVars>>, ~crossed'
               PROVE  TableInv'
    OBVIOUS
  <2>1. CASE [Next]_vars /\ UNCHANGED deathVars
    BY <2>1, LivingTables DEF deathVars
  <2>2. ASSUME NEW e \in Esis, EsiDiesInLine(e)
        PROVE  TableInv'
    <3>1. ~crossed
      BY <2>2 DEF EsiDiesInLine
    <3> QED
      BY <2>2, <3>1, DeathLocks, DeathPlaces, DeathGrants DEF TableInv
  <2>3. ASSUME NEW e \in Esis, HandleLateKeyStatus(e)
        PROVE  TableInv'
    <3>1. ~crossed /\ ~KeyIsInUse
      BY <2>3 DEF HandleLateKeyStatus
    <3> QED
      BY <2>3, <3>1, LateQuestionTables DEF TableInv
  <2> QED
    BY <2>1, <2>2, <2>3 DEF DeathsNext
<1>4. I /\ T => LocksSurviveDeaths
  <2> SUFFICES ASSUME TypeInv, TableInv
               PROVE  MutualExclusion /\ LockTablesAgree /\ GrantIsFresh /\ QueuesExist
    BY DEF LocksSurviveDeaths
  <2> QED
    BY LocksAgree, GrantsAreFresh, QueuesAreThere DEF TableInv, LockInv
<1> HIDE DEF I, T
<1> QED
  BY <1>1, <1>2, <1>3, <1>4, PTL DEF DeathsSpec
=============================================================================
