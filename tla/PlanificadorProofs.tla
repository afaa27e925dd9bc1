------------------------- MODULE PlanificadorProofs -------------------------
(* Theorems about Planificador for every set of ESIs, keys and commands: the *)
(* types; AtMostOneOperation for all commands, or, under SJF-CD, for those   *)
(* that leave the aborts safe; and from it, when the operator does not type  *)
(* desbloquear, MutualExclusion and LockTablesAgree.                         *)
EXTENDS Planificador, FiniteSetTheorems, SequenceTheorems,
        WellFoundedInduction, TLAPS

-----------------------------------------------------------------------------
(* Types of the operations on the tables.                                   *)

\* A release of keys (unlockEsi) pops finitely many ids.
LEMMA PoppedFinite ==
  ASSUME TablesTypeOK, NEW times \in [Keys -> Nat]
  PROVE  IsFiniteSet(Popped(times))
<1> DEFINE at(k) == {<<k, i>> : i \in {j \in 1..Len(queue[k]) : j <= times[k]}}
           f == [k \in Keys |-> at(k)]
           S == {at(k) : k \in Keys}
<1>1. ASSUME NEW k \in Keys PROVE IsFiniteSet(at(k))
  <2> DEFINE I == {j \in 1..Len(queue[k]) : j <= times[k]}
             g == [i \in I |-> <<k, i>>]
  <2>1. Len(queue[k]) \in Nat
    BY LenProperties DEF TablesTypeOK
  <2>2. IsFiniteSet(1..Len(queue[k]))
    BY <2>1, FS_Interval
  <2>3. IsFiniteSet(I)
    BY <2>2, FS_Subset
  <2>4. g \in Surjection(I, at(k))
    BY DEF Surjection
  <2> QED
    BY <2>3, <2>4, FS_Surjection DEF ExistsSurjection
<1>2. f \in Surjection(Keys, S)
  <2> HIDE DEF at
  <2>1. f \in [Keys -> S]
    OBVIOUS
  <2>2. \A T \in S : \E k \in Keys : f[k] = T
    OBVIOUS
  <2> QED
    BY <2>1, <2>2 DEF Surjection
<1>3. IsFiniteSet(S)
  BY <1>2, FS_Surjection, PlanificadorAssumption DEF ExistsSurjection
<1>4. \A T \in S : IsFiniteSet(T)
  BY <1>1
<1>5. IsFiniteSet(UNION S)
  BY <1>3, <1>4, FS_UNION
<1> QED
  BY <1>5 DEF Popped

\* unlockEsi keeps readyEsis a list in which each ESI occurs a number of times.
LEMMA ReadyAfterType ==
  ASSUME TablesTypeOK, NEW times \in [Keys -> Nat]
  PROVE  ReadyAfter(times) \in [Esis -> Nat]
<1> SUFFICES ASSUME NEW e \in Esis
             PROVE  ready[e] + Cardinality({p \in Popped(times) :
                                  queue[p[1]][p[2]] = e}) \in Nat
  BY DEF ReadyAfter
<1>1. IsFiniteSet({p \in Popped(times) : queue[p[1]][p[2]] = e})
  BY PoppedFinite, FS_Subset
<1>2. Cardinality({p \in Popped(times) : queue[p[1]][p[2]] = e}) \in Nat
  BY <1>1, FS_CardinalityType
<1> QED
  BY <1>2 DEF TablesTypeOK

\* unlockEsi leaves queues of ids in blockedEsiDic.
LEMMA QueueAfterType ==
  ASSUME TablesTypeOK, NEW times \in [Keys -> Nat]
  PROVE  QueueAfter(times) \in [Keys -> Seq(Esis)]
<1> SUFFICES ASSUME NEW k \in Keys, times[k] <= Len(queue[k])
             PROVE  SubSeq(queue[k], times[k] + 1, Len(queue[k])) \in Seq(Esis)
  BY DEF QueueAfter
<1>1. queue[k] \in Seq(Esis) /\ times[k] \in Nat
  BY DEF TablesTypeOK
<1>2. Len(queue[k]) \in Nat /\ \A i \in 1..Len(queue[k]) : queue[k][i] \in Esis
  BY <1>1, LenProperties, ElementOfSeq
<1>3. \A i \in (times[k] + 1)..Len(queue[k]) : queue[k][i] \in Esis
  BY <1>1, <1>2
<1> QED
  BY <1>1, <1>2, <1>3, SubSeqProperties

\* The least-number principle, in first-order form.
LEMMA LeastNatural ==
  ASSUME NEW T \in SUBSET Nat, T # {}
  PROVE  \E x \in T : \A y \in T : x <= y
<1>1. PICK x \in T : \A y \in T : ~(<<y, x>> \in OpToRel(<, Nat))
  BY NatLessThanWellFounded, WFMin
<1>2. \A y \in T : ~(y < x)
  BY <1>1 DEF OpToRel
<1> QED
  BY <1>2

\* Dropping an id from a blocked queue leaves a queue, at most as long.
LEMMA RemoveFirstType ==
  ASSUME NEW s \in Seq(Esis), NEW e
  PROVE  RemoveFirst(s, e) \in Seq(Esis) /\ Len(RemoveFirst(s, e)) <= Len(s)
<1> DEFINE i == SelectInSeq(s, LAMBDA v : v = e)
           I == {j \in 1..Len(s) : s[j] = e}
<1>1. Len(s) \in Nat /\ \A j \in 1..Len(s) : s[j] \in Esis
  BY LenProperties, ElementOfSeq
<1>2. CASE I = {}
  BY <1>1, <1>2 DEF RemoveFirst
<1>3. CASE I # {}
  <2>1. i = Min(I)
    BY <1>3 DEF SelectInSeq
  <2>2. i \in I
    <3>1. I \in SUBSET Nat
      BY <1>1
    <3> HIDE DEF I, i
    <3>2. \E x \in I : \A y \in I : x <= y
      BY <1>3, <3>1, LeastNatural
    <3> QED
      BY <3>2, <2>1 DEF Min
  <2>3. i \in 1..Len(s)
    BY <2>2
  <2>4. RemoveFirst(s, e) = SubSeq(s, 1, i - 1) \o SubSeq(s, i + 1, Len(s))
    BY <1>3 DEF RemoveFirst, RemoveAt
  <2> HIDE DEF i
  <2> DEFINE front == SubSeq(s, 1, i - 1)
             back  == SubSeq(s, i + 1, Len(s))
  <2>5. i - 1 \in Int /\ i + 1 \in Int /\ Len(s) \in Int /\ 1 \in Int
    BY <1>1, <2>3
  <2>6. front \in Seq(Esis) /\ Len(front) <= i - 1
    <3>1. \A j \in 1..(i - 1) : s[j] \in Esis
      BY <1>1, <2>3
    <3> QED
      BY <3>1, <2>3, <2>5, SubSeqProperties
  <2>7. back \in Seq(Esis) /\ Len(back) <= Len(s) - i
    <3>1. \A j \in (i + 1)..Len(s) : s[j] \in Esis
      BY <1>1, <2>3
    <3> QED
      BY <3>1, <2>3, <2>5, SubSeqProperties
  <2>8. Len(front) \in Nat /\ Len(back) \in Nat
    BY <2>6, <2>7, LenProperties
  <2>9. front \o back \in Seq(Esis) /\ Len(front \o back) = Len(front) + Len(back)
    BY <2>6, <2>7, ConcatProperties
  <2> HIDE DEF front, back
  <2>10. Len(front) + Len(back) <= Len(s)
    BY <2>3, <2>5, <2>6, <2>7, <2>8, <1>1
  <2> QED
    BY <2>4, <2>9, <2>10 DEF front, back
<1> QED
  BY <1>2, <1>3

\* The same for the two drops of deleteEsiFromSystem's sweep.
LEMMA RemoveTwiceType ==
  ASSUME NEW s \in Seq(Esis), NEW e
  PROVE  RemoveTwice(s, e) \in Seq(Esis) /\ Len(RemoveTwice(s, e)) <= Len(s)
<1> DEFINE t == RemoveFirst(s, e)
<1>1. t \in Seq(Esis) /\ Len(t) <= Len(s)
  BY RemoveFirstType
<1> HIDE DEF t
<1>2. RemoveFirst(t, e) \in Seq(Esis) /\ Len(RemoveFirst(t, e)) <= Len(t)
  BY <1>1, RemoveFirstType
<1>3. Len(s) \in Nat /\ Len(t) \in Nat /\ Len(RemoveFirst(t, e)) \in Nat
  BY <1>1, <1>2, LenProperties
<1>4. Len(RemoveFirst(t, e)) <= Len(s)
  BY <1>1, <1>2, <1>3
<1> QED
  BY <1>2, <1>4 DEF RemoveTwice, t

\* The loop of deleteEsiFromSystem ends, at the latest after a full turn.
LEMMA SweepLengthType ==
  ASSUME NEW q \in Seq(Esis), NEW e
  PROVE  SweepLength(q, e) \in 0..Len(q) /\ SweepEnds(q, e, SweepLength(q, e))
<1> DEFINE J == {j \in 0..Len(q) : SweepEnds(q, e, j)}
<1>1. Len(q) \in Nat
  BY LenProperties
<1>2. Len(q) \in J
  <2>1. SubSeq(q, 1, Len(q)) \in Seq(Esis)
    BY <1>1, ElementOfSeq, SubSeqProperties
  <2>2. Len(SubSeq(q, 1, Len(q))) = Len(q)
    BY <1>1, ElementOfSeq, SubSeqProperties
  <2>3. Len(RemoveTwice(SubSeq(q, 1, Len(q)), e)) <= Len(q)
    BY <2>1, <2>2, RemoveTwiceType
  <2>4. Len(RemoveTwice(SubSeq(q, 1, Len(q)), e)) \in Nat
    BY <2>1, RemoveTwiceType, LenProperties
  <2>5. Len(q) >= Len(RemoveTwice(SubSeq(q, 1, Len(q)), e)) + Len(q) - Len(q)
    BY <2>3, <2>4, <1>1
  <2> QED
    BY <2>5, <1>1 DEF SweepEnds
<1>3. J \in SUBSET Nat
  BY <1>1
<1>4. PICK x \in J : \A y \in J : x <= y
  <2> HIDE DEF J
  <2> QED
    BY <1>2, <1>3, LeastNatural
<1>5. x \in 0..Len(q) /\ SweepEnds(q, e, x)
  OBVIOUS
<1>6. \A i \in 0..(x - 1) : ~SweepEnds(q, e, i)
  <2> SUFFICES ASSUME NEW i \in 0..(x - 1), SweepEnds(q, e, i) PROVE FALSE
    OBVIOUS
  <2>1. i \in 0..Len(q) /\ i < x
    BY <1>1, <1>5
  <2>2. i \in J
    BY <2>1
  <2> QED
    BY <1>4, <2>1, <2>2, <1>5
<1>7. \E n \in 0..Len(q) : /\ SweepEnds(q, e, n)
                           /\ \A i \in 0..(n - 1) : ~SweepEnds(q, e, i)
  BY <1>5, <1>6
<1> QED
  BY <1>7 DEF SweepLength

\* The sweep of one blocked queue in deleteEsiFromSystem leaves a queue.
LEMMA SweptType ==
  ASSUME NEW q \in Seq(Esis), NEW e
  PROVE  Swept(q, e) \in Seq(Esis)
<1> DEFINE n == SweepLength(q, e)
<1>1. Len(q) \in Nat /\ n \in 0..Len(q)
  BY LenProperties, SweepLengthType
<1> HIDE DEF n
<1>2. n \in Int /\ n + 1 \in Int /\ Len(q) \in Int
  BY <1>1
<1>3. \A i \in 1..n : q[i] \in Esis
  BY <1>1, ElementOfSeq
<1>4. \A i \in (n + 1)..Len(q) : q[i] \in Esis
  BY <1>1, ElementOfSeq
<1>5. SubSeq(q, 1, n) \in Seq(Esis) /\ SubSeq(q, n + 1, Len(q)) \in Seq(Esis)
  BY <1>2, <1>3, <1>4, SubSeqProperties
<1>6. RemoveTwice(SubSeq(q, 1, n), e) \in Seq(Esis)
  BY <1>5, RemoveTwiceType
<1> QED
  BY <1>5, <1>6, ConcatProperties DEF Swept, n

\* The sweep of deleteEsiFromSystem over every key leaves queues.
LEMMA SweepQueuesType ==
  ASSUME NEW queues \in [Keys -> Seq(Esis)], NEW e
  PROVE  SweepQueues(queues, e) \in [Keys -> Seq(Esis)]
BY SweptType DEF SweepQueues

\* addLockedKeyToEsi, removeLockedKey and finishEsi keep lockedKeys a list of keys.
LEMMA HeldType ==
  ASSUME TablesTypeOK, NEW e \in Esis, NEW k \in Keys
  PROVE  /\ LockedPlus(e, k) \in [Keys -> Nat]
         /\ LockedMinus(e, k) \in [Keys -> Nat]
         /\ FreedAtLeast(e, k) \in [Keys -> Nat]
         /\ Once(k) \in [Keys -> Nat]
         /\ NothingHeld \in [Keys -> Nat]
         /\ locked[e] \in [Keys -> Nat]
<1>1. locked[e] \in [Keys -> Nat]
  BY DEF TablesTypeOK
<1>2. LockedPlus(e, k) \in [Keys -> Nat] /\ FreedAtLeast(e, k) \in [Keys -> Nat]
  BY <1>1 DEF LockedPlus, FreedAtLeast
<1>3. LockedMinus(e, k) \in [Keys -> Nat]
  BY <1>1 DEF LockedMinus
<1>4. Once(k) \in [Keys -> Nat] /\ NothingHeld \in [Keys -> Nat]
  BY DEF Once, NothingHeld
<1> QED
  BY <1>1, <1>2, <1>3, <1>4

\* Replacing the lockedKeys of one ESI keeps those of all well typed.
LEMMA LocksOfType ==
  ASSUME TablesTypeOK, NEW e, NEW held \in [Keys -> Nat]
  PROVE  LocksOf(e, held) \in [Esis -> [Keys -> Nat]]
BY DEF TablesTypeOK, LocksOf

\* What handleEsiInformation frees is a number of times for each key.
LEMMA ReleasesType ==
  ASSUME TablesTypeOK, running \in Esis, keyRecieved \in Keys, NEW i
  PROVE  Releases(i) \in [Keys -> Nat]
BY HeldType DEF Releases

\* unlockEsi leaves readyEsis, the queues and the taken keys well typed.
LEMMA ReleaseType ==
  ASSUME TablesTypeOK, NEW times \in [Keys -> Nat], Release(times)
  PROVE  /\ queue' \in [Keys -> Seq(Esis)]
         /\ ready' \in [Esis -> Nat]
         /\ taken' \in SUBSET Keys
BY QueueAfterType, ReadyAfterType DEF Release, TakenAfter, TablesTypeOK

-----------------------------------------------------------------------------
(* Type correctness.  TypeOK is not inductive alone: that an outcome is    *)
(* applied to a real key, and that a line count never goes below zero,     *)
(* depend on the order in which an operation passes through the processes. *)

OperationsAreReal ==
    /\ \A e \in Esis : phase[e] = "asking" => operation[e] \in Operations
    /\ \A e \in Esis :
          phase[e] = "told" \/ info[e] # NoInfo => keyRecieved \in Keys
LinesAreLeft == \A e \in Esis : Alive(e) => left[e] > 0
TypedIsReal  == console # "prompt" => typed \in Commands
TypeInv == TypeOK /\ OperationsAreReal /\ LinesAreLeft /\ TypedIsReal

\* initializePlanificador starts in a state of TypeInv.
LEMMA TypeInit == Init => TypeInv
<1> SUFFICES ASSUME Init PROVE TypeInv
  OBVIOUS
<1>1. TablesTypeOK
  BY PlanificadorAssumption DEF Init, TablesTypeOK
<1>2. ThreadsTypeOK
  BY PlanificadorAssumption
     DEF Init, ThreadsTypeOK, NoCommand, MainPoints, ConsolePoints
<1>3. EsisTypeOK
  BY PlanificadorAssumption
     DEF Init, EsisTypeOK, Phases, NoOperation, NoInfo, KeyStatuses
<1>4. FlagsTypeOK
  BY DEF Init, FlagsTypeOK
<1>5. OperationsAreReal /\ LinesAreLeft /\ TypedIsReal
  BY DEF Init, OperationsAreReal, LinesAreLeft, TypedIsReal, Alive
<1> QED
  BY <1>1, <1>2, <1>3, <1>4, <1>5 DEF TypeInv, TypeOK

\* blockEsi keeps the tables it writes well typed.
LEMMA BlockTables ==
  ASSUME TablesTypeOK, NEW k \in Keys, NEW e \in Esis,
         UNCHANGED <<system, finished, allKeys, taken, locked>>,
         (running \in Esis /\ BlockRunning(k)) \/ BlockOther(k, e)
  PROVE  TablesTypeOK'
<1>1. CASE running \in Esis /\ BlockRunning(k)
  <2>1. Append(queue[k], running) \in Seq(Esis)
    BY <1>1 DEF TablesTypeOK
  <2> QED
    BY <1>1, <2>1 DEF TablesTypeOK, BlockRunning
<1>2. CASE BlockOther(k, e)
  <2>1. Append(queue[k], e) \in Seq(Esis)
    BY DEF TablesTypeOK
  <2> QED
    BY <1>2, <2>1 DEF TablesTypeOK, BlockOther
<1> QED
  BY <1>1, <1>2

\* executeInstruccion keeps readyEsis and runningEsi well typed.
LEMMA ScheduleTables ==
  ASSUME TablesTypeOK, ExecuteInstruccion
  PROVE  TablesTypeOK'
<1> USE DEF TablesTypeOK, ExecuteInstruccion
<1>1. CASE NothingToRun
  BY <1>1 DEF NothingToRun
<1>2. CASE DispatchNext
  BY <1>2 DEF DispatchNext, OrderToRun
<1>3. CASE ContinueRunning
  BY <1>3 DEF ContinueRunning, OrderToRun
<1>4. CASE DislodgeRunning
  <2>1. PICK e \in system \ {running} :
          /\ ready[e] > 0
          /\ ready' = [ready EXCEPT ![running] = @ + 1, ![e] = @ - 1]
          /\ running' = e
    BY <1>4 DEF DislodgeRunning, OrderToRun
  <2> DEFINE preempted == [ready EXCEPT ![running] = @ + 1]
  <2>2. running \in Esis /\ e \in Esis /\ e # running
    BY <1>4 DEF DislodgeRunning
  <2>3. preempted \in [Esis -> Nat] /\ preempted[e] = ready[e]
    BY <2>2
  <2>4. ready' = [preempted EXCEPT ![e] = @ - 1]
    BY <2>1
  <2> HIDE DEF preempted
  <2>5. preempted[e] - 1 \in Nat
    BY <2>1, <2>2, <2>3
  <2>6. ready' \in [Esis -> Nat]
    BY <2>3, <2>4, <2>5
  <2> QED
    BY <2>1, <2>2, <2>6
<1> QED
  BY <1>1, <1>2, <1>3, <1>4

\* A console command (execute) keeps the tables well typed.
LEMMA ExecuteTables ==
  ASSUME TablesTypeOK, NEW c \in Commands, Execute(c)
  PROVE  TablesTypeOK'
<1>1. c.name \in {"bloquear", "kill"} => c.esi \in Esis
  BY CommandsAssumption
<1>2. c.name \in {"bloquear", "desbloquear", "listar", "status"} => c.key \in Keys
  BY CommandsAssumption
<1>3. CASE ExecuteBloquear(c)
  <2>1. c.esi \in Esis /\ c.key \in Keys
    BY <1>1, <1>2, <1>3 DEF ExecuteBloquear
  <2>2. \/ running \in Esis /\ BlockRunning(c.key)
        \/ BlockOther(c.key, c.esi)
    BY <1>3, <2>1 DEF ExecuteBloquear
  <2> QED
    BY <1>3, <2>1, <2>2, BlockTables DEF ExecuteBloquear, Execute
<1>4. CASE ExecuteDesbloquear(c)
  <2>1. Once(c.key) \in [Keys -> Nat]
    BY DEF Once
  <2>2. queue' \in [Keys -> Seq(Esis)] /\ ready' \in [Esis -> Nat]
    BY <1>4, <2>1, QueueAfterType, ReadyAfterType DEF ExecuteDesbloquear
  <2> QED
    BY <1>4, <2>2 DEF ExecuteDesbloquear, Execute, TablesTypeOK
<1>5. CASE UNCHANGED <<running, ready, queue, dicKeys, taken>>
  BY <1>5 DEF Execute, TablesTypeOK
<1> QED
  BY <1>3, <1>4, <1>5
     DEF Execute, ExecutePausar, ExecuteListar, ExecuteKill, ExecuteStatus

\* finishEsi keeps the tables well typed.
LEMMA FinishesTables ==
  ASSUME TablesTypeOK, NEW e \in Esis, running \in Esis,
         keyRecieved \in Keys, Finishes(e)
  PROVE  /\ queue' \in [Keys -> Seq(Esis)]
         /\ ready' \in [Esis -> Nat]
         /\ taken' \in SUBSET Keys
         /\ locked' \in [Esis -> [Keys -> Nat]]
         /\ finished' \in SUBSET Esis
         /\ running' \in Esis \union {NoEsi}
<1>1. Releases(info[e]) \in [Keys -> Nat]
  BY ReleasesType
<1>2. locked' \in [Esis -> [Keys -> Nat]]
  BY LocksOfType DEF Finishes, NothingHeld
<1> QED
  BY <1>1, <1>2, ReleaseType DEF Finishes, TablesTypeOK

\* handleEsiInformation keeps the tables well typed.
LEMMA InformationTables ==
  ASSUME TypeInv, NEW e \in Esis, HandleEsiInformation(e)
  PROVE  TablesTypeOK'
<1>1. TablesTypeOK
  BY DEF TypeInv, TypeOK
<1>2. running \in Esis /\ keyRecieved \in Keys /\ system' = system
  BY DEF TypeInv, TypeOK, TablesTypeOK, OperationsAreReal, HandleEsiInformation,
         HandleSuccess, HandleLock, HandleBlock, HandleFree, HandleAbort, Receives
<1>3. LocksOf(running, LockedPlus(running, keyRecieved)) \in [Esis -> [Keys -> Nat]]
  BY <1>1, <1>2, HeldType, LocksOfType
<1>4. LocksOf(running, LockedMinus(running, keyRecieved)) \in [Esis -> [Keys -> Nat]]
  BY <1>1, <1>2, HeldType, LocksOfType
<1>5. CASE HandleSuccess(e)
  BY <1>1, <1>2, <1>5, FinishesTables DEF HandleSuccess, Continues, TablesTypeOK
<1>6. CASE HandleLock(e)
  BY <1>1, <1>2, <1>3, <1>6, FinishesTables
     DEF HandleLock, Continues, TablesTypeOK
<1>7. CASE HandleBlock(e)
  BY <1>1, <1>2, <1>7, BlockTables DEF HandleBlock, Receives
<1>8. CASE HandleFree(e)
  <2>1. Releases(info[e]) \in [Keys -> Nat]
    BY <1>1, <1>2, ReleasesType
  <2> QED
    BY <1>1, <1>2, <1>4, <1>8, <2>1, FinishesTables, ReleaseType
       DEF HandleFree, Continues, TablesTypeOK
<1>9. CASE HandleAbort(e)
  BY <1>1, <1>2, <1>9 DEF HandleAbort, TablesTypeOK
<1> QED
  BY <1>5, <1>6, <1>7, <1>8, <1>9 DEF HandleEsiInformation

\* abortEsi, up to the point where it is cut, keeps the tables well typed.
LEMMA DisconnectTables ==
  ASSUME TablesTypeOK, NEW e \in Esis,
         DisconnectReady(e) \/ DisconnectRunning(e) \/ DisconnectOther(e)
  PROVE  TablesTypeOK'
<1>1. locked[e] \in [Keys -> Nat]
  BY DEF TablesTypeOK
<1>2. /\ finished' = finished /\ dicKeys' = dicKeys /\ allKeys' = allKeys
      /\ taken' = TakenAfter(locked[e])
      /\ locked' = LocksOf(e, NothingHeld)
      /\ running' = running
  BY DEF DisconnectReady, DisconnectRunning, DisconnectOther, FreesAll
<1>3. locked' \in [Esis -> [Keys -> Nat]]
  BY <1>2, LocksOfType DEF NothingHeld
<1>4. system' \in SUBSET Esis
  BY DEF DisconnectReady, DisconnectRunning, DisconnectOther,
         RemoveFromSystem, TablesTypeOK
<1>5. QueueAfter(locked[e]) \in [Keys -> Seq(Esis)]
  BY <1>1, QueueAfterType
<1>6. queue' \in [Keys -> Seq(Esis)]
  BY <1>5, SweepQueuesType DEF DisconnectReady, DisconnectRunning, DisconnectOther
<1>7. ReadyAfter(locked[e]) \in [Esis -> Nat]
  BY <1>1, ReadyAfterType
<1>8. ready' \in [Esis -> Nat]
  BY <1>7 DEF DisconnectReady, DisconnectRunning, DisconnectOther,
              IsInReadyAfterFreeing
<1>9. taken' \in SUBSET Keys
  BY <1>2 DEF TakenAfter, TablesTypeOK
<1> QED
  BY <1>2, <1>3, <1>4, <1>6, <1>8, <1>9 DEF TablesTypeOK

\* Every step of Next keeps the tables of the scheduler well typed.
LEMMA TablesStep == TypeInv /\ [Next]_vars => TablesTypeOK'
<1> SUFFICES ASSUME TypeInv, [Next]_vars PROVE TablesTypeOK'
  OBVIOUS
<1>1. TablesTypeOK /\ pending \in Seq(Commands)
  BY DEF TypeInv, TypeOK, ThreadsTypeOK
<1>2. CASE UNCHANGED tables
  BY <1>1, <1>2 DEF tables, TablesTypeOK
<1>3. CASE ConsoleExecutes
  <2>1. typed \in Commands
    BY <1>3 DEF TypeInv, TypedIsReal, ConsoleExecutes
  <2> QED
    BY <1>1, <1>2, <1>3, <2>1, ExecuteTables DEF ConsoleExecutes, Crash
<1>4. CASE DrainCommand
  <2>1. Head(pending) \in Commands
    BY <1>1, <1>4 DEF DrainCommand
  <2> QED
    BY <1>1, <1>2, <1>4, <2>1, ExecuteTables DEF DrainCommand, Crash, Skip
<1>5. CASE MainSchedules \/ ConsoleKicks
  BY <1>1, <1>5, ScheduleTables DEF MainSchedules, ConsoleKicks
<1>6. CASE \E e \in Esis : EsiConnects(e)
  BY <1>1, <1>6 DEF EsiConnects, TablesTypeOK
<1>7. CASE \E e \in Esis : HandleEsiInformation(e)
  BY <1>7, InformationTables
<1>8. CASE \E e \in Esis :
             DisconnectReady(e) \/ DisconnectRunning(e) \/ DisconnectOther(e)
  BY <1>1, <1>8, DisconnectTables
<1>9. CASE AbortEnds
  <2>1. queue' \in [Keys -> Seq(Esis)]
    BY <1>1, <1>9, SweepQueuesType DEF AbortEnds, TablesTypeOK
  <2> QED
    BY <1>1, <1>9, <2>1 DEF AbortEnds, RemoveFromSystem, TablesTypeOK
<1>10. CASE UNCHANGED vars
  BY <1>2, <1>10 DEF vars
<1>11. CASE HandleStatusResponse \/ DrainEnds \/ SetFinishedExecuting
            \/ MainSticks \/ ScheduleCrashes
  BY <1>2, <1>11 DEF HandleStatusResponse, DrainEnds, SetFinishedExecuting,
                     MainSticks, ScheduleCrashes, Crash
<1>12. CASE \E e \in Esis : HandleKeyStatus(e) \/ InformationCrashes(e)
                            \/ DisconnectReadyCrashes(e)
  BY <1>2, <1>12 DEF HandleKeyStatus, InformationCrashes,
                     DisconnectReadyCrashes, Crash
<1>13. CASE ConsoleQueuesCommand \/ ConsoleLocksMutex \/ ConsoleSticks
  BY <1>2, <1>13 DEF ConsoleQueuesCommand, ConsoleLocksMutex, ConsoleSticks
<1>14. CASE Typing
  BY <1>2, <1>14 DEF Typing, ConsoleReads
<1>15. CASE \E e \in Esis : EsiStep(e)
  BY <1>2, <1>15 DEF EsiStep, EsiRunsLine, EsiRejectsLine, EsiIsKilled,
                     EsiAnswers, planificadorUnchanged
<1> QED
  BY <1>3, <1>4, <1>5, <1>6, <1>7, <1>8, <1>9, <1>10, <1>11, <1>12, <1>13,
     <1>14, <1>15 DEF Next, SelectLoop, Console, Arrivals

\* Every step of Next keeps pauseState and finishedExecutingInstruccion booleans.
LEMMA FlagsStep == TypeInv /\ [Next]_vars => FlagsTypeOK'
<1> SUFFICES ASSUME TypeInv, [Next]_vars PROVE FlagsTypeOK'
  OBVIOUS
<1>1. FlagsTypeOK
  BY DEF TypeInv, TypeOK
<1>2. CASE UNCHANGED <<paused, finishedExec, readyMutexLeaked>>
  BY <1>1, <1>2 DEF FlagsTypeOK
<1>3. ASSUME NEW c, Execute(c), UNCHANGED finishedExec,
             readyMutexLeaked' \in BOOLEAN
      PROVE  FlagsTypeOK'
  <2>1. paused' \in BOOLEAN
    BY <1>1, <1>3
       DEF Execute, ExecutePausar, ExecuteBloquear, ExecuteDesbloquear,
           ExecuteListar, ExecuteKill, ExecuteStatus, FlagsTypeOK
  <2> QED
    BY <1>1, <1>3, <2>1 DEF FlagsTypeOK
<1>4. CASE ConsoleExecutes
  BY <1>1, <1>2, <1>3, <1>4 DEF ConsoleExecutes, Crash, consoleVars, FlagsTypeOK
<1>5. CASE DrainCommand
  <2>1. readyMutexLeaked' \in BOOLEAN
    BY <1>1, <1>5 DEF DrainCommand, Crash, consoleVars, FlagsTypeOK, LeakAfter
  <2> QED
    BY <1>1, <1>2, <1>3, <1>5, <2>1 DEF DrainCommand, Crash, Skip, FlagsTypeOK
<1>6. CASE MainSchedules \/ ConsoleKicks
  BY <1>1, <1>6 DEF MainSchedules, ConsoleKicks, ExecuteInstruccion,
     NothingToRun, DispatchNext, ContinueRunning, DislodgeRunning, OrderToRun,
     FlagsTypeOK
<1>7. CASE \E e \in Esis : HandleEsiInformation(e)
  BY <1>2, <1>7 DEF HandleEsiInformation, HandleSuccess, HandleLock,
     HandleBlock, HandleFree, HandleAbort, Receives, consoleVars
<1>8. CASE \E e \in Esis :
             DisconnectReady(e) \/ DisconnectRunning(e) \/ DisconnectOther(e)
  BY <1>2, <1>8 DEF DisconnectReady, DisconnectRunning, DisconnectOther,
     FreesAll, consoleVars
<1>9. CASE SetFinishedExecuting
  BY <1>1, <1>9 DEF SetFinishedExecuting, consoleVars, FlagsTypeOK
<1>10. CASE UNCHANGED vars
  BY <1>2, <1>10 DEF vars, consoleVars
<1>11. CASE HandleStatusResponse \/ DrainEnds \/ AbortEnds
            \/ MainSticks \/ ScheduleCrashes
  BY <1>2, <1>11 DEF HandleStatusResponse, DrainEnds, AbortEnds,
                     MainSticks, ScheduleCrashes, Crash, consoleVars
<1>12. CASE \E e \in Esis : \/ HandleKeyStatus(e) \/ InformationCrashes(e)
                            \/ DisconnectReadyCrashes(e) \/ EsiConnects(e)
  BY <1>2, <1>12 DEF HandleKeyStatus, InformationCrashes,
                     DisconnectReadyCrashes, EsiConnects, Crash, consoleVars
<1>13. CASE ConsoleQueuesCommand \/ ConsoleLocksMutex \/ ConsoleSticks
  BY <1>2, <1>13 DEF ConsoleQueuesCommand, ConsoleLocksMutex, ConsoleSticks
<1>14. CASE Typing
  <2>1. PICK c \in Commands : ConsoleReads(c)
    BY <1>14 DEF Typing
  <2>2. readyMutexLeaked' \in BOOLEAN
    BY <1>1, <2>1 DEF ConsoleReads, FlagsTypeOK, LeakAfter
  <2> QED
    BY <1>1, <2>1, <2>2 DEF ConsoleReads, FlagsTypeOK
<1>15. CASE \E e \in Esis : EsiStep(e)
  BY <1>2, <1>15 DEF EsiStep, EsiRunsLine, EsiRejectsLine, EsiIsKilled,
                     EsiAnswers, planificadorUnchanged, consoleVars
<1> QED
  BY <1>4, <1>5, <1>6, <1>7, <1>8, <1>9, <1>10, <1>11, <1>12, <1>13, <1>14,
     <1>15 DEF Next, SelectLoop, Console, Arrivals

\* A message sent to an ESI leaves well typed inboxes.
LEMMA SendType ==
  ASSUME EsisTypeOK, NEW e \in Esis, NEW m \in {"RUN", "KILLESI"}, Send(e, m)
  PROVE  inbox' \in [Esis -> Seq({"RUN", "KILLESI"})]
<1>1. Append(inbox[e], m) \in Seq({"RUN", "KILLESI"})
  BY DEF EsisTypeOK
<1> QED
  BY <1>1 DEF Send, EsisTypeOK

\* What Execute does outside the tables.
LEMMA ExecuteThreads ==
  ASSUME ThreadsTypeOK, EsisTypeOK, NEW c \in Commands, Execute(c)
  PROVE  /\ globalKey' \in Keys \union {NoKey}
         /\ statusReplies' \in Nat
         /\ inbox' \in [Esis -> Seq({"RUN", "KILLESI"})]
<1>1. /\ c.name = "status" => c.key \in Keys
      /\ c.name = "kill" => c.esi \in Esis
  BY CommandsAssumption
<1>2. CASE ExecuteKill(c)
  BY <1>1, <1>2, SendType DEF ExecuteKill, ThreadsTypeOK, EsisTypeOK
<1>3. CASE ~ExecuteKill(c)
  BY <1>1, <1>3
     DEF Execute, ExecutePausar, ExecuteBloquear, ExecuteDesbloquear,
         ExecuteListar, ExecuteStatus, ThreadsTypeOK, EsisTypeOK
<1> QED
  BY <1>2, <1>3

\* The order executeInstruccion sends leaves well typed inboxes.
LEMMA ScheduleInbox ==
  ASSUME TablesTypeOK, EsisTypeOK, ExecuteInstruccion
  PROVE  inbox' \in [Esis -> Seq({"RUN", "KILLESI"})]
<1>1. CASE NothingToRun
  BY <1>1 DEF NothingToRun, EsisTypeOK
<1>2. CASE DispatchNext
  BY <1>2, SendType DEF DispatchNext, OrderToRun, TablesTypeOK
<1>3. CASE ContinueRunning
  BY <1>3, SendType DEF ContinueRunning, OrderToRun, TablesTypeOK
<1>4. CASE DislodgeRunning
  BY <1>4, SendType DEF DislodgeRunning, OrderToRun, TablesTypeOK
<1> QED
  BY <1>1, <1>2, <1>3, <1>4 DEF ExecuteInstruccion

\* Every step of Next keeps the two threads at points of their code.
LEMMA ThreadsStep ==
  TypeInv /\ [Next]_vars => ThreadsTypeOK' /\ TypedIsReal'
<1> SUFFICES ASSUME TypeInv, [Next]_vars PROVE ThreadsTypeOK' /\ TypedIsReal'
  OBVIOUS
<1>1. TablesTypeOK /\ ThreadsTypeOK /\ EsisTypeOK /\ TypedIsReal
  BY DEF TypeInv, TypeOK
<1> USE DEF ThreadsTypeOK, TypedIsReal
<1>2. CASE UNCHANGED <<messages, pending, mode, main, dying, console, typed, budget>>
  BY <1>1, <1>2 DEF messages
<1>3. CASE Crash
  BY <1>1, <1>3 DEF Crash, messages, consoleVars
<1>4. CASE ConsoleExecutes
  <2>1. typed \in Commands
    BY <1>1, <1>4 DEF ConsoleExecutes
  <2> QED
    BY <1>1, <1>3, <1>4, <2>1, ExecuteThreads DEF ConsoleExecutes, ConsolePoints
<1>5. CASE DrainCommand
  <2>1. Head(pending) \in Commands /\ Tail(pending) \in Seq(Commands)
    BY <1>1, <1>5 DEF DrainCommand
  <2> QED
    BY <1>1, <1>3, <1>5, <2>1, ExecuteThreads DEF DrainCommand, Skip
<1>6. CASE MainSchedules \/ ConsoleKicks
  BY <1>1, <1>6 DEF MainSchedules, ConsoleKicks, ExecuteInstruccion, messages,
                    ConsolePoints, MainPoints
<1>7. CASE ConsoleQueuesCommand
  <2>1. Append(pending, typed) \in Seq(Commands)
    BY <1>1, <1>7 DEF ConsoleQueuesCommand
  <2> QED
    BY <1>1, <1>7, <2>1 DEF ConsoleQueuesCommand, messages, ConsolePoints
<1>8. CASE ConsoleLocksMutex \/ ConsoleSticks
  BY <1>1, <1>8 DEF ConsoleLocksMutex, ConsoleSticks, messages, ConsolePoints
<1>9. CASE Typing
  <2>1. PICK c \in Commands : ConsoleReads(c)
    BY <1>9 DEF Typing
  <2>2. budget' \in 0..MaxCommands
    BY <1>1, <2>1, PlanificadorAssumption DEF ConsoleReads
  <2> QED
    BY <1>1, <2>1, <2>2 DEF ConsoleReads, messages, ConsolePoints
<1>10. CASE \E e \in Esis : HandleKeyStatus(e)
  <2>1. PICK e \in Esis : HandleKeyStatus(e)
    BY <1>10
  <2>2. operation[e].key \in Keys
    BY <2>1 DEF HandleKeyStatus, TypeInv, OperationsAreReal, Operations
  <2> QED
    BY <1>1, <2>1, <2>2 DEF HandleKeyStatus, consoleVars, MainPoints
<1>11. CASE HandleStatusResponse
  BY <1>1, <1>3, <1>11 DEF HandleStatusResponse, consoleVars, MainPoints
<1>12. CASE \E e \in Esis : HandleEsiInformation(e)
  BY <1>1, <1>12 DEF HandleEsiInformation, HandleSuccess, HandleLock,
     HandleBlock, HandleFree, HandleAbort, Receives, messages, consoleVars,
     MainPoints
<1>13. CASE \E e \in Esis :
              DisconnectReady(e) \/ DisconnectRunning(e) \/ DisconnectOther(e)
  BY <1>1, <1>13 DEF DisconnectReady, DisconnectRunning, DisconnectOther,
     FreesAll, messages, consoleVars, MainPoints
<1>14. CASE DrainEnds \/ SetFinishedExecuting \/ AbortEnds \/ MainSticks
            \/ Arrivals
  BY <1>1, <1>14 DEF DrainEnds, AfterDrain, SetFinishedExecuting, AbortEnds,
     MainSticks, Arrivals, EsiConnects, messages, consoleVars, MainPoints
<1>15. CASE \E e \in Esis : EsiStep(e)
  BY <1>2, <1>15 DEF EsiStep, EsiRunsLine, EsiRejectsLine, EsiIsKilled,
     EsiAnswers, planificadorUnchanged, consoleVars
<1>16. CASE UNCHANGED vars
  BY <1>2, <1>16 DEF vars, consoleVars
<1>17. CASE ScheduleCrashes
            \/ \E e \in Esis : InformationCrashes(e) \/ DisconnectReadyCrashes(e)
  BY <1>3, <1>17 DEF ScheduleCrashes, InformationCrashes, DisconnectReadyCrashes
<1> QED
  BY <1>4, <1>5, <1>6, <1>7, <1>8, <1>9, <1>10, <1>11, <1>12, <1>13, <1>14,
     <1>15, <1>16, <1>17 DEF Next, SelectLoop, Console

\* An answer of the coordinator leaves the ESI with lines, or ended.
LEMMA AnswerType ==
  ASSUME TypeInv, NEW e \in Esis, EsiAnswers(e)
  PROVE  EsisTypeOK' /\ OperationsAreReal' /\ LinesAreLeft'
<1>1. EsisTypeOK /\ OperationsAreReal /\ LinesAreLeft
  BY DEF TypeInv, TypeOK
<1>2. left[e] \in 1..MaxLines /\ phase[e] = "told" /\ keyRecieved \in Keys
  BY <1>1, PlanificadorAssumption
     DEF EsiAnswers, EsisTypeOK, LinesAreLeft, Alive, OperationsAreReal
<1>3. PICK r \in CoordinadorResponses(operation[e].code, status[e]) :
        LET rest == IF Advances(r) THEN left[e] - 1 ELSE left[e]
            exits == r = "ABORT" \/ rest = 0
        IN  /\ left' = [left EXCEPT ![e] = rest]
            /\ info' = [info EXCEPT ![e] = [response |-> r,
                   esiStatus |-> IF rest = 0 THEN "FINISHED"
                                             ELSE "NOTFINISHED"]]
            /\ operation' = [operation EXCEPT ![e] =
                   IF Advances(r) THEN NoOperation ELSE @]
            /\ phase' = [phase EXCEPT ![e] =
                   IF exits THEN "exited" ELSE "waiting"]
            /\ inbox' = [inbox EXCEPT ![e] = IF exits THEN <<>> ELSE @]
  BY DEF EsiAnswers
<1> DEFINE rest == IF Advances(r) THEN left[e] - 1 ELSE left[e]
           exits == r = "ABORT" \/ rest = 0
           ended == IF rest = 0 THEN "FINISHED" ELSE "NOTFINISHED"
<1>4. r \in Responses
  BY <1>3 DEF CoordinadorResponses, Responses
<1>5. rest \in 0..MaxLines
  BY <1>2, PlanificadorAssumption
<1>6. [response |-> r, esiStatus |-> ended] \in Infos
  BY <1>4 DEF Infos
<1>7. /\ left' = [left EXCEPT ![e] = rest]
      /\ info' = [info EXCEPT ![e] = [response |-> r, esiStatus |-> ended]]
      /\ operation' = [operation EXCEPT ![e] =
             IF Advances(r) THEN NoOperation ELSE @]
      /\ phase' = [phase EXCEPT ![e] = IF exits THEN "exited" ELSE "waiting"]
      /\ inbox' = [inbox EXCEPT ![e] = IF exits THEN <<>> ELSE @]
      /\ UNCHANGED <<status, keyRecieved>>
  BY <1>3 DEF EsiAnswers, planificadorUnchanged, messages
<1> HIDE DEF rest
<1>8. left' \in [Esis -> 0..MaxLines]
  BY <1>1, <1>5, <1>7 DEF EsisTypeOK
<1>9. info' \in [Esis -> Infos \union {NoInfo}]
  BY <1>1, <1>6, <1>7 DEF EsisTypeOK
<1>10. phase' \in [Esis -> Phases]
  BY <1>1, <1>7 DEF EsisTypeOK, Phases
<1>11. operation' \in [Esis -> Operations \union {NoOperation}]
  BY <1>1, <1>7 DEF EsisTypeOK
<1>12. inbox' \in [Esis -> Seq({"RUN", "KILLESI"})]
  BY <1>1, <1>7 DEF EsisTypeOK
<1>13. EsisTypeOK'
  BY <1>1, <1>7, <1>8, <1>9, <1>10, <1>11, <1>12 DEF EsisTypeOK
<1>14. OperationsAreReal'
  BY <1>1, <1>2, <1>7 DEF OperationsAreReal, EsisTypeOK
<1>15. LinesAreLeft'
  <2> SUFFICES ASSUME NEW f \in Esis, Alive(f)' PROVE left'[f] > 0
    BY DEF LinesAreLeft
  <2>1. CASE f = e
    BY <1>1, <1>5, <1>7, <2>1 DEF Alive, EsisTypeOK
  <2>2. CASE f # e
    BY <1>1, <1>7, <2>2 DEF Alive, EsisTypeOK, LinesAreLeft
  <2> QED
    BY <2>1, <2>2
<1> QED
  BY <1>13, <1>14, <1>15

\* Every step of Next keeps the ESIs and their messages well typed.
LEMMA EsisStep ==
  TypeInv /\ [Next]_vars => EsisTypeOK' /\ OperationsAreReal' /\ LinesAreLeft'
<1> SUFFICES ASSUME TypeInv, [Next]_vars
             PROVE  EsisTypeOK' /\ OperationsAreReal' /\ LinesAreLeft'
  OBVIOUS
<1>1. /\ TablesTypeOK /\ ThreadsTypeOK /\ EsisTypeOK
      /\ OperationsAreReal /\ LinesAreLeft
  BY DEF TypeInv, TypeOK
<1>2. ASSUME inbox' \in [Esis -> Seq({"RUN", "KILLESI"})],
             UNCHANGED <<keyRecieved, phase, operation, left, status, info>>
      PROVE  EsisTypeOK' /\ OperationsAreReal' /\ LinesAreLeft'
  BY <1>1, <1>2 DEF EsisTypeOK, OperationsAreReal, LinesAreLeft, Alive
<1>3. CASE UNCHANGED <<keyRecieved, esiVars>>
  BY <1>1, <1>2, <1>3 DEF esiVars, EsisTypeOK
<1>4. CASE Crash
  BY <1>3, <1>4 DEF Crash, messages
<1>5. CASE ConsoleExecutes
  <2>1. typed \in Commands
    BY <1>5 DEF ConsoleExecutes, TypeInv, TypedIsReal
  <2> QED
    BY <1>1, <1>2, <1>4, <1>5, <2>1, ExecuteThreads DEF ConsoleExecutes
<1>6. CASE DrainCommand
  <2>1. Head(pending) \in Commands
    BY <1>1, <1>6 DEF DrainCommand, ThreadsTypeOK
  <2>2. inbox' \in [Esis -> Seq({"RUN", "KILLESI"})] \/ Crash
    BY <1>1, <1>6, <2>1, ExecuteThreads DEF DrainCommand, Skip, EsisTypeOK
  <2> QED
    BY <1>2, <1>4, <1>6, <2>2 DEF DrainCommand, Crash, messages, esiVars
<1>7. CASE MainSchedules \/ ConsoleKicks
  <2>1. ExecuteInstruccion
    BY <1>7 DEF MainSchedules, ConsoleKicks
  <2> QED
    BY <1>1, <1>2, <2>1, ScheduleInbox DEF ExecuteInstruccion, messages
<1>8. CASE \E e \in Esis : EsiConnects(e)
  <2>1. PICK e \in Esis : EsiConnects(e)
    BY <1>8
  <2>2. PICK lines \in 1..MaxLines : left' = [left EXCEPT ![e] = lines]
    BY <2>1 DEF EsiConnects
  <2>3. lines \in 0..MaxLines /\ lines > 0
    BY PlanificadorAssumption
  <2>4. /\ phase' = [phase EXCEPT ![e] = "waiting"]
        /\ UNCHANGED <<keyRecieved, inbox, operation, status, info>>
    BY <2>1 DEF EsiConnects, messages
  <2>5. EsisTypeOK'
    BY <1>1, <2>2, <2>3, <2>4 DEF EsisTypeOK, Phases
  <2>6. OperationsAreReal'
    BY <1>1, <2>4 DEF EsisTypeOK, OperationsAreReal
  <2>7. LinesAreLeft'
    BY <1>1, <2>2, <2>3, <2>4 DEF EsisTypeOK, LinesAreLeft, Alive
  <2> QED
    BY <2>5, <2>6, <2>7
<1>9. CASE \E e \in Esis : HandleKeyStatus(e)
  <2>1. PICK e \in Esis : HandleKeyStatus(e)
    BY <1>9
  <2>2. operation[e].key \in Keys
    BY <1>1, <2>1 DEF HandleKeyStatus, OperationsAreReal, Operations
  <2>3. KeyStatus(operation[e].key) \in KeyStatuses
    BY DEF KeyStatus, IsLockedKey, KeyStatuses
  <2>4. EsisTypeOK'
    BY <1>1, <2>1, <2>3 DEF HandleKeyStatus, EsisTypeOK, Phases
  <2>5. OperationsAreReal'
    BY <1>1, <2>1, <2>2 DEF HandleKeyStatus, OperationsAreReal, EsisTypeOK
  <2>6. LinesAreLeft'
    BY <1>1, <2>1 DEF HandleKeyStatus, LinesAreLeft, Alive, EsisTypeOK
  <2> QED
    BY <2>4, <2>5, <2>6
<1>10. CASE \E e \in Esis : HandleEsiInformation(e)
  <2>1. PICK e \in Esis : HandleEsiInformation(e)
    BY <1>10
  <2>2. /\ info' = [info EXCEPT ![e] = NoInfo]
        /\ UNCHANGED <<keyRecieved, phase, inbox, operation, left, status>>
    BY <2>1 DEF HandleEsiInformation, HandleSuccess, HandleLock, HandleBlock,
                HandleFree, HandleAbort, Receives, messages
  <2> QED
    BY <1>1, <2>2 DEF EsisTypeOK, OperationsAreReal, LinesAreLeft, Alive
<1>11. CASE \E e \in Esis :
              DisconnectReady(e) \/ DisconnectRunning(e) \/ DisconnectOther(e)
  <2>1. PICK e \in Esis : /\ phase' = [phase EXCEPT ![e] = "gone"]
                          /\ UNCHANGED <<keyRecieved, inbox, operation, left,
                                         status, info>>
    BY <1>11 DEF DisconnectReady, DisconnectRunning, DisconnectOther, FreesAll,
                 messages
  <2> QED
    BY <1>1, <2>1 DEF EsisTypeOK, Phases, OperationsAreReal, LinesAreLeft, Alive
<1>12. CASE \E e \in Esis : EsiRunsLine(e)
  <2>1. PICK e \in Esis : EsiRunsLine(e)
    BY <1>12
  <2>2. Tail(inbox[e]) \in Seq({"RUN", "KILLESI"})
    BY <1>1, <2>1 DEF EsiRunsLine, EsisTypeOK
  <2>3. /\ operation' \in [Esis -> Operations \union {NoOperation}]
        /\ operation'[e] \in Operations
        /\ \A f \in Esis \ {e} : operation'[f] = operation[f]
    BY <1>1, <2>1 DEF EsiRunsLine, EsisTypeOK
  <2>4. EsisTypeOK'
    BY <1>1, <2>1, <2>2, <2>3 DEF EsiRunsLine, EsisTypeOK, Phases
  <2>5. OperationsAreReal'
    BY <1>1, <2>1, <2>3 DEF EsiRunsLine, EsisTypeOK, OperationsAreReal,
                            planificadorUnchanged, messages
  <2>6. LinesAreLeft'
    BY <1>1, <2>1 DEF EsiRunsLine, EsisTypeOK, LinesAreLeft, Alive
  <2> QED
    BY <2>4, <2>5, <2>6
<1>13. CASE \E e \in Esis : EsiRejectsLine(e) \/ EsiIsKilled(e)
  <2>1. PICK e \in Esis : /\ inbox' = [inbox EXCEPT ![e] = <<>>]
                          /\ phase' = [phase EXCEPT ![e] = "exited"]
                          /\ UNCHANGED <<keyRecieved, operation, left, status, info>>
    BY <1>13 DEF EsiRejectsLine, EsiIsKilled, planificadorUnchanged, messages
  <2> QED
    BY <1>1, <2>1 DEF EsisTypeOK, Phases, OperationsAreReal, LinesAreLeft, Alive
<1>14. CASE \E e \in Esis : EsiAnswers(e)
  BY <1>14, AnswerType
<1>15. CASE UNCHANGED vars
  BY <1>3, <1>15 DEF vars, messages
<1>16. CASE HandleStatusResponse \/ DrainEnds \/ SetFinishedExecuting
            \/ AbortEnds \/ MainSticks
  BY <1>3, <1>4, <1>16 DEF HandleStatusResponse, DrainEnds,
     SetFinishedExecuting, AbortEnds, MainSticks, messages
<1>17. CASE ConsoleQueuesCommand \/ ConsoleLocksMutex \/ ConsoleSticks \/ Typing
  BY <1>3, <1>17 DEF ConsoleQueuesCommand, ConsoleLocksMutex, ConsoleSticks,
     Typing, ConsoleReads, messages
<1>18. CASE ScheduleCrashes
            \/ \E e \in Esis : InformationCrashes(e) \/ DisconnectReadyCrashes(e)
  BY <1>4, <1>18 DEF ScheduleCrashes, InformationCrashes, DisconnectReadyCrashes
<1> QED
  BY <1>5, <1>6, <1>7, <1>8, <1>9, <1>10, <1>11, <1>12, <1>13, <1>14, <1>15,
     <1>16, <1>17, <1>18 DEF Next, SelectLoop, Console, Arrivals, EsiStep

\* The tables, flags, messages and processes keep their types, for every set of
\* ESIs, keys and commands, with or without failures and preemption: in
\* particular an outcome is only ever applied to a key that was asked for, and
\* the count of a ready list entry never goes below zero.
THEOREM TypeCorrect == Spec => []TypeOK
<1>1. Init => TypeInv
  BY TypeInit
<1>2. TypeInv /\ [Next]_vars => TypeInv'
  BY TablesStep, FlagsStep, ThreadsStep, EsisStep DEF TypeInv, TypeOK
<1>3. TypeInv => TypeOK
  BY DEF TypeInv
<1> QED
  BY <1>1, <1>2, <1>3, PTL DEF Spec

-----------------------------------------------------------------------------
(* One operation at a time: the inductive invariant.                        *)

Asks(e)        == phase[e] \in {"asking", "told"}
IsOrdered(e)   == \E i \in 1..Len(inbox[e]) : inbox[e][i] = "RUN"
HasInformed(e) == info[e] # NoInfo
\* InFlight(e), where the inbox of a dead ESI is empty
IsBusy(e)      == Asks(e) \/ IsOrdered(e) \/ HasInformed(e)
NobodyIsBusy   == \A e \in Esis : ~IsBusy(e)

\* An order is one message, then one operation, then one outcome.
OrdersAreSingle ==
    \A e \in Esis :
        /\ ~Alive(e) => inbox[e] = <<>>
        /\ IsOrdered(e) => ~Asks(e) /\ ~HasInformed(e)
        /\ Asks(e) => ~HasInformed(e)
        /\ \A i, j \in 1..Len(inbox[e]) :
              inbox[e][i] = "RUN" /\ inbox[e][j] = "RUN" => i = j

\* One ESI is busy, while the flag is false; unless it was blocked from the
\* console meanwhile, it is the running one.
OneIsBusy ==
    /\ \A e, f \in Esis : IsBusy(e) /\ IsBusy(f) => e = f
    /\ \A e \in Esis : IsBusy(e) => ~finishedExec /\ running \in {e, NoEsi}

\* Whoever is about to set the flag knows that nobody is busy.
FinishingIsOver ==
    main \in {"finish_drain", "finish_set"} => ~finishedExec /\ NobodyIsBusy
AbortingIsOver ==
    /\ main \in {"abort_drain", "abort_set"} =>
          /\ NobodyIsBusy
          /\ finishedExec => running = dying
    /\ main \in {"abort_drain", "abort_set", "abort_end"} =>
          dying \in Esis /\ phase[dying] = "gone"

\* Between two lines of the running ESI no command is pending: none blocks it
\* from under an abort.
NothingPending ==
    finishedExec /\ running # NoEsi /\ main \notin {"drain", "abort_end", "stuck"}
        => pending = <<>>

\* What the theorems need of SJF-CD: that the operator cannot pause the
\* scheduler, kill the ESI that is between two lines, and let the scheduler go on
\* in the middle of its abort.
NeverTyped(name) == \A c \in Commands : c.name # name
AbortsAreSafe ==
    Preemptive => NeverTyped("pausar") \/ NeverTyped("continuar") \/ NeverTyped("kill")

\* Between two lines of the running ESI the scheduler is paused, unless the
\* select loop is about to order the next one ...
StoppedIsPaused ==
    Preemptive /\ (NeverTyped("pausar") \/ NeverTyped("continuar")) =>
        /\ finishedExec /\ running # NoEsi
              /\ main \notin {"drain", "schedule", "abort_end", "stuck"} => paused
        /\ NeverTyped("pausar") => ~paused
\* ... or it is alive: either way executeInstruccion does not dislodge an ESI that
\* is being aborted.
StoppedIsAlive ==
    Preemptive /\ NeverTyped("kill") =>
        /\ \A e \in Esis : \A i \in 1..Len(inbox[e]) : inbox[e][i] # "KILLESI"
        /\ \A e \in Esis : info[e].esiStatus = "NOTFINISHED" /\ Advances(info[e].response)
                             => Alive(e)
        /\ running # NoEsi /\ main # "abort_end"
              /\ (finishedExec \/ main \in {"finish_drain", "finish_set"})
              => Alive(running)
SafeAborts == StoppedIsPaused /\ StoppedIsAlive

OrderInv ==
    /\ OrdersAreSingle /\ OneIsBusy /\ FinishingIsOver /\ AbortingIsOver
    /\ NothingPending /\ SafeAborts

-----------------------------------------------------------------------------
(* Messages.                                                                *)

\* What joins the inbox of a living ESI joins its end.
LEMMA Sent ==
  ASSUME TypeInv, NEW e \in Esis, NEW m \in {"RUN", "KILLESI"}, Send(e, m)
  PROVE  /\ \A f \in Esis \ {e} : inbox'[f] = inbox[f]
         /\ ~Alive(e) => inbox'[e] = inbox[e]
         /\ Alive(e) => /\ Len(inbox'[e]) = Len(inbox[e]) + 1
                        /\ inbox'[e][Len(inbox[e]) + 1] = m
                        /\ \A i \in 1..Len(inbox[e]) : inbox'[e][i] = inbox[e][i]
         /\ Len(inbox[e]) \in Nat
<1>1. inbox \in [Esis -> Seq({"RUN", "KILLESI"})]
  BY DEF TypeInv, TypeOK, EsisTypeOK
<1>2. inbox[e] \in Seq({"RUN", "KILLESI"})
  BY <1>1
<1>3. Len(inbox[e]) \in Nat
  BY <1>2, LenProperties
<1>4. /\ Len(Append(inbox[e], m)) = Len(inbox[e]) + 1
      /\ Append(inbox[e], m)[Len(inbox[e]) + 1] = m
      /\ \A i \in 1..Len(inbox[e]) : Append(inbox[e], m)[i] = inbox[e][i]
  BY <1>2, AppendProperties
<1>5. CASE Alive(e)
  <2>1. inbox' = [inbox EXCEPT ![e] = Append(@, m)]
    BY <1>5 DEF Send
  <2> QED
    BY <1>1, <1>3, <1>4, <1>5, <2>1
<1>6. CASE ~Alive(e)
  BY <1>3, <1>6 DEF Send
<1> QED
  BY <1>5, <1>6

\* KILLESI makes no ESI busy and frees none (executeKill).
LEMMA KillKeepsOrders ==
  ASSUME TypeInv, OrdersAreSingle, NEW e \in Esis, Send(e, "KILLESI"),
         UNCHANGED <<phase, info>>
  PROVE  OrdersAreSingle' /\ \A f \in Esis : IsBusy(f)' <=> IsBusy(f)
<1>1. /\ \A f \in Esis \ {e} : inbox'[f] = inbox[f]
      /\ ~Alive(e) => inbox'[e] = inbox[e]
      /\ Alive(e) => /\ Len(inbox'[e]) = Len(inbox[e]) + 1
                     /\ inbox'[e][Len(inbox[e]) + 1] = "KILLESI"
                     /\ \A i \in 1..Len(inbox[e]) : inbox'[e][i] = inbox[e][i]
      /\ Len(inbox[e]) \in Nat
  BY Sent
<1>2. ASSUME NEW i \in 1..Len(inbox'[e]), inbox'[e][i] = "RUN"
      PROVE  i \in 1..Len(inbox[e]) /\ inbox[e][i] = "RUN"
  BY <1>1, <1>2
<1>3. ASSUME NEW i \in 1..Len(inbox[e]), inbox[e][i] = "RUN"
      PROVE  i \in 1..Len(inbox'[e]) /\ inbox'[e][i] = "RUN"
  BY <1>1, <1>3
<1>4. \A f \in Esis : IsOrdered(f)' <=> IsOrdered(f)
  <2> SUFFICES ASSUME NEW f \in Esis PROVE IsOrdered(f)' <=> IsOrdered(f)
    OBVIOUS
  <2>1. CASE f = e
    BY <1>2, <1>3, <2>1 DEF IsOrdered
  <2>2. CASE f # e
    BY <1>1, <2>2 DEF IsOrdered
  <2> QED
    BY <2>1, <2>2
<1>5. \A f \in Esis : /\ Asks(f)' <=> Asks(f)
                      /\ HasInformed(f)' <=> HasInformed(f)
                      /\ Alive(f)' <=> Alive(f)
  BY DEF Asks, HasInformed, Alive
<1>6. \A f \in Esis : ~Alive(f)' => inbox'[f] = <<>>
  BY <1>1, <1>5 DEF OrdersAreSingle
<1>7. \A f \in Esis : \A i, j \in 1..Len(inbox'[f]) :
         inbox'[f][i] = "RUN" /\ inbox'[f][j] = "RUN" => i = j
  <2> SUFFICES ASSUME NEW f \in Esis, NEW i \in 1..Len(inbox'[f]),
                      NEW j \in 1..Len(inbox'[f]),
                      inbox'[f][i] = "RUN", inbox'[f][j] = "RUN"
               PROVE  i = j
    OBVIOUS
  <2>1. CASE f = e
    BY <1>2, <2>1 DEF OrdersAreSingle
  <2>2. CASE f # e
    BY <1>1, <2>2 DEF OrdersAreSingle
  <2> QED
    BY <2>1, <2>2
<1>8. OrdersAreSingle'
  BY <1>4, <1>5, <1>6, <1>7 DEF OrdersAreSingle
<1> QED
  BY <1>4, <1>5, <1>8 DEF IsBusy

\* RUN makes only the ESI it is sent to busy, and that only if it is alive.
LEMMA RunMakesBusy ==
  ASSUME TypeInv, OrdersAreSingle, NEW e \in Esis, ~IsBusy(e), Send(e, "RUN"),
         UNCHANGED <<phase, info>>
  PROVE  /\ OrdersAreSingle'
         /\ \A f \in Esis \ {e} : IsBusy(f)' <=> IsBusy(f)
         /\ ~Alive(e) => ~IsBusy(e)'
<1>1. /\ \A f \in Esis \ {e} : inbox'[f] = inbox[f]
      /\ ~Alive(e) => inbox'[e] = inbox[e]
      /\ Alive(e) => /\ Len(inbox'[e]) = Len(inbox[e]) + 1
                     /\ inbox'[e][Len(inbox[e]) + 1] = "RUN"
                     /\ \A i \in 1..Len(inbox[e]) : inbox'[e][i] = inbox[e][i]
      /\ Len(inbox[e]) \in Nat
  BY Sent
<1>2. \A f \in Esis : /\ Asks(f)' <=> Asks(f)
                      /\ HasInformed(f)' <=> HasInformed(f)
                      /\ Alive(f)' <=> Alive(f)
  BY DEF Asks, HasInformed, Alive
<1>3. \A f \in Esis \ {e} : IsOrdered(f)' <=> IsOrdered(f)
  BY <1>1 DEF IsOrdered
<1>4. ~IsOrdered(e) /\ ~Asks(e) /\ ~HasInformed(e)
  BY DEF IsBusy
<1>5. \A i \in 1..Len(inbox[e]) : inbox[e][i] # "RUN"
  BY <1>4 DEF IsOrdered
<1>6. \A i \in 1..Len(inbox'[e]) :
         inbox'[e][i] = "RUN" => i = Len(inbox[e]) + 1
  BY <1>1, <1>5
<1>7. \A f \in Esis : ~Alive(f)' => inbox'[f] = <<>>
  BY <1>1, <1>2 DEF OrdersAreSingle
<1>8. \A f \in Esis : \A i, j \in 1..Len(inbox'[f]) :
         inbox'[f][i] = "RUN" /\ inbox'[f][j] = "RUN" => i = j
  <2> SUFFICES ASSUME NEW f \in Esis, NEW i \in 1..Len(inbox'[f]),
                      NEW j \in 1..Len(inbox'[f]),
                      inbox'[f][i] = "RUN", inbox'[f][j] = "RUN"
               PROVE  i = j
    OBVIOUS
  <2>1. CASE f = e
    BY <1>6, <2>1
  <2>2. CASE f # e
    BY <1>1, <2>2 DEF OrdersAreSingle
  <2> QED
    BY <2>1, <2>2
<1>9. OrdersAreSingle'
  BY <1>2, <1>3, <1>4, <1>7, <1>8 DEF OrdersAreSingle
<1>10. ~Alive(e) => ~IsOrdered(e)'
  BY <1>1, <1>4 DEF IsOrdered
<1> QED
  BY <1>2, <1>3, <1>4, <1>9, <1>10 DEF IsBusy

-----------------------------------------------------------------------------
(* The steps, in groups that disturb the invariant in the same way.         *)

\* A step that makes no one busy, sets nothing running and leaves the select
\* loop where it is.
LEMMA QuietStep ==
  ASSUME OrderInv, OrdersAreSingle', SafeAborts',
         \A f \in Esis : IsBusy(f)' => IsBusy(f),
         \A f \in Esis : phase[f] = "gone" => phase'[f] = "gone",
         UNCHANGED <<finishedExec, main, dying>>,
         running' \in {running, NoEsi},
         main \in {"abort_drain", "abort_set"} /\ finishedExec
             => running' = running,
         finishedExec /\ main # "drain" => pending' = pending
  PROVE  OrderInv'
<1>1. OneIsBusy'
  BY DEF OrderInv, OneIsBusy
<1>2. FinishingIsOver' /\ AbortingIsOver'
  BY DEF OrderInv, FinishingIsOver, AbortingIsOver, NobodyIsBusy
<1>3. NothingPending'
  BY DEF OrderInv, NothingPending
<1> QED
  BY <1>1, <1>2, <1>3 DEF OrderInv

\* What a console command does to the orders under way.
LEMMA ExecuteOrders ==
  ASSUME TypeInv, OrdersAreSingle, NEW c \in Commands, Execute(c),
         UNCHANGED <<phase, info>>
  PROVE  /\ OrdersAreSingle'
         /\ \A f \in Esis : IsBusy(f)' <=> IsBusy(f)
         /\ running' \in {running, NoEsi}
<1>1. ASSUME UNCHANGED inbox
      PROVE  OrdersAreSingle' /\ \A f \in Esis : IsBusy(f)' <=> IsBusy(f)
  BY <1>1 DEF OrdersAreSingle, IsBusy, IsOrdered, Asks, HasInformed, Alive
<1>2. running' \in {running, NoEsi}
  BY DEF Execute, ExecutePausar, ExecuteBloquear, ExecuteDesbloquear,
         ExecuteListar, ExecuteKill, ExecuteStatus, BlockRunning, BlockOther
<1>3. CASE ExecuteKill(c)
  <2>1. c.esi \in Esis
    BY <1>3, CommandsAssumption DEF ExecuteKill
  <2>2. UNCHANGED inbox \/ Send(c.esi, "KILLESI")
    BY <1>3 DEF ExecuteKill
  <2> QED
    BY <1>1, <1>2, <2>1, <2>2, KillKeepsOrders
<1>4. CASE ~ExecuteKill(c)
  <2>1. UNCHANGED inbox
    BY <1>4 DEF Execute, ExecutePausar, ExecuteBloquear, ExecuteDesbloquear,
                ExecuteListar, ExecuteStatus
  <2> QED
    BY <1>1, <1>2, <2>1
<1> QED
  BY <1>3, <1>4

\* Both threads execute commands (openConsole, executeConsoleInstruccions).
LEMMA CommandOrders ==
  ASSUME TypeInv, OrderInv, SafeAborts', ConsoleExecutes \/ DrainCommand
  PROVE  OrderInv'
<1> USE DEF OrderInv
<1>1. CASE Crash
  <2>1. UNCHANGED <<finishedExec, main, dying, running, pending, phase, inbox, info>>
    BY <1>1 DEF Crash, tables, esiVars
  <2> QED
    BY <2>1, QuietStep
       DEF OrdersAreSingle, IsBusy, IsOrdered, Asks, HasInformed, Alive
<1>2. CASE ConsoleExecutes /\ ~Crash
  <2>1. /\ typed \in Commands /\ Execute(typed) /\ main = "select"
        /\ UNCHANGED <<finishedExec, main, dying, pending, phase, info>>
    BY <1>2 DEF ConsoleExecutes, TypeInv, TypedIsReal
  <2>2. /\ OrdersAreSingle'
        /\ \A f \in Esis : IsBusy(f)' <=> IsBusy(f)
        /\ running' \in {running, NoEsi}
    BY <2>1, ExecuteOrders
  <2> QED
    BY <2>1, <2>2, QuietStep
<1>3. CASE DrainCommand /\ ~Crash
  <2>1. /\ UNCHANGED <<finishedExec, main, dying, phase, info>>
        /\ pending # <<>> /\ pending \in Seq(Commands) /\ Draining
        /\ Execute(Head(pending)) \/ Skip
    BY <1>3 DEF DrainCommand, TypeInv, TypeOK, ThreadsTypeOK
  <2>2. Head(pending) \in Commands
    BY <2>1
  <2>3. /\ OrdersAreSingle'
        /\ \A f \in Esis : IsBusy(f)' <=> IsBusy(f)
        /\ running' \in {running, NoEsi}
    <3>1. CASE Skip
      BY <2>1, <3>1 DEF Skip, tables, OrdersAreSingle, IsBusy, IsOrdered, Asks,
                        HasInformed, Alive
    <3> QED
      BY <2>1, <2>2, <3>1, ExecuteOrders
  <2>4. main \in {"finish_drain", "abort_drain"} => ~finishedExec
    <3>1. main = "abort_drain" /\ finishedExec => running \in Esis
      BY DEF AbortingIsOver
    <3> QED
      BY <2>1, <3>1, PlanificadorAssumption DEF FinishingIsOver, NothingPending
  <2> QED
    BY <2>1, <2>3, <2>4, QuietStep DEF Draining
<1> QED
  BY <1>1, <1>2, <1>3

\* executeInstruccion, called by either thread: when nobody is busy it orders the
\* running ESI or, if there is none or under SJF-CD, a ready one; but it dislodges
\* no ESI that is being aborted.
LEMMA ScheduleOrders ==
  ASSUME AbortsAreSafe, TypeInv, OrderInv, SafeAborts', MainSchedules \/ ConsoleKicks
  PROVE  OrderInv'
<1> USE DEF OrderInv
<1>1. /\ ExecuteInstruccion
      /\ \/ main = "schedule" /\ main' = "select"
         \/ main # "stuck" /\ main' = main
      /\ UNCHANGED <<pending, dying, phase, info>>
  BY DEF MainSchedules, ConsoleKicks, ExecuteInstruccion
<1>2. CASE NothingToRun
  <2>1. UNCHANGED <<running, finishedExec, inbox>>
    BY <1>2 DEF NothingToRun
  <2>2. OrdersAreSingle' /\ \A f \in Esis : IsBusy(f)' <=> IsBusy(f)
    BY <1>1, <2>1 DEF OrdersAreSingle, IsBusy, IsOrdered, Asks, HasInformed, Alive
  <2>3. OneIsBusy'
    BY <2>1, <2>2 DEF OneIsBusy
  <2>4. FinishingIsOver' /\ AbortingIsOver'
    BY <1>1, <2>1, <2>2 DEF FinishingIsOver, AbortingIsOver, NobodyIsBusy
  <2>5. NothingPending'
    BY <1>1, <2>1 DEF NothingPending
  <2> QED
    BY <2>2, <2>3, <2>4, <2>5
<1>3. CASE ~NothingToRun
  <2>1. PICK e \in Esis :
          /\ finishedExec
          /\ OrderToRun(e)
          /\ running \in {NoEsi, e} \/ (Preemptive /\ running # NoEsi /\ ~paused)
    <3>1. DispatchNext \/ ContinueRunning \/ DislodgeRunning
      BY <1>1, <1>3 DEF ExecuteInstruccion
    <3>2. CASE DispatchNext
      BY <3>2 DEF DispatchNext, MaySchedule, TypeInv, TypeOK, TablesTypeOK
    <3>3. CASE ContinueRunning
      BY <3>3 DEF ContinueRunning, MaySchedule, TypeInv, TypeOK, TablesTypeOK
    <3>4. CASE DislodgeRunning
      BY <3>4 DEF DislodgeRunning, MaySchedule, TypeInv, TypeOK, TablesTypeOK
    <3> QED
      BY <3>1, <3>2, <3>3, <3>4
  <2>2. /\ running' = e /\ finishedExec' = FALSE /\ Send(e, "RUN")
    BY <2>1 DEF OrderToRun
  <2>3. NobodyIsBusy
    BY <2>1 DEF OneIsBusy, NobodyIsBusy
  <2>4. /\ OrdersAreSingle'
        /\ \A f \in Esis \ {e} : ~IsBusy(f)'
        /\ ~Alive(e) => ~IsBusy(e)'
    BY <1>1, <2>2, <2>3, RunMakesBusy DEF NobodyIsBusy
  <2>5. OneIsBusy'
    BY <2>2, <2>4 DEF OneIsBusy
  <2>6. FinishingIsOver'
    BY <1>1, <2>1 DEF FinishingIsOver
  <2>7. AbortingIsOver'
    <3>1. main \in {"abort_drain", "abort_set"} => ~IsBusy(e)'
      <4>1. main \in {"abort_drain", "abort_set"}
               => running = dying /\ dying \in Esis /\ phase[dying] = "gone"
        BY <2>1 DEF AbortingIsOver
      <4>2. main \in {"abort_drain", "abort_set"} => running \in {NoEsi, e}
        BY <2>1, <4>1, PlanificadorAssumption
           DEF AbortsAreSafe, SafeAborts, StoppedIsPaused, StoppedIsAlive, Alive
      <4>3. main \in {"abort_drain", "abort_set"} => ~Alive(e)
        BY <4>1, <4>2, PlanificadorAssumption DEF Alive
      <4> QED
        BY <2>4, <4>3
    <3> QED
      BY <1>1, <2>2, <2>4, <3>1 DEF AbortingIsOver, NobodyIsBusy
  <2>8. NothingPending'
    BY <2>2 DEF NothingPending
  <2> QED
    BY <2>4, <2>5, <2>6, <2>7, <2>8
<1> QED
  BY <1>2, <1>3

\* The steps of the select loop that leave messages and runningEsi alone:
\* after a drain, around the flag, and on to a wait for ever.
LEMMA LoopOrders ==
  ASSUME TypeInv, OrderInv, SafeAborts',
         DrainEnds \/ SetFinishedExecuting \/ AbortEnds \/ MainSticks
             \/ HandleStatusResponse
  PROVE  OrderInv'
<1> USE DEF OrderInv
<1>1. CASE Crash
  BY <1>1, QuietStep DEF Crash, tables, esiVars, OrdersAreSingle, IsBusy,
                         IsOrdered, Asks, HasInformed, Alive
<1>2. /\ UNCHANGED <<phase, inbox, info, pending>>
      /\ OrdersAreSingle'
      /\ \A f \in Esis : IsBusy(f)' <=> IsBusy(f)
  BY DEF DrainEnds, SetFinishedExecuting, AbortEnds, MainSticks,
         HandleStatusResponse, Crash, esiVars, OrdersAreSingle, IsBusy,
         IsOrdered, Asks, HasInformed, Alive
<1>3. CASE DrainEnds
  <2>1. /\ Draining /\ pending = <<>> /\ main' = AfterDrain
        /\ UNCHANGED <<running, finishedExec, dying>>
    BY <1>3 DEF DrainEnds, tables
  <2>2. OneIsBusy' /\ NothingPending'
    BY <1>2, <2>1 DEF OneIsBusy, NothingPending
  <2>3. FinishingIsOver' /\ AbortingIsOver'
    BY <1>2, <2>1 DEF FinishingIsOver, AbortingIsOver, NobodyIsBusy, AfterDrain,
                      Draining
  <2> QED
    BY <1>2, <2>2, <2>3
<1>4. CASE SetFinishedExecuting
  <2>1. /\ \/ main = "finish_set" /\ main' = "drain"
           \/ main = "abort_set" /\ main' = "abort_end"
        /\ UNCHANGED <<running, dying>>
    BY <1>4 DEF SetFinishedExecuting, tables
  <2>2. NobodyIsBusy
    BY <2>1 DEF FinishingIsOver, AbortingIsOver
  <2>3. OneIsBusy' /\ NothingPending'
    BY <1>2, <2>1, <2>2 DEF OneIsBusy, NothingPending, NobodyIsBusy
  <2>4. FinishingIsOver' /\ AbortingIsOver'
    BY <1>2, <2>1 DEF FinishingIsOver, AbortingIsOver
  <2> QED
    BY <1>2, <2>3, <2>4
<1>5. CASE AbortEnds
  <2>1. main' = "schedule" /\ running' = NoEsi /\ UNCHANGED finishedExec
    BY <1>5 DEF AbortEnds
  <2>2. OneIsBusy' /\ FinishingIsOver' /\ AbortingIsOver' /\ NothingPending'
    BY <1>2, <2>1 DEF OneIsBusy, FinishingIsOver, AbortingIsOver, NothingPending
  <2> QED
    BY <1>2, <2>2
<1>6. CASE MainSticks \/ (HandleStatusResponse /\ ~Crash)
  <2>1. /\ main' \in {"stuck", "drain"} \/ (main = "select" /\ main' = "blocked")
        /\ UNCHANGED <<running, finishedExec, pending>>
    BY <1>6 DEF MainSticks, WantsReadyList, HandleStatusResponse, tables
  <2>2. OneIsBusy' /\ FinishingIsOver' /\ AbortingIsOver' /\ NothingPending'
    BY <1>2, <2>1 DEF OneIsBusy, FinishingIsOver, AbortingIsOver, NothingPending
  <2> QED
    BY <1>2, <2>2
<1> QED
  BY <1>1, <1>3, <1>4, <1>5, <1>6

\* welcomeEsi and sendKeyStatusToCoordinador.
LEMMA MessageOrders ==
  ASSUME TypeInv, OrderInv, SafeAborts',
         NEW e \in Esis, EsiConnects(e) \/ HandleKeyStatus(e)
  PROVE  OrderInv'
<1> USE DEF OrderInv
<1>1. /\ main = "select" /\ main' = "drain"
      /\ UNCHANGED <<running, finishedExec, inbox, info>>
  BY DEF EsiConnects, HandleKeyStatus, tables
<1>2. phase \in [Esis -> Phases]
  BY DEF TypeInv, TypeOK, EsisTypeOK
<1>3. \/ phase[e] = "absent" /\ phase' = [phase EXCEPT ![e] = "waiting"]
      \/ phase[e] = "asking" /\ phase' = [phase EXCEPT ![e] = "told"]
  BY DEF EsiConnects, HandleKeyStatus
<1>4. \A f \in Esis : /\ IsOrdered(f)' <=> IsOrdered(f)
                      /\ HasInformed(f)' <=> HasInformed(f)
                      /\ Asks(f)' <=> Asks(f)
                      /\ Alive(f) => Alive(f)'
  BY <1>1, <1>2, <1>3 DEF IsOrdered, HasInformed, Asks, Alive
<1>5. \A f \in Esis : IsBusy(f)' <=> IsBusy(f)
  BY <1>4 DEF IsBusy
<1>6. OrdersAreSingle'
  BY <1>1, <1>4 DEF OrdersAreSingle
<1>7. OneIsBusy' /\ FinishingIsOver' /\ AbortingIsOver' /\ NothingPending'
  BY <1>1, <1>5 DEF OneIsBusy, FinishingIsOver, AbortingIsOver, NothingPending
<1> QED
  BY <1>6, <1>7

\* handleEsiInformation: the one busy ESI is the sender, and is busy no more.
LEMMA InformationOrders ==
  ASSUME TypeInv, OrderInv, SafeAborts', NEW e \in Esis, HandleEsiInformation(e)
  PROVE  OrderInv'
<1> USE DEF OrderInv
<1>1. /\ HasInformed(e) /\ main' = "finish_drain"
      /\ info' = [info EXCEPT ![e] = NoInfo]
      /\ UNCHANGED <<finishedExec, pending, phase, inbox>>
  BY DEF HandleEsiInformation, HandleSuccess, HandleLock, HandleBlock,
         HandleFree, HandleAbort, Receives, HasInformed
<1>2. info \in [Esis -> Infos \union {NoInfo}]
  BY DEF TypeInv, TypeOK, EsisTypeOK
<1>3. /\ ~HasInformed(e)'
      /\ \A f \in Esis : /\ IsOrdered(f)' <=> IsOrdered(f)
                         /\ Asks(f)' <=> Asks(f)
                         /\ Alive(f)' <=> Alive(f)
      /\ \A f \in Esis \ {e} : HasInformed(f)' <=> HasInformed(f)
  BY <1>1, <1>2 DEF IsOrdered, HasInformed, Asks, Alive
<1>4. OrdersAreSingle'
  BY <1>1, <1>3 DEF OrdersAreSingle
<1>5. IsBusy(e) /\ ~IsBusy(e)'
  BY <1>1, <1>3 DEF IsBusy, OrdersAreSingle
<1>6. NobodyIsBusy' /\ ~finishedExec
  <2>1. \A f \in Esis \ {e} : ~IsBusy(f)
    BY <1>5 DEF OneIsBusy
  <2> QED
    BY <1>3, <1>5, <2>1 DEF NobodyIsBusy, IsBusy, OneIsBusy
<1>7. OneIsBusy' /\ FinishingIsOver' /\ AbortingIsOver' /\ NothingPending'
  BY <1>1, <1>6 DEF OneIsBusy, FinishingIsOver, AbortingIsOver, NothingPending,
                    NobodyIsBusy
<1> QED
  BY <1>4, <1>7

\* abortEsi: if the dead ESI is the running one, nobody is busy.
LEMMA DisconnectOrders ==
  ASSUME TypeInv, OrderInv, SafeAborts', NEW e \in Esis,
         DisconnectReady(e) \/ DisconnectRunning(e) \/ DisconnectOther(e)
  PROVE  OrderInv'
<1> USE DEF OrderInv
<1>1. /\ main = "select" /\ phase[e] = "exited" /\ ~HasInformed(e)
      /\ phase' = [phase EXCEPT ![e] = "gone"]
      /\ UNCHANGED <<running, finishedExec, pending, inbox, info>>
      /\ \/ main' = "schedule"
         \/ main' = "abort_drain" /\ dying' = e /\ running = e
  BY DEF DisconnectReady, DisconnectRunning, DisconnectOther, Disconnects,
         FreesAll, HasInformed
<1>2. phase \in [Esis -> Phases]
  BY DEF TypeInv, TypeOK, EsisTypeOK
<1>3. \A f \in Esis : /\ IsOrdered(f)' <=> IsOrdered(f)
                      /\ HasInformed(f)' <=> HasInformed(f)
                      /\ Asks(f)' <=> Asks(f)
                      /\ Alive(f)' <=> Alive(f)
  BY <1>1, <1>2 DEF IsOrdered, HasInformed, Asks, Alive
<1>4. OrdersAreSingle' /\ \A f \in Esis : IsBusy(f)' <=> IsBusy(f)
  BY <1>1, <1>3 DEF OrdersAreSingle, IsBusy
<1>5. ~IsBusy(e)
  <2>1. inbox[e] = <<>>
    BY <1>1 DEF OrdersAreSingle, Alive
  <2> QED
    BY <1>1, <2>1 DEF IsBusy, IsOrdered, Asks
<1>6. running = e => NobodyIsBusy
  BY <1>5, PlanificadorAssumption DEF OneIsBusy, NobodyIsBusy
<1>7. OneIsBusy' /\ FinishingIsOver' /\ NothingPending'
  BY <1>1, <1>4 DEF OneIsBusy, FinishingIsOver, NothingPending
<1>8. AbortingIsOver'
  BY <1>1, <1>2, <1>4, <1>6 DEF AbortingIsOver, NobodyIsBusy
<1> QED
  BY <1>4, <1>7, <1>8

\* The ESI takes an order, drops its messages and exits, or informs of the
\* outcome: the order, the operation and the outcome follow each other.
LEMMA EsiOrders ==
  ASSUME TypeInv, OrderInv, SafeAborts', NEW e \in Esis, EsiStep(e)
  PROVE  OrderInv'
<1> USE DEF OrderInv
<1>1. /\ phase[e] \in {"waiting", "told"}
      /\ UNCHANGED <<running, finishedExec, main, dying, pending>>
  BY DEF EsiStep, EsiRunsLine, EsiRejectsLine, EsiIsKilled, EsiAnswers,
         planificadorUnchanged, tables
<1>2. /\ phase \in [Esis -> Phases] /\ info \in [Esis -> Infos \union {NoInfo}]
      /\ inbox \in [Esis -> Seq({"RUN", "KILLESI"})]
  BY DEF TypeInv, TypeOK, EsisTypeOK
<1>3. \A f \in Esis \ {e} : /\ phase'[f] = phase[f]
                            /\ inbox'[f] = inbox[f]
                            /\ info'[f] = info[f]
  BY <1>2 DEF EsiStep, EsiRunsLine, EsiRejectsLine, EsiIsKilled, EsiAnswers
<1>4. \A f \in Esis \ {e} : /\ IsOrdered(f)' <=> IsOrdered(f)
                            /\ HasInformed(f)' <=> HasInformed(f)
                            /\ Asks(f)' <=> Asks(f)
                            /\ Alive(f)' <=> Alive(f)
  BY <1>3 DEF IsOrdered, HasInformed, Asks, Alive
<1>5. \A f \in Esis : phase[f] = "gone" => phase'[f] = "gone"
  BY <1>1, <1>3
<1>6. ASSUME /\ ~Alive(e)' => inbox'[e] = <<>>
             /\ IsOrdered(e)' => ~Asks(e)' /\ ~HasInformed(e)'
             /\ Asks(e)' => ~HasInformed(e)'
             /\ \A i, j \in 1..Len(inbox'[e]) :
                   inbox'[e][i] = "RUN" /\ inbox'[e][j] = "RUN" => i = j,
             IsBusy(e)' => IsBusy(e)
      PROVE  OrderInv'
  <2>1. ASSUME NEW f \in Esis \ {e}
        PROVE  /\ ~Alive(f)' => inbox'[f] = <<>>
               /\ IsOrdered(f)' => ~Asks(f)' /\ ~HasInformed(f)'
               /\ Asks(f)' => ~HasInformed(f)'
               /\ \A i, j \in 1..Len(inbox'[f]) :
                     inbox'[f][i] = "RUN" /\ inbox'[f][j] = "RUN" => i = j
    BY <1>3, <1>4 DEF OrdersAreSingle
  <2>2. OrdersAreSingle'
    BY <1>6, <2>1 DEF OrdersAreSingle
  <2>3. \A f \in Esis : IsBusy(f)' => IsBusy(f)
    BY <1>4, <1>6 DEF IsBusy
  <2> QED
    BY <1>1, <1>5, <2>2, <2>3, QuietStep
<1>7. CASE EsiRunsLine(e)
  <2>1. /\ inbox[e] # <<>> /\ Head(inbox[e]) = "RUN"
        /\ inbox[e] \in Seq({"RUN", "KILLESI"})
        /\ inbox'[e] = Tail(inbox[e])
        /\ phase[e] = "waiting" /\ phase'[e] = "asking" /\ info'[e] = info[e]
    BY <1>2, <1>7 DEF EsiRunsLine
  <2>2. /\ Len(inbox[e]) \in Nat /\ Len(inbox[e]) > 0 /\ inbox[e][1] = "RUN"
        /\ Len(inbox'[e]) = Len(inbox[e]) - 1
        /\ \A i \in 1..Len(inbox'[e]) : inbox'[e][i] = inbox[e][i + 1]
    BY <2>1
  <2>3. IsOrdered(e)
    BY <2>2 DEF IsOrdered
  <2>4. \A i \in 1..Len(inbox'[e]) : inbox'[e][i] # "RUN"
    <3> SUFFICES ASSUME NEW i \in 1..Len(inbox'[e]), inbox'[e][i] = "RUN"
                 PROVE  FALSE
      OBVIOUS
    <3>1. i + 1 \in 1..Len(inbox[e]) /\ 1 \in 1..Len(inbox[e])
      BY <2>2
    <3>2. inbox[e][i + 1] = "RUN" /\ i + 1 # 1
      BY <2>2
    <3> QED
      BY <2>2, <3>1, <3>2 DEF OrdersAreSingle
  <2>5. ~IsOrdered(e)' /\ Alive(e)' /\ ~HasInformed(e)'
    BY <2>1, <2>3, <2>4 DEF IsOrdered, Alive, HasInformed, OrdersAreSingle
  <2> QED
    BY <1>6, <2>3, <2>4, <2>5 DEF IsBusy
<1>8. CASE EsiRejectsLine(e) \/ EsiIsKilled(e)
  <2>1. /\ inbox'[e] = <<>> /\ phase'[e] = "exited" /\ info'[e] = info[e]
    BY <1>2, <1>8 DEF EsiRejectsLine, EsiIsKilled
  <2>2. ~IsOrdered(e)' /\ ~Asks(e)' /\ (HasInformed(e)' => HasInformed(e))
    BY <2>1 DEF IsOrdered, Asks, HasInformed
  <2> QED
    BY <1>6, <2>1, <2>2 DEF IsBusy
<1>9. CASE EsiAnswers(e)
  <2>1. /\ phase[e] = "told"
        /\ \/ phase'[e] = "waiting" /\ inbox'[e] = inbox[e]
           \/ phase'[e] = "exited" /\ inbox'[e] = <<>>
    BY <1>2, <1>9 DEF EsiAnswers
  <2>2. IsBusy(e) /\ ~IsOrdered(e)
    BY <2>1 DEF IsBusy, Asks, OrdersAreSingle
  <2>3. ~IsOrdered(e)' /\ ~Asks(e)'
    BY <2>1, <2>2 DEF IsOrdered, Asks
  <2>4. ~Alive(e)' => inbox'[e] = <<>>
    BY <2>1 DEF Alive
  <2>5. \A i \in 1..Len(inbox'[e]) : inbox'[e][i] # "RUN"
    BY <2>3 DEF IsOrdered
  <2> QED
    BY <1>6, <2>2, <2>3, <2>4, <2>5
<1> QED
  BY <1>7, <1>8, <1>9 DEF EsiStep

-----------------------------------------------------------------------------
\* What keeps the scheduler paused: pauseState changes only in the two commands.
LEMMA StoppedStep ==
  ASSUME TypeInv, StoppedIsPaused, [Next]_vars
  PROVE  StoppedIsPaused'
<1> USE DEF StoppedIsPaused
<1>1. ASSUME UNCHANGED <<paused, finishedExec>>, running' \in {running, NoEsi},
             main' = main \/ main' \in {"drain", "schedule", "abort_end", "stuck"}
                \/ main \in {"select", "finish_drain", "abort_drain"}
      PROVE  StoppedIsPaused'
  BY <1>1
<1>2. CASE Crash \/ UNCHANGED vars
  BY <1>1, <1>2 DEF Crash, vars, tables
<1>3. CASE ConsoleQueuesCommand \/ ConsoleLocksMutex \/ ConsoleSticks \/ Typing
             \/ \E e \in Esis : EsiStep(e)
  BY <1>1, <1>3 DEF ConsoleQueuesCommand, ConsoleLocksMutex, ConsoleSticks, Typing,
     ConsoleReads, EsiStep, EsiRunsLine, EsiRejectsLine, EsiIsKilled, EsiAnswers,
     planificadorUnchanged, tables
<1>4. CASE (ConsoleExecutes \/ DrainCommand) /\ ~Crash
  <2>1. /\ UNCHANGED <<finishedExec, main>>
        /\ (\E c \in Commands : Execute(c)) \/ Skip
    <3>1. CASE ConsoleExecutes
      BY <1>4, <3>1 DEF ConsoleExecutes, TypeInv, TypedIsReal
    <3>2. CASE DrainCommand
      <4>1. Head(pending) \in Commands
        BY <3>2 DEF DrainCommand, TypeInv, TypeOK, ThreadsTypeOK
      <4> QED
        BY <1>4, <3>2, <4>1 DEF DrainCommand
    <3> QED
      BY <1>4, <3>1, <3>2
  <2>2. CASE Skip
    BY <1>1, <2>1, <2>2 DEF Skip, tables
  <2>3. ASSUME NEW c \in Commands, Execute(c)
        PROVE  StoppedIsPaused'
    <3>1. /\ running' \in {running, NoEsi}
          /\ UNCHANGED paused \/ ExecutePausar(c)
      BY <2>3 DEF Execute, ExecutePausar, ExecuteBloquear, ExecuteDesbloquear,
         ExecuteListar, ExecuteKill, ExecuteStatus, BlockRunning, BlockOther
    <3>2. CASE UNCHANGED paused
      BY <1>1, <2>1, <3>1, <3>2
    <3>3. CASE ExecutePausar(c)
      <4>1. \/ c.name = "pausar" /\ paused' = TRUE
            \/ c.name = "continuar" /\ paused' = FALSE
        BY <3>3 DEF ExecutePausar
      <4> QED
        BY <2>1, <3>1, <4>1 DEF NeverTyped
    <3> QED
      BY <3>1, <3>2, <3>3
  <2> QED
    BY <2>1, <2>2, <2>3
<1>5. CASE MainSchedules \/ ConsoleKicks
  <2>1. /\ ExecuteInstruccion /\ UNCHANGED paused
        /\ main' = main \/ main = "schedule"
    BY <1>5 DEF MainSchedules, ConsoleKicks, ExecuteInstruccion
  <2>2. CASE NothingToRun
    BY <2>1, <2>2 DEF NothingToRun, MaySchedule
  <2>3. CASE ~NothingToRun
    BY <2>1, <2>3 DEF ExecuteInstruccion, DispatchNext, ContinueRunning,
                      DislodgeRunning, OrderToRun
  <2> QED
    BY <2>2, <2>3
<1>6. CASE DrainEnds \/ MainSticks \/ (HandleStatusResponse /\ ~Crash)
  BY <1>1, <1>6 DEF DrainEnds, MainSticks, WantsReadyList, HandleStatusResponse,
                    AfterDrain, Draining, tables
<1>7. CASE SetFinishedExecuting \/ AbortEnds
  BY <1>7 DEF SetFinishedExecuting, AbortEnds, tables
<1>8. CASE \E e \in Esis : EsiConnects(e) \/ HandleKeyStatus(e)
  BY <1>1, <1>8 DEF EsiConnects, HandleKeyStatus, tables
<1>9. CASE \E e \in Esis : HandleEsiInformation(e)
  BY <1>1, <1>9 DEF HandleEsiInformation, HandleSuccess, HandleLock, HandleBlock,
     HandleFree, HandleAbort, Receives, Continues, Finishes, BlockRunning
<1>10. CASE \E e \in Esis :
              DisconnectReady(e) \/ DisconnectRunning(e) \/ DisconnectOther(e)
  BY <1>1, <1>10 DEF DisconnectReady, DisconnectRunning, DisconnectOther,
     Disconnects, FreesAll
<1>11. CASE ScheduleCrashes
            \/ \E e \in Esis : InformationCrashes(e) \/ DisconnectReadyCrashes(e)
  BY <1>2, <1>11 DEF ScheduleCrashes, InformationCrashes, DisconnectReadyCrashes
<1> QED
  BY <1>2, <1>3, <1>4, <1>5, <1>6, <1>7, <1>8, <1>9, <1>10, <1>11
     DEF Next, SelectLoop, Console, Arrivals

\* What keeps the running ESI alive between two lines: it leaves only in a line,
\* or at a KILLESI, and no other is ordered meanwhile.
LEMMA AliveStep ==
  ASSUME TypeInv, OrderInv, [Next]_vars
  PROVE  StoppedIsAlive'
<1> SUFFICES ASSUME Preemptive, NeverTyped("kill") PROVE StoppedIsAlive'
  BY DEF StoppedIsAlive
<1> USE DEF StoppedIsAlive
<1> StoppedIsAlive
  BY DEF OrderInv, SafeAborts
<1>0. /\ phase \in [Esis -> Phases] /\ info \in [Esis -> Infos \union {NoInfo}]
      /\ inbox \in [Esis -> Seq({"RUN", "KILLESI"})]
      /\ running \in Esis \union {NoEsi} /\ NoEsi \notin Esis
  BY PlanificadorAssumption DEF TypeInv, TypeOK, TablesTypeOK, EsisTypeOK
<1>1. ASSUME UNCHANGED <<inbox, info>>, \A f \in Esis : Alive(f) => Alive(f)',
             running' \in {running, NoEsi},
             \/ UNCHANGED <<finishedExec, main>>
             \/ ~finishedExec' /\ UNCHANGED main
             \/ /\ UNCHANGED finishedExec /\ main # "abort_end"
                /\ main' \in {"finish_drain", "finish_set"} => main = "finish_drain"
      PROVE  StoppedIsAlive'
  BY <1>0, <1>1
<1>2. CASE Crash \/ UNCHANGED vars
  BY <1>1, <1>2 DEF Crash, vars, tables, esiVars, Alive
<1>3. CASE ConsoleQueuesCommand \/ ConsoleLocksMutex \/ ConsoleSticks \/ Typing
  BY <1>1, <1>3 DEF ConsoleQueuesCommand, ConsoleLocksMutex, ConsoleSticks, Typing,
     ConsoleReads, tables, esiVars, Alive
<1>4. CASE (ConsoleExecutes \/ DrainCommand) /\ ~Crash
  <2>1. /\ UNCHANGED <<finishedExec, main, phase, info>>
        /\ (\E c \in Commands : Execute(c)) \/ Skip
    <3>1. CASE ConsoleExecutes
      BY <1>4, <3>1 DEF ConsoleExecutes, TypeInv, TypedIsReal
    <3>2. CASE DrainCommand
      <4>1. Head(pending) \in Commands
        BY <3>2 DEF DrainCommand, TypeInv, TypeOK, ThreadsTypeOK
      <4> QED
        BY <1>4, <3>2, <4>1 DEF DrainCommand
    <3> QED
      BY <1>4, <3>1, <3>2
  <2>2. ASSUME NEW c \in Commands, Execute(c)
        PROVE  UNCHANGED inbox /\ running' \in {running, NoEsi}
    BY <2>2 DEF NeverTyped, Execute, ExecutePausar, ExecuteBloquear,
       ExecuteDesbloquear, ExecuteListar, ExecuteKill, ExecuteStatus, BlockRunning,
       BlockOther
  <2>3. UNCHANGED inbox /\ running' \in {running, NoEsi}
    BY <2>1, <2>2 DEF Skip, tables
  <2> QED
    BY <1>1, <2>1, <2>3 DEF Alive
<1>5. CASE MainSchedules \/ ConsoleKicks
  <2>1. /\ ExecuteInstruccion /\ UNCHANGED <<phase, info>>
        /\ main' = main \/ (main = "schedule" /\ main' = "select")
    BY <1>5 DEF MainSchedules, ConsoleKicks, ExecuteInstruccion
  <2>2. CASE NothingToRun
    BY <1>1, <2>1, <2>2 DEF NothingToRun, Alive
  <2>3. CASE ~NothingToRun
    <3>1. PICK e \in Esis : finishedExec /\ OrderToRun(e)
      BY <1>0, <2>1, <2>3 DEF ExecuteInstruccion, DispatchNext, ContinueRunning,
         DislodgeRunning, MaySchedule, TypeInv, TypeOK, TablesTypeOK
    <3>2. ~finishedExec' /\ Send(e, "RUN")
      BY <3>1 DEF OrderToRun
    <3>3. \A f \in Esis : \A i \in 1..Len(inbox'[f]) : inbox'[f][i] # "KILLESI"
      BY <3>2, Sent
    <3>4. main' \notin {"finish_drain", "finish_set"}
      BY <2>1, <3>1 DEF OrderInv, FinishingIsOver
    <3> QED
      BY <2>1, <3>2, <3>3, <3>4 DEF Alive
  <2> QED
    BY <2>2, <2>3
<1>6. CASE DrainEnds \/ MainSticks \/ (HandleStatusResponse /\ ~Crash)
  BY <1>1, <1>6 DEF DrainEnds, MainSticks, HandleStatusResponse, AfterDrain, Draining,
                    WantsReadyList, tables, esiVars, Alive
<1>7. CASE SetFinishedExecuting \/ AbortEnds
  BY <1>7 DEF SetFinishedExecuting, AbortEnds, tables, esiVars, Alive
<1>8. CASE \E e \in Esis : EsiConnects(e) \/ HandleKeyStatus(e)
  BY <1>0, <1>1, <1>8 DEF EsiConnects, HandleKeyStatus, tables, Alive
<1>9. ASSUME NEW e \in Esis, HandleEsiInformation(e)
      PROVE  StoppedIsAlive'
  <2>1. /\ info[e] # NoInfo /\ info' = [info EXCEPT ![e] = NoInfo]
        /\ UNCHANGED <<finishedExec, phase, inbox>> /\ main' = "finish_drain"
        /\ \/ running' = NoEsi
           \/ /\ running' = running
              /\ info[e].esiStatus = "NOTFINISHED" /\ Advances(info[e].response)
    BY <1>9 DEF HandleEsiInformation, HandleSuccess, HandleLock, HandleBlock,
       HandleFree, HandleAbort, Receives, Continues, Finishes, BlockRunning, Advances
  <2>2. running \in {e, NoEsi}
    BY <2>1 DEF OrderInv, OneIsBusy, IsBusy, HasInformed
  <2> QED
    BY <1>0, <2>1, <2>2 DEF Alive, NoInfo, Advances
<1>10. CASE \E e \in Esis :
              DisconnectReady(e) \/ DisconnectRunning(e) \/ DisconnectOther(e)
  BY <1>0, <1>1, <1>10 DEF DisconnectReady, DisconnectRunning, DisconnectOther,
     Disconnects, FreesAll, Alive
<1>11. ASSUME NEW e \in Esis, EsiStep(e)
       PROVE  StoppedIsAlive'
  <2>1. /\ UNCHANGED <<running, finishedExec, main>>
        /\ \A f \in Esis \ {e} : /\ phase'[f] = phase[f] /\ info'[f] = info[f]
                                  /\ inbox'[f] = inbox[f]
    BY <1>0, <1>11 DEF EsiStep, EsiRunsLine, EsiRejectsLine, EsiIsKilled, EsiAnswers,
       planificadorUnchanged, tables
  <2>2. inbox[e] \in Seq({"RUN", "KILLESI"})
    BY <1>0
  <2>3. (EsiAnswers(e) /\ Asks(e)) \/ (info'[e] = info[e] /\ IsOrdered(e))
    <3>1. CASE EsiAnswers(e)
      BY <3>1 DEF EsiAnswers, Asks
    <3>2. CASE ~EsiAnswers(e)
      <4>0. info'[e] = info[e]
        BY <1>11, <3>2 DEF EsiStep, EsiRunsLine, EsiRejectsLine, EsiIsKilled
      <4>1. inbox[e] # <<>> /\ Len(inbox[e]) \in Nat
        BY <1>11, <2>2, <3>2 DEF EsiStep, EsiRunsLine, EsiRejectsLine, EsiIsKilled
      <4>2. 1 \in 1..Len(inbox[e]) /\ inbox[e][1] = "RUN"
        BY <2>2, <4>1
      <4> QED
        BY <4>0, <4>2 DEF IsOrdered
    <3> QED
      BY <3>1, <3>2
  <2>4. /\ ~finishedExec /\ main \notin {"finish_drain", "finish_set"}
    BY <2>3 DEF IsBusy, OrderInv, OneIsBusy, FinishingIsOver, NobodyIsBusy
  <2>5. \A i \in 1..Len(inbox'[e]) : inbox'[e][i] # "KILLESI"
    <3>1. inbox'[e] \in {<<>>, inbox[e]}
             \/ (inbox[e] # <<>> /\ inbox'[e] = Tail(inbox[e]))
      BY <1>0, <1>11 DEF EsiStep, EsiRunsLine, EsiRejectsLine, EsiIsKilled, EsiAnswers
    <3>2. \A i \in 1..Len(inbox[e]) : inbox[e][i] # "KILLESI"
      OBVIOUS
    <3>3. ASSUME inbox[e] # <<>>, inbox'[e] = Tail(inbox[e])
          PROVE  \A i \in 1..Len(inbox'[e]) : inbox'[e][i] = inbox[e][i + 1]
                    /\ i + 1 \in 1..Len(inbox[e])
      BY <2>2, <3>3
    <3> QED
      BY <3>1, <3>2, <3>3
  <2>6. info'[e].esiStatus = "NOTFINISHED" /\ Advances(info'[e].response) => Alive(e)'
    <3>1. CASE EsiAnswers(e)
      <4>1. PICK r \in CoordinadorResponses(operation[e].code, status[e]) :
               LET rest == IF Advances(r) THEN left[e] - 1 ELSE left[e]
                   exits == r = "ABORT" \/ rest = 0
               IN  /\ info' = [info EXCEPT ![e] = [response |-> r,
                          esiStatus |-> IF rest = 0 THEN "FINISHED"
                                                    ELSE "NOTFINISHED"]]
                   /\ phase' = [phase EXCEPT ![e] =
                          IF exits THEN "exited" ELSE "waiting"]
        BY <3>1 DEF EsiAnswers
      <4> QED
        BY <1>0, <4>1 DEF Advances, Alive
    <3>2. CASE ~EsiAnswers(e)
      BY <2>3, <3>2 DEF OrderInv, OrdersAreSingle, HasInformed, NoInfo, Advances
    <3> QED
      BY <3>1, <3>2
  <2> QED
    BY <2>1, <2>4, <2>5, <2>6 DEF Alive
<1>12. CASE ScheduleCrashes
            \/ \E e \in Esis : InformationCrashes(e) \/ DisconnectReadyCrashes(e)
  BY <1>2, <1>12 DEF ScheduleCrashes, InformationCrashes, DisconnectReadyCrashes
<1> QED
  BY <1>2, <1>3, <1>4, <1>5, <1>6, <1>7, <1>8, <1>9, <1>10, <1>11, <1>12
     DEF Next, SelectLoop, Console, Arrivals

\* When the scheduler starts nobody is busy.
LEMMA OrderInit == Init => OrderInv
<1> SUFFICES ASSUME Init PROVE OrderInv
  OBVIOUS
<1>1. \A e \in Esis : /\ inbox[e] = <<>> /\ ~Asks(e) /\ ~HasInformed(e)
  BY DEF Init, Asks, HasInformed
<1>2. \A e \in Esis : ~IsOrdered(e)
  BY <1>1 DEF IsOrdered
<1>3. OrdersAreSingle /\ OneIsBusy
  BY <1>1, <1>2 DEF OrdersAreSingle, OneIsBusy, IsBusy
<1>4. FinishingIsOver /\ AbortingIsOver /\ NothingPending /\ SafeAborts
  BY <1>1 DEF Init, FinishingIsOver, AbortingIsOver, NothingPending, SafeAborts,
              StoppedIsPaused, StoppedIsAlive, NoInfo, Advances
<1> QED
  BY <1>3, <1>4 DEF OrderInv

\* Every step of Next keeps the invariant.
LEMMA OrderStep ==
  ASSUME AbortsAreSafe
  PROVE  TypeInv /\ OrderInv /\ [Next]_vars => OrderInv'
<1> SUFFICES ASSUME TypeInv, OrderInv, [Next]_vars PROVE OrderInv'
  OBVIOUS
<1>0. SafeAborts'
  BY StoppedStep, AliveStep DEF OrderInv, SafeAborts
<1>1. ASSUME UNCHANGED <<phase, inbox, info, running, finishedExec, main, dying>>,
             pending' = pending \/ ~finishedExec
      PROVE  OrderInv'
  <2>1. OrdersAreSingle' /\ \A f \in Esis : IsBusy(f)' <=> IsBusy(f)
    BY <1>1 DEF OrderInv, OrdersAreSingle, IsBusy, IsOrdered, Asks, HasInformed,
                Alive
  <2> QED
    BY <1>0, <1>1, <2>1, QuietStep
<1>2. CASE Crash
  BY <1>1, <1>2 DEF Crash, tables, esiVars
<1>3. CASE UNCHANGED vars
  BY <1>1, <1>3 DEF vars, tables, esiVars
<1>4. CASE ConsoleQueuesCommand \/ ConsoleLocksMutex \/ ConsoleSticks \/ Typing
  BY <1>1, <1>4 DEF ConsoleQueuesCommand, ConsoleLocksMutex, ConsoleSticks,
     Typing, ConsoleReads, tables, esiVars
<1>5. CASE ConsoleExecutes \/ DrainCommand
  BY <1>0, <1>5, CommandOrders
<1>6. CASE MainSchedules \/ ConsoleKicks
  BY <1>0, <1>6, ScheduleOrders
<1>7. CASE DrainEnds \/ SetFinishedExecuting \/ AbortEnds \/ MainSticks
             \/ HandleStatusResponse
  BY <1>0, <1>7, LoopOrders
<1>8. CASE \E e \in Esis : EsiConnects(e) \/ HandleKeyStatus(e)
  BY <1>0, <1>8, MessageOrders
<1>9. CASE \E e \in Esis : HandleEsiInformation(e)
  BY <1>0, <1>9, InformationOrders
<1>10. CASE \E e \in Esis :
              DisconnectReady(e) \/ DisconnectRunning(e) \/ DisconnectOther(e)
  BY <1>0, <1>10, DisconnectOrders
<1>11. CASE \E e \in Esis : EsiStep(e)
  BY <1>0, <1>11, EsiOrders
<1>12. CASE ScheduleCrashes
            \/ \E e \in Esis : InformationCrashes(e) \/ DisconnectReadyCrashes(e)
  BY <1>2, <1>12 DEF ScheduleCrashes, InformationCrashes, DisconnectReadyCrashes
<1> QED
  BY <1>3, <1>4, <1>5, <1>6, <1>7, <1>8, <1>9, <1>10, <1>11, <1>12
     DEF Next, SelectLoop, Console, Arrivals

\* At most one operation is under way in the whole system, and while it is
\* finishedExecutingInstruccion is false: whatever the operator types, whoever
\* dies and however the console and the select loop interleave; but under SJF-CD,
\* unless the operator has all of pausar, continuar and kill.
THEOREM OneOperationAtATime ==
  ASSUME AbortsAreSafe
  PROVE  Spec => []AtMostOneOperation
<1>1. Init => TypeInv /\ OrderInv
  BY TypeInit, OrderInit
<1>2. TypeInv /\ OrderInv /\ [Next]_vars => (TypeInv /\ OrderInv)'
  <2>1. TypeInv /\ [Next]_vars => TypeInv'
    BY TablesStep, FlagsStep, ThreadsStep, EsisStep DEF TypeInv, TypeOK
  <2> QED
    BY <2>1, OrderStep
<1>3. OrderInv => AtMostOneOperation
  <2> SUFFICES ASSUME OrderInv PROVE AtMostOneOperation
    OBVIOUS
  <2>1. \A e \in Esis : InFlight(e) => IsBusy(e)
    BY DEF InFlight, IsBusy, Asks, IsOrdered, HasInformed, Contains
  <2> QED
    BY <2>1 DEF AtMostOneOperation, OrderInv, OneIsBusy
<1> QED
  BY <1>1, <1>2, <1>3, PTL DEF Spec

-----------------------------------------------------------------------------
(* The locks of the keys: the inductive invariant.                          *)

\* lockedKeys lists a key once, and only while allSystemTakenKeys has it.
HeldIsTaken ==
    \A e \in Esis, k \in Keys : /\ locked[e][k] <= 1
                                /\ locked[e][k] > 0 => k \in taken
TakenIsHeld ==
    \A k \in taken \ ConfigKeys : \E e \in Esis : locked[e][k] > 0

\* A holder, like whoever may become one, is in the system and not finished.
HoldersArePresent ==
    \A e \in Esis, k \in Keys : locked[e][k] > 0 => e \in system \ finished
WorkersArePresent ==
    \A e \in Esis : /\ Alive(e) \/ HasInformed(e) => e \in system \ finished
                    /\ phase[e] = "gone" => ~HasInformed(e)
FinishedHaveExited ==
    \A e \in Esis :
        /\ e \in finished => phase[e] \in {"exited", "gone"}
        /\ info[e].esiStatus = "FINISHED" => phase[e] = "exited"

\* Between abortEsi's freeTakenKeys and its end the ESI has no keys.
DyingHoldsNothing ==
    main \in {"abort_drain", "abort_set", "abort_end"}
        => \A k \in Keys : locked[dying][k] = 0

\* The answer about a key holds until the outcome it leads to is applied.
AnswersHold ==
    \A e \in Esis :
        /\ phase[e] = "told" /\ status[e] = "NOTBLOCKED"
              => keyRecieved \notin taken
        /\ phase[e] = "told" /\ status[e] = "LOCKED"
              => locked[e][keyRecieved] > 0
        /\ info[e].response = "LOCK" => keyRecieved \notin taken
        /\ info[e].response = "FREE" => locked[e][keyRecieved] > 0

LockInv ==
    /\ MutualExclusion /\ HeldIsTaken /\ TakenIsHeld
    /\ HoldersArePresent /\ WorkersArePresent /\ FinishedHaveExited
    /\ DyingHoldsNothing /\ AnswersHold

-----------------------------------------------------------------------------
(* Releases and quiet steps.                                                *)

\* unlockEsi and lockedKeys together: the keys that ESI e no longer lists are
\* those that leave allSystemTakenKeys, and no other ESI held one of them.
LEMMA ReleaseLocks ==
  ASSUME TypeInv, MutualExclusion, HeldIsTaken, TakenIsHeld,
         NEW e \in Esis, NEW times \in [Keys -> Nat], NEW held \in [Keys -> Nat],
         \A k \in Keys : /\ held[k] <= 1
                         /\ held[k] > 0 <=> (locked[e][k] > 0 /\ times[k] = 0)
                         /\ times[k] > 0 => \A f \in Esis \ {e} : locked[f][k] = 0,
         locked' = LocksOf(e, held), taken' = TakenAfter(times)
  PROVE  MutualExclusion' /\ HeldIsTaken' /\ TakenIsHeld'
<1>1. /\ locked \in [Esis -> [Keys -> Nat]] /\ taken \in SUBSET Keys
  BY DEF TypeInv, TypeOK, TablesTypeOK
<1>2. /\ locked'[e] = held
      /\ \A f \in Esis \ {e} : locked'[f] = locked[f]
  BY <1>1 DEF LocksOf
<1>3. \A k \in Keys : k \in taken' <=> k \in taken /\ times[k] = 0
  BY <1>1 DEF TakenAfter
<1>4. \A f \in Esis, k \in Keys :
         locked'[f][k] > 0 => locked[f][k] > 0 /\ times[k] = 0
  BY <1>1, <1>2
<1>5. MutualExclusion'
  BY <1>4 DEF MutualExclusion
<1>6. HeldIsTaken'
  BY <1>1, <1>2, <1>3, <1>4 DEF HeldIsTaken
<1>7. TakenIsHeld'
  <2> SUFFICES ASSUME NEW k \in taken' \ ConfigKeys
               PROVE  \E f \in Esis : locked'[f][k] > 0
    BY DEF TakenIsHeld
  <2>1. k \in Keys /\ k \in taken \ ConfigKeys /\ times[k] = 0
    BY <1>1, <1>3 DEF TakenAfter
  <2>2. PICK f \in Esis : locked[f][k] > 0
    BY <2>1 DEF TakenIsHeld
  <2>3. locked'[f][k] > 0
    BY <1>2, <2>1, <2>2
  <2> QED
    BY <2>3
<1> QED
  BY <1>5, <1>6, <1>7

\* A step that leaves the lock tables and the ESIs' answers alone.
LEMMA QuietLocks ==
  ASSUME LockInv,
         UNCHANGED <<locked, taken, system, finished, phase, status, info,
                     keyRecieved>>,
         \/ main' \notin {"abort_drain", "abort_set", "abort_end"}
         \/ main \in {"abort_drain", "abort_set", "abort_end"} /\ dying' = dying
  PROVE  LockInv'
<1>1. MutualExclusion' /\ HeldIsTaken' /\ TakenIsHeld'
  BY DEF LockInv, MutualExclusion, HeldIsTaken, TakenIsHeld
<1>2. HoldersArePresent' /\ WorkersArePresent' /\ FinishedHaveExited'
  BY DEF LockInv, HoldersArePresent, WorkersArePresent, FinishedHaveExited,
         Alive, HasInformed
<1>3. DyingHoldsNothing' /\ AnswersHold'
  BY DEF LockInv, DyingHoldsNothing, AnswersHold
<1> QED
  BY <1>1, <1>2, <1>3 DEF LockInv

\* A console command other than desbloquear takes and frees nothing.
LEMMA CommandLocks ==
  ASSUME TypeInv, LockInv, NeverTyped("desbloquear"),
         ConsoleExecutes \/ DrainCommand
  PROVE  LockInv'
<1>1. UNCHANGED <<main, dying, phase, status, info, keyRecieved>>
  BY DEF ConsoleExecutes, DrainCommand, Crash, messages, esiVars
<1>2. ASSUME NEW c \in Commands, Execute(c)
      PROVE  UNCHANGED <<locked, taken, system, finished>>
  BY <1>2 DEF NeverTyped, Execute, ExecutePausar, ExecuteBloquear, ExecuteDesbloquear,
              ExecuteListar, ExecuteKill, ExecuteStatus
<1>3. UNCHANGED <<locked, taken, system, finished>>
  <2>1. CASE Crash \/ Skip
    BY <2>1 DEF Crash, Skip, tables
  <2>2. CASE ConsoleExecutes /\ ~Crash
    <3>1. typed \in Commands /\ Execute(typed)
      BY <2>2 DEF ConsoleExecutes, TypeInv, TypedIsReal
    <3> QED
      BY <1>2, <3>1
  <2>3. CASE DrainCommand /\ ~Crash /\ ~Skip
    <3>1. /\ pending # <<>> /\ pending \in Seq(Commands)
          /\ Execute(Head(pending))
      BY <2>3 DEF DrainCommand, TypeInv, TypeOK, ThreadsTypeOK
    <3>2. Head(pending) \in Commands
      BY <3>1
    <3> QED
      BY <1>2, <3>1, <3>2
  <2> QED
    BY <2>1, <2>2, <2>3
<1> QED
  BY <1>1, <1>3, QuietLocks

-----------------------------------------------------------------------------
(* The handlers of the select loop.                                         *)

\* welcomeEsi: the new ESI is in the system and has not finished.
LEMMA ConnectLocks ==
  ASSUME TypeInv, LockInv, NEW e \in Esis, EsiConnects(e)
  PROVE  LockInv'
<1> USE DEF LockInv
<1>1. /\ UNCHANGED <<locked, taken, finished, status, info, keyRecieved>>
      /\ main' = "drain" /\ phase[e] = "absent"
      /\ phase' = [phase EXCEPT ![e] = "waiting"]
      /\ system' = system \union {e}
  BY DEF EsiConnects, messages
<1>2. phase \in [Esis -> Phases]
  BY DEF TypeInv, TypeOK, EsisTypeOK
<1>3. MutualExclusion' /\ HeldIsTaken' /\ TakenIsHeld' /\ DyingHoldsNothing'
  BY <1>1 DEF MutualExclusion, HeldIsTaken, TakenIsHeld, DyingHoldsNothing
<1>4. HoldersArePresent'
  BY <1>1 DEF HoldersArePresent
<1>5. WorkersArePresent'
  BY <1>1, <1>2 DEF WorkersArePresent, FinishedHaveExited, Alive, HasInformed
<1>6. FinishedHaveExited'
  BY <1>1, <1>2 DEF FinishedHaveExited
<1>7. AnswersHold'
  BY <1>1, <1>2 DEF AnswersHold
<1> QED
  BY <1>3, <1>4, <1>5, <1>6, <1>7

\* sendKeyStatusToCoordinador: the one operation under way gets an answer that
\* is true when it is given.
LEMMA KeyStatusLocks ==
  ASSUME TypeInv, OrderInv, LockInv, NEW e \in Esis, HandleKeyStatus(e)
  PROVE  LockInv'
<1> USE DEF LockInv
<1>1. /\ UNCHANGED <<locked, taken, system, finished, info>>
      /\ main' = "drain" /\ phase[e] = "asking"
      /\ phase' = [phase EXCEPT ![e] = "told"]
      /\ keyRecieved' = operation[e].key
      /\ status' = [status EXCEPT ![e] = KeyStatus(operation[e].key)]
  BY DEF HandleKeyStatus, tables
<1>2. /\ phase \in [Esis -> Phases] /\ status \in [Esis -> KeyStatuses]
      /\ running \in Esis \union {NoEsi}
  BY DEF TypeInv, TypeOK, EsisTypeOK, TablesTypeOK
<1>3. IsBusy(e) /\ ~HasInformed(e)
  BY <1>1 DEF IsBusy, Asks, OrderInv, OrdersAreSingle
<1>4. \A f \in Esis \ {e} : ~Asks(f) /\ ~HasInformed(f)
  BY <1>3 DEF OrderInv, OneIsBusy, IsBusy
<1>5. running \in {e, NoEsi}
  BY <1>3 DEF OrderInv, OneIsBusy
<1>6. MutualExclusion' /\ HeldIsTaken' /\ TakenIsHeld' /\ DyingHoldsNothing'
  BY <1>1 DEF MutualExclusion, HeldIsTaken, TakenIsHeld, DyingHoldsNothing
<1>7. HoldersArePresent' /\ WorkersArePresent' /\ FinishedHaveExited'
  BY <1>1, <1>2 DEF HoldersArePresent, WorkersArePresent, FinishedHaveExited,
                    Alive, HasInformed
<1>8. /\ status'[e] = "NOTBLOCKED" => keyRecieved' \notin taken
      /\ status'[e] = "LOCKED" => locked[e][keyRecieved'] > 0
  BY <1>1, <1>2, <1>5 DEF KeyStatus, IsLockedKey
<1>9. \A f \in Esis : info[f].response \notin {"LOCK", "FREE"}
  BY <1>3, <1>4 DEF HasInformed, NoInfo
<1>10. AnswersHold'
  BY <1>1, <1>2, <1>4, <1>8, <1>9 DEF AnswersHold, Asks
<1> QED
  BY <1>6, <1>7, <1>10

\* finishEsi frees the keys the ESI lists and the one it has just locked, which
\* nobody else has.
LEMMA FinishTables ==
  ASSUME TypeInv, LockInv, NEW e \in Esis, running = e, keyRecieved \in Keys,
         info[e].response \in {"SUCCESS", "LOCK", "FREE"}, Finishes(e)
  PROVE  MutualExclusion' /\ HeldIsTaken' /\ TakenIsHeld'
<1> USE DEF LockInv
<1> DEFINE times == Releases(info[e])
<1>1. /\ locked \in [Esis -> [Keys -> Nat]] /\ taken \in SUBSET Keys
  BY DEF TypeInv, TypeOK, TablesTypeOK
<1>2. times \in [Keys -> Nat] /\ NothingHeld \in [Keys -> Nat]
  BY ReleasesType DEF TypeInv, TypeOK, NothingHeld
<1>3. locked' = LocksOf(e, NothingHeld) /\ taken' = TakenAfter(times)
  BY DEF Finishes, Release
<1>4. info[e].esiStatus = "FINISHED"
  BY DEF Finishes
<1>5. ASSUME NEW k \in Keys
      PROVE  /\ locked[e][k] > 0 => times[k] > 0
             /\ times[k] > 0 => locked[e][k] > 0 \/ k \notin taken
  <2>1. CASE info[e].response = "SUCCESS"
    <3>1. times = locked[e]
      BY <1>4, <2>1 DEF Releases
    <3> QED
      BY <3>1
  <2>2. CASE info[e].response = "LOCK"
    <3>1. times = LockedPlus(e, keyRecieved) /\ keyRecieved \notin taken
      BY <1>4, <2>2 DEF Releases, AnswersHold
    <3> QED
      BY <1>1, <3>1 DEF LockedPlus
  <2>3. CASE info[e].response = "FREE"
    <3>1. times = FreedAtLeast(e, keyRecieved) /\ locked[e][keyRecieved] > 0
      BY <1>4, <2>3 DEF Releases, AnswersHold
    <3> QED
      BY <1>1, <3>1 DEF FreedAtLeast
  <2> QED
    BY <2>1, <2>2, <2>3
<1> HIDE DEF times
<1>6. ASSUME NEW k \in Keys
      PROVE  /\ NothingHeld[k] <= 1
             /\ NothingHeld[k] > 0 <=> (locked[e][k] > 0 /\ times[k] = 0)
             /\ times[k] > 0 => \A f \in Esis \ {e} : locked[f][k] = 0
  <2>1. NothingHeld[k] = 0
    BY DEF NothingHeld
  <2>2. ~(locked[e][k] > 0 /\ times[k] = 0)
    BY <1>2, <1>5
  <2>3. ASSUME times[k] > 0, NEW f \in Esis \ {e} PROVE locked[f][k] = 0
    <3>1. ~(locked[f][k] > 0)
      BY <1>5, <2>3 DEF MutualExclusion, HeldIsTaken
    <3> QED
      BY <1>1, <3>1
  <2> QED
    BY <2>1, <2>2, <2>3
<1> QED
  BY <1>2, <1>3, <1>6, ReleaseLocks

\* handleEsiInformation keeps the two records of the locks together.
LEMMA OutcomeTables ==
  ASSUME TypeInv, LockInv, NEW e \in Esis, running = e, keyRecieved \in Keys,
         HandleEsiInformation(e)
  PROVE  MutualExclusion' /\ HeldIsTaken' /\ TakenIsHeld'
<1> USE DEF LockInv
<1>1. locked \in [Esis -> [Keys -> Nat]] /\ taken \in SUBSET Keys
  BY DEF TypeInv, TypeOK, TablesTypeOK
<1>2. CASE UNCHANGED <<taken, locked>>
  BY <1>2 DEF MutualExclusion, HeldIsTaken, TakenIsHeld
<1>3. CASE Finishes(e) /\ info[e].response \in {"SUCCESS", "LOCK", "FREE"}
  BY <1>3, FinishTables
<1>4. CASE HandleLock(e) /\ Continues(e)
  <2>1. keyRecieved \notin taken
    BY <1>4 DEF HandleLock, Receives, AnswersHold
  <2>2. /\ taken' = taken \union {keyRecieved}
        /\ locked' = LocksOf(e, LockedPlus(e, keyRecieved))
    BY <1>4 DEF HandleLock, Continues, Finishes
  <2>3. \A f \in Esis : locked[f][keyRecieved] = 0
    BY <1>1, <2>1 DEF HeldIsTaken
  <2>4. /\ locked'[e][keyRecieved] = 1
        /\ \A f \in Esis, k \in Keys : f # e \/ k # keyRecieved
              => locked'[f][k] = locked[f][k]
    BY <1>1, <2>2, <2>3 DEF LocksOf, LockedPlus
  <2>5. MutualExclusion'
    <3> SUFFICES ASSUME NEW f \in Esis, NEW g \in Esis, NEW k \in Keys,
                        locked'[f][k] > 0, locked'[g][k] > 0
                 PROVE  f = g
      BY DEF MutualExclusion
    <3>1. CASE k = keyRecieved
      <4>1. ~(0 > 0)
        OBVIOUS
      <4>2. f = e /\ g = e
        BY <2>3, <2>4, <3>1, <4>1
      <4> QED
        BY <4>2
    <3>2. CASE k # keyRecieved
      BY <2>4, <3>2 DEF MutualExclusion
    <3> QED
      BY <3>1, <3>2
  <2>6. HeldIsTaken'
    BY <1>1, <2>2, <2>4 DEF HeldIsTaken
  <2>7. TakenIsHeld'
    <3> SUFFICES ASSUME NEW k \in taken' \ ConfigKeys
                 PROVE  \E f \in Esis : locked'[f][k] > 0
      BY DEF TakenIsHeld
    <3>1. CASE k = keyRecieved
      BY <2>4, <3>1
    <3>2. CASE k # keyRecieved
      <4>1. PICK f \in Esis : locked[f][k] > 0
        BY <2>2, <3>2 DEF TakenIsHeld
      <4>2. k \in Keys
        BY <1>1, <2>2, <3>2
      <4> QED
        BY <2>4, <3>2, <4>1, <4>2
    <3> QED
      BY <3>1, <3>2
  <2> QED
    BY <2>5, <2>6, <2>7
<1>5. CASE HandleFree(e) /\ Continues(e) /\ ~Finishes(e)
  <2> DEFINE times == Once(keyRecieved)
             held  == LockedMinus(e, keyRecieved)
  <2>1. locked[e][keyRecieved] = 1
    <3>1. locked[e][keyRecieved] > 0 /\ locked[e][keyRecieved] <= 1
      BY <1>5 DEF HandleFree, Receives, AnswersHold, HeldIsTaken
    <3> QED
      BY <1>1, <3>1
  <2>2. Releases(info[e]) = Once(keyRecieved)
    BY <1>5 DEF HandleFree, Receives, Continues, Releases
  <2>3. locked' = LocksOf(e, held) /\ taken' = TakenAfter(times)
    BY <1>5, <2>2 DEF HandleFree, Release
  <2>4. times \in [Keys -> Nat] /\ held \in [Keys -> Nat]
    BY HeldType DEF TypeInv, TypeOK
  <2>5. ASSUME NEW k \in Keys
        PROVE  /\ held[k] <= 1
               /\ held[k] > 0 <=> (locked[e][k] > 0 /\ times[k] = 0)
               /\ times[k] > 0 => \A f \in Esis \ {e} : locked[f][k] = 0
    <3>1. CASE k = keyRecieved
      <4>1. held[k] = 0 /\ times[k] = 1
        BY <1>1, <2>1, <3>1 DEF LockedMinus, Once
      <4>2. ASSUME NEW f \in Esis \ {e} PROVE locked[f][k] = 0
        <5>1. ~(locked[f][k] > 0)
          BY <2>1, <3>1 DEF MutualExclusion
        <5> QED
          BY <1>1, <5>1
      <4> HIDE DEF held, times
      <4> QED
        BY <4>1, <4>2
    <3>2. CASE k # keyRecieved
      <4>1. held[k] = locked[e][k] /\ times[k] = 0
        BY <1>1, <3>2 DEF LockedMinus, Once
      <4>2. locked[e][k] <= 1
        BY DEF HeldIsTaken
      <4> HIDE DEF held, times
      <4> QED
        BY <4>1, <4>2
    <3> QED
      BY <3>1, <3>2
  <2> HIDE DEF held, times
  <2> QED
    BY <2>3, <2>4, <2>5, ReleaseLocks
<1> QED
  BY <1>2, <1>3, <1>4, <1>5
     DEF HandleEsiInformation, HandleSuccess, HandleLock, HandleBlock,
         HandleFree, HandleAbort, Receives

\* handleEsiInformation: the outcome is that of the running ESI, the only one
\* with an operation under way.
LEMMA InformationLocks ==
  ASSUME TypeInv, OrderInv, LockInv, NEW e \in Esis, HandleEsiInformation(e)
  PROVE  LockInv'
<1> USE DEF LockInv
<1>1. /\ HasInformed(e) /\ main' = "finish_drain" /\ running # NoEsi
      /\ info' = [info EXCEPT ![e] = NoInfo]
      /\ UNCHANGED <<system, phase, status, keyRecieved>>
  BY DEF HandleEsiInformation, HandleSuccess, HandleLock, HandleBlock,
         HandleFree, HandleAbort, Receives, HasInformed, messages
<1>2. /\ info \in [Esis -> Infos \union {NoInfo}]
      /\ locked \in [Esis -> [Keys -> Nat]]
  BY DEF TypeInv, TypeOK, EsisTypeOK, TablesTypeOK
<1>3. /\ IsBusy(e) /\ ~Asks(e)
      /\ \A f \in Esis \ {e} : ~Asks(f) /\ ~HasInformed(f)
  BY <1>1 DEF IsBusy, OrderInv, OrdersAreSingle, OneIsBusy
<1>4. running = e
  BY <1>1, <1>3 DEF OrderInv, OneIsBusy
<1>5. keyRecieved \in Keys
  BY <1>1 DEF TypeInv, OperationsAreReal, HasInformed
<1>6. MutualExclusion' /\ HeldIsTaken' /\ TakenIsHeld'
  BY <1>4, <1>5, OutcomeTables
<1>7. \A f \in Esis : info'[f] = NoInfo
  BY <1>1, <1>2, <1>3 DEF HasInformed
<1>8. \/ UNCHANGED finished
      \/ finished' = finished \union {e} /\ phase[e] = "exited"
         /\ locked' = LocksOf(e, NothingHeld)
  BY <1>4 DEF HandleEsiInformation, HandleSuccess, HandleLock, HandleBlock,
     HandleFree, HandleAbort, Continues, Finishes, FinishedHaveExited
<1>9. \A f \in Esis \ {e} : locked'[f] = locked[f]
  BY <1>2, <1>4 DEF HandleEsiInformation, HandleSuccess, HandleLock,
     HandleBlock, HandleFree, HandleAbort, Continues, Finishes, LocksOf
<1>10. HoldersArePresent'
  <2> SUFFICES ASSUME NEW f \in Esis, NEW k \in Keys, locked'[f][k] > 0
               PROVE  f \in system' \ finished'
    BY DEF HoldersArePresent
  <2>1. CASE f = e
    <3>1. UNCHANGED finished
      BY <1>2, <1>8, <2>1 DEF LocksOf, NothingHeld
    <3> QED
      BY <1>1, <2>1, <3>1 DEF WorkersArePresent
  <2>2. CASE f # e
    BY <1>1, <1>8, <1>9, <2>2 DEF HoldersArePresent
  <2> QED
    BY <2>1, <2>2
<1>11. WorkersArePresent'
  BY <1>1, <1>7, <1>8 DEF WorkersArePresent, Alive, HasInformed
<1>12. FinishedHaveExited'
  BY <1>1, <1>7, <1>8 DEF FinishedHaveExited, NoInfo
<1>13. DyingHoldsNothing'
  BY <1>1 DEF DyingHoldsNothing
<1>14. AnswersHold'
  BY <1>1, <1>3, <1>7 DEF AnswersHold, Asks, NoInfo
<1> QED
  BY <1>6, <1>10, <1>11, <1>12, <1>13, <1>14

\* abortEsi frees all the keys of a dead ESI, in both records.
LEMMA DisconnectLocks ==
  ASSUME TypeInv, LockInv, NEW e \in Esis,
         DisconnectReady(e) \/ DisconnectRunning(e) \/ DisconnectOther(e)
  PROVE  LockInv'
<1> USE DEF LockInv
<1>1. /\ phase[e] = "exited" /\ info[e] = NoInfo
      /\ phase' = [phase EXCEPT ![e] = "gone"]
      /\ locked' = LocksOf(e, NothingHeld)
      /\ taken' = TakenAfter(locked[e])
      /\ UNCHANGED <<finished, status, info, keyRecieved>>
      /\ main' = "schedule" \/ (main' = "abort_drain" /\ dying' = e)
      /\ system' = system \/ system' = system \ {e}
  BY DEF DisconnectReady, DisconnectRunning, DisconnectOther, Disconnects,
         FreesAll, RemoveFromSystem, messages
<1>2. /\ phase \in [Esis -> Phases]
      /\ locked \in [Esis -> [Keys -> Nat]] /\ taken \in SUBSET Keys
  BY DEF TypeInv, TypeOK, EsisTypeOK, TablesTypeOK
<1>3. /\ \A k \in Keys : locked'[e][k] = 0
      /\ \A f \in Esis \ {e} : locked'[f] = locked[f]
      /\ taken' \subseteq taken
  BY <1>1, <1>2 DEF LocksOf, NothingHeld, TakenAfter
<1>4. ASSUME NEW k \in Keys
      PROVE  /\ NothingHeld[k] <= 1
             /\ NothingHeld[k] > 0 <=> (locked[e][k] > 0 /\ locked[e][k] = 0)
             /\ locked[e][k] > 0 => \A f \in Esis \ {e} : locked[f][k] = 0
  <2>1. NothingHeld[k] = 0
    BY DEF NothingHeld
  <2>2. ASSUME locked[e][k] > 0, NEW f \in Esis \ {e} PROVE locked[f][k] = 0
    <3>1. ~(locked[f][k] > 0)
      BY <2>2 DEF MutualExclusion
    <3> QED
      BY <1>2, <3>1
  <2> QED
    BY <2>1, <2>2
<1>5. locked[e] \in [Keys -> Nat] /\ NothingHeld \in [Keys -> Nat]
  BY <1>2 DEF NothingHeld
<1>6. MutualExclusion' /\ HeldIsTaken' /\ TakenIsHeld'
  BY <1>1, <1>4, <1>5, ReleaseLocks
<1>7. HoldersArePresent'
  <2>1. \A k \in Keys : ~(locked'[e][k] > 0)
    BY <1>3
  <2> QED
    BY <1>1, <1>3, <2>1 DEF HoldersArePresent
<1>8. WorkersArePresent'
  BY <1>1, <1>2 DEF WorkersArePresent, Alive, HasInformed
<1>9. FinishedHaveExited'
  BY <1>1, <1>2 DEF FinishedHaveExited, NoInfo
<1>10. DyingHoldsNothing'
  BY <1>1, <1>3 DEF DyingHoldsNothing
<1>11. AnswersHold'
  <2> SUFFICES ASSUME NEW f \in Esis
               PROVE  /\ phase'[f] = "told" /\ status[f] = "NOTBLOCKED"
                            => keyRecieved \notin taken'
                      /\ phase'[f] = "told" /\ status[f] = "LOCKED"
                            => locked'[f][keyRecieved] > 0
                      /\ info[f].response = "LOCK" => keyRecieved \notin taken'
                      /\ info[f].response = "FREE"
                            => locked'[f][keyRecieved] > 0
    BY <1>1 DEF AnswersHold
  <2>1. CASE f = e
    BY <1>1, <1>2, <2>1 DEF NoInfo
  <2>2. CASE f # e
    BY <1>1, <1>2, <1>3, <2>2 DEF AnswersHold
  <2> QED
    BY <2>1, <2>2
<1> QED
  BY <1>6, <1>7, <1>8, <1>9, <1>10, <1>11

\* The end of abortEsi: the ESI it removes has no key left.
LEMMA AbortLocks ==
  ASSUME TypeInv, OrderInv, LockInv, AbortEnds
  PROVE  LockInv'
<1> USE DEF LockInv
<1>1. /\ main = "abort_end" /\ main' = "schedule"
      /\ system' = system \/ system' = system \ {dying}
      /\ UNCHANGED <<finished, taken, locked, phase, status, info, keyRecieved>>
  BY DEF AbortEnds, RemoveFromSystem, messages, esiVars
<1>2. dying \in Esis /\ phase[dying] = "gone"
  BY <1>1 DEF OrderInv, AbortingIsOver
<1>3. ~Alive(dying) /\ ~HasInformed(dying)
  BY <1>2 DEF Alive, WorkersArePresent
<1>4. MutualExclusion' /\ HeldIsTaken' /\ TakenIsHeld'
  BY <1>1 DEF MutualExclusion, HeldIsTaken, TakenIsHeld
<1>5. HoldersArePresent'
  <2>1. \A k \in Keys : ~(locked[dying][k] > 0)
    BY <1>1 DEF DyingHoldsNothing
  <2> QED
    BY <1>1, <2>1 DEF HoldersArePresent
<1>6. WorkersArePresent' /\ FinishedHaveExited'
  BY <1>1, <1>3 DEF WorkersArePresent, FinishedHaveExited, Alive, HasInformed
<1>7. DyingHoldsNothing' /\ AnswersHold'
  BY <1>1 DEF DyingHoldsNothing, AnswersHold
<1> QED
  BY <1>4, <1>5, <1>6, <1>7

-----------------------------------------------------------------------------
(* The ESIs.                                                                *)

\* The coordinator answers LOCK and FREE only on what the scheduler said.
LEMMA ResponsesFromStatus ==
  ASSUME NEW code, NEW keyStatus
  PROVE  /\ "LOCK" \in CoordinadorResponses(code, keyStatus)
               => keyStatus = "NOTBLOCKED"
         /\ "FREE" \in CoordinadorResponses(code, keyStatus)
               => keyStatus = "LOCKED"
BY DEF CoordinadorResponses

\* The line an ESI asks for, the outcome it informs of and its exit.
LEMMA EsiLocks ==
  ASSUME TypeInv, LockInv, NEW e \in Esis, EsiStep(e)
  PROVE  LockInv'
<1> USE DEF LockInv
<1>1. /\ UNCHANGED <<locked, taken, system, finished, keyRecieved, main, dying,
                     status>>
      /\ phase[e] \in {"waiting", "told"} /\ phase'[e] \in {"asking", "exited", "waiting"}
  BY DEF EsiStep, EsiRunsLine, EsiRejectsLine, EsiIsKilled, EsiAnswers,
         planificadorUnchanged, tables, messages, TypeInv, TypeOK, EsisTypeOK
<1>2. /\ phase \in [Esis -> Phases] /\ info \in [Esis -> Infos \union {NoInfo}]
  BY DEF TypeInv, TypeOK, EsisTypeOK
<1>3. \A f \in Esis \ {e} : phase'[f] = phase[f] /\ info'[f] = info[f]
  BY <1>2 DEF EsiStep, EsiRunsLine, EsiRejectsLine, EsiIsKilled, EsiAnswers
<1>4. e \in system \ finished
  BY <1>1 DEF WorkersArePresent, Alive
<1>5. /\ info'[e].response = "LOCK" => keyRecieved \notin taken
      /\ info'[e].response = "FREE" => locked[e][keyRecieved] > 0
      /\ info'[e].esiStatus = "FINISHED" => phase'[e] = "exited"
  <2>1. CASE UNCHANGED info
    BY <1>1, <2>1 DEF AnswersHold, FinishedHaveExited
  <2>2. CASE EsiAnswers(e)
    <3>1. phase[e] = "told"
      BY <2>2 DEF EsiAnswers
    <3>2. PICK r \in CoordinadorResponses(operation[e].code, status[e]) :
            LET rest == IF Advances(r) THEN left[e] - 1 ELSE left[e]
                exits == r = "ABORT" \/ rest = 0
            IN  /\ info' = [info EXCEPT ![e] = [response |-> r,
                       esiStatus |-> IF rest = 0 THEN "FINISHED"
                                                 ELSE "NOTFINISHED"]]
                /\ phase' = [phase EXCEPT ![e] =
                       IF exits THEN "exited" ELSE "waiting"]
      BY <2>2 DEF EsiAnswers
    <3>3. /\ info'[e].response = r
          /\ info'[e].esiStatus = "FINISHED" => phase'[e] = "exited"
      BY <1>2, <3>2
    <3>4. /\ r = "LOCK" => status[e] = "NOTBLOCKED"
          /\ r = "FREE" => status[e] = "LOCKED"
      BY ResponsesFromStatus
    <3> QED
      BY <3>1, <3>3, <3>4 DEF AnswersHold
  <2> QED
    BY <2>1, <2>2 DEF EsiStep, EsiRunsLine, EsiRejectsLine, EsiIsKilled
<1>6. MutualExclusion' /\ HeldIsTaken' /\ TakenIsHeld' /\ HoldersArePresent'
  BY <1>1 DEF MutualExclusion, HeldIsTaken, TakenIsHeld, HoldersArePresent
<1>7. WorkersArePresent'
  BY <1>1, <1>3, <1>4 DEF WorkersArePresent, Alive, HasInformed
<1>8. FinishedHaveExited'
  BY <1>1, <1>3, <1>4, <1>5 DEF FinishedHaveExited
<1>9. DyingHoldsNothing'
  BY <1>1 DEF DyingHoldsNothing
<1>10. AnswersHold'
  BY <1>1, <1>3, <1>5 DEF AnswersHold
<1> QED
  BY <1>6, <1>7, <1>8, <1>9, <1>10

-----------------------------------------------------------------------------
\* When the scheduler starts only the keys of the configuration are taken.
LEMMA LockInit == Init => LockInv
<1> SUFFICES ASSUME Init PROVE LockInv
  OBVIOUS
<1>1. \A e \in Esis, k \in Keys : locked[e][k] = 0
  BY DEF Init
<1>2. MutualExclusion /\ HeldIsTaken /\ HoldersArePresent
  BY <1>1 DEF MutualExclusion, HeldIsTaken, HoldersArePresent
<1>3. TakenIsHeld /\ DyingHoldsNothing
  BY DEF Init, TakenIsHeld, DyingHoldsNothing
<1>4. WorkersArePresent /\ FinishedHaveExited /\ AnswersHold
  BY DEF Init, WorkersArePresent, FinishedHaveExited, AnswersHold, Alive,
         HasInformed, NoInfo
<1> QED
  BY <1>2, <1>3, <1>4 DEF LockInv

\* Every step of Next but a desbloquear keeps the invariant.
LEMMA LockStep ==
  ASSUME NeverTyped("desbloquear")
  PROVE  TypeInv /\ OrderInv /\ LockInv /\ [Next]_vars => LockInv'
<1> SUFFICES ASSUME TypeInv, OrderInv, LockInv, [Next]_vars PROVE LockInv'
  OBVIOUS
<1> DEFINE aborting == {"abort_drain", "abort_set", "abort_end"}
<1>1. ASSUME UNCHANGED <<locked, taken, system, finished, phase, status, info,
                         keyRecieved>>,
             main' \notin aborting \/ (main \in aborting /\ dying' = dying)
      PROVE  LockInv'
  BY <1>1, QuietLocks
<1>2. ASSUME UNCHANGED <<locked, taken, system, finished, phase, status, info,
                         keyRecieved, main, dying>>
      PROVE  LockInv'
  BY <1>1, <1>2
<1>3. CASE Crash
  BY <1>2, <1>3 DEF Crash, tables, messages, esiVars
<1>4. CASE UNCHANGED vars
  BY <1>2, <1>4 DEF vars, tables, messages, esiVars
<1>5. CASE ConsoleQueuesCommand \/ ConsoleLocksMutex \/ ConsoleSticks \/ Typing
  BY <1>2, <1>5 DEF ConsoleQueuesCommand, ConsoleLocksMutex, ConsoleSticks,
     Typing, ConsoleReads, tables, messages, esiVars
<1>6. CASE ConsoleExecutes \/ DrainCommand
  BY <1>6, CommandLocks
<1>7. CASE MainSchedules \/ ConsoleKicks
  <2>1. /\ UNCHANGED <<locked, taken, system, finished, phase, status, info,
                       keyRecieved, dying>>
        /\ main' \in {main, "select"}
    BY <1>7 DEF MainSchedules, ConsoleKicks, ExecuteInstruccion, messages
  <2> QED
    BY <1>1, <2>1
<1>8. CASE DrainEnds \/ SetFinishedExecuting \/ MainSticks \/ HandleStatusResponse
  <2>1. \/ Crash
        \/ /\ UNCHANGED <<locked, taken, system, finished, phase, status, info,
                          keyRecieved, dying>>
           /\ \/ main \in aborting
              \/ main' \notin aborting
    BY <1>8 DEF DrainEnds, AfterDrain, Draining, SetFinishedExecuting,
       MainSticks, HandleStatusResponse, tables, messages, esiVars
  <2> QED
    BY <1>1, <1>3, <2>1
<1>9. CASE AbortEnds
  BY <1>9, AbortLocks
<1>10. CASE \E e \in Esis : EsiConnects(e)
  BY <1>10, ConnectLocks
<1>11. CASE \E e \in Esis : HandleKeyStatus(e)
  BY <1>11, KeyStatusLocks
<1>12. CASE \E e \in Esis : HandleEsiInformation(e)
  BY <1>12, InformationLocks
<1>13. CASE \E e \in Esis :
              DisconnectReady(e) \/ DisconnectRunning(e) \/ DisconnectOther(e)
  BY <1>13, DisconnectLocks
<1>14. CASE \E e \in Esis : EsiStep(e)
  BY <1>14, EsiLocks
<1>15. CASE ScheduleCrashes
            \/ \E e \in Esis : InformationCrashes(e) \/ DisconnectReadyCrashes(e)
  BY <1>3, <1>15 DEF ScheduleCrashes, InformationCrashes, DisconnectReadyCrashes
<1> QED
  BY <1>4, <1>5, <1>6, <1>7, <1>8, <1>9, <1>10, <1>11, <1>12, <1>13, <1>14,
     <1>15 DEF Next, SelectLoop, Console, Arrivals

\* The three invariants together, in every reachable state.
LEMMA LockInvariant ==
  ASSUME AbortsAreSafe, NeverTyped("desbloquear")
  PROVE  Spec => [](TypeInv /\ LockInv)
<1>1. Init => TypeInv /\ OrderInv /\ LockInv
  BY TypeInit, OrderInit, LockInit
<1>2. TypeInv /\ OrderInv /\ LockInv /\ [Next]_vars
         => (TypeInv /\ OrderInv /\ LockInv)'
  <2>1. TypeInv /\ [Next]_vars => TypeInv'
    BY TablesStep, FlagsStep, ThreadsStep, EsisStep DEF TypeInv, TypeOK
  <2> QED
    BY <2>1, OrderStep, LockStep
<1> QED
  BY <1>1, <1>2, PTL DEF Spec

\* Without desbloquear (and with aborts that are safe) no two ESIs ever hold one key:
\* nothing comes between the status the scheduler gives of a key and the lockKey
\* it leads to, whoever dies, is killed or is blocked from the console.
THEOREM LocksAreExclusive ==
  ASSUME AbortsAreSafe, NeverTyped("desbloquear")
  PROVE  Spec => []MutualExclusion
<1>1. TypeInv /\ LockInv => MutualExclusion
  BY DEF LockInv
<1> QED
  BY <1>1, LockInvariant, PTL

\* What makes the two records agree.
LEMMA LocksAgree ==
  ASSUME TypeInv, LockInv
  PROVE  LockTablesAgree
<1>1. \A e \in Esis, k \in Keys : locked[e][k] > 0 => k \in taken
  BY DEF LockInv, HeldIsTaken
<1>2. ASSUME NEW k \in taken \ ConfigKeys
      PROVE  \E e \in system \ finished : locked[e][k] > 0
  <2>1. PICK e \in Esis : locked[e][k] > 0
    BY DEF LockInv, TakenIsHeld
  <2>2. k \in Keys
    BY DEF TypeInv, TypeOK, TablesTypeOK
  <2>3. e \in system \ finished
    BY <2>1, <2>2 DEF LockInv, HoldersArePresent
  <2> QED
    BY <2>1, <2>3
<1> QED
  BY <1>1, <1>2 DEF LockTablesAgree

\* Nor do the two records of a lock ever part: what an ESI lists is taken, and
\* what is taken is listed by an ESI that is in the system and has not finished,
\* or comes from the configuration.
THEOREM LockRecordsAgree ==
  ASSUME AbortsAreSafe, NeverTyped("desbloquear")
  PROVE  Spec => []LockTablesAgree
<1>1. TypeInv /\ LockInv => LockTablesAgree
  BY LocksAgree
<1> QED
  BY <1>1, LockInvariant, PTL
=============================================================================
