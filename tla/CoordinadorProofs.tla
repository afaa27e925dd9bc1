-------------------------- MODULE CoordinadorProofs --------------------------
(* Theorems about the coordinator for every set of ESIs, instancias and keys *)
(* and every number of lines, status commands, falls and returns.            *)
EXTENDS Coordinador, DistributionLists

-----------------------------------------------------------------------------
(* Where the keys are recorded: the invariant.                              *)

RequestsAreReal == request \in [Esis -> Operations \union {NoOperation}]
\* storedKeys is that of an instancia of the list, so that lookForKey sees it.
StoredAreKnown ==
    /\ storedKeys \in [Instancias -> SUBSET Keys]
    /\ \A i \in Instancias : storedKeys[i] # {} => i \in Known
\* Only an instancia of the list has a thread.
ThreadsAreKnown ==
    /\ instanciaThread \in [Instancias -> {"none", "starting", "loop", "compact"}]
    /\ \A i \in Instancias : instanciaThread[i] # "none" => i \in Known
KeyInv ==
    /\ DistributionTypeOK /\ TurnInv
    /\ RequestsAreReal /\ ThreadsAreKnown /\ StoredAreKnown /\ KeyInOneInstancia

\* What the records say of the keys depends on nothing else.
LEMMA SameRecords ==
  ASSUME KeyInv, RequestsAreReal', ThreadsAreKnown',
         UNCHANGED <<list, turn, algorithm, storedKeys>>
  PROVE  KeyInv'
<1>1. UNCHANGED Known
  BY DEF Known, list
<1> QED
  BY <1>1 DEF KeyInv, DistributionTypeOK, TurnInv, TurnIsRight, StoredAreKnown,
              KeyInOneInstancia, list, turn

\* A key is forgotten.
LEMMA KeyIsRemoved ==
  ASSUME KeyInv, RequestsAreReal', ThreadsAreKnown',
         UNCHANGED <<list, turn, algorithm>>, NEW k, NEW i, RemoveKey(k, i)
  PROVE  KeyInv'
<1>1. UNCHANGED <<instancias, fallen, spaceUsed, lastInstanciaChosen,
                  firstAlreadyPass, Known>>
  BY DEF Known, list, turn
<1>2. /\ storedKeys' \in [Instancias -> SUBSET Keys]
      /\ \A j \in Instancias : storedKeys'[j] \subseteq storedKeys[j]
  BY DEF RemoveKey, KeyInv, StoredAreKnown
<1>3. StoredAreKnown'
  BY <1>1, <1>2 DEF KeyInv, StoredAreKnown
<1>4. KeyInOneInstancia'
  BY <1>2 DEF KeyInv, KeyInOneInstancia
<1> QED
  BY <1>1, <1>3, <1>4 DEF KeyInv, DistributionTypeOK, TurnInv, TurnIsRight

\* lookForKey finds whoever has the key.
LEMMA LookForKeyFinds ==
  ASSUME KeyInv, NEW k \in Keys, LookForKey(k) = NoInstancia
  PROVE  \A i \in Instancias : k \notin storedKeys[i]
<1>1. Owners(k) \subseteq Known
  BY DEF Owners
<1>2. Owners(k) = {}
  <2>1. Owners(k) # {} => FirstOf(Owners(k)) \in Known
    BY <1>1, FirstOfType DEF KeyInv
  <2> QED
    BY <2>1, KnownType DEF LookForKey, KeyInv
<1>3. ASSUME NEW i \in Instancias, k \in storedKeys[i] PROVE i \in Owners(k)
  BY <1>3 DEF KeyInv, StoredAreKnown, Owners
<1> QED
  BY <1>2, <1>3

\* A key that nobody has is given to an instancia of the list.
LEMMA KeyIsPlaced ==
  ASSUME KeyInv, RequestsAreReal', ThreadsAreKnown',
         UNCHANGED <<list, algorithm>>, TakeTurn, NEW k \in Keys,
         LookForKey(k) = NoInstancia, Chosen(k) # NoInstancia,
         storedKeys' = [storedKeys EXCEPT ![Chosen(k)] = @ \union {k}]
  PROVE  KeyInv'
<1>1. Chosen(k) \in Known /\ Known \subseteq Instancias
  BY ChosenIsAlive, KnownType DEF KeyInv, AliveInstancias, Chosen
<1>2. DistributionTypeOK' /\ TurnInv'
  BY TurnStep DEF KeyInv
<1>3. UNCHANGED Known
  BY DEF Known, list
<1>4. \A i \in Instancias : k \notin storedKeys[i]
  BY LookForKeyFinds
<1>5. PICK c \in Instancias : c = Chosen(k)
  BY <1>1
<1>6. /\ storedKeys \in [Instancias -> SUBSET Keys]
      /\ storedKeys' = [storedKeys EXCEPT ![c] = storedKeys[c] \union {k}]
  BY <1>5 DEF KeyInv, StoredAreKnown
<1>7. StoredAreKnown'
  BY <1>1, <1>3, <1>5, <1>6 DEF KeyInv, StoredAreKnown
<1>8. KeyInOneInstancia'
  <2> SUFFICES ASSUME NEW i \in Instancias, NEW j \in Instancias,
                      NEW l \in storedKeys'[i] \cap storedKeys'[j]
               PROVE  i = j
    BY DEF KeyInOneInstancia
  <2>1. CASE l = k
    BY <1>4, <1>6, <2>1
  <2>2. CASE l # k
    <3>1. l \in storedKeys[i] \cap storedKeys[j]
      BY <1>6, <2>2
    <3> QED
      BY <3>1 DEF KeyInv, KeyInOneInstancia
  <2> QED
    BY <2>1, <2>2
<1> QED
  BY <1>2, <1>7, <1>8 DEF KeyInv

-----------------------------------------------------------------------------
(* Where the keys are recorded: the steps.                                  *)

\* A response takes the request away, or leaves it as it is.
LEMMA RequestAnswered ==
  ASSUME RequestsAreReal, NEW e, NEW response, SendResponseToEsi(e, response)
  PROVE  RequestsAreReal'
BY DEF SendResponseToEsi, RequestsAreReal

\* An operation that is given to an instancia, or cannot be.
LEMMA RequestTried ==
  ASSUME RequestsAreReal, NEW e, NEW i, TryToExecute(e, i)
  PROVE  RequestsAreReal'
BY RequestAnswered DEF TryToExecute, esiSide, RequestsAreReal

LEMMA KeyStepEsi ==
  ASSUME KeyInv, NEW e \in Esis, EsiActs(e)
  PROVE  KeyInv'
<1>1. RequestsAreReal
  BY DEF KeyInv
<1>2. UNCHANGED <<list, algorithm>>
  BY DEF EsiActs
<1> ThreadsAreKnown'
  BY <1>2 DEF EsiActs, KeyInv, ThreadsAreKnown, Known, list
<1>3. ASSUME NEW response, Answer(e, response), UNCHANGED <<storedKeys, turn>>
      PROVE  KeyInv'
  BY <1>1, <1>2, <1>3, RequestAnswered, SameRecords DEF Answer
<1>4. CASE ForgetFallen(e)
  BY <1>1, <1>2, <1>4, RequestAnswered, KeyIsRemoved DEF ForgetFallen, Answer
<1>5. CASE Refuse(e)
  BY <1>3, <1>5 DEF Refuse
<1>6. CASE UseKnown(e)
  BY <1>1, <1>2, <1>6, RequestTried, SameRecords DEF UseKnown
<1>7. CASE SetUnknown(e) /\ ~Refuse(e) /\ request[e].code = "SET"
  <2>1. request[e] \in Operations
    BY <1>1, <1>7 DEF RequestsAreReal, NoOperation
  <2>2. PICK k \in Keys : k = request[e].key
    BY <2>1 DEF Operations
  <2>3. /\ LookForKey(k) = NoInstancia /\ Chosen(k) # NoInstancia /\ TakeTurn
        /\ storedKeys' = [storedKeys EXCEPT ![Chosen(k)] = @ \union {k}]
        /\ TryToExecute(e, Chosen(k))
    BY <1>7, <2>2 DEF SetUnknown
  <2>4. RequestsAreReal'
    BY <1>1, <2>3, RequestTried
  <2> QED
    BY <1>2, <2>3, <2>4, KeyIsPlaced
<1>8. CASE DoGet(e)
  BY <1>3, <1>4, <1>8 DEF DoGet
<1>9. CASE DoSet(e)
  BY <1>4, <1>5, <1>6, <1>7, <1>9 DEF DoSet
<1>10. CASE DoStore(e)
  BY <1>4, <1>5, <1>6, <1>10 DEF DoStore
<1> QED
  BY <1>8, <1>9, <1>10 DEF EsiActs

LEMMA KeyStepInstancia ==
  ASSUME KeyInv, NEW i \in Instancias,
         \/ InstanciaThread(i) \/ Process(i)
         \/ InstanciaArrives(i) \/ InstanciaDies(i) \/ InstanciaIsLost(i)
  PROVE  KeyInv'
<1>1. RequestsAreReal /\ ThreadsAreKnown /\ DistributionTypeOK /\ TurnInv
  BY DEF KeyInv
<1>2. RequestsAreReal'
  <2>1. UNCHANGED request => RequestsAreReal'
    BY <1>1 DEF RequestsAreReal
  <2>2. CASE InstanciaThread(i)
    BY <2>1, <2>2 DEF InstanciaThread, InstanciaIsReady, startUnchanged, Receives,
       HandleSuccess, HandleFailed, HandleCompactRequest, HandleDidCompact,
       HandleValue, CompactionEnds, InstanciaExits, esiSide
  <2>3. CASE Process(i)
    BY <2>1, <2>3 DEF Process, InstanciaOperates, InstanciaAsksCompaction,
       InstanciaCompacts, InstanciaChecksKey, Answers, processUnchanged, esiSide
  <2>4. CASE InstanciaArrives(i) \/ InstanciaDies(i) \/ InstanciaIsLost(i)
    BY <2>1, <2>4 DEF InstanciaArrives, InstanciaDies, InstanciaIsLost,
       startUnchanged, processUnchanged, esiSide
  <2> QED
    BY <2>2, <2>3, <2>4
<1> ThreadsAreKnown'
  <2>1. Known \subseteq Known' /\ (InstanciaArrives(i) => i \in Known')
    <3>1. CASE AddNew(i)
      BY <1>1, <3>1, AppendProperties, KnownType DEF AddNew, Known, DistributionTypeOK
    <3>2. CASE InstanciaIsBack(i)
      BY <3>2 DEF InstanciaIsBack, Known
    <3>3. CASE ~InstanciaArrives(i)
      <4>1. UNCHANGED instancias
        BY <3>3 DEF InstanciaThread, InstanciaIsReady, startUnchanged, Receives,
           HandleSuccess, HandleFailed, HandleCompactRequest, HandleDidCompact,
           HandleValue, CompactionEnds, InstanciaExits, InstanciaHasFallen, Process,
           InstanciaOperates, InstanciaAsksCompaction, InstanciaCompacts,
           InstanciaChecksKey, Answers, processUnchanged, InstanciaDies,
           InstanciaIsLost, records, list
      <4> QED
        BY <3>3, <4>1 DEF Known
    <3> QED
      BY <3>1, <3>2, <3>3 DEF InstanciaArrives
  <2>2. instanciaThread' \in [Instancias -> {"none", "starting", "loop", "compact"}]
        /\ \A j \in Instancias : instanciaThread'[j] # "none" =>
              \/ instanciaThread[j] # "none"
              \/ InstanciaArrives(i) /\ j = i
    <3> USE <1>1 DEF ThreadsAreKnown
    <3>1. CASE InstanciaThread(i)
      BY <3>1 DEF InstanciaThread, InstanciaIsReady, startUnchanged, Receives,
         HandleSuccess, HandleFailed, HandleCompactRequest, HandleDidCompact,
         HandleValue, CompactionEnds, InstanciaExits
    <3>2. CASE Process(i)
      BY <3>2 DEF Process, InstanciaOperates, InstanciaAsksCompaction,
         InstanciaCompacts, InstanciaChecksKey, Answers, processUnchanged, threads
    <3>3. CASE InstanciaArrives(i) \/ InstanciaDies(i) \/ InstanciaIsLost(i)
      BY <3>3 DEF InstanciaArrives, InstanciaDies, InstanciaIsLost,
         processUnchanged, threads
    <3> QED
      BY <3>1, <3>2, <3>3
  <2> QED
    BY <1>1, <2>1, <2>2 DEF ThreadsAreKnown
<1>3. CASE UNCHANGED <<list, turn, algorithm, storedKeys>>
  BY <1>2, <1>3, SameRecords
\* Only the space used or who is fallen changes.
<1>4. ASSUME UNCHANGED <<instancias, turn, algorithm, storedKeys>>,
             fallen' \subseteq Known, spaceUsed' \in [Instancias -> 0..MaxSpace]
      PROVE  KeyInv'
  <2>1. UNCHANGED Known
    BY <1>4 DEF Known
  <2> QED
    BY <1>2, <1>4, <2>1 DEF KeyInv, DistributionTypeOK, TurnInv, TurnIsRight, StoredAreKnown,
                            KeyInOneInstancia, turn
<1>5. fallen \subseteq Known /\ spaceUsed \in [Instancias -> 0..MaxSpace]
  BY <1>1 DEF DistributionTypeOK
<1>6. ASSUME NEW s \in 0..MaxSpace, spaceUsed' = [spaceUsed EXCEPT ![i] = s]
      PROVE  spaceUsed' \in [Instancias -> 0..MaxSpace]
  BY <1>5, <1>6
<1>7. CASE InstanciaIsReady(i) \/ InstanciaIsLost(i)
  BY <1>4, <1>5, <1>6, <1>7 DEF InstanciaIsReady, InstanciaIsLost, startUnchanged
<1>8. CASE HandleSuccess(i)
  BY <1>4, <1>5, <1>6, <1>8 DEF HandleSuccess, Receives
<1>9. CASE HandleFailed(i)
  BY <1>2, <1>9, KeyIsRemoved DEF HandleFailed, Receives, list
<1>10. CASE HandleCompactRequest(i) \/ HandleDidCompact(i) \/ HandleValue(i)
  BY <1>3, <1>10 DEF HandleCompactRequest, HandleDidCompact, HandleValue,
                     Receives, list
<1>11. CASE CompactionEnds(i)
  BY <1>3, <1>11 DEF CompactionEnds, records
<1>12. CASE InstanciaExits(i)
  <2>1. i \in Known
    BY <1>1, <1>12 DEF InstanciaExits, ThreadsAreKnown
  <2> QED
    BY <1>4, <1>5, <1>12, <2>1 DEF InstanciaExits, InstanciaHasFallen
<1>13. CASE Process(i) \/ InstanciaDies(i)
  BY <1>3, <1>13 DEF Process, InstanciaOperates, InstanciaAsksCompaction,
     InstanciaCompacts, InstanciaChecksKey, Answers, processUnchanged,
     InstanciaDies, records
<1>14. CASE InstanciaArrives(i)
  <2>1. DistributionTypeOK' /\ TurnInv'
    BY <1>1, <1>5, <1>14, ArrivalStep DEF InstanciaArrives
  <2>2. Known \subseteq Known'
    <3>1. CASE AddNew(i)
      BY <1>1, <3>1, AppendProperties, KnownType DEF AddNew, Known, DistributionTypeOK
    <3> QED
      BY <1>14, <3>1 DEF InstanciaArrives, InstanciaIsBack, Known
  <2> QED
    BY <1>2, <1>14, <2>1, <2>2 DEF InstanciaArrives, KeyInv, StoredAreKnown,
                                   KeyInOneInstancia
<1> QED
  BY <1>7, <1>8, <1>9, <1>10, <1>11, <1>12, <1>13, <1>14 DEF InstanciaThread

LEMMA KeyStepPlanificador ==
  ASSUME KeyInv, PlanThread \/ PlanificadorAnswers \/ \E k \in Keys : StatusIsTyped(k)
  PROVE  KeyInv'
<1>1. UNCHANGED <<request, instanciaThread, list, algorithm, storedKeys>>
  BY DEF PlanThread, PlanReadsEsiId, PlanReadsKeyStatus, PlanReadsStatusRequest,
     readUnchanged, RespondStatusAtOnce, AskValue, GetValue, StatusUnchanged,
     PlanificadorAnswers, StatusIsTyped, coordinadorUnchanged, records, threads,
     esiSide
<1>2. UNCHANGED turn
  BY DEF PlanThread, PlanReadsEsiId, PlanReadsKeyStatus, PlanReadsStatusRequest,
     readUnchanged, RespondStatusAtOnce, AskValue, GetValue,
     PlanificadorAnswers, StatusIsTyped, coordinadorUnchanged, records
<1>3. RequestsAreReal' /\ ThreadsAreKnown'
  BY <1>1 DEF KeyInv, RequestsAreReal, ThreadsAreKnown, Known, list
<1> QED
  BY <1>1, <1>2, <1>3, SameRecords

LEMMA KeyStepOther ==
  ASSUME KeyInv, NEW e \in Esis,
         \/ EsiLocksMutex(e) \/ EsiAsksStatus(e) \/ EsiGetsResponse(e)
         \/ PlanificadorOrders(e) \/ EsiExits(e) \/ EsiDies(e)
  PROVE  KeyInv'
<1>1. UNCHANGED <<instanciaThread, list, turn, algorithm, storedKeys>>
  BY DEF EsiLocksMutex, EsiAsksStatus, EsiGetsResponse, PlanificadorOrders,
     EsiExits, EsiDies, coordinadorUnchanged, records, threads
<1>2. RequestsAreReal
  BY DEF KeyInv
<1>3. RequestsAreReal'
  <2>1. CASE EsiLocksMutex(e) \/ EsiAsksStatus(e)
    BY <1>2, <2>1 DEF EsiLocksMutex, EsiAsksStatus, esiSide, RequestsAreReal
  <2>2. CASE EsiGetsResponse(e)
    BY <1>2, <2>2, RequestAnswered DEF EsiGetsResponse
  <2>3. CASE PlanificadorOrders(e) \/ EsiExits(e) \/ EsiDies(e)
    BY <1>2, <2>3 DEF PlanificadorOrders, EsiExits, EsiDies, RequestsAreReal
  <2> QED
    BY <2>1, <2>2, <2>3
<1>4. ThreadsAreKnown'
  BY <1>1 DEF KeyInv, ThreadsAreKnown, Known, list
<1> QED
  BY <1>1, <1>3, <1>4, SameRecords

LEMMA KeyInit == Init => KeyInv
<1> SUFFICES ASSUME Init PROVE KeyInv
  OBVIOUS
<1>1. instancias = <<>> /\ fallen = {} /\ Known = {}
  BY DEF Init, DistributionInit, Known
<1>2. instancias \in Seq(Instancias) /\ 1..Len(instancias) = {}
  BY <1>1
<1>3. spaceUsed \in [Instancias -> 0..MaxSpace]
  BY DistributionAssumption DEF Init, DistributionInit
<1>4. DistributionTypeOK /\ TurnInv
  BY <1>1, <1>2, <1>3 DEF Init, DistributionInit, DistributionTypeOK, TurnInv, TurnIsRight
<1>5. RequestsAreReal /\ ThreadsAreKnown /\ StoredAreKnown /\ KeyInOneInstancia
  BY DEF Init, RequestsAreReal, ThreadsAreKnown, StoredAreKnown, KeyInOneInstancia
<1> QED
  BY <1>4, <1>5 DEF KeyInv

LEMMA KeyInvariant == Spec => []KeyInv
<1>1. KeyInv /\ [Next]_vars => KeyInv'
  <2> SUFFICES ASSUME KeyInv, [Next]_vars PROVE KeyInv'
    OBVIOUS
  <2>1. CASE UNCHANGED vars
    <3>1. UNCHANGED <<list, turn, algorithm, storedKeys, request, instanciaThread>>
      BY <2>1 DEF vars, records, esiSide, threads
    <3>2. RequestsAreReal' /\ ThreadsAreKnown'
      BY <3>1 DEF KeyInv, RequestsAreReal, ThreadsAreKnown, Known, list
    <3> QED
      BY <3>1, <3>2, SameRecords
  <2>2. CASE Next
    BY <2>2, KeyStepEsi, KeyStepInstancia, KeyStepPlanificador, KeyStepOther
       DEF Next, EsiThread
  <2> QED
    BY <2>1, <2>2
<1> QED
  BY <1>1, KeyInit, PTL DEF Spec

\* Whatever fails, falls and comes back, a key is recorded in one instancia
\* only: removeKeyFromFallenInstancia forgets it before another one is chosen.
THEOREM KeysHaveOneInstancia == Spec => []KeyInOneInstancia
<1>1. KeyInv => KeyInOneInstancia
  BY DEF KeyInv
<1> QED
  BY <1>1, KeyInvariant, PTL

-----------------------------------------------------------------------------

\* How many messages of M are in a queue.
Count(s, M) == Cardinality({p \in 1..Len(s) : s[p] \in M})

LEMMA CountType ==
  ASSUME NEW T, NEW s \in Seq(T), NEW M
  PROVE  /\ Count(s, M) \in Nat
         /\ Count(<<>>, M) = 0
         /\ IsFiniteSet({p \in 1..Len(s) : s[p] \in M})
         /\ Count(s, M) = 0 => \A p \in 1..Len(s) : s[p] \notin M
         /\ (\A p \in 1..Len(s) : s[p] \notin M) => Count(s, M) = 0
<1> DEFINE C(u) == {p \in 1..Len(u) : u[p] \in M}
<1>1. Len(s) \in Nat
  OBVIOUS
<1>2. IsFiniteSet(1..Len(s)) /\ C(s) \in SUBSET (1..Len(s))
  BY <1>1, FS_Interval
<1>3. IsFiniteSet(C(s))
  BY <1>2, FS_Subset
<1>4. Cardinality(C(s)) \in Nat /\ (Cardinality(C(s)) = 0 <=> C(s) = {})
  BY <1>3, FS_CardinalityType, FS_EmptySet
<1>5. C(<<>>) = {} /\ Cardinality({}) = 0
  BY FS_EmptySet
<1>6. (\A p \in 1..Len(s) : s[p] \notin M) <=> C(s) = {}
  OBVIOUS
<1> QED
  BY <1>3, <1>4, <1>5, <1>6 DEF Count

\* A message that is sent ...
LEMMA CountAppend ==
  ASSUME NEW T, NEW s \in Seq(T), NEW m \in T, NEW M
  PROVE  Count(Append(s, m), M) = Count(s, M) + (IF m \in M THEN 1 ELSE 0)
<1> DEFINE C(u) == {p \in 1..Len(u) : u[p] \in M}
           t == Append(s, m)
<1>1. /\ Len(s) \in Nat /\ Len(t) = Len(s) + 1
      /\ \A p \in 1..Len(s) : t[p] = s[p]
      /\ t[Len(s) + 1] = m
  BY AppendProperties
<1>2. C(t) = IF m \in M THEN C(s) \union {Len(s) + 1} ELSE C(s)
  <2>1. 1..Len(t) = 1..Len(s) \union {Len(s) + 1}
    BY <1>1
  <2> HIDE DEF t
  <2>2. \A p \in 1..Len(s) : p \in C(t) <=> p \in C(s)
    BY <1>1, <2>1
  <2>3. Len(s) + 1 \in C(t) <=> m \in M
    BY <1>1, <2>1
  <2>4. C(t) \subseteq 1..Len(s) \union {Len(s) + 1}
    BY <2>1
  <2>5. C(s) \subseteq 1..Len(s)
    OBVIOUS
  <2> HIDE DEF C
  <2>6. CASE m \in M
    BY <2>2, <2>3, <2>4, <2>5, <2>6
  <2>7. CASE m \notin M
    <3>1. \A p : p \in C(t) <=> p \in C(s)
      BY <2>2, <2>3, <2>4, <2>5, <2>7
    <3> QED
      BY <2>7, <3>1
  <2> QED
    BY <2>6, <2>7
<1>3. IsFiniteSet(C(s)) /\ Len(s) + 1 \notin C(s)
  <2>1. IsFiniteSet(C(s))
    BY CountType
  <2> QED
    BY <1>1, <2>1
<1>4. Cardinality(C(s) \union {Len(s) + 1}) = Cardinality(C(s)) + 1
  BY <1>3, FS_AddElement
<1>5. Cardinality(C(s)) \in Nat
  BY <1>3, FS_CardinalityType
<1>6. Count(t, M) = Cardinality(C(t)) /\ Count(s, M) = Cardinality(C(s))
  BY DEF Count
<1> HIDE DEF C
<1> QED
  BY <1>2, <1>4, <1>5, <1>6

\* ... and one that is read.
LEMMA CountTail ==
  ASSUME NEW T, NEW s \in Seq(T), s # <<>>, NEW M
  PROVE  /\ Tail(s) \in Seq(T)
         /\ Count(s, M) = Count(Tail(s), M) + (IF Head(s) \in M THEN 1 ELSE 0)
<1> DEFINE C(u) == {p \in 1..Len(u) : u[p] \in M}
           t == Tail(s)
           g == [p \in C(t) |-> p + 1]
<1>1. /\ Len(s) \in Nat /\ Len(s) > 0 /\ t \in Seq(T) /\ Len(t) = Len(s) - 1
      /\ \A p \in 1..Len(t) : t[p] = s[p + 1]
      /\ Head(s) = s[1]
  BY HeadTailProperties
<1> HIDE DEF t
<1>2. g \in Bijection(C(t), C(s) \ {1})
  <2>1. \A p \in C(t) : p + 1 \in C(s) \ {1}
    BY <1>1
  <2>2. \A q \in C(s) \ {1} : q - 1 \in C(t) /\ g[q - 1] = q
    BY <1>1
  <2>3. g \in Injection(C(t), C(s) \ {1})
    BY <2>1 DEF Injection, IsInjective
  <2>4. g \in Surjection(C(t), C(s) \ {1})
    BY <2>1, <2>2 DEF Surjection
  <2> QED
    BY <2>3, <2>4 DEF Bijection
<1>3. IsFiniteSet(C(s)) /\ IsFiniteSet(C(t))
  BY <1>1, CountType
<1>4. Cardinality(C(t)) = Cardinality(C(s) \ {1})
  BY <1>2, <1>3, FS_Bijection DEF ExistsBijection
<1>5. Cardinality(C(s) \ {1}) = IF 1 \in C(s) THEN Cardinality(C(s)) - 1
                                             ELSE Cardinality(C(s))
  BY <1>3, FS_RemoveElement
<1>6. Cardinality(C(s)) \in Nat /\ (1 \in C(s) <=> Head(s) \in M)
  BY <1>1, <1>3, FS_CardinalityType
<1>7. Count(t, M) = Cardinality(C(t)) /\ Count(s, M) = Cardinality(C(s))
  BY DEF Count
<1> HIDE DEF C
<1> QED
  BY <1>1, <1>4, <1>5, <1>6, <1>7 DEF t

\* A message that replaces the first one, of M or not as that one.
LEMMA CountReplace ==
  ASSUME NEW T, NEW s \in Seq(T), s # <<>>, NEW m \in T, NEW M,
         m \in M <=> Head(s) \in M
  PROVE  /\ <<m>> \o Tail(s) \in Seq(T)
         /\ Count(<<m>> \o Tail(s), M) = Count(s, M)
<1> DEFINE t == <<m>> \o Tail(s)
<1>1. /\ t \in Seq(T) /\ Len(t) = Len(s) /\ Len(s) \in Nat /\ Len(s) > 0
      /\ t[1] = m /\ Head(s) = s[1]
      /\ \A p \in 2..Len(s) : t[p] = s[p]
  <2>1. /\ Len(s) \in Nat /\ Len(s) > 0 /\ Tail(s) \in Seq(T) /\ Len(Tail(s)) = Len(s) - 1
        /\ \A p \in 1..Len(Tail(s)) : Tail(s)[p] = s[p + 1]
        /\ Head(s) = s[1]
    BY HeadTailProperties
  <2>2. <<m>> \in Seq(T) /\ Len(<<m>>) = 1 /\ <<m>>[1] = m
    OBVIOUS
  <2>3. /\ t \in Seq(T) /\ Len(t) = 1 + Len(Tail(s))
        /\ \A p \in 1..Len(t) : t[p] = IF p <= 1 THEN <<m>>[p] ELSE Tail(s)[p - 1]
    BY <2>1, <2>2, ConcatProperties
  <2> QED
    BY <2>1, <2>2, <2>3
<1> HIDE DEF t
<1>2. \A p \in 1..Len(s) : t[p] \in M <=> s[p] \in M
  <2> TAKE p \in 1..Len(s)
  <2> QED
    BY <1>1
<1>3. {p \in 1..Len(t) : t[p] \in M} = {p \in 1..Len(s) : s[p] \in M}
  BY <1>1, <1>2
<1> QED
  BY <1>1, <1>3 DEF Count, t

-----------------------------------------------------------------------------
(* The instancias, their threads and the sockets between them.              *)

\* The thread is in its loop, so that it will notice the fall of the process.
Serves(i) == instanciaThread[i] \in {"loop", "compact"}
SocketTypes ==
    /\ process \in [Instancias -> {"down", "starting", "up"}]
    /\ instanciaThread \in [Instancias -> {"none", "starting", "loop", "compact"}]
    /\ instanciasListMutex \in Instancias \union {Planificador, NoThread}
    /\ actualCommand \in [Instancias -> InstanciaCommands \union {NoCommand}]
    /\ toInstancia \in [Instancias -> Seq(ToInstancia)]
    /\ fromInstancia \in [Instancias -> Seq(FromInstancia)]
\* Whoever starts holds the mutex, with nothing asked of it yet.
StartingHoldsMutex ==
    \A i \in Instancias :
        /\ instanciaThread[i] = "starting" <=> instanciasListMutex = i
        /\ instanciaThread[i] = "starting" <=> process[i] = "starting"
        /\ instanciaThread[i] = "starting" => actualCommand[i] = NoCommand
                                              /\ fromInstancia[i] = <<>>
LivingAreServed == \A i \in Instancias : process[i] = "up" => Serves(i)
DeadHearNothing == \A i \in Instancias : process[i] # "up" => toInstancia[i] = <<>>
SocketInv ==
    SocketTypes /\ StartingHoldsMutex /\ LivingAreServed /\ DeadHearNothing

sockets == <<process, instanciaThread, instanciasListMutex, actualCommand,
             toInstancia, fromInstancia>>

\* The outcomes of doGet, doSet and doStore: a response at once, perhaps with
\* the key forgotten, or an order to an instancia that has the key.
Responds(e, r) ==
    LET k == request[e].key IN
    /\ SendResponseToEsi(e, r) /\ NothingSent
    /\ r = "SUCCESS" => request[e].code = "GET"
    /\ r = "LOCK" => keyStatus \notin {"BLOCKED", "LOCKED"}
    /\ \/ UNCHANGED storedKeys
       \/ r = "ABORT" /\ keyStatus # "BLOCKED" /\ RemoveKey(k, LookForKey(k))
Commands(e, i) ==
    /\ TryToExecute(e, i)
    /\ keyStatus = "LOCKED"
    /\ request[e].key \in storedKeys'[i]
    /\ \A j \in Instancias : storedKeys[j] \subseteq storedKeys'[j]

LEMMA EsiActsOutcome ==
  ASSUME KeyInv, NEW e \in Esis, EsiActs(e), request[e] \in Operations
  PROVE  \/ \E r \in {"SUCCESS", "LOCK", "BLOCK", "ABORT"} : Responds(e, r)
         \/ \E i \in Instancias : Commands(e, i)
<1> DEFINE k == request[e].key
<1>1. k \in Keys /\ storedKeys \in [Instancias -> SUBSET Keys]
  BY DEF KeyInv, StoredAreKnown, Operations
<1>2. CASE Refuse(e)
  BY <1>2 DEF Refuse, Answer, Responds
<1>3. CASE ForgetFallen(e) /\ keyStatus # "BLOCKED"
  BY <1>3 DEF ForgetFallen, Answer, Responds
<1>4. CASE UseKnown(e) /\ keyStatus = "LOCKED"
  <2>1. PICK i : i = LookForKey(k)
    OBVIOUS
  <2>2. i # NoInstancia /\ TryToExecute(e, i) /\ UNCHANGED storedKeys
    BY <1>4, <2>1 DEF UseKnown
  <2>3. Owners(k) # {} /\ Owners(k) \subseteq Known /\ i = FirstOf(Owners(k))
    BY <2>1, <2>2 DEF LookForKey, Owners
  <2>4. i \in Owners(k)
    BY <2>3, FirstOfType DEF KeyInv
  <2>5. i \in Instancias /\ k \in storedKeys[i]
    BY <2>4, KnownType DEF Owners, KeyInv
  <2> QED
    BY <1>4, <2>2, <2>5 DEF Commands
<1>5. CASE SetUnknown(e) /\ ~Refuse(e) /\ keyStatus = "LOCKED"
  <2>1. PICK i : i = Chosen(k)
    OBVIOUS
  <2>2. /\ i # NoInstancia /\ TryToExecute(e, i)
        /\ storedKeys' = [storedKeys EXCEPT ![i] = @ \union {k}]
    BY <1>5, <2>1 DEF SetUnknown
  <2>3. i \in Instancias
    BY <2>1, <2>2, ChosenIsAlive, KnownType, <1>1 DEF KeyInv, AliveInstancias, Chosen
  <2>4. /\ k \in storedKeys'[i]
        /\ \A j \in Instancias : storedKeys[j] \subseteq storedKeys'[j]
    BY <1>1, <2>2, <2>3
  <2> QED
    BY <1>5, <2>2, <2>3, <2>4 DEF Commands
<1>6. CASE DoGet(e)
  BY <1>3, <1>6 DEF DoGet, Answer, Responds
<1>7. CASE DoSet(e)
  BY <1>2, <1>3, <1>4, <1>5, <1>7 DEF DoSet
<1>8. CASE DoStore(e)
  BY <1>2, <1>3, <1>4, <1>8 DEF DoStore
<1> QED
  BY <1>6, <1>7, <1>8 DEF EsiActs

LEMMA SocketInit == Init => SocketInv
BY EmptySeq, CoordinadorAssumption DEF Init, SocketInv, SocketTypes,
   StartingHoldsMutex, LivingAreServed, DeadHearNothing

LEMMA SameSockets ==
  ASSUME SocketInv, UNCHANGED sockets
  PROVE  SocketInv'
BY DEF SocketInv, sockets, SocketTypes, StartingHoldsMutex, LivingAreServed,
       DeadHearNothing, Serves

\* An order that is sent, to whoever is up, or could not be.
LEMMA SocketOrder ==
  ASSUME SocketInv, NEW i \in Instancias, instanciaThread[i] # "starting",
         NEW m \in ToInstancia, NEW c \in InstanciaCommands,
         actualCommand' = [actualCommand EXCEPT ![i] = c],
         \/ /\ process[i] = "up"
            /\ toInstancia' = [toInstancia EXCEPT ![i] = Append(toInstancia[i], m)]
         \/ UNCHANGED toInstancia,
         UNCHANGED <<process, instanciaThread, fromInstancia>>,
         \/ UNCHANGED instanciasListMutex
         \/ instanciasListMutex = NoThread /\ instanciasListMutex' = Planificador
  PROVE  SocketInv'
<1>1. SocketTypes'
  <2>1. Append(toInstancia[i], m) \in Seq(ToInstancia)
    BY DEF SocketInv, SocketTypes
  <2>2. toInstancia' \in [Instancias -> Seq(ToInstancia)]
    BY <2>1 DEF SocketInv, SocketTypes
  <2>3. actualCommand' \in [Instancias -> InstanciaCommands \union {NoCommand}]
    BY DEF SocketInv, SocketTypes
  <2> QED
    BY <2>2, <2>3 DEF SocketInv, SocketTypes
<1>2. StartingHoldsMutex'
  BY CoordinadorAssumption DEF SocketInv, SocketTypes, StartingHoldsMutex
<1> QED
  BY <1>1, <1>2 DEF SocketInv, SocketTypes, LivingAreServed, DeadHearNothing, Serves

LEMMA SocketStepEsi ==
  ASSUME KeyInv, SocketInv, NEW e \in Esis, EsiThread(e), RequestsAreReal
  PROVE  SocketInv'
<1>1. CASE EsiLocksMutex(e) \/ EsiAsksStatus(e) \/ EsiGetsResponse(e)
  BY <1>1, SameSockets DEF EsiLocksMutex, EsiAsksStatus, EsiGetsResponse, sockets,
     records, threads, mutexes, instanciaSide
<1>2. CASE EsiActs(e)
  <2>1. UNCHANGED <<instanciaThread, instanciasListMutex>> /\ ListIsFree
    BY <1>2 DEF EsiActs
  <2>2. request[e] \in Operations
    <3>1. request[e].code \in {"GET", "SET", "STORE"}
      BY <1>2 DEF EsiActs, DoGet, DoSet, DoStore
    <3> QED
      BY <3>1 DEF RequestsAreReal, NoOperation
  <2>3. CASE \E r \in {"SUCCESS", "LOCK", "BLOCK", "ABORT"} : Responds(e, r)
    BY <2>1, <2>3, SameSockets DEF Responds, NothingSent, instanciaSide, sockets
  <2>4. ASSUME NEW i \in Instancias, Commands(e, i) PROVE SocketInv'
    <3>1. instanciaThread[i] # "starting"
      BY <2>1, CoordinadorAssumption DEF ListIsFree, SocketInv, StartingHoldsMutex
    <3>2. /\ actualCommand' = [actualCommand EXCEPT ![i] = "DO_OPERATION"]
          /\ \/ /\ process[i] = "up"
                /\ toInstancia' = [toInstancia EXCEPT ![i] =
                                      Append(toInstancia[i], "DO_OPERATION")]
             \/ UNCHANGED toInstancia
          /\ UNCHANGED <<process, fromInstancia>>
      BY <2>4 DEF Commands, TryToExecute, sendUnchanged
    <3> QED
      BY <2>1, <3>1, <3>2, SocketOrder DEF InstanciaCommands, ToInstancia
  <2> QED
    BY <1>2, <2>2, <2>3, <2>4, EsiActsOutcome
<1> QED
  BY <1>1, <1>2 DEF EsiThread

LEMMA SocketStepInstancia ==
  ASSUME KeyInv, SocketInv, NEW i \in Instancias, InstanciaThread(i)
  PROVE  SocketInv'
<1> USE DEF SocketInv, SocketTypes, StartingHoldsMutex, LivingAreServed,
            DeadHearNothing, Serves
<1>1. CASE InstanciaIsReady(i)
  BY <1>1, CoordinadorAssumption DEF InstanciaIsReady, startUnchanged
<1>2. ASSUME NEW m \in FromInstancia, Receives(i, m),
             UNCHANGED <<instanciaThread, toInstancia>>, CommandIsOver(i)
      PROVE  SocketInv'
  <2>1. Tail(fromInstancia[i]) \in Seq(FromInstancia)
    BY <1>2, HeadTailProperties DEF Receives
  <2> QED
    BY <1>2, <2>1 DEF Receives, CommandIsOver, mutexes
<1>3. CASE HandleSuccess(i) \/ HandleFailed(i) \/ HandleDidCompact(i)
           \/ HandleValue(i)
  BY <1>2, <1>3 DEF HandleSuccess, HandleFailed, HandleDidCompact, HandleValue,
     FromInstancia
<1>4. CASE HandleCompactRequest(i)
  <2>1. Tail(fromInstancia[i]) \in Seq(FromInstancia)
    BY <1>4, HeadTailProperties DEF HandleCompactRequest, Receives
  <2>2. SocketTypes'
    <3>1. ASSUME NEW j \in Instancias
          PROVE  Append(toInstancia[j], "DO_COMPACT") \in Seq(ToInstancia)
      BY DEF ToInstancia, InstanciaCommands
    <3> QED
      BY <1>4, <2>1, <3>1 DEF HandleCompactRequest, Receives, mutexes,
         InstanciaCommands
  <2>3. ListIsFree /\ \A j \in Instancias : instanciaThread[j] # "starting"
    BY <1>4, CoordinadorAssumption DEF HandleCompactRequest, Receives, ListIsFree
  <2>4. /\ instanciaThread' = [instanciaThread EXCEPT ![i] = "compact"]
        /\ UNCHANGED <<process, instanciasListMutex>>
    BY <1>4 DEF HandleCompactRequest, Receives, mutexes
  <2>5. StartingHoldsMutex'
    BY <2>3, <2>4, CoordinadorAssumption DEF ListIsFree
  <2>6. LivingAreServed'
    BY <2>4
  <2>7. DeadHearNothing'
    BY <1>4, <2>4 DEF HandleCompactRequest
  <2> QED
    BY <2>2, <2>5, <2>6, <2>7
<1>5. CASE CompactionEnds(i)
  BY <1>5 DEF CompactionEnds, mutexes, instanciaSide, records
<1>6. CASE InstanciaExits(i)
  BY <1>6 DEF InstanciaExits, mutexes, instanciaSide
<1> QED
  BY <1>1, <1>3, <1>4, <1>5, <1>6 DEF InstanciaThread

LEMMA SocketStepProcess ==
  ASSUME SocketInv, NEW i \in Instancias,
         \/ Process(i) \/ InstanciaArrives(i) \/ InstanciaDies(i)
         \/ InstanciaIsLost(i)
  PROVE  SocketInv'
<1> USE DEF SocketInv, SocketTypes, StartingHoldsMutex, LivingAreServed,
            DeadHearNothing, Serves
\* Only the queues of a living one change.
<1>1. ASSUME UNCHANGED <<process, instanciaThread, instanciasListMutex,
                         actualCommand>>,
             process[i] = "up", NEW s \in Seq(ToInstancia), NEW t \in Seq(FromInstancia),
             toInstancia' = [toInstancia EXCEPT ![i] = s],
             fromInstancia' = [fromInstancia EXCEPT ![i] = t]
      PROVE  SocketInv'
  BY <1>1
<1>2. ASSUME NEW m \in FromInstancia
      PROVE  Append(fromInstancia[i], m) \in Seq(FromInstancia)
  OBVIOUS
<1>3. ASSUME toInstancia[i] # <<>>
      PROVE  /\ Tail(toInstancia[i]) \in Seq(ToInstancia)
             /\ <<"RETRY">> \o Tail(toInstancia[i]) \in Seq(ToInstancia)
  <2>1. Tail(toInstancia[i]) \in Seq(ToInstancia)
    BY <1>3, HeadTailProperties
  <2>2. <<"RETRY">> \in Seq(ToInstancia)
    BY DEF ToInstancia
  <2> QED
    BY <2>1, <2>2, ConcatProperties
<1>4. ASSUME NEW m, Asked(i, m), NEW n \in FromInstancia, Answers(i, n)
      PROVE  SocketInv'
  <2>1. UNCHANGED <<process, instanciaThread, instanciasListMutex, actualCommand>>
    BY <1>4 DEF Answers, processUnchanged, threads, mutexes, records
  <2>2. /\ process[i] = "up" /\ toInstancia[i] # <<>>
        /\ toInstancia' = [toInstancia EXCEPT ![i] = Tail(toInstancia[i])]
        /\ fromInstancia' = [fromInstancia EXCEPT ![i] = Append(fromInstancia[i], n)]
    BY <1>4 DEF Asked, Answers
  <2> QED
    BY <1>1, <1>2, <1>3, <1>4, <2>1, <2>2
<1>5. CASE InstanciaOperates(i) \/ InstanciaCompacts(i) \/ InstanciaChecksKey(i)
  BY <1>4, <1>5 DEF InstanciaOperates, InstanciaCompacts, InstanciaChecksKey,
                    FromInstancia
<1>6. CASE InstanciaAsksCompaction(i)
  <2>1. UNCHANGED <<process, instanciaThread, instanciasListMutex, actualCommand>>
    BY <1>6 DEF InstanciaAsksCompaction, processUnchanged, threads, mutexes, records
  <2>2. /\ process[i] = "up" /\ toInstancia[i] # <<>>
        /\ toInstancia' = [toInstancia EXCEPT ![i] = <<"RETRY">> \o Tail(toInstancia[i])]
        /\ fromInstancia' = [fromInstancia EXCEPT ![i] =
                                Append(fromInstancia[i], "COMPACT_REQUEST")]
    BY <1>6 DEF InstanciaAsksCompaction, Asked
  <2>3. "COMPACT_REQUEST" \in FromInstancia
    BY DEF FromInstancia
  <2> QED
    BY <1>1, <1>2, <1>3, <2>1, <2>2, <2>3
<1>7. CASE InstanciaArrives(i)
  BY <1>7, EmptySeq, CoordinadorAssumption DEF InstanciaArrives, ListIsFree
<1>8. CASE InstanciaDies(i)
  <2>1. UNCHANGED <<fromInstancia, instanciaThread, instanciasListMutex, actualCommand>>
    BY <1>8 DEF InstanciaDies, processUnchanged, threads, mutexes, records
  <2> QED
    BY <1>8, <2>1, EmptySeq DEF InstanciaDies
<1>9. CASE InstanciaIsLost(i)
  BY <1>9, CoordinadorAssumption DEF InstanciaIsLost, startUnchanged
<1> QED
  BY <1>5, <1>6, <1>7, <1>8, <1>9 DEF Process

\* The planificador asks an instancia of the list for a value.
LEMMA ValueIsAsked ==
  ASSUME KeyInv, AskValue
  PROVE  \E i \in Instancias :
            /\ actualCommand' = [actualCommand EXCEPT ![i] = "CHECK_KEY_STATUS"]
            /\ \/ /\ process[i] = "up"
                  /\ toInstancia' = [toInstancia EXCEPT ![i] =
                                        Append(toInstancia[i], "CHECK_KEY_STATUS")]
               \/ UNCHANGED toInstancia
<1>1. PICK i : i = LookForKey(Head(fromPlan).key)
  OBVIOUS
<1>2. i \in Instancias
  <2>1. /\ Owners(Head(fromPlan).key) # {}
        /\ Owners(Head(fromPlan).key) \subseteq Known
        /\ i = FirstOf(Owners(Head(fromPlan).key))
    BY <1>1 DEF AskValue, LookForKey, Owners
  <2> QED
    BY <2>1, FirstOfType, KnownType DEF KeyInv
<1>3. /\ actualCommand' = [actualCommand EXCEPT ![i] = "CHECK_KEY_STATUS"]
      /\ \/ /\ process[i] = "up"
            /\ toInstancia' = [toInstancia EXCEPT ![i] =
                                  Append(toInstancia[i], "CHECK_KEY_STATUS")]
         \/ UNCHANGED toInstancia
  BY <1>1 DEF AskValue
<1> QED
  BY <1>2, <1>3

LEMMA SocketStepPlanificador ==
  ASSUME KeyInv, SocketInv,
         PlanThread \/ PlanificadorAnswers \/ \E k \in Keys : StatusIsTyped(k)
  PROVE  SocketInv'
<1>1. CASE PlanificadorAnswers \/ \E k \in Keys : StatusIsTyped(k)
  BY <1>1, SameSockets DEF PlanificadorAnswers, StatusIsTyped, coordinadorUnchanged,
     sockets, records, mutexes, threads, instanciaSide
<1>2. CASE PlanReadsEsiId \/ PlanReadsKeyStatus \/ PlanReadsStatusRequest
  BY <1>2, SameSockets DEF PlanReadsEsiId, PlanReadsKeyStatus,
     PlanReadsStatusRequest, readUnchanged, sockets, records, instanciaSide
<1>3. CASE RespondStatusAtOnce \/ GetValue
  BY <1>3, SameSockets DEF RespondStatusAtOnce, GetValue, StatusUnchanged, sockets
<1>4. CASE AskValue
  <2>1. PICK i \in Instancias :
           /\ actualCommand' = [actualCommand EXCEPT ![i] = "CHECK_KEY_STATUS"]
           /\ \/ /\ process[i] = "up"
                 /\ toInstancia' = [toInstancia EXCEPT ![i] =
                                       Append(toInstancia[i], "CHECK_KEY_STATUS")]
              \/ UNCHANGED toInstancia
    BY <1>4, ValueIsAsked
  <2>3. ListIsFree
    BY <1>4 DEF AskValue
  <2>4. instanciaThread[i] # "starting"
    BY <2>3, CoordinadorAssumption DEF ListIsFree, SocketInv, StartingHoldsMutex
  <2>5. /\ UNCHANGED <<process, instanciaThread, fromInstancia>>
        /\ \/ UNCHANGED instanciasListMutex
           \/ instanciasListMutex = NoThread /\ instanciasListMutex' = Planificador
    BY <1>4 DEF AskValue, StatusUnchanged, ListIsFree
  <2> QED
    BY <2>1, <2>4, <2>5, SocketOrder DEF InstanciaCommands, ToInstancia
<1> QED
  BY <1>1, <1>2, <1>3, <1>4 DEF PlanThread

LEMMA SocketStep ==
  ASSUME KeyInv, SocketInv, Next
  PROVE  SocketInv'
<1>1. ASSUME NEW e \in Esis, PlanificadorOrders(e) \/ EsiExits(e) \/ EsiDies(e)
      PROVE  SocketInv'
  BY <1>1, SameSockets DEF PlanificadorOrders, coordinadorUnchanged, EsiExits,
     EsiDies, sockets, records, mutexes, threads, instanciaSide
<1> QED
  BY <1>1, SocketStepEsi, SocketStepInstancia, SocketStepProcess,
     SocketStepPlanificador DEF Next, KeyInv


-----------------------------------------------------------------------------
(* Who works on a line, and what the planificador and the ESIs say.         *)

Works(e) == esiThread[e] \in {"id", "status", "response"}
LineTypes ==
    /\ esisMutex \in Esis \union {Planificador, NoThread}
    /\ esiThread \in [Esis -> {"idle", "id", "status", "response", "over"}]
    /\ planThread \in {"read", "esis", "value", "stuck"}
    /\ fromPlan \in Seq(PlanMessages) /\ toPlan \in Seq(Keys)
    /\ RequestsAreReal
    /\ reply \in [Esis -> Replies \union {"NONE"}]
    /\ turnOf \in Esis \union {NoEsi}
    /\ holder \in [Keys -> Esis \union {NoEsi}]
    /\ setBy \in [Keys -> Esis \union {NoEsi}]
WorkerHoldsMutex == \A e \in Esis : Works(e) <=> esisMutex = e
RequestsAreMade ==
    \A e \in Esis : Works(e) \/ HasRequest(e) \/ reply[e] = "BLOCK"
                        => request[e] \in Operations
AskerHoldsMutex == planThread \in {"value", "stuck"} <=> esisMutex = Planificador
CommandIsFirst ==
    planThread # "read" => fromPlan # <<>> /\ Head(fromPlan).type = "STATUS_REQUEST"
LineInv ==
    /\ LineTypes /\ WorkerHoldsMutex /\ RequestsAreMade
    /\ AskerHoldsMutex /\ CommandIsFirst

lines == <<esisMutex, esiThread, planThread, fromPlan, toPlan, request, reply,
           turnOf, holder, setBy>>

\* What the instancias and their threads leave alone.
InstanciaActs(i) ==
    \/ InstanciaThread(i) \/ Process(i)
    \/ InstanciaArrives(i) \/ InstanciaDies(i) \/ InstanciaIsLost(i)
LEMMA InstanciaFrame ==
  ASSUME NEW i \in Instancias, InstanciaActs(i)
  PROVE  /\ UNCHANGED <<lines, operations, statuses, esiIdSemaphore>>
         /\ UNCHANGED <<keyStatus, keyStatusSemaphore, actualOperation>>
         /\ UNCHANGED <<orderedFor, sendFailed>>
<1>1. CASE InstanciaThread(i)
  BY <1>1 DEF InstanciaThread, InstanciaIsReady, startUnchanged, Receives,
     HandleSuccess, HandleFailed, HandleCompactRequest, HandleDidCompact,
     HandleValue, CompactionEnds, InstanciaExits, mutexes, cells, esiSide, bounds,
     histories, lines
<1>2. CASE Process(i)
  BY <1>2 DEF Process, InstanciaOperates, InstanciaAsksCompaction,
     InstanciaCompacts, InstanciaChecksKey, Answers, processUnchanged, mutexes,
     cells, threads, esiSide, histories, lines
<1>3. CASE InstanciaArrives(i) \/ InstanciaDies(i) \/ InstanciaIsLost(i)
  BY <1>3 DEF InstanciaArrives, InstanciaDies, InstanciaIsLost, startUnchanged,
     processUnchanged, mutexes, cells, threads, esiSide, bounds, histories, lines
<1> QED
  BY <1>1, <1>2, <1>3 DEF InstanciaActs

\* What the thread of the planificador and its messages leave alone.
PlanificadorActs ==
    PlanThread \/ PlanificadorAnswers \/ \E k \in Keys : StatusIsTyped(k)
LEMMA PlanificadorFrame ==
  ASSUME PlanificadorActs
  PROVE  /\ UNCHANGED <<esiThread, request, reply, turnOf, holder, setBy>>
         /\ UNCHANGED <<list, storedKeys, operations, actualOperation, orderedFor>>
         /\ UNCHANGED <<responseFor, sendFailed, responseStatus, instanciaResponse>>
         /\ UNCHANGED <<compactSemaphore, compacting, instanciaThread, process>>
         /\ UNCHANGED fromInstancia
<1>1. CASE PlanificadorAnswers \/ \E k \in Keys : StatusIsTyped(k)
  BY <1>1 DEF PlanificadorAnswers, StatusIsTyped, coordinadorUnchanged, records,
     threads, cells, esiSide, instanciaSide, bounds, histories
<1>2. CASE PlanReadsEsiId \/ PlanReadsKeyStatus \/ PlanReadsStatusRequest
  BY <1>2 DEF PlanReadsEsiId, PlanReadsKeyStatus, PlanReadsStatusRequest,
     readUnchanged, records, esiSide, instanciaSide, bounds, histories
<1>3. CASE RespondStatusAtOnce \/ AskValue \/ GetValue
  BY <1>3 DEF RespondStatusAtOnce, AskValue, GetValue, StatusUnchanged, esiSide,
     bounds, histories
<1> QED
  BY <1>1, <1>2, <1>3 DEF PlanificadorActs, PlanThread

\* The messages of the planificador: ids, statuses of keys and commands.
KeyStatusMessages == {KeyStatusIs(s) : s \in KeyStatuses}
LEMMA Messages ==
  /\ \A e \in Esis : EsiId(e) \in PlanMessages \ KeyStatusMessages
  /\ \A s \in KeyStatuses : KeyStatusIs(s) \in PlanMessages /\ KeyStatusIs(s).status = s
  /\ \A k \in Keys : StatusOf(k) \in PlanMessages \ KeyStatusMessages
<1>1. \A s \in KeyStatuses : KeyStatusIs(s).type = "KEY_STATUS" /\ KeyStatusIs(s).status = s
  BY DEF KeyStatusIs
<1>2. /\ \A e \in Esis : EsiId(e) \in PlanMessages /\ EsiId(e).type = "ESI_ID"
      /\ \A s \in KeyStatuses : KeyStatusIs(s) \in PlanMessages
      /\ \A k \in Keys : StatusOf(k) \in PlanMessages /\ StatusOf(k).type = "STATUS_REQUEST"
  BY DEF PlanMessages, EsiId, StatusOf
<1> QED
  BY <1>1, <1>2 DEF KeyStatusMessages

LEMMA MessageTypes ==
  ASSUME NEW m \in PlanMessages
  PROVE  /\ m.type = "KEY_STATUS" <=> m \in KeyStatusMessages
         /\ m \in KeyStatusMessages => m.status \in KeyStatuses
         /\ m.type = "STATUS_REQUEST" => m.key \in Keys
<1>1. \A s \in KeyStatuses : KeyStatusIs(s).type = "KEY_STATUS" /\ KeyStatusIs(s).status = s
  BY DEF KeyStatusIs
<1>2. CASE m \in KeyStatusMessages
  BY <1>1, <1>2 DEF KeyStatusMessages
<1>3. CASE m \in {EsiId(e) : e \in Esis} /\ m \notin KeyStatusMessages
  BY <1>3 DEF EsiId
<1>4. CASE m \in {StatusOf(k) : k \in Keys} /\ m \notin KeyStatusMessages
  BY <1>4 DEF StatusOf
<1> QED
  BY <1>2, <1>3, <1>4 DEF PlanMessages, KeyStatusMessages

LEMMA StatusInType == \A k : StatusIn(k) \in KeyStatuses
BY DEF StatusIn, KeyStatuses

\* A line ends with a response.
LEMMA LineResponse ==
  ASSUME LineInv, NEW e \in Esis, Works(e), NEW r \in Replies,
         SendResponseToEsi(e, r), UNCHANGED <<planThread, fromPlan, toPlan>>
  PROVE  LineInv'
<1>1. LineTypes /\ request[e] \in Operations /\ esisMutex = e
  BY DEF LineInv, WorkerHoldsMutex, RequestsAreMade
<1>2. PICK heard \in Replies : heard = IF turnOf = e THEN r ELSE "ABORT"
  BY DEF Replies
<1>3. /\ reply' = [reply EXCEPT ![e] = heard]
      /\ turnOf' = IF turnOf = e THEN NoEsi ELSE turnOf
      /\ holder' = HolderAfter(e, heard)
      /\ setBy' = SetByAfter(e, heard)
      /\ request' = IF heard = "BLOCK" THEN request
                    ELSE [request EXCEPT ![e] = NoOperation]
      /\ esisMutex' = NoThread
      /\ esiThread' = [esiThread EXCEPT ![e] = IF heard = "ABORT" THEN "over"
                                                                  ELSE "idle"]
  BY <1>2 DEF SendResponseToEsi
<1>4. LineTypes'
  <2>1. holder' \in [Keys -> Esis \union {NoEsi}]
    BY <1>1, <1>3 DEF HolderAfter, LineTypes
  <2>2. setBy' \in [Keys -> Esis \union {NoEsi}]
    BY <1>1, <1>3 DEF SetByAfter, LineTypes
  <2>3. RequestsAreReal'
    BY <1>1, <1>3 DEF LineTypes, RequestsAreReal
  <2> QED
    BY <1>1, <1>3, <2>1, <2>2, <2>3 DEF LineTypes
<1>5. WorkerHoldsMutex'
  <2>1. \A f \in Esis : f # e => ~Works(f)
    BY <1>1 DEF LineInv, WorkerHoldsMutex
  <2>2. \A f \in Esis : ~Works(f)'
    BY <1>1, <1>3, <2>1 DEF LineTypes, Works
  <2> QED
    BY <1>3, <2>2, CoordinadorAssumption DEF WorkerHoldsMutex
<1>6. RequestsAreMade'
  <2> SUFFICES ASSUME NEW f \in Esis, (Works(f) \/ HasRequest(f) \/ reply[f] = "BLOCK")'
               PROVE  request'[f] \in Operations
    BY DEF RequestsAreMade
  <2>1. CASE f = e
    <3>1. heard = "BLOCK"
      <4>1. ~Works(e)' /\ turnOf' # e /\ reply'[e] = heard
        BY <1>1, <1>3, CoordinadorAssumption DEF Works, LineTypes
      <4> QED
        BY <2>1, <4>1 DEF HasRequest
    <3> QED
      BY <1>1, <1>3, <2>1, <3>1
  <2>2. CASE f # e
    <3>1. /\ reply'[f] = reply[f] /\ request'[f] = request[f]
          /\ esiThread'[f] = esiThread[f] /\ (turnOf' = f => turnOf = f)
      BY <1>1, <1>3, <2>2, CoordinadorAssumption DEF LineTypes, RequestsAreReal
    <3> QED
      BY <3>1 DEF Works, HasRequest, LineInv, RequestsAreMade
  <2> QED
    BY <2>1, <2>2
<1>7. AskerHoldsMutex'
  BY <1>1, <1>3, CoordinadorAssumption DEF LineInv, AskerHoldsMutex
<1>8. CommandIsFirst'
  BY DEF LineInv, CommandIsFirst
<1> QED
  BY <1>4, <1>5, <1>6, <1>7, <1>8 DEF LineInv

LEMMA LineInit == Init => LineInv
<1> SUFFICES ASSUME Init PROVE LineInv
  OBVIOUS
<1>1. LineTypes
  BY EmptySeq DEF Init, LineTypes, RequestsAreReal
<1>2. WorkerHoldsMutex /\ AskerHoldsMutex
  BY CoordinadorAssumption DEF Init, WorkerHoldsMutex, Works, AskerHoldsMutex
<1>3. RequestsAreMade /\ CommandIsFirst
  BY CoordinadorAssumption DEF Init, RequestsAreMade, Works, HasRequest, CommandIsFirst
<1> QED
  BY <1>1, <1>2, <1>3 DEF LineInv

LEMMA SameLines ==
  ASSUME LineInv, UNCHANGED lines
  PROVE  LineInv'
BY DEF LineInv, lines, LineTypes, RequestsAreReal, WorkerHoldsMutex, Works,
       RequestsAreMade, HasRequest, AskerHoldsMutex, CommandIsFirst

\* An ESI that works on a line goes on with it.
LEMMA LineGoesOn ==
  ASSUME LineInv, NEW e \in Esis, Works(e), NEW t \in {"id", "status", "response"},
         esiThread' = [esiThread EXCEPT ![e] = t],
         UNCHANGED <<esisMutex, planThread, fromPlan, esiSide>>,
         toPlan' \in Seq(Keys)
  PROVE  LineInv'
<1>1. LineTypes'
  BY DEF LineInv, LineTypes, esiSide, RequestsAreReal
<1>2. \A f \in Esis : Works(f)' <=> Works(f)
  BY DEF LineInv, LineTypes, Works
<1> QED
  BY <1>1, <1>2 DEF LineInv, esiSide, WorkerHoldsMutex, RequestsAreMade,
     HasRequest, AskerHoldsMutex, CommandIsFirst

LEMMA LineStepEsi ==
  ASSUME KeyInv, LineInv, NEW e \in Esis, EsiThread(e)
  PROVE  LineInv'
<1>1. CASE EsiLocksMutex(e)
  <2>1. /\ esisMutex = NoThread /\ esisMutex' = e /\ HasRequest(e)
        /\ esiThread' = [esiThread EXCEPT ![e] = "id"]
        /\ UNCHANGED <<planThread, fromPlan, toPlan, esiSide>>
    BY <1>1 DEF EsiLocksMutex
  <2>2. LineTypes'
    BY <2>1 DEF LineInv, LineTypes, esiSide, RequestsAreReal
  <2>3. \A f \in Esis : Works(f)' <=> f = e
    BY <2>1, CoordinadorAssumption DEF LineInv, LineTypes, WorkerHoldsMutex, Works
  <2>4. WorkerHoldsMutex' /\ RequestsAreMade'
    BY <2>1, <2>3 DEF WorkerHoldsMutex, RequestsAreMade, LineInv, HasRequest, esiSide
  <2> QED
    BY <2>1, <2>2, <2>4, CoordinadorAssumption
       DEF LineInv, AskerHoldsMutex, CommandIsFirst
<1>2. CASE EsiAsksStatus(e)
  <2>1. Works(e) /\ toPlan' = Append(toPlan, request[e].key)
    BY <1>2 DEF EsiAsksStatus, Works
  <2>2. toPlan' \in Seq(Keys)
    BY <2>1 DEF LineInv, LineTypes, RequestsAreMade, Operations
  <2> QED
    BY <1>2, <2>1, <2>2, LineGoesOn DEF EsiAsksStatus, mutexes
<1>3. CASE EsiActs(e)
  <2>1. Works(e) /\ request[e] \in Operations
    BY <1>3 DEF EsiActs, Works, LineInv, RequestsAreMade
  <2>2. UNCHANGED <<planThread, fromPlan, toPlan>>
    BY <1>3 DEF EsiActs
  <2>3. ASSUME NEW r \in {"SUCCESS", "LOCK", "BLOCK", "ABORT"}, Responds(e, r)
        PROVE  LineInv'
    BY <2>1, <2>2, <2>3, LineResponse DEF Responds, Replies
  <2>4. ASSUME NEW i \in Instancias, Commands(e, i)
        PROVE  LineInv'
    <3>1. CASE SendResponseToEsi(e, "ABORT")
      BY <2>1, <2>2, <3>1, LineResponse DEF Replies
    <3>2. CASE esiThread' = [esiThread EXCEPT ![e] = "response"]
               /\ UNCHANGED <<esisMutex, esiSide, sendFailed>>
      <4>1. toPlan' \in Seq(Keys)
        BY <2>2 DEF LineInv, LineTypes
      <4> QED
        BY <2>1, <2>2, <3>2, <4>1, LineGoesOn
    <3> QED
      BY <2>4, <3>1, <3>2 DEF Commands, TryToExecute
  <2> QED
    BY <1>3, <2>1, <2>3, <2>4, EsiActsOutcome
<1>4. CASE EsiGetsResponse(e)
  <2>1. Works(e) /\ UNCHANGED <<planThread, fromPlan, toPlan>>
    BY <1>4 DEF EsiGetsResponse, Works
  <2>2. PICK r \in Replies : SendResponseToEsi(e, r)
    BY <1>4 DEF EsiGetsResponse, Replies
  <2> QED
    BY <2>1, <2>2, LineResponse
<1> QED
  BY <1>1, <1>2, <1>3, <1>4 DEF EsiThread

\* A message more, after those that are on their way.
LEMMA MessageIsSent ==
  ASSUME LineInv, NEW m \in PlanMessages, fromPlan' = Append(fromPlan, m),
         UNCHANGED planThread
  PROVE  fromPlan' \in Seq(PlanMessages) /\ CommandIsFirst'
<1>1. fromPlan \in Seq(PlanMessages)
  BY DEF LineInv, LineTypes
<1>2. fromPlan # <<>> => Append(fromPlan, m) # <<>>
                         /\ Head(Append(fromPlan, m)) = Head(fromPlan)
  BY <1>1
<1> QED
  BY <1>1, <1>2 DEF LineInv, CommandIsFirst

LEMMA LineStepOrder ==
  ASSUME LineInv, NEW e \in Esis,
         PlanificadorOrders(e) \/ EsiExits(e) \/ EsiDies(e)
  PROVE  LineInv'
<1> USE DEF LineInv
<1>1. CASE PlanificadorOrders(e)
  <2>1. UNCHANGED <<esisMutex, esiThread, planThread, toPlan, holder, setBy>>
    BY <1>1 DEF PlanificadorOrders, coordinadorUnchanged, mutexes, threads
  <2>2. fromPlan' \in Seq(PlanMessages) /\ CommandIsFirst'
    BY <1>1, <2>1, Messages, MessageIsSent DEF PlanificadorOrders
  <2>3. /\ turnOf' = e /\ reply' = [reply EXCEPT ![e] = "NONE"]
        /\ \/ reply[e] = "BLOCK" /\ UNCHANGED request
           \/ \E o \in Operations : request' = [request EXCEPT ![e] = o]
    BY <1>1 DEF PlanificadorOrders
  <2>4. /\ RequestsAreReal' /\ request'[e] \in Operations
        /\ \A f \in Esis : f # e => request'[f] = request[f]
    BY <2>3 DEF LineTypes, RequestsAreReal, RequestsAreMade
  <2>5. LineTypes'
    BY <2>1, <2>2, <2>3, <2>4 DEF LineTypes
  <2>6. WorkerHoldsMutex' /\ AskerHoldsMutex'
    BY <2>1 DEF WorkerHoldsMutex, AskerHoldsMutex, Works
  <2>7. RequestsAreMade'
    BY <2>1, <2>3, <2>4 DEF RequestsAreMade, Works, HasRequest, LineTypes
  <2> QED
    BY <2>2, <2>5, <2>6, <2>7
\* The planificador frees what it had.
<1>2. ASSUME turnOf' = NoEsi, holder' = HolderAfter(e, "ABORT"),
             setBy' \in [Keys -> Esis \union {NoEsi}],
             UNCHANGED <<esisMutex, planThread, fromPlan, toPlan, reply>>,
             RequestsAreReal',
             \/ UNCHANGED esiThread
             \/ ~Works(e) /\ esiThread' = [esiThread EXCEPT ![e] = "over"],
             \A f \in Esis : f # e => request'[f] = request[f],
             request'[e] = request[e] \/ (~Works(e) /\ reply[e] # "BLOCK")
      PROVE  LineInv'
  <2> \A f \in Esis : Works(f)' <=> Works(f)
    BY <1>2 DEF Works, LineTypes
  <2>1. holder' \in [Keys -> Esis \union {NoEsi}]
    BY <1>2 DEF HolderAfter, LineTypes
  <2>2. LineTypes'
    BY <1>2, <2>1 DEF LineTypes
  <2>3. WorkerHoldsMutex' /\ AskerHoldsMutex' /\ CommandIsFirst'
    BY <1>2 DEF WorkerHoldsMutex, AskerHoldsMutex, CommandIsFirst
  <2>4. RequestsAreMade'
    BY <1>2, CoordinadorAssumption DEF RequestsAreMade, HasRequest
  <2> QED
    BY <2>2, <2>3, <2>4
<1>3. SetByAfter(e, "ABORT") \in [Keys -> Esis \union {NoEsi}]
  BY DEF SetByAfter, LineTypes
<1>4. CASE EsiExits(e)
  <2>1. /\ UNCHANGED <<esisMutex, planThread, fromPlan, toPlan, reply>>
        /\ RequestsAreReal'
        /\ esiThread' = [esiThread EXCEPT ![e] = "over"] /\ esiThread[e] = "idle"
        /\ reply[e] # "BLOCK"
        /\ \A f \in Esis : f # e => request'[f] = request[f]
    BY <1>4 DEF EsiExits, HasRequest, mutexes, LineTypes, RequestsAreReal
  <2> QED
    BY <1>2, <1>3, <1>4, <2>1 DEF EsiExits, LineTypes, Works
<1>5. CASE EsiDies(e)
  <2>1. UNCHANGED <<esisMutex, planThread, fromPlan, toPlan, reply, request, esiThread>>
    BY <1>5 DEF EsiDies, mutexes, threads
  <2>2. setBy' \in [Keys -> Esis \union {NoEsi}]
    BY <1>3, <1>5 DEF EsiDies
  <2>3. RequestsAreReal' /\ turnOf' = NoEsi /\ holder' = HolderAfter(e, "ABORT")
    BY <1>5, <2>1 DEF EsiDies, LineTypes, RequestsAreReal
  <2> QED
    BY <1>2, <2>1, <2>2, <2>3
<1> QED
  BY <1>1, <1>4, <1>5

LEMMA LineStepPlanificador ==
  ASSUME LineInv, PlanificadorActs
  PROVE  LineInv'
<1> USE DEF LineInv
<1>1. UNCHANGED <<esiThread, request, reply, turnOf, holder, setBy>>
  BY PlanificadorFrame
<1>2. RequestsAreReal' /\ \A f \in Esis : Works(f)' <=> Works(f)
  BY <1>1 DEF LineTypes, RequestsAreReal, Works
<1>3. ASSUME fromPlan # <<>> PROVE Tail(fromPlan) \in Seq(PlanMessages)
  BY <1>3, HeadTailProperties DEF LineTypes
<1>4. CASE PlanificadorAnswers
  <2>1. UNCHANGED <<esisMutex, planThread>> /\ toPlan # <<>> /\ toPlan' = Tail(toPlan)
    BY <1>4 DEF PlanificadorAnswers, coordinadorUnchanged, mutexes, threads
  <2>2. toPlan' \in Seq(Keys)
    BY <2>1, HeadTailProperties DEF LineTypes
  <2>3. fromPlan' \in Seq(PlanMessages) /\ CommandIsFirst'
    BY <1>4, <2>1, Messages, StatusInType, MessageIsSent DEF PlanificadorAnswers
  <2> QED
    BY <1>1, <1>2, <2>1, <2>2, <2>3 DEF LineTypes, WorkerHoldsMutex,
       RequestsAreMade, HasRequest, AskerHoldsMutex
<1>5. ASSUME NEW k \in Keys, StatusIsTyped(k) PROVE LineInv'
  <2>1. UNCHANGED <<esisMutex, planThread, toPlan>>
    BY <1>5 DEF StatusIsTyped, coordinadorUnchanged, mutexes, threads
  <2>2. fromPlan' \in Seq(PlanMessages) /\ CommandIsFirst'
    BY <1>5, <2>1, Messages, MessageIsSent DEF StatusIsTyped
  <2> QED
    BY <1>1, <1>2, <2>1, <2>2 DEF LineTypes, WorkerHoldsMutex,
       RequestsAreMade, HasRequest, AskerHoldsMutex
<1>6. CASE PlanReadsEsiId \/ PlanReadsKeyStatus
  <2>1. /\ UNCHANGED <<esisMutex, planThread, toPlan>> /\ planThread = "read"
        /\ fromPlan # <<>> /\ fromPlan' = Tail(fromPlan)
    BY <1>6 DEF PlanReadsEsiId, PlanReadsKeyStatus, Reads, readUnchanged
  <2> QED
    BY <1>1, <1>2, <1>3, <2>1 DEF LineTypes, WorkerHoldsMutex,
       RequestsAreMade, HasRequest, AskerHoldsMutex, CommandIsFirst
<1>7. CASE PlanReadsStatusRequest
  <2>1. /\ UNCHANGED <<esisMutex, fromPlan, toPlan>> /\ planThread' = "esis"
        /\ planThread = "read"
        /\ fromPlan # <<>> /\ Head(fromPlan).type = "STATUS_REQUEST"
    BY <1>7 DEF PlanReadsStatusRequest, Reads, readUnchanged
  <2> QED
    BY <1>1, <1>2, <2>1 DEF LineTypes, WorkerHoldsMutex,
       RequestsAreMade, HasRequest, AskerHoldsMutex, CommandIsFirst
<1>8. CASE RespondStatusAtOnce \/ GetValue
  <2>1. /\ UNCHANGED toPlan /\ planThread \in {"esis", "value"}
        /\ planThread' = "read" /\ esisMutex' = NoThread
        /\ fromPlan' = Tail(fromPlan)
        /\ planThread = "esis" => esisMutex = NoThread
    BY <1>8 DEF RespondStatusAtOnce, GetValue, StatusUnchanged, StatusIsSent
  <2>2. \A e \in Esis : ~Works(e)
    BY <2>1, CoordinadorAssumption DEF WorkerHoldsMutex, AskerHoldsMutex
  <2>3. fromPlan # <<>>
    BY <2>1 DEF CommandIsFirst
  <2>4. LineTypes' /\ AskerHoldsMutex' /\ CommandIsFirst'
    BY <1>1, <1>2, <1>3, <2>1, <2>3, CoordinadorAssumption
       DEF LineTypes, AskerHoldsMutex, CommandIsFirst
  <2>5. WorkerHoldsMutex' /\ RequestsAreMade'
    BY <1>1, <1>2, <2>1, <2>2, CoordinadorAssumption
       DEF WorkerHoldsMutex, RequestsAreMade, HasRequest
  <2> QED
    BY <2>4, <2>5
<1>9. CASE AskValue
  <2>1. /\ UNCHANGED <<fromPlan, toPlan>> /\ planThread = "esis"
        /\ planThread' \in {"value", "stuck"}
        /\ esisMutex = NoThread /\ esisMutex' = Planificador
    BY <1>9 DEF AskValue, StatusUnchanged
  <2>2. LineTypes' /\ AskerHoldsMutex' /\ CommandIsFirst'
    BY <1>1, <1>2, <2>1 DEF LineTypes, AskerHoldsMutex, CommandIsFirst
  <2>3. WorkerHoldsMutex' /\ RequestsAreMade'
    BY <1>1, <1>2, <2>1, CoordinadorAssumption
       DEF WorkerHoldsMutex, RequestsAreMade, HasRequest
  <2> QED
    BY <2>2, <2>3
<1> QED
  BY <1>4, <1>5, <1>6, <1>7, <1>8, <1>9 DEF PlanificadorActs, PlanThread

LEMMA LineStep ==
  ASSUME KeyInv, LineInv, Next
  PROVE  LineInv'
<1>1. ASSUME NEW i \in Instancias, InstanciaActs(i) PROVE LineInv'
  BY <1>1, InstanciaFrame, SameLines
<1> QED
  BY <1>1, LineStepEsi, LineStepOrder, LineStepPlanificador
     DEF Next, InstanciaActs, PlanificadorActs


-----------------------------------------------------------------------------
(* The status of the key of a line: one question at a time.                 *)

\* The question, its answer and the post that says that it is there.
Questions == Count(fromPlan, KeyStatusMessages) + Len(toPlan) + keyStatusSemaphore
SaysOnly(messages, status) ==
    \A p \in 1..Len(messages) :
        messages[p] \in KeyStatusMessages => messages[p].status = status
\* What the line of e is about to be told is so.
StatusIsTrue(e) ==
    LET k == request[e].key IN
    /\ SaysOnly(fromPlan, StatusIn(k))
    /\ keyStatusSemaphore > 0 => keyStatus = StatusIn(k)
    /\ \A p \in 1..Len(toPlan) : toPlan[p] = k
QuestionInv ==
    /\ keyStatus \in KeyStatuses /\ keyStatusSemaphore \in Nat /\ esiIdSemaphore \in Nat
    /\ Questions <= 1
    /\ Questions > 0 => \E e \in Esis : esiThread[e] = "status"
    /\ \A e \in Esis : esiThread[e] = "status" /\ turnOf = e => StatusIsTrue(e)

LEMMA SaidAppend ==
  ASSUME NEW s \in Seq(PlanMessages), NEW m \in PlanMessages, NEW status,
         SaysOnly(s, status), m \in KeyStatusMessages => m.status = status
  PROVE  SaysOnly(Append(s, m), status)
<1>1. /\ Len(s) \in Nat /\ Len(Append(s, m)) = Len(s) + 1
      /\ \A p \in 1..Len(s) : Append(s, m)[p] = s[p]
      /\ Append(s, m)[Len(s) + 1] = m
  BY AppendProperties
<1>2. \A p \in 1..(Len(s) + 1) : p \in 1..Len(s) \/ p = Len(s) + 1
  BY <1>1
<1> QED
  BY <1>1, <1>2 DEF SaysOnly
LEMMA SaidTail ==
  ASSUME NEW s \in Seq(PlanMessages), s # <<>>, NEW status, SaysOnly(s, status)
  PROVE  SaysOnly(Tail(s), status)
<1>1. /\ Len(s) \in Nat /\ Len(s) > 0 /\ Len(Tail(s)) = Len(s) - 1
      /\ \A p \in 1..Len(Tail(s)) : Tail(s)[p] = s[p + 1]
  BY HeadTailProperties
<1>2. \A p \in 1..Len(Tail(s)) : p + 1 \in 1..Len(s)
  BY <1>1
<1> QED
  BY <1>1, <1>2 DEF SaysOnly

LEMMA QuestionTypes ==
  ASSUME LineInv, QuestionInv
  PROVE  /\ Count(fromPlan, KeyStatusMessages) \in Nat /\ Len(toPlan) \in Nat
         /\ keyStatusSemaphore \in Nat
         /\ \A e \in Esis : esiThread[e] = "status" => esisMutex = e
         /\ Count(fromPlan, KeyStatusMessages) = 0
              => \A status : SaysOnly(fromPlan, status)
<1>1. fromPlan \in Seq(PlanMessages) /\ toPlan \in Seq(Keys)
  BY DEF LineInv, LineTypes
<1>2. /\ Count(fromPlan, KeyStatusMessages) \in Nat
      /\ Count(fromPlan, KeyStatusMessages) = 0
              => \A p \in 1..Len(fromPlan) : fromPlan[p] \notin KeyStatusMessages
  BY <1>1, CountType
<1> QED
  BY <1>1, <1>2 DEF LineInv, WorkerHoldsMutex, Works, QuestionInv, SaysOnly

LEMMA QuestionInit == Init => QuestionInv
<1> SUFFICES ASSUME Init PROVE QuestionInv
  OBVIOUS
<1>1. fromPlan = <<>> /\ toPlan = <<>> /\ keyStatusSemaphore = 0 /\ esiIdSemaphore = 0
      /\ keyStatus = "NOTBLOCKED" /\ \A e \in Esis : esiThread[e] = "idle"
  BY DEF Init
<1>2. <<>> \in Seq(PlanMessages) /\ Len(<<>>) = 0
  BY EmptySeq
<1>3. Count(<<>>, KeyStatusMessages) = 0
  BY <1>2, CountType
<1> QED
  BY <1>1, <1>2, <1>3 DEF QuestionInv, Questions, KeyStatuses

\* No more is asked and nobody asks.
LEMMA SameQuestions ==
  ASSUME QuestionInv, LineInv,
         UNCHANGED <<Questions, keyStatus, keyStatusSemaphore>>, esiIdSemaphore' \in Nat,
         Questions > 0 => \A e \in Esis : esiThread[e] = "status" => esiThread'[e] = "status",
         \A e \in Esis : esiThread'[e] = "status" /\ turnOf' = e => StatusIsTrue(e)'
  PROVE  QuestionInv'
BY DEF QuestionInv

\* The thread of an ESI that is not asking.
LEMMA NobodyAsks ==
  ASSUME LineInv, QuestionInv, \A e \in Esis : esiThread[e] # "status"
  PROVE  /\ Questions = 0 /\ Count(fromPlan, KeyStatusMessages) = 0
         /\ toPlan = <<>> /\ keyStatusSemaphore = 0
<1>1. ~(Questions > 0) /\ Questions \in Nat
  BY QuestionTypes DEF QuestionInv, Questions
<1>2. Count(fromPlan, KeyStatusMessages) = 0 /\ Len(toPlan) = 0 /\ keyStatusSemaphore = 0
  BY <1>1, QuestionTypes DEF Questions
<1> QED
  BY <1>1, <1>2, EmptySeq DEF LineInv, LineTypes

LEMMA QuestionStepEsi ==
  ASSUME KeyInv, LineInv, QuestionInv, NEW e \in Esis, EsiThread(e)
  PROVE  QuestionInv'
<1>0. esiThread \in [Esis -> {"idle", "id", "status", "response", "over"}]
  BY DEF LineInv, LineTypes
\* The thread that works is this one.
<1>1. ASSUME Works(e) \/ esisMutex = NoThread
      PROVE  \A f \in Esis : f # e => esiThread[f] # "status"
  BY <1>1, CoordinadorAssumption DEF LineInv, WorkerHoldsMutex, Works
\* Nothing is asked, and nobody goes on to ask.
<1>2. ASSUME \A f \in Esis : esiThread[f] # "status" /\ esiThread'[f] # "status",
             UNCHANGED <<fromPlan, toPlan, keyStatus, keyStatusSemaphore>>,
             esiIdSemaphore' \in Nat
      PROVE  QuestionInv'
  <2>1. UNCHANGED Questions
    BY <1>2 DEF Questions
  <2> QED
    BY <1>2, <2>1, SameQuestions
<1>3. CASE EsiLocksMutex(e)
  <2>1. esisMutex = NoThread /\ esiThread' = [esiThread EXCEPT ![e] = "id"]
        /\ esiThread[e] = "idle"
        /\ UNCHANGED <<fromPlan, toPlan, cells>>
    BY <1>3 DEF EsiLocksMutex
  <2> QED
    BY <1>0, <1>1, <1>2, <2>1 DEF cells, QuestionInv
<1>4. CASE EsiGetsResponse(e)
  <2>1. Works(e) /\ esiThread[e] = "response"
        /\ UNCHANGED <<fromPlan, toPlan, esiIdSemaphore, keyStatus, keyStatusSemaphore>>
    BY <1>4 DEF EsiGetsResponse, Works
  <2>2. \A f \in Esis : esiThread'[f] # "status"
    BY <1>0, <1>1, <1>4, <2>1 DEF EsiGetsResponse, SendResponseToEsi
  <2> QED
    BY <1>1, <1>2, <2>1, <2>2 DEF QuestionInv
<1>5. CASE EsiAsksStatus(e)
  <2>1. /\ esiThread[e] = "id" /\ esiIdSemaphore > 0
        /\ esiIdSemaphore' = esiIdSemaphore - 1
        /\ toPlan' = Append(toPlan, request[e].key)
        /\ esiThread' = [esiThread EXCEPT ![e] = "status"]
        /\ UNCHANGED <<fromPlan, keyStatus, keyStatusSemaphore, esiSide>>
    BY <1>5 DEF EsiAsksStatus
  <2>2. \A f \in Esis : esiThread[f] # "status"
    BY <1>1, <2>1 DEF Works
  <2>3. Questions = 0 /\ Count(fromPlan, KeyStatusMessages) = 0
        /\ toPlan = <<>> /\ keyStatusSemaphore = 0
    BY <2>2, NobodyAsks
  <2>4. toPlan' = <<request[e].key>> /\ Len(toPlan') = 1
        /\ \A p \in 1..Len(toPlan') : toPlan'[p] = request[e].key
    BY <2>1, <2>3
  <2>5. Questions' = 1
    BY <2>1, <2>3, <2>4 DEF Questions
  <2>6. StatusIsTrue(e)'
    BY <2>1, <2>3, <2>4, QuestionTypes DEF StatusIsTrue, esiSide
  <2>7. \A f \in Esis : esiThread'[f] = "status" <=> f = e
    BY <1>0, <2>1, <2>2
  <2> QED
    BY <2>1, <2>5, <2>6, <2>7 DEF QuestionInv
<1>6. CASE EsiActs(e)
  <2>1. Works(e) /\ keyStatusSemaphore > 0 /\ keyStatusSemaphore' = keyStatusSemaphore - 1
        /\ UNCHANGED <<fromPlan, toPlan, esiIdSemaphore, keyStatus>>
    BY <1>6 DEF EsiActs, Works
  <2>2. Questions' = 0 /\ keyStatusSemaphore' \in Nat
    BY <2>1, QuestionTypes DEF Questions, QuestionInv
  <2>3. PICK t \in {"idle", "over", "response"} : esiThread' = [esiThread EXCEPT ![e] = t]
    BY <1>6 DEF EsiActs, DoGet, DoSet, DoStore, Refuse, Answer, ForgetFallen,
       SetUnknown, UseKnown, TryToExecute, SendResponseToEsi
  <2>4. \A f \in Esis : esiThread'[f] # "status"
    BY <1>0, <1>1, <2>1, <2>3
  <2> QED
    BY <2>1, <2>2, <2>4 DEF QuestionInv
<1> QED
  BY <1>3, <1>4, <1>5, <1>6 DEF EsiThread

LEMMA QuestionStepOrder ==
  ASSUME LineInv, QuestionInv, NEW e \in Esis,
         PlanificadorOrders(e) \/ EsiExits(e) \/ EsiDies(e)
  PROVE  QuestionInv'
<1>0. esiThread \in [Esis -> {"idle", "id", "status", "response", "over"}]
      /\ fromPlan \in Seq(PlanMessages)
  BY DEF LineInv, LineTypes
<1>1. CASE PlanificadorOrders(e)
  <2>1. /\ esiThread[e] = "idle" /\ turnOf' = e
        /\ fromPlan' = Append(fromPlan, EsiId(e))
        /\ UNCHANGED <<toPlan, esiThread, esiIdSemaphore, keyStatus, keyStatusSemaphore>>
    BY <1>1 DEF PlanificadorOrders, coordinadorUnchanged, cells, threads
  <2>2. UNCHANGED Questions
    <3>1. Count(fromPlan', KeyStatusMessages) = Count(fromPlan, KeyStatusMessages) + 0
      BY <1>0, <2>1, Messages, CountAppend
    <3> QED
      BY <2>1, <3>1, QuestionTypes DEF Questions
  <2> QED
    BY <2>1, <2>2, SameQuestions DEF QuestionInv
<1>2. CASE EsiExits(e) \/ EsiDies(e)
  <2>1. /\ \A f \in Esis : esiThread[f] = "status" => esiThread'[f] = "status"
        /\ turnOf' = NoEsi
        /\ UNCHANGED <<fromPlan, toPlan, esiIdSemaphore, keyStatus, keyStatusSemaphore>>
    BY <1>0, <1>2 DEF EsiExits, EsiDies, cells, threads
  <2>2. UNCHANGED Questions
    BY <2>1 DEF Questions
  <2> QED
    BY <2>1, <2>2, SameQuestions, CoordinadorAssumption DEF QuestionInv
<1> QED
  BY <1>1, <1>2

LEMMA QuestionStepPlanificador ==
  ASSUME LineInv, QuestionInv, PlanificadorActs
  PROVE  QuestionInv'
<1>0. UNCHANGED <<esiThread, turnOf, holder, request>> /\ fromPlan \in Seq(PlanMessages)
  BY PlanificadorFrame DEF LineInv, LineTypes
<1>1. \A k : StatusIn(k)' = StatusIn(k)
  BY <1>0 DEF StatusIn
\* A message that has nothing to do with it.
<1>2. ASSUME UNCHANGED <<toPlan, keyStatus, keyStatusSemaphore>>, esiIdSemaphore' \in Nat,
             Count(fromPlan', KeyStatusMessages) = Count(fromPlan, KeyStatusMessages),
             \A status : SaysOnly(fromPlan, status) => SaysOnly(fromPlan', status)
      PROVE  QuestionInv'
  <2>1. UNCHANGED Questions
    BY <1>2 DEF Questions
  <2>2. ASSUME NEW e \in Esis, esiThread'[e] = "status", turnOf' = e
        PROVE  StatusIsTrue(e)'
    <3>1. StatusIsTrue(e)
      BY <1>0, <2>2 DEF QuestionInv
    <3> QED
      BY <1>0, <1>1, <1>2, <3>1 DEF StatusIsTrue
  <2> QED
    BY <1>0, <1>2, <2>1, <2>2, SameQuestions
<1>3. ASSUME fromPlan # <<>>, Head(fromPlan).type # "KEY_STATUS",
             fromPlan' = Tail(fromPlan)
      PROVE  /\ Count(fromPlan', KeyStatusMessages) = Count(fromPlan, KeyStatusMessages)
             /\ \A status : SaysOnly(fromPlan, status) => SaysOnly(fromPlan', status)
  <2>1. Head(fromPlan) \in PlanMessages
    BY <1>0, <1>3, HeadTailProperties
  <2>2. Head(fromPlan) \notin KeyStatusMessages
    BY <1>3, <2>1, MessageTypes
  <2>3. Count(fromPlan, KeyStatusMessages) = Count(Tail(fromPlan), KeyStatusMessages) + 0
    BY <1>0, <1>3, <2>2, CountTail
  <2>4. Count(Tail(fromPlan), KeyStatusMessages) \in Nat
    BY <1>0, <1>3, CountType, HeadTailProperties
  <2> QED
    BY <1>0, <1>3, <2>3, <2>4, SaidTail
<1>4. CASE PlanificadorAnswers
  <2>1. /\ toPlan # <<>> /\ toPlan' = Tail(toPlan)
        /\ fromPlan' = Append(fromPlan, KeyStatusIs(StatusIn(Head(toPlan))))
        /\ UNCHANGED <<esiIdSemaphore, keyStatus, keyStatusSemaphore>>
    BY <1>4 DEF PlanificadorAnswers, coordinadorUnchanged, cells
  <2>2. /\ Len(toPlan) \in Nat /\ Len(toPlan) > 0 /\ Len(toPlan') = Len(toPlan) - 1
        /\ Head(toPlan) = toPlan[1]
    BY <2>1, HeadTailProperties DEF LineInv, LineTypes
  <2>3. PICK m : m = KeyStatusIs(StatusIn(Head(toPlan)))
    OBVIOUS
  <2>4. m \in PlanMessages /\ m \in KeyStatusMessages /\ m.status = StatusIn(Head(toPlan))
    BY <2>3, StatusInType, Messages DEF KeyStatusMessages
  <2>5. Count(fromPlan', KeyStatusMessages) = Count(fromPlan, KeyStatusMessages) + 1
    BY <1>0, <2>1, <2>3, <2>4, CountAppend
  <2>6. /\ Questions' = Questions /\ Questions <= 1
        /\ Count(fromPlan, KeyStatusMessages) = 0 /\ keyStatusSemaphore = 0
        /\ Len(toPlan') = 0
    BY <2>1, <2>2, <2>5, QuestionTypes DEF Questions, QuestionInv
  <2>7. ASSUME NEW e \in Esis, esiThread'[e] = "status", turnOf' = e
        PROVE  StatusIsTrue(e)'
    <3>1. toPlan[1] = request[e].key
      BY <1>0, <2>2, <2>7 DEF QuestionInv, StatusIsTrue
    <3>2. SaysOnly(fromPlan', StatusIn(request[e].key))
      BY <1>0, <2>1, <2>2, <2>3, <2>4, <2>6, <3>1, SaidAppend, QuestionTypes
    <3>3. 1..Len(toPlan') = {}
      BY <2>6
    <3> QED
      BY <1>0, <1>1, <2>1, <2>6, <3>2, <3>3 DEF StatusIsTrue
  <2> QED
    BY <1>0, <2>1, <2>6, <2>7, SameQuestions DEF QuestionInv
<1>5. ASSUME NEW k \in Keys, StatusIsTyped(k) PROVE QuestionInv'
  <2>1. /\ fromPlan' = Append(fromPlan, StatusOf(k))
        /\ UNCHANGED <<toPlan, esiIdSemaphore, keyStatus, keyStatusSemaphore>>
    BY <1>5 DEF StatusIsTyped, coordinadorUnchanged, cells
  <2>2. Count(fromPlan', KeyStatusMessages) = Count(fromPlan, KeyStatusMessages) + 0
    BY <1>0, <2>1, Messages, CountAppend
  <2>3. \A status : SaysOnly(fromPlan, status) => SaysOnly(fromPlan', status)
    BY <1>0, <2>1, Messages, SaidAppend
  <2> QED
    BY <1>2, <2>1, <2>2, <2>3, QuestionTypes DEF QuestionInv
<1>6. CASE PlanReadsEsiId
  <2>1. /\ fromPlan # <<>> /\ Head(fromPlan).type = "ESI_ID" /\ fromPlan' = Tail(fromPlan)
        /\ esiIdSemaphore' = esiIdSemaphore + 1
        /\ UNCHANGED <<toPlan, keyStatus, keyStatusSemaphore>>
    BY <1>6 DEF PlanReadsEsiId, Reads, readUnchanged
  <2> QED
    BY <1>2, <1>3, <2>1 DEF QuestionInv
<1>7. CASE PlanReadsKeyStatus
  <2>1. /\ fromPlan # <<>> /\ Head(fromPlan).type = "KEY_STATUS" /\ fromPlan' = Tail(fromPlan)
        /\ keyStatusSemaphore' = keyStatusSemaphore + 1
        /\ keyStatus' = Head(fromPlan).status
        /\ UNCHANGED <<toPlan, esiIdSemaphore>>
    BY <1>7 DEF PlanReadsKeyStatus, Reads, readUnchanged
  <2>2. Head(fromPlan) \in PlanMessages /\ Head(fromPlan) = fromPlan[1]
        /\ Len(fromPlan) \in Nat /\ Len(fromPlan) > 0
    BY <1>0, <2>1, HeadTailProperties
  <2>3. Head(fromPlan) \in KeyStatusMessages /\ keyStatus' \in KeyStatuses
    BY <2>1, <2>2, MessageTypes
  <2>4. /\ Count(fromPlan, KeyStatusMessages) = Count(fromPlan', KeyStatusMessages) + 1
        /\ Count(fromPlan', KeyStatusMessages) \in Nat
    <3>1. Tail(fromPlan) \in Seq(PlanMessages)
      BY <1>0, <2>1, HeadTailProperties
    <3> QED
      BY <1>0, <2>1, <2>3, <3>1, CountTail, CountType
  <2>5. Questions' = Questions
    BY <2>1, <2>4, QuestionTypes DEF Questions
  <2>6. ASSUME NEW e \in Esis, esiThread'[e] = "status", turnOf' = e
        PROVE  StatusIsTrue(e)'
    <3>1. StatusIsTrue(e)
      BY <1>0, <2>6 DEF QuestionInv
    <3>2. keyStatus' = StatusIn(request[e].key)
      BY <2>1, <2>2, <2>3, <3>1 DEF StatusIsTrue, SaysOnly
    <3>3. SaysOnly(fromPlan', StatusIn(request[e].key))
      BY <1>0, <2>1, <3>1, SaidTail DEF StatusIsTrue
    <3> QED
      BY <1>0, <1>1, <2>1, <3>1, <3>2, <3>3 DEF StatusIsTrue
  <2>7. keyStatusSemaphore' \in Nat /\ esiIdSemaphore' \in Nat
    BY <2>1 DEF QuestionInv
  <2> QED
    BY <1>0, <2>3, <2>5, <2>6, <2>7 DEF QuestionInv
<1>8. CASE PlanReadsStatusRequest \/ AskValue
  <2>1. UNCHANGED <<fromPlan, toPlan, esiIdSemaphore, keyStatus, keyStatusSemaphore>>
    BY <1>8 DEF PlanReadsStatusRequest, readUnchanged, AskValue, StatusUnchanged
  <2> QED
    BY <1>2, <2>1 DEF QuestionInv
<1>9. CASE RespondStatusAtOnce \/ GetValue
  <2>1. /\ planThread # "read" /\ fromPlan' = Tail(fromPlan)
        /\ UNCHANGED <<toPlan, esiIdSemaphore, keyStatus, keyStatusSemaphore>>
    BY <1>9 DEF RespondStatusAtOnce, GetValue, StatusUnchanged, StatusIsSent
  <2>2. fromPlan # <<>> /\ Head(fromPlan).type = "STATUS_REQUEST"
    BY <2>1 DEF LineInv, CommandIsFirst
  <2> QED
    BY <1>2, <1>3, <2>1, <2>2 DEF QuestionInv
<1> QED
  BY <1>4, <1>5, <1>6, <1>7, <1>8, <1>9 DEF PlanificadorActs, PlanThread

LEMMA QuestionStep ==
  ASSUME KeyInv, LineInv, QuestionInv, Next
  PROVE  QuestionInv'
<1>1. ASSUME UNCHANGED <<lines, keyStatus, keyStatusSemaphore, esiIdSemaphore>>
      PROVE  QuestionInv'
  BY <1>1 DEF QuestionInv, Questions, StatusIsTrue, StatusIn, lines
<1>2. ASSUME NEW i \in Instancias, InstanciaActs(i) PROVE QuestionInv'
  BY <1>1, <1>2, InstanciaFrame
<1> QED
  BY <1>2, QuestionStepEsi, QuestionStepOrder, QuestionStepPlanificador
     DEF Next, InstanciaActs, PlanificadorActs


-----------------------------------------------------------------------------
(* What is on its way to an instancia and back, and who hears of it.        *)

Orders(c) == IF c = "DO_OPERATION" THEN {"DO_OPERATION", "RETRY"} ELSE {c}
AnswersTo(c) ==
    CASE c = "DO_OPERATION" -> {"DID_SUCCESS", "DID_FAILED"}
      [] c = "DO_COMPACT"   -> {"DID_COMPACT"}
      [] OTHER              -> {"VALUE", "NO_VALUE"}
OnTheWay(c, i) ==
    Count(toInstancia[i], Orders(c)) + Count(fromInstancia[i], AnswersTo(c))
\* The thread would say that it has fallen.
Awaited(c, i) == Serves(i) /\ actualCommand[i] = c
Busy(c, i) == OnTheWay(c, i) > 0 \/ Awaited(c, i)

\* There is no more to come than there was.
Quieter ==
    \A c \in InstanciaCommands, i \in Instancias :
        /\ OnTheWay(c, i)' <= OnTheWay(c, i)
        /\ Awaited(c, i)' => Awaited(c, i)

LEMMA OnTheWayType ==
  ASSUME SocketInv, NEW c \in InstanciaCommands, NEW i \in Instancias
  PROVE  /\ OnTheWay(c, i) \in Nat
         /\ toInstancia[i] = <<>> /\ fromInstancia[i] = <<>> => OnTheWay(c, i) = 0
         /\ Count(toInstancia[i], Orders(c)) \in Nat
         /\ Count(fromInstancia[i], AnswersTo(c)) \in Nat
<1>1. toInstancia[i] \in Seq(ToInstancia) /\ fromInstancia[i] \in Seq(FromInstancia)
  BY DEF SocketInv, SocketTypes
<1>2. /\ Count(toInstancia[i], Orders(c)) \in Nat
      /\ toInstancia[i] = <<>> => Count(toInstancia[i], Orders(c)) = 0
  BY <1>1, CountType
<1>3. /\ Count(fromInstancia[i], AnswersTo(c)) \in Nat
      /\ fromInstancia[i] = <<>> => Count(fromInstancia[i], AnswersTo(c)) = 0
  BY <1>1, CountType
<1> QED
  BY <1>2, <1>3 DEF OnTheWay

LEMMA OnTheWayTypeNext ==
  ASSUME SocketInv', NEW c \in InstanciaCommands, NEW i \in Instancias
  PROVE  (OnTheWay(c, i) \in Nat)'
BY OnTheWayType, PTL

LEMMA SameOnTheWay ==
  ASSUME NEW c, NEW i, UNCHANGED <<toInstancia[i], fromInstancia[i]>>
  PROVE  UNCHANGED OnTheWay(c, i)
BY DEF OnTheWay

LEMMA SocketsAreQuiet ==
  ASSUME SocketInv, UNCHANGED sockets
  PROVE  Quieter
<1> SUFFICES ASSUME NEW c \in InstanciaCommands, NEW i \in Instancias
             PROVE  OnTheWay(c, i)' <= OnTheWay(c, i) /\ (Awaited(c, i)' => Awaited(c, i))
  BY DEF Quieter
<1> QED
  BY OnTheWayType, SameOnTheWay DEF Awaited, Serves, sockets

\* A process takes what it was asked and answers.
LEMMA ProcessIsQuiet ==
  ASSUME SocketInv, NEW i \in Instancias, Process(i)
  PROVE  Quieter
<1>1. toInstancia \in [Instancias -> Seq(ToInstancia)]
      /\ fromInstancia \in [Instancias -> Seq(FromInstancia)]
  BY DEF SocketInv, SocketTypes
<1>2. UNCHANGED <<instanciaThread, actualCommand>>
  BY DEF Process, InstanciaOperates, InstanciaAsksCompaction, InstanciaCompacts,
     InstanciaChecksKey, Answers, processUnchanged, threads, records
<1>3. ASSUME \A c \in InstanciaCommands : OnTheWay(c, i)' = OnTheWay(c, i),
             \A j \in Instancias \ {i} :
                UNCHANGED <<toInstancia[j], fromInstancia[j]>>
      PROVE  Quieter
  <2> SUFFICES ASSUME NEW c \in InstanciaCommands, NEW j \in Instancias
               PROVE  OnTheWay(c, j)' <= OnTheWay(c, j) /\ (Awaited(c, j)' => Awaited(c, j))
    BY DEF Quieter
  <2>1. OnTheWay(c, j)' = OnTheWay(c, j)
    BY <1>3, SameOnTheWay
  <2> QED
    BY <1>2, <2>1, OnTheWayType DEF Awaited, Serves
<1>4. ASSUME NEW m \in ToInstancia, Asked(i, m), NEW n \in FromInstancia, Answers(i, n),
             \A c \in InstanciaCommands : m \in Orders(c) <=> n \in AnswersTo(c)
      PROVE  Quieter
  <2>1. /\ toInstancia[i] # <<>> /\ Head(toInstancia[i]) = m
        /\ toInstancia' = [toInstancia EXCEPT ![i] = Tail(toInstancia[i])]
        /\ fromInstancia' = [fromInstancia EXCEPT ![i] = Append(fromInstancia[i], n)]
    BY <1>4 DEF Asked, Answers
  <2>2. ASSUME NEW c \in InstanciaCommands
        PROVE  OnTheWay(c, i)' = OnTheWay(c, i)
    <3> DEFINE s == toInstancia[i]
    <3>1. s \in Seq(ToInstancia) /\ s # <<>> /\ Tail(s) \in Seq(ToInstancia)
      BY <1>1, <2>1, HeadTailProperties
    <3>2. Count(s, Orders(c)) = Count(Tail(s), Orders(c))
                                + (IF m \in Orders(c) THEN 1 ELSE 0)
      BY <2>1, <3>1, CountTail
    <3>3. Count(Append(fromInstancia[i], n), AnswersTo(c))
            = Count(fromInstancia[i], AnswersTo(c)) + (IF n \in AnswersTo(c) THEN 1 ELSE 0)
      BY <1>1, CountAppend
    <3>4. Count(Tail(s), Orders(c)) \in Nat
      BY <3>1, CountType
    <3>5. toInstancia'[i] = Tail(s) /\ fromInstancia'[i] = Append(fromInstancia[i], n)
      BY <1>1, <2>1
    <3> QED
      BY <1>4, <3>2, <3>3, <3>4, <3>5, OnTheWayType DEF OnTheWay
  <2>3. \A j \in Instancias \ {i} : UNCHANGED <<toInstancia[j], fromInstancia[j]>>
    BY <1>1, <2>1
  <2> QED
    BY <1>3, <2>2, <2>3
<1>5. CASE InstanciaOperates(i)
  <2>1. PICK m \in {"DO_OPERATION", "RETRY"} : Asked(i, m)
    BY <1>5 DEF InstanciaOperates
  <2>2. PICK n \in {"DID_SUCCESS", "DID_FAILED"} : Answers(i, n)
    BY <1>5 DEF InstanciaOperates
  <2> QED
    BY <1>4, <2>1, <2>2 DEF Orders, AnswersTo, ToInstancia, FromInstancia, InstanciaCommands
<1>6. CASE InstanciaCompacts(i)
  BY <1>4, <1>6 DEF InstanciaCompacts, Orders, AnswersTo, ToInstancia, FromInstancia,
     InstanciaCommands
<1>7. CASE InstanciaChecksKey(i)
  <2>1. PICK n \in {"VALUE", "NO_VALUE"} : Answers(i, n)
    BY <1>7 DEF InstanciaChecksKey
  <2> QED
    BY <1>4, <1>7, <2>1 DEF InstanciaChecksKey, Orders, AnswersTo, ToInstancia,
       FromInstancia, InstanciaCommands
<1>8. CASE InstanciaAsksCompaction(i)
  <2>1. /\ toInstancia[i] # <<>> /\ Head(toInstancia[i]) = "DO_OPERATION"
        /\ toInstancia' = [toInstancia EXCEPT ![i] = <<"RETRY">> \o Tail(toInstancia[i])]
        /\ fromInstancia' = [fromInstancia EXCEPT ![i] =
                                Append(fromInstancia[i], "COMPACT_REQUEST")]
    BY <1>8 DEF InstanciaAsksCompaction, Asked
  <2>2. ASSUME NEW c \in InstanciaCommands
        PROVE  OnTheWay(c, i)' = OnTheWay(c, i)
    <3>1. "RETRY" \in Orders(c) <=> "DO_OPERATION" \in Orders(c)
      BY DEF Orders, InstanciaCommands
    <3>2. "COMPACT_REQUEST" \notin AnswersTo(c) /\ "COMPACT_REQUEST" \in FromInstancia
          /\ "RETRY" \in ToInstancia
      BY DEF AnswersTo, FromInstancia, ToInstancia
    <3>3. Count(<<"RETRY">> \o Tail(toInstancia[i]), Orders(c))
            = Count(toInstancia[i], Orders(c))
      BY <1>1, <2>1, <3>1, <3>2, CountReplace
    <3>4. Count(Append(fromInstancia[i], "COMPACT_REQUEST"), AnswersTo(c))
            = Count(fromInstancia[i], AnswersTo(c)) + 0
      BY <1>1, <3>2, CountAppend
    <3>5. toInstancia'[i] = <<"RETRY">> \o Tail(toInstancia[i])
          /\ fromInstancia'[i] = Append(fromInstancia[i], "COMPACT_REQUEST")
      BY <1>1, <2>1
    <3> QED
      BY <3>3, <3>4, <3>5, OnTheWayType DEF OnTheWay
  <2>3. \A j \in Instancias \ {i} : UNCHANGED <<toInstancia[j], fromInstancia[j]>>
    BY <1>1, <2>1
  <2> QED
    BY <1>3, <2>2, <2>3
<1> QED
  BY <1>5, <1>6, <1>7, <1>8 DEF Process

\* An instancia comes, is lost or dies.
LEMMA ComingIsQuiet ==
  ASSUME SocketInv, NEW i \in Instancias,
         \/ InstanciaArrives(i) \/ InstanciaIsReady(i)
         \/ InstanciaIsLost(i) \/ InstanciaDies(i)
  PROVE  Quieter
<1>1. /\ toInstancia \in [Instancias -> Seq(ToInstancia)]
      /\ fromInstancia \in [Instancias -> Seq(FromInstancia)]
      /\ instanciaThread \in [Instancias -> {"none", "starting", "loop", "compact"}]
      /\ actualCommand \in [Instancias -> InstanciaCommands \union {NoCommand}]
  BY DEF SocketInv, SocketTypes
<1>2. ASSUME NEW c \in InstanciaCommands, NEW j \in Instancias
      PROVE  Awaited(c, j)' => Awaited(c, j)
  <2>1. CASE InstanciaArrives(i)
    BY <1>1, <2>1 DEF InstanciaArrives, Awaited, Serves
  <2>2. CASE InstanciaIsReady(i)
    <3>1. actualCommand[i] = NoCommand
      BY <2>2 DEF InstanciaIsReady, SocketInv, StartingHoldsMutex
    <3> QED
      BY <1>1, <2>2, <3>1 DEF InstanciaIsReady, startUnchanged, Awaited, Serves,
         InstanciaCommands, NoCommand
  <2>3. CASE InstanciaIsLost(i)
    BY <1>1, <2>3 DEF InstanciaIsLost, startUnchanged, Awaited, Serves
  <2>4. CASE InstanciaDies(i)
    BY <2>4 DEF InstanciaDies, processUnchanged, threads, records, Awaited, Serves
  <2> QED
    BY <2>1, <2>2, <2>3, <2>4
<1>3. ASSUME NEW c \in InstanciaCommands, NEW j \in Instancias
      PROVE  OnTheWay(c, j)' <= OnTheWay(c, j)
  <2>1. CASE InstanciaArrives(i)
    <3>1. UNCHANGED toInstancia /\ fromInstancia' = [fromInstancia EXCEPT ![i] = <<>>]
      BY <2>1 DEF InstanciaArrives
    <3>2. CASE j = i
      <4>1. toInstancia[i] = <<>>
        BY <2>1 DEF InstanciaArrives, SocketInv, DeadHearNothing
      <4>2. toInstancia'[i] = <<>> /\ fromInstancia'[i] = <<>>
        BY <1>1, <3>1, <4>1
      <4>3. Count(<<>>, Orders(c)) = 0 /\ Count(<<>>, AnswersTo(c)) = 0
        BY <1>1, <4>1, CountType
      <4> QED
        BY <3>2, <4>2, <4>3, OnTheWayType DEF OnTheWay
    <3>3. CASE j # i
      BY <1>1, <3>1, <3>3, SameOnTheWay, OnTheWayType
    <3> QED
      BY <3>2, <3>3
  <2>2. CASE InstanciaIsReady(i) \/ InstanciaIsLost(i)
    BY <2>2, SameOnTheWay, OnTheWayType DEF InstanciaIsReady, InstanciaIsLost, startUnchanged
  <2>3. CASE InstanciaDies(i)
    <3>1. UNCHANGED fromInstancia /\ toInstancia' = [toInstancia EXCEPT ![i] = <<>>]
      BY <2>3 DEF InstanciaDies
    <3>2. CASE j = i
      <4>1. toInstancia'[i] = <<>> /\ fromInstancia'[i] = fromInstancia[i]
        BY <1>1, <3>1
      <4>2. Count(<<>>, Orders(c)) = 0
        BY <1>1, CountType
      <4> QED
        BY <3>2, <4>1, <4>2, OnTheWayType DEF OnTheWay
    <3>3. CASE j # i
      BY <1>1, <3>1, <3>3, SameOnTheWay, OnTheWayType
    <3> QED
      BY <3>2, <3>3
  <2> QED
    BY <2>1, <2>2, <2>3
<1> QED
  BY <1>2, <1>3 DEF Quieter

\* The thread takes an answer.
LEMMA AnswerIsTaken ==
  ASSUME SocketInv, NEW i \in Instancias, NEW m \in FromInstancia, Receives(i, m),
         NEW c \in InstanciaCommands, NEW j \in Instancias, UNCHANGED toInstancia[j]
  PROVE  /\ j = i /\ m \in AnswersTo(c) => OnTheWay(c, j) = OnTheWay(c, j)' + 1
         /\ j # i \/ m \notin AnswersTo(c) => OnTheWay(c, j) = OnTheWay(c, j)'
         /\ OnTheWay(c, j)' \in Nat
<1>1. toInstancia \in [Instancias -> Seq(ToInstancia)]
      /\ fromInstancia \in [Instancias -> Seq(FromInstancia)]
  BY DEF SocketInv, SocketTypes
<1>2. /\ fromInstancia[i] # <<>> /\ Head(fromInstancia[i]) = m
      /\ fromInstancia' = [fromInstancia EXCEPT ![i] = Tail(fromInstancia[i])]
  BY DEF Receives
<1>3. CASE j # i
  BY <1>1, <1>2, <1>3, SameOnTheWay, OnTheWayType
<1>4. CASE j = i
  <2> DEFINE s == fromInstancia[i]
  <2>1. s \in Seq(FromInstancia) /\ Tail(s) \in Seq(FromInstancia)
    BY <1>1, <1>2, HeadTailProperties
  <2>2. Count(s, AnswersTo(c)) = Count(Tail(s), AnswersTo(c))
                                 + (IF m \in AnswersTo(c) THEN 1 ELSE 0)
    BY <1>2, <2>1, CountTail
  <2>3. Count(Tail(s), AnswersTo(c)) \in Nat
    BY <2>1, CountType
  <2>4. fromInstancia'[i] = Tail(s)
    BY <1>1, <1>2
  <2> QED
    BY <1>4, <2>2, <2>3, <2>4, OnTheWayType DEF OnTheWay
<1> QED
  BY <1>3, <1>4
\* ... and nobody waits for it any more.
LEMMA CommandEnds ==
  ASSUME SocketInv, NEW i \in Instancias, CommandIsOver(i), UNCHANGED instanciaThread,
         NEW c \in InstanciaCommands, NEW j \in Instancias
  PROVE  Awaited(c, j)' <=> Awaited(c, j) /\ j # i
BY DEF SocketInv, SocketTypes, CommandIsOver, Awaited, Serves, InstanciaCommands, NoCommand

\* The thread asks the others to compact.
LEMMA CompactionIsAsked ==
  ASSUME SocketInv, NEW i \in Instancias, HandleCompactRequest(i),
         NEW c \in InstanciaCommands, NEW j \in Instancias
  PROVE  /\ OnTheWay(c, j)' \in Nat
         /\ c # "DO_COMPACT" \/ j \notin AliveInstancias \ {i}
              => OnTheWay(c, j)' = OnTheWay(c, j) /\ (Awaited(c, j)' => Awaited(c, j))
         /\ \/ OnTheWay(c, j)' = OnTheWay(c, j)
            \/ OnTheWay(c, j)' = OnTheWay(c, j) + 1
<1>1. /\ toInstancia \in [Instancias -> Seq(ToInstancia)]
      /\ fromInstancia \in [Instancias -> Seq(FromInstancia)]
      /\ instanciaThread \in [Instancias -> {"none", "starting", "loop", "compact"}]
      /\ actualCommand \in [Instancias -> InstanciaCommands \union {NoCommand}]
  BY DEF SocketInv, SocketTypes
<1> DEFINE others == AliveInstancias \ {i}
<1>2. Receives(i, "COMPACT_REQUEST") /\ "COMPACT_REQUEST" \notin AnswersTo(c)
      /\ "COMPACT_REQUEST" \in FromInstancia
  BY DEF HandleCompactRequest, AnswersTo, FromInstancia
<1>3. /\ actualCommand'[j] = IF j \in others THEN "DO_COMPACT" ELSE actualCommand[j]
      /\ toInstancia'[j] = IF j \in others /\ process[j] = "up"
                           THEN Append(toInstancia[j], "DO_COMPACT") ELSE toInstancia[j]
      /\ instanciaThread[i] = "loop"
      /\ instanciaThread' = [instanciaThread EXCEPT ![i] = "compact"]
  BY DEF HandleCompactRequest, Receives
<1> HIDE DEF others
<1>4. c # "DO_COMPACT" \/ j \notin others => (Awaited(c, j)' => Awaited(c, j))
  BY <1>1, <1>3 DEF Awaited, Serves
<1>5. CASE UNCHANGED toInstancia[j]
  BY <1>2, <1>4, <1>5, AnswerIsTaken DEF others
<1>6. CASE toInstancia'[j] = Append(toInstancia[j], "DO_COMPACT") /\ j \in others
  <2>1. Count(Append(toInstancia[j], "DO_COMPACT"), Orders(c))
          = Count(toInstancia[j], Orders(c)) + (IF c = "DO_COMPACT" THEN 1 ELSE 0)
    <3>1. "DO_COMPACT" \in ToInstancia /\ ("DO_COMPACT" \in Orders(c) <=> c = "DO_COMPACT")
      BY DEF ToInstancia, InstanciaCommands, Orders
    <3> QED
      BY <1>1, <3>1, CountAppend
  <2>2. fromInstancia'[j] = fromInstancia[j]
    BY <1>1, <1>2, <1>6 DEF Receives, others
  <2> QED
    BY <1>4, <1>6, <2>1, <2>2, OnTheWayType DEF OnTheWay, others
<1> QED
  BY <1>3, <1>5, <1>6

\* The thread ends.
LEMMA ThreadEnds ==
  ASSUME SocketInv, NEW i \in Instancias, InstanciaExits(i),
         NEW c \in InstanciaCommands, NEW j \in Instancias
  PROVE  /\ OnTheWay(c, j)' = OnTheWay(c, j) /\ OnTheWay(c, j) \in Nat
         /\ OnTheWay(c, i) = 0
         /\ Awaited(c, j)' <=> Awaited(c, j) /\ j # i
         /\ Awaited(c, i) <=> actualCommand[i] = c
<1>1. UNCHANGED <<toInstancia, fromInstancia, actualCommand>>
      /\ instanciaThread[i] = "loop"
      /\ instanciaThread' = [instanciaThread EXCEPT ![i] = "none"]
      /\ process[i] = "down" /\ fromInstancia[i] = <<>>
  BY DEF InstanciaExits, instanciaSide
<1>2. toInstancia[i] = <<>>
  BY <1>1 DEF SocketInv, DeadHearNothing
<1>3. Awaited(c, j)' <=> Awaited(c, j) /\ j # i
  BY <1>1 DEF SocketInv, SocketTypes, Awaited, Serves
<1> QED
  BY <1>1, <1>2, <1>3, SameOnTheWay, OnTheWayType DEF Awaited, Serves

\* An order is sent to an instancia, or could not be.
LEMMA OrderIsSent ==
  ASSUME SocketInv, NEW i \in Instancias, NEW d \in InstanciaCommands,
         actualCommand' = [actualCommand EXCEPT ![i] = d],
         \/ toInstancia' = [toInstancia EXCEPT ![i] = Append(toInstancia[i], d)]
         \/ UNCHANGED toInstancia,
         UNCHANGED <<instanciaThread, fromInstancia>>,
         NEW c \in InstanciaCommands, NEW j \in Instancias
  PROVE  /\ c # d \/ j # i => OnTheWay(c, j)' = OnTheWay(c, j)
                              /\ (Awaited(c, j)' => Awaited(c, j))
         /\ OnTheWay(c, j)' \in Nat /\ OnTheWay(c, j)' <= OnTheWay(c, j) + 1
<1>1. /\ toInstancia \in [Instancias -> Seq(ToInstancia)]
      /\ fromInstancia \in [Instancias -> Seq(FromInstancia)]
      /\ actualCommand \in [Instancias -> InstanciaCommands \union {NoCommand}]
  BY DEF SocketInv, SocketTypes
<1>2. c # d \/ j # i => (Awaited(c, j)' => Awaited(c, j))
  BY <1>1 DEF Awaited, Serves
<1>3. CASE UNCHANGED toInstancia[j]
  BY <1>2, <1>3, SameOnTheWay, OnTheWayType
<1>4. CASE toInstancia'[j] = Append(toInstancia[j], d) /\ j = i
  <2>1. Count(Append(toInstancia[j], d), Orders(c))
          = Count(toInstancia[j], Orders(c)) + (IF c = d THEN 1 ELSE 0)
    <3>1. d \in ToInstancia /\ (d \in Orders(c) <=> c = d)
      BY DEF ToInstancia, InstanciaCommands, Orders
    <3> QED
      BY <1>1, <3>1, CountAppend
  <2> QED
    BY <1>2, <1>4, <2>1, OnTheWayType DEF OnTheWay
<1> QED
  BY <1>1, <1>3, <1>4


-----------------------------------------------------------------------------
(* The cells and the semaphores: types.                                     *)

CellTypes ==
    /\ responseStatus \in InstanciaStatuses /\ instanciaResponse \in Nat
    /\ valueStatus \in {"VALUE", "NO_VALUE", "FALLEN"} /\ valueSemaphore \in Nat
    /\ compactSemaphore \in [Instancias -> Nat]
    /\ compacting \in [Instancias -> SUBSET Instancias]
    /\ actualOperation \in Operations \union {NoOperation}
    /\ operations \in Nat
    /\ orderedFor \in [Instancias -> {<<>>} \union (Esis \X Nat)]

posts == <<responseStatus, instanciaResponse, valueStatus, valueSemaphore,
           compactSemaphore, compacting>>

LEMMA CellInit == Init => CellTypes
BY CoordinadorAssumption DEF Init, CellTypes, InstanciaStatuses

LEMMA CellStepInstancia ==
  ASSUME KeyInv, CellTypes, NEW i \in Instancias, InstanciaActs(i)
  PROVE  CellTypes'
<1>1. UNCHANGED <<operations, actualOperation, orderedFor>>
  BY InstanciaFrame
<1>2. CASE UNCHANGED posts
  BY <1>1, <1>2 DEF posts, CellTypes
<1>3. CASE Process(i) \/ InstanciaArrives(i) \/ InstanciaDies(i)
           \/ InstanciaIsLost(i) \/ InstanciaIsReady(i)
  BY <1>2, <1>3 DEF Process, InstanciaOperates, InstanciaAsksCompaction,
     InstanciaCompacts, InstanciaChecksKey, Answers, processUnchanged,
     InstanciaArrives, InstanciaDies, InstanciaIsLost, InstanciaIsReady,
     startUnchanged, cells, threads, posts
<1>4. CASE HandleSuccess(i) \/ HandleFailed(i)
  BY <1>1, <1>4 DEF HandleSuccess, HandleFailed, PostResponse, InstanciaStatuses,
     CellTypes
<1>5. CASE HandleDidCompact(i) \/ HandleValue(i)
  BY <1>1, <1>5 DEF HandleDidCompact, HandleValue, CellTypes
<1>6. CASE HandleCompactRequest(i)
  <2>1. AliveInstancias \ {i} \subseteq Instancias
    BY KnownType DEF KeyInv
  <2> QED
    BY <1>1, <1>6, <2>1 DEF HandleCompactRequest, CellTypes
<1>7. CASE CompactionEnds(i)
  <2>1. compactSemaphore' \in [Instancias -> Nat]
    BY <1>7 DEF CompactionEnds, CellTypes
  <2> QED
    BY <1>1, <1>7, <2>1 DEF CompactionEnds, CellTypes
<1>8. CASE InstanciaExits(i)
  <2>1. CASE PostResponse(i, "FALLEN")
             /\ UNCHANGED <<valueStatus, valueSemaphore, compactSemaphore>>
    BY <1>1, <1>8, <2>1 DEF InstanciaExits, PostResponse, InstanciaStatuses, CellTypes
  <2>2. CASE /\ compactSemaphore' = [compactSemaphore EXCEPT ![i] = @ + 1]
             /\ UNCHANGED <<responseStatus, responseFor, instanciaResponse,
                            valueStatus, valueSemaphore>>
    BY <1>1, <1>8, <2>2 DEF InstanciaExits, CellTypes
  <2>3. CASE /\ valueStatus' = "FALLEN" /\ valueSemaphore' = valueSemaphore + 1
             /\ UNCHANGED <<responseStatus, responseFor, instanciaResponse,
                            compactSemaphore>>
    BY <1>1, <1>8, <2>3 DEF InstanciaExits, CellTypes
  <2>4. CASE UNCHANGED <<responseStatus, responseFor, instanciaResponse,
                         valueStatus, valueSemaphore, compactSemaphore>>
    BY <1>2, <1>8, <2>4 DEF InstanciaExits, posts
  <2> QED
    BY <1>8, <2>1, <2>2, <2>3, <2>4 DEF InstanciaExits, ExitGracefullyTells
<1> QED
  BY <1>3, <1>4, <1>5, <1>6, <1>7, <1>8 DEF InstanciaActs, InstanciaThread

LEMMA CellStep ==
  ASSUME KeyInv, LineInv, CellTypes, Next
  PROVE  CellTypes'
<1>1. ASSUME UNCHANGED <<posts, actualOperation, operations, orderedFor>>
      PROVE  CellTypes'
  BY <1>1 DEF CellTypes, posts
<1>2. ASSUME NEW e \in Esis, EsiThread(e) PROVE CellTypes'
  <2>1. CASE EsiLocksMutex(e) \/ EsiAsksStatus(e)
    BY <1>1, <2>1 DEF EsiLocksMutex, EsiAsksStatus, cells, bounds, histories, posts
  <2>2. CASE EsiGetsResponse(e)
    <3>1. instanciaResponse' \in Nat
      BY <2>2 DEF EsiGetsResponse, CellTypes
    <3> QED
      BY <2>2, <3>1 DEF EsiGetsResponse, CellTypes, bounds, histories
  <2>3. CASE EsiActs(e)
    <3>1. UNCHANGED <<posts, operations>>
      BY <2>3 DEF EsiActs, posts, bounds
    <3>2. request[e] \in Operations
      BY <2>3 DEF EsiActs, Works, LineInv, RequestsAreMade
    <3>3. CASE \E r \in {"SUCCESS", "LOCK", "BLOCK", "ABORT"} : Responds(e, r)
      BY <1>1, <3>1, <3>3 DEF Responds, NothingSent, histories
    <3>4. ASSUME NEW i \in Instancias, Commands(e, i) PROVE CellTypes'
      <4>1. /\ actualOperation' = request[e]
            /\ orderedFor' = [orderedFor EXCEPT ![i] = <<e, operations>>]
        BY <3>4 DEF Commands, TryToExecute
      <4>2. orderedFor' \in [Instancias -> {<<>>} \union (Esis \X Nat)]
        BY <4>1 DEF CellTypes
      <4> QED
        BY <3>1, <3>2, <4>1, <4>2 DEF CellTypes, posts
    <3> QED
      BY <2>3, <3>2, <3>3, <3>4, EsiActsOutcome
  <2> QED
    BY <1>2, <2>1, <2>2, <2>3 DEF EsiThread
<1>3. ASSUME NEW e \in Esis, PlanificadorOrders(e) \/ EsiExits(e) \/ EsiDies(e)
      PROVE  CellTypes'
  <2>1. UNCHANGED <<posts, actualOperation, orderedFor>>
    BY <1>3 DEF PlanificadorOrders, EsiExits, EsiDies, coordinadorUnchanged, cells,
       threads, histories, posts
  <2>2. operations' \in Nat
    BY <1>3 DEF PlanificadorOrders, EsiExits, EsiDies, CellTypes
  <2> QED
    BY <2>1, <2>2 DEF CellTypes, posts
<1>4. CASE PlanificadorActs
  <2>1. CASE UNCHANGED <<valueStatus, valueSemaphore>>
    BY <1>1, <1>4, <2>1, PlanificadorFrame DEF posts
  <2>2. CASE GetValue
    <3>1. valueSemaphore' \in Nat /\ UNCHANGED valueStatus
      BY <2>2 DEF GetValue, CellTypes
    <3> QED
      BY <1>4, <3>1, PlanificadorFrame DEF CellTypes
  <2> QED
    BY <1>4, <2>1, <2>2 DEF PlanificadorActs, PlanThread, PlanReadsEsiId,
       PlanReadsKeyStatus, PlanReadsStatusRequest, RespondStatusAtOnce, AskValue,
       PlanificadorAnswers, StatusIsTyped, coordinadorUnchanged, cells
<1> QED
  BY <1>2, <1>3, <1>4, CellStepInstancia DEF Next, InstanciaActs, PlanificadorActs

-----------------------------------------------------------------------------
(* One operation and one question about a value at a time.                  *)

OneAtMost(c) ==
    /\ \A i \in Instancias : OnTheWay(c, i) <= 1
    /\ \A i, j \in Instancias : Busy(c, i) /\ Busy(c, j) => i = j
NoMore(c) ==
    \A i \in Instancias : /\ OnTheWay(c, i)' <= OnTheWay(c, i)
                          /\ Awaited(c, i)' => Awaited(c, i)

LEMMA QuietMeansNoMore ==
  ASSUME Quieter, NEW c \in InstanciaCommands
  PROVE  NoMore(c)
BY DEF Quieter, NoMore

LEMMA NoMoreBusy ==
  ASSUME SocketInv, SocketInv', NEW c \in InstanciaCommands, NoMore(c)
  PROVE  /\ \A i \in Instancias : Busy(c, i)' => Busy(c, i)
         /\ OneAtMost(c) => OneAtMost(c)'
<1>1. \A i \in Instancias : OnTheWay(c, i) \in Nat /\ OnTheWay(c, i)' \in Nat
  <2> TAKE i \in Instancias
  <2>1. OnTheWay(c, i) \in Nat
    BY OnTheWayType
  <2>2. (OnTheWay(c, i) \in Nat)'
    BY OnTheWayTypeNext
  <2> QED
    BY <2>1, <2>2
<1>2. \A i \in Instancias : Busy(c, i)' => Busy(c, i)
  BY <1>1 DEF NoMore, Busy
<1>3. ASSUME OneAtMost(c) PROVE OneAtMost(c)'
  <2>1. \A i \in Instancias : OnTheWay(c, i)' <= 1
    BY <1>1, <1>3 DEF NoMore, OneAtMost
  <2>2. \A i, j \in Instancias : Busy(c, i)' /\ Busy(c, j)' => i = j
    BY <1>2, <1>3 DEF OneAtMost
  <2> QED
    BY <2>1, <2>2 DEF OneAtMost
<1> QED
  BY <1>2, <1>3


\* The answer that was awaited: there is no other one to come.
LEMMA AnswerIsTheOnlyOne ==
  ASSUME SocketInv, SocketInv', NEW i \in Instancias, NEW m \in FromInstancia,
         Receives(i, m), CommandIsOver(i), UNCHANGED <<toInstancia, instanciaThread>>,
         NEW c \in InstanciaCommands
  PROVE  /\ NoMore(c)
         /\ m \in AnswersTo(c) => Busy(c, i)
         /\ m \in AnswersTo(c) /\ OneAtMost(c) => \A j \in Instancias : ~Busy(c, j)'
<1>1. ASSUME NEW j \in Instancias
      PROVE  /\ j = i /\ m \in AnswersTo(c) => OnTheWay(c, j) = OnTheWay(c, j)' + 1
             /\ j # i \/ m \notin AnswersTo(c) => OnTheWay(c, j) = OnTheWay(c, j)'
             /\ OnTheWay(c, j)' \in Nat
             /\ Awaited(c, j)' <=> Awaited(c, j) /\ j # i
  <2>1. UNCHANGED toInstancia[j]
    OBVIOUS
  <2> QED
    BY <2>1, AnswerIsTaken, CommandEnds
<1>2. NoMore(c)
  BY <1>1 DEF NoMore
<1>3. m \in AnswersTo(c) => Busy(c, i)
  BY <1>1 DEF Busy
<1>4. ASSUME m \in AnswersTo(c), OneAtMost(c), NEW j \in Instancias
      PROVE  ~Busy(c, j)'
  <2>1. CASE j = i
    BY <1>1, <1>4, <2>1 DEF OneAtMost, Busy
  <2>2. CASE j # i
    <3>1. ~Busy(c, j)
      BY <1>3, <1>4, <2>2 DEF OneAtMost
    <3>2. ~(OnTheWay(c, j)' > 0) /\ ~Awaited(c, j)'
      BY <1>1, <2>2, <3>1 DEF Busy
    <3> QED
      BY <3>2 DEF Busy
  <2> QED
    BY <2>1, <2>2
<1> QED
  BY <1>2, <1>3, <1>4

\* The thread ends, with nothing else to come.
LEMMA FallIsTheOnlyAnswer ==
  ASSUME SocketInv, NEW i \in Instancias, InstanciaExits(i), NEW c \in InstanciaCommands
  PROVE  /\ NoMore(c)
         /\ actualCommand[i] = c => Busy(c, i)
         /\ actualCommand[i] = c /\ OneAtMost(c) => \A j \in Instancias : ~Busy(c, j)'
<1>1. ASSUME NEW j \in Instancias
      PROVE  /\ OnTheWay(c, j)' = OnTheWay(c, j) /\ OnTheWay(c, j) \in Nat
             /\ OnTheWay(c, i) = 0
             /\ Awaited(c, j)' <=> Awaited(c, j) /\ j # i
             /\ Awaited(c, i) <=> actualCommand[i] = c
  BY ThreadEnds
<1>2. NoMore(c)
  BY <1>1 DEF NoMore
<1>3. actualCommand[i] = c => Busy(c, i)
  BY <1>1 DEF Busy
<1>4. ASSUME actualCommand[i] = c, OneAtMost(c), NEW j \in Instancias
      PROVE  ~Busy(c, j)'
  <2>1. CASE j = i
    BY <1>1, <2>1 DEF Busy
  <2>2. CASE j # i
    <3>1. ~Busy(c, j)
      BY <1>3, <1>4, <2>2 DEF OneAtMost
    <3>2. ~(OnTheWay(c, j)' > 0) /\ ~Awaited(c, j)'
      BY <1>1, <3>1 DEF Busy
    <3> QED
      BY <3>2 DEF Busy
  <2> QED
    BY <2>1, <2>2
<1> QED
  BY <1>2, <1>3, <1>4

\* The order of the only one that waits.
LEMMA OrderIsTheOnlyOne ==
  ASSUME SocketInv, NEW i \in Instancias, NEW d \in InstanciaCommands,
         actualCommand' = [actualCommand EXCEPT ![i] = d],
         \/ toInstancia' = [toInstancia EXCEPT ![i] = Append(toInstancia[i], d)]
         \/ UNCHANGED toInstancia,
         UNCHANGED <<instanciaThread, fromInstancia>>
  PROVE  /\ \A c \in InstanciaCommands : c # d => NoMore(c)
         /\ (\A j \in Instancias : ~Busy(d, j))
              => OneAtMost(d)' /\ \A j \in Instancias : Busy(d, j)' => j = i
<1>1. ASSUME NEW c \in InstanciaCommands, NEW j \in Instancias
      PROVE  /\ c # d \/ j # i => OnTheWay(c, j)' = OnTheWay(c, j)
                                  /\ (Awaited(c, j)' => Awaited(c, j))
             /\ OnTheWay(c, j)' \in Nat /\ OnTheWay(c, j)' <= OnTheWay(c, j) + 1
             /\ OnTheWay(c, j) \in Nat
  BY OrderIsSent, OnTheWayType
<1>2. ASSUME NEW c \in InstanciaCommands, c # d PROVE NoMore(c)
  BY <1>1, <1>2 DEF NoMore
<1>3. ASSUME \A j \in Instancias : ~Busy(d, j)
      PROVE  OneAtMost(d)' /\ \A j \in Instancias : Busy(d, j)' => j = i
  <2>1. \A j \in Instancias : OnTheWay(d, j) = 0 /\ ~Awaited(d, j)
    BY <1>1, <1>3 DEF Busy
  <2>2. \A j \in Instancias : OnTheWay(d, j)' <= 1
    BY <1>1, <2>1
  <2>3. ASSUME NEW j \in Instancias, j # i PROVE ~Busy(d, j)'
    <3>1. OnTheWay(d, j)' = 0 /\ ~Awaited(d, j)'
      BY <1>1, <2>1, <2>3
    <3> QED
      BY <3>1 DEF Busy
  <2> QED
    BY <2>2, <2>3 DEF OneAtMost
<1> QED
  BY <1>2, <1>3

\* Whatever happens to the instancias, an operation or a question comes to its
\* end with one post for the one that waits, or is as it was.
LEMMA InstanciaPosts ==
  ASSUME KeyInv, SocketInv, SocketInv', NEW i \in Instancias, InstanciaActs(i)
  PROVE  /\ NoMore("DO_OPERATION") /\ NoMore("CHECK_KEY_STATUS")
         /\ \/ UNCHANGED <<instanciaResponse, responseStatus, responseFor>>
            \/ /\ Busy("DO_OPERATION", i)
               /\ instanciaResponse' = instanciaResponse + 1
               /\ responseFor' = orderedFor[i]
               /\ OneAtMost("DO_OPERATION")
                    => \A j \in Instancias : ~Busy("DO_OPERATION", j)'
         /\ \/ UNCHANGED <<valueSemaphore, valueStatus>>
            \/ /\ Busy("CHECK_KEY_STATUS", i)
               /\ valueSemaphore' = valueSemaphore + 1
               /\ OneAtMost("CHECK_KEY_STATUS")
                    => \A j \in Instancias : ~Busy("CHECK_KEY_STATUS", j)'
<1> "DO_OPERATION" \in InstanciaCommands /\ "CHECK_KEY_STATUS" \in InstanciaCommands
  BY DEF InstanciaCommands
<1>1. ASSUME Quieter, UNCHANGED <<instanciaResponse, responseStatus, responseFor,
                                  valueSemaphore, valueStatus>>
      PROVE  /\ NoMore("DO_OPERATION") /\ NoMore("CHECK_KEY_STATUS")
             /\ UNCHANGED <<instanciaResponse, responseStatus, responseFor>>
             /\ UNCHANGED <<valueSemaphore, valueStatus>>
  BY <1>1, QuietMeansNoMore
<1>2. CASE Process(i)
  BY <1>1, <1>2, ProcessIsQuiet DEF Process, InstanciaOperates, InstanciaAsksCompaction,
     InstanciaCompacts, InstanciaChecksKey, Answers, processUnchanged, cells, histories
<1>3. CASE \/ InstanciaArrives(i) \/ InstanciaIsReady(i)
           \/ InstanciaIsLost(i) \/ InstanciaDies(i)
  BY <1>1, <1>3, ComingIsQuiet DEF InstanciaArrives, InstanciaIsReady,
     InstanciaIsLost, InstanciaDies, startUnchanged, processUnchanged, cells, histories
<1>4. CASE CompactionEnds(i)
  <2>1. /\ UNCHANGED <<toInstancia, fromInstancia, actualCommand>>
        /\ instanciaThread' = [instanciaThread EXCEPT ![i] = "loop"]
        /\ instanciaThread[i] = "compact"
        /\ UNCHANGED <<instanciaResponse, responseStatus, responseFor,
                       valueSemaphore, valueStatus>>
    BY <1>4 DEF CompactionEnds, instanciaSide, records, histories
  <2>2. ASSUME NEW c \in InstanciaCommands, NEW j \in Instancias
        PROVE  OnTheWay(c, j)' <= OnTheWay(c, j) /\ (Awaited(c, j)' => Awaited(c, j))
    BY <2>1, OnTheWayType, SameOnTheWay DEF Awaited, Serves, SocketInv, SocketTypes
  <2> QED
    BY <1>1, <2>1, <2>2 DEF Quieter
<1>5. CASE HandleSuccess(i) \/ HandleFailed(i)
  <2>1. PICK m \in {"DID_SUCCESS", "DID_FAILED"} : Receives(i, m)
    BY <1>5 DEF HandleSuccess, HandleFailed
  <2>2. /\ CommandIsOver(i) /\ UNCHANGED <<toInstancia, instanciaThread>>
        /\ UNCHANGED <<valueSemaphore, valueStatus>>
        /\ instanciaResponse' = instanciaResponse + 1 /\ responseFor' = orderedFor[i]
    BY <1>5 DEF HandleSuccess, HandleFailed, PostResponse
  <2>3. m \in FromInstancia /\ m \in AnswersTo("DO_OPERATION")
    BY <2>1 DEF FromInstancia, AnswersTo
  <2> QED
    BY <2>1, <2>2, <2>3, AnswerIsTheOnlyOne
<1>6. CASE HandleValue(i)
  <2>1. PICK m \in {"VALUE", "NO_VALUE"} : Receives(i, m)
    BY <1>6 DEF HandleValue
  <2>2. /\ CommandIsOver(i) /\ UNCHANGED <<toInstancia, instanciaThread>>
        /\ valueSemaphore' = valueSemaphore + 1
        /\ UNCHANGED <<instanciaResponse, responseStatus, responseFor>>
    BY <1>6 DEF HandleValue
  <2>3. m \in FromInstancia /\ m \in AnswersTo("CHECK_KEY_STATUS")
    BY <2>1 DEF FromInstancia, AnswersTo
  <2> QED
    BY <2>1, <2>2, <2>3, AnswerIsTheOnlyOne
<1>7. CASE HandleDidCompact(i)
  <2>1. /\ Receives(i, "DID_COMPACT") /\ CommandIsOver(i)
        /\ UNCHANGED <<toInstancia, instanciaThread>>
        /\ UNCHANGED <<instanciaResponse, responseStatus, responseFor>>
        /\ UNCHANGED <<valueSemaphore, valueStatus>>
    BY <1>7 DEF HandleDidCompact
  <2>2. "DID_COMPACT" \in FromInstancia
    BY DEF FromInstancia
  <2> QED
    BY <2>1, <2>2, AnswerIsTheOnlyOne
<1>8. CASE HandleCompactRequest(i)
  <2>1. ASSUME NEW c \in InstanciaCommands, c # "DO_COMPACT" PROVE NoMore(c)
    <3> SUFFICES ASSUME NEW j \in Instancias
                 PROVE  OnTheWay(c, j)' <= OnTheWay(c, j) /\ (Awaited(c, j)' => Awaited(c, j))
      BY DEF NoMore
    <3>1. OnTheWay(c, j)' = OnTheWay(c, j) /\ (Awaited(c, j)' => Awaited(c, j))
      BY <1>8, <2>1, CompactionIsAsked
    <3> QED
      BY <3>1, OnTheWayType
  <2> QED
    BY <1>8, <2>1 DEF HandleCompactRequest
<1>9. CASE InstanciaExits(i)
  <2>1. CASE actualCommand[i] = "DO_OPERATION"
    <3>1. /\ instanciaResponse' = instanciaResponse + 1 /\ responseFor' = orderedFor[i]
          /\ UNCHANGED <<valueStatus, valueSemaphore>>
      BY <1>9, <2>1 DEF InstanciaExits, ExitGracefullyTells, PostResponse
    <3> QED
      BY <1>9, <2>1, <3>1, FallIsTheOnlyAnswer
  <2>2. CASE actualCommand[i] = "CHECK_KEY_STATUS"
    <3>1. /\ valueSemaphore' = valueSemaphore + 1
          /\ UNCHANGED <<instanciaResponse, responseStatus, responseFor>>
      BY <1>9, <2>2 DEF InstanciaExits, ExitGracefullyTells
    <3> QED
      BY <1>9, <2>2, <3>1, FallIsTheOnlyAnswer
  <2>3. CASE actualCommand[i] \notin {"DO_OPERATION", "CHECK_KEY_STATUS"}
    <3>1. /\ UNCHANGED <<instanciaResponse, responseStatus, responseFor>>
          /\ UNCHANGED <<valueSemaphore, valueStatus>>
      BY <1>9, <2>3 DEF InstanciaExits, ExitGracefullyTells
    <3> QED
      BY <1>9, <3>1, FallIsTheOnlyAnswer
  <2> QED
    BY <2>1, <2>2, <2>3
<1> QED
  BY <1>2, <1>3, <1>4, <1>5, <1>6, <1>7, <1>8, <1>9 DEF InstanciaActs, InstanciaThread


-----------------------------------------------------------------------------
(* The response is that of the operation.                                   *)

\* What e waits for, when its thread waits for a response.
ResponseIsFor(e) ==
    /\ actualOperation = request[e]
    /\ turnOf = e =>
          /\ instanciaResponse > 0 => responseFor = <<e, operations>>
          /\ \A i \in Instancias : Busy("DO_OPERATION", i)
                => orderedFor[i] = <<e, operations>>
OneResponse ==
    /\ OneAtMost("DO_OPERATION")
    /\ instanciaResponse <= 1
    /\ \A i \in Instancias : Busy("DO_OPERATION", i) => instanciaResponse = 0
    /\ instanciaResponse > 0 \/ (\E i \in Instancias : Busy("DO_OPERATION", i))
          => \E e \in Esis : esiThread[e] = "response"
    /\ \A e \in Esis : esiThread[e] = "response" => ResponseIsFor(e)
OperationInv == ~sendFailed => OneResponse

NothingOrdered ==
    instanciaResponse = 0 /\ \A i \in Instancias : ~Busy("DO_OPERATION", i)

LEMMA OperationInit == Init => SocketInv /\ OperationInv
<1> SUFFICES ASSUME Init PROVE SocketInv /\ OperationInv
  OBVIOUS
<1>1. SocketInv
  BY SocketInit
<1>2. "DO_OPERATION" \in InstanciaCommands
  BY DEF InstanciaCommands
<1>3. ASSUME NEW i \in Instancias
      PROVE  OnTheWay("DO_OPERATION", i) = 0 /\ ~Busy("DO_OPERATION", i)
  <2>1. toInstancia[i] = <<>> /\ fromInstancia[i] = <<>> /\ instanciaThread[i] = "none"
    BY DEF Init
  <2> QED
    BY <1>1, <1>2, <2>1, OnTheWayType DEF Busy, Awaited, Serves
<1> QED
  BY <1>1, <1>3 DEF Init, OperationInv, OneResponse, OneAtMost

\* What the posts leave as it is while there is no more to come.
LEMMA SameResponse ==
  ASSUME SocketInv, SocketInv', OneResponse, NoMore("DO_OPERATION"),
         UNCHANGED <<instanciaResponse, responseFor, actualOperation, orderedFor>>,
         \A e \in Esis : esiThread[e] = "response" => esiThread'[e] = "response",
         \A e \in Esis : esiThread'[e] = "response"
            => /\ esiThread[e] = "response" /\ request'[e] = request[e]
               /\ turnOf' = e => turnOf = e /\ operations' = operations
  PROVE  OneResponse'
<1>1. /\ \A i \in Instancias : Busy("DO_OPERATION", i)' => Busy("DO_OPERATION", i)
      /\ OneAtMost("DO_OPERATION")'
  BY NoMoreBusy DEF OneResponse, InstanciaCommands
<1>2. ASSUME NEW e \in Esis, esiThread'[e] = "response" PROVE ResponseIsFor(e)'
  <2>1. ResponseIsFor(e) /\ request'[e] = request[e]
        /\ (turnOf' = e => turnOf = e /\ operations' = operations)
    BY <1>2 DEF OneResponse
  <2> QED
    BY <1>1, <2>1 DEF ResponseIsFor
<1> QED
  BY <1>1, <1>2 DEF OneResponse

\* Without anybody that waits there is nothing to come.
LEMMA NobodyWaits ==
  ASSUME CellTypes, OneResponse, \A e \in Esis : esiThread[e] # "response"
  PROVE  NothingOrdered
BY DEF OneResponse, NothingOrdered, CellTypes

LEMMA NothingComes ==
  ASSUME NothingOrdered', OneAtMost("DO_OPERATION")',
         \A e \in Esis : esiThread'[e] # "response"
  PROVE  OneResponse'
BY DEF NothingOrdered, OneResponse

LEMMA OperationStepInstancia ==
  ASSUME KeyInv, SocketInv, SocketInv', LineInv, CellTypes, OperationInv,
         NEW i \in Instancias, InstanciaActs(i)
  PROVE  OperationInv'
<1> SUFFICES ASSUME ~sendFailed' PROVE OneResponse'
  BY DEF OperationInv
<1>1. /\ UNCHANGED <<esiThread, request, turnOf, operations, actualOperation, orderedFor>>
      /\ OneResponse
  BY InstanciaFrame DEF lines, OperationInv
<1>2. NoMore("DO_OPERATION")
  BY InstanciaPosts
<1>3. CASE UNCHANGED <<instanciaResponse, responseStatus, responseFor>>
  BY <1>1, <1>2, <1>3, SameResponse
<1>4. CASE /\ Busy("DO_OPERATION", i)
           /\ instanciaResponse' = instanciaResponse + 1
           /\ responseFor' = orderedFor[i]
           /\ OneAtMost("DO_OPERATION")
                => \A j \in Instancias : ~Busy("DO_OPERATION", j)'
  <2>1. instanciaResponse' = 1 /\ \A j \in Instancias : ~Busy("DO_OPERATION", j)'
    BY <1>1, <1>4 DEF OneResponse
  <2>2. OneAtMost("DO_OPERATION")'
    BY <1>1, <1>2, NoMoreBusy DEF OneResponse, InstanciaCommands
  <2>3. \E e \in Esis : esiThread[e] = "response"
    BY <1>1, <1>4 DEF OneResponse
  <2>4. ASSUME NEW e \in Esis, esiThread'[e] = "response" PROVE ResponseIsFor(e)'
    <3>1. ResponseIsFor(e)
      BY <1>1, <2>4 DEF OneResponse
    <3> QED
      BY <1>1, <1>4, <2>1, <3>1 DEF ResponseIsFor
  <2> QED
    BY <1>1, <2>1, <2>2, <2>3, <2>4 DEF OneResponse
<1> QED
  BY <1>3, <1>4, InstanciaPosts

LEMMA OperationStepEsi ==
  ASSUME KeyInv, SocketInv, SocketInv', LineInv, CellTypes, OperationInv,
         NEW e \in Esis, EsiThread(e)
  PROVE  OperationInv'
<1> SUFFICES ASSUME ~sendFailed' PROVE OneResponse'
  BY DEF OperationInv
<1> "DO_OPERATION" \in InstanciaCommands
  BY DEF InstanciaCommands
<1>0. esiThread \in [Esis -> {"idle", "id", "status", "response", "over"}]
  BY DEF LineInv, LineTypes
<1>1. ASSUME Works(e) PROVE \A f \in Esis : f # e => esiThread[f] # "response"
  BY <1>1, CoordinadorAssumption DEF LineInv, WorkerHoldsMutex, Works
\* Nothing is ordered and nobody waits any more.
<1>2. ASSUME UNCHANGED sockets, NothingOrdered, instanciaResponse' = 0, OneResponse,
             \A f \in Esis : esiThread'[f] # "response"
      PROVE  OneResponse'
  <2>1. NoMore("DO_OPERATION")
    BY <1>2, SocketsAreQuiet, QuietMeansNoMore
  <2> QED
    BY <1>2, <2>1, NoMoreBusy, NothingComes DEF NothingOrdered, OneResponse
<1>3. CASE EsiLocksMutex(e) \/ EsiAsksStatus(e)
  <2>1. /\ OneResponse /\ UNCHANGED sockets
        /\ UNCHANGED <<instanciaResponse, responseFor, actualOperation, orderedFor,
                       request, turnOf, operations>>
        /\ \A f \in Esis : esiThread'[f] = "response" <=> esiThread[f] = "response"
    BY <1>0, <1>3 DEF EsiLocksMutex, EsiAsksStatus, cells, histories, esiSide, bounds,
       OperationInv, sockets, records, mutexes, instanciaSide
  <2>2. NoMore("DO_OPERATION")
    BY <2>1, SocketsAreQuiet, QuietMeansNoMore
  <2> QED
    BY <2>1, <2>2, SameResponse
<1>4. CASE EsiGetsResponse(e)
  <2>1. /\ Works(e) /\ OneResponse /\ instanciaResponse > 0
        /\ instanciaResponse' = instanciaResponse - 1
        /\ UNCHANGED sockets
    BY <1>4 DEF EsiGetsResponse, Works, OperationInv, sockets, records, mutexes,
       instanciaSide, histories
  <2>2. instanciaResponse' = 0 /\ \A i \in Instancias : ~Busy("DO_OPERATION", i)
    BY <2>1 DEF OneResponse, CellTypes
  <2>3. \A f \in Esis : esiThread'[f] # "response"
    BY <1>0, <1>1, <1>4, <2>1 DEF EsiGetsResponse, SendResponseToEsi
  <2>4. NoMore("DO_OPERATION")
    BY <2>1, SocketsAreQuiet, QuietMeansNoMore
  <2>5. NothingOrdered' /\ OneAtMost("DO_OPERATION")'
    BY <2>1, <2>2, <2>4, NoMoreBusy DEF NothingOrdered, OneResponse
  <2> QED
    BY <2>3, <2>5, NothingComes
<1>5. CASE EsiActs(e)
  <2>1. /\ Works(e) /\ esiThread[e] = "status" /\ request[e] \in Operations
        /\ UNCHANGED <<instanciaThread, instanciasListMutex, instanciaResponse, operations>>
    BY <1>5 DEF EsiActs, Works, LineInv, RequestsAreMade, bounds
  <2>2. \A f \in Esis : esiThread[f] # "response"
    BY <1>1, <2>1
  <2>3. ASSUME NEW r \in {"SUCCESS", "LOCK", "BLOCK", "ABORT"}, Responds(e, r)
        PROVE  OneResponse'
    <3>1. OneResponse /\ UNCHANGED sockets
      BY <2>1, <2>3 DEF Responds, NothingSent, OperationInv, histories, sockets,
         instanciaSide
    <3>2. \A f \in Esis : esiThread'[f] # "response"
      BY <1>0, <2>2, <2>3 DEF Responds, SendResponseToEsi
    <3>3. NothingOrdered
      BY <2>2, <3>1, NobodyWaits
    <3> QED
      BY <1>2, <2>1, <3>1, <3>2, <3>3 DEF NothingOrdered
  <2>4. ASSUME NEW i \in Instancias, Commands(e, i) PROVE OneResponse'
    <3>1. /\ actualCommand' = [actualCommand EXCEPT ![i] = "DO_OPERATION"]
          /\ actualOperation' = request[e]
          /\ orderedFor' = [orderedFor EXCEPT ![i] = <<e, operations>>]
          /\ \/ toInstancia' = [toInstancia EXCEPT ![i] =
                                    Append(toInstancia[i], "DO_OPERATION")]
             \/ UNCHANGED toInstancia
          /\ esiThread' = [esiThread EXCEPT ![e] = "response"]
          /\ UNCHANGED <<request, turnOf, fromInstancia>>
          /\ OneResponse
      BY <2>4 DEF Commands, TryToExecute, sendUnchanged, esiSide, OperationInv
    <3>2. NothingOrdered
      BY <2>2, <3>1, NobodyWaits
    <3>3. OneAtMost("DO_OPERATION")' /\ \A j \in Instancias :
                Busy("DO_OPERATION", j)' => j = i
      BY <2>1, <3>1, <3>2, OrderIsTheOnlyOne DEF NothingOrdered
    <3>4. \A f \in Esis : esiThread'[f] = "response" <=> f = e
      BY <1>0, <2>2, <3>1
    <3>5. instanciaResponse' = 0 /\ orderedFor'[i] = <<e, operations>>
      BY <2>1, <3>1, <3>2 DEF NothingOrdered, CellTypes
    <3>6. ResponseIsFor(e)'
      BY <2>1, <3>1, <3>3, <3>5 DEF ResponseIsFor
    <3> QED
      BY <3>3, <3>4, <3>5, <3>6 DEF OneResponse
  <2> QED
    BY <1>5, <2>1, <2>3, <2>4, EsiActsOutcome
<1> QED
  BY <1>3, <1>4, <1>5 DEF EsiThread

LEMMA OperationStepOther ==
  ASSUME KeyInv, SocketInv, SocketInv', LineInv, CellTypes, OperationInv,
         PlanificadorActs \/ \E e \in Esis :
            PlanificadorOrders(e) \/ EsiExits(e) \/ EsiDies(e)
  PROVE  OperationInv'
<1> SUFFICES ASSUME ~sendFailed' PROVE OneResponse'
  BY DEF OperationInv
<1> "DO_OPERATION" \in InstanciaCommands
  BY DEF InstanciaCommands
<1>0. esiThread \in [Esis -> {"idle", "id", "status", "response", "over"}]
      /\ request \in [Esis -> Operations \union {NoOperation}]
  BY DEF LineInv, LineTypes, RequestsAreReal
<1>1. ASSUME NEW e \in Esis, PlanificadorOrders(e) \/ EsiExits(e) \/ EsiDies(e)
      PROVE  OneResponse'
  <2>1. /\ UNCHANGED <<instanciaResponse, responseFor, actualOperation, orderedFor, sockets>>
        /\ OneResponse
    BY <1>1 DEF PlanificadorOrders, EsiExits, EsiDies, coordinadorUnchanged, cells,
       histories, records, mutexes, threads, instanciaSide, OperationInv, sockets
  <2>2. /\ \A f \in Esis : esiThread'[f] = "response" <=> esiThread[f] = "response"
        /\ \A f \in Esis : esiThread'[f] = "response"
            => /\ request'[f] = request[f]
               /\ turnOf' = f => turnOf = f /\ operations' = operations
    <3>1. CASE PlanificadorOrders(e)
      <4>1. \A f \in Esis : f # e => request'[f] = request[f]
        BY <1>0, <3>1 DEF PlanificadorOrders
      <4> QED
        BY <3>1, <4>1 DEF PlanificadorOrders, coordinadorUnchanged, threads
    <3>2. CASE EsiExits(e) \/ EsiDies(e)
      BY <1>0, <3>2, CoordinadorAssumption DEF EsiExits, EsiDies, threads
    <3> QED
      BY <1>1, <3>1, <3>2
  <2>3. NoMore("DO_OPERATION")
    BY <2>1, SocketsAreQuiet, QuietMeansNoMore
  <2> QED
    BY <2>1, <2>2, <2>3, SameResponse
<1>2. CASE PlanificadorActs
  <2>1. /\ UNCHANGED <<instanciaResponse, responseFor, actualOperation, orderedFor>>
        /\ UNCHANGED <<esiThread, request, turnOf, operations, instanciaThread>>
        /\ UNCHANGED fromInstancia
        /\ OneResponse
    BY <1>2, PlanificadorFrame DEF OperationInv
  <2>2. NoMore("DO_OPERATION")
    <3>1. CASE UNCHANGED <<actualCommand, toInstancia>>
      <4>1. \A i \in Instancias : /\ OnTheWay("DO_OPERATION", i)' <= OnTheWay("DO_OPERATION", i)
                                  /\ Awaited("DO_OPERATION", i)' => Awaited("DO_OPERATION", i)
        BY <2>1, <3>1, SameOnTheWay, OnTheWayType DEF Awaited, Serves
      <4> QED
        BY <4>1 DEF NoMore
    <3>2. CASE \E i \in Instancias :
                 /\ actualCommand' = [actualCommand EXCEPT ![i] = "CHECK_KEY_STATUS"]
                 /\ \/ toInstancia' = [toInstancia EXCEPT ![i] =
                                         Append(toInstancia[i], "CHECK_KEY_STATUS")]
                    \/ UNCHANGED toInstancia
      BY <2>1, <3>2, OrderIsTheOnlyOne DEF InstanciaCommands
    <3>3. CASE AskValue
      BY <3>2, <3>3, ValueIsAsked
    <3> QED
      BY <1>2, <3>1, <3>3 DEF PlanificadorActs, PlanThread, PlanReadsEsiId,
         PlanReadsKeyStatus, PlanReadsStatusRequest, readUnchanged, RespondStatusAtOnce,
         GetValue, PlanificadorAnswers, StatusIsTyped, coordinadorUnchanged, records,
         instanciaSide
  <2> QED
    BY <2>1, <2>2, SameResponse
<1> QED
  BY <1>1, <1>2

-----------------------------------------------------------------------------
(* The value that the operator asks for.                                    *)

ValueInv ==
    /\ OneAtMost("CHECK_KEY_STATUS")
    /\ valueSemaphore <= 1
    /\ \A i \in Instancias : Busy("CHECK_KEY_STATUS", i) => valueSemaphore = 0
    /\ valueSemaphore > 0 \/ (\E i \in Instancias : Busy("CHECK_KEY_STATUS", i))
          => planThread \in {"value", "stuck"}

LEMMA ValueInit == Init => ValueInv
<1> SUFFICES ASSUME Init PROVE ValueInv
  OBVIOUS
<1>1. "CHECK_KEY_STATUS" \in InstanciaCommands
  BY DEF InstanciaCommands
<1>2. ASSUME NEW i \in Instancias
      PROVE  OnTheWay("CHECK_KEY_STATUS", i) = 0 /\ ~Busy("CHECK_KEY_STATUS", i)
  <2>1. toInstancia[i] = <<>> /\ fromInstancia[i] = <<>> /\ instanciaThread[i] = "none"
    BY DEF Init
  <2> QED
    BY <1>1, <2>1, SocketInit, OnTheWayType DEF Busy, Awaited, Serves
<1> QED
  BY <1>2 DEF Init, ValueInv, OneAtMost

LEMMA SameValue ==
  ASSUME SocketInv, SocketInv', ValueInv, NoMore("CHECK_KEY_STATUS"),
         UNCHANGED valueSemaphore,
         planThread \in {"value", "stuck"} => planThread' \in {"value", "stuck"}
  PROVE  ValueInv'
<1>1. /\ \A i \in Instancias : Busy("CHECK_KEY_STATUS", i)' => Busy("CHECK_KEY_STATUS", i)
      /\ OneAtMost("CHECK_KEY_STATUS")'
  BY NoMoreBusy DEF ValueInv, InstanciaCommands
<1> QED
  BY <1>1 DEF ValueInv

LEMMA ValueStep ==
  ASSUME KeyInv, SocketInv, SocketInv', LineInv, CellTypes, ValueInv, Next
  PROVE  ValueInv'
<1> "CHECK_KEY_STATUS" \in InstanciaCommands /\ "DO_OPERATION" \in InstanciaCommands
  BY DEF InstanciaCommands
<1>1. ASSUME UNCHANGED <<sockets, valueSemaphore>>,
             planThread \in {"value", "stuck"} => planThread' \in {"value", "stuck"}
      PROVE  ValueInv'
  BY <1>1, SocketsAreQuiet, QuietMeansNoMore, SameValue
<1>2. ASSUME NEW i \in Instancias, InstanciaActs(i) PROVE ValueInv'
  <2>1. NoMore("CHECK_KEY_STATUS") /\ UNCHANGED planThread
    BY <1>2, InstanciaPosts, InstanciaFrame DEF lines
  <2>2. CASE UNCHANGED <<valueSemaphore, valueStatus>>
    BY <2>1, <2>2, SameValue
  <2>3. CASE /\ Busy("CHECK_KEY_STATUS", i)
             /\ valueSemaphore' = valueSemaphore + 1
             /\ OneAtMost("CHECK_KEY_STATUS")
                    => \A j \in Instancias : ~Busy("CHECK_KEY_STATUS", j)'
    <3>1. /\ valueSemaphore' = 1 /\ planThread \in {"value", "stuck"}
          /\ \A j \in Instancias : ~Busy("CHECK_KEY_STATUS", j)'
      BY <2>3 DEF ValueInv
    <3>2. OneAtMost("CHECK_KEY_STATUS")'
      BY <2>1, NoMoreBusy DEF ValueInv
    <3> QED
      BY <2>1, <3>1, <3>2 DEF ValueInv
  <2> QED
    BY <1>2, <2>2, <2>3, InstanciaPosts
<1>3. ASSUME NEW e \in Esis, EsiThread(e) PROVE ValueInv'
  <2>1. CASE EsiLocksMutex(e) \/ EsiAsksStatus(e) \/ EsiGetsResponse(e)
    BY <1>1, <2>1 DEF EsiLocksMutex, EsiAsksStatus, EsiGetsResponse, cells, sockets,
       records, mutexes, instanciaSide
  <2>2. CASE EsiActs(e)
    <3>1. /\ request[e] \in Operations
          /\ UNCHANGED <<instanciaThread, instanciasListMutex, valueSemaphore, planThread>>
      BY <2>2 DEF EsiActs, Works, LineInv, RequestsAreMade
    <3>2. CASE \E r \in {"SUCCESS", "LOCK", "BLOCK", "ABORT"} : Responds(e, r)
      BY <1>1, <3>1, <3>2 DEF Responds, NothingSent, sockets, instanciaSide
    <3>3. ASSUME NEW i \in Instancias, Commands(e, i) PROVE ValueInv'
      <4>1. /\ actualCommand' = [actualCommand EXCEPT ![i] = "DO_OPERATION"]
            /\ \/ toInstancia' = [toInstancia EXCEPT ![i] =
                                    Append(toInstancia[i], "DO_OPERATION")]
               \/ UNCHANGED toInstancia
            /\ UNCHANGED fromInstancia
        BY <3>3 DEF Commands, TryToExecute, sendUnchanged
      <4> QED
        BY <3>1, <4>1, OrderIsTheOnlyOne, SameValue
    <3> QED
      BY <2>2, <3>1, <3>2, <3>3, EsiActsOutcome
  <2> QED
    BY <1>3, <2>1, <2>2 DEF EsiThread
<1>4. ASSUME NEW e \in Esis, PlanificadorOrders(e) \/ EsiExits(e) \/ EsiDies(e)
      PROVE  ValueInv'
  BY <1>1, <1>4 DEF PlanificadorOrders, EsiExits, EsiDies, coordinadorUnchanged,
     cells, records, mutexes, threads, instanciaSide, sockets
<1>5. CASE PlanificadorActs
  <2>1. CASE AskValue
    <3>1. PICK i \in Instancias :
             /\ actualCommand' = [actualCommand EXCEPT ![i] = "CHECK_KEY_STATUS"]
             /\ \/ toInstancia' = [toInstancia EXCEPT ![i] =
                                     Append(toInstancia[i], "CHECK_KEY_STATUS")]
                \/ UNCHANGED toInstancia
      BY <2>1, ValueIsAsked
    <3>2. /\ planThread = "esis" /\ planThread' \in {"value", "stuck"}
          /\ UNCHANGED <<valueSemaphore, instanciaThread, fromInstancia>>
      BY <2>1 DEF AskValue, StatusUnchanged
    <3>3. valueSemaphore = 0 /\ \A j \in Instancias : ~Busy("CHECK_KEY_STATUS", j)
      BY <3>2 DEF ValueInv, CellTypes
    <3>4. OneAtMost("CHECK_KEY_STATUS")'
      BY <3>1, <3>2, <3>3, OrderIsTheOnlyOne
    <3> QED
      BY <3>2, <3>3, <3>4 DEF ValueInv
  <2>2. CASE GetValue
    <3>1. /\ valueSemaphore > 0 /\ valueSemaphore' = valueSemaphore - 1
          /\ UNCHANGED sockets
      BY <1>5, <2>2, PlanificadorFrame DEF GetValue, sockets
    <3>2. valueSemaphore' = 0 /\ \A j \in Instancias : ~Busy("CHECK_KEY_STATUS", j)
      BY <3>1 DEF ValueInv, CellTypes
    <3>3. NoMore("CHECK_KEY_STATUS")
      BY <3>1, SocketsAreQuiet, QuietMeansNoMore
    <3>4. OneAtMost("CHECK_KEY_STATUS")' /\ \A j \in Instancias : ~Busy("CHECK_KEY_STATUS", j)'
      BY <3>2, <3>3, NoMoreBusy DEF ValueInv
    <3> QED
      BY <3>2, <3>4 DEF ValueInv
  <2>3. CASE RespondStatusAtOnce \/ PlanReadsEsiId \/ PlanReadsKeyStatus
             \/ PlanReadsStatusRequest
    <3>1. planThread \notin {"value", "stuck"}
      BY <2>3 DEF RespondStatusAtOnce, PlanReadsEsiId, PlanReadsKeyStatus,
         PlanReadsStatusRequest, Reads
    <3>2. UNCHANGED <<sockets, valueSemaphore>>
      BY <1>5, <2>3, PlanificadorFrame DEF RespondStatusAtOnce, PlanReadsEsiId,
         PlanReadsKeyStatus, PlanReadsStatusRequest, readUnchanged, records,
         instanciaSide, sockets
    <3> QED
      BY <1>1, <3>1, <3>2
  <2>4. CASE PlanificadorAnswers \/ \E k \in Keys : StatusIsTyped(k)
    BY <1>1, <2>4 DEF PlanificadorAnswers, StatusIsTyped, coordinadorUnchanged,
       records, mutexes, cells, threads, instanciaSide, sockets
  <2> QED
    BY <1>5, <2>1, <2>2, <2>3, <2>4 DEF PlanificadorActs, PlanThread
<1> QED
  BY <1>2, <1>3, <1>4, <1>5 DEF Next, InstanciaActs, PlanificadorActs


-----------------------------------------------------------------------------
(* Compactions: what is owed to those that wait.                            *)

\* A post, an order or an answer on its way, or a fall that will be noticed.
Owed(j) ==
    compactSemaphore[j] + OnTheWay("DO_COMPACT", j)
    + (IF OnTheWay("DO_COMPACT", j) = 0 /\ Awaited("DO_COMPACT", j) THEN 1 ELSE 0)
WaitingFor(j) == {i \in Instancias : instanciaThread[i] = "compact" /\ j \in compacting[i]}
CompactInv == \A j \in Instancias : Owed(j) <= Cardinality(WaitingFor(j))

LEMMA WaitingForType ==
  ASSUME NEW j
  PROVE  IsFiniteSet(WaitingFor(j)) /\ Cardinality(WaitingFor(j)) \in Nat
<1>1. WaitingFor(j) \subseteq Instancias /\ IsFiniteSet(Instancias)
  BY DistributionAssumption DEF WaitingFor
<1>2. IsFiniteSet(WaitingFor(j))
  BY <1>1, FS_Subset
<1> QED
  BY <1>2, FS_CardinalityType

LEMMA CompactInit == Init => CompactInv
<1> SUFFICES ASSUME Init, NEW j \in Instancias
             PROVE  Owed(j) <= Cardinality(WaitingFor(j))
  BY DEF CompactInv
<1>1. OnTheWay("DO_COMPACT", j) = 0
  BY SocketInit, OnTheWayType DEF Init, InstanciaCommands
<1>2. ~Awaited("DO_COMPACT", j) /\ compactSemaphore[j] = 0
  BY DEF Init, Awaited, Serves
<1>3. Owed(j) = 0
  BY <1>1, <1>2 DEF Owed
<1> QED
  BY <1>3, WaitingForType

\* Less is owed if there is no more to come.
LEMMA OwedIsLess ==
  ASSUME SocketInv, SocketInv', CellTypes, NEW j \in Instancias,
         OnTheWay("DO_COMPACT", j)' <= OnTheWay("DO_COMPACT", j),
         Awaited("DO_COMPACT", j)' => Awaited("DO_COMPACT", j),
         UNCHANGED compactSemaphore[j]
  PROVE  Owed(j)' <= Owed(j)
<1> "DO_COMPACT" \in InstanciaCommands
  BY DEF InstanciaCommands
<1>1. OnTheWay("DO_COMPACT", j) \in Nat
  BY OnTheWayType
<1>2. (OnTheWay("DO_COMPACT", j) \in Nat)'
  BY OnTheWayTypeNext
<1> QED
  BY <1>1, <1>2 DEF Owed, CellTypes

LEMMA SameWaiting ==
  ASSUME NEW j, UNCHANGED compacting,
         \A i \in Instancias : instanciaThread'[i] = "compact" <=> instanciaThread[i] = "compact"
  PROVE  UNCHANGED WaitingFor(j)
BY DEF WaitingFor

LEMMA OwedType ==
  ASSUME SocketInv, CellTypes, NEW j \in Instancias
  PROVE  Owed(j) \in Nat
BY OnTheWayType DEF InstanciaCommands, Owed, CellTypes

LEMMA CompactIsLess ==
  ASSUME SocketInv, SocketInv', CellTypes, CellTypes', CompactInv,
         \A j \in Instancias : Owed(j)' <= Owed(j),
         UNCHANGED compacting,
         \A i \in Instancias : instanciaThread'[i] = "compact" <=> instanciaThread[i] = "compact"
  PROVE  CompactInv'
<1> SUFFICES ASSUME NEW j \in Instancias
             PROVE  (Owed(j) <= Cardinality(WaitingFor(j)))'
  BY DEF CompactInv
<1>1. Cardinality(WaitingFor(j))' = Cardinality(WaitingFor(j))
  BY SameWaiting
<1>2. Owed(j) \in Nat
  BY OwedType
<1>3. (Owed(j) \in Nat)'
  BY OwedType, PTL
<1>4. Owed(j)' <= Owed(j) /\ Owed(j) <= Cardinality(WaitingFor(j))
  BY DEF CompactInv
<1> QED
  BY <1>1, <1>2, <1>3, <1>4, WaitingForType

LEMMA CompactIsQuiet ==
  ASSUME SocketInv, SocketInv', CellTypes, CellTypes', CompactInv,
         NoMore("DO_COMPACT"), UNCHANGED <<compactSemaphore, compacting>>,
         \A i \in Instancias : instanciaThread'[i] = "compact" <=> instanciaThread[i] = "compact"
  PROVE  CompactInv'
<1>1. ASSUME NEW j \in Instancias PROVE Owed(j)' <= Owed(j)
  BY OwedIsLess DEF NoMore
<1> QED
  BY <1>1, CompactIsLess

LEMMA CompactStepInstancia ==
  ASSUME KeyInv, SocketInv, SocketInv', CellTypes, CellTypes', CompactInv,
         NEW i \in Instancias, InstanciaActs(i)
  PROVE  CompactInv'
<1> "DO_COMPACT" \in InstanciaCommands
  BY DEF InstanciaCommands
<1>0. /\ instanciaThread \in [Instancias -> {"none", "starting", "loop", "compact"}]
      /\ compactSemaphore \in [Instancias -> Nat]
      /\ compacting \in [Instancias -> SUBSET Instancias]
  BY DEF SocketInv, SocketTypes, CellTypes
<1>1. CASE Process(i) \/ InstanciaDies(i)
  <2>1. UNCHANGED <<compactSemaphore, compacting, instanciaThread>>
    BY <1>1 DEF Process, InstanciaOperates, InstanciaAsksCompaction, InstanciaCompacts,
       InstanciaChecksKey, Answers, InstanciaDies, processUnchanged, cells, threads
  <2> QED
    BY <1>1, <2>1, ProcessIsQuiet, ComingIsQuiet, QuietMeansNoMore, CompactIsQuiet
<1>2. CASE InstanciaArrives(i) \/ InstanciaIsReady(i) \/ InstanciaIsLost(i)
  <2>1. /\ UNCHANGED <<compactSemaphore, compacting>>
        /\ \A j \in Instancias : instanciaThread'[j] = "compact" <=> instanciaThread[j] = "compact"
    BY <1>0, <1>2 DEF InstanciaArrives, InstanciaIsReady, InstanciaIsLost, startUnchanged, cells
  <2> QED
    BY <1>2, <2>1, ComingIsQuiet, QuietMeansNoMore, CompactIsQuiet
<1>3. CASE HandleSuccess(i) \/ HandleFailed(i) \/ HandleValue(i)
  <2>1. PICK m \in FromInstancia : Receives(i, m)
    BY <1>3 DEF HandleSuccess, HandleFailed, HandleValue, FromInstancia
  <2>2. /\ CommandIsOver(i)
        /\ UNCHANGED <<compactSemaphore, compacting, instanciaThread, toInstancia>>
    BY <1>3 DEF HandleSuccess, HandleFailed, HandleValue
  <2> QED
    BY <2>1, <2>2, AnswerIsTheOnlyOne, CompactIsQuiet
<1>4. CASE HandleDidCompact(i)
  <2>1. /\ Receives(i, "DID_COMPACT") /\ CommandIsOver(i)
        /\ UNCHANGED <<compacting, instanciaThread, toInstancia>>
        /\ compactSemaphore' = [compactSemaphore EXCEPT ![i] = @ + 1]
    BY <1>4 DEF HandleDidCompact
  <2>2. "DID_COMPACT" \in FromInstancia /\ "DID_COMPACT" \in AnswersTo("DO_COMPACT")
    BY DEF FromInstancia, AnswersTo
  <2>3. ASSUME NEW j \in Instancias PROVE Owed(j)' <= Owed(j)
    <3>1. /\ j = i => OnTheWay("DO_COMPACT", j) = OnTheWay("DO_COMPACT", j)' + 1
          /\ j # i => OnTheWay("DO_COMPACT", j) = OnTheWay("DO_COMPACT", j)'
          /\ OnTheWay("DO_COMPACT", j)' \in Nat
          /\ Awaited("DO_COMPACT", j)' <=> Awaited("DO_COMPACT", j) /\ j # i
      <4>1. UNCHANGED toInstancia[j]
        BY <2>1
      <4> QED
        BY <2>1, <2>2, <4>1, AnswerIsTaken, CommandEnds
    <3>2. CASE j = i
      <4>1. compactSemaphore'[j] = compactSemaphore[j] + 1 /\ compactSemaphore[j] \in Nat
        BY <1>0, <2>1, <3>2
      <4> QED
        BY <3>1, <3>2, <4>1 DEF Owed
    <3>3. CASE j # i
      <4>1. UNCHANGED compactSemaphore[j]
        BY <1>0, <2>1, <3>3
      <4> QED
        BY <3>1, <3>3, <4>1, OwedIsLess
    <3> QED
      BY <3>2, <3>3
  <2> QED
    BY <2>1, <2>3, CompactIsLess
<1>5. CASE HandleCompactRequest(i)
  <2> DEFINE others == AliveInstancias \ {i}
  <2>1. /\ instanciaThread[i] = "loop"
        /\ instanciaThread' = [instanciaThread EXCEPT ![i] = "compact"]
        /\ compacting' = [compacting EXCEPT ![i] = others]
        /\ UNCHANGED compactSemaphore
    BY <1>5 DEF HandleCompactRequest, Receives
  <2> SUFFICES ASSUME NEW j \in Instancias
               PROVE  (Owed(j) <= Cardinality(WaitingFor(j)))'
    BY DEF CompactInv
  <2>2. /\ OnTheWay("DO_COMPACT", j)' \in Nat /\ OnTheWay("DO_COMPACT", j) \in Nat
        /\ j \notin others => OnTheWay("DO_COMPACT", j)' = OnTheWay("DO_COMPACT", j)
                              /\ (Awaited("DO_COMPACT", j)' => Awaited("DO_COMPACT", j))
        /\ \/ OnTheWay("DO_COMPACT", j)' = OnTheWay("DO_COMPACT", j)
           \/ OnTheWay("DO_COMPACT", j)' = OnTheWay("DO_COMPACT", j) + 1
    BY <1>5, CompactionIsAsked, OnTheWayType
  <2>3. compactSemaphore[j] \in Nat /\ UNCHANGED compactSemaphore[j]
    BY <1>0, <2>1
  <2> HIDE DEF others
  <2>4. Owed(j)' <= Owed(j) + (IF j \in others THEN 1 ELSE 0) /\ Owed(j) \in Nat
    BY <2>2, <2>3 DEF Owed
  <2>5. i \notin WaitingFor(j)
    BY <2>1 DEF WaitingFor
  <2>6. WaitingFor(j)' = IF j \in others THEN WaitingFor(j) \union {i} ELSE WaitingFor(j)
    <3>1. ASSUME NEW h \in Instancias
          PROVE  h \in WaitingFor(j)' <=> (h \in WaitingFor(j) \/ (h = i /\ j \in others))
      BY <1>0, <2>1 DEF WaitingFor
    <3>2. WaitingFor(j) \subseteq Instancias /\ WaitingFor(j)' \subseteq Instancias
      BY DEF WaitingFor
    <3>3. CASE j \in others
      BY <3>1, <3>2, <3>3
    <3>4. CASE j \notin others
      <4>1. \A h : h \in WaitingFor(j)' <=> h \in WaitingFor(j)
        BY <3>1, <3>2, <3>4
      <4> QED
        BY <3>4, <4>1
    <3> QED
      BY <3>3, <3>4
  <2>7. Cardinality(WaitingFor(j) \union {i}) = Cardinality(WaitingFor(j)) + 1
    BY <2>5, WaitingForType, FS_AddElement
  <2>8. Owed(j) <= Cardinality(WaitingFor(j)) /\ Cardinality(WaitingFor(j)) \in Nat
    BY WaitingForType DEF CompactInv
  <2>9. (Owed(j) \in Nat)'
    BY OwedType, PTL
  <2>10. Cardinality(WaitingFor(j))' = Cardinality(WaitingFor(j)')
    OBVIOUS
  <2> QED
    BY <2>4, <2>6, <2>7, <2>8, <2>9, <2>10
<1>6. CASE CompactionEnds(i)
  <2>1. /\ instanciaThread[i] = "compact"
        /\ instanciaThread' = [instanciaThread EXCEPT ![i] = "loop"]
        /\ compacting' = [compacting EXCEPT ![i] = {}]
        /\ UNCHANGED <<toInstancia, fromInstancia, actualCommand>>
    BY <1>6 DEF CompactionEnds, instanciaSide, records
  <2> SUFFICES ASSUME NEW j \in Instancias
               PROVE  (Owed(j) <= Cardinality(WaitingFor(j)))'
    BY DEF CompactInv
  <2>2. UNCHANGED OnTheWay("DO_COMPACT", j) /\ OnTheWay("DO_COMPACT", j) \in Nat
    BY <2>1, SameOnTheWay, OnTheWayType
  <2>3. Awaited("DO_COMPACT", j)' <=> Awaited("DO_COMPACT", j)
    BY <1>0, <2>1 DEF Awaited, Serves
  <2>4. /\ compactSemaphore[j] \in Nat
        /\ j \in compacting[i] => compactSemaphore[j] > 0
                                  /\ compactSemaphore'[j] = compactSemaphore[j] - 1
        /\ j \notin compacting[i] => UNCHANGED compactSemaphore[j]
    BY <1>0, <1>6 DEF CompactionEnds
  <2>5. /\ j \in compacting[i] => Owed(j)' = Owed(j) - 1
        /\ j \notin compacting[i] => Owed(j)' = Owed(j)
        /\ Owed(j) \in Nat
    BY <2>2, <2>3, <2>4 DEF Owed
  <2>6. WaitingFor(j)' = WaitingFor(j) \ {i} /\ (i \in WaitingFor(j) <=> j \in compacting[i])
    <3>1. ASSUME NEW h \in Instancias
          PROVE  h \in WaitingFor(j)' <=> (h \in WaitingFor(j) /\ h # i)
      BY <1>0, <2>1 DEF WaitingFor
    <3>2. WaitingFor(j) \subseteq Instancias /\ WaitingFor(j)' \subseteq Instancias
      BY DEF WaitingFor
    <3>3. i \in WaitingFor(j) <=> j \in compacting[i]
      BY <2>1 DEF WaitingFor
    <3> QED
      BY <3>1, <3>2, <3>3
  <2>7. Cardinality(WaitingFor(j) \ {i}) =
            IF i \in WaitingFor(j) THEN Cardinality(WaitingFor(j)) - 1
                                   ELSE Cardinality(WaitingFor(j))
    BY WaitingForType, FS_RemoveElement
  <2>8. Owed(j) <= Cardinality(WaitingFor(j)) /\ Cardinality(WaitingFor(j)) \in Nat
    BY WaitingForType DEF CompactInv
  <2>9. Cardinality(WaitingFor(j))' = Cardinality(WaitingFor(j)')
    OBVIOUS
  <2> QED
    BY <2>5, <2>6, <2>7, <2>8, <2>9
<1>7. CASE InstanciaExits(i)
  <2>1. /\ instanciaThread[i] = "loop"
        /\ instanciaThread' = [instanciaThread EXCEPT ![i] = "none"]
        /\ UNCHANGED compacting
    BY <1>7 DEF InstanciaExits
  <2>2. \A j \in Instancias : instanciaThread'[j] = "compact" <=> instanciaThread[j] = "compact"
    BY <1>0, <2>1
  <2>3. NoMore("DO_COMPACT")
    BY <1>7, FallIsTheOnlyAnswer
  <2>4. CASE actualCommand[i] # "DO_COMPACT"
    <3>1. UNCHANGED compactSemaphore
      BY <1>7, <2>4 DEF InstanciaExits, ExitGracefullyTells
    <3> QED
      BY <2>1, <2>2, <2>3, <3>1, CompactIsQuiet
  <2>5. CASE actualCommand[i] = "DO_COMPACT"
    <3>1. compactSemaphore' = [compactSemaphore EXCEPT ![i] = @ + 1]
      BY <1>7, <2>5 DEF InstanciaExits, ExitGracefullyTells
    <3>2. ASSUME NEW j \in Instancias PROVE Owed(j)' <= Owed(j)
      <4>1. /\ OnTheWay("DO_COMPACT", j)' = OnTheWay("DO_COMPACT", j)
            /\ OnTheWay("DO_COMPACT", j) \in Nat
            /\ OnTheWay("DO_COMPACT", i) = 0
            /\ Awaited("DO_COMPACT", j)' <=> Awaited("DO_COMPACT", j) /\ j # i
            /\ Awaited("DO_COMPACT", i)
        BY <1>7, <2>5, ThreadEnds
      <4>2. CASE j = i
        <5>1. compactSemaphore'[j] = compactSemaphore[j] + 1 /\ compactSemaphore[j] \in Nat
          BY <1>0, <3>1, <4>2
        <5> QED
          BY <4>1, <4>2, <5>1 DEF Owed
      <4>3. CASE j # i
        <5>1. UNCHANGED compactSemaphore[j]
          BY <1>0, <3>1, <4>3
        <5> QED
          BY <4>1, <4>3, <5>1, OwedIsLess
      <4> QED
        BY <4>2, <4>3
    <3> QED
      BY <2>1, <2>2, <3>2, CompactIsLess
  <2> QED
    BY <2>4, <2>5
<1> QED
  BY <1>1, <1>2, <1>3, <1>4, <1>5, <1>6, <1>7 DEF InstanciaActs, InstanciaThread

LEMMA CompactStep ==
  ASSUME KeyInv, SocketInv, SocketInv', LineInv, CellTypes, CellTypes', CompactInv, Next
  PROVE  CompactInv'
<1> "DO_COMPACT" \in InstanciaCommands
  BY DEF InstanciaCommands
<1>1. ASSUME UNCHANGED <<sockets, compactSemaphore, compacting>> PROVE CompactInv'
  BY <1>1, SocketsAreQuiet, QuietMeansNoMore, CompactIsQuiet DEF sockets
<1>2. ASSUME NEW i \in Instancias, NEW d \in {"DO_OPERATION", "CHECK_KEY_STATUS"},
             actualCommand' = [actualCommand EXCEPT ![i] = d],
             \/ toInstancia' = [toInstancia EXCEPT ![i] = Append(toInstancia[i], d)]
             \/ UNCHANGED toInstancia,
             UNCHANGED <<instanciaThread, fromInstancia, compactSemaphore, compacting>>
      PROVE  CompactInv'
  BY <1>2, OrderIsTheOnlyOne, CompactIsQuiet DEF InstanciaCommands
<1>3. ASSUME NEW e \in Esis, EsiThread(e) PROVE CompactInv'
  <2>1. CASE EsiLocksMutex(e) \/ EsiAsksStatus(e) \/ EsiGetsResponse(e)
    BY <1>1, <2>1 DEF EsiLocksMutex, EsiAsksStatus, EsiGetsResponse, cells, sockets,
       records, mutexes, instanciaSide
  <2>2. CASE EsiActs(e)
    <3>1. /\ request[e] \in Operations
          /\ UNCHANGED <<instanciaThread, instanciasListMutex, compactSemaphore, compacting>>
      BY <2>2 DEF EsiActs, Works, LineInv, RequestsAreMade
    <3>2. CASE \E r \in {"SUCCESS", "LOCK", "BLOCK", "ABORT"} : Responds(e, r)
      BY <1>1, <3>1, <3>2 DEF Responds, NothingSent, sockets, instanciaSide
    <3>3. ASSUME NEW i \in Instancias, Commands(e, i) PROVE CompactInv'
      <4>1. /\ actualCommand' = [actualCommand EXCEPT ![i] = "DO_OPERATION"]
            /\ \/ toInstancia' = [toInstancia EXCEPT ![i] =
                                    Append(toInstancia[i], "DO_OPERATION")]
               \/ UNCHANGED toInstancia
            /\ UNCHANGED fromInstancia
        BY <3>3 DEF Commands, TryToExecute, sendUnchanged
      <4> QED
        BY <1>2, <3>1, <4>1
    <3> QED
      BY <2>2, <3>1, <3>2, <3>3, EsiActsOutcome
  <2> QED
    BY <1>3, <2>1, <2>2 DEF EsiThread
<1>4. ASSUME NEW e \in Esis, PlanificadorOrders(e) \/ EsiExits(e) \/ EsiDies(e)
      PROVE  CompactInv'
  BY <1>1, <1>4 DEF PlanificadorOrders, EsiExits, EsiDies, coordinadorUnchanged,
     cells, records, mutexes, threads, instanciaSide, sockets
<1>5. CASE PlanificadorActs
  <2>1. UNCHANGED <<instanciaThread, process, fromInstancia, compactSemaphore, compacting>>
    BY <1>5, PlanificadorFrame
  <2>2. CASE AskValue
    <3>1. PICK i \in Instancias :
             /\ actualCommand' = [actualCommand EXCEPT ![i] = "CHECK_KEY_STATUS"]
             /\ \/ toInstancia' = [toInstancia EXCEPT ![i] =
                                     Append(toInstancia[i], "CHECK_KEY_STATUS")]
                \/ UNCHANGED toInstancia
      BY <2>2, ValueIsAsked
    <3> QED
      BY <1>2, <2>1, <3>1
  <2>3. CASE ~AskValue
    <3>1. UNCHANGED <<actualCommand, toInstancia, instanciasListMutex>>
      BY <1>5, <2>3 DEF PlanificadorActs, PlanThread, PlanReadsEsiId, PlanReadsKeyStatus,
         PlanReadsStatusRequest, readUnchanged, RespondStatusAtOnce, GetValue,
         PlanificadorAnswers, StatusIsTyped, coordinadorUnchanged, records, mutexes,
         instanciaSide
    <3> QED
      BY <1>1, <2>1, <3>1 DEF sockets
  <2> QED
    BY <2>2, <2>3
<1> QED
  BY <1>3, <1>4, <1>5, CompactStepInstancia DEF Next, InstanciaActs, PlanificadorActs


-----------------------------------------------------------------------------
(* The keys that are set.                                                   *)

\* The planificador's note of who holds a key, and the history of who set it.
SetAreHeld == \A k \in Keys : setBy[k] # NoEsi => holder[k] = setBy[k]
\* The line of an ESI that died is not about a key that another one has set.
DeadSetNothing ==
    \A e \in Esis : Works(e) /\ turnOf # e => setBy[request[e].key] = NoEsi
WaiterHolds ==
    \A e \in Esis : esiThread[e] = "response" /\ turnOf = e
                        => holder[request[e].key] = e
Recorded(k) == \E i \in Instancias : k \in storedKeys[i]
WaiterIsRecorded ==
    \A e \in Esis : esiThread[e] = "response" /\ turnOf = e
                        => Recorded(request[e].key) \/ IsTold(e, "FAILED")
SetAreRecorded ==
    \A k \in Keys : setBy[k] # NoEsi => Recorded(k) \/ IsTold(setBy[k], "FAILED")
KnownInv ==
    /\ SetAreHeld /\ DeadSetNothing /\ WaiterHolds
    /\ ~sendFailed => WaiterIsRecorded /\ SetAreRecorded

LEMMA KnownInit == Init => KnownInv
BY CoordinadorAssumption DEF Init, KnownInv, SetAreHeld, DeadSetNothing, WaiterHolds,
   WaiterIsRecorded, SetAreRecorded, Works

LEMMA RecordedMeansOwned ==
  ASSUME KeyInv, NEW k
  PROVE  Owners(k) # {} <=> Recorded(k)
BY KnownType DEF KeyInv, StoredAreKnown, Owners, Recorded

\* Nothing is forgotten and nobody goes on to wait.
LEMMA SameKnown ==
  ASSUME KnownInv, LineInv,
         UNCHANGED <<holder, setBy, turnOf, sendFailed>>,
         \A e \in Esis : Works(e)' => UNCHANGED request[e] /\ (Works(e) \/ turnOf = e),
         \A e \in Esis : esiThread'[e] = "response" <=> esiThread[e] = "response",
         \A k \in Keys : Recorded(k) => Recorded(k)',
         ~sendFailed => \A e \in Esis : IsTold(e, "FAILED") => IsTold(e, "FAILED")'
  PROVE  KnownInv'
<1>1. SetAreHeld'
  BY DEF KnownInv, SetAreHeld
<1>2. DeadSetNothing'
  BY DEF KnownInv, DeadSetNothing
<1>3. WaiterHolds'
  BY DEF KnownInv, WaiterHolds, Works
<1>4. ASSUME ~sendFailed' PROVE WaiterIsRecorded' /\ SetAreRecorded'
  <2>1. WaiterIsRecorded /\ SetAreRecorded /\ ~sendFailed
    BY <1>4 DEF KnownInv
  <2>2. ASSUME NEW e \in Esis, esiThread'[e] = "response", turnOf' = e
        PROVE  (Recorded(request[e].key) \/ IsTold(e, "FAILED"))'
    <3>1. esiThread[e] = "response" /\ turnOf = e /\ request'[e] = request[e]
      BY <2>2 DEF Works
    <3>2. PICK k \in Keys : k = request[e].key
      BY <3>1 DEF LineInv, RequestsAreMade, Works, Operations
    <3>3. Recorded(k) \/ IsTold(e, "FAILED")
      BY <2>1, <3>1, <3>2 DEF WaiterIsRecorded
    <3>4. CASE Recorded(k)
      <4>1. Recorded(k)'
        BY <3>4
      <4> QED
        BY <3>1, <3>2, <4>1 DEF Recorded
    <3> QED
      BY <2>1, <3>3, <3>4
  <2>3. SetAreRecorded'
    BY <2>1 DEF SetAreRecorded, LineInv, LineTypes
  <2> QED
    BY <2>2, <2>3 DEF WaiterIsRecorded
<1> QED
  BY <1>1, <1>2, <1>3, <1>4 DEF KnownInv


\* After an ABORT an ESI has nothing.
LEMMA AbortNote ==
  ASSUME LineTypes, NEW e \in Esis
  PROVE  /\ HolderAfter(e, "ABORT") =
                [k \in Keys |-> IF holder[k] = e THEN NoEsi ELSE holder[k]]
         /\ SetByAfter(e, "ABORT") =
                [k \in Keys |-> IF setBy[k] = e THEN NoEsi ELSE setBy[k]]
BY DEF HolderAfter, SetByAfter

\* A line ends: nobody waits, and the planificador takes note.
LEMMA KnownResponse ==
  ASSUME KnownInv, LineInv, LineInv', NEW e \in Esis, Works(e), NEW r \in Replies,
         SendResponseToEsi(e, r),
         turnOf = e /\ r = "LOCK" => holder[request[e].key] = NoEsi,
         turnOf = e /\ r = "SUCCESS" /\ request[e].code = "SET"
            => holder[request[e].key] = e,
         ~sendFailed' => \A k \in Keys : setBy'[k] # NoEsi => Recorded(k)'
  PROVE  KnownInv'
<1>1. LineTypes /\ request[e] \in Operations
  BY DEF LineInv, RequestsAreMade
<1>2. \A f \in Esis : ~Works(f)' /\ esiThread'[f] # "response"
  <2>1. esisMutex' = NoThread
    BY DEF SendResponseToEsi
  <2> QED
    BY <2>1, CoordinadorAssumption DEF LineInv, WorkerHoldsMutex, Works
<1>3. PICK heard \in Replies : heard = IF turnOf = e THEN r ELSE "ABORT"
  BY DEF Replies
<1>4. holder' = HolderAfter(e, heard) /\ setBy' = SetByAfter(e, heard)
  BY <1>3 DEF SendResponseToEsi
<1>5. PICK k0 \in Keys : k0 = request[e].key
  BY <1>1 DEF Operations
<1>6. SetAreHeld'
  <2> SUFFICES ASSUME NEW k \in Keys, setBy'[k] # NoEsi
               PROVE  holder'[k] = setBy'[k]
    BY DEF SetAreHeld
  <2>0. setBy[k] # NoEsi => holder[k] = setBy[k]
    BY DEF KnownInv, SetAreHeld
  <2>1. CASE heard = "ABORT"
    BY <1>1, <1>4, <2>0, <2>1, AbortNote
  <2>2. CASE heard = "LOCK"
    <3>1. holder[k0] = NoEsi
      BY <1>3, <1>5, <2>2
    <3>2. setBy'[k] = setBy[k] /\ holder'[k] = IF k = k0 THEN e ELSE holder[k]
      BY <1>4, <1>5, <2>2 DEF HolderAfter, SetByAfter
    <3> QED
      BY <2>0, <3>1, <3>2
  <2>3. CASE heard = "SUCCESS"
    <3>1. holder'[k] = holder[k]
      BY <1>4, <2>3 DEF HolderAfter
    <3>2. CASE request[e] = [code |-> "SET", key |-> k]
      <4>1. request[e].code = "SET" /\ request[e].key = k
        BY <3>2
      <4>2. turnOf = e /\ r = "SUCCESS"
        BY <1>3, <2>3
      <4>3. setBy'[k] = e
        BY <1>4, <2>3, <3>2 DEF SetByAfter
      <4> QED
        BY <3>1, <4>1, <4>2, <4>3
    <3>3. CASE request[e] # [code |-> "SET", key |-> k]
      <4>1. setBy'[k] = setBy[k]
        BY <1>4, <2>3, <3>3 DEF SetByAfter
      <4> QED
        BY <2>0, <3>1, <4>1
    <3> QED
      BY <3>2, <3>3
  <2>4. CASE heard = "FREE"
    <3>1. /\ setBy'[k] = IF k = k0 THEN NoEsi ELSE setBy[k]
          /\ holder'[k] = IF k = k0 THEN NoEsi ELSE holder[k]
      BY <1>4, <1>5, <2>4 DEF HolderAfter, SetByAfter
    <3> QED
      BY <2>0, <3>1
  <2>5. CASE heard = "BLOCK"
    BY <1>4, <2>0, <2>5 DEF HolderAfter, SetByAfter
  <2> QED
    BY <1>3, <2>1, <2>2, <2>3, <2>4, <2>5 DEF Replies
<1>7. DeadSetNothing' /\ WaiterHolds' /\ WaiterIsRecorded'
  BY <1>2 DEF DeadSetNothing, WaiterHolds, WaiterIsRecorded
<1>8. ~sendFailed' => SetAreRecorded'
  BY DEF SetAreRecorded
<1> QED
  BY <1>6, <1>7, <1>8 DEF KnownInv

LEMMA KnownStepEsi ==
  ASSUME KeyInv, LineInv, LineInv', QuestionInv, KnownInv, NEW e \in Esis, EsiThread(e)
  PROVE  KnownInv'
<1>0. /\ esiThread \in [Esis -> {"idle", "id", "status", "response", "over"}]
      /\ storedKeys \in [Instancias -> SUBSET Keys]
      /\ LineTypes
  BY DEF LineInv, LineTypes, KeyInv, StoredAreKnown
<1>1. ASSUME Works(e) PROVE \A f \in Esis : f # e => ~Works(f)
  BY <1>1 DEF LineInv, WorkerHoldsMutex
<1>2. CASE EsiLocksMutex(e) \/ EsiAsksStatus(e)
  <2>1. /\ UNCHANGED <<holder, setBy, turnOf, sendFailed, request, storedKeys>>
        /\ UNCHANGED <<instanciaResponse, responseStatus>>
    BY <1>2 DEF EsiLocksMutex, EsiAsksStatus, esiSide, histories, records, cells
  <2>2. \A f \in Esis : /\ esiThread'[f] = "response" <=> esiThread[f] = "response"
                        /\ Works(f)' => Works(f) \/ turnOf = f
    BY <1>0, <1>2 DEF EsiLocksMutex, EsiAsksStatus, Works, HasRequest
  <2>3. \A k \in Keys : Recorded(k) => Recorded(k)'
    BY <2>1 DEF Recorded
  <2>4. \A f \in Esis : IsTold(f, "FAILED") => IsTold(f, "FAILED")'
    BY <2>1, <2>2 DEF IsTold
  <2> QED
    BY <2>1, <2>2, <2>3, <2>4, SameKnown
<1>3. CASE EsiActs(e)
  <2>1. /\ Works(e) /\ esiThread[e] = "status" /\ request[e] \in Operations
        /\ keyStatusSemaphore > 0
        /\ UNCHANGED <<instanciaResponse, responseStatus>>
    BY <1>3 DEF EsiActs, Works, LineInv, RequestsAreMade
  <2>2. PICK k0 \in Keys : k0 = request[e].key
    BY <2>1 DEF Operations
  <2>3. turnOf = e => keyStatus = StatusIn(k0)
    BY <2>1, <2>2 DEF QuestionInv, StatusIsTrue
  <2>4. \A f \in Esis : esiThread[f] # "response"
    BY <1>1, <2>1 DEF Works
  \* What is set by others stays recorded when a key is forgotten.
  <2>5. ASSUME NEW r \in {"SUCCESS", "LOCK", "BLOCK", "ABORT"}, Responds(e, r)
        PROVE  KnownInv'
    <3>1. /\ SendResponseToEsi(e, r) /\ UNCHANGED sendFailed
          /\ r = "SUCCESS" => request[e].code = "GET"
          /\ r = "LOCK" => keyStatus \notin {"BLOCKED", "LOCKED"}
          /\ \/ UNCHANGED storedKeys
             \/ r = "ABORT" /\ keyStatus # "BLOCKED" /\ RemoveKey(k0, LookForKey(k0))
      BY <2>2, <2>5 DEF Responds, NothingSent, histories
    <3>2. turnOf = e /\ r = "LOCK" => holder[k0] = NoEsi
      BY <2>3, <3>1 DEF StatusIn
    <3>3. ASSUME ~sendFailed', NEW k \in Keys, setBy'[k] # NoEsi
          PROVE  Recorded(k)'
      <4>1. /\ setBy[k] # NoEsi /\ setBy[k] \in Esis
            /\ turnOf # e \/ r = "ABORT" => setBy[k] # e
        <5>1. CASE turnOf # e \/ r = "ABORT"
          <6>1. setBy' = SetByAfter(e, "ABORT")
            BY <3>1, <5>1 DEF SendResponseToEsi
          <6>2. setBy'[k] = IF setBy[k] = e THEN NoEsi ELSE setBy[k]
            BY <1>0, <6>1, AbortNote
          <6> QED
            BY <1>0, <3>3, <6>2 DEF LineTypes
        <5>2. CASE turnOf = e /\ r # "ABORT"
          <6>1. setBy' = SetByAfter(e, r)
            BY <3>1, <5>2 DEF SendResponseToEsi
          <6>2. r = "SUCCESS" => request[e] # [code |-> "SET", key |-> k]
            BY <3>1
          <6>3. setBy'[k] = setBy[k]
            BY <2>5, <5>2, <6>1, <6>2 DEF SetByAfter
          <6> QED
            BY <1>0, <3>3, <5>2, <6>3 DEF LineTypes
        <5> QED
          BY <5>1, <5>2
      <4>2. Recorded(k)
        BY <2>4, <3>1, <3>3, <4>1 DEF KnownInv, SetAreRecorded, IsTold
      <4>3. CASE UNCHANGED storedKeys
        BY <4>2, <4>3 DEF Recorded
      <4>4. CASE r = "ABORT" /\ keyStatus # "BLOCKED" /\ RemoveKey(k0, LookForKey(k0))
        <5>1. k # k0
          <6> SUFFICES ASSUME k = k0 PROVE FALSE
            OBVIOUS
          <6>1. turnOf = e
            BY <2>1, <2>2, <4>1 DEF KnownInv, DeadSetNothing
          <6>2. holder[k0] = setBy[k0] /\ holder[k0] # e /\ holder[k0] # NoEsi
            BY <4>1, <4>4 DEF KnownInv, SetAreHeld
          <6>3. StatusIn(k0) = "BLOCKED"
            BY <6>1, <6>2 DEF StatusIn
          <6> QED
            BY <2>3, <4>4, <6>1, <6>3
        <5>2. \A i \in Instancias : k \in storedKeys[i] => k \in storedKeys'[i]
          BY <1>0, <4>4, <5>1 DEF RemoveKey
        <5> QED
          BY <4>2, <5>2 DEF Recorded
      <4> QED
        BY <3>1, <4>3, <4>4
    <3>4. turnOf = e /\ r = "SUCCESS" /\ request[e].code = "SET" => holder[k0] = e
      BY <3>1
    <3>5. r \in Replies
      BY <2>5 DEF Replies
    <3> QED
      BY <2>1, <2>2, <3>1, <3>2, <3>3, <3>4, <3>5, KnownResponse
  <2>6. ASSUME NEW i \in Instancias, Commands(e, i) PROVE KnownInv'
    <3>1. CASE SendResponseToEsi(e, "ABORT") /\ sendFailed' = TRUE
      BY <2>1, <3>1, KnownResponse DEF Replies
    <3>2. CASE esiThread' = [esiThread EXCEPT ![e] = "response"]
               /\ UNCHANGED <<esisMutex, esiSide, sendFailed>>
      <4>1. /\ UNCHANGED <<request, turnOf, holder, setBy, sendFailed>>
            /\ keyStatus = "LOCKED" /\ k0 \in storedKeys'[i]
            /\ \A j \in Instancias : storedKeys[j] \subseteq storedKeys'[j]
        BY <2>2, <2>6, <3>2 DEF Commands, esiSide
      <4>2. \A f \in Esis : /\ esiThread'[f] = "response" <=> f = e
                            /\ Works(f)' <=> Works(f)
        BY <1>0, <2>1, <2>4, <3>2 DEF Works
      <4>3. turnOf = e => holder[k0] = e
        BY <2>3, <4>1 DEF StatusIn
      <4>4. SetAreHeld' /\ DeadSetNothing'
        BY <4>1, <4>2 DEF KnownInv, SetAreHeld, DeadSetNothing
      <4>5. WaiterHolds'
        BY <2>2, <4>1, <4>2, <4>3 DEF WaiterHolds
      <4>6. Recorded(k0)' /\ \A k \in Keys : Recorded(k) => Recorded(k)'
        BY <4>1 DEF Recorded
      <4>7. WaiterIsRecorded'
        BY <2>2, <4>1, <4>2, <4>6 DEF WaiterIsRecorded, Recorded
      <4>8. ~sendFailed' => SetAreRecorded'
        BY <1>0, <2>4, <4>1, <4>6 DEF KnownInv, SetAreRecorded, IsTold, LineTypes
      <4> QED
        BY <4>4, <4>5, <4>7, <4>8 DEF KnownInv
    <3> QED
      BY <2>6, <3>1, <3>2 DEF Commands, TryToExecute
  <2> QED
    BY <1>3, <2>1, <2>5, <2>6, EsiActsOutcome
<1>4. CASE EsiGetsResponse(e)
  <2>1. /\ Works(e) /\ esiThread[e] = "response" /\ request[e] \in Operations
        /\ UNCHANGED <<storedKeys, sendFailed>>
    BY <1>4 DEF EsiGetsResponse, Works, LineInv, RequestsAreMade, records, histories
  <2>2. PICK k0 \in Keys : k0 = request[e].key
    BY <2>1 DEF Operations
  <2>3. PICK r \in {"ABORT", "SUCCESS", "FREE"} :
            /\ SendResponseToEsi(e, r)
            /\ r = "ABORT" <=> responseStatus # "SUCCESS"
            /\ r = "SUCCESS" => request[e].code = "SET"
    <3>1. PICK r : /\ r = IF responseStatus # "SUCCESS" THEN "ABORT"
                         ELSE IF request[e].code = "SET" THEN "SUCCESS"
                         ELSE "FREE"
                   /\ SendResponseToEsi(e, r)
      BY <1>4 DEF EsiGetsResponse
    <3> QED
      BY <3>1
  <2>4. turnOf = e => holder[k0] = e
    BY <2>1, <2>2 DEF KnownInv, WaiterHolds
  <2>5. \A f \in Esis : f # e => ~IsTold(f, "FAILED")
    BY <1>1, <2>1 DEF IsTold, Works
  <2>6. r # "ABORT" => ~IsTold(e, "FAILED")
    BY <2>3 DEF IsTold
  <2>7. ASSUME ~sendFailed', NEW k \in Keys, setBy'[k] # NoEsi
        PROVE  Recorded(k)'
    <3>0. WaiterIsRecorded /\ SetAreRecorded
      BY <2>1, <2>7 DEF KnownInv
    <3>1. CASE turnOf # e \/ r = "ABORT"
      <4>1. setBy' = SetByAfter(e, "ABORT")
        BY <2>3, <3>1 DEF SendResponseToEsi
      <4>2. setBy'[k] = IF setBy[k] = e THEN NoEsi ELSE setBy[k]
        BY <1>0, <4>1, AbortNote
      <4>3. setBy[k] # NoEsi /\ setBy[k] # e /\ setBy[k] \in Esis
        BY <1>0, <2>7, <4>2 DEF LineTypes
      <4>4. Recorded(k)
        BY <2>5, <3>0, <4>3 DEF SetAreRecorded
      <4> QED
        BY <2>1, <4>4 DEF Recorded
    <3>2. CASE turnOf = e /\ r # "ABORT"
      <4>1. setBy' = SetByAfter(e, r)
        BY <2>3, <3>2 DEF SendResponseToEsi
      <4>2. CASE k = k0
        <5>1. Recorded(k0)
          BY <2>1, <2>2, <2>6, <3>0, <3>2 DEF WaiterIsRecorded
        <5> QED
          BY <2>1, <4>2, <5>1 DEF Recorded
      <4>3. CASE k # k0
        <5>1. request[e] # [code |-> "SET", key |-> k]
          BY <2>2, <4>3
        <5>2. setBy'[k] = setBy[k]
          BY <2>2, <2>3, <3>2, <4>1, <4>3, <5>1 DEF SetByAfter
        <5>3. Recorded(k)
          BY <1>0, <2>5, <2>6, <2>7, <3>0, <3>2, <5>2 DEF SetAreRecorded, LineTypes
        <5> QED
          BY <2>1, <5>3 DEF Recorded
      <4> QED
        BY <4>2, <4>3
    <3> QED
      BY <3>1, <3>2
  <2> QED
    BY <2>1, <2>2, <2>3, <2>4, <2>7, KnownResponse DEF Replies
<1> QED
  BY <1>2, <1>3, <1>4 DEF EsiThread

LEMMA KnownStepOrder ==
  ASSUME KeyInv, LineInv, LineInv', KnownInv, NEW e \in Esis,
         PlanificadorOrders(e) \/ EsiExits(e) \/ EsiDies(e)
  PROVE  KnownInv'
<1>0. /\ esiThread \in [Esis -> {"idle", "id", "status", "response", "over"}]
      /\ LineTypes /\ RequestsAreReal
  BY DEF LineInv, LineTypes
<1>1. /\ UNCHANGED <<storedKeys, sendFailed, instanciaResponse, responseStatus>>
      /\ \A k \in Keys : Recorded(k)' <=> Recorded(k)
  BY DEF PlanificadorOrders, EsiExits, EsiDies, coordinadorUnchanged, records, cells,
     histories, Recorded
<1>2. CASE PlanificadorOrders(e)
  <2>1. /\ turnOf = NoEsi /\ turnOf' = e /\ esiThread[e] = "idle"
        /\ UNCHANGED <<esiThread, holder, setBy>>
        /\ \A f \in Esis : f # e => request'[f] = request[f]
    BY <1>0, <1>2 DEF PlanificadorOrders, coordinadorUnchanged, threads, RequestsAreReal
  <2>2. SetAreHeld' /\ DeadSetNothing' /\ WaiterHolds' /\ WaiterIsRecorded'
    BY <2>1, CoordinadorAssumption DEF KnownInv, SetAreHeld, DeadSetNothing, WaiterHolds,
       WaiterIsRecorded, Works
  <2>3. \A f : IsTold(f, "FAILED")' <=> IsTold(f, "FAILED")
    BY <1>1, <2>1 DEF IsTold
  <2>4. ~sendFailed' => SetAreRecorded'
    BY <1>1, <2>1, <2>3 DEF KnownInv, SetAreRecorded
  <2> QED
    BY <2>2, <2>4 DEF KnownInv
\* The ESI is gone.
<1>3. CASE EsiExits(e) \/ EsiDies(e)
  <2>1. /\ turnOf = e /\ turnOf' = NoEsi
        /\ \A f \in Esis : f # e => request'[f] = request[f] /\ esiThread'[f] = esiThread[f]
        /\ \A f \in Esis : Works(f)' <=> Works(f)
    BY <1>0, <1>3 DEF EsiExits, EsiDies, HasRequest, threads, RequestsAreReal, Works
  <2>2. /\ \A k \in Keys : holder'[k] = IF holder[k] = e THEN NoEsi ELSE holder[k]
        /\ \A k \in Keys : setBy'[k] # NoEsi => setBy'[k] = setBy[k] /\ setBy[k] # e
    <3>1. holder' = HolderAfter(e, "ABORT")
          /\ (setBy' = SetByAfter(e, "ABORT")
              \/ setBy' = [SetByAfter(e, "ABORT") EXCEPT ![request[e].key] = NoEsi])
      BY <1>3 DEF EsiExits, EsiDies
    <3>2. \A k \in Keys : \/ setBy'[k] = SetByAfter(e, "ABORT")[k]
                          \/ setBy'[k] = NoEsi
      BY <1>0, <3>1, AbortNote
    <3> QED
      BY <1>0, <3>1, <3>2, AbortNote
  <2>3. SetAreHeld'
    BY <2>2 DEF KnownInv, SetAreHeld
  <2>4. WaiterHolds' /\ WaiterIsRecorded'
    BY <2>1, CoordinadorAssumption DEF WaiterHolds, WaiterIsRecorded
  <2>5. DeadSetNothing'
    <3> SUFFICES ASSUME NEW f \in Esis, Works(f)'
                 PROVE  setBy'[request'[f].key] = NoEsi
      BY DEF DeadSetNothing
    <3>1. Works(f) /\ request[f].key \in Keys
      BY <2>1 DEF LineInv, RequestsAreMade, Operations
    <3>2. CASE f = e
      <4>1. EsiDies(e)
        BY <1>3, <3>1, <3>2 DEF EsiExits, Works
      <4>2. /\ UNCHANGED request
            /\ setBy' = [SetByAfter(e, "ABORT") EXCEPT ![request[e].key] = NoEsi]
        BY <4>1 DEF EsiDies
      <4>3. DOMAIN SetByAfter(e, "ABORT") = Keys
        BY DEF SetByAfter
      <4> QED
        BY <3>1, <3>2, <4>2, <4>3
    <3>3. CASE f # e
      <4>1. request'[f] = request[f] /\ setBy[request[f].key] = NoEsi
        BY <2>1, <3>1, <3>3 DEF KnownInv, DeadSetNothing
      <4> QED
        BY <2>2, <3>1, <4>1
    <3> QED
      BY <3>2, <3>3
  <2>6. ~sendFailed' => SetAreRecorded'
    <3> SUFFICES ASSUME ~sendFailed', NEW k \in Keys, setBy'[k] # NoEsi
                 PROVE  Recorded(k)' \/ IsTold(setBy[k], "FAILED")'
      BY <2>2 DEF SetAreRecorded
    <3>1. /\ setBy[k] # NoEsi /\ setBy[k] # e /\ setBy[k] \in Esis
          /\ (Recorded(k) \/ IsTold(setBy[k], "FAILED"))
      BY <1>0, <1>1, <2>2 DEF KnownInv, SetAreRecorded, LineTypes
    <3>2. PICK f \in Esis : f = setBy[k]
      BY <3>1
    <3>3. IsTold(f, "FAILED") => IsTold(f, "FAILED")'
      BY <1>1, <2>1, <3>1, <3>2 DEF IsTold
    <3> QED
      BY <1>1, <2>2, <3>1, <3>2, <3>3 DEF IsTold
  <2> QED
    BY <2>3, <2>4, <2>5, <2>6 DEF KnownInv
<1> QED
  BY <1>2, <1>3


\* An instancia forgets a key only to tell who waits that it failed.
LEMMA KnownStepInstancia ==
  ASSUME KeyInv, SocketInv, SocketInv', LineInv, CellTypes, OperationInv, KnownInv,
         NEW i \in Instancias, InstanciaActs(i)
  PROVE  KnownInv'
<1>0. UNCHANGED <<esiThread, request, turnOf, holder, setBy, sendFailed, actualOperation>>
  BY InstanciaFrame DEF lines
<1>1. \/ UNCHANGED <<instanciaResponse, responseStatus>>
      \/ ~sendFailed => instanciaResponse = 0
  BY InstanciaPosts DEF OperationInv, OneResponse
<1>2. CASE UNCHANGED storedKeys
  <2>1. \A k \in Keys : Recorded(k) => Recorded(k)'
    BY <1>2 DEF Recorded
  <2>2. ~sendFailed => \A e \in Esis : IsTold(e, "FAILED") => IsTold(e, "FAILED")'
    BY <1>0, <1>1 DEF IsTold
  <2> QED
    BY <1>0, <2>1, <2>2, SameKnown DEF Works
<1>3. CASE HandleFailed(i)
  <2>1. SetAreHeld' /\ DeadSetNothing' /\ WaiterHolds'
    BY <1>0 DEF KnownInv, SetAreHeld, DeadSetNothing, WaiterHolds, Works
  <2>2. ASSUME ~sendFailed PROVE WaiterIsRecorded' /\ SetAreRecorded'
    <3>1. /\ RemoveKey(actualOperation.key, i)
          /\ responseStatus' = "FAILED" /\ instanciaResponse' = instanciaResponse + 1
          /\ instanciaResponse \in Nat
      BY <1>3 DEF HandleFailed, PostResponse, CellTypes
    <3>2. /\ OneResponse /\ Busy("DO_OPERATION", i) /\ instanciaResponse = 0
          /\ SetAreRecorded
      BY <2>2, <3>1, InstanciaPosts DEF OperationInv, OneResponse, KnownInv
    <3>3. PICK e \in Esis : esiThread[e] = "response" /\ actualOperation = request[e]
      BY <3>2 DEF OneResponse, ResponseIsFor
    <3>4. /\ \A f \in Esis : f # e => esiThread[f] # "response"
          /\ request[e] \in Operations
      BY <3>3, CoordinadorAssumption DEF LineInv, WorkerHoldsMutex, RequestsAreMade, Works
    <3>5. IsTold(e, "FAILED")'
      BY <1>0, <3>1, <3>2, <3>3 DEF IsTold
    <3>6. PICK k0 \in Keys : k0 = request[e].key
      BY <3>4 DEF Operations
    <3>7. \A k \in Keys : k # k0 /\ Recorded(k) => Recorded(k)'
      BY <3>1, <3>3, <3>6 DEF Recorded, RemoveKey, KeyInv, StoredAreKnown
    <3>8. setBy[k0] # NoEsi => setBy[k0] = e
      BY <3>3, <3>6 DEF KnownInv, DeadSetNothing, WaiterHolds, SetAreHeld, Works
    <3>9. WaiterIsRecorded'
      BY <1>0, <3>4, <3>5 DEF WaiterIsRecorded
    <3>10. SetAreRecorded'
      <4> SUFFICES ASSUME NEW k \in Keys, setBy[k] # NoEsi
                   PROVE  Recorded(k)' \/ (k = k0 /\ setBy[k] = e)
        BY <1>0, <3>5 DEF SetAreRecorded
      <4>1. Recorded(k)
        BY <3>2 DEF SetAreRecorded, IsTold
      <4> QED
        BY <3>7, <3>8, <4>1
    <3> QED
      BY <3>9, <3>10
  <2> QED
    BY <1>0, <2>1, <2>2 DEF KnownInv
<1>4. HandleFailed(i) \/ UNCHANGED storedKeys
  BY DEF InstanciaActs, InstanciaThread, InstanciaIsReady, startUnchanged,
     HandleSuccess, HandleCompactRequest, HandleDidCompact, HandleValue,
     CompactionEnds, InstanciaExits, Process, InstanciaOperates,
     InstanciaAsksCompaction, InstanciaCompacts, InstanciaChecksKey, Answers,
     processUnchanged, InstanciaArrives, InstanciaDies, InstanciaIsLost, records
<1> QED
  BY <1>2, <1>3, <1>4

LEMMA KnownStep ==
  ASSUME KeyInv, SocketInv, SocketInv', LineInv, LineInv', QuestionInv, CellTypes,
         OperationInv, KnownInv, Next
  PROVE  KnownInv'
<1>1. CASE PlanificadorActs
  <2>1. /\ UNCHANGED <<holder, setBy, turnOf, sendFailed, request, esiThread>>
        /\ UNCHANGED <<storedKeys, instanciaResponse, responseStatus>>
    BY <1>1, PlanificadorFrame
  <2>2. \A k \in Keys : Recorded(k) => Recorded(k)'
    BY <2>1 DEF Recorded
  <2>3. \A e \in Esis : IsTold(e, "FAILED") => IsTold(e, "FAILED")'
    BY <2>1 DEF IsTold
  <2> QED
    BY <2>1, <2>2, <2>3, SameKnown DEF Works
<1> QED
  BY <1>1, KnownStepEsi, KnownStepOrder, KnownStepInstancia
     DEF Next, InstanciaActs, PlanificadorActs

-----------------------------------------------------------------------------
(* The invariant, and what follows from it.                                 *)

CoordinadorInv ==
    /\ SocketInv /\ LineInv /\ QuestionInv /\ CellTypes /\ OperationInv
    /\ ValueInv /\ CompactInv /\ KnownInv

LEMMA OperationStep ==
  ASSUME KeyInv, SocketInv, SocketInv', LineInv, CellTypes, OperationInv, Next
  PROVE  OperationInv'
BY OperationStepInstancia, OperationStepEsi, OperationStepOther
   DEF Next, InstanciaActs, PlanificadorActs

\* Nothing happens.
LEMMA CoordinadorStutters ==
  ASSUME KeyInv, CoordinadorInv, UNCHANGED vars
  PROVE  CoordinadorInv'
<1>1. /\ UNCHANGED <<sockets, lines, posts, responseFor, sendFailed>>
      /\ UNCHANGED <<keyStatus, keyStatusSemaphore, esiIdSemaphore>>
      /\ UNCHANGED <<actualOperation, operations, orderedFor, storedKeys>>
  BY DEF vars, sockets, lines, posts, records, mutexes, cells, threads, esiSide,
     instanciaSide, bounds, histories
<1>2. SocketInv' /\ LineInv' /\ CellTypes'
  BY <1>1, SameSockets, SameLines DEF CoordinadorInv, CellTypes, posts
<1>3. QuestionInv'
  BY <1>1 DEF CoordinadorInv, QuestionInv, Questions, StatusIsTrue, StatusIn, lines
<1>4. \A c, i : UNCHANGED <<Busy(c, i), OnTheWay(c, i), Awaited(c, i), Serves(i)>>
  BY <1>1 DEF Busy, OnTheWay, Awaited, Serves, sockets
<1>5. OperationInv' /\ ValueInv'
  BY <1>1, <1>4 DEF CoordinadorInv, OperationInv, OneResponse, OneAtMost, ResponseIsFor,
     ValueInv, posts, lines
<1>6. CompactInv'
  BY <1>1, <1>4 DEF CoordinadorInv, CompactInv, Owed, WaitingFor, posts, sockets
<1>7. KnownInv'
  <2>1. \A k : UNCHANGED Recorded(k)
    BY <1>1 DEF Recorded
  <2>2. \A e : UNCHANGED <<IsTold(e, "FAILED"), Works(e)>>
    BY <1>1 DEF IsTold, Works, lines, posts
  <2> QED
    BY <1>1, <2>1, <2>2 DEF CoordinadorInv, KnownInv, SetAreHeld, DeadSetNothing,
       WaiterHolds, WaiterIsRecorded, SetAreRecorded, lines
<1> QED
  BY <1>2, <1>3, <1>5, <1>6, <1>7 DEF CoordinadorInv

LEMMA CoordinadorInvariant == Spec => []CoordinadorInv
<1>1. Init => CoordinadorInv
  BY SocketInit, LineInit, QuestionInit, CellInit, OperationInit, ValueInit,
     CompactInit, KnownInit DEF CoordinadorInv
<1>2. KeyInv /\ CoordinadorInv /\ [Next]_vars => CoordinadorInv'
  <2> SUFFICES ASSUME KeyInv, CoordinadorInv, Next PROVE CoordinadorInv'
    BY CoordinadorStutters
  <2>1. SocketInv' /\ LineInv' /\ CellTypes'
    BY SocketStep, LineStep, CellStep DEF CoordinadorInv
  <2>2. QuestionInv' /\ OperationInv' /\ ValueInv' /\ CompactInv'
    BY <2>1, QuestionStep, OperationStep, ValueStep, CompactStep DEF CoordinadorInv
  <2>3. KnownInv'
    BY <2>1, KnownStep DEF CoordinadorInv
  <2> QED
    BY <2>1, <2>2, <2>3 DEF CoordinadorInv
<1> QED
  BY <1>1, <1>2, KeyInvariant, PTL DEF Spec

\* Every variable keeps its type, whoever dies: the mutexes name a thread that
\* exists, the sockets carry what their two ends send, and the semaphores of an
\* answer are posted at most once before they are waited for.
THEOREM CoordinadorTypes == Spec => []TypeOK
<1>1. KeyInv /\ CoordinadorInv => TypeOK
  <2> SUFFICES ASSUME KeyInv, CoordinadorInv PROVE TypeOK
    OBVIOUS
  <2>1. keyStatusSemaphore \in 0..1
    <3>1. Questions <= 1 /\ keyStatusSemaphore \in Nat
      BY DEF CoordinadorInv, QuestionInv
    <3>2. Count(fromPlan, KeyStatusMessages) \in Nat /\ Len(toPlan) \in Nat
      BY QuestionTypes DEF CoordinadorInv
    <3> QED
      BY <3>1, <3>2 DEF Questions
  <2>2. valueSemaphore \in 0..1
    BY DEF CoordinadorInv, ValueInv, CellTypes
  <2> QED
    BY <2>1, <2>2 DEF TypeOK, KeyInv, StoredAreKnown, CoordinadorInv, SocketInv,
       SocketTypes, LineInv, LineTypes, RequestsAreReal, CellTypes, QuestionInv
<1> QED
  BY <1>1, KeyInvariant, CoordinadorInvariant, PTL

\* Until a send fails there is one order, answer, fall or response under way at
\* a time, and the one an ESI's thread waits for is that of its line.
THEOREM OutcomesAreOwn == Spec => []OutcomeIsOwnIfSent
<1>1. CoordinadorInv => OutcomeIsOwnIfSent
  BY DEF CoordinadorInv, OperationInv, OneResponse, ResponseIsFor,
     OutcomeIsOwnIfSent, OutcomeIsOwn
<1> QED
  BY <1>1, CoordinadorInvariant, PTL

\* What an instancia has posted or may still post about compactions is no more
\* than what is waited for.
THEOREM CompactionsAreAwaited == Spec => []CompactPostsAreAwaited
<1>1. ASSUME CoordinadorInv PROVE CompactPostsAreAwaited
  <2> SUFFICES ASSUME NEW j \in Instancias, compactSemaphore[j] > 0
               PROVE  WaitingFor(j) # {}
    BY DEF CompactPostsAreAwaited, WaitingFor
  <2>1. Owed(j) > 0 /\ Owed(j) \in Nat
    BY <1>1, OnTheWayType DEF Owed, CoordinadorInv, CellTypes, InstanciaCommands
  <2>2. Cardinality(WaitingFor(j)) > 0
    BY <1>1, <2>1, WaitingForType DEF CoordinadorInv, CompactInv
  <2> QED
    BY <2>2, FS_EmptySet
<1> QED
  BY <1>1, CoordinadorInvariant, PTL

\* A key that is set is forgotten by nobody but the instancia that failed to set
\* it, whose answer is then on its way to the holder.
THEOREM SetsAreKnown == Spec => []SetKeysAreKnown
<1>1. KeyInv /\ CoordinadorInv => SetKeysAreKnown
  BY RecordedMeansOwned DEF CoordinadorInv, KnownInv, SetAreRecorded, SetKeysAreKnown
<1> QED
  BY <1>1, KeyInvariant, CoordinadorInvariant, PTL
=============================================================================
