------------------------- MODULE DistributionProofs -------------------------
(* Theorems about the distribution algorithms for every set of instancias   *)
(* and keys, and any sequence of arrivals, falls, choices and simulations.  *)
EXTENDS DistributionCalls, DistributionLists

-----------------------------------------------------------------------------
(* The invariant.  While a simulation has moved the turn, the one that counts *)
(* is the one it has saved.                                                  *)

SettledLast == IF simulating = "no" THEN lastInstanciaChosen
                                    ELSE auxLastInstanciaChosen2
SettledPass == IF simulating = "no" THEN firstAlreadyPass ELSE firstAlreadyPassAux

\* A simulation has saved a turn that is right, and it has not been moved yet,
\* or the head has had its turn and what the flag says is not to be kept.
SimulationInv ==
    /\ simulating # "no" =>
          /\ IsEquitativeLoad
          /\ TurnIsRight(auxLastInstanciaChosen2, firstAlreadyPassAux)
    /\ simulating = "saved" => firstAlreadyPass = firstAlreadyPassAux
    /\ simulating \in {"searched", "unlocked"} => firstAlreadyPass = TRUE
    /\ simulating \in {"saved", "unlocked"} =>
          lastInstanciaChosen = auxLastInstanciaChosen2

IInv == TypeOK /\ TurnInv /\ SimulationInv

\* Whatever the algorithm, what it answers is an instancia or NULL.
LEMMA ChosenType ==
  ASSUME IInv, NEW k \in Keys
  PROVE  /\ Chosen(k) \in Instancias \union {NoInstancia}
         /\ algorithm = "EL" /\ AliveInstancias # {} => Chosen(k) = NextInstancia
<1>1. Chosen(k) \in Instancias \union {NoInstancia}
  BY ChosenIsAlive, KnownType DEF IInv, TypeOK, AliveInstancias, Chosen
<1> QED
  BY <1>1 DEF Chosen, ChosenBy, NextInstancia

\* The turn that counts is right.
LEMMA SettledIsRight ==
  ASSUME IInv
  PROVE  SettledPass \in BOOLEAN /\ TurnIsRight(SettledLast, SettledPass)
BY DEF IInv, TypeOK, DistributionTypeOK, TurnInv, SimulationInv, SettledLast,
       SettledPass

-----------------------------------------------------------------------------
(* The steps.                                                              *)

SimulationStep ==
    SavesTurn \/ (\E k \in Keys : SimulatesSearch(k)) \/ PointerIsBack \/ FlagIsBack

\* Nothing that a simulation does changes the list or the turn that counts:
\* this is where what it puts back is what it has saved.
LEMMA SimulationKeepsTurn ==
  ASSUME IInv, SimulationStep
  PROVE  /\ UNCHANGED <<instancias, fallen, spaceUsed, algorithm, waited>>
         /\ UNCHANGED <<Known, AliveInstancias>>
         /\ SettledLast' = SettledLast /\ SettledPass' = SettledPass
<1>1. UNCHANGED <<instancias, fallen, spaceUsed, algorithm, waited>>
  BY DEF SimulationStep, SavesTurn, SimulatesSearch, PointerIsBack, FlagIsBack,
         distributionVars, list
<1>2. UNCHANGED <<Known, AliveInstancias>>
  BY <1>1 DEF Known, AliveInstancias
<1>3. CASE SavesTurn
  BY <1>1, <1>2, <1>3 DEF SavesTurn, ListMutexIsFree, SettledLast, SettledPass,
                          distributionVars, turn
<1>4. CASE (\E k \in Keys : SimulatesSearch(k)) \/ PointerIsBack
  BY <1>1, <1>2, <1>4 DEF SimulatesSearch, PointerIsBack, SettledLast, SettledPass
<1>5. CASE FlagIsBack
  BY <1>1, <1>2, <1>5 DEF FlagIsBack, SimulationReturns, SettledLast, SettledPass, IInv,
              SimulationInv
<1> QED
  BY <1>1, <1>2, <1>3, <1>4, <1>5 DEF SimulationStep

\* Wherever the simulation is, the list, the two globals and what was
\* saved of them are right.
LEMMA SimulationKeepsInv ==
  ASSUME IInv, SimulationStep
  PROVE  DistributionTypeOK' /\ TurnInv' /\ SimulationInv'
<1>1. /\ UNCHANGED <<instancias, fallen, spaceUsed, algorithm, Known, AliveInstancias>>
      /\ SettledLast' = SettledLast /\ SettledPass' = SettledPass
  BY SimulationKeepsTurn
<1>2. /\ DistributionTypeOK /\ TurnInv /\ SimulationInv
      /\ simulating \in {"no", "saved", "searched", "unlocked"}
      /\ firstAlreadyPass \in BOOLEAN /\ firstAlreadyPassAux \in BOOLEAN
  BY DEF IInv, TypeOK, DistributionTypeOK
<1>3. ASSUME NEW last, NEW pass, TurnIsRight(last, pass)
      PROVE  /\ instancias' # <<>> => last \in Known'
             /\ instancias' # <<>> /\ ~pass => last = instancias'[1]
  BY <1>1, <1>3 DEF TurnIsRight
<1>4. (simulating # "no" \/ SavesTurn) => IsEquitativeLoad /\ instancias # <<>>
  BY <1>2, AliveMeansNotEmpty DEF SimulationInv, SavesTurn, IsEquitativeLoad
<1>5. IsEquitativeLoad' = IsEquitativeLoad
  BY <1>1 DEF IsEquitativeLoad
<1>6. ASSUME lastInstanciaChosen' \in Known \union {NoInstancia},
             firstAlreadyPass' \in BOOLEAN
      PROVE  DistributionTypeOK'
  BY <1>1, <1>2, <1>6 DEF DistributionTypeOK
<1>7. CASE SavesTurn
  <2>1. /\ UNCHANGED <<lastInstanciaChosen, firstAlreadyPass>>
        /\ auxLastInstanciaChosen2' = lastInstanciaChosen
        /\ firstAlreadyPassAux' = firstAlreadyPass
        /\ simulating' = "saved"
    BY <1>7 DEF SavesTurn, distributionVars, turn
  <2>2. DistributionTypeOK'
    BY <1>2, <1>6, <2>1 DEF DistributionTypeOK
  <2> QED
    BY <1>2, <1>3, <1>4, <1>5, <1>7, <2>1, <2>2
       DEF TurnInv, TurnIsRight, SimulationInv
<1>8. CASE \E k \in Keys : SimulatesSearch(k)
  <2>1. /\ UNCHANGED <<auxLastInstanciaChosen2, firstAlreadyPassAux>>
        /\ simulating = "saved" /\ simulating' = "searched"
        /\ lastInstanciaChosen' = LastAfterSearch(lastInstanciaChosen, firstAlreadyPass)
        /\ firstAlreadyPass' = PassAfterSearch(lastInstanciaChosen, firstAlreadyPass)
    BY <1>8 DEF SimulatesSearch, GetNextInstancia
  <2>2. AliveInstancias # {}
    BY <1>4, <2>1 DEF IsEquitativeLoad
  <2>3. lastInstanciaChosen' \in Known /\ firstAlreadyPass' = TRUE
    BY <1>2, <2>1, <2>2, SearchLeaves DEF TurnInv
  <2>4. DistributionTypeOK'
    BY <1>6, <2>3
  <2> QED
    BY <1>1, <1>2, <1>3, <1>4, <1>5, <2>1, <2>3, <2>4
       DEF TurnInv, TurnIsRight, SimulationInv
<1>9. CASE PointerIsBack
  <2>1. /\ UNCHANGED <<firstAlreadyPass, auxLastInstanciaChosen2, firstAlreadyPassAux>>
        /\ simulating = "searched" /\ simulating' = "unlocked"
        /\ lastInstanciaChosen' = auxLastInstanciaChosen2
    BY <1>9 DEF PointerIsBack
  <2>2. lastInstanciaChosen' \in Known /\ firstAlreadyPass' = TRUE
    BY <1>2, <1>4, <2>1 DEF SimulationInv, TurnIsRight
  <2>3. DistributionTypeOK'
    BY <1>6, <2>2
  <2> QED
    BY <1>1, <1>2, <1>3, <1>4, <1>5, <2>1, <2>2, <2>3
       DEF TurnInv, TurnIsRight, SimulationInv
<1>10. CASE FlagIsBack
  <2>1. /\ UNCHANGED lastInstanciaChosen
        /\ simulating = "unlocked" /\ simulating' = "no"
        /\ firstAlreadyPass' = firstAlreadyPassAux
    BY <1>10 DEF FlagIsBack, SimulationReturns
  <2>2. TurnIsRight(lastInstanciaChosen', firstAlreadyPass')
    BY <1>2, <2>1 DEF SimulationInv
  <2>3. DistributionTypeOK'
    BY <1>2, <1>6, <2>1 DEF DistributionTypeOK
  <2> QED
    BY <1>1, <1>3, <2>1, <2>2, <2>3 DEF TurnInv, TurnIsRight, SimulationInv
<1> QED
  BY <1>7, <1>8, <1>9, <1>10 DEF SimulationStep

\* The locals of the simulation, waited and predicted keep their types.
LEMMA HistoryStep ==
  ASSUME IInv, Next
  PROVE  /\ simulating' \in {"no", "saved", "searched", "unlocked"}
         /\ auxLastInstanciaChosen2' \in Instancias \union {NoInstancia}
         /\ firstAlreadyPassAux' \in BOOLEAN
         /\ waited' \in [Instancias -> Nat]
         /\ predicted' \in [Keys -> Instancias \union {NoInstancia}]
<1> USE DEF IInv, TypeOK
<1> DEFINE Goal ==
      /\ simulating' \in {"no", "saved", "searched", "unlocked"}
      /\ auxLastInstanciaChosen2' \in Instancias \union {NoInstancia}
      /\ firstAlreadyPassAux' \in BOOLEAN
      /\ waited' \in [Instancias -> Nat]
      /\ predicted' \in [Keys -> Instancias \union {NoInstancia}]
<1>1. NoPrediction \in [Keys -> Instancias \union {NoInstancia}]
  BY DEF NoPrediction
<1>2. \A i \in Instancias : [waited EXCEPT ![i] = 0] \in [Instancias -> Nat]
  OBVIOUS
<1>3. ASSUME NEW i \in Instancias, Arrives(i) \/ Falls(i) \/ ReportsSpace(i)
      PROVE  Goal
  BY <1>1, <1>2, <1>3 DEF Arrives, Falls, ReportsSpace, Forget, simulation
<1>4. ASSUME NEW k \in Keys, ChooseInstancia(k)
      PROVE  Goal
  <2>1. \A c : WaitedAfter(c) \in [Instancias -> Nat]
    BY DEF WaitedAfter
  <2> QED
    BY <1>1, <1>4, <2>1 DEF ChooseInstancia, Forget, simulation
<1>5. ASSUME NEW k \in Keys, SimulatesAtOnce(k)
      PROVE  Goal
  BY <1>5, ChosenType DEF SimulatesAtOnce, simulation
<1>6. ASSUME NEW k \in Keys, SimulatesSearch(k)
      PROVE  Goal
  <2>1. NextInstancia \in Instancias \union {NoInstancia}
    BY <1>6, ChosenType DEF SimulatesSearch, SimulationInv, IsEquitativeLoad
  <2> QED
    BY <1>6, <2>1 DEF SimulatesSearch
<1>7. CASE SavesTurn
  <2>1. Known \subseteq Instancias
    BY KnownType
  <2> QED
    BY <1>7, <2>1 DEF SavesTurn, DistributionTypeOK
<1>8. CASE PointerIsBack \/ FlagIsBack
  BY <1>8 DEF PointerIsBack, FlagIsBack, SimulationReturns, distributionVars
<1> QED
  BY <1>3, <1>4, <1>5, <1>6, <1>7, <1>8 DEF Next

LEMMA InvStarts ==
  Init => IInv
<1> SUFFICES ASSUME Init PROVE IInv
  OBVIOUS
<1>1. instancias = <<>> /\ Known = {}
  BY DEF Init, DistributionInit, Known
<1>2. instancias \in Seq(Instancias) /\ Len(instancias) = 0
  BY <1>1
<1>3. spaceUsed \in [Instancias -> 0..MaxSpace]
  BY DistributionAssumption DEF Init, DistributionInit
<1>4. 1..Len(instancias) = {}
  BY <1>2
<1>5. DistributionTypeOK
  BY <1>1, <1>2, <1>3, <1>4 DEF Init, DistributionInit, DistributionTypeOK
<1>6. TurnInv /\ SimulationInv
  BY <1>1 DEF TurnInv, TurnIsRight, SimulationInv, Init
<1> QED
  BY <1>5, <1>6 DEF IInv, TypeOK, Init, NoPrediction

LEMMA InvHolds ==
  IInv /\ [Next]_vars => IInv'
<1> SUFFICES ASSUME IInv, [Next]_vars PROVE IInv'
  OBVIOUS
<1> USE DEF IInv, TypeOK
<1> DEFINE Goal == DistributionTypeOK' /\ TurnInv' /\ SimulationInv'
<1>1. CASE UNCHANGED vars
  BY <1>1 DEF vars, distributionVars, list, turn, simulation, DistributionTypeOK,
              TurnInv, TurnIsRight, SimulationInv, IsEquitativeLoad, AliveInstancias,
              Known
<1>2. CASE Next
  <2>1. ASSUME UNCHANGED simulation, ListMutexIsFree
        PROVE  SimulationInv'
    BY <2>1 DEF simulation, ListMutexIsFree, SimulationInv
  <2>2. ASSUME NEW i \in Instancias, Arrives(i)
        PROVE  Goal
    <3>1. spaceUsed' \in [Instancias -> 0..MaxSpace]
      BY <2>2 DEF Arrives, DistributionTypeOK
    <3> QED
      BY <2>1, <2>2, <3>1, ArrivalStep DEF Arrives
  <2>3. ASSUME NEW i \in Instancias, Falls(i)
        PROVE  Goal
    BY <2>1, <2>3 DEF Falls, InstanciaHasFallen, AliveInstancias, turn, Known,
                DistributionTypeOK, TurnInv, TurnIsRight
  <2>4. ASSUME NEW i \in Instancias, ReportsSpace(i)
        PROVE  Goal
    BY <2>1, <2>4 DEF ReportsSpace, turn, Known, DistributionTypeOK, TurnInv,
                TurnIsRight
  <2>5. ASSUME NEW k \in Keys, ChooseInstancia(k) \/ SimulatesAtOnce(k)
        PROVE  Goal
    BY <2>1, <2>5, TurnStep DEF ChooseInstancia, SimulatesAtOnce
  <2>6. ASSUME SimulationStep
        PROVE  Goal
    BY <2>6, SimulationKeepsInv
  <2>7. Goal
    <3> HIDE DEF Goal
    <3> QED
      BY <1>2, <2>2, <2>3, <2>4, <2>5, <2>6 DEF Next, SimulationStep
  <2> QED
    BY <1>2, <2>7, HistoryStep
<1> QED
  BY <1>1, <1>2

LEMMA InvAlways ==
  Spec => []IInv
BY InvStarts, InvHolds, PTL DEF Spec

-----------------------------------------------------------------------------
(* The theorems.                                                           *)

\* The list, the turn, what was chosen and what was predicted keep their types:
\* no call of chooseInstancia or of its simulation answers anything but an
\* instancia of the list or NULL, nor puts an instancia in the list twice.
THEOREM TypeCorrect == Spec => []TypeOK
BY InvAlways, PTL DEF IInv

\* Equitative load finds somebody whenever somebody is alive.
THEOREM SomebodyIsFound == Spec => []SomebodyIsNext
<1>1. ASSUME IInv PROVE SomebodyIsNext
  <2>1. firstAlreadyPass \in BOOLEAN
    BY <1>1 DEF IInv, TypeOK, DistributionTypeOK
  <2> QED
    BY <1>1, <2>1, NextIsAlive
       DEF IInv, TypeOK, TurnInv, SomebodyIsNext, NextInstancia
<1> QED
  BY <1>1, InvAlways, PTL

\* With n instancias the last letter falls within the list: 26 letters in
\* groups of 26 / n rounded up make at most n groups.
LEMMA LetterIndex ==
  ASSUME NEW n \in Nat, n # 0, NEW l \in 0..(CantChars - 1)
  PROVE  l \div CharsByInstance(n) \in 0..(n - 1)
<1>1. CASE n >= 26
  <2>1. CharsByInstance(n) = 1
    BY <1>1 DEF CharsByInstance, CantChars
  <2> QED
    BY <1>1, <2>1 DEF CantChars
<1>2. CASE n < 26
  <2>1. n \in 1..25
    BY <1>2
  <2> QED
    BY <2>1 DEF CharsByInstance, CantChars
<1> QED
  BY <1>1, <1>2

\* Key explicit finds an instancia for every key that begins with a letter.
THEOREM LettersHaveInstancias == Spec => []IndexIsInList
<1>1. IInv => IndexIsInList
  <2> SUFFICES ASSUME IInv, AliveInstancias # {}, NEW k \in Keys, IsLetter(k)
               PROVE  KeyExplicitIndex(k) \in 0..(Cardinality(AliveInstancias) - 1)
    BY DEF IndexIsInList
  <2>1. IsFiniteSet(AliveInstancias)
    BY KnownType DEF IInv, TypeOK
  <2>2. Cardinality(AliveInstancias) \in Nat /\ Cardinality(AliveInstancias) # 0
    BY <2>1, FS_CardinalityType, FS_EmptySet
  <2>3. Letter[k] \in 0..(CantChars - 1)
    BY DEF IsLetter
  <2>4. KeyExplicitIndex(k) = Letter[k] \div CharsByInstance(Cardinality(AliveInstancias))
    BY <2>3 DEF KeyExplicitIndex, CDivide, CantChars
  <2> QED
    BY <2>2, <2>3, <2>4, LetterIndex
<1> QED
  BY <1>1, InvAlways, PTL

\* What was predicted is what would be chosen with the turn that counts.
PredictionInv ==
    \A k \in Keys : predicted[k] # NoInstancia =>
        ChosenBy(k, SettledLast, SettledPass) = predicted[k]

\* The fall of another does not change who is chosen, by the turn or by space.
LEMMA SameChoiceAfterFall ==
  ASSUME IInv, NEW i \in Instancias, Falls(i), NEW k \in Keys, NEW last, NEW pass,
         algorithm # "KE",
         ChosenBy(k, last, pass) \notin {i, NoInstancia}
  PROVE  ChosenBy(k, last, pass)' = ChosenBy(k, last, pass)
<1> DEFINE c == ChosenBy(k, last, pass)
<1>1. /\ UNCHANGED <<instancias, spaceUsed, algorithm, Known>>
      /\ AliveInstancias' = AliveInstancias \ {i}
  BY DEF Falls, InstanciaHasFallen, AliveInstancias, Known, turn
<1>2. /\ DistributionTypeOK /\ AliveInstancias \subseteq Known
      /\ algorithm \in {"EL", "LSU"}
  BY KnownType, DistributionAssumption DEF IInv, TypeOK, DistributionTypeOK
<1>3. c \in AliveInstancias /\ c \in AliveInstancias'
  BY <1>1, <1>2, ChosenIsAlive
<1>4. \A S \in SUBSET Known : \A T \in SUBSET S :
        S # {} /\ FirstOf(S) \in T => FirstOf(T) = FirstOf(S)
  BY <1>2, FirstOfFewer
<1>5. CASE algorithm = "EL"
  <2>1. c = NextOf(last, pass) /\ c' = NextOf(last, pass)'
    BY <1>1, <1>3, <1>5 DEF ChosenBy
  <2>2. /\ IsFirstTurn(last, pass)' = IsFirstTurn(last, pass)
        /\ AfterLast(last)' = AfterLast(last) \ {i}
    BY <1>1 DEF IsFirstTurn, AfterLast, PositionInList
  <2>3. /\ FirstOf(AliveInstancias)' = FirstOf(AliveInstancias \ {i})
        /\ FirstOf(AfterLast(last))' = FirstOf(AfterLast(last) \ {i})
    BY <1>1, <2>2 DEF FirstOf, PositionInList
  <2>4. AfterLast(last) \subseteq AliveInstancias
    BY DEF AfterLast
  <2>5. CASE IsFirstTurn(last, pass) \/ StartsAgain(last, pass)
    <3>1. c = FirstOf(AliveInstancias)
      BY <2>1, <2>5 DEF NextOf, StartsAgain
    <3>2. (IsFirstTurn(last, pass) \/ StartsAgain(last, pass))'
      BY <2>2, <2>5 DEF StartsAgain
    <3>3. c' = FirstOf(AliveInstancias)'
      BY <2>1, <3>2 DEF NextOf, StartsAgain
    <3> QED
      BY <1>1, <1>2, <1>3, <1>4, <2>3, <3>1, <3>3
  <2>6. CASE ~IsFirstTurn(last, pass) /\ AfterLast(last) # {}
    <3>1. c = FirstOf(AfterLast(last)) /\ c \in AfterLast(last)
      BY <1>2, <2>1, <2>4, <2>6, FirstOfType DEF NextOf, StartsAgain
    <3>2. ~IsFirstTurn(last, pass)' /\ AfterLast(last)' # {}
      BY <1>1, <1>3, <2>2, <2>6, <3>1
    <3>3. c' = FirstOf(AfterLast(last))'
      BY <2>1, <3>2 DEF NextOf, StartsAgain
    <3> QED
      BY <1>1, <1>2, <1>3, <1>4, <2>2, <2>3, <2>4, <3>1, <3>3
  <2> QED
    BY <2>1, <2>5, <2>6 DEF NextOf
<1>6. CASE algorithm = "LSU"
  <2> DEFINE S == {j \in AliveInstancias :
                     \A u \in AliveInstancias : spaceUsed[j] <= spaceUsed[u]}
             T == {j \in AliveInstancias \ {i} :
                     \A u \in AliveInstancias \ {i} : spaceUsed[j] <= spaceUsed[u]}
  <2>1. c = FirstOf(S) /\ c' = LeastSpaceUsed'
    BY <1>1, <1>3, <1>6 DEF ChosenBy, LeastSpaceUsed
  <2>2. LeastSpaceUsed' = FirstOf(T)
    BY <1>1 DEF LeastSpaceUsed, FirstOf, PositionInList
  <2>3. \A j \in AliveInstancias : spaceUsed[j] \in Nat
    BY <1>2, KnownType, DistributionAssumption DEF DistributionTypeOK
  <2>4. S # {} /\ S \subseteq Known
    <3> DEFINE V == {spaceUsed[j] : j \in AliveInstancias}
    <3>1. V \in SUBSET Nat /\ V # {}
      BY <1>3, <2>3
    <3>2. PICK x \in V : \A y \in V : x <= y
      <4> HIDE DEF V
      <4> QED
        BY <3>1, LeastNumber
    <3> QED
      BY <1>2, <3>2
  <2>5. c \in S
    <3> HIDE DEF S
    <3> QED
      BY <1>2, <2>1, <2>4, FirstOfType
  <2>6. c \in T /\ T \subseteq S
    <3>1. c \in T
      BY <1>1, <1>3, <2>5
    <3>2. ASSUME NEW j \in T PROVE j \in S
      BY <1>3, <2>3, <2>5, <3>1, <3>2
    <3> QED
      BY <3>1, <3>2
  <2> HIDE DEF S, T
  <2> QED
    BY <1>4, <2>1, <2>2, <2>4, <2>6
<1> QED
  BY <1>2, <1>5, <1>6

\* What a simulation answered stays right until something happens that its
\* algorithm looks at.
LEMMA PredictionHolds ==
  IInv /\ PredictionInv /\ [Next]_vars => PredictionInv'
<1> SUFFICES ASSUME IInv, PredictionInv, [Next]_vars PROVE PredictionInv'
  OBVIOUS
<1>1. CASE Forget
  BY <1>1 DEF Forget, NoPrediction, PredictionInv
<1>2. ASSUME UNCHANGED <<instancias, fallen, algorithm>>,
             algorithm # "LSU" \/ UNCHANGED spaceUsed,
             SettledLast' = SettledLast, SettledPass' = SettledPass
      PROVE  \A k \in Keys : ChosenBy(k, SettledLast, SettledPass)'
                           = ChosenBy(k, SettledLast, SettledPass)
  <2> SUFFICES ASSUME NEW k \in Keys
               PROVE  ChosenBy(k, SettledLast, SettledPass)'
                           = ChosenBy(k, SettledLast, SettledPass)
    OBVIOUS
  <2>1. UNCHANGED <<Known, AliveInstancias>>
    BY <1>2 DEF Known, AliveInstancias
  <2> QED
    BY <1>2, <2>1 DEF ChosenBy, NextOf, IsFirstTurn, AfterLast, StartsAgain,
       LeastSpaceUsed, AliveAt, KeyExplicitIndex, FirstOf, PositionInList
<1>3. ASSUME UNCHANGED <<turn, simulation>>
      PROVE  SettledLast' = SettledLast /\ SettledPass' = SettledPass
  BY <1>3 DEF turn, simulation, SettledLast, SettledPass
<1>4. CASE UNCHANGED vars
  BY <1>2, <1>3, <1>4 DEF vars, distributionVars, list, PredictionInv
<1>5. ASSUME NEW i \in Instancias, Falls(i)
      PROVE  PredictionInv'
  <2>1. SettledLast' = SettledLast /\ SettledPass' = SettledPass
    BY <1>3, <1>5 DEF Falls, InstanciaHasFallen
  <2> SUFFICES ASSUME NEW k \in Keys, predicted'[k] # NoInstancia
               PROVE  ChosenBy(k, SettledLast, SettledPass)' = predicted'[k]
    BY DEF PredictionInv
  <2>2. /\ algorithm # "KE" /\ predicted[k] \notin {i, NoInstancia}
        /\ predicted'[k] = predicted[k]
    BY <1>5 DEF Falls
  <2>3. ChosenBy(k, SettledLast, SettledPass) = predicted[k]
    BY <2>2 DEF PredictionInv
  <2>4. \A last, pass : ChosenBy(k, last, pass) \notin {i, NoInstancia} =>
            ChosenBy(k, last, pass)' = ChosenBy(k, last, pass)
    BY <1>5, <2>2, SameChoiceAfterFall
  <2> QED
    BY <2>1, <2>2, <2>3, <2>4
<1>6. ASSUME NEW i \in Instancias, ReportsSpace(i)
      PROVE  PredictionInv'
  BY <1>1, <1>2, <1>3, <1>6 DEF ReportsSpace, PredictionInv
<1>7. ASSUME NEW k \in Keys, ChooseInstancia(k)
      PROVE  PredictionInv'
  BY <1>1, <1>2, <1>3, <1>7 DEF ChooseInstancia, TakeTurn, list, PredictionInv
<1>8. ASSUME NEW k \in Keys, SimulatesAtOnce(k)
      PROVE  PredictionInv'
  <2>1. UNCHANGED <<list, turn, simulation, algorithm>> /\ simulating = "no"
    BY <1>8 DEF SimulatesAtOnce, TakeTurn, IsEquitativeLoad, ListMutexIsFree
  <2>2. predicted' = [predicted EXCEPT ![k] = ChosenBy(k, SettledLast, SettledPass)]
    BY <1>8, <2>1 DEF SimulatesAtOnce, Chosen, SettledLast, SettledPass
  <2> QED
    BY <1>2, <1>3, <2>1, <2>2 DEF list, PredictionInv, IInv, TypeOK
<1>9. ASSUME SimulationStep, UNCHANGED predicted
      PROVE  PredictionInv'
  BY <1>2, <1>9, SimulationKeepsTurn DEF PredictionInv
<1>10. ASSUME NEW k \in Keys, SimulatesSearch(k)
       PROVE  PredictionInv'
  <2>1. SimulationStep /\ simulating = "saved"
    BY <1>10 DEF SimulationStep, SimulatesSearch
  <2>2. IsEquitativeLoad /\ SettledLast = lastInstanciaChosen
        /\ SettledPass = firstAlreadyPass
    BY <2>1 DEF IInv, SimulationInv, SettledLast, SettledPass
  <2>3. ChosenBy(k, SettledLast, SettledPass) = NextInstancia
    BY <2>2 DEF ChosenBy, NextInstancia, IsEquitativeLoad
  <2>4. predicted' = [predicted EXCEPT ![k] = ChosenBy(k, SettledLast, SettledPass)]
    BY <1>10, <2>3 DEF SimulatesSearch
  <2>5. \A u \in Keys : ChosenBy(u, SettledLast, SettledPass)'
                        = ChosenBy(u, SettledLast, SettledPass)
    BY <1>2, <2>1, SimulationKeepsTurn
  <2> QED
    BY <2>4, <2>5 DEF PredictionInv, IInv, TypeOK
<1>11. SavesTurn \/ PointerIsBack \/ FlagIsBack => SimulationStep /\ UNCHANGED predicted
  BY DEF SimulationStep, SavesTurn, PointerIsBack, FlagIsBack
<1>12. \A i \in Instancias : Arrives(i) => Forget
  BY DEF Arrives
<1> QED
  BY <1>1, <1>4, <1>5, <1>6, <1>7, <1>8, <1>9, <1>10, <1>11, <1>12 DEF Next

\* The simulation of equitative load puts back what it has moved: whenever the
\* list is free, what a status command was answered is where a SET would go.
THEOREM SimulationIsRight == Spec => []SimulationPredicts
<1>1. Init => PredictionInv
  BY DEF Init, NoPrediction, PredictionInv
<1>2. PredictionInv => SimulationPredicts
  BY DEF PredictionInv, SimulationPredicts, ListMutexIsFree, Chosen, SettledLast,
         SettledPass
<1> QED
  BY <1>1, <1>2, InvStarts, InvHolds, PredictionHolds, PTL DEF Spec

-----------------------------------------------------------------------------
(* The round robin.  Distance is how far the turn, which only goes forward   *)
(* and starts again at the head, has to go to reach an instancia; a choice   *)
(* that passes it over brings the turn nearer, so that the choices it has    *)
(* waited for and the distance never add up to more than one lap.           *)

Distance(i) ==
    IF PositionInList(i) > PositionInList(SettledLast)
    THEN PositionInList(i) - PositionInList(SettledLast)
    ELSE Len(instancias) - PositionInList(SettledLast) + PositionInList(i)

WaitInv ==
    algorithm = "EL" =>
        IF SettledPass
        THEN \A i \in AliveInstancias : waited[i] + Distance(i) <= Len(instancias)
        ELSE \A i \in Instancias : waited[i] = 0

\* An instancia that was there keeps its place when another is appended.
LEMMA PositionIsKept ==
  ASSUME IInv, NEW i \in Instancias, AddNew(i), IInv', NEW j \in Known
  PROVE  PositionInList(j)' = PositionInList(j)
<1> USE DEF IInv, TypeOK
<1>1. instancias \in Seq(Instancias) /\ Len(instancias) \in Nat
  BY KnownType DEF DistributionTypeOK
<1>2. /\ Len(instancias') = Len(instancias) + 1
      /\ \A p \in 1..Len(instancias) : instancias'[p] = instancias[p]
  BY <1>1, AppendProperties DEF AddNew
<1>3. PositionInList(j) \in 1..Len(instancias) /\ instancias[PositionInList(j)] = j
  BY PositionType
<1>4. PositionInList(j) \in 1..Len(instancias') /\ instancias'[PositionInList(j)] = j
  BY <1>1, <1>2, <1>3
<1>5. \A p \in 1..Len(instancias') : instancias'[p] = j => p = PositionInList(j)
  BY <1>4 DEF DistributionTypeOK
<1> DEFINE q == CHOOSE p \in 1..Len(instancias') : instancias'[p] = j
<1>6. q \in 1..Len(instancias') /\ instancias'[q] = j
  BY <1>4
<1>7. q = PositionInList(j)
  BY <1>5, <1>6
<1> QED
  BY <1>7 DEF PositionInList

\* Where the positions and the distances lie.
LEMMA DistanceType ==
  ASSUME IInv, NEW i \in AliveInstancias
  PROVE  /\ Len(instancias) \in Nat
         /\ i \in Known /\ i \in Instancias
         /\ waited[i] \in Nat
         /\ PositionInList(i) \in 1..Len(instancias)
         /\ PositionInList(SettledLast) \in 1..Len(instancias)
         /\ Distance(i) \in 1..Len(instancias)
<1>1. /\ Len(instancias) \in Nat
      /\ i \in Known /\ i \in Instancias
      /\ waited[i] \in Nat
  BY KnownType DEF IInv, TypeOK
<1>2. SettledLast \in Known
  BY AliveMeansNotEmpty, SettledIsRight DEF TurnIsRight
<1>3. /\ PositionInList(i) \in 1..Len(instancias)
      /\ PositionInList(SettledLast) \in 1..Len(instancias)
  BY <1>1, <1>2, PositionType DEF IInv, TypeOK
<1> QED
  BY <1>1, <1>3 DEF Distance

\* The same after a step.
LEMMA DistanceTypeAfter ==
  IInv' => (\A i \in AliveInstancias :
               /\ Len(instancias) \in Nat /\ i \in Instancias
               /\ Distance(i) \in 1..Len(instancias))'
<1>1. IInv => \A i \in AliveInstancias :
                 /\ Len(instancias) \in Nat /\ i \in Instancias
                 /\ Distance(i) \in 1..Len(instancias)
  BY DistanceType
<1> QED
  BY <1>1, PTL

\* With the list free it is the turn itself that counts.
LEMMA FreeIsSettled ==
  ASSUME ListMutexIsFree, UNCHANGED simulation
  PROVE  /\ SettledLast = lastInstanciaChosen /\ SettledPass = firstAlreadyPass
         /\ SettledLast' = lastInstanciaChosen' /\ SettledPass' = firstAlreadyPass'
BY DEF ListMutexIsFree, simulation, SettledLast, SettledPass

\* A choice brings the turn nearer to everybody it passes over.
LEMMA ChoiceStep ==
  ASSUME IInv, WaitInv, NEW k \in Keys, ChooseInstancia(k), IInv'
  PROVE  WaitInv'
<1> SUFFICES ASSUME algorithm = "EL", algorithm' = "EL" PROVE WaitInv'
  BY DEF ChooseInstancia, WaitInv
<1>1. UNCHANGED <<instancias, fallen, algorithm>>
  BY DEF ChooseInstancia, list
<1>2. UNCHANGED AliveInstancias /\ (\A i : PositionInList(i)' = (CHOOSE p \in 1..Len(instancias) : instancias[p] = i))
  BY <1>1 DEF AliveInstancias, Known, PositionInList
<1>3. waited' = WaitedAfter(Chosen(k))
  BY DEF ChooseInstancia
<1>4. CASE AliveInstancias = {}
  <2>1. \A i \in Instancias : waited'[i] = 0
    BY <1>3, <1>4 DEF WaitedAfter
  <2> QED
    BY <1>2, <1>4, <2>1 DEF WaitInv
<1>5. CASE AliveInstancias # {}
  <2> DEFINE c == NextOf(SettledLast, SettledPass)
             pos(i) == PositionInList(i)
  <2>0. /\ SettledLast = lastInstanciaChosen /\ SettledPass = firstAlreadyPass
        /\ SettledLast' = lastInstanciaChosen' /\ SettledPass' = firstAlreadyPass'
        /\ SettledPass \in BOOLEAN /\ TurnIsRight(SettledLast, SettledPass)
    BY FreeIsSettled, SettledIsRight DEF ChooseInstancia
  <2>1. /\ c \in AliveInstancias /\ Chosen(k) = c
        /\ EquitativeLoad /\ c = NextInstancia
    <3>1. c \in AliveInstancias
      BY <1>5, <2>0, NextIsAlive DEF IInv, TypeOK
    <3> QED
      BY <1>5, <2>0, <3>1 DEF Chosen, ChosenBy, ChooseInstancia, TakeTurn,
                               NextInstancia
  <2>2. /\ AliveInstancias \subseteq Known /\ AfterLast(SettledLast) \subseteq AliveInstancias
        /\ NoInstancia \notin Known
    BY KnownType DEF IInv, TypeOK, AfterLast
  <2>3. SettledLast' = c
    BY <2>0, <2>1, <2>2 DEF EquitativeLoad
  <2>4. ~SettledPass => IsFirstTurn(SettledLast, SettledPass)
    BY <1>5, <2>0, AliveMeansNotEmpty, HeadHasItsTurn DEF IInv, TypeOK
  <2>5. SettledPass' = TRUE
    BY <1>5, <2>0, <2>1, SearchLeaves DEF EquitativeLoad, IInv, TypeOK
  <2>6. \A i : PositionInList(i)' = PositionInList(i)
    BY <1>2 DEF PositionInList
  <2>7. ASSUME NEW i \in AliveInstancias
        PROVE  Distance(i)' = IF pos(i) > pos(c) THEN pos(i) - pos(c)
                              ELSE Len(instancias) - pos(c) + pos(i)
    BY <1>1, <2>3, <2>6 DEF Distance
  <2>8. ASSUME NEW i \in AliveInstancias, i # c
        PROVE  pos(i) # pos(c)
    BY <2>1, <2>2, <2>8, PositionType DEF IInv, TypeOK
  <2>9. ASSUME NEW i \in AliveInstancias
        PROVE  /\ Len(instancias) \in Nat /\ waited[i] \in Nat
               /\ pos(i) \in 1..Len(instancias)
               /\ pos(SettledLast) \in 1..Len(instancias)
    BY DistanceType
  <2>10. ASSUME NEW i \in AliveInstancias
         PROVE  waited'[i] = IF i = c THEN 0 ELSE waited[i] + 1
    BY <1>3, <2>1, <2>2, KnownType DEF WaitedAfter, IInv, TypeOK
  <2>11. ASSUME NEW i \in AliveInstancias
         PROVE  waited'[i] + Distance(i)' <= Len(instancias)
    <3> HIDE DEF c
    <3>1. /\ Len(instancias) \in Nat /\ waited[i] \in Nat
          /\ pos(i) \in 1..Len(instancias) /\ pos(c) \in 1..Len(instancias)
          /\ pos(SettledLast) \in 1..Len(instancias)
      BY <2>1, <2>9
    <3>2. CASE i = c
      BY <2>7, <2>10, <3>1, <3>2
    <3>3. CASE i # c /\ ~SettledPass
      <4>1. c = FirstOf(AliveInstancias)
        BY <2>4, <3>3 DEF c, NextOf
      <4>2. pos(c) < pos(i)
        BY <2>2, <2>8, <3>1, <3>3, <4>1, FirstOfType DEF IInv, TypeOK
      <4>3. waited[i] = 0
        BY <2>2, <3>3, KnownType DEF WaitInv, IInv, TypeOK
      <4> QED
        BY <2>7, <2>10, <3>1, <3>3, <4>2, <4>3
    <3>4. CASE i # c /\ SettledPass
      <4>1. waited[i] + Distance(i) <= Len(instancias)
        BY <3>4 DEF WaitInv
      <4>2. CASE AfterLast(SettledLast) = {}
        <5>1. c = FirstOf(AliveInstancias)
          BY <3>4, <4>2 DEF c, NextOf, StartsAgain, IsFirstTurn
        <5>2. pos(c) < pos(i)
          BY <2>2, <2>8, <3>1, <3>4, <5>1, FirstOfType DEF IInv, TypeOK
        <5>3. pos(i) <= pos(SettledLast)
          BY <3>1, <4>2 DEF AfterLast
        <5> QED
          BY <2>7, <2>10, <3>1, <3>4, <4>1, <5>2, <5>3 DEF Distance
      <4>3. CASE AfterLast(SettledLast) # {}
        <5>1. c = FirstOf(AfterLast(SettledLast))
          BY <3>4, <4>3 DEF c, NextOf, StartsAgain, IsFirstTurn
        <5>2. /\ c \in AfterLast(SettledLast)
              /\ (i \in AfterLast(SettledLast) => pos(c) <= pos(i))
          BY <2>2, <4>3, <5>1, FirstOfType DEF IInv, TypeOK
        <5>3. pos(c) > pos(SettledLast)
          BY <3>1, <5>2 DEF AfterLast
        <5>4. i \in AfterLast(SettledLast) <=> pos(i) > pos(SettledLast)
          BY <3>1 DEF AfterLast
        <5>5. pos(i) # pos(c)
          BY <2>8, <3>4
        <5> QED
          BY <2>7, <2>10, <3>1, <3>4, <4>1, <5>2, <5>3, <5>4, <5>5 DEF Distance
      <4> QED
        BY <4>2, <4>3
    <3> QED
      BY <3>2, <3>3, <3>4
  <2> QED
    BY <1>1, <1>2, <2>5, <2>11 DEF WaitInv
<1> QED
  BY <1>4, <1>5

\* An arrival makes the lap longer by as much as it takes anybody away.
LEMMA ArrivalKeepsWaits ==
  ASSUME IInv, WaitInv, NEW i \in Instancias, Arrives(i), IInv'
  PROVE  WaitInv'
<1> SUFFICES ASSUME algorithm = "EL", algorithm' = "EL" PROVE WaitInv'
  BY DEF Arrives, WaitInv
<1>0. /\ SettledLast = lastInstanciaChosen /\ SettledPass = firstAlreadyPass
      /\ SettledLast' = lastInstanciaChosen' /\ SettledPass' = firstAlreadyPass'
  BY FreeIsSettled DEF Arrives
<1>1. /\ waited' = [waited EXCEPT ![i] = 0] /\ SettledPass' = SettledPass
      /\ waited \in [Instancias -> Nat]
  BY <1>0 DEF Arrives, AddNew, InstanciaIsBack, turn, IInv, TypeOK
<1>2. CASE ~SettledPass
  BY <1>1, <1>2 DEF WaitInv
<1>3. CASE SettledPass
  <2> SUFFICES ASSUME NEW j \in AliveInstancias'
               PROVE  waited'[j] + Distance(j)' <= Len(instancias')
    BY <1>1, <1>3 DEF WaitInv
  <2>1. /\ Len(instancias') \in Nat /\ j \in Instancias
        /\ Distance(j)' \in 1..Len(instancias')
    BY DistanceTypeAfter
  <2>2. CASE j = i
    BY <1>1, <2>1, <2>2
  <2>3. CASE j # i
    <3>1. j \in AliveInstancias /\ waited'[j] = waited[j]
      <4>1. Known' \subseteq Known \union {i}
        <5>1. CASE AddNew(i)
          <6>1. instancias \in Seq(Instancias)
            BY DEF IInv, TypeOK, DistributionTypeOK
          <6>2. /\ Len(instancias') = Len(instancias) + 1
                /\ \A p \in 1..Len(instancias) : instancias'[p] = instancias[p]
                /\ instancias'[Len(instancias) + 1] = i
            BY <5>1, <6>1, AppendProperties DEF AddNew
          <6>3. Len(instancias) \in Nat
            BY <6>1, LenProperties
          <6> QED
            BY <6>2, <6>3 DEF Known
        <5>2. CASE InstanciaIsBack(i)
          BY <5>2 DEF InstanciaIsBack, Known
        <5> QED
          BY <5>1, <5>2 DEF Arrives
      <4>2. fallen \subseteq fallen' \union {i}
        BY DEF Arrives, AddNew, InstanciaIsBack
      <4> QED
        BY <1>1, <2>1, <2>3, <4>1, <4>2 DEF AliveInstancias
    <3>2. waited[j] + Distance(j) <= Len(instancias)
      BY <1>3, <3>1 DEF WaitInv
    <3>3. /\ Len(instancias) \in Nat /\ waited[j] \in Nat /\ j \in Known
          /\ PositionInList(j) \in 1..Len(instancias)
          /\ PositionInList(SettledLast) \in 1..Len(instancias)
      BY <3>1, DistanceType
    <3>4. instancias # <<>> /\ SettledLast \in Known
      BY <3>1, AliveMeansNotEmpty, SettledIsRight DEF TurnIsRight
    <3>5. SettledLast' = SettledLast
      BY <1>0, <3>4 DEF Arrives, AddNew, InstanciaIsBack, turn
    <3>6. CASE AddNew(i)
      <4>1. /\ PositionInList(j)' = PositionInList(j)
            /\ PositionInList(SettledLast)' = PositionInList(SettledLast)
        <5>1. \A u \in Known : PositionInList(u)' = PositionInList(u)
          BY <3>6, PositionIsKept
        <5> QED
          BY <3>3, <3>4, <3>5, <5>1 DEF PositionInList
      <4>2. Len(instancias') = Len(instancias) + 1
        BY <3>6, AppendProperties DEF AddNew, IInv, TypeOK, DistributionTypeOK
      <4> QED
        BY <3>1, <3>2, <3>3, <4>1, <4>2 DEF Distance
    <3>7. CASE InstanciaIsBack(i)
      <4>1. Distance(j)' = Distance(j) /\ Len(instancias') = Len(instancias)
        BY <3>5, <3>7 DEF InstanciaIsBack, Distance, PositionInList
      <4> QED
        BY <3>1, <3>2, <4>1
    <3> QED
      BY <3>6, <3>7 DEF Arrives
  <2> QED
    BY <2>2, <2>3
<1> QED
  BY <1>2, <1>3

LEMMA WaitHolds ==
  IInv /\ WaitInv /\ [Next]_vars /\ IInv' => WaitInv'
<1> SUFFICES ASSUME IInv, WaitInv, [Next]_vars, IInv' PROVE WaitInv'
  OBVIOUS
<1>1. ASSUME UNCHANGED <<instancias, algorithm>>,
             SettledLast' = SettledLast, SettledPass' = SettledPass,
             AliveInstancias' \subseteq AliveInstancias,
             \A i \in Instancias : waited'[i] \in {waited[i], 0}
      PROVE  WaitInv'
  <2>1. \A i : Distance(i)' = Distance(i)
    BY <1>1 DEF Distance, PositionInList
  <2> SUFFICES ASSUME algorithm = "EL", algorithm' = "EL", SettledPass,
                      NEW i \in AliveInstancias'
               PROVE  waited'[i] + Distance(i) <= Len(instancias)
    BY <1>1, <2>1 DEF WaitInv
  <2>2. /\ waited[i] \in Nat /\ Len(instancias) \in Nat /\ i \in Instancias
        /\ Distance(i) \in 1..Len(instancias)
    BY <1>1, DistanceType
  <2>3. waited[i] + Distance(i) <= Len(instancias)
    BY <1>1 DEF WaitInv
  <2> QED
    BY <1>1, <2>2, <2>3
<1>2. waited \in [Instancias -> Nat]
  BY DEF IInv, TypeOK
<1>9. ASSUME UNCHANGED <<turn, simulation>>
      PROVE  SettledLast' = SettledLast /\ SettledPass' = SettledPass
  BY <1>9 DEF turn, simulation, SettledLast, SettledPass
<1>3. ASSUME NEW i \in Instancias, Falls(i)
      PROVE  WaitInv'
  <2>1. /\ UNCHANGED <<instancias, turn, algorithm, simulation>>
        /\ AliveInstancias' \subseteq AliveInstancias
    BY <1>3 DEF Falls, InstanciaHasFallen, AliveInstancias, Known
  <2>2. \A j \in Instancias : waited'[j] \in {waited[j], 0}
    BY <1>2, <1>3 DEF Falls
  <2> QED
    BY <1>1, <1>9, <2>1, <2>2
<1>4. ASSUME NEW i \in Instancias, ReportsSpace(i)
      PROVE  WaitInv'
  BY <1>1, <1>4, <1>9 DEF ReportsSpace, AliveInstancias, Known
<1>5. ASSUME NEW k \in Keys, SimulatesAtOnce(k)
      PROVE  WaitInv'
  BY <1>1, <1>5, <1>9 DEF SimulatesAtOnce, TakeTurn, IsEquitativeLoad, list,
                          AliveInstancias, Known
<1>6. CASE SimulationStep
  BY <1>1, <1>6, SimulationKeepsTurn
<1>7. CASE UNCHANGED vars
  BY <1>1, <1>7, <1>9 DEF vars, distributionVars, list, AliveInstancias, Known
<1> QED
  BY <1>3, <1>4, <1>5, <1>6, <1>7, ArrivalKeepsWaits, ChoiceStep
     DEF Next, SimulationStep

\* An instancia that is alive all the time is passed over at most once by each
\* of the others before its turn.
THEOREM EachHasItsTurn == Spec => []RoundRobin
<1>1. Init => WaitInv
  BY DEF Init, DistributionInit, WaitInv, SettledPass
<1>2. ASSUME IInv, WaitInv PROVE RoundRobin
  <2> SUFFICES ASSUME algorithm = "EL", NEW i \in AliveInstancias
               PROVE  waited[i] <= Cardinality(Known) - 1
    BY DEF RoundRobin
  <2>1. /\ Len(instancias) \in Nat /\ waited[i] \in Nat
        /\ Distance(i) \in 1..Len(instancias) /\ i \in Instancias
    BY <1>2, DistanceType
  <2>2. waited[i] <= Len(instancias) - 1
    BY <1>2, <2>1 DEF WaitInv
  <2>3. Cardinality(Known) = Len(instancias)
    <3> DEFINE n == Len(instancias)
               g == [p \in 1..n |-> instancias[p]]
    <3>1. g \in Bijection(1..n, Known)
      <4>1. g \in Surjection(1..n, Known)
        BY DEF Known, Surjection
      <4>2. g \in Injection(1..n, Known)
        BY <1>2, <4>1 DEF IInv, TypeOK, DistributionTypeOK, Surjection, Injection, IsInjective
      <4> QED
        BY <4>1, <4>2 DEF Bijection
    <3>2. IsFiniteSet(1..n) /\ Cardinality(1..n) = n
      <4> HIDE DEF n
      <4>1. n \in Nat
        BY <2>1 DEF n
      <4>2. IsFiniteSet(1..n) /\ Cardinality(1..n) = IF 1 > n THEN 0 ELSE n - 1 + 1
        BY <4>1, FS_Interval
      <4> QED
        BY <4>1, <4>2
    <3>3. Cardinality(1..n) = Cardinality(Known)
      <4> HIDE DEF g, n
      <4> QED
        BY <3>1, <3>2, FS_Bijection DEF ExistsBijection
    <3> QED
      BY <3>2, <3>3
  <2> QED
    BY <2>2, <2>3
<1> QED
  BY <1>1, <1>2, InvStarts, InvHolds, WaitHolds, PTL DEF Spec
=============================================================================
