-------------------------- MODULE DistributionLists --------------------------
(* Lemmas about the list of instancias and the algorithms that choose from  *)
(* it, for whatever specification uses Distribution.                        *)
EXTENDS Distribution, FiniteSetTheorems, SequenceTheorems,
        WellFoundedInduction, TLAPS

-----------------------------------------------------------------------------
(* The list.                                                               *)

\* Any nonempty set of natural numbers has a least one.
LEMMA LeastNumber ==
  ASSUME NEW T \in SUBSET Nat, T # {}
  PROVE  \E x \in T : \A y \in T : x <= y
<1>1. PICK x \in T : \A y \in T : ~(<<y, x>> \in OpToRel(<, Nat))
  BY NatLessThanWellFounded, WFMin
<1>2. \A y \in T : ~(y < x)
  BY <1>1 DEF OpToRel
<1> QED
  BY <1>2

\* positionInList finds each instancia of the list where it is.
LEMMA PositionType ==
  ASSUME DistributionTypeOK, NEW i \in Known
  PROVE  /\ PositionInList(i) \in 1..Len(instancias)
         /\ instancias[PositionInList(i)] = i
<1>1. \E p \in 1..Len(instancias) : instancias[p] = i
  BY DEF Known
<1> QED
  BY <1>1 DEF PositionInList

\* The list has no instancia twice, so positions tell them apart.
LEMMA PositionIsUnique ==
  ASSUME DistributionTypeOK, NEW i \in Known, NEW p \in 1..Len(instancias),
         instancias[p] = i
  PROVE  PositionInList(i) = p
<1>1. PositionInList(i) \in 1..Len(instancias)
  BY PositionType
<1>2. instancias[PositionInList(i)] = instancias[p]
  BY PositionType
<1> QED
  BY <1>1, <1>2 DEF DistributionTypeOK

\* Whoever is in the list is an instancia, and NULL is not one.
LEMMA KnownType ==
  ASSUME DistributionTypeOK
  PROVE  /\ Len(instancias) \in Nat
         /\ Known \subseteq Instancias
         /\ AliveInstancias \subseteq Known
         /\ IsFiniteSet(AliveInstancias)
         /\ NoInstancia \notin Known
<1>1. instancias \in Seq(Instancias)
  BY DEF DistributionTypeOK
<1>2. Len(instancias) \in Nat
  BY <1>1, LenProperties
<1>3. Known \subseteq Instancias
  BY <1>1, ElementOfSeq DEF Known
<1>4. AliveInstancias \subseteq Known
  BY DEF AliveInstancias
<1>5. IsFiniteSet(AliveInstancias)
  BY <1>3, <1>4, FS_Subset, DistributionAssumption
<1> QED
  BY <1>2, <1>3, <1>4, <1>5, DistributionAssumption

\* list_find finds the first one if there is one.
LEMMA FirstOfType ==
  ASSUME DistributionTypeOK, NEW S \in SUBSET Known, S # {}
  PROVE  /\ FirstOf(S) \in S
         /\ \A j \in S : PositionInList(FirstOf(S)) <= PositionInList(j)
<1> DEFINE T == {PositionInList(i) : i \in S}
<1>1. Len(instancias) \in Nat
  BY KnownType
<1>2. \A i \in S : PositionInList(i) \in Nat
  BY <1>1, PositionType
<1>3. T \in SUBSET Nat /\ T # {}
  BY <1>2
<1>4. PICK x \in T : \A y \in T : x <= y
  <2> HIDE DEF T
  <2> QED
    BY <1>3, LeastNumber
<1>5. PICK i \in S : PositionInList(i) = x
  OBVIOUS
<1>6. \A j \in S : PositionInList(i) <= PositionInList(j)
  BY <1>4, <1>5
<1> QED
  BY <1>5, <1>6 DEF FirstOf

\* The first one stays the first when others are taken away.
LEMMA FirstOfFewer ==
  ASSUME DistributionTypeOK, NEW S \in SUBSET Known, NEW T \in SUBSET S,
         S # {}, FirstOf(S) \in T
  PROVE  FirstOf(T) = FirstOf(S)
<1>1. FirstOf(T) \in T /\ PositionInList(FirstOf(T)) <= PositionInList(FirstOf(S))
  BY FirstOfType
<1>2. PositionInList(FirstOf(S)) <= PositionInList(FirstOf(T))
  BY <1>1, FirstOfType
<1>3. Len(instancias) \in Nat
  BY KnownType
<1>4. PositionInList(FirstOf(S)) = PositionInList(FirstOf(T))
  BY <1>1, <1>2, <1>3, PositionType
<1> QED
  BY <1>1, <1>4, PositionType

\* list_get of the living ones answers one of them for every index in range:
\* the number of living ones in front is a different index for each.
LEMMA AliveAtType ==
  ASSUME DistributionTypeOK,
         NEW index \in 0..(Cardinality(AliveInstancias) - 1)
  PROVE  AliveAt(index) \in AliveInstancias
<1> DEFINE n == Cardinality(AliveInstancias)
           before(i) == {j \in AliveInstancias :
                            PositionInList(j) < PositionInList(i)}
           rank == [i \in AliveInstancias |-> Cardinality(before(i))]
<1>1. IsFiniteSet(AliveInstancias) /\ n \in Nat
  BY KnownType, FS_CardinalityType
<1>2. \A i \in AliveInstancias : PositionInList(i) \in Nat
  BY KnownType, PositionType
<1>3. ASSUME NEW i \in AliveInstancias
      PROVE  /\ IsFiniteSet(before(i)) /\ Cardinality(before(i)) \in 0..(n - 1)
  <2>1. before(i) \subseteq AliveInstancias /\ i \notin before(i)
    BY <1>2
  <2>2. IsFiniteSet(before(i)) /\ Cardinality(before(i)) <= n
    BY <1>1, <2>1, FS_Subset
  <2>3. Cardinality(before(i)) # n
    BY <1>1, <2>1, FS_Subset
  <2>4. Cardinality(before(i)) \in Nat
    BY <2>2, FS_CardinalityType
  <2> QED
    BY <1>1, <2>2, <2>3, <2>4
<1>4. ASSUME NEW i \in AliveInstancias, NEW j \in AliveInstancias,
             PositionInList(i) < PositionInList(j)
      PROVE  rank[i] # rank[j]
  <2>1. before(i) \subseteq before(j)
    BY <1>2, <1>4
  <2>2. i \in before(j) /\ i \notin before(i)
    BY <1>2, <1>4
  <2>3. Cardinality(before(i)) # Cardinality(before(j))
    BY <1>3, <2>1, <2>2, FS_Subset
  <2> QED
    BY <2>3
<1>5. ASSUME NEW i \in AliveInstancias, NEW j \in AliveInstancias, rank[i] = rank[j]
      PROVE  i = j
  <2>1. PositionInList(i) = PositionInList(j)
    BY <1>2, <1>4, <1>5
  <2> QED
    BY <2>1, KnownType, PositionType
<1>6. IsFiniteSet(0..(n - 1)) /\ Cardinality(0..(n - 1)) = n
  <2>1. n - 1 \in Int /\ 0 \in Int /\ 0 <= n - 1
    BY <1>1
  <2> HIDE DEF n
  <2> QED
    BY <1>1, <2>1, FS_Interval
<1>7. rank \in Injection(AliveInstancias, 0..(n - 1))
  <2> HIDE DEF before
  <2> QED
    BY <1>3, <1>5 DEF Injection, IsInjective
<1>8. rank \in Surjection(AliveInstancias, 0..(n - 1))
  <2> HIDE DEF rank
  <2> QED
    BY <1>1, <1>6, <1>7, FS_Injection
<1>9. PICK i \in AliveInstancias : rank[i] = index
  BY <1>8 DEF Surjection
<1>10. Cardinality({j \in AliveInstancias : PositionInList(j) < PositionInList(i)}) = index
  BY <1>9
<1> QED
  BY <1>10 DEF AliveAt

-----------------------------------------------------------------------------
(* The invariant.  The last one chosen is in the list unless it is empty, and *)
(* is the head of the list until the head has had its turn.                  *)

TurnIsRight(last, pass) ==
    /\ instancias # <<>> => last \in Known
    /\ instancias # <<>> /\ ~pass => last = instancias[1]
TurnInv == TurnIsRight(lastInstanciaChosen, firstAlreadyPass)

\* Somebody alive means that the list is not empty.
LEMMA AliveMeansNotEmpty ==
  ASSUME AliveInstancias # {}
  PROVE  instancias # <<>>
BY DEF AliveInstancias, Known

\* The head of the list is an instancia of the list.
LEMMA HeadIsKnown ==
  ASSUME DistributionTypeOK, instancias # <<>>
  PROVE  instancias[1] \in Known /\ PositionInList(instancias[1]) = 1
<1>1. instancias \in Seq(Instancias)
  BY DEF DistributionTypeOK
<1>2. 1 \in 1..Len(instancias) /\ instancias[1] \in Known
  BY <1>1, EmptySeq, LenProperties DEF Known
<1> QED
  BY <1>2, PositionIsUnique

\* Until the head has had its turn, it is its turn.
LEMMA HeadHasItsTurn ==
  ASSUME DistributionTypeOK, NEW last, NEW pass \in BOOLEAN,
         TurnIsRight(last, pass), instancias # <<>>, ~pass
  PROVE  IsFirstTurn(last, pass)
BY HeadIsKnown DEF IsFirstTurn, TurnIsRight

\* getNextInstancia finds somebody: it looks from the last one chosen to the
\* tail, and from the head again.
LEMMA NextIsAlive ==
  ASSUME DistributionTypeOK, NEW last, NEW pass \in BOOLEAN,
         TurnIsRight(last, pass), AliveInstancias # {}
  PROVE  NextOf(last, pass) \in AliveInstancias
<1>1. instancias # <<>>
  BY AliveMeansNotEmpty
<1>2. AliveInstancias \subseteq Known /\ AfterLast(last) \subseteq AliveInstancias
  BY KnownType DEF AfterLast
<1>3. FirstOf(AliveInstancias) \in AliveInstancias
  BY <1>2, FirstOfType
<1>4. AfterLast(last) # {} => FirstOf(AfterLast(last)) \in AliveInstancias
  BY <1>2, FirstOfType
<1>5. CASE IsFirstTurn(last, pass) \/ StartsAgain(last, pass)
  BY <1>3, <1>5 DEF NextOf, StartsAgain
<1>6. CASE ~IsFirstTurn(last, pass) /\ AfterLast(last) # {}
  BY <1>4, <1>6 DEF NextOf, StartsAgain
<1>7. ~IsFirstTurn(last, pass) => pass
  BY <1>1, HeadHasItsTurn
<1> QED
  BY <1>5, <1>6, <1>7 DEF StartsAgain

\* What the search leaves in the two globals: an instancia of the list, and
\* the flag, so that whose turn it is would be wrong if it were left so.
LEMMA SearchLeaves ==
  ASSUME DistributionTypeOK, NEW last, NEW pass \in BOOLEAN,
         TurnIsRight(last, pass), AliveInstancias # {}
  PROVE  /\ LastAfterSearch(last, pass) \in Known
         /\ PassAfterSearch(last, pass) = TRUE
<1>1. instancias # <<>>
  BY AliveMeansNotEmpty
<1>2. ~pass => IsFirstTurn(last, pass)
  BY <1>1, HeadHasItsTurn
<1>3. IsFirstTurn(last, pass) \in BOOLEAN /\ StartsAgain(last, pass) \in BOOLEAN
  BY DEF IsFirstTurn, StartsAgain
<1>4. PassAfterSearch(last, pass) = TRUE
  BY <1>2, <1>3 DEF PassAfterSearch
<1>5. last \in Known /\ instancias[1] \in Known
  BY <1>1, HeadIsKnown DEF TurnIsRight
<1> QED
  BY <1>4, <1>5 DEF LastAfterSearch

\* Whatever the algorithm and the turn, what it answers is a living instancia
\* or NULL.
LEMMA ChosenIsAlive ==
  ASSUME DistributionTypeOK, NEW k, NEW last, NEW pass
  PROVE  ChosenBy(k, last, pass) \in AliveInstancias \union {NoInstancia}
<1>1. AliveInstancias \subseteq Known /\ Known \subseteq Instancias
  BY KnownType
<1>2. CASE AliveInstancias = {}
  BY <1>2 DEF ChosenBy
<1>3. CASE AliveInstancias # {} /\ algorithm = "EL"
  <2>1. AfterLast(last) \subseteq AliveInstancias
    BY DEF AfterLast
  <2>2. /\ FirstOf(AliveInstancias) \in AliveInstancias
        /\ AfterLast(last) # {} => FirstOf(AfterLast(last)) \in AliveInstancias
    BY <1>1, <1>3, <2>1, FirstOfType
  <2> QED
    BY <1>3, <2>2 DEF ChosenBy, NextOf
<1>4. CASE AliveInstancias # {} /\ algorithm = "LSU"
  <2> DEFINE T == {spaceUsed[i] : i \in AliveInstancias}
             S == {i \in AliveInstancias :
                     \A j \in AliveInstancias : spaceUsed[i] <= spaceUsed[j]}
  <2>1. T \in SUBSET Nat /\ T # {}
    BY <1>1, <1>4, DistributionAssumption DEF DistributionTypeOK
  <2>2. PICK x \in T : \A y \in T : x <= y
    <3> HIDE DEF T
    <3> QED
      BY <2>1, LeastNumber
  <2>3. S # {} /\ S \subseteq AliveInstancias
    BY <2>2
  <2>4. FirstOf(S) \in S
    <3> HIDE DEF S
    <3> QED
      BY <1>1, <2>3, FirstOfType
  <2>5. ChosenBy(k, last, pass) = FirstOf(S)
    BY <1>4 DEF ChosenBy, LeastSpaceUsed
  <2> QED
    BY <1>1, <2>3, <2>4, <2>5
<1>5. CASE AliveInstancias # {} /\ algorithm \notin {"EL", "LSU"}
  <2>1. ChosenBy(k, last, pass) = AliveAt(KeyExplicitIndex(k))
    BY <1>5 DEF ChosenBy
  <2>2. CASE KeyExplicitIndex(k) \in 0..(Cardinality(AliveInstancias) - 1)
    BY <1>1, <2>1, <2>2, AliveAtType
  <2>3. CASE KeyExplicitIndex(k) \notin 0..(Cardinality(AliveInstancias) - 1)
    BY <2>1, <2>3 DEF AliveAt
  <2> QED
    BY <2>2, <2>3
<1> QED
  BY <1>2, <1>3, <1>4, <1>5

-----------------------------------------------------------------------------
(* The steps.                                                              *)

\* A choice gives the turn to somebody of the list.
LEMMA TurnStep ==
  ASSUME DistributionTypeOK, TurnInv, TakeTurn, UNCHANGED <<list, algorithm>>
  PROVE  DistributionTypeOK' /\ TurnInv'
<1>1. UNCHANGED <<instancias, fallen, spaceUsed, algorithm>>
  BY DEF list
<1>2. UNCHANGED Known
  BY <1>1 DEF Known
<1>3. CASE UNCHANGED turn
  BY <1>1, <1>2, <1>3 DEF turn, DistributionTypeOK, TurnInv, TurnIsRight
<1>4. CASE EquitativeLoad /\ AliveInstancias # {}
  <2>0. firstAlreadyPass \in BOOLEAN
    BY DEF DistributionTypeOK
  <2>1. NextInstancia \in AliveInstancias
    BY <1>4, <2>0, NextIsAlive DEF NextInstancia, TurnInv
  <2>2. AliveInstancias \subseteq Known /\ NoInstancia \notin Known
    BY KnownType
  <2>3. lastInstanciaChosen' = NextInstancia
    BY <1>4, <2>1, <2>2 DEF EquitativeLoad
  <2>4. lastInstanciaChosen' \in Known'
    BY <1>2, <2>1, <2>2, <2>3
  <2>5. firstAlreadyPass' = TRUE
    BY <1>4, <2>0, SearchLeaves DEF EquitativeLoad, TurnInv
  <2> QED
    BY <1>1, <1>2, <2>4, <2>5 DEF DistributionTypeOK, TurnInv, TurnIsRight
<1> QED
  BY <1>3, <1>4 DEF TakeTurn

\* An instancia that arrives is appended once.
LEMMA ArrivalStep ==
  ASSUME DistributionTypeOK, TurnInv, NEW i \in Instancias,
         AddNew(i) \/ InstanciaIsBack(i), UNCHANGED algorithm,
         spaceUsed' \in [Instancias -> 0..MaxSpace]
  PROVE  DistributionTypeOK' /\ TurnInv'
<1>1. UNCHANGED algorithm /\ spaceUsed' \in [Instancias -> 0..MaxSpace]
  OBVIOUS
<1>2. CASE AddNew(i)
  <2>1. /\ instancias \in Seq(Instancias)
        /\ Len(instancias) \in Nat
    BY KnownType DEF DistributionTypeOK
  <2>2. /\ instancias' \in Seq(Instancias)
        /\ Len(instancias') = Len(instancias) + 1
        /\ \A p \in 1..Len(instancias) : instancias'[p] = instancias[p]
        /\ instancias'[Len(instancias) + 1] = i
    BY <1>2, <2>1, AppendProperties DEF AddNew
  <2>3. Known' = Known \union {i} /\ i \notin Known
    BY <1>2, <2>1, <2>2 DEF AddNew, Known
  <2>4. \A p \in 1..Len(instancias) : instancias[p] # i
    BY <2>3 DEF Known
  <2>5. \A p, q \in 1..Len(instancias') : instancias'[p] = instancias'[q] => p = q
    <3>1. ASSUME NEW p \in 1..(Len(instancias) + 1), NEW q \in 1..(Len(instancias) + 1),
                 instancias'[p] = instancias'[q]
          PROVE  p = q
      <4>1. CASE p \in 1..Len(instancias) /\ q \in 1..Len(instancias)
        BY <2>2, <3>1, <4>1 DEF DistributionTypeOK
      <4>2. CASE p = Len(instancias) + 1 /\ q \in 1..Len(instancias)
        BY <2>2, <2>4, <3>1, <4>2
      <4>3. CASE p \in 1..Len(instancias) /\ q = Len(instancias) + 1
        BY <2>2, <2>4, <3>1, <4>3
      <4> QED
        BY <2>1, <4>1, <4>2, <4>3
    <3> QED
      BY <2>2, <3>1
  <2>6. CASE instancias = <<>>
    <3>1. Len(instancias) = 0 /\ lastInstanciaChosen' = i
      BY <1>2, <2>1, <2>6, EmptySeq DEF AddNew
    <3>2. instancias'[1] = i
      BY <2>2, <3>1
    <3> QED
      BY <1>1, <1>2, <2>2, <2>3, <2>5, <3>1, <3>2
         DEF AddNew, DistributionTypeOK, TurnInv, TurnIsRight
  <2>7. CASE instancias # <<>>
    <3>1. 1 \in 1..Len(instancias) /\ lastInstanciaChosen' = lastInstanciaChosen
      BY <1>2, <2>1, <2>7, EmptySeq DEF AddNew
    <3>2. instancias'[1] = instancias[1]
      BY <2>2, <3>1
    <3> QED
      BY <1>1, <1>2, <2>2, <2>3, <2>5, <2>7, <3>1, <3>2
         DEF AddNew, DistributionTypeOK, TurnInv, TurnIsRight
  <2> QED
    BY <2>6, <2>7
<1>3. CASE InstanciaIsBack(i)
  BY <1>1, <1>3 DEF InstanciaIsBack, turn, Known, DistributionTypeOK, TurnInv, TurnIsRight
<1> QED
  BY <1>2, <1>3
=============================================================================
