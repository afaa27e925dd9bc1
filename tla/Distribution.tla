---------------------------- MODULE Distribution ----------------------------
(***************************************************************************)
(* The coordinator's list of instancias and the three algorithms that      *)
(* choose which of them keeps a new key: equitative load (EL), least space *)
(* used (LSU) and key explicit (KE), with the simulation that predicts the *)
(* choice for the operator's status command.                               *)
(*                                                                         *)
(* All of this is read and written under instanciasListMutex, so a choice  *)
(* is one step.  DistributionCalls checks the algorithms by themselves and *)
(* takes the simulation apart; Coordinador has the algorithms within the   *)
(* operations of the coordinator.                                          *)
(***************************************************************************)
EXTENDS Integers, Sequences, FiniteSets

CONSTANTS
    Instancias,   \* the instancias (names) that may connect
    Keys,         \* the keys that may be stored
    Letter,       \* first character of each key, in lower case, minus 'a'
    Algorithms,   \* the values of ALGORITHM in the configuration file
    MaxSpace,     \* bound: entries an instancia reports as used
    NoInstancia   \* NULL

ASSUME DistributionAssumption ==
    /\ IsFiniteSet(Instancias) /\ NoInstancia \notin Instancias
    /\ Letter \in [Keys -> Int]
    /\ Algorithms \subseteq {"EL", "LSU", "KE"}
    /\ MaxSpace \in Nat

VARIABLES
    instancias,          \* the list, in order of first arrival
    fallen,              \* the instancias with isFallen set
    spaceUsed,           \* what each instancia last reported
    lastInstanciaChosen,
    firstAlreadyPass,
    algorithm            \* read once, when the coordinator starts

turn == <<lastInstanciaChosen, firstAlreadyPass>>
list == <<instancias, fallen, spaceUsed>>
distributionVars == <<list, turn, algorithm>>

-----------------------------------------------------------------------------
(* Lists.                                                                  *)

Known == {instancias[p] : p \in 1..Len(instancias)}
AliveInstancias == Known \ fallen

\* positionInList, counted from 1
PositionInList(i) == CHOOSE p \in 1..Len(instancias) : instancias[p] = i

\* list_find: the first of those that satisfy the condition
FirstOf(S) ==
    CHOOSE i \in S : \A j \in S : PositionInList(i) <= PositionInList(j)

\* list_get on the list of the living ones, NULL out of range
AliveAt(index) ==
    IF index \in 0..(Cardinality(AliveInstancias) - 1)
    THEN CHOOSE i \in AliveInstancias :
            Cardinality({j \in AliveInstancias :
                            PositionInList(j) < PositionInList(i)}) = index
    ELSE NoInstancia

-----------------------------------------------------------------------------
(* The algorithms.  They are called only when somebody is alive.  Whose turn *)
(* it is depends on the two globals, given here as `last' and `pass'.        *)

\* instanciaIsNextToActual takes anyone, once, while the head of the list
\* counts as the last one chosen and has not been.
IsFirstTurn(last, pass) == PositionInList(last) = 1 /\ ~pass
AfterLast(last) == {i \in AliveInstancias :
                      PositionInList(i) >= PositionInList(last) + 1}
\* the search has to start again from the head of the list
StartsAgainNever(last, pass) == FALSE  \* mistaken variant: it ends at the tail
StartsAgain(last, pass) ==
    ~IsFirstTurn(last, pass) /\ AfterLast(last) = {} /\ pass

\* what getNextInstancia answers
NextOf(last, pass) ==
    CASE IsFirstTurn(last, pass) \/ StartsAgain(last, pass) ->
            FirstOf(AliveInstancias)
      [] ~IsFirstTurn(last, pass) /\ AfterLast(last) # {} ->
            FirstOf(AfterLast(last))
      [] OTHER -> NoInstancia
NextInstancia == NextOf(lastInstanciaChosen, firstAlreadyPass)
\* and what it leaves in the two globals: a search that starts again makes the
\* head the last one chosen, and keeps it so if it finds somebody.
LastAfterSearch(last, pass) ==
    IF StartsAgain(last, pass) /\ NextOf(last, pass) # NoInstancia
    THEN instancias[1] ELSE last
PassAfterSearch(last, pass) ==
    pass \/ IsFirstTurn(last, pass) \/ StartsAgain(last, pass)
GetNextInstancia ==
    /\ lastInstanciaChosen' = LastAfterSearch(lastInstanciaChosen, firstAlreadyPass)
    /\ firstAlreadyPass' = PassAfterSearch(lastInstanciaChosen, firstAlreadyPass)

EquitativeLoadSkips ==             \* mistaken variant: the turn is not kept
    GetNextInstancia
EquitativeLoad ==
    /\ lastInstanciaChosen' =
            IF NextInstancia # NoInstancia THEN NextInstancia
            ELSE LastAfterSearch(lastInstanciaChosen, firstAlreadyPass)
    /\ firstAlreadyPass' = PassAfterSearch(lastInstanciaChosen, firstAlreadyPass)

LeastSpaceUsed ==
    FirstOf({i \in AliveInstancias :
                \A j \in AliveInstancias : spaceUsed[i] <= spaceUsed[j]})

CantChars == 26
CharsByInstanceFloor(n) ==         \* mistaken variant: no remainder
    IF n > CantChars THEN 1 ELSE CantChars \div n
CharsByInstance(n) ==
    (CantChars \div n) + (IF CantChars % n # 0 THEN 1 ELSE 0)
\* the division of C rounds towards zero
CDivide(a, b) == IF a >= 0 THEN a \div b ELSE -((-a) \div b)
KeyExplicitIndex(k) ==
    CDivide(Letter[k], CharsByInstance(Cardinality(AliveInstancias)))

\* applyDistributionAlgorithm: what either function pointer would answer
ChosenBy(k, last, pass) ==
    CASE AliveInstancias = {} -> NoInstancia
      [] AliveInstancias # {} /\ algorithm = "EL"  -> NextOf(last, pass)
      [] AliveInstancias # {} /\ algorithm = "LSU" -> LeastSpaceUsed
      [] OTHER -> AliveAt(KeyExplicitIndex(k))
Chosen(k) == ChosenBy(k, lastInstanciaChosen, firstAlreadyPass)
\* what the call of distributionAlgorithm changes
TakeTurn == IF algorithm = "EL" /\ AliveInstancias # {} THEN EquitativeLoad
                                                        ELSE UNCHANGED turn

-----------------------------------------------------------------------------
(* What happens to the list.                                               *)

AddNewTwice(i) ==                  \* mistaken variant: its name is not looked up
    /\ instancias' = Append(instancias, i)
    /\ lastInstanciaChosen' = IF instancias = <<>> THEN i ELSE lastInstanciaChosen
    /\ UNCHANGED <<fallen, firstAlreadyPass>>
\* createNewInstancia: the first one counts as the last chosen
AddNew(i) ==
    /\ i \notin Known
    /\ instancias' = Append(instancias, i)
    /\ lastInstanciaChosen' = IF instancias = <<>> THEN i ELSE lastInstanciaChosen
    /\ UNCHANGED <<fallen, firstAlreadyPass>>
InstanciaIsBack(i) ==
    /\ i \in Known
    /\ fallen' = fallen \ {i}
    /\ UNCHANGED <<instancias, turn>>
InstanciaHasFallen(i) ==
    /\ fallen' = fallen \union {i}
    /\ UNCHANGED <<instancias, turn>>

DistributionInit ==
    /\ instancias = <<>> /\ fallen = {}
    /\ spaceUsed = [i \in Instancias |-> 0]
    /\ lastInstanciaChosen = NoInstancia /\ firstAlreadyPass = FALSE
    /\ algorithm \in Algorithms

DistributionTypeOK ==
    /\ instancias \in Seq(Instancias)
    /\ \A p, q \in 1..Len(instancias) : instancias[p] = instancias[q] => p = q
    /\ fallen \subseteq Known
    /\ spaceUsed \in [Instancias -> 0..MaxSpace]
    /\ lastInstanciaChosen \in Known \union {NoInstancia}
    /\ firstAlreadyPass \in BOOLEAN
    /\ algorithm \in Algorithms
=============================================================================
