------------------------------ MODULE Deadlock ------------------------------
(***************************************************************************)
(* The console's deadlock command (executeDeadlockAlgorithm), which walks  *)
(* from each ESI of allSystemEsis along who waits for whom, in any state   *)
(* that ESIs which arrive, lock, wait, finish and die may reach (KeyLocks).*)
(*                                                                         *)
(* An ESI waits for one key at a time, as long as the operator does not    *)
(* block it by hand.                                                       *)
(***************************************************************************)
EXTENDS KeyLocks, Integers, SequencesExt

VARIABLE allSystemEsis    \* the list, in order of arrival

vars == <<lockVars, allSystemEsis>>

InSystem == Range(allSystemEsis)

DeadlockInit == Init /\ allSystemEsis = <<>>

EsiConnects(e) ==
    /\ e \notin InSystem
    /\ allSystemEsis' = Append(allSystemEsis, e)
    /\ UNCHANGED lockVars
\* GETs, STOREs and scripts that end; a finished ESI stays in the list.
EsiLocks(e) ==
    /\ e \in InSystem
    /\ \/ \E k \in Keys : Acquire(e, k) \/ Wait(e, k)
       \/ \E ks \in SUBSET Keys : Release(e, ks)
    /\ UNCHANGED allSystemEsis
\* deleteEsiFromSystem
EsiIsDeleted(e) ==
    /\ \E i \in 1..Len(allSystemEsis) :
           /\ allSystemEsis[i] = e
           /\ allSystemEsis' = RemoveAt(allSystemEsis, i)
    /\ Leave(e)

DeadlockNext == \E e \in Esis : EsiConnects(e) \/ EsiLocks(e) \/ EsiIsDeleted(e)

DeadlockSpec == DeadlockInit /\ [][DeadlockNext]_vars

-----------------------------------------------------------------------------
(* executeDeadlockAlgorithm.  Rows and columns are positions of the list.  *)

Indexes == 1..Len(allSystemEsis)

\* getEsiTakerIDByKeyTaken answers -1 for a key nobody in the system lists.
TakerIndex(k) ==
    LET takers == {j \in Indexes : allSystemEsis[j] \in holders[k]}
    IN  IF takers = {} THEN -1
        ELSE CHOOSE j \in takers : \A i \in takers : j <= i

asignationMatrix ==
    [i \in Indexes |-> [j \in Indexes |->
        \E k \in Keys : allSystemEsis[i] \in waiting[k] /\ TakerIndex(k) = j]]

\* What the rounds of a loop make of a value: step[n] is the n-th round.
Looped(step, first, last) ==
    LET at[n \in 0..last] == IF n = 0 THEN first ELSE step[n][at[n - 1]]
    IN  at

\* The columns are gone through once while the row they are looked up in
\* changes with each one found, so that a scan may make several steps of the
\* walk and passes over those in between.
ScanStep(matrix) ==
    [column \in Indexes |-> [row \in Indexes |->
        IF matrix[row][column] THEN column ELSE row]]
Scan(matrix, row) == Looped(ScanStep(matrix), row, Len(allSystemEsis))[Len(allSystemEsis)]
FoundPosibleDeadlock(matrix, row) == \E column \in Indexes : matrix[row][column]

\* indexToContinue at each turn of the while loop, were it to go on.
IndexesToContinue(matrix, first) ==
    Looped([turn \in Indexes |-> [row \in Indexes |-> Scan(matrix, row)]],
           first, Len(allSystemEsis))

\* actualDeadlockEsis when the walk from a row comes to one it has seen, and
\* nothing if it ends at one that waits for nobody.
WalkBackToRow(matrix, first) ==    \* mistaken variant: it must come to the first
    LET at == IndexesToContinue(matrix, first)
        seen(turn) == {at[t] : t \in 0..(turn - 1)}
        last == Min({turn \in 0..Len(allSystemEsis) :
                        at[turn] \in seen(turn) \/ ~FoundPosibleDeadlock(matrix, at[turn])})
    IN  IF last > 0 /\ at[last] = first THEN seen(last) ELSE {}
WalkFrom(matrix, first) ==
    LET at == IndexesToContinue(matrix, first)
        seen(turn) == {at[t] : t \in 0..(turn - 1)}
        last == Min({turn \in 0..Len(allSystemEsis) :
                        at[turn] \in seen(turn) \/ ~FoundPosibleDeadlock(matrix, at[turn])})
    IN  IF at[last] \in seen(last) THEN seen(last) ELSE {}

\* totalDeadlockEsis: a row already in it is not walked from again.
totalDeadlockEsis ==
    LET matrix == asignationMatrix
        step == [row \in Indexes |-> [total \in SUBSET Indexes |->
                    IF row \in total THEN total ELSE total \union WalkFrom(matrix, row)]]
    IN  Looped(step, {}, Len(allSystemEsis))[Len(allSystemEsis)]

-----------------------------------------------------------------------------
(* Properties.                                                             *)

\* Reference: ESIs each of which waits for a key that another of them holds
\* will wait for ever; the deadlocked ones are those of any such set.
WaitEachOther(S) ==
    \A e \in S : \E k \in Keys : e \in waiting[k] /\ holders[k] \cap S # {}
Deadlocked == UNION {S \in SUBSET Esis : WaitEachOther(S)}

\* The command reports every ESI that is in a deadlock or waits for one that
\* is, and no other, whatever the order of the list and however its scans jump.
ReportIsRight == {allSystemEsis[i] : i \in totalDeadlockEsis} = Deadlocked

\* A deadlock lasts until one of its ESIs is deleted: no lock, STORE, end of
\* another script or arrival dissolves it.
DeadlockLasts ==
    [][Deadlocked \subseteq Deadlocked' \/ \E e \in Deadlocked : EsiIsDeleted(e)]_vars
=============================================================================
