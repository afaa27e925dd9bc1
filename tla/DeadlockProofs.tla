--------------------------- MODULE DeadlockProofs ---------------------------
(* Theorems about deadlocks for every set of ESIs and keys: a deadlock lasts *)
(* until one of its ESIs is deleted (DeadlockLasts), and the console reports *)
(* exactly the ESIs that are in one or wait for one that is (ReportIsRight). *)
(*                                                                           *)
(* The report is right because a row of the matrix has one column at most    *)
(* (RowHasOneColumn).  So a scan, however it jumps, never enters a deadlock  *)
(* or leaves one (StepStaysDead), and the rows a walk comes back to, with    *)
(* those its scans pass over, wait for one another (CircleIsDead).           *)
EXTENDS Deadlock, FiniteSetTheorems, SequenceTheorems, WellFoundedInduction, TLAPS

\* Why a key that is given back is not one that keeps a deadlock: a key has one
\* holder, so that its holder is not both in the deadlock and out of it.
OneHolder == \A k \in Keys : \A e, f \in holders[k] : e = f
DeadlockInv == KeyLocksTypeOK /\ OneHolder

\* Keys given back to their waiters have no holder left.
LEMMA GivenBackHaveOneHolder ==
  ASSUME DeadlockInv, NEW e, NEW ks \in SUBSET Keys, GivesBack(e, ks), Wakes(ks, {e})
                                                     \/ Wakes(ks, {})
  PROVE  DeadlockInv'
<1>1. holders' \in [Keys -> SUBSET Esis] /\ \A k \in Keys : holders'[k] \subseteq holders[k]
  BY DEF DeadlockInv, KeyLocksTypeOK, GivesBack
<1>2. waiting' \in [Keys -> SUBSET Esis]
  <2>1. CASE Wakes(ks, {e})
    BY <2>1, SMTT(30) DEF Wakes, DeadlockInv, KeyLocksTypeOK
  <2>2. CASE Wakes(ks, {})
    BY <2>2, SMTT(30) DEF Wakes, DeadlockInv, KeyLocksTypeOK
  <2> QED
    BY <2>1, <2>2
<1> QED
  BY <1>1, <1>2 DEF DeadlockInv, KeyLocksTypeOK, OneHolder

\* The invariant of the lock service, here and in any of its behaviours.
LEMMA LockStepKeepsOneHolder ==
  ASSUME DeadlockInv, NEW e \in Esis, LockStep(e)
  PROVE  DeadlockInv'
<1>1. ASSUME NEW k \in Keys, Acquire(e, k)  PROVE DeadlockInv'
  BY <1>1 DEF DeadlockInv, KeyLocksTypeOK, OneHolder, Acquire
<1>2. ASSUME NEW k \in Keys, Wait(e, k)  PROVE DeadlockInv'
  BY <1>2 DEF DeadlockInv, KeyLocksTypeOK, OneHolder, Wait
<1>3. ASSUME NEW ks \in SUBSET Keys, Release(e, ks)  PROVE DeadlockInv'
  BY <1>3, GivenBackHaveOneHolder DEF Release
<1>4. CASE Leave(e)
  BY <1>4, GivenBackHaveOneHolder DEF Leave, HeldBy
<1> QED
  BY <1>1, <1>2, <1>3, <1>4 DEF LockStep

LEMMA DeadlockStep ==
  ASSUME DeadlockInv, [DeadlockNext]_vars
  PROVE  DeadlockInv'
<1>1. ASSUME UNCHANGED lockVars  PROVE DeadlockInv'
  BY <1>1 DEF lockVars, DeadlockInv, KeyLocksTypeOK, OneHolder
<1>2. ASSUME NEW e \in Esis, EsiLocks(e) \/ EsiIsDeleted(e)  PROVE DeadlockInv'
  BY <1>2, LockStepKeepsOneHolder DEF EsiLocks, EsiIsDeleted, LockStep
<1> QED
  BY <1>1, <1>2 DEF DeadlockNext, EsiConnects, vars

-----------------------------------------------------------------------------
(* A set of ESIs that wait for one another.                                 *)

\* A step in which keys are only locked and ESIs only start to wait.
LEMMA GrowingLasts ==
  ASSUME NEW S \in SUBSET Esis, WaitEachOther(S),
         \A k \in Keys : holders[k] \subseteq holders'[k] /\ waiting[k] \subseteq waiting'[k]
  PROVE  WaitEachOther(S)'
BY DEF WaitEachOther

\* Keys given back by one outside the set: none of its ESIs waits for them
\* behind another of them, so that none is woken from the key that blocks it.
LEMMA GivingBackLasts ==
  ASSUME DeadlockInv, NEW S \in SUBSET Esis, WaitEachOther(S),
         NEW e \in Esis \ S, NEW ks \in SUBSET Keys,
         \A k \in ks : holders[k] \subseteq {e},
         GivesBack(e, ks), Wakes(ks, {e}) \/ Wakes(ks, {})
  PROVE  WaitEachOther(S)'
<1> SUFFICES ASSUME NEW f \in S
             PROVE  \E k \in Keys : f \in waiting'[k] /\ holders'[k] \cap S # {}
  BY DEF WaitEachOther
<1>1. PICK k \in Keys : f \in waiting[k] /\ holders[k] \cap S # {}
  BY DEF WaitEachOther
<1>2. k \notin ks
  BY <1>1
<1>3. holders'[k] = holders[k]
  BY <1>2 DEF GivesBack
<1>4. waiting[k] \ {e} \subseteq waiting'[k]
  <2>1. CASE Wakes(ks, {e})
    BY <1>2, <2>1, SMTT(30) DEF Wakes
  <2>2. CASE Wakes(ks, {})
    BY <1>2, <2>2, SMTT(30) DEF Wakes
  <2> QED
    BY <2>1, <2>2
<1> QED
  BY <1>1, <1>3, <1>4

\* No step but the deletion of one of its ESIs parts such a set.
LEMMA SetLasts ==
  ASSUME DeadlockInv, NEW S \in SUBSET Esis, WaitEachOther(S),
         [DeadlockNext]_vars, ~ \E e \in S : EsiIsDeleted(e)
  PROVE  WaitEachOther(S)'
<1>1. CASE UNCHANGED lockVars
  BY <1>1 DEF lockVars, WaitEachOther
<1>2. ASSUME NEW e \in Esis, EsiLocks(e)  PROVE WaitEachOther(S)'
  <2>1. ASSUME NEW k \in Keys, Acquire(e, k)  PROVE WaitEachOther(S)'
    BY <2>1, GrowingLasts DEF Acquire, DeadlockInv, KeyLocksTypeOK
  <2>2. ASSUME NEW k \in Keys, Wait(e, k)  PROVE WaitEachOther(S)'
    BY <2>2, GrowingLasts DEF Wait, DeadlockInv, KeyLocksTypeOK
  <2>3. ASSUME NEW ks \in SUBSET Keys, Release(e, ks)  PROVE WaitEachOther(S)'
    <3>1. e \notin S
      BY <2>3 DEF Release, IsWaiting, WaitEachOther
    <3> QED
      BY <2>3, <3>1, GivingBackLasts DEF Release
  <2> QED
    BY <1>2, <2>1, <2>2, <2>3 DEF EsiLocks
<1>3. ASSUME NEW e \in Esis, EsiIsDeleted(e)  PROVE WaitEachOther(S)'
  <2>1. e \notin S
    BY <1>3
  <2>2. HeldBy(e) \in SUBSET Keys /\ \A k \in HeldBy(e) : holders[k] \subseteq {e}
    BY DEF HeldBy, DeadlockInv, OneHolder
  <2> QED
    BY <1>3, <2>1, <2>2, GivingBackLasts DEF EsiIsDeleted, Leave
<1> QED
  BY <1>1, <1>2, <1>3 DEF DeadlockNext, EsiConnects, vars

-----------------------------------------------------------------------------
(* allSystemEsis.                                                           *)

\* A list without one of its elements.
LEMMA RemoveAtProperties ==
  ASSUME NEW S, NEW s \in Seq(S), NEW i \in 1..Len(s)
  PROVE  /\ RemoveAt(s, i) \in Seq(S)
         /\ Len(RemoveAt(s, i)) = Len(s) - 1
         /\ \A j \in 1..(Len(s) - 1) :
               RemoveAt(s, i)[j] = IF j < i THEN s[j] ELSE s[j + 1]
<1> DEFINE front == SubSeq(s, 1, i - 1)
           back  == SubSeq(s, i + 1, Len(s))
<1>1. Len(s) \in Nat /\ i \in Nat /\ \A j \in 1..Len(s) : s[j] \in S
  BY LenProperties, ElementOfSeq
<1>2. /\ front \in Seq(S) /\ Len(front) = i - 1
      /\ \A j \in 1..(i - 1) : front[j] = s[j]
  <2>1. \A j \in 1..(i - 1) : s[j] \in S
    BY <1>1
  <2> QED
    BY <1>1, <2>1, SubSeqProperties
<1>3. /\ back \in Seq(S) /\ Len(back) = Len(s) - i
      /\ \A j \in 1..(Len(s) - i) : back[j] = s[j + i]
  <2>1. \A j \in (i + 1)..Len(s) : s[j] \in S
    BY <1>1
  <2>2. /\ back \in Seq(S)
        /\ Len(back) = IF i + 1 <= Len(s) THEN Len(s) - (i + 1) + 1 ELSE 0
        /\ \A j \in 1..(Len(s) - (i + 1) + 1) : back[j] = s[i + 1 + j - 1]
    BY <1>1, <2>1, SubSeqProperties
  <2> HIDE DEF back
  <2> QED
    BY <1>1, <2>2
<1> HIDE DEF front, back
<1>4. /\ front \o back \in Seq(S) /\ Len(front \o back) = Len(front) + Len(back)
      /\ \A j \in 1..(Len(front) + Len(back)) :
            (front \o back)[j] = IF j <= Len(front) THEN front[j]
                                 ELSE back[j - Len(front)]
  BY <1>2, <1>3, ConcatProperties
<1>5. RemoveAt(s, i) = front \o back
  BY DEF RemoveAt, front, back
<1>6. ASSUME NEW j \in 1..(Len(s) - 1)
      PROVE  (front \o back)[j] = IF j < i THEN s[j] ELSE s[j + 1]
  <2>1. CASE j < i
    BY <1>1, <1>2, <1>3, <1>4, <2>1
  <2>2. CASE ~(j < i)
    <3> DEFINE m == j - (i - 1)
    <3>1. m \in 1..(Len(s) - i) /\ m + i = j + 1
      BY <1>1, <2>2
    <3>2. (front \o back)[j] = back[m]
      BY <1>1, <1>2, <1>3, <1>4, <2>2
    <3> HIDE DEF m
    <3> QED
      BY <1>3, <2>2, <3>1, <3>2
  <2> QED
    BY <2>1, <2>2
<1>7. Len(front \o back) = Len(s) - 1
  BY <1>1, <1>2, <1>3, <1>4
<1> QED
  BY <1>4, <1>5, <1>6, <1>7

\* The list has each ESI once, and whoever holds a key or waits is in it.
ListInv ==
    /\ allSystemEsis \in Seq(Esis)
    /\ \A i, j \in Indexes : allSystemEsis[i] = allSystemEsis[j] => i = j
    /\ \A k \in Keys : holders[k] \subseteq InSystem /\ waiting[k] \subseteq InSystem

\* The script that asks for a key that is taken stops at that line.
OneWait == \A e \in Esis : \A k, l \in Keys : e \in waiting[k] /\ e \in waiting[l] => k = l

ReportInv == DeadlockInv /\ OneWait /\ ListInv

LEMMA InSystemIsElements ==
  ASSUME allSystemEsis \in Seq(Esis)
  PROVE  /\ Len(allSystemEsis) \in Nat
         /\ InSystem = {allSystemEsis[i] : i \in Indexes}
         /\ InSystem \subseteq Esis
<1>1. DOMAIN allSystemEsis = 1..Len(allSystemEsis) /\ Len(allSystemEsis) \in Nat
  BY LenProperties
<1>2. \A i \in 1..Len(allSystemEsis) : allSystemEsis[i] \in Esis
  BY ElementOfSeq
<1> QED
  BY <1>1, <1>2 DEF InSystem, Range, Indexes

\* list_add of one that is not in the list.
LEMMA ListGrows ==
  ASSUME ListInv, NEW e \in Esis, EsiConnects(e)
  PROVE  ListInv'
<1> DEFINE t == Append(allSystemEsis, e)
           n == Len(allSystemEsis)
<1>1. /\ n \in Nat /\ InSystem = {allSystemEsis[i] : i \in 1..n}
      /\ \A i, j \in 1..n : allSystemEsis[i] = allSystemEsis[j] => i = j
      /\ \A i \in 1..n : allSystemEsis[i] # e
  BY InSystemIsElements DEF ListInv, Indexes, EsiConnects
<1>2. /\ t \in Seq(Esis) /\ Len(t) = n + 1
      /\ \A i \in 1..n : t[i] = allSystemEsis[i]
      /\ t[n + 1] = e
  BY AppendProperties DEF ListInv
<1>3. allSystemEsis' = t /\ UNCHANGED <<holders, waiting>>
  BY DEF EsiConnects, lockVars
<1> HIDE DEF t, n
<1>4. \A i \in 1..(n + 1) : i \in 1..n \/ i = n + 1
  BY <1>1
<1>5. \A i, j \in 1..(n + 1) : t[i] = t[j] => i = j
  BY <1>1, <1>2, <1>4
<1>6. Indexes' = 1..(n + 1)
  BY <1>2, <1>3 DEF Indexes
<1>7. InSystem' = {t[i] : i \in 1..(n + 1)}
  <2>1. DOMAIN t = 1..Len(t)
    BY <1>2, LenProperties
  <2> QED
    BY <1>2, <1>3, <2>1 DEF InSystem, Range
<1>8. InSystem \subseteq InSystem'
  <2>1. \A i \in 1..n : i \in 1..(n + 1)
    BY <1>1
  <2> QED
    BY <1>1, <1>2, <1>7, <2>1
<1> QED
  BY <1>2, <1>3, <1>5, <1>6, <1>8 DEF ListInv

\* list_remove_and_destroy_by_condition: one ESI less, and no other.
LEMMA ListShrinks ==
  ASSUME allSystemEsis \in Seq(Esis), NEW e, NEW p \in Indexes, allSystemEsis[p] = e,
         \A i, j \in Indexes : allSystemEsis[i] = allSystemEsis[j] => i = j,
         allSystemEsis' = RemoveAt(allSystemEsis, p)
  PROVE  /\ allSystemEsis' \in Seq(Esis)
         /\ (\A i, j \in Indexes : allSystemEsis[i] = allSystemEsis[j] => i = j)'
         /\ InSystem \ {e} \subseteq InSystem'
<1> DEFINE n == Len(allSystemEsis)
           s == allSystemEsis
           t == RemoveAt(allSystemEsis, p)
<1>1. /\ n \in Nat /\ InSystem = {s[i] : i \in 1..n} /\ p \in 1..n
      /\ \A i, j \in 1..n : s[i] = s[j] => i = j
  BY InSystemIsElements DEF Indexes
<1>2. /\ t \in Seq(Esis) /\ Len(t) = n - 1
      /\ \A j \in 1..(n - 1) : t[j] = IF j < p THEN s[j] ELSE s[j + 1]
  BY <1>1, RemoveAtProperties
<1>3. s' = t
  OBVIOUS
<1> HIDE DEF t, n
<1>4. Indexes' = 1..(n - 1)
  BY <1>2, <1>3 DEF Indexes
<1>5. InSystem' = {t[j] : j \in 1..(n - 1)}
  <2>1. DOMAIN t = 1..Len(t)
    BY <1>2, LenProperties
  <2> QED
    BY <1>2, <1>3, <2>1 DEF InSystem, Range
<1>6. ASSUME NEW i \in 1..(n - 1), NEW j \in 1..(n - 1), t[i] = t[j]  PROVE i = j
  <2>1. i \in 1..n /\ i + 1 \in 1..n /\ j \in 1..n /\ j + 1 \in 1..n
    BY <1>1
  <2> QED
    BY <1>1, <1>2, <1>6, <2>1
<1>7. ASSUME NEW i \in 1..n, i # p  PROVE s[i] \in {t[j] : j \in 1..(n - 1)}
  <2>1. CASE i < p
    <3>1. i \in 1..(n - 1)
      BY <1>1, <2>1
    <3> QED
      BY <1>2, <2>1, <3>1
  <2>2. CASE ~(i < p)
    <3>1. i - 1 \in 1..(n - 1) /\ ~(i - 1 < p) /\ (i - 1) + 1 = i
      BY <1>1, <1>7, <2>2
    <3> QED
      BY <1>2, <3>1
  <2> QED
    BY <2>1, <2>2
<1>8. InSystem \ {e} \subseteq InSystem'
  BY <1>1, <1>5, <1>7
<1> QED
  BY <1>2, <1>3, <1>4, <1>6, <1>8

\* Who gives keys back holds none of them any more, who is woken or leaves does
\* not wait, and nobody starts to hold or to wait.
LEMMA GivingBackTakes ==
  ASSUME DeadlockInv, NEW e, NEW ks \in SUBSET Keys, NEW leaving, GivesBack(e, ks),
         Wakes(ks, leaving)
  PROVE  \A k \in Keys : /\ holders'[k] \subseteq holders[k]
                         /\ k \in ks => e \notin holders'[k]
                         /\ waiting'[k] \subseteq waiting[k] \ leaving
<1>1. \A k \in Keys : holders'[k] = IF k \in ks THEN holders[k] \ {e} ELSE holders[k]
  BY DEF GivesBack
<1>2. \A k \in Keys : waiting'[k] \subseteq waiting[k] \ leaving
  BY SMTT(30) DEF Wakes
<1> QED
  BY <1>1, <1>2

LEMMA ReportStep ==
  ASSUME ReportInv, [DeadlockNext]_vars
  PROVE  ReportInv'
<1>1. DeadlockInv'
  BY DeadlockStep DEF ReportInv
<1>2. holders \in [Keys -> SUBSET Esis] /\ waiting \in [Keys -> SUBSET Esis]
  BY DEF ReportInv, DeadlockInv, KeyLocksTypeOK
<1>3. ASSUME UNCHANGED allSystemEsis,
             \A k \in Keys : /\ holders'[k] \subseteq InSystem
                             /\ waiting'[k] \subseteq InSystem
      PROVE  ListInv'
  BY <1>3 DEF ReportInv, ListInv, Indexes, InSystem
<1>4. ASSUME \A k \in Keys : waiting'[k] \subseteq waiting[k]  PROVE OneWait'
  BY <1>4 DEF ReportInv, OneWait
<1>5. ASSUME NEW e \in Esis, EsiConnects(e)  PROVE ReportInv'
  <2>1. ListInv'
    BY <1>5, ListGrows DEF ReportInv
  <2>2. OneWait'
    BY <1>4, <1>5 DEF EsiConnects, lockVars
  <2> QED
    BY <1>1, <2>1, <2>2 DEF ReportInv
<1>6. ASSUME NEW e \in Esis, EsiLocks(e)  PROVE ReportInv'
  <2>1. e \in InSystem /\ UNCHANGED allSystemEsis
    BY <1>6 DEF EsiLocks
  <2>2. ASSUME NEW k \in Keys, Acquire(e, k)  PROVE ReportInv'
    <3>1. \A l \in Keys : holders'[l] \subseteq holders[l] \union {e}
      BY <1>2, <2>2 DEF Acquire
    <3>2. waiting' = waiting
      BY <2>2 DEF Acquire
    <3>3. ListInv'
      BY <1>3, <2>1, <3>1, <3>2 DEF ReportInv, ListInv
    <3> QED
      BY <1>1, <1>4, <3>2, <3>3 DEF ReportInv
  <2>3. ASSUME NEW k \in Keys, Wait(e, k)  PROVE ReportInv'
    <3>1. /\ holders' = holders
          /\ \A l \in Keys : waiting'[l] = IF l = k THEN waiting[l] \union {e} ELSE waiting[l]
      BY <1>2, <2>3 DEF Wait
    <3>2. ListInv'
      BY <1>3, <2>1, <3>1 DEF ReportInv, ListInv
    <3>3. \A l \in Keys : e \notin waiting[l]
      BY <2>3 DEF Wait, IsWaiting
    <3>4. OneWait'
      <4>1. \A f \in Esis, l \in Keys : f \in waiting'[l] => f \in waiting[l] \/ (f = e /\ l = k)
        BY <3>1
      <4> QED
        BY <3>3, <4>1 DEF ReportInv, OneWait
    <3> QED
      BY <1>1, <3>2, <3>4 DEF ReportInv
  <2>4. ASSUME NEW ks \in SUBSET Keys, Release(e, ks)  PROVE ReportInv'
    <3>1. \A k \in Keys : holders'[k] \subseteq holders[k] /\ waiting'[k] \subseteq waiting[k]
      BY <2>4, GivingBackTakes DEF ReportInv, Release
    <3>2. ListInv'
      BY <1>3, <2>1, <3>1 DEF ReportInv, ListInv
    <3> QED
      BY <1>1, <1>4, <3>1, <3>2 DEF ReportInv
  <2> QED
    BY <1>6, <2>2, <2>3, <2>4 DEF EsiLocks
<1>7. ASSUME NEW e \in Esis, EsiIsDeleted(e)  PROVE ReportInv'
  <2>1. HeldBy(e) \in SUBSET Keys /\ GivesBack(e, HeldBy(e)) /\ Wakes(HeldBy(e), {e})
    BY <1>7 DEF EsiIsDeleted, Leave, HeldBy
  <2>2. \A k \in Keys : /\ holders'[k] \subseteq holders[k]
                        /\ k \in HeldBy(e) => e \notin holders'[k]
                        /\ waiting'[k] \subseteq waiting[k] \ {e}
    BY <2>1, GivingBackTakes DEF ReportInv
  <2>3. \A k \in Keys : e \notin holders'[k]
    BY <2>2 DEF HeldBy
  <2>4. PICK p \in Indexes : allSystemEsis[p] = e /\ allSystemEsis' = RemoveAt(allSystemEsis, p)
    BY <1>7 DEF EsiIsDeleted, Indexes
  <2>5. /\ allSystemEsis' \in Seq(Esis)
        /\ (\A i, j \in Indexes : allSystemEsis[i] = allSystemEsis[j] => i = j)'
        /\ InSystem \ {e} \subseteq InSystem'
    BY <2>4, ListShrinks DEF ReportInv, ListInv
  <2>6. ListInv'
    BY <2>2, <2>3, <2>5 DEF ReportInv, ListInv
  <2>7. OneWait'
    BY <1>4, <2>2
  <2> QED
    BY <1>1, <2>6, <2>7 DEF ReportInv
<1>8. CASE UNCHANGED vars
  <2>1. OneWait'
    BY <1>4, <1>8 DEF vars, lockVars
  <2>2. ListInv'
    BY <1>3, <1>8 DEF vars, lockVars, ReportInv, ListInv
  <2> QED
    BY <1>1, <2>1, <2>2 DEF ReportInv
<1> QED
  BY <1>5, <1>6, <1>7, <1>8 DEF DeadlockNext

-----------------------------------------------------------------------------
(* The loops of executeDeadlockAlgorithm.                                   *)

\* Any nonempty set of natural numbers has a least one.
LEMMA LeastNumber ==
  ASSUME NEW T \in SUBSET Nat, T # {}
  PROVE  \E x \in T : \A y \in T : x <= y
<1>1. PICK x \in T : \A y \in T : ~(<<y, x>> \in OpToRel(<, Nat))
  BY NatLessThanWellFounded, WFMin
<1>2. \A y \in T : ~(y < x)
  BY <1>1 DEF OpToRel
<1> QED
  BY <1>2

LEMMA MinProperties ==
  ASSUME NEW T \in SUBSET Nat, T # {}
  PROVE  Min(T) \in T /\ \A y \in T : Min(T) <= y
BY LeastNumber DEF Min

\* at is what a loop has after each of its rounds.
IsRunOf(at, step, first, last) ==
    /\ at[0] = first
    /\ \A n \in 1..last : at[n] = step[n][at[n - 1]]

\* Every loop has such a run.
LEMMA RunExists ==
  ASSUME NEW S, NEW last \in Nat, NEW step \in [1..last -> [S -> S]], NEW first \in S
  PROVE  \E at \in [0..last -> S] : IsRunOf(at, step, first, last)
<1> DEFINE T == {n \in 0..last : ~ \E at \in [0..n -> S] : IsRunOf(at, step, first, n)}
<1> SUFFICES ASSUME T # {}  PROVE FALSE
  <2>1. last \in 0..last
    OBVIOUS
  <2> QED
    BY <2>1
<1>1. T \in SUBSET Nat
  OBVIOUS
<1> HIDE DEF T
<1>2. PICK m \in T : \A y \in T : m <= y
  BY <1>1, LeastNumber
<1>3. m \in 0..last /\ ~ \E at \in [0..m -> S] : IsRunOf(at, step, first, m)
  BY <1>2 DEF T
<1>4. m # 0
  <2> SUFFICES ASSUME m = 0  PROVE FALSE
    OBVIOUS
  <2> DEFINE one == [n \in 0..0 |-> first]
  <2>1. one \in [0..0 -> S] /\ one[0] = first
    OBVIOUS
  <2>2. \A n \in 1..0 : one[n] = step[n][one[n - 1]]
    OBVIOUS
  <2> HIDE DEF one
  <2> QED
    BY <1>3, <2>1, <2>2 DEF IsRunOf
<1>5. m - 1 \in 0..last /\ m - 1 \notin T
  BY <1>2, <1>3, <1>4
<1>6. PICK at \in [0..(m - 1) -> S] : IsRunOf(at, step, first, m - 1)
  BY <1>5 DEF T
<1> DEFINE longer == [n \in 0..m |-> IF n = m THEN step[m][at[m - 1]] ELSE at[n]]
<1>7. m - 1 \in 0..(m - 1) /\ 0 \in 0..(m - 1) /\ m \in 1..last /\ 0 # m
  BY <1>3, <1>4
<1>8. at[m - 1] \in S /\ step[m] \in [S -> S]
  BY <1>6, <1>7
<1>9. step[m][at[m - 1]] \in S
  BY <1>8
<1>10. longer \in [0..m -> S]
  BY <1>3, <1>6, <1>9
<1>11. longer[0] = first
  BY <1>3, <1>6, <1>7 DEF IsRunOf
<1>12. ASSUME NEW n \in 1..m  PROVE longer[n] = step[n][longer[n - 1]]
  <2>1. n - 1 \in 0..(m - 1) /\ n - 1 \in 0..m /\ n \in 0..m /\ n - 1 # m
    BY <1>3
  <2>2. longer[n - 1] = at[n - 1]
    BY <2>1
  <2>3. CASE n = m
    BY <2>1, <2>2, <2>3
  <2>4. CASE n # m
    <3>1. n \in 1..(m - 1)
      BY <1>3, <2>4
    <3>2. at[n] = step[n][at[n - 1]]
      BY <1>6, <3>1 DEF IsRunOf
    <3> QED
      BY <2>1, <2>2, <2>4, <3>2
  <2> QED
    BY <2>3, <2>4
<1> HIDE DEF longer
<1> QED
  BY <1>3, <1>10, <1>11, <1>12 DEF IsRunOf

\* Looped is the run: it is in S all the way, and goes round by round.
LEMMA LoopedRuns ==
  ASSUME NEW S, NEW last \in Nat, NEW step \in [1..last -> [S -> S]], NEW first \in S
  PROVE  /\ Looped(step, first, last) \in [0..last -> S]
         /\ IsRunOf(Looped(step, first, last), step, first, last)
<1> DEFINE next(f) == [n \in 0..last |-> IF n = 0 THEN first ELSE step[n][f[n - 1]]]
           loop == CHOOSE f : f = next(f)
<1>1. PICK at \in [0..last -> S] : IsRunOf(at, step, first, last)
  BY RunExists
<1>2. at = next(at)
  <2>1. ASSUME NEW n \in 0..last, n # 0  PROVE at[n] = step[n][at[n - 1]]
    <3>1. n \in 1..last
      BY <2>1
    <3> QED
      BY <1>1, <3>1 DEF IsRunOf
  <2> QED
    BY <1>1, <2>1 DEF IsRunOf
<1>3. Looped(step, first, last) = loop
  BY DEF Looped
<1> HIDE DEF next
<1>4. loop = next(loop)
  BY <1>2
<1> HIDE DEF loop
<1>5. loop = [n \in 0..last |-> IF n = 0 THEN first ELSE step[n][loop[n - 1]]]
  BY <1>4 DEF next
<1>6. IsRunOf(loop, step, first, last)
  <2>1. 0 \in 0..last
    OBVIOUS
  <2>2. loop[0] = first
    BY <1>5, <2>1
  <2>3. ASSUME NEW n \in 1..last  PROVE loop[n] = step[n][loop[n - 1]]
    <3>1. n \in 0..last /\ n # 0
      OBVIOUS
    <3> QED
      BY <1>5, <3>1
  <2> QED
    BY <2>2, <2>3 DEF IsRunOf
<1>7. loop = at
  <2> DEFINE T == {n \in 0..last : loop[n] # at[n]}
  <2>1. T = {}
    <3> SUFFICES ASSUME T # {}  PROVE FALSE
      OBVIOUS
    <3>1. T \in SUBSET Nat
      OBVIOUS
    <3> HIDE DEF T
    <3>2. PICK m \in T : \A y \in T : m <= y
      BY <3>1, LeastNumber
    <3>3. m \in 0..last /\ loop[m] # at[m]
      BY <3>2 DEF T
    <3>4. m # 0
      BY <1>1, <1>6, <3>3 DEF IsRunOf
    <3>5. m - 1 \in 0..last /\ m - 1 \notin T /\ m \in 1..last
      BY <3>2, <3>3, <3>4
    <3>6. loop[m - 1] = at[m - 1]
      BY <3>5 DEF T
    <3> QED
      BY <1>1, <1>6, <3>3, <3>5, <3>6 DEF IsRunOf
  <2>2. \A n \in 0..last : loop[n] = at[n]
    BY <2>1
  <2>3. loop = [n \in 0..last |-> loop[n]]
    BY <1>5
  <2> QED
    BY <1>1, <2>2, <2>3
<1> QED
  BY <1>1, <1>3, <1>7

\* What holds at first and is kept by every round holds after each: good[n] is
\* what the value may be after n rounds.
LEMMA LoopKeeps ==
  ASSUME NEW S, NEW last \in Nat, NEW step \in [1..last -> [S -> S]], NEW first \in S,
         NEW good, first \in good[0],
         \A n \in 1..last : \A s \in S : s \in good[n - 1] => step[n][s] \in good[n]
  PROVE  \A n \in 0..last : Looped(step, first, last)[n] \in good[n]
<1> DEFINE at == Looped(step, first, last)
           T == {n \in 0..last : at[n] \notin good[n]}
<1>1. at \in [0..last -> S] /\ IsRunOf(at, step, first, last)
  BY LoopedRuns
<1> HIDE DEF at
<1> SUFFICES ASSUME T # {}  PROVE FALSE
  BY DEF at
<1>2. T \in SUBSET Nat
  OBVIOUS
<1> HIDE DEF T
<1>3. PICK m \in T : \A y \in T : m <= y
  BY <1>2, LeastNumber
<1>4. m \in 0..last /\ at[m] \notin good[m]
  BY <1>3 DEF T
<1>5. m # 0
  BY <1>1, <1>4 DEF IsRunOf
<1>6. m - 1 \in 0..last /\ m - 1 \notin T /\ m \in 1..last
  BY <1>3, <1>4, <1>5
<1>7. at[m - 1] \in good[m - 1] /\ at[m - 1] \in S
  BY <1>1, <1>6 DEF T
<1>8. at[m] = step[m][at[m - 1]]
  BY <1>1, <1>6 DEF IsRunOf
<1> QED
  BY <1>4, <1>6, <1>7, <1>8

-----------------------------------------------------------------------------
(* The matrix: who waits for whom, by positions of the list.                *)

DeadRows == {i \in Indexes : allSystemEsis[i] \in Deadlocked}

\* getEsiTakerIDByKeyTaken finds the holder, as there is one at most.
LEMMA MatrixMeans ==
  ASSUME ReportInv, NEW i \in Indexes, NEW j \in Indexes
  PROVE  asignationMatrix[i][j] <=> \E k \in Keys : /\ allSystemEsis[i] \in waiting[k]
                                                    /\ allSystemEsis[j] \in holders[k]
<1>1. ASSUME NEW k \in Keys  PROVE TakerIndex(k) = j <=> allSystemEsis[j] \in holders[k]
  <2> DEFINE takers == {l \in Indexes : allSystemEsis[l] \in holders[k]}
  <2>1. \A l, m \in takers : l = m
    BY DEF ReportInv, ListInv, DeadlockInv, OneHolder
  <2>2. Len(allSystemEsis) \in Nat
    BY InSystemIsElements DEF ReportInv, ListInv
  <2>3. CASE takers = {}
    <3>1. TakerIndex(k) = -1
      BY <2>3 DEF TakerIndex
    <3>2. j # -1
      BY <2>2 DEF Indexes
    <3> QED
      BY <2>3, <3>1, <3>2
  <2>4. CASE takers # {}
    <3>1. TakerIndex(k) = CHOOSE l \in takers : \A m \in takers : l <= m
      BY <2>4 DEF TakerIndex
    <3>2. \A l \in takers : l <= l
      BY <2>2 DEF Indexes
    <3> HIDE DEF takers
    <3>3. TakerIndex(k) \in takers
      BY <2>1, <2>4, <3>1, <3>2
    <3>4. TakerIndex(k) = j <=> j \in takers
      BY <2>1, <3>3
    <3> QED
      BY <3>4 DEF takers
  <2> QED
    BY <2>3, <2>4
<1>2. asignationMatrix[i][j]
        = \E k \in Keys : allSystemEsis[i] \in waiting[k] /\ TakerIndex(k) = j
  BY DEF asignationMatrix
<1> QED
  BY <1>1, <1>2

\* A row has one column at most: an ESI waits for one key, and that has one holder.
LEMMA RowHasOneColumn ==
  ASSUME ReportInv, NEW i \in Indexes, NEW j \in Indexes, NEW l \in Indexes,
         asignationMatrix[i][j], asignationMatrix[i][l]
  PROVE  j = l
<1>1. PICK k \in Keys : allSystemEsis[i] \in waiting[k] /\ allSystemEsis[j] \in holders[k]
  BY MatrixMeans
<1>2. PICK m \in Keys : allSystemEsis[i] \in waiting[m] /\ allSystemEsis[l] \in holders[m]
  BY MatrixMeans
<1>3. allSystemEsis[i] \in Esis
  BY <1>1 DEF ReportInv, DeadlockInv, KeyLocksTypeOK
<1>4. k = m
  BY <1>1, <1>2, <1>3 DEF ReportInv, OneWait
<1> QED
  BY <1>1, <1>2, <1>4 DEF ReportInv, DeadlockInv, OneHolder, ListInv

\* An ESI in a deadlock waits for one in it.
LEMMA DeadWaitForDead ==
  ASSUME ReportInv, NEW i \in DeadRows
  PROVE  \E j \in DeadRows : asignationMatrix[i][j]
<1>1. i \in Indexes
  BY DEF DeadRows
<1>2. PICK S \in SUBSET Esis : WaitEachOther(S) /\ allSystemEsis[i] \in S
  BY DEF DeadRows, Deadlocked
<1>3. S \subseteq Deadlocked
  BY <1>2 DEF Deadlocked
<1>4. PICK k \in Keys : allSystemEsis[i] \in waiting[k] /\ holders[k] \cap S # {}
  BY <1>2 DEF WaitEachOther
<1>5. PICK f \in S : f \in holders[k]
  BY <1>4
<1>6. InSystem = {allSystemEsis[j] : j \in Indexes}
  BY InSystemIsElements DEF ReportInv, ListInv
<1>7. PICK j \in Indexes : f = allSystemEsis[j]
  BY <1>5, <1>6 DEF ReportInv, ListInv
<1>8. j \in DeadRows
  BY <1>3, <1>7 DEF DeadRows
<1> QED
  BY <1>1, <1>4, <1>5, <1>7, <1>8, MatrixMeans

\* Whoever waits for one in a deadlock is in it.
LEMMA WaitersOfDeadAreDead ==
  ASSUME ReportInv, NEW i \in Indexes, NEW j \in DeadRows, asignationMatrix[i][j]
  PROVE  i \in DeadRows
<1>1. j \in Indexes /\ allSystemEsis[j] \in Deadlocked
  BY DEF DeadRows
<1>2. PICK S \in SUBSET Esis : WaitEachOther(S) /\ allSystemEsis[j] \in S
  BY <1>1 DEF Deadlocked
<1>3. PICK k \in Keys : allSystemEsis[i] \in waiting[k] /\ allSystemEsis[j] \in holders[k]
  BY <1>1, MatrixMeans
<1>4. allSystemEsis[i] \in Esis
  BY <1>3 DEF ReportInv, DeadlockInv, KeyLocksTypeOK
<1> DEFINE U == S \union {allSystemEsis[i]}
<1>5. WaitEachOther(U)
  BY <1>2, <1>3 DEF WaitEachOther
<1> QED
  BY <1>4, <1>5 DEF DeadRows, Deadlocked

\* Rows each of which has a column among them are a deadlock.
LEMMA ClosedIsDead ==
  ASSUME ReportInv, NEW C \in SUBSET Indexes, \A i \in C : \E j \in C : asignationMatrix[i][j]
  PROVE  C \subseteq DeadRows
<1> DEFINE S == {allSystemEsis[i] : i \in C}
<1>1. S \in SUBSET Esis
  BY InSystemIsElements DEF ReportInv, ListInv
<1>2. WaitEachOther(S)
  <2> SUFFICES ASSUME NEW i \in C
               PROVE  \E k \in Keys : /\ allSystemEsis[i] \in waiting[k]
                                      /\ holders[k] \cap S # {}
    BY DEF WaitEachOther
  <2>1. PICK j \in C : asignationMatrix[i][j]
    OBVIOUS
  <2>2. PICK k \in Keys : allSystemEsis[i] \in waiting[k] /\ allSystemEsis[j] \in holders[k]
    BY <2>1, MatrixMeans
  <2> QED
    BY <2>2
<1>3. S \subseteq Deadlocked
  BY <1>1, <1>2 DEF Deadlocked
<1> QED
  BY <1>3 DEF DeadRows

\* So a step of the walk neither enters a deadlock nor leaves one.
LEMMA StepStaysDead ==
  ASSUME ReportInv, NEW i \in Indexes, NEW j \in Indexes, asignationMatrix[i][j]
  PROVE  i \in DeadRows <=> j \in DeadRows
<1>1. ASSUME i \in DeadRows  PROVE j \in DeadRows
  <2>1. PICK l \in DeadRows : asignationMatrix[i][l]
    BY <1>1, DeadWaitForDead
  <2> QED
    BY <2>1, RowHasOneColumn DEF DeadRows
<1> QED
  BY <1>1, WaitersOfDeadAreDead

-----------------------------------------------------------------------------
(* A scan.                                                                  *)

ScanOf(row) == Looped(ScanStep(asignationMatrix), row, Len(allSystemEsis))
Passed(row) == {ScanOf(row)[c] : c \in 0..Len(allSystemEsis)}

LEMMA ScanRuns ==
  ASSUME ReportInv, NEW row \in Indexes
  PROVE  /\ Len(allSystemEsis) \in Nat
         /\ ScanStep(asignationMatrix) \in [1..Len(allSystemEsis) -> [Indexes -> Indexes]]
         /\ ScanOf(row) \in [0..Len(allSystemEsis) -> Indexes]
         /\ ScanOf(row)[0] = row
         /\ \A c \in Indexes : ScanOf(row)[c] = IF asignationMatrix[ScanOf(row)[c - 1]][c]
                                                THEN c ELSE ScanOf(row)[c - 1]
         /\ Scan(asignationMatrix, row) = ScanOf(row)[Len(allSystemEsis)]
<1> DEFINE n == Len(allSystemEsis)
           step == ScanStep(asignationMatrix)
<1>1. n \in Nat
  BY InSystemIsElements DEF ReportInv, ListInv
<1>2. step \in [1..n -> [Indexes -> Indexes]]
  BY DEF ScanStep, Indexes
<1>3. /\ ScanOf(row) \in [0..n -> Indexes]
      /\ IsRunOf(ScanOf(row), step, row, n)
  BY <1>1, <1>2, LoopedRuns DEF ScanOf
<1>4. ASSUME NEW c \in Indexes
      PROVE  ScanOf(row)[c] = IF asignationMatrix[ScanOf(row)[c - 1]][c]
                              THEN c ELSE ScanOf(row)[c - 1]
  <2>1. c \in 1..n /\ c - 1 \in 0..n
    BY <1>1 DEF Indexes
  <2>2. ScanOf(row)[c] = step[c][ScanOf(row)[c - 1]] /\ ScanOf(row)[c - 1] \in Indexes
    BY <1>3, <2>1 DEF IsRunOf
  <2> QED
    BY <2>2 DEF ScanStep
<1> QED
  BY <1>1, <1>2, <1>3, <1>4 DEF IsRunOf, Scan, ScanOf

\* Where a scan leaves a row, it goes to its column.
LEMMA ScanLeaves ==
  ASSUME ReportInv, NEW row \in Indexes,
         NEW c \in 0..Len(allSystemEsis), NEW d \in 0..Len(allSystemEsis), c <= d,
         ScanOf(row)[d] # ScanOf(row)[c]
  PROVE  \E e \in Indexes \cap Passed(row) : asignationMatrix[ScanOf(row)[c]][e]
<1> DEFINE n == Len(allSystemEsis)
           at == ScanOf(row)
           T == {e \in 0..n : c <= e /\ at[e] # at[c]}
<1>1. n \in Nat /\ at \in [0..n -> Indexes]
  BY ScanRuns
<1>2. \A e \in Indexes : at[e] = IF asignationMatrix[at[e - 1]][e] THEN e ELSE at[e - 1]
  BY ScanRuns
<1>3. T \in SUBSET Nat /\ T # {}
  OBVIOUS
<1> HIDE DEF at, T
<1>4. PICK m \in T : \A y \in T : m <= y
  BY <1>3, LeastNumber
<1>5. m \in 0..n /\ c <= m /\ at[m] # at[c] /\ m # c
  BY <1>4 DEF T
<1>6. m - 1 \in 0..n /\ c <= m - 1 /\ m - 1 \notin T /\ m \in Indexes
  BY <1>1, <1>4, <1>5 DEF Indexes
<1>7. at[m - 1] = at[c]
  BY <1>6 DEF T
<1>8. at[m] = m /\ asignationMatrix[at[c]][m]
  BY <1>2, <1>5, <1>6, <1>7
<1>9. m \in Passed(row)
  BY <1>5, <1>8 DEF Passed, at
<1> QED
  BY <1>6, <1>8, <1>9 DEF at

\* The column of a row is passed by its own scan.
LEMMA ScanPassesColumn ==
  ASSUME ReportInv, NEW row \in Indexes, NEW j \in Indexes, asignationMatrix[row][j]
  PROVE  j \in Passed(row)
<1> DEFINE n == Len(allSystemEsis)
           at == ScanOf(row)
<1>1. /\ n \in Nat /\ at[0] = row /\ j \in 0..n /\ 0 \in 0..n /\ j - 1 \in 0..n
      /\ 0 <= j - 1 /\ 0 <= j
  BY ScanRuns DEF Indexes
<1>2. CASE at[j - 1] = row
  <2>1. at[j] = j
    BY <1>2, ScanRuns
  <2> QED
    BY <1>1, <2>1 DEF Passed
<1>3. CASE at[j - 1] # row
  <2>1. PICK e \in Indexes \cap Passed(row) : asignationMatrix[at[0]][e]
    BY <1>1, <1>3, ScanLeaves
  <2>2. e = j
    BY <1>1, <2>1, RowHasOneColumn
  <2> QED
    BY <2>1, <2>2
<1> QED
  BY <1>2, <1>3

\* A scan begins in a deadlock if and only if it ends in one.
LEMMA ScanStaysDead ==
  ASSUME ReportInv, NEW row \in Indexes
  PROVE  /\ Scan(asignationMatrix, row) \in Indexes
         /\ row \in DeadRows <=> Scan(asignationMatrix, row) \in DeadRows
<1> DEFINE n == Len(allSystemEsis)
           step == ScanStep(asignationMatrix)
           alive == Indexes \ DeadRows
<1>1. /\ n \in Nat /\ n \in 0..n
      /\ ScanOf(row) \in [0..n -> Indexes]
      /\ step \in [1..n -> [Indexes -> Indexes]]
      /\ Scan(asignationMatrix, row) = ScanOf(row)[n]
  BY ScanRuns
<1>2. Scan(asignationMatrix, row) \in Indexes
  BY <1>1
<1>3. ASSUME NEW c \in 1..n, NEW s \in Indexes
      PROVE  s \in DeadRows <=> step[c][s] \in DeadRows
  <2>1. c \in Indexes
    BY DEF Indexes
  <2>2. step[c][s] = IF asignationMatrix[s][c] THEN c ELSE s
    BY <2>1 DEF ScanStep
  <2> QED
    BY <2>1, <2>2, StepStaysDead
<1> HIDE DEF step
<1>4. ASSUME row \in DeadRows  PROVE Scan(asignationMatrix, row) \in DeadRows
  <2> DEFINE good == [c \in 0..n |-> DeadRows]
  <2>1. row \in good[0]
    BY <1>1, <1>4
  <2>2. \A c \in 1..n : \A s \in Indexes : s \in good[c - 1] => step[c][s] \in good[c]
    <3>1. \A c \in 1..n : c - 1 \in 0..n /\ c \in 0..n
      BY <1>1
    <3> QED
      BY <1>3, <3>1
  <2> HIDE DEF good
  <2>3. \A c \in 0..n : Looped(step, row, n)[c] \in good[c]
    BY <1>1, <2>1, <2>2, LoopKeeps
  <2> QED
    BY <1>1, <2>3 DEF ScanOf, step, good
<1>5. ASSUME row \notin DeadRows  PROVE Scan(asignationMatrix, row) \notin DeadRows
  <2> DEFINE good == [c \in 0..n |-> alive]
  <2>1. row \in good[0]
    BY <1>1, <1>5
  <2>2. \A c \in 1..n : \A s \in Indexes : s \in good[c - 1] => step[c][s] \in good[c]
    <3>1. \A c \in 1..n : c - 1 \in 0..n /\ c \in 0..n
      BY <1>1
    <3>2. \A c \in 1..n : \A s \in Indexes : step[c][s] \in Indexes
      BY <1>1
    <3> QED
      BY <1>3, <3>1, <3>2
  <2> HIDE DEF good
  <2>3. \A c \in 0..n : Looped(step, row, n)[c] \in good[c]
    BY <1>1, <2>1, <2>2, LoopKeeps
  <2> QED
    BY <1>1, <2>3 DEF ScanOf, step, good
<1> QED
  BY <1>2, <1>4, <1>5

-----------------------------------------------------------------------------
(* A walk.                                                                  *)

\* Rows a walk comes back to are in a deadlock: with those its scans pass over,
\* each of them waits for another one.
LEMMA CircleIsDead ==
  ASSUME ReportInv, NEW S \in SUBSET Indexes,
         \A x \in S : /\ FoundPosibleDeadlock(asignationMatrix, x)
                      /\ Scan(asignationMatrix, x) \in S
  PROVE  S \subseteq DeadRows
<1> DEFINE C == UNION {Passed(x) : x \in S}
<1>1. C \in SUBSET Indexes
  BY ScanRuns DEF Passed
<1>2. S \subseteq C
  <2> SUFFICES ASSUME NEW x \in S  PROVE x \in Passed(x)
    OBVIOUS
  <2>1. 0 \in 0..Len(allSystemEsis) /\ ScanOf(x)[0] = x
    BY ScanRuns
  <2> QED
    BY <2>1 DEF Passed
<1>3. ASSUME NEW y \in C  PROVE \E j \in C : asignationMatrix[y][j]
  <2>1. PICK x \in S, c \in 0..Len(allSystemEsis) : y = ScanOf(x)[c]
    BY DEF Passed
  <2>2. x \in Indexes
    OBVIOUS
  <2>3. /\ Len(allSystemEsis) \in Nat
        /\ Scan(asignationMatrix, x) = ScanOf(x)[Len(allSystemEsis)]
    BY <2>2, ScanRuns
  <2>4. CASE y = Scan(asignationMatrix, x)
    <3>1. y \in S
      BY <2>1, <2>4
    <3>2. PICK j \in Indexes : asignationMatrix[y][j]
      BY <3>1 DEF FoundPosibleDeadlock
    <3>3. j \in Passed(y)
      BY <3>1, <3>2, ScanPassesColumn
    <3> QED
      BY <3>1, <3>2, <3>3
  <2>5. CASE y # Scan(asignationMatrix, x)
    <3>1. Len(allSystemEsis) \in 0..Len(allSystemEsis) /\ c <= Len(allSystemEsis)
      BY <2>3
    <3>2. \E e \in Indexes \cap Passed(x) : asignationMatrix[y][e]
      BY <2>1, <2>2, <2>3, <2>5, <3>1, ScanLeaves
    <3> QED
      BY <3>2
  <2> QED
    BY <2>4, <2>5
<1>4. C \subseteq DeadRows
  BY <1>1, <1>3, ClosedIsDead
<1> QED
  BY <1>2, <1>4

LEMMA WalkRuns ==
  ASSUME ReportInv, NEW first \in Indexes
  PROVE  LET at == IndexesToContinue(asignationMatrix, first)
             n == Len(allSystemEsis)
         IN  /\ at \in [0..n -> Indexes]
             /\ at[0] = first
             /\ \A t \in Indexes : at[t] = Scan(asignationMatrix, at[t - 1])
             /\ \A t \in 0..n : at[t] \in DeadRows <=> first \in DeadRows
<1> DEFINE at == IndexesToContinue(asignationMatrix, first)
           n == Len(allSystemEsis)
           step == [turn \in Indexes |-> [row \in Indexes |-> Scan(asignationMatrix, row)]]
           same == {i \in Indexes : i \in DeadRows <=> first \in DeadRows}
           good == [t \in 0..n |-> same]
<1>1. n \in Nat
  BY ScanRuns
<1>2. /\ step \in [1..n -> [Indexes -> Indexes]]
      /\ \A t \in 1..n : \A row \in Indexes : step[t][row] = Scan(asignationMatrix, row)
  BY ScanStaysDead DEF Indexes
<1>3. at = Looped(step, first, n)
  BY DEF IndexesToContinue
<1> HIDE DEF step
<1>4. at \in [0..n -> Indexes] /\ IsRunOf(at, step, first, n)
  BY <1>1, <1>2, <1>3, LoopedRuns
<1>5. \A t \in 0..n : at[t] \in good[t]
  <2>1. first \in good[0]
    BY <1>1
  <2>2. ASSUME NEW t \in 1..n, NEW row \in Indexes, row \in good[t - 1]
        PROVE  step[t][row] \in good[t]
    <3>1. t - 1 \in 0..n /\ t \in 0..n
      BY <1>1
    <3>2. row \in same
      BY <2>2, <3>1
    <3>3. step[t][row] \in same
      BY <1>2, <3>2, ScanStaysDead
    <3> QED
      BY <3>1, <3>3
  <2>3. \A t \in 1..n : \A row \in Indexes : row \in good[t - 1] => step[t][row] \in good[t]
    BY <2>2
  <2> HIDE DEF good, at
  <2>4. \A t \in 0..n : Looped(step, first, n)[t] \in good[t]
    BY <1>1, <1>2, <2>1, <2>3, LoopKeeps
  <2> QED
    BY <1>3, <2>4
<1>6. \A t \in Indexes : at[t] = Scan(asignationMatrix, at[t - 1])
  <2> SUFFICES ASSUME NEW t \in 1..n  PROVE at[t] = Scan(asignationMatrix, at[t - 1])
    BY DEF Indexes
  <2>1. t - 1 \in 0..n
    BY <1>1
  <2> QED
    BY <1>2, <1>4, <2>1 DEF IsRunOf
<1> HIDE DEF at
<1>7. \A t \in 0..n : at[t] \in DeadRows <=> first \in DeadRows
  BY <1>5
<1> QED
  BY <1>4, <1>6, <1>7 DEF IsRunOf, at

\* As there are more turns than rows, a walk that does not end before comes to a
\* row again.
LEMMA WalkComesBack ==
  ASSUME ReportInv, NEW at \in [0..Len(allSystemEsis) -> Indexes]
  PROVE  \E turn \in 0..Len(allSystemEsis) : \E t \in 0..(turn - 1) : at[t] = at[turn]
<1> DEFINE n == Len(allSystemEsis)
<1>1. n \in Nat
  BY InSystemIsElements DEF ReportInv, ListInv
<1>2. at \in [0..n -> 1..n]
  BY DEF Indexes
<1> HIDE DEF n
<1>3. IsFiniteSet(1..n) /\ Cardinality(1..n) = n
  <2>1. IsFiniteSet(1..n) /\ Cardinality(1..n) = IF 1 > n THEN 0 ELSE n - 1 + 1
    BY <1>1, FS_Interval
  <2> QED
    BY <1>1, <2>1
<1>4. IsFiniteSet(0..n) /\ Cardinality(0..n) = n + 1
  <2>1. IsFiniteSet(0..n) /\ Cardinality(0..n) = IF 0 > n THEN 0 ELSE n - 0 + 1
    BY <1>1, FS_Interval
  <2> QED
    BY <1>1, <2>1
<1>5. PICK x, y \in 0..n : x # y /\ at[x] = at[y]
  <2>1. Cardinality(1..n) < Cardinality(0..n)
    BY <1>1, <1>3, <1>4
  <2> QED
    BY <1>2, <1>3, <1>4, <2>1, FS_PigeonHole
<1>6. x \in 0..(y - 1) \/ y \in 0..(x - 1)
  BY <1>1, <1>5
<1> QED
  BY <1>5, <1>6 DEF n

\* actualDeadlockEsis: nothing but ESIs in a deadlock, and the first row if it
\* is one.
LEMMA WalkIsRight ==
  ASSUME ReportInv, NEW first \in Indexes
  PROVE  /\ WalkFrom(asignationMatrix, first) \subseteq DeadRows
         /\ first \in DeadRows => first \in WalkFrom(asignationMatrix, first)
<1> DEFINE n == Len(allSystemEsis)
           at == IndexesToContinue(asignationMatrix, first)
           seen(turn) == {at[t] : t \in 0..(turn - 1)}
           found(row) == FoundPosibleDeadlock(asignationMatrix, row)
           ends == {turn \in 0..n : at[turn] \in seen(turn) \/ ~found(at[turn])}
           last == Min(ends)
<1>1. WalkFrom(asignationMatrix, first) = IF at[last] \in seen(last) THEN seen(last) ELSE {}
  BY DEF WalkFrom
<1>2. /\ n \in Nat /\ at \in [0..n -> Indexes] /\ at[0] = first
      /\ \A t \in Indexes : at[t] = Scan(asignationMatrix, at[t - 1])
      /\ \A t \in 0..n : at[t] \in DeadRows <=> first \in DeadRows
  BY ScanRuns, WalkRuns
<1> HIDE DEF at
<1>3. ends \in SUBSET Nat /\ ends # {}
  <2>1. PICK turn \in 0..n : \E t \in 0..(turn - 1) : at[t] = at[turn]
    BY <1>2, WalkComesBack
  <2>2. turn \in ends
    BY <2>1
  <2> QED
    BY <1>2, <2>2
<1> HIDE DEF ends
<1>4. last \in ends /\ \A t \in ends : last <= t
  BY <1>3, MinProperties
<1> HIDE DEF last
<1>5. last \in 0..n /\ (at[last] \in seen(last) \/ ~found(at[last]))
  BY <1>4 DEF ends
<1>6. CASE at[last] \in seen(last)
  <2> DEFINE S == seen(last)
  <2>1. last > 0
    BY <1>5, <1>6
  <2>2. first \in S
    <3>1. 0 \in 0..(last - 1)
      BY <1>5, <2>1
    <3> QED
      BY <1>2, <3>1
  <2>3. ASSUME NEW t \in 0..(last - 1)
        PROVE  /\ at[t] \in Indexes /\ found(at[t])
               /\ Scan(asignationMatrix, at[t]) \in S
    <3>1. /\ t \in 0..n /\ t + 1 \in Indexes /\ (t + 1) - 1 = t /\ ~(last <= t)
          /\ t + 1 = last \/ t + 1 \in 0..(last - 1)
      BY <1>2, <1>5 DEF Indexes
    <3>2. found(at[t])
      BY <1>4, <3>1 DEF ends
    <3>3. Scan(asignationMatrix, at[t]) = at[t + 1]
      BY <1>2, <3>1
    <3>4. at[t + 1] \in S
      BY <1>6, <3>1
    <3> QED
      BY <1>2, <3>1, <3>2, <3>3, <3>4
  <2>4. S \subseteq DeadRows
    <3>1. S \in SUBSET Indexes
      BY <2>3
    <3>2. \A x \in S : found(x) /\ Scan(asignationMatrix, x) \in S
      BY <2>3
    <3> QED
      BY <3>1, <3>2, CircleIsDead
  <2> QED
    BY <1>1, <1>6, <2>2, <2>4
<1>7. CASE at[last] \notin seen(last)
  <2>1. ~found(at[last]) /\ at[last] \in Indexes
    BY <1>2, <1>5, <1>7
  <2>2. at[last] \notin DeadRows
    BY <2>1, DeadWaitForDead DEF FoundPosibleDeadlock, DeadRows
  <2>3. first \notin DeadRows
    BY <1>2, <1>5, <2>2
  <2> QED
    BY <1>1, <1>7, <2>3
<1> QED
  BY <1>6, <1>7

-----------------------------------------------------------------------------
(* The report.                                                              *)

\* totalDeadlockEsis, row by row: only ESIs in a deadlock, and all of those that
\* the rows so far stand for.
LEMMA TotalIsRight ==
  ASSUME ReportInv
  PROVE  totalDeadlockEsis = DeadRows
<1> DEFINE n == Len(allSystemEsis)
           S == SUBSET Indexes
           step == [row \in Indexes |-> [total \in S |->
                       IF row \in total THEN total
                       ELSE total \union WalkFrom(asignationMatrix, row)]]
           right(row) == {total \in S : /\ total \subseteq DeadRows
                                        /\ DeadRows \cap 1..row \subseteq total}
           good == [row \in 0..n |-> right(row)]
<1>1. n \in Nat
  BY InSystemIsElements DEF ReportInv, ListInv
<1>2. totalDeadlockEsis = Looped(step, {}, n)[n]
  BY DEF totalDeadlockEsis
<1>3. DeadRows \subseteq Indexes /\ \A row \in Indexes : WalkFrom(asignationMatrix, row) \subseteq Indexes
  BY WalkIsRight DEF DeadRows
<1>4. /\ step \in [1..n -> [S -> S]]
      /\ \A row \in 1..n : \A total \in S :
            step[row][total] = IF row \in total THEN total
                               ELSE total \union WalkFrom(asignationMatrix, row)
  BY <1>3 DEF Indexes
<1> HIDE DEF step
<1>5. {} \in S /\ {} \in good[0]
  <2>1. 1..0 = {} /\ 0 \in 0..n
    BY <1>1
  <2> QED
    BY <2>1
<1>6. ASSUME NEW row \in 1..n, NEW total \in S, total \in good[row - 1]
      PROVE  step[row][total] \in good[row]
  <2>1. row - 1 \in 0..n /\ row \in 0..n /\ row \in Indexes
    BY <1>1 DEF Indexes
  <2>2. total \subseteq DeadRows /\ DeadRows \cap 1..(row - 1) \subseteq total
    BY <1>6, <2>1
  <2>3. /\ step[row][total] \in S
        /\ step[row][total] \subseteq DeadRows
        /\ total \subseteq step[row][total]
        /\ row \in DeadRows => row \in step[row][total]
    <3>1. step[row][total] = IF row \in total THEN total
                             ELSE total \union WalkFrom(asignationMatrix, row)
      BY <1>4
    <3>2. /\ WalkFrom(asignationMatrix, row) \subseteq DeadRows
          /\ row \in DeadRows => row \in WalkFrom(asignationMatrix, row)
      BY <2>1, WalkIsRight
    <3> QED
      BY <1>3, <2>2, <3>1, <3>2
  <2>4. \A i \in 1..row : i = row \/ i \in 1..(row - 1)
    BY <2>1
  <2>5. DeadRows \cap 1..row \subseteq step[row][total]
    BY <2>2, <2>3, <2>4
  <2> QED
    BY <2>1, <2>3, <2>5
<1> HIDE DEF good, S
<1>7. \A row \in 0..n : Looped(step, {}, n)[row] \in good[row]
  BY <1>1, <1>4, <1>5, <1>6, LoopKeeps
<1>8. n \in 0..n
  BY <1>1
<1>9. totalDeadlockEsis \in right(n)
  BY <1>2, <1>7, <1>8 DEF good
<1> QED
  BY <1>3, <1>9 DEF Indexes

LEMMA ReportInvIsRight ==
  ASSUME ReportInv
  PROVE  ReportIsRight
<1>1. Deadlocked \subseteq InSystem
  <2> SUFFICES ASSUME NEW S \in SUBSET Esis, WaitEachOther(S), NEW e \in S
               PROVE  e \in InSystem
    BY DEF Deadlocked
  <2> QED
    BY DEF WaitEachOther, ReportInv, ListInv
<1>2. InSystem = {allSystemEsis[i] : i \in Indexes}
  BY InSystemIsElements DEF ReportInv, ListInv
<1>3. {allSystemEsis[i] : i \in DeadRows} = Deadlocked
  BY <1>1, <1>2 DEF DeadRows
<1> QED
  BY <1>3, TotalIsRight DEF ReportIsRight

-----------------------------------------------------------------------------

\* The lock service under the console: a key has at most one holder
\* (KeyLocks, to which the planificador's lockedKeys lists are mapped).
THEOREM KeysHaveOneHolder == DeadlockSpec => []DeadlockInv
<1>1. DeadlockInit => DeadlockInv
  BY DEF DeadlockInit, Init, DeadlockInv, KeyLocksTypeOK, OneHolder
<1>2. DeadlockInv /\ [DeadlockNext]_vars => DeadlockInv'
  BY DeadlockStep
<1> QED
  BY <1>1, <1>2, PTL DEF DeadlockSpec

\* ESIs in a deadlock, as executeDeadlockAlgorithm means it, stay in one until
\* deleteEsiFromSystem is called for one of them: no GET, STORE or arrival, and
\* no end of a script outside the deadlock, lets them go on.  The operator has to
\* kill one, which is what the command is for.
THEOREM DeadlocksLast == DeadlockSpec => DeadlockLasts
<1>1. ASSUME DeadlockInv, [DeadlockNext]_vars, ~ \E e \in Deadlocked : EsiIsDeleted(e)
      PROVE  Deadlocked \subseteq Deadlocked'
  <2> SUFFICES ASSUME NEW S \in SUBSET Esis, WaitEachOther(S)
               PROVE  WaitEachOther(S)'
    BY DEF Deadlocked
  <2>1. S \subseteq Deadlocked
    BY DEF Deadlocked
  <2> QED
    BY <1>1, <2>1, SetLasts
<1>2. DeadlockInv /\ [DeadlockNext]_vars
        => [Deadlocked \subseteq Deadlocked' \/ \E e \in Deadlocked : EsiIsDeleted(e)]_vars
  BY <1>1
<1> QED
  BY <1>2, KeysHaveOneHolder, PTL DEF DeadlockSpec, DeadlockLasts

\* executeDeadlockAlgorithm reports the ESIs of every deadlock and those that wait
\* for one, and no other, for any number of ESIs and in any order of arrival.
\* The list has each of them once, and each waits for one key, so that a row of
\* the matrix has one column at most: a scan that jumps goes along the same walk.
THEOREM ReportsAreRight == DeadlockSpec => []ReportIsRight
<1>1. DeadlockInit => ReportInv
  <2> SUFFICES ASSUME DeadlockInit  PROVE ReportInv
    OBVIOUS
  <2>1. allSystemEsis \in Seq(Esis) /\ Len(allSystemEsis) = 0
    BY EmptySeq DEF DeadlockInit
  <2>2. \A k \in Keys : holders[k] = {} /\ waiting[k] = {}
    BY DEF DeadlockInit, Init
  <2>3. DeadlockInv
    BY DEF DeadlockInit, Init, DeadlockInv, KeyLocksTypeOK, OneHolder
  <2>4. Indexes = {}
    BY <2>1 DEF Indexes
  <2> QED
    BY <2>1, <2>2, <2>3, <2>4 DEF ReportInv, OneWait, ListInv
<1>2. ReportInv /\ [DeadlockNext]_vars => ReportInv'
  BY ReportStep
<1>3. ReportInv => ReportIsRight
  BY ReportInvIsRight
<1> QED
  BY <1>1, <1>2, <1>3, PTL DEF DeadlockSpec
=============================================================================
