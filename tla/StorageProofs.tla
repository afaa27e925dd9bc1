---------------------------- MODULE StorageProofs ----------------------------
(* Theorems about the storage of an instancia for every set of keys and      *)
(* values, every number and size of the entries, and any sequence of SETs,   *)
(* STOREs, dumps, compactions, falls and recoveries.                         *)
(*                                                                           *)
(* The values are intact because the memory is in order (MemoryInv): rows lie *)
(* apart, the bitmap marks them, and each holds its value piece by piece.  A  *)
(* lemma shows it for each kind of step that moves something: an update, a    *)
(* new row, an eviction, a compaction, a fall.  The rest of StorageInv says   *)
(* what each job works on, what a retry finds, and what was reported or kept. *)
EXTENDS Storage, FiniteSetTheorems, SequenceTheorems, WellFoundedInduction, TLAPS

-----------------------------------------------------------------------------
(* Lists.                                                                   *)

\* Any nonempty set of natural numbers has a least one.
LEMMA LeastNumber ==
  ASSUME NEW T \in SUBSET Nat, T # {}
  PROVE  \E x \in T : \A y \in T : x <= y
<1>1. PICK x \in T : \A y \in T : ~(<<y, x>> \in OpToRel(<, Nat))
  BY NatLessThanWellFounded, WFMin
<1>2. \A y \in T : ~(y < x)
  BY <1>1 DEF OpToRel
<1> QED
  BY <1>2

\* A list without one of its elements.
LEMMA RemoveAtProperties ==
  ASSUME NEW S, NEW s \in Seq(S), NEW i \in 1..Len(s)
  PROVE  /\ RemoveAt(s, i) \in Seq(S)
         /\ Len(RemoveAt(s, i)) = Len(s) - 1
         /\ \A j \in 1..(Len(s) - 1) :
               RemoveAt(s, i)[j] = IF j < i THEN s[j] ELSE s[j + 1]
<1> DEFINE front == SubSeq(s, 1, i - 1)
           back  == SubSeq(s, i + 1, Len(s))
<1>1. Len(s) \in Nat /\ i \in Nat /\ \A j \in 1..Len(s) : s[j] \in S
  BY LenProperties, ElementOfSeq
<1>2. /\ front \in Seq(S) /\ Len(front) = i - 1
      /\ \A j \in 1..(i - 1) : front[j] = s[j]
  <2>1. \A j \in 1..(i - 1) : s[j] \in S
    BY <1>1
  <2> QED
    BY <1>1, <2>1, SubSeqProperties
<1>3. /\ back \in Seq(S) /\ Len(back) = Len(s) - i
      /\ \A j \in 1..(Len(s) - i) : back[j] = s[j + i]
  <2>1. \A j \in (i + 1)..Len(s) : s[j] \in S
    BY <1>1
  <2>2. /\ back \in Seq(S)
        /\ Len(back) = IF i + 1 <= Len(s) THEN Len(s) - (i + 1) + 1 ELSE 0
        /\ \A j \in 1..(Len(s) - (i + 1) + 1) : back[j] = s[i + 1 + j - 1]
    BY <1>1, <2>1, SubSeqProperties
  <2> HIDE DEF back
  <2> QED
    BY <1>1, <2>2
<1> HIDE DEF front, back
<1>4. /\ front \o back \in Seq(S) /\ Len(front \o back) = Len(front) + Len(back)
      /\ \A j \in 1..(Len(front) + Len(back)) :
            (front \o back)[j] = IF j <= Len(front) THEN front[j]
                                 ELSE back[j - Len(front)]
  BY <1>2, <1>3, ConcatProperties
<1>5. RemoveAt(s, i) = front \o back
  BY DEF RemoveAt, front, back
<1>6. ASSUME NEW j \in 1..(Len(s) - 1)
      PROVE  (front \o back)[j] = IF j < i THEN s[j] ELSE s[j + 1]
  <2>1. CASE j < i
    BY <1>1, <1>2, <1>3, <1>4, <2>1
  <2>2. CASE ~(j < i)
    <3> DEFINE m == j - (i - 1)
    <3>1. m \in 1..(Len(s) - i) /\ m + i = j + 1
      BY <1>1, <2>2
    <3>2. (front \o back)[j] = back[m]
      BY <1>1, <1>2, <1>3, <1>4, <2>2
    <3> HIDE DEF m
    <3> QED
      BY <1>3, <2>2, <3>1, <3>2
  <2> QED
    BY <2>1, <2>2
<1>7. Len(front \o back) = Len(s) - 1
  BY <1>1, <1>2, <1>3, <1>4
<1> QED
  BY <1>4, <1>5, <1>6, <1>7

\* A list without the first k.
LEMMA RemoveFirstType ==
  ASSUME NEW S, NEW s \in Seq(S), NEW k
  PROVE  RemoveFirst(s, k) \in Seq(S)
<1> DEFINE I == {j \in 1..Len(s) : s[j] = k}
           i == SelectInSeq(s, LAMBDA v : v = k)
<1>1. CASE I = {}
  BY <1>1 DEF RemoveFirst
<1>2. CASE I # {}
  <2>1. i = Min(I)
    BY <1>2 DEF SelectInSeq
  <2>2. RemoveFirst(s, k) = RemoveAt(s, i)
    BY <1>2 DEF RemoveFirst
  <2>3. I \in SUBSET Nat /\ I \subseteq 1..Len(s)
    BY LenProperties
  <2> HIDE DEF I, i
  <2>4. \E x \in I : \A y \in I : x <= y
    BY <1>2, <2>3, LeastNumber
  <2>5. i \in 1..Len(s)
    BY <2>1, <2>3, <2>4 DEF Min
  <2> QED
    BY <2>2, <2>5, RemoveAtProperties
<1> QED
  BY <1>1, <1>2

-----------------------------------------------------------------------------
(* Entries and rows.                                                        *)

LEMMA EntriesType ==
  ASSUME NEW n \in Nat \ {0}
  PROVE  Entries(n) \in Nat \ {0}
<1>1. EntrySize \in Nat /\ EntrySize > 0 /\ n - 1 \in Nat
  BY StorageAssumption
<1>2. (n - 1) \div EntrySize \in Nat
  BY <1>1
<1> QED
  BY <1>2 DEF Entries

LEMMA SlotsFinite ==
  /\ IsFiniteSet(Slots) /\ Cardinality(Slots) = EntriesAmount
  /\ EntriesAmount \in Nat /\ EntriesAmount > 0
<1>1. EntriesAmount \in Nat /\ EntriesAmount > 0 /\ EntriesAmount - 1 \in Int /\ 0 \in Int
  BY StorageAssumption
<1>2. /\ IsFiniteSet(0..(EntriesAmount - 1))
      /\ Cardinality(0..(EntriesAmount - 1)) =
            IF 0 > EntriesAmount - 1 THEN 0 ELSE (EntriesAmount - 1) - 0 + 1
  BY <1>1, FS_Interval
<1> QED
  BY <1>1, <1>2 DEF Slots

\* getTotalSettedEntries
LEMMA UsedType ==
  /\ IsFiniteSet(UsedSlots) /\ Used \in Nat /\ Used <= EntriesAmount
<1>1. UsedSlots \in SUBSET Slots
  BY DEF UsedSlots
<1> QED
  BY <1>1, SlotsFinite, FS_Subset, FS_CardinalityType DEF Used

-----------------------------------------------------------------------------
(* The memory: the inductive invariant.                                     *)

MemoryTypes ==
    /\ table \in Seq(Rows)
    /\ biMap \in [Slots -> {0, 1}]
    /\ storage \in [Slots -> Pieces]
    /\ lastSet \in [Keys -> Values \union {NoValue}]

\* BitmapIsTable, entry by entry
RowsApart ==
    /\ \A j \in 1..Len(table) : Extent(table[j]) \subseteq Slots
    /\ \A i, j \in 1..Len(table) : i # j =>
          /\ table[i].key # table[j].key
          /\ Extent(table[i]) \intersect Extent(table[j]) = {}
MarksRight ==
    \A i \in Slots :
        biMap[i] = 1 <=> \E j \in 1..Len(table) : i \in Extent(table[j])

\* The entries of a row hold, piece by piece, a value of its size.
Holds(row, v) ==
    /\ v \in Values /\ Size[v] = row.size /\ row.size > 0
    /\ \A i \in Extent(row) : storage[i] = <<v, i - row.start>>
RowsHold == \A j \in 1..Len(table) : Holds(table[j], lastSet[table[j].key])

MemoryInv == MemoryTypes /\ RowsApart /\ MarksRight /\ RowsHold

LEMMA RowType ==
  ASSUME MemoryInv, NEW j \in 1..Len(table)
  PROVE  /\ table[j] \in Rows /\ table[j].key \in Keys
         /\ table[j].start \in Slots /\ table[j].start \in Nat
         /\ table[j].size \in Nat \ {0} /\ Entries(table[j].size) \in Nat \ {0}
         /\ Extent(table[j]) \subseteq Slots
<1>1. table[j] \in Rows
  BY ElementOfSeq DEF MemoryInv, MemoryTypes
<1>2. table[j].size \in Nat \ {0}
  BY <1>1 DEF Rows, MemoryInv, RowsHold, Holds
<1>3. table[j].start \in Slots /\ table[j].start \in Nat
  BY <1>1, SlotsFinite DEF Rows, Slots
<1> QED
  BY <1>1, <1>2, <1>3, EntriesType DEF Rows, MemoryInv, RowsApart

\* The bitmap is what the table says.
LEMMA BitmapRight ==
  ASSUME MemoryInv
  PROVE  BitmapIsTable
<1>1. UsedSlots = UNION {Extent(table[j]) : j \in 1..Len(table)}
  <2>1. \A i : i \in UsedSlots => \E j \in 1..Len(table) : i \in Extent(table[j])
    BY DEF UsedSlots, MemoryInv, MarksRight
  <2>2. ASSUME NEW j \in 1..Len(table), NEW i \in Extent(table[j])
        PROVE  i \in UsedSlots
    BY DEF UsedSlots, MemoryInv, MarksRight, RowsApart
  <2> QED
    BY <2>1, <2>2
<1> QED
  BY <1>1 DEF BitmapIsTable, MemoryInv, RowsApart

\* getValue gives back the value that the row holds, and no other.
LEMMA ReadsWhatItHolds ==
  ASSUME MemoryInv, NEW j \in 1..Len(table)
  PROVE  /\ ReadValue(table[j]) = lastSet[table[j].key]
         /\ lastSet[table[j].key] \in Values
<1> DEFINE row == table[j]
           v == lastSet[row.key]
<1>1. /\ row.start \in Slots /\ row.start \in Nat /\ Entries(row.size) \in Nat \ {0}
      /\ Extent(row) \subseteq Slots
  BY RowType
<1>2. v \in Values /\ Reads(row, v)
  BY <1>1 DEF MemoryInv, RowsHold, Holds, Reads
<1>3. row.start \in Extent(row) /\ row.start \in Slots
  BY <1>1 DEF Extent
<1>4. ASSUME NEW w \in Values, Reads(row, w) PROVE w = v
  <2>1. storage[row.start] = <<w, row.start - row.start>>
    BY <1>3, <1>4 DEF Reads
  <2>2. storage[row.start] = <<v, row.start - row.start>>
    BY <1>2, <1>3 DEF Reads
  <2> QED
    BY <2>1, <2>2
<1> HIDE DEF row, v
<1>5. ReadValue(row) = v
  BY <1>2, <1>4 DEF ReadValue
<1> QED
  BY <1>2, <1>5 DEF row, v

\* The row of a key
LEMMA IndexType ==
  ASSUME MemoryInv, NEW k, Has(k)
  PROVE  /\ Index(k) \in 1..Len(table) /\ table[Index(k)].key = k
         /\ \A j \in 1..Len(table) : table[j].key = k => j = Index(k)
<1>1. Index(k) \in 1..Len(table) /\ table[Index(k)].key = k
  BY DEF Has, Index
<1> QED
  BY <1>1 DEF MemoryInv, RowsApart

-----------------------------------------------------------------------------
(* What the steps do to the memory.                                         *)

\* Sizes that are set are at least 1.
LEMMA StorableType ==
  ASSUME NEW v \in Values, Size[v] # 0
  PROVE  Size[v] \in Nat \ {0} /\ Entries(Size[v]) \in Nat \ {0}
<1>1. Size[v] \in Nat \ {0}
  BY StorageAssumption
<1> QED
  BY <1>1, EntriesType

\* The value of a row that is there is replaced by one that takes no more.
LEMMA UpdateMemory ==
  ASSUME MemoryInv, key \in Keys, value \in Values, SetUpdates
  PROVE  MemoryInv'
<1> DEFINE J == Index(key)
           row == table[J]
           kept == row.start..(row.start + Needed - 1)
<1>1. /\ Needed <= Entries(row.size) /\ Size[value] # 0
      /\ biMap' = Marked(Marked(biMap, Extent(row), 0), kept, 1)
      /\ storage' = Written(value, row.start)
      /\ table' = [table EXCEPT ![J].size = Size[value]]
      /\ lastSet' = [lastSet EXCEPT ![key] = value]
  BY DEF SetUpdates, Succeeds, Storable
<1>2. /\ J \in 1..Len(table) /\ row.key = key
      /\ \A j \in 1..Len(table) : table[j].key = key => j = J
  BY IndexType DEF SetUpdates
<1>3. Needed \in Nat \ {0} /\ Size[value] \in Nat \ {0}
  BY <1>1, StorableType DEF Needed
<1>4. /\ row \in Rows /\ row.start \in Nat /\ Entries(row.size) \in Nat
      /\ Extent(row) \subseteq Slots
  BY <1>2, RowType
<1>5. kept \subseteq Extent(row)
  BY <1>1, <1>3, <1>4 DEF Extent
<1>6. /\ Len(table') = Len(table) /\ Len(table) \in Nat
      /\ \A j \in 1..Len(table) : j # J => table'[j] = table[j]
      /\ table'[J] = [row EXCEPT !.size = Size[value]]
      /\ table' \in Seq(Rows)
  <2>1. [row EXCEPT !.size = Size[value]] \in Rows
    BY <1>3, <1>4 DEF Rows
  <2>2. table \in Seq(Rows)
    BY DEF MemoryInv, MemoryTypes
  <2>3. table' = [table EXCEPT ![J] = [row EXCEPT !.size = Size[value]]]
    BY <1>1
  <2> QED
    BY <1>2, <2>1, <2>2, <2>3, ExceptSeq, LenProperties
<1>7. /\ table'[J].key = key /\ table'[J].start = row.start
      /\ table'[J].size = Size[value] /\ Extent(table'[J]) = kept
  BY <1>2, <1>4, <1>6 DEF Extent, Needed, Rows
<1> HIDE DEF J, row
<1>8. \A i \in Slots : biMap'[i] = IF i \in kept THEN 1
                                   ELSE IF i \in Extent(row) THEN 0 ELSE biMap[i]
  BY <1>1 DEF Marked
<1>9. \A i \in Slots : storage'[i] = IF i \in kept THEN <<value, i - row.start>>
                                                    ELSE storage[i]
  BY <1>1 DEF Written, Needed
<1>10. MemoryTypes'
  <2>1. biMap' \in [Slots -> {0, 1}]
    <3>1. biMap \in [Slots -> {0, 1}]
      BY DEF MemoryInv, MemoryTypes
    <3> QED
      BY <1>1, <3>1 DEF Marked
  <2>2. storage' \in [Slots -> Pieces]
    <3>1. \A i \in Slots : storage'[i] \in Pieces
      <4> SUFFICES ASSUME NEW i \in Slots PROVE storage'[i] \in Pieces
        OBVIOUS
      <4>1. CASE i \in kept
        <5>1. i - row.start \in Slots
          BY <1>3, <1>4, <4>1, SlotsFinite DEF Slots
        <5>2. <<value, i - row.start>> \in Values \X Slots
          BY <5>1
        <5>3. storage'[i] = <<value, i - row.start>>
          BY <1>9, <4>1
        <5> QED
          BY <5>2, <5>3 DEF Pieces
      <4>2. CASE i \notin kept
        BY <1>9, <4>2 DEF MemoryInv, MemoryTypes
      <4> QED
        BY <4>1, <4>2
    <3>2. storage' = [i \in Slots |-> storage'[i]]
      BY <1>1 DEF Written
    <3> QED
      BY <3>1, <3>2
  <2>3. lastSet' \in [Keys -> Values \union {NoValue}]
    BY <1>1 DEF MemoryInv, MemoryTypes
  <2> QED
    BY <1>6, <2>1, <2>2, <2>3 DEF MemoryTypes
<1> HIDE DEF kept
<1>11. \A j \in 1..Len(table) : j # J => Extent(table[j]) \intersect Extent(row) = {}
  BY <1>2 DEF MemoryInv, RowsApart, row
<1>12. RowsApart'
  <2>1. \A j \in 1..Len(table') : Extent(table'[j]) \subseteq Slots
    BY <1>4, <1>5, <1>6, <1>7 DEF MemoryInv, RowsApart
  <2>2. ASSUME NEW i \in 1..Len(table), NEW j \in 1..Len(table), i # j
        PROVE  /\ table'[i].key # table'[j].key
               /\ Extent(table'[i]) \intersect Extent(table'[j]) = {}
    <3>1. CASE i = J
      BY <1>2, <1>5, <1>6, <1>7, <1>11, <2>2, <3>1
    <3>2. CASE j = J
      BY <1>2, <1>5, <1>6, <1>7, <1>11, <2>2, <3>2
    <3>3. CASE i # J /\ j # J
      BY <1>6, <2>2, <3>3 DEF MemoryInv, RowsApart
    <3> QED
      BY <3>1, <3>2, <3>3
  <2> QED
    BY <1>6, <2>1, <2>2 DEF RowsApart
<1>13. MarksRight'
  <2> SUFFICES ASSUME NEW i \in Slots
               PROVE  biMap'[i] = 1 <=> \E j \in 1..Len(table) : i \in Extent(table'[j])
    BY <1>6 DEF MarksRight
  <2>1. CASE i \in kept
    BY <1>2, <1>7, <1>8, <2>1
  <2>2. CASE i \notin kept /\ i \in Extent(row)
    BY <1>6, <1>7, <1>8, <1>11, <2>2
  <2>3. CASE i \notin Extent(row)
    <3>1. biMap'[i] = biMap[i]
      BY <1>5, <1>8, <2>3
    <3>2. \A j \in 1..Len(table) : i \in Extent(table'[j]) <=> i \in Extent(table[j])
      BY <1>5, <1>6, <1>7, <2>3 DEF row
    <3> QED
      BY <3>1, <3>2 DEF MemoryInv, MarksRight
  <2> QED
    BY <2>1, <2>2, <2>3
<1>14. RowsHold'
  <2> SUFFICES ASSUME NEW j \in 1..Len(table)
               PROVE  /\ lastSet'[table'[j].key] \in Values
                      /\ Size[lastSet'[table'[j].key]] = table'[j].size
                      /\ table'[j].size > 0
                      /\ \A i \in Extent(table'[j]) :
                            storage'[i] = <<lastSet'[table'[j].key], i - table'[j].start>>
    BY <1>6 DEF RowsHold, Holds
  <2>1. CASE j = J
    <3>1. lastSet'[key] = value
      BY <1>1 DEF MemoryInv, MemoryTypes
    <3>2. \A i \in kept : storage'[i] = <<value, i - row.start>>
      BY <1>4, <1>5, <1>9
    <3> QED
      BY <1>3, <1>7, <2>1, <3>1, <3>2
  <2>2. CASE j # J
    <3>1. table'[j] = table[j] /\ table[j].key # key /\ table[j].key \in Keys
      BY <1>2, <1>6, <2>2, RowType
    <3>2. lastSet'[table[j].key] = lastSet[table[j].key]
      BY <1>1, <3>1 DEF MemoryInv, MemoryTypes
    <3>3. \A i \in Extent(table[j]) : storage'[i] = storage[i]
      BY <1>5, <1>9, <1>11, <2>2 DEF MemoryInv, RowsApart
    <3> QED
      BY <3>1, <3>2, <3>3 DEF MemoryInv, RowsHold, Holds
  <2> QED
    BY <2>1, <2>2
<1> QED
  BY <1>10, <1>12, <1>13, <1>14 DEF MemoryInv

\* getStartEntryToSet finds the first place, where there is one.
LEMMA FirstFitFits ==
  ASSUME NEW n, \E s \in Slots : Fits(s, n)
  PROVE  FirstFit(n) \in Slots /\ Fits(FirstFit(n), n)
<1> DEFINE T == {s \in Slots : Fits(s, n)}
<1>1. T \in SUBSET Nat /\ T # {}
  BY SlotsFinite DEF Slots
<1> HIDE DEF T
<1>2. PICK s \in T : \A r \in T : s <= r
  BY <1>1, LeastNumber
<1>3. \E x \in Slots : Fits(x, n) /\ \A r \in Slots : Fits(r, n) => x <= r
  BY <1>2 DEF T
<1> QED
  BY <1>3 DEF FirstFit

\* A new row takes entries that were free.
LEMMA PlaceMemory ==
  ASSUME MemoryInv, key \in Keys, value \in Values, SetPlaces
  PROVE  MemoryInv'
<1> DEFINE s == FirstFit(Needed)
           taken == s..(s + Needed - 1)
           row == [key |-> key, start |-> s, size |-> Size[value]]
           n == Len(table)
<1>1. /\ Size[value] # 0 /\ ~Has(key)
      /\ biMap' = Marked(biMap, taken, 1)
      /\ storage' = Written(value, s)
      /\ table' = Append(table, row)
      /\ lastSet' = [lastSet EXCEPT ![key] = value]
  BY DEF SetPlaces, LooksForPlace, Succeeds, Storable
<1>2. Needed \in Nat \ {0} /\ Size[value] \in Nat \ {0}
  BY <1>1, StorableType DEF Needed
<1>3. s \in Slots /\ Fits(s, Needed)
  BY FirstFitFits DEF SetPlaces
<1> HIDE DEF s
<1>4. s \in Nat /\ EntriesAmount \in Nat
  BY <1>3, SlotsFinite DEF Slots
<1>5. /\ taken \subseteq Slots
      /\ \A i \in taken : biMap[i] = 0
  BY <1>2, <1>3, <1>4 DEF Fits, Slots
<1>6. Extent(row) = taken
  BY DEF Extent, Needed
<1>7. row \in Rows
  BY <1>2, <1>3 DEF Rows
<1>8. /\ table' \in Seq(Rows) /\ Len(table') = n + 1 /\ n \in Nat
      /\ \A j \in 1..n : table'[j] = table[j]
      /\ table'[n + 1] = row
  BY <1>1, <1>7, AppendProperties, LenProperties DEF MemoryInv, MemoryTypes
<1>9. row.key = key /\ row.start = s /\ row.size = Size[value]
  OBVIOUS
<1> HIDE DEF row, n
<1>10. \A i \in Slots : biMap'[i] = IF i \in taken THEN 1 ELSE biMap[i]
  BY <1>1 DEF Marked
<1>11. \A i \in Slots : storage'[i] = IF i \in taken THEN <<value, i - s>> ELSE storage[i]
  BY <1>1 DEF Written, Needed
<1>12. MemoryTypes'
  <2>1. biMap' \in [Slots -> {0, 1}]
    <3>1. biMap \in [Slots -> {0, 1}]
      BY DEF MemoryInv, MemoryTypes
    <3> QED
      BY <1>1, <3>1 DEF Marked
  <2>2. storage' \in [Slots -> Pieces]
    <3>1. \A i \in Slots : storage'[i] \in Pieces
      <4> SUFFICES ASSUME NEW i \in Slots PROVE storage'[i] \in Pieces
        OBVIOUS
      <4>1. CASE i \in taken
        <5>1. i - s \in Slots
          BY <1>2, <1>4, <4>1, SlotsFinite DEF Slots
        <5>2. <<value, i - s>> \in Values \X Slots
          BY <5>1
        <5>3. storage'[i] = <<value, i - s>>
          BY <1>11, <4>1
        <5> QED
          BY <5>2, <5>3 DEF Pieces
      <4>2. CASE i \notin taken
        BY <1>11, <4>2 DEF MemoryInv, MemoryTypes
      <4> QED
        BY <4>1, <4>2
    <3>2. storage' = [i \in Slots |-> storage'[i]]
      BY <1>1 DEF Written
    <3> QED
      BY <3>1, <3>2
  <2>3. lastSet' \in [Keys -> Values \union {NoValue}]
    BY <1>1 DEF MemoryInv, MemoryTypes
  <2> QED
    BY <1>8, <2>1, <2>2, <2>3 DEF MemoryTypes
<1> HIDE DEF taken
<1>13. \A j \in 1..n : /\ Extent(table[j]) \intersect taken = {}
                       /\ Extent(table[j]) \subseteq Slots
                       /\ table[j].key # key
  <2> SUFFICES ASSUME NEW j \in 1..n
               PROVE  /\ Extent(table[j]) \intersect taken = {}
                      /\ Extent(table[j]) \subseteq Slots
                      /\ table[j].key # key
    OBVIOUS
  <2>1. Extent(table[j]) \subseteq Slots
    BY DEF MemoryInv, RowsApart, n
  <2>2. \A i \in Extent(table[j]) : biMap[i] = 1
    BY <2>1 DEF MemoryInv, MarksRight, n
  <2>3. \A i \in Extent(table[j]) : i \notin taken
    <3>1. 0 # 1
      OBVIOUS
    <3> QED
      BY <1>5, <2>2, <3>1
  <2> QED
    BY <1>1, <2>1, <2>3 DEF Has, n
<1>14. \A j \in 1..(n + 1) : j \in 1..n \/ j = n + 1
  BY <1>8
<1>15. n + 1 \in 1..(n + 1) /\ n + 1 \notin 1..n /\ \A j \in 1..n : j \in 1..(n + 1)
  BY <1>8
<1>16. RowsApart'
  <2>1. ASSUME NEW j \in 1..(n + 1) PROVE Extent(table'[j]) \subseteq Slots
    BY <1>5, <1>6, <1>8, <1>13, <1>14
  <2>2. ASSUME NEW i \in 1..(n + 1), NEW j \in 1..(n + 1), i # j
        PROVE  /\ table'[i].key # table'[j].key
               /\ Extent(table'[i]) \intersect Extent(table'[j]) = {}
    <3>1. CASE i = n + 1
      <4>1. j \in 1..n
        BY <1>14, <2>2, <3>1
      <4> QED
        BY <1>6, <1>8, <1>9, <1>13, <3>1, <4>1
    <3>2. CASE j = n + 1
      <4>1. i \in 1..n
        BY <1>14, <2>2, <3>2
      <4> QED
        BY <1>6, <1>8, <1>9, <1>13, <3>2, <4>1
    <3>3. CASE i \in 1..n /\ j \in 1..n
      BY <1>8, <2>2, <3>3 DEF MemoryInv, RowsApart, n
    <3> QED
      BY <1>14, <3>1, <3>2, <3>3
  <2> QED
    BY <1>8, <2>1, <2>2 DEF RowsApart
<1>17. MarksRight'
  <2> SUFFICES ASSUME NEW i \in Slots
               PROVE  biMap'[i] = 1 <=> \E j \in 1..(n + 1) : i \in Extent(table'[j])
    BY <1>8 DEF MarksRight
  <2>1. CASE i \in taken
    BY <1>6, <1>8, <1>10, <1>15, <2>1
  <2>2. CASE i \notin taken
    <3>1. biMap'[i] = biMap[i]
      BY <1>10, <2>2
    <3>2. biMap[i] = 1 <=> \E j \in 1..n : i \in Extent(table[j])
      BY DEF MemoryInv, MarksRight, n
    <3>3. (\E j \in 1..(n + 1) : i \in Extent(table'[j]))
             <=> \E j \in 1..n : i \in Extent(table[j])
      BY <1>6, <1>8, <1>14, <1>15, <2>2
    <3> QED
      BY <3>1, <3>2, <3>3
  <2> QED
    BY <2>1, <2>2
<1>18. RowsHold'
  <2> SUFFICES ASSUME NEW j \in 1..(n + 1)
               PROVE  /\ lastSet'[table'[j].key] \in Values
                      /\ Size[lastSet'[table'[j].key]] = table'[j].size
                      /\ table'[j].size > 0
                      /\ \A i \in Extent(table'[j]) :
                            storage'[i] = <<lastSet'[table'[j].key], i - table'[j].start>>
    BY <1>8 DEF RowsHold, Holds
  <2>1. CASE j = n + 1
    <3>1. lastSet'[key] = value
      BY <1>1 DEF MemoryInv, MemoryTypes
    <3>2. \A i \in taken : storage'[i] = <<value, i - s>>
      BY <1>5, <1>11
    <3> QED
      BY <1>2, <1>6, <1>8, <1>9, <2>1, <3>1, <3>2
  <2>2. CASE j \in 1..n
    <3>1. table'[j] = table[j] /\ table[j].key # key /\ table[j].key \in Keys
      BY <1>8, <1>13, <2>2, RowType DEF n
    <3>2. lastSet'[table[j].key] = lastSet[table[j].key]
      BY <1>1, <3>1 DEF MemoryInv, MemoryTypes
    <3>3. \A i \in Extent(table[j]) : storage'[i] = storage[i]
      BY <1>11, <1>13, <2>2
    <3> QED
      BY <2>2, <3>1, <3>2, <3>3 DEF MemoryInv, RowsHold, Holds, n
  <2> QED
    BY <1>14, <2>1, <2>2
<1> QED
  BY <1>12, <1>16, <1>17, <1>18 DEF MemoryInv

\* The victim leaves the table and its entries are freed.
LEMMA EvictMemory ==
  ASSUME MemoryInv, SetEvicts
  PROVE  /\ MemoryInv' /\ UsedSlots' \subseteq UsedSlots
         /\ \A k : Has(k)' => Has(k)
         /\ \A k \in Keys : Has(k)' => lastSet'[k] = lastSet[k]
<1> DEFINE n == Len(table)
<1>1. PICK J \in 1..n :
          /\ biMap' = Marked(biMap, Extent(table[J]), 0)
          /\ table' = RowsWithout(table[J].key)
          /\ lastSet' = [lastSet EXCEPT ![table[J].key] = NoValue]
  BY DEF SetEvicts
<1>2. storage' = storage
  BY DEF SetEvicts
<1>3. n \in Nat /\ table \in Seq(Rows)
  BY LenProperties DEF MemoryInv, MemoryTypes
<1>4. Index(table[J].key) = J
  <2>1. Has(table[J].key)
    BY DEF Has
  <2> QED
    BY <2>1, IndexType
<1> DEFINE from(j) == IF j < J THEN j ELSE j + 1
<1>5. /\ table' \in Seq(Rows) /\ Len(table') = n - 1
      /\ \A j \in 1..(n - 1) : table'[j] = table[from(j)]
  <2>1. table' = RemoveAt(table, J)
    BY <1>1, <1>4 DEF RowsWithout
  <2>2. /\ RemoveAt(table, J) \in Seq(Rows)
        /\ Len(RemoveAt(table, J)) = Len(table) - 1
        /\ \A j \in 1..(Len(table) - 1) :
              RemoveAt(table, J)[j] = IF j < J THEN table[j] ELSE table[j + 1]
    BY <1>3, RemoveAtProperties
  <2>3. ASSUME NEW j \in 1..(n - 1) PROVE table'[j] = table[from(j)]
    BY <2>1, <2>2
  <2> QED
    BY <2>1, <2>2, <2>3
<1>6. \A j \in 1..(n - 1) : from(j) \in 1..n /\ from(j) # J
  BY <1>3
<1>7. \A i, j \in 1..(n - 1) : i # j => from(i) # from(j)
  BY <1>3
<1>8. \A i \in 1..n : i # J => \E j \in 1..(n - 1) : from(j) = i
  <2> SUFFICES ASSUME NEW i \in 1..n, i # J PROVE \E j \in 1..(n - 1) : from(j) = i
    OBVIOUS
  <2>1. CASE i < J
    BY <1>3, <2>1
  <2>2. CASE i > J
    <3>1. i - 1 \in 1..(n - 1) /\ from(i - 1) = i
      BY <1>3, <2>2
    <3> QED
      BY <3>1
  <2> QED
    BY <1>3, <2>1, <2>2
<1> HIDE DEF n, from
<1>9. ASSUME NEW i \in 1..n, NEW j \in 1..n, i # j
      PROVE  /\ table[i].key # table[j].key
             /\ Extent(table[i]) \intersect Extent(table[j]) = {}
  BY <1>9 DEF MemoryInv, RowsApart, n
<1>10. \A i \in Slots : biMap'[i] = IF i \in Extent(table[J]) THEN 0 ELSE biMap[i]
  BY <1>1 DEF Marked
<1>11. \A j \in 1..n : /\ table[j].key \in Keys /\ Extent(table[j]) \subseteq Slots
                       /\ table[j] \in Rows
  BY RowType DEF n
<1>12. \A j \in 1..n : j # J => lastSet'[table[j].key] = lastSet[table[j].key]
  BY <1>1, <1>9, <1>11 DEF MemoryInv, MemoryTypes
<1>13. MemoryTypes'
  <2>1. biMap' \in [Slots -> {0, 1}]
    BY <1>1 DEF Marked, MemoryInv, MemoryTypes
  <2>2. lastSet' \in [Keys -> Values \union {NoValue}]
    BY <1>1 DEF MemoryInv, MemoryTypes
  <2> QED
    BY <1>2, <1>5, <2>1, <2>2 DEF MemoryInv, MemoryTypes
<1>14. RowsApart'
  <2>1. ASSUME NEW j \in 1..(n - 1) PROVE Extent(table'[j]) \subseteq Slots
    BY <1>5, <1>6, <1>11
  <2>2. ASSUME NEW i \in 1..(n - 1), NEW j \in 1..(n - 1), i # j
        PROVE  /\ table'[i].key # table'[j].key
               /\ Extent(table'[i]) \intersect Extent(table'[j]) = {}
    <3>1. from(i) \in 1..n /\ from(j) \in 1..n /\ from(i) # from(j)
      BY <1>6, <1>7, <2>2
    <3> QED
      BY <1>5, <1>9, <3>1
  <2> QED
    BY <1>5, <2>1, <2>2 DEF RowsApart
<1>15. ASSUME NEW i \in Slots
       PROVE  biMap'[i] = 1 <=> \E j \in 1..(n - 1) : i \in Extent(table'[j])
  <2>1. biMap[i] = 1 <=> \E j \in 1..n : i \in Extent(table[j])
    BY DEF MemoryInv, MarksRight, n
  <2>2. CASE i \in Extent(table[J])
    <3>1. \A j \in 1..(n - 1) : i \notin Extent(table'[j])
      BY <1>5, <1>6, <1>9, <2>2
    <3> QED
      BY <1>10, <2>2, <3>1
  <2>3. CASE i \notin Extent(table[J])
    <3>1. (\E j \in 1..(n - 1) : i \in Extent(table'[j]))
             <=> \E j \in 1..n : i \in Extent(table[j])
      <4>1. ASSUME NEW j \in 1..(n - 1), i \in Extent(table'[j])
            PROVE  \E l \in 1..n : i \in Extent(table[l])
        BY <1>5, <1>6, <4>1
      <4>2. ASSUME NEW l \in 1..n, i \in Extent(table[l])
            PROVE  \E j \in 1..(n - 1) : i \in Extent(table'[j])
        BY <1>5, <1>8, <2>3, <4>2
      <4> QED
        BY <4>1, <4>2
    <3> QED
      BY <1>10, <2>1, <2>3, <3>1
  <2> QED
    BY <2>2, <2>3
<1>16. MarksRight'
  BY <1>5, <1>15 DEF MarksRight
<1>17. RowsHold'
  <2> SUFFICES ASSUME NEW j \in 1..(n - 1)
               PROVE  /\ lastSet'[table'[j].key] \in Values
                      /\ Size[lastSet'[table'[j].key]] = table'[j].size
                      /\ table'[j].size > 0
                      /\ \A i \in Extent(table'[j]) :
                            storage'[i] = <<lastSet'[table'[j].key], i - table'[j].start>>
    BY <1>5 DEF RowsHold, Holds
  <2>1. from(j) \in 1..n /\ from(j) # J /\ table'[j] = table[from(j)]
    BY <1>5, <1>6
  <2>2. Holds(table[from(j)], lastSet[table[from(j)].key])
    BY <2>1 DEF MemoryInv, RowsHold, n
  <2> QED
    BY <1>2, <1>12, <2>1, <2>2 DEF Holds
<1>18. UsedSlots' \subseteq UsedSlots
  <2> SUFFICES ASSUME NEW i \in Slots, biMap'[i] = 1 PROVE biMap[i] = 1
    BY DEF UsedSlots
  <2>1. 0 # 1
    OBVIOUS
  <2> QED
    BY <1>10, <2>1
<1>19. ASSUME NEW k, Has(k)'
       PROVE  Has(k) /\ (k \in Keys => lastSet'[k] = lastSet[k])
  <2>1. PICK j \in 1..(n - 1) : table'[j].key = k
    BY <1>5, <1>19 DEF Has
  <2>2. from(j) \in 1..n /\ from(j) # J /\ table[from(j)].key = k
    BY <1>5, <1>6, <2>1
  <2> QED
    BY <1>12, <2>2 DEF Has, n
<1> QED
  BY <1>13, <1>14, <1>16, <1>17, <1>18, <1>19 DEF MemoryInv

-----------------------------------------------------------------------------
(* A compaction: the rows follow one another.                               *)

\* Sums of e(1), e(2), ...: at[j + 1] is at[j] and e[j].
Accumulates(at, e, n) ==
    /\ at \in [1..(n + 1) -> Nat]
    /\ at[1] = 0
    /\ \A j \in 1..n : at[j + 1] = at[j] + e[j]

LEMMA SumsExist ==
  ASSUME NEW n \in Nat, NEW e, \A j \in 1..n : e[j] \in Nat
  PROVE  \E at : Accumulates(at, e, n)
<1> DEFINE T == {m \in 0..n : ~\E at : Accumulates(at, e, m)}
<1> SUFFICES ASSUME T # {} PROVE FALSE
  OBVIOUS
<1>1. T \in SUBSET Nat
  OBVIOUS
<1> HIDE DEF T
<1>2. PICK m \in T : \A y \in T : m <= y
  BY <1>1, LeastNumber
<1>3. m \in 0..n /\ ~\E at : Accumulates(at, e, m)
  BY <1>2 DEF T
<1>4. CASE m = 0
  <2>1. Accumulates([j \in 1..1 |-> 0], e, 0)
    BY DEF Accumulates
  <2> QED
    BY <1>3, <1>4, <2>1
<1>5. CASE m # 0
  <2>1. m - 1 \in 0..n /\ m - 1 \notin T /\ m \in Nat
    BY <1>2, <1>3, <1>5
  <2>2. PICK at : Accumulates(at, e, m - 1)
    BY <2>1 DEF T
  <2> DEFINE more == [j \in 1..(m + 1) |-> IF j = m + 1 THEN at[m] + e[m] ELSE at[j]]
  <2>3. (m - 1) + 1 = m /\ m \in 1..m /\ m \in 1..n
    BY <1>3, <1>5, <2>1
  <2>4. /\ at \in [1..m -> Nat] /\ at[1] = 0
        /\ \A j \in 1..(m - 1) : at[j + 1] = at[j] + e[j]
    BY <2>2, <2>3 DEF Accumulates
  <2>5. e[m] \in Nat /\ at[m] \in Nat
    BY <2>3, <2>4
  <2>6. more \in [1..(m + 1) -> Nat]
    <3>1. \A j \in 1..(m + 1) : j = m + 1 \/ j \in 1..m
      BY <2>1
    <3> QED
      BY <2>4, <2>5, <3>1
  <2>7. more[1] = 0
    BY <1>5, <2>1, <2>4
  <2>8. ASSUME NEW j \in 1..m PROVE more[j + 1] = more[j] + e[j]
    <3>1. CASE j = m
      BY <2>1, <3>1
    <3>2. CASE j # m
      <4>1. j \in 1..(m - 1) /\ j + 1 \in 1..m /\ j + 1 # m + 1
        BY <2>1, <3>2
      <4> QED
        BY <2>1, <2>4, <4>1
    <3> QED
      BY <3>1, <3>2
  <2> HIDE DEF more
  <2>9. Accumulates(more, e, m)
    BY <2>6, <2>7, <2>8 DEF Accumulates
  <2> QED
    BY <1>3, <2>9
<1> QED
  BY <1>4, <1>5

\* Sums never decrease.
LEMMA SumsGrow ==
  ASSUME NEW n \in Nat, NEW e, \A j \in 1..n : e[j] \in Nat,
         NEW at, Accumulates(at, e, n),
         NEW i \in 1..(n + 1), NEW j \in 1..(n + 1), i <= j
  PROVE  at[i] <= at[j]
<1> DEFINE T == {m \in i..(n + 1) : ~(at[i] <= at[m])}
<1> SUFFICES ASSUME T # {} PROVE FALSE
  OBVIOUS
<1>1. T \in SUBSET Nat
  OBVIOUS
<1> HIDE DEF T
<1>2. PICK m \in T : \A y \in T : m <= y
  BY <1>1, LeastNumber
<1>3. m \in i..(n + 1) /\ ~(at[i] <= at[m])
  BY <1>2 DEF T
<1>4. \A l \in 1..(n + 1) : at[l] \in Nat
  BY DEF Accumulates
<1>5. m # i
  BY <1>3, <1>4
<1>6. m - 1 \in i..(n + 1) /\ m - 1 \in 1..n /\ m - 1 \notin T /\ (m - 1) + 1 = m
  BY <1>2, <1>3, <1>5
<1>7. at[i] <= at[m - 1]
  BY <1>6 DEF T
<1>8. at[m] = at[m - 1] + e[m - 1] /\ e[m - 1] \in Nat
  <2>1. \A l \in 1..n : at[l + 1] = at[l] + e[l]
    BY DEF Accumulates
  <2> HIDE DEF Accumulates
  <2>2. at[(m - 1) + 1] = at[m - 1] + e[m - 1]
    BY <1>6, <2>1
  <2> QED
    BY <1>6, <2>2
<1>9. at[i] \in Nat /\ at[m - 1] \in Nat /\ at[m] \in Nat
  BY <1>3, <1>4, <1>6
<1> QED
  BY <1>3, <1>7, <1>8, <1>9

\* Every number below the last sum lies between two of them.
LEMMA SumsCover ==
  ASSUME NEW n \in Nat, NEW e, NEW at, Accumulates(at, e, n),
         NEW i \in Nat, i < at[n + 1]
  PROVE  \E j \in 1..n : at[j] <= i /\ i < at[j + 1]
<1> DEFINE T == {m \in 1..(n + 1) : i < at[m]}
<1>1. T \in SUBSET Nat /\ n + 1 \in T
  <2>1. n + 1 \in 1..(n + 1)
    OBVIOUS
  <2> QED
    BY <2>1
<1> HIDE DEF T
<1>2. PICK m \in T : \A y \in T : m <= y
  BY <1>1, LeastNumber
<1>3. m \in 1..(n + 1) /\ i < at[m]
  BY <1>2 DEF T
<1>4. /\ at[1] = 0
      /\ \A l \in 1..(n + 1) : at[l] \in Nat
  BY DEF Accumulates
<1>5. m # 1
  BY <1>3, <1>4
<1>6. m - 1 \in 1..n /\ m - 1 \in 1..(n + 1) /\ m - 1 \notin T /\ (m - 1) + 1 = m
  BY <1>2, <1>3, <1>5
<1>7. ~(i < at[m - 1])
  BY <1>6 DEF T
<1>8. at[m - 1] <= i
  <2>1. at[m - 1] \in Nat
    BY <1>4, <1>6
  <2> QED
    BY <1>7, <2>1
<1> QED
  BY <1>3, <1>6, <1>8

\* Sets that do not meet: their elements add up.
LEMMA CardinalityAddsUp ==
  ASSUME NEW n \in Nat, NEW X, NEW e, NEW at, Accumulates(at, e, n),
         \A j \in 1..n : IsFiniteSet(X[j]) /\ Cardinality(X[j]) = e[j],
         \A i, j \in 1..n : i # j => X[i] \intersect X[j] = {}
  PROVE  /\ IsFiniteSet(UNION {X[j] : j \in 1..n})
         /\ Cardinality(UNION {X[j] : j \in 1..n}) = at[n + 1]
<1> DEFINE U(m) == UNION {X[j] : j \in 1..m}
           Right(m) == IsFiniteSet(U(m)) /\ Cardinality(U(m)) = at[m + 1]
           T == {m \in 0..n : ~Right(m)}
<1> HIDE DEF Right
<1>1. T = {} => Right(n)
  <2>1. n \in 0..n
    OBVIOUS
  <2> QED
    BY <2>1
<1> USE DEF Right
<1> SUFFICES ASSUME T # {} PROVE FALSE
  BY <1>1 DEF Right
<1>2. T \in SUBSET Nat
  OBVIOUS
<1> HIDE DEF T
<1>3. PICK m \in T : \A y \in T : m <= y
  BY <1>2, LeastNumber
<1>4. m \in 0..n /\ ~Right(m)
  BY <1>3 DEF T
<1>5. CASE m = 0
  <2>1. U(0) = {}
    OBVIOUS
  <2> HIDE DEF U
  <2>2. IsFiniteSet(U(0)) /\ Cardinality(U(0)) = 0
    BY <2>1, FS_EmptySet
  <2>3. at[0 + 1] = 0
    BY DEF Accumulates
  <2>4. Right(0)
    BY <2>2, <2>3
  <2> QED
    BY <1>4, <1>5, <2>4
<1>6. CASE m # 0
  <2>1. m - 1 \in 0..n /\ m - 1 \notin T /\ (m - 1) + 1 = m /\ m \in 1..n
    BY <1>3, <1>4, <1>6
  <2>2. Right(m - 1)
    BY <2>1 DEF T
  <2>3. U(m) = U(m - 1) \union X[m]
    <3>1. 1..m = 1..(m - 1) \union {m}
      BY <2>1
    <3> QED
      BY <3>1
  <2>4. U(m - 1) \intersect X[m] = {}
    <3>1. \A j \in 1..(m - 1) : j \in 1..n /\ j # m
      BY <2>1
    <3> QED
      BY <2>1, <3>1
  <2> HIDE DEF U
  <2>5. IsFiniteSet(U(m - 1)) /\ Cardinality(U(m - 1)) = at[m]
    BY <2>1, <2>2
  <2>6. IsFiniteSet(X[m]) /\ Cardinality(X[m]) = e[m]
    BY <2>1
  <2>7. /\ IsFiniteSet(U(m))
        /\ Cardinality(U(m)) = Cardinality(U(m - 1)) + Cardinality(X[m])
                               - Cardinality(U(m - 1) \intersect X[m])
    BY <2>3, <2>5, <2>6, FS_Union
  <2>8. Cardinality(U(m - 1) \intersect X[m]) = 0
    BY <2>4, FS_EmptySet
  <2>9. at[m + 1] = at[m] + e[m] /\ at[m + 1] \in Nat /\ at[m] \in Nat
    BY <2>1 DEF Accumulates
  <2> QED
    BY <1>4, <2>5, <2>6, <2>7, <2>8, <2>9, FS_CardinalityType
<1> QED
  BY <1>5, <1>6

\* The entries that each row takes
Lengths == [j \in 1..Len(table) |-> Entries(table[j].size)]

\* The starts that compact computes add up the rows before, and in the end
\* the entries in use.
LEMMA NewStartAddsUp ==
  ASSUME MemoryInv
  PROVE  /\ Accumulates(NewStart, Lengths, Len(table))
         /\ \A j \in 1..Len(table) : Lengths[j] \in Nat \ {0}
         /\ NewStart[Len(table) + 1] = Used
<1> DEFINE n == Len(table)
<1>1. n \in Nat
  BY LenProperties DEF MemoryInv, MemoryTypes
<1>2. \A j \in 1..n : Lengths[j] = Entries(table[j].size) /\ Lengths[j] \in Nat \ {0}
  BY RowType DEF Lengths
<1>3. Accumulates(NewStart, Lengths, n)
  <2>1. PICK at : Accumulates(at, Lengths, n)
    BY <1>1, <1>2, SumsExist
  <2> DEFINE S == 1..(n + 1)
             step(f) == [j \in S |-> IF j = 1 THEN 0
                                     ELSE f[j - 1] + Entries(table[j - 1].size)]
             new == CHOOSE f : f = step(f)
  <2>2. at = step(at)
    <3>1. at \in [S -> Nat] /\ at[1] = 0
      BY <2>1 DEF Accumulates
    <3>2. ASSUME NEW j \in S, j # 1
          PROVE  at[j] = at[j - 1] + Entries(table[j - 1].size)
      <4>1. j - 1 \in 1..n /\ (j - 1) + 1 = j
        BY <1>1, <3>2
      <4>2. at[(j - 1) + 1] = at[j - 1] + Lengths[j - 1]
        BY <2>1, <4>1 DEF Accumulates
      <4> QED
        BY <1>2, <4>1, <4>2
    <3> QED
      BY <3>1, <3>2
  <2>3. NewStart = new
    BY DEF NewStart
  <2> HIDE DEF step, n
  <2>4. new = step(new)
    BY <2>2
  <2> HIDE DEF new
  <2>5. /\ new[1] = 0
        /\ \A j \in S : j # 1 => new[j] = new[j - 1] + Entries(table[j - 1].size)
    <3>1. new = [j \in S |-> IF j = 1 THEN 0
                             ELSE new[j - 1] + Entries(table[j - 1].size)]
      BY <2>4 DEF step
    <3>2. 1 \in S
      BY <1>1
    <3> HIDE DEF S
    <3> QED
      BY <3>1, <3>2
  <2>6. ASSUME NEW j \in 1..n PROVE new[j + 1] = new[j] + Lengths[j]
    <3>1. j + 1 \in S /\ j + 1 # 1 /\ (j + 1) - 1 = j
      BY <1>1
    <3> QED
      BY <1>2, <2>5, <3>1 DEF n
  <2>7. \A j \in S : new[j] = at[j]
    <3> DEFINE T == {j \in S : new[j] # at[j]}
    <3> SUFFICES ASSUME T # {} PROVE FALSE
      OBVIOUS
    <3>1. T \in SUBSET Nat
      OBVIOUS
    <3> HIDE DEF T
    <3>2. PICK m \in T : \A y \in T : m <= y
      BY <3>1, LeastNumber
    <3>3. m \in S /\ new[m] # at[m]
      BY <3>2 DEF T
    <3>4. m # 1
      BY <2>1, <2>5, <3>3 DEF Accumulates
    <3>5. m - 1 \in S /\ m - 1 \in 1..n /\ m - 1 \notin T /\ (m - 1) + 1 = m
      BY <1>1, <3>2, <3>3, <3>4
    <3>6. new[m - 1] = at[m - 1]
      BY <3>5 DEF T
    <3>7. at[m] = at[m - 1] + Lengths[m - 1] /\ new[m] = new[m - 1] + Lengths[m - 1]
      <4>1. \A l \in 1..n : at[l + 1] = at[l] + Lengths[l]
        BY <2>1 DEF Accumulates
      <4>2. /\ at[(m - 1) + 1] = at[m - 1] + Lengths[m - 1]
            /\ new[(m - 1) + 1] = new[m - 1] + Lengths[m - 1]
        BY <2>6, <3>5, <4>1
      <4> QED
        BY <3>5, <4>2
    <3> QED
      BY <3>3, <3>6, <3>7
  <2>8. at \in [S -> Nat]
    BY <2>1 DEF Accumulates
  <2>9. new = at
    <3>1. new = [j \in S |-> new[j]]
      BY <2>4 DEF step
    <3> HIDE DEF S
    <3> QED
      BY <2>7, <2>8, <3>1
  <2> QED
    BY <2>1, <2>3, <2>9 DEF n
<1>4. NewStart[n + 1] = Used
  <2> DEFINE X == [j \in 1..n |-> Extent(table[j])]
  <2>1. ASSUME NEW j \in 1..n
        PROVE  IsFiniteSet(X[j]) /\ Cardinality(X[j]) = Lengths[j]
    <3> DEFINE a == table[j].start
               b == Entries(table[j].size)
    <3>1. a \in Nat /\ b \in Nat \ {0}
      BY RowType
    <3>2. X[j] = a..(a + b - 1) /\ Lengths[j] = b
      BY <1>2 DEF Extent
    <3> HIDE DEF a, b, X
    <3>3. a \in Int /\ a + b - 1 \in Int /\ ~(a > a + b - 1)
          /\ (a + b - 1) - a + 1 = b
      BY <3>1
    <3>4. /\ IsFiniteSet(a..(a + b - 1))
          /\ Cardinality(a..(a + b - 1)) =
                IF a > a + b - 1 THEN 0 ELSE (a + b - 1) - a + 1
      BY <3>3, FS_Interval
    <3> QED
      BY <3>2, <3>3, <3>4
  <2>2. \A i, j \in 1..n : i # j => X[i] \intersect X[j] = {}
    BY DEF MemoryInv, RowsApart
  <2>3. UNION {X[j] : j \in 1..n} = UsedSlots
    BY BitmapRight DEF BitmapIsTable
  <2> HIDE DEF X, n
  <2>4. Cardinality(UNION {X[j] : j \in 1..n}) = NewStart[n + 1]
    BY <1>1, <1>3, <2>1, <2>2, CardinalityAddsUp
  <2> QED
    BY <2>3, <2>4 DEF Used
<1> QED
  BY <1>2, <1>3, <1>4

\* The marked entries are the first ones.
IsPacked == \A i \in Slots : biMap[i] = 1 <=> i < Used

\* compact moves every row with its value; what is in use is what was, and
\* comes first.
LEMMA CompactMemory ==
  ASSUME MemoryInv, Compacted, lastSet' = lastSet
  PROVE  /\ MemoryInv' /\ Used' = Used /\ IsPacked'
         /\ \A k : Has(k)' <=> Has(k)
<1> DEFINE n == Len(table)
           from(j) == NewStart[j]
           to(j) == NewStart[j + 1]
<1>1. n \in Nat /\ table \in Seq(Rows)
  BY LenProperties DEF MemoryInv, MemoryTypes
<1>2. /\ Accumulates(NewStart, Lengths, n)
      /\ \A j \in 1..n : Lengths[j] \in Nat \ {0}
      /\ NewStart[n + 1] = Used
  BY NewStartAddsUp
<1>3. ASSUME NEW j \in 1..n
      PROVE  /\ from(j) \in Nat /\ to(j) \in Nat
             /\ to(j) = from(j) + Lengths[j] /\ Lengths[j] \in Nat \ {0}
             /\ Lengths[j] = Entries(table[j].size)
             /\ to(j) <= Used
  <2>1. j \in 1..(n + 1) /\ j + 1 \in 1..(n + 1) /\ n + 1 \in 1..(n + 1) /\ j + 1 <= n + 1
    BY <1>1
  <2>2. from(j) \in Nat /\ to(j) \in Nat /\ to(j) = from(j) + Lengths[j]
    BY <1>2, <2>1 DEF Accumulates
  <2>3. to(j) <= Used
    BY <1>1, <1>2, <2>1, SumsGrow
  <2> QED
    BY <1>2, <2>2, <2>3 DEF Lengths
<1>4. ASSUME NEW i \in 1..n, NEW j \in 1..n, i < j
      PROVE  to(i) <= from(j)
  <2>1. i + 1 \in 1..(n + 1) /\ j \in 1..(n + 1) /\ i + 1 <= j
    BY <1>1, <1>4
  <2> QED
    BY <1>1, <1>2, <2>1, SumsGrow
<1>5. ASSUME NEW i \in Nat, i < Used
      PROVE  \E j \in 1..n : from(j) <= i /\ i < to(j)
  BY <1>1, <1>2, <1>5, SumsCover
<1>6. Used \in Nat /\ Used <= EntriesAmount /\ EntriesAmount \in Nat
  BY UsedType, SlotsFinite
<1>7. /\ Len(table') = n
      /\ \A j \in 1..n : table'[j] = [table[j] EXCEPT !.start = from(j)]
  BY <1>1 DEF Compacted
<1> HIDE DEF n, from, to
<1>8. ASSUME NEW j \in 1..n
      PROVE  /\ table[j] \in Rows /\ table[j].key \in Keys
             /\ table[j].start \in Nat /\ Extent(table[j]) \subseteq Slots
  BY RowType DEF n
<1>9. ASSUME NEW j \in 1..n
      PROVE  /\ table'[j].key = table[j].key /\ table'[j].size = table[j].size
             /\ table'[j].start = from(j) /\ table'[j] \in Rows
             /\ Extent(table'[j]) = from(j)..(to(j) - 1)
             /\ Extent(table'[j]) \subseteq Slots
  <2>1. /\ table'[j].key = table[j].key /\ table'[j].size = table[j].size
        /\ table'[j].start = from(j)
    BY <1>7, <1>8 DEF Rows
  <2>2. from(j) \in Slots
    BY <1>3, <1>6 DEF Slots
  <2>3. table'[j] \in Rows
    BY <1>7, <1>8, <2>2 DEF Rows
  <2>4. Extent(table'[j]) = from(j)..(to(j) - 1)
    BY <1>3, <2>1 DEF Extent
  <2>5. from(j)..(to(j) - 1) \subseteq Slots
    BY <1>3, <1>6 DEF Slots
  <2> QED
    BY <2>1, <2>3, <2>4, <2>5
<1>10. ASSUME NEW i \in 1..n, NEW j \in 1..n, i # j,
              NEW x \in from(i)..(to(i) - 1)
       PROVE  x \notin from(j)..(to(j) - 1)
  <2>0. x \in Int /\ from(i) <= x /\ x < to(i)
    BY <1>3
  <2>1. CASE i < j
    <3>1. x < from(j)
      BY <1>3, <1>4, <2>0, <2>1
    <3> QED
      BY <1>3, <3>1
  <2>2. CASE j < i
    <3>1. ~(x < to(j))
      BY <1>3, <1>4, <2>0, <2>2
    <3> QED
      BY <1>3, <2>0, <3>1
  <2>3. i \in Int /\ j \in Int
    BY <1>1
  <2> QED
    BY <1>10, <2>1, <2>2, <2>3
<1>11. \A i \in Slots : (biMap'[i] = 1 <=> i < Used) /\ biMap'[i] \in {0, 1}
  BY DEF Compacted, MovedMarks
<1>12. ASSUME NEW j \in 1..n, NEW i \in from(j)..(to(j) - 1)
       PROVE  /\ i \in Slots
              /\ table[j].start + i - from(j) \in Extent(table[j])
              /\ storage'[i] = storage[table[j].start + i - from(j)]
  <2>1. i \in Slots
    BY <1>9
  <2>2. PlacedAt(i) = {j}
    <3>1. PlacedAt(i) = {r \in 1..n : i \in from(r)..(to(r) - 1)}
      BY DEF PlacedAt, n, from, to
    <3> QED
      BY <1>10, <3>1
  <2>3. (CHOOSE r \in PlacedAt(i) : TRUE) = j
    BY <2>2
  <2>4. storage'[i] = storage[table[j].start + i - from(j)]
    BY <2>1, <2>2, <2>3 DEF Compacted, MovedPieces, from
  <2>5. table[j].start + i - from(j) \in Extent(table[j])
    BY <1>3, <1>8 DEF Extent
  <2> QED
    BY <2>1, <2>4, <2>5
<1>13. MemoryTypes'
  <2>1. table' \in Seq(Rows)
    <3>1. table' = [j \in 1..n |-> table'[j]]
      BY DEF Compacted, n
    <3>2. \A j \in 1..n : table'[j] \in Rows
      BY <1>9
    <3> QED
      BY <1>1, <3>1, <3>2
  <2>2. biMap' \in [Slots -> {0, 1}]
    BY DEF Compacted, MovedMarks
  <2>3. storage' \in [Slots -> Pieces]
    <3>1. ASSUME NEW i \in Slots PROVE storage'[i] \in Pieces
      <4>1. \A r \in Slots : storage[r] \in Pieces
        BY DEF MemoryInv, MemoryTypes
      <4>2. CASE PlacedAt(i) = {}
        BY <4>1, <4>2 DEF Compacted, MovedPieces
      <4>3. CASE PlacedAt(i) # {}
        <5>1. PICK j \in 1..n : i \in from(j)..(to(j) - 1)
          BY <4>3 DEF PlacedAt, n, from, to
        <5> QED
          BY <1>8, <1>12, <4>1, <5>1
      <4> QED
        BY <4>2, <4>3
    <3>2. storage' = [i \in Slots |-> storage'[i]]
      BY DEF Compacted, MovedPieces
    <3> QED
      BY <3>1, <3>2
  <2>4. lastSet' \in [Keys -> Values \union {NoValue}]
    BY DEF MemoryInv, MemoryTypes
  <2> QED
    BY <2>1, <2>2, <2>3, <2>4 DEF MemoryTypes
<1>14. RowsApart'
  <2>1. \A j \in 1..n : Extent(table'[j]) \subseteq Slots
    BY <1>9
  <2>2. ASSUME NEW i \in 1..n, NEW j \in 1..n, i # j
        PROVE  /\ table'[i].key # table'[j].key
               /\ Extent(table'[i]) \intersect Extent(table'[j]) = {}
    <3>1. table[i].key # table[j].key
      BY <2>2 DEF MemoryInv, RowsApart, n
    <3> QED
      BY <1>9, <1>10, <2>2, <3>1
  <2> QED
    BY <1>7, <2>1, <2>2 DEF RowsApart
<1>15. MarksRight'
  <2> SUFFICES ASSUME NEW i \in Slots
               PROVE  biMap'[i] = 1 <=> \E j \in 1..n : i \in Extent(table'[j])
    BY <1>7 DEF MarksRight
  <2>1. i \in Nat
    BY <1>6 DEF Slots
  <2>2. i < Used <=> \E j \in 1..n : i \in from(j)..(to(j) - 1)
    <3>1. ASSUME i < Used PROVE \E j \in 1..n : i \in from(j)..(to(j) - 1)
      <4>1. PICK j \in 1..n : from(j) <= i /\ i < to(j)
        BY <1>5, <2>1, <3>1
      <4> QED
        BY <1>3, <2>1, <4>1
    <3>2. ASSUME NEW j \in 1..n, i \in from(j)..(to(j) - 1) PROVE i < Used
      BY <1>3, <1>6, <3>2
    <3> QED
      BY <3>1, <3>2
  <2> QED
    BY <1>9, <1>11, <2>2
<1>16. RowsHold'
  <2> SUFFICES ASSUME NEW j \in 1..n
               PROVE  /\ lastSet[table'[j].key] \in Values
                      /\ Size[lastSet[table'[j].key]] = table'[j].size
                      /\ table'[j].size > 0
                      /\ \A i \in Extent(table'[j]) :
                            storage'[i] = <<lastSet[table'[j].key], i - table'[j].start>>
    BY <1>7 DEF RowsHold, Holds
  <2>1. Holds(table[j], lastSet[table[j].key])
    BY DEF MemoryInv, RowsHold, n
  <2>2. ASSUME NEW i \in from(j)..(to(j) - 1)
        PROVE  storage'[i] = <<lastSet[table[j].key], i - from(j)>>
    <3>1. storage'[i] = <<lastSet[table[j].key],
                          (table[j].start + i - from(j)) - table[j].start>>
      BY <1>12, <2>1 DEF Holds
    <3>2. (table[j].start + i - from(j)) - table[j].start = i - from(j)
      BY <1>3, <1>8
    <3> QED
      BY <3>1, <3>2
  <2> QED
    BY <1>9, <2>1, <2>2 DEF Holds
<1>17. UsedSlots' = 0..(Used - 1)
  <2>1. UsedSlots' = {i \in Slots : biMap'[i] = 1}
    BY DEF UsedSlots
  <2>2. \A i \in Slots : biMap'[i] = 1 <=> i \in 0..(Used - 1)
    BY <1>6, <1>11 DEF Slots
  <2>3. 0..(Used - 1) \subseteq Slots
    BY <1>6 DEF Slots
  <2> QED
    BY <2>1, <2>2, <2>3
<1>18. Used' = Used
  <2>1. 0 \in Int /\ Used - 1 \in Int
    BY <1>6
  <2>2. Cardinality(0..(Used - 1)) = IF 0 > Used - 1 THEN 0 ELSE (Used - 1) - 0 + 1
    BY <2>1, FS_Interval
  <2>3. Cardinality(0..(Used - 1)) = Used
    BY <1>6, <2>2
  <2>4. Used' = Cardinality(UsedSlots')
    BY DEF Used
  <2> QED
    BY <1>17, <2>3, <2>4
<1>19. IsPacked'
  BY <1>11, <1>18 DEF IsPacked
<1>20. \A k : Has(k)' <=> Has(k)
  BY <1>7, <1>9 DEF Has, n
<1> QED
  BY <1>13, <1>14, <1>15, <1>16, <1>18, <1>19, <1>20 DEF MemoryInv

\* What fits in the entries that are free fits after those that are marked.
LEMMA PackedFits ==
  ASSUME MemoryInv, IsPacked, NEW n \in Nat \ {0}, n <= EntriesAmount - Used
  PROVE  \E s \in Slots : Fits(s, n)
<1>1. Used \in Nat /\ EntriesAmount \in Nat
  BY UsedType, SlotsFinite
<1>2. Used \in Slots
  BY <1>1 DEF Slots
<1>3. \A i \in Used..(Used + n - 1) : i \in Slots /\ ~(i < Used)
  BY <1>1 DEF Slots
<1>4. \A i \in Used..(Used + n - 1) : biMap[i] = 0
  BY <1>3 DEF IsPacked, MemoryInv, MemoryTypes
<1> QED
  BY <1>1, <1>2, <1>4 DEF Fits

\* A set adds no other key than its own.
LEMMA HasAfterSet ==
  ASSUME MemoryInv, key \in Keys, value \in Values, SetUpdates \/ SetPlaces,
         NEW k, Has(k)'
  PROVE  Has(k) \/ k = key
<1>1. CASE SetUpdates
  <2>1. /\ Index(key) \in 1..Len(table)
        /\ table' = [table EXCEPT ![Index(key)].size = Size[value]]
    BY <1>1, IndexType DEF SetUpdates
  <2>2. PICK j \in 1..Len(table') : table'[j].key = k
    BY DEF Has
  <2>3. table \in Seq(Rows) /\ \A i \in 1..Len(table) : table[i] \in Rows
    BY ElementOfSeq DEF MemoryInv, MemoryTypes
  <2>4. Len(table') = Len(table)
    BY <2>1, <2>3
  <2>5. table'[j].key = table[j].key
    BY <2>1, <2>2, <2>3, <2>4 DEF Rows
  <2> QED
    BY <2>2, <2>4, <2>5 DEF Has
<1>2. CASE SetPlaces
  <2> DEFINE row == [key |-> key, start |-> FirstFit(Needed), size |-> Size[value]]
  <2>1. table' = Append(table, row)
    BY <1>2 DEF SetPlaces
  <2>2. row.key = key
    OBVIOUS
  <2> HIDE DEF row
  <2>3. Len(table) \in Nat /\ table \in Seq(Rows)
    BY LenProperties DEF MemoryInv, MemoryTypes
  <2>4. PICK j \in 1..Len(table') : table'[j].key = k
    BY DEF Has
  <2>5. Len(table') = Len(table) + 1
    BY <2>1, <2>3
  <2>6. CASE j = Len(table) + 1
    <3>1. table'[j] = row
      BY <2>1, <2>3, <2>6
    <3> QED
      BY <2>2, <2>4, <3>1
  <2>7. CASE j # Len(table) + 1
    <3>1. j \in 1..Len(table) /\ table'[j] = table[j]
      BY <2>1, <2>3, <2>4, <2>5, <2>7
    <3> QED
      BY <2>4, <3>1 DEF Has
  <2> QED
    BY <2>6, <2>7
<1> QED
  BY <1>1, <1>2

\* Nothing moves; and an empty memory, at the start and after a fall.
LEMMA SameMemory ==
  ASSUME MemoryInv, UNCHANGED <<table, biMap, storage, lastSet>>
  PROVE  /\ MemoryInv' /\ Used' = Used
         /\ \A k : Has(k)' <=> Has(k)
<1>1. MemoryInv'
  BY DEF MemoryInv, MemoryTypes, RowsApart, MarksRight, RowsHold, Holds, Extent
<1>2. Used' = Used
  BY DEF Used, UsedSlots
<1> QED
  BY <1>1, <1>2 DEF Has

IsEmpty ==
    /\ table = <<>> /\ biMap = [i \in Slots |-> 0] /\ storage = [i \in Slots |-> Blank]
    /\ lastSet = [k \in Keys |-> NoValue]
HasNoKey == \A k : ~Has(k)

LEMMA EmptyMemory == IsEmpty => MemoryInv /\ HasNoKey
<1> SUFFICES ASSUME IsEmpty PROVE MemoryInv /\ HasNoKey
  OBVIOUS
<1> USE DEF IsEmpty
<1>1. \A j : j \notin 1..Len(table)
  OBVIOUS
<1>2. MemoryTypes
  BY DEF MemoryTypes, Pieces
<1>3. \A i \in Slots : biMap[i] # 1
  OBVIOUS
<1>4. RowsApart /\ MarksRight /\ RowsHold
  BY <1>1, <1>3 DEF RowsApart, MarksRight, RowsHold
<1> QED
  BY <1>1, <1>2, <1>4 DEF MemoryInv, Has, HasNoKey

-----------------------------------------------------------------------------
(* The inductive invariant.                                                 *)

\* The rest of TypeOK
ProcessTypes ==
    /\ algorithm \in Algorithms
    /\ recency \in Seq(Keys)
    /\ files \in [Keys -> Values \union {NoFile, EmptyFile}]
    /\ alive \in BOOLEAN /\ job \in Jobs
    /\ key \in Keys \union {NoKey} /\ value \in Values \union {NoValue}
    /\ retried \in BOOLEAN /\ opened \in BOOLEAN
    /\ todo \in Seq(Keys)
    /\ storedKeys \in Seq(Keys)
    /\ spaceUsed \in 0..EntriesAmount
    /\ connection \in Connections
    /\ answer \in Answers
    /\ lastStored \in [Keys -> Values \union {NoValue}]

\* What each job works on: only a start or a dump has keys to go through, and
\* those of a dump are in the table.
JobInv ==
    /\ job \in {"set", "compact"} => key \in Keys /\ value \in Values
    /\ job = "store" => key \in Keys /\ Has(key)
    /\ job \in {"idle", "store", "compact"} => todo = <<>>
    /\ job = "dump" => /\ todo # <<>>
                       /\ \A i \in 1..Len(todo) : Has(todo[i])
    /\ job = "set" /\ Starting => key = Head(todo) /\ files[key] = value

\* A process that has fallen does nothing, and its connection is not served.
AliveInv ==
    /\ connection \in {"fallen", "lost"} => ~alive
    /\ ~alive => job = "idle"

\* A SET that is tried again finds the entries packed and enough of them free.
RetryInv ==
    /\ retried => /\ job = "set" /\ ~Starting
                  /\ IsPacked /\ Needed <= EntriesAmount - Used
    /\ job = "compact" => Needed <= EntriesAmount - Used
    /\ RetryFits

\* Between two reports of the space used, it does not grow.
SpaceInv ==
    /\ alive /\ job \in {"idle", "store", "dump"} => Used <= spaceUsed
    /\ alive /\ job \in {"set", "compact"} /\ ~Starting => Used <= spaceUsed

\* A key that was stored, and not set since, is in the memory as in its file.
StoreInv ==
    /\ StoreIsKept
    /\ \A k \in Keys : lastStored[k] # NoValue /\ Has(k) => lastSet[k] = lastStored[k]

StorageInv ==
    /\ MemoryInv /\ ProcessTypes
    /\ JobInv /\ AliveInv /\ RetryInv /\ SpaceInv /\ StoreInv

LEMMA StorageInit == Init => StorageInv
<1> SUFFICES ASSUME Init PROVE StorageInv
  OBVIOUS
<1>1. MemoryInv /\ HasNoKey
  BY EmptyMemory DEF Init, Initialized, IsEmpty
<1>2. ProcessTypes
  <2>1. <<>> \in Seq(Keys) /\ 0 \in 0..EntriesAmount
    BY SlotsFinite
  <2>2. files \in [Keys -> Values \union {NoFile, EmptyFile}]
    BY DEF Init
  <2>3. lastStored \in [Keys -> Values \union {NoValue}]
    BY DEF Init
  <2> QED
    BY <2>1, <2>2, <2>3 DEF Init, Initialized, ProcessTypes, Jobs, Connections, Answers
<1>3. JobInv
  BY DEF Init, JobInv, Starting
<1>4. AliveInv /\ RetryInv /\ SpaceInv
  BY DEF Init, AliveInv, RetryInv, SpaceInv, RetryFits
<1>5. StoreInv
  BY DEF Init, StoreInv, StoreIsKept
<1> QED
  BY <1>1, <1>2, <1>3, <1>4, <1>5 DEF StorageInv

-----------------------------------------------------------------------------
(* The steps.                                                               *)

\* The steps that leave the memory and the values set as they are
QuietStep ==
    \/ SetRefused \/ SetFindsNoVictim \/ SetNeedsCompact
    \/ FileStep \/ BringsBack \/ FindsNoFile \/ Recovered
    \/ DumpStarts \/ NoticesFall \/ ComesBack
    \/ \E k \in Keys, v \in Values : RequestSet(k, v)
    \/ \E k \in Keys : RequestStore(k) \/ AskedWhileFallen(k) \/ SetIsLost(k)
FallStep == Falling \/ MapsEmptyFile
CompactStep == CompactsAndRetries \/ DoCompact

LEMMA StepKinds ==
  ASSUME [Next]_vars
  PROVE  \/ QuietStep \/ FallStep \/ CompactStep
         \/ SetUpdates \/ SetPlaces \/ SetEvicts \/ UNCHANGED vars
BY DEF Next, SetStep, RecoveryStep, Requests, QuietStep, FallStep, CompactStep

LEMMA QuietMemory ==
  ASSUME QuietStep
  PROVE  UNCHANGED <<table, biMap, storage, lastSet>>
BY DEF QuietStep, SetRefused, SetFindsNoVictim, SetNeedsCompact, FileStep,
       StoreOpens, StoreWrites, StoreFails, DumpOpens, DumpWrites, DumpSkips,
       OpensFile, BringsBack, FindsNoFile, Recovered, DumpStarts, NoticesFall,
       ComesBack, RequestSet, RequestStore, AskedWhileFallen, SetIsLost,
       memory, history

LEMMA MemoryNext ==
  ASSUME StorageInv, [Next]_vars
  PROVE  MemoryInv'
<1>0. MemoryInv
  BY DEF StorageInv
<1>1. CASE QuietStep
  BY <1>0, <1>1, QuietMemory, SameMemory
<1>2. CASE FallStep
  <2>1. IsEmpty'
    BY <1>2 DEF FallStep, Falling, MapsEmptyFile, Fall, Initialized, IsEmpty
  <2> QED
    BY <2>1, EmptyMemory, PTL
<1>3. CASE CompactStep
  BY <1>0, <1>3, CompactMemory DEF CompactStep, CompactsAndRetries, DoCompact, history
<1>4. CASE SetUpdates
  <2>1. key \in Keys /\ value \in Values
    BY <1>4 DEF SetUpdates, StorageInv, JobInv
  <2> QED
    BY <1>0, <1>4, <2>1, UpdateMemory
<1>5. CASE SetPlaces
  <2>1. key \in Keys /\ value \in Values
    BY <1>5 DEF SetPlaces, LooksForPlace, StorageInv, JobInv
  <2> QED
    BY <1>0, <1>5, <2>1, PlaceMemory
<1>6. CASE SetEvicts
  BY <1>0, <1>6, EvictMemory
<1>7. CASE UNCHANGED vars
  BY <1>0, <1>7, SameMemory DEF vars, memory, history
<1> QED
  BY <1>1, <1>2, <1>3, <1>4, <1>5, <1>6, <1>7, StepKinds

LEMMA MarkedCount ==
  ASSUME NEW map
  PROVE  Cardinality({i \in Slots : map[i] = 1}) \in 0..EntriesAmount
<1> DEFINE T == {i \in Slots : map[i] = 1}
<1>1. T \in SUBSET Slots
  OBVIOUS
<1> HIDE DEF T
<1>2. IsFiniteSet(T) /\ Cardinality(T) \in Nat /\ Cardinality(T) <= Cardinality(Slots)
  BY <1>1, SlotsFinite, FS_Subset, FS_CardinalityType
<1> QED
  BY <1>2, SlotsFinite DEF T

LEMMA ReferencedType ==
  ASSUME recency \in Seq(Keys), NEW k \in Keys
  PROVE  Referenced(k) \in Seq(Keys)
<1>1. RemoveFirst(recency, k) \in Seq(Keys)
  BY RemoveFirstType
<1>2. Append(RemoveFirst(recency, k), k) \in Seq(Keys)
  BY <1>1, AppendProperties
<1> QED
  BY <1>2 DEF Referenced

LEMMA EndTypes ==
  ASSUME ProcessTypes, NEW response \in Answers, Ends(response)
  PROVE  /\ alive' \in BOOLEAN /\ job' \in Jobs
         /\ key' \in Keys \union {NoKey} /\ value' \in Values \union {NoValue}
         /\ retried' \in BOOLEAN /\ opened' \in BOOLEAN
         /\ todo' \in Seq(Keys) /\ storedKeys' \in Seq(Keys)
         /\ connection' \in Connections /\ answer' \in Answers
         /\ files' = files
<1>1. todo' \in Seq(Keys)
  <2>1. CASE Starting
    BY <2>1, HeadTailProperties DEF Starting, Ends, ProcessTypes
  <2>2. CASE ~Starting
    BY <2>2 DEF Ends, ProcessTypes
  <2> QED
    BY <2>1, <2>2
<1>2. storedKeys' \in Seq(Keys)
  <2>1. storedKeys' = storedKeys \/ storedKeys' = RemoveFirst(storedKeys, key)
    BY DEF Ends, Forgotten
  <2> QED
    BY <2>1, RemoveFirstType DEF ProcessTypes
<1>3. answer' \in Answers
  BY DEF Ends, ProcessTypes
<1> QED
  BY <1>1, <1>2, <1>3 DEF Ends, ProcessTypes, Jobs

LEMMA FileTypes ==
  ASSUME MemoryInv, ProcessTypes, NEW k \in Keys,
         OpensFile(k) \/ (WritesFile(k) /\ Has(k))
  PROVE  /\ files' \in [Keys -> Values \union {NoFile, EmptyFile}]
         /\ opened' \in BOOLEAN
<1>1. CASE OpensFile(k)
  BY <1>1 DEF OpensFile, ProcessTypes
<1>2. CASE WritesFile(k) /\ Has(k)
  <2>1. ReadValue(table[Index(k)]) \in Values
    BY <1>2, IndexType, ReadsWhatItHolds
  <2> QED
    BY <1>2, <2>1 DEF WritesFile, ProcessTypes
<1> QED
  BY <1>1, <1>2

LEMMA TypesNext ==
  ASSUME StorageInv, [Next]_vars
  PROVE  ProcessTypes'
<1>0. /\ MemoryInv /\ ProcessTypes /\ JobInv
      /\ algorithm' \in Algorithms
  BY DEF StorageInv, Next, vars, ProcessTypes
<1>1. CASE SetUpdates \/ SetPlaces
  <2>1. /\ job = "set" /\ Succeeds /\ Ends("SUCCESS")
        /\ key \in Keys /\ value \in Values
    BY <1>0, <1>1 DEF SetUpdates, SetPlaces, LooksForPlace, Succeeds, JobInv
  <2>2. recency' \in Seq(Keys)
    BY <1>0, <2>1, ReferencedType DEF Succeeds, ProcessTypes
  <2>3. spaceUsed' \in 0..EntriesAmount
    BY <1>0, <2>1, MarkedCount DEF Succeeds, ReportsSpace, ProcessTypes
  <2>4. lastStored' \in [Keys -> Values \union {NoValue}]
    BY <1>0, <2>1 DEF Succeeds, ProcessTypes
  <2>5. "SUCCESS" \in Answers
    BY DEF Answers
  <2> QED
    BY <1>0, <2>1, <2>2, <2>3, <2>4, <2>5, EndTypes DEF ProcessTypes
<1>2. CASE SetEvicts
  <2>1. recency' \in Seq(Keys)
    BY <1>0, <1>2, RemoveFirstType DEF SetEvicts, ProcessTypes
  <2> QED
    BY <1>0, <1>2, <2>1 DEF SetEvicts, threads, record, ProcessTypes
<1>3. CASE SetRefused \/ SetFindsNoVictim
  <2>1. /\ Ends("FAILED") /\ UNCHANGED <<recency, spaceUsed, lastStored>>
    BY <1>3 DEF SetRefused, SetFindsNoVictim, memory, history
  <2>2. "FAILED" \in Answers
    BY DEF Answers
  <2> QED
    BY <1>0, <2>1, <2>2, EndTypes DEF ProcessTypes
<1>4. CASE SetNeedsCompact
  <2>1. /\ UNCHANGED <<recency, spaceUsed, lastStored>>
    BY <1>4 DEF SetNeedsCompact, memory, history
  <2>2. CASE Starting \/ retried
    <3>1. Ends("COMPACT_REQUEST") /\ "COMPACT_REQUEST" \in Answers
      BY <1>4, <2>2 DEF SetNeedsCompact, Answers
    <3> QED
      BY <1>0, <2>1, <3>1, EndTypes DEF ProcessTypes
  <2>3. CASE ~(Starting \/ retried)
    BY <1>0, <1>4, <2>1, <2>3 DEF SetNeedsCompact, ProcessTypes, Jobs
  <2> QED
    BY <2>2, <2>3
<1>5. CASE CompactStep
  BY <1>0, <1>5 DEF CompactStep, CompactsAndRetries, DoCompact, Compacted, threads,
     record, history, ProcessTypes, Jobs
<1>6. CASE FallStep
  <2>1. <<>> \in Seq(Keys)
    OBVIOUS
  <2> QED
    BY <1>0, <1>6, <2>1 DEF FallStep, Falling, MapsEmptyFile, Fall, Initialized,
       ProcessTypes, Jobs, Connections, Answers
<1>7. CASE BringsBack \/ FindsNoFile \/ Recovered
  <2>1. ASSUME todo # <<>> PROVE Head(todo) \in Keys /\ Tail(todo) \in Seq(Keys)
    BY <1>0, <2>1, HeadTailProperties DEF ProcessTypes
  <2>2. Used \in 0..EntriesAmount
    BY MarkedCount DEF Used, UsedSlots
  <2>3. CASE BringsBack
    BY <1>0, <2>1, <2>3 DEF BringsBack, memory, record, history, ProcessTypes, Jobs
  <2>4. CASE FindsNoFile
    BY <1>0, <2>1, <2>4 DEF FindsNoFile, memory, record, history, ProcessTypes, Jobs
  <2>5. CASE Recovered
    BY <1>0, <2>2, <2>5 DEF Recovered, memory, history, ProcessTypes, Jobs, Connections
  <2> QED
    BY <1>7, <2>3, <2>4, <2>5
<1>8. CASE StoreOpens \/ DumpOpens
  <2>1. PICK k \in Keys : OpensFile(k)
    BY <1>0, <1>8, HeadTailProperties DEF StoreOpens, DumpOpens, JobInv, ProcessTypes
  <2> QED
    BY <1>0, <2>1, FileTypes DEF OpensFile, memory, record, history, ProcessTypes
<1>9. CASE StoreWrites
  <2>1. key \in Keys /\ Has(key) /\ WritesFile(key)
    BY <1>0, <1>9 DEF StoreWrites, JobInv
  <2>2. recency' \in Seq(Keys)
    BY <1>0, <1>9, <2>1, ReferencedType DEF StoreWrites, ProcessTypes
  <2>3. lastStored' \in [Keys -> Values \union {NoValue}]
    BY <1>0, <1>9, <2>1 DEF StoreWrites, ProcessTypes, MemoryInv, MemoryTypes
  <2> QED
    BY <1>0, <1>9, <2>1, <2>2, <2>3, FileTypes DEF StoreWrites, ProcessTypes, Jobs, Answers
<1>10. CASE DumpWrites \/ DumpSkips
  <2>1. job = "dump" /\ todo # <<>>
    BY <1>0, <1>10 DEF DumpWrites, DumpSkips, JobInv
  <2>2. Head(todo) \in Keys /\ Tail(todo) \in Seq(Keys) /\ Has(Head(todo))
    <3>1. Head(todo) = todo[1] /\ 1 \in 1..Len(todo)
      BY <1>0, <2>1 DEF ProcessTypes
    <3> QED
      BY <1>0, <2>1, <3>1, HeadTailProperties DEF ProcessTypes, JobInv
  <2>3. CASE DumpWrites
    <3>1. WritesFile(Head(todo))
      BY <2>3 DEF DumpWrites
    <3>2. files' \in [Keys -> Values \union {NoFile, EmptyFile}] /\ opened' \in BOOLEAN
      BY <1>0, <2>2, <3>1, FileTypes
    <3> QED
      BY <1>0, <2>2, <2>3, <3>2 DEF DumpWrites, DumpGoesOn, memory, record, history,
         ProcessTypes, Jobs
  <2>4. CASE DumpSkips
    BY <1>0, <2>2, <2>4 DEF DumpSkips, DumpGoesOn, memory, record, history,
       ProcessTypes, Jobs
  <2> QED
    BY <1>10, <2>3, <2>4
<1>11. CASE StoreFails
  <2>1. storedKeys' \in Seq(Keys)
    BY <1>0, <1>11, RemoveFirstType DEF StoreFails, Forgotten, ProcessTypes
  <2> QED
    BY <1>0, <1>11, <2>1 DEF StoreFails, memory, history, ProcessTypes, Jobs, Answers
<1>12. CASE DumpStarts
  <2>1. [j \in 1..Len(table) |-> table[j].key] \in Seq(Keys)
    <3>1. Len(table) \in Nat
      BY <1>0, LenProperties DEF MemoryInv, MemoryTypes
    <3>2. \A j \in 1..Len(table) : table[j].key \in Keys
      BY <1>0, RowType
    <3> QED
      BY <3>1, <3>2
  <2> QED
    BY <1>0, <1>12, <2>1 DEF DumpStarts, memory, record, history, ProcessTypes, Jobs
<1>13. CASE NoticesFall \/ ComesBack
  BY <1>0, <1>13 DEF NoticesFall, ComesBack, memory, threads, history,
     ProcessTypes, Jobs, Connections
<1>14. ASSUME NEW k \in Keys, AddsKey(k) \/ Forgotten(k) \/ storedKeys' = storedKeys
       PROVE  storedKeys' \in Seq(Keys)
  <2>1. storedKeys \in Seq(Keys)
    BY <1>0 DEF ProcessTypes
  <2>2. RemoveFirst(storedKeys, k) \in Seq(Keys) /\ Append(storedKeys, k) \in Seq(Keys)
    BY <2>1, RemoveFirstType, AppendProperties
  <2> QED
    BY <1>14, <2>1, <2>2 DEF AddsKey, Forgotten
<1>15. ASSUME NEW k \in Keys, NEW v \in Values, RequestSet(k, v) PROVE ProcessTypes'
  <2>1. storedKeys' \in Seq(Keys)
    BY <1>14, <1>15 DEF RequestSet
  <2> QED
    BY <1>0, <1>15, <2>1 DEF RequestSet, memory, history, ProcessTypes, Jobs, Answers
<1>16. ASSUME NEW k \in Keys, RequestStore(k) PROVE ProcessTypes'
  <2>1. storedKeys' \in Seq(Keys)
    BY <1>14, <1>16 DEF RequestStore
  <2> QED
    BY <1>0, <1>16, <2>1 DEF RequestStore, memory, history, ProcessTypes, Jobs, Answers
<1>17. ASSUME NEW k \in Keys, AskedWhileFallen(k) \/ SetIsLost(k) PROVE ProcessTypes'
  <2>1. storedKeys' \in Seq(Keys)
    BY <1>14, <1>17 DEF AskedWhileFallen, SetIsLost
  <2> QED
    BY <1>0, <1>17, <2>1 DEF AskedWhileFallen, SetIsLost, memory, threads, history,
       ProcessTypes
<1>18. CASE UNCHANGED vars
  BY <1>0, <1>18 DEF vars, memory, threads, record, history, ProcessTypes
<1>19. QuietStep => ProcessTypes'
  BY <1>3, <1>4, <1>7, <1>8, <1>9, <1>10, <1>11, <1>12, <1>13, <1>15, <1>16, <1>17
     DEF QuietStep, FileStep
<1> QED
  BY <1>1, <1>2, <1>5, <1>6, <1>18, <1>19, StepKinds

LEMMA EndJob ==
  ASSUME job = "set", NEW response, Ends(response)
  PROVE  /\ JobInv'
         /\ retried' = FALSE /\ job' \in {"recover", "idle"}
         /\ answer' \in {answer, response}
         /\ job' = "idle" => ~Starting
BY DEF Ends, JobInv, Starting

LEMMA JobNext ==
  ASSUME StorageInv, [Next]_vars
  PROVE  JobInv'
<1>0. MemoryInv /\ ProcessTypes /\ JobInv
  BY DEF StorageInv
<1>1. CASE SetUpdates \/ SetPlaces \/ SetRefused \/ SetFindsNoVictim
  <2>1. job = "set" /\ \E response : Ends(response)
    BY <1>1 DEF SetUpdates, SetPlaces, LooksForPlace, Succeeds, SetRefused,
       SetFindsNoVictim, NoPlace
  <2> QED
    BY <2>1, EndJob
<1>2. CASE SetNeedsCompact
  <2>1. job = "set"
    BY <1>2 DEF SetNeedsCompact, NoPlace, LooksForPlace
  <2>2. CASE Starting \/ retried
    BY <1>2, <2>1, <2>2, EndJob DEF SetNeedsCompact
  <2>3. CASE ~(Starting \/ retried)
    BY <1>0, <1>2, <2>1, <2>3 DEF SetNeedsCompact, JobInv, Starting
  <2> QED
    BY <2>2, <2>3
<1>3. CASE SetEvicts
  BY <1>0, <1>3 DEF SetEvicts, NoPlace, LooksForPlace, threads, JobInv, Starting
<1>4. CASE CompactStep
  BY <1>0, <1>4 DEF CompactStep, CompactsAndRetries, DoCompact, Serves, threads,
     JobInv, Starting
<1>5. CASE FallStep
  BY <1>5 DEF FallStep, Falling, MapsEmptyFile, Fall, JobInv, Starting
<1>6. ASSUME QuietStep \/ UNCHANGED vars PROVE \A k : Has(k)' <=> Has(k)
  <2>1. table' = table
    BY <1>6, QuietMemory DEF vars, memory
  <2> QED
    BY <2>1 DEF Has
<1>7. CASE StoreOpens \/ DumpOpens
  <2>1. /\ QuietStep /\ UNCHANGED <<job, key, todo>>
        /\ job \in {"store", "dump"}
    BY <1>7 DEF QuietStep, FileStep, StoreOpens, DumpOpens, OpensFile
  <2> QED
    BY <1>0, <1>6, <2>1 DEF JobInv
<1>8. CASE StoreWrites \/ StoreFails
  BY <1>0, <1>8 DEF StoreWrites, StoreFails, JobInv
<1>9. CASE DumpWrites \/ DumpSkips
  <2>1. /\ QuietStep /\ job = "dump" /\ DumpGoesOn
    BY <1>9 DEF QuietStep, FileStep, DumpWrites, DumpSkips
  <2>2. todo # <<>> /\ todo \in Seq(Keys)
    BY <1>0, <2>1 DEF JobInv, ProcessTypes
  <2>3. /\ Len(Tail(todo)) = Len(todo) - 1 /\ Len(todo) \in Nat
        /\ \A i \in 1..Len(Tail(todo)) : Tail(todo)[i] = todo[i + 1]
    BY <2>2, HeadTailProperties, LenProperties
  <2>4. table' = table
    BY <2>1, QuietMemory
  <2>5. ASSUME NEW i \in 1..Len(todo') PROVE (Has(todo[i]))'
    <3>1. i + 1 \in 1..Len(todo) /\ todo'[i] = todo[i + 1]
      BY <2>1, <2>3, <2>5 DEF DumpGoesOn
    <3>2. Has(todo[i + 1])
      BY <1>0, <2>1, <3>1 DEF JobInv
    <3> QED
      BY <2>4, <3>1, <3>2 DEF Has
  <2> QED
    BY <2>1, <2>5 DEF DumpGoesOn, JobInv
<1>10. CASE BringsBack \/ FindsNoFile
  <2>1. Head(todo) \in Keys
    BY <1>0, <1>10, HeadTailProperties DEF BringsBack, FindsNoFile, ProcessTypes
  <2> QED
    BY <1>10, <2>1 DEF BringsBack, FindsNoFile, JobInv, Starting
<1>11. CASE Recovered
  BY <1>11 DEF Recovered, JobInv
<1>12. CASE DumpStarts
  <2>1. /\ QuietStep /\ job' = "dump" /\ table # <<>>
        /\ todo' = [j \in 1..Len(table) |-> table[j].key]
    BY <1>12 DEF QuietStep, DumpStarts
  <2>2. Len(table) \in Nat /\ table \in Seq(Rows)
    BY <1>0, LenProperties DEF MemoryInv, MemoryTypes
  <2>3. Len(todo') = Len(table) /\ Len(table) # 0
    BY <2>1, <2>2
  <2>4. todo' # <<>>
    BY <2>3
  <2>5. \A i \in 1..Len(todo') : Has(todo'[i])
    BY <2>1, <2>3 DEF Has
  <2> QED
    BY <1>6, <2>1, <2>4, <2>5 DEF JobInv
<1>13. CASE ComesBack
  BY <1>13 DEF ComesBack, JobInv
<1>14. ASSUME NEW k \in Keys, NEW v \in Values, RequestSet(k, v) PROVE JobInv'
  BY <1>0, <1>14 DEF RequestSet, Serves, JobInv, Starting
<1>15. ASSUME NEW k \in Keys, RequestStore(k) PROVE JobInv'
  <2>1. QuietStep
    BY <1>15 DEF QuietStep
  <2> QED
    BY <1>0, <1>6, <1>15, <2>1 DEF RequestStore, Serves, JobInv
<1>16. CASE \/ NoticesFall \/ UNCHANGED vars
            \/ \E k \in Keys : AskedWhileFallen(k) \/ SetIsLost(k)
  <2>1. /\ QuietStep \/ UNCHANGED vars
        /\ UNCHANGED <<job, key, value, todo, files>>
    BY <1>16 DEF QuietStep, NoticesFall, AskedWhileFallen, SetIsLost, threads, vars
  <2> QED
    BY <1>0, <1>6, <2>1 DEF JobInv, Starting
<1> QED
  BY <1>1, <1>2, <1>3, <1>4, <1>5, <1>7, <1>8, <1>9, <1>10, <1>11, <1>12, <1>13,
     <1>14, <1>15, <1>16, StepKinds DEF QuietStep, FileStep

LEMMA AliveNext ==
  ASSUME StorageInv, [Next]_vars
  PROVE  AliveInv'
<1>0. AliveInv
  BY DEF StorageInv
<1>1. CASE SetUpdates \/ SetPlaces \/ SetRefused \/ SetFindsNoVictim \/ SetNeedsCompact
  <2>1. job = "set" /\ UNCHANGED <<alive, connection>>
    BY <1>1 DEF SetUpdates, SetPlaces, LooksForPlace, Succeeds, SetRefused,
       SetFindsNoVictim, SetNeedsCompact, NoPlace, Ends
  <2> QED
    BY <1>0, <2>1 DEF AliveInv
<1>2. CASE SetEvicts \/ UNCHANGED vars
  BY <1>0, <1>2 DEF SetEvicts, vars, threads, record, AliveInv
<1>3. CASE CompactStep
  BY <1>0, <1>3 DEF CompactStep, CompactsAndRetries, DoCompact, threads, record, AliveInv
<1>4. CASE FallStep
  BY <1>4 DEF FallStep, Falling, MapsEmptyFile, Fall, AliveInv
<1>5. CASE QuietStep /\ ~(SetRefused \/ SetFindsNoVictim \/ SetNeedsCompact)
  BY <1>0, <1>5 DEF QuietStep, FileStep, StoreOpens, StoreWrites, StoreFails,
     DumpOpens, DumpWrites, DumpSkips, OpensFile, BringsBack, FindsNoFile, Recovered,
     DumpStarts, NoticesFall, ComesBack, RequestSet, RequestStore, AskedWhileFallen,
     SetIsLost, Serves, threads, record, AliveInv
<1> QED
  BY <1>1, <1>2, <1>3, <1>4, <1>5, StepKinds

LEMMA RetryNext ==
  ASSUME StorageInv, [Next]_vars
  PROVE  RetryInv'
<1>0. MemoryInv /\ JobInv /\ AliveInv /\ RetryInv
  BY DEF StorageInv
<1>1. CASE SetUpdates \/ SetPlaces \/ SetRefused \/ SetFindsNoVictim
  <2>1. job = "set" /\ (Ends("SUCCESS") \/ Ends("FAILED"))
    BY <1>1 DEF SetUpdates, SetPlaces, LooksForPlace, Succeeds, SetRefused,
       SetFindsNoVictim, NoPlace
  <2>2. /\ retried' = FALSE /\ job' # "compact"
        /\ answer' \in {answer, "SUCCESS", "FAILED"}
    BY <2>1, EndJob
  <2>3. answer' # "COMPACT_REQUEST"
    BY <1>0, <2>2 DEF RetryInv, RetryFits
  <2> QED
    BY <2>2, <2>3 DEF RetryInv, RetryFits
<1>2. CASE SetNeedsCompact
  <2>1. /\ job = "set" /\ key \in Keys /\ value \in Values /\ Size[value] # 0
        /\ Needed <= EntriesAmount - Used /\ ~\E s \in Slots : Fits(s, Needed)
        /\ UNCHANGED <<table, biMap, storage, lastSet>>
    BY <1>0, <1>2 DEF SetNeedsCompact, NoPlace, LooksForPlace, Storable, JobInv,
       memory, history
  <2>2. Needed \in Nat \ {0}
    BY <2>1, StorableType DEF Needed
  <2>3. ~retried
    BY <1>0, <2>1, <2>2, PackedFits DEF RetryInv
  <2>4. CASE Starting
    <3>1. Ends("COMPACT_REQUEST")
      BY <1>2, <2>4 DEF SetNeedsCompact
    <3>2. answer' = answer /\ retried' = FALSE /\ job' # "compact"
      BY <2>4, <3>1 DEF Ends
    <3> QED
      BY <1>0, <3>2 DEF RetryInv, RetryFits
  <2>5. CASE ~Starting
    <3>1. UNCHANGED <<retried, answer, value>>
      BY <1>2, <2>3, <2>5 DEF SetNeedsCompact
    <3>2. Used' = Used /\ Needed' = Needed
      BY <1>0, <2>1, <3>1, SameMemory DEF Needed
    <3> QED
      BY <1>0, <2>1, <2>3, <3>1, <3>2 DEF RetryInv, RetryFits
  <2> QED
    BY <2>4, <2>5
<1>3. CASE SetEvicts
  <2>1. /\ job = "set" /\ value \in Values /\ Size[value] # 0
        /\ Needed > EntriesAmount - Used
    BY <1>0, <1>3 DEF SetEvicts, NoPlace, LooksForPlace, Storable, JobInv
  <2>2. Needed \in Nat \ {0} /\ Used \in Nat /\ EntriesAmount \in Nat
    BY <2>1, StorableType, UsedType, SlotsFinite DEF Needed
  <2>3. ~retried
    BY <1>0, <2>1, <2>2 DEF RetryInv
  <2>4. UNCHANGED <<job, retried, answer>>
    BY <1>3 DEF SetEvicts, threads, record
  <2> QED
    BY <1>0, <2>1, <2>3, <2>4 DEF RetryInv, RetryFits
<1>4. CASE CompactStep
  <2>1. Used' = Used /\ IsPacked'
    BY <1>0, <1>4, CompactMemory DEF CompactStep, CompactsAndRetries, DoCompact, history
  <2>2. CASE CompactsAndRetries
    <3>1. /\ job = "compact" /\ job' = "set" /\ todo' = todo /\ todo = <<>>
          /\ value' = value /\ answer' = answer
      BY <1>0, <2>2 DEF CompactsAndRetries, JobInv, record
    <3>2. Needed' = Needed
      BY <3>1 DEF Needed
    <3> QED
      BY <1>0, <2>1, <3>1, <3>2 DEF RetryInv, RetryFits, Starting
  <2>3. CASE DoCompact
    BY <1>0, <2>3 DEF DoCompact, Serves, threads, record, RetryInv, RetryFits
  <2> QED
    BY <1>4, <2>2, <2>3 DEF CompactStep
<1>5. CASE FallStep
  BY <1>0, <1>5 DEF FallStep, Falling, MapsEmptyFile, Fall, RetryInv, RetryFits
<1>6. CASE \/ NoticesFall \/ UNCHANGED vars
           \/ \E k \in Keys : AskedWhileFallen(k) \/ SetIsLost(k)
  <2>1. /\ UNCHANGED <<table, biMap, storage, lastSet>>
        /\ UNCHANGED <<job, value, retried, todo, answer>>
    BY <1>6 DEF NoticesFall, AskedWhileFallen, SetIsLost, vars, memory, history,
       threads, record
  <2>2. Used' = Used /\ Needed' = Needed /\ Starting' = Starting
    BY <1>0, <2>1, SameMemory DEF Needed, Starting
  <2>3. IsPacked' <=> IsPacked
    BY <2>1, <2>2 DEF IsPacked
  <2> QED
    BY <1>0, <2>1, <2>2, <2>3 DEF RetryInv, RetryFits
<1>7. CASE \/ FileStep \/ BringsBack \/ FindsNoFile \/ Recovered \/ DumpStarts \/ ComesBack
           \/ \E k \in Keys, v \in Values : RequestSet(k, v)
           \/ \E k \in Keys : RequestStore(k)
  <2>1. job # "set" /\ job' # "compact" /\ retried' = retried
        /\ answer' \in {answer, "NONE", "SUCCESS", "FAILED"}
    BY <1>0, <1>7 DEF FileStep, StoreOpens, StoreWrites, StoreFails, DumpOpens,
       DumpWrites, DumpSkips, OpensFile, DumpGoesOn, BringsBack, FindsNoFile, Recovered,
       DumpStarts, ComesBack, RequestSet, RequestStore, Serves, record, AliveInv
  <2> QED
    BY <1>0, <2>1 DEF RetryInv, RetryFits
<1> QED
  BY <1>1, <1>2, <1>3, <1>4, <1>5, <1>6, <1>7, StepKinds DEF QuietStep

LEMMA SpaceNext ==
  ASSUME StorageInv, [Next]_vars
  PROVE  SpaceInv'
<1>0. MemoryInv /\ JobInv /\ AliveInv /\ SpaceInv /\ MemoryInv'
  BY MemoryNext DEF StorageInv
<1>1. CASE SetUpdates \/ SetPlaces
  <2>1. /\ job = "set" /\ Ends("SUCCESS") /\ ReportsSpace
    BY <1>1 DEF SetUpdates, SetPlaces, LooksForPlace, Succeeds
  <2>2. job' = "recover" \/ (job' = "idle" /\ ~Starting)
    BY <2>1, EndJob
  <2>3. ~Starting => spaceUsed' = Cardinality({i \in Slots : biMap'[i] = 1})
    BY <2>1 DEF ReportsSpace
  <2>4. Cardinality({i \in Slots : biMap'[i] = 1}) \in 0..EntriesAmount
    BY MarkedCount
  <2>5. Used' = Cardinality({i \in Slots : biMap'[i] = 1})
    BY DEF Used, UsedSlots
  <2>6. ~Starting => Used' <= spaceUsed'
    BY <2>3, <2>4, <2>5
  <2> QED
    BY <2>2, <2>6 DEF SpaceInv
<1>2. CASE SetEvicts
  <2>1. UsedSlots' \subseteq UsedSlots
    BY <1>0, <1>2, EvictMemory
  <2>2. Used' \in Nat /\ Used \in Nat /\ Used' <= Used
    <3> DEFINE new == UsedSlots'
    <3>1. Cardinality(new) \in Nat /\ Cardinality(new) <= Cardinality(UsedSlots)
      BY <2>1, UsedType, FS_Subset, FS_CardinalityType
    <3> QED
      BY <3>1, UsedType DEF Used
  <2>3. UNCHANGED <<alive, job, todo, spaceUsed>> /\ spaceUsed \in 0..EntriesAmount
        /\ EntriesAmount \in Nat
    BY <1>2, SlotsFinite DEF SetEvicts, threads, record, StorageInv, ProcessTypes
  <2> QED
    BY <1>0, <2>2, <2>3 DEF SpaceInv, Starting
<1>3. CASE CompactStep
  <2>1. Used' = Used
    BY <1>0, <1>3, CompactMemory DEF CompactStep, CompactsAndRetries, DoCompact, history
  <2>2. /\ UNCHANGED <<alive, todo, spaceUsed>>
        /\ (job = "compact" /\ job' = "set" /\ ~Starting) \/ job' = job
    BY <1>0, <1>3 DEF CompactStep, CompactsAndRetries, DoCompact, threads, record,
       JobInv, Starting
  <2> QED
    BY <1>0, <2>1, <2>2 DEF SpaceInv, Starting
<1>4. CASE FallStep
  BY <1>4 DEF FallStep, Falling, MapsEmptyFile, Fall, SpaceInv
<1>5. ASSUME QuietStep \/ UNCHANGED vars PROVE Used' = Used
  BY <1>0, <1>5, QuietMemory, SameMemory DEF vars, memory, history
<1>6. CASE SetRefused \/ SetFindsNoVictim \/ SetNeedsCompact
  <2>1. /\ QuietStep /\ job = "set" /\ UNCHANGED <<alive, spaceUsed>>
    BY <1>6 DEF QuietStep, SetRefused, SetFindsNoVictim, SetNeedsCompact, NoPlace,
       LooksForPlace, Ends
  <2>2. job' = "recover" \/ ~Starting
    <3>1. CASE \E response : Ends(response)
      BY <2>1, <3>1, EndJob
    <3>2. CASE ~\E response : Ends(response)
      BY <1>6, <3>2 DEF SetRefused, SetFindsNoVictim, SetNeedsCompact
    <3> QED
      BY <3>1, <3>2
  <2> QED
    BY <1>0, <1>5, <2>1, <2>2 DEF SpaceInv
<1>7. CASE FileStep \/ DumpStarts \/ \E k \in Keys : RequestStore(k)
  <2>1. /\ QuietStep /\ UNCHANGED <<alive, spaceUsed>>
        /\ job \in {"idle", "store", "dump"} /\ job' \in {"idle", "store", "dump"}
    BY <1>7 DEF QuietStep, FileStep, StoreOpens, StoreWrites, StoreFails, DumpOpens,
       DumpWrites, DumpSkips, OpensFile, DumpGoesOn, DumpStarts, RequestStore, Serves,
       record
  <2> QED
    BY <1>0, <1>5, <2>1 DEF SpaceInv
<1>8. CASE \E k \in Keys, v \in Values : RequestSet(k, v)
  <2>1. /\ QuietStep /\ UNCHANGED <<alive, spaceUsed>> /\ job = "idle" /\ job' = "set"
    BY <1>8 DEF QuietStep, RequestSet, Serves
  <2> QED
    BY <1>0, <1>5, <2>1 DEF SpaceInv
<1>9. CASE BringsBack \/ FindsNoFile \/ ComesBack
  BY <1>9 DEF BringsBack, FindsNoFile, ComesBack, SpaceInv, Starting
<1>10. CASE Recovered
  <2>1. Used' = Used /\ spaceUsed' = Used /\ Used \in Nat /\ job' = "idle"
    BY <1>5, <1>10, UsedType DEF QuietStep, Recovered
  <2> QED
    BY <2>1 DEF SpaceInv
<1>11. CASE \/ NoticesFall \/ UNCHANGED vars
            \/ \E k \in Keys : AskedWhileFallen(k) \/ SetIsLost(k)
  <2>1. /\ QuietStep \/ UNCHANGED vars
        /\ UNCHANGED <<alive, job, todo, spaceUsed>>
    BY <1>11 DEF QuietStep, NoticesFall, AskedWhileFallen, SetIsLost, vars, threads, record
  <2> QED
    BY <1>0, <1>5, <2>1 DEF SpaceInv, Starting
<1> QED
  BY <1>1, <1>2, <1>3, <1>4, <1>6, <1>7, <1>8, <1>9, <1>10, <1>11, StepKinds
     DEF QuietStep

LEMMA StoreNext ==
  ASSUME StorageInv, [Next]_vars
  PROVE  StoreInv'
<1>0. MemoryInv /\ JobInv /\ StoreInv /\ ProcessTypes
  BY DEF StorageInv
<1>1. CASE SetUpdates \/ SetPlaces
  <2>1. /\ job = "set" /\ key \in Keys /\ value \in Values
        /\ UNCHANGED files
        /\ lastSet' = [lastSet EXCEPT ![key] = value]
        /\ lastStored' = [lastStored EXCEPT ![key] = IF Starting THEN @ ELSE NoValue]
    BY <1>0, <1>1 DEF SetUpdates, SetPlaces, LooksForPlace, Succeeds, Ends, JobInv
  <2>2. /\ lastSet \in [Keys -> Values \union {NoValue}]
        /\ lastStored \in [Keys -> Values \union {NoValue}]
    BY <1>0 DEF MemoryInv, MemoryTypes, ProcessTypes
  <2>3. ASSUME NEW k \in Keys, lastStored'[k] # NoValue
        PROVE  /\ lastStored'[k] = lastStored[k]
               /\ k = key => Starting
    BY <2>1, <2>2, <2>3
  <2>4. StoreIsKept'
    BY <1>0, <2>1, <2>3 DEF StoreInv, StoreIsKept
  <2>5. ASSUME NEW k \in Keys, lastStored'[k] # NoValue, Has(k)'
        PROVE  lastSet'[k] = lastStored'[k]
    <3>1. CASE k = key
      <4>1. files[key] = value /\ lastSet'[k] = value
        BY <1>0, <2>1, <2>2, <2>3, <2>5, <3>1 DEF JobInv
      <4>2. value # EmptyFile
        BY <2>1, StorageAssumption DEF EmptyFile
      <4>3. files[key] = lastStored[key]
        BY <1>0, <2>1, <2>3, <2>5, <3>1, <4>1, <4>2 DEF StoreInv, StoreIsKept
      <4> QED
        BY <2>3, <2>5, <3>1, <4>1, <4>3
    <3>2. CASE k # key
      <4>1. Has(k)
        BY <1>0, <1>1, <2>1, <2>5, <3>2, HasAfterSet
      <4>2. lastSet'[k] = lastSet[k]
        BY <2>1, <2>2, <3>2
      <4> QED
        BY <1>0, <2>3, <2>5, <4>1, <4>2 DEF StoreInv
    <3> QED
      BY <3>1, <3>2
  <2> QED
    BY <2>4, <2>5 DEF StoreInv
<1>2. CASE SetEvicts
  <2>1. /\ \A k : Has(k)' => Has(k)
        /\ \A k \in Keys : Has(k)' => lastSet'[k] = lastSet[k]
    BY <1>0, <1>2, EvictMemory
  <2>2. UNCHANGED <<files, lastStored>>
    BY <1>2 DEF SetEvicts
  <2> QED
    BY <1>0, <2>1, <2>2 DEF StoreInv, StoreIsKept
<1>3. CASE CompactStep
  <2>1. UNCHANGED <<files, lastSet, lastStored>> /\ Compacted
    BY <1>3 DEF CompactStep, CompactsAndRetries, DoCompact, history
  <2>2. \A k : Has(k)' <=> Has(k)
    BY <1>0, <2>1, CompactMemory
  <2> QED
    BY <1>0, <2>1, <2>2 DEF StoreInv, StoreIsKept
<1>4. CASE FallStep
  <2>1. UNCHANGED <<files, lastStored>> /\ table' = <<>>
    BY <1>4 DEF FallStep, Falling, MapsEmptyFile, Fall, Initialized
  <2>2. \A k : ~Has(k)'
    <3>1. \A j : j \notin 1..Len(<<>>)
      OBVIOUS
    <3> QED
      BY <2>1, <3>1 DEF Has
  <2> QED
    BY <1>0, <2>1, <2>2 DEF StoreInv, StoreIsKept
<1>5. ASSUME QuietStep \/ UNCHANGED vars
      PROVE  lastSet' = lastSet /\ \A k : Has(k)' <=> Has(k)
  BY <1>0, <1>5, QuietMemory, SameMemory DEF vars, memory, history
<1>6. CASE StoreOpens \/ DumpOpens
  <2>1. PICK k \in Keys : OpensFile(k)
    BY <1>0, <1>6, HeadTailProperties DEF StoreOpens, DumpOpens, JobInv, ProcessTypes
  <2>2. /\ lastStored' = lastStored /\ files' = [files EXCEPT ![k] = EmptyFile]
    BY <2>1 DEF OpensFile, history
  <2>3. \A r \in Keys : files'[r] = EmptyFile \/ files'[r] = files[r]
    BY <1>0, <2>2 DEF ProcessTypes
  <2>4. QuietStep
    BY <1>6 DEF QuietStep, FileStep
  <2>5. StoreIsKept'
    BY <1>0, <2>2, <2>3 DEF StoreInv, StoreIsKept
  <2> QED
    BY <1>0, <1>5, <2>2, <2>4, <2>5 DEF StoreInv
<1>7. ASSUME NEW k \in Keys, WritesFile(k), Has(k)
      PROVE  /\ files'[k] \in {lastSet[k], EmptyFile}
             /\ \A r \in Keys : r # k => files'[r] = files[r]
  <2>1. ReadValue(table[Index(k)]) = lastSet[k]
    BY <1>0, <1>7, IndexType, ReadsWhatItHolds
  <2> QED
    BY <1>0, <1>7, <2>1 DEF WritesFile, ProcessTypes
<1>8. CASE StoreWrites
  <2>1. /\ key \in Keys /\ Has(key) /\ WritesFile(key)
        /\ lastStored' = [lastStored EXCEPT ![key] = lastSet[key]]
    BY <1>0, <1>8 DEF StoreWrites, JobInv
  <2>2. /\ lastStored'[key] = lastSet[key]
        /\ \A r \in Keys : r # key => lastStored'[r] = lastStored[r]
    BY <1>0, <2>1 DEF ProcessTypes
  <2>3. QuietStep
    BY <1>8 DEF QuietStep, FileStep
  <2>4. StoreIsKept'
    BY <1>0, <1>7, <2>1, <2>2 DEF StoreInv, StoreIsKept
  <2>5. ASSUME NEW r \in Keys, lastStored'[r] # NoValue, Has(r)'
        PROVE  lastSet'[r] = lastStored'[r]
    BY <1>0, <1>5, <2>2, <2>3, <2>5 DEF StoreInv
  <2> QED
    BY <2>4, <2>5 DEF StoreInv
<1>9. CASE DumpWrites
  <2>1. job = "dump" /\ todo # <<>> /\ todo \in Seq(Keys) /\ lastStored' = lastStored
    BY <1>0, <1>9 DEF DumpWrites, JobInv, ProcessTypes, history
  <2> DEFINE k == Head(todo)
  <2>2. k \in Keys /\ Has(k) /\ WritesFile(k)
    <3>1. Head(todo) = todo[1] /\ 1 \in 1..Len(todo)
      BY <2>1
    <3> QED
      BY <1>0, <1>9, <2>1, <3>1, HeadTailProperties DEF DumpWrites, JobInv
  <2> HIDE DEF k
  <2>3. QuietStep
    BY <1>9 DEF QuietStep, FileStep
  <2>4. StoreIsKept'
    BY <1>0, <1>7, <2>1, <2>2 DEF StoreInv, StoreIsKept
  <2> QED
    BY <1>0, <1>5, <2>1, <2>3, <2>4 DEF StoreInv
<1>10. CASE (QuietStep \/ UNCHANGED vars)
            /\ ~(StoreOpens \/ DumpOpens \/ StoreWrites \/ DumpWrites)
  <2>1. UNCHANGED <<files, lastStored>>
    BY <1>10 DEF QuietStep, FileStep, SetRefused, SetFindsNoVictim, SetNeedsCompact, Ends,
       StoreFails, DumpSkips, BringsBack, FindsNoFile, Recovered, DumpStarts,
       NoticesFall, ComesBack, RequestSet, RequestStore, AskedWhileFallen, SetIsLost,
       vars, history
  <2> QED
    BY <1>0, <1>5, <1>10, <2>1 DEF StoreInv, StoreIsKept
<1> QED
  BY <1>1, <1>2, <1>3, <1>4, <1>6, <1>8, <1>9, <1>10, StepKinds

LEMMA StorageNext == StorageInv /\ [Next]_vars => StorageInv'
BY MemoryNext, TypesNext, JobNext, AliveNext, RetryNext, SpaceNext, StoreNext
   DEF StorageInv

-----------------------------------------------------------------------------
(* Theorems.                                                                *)

LEMMA StorageAlways == Spec => []StorageInv
<1>1. Init => StorageInv
  BY StorageInit
<1>2. StorageInv /\ [Next]_vars => StorageInv'
  BY StorageNext
<1> QED
  BY <1>1, <1>2, PTL DEF Spec

LEMMA StorageImplies ==
  StorageInv => /\ TypeOK /\ BitmapIsTable /\ ValuesIntact
                /\ RetryFits /\ SpaceNeverUnderstated /\ StoreIsKept
<1> SUFFICES ASSUME StorageInv
             PROVE  /\ TypeOK /\ BitmapIsTable /\ ValuesIntact
                    /\ RetryFits /\ SpaceNeverUnderstated /\ StoreIsKept
  OBVIOUS
<1>1. TypeOK
  BY DEF StorageInv, MemoryInv, MemoryTypes, ProcessTypes, TypeOK
<1>2. MemoryInv
  BY DEF StorageInv
<1>3. ValuesIntact
  BY <1>2, RowType, ReadsWhatItHolds DEF ValuesIntact
<1> QED
  BY <1>1, <1>2, <1>3, BitmapRight
     DEF StorageInv, RetryInv, SpaceInv, SpaceNeverUnderstated, StoreInv

\* Every variable keeps its type: the rows of the entry table, the bitmap and
\* the entries, the files, what is being done and what the coordinator records.
THEOREM StorageTypes == Spec => []TypeOK
BY StorageAlways, StorageImplies, PTL

\* Whatever is set, updated, evicted, compacted or brought back, the rows of the
\* entry table do not overlap, no key has two, and the bitmap marks exactly them.
THEOREM BitmapAgrees == Spec => []BitmapIsTable
BY StorageAlways, StorageImplies, PTL

\* getValue returns for every key of the table the value last set under it,
\* also after the entries were moved by a compaction.
THEOREM ValuesAreKept == Spec => []ValuesIntact
BY StorageAlways, StorageImplies, PTL

\* The SET that handleOperationRequest tries again after compacting finds its
\* place: the coordinator never receives COMPACT_REQUEST as a final answer.
THEOREM RetriesFit == Spec => []RetryFits
BY StorageAlways, StorageImplies, PTL

\* The space used that the coordinator records for an instancia it can ask is at
\* least what is in use there.
THEOREM SpaceIsReported == Spec => []SpaceNeverUnderstated
BY StorageAlways, StorageImplies, PTL

\* The file of a key that was stored, and not set since, holds the value stored,
\* unless it is being written or the process died writing it.
THEOREM StoredFilesAreKept == Spec => []StoreIsKept
BY StorageAlways, StorageImplies, PTL
=============================================================================
