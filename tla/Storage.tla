------------------------------- MODULE Storage -------------------------------
(***************************************************************************)
(* One storage process (instancia) with its two threads, and the record    *)
(* the coordinator keeps of it (storedKeys, spaceUsed).                    *)
(*                                                                         *)
(* The main thread serves one command at a time and the dump thread runs   *)
(* between two commands: both hold dumpMutex meanwhile, so that job says   *)
(* what is being done, by whichever thread.  A SET is cut at each turn of  *)
(* the loop that looks for a place, and a file write between fopen, which  *)
(* truncates the file, and fclose, since the process may die there.        *)
(*                                                                         *)
(* Values are abstract: entry i of the storage holds piece <<v, n>> of a   *)
(* value v that takes Entries(Size[v]) entries.                            *)
(***************************************************************************)
EXTENDS Integers, Sequences, FiniteSets, SequencesExt

CONSTANTS
    Keys,          \* the keys the coordinator may send here
    Values,        \* the values scripts may set
    Size,          \* the length of each value
    EntriesAmount, \* entries of the storage
    EntrySize,     \* bytes of an entry
    Algorithms,    \* the replacement algorithms the configuration may name
    Falls,         \* TRUE iff the process may die
    DiskFails,     \* TRUE iff a file may fail to open and the disk may be full
    NoKey, NoValue

ASSUME StorageAssumption ==
    /\ IsFiniteSet(Keys) /\ NoKey \notin Keys /\ NoValue \notin Values
    /\ Values \intersect {"damaged", "empty", "none"} = {}  \* what files may also hold
    /\ Size \in [Values -> Nat]
    /\ EntriesAmount \in Nat \ {0} /\ EntrySize \in Nat \ {0}
    /\ Algorithms \subseteq {"CIRC", "LRU", "BSU"}
    /\ Falls \in BOOLEAN /\ DiskFails \in BOOLEAN

VARIABLES
    algorithm,  \* read from the configuration file when the process starts
    table,      \* entryTable
    biMap,      \* the entries in use
    storage,    \* the piece in each entry
    recency,    \* the keys in the order of their lastReference, oldest first
    files,      \* the file of each key under PATH
    alive,      \* the process runs
    job,        \* what is being done
    key, value, \* the operands of the SET or STORE being done
    retried,    \* the SET is tried again after a compaction
    todo,       \* the keys still to bring back or to dump
    opened,     \* the file of the key being written is open, and empty
    storedKeys, spaceUsed,  \* what the coordinator believes
    connection, \* where the coordinator's thread for this instancia is
    answer,     \* of the process to the last request of the coordinator
    lastSet, lastStored     \* history: what each key should hold

memory  == <<table, biMap, storage, recency>>
threads == <<alive, job, key, value, retried, todo, opened>>
record  == <<storedKeys, spaceUsed, connection, answer>>
history == <<lastSet, lastStored>>
vars == <<algorithm, memory, files, threads, record, history>>

-----------------------------------------------------------------------------
Slots  == 0..(EntriesAmount - 1)
Jobs   == {"recover", "idle", "set", "compact", "store", "dump"}
\* "starting" in initialiceArrivedInstancia, "serving" in its loop; once the
\* thread has ended, "fallen" if it marked the instancia so, else "lost".
Connections == {"starting", "serving", "fallen", "lost"}
Answers == {"NONE", "SUCCESS", "FAILED", "COMPACT_REQUEST"}

\* wholeUpperDivision(size, entrySize), for a size above 0
Entries(size) == 1 + ((size - 1) \div EntrySize)

Blank == <<NoValue, 0>>
Pieces == {Blank} \union (Values \X Slots)
Rows == [key : Keys, start : Slots, size : Nat]
Damaged == "damaged"     \* a mixture of pieces
EmptyFile == "empty"
NoFile == "none"

Extent(row) == row.start..(row.start + Entries(row.size) - 1)
UsedSlots == {i \in Slots : biMap[i] = 1}
Used == Cardinality(UsedSlots)                 \* getTotalSettedEntries
Has(k) == \E j \in 1..Len(table) : table[j].key = k
Index(k) == CHOOSE j \in 1..Len(table) : table[j].key = k

\* getValue
Reads(row, v) ==
    /\ Entries(row.size) = Entries(Size[v])
    /\ \A i \in Extent(row) \intersect Slots : storage[i] = <<v, i - row.start>>
ReadValue(row) ==
    IF \E v \in Values : Reads(row, v) THEN CHOOSE v \in Values : Reads(row, v)
                                       ELSE Damaged

TypeOK ==
    /\ algorithm \in Algorithms
    /\ table \in Seq(Rows)
    /\ biMap \in [Slots -> {0, 1}]
    /\ storage \in [Slots -> Pieces]
    /\ recency \in Seq(Keys)
    /\ files \in [Keys -> Values \union {NoFile, EmptyFile}]
    /\ alive \in BOOLEAN /\ job \in Jobs
    /\ key \in Keys \union {NoKey} /\ value \in Values \union {NoValue}
    /\ retried \in BOOLEAN /\ opened \in BOOLEAN
    /\ todo \in Seq(Keys)
    /\ storedKeys \in Seq(Keys)
    /\ spaceUsed \in 0..EntriesAmount
    /\ connection \in Connections
    /\ answer \in Answers
    /\ lastSet \in [Keys -> Values \union {NoValue}]
    /\ lastStored \in [Keys -> Values \union {NoValue}]

\* initialize
Initialized ==
    [table |-> <<>>, biMap |-> [i \in Slots |-> 0],
     storage |-> [i \in Slots |-> Blank], recency |-> <<>>]

Init ==
    /\ algorithm \in Algorithms
    /\ table = Initialized.table /\ biMap = Initialized.biMap
    /\ storage = Initialized.storage /\ recency = Initialized.recency
    /\ files = [k \in Keys |-> NoFile]
    /\ alive = TRUE /\ job = "recover" /\ todo = <<>>
    /\ key = NoKey /\ value = NoValue
    /\ retried = FALSE /\ opened = FALSE
    /\ storedKeys = <<>> /\ spaceUsed = 0 /\ answer = "NONE"
    /\ connection = "starting"
    /\ lastSet = [k \in Keys |-> NoValue]
    /\ lastStored = [k \in Keys |-> NoValue]

-----------------------------------------------------------------------------
(* The bitmap, the table and the replacement algorithm.                    *)

MarkedButLast(map, slots, mark) ==  \* mistaken variant: one entry short
    [i \in Slots |-> IF i \in slots /\ i + 1 \in slots THEN mark ELSE map[i]]
Marked(map, slots, mark) ==                    \* biMapUpdate
    [i \in Slots |-> IF i \in slots THEN mark ELSE map[i]]
Written(v, start) ==                           \* storageSet
    [i \in Slots |-> IF i \in start..(start + Entries(Size[v]) - 1)
                     THEN <<v, i - start>> ELSE storage[i]]

FitsButLast(start, n) ==           \* mistaken variant: the last entry is spared
    /\ start + n < EntriesAmount
    /\ \A i \in start..(start + n - 1) : biMap[i] = 0
Fits(start, n) == /\ start + n <= EntriesAmount
                  /\ \A i \in start..(start + n - 1) : biMap[i] = 0
FirstFit(n) ==
    CHOOSE s \in Slots : Fits(s, n) /\ \A r \in Slots : Fits(r, n) => s <= r

RowsWithout(k) == RemoveAt(table, Index(k))    \* list_remove_by_condition

\* updateAccodringToAlgorithm: increaseLastReference makes k the latest
Referenced(k) ==
    IF algorithm = "LRU" THEN Append(RemoveFirst(recency, k), k) ELSE recency

\* deleteAccodringToAlgorithm.  Only a value of one entry may be replaced.
Atomic == {j \in 1..Len(table) : table[j].size <= EntrySize}
Position(k) == CHOOSE i \in 1..Len(recency) : recency[i] = k
IsVictim(j) ==
    /\ j \in Atomic
    /\ CASE algorithm = "CIRC" -> \A i \in Atomic : j <= i
         [] algorithm = "LRU"  -> \A i \in Atomic :
                                    Position(table[j].key) <= Position(table[i].key)
         [] OTHER              -> \A i \in Atomic : table[i].size <= table[j].size

\* compact: the rows are laid one after the other in the order of the table.
NewStart ==
    LET at[j \in 1..(Len(table) + 1)] ==
            IF j = 1 THEN 0 ELSE at[j - 1] + Entries(table[j - 1].size)
    IN  at
PlacedAt(i) == {j \in 1..Len(table) : i \in NewStart[j]..(NewStart[j + 1] - 1)}
MovedPiecesLate == storage         \* mistaken variant: read after the move
MovedPieces ==
    [i \in Slots |->
        IF PlacedAt(i) # {}
        THEN LET j == CHOOSE r \in PlacedAt(i) : TRUE
             IN  storage[table[j].start + i - NewStart[j]]
        ELSE storage[i]]
MovedMarks == [i \in Slots |-> IF i < Used THEN 1 ELSE 0]
Compacted ==
    /\ table' = [j \in 1..Len(table) |-> [table[j] EXCEPT !.start = NewStart[j]]]
    /\ storage' = MovedPieces
    /\ biMap' = MovedMarks
    /\ UNCHANGED recency

-----------------------------------------------------------------------------
(* set: from a SET of the coordinator, or from getKeyByFile at the start.  *)

Starting == todo # <<>>          \* the SET comes from recieveKeysFromCoordinador
Needed == Entries(Size[value])
Storable == Size[value] # 0 /\ Size[value] <= EntriesAmount * EntrySize
LooksForPlace == job = "set" /\ Storable /\ ~Has(key)

Forgotten(k) == storedKeys' = RemoveFirst(storedKeys, k)

\* The SET is over with this response.  While it starts the instancia goes on
\* with the next key; later it answers the coordinator, which deletes the key
\* of an operation that failed.
Ends(response) ==
    /\ IF Starting
       THEN /\ job' = "recover" /\ todo' = Tail(todo)
            /\ UNCHANGED <<storedKeys, answer>>
       ELSE /\ job' = "idle" /\ answer' = response /\ UNCHANGED todo
            /\ IF response = "FAILED" THEN Forgotten(key) ELSE UNCHANGED storedKeys
    /\ retried' = FALSE /\ key' = NoKey /\ value' = NoValue
    /\ UNCHANGED <<alive, opened, files, connection>>
ReportsSpaceLater ==               \* mistaken variant: only at the start
    spaceUsed' = spaceUsed
ReportsSpace ==
    spaceUsed' = IF Starting THEN spaceUsed
                 ELSE Cardinality({i \in Slots : biMap'[i] = 1})
Succeeds ==
    /\ recency' = Referenced(key)
    /\ lastSet' = [lastSet EXCEPT ![key] = value]
    /\ lastStored' = [lastStored EXCEPT ![key] =
                        IF Starting THEN @ ELSE NoValue]
    /\ ReportsSpace
    /\ Ends("SUCCESS")

SetRefused ==
    /\ job = "set"
    /\ ~Storable \/ (Has(key) /\ Entries(table[Index(key)].size) < Needed)
    /\ Ends("FAILED")
    /\ UNCHANGED <<memory, spaceUsed, history>>
SetUpdates ==
    /\ job = "set" /\ Storable /\ Has(key)
    /\ LET row == table[Index(key)]
           kept == row.start..(row.start + Needed - 1)
       IN  /\ Needed <= Entries(row.size)
           /\ biMap' = Marked(Marked(biMap, Extent(row), 0), kept, 1)
           /\ storage' = Written(value, row.start)
           /\ table' = [table EXCEPT ![Index(key)].size = Size[value]]
    /\ Succeeds
SetPlaces ==
    /\ LooksForPlace
    /\ \E s \in Slots : Fits(s, Needed)
    /\ LET s == FirstFit(Needed)
       IN  /\ biMap' = Marked(biMap, s..(s + Needed - 1), 1)
           /\ storage' = Written(value, s)
           /\ table' = Append(table, [key |-> key, start |-> s, size |-> Size[value]])
    /\ Succeeds
NoPlace == LooksForPlace /\ ~\E s \in Slots : Fits(s, Needed)
SetEvicts ==
    /\ NoPlace /\ Needed > EntriesAmount - Used
    /\ \E j \in 1..Len(table) :
          /\ IsVictim(j)
          /\ biMap' = Marked(biMap, Extent(table[j]), 0)
          /\ table' = RowsWithout(table[j].key)
          /\ recency' = RemoveFirst(recency, table[j].key)
          /\ lastSet' = [lastSet EXCEPT ![table[j].key] = NoValue]
    /\ UNCHANGED <<storage, files, threads, record, lastStored>>
SetTriesForEver ==                 \* mistaken variant: looks for a victim again
    /\ NoPlace /\ Needed > EntriesAmount - Used /\ Atomic = {}
    /\ UNCHANGED <<memory, files, threads, record, history>>
SetFindsNoVictim ==
    /\ NoPlace /\ Needed > EntriesAmount - Used /\ Atomic = {}
    /\ Ends("FAILED")
    /\ UNCHANGED <<memory, spaceUsed, history>>
SetNeedsCompact ==
    /\ NoPlace /\ Needed <= EntriesAmount - Used
    /\ IF Starting \/ retried
       THEN Ends("COMPACT_REQUEST")
       ELSE /\ job' = "compact"
            /\ UNCHANGED <<alive, key, value, retried, todo, opened, files,
                           storedKeys, connection, answer>>
    /\ UNCHANGED <<memory, spaceUsed, history>>
\* the rest of handleOperationRequest after a COMPACT_REQUEST
CompactsAndRetries ==
    /\ job = "compact"
    /\ Compacted
    /\ job' = "set" /\ retried' = TRUE
    /\ UNCHANGED <<files, alive, key, value, todo, opened, record, history>>

-----------------------------------------------------------------------------
(* The commands of the coordinator.                                        *)

Serves == alive /\ job = "idle"
\* doSet: the key is added to storedKeys before the instancia is asked.
Believed(k) == \E i \in 1..Len(storedKeys) : storedKeys[i] = k
AddsKey(k) ==
    storedKeys' = IF Believed(k) THEN storedKeys ELSE Append(storedKeys, k)
RequestSet(k, v) ==
    /\ Serves
    /\ AddsKey(k)
    /\ job' = "set" /\ key' = k /\ value' = v /\ answer' = "NONE"
    /\ UNCHANGED <<memory, files, alive, retried, todo, opened, spaceUsed,
                   connection, history>>
\* doStore: only for a key in storedKeys
RequestStore(k) ==
    /\ Serves /\ Believed(k)
    /\ \/ /\ Has(k)
          /\ job' = "store" /\ key' = k /\ answer' = "NONE"
          /\ UNCHANGED storedKeys
       \/ /\ ~Has(k)
          /\ answer' = "FAILED" /\ Forgotten(k)
          /\ UNCHANGED <<job, key>>
    /\ UNCHANGED <<memory, files, alive, value, retried, todo, opened,
                   spaceUsed, connection, history>>
\* INSTANCIA_DO_COMPACT: another instancia needed to compact
DoCompact ==
    /\ Serves
    /\ Compacted
    /\ UNCHANGED <<files, threads, record, history>>

\* storeKeyAndValue: fopen with "w" empties the file before it is written.
OpensFile(k) ==
    /\ ~opened /\ opened' = TRUE
    /\ files' = [files EXCEPT ![k] = EmptyFile]
    /\ UNCHANGED <<memory, alive, job, key, value, retried, todo, record, history>>
WritesFileOfFirst(k) ==            \* mistaken variant: always the first row
    /\ opened /\ opened' = FALSE
    /\ files' = [files EXCEPT ![k] = ReadValue(table[1])]
\* Nobody looks at what fprintf and fclose return: on a full disk the file
\* stays empty, and is answered SUCCESS like the others.
WritesFile(k) ==
    /\ opened /\ opened' = FALSE
    /\ \/ files' = [files EXCEPT ![k] = ReadValue(table[Index(k)])]
       \/ DiskFails /\ files' = [files EXCEPT ![k] = EmptyFile]

StoreOpens  == job = "store" /\ OpensFile(key)
StoreWrites ==
    /\ job = "store" /\ WritesFile(key)
    /\ recency' = Referenced(key)
    /\ lastStored' = [lastStored EXCEPT ![key] = lastSet[key]]
    /\ answer' = "SUCCESS" /\ job' = "idle" /\ key' = NoKey
    /\ UNCHANGED <<table, biMap, storage, alive, value, retried, todo,
                   storedKeys, spaceUsed, connection, lastSet>>
StoreFails ==
    /\ DiskFails /\ job = "store" /\ ~opened
    /\ answer' = "FAILED" /\ Forgotten(key) /\ job' = "idle" /\ key' = NoKey
    /\ UNCHANGED <<memory, files, alive, value, retried, todo, opened,
                   spaceUsed, connection, history>>

\* handleDump and dump, every row in the order of the table
DumpStarts ==
    /\ Serves /\ table # <<>>
    /\ job' = "dump" /\ todo' = [j \in 1..Len(table) |-> table[j].key]
    /\ UNCHANGED <<memory, files, alive, key, value, retried, opened, record,
                   history>>
DumpGoesOn ==
    /\ todo' = Tail(todo)
    /\ job' = IF Tail(todo) = <<>> THEN "idle" ELSE "dump"
DumpOpens  == job = "dump" /\ OpensFile(Head(todo))
DumpWrites ==
    /\ job = "dump" /\ WritesFile(Head(todo)) /\ DumpGoesOn
    /\ UNCHANGED <<memory, alive, key, value, retried, record, history>>
DumpSkips ==
    /\ DiskFails /\ job = "dump" /\ ~opened /\ DumpGoesOn
    /\ UNCHANGED <<memory, files, alive, key, value, retried, opened, record,
                   history>>

-----------------------------------------------------------------------------
(* Falling and coming back.                                                *)

\* A thread that waits for the space used returns without marking the instancia.
Fall ==
    /\ alive' = FALSE /\ job' = "idle" /\ todo' = <<>> /\ opened' = FALSE
    /\ key' = NoKey /\ value' = NoValue /\ retried' = FALSE
    /\ table' = Initialized.table /\ biMap' = Initialized.biMap
    /\ storage' = Initialized.storage /\ recency' = Initialized.recency
    /\ lastSet' = [k \in Keys |-> NoValue]
    /\ connection' = IF connection = "starting" THEN "lost" ELSE connection
    /\ answer' = "NONE"
    /\ UNCHANGED <<files, storedKeys, spaceUsed, lastStored>>
Falling == Falls /\ alive /\ Fall
\* instanciaExitGracefully
NoticesFall ==
    /\ ~alive /\ connection = "serving"
    /\ connection' = "fallen"
    /\ UNCHANGED <<memory, files, threads, storedKeys, spaceUsed, answer, history>>
\* doSet on an instancia that is believed to be alive adds the key all the same.
SetIsLost(k) ==
    /\ ~alive /\ connection \in {"serving", "lost"}
    /\ AddsKey(k)
    /\ UNCHANGED <<memory, files, threads, spaceUsed, connection, answer, history>>
\* lookForKeyAndRemoveIfInFallenInstancia
AskedWhileFallen(k) ==
    /\ connection = "fallen" /\ Believed(k)
    /\ Forgotten(k)
    /\ UNCHANGED <<memory, files, threads, spaceUsed, connection, answer, history>>
\* instanciaIsBack, and the new process is sent the keys to bring back
ComesBack ==
    /\ connection \in {"fallen", "lost"}
    /\ alive' = TRUE /\ connection' = "starting"
    /\ job' = "recover" /\ todo' = storedKeys
    /\ UNCHANGED <<memory, files, key, value, retried, opened, storedKeys,
                   spaceUsed, answer, history>>
\* getKeyByFile.  A file that is not there, or cannot be opened, is skipped;
\* mmap refuses a file of length 0 and strlen is given its error.
BringsBack ==
    /\ job = "recover" /\ todo # <<>>
    /\ files[Head(todo)] \in Values
    /\ job' = "set" /\ key' = Head(todo) /\ value' = files[Head(todo)]
    /\ UNCHANGED <<memory, files, alive, retried, todo, opened, record, history>>
FindsNoFile ==
    /\ job = "recover" /\ todo # <<>>
    /\ files[Head(todo)] = NoFile \/ DiskFails
    /\ todo' = Tail(todo)
    /\ UNCHANGED <<memory, files, alive, job, key, value, retried, opened,
                   record, history>>
MapsEmptyFile ==
    /\ job = "recover" /\ todo # <<>>
    /\ files[Head(todo)] = EmptyFile
    /\ Fall
Recovered ==
    /\ job = "recover" /\ todo = <<>>
    /\ job' = "idle" /\ spaceUsed' = Used /\ connection' = "serving"
    /\ UNCHANGED <<memory, files, alive, key, value, retried, todo, opened,
                   storedKeys, answer, history>>

SetStep == SetRefused \/ SetUpdates \/ SetPlaces \/ SetEvicts
           \/ SetFindsNoVictim \/ SetNeedsCompact \/ CompactsAndRetries
FileStep == StoreOpens \/ StoreWrites \/ StoreFails
            \/ DumpOpens \/ DumpWrites \/ DumpSkips
RecoveryStep == BringsBack \/ FindsNoFile \/ MapsEmptyFile \/ Recovered
Requests == \/ \E k \in Keys, v \in Values : RequestSet(k, v)
            \/ \E k \in Keys : RequestStore(k) \/ AskedWhileFallen(k) \/ SetIsLost(k)
            \/ DoCompact

Next ==
    /\ SetStep \/ FileStep \/ RecoveryStep \/ Requests \/ DumpStarts
       \/ Falling \/ NoticesFall \/ ComesBack
    /\ UNCHANGED algorithm
Fairness == WF_vars(SetStep /\ UNCHANGED algorithm)
Spec == Init /\ [][Next]_vars
FairSpec == Spec /\ Fairness

-----------------------------------------------------------------------------
(* Properties.                                                             *)

\* The bitmap is what the table says, through sets, updates, evictions and
\* compactions: the extents of the rows lie inside the storage, no two of them
\* overlap, no key has two rows, and the marked entries are theirs.
BitmapIsTable ==
    /\ \A j \in 1..Len(table) : Extent(table[j]) \subseteq Slots
    /\ \A i, j \in 1..Len(table) : i # j =>
          /\ table[i].key # table[j].key
          /\ Extent(table[i]) \intersect Extent(table[j]) = {}
    /\ UsedSlots = UNION {Extent(table[j]) : j \in 1..Len(table)}

\* Every key reads back the value last set, whatever moved or was written
\* around it since.
ValuesIntact ==
    \A j \in 1..Len(table) : /\ table[j].size > 0
                             /\ ReadValue(table[j]) = lastSet[table[j].key]

\* A SET that was refused for lack of contiguous space succeeds after the
\* compaction it asked for: the coordinator is never answered
\* COMPACT_REQUEST, which it would take for a success.
RetryFits == answer # "COMPACT_REQUEST"

\* The coordinator, which chooses by space used, never believes that there is
\* more room than there is (a failed SET may have evicted keys unreported).
SpaceNeverUnderstated == alive /\ job = "idle" => Used <= spaceUsed

\* What a successful STORE put in the file is there, unless a new value came or
\* the file is empty (the process died while it wrote the file again, or the
\* disk was full, which nothing checks): no dump, compaction or recovery writes
\* another key's value or an older one.
StoreIsKept ==
    \A k \in Keys : lastStored[k] # NoValue /\ files[k] # EmptyFile
                        => files[k] = lastStored[k]

\* The loop of getStartEntryToSet ends: it finds a place, finds no victim or
\* asks for a compaction.
SetEnds == job = "set" ~> job # "set"

=============================================================================
