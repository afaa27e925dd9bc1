------------------------------ MODULE KeyLocks ------------------------------
(***************************************************************************)
(* What the planificador promises about keys, without its lists, threads   *)
(* and messages: who holds each key, who waits for it, and the ways in     *)
(* which that may change.  Planificador implements it (ImplementsKeyLocks  *)
(* there), and Deadlock looks for deadlocks in its states.                 *)
(***************************************************************************)
EXTENDS FiniteSets

CONSTANTS
    Esis, Keys,
    Reserved     \* BLOCKED_KEYS: the keys nobody ever gets

ASSUME KeyLocksAssumption == Reserved \subseteq Keys

VARIABLES
    holders,     \* the ESIs that hold each key
    waiting      \* the ESIs that wait for each key

lockVars == <<holders, waiting>>

IsWaiting(e) == \E k \in Keys : e \in waiting[k]
HeldBy(e) == {k \in Keys : e \in holders[k]}

KeyLocksTypeOK ==
    /\ holders \in [Keys -> SUBSET Esis]
    /\ waiting \in [Keys -> SUBSET Esis]

Init ==
    /\ holders = [k \in Keys |-> {}]
    /\ waiting = [k \in Keys |-> {}]

\* A GET of a free key: its own waiters, if any, are passed over.
Acquire(e, k) ==
    /\ ~IsWaiting(e)
    /\ k \notin Reserved /\ holders[k] = {}
    /\ holders' = [holders EXCEPT ![k] = {e}]
    /\ UNCHANGED waiting

\* A GET of a taken key.  It may be free again when the ESI starts to wait.
Wait(e, k) ==
    /\ ~IsWaiting(e)
    /\ waiting' = [waiting EXCEPT ![k] = @ \union {e}]
    /\ UNCHANGED holders

\* The keys of ks are free, and for each of them one waiter, of those there
\* are, is told to try again.
GivesBack(e, ks) ==
    holders' = [k \in Keys |-> IF k \in ks THEN holders[k] \ {e} ELSE holders[k]]
Wakes(ks, leaving) ==
    LET awaited == {k \in ks : waiting[k] # {}}
    IN  \E woken \in [awaited -> Esis] :
            /\ \A k \in awaited : woken[k] \in waiting[k]
            /\ waiting' = [k \in Keys |->
                    waiting[k] \ (leaving \union {woken[j] : j \in awaited \cap {k}})]

ReleaseWhileWaiting(e, ks) ==      \* mistaken variant: whoever holds it may
    /\ ks # {}
    /\ \A k \in ks : holders[k] \subseteq {e} /\ k \notin Reserved
    /\ GivesBack(e, ks)
    /\ Wakes(ks, {})
\* A STORE, or the end of a script, which gives back everything; the key of
\* its last line too, if that was the GET of a free one.
Release(e, ks) ==
    /\ ~IsWaiting(e)
    /\ ks # {}
    /\ \A k \in ks : holders[k] \subseteq {e} /\ k \notin Reserved
    /\ GivesBack(e, ks)
    /\ Wakes(ks, {})

\* The end of an ESI, wherever it comes: it leaves the queues as well.
Leave(e) ==
    /\ GivesBack(e, HeldBy(e))
    /\ Wakes(HeldBy(e), {e})

LockStep(e) ==
    \/ \E k \in Keys : Acquire(e, k) \/ Wait(e, k)
    \/ \E ks \in SUBSET Keys : Release(e, ks)
    \/ Leave(e)

Next == \E e \in Esis : LockStep(e)

Spec == Init /\ [][Next]_lockVars
=============================================================================
