------------------------- MODULE PlanificadorPlaces -------------------------
(* For every set of ESIs and keys, when the operator types neither bloquear  *)
(* nor desbloquear, and nothing at all under SJF-CD: the moves of the ESIs   *)
(* between the ready list, the running slot and the queues (OnePlace), and   *)
(* the refinement of KeyLocks.                                               *)
EXTENDS PlanificadorProofs

-----------------------------------------------------------------------------
(* Queues in which no id occurs twice.                                      *)

NoRepeats(s) == \A i, j \in 1..Len(s) : s[i] = s[j] => i = j

LEMMA RangeIsElements ==
  ASSUME NEW s \in Seq(Esis)
  PROVE  /\ Range(s) = {s[i] : i \in 1..Len(s)}
         /\ Range(s) \subseteq Esis
         /\ Len(s) \in Nat
<1>1. DOMAIN s = 1..Len(s) /\ Len(s) \in Nat
  BY LenProperties
<1>2. \A i \in 1..Len(s) : s[i] \in Esis
  BY ElementOfSeq
<1> QED
  BY <1>1, <1>2 DEF Range

\* queue_push of an id that is not in the queue.
LEMMA AppendOnce ==
  ASSUME NEW s \in Seq(Esis), NEW e \in Esis, NoRepeats(s), e \notin Range(s)
  PROVE  NoRepeats(Append(s, e)) /\ Range(Append(s, e)) = Range(s) \union {e}
<1> DEFINE t == Append(s, e)
<1>1. /\ t \in Seq(Esis) /\ Len(t) = Len(s) + 1 /\ Len(s) \in Nat
      /\ \A i \in 1..Len(s) : t[i] = s[i]
      /\ t[Len(s) + 1] = e
  BY AppendProperties, LenProperties
<1> HIDE DEF t
<1>2. \A i \in 1..Len(s) : s[i] # e
  BY RangeIsElements
<1>3. NoRepeats(t)
  BY <1>1, <1>2 DEF NoRepeats
<1>4. Range(t) = Range(s) \union {e}
  <2>1. Range(t) = {t[i] : i \in 1..Len(t)}
    BY <1>1, RangeIsElements
  <2>2. Range(s) = {s[i] : i \in 1..Len(s)}
    BY RangeIsElements
  <2> QED
    BY <1>1, <2>1, <2>2
<1> QED
  BY <1>3, <1>4 DEF t

\* A queue cut in two.
LEMMA CutOnce ==
  ASSUME NEW s \in Seq(Esis), NoRepeats(s), NEW n \in 0..Len(s)
  PROVE  LET front == SubSeq(s, 1, n)
             back  == SubSeq(s, n + 1, Len(s))
         IN  /\ front \in Seq(Esis) /\ back \in Seq(Esis)
             /\ Len(front) = n /\ Len(back) = Len(s) - n
             /\ NoRepeats(front) /\ NoRepeats(back)
             /\ Range(front) \cap Range(back) = {}
             /\ Range(front) \union Range(back) = Range(s)
             /\ Range(front) = {s[i] : i \in 1..n}
             /\ Range(back) = {s[i] : i \in (n + 1)..Len(s)}
<1> DEFINE front == SubSeq(s, 1, n)
           back  == SubSeq(s, n + 1, Len(s))
<1>1. Len(s) \in Nat /\ n \in Nat /\ \A i \in 1..Len(s) : s[i] \in Esis
  BY LenProperties, ElementOfSeq
<1>2. /\ front \in Seq(Esis) /\ Len(front) = n
      /\ \A i \in 1..n : front[i] = s[i]
  <2>1. \A i \in 1..n : s[i] \in Esis
    BY <1>1
  <2>2. /\ front \in Seq(Esis) /\ Len(front) = IF 1 <= n THEN n - 1 + 1 ELSE 0
        /\ \A i \in 1..(n - 1 + 1) : front[i] = s[1 + i - 1]
    BY <1>1, <2>1, SubSeqProperties
  <2> QED
    BY <1>1, <2>2
<1>3. /\ back \in Seq(Esis) /\ Len(back) = Len(s) - n
      /\ \A i \in 1..(Len(s) - n) : back[i] = s[n + i]
  <2>1. \A i \in (n + 1)..Len(s) : s[i] \in Esis
    BY <1>1
  <2>2. /\ back \in Seq(Esis)
        /\ Len(back) = IF n + 1 <= Len(s) THEN Len(s) - (n + 1) + 1 ELSE 0
        /\ \A i \in 1..(Len(s) - (n + 1) + 1) : back[i] = s[(n + 1) + i - 1]
    BY <1>1, <2>1, SubSeqProperties
  <2> QED
    BY <1>1, <2>2
<1> HIDE DEF front, back
<1>4. NoRepeats(front)
  BY <1>1, <1>2 DEF NoRepeats
<1>5. NoRepeats(back)
  <2> SUFFICES ASSUME NEW i \in 1..Len(back), NEW j \in 1..Len(back),
                      back[i] = back[j]
               PROVE  i = j
    BY DEF NoRepeats
  <2>1. i \in Nat /\ j \in Nat /\ n + i \in 1..Len(s) /\ n + j \in 1..Len(s)
    BY <1>1, <1>3
  <2>2. s[n + i] = s[n + j]
    BY <1>3
  <2>3. n + i = n + j
    BY <2>1, <2>2 DEF NoRepeats
  <2> QED
    BY <1>1, <2>1, <2>3
<1>6. Range(front) = {s[i] : i \in 1..n}
  BY <1>2, RangeIsElements
<1>7. Range(back) = {s[i] : i \in (n + 1)..Len(s)}
  <2>1. Range(back) = {back[i] : i \in 1..(Len(s) - n)}
    BY <1>3, RangeIsElements
  <2>2. \A i \in (n + 1)..Len(s) : i - n \in 1..(Len(s) - n) /\ back[i - n] = s[i]
    BY <1>1, <1>3
  <2>3. \A i \in 1..(Len(s) - n) : n + i \in (n + 1)..Len(s)
    BY <1>1
  <2>4. \A i \in 1..(Len(s) - n) : back[i] \in {s[j] : j \in (n + 1)..Len(s)}
    BY <1>3, <2>3
  <2>5. \A i \in (n + 1)..Len(s) : s[i] \in Range(back)
    BY <2>1, <2>2
  <2> QED
    BY <2>1, <2>4, <2>5
<1>8. Range(s) = {s[i] : i \in 1..Len(s)}
  BY RangeIsElements
<1>9. Range(front) \cap Range(back) = {}
  BY <1>1, <1>6, <1>7 DEF NoRepeats
<1>10. Range(front) \union Range(back) = Range(s)
  BY <1>1, <1>6, <1>7, <1>8
<1> QED
  BY <1>2, <1>3, <1>4, <1>5, <1>6, <1>7, <1>9, <1>10 DEF front, back

\* Two queues with no id in common, one after the other.
LEMMA ConcatOnce ==
  ASSUME NEW s \in Seq(Esis), NEW t \in Seq(Esis), NoRepeats(s), NoRepeats(t),
         Range(s) \cap Range(t) = {}
  PROVE  /\ s \o t \in Seq(Esis) /\ NoRepeats(s \o t)
         /\ Len(s \o t) = Len(s) + Len(t)
         /\ Range(s \o t) = Range(s) \union Range(t)
<1> DEFINE u == s \o t
<1>1. /\ u \in Seq(Esis) /\ Len(u) = Len(s) + Len(t)
      /\ \A i \in 1..(Len(s) + Len(t)) :
            u[i] = IF i <= Len(s) THEN s[i] ELSE t[i - Len(s)]
  BY ConcatProperties
<1> HIDE DEF u
<1>2. /\ Range(s) = {s[i] : i \in 1..Len(s)} /\ Len(s) \in Nat
      /\ Range(t) = {t[i] : i \in 1..Len(t)} /\ Len(t) \in Nat
      /\ Range(u) = {u[i] : i \in 1..Len(u)}
  BY <1>1, RangeIsElements
<1>3. \A i \in 1..Len(s), j \in 1..Len(t) : s[i] # t[j]
  BY <1>2
<1>4. \A i \in 1..Len(s) : i \in 1..Len(u) /\ u[i] = s[i]
  BY <1>1, <1>2
<1>5. \A i \in 1..Len(t) : Len(s) + i \in 1..Len(u) /\ u[Len(s) + i] = t[i]
  <2> SUFFICES ASSUME NEW i \in 1..Len(t)
               PROVE  Len(s) + i \in 1..Len(u) /\ u[Len(s) + i] = t[i]
    OBVIOUS
  <2>1. /\ Len(s) + i \in 1..(Len(s) + Len(t)) /\ ~(Len(s) + i <= Len(s))
        /\ Len(s) + i - Len(s) = i
    BY <1>2
  <2> QED
    BY <1>1, <2>1
<1>6. NoRepeats(u)
  <2> SUFFICES ASSUME NEW i \in 1..Len(u), NEW j \in 1..Len(u), u[i] = u[j]
               PROVE  i = j
    BY DEF NoRepeats
  <2>1. /\ i \in Nat /\ j \in Nat /\ i \in 1..(Len(s) + Len(t))
        /\ j \in 1..(Len(s) + Len(t))
    BY <1>1, <1>2
  <2>2. CASE i <= Len(s) /\ j <= Len(s)
    <3>1. i \in 1..Len(s) /\ j \in 1..Len(s) /\ s[i] = s[j]
      BY <1>1, <1>2, <2>1, <2>2
    <3> QED
      BY <3>1 DEF NoRepeats
  <2>3. CASE i > Len(s) /\ j > Len(s)
    <3>1. /\ i - Len(s) \in 1..Len(t) /\ j - Len(s) \in 1..Len(t)
          /\ t[i - Len(s)] = t[j - Len(s)]
      BY <1>1, <1>2, <2>1, <2>3
    <3>2. i - Len(s) = j - Len(s)
      BY <3>1 DEF NoRepeats
    <3> QED
      BY <1>2, <2>1, <3>2
  <2>4. CASE i <= Len(s) /\ j > Len(s)
    <3>1. i \in 1..Len(s) /\ j - Len(s) \in 1..Len(t) /\ s[i] = t[j - Len(s)]
      BY <1>1, <1>2, <2>1, <2>4
    <3> QED
      BY <1>3, <3>1
  <2>5. CASE i > Len(s) /\ j <= Len(s)
    <3>1. j \in 1..Len(s) /\ i - Len(s) \in 1..Len(t) /\ s[j] = t[i - Len(s)]
      BY <1>1, <1>2, <2>1, <2>5
    <3> QED
      BY <1>3, <3>1
  <2> QED
    BY <1>2, <2>1, <2>2, <2>3, <2>4, <2>5
<1>7. Range(u) \subseteq Range(s) \union Range(t)
  <2> SUFFICES ASSUME NEW i \in 1..Len(u) PROVE u[i] \in Range(s) \union Range(t)
    BY <1>2
  <2>1. CASE i <= Len(s)
    BY <1>1, <1>2, <2>1
  <2>2. CASE i > Len(s)
    <3>1. i - Len(s) \in 1..Len(t) /\ u[i] = t[i - Len(s)]
      BY <1>1, <1>2, <2>2
    <3> QED
      BY <1>2, <3>1
  <2> QED
    BY <1>1, <1>2, <2>1, <2>2
<1>8. Range(s) \union Range(t) \subseteq Range(u)
  BY <1>2, <1>4, <1>5
<1> QED
  BY <1>1, <1>6, <1>7, <1>8 DEF u

\* Dropping an id that occurs once: it is gone, and nothing else is.
LEMMA RemoveFirstOnce ==
  ASSUME NEW s \in Seq(Esis), NEW e, NoRepeats(s)
  PROVE  LET t == RemoveFirst(s, e)
         IN  /\ t \in Seq(Esis) /\ NoRepeats(t)
             /\ Range(t) = Range(s) \ {e}
             /\ e \notin Range(s) => t = s
<1> DEFINE i == SelectInSeq(s, LAMBDA v : v = e)
           I == {j \in 1..Len(s) : s[j] = e}
<1>1. Len(s) \in Nat /\ Range(s) = {s[j] : j \in 1..Len(s)}
  BY RangeIsElements
<1>2. CASE I = {}
  <2>1. e \notin Range(s)
    BY <1>1, <1>2
  <2>2. RemoveFirst(s, e) = s
    BY <1>1, <1>2 DEF RemoveFirst
  <2> QED
    BY <2>1, <2>2
<1>3. CASE I # {}
  <2>1. i = Min(I)
    BY <1>3 DEF SelectInSeq
  <2>2. i \in I
    <3>1. I \in SUBSET Nat
      BY <1>1
    <3> HIDE DEF I, i
    <3>2. \E x \in I : \A y \in I : x <= y
      BY <1>3, <3>1, LeastNatural
    <3> QED
      BY <3>2, <2>1 DEF Min
  <2>3. i \in 1..Len(s) /\ s[i] = e
    BY <2>2
  <2>4. RemoveFirst(s, e) = SubSeq(s, 1, i - 1) \o SubSeq(s, i + 1, Len(s))
    BY <1>3 DEF RemoveFirst, RemoveAt
  <2> HIDE DEF i
  <2> DEFINE front == SubSeq(s, 1, i - 1)
             back  == SubSeq(s, i + 1, Len(s))
  <2>5. i - 1 \in 0..Len(s) /\ i \in 0..Len(s) /\ (i - 1) + 1 = i
    BY <1>1, <2>3
  <2>6. /\ front \in Seq(Esis) /\ NoRepeats(front)
        /\ Range(front) = {s[j] : j \in 1..(i - 1)}
    BY <2>5, CutOnce
  <2>7. /\ back \in Seq(Esis) /\ NoRepeats(back)
        /\ Range(back) = {s[j] : j \in (i + 1)..Len(s)}
    BY <2>5, CutOnce
  <2> HIDE DEF front, back
  <2>8. Range(front) \cap Range(back) = {}
    BY <1>1, <2>3, <2>6, <2>7 DEF NoRepeats
  <2>9. /\ front \o back \in Seq(Esis) /\ NoRepeats(front \o back)
        /\ Range(front \o back) = Range(front) \union Range(back)
    BY <2>6, <2>7, <2>8, ConcatOnce
  <2>10. Range(front) \union Range(back) = Range(s) \ {e}
    <3>1. \A j \in 1..Len(s) : s[j] = e => j = i
      BY <2>3 DEF NoRepeats
    <3>2. /\ \A j \in 1..(i - 1) : j \in 1..Len(s) /\ j # i
          /\ \A j \in (i + 1)..Len(s) : j \in 1..Len(s) /\ j # i
          /\ \A j \in 1..Len(s) : j = i \/ j \in 1..(i - 1) \/ j \in (i + 1)..Len(s)
      BY <1>1, <2>3
    <3>3. Range(front) \subseteq Range(s) \ {e}
      BY <1>1, <2>6, <3>1, <3>2
    <3>4. Range(back) \subseteq Range(s) \ {e}
      BY <1>1, <2>7, <3>1, <3>2
    <3>5. Range(s) \ {e} \subseteq Range(front) \union Range(back)
      <4> SUFFICES ASSUME NEW j \in 1..Len(s), s[j] # e
                   PROVE  s[j] \in Range(front) \union Range(back)
        BY <1>1
      <4>1. j # i
        BY <2>3
      <4> QED
        BY <2>6, <2>7, <3>2, <4>1
    <3> QED
      BY <3>3, <3>4, <3>5
  <2>11. e \in Range(s)
    BY <1>1, <2>3
  <2> QED
    BY <2>4, <2>9, <2>10, <2>11 DEF front, back
<1> QED
  BY <1>2, <1>3

\* The sweep of a queue takes out the id it looks for, wherever it stands.
LEMMA SweptOnce ==
  ASSUME NEW q \in Seq(Esis), NEW e, NoRepeats(q)
  PROVE  /\ Swept(q, e) \in Seq(Esis) /\ NoRepeats(Swept(q, e))
         /\ Range(Swept(q, e)) = Range(q) \ {e}
<1> DEFINE n == SweepLength(q, e)
           front == SubSeq(q, 1, n)
           back  == SubSeq(q, n + 1, Len(q))
           rest  == RemoveTwice(front, e)
<1>1. Len(q) \in Nat /\ n \in 0..Len(q) /\ SweepEnds(q, e, n)
  BY LenProperties, SweepLengthType
<1>2. n >= Len(rest) + Len(q) - n
  BY <1>1 DEF SweepEnds
<1>3. Swept(q, e) = back \o rest
  BY DEF Swept
<1> HIDE DEF n
<1>4. /\ front \in Seq(Esis) /\ back \in Seq(Esis)
      /\ Len(front) = n /\ Len(back) = Len(q) - n
      /\ NoRepeats(front) /\ NoRepeats(back)
      /\ Range(front) \cap Range(back) = {}
      /\ Range(front) \union Range(back) = Range(q)
      /\ Range(back) = {q[i] : i \in (n + 1)..Len(q)}
  BY <1>1, CutOnce
<1> HIDE DEF front, back
<1>5. /\ rest \in Seq(Esis) /\ NoRepeats(rest)
      /\ Range(rest) = Range(front) \ {e}
      /\ e \notin Range(front) => rest = front
  <2> DEFINE once == RemoveFirst(front, e)
  <2>1. /\ once \in Seq(Esis) /\ NoRepeats(once)
        /\ Range(once) = Range(front) \ {e}
        /\ e \notin Range(front) => once = front
    BY <1>4, RemoveFirstOnce
  <2> HIDE DEF once
  <2>2. /\ RemoveFirst(once, e) \in Seq(Esis) /\ NoRepeats(RemoveFirst(once, e))
        /\ Range(RemoveFirst(once, e)) = Range(once) \ {e}
        /\ e \notin Range(once) => RemoveFirst(once, e) = once
    BY <2>1, RemoveFirstOnce
  <2>3. rest = RemoveFirst(once, e)
    BY DEF RemoveTwice, once
  <2> QED
    BY <2>1, <2>2, <2>3
<1> HIDE DEF rest
<1>6. e \notin Range(back)
  <2> SUFFICES ASSUME e \in Range(back) PROVE FALSE
    OBVIOUS
  <2>1. rest = front
    BY <1>4, <1>5
  <2>2. n = Len(q)
    BY <1>1, <1>2, <1>4, <2>1
  <2> QED
    BY <1>1, <1>4, <2>2
<1>7. /\ back \o rest \in Seq(Esis) /\ NoRepeats(back \o rest)
      /\ Range(back \o rest) = Range(back) \union Range(rest)
  BY <1>4, <1>5, ConcatOnce
<1> QED
  BY <1>3, <1>4, <1>5, <1>6, <1>7

-----------------------------------------------------------------------------
(* The inductive invariant.                                                 *)

Waiters(k) == Range(queue[k])
Placed(e)  == ready[e] > 0 \/ running = e \/ \E k \in Keys : e \in Waiters(k)

\* An ESI is in one place at most, and there once.
ReadyOnce ==
    \A e \in Esis : ready[e] <= 1 /\ (ready[e] > 0 => running # e)
QueuedOnce ==
    /\ \A k \in Keys : NoRepeats(queue[k])
    /\ \A k, l \in Keys : Waiters(k) \cap Waiters(l) # {} => k = l
QueuedIsIdle ==
    \A k \in Keys : \A e \in Waiters(k) : ready[e] = 0 /\ running # e

\* Only ESIs of the system that have not finished have a place, and all those
\* that are alive have one; an aborted one exits before its outcome is read.
PlacedIsPresent ==
    \A e \in Esis : Placed(e) => e \in system \ finished /\ phase[e] # "absent"
AliveIsPlaced == \A e \in Esis : Alive(e) => Placed(e)
AbortedHaveExited ==
    \A e \in Esis : info[e].response = "ABORT" => phase[e] = "exited"

\* The ESI that abortEsi takes off the CPU last stays on it until then.
DyingRuns == main \in {"abort_drain", "abort_set", "abort_end"} => running = dying

\* deleteEsiFromSystem sweeps the queues of allSystemKeys: there are no others.
AwaitedIsKnown ==
    /\ taken \subseteq allKeys
    /\ \A k \in Keys : queue[k] # <<>> => k \in allKeys
    /\ \A e \in Esis :
          /\ phase[e] = "told" /\ status[e] = "BLOCKED" => keyRecieved \in allKeys
          /\ info[e].response = "BLOCK" => keyRecieved \in allKeys

\* The keys of the configuration stay taken and nobody gets them.
ConfigIsKept ==
    \A k \in ConfigKeys : k \in taken /\ \A e \in Esis : locked[e][k] = 0

PlacesAreRight ==
    /\ ReadyOnce /\ QueuedOnce /\ QueuedIsIdle
    /\ PlacedIsPresent /\ AliveIsPlaced
PlaceInv ==
    /\ PlacesAreRight /\ AbortedHaveExited /\ DyingRuns
    /\ AwaitedIsKnown /\ ConfigIsKept

-----------------------------------------------------------------------------
(* Waking and sweeping.                                                     *)

\* The ESIs that a release wakes: the first of each queue.
Woken(times) ==
    {Head(queue[k]) : k \in {x \in Keys : times[x] > 0 /\ queue[x] # <<>>}}

\* unlockEsi moves the first of each queue to the ready list, and nobody else.
LEMMA WakesFirst ==
  ASSUME TypeInv, ReadyOnce, QueuedOnce, QueuedIsIdle,
         NEW times \in [Keys -> Nat], \A k \in Keys : times[k] <= 1
  PROVE  /\ \A k \in Keys :
              /\ QueueAfter(times)[k] \in Seq(Esis)
              /\ NoRepeats(QueueAfter(times)[k])
              /\ Range(QueueAfter(times)[k]) = Waiters(k) \ Woken(times)
              /\ QueueAfter(times)[k] # <<>> => queue[k] # <<>>
         /\ ReadyAfter(times) \in [Esis -> Nat]
         /\ \A e \in Esis :
              ReadyAfter(times)[e] = IF e \in Woken(times) THEN 1 ELSE ready[e]
         /\ \A e \in Woken(times) : \E k \in Keys : e \in Waiters(k)
<1> DEFINE W == Woken(times)
<1>1. queue \in [Keys -> Seq(Esis)] /\ ready \in [Esis -> Nat]
  BY DEF TypeInv, TypeOK, TablesTypeOK
<1>2. ASSUME NEW k \in Keys
      PROVE  /\ Len(queue[k]) \in Nat /\ times[k] \in {0, 1}
             /\ Waiters(k) = {queue[k][i] : i \in 1..Len(queue[k])}
             /\ queue[k] # <<>> => Head(queue[k]) = queue[k][1] /\ 1 \in 1..Len(queue[k])
             /\ queue[k] = <<>> => Len(queue[k]) = 0
  <2>1. queue[k] \in Seq(Esis)
    BY <1>1
  <2>2. times[k] \in Nat /\ times[k] <= 1
    OBVIOUS
  <2>3. times[k] \in {0, 1}
    BY <2>2
  <2>4. Waiters(k) = {queue[k][i] : i \in 1..Len(queue[k])} /\ Len(queue[k]) \in Nat
    BY <2>1, RangeIsElements DEF Waiters
  <2>5. queue[k] # <<>> => Head(queue[k]) = queue[k][1] /\ 1 \in 1..Len(queue[k])
    BY <2>1
  <2> QED
    BY <2>3, <2>4, <2>5
<1>3. ASSUME NEW e \in W
      PROVE  \E k \in Keys : times[k] = 1 /\ queue[k] # <<>> /\ e = queue[k][1]
                             /\ e \in Waiters(k)
  BY <1>2 DEF Woken
<1>4. ASSUME NEW k \in Keys, times[k] > 0, queue[k] # <<>>
      PROVE  queue[k][1] \in W
  BY <1>2, <1>4 DEF Woken
<1> HIDE DEF W
<1>5. ASSUME NEW k \in Keys
      PROVE  /\ QueueAfter(times)[k] \in Seq(Esis)
             /\ NoRepeats(QueueAfter(times)[k])
             /\ Range(QueueAfter(times)[k]) = Waiters(k) \ W
             /\ QueueAfter(times)[k] # <<>> => queue[k] # <<>>
  <2>1. NoRepeats(queue[k]) /\ queue[k] \in Seq(Esis)
    BY <1>1 DEF QueuedOnce
  <2>2. \A e \in W \cap Waiters(k) : times[k] = 1 /\ queue[k] # <<>> /\ e = queue[k][1]
    BY <1>3 DEF QueuedOnce
  <2>3. CASE queue[k] = <<>>
    <3>1. QueueAfter(times)[k] = <<>>
      <4>1. CASE times[k] = 0
        <5>1. QueueAfter(times)[k] = SubSeq(queue[k], 1, 0)
          BY <1>2, <2>3, <4>1 DEF QueueAfter
        <5> QED
          BY <2>3, <5>1
      <4>2. CASE times[k] = 1
        BY <1>2, <2>3, <4>2 DEF QueueAfter
      <4> QED
        BY <1>2, <4>1, <4>2
    <3>2. Waiters(k) = {}
      BY <1>2, <2>3
    <3> QED
      BY <2>1, <2>3, <3>1, <3>2 DEF Waiters
  <2>4. CASE queue[k] # <<>> /\ times[k] = 0
    <3>1. QueueAfter(times)[k] = SubSeq(queue[k], 1, Len(queue[k]))
      BY <1>2, <2>4 DEF QueueAfter
    <3>2. SubSeq(queue[k], 1, Len(queue[k])) = queue[k]
      BY <2>1
    <3>3. W \cap Waiters(k) = {}
      BY <2>2, <2>4
    <3> QED
      BY <2>1, <2>4, <3>1, <3>2, <3>3 DEF Waiters
  <2>5. CASE queue[k] # <<>> /\ times[k] = 1
    <3> DEFINE back == SubSeq(queue[k], 2, Len(queue[k]))
    <3>1. QueueAfter(times)[k] = back
      BY <1>2, <2>5 DEF QueueAfter
    <3>2. 1 \in 0..Len(queue[k]) /\ 1 + 1 = 2
      BY <1>2, <2>5
    <3>3. /\ back \in Seq(Esis) /\ NoRepeats(back)
          /\ Range(back) = {queue[k][i] : i \in 2..Len(queue[k])}
      BY <2>1, <3>2, CutOnce
    <3> HIDE DEF back
    <3>4. W \cap Waiters(k) = {queue[k][1]}
      BY <1>2, <1>4, <2>2, <2>5
    <3>5. \A i \in 2..Len(queue[k]) : i \in 1..Len(queue[k]) /\ queue[k][i] # queue[k][1]
      BY <1>2, <2>1, <2>5 DEF NoRepeats
    <3>6. \A i \in 1..Len(queue[k]) : i = 1 \/ i \in 2..Len(queue[k])
      BY <1>2
    <3>7. Range(back) = Waiters(k) \ {queue[k][1]}
      <4>1. Range(back) \subseteq Waiters(k) \ {queue[k][1]}
        BY <1>2, <3>3, <3>5
      <4>2. Waiters(k) \ {queue[k][1]} \subseteq Range(back)
        BY <1>2, <3>3, <3>6
      <4> QED
        BY <4>1, <4>2
    <3> QED
      BY <2>5, <3>1, <3>3, <3>4, <3>7
  <2> QED
    BY <1>2, <2>3, <2>4, <2>5
<1>6. ReadyAfter(times) \in [Esis -> Nat]
  BY ReadyAfterType DEF TypeInv, TypeOK
<1>7. ASSUME NEW e \in Esis
      PROVE  ReadyAfter(times)[e] = IF e \in W THEN 1 ELSE ready[e]
  <2> DEFINE P == {p \in Popped(times) : queue[p[1]][p[2]] = e}
  <2>1. ReadyAfter(times)[e] = ready[e] + Cardinality(P)
    BY DEF ReadyAfter
  <2>2. \A p : p \in Popped(times) <=>
           \E k \in Keys : times[k] = 1 /\ queue[k] # <<>> /\ p = <<k, 1>>
    <3>1. ASSUME NEW p, p \in Popped(times)
          PROVE  \E k \in Keys : times[k] = 1 /\ queue[k] # <<>> /\ p = <<k, 1>>
      <4>1. PICK k \in Keys :
                \E i \in 1..Len(queue[k]) : i <= times[k] /\ p = <<k, i>>
        BY <3>1 DEF Popped
      <4>2. times[k] = 1 /\ p = <<k, 1>> /\ 1 \in 1..Len(queue[k])
        BY <1>2, <4>1
      <4> QED
        BY <1>2, <4>1, <4>2
    <3>2. ASSUME NEW k \in Keys, times[k] = 1, queue[k] # <<>>
          PROVE  <<k, 1>> \in Popped(times)
      <4>1. 1 \in {j \in 1..Len(queue[k]) : j <= times[k]}
        BY <1>2, <3>2
      <4> QED
        BY <4>1 DEF Popped
    <3> QED
      BY <3>1, <3>2
  <2>3. CASE e \in W
    <3>1. PICK k \in Keys : times[k] = 1 /\ queue[k] # <<>> /\ e = queue[k][1]
                            /\ e \in Waiters(k)
      BY <1>3, <2>3
    <3>2. ASSUME NEW l \in Keys, queue[l] # <<>>, queue[l][1] = e PROVE l = k
      <4>1. e \in Waiters(l)
        BY <1>2, <3>2
      <4> QED
        BY <3>1, <4>1 DEF QueuedOnce
    <3>3. P = {<<k, 1>>}
      <4>1. <<k, 1>> \in P
        BY <2>2, <3>1
      <4>2. ASSUME NEW p \in P PROVE p = <<k, 1>>
        <5>1. PICK l \in Keys : times[l] = 1 /\ queue[l] # <<>> /\ p = <<l, 1>>
          BY <2>2
        <5>2. queue[l][1] = e
          BY <5>1
        <5> QED
          BY <3>2, <5>1, <5>2
      <4> QED
        BY <4>1, <4>2
    <3>4. Cardinality(P) = 1
      BY <3>3, FS_Singleton
    <3>5. ready[e] = 0
      BY <3>1 DEF QueuedIsIdle
    <3> QED
      BY <2>1, <2>3, <3>4, <3>5
  <2>4. CASE e \notin W
    <3>1. P = {}
      <4> SUFFICES ASSUME NEW p \in P PROVE FALSE
        OBVIOUS
      <4>1. PICK l \in Keys : times[l] = 1 /\ queue[l] # <<>> /\ p = <<l, 1>>
        BY <2>2
      <4>2. queue[l][1] = e
        BY <4>1
      <4> QED
        BY <1>4, <2>4, <4>1, <4>2
    <3>2. Cardinality(P) = 0
      BY <3>1, FS_EmptySet
    <3> QED
      BY <1>1, <2>1, <2>4, <3>2
  <2> QED
    BY <2>3, <2>4
<1>8. \A e \in W : \E k \in Keys : e \in Waiters(k)
  BY <1>3
<1> QED
  BY <1>5, <1>6, <1>7, <1>8 DEF W

\* deleteEsiFromSystem takes an id out of every queue.
LEMMA SweepsAll ==
  ASSUME NEW queues \in [Keys -> Seq(Esis)], NEW e,
         \A k \in Keys : /\ NoRepeats(queues[k])
                         /\ queues[k] # <<>> => k \in allKeys
  PROVE  \A k \in Keys :
            /\ NoRepeats(SweepQueues(queues, e)[k])
            /\ Range(SweepQueues(queues, e)[k]) = Range(queues[k]) \ {e}
            /\ SweepQueues(queues, e)[k] # <<>> => k \in allKeys
<1> SUFFICES ASSUME NEW k \in Keys
             PROVE  /\ NoRepeats(SweepQueues(queues, e)[k])
                    /\ Range(SweepQueues(queues, e)[k]) = Range(queues[k]) \ {e}
                    /\ SweepQueues(queues, e)[k] # <<>> => k \in allKeys
  OBVIOUS
<1>1. queues[k] \in Seq(Esis) /\ NoRepeats(queues[k])
  OBVIOUS
<1>2. CASE k \in allKeys
  <2>1. SweepQueues(queues, e)[k] = Swept(queues[k], e)
    BY <1>2 DEF SweepQueues
  <2> QED
    BY <1>1, <1>2, <2>1, SweptOnce
<1>3. CASE k \notin allKeys
  <2>1. SweepQueues(queues, e)[k] = queues[k] /\ queues[k] = <<>>
    BY <1>3 DEF SweepQueues
  <2>2. Range(queues[k]) = {}
    BY <2>1 DEF Range
  <2> QED
    BY <1>1, <2>1, <2>2
<1> QED
  BY <1>2, <1>3

-----------------------------------------------------------------------------
(* Steps that wake the ESIs of W, take those of G away and move no other.   *)

LEMMA MovedPlaces ==
  ASSUME TypeInv, PlacesAreRight, NEW W, NEW G,
         \A e \in W : \E k \in Keys : e \in Waiters(k),
         \A k \in Keys : /\ NoRepeats(queue'[k])
                         /\ Range(queue'[k]) = Waiters(k) \ (W \union G),
         \A e \in Esis : ready'[e] = IF e \in G THEN 0
                                     ELSE IF e \in W THEN 1 ELSE ready[e],
         running' = IF running \in G THEN NoEsi ELSE running,
         \A e \in Esis \ G : e \in system \ finished => e \in system' \ finished',
         \A e \in Esis : phase[e] # "absent" => phase'[e] # "absent",
         \A e \in Esis : Alive(e)' => Alive(e) /\ e \notin G
  PROVE  PlacesAreRight'
<1> USE DEF PlacesAreRight
<1>1. /\ ready \in [Esis -> Nat] /\ running \in Esis \union {NoEsi}
      /\ NoEsi \notin Esis /\ queue \in [Keys -> Seq(Esis)]
  BY PlanificadorAssumption DEF TypeInv, TypeOK, TablesTypeOK
<1>2. \A e \in W : ready[e] = 0 /\ running # e
  BY DEF QueuedIsIdle
<1>3. ReadyOnce'
  BY <1>1, <1>2 DEF ReadyOnce
<1>4. QueuedOnce'
  <2>1. \A k \in Keys : Waiters(k)' \subseteq Waiters(k)
    BY DEF Waiters
  <2>2. \A k, l \in Keys : Waiters(k)' \cap Waiters(l)' # {} => k = l
    BY <2>1 DEF QueuedOnce
  <2>3. \A k \in Keys : NoRepeats(queue[k])'
    BY DEF NoRepeats
  <2> QED
    BY <2>2, <2>3 DEF QueuedOnce
<1>5. QueuedIsIdle'
  <2> SUFFICES ASSUME NEW k \in Keys, NEW e \in Waiters(k)'
               PROVE  ready'[e] = 0 /\ running' # e
    BY DEF QueuedIsIdle
  <2>1. e \in Waiters(k) /\ e \notin W /\ e \notin G
    BY DEF Waiters
  <2>2. e \in Esis
    BY <1>1, <2>1, RangeIsElements DEF Waiters
  <2>3. ready[e] = 0 /\ running # e
    BY <2>1 DEF QueuedIsIdle
  <2> QED
    BY <1>1, <2>1, <2>2, <2>3
<1>6. ASSUME NEW e \in Esis, Placed(e)' PROVE Placed(e) /\ e \notin G
  <2>1. CASE ready'[e] > 0
    <3>1. e \notin G /\ (e \in W \/ ready[e] > 0)
      BY <1>1, <2>1
    <3> QED
      BY <3>1 DEF Placed
  <2>2. CASE running' = e
    BY <1>1, <2>2 DEF Placed
  <2>3. CASE \E k \in Keys : e \in Waiters(k)'
    BY <2>3 DEF Placed, Waiters
  <2> QED
    BY <1>6, <2>1, <2>2, <2>3 DEF Placed
<1>7. PlacedIsPresent'
  <2> SUFFICES ASSUME NEW e \in Esis, Placed(e)'
               PROVE  e \in system' \ finished' /\ phase'[e] # "absent"
    BY DEF PlacedIsPresent
  <2>1. Placed(e) /\ e \notin G
    BY <1>6
  <2> QED
    BY <2>1 DEF PlacedIsPresent
<1>8. ASSUME NEW e \in Esis, Alive(e)' PROVE Placed(e)'
  <2>1. Placed(e) /\ e \notin G
    BY <1>8 DEF AliveIsPlaced
  <2>2. CASE ready[e] > 0
    <3>1. ready'[e] = ready[e]
      BY <1>2, <2>1, <2>2
    <3> QED
      BY <2>2, <3>1 DEF Placed
  <2>3. CASE running = e
    BY <2>1, <2>3 DEF Placed
  <2>4. CASE e \in W
    BY <2>1, <2>4 DEF Placed
  <2>5. CASE e \notin W /\ \E k \in Keys : e \in Waiters(k)
    BY <2>1, <2>5 DEF Placed, Waiters
  <2> QED
    BY <2>1, <2>2, <2>3, <2>4, <2>5 DEF Placed
<1> QED
  BY <1>3, <1>4, <1>5, <1>7, <1>8 DEF AliveIsPlaced

\* A step that moves nobody.
LEMMA QuietPlaces ==
  ASSUME TypeInv, PlacesAreRight,
         UNCHANGED <<queue, ready, running, system, finished>>,
         \A e \in Esis : phase[e] # "absent" => phase'[e] # "absent",
         \A e \in Esis : Alive(e)' => Alive(e)
  PROVE  PlacesAreRight'
<1>1. ReadyOnce' /\ QueuedOnce' /\ QueuedIsIdle'
  BY DEF PlacesAreRight, ReadyOnce, QueuedOnce, QueuedIsIdle, Waiters
<1>2. PlacedIsPresent' /\ AliveIsPlaced'
  BY DEF PlacesAreRight, PlacedIsPresent, AliveIsPlaced, Placed, Waiters
<1> QED
  BY <1>1, <1>2 DEF PlacesAreRight

\* A step that leaves the tables and the ESIs' answers alone.
LEMMA IdlePlaces ==
  ASSUME TypeInv, PlaceInv,
         UNCHANGED <<system, ready, running, finished, queue, allKeys, taken,
                     locked, phase, status, info, keyRecieved>>,
         main' \in {"abort_drain", "abort_set", "abort_end"} =>
            main \in {"abort_drain", "abort_set", "abort_end"} /\ dying' = dying
  PROVE  PlaceInv'
<1>1. PlacesAreRight'
  BY QuietPlaces DEF PlaceInv, Alive
<1>2. AbortedHaveExited' /\ AwaitedIsKnown' /\ ConfigIsKept'
  BY DEF PlaceInv, AbortedHaveExited, AwaitedIsKnown, ConfigIsKept
<1>3. DyingRuns'
  BY DEF PlaceInv, DyingRuns
<1> QED
  BY <1>1, <1>2, <1>3 DEF PlaceInv

-----------------------------------------------------------------------------
(* The threads.                                                             *)

\* What the theorems of this module need: of the commands only bloquear and
\* desbloquear move ESIs; but under SJF-CD whatever is typed makes the console
\* thread call executeInstruccion, which may take the CPU from an ESI at the very
\* end of its abort.
NothingIsMoved ==
    /\ NeverTyped("bloquear") /\ NeverTyped("desbloquear")
    /\ Preemptive => Commands = {}

LEMMA OperatorIsHarmless ==
  ASSUME NothingIsMoved
  PROVE  AbortsAreSafe /\ NeverTyped("desbloquear")
BY DEF NothingIsMoved, AbortsAreSafe, NeverTyped

\* The other commands move nothing.
LEMMA CommandMovesNothing ==
  ASSUME NothingIsMoved, TypeInv, ConsoleExecutes \/ DrainCommand
  PROVE  UNCHANGED <<system, ready, running, finished, queue, allKeys, taken,
                     locked, main, dying, phase, status, info, keyRecieved>>
<1>1. UNCHANGED <<main, dying, phase, status, info, keyRecieved>>
  BY DEF ConsoleExecutes, DrainCommand, Crash, messages, esiVars
<1>2. ASSUME NEW c \in Commands, Execute(c)
      PROVE  UNCHANGED <<system, ready, running, finished, queue, allKeys,
                         taken, locked>>
  BY <1>2 DEF NothingIsMoved, NeverTyped, Execute, ExecutePausar, ExecuteBloquear,
              ExecuteDesbloquear, ExecuteListar, ExecuteKill, ExecuteStatus
<1>3. UNCHANGED <<system, ready, running, finished, queue, allKeys, taken,
                  locked>>
  <2>1. CASE Crash \/ Skip
    BY <2>1 DEF Crash, Skip, tables
  <2>2. CASE ConsoleExecutes /\ ~Crash
    <3>1. typed \in Commands /\ Execute(typed)
      BY <2>2 DEF ConsoleExecutes, TypeInv, TypedIsReal
    <3> QED
      BY <1>2, <3>1
  <2>3. CASE DrainCommand /\ ~Crash /\ ~Skip
    <3>1. /\ pending # <<>> /\ pending \in Seq(Commands)
          /\ Execute(Head(pending))
      BY <2>3 DEF DrainCommand, TypeInv, TypeOK, ThreadsTypeOK
    <3>2. Head(pending) \in Commands
      BY <3>1
    <3> QED
      BY <1>2, <3>1, <3>2
  <2> QED
    BY <2>1, <2>2, <2>3
<1> QED
  BY <1>1, <1>3

LEMMA CommandPlaces ==
  ASSUME NothingIsMoved, TypeInv, PlaceInv, ConsoleExecutes \/ DrainCommand
  PROVE  PlaceInv'
<1>1. UNCHANGED <<system, ready, running, finished, queue, allKeys, taken,
                  locked, main, dying, phase, status, info, keyRecieved>>
  BY CommandMovesNothing
<1> QED
  BY <1>1, IdlePlaces

\* executeInstruccion moves a ready ESI to the CPU, and back to the ready list the
\* one it takes it from.
LEMMA SchedulePlaces ==
  ASSUME NothingIsMoved, TypeInv, OrderInv, PlaceInv, MainSchedules \/ ConsoleKicks
  PROVE  PlaceInv'
<1>1. /\ ExecuteInstruccion /\ main' \in {main, "select"}
      /\ UNCHANGED <<system, finished, queue, allKeys, taken, locked, dying,
                     phase, status, info, keyRecieved>>
  BY DEF MainSchedules, ConsoleKicks, ExecuteInstruccion, messages
<1>2. CASE UNCHANGED <<ready, running>>
  BY <1>1, <1>2, IdlePlaces DEF PlaceInv
<1>3. CASE DispatchNext \/ DislodgeRunning
  <2>0. ready \in [Esis -> Nat] /\ running \in Esis \union {NoEsi} /\ NoEsi \notin Esis
    BY PlanificadorAssumption DEF TypeInv, TypeOK, TablesTypeOK
  <2>1. PICK e \in Esis :
          /\ e \in system /\ ready[e] > 0 /\ running' = e
          /\ \/ running = NoEsi /\ ready' = [ready EXCEPT ![e] = @ - 1]
             \/ /\ running \in Esis \ {e} /\ Preemptive
                /\ ready' = [ready EXCEPT ![running] = @ + 1, ![e] = @ - 1]
    BY <1>3, <2>0 DEF DispatchNext, DislodgeRunning, OrderToRun, TypeInv, TypeOK,
                      TablesTypeOK
  <2>2. \A f \in Esis : ready[f] \in 0..1 /\ (ready[f] > 0 => running # f)
    BY <2>0 DEF PlaceInv, PlacesAreRight, ReadyOnce
  <2>3. /\ ready[e] = 1 /\ ready'[e] = 0 /\ running # e
        /\ running \in Esis => ready[running] = 0 /\ ready'[running] = 1
        /\ \A f \in Esis \ {e, running} : ready'[f] = ready[f]
    BY <2>0, <2>1, <2>2
  <2>4. \A k \in Keys : e \notin Waiters(k) /\ running \notin Waiters(k)
    BY <2>3 DEF PlaceInv, PlacesAreRight, QueuedIsIdle
  <2>5. ReadyOnce' /\ QueuedOnce' /\ QueuedIsIdle'
    <3>1. ReadyOnce'
      BY <2>1, <2>2, <2>3 DEF ReadyOnce
    <3>2. QueuedOnce'
      BY <1>1 DEF PlaceInv, PlacesAreRight, QueuedOnce, Waiters
    <3>3. \A k \in Keys : \A f \in Waiters(k) : f \in Esis
      BY RangeIsElements DEF Waiters, TypeInv, TypeOK, TablesTypeOK
    <3>4. QueuedIsIdle'
      BY <1>1, <2>1, <2>3, <2>4, <3>3
         DEF PlaceInv, PlacesAreRight, QueuedIsIdle, Waiters
    <3> QED
      BY <3>1, <3>2, <3>4
  <2>6. \A f \in Esis : Placed(f)' <=> Placed(f)
    <3>1. \A f \in {e, running} : f \in Esis => Placed(f) /\ Placed(f)'
      BY <2>1, <2>3 DEF Placed
    <3>2. \A f \in Esis \ {e, running} : Placed(f)' <=> Placed(f)
      BY <1>1, <2>1, <2>3 DEF Placed, Waiters
    <3> QED
      BY <3>1, <3>2
  <2>7. PlacesAreRight'
    BY <1>1, <2>5, <2>6
       DEF PlaceInv, PlacesAreRight, PlacedIsPresent, AliveIsPlaced, Alive
  <2>8. AbortedHaveExited' /\ AwaitedIsKnown' /\ ConfigIsKept'
    BY <1>1 DEF PlaceInv, AbortedHaveExited, AwaitedIsKnown, ConfigIsKept
  <2>9. DyingRuns'
    <3>1. CASE MainSchedules
      BY <3>1 DEF MainSchedules, DyingRuns
    <3>2. CASE ConsoleKicks
      <4>1. ~Preemptive
        BY <3>2 DEF ConsoleKicks, NothingIsMoved, TypeInv, TypedIsReal
      <4> QED
        BY <1>1, <2>0, <2>1, <4>1 DEF PlaceInv, DyingRuns, OrderInv, AbortingIsOver
    <3> QED
      BY <3>1, <3>2
  <2> QED
    BY <2>7, <2>8, <2>9 DEF PlaceInv
<1> QED
  BY <1>1, <1>2, <1>3 DEF ExecuteInstruccion, NothingToRun, ContinueRunning, OrderToRun

-----------------------------------------------------------------------------
(* The handlers of the select loop.                                         *)

\* welcomeEsi: a new ESI is nowhere before, and ready after.
LEMMA ConnectPlaces ==
  ASSUME TypeInv, LockInv, PlaceInv, NEW e \in Esis, EsiConnects(e)
  PROVE  PlaceInv'
<1> USE DEF PlaceInv, PlacesAreRight
<1>1. /\ UNCHANGED <<running, finished, queue, allKeys, taken, locked, status,
                     info, keyRecieved>>
      /\ main' = "drain" /\ phase[e] = "absent"
      /\ phase' = [phase EXCEPT ![e] = "waiting"]
      /\ ready' = [ready EXCEPT ![e] = @ + 1]
      /\ system' = system \union {e}
  BY DEF EsiConnects, messages
<1>2. /\ phase \in [Esis -> Phases] /\ ready \in [Esis -> Nat]
      /\ \A k \in Keys : \A f \in Waiters(k) : f \in Esis
  BY RangeIsElements DEF TypeInv, TypeOK, EsisTypeOK, TablesTypeOK, Waiters
<1>3. ~Placed(e) /\ e \notin finished
  BY <1>1 DEF PlacedIsPresent, LockInv, FinishedHaveExited
<1>4. /\ ready[e] = 0 /\ ready'[e] = 1
      /\ \A f \in Esis \ {e} : ready'[f] = ready[f]
  BY <1>1, <1>2, <1>3 DEF Placed
<1>5. ReadyOnce' /\ QueuedOnce' /\ QueuedIsIdle'
  <2>1. ReadyOnce'
    BY <1>1, <1>2, <1>3, <1>4 DEF ReadyOnce, Placed
  <2>2. QueuedOnce'
    BY <1>1 DEF QueuedOnce, Waiters
  <2>3. QueuedIsIdle'
    BY <1>1, <1>2, <1>3, <1>4 DEF QueuedIsIdle, Waiters, Placed
  <2> QED
    BY <2>1, <2>2, <2>3
<1>6. \A f \in Esis \ {e} : Placed(f)' <=> Placed(f)
  BY <1>1, <1>4 DEF Placed, Waiters
<1>7. Placed(e)'
  BY <1>4 DEF Placed
<1>8. PlacedIsPresent' /\ AliveIsPlaced'
  BY <1>1, <1>2, <1>3, <1>6, <1>7 DEF PlacedIsPresent, AliveIsPlaced, Alive
<1>9. AbortedHaveExited' /\ DyingRuns' /\ ConfigIsKept'
  BY <1>1, <1>2 DEF AbortedHaveExited, DyingRuns, ConfigIsKept
<1>10. AwaitedIsKnown'
  BY <1>1, <1>2 DEF AwaitedIsKnown
<1> QED
  BY <1>5, <1>8, <1>9, <1>10

\* sendKeyStatusToCoordinador: a key it calls BLOCKED is in allSystemKeys.
LEMMA KeyStatusPlaces ==
  ASSUME TypeInv, OrderInv, PlaceInv, NEW e \in Esis, HandleKeyStatus(e)
  PROVE  PlaceInv'
<1>1. /\ UNCHANGED <<tables, info>>
      /\ main' = "drain" /\ phase[e] = "asking"
      /\ phase' = [phase EXCEPT ![e] = "told"]
      /\ keyRecieved' = operation[e].key
      /\ status' = [status EXCEPT ![e] = KeyStatus(operation[e].key)]
  BY DEF HandleKeyStatus
<1>2. phase \in [Esis -> Phases] /\ status \in [Esis -> KeyStatuses]
  BY DEF TypeInv, TypeOK, EsisTypeOK
<1>3. IsBusy(e) /\ ~HasInformed(e)
  BY <1>1 DEF IsBusy, Asks, OrderInv, OrdersAreSingle
<1>4. \A f \in Esis \ {e} : ~Asks(f) /\ ~HasInformed(f)
  BY <1>3 DEF OrderInv, OneIsBusy, IsBusy
<1>5. PlacesAreRight'
  BY <1>1, <1>2, QuietPlaces DEF PlaceInv, Alive, tables
<1>6. AbortedHaveExited'
  BY <1>1, <1>2 DEF PlaceInv, AbortedHaveExited
<1>7. DyingRuns' /\ ConfigIsKept'
  BY <1>1 DEF PlaceInv, DyingRuns, ConfigIsKept, tables
<1>8. status'[e] = "BLOCKED" => keyRecieved' \in allKeys
  BY <1>1, <1>2 DEF PlaceInv, AwaitedIsKnown, KeyStatus, IsLockedKey
<1>9. \A f \in Esis : info[f].response # "BLOCK"
  BY <1>3, <1>4 DEF HasInformed, NoInfo
<1>10. AwaitedIsKnown'
  BY <1>1, <1>2, <1>4, <1>8, <1>9
     DEF PlaceInv, AwaitedIsKnown, tables, Asks
<1> QED
  BY <1>5, <1>6, <1>7, <1>10 DEF PlaceInv

\* What an outcome frees is what the ESI holds or, at its end, a key nobody has.
LEMMA OutcomeFrees ==
  ASSUME TypeInv, LockInv, NEW e \in Esis, running = e, keyRecieved \in Keys,
         NEW k \in Keys
  PROVE  /\ Releases(info[e])[k] <= 1
         /\ Releases(info[e])[k] > 0 => locked[e][k] > 0 \/ k \notin taken
         /\ info[e].esiStatus = "FINISHED" /\ locked[e][k] > 0
               /\ info[e].response \in {"SUCCESS", "LOCK", "FREE"}
                     => Releases(info[e])[k] > 0
         /\ info[e].esiStatus = "NOTFINISHED" /\ Releases(info[e])[k] > 0
               => k = keyRecieved /\ info[e].response = "FREE"
<1> DEFINE times == Releases(info[e])
<1>1. /\ locked \in [Esis -> [Keys -> Nat]]
      /\ locked[e][k] \in Nat /\ locked[e][k] <= 1
      /\ locked[e][k] > 0 => k \in taken
  BY DEF TypeInv, TypeOK, TablesTypeOK, LockInv, HeldIsTaken
<1>2. info[e] \in Infos \union {NoInfo}
  BY DEF TypeInv, TypeOK, EsisTypeOK
<1>3. CASE info[e].esiStatus = "FINISHED" /\ info[e].response = "SUCCESS"
  <2>1. times[k] = locked[e][k]
    BY <1>3 DEF Releases
  <2> QED
    BY <1>1, <1>3, <2>1
<1>4. CASE info[e].esiStatus = "FINISHED" /\ info[e].response = "LOCK"
  <2>1. times = LockedPlus(e, keyRecieved) /\ keyRecieved \notin taken
    BY <1>4 DEF Releases, LockInv, AnswersHold
  <2> HIDE DEF times
  <2>2. times[k] = IF k = keyRecieved THEN locked[e][k] + 1 ELSE locked[e][k]
    BY <1>1, <2>1 DEF LockedPlus
  <2>3. k = keyRecieved => locked[e][k] = 0
    BY <1>1, <2>1
  <2> QED
    BY <1>1, <1>4, <2>1, <2>2, <2>3 DEF times
<1>5. CASE info[e].esiStatus = "FINISHED" /\ info[e].response = "FREE"
  <2>1. times = FreedAtLeast(e, keyRecieved) /\ locked[e][keyRecieved] > 0
    BY <1>5 DEF Releases, LockInv, AnswersHold
  <2> HIDE DEF times
  <2>2. times[k] = locked[e][k]
    BY <1>1, <2>1 DEF FreedAtLeast
  <2> QED
    BY <1>1, <1>5, <2>2 DEF times
<1>6. CASE info[e].esiStatus = "NOTFINISHED" /\ info[e].response = "FREE"
  <2>1. times = Once(keyRecieved) /\ locked[e][keyRecieved] > 0
    BY <1>6 DEF Releases, LockInv, AnswersHold
  <2> HIDE DEF times
  <2>2. times[k] = IF k = keyRecieved THEN 1 ELSE 0
    BY <2>1 DEF Once
  <2> QED
    BY <1>1, <1>6, <2>1, <2>2 DEF times
<1>7. CASE info[e].response \notin {"SUCCESS", "LOCK", "FREE"}
           \/ (info[e].esiStatus = "NOTFINISHED" /\ info[e].response # "FREE")
  <2>1. times = NothingHeld
    BY <1>2, <1>7 DEF Releases
  <2> HIDE DEF times
  <2>2. times[k] = 0
    BY <2>1 DEF NothingHeld
  <2> QED
    BY <1>1, <1>7, <2>2 DEF times
<1>8. info[e].esiStatus \in {"FINISHED", "NOTFINISHED"}
  BY <1>2 DEF Infos, NoInfo
<1> QED
  BY <1>3, <1>4, <1>5, <1>6, <1>7, <1>8

\* A line an ESI asks for, or its end, moves nobody.
LEMMA EsiPlaces ==
  ASSUME TypeInv, PlaceInv, NEW e \in Esis, EsiStep(e)
  PROVE  PlaceInv'
<1>1. /\ UNCHANGED <<system, ready, running, finished, queue, allKeys, taken,
                     locked, keyRecieved, main, dying, status>>
      /\ phase[e] \in {"waiting", "told"}
      /\ phase'[e] \in {"asking", "exited", "waiting"}
  BY DEF EsiStep, EsiRunsLine, EsiRejectsLine, EsiIsKilled, EsiAnswers,
         planificadorUnchanged, tables, messages, TypeInv, TypeOK, EsisTypeOK
<1>2. /\ phase \in [Esis -> Phases] /\ info \in [Esis -> Infos \union {NoInfo}]
  BY DEF TypeInv, TypeOK, EsisTypeOK
<1>3. \A f \in Esis \ {e} : phase'[f] = phase[f] /\ info'[f] = info[f]
  BY <1>2 DEF EsiStep, EsiRunsLine, EsiRejectsLine, EsiIsKilled, EsiAnswers
<1>4. PlacesAreRight'
  BY <1>1, <1>3, QuietPlaces DEF PlaceInv, Alive
<1>5. /\ info'[e].response = "BLOCK" => keyRecieved \in allKeys
      /\ info'[e].response = "ABORT" => phase'[e] = "exited"
  <2>1. CASE UNCHANGED info
    BY <1>1, <2>1 DEF PlaceInv, AwaitedIsKnown, AbortedHaveExited
  <2>2. CASE EsiAnswers(e)
    <3>1. phase[e] = "told"
      BY <2>2 DEF EsiAnswers
    <3>2. PICK r \in CoordinadorResponses(operation[e].code, status[e]) :
            LET rest == IF Advances(r) THEN left[e] - 1 ELSE left[e]
                exits == r = "ABORT" \/ rest = 0
            IN  /\ info' = [info EXCEPT ![e] = [response |-> r,
                       esiStatus |-> IF rest = 0 THEN "FINISHED"
                                                 ELSE "NOTFINISHED"]]
                /\ phase' = [phase EXCEPT ![e] =
                       IF exits THEN "exited" ELSE "waiting"]
      BY <2>2 DEF EsiAnswers
    <3>3. /\ info'[e].response = r
          /\ r = "ABORT" => phase'[e] = "exited"
      BY <1>2, <3>2
    <3>4. r = "BLOCK" => status[e] = "BLOCKED"
      BY DEF CoordinadorResponses
    <3> QED
      BY <3>1, <3>3, <3>4 DEF PlaceInv, AwaitedIsKnown
  <2> QED
    BY <2>1, <2>2 DEF EsiStep, EsiRunsLine, EsiRejectsLine, EsiIsKilled
<1>6. AbortedHaveExited' /\ AwaitedIsKnown'
  BY <1>1, <1>3, <1>5 DEF PlaceInv, AbortedHaveExited, AwaitedIsKnown
<1>7. DyingRuns' /\ ConfigIsKept'
  BY <1>1 DEF PlaceInv, DyingRuns, ConfigIsKept
<1> QED
  BY <1>4, <1>6, <1>7 DEF PlaceInv

\* The end of abortEsi: the ESI leaves the CPU, where it was all the time.
LEMMA AbortPlaces ==
  ASSUME TypeInv, OrderInv, PlaceInv, AbortEnds
  PROVE  PlaceInv'
<1>1. /\ main = "abort_end" /\ main' = "schedule" /\ running' = NoEsi
      /\ queue' = SweepQueues(queue, dying)
      /\ system' = system \/ system' = system \ {dying}
      /\ UNCHANGED <<ready, finished, allKeys, taken, locked, phase, status,
                     info, keyRecieved>>
  BY DEF AbortEnds, RemoveFromSystem, messages, esiVars
<1>2. dying \in Esis /\ phase[dying] = "gone" /\ running = dying
  BY <1>1 DEF OrderInv, AbortingIsOver, PlaceInv, DyingRuns
<1>3. queue \in [Keys -> Seq(Esis)] /\ ready \in [Esis -> Nat]
  BY DEF TypeInv, TypeOK, TablesTypeOK
<1>4. \A k \in Keys :
         /\ NoRepeats(queue[k]) /\ (queue[k] # <<>> => k \in allKeys)
  BY DEF PlaceInv, PlacesAreRight, QueuedOnce, AwaitedIsKnown
<1>5. \A k \in Keys : /\ NoRepeats(queue'[k])
                      /\ Range(queue'[k]) = Waiters(k) \ {dying}
                      /\ queue'[k] # <<>> => k \in allKeys
  BY <1>1, <1>3, <1>4, SweepsAll DEF Waiters
<1>6. PlacesAreRight'
  <2> DEFINE W == {}
             G == {dying}
  <2>1. \A k \in Keys : /\ NoRepeats(queue'[k])
                        /\ Range(queue'[k]) = Waiters(k) \ (W \union G)
    BY <1>5
  <2>2. \A e \in Esis : ready'[e] = IF e \in G THEN 0
                                    ELSE IF e \in W THEN 1 ELSE ready[e]
    <3>1. ready[dying] = 0
      BY <1>2, <1>3 DEF PlaceInv, PlacesAreRight, ReadyOnce
    <3> QED
      BY <1>1, <3>1
  <2>3. running' = IF running \in G THEN NoEsi ELSE running
    BY <1>1, <1>2
  <2>4. \A e \in Esis \ G : e \in system \ finished => e \in system' \ finished'
    BY <1>1
  <2>5. /\ \A e \in Esis : phase[e] # "absent" => phase'[e] # "absent"
        /\ \A e \in Esis : Alive(e)' => Alive(e) /\ e \notin G
    BY <1>1, <1>2 DEF Alive
  <2>6. \A e \in W : \E k \in Keys : e \in Waiters(k)
    OBVIOUS
  <2> HIDE DEF W, G
  <2> QED
    BY <2>1, <2>2, <2>3, <2>4, <2>5, <2>6, MovedPlaces DEF PlaceInv
<1>7. AwaitedIsKnown'
  BY <1>1, <1>5 DEF PlaceInv, AwaitedIsKnown
<1>8. AbortedHaveExited' /\ DyingRuns' /\ ConfigIsKept'
  BY <1>1 DEF PlaceInv, AbortedHaveExited, DyingRuns, ConfigIsKept
<1> QED
  BY <1>6, <1>7, <1>8 DEF PlaceInv

\* abortEsi of a dead ESI, wherever it was: those its keys wake go to the ready
\* list, and it leaves the list or the queue; one on the CPU stays there.
LEMMA DisconnectMoves ==
  ASSUME TypeInv, LockInv, PlaceInv, NEW e \in Esis,
         DisconnectReady(e) \/ DisconnectRunning(e) \/ DisconnectOther(e)
  PROVE  LET W == Woken(locked[e])
             G == IF DisconnectRunning(e) THEN {} ELSE {e}
         IN  /\ \A f \in W : \E k \in Keys : f \in Waiters(k)
             /\ \A k \in Keys : /\ NoRepeats(queue'[k])
                                /\ Range(queue'[k]) = Waiters(k) \ (W \union G)
                                /\ queue'[k] # <<>> => k \in allKeys
             /\ \A f \in Esis : ready'[f] = IF f \in G THEN 0
                                            ELSE IF f \in W THEN 1 ELSE ready[f]
             /\ running' = IF running \in G THEN NoEsi ELSE running
             /\ DisconnectRunning(e) => UNCHANGED system
             /\ \/ main' = "schedule"
                \/ main' = "abort_drain" /\ dying' = e /\ running = e
<1> DEFINE times == locked[e]
           W == Woken(times)
           G == IF DisconnectRunning(e) THEN {} ELSE {e}
<1>1. /\ phase[e] = "exited" /\ info[e] = NoInfo
      /\ phase' = [phase EXCEPT ![e] = "gone"]
      /\ locked' = LocksOf(e, NothingHeld) /\ taken' = TakenAfter(times)
      /\ UNCHANGED <<running, finished, allKeys, status, info, keyRecieved>>
      /\ system' = system \/ system' = system \ {e}
  BY DEF DisconnectReady, DisconnectRunning, DisconnectOther, Disconnects,
         FreesAll, RemoveFromSystem, messages
<1>2. /\ phase \in [Esis -> Phases] /\ taken \in SUBSET Keys
      /\ locked \in [Esis -> [Keys -> Nat]]
      /\ ready \in [Esis -> Nat] /\ queue \in [Keys -> Seq(Esis)]
  BY DEF TypeInv, TypeOK, EsisTypeOK, TablesTypeOK
<1>3. times \in [Keys -> Nat] /\ \A k \in Keys : times[k] <= 1
  BY <1>2 DEF LockInv, HeldIsTaken
<1> HIDE DEF times
<1>4. /\ \A k \in Keys :
           /\ QueueAfter(times)[k] \in Seq(Esis)
           /\ NoRepeats(QueueAfter(times)[k])
           /\ Range(QueueAfter(times)[k]) = Waiters(k) \ W
           /\ QueueAfter(times)[k] # <<>> => queue[k] # <<>>
      /\ ReadyAfter(times) \in [Esis -> Nat]
      /\ \A f \in Esis :
           ReadyAfter(times)[f] = IF f \in W THEN 1 ELSE ready[f]
      /\ \A f \in W : \E k \in Keys : f \in Waiters(k)
  BY <1>3, WakesFirst DEF PlaceInv, PlacesAreRight
<1>5. QueueAfter(times) \in [Keys -> Seq(Esis)]
  BY <1>3, QueueAfterType DEF TypeInv, TypeOK
<1>6. \A k \in Keys : queue[k] # <<>> => k \in allKeys
  BY DEF PlaceInv, AwaitedIsKnown
<1> HIDE DEF W
<1>7. /\ \A k \in Keys : /\ NoRepeats(queue'[k])
                         /\ Range(queue'[k]) = Waiters(k) \ (W \union G)
                         /\ queue'[k] # <<>> => k \in allKeys
      /\ \A f \in Esis : ready'[f] = IF f \in G THEN 0
                                     ELSE IF f \in W THEN 1 ELSE ready[f]
      /\ running' = IF running \in G THEN NoEsi ELSE running
      /\ DisconnectRunning(e) => UNCHANGED system
      /\ \/ main' = "schedule"
         \/ main' = "abort_drain" /\ dying' = e /\ running = e
  <2>1. CASE DisconnectRunning(e)
    <3>1. /\ ready' = ReadyAfter(times) /\ queue' = QueueAfter(times)
          /\ main' = "abort_drain" /\ dying' = e /\ running = e
          /\ UNCHANGED system /\ G = {}
      BY <2>1 DEF DisconnectRunning, times
    <3> HIDE DEF G
    <3> QED
      BY <1>1, <1>4, <1>6, <3>1
  <2>2. CASE DisconnectReady(e) /\ ~DisconnectRunning(e)
    <3>1. /\ ReadyAfter(times)[e] > 0 /\ running # e
          /\ ready' = [ReadyAfter(times) EXCEPT ![e] = @ - 1]
          /\ queue' = QueueAfter(times) /\ main' = "schedule" /\ G = {e}
      BY <2>2 DEF DisconnectReady, IsInReadyAfterFreeing, times
    <3> HIDE DEF G
    <3>2. /\ ReadyAfter(times)[e] = 1 /\ ready'[e] = 0
          /\ \A f \in Esis \ {e} : ready'[f] = ReadyAfter(times)[f]
      <4>1. ready[e] \in Nat /\ ready[e] <= 1
        BY <1>2 DEF PlaceInv, PlacesAreRight, ReadyOnce
      <4>2. ReadyAfter(times)[e] = 1
        BY <1>4, <3>1, <4>1
      <4> QED
        BY <1>4, <3>1, <4>2
    <3>3. \A k \in Keys : e \notin Waiters(k) \ W
      BY <1>4, <3>2 DEF PlaceInv, PlacesAreRight, QueuedIsIdle
    <3>4. \A k \in Keys : /\ NoRepeats(queue'[k])
                          /\ Range(queue'[k]) = Waiters(k) \ (W \union G)
                          /\ queue'[k] # <<>> => k \in allKeys
      BY <1>4, <1>6, <3>1, <3>3
    <3>5. \A f \in Esis : ready'[f] = IF f \in G THEN 0
                                      ELSE IF f \in W THEN 1 ELSE ready[f]
      BY <1>4, <3>1, <3>2
    <3> QED
      BY <1>1, <2>2, <3>1, <3>4, <3>5
  <2>3. CASE DisconnectOther(e) /\ ~DisconnectRunning(e)
    <3>1. /\ ~(ReadyAfter(times)[e] > 0) /\ running # e
          /\ ready' = ReadyAfter(times)
          /\ queue' = SweepQueues(QueueAfter(times), e)
          /\ main' = "schedule" /\ G = {e}
      BY <2>3 DEF DisconnectOther, IsInReadyAfterFreeing, times
    <3> HIDE DEF G
    <3>2. ready'[e] = 0
      BY <1>4, <3>1
    <3>3. \A k \in Keys : /\ NoRepeats(QueueAfter(times)[k])
                          /\ QueueAfter(times)[k] # <<>> => k \in allKeys
      BY <1>4, <1>6
    <3>4. \A k \in Keys : /\ NoRepeats(queue'[k])
                          /\ Range(queue'[k]) = Range(QueueAfter(times)[k]) \ {e}
                          /\ queue'[k] # <<>> => k \in allKeys
      BY <1>5, <3>1, <3>3, SweepsAll
    <3>5. \A k \in Keys : Range(queue'[k]) = Waiters(k) \ (W \union G)
      BY <1>4, <3>1, <3>4
    <3>6. \A f \in Esis : ready'[f] = IF f \in G THEN 0
                                      ELSE IF f \in W THEN 1 ELSE ready[f]
      BY <1>4, <3>1, <3>2
    <3> QED
      BY <1>1, <2>3, <3>1, <3>4, <3>5, <3>6
  <2> QED
    BY <2>1, <2>2, <2>3
<1> QED
  BY <1>4, <1>7 DEF W, times

\* Such a step keeps the invariant.
LEMMA DisconnectPlaces ==
  ASSUME TypeInv, LockInv, PlaceInv, NEW e \in Esis,
         DisconnectReady(e) \/ DisconnectRunning(e) \/ DisconnectOther(e)
  PROVE  PlaceInv'
<1> DEFINE W == Woken(locked[e])
           G == IF DisconnectRunning(e) THEN {} ELSE {e}
<1>1. /\ phase[e] = "exited" /\ info[e] = NoInfo
      /\ phase' = [phase EXCEPT ![e] = "gone"]
      /\ locked' = LocksOf(e, NothingHeld) /\ taken' = TakenAfter(locked[e])
      /\ UNCHANGED <<running, finished, allKeys, status, info, keyRecieved>>
      /\ system' = system \/ system' = system \ {e}
  BY DEF DisconnectReady, DisconnectRunning, DisconnectOther, Disconnects,
         FreesAll, RemoveFromSystem, messages
<1>2. /\ phase \in [Esis -> Phases] /\ taken \in SUBSET Keys
      /\ locked \in [Esis -> [Keys -> Nat]]
  BY DEF TypeInv, TypeOK, EsisTypeOK, TablesTypeOK
<1>3. /\ \A f \in W : \E k \in Keys : f \in Waiters(k)
      /\ \A k \in Keys : /\ NoRepeats(queue'[k])
                         /\ Range(queue'[k]) = Waiters(k) \ (W \union G)
                         /\ queue'[k] # <<>> => k \in allKeys
      /\ \A f \in Esis : ready'[f] = IF f \in G THEN 0
                                     ELSE IF f \in W THEN 1 ELSE ready[f]
      /\ running' = IF running \in G THEN NoEsi ELSE running
      /\ DisconnectRunning(e) => UNCHANGED system
      /\ \/ main' = "schedule"
         \/ main' = "abort_drain" /\ dying' = e /\ running = e
  BY DisconnectMoves
<1> HIDE DEF W
<1>4. G \subseteq {e} /\ (G = {} <=> DisconnectRunning(e))
  OBVIOUS
<1>5. PlacesAreRight'
  <2>1. \A f \in Esis \ G : f \in system \ finished => f \in system' \ finished'
    BY <1>1, <1>3, <1>4
  <2>2. /\ \A f \in Esis : phase[f] # "absent" => phase'[f] # "absent"
        /\ \A f \in Esis : Alive(f)' => Alive(f) /\ f \notin G
    BY <1>1, <1>2, <1>4 DEF Alive
  <2> HIDE DEF G
  <2>3. PlacesAreRight /\ \A f \in W : \E k \in Keys : f \in Waiters(k)
    BY <1>3 DEF PlaceInv
  <2>4. \A k \in Keys : /\ NoRepeats(queue'[k])
                        /\ Range(queue'[k]) = Waiters(k) \ (W \union G)
    BY <1>3
  <2>5. /\ \A f \in Esis : ready'[f] = IF f \in G THEN 0
                                       ELSE IF f \in W THEN 1 ELSE ready[f]
        /\ running' = IF running \in G THEN NoEsi ELSE running
    BY <1>3
  <2> QED
    BY <2>1, <2>2, <2>3, <2>4, <2>5, MovedPlaces
<1>6. AbortedHaveExited' /\ DyingRuns'
  BY <1>1, <1>2, <1>3 DEF PlaceInv, AbortedHaveExited, DyingRuns, NoInfo
<1>7. AwaitedIsKnown'
  BY <1>1, <1>2, <1>3 DEF PlaceInv, AwaitedIsKnown, TakenAfter
<1>8. ConfigIsKept'
  <2>1. \A f \in Esis, k \in Keys :
          locked'[f][k] = IF f = e THEN 0 ELSE locked[f][k]
    BY <1>1, <1>2 DEF LocksOf, NothingHeld
  <2>2. \A k \in ConfigKeys : k \in Keys /\ locked[e][k] = 0
    BY PlanificadorAssumption DEF PlaceInv, ConfigIsKept
  <2>3. \A k \in ConfigKeys : k \in taken'
    <3>1. ~(0 > 0)
      OBVIOUS
    <3> QED
      BY <1>1, <2>2, <3>1 DEF PlaceInv, ConfigIsKept, TakenAfter
  <2> QED
    BY <2>1, <2>2, <2>3 DEF PlaceInv, ConfigIsKept
<1> QED
  BY <1>5, <1>6, <1>7, <1>8 DEF PlaceInv

\* BLOCK: the running ESI goes to the end of the queue of its key.
LEMMA BlockPlaces ==
  ASSUME TypeInv, PlacesAreRight, NEW e \in Esis, running = e,
         NEW k \in Keys, BlockRunning(k),
         UNCHANGED <<system, finished, phase>>
  PROVE  PlacesAreRight'
<1> USE DEF PlacesAreRight
<1>1. /\ queue' = [queue EXCEPT ![k] = Append(@, e)]
      /\ running' = NoEsi /\ UNCHANGED ready
  BY DEF BlockRunning
<1>2. /\ queue \in [Keys -> Seq(Esis)] /\ NoEsi \notin Esis
      /\ ready \in [Esis -> Nat]
  BY PlanificadorAssumption DEF TypeInv, TypeOK, TablesTypeOK
<1>3. \A l \in Keys : e \notin Waiters(l) /\ NoRepeats(queue[l])
  BY DEF QueuedIsIdle, QueuedOnce
<1>4. /\ NoRepeats(queue'[k]) /\ Waiters(k)' = Waiters(k) \union {e}
      /\ \A l \in Keys \ {k} : queue'[l] = queue[l]
  <2>1. queue[k] \in Seq(Esis) /\ queue'[k] = Append(queue[k], e)
    BY <1>1, <1>2
  <2> QED
    BY <1>1, <1>2, <1>3, <2>1, AppendOnce DEF Waiters
<1>5. \A l \in Keys \ {k} : Waiters(l)' = Waiters(l)
  BY <1>4 DEF Waiters
<1>6. ready[e] = 0
  BY <1>2 DEF ReadyOnce
<1>7. ReadyOnce'
  BY <1>1, <1>2 DEF ReadyOnce
<1>8. QueuedOnce'
  <2>1. \A l \in Keys : NoRepeats(queue[l])'
    BY <1>3, <1>4 DEF NoRepeats
  <2>2. \A l, m \in Keys : Waiters(l)' \cap Waiters(m)' # {} => l = m
    BY <1>3, <1>4, <1>5 DEF QueuedOnce
  <2> QED
    BY <2>1, <2>2 DEF QueuedOnce
<1>9. QueuedIsIdle'
  <2>1. \A l \in Keys : \A f \in Waiters(l)' :
          f \in Esis /\ (f = e \/ f \in Waiters(l))
    BY <1>2, <1>4, <1>5, RangeIsElements DEF Waiters
  <2> QED
    BY <1>1, <1>2, <1>6, <2>1 DEF QueuedIsIdle
<1>10. \A f \in Esis : Placed(f)' <=> Placed(f)
  <2>1. Placed(e) /\ Placed(e)'
    BY <1>4 DEF Placed
  <2>2. \A f \in Esis \ {e} : Placed(f)' <=> Placed(f)
    BY <1>1, <1>2, <1>4, <1>5 DEF Placed
  <2> QED
    BY <2>1, <2>2
<1>11. PlacedIsPresent' /\ AliveIsPlaced'
  BY <1>10 DEF PlacedIsPresent, AliveIsPlaced, Alive
<1> QED
  BY <1>7, <1>8, <1>9, <1>11

\* unlockEsi for what the outcome frees; at its end the ESI leaves the CPU.
LEMMA ReleasePlaces ==
  ASSUME TypeInv, LockInv, PlaceInv, NEW e \in Esis, running = e,
         keyRecieved \in Keys, Release(Releases(info[e])),
         \/ UNCHANGED <<finished, running>>
         \/ finished' = finished \union {e} /\ running' = NoEsi /\ ~Alive(e),
         UNCHANGED <<system, phase>>
  PROVE  /\ PlacesAreRight'
         /\ \A k \in Keys : queue'[k] # <<>> => queue[k] # <<>>
         /\ taken' \subseteq taken /\ ConfigKeys \subseteq taken'
<1> DEFINE times == Releases(info[e])
           W == Woken(times)
           G == IF UNCHANGED <<finished, running>> THEN {} ELSE {e}
<1>1. times \in [Keys -> Nat] /\ \A k \in Keys : times[k] <= 1
  BY ReleasesType, OutcomeFrees DEF TypeInv, TypeOK
<1>2. \A k \in ConfigKeys : k \in Keys /\ k \in taken /\ times[k] = 0
  <2> SUFFICES ASSUME NEW k \in ConfigKeys
               PROVE  k \in Keys /\ k \in taken /\ times[k] = 0
    OBVIOUS
  <2>1. k \in Keys /\ k \in taken /\ locked[e][k] = 0
    BY PlanificadorAssumption DEF PlaceInv, ConfigIsKept
  <2>2. ~(times[k] > 0)
    BY <2>1, OutcomeFrees
  <2>3. times[k] \in Nat
    BY <1>1, <2>1
  <2> HIDE DEF times
  <2> QED
    BY <2>1, <2>2, <2>3
<1>3. /\ queue' = QueueAfter(times) /\ ready' = ReadyAfter(times)
      /\ taken' = TakenAfter(times)
  BY DEF Release
<1> HIDE DEF times
<1>4. /\ \A k \in Keys :
           /\ NoRepeats(QueueAfter(times)[k])
           /\ Range(QueueAfter(times)[k]) = Waiters(k) \ W
           /\ QueueAfter(times)[k] # <<>> => queue[k] # <<>>
      /\ \A f \in Esis :
           ReadyAfter(times)[f] = IF f \in W THEN 1 ELSE ready[f]
      /\ \A f \in W : \E k \in Keys : f \in Waiters(k)
  BY <1>1, WakesFirst DEF PlaceInv, PlacesAreRight
<1> HIDE DEF W
<1>5. \A k \in Keys : e \notin Waiters(k)
  BY DEF PlaceInv, PlacesAreRight, QueuedIsIdle
<1>6. e \notin W /\ ready[e] = 0
  <2>1. ready[e] \in Nat
    BY DEF TypeInv, TypeOK, TablesTypeOK
  <2> QED
    BY <1>4, <1>5, <2>1 DEF PlaceInv, PlacesAreRight, ReadyOnce
<1>7. G \subseteq {e}
  OBVIOUS
<1>8. running' = IF running \in G THEN NoEsi ELSE running
  OBVIOUS
<1>9. \A f \in Esis \ G : f \in system \ finished => f \in system' \ finished'
  OBVIOUS
<1>10. /\ \A f \in Esis : phase[f] # "absent" => phase'[f] # "absent"
       /\ \A f \in Esis : Alive(f)' => Alive(f) /\ f \notin G
  BY DEF Alive
<1> HIDE DEF G
<1>11. \A k \in Keys : /\ NoRepeats(queue'[k])
                       /\ Range(queue'[k]) = Waiters(k) \ (W \union G)
  BY <1>3, <1>4, <1>5, <1>7
<1>12. \A f \in Esis : ready'[f] = IF f \in G THEN 0
                                   ELSE IF f \in W THEN 1 ELSE ready[f]
  BY <1>3, <1>4, <1>6, <1>7
<1>13. PlacesAreRight'
  <2>1. PlacesAreRight /\ \A f \in W : \E k \in Keys : f \in Waiters(k)
    BY <1>4 DEF PlaceInv
  <2> QED
    BY <1>8, <1>9, <1>10, <1>11, <1>12, <2>1, MovedPlaces
<1>14. ConfigKeys \subseteq taken'
  <2>1. ~(0 > 0)
    OBVIOUS
  <2> QED
    BY <1>2, <1>3, <2>1 DEF TakenAfter
<1> QED
  BY <1>3, <1>4, <1>13, <1>14 DEF TakenAfter

\* handleEsiInformation moves the running ESI to where its outcome takes it,
\* and those it wakes to the ready list.
LEMMA InformationPlaces ==
  ASSUME TypeInv, OrderInv, LockInv, PlaceInv, NEW e \in Esis,
         HandleEsiInformation(e)
  PROVE  PlaceInv'
<1>1. /\ HasInformed(e) /\ main' = "finish_drain" /\ running # NoEsi
      /\ info' = [info EXCEPT ![e] = NoInfo]
      /\ UNCHANGED <<system, phase, status, keyRecieved>>
  BY DEF HandleEsiInformation, HandleSuccess, HandleLock, HandleBlock,
         HandleFree, HandleAbort, Receives, HasInformed, messages
<1>2. /\ info \in [Esis -> Infos \union {NoInfo}]
      /\ locked \in [Esis -> [Keys -> Nat]] /\ taken \in SUBSET Keys
      /\ queue \in [Keys -> Seq(Esis)]
  BY DEF TypeInv, TypeOK, EsisTypeOK, TablesTypeOK
<1>3. /\ IsBusy(e) /\ ~Asks(e)
      /\ \A f \in Esis \ {e} : ~Asks(f) /\ ~HasInformed(f)
  BY <1>1 DEF IsBusy, OrderInv, OrdersAreSingle, OneIsBusy
<1>4. running = e
  BY <1>1, <1>3 DEF OrderInv, OneIsBusy
<1>5. keyRecieved \in Keys
  BY <1>1 DEF TypeInv, OperationsAreReal, HasInformed
<1>6. \A f \in Esis : info'[f] = NoInfo
  BY <1>1, <1>2, <1>3 DEF HasInformed
<1>7. AbortedHaveExited' /\ DyingRuns'
  BY <1>1, <1>6 DEF AbortedHaveExited, DyingRuns, NoInfo
<1>8. ASSUME taken' \subseteq allKeys',
             \A k \in Keys : queue'[k] # <<>> => k \in allKeys'
      PROVE  AwaitedIsKnown'
  BY <1>1, <1>3, <1>6, <1>8 DEF AwaitedIsKnown, Asks, NoInfo
<1>9. /\ taken \subseteq allKeys /\ ConfigKeys \subseteq taken
      /\ \A k \in Keys : queue[k] # <<>> => k \in allKeys
      /\ \A f \in Esis, k \in ConfigKeys : locked[f][k] = 0
      /\ ConfigKeys \subseteq Keys
  BY PlanificadorAssumption DEF PlaceInv, AwaitedIsKnown, ConfigIsKept
<1>10. CASE HandleBlock(e)
  <2>1. /\ BlockRunning(keyRecieved) /\ info[e].response = "BLOCK"
        /\ UNCHANGED <<finished, allKeys, taken, locked>>
    BY <1>10 DEF HandleBlock, Receives
  <2>2. PlacesAreRight'
    BY <1>1, <1>4, <1>5, <2>1, BlockPlaces DEF PlaceInv
  <2>3. keyRecieved \in allKeys
    BY <2>1 DEF PlaceInv, AwaitedIsKnown
  <2>4. AwaitedIsKnown'
    <3>1. \A k \in Keys \ {keyRecieved} : queue'[k] = queue[k]
      BY <1>2, <2>1 DEF BlockRunning
    <3> QED
      BY <1>8, <1>9, <2>1, <2>3, <3>1
  <2>5. ConfigIsKept'
    BY <1>9, <2>1 DEF ConfigIsKept
  <2> QED
    BY <1>7, <2>2, <2>4, <2>5 DEF PlaceInv
<1>11. CASE HandleAbort(e)
  <2>1. /\ UNCHANGED <<finished, allKeys, taken, locked, ready, queue>>
        /\ running' = NoEsi /\ info[e].response = "ABORT"
    BY <1>11 DEF HandleAbort, Receives
  <2>2. phase[e] = "exited"
    BY <2>1 DEF PlaceInv, AbortedHaveExited
  <2>3. PlacesAreRight'
    <3> DEFINE W == {}
               G == {e}
    <3>1. \A k \in Keys : e \notin Waiters(k) /\ NoRepeats(queue[k])
      BY <1>4 DEF PlaceInv, PlacesAreRight, QueuedIsIdle, QueuedOnce
    <3>2. ready[e] = 0
      BY <1>4 DEF PlaceInv, PlacesAreRight, ReadyOnce, TypeInv, TypeOK,
                  TablesTypeOK
    <3>3. \A k \in Keys : /\ NoRepeats(queue'[k])
                          /\ Range(queue'[k]) = Waiters(k) \ (W \union G)
      BY <2>1, <3>1 DEF Waiters
    <3>4. \A f \in Esis : ready'[f] = IF f \in G THEN 0
                                      ELSE IF f \in W THEN 1 ELSE ready[f]
      BY <2>1, <3>2
    <3>5. /\ running' = IF running \in G THEN NoEsi ELSE running
          /\ \A f \in Esis \ G : f \in system \ finished => f \in system' \ finished'
          /\ \A f \in Esis : phase[f] # "absent" => phase'[f] # "absent"
          /\ \A f \in Esis : Alive(f)' => Alive(f) /\ f \notin G
      BY <1>1, <1>4, <2>1, <2>2 DEF Alive
    <3>6. PlacesAreRight /\ \A f \in W : \E k \in Keys : f \in Waiters(k)
      BY DEF PlaceInv
    <3> HIDE DEF W, G
    <3> QED
      BY <3>3, <3>4, <3>5, <3>6, MovedPlaces
  <2>4. AwaitedIsKnown' /\ ConfigIsKept'
    BY <1>8, <1>9, <2>1 DEF ConfigIsKept
  <2> QED
    BY <1>7, <2>3, <2>4 DEF PlaceInv
<1>12. CASE (HandleSuccess(e) \/ HandleLock(e)) /\ ~Finishes(e)
  <2>1. /\ UNCHANGED <<finished, running, ready, queue>>
        /\ \/ UNCHANGED <<allKeys, taken, locked>>
           \/ /\ info[e].response = "LOCK"
              /\ allKeys' = allKeys \union {keyRecieved}
              /\ taken' = taken \union {keyRecieved}
              /\ locked' = LocksOf(e, LockedPlus(e, keyRecieved))
    BY <1>4, <1>12 DEF HandleSuccess, HandleLock, Receives, Continues
  <2>2. PlacesAreRight'
    BY <1>1, <2>1, QuietPlaces DEF PlaceInv, Alive
  <2>3. AwaitedIsKnown'
    BY <1>8, <1>9, <2>1
  <2>4. ConfigIsKept'
    <3>1. CASE UNCHANGED <<taken, locked>>
      BY <1>9, <3>1 DEF ConfigIsKept
    <3>2. CASE /\ info[e].response = "LOCK"
               /\ taken' = taken \union {keyRecieved}
               /\ locked' = LocksOf(e, LockedPlus(e, keyRecieved))
      <4>1. keyRecieved \notin ConfigKeys
        BY <1>9, <3>2 DEF LockInv, AnswersHold
      <4>2. \A f \in Esis, k \in Keys \ {keyRecieved} :
              locked'[f][k] = locked[f][k]
        BY <1>2, <3>2 DEF LocksOf, LockedPlus
      <4> QED
        BY <1>9, <3>2, <4>1, <4>2 DEF ConfigIsKept
    <3> QED
      BY <2>1, <3>1, <3>2
  <2> QED
    BY <1>7, <2>2, <2>3, <2>4 DEF PlaceInv
<1>13. CASE Finishes(e) \/ (HandleFree(e) /\ ~Finishes(e))
  <2>1. /\ Release(Releases(info[e]))
        /\ \/ UNCHANGED <<finished, running>>
           \/ finished' = finished \union {e} /\ running' = NoEsi /\ ~Alive(e)
    BY <1>4, <1>13
       DEF HandleFree, Finishes, Continues, LockInv, FinishedHaveExited, Alive
  <2>2. /\ PlacesAreRight'
        /\ \A k \in Keys : queue'[k] # <<>> => queue[k] # <<>>
        /\ taken' \subseteq taken /\ ConfigKeys \subseteq taken'
    BY <1>1, <1>4, <1>5, <2>1, ReleasePlaces
  <2>3. allKeys \subseteq allKeys'
    BY DEF HandleEsiInformation, HandleSuccess, HandleLock, HandleBlock,
           HandleFree, HandleAbort
  <2>4. AwaitedIsKnown'
    BY <1>8, <1>9, <2>2, <2>3
  <2>5. ConfigIsKept'
    <3>1. ASSUME NEW f \in Esis, NEW k \in ConfigKeys PROVE locked'[f][k] = 0
      <4>1. CASE Finishes(e)
        BY <1>2, <1>4, <1>9, <4>1 DEF Finishes, LocksOf, NothingHeld
      <4>2. CASE HandleFree(e) /\ ~Finishes(e)
        <5>1. locked' = LocksOf(e, LockedMinus(e, keyRecieved))
          BY <1>4, <4>2 DEF HandleFree
        <5>2. locked[f][k] = 0 /\ locked[e][k] = 0 /\ k \in Keys
          BY <1>9
        <5>3. LockedMinus(e, keyRecieved)[k] = 0
          BY <1>2, <5>2 DEF LockedMinus
        <5> QED
          BY <1>2, <5>1, <5>2, <5>3 DEF LocksOf
      <4> QED
        BY <1>13, <4>1, <4>2
    <3> QED
      BY <2>2, <3>1 DEF ConfigIsKept
  <2> QED
    BY <1>7, <2>2, <2>4, <2>5 DEF PlaceInv
<1> QED
  BY <1>10, <1>11, <1>12, <1>13 DEF HandleEsiInformation

-----------------------------------------------------------------------------
\* When the scheduler starts nobody is anywhere.
LEMMA PlaceInit == Init => PlaceInv
<1> SUFFICES ASSUME Init PROVE PlaceInv
  OBVIOUS
<1>1. \A k \in Keys : queue[k] = <<>> /\ Waiters(k) = {}
  BY DEF Init, Waiters, Range
<1>2. \A e \in Esis : ready[e] = 0 /\ running # e /\ ~Placed(e)
  BY <1>1, PlanificadorAssumption DEF Init, Placed
<1>3. ReadyOnce /\ QueuedOnce /\ QueuedIsIdle
  BY <1>1, <1>2 DEF ReadyOnce, QueuedOnce, QueuedIsIdle, NoRepeats
<1>4. PlacedIsPresent /\ AliveIsPlaced
  BY <1>2 DEF Init, PlacedIsPresent, AliveIsPlaced, Alive
<1>5. AbortedHaveExited /\ DyingRuns /\ AwaitedIsKnown /\ ConfigIsKept
  BY <1>1, PlanificadorAssumption
     DEF Init, AbortedHaveExited, DyingRuns, AwaitedIsKnown, ConfigIsKept, NoInfo
<1> QED
  BY <1>3, <1>4, <1>5 DEF PlaceInv, PlacesAreRight

\* Every step of Next keeps the invariant, but for bloquear and desbloquear.
LEMMA PlaceStep ==
  ASSUME NothingIsMoved
  PROVE  TypeInv /\ OrderInv /\ LockInv /\ PlaceInv /\ [Next]_vars => PlaceInv'
<1> SUFFICES ASSUME TypeInv, OrderInv, LockInv, PlaceInv, [Next]_vars
             PROVE  PlaceInv'
  OBVIOUS
<1> DEFINE aborting == {"abort_drain", "abort_set", "abort_end"}
<1>1. ASSUME UNCHANGED <<system, ready, running, finished, queue, allKeys,
                         taken, locked, phase, status, info, keyRecieved>>,
             main' \in aborting => main \in aborting /\ dying' = dying
      PROVE  PlaceInv'
  BY <1>1, IdlePlaces
<1>2. ASSUME UNCHANGED <<tables, phase, status, info, keyRecieved, main, dying>>
      PROVE  PlaceInv'
  BY <1>1, <1>2 DEF tables
<1>3. CASE Crash
  BY <1>2, <1>3 DEF Crash, messages, esiVars
<1>4. CASE UNCHANGED vars
  BY <1>2, <1>4 DEF vars, messages, esiVars
<1>5. CASE ConsoleQueuesCommand \/ ConsoleLocksMutex \/ ConsoleSticks \/ Typing
  BY <1>2, <1>5 DEF ConsoleQueuesCommand, ConsoleLocksMutex, ConsoleSticks,
     Typing, ConsoleReads, messages, esiVars
<1>6. CASE ConsoleExecutes \/ DrainCommand
  BY <1>6, CommandPlaces
<1>7. CASE MainSchedules \/ ConsoleKicks
  BY <1>7, SchedulePlaces
<1>8. CASE DrainEnds \/ SetFinishedExecuting \/ MainSticks \/ HandleStatusResponse
  <2>1. \/ Crash
        \/ /\ UNCHANGED <<system, ready, running, finished, queue, allKeys,
                          taken, locked, phase, status, info, keyRecieved, dying>>
           /\ main' \in aborting => main \in aborting
    BY <1>8 DEF DrainEnds, AfterDrain, Draining, SetFinishedExecuting,
       MainSticks, HandleStatusResponse, tables, messages, esiVars
  <2> QED
    BY <1>1, <1>3, <2>1
<1>9. CASE AbortEnds
  BY <1>9, AbortPlaces
<1>10. CASE \E e \in Esis : EsiConnects(e)
  BY <1>10, ConnectPlaces
<1>11. CASE \E e \in Esis : HandleKeyStatus(e)
  BY <1>11, KeyStatusPlaces
<1>12. CASE \E e \in Esis : HandleEsiInformation(e)
  BY <1>12, InformationPlaces
<1>13. CASE \E e \in Esis :
              DisconnectReady(e) \/ DisconnectRunning(e) \/ DisconnectOther(e)
  BY <1>13, DisconnectPlaces
<1>14. CASE \E e \in Esis : EsiStep(e)
  BY <1>14, EsiPlaces
<1>15. CASE ScheduleCrashes
            \/ \E e \in Esis : InformationCrashes(e) \/ DisconnectReadyCrashes(e)
  BY <1>3, <1>15 DEF ScheduleCrashes, InformationCrashes, DisconnectReadyCrashes
<1> QED
  BY <1>4, <1>5, <1>6, <1>7, <1>8, <1>9, <1>10, <1>11, <1>12, <1>13, <1>14,
     <1>15 DEF Next, SelectLoop, Console, Arrivals

\* The four invariants together, in every reachable state.
LEMMA PlaceInvariant ==
  ASSUME NothingIsMoved
  PROVE  Spec => [](TypeInv /\ OrderInv /\ LockInv /\ PlaceInv)
<1>1. Init => TypeInv /\ OrderInv /\ LockInv /\ PlaceInv
  BY TypeInit, OrderInit, LockInit, PlaceInit
<1>2. TypeInv /\ OrderInv /\ LockInv /\ PlaceInv /\ [Next]_vars
         => (TypeInv /\ OrderInv /\ LockInv /\ PlaceInv)'
  <2>1. TypeInv /\ [Next]_vars => TypeInv'
    BY TablesStep, FlagsStep, ThreadsStep, EsisStep DEF TypeInv, TypeOK
  <2> QED
    BY <2>1, OperatorIsHarmless, OrderStep, LockStep, PlaceStep
<1> QED
  BY <1>1, <1>2, PTL DEF Spec

\* An ESI that is alive stands once in exactly one of the ready list, the CPU
\* and the queues of the keys, and a finished one in none: no handler, death or
\* drain loses an ESI or lists it twice, whatever the operator does short of
\* moving ESIs by hand.
THEOREM EachInOnePlace ==
  ASSUME NothingIsMoved
  PROVE  Spec => []OnePlace
<1>1. TypeInv /\ PlaceInv => OnePlace
  <2> SUFFICES ASSUME TypeInv, PlaceInv, NEW e \in Esis
               PROVE  /\ Alive(e) => Places(e) = 1
                      /\ e \in finished => Places(e) = 0
    BY DEF OnePlace, TypeInv, TypeOK, TablesTypeOK
  <2> USE DEF PlaceInv, PlacesAreRight
  <2>1. /\ ready[e] \in Nat /\ ready[e] <= 1
        /\ ready[e] > 0 => running # e
        /\ \A k \in Keys : queue[k] \in Seq(Esis)
    BY DEF ReadyOnce, TypeInv, TypeOK, TablesTypeOK
  <2>2. \A k \in Keys : Waiters(k) = {queue[k][i] : i \in 1..Len(queue[k])}
    BY <2>1, RangeIsElements DEF Waiters
  <2>3. \A p : p \in BlockedAt(e) <=>
           \E k \in Keys : \E i \in 1..Len(queue[k]) :
              p = <<k, i>> /\ queue[k][i] = e
    BY DEF BlockedAt
  <2>4. CASE \A k \in Keys : e \notin Waiters(k)
    <3>1. BlockedAt(e) = {}
      BY <2>2, <2>3, <2>4
    <3>2. Cardinality(BlockedAt(e)) = 0
      BY <3>1, FS_EmptySet
    <3>3. Places(e) = IF ready[e] > 0 \/ running = e THEN 1 ELSE 0
      BY <2>1, <3>2 DEF Places
    <3>4. Placed(e) <=> ready[e] > 0 \/ running = e
      BY <2>4 DEF Placed
    <3> QED
      BY <3>3, <3>4 DEF AliveIsPlaced, PlacedIsPresent
  <2>5. ASSUME NEW k \in Keys, e \in Waiters(k)
        PROVE  Places(e) = 1 /\ Placed(e)
    <3>1. PICK i \in 1..Len(queue[k]) : queue[k][i] = e
      BY <2>2, <2>5
    <3>2. ASSUME NEW l \in Keys, NEW j \in 1..Len(queue[l]), queue[l][j] = e
          PROVE  l = k /\ j = i
      <4>1. e \in Waiters(l)
        BY <2>2, <3>2
      <4>2. l = k
        BY <2>5, <4>1 DEF QueuedOnce
      <4> QED
        BY <3>1, <3>2, <4>2 DEF QueuedOnce, NoRepeats
    <3>3. BlockedAt(e) = {<<k, i>>}
      <4>1. <<k, i>> \in BlockedAt(e)
        BY <2>3, <3>1
      <4>2. \A p \in BlockedAt(e) : p = <<k, i>>
        BY <2>3, <3>2
      <4> QED
        BY <4>1, <4>2
    <3>4. Cardinality(BlockedAt(e)) = 1
      BY <3>3, FS_Singleton
    <3>5. ready[e] = 0 /\ running # e
      BY <2>5 DEF QueuedIsIdle
    <3> QED
      BY <2>5, <3>4, <3>5 DEF Places, Placed
  <2> QED
    BY <2>4, <2>5 DEF PlacedIsPresent
<1> QED
  BY <1>1, PlaceInvariant, PTL

-----------------------------------------------------------------------------
(* Planificador implements KeyLocks: each step of the two threads and of the *)
(* ESIs is an Acquire, a Wait, a Release or a Leave of one ESI, or none of   *)
(* the locks' business.                                                      *)

Holders == [k \in Keys |-> {e \in Esis : locked[e][k] > 0}]
Waiting == [k \in Keys |-> Waiters(k)]

\* The refinement mapping, written out.
LEMMA Mapping ==
  /\ Locks!Init <=> /\ Holders = [k \in Keys |-> {}]
                    /\ Waiting = [k \in Keys |-> {}]
  /\ UNCHANGED <<Holders, Waiting>> => UNCHANGED Locks!lockVars
BY DEF Locks!Init, Locks!lockVars, Holders, Waiting, Waiters

\* Steps of which the locks know nothing.
LEMMA Unseen ==
  ASSUME UNCHANGED <<locked, queue>>
  PROVE  UNCHANGED Locks!lockVars
BY Mapping DEF Holders, Waiting, Waiters

\* The first of a queue waits in it, and an empty queue has no waiters.
LEMMA HeadWaits ==
  ASSUME TypeInv, NEW k \in Keys
  PROVE  /\ queue[k] # <<>> => Head(queue[k]) \in Waiters(k)
                               /\ Head(queue[k]) \in Esis
         /\ queue[k] = <<>> => Waiters(k) = {}
<1>1. queue[k] \in Seq(Esis)
  BY DEF TypeInv, TypeOK, TablesTypeOK
<1>2. CASE queue[k] # <<>>
  <2>1. Head(queue[k]) = queue[k][1] /\ 1 \in 1..Len(queue[k])
        /\ Head(queue[k]) \in Esis
    BY <1>1, <1>2
  <2> QED
    BY <1>1, <1>2, <2>1, RangeIsElements DEF Waiters
<1>3. CASE queue[k] = <<>>
  <2>1. Range(queue[k]) = {}
    BY <1>3 DEF Range
  <2> QED
    BY <1>3, <2>1 DEF Waiters
<1> QED
  BY <1>2, <1>3

\* A queue loses its first ESI in a release of its key, and no other.
LEMMA WokenOfQueue ==
  ASSUME TypeInv, QueuedOnce, NEW times \in [Keys -> Nat], NEW k \in Keys
  PROVE  Woken(times) \cap Waiters(k) =
            IF times[k] > 0 /\ queue[k] # <<>> THEN {Head(queue[k])} ELSE {}
<1>1. \A l \in Keys : queue[l] # <<>> => Head(queue[l]) \in Waiters(l)
  BY HeadWaits
<1>2. ASSUME NEW f \in Woken(times) \cap Waiters(k)
      PROVE  times[k] > 0 /\ queue[k] # <<>> /\ f = Head(queue[k])
  <2>1. PICK l \in Keys : times[l] > 0 /\ queue[l] # <<>> /\ f = Head(queue[l])
    BY DEF Woken
  <2>2. l = k
    BY <1>1, <2>1 DEF QueuedOnce
  <2> QED
    BY <2>1, <2>2
<1>3. times[k] > 0 /\ queue[k] # <<>>
         => Head(queue[k]) \in Woken(times) \cap Waiters(k)
  BY <1>1 DEF Woken
<1> QED
  BY <1>2, <1>3

\* The queues after a release of the keys ks are those of Wakes: of each queue
\* of those keys one ESI is woken, and those of leaving go as well.
LEMMA WakesOne ==
  ASSUME TypeInv, QueuedOnce, NEW times \in [Keys -> Nat],
         NEW ks \in SUBSET Keys, \A k \in Keys : k \in ks <=> times[k] > 0,
         NEW leaving,
         \A k \in Keys :
            Range(queue'[k]) = Waiters(k) \ (Woken(times) \union leaving)
  PROVE  Locks!Wakes(ks, leaving)
<1> DEFINE awaited == {k \in ks : Waiting[k] # {}}
           woken == [k \in awaited |-> Head(queue[k])]
<1>1. \A k \in Keys : queue[k] \in Seq(Esis) /\ Waiting[k] = Waiters(k)
  BY DEF TypeInv, TypeOK, TablesTypeOK, Waiting
<1>2. \A k \in Keys : queue[k] # <<>> =>
         Head(queue[k]) \in Waiters(k) /\ Head(queue[k]) \in Esis
  BY HeadWaits
<1>3. \A k \in Keys : queue[k] = <<>> <=> Waiters(k) = {}
  BY HeadWaits
<1>4. \A k \in Keys : k \in awaited <=> times[k] > 0 /\ queue[k] # <<>>
  BY <1>1, <1>3
<1>5. woken \in [awaited -> Esis] /\ \A k \in awaited : woken[k] \in Waiting[k]
  BY <1>1, <1>2, <1>4
<1>6. \A k \in Keys : Range(queue'[k]) =
         Waiters(k) \ (leaving \union {woken[j] : j \in awaited \cap {k}})
  <2> SUFFICES ASSUME NEW k \in Keys
               PROVE  Range(queue'[k]) = Waiters(k) \
                         (leaving \union {woken[j] : j \in awaited \cap {k}})
    OBVIOUS
  <2>1. Woken(times) \cap Waiters(k) =
           IF times[k] > 0 /\ queue[k] # <<>> THEN {Head(queue[k])} ELSE {}
    BY WokenOfQueue
  <2>2. {woken[j] : j \in awaited \cap {k}} =
           IF times[k] > 0 /\ queue[k] # <<>> THEN {Head(queue[k])} ELSE {}
    BY <1>4
  <2> QED
    BY <2>1, <2>2
<1> HIDE DEF woken
<1>7. Waiting' = [k \in Keys |->
         Waiting[k] \ (leaving \union {woken[j] : j \in awaited \cap {k}})]
  BY <1>1, <1>6 DEF Waiting, Waiters
<1> QED
  BY <1>5, <1>7 DEF Locks!Wakes, Waiting, Waiters

-----------------------------------------------------------------------------
(* The steps that the locks know of.                                        *)

\* Whoever is running, or has just been, waits for no key.
LEMMA RunningIsNotWaiting ==
  ASSUME PlacesAreRight, NEW e \in Esis, running = e
  PROVE  ~Locks!IsWaiting(e) /\ \A k \in Keys : e \notin Waiters(k)
<1>1. \A k \in Keys : e \notin Waiters(k)
  BY DEF PlacesAreRight, QueuedIsIdle
<1> QED
  BY <1>1 DEF Locks!IsWaiting, Waiters

\* BLOCK: the running ESI waits for the key it asked for.
LEMMA BlockIsWait ==
  ASSUME TypeInv, PlaceInv, NEW e \in Esis, running = e,
         NEW k \in Keys, k = keyRecieved, HandleBlock(e)
  PROVE  Locks!Wait(e, k)
<1>1. /\ queue' = [queue EXCEPT ![k] = Append(@, e)]
      /\ UNCHANGED locked
  BY DEF HandleBlock, BlockRunning
<1>2. queue \in [Keys -> Seq(Esis)]
  BY DEF TypeInv, TypeOK, TablesTypeOK
<1>3. \A l \in Keys : e \notin Waiters(l) /\ NoRepeats(queue[l])
  BY RunningIsNotWaiting DEF PlaceInv, PlacesAreRight, QueuedOnce
<1>4. /\ Waiters(k)' = Waiters(k) \union {e}
      /\ \A l \in Keys \ {k} : Waiters(l)' = Waiters(l)
  <2>1. queue[k] \in Seq(Esis)
    BY <1>2
  <2>2. queue'[k] = Append(queue[k], e)
    BY <1>1, <1>2
  <2>3. Range(queue'[k]) = Range(queue[k]) \union {e}
    BY <1>3, <2>1, <2>2, AppendOnce DEF Waiters
  <2>4. \A l \in Keys \ {k} : queue'[l] = queue[l]
    BY <1>1, <1>2
  <2> QED
    BY <2>3, <2>4 DEF Waiters
<1>5. Waiting' = [Waiting EXCEPT ![k] = @ \union {e}]
  <2>1. Waiting' = [l \in Keys |-> Waiters(l)']
    BY DEF Waiting
  <2>2. Waiting = [l \in Keys |-> Waiters(l)]
    BY DEF Waiting
  <2> QED
    BY <1>4, <2>1, <2>2
<1>6. UNCHANGED Holders
  BY <1>1 DEF Holders
<1>7. ~Locks!IsWaiting(e)
  BY RunningIsNotWaiting DEF PlaceInv
<1> QED
  BY <1>5, <1>6, <1>7 DEF Locks!Wait, Waiting, Waiters, Holders

\* LOCK: the running ESI gets a key that nobody has.
LEMMA LockIsAcquire ==
  ASSUME TypeInv, LockInv, PlaceInv, NEW e \in Esis, running = e,
         NEW k \in Keys, k = keyRecieved, HandleLock(e), ~Finishes(e)
  PROVE  Locks!Acquire(e, k)
<1>1. /\ locked' = LocksOf(e, LockedPlus(e, k)) /\ UNCHANGED queue
      /\ info[e].response = "LOCK"
  BY DEF HandleLock, Receives
<1>2. locked \in [Esis -> [Keys -> Nat]]
  BY DEF TypeInv, TypeOK, TablesTypeOK
<1>3. k \notin taken
  BY <1>1 DEF LockInv, AnswersHold
<1>4. k \notin ConfigKeys
  BY <1>3 DEF PlaceInv, ConfigIsKept
<1>5. \A f \in Esis : locked[f][k] = 0
  BY <1>2, <1>3 DEF LockInv, HeldIsTaken
<1>6. /\ locked'[e][k] = 1
      /\ \A f \in Esis, l \in Keys : f # e \/ l # k
            => locked'[f][l] = locked[f][l]
  BY <1>1, <1>2, <1>5 DEF LocksOf, LockedPlus
<1>7. Holders[k] = {}
  <2>1. ~(0 > 0)
    OBVIOUS
  <2> QED
    BY <1>5, <2>1 DEF Holders
<1>8. Holders' = [Holders EXCEPT ![k] = {e}]
  <2>1. {f \in Esis : locked'[f][k] > 0} = {e}
    BY <1>5, <1>6
  <2>2. \A l \in Keys \ {k} :
          {f \in Esis : locked'[f][l] > 0} = {f \in Esis : locked[f][l] > 0}
    BY <1>6
  <2> QED
    BY <2>1, <2>2 DEF Holders
<1>9. UNCHANGED Waiting
  BY <1>1 DEF Waiting, Waiters
<1>10. ~Locks!IsWaiting(e)
  BY RunningIsNotWaiting DEF PlaceInv
<1> QED
  BY <1>4, <1>7, <1>8, <1>9, <1>10
     DEF Locks!Acquire, Holders, Waiting, Waiters

\* STORE, or the end of a script: the keys that unlockEsi is called for are the
\* running ESI's, or the one that it got and gave back in the same line.
LEMMA FreeIsRelease ==
  ASSUME TypeInv, LockInv, PlaceInv, NEW e \in Esis, running = e,
         keyRecieved \in Keys, NEW times, times = Releases(info[e]),
         queue' = QueueAfter(times),
         \A f \in Esis, k \in Keys : locked'[f][k] > 0 <=>
            locked[f][k] > 0 /\ ~(f = e /\ times[k] > 0)
  PROVE  Locks!LockStep(e) \/ UNCHANGED Locks!lockVars
<1> DEFINE ks == {k \in Keys : times[k] > 0}
<1>1. times \in [Keys -> Nat] /\ \A k \in Keys : times[k] <= 1
  BY ReleasesType, OutcomeFrees DEF TypeInv, TypeOK
<1>2. \A k \in ks : locked[e][k] > 0 \/ k \notin taken
  BY OutcomeFrees
<1>3. \A k \in ks : Holders[k] \subseteq {e} /\ k \notin ConfigKeys
  <2> SUFFICES ASSUME NEW k \in ks
               PROVE  Holders[k] \subseteq {e} /\ k \notin ConfigKeys
    OBVIOUS
  <2>1. \A f \in Esis : locked[f][k] > 0 => f = e
    BY <1>2 DEF LockInv, MutualExclusion, HeldIsTaken
  <2>2. k \notin ConfigKeys
    <3>1. ~(0 > 0)
      OBVIOUS
    <3> QED
      BY <1>2, <3>1 DEF PlaceInv, ConfigIsKept
  <2> QED
    BY <2>1, <2>2 DEF Holders
<1>4. \A k \in Keys :
         Range(queue'[k]) = Waiters(k) \ (Woken(times) \union {})
  BY <1>1, WakesFirst DEF PlaceInv, PlacesAreRight
<1>5. Locks!Wakes(ks, {})
  BY <1>1, <1>4, WakesOne DEF PlaceInv, PlacesAreRight
<1>6. Holders' =
         [k \in Keys |-> IF k \in ks THEN Holders[k] \ {e} ELSE Holders[k]]
  <2>1. \A k \in Keys : {f \in Esis : locked'[f][k] > 0} =
           IF k \in ks THEN Holders[k] \ {e} ELSE Holders[k]
    BY DEF Holders
  <2> HIDE DEF ks
  <2> QED
    BY <2>1 DEF Holders
<1>7. ~Locks!IsWaiting(e)
  BY RunningIsNotWaiting DEF PlaceInv
<1>8. CASE ks # {}
  <2> HIDE DEF ks
  <2>1. Locks!Release(e, ks)
    BY <1>3, <1>5, <1>6, <1>7, <1>8 DEF Locks!Release, Locks!GivesBack, Holders
  <2>2. ks \in SUBSET Keys
    BY DEF ks
  <2> QED
    BY <2>1, <2>2 DEF Locks!LockStep
<1>9. CASE ks = {}
  <2>1. UNCHANGED Holders
    <3>1. Holders = [k \in Keys |-> Holders[k]]
      BY DEF Holders
    <3> QED
      BY <1>6, <1>9, <3>1
  <2>2. Woken(times) = {}
    BY <1>9 DEF Woken
  <2>3. UNCHANGED Waiting
    BY <1>4, <2>2 DEF Waiting, Waiters
  <2> QED
    BY <2>1, <2>3, Mapping
<1> QED
  BY <1>8, <1>9

\* abortEsi: a dead ESI gives its keys back and leaves the queues.
LEMMA DisconnectIsLeave ==
  ASSUME TypeInv, LockInv, PlaceInv, NEW e \in Esis,
         DisconnectReady(e) \/ DisconnectRunning(e) \/ DisconnectOther(e)
  PROVE  Locks!Leave(e)
<1> DEFINE ks == {k \in Keys : locked[e][k] > 0}
<1>1. locked \in [Esis -> [Keys -> Nat]] /\ locked[e] \in [Keys -> Nat]
  BY DEF TypeInv, TypeOK, TablesTypeOK
<1>2. ks = Locks!HeldBy(e)
  BY DEF Locks!HeldBy
<1>3. locked' = LocksOf(e, NothingHeld)
  BY DEF DisconnectReady, DisconnectRunning, DisconnectOther, FreesAll
<1>4. \A k \in Keys :
         Range(queue'[k]) = Waiters(k) \ (Woken(locked[e]) \union {e})
  <2>1. CASE DisconnectRunning(e)
    <3>1. \A k \in Keys : e \notin Waiters(k)
      BY <2>1, RunningIsNotWaiting DEF DisconnectRunning, PlaceInv
    <3>2. \A k \in Keys :
             Range(queue'[k]) = Waiters(k) \ (Woken(locked[e]) \union {})
      BY <2>1, DisconnectMoves
    <3> QED
      BY <3>1, <3>2
  <2>2. CASE ~DisconnectRunning(e)
    BY <2>2, DisconnectMoves
  <2> QED
    BY <2>1, <2>2
<1>5. Locks!Wakes(ks, {e})
  BY <1>1, <1>4, WakesOne DEF PlaceInv, PlacesAreRight
<1>6. Holders' =
         [k \in Keys |-> IF k \in ks THEN Holders[k] \ {e} ELSE Holders[k]]
  <2>1. \A f \in Esis, k \in Keys :
           locked'[f][k] = IF f = e THEN 0 ELSE locked[f][k]
    BY <1>1, <1>3 DEF LocksOf, NothingHeld
  <2>2. \A k \in Keys : {f \in Esis : locked'[f][k] > 0} =
           IF k \in ks THEN Holders[k] \ {e} ELSE Holders[k]
    <3>1. ~(0 > 0)
      OBVIOUS
    <3> QED
      BY <2>1, <3>1 DEF Holders
  <2> HIDE DEF ks
  <2> QED
    BY <2>2 DEF Holders
<1> HIDE DEF ks
<1> QED
  BY <1>2, <1>5, <1>6 DEF Locks!Leave, Locks!GivesBack, Holders

\* The end of abortEsi changes no queue: the dead ESI was on the CPU.
LEMMA AbortIsUnseen ==
  ASSUME TypeInv, OrderInv, PlaceInv, AbortEnds
  PROVE  UNCHANGED Locks!lockVars
<1>1. /\ queue' = SweepQueues(queue, dying) /\ UNCHANGED locked
      /\ running = dying /\ dying \in Esis
  BY DEF AbortEnds, PlaceInv, DyingRuns, OrderInv, AbortingIsOver
<1>2. queue \in [Keys -> Seq(Esis)]
  BY DEF TypeInv, TypeOK, TablesTypeOK
<1>3. \A k \in Keys : /\ NoRepeats(queue[k])
                      /\ queue[k] # <<>> => k \in allKeys
  BY DEF PlaceInv, PlacesAreRight, QueuedOnce, AwaitedIsKnown
<1>4. \A k \in Keys : Range(queue'[k]) = Waiters(k) \ {dying}
  BY <1>1, <1>2, <1>3, SweepsAll DEF Waiters
<1>5. \A k \in Keys : dying \notin Waiters(k)
  BY <1>1, RunningIsNotWaiting DEF PlaceInv
<1>6. \A k \in Keys : Range(queue'[k]) = Waiters(k)
  BY <1>4, <1>5
<1>7. UNCHANGED Waiting
  BY <1>6 DEF Waiting, Waiters
<1>8. UNCHANGED Holders
  BY <1>1 DEF Holders
<1> QED
  BY <1>7, <1>8, Mapping

\* handleEsiInformation, whatever the outcome.
LEMMA InformationRefines ==
  ASSUME TypeInv, OrderInv, LockInv, PlaceInv, NEW e \in Esis,
         HandleEsiInformation(e)
  PROVE  Locks!LockStep(e) \/ UNCHANGED Locks!lockVars
<1>1. HasInformed(e) /\ running # NoEsi
  BY DEF HandleEsiInformation, HandleSuccess, HandleLock, HandleBlock,
         HandleFree, HandleAbort, Receives, HasInformed
<1>2. running = e
  BY <1>1 DEF IsBusy, OrderInv, OneIsBusy
<1>3. keyRecieved \in Keys
  BY <1>1 DEF TypeInv, OperationsAreReal, HasInformed
<1>4. locked \in [Esis -> [Keys -> Nat]]
  BY DEF TypeInv, TypeOK, TablesTypeOK
<1>5. CASE HandleBlock(e)
  BY <1>2, <1>3, <1>5, BlockIsWait DEF Locks!LockStep
<1>6. CASE HandleAbort(e) \/ (HandleSuccess(e) /\ ~Finishes(e))
  BY <1>6, Unseen DEF HandleAbort, HandleSuccess
<1>7. CASE HandleLock(e) /\ ~Finishes(e)
  BY <1>2, <1>3, <1>7, LockIsAcquire DEF Locks!LockStep
<1>8. CASE \/ HandleFree(e) /\ ~Finishes(e)
           \/ (HandleSuccess(e) \/ HandleLock(e) \/ HandleFree(e)) /\ Finishes(e)
  <2>1. PICK times : times = Releases(info[e])
    OBVIOUS
  <2>2. queue' = QueueAfter(times)
    BY <1>8, <2>1 DEF HandleFree, Finishes, Release
  <2>3. ASSUME NEW f \in Esis, NEW k \in Keys
        PROVE  locked'[f][k] > 0 <=> locked[f][k] > 0 /\ ~(f = e /\ times[k] > 0)
    <3>1. CASE Finishes(e)
      <4>1. /\ locked' = LocksOf(e, NothingHeld)
            /\ info[e].esiStatus = "FINISHED"
            /\ info[e].response \in {"SUCCESS", "LOCK", "FREE"}
        BY <1>2, <1>8, <3>1 DEF Finishes, HandleSuccess, HandleLock, HandleFree,
                                Receives
      <4>2. locked[e][k] > 0 => times[k] > 0
        BY <1>2, <1>3, <2>1, <4>1, OutcomeFrees
      <4>3. locked'[f][k] = IF f = e THEN 0 ELSE locked[f][k]
        BY <1>4, <4>1 DEF LocksOf, NothingHeld
      <4> QED
        BY <4>2, <4>3
    <3>2. CASE HandleFree(e) /\ ~Finishes(e)
      <4>1. /\ locked' = LocksOf(e, LockedMinus(e, keyRecieved))
            /\ info[e].response = "FREE" /\ info[e].esiStatus = "NOTFINISHED"
        BY <1>2, <3>2 DEF HandleFree, Receives, Continues
      <4>2. locked[e][keyRecieved] = 1
        <5>1. locked[e][keyRecieved] > 0 /\ locked[e][keyRecieved] <= 1
          BY <1>3, <4>1 DEF LockInv, AnswersHold, HeldIsTaken
        <5> QED
          BY <1>3, <1>4, <5>1
      <4>3. times[k] = IF k = keyRecieved THEN 1 ELSE 0
        BY <2>1, <4>1 DEF Releases, Once
      <4>4. locked'[f][k] = IF f = e /\ k = keyRecieved THEN 0 ELSE locked[f][k]
        BY <1>4, <4>1, <4>2 DEF LocksOf, LockedMinus
      <4> QED
        BY <4>2, <4>3, <4>4
    <3> QED
      BY <1>8, <3>1, <3>2
  <2> QED
    BY <1>2, <1>3, <2>1, <2>2, <2>3, FreeIsRelease
<1> QED
  BY <1>5, <1>6, <1>7, <1>8 DEF HandleEsiInformation

-----------------------------------------------------------------------------
\* Initially no key is held or awaited.
LEMMA RefinesInit == Init => Locks!Init
<1> SUFFICES ASSUME Init PROVE Locks!Init
  OBVIOUS
<1>1. \A e \in Esis, k \in Keys : ~(locked[e][k] > 0)
  BY DEF Init
<1>2. Holders = [k \in Keys |-> {}]
  BY <1>1 DEF Holders
<1>3. \A k \in Keys : Waiters(k) = {}
  BY DEF Init, Waiters, Range
<1>4. Waiting = [k \in Keys |-> {}]
  BY <1>3 DEF Waiting
<1> QED
  BY <1>2, <1>4, Mapping

\* Every step of Next is a step of the locks or none.
LEMMA RefinesStep ==
  ASSUME NothingIsMoved
  PROVE  TypeInv /\ OrderInv /\ LockInv /\ PlaceInv /\ [Next]_vars
            => [Locks!Next]_(Locks!lockVars)
<1> SUFFICES ASSUME TypeInv, OrderInv, LockInv, PlaceInv, [Next]_vars
             PROVE  Locks!Next \/ UNCHANGED Locks!lockVars
  OBVIOUS
<1>1. ASSUME UNCHANGED <<locked, queue>>
      PROVE  UNCHANGED Locks!lockVars
  BY <1>1, Unseen
<1>2. CASE Crash \/ UNCHANGED vars
  BY <1>1, <1>2 DEF Crash, vars, tables
<1>3. CASE ConsoleQueuesCommand \/ ConsoleLocksMutex \/ ConsoleSticks \/ Typing
  BY <1>1, <1>3 DEF ConsoleQueuesCommand, ConsoleLocksMutex, ConsoleSticks,
     Typing, ConsoleReads, tables
<1>4. CASE ConsoleExecutes \/ DrainCommand
  BY <1>1, <1>4, CommandMovesNothing
<1>5. CASE MainSchedules \/ ConsoleKicks
  BY <1>1, <1>5 DEF MainSchedules, ConsoleKicks, ExecuteInstruccion
<1>6. CASE DrainEnds \/ SetFinishedExecuting \/ MainSticks \/ HandleStatusResponse
  BY <1>1, <1>6 DEF DrainEnds, SetFinishedExecuting, MainSticks,
     HandleStatusResponse, Crash, tables
<1>7. CASE AbortEnds
  BY <1>7, AbortIsUnseen
<1>8. CASE \E e \in Esis :
             EsiConnects(e) \/ HandleKeyStatus(e) \/ EsiStep(e)
  BY <1>1, <1>8 DEF EsiConnects, HandleKeyStatus, EsiStep, EsiRunsLine,
     EsiRejectsLine, EsiIsKilled, EsiAnswers, planificadorUnchanged, tables
<1>9. CASE \E e \in Esis : HandleEsiInformation(e)
  BY <1>9, InformationRefines DEF Locks!Next
<1>10. CASE \E e \in Esis :
              DisconnectReady(e) \/ DisconnectRunning(e) \/ DisconnectOther(e)
  BY <1>10, DisconnectIsLeave DEF Locks!Next, Locks!LockStep
<1>11. CASE ScheduleCrashes
            \/ \E e \in Esis : InformationCrashes(e) \/ DisconnectReadyCrashes(e)
  BY <1>2, <1>11 DEF ScheduleCrashes, InformationCrashes, DisconnectReadyCrashes
<1> QED
  BY <1>2, <1>3, <1>4, <1>5, <1>6, <1>7, <1>8, <1>9, <1>10, <1>11
     DEF Next, SelectLoop, Console, Arrivals

\* The scheduler is a lock service: whatever becomes of ESIs and messages, a key
\* is given only when nobody has it, to an ESI that waits for none; what is
\* given back wakes one of those who wait, if any do; a dead ESI gives back all
\* it has; and who holds and who waits changes in no other way.
THEOREM PlanificadorIsALockService ==
  ASSUME NothingIsMoved
  PROVE  Spec => ImplementsKeyLocks
<1>1. Spec => [](TypeInv /\ OrderInv /\ LockInv /\ PlaceInv)
  BY PlaceInvariant
<1>2. Init => Locks!Init
  BY RefinesInit
<1>3. TypeInv /\ OrderInv /\ LockInv /\ PlaceInv /\ [Next]_vars
         => [Locks!Next]_(Locks!lockVars)
  BY RefinesStep
<1> QED
  BY <1>1, <1>2, <1>3, PTL DEF Spec, ImplementsKeyLocks, Locks!Spec
=============================================================================
