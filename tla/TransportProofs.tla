-------------------------- MODULE TransportProofs ---------------------------
(***************************************************************************)
(* Facts about the queue operations, for every depth of the queue; that    *)
(* every method of the transport keeps its members consistent, whatever    *)
(* kinds of transaction the producers put in the queue; and where the      *)
(* commands that wait go.                                                  *)
(***************************************************************************)
EXTENDS Transport, FiniteSetTheorems, WellFoundedInduction, TLAPS

(***************************************************************************)
(* A nonempty set of slots or of prefix lengths has a first element: the   *)
(* scans of enqueue_() and find_next_() find one.                          *)
(***************************************************************************)
LEMMA HasLeast ==
    ASSUME NEW S, S \subseteq Nat, S # {}
    PROVE  \E x \in S : \A y \in S : x <= y
<1>1. IsWellFoundedOn(OpToRel(<, Nat), Nat)
  BY NatLessThanWellFounded, Zenon
<1>2. PICK x \in S : \A y \in S : ~(<<y, x>> \in OpToRel(<, Nat))
  BY <1>1, WFMin, Zenon
<1>3. ASSUME NEW y \in S PROVE x <= y
  <2>1. x \in Nat /\ y \in Nat
    OBVIOUS
  <2>2. y < x => <<y, x>> \in OpToRel(<, Nat)
    BY <2>1, Zenon DEF OpToRel
  <2>3. ~(y < x)
    BY <1>2, <2>2, Zenon
  <2> QED
    BY <2>1, <2>3
<1> QED
  BY <1>3

(***************************************************************************)
(* The slot that enqueue_() and find_next_() settle on is one of the slots *)
(* they look for.                                                          *)
(***************************************************************************)
LEMMA MinOfSlots ==
    ASSUME NEW S, S \subseteq Nat, S # {}
    PROVE  Min(S) \in S /\ \A j \in S : Min(S) <= j
BY HasLeast DEF Min

-----------------------------------------------------------------------------

(***************************************************************************)
(* enqueue_() writes a slot of the array: the one with the identity, or a  *)
(* free one, or a victim, never past the end.                              *)
(***************************************************************************)
LEMMA PlacesAreSlots ==
    ASSUME NEW q, NEW t
    PROVE  Places(q, t) \subseteq Slots
BY DEF Places, Matching, Free, Victims, LeastImportant, Occupied

LEMMA PlaceTaken ==
    ASSUME QueueAssumption, NEW q, NEW t, Accepted(q, t)
    PROVE  /\ Min(Places(q, t)) \in Places(q, t)
           /\ Min(Places(q, t)) \in Slots
<1>1. Slots \subseteq Nat
  BY DEF Slots, QueueAssumption
<1>2. Places(q, t) \subseteq Nat /\ Places(q, t) # {}
  BY <1>1, PlacesAreSlots DEF Accepted
<1> QED
  BY <1>2, MinOfSlots, PlacesAreSlots

(***************************************************************************)
(* The kinds of transaction a user of the queue puts in it, if merging two *)
(* of one identity gives another of them.                                  *)
(***************************************************************************)
ClosedKind(T) ==
    /\ T \subseteq Txn
    /\ \A a, b \in T : Coalesced(a, b) \in T

(***************************************************************************)
(* Merging keeps the identity of the newcomer, whose fields but the count  *)
(* of attempts it has.                                                     *)
(***************************************************************************)
LEMMA CoalescedIsNew ==
    ASSUME NEW old, NEW t \in Txn
    PROVE  Identity(Coalesced(old, t)) = Identity(t)
BY DEF Coalesced, Identity, Txn

(***************************************************************************)
(* One enqueue_() keeps the array's type and its freedom of duplicates,    *)
(* whichever of the three places the transaction went to.                  *)
(***************************************************************************)
LEMMA EnqueueKeeps ==
    ASSUME QueueAssumption, NEW T, ClosedKind(T),
           NEW q \in [Slots -> T \cup {NoTxn}], NoDuplicates(q), NEW t \in T
    PROVE  /\ Enqueue(q, t) \in [Slots -> T \cup {NoTxn}]
           /\ NoDuplicates(Enqueue(q, t))
<1>1. CASE ~Accepted(q, t)
  BY <1>1 DEF Enqueue
<1>2. CASE Accepted(q, t)
  <2> DEFINE i == Min(Places(q, t))
             new == Coalesced(q[i], t)
  <2>1. i \in Places(q, t) /\ i \in Slots
    BY <1>2, PlaceTaken
  <2>2. Enqueue(q, t) = [q EXCEPT ![i] = new]
    BY <1>2 DEF Enqueue
  <2>3. new \in T
    BY <2>1 DEF ClosedKind, Coalesced
  <2>4. new # NoTxn /\ Identity(new) = Identity(t)
    BY <2>3, CoalescedIsNew DEF ClosedKind, QueueAssumption
  <2>5. \A j \in Occupied(q) : Identity(q[j]) = Identity(t) => j = i
    <3>1. CASE Matching(q, t) # {}
      BY <3>1, <2>1 DEF Places, Matching, NoDuplicates
    <3>2. CASE Matching(q, t) = {}
      BY <3>2 DEF Matching
    <3> QED
      BY <3>1, <3>2
  <2> HIDE DEF i, new
  <2>6. \A j \in Slots : Enqueue(q, t)[j] = IF j = i THEN new ELSE q[j]
    BY <2>2
  <2>7. NoDuplicates(Enqueue(q, t))
    BY <2>1, <2>4, <2>5, <2>6 DEF NoDuplicates, Occupied
  <2> QED
    BY <2>1, <2>2, <2>3, <2>7
<1> QED
  BY <1>1, <1>2

(***************************************************************************)
(* A handler's enqueue_() calls define one array after each of them: what  *)
(* EnqueueSteps says, without the recursion.                               *)
(***************************************************************************)
OneCall(q, t) == IF t = NoTxn THEN q ELSE Enqueue(q, t)

IsRun(f, n, q, ts) ==
    f = [k \in 0 .. n |->
            CASE k = 0 -> q
              [] k > 0 /\ ts[k] = NoTxn -> f[k - 1]
              [] k > 0 /\ ts[k] # NoTxn -> Enqueue(f[k - 1], ts[k])]

LEMMA RunSteps ==
    ASSUME NEW f, NEW n \in Nat, NEW q, NEW ts, IsRun(f, n, q, ts), NEW k \in 0 .. n
    PROVE  f[k] = IF k = 0 THEN q ELSE OneCall(f[k - 1], ts[k])
BY DEF IsRun, OneCall

LEMMA RunFromSteps ==
    ASSUME NEW n \in Nat, NEW f, f = [k \in 0 .. n |-> f[k]], NEW q, NEW ts,
           \A k \in 0 .. n : f[k] = IF k = 0 THEN q ELSE OneCall(f[k - 1], ts[k])
    PROVE  IsRun(f, n, q, ts)
<1>1. ASSUME NEW k \in 0 .. n
      PROVE  f[k] = CASE k = 0 -> q
                      [] k > 0 /\ ts[k] = NoTxn -> f[k - 1]
                      [] k > 0 /\ ts[k] # NoTxn -> Enqueue(f[k - 1], ts[k])
  <2>1. f[k] = IF k = 0 THEN q ELSE OneCall(f[k - 1], ts[k])
    OBVIOUS
  <2>2. k = 0 \/ k > 0
    OBVIOUS
  <2> QED
    BY <2>1, <2>2 DEF OneCall
<1> QED
  BY <1>1 DEF IsRun

LEMMA StepsExist ==
    ASSUME NEW q, NEW ts, Len(ts) \in Nat
    PROVE  \E f : IsRun(f, Len(ts), q, ts)
<1> DEFINE S == {n \in Nat : ~ \E f : IsRun(f, n, q, ts)}
<1>1. ASSUME S # {} PROVE FALSE
  <2>1. PICK n \in S : \A m \in S : n <= m
    BY <1>1, HasLeast
  <2>2. n # 0
    <3> DEFINE g == [k \in 0 .. 0 |-> q]
    <3>1. g = [k \in 0 .. 0 |-> g[k]]
      OBVIOUS
    <3>2. \A k \in 0 .. 0 : g[k] = IF k = 0 THEN q ELSE OneCall(g[k - 1], ts[k])
      OBVIOUS
    <3> HIDE DEF g
    <3>3. IsRun(g, 0, q, ts)
      BY <3>1, <3>2, RunFromSteps
    <3> QED
      BY <3>3
  <2>3. n \in Nat /\ n - 1 \in Nat /\ n - 1 \notin S
    BY <2>1, <2>2
  <2>4. PICK f : IsRun(f, n - 1, q, ts)
    BY <2>3
  <2> DEFINE g == [k \in 0 .. n |-> IF k = n THEN OneCall(f[n - 1], ts[n]) ELSE f[k]]
  <2>5. \A k \in 0 .. n - 1 : f[k] = IF k = 0 THEN q ELSE OneCall(f[k - 1], ts[k])
    BY <2>3, <2>4, RunSteps
  <2>6. ASSUME NEW k \in 0 .. n
        PROVE  g[k] = IF k = 0 THEN q ELSE OneCall(g[k - 1], ts[k])
    <3>1. CASE k = n
      BY <3>1, <2>2, <2>3
    <3>2. CASE k # n
      <4>1. k \in 0 .. n - 1 /\ g[k] = f[k]
        BY <3>2, <2>3
      <4>2. k # 0 => g[k - 1] = f[k - 1]
        BY <3>2, <2>3
      <4> HIDE DEF g
      <4> QED
        BY <4>1, <4>2, <2>5
    <3> QED
      BY <3>1, <3>2
  <2>7. IsRun(g, n, q, ts)
    <3>1. g = [k \in 0 .. n |-> g[k]]
      OBVIOUS
    <3> HIDE DEF g
    <3> QED
      BY <3>1, <2>3, <2>6, RunFromSteps
  <2> QED
    BY <2>1, <2>7
<1> QED
  BY <1>1

LEMMA StepsAreRun ==
    ASSUME NEW q, NEW ts, Len(ts) \in Nat
    PROVE  IsRun(EnqueueSteps(q, ts), Len(ts), q, ts)
<1>1. \E f : IsRun(f, Len(ts), q, ts)
  BY StepsExist
<1> QED
  BY <1>1 DEF IsRun, EnqueueSteps

LEMMA EachCall ==
    ASSUME NEW q, NEW ts, Len(ts) \in Nat, NEW k \in 0 .. Len(ts)
    PROVE  EnqueueSteps(q, ts)[k] =
             IF k = 0 THEN q ELSE OneCall(EnqueueSteps(q, ts)[k - 1], ts[k])
<1> DEFINE f == EnqueueSteps(q, ts)
           n == Len(ts)
<1>1. IsRun(f, n, q, ts)
  BY StepsAreRun
<1> HIDE DEF f, n
<1>2. n \in Nat /\ k \in 0 .. n
  BY DEF n
<1>3. f[k] = IF k = 0 THEN q ELSE OneCall(f[k - 1], ts[k])
  BY <1>1, <1>2, RunSteps
<1> QED
  BY <1>3 DEF f

(***************************************************************************)
(* So does a handler's whole sequence of enqueue_() calls: the refresh     *)
(* burst, or the reads on_platform_() queues.                              *)
(***************************************************************************)
LEMMA EnqueueAllKeeps ==
    ASSUME QueueAssumption, NEW T, ClosedKind(T),
           NEW q \in [Slots -> T \cup {NoTxn}], NoDuplicates(q),
           NEW ts \in Seq(T \cup {NoTxn})
    PROVE  /\ EnqueueAll(q, ts) \in [Slots -> T \cup {NoTxn}]
           /\ NoDuplicates(EnqueueAll(q, ts))
<1> DEFINE f == EnqueueSteps(q, ts)
           Good(n) == f[n] \in [Slots -> T \cup {NoTxn}] /\ NoDuplicates(f[n])
           S == {n \in 0 .. Len(ts) : ~Good(n)}
<1>1. Len(ts) \in Nat /\ \A n \in 1 .. Len(ts) : ts[n] \in T \cup {NoTxn}
  OBVIOUS
<1>2. \A n \in 0 .. Len(ts) : f[n] = IF n = 0 THEN q ELSE OneCall(f[n - 1], ts[n])
  BY <1>1, EachCall
<1> HIDE DEF f
<1>3. ASSUME S # {} PROVE FALSE
  <2>1. S \subseteq Nat
    BY <1>1
  <2>2. PICK n \in S : \A m \in S : n <= m
    <3> HIDE DEF S
    <3> QED
      BY <2>1, <1>3, HasLeast
  <2>3. n # 0
    BY <1>1, <1>2
  <2>4. n \in 1 .. Len(ts) /\ n - 1 \in 0 .. Len(ts) /\ n - 1 \notin S
    BY <1>1, <2>2, <2>3
  <2>5. Good(n - 1)
    BY <2>4
  <2>6. f[n] = OneCall(f[n - 1], ts[n]) /\ ts[n] \in T \cup {NoTxn}
    BY <1>1, <1>2, <2>3, <2>4
  <2>7. Good(n)
    BY <2>5, <2>6, EnqueueKeeps DEF OneCall
  <2> QED
    BY <2>7
<1>4. Good(Len(ts))
  BY <1>1, <1>3
<1> QED
  BY <1>4 DEF EnqueueAll, f

(***************************************************************************)
(* find_next_() finds a slot that holds a transaction, and none that waits *)
(* is more important.                                                      *)
(***************************************************************************)
LEMMA FindNextOccupied ==
    ASSUME QueueAssumption, NEW q \in Queues, Occupied(q) # {}
    PROVE  /\ FindNext(q) \in Occupied(q)
           /\ \A j \in Occupied(q) : q[FindNext(q)].priority <= q[j].priority
<1> DEFINE P == {q[j].priority : j \in Occupied(q)}
<1>1. \A j \in Occupied(q) : q[j] \in Txn /\ q[j].priority \in Nat
  BY DEF Queues, Occupied, Txn, Priorities
<1>2. P \subseteq Nat /\ P # {}
  BY <1>1
<1>3. PICK p \in P : \A r \in P : p <= r
  BY <1>2, HasLeast
<1>4. MostImportant(q) # {}
  BY <1>3 DEF MostImportant
<1>5. MostImportant(q) \subseteq Nat
  BY DEF MostImportant, Occupied, Slots, QueueAssumption
<1>6. FindNext(q) \in MostImportant(q)
  BY <1>4, <1>5, MinOfSlots DEF FindNext
<1> QED
  BY <1>6 DEF MostImportant

-----------------------------------------------------------------------------

LEMMA FreeIsFinite ==
    ASSUME QueueAssumption, NEW q
    PROVE  IsFiniteSet(Free(q)) /\ QueueFree(q) \in Nat
<1>1. IsFiniteSet(Slots)
  BY FS_Interval DEF Slots, QueueAssumption
<1>2. Free(q) \subseteq Slots
  BY DEF Free
<1>3. IsFiniteSet(Free(q))
  BY <1>1, <1>2, FS_Subset
<1> QED
  BY <1>3, FS_CardinalityType DEF QueueFree

(***************************************************************************)
(* While a slot is free, enqueue_() evicts nothing and takes at most one.  *)
(***************************************************************************)
LEMMA EnqueueWithRoom ==
    ASSUME QueueAssumption, NEW T, ClosedKind(T),
           NEW q \in [Slots -> T \cup {NoTxn}], NEW t \in T, Free(q) # {}
    PROVE  /\ Enqueue(q, t) \in [Slots -> T \cup {NoTxn}]
           /\ WaitingIds(q) \cup {Identity(t)} \subseteq WaitingIds(Enqueue(q, t))
           /\ QueueFree(Enqueue(q, t)) >= QueueFree(q) - 1
<1> DEFINE i == Min(Places(q, t))
           new == Coalesced(q[i], t)
           after == Enqueue(q, t)
<1>1. Accepted(q, t)
  BY DEF Accepted, Places
<1>2. i \in Places(q, t) /\ i \in Slots
  BY <1>1, PlaceTaken
<1>3. after = [q EXCEPT ![i] = new]
  BY <1>1 DEF Enqueue
<1>4. new \in T
  BY <1>2 DEF ClosedKind, Coalesced
<1>5. new # NoTxn /\ Identity(new) = Identity(t)
  BY <1>4, CoalescedIsNew DEF ClosedKind, QueueAssumption
<1>6. q[i] = NoTxn \/ Identity(q[i]) = Identity(t)
  <2>1. i \in Matching(q, t) \/ i \in Free(q)
    BY <1>2 DEF Places
  <2> QED
    BY <1>2, <2>1 DEF Matching, Free, Occupied
<1> HIDE DEF i, new, after
<1>7. after \in [Slots -> T \cup {NoTxn}]
  BY <1>3, <1>4
<1>8. \A j \in Slots : after[j] = IF j = i THEN new ELSE q[j]
  BY <1>3
<1>9. Identity(t) \in WaitingIds(after)
  BY <1>2, <1>5, <1>8 DEF WaitingIds, Waiting, Occupied
<1>10. ASSUME NEW j \in Occupied(q)
       PROVE  Identity(q[j]) \in WaitingIds(after)
  <2>1. CASE j = i
    BY <1>6, <1>9, <2>1 DEF Occupied
  <2>2. CASE j # i
    BY <1>8, <2>2 DEF Occupied, WaitingIds, Waiting
  <2> QED
    BY <2>1, <2>2
<1>11. WaitingIds(q) \subseteq WaitingIds(after)
  BY <1>10 DEF WaitingIds, Waiting
<1>12. QueueFree(after) >= QueueFree(q) - 1
  <2>1. Free(q) \ {i} \subseteq Free(after)
    BY <1>8 DEF Free, Occupied
  <2>2. /\ IsFiniteSet(Free(q)) /\ IsFiniteSet(Free(after))
        /\ QueueFree(q) \in Nat /\ QueueFree(after) \in Nat
    BY FreeIsFinite
  <2>3. /\ IsFiniteSet(Free(q) \ {i})
        /\ Cardinality(Free(q) \ {i}) \in {Cardinality(Free(q)), Cardinality(Free(q)) - 1}
    BY <2>2, FS_RemoveElement
  <2>4. Cardinality(Free(q) \ {i}) <= Cardinality(Free(after))
    BY <2>1, <2>2, FS_Subset
  <2>5. Cardinality(Free(q) \ {i}) \in Nat
    BY <2>3, FS_CardinalityType
  <2> QED
    BY <2>2, <2>3, <2>4, <2>5 DEF QueueFree
<1> QED
  BY <1>7, <1>9, <1>11, <1>12 DEF after

\* The calls of ts that are still to come after the first n.
RestOf(ts, n) == {i \in DOMAIN ts : i > n /\ ts[i] # NoTxn}

(***************************************************************************)
(* A sequence of enqueue_() calls that the queue has room for, as loop()   *)
(* checks before a burst, evicts nothing, and all of it waits at the end.  *)
(***************************************************************************)
LEMMA EnqueueAllWithRoom ==
    ASSUME QueueAssumption, NEW T, ClosedKind(T),
           NEW q \in [Slots -> T \cup {NoTxn}], NEW ts \in Seq(T \cup {NoTxn}),
           QueueFree(q) >= Cardinality({i \in DOMAIN ts : ts[i] # NoTxn})
    PROVE  /\ WaitingIds(q) \subseteq WaitingIds(EnqueueAll(q, ts))
           /\ \A i \in DOMAIN ts : ts[i] # NoTxn => Identity(ts[i]) \in WaitingIds(EnqueueAll(q, ts))
<1> DEFINE f == EnqueueSteps(q, ts)
           Good(n) == /\ f[n] \in [Slots -> T \cup {NoTxn}]
                      /\ WaitingIds(q) \subseteq WaitingIds(f[n])
                      /\ \A i \in 1 .. n : ts[i] # NoTxn => Identity(ts[i]) \in WaitingIds(f[n])
                      /\ QueueFree(f[n]) >= Cardinality(RestOf(ts, n))
           S == {n \in 0 .. Len(ts) : ~Good(n)}
<1>1. Len(ts) \in Nat /\ DOMAIN ts = 1 .. Len(ts) /\ \A n \in 1 .. Len(ts) : ts[n] \in T \cup {NoTxn}
  OBVIOUS
<1>2. \A n \in 0 .. Len(ts) : f[n] = IF n = 0 THEN q ELSE OneCall(f[n - 1], ts[n])
  BY <1>1, EachCall
<1>3. \A n \in Nat : IsFiniteSet(RestOf(ts, n)) /\ Cardinality(RestOf(ts, n)) \in Nat
  <2> SUFFICES ASSUME NEW n \in Nat
               PROVE  IsFiniteSet(RestOf(ts, n)) /\ Cardinality(RestOf(ts, n)) \in Nat
    OBVIOUS
  <2>1. IsFiniteSet(1 .. Len(ts)) /\ RestOf(ts, n) \subseteq 1 .. Len(ts)
    BY <1>1, FS_Interval DEF RestOf
  <2> QED
    BY <2>1, FS_Subset, FS_CardinalityType
<1> HIDE DEF f
<1>4. Good(0)
  <2> DEFINE all == {i \in DOMAIN ts : ts[i] # NoTxn}
  <2>1. QueueFree(q) >= Cardinality(all)
    OBVIOUS
  <2>2. RestOf(ts, 0) = all
    BY <1>1 DEF RestOf
  <2>3. f[0] = q
    BY <1>1, <1>2
  <2> HIDE DEF all
  <2> QED
    BY <2>1, <2>2, <2>3
<1>5. ASSUME S # {} PROVE FALSE
  <2>1. S \subseteq Nat
    BY <1>1
  <2>2. PICK n \in S : \A m \in S : n <= m
    <3> HIDE DEF S
    <3> QED
      BY <2>1, <1>5, HasLeast
  <2>3. n # 0
    BY <1>4, <2>2
  <2>4. n \in 1 .. Len(ts) /\ n \in Nat /\ n - 1 \in Nat /\ n - 1 \in 0 .. Len(ts) /\ n - 1 \notin S
    BY <1>1, <2>2, <2>3
  <2>5. Good(n - 1)
    BY <2>4
  <2>6. f[n] = OneCall(f[n - 1], ts[n]) /\ ts[n] \in T \cup {NoTxn}
    BY <1>1, <1>2, <2>3, <2>4
  <2>7. CASE ts[n] = NoTxn
    <3>1. f[n] = f[n - 1]
      BY <2>6, <2>7 DEF OneCall
    <3>2. RestOf(ts, n) = RestOf(ts, n - 1)
      BY <1>1, <2>4, <2>7 DEF RestOf
    <3>3. \A i \in 1 .. n : ts[i] # NoTxn => i \in 1 .. n - 1
      BY <2>4, <2>7
    <3>4. Good(n)
      BY <2>5, <3>1, <3>2, <3>3
    <3> QED
      BY <2>2, <3>4
  <2>8. CASE ts[n] # NoTxn
    <3>1. f[n] = Enqueue(f[n - 1], ts[n]) /\ ts[n] \in T
      BY <2>6, <2>8 DEF OneCall
    <3>2. RestOf(ts, n) = RestOf(ts, n - 1) \ {n} /\ n \in RestOf(ts, n - 1)
      BY <1>1, <2>4, <2>8 DEF RestOf
    <3>3. Cardinality(RestOf(ts, n)) = Cardinality(RestOf(ts, n - 1)) - 1
      <4> DEFINE rest == RestOf(ts, n - 1)
      <4>1. IsFiniteSet(rest) /\ n \in rest /\ RestOf(ts, n) = rest \ {n}
        BY <1>3, <2>4, <3>2
      <4> HIDE DEF rest
      <4>2. Cardinality(rest \ {n}) = Cardinality(rest) - 1
        BY <4>1, FS_RemoveElement
      <4> QED
        BY <4>1, <4>2 DEF rest
    <3>4. QueueFree(f[n - 1]) \in Nat /\ QueueFree(f[n - 1]) >= 1
      BY <1>3, <2>4, <2>5, <3>3, FreeIsFinite
    <3>5. Free(f[n - 1]) # {}
      <4> DEFINE free == Free(f[n - 1])
      <4>1. Cardinality(free) >= 1
        BY <3>4 DEF QueueFree
      <4> HIDE DEF free
      <4>2. Cardinality(free) # 0
        BY <4>1
      <4>3. free # {}
        BY <4>2, FS_EmptySet, Zenon
      <4> QED
        BY <4>3 DEF free
    <3>6. /\ f[n] \in [Slots -> T \cup {NoTxn}]
          /\ WaitingIds(f[n - 1]) \cup {Identity(ts[n])} \subseteq WaitingIds(f[n])
          /\ QueueFree(f[n]) >= QueueFree(f[n - 1]) - 1
      BY <2>5, <3>1, <3>5, EnqueueWithRoom
    <3>7. QueueFree(f[n]) >= Cardinality(RestOf(ts, n))
      BY <1>3, <2>4, <2>5, <3>3, <3>4, <3>6, FreeIsFinite
    <3>8. \A i \in 1 .. n : ts[i] # NoTxn => Identity(ts[i]) \in WaitingIds(f[n])
      <4>1. \A i \in 1 .. n : i = n \/ i \in 1 .. n - 1
        BY <2>4
      <4> QED
        BY <2>5, <3>6, <4>1
    <3>9. Good(n)
      BY <2>5, <3>6, <3>7, <3>8
    <3> QED
      BY <2>2, <3>9
  <2> QED
    BY <2>7, <2>8
<1>6. Good(Len(ts))
  BY <1>1, <1>5
<1> QED
  BY <1>1, <1>6 DEF EnqueueAll, f

-----------------------------------------------------------------------------
(* The transport *)

(***************************************************************************)
(* The count of attempts that enqueue_() keeps is the higher of the two.   *)
(***************************************************************************)
LEMMA MaxOfTwo ==
    ASSUME NEW a \in Nat, NEW b \in Nat
    PROVE  Max({a, b}) \in {a, b} /\ Max({a, b}) >= a /\ Max({a, b}) >= b
<1>1. \E x \in {a, b} : \A y \in {a, b} : x >= y
  OBVIOUS
<1> QED
  BY <1>1 DEF Max

(***************************************************************************)
(* A kind that retry_or_drop_() does not leave either: a transaction with  *)
(* budget left may be put back with one more attempt.                      *)
(***************************************************************************)
RetriedKind(T) ==
    /\ ClosedKind(T)
    /\ \A t \in T : t.attempts < t.max_retries => [t EXCEPT !.attempts = @ + 1] \in T

HubsOf(T) ==
    [hub_state : HubStates, queue : [Slots -> T \cup {NoTxn}], current : T \cup {NoTxn},
     consecutive_failures : 0 .. CounterModulus - 1, identified : BOOLEAN]

(***************************************************************************)
(* The consistency of the transport's members: at most one transaction in  *)
(* flight and only in AWAIT_RESP, no duplicates in the queue, and an       *)
(* offline hub unidentified.                                               *)
(***************************************************************************)
Sound(T, h) ==
    /\ h \in HubsOf(T)
    /\ NoDuplicates(h.queue)
    /\ OneInFlight(h)
    /\ h.hub_state = "OFFLINE" => ~h.identified

LEMMA QueuedSound ==
    ASSUME QueueAssumption, NEW T, ClosedKind(T), NEW h, Sound(T, h), NEW t \in T
    PROVE  Sound(T, Queued(h, t))
<1>1. /\ Enqueue(h.queue, t) \in [Slots -> T \cup {NoTxn}]
      /\ NoDuplicates(Enqueue(h.queue, t))
  BY EnqueueKeeps DEF Sound, HubsOf
<1> QED
  BY <1>1 DEF Sound, HubsOf, Queued, OneInFlight

LEMMA QueuedAllSound ==
    ASSUME QueueAssumption, NEW T, ClosedKind(T), NEW h, Sound(T, h), NEW ts \in Seq(T \cup {NoTxn})
    PROVE  Sound(T, QueuedAll(h, ts))
<1>1. /\ EnqueueAll(h.queue, ts) \in [Slots -> T \cup {NoTxn}]
      /\ NoDuplicates(EnqueueAll(h.queue, ts))
  BY EnqueueAllKeeps DEF Sound, HubsOf
<1> QED
  BY <1>1 DEF Sound, HubsOf, QueuedAll, OneInFlight

LEMMA RejectedSound ==
    ASSUME TransportAssumption, NEW T, NEW h, Sound(T, h)
    PROVE  Sound(T, Rejected(h)) /\ Sound(T, Succeeded(h))
<1>1. Sound(T, Rejected(h))
  BY DEF Sound, HubsOf, HubStates, Rejected, OneInFlight
<1>2. 0 \in 0 .. CounterModulus - 1
  BY DEF TransportAssumption
<1> QED
  BY <1>1, <1>2 DEF Sound, HubsOf, Succeeded, OneInFlight

LEMMA EmptyQueueSound ==
    ASSUME NEW T
    PROVE  EmptyQueue \in [Slots -> T \cup {NoTxn}] /\ NoDuplicates(EmptyQueue)
BY DEF EmptyQueue, NoDuplicates, Occupied

LEMMA FailedSound ==
    ASSUME TransportAssumption, NEW T, NEW h, Sound(T, h)
    PROVE  Sound(T, Failed(h))
<1> DEFINE r == Rejected(h)
<1>1. Sound(T, r) /\ r.current = NoTxn
  BY RejectedSound DEF Sound, HubsOf, Rejected
<1>2. Sound(T, FailureCounted(h)) /\ FailureCounted(h).current = NoTxn
  <2>1. r.consecutive_failures \in Nat
    BY <1>1 DEF Sound, HubsOf, TransportAssumption
  <2>2. (r.consecutive_failures + 1) % CounterModulus \in 0 .. CounterModulus - 1
    BY <2>1 DEF TransportAssumption
  <2> HIDE DEF r
  <2>3. FailureCounted(h) = [r EXCEPT !.consecutive_failures = (@ + 1) % CounterModulus]
    BY DEF FailureCounted, r
  <2> QED
    BY <1>1, <2>2, <2>3 DEF Sound, HubsOf, OneInFlight
<1>3. Sound(T, GoneOffline(FailureCounted(h)))
  BY <1>2, EmptyQueueSound DEF Sound, HubsOf, HubStates, GoneOffline, OneInFlight
<1> QED
  BY <1>2, <1>3 DEF Failed

(***************************************************************************)
(* retry_or_drop_() on the transaction in flight.                          *)
(***************************************************************************)
LEMMA RetriedOrDroppedSound ==
    ASSUME QueueAssumption, TransportAssumption, NEW T, RetriedKind(T),
           NEW h, Sound(T, h), h.current # NoTxn
    PROVE  Sound(T, RetriedOrDropped(h))
<1>1. h.current \in T /\ h.current \in Txn
  BY DEF Sound, HubsOf, RetriedKind, ClosedKind
<1>2. CASE Exhausted(h)
  BY <1>2, FailedSound DEF RetriedOrDropped
<1>3. CASE ~Exhausted(h)
  <2>1. h.current.attempts < h.current.max_retries
    BY <1>1, <1>3 DEF Exhausted, Again, Txn
  <2>2. Again(h) \in T
    BY <1>1, <2>1 DEF Again, RetriedKind
  <2>3. /\ Enqueue(h.queue, Again(h)) \in [Slots -> T \cup {NoTxn}]
        /\ NoDuplicates(Enqueue(h.queue, Again(h)))
    BY <2>2, EnqueueKeeps DEF Sound, HubsOf, RetriedKind
  <2> QED
    BY <1>3, <2>3 DEF RetriedOrDropped, Requeued, Sound, HubsOf, HubStates, OneInFlight
<1> QED
  BY <1>2, <1>3

(***************************************************************************)
(* send_next_(): what goes out is a transaction, and its slot is freed.    *)
(***************************************************************************)
LEMMA NextOutIsTxn ==
    ASSUME QueueAssumption, NEW T, ClosedKind(T), NEW h, Sound(T, h), CanSend(h)
    PROVE  NextOut(h) \in T /\ FindNext(h.queue) \in Occupied(h.queue)
<1>1. h.queue \in Queues
  BY DEF Sound, HubsOf, ClosedKind, Queues
<1>2. FindNext(h.queue) \in Occupied(h.queue)
  BY <1>1, FindNextOccupied DEF CanSend
<1> QED
  BY <1>2 DEF NextOut, Occupied, Sound, HubsOf

LEMMA SentNextSound ==
    ASSUME QueueAssumption, NEW T, ClosedKind(T), NEW h, Sound(T, h)
    PROVE  Sound(T, SentNext(h))
<1>1. CASE ~CanSend(h)
  BY <1>1 DEF SentNext
<1>2. CASE CanSend(h)
  <2> DEFINE i == FindNext(h.queue)
             q == [h.queue EXCEPT ![i] = NoTxn]
  <2>1. NextOut(h) \in T /\ i \in Occupied(h.queue)
    BY <1>2, NextOutIsTxn
  <2>2. NextOut(h) # NoTxn
    BY <2>1 DEF ClosedKind, QueueAssumption
  <2>3. i \in Slots
    BY <2>1 DEF Occupied
  <2>4. SentNext(h) = [h EXCEPT !.hub_state = "AWAIT_RESP", !.current = NextOut(h), !.queue = q]
    BY <1>2 DEF SentNext, Sent
  <2> HIDE DEF i
  <2>5. q \in [Slots -> T \cup {NoTxn}] /\ NoDuplicates(q)
    BY <2>3 DEF Sound, HubsOf, NoDuplicates, Occupied
  <2> HIDE DEF q
  <2> QED
    BY <2>1, <2>2, <2>4, <2>5 DEF Sound, HubsOf, HubStates, OneInFlight
<1> QED
  BY <1>1, <1>2

LEMMA ProbedSound ==
    ASSUME QueueAssumption, NEW T, ClosedKind(T), ProbeTxn \in T,
           NEW h, Sound(T, h), h.current = NoTxn
    PROVE  Sound(T, Probed(h))
<1>1. Sound(T, Queued(h, ProbeTxn)) /\ Queued(h, ProbeTxn).current = NoTxn
  BY QueuedSound DEF Queued, Sound, HubsOf
<1> HIDE DEF Queued
<1> QED
  BY <1>1 DEF Probed, Sound, HubsOf, HubStates, OneInFlight

(***************************************************************************)
(* The parts of a pass of loop() that act on deadlines.                    *)
(***************************************************************************)
LEMMA AfterTimersSound ==
    ASSUME QueueAssumption, TransportAssumption, NEW T, RetriedKind(T),
           NEW h, Sound(T, h), NEW due
    PROVE  Sound(T, AfterTimers(h, due))
<1>1. CASE h.hub_state = "AWAIT_RESP" /\ "timeout" \in due
  <2>1. h.current # NoTxn
    BY <1>1 DEF Sound, OneInFlight
  <2> QED
    BY <1>1, <2>1, RetriedOrDroppedSound DEF AfterTimers
<1>2. CASE h.hub_state = "BACKOFF" /\ "backoff" \in due
  BY <1>2 DEF AfterTimers, Sound, HubsOf, HubStates, OneInFlight
<1>3. CASE /\ ~(h.hub_state = "AWAIT_RESP" /\ "timeout" \in due)
           /\ ~(h.hub_state = "BACKOFF" /\ "backoff" \in due)
  BY <1>3 DEF AfterTimers
<1> QED
  BY <1>1, <1>2, <1>3

LEMMA AfterReprobeSound ==
    ASSUME QueueAssumption, NEW T, ClosedKind(T), ProbeTxn \in T,
           NEW h, Sound(T, h), NEW due
    PROVE  Sound(T, AfterReprobe(h, due))
<1>1. CASE ProbeDue(h, due)
  <2>1. h.current = NoTxn
    BY <1>1 DEF ProbeDue, Sound, OneInFlight
  <2> QED
    BY <1>1, <2>1, ProbedSound DEF AfterReprobe
<1>2. CASE ~ProbeDue(h, due)
  BY <1>2 DEF AfterReprobe
<1> QED
  BY <1>1, <1>2

-----------------------------------------------------------------------------
(* The commands that wait *)

(***************************************************************************)
(* One enqueue_() evicts a waiting command only out of a queue full of     *)
(* commands, whatever it puts in; one that puts in a command leaves the    *)
(* request waiting as a command, or the queue full of commands.            *)
(***************************************************************************)
CommandWaits(q, id) == \E j \in Occupied(q) : q[j].priority = 0 /\ Identity(q[j]) = id

LEMMA EnqueueCommands ==
    ASSUME QueueAssumption, NEW T, ClosedKind(T),
           NEW q \in [Slots -> T \cup {NoTxn}], NEW t \in T, NEW id, CommandWaits(q, id)
    PROVE  /\ id \in WaitingIds(Enqueue(q, t)) \/ FullOfCommands(q)
           /\ t.priority = 0 => CommandWaits(Enqueue(q, t), id) \/ FullOfCommands(q)
<1>1. PICK k \in Occupied(q) : q[k].priority = 0 /\ Identity(q[k]) = id
  BY DEF CommandWaits
<1>2. CASE ~Accepted(q, t)
  BY <1>1, <1>2 DEF Enqueue, CommandWaits, WaitingIds, Waiting
<1>3. CASE Accepted(q, t)
  <2> DEFINE i == Min(Places(q, t))
             new == Coalesced(q[i], t)
             after == Enqueue(q, t)
  <2>1. i \in Places(q, t) /\ i \in Slots
    BY <1>3, PlaceTaken
  <2>2. after = [q EXCEPT ![i] = new]
    BY <1>3 DEF Enqueue
  <2>3. new \in T
    BY <2>1 DEF ClosedKind, Coalesced
  <2>4. new # NoTxn /\ Identity(new) = Identity(t)
    BY <2>3, CoalescedIsNew DEF ClosedKind, QueueAssumption
  <2>5. new.priority = t.priority
    BY DEF Coalesced, ClosedKind, Txn
  <2>6. i \in Victims(q, t) \/ Identity(q[i]) = Identity(t) \/ q[i] = NoTxn
    BY <2>1 DEF Places, Matching, Free, Occupied
  <2> HIDE DEF i, new, after
  <2>7. \A j \in Slots : after[j] = IF j = i THEN new ELSE q[j]
    BY <2>2
  <2>8. CASE k # i
    <3>1. k \in Occupied(after) /\ after[k] = q[k]
      BY <2>7, <2>8 DEF Occupied
    <3> QED
      BY <1>1, <3>1 DEF CommandWaits, WaitingIds, Waiting, after
  <2>9. CASE k = i /\ Identity(q[i]) = Identity(t)
    <3>1. i \in Occupied(after) /\ after[i] = new
      BY <2>1, <2>4, <2>7 DEF Occupied
    <3> QED
      BY <1>1, <2>4, <2>5, <2>9, <3>1 DEF CommandWaits, WaitingIds, Waiting, after
  <2>10. CASE k = i /\ i \in Victims(q, t)
    <3>1. \A j \in Occupied(q) : q[j].priority <= 0 /\ q[j].priority \in Priorities
      BY <1>1, <2>10 DEF Victims, LeastImportant, Occupied, ClosedKind, Txn
    <3>2. \A j \in Slots : q[j] # NoTxn
      BY <2>10 DEF Victims, Free, Occupied
    <3>3. \A j \in Slots : q[j].priority = 0
      BY <3>1, <3>2 DEF Occupied, Priorities
    <3> QED
      BY <3>2, <3>3 DEF FullOfCommands, IsCommand
  <2>11. q[k] # NoTxn
    BY DEF Occupied
  <2> QED
    BY <2>6, <2>8, <2>9, <2>10, <2>11
<1> QED
  BY <1>2, <1>3

(***************************************************************************)
(* A queue full of commands stays full of them when another comes in.      *)
(***************************************************************************)
LEMMA EnqueueFull ==
    ASSUME QueueAssumption, NEW T, ClosedKind(T),
           NEW q \in [Slots -> T \cup {NoTxn}], NEW t \in T, t.priority = 0,
           FullOfCommands(q)
    PROVE  FullOfCommands(Enqueue(q, t))
<1>1. CASE ~Accepted(q, t)
  BY <1>1 DEF Enqueue
<1>2. CASE Accepted(q, t)
  <2> DEFINE i == Min(Places(q, t))
             new == Coalesced(q[i], t)
  <2>1. i \in Slots
    BY <1>2, PlaceTaken
  <2>2. Enqueue(q, t) = [q EXCEPT ![i] = new]
    BY <1>2 DEF Enqueue
  <2>3. new # NoTxn
    BY <2>1 DEF ClosedKind, Coalesced, QueueAssumption
  <2>4. new.priority = 0
    BY DEF Coalesced, ClosedKind, Txn
  <2> HIDE DEF i, new
  <2> QED
    BY <2>1, <2>2, <2>3, <2>4 DEF FullOfCommands, IsCommand
<1> QED
  BY <1>1, <1>2

(***************************************************************************)
(* So does the sequence of commands that on_platform_() queues.            *)
(***************************************************************************)
LEMMA EnqueueAllCommands ==
    ASSUME QueueAssumption, NEW T, ClosedKind(T),
           NEW q \in [Slots -> T \cup {NoTxn}], NoDuplicates(q),
           NEW ts \in Seq(T), \A i \in DOMAIN ts : ts[i].priority = 0,
           NEW id, CommandWaits(q, id)
    PROVE  id \in WaitingIds(EnqueueAll(q, ts)) \/ FullOfCommands(EnqueueAll(q, ts))
<1> DEFINE f == EnqueueSteps(q, ts)
           Good(n) == /\ f[n] \in [Slots -> T \cup {NoTxn}]
                      /\ NoDuplicates(f[n])
                      /\ CommandWaits(f[n], id) \/ FullOfCommands(f[n])
           S == {n \in 0 .. Len(ts) : ~Good(n)}
<1>1. Len(ts) \in Nat /\ \A n \in 1 .. Len(ts) : ts[n] \in T /\ ts[n].priority = 0
  OBVIOUS
<1>2. \A n \in 0 .. Len(ts) : f[n] = IF n = 0 THEN q ELSE OneCall(f[n - 1], ts[n])
  BY <1>1, EachCall
<1>3. NoTxn \notin T
  BY DEF ClosedKind, QueueAssumption
<1> HIDE DEF f
<1>4. ASSUME S # {} PROVE FALSE
  <2>1. S \subseteq Nat
    BY <1>1
  <2>2. PICK n \in S : \A m \in S : n <= m
    <3> HIDE DEF S
    <3> QED
      BY <2>1, <1>4, HasLeast
  <2>3. n # 0
    BY <1>1, <1>2
  <2>4. n \in 1 .. Len(ts) /\ n - 1 \in 0 .. Len(ts) /\ n - 1 \notin S
    BY <1>1, <2>2, <2>3
  <2>5. Good(n - 1)
    BY <2>4
  <2>6. f[n] = Enqueue(f[n - 1], ts[n]) /\ ts[n] \in T /\ ts[n].priority = 0
    BY <1>1, <1>2, <1>3, <2>3, <2>4 DEF OneCall
  <2>7. f[n] \in [Slots -> T \cup {NoTxn}] /\ NoDuplicates(f[n])
    BY <2>5, <2>6, EnqueueKeeps
  <2>8. FullOfCommands(f[n - 1]) => FullOfCommands(f[n])
    BY <2>5, <2>6, EnqueueFull
  <2>9. CommandWaits(f[n - 1], id) => CommandWaits(f[n], id) \/ FullOfCommands(f[n - 1])
    BY <2>5, <2>6, EnqueueCommands
  <2> QED
    BY <2>2, <2>5, <2>7, <2>8, <2>9
<1>5. Good(Len(ts))
  BY <1>1, <1>4
<1> QED
  BY <1>5 DEF EnqueueAll, f, CommandWaits, WaitingIds, Waiting

(***************************************************************************)
(* send_next_() takes one request out of the queue: the one in flight.     *)
(***************************************************************************)
Held(h) ==
    WaitingIds(h.queue) \cup (IF h.current = NoTxn THEN {} ELSE {Identity(h.current)})

LEMMA SentNextHolds ==
    ASSUME QueueAssumption, NEW T, ClosedKind(T), NEW h, Sound(T, h)
    PROVE  WaitingIds(h.queue) \subseteq Held(SentNext(h))
<1>1. CASE ~CanSend(h)
  BY <1>1 DEF SentNext, Held
<1>2. CASE CanSend(h)
  <2> DEFINE i == FindNext(h.queue)
             q == [h.queue EXCEPT ![i] = NoTxn]
             after == SentNext(h)
  <2>1. NextOut(h) \in T /\ i \in Occupied(h.queue)
    BY <1>2, NextOutIsTxn
  <2>2. NextOut(h) # NoTxn /\ NextOut(h) = h.queue[i]
    BY <2>1 DEF ClosedKind, QueueAssumption, NextOut
  <2>3. after.queue = q /\ after.current = NextOut(h)
    BY <1>2 DEF SentNext, Sent, Sound, HubsOf
  <2> HIDE DEF i, after
  <2>4. \A j \in Occupied(h.queue) : j = i \/ (j \in Occupied(q) /\ q[j] = h.queue[j])
    BY DEF Occupied, Sound, HubsOf
  <2> HIDE DEF q
  <2>5. ASSUME NEW j \in Occupied(h.queue) PROVE Identity(h.queue[j]) \in Held(after)
    <3>1. CASE j = i
      BY <2>2, <2>3, <3>1 DEF Held
    <3>2. CASE j # i
      BY <2>3, <2>4, <3>2 DEF Held, WaitingIds, Waiting
    <3> QED
      BY <3>1, <3>2
  <2> QED
    BY <2>5 DEF WaitingIds, Waiting, after
<1> QED
  BY <1>1, <1>2

(***************************************************************************)
(* enqueue_() never turns a command away: a full queue has a least         *)
(* important entry, and it does not outrank a command.  What is accepted   *)
(* waits.                                                                  *)
(***************************************************************************)
LEMMA CommandAccepted ==
    ASSUME QueueAssumption, NEW T, ClosedKind(T),
           NEW q \in [Slots -> T \cup {NoTxn}], NEW t \in T, t.priority = 0
    PROVE  Accepted(q, t)
<1>1. CASE Free(q) # {}
  BY <1>1 DEF Accepted, Places
<1>2. CASE Free(q) = {}
  <2>1. Occupied(q) = Slots
    BY <1>2 DEF Free, Occupied
  <2>2. \A i \in Slots : q[i].priority \in {0, 1, 2}
    BY <2>1 DEF Occupied, ClosedKind, Txn, Priorities
  <2>3. 1 \in Slots
    BY DEF Slots, QueueAssumption
  <2>4. PICK i \in Slots : \A j \in Slots : q[j].priority <= q[i].priority
    <3>1. CASE \E i \in Slots : q[i].priority = 2
      BY <2>2, <3>1
    <3>2. CASE ~(\E i \in Slots : q[i].priority = 2) /\ \E i \in Slots : q[i].priority = 1
      BY <2>2, <3>2
    <3>3. CASE \A i \in Slots : q[i].priority = 0
      BY <2>3, <3>3
    <3> QED
      BY <2>2, <3>1, <3>2, <3>3
  <2>5. i \in Victims(q, t)
    BY <1>2, <2>1, <2>2, <2>4 DEF Victims, LeastImportant
  <2> QED
    BY <1>2, <2>5 DEF Accepted, Places
<1> QED
  BY <1>1, <1>2

LEMMA AcceptedWaits ==
    ASSUME QueueAssumption, NEW T, ClosedKind(T),
           NEW q \in [Slots -> T \cup {NoTxn}], NEW t \in T, Accepted(q, t)
    PROVE  Identity(t) \in WaitingIds(Enqueue(q, t))
<1> DEFINE i == Min(Places(q, t))
           new == Coalesced(q[i], t)
           after == Enqueue(q, t)
<1>1. i \in Slots
  BY PlaceTaken
<1>2. after = [q EXCEPT ![i] = new]
  BY DEF Enqueue
<1>3. new \in T
  BY <1>1 DEF ClosedKind, Coalesced
<1>4. new # NoTxn /\ Identity(new) = Identity(t)
  BY <1>3, CoalescedIsNew DEF ClosedKind, QueueAssumption
<1> HIDE DEF i, new, after
<1>5. i \in Occupied(after) /\ after[i] = new
  BY <1>1, <1>2, <1>4 DEF Occupied
<1> QED
  BY <1>4, <1>5 DEF WaitingIds, Waiting, after

(***************************************************************************)
(* A producer that checks the room first (loop()'s refresh burst) queues   *)
(* nothing into a queue full of commands.                                  *)
(***************************************************************************)
LEMMA NoRoomInFull ==
    ASSUME QueueAssumption, NEW T, ClosedKind(T),
           NEW q \in [Slots -> T \cup {NoTxn}], FullOfCommands(q),
           NEW ts \in Seq(T), QueueFree(q) >= Len(ts)
    PROVE  EnqueueAll(q, ts) = q
<1>1. Free(q) = {}
  BY DEF Free, Occupied, FullOfCommands, IsCommand
<1>2. QueueFree(q) = 0
  BY <1>1, FS_EmptySet DEF QueueFree
<1>3. Len(ts) = 0
  BY <1>2
<1>4. EnqueueSteps(q, ts)[0] = q
  BY <1>3, EachCall
<1> QED
  BY <1>3, <1>4 DEF EnqueueAll

=============================================================================
