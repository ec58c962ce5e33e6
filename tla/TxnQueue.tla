------------------------------ MODULE TxnQueue ------------------------------
(***************************************************************************)
(* The hub's transmit queue (DSPiHub::queue_): a fixed array of slots, and *)
(* the operations enqueue_(), queue_free_() and find_next_() as operators  *)
(* on an array value.  The modules that own the array as a variable build  *)
(* their steps from these.                                                 *)
(*                                                                         *)
(* A transaction keeps the fields those operations read: the identity      *)
(* (req, frame_type, wvalue), the payload, the priority and the retry      *)
(* bookkeeping.  The callbacks of the code are determined by the identity  *)
(* and are dispatched on it; max_retries already holds the hub's budget    *)
(* where the code writes RETRIES_DEFAULT.                                  *)
(***************************************************************************)
EXTENDS Integers, Sequences, FiniteSetsExt

CONSTANTS
    QueueDepth,     \* QUEUE_DEPTH, 12 in the code
    NoTxn,          \* an empty slot, or no transaction in flight
    Reqs,           \* request opcodes, by name
    Wvalues,        \* the wValue fields in use
    Payloads        \* what a SET carries, and a value standing for "nothing"

Priorities == 0 .. 2        \* user-initiated, background refresh, spectrum

Txn == [req : Reqs, frame_type : {"GET", "SET"}, wvalue : Wvalues,
        payload : Payloads, priority : Priorities,
        attempts : Nat, max_retries : Nat]

ASSUME QueueAssumption ==
    /\ QueueDepth \in Nat \ {0}
    /\ NoTxn \notin Txn

Slots == 1 .. QueueDepth

Queues == [Slots -> Txn \cup {NoTxn}]

EmptyQueue == [i \in Slots |-> NoTxn]

(***************************************************************************)
(* What enqueue_() matches on: two requests with one identity never wait   *)
(* side by side.                                                           *)
(***************************************************************************)
Identity(t) == <<t.req, t.frame_type, t.wvalue>>

Occupied(q) == {i \in Slots : q[i] # NoTxn}

Free(q) == Slots \ Occupied(q)

Waiting(q) == {q[i] : i \in Occupied(q)}

WaitingIds(q) == {Identity(t) : t \in Waiting(q)}

QueueFree(q) == Cardinality(Free(q))

(***************************************************************************)
(* The three places enqueue_() looks for, in this order: the slot already  *)
(* holding the identity, the first free slot, and, the array being full,   *)
(* the first of the least important entries if none outranks the newcomer. *)
(***************************************************************************)
Matching(q, t) == {i \in Occupied(q) : Identity(q[i]) = Identity(t)}

\* Mutant: the scan for a victim with its comparison turned around.
LeastImportantFlipped(q) ==
    {i \in Occupied(q) : \A j \in Occupied(q) : q[i].priority <= q[j].priority}

LeastImportant(q) ==
    {i \in Occupied(q) : \A j \in Occupied(q) : q[j].priority <= q[i].priority}

Victims(q, t) ==
    {i \in LeastImportant(q) : Free(q) = {} /\ t.priority <= q[i].priority}

\* Mutant: the slot already holding the identity is not looked for.
PlacesUnmatched(q, t) == IF Free(q) # {} THEN Free(q) ELSE Victims(q, t)

Places(q, t) ==
    IF Matching(q, t) # {} THEN Matching(q, t)
    ELSE IF Free(q) # {} THEN Free(q)
    ELSE Victims(q, t)

(***************************************************************************)
(* A transaction that replaces a waiting one keeps the higher attempt      *)
(* count of the two.                                                       *)
(***************************************************************************)
\* Mutant: the newcomer's own count, which is zero for a fresh request.
CoalescedFresh(old, t) == t

Coalesced(old, t) ==
    IF old # NoTxn /\ Identity(old) = Identity(t)
    THEN [t EXCEPT !.attempts = Max({old.attempts, t.attempts})]
    ELSE t

Accepted(q, t) == Places(q, t) # {}

Enqueue(q, t) ==
    IF Accepted(q, t)
    THEN LET i == Min(Places(q, t)) IN [q EXCEPT ![i] = Coalesced(q[i], t)]
    ELSE q

(***************************************************************************)
(* Several enqueue_() calls of one handler, in program order.  NoTxn       *)
(* stands for a call that the handler's condition skips.                   *)
(***************************************************************************)
EnqueueSteps(q, ts) ==
    LET after[n \in 0 .. Len(ts)] ==
            CASE n = 0 -> q
              [] n > 0 /\ ts[n] = NoTxn -> after[n - 1]
              [] n > 0 /\ ts[n] # NoTxn -> Enqueue(after[n - 1], ts[n])
    IN  after

EnqueueAll(q, ts) == EnqueueSteps(q, ts)[Len(ts)]

(***************************************************************************)
(* No two slots wait with one identity, whatever was evicted, retried or   *)
(* coalesced before.                                                       *)
(***************************************************************************)
NoDuplicates(q) ==
    \A i, j \in Occupied(q) : i # j => Identity(q[i]) # Identity(q[j])

(***************************************************************************)
(* find_next_(): the lowest slot among the most important entries.         *)
(***************************************************************************)
MostImportant(q) ==
    {i \in Occupied(q) : \A j \in Occupied(q) : q[i].priority <= q[j].priority}

FindNext(q) == Min(MostImportant(q))

=============================================================================
