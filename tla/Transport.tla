------------------------------ MODULE Transport -----------------------------
(***************************************************************************)
(* The part of DSPiHub that every producer of requests shares: at most one *)
(* transaction in flight, the queue behind it, retry with backoff, the     *)
(* count of consecutive failures, going offline and probing again.         *)
(*                                                                         *)
(* The member variables it works on are one record, and each method is an  *)
(* operator from that record to the next.  loop() calls several of them    *)
(* in one pass, and a component composes them in the same order.           *)
(***************************************************************************)
EXTENDS TxnQueue

CONSTANTS
    ProbeTxn,       \* the GET_PLATFORM read that start_probe_() queues
    OfflineAfter,   \* FAILURES_BEFORE_OFFLINE, 5 in the code
    CounterModulus, \* consecutive_failures_ is a uint8_t: 256
    Statuses,       \* CtrlStatus values a device answers with
    Data,           \* payloads of answers
    Events          \* event ids of notifications

ASSUME TransportAssumption ==
    /\ ProbeTxn \in Txn
    /\ OfflineAfter \in Nat \ {0}
    /\ CounterModulus \in Nat \ {0}
    /\ "OK" \in Statuses

\* PROBING is entered and left within start_probe_().
HubStates == {"INIT", "IDLE", "AWAIT_RESP", "BACKOFF", "OFFLINE"}

\* current is NoTxn where has_current_ is false.
Hubs == [hub_state : HubStates, queue : Queues, current : Txn \cup {NoTxn},
         consecutive_failures : 0 .. CounterModulus - 1, identified : BOOLEAN]

HubAtStart ==
    [hub_state |-> "INIT", queue |-> EmptyQueue, current |-> NoTxn,
     consecutive_failures |-> 0, identified |-> FALSE]

IsOnline(h) == h.hub_state \in {"IDLE", "AWAIT_RESP"}

\* enqueue_() and a handler's sequence of enqueue_() calls.
Queued(h, t) == [h EXCEPT !.queue = Enqueue(@, t)]

QueuedAll(h, ts) == [h EXCEPT !.queue = EnqueueAll(@, ts)]

-----------------------------------------------------------------------------
(* Frames *)

(***************************************************************************)
(* A response frame carries no request identity: the answers field is what *)
(* an observer of the link knows and the hub does not.                     *)
(***************************************************************************)
Responses == [kind : {"GET", "SET"}, status : Statuses, data : Data,
              answers : Reqs \X {"GET", "SET"} \X Wvalues]

Notifications == [kind : {"NOTIFY"}, event : Events, seq : Nat]

Frames == Responses \cup Notifications

Response(t, status, data) ==
    [kind |-> t.frame_type, status |-> status, data |-> data,
     answers |-> Identity(t)]

Notification(event, seq) == [kind |-> "NOTIFY", event |-> event, seq |-> seq]

ResponsesIn(frames) == {i \in DOMAIN frames : frames[i].kind # "NOTIFY"}

\* ctrl_status_is_retryable()
Retryable == {"BUSY", "BULK_LOCKED", "CRC_ERROR"}

-----------------------------------------------------------------------------
(* The methods *)

\* What handle_response_() requires of a response before it acts on it.
Expects(h, frame) ==
    /\ h.hub_state = "AWAIT_RESP"
    /\ h.current # NoTxn
    /\ frame.kind = h.current.frame_type

\* A permanent status: dropped without retry, and no failure is counted.
Rejected(h) == [h EXCEPT !.hub_state = "IDLE", !.current = NoTxn]

\* An OK status, before its callback runs.
Succeeded(h) == [Rejected(h) EXCEPT !.consecutive_failures = 0]

\* Mutant: the retry goes back uncounted.
AgainUncounted(h) == h.current

Again(h) == [h.current EXCEPT !.attempts = @ + 1]

Exhausted(h) == Again(h).attempts > h.current.max_retries

(***************************************************************************)
(* retry_or_drop_() with budget left: wait out a backoff and put the       *)
(* transaction back with its attempt count and its priority.               *)
(***************************************************************************)
Requeued(h) ==
    [h EXCEPT !.hub_state = "BACKOFF",
              !.current = NoTxn,
              !.queue = Enqueue(@, Again(h))]

\* Mutant: the device still counts as identified.
GoneOfflineKnown(h) == [h EXCEPT !.hub_state = "OFFLINE", !.queue = EmptyQueue]

GoneOffline(h) ==
    [h EXCEPT !.hub_state = "OFFLINE", !.identified = FALSE, !.queue = EmptyQueue]

(***************************************************************************)
(* fail_current_(), up to the on_fail callback.                            *)
(***************************************************************************)
FailureCounted(h) ==
    [Rejected(h) EXCEPT !.consecutive_failures = (@ + 1) % CounterModulus]

Failed(h) ==
    IF FailureCounted(h).consecutive_failures >= OfflineAfter
    THEN GoneOffline(FailureCounted(h))
    ELSE FailureCounted(h)

RetriedOrDropped(h) == IF Exhausted(h) THEN Failed(h) ELSE Requeued(h)

\* Mutant: a request goes out while another one is unanswered.
CanSendAlways(h) == Occupied(h.queue) # {}

CanSend(h) == h.hub_state = "IDLE" /\ Occupied(h.queue) # {}

(***************************************************************************)
(* send_next_(): the most important waiting request goes out.              *)
(***************************************************************************)
NextOut(h) == h.queue[FindNext(h.queue)]

Sent(h) ==
    [h EXCEPT !.hub_state = "AWAIT_RESP",
              !.current = NextOut(h),
              !.queue = [@ EXCEPT ![FindNext(@)] = NoTxn]]

SentNext(h) == IF CanSend(h) THEN Sent(h) ELSE h

(***************************************************************************)
(* start_probe_().  It also drops a half-parsed frame; the frames of the   *)
(* model are whole.                                                        *)
(***************************************************************************)
Probed(h) == [Queued(h, ProbeTxn) EXCEPT !.hub_state = "IDLE"]

-----------------------------------------------------------------------------
(* The parts of loop() that run on deadlines; due is the set of the ones   *)
(* that have passed.                                                       *)

AfterTimers(h, due) ==
    CASE h.hub_state = "AWAIT_RESP" /\ "timeout" \in due -> RetriedOrDropped(h)
      [] h.hub_state = "BACKOFF" /\ "backoff" \in due -> [h EXCEPT !.hub_state = "IDLE"]
      [] OTHER -> h

\* Mutant: only an idle hub probes.
ProbeDueIdle(h, due) == ~h.identified /\ h.hub_state = "IDLE" /\ "probe" \in due

ProbeDue(h, due) ==
    /\ ~h.identified
    /\ h.hub_state \in {"IDLE", "OFFLINE"}
    /\ "probe" \in due

AfterReprobe(h, due) == IF ProbeDue(h, due) THEN Probed(h) ELSE h

\* The deadlines somebody waits for in this state of the transport.
ArmedTimers(h) ==
    {d \in {"timeout", "backoff", "probe"} :
        \/ d = "timeout" /\ h.hub_state = "AWAIT_RESP"
        \/ d = "backoff" /\ h.hub_state = "BACKOFF"
        \/ d = "probe" /\ ~h.identified}

-----------------------------------------------------------------------------

(***************************************************************************)
(* "Exactly one request outstanding" in AWAIT_RESP (dspi.h) and none       *)
(* otherwise: has_current_ and hub_state_ are assigned in different places *)
(* and agree after every step.                                             *)
(***************************************************************************)
OneInFlight(h) == h.hub_state = "AWAIT_RESP" <=> h.current # NoTxn

(***************************************************************************)
(* Nothing but user commands waits, and they leave no room: the only queue *)
(* out of which enqueue_() evicts one of them.                             *)
(***************************************************************************)
IsCommand(t) == t # NoTxn /\ t.priority = 0

FullOfCommands(q) == \A i \in Slots : IsCommand(q[i])

(***************************************************************************)
(* A transaction in the queue or in flight has been sent at most           *)
(* max_retries times before.                                               *)
(***************************************************************************)
WithinBudget(h) ==
    /\ \A t \in Waiting(h.queue) : t.attempts <= t.max_retries
    /\ h.current # NoTxn => h.current.attempts <= h.current.max_retries

=============================================================================
