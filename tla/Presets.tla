------------------------------- MODULE Presets -------------------------------
(***************************************************************************)
(* The hub's preset handling on the shared transport: which slot is        *)
(* active, the device's name for it, and a load, which the device accepts  *)
(* first and applies later, so that the hub polls for the result.          *)
(*                                                                         *)
(* One pass of loop() is an answer, if one came, and then the rest of the  *)
(* pass in one step.  An answer that comes in time meets the transaction   *)
(* in flight (Attributed of Hub), so the device's answer and the hub's     *)
(* handler are one step; a notification and its handler are too.           *)
(***************************************************************************)
EXTENDS Transport

CONSTANTS
    PresetSlots,    \* the slot numbers below PRESET_SLOTS
    OutOfRange,     \* an active slot the hub cannot use, or no data at all
    ProbeReads,     \* the reads on_platform_() queues, in order
    BurstReads,     \* the reads of a refresh burst, in order
    ConfirmAttempts,\* PRESET_CONFIRM_ATTEMPTS, 6 in the code
    MaxRetries,     \* max_retries_
    FreeReplies,    \* what the device may do with a request at any time
    FaultReplies,   \* what it may do MaxFaults times
    MaxCalls,       \* bound: calls of the public methods and loads by other clients
    MaxFaults,      \* bound: faults of link and device
    Nothing         \* no slot, no name, no payload

VARIABLES
    hub,                \* the transport's members
    asked,              \* the device has a request that it may answer
    pumping,            \* pump_rx_() has taken an answer in this pass
    due,                \* deadlines that have passed
    refresh_pending,    \* refresh_pending_
    active,             \* state_.active_preset
    name, name_valid,   \* state_.active_preset_name: the slot whose name it is
    name_slot,          \* preset_name_slot_
    name_requested,     \* preset_name_requested_
    confirm,            \* preset_confirm_slot_, or Nothing where not pending
    confirm_attempts,   \* preset_confirm_attempts_
    dev_slot,           \* the slot the device is on
    dev_loading,        \* the slot it has accepted and not yet applied
    started,            \* observer: slots accepted since their latest load call
    unread,             \* observer: a hint, or the last reading of the slot, was lost
    calls, faults

nameVars == <<name, name_valid, name_slot, name_requested>>
confirmVars == <<confirm, confirm_attempts>>
devVars == <<dev_slot, dev_loading>>
boundVars == <<calls, faults>>

vars == <<hub, asked, pumping, due, refresh_pending, active, nameVars, confirmVars,
          devVars, started, unread, boundVars>>

Deadlines == {"timeout", "backoff", "probe", "refresh", "confirm"}

Replies == {"OK", "UNUSABLE", "DENIED", "BUSY", "ERROR",
            "REQUEST_LOST", "ANSWER_LOST", "HINT_LOST"}

MaybeSlot == PresetSlots \cup {Nothing}

GetTxn(req, wvalue, priority) ==
    [req |-> req, frame_type |-> "GET", wvalue |-> wvalue, payload |-> Nothing,
     priority |-> priority, attempts |-> 0, max_retries |-> MaxRetries]

\* set_preset_slot(): a GET although it writes, with the slot in wValue.
LoadTxn(slot) == GetTxn("PRESET_LOAD", slot, 0)

\* request_preset_name_()
NameTxn(slot) == GetTxn("PRESET_GET_NAME", slot, 1)

ActiveReads == {"PRESET_GET_DIR", "PRESET_GET_ACTIVE"}

ASSUME PresetsAssumption ==
    /\ PresetSlots \subseteq Wvalues /\ 0 \in PresetSlots
    /\ Nothing \in Payloads /\ Nothing \notin PresetSlots
    /\ {"PLATFORM", "PRESET_LOAD", "PRESET_GET_NAME"} \cup ActiveReads \subseteq Reqs
    /\ {ProbeReads, BurstReads} \subseteq Seq(Reqs \ {"PRESET_LOAD"})
    /\ OutOfRange \notin PresetSlots \cup {Nothing}
    /\ ProbeTxn = GetTxn("PLATFORM", 0, 0)
    /\ ConfirmAttempts \in 0 .. CounterModulus - 2 /\ MaxRetries \in Nat
    /\ {"BUSY", "ERROR"} \subseteq Statuses
    /\ FreeReplies \cup FaultReplies \subseteq Replies
    /\ MaxCalls \in Nat /\ MaxFaults \in Nat

TypeOK ==
    /\ hub \in Hubs
    /\ asked \in BOOLEAN /\ pumping \in BOOLEAN
    /\ due \subseteq Deadlines
    /\ refresh_pending \in BOOLEAN
    /\ active \in MaybeSlot
    /\ name \in MaybeSlot /\ name_valid \in BOOLEAN
    /\ name_slot \in PresetSlots /\ name_requested \in BOOLEAN
    /\ confirm \in MaybeSlot /\ confirm_attempts \in 0 .. CounterModulus - 1
    /\ dev_slot \in PresetSlots /\ dev_loading \in MaybeSlot
    /\ started \subseteq PresetSlots /\ unread \in BOOLEAN
    /\ calls \in 0 .. MaxCalls /\ faults \in 0 .. MaxFaults

Init ==
    /\ hub = Probed(HubAtStart)
    /\ asked = FALSE /\ pumping = FALSE
    /\ due = {} /\ refresh_pending = FALSE
    /\ active = Nothing
    /\ name = Nothing /\ name_valid = FALSE
    /\ name_slot = 0 /\ name_requested = FALSE
    /\ confirm = Nothing /\ confirm_attempts = 0
    /\ dev_slot \in PresetSlots /\ dev_loading = Nothing
    /\ started = {} /\ unread = FALSE
    /\ calls = 0 /\ faults = 0

-----------------------------------------------------------------------------
(* Deadlines *)

Armed ==
    ArmedTimers(hub)
    \cup (IF refresh_pending THEN {"refresh"} ELSE {})
    \cup (IF confirm # Nothing THEN {"confirm"} ELSE {})

Rearm(D) == due' = (due \ D) \cap Armed'

Tick(d) ==
    /\ ~pumping
    /\ d \in Armed \ due
    /\ d = "timeout" => ~asked
    /\ due' = due \cup {d}
    /\ UNCHANGED <<hub, asked, pumping, refresh_pending, active, nameVars, confirmVars,
                   devVars, started, unread, boundVars>>

-----------------------------------------------------------------------------
(* The rest of a pass of loop() *)

Burst == [i \in DOMAIN BurstReads |-> GetTxn(BurstReads[i], 0, 1)]

Bursts(h) == refresh_pending /\ "refresh" \in due /\ QueueFree(h.queue) >= Len(Burst)

AfterRefresh(h) == IF Bursts(h) THEN QueuedAll(h, Burst) ELSE h

\* Mutant: the on_fail of a load is missing.
UnconfirmedForgotten == confirm

\* on_preset_load_failed_(), the on_fail of a load, when the transaction in
\* flight ends without an OK.
Unconfirmed ==
    IF hub.current # NoTxn /\ hub.current.req = "PRESET_LOAD" THEN Nothing ELSE confirm

\* The transaction in flight ends without telling the slot.
Unread == hub.current # NoTxn /\ hub.current.req \in ActiveReads

DropsOnTimeout == hub.hub_state = "AWAIT_RESP" /\ "timeout" \in due /\ Exhausted(hub)

\* service_preset_confirm_(), for the slot c that is still to be confirmed.
\* preset_confirm_attempts_ is a uint8_t, like the failure counter.
Confirms(c) == c # Nothing /\ "confirm" \in due

\* Mutant: the attempts are not counted.
NextAttemptSame == confirm_attempts

NextAttempt == (confirm_attempts + 1) % CounterModulus

Asks(c) == Confirms(c) /\ NextAttempt <= ConfirmAttempts

AfterConfirm(h, c) == IF Asks(c) THEN Queued(h, GetTxn("PRESET_GET_ACTIVE", 0, 0)) ELSE h

StillAwaited(c) == IF Confirms(c) /\ ~Asks(c) THEN Nothing ELSE c

OfflineIn(h) == h.hub_state = "OFFLINE" /\ hub.hub_state # "OFFLINE"

\* As in Hub: after go_offline_() the reprobe of the same pass may find its
\* interval over.
ProbeClock(h) ==
    IF OfflineIn(h) THEN {due \ {"probe"}, due \cup {"probe"}} ELSE {due}

FinishPass ==
    /\ \E timed \in {AfterTimers(hub, due)} :
       \E clock \in ProbeClock(timed) :
       \E probed \in {AfterReprobe(timed, clock)} :
       \E c \in {IF DropsOnTimeout THEN Unconfirmed ELSE confirm} :
       \E produced \in {AfterConfirm(AfterRefresh(probed), c)} :
         /\ hub' = SentNext(produced)
         /\ asked' = (asked \/ CanSend(produced))
         /\ refresh_pending' = (refresh_pending /\ ~Bursts(probed))
         /\ confirm' = StillAwaited(c)
         /\ confirm_attempts' = IF Confirms(c) THEN NextAttempt ELSE confirm_attempts
         /\ unread' = (unread \/ (DropsOnTimeout /\ Unread))
         /\ Rearm({"timeout", "backoff", "confirm"}
                  \cup (IF OfflineIn(timed) \/ ProbeDue(timed, clock) THEN {"probe"} ELSE {})
                  \cup (IF Bursts(probed) THEN {"refresh"} ELSE {}))
    /\ pumping' = FALSE
    /\ UNCHANGED <<active, nameVars, devVars, started, boundVars>>

-----------------------------------------------------------------------------
(* Answers: the device's and the hub's side of one *)

\* A reply in FreeReplies costs nothing; one in FaultReplies is a fault.
May(reply) ==
    \/ reply \in FreeReplies /\ UNCHANGED faults
    \/ reply \in FaultReplies /\ faults < MaxFaults /\ faults' = faults + 1

Answered ==
    /\ asked
    /\ asked' = FALSE
    /\ pumping' = TRUE
    /\ UNCHANGED calls

AnsweredOK(reqs) ==
    /\ Answered
    /\ hub.current.req \in reqs

\* on_platform_()
PlatformRead ==
    /\ AnsweredOK({"PLATFORM"})
    /\ May("OK")
    /\ hub' = QueuedAll([Succeeded(hub) EXCEPT !.identified = TRUE],
                        [i \in DOMAIN ProbeReads |-> GetTxn(ProbeReads[i], 0, 0)])
    /\ confirm' = Nothing
    /\ name_requested' = FALSE
    /\ name_valid' = FALSE
    /\ refresh_pending' = TRUE
    /\ UNCHANGED <<active, name, name_slot, confirm_attempts, devVars, started, unread>>
    /\ Rearm({"refresh"})

\* Mutant: nothing but the awaited slot is taken while a load is confirmed.
SeenAwaited(slot) == IF confirm # Nothing /\ confirm # slot THEN active ELSE slot

\* on_preset_active_(), which on_preset_dir_() ends with.
Seen(slot) == slot

AsksName(slot) == active # slot \/ ~name_valid

\* Mutant: the range of the slot is not checked.
InRangeAlways(slot) == TRUE

InRange(slot) == slot \in PresetSlots

ActiveRead ==
    /\ AnsweredOK(ActiveReads)
    /\ \E slot \in {dev_slot, OutOfRange} :
         /\ IF slot = OutOfRange THEN May("UNUSABLE") ELSE May("OK")
         /\ InRange(slot)
         /\ active' = Seen(slot)
         /\ confirm' = IF confirm = slot THEN Nothing ELSE confirm
         /\ unread' = FALSE
         /\ IF AsksName(slot)
            THEN /\ name_slot' = slot
                 /\ name_requested' = TRUE
                 /\ hub' = Queued(Succeeded(hub), NameTxn(slot))
            ELSE /\ hub' = Succeeded(hub)
                 /\ UNCHANGED <<name_slot, name_requested>>
    /\ UNCHANGED <<name, name_valid, refresh_pending, confirm_attempts, devVars, started>>
    /\ Rearm({})

\* on_preset_name_(): a name that is not awaited is ignored.
NameRead ==
    /\ AnsweredOK({"PRESET_GET_NAME"})
    /\ May("OK")
    /\ hub' = Succeeded(hub)
    /\ IF name_requested /\ name_slot = active
       THEN /\ name' = hub.current.wvalue
            /\ name_valid' = TRUE
            /\ name_requested' = FALSE
       ELSE UNCHANGED <<name, name_valid, name_requested>>
    /\ UNCHANGED <<name_slot, refresh_pending, active, confirmVars, devVars, started, unread>>
    /\ Rearm({})

\* on_preset_load_()
LoadAccepted ==
    /\ AnsweredOK({"PRESET_LOAD"})
    /\ May("OK")
    /\ hub' = Succeeded(hub)
    /\ dev_loading' = hub.current.wvalue
    /\ started' = started \cup {hub.current.wvalue}
    /\ UNCHANGED <<refresh_pending, active, nameVars, confirmVars, dev_slot, unread>>
    /\ Rearm({})

LoadDenied ==
    /\ AnsweredOK({"PRESET_LOAD"})
    /\ May("DENIED")
    /\ hub' = Succeeded(hub)
    /\ confirm' = Nothing
    /\ UNCHANGED <<refresh_pending, active, nameVars, confirm_attempts, devVars, started,
                   unread>>
    /\ Rearm({})

\* Too short an answer, a slot out of range, or one of the reads that are not
\* about presets.
NothingRead ==
    /\ AnsweredOK(Reqs)
    /\ \/ hub.current.req # "PRESET_LOAD" /\ May("UNUSABLE")
       \/ hub.current.req \notin {"PLATFORM", "PRESET_LOAD", "PRESET_GET_NAME"} \cup ActiveReads
          /\ May("OK")
    /\ hub' = Succeeded(hub)
    /\ unread' = (unread \/ Unread)
    /\ UNCHANGED <<refresh_pending, active, nameVars, confirmVars, devVars, started>>
    /\ Rearm({})

\* A permanent status.
Refused ==
    /\ Answered
    /\ May("ERROR")
    /\ hub' = Rejected(hub)
    /\ confirm' = Unconfirmed
    /\ unread' = (unread \/ Unread)
    /\ UNCHANGED <<refresh_pending, active, nameVars, confirm_attempts, devVars, started>>
    /\ Rearm({})

TryLater ==
    /\ Answered
    /\ May("BUSY")
    /\ hub' = RetriedOrDropped(hub)
    /\ confirm' = IF Exhausted(hub) THEN Unconfirmed ELSE confirm
    /\ unread' = (unread \/ (Exhausted(hub) /\ Unread))
    /\ UNCHANGED <<refresh_pending, active, nameVars, confirm_attempts, devVars, started>>
    /\ \E clock \in ProbeClock(hub') : due' = clock \cap Armed'

-----------------------------------------------------------------------------
(* The public methods *)

Call ==
    /\ ~pumping
    /\ calls < MaxCalls
    /\ calls' = calls + 1
    /\ UNCHANGED <<asked, pumping, active, nameVars, devVars, unread, faults>>

SetPresetSlot(slot) ==
    /\ Call
    /\ hub' = Queued(hub, LoadTxn(slot))
    /\ UNCHANGED refresh_pending
    /\ IF Accepted(hub.queue, LoadTxn(slot))
       THEN /\ confirm' = slot
            /\ confirm_attempts' = 0
            /\ started' = started \ {slot}
            /\ Rearm({"confirm"})
       ELSE UNCHANGED <<confirmVars, started, due>>

\* Also what every other setter and hint does.
RequestRefresh ==
    /\ Call
    /\ refresh_pending' = TRUE
    /\ UNCHANGED <<hub, confirmVars, started>>
    /\ Rearm({"refresh"})

-----------------------------------------------------------------------------
(* The device and the link *)

\* The end of a load and what others do are announced; the hint is a refresh.
Announced ==
    \/ /\ refresh_pending' = TRUE
       /\ UNCHANGED <<unread, faults>>
       /\ Rearm({"refresh"})
    \/ /\ May("HINT_LOST")
       /\ unread' = TRUE
       /\ UNCHANGED <<refresh_pending, due>>

DeviceStep ==
    /\ ~pumping
    /\ UNCHANGED <<hub, pumping, active, nameVars, confirmVars, started>>

\* The deferred work of a load; it overwrites every parameter.
LoadEnds ==
    /\ DeviceStep
    /\ dev_loading # Nothing
    /\ dev_slot' = dev_loading
    /\ dev_loading' = Nothing
    /\ Announced
    /\ UNCHANGED <<asked, calls>>

OthersLoad(slot) ==
    /\ DeviceStep
    /\ calls < MaxCalls
    /\ calls' = calls + 1
    /\ dev_slot' = slot
    /\ Announced
    /\ UNCHANGED <<asked, dev_loading>>

Lose ==
    /\ DeviceStep
    /\ asked
    /\ asked' = FALSE
    /\ \/ May("REQUEST_LOST") /\ UNCHANGED dev_loading
       \/ /\ May("ANSWER_LOST") /\ hub.current.req = "PRESET_LOAD"
          /\ dev_loading' = hub.current.wvalue
    /\ UNCHANGED <<due, refresh_pending, dev_slot, unread, calls>>

-----------------------------------------------------------------------------

Answers == \/ PlatformRead \/ ActiveRead \/ NameRead \/ LoadAccepted \/ LoadDenied
           \/ NothingRead \/ Refused \/ TryLater

UserCall == RequestRefresh \/ \E slot \in PresetSlots : SetPresetSlot(slot)

Device == Lose \/ LoadEnds \/ \E slot \in PresetSlots : OthersLoad(slot)

Clock == \E d \in Deadlines : Tick(d)

Next == Answers \/ FinishPass \/ UserCall \/ Device \/ Clock

Spec == Init /\ [][Next]_vars

(***************************************************************************)
(* Fairness.  As in Hub: loop() runs again and again, a request is         *)
(* answered or lost and a deadline passes, and the device gets to the load *)
(* it accepted.                                                            *)
(***************************************************************************)
Fairness ==
    /\ WF_vars(FinishPass)
    /\ SF_vars(Answers \/ Lose)
    /\ SF_vars(LoadEnds)
    /\ \A d \in Deadlines : SF_vars(Tick(d))

FairSpec == Spec /\ Fairness

-----------------------------------------------------------------------------

(***************************************************************************)
(* While the hub polls an identified device for a slot, the load of that   *)
(* slot waits, is in flight or was accepted: no "confirmation poll running *)
(* against a load the device never started" (on_preset_load_failed_()),    *)
(* and none against "a request the new device never received"              *)
(* (on_platform_()) after the link was lost with the queue.                *)
(***************************************************************************)
ConfirmsOwnLoad ==
    hub.identified /\ confirm # Nothing =>
        \/ Identity(LoadTxn(confirm)) \in WaitingIds(hub.queue)
        \/ hub.current # NoTxn /\ Identity(hub.current) = Identity(LoadTxn(confirm))
        \/ confirm \in started

(***************************************************************************)
(* A name that is published and not being asked for again is the name of   *)
(* the active slot: the reply "is attributed to the slot the outstanding   *)
(* request named" (on_preset_name_()), and "a stale request for the        *)
(* previous slot is replaced rather than both being sent"                  *)
(* (on_preset_active_()).                                                  *)
(***************************************************************************)
NameAttributed == name_valid /\ ~name_requested => name = active

(***************************************************************************)
(* The poll for a load ends, by the slot becoming active or by running out *)
(* of attempts (service_preset_confirm_()), whatever happens to the load.  *)
(***************************************************************************)
ConfirmEnds == confirm # Nothing ~> confirm = Nothing

(***************************************************************************)
(* A slot shown that is not the one the device is on is going to be read   *)
(* again: a refresh or a probe is to come, or the reading waits or is in   *)
(* flight, unless a hint or a reading was lost.  What the hub takes while  *)
(* a load is awaited or has been accepted and is not applied yet does not  *)
(* end the following (on_preset_active_(), request_refresh()).             *)
(***************************************************************************)
SlotHasRemedy ==
    active # dev_slot =>
        \/ refresh_pending \/ ~hub.identified \/ unread
        \/ \E t \in Waiting(hub.queue) \cup ({hub.current} \ {NoTxn}) : t.req \in ActiveReads

(***************************************************************************)
(* The hub ends up with the slot the device is on, whether its own load,   *)
(* a load that was refused or somebody else's moved it, unless a hint or a *)
(* reading of the slot was lost for good and none followed                 *)
(* (on_preset_active_(), the refresh burst).                               *)
(***************************************************************************)
ActiveFollows == <>[]~unread => <>[](active = dev_slot)

=============================================================================
