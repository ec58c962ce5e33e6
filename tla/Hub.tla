-------------------------------- MODULE Hub ---------------------------------
(***************************************************************************)
(* DSPiHub with a device and its callers: the probe that identifies the    *)
(* device, the debounced refresh burst that reads back everything the hub  *)
(* publishes, the setters, and the notifications that only hint that       *)
(* something changed.  Presets and the spectrum analyser add producers of  *)
(* their own to the same transport and have modules of their own.          *)
(*                                                                         *)
(* One pass of loop() is some frames, taken one by one, and then the rest  *)
(* of the pass in one step; the device, the clock and the callers of the   *)
(* public methods act between passes.  Time is the set of the deadlines    *)
(* that have passed and were not re-armed since.                           *)
(***************************************************************************)
EXTENDS Transport

CONSTANTS
    Params,         \* what the burst reads, named by its GET opcode
    FixedReads,     \* the reads every burst makes, in order
    ToggleOrder,    \* the boolean DSP parameters, in enum order
    DefaultToggles, \* toggle_read_mask_ at start
    Settable,       \* the parameters with a setter
    Values,         \* values of a parameter
    ProbeReads,     \* the reads on_platform_() queues, in order
    MaxRetries,     \* max_retries_
    Polling,        \* poll_interval_ms_ # 0
    InputSource,    \* the parameter boot_input_source is about
    InputRate,      \* the parameter request_input_rate() reads
    BootSource,     \* boot_input_source_, or Nothing
    Missing,        \* toggles this firmware rejects
    NotifySettings, \* what notify_enable of the device may be
    NotifyModulus,  \* sequence numbers of notifications: 256
    ParamEvents,    \* the events that affect parameters
    FreeReplies,    \* what the device may do with a request at any time
    FaultReplies,   \* what it may do MaxFaults times
    MaxLate,        \* answers that may still come after their timeout
    BaselineLoss,   \* hints may get lost before the first one heard
    MaxCalls,       \* bound: calls of the public methods
    MaxChanges,     \* bound: changes and events of the device
    MaxFaults,      \* bound: faults of link and device
    Nothing,        \* the payload of a read, and of an empty answer
    Short,          \* an answer too short to use
    Unknown         \* a published value that was never read

VARIABLES
    hub,                    \* the transport's members
    line,                   \* requests sent that the device may still answer
    rx,                     \* frames received and not yet parsed
    pumping,                \* pump_rx_() has taken a frame in this pass
    due,                    \* deadlines that have passed
    refresh_pending,        \* refresh_pending_
    toggle_read_mask,       \* toggle_read_mask_, as a set
    toggle_unsupported,     \* toggle_unsupported_, as a set
    state,                  \* state_: the published values
    notifications_active,   \* notifications_active_
    have_seq, last_seq,     \* have_seq_, last_seq_
    boot_source_checked,    \* boot_source_checked_
    dev,                    \* the device's own values
    dev_notifies,           \* its notify_enable
    dev_seq,                \* its next sequence number
    calls, changes, faults  \* bounds

linkVars == <<line, rx>>

pubVars == <<toggle_read_mask, toggle_unsupported, state, boot_source_checked>>

seqVars == <<have_seq, last_seq, notifications_active>>

devVars == <<dev, dev_notifies, dev_seq, changes, faults>>

vars == <<hub, linkVars, pumping, due, refresh_pending, pubVars, seqVars, devVars, calls>>

Toggles == {ToggleOrder[i] : i \in DOMAIN ToggleOrder}

Replies == {"OK", "IGNORED", "SHORT", "BUSY", "ERROR",
            "REQUEST_LOST", "ANSWER_LOST", "NOTIFY_LOST", "REBOOT"}

Deadlines == {"timeout", "backoff", "probe", "refresh", "poll"}

\* enqueue_get_() and the setters' transactions.
GetTxn(req, priority) ==
    [req |-> req, frame_type |-> "GET", wvalue |-> 0, payload |-> Nothing,
     priority |-> priority, attempts |-> 0, max_retries |-> MaxRetries]

SetTxn(req, value) ==
    [req |-> req, frame_type |-> "SET", wvalue |-> 0, payload |-> value,
     priority |-> 0, attempts |-> 0, max_retries |-> MaxRetries]

ASSUME HubAssumption ==
    /\ Params \subseteq Reqs
    /\ Values \cup {Nothing} \subseteq Payloads
    /\ Values \cup {Short, Nothing, "notify_on", "notify_off"} \subseteq Data
    /\ {"OK", "BUSY", "ERROR"} \subseteq Statuses /\ "LINK_FAILED" \notin Statuses
    /\ 0 \in Wvalues
    /\ FixedReads \in Seq(Params) /\ ToggleOrder \in Seq(Params)
    /\ DefaultToggles \subseteq Toggles
    /\ Settable \subseteq Params
    /\ Values # {} /\ Short \notin Values
    /\ Unknown \notin Params \X Data
    /\ InputSource \in Settable /\ InputRate \in Params
    /\ BootSource \in Values \cup {Nothing}
    /\ ProbeReads \in Seq(Reqs \ Params)
    /\ "PLATFORM" \in Reqs \ Params /\ "UART_CONFIG" \notin Params
    /\ ProbeTxn = GetTxn("PLATFORM", 0)
    /\ MaxRetries \in Nat
    /\ Polling \in BOOLEAN /\ NotifySettings \subseteq BOOLEAN /\ BaselineLoss \in BOOLEAN
    /\ NotifyModulus \in Nat \ {0}
    /\ ParamEvents \subseteq Events
    /\ FreeReplies \cup FaultReplies \subseteq Replies
    /\ MaxLate \in Nat /\ MaxCalls \in Nat /\ MaxChanges \in Nat /\ MaxFaults \in Nat

TypeOK ==
    /\ hub \in Hubs
    /\ line \in Seq(Txn)
    /\ rx \in Seq(Frames)
    /\ pumping \in BOOLEAN
    /\ due \subseteq Deadlines
    /\ refresh_pending \in BOOLEAN
    /\ toggle_read_mask \subseteq Toggles
    /\ toggle_unsupported \subseteq Toggles
    /\ state \in [Params -> Data \cup {Unknown}]
    /\ notifications_active \in BOOLEAN
    /\ have_seq \in BOOLEAN
    /\ last_seq \in Nat
    /\ boot_source_checked \in BOOLEAN
    /\ dev \in [Params -> Values]
    /\ dev_notifies \in NotifySettings
    /\ dev_seq \in Nat
    /\ calls \in 0 .. MaxCalls
    /\ changes \in 0 .. MaxChanges
    /\ faults \in 0 .. MaxFaults

\* setup() has queued the first probe.
Init ==
    /\ hub = Probed(HubAtStart)
    /\ line = <<>> /\ rx = <<>>
    /\ pumping = FALSE
    /\ due = {}
    /\ refresh_pending = FALSE
    /\ toggle_read_mask = DefaultToggles
    /\ toggle_unsupported = {}
    /\ state = [p \in Params |-> Unknown]
    /\ notifications_active = FALSE
    /\ have_seq = FALSE /\ last_seq = 0
    /\ boot_source_checked = FALSE
    /\ dev \in [Params -> Values] /\ dev_notifies \in NotifySettings /\ dev_seq = 0
    /\ calls = 0 /\ changes = 0 /\ faults = 0

-----------------------------------------------------------------------------
(* Deadlines *)

Armed ==
    ArmedTimers(hub)
    \cup (IF refresh_pending THEN {"refresh"} ELSE {})
    \cup (IF Polling /\ ~notifications_active THEN {"poll"} ELSE {})

\* A step that sets the deadlines D anew, and leaves some nobody waits for.
Rearm(D) == due' = (due \ D) \cap Armed'

(***************************************************************************)
(* go_offline_() restarts the reprobe interval from a clock that may be    *)
(* ahead of the now of this pass, and now - last_probe_at_ then wraps to a *)
(* huge interval: the reprobe of the same pass may or may not find it due. *)
(***************************************************************************)
OfflineIn(h) == h.hub_state = "OFFLINE" /\ hub.hub_state # "OFFLINE"

ProbeClock(h) ==
    IF OfflineIn(h) THEN {due \ {"probe"}, due \cup {"probe"}} ELSE {due}

Tick(d) ==
    /\ ~pumping
    /\ d \in Armed \ due
    /\ d = "timeout" => Len(line) + Cardinality(ResponsesIn(rx)) <= MaxLate
    /\ due' = due \cup {d}
    /\ UNCHANGED <<hub, linkVars, pumping, refresh_pending, pubVars, seqVars, devVars, calls>>

-----------------------------------------------------------------------------
(* The rest of a pass of loop(), once the receive buffer is drained *)

\* Every read a burst may make, in the order loop() queues them; the toggles
\* are read where toggles_to_read_() has them.
AllReads == FixedReads \o ToggleOrder

InBurst(i) ==
    i <= Len(FixedReads) \/ AllReads[i] \in toggle_read_mask \ toggle_unsupported

Burst ==
    [i \in DOMAIN AllReads |-> IF InBurst(i) THEN GetTxn(AllReads[i], 1) ELSE NoTxn]

BurstSize == Cardinality({i \in DOMAIN AllReads : InBurst(i)})

\* Mutants: the burst goes out without room for it, or only to a device that
\* is identified.
BurstsUnchecked(h) == refresh_pending /\ "refresh" \in due

BurstsIdentified(h) ==
    /\ refresh_pending /\ "refresh" \in due
    /\ QueueFree(h.queue) >= BurstSize
    /\ h.identified

Bursts(h) ==
    /\ refresh_pending
    /\ "refresh" \in due
    /\ QueueFree(h.queue) >= BurstSize

AfterRefresh(h) == IF Bursts(h) THEN QueuedAll(h, Burst) ELSE h

\* Mutant: the poll as a complement to notifications.
PollsNotified(h) ==
    Polling /\ notifications_active /\ h.hub_state = "IDLE" /\ "poll" \in due

Polls(h) == Polling /\ ~notifications_active /\ h.hub_state = "IDLE" /\ "poll" \in due

\* Mutants: a link failure is taken for a refusal, of a toggle or of any read.
MarkUnsupportedOnFailure(status) ==
    IF hub.current # NoTxn /\ hub.current.frame_type = "GET"
    THEN {hub.current.req} \cap Toggles
    ELSE {}

MarkUnsupportedAny(status) == {hub.current.req}

\* mark_toggle_unsupported_(), the on_fail of the reads of toggles, which are
\* the only ones here that have one.
MarkUnsupported(status) ==
    IF status # "LINK_FAILED" /\ hub.current.frame_type = "GET"
    THEN {hub.current.req} \cap Toggles
    ELSE {}

DropsOnTimeout == hub.hub_state = "AWAIT_RESP" /\ "timeout" \in due /\ Exhausted(hub)

FinishPass ==
    /\ rx = <<>>
    /\ \E timed \in {AfterTimers(hub, due)} :
       \E clock \in ProbeClock(timed) :
       \E probed \in {AfterReprobe(timed, clock)} :
       \E updated \in {AfterRefresh(probed)} :
         /\ hub' = SentNext(updated)
         /\ line' = IF CanSend(updated) THEN Append(line, NextOut(updated)) ELSE line
         /\ refresh_pending' = ((refresh_pending /\ ~Bursts(probed)) \/ Polls(updated))
         /\ have_seq' = (have_seq /\ ~OfflineIn(timed))
         /\ UNCHANGED <<last_seq, notifications_active>>
         /\ Rearm({"timeout", "backoff"}
                  \cup (IF OfflineIn(timed) \/ ProbeDue(timed, clock) THEN {"probe"} ELSE {})
                  \cup (IF Bursts(probed) \/ Polls(updated) THEN {"refresh"} ELSE {})
                  \cup (IF Polls(updated) THEN {"poll"} ELSE {}))
    /\ pumping' = FALSE
    /\ toggle_unsupported' = toggle_unsupported \cup
         (IF DropsOnTimeout THEN MarkUnsupported("LINK_FAILED") ELSE {})
    /\ UNCHANGED <<rx, toggle_read_mask, state, boot_source_checked, devVars, calls>>

-----------------------------------------------------------------------------
(* pump_rx_(): one frame *)

TakeFrame ==
    /\ rx # <<>>
    /\ rx' = Tail(rx)
    /\ pumping' = TRUE
    /\ UNCHANGED <<line, devVars, calls>>

TakeResponse ==
    /\ TakeFrame
    /\ Head(rx).kind # "NOTIFY"

\* Nothing in flight, or a response of the other kind.
Unsolicited ==
    /\ TakeResponse
    /\ ~Expects(hub, Head(rx))
    /\ UNCHANGED <<hub, due, refresh_pending, pubVars, seqVars>>

TakeAnswer(statuses) ==
    /\ TakeResponse
    /\ Expects(hub, Head(rx))
    /\ Head(rx).status \in statuses

\* Mutant: the length of an answer is not checked.
UsableAlways == TRUE

Usable == Head(rx).data \notin {Short, Nothing}

\* on_platform_()
PlatformRead ==
    /\ TakeAnswer({"OK"})
    /\ hub.current.req = "PLATFORM"
    /\ Usable
    /\ hub' = QueuedAll([Succeeded(hub) EXCEPT !.identified = TRUE],
                        [i \in DOMAIN ProbeReads |-> GetTxn(ProbeReads[i], 0)])
    /\ state' = [p \in Params |-> IF p \in Toggles THEN Unknown ELSE state[p]]
    /\ toggle_unsupported' = {}
    /\ refresh_pending' = TRUE
    /\ UNCHANGED <<toggle_read_mask, boot_source_checked, seqVars>>
    /\ Rearm({"refresh"})

\* on_uart_config_()
UartConfigRead ==
    /\ TakeAnswer({"OK"})
    /\ hub.current.req = "UART_CONFIG"
    /\ Usable
    /\ hub' = Succeeded(hub)
    /\ notifications_active' = (Head(rx).data = "notify_on")
    /\ UNCHANGED <<refresh_pending, pubVars, have_seq, last_seq>>
    /\ Rearm({})

\* The readback handlers; on_input_source_() claims the boot source once.
ChecksBootSource ==
    /\ hub.current.req = InputSource
    /\ BootSource # Nothing
    /\ ~boot_source_checked

ClaimsBootSource == ChecksBootSource /\ Head(rx).data # BootSource

ParamRead ==
    /\ TakeAnswer({"OK"})
    /\ hub.current.req \in Params
    /\ Usable
    /\ state' = [state EXCEPT ![hub.current.req] = Head(rx).data]
    /\ boot_source_checked' = (boot_source_checked \/ ChecksBootSource)
    /\ hub' = IF ClaimsBootSource
              THEN Queued(Succeeded(hub), SetTxn(InputSource, BootSource))
              ELSE Succeeded(hub)
    /\ refresh_pending' = (refresh_pending \/ ClaimsBootSource)
    /\ UNCHANGED <<toggle_read_mask, toggle_unsupported, seqVars>>
    /\ Rearm(IF ClaimsBootSource THEN {"refresh"} ELSE {})

\* A SET has no callback, the other reads of the probe chain only report,
\* and every callback drops an answer that is too short.
NothingRead ==
    /\ TakeAnswer({"OK"})
    /\ ~Usable \/ hub.current.req \notin Params \cup {"PLATFORM", "UART_CONFIG"}
    /\ hub' = Succeeded(hub)
    /\ UNCHANGED <<refresh_pending, pubVars, seqVars>>
    /\ Rearm({})

Refused ==
    /\ TakeAnswer(Statuses \ ({"OK"} \cup Retryable))
    /\ hub' = Rejected(hub)
    /\ toggle_unsupported' = toggle_unsupported \cup MarkUnsupported(Head(rx).status)
    /\ UNCHANGED <<refresh_pending, toggle_read_mask, state, boot_source_checked, seqVars>>
    /\ Rearm({})

TryLater ==
    /\ TakeAnswer(Retryable)
    /\ hub' = RetriedOrDropped(hub)
    /\ have_seq' = (have_seq /\ ~OfflineIn(hub'))
    /\ toggle_unsupported' = toggle_unsupported \cup
         (IF Exhausted(hub) THEN MarkUnsupported("LINK_FAILED") ELSE {})
    /\ UNCHANGED <<refresh_pending, toggle_read_mask, state, boot_source_checked,
                   last_seq, notifications_active>>
    /\ \E clock \in ProbeClock(hub') : due' = clock \cap Armed'

\* handle_notification_()
\* Mutant: the sequence number is not looked at.
GapIgnored(seq) == FALSE

Gap(seq) == have_seq /\ seq # (last_seq + 1) % NotifyModulus

\* Mutant: an event about parameters is not acted on.
HintOnGap(frame) == Gap(frame.seq)

Hint(frame) == Gap(frame.seq) \/ frame.event \in ParamEvents

Notified ==
    /\ TakeFrame
    /\ Head(rx).kind = "NOTIFY"
    /\ notifications_active' = TRUE
    /\ last_seq' = Head(rx).seq
    /\ have_seq' = TRUE
    /\ refresh_pending' = (refresh_pending \/ Hint(Head(rx)))
    /\ UNCHANGED <<hub, pubVars>>
    /\ Rearm(IF Hint(Head(rx)) THEN {"refresh"} ELSE {})

-----------------------------------------------------------------------------
(* The public methods *)

Call ==
    /\ ~pumping
    /\ calls < MaxCalls
    /\ calls' = calls + 1
    /\ UNCHANGED <<linkVars, pumping, toggle_unsupported, state, boot_source_checked,
                   seqVars, devVars>>

\* Mutant: the published value is not read back after a command.
SetParamUnconfirmed(p, v) ==
    /\ Call
    /\ hub' = Queued(hub, SetTxn(p, v))
    /\ toggle_read_mask' = toggle_read_mask \cup ({p} \cap Toggles)
    /\ UNCHANGED <<due, refresh_pending>>

\* set_master_volume_db(), set_user_volume_db(), set_toggle(), set_input_source()
SetParam(p, v) ==
    /\ Call
    /\ hub' = Queued(hub, SetTxn(p, v))
    /\ toggle_read_mask' = toggle_read_mask \cup ({p} \cap Toggles)
    /\ refresh_pending' = TRUE
    /\ Rearm({"refresh"})

RequestRefresh ==
    /\ Call
    /\ refresh_pending' = TRUE
    /\ UNCHANGED <<hub, toggle_read_mask>>
    /\ Rearm({"refresh"})

RequestInputRate ==
    /\ Call
    /\ IsOnline(hub)
    /\ hub' = Queued(hub, GetTxn(InputRate, 1))
    /\ UNCHANGED <<due, refresh_pending, toggle_read_mask>>

-----------------------------------------------------------------------------
(* The device and the link *)

\* A reply in FreeReplies costs nothing; one in FaultReplies is a fault.
May(reply) ==
    \/ reply \in FreeReplies /\ UNCHANGED faults
    \/ reply \in FaultReplies /\ faults < MaxFaults /\ faults' = faults + 1

Refuses(t) == t.frame_type = "GET" /\ t.req \in Missing

DeviceStep ==
    /\ ~pumping
    /\ UNCHANGED <<hub, pumping, due, refresh_pending, pubVars, seqVars, dev_notifies, calls>>

Reading(t) ==
    CASE t.frame_type = "SET" -> Nothing
      [] t.frame_type = "GET" /\ t.req \in Params -> dev[t.req]
      [] t.frame_type = "GET" /\ t.req = "UART_CONFIG" -> IF dev_notifies THEN "notify_on" ELSE "notify_off"
      [] OTHER -> CHOOSE v \in Values : TRUE

Answer(status, data) ==
    /\ line' = Tail(line)
    /\ rx' = Append(rx, Response(Head(line), status, data))

Applied ==
    IF Head(line).frame_type = "SET"
    THEN [dev EXCEPT ![Head(line).req] = Head(line).payload]
    ELSE dev

\* The device carries a request out; the answer to a SET says OK whether or
\* not its value took.
Serve ==
    /\ DeviceStep
    /\ line # <<>> /\ ~Refuses(Head(line))
    /\ \/ May("OK") /\ dev' = Applied /\ Answer("OK", Reading(Head(line)))
       \/ May("IGNORED") /\ Head(line).frame_type = "SET"
          /\ Answer("OK", Nothing) /\ UNCHANGED dev
       \/ May("SHORT") /\ Head(line).frame_type = "GET"
          /\ Answer("OK", Short) /\ UNCHANGED dev
    /\ UNCHANGED <<dev_seq, changes>>

Refuse ==
    /\ DeviceStep
    /\ line # <<>>
    /\ \/ May("BUSY") /\ Answer("BUSY", Nothing)
       \/ May("ERROR") /\ Answer("ERROR", Nothing)
       \/ Refuses(Head(line)) /\ Answer("ERROR", Nothing) /\ UNCHANGED faults
    /\ UNCHANGED <<dev, dev_seq, changes>>

\* A request or an answer that does not get through, or fails its CRC.
Lose ==
    /\ DeviceStep
    /\ line # <<>>
    /\ line' = Tail(line)
    /\ \/ May("REQUEST_LOST") /\ UNCHANGED dev
       \/ May("ANSWER_LOST") /\ dev' = Applied
    /\ UNCHANGED <<rx, dev_seq, changes>>

Emit(event) ==
    /\ changes < MaxChanges
    /\ changes' = changes + 1
    /\ IF dev_notifies
       THEN /\ dev_seq' = (dev_seq + 1) % NotifyModulus
            /\ \/ rx' = Append(rx, Notification(event, dev_seq)) /\ UNCHANGED faults
               \/ May("NOTIFY_LOST") /\ (have_seq \/ BaselineLoss) /\ UNCHANGED rx
       ELSE UNCHANGED <<dev_seq, rx, faults>>
    /\ UNCHANGED line

\* Another client, or a knob of the device, moves a parameter.
DeviceChange(p, v) ==
    /\ DeviceStep
    /\ dev[p] # v
    /\ dev' = [dev EXCEPT ![p] = v]
    /\ \E event \in ParamEvents : Emit(event)

DeviceEvent ==
    /\ DeviceStep
    /\ \E event \in Events \ ParamEvents : Emit(event)
    /\ UNCHANGED dev

\* The device restarts: it forgets the request it had, and its sequence.
DeviceReboot ==
    /\ DeviceStep
    /\ May("REBOOT") /\ (have_seq \/ BaselineLoss)
    /\ line' = <<>>
    /\ dev_seq' = 0
    /\ dev' \in [Params -> Values]
    /\ UNCHANGED <<rx, changes>>

-----------------------------------------------------------------------------

Frame == \/ Unsolicited \/ PlatformRead \/ UartConfigRead \/ ParamRead
         \/ NothingRead \/ Refused \/ TryLater \/ Notified

LoopPass == Frame \/ FinishPass

Setter == \E p \in Settable, v \in Values : SetParam(p, v)

UserCall == Setter \/ RequestRefresh \/ RequestInputRate

Device == \/ Serve \/ Refuse \/ Lose \/ DeviceEvent \/ DeviceReboot
          \/ \E p \in Params, v \in Values : DeviceChange(p, v)

Clock == \E d \in Deadlines : Tick(d)

Next == LoopPass \/ Clock \/ UserCall \/ Device

Spec == Init /\ [][Next]_vars

(***************************************************************************)
(* Fairness.  ESPHome calls loop() again and again, a request on the line  *)
(* is answered or lost, and no deadline that somebody waits for stays in   *)
(* the future for ever.  Both happen outside of the passes of the loop,    *)
(* hence strong fairness.  For the refresh deadline this asks that hints   *)
(* do not come faster than the debounce window for ever.                   *)
(***************************************************************************)
Fairness ==
    /\ WF_vars(LoopPass)
    /\ SF_vars(Serve \/ Refuse \/ Lose)
    /\ \A d \in Deadlines : SF_vars(Tick(d))

FairSpec == Spec /\ Fairness

-----------------------------------------------------------------------------

(***************************************************************************)
(* "Exactly one request outstanding" (HubState, dspi.h): has_current_ and  *)
(* hub_state_ agree after every step.                                      *)
(***************************************************************************)
OneOutstanding == OneInFlight(hub)

(***************************************************************************)
(* Coalescing in enqueue_() keeps the queue free of duplicates through     *)
(* retries, evictions and bursts.                                          *)
(***************************************************************************)
UniqueRequests == NoDuplicates(hub.queue)

(***************************************************************************)
(* A hub that gave up on the link is unidentified, so that the reprobe is  *)
(* what brings it back, and has no transaction in flight (go_offline_()).  *)
(***************************************************************************)
OfflineForgets ==
    hub.hub_state = "OFFLINE" => ~hub.identified /\ hub.current = NoTxn

(***************************************************************************)
(* With answers that come before their timeout or not at all, every        *)
(* response in the receive buffer answers the transaction in flight: the   *)
(* match by frame type in handle_response_() attributes it correctly.      *)
(***************************************************************************)
Attributed ==
    \A i \in ResponsesIn(rx) :
        hub.current # NoTxn /\ rx[i].answers = Identity(hub.current)

(***************************************************************************)
(* Retries stay within max_retries_, also for a transaction that coalesced *)
(* with a retry (enqueue_()) or was put back (retry_or_drop_()).           *)
(***************************************************************************)
RetriesBounded == WithinBudget(hub)

\* The transport as the refresh part of this pass finds it.
AtRefresh(clock) == AfterReprobe(AfterTimers(hub, due), clock)

(***************************************************************************)
(* The burst goes out whole (loop(), "whole or not at all"): a pass that   *)
(* clears the refresh has every read of it waiting or just sent, and no    *)
(* request that waited when it started was evicted for one.                *)
(***************************************************************************)
BurstWhole ==
    [][FinishPass /\ refresh_pending /\ ~refresh_pending' =>
         \E clock \in ProbeClock(AfterTimers(hub, due)) :
            WaitingIds(AtRefresh(clock).queue)
              \cup {Identity(Burst[i]) : i \in {j \in DOMAIN Burst : InBurst(j)}}
              \subseteq WaitingIds(hub'.queue) \cup
                        (IF hub'.current = NoTxn THEN {} ELSE {Identity(hub'.current)})]_vars

(***************************************************************************)
(* A user command that waits is not lost to background work: it leaves the *)
(* queue by being sent, by the hub giving up on the link, or because the   *)
(* queue was full of requests of its own priority (enqueue_()'s eviction). *)
(* The reads of the probe chain are among those: on_platform_() queues     *)
(* them at priority 0.                                                     *)
(***************************************************************************)
CommandsKept ==
    [][\A t \in Waiting(hub.queue) :
         t.priority = 0 =>
            \/ Identity(t) \in WaitingIds(hub'.queue)
            \/ hub'.current # NoTxn /\ Identity(hub'.current) = Identity(t)
            \/ hub'.hub_state = "OFFLINE" \/ OfflineIn(AfterTimers(hub, due))
            \/ FullOfCommands(hub.queue) \/ FullOfCommands(hub'.queue)]_vars

(***************************************************************************)
(* Only the device's own refusal latches a toggle as unsupported; a        *)
(* timeout, a busy device or a dropped read never does                     *)
(* (mark_toggle_unsupported_()).                                           *)
(***************************************************************************)
LatchedOnlyRefused == toggle_unsupported \subseteq Missing

(***************************************************************************)
(* The hub heard the device's latest notification, so it has not missed a  *)
(* hint that a later one did not make up for.                              *)
(***************************************************************************)
HeardLatest ==
    \/ have_seq /\ (last_seq + 1) % NotifyModulus = dev_seq
    \/ dev_seq = 0 /\ ~have_seq

Agreement ==
    \A p \in Params \ Missing :
        (p \in Toggles => p \in toggle_read_mask) => state[p] = dev[p]

(***************************************************************************)
(* What the hub publishes converges to what the device has: once no hint   *)
(* is outstanding that the device dropped, every parameter the hub reads   *)
(* ends up at the device's value, through retries, coalescing, sequence    *)
(* gaps, setters whose value the device ignores, and reconnects.           *)
(***************************************************************************)
Converges == <>[]HeardLatest => <>[]Agreement

(***************************************************************************)
(* A debounced refresh cannot stall: the wait for room in the queue ends   *)
(* (loop(), "cannot stall"), on a dead link too.                           *)
(***************************************************************************)
RefreshServed == refresh_pending ~> ~refresh_pending

(***************************************************************************)
(* An unidentified device is probed again and again, so one that is        *)
(* powered up late is picked up (loop(), "Keep probing until the device    *)
(* answers").                                                              *)
(***************************************************************************)
ProbedUntilIdentified ==
    ~hub.identified ~>
        hub.identified \/ (hub.current # NoTxn /\ hub.current.req = "PLATFORM")

(***************************************************************************)
(* A device that answers BUSY for ever, or not at all, does not hold the   *)
(* hub in retries for ever: budgets run out, the failures add up to the    *)
(* threshold of fail_current_(), and the link is declared down.            *)
(***************************************************************************)
GivesUp == <>(hub.consecutive_failures >= OfflineAfter)

-----------------------------------------------------------------------------

(***************************************************************************)
(* The sample the hub is about to publish: the usable answer to the read   *)
(* of a parameter that waits in the receive buffer.                        *)
(***************************************************************************)
Samples ==
    {<<rx[i].answers[1], rx[i].data>> :
        i \in {j \in ResponsesIn(rx) :
                 /\ rx[j].answers[1] \in Params /\ rx[j].answers[2] = "GET"
                 /\ rx[j].status = "OK" /\ rx[j].data # Short}}

SampleInRx == IF Samples = {} THEN Unknown ELSE CHOOSE s \in Samples : TRUE

RB == INSTANCE ReadBack
        WITH shown <- state, NoSample <- Unknown, sample <- SampleInRx

(***************************************************************************)
(* With answers that come in time or not at all, the hub implements        *)
(* ReadBack: whatever is queued, coalesced, retried, evicted or lost, a    *)
(* listener only ever sees what the device sampled for that parameter.     *)
(***************************************************************************)
PublishesSamples == RB!Spec

=============================================================================
