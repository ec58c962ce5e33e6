--------------------------------- MODULE Rta ---------------------------------
(***************************************************************************)
(* The spectrum analyser's state machine of the hub on the shared          *)
(* transport: bring-up (capabilities, band centres, configuration), the    *)
(* polling of one channel after the other, status reads, the courtesy      *)
(* stop, and the public methods that change it while a transaction waits   *)
(* or is in flight.                                                        *)
(*                                                                         *)
(* As in Presets, the device's answer and the hub's handler are one step,  *)
(* and one pass of loop() is an answer, if one came, and then the rest of  *)
(* the pass.  An rta: block is configured (rta_configured_); without one   *)
(* nothing here happens.                                                   *)
(***************************************************************************)
EXTENDS Transport

CONSTANTS
    Channels,       \* channel numbers, 0 .. 15 in the code
    Taps,           \* the places the analyser listens at
    Orders,         \* transform orders a configuration may ask for
    Chunks,         \* the chunks the table of band centres comes in
    StartConfig,    \* what set_rta_config() was given
    AutoEnable,     \* rta_auto_enable_
    MaxRetries,     \* max_retries_
    Uptimes,        \* the halves of the range of millis() the hub may be in
    Kinds,          \* what devices there may be
    DevChannels,    \* the channels the device has
    DevOrders,      \* the transform orders the device has
    DefaultOrder,   \* and the one it proposes
    Others,         \* requests of other parts of the hub, by name
    FreeReplies,    \* what the device may do with a request at any time
    FaultReplies,   \* what it may do MaxFaults times
    MaxCalls,       \* bound: calls of the public methods
    MaxFaults,      \* bound: faults of link and device
    Nothing         \* no payload

VARIABLES
    hub,            \* the transport's members
    asked,          \* the device has a request that it may answer
    pumping,        \* pump_rx_() has taken an answer in this pass
    due,            \* deadlines of the transport that have passed
    rta,            \* the analyser's members
    uptime,         \* "early": millis() is below 2^31, "late": above
    dev,            \* the device: its kind, its analyser's configuration and engine
    calls, faults

vars == <<hub, asked, pumping, due, rta, uptime, dev, calls, faults>>

(***************************************************************************)
(* What the code compares of an RtaConfig.  The averaging, the decay and   *)
(* the flags are never changed by the hub.                                 *)
(***************************************************************************)
Configs == [tap : Taps, channel_mask : SUBSET Channels, fft_order : Orders]

Phases == {"DISABLED", "UNSUPPORTED", "NEED_CAPS", "NEED_CENTRES", "READ_CONFIG",
           "SET_CONFIG", "VERIFY_CONFIG", "STREAMING", "STOPPING"}

(***************************************************************************)
(* next_due is whether rta_next_due_ has passed: "now", or "later" within  *)
(* a second, or "never" where it lies half a turn of the clock away.       *)
(* status_due is whether rta_status_due_ has passed.  centres_have counts  *)
(* chunks.  Sequence numbers are left out: they only keep a frame from     *)
(* being delivered twice; and rta_foreign_config_, which is only reported. *)
(***************************************************************************)
Rtas == [phase : Phases, enabled : BOOLEAN, busy : BOOLEAN,
         next_due : {"now", "later", "never"}, status_due : BOOLEAN,
         caps_valid : BOOLEAN, centres_have : 0 .. Chunks, centre_chunk : 1 .. Chunks,
         desired : Configs, poll_mask : SUBSET Channels, poll_cursor : Channels,
         live : BOOLEAN]

Replies == {"OK", "SHORT", "STALE", "BUSY", "ERROR", "REQUEST_LOST", "ANSWER_LOST",
            "FOREIGN"}

Txn0(req, frame_type, wvalue, payload, priority, max_retries) ==
    [req |-> req, frame_type |-> frame_type, wvalue |-> wvalue, payload |-> payload,
     priority |-> priority, attempts |-> 0, max_retries |-> max_retries]

RtaGet(req, wvalue) == Txn0(req, "GET", wvalue, Nothing, 1, MaxRetries)

SetConfigTxn(cfg) == Txn0("RTA_SET_CONFIG", "SET", 0, cfg, 1, MaxRetries)

\* "Frames are worthless once stale, so they are never retried."
BandsTxn(ch) == Txn0("RTA_GET_BANDS", "GET", ch, Nothing, 2, 0)

Stop == 0       \* RTA_CTL_STOP
ResetAvg == 2   \* RTA_CTL_RESET_AVG

StopTxn == Txn0("RTA_CONTROL", "GET", Stop, Nothing, 1, 0)

OtherTxn(req) == Txn0(req, "SET", 0, Nothing, 0, MaxRetries)

RtaReqs == {"RTA_GET_CAPS", "RTA_GET_CONFIG", "RTA_SET_CONFIG", "RTA_GET_BANDS",
            "RTA_GET_STATUS", "RTA_CONTROL"}

ASSUME RtaAssumption ==
    /\ Chunks \in Nat \ {0}
    /\ Channels \subseteq Nat /\ 0 \in Channels
    /\ Channels \cup (0 .. Chunks) \cup {Stop, ResetAvg} \subseteq Wvalues
    /\ RtaReqs \cup Others \cup {"PLATFORM"} \subseteq Reqs
    /\ Others \cap (RtaReqs \cup {"PLATFORM"}) = {}
    /\ Configs \cup {Nothing} \subseteq Payloads
    /\ StartConfig \in Configs /\ StartConfig.channel_mask # {}
    /\ AutoEnable \in BOOLEAN /\ MaxRetries \in Nat
    /\ Uptimes \subseteq {"early", "late"}
    /\ Kinds \subseteq {"V3", "V2", "NONE"}
    /\ DevChannels \subseteq Channels /\ DefaultOrder \in DevOrders /\ DevOrders \subseteq Orders
    /\ ProbeTxn = Txn0("PLATFORM", "GET", 0, Nothing, 0, MaxRetries)
    /\ {"BUSY", "ERROR"} \subseteq Statuses
    /\ FreeReplies \cup FaultReplies \subseteq Replies
    /\ MaxCalls \in Nat /\ MaxFaults \in Nat

\* foreign is an observer: another client wrote cfg last.
Devices == [kind : {"V3", "V2", "NONE"}, cfg : Configs, running : BOOLEAN,
            foreign : BOOLEAN]

Deadlines == {"timeout", "backoff", "probe"}

TypeOK ==
    /\ hub \in Hubs
    /\ asked \in BOOLEAN /\ pumping \in BOOLEAN
    /\ due \subseteq Deadlines
    /\ rta \in Rtas
    /\ uptime \in {"early", "late"}
    /\ dev \in Devices
    /\ calls \in 0 .. MaxCalls /\ faults \in 0 .. MaxFaults

RtaAtStart ==
    [phase |-> "DISABLED", enabled |-> FALSE, busy |-> FALSE,
     next_due |-> "now", status_due |-> TRUE,
     caps_valid |-> FALSE, centres_have |-> 0, centre_chunk |-> 1,
     desired |-> StartConfig, poll_mask |-> {}, poll_cursor |-> 0, live |-> FALSE]

Init ==
    /\ hub = Probed(HubAtStart)
    /\ asked = FALSE /\ pumping = FALSE
    /\ due = {}
    /\ rta = RtaAtStart
    /\ uptime \in Uptimes
    /\ dev \in [kind : Kinds, cfg : {c \in Configs : c.channel_mask = DevChannels
                                                     /\ c.fft_order = DefaultOrder},
                running : {FALSE}, foreign : {FALSE}]
    /\ calls = 0 /\ faults = 0

-----------------------------------------------------------------------------
(* The analyser's methods *)

\* Mutant: busy stays set.
AdvanceHolding(r, phase, next_due) == [r EXCEPT !.phase = phase, !.next_due = next_due]

\* rta_advance_()
Advance(r, phase, next_due) ==
    [r EXCEPT !.phase = phase, !.busy = FALSE, !.next_due = next_due]

FirstPhase(r) == IF r.caps_valid THEN "READ_CONFIG" ELSE "NEED_CAPS"

(***************************************************************************)
(* reset_rta_().  It sets both deadlines to 0, which the comparison modulo *)
(* 2^32 takes for the past only in the first half of millis().             *)
(***************************************************************************)
Reset(r) ==
    [r EXCEPT !.phase = IF r.enabled THEN FirstPhase(r) ELSE "DISABLED",
              !.busy = FALSE,
              !.next_due = IF uptime = "early" THEN "now" ELSE "never",
              !.status_due = uptime = "early",
              !.centre_chunk = 1,
              !.poll_cursor = 0,
              !.live = FALSE]

\* Mutant: a stop that is on its way is left to end.
EnabledStopping(r) ==
    IF r.phase = "STOPPING" THEN [r EXCEPT !.enabled = TRUE]
    ELSE Advance([r EXCEPT !.enabled = TRUE], FirstPhase(r), "now")

\* set_rta_enabled(true).  An unsupported device is not asked again.
Enabled(r) ==
    IF r.phase = "UNSUPPORTED"
    THEN [r EXCEPT !.enabled = TRUE]
    ELSE Advance([r EXCEPT !.enabled = TRUE], FirstPhase(r), "now")

\* set_rta_enabled(false)
Disabled(h, r) ==
    IF r.phase = "STREAMING" /\ ~r.busy /\ IsOnline(h)
    THEN [r EXCEPT !.enabled = FALSE, !.live = FALSE,
                   !.phase = "STOPPING", !.next_due = "now"]
    ELSE [r EXCEPT !.enabled = FALSE, !.live = FALSE,
                   !.phase = "DISABLED", !.busy = FALSE]

\* Mutant: a new configuration is only taken up at the next enable.
ReconfiguredLater(r, cfg) == [r EXCEPT !.desired = cfg]

\* set_rta_tap() and set_rta_channel_mask()
Reconfigured(r, cfg) ==
    IF r.enabled /\ r.phase # "UNSUPPORTED"
    THEN Advance([r EXCEPT !.desired = cfg], "READ_CONFIG", "now")
    ELSE [r EXCEPT !.desired = cfg]

(***************************************************************************)
(* rta_next_poll_channel_(): the first polled channel from the cursor on,  *)
(* around the end of the channels.                                         *)
(***************************************************************************)
NextChannel(r) ==
    LET beyond == {ch \in r.poll_mask : ch >= r.poll_cursor}
    IN  IF beyond # {} THEN Min(beyond) ELSE Min(r.poll_mask)

\* Mutants: the cursor stays on the channel just polled, or leaves the mask.
CursorAfterStuck(ch) == ch

CursorAfterUnwrapped(ch) == ch + 1

CursorAfter(ch) == IF ch + 1 \in Channels THEN ch + 1 ELSE 0

-----------------------------------------------------------------------------
(* service_rta_() *)

Services(h, r) ==
    /\ ~r.busy
    /\ h.identified
    /\ h.hub_state # "OFFLINE"
    /\ r.next_due = "now"
    /\ r.phase \notin {"DISABLED", "UNSUPPORTED"}

ReadsStatus(r) == r.phase = "STREAMING" /\ r.status_due

NoChannelLeft(r) == r.phase = "STREAMING" /\ ~r.status_due /\ r.poll_mask = {}

PollsBands(r) == r.phase = "STREAMING" /\ ~r.status_due /\ r.poll_mask # {}

\* What the phase asks the device.
Request(r) ==
    CASE r.phase = "NEED_CAPS" -> RtaGet("RTA_GET_CAPS", 0)
      [] r.phase = "NEED_CENTRES" -> RtaGet("RTA_GET_CAPS", r.centre_chunk)
      [] r.phase \in {"READ_CONFIG", "VERIFY_CONFIG"} -> RtaGet("RTA_GET_CONFIG", 0)
      [] r.phase = "SET_CONFIG" -> SetConfigTxn(r.desired)
      [] r.phase = "STOPPING" -> StopTxn
      [] ReadsStatus(r) -> RtaGet("RTA_GET_STATUS", 0)
      [] PollsBands(r) -> BandsTxn(NextChannel(r))

\* The deadline and the cursor move on whether or not there is room.
Moved(r) ==
    CASE ReadsStatus(r) -> [r EXCEPT !.status_due = FALSE]
      [] PollsBands(r) -> [r EXCEPT !.poll_cursor = CursorAfter(NextChannel(r))]
      [] OTHER -> r

\* enqueue_rta_get_() and enqueue_rta_set_config_()
Serviced(h, r) ==
    CASE ~Services(h, r) -> r
      [] Services(h, r) /\ NoChannelLeft(r) -> [r EXCEPT !.phase = "UNSUPPORTED"]
      [] Services(h, r) /\ ~NoChannelLeft(r) ->
            IF Accepted(h.queue, Request(r))
            THEN [Moved(r) EXCEPT !.busy = TRUE]
            ELSE [Moved(r) EXCEPT !.next_due = "later"]

Offered(h, r) ==
    IF Services(h, r) /\ ~NoChannelLeft(r) THEN Queued(h, Request(r)) ELSE h

-----------------------------------------------------------------------------
(* A transaction that fails *)

SetsUp(t) ==
    \/ t.req \in {"RTA_GET_CONFIG", "RTA_SET_CONFIG"}
    \/ t.req = "RTA_GET_CAPS" /\ t.wvalue = 0

\* rta_reset_avg() leaves both callbacks empty.
IsOptional(t) ==
    \/ t.req = "RTA_GET_STATUS"
    \/ t.req = "RTA_GET_CAPS" /\ t.wvalue # 0
    \/ t.req = "RTA_CONTROL" /\ t.wvalue = Stop

\* Mutant: silence is taken for a refusal.
SetupFailedForGood(r, status) == [r EXCEPT !.busy = FALSE, !.phase = "UNSUPPORTED"]

\* on_rta_setup_failed_()
SetupFailed(r, status) ==
    IF status = "LINK_FAILED"
    THEN [r EXCEPT !.busy = FALSE, !.next_due = "later"]
    ELSE [r EXCEPT !.busy = FALSE, !.phase = "UNSUPPORTED"]

\* Mutant: a dropped poll leaves the analyser waiting for its answer.
BandsFailedHolding(r, ch, status) ==
    [r EXCEPT !.next_due = "later",
              !.poll_mask = IF status = "LINK_FAILED" THEN @ ELSE @ \ {ch}]

\* on_rta_bands_failed_()
BandsFailed(r, ch, status) ==
    [r EXCEPT !.busy = FALSE, !.next_due = "later",
              !.poll_mask = IF status = "LINK_FAILED" THEN @ ELSE @ \ {ch}]

\* on_rta_optional_failed_()
OptionalFailed(r) ==
    CASE r.phase = "NEED_CENTRES" -> Advance(r, "READ_CONFIG", "now")
      [] r.phase = "STOPPING" -> [r EXCEPT !.phase = "DISABLED", !.busy = FALSE]
      [] OTHER -> [r EXCEPT !.busy = FALSE, !.next_due = "later"]

\* The on_fail of transaction t.
FailCallback(r, t, status) ==
    CASE SetsUp(t) -> SetupFailed(r, status)
      [] t.req = "RTA_GET_BANDS" -> BandsFailed(r, t.wvalue, status)
      [] IsOptional(t) -> OptionalFailed(r)
      [] OTHER -> r

(***************************************************************************)
(* What retry_or_drop_() of the transaction in flight does to the          *)
(* analyser: a drop that takes the link down resets it, and then its       *)
(* on_fail runs.                                                           *)
(***************************************************************************)
AfterDrop(r) ==
    IF Exhausted(hub)
    THEN FailCallback(IF Failed(hub).hub_state = "OFFLINE" THEN Reset(r) ELSE r,
                      hub.current, "LINK_FAILED")
    ELSE r

-----------------------------------------------------------------------------
(* Deadlines *)

Armed == ArmedTimers(hub)

Rearm(D) == due' = (due \ D) \cap Armed'

Tick(d) ==
    /\ ~pumping
    /\ d \in Armed \ due
    /\ d = "timeout" => ~asked
    /\ due' = due \cup {d}
    /\ UNCHANGED <<hub, asked, pumping, rta, uptime, dev, calls, faults>>

\* The interval of status reads, seconds, is longer than a transaction: it
\* does not pass while one is outstanding.
RtaTick ==
    /\ ~pumping
    /\ ~rta.busy
    /\ \/ rta.next_due = "later" /\ rta' = [rta EXCEPT !.next_due = "now"]
       \/ ~rta.status_due /\ rta.phase = "STREAMING"
          /\ rta' = [rta EXCEPT !.status_due = TRUE]
    /\ UNCHANGED <<hub, asked, pumping, due, uptime, dev, calls, faults>>

-----------------------------------------------------------------------------
(* The rest of a pass of loop() *)

DropsOnTimeout == hub.hub_state = "AWAIT_RESP" /\ "timeout" \in due

OfflineIn(h) == h.hub_state = "OFFLINE" /\ hub.hub_state # "OFFLINE"

\* As in Hub: after go_offline_() the reprobe of the same pass may find its
\* interval over.
ProbeClock(h) ==
    IF OfflineIn(h) THEN {due \ {"probe"}, due \cup {"probe"}} ELSE {due}

FinishPass ==
    /\ \E timed \in {AfterTimers(hub, due)} :
       \E clock \in ProbeClock(timed) :
       \E probed \in {AfterReprobe(timed, clock)} :
       \E r \in {IF DropsOnTimeout THEN AfterDrop(rta) ELSE rta} :
       \E produced \in {Offered(probed, r)} :
         /\ hub' = SentNext(produced)
         /\ asked' = (asked \/ CanSend(produced))
         /\ rta' = Serviced(probed, r)
         /\ Rearm({"timeout", "backoff"}
                  \cup (IF OfflineIn(timed) \/ ProbeDue(timed, clock) THEN {"probe"} ELSE {}))
    /\ pumping' = FALSE
    /\ UNCHANGED <<uptime, dev, calls, faults>>

-----------------------------------------------------------------------------
(* Answers: the device's and the hub's side of one *)

May(reply) ==
    \/ reply \in FreeReplies /\ UNCHANGED faults
    \/ reply \in FaultReplies /\ faults < MaxFaults /\ faults' = faults + 1

Answered ==
    /\ asked
    /\ asked' = FALSE
    /\ pumping' = TRUE
    /\ UNCHANGED <<uptime, calls>>

AnsweredOK(reqs) ==
    /\ Answered
    /\ hub.current.req \in reqs
    /\ hub.current.req \in RtaReqs => dev.kind # "NONE"
    /\ hub' = Succeeded(hub)
    /\ Rearm({})

\* on_platform_()
PlatformRead ==
    /\ Answered
    /\ hub.current.req = "PLATFORM"
    /\ May("OK")
    /\ hub' = [Succeeded(hub) EXCEPT !.identified = TRUE]
    /\ \E r \in {Reset([rta EXCEPT !.caps_valid = FALSE, !.centres_have = 0])} :
         rta' = IF AutoEnable /\ ~r.enabled THEN Enabled(r) ELSE r
    /\ UNCHANGED dev
    /\ Rearm({})

InRange(cfg) ==
    IF cfg.fft_order \in DevOrders THEN cfg ELSE [cfg EXCEPT !.fft_order = DefaultOrder]

\* on_rta_caps_().  V3 has at least one band.
CapsRead ==
    /\ AnsweredOK({"RTA_GET_CAPS"})
    /\ hub.current.wvalue = 0
    /\ \/ /\ May("SHORT")
          /\ rta' = Advance(rta, "NEED_CAPS", "later")
       \/ /\ May("OK") /\ dev.kind = "V2"
          /\ rta' = [rta EXCEPT !.phase = "UNSUPPORTED", !.busy = FALSE]
       \/ /\ May("OK") /\ dev.kind = "V3"
          /\ rta' = Advance([rta EXCEPT !.caps_valid = TRUE, !.centres_have = 0,
                                        !.centre_chunk = 1, !.desired = InRange(@)],
                            "NEED_CENTRES", "now")
    /\ UNCHANGED dev

\* on_rta_centres_(); an empty chunk ends the table.
CentresRead ==
    /\ AnsweredOK({"RTA_GET_CAPS"})
    /\ hub.current.wvalue # 0
    /\ \/ /\ May("SHORT")
          /\ rta' = Advance(rta, "READ_CONFIG", "now")
       \/ /\ May("OK")
          /\ \E have \in {Min({rta.centres_have + 1, Chunks})} :
               rta' = IF have = Chunks
                      THEN Advance([rta EXCEPT !.centres_have = have], "READ_CONFIG", "now")
                      ELSE Advance([rta EXCEPT !.centres_have = have, !.centre_chunk = @ + 1],
                                   "NEED_CENTRES", "now")
    /\ UNCHANGED dev

\* The configuration that was read is streamed with, matching or not.
Streaming(r, applied) ==
    Advance([r EXCEPT !.poll_mask = applied.channel_mask, !.poll_cursor = 0,
                      !.status_due = FALSE],
            "STREAMING", "now")

(***************************************************************************)
(* on_rta_config_(), for an answer with a configuration and for one        *)
(* without: that of RTA_SET_CONFIG, or a short one.                        *)
(***************************************************************************)
ConfigTaken(r, applied) ==
    CASE r.phase = "SET_CONFIG" -> Advance(r, "VERIFY_CONFIG", "now")
      [] r.phase # "SET_CONFIG" /\ (applied = r.desired \/ r.phase = "VERIFY_CONFIG") ->
            Streaming(r, applied)
      [] OTHER -> Advance(r, "SET_CONFIG", "now")

ConfigMissing(r) ==
    IF r.phase = "SET_CONFIG" THEN Advance(r, "VERIFY_CONFIG", "now")
    ELSE Advance(r, "READ_CONFIG", "later")

ConfigRead ==
    /\ AnsweredOK({"RTA_GET_CONFIG"})
    /\ \/ May("OK") /\ rta' = ConfigTaken(rta, dev.cfg)
       \/ May("SHORT") /\ rta' = ConfigMissing(rta)
    /\ UNCHANGED dev

\* The device masks the channels it does not have.
Clamped(cfg) == [cfg EXCEPT !.channel_mask = @ \cap DevChannels]

Refuses(cfg) == Clamped(cfg).channel_mask = {} \/ cfg.fft_order \notin DevOrders

Applying(cfg) == [dev EXCEPT !.cfg = Clamped(cfg), !.foreign = FALSE]

ConfigSet ==
    /\ AnsweredOK({"RTA_SET_CONFIG"})
    /\ May("OK")
    /\ ~Refuses(hub.current.payload)
    /\ dev' = Applying(hub.current.payload)
    /\ rta' = ConfigMissing(rta)

(***************************************************************************)
(* on_rta_bands_().  The read that starts the engine returns no bands; a   *)
(* frame that is bad or of another version is dropped like an empty one,   *)
(* and one that is too old dims the display.                               *)
(***************************************************************************)
BandsRead ==
    /\ AnsweredOK({"RTA_GET_BANDS"})
    /\ \E r \in {[rta EXCEPT !.busy = FALSE, !.next_due = "later"]} :
         \/ /\ \/ May("SHORT")
               \/ May("OK") /\ (dev.running => dev.kind = "V2")
            /\ rta' = r
         \/ /\ May("STALE")
            /\ rta' = [r EXCEPT !.live = FALSE]
         \/ /\ May("OK") /\ dev.running /\ dev.kind = "V3"
            /\ rta' = [r EXCEPT !.live = TRUE]
    /\ dev' = [dev EXCEPT !.running = TRUE]

\* on_rta_status_()
StatusRead ==
    /\ AnsweredOK({"RTA_GET_STATUS"})
    /\ May("OK")
    /\ rta' = [rta EXCEPT !.busy = FALSE, !.next_due = "now"]
    /\ UNCHANGED dev

\* on_rta_control_(), of a stop, and rta_reset_avg()'s answer, which nobody
\* takes.
ControlDone ==
    /\ AnsweredOK({"RTA_CONTROL"})
    /\ May("OK")
    /\ IF hub.current.wvalue = Stop
       THEN /\ rta' = [rta EXCEPT !.busy = FALSE,
                                  !.phase = IF @ = "STOPPING" THEN "DISABLED" ELSE @]
            /\ dev' = [dev EXCEPT !.running = FALSE]
       ELSE UNCHANGED <<rta, dev>>

OtherDone ==
    /\ AnsweredOK(Others)
    /\ May("OK")
    /\ UNCHANGED <<rta, dev>>

\* A permanent status.  A device with this analyser does not refuse to set
\* it up, a device without it refuses everything.
Refused ==
    /\ Answered
    /\ \/ May("ERROR") /\ (dev.kind = "V3" => ~SetsUp(hub.current))
       \/ /\ hub.current.req \in RtaReqs /\ dev.kind = "NONE"
          /\ UNCHANGED faults
       \/ /\ hub.current.req = "RTA_SET_CONFIG" /\ Refuses(hub.current.payload)
          /\ UNCHANGED faults
       \/ /\ hub.current.req = "RTA_GET_BANDS" /\ hub.current.wvalue \notin DevChannels
          /\ UNCHANGED faults
    /\ hub' = Rejected(hub)
    /\ rta' = FailCallback(rta, hub.current, "ERROR")
    /\ UNCHANGED dev
    /\ Rearm({})

TryLater ==
    /\ Answered
    /\ May("BUSY")
    /\ hub' = RetriedOrDropped(hub)
    /\ rta' = AfterDrop(rta)
    /\ UNCHANGED dev
    /\ \E clock \in ProbeClock(hub') : due' = clock \cap Armed'

-----------------------------------------------------------------------------
(* The public methods *)

Call ==
    /\ ~pumping
    /\ calls < MaxCalls
    /\ calls' = calls + 1
    /\ UNCHANGED <<asked, pumping, due, uptime, dev, faults>>

SetRtaEnabled(on) ==
    /\ Call
    /\ on # rta.enabled
    /\ rta' = IF on THEN Enabled(rta) ELSE Disabled(hub, rta)
    /\ UNCHANGED hub

\* set_rta_tap() and set_rta_channel_mask()
Reconfigure(cfg) ==
    /\ Call
    /\ cfg # rta.desired /\ cfg.channel_mask # {}
    /\ \/ cfg = [rta.desired EXCEPT !.tap = cfg.tap]
       \/ cfg = [rta.desired EXCEPT !.channel_mask = cfg.channel_mask]
    /\ rta' = Reconfigured(rta, cfg)
    /\ UNCHANGED hub

RtaResetAvg ==
    /\ Call
    /\ rta.phase = "STREAMING"
    /\ hub' = Queued(hub, RtaGet("RTA_CONTROL", ResetAvg))
    /\ UNCHANGED rta

\* A setter of another part of the hub.
OtherCall(req) ==
    /\ Call
    /\ hub' = Queued(hub, OtherTxn(req))
    /\ UNCHANGED rta

-----------------------------------------------------------------------------
(* The device and the link *)

DeviceStep ==
    /\ ~pumping
    /\ UNCHANGED <<hub, pumping, due, rta, uptime, calls>>

\* The engine stops by itself seconds after the last read of bands.
EngineIdles ==
    /\ DeviceStep
    /\ rta.phase # "STREAMING" /\ dev.running
    /\ dev' = [dev EXCEPT !.running = FALSE]
    /\ UNCHANGED <<asked, faults>>

\* Another client configures the one analyser there is.
OthersConfigure(cfg) ==
    /\ DeviceStep
    /\ May("FOREIGN")
    /\ cfg # dev.cfg /\ ~Refuses(cfg) /\ cfg = Clamped(cfg)
    /\ dev' = [dev EXCEPT !.cfg = cfg, !.foreign = TRUE]
    /\ UNCHANGED asked

Lose ==
    /\ DeviceStep
    /\ asked
    /\ asked' = FALSE
    /\ \/ May("REQUEST_LOST") /\ UNCHANGED dev
       \/ /\ May("ANSWER_LOST") /\ dev.kind = "V3"
          /\ hub.current.req = "RTA_SET_CONFIG" /\ ~Refuses(hub.current.payload)
          /\ dev' = Applying(hub.current.payload)

-----------------------------------------------------------------------------

Answers == \/ PlatformRead \/ CapsRead \/ CentresRead \/ ConfigRead \/ ConfigSet
           \/ BandsRead \/ StatusRead \/ ControlDone \/ OtherDone
           \/ Refused \/ TryLater

UserCall == \/ \E on \in BOOLEAN : SetRtaEnabled(on)
            \/ \E cfg \in Configs : Reconfigure(cfg)
            \/ RtaResetAvg
            \/ \E req \in Others : OtherCall(req)

Device == Lose \/ EngineIdles \/ \E cfg \in Configs : OthersConfigure(cfg)

Clock == RtaTick \/ \E d \in Deadlines : Tick(d)

Next == Answers \/ FinishPass \/ UserCall \/ Device \/ Clock

Spec == Init /\ [][Next]_vars

(***************************************************************************)
(* Fairness.  As in Presets.                                               *)
(***************************************************************************)
Fairness ==
    /\ WF_vars(FinishPass)
    /\ SF_vars(Answers \/ Lose)
    /\ SF_vars(RtaTick)
    /\ \A d \in Deadlines : SF_vars(Tick(d))

FairSpec == Spec /\ Fairness

-----------------------------------------------------------------------------

\* The transactions of the analyser's state machine: those with a callback.
IsOwned(t) == SetsUp(t) \/ IsOptional(t) \/ t.req = "RTA_GET_BANDS"

Outstanding(h) ==
    {t \in Waiting(h.queue) \cup ({h.current} \ {NoTxn}) : IsOwned(t)}

(***************************************************************************)
(* "one RTA transaction outstanding" (rta_busy_): while it is set, one is, *)
(* so that the state machine never waits for an answer that cannot come.   *)
(* It holds while the queue has room for everything that is asked for.     *)
(***************************************************************************)
BusyMeansWork == rta.busy => Outstanding(hub) # {}

(***************************************************************************)
(* An analyser that is enabled and not given up always has a next step: it *)
(* is in a phase that goes on, and it has an answer to come or a deadline  *)
(* that will pass, also after an answer to what an earlier phase, an       *)
(* enabling or a configuration before this one asked for                   *)
(* (set_rta_enabled(), reset_rta_(), rta_advance_()).                      *)
(***************************************************************************)
NeverParked ==
    rta.enabled /\ rta.phase # "UNSUPPORTED" =>
        /\ rta.phase \notin {"DISABLED", "STOPPING"}
        /\ IF rta.busy THEN Outstanding(hub) # {} ELSE rta.next_due # "never"

(***************************************************************************)
(* "Never heard back, rather than refused.  The link is the problem, not   *)
(* the feature" (on_rta_setup_failed_()): a device with this analyser is   *)
(* only given up when it has refused every channel.                        *)
(***************************************************************************)
VerdictNeedsRefusal ==
    [][rta'.phase = "UNSUPPORTED" /\ rta.phase # "UNSUPPORTED" =>
         \/ dev.kind # "V3"
         \/ rta.phase = "STREAMING" /\ rta.poll_mask = {}]_vars

(***************************************************************************)
(* While it is enabled the analyser ends up delivering frames, or giving   *)
(* the device up, whatever was lost and changed before                     *)
(* (set_rta_enabled(), "Start or stop polling").                           *)
(***************************************************************************)
Streams ==
    <>[](rta.enabled /\ dev.kind = "V3") => <>[](rta.live \/ rta.phase = "UNSUPPORTED")

(***************************************************************************)
(* The configuration asked for is the one the device ends up with: "a      *)
(* silently failed write leaves an eight-channel rotation", and "comparing *)
(* what came back is the only way to catch that" (dspi.cpp), unless        *)
(* another client has the analyser, which the hub follows.                 *)
(***************************************************************************)
AppliesConfig ==
    <>[](rta.enabled /\ rta.phase # "UNSUPPORTED" /\ ~dev.foreign)
        => <>[](dev.cfg = Clamped(rta.desired))

(***************************************************************************)
(* Without a fault a change of tap or channels reaches the device,         *)
(* also when it is made while another configuration is being written or    *)
(* read back and a second transaction is queued beside the first           *)
(* (rta_advance_() in set_rta_tap(), which clears rta_busy_).              *)
(***************************************************************************)
AppliesUndisturbed == [](faults = 0) => AppliesConfig

(***************************************************************************)
(* Every channel that is polled is polled again and again                  *)
(* (rta_next_poll_channel_()), also next to one that is refused.           *)
(***************************************************************************)
PolledInTurn ==
    \A ch \in Channels :
        <>[](rta.phase = "STREAMING" /\ ch \in rta.poll_mask)
            => []<>(hub.current # NoTxn /\ Identity(hub.current) = Identity(BandsTxn(ch)))

(***************************************************************************)
(* "Disabling sends one best-effort RTA_CTL_STOP and stops polling"        *)
(* (dspi.h).                                                               *)
(***************************************************************************)
DisablingStops == <>[]~rta.enabled => <>[](Outstanding(hub) = {})

=============================================================================
