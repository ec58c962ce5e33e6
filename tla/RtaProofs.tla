------------------------------ MODULE RtaProofs -----------------------------
(***************************************************************************)
(* The safety of the spectrum analyser's state machine for every number of *)
(* channels and chunks, queue depth, retry budget and bound.               *)
(***************************************************************************)
EXTENDS Rta, TransportProofs

(***************************************************************************)
(* What this component queues: a write of the configuration carries one    *)
(* that names a channel, as set_rta_channel_mask() insists.                *)
(***************************************************************************)
RtaTxns ==
    {t \in Txn :
        t.req = "RTA_SET_CONFIG" => t.payload \in Configs /\ t.payload.channel_mask # {}}

-----------------------------------------------------------------------------

LEMMA RtaKind == RetriedKind(RtaTxns)
<1>1. RtaTxns \subseteq Txn
  BY DEF RtaTxns
<1>2. ASSUME NEW t \in RtaTxns, NEW n \in Nat
      PROVE  [t EXCEPT !.attempts = n] \in RtaTxns
  <2>1. [t EXCEPT !.attempts = n] \in Txn
    BY DEF RtaTxns, Txn
  <2> QED
    BY <2>1 DEF RtaTxns, Txn
<1>3. ASSUME NEW a \in RtaTxns, NEW b \in RtaTxns
      PROVE  Coalesced(a, b) \in RtaTxns
  <2>1. a.attempts \in Nat /\ b.attempts \in Nat
    BY DEF RtaTxns, Txn
  <2> DEFINE n == Max({a.attempts, b.attempts})
  <2>2. n \in Nat
    BY <2>1, MaxOfTwo
  <2>3. [b EXCEPT !.attempts = n] \in RtaTxns
    <3> HIDE DEF n
    <3> QED
      BY <1>2, <2>2
  <2> QED
    BY <2>3 DEF Coalesced
<1>4. ASSUME NEW t \in RtaTxns
      PROVE  [t EXCEPT !.attempts = @ + 1] \in RtaTxns
  <2>1. t.attempts + 1 \in Nat
    BY DEF RtaTxns, Txn
  <2> QED
    BY <1>2, <2>1
<1> QED
  BY <1>1, <1>3, <1>4 DEF RetriedKind, ClosedKind

LEMMA RtaTxnTypes ==
    ASSUME RtaAssumption
    PROVE  /\ \A req \in RtaReqs \ {"RTA_SET_CONFIG"}, w \in Wvalues :
                RtaGet(req, w) \in RtaTxns
           /\ \A cfg \in Configs : cfg.channel_mask # {} => SetConfigTxn(cfg) \in RtaTxns
           /\ \A ch \in Channels : BandsTxn(ch) \in RtaTxns
           /\ StopTxn \in RtaTxns
           /\ ProbeTxn \in RtaTxns
           /\ \A req \in Others : OtherTxn(req) \in RtaTxns
<1>1. /\ RtaReqs \subseteq Reqs /\ Others \subseteq Reqs /\ "PLATFORM" \in Reqs
      /\ "RTA_SET_CONFIG" \notin Others /\ MaxRetries \in Nat
      /\ 0 \in Wvalues /\ Channels \subseteq Wvalues
      /\ Nothing \in Payloads /\ Configs \subseteq Payloads
      /\ ProbeTxn = Txn0("PLATFORM", "GET", 0, Nothing, 0, MaxRetries)
  BY DEF RtaAssumption, RtaReqs
<1>2. \A req \in RtaReqs \ {"RTA_SET_CONFIG"}, w \in Wvalues : RtaGet(req, w) \in RtaTxns
  BY <1>1 DEF RtaGet, Txn0, RtaTxns, Txn, Priorities
<1>3. ASSUME NEW cfg \in Configs, cfg.channel_mask # {}
      PROVE  SetConfigTxn(cfg) \in RtaTxns
  <2>1. SetConfigTxn(cfg) \in Txn
    BY <1>1 DEF SetConfigTxn, Txn0, RtaReqs, Txn, Priorities
  <2>2. SetConfigTxn(cfg).payload = cfg
    BY DEF SetConfigTxn, Txn0
  <2> QED
    BY <1>3, <2>1, <2>2 DEF RtaTxns
<1>4. \A ch \in Channels : BandsTxn(ch) \in RtaTxns
  BY <1>1 DEF BandsTxn, Txn0, RtaReqs, RtaTxns, Txn, Priorities
<1>5. StopTxn \in RtaTxns
  BY <1>1 DEF StopTxn, Txn0, Stop, RtaReqs, RtaTxns, Txn, Priorities
<1>6. ProbeTxn \in RtaTxns
  BY <1>1 DEF Txn0, RtaTxns, Txn, Priorities
<1>7. \A req \in Others : OtherTxn(req) \in RtaTxns
  BY <1>1 DEF OtherTxn, Txn0, RtaTxns, Txn, Priorities
<1> QED
  BY <1>2, <1>3, <1>4, <1>5, <1>6, <1>7

LEMMA SoundIsTyped ==
    ASSUME NEW h, Sound(RtaTxns, h)
    PROVE  h \in Hubs
BY DEF RtaTxns, Sound, HubsOf, Hubs, Queues

-----------------------------------------------------------------------------

(***************************************************************************)
(* The analyser's members are consistent in themselves: the chunk of band  *)
(* centres that is asked for follows the ones the hub has, which keeps its *)
(* number within the table, and some channel is wanted.                    *)
(***************************************************************************)
Consistent(r) ==
    /\ r \in Rtas
    /\ r.centre_chunk <= r.centres_have + 1
    /\ r.desired.channel_mask # {}

(***************************************************************************)
(* The inductive invariant.  A request that the device may answer is in    *)
(* flight and not yet timed out: otherwise an answer would be matched to   *)
(* no transaction, or to the next one.                                     *)
(***************************************************************************)
IInv ==
    /\ TypeOK
    /\ Sound(RtaTxns, hub)
    /\ asked => hub.current # NoTxn /\ "timeout" \notin due
    /\ Consistent(rta)

LEMMA StartConsistent ==
    ASSUME RtaAssumption
    PROVE  Consistent(RtaAtStart)
<1>1. 1 \in 1 .. Chunks /\ 0 \in 0 .. Chunks /\ 0 \in Channels
  BY DEF RtaAssumption
<1> QED
  BY <1>1 DEF RtaAssumption, RtaAtStart, Consistent, Rtas, Phases

LEMMA AdvanceConsistent ==
    ASSUME NEW r, Consistent(r), NEW phase \in Phases, NEW next_due \in {"now", "later", "never"}
    PROVE  Consistent(Advance(r, phase, next_due))
BY DEF Advance, Consistent, Rtas

(***************************************************************************)
(* reset_rta_() asks for the first chunk again, so that what it is given   *)
(* need not be consistent: on_platform_() forgets the centres before it.   *)
(***************************************************************************)
LEMMA ResetConsistent ==
    ASSUME RtaAssumption, NEW r, r \in Rtas, r.desired.channel_mask # {}
    PROVE  Consistent(Reset(r))
<1>1. 1 \in 1 .. Chunks /\ 0 \in Channels /\ r.centres_have \in Nat
  BY DEF RtaAssumption, Rtas
<1>2. (IF r.enabled THEN FirstPhase(r) ELSE "DISABLED") \in Phases
  BY DEF FirstPhase, Phases
<1> DEFINE phase == IF r.enabled THEN FirstPhase(r) ELSE "DISABLED"
           next_due == IF uptime = "early" THEN "now" ELSE "never"
           status_due == uptime = "early"
<1>3. next_due \in {"now", "later", "never"} /\ status_due \in BOOLEAN
  OBVIOUS
<1>4. phase \in Phases
  BY <1>2
<1> DEFINE timed == [r EXCEPT !.phase = phase, !.next_due = next_due, !.status_due = status_due]
<1>5. Reset(r) = [timed EXCEPT !.busy = FALSE, !.centre_chunk = 1, !.poll_cursor = 0, !.live = FALSE]
  BY DEF Reset, Rtas
<1> HIDE DEF phase, next_due, status_due
<1>6. timed \in Rtas /\ timed.desired.channel_mask # {}
  <2>1. [r EXCEPT !.phase = phase, !.next_due = next_due] \in Rtas
    BY <1>3, <1>4 DEF Rtas
  <2>2. timed = [[r EXCEPT !.phase = phase, !.next_due = next_due] EXCEPT !.status_due = status_due]
    OBVIOUS
  <2>3. timed \in Rtas
    BY <1>3, <2>1, <2>2 DEF Rtas
  <2>4. timed.desired = r.desired
    BY DEF Rtas
  <2> QED
    BY <2>3, <2>4
<1> HIDE DEF timed
<1> DEFINE last == [timed EXCEPT !.busy = FALSE, !.centre_chunk = 1, !.poll_cursor = 0, !.live = FALSE]
<1>7. last \in Rtas
  BY <1>1, <1>6 DEF Rtas
<1>8. last.centre_chunk = 1 /\ last.desired = timed.desired /\ last.centres_have \in Nat
  BY <1>6, <1>7 DEF Rtas
<1>9. Consistent(last)
  <2> HIDE DEF last
  <2> QED
    BY <1>6, <1>7, <1>8 DEF Consistent
<1> QED
  BY <1>5, <1>9

LEMMA EnabledConsistent ==
    ASSUME NEW r, Consistent(r)
    PROVE  Consistent(Enabled(r))
<1>1. Consistent([r EXCEPT !.enabled = TRUE])
  BY DEF Consistent, Rtas
<1>2. FirstPhase(r) \in Phases
  BY DEF FirstPhase, Phases
<1> QED
  BY <1>1, <1>2, AdvanceConsistent DEF Enabled

LEMMA DisabledConsistent ==
    ASSUME NEW h, NEW r, Consistent(r)
    PROVE  Consistent(Disabled(h, r))
BY DEF Disabled, Consistent, Rtas, Phases

LEMMA ReconfiguredConsistent ==
    ASSUME NEW r, Consistent(r), NEW cfg \in Configs, cfg.channel_mask # {}
    PROVE  Consistent(Reconfigured(r, cfg))
<1>1. Consistent([r EXCEPT !.desired = cfg])
  BY DEF Consistent, Rtas
<1>2. "READ_CONFIG" \in Phases
  BY DEF Phases
<1> QED
  BY <1>1, <1>2, AdvanceConsistent DEF Reconfigured

(***************************************************************************)
(* rta_next_poll_channel_() polls a channel of the mask, and the cursor    *)
(* stays a channel.                                                        *)
(***************************************************************************)
LEMMA NextChannelPolled ==
    ASSUME RtaAssumption, NEW r \in Rtas, r.poll_mask # {}
    PROVE  NextChannel(r) \in r.poll_mask /\ NextChannel(r) \in Channels
<1> DEFINE beyond == {ch \in r.poll_mask : ch >= r.poll_cursor}
<1>1. r.poll_mask \subseteq Channels /\ r.poll_mask \subseteq Nat
  BY DEF Rtas, RtaAssumption
<1>2. CASE beyond # {}
  <2>1. beyond \subseteq Nat
    BY <1>1
  <2>2. Min(beyond) \in beyond
    BY <1>2, <2>1, MinOfSlots
  <2>3. NextChannel(r) = Min(beyond)
    BY <1>2 DEF NextChannel
  <2> QED
    BY <1>1, <2>2, <2>3
<1>3. CASE beyond = {}
  <2>1. NextChannel(r) = Min(r.poll_mask)
    BY <1>3 DEF NextChannel
  <2> QED
    BY <1>1, <2>1, MinOfSlots
<1> QED
  BY <1>2, <1>3

LEMMA MovedConsistent ==
    ASSUME RtaAssumption, NEW r, Consistent(r), ~NoChannelLeft(r)
    PROVE  Consistent(Moved(r))
<1>1. CASE ReadsStatus(r)
  <2>1. Moved(r) = [r EXCEPT !.status_due = FALSE]
    BY <1>1 DEF Moved, ReadsStatus, PollsBands
  <2> QED
    BY <2>1 DEF Consistent, Rtas
<1>2. CASE PollsBands(r)
  <2>1. NextChannel(r) \in Channels
    BY <1>2, NextChannelPolled DEF PollsBands, Consistent
  <2>2. CursorAfter(NextChannel(r)) \in Channels
    BY <2>1 DEF CursorAfter, RtaAssumption
  <2>3. Moved(r) = [r EXCEPT !.poll_cursor = CursorAfter(NextChannel(r))]
    BY <1>2 DEF Moved, ReadsStatus, PollsBands
  <2> QED
    BY <2>2, <2>3 DEF Consistent, Rtas
<1>3. CASE ~ReadsStatus(r) /\ ~PollsBands(r)
  BY <1>3 DEF Moved
<1> QED
  BY <1>1, <1>2, <1>3

(***************************************************************************)
(* The requests service_rta_() can come to, all of its own.                *)
(***************************************************************************)
LEMMA RequestIs ==
    ASSUME NEW h, NEW r, Consistent(r), Services(h, r), ~NoChannelLeft(r)
    PROVE  Request(r) \in
             {RtaGet("RTA_GET_CAPS", 0), RtaGet("RTA_GET_CAPS", r.centre_chunk),
              RtaGet("RTA_GET_CONFIG", 0), RtaGet("RTA_GET_STATUS", 0),
              SetConfigTxn(r.desired), StopTxn, BandsTxn(NextChannel(r))}
<1>1. r.phase \in Phases \ {"DISABLED", "UNSUPPORTED"} /\ r.status_due \in BOOLEAN
  BY DEF Services, Consistent, Rtas
<1>2. r.phase = "STREAMING" => ReadsStatus(r) \/ PollsBands(r)
  BY <1>1 DEF ReadsStatus, PollsBands, NoChannelLeft
<1>3. ReadsStatus(r) => ~PollsBands(r) /\ r.phase = "STREAMING"
  BY DEF ReadsStatus, PollsBands
<1>4. PollsBands(r) => r.phase = "STREAMING"
  BY DEF PollsBands
<1>5. CASE r.phase = "STREAMING" /\ ReadsStatus(r)
  BY <1>3, <1>5 DEF Request
<1>6. CASE r.phase = "STREAMING" /\ PollsBands(r)
  BY <1>3, <1>6 DEF Request
<1>7. CASE r.phase # "STREAMING"
  <2>1. r.phase \in {"NEED_CAPS", "NEED_CENTRES", "READ_CONFIG", "SET_CONFIG",
                     "VERIFY_CONFIG", "STOPPING"}
    BY <1>1, <1>7 DEF Phases
  <2> QED
    BY <1>3, <1>4, <1>7, <2>1 DEF Request
<1> QED
  BY <1>2, <1>5, <1>6, <1>7

(***************************************************************************)
(* service_rta_() always has a request to make, or no channel left.        *)
(***************************************************************************)
LEMMA RequestType ==
    ASSUME RtaAssumption, NEW h, NEW r, Consistent(r), Services(h, r), ~NoChannelLeft(r)
    PROVE  Request(r) \in RtaTxns
<1>1. /\ r.phase \in Phases \ {"DISABLED", "UNSUPPORTED"}
      /\ r.status_due \in BOOLEAN /\ r.centre_chunk \in 0 .. Chunks
      /\ r.desired \in Configs /\ r.desired.channel_mask # {}
  BY DEF Services, Consistent, Rtas, RtaAssumption
<1>2. 0 \in Wvalues /\ r.centre_chunk \in Wvalues
  BY <1>1 DEF RtaAssumption
<1>3. /\ RtaGet("RTA_GET_CAPS", 0) \in RtaTxns
      /\ RtaGet("RTA_GET_CAPS", r.centre_chunk) \in RtaTxns
      /\ RtaGet("RTA_GET_CONFIG", 0) \in RtaTxns
      /\ RtaGet("RTA_GET_STATUS", 0) \in RtaTxns
      /\ SetConfigTxn(r.desired) \in RtaTxns
      /\ StopTxn \in RtaTxns
  BY <1>1, <1>2, RtaTxnTypes DEF RtaReqs
<1>4. PollsBands(r) => BandsTxn(NextChannel(r)) \in RtaTxns
  BY NextChannelPolled, RtaTxnTypes DEF PollsBands, Consistent
<1>5. r.phase = "STREAMING" => ReadsStatus(r) \/ PollsBands(r)
  BY <1>1 DEF ReadsStatus, PollsBands, NoChannelLeft
<1>6. ReadsStatus(r) => ~PollsBands(r) /\ r.phase = "STREAMING"
  BY DEF ReadsStatus, PollsBands
<1>7. PollsBands(r) => r.phase = "STREAMING"
  BY DEF PollsBands
<1>8. CASE r.phase = "STREAMING"
  <2>1. CASE ReadsStatus(r)
    BY <1>3, <1>6, <1>8, <2>1 DEF Request
  <2>2. CASE PollsBands(r)
    BY <1>4, <1>6, <1>8, <2>2 DEF Request
  <2> QED
    BY <1>5, <1>8, <2>1, <2>2
<1>9. CASE r.phase # "STREAMING"
  <2>1. r.phase \in {"NEED_CAPS", "NEED_CENTRES", "READ_CONFIG", "SET_CONFIG",
                     "VERIFY_CONFIG", "STOPPING"}
    BY <1>1, <1>9 DEF Phases
  <2> QED
    BY <1>3, <1>6, <1>7, <1>9, <2>1 DEF Request
<1> QED
  BY <1>8, <1>9

LEMMA ServicedConsistent ==
    ASSUME RtaAssumption, NEW h, NEW r, Consistent(r)
    PROVE  Consistent(Serviced(h, r))
<1>1. CASE ~Services(h, r)
  BY <1>1 DEF Serviced
<1>2. CASE Services(h, r) /\ NoChannelLeft(r)
  BY <1>2 DEF Serviced, Consistent, Rtas, Phases
<1>3. CASE Services(h, r) /\ ~NoChannelLeft(r)
  <2> DEFINE m == Moved(r)
  <2>1. Consistent(m)
    BY <1>3, MovedConsistent
  <2>2. \/ Serviced(h, r) = [m EXCEPT !.busy = TRUE]
        \/ Serviced(h, r) = [m EXCEPT !.next_due = "later"]
    BY <1>3 DEF Serviced
  <2> HIDE DEF m
  <2>3. Consistent([m EXCEPT !.busy = TRUE])
    BY <2>1 DEF Consistent, Rtas
  <2>4. Consistent([m EXCEPT !.next_due = "later"])
    BY <2>1 DEF Consistent, Rtas
  <2> QED
    BY <2>2, <2>3, <2>4
<1> QED
  BY <1>1, <1>2, <1>3

LEMMA FailCallbackConsistent ==
    ASSUME NEW r, Consistent(r), NEW t, NEW status
    PROVE  Consistent(FailCallback(r, t, status))
<1>1. Consistent(SetupFailed(r, status))
  BY DEF SetupFailed, Consistent, Rtas, Phases
<1>2. Consistent(BandsFailed(r, t.wvalue, status))
  <2>1. (IF status = "LINK_FAILED" THEN r.poll_mask ELSE r.poll_mask \ {t.wvalue})
          \in SUBSET Channels
    BY DEF Consistent, Rtas
  <2> QED
    BY <2>1 DEF BandsFailed, Consistent, Rtas
<1>3. Consistent(OptionalFailed(r))
  <2>1. Consistent(Advance(r, "READ_CONFIG", "now"))
    BY AdvanceConsistent DEF Phases
  <2> QED
    BY <2>1 DEF OptionalFailed, Consistent, Rtas, Phases
<1> HIDE DEF Consistent
<1>4. FailCallback(r, t, status) \in
        {SetupFailed(r, status), BandsFailed(r, t.wvalue, status), OptionalFailed(r), r}
  BY DEF FailCallback
<1> QED
  BY <1>1, <1>2, <1>3, <1>4

LEMMA AfterDropConsistent ==
    ASSUME RtaAssumption, NEW r, Consistent(r)
    PROVE  Consistent(AfterDrop(r))
<1>1. Consistent(Reset(r))
  BY ResetConsistent DEF Consistent
<1> QED
  BY <1>1, FailCallbackConsistent DEF AfterDrop

-----------------------------------------------------------------------------

LEMMA InitIInv == Init => IInv
<1> SUFFICES ASSUME Init PROVE IInv
  OBVIOUS
<1>1. Sound(RtaTxns, HubAtStart) /\ HubAtStart.current = NoTxn
  BY TransportAssumption, EmptyQueueSound
  DEF HubAtStart, Sound, HubsOf, HubStates, OneInFlight, TransportAssumption
<1>2. ClosedKind(RtaTxns) /\ ProbeTxn \in RtaTxns
  BY RtaAssumption, RtaKind, RtaTxnTypes DEF RetriedKind
<1>3. Sound(RtaTxns, hub)
  BY <1>1, <1>2, QueueAssumption, ProbedSound DEF Init
<1>4. hub \in Hubs /\ Consistent(rta)
  BY <1>3, RtaAssumption, SoundIsTyped, StartConsistent DEF Init
<1>5. dev \in Devices /\ uptime \in {"early", "late"}
  BY RtaAssumption DEF Init, Devices, RtaAssumption
<1>6. calls \in 0 .. MaxCalls /\ faults \in 0 .. MaxFaults
  BY RtaAssumption DEF Init, RtaAssumption
<1> QED
  BY <1>3, <1>4, <1>5, <1>6 DEF Init, IInv, TypeOK, Consistent

(***************************************************************************)
(* The rest of a pass of loop(): a request is only sent when none is in    *)
(* flight, and sending it disarms the timeout of the one before.           *)
(***************************************************************************)
LEMMA FinishPassIInv ==
    ASSUME IInv, FinishPass
    PROVE  IInv'
<1>1. RetriedKind(RtaTxns) /\ ClosedKind(RtaTxns) /\ ProbeTxn \in RtaTxns
  BY RtaAssumption, RtaKind, RtaTxnTypes DEF RetriedKind
<1> DEFINE timed == AfterTimers(hub, due)
           r == IF DropsOnTimeout THEN AfterDrop(rta) ELSE rta
<1>2. PICK clock \in ProbeClock(timed) :
        LET probed == AfterReprobe(timed, clock)
            produced == Offered(probed, r)
        IN  /\ hub' = SentNext(produced)
            /\ asked' = (asked \/ CanSend(produced))
            /\ rta' = Serviced(probed, r)
            /\ due' \subseteq due /\ "timeout" \notin due'
  BY DEF FinishPass, Rearm
<1> DEFINE probed == AfterReprobe(timed, clock)
           produced == Offered(probed, r)
<1>3. Consistent(r)
  BY RtaAssumption, AfterDropConsistent DEF IInv
<1>4. Consistent(rta')
  <2> HIDE DEF r, probed
  <2> QED
    BY <1>2, <1>3, RtaAssumption, ServicedConsistent DEF probed
<1>5. Sound(RtaTxns, timed)
  BY <1>1, QueueAssumption, TransportAssumption, AfterTimersSound DEF IInv
<1>6. Sound(RtaTxns, probed)
  BY <1>1, <1>5, QueueAssumption, AfterReprobeSound
<1>7. Sound(RtaTxns, produced) /\ produced.current = probed.current
  <2> HIDE DEF r, probed
  <2>1. CASE Services(probed, r) /\ ~NoChannelLeft(r)
    <3>1. Request(r) \in RtaTxns
      BY <1>3, <2>1, RtaAssumption, RequestType
    <3>2. produced = Queued(probed, Request(r))
      BY <2>1 DEF Offered
    <3>3. Sound(RtaTxns, produced)
      BY <1>1, <1>6, <3>1, <3>2, QueueAssumption, QueuedSound
    <3> HIDE DEF produced
    <3> QED
      BY <1>6, <3>2, <3>3 DEF Queued, Sound, HubsOf
  <2>2. CASE ~(Services(probed, r) /\ ~NoChannelLeft(r))
    BY <1>6, <2>2 DEF Offered
  <2> QED
    BY <2>1, <2>2
<1>8. asked => produced.current = hub.current /\ hub.current # NoTxn
  <2> SUFFICES ASSUME asked
               PROVE  produced.current = hub.current /\ hub.current # NoTxn
    OBVIOUS
  <2>1. hub.current # NoTxn /\ "timeout" \notin due /\ hub.hub_state = "AWAIT_RESP"
    BY DEF IInv, Sound, OneInFlight
  <2>2. timed = hub
    BY <2>1 DEF AfterTimers
  <2>3. probed = hub
    BY <2>1, <2>2 DEF AfterReprobe, ProbeDue
  <2> QED
    BY <1>7, <2>1, <2>3
<1> HIDE DEF produced
<1>9. Sound(RtaTxns, hub')
  BY <1>1, <1>2, <1>7, QueueAssumption, SentNextSound DEF produced
<1>10. asked' => hub'.current # NoTxn
  <2>1. CASE CanSend(produced)
    <3>1. NextOut(produced) \in RtaTxns /\ NextOut(produced) # NoTxn
      BY <1>1, <1>7, <2>1, QueueAssumption, NextOutIsTxn
      DEF RetriedKind, ClosedKind, QueueAssumption
    <3>2. hub' = Sent(produced)
      BY <1>2, <2>1 DEF SentNext, produced
    <3> QED
      BY <1>7, <3>1, <3>2 DEF Sent, Sound, HubsOf
  <2>2. CASE ~CanSend(produced)
    <3>1. hub' = produced /\ asked' = asked
      <4>1. hub' = produced /\ asked' = (asked \/ CanSend(produced))
        BY <1>2, <2>2 DEF SentNext, produced
      <4> QED
        BY <4>1, <2>2 DEF IInv, TypeOK
    <3> QED
      BY <1>8, <3>1
  <2> QED
    BY <2>1, <2>2
<1>11. asked' \in BOOLEAN
  BY <1>2, Zenon DEF IInv, TypeOK
<1>12. hub' \in Hubs /\ due' \subseteq Deadlines /\ rta' \in Rtas
  BY <1>2, <1>4, <1>9, SoundIsTyped DEF IInv, TypeOK, Consistent
<1>13. /\ pumping' = FALSE /\ uptime' = uptime /\ dev' = dev
       /\ calls' = calls /\ faults' = faults
  BY DEF FinishPass
<1> QED
  BY <1>2, <1>4, <1>9, <1>10, <1>11, <1>12, <1>13 DEF IInv, TypeOK

(***************************************************************************)
(* What an answer of the device may do to its own state.                   *)
(***************************************************************************)
LEMMA MayFaults ==
    ASSUME IInv, NEW reply, May(reply)
    PROVE  faults' \in 0 .. MaxFaults
BY RtaAssumption DEF IInv, TypeOK, May, RtaAssumption

LEMMA ApplyingType ==
    ASSUME IInv, NEW cfg \in Configs
    PROVE  Clamped(cfg) \in Configs /\ Applying(cfg) \in Devices
<1>1. Clamped(cfg) \in Configs
  BY DEF Clamped, Configs
<1> QED
  BY <1>1 DEF Applying, Devices, IInv, TypeOK

(***************************************************************************)
(* on_platform_() forgets the centres, starts over and may enable.         *)
(***************************************************************************)
LEMMA PlatformKeeps ==
    ASSUME RtaAssumption, Consistent(rta), PlatformRead
    PROVE  Consistent(rta') /\ rta'.phase # "UNSUPPORTED"
<1> DEFINE known == [rta EXCEPT !.caps_valid = FALSE, !.centres_have = 0]
           r == Reset(known)
<1>1. rta' = r \/ rta' = Enabled(r)
  BY DEF PlatformRead
<1>2. known \in Rtas /\ known.desired.channel_mask # {}
  <2>1. rta \in Rtas /\ rta.desired.channel_mask # {} /\ 0 \in 0 .. Chunks
    BY RtaAssumption DEF RtaAssumption, Consistent
  <2>2. known \in Rtas /\ known.desired = rta.desired
    BY <2>1 DEF Rtas
  <2> QED
    BY <2>1, <2>2
<1> HIDE DEF known
<1>3. Consistent(r)
  BY <1>2, RtaAssumption, ResetConsistent
<1>4. r.phase # "UNSUPPORTED"
  BY <1>2 DEF Reset, FirstPhase, Rtas
<1> HIDE DEF r
<1>5. Consistent(Enabled(r)) /\ Enabled(r).phase # "UNSUPPORTED"
  BY <1>3, <1>4, EnabledConsistent DEF Enabled, Advance, FirstPhase, Consistent, Rtas
<1> QED
  BY <1>1, <1>3, <1>4, <1>5

(***************************************************************************)
(* The handlers of an answer.                                              *)
(***************************************************************************)
LEMMA AnswersIInv ==
    ASSUME IInv, Answers
    PROVE  IInv'
<1>1. RetriedKind(RtaTxns) /\ ClosedKind(RtaTxns)
  BY RtaKind DEF RetriedKind
<1>2. Answered
  BY DEF Answers, PlatformRead, CapsRead, CentresRead, ConfigRead, ConfigSet,
         BandsRead, StatusRead, ControlDone, OtherDone, Refused, TryLater, AnsweredOK
<1>3. /\ asked' = FALSE /\ pumping' = TRUE /\ uptime' = uptime /\ calls' = calls
      /\ hub.current \in RtaTxns
  BY <1>2 DEF Answered, IInv, Sound, HubsOf
<1>4. SUFFICES /\ Sound(RtaTxns, hub') /\ due' \subseteq Deadlines
               /\ Consistent(rta') /\ dev' \in Devices /\ faults' \in 0 .. MaxFaults
  <2>1. Sound(RtaTxns, hub') => hub' \in Hubs
    BY SoundIsTyped
  <2> QED
    BY <1>3, <2>1 DEF IInv, TypeOK, Consistent
<1>5. /\ dev \in Devices /\ dev.cfg \in Configs /\ due \subseteq Deadlines
      /\ faults \in 0 .. MaxFaults /\ Consistent(rta)
      /\ rta \in Rtas /\ rta.desired \in Configs
  BY DEF IInv, TypeOK, Devices, Rtas
<1>6. Sound(RtaTxns, Succeeded(hub)) /\ Sound(RtaTxns, Rejected(hub))
  BY TransportAssumption, RejectedSound DEF IInv
<1>7. ASSUME NEW reqs, AnsweredOK(reqs)
      PROVE  Sound(RtaTxns, hub') /\ due' \subseteq Deadlines
  BY <1>5, <1>6, <1>7 DEF AnsweredOK, Rearm
<1>8. ASSUME NEW reply, May(reply)
      PROVE  faults' \in 0 .. MaxFaults
  BY <1>8, MayFaults
<1>9. {"READ_CONFIG", "NEED_CAPS", "NEED_CENTRES", "SET_CONFIG", "VERIFY_CONFIG", "STREAMING"}
        \subseteq Phases
  BY DEF Phases
<1>10. CASE PlatformRead
  <2>1. Sound(RtaTxns, hub')
    <3>1. Succeeded(hub).hub_state = "IDLE"
      BY DEF Succeeded, Rejected, IInv, Sound, HubsOf
    <3>2. hub' = [Succeeded(hub) EXCEPT !.identified = TRUE]
      BY <1>10 DEF PlatformRead
    <3> HIDE DEF Succeeded
    <3> QED
      BY <1>6, <3>1, <3>2 DEF Sound, HubsOf, OneInFlight
  <2>2. Consistent(rta')
    BY <1>5, <1>10, RtaAssumption, PlatformKeeps
  <2>3. dev' = dev /\ due' \subseteq Deadlines /\ faults' \in 0 .. MaxFaults
    BY <1>5, <1>8, <1>10 DEF PlatformRead, Rearm
  <2> QED
    BY <1>5, <2>1, <2>2, <2>3
<1>11. CASE CapsRead
  <2> DEFINE read == [rta EXCEPT !.caps_valid = TRUE, !.centres_have = 0,
                                 !.centre_chunk = 1, !.desired = InRange(@)]
  <2>1. Consistent(read)
    <3>1. InRange(rta.desired) \in Configs /\ InRange(rta.desired).channel_mask # {}
      BY <1>5, RtaAssumption DEF InRange, Configs, Consistent, RtaAssumption
    <3>2. 0 \in 0 .. Chunks /\ 1 \in 1 .. Chunks
      BY RtaAssumption DEF RtaAssumption
    <3> DEFINE cfg == InRange(rta.desired)
    <3>3. read = [rta EXCEPT !.caps_valid = TRUE, !.centres_have = 0,
                             !.centre_chunk = 1, !.desired = cfg]
      BY <1>5 DEF Rtas
    <3> HIDE DEF cfg, read
    <3>4. read \in Rtas /\ read.centres_have = 0 /\ read.centre_chunk = 1 /\ read.desired = cfg
      BY <1>5, <3>1, <3>2, <3>3 DEF Rtas, cfg
    <3> QED
      BY <3>1, <3>4 DEF Consistent, cfg
  <2>2. \/ rta' = Advance(rta, "NEED_CAPS", "later")
        \/ rta' = [rta EXCEPT !.phase = "UNSUPPORTED", !.busy = FALSE]
        \/ rta' = Advance(read, "NEED_CENTRES", "now")
    BY <1>11 DEF CapsRead
  <2>3. Consistent([rta EXCEPT !.phase = "UNSUPPORTED", !.busy = FALSE])
    BY <1>5 DEF Consistent, Rtas, Phases
  <2> HIDE DEF read
  <2>4. Consistent(rta')
    BY <1>5, <1>9, <2>1, <2>2, <2>3, AdvanceConsistent
  <2> QED
    BY <1>5, <1>7, <1>8, <1>11, <2>4 DEF CapsRead
<1>12. CASE CentresRead
  <2> DEFINE have == Min({rta.centres_have + 1, Chunks})
             ended == [rta EXCEPT !.centres_have = have]
             more == [rta EXCEPT !.centres_have = have, !.centre_chunk = @ + 1]
  <2>1. /\ rta.centres_have \in Nat /\ rta.centres_have <= Chunks /\ Chunks \in Nat
        /\ rta.centre_chunk \in Nat /\ 1 <= rta.centre_chunk
        /\ rta.centre_chunk <= rta.centres_have + 1
    BY <1>5, RtaAssumption DEF Consistent, Rtas, RtaAssumption
  <2>2. /\ have \in {rta.centres_have + 1, Chunks}
        /\ have <= rta.centres_have + 1 /\ have <= Chunks
    <3>1. {rta.centres_have + 1, Chunks} \subseteq Nat
      BY <2>1
    <3> QED
      BY <3>1, MinOfSlots
  <2> HIDE DEF have
  <2>3. CASE have = Chunks
    <3>1. Consistent(ended)
      <4>1. have \in 0 .. Chunks /\ rta.centre_chunk <= have + 1
        BY <1>5, <2>1, <2>3, RtaAssumption DEF Rtas, RtaAssumption
      <4> QED
        BY <1>5, <4>1 DEF Consistent, Rtas
    <3>2. \/ rta' = Advance(rta, "READ_CONFIG", "now")
          \/ rta' = Advance(ended, "READ_CONFIG", "now")
      BY <1>12, <2>3 DEF CentresRead, have
    <3> HIDE DEF ended
    <3>3. Consistent(rta')
      BY <1>5, <1>9, <3>1, <3>2, AdvanceConsistent
    <3> QED
      BY <1>5, <1>7, <1>8, <1>12, <3>3 DEF CentresRead
  <2>4. CASE have # Chunks
    <3>1. Consistent(more)
      <4>1. have \in 0 .. Chunks /\ rta.centre_chunk + 1 \in 1 .. Chunks
        BY <2>1, <2>2, <2>4
      <4>2. rta.centre_chunk + 1 <= have + 1
        BY <2>1, <2>2, <2>4
      <4> QED
        BY <1>5, <4>1, <4>2 DEF Consistent, Rtas
    <3>2. \/ rta' = Advance(rta, "READ_CONFIG", "now")
          \/ rta' = Advance(more, "NEED_CENTRES", "now")
      BY <1>12, <2>4 DEF CentresRead, have
    <3> HIDE DEF more
    <3>3. Consistent(rta')
      BY <1>5, <1>9, <3>1, <3>2, AdvanceConsistent
    <3> QED
      BY <1>5, <1>7, <1>8, <1>12, <3>3 DEF CentresRead
  <2> QED
    BY <2>3, <2>4
<1>13. Consistent(ConfigMissing(rta))
  BY <1>5, <1>9, AdvanceConsistent DEF ConfigMissing
<1>14. CASE ConfigRead
  <2> DEFINE polling == [rta EXCEPT !.poll_mask = dev.cfg.channel_mask, !.poll_cursor = 0,
                                    !.status_due = FALSE]
  <2>1. Consistent(polling)
    <3>1. dev.cfg.channel_mask \in SUBSET Channels /\ 0 \in Channels
      BY <1>5, RtaAssumption DEF Configs, RtaAssumption
    <3> QED
      BY <1>5, <3>1 DEF Consistent, Rtas
  <2>2. ConfigTaken(rta, dev.cfg) \in
          {Advance(rta, "VERIFY_CONFIG", "now"), Advance(polling, "STREAMING", "now"),
           Advance(rta, "SET_CONFIG", "now")}
    BY DEF ConfigTaken, Streaming
  <2> HIDE DEF polling
  <2>3. Consistent(ConfigTaken(rta, dev.cfg))
    BY <1>5, <1>9, <2>1, <2>2, AdvanceConsistent
  <2>4. Consistent(rta')
    BY <1>13, <1>14, <2>3 DEF ConfigRead
  <2> QED
    BY <1>5, <1>7, <1>8, <1>14, <2>4 DEF ConfigRead
<1>15. CASE ConfigSet
  <2>1. hub.current.payload \in Configs
    <3>1. hub.current # NoTxn /\ hub.current.req = "RTA_SET_CONFIG"
      BY <1>2, <1>15 DEF ConfigSet, AnsweredOK, Answered, IInv
    <3>2. hub.current \in RtaTxns
      BY <3>1 DEF IInv, Sound, HubsOf
    <3> QED
      BY <3>1, <3>2 DEF RtaTxns
  <2>2. dev' \in Devices
    BY <1>15, <2>1, ApplyingType DEF ConfigSet
  <2> QED
    BY <1>7, <1>8, <1>13, <1>15, <2>2 DEF ConfigSet
<1>16. CASE BandsRead
  <2>1. dev' \in Devices
    BY <1>5, <1>16 DEF BandsRead, Devices
  <2>2. Consistent(rta') /\ faults' \in 0 .. MaxFaults
    <3> DEFINE r == [rta EXCEPT !.busy = FALSE, !.next_due = "later"]
    <3>1. Consistent(r)
      BY <1>5 DEF Consistent, Rtas
    <3>2. rta' = r \/ rta' = [r EXCEPT !.live = FALSE] \/ rta' = [r EXCEPT !.live = TRUE]
      BY <1>16 DEF BandsRead
    <3>3. faults' \in 0 .. MaxFaults
      BY <1>8, <1>16 DEF BandsRead
    <3> HIDE DEF r
    <3>4. Consistent([r EXCEPT !.live = FALSE]) /\ Consistent([r EXCEPT !.live = TRUE])
      BY <3>1 DEF Consistent, Rtas
    <3> QED
      BY <3>1, <3>2, <3>3, <3>4
  <2> QED
    BY <1>7, <1>16, <2>1, <2>2 DEF BandsRead
<1>17. CASE StatusRead
  <2>1. Consistent([rta EXCEPT !.busy = FALSE, !.next_due = "now"])
    BY <1>5 DEF Consistent, Rtas
  <2> QED
    BY <1>5, <1>7, <1>8, <1>17, <2>1 DEF StatusRead
<1>18. CASE ControlDone
  <2> DEFINE phase == IF rta.phase = "STOPPING" THEN "DISABLED" ELSE rta.phase
  <2>1. rta' = rta \/ rta' = [rta EXCEPT !.busy = FALSE, !.phase = phase]
    <3>1. [rta EXCEPT !.busy = FALSE, !.phase = IF @ = "STOPPING" THEN "DISABLED" ELSE @]
            = [rta EXCEPT !.busy = FALSE, !.phase = phase]
      BY <1>5 DEF Rtas
    <3> QED
      BY <1>18, <3>1 DEF ControlDone
  <2>2. phase \in Phases
    BY <1>5 DEF Rtas, Phases
  <2> HIDE DEF phase
  <2>3. Consistent([rta EXCEPT !.busy = FALSE, !.phase = phase])
    BY <1>5, <2>2 DEF Consistent, Rtas
  <2>4. dev' \in Devices
    BY <1>5, <1>18 DEF ControlDone, Devices
  <2> QED
    BY <1>5, <1>7, <1>8, <1>18, <2>1, <2>3, <2>4 DEF ControlDone
<1>19. CASE OtherDone
  BY <1>5, <1>7, <1>8, <1>19 DEF OtherDone
<1>20. CASE Refused
  <2>1. Consistent(rta')
    BY <1>5, <1>20, FailCallbackConsistent DEF Refused
  <2>2. faults' \in 0 .. MaxFaults
    BY <1>5, <1>8, <1>20 DEF Refused
  <2> QED
    BY <1>5, <1>6, <1>20, <2>1, <2>2 DEF Refused, Rearm
<1>21. CASE TryLater
  <2>1. hub.current # NoTxn
    BY <1>2 DEF Answered, IInv
  <2>2. Sound(RtaTxns, hub')
    BY <1>1, <1>21, <2>1, QueueAssumption, TransportAssumption, RetriedOrDroppedSound
    DEF TryLater, IInv
  <2>3. Consistent(rta')
    BY <1>5, <1>21, RtaAssumption, AfterDropConsistent DEF TryLater
  <2>4. due' \subseteq Deadlines
    BY <1>5, <1>21 DEF TryLater, ProbeClock, Deadlines
  <2> QED
    BY <1>5, <1>8, <1>21, <2>2, <2>3, <2>4 DEF TryLater
<1> QED
  BY <1>10, <1>11, <1>12, <1>14, <1>15, <1>16, <1>17, <1>18, <1>19, <1>20, <1>21 DEF Answers

(***************************************************************************)
(* The public methods.                                                     *)
(***************************************************************************)
LEMMA UserCallIInv ==
    ASSUME IInv, UserCall
    PROVE  IInv'
<1>1. ClosedKind(RtaTxns)
  BY RtaKind DEF RetriedKind
<1>2. Call
  BY DEF UserCall, SetRtaEnabled, Reconfigure, RtaResetAvg, OtherCall
<1>3. calls' \in 0 .. MaxCalls
  BY <1>2, RtaAssumption DEF Call, IInv, TypeOK, RtaAssumption
<1>4. SUFFICES Sound(RtaTxns, hub') /\ hub'.current = hub.current /\ Consistent(rta')
  <2>1. Sound(RtaTxns, hub') => hub' \in Hubs
    BY SoundIsTyped
  <2> QED
    BY <1>2, <1>3, <2>1 DEF Call, IInv, TypeOK, Consistent
<1>5. Sound(RtaTxns, hub) /\ Consistent(rta)
  BY DEF IInv
<1>6. ASSUME NEW t \in RtaTxns
      PROVE  Sound(RtaTxns, Queued(hub, t)) /\ Queued(hub, t).current = hub.current
  <2>1. Sound(RtaTxns, Queued(hub, t))
    BY <1>1, <1>5, QueueAssumption, QueuedSound
  <2> QED
    BY <1>5, <2>1 DEF Queued, Sound, HubsOf
<1>7. ASSUME NEW on \in BOOLEAN, SetRtaEnabled(on)
      PROVE  Sound(RtaTxns, hub') /\ hub'.current = hub.current /\ Consistent(rta')
  BY <1>5, <1>7, EnabledConsistent, DisabledConsistent DEF SetRtaEnabled
<1>8. ASSUME NEW cfg \in Configs, Reconfigure(cfg)
      PROVE  Sound(RtaTxns, hub') /\ hub'.current = hub.current /\ Consistent(rta')
  BY <1>5, <1>8, ReconfiguredConsistent DEF Reconfigure
<1>9. CASE RtaResetAvg
  <2>1. RtaGet("RTA_CONTROL", ResetAvg) \in RtaTxns
    BY RtaAssumption, RtaTxnTypes DEF RtaAssumption, RtaReqs
  <2> QED
    BY <1>5, <1>6, <1>9, <2>1 DEF RtaResetAvg
<1>10. ASSUME NEW req \in Others, OtherCall(req)
       PROVE  Sound(RtaTxns, hub') /\ hub'.current = hub.current /\ Consistent(rta')
  <2>1. OtherTxn(req) \in RtaTxns
    BY RtaAssumption, RtaTxnTypes
  <2> QED
    BY <1>5, <1>6, <1>10, <2>1 DEF OtherCall
<1> QED
  BY <1>7, <1>8, <1>9, <1>10 DEF UserCall

(***************************************************************************)
(* The device and the link.                                                *)
(***************************************************************************)
LEMMA DeviceIInv ==
    ASSUME IInv, Device
    PROVE  IInv'
<1>1. DeviceStep /\ hub' = hub /\ due' = due /\ rta' = rta
  BY DEF Device, Lose, EngineIdles, OthersConfigure, DeviceStep
<1>2. SUFFICES /\ asked' \in BOOLEAN /\ (asked' => asked)
               /\ dev' \in Devices /\ faults' \in 0 .. MaxFaults
  BY <1>1 DEF DeviceStep, IInv, TypeOK
<1>3. /\ dev \in Devices /\ asked \in BOOLEAN /\ faults \in 0 .. MaxFaults
  BY DEF IInv, TypeOK
<1>4. CASE Lose
  <2>1. hub.current # NoTxn /\ hub.current \in RtaTxns
    BY <1>4 DEF Lose, IInv, Sound, HubsOf
  <2>2. hub.current.req = "RTA_SET_CONFIG" => hub.current.payload \in Configs
    BY <2>1 DEF RtaTxns
  <2>3. dev' \in Devices
    BY <1>3, <1>4, <2>2, ApplyingType DEF Lose
  <2> QED
    BY <1>4, <2>3, MayFaults DEF Lose
<1>5. CASE EngineIdles
  BY <1>3, <1>5 DEF EngineIdles, Devices
<1>6. ASSUME NEW cfg \in Configs, OthersConfigure(cfg)
      PROVE  /\ asked' \in BOOLEAN /\ (asked' => asked)
             /\ dev' \in Devices /\ faults' \in 0 .. MaxFaults
  <2>1. dev' \in Devices
    BY <1>3, <1>6 DEF OthersConfigure, Devices
  <2> QED
    BY <1>3, <1>6, <2>1, MayFaults DEF OthersConfigure
<1> QED
  BY <1>4, <1>5, <1>6 DEF Device

(***************************************************************************)
(* The clock: a transaction does not time out while its answer may come.   *)
(***************************************************************************)
LEMMA ClockIInv ==
    ASSUME IInv, Clock
    PROVE  IInv'
<1>1. ASSUME NEW d \in Deadlines, Tick(d)
      PROVE  IInv'
  BY <1>1 DEF Tick, IInv, TypeOK, Consistent
<1>2. CASE RtaTick
  <2>1. Consistent([rta EXCEPT !.next_due = "now"]) /\ Consistent([rta EXCEPT !.status_due = TRUE])
    BY DEF IInv, Consistent, Rtas
  <2>2. Consistent(rta')
    BY <1>2, <2>1 DEF RtaTick
  <2> QED
    BY <1>2, <2>2 DEF RtaTick, IInv, TypeOK, Consistent
<1> QED
  BY <1>1, <1>2 DEF Clock

LEMMA NextIInv == IInv /\ [Next]_vars => IInv'
<1> SUFFICES ASSUME IInv, [Next]_vars PROVE IInv'
  OBVIOUS
<1>1. CASE UNCHANGED vars
  BY <1>1 DEF vars, IInv, TypeOK, Consistent
<1> QED
  BY <1>1, AnswersIInv, FinishPassIInv, UserCallIInv, DeviceIInv, ClockIInv DEF Next

LEMMA IInvAlways == Spec => []IInv
BY InitIInv, NextIInv, PTL DEF Spec

(***************************************************************************)
(* The types hold for every number of channels and chunks: the number of   *)
(* the chunk of band centres stays within the table (rta_centre_chunk_),   *)
(* the poll cursor stays a channel (rta_next_poll_channel_()), and what is *)
(* written to the device is a configuration.                               *)
(***************************************************************************)
THEOREM TypeCorrect == Spec => []TypeOK
<1>1. IInv => TypeOK
  BY DEF IInv
<1> QED
  BY <1>1, IInvAlways, PTL

-----------------------------------------------------------------------------

(***************************************************************************)
(* The verdict that a device has no analyser: which steps come to it.      *)
(***************************************************************************)
IsVerdict == rta'.phase = "UNSUPPORTED" /\ rta.phase # "UNSUPPORTED"

(***************************************************************************)
(* A link failure never is the verdict, and leaves the polled channels as  *)
(* they are.                                                               *)
(***************************************************************************)
LEMMA LinkFailureIsNoVerdict ==
    ASSUME NEW r, Consistent(r), NEW t
    PROVE  LET f == FailCallback(r, t, "LINK_FAILED") IN
           /\ f.phase = "UNSUPPORTED" => r.phase = "UNSUPPORTED"
           /\ f.phase = "STREAMING" => r.phase = "STREAMING" /\ f.poll_mask = r.poll_mask
<1> DEFINE f == FailCallback(r, t, "LINK_FAILED")
           Kept(x) == /\ x.phase = "UNSUPPORTED" => r.phase = "UNSUPPORTED"
                      /\ x.phase = "STREAMING" => r.phase = "STREAMING" /\ x.poll_mask = r.poll_mask
<1>1. Kept(SetupFailed(r, "LINK_FAILED"))
  BY DEF SetupFailed, Consistent, Rtas
<1>2. Kept(BandsFailed(r, t.wvalue, "LINK_FAILED"))
  BY DEF BandsFailed, Consistent, Rtas
<1>3. Kept(OptionalFailed(r))
  BY DEF OptionalFailed, Advance, Consistent, Rtas
<1>4. f \in {SetupFailed(r, "LINK_FAILED"), BandsFailed(r, t.wvalue, "LINK_FAILED"),
             OptionalFailed(r), r}
  BY DEF FailCallback
<1>5. Kept(r)
  OBVIOUS
<1> HIDE DEF f, Kept
<1>6. Kept(f)
  BY <1>1, <1>2, <1>3, <1>4, <1>5
<1> QED
  BY <1>6 DEF Kept, f

LEMMA DropIsNoVerdict ==
    ASSUME RtaAssumption, NEW r, Consistent(r)
    PROVE  /\ AfterDrop(r).phase = "UNSUPPORTED" => r.phase = "UNSUPPORTED"
           /\ AfterDrop(r).phase = "STREAMING" =>
                r.phase = "STREAMING" /\ AfterDrop(r).poll_mask = r.poll_mask
<1>1. Consistent(Reset(r))
  BY ResetConsistent DEF Consistent
<1>2. Reset(r).phase \notin {"UNSUPPORTED", "STREAMING"}
  BY DEF Reset, FirstPhase, Consistent, Rtas
<1> QED
  BY <1>1, <1>2, LinkFailureIsNoVerdict DEF AfterDrop

(***************************************************************************)
(* An answer is the verdict only if the device is without the analyser: it *)
(* refuses, or it is of another version.                                   *)
(***************************************************************************)
LEMMA AnswersVerdict ==
    ASSUME DevChannels = Channels, DevOrders = Orders, IInv, Answers, IsVerdict
    PROVE  dev.kind # "V3"
<1>1. Consistent(rta)
  BY DEF IInv
<1>2. CASE PlatformRead
  BY <1>1, <1>2, RtaAssumption, PlatformKeeps DEF IsVerdict
<1>3. CASE Refused
  <2>1. hub.current # NoTxn /\ hub.current \in RtaTxns
    BY <1>3 DEF Refused, Answered, IInv, Sound, HubsOf
  <2>2. hub.current.req = "RTA_SET_CONFIG" => ~Refuses(hub.current.payload)
    <3>1. ASSUME NEW cfg \in Configs, cfg.channel_mask # {}
          PROVE  ~Refuses(cfg)
      <4>1. Clamped(cfg) = [cfg EXCEPT !.channel_mask = cfg.channel_mask \cap DevChannels]
        BY DEF Clamped, Configs
      <4>2. cfg.channel_mask \cap DevChannels = cfg.channel_mask /\ cfg.fft_order \in DevOrders
        BY DEF Configs
      <4>3. Clamped(cfg).channel_mask # {}
        BY <3>1, <4>1, <4>2 DEF Configs
      <4> QED
        BY <4>2, <4>3 DEF Refuses
    <3> QED
      BY <2>1, <3>1 DEF RtaTxns
  <2>3. SetsUp(hub.current)
    <3> SUFFICES ASSUME ~SetsUp(hub.current) PROVE FALSE
      OBVIOUS
    <3>1. FailCallback(rta, hub.current, "ERROR").phase = "UNSUPPORTED" => rta.phase = "UNSUPPORTED"
      <4>1. BandsFailed(rta, hub.current.wvalue, "ERROR").phase = rta.phase
        BY <1>1 DEF BandsFailed, Consistent, Rtas
      <4>2. OptionalFailed(rta).phase = "UNSUPPORTED" => rta.phase = "UNSUPPORTED"
        BY <1>1 DEF OptionalFailed, Advance, Consistent, Rtas
      <4>3. FailCallback(rta, hub.current, "ERROR") \in
              {BandsFailed(rta, hub.current.wvalue, "ERROR"), OptionalFailed(rta), rta}
        BY DEF FailCallback
      <4> QED
        BY <4>1, <4>2, <4>3
    <3> QED
      BY <1>3, <3>1 DEF Refused, IsVerdict
  <2>4. hub.current.req # "RTA_GET_BANDS"
    BY <2>3 DEF SetsUp
  <2> QED
    BY <1>3, <2>2, <2>3, <2>4 DEF Refused
<1>4. CASE TryLater
  BY <1>1, <1>4, RtaAssumption, DropIsNoVerdict DEF TryLater, IsVerdict
<1>5. CASE CapsRead
  <2>1. Advance(rta, "NEED_CAPS", "later").phase = "NEED_CAPS"
    BY <1>1 DEF Advance, Consistent, Rtas
  <2> DEFINE read == [rta EXCEPT !.caps_valid = TRUE, !.centres_have = 0,
                                 !.centre_chunk = 1, !.desired = InRange(@)]
  <2>2. Advance(read, "NEED_CENTRES", "now").phase = "NEED_CENTRES"
    BY <1>1 DEF Advance, Consistent, Rtas
  <2> QED
    BY <1>5, <2>1, <2>2 DEF CapsRead, IsVerdict
<1>6. CASE CentresRead
  BY <1>1, <1>6 DEF CentresRead, Advance, Consistent, Rtas, IsVerdict
<1>7. CASE ConfigRead \/ ConfigSet
  <2>1. ConfigMissing(rta).phase # "UNSUPPORTED"
    BY <1>1 DEF ConfigMissing, Advance, Consistent, Rtas
  <2>2. ConfigTaken(rta, dev.cfg).phase # "UNSUPPORTED"
    BY <1>1 DEF ConfigTaken, Streaming, Advance, Consistent, Rtas
  <2> QED
    BY <1>7, <2>1, <2>2 DEF ConfigRead, ConfigSet, IsVerdict
<1>8. CASE BandsRead \/ StatusRead \/ ControlDone \/ OtherDone
  <2>1. CASE BandsRead
    <3> DEFINE r == [rta EXCEPT !.busy = FALSE, !.next_due = "later"]
    <3>1. rta' = r \/ rta' = [r EXCEPT !.live = FALSE] \/ rta' = [r EXCEPT !.live = TRUE]
      BY <2>1 DEF BandsRead
    <3>2. r \in Rtas /\ r.phase = rta.phase
      BY <1>1 DEF Consistent, Rtas
    <3> HIDE DEF r
    <3>3. rta'.phase = rta.phase
      BY <3>1, <3>2 DEF Rtas
    <3> QED
      BY <3>3 DEF IsVerdict
  <2>2. CASE StatusRead
    BY <1>1, <2>2 DEF StatusRead, Consistent, Rtas, IsVerdict
  <2>3. CASE ControlDone
    BY <1>1, <2>3 DEF ControlDone, Consistent, Rtas, IsVerdict
  <2>4. CASE OtherDone
    BY <2>4 DEF OtherDone, IsVerdict
  <2> QED
    BY <1>8, <2>1, <2>2, <2>3, <2>4
<1> QED
  BY <1>2, <1>3, <1>4, <1>5, <1>6, <1>7, <1>8 DEF Answers

(***************************************************************************)
(* "Never heard back, rather than refused": through timeouts, drops, the   *)
(* link going down and reprobes, only a refusal of every channel makes the *)
(* hub give up a device that has the analyser (on_rta_setup_failed_()).    *)
(* The device has every channel and order a configuration may name; one    *)
(* that lacks them may refuse the write of a configuration.                *)
(***************************************************************************)
THEOREM VerdictNeedsRefusalHolds ==
    ASSUME DevChannels = Channels, DevOrders = Orders
    PROVE  Spec => VerdictNeedsRefusal
<1> DEFINE Grounds == \/ dev.kind # "V3"
                      \/ rta.phase = "STREAMING" /\ rta.poll_mask = {}
<1>1. ASSUME IInv, [Next]_vars, IsVerdict
      PROVE  Grounds
  <2>1. Consistent(rta)
    BY <1>1 DEF IInv
  <2>2. CASE UNCHANGED vars
    BY <1>1, <2>2 DEF vars, IsVerdict
  <2>3. CASE FinishPass
    <3> DEFINE r == IF DropsOnTimeout THEN AfterDrop(rta) ELSE rta
    <3>1. PICK probed : rta' = Serviced(probed, r)
      BY <2>3 DEF FinishPass
    <3>2. /\ r.phase = "UNSUPPORTED" => rta.phase = "UNSUPPORTED"
          /\ r.phase = "STREAMING" => rta.phase = "STREAMING" /\ r.poll_mask = rta.poll_mask
      BY <2>1, RtaAssumption, DropIsNoVerdict
    <3>3. Consistent(r)
      BY <2>1, RtaAssumption, AfterDropConsistent
    <3> HIDE DEF r
    <3>4. r.phase # "UNSUPPORTED"
      BY <1>1, <3>2 DEF IsVerdict
    <3>5. Serviced(probed, r).phase = "UNSUPPORTED" => NoChannelLeft(r)
      <4>1. CASE ~Services(probed, r)
        BY <3>4, <4>1 DEF Serviced
      <4>2. CASE Services(probed, r) /\ ~NoChannelLeft(r)
        <5> DEFINE m == Moved(r)
        <5>1. m.phase = r.phase
          BY <3>3 DEF Moved, Consistent, Rtas
        <5>2. Consistent(m)
          BY <3>3, <4>2, RtaAssumption, MovedConsistent
        <5>3. \/ Serviced(probed, r) = [m EXCEPT !.busy = TRUE]
              \/ Serviced(probed, r) = [m EXCEPT !.next_due = "later"]
          BY <4>2 DEF Serviced
        <5> HIDE DEF m
        <5>4. Serviced(probed, r).phase = m.phase
          BY <5>2, <5>3 DEF Consistent, Rtas
        <5> QED
          BY <3>4, <5>1, <5>4
      <4> QED
        BY <4>1, <4>2
    <3> QED
      BY <1>1, <3>1, <3>2, <3>5 DEF IsVerdict, NoChannelLeft
  <2>4. CASE UserCall
    <3>1. Enabled(rta).phase = "UNSUPPORTED" => rta.phase = "UNSUPPORTED"
      BY <2>1 DEF Enabled, Advance, FirstPhase, Consistent, Rtas
    <3>2. Disabled(hub, rta).phase # "UNSUPPORTED"
      BY <2>1 DEF Disabled, Consistent, Rtas
    <3>3. \A cfg : Reconfigured(rta, cfg).phase = "UNSUPPORTED" => rta.phase = "UNSUPPORTED"
      BY <2>1 DEF Reconfigured, Advance, Consistent, Rtas
    <3> QED
      BY <1>1, <2>4, <3>1, <3>2, <3>3
      DEF UserCall, SetRtaEnabled, Reconfigure, RtaResetAvg, OtherCall, IsVerdict
  <2>5. CASE Device
    BY <1>1, <2>5 DEF Device, Lose, EngineIdles, OthersConfigure, DeviceStep, IsVerdict
  <2>6. CASE Clock
    <3>1. rta'.phase = rta.phase
      BY <2>1, <2>6 DEF Clock, Tick, RtaTick, Consistent, Rtas
    <3> QED
      BY <1>1, <3>1 DEF IsVerdict
  <2>7. CASE Answers
    BY <1>1, <2>7, AnswersVerdict
  <2> QED
    BY <1>1, <2>2, <2>3, <2>4, <2>5, <2>6, <2>7 DEF Next
<1>2. IInv /\ [Next]_vars => [IsVerdict => Grounds]_vars
  BY <1>1
<1> QED
  BY <1>2, IInvAlways, PTL DEF Spec, VerdictNeedsRefusal, IsVerdict

-----------------------------------------------------------------------------

(***************************************************************************)
(* Whether a transaction belongs to the state machine shows in its         *)
(* identity, which a retry and a coalescing enqueue_() keep.               *)
(***************************************************************************)
OwnedId(id) ==
    \/ id[1] \in {"RTA_GET_CONFIG", "RTA_SET_CONFIG", "RTA_GET_CAPS", "RTA_GET_STATUS",
                  "RTA_GET_BANDS"}
    \/ id[1] = "RTA_CONTROL" /\ id[3] = Stop

LEMMA OwnedByIdentity ==
    ASSUME NEW t
    PROVE  IsOwned(t) <=> OwnedId(Identity(t))
<1> DEFINE id == Identity(t)
<1>1. id[1] = t.req /\ id[3] = t.wvalue
  BY DEF Identity
<1> HIDE DEF id
<1>2. IsOwned(t) <=> \/ t.req \in {"RTA_GET_CONFIG", "RTA_SET_CONFIG", "RTA_GET_CAPS",
                                   "RTA_GET_STATUS", "RTA_GET_BANDS"}
                     \/ t.req = "RTA_CONTROL" /\ t.wvalue = Stop
  BY DEF IsOwned, SetsUp, IsOptional
<1> QED
  BY <1>1, <1>2 DEF OwnedId, id

HoldsOwned(h) == \E id \in Held(h) : OwnedId(id)

LEMMA OutstandingHeld ==
    ASSUME NEW h
    PROVE  Outstanding(h) # {} <=> HoldsOwned(h)
<1>1. ASSUME NEW t \in Outstanding(h) PROVE HoldsOwned(h)
  <2>1. OwnedId(Identity(t))
    BY OwnedByIdentity DEF Outstanding
  <2>2. Identity(t) \in Held(h)
    BY DEF Outstanding, Held, WaitingIds
  <2> QED
    BY <2>1, <2>2 DEF HoldsOwned
<1>2. ASSUME HoldsOwned(h) PROVE Outstanding(h) # {}
  <2>1. PICK id \in Held(h) : OwnedId(id)
    BY <1>2 DEF HoldsOwned
  <2>2. PICK t \in Waiting(h.queue) \cup ({h.current} \ {NoTxn}) : Identity(t) = id
    BY DEF Held, WaitingIds
  <2>3. IsOwned(t)
    BY <2>1, <2>2, OwnedByIdentity
  <2> QED
    BY <2>3 DEF Outstanding
<1> QED
  BY <1>1, <1>2

(***************************************************************************)
(* Putting a transaction into a queue with room, and sending the next,     *)
(* loses nothing.                                                          *)
(***************************************************************************)
LEMMA QueuedKeepsOwned ==
    ASSUME NEW h, Sound(RtaTxns, h), NEW t \in RtaTxns, Free(h.queue) # {}, HoldsOwned(h)
    PROVE  HoldsOwned(Queued(h, t))
<1>1. /\ ClosedKind(RtaTxns) /\ h.queue \in [Slots -> RtaTxns \cup {NoTxn}]
      /\ Queued(h, t).queue = Enqueue(h.queue, t) /\ Queued(h, t).current = h.current
  BY RtaKind DEF RetriedKind, Queued, Sound, HubsOf
<1>2. WaitingIds(h.queue) \subseteq WaitingIds(Enqueue(h.queue, t))
  BY <1>1, QueueAssumption, EnqueueWithRoom
<1> QED
  BY <1>1, <1>2 DEF HoldsOwned, Held

LEMMA SentNextKeepsOwned ==
    ASSUME NEW h, Sound(RtaTxns, h), HoldsOwned(h)
    PROVE  HoldsOwned(SentNext(h))
<1>1. CASE ~CanSend(h)
  BY <1>1 DEF SentNext
<1>2. CASE CanSend(h)
  <2>1. h.current = NoTxn
    BY <1>2 DEF CanSend, Sound, OneInFlight
  <2>2. WaitingIds(h.queue) \subseteq Held(SentNext(h))
    BY QueueAssumption, RtaKind, SentNextHolds DEF RetriedKind
  <2> QED
    BY <2>1, <2>2 DEF HoldsOwned, Held
<1> QED
  BY <1>1, <1>2

(***************************************************************************)
(* Every on_fail of the state machine ends its waiting, and the other      *)
(* transactions have none.                                                 *)
(***************************************************************************)
LEMMA FailureEndsWaiting ==
    ASSUME NEW r, Consistent(r), NEW t, NEW status
    PROVE  /\ IsOwned(t) => ~FailCallback(r, t, status).busy
           /\ ~IsOwned(t) => FailCallback(r, t, status) = r
           /\ ~r.busy => ~FailCallback(r, t, status).busy
<1> DEFINE f == FailCallback(r, t, status)
<1>1. ~SetupFailed(r, status).busy
  BY DEF SetupFailed, Consistent, Rtas
<1>2. ~BandsFailed(r, t.wvalue, status).busy
  BY DEF BandsFailed, Consistent, Rtas
<1>3. ~OptionalFailed(r).busy
  BY DEF OptionalFailed, Advance, Consistent, Rtas
<1>4. \/ f \in {SetupFailed(r, status), BandsFailed(r, t.wvalue, status), OptionalFailed(r)}
      \/ ~IsOwned(t) /\ f = r
  BY DEF FailCallback, IsOwned
<1>5. ~IsOwned(t) => f = r
  BY DEF FailCallback, IsOwned, SetsUp, IsOptional
<1> HIDE DEF f
<1> QED
  BY <1>1, <1>2, <1>3, <1>4, <1>5 DEF f

(***************************************************************************)
(* retry_or_drop_() in a queue with room: what the state machine still     *)
(* waits for afterwards is still held.                                     *)
(***************************************************************************)
LEMMA RetriedKeepsOwned ==
    ASSUME Sound(RtaTxns, hub), Consistent(rta), hub.current # NoTxn, Free(hub.queue) # {},
           rta.busy => HoldsOwned(hub), AfterDrop(rta).busy
    PROVE  HoldsOwned(RetriedOrDropped(hub))
<1> DEFINE q == hub.queue
           after == RetriedOrDropped(hub)
<1>1. /\ RetriedKind(RtaTxns) /\ ClosedKind(RtaTxns)
      /\ q \in [Slots -> RtaTxns \cup {NoTxn}] /\ hub.current \in RtaTxns
  BY RtaKind DEF RetriedKind, Sound, HubsOf
<1>2. CASE Exhausted(hub)
  <2>1. Consistent(Reset(rta)) /\ ~Reset(rta).busy
    <3>1. Consistent(Reset(rta))
      BY RtaAssumption, ResetConsistent DEF Consistent
    <3>2. ~Reset(rta).busy
      BY DEF Consistent, Reset, Rtas
    <3> QED
      BY <3>1, <3>2
  <2>2. Failed(hub).hub_state # "OFFLINE"
    <3> SUFFICES ASSUME Failed(hub).hub_state = "OFFLINE" PROVE FALSE
      OBVIOUS
    <3>1. AfterDrop(rta) = FailCallback(Reset(rta), hub.current, "LINK_FAILED")
      BY <1>2 DEF AfterDrop
    <3> QED
      BY <2>1, <3>1, FailureEndsWaiting
  <2>3. AfterDrop(rta) = FailCallback(rta, hub.current, "LINK_FAILED")
    BY <1>2, <2>2 DEF AfterDrop
  <2>4. ~IsOwned(hub.current) /\ rta.busy
    BY <2>3, FailureEndsWaiting
  <2>5. \E id \in WaitingIds(q) : OwnedId(id)
    BY <2>4, OwnedByIdentity DEF HoldsOwned, Held
  <2>6. after.queue = q
    <3>1. FailureCounted(hub).queue = q
      BY DEF FailureCounted, Rejected, Sound, HubsOf
    <3>2. after = FailureCounted(hub)
      <4>1. GoneOffline(FailureCounted(hub)).hub_state = "OFFLINE"
        BY DEF GoneOffline, FailureCounted, Rejected, Sound, HubsOf
      <4> QED
        BY <1>2, <2>2, <4>1 DEF RetriedOrDropped, Failed
    <3> QED
      BY <3>1, <3>2
  <2> QED
    BY <2>5, <2>6 DEF HoldsOwned, Held
<1>3. CASE ~Exhausted(hub)
  <2>1. hub.current.attempts < hub.current.max_retries
    BY <1>1, <1>3 DEF Exhausted, Again, RtaTxns, Txn
  <2>2. Again(hub) \in RtaTxns
    BY <1>1, <2>1 DEF Again, RetriedKind
  <2>3. Identity(Again(hub)) = Identity(hub.current)
    BY <1>1 DEF Again, Identity, RtaTxns, Txn
  <2>4. after.queue = Enqueue(q, Again(hub))
    BY <1>3 DEF RetriedOrDropped, Requeued, Sound, HubsOf
  <2> HIDE DEF after
  <2>5. WaitingIds(q) \cup {Identity(Again(hub))} \subseteq WaitingIds(after.queue)
    BY <1>1, <2>2, <2>4, QueueAssumption, EnqueueWithRoom
  <2>6. HoldsOwned(hub)
    BY <1>3 DEF AfterDrop
  <2> QED
    BY <2>3, <2>5, <2>6 DEF HoldsOwned, Held, after
<1> QED
  BY <1>2, <1>3

-----------------------------------------------------------------------------

(***************************************************************************)
(* A slot of the queue is free between the steps: nothing the analyser     *)
(* waits for is evicted, and its retries are taken.                        *)
(***************************************************************************)
FreeLeft == Free(hub.queue) # {}

Waits == rta.busy => HoldsOwned(hub)

LEMMA BusyMeansWorkIs == BusyMeansWork <=> Waits
BY OutstandingHeld DEF BusyMeansWork, Waits

(***************************************************************************)
(* The rest of a pass: what service_rta_() starts to wait for is queued,   *)
(* and while it waits it queues nothing.                                   *)
(***************************************************************************)
LEMMA PassWaits ==
    ASSUME IInv, FinishPass, FreeLeft, Waits
    PROVE  Waits'
<1> SUFFICES ASSUME rta'.busy PROVE HoldsOwned(hub')
  BY DEF Waits, HoldsOwned, Held
<1>1. RetriedKind(RtaTxns) /\ ClosedKind(RtaTxns) /\ ProbeTxn \in RtaTxns
  BY RtaAssumption, RtaKind, RtaTxnTypes DEF RetriedKind
<1> DEFINE timed == AfterTimers(hub, due)
           r == IF DropsOnTimeout THEN AfterDrop(rta) ELSE rta
<1>2. PICK clock \in ProbeClock(timed) :
        LET probed == AfterReprobe(timed, clock)
        IN  /\ hub' = SentNext(Offered(probed, r))
            /\ rta' = Serviced(probed, r)
  BY DEF FinishPass
<1> DEFINE probed == AfterReprobe(timed, clock)
           produced == Offered(probed, r)
<1>3. Consistent(r) /\ Consistent(rta) /\ Sound(RtaTxns, hub)
  BY RtaAssumption, AfterDropConsistent DEF IInv
<1>4. Sound(RtaTxns, timed)
  BY <1>1, <1>3, QueueAssumption, TransportAssumption, AfterTimersSound
<1>5. Sound(RtaTxns, probed)
  BY <1>1, <1>4, QueueAssumption, AfterReprobeSound
<1>6. r.busy => HoldsOwned(timed)
  <2> SUFFICES ASSUME r.busy PROVE HoldsOwned(timed)
    OBVIOUS
  <2>1. CASE DropsOnTimeout
    <3>1. timed = RetriedOrDropped(hub) /\ r = AfterDrop(rta)
      BY <2>1 DEF DropsOnTimeout, AfterTimers
    <3>2. hub.current # NoTxn
      BY <1>3, <2>1 DEF DropsOnTimeout, Sound, OneInFlight
    <3> QED
      BY <1>3, <3>1, <3>2, RetriedKeepsOwned DEF FreeLeft, Waits
  <2>2. CASE ~DropsOnTimeout
    <3>1. timed = hub \/ timed = [hub EXCEPT !.hub_state = "IDLE"]
      BY <2>2 DEF DropsOnTimeout, AfterTimers
    <3>2. timed.queue = hub.queue /\ timed.current = hub.current
      BY <1>3, <3>1 DEF Sound, HubsOf
    <3> QED
      BY <2>2, <3>2 DEF Waits, HoldsOwned, Held
  <2> QED
    BY <2>1, <2>2
<1>7. r.busy => HoldsOwned(probed)
  <2> SUFFICES ASSUME r.busy, ProbeDue(timed, clock) PROVE HoldsOwned(probed)
    BY <1>6 DEF AfterReprobe
  <2>1. Free(timed.queue) # {}
    <3>1. timed.hub_state # "BACKOFF"
      BY DEF ProbeDue
    <3>2. timed.queue = hub.queue \/ timed.queue = EmptyQueue
      <4>1. CASE DropsOnTimeout
        <5>1. timed = RetriedOrDropped(hub)
          BY <4>1 DEF DropsOnTimeout, AfterTimers
        <5> QED
          BY <1>3, <3>1, <5>1 DEF RetriedOrDropped, Requeued, Failed, FailureCounted, GoneOffline,
                                  Rejected, Sound, HubsOf
      <4>2. CASE ~DropsOnTimeout
        BY <1>3, <4>2 DEF DropsOnTimeout, AfterTimers, Sound, HubsOf
      <4> QED
        BY <4>1, <4>2
    <3>3. Free(EmptyQueue) # {}
      <4>1. 1 \in Slots
        BY QueueAssumption DEF Slots, QueueAssumption
      <4> QED
        BY <4>1 DEF Free, Occupied, EmptyQueue
    <3> QED
      BY <3>2, <3>3 DEF FreeLeft
  <2>2. probed = [Queued(timed, ProbeTxn) EXCEPT !.hub_state = "IDLE"]
    BY DEF AfterReprobe, Probed
  <2>3. HoldsOwned(Queued(timed, ProbeTxn))
    BY <1>1, <1>4, <1>6, <2>1, QueuedKeepsOwned
  <2>4. /\ probed.queue = Queued(timed, ProbeTxn).queue
        /\ probed.current = Queued(timed, ProbeTxn).current
    BY <1>4, <2>2 DEF Queued, Sound, HubsOf
  <2> QED
    BY <2>3, <2>4 DEF HoldsOwned, Held
<1> HIDE DEF timed, r, probed, produced
<1>8. Sound(RtaTxns, produced) /\ HoldsOwned(produced)
  <2>1. CASE ~Services(probed, r)
    <3>1. produced = probed /\ r.busy
      BY <1>2, <2>1 DEF Offered, Serviced, produced, probed
    <3> QED
      BY <1>5, <1>7, <3>1
  <2>2. CASE Services(probed, r) /\ NoChannelLeft(r)
    <3>1. rta'.busy = r.busy
      BY <1>2, <1>3, <2>2 DEF Serviced, Consistent, Rtas, probed
    <3> QED
      BY <2>2, <3>1 DEF Services
  <2>3. CASE Services(probed, r) /\ ~NoChannelLeft(r)
    <3> DEFINE t == Request(r)
    <3>1. t \in RtaTxns
      BY <1>3, <2>3, RtaAssumption, RequestType
    <3>2. IsOwned(t)
      <4>1. IsOwned(StopTxn) /\ \A ch : IsOwned(BandsTxn(ch))
        BY DEF IsOwned, IsOptional, StopTxn, BandsTxn, Txn0
      <4>2. /\ IsOwned(RtaGet("RTA_GET_CAPS", 0)) /\ IsOwned(RtaGet("RTA_GET_CAPS", r.centre_chunk))
            /\ IsOwned(RtaGet("RTA_GET_CONFIG", 0)) /\ IsOwned(RtaGet("RTA_GET_STATUS", 0))
            /\ IsOwned(SetConfigTxn(r.desired))
        BY DEF IsOwned, SetsUp, IsOptional, RtaGet, SetConfigTxn, Txn0
      <4>3. t \in {RtaGet("RTA_GET_CAPS", 0), RtaGet("RTA_GET_CAPS", r.centre_chunk),
                   RtaGet("RTA_GET_CONFIG", 0), RtaGet("RTA_GET_STATUS", 0),
                   SetConfigTxn(r.desired), StopTxn, BandsTxn(NextChannel(r))}
        BY <1>3, <2>3, RequestIs
      <4> HIDE DEF t
      <4> QED
        BY <4>1, <4>2, <4>3
    <3> HIDE DEF t
    <3>3. Accepted(probed.queue, t)
      <4> SUFFICES ASSUME ~Accepted(probed.queue, t) PROVE FALSE
        OBVIOUS
      <4>1. rta' = [Moved(r) EXCEPT !.next_due = "later"]
        BY <1>2, <2>3 DEF Serviced, probed, t
      <4>2. Consistent(Moved(r)) /\ Moved(r).busy = r.busy
        BY <1>3, <2>3, RtaAssumption, MovedConsistent DEF Moved, Consistent, Rtas
      <4> QED
        BY <2>3, <4>1, <4>2 DEF Services, Consistent, Rtas
    <3>4. produced = Queued(probed, t)
      BY <2>3 DEF Offered, produced, t
    <3>5. Sound(RtaTxns, produced)
      BY <1>1, <1>5, <3>1, <3>4, QueueAssumption, QueuedSound
    <3>6. /\ probed.queue \in [Slots -> RtaTxns \cup {NoTxn}]
          /\ produced.queue = Enqueue(probed.queue, t)
      BY <1>5, <3>4 DEF Queued, Sound, HubsOf
    <3>7. Identity(t) \in WaitingIds(produced.queue)
      BY <1>1, <3>1, <3>3, <3>6, QueueAssumption, AcceptedWaits
    <3> QED
      BY <3>2, <3>5, <3>7, OwnedByIdentity DEF HoldsOwned, Held
  <2> QED
    BY <2>1, <2>2, <2>3
<1>9. hub' = SentNext(produced)
  BY <1>2 DEF produced, probed
<1> QED
  BY <1>8, <1>9, SentNextKeepsOwned

(***************************************************************************)
(* An answer to a transaction of the state machine ends its waiting,       *)
(* whichever it waited for; another one leaves both as they are.           *)
(***************************************************************************)
LEMMA AnswersWait ==
    ASSUME IInv, Answers, FreeLeft, Waits
    PROVE  Waits'
<1> SUFFICES ASSUME rta'.busy PROVE HoldsOwned(hub')
  BY DEF Waits, HoldsOwned, Held
<1>1. Consistent(rta) /\ rta \in Rtas /\ Sound(RtaTxns, hub)
  BY DEF IInv, Consistent
<1>2. hub.current # NoTxn
  <2>1. asked
    BY DEF Answers, PlatformRead, CapsRead, CentresRead, ConfigRead, ConfigSet,
           BandsRead, StatusRead, ControlDone, OtherDone, Refused, TryLater, AnsweredOK, Answered
  <2> QED
    BY <2>1 DEF IInv
<1>3. Succeeded(hub).queue = hub.queue /\ Rejected(hub).queue = hub.queue
  BY <1>1 DEF Succeeded, Rejected, Sound, HubsOf
<1>4. ASSUME ~IsOwned(hub.current), rta.busy, hub'.queue = hub.queue
      PROVE  HoldsOwned(hub')
  BY <1>4, OwnedByIdentity DEF Waits, HoldsOwned, Held
<1>6. ~PlatformRead
  <2> DEFINE known == [rta EXCEPT !.caps_valid = FALSE, !.centres_have = 0]
             r == Reset(known)
  <2> SUFFICES ASSUME PlatformRead PROVE FALSE
    OBVIOUS
  <2>1. rta' = r \/ rta' = Enabled(r)
    BY DEF PlatformRead
  <2>2. ~r.busy
    BY <1>1 DEF Reset, Rtas
  <2>3. ~Enabled(r).busy
    BY <1>1 DEF Enabled, Advance, Reset, Rtas
  <2> QED
    BY <2>1, <2>2, <2>3
<1>7. ~CapsRead
  BY <1>1 DEF CapsRead, Advance, Rtas
<1>8. ~CentresRead
  BY <1>1 DEF CentresRead, Advance, Rtas
<1>9. ~ConfigRead /\ ~ConfigSet
  <2>1. ~ConfigMissing(rta).busy /\ ~ConfigTaken(rta, dev.cfg).busy
    BY <1>1 DEF ConfigMissing, ConfigTaken, Streaming, Advance, Rtas
  <2> QED
    BY <2>1 DEF ConfigRead, ConfigSet
<1>10. ~BandsRead
  <2> DEFINE r == [rta EXCEPT !.busy = FALSE, !.next_due = "later"]
  <2>1. BandsRead => rta' = r \/ rta' = [r EXCEPT !.live = FALSE] \/ rta' = [r EXCEPT !.live = TRUE]
    BY DEF BandsRead
  <2>2. r \in Rtas /\ ~r.busy
    BY <1>1 DEF Rtas
  <2> HIDE DEF r
  <2> QED
    BY <2>1, <2>2 DEF Rtas
<1>11. ~StatusRead
  BY <1>1 DEF StatusRead, Rtas
<1>12. CASE ControlDone
  <2>1. hub.current.req = "RTA_CONTROL" /\ hub' = Succeeded(hub)
    BY <1>12 DEF ControlDone, AnsweredOK
  <2>2. hub.current.wvalue # Stop /\ rta' = rta
    BY <1>1, <1>12 DEF ControlDone, Rtas
  <2>3. ~IsOwned(hub.current)
    BY <2>1, <2>2 DEF IsOwned, SetsUp, IsOptional
  <2> QED
    BY <1>3, <1>4, <2>1, <2>2, <2>3
<1>13. CASE OtherDone
  <2>1. hub.current.req \in Others /\ hub' = Succeeded(hub) /\ rta' = rta
    BY <1>13 DEF OtherDone, AnsweredOK
  <2>2. ~IsOwned(hub.current)
    BY <2>1, RtaAssumption DEF RtaAssumption, RtaReqs, IsOwned, SetsUp, IsOptional
  <2> QED
    BY <1>3, <1>4, <2>1, <2>2
<1>14. CASE Refused
  <2>1. hub' = Rejected(hub) /\ rta' = FailCallback(rta, hub.current, "ERROR")
    BY <1>14 DEF Refused
  <2> QED
    BY <1>1, <1>3, <1>4, <2>1, FailureEndsWaiting
<1>15. CASE TryLater
  <2>1. hub' = RetriedOrDropped(hub) /\ rta' = AfterDrop(rta)
    BY <1>15 DEF TryLater
  <2> QED
    BY <1>1, <1>2, <2>1, RetriedKeepsOwned DEF FreeLeft, Waits
<1> QED
  BY <1>6, <1>7, <1>8, <1>9, <1>10, <1>11, <1>12, <1>13, <1>14, <1>15 DEF Answers

LEMMA UserCallWaits ==
    ASSUME IInv, UserCall, FreeLeft, Waits
    PROVE  Waits'
<1> SUFFICES ASSUME rta'.busy PROVE HoldsOwned(hub')
  BY DEF Waits, HoldsOwned, Held
<1>1. rta \in Rtas /\ Sound(RtaTxns, hub)
  BY DEF IInv, Consistent
<1>2. ASSUME NEW on \in BOOLEAN, SetRtaEnabled(on)
      PROVE  HoldsOwned(hub')
  <2>1. Enabled(rta).busy => rta.busy
    BY <1>1 DEF Enabled, Advance, Rtas
  <2>2. Disabled(hub, rta).busy => rta.busy
    BY <1>1 DEF Disabled, Rtas
  <2> QED
    BY <1>2, <2>1, <2>2 DEF SetRtaEnabled, Waits
<1>3. ASSUME NEW cfg \in Configs, Reconfigure(cfg)
      PROVE  HoldsOwned(hub')
  <2>1. Reconfigured(rta, cfg).busy => rta.busy
    BY <1>1 DEF Reconfigured, Advance, Rtas
  <2> QED
    BY <1>3, <2>1 DEF Reconfigure, Waits
<1>4. CASE RtaResetAvg
  <2>1. RtaGet("RTA_CONTROL", ResetAvg) \in RtaTxns
    BY RtaAssumption, RtaTxnTypes DEF RtaAssumption, RtaReqs
  <2> QED
    BY <1>1, <1>4, <2>1, QueuedKeepsOwned DEF RtaResetAvg, FreeLeft, Waits
<1>5. ASSUME NEW req \in Others, OtherCall(req)
      PROVE  HoldsOwned(hub')
  <2>1. OtherTxn(req) \in RtaTxns
    BY RtaAssumption, RtaTxnTypes
  <2> QED
    BY <1>1, <1>5, <2>1, QueuedKeepsOwned DEF OtherCall, FreeLeft, Waits
<1> QED
  BY <1>2, <1>3, <1>4, <1>5 DEF UserCall

(***************************************************************************)
(* The state machine never waits for an answer that cannot come            *)
(* (rta_busy_), whatever is lost, refused, dropped or reconfigured         *)
(* meanwhile, as long as a slot of the queue is free.  In a full queue a   *)
(* request of the analyser can be evicted or its retry turned away, which  *)
(* nobody tells it.                                                        *)
(***************************************************************************)
THEOREM BusyMeansWorkHolds == Spec /\ []FreeLeft => []BusyMeansWork
<1>1. Init => Waits
  BY DEF Init, RtaAtStart, Waits
<1>2. ASSUME IInv, FreeLeft, Waits, [Next]_vars
      PROVE  Waits'
  <2>1. ASSUME hub' = hub, rta'.busy => rta.busy
        PROVE  Waits'
    BY <1>2, <2>1 DEF Waits, HoldsOwned, Held
  <2>2. CASE UNCHANGED vars
    BY <2>1, <2>2 DEF vars
  <2>3. CASE Device
    BY <2>1, <2>3 DEF Device, Lose, EngineIdles, OthersConfigure, DeviceStep
  <2>4. CASE Clock
    <3>1. rta'.busy = rta.busy /\ hub' = hub
      BY <1>2, <2>4 DEF Clock, Tick, RtaTick, IInv, Consistent, Rtas
    <3> QED
      BY <2>1, <3>1
  <2> QED
    BY <1>2, <2>2, <2>3, <2>4, AnswersWait, PassWaits, UserCallWaits DEF Next
<1>3. IInv /\ FreeLeft /\ Waits /\ [Next]_vars => Waits'
  BY <1>2
<1>4. Waits => BusyMeansWork
  BY BusyMeansWorkIs
<1> QED
  BY <1>1, <1>3, <1>4, IInvAlways, PTL DEF Spec

-----------------------------------------------------------------------------

(***************************************************************************)
(* What goes on by itself: a deadline that will pass, and a phase that the *)
(* state machine serves, as long as the analyser is enabled.               *)
(***************************************************************************)
Awake(r) ==
    /\ r.next_due # "never"
    /\ r.enabled => r.phase \notin {"DISABLED", "STOPPING"}

(***************************************************************************)
(* reset_rta_() starts over from a phase that is served. Its deadline 0    *)
(* has passed in the first half of the range of millis().                  *)
(***************************************************************************)
LEMMA ResetAwake ==
    ASSUME NEW r \in Rtas, uptime = "early"
    PROVE  Awake(Reset(r))
<1>1. FirstPhase(r) \notin {"DISABLED", "STOPPING"}
  BY DEF FirstPhase
<1>2. Reset(r).next_due = "now" /\ Reset(r).enabled = r.enabled
      /\ Reset(r).phase = IF r.enabled THEN FirstPhase(r) ELSE "DISABLED"
  BY DEF Reset, Rtas
<1> QED
  BY <1>1, <1>2 DEF Awake

(***************************************************************************)
(* rta_advance_(), to a phase that is served.                              *)
(***************************************************************************)
LEMMA AdvanceAwake ==
    ASSUME NEW r \in Rtas, NEW phase, phase \notin {"DISABLED", "STOPPING"},
           NEW next_due \in {"now", "later"}
    PROVE  Awake(Advance(r, phase, next_due))
BY DEF Awake, Advance, Rtas

(***************************************************************************)
(* What on_fail does leaves a deadline; the stop that has failed ends in   *)
(* DISABLED, which is where an analyser that was disabled meanwhile        *)
(* belongs.                                                                *)
(***************************************************************************)
LEMMA FailCallbackAwake ==
    ASSUME NEW r \in Rtas, Awake(r), NEW t, NEW status
    PROVE  Awake(FailCallback(r, t, status))
<1>1. Awake(SetupFailed(r, status))
  BY DEF Awake, SetupFailed, Rtas
<1>2. Awake(BandsFailed(r, t.wvalue, status))
  BY DEF Awake, BandsFailed, Rtas
<1>3. Awake(OptionalFailed(r))
  <2>1. Awake(Advance(r, "READ_CONFIG", "now"))
    BY AdvanceAwake
  <2> QED
    BY <2>1 DEF Awake, OptionalFailed, Rtas
<1> HIDE DEF Awake
<1>4. FailCallback(r, t, status) \in
        {SetupFailed(r, status), BandsFailed(r, t.wvalue, status), OptionalFailed(r), r}
  BY DEF FailCallback
<1> QED
  BY <1>1, <1>2, <1>3, <1>4

(***************************************************************************)
(* A drop, with the reset of the link that goes down.                      *)
(***************************************************************************)
LEMMA AfterDropAwake ==
    ASSUME RtaAssumption, NEW r, Consistent(r), Awake(r), uptime = "early"
    PROVE  Awake(AfterDrop(r))
<1>1. r \in Rtas /\ Reset(r) \in Rtas /\ Awake(Reset(r))
  BY ResetConsistent, ResetAwake DEF Consistent
<1> QED
  BY <1>1, FailCallbackAwake DEF AfterDrop

(***************************************************************************)
(* service_rta_() leaves the deadline that has passed, or puts it off.     *)
(***************************************************************************)
LEMMA ServicedAwake ==
    ASSUME RtaAssumption, NEW h, NEW r, Consistent(r), Awake(r)
    PROVE  Awake(Serviced(h, r))
<1>1. CASE ~Services(h, r)
  BY <1>1 DEF Serviced
<1>2. CASE Services(h, r) /\ NoChannelLeft(r)
  BY <1>2 DEF Serviced, Consistent, Rtas, Awake
<1>3. CASE Services(h, r) /\ ~NoChannelLeft(r)
  <2> DEFINE m == Moved(r)
  <2>1. m.phase = r.phase /\ m.enabled = r.enabled /\ m.next_due = r.next_due /\ m \in Rtas
    <3>1. m \in Rtas
      BY <1>3, MovedConsistent DEF Consistent
    <3> QED
      BY <3>1 DEF Moved, Consistent, Rtas
  <2>2. \/ Serviced(h, r) = [m EXCEPT !.busy = TRUE]
        \/ Serviced(h, r) = [m EXCEPT !.next_due = "later"]
    BY <1>3 DEF Serviced
  <2> HIDE DEF m
  <2>3. Awake([m EXCEPT !.busy = TRUE]) /\ Awake([m EXCEPT !.next_due = "later"])
    BY <2>1 DEF Awake, Rtas
  <2> QED
    BY <2>2, <2>3
<1> QED
  BY <1>1, <1>2, <1>3

(***************************************************************************)
(* The public methods: set_rta_enabled(), set_rta_tap() and                *)
(* set_rta_channel_mask().                                                 *)
(***************************************************************************)
LEMMA EnabledAwake ==
    ASSUME NEW r \in Rtas, Awake(r)
    PROVE  Awake(Enabled(r))
<1>1. [r EXCEPT !.enabled = TRUE] \in Rtas /\ FirstPhase(r) \notin {"DISABLED", "STOPPING"}
  BY DEF Rtas, FirstPhase
<1>2. r.phase = "UNSUPPORTED" => Awake([r EXCEPT !.enabled = TRUE])
  BY DEF Rtas, Awake
<1> QED
  BY <1>1, <1>2, AdvanceAwake DEF Enabled

LEMMA DisabledAwake ==
    ASSUME NEW h, NEW r \in Rtas, Awake(r)
    PROVE  Awake(Disabled(h, r))
BY DEF Disabled, Rtas, Awake

LEMMA ReconfiguredAwake ==
    ASSUME NEW r \in Rtas, Awake(r), NEW cfg \in Configs
    PROVE  Awake(Reconfigured(r, cfg))
<1>1. [r EXCEPT !.desired = cfg] \in Rtas /\ Awake([r EXCEPT !.desired = cfg])
  BY DEF Rtas, Awake
<1> QED
  BY <1>1, AdvanceAwake DEF Reconfigured

(***************************************************************************)
(* An answer leaves the analyser a next step, whatever it had gone on to   *)
(* in the meantime.                                                        *)
(***************************************************************************)
LEMMA AnswersAwake ==
    ASSUME IInv, Answers, Awake(rta), uptime = "early"
    PROVE  Awake(rta')
<1>1. Consistent(rta) /\ rta \in Rtas /\ rta.desired.channel_mask # {}
  BY DEF IInv, Consistent
<1>2. CASE PlatformRead
  <2> DEFINE known == [rta EXCEPT !.caps_valid = FALSE, !.centres_have = 0]
             r == Reset(known)
  <2>1. known \in Rtas /\ known.desired = rta.desired
    <3>1. 0 \in 0 .. Chunks
      BY RtaAssumption DEF RtaAssumption
    <3> QED
      BY <1>1, <3>1 DEF Rtas
  <2>2. rta' = r \/ rta' = Enabled(r)
    BY <1>2 DEF PlatformRead
  <2> HIDE DEF known
  <2>3. r \in Rtas /\ Awake(r)
    BY <1>1, <2>1, RtaAssumption, ResetConsistent, ResetAwake DEF Consistent
  <2> HIDE DEF r
  <2> QED
    BY <2>2, <2>3, EnabledAwake
<1>3. CASE CapsRead
  <2> DEFINE read == [rta EXCEPT !.caps_valid = TRUE, !.centres_have = 0,
                                 !.centre_chunk = 1, !.desired = InRange(@)]
  <2>1. \/ rta' = Advance(rta, "NEED_CAPS", "later")
        \/ rta' = [rta EXCEPT !.phase = "UNSUPPORTED", !.busy = FALSE]
        \/ rta' = Advance(read, "NEED_CENTRES", "now")
    BY <1>3 DEF CapsRead
  <2>2. Awake(Advance(rta, "NEED_CAPS", "later"))
    BY <1>1, AdvanceAwake
  <2>3. Awake([rta EXCEPT !.phase = "UNSUPPORTED", !.busy = FALSE])
    BY <1>1 DEF Awake, Rtas
  <2>4. Awake(Advance(read, "NEED_CENTRES", "now"))
    BY <1>1 DEF Awake, Advance, Rtas
  <2> QED
    BY <2>1, <2>2, <2>3, <2>4
<1>4. CASE CentresRead
  <2>1. PICK have :
          rta' \in {Advance(rta, "READ_CONFIG", "now"),
                    Advance([rta EXCEPT !.centres_have = have], "READ_CONFIG", "now"),
                    Advance([rta EXCEPT !.centres_have = have, !.centre_chunk = @ + 1],
                            "NEED_CENTRES", "now")}
    <3> DEFINE have == Min({rta.centres_have + 1, Chunks})
    <3>1. \/ rta' = Advance(rta, "READ_CONFIG", "now")
          \/ rta' = IF have = Chunks
                    THEN Advance([rta EXCEPT !.centres_have = have], "READ_CONFIG", "now")
                    ELSE Advance([rta EXCEPT !.centres_have = have, !.centre_chunk = @ + 1],
                                 "NEED_CENTRES", "now")
      BY <1>4 DEF CentresRead
    <3> HIDE DEF have
    <3> QED
      BY <3>1
  <2>2. Awake(Advance(rta, "READ_CONFIG", "now"))
    BY <1>1, AdvanceAwake
  <2>3. Awake(Advance([rta EXCEPT !.centres_have = have], "READ_CONFIG", "now"))
    BY <1>1 DEF Awake, Advance, Rtas
  <2>4. Awake(Advance([rta EXCEPT !.centres_have = have, !.centre_chunk = @ + 1],
                      "NEED_CENTRES", "now"))
    BY <1>1 DEF Awake, Advance, Rtas
  <2> QED
    BY <2>1, <2>2, <2>3, <2>4
<1>5. CASE ConfigRead \/ ConfigSet
  <2>1. rta' = ConfigTaken(rta, dev.cfg) \/ rta' = ConfigMissing(rta)
    BY <1>5 DEF ConfigRead, ConfigSet
  <2>2. Awake(ConfigMissing(rta))
    BY <1>1, AdvanceAwake DEF ConfigMissing
  <2>3. ConfigTaken(rta, dev.cfg) \in
          {Advance(rta, "VERIFY_CONFIG", "now"), Advance(rta, "SET_CONFIG", "now"),
           Streaming(rta, dev.cfg)}
    BY DEF ConfigTaken
  <2>4. Awake(Streaming(rta, dev.cfg))
    BY <1>1 DEF Awake, Streaming, Advance, Rtas
  <2> QED
    BY <1>1, <2>1, <2>2, <2>3, <2>4, AdvanceAwake
<1>6. CASE BandsRead
  <2> DEFINE r == [rta EXCEPT !.busy = FALSE, !.next_due = "later"]
  <2>1. rta' = r \/ rta' = [r EXCEPT !.live = FALSE] \/ rta' = [r EXCEPT !.live = TRUE]
    BY <1>6 DEF BandsRead
  <2>2. r \in Rtas /\ Awake(r)
    BY <1>1 DEF Awake, Rtas
  <2> HIDE DEF r
  <2> QED
    BY <2>1, <2>2 DEF Awake, Rtas
<1>7. CASE StatusRead
  BY <1>1, <1>7 DEF StatusRead, Awake, Rtas
<1>8. CASE ControlDone
  <2>1. \/ rta' = rta
        \/ rta' = [rta EXCEPT !.busy = FALSE,
                              !.phase = IF @ = "STOPPING" THEN "DISABLED" ELSE @]
    BY <1>8 DEF ControlDone
  <2> QED
    BY <1>1, <2>1 DEF Awake, Rtas
<1>9. CASE OtherDone
  <2>1. rta' = rta
    BY <1>9 DEF OtherDone
  <2> QED
    BY <2>1
<1>10. CASE Refused
  <2>1. rta' = FailCallback(rta, hub.current, "ERROR")
    BY <1>10 DEF Refused
  <2> QED
    BY <1>1, <2>1, FailCallbackAwake
<1>11. CASE TryLater
  <2>1. rta' = AfterDrop(rta)
    BY <1>11 DEF TryLater
  <2> QED
    BY <1>1, <2>1, RtaAssumption, AfterDropAwake
<1> QED
  BY <1>2, <1>3, <1>4, <1>5, <1>6, <1>7, <1>8, <1>9, <1>10, <1>11 DEF Answers

(***************************************************************************)
(* The rest of a pass.                                                     *)
(***************************************************************************)
LEMMA PassAwake ==
    ASSUME IInv, FinishPass, Awake(rta), uptime = "early"
    PROVE  Awake(rta')
<1> DEFINE r == IF DropsOnTimeout THEN AfterDrop(rta) ELSE rta
<1>1. PICK probed : rta' = Serviced(probed, r)
  BY DEF FinishPass
<1>2. Consistent(rta)
  BY DEF IInv
<1>3. Consistent(r) /\ Awake(r)
  BY <1>2, RtaAssumption, AfterDropConsistent, AfterDropAwake
<1> QED
  BY <1>1, <1>3, RtaAssumption, ServicedAwake

(***************************************************************************)
(* The public methods as steps.                                            *)
(***************************************************************************)
LEMMA UserCallAwake ==
    ASSUME IInv, UserCall, Awake(rta)
    PROVE  Awake(rta')
<1>1. rta \in Rtas
  BY DEF IInv, Consistent
<1>2. ASSUME NEW on \in BOOLEAN, SetRtaEnabled(on)
      PROVE  Awake(rta')
  <2>1. rta' = Enabled(rta) \/ rta' = Disabled(hub, rta)
    BY <1>2 DEF SetRtaEnabled
  <2> QED
    BY <1>1, <2>1, EnabledAwake, DisabledAwake
<1>3. ASSUME NEW cfg \in Configs, Reconfigure(cfg)
      PROVE  Awake(rta')
  BY <1>1, <1>3, ReconfiguredAwake DEF Reconfigure
<1>4. ASSUME rta' = rta
      PROVE  Awake(rta')
  BY <1>4
<1>5. RtaResetAvg \/ (\E req \in Others : OtherCall(req)) => rta' = rta
  BY DEF RtaResetAvg, OtherCall
<1> QED
  BY <1>2, <1>3, <1>4, <1>5 DEF UserCall

(***************************************************************************)
(* In the first half of the range of millis() the analyser always has a    *)
(* deadline that will pass.                                                *)
(***************************************************************************)
AwakeInv == uptime = "early" /\ Awake(rta)

LEMMA AwakeAlways ==
    ASSUME Uptimes \subseteq {"early"}
    PROVE  Spec => []AwakeInv
<1>1. Init => AwakeInv
  BY DEF Init, RtaAtStart, Awake, AwakeInv
<1>2. ASSUME IInv, AwakeInv, [Next]_vars
      PROVE  AwakeInv'
  <2>1. rta \in Rtas
    BY <1>2 DEF IInv, Consistent
  <2>2. uptime' = uptime
    <3>1. Answers => uptime' = uptime
      BY DEF Answers, PlatformRead, CapsRead, CentresRead, ConfigRead, ConfigSet,
             BandsRead, StatusRead, ControlDone, OtherDone, Refused, TryLater, AnsweredOK, Answered
    <3>2. UserCall => uptime' = uptime
      BY DEF UserCall, SetRtaEnabled, Reconfigure, RtaResetAvg, OtherCall, Call
    <3>3. Device => uptime' = uptime
      BY DEF Device, Lose, EngineIdles, OthersConfigure, DeviceStep
    <3>4. FinishPass \/ Clock \/ UNCHANGED vars => uptime' = uptime
      BY DEF FinishPass, Clock, Tick, RtaTick, vars
    <3> QED
      BY <1>2, <3>1, <3>2, <3>3, <3>4 DEF Next
  <2>3. CASE Device
    <3>1. rta' = rta
      BY <2>3 DEF Device, Lose, EngineIdles, OthersConfigure, DeviceStep
    <3> QED
      BY <1>2, <2>2, <3>1 DEF AwakeInv
  <2>4. CASE Clock
    <3>1. \/ rta' = rta \/ rta' = [rta EXCEPT !.next_due = "now"]
          \/ rta' = [rta EXCEPT !.status_due = TRUE]
      BY <2>4 DEF Clock, Tick, RtaTick
    <3>2. Awake(rta')
      BY <1>2, <2>1, <3>1 DEF AwakeInv, Awake, Rtas
    <3> QED
      BY <1>2, <2>2, <3>2 DEF AwakeInv
  <2>5. CASE UNCHANGED vars
    BY <1>2, <2>2, <2>5 DEF vars, AwakeInv
  <2>6. CASE Answers \/ FinishPass \/ UserCall
    <3>1. Awake(rta) /\ uptime = "early"
      BY <1>2 DEF AwakeInv
    <3>2. Awake(rta')
      BY <1>2, <2>6, <3>1, AnswersAwake, PassAwake, UserCallAwake
    <3> QED
      BY <2>2, <3>1, <3>2 DEF AwakeInv
  <2> QED
    BY <1>2, <2>3, <2>4, <2>5, <2>6 DEF Next
<1>3. IInv /\ AwakeInv /\ [Next]_vars => AwakeInv'
  BY <1>2
<1> QED
  BY <1>1, <1>3, IInvAlways, PTL DEF Spec

(***************************************************************************)
(* An enabled analyser that is not given up never comes to rest in a phase *)
(* that nothing leaves, whichever order its answers, its drops and the     *)
(* public methods come in: rta_advance_() clears rta_busy_ while an answer *)
(* to the phase before may still be on its way, which then finds the       *)
(* analyser in another one.  It is so in the first half of the range of    *)
(* millis(), where the deadline 0 of reset_rta_() has passed, and while a  *)
(* slot of the queue is free.                                              *)
(***************************************************************************)
THEOREM NeverParkedHolds ==
    ASSUME Uptimes \subseteq {"early"}
    PROVE  Spec /\ []FreeLeft => []NeverParked
<1>1. BusyMeansWork /\ AwakeInv => NeverParked
  BY DEF BusyMeansWork, AwakeInv, Awake, NeverParked
<1> QED
  BY <1>1, AwakeAlways, BusyMeansWorkHolds, PTL

=============================================================================
