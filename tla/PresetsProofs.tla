--------------------------- MODULE PresetsProofs ----------------------------
(***************************************************************************)
(* The safety of the preset handling for every number of slots, queue      *)
(* depth, list of reads, retry budget and bound.                           *)
(***************************************************************************)
EXTENDS Presets, TransportProofs

(***************************************************************************)
(* The commands of this component: the probe and the reads that            *)
(* on_platform_() queues, loads, and the read that confirms one.           *)
(***************************************************************************)
ConfirmTxn == GetTxn("PRESET_GET_ACTIVE", 0, 0)

Commands ==
    {ProbeTxn, ConfirmTxn}
    \cup {GetTxn(ProbeReads[i], 0, 0) : i \in DOMAIN ProbeReads}
    \cup {LoadTxn(slot) : slot \in PresetSlots}

CommandIds == {Identity(t) : t \in Commands}

(***************************************************************************)
(* What this component queues: loads and reads of names are for a slot,    *)
(* and a load is a command.                                                *)
(***************************************************************************)
PresetTxns ==
    {t \in Txn :
        /\ t.req = "PRESET_LOAD" => t.wvalue \in PresetSlots /\ t.priority = 0
        /\ t.req = "PRESET_GET_NAME" => t.wvalue \in PresetSlots
        /\ t.priority = 0 => Identity(t) \in CommandIds}

-----------------------------------------------------------------------------

LEMMA PresetKind == RetriedKind(PresetTxns)
<1>1. PresetTxns \subseteq Txn
  BY DEF PresetTxns
<1>2. ASSUME NEW t \in PresetTxns, NEW n \in Nat
      PROVE  [t EXCEPT !.attempts = n] \in PresetTxns
  <2>1. [t EXCEPT !.attempts = n] \in Txn
    BY DEF PresetTxns, Txn
  <2>2. Identity([t EXCEPT !.attempts = n]) = Identity(t)
    BY DEF PresetTxns, Txn, Identity
  <2> QED
    BY <2>1, <2>2 DEF PresetTxns, Txn
<1>3. ASSUME NEW a \in PresetTxns, NEW b \in PresetTxns
      PROVE  Coalesced(a, b) \in PresetTxns
  <2>1. a.attempts \in Nat /\ b.attempts \in Nat
    BY DEF PresetTxns, Txn
  <2> DEFINE n == Max({a.attempts, b.attempts})
  <2>2. n \in Nat
    BY <2>1, MaxOfTwo
  <2>3. [b EXCEPT !.attempts = n] \in PresetTxns
    <3> HIDE DEF n
    <3> QED
      BY <1>2, <2>2
  <2> QED
    BY <2>3 DEF Coalesced
<1>4. ASSUME NEW t \in PresetTxns
      PROVE  [t EXCEPT !.attempts = @ + 1] \in PresetTxns
  <2>1. t.attempts + 1 \in Nat
    BY DEF PresetTxns, Txn
  <2> QED
    BY <1>2, <2>1
<1> QED
  BY <1>1, <1>3, <1>4 DEF RetriedKind, ClosedKind

LEMMA PresetTxnTypes ==
    ASSUME PresetsAssumption
    PROVE  /\ \A req \in Reqs \ {"PRESET_LOAD"} : GetTxn(req, 0, 1) \in PresetTxns
           /\ \A slot \in PresetSlots : NameTxn(slot) \in PresetTxns
           /\ Commands \subseteq PresetTxns
<1>1. /\ {"PLATFORM", "PRESET_LOAD", "PRESET_GET_NAME", "PRESET_GET_ACTIVE"} \subseteq Reqs
      /\ 0 \in PresetSlots /\ PresetSlots \subseteq Wvalues
      /\ Nothing \in Payloads /\ MaxRetries \in Nat
      /\ ProbeTxn = GetTxn("PLATFORM", 0, 0)
      /\ ProbeReads \in Seq(Reqs \ {"PRESET_LOAD"})
  BY DEF PresetsAssumption, ActiveReads
<1>2. \A req \in Reqs \ {"PRESET_LOAD"} : GetTxn(req, 0, 1) \in PresetTxns
  BY <1>1 DEF GetTxn, PresetTxns, Txn, Priorities
<1>3. \A slot \in PresetSlots : NameTxn(slot) \in PresetTxns
  BY <1>1 DEF NameTxn, GetTxn, PresetTxns, Txn, Priorities
<1>4. ASSUME NEW t \in Commands PROVE t \in PresetTxns
  <2>1. Identity(t) \in CommandIds
    BY DEF CommandIds
  <2>2. ASSUME NEW req \in Reqs \ {"PRESET_LOAD"}, t = GetTxn(req, 0, 0)
        PROVE  t \in PresetTxns
    <3>1. GetTxn(req, 0, 0) \in Txn
      BY <1>1 DEF GetTxn, Txn, Priorities
    <3>2. GetTxn(req, 0, 0).req = req /\ GetTxn(req, 0, 0).wvalue = 0
      BY DEF GetTxn
    <3> QED
      BY <1>1, <2>1, <2>2, <3>1, <3>2 DEF PresetTxns
  <2>3. ASSUME NEW slot \in PresetSlots, t = LoadTxn(slot)
        PROVE  t \in PresetTxns
    <3>1. LoadTxn(slot) \in Txn
      BY <1>1 DEF LoadTxn, GetTxn, Txn, Priorities
    <3>2. /\ LoadTxn(slot).req = "PRESET_LOAD" /\ LoadTxn(slot).wvalue = slot
          /\ LoadTxn(slot).priority = 0
      BY DEF LoadTxn, GetTxn
    <3> QED
      BY <2>1, <2>3, <3>1, <3>2 DEF PresetTxns
  <2>4. \A i \in DOMAIN ProbeReads : ProbeReads[i] \in Reqs \ {"PRESET_LOAD"}
    BY <1>1
  <2>5. CASE t = ProbeTxn \/ t = ConfirmTxn
    BY <1>1, <2>2, <2>5 DEF ConfirmTxn
  <2>6. CASE \E i \in DOMAIN ProbeReads : t = GetTxn(ProbeReads[i], 0, 0)
    BY <2>2, <2>4, <2>6
  <2> QED
    BY <2>3, <2>5, <2>6 DEF Commands
<1> QED
  BY <1>2, <1>3, <1>4

(***************************************************************************)
(* The reads of on_platform_() and of the burst.                           *)
(***************************************************************************)
LEMMA ReadsAreTxns ==
    ASSUME NEW reads, NEW A, reads \in Seq(A), NEW priority,
           \A i \in DOMAIN reads : GetTxn(reads[i], 0, priority) \in PresetTxns
    PROVE  [i \in DOMAIN reads |-> GetTxn(reads[i], 0, priority)] \in Seq(PresetTxns)
<1> DEFINE ts == [i \in DOMAIN reads |-> GetTxn(reads[i], 0, priority)]
<1>1. DOMAIN reads = 1 .. Len(reads) /\ Len(reads) \in Nat
  OBVIOUS
<1>2. ts \in [1 .. Len(reads) -> PresetTxns]
  BY <1>1
<1> QED
  BY <1>1, <1>2

LEMMA ProbeReadsAreTxns ==
    ASSUME PresetsAssumption
    PROVE  [i \in DOMAIN ProbeReads |-> GetTxn(ProbeReads[i], 0, 0)] \in Seq(PresetTxns)
<1>1. \A i \in DOMAIN ProbeReads : GetTxn(ProbeReads[i], 0, 0) \in PresetTxns
  BY PresetTxnTypes DEF Commands
<1>2. ProbeReads \in Seq(Reqs \ {"PRESET_LOAD"})
  BY DEF PresetsAssumption
<1> QED
  BY <1>1, <1>2, ReadsAreTxns

LEMMA SoundIsTyped ==
    ASSUME NEW h, Sound(PresetTxns, h)
    PROVE  h \in Hubs
BY DEF PresetTxns, Sound, HubsOf, Hubs, Queues

-----------------------------------------------------------------------------

(***************************************************************************)
(* The inductive invariant.  A request that the device may answer is in    *)
(* flight and not yet timed out: otherwise an answer would be matched to   *)
(* no transaction, or to the next one.                                     *)
(***************************************************************************)
IInv ==
    /\ TypeOK
    /\ Sound(PresetTxns, hub)
    /\ asked => hub.current # NoTxn /\ "timeout" \notin due

LEMMA InitIInv == Init => IInv
<1> SUFFICES ASSUME Init PROVE IInv
  OBVIOUS
<1>1. Sound(PresetTxns, HubAtStart) /\ HubAtStart.current = NoTxn
  BY TransportAssumption, EmptyQueueSound
  DEF HubAtStart, Sound, HubsOf, HubStates, OneInFlight, TransportAssumption
<1>2. ClosedKind(PresetTxns) /\ ProbeTxn \in PresetTxns
  BY PresetsAssumption, PresetKind, PresetTxnTypes DEF RetriedKind, Commands
<1>3. Sound(PresetTxns, hub)
  BY <1>1, <1>2, QueueAssumption, ProbedSound DEF Init
<1>4. hub \in Hubs
  BY <1>3, SoundIsTyped
<1>5. /\ calls \in 0 .. MaxCalls /\ faults \in 0 .. MaxFaults
      /\ confirm_attempts \in 0 .. CounterModulus - 1
  BY PresetsAssumption, TransportAssumption DEF Init, PresetsAssumption, TransportAssumption
<1>6. name_slot \in PresetSlots
  BY PresetsAssumption DEF Init, PresetsAssumption
<1> QED
  BY <1>3, <1>4, <1>5, <1>6 DEF Init, IInv, TypeOK, MaybeSlot

(***************************************************************************)
(* The rest of a pass of loop(), method by method.                         *)
(***************************************************************************)
PassIs(clock, timed, probed, c, produced) ==
    /\ timed = AfterTimers(hub, due)
    /\ probed = AfterReprobe(timed, clock)
    /\ c = IF DropsOnTimeout THEN Unconfirmed ELSE confirm
    /\ produced = AfterConfirm(AfterRefresh(probed), c)
    /\ hub' = SentNext(produced)
    /\ asked' = (asked \/ CanSend(produced))
    /\ refresh_pending' = (refresh_pending /\ ~Bursts(probed))
    /\ confirm' = StillAwaited(c)
    /\ confirm_attempts' = IF Confirms(c) THEN NextAttempt ELSE confirm_attempts
    /\ unread' = (unread \/ (DropsOnTimeout /\ Unread))
    /\ due' \subseteq due /\ "timeout" \notin due'

LEMMA PassIsComposed ==
    ASSUME FinishPass
    PROVE  \E clock, timed, probed, c, produced : PassIs(clock, timed, probed, c, produced)
BY DEF FinishPass, PassIs, Rearm

LEMMA BurstIsTxns ==
    ASSUME PresetsAssumption
    PROVE  Burst \in Seq(PresetTxns) /\ Burst \in Seq(PresetTxns \cup {NoTxn})
<1>1. BurstReads \in Seq(Reqs \ {"PRESET_LOAD"})
  BY DEF PresetsAssumption
<1>2. Burst \in Seq(PresetTxns)
  <2>1. \A i \in DOMAIN BurstReads : GetTxn(BurstReads[i], 0, 1) \in PresetTxns
    BY <1>1, PresetTxnTypes
  <2> QED
    BY <1>1, <2>1, ReadsAreTxns DEF Burst
<1> HIDE DEF Burst
<1> QED
  BY <1>2

LEMMA AfterRefreshSound ==
    ASSUME PresetsAssumption, NEW h, Sound(PresetTxns, h)
    PROVE  Sound(PresetTxns, AfterRefresh(h)) /\ AfterRefresh(h).current = h.current
<1>1. CASE Bursts(h)
  <2>1. AfterRefresh(h) = QueuedAll(h, Burst)
    BY <1>1 DEF AfterRefresh
  <2>2. Sound(PresetTxns, QueuedAll(h, Burst))
    BY QueueAssumption, PresetKind, BurstIsTxns, QueuedAllSound DEF RetriedKind
  <2>3. QueuedAll(h, Burst).current = h.current
    BY DEF QueuedAll, Sound, HubsOf
  <2> QED
    BY <2>1, <2>2, <2>3
<1>2. CASE ~Bursts(h)
  BY <1>2 DEF AfterRefresh
<1> QED
  BY <1>1, <1>2

LEMMA AfterConfirmSound ==
    ASSUME PresetsAssumption, NEW h, Sound(PresetTxns, h), NEW c
    PROVE  Sound(PresetTxns, AfterConfirm(h, c)) /\ AfterConfirm(h, c).current = h.current
<1>1. CASE Asks(c)
  <2> DEFINE t == ConfirmTxn
  <2>1. t \in PresetTxns
    BY PresetTxnTypes DEF Commands
  <2>2. AfterConfirm(h, c) = Queued(h, t)
    BY <1>1 DEF AfterConfirm, ConfirmTxn
  <2> HIDE DEF t
  <2>3. Sound(PresetTxns, Queued(h, t))
    BY <2>1, QueueAssumption, PresetKind, QueuedSound DEF RetriedKind
  <2>4. Queued(h, t).current = h.current
    BY DEF Queued, Sound, HubsOf
  <2> QED
    BY <2>2, <2>3, <2>4
<1>2. CASE ~Asks(c)
  BY <1>2 DEF AfterConfirm
<1> QED
  BY <1>1, <1>2

(***************************************************************************)
(* A request is only sent when none is in flight, and sending it disarms   *)
(* the timeout of the one before.                                          *)
(***************************************************************************)
LEMMA FinishPassIInv ==
    ASSUME IInv, FinishPass
    PROVE  IInv'
<1>1. RetriedKind(PresetTxns) /\ ClosedKind(PresetTxns) /\ ProbeTxn \in PresetTxns
  BY PresetsAssumption, PresetKind, PresetTxnTypes DEF RetriedKind, Commands
<1>2. PICK clock, timed, probed, c, produced : PassIs(clock, timed, probed, c, produced)
  BY PassIsComposed
<1>3. Sound(PresetTxns, hub)
  BY DEF IInv
<1>4. Sound(PresetTxns, timed)
  BY <1>1, <1>2, <1>3, QueueAssumption, TransportAssumption, AfterTimersSound DEF PassIs
<1>5. Sound(PresetTxns, probed)
  BY <1>1, <1>2, <1>4, QueueAssumption, AfterReprobeSound DEF PassIs
<1>6. Sound(PresetTxns, produced) /\ produced.current = probed.current
  <2>1. produced = AfterConfirm(AfterRefresh(probed), c)
    BY <1>2 DEF PassIs
  <2> QED
    BY <1>5, <2>1, PresetsAssumption, AfterRefreshSound, AfterConfirmSound
<1>7. asked => produced.current = hub.current /\ hub.current # NoTxn
  <2> SUFFICES ASSUME asked
               PROVE  produced.current = hub.current /\ hub.current # NoTxn
    OBVIOUS
  <2>1. hub.current # NoTxn /\ "timeout" \notin due /\ hub.hub_state = "AWAIT_RESP"
    BY DEF IInv, Sound, OneInFlight
  <2>2. timed = hub
    BY <1>2, <2>1 DEF PassIs, AfterTimers
  <2>3. probed = hub
    BY <1>2, <2>1, <2>2 DEF PassIs, AfterReprobe, ProbeDue
  <2> QED
    BY <1>6, <2>1, <2>3
<1>8. Sound(PresetTxns, hub')
  BY <1>1, <1>2, <1>6, QueueAssumption, SentNextSound DEF PassIs
<1>9. asked' => hub'.current # NoTxn
  <2>1. CASE CanSend(produced)
    <3>1. NextOut(produced) \in PresetTxns /\ NextOut(produced) # NoTxn
      BY <1>1, <1>6, <2>1, QueueAssumption, NextOutIsTxn
      DEF RetriedKind, ClosedKind, QueueAssumption
    <3>2. hub' = Sent(produced)
      BY <1>2, <2>1 DEF PassIs, SentNext
    <3> QED
      BY <1>6, <3>1, <3>2 DEF Sent, Sound, HubsOf
  <2>2. CASE ~CanSend(produced)
    <3>1. hub' = produced /\ asked' = (asked \/ CanSend(produced))
      BY <1>2, <2>2 DEF PassIs, SentNext
    <3>2. asked' => asked
      BY <3>1, <2>2 DEF IInv, TypeOK
    <3> QED
      BY <1>7, <3>1, <3>2
  <2> QED
    BY <2>1, <2>2
<1>10. asked' \in BOOLEAN /\ refresh_pending' \in BOOLEAN /\ unread' \in BOOLEAN
  BY <1>2, Zenon DEF PassIs, IInv, TypeOK
<1>11. confirm' \in MaybeSlot
  BY <1>2 DEF PassIs, StillAwaited, Unconfirmed, MaybeSlot, IInv, TypeOK
<1>12. confirm_attempts' \in 0 .. CounterModulus - 1
  <2>1. confirm_attempts \in 0 .. CounterModulus - 1 /\ CounterModulus \in Nat \ {0}
    BY TransportAssumption DEF IInv, TypeOK, TransportAssumption
  <2>2. NextAttempt \in 0 .. CounterModulus - 1
    BY <2>1 DEF NextAttempt
  <2> QED
    BY <1>2, <2>1, <2>2 DEF PassIs
<1>13. hub' \in Hubs /\ due' \subseteq Deadlines /\ "timeout" \notin due'
  BY <1>2, <1>8, SoundIsTyped DEF PassIs, IInv, TypeOK
<1>14. /\ pumping' = FALSE
       /\ UNCHANGED <<active, name, name_valid, name_slot, name_requested,
                      dev_slot, dev_loading, started, calls, faults>>
  BY DEF FinishPass, nameVars, devVars, boundVars
<1> QED
  BY <1>8, <1>9, <1>10, <1>11, <1>12, <1>13, <1>14 DEF IInv, TypeOK

LEMMA MayFaults ==
    ASSUME IInv, NEW reply, May(reply)
    PROVE  faults' \in 0 .. MaxFaults
BY PresetsAssumption DEF IInv, TypeOK, May, PresetsAssumption

(***************************************************************************)
(* The handlers of an answer.                                              *)
(***************************************************************************)
LEMMA AnswersIInv ==
    ASSUME IInv, Answers
    PROVE  IInv'
<1>1. RetriedKind(PresetTxns) /\ ClosedKind(PresetTxns)
  BY PresetKind DEF RetriedKind
<1>2. Answered
  BY DEF Answers, PlatformRead, ActiveRead, NameRead, LoadAccepted, LoadDenied,
         NothingRead, Refused, TryLater, AnsweredOK
<1>3. /\ asked' = FALSE /\ pumping' = TRUE /\ calls' = calls
      /\ hub.current # NoTxn /\ hub.current \in PresetTxns
  BY <1>2 DEF Answered, IInv, Sound, HubsOf
<1>4. /\ due \subseteq Deadlines /\ active \in MaybeSlot /\ name \in MaybeSlot
      /\ name_valid \in BOOLEAN /\ name_slot \in PresetSlots /\ name_requested \in BOOLEAN
      /\ confirm \in MaybeSlot /\ confirm_attempts \in 0 .. CounterModulus - 1
      /\ dev_slot \in PresetSlots /\ dev_loading \in MaybeSlot
      /\ started \subseteq PresetSlots /\ unread \in BOOLEAN /\ refresh_pending \in BOOLEAN
      /\ calls \in 0 .. MaxCalls
  BY DEF IInv, TypeOK
<1> DEFINE Others == /\ active' \in MaybeSlot /\ name' \in MaybeSlot
                     /\ name_valid' \in BOOLEAN /\ name_slot' \in PresetSlots
                     /\ name_requested' \in BOOLEAN
                     /\ confirm' \in MaybeSlot
                     /\ confirm_attempts' \in 0 .. CounterModulus - 1
                     /\ dev_slot' \in PresetSlots /\ dev_loading' \in MaybeSlot
                     /\ started' \subseteq PresetSlots /\ unread' \in BOOLEAN
                     /\ refresh_pending' \in BOOLEAN
                     /\ faults' \in 0 .. MaxFaults
<1>5. SUFFICES Sound(PresetTxns, hub') /\ due' \subseteq Deadlines /\ Others
  <2>1. Sound(PresetTxns, hub') => hub' \in Hubs
    BY SoundIsTyped
  <2> QED
    BY <1>3, <1>4, <2>1 DEF IInv, TypeOK
<1>6. /\ Sound(PresetTxns, Succeeded(hub)) /\ Sound(PresetTxns, Rejected(hub))
      /\ Succeeded(hub).hub_state = "IDLE"
  BY TransportAssumption, RejectedSound DEF IInv, Succeeded, Rejected, Sound, HubsOf
<1>7. ASSUME NEW reply, May(reply)
      PROVE  faults' \in 0 .. MaxFaults
  BY <1>7, MayFaults
<1>8. /\ hub.current.req = "PRESET_LOAD" => hub.current.wvalue \in PresetSlots
      /\ hub.current.req = "PRESET_GET_NAME" => hub.current.wvalue \in PresetSlots
  BY <1>3 DEF PresetTxns
<1>9. /\ PresetSlots \subseteq MaybeSlot /\ Nothing \in MaybeSlot /\ Unconfirmed \in MaybeSlot
  BY <1>4 DEF MaybeSlot, Unconfirmed
<1> HIDE DEF MaybeSlot
<1>10. ASSUME NEW D, Rearm(D) PROVE due' \subseteq Deadlines
  BY <1>4, <1>10 DEF Rearm
<1>11. CASE PlatformRead
  <2> DEFINE known == [Succeeded(hub) EXCEPT !.identified = TRUE]
             ts == [i \in DOMAIN ProbeReads |-> GetTxn(ProbeReads[i], 0, 0)]
  <2>1. Sound(PresetTxns, known)
    <3> HIDE DEF Succeeded
    <3> QED
      BY <1>6 DEF Sound, HubsOf, OneInFlight
  <2>2. ts \in Seq(PresetTxns)
    BY PresetsAssumption, ProbeReadsAreTxns
  <2>3. hub' = QueuedAll(known, ts)
    BY <1>11 DEF PlatformRead
  <2> HIDE DEF known, ts
  <2>4. ts \in Seq(PresetTxns \cup {NoTxn})
    BY <2>2
  <2>5. Sound(PresetTxns, hub')
    BY <1>1, <2>1, <2>3, <2>4, QueueAssumption, QueuedAllSound
  <2>6. Others /\ due' \subseteq Deadlines
    BY <1>4, <1>7, <1>9, <1>10, <1>11 DEF PlatformRead, devVars
  <2> QED
    BY <2>5, <2>6
<1>12. CASE ActiveRead
  <2>1. PICK slot \in {dev_slot, OutOfRange} :
           /\ IF slot = OutOfRange THEN May("UNUSABLE") ELSE May("OK")
           /\ InRange(slot)
           /\ active' = Seen(slot)
           /\ confirm' = IF confirm = slot THEN Nothing ELSE confirm
           /\ unread' = FALSE
           /\ IF AsksName(slot)
              THEN /\ name_slot' = slot
                   /\ name_requested' = TRUE
                   /\ hub' = Queued(Succeeded(hub), NameTxn(slot))
              ELSE /\ hub' = Succeeded(hub)
                   /\ UNCHANGED <<name_slot, name_requested>>
    BY <1>12 DEF ActiveRead
  <2>2. slot \in PresetSlots /\ active' = slot
    BY <2>1 DEF InRange, Seen
  <2>3. Sound(PresetTxns, Queued(Succeeded(hub), NameTxn(slot)))
    BY <1>1, <1>6, <2>2, QueueAssumption, PresetsAssumption, PresetTxnTypes, QueuedSound
  <2>4. Sound(PresetTxns, hub')
    BY <1>6, <2>1, <2>3
  <2>5. name_slot' \in PresetSlots /\ name_requested' \in BOOLEAN
    BY <1>4, <2>1, <2>2
  <2>6. faults' \in 0 .. MaxFaults
    BY <1>7, <2>1
  <2>7. Others /\ due' \subseteq Deadlines
    BY <1>4, <1>9, <1>10, <1>12, <2>1, <2>2, <2>5, <2>6 DEF ActiveRead, devVars
  <2> QED
    BY <2>4, <2>7
<1>13. CASE NameRead
  <2>1. Sound(PresetTxns, hub') /\ hub.current.wvalue \in PresetSlots
    BY <1>6, <1>8, <1>13 DEF NameRead, AnsweredOK
  <2>2. Others /\ due' \subseteq Deadlines
    BY <1>4, <1>7, <1>9, <1>10, <1>13, <2>1 DEF NameRead, confirmVars, devVars
  <2> QED
    BY <2>1, <2>2
<1>14. CASE LoadAccepted
  <2>1. Sound(PresetTxns, hub') /\ hub.current.wvalue \in PresetSlots
    BY <1>6, <1>8, <1>14 DEF LoadAccepted, AnsweredOK
  <2>2. Others /\ due' \subseteq Deadlines
    BY <1>4, <1>7, <1>9, <1>10, <1>14, <2>1 DEF LoadAccepted, confirmVars, nameVars
  <2> QED
    BY <2>1, <2>2
<1>15. CASE LoadDenied
  BY <1>4, <1>6, <1>7, <1>9, <1>10, <1>15 DEF LoadDenied, nameVars, devVars
<1>16. CASE NothingRead
  <2>1. unread' \in BOOLEAN
    BY <1>16, Zenon DEF NothingRead
  <2> QED
    BY <1>4, <1>6, <1>7, <1>10, <1>16, <2>1 DEF NothingRead, nameVars, confirmVars, devVars
<1>17. CASE Refused
  <2>1. unread' \in BOOLEAN
    BY <1>17, Zenon DEF Refused
  <2> QED
    BY <1>4, <1>6, <1>7, <1>9, <1>10, <1>17, <2>1 DEF Refused, nameVars, devVars
<1>18. CASE TryLater
  <2>1. Sound(PresetTxns, hub')
    BY <1>1, <1>3, <1>18, QueueAssumption, TransportAssumption, RetriedOrDroppedSound
    DEF TryLater, IInv
  <2>2. unread' \in BOOLEAN
    BY <1>18, Zenon DEF TryLater
  <2>3. due' \subseteq Deadlines
    BY <1>4, <1>18 DEF TryLater, ProbeClock, Deadlines
  <2>4. confirm' \in MaybeSlot
    BY <1>4, <1>9, <1>18 DEF TryLater
  <2> QED
    BY <1>4, <1>7, <1>18, <2>1, <2>2, <2>3, <2>4 DEF TryLater, nameVars, devVars
<1> QED
  BY <1>11, <1>12, <1>13, <1>14, <1>15, <1>16, <1>17, <1>18 DEF Answers

(***************************************************************************)
(* The public methods.                                                     *)
(***************************************************************************)
LEMMA UserCallIInv ==
    ASSUME IInv, UserCall
    PROVE  IInv'
<1>1. Call
  BY DEF UserCall, SetPresetSlot, RequestRefresh
<1>2. calls' \in 0 .. MaxCalls
  BY <1>1, PresetsAssumption DEF Call, IInv, TypeOK, PresetsAssumption
<1>3. SUFFICES /\ Sound(PresetTxns, hub') /\ hub'.current = hub.current
               /\ due' \subseteq due
               /\ confirm' \in MaybeSlot /\ confirm_attempts' \in 0 .. CounterModulus - 1
               /\ started' \subseteq PresetSlots /\ refresh_pending' \in BOOLEAN
  <2>1. Sound(PresetTxns, hub') => hub' \in Hubs
    BY SoundIsTyped
  <2> QED
    BY <1>1, <1>2, <2>1 DEF Call, IInv, TypeOK, nameVars, devVars
<1>4. ASSUME NEW slot \in PresetSlots, SetPresetSlot(slot)
      PROVE  /\ Sound(PresetTxns, hub') /\ hub'.current = hub.current
             /\ due' \subseteq due
             /\ confirm' \in MaybeSlot /\ confirm_attempts' \in 0 .. CounterModulus - 1
             /\ started' \subseteq PresetSlots /\ refresh_pending' \in BOOLEAN
  <2>1. Sound(PresetTxns, Queued(hub, LoadTxn(slot)))
    BY QueueAssumption, PresetsAssumption, PresetKind, PresetTxnTypes, QueuedSound
    DEF RetriedKind, IInv, Commands
  <2>2. Queued(hub, LoadTxn(slot)).current = hub.current
    BY DEF Queued, IInv, Sound, HubsOf
  <2>3. 0 \in 0 .. CounterModulus - 1
    BY TransportAssumption DEF TransportAssumption
  <2> QED
    BY <1>4, <2>1, <2>2, <2>3
    DEF SetPresetSlot, confirmVars, MaybeSlot, Rearm, IInv, TypeOK
<1>5. CASE RequestRefresh
  BY <1>5 DEF RequestRefresh, confirmVars, Rearm, IInv, TypeOK
<1> QED
  BY <1>4, <1>5 DEF UserCall

(***************************************************************************)
(* The device and the link.                                                *)
(***************************************************************************)
LEMMA DeviceIInv ==
    ASSUME IInv, Device
    PROVE  IInv'
<1>1. /\ UNCHANGED <<hub, pumping, active, nameVars, confirmVars, started>>
      /\ Lose \/ LoadEnds \/ \E slot \in PresetSlots : OthersLoad(slot)
  BY DEF Device, Lose, LoadEnds, OthersLoad, DeviceStep
<1>2. SUFFICES /\ asked' \in BOOLEAN /\ (asked' => asked)
               /\ due' \subseteq due /\ refresh_pending' \in BOOLEAN
               /\ dev_slot' \in PresetSlots /\ dev_loading' \in MaybeSlot
               /\ unread' \in BOOLEAN
               /\ calls' \in 0 .. MaxCalls /\ faults' \in 0 .. MaxFaults
  BY <1>1 DEF IInv, TypeOK, nameVars, confirmVars
<1>3. /\ asked \in BOOLEAN /\ refresh_pending \in BOOLEAN /\ unread \in BOOLEAN
      /\ dev_slot \in PresetSlots /\ dev_loading \in MaybeSlot
      /\ calls \in 0 .. MaxCalls /\ faults \in 0 .. MaxFaults
  BY DEF IInv, TypeOK
<1>4. ASSUME Announced
      PROVE  /\ due' \subseteq due /\ refresh_pending' \in BOOLEAN /\ unread' \in BOOLEAN
             /\ faults' \in 0 .. MaxFaults
  BY <1>3, <1>4, MayFaults DEF Announced, Rearm
<1>5. CASE Lose
  <2>1. hub.current # NoTxn /\ hub.current \in PresetTxns
    BY <1>5 DEF Lose, IInv, Sound, HubsOf
  <2>2. hub.current.req = "PRESET_LOAD" => hub.current.wvalue \in MaybeSlot
    BY <2>1 DEF PresetTxns, MaybeSlot
  <2> QED
    BY <1>3, <1>5, <2>2, MayFaults DEF Lose
<1>6. CASE LoadEnds
  BY <1>3, <1>4, <1>6 DEF LoadEnds, MaybeSlot
<1>7. ASSUME NEW slot \in PresetSlots, OthersLoad(slot)
      PROVE  /\ asked' \in BOOLEAN /\ (asked' => asked)
             /\ due' \subseteq due /\ refresh_pending' \in BOOLEAN
             /\ dev_slot' \in PresetSlots /\ dev_loading' \in MaybeSlot
             /\ unread' \in BOOLEAN
             /\ calls' \in 0 .. MaxCalls /\ faults' \in 0 .. MaxFaults
  <2>1. calls' \in 0 .. MaxCalls
    BY <1>3, <1>7, PresetsAssumption DEF OthersLoad, PresetsAssumption
  <2> QED
    BY <1>3, <1>4, <1>7, <2>1 DEF OthersLoad
<1> QED
  BY <1>1, <1>5, <1>6, <1>7

(***************************************************************************)
(* The clock: a transaction does not time out while its answer may come.   *)
(***************************************************************************)
LEMMA ClockIInv ==
    ASSUME IInv, Clock
    PROVE  IInv'
BY DEF Clock, Tick, IInv, TypeOK, nameVars, confirmVars, devVars, boundVars

LEMMA NextIInv == IInv /\ [Next]_vars => IInv'
<1> SUFFICES ASSUME IInv, [Next]_vars PROVE IInv'
  OBVIOUS
<1>1. CASE UNCHANGED vars
  BY <1>1 DEF vars, nameVars, confirmVars, devVars, boundVars, IInv, TypeOK
<1> QED
  BY <1>1, AnswersIInv, FinishPassIInv, UserCallIInv, DeviceIInv, ClockIInv DEF Next

LEMMA IInvAlways == Spec => []IInv
BY InitIInv, NextIInv, PTL DEF Spec

(***************************************************************************)
(* The types hold for every number of slots and every list of reads: what  *)
(* is published and awaited is a slot the device has, also when it answers *)
(* with one it does not have (on_preset_active_()), and the 8-bit count of *)
(* confirmation attempts stays in range (service_preset_confirm_()).       *)
(***************************************************************************)
THEOREM TypeCorrect == Spec => []TypeOK
<1>1. IInv => TypeOK
  BY DEF IInv
<1> QED
  BY <1>1, IInvAlways, PTL

-----------------------------------------------------------------------------

(***************************************************************************)
(* Room for one more command, counting the one in flight, which comes back *)
(* when it is retried: otherwise enqueue_() may evict a load that the hub  *)
(* is to confirm for another command, and tell nobody.                     *)
(***************************************************************************)
Spare(h) == {i \in Slots : ~IsCommand(h.queue[i])}

Roomy(h) == Spare(h) # {} /\ (IsCommand(h.current) => \E i, j \in Spare(h) : i # j)

RoomLeft == Roomy(hub)

LEMMA RoomyNotFull ==
    ASSUME NEW h, Roomy(h)
    PROVE  ~FullOfCommands(h.queue)
BY DEF Roomy, Spare, FullOfCommands

(***************************************************************************)
(* The load of slot s waits or is in flight.                               *)
(***************************************************************************)
LoadId(s) == Identity(LoadTxn(s))

LEMMA WaitingLoadIsCommand ==
    ASSUME NEW q \in [Slots -> PresetTxns \cup {NoTxn}], NEW s, LoadId(s) \in WaitingIds(q)
    PROVE  CommandWaits(q, LoadId(s))
<1>1. PICK j \in Occupied(q) : Identity(q[j]) = LoadId(s)
  BY DEF WaitingIds, Waiting
<1>2. q[j] \in PresetTxns
  BY DEF Occupied
<1>3. q[j].req = "PRESET_LOAD"
  BY <1>1 DEF Identity, LoadId, LoadTxn, GetTxn
<1>4. q[j].priority = 0
  BY <1>2, <1>3 DEF PresetTxns
<1> QED
  BY <1>1, <1>4 DEF CommandWaits

(***************************************************************************)
(* The load is held, or some enqueue_() of this step met a queue full of   *)
(* commands, and the queue still is.                                       *)
(***************************************************************************)
HeldOrFull(h, s) == h.identified => LoadId(s) \in Held(h) \/ FullOfCommands(h.queue)

LEMMA QueuedHolds ==
    ASSUME NEW h, Sound(PresetTxns, h), NEW t \in PresetTxns, NEW s
    PROVE  /\ LoadId(s) \in Held(h) => LoadId(s) \in Held(Queued(h, t)) \/ FullOfCommands(h.queue)
           /\ t.priority = 0 /\ HeldOrFull(h, s) => HeldOrFull(Queued(h, t), s)
<1> DEFINE q == h.queue
           after == Enqueue(q, t)
<1>1. /\ ClosedKind(PresetTxns) /\ q \in [Slots -> PresetTxns \cup {NoTxn}]
      /\ Queued(h, t).queue = after /\ Queued(h, t).current = h.current
      /\ Queued(h, t).identified = h.identified
  BY PresetKind DEF RetriedKind, Queued, Sound, HubsOf
<1> HIDE DEF q, after
<1>2. LoadId(s) \in WaitingIds(q) => LoadId(s) \in WaitingIds(after) \/ FullOfCommands(q)
  BY <1>1, QueueAssumption, WaitingLoadIsCommand, EnqueueCommands DEF after
<1>3. LoadId(s) \in Held(h) => LoadId(s) \in Held(Queued(h, t)) \/ FullOfCommands(q)
  BY <1>1, <1>2 DEF Held, q
<1>4. t.priority = 0 /\ FullOfCommands(q) => FullOfCommands(after)
  BY <1>1, QueueAssumption, EnqueueFull DEF after
<1> QED
  BY <1>1, <1>3, <1>4 DEF HeldOrFull, q

(***************************************************************************)
(* A burst goes out into room for all of it: nothing that waits is lost,   *)
(* and every read of it waits.                                             *)
(***************************************************************************)
LEMMA BurstWaits ==
    ASSUME NEW h, Sound(PresetTxns, h), Bursts(h)
    PROVE  /\ WaitingIds(h.queue) \subseteq WaitingIds(AfterRefresh(h).queue)
           /\ \A i \in DOMAIN Burst : Identity(Burst[i]) \in WaitingIds(AfterRefresh(h).queue)
<1> DEFINE q == h.queue
           after == EnqueueAll(q, Burst)
           some == {i \in DOMAIN Burst : Burst[i] # NoTxn}
<1>1. /\ AfterRefresh(h).queue = after /\ ClosedKind(PresetTxns)
      /\ q \in [Slots -> PresetTxns \cup {NoTxn}]
  BY PresetKind DEF AfterRefresh, QueuedAll, Sound, HubsOf, RetriedKind
<1>2. /\ Burst \in Seq(PresetTxns) /\ Burst \in Seq(PresetTxns \cup {NoTxn})
      /\ QueueFree(q) >= Len(Burst)
  BY PresetsAssumption, BurstIsTxns DEF Bursts
<1> HIDE DEF q, after, Burst
<1>3. DOMAIN Burst = 1 .. Len(Burst) /\ Len(Burst) \in Nat
  BY <1>2
<1>4. some \subseteq 1 .. Len(Burst)
  BY <1>3
<1>5. IsFiniteSet(1 .. Len(Burst)) /\ Cardinality(1 .. Len(Burst)) = Len(Burst)
  <2> DEFINE n == Len(Burst)
  <2>1. n \in Nat /\ n \in Int /\ 1 \in Int
    BY <1>3
  <2> HIDE DEF n
  <2>2. IsFiniteSet(1 .. n) /\ Cardinality(1 .. n) = IF 1 > n THEN 0 ELSE n - 1 + 1
    BY <2>1, FS_Interval
  <2> QED
    BY <2>1, <2>2 DEF n
<1> HIDE DEF some
<1>6. IsFiniteSet(some) /\ Cardinality(some) <= Len(Burst)
  BY <1>4, <1>5, FS_Subset
<1>7. Cardinality(some) \in Nat /\ QueueFree(q) \in Nat
  BY <1>1, <1>6, FS_CardinalityType, FreeIsFinite, QueueAssumption DEF ClosedKind, Queues
<1>8. QueueFree(q) >= Cardinality(some)
  BY <1>2, <1>3, <1>6, <1>7
<1>9. /\ WaitingIds(q) \subseteq WaitingIds(after)
      /\ \A i \in DOMAIN Burst : Burst[i] # NoTxn => Identity(Burst[i]) \in WaitingIds(after)
  BY <1>1, <1>2, <1>8, QueueAssumption, EnqueueAllWithRoom DEF some, after
<1>10. \A i \in DOMAIN Burst : Burst[i] # NoTxn
  <2>1. NoTxn \notin PresetTxns
    BY <1>1, QueueAssumption DEF ClosedKind, QueueAssumption
  <2> QED
    BY <1>2, <1>3, <2>1
<1> QED
  BY <1>1, <1>9, <1>10 DEF q

LEMMA AfterRefreshHolds ==
    ASSUME NEW h, Sound(PresetTxns, h), NEW s, HeldOrFull(h, s)
    PROVE  HeldOrFull(AfterRefresh(h), s)
<1>1. CASE ~Bursts(h)
  BY <1>1 DEF AfterRefresh
<1>2. CASE Bursts(h)
  <2> DEFINE q == h.queue
             after == EnqueueAll(q, Burst)
  <2>1. /\ AfterRefresh(h).queue = after /\ AfterRefresh(h).current = h.current
        /\ AfterRefresh(h).identified = h.identified
        /\ ClosedKind(PresetTxns) /\ q \in [Slots -> PresetTxns \cup {NoTxn}]
    BY <1>2, PresetKind DEF AfterRefresh, QueuedAll, Sound, HubsOf, RetriedKind
  <2>2. Burst \in Seq(PresetTxns) /\ QueueFree(q) >= Len(Burst)
    BY <1>2, PresetsAssumption, BurstIsTxns DEF Bursts
  <2> HIDE DEF q, after
  <2>3. FullOfCommands(q) => after = q
    BY <2>1, <2>2, QueueAssumption, NoRoomInFull DEF after
  <2>4. WaitingIds(q) \subseteq WaitingIds(after)
    BY <1>2, <2>1, BurstWaits DEF q
  <2> QED
    BY <2>1, <2>3, <2>4 DEF HeldOrFull, Held, q
<1> QED
  BY <1>1, <1>2

LEMMA AfterConfirmHolds ==
    ASSUME NEW h, Sound(PresetTxns, h), NEW c, NEW s, HeldOrFull(h, s)
    PROVE  HeldOrFull(AfterConfirm(h, c), s)
<1>1. ConfirmTxn \in PresetTxns
  BY PresetsAssumption, PresetTxnTypes DEF Commands
<1>2. ConfirmTxn.priority = 0
  BY DEF ConfirmTxn, GetTxn
<1>3. AfterConfirm(h, c) = Queued(h, ConfirmTxn) \/ AfterConfirm(h, c) = h
  BY DEF AfterConfirm, ConfirmTxn
<1> QED
  BY <1>1, <1>2, <1>3, QueuedHolds

LEMMA AfterReprobeHolds ==
    ASSUME NEW h, Sound(PresetTxns, h), NEW clock, NEW s, HeldOrFull(h, s)
    PROVE  HeldOrFull(AfterReprobe(h, clock), s)
<1>1. h.identified \in BOOLEAN
  BY DEF Sound, HubsOf
<1>2. CASE ProbeDue(h, clock)
  <2>1. ~h.identified
    BY <1>2 DEF ProbeDue
  <2>2. ~AfterReprobe(h, clock).identified
    BY <1>1, <1>2, <2>1 DEF AfterReprobe, Probed, Queued, Sound, HubsOf
  <2> QED
    BY <2>2 DEF HeldOrFull
<1> QED
  BY <1>2 DEF AfterReprobe

(***************************************************************************)
(* A retry puts the load in flight back; a drop ends it, which the hub is  *)
(* told (Unconfirmed), or gives up the device as well.                     *)
(***************************************************************************)
LEMMA RetriedHolds ==
    ASSUME NEW s, Sound(PresetTxns, hub), hub.current # NoTxn, RoomLeft,
           LoadId(s) \in Held(hub),
           Exhausted(hub) => hub.current.req # "PRESET_LOAD"
    PROVE  RetriedOrDropped(hub).identified => LoadId(s) \in Held(RetriedOrDropped(hub))
<1> DEFINE q == hub.queue
           after == RetriedOrDropped(hub)
<1>1. /\ RetriedKind(PresetTxns) /\ ClosedKind(PresetTxns)
      /\ q \in [Slots -> PresetTxns \cup {NoTxn}] /\ hub.current \in PresetTxns
  BY PresetKind DEF RetriedKind, Sound, HubsOf
<1>2. CASE Exhausted(hub)
  <2>1. Identity(hub.current) # LoadId(s)
    BY <1>2 DEF Identity, LoadId, LoadTxn, GetTxn
  <2>2. LoadId(s) \in WaitingIds(q)
    BY <2>1 DEF Held
  <2>3. after = FailureCounted(hub) \/ after = GoneOffline(FailureCounted(hub))
    BY <1>2 DEF RetriedOrDropped, Failed
  <2> DEFINE counted == FailureCounted(hub)
  <2>4. counted.queue = q /\ DOMAIN counted = DOMAIN hub /\ "identified" \in DOMAIN hub
    BY DEF FailureCounted, Rejected, Sound, HubsOf
  <2> HIDE DEF counted, q
  <2>5. ~GoneOffline(counted).identified
    BY <2>4 DEF GoneOffline
  <2> QED
    BY <2>2, <2>3, <2>4, <2>5 DEF counted, Held
<1>3. CASE ~Exhausted(hub)
  <2>1. hub.current.attempts < hub.current.max_retries
    BY <1>1, <1>3 DEF Exhausted, Again, PresetTxns, Txn
  <2>2. Again(hub) \in PresetTxns
    BY <1>1, <2>1 DEF Again, RetriedKind
  <2>3. Identity(Again(hub)) = Identity(hub.current)
    BY <1>1 DEF Again, Identity, PresetTxns, Txn
  <2>4. after.queue = Enqueue(q, Again(hub))
    BY <1>3 DEF RetriedOrDropped, Requeued, Sound, HubsOf
  <2> HIDE DEF q, after
  <2>5. ~FullOfCommands(q)
    BY RoomyNotFull DEF RoomLeft, q
  <2>6. CASE Identity(hub.current) = LoadId(s)
    <3>1. Again(hub).req = "PRESET_LOAD"
      BY <2>3, <2>6 DEF Identity, LoadId, LoadTxn, GetTxn
    <3>2. Again(hub).priority = 0
      BY <2>2, <3>1 DEF PresetTxns
    <3>3. Accepted(q, Again(hub))
      BY <1>1, <2>2, <3>2, QueueAssumption, CommandAccepted
    <3>4. Identity(Again(hub)) \in WaitingIds(after.queue)
      BY <1>1, <2>2, <2>4, <3>3, QueueAssumption, AcceptedWaits
    <3> QED
      BY <2>3, <2>6, <3>4 DEF Held, after
  <2>7. CASE Identity(hub.current) # LoadId(s)
    <3>1. LoadId(s) \in WaitingIds(q)
      BY <2>7 DEF Held, q
    <3>2. CommandWaits(q, LoadId(s))
      BY <1>1, <3>1, WaitingLoadIsCommand
    <3>3. LoadId(s) \in WaitingIds(after.queue)
      BY <1>1, <2>2, <2>4, <2>5, <3>2, QueueAssumption, EnqueueCommands
    <3> QED
      BY <3>3 DEF Held, after
  <2> QED
    BY <2>6, <2>7
<1> QED
  BY <1>2, <1>3

(***************************************************************************)
(* Sending takes one command out: a queue that was full of them still has  *)
(* no room for the one that was sent.                                      *)
(***************************************************************************)
LEMMA FullIsNotRoomy ==
    ASSUME NEW h, Sound(PresetTxns, h), FullOfCommands(h.queue)
    PROVE  ~Roomy(SentNext(h))
<1>1. CASE ~CanSend(h)
  BY <1>1 DEF SentNext, Roomy, Spare, FullOfCommands
<1>2. CASE CanSend(h)
  <2> DEFINE i == FindNext(h.queue)
             q == [h.queue EXCEPT ![i] = NoTxn]
             after == SentNext(h)
  <2>1. NextOut(h) \in PresetTxns /\ i \in Occupied(h.queue)
    BY <1>2, QueueAssumption, PresetKind, NextOutIsTxn DEF RetriedKind
  <2>2. i \in Slots
    BY <2>1 DEF Occupied
  <2>3. after.queue = q /\ after.current = h.queue[i]
    BY <1>2 DEF SentNext, Sent, NextOut, Sound, HubsOf
  <2>4. \A j \in Slots : j # i => q[j] = h.queue[j]
    BY DEF Sound, HubsOf
  <2> HIDE DEF i, q, after
  <2>5. IsCommand(after.current)
    BY <2>2, <2>3 DEF FullOfCommands
  <2>6. \A j \in Spare(after) : j = i
    BY <2>3, <2>4 DEF Spare, FullOfCommands
  <2> QED
    BY <2>5, <2>6 DEF Roomy, after
<1> QED
  BY <1>1, <1>2

(***************************************************************************)
(* One step of the rest of a pass: the load of slot s that the hub still   *)
(* confirms when the pass ends was held when it began.                     *)
(***************************************************************************)
LEMMA PassHolds ==
    ASSUME IInv, FinishPass, RoomLeft, RoomLeft', NEW s,
           hub.identified, LoadId(s) \in Held(hub),
           confirm' = s, s # Nothing
    PROVE  hub'.identified => LoadId(s) \in Held(hub')
<1>1. RetriedKind(PresetTxns) /\ ClosedKind(PresetTxns) /\ ProbeTxn \in PresetTxns
  BY PresetsAssumption, PresetKind, PresetTxnTypes DEF RetriedKind, Commands
<1>2. PICK clock, timed, probed, c, produced : PassIs(clock, timed, probed, c, produced)
  BY PassIsComposed
<1> DEFINE refreshed == AfterRefresh(probed)
<1>3. Sound(PresetTxns, hub)
  BY DEF IInv
<1>4. Sound(PresetTxns, timed)
  BY <1>1, <1>2, <1>3, QueueAssumption, TransportAssumption, AfterTimersSound DEF PassIs
<1>5. Sound(PresetTxns, probed)
  BY <1>1, <1>2, <1>4, QueueAssumption, AfterReprobeSound DEF PassIs
<1>6. Sound(PresetTxns, refreshed)
  BY <1>5, PresetsAssumption, AfterRefreshSound
<1>7. Sound(PresetTxns, produced)
  BY <1>2, <1>6, PresetsAssumption, AfterConfirmSound DEF PassIs
<1>8. HeldOrFull(timed, s)
  <2>1. CASE hub.hub_state = "AWAIT_RESP" /\ "timeout" \in due
    <3>1. timed = RetriedOrDropped(hub)
      BY <1>2, <2>1 DEF PassIs, AfterTimers
    <3>2. hub.current # NoTxn
      BY <1>3, <2>1 DEF Sound, OneInFlight
    <3>3. Exhausted(hub) => hub.current.req # "PRESET_LOAD"
      BY <1>2, <2>1, <3>2 DEF PassIs, DropsOnTimeout, Unconfirmed, StillAwaited
    <3> QED
      BY <1>3, <3>1, <3>2, <3>3, RetriedHolds DEF HeldOrFull
  <2>2. CASE hub.hub_state = "BACKOFF" /\ "backoff" \in due
    <3>1. timed = [hub EXCEPT !.hub_state = "IDLE"]
      BY <1>2, <2>2 DEF PassIs, AfterTimers
    <3>2. timed.queue = hub.queue /\ timed.current = hub.current
      BY <1>3, <3>1 DEF Sound, HubsOf
    <3> QED
      BY <3>2 DEF HeldOrFull, Held
  <2>3. CASE /\ ~(hub.hub_state = "AWAIT_RESP" /\ "timeout" \in due)
             /\ ~(hub.hub_state = "BACKOFF" /\ "backoff" \in due)
    <3>1. timed = hub
      BY <1>2, <2>3 DEF PassIs, AfterTimers
    <3> QED
      BY <3>1 DEF HeldOrFull
  <2> QED
    BY <2>1, <2>2, <2>3
<1>9. HeldOrFull(probed, s)
  BY <1>2, <1>4, <1>8, AfterReprobeHolds DEF PassIs
<1>10. HeldOrFull(refreshed, s)
  BY <1>5, <1>9, AfterRefreshHolds
<1>11. HeldOrFull(produced, s)
  BY <1>2, <1>6, <1>10, AfterConfirmHolds DEF PassIs
<1>12. hub' = SentNext(produced)
  BY <1>2 DEF PassIs
<1>13. ~FullOfCommands(produced.queue)
  BY <1>7, <1>12, FullIsNotRoomy DEF RoomLeft, Roomy, Spare
<1>14. hub'.identified = produced.identified
  BY <1>7, <1>12 DEF SentNext, Sent, Sound, HubsOf
<1>15. LoadId(s) \in Held(produced) => LoadId(s) \in Held(hub')
  <2>1. CASE ~CanSend(produced)
    BY <1>12, <2>1 DEF SentNext
  <2>2. CASE CanSend(produced)
    <3>1. produced.current = NoTxn
      BY <1>7, <2>2 DEF CanSend, Sound, OneInFlight
    <3>2. WaitingIds(produced.queue) \subseteq Held(SentNext(produced))
      BY <1>1, <1>7, QueueAssumption, SentNextHolds
    <3> QED
      BY <1>12, <3>1, <3>2 DEF Held
  <2> QED
    BY <2>1, <2>2
<1> QED
  BY <1>11, <1>13, <1>14, <1>15 DEF HeldOrFull

(***************************************************************************)
(* The load of the slot that is polled for is held, or was accepted: the   *)
(* property, in the terms of the lemmas.                                   *)
(***************************************************************************)
LEMMA ConfirmsOwnLoadIs ==
    ConfirmsOwnLoad <=>
      (hub.identified /\ confirm # Nothing => LoadId(confirm) \in Held(hub) \/ confirm \in started)
BY DEF ConfirmsOwnLoad, LoadId, Held

LEMMA AnswersConfirm ==
    ASSUME IInv, Answers, RoomLeft, ConfirmsOwnLoad,
           hub'.identified, confirm' # Nothing
    PROVE  LoadId(confirm') \in Held(hub') \/ confirm' \in started'
<1>1. /\ RetriedKind(PresetTxns) /\ ClosedKind(PresetTxns) /\ Sound(PresetTxns, hub)
      /\ hub.queue \in [Slots -> PresetTxns \cup {NoTxn}]
  BY PresetKind DEF RetriedKind, IInv, Sound, HubsOf
<1>2. hub.current # NoTxn /\ hub.current \in PresetTxns
  <2>1. asked
    BY DEF Answers, PlatformRead, ActiveRead, NameRead, LoadAccepted, LoadDenied,
           NothingRead, Refused, TryLater, AnsweredOK, Answered
  <2> QED
    BY <1>1, <2>1 DEF IInv, Sound, HubsOf
<1>3. /\ Succeeded(hub).queue = hub.queue /\ Succeeded(hub).current = NoTxn
      /\ Succeeded(hub).identified = hub.identified
      /\ Rejected(hub).queue = hub.queue /\ Rejected(hub).current = NoTxn
      /\ Rejected(hub).identified = hub.identified
  BY <1>1 DEF Succeeded, Rejected, Sound, HubsOf
<1>4. Sound(PresetTxns, Succeeded(hub))
  BY <1>1, TransportAssumption, RejectedSound
<1> HIDE DEF Succeeded, Rejected
<1>5. hub.identified /\ confirm # Nothing =>
        LoadId(confirm) \in Held(hub) \/ confirm \in started
  BY ConfirmsOwnLoadIs
<1>6. /\ hub.current.req # "PRESET_LOAD" => Identity(hub.current) # LoadId(confirm)
      /\ Identity(hub.current) = LoadId(confirm) => hub.current.wvalue = confirm
  BY DEF Identity, LoadId, LoadTxn, GetTxn
<1>7. /\ LoadId(confirm) \in Held(hub) /\ hub.current.req # "PRESET_LOAD" =>
            LoadId(confirm) \in WaitingIds(hub.queue)
      /\ LoadId(confirm) \in Held(hub) =>
            \/ LoadId(confirm) \in WaitingIds(hub.queue)
            \/ hub.current.wvalue = confirm
  BY <1>2, <1>6 DEF Held
<1>8. ASSUME hub'.queue = hub.queue, hub'.identified = hub.identified,
             hub.current.req # "PRESET_LOAD", confirm' = confirm, started' = started
      PROVE  LoadId(confirm') \in Held(hub') \/ confirm' \in started'
  BY <1>5, <1>7, <1>8 DEF Held
<1>9. CASE PlatformRead \/ LoadDenied
  BY <1>9 DEF PlatformRead, LoadDenied
<1>10. CASE ActiveRead
  <2>1. hub.current.req # "PRESET_LOAD" /\ started' = started
    BY <1>10 DEF ActiveRead, AnsweredOK, ActiveReads
  <2>2. PICK slot \in {dev_slot, OutOfRange} :
           /\ InRange(slot)
           /\ confirm' = IF confirm = slot THEN Nothing ELSE confirm
           /\ \/ hub' = Queued(Succeeded(hub), NameTxn(slot))
              \/ hub' = Succeeded(hub)
    BY <1>10 DEF ActiveRead
  <2>3. confirm' = confirm
    BY <2>2
  <2>4. CASE hub' = Succeeded(hub)
    BY <1>3, <1>8, <2>1, <2>3, <2>4
  <2>5. CASE hub' = Queued(Succeeded(hub), NameTxn(slot))
    <3>1. NameTxn(slot) \in PresetTxns
      BY <2>2, PresetsAssumption, PresetTxnTypes DEF InRange
    <3>2. hub'.identified = hub.identified
      BY <1>3, <1>4, <2>5 DEF Queued, Sound, HubsOf
    <3>3. ~FullOfCommands(Succeeded(hub).queue)
      BY <1>3, RoomyNotFull DEF RoomLeft
    <3>4. LoadId(confirm) \in Held(Succeeded(hub)) => LoadId(confirm) \in Held(hub')
      BY <1>4, <2>5, <3>1, <3>3, QueuedHolds
    <3>5. LoadId(confirm) \in WaitingIds(hub.queue) => LoadId(confirm) \in Held(Succeeded(hub))
      BY <1>3 DEF Held
    <3> QED
      BY <1>5, <1>7, <2>1, <2>3, <3>2, <3>4, <3>5
  <2> QED
    BY <2>2, <2>4, <2>5
<1>11. CASE NameRead
  <2>1. hub.current.req # "PRESET_LOAD" /\ hub' = Succeeded(hub)
    BY <1>11 DEF NameRead, AnsweredOK
  <2> QED
    BY <1>3, <1>8, <1>11, <2>1 DEF NameRead, confirmVars
<1>12. CASE NothingRead
  <2>1. hub.current.req # "PRESET_LOAD" /\ hub' = Succeeded(hub)
    BY <1>12 DEF NothingRead
  <2> QED
    BY <1>3, <1>8, <1>12, <2>1 DEF NothingRead, confirmVars
<1>13. CASE LoadAccepted
  <2>1. hub' = Succeeded(hub) /\ confirm' = confirm /\ started' = started \cup {hub.current.wvalue}
    BY <1>13 DEF LoadAccepted, confirmVars
  <2> QED
    BY <1>3, <1>5, <1>7, <2>1 DEF Held
<1>14. CASE Refused
  <2>1. hub' = Rejected(hub) /\ confirm' = Unconfirmed /\ started' = started
    BY <1>14 DEF Refused
  <2>2. hub.current.req # "PRESET_LOAD" /\ confirm' = confirm
    BY <1>2, <2>1 DEF Unconfirmed
  <2> QED
    BY <1>3, <1>8, <2>1, <2>2
<1>15. CASE TryLater
  <2>1. /\ hub' = RetriedOrDropped(hub) /\ started' = started
        /\ confirm' = IF Exhausted(hub) THEN Unconfirmed ELSE confirm
    BY <1>15 DEF TryLater
  <2>2. confirm' = confirm /\ (Exhausted(hub) => hub.current.req # "PRESET_LOAD")
    BY <1>2, <2>1 DEF Unconfirmed
  <2>3. hub.identified
    <3>1. RetriedOrDropped(hub).identified => hub.identified
      BY <1>1 DEF RetriedOrDropped, Requeued, Failed, FailureCounted, GoneOffline, Rejected,
                  Sound, HubsOf
    <3> QED
      BY <2>1, <3>1
  <2>4. LoadId(confirm) \in Held(hub) => LoadId(confirm) \in Held(hub')
    BY <1>1, <1>2, <2>1, <2>2, RetriedHolds
  <2> QED
    BY <1>5, <2>1, <2>2, <2>3, <2>4
<1> QED
  BY <1>9, <1>10, <1>11, <1>12, <1>13, <1>14, <1>15 DEF Answers

(***************************************************************************)
(* Every part of the rest of a pass keeps the hub sound, and none takes    *)
(* the device for identified that was not.                                 *)
(***************************************************************************)
LEMMA PassIdentified ==
    ASSUME IInv, NEW clock, NEW timed, NEW probed, NEW c, NEW produced,
           PassIs(clock, timed, probed, c, produced)
    PROVE  /\ Sound(PresetTxns, timed) /\ Sound(PresetTxns, probed)
           /\ Sound(PresetTxns, AfterRefresh(probed)) /\ Sound(PresetTxns, produced)
           /\ timed.identified => hub.identified
           /\ probed.identified = timed.identified
           /\ hub'.identified = probed.identified
<1>1. RetriedKind(PresetTxns) /\ ClosedKind(PresetTxns) /\ ProbeTxn \in PresetTxns
  BY PresetsAssumption, PresetKind, PresetTxnTypes DEF RetriedKind, Commands
<1>2. Sound(PresetTxns, hub)
  BY DEF IInv
<1>3. Sound(PresetTxns, timed)
  BY <1>1, <1>2, QueueAssumption, TransportAssumption, AfterTimersSound DEF PassIs
<1>4. Sound(PresetTxns, probed)
  BY <1>1, <1>3, QueueAssumption, AfterReprobeSound DEF PassIs
<1>5. Sound(PresetTxns, AfterRefresh(probed))
  BY <1>4, PresetsAssumption, AfterRefreshSound
<1>6. Sound(PresetTxns, produced)
  BY <1>5, PresetsAssumption, AfterConfirmSound DEF PassIs
<1>7. timed.identified => hub.identified
  BY <1>2 DEF PassIs, AfterTimers, RetriedOrDropped, Requeued, Failed, FailureCounted,
              GoneOffline, Rejected, Sound, HubsOf
<1>8. probed.identified = timed.identified
  BY <1>3 DEF PassIs, AfterReprobe, Probed, Queued, Sound, HubsOf
<1>9. AfterRefresh(probed).identified = probed.identified
  BY <1>4 DEF AfterRefresh, QueuedAll, Sound, HubsOf
<1>10. produced.identified = AfterRefresh(probed).identified
  BY <1>5 DEF PassIs, AfterConfirm, Queued, Sound, HubsOf
<1>11. hub'.identified = produced.identified
  BY <1>6 DEF PassIs, SentNext, Sent, Sound, HubsOf
<1> QED
  BY <1>3, <1>4, <1>5, <1>6, <1>7, <1>8, <1>9, <1>10, <1>11

LEMMA PassConfirms ==
    ASSUME IInv, FinishPass, RoomLeft, RoomLeft', ConfirmsOwnLoad,
           hub'.identified, confirm' # Nothing
    PROVE  LoadId(confirm') \in Held(hub') \/ confirm' \in started'
<1>1. PICK clock, timed, probed, c, produced : PassIs(clock, timed, probed, c, produced)
  BY PassIsComposed
<1>2. confirm' = confirm /\ started' = started
  BY <1>1 DEF PassIs, StillAwaited, Unconfirmed, FinishPass
<1>3. hub.identified
  BY <1>1, PassIdentified
<1>4. LoadId(confirm) \in Held(hub) \/ confirm \in started
  BY <1>2, <1>3, ConfirmsOwnLoadIs
<1>5. LoadId(confirm) \in Held(hub) => LoadId(confirm) \in Held(hub')
  <2>1. confirm # Nothing /\ confirm' = confirm
    BY <1>2
  <2> QED
    BY <1>3, <2>1, PassHolds
<1> QED
  BY <1>2, <1>4, <1>5

(***************************************************************************)
(* The hub never polls for a load it has lost, whatever is retried,        *)
(* dropped, refused or requested meanwhile, as long as the queue has room  *)
(* for the commands there are: nothing but another command evicts a load,  *)
(* and only from a queue of commands alone (enqueue_()).                   *)
(***************************************************************************)
THEOREM ConfirmsOwnLoadHolds == Spec /\ []RoomLeft => []ConfirmsOwnLoad
<1>1. Init => ConfirmsOwnLoad
  BY DEF Init, ConfirmsOwnLoad
<1>2. ASSUME IInv, RoomLeft, RoomLeft', ConfirmsOwnLoad, [Next]_vars
      PROVE  ConfirmsOwnLoad'
  <2> SUFFICES ASSUME hub'.identified, confirm' # Nothing
               PROVE  LoadId(confirm') \in Held(hub') \/ confirm' \in started'
    BY DEF ConfirmsOwnLoad, LoadId, Held
  <2>1. ASSUME UNCHANGED <<hub, confirm, started>>
        PROVE  LoadId(confirm') \in Held(hub') \/ confirm' \in started'
    BY <1>2, <2>1, ConfirmsOwnLoadIs DEF Held
  <2>2. CASE UNCHANGED vars
    BY <2>1, <2>2 DEF vars, confirmVars
  <2>3. CASE Answers
    BY <1>2, <2>3, AnswersConfirm
  <2>4. CASE FinishPass
    BY <1>2, <2>4, PassConfirms
  <2>5. ASSUME NEW slot \in PresetSlots, SetPresetSlot(slot)
        PROVE  LoadId(confirm') \in Held(hub') \/ confirm' \in started'
    <3>1. /\ ClosedKind(PresetTxns) /\ LoadTxn(slot) \in PresetTxns
          /\ hub.queue \in [Slots -> PresetTxns \cup {NoTxn}]
      BY <1>2, PresetsAssumption, PresetKind, PresetTxnTypes
      DEF RetriedKind, IInv, Sound, HubsOf, Commands
    <3>2. LoadTxn(slot).priority = 0
      BY DEF LoadTxn, GetTxn
    <3>3. Accepted(hub.queue, LoadTxn(slot))
      BY <3>1, <3>2, QueueAssumption, CommandAccepted
    <3>4. LoadId(slot) \in WaitingIds(Enqueue(hub.queue, LoadTxn(slot)))
      BY <3>1, <3>3, QueueAssumption, AcceptedWaits DEF LoadId
    <3>5. hub'.queue = Enqueue(hub.queue, LoadTxn(slot)) /\ confirm' = slot
      BY <1>2, <2>5, <3>3 DEF SetPresetSlot, Queued, IInv, Sound, HubsOf
    <3> QED
      BY <3>4, <3>5 DEF Held
  <2>6. CASE UserCall
    BY <2>1, <2>5, <2>6 DEF UserCall, RequestRefresh, confirmVars
  <2>7. CASE Device \/ Clock
    BY <2>1, <2>7 DEF Device, Lose, LoadEnds, OthersLoad, DeviceStep, Clock, Tick, confirmVars
  <2> QED
    BY <1>2, <2>2, <2>3, <2>4, <2>6, <2>7 DEF Next
<1>3. IInv /\ RoomLeft /\ RoomLeft' /\ ConfirmsOwnLoad /\ [Next]_vars => ConfirmsOwnLoad'
  BY <1>2
<1> QED
  BY <1>1, <1>3, IInvAlways, PTL DEF Spec

(***************************************************************************)
(* There is room whenever the queue has two entries more than there are    *)
(* different commands: those that wait are all different (enqueue_()       *)
(* coalesces), whatever is retried.                                        *)
(***************************************************************************)
LEMMA RoomForCommands ==
    ASSUME IsFiniteSet(CommandIds), Cardinality(CommandIds) + 2 <= QueueDepth, IInv
    PROVE  RoomLeft
<1> DEFINE taken == {i \in Slots : IsCommand(hub.queue[i])}
           id == [i \in taken |-> Identity(hub.queue[i])]
           spare == Spare(hub)
<1>1. hub.queue \in [Slots -> PresetTxns \cup {NoTxn}] /\ NoDuplicates(hub.queue)
  BY DEF IInv, Sound, HubsOf
<1>2. \A i \in taken : id[i] \in CommandIds
  BY <1>1 DEF IsCommand, PresetTxns
<1>3. id \in Injection(taken, CommandIds)
  <2>1. id \in [taken -> CommandIds]
    BY <1>2
  <2>2. \A i, j \in taken : id[i] = id[j] => i = j
    BY <1>1 DEF NoDuplicates, Occupied, IsCommand
  <2> HIDE DEF id, taken
  <2> QED
    BY <2>1, <2>2 DEF Injection, IsInjective
<1>4. IsFiniteSet(taken) /\ Cardinality(taken) <= Cardinality(CommandIds)
  <2> HIDE DEF id, taken
  <2> QED
    BY <1>3, FS_Injection
<1>5. IsFiniteSet(Slots) /\ Cardinality(Slots) = QueueDepth
  <2>1. 1 \in Int /\ QueueDepth \in Int /\ QueueDepth >= 1
    BY QueueAssumption DEF QueueAssumption
  <2> QED
    BY <2>1, FS_Interval DEF Slots
<1>6. spare = Slots \ taken /\ Slots \cap taken = taken
  BY DEF Spare
<1> HIDE DEF taken, spare
<1>7. IsFiniteSet(spare) /\ Cardinality(spare) = QueueDepth - Cardinality(taken)
  BY <1>5, <1>6, FS_Difference
<1>8. Cardinality(spare) >= 2
  <2>1. /\ Cardinality(taken) \in Nat /\ Cardinality(CommandIds) \in Nat
        /\ QueueDepth \in Nat
    BY <1>4, FS_CardinalityType, QueueAssumption DEF QueueAssumption
  <2> QED
    BY <1>4, <1>7, <2>1
<1>9. PICK i \in spare : TRUE
  BY <1>8, FS_EmptySet
<1>10. PICK j \in spare : j # i
  <2> SUFFICES ASSUME \A j \in spare : j = i PROVE FALSE
    OBVIOUS
  <2>1. spare = {i}
    OBVIOUS
  <2>2. Cardinality(spare) = 1
    BY <2>1, FS_Singleton
  <2> QED
    BY <1>8, <2>2
<1> QED
  BY <1>9, <1>10 DEF RoomLeft, Roomy, spare

(***************************************************************************)
(* In such a queue the hub never polls for a load it has lost.             *)
(***************************************************************************)
THEOREM ConfirmsWithRoom ==
    ASSUME IsFiniteSet(CommandIds), Cardinality(CommandIds) + 2 <= QueueDepth
    PROVE  Spec => []ConfirmsOwnLoad
<1>1. IInv => RoomLeft
  BY RoomForCommands
<1> QED
  BY <1>1, IInvAlways, ConfirmsOwnLoadHolds, PTL

-----------------------------------------------------------------------------

(***************************************************************************)
(* A slot of the queue is free between the steps: a retry of a reading is  *)
(* taken, and nothing that waits is evicted for one.                       *)
(***************************************************************************)
FreeLeft == Free(hub.queue) # {}

(***************************************************************************)
(* A reading of the slot is held, which shows in the identities, and those *)
(* a retry and a coalescing enqueue_() keep.                               *)
(***************************************************************************)
HoldsReading(h) == \E id \in Held(h) : id[1] \in ActiveReads

LEMMA ReadingHeld ==
    ASSUME NEW h
    PROVE  HoldsReading(h) <=>
             \E t \in Waiting(h.queue) \cup ({h.current} \ {NoTxn}) : t.req \in ActiveReads
<1> DEFINE held == Waiting(h.queue) \cup ({h.current} \ {NoTxn})
<1>1. Held(h) = {Identity(t) : t \in held}
  BY DEF Held, WaitingIds
<1>2. \A t : Identity(t)[1] = t.req
  BY DEF Identity
<1> HIDE DEF held
<1>3. HoldsReading(h) <=> \E t \in held : t.req \in ActiveReads
  BY <1>1, <1>2 DEF HoldsReading
<1> QED
  BY <1>3 DEF held

LEMMA SlotHasRemedyIs ==
    /\ SlotHasRemedy <=>
         (active # dev_slot =>
            refresh_pending \/ ~hub.identified \/ unread \/ HoldsReading(hub))
    /\ SlotHasRemedy' <=>
         (active' # dev_slot' =>
            refresh_pending' \/ ~hub'.identified \/ unread' \/ HoldsReading(hub'))
BY ReadingHeld DEF SlotHasRemedy

LEMMA QueuedKeepsReading ==
    ASSUME NEW h, Sound(PresetTxns, h), NEW t \in PresetTxns, Free(h.queue) # {}, HoldsReading(h)
    PROVE  HoldsReading(Queued(h, t))
<1>1. /\ ClosedKind(PresetTxns) /\ h.queue \in [Slots -> PresetTxns \cup {NoTxn}]
      /\ Queued(h, t).queue = Enqueue(h.queue, t) /\ Queued(h, t).current = h.current
  BY PresetKind DEF RetriedKind, Queued, Sound, HubsOf
<1>2. WaitingIds(h.queue) \subseteq WaitingIds(Enqueue(h.queue, t))
  BY <1>1, QueueAssumption, EnqueueWithRoom
<1> QED
  BY <1>1, <1>2 DEF HoldsReading, Held

LEMMA SentNextKeepsReading ==
    ASSUME NEW h, Sound(PresetTxns, h), HoldsReading(h)
    PROVE  HoldsReading(SentNext(h))
<1>1. CASE ~CanSend(h)
  BY <1>1 DEF SentNext
<1>2. CASE CanSend(h)
  <2>1. h.current = NoTxn
    BY <1>2 DEF CanSend, Sound, OneInFlight
  <2>2. WaitingIds(h.queue) \subseteq Held(SentNext(h))
    BY QueueAssumption, PresetKind, SentNextHolds DEF RetriedKind
  <2> QED
    BY <2>1, <2>2 DEF HoldsReading, Held
<1> QED
  BY <1>1, <1>2

(***************************************************************************)
(* retry_or_drop_() keeps every reading but the one it drops, or gives up  *)
(* on the link.                                                            *)
(***************************************************************************)
LEMMA RetriedKeepsReading ==
    ASSUME Sound(PresetTxns, hub), hub.current # NoTxn, FreeLeft, HoldsReading(hub)
    PROVE  \/ HoldsReading(RetriedOrDropped(hub))
           \/ ~RetriedOrDropped(hub).identified
           \/ Exhausted(hub) /\ Unread
<1> DEFINE q == hub.queue
           after == RetriedOrDropped(hub)
<1>1. /\ RetriedKind(PresetTxns) /\ ClosedKind(PresetTxns)
      /\ q \in [Slots -> PresetTxns \cup {NoTxn}] /\ hub.current \in PresetTxns
  BY PresetKind DEF RetriedKind, Sound, HubsOf
<1>2. Identity(hub.current)[1] = hub.current.req
  BY DEF Identity
<1>3. CASE Exhausted(hub) /\ ~Unread
  <2>1. hub.current.req \notin ActiveReads
    BY <1>3 DEF Unread
  <2>2. \E id \in WaitingIds(q) : id[1] \in ActiveReads
    BY <1>2, <2>1 DEF HoldsReading, Held
  <2> DEFINE counted == FailureCounted(hub)
  <2>3. after = counted \/ after = GoneOffline(counted)
    BY <1>3 DEF RetriedOrDropped, Failed
  <2>4. counted.queue = q /\ DOMAIN counted = DOMAIN hub /\ "identified" \in DOMAIN hub
    BY DEF FailureCounted, Rejected, Sound, HubsOf
  <2> HIDE DEF counted, q, after
  <2>5. ~GoneOffline(counted).identified
    BY <2>4 DEF GoneOffline
  <2>6. ~after.identified \/ after.queue = q
    BY <2>3, <2>4, <2>5
  <2> QED
    BY <2>2, <2>6 DEF HoldsReading, Held, after
<1>4. CASE ~Exhausted(hub)
  <2>1. hub.current.attempts < hub.current.max_retries
    BY <1>1, <1>4 DEF Exhausted, Again, PresetTxns, Txn
  <2>2. Again(hub) \in PresetTxns
    BY <1>1, <2>1 DEF Again, RetriedKind
  <2>3. Identity(Again(hub)) = Identity(hub.current)
    BY <1>1 DEF Again, Identity, PresetTxns, Txn
  <2>4. after.queue = Enqueue(q, Again(hub))
    BY <1>4 DEF RetriedOrDropped, Requeued, Sound, HubsOf
  <2> HIDE DEF after
  <2>5. WaitingIds(q) \cup {Identity(Again(hub))} \subseteq WaitingIds(after.queue)
    BY <1>1, <2>2, <2>4, QueueAssumption, EnqueueWithRoom DEF FreeLeft
  <2> QED
    BY <2>3, <2>5 DEF HoldsReading, Held, after
<1> QED
  BY <1>3, <1>4

LEMMA AfterConfirmReads ==
    ASSUME NEW h, Sound(PresetTxns, h), NEW c, HoldsReading(h)
    PROVE  HoldsReading(AfterConfirm(h, c))
<1>1. /\ ConfirmTxn \in PresetTxns /\ ConfirmTxn.priority = 0
      /\ ClosedKind(PresetTxns) /\ h.queue \in [Slots -> PresetTxns \cup {NoTxn}]
  BY PresetsAssumption, PresetTxnTypes, PresetKind
  DEF Commands, RetriedKind, Sound, HubsOf, ConfirmTxn, GetTxn
<1>2. Identity(ConfirmTxn)[1] \in ActiveReads
  BY DEF Identity, ConfirmTxn, GetTxn, ActiveReads
<1>3. Accepted(h.queue, ConfirmTxn)
  BY <1>1, QueueAssumption, CommandAccepted
<1>4. Identity(ConfirmTxn) \in WaitingIds(Enqueue(h.queue, ConfirmTxn))
  BY <1>1, <1>3, QueueAssumption, AcceptedWaits
<1>5. Queued(h, ConfirmTxn).queue = Enqueue(h.queue, ConfirmTxn)
  BY DEF Queued, Sound, HubsOf
<1>6. HoldsReading(Queued(h, ConfirmTxn))
  BY <1>2, <1>4, <1>5 DEF HoldsReading, Held
<1>7. AfterConfirm(h, c) = Queued(h, ConfirmTxn) \/ AfterConfirm(h, c) = h
  BY DEF AfterConfirm, ConfirmTxn
<1> QED
  BY <1>6, <1>7

(***************************************************************************)
(* The burst reads the slot, as loop() has it.                             *)
(***************************************************************************)
BurstReadsSlot == \E i \in DOMAIN BurstReads : BurstReads[i] \in ActiveReads

LEMMA AfterRefreshReads ==
    ASSUME BurstReadsSlot, NEW h, Sound(PresetTxns, h), Bursts(h) \/ HoldsReading(h)
    PROVE  HoldsReading(AfterRefresh(h))
<1>1. CASE ~Bursts(h)
  BY <1>1 DEF AfterRefresh
<1>2. CASE Bursts(h)
  <2>1. PICK i \in DOMAIN BurstReads : BurstReads[i] \in ActiveReads
    BY DEF BurstReadsSlot
  <2>2. i \in DOMAIN Burst /\ Identity(Burst[i])[1] = BurstReads[i]
    BY DEF Burst, Identity, GetTxn
  <2>3. Identity(Burst[i]) \in WaitingIds(AfterRefresh(h).queue)
    BY <1>2, <2>2, BurstWaits
  <2> QED
    BY <2>1, <2>2, <2>3 DEF HoldsReading, Held
<1> QED
  BY <1>1, <1>2

(***************************************************************************)
(* The rest of a pass: a refresh that is cleared has become a burst, and   *)
(* nothing but the drop of a reading loses one.                            *)
(***************************************************************************)
LEMMA PassReads ==
    ASSUME BurstReadsSlot, IInv, FinishPass, FreeLeft, SlotHasRemedy
    PROVE  SlotHasRemedy'
<1> SUFFICES ASSUME active # dev_slot, ~refresh_pending', hub'.identified, ~unread'
             PROVE  HoldsReading(hub')
  BY SlotHasRemedyIs DEF FinishPass, devVars
<1>1. PICK clock, timed, probed, c, produced : PassIs(clock, timed, probed, c, produced)
  BY PassIsComposed
<1>2. /\ Sound(PresetTxns, probed) /\ Sound(PresetTxns, AfterRefresh(probed))
      /\ Sound(PresetTxns, produced) /\ Sound(PresetTxns, hub)
      /\ hub.identified /\ timed.identified /\ probed.identified
  BY <1>1, PassIdentified DEF IInv
<1>3. ~unread /\ ~(DropsOnTimeout /\ Unread)
  BY <1>1 DEF PassIs
<1>4. refresh_pending \/ HoldsReading(hub)
  BY <1>2, <1>3, SlotHasRemedyIs
<1>5. HoldsReading(hub) => HoldsReading(timed)
  <2> SUFFICES ASSUME HoldsReading(hub) PROVE HoldsReading(timed)
    OBVIOUS
  <2>1. CASE hub.hub_state = "AWAIT_RESP" /\ "timeout" \in due
    <3>1. timed = RetriedOrDropped(hub)
      BY <1>1, <2>1 DEF PassIs, AfterTimers
    <3>2. hub.current # NoTxn
      BY <1>2, <2>1 DEF Sound, OneInFlight
    <3>3. ~(Exhausted(hub) /\ Unread)
      BY <1>3, <2>1 DEF DropsOnTimeout
    <3> QED
      BY <1>2, <3>1, <3>2, <3>3, RetriedKeepsReading
  <2>2. CASE ~(hub.hub_state = "AWAIT_RESP" /\ "timeout" \in due)
    <3>1. timed = hub \/ timed = [hub EXCEPT !.hub_state = "IDLE"]
      BY <1>1, <2>2 DEF PassIs, AfterTimers
    <3>2. timed.queue = hub.queue /\ timed.current = hub.current
      BY <1>2, <3>1 DEF Sound, HubsOf
    <3> QED
      BY <3>2 DEF HoldsReading, Held
  <2> QED
    BY <2>1, <2>2
<1>6. probed = timed
  BY <1>1, <1>2 DEF PassIs, AfterReprobe, ProbeDue
<1>7. Bursts(probed) \/ HoldsReading(probed)
  BY <1>1, <1>4, <1>5, <1>6 DEF PassIs
<1>8. HoldsReading(AfterRefresh(probed))
  BY <1>2, <1>7, AfterRefreshReads
<1>9. HoldsReading(produced)
  BY <1>1, <1>2, <1>8, AfterConfirmReads DEF PassIs
<1> QED
  BY <1>1, <1>2, <1>9, SentNextKeepsReading DEF PassIs

(***************************************************************************)
(* An answer tells the slot, or leaves every reading where it is, or the   *)
(* loss of one is known.                                                   *)
(***************************************************************************)
LEMMA AnswersRead ==
    ASSUME IInv, Answers, FreeLeft, SlotHasRemedy
    PROVE  SlotHasRemedy'
<1>1. Sound(PresetTxns, hub)
  BY DEF IInv
<1>2. hub.current # NoTxn
  <2>1. asked
    BY DEF Answers, PlatformRead, ActiveRead, NameRead, LoadAccepted, LoadDenied,
           NothingRead, Refused, TryLater, AnsweredOK, Answered
  <2> QED
    BY <2>1 DEF IInv
<1>3. /\ Succeeded(hub).queue = hub.queue /\ Succeeded(hub).identified = hub.identified
      /\ Rejected(hub).queue = hub.queue /\ Rejected(hub).identified = hub.identified
  BY <1>1 DEF Succeeded, Rejected, Sound, HubsOf
<1>4. Identity(hub.current)[1] = hub.current.req
  BY DEF Identity
<1>5. SlotHasRemedy' <=>
        (active' # dev_slot' =>
           refresh_pending' \/ ~hub'.identified \/ unread' \/ HoldsReading(hub'))
  BY SlotHasRemedyIs
<1>6. active # dev_slot => refresh_pending \/ ~hub.identified \/ unread \/ HoldsReading(hub)
  BY SlotHasRemedyIs
<1>7. ASSUME ~Unread, hub'.queue = hub.queue, hub'.identified = hub.identified,
             active' = active, dev_slot' = dev_slot, refresh_pending' = refresh_pending,
             unread' = unread
      PROVE  SlotHasRemedy'
  <2>1. HoldsReading(hub) => HoldsReading(hub')
    BY <1>2, <1>4, <1>7 DEF Unread, HoldsReading, Held
  <2> QED
    BY <1>5, <1>6, <1>7, <2>1
<1>8. CASE PlatformRead
  BY <1>5, <1>8 DEF PlatformRead
<1>9. CASE ActiveRead
  <2>1. PICK slot \in {dev_slot, OutOfRange} : slot \in PresetSlots /\ active' = slot
    BY <1>9 DEF ActiveRead, InRange, Seen
  <2>2. slot = dev_slot /\ dev_slot' = dev_slot
    BY <1>9, <2>1, PresetsAssumption DEF ActiveRead, devVars, PresetsAssumption
  <2> QED
    BY <1>5, <2>1, <2>2
<1>10. CASE NameRead \/ LoadAccepted \/ LoadDenied
  <2>1. hub.current.req \notin ActiveReads
    BY <1>10 DEF NameRead, LoadAccepted, LoadDenied, AnsweredOK, ActiveReads
  <2>2. /\ hub' = Succeeded(hub) /\ active' = active /\ dev_slot' = dev_slot
        /\ refresh_pending' = refresh_pending /\ unread' = unread
    BY <1>10 DEF NameRead, LoadAccepted, LoadDenied, devVars
  <2> QED
    BY <1>3, <1>7, <2>1, <2>2 DEF Unread
<1>11. CASE NothingRead \/ Refused
  <2>1. /\ hub' = Succeeded(hub) \/ hub' = Rejected(hub)
        /\ active' = active /\ dev_slot' = dev_slot /\ refresh_pending' = refresh_pending
        /\ unread' = (unread \/ Unread)
    BY <1>11 DEF NothingRead, Refused, devVars
  <2>2. CASE Unread
    <3>1. unread'
      BY <2>1, <2>2
    <3> QED
      BY <1>5, <3>1
  <2>3. CASE ~Unread
    <3>1. unread' = unread
      <4>1. unread \in BOOLEAN
        BY DEF IInv, TypeOK
      <4> QED
        BY <2>1, <2>3, <4>1
    <3> QED
      BY <1>3, <1>7, <2>1, <2>3, <3>1
  <2> QED
    BY <2>2, <2>3
<1>12. CASE TryLater
  <2>1. /\ hub' = RetriedOrDropped(hub) /\ active' = active /\ dev_slot' = dev_slot
        /\ refresh_pending' = refresh_pending
        /\ unread' = (unread \/ (Exhausted(hub) /\ Unread))
    BY <1>12 DEF TryLater, devVars
  <2>2. hub'.identified => hub.identified
    BY <1>1, <2>1 DEF RetriedOrDropped, Requeued, Failed, FailureCounted, GoneOffline, Rejected,
                      Sound, HubsOf
  <2>3. HoldsReading(hub) => HoldsReading(hub') \/ ~hub'.identified \/ unread'
    BY <1>1, <1>2, <2>1, RetriedKeepsReading
  <2>4. unread => unread'
    BY <2>1
  <2> QED
    BY <1>5, <1>6, <2>1, <2>2, <2>3, <2>4
<1> QED
  BY <1>8, <1>9, <1>10, <1>11, <1>12 DEF Answers

(***************************************************************************)
(* The slot that is shown is never left behind: as long as it is not the   *)
(* one the device is on, a refresh, a probe or a reading of it is to come, *)
(* or one of these or a hint was lost, whoever loads what, whatever is     *)
(* retried, dropped or refused, and whichever load is being confirmed.  It *)
(* is so while a slot of the queue is free: enqueue_() evicts a reading,   *)
(* or turns away its retry, without telling anybody.                       *)
(***************************************************************************)
THEOREM SlotHasRemedyHolds ==
    ASSUME BurstReadsSlot
    PROVE  Spec /\ []FreeLeft => []SlotHasRemedy
<1>1. Init => SlotHasRemedy
  <2>1. HubAtStart.identified = FALSE /\ Probed(HubAtStart).identified = FALSE
    BY DEF HubAtStart, Probed, Queued
  <2> QED
    BY <2>1 DEF Init, SlotHasRemedy
<1>2. ASSUME IInv, FreeLeft, SlotHasRemedy, [Next]_vars
      PROVE  SlotHasRemedy'
  <2>1. SlotHasRemedy' <=>
          (active' # dev_slot' =>
             refresh_pending' \/ ~hub'.identified \/ unread' \/ HoldsReading(hub'))
    BY SlotHasRemedyIs
  <2>2. active # dev_slot => refresh_pending \/ ~hub.identified \/ unread \/ HoldsReading(hub)
    BY <1>2, SlotHasRemedyIs
  <2>3. ASSUME UNCHANGED <<hub, active, dev_slot, refresh_pending, unread>>
        PROVE  SlotHasRemedy'
    BY <2>1, <2>2, <2>3 DEF HoldsReading, Held
  <2>4. CASE UNCHANGED vars
    BY <2>3, <2>4 DEF vars, devVars
  <2>5. CASE Answers
    BY <1>2, <2>5, AnswersRead
  <2>6. CASE FinishPass
    BY <1>2, <2>6, PassReads
  <2>7. ASSUME NEW slot \in PresetSlots, SetPresetSlot(slot)
        PROVE  SlotHasRemedy'
    <3>1. LoadTxn(slot) \in PresetTxns /\ Sound(PresetTxns, hub)
      BY <1>2, PresetsAssumption, PresetTxnTypes DEF IInv, Commands
    <3>2. /\ hub' = Queued(hub, LoadTxn(slot)) /\ active' = active /\ dev_slot' = dev_slot
          /\ refresh_pending' = refresh_pending /\ unread' = unread
      BY <2>7 DEF SetPresetSlot, Call, devVars
    <3>3. HoldsReading(hub) => HoldsReading(hub')
      BY <1>2, <3>1, <3>2, QueuedKeepsReading DEF FreeLeft
    <3>4. hub'.identified = hub.identified
      BY <3>1, <3>2 DEF Queued, Sound, HubsOf
    <3> QED
      BY <2>1, <2>2, <3>2, <3>3, <3>4
  <2>8. CASE RequestRefresh
    BY <2>1, <2>8 DEF RequestRefresh
  <2>9. CASE LoadEnds \/ \E slot \in PresetSlots : OthersLoad(slot)
    <3>1. Announced /\ hub' = hub
      BY <2>9 DEF LoadEnds, OthersLoad, DeviceStep
    <3> QED
      BY <2>1, <3>1 DEF Announced
  <2>10. CASE Lose \/ Clock
    BY <2>3, <2>10 DEF Lose, DeviceStep, Clock, Tick, devVars
  <2> QED
    BY <1>2, <2>4, <2>5, <2>6, <2>7, <2>8, <2>9, <2>10 DEF Next, UserCall, Device
<1>3. IInv /\ FreeLeft /\ SlotHasRemedy /\ [Next]_vars => SlotHasRemedy'
  BY <1>2
<1> QED
  BY <1>1, <1>3, IInvAlways, PTL DEF Spec

=============================================================================
