----------------------------- MODULE HubProofs ------------------------------
(***************************************************************************)
(* The safety of Hub, and of Hub with its history variables, for every     *)
(* queue depth, set of parameters, retry budget and bound.                 *)
(***************************************************************************)
EXTENDS HubHistory, TransportProofs, SequenceTheorems

(***************************************************************************)
(* What this component puts in the queue: its retry budget is the hub's,   *)
(* and a SET carries a value of a parameter.                               *)
(***************************************************************************)
HubTxns ==
    {t \in Txn :
        /\ t.max_retries = MaxRetries
        /\ t.attempts <= MaxRetries
        /\ t.frame_type = "SET" => t.req \in Params /\ t.payload \in Values}

(***************************************************************************)
(* The inductive invariant.  TypeOK alone is not: a device step takes its  *)
(* values from the line, so what may be queued, in flight and on the line  *)
(* has to be carried along.                                                *)
(***************************************************************************)
IInv ==
    /\ TypeOK
    /\ Sound(HubTxns, hub)
    /\ line \in Seq(HubTxns)

-----------------------------------------------------------------------------

(***************************************************************************)
(* Coalescing and retrying do not leave HubTxns.                           *)
(***************************************************************************)
LEMMA HubKind ==
    ASSUME HubAssumption
    PROVE  RetriedKind(HubTxns)
<1>1. HubTxns \subseteq Txn
  BY DEF HubTxns
<1>2. ASSUME NEW t \in HubTxns, NEW n \in Nat, n <= MaxRetries
      PROVE  [t EXCEPT !.attempts = n] \in HubTxns
  BY <1>2 DEF HubTxns, Txn
<1>3. ASSUME NEW a \in HubTxns, NEW b \in HubTxns
      PROVE  Coalesced(a, b) \in HubTxns
  <2>1. /\ a.attempts \in Nat /\ a.attempts <= MaxRetries
        /\ b.attempts \in Nat /\ b.attempts <= MaxRetries
    BY DEF HubTxns, Txn
  <2>2. Max({a.attempts, b.attempts}) \in {a.attempts, b.attempts}
    BY <2>1, MaxOfTwo
  <2> DEFINE n == Max({a.attempts, b.attempts})
  <2>3. n \in Nat /\ n <= MaxRetries
    BY <2>1, <2>2
  <2>4. [b EXCEPT !.attempts = n] \in HubTxns
    <3> HIDE DEF n
    <3> QED
      BY <2>3, <1>2
  <2> QED
    BY <2>4 DEF Coalesced
<1>4. ASSUME NEW t \in HubTxns, t.attempts < t.max_retries
      PROVE  [t EXCEPT !.attempts = @ + 1] \in HubTxns
  <2>1. t.attempts \in Nat /\ t.max_retries = MaxRetries /\ MaxRetries \in Nat
    BY DEF HubTxns, Txn, HubAssumption
  <2>2. t.attempts + 1 \in Nat /\ t.attempts + 1 <= MaxRetries
    BY <1>4, <2>1
  <2> QED
    BY <2>2, <1>2
<1> QED
  BY <1>1, <1>3, <1>4 DEF RetriedKind, ClosedKind

LEMMA HubTxnTypes ==
    ASSUME HubAssumption
    PROVE  /\ \A req \in Reqs, p \in Priorities : GetTxn(req, p) \in HubTxns
           /\ \A req \in Params, v \in Values : SetTxn(req, v) \in HubTxns
           /\ ProbeTxn \in HubTxns
<1>1. \A req \in Reqs, p \in Priorities : GetTxn(req, p) \in HubTxns
  BY DEF HubAssumption, GetTxn, HubTxns, Txn
<1>2. \A req \in Params, v \in Values : SetTxn(req, v) \in HubTxns
  BY DEF HubAssumption, SetTxn, HubTxns, Txn, Priorities
<1>3. ProbeTxn \in HubTxns
  BY <1>1 DEF HubAssumption, Priorities
<1> QED
  BY <1>1, <1>2, <1>3

LEMMA SoundIsTyped ==
    ASSUME NEW h, Sound(HubTxns, h)
    PROVE  h \in Hubs
<1>1. HubTxns \subseteq Txn
  BY DEF HubTxns
<1> QED
  BY <1>1 DEF Sound, HubsOf, Hubs, Queues

(***************************************************************************)
(* Every read of a burst, and of the probe chain, is a read of this        *)
(* component.                                                              *)
(***************************************************************************)
LEMMA BurstType ==
    ASSUME HubAssumption
    PROVE  /\ Burst \in Seq(HubTxns \cup {NoTxn})
           /\ [i \in DOMAIN ProbeReads |-> GetTxn(ProbeReads[i], 0)] \in Seq(HubTxns \cup {NoTxn})
<1>1. AllReads \in Seq(Params)
  BY DEF AllReads, HubAssumption
<1>2. \A i \in DOMAIN AllReads : GetTxn(AllReads[i], 1) \in HubTxns
  BY <1>1, HubTxnTypes DEF HubAssumption, Priorities
<1>3. Burst \in Seq(HubTxns \cup {NoTxn})
  <2>1. \A i \in DOMAIN AllReads : Burst[i] \in HubTxns \cup {NoTxn}
    BY <1>2 DEF Burst
  <2>2. DOMAIN AllReads = 1 .. Len(AllReads) /\ Len(AllReads) \in Nat
    BY <1>1
  <2>3. Burst = [i \in 1 .. Len(AllReads) |-> Burst[i]]
    BY <2>2 DEF Burst
  <2> QED
    BY <2>1, <2>2, <2>3
<1>4. ProbeReads \in Seq(Reqs) /\ DOMAIN ProbeReads = 1 .. Len(ProbeReads)
  BY DEF HubAssumption
<1>5. \A i \in DOMAIN ProbeReads : GetTxn(ProbeReads[i], 0) \in HubTxns
  BY <1>4, HubTxnTypes DEF Priorities
<1> QED
  BY <1>3, <1>4, <1>5

-----------------------------------------------------------------------------

LEMMA MarksToggles ==
    ASSUME NEW status
    PROVE  MarkUnsupported(status) \subseteq Toggles
BY DEF MarkUnsupported

LEMMA InitIInv == Init => IInv
<1> SUFFICES ASSUME Init PROVE IInv
  OBVIOUS
<1>1. Sound(HubTxns, HubAtStart) /\ HubAtStart.current = NoTxn
  BY TransportAssumption, EmptyQueueSound
  DEF HubAtStart, Sound, HubsOf, HubStates, OneInFlight, TransportAssumption
<1>2. ClosedKind(HubTxns) /\ ProbeTxn \in HubTxns
  BY HubAssumption, HubKind, HubTxnTypes DEF RetriedKind
<1>3. Sound(HubTxns, hub)
  BY <1>1, <1>2, QueueAssumption, ProbedSound DEF Init
<1>4. hub \in Hubs
  BY <1>3, SoundIsTyped
<1> QED
  <2>1. line \in Seq(Txn) /\ line \in Seq(HubTxns) /\ rx \in Seq(Frames)
    BY DEF Init
  <2>2. /\ calls \in 0 .. MaxCalls /\ changes \in 0 .. MaxChanges /\ faults \in 0 .. MaxFaults
        /\ last_seq \in Nat /\ dev_seq \in Nat
    BY HubAssumption DEF Init, HubAssumption
  <2>3. /\ due \subseteq Deadlines /\ toggle_read_mask \subseteq Toggles
        /\ toggle_unsupported \subseteq Toggles
        /\ state \in [Params -> Data \cup {Unknown}]
        /\ dev \in [Params -> Values]
    BY HubAssumption DEF Init, HubAssumption
  <2>4. /\ pumping \in BOOLEAN /\ refresh_pending \in BOOLEAN /\ have_seq \in BOOLEAN
        /\ notifications_active \in BOOLEAN /\ boot_source_checked \in BOOLEAN
        /\ dev_notifies \in NotifySettings
    BY DEF Init
  <2> QED
    BY <1>3, <1>4, <2>1, <2>2, <2>3, <2>4 DEF IInv, TypeOK

(***************************************************************************)
(* One pass of loop() after the frames: timers, reprobe, refresh, send.    *)
(***************************************************************************)
LEMMA FinishPassIInv ==
    ASSUME IInv, FinishPass
    PROVE  IInv'
<1>1. RetriedKind(HubTxns) /\ ClosedKind(HubTxns) /\ ProbeTxn \in HubTxns
  BY HubAssumption, HubKind, HubTxnTypes DEF RetriedKind
<1> DEFINE timed == AfterTimers(hub, due)
<1>2. PICK clock \in ProbeClock(timed) :
        LET probed == AfterReprobe(timed, clock)
            updated == AfterRefresh(probed)
        IN  /\ hub' = SentNext(updated)
            /\ line' = IF CanSend(updated) THEN Append(line, NextOut(updated)) ELSE line
            /\ refresh_pending' = ((refresh_pending /\ ~Bursts(probed)) \/ Polls(updated))
            /\ have_seq' = (have_seq /\ ~OfflineIn(timed))
            /\ due' \subseteq due
  BY DEF FinishPass, Rearm
<1> DEFINE probed == AfterReprobe(timed, clock)
           updated == AfterRefresh(probed)
<1>3. Sound(HubTxns, timed)
  BY <1>1, QueueAssumption, TransportAssumption, AfterTimersSound DEF IInv
<1>4. Sound(HubTxns, probed)
  BY <1>1, <1>3, QueueAssumption, AfterReprobeSound
<1>5. Sound(HubTxns, updated)
  BY <1>1, <1>4, QueueAssumption, HubAssumption, BurstType, QueuedAllSound DEF AfterRefresh
<1>6. Sound(HubTxns, hub')
  BY <1>1, <1>2, <1>5, QueueAssumption, SentNextSound
<1>7. line' \in Seq(HubTxns)
  <2>1. CanSend(updated) => NextOut(updated) \in HubTxns
    BY <1>1, <1>5, QueueAssumption, NextOutIsTxn
  <2> QED
    BY <1>2, <2>1 DEF IInv
<1>8. hub' \in Hubs /\ line' \in Seq(Txn)
  BY <1>6, <1>7, SoundIsTyped DEF HubTxns
<1>9. refresh_pending' \in BOOLEAN /\ have_seq' \in BOOLEAN
  BY <1>2, Zenon DEF IInv, TypeOK
<1>10. toggle_unsupported' \subseteq Toggles
  BY MarksToggles DEF FinishPass, IInv, TypeOK
<1> QED
  BY <1>2, <1>6, <1>7, <1>8, <1>9, <1>10
  DEF FinishPass, IInv, TypeOK, devVars

(***************************************************************************)
(* What the frame at the head of the receive buffer may be.                *)
(***************************************************************************)
LEMMA HeadOfRx ==
    ASSUME IInv, TakeFrame
    PROVE  /\ Head(rx) \in Frames
           /\ Head(rx).kind # "NOTIFY" => Head(rx) \in Responses
           /\ Head(rx).kind = "NOTIFY" => Head(rx) \in Notifications
           /\ rx' \in Seq(Frames)
<1>1. rx \in Seq(Frames) /\ rx # <<>>
  BY DEF IInv, TypeOK, TakeFrame
<1>2. Head(rx) \in Frames /\ rx' \in Seq(Frames)
  BY <1>1 DEF TakeFrame
<1> QED
  BY <1>2 DEF Frames, Responses, Notifications

(***************************************************************************)
(* The callbacks and handle_notification_(): one frame of pump_rx_().      *)
(***************************************************************************)
LEMMA FrameIInv ==
    ASSUME IInv, Frame
    PROVE  IInv'
<1>1. RetriedKind(HubTxns) /\ ClosedKind(HubTxns)
  BY HubAssumption, HubKind DEF RetriedKind
<1>2. TakeFrame
  BY DEF Frame, Unsolicited, PlatformRead, UartConfigRead, ParamRead, NothingRead,
         Refused, TryLater, Notified, TakeAnswer, TakeResponse
<1>3. /\ rx' \in Seq(Frames)
      /\ Head(rx).kind # "NOTIFY" => Head(rx) \in Responses
      /\ Head(rx).kind = "NOTIFY" => Head(rx) \in Notifications
  BY <1>2, HeadOfRx
<1>4. /\ pumping' \in BOOLEAN /\ calls' \in 0 .. MaxCalls
      /\ dev' \in [Params -> Values] /\ dev_seq' \in Nat
      /\ dev_notifies' \in NotifySettings
      /\ changes' \in 0 .. MaxChanges /\ faults' \in 0 .. MaxFaults
      /\ line' \in Seq(Txn) /\ line' \in Seq(HubTxns)
  BY <1>2 DEF TakeFrame, IInv, TypeOK, devVars
<1>5. Sound(HubTxns, Succeeded(hub)) /\ Sound(HubTxns, Rejected(hub))
  BY TransportAssumption, RejectedSound DEF IInv
<1>6. SUFFICES /\ Sound(HubTxns, hub')
               /\ due' \subseteq Deadlines /\ refresh_pending' \in BOOLEAN
               /\ toggle_read_mask' \subseteq Toggles /\ toggle_unsupported' \subseteq Toggles
               /\ state' \in [Params -> Data \cup {Unknown}]
               /\ notifications_active' \in BOOLEAN /\ have_seq' \in BOOLEAN
               /\ last_seq' \in Nat /\ boot_source_checked' \in BOOLEAN
  <2>1. Sound(HubTxns, hub') => hub' \in Hubs
    BY SoundIsTyped
  <2> QED
    BY <2>1, <1>3, <1>4 DEF IInv, TypeOK
<1> USE DEF IInv, TypeOK
<1>7. CASE Unsolicited
  BY <1>7 DEF Unsolicited, pubVars, seqVars
<1>8. CASE PlatformRead
  <2>1. Sound(HubTxns, [Succeeded(hub) EXCEPT !.identified = TRUE])
    <3>1. Succeeded(hub).hub_state = "IDLE"
      BY DEF Succeeded, Rejected, Sound, HubsOf
    <3> HIDE DEF Succeeded
    <3> QED
      BY <1>5, <3>1 DEF Sound, HubsOf, OneInFlight
  <2>2. Sound(HubTxns, hub')
    BY <1>1, <1>8, <2>1, QueueAssumption, HubAssumption, BurstType, QueuedAllSound
    DEF PlatformRead
  <2>3. due' \subseteq Deadlines /\ toggle_unsupported' \subseteq Toggles
    BY <1>8 DEF PlatformRead, Rearm
  <2>4. state' \in [Params -> Data \cup {Unknown}]
    BY <1>8 DEF PlatformRead
  <2> QED
    BY <1>8, <2>2, <2>3, <2>4 DEF PlatformRead, seqVars
<1>9. CASE UartConfigRead
  BY <1>5, <1>9 DEF UartConfigRead, Rearm, pubVars
<1>10. CASE ParamRead
  <2>1. Head(rx) \in Responses /\ Head(rx).data \in Data
    BY <1>3, <1>10 DEF ParamRead, TakeAnswer, TakeResponse, Responses
  <2>2. state' \in [Params -> Data \cup {Unknown}]
    BY <1>10, <2>1 DEF ParamRead
  <2>3. ClaimsBootSource => SetTxn(InputSource, BootSource) \in HubTxns
    BY HubAssumption, HubTxnTypes DEF ClaimsBootSource, ChecksBootSource, HubAssumption
  <2>4. Sound(HubTxns, hub')
    BY <1>1, <1>5, <1>10, <2>3, QueueAssumption, QueuedSound DEF ParamRead
  <2>5. boot_source_checked' \in BOOLEAN /\ refresh_pending' \in BOOLEAN
    BY <1>10, Zenon DEF ParamRead
  <2> QED
    BY <1>10, <2>2, <2>4, <2>5 DEF ParamRead, Rearm, seqVars
<1>11. CASE NothingRead
  BY <1>5, <1>11 DEF NothingRead, Rearm, pubVars, seqVars
<1>12. CASE Refused
  <2>1. toggle_unsupported' \subseteq Toggles
    BY <1>12, MarksToggles DEF Refused
  <2> QED
    BY <1>5, <1>12, <2>1 DEF Refused, Rearm, seqVars
<1>13. CASE TryLater
  <2>1. hub.current # NoTxn
    BY <1>13 DEF TryLater, TakeAnswer, Expects
  <2>2. Sound(HubTxns, hub')
    BY <1>1, <1>13, <2>1, QueueAssumption, TransportAssumption, RetriedOrDroppedSound
    DEF TryLater
  <2>3. due' \subseteq Deadlines
    BY <1>13 DEF TryLater, ProbeClock, Deadlines
  <2>4. have_seq' \in BOOLEAN
    BY <1>13, Zenon DEF TryLater
  <2>5. toggle_unsupported' \subseteq Toggles
    BY <1>13, MarksToggles DEF TryLater
  <2> QED
    BY <1>13, <2>2, <2>3, <2>4, <2>5 DEF TryLater
<1>14. CASE Notified
  <2>1. Head(rx).seq \in Nat
    BY <1>3, <1>14 DEF Notified, Notifications
  <2>2. refresh_pending' \in BOOLEAN
    BY <1>14, Zenon DEF Notified
  <2> QED
    BY <1>14, <2>1, <2>2 DEF Notified, Rearm, pubVars
<1> QED
  BY <1>7, <1>8, <1>9, <1>10, <1>11, <1>12, <1>13, <1>14 DEF Frame

(***************************************************************************)
(* The public methods, called between passes of the loop.                  *)
(***************************************************************************)
LEMMA UserCallIInv ==
    ASSUME IInv, UserCall
    PROVE  IInv'
<1> USE DEF IInv, TypeOK
<1>1. ClosedKind(HubTxns)
  BY HubAssumption, HubKind DEF RetriedKind
<1>2. Call
  BY DEF UserCall, Setter, SetParam, RequestRefresh, RequestInputRate
<1>3. calls' \in 0 .. MaxCalls
  BY <1>2, HubAssumption DEF Call, HubAssumption
<1>4. /\ Sound(HubTxns, hub') /\ due' \subseteq Deadlines
      /\ refresh_pending' \in BOOLEAN /\ toggle_read_mask' \subseteq Toggles
  <2>1. ASSUME NEW p \in Settable, NEW v \in Values, SetParam(p, v)
        PROVE  /\ Sound(HubTxns, hub') /\ due' \subseteq Deadlines
               /\ refresh_pending' \in BOOLEAN /\ toggle_read_mask' \subseteq Toggles
    <3>1. SetTxn(p, v) \in HubTxns
      BY HubAssumption, HubTxnTypes DEF HubAssumption
    <3>2. Sound(HubTxns, hub')
      BY <1>1, <2>1, <3>1, QueueAssumption, QueuedSound DEF SetParam
    <3> QED
      BY <2>1, <3>2 DEF SetParam, Rearm
  <2>2. CASE RequestRefresh
    <3>1. hub' = hub /\ toggle_read_mask' = toggle_read_mask /\ refresh_pending' = TRUE
      BY <2>2 DEF RequestRefresh
    <3>2. due' \subseteq Deadlines
      BY <2>2 DEF RequestRefresh, Rearm
    <3> QED
      BY <3>1, <3>2
  <2>3. CASE RequestInputRate
    <3>1. GetTxn(InputRate, 1) \in HubTxns
      BY HubAssumption, HubTxnTypes DEF HubAssumption, Priorities
    <3>2. Sound(HubTxns, hub')
      BY <1>1, <2>3, <3>1, QueueAssumption, QueuedSound DEF RequestInputRate
    <3>3. due' = due /\ refresh_pending' = refresh_pending /\ toggle_read_mask' = toggle_read_mask
      BY <2>3 DEF RequestInputRate
    <3> QED
      BY <3>2, <3>3
  <2> QED
    BY <2>1, <2>2, <2>3 DEF UserCall, Setter
<1>5. hub' \in Hubs
  BY <1>4, SoundIsTyped
<1> QED
  BY <1>2, <1>3, <1>4, <1>5 DEF Call, linkVars, seqVars, devVars

(***************************************************************************)
(* What the device does with the request at the head of the line: the      *)
(* values it takes from a SET are values of a parameter, and its answer is *)
(* a response.                                                             *)
(***************************************************************************)
LEMMA HeadOfLine ==
    ASSUME IInv, line # <<>>
    PROVE  /\ Head(line) \in HubTxns
           /\ Tail(line) \in Seq(HubTxns)
           /\ Applied \in [Params -> Values]
           /\ Reading(Head(line)) \in Data
           /\ \A status \in Statuses, data \in Data :
                Response(Head(line), status, data) \in Frames
<1> USE DEF IInv, TypeOK
<1>1. Head(line) \in HubTxns /\ Tail(line) \in Seq(HubTxns)
  OBVIOUS
<1> DEFINE t == Head(line)
<1>2. Applied \in [Params -> Values]
  BY <1>1 DEF Applied, HubTxns
<1>3. Reading(t) \in Data
  <2>1. \A p \in Params : dev[p] \in Data
    BY HubAssumption DEF HubAssumption
  <2>2. (CHOOSE v \in Values : TRUE) \in Data
    BY HubAssumption DEF HubAssumption
  <2>3. Nothing \in Data /\ "notify_on" \in Data /\ "notify_off" \in Data
    BY HubAssumption DEF HubAssumption
  <2> HIDE DEF t
  <2> QED
    BY <2>1, <2>2, <2>3 DEF Reading
<1>4. Identity(t) \in Reqs \X {"GET", "SET"} \X Wvalues
  BY <1>1 DEF HubTxns, Txn, Identity
<1>5. t.frame_type \in {"GET", "SET"}
  BY <1>1 DEF HubTxns, Txn
<1> HIDE DEF t
<1>6. \A status \in Statuses, data \in Data : Response(t, status, data) \in Frames
  BY <1>4, <1>5 DEF Response, Responses, Frames
<1> QED
  BY <1>1, <1>2, <1>3, <1>6 DEF t

LEMMA DeviceIInv ==
    ASSUME IInv, Device
    PROVE  IInv'
<1> USE DEF IInv, TypeOK
<1>1. DeviceStep
  BY DEF Device, Serve, Refuse, Lose, DeviceChange, DeviceEvent, DeviceReboot
<1>2. SUFFICES /\ line' \in Seq(HubTxns) /\ rx' \in Seq(Frames)
               /\ dev' \in [Params -> Values] /\ dev_seq' \in Nat
               /\ changes' \in 0 .. MaxChanges /\ faults' \in 0 .. MaxFaults
  <2>1. Sound(HubTxns, hub') /\ hub' \in Hubs
    BY <1>1 DEF DeviceStep
  <2>2. line' \in Seq(HubTxns) => line' \in Seq(Txn)
    BY DEF HubTxns
  <2> QED
    BY <1>1, <2>1, <2>2 DEF DeviceStep, pubVars, seqVars
<1>3. ASSUME NEW reply, May(reply)
      PROVE  faults' \in 0 .. MaxFaults
  BY <1>3, HubAssumption DEF May, HubAssumption
<1>4. ASSUME NEW status \in Statuses, NEW data \in Data, line # <<>>, Answer(status, data)
      PROVE  line' \in Seq(HubTxns) /\ rx' \in Seq(Frames)
  <2>1. Response(Head(line), status, data) \in Frames /\ Tail(line) \in Seq(HubTxns)
    BY <1>4, HeadOfLine
  <2> QED
    BY <1>4, <2>1 DEF Answer
<1>5. {"OK", "BUSY", "ERROR"} \subseteq Statuses /\ {Nothing, Short} \subseteq Data
  BY HubAssumption DEF HubAssumption
<1>6. CASE Serve
  <2>1. Applied \in [Params -> Values] /\ Reading(Head(line)) \in Data
    BY <1>6, HeadOfLine DEF Serve
  <2> QED
    BY <1>3, <1>4, <1>5, <1>6, <2>1 DEF Serve
<1>7. CASE Refuse
  BY <1>3, <1>4, <1>5, <1>7 DEF Refuse
<1>8. CASE Lose
  <2>1. Applied \in [Params -> Values] /\ Tail(line) \in Seq(HubTxns)
    BY <1>8, HeadOfLine DEF Lose
  <2> QED
    BY <1>3, <1>8, <2>1 DEF Lose
<1>9. ASSUME NEW event \in Events, Emit(event)
      PROVE  /\ line' \in Seq(HubTxns) /\ rx' \in Seq(Frames) /\ dev_seq' \in Nat
             /\ changes' \in 0 .. MaxChanges /\ faults' \in 0 .. MaxFaults
  <2>1. (dev_seq + 1) % NotifyModulus \in Nat
    BY HubAssumption DEF HubAssumption
  <2>2. Notification(event, dev_seq) \in Frames
    BY DEF Notification, Notifications, Frames
  <2>3. changes' \in 0 .. MaxChanges
    BY <1>9, HubAssumption DEF Emit, HubAssumption
  <2>4. faults' \in 0 .. MaxFaults
    BY <1>3, <1>9 DEF Emit
  <2>5. rx' \in Seq(Frames)
    <3> DEFINE n == Notification(event, dev_seq)
    <3>1. rx' = rx \/ rx' = Append(rx, n)
      BY <1>9 DEF Emit
    <3>2. rx \in Seq(Frames) /\ n \in Frames
      BY <2>2
    <3> HIDE DEF n, IInv, TypeOK
    <3> QED
      BY <3>1, <3>2
  <2> QED
    BY <1>9, <2>1, <2>3, <2>4, <2>5 DEF Emit
<1>10. ASSUME NEW p \in Params, NEW v \in Values, DeviceChange(p, v)
       PROVE  /\ line' \in Seq(HubTxns) /\ rx' \in Seq(Frames)
              /\ dev' \in [Params -> Values] /\ dev_seq' \in Nat
              /\ changes' \in 0 .. MaxChanges /\ faults' \in 0 .. MaxFaults
  BY <1>9, <1>10, HubAssumption DEF DeviceChange, HubAssumption
<1>11. CASE DeviceEvent
  BY <1>9, <1>11 DEF DeviceEvent
<1>12. CASE DeviceReboot
  BY <1>3, <1>12 DEF DeviceReboot
<1> QED
  BY <1>6, <1>7, <1>8, <1>10, <1>11, <1>12 DEF Device

-----------------------------------------------------------------------------

LEMMA NextIInv == IInv /\ [Next]_vars => IInv'
<1> SUFFICES ASSUME IInv, [Next]_vars PROVE IInv'
  OBVIOUS
<1>1. CASE LoopPass
  BY <1>1, FrameIInv, FinishPassIInv DEF LoopPass
<1>2. CASE Clock
  <2>1. PICK d \in Deadlines : Tick(d)
    BY <1>2 DEF Clock
  <2> QED
    BY <2>1 DEF Tick, IInv, TypeOK, linkVars, pubVars, seqVars, devVars
<1>3. CASE UserCall
  BY <1>3, UserCallIInv
<1>4. CASE Device
  BY <1>4, DeviceIInv
<1>5. CASE UNCHANGED vars
  BY <1>5 DEF vars, IInv, TypeOK, linkVars, pubVars, seqVars, devVars
<1> QED
  BY <1>1, <1>2, <1>3, <1>4, <1>5 DEF Next

LEMMA IInvAlways == Spec => []IInv
BY InitIInv, NextIInv, PTL DEF Spec

(***************************************************************************)
(* The types hold: the array is never written past its end, the failure    *)
(* counter stays a uint8_t, and what the device applies is a value.        *)
(***************************************************************************)
THEOREM TypeCorrect == Spec => []TypeOK
<1>1. IInv => TypeOK
  BY DEF IInv
<1> QED
  BY <1>1, IInvAlways, PTL

(***************************************************************************)
(* At every moment exactly one request is outstanding in AWAIT_RESP and    *)
(* none otherwise, through timeouts, retries, going offline and reprobes.  *)
(***************************************************************************)
THEOREM OneOutstandingHolds == Spec => []OneOutstanding
<1>1. IInv => OneOutstanding
  BY DEF IInv, Sound, OneOutstanding
<1> QED
  BY <1>1, IInvAlways, PTL

(***************************************************************************)
(* enqueue_() never lets two requests with one identity wait, for every    *)
(* queue depth and every interleaving of setters, retries, bursts and      *)
(* probes.                                                                 *)
(***************************************************************************)
THEOREM UniqueRequestsHold == Spec => []UniqueRequests
<1>1. IInv => UniqueRequests
  BY DEF IInv, Sound, UniqueRequests
<1> QED
  BY <1>1, IInvAlways, PTL

(***************************************************************************)
(* An offline hub is unidentified, so loop()'s reprobe applies to it, and  *)
(* has nothing in flight.                                                  *)
(***************************************************************************)
THEOREM OfflineForgetsHolds == Spec => []OfflineForgets
<1>1. IInv => OfflineForgets
  BY DEF IInv, Sound, OneInFlight, OfflineForgets
<1> QED
  BY <1>1, IInvAlways, PTL

(***************************************************************************)
(* Nothing waits or is in flight beyond its retry budget, also after a     *)
(* retry coalesced with a fresh request.                                   *)
(***************************************************************************)
THEOREM RetriesBoundedHolds == Spec => []RetriesBounded
<1>1. IInv => RetriesBounded
  <2>1. \A t \in HubTxns : t.attempts <= t.max_retries
    BY DEF HubTxns
  <2> QED
    BY <2>1 DEF IInv, Sound, HubsOf, RetriesBounded, WithinBudget, Waiting, Occupied
<1> QED
  BY <1>1, IInvAlways, PTL

-----------------------------------------------------------------------------

(***************************************************************************)
(* The burst that loop() has checked the room for evicts nothing and       *)
(* waits whole.                                                            *)
(***************************************************************************)
LEMMA BurstFits ==
    ASSUME HubAssumption, QueueAssumption, NEW h, Sound(HubTxns, h), Bursts(h)
    PROVE  WaitingIds(h.queue) \cup {Identity(Burst[i]) : i \in {j \in DOMAIN Burst : InBurst(j)}}
             \subseteq WaitingIds(QueuedAll(h, Burst).queue)
<1> DEFINE some == {i \in DOMAIN Burst : Burst[i] # NoTxn}
<1>1. ClosedKind(HubTxns) /\ Burst \in Seq(HubTxns \cup {NoTxn})
  BY HubKind, BurstType DEF RetriedKind
<1>2. DOMAIN Burst = DOMAIN AllReads
  BY DEF Burst
<1>3. ASSUME NEW i \in DOMAIN AllReads PROVE Burst[i] # NoTxn <=> InBurst(i)
  <2>1. AllReads[i] \in Reqs
    BY DEF AllReads, HubAssumption
  <2>2. GetTxn(AllReads[i], 1) \in HubTxns
    BY <2>1, HubTxnTypes DEF Priorities
  <2>3. GetTxn(AllReads[i], 1) # NoTxn
    BY <2>2 DEF HubTxns, QueueAssumption
  <2> QED
    BY <2>3 DEF Burst
<1>4. some = {i \in DOMAIN AllReads : InBurst(i)}
  BY <1>2, <1>3
<1> HIDE DEF some
<1>5. QueueFree(h.queue) >= Cardinality(some)
  BY <1>4 DEF Bursts, BurstSize
<1>6. h.queue \in [Slots -> HubTxns \cup {NoTxn}]
  BY DEF Sound, HubsOf
<1>7. /\ WaitingIds(h.queue) \subseteq WaitingIds(EnqueueAll(h.queue, Burst))
      /\ \A i \in DOMAIN Burst :
           Burst[i] # NoTxn => Identity(Burst[i]) \in WaitingIds(EnqueueAll(h.queue, Burst))
  BY <1>1, <1>5, <1>6, EnqueueAllWithRoom DEF some
<1>8. QueuedAll(h, Burst).queue = EnqueueAll(h.queue, Burst)
  BY DEF QueuedAll, Sound, HubsOf
<1> QED
  BY <1>2, <1>3, <1>7, <1>8

(***************************************************************************)
(* The rest of a pass as a composition of methods: timers, reprobe,        *)
(* refresh and send, for one outcome of the reprobe clock.                 *)
(***************************************************************************)
LEMMA PassIsComposed ==
    ASSUME IInv, FinishPass
    PROVE  \E clock \in ProbeClock(AfterTimers(hub, due)) :
              /\ hub' = SentNext(AfterRefresh(AtRefresh(clock)))
              /\ Sound(HubTxns, AtRefresh(clock))
              /\ Sound(HubTxns, AfterRefresh(AtRefresh(clock)))
              /\ refresh_pending /\ ~refresh_pending' => Bursts(AtRefresh(clock))
<1>1. RetriedKind(HubTxns) /\ ClosedKind(HubTxns) /\ ProbeTxn \in HubTxns
  BY HubAssumption, HubKind, HubTxnTypes DEF RetriedKind
<1> DEFINE timed == AfterTimers(hub, due)
<1>2. PICK clock \in ProbeClock(timed) :
        LET probed == AfterReprobe(timed, clock)
            updated == AfterRefresh(probed)
        IN  /\ hub' = SentNext(updated)
            /\ refresh_pending' = ((refresh_pending /\ ~Bursts(probed)) \/ Polls(updated))
  BY DEF FinishPass
<1>3. AtRefresh(clock) = AfterReprobe(timed, clock)
  BY DEF AtRefresh
<1>4. Sound(HubTxns, timed)
  BY <1>1, QueueAssumption, TransportAssumption, AfterTimersSound DEF IInv
<1>5. Sound(HubTxns, AtRefresh(clock))
  BY <1>1, <1>3, <1>4, QueueAssumption, AfterReprobeSound
<1>6. Sound(HubTxns, AfterRefresh(AtRefresh(clock)))
  BY <1>1, <1>5, QueueAssumption, HubAssumption, BurstType, QueuedAllSound DEF AfterRefresh
<1>7. refresh_pending /\ ~refresh_pending' => Bursts(AtRefresh(clock))
  BY <1>2, <1>3, Zenon
<1> QED
  BY <1>2, <1>3, <1>5, <1>6, <1>7

(***************************************************************************)
(* The refresh burst goes out whole or not at all, for every queue depth   *)
(* and set of parameters: a pass that clears the refresh has every read    *)
(* waiting or just sent, and nothing that waited before is evicted.        *)
(***************************************************************************)
THEOREM BurstWholeHolds == Spec => BurstWhole
<1> DEFINE Whole == \E clock \in ProbeClock(AfterTimers(hub, due)) :
                      WaitingIds(AtRefresh(clock).queue)
                        \cup {Identity(Burst[i]) : i \in {j \in DOMAIN Burst : InBurst(j)}}
                        \subseteq WaitingIds(hub'.queue) \cup
                           (IF hub'.current = NoTxn THEN {} ELSE {Identity(hub'.current)})
<1>1. ASSUME IInv, FinishPass, refresh_pending, ~refresh_pending' PROVE Whole
  <2>1. PICK clock \in ProbeClock(AfterTimers(hub, due)) :
          /\ hub' = SentNext(AfterRefresh(AtRefresh(clock)))
          /\ Sound(HubTxns, AtRefresh(clock))
          /\ Sound(HubTxns, AfterRefresh(AtRefresh(clock)))
          /\ Bursts(AtRefresh(clock))
    BY <1>1, PassIsComposed
  <2> DEFINE probed == AtRefresh(clock)
             updated == AfterRefresh(probed)
  <2>2. updated = QueuedAll(probed, Burst)
    BY <2>1 DEF AfterRefresh
  <2>3. WaitingIds(updated.queue) \subseteq Held(hub')
    BY <2>1, QueueAssumption, HubAssumption, HubKind, SentNextHolds DEF RetriedKind
  <2> HIDE DEF probed
  <2>4. WaitingIds(probed.queue)
          \cup {Identity(Burst[i]) : i \in {j \in DOMAIN Burst : InBurst(j)}}
          \subseteq WaitingIds(updated.queue)
    BY <2>1, <2>2, QueueAssumption, HubAssumption, BurstFits DEF probed
  <2> QED
    BY <2>1, <2>3, <2>4 DEF Held, probed
<1>2. IInv /\ [Next]_vars => [FinishPass /\ refresh_pending /\ ~refresh_pending' => Whole]_vars
  BY <1>1
<1> QED
  BY <1>2, IInvAlways, PTL DEF Spec, BurstWhole

(***************************************************************************)
(* What a step may do to a waiting command: keep it, send it, give up on   *)
(* the link, or find the queue full of commands.                           *)
(***************************************************************************)
Excused ==
    \/ hub'.hub_state = "OFFLINE" \/ OfflineIn(AfterTimers(hub, due))
    \/ FullOfCommands(hub.queue) \/ FullOfCommands(hub'.queue)

(***************************************************************************)
(* The rest of a pass: a retry goes with a backoff, which rules a probe    *)
(* out, and the burst has the room it needs.                               *)
(***************************************************************************)
LEMMA PassKeepsCommands ==
    ASSUME IInv, FinishPass, NEW id, CommandWaits(hub.queue, id)
    PROVE  id \in Held(hub') \/ Excused
<1>1. RetriedKind(HubTxns) /\ ClosedKind(HubTxns) /\ ProbeTxn \in HubTxns
  BY HubAssumption, HubKind, HubTxnTypes DEF RetriedKind
<1>2. PICK clock \in ProbeClock(AfterTimers(hub, due)) :
        /\ hub' = SentNext(AfterRefresh(AtRefresh(clock)))
        /\ Sound(HubTxns, AtRefresh(clock))
        /\ Sound(HubTxns, AfterRefresh(AtRefresh(clock)))
  BY PassIsComposed
<1> DEFINE timed == AfterTimers(hub, due)
           probed == AtRefresh(clock)
           updated == AfterRefresh(probed)
<1>3. Sound(HubTxns, hub) /\ Sound(HubTxns, timed)
  BY <1>1, QueueAssumption, TransportAssumption, AfterTimersSound DEF IInv
<1>4. id \in WaitingIds(hub.queue)
  BY DEF CommandWaits, WaitingIds, Waiting
<1>5. \/ timed.queue = hub.queue
      \/ OfflineIn(timed)
      \/ /\ id \in WaitingIds(timed.queue) \/ FullOfCommands(hub.queue)
         /\ timed.hub_state = "BACKOFF"
  <2>1. CASE hub.hub_state = "AWAIT_RESP" /\ "timeout" \in due
    <3>1. timed = RetriedOrDropped(hub)
      BY <2>1 DEF AfterTimers
    <3>2. CASE Exhausted(hub)
      <4>1. timed = Failed(hub)
        BY <3>1, <3>2 DEF RetriedOrDropped
      <4>2. FailureCounted(hub).queue = hub.queue
        BY <1>3 DEF FailureCounted, Rejected, Sound, HubsOf
      <4>3. GoneOffline(FailureCounted(hub)).hub_state = "OFFLINE"
        BY <1>3 DEF GoneOffline, FailureCounted, Rejected, Sound, HubsOf
      <4> QED
        BY <2>1, <4>1, <4>2, <4>3 DEF Failed, OfflineIn
    <3>3. CASE ~Exhausted(hub)
      <4>1. timed = Requeued(hub)
        BY <3>1, <3>3 DEF RetriedOrDropped
      <4>2. timed.queue = Enqueue(hub.queue, Again(hub)) /\ timed.hub_state = "BACKOFF"
        BY <1>3, <4>1 DEF Requeued, Sound, HubsOf
      <4>3. Again(hub) \in HubTxns
        <5>1. hub.current \in HubTxns
          BY <1>3, <2>1 DEF Sound, OneInFlight, HubsOf
        <5>2. hub.current.attempts < hub.current.max_retries
          BY <3>3, <5>1 DEF Exhausted, Again, HubTxns, Txn
        <5> QED
          BY <1>1, <5>1, <5>2 DEF RetriedKind, Again
      <4>4. hub.queue \in [Slots -> HubTxns \cup {NoTxn}]
        BY <1>3 DEF Sound, HubsOf
      <4> QED
        BY <1>1, <4>2, <4>3, <4>4, QueueAssumption, EnqueueCommands
    <3> QED
      BY <3>2, <3>3
  <2>2. CASE ~(hub.hub_state = "AWAIT_RESP" /\ "timeout" \in due)
    BY <1>3, <2>2 DEF AfterTimers, Sound, HubsOf
  <2> QED
    BY <2>1, <2>2
<1>6. id \in WaitingIds(probed.queue) \/ Excused
  <2>1. CASE ProbeDue(timed, clock)
    <3>1. probed = Probed(timed)
      BY <2>1 DEF AtRefresh, AfterReprobe
    <3>2. probed.queue = Enqueue(timed.queue, ProbeTxn)
      BY <1>3, <3>1 DEF Probed, Queued, Sound, HubsOf
    <3>3. timed.hub_state # "BACKOFF"
      BY <2>1 DEF ProbeDue
    <3>4. CASE timed.queue = hub.queue
      <4>1. hub.queue \in [Slots -> HubTxns \cup {NoTxn}]
        BY <1>3 DEF Sound, HubsOf
      <4>2. id \in WaitingIds(Enqueue(hub.queue, ProbeTxn)) \/ FullOfCommands(hub.queue)
        BY <1>1, <4>1, QueueAssumption, EnqueueCommands
      <4> QED
        BY <3>2, <3>4, <4>2 DEF Excused
    <3> QED
      BY <1>5, <3>3, <3>4 DEF Excused
  <2>2. CASE ~ProbeDue(timed, clock)
    <3>1. probed = timed
      BY <2>2 DEF AtRefresh, AfterReprobe
    <3> QED
      BY <1>4, <1>5, <3>1 DEF Excused
  <2> QED
    BY <2>1, <2>2
<1>7. WaitingIds(probed.queue) \subseteq WaitingIds(updated.queue)
  <2> HIDE DEF probed
  <2>1. Bursts(probed) => WaitingIds(probed.queue) \subseteq WaitingIds(QueuedAll(probed, Burst).queue)
    BY <1>2, QueueAssumption, HubAssumption, BurstFits DEF probed
  <2> QED
    BY <2>1 DEF AfterRefresh
<1>8. WaitingIds(updated.queue) \subseteq Held(hub')
  BY <1>1, <1>2, QueueAssumption, SentNextHolds
<1> QED
  BY <1>6, <1>7, <1>8

(***************************************************************************)
(* The frames and the public methods: each makes one enqueue_() call, but  *)
(* for on_platform_(), which queues commands only, or none.                *)
(***************************************************************************)
LEMMA OthersKeepCommands ==
    ASSUME IInv, [Next]_vars, ~FinishPass, NEW id, CommandWaits(hub.queue, id)
    PROVE  id \in Held(hub') \/ Excused
<1>1. RetriedKind(HubTxns) /\ ClosedKind(HubTxns)
  BY HubAssumption, HubKind DEF RetriedKind
<1>2. Sound(HubTxns, hub) /\ hub.queue \in [Slots -> HubTxns \cup {NoTxn}] /\ NoDuplicates(hub.queue)
  BY DEF IInv, Sound, HubsOf
<1>3. id \in WaitingIds(hub.queue)
  BY DEF CommandWaits, WaitingIds, Waiting
<1>4. ASSUME hub'.queue = hub.queue PROVE id \in Held(hub')
  BY <1>3, <1>4 DEF Held
<1>5. ASSUME NEW t \in HubTxns, hub'.queue = Enqueue(hub.queue, t)
      PROVE  id \in Held(hub') \/ Excused
  BY <1>1, <1>2, <1>5, QueueAssumption, EnqueueCommands DEF Held, Excused
<1>6. Succeeded(hub).queue = hub.queue /\ Rejected(hub).queue = hub.queue
  BY <1>2 DEF Succeeded, Rejected, Sound, HubsOf
<1>7. Sound(HubTxns, Succeeded(hub))
  BY <1>2, TransportAssumption, RejectedSound
<1>8. CASE Frame
  <2>1. CASE Unsolicited \/ UartConfigRead \/ NothingRead \/ Refused \/ Notified
    BY <1>4, <1>6, <2>1 DEF Unsolicited, UartConfigRead, NothingRead, Refused, Notified
  <2>2. CASE PlatformRead
    <3> DEFINE ts == [i \in DOMAIN ProbeReads |-> GetTxn(ProbeReads[i], 0)]
    <3>1. hub'.queue = EnqueueAll(hub.queue, ts)
      <4> DEFINE h == [Succeeded(hub) EXCEPT !.identified = TRUE]
      <4>1. h.queue = hub.queue /\ h \in HubsOf(HubTxns)
        BY <1>6, <1>7 DEF Sound, HubsOf
      <4>2. hub' = QueuedAll(h, ts)
        BY <2>2 DEF PlatformRead
      <4> HIDE DEF h, ts
      <4> QED
        BY <4>1, <4>2 DEF QueuedAll, HubsOf
    <3>2. ProbeReads \in Seq(Reqs) /\ DOMAIN ProbeReads = 1 .. Len(ProbeReads)
      BY HubAssumption DEF HubAssumption
    <3>3. \A i \in DOMAIN ProbeReads : GetTxn(ProbeReads[i], 0) \in HubTxns
      BY <3>2, HubAssumption, HubTxnTypes DEF Priorities
    <3>4. ts \in Seq(HubTxns) /\ \A i \in DOMAIN ts : ts[i].priority = 0
      BY <3>2, <3>3 DEF GetTxn
    <3> HIDE DEF ts
    <3>5. id \in WaitingIds(EnqueueAll(hub.queue, ts)) \/ FullOfCommands(EnqueueAll(hub.queue, ts))
      BY <1>1, <1>2, <3>4, QueueAssumption, EnqueueAllCommands
    <3> QED
      BY <3>1, <3>5 DEF Held, Excused
  <2>3. CASE ParamRead
    <3>1. CASE ClaimsBootSource
      <4>1. SetTxn(InputSource, BootSource) \in HubTxns
        BY <3>1, HubAssumption, HubTxnTypes DEF ClaimsBootSource, ChecksBootSource, HubAssumption
      <4>2. hub' = Queued(Succeeded(hub), SetTxn(InputSource, BootSource))
        BY <2>3, <3>1 DEF ParamRead
      <4>3. hub'.queue = Enqueue(hub.queue, SetTxn(InputSource, BootSource))
        <5> HIDE DEF Succeeded
        <5> QED
          BY <1>6, <1>7, <4>2 DEF Queued, Sound, HubsOf
      <4> QED
        BY <1>5, <4>1, <4>3
    <3>2. CASE ~ClaimsBootSource
      BY <1>4, <1>6, <2>3, <3>2 DEF ParamRead
    <3> QED
      BY <3>1, <3>2
  <2>4. CASE TryLater
    <3>1. hub' = RetriedOrDropped(hub) /\ hub.current # NoTxn
      BY <2>4 DEF TryLater, TakeAnswer, Expects
    <3>2. CASE Exhausted(hub)
      <4>1. hub' = Failed(hub)
        BY <3>1, <3>2 DEF RetriedOrDropped
      <4>2. FailureCounted(hub).queue = hub.queue
        BY <1>2 DEF FailureCounted, Rejected, Sound, HubsOf
      <4>3. GoneOffline(FailureCounted(hub)).hub_state = "OFFLINE"
        BY <1>2 DEF GoneOffline, FailureCounted, Rejected, Sound, HubsOf
      <4> QED
        BY <1>4, <4>1, <4>2, <4>3 DEF Failed, Excused
    <3>3. CASE ~Exhausted(hub)
      <4>1. hub'.queue = Enqueue(hub.queue, Again(hub))
        BY <1>2, <3>1, <3>3 DEF RetriedOrDropped, Requeued, Sound, HubsOf
      <4>2. hub.current \in HubTxns
        BY <1>2, <3>1 DEF Sound, HubsOf
      <4>3. hub.current.attempts < hub.current.max_retries
        BY <3>3, <4>2 DEF Exhausted, Again, HubTxns, Txn
      <4>4. Again(hub) \in HubTxns
        BY <1>1, <4>2, <4>3 DEF RetriedKind, Again
      <4> QED
        BY <1>5, <4>1, <4>4
    <3> QED
      BY <3>2, <3>3
  <2> QED
    BY <1>8, <2>1, <2>2, <2>3, <2>4 DEF Frame
<1>9. CASE UserCall
  <2>1. ASSUME NEW p \in Settable, NEW v \in Values, SetParam(p, v)
        PROVE  id \in Held(hub') \/ Excused
    <3>1. SetTxn(p, v) \in HubTxns
      BY HubAssumption, HubTxnTypes DEF HubAssumption
    <3>2. hub'.queue = Enqueue(hub.queue, SetTxn(p, v))
      BY <1>2, <2>1 DEF SetParam, Queued, Sound, HubsOf
    <3> QED
      BY <1>5, <3>1, <3>2
  <2>2. CASE RequestRefresh
    BY <1>4, <2>2 DEF RequestRefresh
  <2>3. CASE RequestInputRate
    <3>1. GetTxn(InputRate, 1) \in HubTxns
      BY HubAssumption, HubTxnTypes DEF HubAssumption, Priorities
    <3>2. hub'.queue = Enqueue(hub.queue, GetTxn(InputRate, 1))
      BY <1>2, <2>3 DEF RequestInputRate, Queued, Sound, HubsOf
    <3> QED
      BY <1>5, <3>1, <3>2
  <2> QED
    BY <1>9, <2>1, <2>2, <2>3 DEF UserCall, Setter
<1>10. CASE Device \/ Clock \/ UNCHANGED vars
  <2>1. hub' = hub
    BY <1>10 DEF Device, Clock, Tick, Serve, Refuse, Lose, DeviceEvent, DeviceReboot,
                 DeviceChange, DeviceStep, vars
  <2> QED
    BY <1>4, <2>1
<1> QED
  BY <1>8, <1>9, <1>10 DEF Next, LoopPass

(***************************************************************************)
(* No background work costs a waiting user command its place, for every    *)
(* queue depth: a command leaves the queue by being sent, by the hub       *)
(* giving up on the link, or out of a queue full of commands.              *)
(***************************************************************************)
THEOREM CommandsKeptHolds == Spec => CommandsKept
<1> DEFINE Kept == \A t \in Waiting(hub.queue) :
                     t.priority = 0 =>
                        \/ Identity(t) \in WaitingIds(hub'.queue)
                        \/ hub'.current # NoTxn /\ Identity(hub'.current) = Identity(t)
                        \/ hub'.hub_state = "OFFLINE" \/ OfflineIn(AfterTimers(hub, due))
                        \/ FullOfCommands(hub.queue) \/ FullOfCommands(hub'.queue)
<1>1. ASSUME IInv, [Next]_vars PROVE Kept
  <2>1. ASSUME NEW t \in Waiting(hub.queue), t.priority = 0
        PROVE  Identity(t) \in Held(hub') \/ Excused
    <3>1. CommandWaits(hub.queue, Identity(t))
      BY <2>1 DEF CommandWaits, Waiting
    <3> QED
      BY <1>1, <3>1, PassKeepsCommands, OthersKeepCommands
  <2> QED
    BY <2>1 DEF Held, Excused
<1>2. IInv /\ [Next]_vars => [Kept]_vars
  BY <1>1
<1> QED
  BY <1>2, IInvAlways, PTL DEF Spec, CommandsKept

-----------------------------------------------------------------------------

(***************************************************************************)
(* The attempt count of a waiting request never goes down: what replaces   *)
(* it keeps the higher count, and what is put back has one more.           *)
(***************************************************************************)
AtLeast(q, id, n) == \A j \in Occupied(q) : Identity(q[j]) = id => q[j].attempts >= n

LEMMA EnqueueAttempts ==
    ASSUME QueueAssumption, NEW T, ClosedKind(T),
           NEW q \in [Slots -> T \cup {NoTxn}], NoDuplicates(q), NEW t \in T,
           NEW id, NEW n \in Nat
    PROVE  /\ AtLeast(q, id, n) /\ (Identity(t) = id => n = 0 \/ id \in WaitingIds(q))
                => AtLeast(Enqueue(q, t), id, n)
           /\ AtLeast(Enqueue(q, t), Identity(t), t.attempts)
<1>1. CASE ~Accepted(q, t)
  <2>1. Matching(q, t) = {}
    BY <1>1 DEF Accepted, Places
  <2> QED
    BY <1>1, <2>1 DEF Enqueue, AtLeast, Matching
<1>2. CASE Accepted(q, t)
  <2> DEFINE i == Min(Places(q, t))
             new == Coalesced(q[i], t)
             after == Enqueue(q, t)
             same == q[i] # NoTxn /\ Identity(q[i]) = Identity(t)
  <2>1. i \in Places(q, t) /\ i \in Slots
    BY <1>2, PlaceTaken
  <2>2. after = [q EXCEPT ![i] = new]
    BY <1>2 DEF Enqueue
  <2>3. new \in T
    BY <2>1 DEF ClosedKind, Coalesced
  <2>4. new # NoTxn /\ Identity(new) = Identity(t)
    BY <2>3, CoalescedIsNew DEF ClosedKind, QueueAssumption
  <2>5. t.attempts \in Nat /\ new.attempts \in Nat
    BY <2>3 DEF ClosedKind, Txn
  <2>6. same => new.attempts >= t.attempts /\ new.attempts >= q[i].attempts
    <3> SUFFICES ASSUME same PROVE new.attempts >= t.attempts /\ new.attempts >= q[i].attempts
      OBVIOUS
    <3>1. q[i] \in Txn /\ t \in Txn
      BY <2>1 DEF ClosedKind
    <3> DEFINE a == q[i].attempts
               b == t.attempts
    <3>2. a \in Nat /\ b \in Nat
      BY <3>1 DEF Txn
    <3>3. new.attempts = Max({a, b})
      BY <3>1 DEF Coalesced, Txn
    <3> HIDE DEF a, b, new
    <3>4. Max({a, b}) >= a /\ Max({a, b}) >= b
      BY <3>2, MaxOfTwo
    <3> QED
      BY <3>3, <3>4 DEF a, b
  <2>7. ~same => new = t
    BY DEF Coalesced
  <2>8. \A j \in Occupied(q) : Identity(q[j]) = Identity(t) => j = i
    BY <2>1 DEF Places, Matching, NoDuplicates
  <2> HIDE DEF i, new, after, same
  <2>9. \A j \in Slots : after[j] = IF j = i THEN new ELSE q[j]
    BY <2>2
  <2>10. \A j \in Occupied(after) : j # i => j \in Occupied(q) /\ after[j] = q[j]
    BY <2>9 DEF Occupied
  <2>11. new.attempts >= t.attempts
    BY <2>5, <2>6, <2>7
  <2>12. AtLeast(after, Identity(t), t.attempts)
    BY <2>1, <2>8, <2>9, <2>10, <2>11 DEF AtLeast, Occupied
  <2>13. ASSUME AtLeast(q, id, n), Identity(t) = id => n = 0 \/ id \in WaitingIds(q)
         PROVE  AtLeast(after, id, n)
    <3>1. Identity(t) = id => new.attempts >= n
      <4>1. CASE Identity(t) = id /\ id \in WaitingIds(q)
        <5>1. PICK j \in Occupied(q) : Identity(q[j]) = id
          BY <4>1 DEF WaitingIds, Waiting
        <5>2. j = i /\ q[i].attempts >= n /\ q[i] # NoTxn
          BY <2>8, <2>13, <4>1, <5>1 DEF AtLeast, Occupied
        <5>3. q[i].attempts \in Nat
          BY <2>1, <5>2 DEF ClosedKind, Txn
        <5>4. new.attempts >= q[i].attempts
          BY <2>6, <4>1, <5>1, <5>2 DEF same
        <5> QED
          BY <2>5, <5>2, <5>3, <5>4
      <4> QED
        BY <2>5, <2>13, <4>1
    <3>2. after[i] = new
      BY <2>1, <2>9
    <3> QED
      BY <2>4, <2>10, <2>13, <3>1, <3>2 DEF AtLeast
  <2> QED
    BY <2>12, <2>13 DEF after
<1> QED
  BY <1>1, <1>2

(***************************************************************************)
(* The reads of a handler leave the counts of another request alone.       *)
(***************************************************************************)
LEMMA EnqueueAllAttempts ==
    ASSUME QueueAssumption, NEW T, ClosedKind(T),
           NEW q \in [Slots -> T \cup {NoTxn}], NoDuplicates(q),
           NEW ts \in Seq(T \cup {NoTxn}), NEW id, NEW n \in Nat, AtLeast(q, id, n),
           \A i \in DOMAIN ts : ts[i] # NoTxn => Identity(ts[i]) # id
    PROVE  AtLeast(EnqueueAll(q, ts), id, n)
<1> DEFINE f == EnqueueSteps(q, ts)
           Good(k) == /\ f[k] \in [Slots -> T \cup {NoTxn}]
                      /\ NoDuplicates(f[k])
                      /\ AtLeast(f[k], id, n)
           S == {k \in 0 .. Len(ts) : ~Good(k)}
<1>1. /\ Len(ts) \in Nat
      /\ \A k \in 1 .. Len(ts) : ts[k] \in T \cup {NoTxn} /\ (ts[k] # NoTxn => Identity(ts[k]) # id)
  OBVIOUS
<1>2. \A k \in 0 .. Len(ts) : f[k] = IF k = 0 THEN q ELSE OneCall(f[k - 1], ts[k])
  BY <1>1, StepsAreRun, RunSteps
<1> HIDE DEF f
<1>3. ASSUME S # {} PROVE FALSE
  <2>1. S \subseteq Nat
    BY <1>1
  <2>2. PICK k \in S : \A m \in S : k <= m
    <3> HIDE DEF S
    <3> QED
      BY <2>1, <1>3, HasLeast
  <2>3. k # 0
    BY <1>1, <1>2
  <2>4. k \in 1 .. Len(ts) /\ k - 1 \in 0 .. Len(ts) /\ k - 1 \notin S
    BY <1>1, <2>2, <2>3
  <2>5. Good(k - 1)
    BY <2>4
  <2>6. /\ f[k] = OneCall(f[k - 1], ts[k]) /\ ts[k] \in T \cup {NoTxn}
        /\ ts[k] # NoTxn => Identity(ts[k]) # id
    BY <1>1, <1>2, <2>3, <2>4
  <2>7. CASE ts[k] = NoTxn
    BY <2>2, <2>5, <2>6, <2>7 DEF OneCall
  <2>8. CASE ts[k] # NoTxn
    <3>1. f[k] = Enqueue(f[k - 1], ts[k]) /\ ts[k] \in T /\ Identity(ts[k]) # id
      BY <2>6, <2>8 DEF OneCall
    <3>2. f[k] \in [Slots -> T \cup {NoTxn}] /\ NoDuplicates(f[k])
      BY <2>5, <3>1, EnqueueKeeps
    <3>3. AtLeast(f[k], id, n)
      BY <2>5, <3>1, EnqueueAttempts
    <3> QED
      BY <2>2, <3>2, <3>3
  <2> QED
    BY <2>7, <2>8
<1>4. Good(Len(ts))
  BY <1>1, <1>3
<1> QED
  BY <1>4 DEF EnqueueAll, f

-----------------------------------------------------------------------------

(***************************************************************************)
(* How often the watched SET has gone out is bounded by its attempt count: *)
(* in flight it was sent once more than it counts, waiting as often as it  *)
(* counts, and a copy that waits behind the one in flight counts nothing   *)
(* until it meets the retry.                                               *)
(***************************************************************************)
SendsInv ==
    /\ sends \in Nat
    /\ IsWatched(hub.current) => sends <= 1 + hub.current.attempts
    /\ ~IsWatched(hub.current) =>
          /\ AtLeast(hub.queue, Watched, sends)
          /\ sends = 0 \/ Watched \in WaitingIds(hub.queue)

\* What a step from hub to h must keep of the counts, n being the sends.
CountsKept(h, n) ==
    /\ ~IsWatched(hub.current) =>
          /\ AtLeast(h.queue, Watched, n)
          /\ IsWatched(h.current) => n <= h.current.attempts
    /\ IsWatched(hub.current) /\ h.hub_state = "BACKOFF" =>
          AtLeast(h.queue, Watched, 1 + hub.current.attempts)

LEMMA RequeuedCounts ==
    ASSUME HubAssumption, QueueAssumption, Sound(HubTxns, hub), hub.current # NoTxn,
           ~Exhausted(hub), NEW n \in Nat,
           ~IsWatched(hub.current) =>
              AtLeast(hub.queue, Watched, n) /\ (n = 0 \/ Watched \in WaitingIds(hub.queue))
    PROVE  CountsKept(Requeued(hub), n)
<1>1. RetriedKind(HubTxns) /\ ClosedKind(HubTxns)
  BY HubKind DEF RetriedKind
<1>2. /\ hub.queue \in [Slots -> HubTxns \cup {NoTxn}] /\ NoDuplicates(hub.queue)
      /\ hub.current \in HubTxns /\ hub.current \in Txn
  BY DEF Sound, HubsOf, HubTxns
<1>3. hub.current.attempts < hub.current.max_retries
  BY <1>2 DEF Exhausted, Again, Txn
<1> DEFINE t == Again(hub)
<1>4. t \in HubTxns
  BY <1>1, <1>2, <1>3 DEF RetriedKind, Again
<1>5. Identity(t) = Identity(hub.current) /\ t.attempts = hub.current.attempts + 1
  BY <1>2 DEF Again, Identity, Txn
<1>6. Requeued(hub).queue = Enqueue(hub.queue, t) /\ Requeued(hub).current = NoTxn
  BY DEF Requeued, Sound, HubsOf
<1> HIDE DEF t
<1>7. /\ AtLeast(hub.queue, Watched, n) /\ (Identity(t) = Watched => n = 0 \/ Watched \in WaitingIds(hub.queue))
            => AtLeast(Enqueue(hub.queue, t), Watched, n)
      /\ AtLeast(Enqueue(hub.queue, t), Identity(t), t.attempts)
  BY <1>1, <1>2, <1>4, QueueAssumption, EnqueueAttempts
<1>8. hub.current.attempts \in Nat
  BY <1>2 DEF Txn
<1>9. IsWatched(hub.current) => AtLeast(Enqueue(hub.queue, t), Watched, 1 + hub.current.attempts)
  <2>1. t.attempts = 1 + hub.current.attempts
    BY <1>5, <1>8
  <2> QED
    BY <1>5, <1>7, <2>1 DEF IsWatched
<1> QED
  BY <1>6, <1>7, <1>9 DEF CountsKept, IsWatched, Present

\* A method that leaves the queue alone or empties it, and does not retry.
LEMMA QuietCounts ==
    ASSUME NEW h, h.queue \in {hub.queue, EmptyQueue}, h.current \in {hub.current, NoTxn},
           h.hub_state # "BACKOFF", NEW n \in Nat,
           ~IsWatched(hub.current) => AtLeast(hub.queue, Watched, n)
    PROVE  CountsKept(h, n)
<1>1. AtLeast(EmptyQueue, Watched, n)
  BY DEF AtLeast, EmptyQueue, Occupied
<1> QED
  BY <1>1 DEF CountsKept, IsWatched, Present

\* fail_current_() is one.
LEMMA FailedQuiet ==
    ASSUME NEW h, h \in HubsOf(HubTxns)
    PROVE  /\ Failed(h).queue \in {h.queue, EmptyQueue}
           /\ Failed(h).current = NoTxn
           /\ Failed(h).hub_state # "BACKOFF"
<1> DEFINE c == FailureCounted(h)
<1>1. c.queue = h.queue /\ c.current = NoTxn /\ c.hub_state = "IDLE"
  BY DEF FailureCounted, Rejected, HubsOf
<1>2. /\ GoneOffline(c).queue = EmptyQueue /\ GoneOffline(c).current = NoTxn
      /\ GoneOffline(c).hub_state = "OFFLINE"
  BY DEF FailureCounted, Rejected, HubsOf, GoneOffline
<1> HIDE DEF c
<1>3. Failed(h) = c \/ Failed(h) = GoneOffline(c)
  BY DEF Failed, c
<1> QED
  BY <1>1, <1>2, <1>3

LEMMA RetriedOrDroppedCounts ==
    ASSUME HubAssumption, QueueAssumption, Sound(HubTxns, hub), hub.current # NoTxn, NEW n \in Nat,
           ~IsWatched(hub.current) =>
              AtLeast(hub.queue, Watched, n) /\ (n = 0 \/ Watched \in WaitingIds(hub.queue))
    PROVE  CountsKept(RetriedOrDropped(hub), n)
<1>1. CASE Exhausted(hub)
  <2>1. RetriedOrDropped(hub) = Failed(hub)
    BY <1>1 DEF RetriedOrDropped
  <2>2. /\ Failed(hub).queue \in {hub.queue, EmptyQueue}
        /\ Failed(hub).current = NoTxn /\ Failed(hub).hub_state # "BACKOFF"
    BY FailedQuiet DEF Sound
  <2> QED
    BY <2>1, <2>2, QuietCounts
<1>2. CASE ~Exhausted(hub)
  BY <1>2, RequeuedCounts DEF RetriedOrDropped
<1> QED
  BY <1>1, <1>2

\* What the later methods of a step do to the counts the earlier ones left.
Carries(g, h) ==
    /\ \A m \in Nat : AtLeast(g.queue, Watched, m) =>
          /\ AtLeast(h.queue, Watched, m)
          /\ h.current = g.current \/ ~IsWatched(h.current) \/ m <= h.current.attempts
    /\ h.hub_state = "BACKOFF" => g.hub_state = "BACKOFF"

LEMMA CarriesCounts ==
    ASSUME Sound(HubTxns, hub), NEW n \in Nat, NEW g, NEW h, CountsKept(g, n), Carries(g, h),
           g.current \in {hub.current, NoTxn}
    PROVE  CountsKept(h, n)
<1>1. ASSUME ~IsWatched(hub.current)
      PROVE  /\ AtLeast(h.queue, Watched, n)
             /\ IsWatched(h.current) => n <= h.current.attempts
  <2>1. ~IsWatched(g.current)
    BY <1>1 DEF IsWatched, Present
  <2> QED
    BY <1>1, <2>1 DEF CountsKept, Carries
<1>2. ASSUME IsWatched(hub.current), h.hub_state = "BACKOFF"
      PROVE  AtLeast(h.queue, Watched, 1 + hub.current.attempts)
  <2>1. 1 + hub.current.attempts \in Nat
    BY <1>2 DEF IsWatched, Present, Sound, HubsOf, HubTxns, Txn
  <2>2. g.hub_state = "BACKOFF"
    BY <1>2 DEF Carries
  <2> QED
    BY <1>2, <2>1, <2>2 DEF CountsKept, Carries
<1> QED
  BY <1>1, <1>2 DEF CountsKept

\* The watched request is a SET: no read has its identity.
LEMMA ReadsUnwatched ==
    ASSUME NEW req, NEW p
    PROVE  Identity(GetTxn(req, p)) # Watched
BY DEF GetTxn, Identity, Watched

LEMMA ProbeCarries ==
    ASSUME HubAssumption, QueueAssumption, NEW h, Sound(HubTxns, h), NEW d
    PROVE  Carries(h, AfterReprobe(h, d))
<1>1. CASE ~ProbeDue(h, d)
  BY <1>1 DEF AfterReprobe, Carries
<1>2. CASE ProbeDue(h, d)
  <2>1. /\ Probed(h).queue = Enqueue(h.queue, ProbeTxn) /\ Probed(h).current = h.current
        /\ Probed(h).hub_state = "IDLE" /\ AfterReprobe(h, d) = Probed(h)
    BY <1>2 DEF AfterReprobe, Probed, Queued, Sound, HubsOf
  <2>2. ClosedKind(HubTxns) /\ ProbeTxn \in HubTxns
    BY HubKind, HubTxnTypes DEF RetriedKind
  <2>3. Identity(ProbeTxn) # Watched
    BY ReadsUnwatched DEF HubAssumption
  <2>4. h.queue \in [Slots -> HubTxns \cup {NoTxn}] /\ NoDuplicates(h.queue)
    BY DEF Sound, HubsOf
  <2>5. \A m \in Nat : AtLeast(h.queue, Watched, m) => AtLeast(Enqueue(h.queue, ProbeTxn), Watched, m)
    BY <2>2, <2>3, <2>4, QueueAssumption, EnqueueAttempts
  <2> QED
    BY <2>1, <2>5 DEF Carries
<1> QED
  BY <1>1, <1>2

LEMMA BurstCarries ==
    ASSUME HubAssumption, QueueAssumption, NEW h, Sound(HubTxns, h)
    PROVE  Carries(h, AfterRefresh(h))
<1>1. CASE ~Bursts(h)
  BY <1>1 DEF AfterRefresh, Carries
<1>2. CASE Bursts(h)
  <2>1. AfterRefresh(h) = QueuedAll(h, Burst)
    BY <1>2 DEF AfterRefresh
  <2>2. /\ AfterRefresh(h).queue = EnqueueAll(h.queue, Burst)
        /\ AfterRefresh(h).current = h.current /\ AfterRefresh(h).hub_state = h.hub_state
    BY <2>1 DEF QueuedAll, Sound, HubsOf
  <2>3. ClosedKind(HubTxns) /\ Burst \in Seq(HubTxns \cup {NoTxn})
    BY HubKind, BurstType DEF RetriedKind
  <2>4. \A i \in DOMAIN Burst : Burst[i] # NoTxn => Identity(Burst[i]) # Watched
    BY ReadsUnwatched DEF Burst
  <2>5. h.queue \in [Slots -> HubTxns \cup {NoTxn}] /\ NoDuplicates(h.queue)
    BY DEF Sound, HubsOf
  <2>6. \A m \in Nat : AtLeast(h.queue, Watched, m) => AtLeast(EnqueueAll(h.queue, Burst), Watched, m)
    BY <2>3, <2>4, <2>5, QueueAssumption, EnqueueAllAttempts
  <2> QED
    BY <2>2, <2>6 DEF Carries
<1> QED
  BY <1>1, <1>2

LEMMA SendCarries ==
    ASSUME HubAssumption, QueueAssumption, NEW h, Sound(HubTxns, h)
    PROVE  Carries(h, SentNext(h))
<1>1. CASE ~CanSend(h)
  BY <1>1 DEF SentNext, Carries
<1>2. CASE CanSend(h)
  <2> DEFINE i == FindNext(h.queue)
             q == [h.queue EXCEPT ![i] = NoTxn]
             after == SentNext(h)
  <2>1. i \in Occupied(h.queue)
    BY <1>2, QueueAssumption, HubKind, NextOutIsTxn DEF RetriedKind
  <2>2. after.queue = q /\ after.current = h.queue[i] /\ after.hub_state = "AWAIT_RESP"
    BY <1>2 DEF SentNext, Sent, NextOut, Sound, HubsOf
  <2> HIDE DEF i, after
  <2>3. \A j \in Occupied(q) : j \in Occupied(h.queue) /\ q[j] = h.queue[j]
    BY <2>1 DEF Occupied, Sound, HubsOf
  <2> HIDE DEF q
  <2>4. ASSUME NEW m \in Nat, AtLeast(h.queue, Watched, m)
        PROVE  AtLeast(q, Watched, m) /\ (IsWatched(h.queue[i]) => m <= h.queue[i].attempts)
    <3>1. h.queue[i] \in HubTxns
      BY <2>1 DEF Occupied, Sound, HubsOf
    <3>2. h.queue[i].attempts \in Nat
      BY <3>1 DEF HubTxns, Txn
    <3> QED
      BY <2>1, <2>3, <2>4, <3>2 DEF AtLeast, IsWatched
  <2> QED
    BY <2>2, <2>4 DEF Carries, after
<1> QED
  BY <1>1, <1>2

LEMMA PassCounts ==
    ASSUME IInv, FinishPass, NEW n \in Nat,
           ~IsWatched(hub.current) =>
              AtLeast(hub.queue, Watched, n) /\ (n = 0 \/ Watched \in WaitingIds(hub.queue))
    PROVE  CountsKept(hub', n)
<1>1. RetriedKind(HubTxns) /\ ClosedKind(HubTxns) /\ Sound(HubTxns, hub)
  BY HubAssumption, HubKind DEF RetriedKind, IInv
<1> DEFINE timed == AfterTimers(hub, due)
<1>2. PICK clock \in ProbeClock(timed) :
        /\ hub' = SentNext(AfterRefresh(AtRefresh(clock)))
        /\ Sound(HubTxns, AtRefresh(clock))
        /\ Sound(HubTxns, AfterRefresh(AtRefresh(clock)))
  BY PassIsComposed
<1> DEFINE probed == AtRefresh(clock)
           updated == AfterRefresh(probed)
<1>3. Sound(HubTxns, timed)
  BY <1>1, QueueAssumption, TransportAssumption, AfterTimersSound
<1>4. CountsKept(timed, n) /\ timed.current \in {hub.current, NoTxn}
  <2>1. CASE hub.hub_state = "AWAIT_RESP" /\ "timeout" \in due
    <3>1. timed = RetriedOrDropped(hub) /\ hub.current # NoTxn
      BY <1>1, <2>1 DEF AfterTimers, Sound, OneInFlight
    <3>2. RetriedOrDropped(hub).current = NoTxn
      <4>1. Failed(hub).current = NoTxn
        BY <1>1, FailedQuiet DEF Sound
      <4>2. Requeued(hub).current = NoTxn
        BY <1>1 DEF Requeued, Sound, HubsOf
      <4> QED
        BY <4>1, <4>2 DEF RetriedOrDropped
    <3> QED
      BY <1>1, <3>1, <3>2, HubAssumption, QueueAssumption, RetriedOrDroppedCounts
  <2>2. CASE ~(hub.hub_state = "AWAIT_RESP" /\ "timeout" \in due)
    <3>1. /\ timed.queue = hub.queue /\ timed.current = hub.current
          /\ timed.hub_state = "BACKOFF" => hub.hub_state = "BACKOFF"
      BY <1>1, <2>2 DEF AfterTimers, Sound, HubsOf
    <3>2. IsWatched(hub.current) => hub.hub_state # "BACKOFF"
      BY <1>1 DEF IsWatched, Present, Sound, OneInFlight
    <3> HIDE DEF timed
    <3> QED
      BY <3>1, <3>2 DEF CountsKept
  <2> QED
    BY <2>1, <2>2
<1>5. Carries(timed, probed) /\ Carries(probed, updated) /\ Carries(updated, hub')
  <2>1. Carries(timed, probed)
    BY <1>3, HubAssumption, QueueAssumption, ProbeCarries DEF AtRefresh
  <2> HIDE DEF probed
  <2>2. Carries(probed, updated)
    BY <1>2, HubAssumption, QueueAssumption, BurstCarries DEF probed
  <2> HIDE DEF updated
  <2>3. Carries(updated, hub')
    BY <1>2, HubAssumption, QueueAssumption, SendCarries DEF updated, probed
  <2> QED
    BY <2>1, <2>2, <2>3
<1> HIDE DEF timed, probed, updated
<1>6. Carries(timed, hub')
  BY <1>5 DEF Carries
<1> QED
  BY <1>1, <1>4, <1>6, CarriesCounts

LEMMA QueuedCounts ==
    ASSUME HubAssumption, QueueAssumption, IInv, NEW t \in HubTxns, NEW n \in Nat,
           ~IsWatched(hub.current) =>
              AtLeast(hub.queue, Watched, n) /\ (n = 0 \/ Watched \in WaitingIds(hub.queue)),
           hub'.queue = Enqueue(hub.queue, t), hub'.current \in {hub.current, NoTxn},
           hub'.hub_state = "BACKOFF" => hub.hub_state = "BACKOFF"
    PROVE  CountsKept(hub', n)
<1>1. ClosedKind(HubTxns)
  BY HubKind DEF RetriedKind
<1>2. hub.queue \in [Slots -> HubTxns \cup {NoTxn}] /\ NoDuplicates(hub.queue)
  BY DEF IInv, Sound, HubsOf
<1>3. AtLeast(hub.queue, Watched, n) /\ (n = 0 \/ Watched \in WaitingIds(hub.queue))
        => AtLeast(Enqueue(hub.queue, t), Watched, n)
  BY <1>1, <1>2, QueueAssumption, EnqueueAttempts
<1>4. IsWatched(hub.current) => hub.hub_state # "BACKOFF"
  BY DEF IsWatched, Present, IInv, Sound, OneInFlight
<1> QED
  BY <1>3, <1>4 DEF CountsKept, IsWatched, Present

(***************************************************************************)
(* Every other step makes one enqueue_() call, queues reads, retries or    *)
(* drops the request in flight, or leaves the queue alone.                 *)
(***************************************************************************)
LEMMA OthersCount ==
    ASSUME IInv, [Next]_vars, ~FinishPass, NEW n \in Nat,
           ~IsWatched(hub.current) =>
              AtLeast(hub.queue, Watched, n) /\ (n = 0 \/ Watched \in WaitingIds(hub.queue))
    PROVE  CountsKept(hub', n)
<1>1. RetriedKind(HubTxns) /\ ClosedKind(HubTxns) /\ Sound(HubTxns, hub)
  BY HubAssumption, HubKind DEF RetriedKind, IInv
<1>2. /\ hub.queue \in [Slots -> HubTxns \cup {NoTxn}] /\ NoDuplicates(hub.queue)
      /\ IsWatched(hub.current) => hub.hub_state # "BACKOFF"
  BY <1>1 DEF Sound, HubsOf, OneInFlight, IsWatched, Present
<1>3. ASSUME hub' = hub PROVE CountsKept(hub', n)
  BY <1>2, <1>3 DEF CountsKept
<1>4. /\ Succeeded(hub).queue = hub.queue /\ Rejected(hub).queue = hub.queue
      /\ Succeeded(hub).current = NoTxn /\ Rejected(hub).current = NoTxn
      /\ Succeeded(hub).hub_state = "IDLE" /\ Rejected(hub).hub_state = "IDLE"
  BY <1>1 DEF Succeeded, Rejected, Sound, HubsOf
<1>5. Sound(HubTxns, Succeeded(hub))
  BY <1>1, TransportAssumption, RejectedSound
<1>6. ASSUME hub' \in {Succeeded(hub), Rejected(hub)} PROVE CountsKept(hub', n)
  BY <1>4, <1>6, QuietCounts
<1>7. CASE Frame
  <2>1. CASE Unsolicited \/ UartConfigRead \/ NothingRead \/ Refused \/ Notified
    BY <1>3, <1>6, <2>1 DEF Unsolicited, UartConfigRead, NothingRead, Refused, Notified
  <2>2. CASE PlatformRead
    <3> DEFINE ts == [i \in DOMAIN ProbeReads |-> GetTxn(ProbeReads[i], 0)]
               h == [Succeeded(hub) EXCEPT !.identified = TRUE]
    <3>1. h.queue = hub.queue /\ h.current = NoTxn /\ h.hub_state = "IDLE" /\ h \in HubsOf(HubTxns)
      BY <1>4, <1>5 DEF Sound, HubsOf
    <3>2. ts \in Seq(HubTxns \cup {NoTxn})
      BY HubAssumption, BurstType
    <3>3. \A i \in DOMAIN ts : Identity(ts[i]) # Watched
      BY ReadsUnwatched
    <3>4. hub' = QueuedAll(h, ts)
      BY <2>2 DEF PlatformRead
    <3> HIDE DEF ts, h
    <3>5. hub'.queue = EnqueueAll(hub.queue, ts) /\ hub'.current = NoTxn /\ hub'.hub_state = "IDLE"
      BY <3>1, <3>4 DEF QueuedAll, HubsOf
    <3>6. AtLeast(hub.queue, Watched, n) => AtLeast(EnqueueAll(hub.queue, ts), Watched, n)
      BY <1>1, <1>2, <3>2, <3>3, QueueAssumption, EnqueueAllAttempts
    <3> QED
      BY <3>5, <3>6 DEF CountsKept, IsWatched, Present
  <2>3. CASE ParamRead
    <3>1. CASE ClaimsBootSource
      <4> DEFINE t == SetTxn(InputSource, BootSource)
      <4>1. t \in HubTxns
        BY <3>1, HubAssumption, HubTxnTypes DEF ClaimsBootSource, ChecksBootSource, HubAssumption
      <4>2. hub' = Queued(Succeeded(hub), t)
        BY <2>3, <3>1 DEF ParamRead
      <4> HIDE DEF t
      <4>3. hub'.queue = Enqueue(hub.queue, t) /\ hub'.current = NoTxn /\ hub'.hub_state = "IDLE"
        <5> HIDE DEF Succeeded
        <5> QED
          BY <1>4, <1>5, <4>2 DEF Queued, Sound, HubsOf
      <4> QED
        BY <4>1, <4>3, HubAssumption, QueueAssumption, QueuedCounts
    <3>2. CASE ~ClaimsBootSource
      BY <1>6, <2>3, <3>2 DEF ParamRead
    <3> QED
      BY <3>1, <3>2
  <2>4. CASE TryLater
    <3>1. hub' = RetriedOrDropped(hub) /\ hub.current # NoTxn
      BY <2>4 DEF TryLater, TakeAnswer, Expects
    <3> QED
      BY <1>1, <3>1, HubAssumption, QueueAssumption, RetriedOrDroppedCounts
  <2> QED
    BY <1>7, <2>1, <2>2, <2>3, <2>4 DEF Frame
<1>8. CASE UserCall
  <2>1. ASSUME NEW p \in Settable, NEW v \in Values, SetParam(p, v)
        PROVE  CountsKept(hub', n)
    <3> DEFINE t == SetTxn(p, v)
    <3>1. t \in HubTxns
      BY HubAssumption, HubTxnTypes DEF HubAssumption
    <3> HIDE DEF t
    <3>2. /\ hub'.queue = Enqueue(hub.queue, t) /\ hub'.current = hub.current
          /\ hub'.hub_state = hub.hub_state
      BY <1>1, <2>1 DEF SetParam, Queued, Sound, HubsOf, t
    <3> QED
      BY <3>1, <3>2, HubAssumption, QueueAssumption, QueuedCounts
  <2>2. CASE RequestRefresh
    BY <1>3, <2>2 DEF RequestRefresh
  <2>3. CASE RequestInputRate
    <3> DEFINE t == GetTxn(InputRate, 1)
    <3>1. t \in HubTxns
      BY HubAssumption, HubTxnTypes DEF HubAssumption, Priorities
    <3> HIDE DEF t
    <3>2. /\ hub'.queue = Enqueue(hub.queue, t) /\ hub'.current = hub.current
          /\ hub'.hub_state = hub.hub_state
      BY <1>1, <2>3 DEF RequestInputRate, Queued, Sound, HubsOf, t
    <3> QED
      BY <3>1, <3>2, HubAssumption, QueueAssumption, QueuedCounts
  <2> QED
    BY <1>8, <2>1, <2>2, <2>3 DEF UserCall, Setter
<1>9. CASE Device \/ Clock \/ UNCHANGED vars
  <2>1. hub' = hub
    BY <1>9 DEF Device, Clock, Tick, Serve, Refuse, Lose, DeviceEvent, DeviceReboot,
                 DeviceChange, DeviceStep, vars
  <2> QED
    BY <1>3, <2>1
<1> QED
  BY <1>7, <1>8, <1>9 DEF Next, LoopPass

LEMMA NextSendsInv ==
    ASSUME IInv, SendsInv, [Next]_vars, IInv', CountSends
    PROVE  SendsInv'
<1>1. CountsKept(hub', sends)
  BY PassCounts, OthersCount DEF SendsInv
<1>2. /\ \A j \in Occupied(hub'.queue) : hub'.queue[j].attempts \in Nat
      /\ IsWatched(hub'.current) => hub'.current.attempts \in Nat /\ hub'.hub_state # "BACKOFF"
      /\ IsWatched(hub.current) => hub.current.attempts \in Nat
  <2>1. Sound(HubTxns, hub) /\ Sound(HubTxns, hub')
    BY DEF IInv
  <2>2. \A t \in HubTxns : t.attempts \in Nat
    BY DEF HubTxns, Txn
  <2>3. \A j \in Occupied(hub'.queue) : hub'.queue[j] \in HubTxns
    BY <2>1 DEF Sound, HubsOf, Occupied
  <2>4. IsWatched(hub'.current) => hub'.current \in HubTxns /\ hub'.hub_state # "BACKOFF"
    BY <2>1 DEF Sound, HubsOf, IsWatched, Present, OneInFlight
  <2>5. IsWatched(hub.current) => hub.current \in HubTxns
    BY <2>1 DEF Sound, HubsOf, IsWatched, Present
  <2> QED
    BY <2>2, <2>3, <2>4, <2>5
<1>3. sends \in Nat
  BY DEF SendsInv
<1>4. AtLeast(hub'.queue, Watched, 0)
  BY <1>2 DEF AtLeast
<1>5. CASE Gone
  <2>1. sends' = 0 /\ ~IsWatched(hub'.current)
    BY <1>5 DEF CountSends, Gone, Transmitted
  <2> QED
    BY <1>4, <2>1 DEF SendsInv
<1>6. CASE Transmitted
  <2>1. sends' = 1 + (IF Ended THEN 0 ELSE sends) /\ IsWatched(hub'.current)
    BY <1>6 DEF CountSends, Gone, Transmitted
  <2>2. CASE Ended
    BY <1>2, <2>1, <2>2 DEF SendsInv
  <2>3. CASE ~Ended
    <3>1. ~IsWatched(hub.current)
      BY <1>2, <1>6, <2>3 DEF Ended, Transmitted
    <3>2. sends <= hub'.current.attempts
      BY <1>1, <2>1, <3>1 DEF CountsKept
    <3> QED
      BY <1>2, <1>3, <2>1, <2>3, <3>2 DEF SendsInv
  <2> QED
    BY <2>2, <2>3
<1>7. CASE ~Gone /\ ~Transmitted
  <2>1. sends' = IF Ended THEN 0 ELSE sends
    BY <1>7 DEF CountSends
  <2>2. CASE IsWatched(hub'.current)
    <3>1. hub'.current = hub.current
      BY <1>7, <2>2 DEF Transmitted
    <3>2. sends' = sends /\ sends <= 1 + hub.current.attempts
      BY <2>1, <2>2, <3>1 DEF Ended, SendsInv
    <3> QED
      BY <1>3, <2>2, <3>1, <3>2 DEF SendsInv
  <2>3. CASE ~IsWatched(hub'.current)
    <3>1. Watched \in WaitingIds(hub'.queue)
      BY <1>7, <2>3 DEF Gone
    <3>2. CASE Ended
      BY <1>4, <2>1, <2>3, <3>1, <3>2 DEF SendsInv
    <3>3. CASE ~Ended /\ IsWatched(hub.current)
      <4>1. hub'.hub_state = "BACKOFF"
        BY <2>3, <3>3 DEF Ended
      <4>2. AtLeast(hub'.queue, Watched, 1 + hub.current.attempts)
        BY <1>1, <3>3, <4>1 DEF CountsKept
      <4>3. sends <= 1 + hub.current.attempts /\ hub.current.attempts \in Nat
        BY <1>2, <3>3 DEF SendsInv
      <4>4. AtLeast(hub'.queue, Watched, sends)
        BY <1>2, <1>3, <4>2, <4>3 DEF AtLeast
      <4> QED
        BY <1>3, <2>1, <2>3, <3>1, <3>3, <4>4 DEF SendsInv
    <3>4. CASE ~Ended /\ ~IsWatched(hub.current)
      BY <1>1, <1>3, <2>1, <2>3, <3>1, <3>4 DEF SendsInv, CountsKept
    <3> QED
      BY <3>2, <3>3, <3>4
  <2> QED
    BY <2>2, <2>3
<1> QED
  BY <1>5, <1>6, <1>7

(***************************************************************************)
(* However retries, evictions and new calls of the setter coalesce, one    *)
(* SET goes out at most 1 + max_retries_ times before it is answered or    *)
(* dropped (enqueue_(), "Keep the higher attempt count of the two").       *)
(***************************************************************************)
THEOREM TransmissionsBoundedHolds == HistorySpec => []TransmissionsBounded
<1>1. HistoryInit => IInv /\ SendsInv
  <2> SUFFICES ASSUME HistoryInit PROVE IInv /\ SendsInv
    OBVIOUS
  <2>1. IInv
    BY InitIInv DEF HistoryInit
  <2>2. hub.current = NoTxn
    BY DEF HistoryInit, Init, Probed, Queued, HubAtStart
  <2>3. \A j \in Occupied(hub.queue) : hub.queue[j].attempts \in Nat
    BY <2>1 DEF IInv, Sound, HubsOf, HubTxns, Txn, Occupied
  <2>4. sends = 0
    BY DEF HistoryInit
  <2> QED
    BY <2>1, <2>2, <2>3, <2>4 DEF SendsInv, AtLeast, IsWatched, Present
<1>2. IInv /\ SendsInv /\ [HistoryNext]_historyVars => (IInv /\ SendsInv)'
  <2> SUFFICES ASSUME IInv, SendsInv, [HistoryNext]_historyVars PROVE IInv' /\ SendsInv'
    OBVIOUS
  <2>1. CASE HistoryNext
    <3>1. Next /\ CountSends
      BY <2>1 DEF HistoryNext, Note, Aside, Next, LoopPass, Frame, UserCall, Setter, Clock, Device
    <3>2. IInv'
      BY <3>1, NextIInv
    <3> QED
      BY <3>1, <3>2, NextSendsInv
  <2>2. CASE UNCHANGED historyVars
    <3>1. UNCHANGED vars /\ sends' = sends
      BY <2>2 DEF historyVars
    <3>2. IInv'
      BY <3>1, NextIInv
    <3>3. hub' = hub
      BY <3>1 DEF vars
    <3> QED
      BY <3>1, <3>2, <3>3 DEF SendsInv
  <2> QED
    BY <2>1, <2>2
<1>3. IInv /\ SendsInv => TransmissionsBounded
  <2> SUFFICES ASSUME IInv, SendsInv PROVE sends <= 1 + MaxRetries
    BY DEF TransmissionsBounded
  <2>1. \A t \in HubTxns : t.attempts \in Nat /\ t.attempts <= MaxRetries
    BY DEF HubTxns, Txn
  <2>2. MaxRetries \in Nat /\ sends \in Nat
    BY HubAssumption DEF HubAssumption, SendsInv
  <2>3. CASE IsWatched(hub.current)
    <3>1. hub.current \in HubTxns
      BY <2>3 DEF IsWatched, Present, IInv, Sound, HubsOf
    <3> QED
      BY <2>1, <2>2, <2>3, <3>1 DEF SendsInv
  <2>4. CASE ~IsWatched(hub.current) /\ sends # 0
    <3>1. PICK j \in Occupied(hub.queue) : Identity(hub.queue[j]) = Watched
      BY <2>4 DEF SendsInv, WaitingIds, Waiting
    <3>2. hub.queue[j] \in HubTxns
      BY DEF IInv, Sound, HubsOf, Occupied
    <3>3. sends <= hub.queue[j].attempts
      BY <2>1, <2>2, <2>4, <3>1, <3>2 DEF SendsInv, AtLeast
    <3> QED
      BY <2>1, <2>2, <3>2, <3>3
  <2> QED
    BY <2>2, <2>3, <2>4
<1> QED
  BY <1>1, <1>2, <1>3, PTL DEF HistorySpec

=============================================================================
