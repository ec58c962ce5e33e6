---------------------------- MODULE HubLinkProofs ----------------------------
(***************************************************************************)
(* What the match by frame type in handle_response_() relies on: when no   *)
(* answer comes after its timeout, the link holds at most one request or   *)
(* answer, and it is that of the transaction in flight.                    *)
(***************************************************************************)
EXTENDS HubProofs, FiniteSetTheorems

IsResponse(i) == i \in DOMAIN rx /\ rx[i].kind # "NOTIFY"

NoResponse == \A i \in DOMAIN rx : rx[i].kind = "NOTIFY"

(***************************************************************************)
(* Attributed is not inductive by itself: an answer comes from a request   *)
(* on the line, which has to be that of the transaction in flight, and the *)
(* only one; and neither may be there when the timeout passes, since the   *)
(* hub then goes on to its next transaction.                               *)
(***************************************************************************)
LinkInv ==
    /\ line # <<>> => /\ Tail(line) = <<>>
                      /\ hub.current # NoTxn /\ Identity(Head(line)) = Identity(hub.current)
                      /\ NoResponse
    /\ \A i, j \in DOMAIN rx : IsResponse(i) /\ IsResponse(j) => i = j
    /\ \A i \in DOMAIN rx : IsResponse(i) =>
          hub.current # NoTxn /\ rx[i].answers = Identity(hub.current)
    /\ "timeout" \in due => line = <<>> /\ NoResponse

LEMMA InitLink == Init => LinkInv
BY DEF Init, LinkInv, IsResponse, NoResponse

(***************************************************************************)
(* A step that touches neither the link nor the transaction in flight.     *)
(***************************************************************************)
LEMMA SameLink ==
    ASSUME LinkInv, line' = line, rx' = rx, hub'.current = hub.current, due' \subseteq due
    PROVE  LinkInv'
BY DEF LinkInv, IsResponse, NoResponse

(***************************************************************************)
(* A notification that arrives, and the frame at the head being taken.     *)
(***************************************************************************)
LEMMA TailOfRx ==
    ASSUME rx \in Seq(Frames), rx # <<>>, rx' = Tail(rx)
    PROVE  \A i \in DOMAIN rx' : i + 1 \in DOMAIN rx /\ rx'[i] = rx[i + 1]
OBVIOUS

LEMMA FrameLink ==
    ASSUME IInv, LinkInv, Frame
    PROVE  LinkInv'
<1>1. TakeFrame /\ rx \in Seq(Frames)
  BY DEF Frame, Unsolicited, PlatformRead, UartConfigRead, ParamRead, NothingRead,
         Refused, TryLater, Notified, TakeAnswer, TakeResponse, IInv, TypeOK
<1>2. \A i \in DOMAIN rx' : i + 1 \in DOMAIN rx /\ i \in Nat /\ rx'[i] = rx[i + 1]
  BY <1>1, TailOfRx DEF TakeFrame
<1>3. 1 \in DOMAIN rx /\ rx[1] = Head(rx) /\ line' = line
  BY <1>1 DEF TakeFrame
<1>4. CASE IsResponse(1)
  <2>1. NoResponse'
    BY <1>2, <1>3, <1>4 DEF LinkInv, IsResponse, NoResponse
  <2>2. line = <<>>
    BY <1>3, <1>4 DEF LinkInv, IsResponse, NoResponse
  <2> QED
    BY <1>3, <2>1, <2>2 DEF LinkInv, NoResponse, IsResponse
<1>5. CASE ~IsResponse(1)
  <2>1. Notified
    BY <1>3, <1>5 DEF Frame, Unsolicited, PlatformRead, UartConfigRead, ParamRead,
       NothingRead, Refused, TryLater, TakeAnswer, TakeResponse, IsResponse
  <2>2. hub' = hub
    BY <2>1 DEF Notified
  <2>3. "timeout" \in due' => "timeout" \in due
    <3>1. due' = (due \ (IF Hint(Head(rx)) THEN {"refresh"} ELSE {})) \cap Armed'
      BY <2>1 DEF Notified, Rearm
    <3> QED
      BY <3>1
  <2>4. NoResponse => NoResponse'
    BY <1>2 DEF NoResponse
  <2>5. \A i \in DOMAIN rx' : IsResponse(i)' => IsResponse(i + 1)
    BY <1>2 DEF IsResponse
  <2>6. \A i, j \in DOMAIN rx' : IsResponse(i)' /\ IsResponse(j)' => i = j
    <3> SUFFICES ASSUME NEW i \in DOMAIN rx', NEW j \in DOMAIN rx', IsResponse(i)', IsResponse(j)'
                 PROVE  i = j
      OBVIOUS
    <3>1. i + 1 = j + 1
      BY <1>2, <2>5 DEF LinkInv
    <3> QED
      BY <1>2, <3>1
  <2>7. \A i \in DOMAIN rx' : IsResponse(i)' =>
          hub'.current # NoTxn /\ rx'[i].answers = Identity(hub'.current)
    BY <1>2, <2>2, <2>5 DEF LinkInv
  <2> QED
    BY <1>3, <2>2, <2>3, <2>4, <2>6, <2>7 DEF LinkInv
<1> QED
  BY <1>4, <1>5

(***************************************************************************)
(* The rest of a pass: a request goes out only when nothing is in flight,  *)
(* or when what was in flight has timed out.                               *)
(***************************************************************************)
LEMMA FinishPassLink ==
    ASSUME IInv, LinkInv, FinishPass
    PROVE  LinkInv'
<1> DEFINE timed == AfterTimers(hub, due)
<1>1. PICK clock \in ProbeClock(timed) :
        LET updated == AfterRefresh(AfterReprobe(timed, clock))
        IN  /\ hub' = SentNext(updated)
            /\ line' = IF CanSend(updated) THEN Append(line, NextOut(updated)) ELSE line
            /\ "timeout" \notin due'
            /\ rx = <<>> /\ rx' = <<>>
  BY DEF FinishPass, Rearm
<1> DEFINE probed == AfterReprobe(timed, clock)
           updated == AfterRefresh(probed)
<1>2. NoResponse' /\ \A i \in DOMAIN rx' : FALSE
  BY <1>1 DEF NoResponse
<1>3. /\ Sound(HubTxns, hub) /\ Sound(HubTxns, timed)
      /\ Sound(HubTxns, probed) /\ Sound(HubTxns, updated)
  <2>1. RetriedKind(HubTxns) /\ ClosedKind(HubTxns) /\ ProbeTxn \in HubTxns
    BY HubAssumption, HubKind, HubTxnTypes DEF RetriedKind
  <2>2. Sound(HubTxns, timed)
    BY <2>1, QueueAssumption, TransportAssumption, AfterTimersSound DEF IInv
  <2>3. Sound(HubTxns, probed)
    BY <2>1, <2>2, QueueAssumption, AfterReprobeSound
  <2> QED
    BY <2>1, <2>2, <2>3, QueueAssumption, HubAssumption, BurstType, QueuedAllSound
    DEF AfterRefresh, IInv
<1>4. updated.current = timed.current
  <2>1. probed.current = timed.current
    <3>1. CASE ProbeDue(timed, clock)
      BY <1>3, <3>1 DEF AfterReprobe, Probed, Queued, Sound, HubsOf
    <3>2. CASE ~ProbeDue(timed, clock)
      BY <3>2 DEF AfterReprobe
    <3> QED
      BY <3>1, <3>2
  <2>2. updated = probed \/ updated = QueuedAll(probed, Burst)
    BY DEF AfterRefresh
  <2>3. QueuedAll(probed, Burst).current = probed.current
    <3> HIDE DEF probed
    <3> QED
      BY <1>3 DEF QueuedAll, Sound, HubsOf
  <2> QED
    BY <2>1, <2>2, <2>3
<1>5. ASSUME line # <<>>
      PROVE  timed.current = hub.current /\ hub.current # NoTxn
  <2>1. "timeout" \notin due /\ hub.current # NoTxn
    BY <1>5 DEF LinkInv
  <2> QED
    BY <2>1, <1>3 DEF AfterTimers, Sound, HubsOf
<1> HIDE DEF updated
<1>6. CASE CanSend(updated)
  <2>1. updated.current = NoTxn
    BY <1>3, <1>6 DEF CanSend, Sound, OneInFlight
  <2>2. line = <<>>
    BY <1>4, <1>5, <2>1
  <2>3. line' = <<NextOut(updated)>> /\ hub'.current = NextOut(updated)
    BY <1>1, <1>3, <1>6, <2>2 DEF SentNext, Sent, Sound, HubsOf, updated
  <2>4. NextOut(updated) \in HubTxns /\ NextOut(updated) # NoTxn
    BY <1>3, <1>6, QueueAssumption, HubAssumption, HubKind, NextOutIsTxn
    DEF RetriedKind, ClosedKind, QueueAssumption
  <2>5. Head(line') = NextOut(updated) /\ Tail(line') = <<>>
    BY <2>3, <2>4
  <2> QED
    BY <1>1, <1>2, <2>3, <2>4, <2>5 DEF LinkInv
<1>7. CASE ~CanSend(updated)
  <2>1. line' = line /\ hub'.current = timed.current
    BY <1>1, <1>4, <1>7 DEF SentNext, updated
  <2>2. line # <<>> => /\ Tail(line) = <<>>
                       /\ hub'.current # NoTxn /\ Identity(Head(line)) = Identity(hub'.current)
    BY <1>5, <2>1 DEF LinkInv
  <2> QED
    BY <1>1, <1>2, <2>1, <2>2 DEF LinkInv
<1> QED
  BY <1>6, <1>7

(***************************************************************************)
(* A deadline that passes.                                                 *)
(***************************************************************************)
LEMMA TickLink ==
    ASSUME IInv, LinkInv, MaxLate = 0, NEW d \in Deadlines, Tick(d)
    PROVE  LinkInv'
<1>1. UNCHANGED <<hub, line, rx>> /\ due' = due \cup {d}
  BY DEF Tick, linkVars
<1>2. CASE d # "timeout"
  BY <1>1, <1>2 DEF LinkInv, IsResponse, NoResponse
<1>3. CASE d = "timeout"
  <2>1. Len(line) + Cardinality(ResponsesIn(rx)) <= 0
    BY <1>3 DEF Tick
  <2>2. rx \in Seq(Frames) /\ line \in Seq(Txn)
    BY DEF IInv, TypeOK
  <2>3. IsFiniteSet(ResponsesIn(rx))
    <3>1. IsFiniteSet(1 .. Len(rx)) /\ ResponsesIn(rx) \subseteq 1 .. Len(rx)
      BY <2>2, FS_Interval DEF ResponsesIn
    <3> QED
      BY <3>1, FS_Subset
  <2>4. Cardinality(ResponsesIn(rx)) \in Nat /\ Len(line) \in Nat
    BY <2>2, <2>3, FS_CardinalityType
  <2>5. Cardinality(ResponsesIn(rx)) = 0 /\ Len(line) = 0
    BY <2>1, <2>4
  <2>6. ResponsesIn(rx) = {} /\ line = <<>>
    BY <2>2, <2>3, <2>5, FS_EmptySet
  <2>7. NoResponse
    BY <2>6 DEF ResponsesIn, NoResponse
  <2> QED
    BY <1>1, <2>6, <2>7 DEF LinkInv, NoResponse, IsResponse
<1> QED
  BY <1>2, <1>3

(***************************************************************************)
(* The public methods only queue.                                          *)
(***************************************************************************)
LEMMA UserCallLink ==
    ASSUME IInv, LinkInv, UserCall
    PROVE  LinkInv'
<1>1. line' = line /\ rx' = rx
  BY DEF UserCall, Setter, SetParam, RequestRefresh, RequestInputRate, Call, linkVars
<1>2. hub'.current = hub.current
  BY DEF UserCall, Setter, SetParam, RequestRefresh, RequestInputRate, Queued, IInv, Sound, HubsOf
<1>3. due' \subseteq due
  BY DEF UserCall, Setter, SetParam, RequestRefresh, RequestInputRate, Rearm
<1> QED
  BY <1>1, <1>2, <1>3, SameLink

(***************************************************************************)
(* The device takes the request off the line before it answers.            *)
(***************************************************************************)
LEMMA AnswerLink ==
    ASSUME IInv, LinkInv, line # <<>>, hub' = hub, due' = due,
           NEW status, NEW data, Answer(status, data)
    PROVE  LinkInv'
<1> DEFINE r == Response(Head(line), status, data)
<1>1. line' = <<>> /\ rx' = Append(rx, r) /\ r.answers = Identity(hub.current)
  BY DEF Answer, LinkInv, Response
<1>2. rx \in Seq(Frames)
  BY DEF IInv, TypeOK
<1> HIDE DEF r
<1>3. \A i \in DOMAIN rx' : \/ i \in DOMAIN rx /\ rx'[i] = rx[i]
                            \/ i = Len(rx) + 1 /\ rx'[i] = r
  BY <1>1, <1>2
<1>4. NoResponse /\ hub.current # NoTxn /\ "timeout" \notin due
  BY DEF LinkInv
<1>5. \A i \in DOMAIN rx' : IsResponse(i)' => i = Len(rx) + 1 /\ rx'[i] = r
  BY <1>3, <1>4 DEF IsResponse, NoResponse
<1> QED
  BY <1>1, <1>4, <1>5 DEF LinkInv

LEMMA NotificationLink ==
    ASSUME IInv, LinkInv, line' = line, hub' = hub, due' = due,
           NEW event, NEW seq, rx' = Append(rx, Notification(event, seq))
    PROVE  LinkInv'
<1> DEFINE r == Notification(event, seq)
<1>1. r.kind = "NOTIFY" /\ rx \in Seq(Frames)
  BY DEF IInv, TypeOK, Notification
<1> HIDE DEF r
<1>2. \A i \in DOMAIN rx' : \/ i \in DOMAIN rx /\ rx'[i] = rx[i]
                            \/ rx'[i].kind = "NOTIFY"
  BY <1>1 DEF r
<1>3. \A i \in DOMAIN rx' : IsResponse(i)' => IsResponse(i) /\ rx'[i] = rx[i]
  BY <1>2 DEF IsResponse
<1>4. NoResponse => NoResponse'
  BY <1>2 DEF NoResponse
<1> QED
  BY <1>3, <1>4 DEF LinkInv, IsResponse

LEMMA DeviceLink ==
    ASSUME IInv, LinkInv, Device
    PROVE  LinkInv'
<1>1. hub' = hub /\ due' = due
  BY DEF Device, Serve, Refuse, Lose, DeviceChange, DeviceEvent, DeviceReboot, DeviceStep
<1>2. CASE Serve \/ Refuse
  <2>1. line # <<>> /\ \E status, data : Answer(status, data)
    BY <1>2 DEF Serve, Refuse
  <2> QED
    BY <1>1, <2>1, AnswerLink
<1>3. ASSUME line' = <<>>, rx' = rx
      PROVE  LinkInv'
  BY <1>1, <1>3 DEF LinkInv, IsResponse, NoResponse
<1>4. CASE Lose
  <2>1. line # <<>> /\ line' = Tail(line) /\ rx' = rx
    BY <1>4 DEF Lose
  <2> QED
    BY <1>3, <2>1 DEF LinkInv
<1>5. CASE DeviceReboot
  BY <1>3, <1>5 DEF DeviceReboot
<1>6. ASSUME NEW event, Emit(event)
      PROVE  LinkInv'
  <2>1. line' = line /\ (rx' = rx \/ rx' = Append(rx, Notification(event, dev_seq)))
    BY <1>6 DEF Emit
  <2> QED
    BY <1>1, <2>1, SameLink, NotificationLink
<1>7. CASE DeviceEvent \/ \E p \in Params, v \in Values : DeviceChange(p, v)
  BY <1>6, <1>7 DEF DeviceEvent, DeviceChange
<1> QED
  BY <1>2, <1>4, <1>5, <1>7 DEF Device

-----------------------------------------------------------------------------

LEMMA NextLink ==
    ASSUME MaxLate = 0, IInv, LinkInv, [Next]_vars
    PROVE  LinkInv'
<1>1. CASE LoopPass
  BY <1>1, FrameLink, FinishPassLink DEF LoopPass
<1>2. CASE Clock
  BY <1>2, TickLink DEF Clock
<1>3. CASE UserCall
  BY <1>3, UserCallLink
<1>4. CASE Device
  BY <1>4, DeviceLink
<1>5. CASE UNCHANGED vars
  BY <1>5, SameLink DEF vars, linkVars
<1> QED
  BY <1>1, <1>2, <1>3, <1>4, <1>5 DEF Next

LEMMA LinkAlways ==
    ASSUME MaxLate = 0
    PROVE  Spec => []LinkInv
<1>1. IInv /\ LinkInv /\ [Next]_vars => LinkInv'
  BY NextLink
<1> QED
  BY <1>1, InitLink, IInvAlways, PTL DEF Spec

(***************************************************************************)
(* When answers come before their timeout or not at all, the response that *)
(* the hub takes answers the transaction in flight, although nothing in it *)
(* says so: through retries, losses, restarts of the device and reprobes,  *)
(* for every queue depth, retry budget and threshold                       *)
(* (handle_response_()).                                                   *)
(***************************************************************************)
THEOREM AttributedHolds ==
    ASSUME MaxLate = 0
    PROVE  Spec => []Attributed
<1>1. LinkInv => Attributed
  BY DEF LinkInv, IsResponse, Attributed, ResponsesIn
<1> QED
  BY <1>1, LinkAlways, PTL

-----------------------------------------------------------------------------

(***************************************************************************)
(* Every permanent refusal that waits to be read is the device's own, of a *)
(* toggle it does not have.  With Attributed this is what makes            *)
(* LatchedOnlyRefused inductive: the on_fail callback latches the request  *)
(* of the transaction in flight, not one the frame names.                  *)
(***************************************************************************)
IsRefusal(frame) ==
    frame.kind # "NOTIFY" /\ frame.status \notin {"OK"} \cup Retryable

RefusalInv ==
    /\ LatchedOnlyRefused
    /\ \A i \in DOMAIN rx :
          IsRefusal(rx[i]) /\ rx[i].answers[2] = "GET" => rx[i].answers[1] \in Missing

LEMMA FrameRefusal ==
    ASSUME IInv, LinkInv, RefusalInv, Frame
    PROVE  RefusalInv'
<1>1. TakeFrame /\ rx \in Seq(Frames)
  BY DEF Frame, Unsolicited, PlatformRead, UartConfigRead, ParamRead, NothingRead,
         Refused, TryLater, Notified, TakeAnswer, TakeResponse, IInv, TypeOK
<1>2. \A i \in DOMAIN rx' : i + 1 \in DOMAIN rx /\ rx'[i] = rx[i + 1]
  BY <1>1, TailOfRx DEF TakeFrame
<1>3. \A i \in DOMAIN rx' :
        IsRefusal(rx'[i]) /\ rx'[i].answers[2] = "GET" => rx'[i].answers[1] \in Missing
  BY <1>2 DEF RefusalInv
<1>4. MarkUnsupported("LINK_FAILED") = {}
  BY DEF MarkUnsupported
<1>5. CASE Refused
  <2>1. /\ 1 \in DOMAIN rx /\ rx[1] = Head(rx)
        /\ Head(rx).kind # "NOTIFY" /\ Head(rx).status \notin {"OK"} \cup Retryable
    BY <1>1, <1>5 DEF Refused, TakeFrame, TakeAnswer, TakeResponse
  <2>2. rx[1].answers = Identity(hub.current)
    BY <2>1 DEF LinkInv, IsResponse
  <2>3. rx[1].answers[1] = hub.current.req /\ rx[1].answers[2] = hub.current.frame_type
    BY <2>2 DEF Identity
  <2>4. hub.current.frame_type = "GET" => hub.current.req \in Missing
    BY <2>1, <2>3 DEF RefusalInv, IsRefusal
  <2>5. MarkUnsupported(Head(rx).status) \subseteq Missing
    BY <2>4 DEF MarkUnsupported
  <2>6. toggle_unsupported' \subseteq Missing
    BY <1>5, <2>5 DEF Refused, RefusalInv, LatchedOnlyRefused
  <2> QED
    BY <1>3, <2>6 DEF RefusalInv, LatchedOnlyRefused
<1>6. CASE TryLater
  BY <1>3, <1>4, <1>6 DEF TryLater, RefusalInv, LatchedOnlyRefused
<1>7. CASE ~Refused /\ ~TryLater
  <2>1. toggle_unsupported' = toggle_unsupported \/ toggle_unsupported' = {}
    BY <1>7 DEF Frame, Unsolicited, PlatformRead, UartConfigRead, ParamRead,
       NothingRead, Notified, pubVars
  <2> QED
    BY <1>3, <2>1 DEF RefusalInv, LatchedOnlyRefused
<1> QED
  BY <1>5, <1>6, <1>7

(***************************************************************************)
(* A step of the hub that reads no frame.                                  *)
(***************************************************************************)
LEMMA SameRefusal ==
    ASSUME RefusalInv, rx' = rx, toggle_unsupported' = toggle_unsupported
    PROVE  RefusalInv'
BY DEF RefusalInv, LatchedOnlyRefused

LEMMA FinishPassRefusal ==
    ASSUME RefusalInv, FinishPass
    PROVE  RefusalInv'
<1>1. MarkUnsupported("LINK_FAILED") = {}
  BY DEF MarkUnsupported
<1>2. rx' = rx /\ toggle_unsupported' = toggle_unsupported
  BY <1>1 DEF FinishPass
<1> QED
  BY <1>2, SameRefusal

(***************************************************************************)
(* A device that refuses nothing it has.                                   *)
(***************************************************************************)
LEMMA AnswerRefusal ==
    ASSUME IInv, RefusalInv, line # <<>>, toggle_unsupported' = toggle_unsupported,
           NEW status, NEW data, Answer(status, data),
           status \notin {"OK"} \cup Retryable => Refuses(Head(line))
    PROVE  RefusalInv'
<1> DEFINE t == Head(line)
           r == Response(t, status, data)
<1>1. rx' = Append(rx, r) /\ rx \in Seq(Frames)
  BY DEF Answer, IInv, TypeOK
<1>2. r.answers = <<t.req, t.frame_type, t.wvalue>> /\ r.status = status
  BY DEF Response, Identity
<1>3. IsRefusal(r) => r.answers[1] \in Missing
  BY <1>2 DEF IsRefusal, Refuses
<1> HIDE DEF r
<1>4. \A i \in DOMAIN rx' : (i \in DOMAIN rx /\ rx'[i] = rx[i]) \/ rx'[i] = r
  BY <1>1
<1> QED
  BY <1>3, <1>4 DEF RefusalInv, LatchedOnlyRefused

LEMMA DeviceRefusal ==
    ASSUME "ERROR" \notin FreeReplies \cup FaultReplies, IInv, RefusalInv, Device
    PROVE  RefusalInv'
<1>1. toggle_unsupported' = toggle_unsupported
  BY DEF Device, Serve, Refuse, Lose, DeviceChange, DeviceEvent, DeviceReboot, DeviceStep,
         pubVars
<1>2. CASE Serve
  <2>1. line # <<>> /\ \E data : Answer("OK", data)
    BY <1>2 DEF Serve
  <2> QED
    BY <1>1, <2>1, AnswerRefusal
<1>3. CASE Refuse
  <2>1. line # <<>> /\ ~May("ERROR")
    BY <1>3 DEF May, Refuse
  <2>2. \/ Answer("BUSY", Nothing)
        \/ Refuses(Head(line)) /\ Answer("ERROR", Nothing)
    BY <1>3, <2>1 DEF Refuse
  <2>3. ASSUME Answer("BUSY", Nothing)
        PROVE  RefusalInv'
    BY <1>1, <2>1, <2>3, AnswerRefusal DEF Retryable
  <2>4. ASSUME Refuses(Head(line)), Answer("ERROR", Nothing)
        PROVE  RefusalInv'
    BY <1>1, <2>1, <2>4, AnswerRefusal
  <2> QED
    BY <2>2, <2>3, <2>4
<1>4. CASE Lose \/ DeviceReboot
  BY <1>1, <1>4, SameRefusal DEF Lose, DeviceReboot
<1>5. ASSUME NEW event, Emit(event)
      PROVE  RefusalInv'
  <2> DEFINE r == Notification(event, dev_seq)
  <2>1. CASE rx' = rx
    BY <1>1, <2>1, SameRefusal
  <2>2. CASE rx' = Append(rx, r)
    <3>1. r.kind = "NOTIFY" /\ rx \in Seq(Frames)
      BY DEF Notification, IInv, TypeOK
    <3> HIDE DEF r
    <3>2. \A i \in DOMAIN rx' : (i \in DOMAIN rx /\ rx'[i] = rx[i]) \/ rx'[i] = r
      BY <2>2, <3>1
    <3> QED
      BY <1>1, <3>1, <3>2 DEF RefusalInv, LatchedOnlyRefused, IsRefusal
  <2> QED
    BY <1>5, <2>1, <2>2 DEF Emit
<1>6. CASE DeviceEvent \/ \E p \in Params, v \in Values : DeviceChange(p, v)
  BY <1>5, <1>6 DEF DeviceEvent, DeviceChange
<1> QED
  BY <1>2, <1>3, <1>4, <1>6 DEF Device

LEMMA NextRefusal ==
    ASSUME "ERROR" \notin FreeReplies \cup FaultReplies,
           IInv, LinkInv, RefusalInv, [Next]_vars
    PROVE  RefusalInv'
<1>1. CASE LoopPass
  BY <1>1, FrameRefusal, FinishPassRefusal DEF LoopPass
<1>2. CASE Clock
  BY <1>2, SameRefusal DEF Clock, Tick, linkVars, pubVars
<1>3. CASE UserCall
  BY <1>3, SameRefusal
  DEF UserCall, Setter, SetParam, RequestRefresh, RequestInputRate, Call, linkVars
<1>4. CASE Device
  BY <1>4, DeviceRefusal
<1>5. CASE UNCHANGED vars
  BY <1>5, SameRefusal DEF vars, linkVars, pubVars
<1> QED
  BY <1>1, <1>2, <1>3, <1>4, <1>5 DEF Next

(***************************************************************************)
(* A toggle is latched as unsupported only when the device refused it:     *)
(* not for a timeout, a busy device, a lost frame or a restart, and not    *)
(* for the refusal of another request, whatever the depth of the queue and *)
(* the retry budget (mark_toggle_unsupported_()).  The device is one that  *)
(* refuses nothing but the toggles it lacks.                               *)
(***************************************************************************)
THEOREM LatchedOnlyRefusedHolds ==
    ASSUME MaxLate = 0, "ERROR" \notin FreeReplies \cup FaultReplies
    PROVE  Spec => []LatchedOnlyRefused
<1>1. Init => RefusalInv
  BY DEF Init, RefusalInv, LatchedOnlyRefused
<1>2. IInv /\ LinkInv /\ RefusalInv /\ [Next]_vars => RefusalInv'
  BY NextRefusal
<1>3. RefusalInv => LatchedOnlyRefused
  BY DEF RefusalInv
<1> QED
  BY <1>1, <1>2, <1>3, LinkAlways, IInvAlways, PTL DEF Spec

=============================================================================
