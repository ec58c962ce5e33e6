-------------------------- MODULE HubReadBackProofs --------------------------
(***************************************************************************)
(* The hub implements ReadBack when answers come before their timeout or   *)
(* not at all: the initial states map to initial states, and every step    *)
(* maps to a step of ReadBack or to none.                                  *)
(*                                                                         *)
(* Then, of HubHistory: a stale value always has a remedy, a lost hint     *)
(* shows, and a hub that has settled agrees with its device.               *)
(***************************************************************************)
EXTENDS HubLinkProofs

(***************************************************************************)
(* The answer to a SET carries no value: or else a usable one could be     *)
(* taken for a reading.                                                    *)
(***************************************************************************)
SetsReadNothing ==
    \A i \in DOMAIN rx : IsResponse(i) /\ rx[i].answers[2] = "SET" => rx[i].data = Nothing

IsSample(i) ==
    /\ IsResponse(i)
    /\ rx[i].answers[1] \in Params /\ rx[i].answers[2] = "GET"
    /\ rx[i].status = "OK" /\ rx[i].data # Short

LEMMA SamplesAre ==
    /\ Samples = {<<rx[i].answers[1], rx[i].data>> : i \in {j \in DOMAIN rx : IsSample(j)}}
    /\ Samples' = {<<rx'[i].answers[1], rx'[i].data>> : i \in {j \in DOMAIN rx' : IsSample(j)'}}
BY DEF Samples, IsSample, IsResponse, ResponsesIn

LEMMA NoneSampled ==
    /\ NoResponse => SampleInRx = Unknown
    /\ NoResponse' => SampleInRx' = Unknown
<1>1. NoResponse => Samples = {}
  BY DEF Samples, NoResponse, ResponsesIn
<1>2. NoResponse' => Samples' = {}
  BY DEF Samples, NoResponse, ResponsesIn
<1> QED
  BY <1>1, <1>2 DEF SampleInRx

LEMMA OneSampled ==
    ASSUME NEW s
    PROVE  /\ Samples = {s} => SampleInRx = s
           /\ Samples' = {s} => SampleInRx' = s
BY DEF SampleInRx

LEMMA SameSample ==
    ASSUME rx' = rx
    PROVE  SampleInRx' = SampleInRx
BY DEF SampleInRx, Samples, ResponsesIn

-----------------------------------------------------------------------------
(* SetsReadNothing is an invariant *)

LEMMA SetsKept ==
    ASSUME IInv, LinkInv, SetsReadNothing, [Next]_vars
    PROVE  SetsReadNothing'
<1>1. ASSUME rx' = rx PROVE SetsReadNothing'
  BY <1>1 DEF SetsReadNothing, IsResponse
<1>2. CASE Frame
  <2>1. TakeFrame /\ rx \in Seq(Frames)
    BY <1>2 DEF Frame, Unsolicited, PlatformRead, UartConfigRead, ParamRead, NothingRead,
           Refused, TryLater, Notified, TakeAnswer, TakeResponse, IInv, TypeOK
  <2>2. \A i \in DOMAIN rx' : i + 1 \in DOMAIN rx /\ rx'[i] = rx[i + 1]
    BY <2>1, TailOfRx DEF TakeFrame
  <2> QED
    BY <2>2 DEF SetsReadNothing, IsResponse
<1>3. ASSUME NEW r, rx' = Append(rx, r),
             r.kind # "NOTIFY" /\ r.answers[2] = "SET" => r.data = Nothing
      PROVE  SetsReadNothing'
  <2>1. rx \in Seq(Frames)
    BY DEF IInv, TypeOK
  <2>2. \A i \in DOMAIN rx' : (i \in DOMAIN rx /\ rx'[i] = rx[i]) \/ rx'[i] = r
    BY <1>3, <2>1
  <2> QED
    BY <1>3, <2>2 DEF SetsReadNothing, IsResponse
<1>4. CASE Serve \/ Refuse
  <2>1. PICK status, data : /\ Answer(status, data) /\ line # <<>>
                            /\ Head(line).frame_type = "SET" => data = Nothing
    BY <1>4 DEF Serve, Refuse, Reading
  <2> DEFINE r == Response(Head(line), status, data)
  <2>2. r.answers[2] = Head(line).frame_type /\ r.data = data
    BY DEF Response, Identity
  <2>3. rx' = Append(rx, r)
    BY <2>1 DEF Answer
  <2> HIDE DEF r
  <2> QED
    BY <1>3, <2>1, <2>2, <2>3
<1>5. ASSUME NEW event, Emit(event) PROVE SetsReadNothing'
  <2>1. Notification(event, dev_seq).kind = "NOTIFY"
    BY DEF Notification
  <2> QED
    BY <1>1, <1>3, <1>5, <2>1 DEF Emit
<1>6. CASE DeviceEvent \/ \E p \in Params, v \in Values : DeviceChange(p, v)
  BY <1>5, <1>6 DEF DeviceEvent, DeviceChange
<1>7. CASE FinishPass \/ Clock \/ UserCall \/ Lose \/ DeviceReboot \/ UNCHANGED vars
  <2>1. rx' = rx
    BY <1>7 DEF FinishPass, Clock, Tick, UserCall, Setter, SetParam, RequestRefresh,
           RequestInputRate, Call, Lose, DeviceReboot, vars, linkVars
  <2> QED
    BY <1>1, <2>1
<1> QED
  BY <1>2, <1>4, <1>6, <1>7 DEF Next, LoopPass, Device

-----------------------------------------------------------------------------
(* The steps of ReadBack, in terms of SampleInRx *)

LEMMA Maps ==
    /\ dev' = dev /\ state' = state /\ SampleInRx' = SampleInRx => [RB!Next]_(RB!vars)
    /\ dev' \in [Params -> Values] /\ state' = state /\ SampleInRx' = SampleInRx => [RB!Next]_(RB!vars)
    /\ dev' = dev /\ state' = state /\ SampleInRx' = Unknown => [RB!Next]_(RB!vars)
<1>1. dev' = dev /\ state' = state /\ SampleInRx' = SampleInRx => UNCHANGED RB!vars
  BY DEF RB!vars
<1>2. dev' \in [Params -> Values] /\ state' = state /\ SampleInRx' = SampleInRx => RB!Change
  BY DEF RB!Change
<1>3. dev' = dev /\ state' = state /\ SampleInRx' = Unknown => RB!Drop
  BY DEF RB!Drop
<1> QED
  BY <1>1, <1>2, <1>3 DEF RB!Next

LEMMA SamplesMap ==
    ASSUME NEW p \in Params, SampleInRx = Unknown, SampleInRx' = <<p, dev[p]>>,
           dev' = dev, state' = state
    PROVE  RB!Next
<1>1. RB!Sample(p)
  BY DEF RB!Sample
<1> QED
  BY <1>1 DEF RB!Next

LEMMA PublishMaps ==
    ASSUME NEW p \in Params, NEW v, SampleInRx = <<p, v>>, <<p, v>> # Unknown,
           state' = [state EXCEPT ![p] = v], SampleInRx' = Unknown, dev' = dev
    PROVE  RB!Next
<1>1. RB!Publish
  BY DEF RB!Publish
<1> QED
  BY <1>1 DEF RB!Next

-----------------------------------------------------------------------------
(* The steps of the device *)

LEMMA AnswerSamples ==
    ASSUME IInv, LinkInv, line # <<>>, NEW status, NEW data, Answer(status, data)
    PROVE  Samples' = IF /\ Head(line).req \in Params /\ Head(line).frame_type = "GET"
                         /\ status = "OK" /\ data # Short
                      THEN {<<Head(line).req, data>>} ELSE {}
<1> DEFINE r == Response(Head(line), status, data)
<1>1. rx' = Append(rx, r) /\ rx \in Seq(Frames)
  BY DEF Answer, IInv, TypeOK
<1>2. /\ r.answers[1] = Head(line).req /\ r.answers[2] = Head(line).frame_type
      /\ r.status = status /\ r.data = data /\ r.kind = Head(line).frame_type
  BY DEF Response, Identity
<1>3. Head(line).frame_type # "NOTIFY"
  BY HeadOfLine DEF HubTxns, Txn
<1>4. NoResponse
  BY DEF LinkInv
<1> HIDE DEF r
<1> PICK n \in Nat : n = Len(rx) + 1
  BY <1>1
<1>5. /\ n \in DOMAIN rx' /\ rx'[n] = r
      /\ \A i \in DOMAIN rx' : (i \in DOMAIN rx /\ rx'[i] = rx[i]) \/ i = n
  BY <1>1
<1>6. \A i \in DOMAIN rx' : IsSample(i)' => i = n
  BY <1>4, <1>5 DEF IsSample, IsResponse, NoResponse
<1>7. IsSample(n)' <=> /\ Head(line).req \in Params /\ Head(line).frame_type = "GET"
                       /\ status = "OK" /\ data # Short
  BY <1>2, <1>3, <1>5 DEF IsSample, IsResponse
<1>8. Samples' = {<<rx'[i].answers[1], rx'[i].data>> : i \in {j \in DOMAIN rx' : IsSample(j)'}}
  BY SamplesAre
<1>9. CASE IsSample(n)'
  <2>1. {j \in DOMAIN rx' : IsSample(j)'} = {n}
    BY <1>5, <1>6, <1>9
  <2>2. Samples' = {<<rx'[n].answers[1], rx'[n].data>>}
    BY <1>8, <2>1
  <2> QED
    BY <1>2, <1>5, <1>7, <1>9, <2>2
<1>10. CASE ~IsSample(n)'
  <2>1. {j \in DOMAIN rx' : IsSample(j)'} = {}
    BY <1>6, <1>10
  <2> QED
    BY <1>7, <1>8, <1>10, <2>1
<1> QED
  BY <1>9, <1>10

LEMMA AnswerMaps ==
    ASSUME IInv, LinkInv, Serve \/ Refuse
    PROVE  [RB!Next]_(RB!vars)
<1> DEFINE t == Head(line)
<1>1. /\ line # <<>> /\ NoResponse /\ state' = state
      /\ t \in HubTxns /\ Applied \in [Params -> Values]
  <2>1. line # <<>>
    BY DEF Serve, Refuse
  <2>2. state' = state
    BY DEF Serve, Refuse, DeviceStep, pubVars
  <2> QED
    BY <2>1, <2>2, HeadOfLine DEF LinkInv
<1>2. SampleInRx = Unknown
  BY <1>1, NoneSampled
<1>3. PICK status, data :
        /\ Answer(status, data)
        /\ \/ status = "OK" /\ dev' = Applied /\ data = Reading(t)
           \/ status # "OK" /\ dev' = dev
           \/ t.frame_type = "SET" /\ dev' = dev
           \/ data = Short /\ dev' = dev
  BY DEF Serve, Refuse
<1>4. CASE /\ t.req \in Params /\ t.frame_type = "GET" /\ status = "OK" /\ data # Short
  <2>1. SampleInRx' = <<t.req, data>>
    <3>1. Samples' = {<<t.req, data>>}
      BY <1>1, <1>3, <1>4, AnswerSamples
    <3> HIDE DEF t
    <3> QED
      BY <3>1, OneSampled
  <2>2. dev' = dev /\ data = dev[t.req]
    <3>1. Applied = dev
      BY <1>4 DEF Applied
    <3> HIDE DEF t
    <3>2. dev' = Applied /\ data = Reading(t)
      BY <1>3, <1>4
    <3>3. Reading(t) = dev[t.req]
      BY <1>4, HubAssumption DEF Reading, HubAssumption
    <3> QED
      BY <3>1, <3>2, <3>3
  <2> HIDE DEF t
  <2> QED
    BY <1>1, <1>2, <1>4, <2>1, <2>2, SamplesMap
<1>5. CASE ~(t.req \in Params /\ t.frame_type = "GET" /\ status = "OK" /\ data # Short)
  <2>1. SampleInRx' = SampleInRx
    BY <1>1, <1>2, <1>3, <1>5, AnswerSamples DEF SampleInRx
  <2>2. dev' = dev \/ dev' = Applied
    BY <1>3
  <2> QED
    BY <1>1, <2>1, <2>2, Maps
<1> QED
  BY <1>4, <1>5

LEMMA DeviceMaps ==
    ASSUME IInv, LinkInv, Device
    PROVE  [RB!Next]_(RB!vars)
<1>1. state' = state /\ dev \in [Params -> Values] /\ rx \in Seq(Frames)
  BY DEF Device, Serve, Refuse, Lose, DeviceChange, DeviceEvent, DeviceReboot, DeviceStep,
     pubVars, IInv, TypeOK
<1>2. CASE Serve \/ Refuse
  BY <1>2, AnswerMaps
<1>3. ASSUME rx' = rx, dev' \in [Params -> Values]
      PROVE  [RB!Next]_(RB!vars)
  BY <1>1, <1>3, SameSample, Maps
<1>4. CASE Lose
  <2>1. Applied \in [Params -> Values]
    BY <1>4, HeadOfLine DEF Lose
  <2> QED
    BY <1>1, <1>3, <1>4, <2>1 DEF Lose
<1>5. CASE DeviceReboot
  BY <1>3, <1>5 DEF DeviceReboot
<1>6. ASSUME NEW event, Emit(event), dev' \in [Params -> Values]
      PROVE  [RB!Next]_(RB!vars)
  <2>1. CASE rx' = rx
    BY <1>3, <1>6, <2>1
  <2>2. CASE rx' = Append(rx, Notification(event, dev_seq))
    <3>1. Notification(event, dev_seq).kind = "NOTIFY"
      BY DEF Notification
    <3>2. \A i \in DOMAIN rx' : \/ i \in DOMAIN rx /\ rx'[i] = rx[i]
                                \/ i \notin DOMAIN rx /\ rx'[i].kind = "NOTIFY"
      <4> HIDE DEF Notification
      <4> QED
        BY <1>1, <2>2, <3>1
    <3>3. DOMAIN rx \subseteq DOMAIN rx'
      BY <1>1, <2>2
    <3>4. Samples' = Samples
      <4>1. \A i \in DOMAIN rx' : IsSample(i)' => i \in DOMAIN rx /\ rx'[i] = rx[i] /\ IsSample(i)
        BY <3>2 DEF IsSample, IsResponse
      <4>2. \A i \in DOMAIN rx : IsSample(i) => i \in DOMAIN rx' /\ rx'[i] = rx[i] /\ IsSample(i)'
        BY <3>2, <3>3 DEF IsSample, IsResponse
      <4> QED
        BY <4>1, <4>2, SamplesAre
    <3>5. SampleInRx' = SampleInRx
      BY <3>4 DEF SampleInRx
    <3> QED
      BY <1>1, <1>6, <3>5, Maps
  <2> QED
    BY <1>6, <2>1, <2>2 DEF Emit
<1>7. CASE DeviceEvent
  BY <1>1, <1>6, <1>7 DEF DeviceEvent
<1>8. ASSUME NEW p \in Params, NEW v \in Values, DeviceChange(p, v)
      PROVE  [RB!Next]_(RB!vars)
  <2>1. dev' \in [Params -> Values]
    BY <1>1, <1>8 DEF DeviceChange
  <2> QED
    BY <1>6, <1>8, <2>1 DEF DeviceChange
<1> QED
  BY <1>2, <1>4, <1>5, <1>7, <1>8 DEF Device

-----------------------------------------------------------------------------
(* The steps of the hub *)

(***************************************************************************)
(* A frame is taken: the only response, if it is one, so that no sample is *)
(* left; or a notification, which is no sample.                            *)
(***************************************************************************)
LEMMA TakenSample ==
    ASSUME IInv, LinkInv, TakeFrame
    PROVE  /\ Head(rx).kind # "NOTIFY" => SampleInRx' = Unknown
           /\ Head(rx).kind = "NOTIFY" => SampleInRx' = SampleInRx
<1>1. rx \in Seq(Frames) /\ rx # <<>> /\ rx' = Tail(rx)
  BY DEF TakeFrame, IInv, TypeOK
<1>2. /\ \A i \in DOMAIN rx' : i \in Nat /\ i + 1 # 1 /\ i + 1 \in DOMAIN rx /\ rx'[i] = rx[i + 1]
      /\ \A j \in DOMAIN rx : j # 1 => j - 1 \in DOMAIN rx' /\ (j - 1) + 1 = j
      /\ 1 \in DOMAIN rx /\ rx[1] = Head(rx)
  BY <1>1
<1>3. ASSUME Head(rx).kind # "NOTIFY"
      PROVE  SampleInRx' = Unknown
  <2>1. NoResponse'
    BY <1>2, <1>3 DEF LinkInv, IsResponse, NoResponse
  <2> QED
    BY <2>1, NoneSampled
<1>4. ASSUME Head(rx).kind = "NOTIFY"
      PROVE  SampleInRx' = SampleInRx
  <2>1. \A i \in DOMAIN rx' : IsSample(i)' => IsSample(i + 1) /\ rx'[i] = rx[i + 1]
    BY <1>2 DEF IsSample, IsResponse
  <2>2. \A j \in DOMAIN rx : IsSample(j) => /\ j - 1 \in DOMAIN rx'
                                            /\ IsSample(j - 1)' /\ rx'[j - 1] = rx[j]
    BY <1>2, <1>4 DEF IsSample, IsResponse
  <2>3. Samples' \subseteq Samples
    BY <1>2, <2>1, SamplesAre
  <2>4. Samples \subseteq Samples'
    BY <2>2, SamplesAre
  <2>5. Samples' = Samples
    BY <2>3, <2>4
  <2> QED
    BY <2>5 DEF SampleInRx
<1> QED
  BY <1>3, <1>4

LEMMA PlatformReadMaps ==
    ASSUME IInv, LinkInv, PlatformRead
    PROVE  [RB!Next]_(RB!vars)
<1>1. /\ TakeFrame /\ Head(rx).kind # "NOTIFY" /\ dev' = dev
      /\ hub.current.req = "PLATFORM"
  BY DEF PlatformRead, TakeAnswer, TakeResponse, TakeFrame, devVars
<1>2. rx # <<>> /\ 1 \in DOMAIN rx /\ rx[1] = Head(rx)
  BY <1>1 DEF TakeFrame, IInv, TypeOK
<1>3. IsResponse(1) /\ rx[1].answers[1] = "PLATFORM"
  BY <1>1, <1>2 DEF IsResponse, LinkInv, Identity
<1>4. Samples = {}
  <2>1. \A i \in DOMAIN rx : ~IsSample(i)
    BY <1>2, <1>3, HubAssumption DEF IsSample, LinkInv, HubAssumption
  <2> QED
    BY <2>1, SamplesAre
<1>5. SampleInRx = Unknown /\ SampleInRx' = Unknown
  BY <1>1, <1>4, TakenSample DEF SampleInRx
<1>6. state' = [p \in Params |-> IF p \in Toggles \cap Params THEN Unknown ELSE state[p]]
  BY DEF PlatformRead
<1>7. RB!Forget
  BY <1>1, <1>5, <1>6 DEF RB!Forget
<1> QED
  BY <1>7 DEF RB!Next

LEMMA ParamReadMaps ==
    ASSUME IInv, LinkInv, SetsReadNothing, ParamRead
    PROVE  [RB!Next]_(RB!vars)
<1> DEFINE p == hub.current.req
           v == Head(rx).data
<1>1. /\ TakeFrame /\ Head(rx).kind # "NOTIFY" /\ dev' = dev
      /\ Head(rx).status = "OK" /\ p \in Params /\ v # Short /\ v # Nothing
      /\ state' = [state EXCEPT ![p] = v]
  BY DEF ParamRead, TakeAnswer, TakeResponse, TakeFrame, Usable, devVars
<1>2. rx \in Seq(Frames) /\ 1 \in DOMAIN rx /\ rx[1] = Head(rx)
  BY <1>1 DEF TakeFrame, IInv, TypeOK
<1>3. IsResponse(1) /\ rx[1].answers = Identity(hub.current)
  BY <1>1, <1>2 DEF IsResponse, LinkInv
<1>4. rx[1] \in Responses
  <2>1. rx[1] \in Frames
    BY <1>2
  <2> QED
    BY <1>1, <1>2, <2>1 DEF Frames, Notifications
<1>5. rx[1].answers[2] = "GET" /\ v \in Data
  BY <1>1, <1>2, <1>3, <1>4 DEF Responses, SetsReadNothing
<1>6. IsSample(1) /\ rx[1].answers[1] = p
  BY <1>1, <1>2, <1>3, <1>5 DEF IsSample, Identity
<1>7. {j \in DOMAIN rx : IsSample(j)} = {1}
  BY <1>2, <1>3, <1>6 DEF IsSample, LinkInv
<1>8. Samples = {<<p, v>>}
  <2>1. Samples = {<<rx[1].answers[1], rx[1].data>>}
    BY <1>7, SamplesAre
  <2> QED
    BY <1>2, <1>6, <2>1
<1>9. <<p, v>> # Unknown
  BY <1>1, <1>5, HubAssumption DEF HubAssumption
<1> HIDE DEF p, v
<1>10. SampleInRx = <<p, v>> /\ SampleInRx' = Unknown
  BY <1>1, <1>8, OneSampled, TakenSample
<1> QED
  BY <1>1, <1>9, <1>10, PublishMaps

LEMMA LoopPassMaps ==
    ASSUME IInv, LinkInv, SetsReadNothing, LoopPass
    PROVE  [RB!Next]_(RB!vars)
<1>1. CASE PlatformRead
  BY <1>1, PlatformReadMaps
<1>2. CASE ParamRead
  BY <1>2, ParamReadMaps
<1>3. CASE Unsolicited \/ UartConfigRead \/ NothingRead \/ Refused \/ TryLater
  <2>1. TakeFrame /\ Head(rx).kind # "NOTIFY" /\ state' = state /\ dev' = dev
    BY <1>3 DEF Unsolicited, UartConfigRead, NothingRead, Refused, TryLater, TakeAnswer,
       TakeResponse, TakeFrame, pubVars, devVars
  <2> QED
    BY <2>1, TakenSample, Maps
<1>4. CASE Notified
  <2>1. TakeFrame /\ Head(rx).kind = "NOTIFY" /\ state' = state /\ dev' = dev
    BY <1>4 DEF Notified, TakeFrame, pubVars, devVars
  <2> QED
    BY <2>1, TakenSample, Maps
<1>5. CASE FinishPass
  <2>1. rx' = rx /\ state' = state /\ dev' = dev
    BY <1>5 DEF FinishPass, devVars
  <2> QED
    BY <2>1, SameSample, Maps
<1> QED
  BY <1>1, <1>2, <1>3, <1>4, <1>5 DEF LoopPass, Frame

-----------------------------------------------------------------------------

LEMMA InitMaps == Init => RB!Init
<1> SUFFICES ASSUME Init PROVE RB!Init
  OBVIOUS
<1>1. rx = <<>> /\ dev \in [Params -> Values] /\ state = [p \in Params |-> Unknown]
  BY DEF Init
<1>2. NoResponse
  BY <1>1 DEF NoResponse
<1>3. SampleInRx = Unknown
  BY <1>2, NoneSampled
<1> QED
  BY <1>1, <1>3 DEF RB!Init

LEMMA InitSets == Init => SetsReadNothing
BY DEF Init, SetsReadNothing, IsResponse

LEMMA NextMaps ==
    ASSUME IInv, LinkInv, SetsReadNothing, [Next]_vars
    PROVE  [RB!Next]_(RB!vars)
<1>1. CASE LoopPass
  BY <1>1, LoopPassMaps
<1>2. CASE Device
  BY <1>2, DeviceMaps
<1>3. CASE Clock \/ UserCall \/ UNCHANGED vars
  <2>1. rx' = rx /\ state' = state /\ dev' = dev
    BY <1>3 DEF Clock, Tick, UserCall, Setter, SetParam, RequestRefresh, RequestInputRate,
       Call, vars, linkVars, pubVars, devVars
  <2> QED
    BY <2>1, SameSample, Maps
<1> QED
  BY <1>1, <1>2, <1>3 DEF Next

(***************************************************************************)
(* With answers that come in time or not at all, whatever is queued,       *)
(* coalesced, evicted, retried or lost, a listener only ever sees what the *)
(* device sampled for that parameter (handle_response_(), the readback     *)
(* handlers and on_platform_()).                                           *)
(***************************************************************************)
THEOREM ImplementsReadBack ==
    ASSUME MaxLate = 0
    PROVE  Spec => PublishesSamples
<1>1. IInv /\ LinkInv /\ SetsReadNothing /\ [Next]_vars => SetsReadNothing'
  BY SetsKept
<1>2. Spec => []SetsReadNothing
  BY <1>1, InitSets, IInvAlways, LinkAlways, PTL DEF Spec
<1>3. IInv /\ LinkInv /\ SetsReadNothing /\ [Next]_vars => [RB!Next]_(RB!vars)
  BY NextMaps
<1> QED
  BY <1>2, <1>3, InitMaps, IInvAlways, LinkAlways, PTL DEF Spec, PublishesSamples, RB!Spec

-----------------------------------------------------------------------------
(* A stale value has a remedy *)

(***************************************************************************)
(* What the hub queues, if its SETs are of S: a SET goes before any read   *)
(* of a parameter.  That no SET of p waits or is in flight is              *)
(* Sound(TxnsSetting(Params \ {p}), hub).                                  *)
(***************************************************************************)
TxnsSetting(S) ==
    {t \in HubTxns :
        /\ t.frame_type = "SET" => t.req \in S /\ t.priority = 0
        /\ t.frame_type = "GET" /\ t.req \in Params => t.priority = 1 /\ t.wvalue = 0}

(***************************************************************************)
(* Requests whose SETs are of S stay so when the transport coalesces and   *)
(* retries them.                                                           *)
(***************************************************************************)
LEMMA SettingKind ==
    ASSUME HubAssumption, NEW S
    PROVE  RetriedKind(TxnsSetting(S)) /\ ClosedKind(TxnsSetting(S))
<1>1. RetriedKind(HubTxns) /\ ClosedKind(HubTxns)
  BY HubKind DEF RetriedKind
<1>2. ASSUME NEW a, NEW b \in TxnsSetting(S), Coalesced(a, b) \in HubTxns
      PROVE  Coalesced(a, b) \in TxnsSetting(S)
  <2>1. b \in Txn
    BY DEF TxnsSetting, HubTxns
  <2> DEFINE c == Coalesced(a, b)
  <2>2. /\ c.frame_type = b.frame_type /\ c.req = b.req
        /\ c.priority = b.priority /\ c.wvalue = b.wvalue
    BY <2>1 DEF Coalesced, Txn
  <2> HIDE DEF c
  <2>3. c \in HubTxns
    BY <1>2 DEF c
  <2>4. c \in TxnsSetting(S)
    BY <2>2, <2>3 DEF TxnsSetting
  <2> QED
    BY <2>4 DEF c
<1>3. TxnsSetting(S) \subseteq HubTxns /\ TxnsSetting(S) \subseteq Txn
  BY DEF TxnsSetting, HubTxns
<1>4. \A t \in TxnsSetting(S) :
        t.attempts < t.max_retries => [t EXCEPT !.attempts = @ + 1] \in TxnsSetting(S)
  <2> SUFFICES ASSUME NEW t \in TxnsSetting(S), t.attempts < t.max_retries
               PROVE  [t EXCEPT !.attempts = @ + 1] \in TxnsSetting(S)
    OBVIOUS
  <2> DEFINE c == [t EXCEPT !.attempts = @ + 1]
  <2>1. c \in HubTxns /\ t \in Txn
    BY <1>1, <1>3 DEF RetriedKind
  <2>2. /\ c.frame_type = t.frame_type /\ c.req = t.req
        /\ c.priority = t.priority /\ c.wvalue = t.wvalue
    BY <2>1 DEF Txn
  <2> HIDE DEF c
  <2>3. c \in TxnsSetting(S)
    BY <2>1, <2>2 DEF TxnsSetting
  <2> QED
    BY <2>3 DEF c
<1>5. \A a, b \in TxnsSetting(S) : Coalesced(a, b) \in TxnsSetting(S)
  BY <1>1, <1>2, <1>3 DEF ClosedKind
<1> QED
  BY <1>3, <1>4, <1>5 DEF RetriedKind, ClosedKind

(***************************************************************************)
(* The requests the hub queues by itself are reads, and a setter's is a    *)
(* SET of its parameter.                                                   *)
(***************************************************************************)
LEMMA SettingTxns ==
    ASSUME HubAssumption, NEW S
    PROVE  /\ ProbeTxn \in TxnsSetting(S)
           /\ Burst \in Seq(TxnsSetting(S) \cup {NoTxn})
           /\ [i \in DOMAIN ProbeReads |-> GetTxn(ProbeReads[i], 0)]
                \in Seq(TxnsSetting(S) \cup {NoTxn})
           /\ GetTxn(InputRate, 1) \in TxnsSetting(S)
           /\ \A p \in S \cap Params, v \in Values : SetTxn(p, v) \in TxnsSetting(S)
<1>1. \A req \in Params : GetTxn(req, 1) \in TxnsSetting(S)
  <2> SUFFICES ASSUME NEW req \in Params PROVE GetTxn(req, 1) \in TxnsSetting(S)
    OBVIOUS
  <2>1. GetTxn(req, 1) \in HubTxns
    BY HubTxnTypes DEF HubAssumption, Priorities
  <2> QED
    BY <2>1 DEF TxnsSetting, GetTxn
<1>2. \A req \in Reqs \ Params : GetTxn(req, 0) \in TxnsSetting(S)
  <2> SUFFICES ASSUME NEW req \in Reqs \ Params PROVE GetTxn(req, 0) \in TxnsSetting(S)
    OBVIOUS
  <2>1. GetTxn(req, 0) \in HubTxns
    BY HubTxnTypes DEF Priorities
  <2> QED
    BY <2>1 DEF TxnsSetting, GetTxn
<1>3. \A p \in S \cap Params, v \in Values : SetTxn(p, v) \in TxnsSetting(S)
  <2> SUFFICES ASSUME NEW p \in S \cap Params, NEW v \in Values
               PROVE  SetTxn(p, v) \in TxnsSetting(S)
    OBVIOUS
  <2>1. SetTxn(p, v) \in HubTxns
    BY HubTxnTypes
  <2> QED
    BY <2>1 DEF TxnsSetting, SetTxn
<1>4. AllReads \in Seq(Params) /\ ProbeReads \in Seq(Reqs \ Params)
  BY DEF AllReads, HubAssumption
<1>5. Burst \in Seq(TxnsSetting(S) \cup {NoTxn})
  <2>1. \A i \in DOMAIN AllReads : Burst[i] \in TxnsSetting(S) \cup {NoTxn}
    BY <1>1, <1>4 DEF Burst
  <2>2. DOMAIN AllReads = 1 .. Len(AllReads) /\ Len(AllReads) \in Nat
    BY <1>4
  <2>3. Burst = [i \in 1 .. Len(AllReads) |-> Burst[i]]
    BY <2>2 DEF Burst
  <2> QED
    BY <2>1, <2>2, <2>3
<1>6. [i \in DOMAIN ProbeReads |-> GetTxn(ProbeReads[i], 0)] \in Seq(TxnsSetting(S) \cup {NoTxn})
  <2>1. \A i \in DOMAIN ProbeReads : GetTxn(ProbeReads[i], 0) \in TxnsSetting(S)
    BY <1>2, <1>4
  <2>2. DOMAIN ProbeReads = 1 .. Len(ProbeReads) /\ Len(ProbeReads) \in Nat
    BY <1>4
  <2> QED
    BY <2>1, <2>2
<1>7. ProbeTxn \in TxnsSetting(S) /\ GetTxn(InputRate, 1) \in TxnsSetting(S)
  BY <1>1, <1>2 DEF HubAssumption
<1> QED
  BY <1>3, <1>5, <1>6, <1>7

(***************************************************************************)
(* A step that is none of a setter leaves no SET behind that was not there *)
(* before: nothing but SetParam and the claim of the boot source makes     *)
(* one, and these ask for a refresh.                                       *)
(***************************************************************************)
LEMMA SettingKept ==
    ASSUME IInv, NEW S, Sound(TxnsSetting(S), hub), [Next]_vars,
           S = Params \/ ~refresh_pending'
    PROVE  Sound(TxnsSetting(S), hub')
<1> DEFINE T == TxnsSetting(S)
<1>1. /\ RetriedKind(T) /\ ClosedKind(T) /\ ProbeTxn \in T
      /\ Burst \in Seq(T \cup {NoTxn})
      /\ [i \in DOMAIN ProbeReads |-> GetTxn(ProbeReads[i], 0)] \in Seq(T \cup {NoTxn})
      /\ GetTxn(InputRate, 1) \in T
      /\ S = Params => \A p \in Params, v \in Values : SetTxn(p, v) \in T
  BY HubAssumption, SettingKind, SettingTxns
<1>2. Sound(T, Succeeded(hub)) /\ Sound(T, Rejected(hub))
  BY TransportAssumption, RejectedSound
<1> HIDE DEF T
<1>3. CASE hub' = hub
  BY <1>3 DEF T
<1>4. CASE FinishPass
  <2>1. PICK clock \in ProbeClock(AfterTimers(hub, due)) :
          hub' = SentNext(AfterRefresh(AfterReprobe(AfterTimers(hub, due), clock)))
    BY <1>4 DEF FinishPass
  <2>2. Sound(T, AfterTimers(hub, due))
    BY <1>1, QueueAssumption, TransportAssumption, AfterTimersSound DEF T
  <2>3. Sound(T, AfterReprobe(AfterTimers(hub, due), clock))
    BY <1>1, <2>2, QueueAssumption, AfterReprobeSound
  <2>4. Sound(T, AfterRefresh(AfterReprobe(AfterTimers(hub, due), clock)))
    BY <1>1, <2>3, QueueAssumption, QueuedAllSound DEF AfterRefresh
  <2> QED
    BY <1>1, <2>1, <2>4, QueueAssumption, SentNextSound DEF T
<1>5. CASE UartConfigRead \/ NothingRead \/ Refused
  BY <1>2, <1>5 DEF UartConfigRead, NothingRead, Refused, T
<1>6. CASE PlatformRead
  <2>1. Sound(T, [Succeeded(hub) EXCEPT !.identified = TRUE])
    <3>1. Succeeded(hub).hub_state = "IDLE"
      BY DEF Succeeded, Rejected, IInv, Sound, HubsOf
    <3> HIDE DEF Succeeded
    <3> QED
      BY <1>2, <3>1 DEF Sound, HubsOf, OneInFlight
  <2> QED
    BY <1>1, <1>6, <2>1, QueueAssumption, QueuedAllSound DEF PlatformRead, T
<1>7. CASE ParamRead
  <2>1. CASE ClaimsBootSource
    <3>1. S = Params
      BY <1>7, <2>1 DEF ParamRead
    <3>2. SetTxn(InputSource, BootSource) \in T
      BY <1>1, <2>1, <3>1, HubAssumption DEF ClaimsBootSource, ChecksBootSource, HubAssumption
    <3> QED
      BY <1>1, <1>2, <1>7, <2>1, <3>2, QueueAssumption, QueuedSound DEF ParamRead, T
  <2>2. CASE ~ClaimsBootSource
    BY <1>2, <1>7, <2>2 DEF ParamRead, T
  <2> QED
    BY <2>1, <2>2
<1>8. CASE TryLater
  <2>1. hub.current # NoTxn
    BY <1>8 DEF TryLater, TakeAnswer, Expects
  <2> QED
    BY <1>1, <1>8, <2>1, QueueAssumption, TransportAssumption, RetriedOrDroppedSound
    DEF TryLater, T
<1>9. ASSUME NEW p \in Settable, NEW v \in Values, SetParam(p, v)
      PROVE  Sound(T, hub')
  <2>1. S = Params /\ hub' = Queued(hub, SetTxn(p, v))
    BY <1>9 DEF SetParam
  <2>2. SetTxn(p, v) \in T
    BY <1>1, <2>1, HubAssumption DEF HubAssumption
  <2> QED
    BY <1>1, <2>1, <2>2, QueueAssumption, QueuedSound DEF T
<1>10. CASE RequestInputRate
  BY <1>1, <1>10, QueueAssumption, QueuedSound DEF RequestInputRate, T
<1>11. CASE Unsolicited \/ Notified \/ Clock \/ RequestRefresh \/ Device \/ UNCHANGED vars
  BY <1>3, <1>11 DEF Unsolicited, Notified, Clock, Tick, RequestRefresh, Device, Serve, Refuse,
     Lose, DeviceChange, DeviceEvent, DeviceReboot, DeviceStep, vars
<1> QED
  BY <1>4, <1>5, <1>6, <1>7, <1>8, <1>9, <1>10, <1>11
  DEF Next, LoopPass, Frame, UserCall, Setter, T

-----------------------------------------------------------------------------
(* What brings a parameter up to date is lost only to another that does *)

\* The hub polls a device that does not notify.
Unannounced == Polling /\ ~dev_notifies /\ ~notifications_active

HintWaits == \E i \in DOMAIN rx : rx[i].kind = "NOTIFY" /\ rx[i].event \in ParamEvents

\* A SET of p is followed by a read of p.
Confirmed(p) ==
    \/ refresh_pending \/ ~hub.identified \/ Unannounced
    \/ Waits(hub, p) \/ p \in unread

\* A remedy other than the read of p in flight, whose sample may be taken
\* already.
LateRemedy(p) == Confirmed(p) \/ HintWaits \/ missed

NoSetOf(p) == Sound(TxnsSetting(Params \ {p}), hub)

IsReading(i, p) ==
    /\ IsResponse(i) /\ rx[i].answers = ReadId(p)
    /\ rx[i].status = "OK" /\ rx[i].data \notin {Short, Nothing}

(***************************************************************************)
(* StaleHasRemedy is not inductive by itself: a SET that waits will make   *)
(* its parameter stale when the device carries it out, and a sample that a *)
(* change has overtaken when it is published.                              *)
(***************************************************************************)
RemedyInv ==
    /\ Sound(TxnsSetting(Params), hub)
    /\ \A p \in BurstParams : NoSetOf(p) \/ Confirmed(p)
    /\ \A p \in BurstParams : state[p] # dev[p] => LateRemedy(p) \/ InFlight(hub, p)
    /\ \A p \in BurstParams, i \in DOMAIN rx :
          IsReading(i, p) /\ rx[i].data # dev[p] => LateRemedy(p)

(***************************************************************************)
(* The remedies, the read in flight apart.                                 *)
(***************************************************************************)
LEMMA RemedyIs ==
    ASSUME NEW p
    PROVE  Remedy(p) <=> LateRemedy(p) \/ InFlight(hub, p)
BY DEF Remedy, LateRemedy, Confirmed, HintWaits, Unannounced

(***************************************************************************)
(* Where a refresh is pending, or the device unidentified, or polled, all  *)
(* is well.                                                                *)
(***************************************************************************)
LEMMA RefreshRemedies ==
    ASSUME Sound(TxnsSetting(Params), hub'),
           refresh_pending' \/ ~hub'.identified \/ Unannounced'
    PROVE  RemedyInv'
<1>1. \A p : Confirmed(p)' /\ LateRemedy(p)'
  BY DEF Confirmed, LateRemedy
<1> QED
  BY <1>1 DEF RemedyInv

(***************************************************************************)
(* The parameters of the burst are among Params, and come to be more of    *)
(* them only in a step that asks for a refresh.                            *)
(***************************************************************************)
LEMMA BurstParamsKept ==
    ASSUME HubAssumption, [Next]_vars
    PROVE  /\ BurstParams \subseteq Params
           /\ refresh_pending' \/ BurstParams' \subseteq BurstParams
<1>1. AllReads \in Seq(Params)
  BY DEF AllReads, HubAssumption
<1>2. BurstParams \subseteq Params
  BY <1>1 DEF BurstParams
<1>3. ASSUME toggle_read_mask' = toggle_read_mask, toggle_unsupported \subseteq toggle_unsupported'
      PROVE  BurstParams' \subseteq BurstParams
  BY <1>3 DEF BurstParams, InBurst
<1>4. CASE PlatformRead \/ Setter \/ RequestRefresh
  <2>1. refresh_pending' = TRUE
    BY <1>4 DEF PlatformRead, Setter, SetParam, RequestRefresh
  <2> QED
    BY <1>2, <2>1
<1>5. CASE ~(PlatformRead \/ Setter \/ RequestRefresh)
  <2>1. toggle_read_mask' = toggle_read_mask /\ toggle_unsupported \subseteq toggle_unsupported'
    BY <1>5 DEF Next, LoopPass, Frame, Unsolicited, UartConfigRead, ParamRead, NothingRead,
       Refused, TryLater, Notified, FinishPass, Clock, Tick, UserCall, RequestInputRate, Call,
       Device, Serve, Refuse, Lose, DeviceEvent, DeviceReboot, DeviceChange, DeviceStep,
       vars, pubVars
  <2> QED
    BY <1>2, <1>3, <2>1
<1> QED
  BY <1>4, <1>5

(***************************************************************************)
(* Whether the device notifies does not change while it runs.              *)
(***************************************************************************)
LEMMA Constants ==
    ASSUME [Next]_vars
    PROVE  dev_notifies' = dev_notifies
BY DEF Next, LoopPass, Frame, Unsolicited, PlatformRead, UartConfigRead, ParamRead, NothingRead,
   Refused, TryLater, Notified, TakeAnswer, TakeResponse, TakeFrame, FinishPass, Clock, Tick,
   UserCall, Setter, SetParam, RequestRefresh, RequestInputRate, Call, Device, Serve, Refuse, Lose,
   DeviceEvent, DeviceReboot, DeviceChange, DeviceStep, vars, devVars

(***************************************************************************)
(* Only on_platform_() identifies the device, and only the burst clears    *)
(* the refresh.                                                            *)
(***************************************************************************)
LEMMA IdentifiedKept ==
    ASSUME IInv, [Next]_vars, ~FinishPass, ~refresh_pending'
    PROVE  ~refresh_pending /\ (hub'.identified => hub.identified)
<1>1. /\ Succeeded(hub).identified = hub.identified
      /\ Rejected(hub).identified = hub.identified
      /\ \A t : Queued(hub, t).identified = hub.identified
      /\ \A t : Queued(Succeeded(hub), t).identified = hub.identified
      /\ RetriedOrDropped(hub).identified => hub.identified
  <2>1. hub = [hub_state |-> hub.hub_state, queue |-> hub.queue, current |-> hub.current,
               consecutive_failures |-> hub.consecutive_failures, identified |-> hub.identified]
    BY DEF IInv, TypeOK, Hubs
  <2> QED
    BY <2>1 DEF Succeeded, Rejected, Queued, RetriedOrDropped, Failed, GoneOffline,
                FailureCounted, Requeued
<1>2. CASE LoopPass
  <2>1. ~PlatformRead /\ Frame
    BY <1>2 DEF PlatformRead, LoopPass
  <2>2. ~refresh_pending
    BY <2>1 DEF Frame, Unsolicited, UartConfigRead, ParamRead, NothingRead, Refused, TryLater,
       Notified
  <2>3. hub'.identified => hub.identified
    BY <1>1, <2>1 DEF Frame, Unsolicited, UartConfigRead, ParamRead, NothingRead, Refused,
       TryLater, Notified
  <2> QED
    BY <2>2, <2>3
<1>3. CASE UserCall
  BY <1>1, <1>3 DEF UserCall, Setter, SetParam, RequestRefresh, RequestInputRate
<1>4. CASE Clock \/ Device \/ UNCHANGED vars
  <2>1. hub' = hub /\ refresh_pending' = refresh_pending
    BY <1>4 DEF Clock, Tick, Device, Serve, Refuse, Lose,
       DeviceEvent, DeviceReboot, DeviceChange, DeviceStep, vars
  <2> QED
    BY <2>1
<1> QED
  BY <1>2, <1>3, <1>4 DEF Next

(***************************************************************************)
(* A hint leaves the receive buffer only by being heard.                   *)
(***************************************************************************)
LEMMA HintsKept ==
    ASSUME IInv, [Next]_vars, HintWaits, ~refresh_pending'
    PROVE  HintWaits'
<1>1. PICK i \in DOMAIN rx : rx[i].kind = "NOTIFY" /\ rx[i].event \in ParamEvents
  BY DEF HintWaits
<1>2. rx \in Seq(Frames)
  BY DEF IInv, TypeOK
<1>3. CASE Frame
  <2>1. TakeFrame
    BY <1>3 DEF Frame, Unsolicited, PlatformRead, UartConfigRead, ParamRead, NothingRead,
       Refused, TryLater, Notified, TakeAnswer, TakeResponse
  <2>2. i # 1
    <3>1. CASE Notified
      <4>1. ~Hint(Head(rx))
        BY <3>1, Zenon DEF Notified
      <4>2. Head(rx).event \notin ParamEvents
        BY <4>1 DEF Hint
      <4> QED
        BY <1>1, <1>2, <4>2
    <3>2. CASE ~Notified
      BY <1>1, <1>2, <1>3, <3>2 DEF Frame, Unsolicited, PlatformRead, UartConfigRead, ParamRead,
         NothingRead, Refused, TryLater, TakeAnswer, TakeResponse
    <3> QED
      BY <3>1, <3>2
  <2>3. rx' = Tail(rx) /\ rx # <<>>
    BY <2>1 DEF TakeFrame
  <2>4. i - 1 \in DOMAIN rx' /\ rx'[i - 1] = rx[i]
    BY <1>2, <2>2, <2>3
  <2> QED
    BY <1>1, <2>4 DEF HintWaits
<1>4. CASE ~Frame
  <2>1. rx' = rx \/ \E r : rx' = Append(rx, r)
    BY <1>4 DEF Next, LoopPass, FinishPass, Clock, Tick, UserCall, Setter, SetParam, RequestRefresh,
       RequestInputRate, Call, Device, Serve, Refuse, Answer, Lose, DeviceEvent, DeviceReboot,
       DeviceChange, Emit, vars, linkVars
  <2>2. i \in DOMAIN rx' /\ rx'[i] = rx[i]
    BY <1>2, <2>1
  <2> QED
    BY <1>1, <2>2 DEF HintWaits
<1> QED
  BY <1>3, <1>4

(***************************************************************************)
(* A step other than the rest of a pass loses no remedy.                   *)
(***************************************************************************)
LEMMA RemediesKept ==
    ASSUME IInv, [Next]_vars, ~FinishPass, NoteReads, NoteHints, NEW p \in Params, dev_notifies
    PROVE  /\ Confirmed(p) => Confirmed(p)'
           /\ LateRemedy(p) => LateRemedy(p)'
           /\ InFlight(hub, p) /\ ~ParamRead => LateRemedy(p)' \/ InFlight(hub', p)
<1>1. CASE refresh_pending' \/ ~hub'.identified
  BY <1>1 DEF Confirmed, LateRemedy
<1>2. CASE ~refresh_pending' /\ hub'.identified
  <2>1. ~refresh_pending /\ hub.identified
    BY <1>2, IdentifiedKept
  <2>2. ~Unannounced
    BY DEF Unannounced
  <2>3. Waits(hub, p) \/ p \in unread => Waits(hub', p) \/ p \in unread'
    BY <1>2 DEF NoteReads, GivenUp
  <2>4. missed => missed'
    BY <1>2 DEF NoteHints
  <2>5. HintWaits => HintWaits'
    BY <1>2, HintsKept
  <2>6. InFlight(hub, p) /\ ~ParamRead => InFlight(hub', p) \/ Waits(hub', p) \/ p \in unread'
    BY <1>2 DEF NoteReads, GivenUp
  <2>7. Waits(hub', p) \/ p \in unread' => Confirmed(p)'
    BY DEF Confirmed
  <2> QED
    BY <2>1, <2>2, <2>3, <2>4, <2>5, <2>6, <2>7 DEF Confirmed, LateRemedy
<1> QED
  BY <1>1, <1>2

-----------------------------------------------------------------------------
(* The rest of a pass *)

(***************************************************************************)
(* A read of a parameter goes out only when no SET waits (find_next_()),   *)
(* and a read that does not go out still waits.                            *)
(***************************************************************************)
LEMMA SentBehindCommands ==
    ASSUME HubAssumption, QueueAssumption, NEW h, Sound(TxnsSetting(Params), h), CanSend(h),
           NEW p \in Params
    PROVE  /\ InFlight(SentNext(h), p) => Sound(TxnsSetting({}), SentNext(h))
           /\ Waits(h, p) => Waits(SentNext(h), p) \/ InFlight(SentNext(h), p)
<1> DEFINE T == TxnsSetting(Params)
           k == FindNext(h.queue)
           s == SentNext(h)
<1>1. ClosedKind(T)
  BY SettingKind
<1>2. NextOut(h) \in T /\ k \in Occupied(h.queue)
  BY <1>1, QueueAssumption, NextOutIsTxn
<1>3. Sound(T, s)
  BY <1>1, QueueAssumption, SentNextSound
<1>4. /\ s.current = NextOut(h) /\ NextOut(h) = h.queue[k]
      /\ s.queue = [h.queue EXCEPT ![k] = NoTxn]
  BY <1>2 DEF SentNext, Sent, NextOut, Sound, HubsOf
<1>5. h.queue \in [Slots -> T \cup {NoTxn}] /\ k \in Slots
  BY <1>2 DEF Sound, HubsOf, Occupied
<1>6. \A i \in Occupied(h.queue) : h.queue[k].priority <= h.queue[i].priority
  <2>1. h.queue \in Queues
    BY <1>1, <1>5 DEF Queues, ClosedKind
  <2> QED
    BY <2>1, QueueAssumption, FindNextOccupied DEF CanSend
<1> HIDE DEF s, k, T
<1>7. ASSUME InFlight(s, p)
      PROVE  Sound(TxnsSetting({}), s)
  <2>1. NextOut(h).frame_type = "GET" /\ NextOut(h).req = p
    BY <1>4, <1>7 DEF InFlight, ReadId, Identity
  <2>2. NextOut(h).priority = 1 /\ NextOut(h) \in TxnsSetting({})
    BY <1>2, <2>1 DEF T, TxnsSetting
  <2>3. \A i \in Slots : s.queue[i] \in TxnsSetting({}) \cup {NoTxn}
    <3> SUFFICES ASSUME NEW i \in Slots, s.queue[i] # NoTxn
                 PROVE  s.queue[i] \in TxnsSetting({})
      OBVIOUS
    <3>1. s.queue[i] = h.queue[i] /\ i \in Occupied(h.queue) /\ h.queue[i] \in T
      BY <1>4, <1>5 DEF Occupied
    <3>2. 1 <= h.queue[i].priority
      BY <1>4, <1>6, <2>2, <3>1
    <3>3. h.queue[i].frame_type # "SET"
      BY <3>1, <3>2 DEF T, TxnsSetting
    <3> QED
      BY <3>1, <3>3 DEF T, TxnsSetting
  <2>4. s.queue \in [Slots -> TxnsSetting({}) \cup {NoTxn}] /\ s.current \in TxnsSetting({})
    BY <1>4, <1>5, <2>2, <2>3
  <2> QED
    BY <1>3, <2>4 DEF Sound, HubsOf
<1>8. ASSUME Waits(h, p), ~InFlight(s, p)
      PROVE  Waits(s, p)
  <2>1. PICK i \in Occupied(h.queue) : Identity(h.queue[i]) = ReadId(p)
    BY <1>8 DEF Waits, WaitingIds, Waiting
  <2>2. NextOut(h) # NoTxn
    BY <1>1, <1>2, QueueAssumption DEF ClosedKind, QueueAssumption
  <2>3. i # k
    BY <1>4, <1>8, <2>1, <2>2 DEF InFlight, Present
  <2>4. i \in Occupied(s.queue) /\ s.queue[i] = h.queue[i]
    BY <1>4, <1>5, <2>1, <2>3 DEF Occupied
  <2> QED
    BY <2>1, <2>4 DEF Waits, WaitingIds, Waiting
<1> QED
  BY <1>7, <1>8 DEF s

(***************************************************************************)
(* Without a timeout, a reprobe and a refresh, a pass does not touch the   *)
(* queue before it sends.                                                  *)
(***************************************************************************)
LEMMA TimersKeepQueue ==
    ASSUME IInv, NEW clock, NEW p, AtRefresh(clock).identified, InFlight(AtRefresh(clock), p)
    PROVE  AtRefresh(clock).queue = hub.queue /\ InFlight(hub, p)
<1> DEFINE timed == AfterTimers(hub, due)
<1>1. hub \in Hubs /\ Sound(HubTxns, timed)
  <2>1. RetriedKind(HubTxns)
    BY HubAssumption, HubKind
  <2> QED
    BY <2>1, QueueAssumption, TransportAssumption, AfterTimersSound DEF IInv, TypeOK
<1>2. AtRefresh(clock) = timed
  <2>1. Probed(timed).identified = timed.identified
    BY <1>1 DEF Probed, Queued, Sound, HubsOf
  <2> HIDE DEF timed
  <2>2. AtRefresh(clock) = AfterReprobe(timed, clock)
    BY DEF AtRefresh, timed
  <2> QED
    BY <2>1, <2>2 DEF AfterReprobe, ProbeDue
<1>3. timed.current # NoTxn /\ Identity(timed.current) = ReadId(p)
  BY <1>2 DEF InFlight, Present
<1>4. ~(hub.hub_state = "AWAIT_RESP" /\ "timeout" \in due)
  <2>1. RetriedOrDropped(hub).current = NoTxn
    BY <1>1 DEF RetriedOrDropped, Failed, GoneOffline, FailureCounted, Rejected, Requeued, Hubs
  <2> QED
    BY <1>3, <2>1 DEF AfterTimers
<1>5. timed.queue = hub.queue /\ timed.current = hub.current
  BY <1>1, <1>4 DEF AfterTimers, Hubs
<1> QED
  BY <1>2, <1>3, <1>5 DEF InFlight, Present

(***************************************************************************)
(* A hub that has only SETs of S has only SETs of a larger set.            *)
(***************************************************************************)
LEMMA FewerSettings ==
    ASSUME NEW S, NEW R, S \subseteq R, NEW h, Sound(TxnsSetting(S), h)
    PROVE  Sound(TxnsSetting(R), h)
<1>1. TxnsSetting(S) \subseteq TxnsSetting(R)
  BY DEF TxnsSetting
<1> QED
  BY <1>1 DEF Sound, HubsOf

(***************************************************************************)
(* A hub that is identified after the rest of a pass was so before, and    *)
(* did not go offline in between.                                          *)
(***************************************************************************)
LEMMA FinishPassIdentified ==
    ASSUME IInv, FinishPass, hub'.identified
    PROVE  hub.identified /\ ~OfflineIn(AfterTimers(hub, due))
<1> DEFINE timed == AfterTimers(hub, due)
<1>1. PICK clock \in ProbeClock(timed) :
        /\ hub' = SentNext(AfterRefresh(AtRefresh(clock)))
        /\ Sound(HubTxns, AtRefresh(clock))
        /\ Sound(HubTxns, AfterRefresh(AtRefresh(clock)))
  BY PassIsComposed
<1>2. hub \in Hubs /\ Sound(HubTxns, timed)
  <2>1. RetriedKind(HubTxns)
    BY HubAssumption, HubKind
  <2> QED
    BY <2>1, QueueAssumption, TransportAssumption, AfterTimersSound DEF IInv, TypeOK
<1>3. AtRefresh(clock).identified
  <2> DEFINE probed == AtRefresh(clock)
  <2> HIDE DEF probed
  <2>1. /\ hub' = SentNext(AfterRefresh(probed))
        /\ Sound(HubTxns, probed) /\ Sound(HubTxns, AfterRefresh(probed))
    BY <1>1 DEF probed
  <2>2. AfterRefresh(probed).identified
    BY <2>1 DEF SentNext, Sent, Sound, HubsOf
  <2>3. QueuedAll(probed, Burst).identified = probed.identified
    BY <2>1 DEF QueuedAll, Sound, HubsOf
  <2> QED
    BY <2>2, <2>3 DEF AfterRefresh, probed
<1>4. timed.identified
  <2>1. Probed(timed).identified = timed.identified
    BY <1>2 DEF Probed, Queued, Sound, HubsOf
  <2> HIDE DEF timed
  <2>2. AtRefresh(clock) = AfterReprobe(timed, clock)
    BY DEF AtRefresh, timed
  <2> QED
    BY <1>3, <2>1, <2>2 DEF AfterReprobe
<1>5. hub.identified
  BY <1>2, <1>4 DEF AfterTimers, RetriedOrDropped, Failed, GoneOffline, FailureCounted,
     Rejected, Requeued, Hubs
<1>6. timed.hub_state # "OFFLINE"
  BY <1>2, <1>4 DEF Sound, OneInFlight
<1> QED
  BY <1>5, <1>6 DEF OfflineIn

(***************************************************************************)
(* The rest of a pass replaces a refresh by the reads of the burst, sends  *)
(* a read of a parameter when no SET is left, and otherwise keeps what     *)
(* waits.                                                                  *)
(***************************************************************************)
LEMMA FinishPassRemedy ==
    ASSUME IInv, LinkInv, RemedyInv, FinishPass, NoteReads, NoteHints, dev_notifies
    PROVE  RemedyInv'
<1>1. Sound(TxnsSetting(Params), hub')
  BY SettingKept DEF RemedyInv, Next, LoopPass
<1>2. CASE refresh_pending' \/ ~hub'.identified
  BY <1>1, <1>2, RefreshRemedies
<1>3. CASE ~refresh_pending' /\ hub'.identified
  <2>1. PICK clock \in ProbeClock(AfterTimers(hub, due)) :
          /\ hub' = SentNext(AfterRefresh(AtRefresh(clock)))
          /\ Sound(HubTxns, AtRefresh(clock))
          /\ Sound(HubTxns, AfterRefresh(AtRefresh(clock)))
          /\ refresh_pending /\ ~refresh_pending' => Bursts(AtRefresh(clock))
    BY PassIsComposed
  <2> DEFINE probed == AtRefresh(clock)
             updated == AfterRefresh(probed)
  <2>2. Sound(TxnsSetting(Params), updated)
    <3>1. /\ RetriedKind(TxnsSetting(Params)) /\ ClosedKind(TxnsSetting(Params))
          /\ ProbeTxn \in TxnsSetting(Params)
          /\ Burst \in Seq(TxnsSetting(Params) \cup {NoTxn})
      BY HubAssumption, SettingKind, SettingTxns
    <3>2. Sound(TxnsSetting(Params), AfterTimers(hub, due))
      BY <3>1, QueueAssumption, TransportAssumption, AfterTimersSound DEF RemedyInv
    <3>3. Sound(TxnsSetting(Params), AtRefresh(clock))
      BY <3>1, <3>2, QueueAssumption, AfterReprobeSound DEF AtRefresh
    <3> QED
      BY <3>1, <3>3, QueueAssumption, QueuedAllSound DEF AfterRefresh
  <2>3. probed.identified /\ updated.identified
    <3>1. updated.identified
      BY <1>3, <2>1, <2>2 DEF SentNext, Sent, Sound, HubsOf
    <3>2. QueuedAll(probed, Burst).identified = probed.identified
      <4> HIDE DEF probed
      <4> QED
        BY <2>1 DEF QueuedAll, Sound, HubsOf, probed
    <3> QED
      BY <3>1, <3>2 DEF AfterRefresh
  <2>4. /\ rx = <<>> /\ rx' = rx /\ state' = state /\ dev' = dev
        /\ toggle_read_mask' = toggle_read_mask /\ toggle_unsupported' = toggle_unsupported
    <3>1. MarkUnsupported("LINK_FAILED") = {}
      BY DEF MarkUnsupported
    <3> QED
      BY <3>1 DEF FinishPass, devVars
  <2>5. BurstParams' = BurstParams /\ BurstParams \subseteq Params
    <3>1. BurstParams \subseteq Params
      BY HubAssumption, BurstParamsKept DEF Next, LoopPass
    <3> QED
      BY <2>4, <3>1 DEF BurstParams, InBurst
  <2>6. hub.identified
    BY <1>3, FinishPassIdentified
  <2>7. \A p \in BurstParams, i \in DOMAIN rx' : FALSE
    BY <2>4
  <2>8. CASE refresh_pending
    <3>1. Bursts(probed) /\ updated = QueuedAll(probed, Burst)
      BY <1>3, <2>1, <2>8 DEF AfterRefresh
    <3>2. ASSUME NEW p \in BurstParams
          PROVE  Waits(hub', p) \/ (InFlight(hub', p) /\ NoSetOf(p)')
      <4>1. PICK i \in DOMAIN AllReads : InBurst(i) /\ AllReads[i] = p
        BY DEF BurstParams
      <4>2. i \in DOMAIN Burst /\ Identity(Burst[i]) = ReadId(p)
        BY <4>1 DEF Burst, GetTxn, Identity, ReadId
      <4> HIDE DEF probed
      <4>3. Waits(updated, p)
        BY <2>1, <3>1, <4>1, <4>2, HubAssumption, QueueAssumption, BurstFits DEF Waits, probed
      <4> HIDE DEF updated
      <4>4. CASE CanSend(updated)
        <5>1. /\ Waits(hub', p) \/ InFlight(hub', p)
              /\ InFlight(hub', p) => Sound(TxnsSetting({}), hub')
          BY <2>1, <2>2, <2>5, <4>3, <4>4, HubAssumption, QueueAssumption, SentBehindCommands
          DEF updated, probed
        <5> QED
          BY <5>1, FewerSettings DEF NoSetOf
      <4>5. CASE ~CanSend(updated)
        BY <2>1, <4>3, <4>5 DEF SentNext, updated, probed
      <4> QED
        BY <4>4, <4>5
    <3>3. \A p \in BurstParams : (NoSetOf(p) \/ Confirmed(p))'
                                  /\ (LateRemedy(p)' \/ InFlight(hub', p))
      BY <3>2 DEF Confirmed, LateRemedy
    <3> QED
      BY <1>1, <2>5, <2>7, <3>3 DEF RemedyInv
  <2>9. CASE ~refresh_pending
    <3>1. updated = probed
      BY <2>9 DEF AfterRefresh, Bursts
    <3>2. ~ParamRead /\ ~HintWaits /\ ~Unannounced
      BY <2>4 DEF ParamRead, TakeAnswer, TakeResponse, TakeFrame, HintWaits, Unannounced
    <3>3. ASSUME NEW p \in Params
          PROVE  /\ p \in unread => Confirmed(p)'
                 /\ Waits(hub, p) => Confirmed(p)' \/ InFlight(hub', p)
                 /\ InFlight(hub, p) => Confirmed(p)' \/ InFlight(hub', p)
      BY <1>3, <3>2 DEF NoteReads, GivenUp, Confirmed
    <3>4. missed => missed'
      BY <1>3 DEF NoteHints
    <3>5. ASSUME NEW p \in BurstParams, state'[p] # dev'[p]
          PROVE  LateRemedy(p)' \/ InFlight(hub', p)
      <4>1. LateRemedy(p) \/ InFlight(hub, p)
        BY <2>4, <3>5 DEF RemedyInv
      <4> QED
        BY <2>5, <2>6, <2>9, <3>2, <3>3, <3>4, <4>1 DEF LateRemedy, Confirmed
    <3>6. ASSUME NEW p \in BurstParams
          PROVE  NoSetOf(p)' \/ Confirmed(p)'
      <4>1. CASE NoSetOf(p)
        BY <1>3, <4>1, SettingKept DEF NoSetOf, Next, LoopPass
      <4>2. CASE p \in unread
        BY <2>5, <3>3, <4>2
      <4>3. CASE Waits(hub, p) /\ ~Confirmed(p)'
        <5>1. InFlight(hub', p) /\ ~Waits(hub', p)
          BY <2>5, <3>3, <4>3 DEF Confirmed
        <5>2. CASE CanSend(updated)
          <6>1. Sound(TxnsSetting({}), hub')
            BY <2>1, <2>2, <2>5, <5>1, <5>2, HubAssumption, QueueAssumption, SentBehindCommands
          <6> QED
            BY <6>1, FewerSettings DEF NoSetOf
        <5>3. CASE ~CanSend(updated)
          <6>1. hub' = probed
            BY <2>1, <3>1, <5>3 DEF SentNext
          <6>2. probed.queue = hub.queue
            BY <2>3, <5>1, <6>1, TimersKeepQueue
          <6> QED
            BY <4>3, <5>1, <6>1, <6>2 DEF Waits
        <5> QED
          BY <5>2, <5>3
      <4>4. NoSetOf(p) \/ Waits(hub, p) \/ p \in unread
        BY <2>6, <2>9, <3>2 DEF RemedyInv, Confirmed
      <4> QED
        BY <4>1, <4>2, <4>3, <4>4
    <3> QED
      BY <1>1, <2>5, <2>7, <3>5, <3>6 DEF RemedyInv
  <2> QED
    BY <2>8, <2>9
<1> QED
  BY <1>2, <1>3

-----------------------------------------------------------------------------
(* The other steps *)

LEMMA ReadingKept ==
    ASSUME IInv, TakeFrame, NEW p, NEW i \in DOMAIN rx', IsReading(i, p)'
    PROVE  i + 1 \in DOMAIN rx /\ rx'[i] = rx[i + 1] /\ IsReading(i + 1, p)
<1>1. rx \in Seq(Frames) /\ rx # <<>> /\ rx' = Tail(rx)
  BY DEF TakeFrame, IInv, TypeOK
<1>2. i + 1 \in DOMAIN rx /\ rx'[i] = rx[i + 1]
  BY <1>1, TailOfRx
<1> QED
  BY <1>2 DEF IsReading, IsResponse

(***************************************************************************)
(* The value that is published was sampled before or after the parameter   *)
(* changed last, and in the first case the change has left its hint.       *)
(***************************************************************************)
LEMMA ParamReadRemedy ==
    ASSUME IInv, LinkInv, SetsReadNothing, RemedyInv, ParamRead, NEW p \in BurstParams,
           state'[p] # dev'[p]
    PROVE  LateRemedy(p) \/ (hub.current.req # p /\ InFlight(hub, p))
<1> DEFINE r == hub.current.req
           v == Head(rx).data
<1>1. /\ TakeFrame /\ Head(rx).kind # "NOTIFY" /\ dev' = dev
      /\ Head(rx).status = "OK" /\ v \notin {Short, Nothing}
      /\ r \in Params /\ state' = [state EXCEPT ![r] = v] /\ hub.current # NoTxn
  BY DEF ParamRead, TakeAnswer, TakeResponse, TakeFrame, Usable, Expects, devVars
<1>2. state \in [Params -> Data \cup {Unknown}] /\ 1 \in DOMAIN rx /\ rx[1] = Head(rx)
  BY <1>1 DEF TakeFrame, IInv, TypeOK
<1>3. CASE r # p
  <2>1. state'[p] = state[p]
    BY <1>1, <1>2, <1>3
  <2> QED
    BY <1>1, <1>3, <2>1 DEF RemedyInv
<1>4. CASE r = p
  <2>1. IsResponse(1) /\ rx[1].answers = Identity(hub.current)
    BY <1>1, <1>2 DEF IsResponse, LinkInv
  <2>2. hub.current \in TxnsSetting(Params)
    BY <1>1 DEF RemedyInv, Sound, HubsOf
  <2>3. hub.current.frame_type = "GET"
    <3>1. rx[1].answers[2] = hub.current.frame_type
      BY <2>1 DEF Identity
    <3>2. hub.current.frame_type # "SET"
      BY <1>1, <1>2, <2>1, <3>1 DEF SetsReadNothing
    <3> QED
      BY <2>2, <3>2 DEF TxnsSetting, HubTxns, Txn
  <2>4. rx[1].answers = ReadId(p)
    BY <1>1, <1>4, <2>1, <2>2, <2>3 DEF TxnsSetting, Identity, ReadId
  <2>5. IsReading(1, p)
    BY <1>1, <1>2, <2>1, <2>4 DEF IsReading
  <2>6. state'[p] = v
    BY <1>1, <1>2, <1>4
  <2> QED
    BY <1>1, <1>2, <2>5, <2>6 DEF RemedyInv
<1> QED
  BY <1>3, <1>4

(***************************************************************************)
(* The hub takes a frame.                                                  *)
(***************************************************************************)
LEMMA FrameRemedy ==
    ASSUME IInv, LinkInv, SetsReadNothing, RemedyInv, Frame, ~FinishPass, NoteReads, NoteHints,
           dev_notifies
    PROVE  RemedyInv'
<1>1. [Next]_vars
  BY DEF Next, LoopPass
<1>2. Sound(TxnsSetting(Params), hub')
  BY <1>1, SettingKept DEF RemedyInv
<1>3. CASE refresh_pending'
  BY <1>2, <1>3, RefreshRemedies
<1>4. CASE ~refresh_pending'
  <2>1. BurstParams' \subseteq BurstParams /\ BurstParams \subseteq Params
    BY <1>1, <1>4, HubAssumption, BurstParamsKept
  <2>2. TakeFrame /\ dev' = dev
    BY DEF Frame, Unsolicited, PlatformRead, UartConfigRead, ParamRead, NothingRead,
           Refused, TryLater, Notified, TakeAnswer, TakeResponse, TakeFrame, devVars
  <2>3. \A p \in BurstParams : /\ Confirmed(p) => Confirmed(p)'
                               /\ LateRemedy(p) => LateRemedy(p)'
                               /\ InFlight(hub, p) /\ ~ParamRead => LateRemedy(p)' \/ InFlight(hub', p)
    BY <1>1, <2>1, RemediesKept
  <2>4. ASSUME NEW p \in BurstParams
        PROVE  (NoSetOf(p) \/ Confirmed(p))'
    BY <1>1, <1>4, <2>3, SettingKept DEF RemedyInv, NoSetOf
  <2>5. ASSUME NEW p \in BurstParams, state'[p] # dev'[p]
        PROVE  LateRemedy(p)' \/ InFlight(hub', p)
    <3>1. CASE ParamRead
      <4>1. LateRemedy(p)
        BY <2>5, <3>1, ParamReadRemedy DEF InFlight, Identity, ReadId
      <4> QED
        BY <2>3, <4>1
    <3>2. CASE ~ParamRead
      <4>1. state' = state
        BY <1>4, <3>2 DEF Frame, Unsolicited, PlatformRead, UartConfigRead, NothingRead,
           Refused, TryLater, Notified, pubVars
      <4> QED
        BY <2>2, <2>3, <2>5, <3>2, <4>1 DEF RemedyInv
    <3> QED
      BY <3>1, <3>2
  <2>6. ASSUME NEW p \in BurstParams, NEW i \in DOMAIN rx', IsReading(i, p)', rx'[i].data # dev'[p]
        PROVE  LateRemedy(p)'
    <3>1. i + 1 \in DOMAIN rx /\ rx'[i] = rx[i + 1] /\ IsReading(i + 1, p)
      BY <2>2, <2>6, ReadingKept
    <3> QED
      BY <2>2, <2>3, <2>6, <3>1 DEF RemedyInv
  <2> QED
    BY <1>2, <2>1, <2>4, <2>5, <2>6 DEF RemedyInv
<1> QED
  BY <1>3, <1>4

(***************************************************************************)
(* A step that leaves the device, the link and what is published alone.    *)
(***************************************************************************)
LEMMA QuietRemedy ==
    ASSUME IInv, LinkInv, RemedyInv, [Next]_vars, ~FinishPass, ~Frame, NoteReads, NoteHints,
           dev_notifies, state' = state, dev' = dev, rx' = rx
    PROVE  RemedyInv'
<1>1. ~ParamRead
  BY DEF Frame
<1>2. Sound(TxnsSetting(Params), hub')
  BY SettingKept DEF RemedyInv
<1>3. CASE refresh_pending'
  BY <1>2, <1>3, RefreshRemedies
<1>4. CASE ~refresh_pending'
  <2>1. BurstParams' \subseteq BurstParams /\ BurstParams \subseteq Params
    BY <1>4, HubAssumption, BurstParamsKept
  <2>2. \A p \in BurstParams : /\ Confirmed(p) => Confirmed(p)'
                               /\ LateRemedy(p) => LateRemedy(p)'
                               /\ InFlight(hub, p) => LateRemedy(p)' \/ InFlight(hub', p)
    BY <1>1, <2>1, RemediesKept
  <2>3. ASSUME NEW p \in BurstParams
        PROVE  (NoSetOf(p) \/ Confirmed(p))'
    BY <1>4, <2>2, SettingKept DEF RemedyInv, NoSetOf
  <2>4. ASSUME NEW p \in BurstParams, state'[p] # dev'[p]
        PROVE  LateRemedy(p)' \/ InFlight(hub', p)
    BY <2>2, <2>4 DEF RemedyInv
  <2>5. ASSUME NEW p \in BurstParams, NEW i \in DOMAIN rx', IsReading(i, p)', rx'[i].data # dev'[p]
        PROVE  LateRemedy(p)'
    BY <2>2, <2>5 DEF RemedyInv, IsReading, IsResponse
  <2> QED
    BY <1>2, <2>1, <2>3, <2>4, <2>5 DEF RemedyInv
<1> QED
  BY <1>3, <1>4

(***************************************************************************)
(* A step of the device keeps what the hub has, so that only a change of   *)
(* its values and a new answer matter.                                     *)
(***************************************************************************)
LEMMA DeviceKeeps ==
    ASSUME IInv, LinkInv, RemedyInv, Device, ~FinishPass, NoteReads, NoteHints, dev_notifies,
           ~refresh_pending'
    PROVE  /\ hub' = hub /\ state' = state /\ BurstParams' = BurstParams
           /\ BurstParams \subseteq Params
           /\ \A p \in BurstParams : /\ (NoSetOf(p) \/ Confirmed(p))'
                                     /\ Confirmed(p) => LateRemedy(p)'
                                     /\ LateRemedy(p) => LateRemedy(p)'
<1>1. [Next]_vars
  BY DEF Next
<1>2. /\ hub' = hub /\ state' = state
      /\ toggle_read_mask' = toggle_read_mask /\ toggle_unsupported' = toggle_unsupported
  BY DEF Device, Serve, Refuse, Lose, DeviceEvent, DeviceReboot, DeviceChange, DeviceStep, pubVars
<1>3. BurstParams' = BurstParams /\ BurstParams \subseteq Params
  BY <1>1, <1>2, HubAssumption, BurstParamsKept DEF BurstParams, InBurst
<1>4. \A p \in BurstParams : /\ Confirmed(p) => Confirmed(p)'
                             /\ LateRemedy(p) => LateRemedy(p)'
  BY <1>1, <1>3, RemediesKept
<1>5. \A p \in BurstParams : (NoSetOf(p) \/ Confirmed(p))'
  BY <1>2, <1>4 DEF RemedyInv, NoSetOf
<1> QED
  BY <1>2, <1>3, <1>4, <1>5 DEF LateRemedy

(***************************************************************************)
(* The request on the line is that of the transaction in flight: a SET of  *)
(* p changes p on the device only when p is about to be read.              *)
(***************************************************************************)
LEMMA AppliedConfirmed ==
    ASSUME IInv, LinkInv, RemedyInv, line # <<>>, NEW p \in BurstParams, Applied[p] # dev[p]
    PROVE  Confirmed(p)
<1>1. Head(line).frame_type = "SET" /\ Head(line).req = p
  BY DEF Applied, IInv, TypeOK
<1>2. hub.current # NoTxn /\ hub.current.frame_type = "SET" /\ hub.current.req = p
  BY <1>1 DEF LinkInv, Identity
<1>3. ~NoSetOf(p)
  BY <1>2 DEF NoSetOf, Sound, HubsOf, TxnsSetting
<1> QED
  BY <1>3 DEF RemedyInv

(***************************************************************************)
(* The device carries out or loses the request on the line: there is no    *)
(* other answer, and the new one is the value it has now.                  *)
(***************************************************************************)
LEMMA ServeRemedy ==
    ASSUME IInv, LinkInv, RemedyInv, Serve \/ Refuse \/ Lose, ~FinishPass, NoteReads, NoteHints,
           dev_notifies
    PROVE  RemedyInv'
<1>1. Device /\ [Next]_vars
  BY DEF Device, Next
<1>2. Sound(TxnsSetting(Params), hub')
  BY <1>1, SettingKept DEF RemedyInv
<1>3. CASE refresh_pending'
  BY <1>2, <1>3, RefreshRemedies
<1>4. CASE ~refresh_pending'
  <2>1. /\ hub' = hub /\ state' = state /\ BurstParams' = BurstParams
        /\ BurstParams \subseteq Params
        /\ \A p \in BurstParams : /\ (NoSetOf(p) \/ Confirmed(p))'
                                  /\ Confirmed(p) => LateRemedy(p)'
                                  /\ LateRemedy(p) => LateRemedy(p)'
    BY <1>1, <1>4, DeviceKeeps
  <2>2. line # <<>> /\ NoResponse /\ rx \in Seq(Frames) /\ (dev' = dev \/ dev' = Applied)
    BY DEF Serve, Refuse, Lose, LinkInv, IInv, TypeOK
  <2>3. ASSUME NEW p \in BurstParams, state'[p] # dev'[p]
        PROVE  LateRemedy(p)' \/ InFlight(hub', p)
    <3>1. CASE dev'[p] = dev[p]
      BY <2>1, <2>3, <3>1 DEF RemedyInv
    <3>2. CASE dev'[p] # dev[p]
      BY <2>1, <2>2, <3>2, AppliedConfirmed
    <3> QED
      BY <3>1, <3>2
  <2>4. ASSUME NEW p \in BurstParams, NEW i \in DOMAIN rx', IsReading(i, p)', rx'[i].data # dev'[p]
        PROVE  LateRemedy(p)'
    <3>1. CASE Lose
      BY <2>2, <2>4, <3>1 DEF Lose, IsReading, IsResponse, NoResponse
    <3>2. CASE Serve \/ Refuse
      <4>1. PICK status, data :
              /\ Answer(status, data)
              /\ \/ status = "OK" /\ dev' = Applied /\ data = Reading(Head(line))
                 \/ status # "OK"
                 \/ Head(line).frame_type = "SET"
                 \/ data = Short
        BY <3>2 DEF Serve, Refuse
      <4> DEFINE r == Response(Head(line), status, data)
      <4>2. rx' = Append(rx, r)
        BY <4>1 DEF Answer
      <4>3. r.answers = Identity(Head(line)) /\ r.status = status /\ r.data = data
        BY DEF Response
      <4> HIDE DEF r
      <4>4. (i \in DOMAIN rx /\ rx'[i] = rx[i]) \/ rx'[i] = r
        BY <2>2, <4>2
      <4>5. rx'[i] = r
        BY <2>2, <2>4, <4>4 DEF IsReading, IsResponse, NoResponse
      <4>6. /\ Head(line).req = p /\ Head(line).frame_type = "GET"
            /\ status = "OK" /\ data # Short /\ data # dev'[p]
        BY <2>4, <4>3, <4>5 DEF IsReading, ReadId, Identity
      <4>7. data = Reading(Head(line)) /\ dev' = dev
        BY <4>1, <4>6 DEF Applied
      <4>8. Reading(Head(line)) = dev[p]
        <5> DEFINE t == Head(line)
        <5>1. t.req = p /\ t.frame_type = "GET" /\ p \in Params /\ "UART_CONFIG" \notin Params
          BY <2>1, <4>6, HubAssumption DEF HubAssumption
        <5> HIDE DEF t
        <5>2. Reading(t) = dev[p]
          BY <5>1 DEF Reading
        <5> QED
          BY <5>2 DEF t
      <4> QED
        BY <4>6, <4>7, <4>8
    <3> QED
      BY <3>1, <3>2
  <2> QED
    BY <1>2, <2>1, <2>3, <2>4 DEF RemedyInv
<1> QED
  BY <1>3, <1>4

(***************************************************************************)
(* The device changes by itself: it tells, or nobody will.                 *)
(***************************************************************************)
LEMMA ChangeRemedy ==
    ASSUME IInv, LinkInv, RemedyInv, Device, ~(Serve \/ Refuse \/ Lose), ~FinishPass,
           NoteReads, NoteHints, dev_notifies
    PROVE  RemedyInv'
<1>1. [Next]_vars
  BY DEF Next
<1>2. Sound(TxnsSetting(Params), hub')
  BY <1>1, SettingKept DEF RemedyInv
<1>3. CASE refresh_pending'
  BY <1>2, <1>3, RefreshRemedies
<1>4. CASE ~refresh_pending'
  <2>1. /\ hub' = hub /\ state' = state /\ BurstParams' = BurstParams
        /\ BurstParams \subseteq Params
        /\ \A p \in BurstParams : /\ (NoSetOf(p) \/ Confirmed(p))'
                                  /\ Confirmed(p) => LateRemedy(p)'
                                  /\ LateRemedy(p) => LateRemedy(p)'
    BY <1>4, DeviceKeeps
  <2>2. rx \in Seq(Frames)
    BY DEF IInv, TypeOK
  <2>3. ASSUME HintWaits' \/ missed'
        PROVE  RemedyInv'
    <3>1. \A p : LateRemedy(p)'
      BY <2>3 DEF LateRemedy
    <3> QED
      BY <1>2, <2>1, <3>1 DEF RemedyInv
  <2>4. CASE DeviceReboot
    <3>1. missed'
      BY <1>4, <2>4 DEF NoteHints, HintLost
    <3> QED
      BY <2>3, <3>1
  <2>5. ASSUME NEW p \in Params, NEW v \in Values, DeviceChange(p, v)
        PROVE  RemedyInv'
    <3>1. PICK event \in ParamEvents : Emit(event)
      BY <2>5 DEF DeviceChange
    <3>2. CASE rx' = rx
      <4>1. changes' # changes /\ dev' # dev
        <5>1. changes \in Nat /\ changes' = changes + 1
          BY <3>1, HubAssumption DEF Emit, IInv, TypeOK, HubAssumption
        <5>2. dev' = [dev EXCEPT ![p] = v] /\ dev[p] # v /\ dev \in [Params -> Values]
          BY <2>5 DEF DeviceChange, IInv, TypeOK
        <5>3. dev'[p] # dev[p]
          BY <5>2
        <5> QED
          BY <5>1, <5>3
      <4>2. missed'
        BY <1>4, <3>2, <4>1 DEF NoteHints, HintLost
      <4> QED
        BY <2>3, <4>2
    <3>3. CASE rx' = Append(rx, Notification(event, dev_seq))
      <4> DEFINE n == Notification(event, dev_seq)
      <4>1. n.kind = "NOTIFY" /\ n.event = event
        BY DEF Notification
      <4> HIDE DEF n
      <4>2. Len(rx) + 1 \in DOMAIN rx' /\ rx'[Len(rx) + 1] = n
        BY <2>2, <3>3 DEF n
      <4>3. HintWaits'
        BY <3>1, <4>1, <4>2 DEF HintWaits
      <4> QED
        BY <2>3, <4>3
    <3> QED
      BY <3>1, <3>2, <3>3 DEF Emit
  <2>6. CASE DeviceEvent
    <3>1. dev' = dev
      BY <2>6 DEF DeviceEvent
    <3>2. PICK event : rx' = rx \/ rx' = Append(rx, Notification(event, dev_seq))
      BY <2>6 DEF DeviceEvent, Emit
    <3>3. Notification(event, dev_seq).kind = "NOTIFY"
      BY DEF Notification
    <3>4. \A i \in DOMAIN rx' : (i \in DOMAIN rx /\ rx'[i] = rx[i]) \/ rx'[i].kind = "NOTIFY"
      <4> HIDE DEF Notification
      <4> QED
        BY <2>2, <3>2, <3>3
    <3>5. ASSUME NEW p \in BurstParams, state'[p] # dev'[p]
          PROVE  LateRemedy(p)' \/ InFlight(hub', p)
      BY <2>1, <3>1, <3>5 DEF RemedyInv
    <3>6. ASSUME NEW p \in BurstParams, NEW i \in DOMAIN rx', IsReading(i, p)', rx'[i].data # dev'[p]
          PROVE  LateRemedy(p)'
      <4>1. i \in DOMAIN rx /\ rx'[i] = rx[i]
        BY <3>4, <3>6 DEF IsReading, IsResponse
      <4>2. IsReading(i, p)
        BY <3>6, <4>1 DEF IsReading, IsResponse
      <4> QED
        BY <2>1, <3>1, <3>6, <4>1, <4>2 DEF RemedyInv
    <3> QED
      BY <1>2, <2>1, <3>5, <3>6 DEF RemedyInv
  <2> QED
    BY <2>4, <2>5, <2>6 DEF Device
<1> QED
  BY <1>3, <1>4

-----------------------------------------------------------------------------

(***************************************************************************)
(* A device that does not notify is not taken for one that does            *)
(* (on_uart_config_(), handle_notification_()).                            *)
(***************************************************************************)
SilentInv ==
    ~dev_notifies =>
        /\ ~notifications_active
        /\ \A i \in DOMAIN rx :
              /\ rx[i].kind # "NOTIFY"
              /\ rx[i].answers[1] = "UART_CONFIG" /\ rx[i].status = "OK"
                    => rx[i].data \in {Short, Nothing, "notify_off"}

(***************************************************************************)
(* No step of the hub or of a silent device makes it look as if it         *)
(* notified.                                                               *)
(***************************************************************************)
LEMMA SilentKept ==
    ASSUME IInv, LinkInv, SilentInv, [Next]_vars
    PROVE  SilentInv'
<1>1. dev_notifies' = dev_notifies /\ rx \in Seq(Frames)
  BY Constants DEF IInv, TypeOK
<1>2. CASE dev_notifies
  BY <1>1, <1>2 DEF SilentInv
<1>3. CASE ~dev_notifies
  <2>1. CASE Frame
    <3>1. TakeFrame
      BY <2>1 DEF Frame, Unsolicited, PlatformRead, UartConfigRead, ParamRead, NothingRead,
         Refused, TryLater, Notified, TakeAnswer, TakeResponse
    <3>2. 1 \in DOMAIN rx /\ rx[1] = Head(rx) /\ Head(rx).kind # "NOTIFY"
      BY <1>1, <1>3, <3>1 DEF SilentInv, TakeFrame
    <3>3. ~notifications_active'
      <4>1. CASE UartConfigRead
        <5>1. IsResponse(1) /\ rx[1].answers[1] = "UART_CONFIG"
          BY <3>2, <4>1 DEF UartConfigRead, LinkInv, IsResponse, Identity
        <5>2. Head(rx).data = "notify_off"
          BY <1>3, <3>2, <4>1, <5>1 DEF UartConfigRead, TakeAnswer, Usable, SilentInv
        <5> QED
          BY <4>1, <5>2 DEF UartConfigRead
      <4>2. CASE ~UartConfigRead
        <5>1. notifications_active' = notifications_active
          BY <2>1, <3>2, <4>2 DEF Frame, Unsolicited, PlatformRead, ParamRead, NothingRead,
             Refused, TryLater, Notified, seqVars
        <5> QED
          BY <1>3, <5>1 DEF SilentInv
      <4> QED
        BY <4>1, <4>2
    <3>4. \A i \in DOMAIN rx' : i + 1 \in DOMAIN rx /\ rx'[i] = rx[i + 1]
      BY <1>1, <3>1, TailOfRx DEF TakeFrame
    <3> QED
      BY <1>3, <3>3, <3>4 DEF SilentInv
  <2>2. CASE Serve \/ Refuse
    <3>1. PICK status, data :
            /\ Answer(status, data)
            /\ status = "OK" => data \in {Reading(Head(line)), Nothing, Short}
            /\ notifications_active' = notifications_active /\ line # <<>>
      BY <2>2 DEF Serve, Refuse, DeviceStep, seqVars
    <3> DEFINE r == Response(Head(line), status, data)
    <3>2. /\ rx' = Append(rx, r) /\ r.answers[1] = Head(line).req
          /\ r.status = status /\ r.data = data /\ r.kind = Head(line).frame_type
      BY <3>1 DEF Answer, Response, Identity
    <3>3. Head(line).frame_type \in {"GET", "SET"}
      BY <3>1, HeadOfLine DEF HubTxns, Txn
    <3>4. Head(line).req = "UART_CONFIG" => Reading(Head(line)) \in {Nothing, "notify_off"}
      BY <1>3, <3>3, HubAssumption DEF Reading, HubAssumption
    <3> HIDE DEF r
    <3>5. \A i \in DOMAIN rx' : (i \in DOMAIN rx /\ rx'[i] = rx[i]) \/ rx'[i] = r
      BY <1>1, <3>2
    <3> QED
      BY <1>3, <3>1, <3>2, <3>3, <3>4, <3>5 DEF SilentInv
  <2>3. CASE ~Frame /\ ~(Serve \/ Refuse)
    <3>1. rx' = rx /\ notifications_active' = notifications_active
      BY <1>3, <2>3 DEF Next, LoopPass, FinishPass, Clock, Tick, UserCall, Setter, SetParam,
         RequestRefresh, RequestInputRate, Call, Device, Lose, DeviceEvent, DeviceReboot,
         DeviceChange, Emit, DeviceStep, vars, linkVars, seqVars
    <3> QED
      BY <1>1, <1>3, <3>1 DEF SilentInv
  <2> QED
    BY <2>1, <2>2, <2>3
<1> QED
  BY <1>2, <1>3

-----------------------------------------------------------------------------

(***************************************************************************)
(* Every step keeps the remedies.                                          *)
(***************************************************************************)
LEMMA NextRemedy ==
    ASSUME Polling \/ NotifySettings \subseteq {TRUE},
           IInv, LinkInv, SetsReadNothing, SilentInv, RemedyInv, [HistoryNext]_historyVars
    PROVE  RemedyInv'
<1>1. [Next]_vars
  BY DEF HistoryNext, Note, Aside, historyVars, Next, LoopPass, Frame, UserCall, Setter, Clock, Device
<1>2. Sound(TxnsSetting(Params), hub')
  BY <1>1, SettingKept DEF RemedyInv
<1>3. CASE ~dev_notifies
  <2>1. Polling
    BY <1>3 DEF IInv, TypeOK
  <2>2. Unannounced'
    BY <1>1, <1>3, <2>1, SilentKept, Constants DEF SilentInv, Unannounced
  <2> QED
    BY <1>2, <2>2, RefreshRemedies
<1>4. CASE dev_notifies /\ HistoryNext
  <2>1. NoteReads /\ NoteHints /\ Next
    BY <1>4 DEF HistoryNext, Note, Aside, Next, LoopPass, Frame, UserCall, Setter, Clock, Device
  <2>2. CASE FinishPass
    BY <1>4, <2>1, <2>2, FinishPassRemedy
  <2>3. CASE Frame /\ ~FinishPass
    BY <1>4, <2>1, <2>3, FrameRemedy
  <2>4. CASE Device /\ ~FinishPass
    BY <1>4, <2>1, <2>4, ServeRemedy, ChangeRemedy
  <2>5. CASE ~FinishPass /\ ~Frame /\ ~Device
    <3>1. state' = state /\ dev' = dev /\ rx' = rx
      BY <2>1, <2>5 DEF Next, LoopPass, Clock, Tick, UserCall, Setter, SetParam, RequestRefresh,
         RequestInputRate, Call, linkVars, pubVars, devVars
    <3> QED
      BY <1>1, <1>4, <2>1, <2>5, <3>1, QuietRemedy
  <2> QED
    BY <2>1, <2>2, <2>3, <2>4, <2>5
<1>5. CASE UNCHANGED historyVars
  <2>1. /\ hub' = hub /\ line' = line /\ rx' = rx /\ refresh_pending' = refresh_pending
        /\ toggle_read_mask' = toggle_read_mask /\ toggle_unsupported' = toggle_unsupported
        /\ state' = state /\ dev' = dev /\ dev_notifies' = dev_notifies
        /\ notifications_active' = notifications_active /\ unread' = unread /\ missed' = missed
    BY <1>5 DEF historyVars, vars, linkVars, pubVars, seqVars, devVars
  <2>2. BurstParams' = BurstParams
    BY <2>1 DEF BurstParams, InBurst
  <2>3. ASSUME NEW p
        PROVE  /\ Confirmed(p)' <=> Confirmed(p)
               /\ LateRemedy(p)' <=> LateRemedy(p)
    BY <2>1 DEF Confirmed, LateRemedy, HintWaits, Unannounced
  <2> QED
    BY <2>1, <2>2, <2>3 DEF RemedyInv, NoSetOf, IsReading, IsResponse
<1> QED
  BY <1>3, <1>4, <1>5

(***************************************************************************)
(* The hub starts unidentified.                                            *)
(***************************************************************************)
LEMMA InitRemedy ==
    ASSUME HistoryInit
    PROVE  Init /\ SilentInv /\ RemedyInv
<1>1. Init /\ hub = Probed(HubAtStart) /\ rx = <<>> /\ ~notifications_active
  BY DEF HistoryInit, Init
<1>2. ~hub.identified
  BY <1>1 DEF Probed, Queued, HubAtStart
<1>3. Sound(TxnsSetting(Params), hub)
  <2>1. ClosedKind(TxnsSetting(Params)) /\ ProbeTxn \in TxnsSetting(Params)
    BY HubAssumption, SettingKind, SettingTxns
  <2>2. Sound(TxnsSetting(Params), HubAtStart) /\ HubAtStart.current = NoTxn
    <3>1. 0 \in 0 .. CounterModulus - 1
      BY TransportAssumption DEF TransportAssumption
    <3> QED
      BY <3>1, EmptyQueueSound DEF HubAtStart, Sound, HubsOf, HubStates, OneInFlight
  <2> QED
    BY <1>1, <2>1, <2>2, QueueAssumption, ProbedSound
<1>4. \A p : Confirmed(p) /\ LateRemedy(p)
  BY <1>2 DEF Confirmed, LateRemedy
<1> QED
  BY <1>1, <1>3, <1>4 DEF SilentInv, RemedyInv

(***************************************************************************)
(* The history variables restrict no step of the hub.                      *)
(***************************************************************************)
LEMMA HistoryIsHub == HistorySpec => Spec
<1>1. HistoryInit => Init
  BY DEF HistoryInit
<1>2. [HistoryNext]_historyVars => [Next]_vars
  BY DEF HistoryNext, Note, Aside, historyVars, Next, LoopPass, Frame, UserCall, Setter, Clock, Device
<1> QED
  BY <1>1, <1>2, PTL DEF HistorySpec, Spec

(***************************************************************************)
(* A published value that is not the device's always has a remedy: for     *)
(* every number of parameters, queue depth, retry budget and threshold,    *)
(* and through bursts, evictions, losses, restarts and reprobes, a stale   *)
(* value comes with a refresh that is pending, a read or a hint on its     *)
(* way, or with a loss of one of these.  Answers come before their timeout *)
(* or not at all, and a device that does not notify is polled.             *)
(***************************************************************************)
THEOREM StaleHasRemedyHolds ==
    ASSUME MaxLate = 0, Polling \/ NotifySettings \subseteq {TRUE}
    PROVE  HistorySpec => []StaleHasRemedy
<1>1. HistoryInit => SilentInv /\ RemedyInv /\ SetsReadNothing
  BY InitRemedy, InitSets
<1>2. [HistoryNext]_historyVars => [Next]_vars
  BY DEF HistoryNext, Note, Aside, historyVars, Next, LoopPass, Frame, UserCall, Setter, Clock, Device
<1>3. IInv /\ LinkInv /\ SetsReadNothing /\ SilentInv /\ RemedyInv /\ [HistoryNext]_historyVars
        => (SetsReadNothing /\ SilentInv /\ RemedyInv)'
  BY <1>2, SetsKept, SilentKept, NextRemedy
<1>4. RemedyInv => StaleHasRemedy
  BY RemedyIs DEF RemedyInv, StaleHasRemedy
<1> QED
  BY <1>1, <1>3, <1>4, HistoryIsHub, IInvAlways, LinkAlways, PTL DEF HistorySpec

-----------------------------------------------------------------------------
(* A lost hint shows *)

IsHint(i) == rx[i].kind = "NOTIFY"

(***************************************************************************)
(* The numbers the hub knows and those on their way are in order, and one  *)
(* between them is missing once a hint is.                                 *)
(***************************************************************************)
MissedInv ==
    /\ dev_seq <= changes
    /\ have_seq => last_seq < dev_seq
    /\ \A i \in DOMAIN rx :
          IsHint(i) => rx[i].seq < dev_seq /\ (have_seq => last_seq < rx[i].seq)
    /\ \A i, j \in DOMAIN rx : IsHint(i) /\ IsHint(j) /\ i < j => rx[i].seq < rx[j].seq
    /\ missed /\ hub.identified =>
          /\ have_seq
          /\ \E n \in Nat : /\ last_seq < n /\ n < dev_seq
                            /\ \A i \in DOMAIN rx : IsHint(i) => rx[i].seq # n

(***************************************************************************)
(* A sequence that has not wrapped counts on.                              *)
(***************************************************************************)
LEMMA Unwrapped ==
    ASSUME NEW a \in Nat, NEW m \in Nat, a < m
    PROVE  a % m = a
OBVIOUS

(***************************************************************************)
(* Where the device emits nothing and the hub hears nothing, the numbers   *)
(* stay in order.                                                          *)
(***************************************************************************)
LEMMA NumbersKept ==
    ASSUME IInv, IInv', MissedInv, NEW k \in {0, 1},
           \A i \in DOMAIN rx' : IsHint(i)' => i + k \in DOMAIN rx /\ rx'[i] = rx[i + k],
           dev_seq' = dev_seq, changes <= changes', last_seq' = last_seq, have_seq' => have_seq,
           missed' /\ hub'.identified => missed /\ hub.identified /\ have_seq'
    PROVE  MissedInv'
<1>1. /\ rx \in Seq(Frames) /\ rx' \in Seq(Frames)
      /\ dev_seq \in Nat /\ changes \in Nat /\ changes' \in Nat
  BY HubAssumption DEF IInv, TypeOK, HubAssumption
<1>2. \A i \in DOMAIN rx' : IsHint(i)' => i + k \in DOMAIN rx /\ IsHint(i + k) /\ rx'[i] = rx[i + k]
  BY DEF IsHint
<1>3. dev_seq' <= changes' /\ (have_seq' => last_seq' < dev_seq')
  BY <1>1 DEF MissedInv
<1>4. \A i \in DOMAIN rx' :
        IsHint(i)' => rx'[i].seq < dev_seq' /\ (have_seq' => last_seq' < rx'[i].seq)
  BY <1>2 DEF MissedInv
<1>5. ASSUME NEW i \in DOMAIN rx', NEW j \in DOMAIN rx', IsHint(i)', IsHint(j)', i < j
      PROVE  rx'[i].seq < rx'[j].seq
  <2>1. i \in Int /\ j \in Int /\ i + k < j + k
    BY <1>1, <1>5
  <2> QED
    BY <1>2, <1>5, <2>1 DEF MissedInv
<1>6. ASSUME missed', hub'.identified
      PROVE  /\ have_seq'
             /\ \E n \in Nat : /\ last_seq' < n /\ n < dev_seq'
                               /\ \A i \in DOMAIN rx' : IsHint(i)' => rx'[i].seq # n
  BY <1>2, <1>6 DEF MissedInv
<1> QED
  BY <1>3, <1>4, <1>5, <1>6 DEF MissedInv

(***************************************************************************)
(* The hub hears a notification: one number further, or it refreshes.      *)
(***************************************************************************)
LEMMA HeardInOrder ==
    ASSUME IInv, IInv', MissedInv, Notified, MaxChanges < NotifyModulus,
           missed' => missed /\ ~refresh_pending'
    PROVE  MissedInv'
<1>1. /\ rx \in Seq(Frames) /\ rx' \in Seq(Frames) /\ rx # <<>> /\ rx' = Tail(rx)
      /\ dev_seq \in Nat /\ changes \in Nat /\ changes <= MaxChanges /\ last_seq \in Nat
      /\ NotifyModulus \in Nat /\ MaxChanges \in Nat
      /\ dev_seq' = dev_seq /\ changes' = changes /\ hub' = hub
      /\ last_seq' = rx[1].seq /\ have_seq' = TRUE /\ IsHint(1) /\ 1 \in DOMAIN rx
  BY HubAssumption DEF IInv, TypeOK, HubAssumption, Notified, TakeFrame, devVars, IsHint
<1>2. \A i \in DOMAIN rx' : i + 1 \in DOMAIN rx /\ rx'[i] = rx[i + 1] /\ 1 < i + 1
  BY <1>1, TailOfRx
<1>3. \A i \in DOMAIN rx' : IsHint(i)' => IsHint(i + 1) /\ rx[1].seq < rx'[i].seq
  BY <1>1, <1>2 DEF IsHint, MissedInv
<1>4. dev_seq' <= changes' /\ last_seq' < dev_seq'
  BY <1>1 DEF MissedInv
<1>5. \A i \in DOMAIN rx' :
        IsHint(i)' => rx'[i].seq < dev_seq' /\ (have_seq' => last_seq' < rx'[i].seq)
  BY <1>1, <1>2, <1>3 DEF MissedInv
<1>6. ASSUME NEW i \in DOMAIN rx', NEW j \in DOMAIN rx', IsHint(i)', IsHint(j)', i < j
      PROVE  rx'[i].seq < rx'[j].seq
  <2>1. i \in Int /\ j \in Int /\ i + 1 < j + 1
    BY <1>1, <1>6
  <2> QED
    BY <1>2, <1>3, <1>6, <2>1 DEF MissedInv
<1>7. ASSUME missed', hub'.identified
      PROVE  \E n \in Nat : /\ last_seq' < n /\ n < dev_seq'
                            /\ \A i \in DOMAIN rx' : IsHint(i)' => rx'[i].seq # n
  <2>1. have_seq /\ missed /\ hub.identified /\ ~refresh_pending'
    BY <1>1, <1>7 DEF MissedInv
  <2>2. PICK n \in Nat : /\ last_seq < n /\ n < dev_seq
                         /\ \A i \in DOMAIN rx : IsHint(i) => rx[i].seq # n
    BY <2>1 DEF MissedInv
  <2>3. rx[1].seq = last_seq + 1
    <3>1. ~Gap(rx[1].seq)
      <4>1. refresh_pending' = (refresh_pending \/ Hint(Head(rx)))
        BY DEF Notified
      <4>2. ~Hint(Head(rx))
        BY <2>1, <4>1, Zenon
      <4> QED
        BY <1>1, <4>2 DEF Hint
    <3>2. last_seq + 1 < NotifyModulus
      BY <1>1, <2>1 DEF MissedInv
    <3>3. (last_seq + 1) % NotifyModulus = last_seq + 1
      BY <1>1, <3>2, Unwrapped
    <3> QED
      BY <2>1, <3>1, <3>3 DEF Gap
  <2>4. n # rx[1].seq
    BY <1>1, <2>2
  <2> QED
    BY <1>1, <1>2, <1>3, <2>2, <2>3, <2>4
<1> QED
  BY <1>1, <1>4, <1>5, <1>6, <1>7 DEF MissedInv

(***************************************************************************)
(* The device emits a notification: it comes last, or its number is the    *)
(* one that misses.                                                        *)
(***************************************************************************)
LEMMA EmittedInOrder ==
    ASSUME IInv, IInv', MissedInv, DeviceStep, NEW event, Emit(event),
           MaxChanges < NotifyModulus, ~BaselineLoss,
           missed' => missed \/ (dev_notifies /\ rx' = rx)
    PROVE  MissedInv'
<1>1. /\ rx \in Seq(Frames) /\ dev_seq \in Nat /\ changes \in Nat /\ last_seq \in Nat
      /\ changes' = changes + 1 /\ changes' <= MaxChanges
      /\ NotifyModulus \in Nat /\ MaxChanges \in Nat
      /\ hub' = hub /\ have_seq' = have_seq /\ last_seq' = last_seq
      /\ dev_seq <= changes
  BY HubAssumption DEF IInv, TypeOK, HubAssumption, Emit, DeviceStep, seqVars, MissedInv
<1>2. CASE ~dev_notifies
  <2>1. rx' = rx /\ dev_seq' = dev_seq
    BY <1>2 DEF Emit
  <2>2. \A i \in DOMAIN rx' : i + 0 \in DOMAIN rx /\ rx'[i] = rx[i + 0]
    BY <1>1, <2>1
  <2>3. changes <= changes' /\ (missed' /\ hub'.identified => missed /\ hub.identified /\ have_seq')
    BY <1>1, <1>2 DEF MissedInv
  <2> QED
    BY <1>1, <2>1, <2>2, <2>3, NumbersKept
<1>3. CASE dev_notifies
  <2>1. /\ dev_seq' = dev_seq + 1
        /\ \/ rx' = Append(rx, Notification(event, dev_seq))
           \/ rx' = rx /\ have_seq
    <3>1. (dev_seq + 1) % NotifyModulus = dev_seq + 1
      <4>1. dev_seq + 1 < NotifyModulus
        BY <1>1
      <4> QED
        BY <1>1, <4>1, Unwrapped
    <3> QED
      BY <1>3, <3>1 DEF Emit
  <2>2. CASE rx' = rx /\ have_seq
    <3>1. dev_seq' <= changes' /\ last_seq' < dev_seq'
      BY <1>1, <2>1, <2>2 DEF MissedInv
    <3>2. \A i \in DOMAIN rx' :
            /\ IsHint(i)' <=> IsHint(i)
            /\ IsHint(i) => rx[i].seq < dev_seq /\ last_seq < rx[i].seq
      BY <2>2 DEF IsHint, MissedInv
    <3>3. \A i \in DOMAIN rx : IsHint(i) => rx[i].seq \in Nat
      BY <1>1 DEF Frames, Responses, Notifications, IsHint
    <3>4. /\ last_seq < dev_seq /\ dev_seq < dev_seq'
          /\ \A i \in DOMAIN rx' : IsHint(i)' => rx'[i].seq # dev_seq /\ rx'[i].seq < dev_seq'
      BY <1>1, <2>1, <2>2, <3>2, <3>3 DEF MissedInv
    <3> QED
      BY <1>1, <2>2, <3>1, <3>2, <3>4 DEF MissedInv
  <2>3. CASE rx' = Append(rx, Notification(event, dev_seq))
    <3> DEFINE last == Len(rx) + 1
    <3>1. /\ \A i \in DOMAIN rx' : (i \in DOMAIN rx /\ rx'[i] = rx[i]) \/ i = last
          /\ \A i \in DOMAIN rx : i < last
          /\ rx'[last].seq = dev_seq /\ \A i \in DOMAIN rx' : i \in Int /\ i <= last
      BY <1>1, <2>3 DEF Notification
    <3> HIDE DEF last
    <3>2. missed' => missed
      BY <1>1, <2>3
    <3>3. \A i \in DOMAIN rx : IsHint(i) => rx[i].seq \in Nat /\ rx[i].seq < dev_seq
      BY <1>1 DEF Frames, Responses, Notifications, IsHint, MissedInv
    <3>4. dev_seq' <= changes' /\ (have_seq' => last_seq' < dev_seq')
      BY <1>1, <2>1 DEF MissedInv
    <3>5. \A i \in DOMAIN rx' :
            IsHint(i)' => rx'[i].seq < dev_seq' /\ (have_seq' => last_seq' < rx'[i].seq)
      BY <1>1, <2>1, <3>1, <3>3 DEF IsHint, MissedInv
    <3>6. ASSUME NEW i \in DOMAIN rx', NEW j \in DOMAIN rx', IsHint(i)', IsHint(j)', i < j
          PROVE  rx'[i].seq < rx'[j].seq
      <4>1. i \in DOMAIN rx /\ rx'[i] = rx[i] /\ IsHint(i)
        BY <3>1, <3>6 DEF IsHint
      <4> QED
        BY <3>1, <3>3, <3>6, <4>1 DEF IsHint, MissedInv
    <3>7. ASSUME missed', hub'.identified
          PROVE  /\ have_seq'
                 /\ \E n \in Nat : /\ last_seq' < n /\ n < dev_seq'
                                   /\ \A i \in DOMAIN rx' : IsHint(i)' => rx'[i].seq # n
      <4>1. have_seq /\ missed /\ hub.identified
        BY <1>1, <3>2, <3>7 DEF MissedInv
      <4>2. PICK n \in Nat : /\ last_seq < n /\ n < dev_seq
                             /\ \A i \in DOMAIN rx : IsHint(i) => rx[i].seq # n
        BY <4>1 DEF MissedInv
      <4>3. \A i \in DOMAIN rx' : IsHint(i)' => rx'[i].seq # n
        BY <1>1, <3>1, <4>2 DEF IsHint
      <4> QED
        BY <1>1, <2>1, <4>1, <4>2, <4>3
    <3> QED
      BY <3>4, <3>5, <3>6, <3>7 DEF MissedInv
  <2> QED
    BY <2>1, <2>2, <2>3
<1> QED
  BY <1>2, <1>3

(***************************************************************************)
(* Every step keeps the numbers in order.                                  *)
(***************************************************************************)
LEMMA NextMissed ==
    ASSUME MaxChanges < NotifyModulus, ~BaselineLoss, "REBOOT" \notin FreeReplies \cup FaultReplies,
           IInv, IInv', MissedInv, [HistoryNext]_historyVars
    PROVE  MissedInv'
<1>1. [Next]_vars
  BY DEF HistoryNext, Note, Aside, historyVars, Next, LoopPass, Frame, UserCall, Setter, Clock, Device
<1>2. missed' => missed \/ (dev_notifies /\ HintLost)
  BY DEF HistoryNext, Note, Aside, historyVars, vars, devVars, NoteHints
<1>3. ~DeviceReboot
  BY DEF DeviceReboot, May
<1>4. rx \in Seq(Frames) /\ rx' \in Seq(Frames) /\ changes \in Nat /\ changes' \in Nat
  BY HubAssumption DEF IInv, TypeOK, HubAssumption
<1>5. HintLost => changes' # changes /\ rx' = rx
  BY <1>3 DEF HintLost
<1>6. missed' /\ ~UNCHANGED historyVars => ~refresh_pending'
  BY DEF HistoryNext, Note, Aside, NoteHints
<1>7. CASE Notified
  <2>1. changes' = changes /\ rx' # rx
    BY <1>4, <1>7 DEF Notified, TakeFrame, devVars
  <2>2. missed' => missed /\ ~refresh_pending'
    BY <1>2, <1>5, <1>6, <2>1 DEF historyVars, vars, linkVars
  <2> QED
    BY <1>7, <2>2, HeardInOrder
<1>8. CASE Frame /\ ~Notified
  <2>1. TakeFrame /\ last_seq' = last_seq
    BY <1>8 DEF Frame, Unsolicited, PlatformRead, UartConfigRead, ParamRead, NothingRead,
       Refused, TryLater, TakeAnswer, TakeResponse, seqVars
  <2>2. /\ rx # <<>> /\ rx' = Tail(rx) /\ changes' = changes /\ dev_seq' = dev_seq
    BY <2>1 DEF TakeFrame, devVars
  <2>3. /\ have_seq' => have_seq
        /\ have_seq /\ hub'.identified => have_seq'
    <3>1. hub'.identified => hub'.hub_state # "OFFLINE"
      BY DEF IInv, Sound, OneInFlight
    <3>2. \/ have_seq' = have_seq
          \/ TryLater /\ have_seq' = (have_seq /\ ~OfflineIn(hub'))
      <4>1. CASE TryLater
        BY <4>1 DEF TryLater
      <4>2. CASE ~TryLater
        BY <1>8, <4>2 DEF Frame, Unsolicited, PlatformRead, UartConfigRead, ParamRead,
           NothingRead, Refused, seqVars
      <4> QED
        BY <4>1, <4>2
    <3>3. hub'.identified => ~OfflineIn(hub')
      BY <3>1 DEF OfflineIn
    <3>4. CASE have_seq' = have_seq
      BY <3>4, Zenon
    <3>5. CASE have_seq' = (have_seq /\ ~OfflineIn(hub'))
      BY <3>3, <3>5, Zenon
    <3> QED
      BY <3>2, <3>4, <3>5
  <2>4. missed' => missed /\ ~refresh_pending'
    <3>1. rx' # rx
      BY <1>4, <2>2
    <3> QED
      BY <1>2, <1>5, <1>6, <2>2, <3>1 DEF historyVars, vars, linkVars
  <2>5. ~FinishPass
    BY <2>2 DEF FinishPass
  <2>6. missed' /\ hub'.identified => missed /\ hub.identified /\ have_seq'
    BY <1>1, <2>3, <2>4, <2>5, IdentifiedKept DEF MissedInv
  <2>7. \A i \in DOMAIN rx' : i + 1 \in DOMAIN rx /\ rx'[i] = rx[i + 1]
    BY <1>4, <2>2, TailOfRx
  <2> QED
    BY <1>4, <2>1, <2>2, <2>3, <2>6, <2>7, NumbersKept
<1>9. CASE \E event : DeviceStep /\ Emit(event)
  BY <1>2, <1>5, <1>9, EmittedInOrder
<1>10. CASE FinishPass \/ Clock \/ UserCall \/ Serve \/ Refuse \/ Lose \/ UNCHANGED vars
  <2>1. /\ changes' = changes /\ dev_seq' = dev_seq /\ last_seq' = last_seq
        /\ have_seq' => have_seq
        /\ ~FinishPass => have_seq' = have_seq
    <3>1. CASE FinishPass
      BY <3>1 DEF FinishPass, devVars
    <3>2. CASE Clock \/ UNCHANGED vars
      BY <3>2 DEF Clock, Tick, vars, devVars, seqVars
    <3>3. CASE UserCall
      BY <3>3 DEF UserCall, Setter, SetParam, RequestRefresh, RequestInputRate, Call,
         devVars, seqVars
    <3>4. CASE Serve \/ Refuse \/ Lose
      BY <3>4 DEF Serve, Refuse, Lose, DeviceStep, seqVars
    <3> QED
      BY <1>10, <3>1, <3>2, <3>3, <3>4
  <2>2. \A i \in DOMAIN rx' : IsHint(i)' => i + 0 \in DOMAIN rx /\ rx'[i] = rx[i + 0]
    <3>1. rx' = rx \/ \E t, status, data : rx' = Append(rx, Response(t, status, data)) /\ line # <<>> /\ t = Head(line)
      BY <1>10 DEF FinishPass, Clock, Tick, UserCall, Setter, SetParam, RequestRefresh,
         RequestInputRate, Call, Serve, Refuse, Lose, Answer, vars, linkVars
    <3>2. CASE rx' = rx
      BY <1>4, <3>2
    <3>3. ASSUME NEW t, NEW status, NEW data, rx' = Append(rx, Response(t, status, data)),
                 line # <<>>, t = Head(line)
          PROVE  \A i \in DOMAIN rx' : IsHint(i)' => i + 0 \in DOMAIN rx /\ rx'[i] = rx[i + 0]
      <4>1. t.frame_type # "NOTIFY"
        <5>1. line \in Seq(Txn)
          BY DEF IInv, TypeOK
        <5>2. t \in Txn
          BY <3>3, <5>1
        <5> QED
          BY <5>2 DEF Txn
      <4>2. Response(t, status, data).kind # "NOTIFY"
        BY <4>1 DEF Response
      <4> QED
        BY <1>4, <3>3, <4>2 DEF IsHint
    <3> QED
      BY <3>1, <3>2, <3>3
  <2>3. missed' => missed
    BY <1>2, <1>5, <2>1
  <2>4. missed' /\ hub'.identified => missed /\ hub.identified /\ have_seq'
    <3>1. CASE FinishPass
      <4>1. have_seq' = (have_seq /\ ~OfflineIn(AfterTimers(hub, due)))
        BY <3>1 DEF FinishPass
      <4> QED
        BY <2>3, <3>1, <4>1, FinishPassIdentified DEF MissedInv
    <3>2. CASE UNCHANGED vars
      BY <2>1, <2>3, <3>2 DEF vars, MissedInv, seqVars
    <3>3. CASE ~FinishPass /\ ~UNCHANGED vars
      <4>1. missed' => ~refresh_pending'
        BY <1>6, <3>3 DEF historyVars
      <4> QED
        BY <1>1, <2>1, <2>3, <3>3, <4>1, IdentifiedKept DEF MissedInv
    <3> QED
      BY <3>1, <3>2, <3>3
  <2> QED
    BY <1>4, <2>1, <2>2, <2>4, NumbersKept
<1> QED
  BY <1>1, <1>3, <1>7, <1>8, <1>9, <1>10
  DEF Next, LoopPass, Device, DeviceChange, DeviceEvent

(***************************************************************************)
(* A hint that got lost shows: the sequence of a device that does not      *)
(* restart gives the hub away as long as it does not wrap, whatever is     *)
(* heard, retried, lost or reprobed in between.                            *)
(***************************************************************************)
THEOREM MissedShowsHolds ==
    ASSUME MaxChanges < NotifyModulus, ~BaselineLoss, "REBOOT" \notin FreeReplies \cup FaultReplies
    PROVE  HistorySpec => []MissedShows
<1>1. HistoryInit => MissedInv
  BY DEF HistoryInit, Init, MissedInv, IsHint
<1>2. IInv /\ IInv' /\ MissedInv /\ [HistoryNext]_historyVars => MissedInv'
  BY NextMissed
<1>3. IInv /\ MissedInv => MissedShows
  <2> SUFFICES ASSUME IInv, MissedInv, missed, hub.identified
               PROVE  have_seq /\ ~HeardLatest
    BY DEF MissedShows
  <2>1. PICK n \in Nat : have_seq /\ last_seq < n /\ n < dev_seq
    BY DEF MissedInv
  <2>2. /\ dev_seq \in Nat /\ last_seq \in Nat /\ changes \in Nat /\ dev_seq <= changes
        /\ changes <= MaxChanges /\ NotifyModulus \in Nat /\ MaxChanges \in Nat
    BY HubAssumption DEF IInv, TypeOK, HubAssumption, MissedInv
  <2> QED
    BY <2>1, <2>2 DEF HeardLatest
<1> QED
  BY <1>1, <1>2, <1>3, HistoryIsHub, IInvAlways, PTL DEF HistorySpec

(***************************************************************************)
(* A hub that has settled publishes what the device has: the two theorems  *)
(* above together, for a device that notifies.                             *)
(***************************************************************************)
THEOREM SettledAgreesHolds ==
    ASSUME MaxLate = 0, Polling \/ NotifySettings \subseteq {TRUE},
           MaxChanges < NotifyModulus, ~BaselineLoss, "REBOOT" \notin FreeReplies \cup FaultReplies
    PROVE  HistorySpec => []SettledAgrees
<1>1. StaleHasRemedy /\ MissedShows => SettledAgrees
  BY DEF StaleHasRemedy, MissedShows, SettledAgrees, Settled, Remedy, Asked
<1> QED
  BY <1>1, StaleHasRemedyHolds, MissedShowsHolds, PTL

=============================================================================
