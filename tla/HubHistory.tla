----------------------------- MODULE HubHistory -----------------------------
(***************************************************************************)
(* Hub with history variables, which no step of Hub reads, and the         *)
(* properties that relate a state to what led to it.                       *)
(***************************************************************************)
EXTENDS Hub

VARIABLES
    wanted,     \* the value of the latest setter call, per parameter
    sends,      \* transmissions of one SET since one of them last ended
    unread,     \* parameters whose latest read was given up
    missed      \* the hint of a change is lost, and no refresh was asked for since

historyVars == <<vars, wanted, sends, unread, missed>>

Watched == <<InputSource, "SET", 0>>

Present(t) == t # NoTxn

IsWatched(t) == Present(t) /\ Identity(t) = Watched

\* The watched SET ended: answered, refused or dropped, but not put back.
Ended ==
    /\ IsWatched(hub.current)
    /\ hub'.current # hub.current
    /\ hub'.hub_state # "BACKOFF"

Transmitted == IsWatched(hub'.current) /\ hub'.current # hub.current

Gone == Watched \notin WaitingIds(hub'.queue) /\ ~IsWatched(hub'.current)

CountSends ==
    sends' = CASE Gone -> 0
               [] Transmitted -> 1 + (IF Ended THEN 0 ELSE sends)
               [] OTHER -> IF Ended THEN 0 ELSE sends

ReadId(p) == <<p, "GET", 0>>

Waits(h, p) == ReadId(p) \in WaitingIds(h.queue)

InFlight(h, p) == Present(h.current) /\ Identity(h.current) = ReadId(p)

\* A read of p waited and is gone without being sent, or was in flight and
\* ended without a value.
GivenUp(p) ==
    \/ Waits(hub, p) /\ ~(FinishPass /\ InFlight(hub', p))
    \/ InFlight(hub, p) /\ ~InFlight(hub', p) /\ ~ParamRead

NoteReads ==
    unread' = {p \in Params : /\ hub'.identified /\ ~Waits(hub', p)
                              /\ p \in unread \/ GivenUp(p)}

\* The device changed and no frame tells the hub, or it restarted.
HintLost == DeviceReboot \/ (dev' # dev /\ changes' # changes /\ rx' = rx)

NoteHints == missed' = (dev_notifies /\ ~refresh_pending' /\ (missed \/ HintLost))

HistoryInit ==
    /\ Init
    /\ wanted = [p \in Settable |-> Nothing]
    /\ sends = 0
    /\ unread = {} /\ missed = FALSE

Note == CountSends /\ NoteReads /\ NoteHints

\* What is no setter call, and claims no boot source.
Aside == UNCHANGED wanted /\ Note

HistoryNext ==
    \/ \E p \in Settable, v \in Values :
          SetParam(p, v) /\ wanted' = [wanted EXCEPT ![p] = v] /\ Note
    \/ /\ ParamRead /\ ClaimsBootSource
       /\ wanted' = [wanted EXCEPT ![InputSource] = BootSource] /\ Note
    \/ ParamRead /\ ~ClaimsBootSource /\ Aside
    \/ Unsolicited /\ Aside
    \/ PlatformRead /\ Aside
    \/ UartConfigRead /\ Aside
    \/ NothingRead /\ Aside
    \/ Refused /\ Aside
    \/ TryLater /\ Aside
    \/ Notified /\ Aside
    \/ FinishPass /\ Aside
    \/ \E d \in Deadlines : Tick(d) /\ Aside
    \/ RequestRefresh /\ Aside
    \/ RequestInputRate /\ Aside
    \/ Serve /\ Aside
    \/ Refuse /\ Aside
    \/ Lose /\ Aside
    \/ DeviceEvent /\ Aside
    \/ DeviceReboot /\ Aside
    \/ \E p \in Params, v \in Values : DeviceChange(p, v) /\ Aside

HistorySpec == HistoryInit /\ [][HistoryNext]_historyVars

HistoryFairSpec == HistorySpec /\ Fairness

(***************************************************************************)
(* A device that answers BUSY is not retried for ever (enqueue_(), "Keep   *)
(* the higher attempt count of the two"): however retries and new setter   *)
(* calls coalesce, one SET goes out at most 1 + max_retries_ times before  *)
(* it is answered or dropped.                                              *)
(***************************************************************************)
TransmissionsBounded == sends <= 1 + MaxRetries

(***************************************************************************)
(* "one queued request holding the newest value" (enqueue_()): a SET that  *)
(* waits carries the value its setter was called with last.                *)
(***************************************************************************)
NewestQueued ==
    \A t \in Waiting(hub.queue) : t.frame_type = "SET" => t.payload = wanted[t.req]

\* The reads a refresh would make now.
BurstParams == {AllReads[i] : i \in {j \in DOMAIN AllReads : InBurst(j)}}

\* What will bring p up to date, or what was lost of it: a refresh that was
\* asked for, a read of p, a hint on its way, the probe, the poll; or a hint
\* that got lost, or a read that was given up.
Remedy(p) ==
    \/ refresh_pending
    \/ Waits(hub, p) \/ InFlight(hub, p)
    \/ \E i \in DOMAIN rx : rx[i].kind = "NOTIFY" /\ rx[i].event \in ParamEvents
    \/ ~hub.identified
    \/ Polling /\ ~dev_notifies /\ ~notifications_active
    \/ missed \/ p \in unread

(***************************************************************************)
(* A published value that is not the device's does not stay unnoticed: a   *)
(* setter, the boot source, a change of the device, a probe, a toggle that *)
(* comes into use and a sample that is overtaken by a change each leave a  *)
(* refresh, a read or a hint behind, and the queue, the retries and the    *)
(* debounce lose none of these but by giving up a read (the setters,       *)
(* on_platform_(), handle_notification_(): "treated as a hint that         *)
(* something changed").                                                    *)
(***************************************************************************)
StaleHasRemedy == \A p \in BurstParams : state[p] # dev[p] => Remedy(p)

(***************************************************************************)
(* A hint that got lost shows once the hub has heard what was sent after   *)
(* it: the next number of the device does not follow on the last one       *)
(* heard, so that any notification asks for the refresh                    *)
(* (handle_notification_(), have_seq_ and last_seq_).                      *)
(***************************************************************************)
MissedShows ==
    missed /\ hub.identified /\ (\A i \in DOMAIN rx : rx[i].kind # "NOTIFY")
        => have_seq /\ ~HeardLatest

\* A refresh or a read is on its way.
Asked == refresh_pending \/ \E p \in BurstParams : Waits(hub, p) \/ InFlight(hub, p)

Settled ==
    /\ hub.identified /\ dev_notifies
    /\ HeardLatest /\ \A i \in DOMAIN rx : rx[i].kind # "NOTIFY"
    /\ ~Asked /\ unread = {}

(***************************************************************************)
(* A hub that has settled publishes what the device has, whatever came     *)
(* before: it heard the notification sent last, it has nothing to ask, and *)
(* no read of it was given up (loop(), handle_notification_()).            *)
(***************************************************************************)
SettledAgrees == Settled => \A p \in BurstParams : state[p] = dev[p]

=============================================================================
