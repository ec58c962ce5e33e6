# A model of the DSPi hub

This directory models `components/dspi/`, the ESPHome component that controls a
DSPi audio processor over a UART. The modules are written from the C++ source;
paths and line numbers below refer to the repository.

## The system

One object, `DSPiHub` (`dspi.cpp`, `dspi.h`), owns everything that moves. ESPHome
calls `setup()` once and `loop()` again and again on one thread; entities and
automations call the public methods from the same thread, between two passes of
`loop()`. The concurrency is with the device, the wire and the clock.

| component | state it keeps | operations | hard because of |
|---|---|---|---|
| transmit queue | `queue_`, 12 slots | `enqueue_`, `queue_free_`, `find_next_` | coalescing, eviction and retries meet in one array |
| transport | `hub_state_`, `current_`, `has_current_`, `consecutive_failures_`, `identified_`, deadlines | `send_next_`, `handle_response_`, `retry_or_drop_`, `fail_current_`, `go_offline_`, `start_probe_` | timeouts against late answers, retries, going down and coming back |
| probe chain | `identified_`, `notifications_active_` | `on_platform_`, `on_uart_config_`, ... | a device that is replaced, restarts or answers in part |
| refresh and readback | `refresh_pending_`, `state_`, `toggle_read_mask_`, `toggle_unsupported_` | `loop`, `request_refresh`, the readback handlers | the burst needs room, hints get lost, refusals latch |
| notifications | `have_seq_`, `last_seq_` | `handle_notification_` | 8-bit sequence numbers are the only sign of a loss |
| setters | `toggle_read_mask_`, `boot_source_checked_` | `set_*`, `request_*` | OK does not mean that the value took |
| presets | `preset_*`, `state_.active_preset*` | `set_preset_slot`, `service_preset_confirm_`, `on_preset_*` | a load is confirmed by a notification or by reading back |
| spectrum analyser (RTA) | `rta_*` | `service_rta_`, `set_rta_*`, `on_rta_*` | a state machine that relies on one transaction at a time |
| frame parser | `FrameParser` | `feed`, `reset` | resynchronisation after noise |
| selectable sources | `state_.selectable_*`, `adat_*` | `on_spdif_input_config_`, `on_adat_*` | three answers, any of which may be missing |
| entities | what they last published | `on_dspi_state`, `control`, `write_state`, `update` | publish what is valid, once, and never what was only asked for |
| timers | `sent_at_`, `backoff_until_`, ... | comparisons in `loop` | `millis()` wraps, two styles of comparison |
| `dump_config`, code generation, `tools/dspi_setup.py` | none | | logging, build time, a script |

The hub sends one request at a time over the wire and everything else waits in
the queue. A producer (the probe chain, the refresh burst, a setter, presets, the
analyser) calls `enqueue_()`; `loop()` sends; an answer calls the producer's
callback, which may enqueue more. A notification of the device only sets
`refresh_pending_`. `publish_state_()` calls every listener.

What makes each part correct: the queue keeps one request per identity and
never drops a user's command for a background read; the transport has one
request in flight, retries within its budget, notices a dead link and keeps
probing; what is published is what the device sampled for that parameter, in
order, and ends up being what the device has; a refusal latches, a lost answer
does not. `PROJECT.json` lists the hazards with their lines.

## Modules

| module | models |
|---|---|
| `TxnQueue` | the queue: operators on the array of slots. `Places` is the three scans of `enqueue_()`, `Coalesced` what a replacement keeps, `EnqueueAll` a handler's sequence of calls |
| `Transport` | the transport: operators on a record of the hub's members, one per method |
| `Hub` | one hub with its device, link, callers and clock: `loop()`, every frame it handles, every setter but the preset and spectrum ones |
| `ReadBack` | the abstract promise to a listener; `Hub` implements it (`PublishesSamples`) |
| `HubHistory` | `Hub` with history variables, for the properties about the past: what was sent and evicted, which reads were given up (`unread`), which hints were lost unseen (`missed`) |
| `Presets` | the preset slot, its name and a deferred load, on the same transport |
| `Rta` | the spectrum analyser's state machine and its public methods, on the same transport |
| `Crc16`, `FrameParser` | the checksum, and the byte parser on a link that damages, loses and adds bytes |
| `Entities` | what the entities publish and forward, and the mask of selectable sources |
| `MC...` | instances for TLC |
| `TransportProofs` | proofs about the operators of `TxnQueue` and `Transport`, which the next two rows rest on |
| `HubProofs`, `HubLinkProofs`, `HubReadBackProofs` | proofs about the hub, each on the ones before |
| `PresetsProofs`, `RtaProofs` | proofs about the presets and the analyser |
| `FrameParserProofs`, `EntitiesProofs` | proofs about the parser and the entities |

`TxnQueue` and `Transport` have no variables, so that `Hub`, `Presets` and `Rta`, which
share the queue and the transport in the code, are modelled on the same
operators; each of the three leaves out what the other two do.

How `Hub` reads the code:

- One pass of `loop()` is the frames in `rx`, one step each (`pump_rx_()` with the
  callback that the answer selects), and then `FinishPass`, the rest of the pass
  in one step, in program order: timers, reprobe, refresh, poll, send. Nothing
  else acts while `pumping`. A pass that ends at `max_bytes_per_loop_` with bytes
  unread is the pass before those bytes arrived, because the rest of the pass
  does not look at the receive buffer.
- Time is the set `due` of deadlines that have passed. `Tick` lets an armed one
  pass, and a step that re-arms one takes it out. How long a deadline is does not
  matter, except in one place: `go_offline_()` takes a later `millis()` than the
  `now` of its pass, and the subtraction in the reprobe wraps; `ProbeClock` has
  both outcomes.
- A transaction's callbacks are a function of its opcode, so the frame actions
  dispatch on `current.req`. A payload is a value or one of `Nothing`, `Short`.
- The field `answers` of a response is known to the observer only; the hub sees
  the kind, as in the code.
- A frame with a bad CRC never reaches the hub and is a lost frame (`Lose`).
- The device (external) carries requests out in order, may lose, refuse, ignore,
  cut short or delay, changes by itself, notifies, and restarts.
- `service_preset_confirm_()`, `service_rta_()` and the preset slot's name are left
  out here; they need no step when no preset was loaded and the analyser is
  off. The slot itself is one of the parameters.

`Presets` and `Rta` are a hub reduced to one of its parts, over the same transport:

- The device's answer and the hub's handler are one step, because an answer that
  comes in time meets the request in flight (`Attributed` of `Hub`); so are a
  notification and its handler. `FinishPass` is again the rest of `loop()`.
- The probe chain and the burst of `Presets` are shortened to the reads that
  concern presets. The device accepts a load (`LoadAccepted`), applies it later
  (`LoadEnds`) and announces it, or the announcement is lost. `name` is the slot
  whose name is shown, not the text. `started` is an observer: the slots whose
  latest load the device accepted.
- `Rta` keeps the phases, `rta_busy_`, both deadlines, the capabilities, the wanted
  configuration and the polling mask and cursor. `Advance` is `rta_advance_()`,
  `Reset` is `reset_rta_()`, `Serviced` with `Offered` is `service_rta_()`, and the failure
  callbacks are `SetupFailed`, `BandsFailed` and `OptionalFailed`. A band frame is good,
  bad or stale; levels, centres and sequence numbers are left out. The device has an
  analyser of this version, of an older one, or none; its engine starts with the
  first read and stops by itself; it masks channels it does not have and may be
  configured by another client.
- `Reset` leaves the deadlines `"never"` when `millis()` is in the second half of its
  range (`uptime`).

`FrameParser` is one step per byte: `Feed` is the switch of `feed()`, one operator per
state, over the checksum of `crc16.h`. The device sends frames of `Frames` one after
the other; a byte may be damaged, lost or added. `reset()` may come at any time.
`whole`, `aligned` and `missed` are observers.

`Entities` is the hub reduced to a set of reads that wait (`wanted`), the last value of
each setter (`sets`) and `state_`. `Heard` is `on_dspi_state()` of every listener,
`Control` is `control()` or `write_state()` with the setter it ends in; that of the preset
select asks for no refresh (`RefreshAfter`). The poll that confirms a load is left to
`Presets`: here only the device's hint brings a new slot to the select. Bursts do not wait
for room in the queue; that is `Hub`'s. Every handler that
calls `publish_state_()` is one that uses `Stores`.

## Runs

Every bound is a constant: `MaxCalls`, `MaxChanges`, `MaxFaults`, `MaxEvents` and `MaxLate`
count calls (in `Presets`, loads by other clients too), device events, faults, all
of these together, and answers that may come after their timeout.

| run | shows | bounds and why they are enough |
|---|---|---|
| `MCHub_safety` | types, no duplicates, what an offline hub forgets, attribution, refusals, transmissions, the burst goes out whole, commands survive, and `Hub` implements `ReadBack` | 3 slots against a burst of 3 and a setter, so that reads are evicted; two toggles of which the device lacks one, the boot source; 2 faults with `OfflineAfter` 1 and one retry take the link down |
| `MCHub_converges` | `StaleHasRemedy`, `MissedShows`, `SettledAgrees`, `Converges` | a device that notifies or one whose notifications are off, polling, one parameter, two changes and one fault: a lost hint, an ignored setter, or a restart of the device, which also loses the request in flight and so causes a timeout and a retry. Hints are not lost before the first is heard, and with two faults a restart can take the count of notifications back to where it was and hide the loss of the next |
| `MCHub_dead` | `GivesUp`, `ProbedUntilIdentified`, `RefreshServed` | the device never says OK: it refuses once, and else is busy or silent for ever, in time or one timeout late; one setter call; the failure counter is 2 bits so that it wraps |
| `MCPresets_follows` | types, `ConfirmsOwnLoad`, `SlotHasRemedy`, `ConfirmEnds`, `ActiveFollows` | one load by the hub or by another client and one fault of any kind; no retries, so that a fault takes the link down. `ActiveFollows` excludes lost hints, and reads that are refused or cut short, which the code never repeats. 7 slots, two more than there are different commands, as `ConfirmsWithRoom` asks |
| `MCRta_streams` | types, `BusyMeansWork`, `NeverParked`, `VerdictNeedsRefusal`, `Streams`, `AppliesUndisturbed`, `PolledInTurn` | two channels, two calls and a fault: a change of channels while the first configuration is written, or after disabling; another client; a device with, with an older, or without an analyser. 4 slots, so that nothing is evicted |
| `MCFrameParser_link` | types, `WritesInBounds`, `OnlySent`, `ChecksWhole`, `MissedBounded`, `AlignedDelivered` | a buffer of 3 for the code's 132, so that a wrong length still swallows more than a frame; the shortest answer, and a notification with a sync byte inside; 2 faults with a byte each that is a sync byte, a type, the longest length or one too long |
| `MCEntities_follow` | types, `ShowsReadable`, `MaskSettled`, `ShownStaleHasRemedy`, `NeverOptimistic`, `EntitiesFollow` | a switch, a select that does not list every slot, the polled rate and the name; two devices, of which one has ADAT and a second S/PDIF input; 2 events: a change, a user's choice, a dropped read, the link lost, the device swapped |
| `MCHub_newest`, `MCPresets_name`, `MCRta_disabling`, `MCRta_applies`, `MCRta_uptime` | the findings below | violated |

The preset run uses 1 confirmation attempt for the code's 6, which repeat the
same step, and two slots of ten. The queue has its 12 slots in the proofs only;
the runs shrink it together with what competes for it.

Two bounds hide a behaviour of the code, and are chosen so on purpose: with less
room in the queue of `MCHub_converges` a probe read that is retried evicts a refresh
read, and `Converges` fails; with less room in that of `MCRta_streams` an eviction
leaves `rta_busy_` set, and `BusyMeansWork` fails. Both are under Divergences.

Deadlock is checked in every run: `FinishPass`, `Send` or the polling of the rate can
always run.

### Fairness

`FairSpec` assumes that ESPHome keeps calling `loop()` (weak fairness of `LoopPass` or
`FinishPass`), that a request on the line is answered or lost, and that an armed
deadline passes. The last two happen between passes, so their steps are disabled
again and again and the fairness is strong. For the refresh deadline it means
that hints do not arrive faster than the debounce window for ever; nothing in the
code bounds that. `Presets` also assumes that the device gets to the load it
accepted. In `Entities`, reads and setters that wait end (weak fairness of their
steps), which is what `GivesUp` and `Converges` say of `Hub`; the rate sensor is a
polling component, so `PollRate` is fair too. Faults are never fair: nothing depends
on one happening.

## Findings

- `NewestQueued` (`MCHub_newest`): a retry put back by `retry_or_drop_()` replaces a
  newer value that waits, so the older value reaches the device.
- `NameAttributed` (`MCPresets_name`): requests for the names of two slots do not
  coalesce, and the answer for the earlier one is published as the name of the
  active slot; the right answer is then ignored.
- `DisablingStops` (`MCRta_disabling`): an answer that is in flight when the analyser
  is disabled moves the bring-up on, because its handler does not look at
  `rta_enabled_`; the analyser then polls although it is off.
- `AppliesConfig` (`MCRta_applies`): `set_rta_channel_mask()` while a transaction waits
  or is in flight queues a second one, and the first one's answer is taken for the
  second's. When the write is then lost, the old configuration is streamed. Without a
  fault the device ends up with what was asked for (`AppliesUndisturbed`).
- `Streams` (`MCRta_uptime`): `reset_rta_()` sets its deadlines to 0. Once `millis()` is
  past 2^31, about 25 days, that is in the future, and an analyser that is reset by a
  reconnect waits for the clock to wrap.

### Divergences met and not kept as runs

Behaviours of the code that the models show or that reading it showed, and that
have no run of their own:

- The failure counter is a `uint8_t`: after 256 drops on a link that stays dead it
  starts over, and the next drops do not declare the link down (`dspi.cpp:495`).
- An answer that comes after its timeout is taken for the answer to the next
  request of the same frame type, although the comment speaks of not "acting on data
  we cannot attribute" (`dspi.cpp:359`). `Attributed` therefore assumes `MaxLate = 0`.
- A read that waits is evicted by a retry of the same priority or by a setter when
  the queue is full, and is not asked for until the next hint (`dspi.cpp:253`).
- An evicted or refused transaction calls neither callback, so that an evicted one of
  the analyser leaves `rta_busy_` set until the next reset (`dspi.cpp:253`).
- Five band polls in a row that are answered BUSY take the whole link offline,
  because a band poll has no retries and every drop counts (`dspi.cpp:467`,
  `dspi.cpp:495`).
- A name request that is dropped after its retries is never repeated, and the
  previous slot's name stays on show (`dspi.cpp:899`).
- A load called for before the device was identified is sent, while `on_platform_()`
  has dropped its confirmation; and `go_offline_()` loses a waiting load while the
  poll for it goes on until its attempts run out.
- `set_rta_tap()` and `set_rta_channel_mask()` before the capabilities were read go to
  `READ_CONFIG` and so past the check of the version (`dspi.cpp:1194-1210`).
- Only `start_probe_()` resets the parser. `protocol.h:55-58` says that the request
  timeout covers a desync, but a timeout leaves the parser where it is: a damaged
  length of 132 can swallow 20 answers of the shortest kind, by `MissedBounded`'s
  bound, and after five drops in a row the link is declared down.
- A band frame in flight when the analyser is disabled marks the spectrum live again
  (`dspi.cpp:1459` on).
- `is_source_selectable()` is "false only when the probe has run and the device said
  this source is not available" (`dspi.h:246`); it is also false for ADAT when one of
  the two ADAT answers was dropped. `MaskSettled` speaks of devices that answered all
  three reads, and the mask of a device that was swapped without the hub noticing
  stays that of the one before.

## Proofs

TLAPS proves, for every value of the constants that the modules' assumptions
allow:

| theorem | property |
|---|---|
| `HubProofs`: `TypeCorrect`, `OneOutstandingHolds`, `UniqueRequestsHold`, `OfflineForgetsHolds`, `RetriesBoundedHolds` | `TypeOK`, `OneOutstanding`, `UniqueRequests`, `OfflineForgets`, `RetriesBounded` |
| `HubProofs`: `BurstWholeHolds`, `CommandsKeptHolds`, `TransmissionsBoundedHolds` | `BurstWhole`, `CommandsKept`, `TransmissionsBounded` |
| `HubLinkProofs`: `AttributedHolds` | `Attributed`, when `MaxLate = 0` |
| `HubLinkProofs`: `LatchedOnlyRefusedHolds` | `LatchedOnlyRefused`, when `MaxLate = 0` and the device refuses nothing but the toggles it lacks (no `"ERROR"` among its other replies) |
| `HubReadBackProofs`: `ImplementsReadBack` | `PublishesSamples`, that is `RB!Spec`, when `MaxLate = 0` |
| `HubReadBackProofs`: `StaleHasRemedyHolds` | `StaleHasRemedy`, when `MaxLate = 0` and the device notifies or is polled |
| `HubReadBackProofs`: `MissedShowsHolds` | `MissedShows`, when the device does not restart, no hint is lost before the first that is heard, and it sends fewer than `NotifyModulus` |
| `HubReadBackProofs`: `SettledAgreesHolds` | `SettledAgrees`, under the assumptions of the two |
| `PresetsProofs`: `TypeCorrect` | `TypeOK` |
| `PresetsProofs`: `SlotHasRemedyHolds` | `SlotHasRemedy`, in behaviours in which a slot of the queue is free between the steps (`FreeLeft`), when the burst reads the slot, as in the code |
| `PresetsProofs`: `ConfirmsOwnLoadHolds`, `ConfirmsWithRoom` | `ConfirmsOwnLoad`, in behaviours with room for commands (`RoomLeft`); in every behaviour when the queue has two more slots than there are different commands |
| `FrameParserProofs`: `TypeCorrect`, `NeverOutOfBounds` | `TypeOK`, `WritesInBounds` |
| `FrameParserProofs`: `ChecksWholeHolds`, `AlignedIsDelivered`, `MissedBoundedHolds` | `ChecksWhole`, `AlignedDelivered`, `MissedBounded` |
| `RtaProofs`: `TypeCorrect` | `TypeOK` |
| `RtaProofs`: `BusyMeansWorkHolds` | `BusyMeansWork`, in behaviours in which a slot of the queue is free between the steps (`FreeLeft`) |
| `RtaProofs`: `NeverParkedHolds` | `NeverParked`, likewise, when `millis()` is in the first half of its range (`Uptimes` is `"early"`) |
| `RtaProofs`: `VerdictNeedsRefusalHolds` | `VerdictNeedsRefusal`, when the device has every channel and order (`DevChannels = Channels`, `DevOrders = Orders`) |
| `EntitiesProofs`: `TypeCorrect`, `ShowsReadableHolds`, `MaskSettles`, `ShownStaleHasRemedyHolds`, `NotOptimistic` | `TypeOK`, `ShowsReadable`, `MaskSettled`, `ShownStaleHasRemedy`, `NeverOptimistic` |

The hub. `TransportProofs` shows that one `enqueue_()` writes a slot of the array, keeps
the kind of the entries and their uniqueness (`EnqueueKeeps`), and that a sequence of
calls does (`EnqueueAllKeeps`, by the least prefix that would not). It lifts this to
every method: `Sound` (one in flight exactly in `AWAIT_RESP`, no duplicates, an offline
hub unidentified) is kept. `HubProofs` has the inductive
invariant `IInv`: `TypeOK` alone is not inductive, because a SET's value travels from
the queue over the transaction in flight and the line to the device, so `IInv` says
of all three that they hold `HubTxns`, whose budget is the hub's. Each action keeps
`IInv`. `OneOutstanding` and `RetriesBounded` are parts of it that no run checks, because
`Attributed` and `TransmissionsBounded` say more of the same.

Eviction. `CommandsKept` and `BurstWhole` are about every `enqueue_()` call of a step.
`EnqueueCommands` says that one call evicts a waiting command only out of a queue full
of commands, and `EnqueueAllCommands` says it of the reads of `on_platform_()`, which
have a command's priority. A pass of `loop()` adds a retry or a probe, never both, because
a retry goes with a backoff; and the burst that follows has the room it needs, so
that it evicts nothing (`EnqueueAllWithRoom`, by counting the free slots). What
`send_next_()` takes out is in flight (`SentNextHolds`).

Transmissions. The count `sends` of `HubHistory` is tied to the attempt count of the code by
`SendsInv`: the watched SET in flight was sent at most once more than it counts, and one that
waits while none is in flight at most as often as it counts. A copy that waits behind
the one in flight is no exception, because the retry meets it in `enqueue_()`, which
keeps the higher count (`EnqueueAttempts`). Each method carries that over to the next
(`Carries`).

Attribution. Nothing in a response says what it answers, so `Attributed` is not
inductive. `LinkInv` adds what the code relies on: when no answer comes late, the link
holds at most one request or one answer, that of the transaction in flight, and none
once the timeout has passed, since `loop()` then goes on to the next transaction.

Refusals. With an answer attributed, `RefusalInv` adds that an answer ERROR that waits is one
to a read of a toggle the device lacks; so is what `mark_toggle_unsupported_()` latches.

The analyser. `IInv` of `RtaProofs` adds to the types and to `Sound` that a request the
device may answer is the one in flight and not timed out, and that the chunk of band
centres to be read next is at most the one after those that were stored. The verdict is
reached when no channel is left to poll; by the answers about the platform and the
capabilities, which speak for a device without this analyser; or by the refusal of a
configuration, which a device with every channel and order does not make. A link
failure leaves the phase as it is (`LinkFailureIsNoVerdict`).

Waiting. `BusyMeansWork` is proved as: while `rta_busy_` is set, a transaction of the state
machine waits or is in flight (`Waits`). With a free slot an `enqueue_()` evicts nothing and
a retry is taken, an answer to such a transaction ends the waiting, and so does its
`on_fail` (`FailureEndsWaiting`), whatever was reconfigured in between. Without the free
slot it is false: an evicted transaction calls nobody.

Presets. A load that the hub is to confirm is held by the queue or in flight until the
device accepts it, or else its failure ends the poll. Only a command evicts a
command, and only out of a queue of commands alone; `RoomLeft` says that there is a slot
without a command between the steps, and two while a command is in flight, since it
comes back when it is retried. A queue that is full of commands stays so for the rest of a
step, and sending takes out one, so a step that evicts a load ends in a state without
that room. `ConfirmsWithRoom` counts: the queue holds a command at most once.
`on_platform_()` queues eight different commands in the code with the probe and the poll,
so that 12 slots leave room for loads of two different slots; for more than these at
once, and for the setters of other parts, `RoomLeft` is an assumption about the calls.

Refinement. The mapping gives `ReadBack` the hub's `state_` for what is shown and the
value of the one usable answer in `rx` for the sample (`SampleInRx`). `LinkInv` makes
that answer unique; `SetsReadNothing` says that the answer to a SET carries no value
that could be taken for one. The device's answer to a read maps to taking a sample,
the readback handlers to publishing it, a restart's re-probe to forgetting, and
everything else to a stutter.

Stale values. `StaleHasRemedy` is not inductive: a SET that waits will make its parameter
stale once the device carries it out, and a sample in `rx` is stale once a change has
overtaken it. `RemedyInv` says of both that something follows them: a SET that waits
comes with a read of its parameter or a refresh (`Confirmed`), as the setters and the
claim of the boot source queue it behind, and a stale sample with more than the read it
answers (`LateRemedy`). What the code may lose, a read that was evicted or given up, and a
hint, are observed by `unread` and `missed`: the theorem says that these are the only two
ways. `MaxLate = 0` is `LinkInv`'s, since a late answer can be published for another
parameter; the device has to notify, or to be polled, since otherwise nobody tells the
hub of a change.

Lost hints. `MissedInv` says that the number heard last, those of the hints on their way and
the number the device gives next are in order, and that once a hint is lost a number
between the first and the last of these is on no hint. When no hint is on its way the
last one heard is then not the latest. The order needs numbers that do not wrap
(`MaxChanges < NotifyModulus`), a hint that was heard before the first that is lost
(`~BaselineLoss`) and a device that does not restart its count. `SettledAgrees` follows from
this and from `StaleHasRemedy`.

The slot shown. `SlotHasRemedy` is inductive over `IInv` once the reading of the slot is
stated by its identity (`HoldsReading`), which a retry and the coalescing in
`enqueue_()` keep. A load that ends on the device is hinted at, which asks for a refresh
or is counted as lost in `unread`; the burst that serves the refresh finds room for the
reading (`BurstWaits`), and what drops the reading counts it. That needs `FreeLeft`,
since an evicted reading calls nobody, and a burst that reads the slot, as the code's
does (`BurstReadsSlot`).

Never parked. `AwakeInv` says that there always is a deadline that will pass, and that an enabled analyser is in no phase of stopping; together with
`BusyMeansWork` this is `NeverParked`. It needs the first half of the range of `millis()`:
`MCRta_uptime` shows what happens in the other.

The parser. `InBounds` is what makes `WritesInBounds` inductive: whenever the parser is
in `PAYLOAD` its length is at most `MaxRxPayload` and not yet reached, and in `HEADER` the
header has a byte to come. The types need that one turn of the checksum keeps
sixteen bits. For the rest there is `LinkInv`. `Folded` says that the checksum kept along the
way is that of the bytes taken since the sync byte (`CrcAppend`: the checksum of one byte
more is one turn more), and with it goes `ChecksWhole`. `Followed` says where the
parser is after the first n bytes of a whole frame that found it hunting, so that the last
byte delivers that frame. `Swallowed` weighs the frames that were missed against the
bytes the parser may still take before it hunts again (`Left`): a whole frame
costs it at least the shortest frame's bytes, which bounds `missed`.

The entities. `ShowsReadable` needs that `state_` and what is published have a fixed
domain (`Domains`). `MaskSettled` needs `MaskFollows`: ADAT's bit follows the two settings it
depends on at any time, and what has been answered is what the device has. The types
(`TypeInv`) need that the index of a select is one of its options (`IndexForIs`), and that
the mask takes over only inputs there are. `ShownStaleHasRemedy` is about what is
published; `RemedyInv` says it of `state_`, parameter by parameter (`RemedyOfOne`), and two
states that read the same are shown the same (`SameReading`).

The assumptions on constants are `QueueAssumption`, `TransportAssumption`, `HubAssumption`,
`PresetsAssumption`, `RtaAssumption`, `ParserAssumption` and `EntitiesAssumption`; TLC
evaluates each in a run. Some theorems assume more, in their statement: the two of
`HubLinkProofs`, `ImplementsReadBack`, `StaleHasRemedyHolds` and `SettledAgreesHolds` a link
without late answers (and the refusals named in the table), the last two a device that
notifies or is polled, `MissedShowsHolds` and `SettledAgreesHolds` notifications that do
not start again, `VerdictNeedsRefusalHolds` a device with every channel and order, and
`NeverParkedHolds` an early `millis()`. `ConfirmsOwnLoadHolds`, `SlotHasRemedyHolds`,
`BusyMeansWorkHolds` and `NeverParkedHolds` assume room in the queue of the behaviour,
`ConfirmsWithRoom` of the constants. Every behaviour of `MCPresets_follows` has the room for
commands by the last of these; `FreeLeft` TLC finds invariant there and in
`MCRta_streams`. The divergences above say what happens without.

Only model-checked:

- Liveness (`Converges`, `GivesUp`, `ProbedUntilIdentified`, `RefreshServed`, `ConfirmEnds`,
  `ActiveFollows`, `Streams`, `AppliesUndisturbed`, `PolledInTurn`, `EntitiesFollow`), which is
  out of the prover's reach, with ENABLED.
- `OnlySent`, which is not true of every size: a checksum has sixteen bits, so with enough
  damage a frame that was never sent has the right one. What the code does guarantee is
  `ChecksWhole`.
- `MissedShows` and `SettledAgrees` with a device that restarts (`MCHub_converges`, one fault).
  A restart that resets the number can hide a lost hint when the numbers meet again, so
  they are not true of every number of changes.

## Not modelled

- `dump_config()`, logging, counters and statistics, which nothing reads.
- Code generation and schemas (`__init__.py`): build time, no state.
- `tools/dspi_setup.py`: a sequential script around USB control transfers.
- `build_request_frame()`: no state; what matters of it, one request on the line, is in
  `Hub`.
- What a band frame draws, the conversion of centres and levels, and the text of names.
- The arithmetic of `millis()` modulo 2^32 but for its two outcomes in `go_offline_()` and
  in `reset_rta_()`. The remaining comparisons subtract first and stay right while a
  deadline is shorter than half the range.
- The occupancy of preset slots, which only warns.

## What could be added

- Proofs: a bound on what the callers and the analyser can have waiting at once, from
  which `FreeLeft` would follow.
- Presets and the analyser in one hub, so that an eviction of one by the other
  can happen.
