------------------------------ MODULE Entities ------------------------------
(***************************************************************************)
(* The entities and the selectable input sources.  The entities listen to  *)
(* the hub's state_ and forward what a user asks for to the hub's setters. *)
(*                                                                         *)
(* Hub, Transport and TxnQueue say how a request is carried out; here the  *)
(* queue is the set of reads in it and the last value of every setter, and *)
(* a read is answered or dropped in one step.                              *)
(***************************************************************************)
EXTENDS Naturals, Sequences, FiniteSets, SequencesExt

CONSTANTS
    Levels, Rates, Slots, \* volumes, pipeline rates and preset slots
    Sources,        \* input sources
    SourceValues,   \* the input select's wire values, in the order of its options
    SlotValues,     \* likewise the preset select's
    Labels,         \* the names a slot may have, Unnamed among them
    Devices,        \* what a device may be after a restart
    Nothing,        \* not read, not published, not asked for
    Unnamed,        \* the empty name
    Kinds,          \* the entities that are configured
    MaxEvents       \* bound: changes, restarts, faults and what users ask for

\* DSPiVolumeNumber, DSPiSwitch, DSPiInputSourceSelect, DSPiPresetSelect,
\* DSPiSensor and DSPiTextSensor.
AllKinds == {"volume", "mute", "input", "preset", "rate", "name"}

ParamOf(e) ==
    CASE e = "volume" -> "USER_VOLUME"
      [] e = "mute" -> "USER_MUTE"
      [] e = "input" -> "INPUT_SOURCE"
      [] e = "preset" -> "PRESET"
      [] e = "rate" -> "RATE"
      [] e = "name" -> "NAME"

\* What is read; a parameter without an entity matters to none.
Params == {ParamOf(e) : e \in Kinds} \ {"NAME"}
SourceReads == {"SPDIF", "ADAT_ENABLE", "ADAT_PIN"}
Probes == {"PLATFORM"} \cup SourceReads
Reads == Params \cup Probes \cup {"NAME"}

Settable == Params \ {"RATE"}

ValuesOf(p) ==
    CASE p = "USER_VOLUME" -> Levels
      [] p = "USER_MUTE" -> BOOLEAN
      [] p = "INPUT_SOURCE" -> Sources
      [] p = "PRESET" -> Slots
      [] p = "RATE" -> Rates

\* INPUT_SOURCE_USB, _SPDIF, _I2S and _ADAT are 0 .. 3; further S/PDIF inputs
\* come after.
USB == 0
SPDIF == 1
I2S == 2
ADAT == 3

SpdifSources == Sources \ {USB, I2S, ADAT}

ASSUME EntitiesAssumption ==
    /\ {USB, SPDIF, I2S, ADAT} \subseteq Sources
    /\ SourceValues \in Seq(Sources) /\ SlotValues \in Seq(Slots)
    /\ Unnamed \in Labels
    /\ Kinds \subseteq AllKinds
    /\ "name" \in Kinds => "preset" \in Kinds
    /\ Nothing \notin Labels /\ \A p \in Params : Nothing \notin ValuesOf(p)
    /\ \A d \in Devices :
         /\ d = [r \in DOMAIN d |-> d[r]] /\ Params \cup SourceReads \subseteq DOMAIN d
         /\ \A p \in Params : d[p] \in ValuesOf(p)
         /\ SPDIF \in d.SPDIF /\ d.SPDIF \subseteq SpdifSources
         /\ d.ADAT_ENABLE \in BOOLEAN /\ d.ADAT_PIN \in BOOLEAN

VARIABLES
    dev,            \* the device's values
    state,          \* state_: what was read, and Nothing where it is not valid
    selectable,     \* selectable_mask, as the set of sources
    selectable_valid, adat_enabled, adat_pin_set,
    published,      \* last_published_ of every entity, Nothing before the first
    wanted,         \* the reads that wait or are in flight
    sets,           \* per setter the value that waits or is in flight
    refresh_pending,
    online, identified,
    hinted,         \* a notification is on its way
    answered,       \* observer: the source reads this device has answered
    unread,         \* observer: parameters whose latest read was dropped
    events

link == <<online, identified, refresh_pending>>
mask == <<selectable, selectable_valid, adat_enabled, adat_pin_set>>
observers == <<answered, unread>>
vars == <<dev, state, mask, published, wanted, sets, link, hinted, observers, events>>

-----------------------------------------------------------------------------
(* The entities *)

\* The wire values a select lists; index_for_source_() and index_for_slot_()
\* find the first.
ListOf(e) == IF e = "input" THEN SourceValues ELSE SlotValues

IsSelect(e) == e \in {"input", "preset"}

IndexFor(list, value) == SelectInSeq(list, LAMBDA v : v = value)

\* Mutant: index_for_slot_() is not looked at.
ListedAlways(e, s) == TRUE

Listed(e, s) == IsSelect(e) => IndexFor(ListOf(e), s[ParamOf(e)]) > 0

Readable(e, s) ==
    /\ s[ParamOf(e)] # Nothing
    /\ e = "name" => s.PRESET # Nothing

\* "Slot N" stands for a slot that was never named.
Rendered(e, s) ==
    CASE IsSelect(e) -> <<"option", IndexFor(ListOf(e), s[ParamOf(e)])>>
      [] e = "name" /\ s.NAME = Unnamed -> <<"Slot", s.PRESET>>
      [] OTHER -> <<"value", s[ParamOf(e)]>>

Publishes(e, s) == Readable(e, s) /\ Listed(e, s)

\* Mutant: only the first reading is published.
HeardOnce(s) ==
    [e \in Kinds |-> IF Publishes(e, s) /\ published[e] = Nothing
                     THEN Rendered(e, s) ELSE published[e]]

\* on_dspi_state() of every listener, which leaves the entity alone when what
\* it would publish is what it published last.
Heard(s) ==
    [e \in Kinds |-> IF Publishes(e, s) THEN Rendered(e, s) ELSE published[e]]

\* A handler that stores s and calls publish_state_().
Stores(s) ==
    /\ state' = s
    /\ published' = Heard(s)

-----------------------------------------------------------------------------
(* The hub *)

NeverRead == [p \in Params \cup {"NAME"} |-> Nothing]

Init ==
    /\ dev \in Devices
    /\ state = NeverRead
    /\ selectable = {} /\ selectable_valid = FALSE
    /\ adat_enabled = FALSE /\ adat_pin_set = FALSE
    /\ published = [e \in Kinds |-> Nothing]
    /\ wanted = {"PLATFORM"}
    /\ sets = [p \in Settable |-> Nothing]
    /\ refresh_pending = FALSE
    /\ online = TRUE /\ identified = FALSE
    /\ hinted = FALSE
    /\ answered = {} /\ unread = {}
    /\ events = 0

\* find_next_(): setters and the probe chain before what is read again.
Urgent == wanted \cap Probes # {} \/ \E p \in Settable : sets[p] # Nothing

NextRead(r) == r \in wanted /\ (r \in Probes \/ ~Urgent)

\* Mutant: a refresh that comes while reads wait is taken for served.
BurstSkipped ==
    /\ refresh_pending
    /\ refresh_pending' = FALSE
    /\ wanted' = IF wanted = {} THEN Params ELSE wanted
    /\ UNCHANGED <<dev, state, mask, published, sets, online, identified, hinted, observers, events>>

Burst ==
    /\ refresh_pending
    /\ refresh_pending' = FALSE
    /\ wanted' = wanted \cup Params
    /\ UNCHANGED <<dev, state, mask, published, sets, online, identified, hinted, observers, events>>

StartProbe ==
    /\ ~identified /\ "PLATFORM" \notin wanted
    /\ online' = TRUE
    /\ wanted' = wanted \cup {"PLATFORM"}
    /\ UNCHANGED <<dev, state, mask, published, sets, identified, refresh_pending, hinted,
                   observers, events>>

\* on_platform_(): values of the device that was there before are forgotten,
\* where there is a flag to say so.
PlatformRead ==
    /\ NextRead("PLATFORM")
    /\ identified' = TRUE
    /\ wanted' = (wanted \ {"PLATFORM"}) \cup SourceReads
    /\ state' = [p \in DOMAIN state |-> IF p \in {"USER_MUTE", "NAME"} THEN Nothing ELSE state[p]]
    /\ refresh_pending' = TRUE
    /\ UNCHANGED <<dev, mask, published, sets, online, hinted, observers, events>>

\* What every answer to a read of the sources has in common.
SourceAnswer(r) ==
    /\ NextRead(r)
    /\ wanted' = wanted \ {r}
    /\ answered' = answered \cup {r}
    /\ UNCHANGED <<dev, sets, link, hinted, unread, events>>

\* Mutant: the mask is built afresh from the S/PDIF answer.
SpdifMaskAfresh(inputs) == {USB, I2S} \cup inputs

SpdifMask(inputs) == {USB, I2S} \cup inputs \cup (selectable \cap {ADAT})

\* on_spdif_input_config_()
SpdifRead ==
    /\ SourceAnswer("SPDIF")
    /\ selectable' = SpdifMask(dev.SPDIF)
    /\ selectable_valid' = TRUE
    /\ Stores(state)
    /\ UNCHANGED <<adat_enabled, adat_pin_set>>

\* ADAT needs to be enabled and to have a pin.
AdatSettled(enabled, pin) ==
    /\ selectable' = IF enabled /\ pin THEN selectable \cup {ADAT} ELSE selectable \ {ADAT}
    /\ IF selectable_valid THEN Stores(state) ELSE UNCHANGED <<state, published>>
    /\ UNCHANGED selectable_valid

\* on_adat_enable_()
AdatEnableRead ==
    /\ SourceAnswer("ADAT_ENABLE")
    /\ adat_enabled' = dev.ADAT_ENABLE
    /\ AdatSettled(dev.ADAT_ENABLE, adat_pin_set)
    /\ UNCHANGED adat_pin_set

\* on_adat_pin_()
AdatPinRead ==
    /\ SourceAnswer("ADAT_PIN")
    /\ adat_pin_set' = dev.ADAT_PIN
    /\ AdatSettled(adat_enabled, dev.ADAT_PIN)
    /\ UNCHANGED adat_enabled

\* on_preset_active_() asks for the name of a slot that is new.
AsksName(p, value) ==
    p = "PRESET" /\ (state.PRESET # value \/ state.NAME = Nothing)

\* on_user_volume_(), store_toggle_(), on_input_source_(), on_preset_active_()
\* and on_input_rate_().
ParamRead(p) ==
    /\ NextRead(p)
    /\ wanted' = (wanted \ {p}) \cup (IF AsksName(p, dev[p]) THEN {"NAME"} ELSE {})
    /\ Stores([state EXCEPT ![p] = dev[p]])
    /\ unread' = unread \ {p}
    /\ UNCHANGED <<dev, mask, sets, link, hinted, answered, events>>

\* on_preset_name_(): which slot's name it is, Presets shows.
NameRead(name) ==
    /\ NextRead("NAME")
    /\ wanted' = wanted \ {"NAME"}
    /\ Stores([state EXCEPT !.NAME = name])
    /\ UNCHANGED <<dev, mask, sets, link, hinted, observers, events>>

\* handle_notification_()
Notified ==
    /\ hinted
    /\ hinted' = FALSE
    /\ refresh_pending' = TRUE
    /\ UNCHANGED <<dev, state, mask, published, wanted, sets, online, identified, observers, events>>

\* Something that disturbs: only so many.
Event == events < MaxEvents /\ events' = events + 1

\* The wire value of what a user chooses, Nothing for an index that is not one.
Chosen(e, choice) ==
    IF ~IsSelect(e) THEN choice
    ELSE IF choice \in DOMAIN ListOf(e) THEN ListOf(e)[choice] ELSE Nothing

Offered(e) == IF IsSelect(e) THEN 1 .. Len(ListOf(e)) + 1 ELSE ValuesOf(ParamOf(e))

\* Mutant: the user's choice is shown before the device confirms it.
ShownAtOnce(e, value) ==
    published' = [published EXCEPT ![e] = Rendered(e, [state EXCEPT ![ParamOf(e)] = value])]

\* control() leaves the entity as it is.
Shown(e, value) == UNCHANGED published

\* The setters of the entities end in request_refresh(), but for
\* set_preset_slot(), which only arms the confirmation poll of Presets.
RefreshAfter(e) == refresh_pending \/ e # "preset"

\* control() or write_state() of an entity, with the setter it calls.
Control(e) ==
    /\ Event
    /\ \E choice \in Offered(e) :
         LET value == Chosen(e, choice)
         IN  /\ value # Nothing
             /\ sets' = [sets EXCEPT ![ParamOf(e)] = value]
             /\ Shown(e, value)
    /\ refresh_pending' = RefreshAfter(e)
    /\ UNCHANGED <<dev, state, mask, wanted, online, identified, hinted, observers>>

\* update() of the rate sensor: request_input_rate().
PollRate ==
    /\ "rate" \in Kinds /\ online /\ "RATE" \notin wanted
    /\ wanted' = wanted \cup {"RATE"}
    /\ UNCHANGED <<dev, state, mask, published, sets, link, hinted, observers, events>>

\* go_offline_()
GoOffline ==
    /\ online /\ Event
    /\ online' = FALSE /\ identified' = FALSE
    /\ unread' = unread \cup (wanted \cap Params)
    /\ wanted' = {}
    /\ sets' = [p \in Settable |-> Nothing]
    /\ Stores(state)
    /\ UNCHANGED <<dev, mask, refresh_pending, hinted, answered>>

-----------------------------------------------------------------------------
(* The device and the link *)

\* A set request is carried out, and announced; or is answered with OK and
\* ignored; or is lost.
Served(p) ==
    /\ sets[p] # Nothing
    /\ sets' = [sets EXCEPT ![p] = Nothing]
    /\ \/ dev' = [dev EXCEPT ![p] = sets[p]] /\ hinted' = TRUE /\ UNCHANGED events
       \/ Event /\ UNCHANGED <<dev, hinted>>
    /\ UNCHANGED <<state, mask, published, wanted, link, observers>>

\* A read is given up after its retries, or its answer is refused.
Dropped(r) ==
    /\ NextRead(r) /\ Event
    /\ wanted' = wanted \ {r}
    /\ unread' = unread \cup ({r} \cap Params)
    /\ UNCHANGED <<dev, state, mask, published, sets, link, hinted, answered>>

\* The device tells of every change but that of the rate alone.
DeviceChange(p) ==
    /\ Event
    /\ \E value \in ValuesOf(p) \ {dev[p]} : dev' = [dev EXCEPT ![p] = value]
    /\ hinted' = (hinted \/ p # "RATE")
    /\ UNCHANGED <<state, mask, published, wanted, sets, link, observers>>

\* A device with another configuration, or another device, is there.
Restart ==
    /\ Event
    /\ dev' \in Devices
    /\ hinted' = TRUE
    /\ answered' = {}
    /\ UNCHANGED <<state, mask, published, wanted, sets, link, unread>>

SourceRead == SpdifRead \/ AdatEnableRead \/ AdatPinRead

Next ==
    \/ Burst \/ StartProbe \/ PlatformRead \/ SourceRead
    \/ \E p \in Params : ParamRead(p)
    \/ \E name \in Labels : NameRead(name)
    \/ Notified \/ PollRate \/ GoOffline
    \/ \E e \in Kinds \ {"rate", "name"} : Control(e)
    \/ \E p \in Settable : Served(p)
    \/ \E r \in Reads : Dropped(r)
    \/ \E p \in Params : DeviceChange(p)
    \/ Restart

Spec == Init /\ [][Next]_vars

(***************************************************************************)
(* loop() goes on, and what is in the queue is sent and ends: Hub's GivesUp *)
(* and Converges.  A rate sensor is polled for ever.                       *)
(***************************************************************************)
Fairness ==
    /\ WF_vars(Burst) /\ WF_vars(StartProbe) /\ WF_vars(PlatformRead) /\ WF_vars(SourceRead)
    /\ \A p \in Params : WF_vars(ParamRead(p))
    /\ WF_vars(\E name \in Labels : NameRead(name))
    /\ WF_vars(Notified) /\ WF_vars(PollRate)
    /\ \A p \in Settable : WF_vars(Served(p))

FairSpec == Spec /\ Fairness

-----------------------------------------------------------------------------

Renderings(e) ==
    CASE IsSelect(e) -> {"option"} \X (1 .. Len(ListOf(e)))
      [] e = "name" -> ({"value"} \X (Labels \ {Unnamed})) \cup ({"Slot"} \X Slots)
      [] OTHER -> {"value"} \X ValuesOf(ParamOf(e))

TypeOK ==
    /\ \A p \in Params : dev[p] \in ValuesOf(p)
    /\ \A p \in Params : state[p] \in ValuesOf(p) \cup {Nothing}
    /\ state.NAME \in Labels \cup {Nothing}
    /\ selectable \subseteq Sources
    /\ {selectable_valid, adat_enabled, adat_pin_set} \subseteq BOOLEAN
    /\ \A e \in Kinds : published[e] = Nothing \/ published[e] \in Renderings(e)
    /\ wanted \subseteq Reads
    /\ \A p \in Settable : sets[p] \in ValuesOf(p) \cup {Nothing}
    /\ {refresh_pending, online, identified, hinted} \subseteq BOOLEAN
    /\ answered \subseteq SourceReads /\ unread \subseteq Params

(***************************************************************************)
(* Every entity shows what the hub has read for it, and a text sensor the  *)
(* name of the slot that the hub has read: no handler changes state_       *)
(* without telling the listeners, but for on_platform_(), which only       *)
(* forgets.  A select leaves alone what it does not list.                  *)
(***************************************************************************)
ShowsReadable ==
    \A e \in Kinds : Publishes(e, state) => published[e] = Rendered(e, state)

\* is_source_selectable()
IsSelectable(source) == ~selectable_valid \/ source \in selectable

\* unlisted_selectable_()
UnlistedSelectable ==
    IF selectable_valid THEN selectable \ ToSet(SourceValues) ELSE {}

\* What the device accepts.
CanSelect(d) ==
    {USB, I2S} \cup d.SPDIF \cup (IF d.ADAT_ENABLE /\ d.ADAT_PIN THEN {ADAT} ELSE {})

(***************************************************************************)
(* Once a device has answered the three reads about its sources, in        *)
(* whatever order, again or after another device did, a source reads as    *)
(* selectable exactly when that device can select it, and dump_config()    *)
(* reports those of them that the select does not list                     *)
(* (on_spdif_input_config_(), on_adat_enable_(), on_adat_pin_()).          *)
(***************************************************************************)
MaskSettled ==
    answered = SourceReads =>
        /\ \A source \in Sources : IsSelectable(source) <=> source \in CanSelect(dev)
        /\ UnlistedSelectable = CanSelect(dev) \ ToSet(SourceValues)

(***************************************************************************)
(* "The value is never published optimistically from control()": what an   *)
(* entity comes to show is what the device has, and it springs back from   *)
(* nothing (DSPiVolumeNumber, DSPiSwitch and the selects).                 *)
(***************************************************************************)
NeverOptimistic ==
    [][\A e \in Kinds \ {"name"} :
         published'[e] # published[e] => published'[e] = Rendered(e, dev')]_vars

\* What will bring p up to date, or what was lost of it.
Remedy(p) ==
    refresh_pending \/ hinted \/ ~identified \/ p \in wanted \/ p \in unread

(***************************************************************************)
(* An entity that does not show what the device has will be told: its      *)
(* parameter is about to be read, or a hint, a probe or a refresh is still *)
(* to come, unless a read of it was given up.  A rate changes without a    *)
(* hint and is polled (request_refresh(), on_platform_(), go_offline_()).  *)
(***************************************************************************)
ShownStaleHasRemedy ==
    \A e \in Kinds \ {"name", "rate"} :
        Listed(e, dev) /\ published[e] # Rendered(e, dev) => Remedy(ParamOf(e))

(***************************************************************************)
(* When reads are no longer dropped, every entity ends up showing what the *)
(* device has, if it lists it, whatever the user asked for, and although   *)
(* the device says nothing of a new rate.                                  *)
(***************************************************************************)
Follows(e) == Listed(e, dev) => published[e] = Rendered(e, dev)

EntitiesFollow ==
    \A e \in Kinds \ {"name"} : <>[](ParamOf(e) \notin unread) => <>[]Follows(e)

=============================================================================
