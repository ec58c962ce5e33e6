--------------------------- MODULE EntitiesProofs ---------------------------
(***************************************************************************)
(* What the entities show, and which sources read as selectable, for every *)
(* choice of entities, option lists, devices and number of disturbances.   *)
(***************************************************************************)
EXTENDS Entities, WellFoundedInduction, TLAPS

(***************************************************************************)
(* What on_platform_() forgets must be a field of state_, and a field that *)
(* is kept must be one: so the domains are carried along.                  *)
(***************************************************************************)
Domains ==
    /\ DOMAIN state = Params \cup {"NAME"}
    /\ DOMAIN published = Kinds
    /\ Params \cup SourceReads \subseteq DOMAIN dev

(***************************************************************************)
(* The bit of ADAT follows the two settings it depends on at any time, and *)
(* the other bits follow the S/PDIF inputs; what has been read of them is  *)
(* what the device has, since a device that is replaced has answered       *)
(* nothing.  MaskSettled is what this comes to when all three are there.   *)
(***************************************************************************)
MaskFollows ==
    /\ ADAT \in selectable <=> (adat_enabled = TRUE /\ adat_pin_set = TRUE)
    /\ ADAT \notin dev.SPDIF
    /\ "SPDIF" \in answered =>
         /\ selectable_valid = TRUE
         /\ selectable \ {ADAT} = {USB, I2S} \cup dev.SPDIF
    /\ "ADAT_ENABLE" \in answered => adat_enabled = dev.ADAT_ENABLE
    /\ "ADAT_PIN" \in answered => adat_pin_set = dev.ADAT_PIN
    /\ dev.ADAT_ENABLE \in BOOLEAN /\ dev.ADAT_PIN \in BOOLEAN

IInv == Domains /\ ShowsReadable /\ MaskFollows

-----------------------------------------------------------------------------

LEMMA ParamNames ==
    /\ \A e \in Kinds : ParamOf(e) \in Params \cup {"NAME"}
    /\ \A e \in Kinds \ {"name"} : ParamOf(e) \in Params
    /\ Params \cap (SourceReads \cup {"NAME"}) = {}
<1>1. \A e \in AllKinds : ParamOf(e) \in {"USER_VOLUME", "USER_MUTE", "INPUT_SOURCE",
                                          "PRESET", "RATE", "NAME"}
  BY DEF AllKinds, ParamOf
<1>2. \A e \in AllKinds \ {"name"} : ParamOf(e) # "NAME"
  BY DEF AllKinds, ParamOf
<1> QED
  BY <1>1, <1>2, EntitiesAssumption DEF EntitiesAssumption, Params, SourceReads

LEMMA SourceNumbers == ADAT # USB /\ ADAT # I2S
BY DEF ADAT, USB, I2S

(***************************************************************************)
(* An entity hears a value again only where it differs.                    *)
(***************************************************************************)
LEMMA SameReading ==
    ASSUME NEW e \in Kinds, NEW s, NEW t, s[ParamOf(e)] = t[ParamOf(e)],
           e = "name" => s.PRESET = t.PRESET
    PROVE  /\ Publishes(e, s) <=> Publishes(e, t)
           /\ Rendered(e, s) = Rendered(e, t)
<1>1. Listed(e, s) <=> Listed(e, t)
  BY DEF Listed
<1>2. Readable(e, s) <=> Readable(e, t)
  BY DEF Readable
<1>3. Rendered(e, s) = Rendered(e, t)
  <2>1. CASE e = "name"
    <3>1. s.NAME = t.NAME
      BY <2>1 DEF ParamOf
    <3> QED
      BY <2>1, <3>1 DEF Rendered
  <2>2. CASE e # "name"
    BY <2>2 DEF Rendered
  <2> QED
    BY <2>1, <2>2
<1> QED
  BY <1>1, <1>2, <1>3 DEF Publishes

LEMMA StoresShows ==
    ASSUME NEW s, Stores(s)
    PROVE  ShowsReadable' /\ DOMAIN published' = Kinds
BY DEF Stores, Heard, ShowsReadable

(***************************************************************************)
(* A parameter that is read leaves what the others show as it was.         *)
(***************************************************************************)
LEMMA OneParamRead ==
    ASSUME IInv, NEW p \in Params, ParamRead(p), NEW e \in Kinds \ {"name"},
           ParamOf(e) # p
    PROVE  published'[e] = published[e]
<1>1. ParamOf(e) \in DOMAIN state
  BY ParamNames DEF IInv, Domains
<1>2. state' = [state EXCEPT ![p] = dev[p]] /\ published' = Heard(state')
  BY DEF ParamRead, Stores
<1>3. state'[ParamOf(e)] = state[ParamOf(e)]
  BY <1>1, <1>2
<1>4. /\ Publishes(e, state') <=> Publishes(e, state)
      /\ Rendered(e, state') = Rendered(e, state)
  BY <1>3, SameReading
<1>5. Publishes(e, state) => published[e] = Rendered(e, state)
  BY DEF IInv, ShowsReadable
<1> QED
  BY <1>2, <1>4, <1>5 DEF Heard

-----------------------------------------------------------------------------
(* ShowsReadable *)

LEMMA PlatformShows ==
    ASSUME IInv, PlatformRead
    PROVE  ShowsReadable'
<1>1. published' = published
  BY DEF PlatformRead
<1>2. state' = [p \in DOMAIN state |-> IF p \in {"USER_MUTE", "NAME"} THEN Nothing ELSE state[p]]
  BY DEF PlatformRead
<1> SUFFICES ASSUME NEW e \in Kinds, Publishes(e, state')
             PROVE  published[e] = Rendered(e, state')
  BY <1>1 DEF ShowsReadable
<1>3. ParamOf(e) \in DOMAIN state
  BY ParamNames DEF IInv, Domains
<1>4. state'[ParamOf(e)] # Nothing
  BY DEF Publishes, Readable
<1>5. ParamOf(e) \notin {"USER_MUTE", "NAME"} /\ state'[ParamOf(e)] = state[ParamOf(e)]
  BY <1>2, <1>3, <1>4
<1>6. e # "name"
  BY <1>5 DEF ParamOf
<1>7. Publishes(e, state) /\ Rendered(e, state) = Rendered(e, state')
  BY <1>5, <1>6, SameReading
<1> QED
  BY <1>7 DEF IInv, ShowsReadable

(***************************************************************************)
(* Every step that reaches the listeners stores and publishes; the others  *)
(* leave both alone, but for on_platform_().                               *)
(***************************************************************************)
LEMMA StoresOrKeeps ==
    ASSUME IInv, [Next]_vars
    PROVE  \/ PlatformRead
           \/ UNCHANGED <<state, published>>
           \/ \E p \in Params : ParamRead(p)
           \/ \E name \in Labels : Stores([state EXCEPT !.NAME = name])
           \/ Stores(state)
           \/ \E e \in Kinds \ {"rate", "name"} : Control(e)
<1>1. CASE UNCHANGED vars
  BY <1>1 DEF vars
<1>2. CASE Burst \/ StartProbe \/ Notified \/ PollRate
  BY <1>2 DEF Burst, StartProbe, Notified, PollRate
<1>3. CASE SourceRead
  BY <1>3 DEF SourceRead, SpdifRead, AdatEnableRead, AdatPinRead, AdatSettled
<1>4. CASE \E name \in Labels : NameRead(name)
  BY <1>4 DEF NameRead
<1>5. CASE GoOffline
  BY <1>5 DEF GoOffline
<1>6. CASE \/ \E p \in Settable : Served(p)
           \/ \E r \in Reads : Dropped(r)
           \/ \E p \in Params : DeviceChange(p)
           \/ Restart
  BY <1>6 DEF Served, Dropped, DeviceChange, Restart
<1> QED
  BY <1>1, <1>2, <1>3, <1>4, <1>5, <1>6 DEF Next

LEMMA ControlShows ==
    ASSUME NEW e, Control(e)
    PROVE  UNCHANGED <<state, published>>
BY DEF Control, Shown

LEMMA ShowsStep ==
    ASSUME IInv, [Next]_vars
    PROVE  ShowsReadable' /\ DOMAIN published' = Kinds /\ DOMAIN state' = DOMAIN state
<1>1. CASE PlatformRead
  BY <1>1, PlatformShows DEF PlatformRead, IInv, Domains
<1>2. CASE UNCHANGED <<state, published>>
  BY <1>2 DEF IInv, Domains, ShowsReadable
<1>3. CASE \E p \in Params : ParamRead(p)
  <2>1. PICK p \in Params : Stores([state EXCEPT ![p] = dev[p]])
    BY <1>3 DEF ParamRead
  <2>2. DOMAIN state' = DOMAIN state
    BY <2>1 DEF Stores
  <2> QED
    BY <2>1, <2>2, StoresShows
<1>4. CASE \E name \in Labels : Stores([state EXCEPT !.NAME = name])
  <2>1. PICK name \in Labels : Stores([state EXCEPT !.NAME = name])
    BY <1>4
  <2>2. DOMAIN state' = DOMAIN state
    BY <2>1 DEF Stores
  <2> QED
    BY <2>1, <2>2, StoresShows
<1>5. CASE Stores(state)
  BY <1>5, StoresShows DEF Stores
<1>6. CASE \E e \in Kinds \ {"rate", "name"} : Control(e)
  BY <1>6, <1>2, ControlShows
<1> QED
  BY <1>1, <1>2, <1>3, <1>4, <1>5, <1>6, StoresOrKeeps

-----------------------------------------------------------------------------
(* MaskSettled *)

(***************************************************************************)
(* A value that the device changes is not one about its sources.           *)
(***************************************************************************)
LEMMA DeviceKeepsSources ==
    ASSUME IInv, NEW p \in Params, NEW value, dev' = [dev EXCEPT ![p] = value]
    PROVE  DOMAIN dev' = DOMAIN dev /\ \A r \in SourceReads : dev'[r] = dev[r]
BY ParamNames DEF IInv, Domains

LEMMA SameDevice ==
    ASSUME IInv, UNCHANGED <<mask, answered>>,
           DOMAIN dev' = DOMAIN dev, \A r \in SourceReads : dev'[r] = dev[r]
    PROVE  MaskFollows' /\ (Params \cup SourceReads \subseteq DOMAIN dev)'
<1>1. dev'.SPDIF = dev.SPDIF /\ dev'.ADAT_ENABLE = dev.ADAT_ENABLE /\ dev'.ADAT_PIN = dev.ADAT_PIN
  BY DEF SourceReads
<1> QED
  BY <1>1 DEF IInv, MaskFollows, Domains, mask

LEMMA NewDevice ==
    ASSUME NEW d \in Devices
    PROVE  /\ ADAT \notin d.SPDIF
           /\ d.ADAT_ENABLE \in BOOLEAN /\ d.ADAT_PIN \in BOOLEAN
           /\ Params \cup SourceReads \subseteq DOMAIN d
BY EntitiesAssumption DEF EntitiesAssumption, SpdifSources

LEMMA MaskStep ==
    ASSUME IInv, [Next]_vars
    PROVE  MaskFollows' /\ (Params \cup SourceReads \subseteq DOMAIN dev)'
<1>1. ASSUME UNCHANGED <<dev, mask, answered>>
      PROVE  MaskFollows' /\ (Params \cup SourceReads \subseteq DOMAIN dev)'
  BY <1>1, SameDevice
<1>2. CASE UNCHANGED vars
  BY <1>1, <1>2 DEF vars, observers
<1>3. CASE Burst \/ StartProbe \/ PlatformRead \/ Notified \/ PollRate \/ GoOffline
  BY <1>1, <1>3 DEF Burst, StartProbe, PlatformRead, Notified, PollRate, GoOffline, observers
<1>4. CASE \/ \E p \in Params : ParamRead(p)
           \/ \E name \in Labels : NameRead(name)
           \/ \E e \in Kinds \ {"rate", "name"} : Control(e)
           \/ \E r \in Reads : Dropped(r)
  BY <1>1, <1>4 DEF ParamRead, NameRead, Control, Dropped, observers
<1>5. CASE SpdifRead
  <2>1. /\ dev' = dev /\ answered' = answered \cup {"SPDIF"} /\ selectable_valid' = TRUE
        /\ selectable' = {USB, I2S} \cup dev.SPDIF \cup (selectable \cap {ADAT})
        /\ adat_enabled' = adat_enabled /\ adat_pin_set' = adat_pin_set
    BY <1>5 DEF SpdifRead, SourceAnswer, SpdifMask
  <2>2. ADAT \notin dev.SPDIF /\ ADAT # USB /\ ADAT # I2S
    BY SourceNumbers DEF IInv, MaskFollows
  <2>3. /\ ADAT \in selectable' <=> ADAT \in selectable
        /\ selectable' \ {ADAT} = {USB, I2S} \cup dev.SPDIF
    BY <2>1, <2>2
  <2> QED
    BY <2>1, <2>3 DEF IInv, MaskFollows, Domains
<1>6. CASE AdatEnableRead
  <2>1. /\ dev' = dev /\ answered' = answered \cup {"ADAT_ENABLE"}
        /\ selectable_valid' = selectable_valid
        /\ selectable' = IF dev.ADAT_ENABLE /\ adat_pin_set
                         THEN selectable \cup {ADAT} ELSE selectable \ {ADAT}
        /\ adat_enabled' = dev.ADAT_ENABLE /\ adat_pin_set' = adat_pin_set
    BY <1>6 DEF AdatEnableRead, SourceAnswer, AdatSettled
  <2>2. selectable' \ {ADAT} = selectable \ {ADAT}
    BY <2>1
  <2>3. ADAT \in selectable' <=> (adat_enabled' = TRUE /\ adat_pin_set' = TRUE)
    BY <2>1, Zenon DEF IInv, MaskFollows
  <2> QED
    BY <2>1, <2>2, <2>3 DEF IInv, MaskFollows, Domains
<1>7. CASE AdatPinRead
  <2>1. /\ dev' = dev /\ answered' = answered \cup {"ADAT_PIN"}
        /\ selectable_valid' = selectable_valid
        /\ selectable' = IF adat_enabled /\ dev.ADAT_PIN
                         THEN selectable \cup {ADAT} ELSE selectable \ {ADAT}
        /\ adat_enabled' = adat_enabled /\ adat_pin_set' = dev.ADAT_PIN
    BY <1>7 DEF AdatPinRead, SourceAnswer, AdatSettled
  <2>2. selectable' \ {ADAT} = selectable \ {ADAT}
    BY <2>1
  <2>3. ADAT \in selectable' <=> (adat_enabled' = TRUE /\ adat_pin_set' = TRUE)
    BY <2>1, Zenon DEF IInv, MaskFollows
  <2> QED
    BY <2>1, <2>2, <2>3 DEF IInv, MaskFollows, Domains
<1>8. CASE \E p \in Settable : Served(p)
  <2>1. PICK p \in Settable : Served(p)
    BY <1>8
  <2>2. UNCHANGED <<mask, answered>>
    BY <2>1 DEF Served, observers
  <2>3. CASE dev' = [dev EXCEPT ![p] = sets[p]]
    BY <2>2, <2>3, DeviceKeepsSources, SameDevice DEF Settable
  <2>4. CASE dev' = dev
    BY <1>1, <2>2, <2>4
  <2> QED
    BY <2>1, <2>3, <2>4 DEF Served
<1>9. CASE \E p \in Params : DeviceChange(p)
  <2>1. PICK p \in Params : DeviceChange(p)
    BY <1>9
  <2>2. PICK value : dev' = [dev EXCEPT ![p] = value]
    BY <2>1 DEF DeviceChange
  <2>3. UNCHANGED <<mask, answered>>
    BY <2>1 DEF DeviceChange, observers
  <2> QED
    BY <2>2, <2>3, DeviceKeepsSources, SameDevice
<1>10. CASE Restart
  <2>1. dev' \in Devices /\ answered' = {} /\ UNCHANGED mask
    BY <1>10 DEF Restart
  <2> QED
    BY <2>1, NewDevice DEF IInv, MaskFollows, mask
<1> QED
  BY <1>2, <1>3, <1>4, <1>5, <1>6, <1>7, <1>8, <1>9, <1>10 DEF Next, SourceRead

LEMMA MaskFollowsSettles ==
    ASSUME IInv
    PROVE  MaskSettled
<1> SUFFICES ASSUME answered = SourceReads PROVE MaskSettled
  BY DEF MaskSettled
<1>1. /\ selectable_valid = TRUE
      /\ selectable \ {ADAT} = {USB, I2S} \cup dev.SPDIF
      /\ ADAT \in selectable <=> (dev.ADAT_ENABLE = TRUE /\ dev.ADAT_PIN = TRUE)
      /\ ADAT \notin {USB, I2S} \cup dev.SPDIF
      /\ dev.ADAT_ENABLE \in BOOLEAN /\ dev.ADAT_PIN \in BOOLEAN
  BY SourceNumbers DEF IInv, MaskFollows, SourceReads
<1>2. selectable = CanSelect(dev)
  <2>1. CASE dev.ADAT_ENABLE = TRUE /\ dev.ADAT_PIN = TRUE
    BY <1>1, <2>1 DEF CanSelect
  <2>2. CASE ~(dev.ADAT_ENABLE = TRUE /\ dev.ADAT_PIN = TRUE)
    <3>1. ~(dev.ADAT_ENABLE /\ dev.ADAT_PIN)
      BY <1>1, <2>2, Zenon
    <3> QED
      BY <1>1, <2>2, <3>1 DEF CanSelect
  <2> QED
    BY <2>1, <2>2
<1> QED
  BY <1>1, <1>2 DEF MaskSettled, IsSelectable, UnlistedSelectable

-----------------------------------------------------------------------------
(* The invariant *)

LEMMA InitIInv == Init => IInv
<1> SUFFICES ASSUME Init PROVE IInv
  OBVIOUS
<1>1. Domains
  BY NewDevice DEF Init, Domains, NeverRead
<1>2. \A e \in Kinds : state[ParamOf(e)] = Nothing
  BY ParamNames DEF Init, NeverRead
<1>3. ShowsReadable
  BY <1>2 DEF ShowsReadable, Publishes, Readable
<1>4. MaskFollows
  BY NewDevice DEF Init, MaskFollows
<1> QED
  BY <1>1, <1>3, <1>4 DEF IInv

LEMMA NextIInv == IInv /\ [Next]_vars => IInv'
<1> SUFFICES ASSUME IInv, [Next]_vars PROVE IInv'
  OBVIOUS
<1>1. ShowsReadable' /\ DOMAIN published' = Kinds /\ DOMAIN state' = DOMAIN state
  BY ShowsStep
<1>2. MaskFollows' /\ (Params \cup SourceReads \subseteq DOMAIN dev)'
  BY MaskStep
<1> QED
  BY <1>1, <1>2 DEF IInv, Domains

LEMMA Inductive == Spec => []IInv
BY InitIInv, NextIInv, PTL DEF Spec

(***************************************************************************)
(* No handler changes what the hub has read without telling the entities   *)
(* (publish_state_() and on_platform_()).                                  *)
(***************************************************************************)
THEOREM ShowsReadableHolds == Spec => []ShowsReadable
<1>1. IInv => ShowsReadable
  BY DEF IInv
<1> QED
  BY <1>1, Inductive, PTL

(***************************************************************************)
(* The selectable sources are those of the device that answered, in        *)
(* whatever order its answers come and whatever device was there before    *)
(* (on_spdif_input_config_(), on_adat_enable_(), on_adat_pin_()).          *)
(***************************************************************************)
THEOREM MaskSettles == Spec => []MaskSettled
<1>1. IInv => MaskSettled
  BY MaskFollowsSettles
<1> QED
  BY <1>1, Inductive, PTL

-----------------------------------------------------------------------------
(* NeverOptimistic *)

LEMMA FromDevice ==
    ASSUME IInv, [Next]_vars, NEW e \in Kinds \ {"name"}, published'[e] # published[e]
    PROVE  published'[e] = Rendered(e, dev')
<1>1. ASSUME NEW s, Stores(s), s[ParamOf(e)] = state[ParamOf(e)]
      PROVE  FALSE
  <2>1. /\ Publishes(e, s) <=> Publishes(e, state)
        /\ Rendered(e, s) = Rendered(e, state)
    BY <1>1, SameReading
  <2>2. Publishes(e, state) => published[e] = Rendered(e, state)
    BY DEF IInv, ShowsReadable
  <2> QED
    BY <1>1, <2>1, <2>2 DEF Stores, Heard
<1>2. ~PlatformRead /\ ~UNCHANGED <<state, published>>
  BY DEF PlatformRead
<1>3. ASSUME NEW name PROVE ~Stores([state EXCEPT !.NAME = name])
  <2>1. ParamOf(e) # "NAME" /\ ParamOf(e) \in DOMAIN state
    BY ParamNames DEF IInv, Domains
  <2> QED
    BY <1>1, <2>1
<1>4. ~Stores(state)
  BY <1>1
<1>5. ~ \E k \in Kinds \ {"rate", "name"} : Control(k)
  BY <1>2, ControlShows
<1>6. PICK p \in Params : ParamRead(p)
  BY <1>2, <1>3, <1>4, <1>5, StoresOrKeeps
<1>7. ParamOf(e) = p
  BY <1>6, OneParamRead
<1>8. /\ dev' = dev /\ state' = [state EXCEPT ![p] = dev[p]] /\ published' = Heard(state')
      /\ p \in DOMAIN state
  BY <1>6 DEF ParamRead, Stores, IInv, Domains
<1>9. Rendered(e, state') = Rendered(e, dev')
  BY <1>7, <1>8, SameReading
<1> QED
  BY <1>8, <1>9 DEF Heard

(***************************************************************************)
(* Nothing is shown before the device has confirmed it: an entity takes a  *)
(* new value only in the step that reads it from the device (control() and *)
(* write_state() of the entities).                                         *)
(***************************************************************************)
THEOREM NotOptimistic == Spec => NeverOptimistic
<1>1. IInv /\ [Next]_vars =>
          [\A e \in Kinds \ {"name"} :
              published'[e] # published[e] => published'[e] = Rendered(e, dev')]_vars
  BY FromDevice
<1> QED
  BY <1>1, Inductive, PTL DEF Spec, NeverOptimistic

-----------------------------------------------------------------------------
(* TypeOK *)

(***************************************************************************)
(* What state_ may hold.                                                   *)
(***************************************************************************)
StateTyped(s) ==
    /\ \A p \in Params : s[p] \in ValuesOf(p) \cup {Nothing}
    /\ s.NAME \in Labels \cup {Nothing}

DevTyped(d) ==
    /\ \A p \in Params : d[p] \in ValuesOf(p)
    /\ d.SPDIF \subseteq Sources

PublishedTyped(shown) == \A e \in Kinds : shown[e] = Nothing \/ shown[e] \in Renderings(e)

(***************************************************************************)
(* TypeOK says nothing of what sets is defined for, nor of the inputs of   *)
(* the device: a setter must be one for its value to be stored, and the    *)
(* mask takes the device's inputs over.                                    *)
(***************************************************************************)
TypeInv ==
    /\ DevTyped(dev) /\ StateTyped(state) /\ PublishedTyped(published)
    /\ selectable \subseteq Sources
    /\ selectable_valid \in BOOLEAN /\ adat_enabled \in BOOLEAN /\ adat_pin_set \in BOOLEAN
    /\ wanted \subseteq Reads
    /\ sets = [p \in Settable |-> sets[p]]
    /\ \A p \in Settable : sets[p] \in ValuesOf(p) \cup {Nothing}
    /\ refresh_pending \in BOOLEAN /\ online \in BOOLEAN
    /\ identified \in BOOLEAN /\ hinted \in BOOLEAN
    /\ answered \subseteq SourceReads /\ unread \subseteq Params

(***************************************************************************)
(* index_for_source_() and index_for_slot_() give an option of the select, *)
(* or none.                                                                *)
(***************************************************************************)
LEMMA IndexForIs ==
    ASSUME NEW list, NEW value
    PROVE  IndexFor(list, value) \in {0} \cup (1 .. Len(list))
<1> DEFINE I == {i \in 1 .. Len(list) : list[i] = value}
<1>1. IndexFor(list, value) = IF I # {} THEN Min(I) ELSE 0
  BY DEF IndexFor, SelectInSeq
<1>2. ASSUME I # {} PROVE Min(I) \in I
  <2>1. I \subseteq Nat
    OBVIOUS
  <2>2. IsWellFoundedOn(OpToRel(<, Nat), Nat)
    BY NatLessThanWellFounded, Zenon
  <2> HIDE DEF I
  <2>3. PICK x \in I : \A y \in I : ~(<<y, x>> \in OpToRel(<, Nat))
    BY <1>2, <2>1, <2>2, WFMin, Zenon
  <2>4. ASSUME NEW y \in I PROVE x <= y
    <3>1. x \in Nat /\ y \in Nat
      BY <2>1
    <3>2. y < x => <<y, x>> \in OpToRel(<, Nat)
      BY <3>1, Zenon DEF OpToRel
    <3>3. ~(y < x)
      BY <2>3, <3>2, Zenon
    <3> QED
      BY <3>1, <3>3
  <2> QED
    BY <2>4 DEF Min
<1> QED
  BY <1>1, <1>2

(***************************************************************************)
(* What publish_state_() shows is something the entity can show.           *)
(***************************************************************************)
LEMMA RenderedTyped ==
    ASSUME NEW e \in Kinds, NEW s, StateTyped(s), Publishes(e, s)
    PROVE  Rendered(e, s) \in Renderings(e)
<1>1. s[ParamOf(e)] # Nothing /\ (e = "name" => s.PRESET # Nothing)
  BY DEF Publishes, Readable
<1>2. CASE IsSelect(e)
  <2>1. IndexFor(ListOf(e), s[ParamOf(e)]) > 0
    BY <1>2 DEF Publishes, Listed
  <2>2. IndexFor(ListOf(e), s[ParamOf(e)]) \in 1 .. Len(ListOf(e))
    BY <2>1, IndexForIs
  <2>3. e # "name"
    BY <1>2 DEF IsSelect
  <2>4. Rendered(e, s) = <<"option", IndexFor(ListOf(e), s[ParamOf(e)])>>
    BY <1>2, <2>3 DEF Rendered
  <2>5. Renderings(e) = {"option"} \X (1 .. Len(ListOf(e)))
    BY <1>2, <2>3 DEF Renderings
  <2> QED
    BY <2>2, <2>4, <2>5
<1>3. CASE e = "name"
  <2>1. ~IsSelect(e)
    BY <1>3 DEF IsSelect
  <2>2. s.NAME \in Labels /\ s.PRESET \in Slots
    <3>1. s.NAME \in Labels
      BY <1>1, <1>3 DEF ParamOf, StateTyped
    <3>2. "PRESET" \in Params
      BY <1>3, EntitiesAssumption DEF EntitiesAssumption, Params, ParamOf
    <3> QED
      BY <1>1, <1>3, <3>1, <3>2 DEF StateTyped, ValuesOf
  <2>3. s[ParamOf(e)] = s.NAME
    BY <1>3 DEF ParamOf
  <2>4. CASE s.NAME = Unnamed
    <3>1. Rendered(e, s) = <<"Slot", s.PRESET>>
      BY <1>3, <2>1, <2>4 DEF Rendered
    <3> QED
      BY <1>3, <2>1, <2>2, <3>1 DEF Renderings
  <2>5. CASE s.NAME # Unnamed
    <3>1. Rendered(e, s) = <<"value", s.NAME>>
      BY <1>3, <2>1, <2>3, <2>5 DEF Rendered
    <3> QED
      BY <1>3, <2>1, <2>2, <2>5, <3>1 DEF Renderings
  <2> QED
    BY <2>4, <2>5
<1>4. CASE ~IsSelect(e) /\ e # "name"
  <2>1. s[ParamOf(e)] \in ValuesOf(ParamOf(e))
    BY <1>1, <1>4, ParamNames DEF StateTyped
  <2> QED
    BY <1>4, <2>1 DEF Rendered, Renderings
<1> QED
  BY <1>2, <1>3, <1>4

LEMMA StoresTyped ==
    ASSUME PublishedTyped(published), NEW s, StateTyped(s), Stores(s)
    PROVE  StateTyped(state') /\ PublishedTyped(published')
<1>1. state' = s /\ published' = Heard(s)
  BY DEF Stores
<1>2. ASSUME NEW e \in Kinds
      PROVE  published'[e] = Nothing \/ published'[e] \in Renderings(e)
  BY <1>1, RenderedTyped DEF Heard, PublishedTyped
<1> QED
  BY <1>1, <1>2 DEF PublishedTyped

(***************************************************************************)
(* state_ and what is shown, which StoresOrKeeps tells apart.              *)
(***************************************************************************)
LEMMA StateStep ==
    ASSUME IInv, TypeInv, [Next]_vars
    PROVE  StateTyped(state') /\ PublishedTyped(published')
<1>1. StateTyped(state) /\ PublishedTyped(published)
  BY DEF TypeInv
<1>2. CASE PlatformRead
  <2>1. /\ state' = [p \in DOMAIN state |->
                        IF p \in {"USER_MUTE", "NAME"} THEN Nothing ELSE state[p]]
        /\ published' = published
    BY <1>2 DEF PlatformRead
  <2>2. DOMAIN state = Params \cup {"NAME"}
    BY DEF IInv, Domains
  <2> QED
    BY <1>1, <2>1, <2>2 DEF StateTyped
<1>3. CASE UNCHANGED <<state, published>>
  BY <1>1, <1>3
<1>4. CASE \E p \in Params : ParamRead(p)
  <2>1. PICK p \in Params : Stores([state EXCEPT ![p] = dev[p]])
    BY <1>4 DEF ParamRead
  <2>2. dev[p] \in ValuesOf(p) /\ p # "NAME" /\ DOMAIN state = Params \cup {"NAME"}
    BY ParamNames DEF TypeInv, DevTyped, IInv, Domains
  <2>3. StateTyped([state EXCEPT ![p] = dev[p]])
    BY <1>1, <2>2 DEF StateTyped
  <2> QED
    BY <1>1, <2>1, <2>3, StoresTyped
<1>5. CASE \E name \in Labels : Stores([state EXCEPT !.NAME = name])
  <2>1. PICK name \in Labels : Stores([state EXCEPT !.NAME = name])
    BY <1>5
  <2>2. "NAME" \notin Params /\ DOMAIN state = Params \cup {"NAME"}
    BY ParamNames DEF IInv, Domains
  <2>3. StateTyped([state EXCEPT !.NAME = name])
    BY <1>1, <2>2 DEF StateTyped
  <2> QED
    BY <1>1, <2>1, <2>3, StoresTyped
<1>6. CASE Stores(state)
  BY <1>1, <1>6, StoresTyped
<1>7. CASE \E e \in Kinds \ {"rate", "name"} : Control(e)
  BY <1>3, <1>7, ControlShows
<1> QED
  BY <1>2, <1>3, <1>4, <1>5, <1>6, <1>7, StoresOrKeeps

LEMMA NewDeviceTyped ==
    ASSUME NEW d \in Devices
    PROVE  DevTyped(d)
BY EntitiesAssumption DEF EntitiesAssumption, DevTyped, SpdifSources

(***************************************************************************)
(* The device takes a value that was asked for, one of its own, or another *)
(* device is there.                                                        *)
(***************************************************************************)
LEMMA DevStep ==
    ASSUME IInv, TypeInv, [Next]_vars
    PROVE  DevTyped(dev')
<1>1. ASSUME NEW p \in Params, NEW value \in ValuesOf(p), dev' = [dev EXCEPT ![p] = value]
      PROVE  DevTyped(dev')
  <2>1. p # "SPDIF" /\ Params \subseteq DOMAIN dev
    BY ParamNames DEF SourceReads, IInv, Domains
  <2> QED
    BY <1>1, <2>1 DEF TypeInv, DevTyped
<1>2. CASE dev' = dev
  BY <1>2 DEF TypeInv
<1>3. CASE \E p \in Settable : Served(p)
  <2>1. PICK p \in Settable : Served(p)
    BY <1>3
  <2>2. sets[p] \in ValuesOf(p) /\ p \in Params
    BY <2>1 DEF Served, TypeInv, Settable
  <2>3. dev' = dev \/ dev' = [dev EXCEPT ![p] = sets[p]]
    BY <2>1 DEF Served
  <2> QED
    BY <1>1, <1>2, <2>2, <2>3
<1>4. CASE \E p \in Params : DeviceChange(p)
  <2>1. PICK p \in Params : DeviceChange(p)
    BY <1>4
  <2>2. PICK value \in ValuesOf(p) : dev' = [dev EXCEPT ![p] = value]
    BY <2>1 DEF DeviceChange
  <2> QED
    BY <1>1, <2>2
<1>5. CASE Restart
  <2>1. dev' \in Devices
    BY <1>5 DEF Restart
  <2> QED
    BY <2>1, NewDeviceTyped
<1>6. CASE \/ SourceRead \/ GoOffline
           \/ Burst \/ StartProbe \/ PlatformRead \/ Notified \/ PollRate
           \/ \E p \in Params : ParamRead(p)
           \/ \E name \in Labels : NameRead(name)
           \/ \E e \in Kinds \ {"rate", "name"} : Control(e)
           \/ \E r \in Reads : Dropped(r)
  <2>1. dev' = dev
    BY <1>6 DEF SourceRead, SpdifRead, AdatEnableRead, AdatPinRead, SourceAnswer, GoOffline,
                Burst, StartProbe, PlatformRead, Notified, PollRate, ParamRead, NameRead,
                Control, Dropped
  <2> QED
    BY <1>2, <2>1
<1>7. CASE UNCHANGED vars
  BY <1>2, <1>7 DEF vars
<1> QED
  BY <1>3, <1>4, <1>5, <1>6, <1>7 DEF Next

(***************************************************************************)
(* What can be selected.                                                   *)
(***************************************************************************)
LEMMA MaskTyped ==
    ASSUME IInv, TypeInv, [Next]_vars
    PROVE  /\ selectable' \subseteq Sources /\ selectable_valid' \in BOOLEAN
           /\ adat_enabled' \in BOOLEAN /\ adat_pin_set' \in BOOLEAN
           /\ answered' \subseteq SourceReads
<1>1. /\ {USB, I2S, ADAT} \cup dev.SPDIF \subseteq Sources
      /\ dev.ADAT_ENABLE \in BOOLEAN /\ dev.ADAT_PIN \in BOOLEAN
  BY EntitiesAssumption DEF EntitiesAssumption, TypeInv, DevTyped, IInv, MaskFollows
<1>2. CASE UNCHANGED <<mask, answered>>
  BY <1>2 DEF TypeInv, mask
<1>3. CASE SpdifRead
  <2>1. /\ selectable' = {USB, I2S} \cup dev.SPDIF \cup (selectable \cap {ADAT})
        /\ selectable_valid' = TRUE /\ adat_enabled' = adat_enabled
        /\ adat_pin_set' = adat_pin_set /\ answered' = answered \cup {"SPDIF"}
    BY <1>3 DEF SpdifRead, SourceAnswer, SpdifMask
  <2> QED
    BY <1>1, <2>1 DEF TypeInv, SourceReads
<1>4. CASE AdatEnableRead
  <2>1. /\ selectable' \in {selectable \cup {ADAT}, selectable \ {ADAT}}
        /\ selectable_valid' = selectable_valid /\ adat_enabled' = dev.ADAT_ENABLE
        /\ adat_pin_set' = adat_pin_set /\ answered' = answered \cup {"ADAT_ENABLE"}
    BY <1>4 DEF AdatEnableRead, AdatSettled, SourceAnswer
  <2> QED
    BY <1>1, <2>1 DEF TypeInv, SourceReads
<1>5. CASE AdatPinRead
  <2>1. /\ selectable' \in {selectable \cup {ADAT}, selectable \ {ADAT}}
        /\ selectable_valid' = selectable_valid /\ adat_enabled' = adat_enabled
        /\ adat_pin_set' = dev.ADAT_PIN /\ answered' = answered \cup {"ADAT_PIN"}
    BY <1>5 DEF AdatPinRead, AdatSettled, SourceAnswer
  <2> QED
    BY <1>1, <2>1 DEF TypeInv, SourceReads
<1>6. CASE Restart
  <2>1. UNCHANGED mask /\ answered' = {}
    BY <1>6 DEF Restart
  <2> QED
    BY <2>1 DEF TypeInv, mask
<1>7. CASE \/ UNCHANGED vars \/ GoOffline
           \/ Burst \/ StartProbe \/ PlatformRead \/ Notified \/ PollRate
           \/ \E p \in Params : ParamRead(p) \/ DeviceChange(p)
           \/ \E name \in Labels : NameRead(name)
           \/ \E e \in Kinds \ {"rate", "name"} : Control(e)
           \/ \E p \in Settable : Served(p)
           \/ \E r \in Reads : Dropped(r)
  <2>1. UNCHANGED <<mask, answered>>
    BY <1>7 DEF vars, observers, GoOffline, Burst, StartProbe, PlatformRead, Notified, PollRate,
                ParamRead, DeviceChange, NameRead, Control, Served, Dropped
  <2> QED
    BY <1>2, <2>1
<1> QED
  BY <1>3, <1>4, <1>5, <1>6, <1>7 DEF Next, SourceRead

(***************************************************************************)
(* What waits to be read, and what was not.                                *)
(***************************************************************************)
LEMMA WantedTyped ==
    ASSUME TypeInv, [Next]_vars
    PROVE  wanted' \subseteq Reads /\ unread' \subseteq Params
<1>1. wanted \subseteq Reads /\ unread \subseteq Params /\ Params \subseteq Reads
  BY DEF TypeInv, Reads
<1>2. {"PLATFORM", "NAME"} \cup SourceReads \subseteq Reads
  BY DEF Reads, Probes
<1>3. "rate" \in Kinds => "RATE" \in Params
  BY DEF Params, ParamOf
<1>4. CASE \/ UNCHANGED vars \/ Notified \/ Restart
           \/ \E e \in Kinds \ {"rate", "name"} : Control(e)
           \/ \E p \in Settable : Served(p)
           \/ \E p \in Params : DeviceChange(p)
  <2>1. wanted' = wanted /\ unread' = unread
    BY <1>4 DEF vars, observers, Notified, Restart, Control, Served, DeviceChange
  <2> QED
    BY <1>1, <2>1
<1>5. CASE Burst \/ StartProbe \/ PlatformRead \/ PollRate
  <2>1. /\ wanted' \subseteq wanted \cup Params \cup {"PLATFORM"} \cup SourceReads
                             \cup (IF "rate" \in Kinds THEN {"RATE"} ELSE {})
        /\ unread' = unread
    BY <1>5 DEF Burst, StartProbe, PlatformRead, PollRate, observers
  <2> QED
    BY <1>1, <1>2, <1>3, <2>1
<1>6. CASE SourceRead
  <2>1. wanted' \subseteq wanted /\ unread' = unread
    BY <1>6 DEF SourceRead, SpdifRead, AdatEnableRead, AdatPinRead, SourceAnswer
  <2> QED
    BY <1>1, <2>1
<1>7. CASE \E p \in Params : ParamRead(p)
  <2>1. wanted' \subseteq wanted \cup {"NAME"} /\ unread' \subseteq unread
    BY <1>7 DEF ParamRead
  <2> QED
    BY <1>1, <1>2, <2>1
<1>8. CASE \/ \E name \in Labels : NameRead(name)
           \/ GoOffline
           \/ \E r \in Reads : Dropped(r)
  <2>1. wanted' \subseteq wanted /\ unread' \subseteq unread \cup Params
    BY <1>8 DEF NameRead, GoOffline, Dropped, observers
  <2> QED
    BY <1>1, <2>1
<1> QED
  BY <1>4, <1>5, <1>6, <1>7, <1>8 DEF Next

(***************************************************************************)
(* A select asks for one of its options.                                   *)
(***************************************************************************)
LEMMA ChosenTyped ==
    ASSUME NEW e \in Kinds \ {"rate", "name"}, NEW choice \in Offered(e),
           Chosen(e, choice) # Nothing
    PROVE  Chosen(e, choice) \in ValuesOf(ParamOf(e)) /\ ParamOf(e) \in Settable
<1>1. e \in {"volume", "mute", "input", "preset"}
  BY EntitiesAssumption DEF EntitiesAssumption, AllKinds
<1>2. ParamOf(e) \in Settable
  BY <1>1, ParamNames DEF Settable, ParamOf
<1>3. CASE ~IsSelect(e)
  BY <1>2, <1>3 DEF Chosen, Offered
<1>4. CASE IsSelect(e)
  <2>1. choice \in DOMAIN ListOf(e) /\ Chosen(e, choice) = ListOf(e)[choice]
    BY <1>4 DEF Chosen
  <2>2. CASE e = "input"
    <3>1. SourceValues[choice] \in Sources
      BY <2>1, <2>2, EntitiesAssumption DEF EntitiesAssumption, ListOf
    <3> QED
      BY <1>2, <2>1, <2>2, <3>1 DEF ListOf, ParamOf, ValuesOf
  <2>3. CASE e = "preset"
    <3>1. SlotValues[choice] \in Slots
      BY <2>1, <2>3, EntitiesAssumption DEF EntitiesAssumption, ListOf
    <3> QED
      BY <1>2, <2>1, <2>3, <3>1 DEF ListOf, ParamOf, ValuesOf
  <2> QED
    BY <1>4, <2>2, <2>3 DEF IsSelect
<1> QED
  BY <1>2, <1>3, <1>4

(***************************************************************************)
(* What the setters were asked for.                                        *)
(***************************************************************************)
LEMMA SetsTyped ==
    ASSUME TypeInv, [Next]_vars
    PROVE  /\ sets' = [p \in Settable |-> sets'[p]]
           /\ \A p \in Settable : sets'[p] \in ValuesOf(p) \cup {Nothing}
<1>1. /\ sets = [p \in Settable |-> sets[p]]
      /\ \A p \in Settable : sets[p] \in ValuesOf(p) \cup {Nothing}
  BY DEF TypeInv
<1>2. CASE sets' = sets
  BY <1>1, <1>2
<1>3. CASE sets' = [p \in Settable |-> Nothing]
  BY <1>3
<1>4. ASSUME NEW q \in Settable, NEW value \in ValuesOf(q) \cup {Nothing},
             sets' = [sets EXCEPT ![q] = value]
      PROVE  /\ sets' = [p \in Settable |-> sets'[p]]
             /\ \A p \in Settable : sets'[p] \in ValuesOf(p) \cup {Nothing}
  BY <1>1, <1>4
<1>5. CASE \E e \in Kinds \ {"rate", "name"} : Control(e)
  <2>1. PICK e \in Kinds \ {"rate", "name"} : Control(e)
    BY <1>5
  <2>2. PICK choice \in Offered(e) : /\ Chosen(e, choice) # Nothing
                                     /\ sets' = [sets EXCEPT ![ParamOf(e)] = Chosen(e, choice)]
    BY <2>1 DEF Control
  <2>3. Chosen(e, choice) \in ValuesOf(ParamOf(e)) /\ ParamOf(e) \in Settable
    BY <2>2, ChosenTyped
  <2> QED
    BY <1>4, <2>2, <2>3
<1>6. CASE \E p \in Settable : Served(p)
  <2>1. PICK p \in Settable : Served(p)
    BY <1>6
  <2>2. sets' = [sets EXCEPT ![p] = Nothing]
    BY <2>1 DEF Served
  <2> QED
    BY <1>4, <2>2
<1>7. CASE GoOffline
  BY <1>3, <1>7 DEF GoOffline
<1>8. CASE \/ UNCHANGED vars \/ SourceRead \/ Restart
           \/ Burst \/ StartProbe \/ PlatformRead \/ Notified \/ PollRate
           \/ \E p \in Params : ParamRead(p) \/ DeviceChange(p)
           \/ \E name \in Labels : NameRead(name)
           \/ \E r \in Reads : Dropped(r)
  <2>1. sets' = sets
    BY <1>8 DEF vars, SourceRead, SpdifRead, AdatEnableRead, AdatPinRead, SourceAnswer, Restart,
                Burst, StartProbe, PlatformRead, Notified, PollRate, ParamRead, DeviceChange,
                NameRead, Dropped
  <2> QED
    BY <1>2, <2>1
<1> QED
  BY <1>5, <1>6, <1>7, <1>8 DEF Next

LEMMA FlagsTyped ==
    ASSUME TypeInv, [Next]_vars
    PROVE  /\ refresh_pending' \in BOOLEAN /\ online' \in BOOLEAN
           /\ identified' \in BOOLEAN /\ hinted' \in BOOLEAN
<1>1. /\ refresh_pending \in BOOLEAN /\ online \in BOOLEAN
      /\ identified \in BOOLEAN /\ hinted \in BOOLEAN
  BY DEF TypeInv
<1>2. CASE UNCHANGED <<link, hinted>>
  BY <1>1, <1>2 DEF link
<1>3. CASE Burst \/ StartProbe \/ PlatformRead \/ Notified \/ GoOffline
  BY <1>1, <1>3 DEF Burst, StartProbe, PlatformRead, Notified, GoOffline
<1>4. CASE \E e \in Kinds \ {"rate", "name"} : Control(e)
  BY <1>1, <1>4 DEF Control, RefreshAfter
<1>5. CASE \E p \in Settable : Served(p)
  BY <1>1, <1>5 DEF Served, link
<1>6. CASE \E p \in Params : DeviceChange(p)
  BY <1>1, <1>6 DEF DeviceChange, link
<1>7. CASE Restart
  BY <1>1, <1>7 DEF Restart, link
<1>8. CASE \/ UNCHANGED vars \/ SourceRead \/ PollRate
           \/ \E p \in Params : ParamRead(p)
           \/ \E name \in Labels : NameRead(name)
           \/ \E r \in Reads : Dropped(r)
  <2>1. UNCHANGED <<link, hinted>>
    BY <1>8 DEF vars, SourceRead, SpdifRead, AdatEnableRead, AdatPinRead, SourceAnswer, PollRate,
                ParamRead, NameRead, Dropped
  <2> QED
    BY <1>2, <2>1
<1> QED
  BY <1>3, <1>4, <1>5, <1>6, <1>7, <1>8 DEF Next

LEMMA InitTypeInv == Init => TypeInv
<1> SUFFICES ASSUME Init PROVE TypeInv
  OBVIOUS
<1>1. DevTyped(dev)
  BY NewDeviceTyped DEF Init
<1>2. StateTyped(state)
  BY DEF Init, NeverRead, StateTyped
<1>3. PublishedTyped(published)
  BY DEF Init, PublishedTyped
<1>4. "PLATFORM" \in Reads
  BY DEF Reads, Probes
<1> QED
  BY <1>1, <1>2, <1>3, <1>4 DEF Init, TypeInv

LEMMA NextTypeInv == IInv /\ TypeInv /\ [Next]_vars => TypeInv'
<1> SUFFICES ASSUME IInv, TypeInv, [Next]_vars PROVE TypeInv'
  OBVIOUS
<1> QED
  BY DevStep, StateStep, MaskTyped, WantedTyped, SetsTyped, FlagsTyped
  DEF TypeInv, DevTyped, StateTyped, PublishedTyped

(***************************************************************************)
(* The entities show what they can show, the setters are asked for values  *)
(* the device has, and the mask names inputs there are                     *)
(* (DSPiHub::state_ and last_published_ of the entities).                  *)
(***************************************************************************)
THEOREM TypeCorrect == Spec => []TypeOK
<1>1. Spec => [](IInv /\ TypeInv)
  BY InitIInv, NextIInv, InitTypeInv, NextTypeInv, PTL DEF Spec
<1>2. TypeInv => TypeOK
  BY DEF TypeInv, TypeOK, DevTyped, StateTyped, PublishedTyped
<1> QED
  BY <1>1, <1>2, PTL

-----------------------------------------------------------------------------
(* What is shown and stale *)

RemedyInv == \A p \in Params \ {"RATE"} : state[p] # dev[p] => Remedy(p)

(***************************************************************************)
(* A step that leaves the value read and the device's alone, and loses     *)
(* nothing of what will bring the parameter up to date.                    *)
(***************************************************************************)
LEMMA RemedyOfOne ==
    ASSUME IInv, TypeInv, RemedyInv, [Next]_vars, NEW p \in Params \ {"RATE"}, state'[p] # dev'[p]
    PROVE  Remedy(p)'
<1>1. /\ p \notin Probes /\ p # "NAME"
      /\ DOMAIN state = Params \cup {"NAME"} /\ p \in DOMAIN dev
  <2>1. \A e \in AllKinds : ParamOf(e) \in {"USER_VOLUME", "USER_MUTE", "INPUT_SOURCE",
                                          "PRESET", "RATE", "NAME"}
    BY DEF AllKinds, ParamOf
  <2>2. p # "PLATFORM"
    BY <2>1, EntitiesAssumption DEF EntitiesAssumption, Params
  <2> QED
    BY <2>2, ParamNames DEF Probes, SourceReads, IInv, Domains
<1>2. CASE refresh_pending' \/ hinted' \/ ~identified'
  BY <1>2 DEF Remedy
<1>3. CASE \E q \in Params : ParamRead(q)
  <2>1. PICK q \in Params : ParamRead(q)
    BY <1>3
  <2>2. state' = [state EXCEPT ![q] = dev[q]] /\ UNCHANGED <<dev, link, hinted>>
    BY <2>1 DEF ParamRead, Stores
  <2>3. p # q
    BY <1>1, <2>2
  <2>4. state'[p] = state[p]
    BY <2>2, <2>3
  <2>5. Remedy(p)
    BY <2>2, <2>4 DEF RemedyInv
  <2> QED
    BY <2>1, <2>2, <2>3, <2>5 DEF Remedy, ParamRead, link
<1>4. CASE \E name \in Labels : NameRead(name)
  <2>1. PICK name \in Labels : NameRead(name)
    BY <1>4
  <2>2. state'[p] = state[p] /\ UNCHANGED <<dev, link, hinted, unread>>
        /\ wanted' = wanted \ {"NAME"}
    BY <1>1, <2>1 DEF NameRead, Stores, observers
  <2> QED
    BY <1>1, <2>2 DEF RemedyInv, Remedy, link
<1>5. CASE SourceRead
  <2>1. state'[p] = state[p]
    BY <1>5 DEF SourceRead, SpdifRead, AdatEnableRead, AdatPinRead, AdatSettled, Stores
  <2>2. PICK r \in SourceReads : SourceAnswer(r)
    BY <1>5 DEF SourceRead, SpdifRead, AdatEnableRead, AdatPinRead, SourceReads
  <2> QED
    BY <1>1, <2>1, <2>2 DEF SourceAnswer, RemedyInv, Remedy, link, Probes
<1>6. CASE \E r \in Reads : Dropped(r)
  BY <1>6 DEF Dropped, RemedyInv, Remedy, link
<1>7. CASE \E q \in Settable : Served(q)
  <2>1. PICK q \in Settable : Served(q)
    BY <1>7
  <2>2. CASE hinted'
    BY <2>2 DEF Remedy
  <2>3. CASE dev' = dev /\ hinted' = hinted
    BY <2>1, <2>3 DEF Served, RemedyInv, Remedy, link, observers
  <2> QED
    BY <2>1, <2>2, <2>3 DEF Served
<1>8. CASE \E q \in Params : DeviceChange(q)
  <2>1. PICK q \in Params : DeviceChange(q)
    BY <1>8
  <2>2. CASE hinted'
    BY <2>2 DEF Remedy
  <2>3. CASE q = "RATE" /\ ~hinted'
    <3>1. dev'[p] = dev[p]
      BY <2>1, <2>3 DEF DeviceChange
    <3> QED
      BY <2>1, <2>3, <3>1 DEF DeviceChange, RemedyInv, Remedy, link, observers
  <2> QED
    BY <2>1, <2>2, <2>3 DEF DeviceChange
<1>9. CASE Burst \/ Notified \/ PlatformRead \/ GoOffline \/ Restart
  <2>1. CASE Burst
    BY <2>1 DEF Burst, Remedy
  <2> QED
    BY <1>2, <1>9, <2>1 DEF Notified, PlatformRead, GoOffline, Restart
<1>10. CASE \E e \in Kinds \ {"rate", "name"} : Control(e)
  <2>1. /\ UNCHANGED <<dev, state, wanted, identified, hinted, unread>>
        /\ refresh_pending => refresh_pending'
    BY <1>10 DEF Control, RefreshAfter, observers
  <2> QED
    BY <2>1 DEF RemedyInv, Remedy
<1>11. CASE StartProbe \/ PollRate \/ UNCHANGED vars
  BY <1>11 DEF StartProbe, PollRate, vars, RemedyInv, Remedy, link, observers
<1> QED
  BY <1>3, <1>4, <1>5, <1>6, <1>7, <1>8, <1>9, <1>10, <1>11 DEF Next

(***************************************************************************)
(* An entity that shows something else than what the device has will be    *)
(* told, for every set of entities, list of options and device, through    *)
(* reprobes, drops, restarts and whatever users ask for.                   *)
(***************************************************************************)
THEOREM ShownStaleHasRemedyHolds == Spec => []ShownStaleHasRemedy
<1>1. Init => RemedyInv
  BY DEF Init, RemedyInv, Remedy
<1>2. IInv /\ TypeInv /\ RemedyInv /\ [Next]_vars => RemedyInv'
  BY RemedyOfOne DEF RemedyInv
<1>3. IInv /\ TypeInv /\ RemedyInv => ShownStaleHasRemedy
  <2> SUFFICES ASSUME IInv, TypeInv, RemedyInv, NEW e \in Kinds \ {"name", "rate"},
                      Listed(e, dev), published[e] # Rendered(e, dev)
               PROVE  Remedy(ParamOf(e))
    BY DEF ShownStaleHasRemedy
  <2>1. ParamOf(e) \in Params \ {"RATE"}
    BY ParamNames, EntitiesAssumption DEF EntitiesAssumption, AllKinds, ParamOf
  <2>2. CASE state[ParamOf(e)] = dev[ParamOf(e)]
    <3>1. dev[ParamOf(e)] # Nothing
      BY <2>1, EntitiesAssumption DEF TypeInv, DevTyped, EntitiesAssumption
    <3>2. Publishes(e, dev)
      BY <3>1 DEF Publishes, Readable
    <3>3. Publishes(e, state) /\ Rendered(e, state) = Rendered(e, dev)
      BY <2>2, <3>2, SameReading
    <3> QED
      BY <3>3 DEF IInv, ShowsReadable
  <2> QED
    BY <2>1, <2>2 DEF RemedyInv
<1> QED
  BY <1>1, <1>2, <1>3, InitIInv, NextIInv, InitTypeInv, NextTypeInv, PTL DEF Spec

=============================================================================
