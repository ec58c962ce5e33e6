----------------------------- MODULE MCEntities -----------------------------
(***************************************************************************)
(* Instances of Entities for TLC.                                          *)
(***************************************************************************)
EXTENDS Entities

MCSources == 0 .. 4

\* Some sources and slots are not listed, and the order is not that of the
\* wire values.
MCSourceValues == <<1, 0>>
MCSlotValues == <<1>>

DeviceWith(inputs, adat) ==
    [USER_VOLUME |-> 0, USER_MUTE |-> FALSE, INPUT_SOURCE |-> 0, PRESET |-> 0, RATE |-> 44100,
     SPDIF |-> inputs, ADAT_ENABLE |-> adat, ADAT_PIN |-> adat]

\* One with ADAT and a second S/PDIF input, one with neither.
MCDevices == {DeviceWith({1, 4}, TRUE), DeviceWith({1}, FALSE)}

=============================================================================
