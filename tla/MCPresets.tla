------------------------------ MODULE MCPresets -----------------------------
(***************************************************************************)
(* Instances of Presets for TLC.                                           *)
(***************************************************************************)
EXTENDS Presets

MCReqs == {"PLATFORM", "PRESET_LOAD", "PRESET_GET_NAME", "PRESET_GET_DIR",
           "PRESET_GET_ACTIVE"}
MCSlots == {0, 1}
MCPayloads == {Nothing}
MCProbeReads == <<"PRESET_GET_DIR">>
MCBurstReads == <<"PRESET_GET_ACTIVE">>
MCProbeTxn == GetTxn("PLATFORM", 0, 0)
MCStatuses == {"OK", "BUSY", "ERROR"}

=============================================================================
