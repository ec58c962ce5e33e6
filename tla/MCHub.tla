------------------------------- MODULE MCHub --------------------------------
(***************************************************************************)
(* Instances of Hub for TLC.                                               *)
(***************************************************************************)
EXTENDS Hub

CONSTANTS v1, v2

MCParams == {"INPUT_SOURCE", "USER_MUTE"}
MCReqs == MCParams \cup {"PLATFORM", "UART_CONFIG", "CTRL_IFACE_STATUS"}
MCWvalues == {0}
MCValues == {v1, v2}
MCPayloads == MCValues \cup {Nothing}
MCData == MCValues \cup {Short, Nothing, "notify_on", "notify_off"}
MCStatuses == {"OK", "BUSY", "ERROR"}
MCEvents == {"PARAM_CHANGED", "OTHER"}
MCParamEvents == {"PARAM_CHANGED"}
MCFixedReads == <<"INPUT_SOURCE">>
MCToggleOrder == <<"USER_MUTE">>
MCProbeReads == <<"UART_CONFIG", "CTRL_IFACE_STATUS">>
\* One parameter, no toggle and a probe of one read, for the liveness runs.
OneParam == {"INPUT_SOURCE"}
NoReads == <<>>

\* Two toggles, of which a firmware may lack one.
TwoToggles == <<"USER_MUTE", "LOUDNESS">>
ToggleParams == {"INPUT_SOURCE", "USER_MUTE", "LOUDNESS"}
ToggleReqs == ToggleParams \cup {"PLATFORM", "UART_CONFIG"}
OneProbeRead == <<"UART_CONFIG">>

OneValue == {v1}

MCProbeTxn == GetTxn("PLATFORM", 0)

=============================================================================
