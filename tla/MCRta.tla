-------------------------------- MODULE MCRta --------------------------------
(***************************************************************************)
(* Instances of Rta for TLC.                                               *)
(***************************************************************************)
EXTENDS Rta

MCOthers == {"SETTER"}
MCReqs == RtaReqs \cup {"PLATFORM"} \cup MCOthers
MCWvalues == 0 .. 2
MCPayloads == Configs \cup {Nothing}
MCProbeTxn == Txn0("PLATFORM", "GET", 0, Nothing, 0, MaxRetries)
MCStatuses == {"OK", "BUSY", "ERROR"}
MCData == {Nothing}
TwoChannels == {0, 1}
OneChannel == {0}
MCStartConfig == [tap |-> "input", channel_mask |-> Channels, fft_order |-> 10]

=============================================================================
