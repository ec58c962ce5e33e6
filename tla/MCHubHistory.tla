---------------------------- MODULE MCHubHistory ----------------------------
(***************************************************************************)
(* The instances of MCHub, for Hub with its history variables.             *)
(***************************************************************************)
EXTENDS MCHub, HubHistory

=============================================================================
