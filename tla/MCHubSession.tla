---------------------------- MODULE MCHubSession ----------------------------
(* HubSession for TLC. *)
EXTENDS HubSession
=============================================================================
