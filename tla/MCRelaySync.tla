---------------------------- MODULE MCRelaySync ----------------------------
(***************************************************************************)
(* Instances of RelaySync for TLC.                                         *)
(***************************************************************************)
EXTENDS RelaySync
=============================================================================
