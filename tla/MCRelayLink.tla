------------------------------ MODULE MCRelayLink ------------------------------
(***************************************************************************)
(* Small instances of RelayLink for TLC.                                   *)
(***************************************************************************)
EXTENDS RelayLink
===============================================================================
