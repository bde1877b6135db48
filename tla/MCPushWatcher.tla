------------------------------ MODULE MCPushWatcher ------------------------------
(***************************************************************************)
(* Small instances of PushWatcher for TLC.                                 *)
(***************************************************************************)
EXTENDS PushWatcher
==================================================================================
