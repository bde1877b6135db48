---------------------------- MODULE MCRelaySession ----------------------------
(***************************************************************************)
(* Small instances of RelaySession for TLC.                                *)
(***************************************************************************)
EXTENDS RelaySession, TLC

\* Phones and keys are interchangeable.
Symmetry == Permutations(Phones) \cup Permutations(Keys)
===============================================================================
