----------------------------- MODULE MCAdmission -----------------------------
(***************************************************************************)
(* Small instances of Admission for TLC.                                   *)
(***************************************************************************)
EXTENDS Admission, TLC

\* Phones, codes, connections and revocations are interchangeable.
Symmetry ==
    Permutations(Phones) \cup Permutations(Codes) \cup Permutations(Conns)
        \cup Permutations(Revokers)
==============================================================================
