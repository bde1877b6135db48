----------------------------- MODULE MCBlobUpload -----------------------------
(***************************************************************************)
(* Small instances of BlobUpload for TLC.                                  *)
(***************************************************************************)
EXTENDS BlobUpload, TLC

\* Connections and ids are interchangeable.
Symmetry == Permutations(Conns) \cup Permutations(Ids)
===============================================================================
