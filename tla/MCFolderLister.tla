---------------------------- MODULE MCFolderLister ----------------------------
(***************************************************************************)
(* Small instances of FolderLister for TLC.                                *)
(***************************************************************************)
EXTENDS FolderLister
===============================================================================
