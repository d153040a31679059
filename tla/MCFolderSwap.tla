---------------------------- MODULE MCFolderSwap ----------------------------
(***************************************************************************)
(* FolderSwap for TLC.  The names of save-state files are model values no  *)
(* definition tells apart, so permuting them is sound; the packs are not   *)
(* permuted, one of them is Root.                                          *)
(***************************************************************************)
EXTENDS FolderSwap, TLC

Symmetry == Permutations(Files)
=============================================================================
