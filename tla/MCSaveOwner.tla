---------------------------- MODULE MCSaveOwner -----------------------------
(***************************************************************************)
(* SaveOwner for TLC.  Games and directories are model values and no       *)
(* property distinguishes one from another, so permuting them is sound.    *)
(***************************************************************************)
EXTENDS SaveOwner, TLC

Symmetry == Permutations(Games) \cup Permutations(Dirs)
=============================================================================
