--------------------------- MODULE MCConfirmedWrite ---------------------------
(***************************************************************************)
(* ConfirmedWrite for TLC.  Calls differ in nothing but their names.       *)
(***************************************************************************)
EXTENDS ConfirmedWrite, TLC

Symmetry == Permutations(Calls)
=============================================================================
