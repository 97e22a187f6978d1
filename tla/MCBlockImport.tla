--------------------------- MODULE MCBlockImport ---------------------------
(***************************************************************************)
(* A small instance of BlockImport: each height has two valid blocks, of   *)
(* which neither is special.                                               *)
(***************************************************************************)
EXTENDS BlockImport, TLC

Symmetry == Permutations(Valid)
=============================================================================
