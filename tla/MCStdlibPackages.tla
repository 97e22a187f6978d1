-------------------------- MODULE MCStdlibPackages --------------------------
(***************************************************************************)
(* All trees of three packages, two of them allowed and in an order of     *)
(* their own.                                                              *)
(***************************************************************************)
EXTENDS StdlibPackages, TLC

MCAllowed == <<2, 1>>

Symmetry == Permutations(Machine)
=============================================================================
