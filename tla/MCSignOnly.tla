------------------------------ MODULE MCSignOnly ------------------------------
(***************************************************************************)
(* TLC instances of SignOnly.                                              *)
(***************************************************************************)
EXTENDS SignOnly, TLC

Symmetry == Permutations(Calls)
===============================================================================
