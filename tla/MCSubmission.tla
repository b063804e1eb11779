----------------------------- MODULE MCSubmission -----------------------------
(***************************************************************************)
(* TLC instances of Submission.                                            *)
(***************************************************************************)
EXTENDS Submission, TLC

Symmetry == Permutations(Calls)
===============================================================================
