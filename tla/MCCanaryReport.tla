---------------------------- MODULE MCCanaryReport ----------------------------
(***************************************************************************)
(* TLC instances of CanaryReport: two releases, of which a directory may   *)
(* hold any mixture of manifest and sidecar.                               *)
(***************************************************************************)
EXTENDS CanaryReport
CONSTANTS r1, r2
===============================================================================
