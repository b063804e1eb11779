----------------------------- MODULE MCKillSwitch -----------------------------
(***************************************************************************)
(* TLC instances of KillSwitch.                                            *)
(***************************************************************************)
EXTENDS KillSwitch, TLC

MCAllScopes == {"ACCOUNT", "GLOBAL", "OTHER"}
MCAccountOnly == {"ACCOUNT"}

Symmetry == Permutations(Calls)
===============================================================================
