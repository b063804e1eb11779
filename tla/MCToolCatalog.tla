---------------------------- MODULE MCToolCatalog ----------------------------
(***************************************************************************)
(* TLC instances of ToolCatalog.                                           *)
(***************************************************************************)
EXTENDS ToolCatalog

\* Every environment, up to the names of the tokens.
MCEnvironments ==
  LET t == CHOOSE t \in Tokens : TRUE IN {e \in Variables : e.service \in {None, t}}
===============================================================================
