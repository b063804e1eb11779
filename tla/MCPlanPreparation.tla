--------------------------- MODULE MCPlanPreparation ---------------------------
(***************************************************************************)
(* TLC instances of PlanPreparation: two or three calls, a clock of three  *)
(* instants, approvals on both sides of every check a receipt passes.      *)
(***************************************************************************)
EXTENDS PlanPreparation, TLC

Receipt(s, f, u) == [scope |-> s, from |-> f, until |-> u]

\* A receipt valid from the start that may expire while a chain runs, one
\* not yet valid at the start, one whose window is empty, one for live use.
MCApprovals == {Receipt("SHADOW", 0, 1), Receipt("CONTROLLED_CANARY", 1, 2),
                Receipt("SHADOW", 1, 1), Receipt("LIVE_SUBMIT", 0, 2)}

MCTwoApprovals == {Receipt("SHADOW", 0, 1), Receipt("LIVE_SUBMIT", 0, 2)}

MCAllTools == Tools
MCCompiling == {"prepare", "compile"}

CallSymmetry == Permutations(Calls)
===============================================================================
