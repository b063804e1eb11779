----------------------------- MODULE MCAssistantV0 -----------------------------
(***************************************************************************)
(* TLC instances of AssistantV0: two tools the adapter must serve, two of  *)
(* the assistant's own, a forbidden and an unknown name, all manifests of  *)
(* up to three of five entries, and every way a conformance file may fit.   *)
(***************************************************************************)
EXTENDS AssistantV0

CONSTANTS dry, review, note, draft, sign, odd

Entry(n) == [name |-> n, fixed |-> FALSE, noOverride |-> FALSE]
MCEntries ==
  {Entry(review), Entry(note), Entry(sign), Entry(dry),
   [Entry(dry) EXCEPT !.fixed = TRUE, !.noOverride = TRUE]}

MCManifestFiles == UNION {[1..n -> MCEntries] : n \in 0..3}

\* Of the other three conditions at most one fails.
Good == [labels |-> TRUE, fixed |-> TRUE, noOverride |-> TRUE]
Rests == {Good, [Good EXCEPT !.labels = FALSE], [Good EXCEPT !.fixed = FALSE],
          [Good EXCEPT !.noOverride = FALSE]}

MCConformanceFiles ==
  {[safe |-> s, required |-> r, forbidden |-> b,
    labels |-> x.labels, fixed |-> x.fixed, noOverride |-> x.noOverride] :
      s \in {ListOf(SafeTools), ListOf(SafeTools \cup {sign})},
      r \in {ToolNames(m) : m \in MCManifestFiles},
      b \in {{}, {sign}},
      x \in Rests}
===============================================================================
