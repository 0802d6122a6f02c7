--------------------------- MODULE MCEvalHarness ---------------------------
(* Fixtures and galleries for EvalHarness.                                 *)
EXTENDS EvalHarness

\* The first fixture has a decision for a run that pauses, the second has none.
OneDecision == <<"approved", "none">>

\* The query's person under another camera and under the query's own, another
\* person, and the background.
People == [g \in Gallery |-> CASE g = "match" -> 7 [] g = "second" -> 7 [] g = "same" -> 7
                              [] g = "other" -> 8 [] OTHER -> -1]
Cameras == [g \in Gallery |-> IF g \in {"same", "other"} THEN 1 ELSE 2]

=============================================================================
