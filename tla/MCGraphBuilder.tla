--------------------------- MODULE MCGraphBuilder ---------------------------
(* An instance of GraphBuilder for TLC.                                    *)
EXTENDS GraphBuilder

CONSTANTS a, b, c, d

\* a is plain: it loops or goes forward. b is an approval that goes to c, c a gate
\* that goes back to a, d a router whose routes were forgotten.
MixedKinds ==
    [n \in NodeId |-> CASE n = b -> "approval" [] n = c -> "gate" [] n = d -> "router"
                        [] OTHER -> "plain"]
MixedTargets ==
    [n \in NodeId |-> CASE n = b -> {c} [] n = c -> {a, End} [] n = d -> {b} [] OTHER -> {}]
NoRoutes == [n \in NodeId |-> {}]

\* Two ways from a to c, an edge that closes them, an edge to END.
MixedEdges == {<<a, b>>, <<b, c>>, <<a, c>>, <<c, a>>, <<a, End>>}

=============================================================================
