--------------------------- MODULE WorkflowGraph ---------------------------
(***************************************************************************)
(* The static graph of one workflow (GraphMetadata, backend/builder/api.py) *)
(* and what compile_to_langgraph turns it into: which node a finished node *)
(* dispatches, which targets wait for several sources, and which loop      *)
(* counter a node is charged to.                                           *)
(***************************************************************************)
EXTENDS Integers, FiniteSets

CONSTANTS
    Node,      \* the ids of metadata.nodes
    End,       \* END = "__end__"
    Kind,      \* Kind[n]: the kind of n's config, as far as the runtime tells kinds apart
    Edge,      \* metadata.edges, a set of <<source, target>>
    Branch,    \* Branch[n][l]: where a gate, router or approval goes on outcome l
    Loops,     \* metadata.loops in the order of add_loop: Loops[i].from, .to, .max
    Key,       \* the state keys nodes write
    Output     \* Output[n]: the keys n writes whenever it returns

ConditionalKinds == {"gate", "router", "approval"}
Kinds == {"plain", "subgraph"} \union ConditionalKinds

Conditional == {n \in Node : Kind[n] \in ConditionalKinds}

\* What GraphSpec's models and GraphBuilder.compile() have checked of a graph.
ASSUME GraphAssumption ==
    /\ IsFiniteSet(Node)
    /\ End \notin Node
    /\ Kind \in [Node -> Kinds]
    /\ Edge \subseteq Node \X (Node \union {End})
    /\ \A n \in Conditional :
          /\ \A l \in DOMAIN Branch[n] : Branch[n][l] \in Node \union {End}
          /\ Kind[n] = "gate" => DOMAIN Branch[n] = {"pass", "fail"}
          /\ Kind[n] = "approval" => DOMAIN Branch[n] = {"approved", "rejected"}
    /\ DOMAIN Loops \subseteq Nat \ {0}
    /\ \A i \in DOMAIN Loops : /\ Loops[i].from \in Node
                               /\ Loops[i].to \in Node
                               /\ Loops[i].max \in Nat \ {0}
    /\ Output \in [Node -> SUBSET Key]

-----------------------------------------------------------------------------
(* compile.py: edges of conditional nodes are dropped, a target with several *)
(* sources becomes one waiting edge, loop back-edges are added as plain edges *)
(* unless their source is a gate or a router.                              *)

Sources(t) == {s \in Node \ Conditional : <<s, t>> \in Edge}

JoinTargets == {t \in Node : Cardinality(Sources(t)) > 1}

EdgeTargets(n) == {t \in Node \ JoinTargets : n \in Sources(t)}

LoopsFrom(n) == {i \in DOMAIN Loops : Loops[i].from = n}
LoopsInto(t) == {i \in DOMAIN Loops : Loops[i].to = t}

BackEdges(n) ==
    IF Kind[n] \in {"gate", "router"} THEN {} ELSE {Loops[i].to : i \in LoopsFrom(n)}

\* The nodes n triggers by itself when it returns with outcome l (END triggers none).
Dispatch(n, l) ==
    LET chosen == IF n \in Conditional THEN {Branch[n][l]} ELSE {}
    IN  (chosen \union EdgeTargets(n) \union BackEdges(n)) \ {End}

-----------------------------------------------------------------------------
(* executor.py: the loop a node is charged to is the FIRST match in         *)
(* metadata.loops, by back_edge_to for a gate that fails and by             *)
(* back_edge_from for a node that is not conditional; routers and approvals *)
(* are returned by the factory before the lookup.                           *)

First(S) == {i \in S : \A j \in S : i <= j}

CountedLoop(n, l) ==
    IF n \notin Conditional THEN First(LoopsFrom(n))
    ELSE IF Kind[n] = "gate" /\ l = "fail" THEN First(LoopsInto(Branch[n][l]))
    ELSE {}

\* The loops whose every crossing the runtime charges to their own counter.
Enforced(i) ==
    LET n == Loops[i].from
    IN  \/ n \notin Conditional /\ i \in First(LoopsFrom(n))
        \/ /\ Kind[n] = "gate"
           /\ \A l \in DOMAIN Branch[n] :
                 Branch[n][l] = Loops[i].to => l = "fail"
           /\ i \in First(LoopsInto(Loops[i].to))

=============================================================================
