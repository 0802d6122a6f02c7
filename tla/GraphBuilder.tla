---------------------------- MODULE GraphBuilder ----------------------------
(***************************************************************************)
(* GraphBuilder (backend/builder/api.py): the calls that declare a workflow *)
(* graph, the depth-first search every add_edge makes before it accepts an *)
(* edge (assert_no_cycle), and what compile() checks of the whole.         *)
(***************************************************************************)
EXTENDS Integers, Sequences, FiniteSets

CONSTANTS
    NodeId,     \* the ids configurations carry
    End,        \* END, reserved
    Kind,       \* Kind[n]: the kind of the configuration with id n
    Target,     \* Target[n]: the targets a conditional configuration names
    Route,      \* Route[n]: those that a router's routes name, its default aside
    Declared,   \* the edges add_edge is called with
    Cap,        \* the values max_iterations is given
    MaxLoops,   \* how many loops are declared
    None        \* entry, call or metadata that does not exist

Conditional == {n \in NodeId : Kind[n] \in {"gate", "router", "approval"}}
Vertex == NodeId \union {End}
Loop == [from : NodeId, to : NodeId, max : Cap]

ASSUME BuilderAssumption ==
    /\ End \notin NodeId
    /\ Kind \in [NodeId -> {"plain", "gate", "router", "approval"}]
    /\ Target \in [NodeId -> SUBSET Vertex]
    /\ \A n \in NodeId : Kind[n] = "router" => Route[n] \subseteq Target[n]
    /\ Declared \subseteq NodeId \X Vertex
    /\ Cap \subseteq Int
    /\ None \notin Vertex \union (NodeId \X NodeId)
    /\ MaxLoops \in Nat

VARIABLES
    budgets,    \* both budgets were given
    nodes,      \* _nodes
    edges,      \* _edges
    loops,      \* _loops
    entry,      \* _entry
    call,       \* the edge add_edge is searching a cycle for, or None
    stack,      \* assert_no_cycle: nodes to look at
    seen,       \* assert_no_cycle: nodes looked at
    metadata    \* the last GraphMetadata compile() returned

search == <<call, stack, seen>>
vars == <<budgets, nodes, edges, loops, entry, search, metadata>>

Metadata == [nodes : SUBSET NodeId, edges : SUBSET (NodeId \X Vertex),
             loops : Seq(Loop), entry : NodeId]

TypeOK ==
    /\ budgets \in BOOLEAN
    /\ nodes \subseteq NodeId
    /\ edges \subseteq nodes \X (nodes \union {End})
    /\ loops \in Seq(Loop)
    /\ entry \in nodes \union {None}
    /\ call = None \/ call \in nodes \X nodes
    /\ stack \subseteq nodes
    /\ seen \subseteq nodes
    /\ call = None => stack = {}
    /\ metadata = None \/ metadata \in Metadata

Init ==
    /\ budgets \in BOOLEAN
    /\ nodes = {} /\ edges = {} /\ loops = <<>>
    /\ entry = None
    /\ call = None /\ stack = {} /\ seen = {}
    /\ metadata = None

-----------------------------------------------------------------------------
(* A call that raises BuilderValidationError leaves the builder as it was;  *)
(* only the calls that change it are actions.                               *)

Idle == call = None

AddNode(n) ==
    /\ Idle
    /\ n \notin nodes
    /\ nodes' = nodes \union {n}
    /\ UNCHANGED <<budgets, edges, loops, entry, search, metadata>>

SetEntry(n) ==
    /\ Idle
    /\ n \in nodes
    /\ entry' = n
    /\ UNCHANGED <<budgets, nodes, edges, loops, search, metadata>>

\* An edge to END closes no cycle.
AddEndEdge(s) ==
    /\ Idle
    /\ s \in nodes /\ <<s, End>> \in Declared
    /\ edges' = edges \union {<<s, End>>}
    /\ UNCHANGED <<budgets, nodes, loops, entry, search, metadata>>

AddEdge(s, t) ==
    /\ Idle
    /\ s \in nodes /\ t \in nodes /\ <<s, t>> \in Declared
    /\ call' = <<s, t>>
    /\ stack' = {t} /\ seen' = {}
    /\ UNCHANGED <<budgets, nodes, edges, loops, entry, metadata>>

AddLoop(from, to, max) ==
    /\ Idle
    /\ from \in nodes /\ to \in nodes
    /\ max > 0
    /\ Len(loops) < MaxLoops
    /\ loops' = Append(loops, [from |-> from, to |-> to, max |-> max])
    /\ UNCHANGED <<budgets, nodes, edges, entry, search, metadata>>

-----------------------------------------------------------------------------
(* assert_no_cycle, with the new edge already in its adjacency lists. The   *)
(* order in which the stack is popped does not matter to it.               *)

\* Seeded defect: edges are followed both ways.
AdjacentBothWays(n) ==
    {m \in NodeId : {<<n, m>>, <<m, n>>} \intersect (edges \union {call}) # {}}

Adjacent(n) == {m \in NodeId : <<n, m>> \in edges \union {call}}

EndCall == call' = None /\ stack' = {} /\ seen' = {}

\* Seeded defect: the search looks at the target alone.
VisitTargetOnly(n) ==
    /\ n \in stack
    /\ n # call[1]
    /\ stack' = stack \ {n}
    /\ seen' = seen \union {n}
    /\ UNCHANGED <<budgets, nodes, edges, loops, entry, call, metadata>>

Visit(n) ==
    /\ n \in stack
    /\ n # call[1]
    /\ IF n \in seen
       THEN stack' = stack \ {n} /\ seen' = seen
       ELSE stack' = (stack \ {n}) \union Adjacent(n) /\ seen' = seen \union {n}
    /\ UNCHANGED <<budgets, nodes, edges, loops, entry, call, metadata>>

RejectCycle ==
    /\ ~Idle
    /\ call[1] \in stack
    /\ EndCall
    /\ UNCHANGED <<budgets, nodes, edges, loops, entry, metadata>>

AcceptEdge ==
    /\ ~Idle
    /\ stack = {}
    /\ edges' = edges \union {call}
    /\ EndCall
    /\ UNCHANGED <<budgets, nodes, loops, entry, metadata>>

-----------------------------------------------------------------------------
(* compile()                                                               *)

ConditionalsResolve ==
    \A n \in nodes \intersect Conditional : /\ Target[n] \subseteq nodes \union {End}
                                           /\ Kind[n] = "router" => Route[n] # {}

LoopsOf(n) == {i \in DOMAIN loops : loops[i].from = n}

\* A node that is not a gate or a router either loops back or goes forward.
LoopsResolve ==
    \A n \in nodes :
        \/ Kind[n] \in {"gate", "router"}
        \/ LoopsOf(n) = {}
        \/ Cardinality(LoopsOf(n)) = 1 /\ ~\E t \in Vertex : <<n, t>> \in edges

Compile ==
    /\ Idle
    /\ budgets
    /\ entry # None
    /\ ConditionalsResolve
    /\ LoopsResolve
    /\ metadata' = [nodes |-> nodes, edges |-> edges, loops |-> loops, entry |-> entry]
    /\ UNCHANGED <<budgets, nodes, edges, loops, entry, search>>

-----------------------------------------------------------------------------
Search == (\E n \in NodeId : Visit(n)) \/ RejectCycle \/ AcceptEdge

Next ==
    \/ \E n \in NodeId : AddNode(n) \/ SetEntry(n) \/ AddEndEdge(n)
    \/ \E s, t \in NodeId : AddEdge(s, t) \/ \E m \in Cap : AddLoop(s, t, m)
    \/ Search
    \/ Compile

Spec == Init /\ [][Next]_vars

-----------------------------------------------------------------------------
(* Reference definitions.                                                  *)

Closed(E, S) == \A e \in E : e[1] \in S => e[2] \in S

\* t lies in every closed set that s lies in: a path of E leads from s to t.
Reaches(E, s, t) == \A S \in SUBSET NodeId : s \in S /\ Closed(E, S) => t \in S

Inner(E) == {e \in E : e[2] # End}

\* Every non-empty set of nodes has one that no edge leads from into the set.
Acyclic(E) ==
    \A S \in SUBSET NodeId : S # {} => \E n \in S : \A m \in S : <<n, m>> \notin E

-----------------------------------------------------------------------------
\* The forward edges of a graph never close a cycle, whatever order they were
\* declared in: every add_edge searched the edges accepted before it.
ForwardAcyclic == Acyclic(edges)

\* assert_no_cycle refuses an edge exactly when its target already reaches its
\* source; a legal graph is never refused for the order of its edges.
SearchIsExact ==
    [][call # None /\ call' = None =>
          (call \in edges' <=> ~Reaches(Inner(edges), call[2], call[1]))]_vars

=============================================================================
