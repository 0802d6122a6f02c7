------------------------- MODULE GraphBuilderProofs -------------------------
(***************************************************************************)
(* Proofs about GraphBuilder: the search decides reachability, so no graph *)
(* of any size ever holds a cycle of forward edges.                        *)
(***************************************************************************)
EXTENDS GraphBuilder, TLAPS

-----------------------------------------------------------------------------
(* Graphs.                                                                 *)

\* An edge whose target does not reach its source closes no cycle: the nodes its
\* target reaches are closed under the old edges and leave the source out.
LEMMA AddingKeepsAcyclic ==
    ASSUME NEW E, Acyclic(E), NEW s \in NodeId, NEW t \in NodeId,
           ~Reaches(Inner(E), t, s)
    PROVE  Acyclic(E \union {<<s, t>>})
<1>1. PICK C \in SUBSET NodeId : t \in C /\ Closed(Inner(E), C) /\ s \notin C
  BY DEF Reaches
<1> SUFFICES ASSUME NEW S \in SUBSET NodeId, S # {}
             PROVE  \E n \in S : \A m \in S : <<n, m>> \notin E \union {<<s, t>>}
  BY DEF Acyclic
<1>2. CASE S \intersect C = {}
  <2>1. PICK n \in S : \A m \in S : <<n, m>> \notin E
    BY DEF Acyclic
  <2>2. t \notin S
    BY <1>1, <1>2
  <2> QED
    BY <2>1, <2>2
<1>3. CASE S \intersect C # {}
  <2>1. PICK n \in S \intersect C : \A m \in S \intersect C : <<n, m>> \notin E
    BY <1>3 DEF Acyclic
  <2>2. ASSUME NEW m \in S, <<n, m>> \in E PROVE FALSE
    <3>1. m # End
      BY BuilderAssumption DEF BuilderAssumption
    <3>2. <<n, m>> \in Inner(E)
      BY <2>2, <3>1 DEF Inner
    <3>3. m \in C
      BY <1>1, <2>1, <3>2 DEF Closed
    <3> QED
      BY <2>1, <2>2, <3>3
  <2>3. n # s
    BY <1>1, <2>1
  <2> QED
    BY <2>1, <2>2, <2>3
<1> QED
  BY <1>2, <1>3

\* An edge to END is in no cycle.
LEMMA EndKeepsAcyclic ==
    ASSUME NEW E, Acyclic(E), NEW s
    PROVE  Acyclic(E \union {<<s, End>>})
<1> SUFFICES ASSUME NEW S \in SUBSET NodeId, S # {}
             PROVE  \E n \in S : \A m \in S : <<n, m>> \notin E \union {<<s, End>>}
  BY DEF Acyclic
<1>1. PICK n \in S : \A m \in S : <<n, m>> \notin E
  BY DEF Acyclic
<1>2. \A m \in S : m # End
  BY BuilderAssumption DEF BuilderAssumption
<1> QED
  BY <1>1, <1>2

\* What an edge of the graph leads to from a reached node is reached.
LEMMA ReachesExtends ==
    ASSUME NEW E, NEW s, NEW n, NEW m, Reaches(E, s, n), <<n, m>> \in E
    PROVE  Reaches(E, s, m)
<1> SUFFICES ASSUME NEW S \in SUBSET NodeId, s \in S, Closed(E, S) PROVE m \in S
  BY DEF Reaches
<1>1. n \in S
  BY DEF Reaches
<1> QED
  BY <1>1 DEF Closed

\* In an acyclic graph the target of an edge does not reach its source: a last
\* node between them would still have an edge to a node that reaches the source.
LEMMA EdgesAreNotReversed ==
    ASSUME NEW E, E \subseteq NodeId \X Vertex, Acyclic(E),
           NEW s \in NodeId, NEW t \in NodeId, <<s, t>> \in E
    PROVE  ~Reaches(Inner(E), t, s)
<1> SUFFICES ASSUME Reaches(Inner(E), t, s) PROVE FALSE
  OBVIOUS
<1> DEFINE S == {n \in NodeId : Reaches(Inner(E), n, s)}
           C == NodeId \ S
<1>1. PICK n \in S : \A m \in S : <<n, m>> \notin E
  BY DEF Acyclic
<1>2. n # s
  BY <1>1
<1>3. Closed(Inner(E), C \union {n})
  <2> SUFFICES ASSUME NEW e \in Inner(E), e[1] \in C \union {n}
               PROVE  e[2] \in C \union {n}
    BY DEF Closed
  <2>1. e = <<e[1], e[2]>> /\ e[1] \in NodeId /\ e[2] \in NodeId /\ e \in E
    BY DEF Inner, Vertex
  <2>2. CASE e[1] = n
    BY <1>1, <2>1, <2>2
  <2>3. CASE e[1] \in C
    <3>1. ASSUME Reaches(Inner(E), e[2], s) PROVE Reaches(Inner(E), e[1], s)
      BY <2>1, <3>1 DEF Reaches, Closed
    <3> QED
      BY <2>1, <2>3, <3>1
  <2> QED
    BY <2>2, <2>3
<1>4. s \notin C \union {n}
  <2>1. Reaches(Inner(E), s, s)
    BY DEF Reaches
  <2> QED
    BY <1>2, <2>1
<1>5. C \union {n} \in SUBSET NodeId
  OBVIOUS
<1>6. Reaches(Inner(E), n, s)
  BY <1>1
<1> QED
  BY <1>3, <1>4, <1>5, <1>6 DEF Reaches

-----------------------------------------------------------------------------
(* Types.                                                                  *)

LEMMA InitType == Init => TypeOK
BY DEF Init, TypeOK

LEMMA NextType == TypeOK /\ [Next]_vars => TypeOK'
<1> SUFFICES ASSUME TypeOK, [Next]_vars PROVE TypeOK'
  OBVIOUS
<1> USE DEF TypeOK
<1>1. ASSUME NEW n \in NodeId, AddNode(n) PROVE TypeOK'
  BY <1>1 DEF AddNode, search
<1>2. ASSUME NEW n \in NodeId, SetEntry(n) PROVE TypeOK'
  BY <1>2 DEF SetEntry, search
<1>3. ASSUME NEW n \in NodeId, AddEndEdge(n) PROVE TypeOK'
  BY <1>3 DEF AddEndEdge, search
<1>4. ASSUME NEW s \in NodeId, NEW t \in NodeId, AddEdge(s, t) PROVE TypeOK'
  BY <1>4, BuilderAssumption DEF BuilderAssumption, AddEdge
<1>5. ASSUME NEW s \in NodeId, NEW t \in NodeId, NEW m \in Cap, AddLoop(s, t, m)
      PROVE  TypeOK'
  <2>1. [from |-> s, to |-> t, max |-> m] \in Loop
    BY DEF Loop
  <2>2. loops' \in Seq(Loop)
    BY <1>5, <2>1 DEF AddLoop
  <2> QED
    BY <1>5, <2>2 DEF AddLoop, search
<1>6. ASSUME NEW n \in NodeId, Visit(n) PROVE TypeOK'
  <2>1. n \in nodes /\ call \in nodes \X nodes
    BY <1>6 DEF Visit
  <2>2. Adjacent(n) \subseteq nodes
    BY <2>1, BuilderAssumption DEF BuilderAssumption, Adjacent
  <2> QED
    BY <1>6, <2>1, <2>2 DEF Visit
<1>7. CASE RejectCycle
  BY <1>7 DEF RejectCycle, EndCall
<1>8. CASE AcceptEdge
  BY <1>8 DEF AcceptEdge, EndCall, Idle
<1>9. CASE Compile
  <2>1. metadata' \in Metadata
    BY <1>9 DEF Compile, Metadata, Vertex
  <2> QED
    BY <1>9, <2>1 DEF Compile, search
<1>10. CASE UNCHANGED vars
  BY <1>10 DEF vars, search
<1> QED
  BY <1>1, <1>2, <1>3, <1>4, <1>5, <1>6, <1>7, <1>8, <1>9, <1>10 DEF Next, Search

\* Every variable of the builder keeps its type.
THEOREM TypeCorrect == Spec => []TypeOK
BY InitType, NextType, PTL DEF Spec

-----------------------------------------------------------------------------
(* The search. What it has looked at is reached from the new edge's target, *)
(* and every edge out of a node it has expanded leads to one it knows.      *)

SearchInv ==
    call # None =>
        /\ call[2] \in stack \union seen
        /\ call[1] \notin seen
        /\ \A n \in stack \union seen : Reaches(Inner(edges), call[2], n)
        /\ \A e \in Inner(edges) : e[1] \in seen => e[2] \in stack \union seen

LEMMA VisitSearch ==
    ASSUME TypeOK, SearchInv, NEW n \in NodeId, Visit(n)
    PROVE  SearchInv'
<1>1. call # None /\ call \in nodes \X nodes /\ call' = call /\ edges' = edges
  BY DEF Visit, TypeOK
<1>2. n \in stack /\ n # call[1]
  BY DEF Visit
<1>3. CASE n \in seen
  <2>1. stack' = stack \ {n} /\ seen' = seen
    BY <1>3 DEF Visit
  <2> QED
    BY <1>1, <1>3, <2>1 DEF SearchInv
<1>4. CASE n \notin seen
  <2>1. stack' = (stack \ {n}) \union Adjacent(n) /\ seen' = seen \union {n}
    BY <1>4 DEF Visit
  <2>2. \A m \in Adjacent(n) : <<n, m>> \in Inner(edges)
    <3> TAKE m \in Adjacent(n)
    <3>1. <<n, m>> \in edges
      BY <1>1, <1>2 DEF Adjacent
    <3>2. m # End
      BY BuilderAssumption DEF BuilderAssumption, Adjacent
    <3> QED
      BY <3>1, <3>2 DEF Inner
  <2>3. \A m \in Adjacent(n) : Reaches(Inner(edges), call[2], m)
    BY <1>1, <1>2, <2>2, ReachesExtends DEF SearchInv
  <2>4. ASSUME NEW e \in Inner(edges), e[1] = n PROVE e[2] \in Adjacent(n)
    <3>1. e = <<n, e[2]>> /\ e[2] \in nodes
      BY <2>4 DEF Inner, TypeOK
    <3> QED
      BY <3>1 DEF Inner, Adjacent, TypeOK
  <2>5. \A e \in Inner(edges) : e[1] \in seen' => e[2] \in stack' \union seen'
    BY <1>1, <2>1, <2>4 DEF SearchInv
  <2>6. \A m \in stack' \union seen' : Reaches(Inner(edges), call[2], m)
    BY <1>1, <1>2, <2>1, <2>3 DEF SearchInv
  <2> QED
    BY <1>1, <1>2, <2>1, <2>5, <2>6 DEF SearchInv
<1> QED
  BY <1>3, <1>4

LEMMA NextSearch == TypeOK /\ SearchInv /\ [Next]_vars => SearchInv'
<1> SUFFICES ASSUME TypeOK, SearchInv, [Next]_vars PROVE SearchInv'
  OBVIOUS
<1>1. ASSUME NEW s \in NodeId, NEW t \in NodeId, AddEdge(s, t) PROVE SearchInv'
  <2>1. call' = <<s, t>> /\ stack' = {t} /\ seen' = {}
    BY <1>1 DEF AddEdge
  <2>2. Reaches(Inner(edges'), t, t)
    BY DEF Reaches
  <2> QED
    BY <2>1, <2>2 DEF SearchInv
<1>2. ASSUME NEW n \in NodeId, Visit(n) PROVE SearchInv'
  BY <1>2, VisitSearch
<1>3. CASE RejectCycle \/ AcceptEdge
  BY <1>3 DEF RejectCycle, AcceptEdge, EndCall, SearchInv
<1>4. CASE call' = None
  BY <1>4 DEF SearchInv
<1>5. CASE UNCHANGED <<search, edges>>
  BY <1>5 DEF search, SearchInv
<1>6. ASSUME NEW n \in NodeId, AddNode(n) \/ SetEntry(n) \/ AddEndEdge(n)
      PROVE  call' = None
  BY <1>6 DEF AddNode, SetEntry, AddEndEdge, Idle, search
<1>7. ASSUME NEW s, NEW t, NEW m, AddLoop(s, t, m)
      PROVE  call' = None
  BY <1>7 DEF AddLoop, Idle, search
<1>8. CASE Compile
  BY <1>4, <1>8 DEF Compile, Idle, search
<1>9. CASE UNCHANGED vars
  BY <1>5, <1>9 DEF vars, search
<1> QED
  BY <1>1, <1>2, <1>3, <1>4, <1>6, <1>7, <1>8, <1>9 DEF Next, Search

\* A finished search has visited a set closed under the edges, the source not in it.
LEMMA AcceptedIsUnreachable ==
    ASSUME TypeOK, SearchInv, AcceptEdge
    PROVE  ~Reaches(Inner(edges), call[2], call[1])
<1>1. seen \in SUBSET NodeId /\ call[2] \in seen /\ call[1] \notin seen
  BY DEF TypeOK, SearchInv, AcceptEdge, Idle
<1>2. Closed(Inner(edges), seen)
  BY DEF SearchInv, AcceptEdge, Idle, Closed
<1> QED
  BY <1>1, <1>2 DEF Reaches

\* No sequence of add_edge calls closes a cycle of forward edges.
THEOREM ForwardEdgesAcyclic == Spec => []ForwardAcyclic
<1>1. Init => ForwardAcyclic /\ SearchInv
  BY DEF Init, ForwardAcyclic, Acyclic, SearchInv
<1>2. TypeOK /\ SearchInv /\ ForwardAcyclic /\ [Next]_vars => ForwardAcyclic'
  <2> SUFFICES ASSUME TypeOK, SearchInv, ForwardAcyclic, [Next]_vars
               PROVE  ForwardAcyclic'
    OBVIOUS
  <2>1. CASE AcceptEdge
    <3>1. call \in nodes \X nodes /\ nodes \subseteq NodeId
      BY <2>1 DEF AcceptEdge, Idle, TypeOK
    <3>2. Acyclic(edges \union {<<call[1], call[2]>>})
      BY <2>1, <3>1, AcceptedIsUnreachable, AddingKeepsAcyclic DEF ForwardAcyclic
    <3>3. edges' = edges \union {<<call[1], call[2]>>}
      BY <2>1, <3>1 DEF AcceptEdge
    <3> QED
      BY <3>2, <3>3 DEF ForwardAcyclic
  <2>2. ASSUME NEW s \in NodeId, AddEndEdge(s) PROVE ForwardAcyclic'
    <3>1. Acyclic(edges \union {<<s, End>>})
      BY EndKeepsAcyclic DEF ForwardAcyclic
    <3> QED
      BY <2>2, <3>1 DEF AddEndEdge, ForwardAcyclic
  <2>3. CASE edges' = edges
    BY <2>3 DEF ForwardAcyclic
  <2> QED
    BY <2>1, <2>2, <2>3 DEF Next, Search, vars, AddNode, SetEntry, AddEdge, AddLoop,
       Visit, RejectCycle, Compile
<1> QED
  BY <1>1, <1>2, InitType, NextType, NextSearch, PTL DEF Spec

\* assert_no_cycle accepts an edge exactly when it closes no cycle.
THEOREM SearchDecidesCycles == Spec => SearchIsExact
<1>1. Init => SearchInv
  BY DEF Init, SearchInv
<1>2. TypeOK /\ SearchInv /\ ForwardAcyclic /\ [Next]_vars =>
        [call # None /\ call' = None =>
            (call \in edges' <=> ~Reaches(Inner(edges), call[2], call[1]))]_vars
  <2> SUFFICES ASSUME TypeOK, SearchInv, ForwardAcyclic, [Next]_vars, call # None, call' = None
               PROVE  call \in edges' <=> ~Reaches(Inner(edges), call[2], call[1])
    BY DEF vars
  <2>1. CASE AcceptEdge
    BY <2>1, AcceptedIsUnreachable DEF AcceptEdge
  <2>2. CASE RejectCycle
    <3>1. Reaches(Inner(edges), call[2], call[1])
      BY <2>2 DEF RejectCycle, SearchInv
    <3>2. call \in nodes \X nodes
      BY DEF TypeOK
    <3>3. call \notin edges
      <4> SUFFICES ASSUME <<call[1], call[2]>> \in edges PROVE FALSE
        BY <3>2
      <4>1. edges \subseteq NodeId \X Vertex
        BY DEF TypeOK, Vertex
      <4>2. call[1] \in NodeId /\ call[2] \in NodeId
        BY <3>2 DEF TypeOK
      <4> QED
        BY <3>1, <4>1, <4>2, EdgesAreNotReversed DEF ForwardAcyclic
    <3> QED
      BY <2>2, <3>1, <3>3 DEF RejectCycle
  <2> QED
    BY <2>1, <2>2 DEF Next, Search, vars, search, Idle, AddNode, SetEntry, AddEndEdge,
       AddEdge, AddLoop, Visit, Compile
<1> QED
  BY <1>1, <1>2, InitType, NextType, NextSearch, ForwardEdgesAcyclic, PTL DEF Spec, SearchIsExact

=============================================================================
