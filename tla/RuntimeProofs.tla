---------------------------- MODULE RuntimeProofs ----------------------------
(***************************************************************************)
(* Proofs about the runtime: RunExecutor for every graph, budget and limit, *)
(* and BatchRunner for any number of items and any pool.                   *)
(***************************************************************************)
EXTENDS RunExecutor, BatchRunner, FiniteSetTheorems, TLAPS

-----------------------------------------------------------------------------
(* What the operators of the graph return.                                 *)

\* A finished node dispatches nodes of the graph only, never END.
LEMMA DispatchInNode ==
    ASSUME NEW n \in Node, NEW l,
           n \in Conditional => l \in DOMAIN Branch[n]
    PROVE  Dispatch(n, l) \subseteq Node
<1>1. EdgeTargets(n) \subseteq Node
  BY DEF EdgeTargets
<1>2. BackEdges(n) \subseteq Node
  BY GraphAssumption DEF GraphAssumption, BackEdges, LoopsFrom
<1>3. n \in Conditional => Branch[n][l] \in Node \union {End}
  BY GraphAssumption DEF GraphAssumption
<1> QED
  BY <1>1, <1>2, <1>3 DEF Dispatch

\* A node is charged to loops of the graph only.
LEMMA CountedLoopInLoops ==
    ASSUME NEW n, NEW l
    PROVE  CountedLoop(n, l) \subseteq DOMAIN Loops
BY DEF CountedLoop, First, LoopsFrom, LoopsInto

\* The outcomes of a conditional node are branches it has.
LEMMA LabelsAreBranches ==
    ASSUME TypeOK, NEW n \in Node, NEW l \in Labels(n)
    PROVE  n \in Conditional => l \in DOMAIN Branch[n]
<1>1. CASE Kind[n] = "approval"
  <2>1. l \in {"approved", "rejected"}
    BY <1>1 DEF Labels, TypeOK, Approvals, Decisions
  <2> QED
    BY <1>1, <2>1, GraphAssumption DEF GraphAssumption
<1>2. CASE Kind[n] \in {"gate", "router"}
  BY <1>2 DEF Labels
<1>3. CASE Kind[n] \notin {"approval", "gate", "router"}
  BY <1>3 DEF Conditional, ConditionalKinds
<1> QED
  BY <1>1, <1>2, <1>3

\* Every crossing of an enforced loop is charged to that loop.
LEMMA EnforcedIsCounted ==
    ASSUME TypeOK, NEW i \in DOMAIN Loops, Enforced(i),
           NEW n, n = Loops[i].from, NEW l \in Labels(n),
           Loops[i].to \in Dispatch(n, l)
    PROVE  i \in CountedLoop(n, l)
<1>1. n \in Node
  BY GraphAssumption DEF GraphAssumption
<1>2. CASE n \notin Conditional
  BY <1>1, <1>2 DEF Enforced, CountedLoop, Conditional, ConditionalKinds
<1>3. CASE n \in Conditional
  <2>1. Kind[n] = "gate"
    BY <1>3 DEF Enforced
  <2>2. EdgeTargets(n) = {}
    BY <1>3 DEF EdgeTargets, Sources
  <2>3. BackEdges(n) = {}
    BY <2>1 DEF BackEdges
  <2>4. Loops[i].to = Branch[n][l]
    BY <1>3, <2>2, <2>3 DEF Dispatch
  <2>5. l \in DOMAIN Branch[n]
    BY <1>1, <1>3, LabelsAreBranches
  <2>6. l = "fail" /\ i \in First(LoopsInto(Loops[i].to))
    BY <1>3, <2>4, <2>5 DEF Enforced
  <2> QED
    BY <1>3, <2>1, <2>4, <2>6 DEF CountedLoop
<1> QED
  BY <1>2, <1>3

\* Every exception of a node body ends the run with a known status.
LEMMA FailuresAreStatuses ==
    ASSUME NEW n
    PROVE  Failures(n) \subseteq Statuses
BY DEF Failures, Statuses

-----------------------------------------------------------------------------
(* Type correctness. Before the stream nothing has been dispatched.        *)

Fresh ==
    /\ phase \in {"setup", "compiled"} =>
          /\ phase = "compiled" => start \in Node
          /\ steps = 0 /\ cost = 0
          /\ tasks = {} /\ raised = {} /\ bumped = {} /\ crossed = {}
    /\ phase \in {"setup", "compiled", "stream"} => status = "running"

TypeInv == TypeOK /\ Fresh

LEMMA InitType == Init => TypeInv
<1> SUFFICES ASSUME Init PROVE TypeInv
  OBVIOUS
<1>1. /\ start \in StartNodes /\ phase \in Phases
      /\ decision \in [Approvals -> Decisions] /\ counts \in [DOMAIN Loops -> Nat]
  BY RunAssumption DEF RunAssumption, Init, Phases
<1>2. status \in Statuses
      /\ record \in [telemetry : Statuses, manifest : Statuses, termination : BOOLEAN]
  BY DEF Init, Statuses
<1>3. arrived \in [JoinTargets -> SUBSET Node] /\ since \in [JoinTargets -> SUBSET Node]
  BY DEF Init
<1>4. taken \in [DOMAIN Loops -> Nat]
  BY DEF Init
<1> QED
  BY <1>1, <1>2, <1>3, <1>4 DEF Init, TypeInv, TypeOK, Fresh

\* Return leaves a chunk and stays within the graph.
LEMMA ReturnType ==
    ASSUME TypeInv, NEW n \in Node, Return(n)
    PROVE  TypeInv'
<1> USE DEF TypeInv
<1>1. PICK l \in Labels(n) :
          /\ triggered' = triggered \union Dispatch(n, l)
          /\ bumped' = bumped \union ({n} \X CountedLoop(n, l))
          /\ crossed' = crossed \union {i \in LoopsFrom(n) : Loops[i].to \in Dispatch(n, l)}
  BY DEF Return
<1>2. triggered' \subseteq Node
  BY <1>1, LabelsAreBranches, DispatchInNode DEF TypeOK
<1>3. bumped' \subseteq Node \X DOMAIN Loops
  BY <1>1, CountedLoopInLoops DEF TypeOK
<1>4. crossed' \subseteq DOMAIN Loops
  BY <1>1 DEF TypeOK, LoopsFrom
<1>5. arrived' \in [JoinTargets -> SUBSET Node] /\ since' \in [JoinTargets -> SUBSET Node]
  BY DEF TypeOK, Return
<1>6. cost' \in Nat /\ late' \in BOOLEAN
  <2>1. PICK c \in 0..(IF n \in Conditional THEN 0 ELSE MaxNodeCost) : cost' = cost + c
    BY DEF Return, Work
  <2>2. c \in Nat
    BY <2>1, RunAssumption DEF RunAssumption
  <2>3. late' \in BOOLEAN
    BY Zenon DEF Return, Work, TypeOK
  <2> QED
    BY <2>1, <2>2, <2>3 DEF TypeOK
<1>7. running' \subseteq tasks' /\ emitted' \subseteq tasks' \ running'
  BY DEF Return, Work, TypeOK
<1>8. phase' = phase /\ phase \notin {"setup", "compiled"}
  BY DEF Return, Work, recordVars
<1> QED
  BY <1>2, <1>3, <1>4, <1>5, <1>6, <1>7, <1>8
  DEF Return, Work, recordVars, TypeOK, Fresh

\* Raise leaves a status to be observed.
LEMMA RaiseType ==
    ASSUME TypeInv, NEW n \in Node, Raise(n)
    PROVE  TypeInv'
<1> USE DEF TypeInv
<1>1. raised' \subseteq Statuses /\ paused' \subseteq Node
  BY FailuresAreStatuses DEF Raise, TypeOK
<1>2. cost' \in Nat /\ late' \in BOOLEAN
  <2>1. PICK c \in 0..(IF n \in Conditional THEN 0 ELSE MaxNodeCost) : cost' = cost + c
    BY DEF Raise, Work
  <2>2. c \in Nat
    BY <2>1, RunAssumption DEF RunAssumption
  <2>3. late' \in BOOLEAN
    BY Zenon DEF Raise, Work, TypeOK
  <2> QED
    BY <2>1, <2>2, <2>3 DEF TypeOK
<1>3. running' \subseteq tasks' /\ emitted' \subseteq tasks' \ running'
  BY DEF Raise, Work, TypeOK
<1>4. phase' = phase /\ phase \notin {"setup", "compiled"}
  BY DEF Raise, Work, recordVars
<1> QED
  BY <1>1, <1>2, <1>3, <1>4 DEF Raise, Work, recordVars, history, TypeOK, Fresh

LEMMA StartSuperstepType ==
    ASSUME TypeInv, StartSuperstep
    PROVE  TypeInv'
<1> USE DEF TypeInv
<1>1. Frontier \subseteq Node
  BY DEF Frontier, Joins, JoinTargets, TypeOK
<1>2. arrived' \in [JoinTargets -> SUBSET Node] /\ since' \in [JoinTargets -> SUBSET Node]
  BY DEF StartSuperstep, TypeOK
<1>3. counts' \in [DOMAIN Loops -> Nat] /\ taken' \in [DOMAIN Loops -> Nat]
  <2>1. \A i \in DOMAIN Loops : counts[i] + 1 \in Nat /\ taken[i] + 1 \in Nat
    BY DEF TypeOK
  <2> QED
    BY <2>1, Zenon DEF StartSuperstep, TypeOK
<1>4. steps' \in Nat
  BY DEF StartSuperstep, TypeOK
<1>5. phase' = "stream" /\ emitted' = {}
  BY DEF StartSuperstep, SuperstepOver, recordVars
<1> QED
  BY <1>1, <1>2, <1>3, <1>4, <1>5 DEF StartSuperstep, recordVars, TypeOK, Fresh

LEMMA NextType == TypeInv /\ [Next]_vars => TypeInv'
<1> SUFFICES ASSUME TypeInv, [Next]_vars PROVE TypeInv'
  OBVIOUS
<1> USE DEF TypeInv, Phases, Statuses, stepVars, recordVars, history
<1>1. CASE Compile \/ RejectStart
  BY <1>1 DEF Compile, RejectStart, TypeOK, Fresh
<1>2. CASE BeginCancelled
  BY <1>2 DEF BeginCancelled, StopWith, TypeOK, Fresh
<1>3. CASE BeginStream
  <2>1. emitted = {} /\ start \in Node
    BY <1>3 DEF BeginStream, TypeOK, Fresh
  <2> QED
    BY <1>3, <2>1 DEF BeginStream, TypeOK, Fresh
<1>4. CASE Cancel
  BY <1>4 DEF Cancel, TypeOK, Fresh
<1>5. CASE \E n \in Node : Return(n)
  BY <1>5, ReturnType
<1>6. CASE \E n \in Node : Raise(n)
  BY <1>6, RaiseType
<1>7. CASE \E n \in Node : Consume(n)
  BY <1>7 DEF Consume, StopWith, TypeOK, Fresh
<1>8. CASE ObserveRaise
  BY <1>8 DEF ObserveRaise, StopWith, TypeOK, Fresh
<1>9. CASE WriteConflict \/ Finish \/ RecursionExceeded
  BY <1>9 DEF WriteConflict, Finish, RecursionExceeded, StopWith, TypeOK, Fresh
<1>10. CASE StartSuperstep
  BY <1>10, StartSuperstepType
<1>11. CASE RecordTelemetry \/ RecordManifest \/ RecordTermination
  <2>1. CASE RecordTelemetry
    BY <2>1 DEF RecordTelemetry, TypeOK, Fresh
  <2>2. CASE RecordManifest
    BY <2>2 DEF RecordManifest, TypeOK, Fresh
  <2>3. CASE RecordTermination
    BY <2>3 DEF RecordTermination, TypeOK, Fresh
  <2> QED
    BY <1>11, <2>1, <2>2, <2>3
<1>12. CASE Crash
  BY <1>12 DEF Crash, TypeOK, Fresh
<1>13. CASE UNCHANGED vars
  BY <1>13 DEF vars, TypeOK, Fresh
<1> QED
  BY <1>1, <1>2, <1>3, <1>4, <1>5, <1>6, <1>7, <1>8, <1>9, <1>10, <1>11, <1>12, <1>13
  DEF Next, Progress, Idle

\* Every variable of a run keeps its type, whatever the graph.
THEOREM TypeCorrect == Spec => []TypeOK
<1>1. TypeInv => TypeOK
  BY DEF TypeInv
<1> QED
  BY <1>1, InitType, NextType, PTL DEF Spec

-----------------------------------------------------------------------------
(* Loop caps. A crossing in flight carries its counter's increment with it, *)
(* and a counter is only incremented below its cap.                        *)

LoopInv ==
    /\ \A i \in DOMAIN Loops :
          Enforced(i) =>
             /\ taken[i] <= counts[i] /\ taken[i] <= Loops[i].max
             /\ i \in crossed => <<Loops[i].from, i>> \in bumped
    /\ \A n \in Node, i \in DOMAIN Loops : <<n, i>> \in bumped => counts[i] < Loops[i].max

LEMMA InitLoop == Init => LoopInv
BY GraphAssumption, RunAssumption DEF GraphAssumption, RunAssumption, Init, LoopInv

\* A node that returns has room left in the counter it is charged to.
LEMMA ReturnLoop ==
    ASSUME TypeInv, LoopInv, NEW n \in Node, Return(n)
    PROVE  LoopInv'
<1> USE DEF TypeInv
<1>1. PICK l \in Labels(n) :
          /\ ~Exhausted(n, l)
          /\ bumped' = bumped \union ({n} \X CountedLoop(n, l))
          /\ crossed' = crossed \union {i \in LoopsFrom(n) : Loops[i].to \in Dispatch(n, l)}
  BY DEF Return
<1>2. counts' = counts /\ taken' = taken
  BY DEF Return
<1>3. ASSUME NEW i \in DOMAIN Loops, Enforced(i), i \in crossed'
      PROVE  <<Loops[i].from, i>> \in bumped'
  <2>1. CASE i \in crossed
    BY <1>1, <1>3, <2>1 DEF LoopInv
  <2>2. CASE i \notin crossed
    <3>1. Loops[i].from = n /\ Loops[i].to \in Dispatch(n, l)
      BY <1>1, <1>3, <2>2 DEF LoopsFrom
    <3>2. i \in CountedLoop(n, l)
      BY <1>3, <3>1, EnforcedIsCounted
    <3> QED
      BY <1>1, <3>1, <3>2
  <2> QED
    BY <2>1, <2>2
<1>4. ASSUME NEW m \in Node, NEW i \in DOMAIN Loops, <<m, i>> \in bumped'
      PROVE  counts'[i] < Loops[i].max
  <2>1. CASE <<m, i>> \in bumped
    BY <1>2, <2>1 DEF LoopInv
  <2>2. CASE <<m, i>> \notin bumped
    <3>1. i \in CountedLoop(n, l)
      BY <1>1, <1>4, <2>2
    <3>2. ~(counts[i] + 1 > Loops[i].max)
      BY <1>1, <3>1 DEF Exhausted
    <3> QED
      BY <1>2, <3>2, GraphAssumption DEF GraphAssumption, TypeOK
  <2> QED
    BY <2>1, <2>2
<1> QED
  BY <1>2, <1>3, <1>4 DEF LoopInv

\* The crossings of a superstep are committed together with their counters.
LEMMA StartSuperstepLoop ==
    ASSUME TypeInv, LoopInv, StartSuperstep
    PROVE  LoopInv'
<1> USE DEF TypeInv
<1>1. ASSUME NEW i \in DOMAIN Loops, Enforced(i)
      PROVE  taken'[i] <= counts'[i] /\ taken'[i] <= Loops[i].max
  <2>1. /\ taken[i] \in Nat /\ counts[i] \in Nat /\ Loops[i].max \in Nat
        /\ Loops[i].from \in Node
    BY GraphAssumption DEF GraphAssumption, TypeOK
  <2>2. taken[i] <= counts[i] /\ taken[i] <= Loops[i].max
    BY <1>1 DEF LoopInv
  <2>3. CASE i \in crossed
    <3>1. <<Loops[i].from, i>> \in bumped
      BY <1>1, <2>3 DEF LoopInv
    <3>2. counts[i] < Loops[i].max
      BY <2>1, <3>1 DEF LoopInv
    <3>3. counts'[i] = counts[i] + 1
      BY <2>1, <3>1, Zenon DEF StartSuperstep
    <3>4. taken'[i] = taken[i] + 1
      BY <2>2, <2>3, Zenon DEF StartSuperstep
    <3> QED
      BY <2>1, <2>2, <3>2, <3>3, <3>4
  <2>4. CASE i \notin crossed
    <3>1. taken'[i] = taken[i]
      BY <2>4, Zenon DEF StartSuperstep
    <3>2. counts'[i] = counts[i] \/ counts'[i] = counts[i] + 1
      BY Zenon DEF StartSuperstep
    <3> QED
      BY <2>1, <2>2, <3>1, <3>2
  <2> QED
    BY <2>3, <2>4
<1>2. bumped' = {} /\ crossed' = {}
  BY DEF StartSuperstep
<1> QED
  BY <1>1, <1>2 DEF LoopInv

LEMMA NextLoop == TypeInv /\ LoopInv /\ [Next]_vars => LoopInv'
<1> SUFFICES ASSUME TypeInv, LoopInv, [Next]_vars PROVE LoopInv'
  OBVIOUS
<1>1. CASE \E n \in Node : Return(n)
  BY <1>1, ReturnLoop
<1>2. CASE StartSuperstep
  BY <1>2, StartSuperstepLoop
<1>3. CASE UNCHANGED <<taken, counts, crossed, bumped>>
  BY <1>3 DEF LoopInv
<1>4. \/ \E n \in Node : Return(n)
      \/ StartSuperstep
      \/ UNCHANGED <<taken, counts, crossed, bumped>>
  BY DEF Next, Progress, Idle, vars, stepVars, history, Compile, RejectStart,
         BeginCancelled, BeginStream, Cancel, Raise, Consume, ObserveRaise,
         WriteConflict, Finish, RecursionExceeded, RecordTelemetry, RecordManifest,
         RecordTermination, Crash
<1> QED
  BY <1>1, <1>2, <1>3, <1>4

\* Every back-edge the runtime counts stays within its max_iterations.
THEOREM LoopCaps == Spec => []LoopCapsHold
<1>1. LoopInv => LoopCapsHold
  BY DEF LoopInv, LoopCapsHold
<1> QED
  BY <1>1, InitType, NextType, InitLoop, NextLoop, PTL DEF Spec

-----------------------------------------------------------------------------
(* Cost. A superstep starts within budget, and each body still running may  *)
(* add MaxNodeCost once.                                                   *)

CostInv ==
    /\ cost + MaxNodeCost * Cardinality(running)
          <= CostBudget + MaxNodeCost * Cardinality(tasks)
    /\ SuperstepOver => cost <= CostBudget
    /\ status = "ok" => running = {} /\ cost <= CostBudget
    /\ "ok" \notin raised

\* The nodes of a superstep are finitely many.
LEMMA TasksFinite ==
    ASSUME TypeOK
    PROVE  /\ IsFiniteSet(tasks) /\ IsFiniteSet(running)
           /\ Cardinality(tasks) \in Nat /\ Cardinality(running) \in Nat
<1>1. tasks \subseteq Node /\ running \subseteq Node
  BY DEF TypeOK
<1>2. IsFiniteSet(tasks) /\ IsFiniteSet(running)
  BY <1>1, FS_Subset, GraphAssumption DEF GraphAssumption
<1> QED
  BY <1>2, FS_CardinalityType

LEMMA InitCost == Init => CostInv
<1> SUFFICES ASSUME Init PROVE CostInv
  OBVIOUS
<1>1. Cardinality({}) = 0
  BY FS_EmptySet
<1> QED
  BY <1>1, RunAssumption DEF RunAssumption, Init, CostInv, SuperstepOver

\* One body less is running and at most its cost more is spent.
LEMMA WorkCost ==
    ASSUME TypeOK, NEW n \in Node, Work(n), tasks' = tasks, status' = status,
           emitted' # {} \/ raised' # {}, "ok" \notin raised', CostInv
    PROVE  CostInv'
<1>1. PICK c \in 0..(IF n \in Conditional THEN 0 ELSE MaxNodeCost) : cost' = cost + c
  BY DEF Work
<1>2. c \in Nat /\ c <= MaxNodeCost /\ MaxNodeCost \in Nat
  BY <1>1, RunAssumption DEF RunAssumption
<1>3. n \in running /\ running' = running \ {n}
  BY DEF Work
<1>4. Cardinality(running') = Cardinality(running) - 1
  BY <1>3, TasksFinite, FS_RemoveElement
<1>5. Cardinality(running') \in Nat
  BY <1>3, TasksFinite, FS_Subset, FS_CardinalityType
<1>6. MaxNodeCost * Cardinality(running)
        = MaxNodeCost * Cardinality(running') + MaxNodeCost
  BY <1>2, <1>4, <1>5, TasksFinite
<1>7. /\ MaxNodeCost * Cardinality(running) \in Int
      /\ MaxNodeCost * Cardinality(running') \in Int
      /\ MaxNodeCost * Cardinality(tasks) \in Int
  BY <1>2, <1>5, TasksFinite
<1>8. cost' + MaxNodeCost * Cardinality(running')
        <= CostBudget + MaxNodeCost * Cardinality(tasks)
  <2> HIDE DEF SuperstepOver
  <2>1. cost \in Nat /\ CostBudget \in Nat
    BY RunAssumption DEF RunAssumption, TypeOK
  <2>2. cost + MaxNodeCost * Cardinality(running)
          <= CostBudget + MaxNodeCost * Cardinality(tasks)
    BY DEF CostInv
  <2> QED
    BY <1>1, <1>2, <1>6, <1>7, <2>1, <2>2
<1>9. ~SuperstepOver' /\ status' # "ok"
  BY <1>3 DEF CostInv, SuperstepOver
<1> QED
  BY <1>8, <1>9 DEF CostInv

LEMMA StartSuperstepCost ==
    ASSUME TypeInv, CostInv, StartSuperstep
    PROVE  CostInv'
<1>1. cost <= CostBudget /\ status' # "ok" /\ "ok" \notin raised'
  BY DEF StartSuperstep, SuperstepOver, CostInv, TypeInv, Fresh, recordVars
<1>2. tasks' = Frontier /\ running' = Frontier /\ cost' = cost
  BY DEF StartSuperstep
<1>3. ~SuperstepOver'
  BY <1>2 DEF StartSuperstep, SuperstepOver
<1>4. cost' + MaxNodeCost * Cardinality(running')
        <= CostBudget + MaxNodeCost * Cardinality(tasks')
  <2>1. IsFiniteSet(Frontier) /\ Cardinality(Frontier) \in Nat
    <3>1. Frontier \subseteq Node
      BY DEF Frontier, Joins, JoinTargets, TypeInv, TypeOK
    <3> QED
      BY <3>1, FS_Subset, FS_CardinalityType, GraphAssumption DEF GraphAssumption
  <2>2. cost \in Nat /\ CostBudget \in Nat /\ MaxNodeCost * Cardinality(Frontier) \in Int
    BY <2>1, RunAssumption DEF RunAssumption, TypeInv, TypeOK
  <2> QED
    BY <1>1, <1>2, <2>2
<1> QED
  BY <1>1, <1>3, <1>4 DEF CostInv

LEMMA NextCost == TypeInv /\ CostInv /\ [Next]_vars => CostInv'
<1> SUFFICES ASSUME TypeInv, CostInv, [Next]_vars PROVE CostInv'
  OBVIOUS
<1>1. CASE \E n \in Node : Return(n) \/ Raise(n)
  <2>1. PICK n \in Node : Return(n) \/ Raise(n)
    BY <1>1
  <2>2. /\ Work(n) /\ tasks' = tasks /\ status' = status
        /\ emitted' # {} \/ raised' # {}
        /\ "ok" \notin raised'
    <3>1. CASE Return(n)
      BY <3>1 DEF Return, recordVars, CostInv
    <3>2. CASE Raise(n)
      <4>1. "ok" \notin Failures(n)
        BY DEF Failures
      <4> QED
        BY <3>2, <4>1 DEF Raise, recordVars, CostInv
    <3> QED
      BY <2>1, <3>1, <3>2
  <2> QED
    BY <2>2, WorkCost DEF TypeInv
<1>2. CASE StartSuperstep
  BY <1>2, StartSuperstepCost
<1>3. CASE \E n \in Node : Consume(n)
  <2>1. /\ UNCHANGED <<cost, running, tasks, raised>>
        /\ status' # "ok" \/ status' = status
        /\ phase' = "stream" => ~cancelled /\ ~OverBudget
    BY <1>3 DEF Consume, StopWith
  <2>2. ~OverBudget => cost <= CostBudget
    BY RunAssumption DEF RunAssumption, OverBudget, TypeInv, TypeOK
  <2>3. SuperstepOver' => cost' <= CostBudget
    BY <2>1, <2>2 DEF SuperstepOver
  <2> QED
    BY <2>1, <2>3 DEF CostInv
<1>4. CASE Finish
  BY <1>4 DEF Finish, StopWith, CostInv, SuperstepOver, stepVars
<1>5. CASE BeginStream
  <2>1. cost = 0 /\ status = "running" /\ start \in Node
    BY <1>5 DEF BeginStream, TypeInv, Fresh
  <2>2. Cardinality({start}) = 1
    BY FS_Singleton
  <2>3. /\ tasks' = {start} /\ running' = {start} /\ cost' = 0 /\ status' = "running"
        /\ raised' = raised
    BY <1>5, <2>1 DEF BeginStream
  <2>4. ~SuperstepOver'
    BY <2>3 DEF SuperstepOver
  <2>5. cost' + MaxNodeCost * Cardinality(running')
          <= CostBudget + MaxNodeCost * Cardinality(tasks')
    BY <2>2, <2>3, RunAssumption DEF RunAssumption
  <2> QED
    BY <2>3, <2>4, <2>5 DEF CostInv
<1>6. CASE /\ UNCHANGED <<cost, running, emitted, raised, tasks>>
           /\ phase' = "stream" => phase = "stream"
           /\ status' = "ok" => status = "ok"
  BY <1>6 DEF CostInv, SuperstepOver
<1>7. CASE Compile \/ RejectStart \/ BeginCancelled \/ Cancel \/ WriteConflict
           \/ RecursionExceeded \/ RecordTelemetry \/ RecordManifest
           \/ RecordTermination \/ Crash \/ UNCHANGED vars
  BY <1>6, <1>7 DEF Compile, RejectStart, BeginCancelled, Cancel, WriteConflict,
     RecursionExceeded, RecordTelemetry, RecordManifest, RecordTermination, Crash,
     vars, stepVars, recordVars, StopWith
<1>8. CASE ObserveRaise
  <2>1. "ok" \notin raised
    BY DEF CostInv
  <2> QED
    BY <1>6, <1>8, <2>1 DEF ObserveRaise, StopWith, stepVars
<1> QED
  BY <1>1, <1>2, <1>3, <1>4, <1>5, <1>7, <1>8 DEF Next, Progress, Idle

\* A run overshoots its cost budget by one superstep's cost at most.
THEOREM CostOvershoot == Spec => []OvershootBounded
<1>1. TypeInv /\ CostInv => OvershootBounded
  <2> SUFFICES ASSUME TypeInv, CostInv PROVE OvershootBounded
    OBVIOUS
  <2>1. MaxNodeCost * Cardinality(running) \in Nat
    BY TasksFinite, RunAssumption DEF RunAssumption, TypeInv
  <2>2. MaxNodeCost * Cardinality(tasks) \in Nat
    BY TasksFinite, RunAssumption DEF RunAssumption, TypeInv
  <2> QED
    BY <2>1, <2>2, RunAssumption
    DEF RunAssumption, CostInv, OvershootBounded, TypeInv, TypeOK
<1> QED
  BY <1>1, InitType, NextType, InitCost, NextCost, PTL DEF Spec

\* A run that ended "ok" is within its cost budget.
THEOREM OkRunsWithinBudget == Spec => []OkWithinBudget
<1>1. CostInv => OkWithinBudget
  BY DEF CostInv, OkWithinBudget
<1> QED
  BY <1>1, InitType, NextType, InitCost, NextCost, PTL DEF Spec

\* No superstep is dispatched by a run that is over its cost budget or has an
\* exception to report.
THEOREM NoDispatchOverBudget == Spec => DispatchWithinBudget
<1>1. TypeInv /\ CostInv /\ [Next]_vars
        => [steps' > steps => cost <= CostBudget /\ raised = {}]_vars
  <2> SUFFICES ASSUME TypeInv, CostInv, [Next]_vars, steps' > steps
               PROVE  cost <= CostBudget /\ raised = {}
    BY DEF vars
  <2>1. CASE StartSuperstep
    BY <2>1 DEF StartSuperstep, SuperstepOver, CostInv
  <2>2. CASE BeginStream
    BY <2>2, RunAssumption DEF RunAssumption, BeginStream, TypeInv, Fresh
  <2>3. CASE steps' = steps
    BY <2>3 DEF TypeInv, TypeOK
  <2>4. StartSuperstep \/ BeginStream \/ steps' = steps
    BY DEF Next, Progress, Idle, vars, stepVars, Compile, RejectStart, BeginCancelled,
           Cancel, Return, Raise, Consume, ObserveRaise, WriteConflict, Finish,
           RecursionExceeded, RecordTelemetry, RecordManifest, RecordTermination, Crash
  <2> QED
    BY <2>1, <2>2, <2>3, <2>4
<1> QED
  BY <1>1, InitType, NextType, InitCost, NextCost, PTL DEF Spec, DispatchWithinBudget

-----------------------------------------------------------------------------
(* Cancellation. The superstep a cancellation slips in front of cannot end  *)
(* without a chunk, and that chunk's check stops the run.                   *)

CancelInv ==
    phase = "stream" /\ cancelled =>
        /\ steps <= cancelStep + 1
        /\ steps = cancelStep + 1 => ~SuperstepOver

LEMMA NextCancel == TypeInv /\ CancelInv /\ [Next]_vars => CancelInv'
<1> SUFFICES ASSUME TypeInv, CancelInv, [Next]_vars, phase' = "stream", cancelled'
             PROVE  /\ steps' <= cancelStep' + 1
                    /\ steps' = cancelStep' + 1 => ~SuperstepOver'
  BY DEF CancelInv
<1>0. steps \in Nat /\ cancelStep \in Nat
  BY DEF TypeInv, TypeOK
<1>1. CASE \E n \in Node : Return(n) \/ Raise(n)
  <2>1. PICK n \in Node : Return(n) \/ Raise(n)
    BY <1>1
  <2>2. /\ UNCHANGED <<phase, cancelled, steps, cancelStep>>
        /\ emitted' # {} \/ raised' # {}
    BY <2>1 DEF Return, Raise, recordVars, history
  <2> QED
    BY <2>2 DEF CancelInv, SuperstepOver
<1>2. CASE StartSuperstep
  <2>1. SuperstepOver /\ cancelled /\ cancelStep' = cancelStep
    BY <1>2 DEF StartSuperstep
  <2>2. steps <= cancelStep
    BY <1>0, <2>1 DEF CancelInv, SuperstepOver
  <2>3. steps' \in Nat /\ steps' <= steps + 1
    BY <1>0, <1>2 DEF StartSuperstep
  <2>4. running' # {}
    BY <1>2 DEF StartSuperstep
  <2> QED
    BY <1>0, <2>1, <2>2, <2>3, <2>4 DEF SuperstepOver
<1>3. CASE Cancel
  BY <1>0, <1>3 DEF Cancel, stepVars
<1>4. CASE \E n \in Node : Consume(n)
  BY <1>4 DEF Consume, StopWith
<1>5. CASE BeginStream
  BY <1>5 DEF BeginStream
<1>6. CASE UNCHANGED vars
  BY <1>6 DEF vars, recordVars, stepVars, history, CancelInv, SuperstepOver
<1>7. CASE ~UNCHANGED vars /\ ~StartSuperstep /\ ~Cancel /\ ~BeginStream
           /\ ~(\E n \in Node : Return(n) \/ Raise(n) \/ Consume(n))
  BY <1>7 DEF Next, Progress, Idle, Compile, RejectStart, BeginCancelled, ObserveRaise,
     WriteConflict, Finish, RecursionExceeded, RecordTelemetry, RecordManifest,
     RecordTermination, Crash, StopWith
<1> QED
  BY <1>1, <1>2, <1>3, <1>4, <1>5, <1>6, <1>7

\* At most one superstep starts after the first Ctrl+C.
THEOREM CancellationIsPrompt == Spec => []CancellationPrompt
<1>1. Init => CancelInv
  BY DEF Init, CancelInv
<1>2. CancelInv => CancellationPrompt
  BY DEF CancelInv, CancellationPrompt
<1> QED
  BY <1>1, <1>2, InitType, NextType, NextCancel, PTL DEF Spec

-----------------------------------------------------------------------------
(* The records. Up to "stopping" all three are as the run started; from then *)
(* on each phase has written one more of them, and the status stands.       *)

RecordInv ==
    /\ phase \in {"setup", "compiled", "stream", "stopping"}
          => record.telemetry = "running"
    /\ phase \in {"setup", "compiled", "stream", "stopping", "telemetry"}
          => record.manifest = "running"
    /\ phase # "done" /\ phase # "crashed" => ~record.termination
    /\ phase \in {"telemetry", "manifest"} => record.telemetry = status
    /\ phase = "manifest" => record.manifest = status
    /\ phase \in {"stopping", "telemetry", "manifest"} => status # "running"
    /\ "running" \notin raised
    /\ RecordsAgree

LEMMA InitRecord == Init => RecordInv
BY DEF Init, RecordInv, RecordsAgree

\* A record is written in its own phase.
LEMMA WriteRecord ==
    ASSUME TypeInv, RecordInv, RecordTelemetry \/ RecordManifest \/ RecordTermination
    PROVE  RecordInv'
<1>0. record \in [telemetry : Statuses, manifest : Statuses, termination : BOOLEAN]
  BY DEF TypeInv, TypeOK
<1>1. CASE RecordTelemetry
  <2>1. /\ record'.telemetry = status /\ record'.manifest = record.manifest
        /\ record'.termination = record.termination
        /\ phase = "stopping" /\ phase' = "telemetry"
        /\ status' = status /\ raised' = raised
    BY <1>0, <1>1 DEF RecordTelemetry, stepVars
  <2> QED
    BY <2>1 DEF RecordInv, RecordsAgree
<1>2. CASE RecordManifest
  <2>1. /\ record'.telemetry = record.telemetry /\ record'.manifest = status
        /\ record'.termination = record.termination
        /\ phase = "telemetry" /\ phase' = "manifest"
        /\ status' = status /\ raised' = raised
    BY <1>0, <1>2 DEF RecordManifest, stepVars
  <2> QED
    BY <2>1 DEF RecordInv, RecordsAgree
<1>3. CASE RecordTermination
  <2>1. /\ record'.telemetry = record.telemetry /\ record'.manifest = record.manifest
        /\ record'.termination
        /\ phase = "manifest" /\ phase' = "done"
        /\ status' = status /\ raised' = raised
    BY <1>0, <1>3 DEF RecordTermination, stepVars
  <2> QED
    BY <2>1 DEF RecordInv, RecordsAgree
<1> QED
  BY <1>1, <1>2, <1>3

LEMMA NextRecord == TypeInv /\ RecordInv /\ [Next]_vars => RecordInv'
<1> SUFFICES ASSUME TypeInv, RecordInv, [Next]_vars PROVE RecordInv'
  OBVIOUS
<1>1. CASE RecordTelemetry \/ RecordManifest \/ RecordTermination
  BY <1>1, WriteRecord
<1>2. CASE \E n \in Node : Raise(n)
  <2>1. PICK n \in Node : Raise(n)
    BY <1>2
  <2>2. "running" \notin Failures(n)
    BY DEF Failures
  <2>3. "running" \notin raised' /\ UNCHANGED <<phase, status, record>>
    BY <2>1, <2>2 DEF Raise, recordVars, RecordInv
  <2> QED
    BY <2>3 DEF RecordInv, RecordsAgree
<1>3. CASE /\ UNCHANGED <<phase, status, record, raised>>
  BY <1>3 DEF RecordInv, RecordsAgree
<1>4. CASE /\ UNCHANGED <<record, raised>>
           /\ \/ /\ phase = "setup" /\ phase' \in {"compiled", "aborted"}
              \/ /\ phase = "compiled" /\ phase' = "stream"
              \/ /\ phase \in {"compiled", "stream"} /\ phase' = "stopping"
                 /\ status' # "running"
              \/ phase' = "crashed"
  BY <1>4 DEF RecordInv, RecordsAgree
<1>5. CASE Compile \/ RejectStart \/ BeginStream \/ Crash \/ BeginCancelled
           \/ WriteConflict \/ Finish \/ RecursionExceeded
  BY <1>4, <1>5 DEF Compile, RejectStart, BeginStream, Crash, BeginCancelled,
     WriteConflict, Finish, RecursionExceeded, SuperstepOver, StopWith, stepVars
<1>6. CASE ObserveRaise
  BY <1>4, <1>6 DEF ObserveRaise, StopWith, stepVars, RecordInv
<1>7. CASE \E n \in Node : Consume(n)
  BY <1>3, <1>4, <1>7 DEF Consume, StopWith
<1>8. CASE Cancel \/ StartSuperstep \/ UNCHANGED vars \/ \E n \in Node : Return(n)
  BY <1>3, <1>8 DEF Cancel, StartSuperstep, vars, recordVars, stepVars, Return
<1> QED
  BY <1>1, <1>2, <1>5, <1>6, <1>7, <1>8 DEF Next, Progress, Idle

\* Whenever the process dies, a final status in the manifest is the one in
\* telemetry.db, and termination.json comes after both.
THEOREM RecordsAlwaysAgree == Spec => []RecordsAgree
<1>1. RecordInv => RecordsAgree
  BY DEF RecordInv
<1> QED
  BY <1>1, InitType, NextType, InitRecord, NextRecord, PTL DEF Spec

-----------------------------------------------------------------------------
(* Joins. What a waiting edge has seen has returned since its target last   *)
(* started, provided that nothing else starts the target: a run entered at  *)
(* it, a branch or a back-edge into it start it early.                      *)

JoinInv ==
    /\ triggered \intersect JoinTargets = {}
    /\ \A t \in JoinTargets : arrived[t] \subseteq since[t]

\* No node dispatches a join target by itself.
LEMMA DispatchNoJoin ==
    ASSUME JoinsOnlyWait, NEW n \in Node, NEW l,
           n \in Conditional => l \in DOMAIN Branch[n]
    PROVE  Dispatch(n, l) \intersect JoinTargets = {}
<1>1. EdgeTargets(n) \intersect JoinTargets = {}
  BY DEF EdgeTargets
<1>2. BackEdges(n) \intersect JoinTargets = {}
  BY DEF BackEdges, LoopsFrom, JoinsOnlyWait
<1>3. n \in Conditional => Branch[n][l] \notin JoinTargets
  BY DEF JoinsOnlyWait
<1> QED
  BY <1>1, <1>2, <1>3 DEF Dispatch

\* Of the join targets, those start whose waiting edge is complete.
LEMMA FrontierJoins ==
    ASSUME JoinInv, NEW t \in JoinTargets
    PROVE  t \in Frontier <=> arrived[t] = Sources(t)
BY DEF JoinInv, Frontier, Joins

LEMMA InitJoin == Init => JoinInv
BY DEF Init, JoinInv

LEMMA ReturnJoin ==
    ASSUME JoinsOnlyWait, TypeInv, JoinInv, NEW n \in Node, Return(n)
    PROVE  JoinInv'
<1>1. PICK l \in Labels(n) : triggered' = triggered \union Dispatch(n, l)
  BY DEF Return
<1>2. triggered' \intersect JoinTargets = {}
  BY <1>1, LabelsAreBranches, DispatchNoJoin DEF JoinInv, TypeInv
<1>3. \A t \in JoinTargets :
         /\ arrived'[t] \subseteq arrived[t] \union {n}
         /\ since'[t] = since[t] \union {n}
  BY DEF Return
<1> QED
  BY <1>2, <1>3 DEF JoinInv

LEMMA StartSuperstepJoin ==
    ASSUME JoinInv, StartSuperstep
    PROVE  JoinInv'
<1>1. triggered' = {}
  BY DEF StartSuperstep
<1>2. ASSUME NEW t \in JoinTargets
      PROVE  arrived'[t] \subseteq since'[t]
  <2>1. CASE t \in Frontier
    <3>1. t \in Joins
      BY <2>1, FrontierJoins DEF Joins
    <3> QED
      BY <3>1 DEF StartSuperstep
  <2>2. CASE t \notin Frontier
    <3>1. arrived'[t] = arrived[t] /\ since'[t] = since[t]
      BY <2>2 DEF StartSuperstep, Frontier
    <3> QED
      BY <3>1 DEF JoinInv
  <2> QED
    BY <2>1, <2>2
<1> QED
  BY <1>1, <1>2 DEF JoinInv

LEMMA NextJoin ==
    ASSUME JoinsOnlyWait
    PROVE  TypeInv /\ JoinInv /\ [Next]_vars => JoinInv'
<1> SUFFICES ASSUME TypeInv, JoinInv, [Next]_vars PROVE JoinInv'
  OBVIOUS
<1>1. CASE \E n \in Node : Return(n)
  BY <1>1, ReturnJoin
<1>2. CASE StartSuperstep
  BY <1>2, StartSuperstepJoin
<1>3. CASE UNCHANGED <<triggered, arrived, since>>
  BY <1>3 DEF JoinInv
<1>4. \/ \E n \in Node : Return(n)
      \/ StartSuperstep
      \/ UNCHANGED <<triggered, arrived, since>>
  BY DEF Next, Progress, Idle, vars, stepVars, history, Compile, RejectStart,
         BeginCancelled, BeginStream, Cancel, Raise, Consume, ObserveRaise,
         WriteConflict, Finish, RecursionExceeded, RecordTelemetry, RecordManifest,
         RecordTermination, Crash
<1> QED
  BY <1>1, <1>2, <1>3, <1>4

\* In a graph where only waiting edges lead to a join target, the target never
\* starts before all of its sources have returned since its last start.
THEOREM JoinsWait ==
    ASSUME JoinsOnlyWait
    PROVE  Spec => JoinWaitsForAll
<1>1. TypeInv /\ JoinInv /\ [Next]_vars
        => [\A t \in JoinTargets :
               steps' > steps /\ t \in tasks' => Sources(t) \subseteq since[t]]_vars
  <2> SUFFICES ASSUME TypeInv, JoinInv, [Next]_vars, NEW t \in JoinTargets,
                      steps' > steps, t \in tasks'
               PROVE  Sources(t) \subseteq since[t]
    BY DEF vars
  <2>1. CASE StartSuperstep
    <3>1. t \in Frontier
      BY <2>1 DEF StartSuperstep
    <3> QED
      BY <3>1, FrontierJoins DEF JoinInv
  <2>2. CASE BeginStream
    BY <2>2 DEF BeginStream, JoinsOnlyWait, TypeInv, TypeOK
  <2>3. CASE steps' = steps
    BY <2>3 DEF TypeInv, TypeOK
  <2>4. StartSuperstep \/ BeginStream \/ steps' = steps
    BY DEF Next, Progress, Idle, vars, stepVars, Compile, RejectStart, BeginCancelled,
           Cancel, Return, Raise, Consume, ObserveRaise, WriteConflict, Finish,
           RecursionExceeded, RecordTelemetry, RecordManifest, RecordTermination, Crash
  <2> QED
    BY <2>1, <2>2, <2>3, <2>4
<1> QED
  BY <1>1, InitType, NextType, InitJoin, NextJoin, PTL DEF Spec, JoinWaitsForAll

-----------------------------------------------------------------------------
(* The batch: where an item is. A submitted item is pending until wait()    *)
(* returns it, and finished from then on; no other item was ever touched.  *)

ItemInv(i) ==
    /\ i >= next => i \notin pending \union done /\ outcome[i] = "none"
    /\ i < next /\ i \notin pending \union done => results[i] = outcome[i] /\ outcome[i] # "none"
    /\ i \in working => i \in pending /\ outcome[i] = "none"
    /\ i \in done => outcome[i] # "none"
    /\ started[i] = (IF i \in working \/ outcome[i] # "none" THEN 1 ELSE 0)
    /\ pc # "returned" /\ i >= next => results[i] = "none"

BatchInv ==
    /\ BatchTypeOK
    /\ \A i \in Item : ItemInv(i)
    /\ Cardinality(pending) <= MaxConcurrency
    /\ pc = "submit" => HasRoom
    /\ pc # "collect" => done = {}
    /\ pc \in {"gather", "returned"} => pending = {} /\ next > Items

\* A set of items is finite.
LEMMA ItemsFinite ==
    ASSUME NEW S \in SUBSET Item
    PROVE  IsFiniteSet(S) /\ Cardinality(S) \in Nat
<1>1. IsFiniteSet(Item)
  BY FS_Interval, BatchAssumption DEF BatchAssumption, Item
<1> QED
  BY <1>1, FS_Subset, FS_CardinalityType

LEMMA InitBatch == BatchInit => BatchInv
<1> SUFFICES ASSUME BatchInit PROVE BatchInv
  OBVIOUS
<1>1. Cardinality({}) = 0
  BY FS_EmptySet
<1>2. BatchTypeOK
  <2>1. event \in BOOLEAN
    BY Zenon DEF BatchInit
  <2>2. next \in 1..(Items + 1)
    BY BatchAssumption DEF BatchAssumption, BatchInit
  <2> QED
    BY <2>1, <2>2 DEF BatchInit, BatchTypeOK, PCs, Maybe, Outcomes
<1>3. ASSUME NEW i \in Item PROVE ItemInv(i)
  BY <1>3 DEF BatchInit, ItemInv, Item
<1> QED
  BY <1>1, <1>2, <1>3, BatchAssumption DEF BatchAssumption, BatchInit, BatchInv

LEMMA SubmitBatch ==
    ASSUME BatchInv, Submit
    PROVE  BatchInv'
<1>1. next \in Item /\ next \notin pending
  <2>1. next \in Item
    BY BatchAssumption DEF BatchAssumption, BatchInv, Submit, HasRoom, BatchTypeOK, Item
  <2>2. ItemInv(next) /\ next >= next
    BY <2>1 DEF BatchInv, Item
  <2> QED
    BY <2>1, <2>2 DEF ItemInv
<1>2. BatchTypeOK'
  <2>1. next + 1 \in 1..(Items + 1)
    BY <1>1, BatchAssumption DEF BatchAssumption, Item
  <2> QED
    BY <1>1, <2>1 DEF BatchInv, BatchTypeOK, Submit, PCs
<1>3. ASSUME NEW i \in Item PROVE ItemInv(i)'
  <2>1. ItemInv(i) /\ i \in Int /\ next \in Int
    BY <1>1 DEF BatchInv, Item
  <2> QED
    BY <1>1, <2>1 DEF ItemInv, Submit, BatchInv
<1>4. Cardinality(pending') = Cardinality(pending) + 1
  BY <1>1, ItemsFinite, FS_AddElement DEF BatchInv, BatchTypeOK, Submit
<1>5. Cardinality(pending) \in Nat /\ Cardinality(pending) < MaxConcurrency
  BY ItemsFinite DEF BatchInv, BatchTypeOK, Submit, HasRoom
<1>6. Cardinality(pending') <= MaxConcurrency
  BY <1>4, <1>5, BatchAssumption DEF BatchAssumption
<1> QED
  BY <1>2, <1>3, <1>6 DEF BatchInv, Submit

LEMMA WaitBatch ==
    ASSUME BatchInv, Wait
    PROVE  BatchInv'
<1>1. pending' \subseteq pending /\ pending \subseteq Item
  BY DEF Wait, BatchInv, BatchTypeOK
<1>2. BatchTypeOK'
  BY <1>1 DEF BatchInv, BatchTypeOK, Wait, PCs
<1>3. ASSUME NEW i \in Item PROVE ItemInv(i)'
  BY DEF ItemInv, Wait, BatchInv
<1>4. Cardinality(pending') <= Cardinality(pending)
  BY <1>1, ItemsFinite, FS_Subset
<1>5. Cardinality(pending') <= MaxConcurrency
  BY <1>1, <1>4, ItemsFinite, BatchAssumption DEF BatchAssumption, BatchInv
<1> QED
  BY <1>2, <1>3, <1>5 DEF BatchInv, Wait

LEMMA CollectBatch ==
    ASSUME BatchInv, NEW j \in Item, Collect(j)
    PROVE  BatchInv'
<1>1. BatchTypeOK'
  BY DEF BatchInv, BatchTypeOK, Collect, Maybe, Outcomes
<1>2. ASSUME NEW i \in Item PROVE ItemInv(i)'
  <2>1. ItemInv(i) /\ ItemInv(j)
    BY DEF BatchInv
  <2>2. results'[i] = IF i = j THEN outcome[i] ELSE results[i]
    BY DEF Collect, BatchInv, BatchTypeOK
  <2> QED
    BY <2>1, <2>2 DEF ItemInv, Collect
<1> QED
  BY <1>1, <1>2 DEF BatchInv, Collect, HasRoom

LEMMA GatherBatch ==
    ASSUME BatchInv, Gather
    PROVE  BatchInv'
<1>1. BatchTypeOK'
  BY DEF BatchInv, BatchTypeOK, Gather, Maybe, Outcomes, PCs
<1>2. ASSUME NEW i \in Item PROVE ItemInv(i)'
  <2>1. ItemInv(i) /\ i < next
    BY BatchAssumption DEF BatchAssumption, BatchInv, Gather, Item, BatchTypeOK
  <2> QED
    BY <2>1 DEF ItemInv, Gather, BatchInv
<1> QED
  BY <1>1, <1>2 DEF BatchInv, Gather

LEMMA PoolBatch ==
    ASSUME BatchInv, NEW j \in Item, TakeItem(j) \/ EndItem(j)
    PROVE  BatchInv'
<1>1. ItemInv(j)
  BY DEF BatchInv
<1>2. CASE TakeItem(j)
  <2>1. started[j] = 0 /\ started' = [started EXCEPT ![j] = 1]
    BY <1>1, <1>2 DEF TakeItem, ItemInv, BatchInv, BatchTypeOK
  <2>2. BatchTypeOK'
    BY <1>2, <2>1 DEF BatchInv, BatchTypeOK, TakeItem
  <2>3. ASSUME NEW i \in Item PROVE ItemInv(i)'
    <3>1. ItemInv(i)
      BY DEF BatchInv
    <3>2. started'[i] = IF i = j THEN 1 ELSE started[i]
      BY <2>1 DEF BatchInv, BatchTypeOK
    <3> QED
      BY <1>2, <3>1, <3>2 DEF ItemInv, TakeItem
  <2> QED
    BY <1>2, <2>2, <2>3 DEF BatchInv, TakeItem, HasRoom
<1>3. CASE EndItem(j)
  <2>1. PICK o \in Outcomes : outcome' = [outcome EXCEPT ![j] = o]
    BY <1>3 DEF EndItem, Outcomes
  <2>2. BatchTypeOK'
    BY <1>3, <2>1 DEF BatchInv, BatchTypeOK, EndItem, Maybe
  <2>3. ASSUME NEW i \in Item PROVE ItemInv(i)'
    <3>1. ItemInv(i) /\ j \in pending
      BY <1>1, <1>3 DEF BatchInv, ItemInv, EndItem
    <3>2. outcome'[i] = IF i = j THEN o ELSE outcome[i]
      BY <2>1 DEF BatchInv, BatchTypeOK
    <3>3. o # "none"
      BY DEF Outcomes
    <3> QED
      BY <1>1, <1>3, <3>1, <3>2, <3>3 DEF ItemInv, EndItem
  <2> QED
    BY <1>3, <2>2, <2>3 DEF BatchInv, EndItem, HasRoom
<1> QED
  BY <1>2, <1>3

\* Steps of the main thread that only move it, and those that move nothing.
LEMMA OtherBatch ==
    ASSUME BatchInv,
           CheckCancelled \/ EndFill \/ EndCollect \/ CancelBatch \/ UNCHANGED batchVars
    PROVE  BatchInv'
<1>1. BatchTypeOK'
  <2>1. CASE CancelBatch
    BY <2>1 DEF BatchInv, BatchTypeOK, CancelBatch
  <2>2. CASE CheckCancelled \/ EndFill \/ EndCollect
    BY <2>2 DEF BatchInv, BatchTypeOK, PCs, CheckCancelled, EndFill, EndCollect
  <2>3. CASE UNCHANGED batchVars
    BY <2>3 DEF BatchInv, BatchTypeOK, batchVars
  <2> QED
    BY <2>1, <2>2, <2>3
<1>2. UNCHANGED <<next, pending, done, outcome, working, started, results>>
  BY DEF CheckCancelled, EndFill, EndCollect, CancelBatch, batchVars
<1>3. ASSUME NEW i \in Item PROVE ItemInv(i)'
  <2>1. pc = "returned" => pc' = "returned"
    BY DEF CheckCancelled, EndFill, EndCollect, CancelBatch, batchVars
  <2> QED
    BY <1>2, <2>1 DEF BatchInv, ItemInv
<1>4. pc' = "submit" => HasRoom'
  BY <1>2 DEF BatchInv, HasRoom, CheckCancelled, EndFill, EndCollect, CancelBatch, batchVars
<1>5. pc' # "collect" => done' = {}
  BY DEF BatchInv, CheckCancelled, EndFill, EndCollect, CancelBatch, batchVars
<1>6. pc' \in {"gather", "returned"} => pending' = {} /\ next' > Items
  <2>1. CASE EndFill /\ pending = {}
    <3>1. Cardinality(pending) = 0
      BY <2>1, FS_EmptySet
    <3> QED
      BY <2>1, <3>1, BatchAssumption
      DEF BatchAssumption, EndFill, HasRoom, BatchInv, BatchTypeOK
  <2>2. CASE ~(EndFill /\ pending = {})
    BY <2>2 DEF BatchInv, CheckCancelled, EndFill, EndCollect, CancelBatch, batchVars
  <2> QED
    BY <2>1, <2>2
<1> QED
  BY <1>1, <1>2, <1>3, <1>4, <1>5, <1>6 DEF BatchInv

LEMMA NextBatch == BatchInv /\ [BatchNext]_batchVars => BatchInv'
<1> SUFFICES ASSUME BatchInv, [BatchNext]_batchVars PROVE BatchInv'
  OBVIOUS
<1>1. CASE \E i \in Item : Collect(i) \/ TakeItem(i) \/ EndItem(i)
  BY <1>1, CollectBatch, PoolBatch
<1>2. CASE Submit
  BY <1>2, SubmitBatch
<1>3. CASE Wait
  BY <1>3, WaitBatch
<1>4. CASE Gather
  BY <1>4, GatherBatch
<1>5. CASE CheckCancelled \/ EndFill \/ EndCollect \/ CancelBatch \/ UNCHANGED batchVars
  BY <1>5, OtherBatch
<1> QED
  BY <1>1, <1>2, <1>3, <1>4, <1>5
  DEF BatchNext, MainStep, PoolStep, SkipCancelled, Returned

LEMMA BatchInvariant == BatchSpec => []BatchInv
BY InitBatch, NextBatch, PTL DEF BatchSpec

\* Every variable of a batch keeps its type.
THEOREM BatchTypeCorrect == BatchSpec => []BatchTypeOK
<1>1. BatchInv => BatchTypeOK
  BY DEF BatchInv
<1> QED
  BY <1>1, BatchInvariant, PTL

\* Each item's own result is at its place when the batch returns.
THEOREM ResultsAreOrdered == BatchSpec => []ResultsInOrder
<1>1. BatchInv => ResultsInOrder
  <2> SUFFICES ASSUME BatchInv, pc = "returned", NEW i \in Item
               PROVE  /\ i < next => started[i] = 1 /\ results[i] = outcome[i]
                      /\ i >= next => started[i] = 0 /\ results[i] = "cancelled"
                      /\ working = {}
    BY DEF ResultsInOrder
  <2>1. pending = {} /\ done = {} /\ i < next
    BY BatchAssumption DEF BatchAssumption, BatchInv, BatchTypeOK, Item
  <2>2. working = {}
    BY <2>1 DEF BatchInv, ItemInv, BatchTypeOK
  <2>3. ItemInv(i) /\ i \in Int /\ next \in Int
    BY DEF BatchInv, BatchTypeOK, Item
  <2> QED
    BY <2>1, <2>2, <2>3 DEF ItemInv
<1> QED
  BY <1>1, BatchInvariant, PTL

\* The pool never runs more items at a time than max_concurrency.
THEOREM PoolIsBounded == BatchSpec => []ConcurrencyBounded
<1>1. BatchInv => ConcurrencyBounded
  <2> SUFFICES ASSUME BatchInv PROVE ConcurrencyBounded
    OBVIOUS
  <2>1. working \subseteq pending /\ pending \subseteq Item
    BY DEF BatchInv, ItemInv, BatchTypeOK
  <2>2. Cardinality(working) <= Cardinality(pending)
    BY <2>1, ItemsFinite, FS_Subset
  <2> QED
    BY <2>1, <2>2, ItemsFinite, BatchAssumption
    DEF BatchAssumption, BatchInv, ConcurrencyBounded, BatchTypeOK
<1> QED
  BY <1>1, BatchInvariant, PTL

=============================================================================
