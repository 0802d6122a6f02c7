---------------------------- MODULE RunExecutor ----------------------------
(***************************************************************************)
(* One call of run_graph (backend/runtime/executor.py): the run directory's *)
(* records, the supersteps LangGraph streams, the node bodies running in    *)
(* its worker threads, and the checks the main thread makes at every chunk. *)
(* Within a superstep every triggered node runs in a thread of its own; a   *)
(* node that returns leaves a chunk the main thread consumes later.         *)
(***************************************************************************)
EXTENDS WorkflowGraph

CONSTANTS
    StartNodes,      \* the values of start_at_node (or the entry) a run is given
    Carried,         \* Carried[s]: the decisions and iteration_counts that the state a run
                     \* is entered at s with may bring: a new one, a snapshot, a paused one
    CostBudget,      \* metadata.cost_budget_usd
    MaxNodeCost,     \* the most one execution of a node costs
    RecursionLimit   \* recursion_limit

Approvals == {n \in Node : Kind[n] = "approval"}
Decisions == {"none", "approved", "rejected"}

ASSUME RunAssumption ==
    /\ \A s \in StartNodes :
          Carried[s] \subseteq [decision : [Approvals -> Decisions], counts : [DOMAIN Loops -> Nat]]
    /\ CostBudget \in Nat
    /\ MaxNodeCost \in Nat
    /\ RecursionLimit \in Nat \ {0}

VARIABLES
    start,       \* the node the run is entered at
    decision,    \* decision[n]: what n's approval_state_key holds
    phase,       \* where run_graph is
    status,      \* RunResult.status
    record,      \* telemetry.db, run_manifest.json and termination.json of the run
    cancelled,   \* CancellationController._event
    steps,       \* supersteps started
    tasks,       \* the nodes of the current superstep
    running,     \* those whose body has not returned yet
    emitted,     \* those that returned and whose chunk was not consumed yet
    raised,      \* the statuses of the exceptions node bodies raised
    triggered,   \* nodes this superstep has dispatched for the next
    arrived,     \* arrived[t]: the sources the waiting edge into t has seen
    bumped,      \* <<node, loop>> counters written in this superstep
    crossed,     \* loops whose back-edge this superstep has dispatched
    counts,      \* state["iteration_counts"]
    cost,        \* BudgetEnforcer.cost_accum_usd
    late,        \* latency_ms() > latency_budget_ms
    paused,      \* nodes that wrote approval.json or pending_subgraph_approval.json
    taken,       \* history: how often each back-edge was taken (up to max + 1)
    ran,         \* history: nodes some superstep has started
    since,       \* history: nodes that returned since a join target last started
    cancelStep   \* history: the superstep cancel() was called in

recordVars == <<phase, status, record>>
stepVars == <<steps, tasks, running, emitted, raised, triggered, bumped, crossed>>
history == <<taken, ran, since, cancelStep>>
vars == <<start, decision, recordVars, cancelled, stepVars, arrived, counts,
          cost, late, paused, history>>

Phases == {"setup", "compiled", "stream", "stopping", "telemetry", "manifest",
           "done", "aborted", "crashed"}
Ended == {"done", "aborted", "crashed"}
Statuses == {"running", "ok", "cancelled", "pending_approval", "budget_exceeded",
             "MaxIterationsError", "RoutingError", "SubgraphError", "error"}

TypeOK ==
    /\ start \in StartNodes
    /\ decision \in [Approvals -> Decisions]
    /\ phase \in Phases
    /\ status \in Statuses
    /\ record \in [telemetry : Statuses, manifest : Statuses, termination : BOOLEAN]
    /\ cancelled \in BOOLEAN
    /\ steps \in Nat
    /\ tasks \subseteq Node
    /\ running \subseteq tasks
    /\ emitted \subseteq tasks \ running
    /\ raised \subseteq Statuses
    /\ triggered \subseteq Node
    /\ arrived \in [JoinTargets -> SUBSET Node]
    /\ bumped \subseteq Node \X DOMAIN Loops
    /\ crossed \subseteq DOMAIN Loops
    /\ counts \in [DOMAIN Loops -> Nat]
    /\ cost \in Nat
    /\ late \in BOOLEAN
    /\ paused \subseteq Node
    /\ taken \in [DOMAIN Loops -> Nat]
    /\ ran \subseteq Node
    /\ since \in [JoinTargets -> SUBSET Node]
    /\ cancelStep \in Nat

\* The run directory exists, the manifest and telemetry.db say "running".
Init ==
    /\ start \in StartNodes
    /\ \E c \in Carried[start] : decision = c.decision /\ counts = c.counts
    /\ phase = "setup"
    /\ status = "running"
    /\ record = [telemetry |-> "running", manifest |-> "running", termination |-> FALSE]
    /\ cancelled = FALSE
    /\ steps = 0
    /\ tasks = {} /\ running = {} /\ emitted = {} /\ raised = {}
    /\ triggered = {} /\ bumped = {} /\ crossed = {}
    /\ arrived = [t \in JoinTargets |-> {}]
    /\ cost = 0
    /\ late = FALSE
    /\ paused = {}
    /\ taken = [i \in DOMAIN Loops |-> 0]
    /\ ran = {}
    /\ since = [t \in JoinTargets |-> {}]
    /\ cancelStep = 0

-----------------------------------------------------------------------------
(* Before the stream.                                                      *)

Compile ==
    /\ phase = "setup"
    /\ start \in Node
    /\ phase' = "compiled"
    /\ UNCHANGED <<start, decision, status, record, cancelled, stepVars, arrived,
                   counts, cost, late, paused, history>>

\* BuilderValidationError leaves run_graph before its try block.
RejectStart ==
    /\ phase = "setup"
    /\ start \notin Node
    /\ phase' = "aborted"
    /\ UNCHANGED <<start, decision, status, record, cancelled, stepVars, arrived,
                   counts, cost, late, paused, history>>

\* Control leaves the stream with status s; nothing else is dispatched.
StopWith(s) == phase' = "stopping" /\ status' = s

BeginCancelled ==
    /\ phase = "compiled"
    /\ cancelled
    /\ StopWith("cancelled")
    /\ UNCHANGED <<start, decision, record, cancelled, stepVars, arrived, counts,
                   cost, late, paused, history>>

BeginStream ==
    /\ phase = "compiled"
    /\ ~cancelled
    /\ phase' = "stream"
    /\ steps' = 1
    /\ tasks' = {start} /\ running' = {start}
    /\ ran' = {start}
    /\ UNCHANGED <<start, decision, status, record, cancelled, emitted, raised,
                   triggered, bumped, crossed, arrived, counts, cost, late, paused,
                   taken, since, cancelStep>>

\* The first Ctrl+C, in another thread.
Cancel ==
    /\ phase \in {"setup", "compiled", "stream"}
    /\ ~cancelled
    /\ cancelled' = TRUE
    /\ cancelStep' = steps
    /\ UNCHANGED <<start, decision, recordVars, stepVars, arrived, counts, cost, late,
                   paused, taken, ran, since>>

-----------------------------------------------------------------------------
(* Node bodies, in the worker threads of the current superstep.            *)

\* A gate reads a verdict and a router a token that other nodes wrote: any
\* outcome of theirs. An approval node returns only on a decision.
Labels(n) ==
    CASE Kind[n] = "approval" -> {decision[n]} \ {"none"}
      [] Kind[n] \in {"gate", "router"} -> DOMAIN Branch[n]
      [] OTHER -> {"next"}

\* Seeded defect: the comparison lets one more iteration through.
ExhaustedLate(n, l) == \E i \in CountedLoop(n, l) : counts[i] > Loops[i].max

\* The incremented counter would exceed max_iterations.
Exhausted(n, l) == \E i \in CountedLoop(n, l) : counts[i] + 1 > Loops[i].max

\* The statuses the run gets from the exceptions n may raise.
Failures(n) ==
    (IF Kind[n] = "plain" /\ cancelled THEN {"cancelled"} ELSE {})
    \union (IF Kind[n] \in {"plain", "subgraph"} THEN {"error"} ELSE {})
    \union (IF Kind[n] = "subgraph" THEN {"SubgraphError", "pending_approval"} ELSE {})
    \union (IF Kind[n] = "approval" /\ decision[n] = "none"
            THEN {"pending_approval"} ELSE {})
    \union (IF Kind[n] = "router" /\ "default" \notin DOMAIN Branch[n]
            THEN {"RoutingError"} ELSE {})
    \union (IF \E l \in Labels(n) : Exhausted(n, l)
            THEN {"MaxIterationsError"} ELSE {})

\* The body ends: its provider cost is charged at once, time has passed.
Work(n) ==
    /\ phase \in {"stream", "stopping"}
    /\ n \in running
    /\ running' = running \ {n}
    /\ \E c \in 0..(IF n \in Conditional THEN 0 ELSE MaxNodeCost) : cost' = cost + c
    /\ late' \in {late, TRUE}

Return(n) ==
    /\ Work(n)
    /\ emitted' = emitted \union {n}
    /\ \E l \in Labels(n) :
          /\ ~Exhausted(n, l)
          /\ triggered' = triggered \union Dispatch(n, l)
          /\ bumped' = bumped \union ({n} \X CountedLoop(n, l))
          /\ crossed' = crossed \union
                {i \in LoopsFrom(n) : Loops[i].to \in Dispatch(n, l)}
    /\ arrived' = [t \in JoinTargets |->
                      IF n \in Sources(t) THEN arrived[t] \union {n} ELSE arrived[t]]
    /\ since' = [t \in JoinTargets |-> since[t] \union {n}]
    /\ UNCHANGED <<start, decision, recordVars, cancelled, steps, tasks, raised,
                   counts, paused, taken, ran, cancelStep>>

\* A pause writes its artifact before it raises.
Raise(n) ==
    /\ Work(n)
    /\ \E s \in Failures(n) :
          /\ raised' = raised \union {s}
          /\ paused' = IF s = "pending_approval" THEN paused \union {n} ELSE paused
    /\ UNCHANGED <<start, decision, recordVars, cancelled, steps, tasks, emitted,
                   triggered, bumped, crossed, arrived, counts, history>>

-----------------------------------------------------------------------------
(* The main thread: the body of "for chunk in app.stream(...)".            *)

\* Seeded defect: the budget is never exceeded.
NeverOverBudget == FALSE

\* BudgetEnforcer.check
OverBudget == cost > CostBudget \/ late

\* Seeded defect: a chunk is consumed without looking at the cancellation flag.
ConsumeUnchecked(n) ==
    /\ phase = "stream"
    /\ n \in emitted
    /\ emitted' = emitted \ {n}
    /\ IF OverBudget THEN StopWith("budget_exceeded") ELSE UNCHANGED <<phase, status>>
    /\ UNCHANGED <<start, decision, record, cancelled, steps, tasks, running, raised,
                   triggered, bumped, crossed, arrived, counts, cost, late, paused,
                   history>>

Consume(n) ==
    /\ phase = "stream"
    /\ n \in emitted
    /\ emitted' = emitted \ {n}
    /\ \/ cancelled /\ StopWith("cancelled")
       \/ ~cancelled /\ OverBudget /\ StopWith("budget_exceeded")
       \/ ~cancelled /\ ~OverBudget /\ UNCHANGED <<phase, status>>
    /\ UNCHANGED <<start, decision, record, cancelled, steps, tasks, running, raised,
                   triggered, bumped, crossed, arrived, counts, cost, late, paused,
                   history>>

\* An exception of a node body comes out of the stream.
ObserveRaise ==
    /\ phase = "stream"
    /\ \E s \in raised : StopWith(s)
    /\ UNCHANGED <<start, decision, record, cancelled, stepVars, arrived, counts,
                   cost, late, paused, history>>

-----------------------------------------------------------------------------
(* The end of a superstep, when every chunk was consumed.                  *)

SuperstepOver ==
    /\ phase = "stream"
    /\ running = {} /\ emitted = {} /\ raised = {}

Written(n) ==
    Output[n] \union (IF \E i \in DOMAIN Loops : <<n, i>> \in bumped
                      THEN {"iteration_counts"} ELSE {})

\* Two nodes of one superstep wrote one key: LangGraph's InvalidUpdateError.
Conflict == \E n, m \in tasks : n # m /\ Written(n) \intersect Written(m) # {}

\* Seeded defect: a waiting edge fires at its first source.
JoinsAtFirstSource == {t \in JoinTargets : arrived[t] # {}}

Joins == {t \in JoinTargets : arrived[t] = Sources(t)}

Frontier == triggered \union Joins

WriteConflict ==
    /\ SuperstepOver
    /\ Conflict
    /\ StopWith("error")
    /\ UNCHANGED <<start, decision, record, cancelled, stepVars, arrived, counts,
                   cost, late, paused, history>>

\* Nothing left to dispatch: the stream ends and the run is "ok".
Finish ==
    /\ SuperstepOver
    /\ ~Conflict
    /\ Frontier = {}
    /\ StopWith("ok")
    /\ UNCHANGED <<start, decision, record, cancelled, stepVars, arrived, counts,
                   cost, late, paused, history>>

\* Seeded defect: the stream has no superstep limit.
NeverOutOfSteps == FALSE

OutOfSteps == steps >= RecursionLimit

\* GraphRecursionError
RecursionExceeded ==
    /\ SuperstepOver
    /\ ~Conflict
    /\ Frontier # {}
    /\ OutOfSteps
    /\ StopWith("error")
    /\ UNCHANGED <<start, decision, record, cancelled, stepVars, arrived, counts,
                   cost, late, paused, history>>

StartSuperstep ==
    /\ SuperstepOver
    /\ ~Conflict
    /\ Frontier # {}
    /\ ~OutOfSteps
    /\ steps' = IF steps < RecursionLimit THEN steps + 1 ELSE steps
    /\ tasks' = Frontier /\ running' = Frontier
    /\ ran' = ran \union Frontier
    /\ triggered' = {} /\ bumped' = {} /\ crossed' = {}
    /\ arrived' = [t \in JoinTargets |-> IF t \in Joins THEN {} ELSE arrived[t]]
    /\ since' = [t \in JoinTargets |-> IF t \in Frontier THEN {} ELSE since[t]]
    /\ counts' = [i \in DOMAIN Loops |->
                     IF \E n \in Node : <<n, i>> \in bumped
                     THEN counts[i] + 1 ELSE counts[i]]
    /\ taken' = [i \in DOMAIN Loops |->
                    IF i \in crossed /\ taken[i] <= Loops[i].max
                    THEN taken[i] + 1 ELSE taken[i]]
    /\ UNCHANGED <<start, decision, recordVars, cancelled, emitted, raised, cost,
                   late, paused, cancelStep>>

-----------------------------------------------------------------------------
(* After the stream: the generator is closed once its threads have returned, *)
(* then the records are written one after the other.                       *)

\* Seeded defect: the manifest is written before telemetry.db.
RecordTelemetryLast ==
    /\ phase = "stopping"
    /\ running = {}
    /\ record' = [record EXCEPT !.manifest = status]
    /\ phase' = "telemetry"
    /\ UNCHANGED <<start, decision, status, cancelled, stepVars, arrived, counts,
                   cost, late, paused, history>>

RecordTelemetry ==
    /\ phase = "stopping"
    /\ running = {}
    /\ record' = [record EXCEPT !.telemetry = status]
    /\ phase' = "telemetry"
    /\ UNCHANGED <<start, decision, status, cancelled, stepVars, arrived, counts,
                   cost, late, paused, history>>

RecordManifest ==
    /\ phase = "telemetry"
    /\ record' = [record EXCEPT !.manifest = status]
    /\ phase' = "manifest"
    /\ UNCHANGED <<start, decision, status, cancelled, stepVars, arrived, counts,
                   cost, late, paused, history>>

RecordTermination ==
    /\ phase = "manifest"
    /\ record' = [record EXCEPT !.termination = TRUE]
    /\ phase' = "done"
    /\ UNCHANGED <<start, decision, status, cancelled, stepVars, arrived, counts,
                   cost, late, paused, history>>

\* The process ends: the second Ctrl+C, or a kill.
Crash ==
    /\ phase \notin Ended
    /\ phase' = "crashed"
    /\ UNCHANGED <<start, decision, status, record, cancelled, stepVars, arrived,
                   counts, cost, late, paused, history>>

-----------------------------------------------------------------------------
Progress ==
    \/ Compile \/ RejectStart \/ BeginCancelled \/ BeginStream
    \/ \E n \in Node : Return(n) \/ Raise(n) \/ Consume(n)
    \/ ObserveRaise \/ WriteConflict \/ Finish \/ RecursionExceeded \/ StartSuperstep
    \/ RecordTelemetry \/ RecordManifest \/ RecordTermination

Idle == phase \in Ended /\ UNCHANGED vars

Next == Progress \/ Cancel \/ Crash \/ Idle

Spec == Init /\ [][Next]_vars

\* Threads are scheduled and node bodies return.
FairSpec == Spec /\ WF_vars(Progress)

-----------------------------------------------------------------------------
(* Safety.                                                                 *)

\* No back-edge the runtime counts is taken more often than its max_iterations,
\* whatever counters the run started from and whichever nodes share them
\* (_wrap_with_loop_counter and the gate's passthrough and router).
LoopCapsHold == \A i \in DOMAIN Loops : Enforced(i) => taken[i] <= Loops[i].max

\* A run overshoots its cost budget by at most what the nodes of ONE superstep
\* cost: every chunk is followed by enforcer.check() before anything else is
\* dispatched, also while sibling threads still add their cost.
OvershootBounded == cost <= CostBudget + MaxNodeCost * Cardinality(tasks)

\* A run that ended "ok" stayed within its cost budget, the last node's cost
\* included: no chunk escapes the check that follows it.
OkWithinBudget == status = "ok" => cost <= CostBudget

\* After the first Ctrl+C at most one further superstep starts: the one a
\* cancellation can slip in front of, after the last chunk's check.
CancellationPrompt == phase = "stream" /\ cancelled => steps <= cancelStep + 1

\* Whenever the process dies, a manifest with a final status is backed by the
\* same status in telemetry.db, and termination.json exists only after both.
RecordsAgree ==
    /\ record.manifest # "running" => record.telemetry = record.manifest
    /\ record.termination => record.manifest # "running"

-----------------------------------------------------------------------------
(* What a step may never do.                                               *)

\* Nothing is dispatched over budget, nor once an exception was raised.
DispatchWithinBudget ==
    [][steps' > steps => cost <= CostBudget /\ raised = {}]_vars

\* A join target starts only after EVERY one of its sources has returned since
\* it last started: the aggregator never reads a branch's key of an earlier round.
JoinWaitsForAll ==
    [][\A t \in JoinTargets :
          steps' > steps /\ t \in tasks' => Sources(t) \subseteq since[t]]_vars

-----------------------------------------------------------------------------
(* Of which graphs JoinWaitsForAll holds: the code does not check it.      *)

\* Nothing but its waiting edge starts a join target. A run entered at it, a branch
\* or a back-edge into it would start it early.
JoinsOnlyWait ==
    /\ StartNodes \intersect JoinTargets = {}
    /\ \A n \in Conditional : \A l \in DOMAIN Branch[n] : Branch[n][l] \notin JoinTargets
    /\ \A i \in DOMAIN Loops :
          Kind[Loops[i].from] \notin {"gate", "router"} => Loops[i].to \notin JoinTargets

-----------------------------------------------------------------------------
(* Liveness, under FairSpec.                                               *)

\* Every run ends, whatever its graph: the superstep limit breaks the cycles no
\* loop counter covers.
RunEnds == <>(phase \in Ended)

=============================================================================
