----------------------------- MODULE AgentLoop -----------------------------
(***************************************************************************)
(* The coding-agent loop of workflows/claude_code_yaml_workflow_ci.yaml (the *)
(* other file only adds a plan approval before it) over the node functions  *)
(* of backend/runtime/nodes/agent.py: the model asks for one tool per turn, *)
(* a policy and if need be a reviewer decide on it, the tool runs, subagents*)
(* are delegated to child runs, the tool history is compacted, and loop_gate*)
(* goes round again. The graph is sequential: each action is one node, which*)
(* is one superstep of the executor. A paused run and the continuations a   *)
(* reviewer's decision forks are one behaviour.                             *)
(***************************************************************************)
EXTENDS Integers, Sequences

CONSTANTS
    Setups,         \* [mode, deny, allow, escalate]: permission_gate and .claude/agent_policy.json
    Requests,       \* [tool, outside, danger]: the tool requests the model may make
    NodeTools,      \* the tools tool_executor lists
    Hooked,         \* the hook nodes that may fail: a blocking hook, or one that times out
    ExecuteChildren,\* subagent_spawn.execute_children
    MaxTasks,       \* the most tasks of one subagent request
    MaxIterations,  \* max_iterations of loop_gate -> agent_model
    RecursionLimit, \* recursion_limit of run_graph
    PreserveLast,   \* preserve_last_n of context_compactor
    PruneTo,        \* max_verbose_turns of its tool_result_pruning stage
    Threshold       \* a history of more entries is always over compaction_threshold_chars

KnownTools == {"read_file", "glob", "search", "write_file", "shell", "subagent", "mcp_call"}
ReadOnly == {"read_file", "glob", "search"}
PermissionRequired == {"write_file", "shell", "mcp_call"}
NoRequest == [tool |-> "none", outside |-> FALSE, danger |-> "none"]

ASSUME LoopAssumption ==
    /\ Setups \subseteq [mode : STRING, deny : SUBSET KnownTools,
                         allow : SUBSET KnownTools, escalate : SUBSET STRING]
    /\ Requests \subseteq [tool : KnownTools \union {"unknown"}, outside : BOOLEAN,
                           danger : {"none", "risky", "sudo"}]
    /\ ExecuteChildren \in BOOLEAN
    /\ MaxTasks \in Nat /\ MaxIterations \in Nat /\ Threshold \in Nat
    /\ RecursionLimit \in Nat \ {0}
    /\ PreserveLast \in Nat \ {0} /\ PruneTo \in Nat \ {0}

\* The shipped pipeline prunes to five entries before it keeps three.
ASSUME PruningAssumption == PruneTo >= PreserveLast

VARIABLES
    setup,       \* the configuration of the run
    at,          \* the node of the current superstep
    status,      \* RunResult.status
    error,       \* what RunResult.error is about
    steps,       \* supersteps of this run or continuation
    count,       \* iteration_counts["loop_gate->agent_model"]
    request,     \* tool_request
    route,       \* agent_route
    stop,        \* agent_should_stop
    delegate,    \* subagent_requested
    verdict,     \* permission_decision
    decision,    \* tool_approval_decision
    history,     \* tool_result_history
    pressure,    \* context_pressure_exceeded
    tasks,       \* subagent_tasks
    inputs,      \* subagent_child_inputs: the task each child is briefed with
    records,     \* subagent_child_runs
    joined,      \* subagent_joined
    recent,      \* history: the last PreserveLast outcomes of the run
    reviewed     \* history: the turn (from 1) a reviewer last decided in, 0 for none

progress == <<at, status, error, steps>>
turn == <<request, route, stop, delegate>>
review == <<decision, reviewed>>
memory == <<history, pressure, recent>>
delegation == <<tasks, inputs, records, joined>>
vars == <<setup, progress, count, turn, verdict, review, memory, delegation>>

Nodes == {"startup", "context_loader", "planner", "plan_normalize", "agent_model",
          "agent_response_parser", "tool_route", "permission_gate", "permission_route",
          "tool_approval", "pre_tool_hooks", "tool_executor", "post_tool_hooks",
          "tool_history_digest", "subagent_gate", "subagent_plan", "subagent_context",
          "subagent_spawn", "subagent_join", "subagent_summarize", "compaction_gate",
          "context_compactor", "loop_gate"}
Pipeline == {"subagent_plan", "subagent_context", "subagent_spawn", "subagent_join",
             "subagent_summarize"}
Routes == {"none", "APPROVED", "ASK", "DENIED"}
Outcomes == [turn : Nat, kind : {"denied", "result", "ok", "partial"}]
Tasks == [turn : Nat, id : Nat]
\* "error" stands for every status a child ends with that is not listed.
ChildStatuses == {"ok", "pending_approval", "error", "planned"}
ChildRecords == [task : Tasks, status : ChildStatuses]
Verdicts == [route : Routes, hard : BOOLEAN]

TypeOK ==
    /\ setup \in Setups
    /\ at \in Nodes
    /\ status \in {"running", "ok", "pending_approval", "MaxIterationsError", "error"}
    /\ error \in {"none", "recursion", "provider", "hook", "tool", "child"}
    /\ steps \in 1..RecursionLimit
    /\ count \in 0..(MaxIterations + 1)
    /\ request \in Requests \union {NoRequest}
    /\ route \in {"none", "TOOL", "FINAL"}
    /\ stop \in BOOLEAN /\ delegate \in BOOLEAN /\ pressure \in BOOLEAN
    /\ verdict \in Verdicts
    /\ decision \in {"none", "approved", "rejected"}
    /\ history \in Seq(Outcomes) /\ recent \in Seq(Outcomes)
    /\ tasks \in Seq(Tasks) /\ inputs \in Seq(Tasks)
    /\ records \in Seq(ChildRecords) /\ joined \in Seq(ChildRecords)
    /\ reviewed \in Nat

Init ==
    /\ setup \in Setups
    /\ at = "startup" /\ status = "running" /\ error = "none" /\ steps = 1
    /\ count = 0
    /\ request = NoRequest /\ route = "none" /\ stop = FALSE /\ delegate = FALSE
    /\ verdict = [route |-> "none", hard |-> FALSE]
    /\ decision = "none" /\ reviewed = 0
    /\ history = <<>> /\ pressure = FALSE /\ recent = <<>>
    /\ tasks = <<>> /\ inputs = <<>> /\ records = <<>> /\ joined = <<>>

-----------------------------------------------------------------------------
(* Supersteps.                                                             *)

On(n) == status = "running" /\ at = n

Ends(s, e) == status' = s /\ error' = e /\ UNCHANGED <<at, steps>>

\* Any superstep beyond recursion_limit raises GraphRecursionError.
Enter(n) ==
    \/ steps < RecursionLimit /\ at' = n /\ steps' = steps + 1 /\ UNCHANGED <<status, error>>
    \/ steps >= RecursionLimit /\ Ends("error", "recursion")

\* Nodes whose output no route of the loop reads: startup's runtime_config is setup,
\* the plan and the digest are text.
Step(n, m) ==
    /\ On(n)
    /\ Enter(m)
    /\ UNCHANGED <<setup, count, turn, verdict, review, memory, delegation>>

AgentStartup == Step("startup", "context_loader")
Planner == Step("planner", "plan_normalize")
PlanNormalize == Step("plan_normalize", "agent_model")
ToolHistoryDigest == Step("tool_history_digest", "subagent_gate")

AgentContext ==
    /\ On("context_loader")
    /\ history' = <<>>
    /\ Enter("planner")
    /\ UNCHANGED <<setup, count, turn, verdict, review, pressure, recent, delegation>>

AgentModel == Step("agent_model", "agent_response_parser")

ProviderFails ==
    /\ On("planner") \/ On("plan_normalize") \/ On("agent_model")
    /\ Ends("error", "provider")
    /\ UNCHANGED <<setup, count, turn, verdict, review, memory, delegation>>

\* Text that is no JSON object, or one that names no tool, is the final answer.
AgentResponseParser ==
    /\ On("agent_response_parser")
    /\ \/ request' \in Requests /\ route' = "TOOL"
       \/ request' = NoRequest /\ route' = "FINAL"
    /\ stop' = (route' = "FINAL")
    /\ delegate' = (request'.tool = "subagent")
    /\ Enter("tool_route")
    /\ UNCHANGED <<setup, count, verdict, review, memory, delegation>>

ToolRoute ==
    \/ route = "TOOL" /\ Step("tool_route", "permission_gate")
    \/ route # "TOOL" /\ Step("tool_route", "loop_gate")

-----------------------------------------------------------------------------
(* Permission.                                                             *)

Decided(r, h) == [route |-> r, hard |-> h]

\* _permission_decision: the first case that applies decides. write_file checkpoints
\* before it writes, so the irreversible_fs_write escalation never applies.
PermissionDecision(s, r) ==
    LET asks ==
          \/ s.mode = "project_rules" /\ r.tool \in PermissionRequired
          \/ s.mode \in {"default", "ask"} /\ r.tool \in PermissionRequired
          \/ s.mode = "auto_edit" /\ r.tool \in {"shell", "mcp_call"}
        escalates ==
          \/ s.mode = "auto_approve" /\ r.tool = "shell" /\ r.danger # "none"
          \/ "shell_with_sudo" \in s.escalate /\ r.danger = "sudo"
          \/ "network_egress" \in s.escalate /\ r.tool = "mcp_call"
    IN  IF r.tool \notin KnownTools THEN Decided("DENIED", FALSE)
        ELSE IF r.tool \in s.deny THEN Decided("DENIED", TRUE)
        ELSE IF s.mode = "enterprise" /\ r.tool \in PermissionRequired THEN Decided("DENIED", TRUE)
        ELSE IF r.tool = "write_file" /\ r.outside THEN Decided("DENIED", FALSE)
        ELSE IF s.mode = "project_rules" /\ r.tool \in s.allow THEN Decided("APPROVED", FALSE)
        ELSE IF s.mode = "plan" /\ r.tool \notin ReadOnly THEN Decided("DENIED", FALSE)
        ELSE IF asks THEN Decided("ASK", FALSE)
        ELSE IF s.mode = "sandbox" /\ r.tool = "shell" THEN Decided("APPROVED", FALSE)
        ELSE IF escalates THEN Decided("ASK", FALSE)
        ELSE Decided("APPROVED", FALSE)

Latest(s, n) == IF Len(s) > n THEN SubSeq(s, Len(s) - n + 1, Len(s)) ELSE s
Turn == count + 1

\* An outcome of kind k joins the history of the run.
Note(k) ==
    /\ history' = Append(history, [turn |-> Turn, kind |-> k])
    /\ recent' = Latest(Append(recent, [turn |-> Turn, kind |-> k]), PreserveLast)

PermissionGate ==
    /\ On("permission_gate")
    /\ verdict' = PermissionDecision(setup, request)
    /\ \/ verdict'.route = "DENIED" /\ Note("denied")
       \/ verdict'.route # "DENIED" /\ UNCHANGED <<history, recent>>
    /\ stop' = FALSE
    /\ Enter("permission_route")
    /\ UNCHANGED <<setup, count, request, route, delegate, review, pressure, delegation>>

PermissionRoute ==
    \/ verdict.route = "APPROVED" /\ Step("permission_route", "pre_tool_hooks")
    \/ verdict.route = "ASK" /\ Step("permission_route", "tool_approval")
    \/ verdict.route = "DENIED" /\ Step("permission_route", "loop_gate")

Pause ==
    /\ On("tool_approval")
    /\ decision = "none"
    /\ Ends("pending_approval", "none")
    /\ UNCHANGED <<setup, count, turn, verdict, review, memory, delegation>>

\* The continuation is a run of its own, entered at tool_approval with the state of
\* the paused one and the decision.
Decide(d) ==
    /\ status = "pending_approval"
    /\ status' = "running" /\ steps' = 1
    /\ decision' = d /\ reviewed' = Turn
    /\ UNCHANGED <<setup, at, error, count, turn, verdict, memory, delegation>>

ToolApproval ==
    \/ decision = "approved" /\ Step("tool_approval", "pre_tool_hooks")
    \/ decision = "rejected" /\ Step("tool_approval", "loop_gate")

-----------------------------------------------------------------------------
(* Tools, delegation, compaction.                                          *)

PreToolHooks == Step("pre_tool_hooks", "tool_executor")
PostToolHooks == Step("post_tool_hooks", "tool_history_digest")

HookFails ==
    /\ \E n \in Hooked : On(n)
    /\ Ends("error", "hook")
    /\ UNCHANGED <<setup, count, turn, verdict, review, memory, delegation>>

\* Seeded defect: the decision outlives the request it was made for.
ToolExecutorKeepsDecision ==
    /\ On("tool_executor")
    /\ Note(IF request.tool \in NodeTools THEN "result" ELSE "denied")
    /\ pressure' \in (IF Len(history') > Threshold THEN {TRUE} ELSE BOOLEAN)
    /\ delegate' = (request.tool = "subagent")
    /\ stop' = FALSE
    /\ Enter("post_tool_hooks")
    /\ UNCHANGED <<setup, count, request, route, verdict, review, delegation>>

\* A tool the node does not list is recorded as denied; the size of a result is any.
ToolExecutor ==
    /\ On("tool_executor")
    /\ Note(IF request.tool \in NodeTools THEN "result" ELSE "denied")
    /\ pressure' \in (IF Len(history') > Threshold THEN {TRUE} ELSE BOOLEAN)
    /\ delegate' = (request.tool = "subagent")
    /\ stop' = FALSE
    /\ decision' = "none"
    /\ Enter("post_tool_hooks")
    /\ UNCHANGED <<setup, count, request, route, verdict, reviewed, delegation>>

\* A path that is missing or outside, a shell timeout: not caught, the run fails.
ToolRaises ==
    /\ On("tool_executor")
    /\ request.tool \in NodeTools \ {"subagent", "mcp_call"}
    /\ Ends("error", "tool")
    /\ UNCHANGED <<setup, count, turn, verdict, review, memory, delegation>>

SubagentGate ==
    \/ delegate /\ Step("subagent_gate", "subagent_plan")
    \/ ~delegate /\ Step("subagent_gate", "compaction_gate")

ThisTurnsTasks(n) == [i \in 1..n |-> [turn |-> Turn, id |-> i]]

\* Seeded defect: a request without any prompt keeps the tasks of an earlier one.
SubagentPlanKeepsTasks ==
    /\ On("subagent_plan")
    /\ \E n \in 0..MaxTasks : tasks' = IF n = 0 THEN tasks ELSE ThisTurnsTasks(n)
    /\ Enter("subagent_context")
    /\ UNCHANGED <<setup, count, turn, verdict, review, memory, inputs, records, joined>>

\* No task at all when neither the request nor the user input has any text.
SubagentPlan ==
    /\ On("subagent_plan")
    /\ \E n \in 0..MaxTasks : tasks' = ThisTurnsTasks(n)
    /\ Enter("subagent_context")
    /\ UNCHANGED <<setup, count, turn, verdict, review, memory, inputs, records, joined>>

SubagentContext ==
    /\ On("subagent_context")
    /\ inputs' = tasks
    /\ Enter("subagent_spawn")
    /\ UNCHANGED <<setup, count, turn, verdict, review, memory, tasks, records, joined>>

\* Each child is a run_graph call of its own: whatever it ends with is recorded.
SubagentSpawn ==
    /\ On("subagent_spawn")
    /\ \E s \in [DOMAIN inputs -> IF ExecuteChildren THEN ChildStatuses \ {"planned"}
                                                     ELSE {"planned"}] :
          records' = [i \in DOMAIN inputs |-> [task |-> inputs[i], status |-> s[i]]]
    /\ stop' = FALSE
    /\ Enter("subagent_join")
    /\ UNCHANGED <<setup, count, request, route, delegate, verdict, review, memory,
                   tasks, inputs, joined>>

\* The child workflow is loaded outside the try block.
SpawnFails ==
    /\ On("subagent_spawn")
    /\ ExecuteChildren /\ inputs # <<>>
    /\ Ends("error", "child")
    /\ UNCHANGED <<setup, count, turn, verdict, review, memory, delegation>>

SubagentJoin ==
    /\ On("subagent_join")
    /\ joined' = records
    /\ stop' = FALSE
    /\ Enter("subagent_summarize")
    /\ UNCHANGED <<setup, count, request, route, delegate, verdict, review, memory,
                   tasks, inputs, records>>

AllOk(rs) == \A i \in DOMAIN rs : rs[i].status = "ok"

SubagentSummarize ==
    /\ On("subagent_summarize")
    /\ Note(IF AllOk(joined) THEN "ok" ELSE "partial")
    /\ delegate' = FALSE /\ stop' = FALSE
    /\ decision' = "none"
    /\ Enter("compaction_gate")
    /\ UNCHANGED <<setup, count, request, route, verdict, reviewed, pressure, delegation>>

CompactionGate ==
    \/ pressure /\ Step("compaction_gate", "context_compactor")
    \/ ~pressure /\ Step("compaction_gate", "loop_gate")

\* Seeded defect: the oldest results are kept, history[:n] for history[-n:].
CompactorKeepsOldest ==
    /\ On("context_compactor")
    /\ history' = SubSeq(history, 1, IF Len(history) > PreserveLast THEN PreserveLast
                                                                   ELSE Len(history))
    /\ pressure' = FALSE
    /\ stop' = FALSE
    /\ Enter("loop_gate")
    /\ UNCHANGED <<setup, count, request, route, delegate, verdict, review, recent, delegation>>

ContextCompactor ==
    /\ On("context_compactor")
    /\ history' = Latest(Latest(history, PruneTo), PreserveLast)
    /\ pressure' = FALSE
    /\ stop' = FALSE
    /\ Enter("loop_gate")
    /\ UNCHANGED <<setup, count, request, route, delegate, verdict, review, recent, delegation>>

\* Seeded defect: the passthrough does not count the iteration.
LoopGateForgets ==
    /\ On("loop_gate")
    /\ \/ stop /\ Ends("ok", "none")
       \/ ~stop /\ Enter("agent_model")
    /\ UNCHANGED <<setup, count, turn, verdict, review, memory, delegation>>

\* The passthrough counts, the router raises MaxIterationsError above the cap.
LoopGate ==
    /\ On("loop_gate")
    /\ \/ stop /\ Ends("ok", "none") /\ UNCHANGED count
       \/ /\ ~stop
          /\ count' = count + 1
          /\ \/ count' <= MaxIterations /\ Enter("agent_model")
             \/ count' > MaxIterations /\ Ends("MaxIterationsError", "none")
    /\ UNCHANGED <<setup, turn, verdict, review, memory, delegation>>

RunStep ==
    \/ AgentStartup \/ AgentContext \/ Planner \/ PlanNormalize \/ AgentModel
    \/ ProviderFails \/ AgentResponseParser \/ ToolRoute
    \/ PermissionGate \/ PermissionRoute \/ Pause \/ ToolApproval
    \/ PreToolHooks \/ PostToolHooks \/ HookFails \/ ToolExecutor \/ ToolRaises
    \/ ToolHistoryDigest \/ SubagentGate \/ SubagentPlan \/ SubagentContext
    \/ SubagentSpawn \/ SpawnFails \/ SubagentJoin \/ SubagentSummarize
    \/ CompactionGate \/ ContextCompactor \/ LoopGate

Next == RunStep \/ \E d \in {"approved", "rejected"} : Decide(d)

Spec == Init /\ [][Next]_vars

\* The executor drives a run that is not paused; a reviewer need not answer.
FairSpec == Spec /\ WF_vars(RunStep)

-----------------------------------------------------------------------------
(* Properties.                                                             *)

\* What the policy lets s run with no reviewer asked.
Unattended(s, r) ==
    /\ s.mode = "plan" => r.tool \in ReadOnly
    /\ s.mode \in {"default", "ask"} => r.tool \notin PermissionRequired
    /\ r.danger = "sudo" /\ "shell_with_sudo" \in s.escalate =>
          \/ s.mode = "sandbox" /\ r.tool = "shell"
          \/ s.mode = "project_rules" /\ r.tool \in s.allow

\* Whatever turns, pauses, compactions and child runs came before: the tool about to
\* run is known, not denied and does not write outside the workspace; unless the
\* policy lets it run unattended, a reviewer approved it in this very turn.
ToolsAreAuthorised ==
    On("pre_tool_hooks") \/ On("tool_executor") =>
        /\ request.tool \in KnownTools \ setup.deny
        /\ ~(request.tool = "write_file" /\ request.outside)
        /\ setup.mode = "enterprise" => request.tool \notin PermissionRequired
        /\ Unattended(setup, request) \/ (decision = "approved" /\ reviewed = Turn)

\* Compaction drops the oldest outcomes only: what the model's context is built from
\* ends with the latest PreserveLast outcomes, denials and subagent reports included.
HistoryKeepsTheLatest ==
    Len(history) >= Len(recent) /\ Latest(history, Len(recent)) = recent

\* Delegation happens for subagent requests only; the children are those of the tasks of
\* this turn, and before the model is called again their report is the last outcome,
\* ok only if every child ended ok.
DelegationIsReported ==
    /\ at \in Pipeline => request.tool = "subagent"
    /\ at \in {"subagent_join", "subagent_summarize"} =>
          \A i \in DOMAIN records : records[i].task = [turn |-> Turn, id |-> i]
    /\ at = "compaction_gate" /\ request.tool = "subagent" =>
          history[Len(history)] =
             [turn |-> Turn, kind |-> IF AllOk(records) THEN "ok" ELSE "partial"]

\* A chain of continuations comes to rest, however often the model asks for tools that
\* need a reviewer: the loop counter goes with the state, the superstep limit does not.
ChainRests == <>[](status # "running")

=============================================================================
