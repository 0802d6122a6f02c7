-------------------------- MODULE AgentLoopProofs --------------------------
(***************************************************************************)
(* Type correctness of AgentLoop and its safety invariants, for every set   *)
(* of configurations and requests, every cap and every superstep limit.     *)
(***************************************************************************)
EXTENDS AgentLoop, SequenceTheorems, TLAPS

\* While a run may still go round the loop its counter is within the cap.
CountInv == status \in {"running", "pending_approval"} => count <= MaxIterations

TypeInv == TypeOK /\ CountInv

-----------------------------------------------------------------------------
(* What Latest returns.                                                    *)

\* The last n entries of s, all of them when there are fewer: what [-n:] is in the code.
LEMMA LatestSeq ==
    ASSUME NEW S, NEW s \in Seq(S), NEW n \in Nat
    PROVE  /\ Latest(s, n) \in Seq(S)
           /\ Len(Latest(s, n)) = IF Len(s) > n THEN n ELSE Len(s)
           /\ \A i \in 1..Len(Latest(s, n)) :
                 Latest(s, n)[i] = s[Len(s) - Len(Latest(s, n)) + i]
<1>1. CASE Len(s) > n
  <2>1. Len(s) \in Nat /\ \A i \in 1..Len(s) : s[i] \in S
    OBVIOUS
  <2>2. Latest(s, n) = SubSeq(s, Len(s) - n + 1, Len(s))
    BY <1>1 DEF Latest
  <2> DEFINE m == Len(s) - n + 1
             l == SubSeq(s, m, Len(s))
  <2>3. m \in 1..(Len(s) + 1) /\ Len(s) - m + 1 = n
    BY <1>1, <2>1
  <2>4. l \in Seq(S) /\ Len(l) = n /\ \A i \in 1..n : l[i] = s[m + i - 1]
    <3>1. \A i \in m..Len(s) : s[i] \in S
      BY <2>1, <2>3
    <3> HIDE DEF m
    <3> QED
      BY <2>1, <2>3, <3>1, SubSeqProperties
  <2>5. \A i \in 1..n : m + i - 1 = Len(s) - n + i
    BY <2>1
  <2> HIDE DEF l
  <2> QED
    BY <1>1, <2>2, <2>4, <2>5 DEF l
<1>2. CASE ~(Len(s) > n)
  BY <1>2 DEF Latest
<1> QED
  BY <1>1, <1>2

-----------------------------------------------------------------------------
(* Types.                                                                  *)

\* Entering a node keeps the types of the run's progress.
LEMMA EnterType ==
    ASSUME LoopAssumption, TypeInv, NEW n \in Nodes, Enter(n)
    PROVE  /\ at' \in Nodes
           /\ status' \in {"running", "ok", "pending_approval", "MaxIterationsError", "error"}
           /\ error' \in {"none", "recursion", "provider", "hook", "tool", "child"}
           /\ steps' \in 1..RecursionLimit
           /\ status' \in {status, "error"}
<1>1. /\ at \in Nodes
      /\ status \in {"running", "ok", "pending_approval", "MaxIterationsError", "error"}
      /\ error \in {"none", "recursion", "provider", "hook", "tool", "child"}
      /\ steps \in 1..RecursionLimit
  BY DEF TypeInv, TypeOK
<1>2. RecursionLimit \in Nat \ {0}
  BY DEF LoopAssumption
<1>3. CASE steps < RecursionLimit /\ at' = n /\ steps' = steps + 1 /\ UNCHANGED <<status, error>>
  <2>1. at' \in Nodes
    BY <1>3
  <2>2. status' = status /\ error' = error
    BY <1>3
  <2>3. steps' \in 1..RecursionLimit
    BY <1>1, <1>2, <1>3
  <2> QED
    BY <1>1, <2>1, <2>2, <2>3
<1>4. CASE steps >= RecursionLimit /\ Ends("error", "recursion")
  <2>1. status' = "error" /\ error' = "recursion" /\ at' = at /\ steps' = steps
    BY <1>4 DEF Ends
  <2> QED
    BY <1>1, <2>1
<1> QED
  BY <1>3, <1>4 DEF Enter

LEMMA StepType ==
    ASSUME LoopAssumption, TypeInv, NEW n, NEW m \in Nodes, Step(n, m)
    PROVE  TypeInv'
<1>1. Enter(m) /\ UNCHANGED <<setup, count, turn, verdict, review, memory, delegation>>
  BY DEF Step
<1> QED
  BY <1>1, EnterType DEF TypeInv, TypeOK, CountInv, turn, review, memory, delegation

LEMMA NoteType ==
    ASSUME LoopAssumption, TypeInv,
           NEW k \in {"denied", "result", "ok", "partial"}, Note(k)
    PROVE  history' \in Seq(Outcomes) /\ recent' \in Seq(Outcomes)
<1> DEFINE e == [turn |-> Turn, kind |-> k]
<1>1. e \in Outcomes
  BY DEF Turn, Outcomes, TypeInv, TypeOK, LoopAssumption
<1>2. Append(history, e) \in Seq(Outcomes) /\ Append(recent, e) \in Seq(Outcomes)
  BY <1>1 DEF TypeInv, TypeOK
<1>3. PreserveLast \in Nat
  BY DEF LoopAssumption
<1>4. Latest(Append(recent, e), PreserveLast) \in Seq(Outcomes)
  BY <1>2, <1>3, LatestSeq
<1> QED
  BY <1>2, <1>4 DEF Note

LEMMA TypeInit == LoopAssumption /\ Init => TypeInv
<1> SUFFICES ASSUME LoopAssumption, Init PROVE TypeInv
  OBVIOUS
<1>1. history \in Seq(Outcomes) /\ recent \in Seq(Outcomes)
  BY DEF Init
<1>2. /\ tasks \in Seq(Tasks) /\ inputs \in Seq(Tasks)
      /\ records \in Seq(ChildRecords) /\ joined \in Seq(ChildRecords)
  BY DEF Init
<1>3. steps \in 1..RecursionLimit /\ count \in 0..(MaxIterations + 1) /\ count <= MaxIterations
  BY DEF Init, LoopAssumption
<1>4. at \in Nodes /\ verdict \in Verdicts
  BY DEF Init, Nodes, Verdicts, Routes
<1> QED
  BY <1>1, <1>2, <1>3, <1>4 DEF Init, TypeInv, TypeOK, CountInv

LEMMA DecisionType ==
    ASSUME NEW s, NEW r
    PROVE  PermissionDecision(s, r) \in Verdicts
  BY DEF PermissionDecision, Decided, Verdicts, Routes

\* A run that ends keeps its node and its supersteps.
LEMMA EndsType ==
    ASSUME LoopAssumption, TypeInv,
           NEW s \in {"ok", "pending_approval", "error"},
           NEW e \in {"none", "provider", "hook", "tool", "child"},
           status = "running", Ends(s, e),
           UNCHANGED <<setup, count, turn, verdict, review, memory, delegation>>
    PROVE  TypeInv'
  BY DEF Ends, TypeInv, TypeOK, CountInv, turn, review, memory, delegation

LEMMA TypeNext ==
    ASSUME LoopAssumption, TypeInv, [Next]_vars
    PROVE  TypeInv'
<1> USE DEF On
<1>n. Nodes = {"startup", "context_loader", "planner", "plan_normalize", "agent_model",
          "agent_response_parser", "tool_route", "permission_gate", "permission_route",
          "tool_approval", "pre_tool_hooks", "tool_executor", "post_tool_hooks",
          "tool_history_digest", "subagent_gate", "subagent_plan", "subagent_context",
          "subagent_spawn", "subagent_join", "subagent_summarize", "compaction_gate",
          "context_compactor", "loop_gate"}
  BY DEF Nodes
<1>t. /\ NoRequest \in Requests \union {NoRequest}
      /\ count \in Nat /\ Turn \in Nat /\ MaxIterations \in Nat
  BY DEF TypeInv, TypeOK, LoopAssumption, Turn
<1>1. CASE UNCHANGED vars
  BY <1>1 DEF vars, progress, turn, review, memory, delegation, TypeInv, TypeOK, CountInv
<1>2. CASE \E n, m \in Nodes : Step(n, m)
  BY <1>2, StepType
<1>3. CASE AgentContext
  <2>1. Enter("planner") /\ "planner" \in Nodes /\ history' = <<>>
    BY <1>3, <1>n DEF AgentContext
  <2>2. history' \in Seq(Outcomes)
    BY <2>1
  <2> QED
    BY <1>3, <2>1, <2>2, EnterType
    DEF AgentContext, TypeInv, TypeOK, CountInv, turn, review, delegation
<1>4. CASE ProviderFails \/ HookFails \/ ToolRaises \/ SpawnFails \/ Pause
  BY <1>4, EndsType DEF ProviderFails, HookFails, ToolRaises, SpawnFails, Pause
<1>5. CASE AgentResponseParser
  <2>1. Enter("tool_route") /\ "tool_route" \in Nodes
    BY <1>5, <1>n DEF AgentResponseParser
  <2>2. /\ request' \in Requests \union {NoRequest} /\ route' \in {"none", "TOOL", "FINAL"}
        /\ stop' \in BOOLEAN /\ delegate' \in BOOLEAN
    BY <1>5 DEF AgentResponseParser
  <2> QED
    BY <1>5, <2>1, <2>2, EnterType
    DEF AgentResponseParser, TypeInv, TypeOK, CountInv, review, memory, delegation
<1>6. CASE PermissionGate
  <2>1. Enter("permission_route") /\ "permission_route" \in Nodes
    BY <1>6, <1>n DEF PermissionGate
  <2>2. verdict' \in Verdicts
    BY <1>6, DecisionType DEF PermissionGate
  <2>3. history' \in Seq(Outcomes) /\ recent' \in Seq(Outcomes)
    BY <1>6, NoteType DEF PermissionGate, TypeInv, TypeOK
  <2> QED
    BY <1>6, <2>1, <2>2, <2>3, EnterType
    DEF PermissionGate, TypeInv, TypeOK, CountInv, review, delegation
<1>7. CASE \E d \in {"approved", "rejected"} : Decide(d)
  <2>1. PICK d \in {"approved", "rejected"} : Decide(d)
    BY <1>7
  <2>2. 1 \in 1..RecursionLimit
    BY DEF LoopAssumption
  <2> QED
    BY <1>t, <2>1, <2>2 DEF Decide, TypeInv, TypeOK, CountInv, turn, memory, delegation
<1>8. CASE ToolExecutor
  <2>1. Enter("post_tool_hooks") /\ "post_tool_hooks" \in Nodes
    BY <1>8, <1>n DEF ToolExecutor
  <2>2. history' \in Seq(Outcomes) /\ recent' \in Seq(Outcomes)
    BY <1>8, NoteType DEF ToolExecutor
  <2>3. pressure' \in BOOLEAN /\ delegate' \in BOOLEAN
    BY <1>8 DEF ToolExecutor
  <2> QED
    BY <1>8, <2>1, <2>2, <2>3, EnterType
    DEF ToolExecutor, TypeInv, TypeOK, CountInv, delegation
<1>9. CASE SubagentPlan
  <2>1. Enter("subagent_context") /\ "subagent_context" \in Nodes
    BY <1>9, <1>n DEF SubagentPlan
  <2>2. ASSUME NEW n \in 0..MaxTasks PROVE ThisTurnsTasks(n) \in Seq(Tasks)
    BY <1>t DEF ThisTurnsTasks, Tasks, LoopAssumption
  <2>3. tasks' \in Seq(Tasks)
    BY <1>9, <2>2 DEF SubagentPlan
  <2> QED
    BY <1>9, <2>1, <2>3, EnterType
    DEF SubagentPlan, TypeInv, TypeOK, CountInv, turn, review, memory
<1>10. CASE SubagentContext
  <2>1. Enter("subagent_spawn") /\ "subagent_spawn" \in Nodes
    BY <1>10, <1>n DEF SubagentContext
  <2> QED
    BY <1>10, <2>1, EnterType
    DEF SubagentContext, TypeInv, TypeOK, CountInv, turn, review, memory
<1>11. CASE SubagentSpawn
  <2>1. Enter("subagent_join") /\ "subagent_join" \in Nodes
    BY <1>11, <1>n DEF SubagentSpawn
  <2>2. PICK s \in [DOMAIN inputs -> ChildStatuses] :
           records' = [i \in DOMAIN inputs |-> [task |-> inputs[i], status |-> s[i]]]
    BY <1>11 DEF SubagentSpawn, ChildStatuses
  <2>3. inputs \in Seq(Tasks)
    BY DEF TypeInv, TypeOK
  <2>4. records' \in Seq(ChildRecords)
    <3>1. Len(inputs) \in Nat /\ DOMAIN inputs = 1..Len(inputs)
      BY <2>3
    <3>2. \A i \in 1..Len(inputs) :
             [task |-> inputs[i], status |-> s[i]] \in ChildRecords
      BY <2>2, <2>3, <3>1 DEF ChildRecords
    <3>3. [i \in 1..Len(inputs) |-> [task |-> inputs[i], status |-> s[i]]] \in Seq(ChildRecords)
      BY <3>1, <3>2
    <3> QED
      BY <2>2, <3>1, <3>3
  <2> QED
    BY <1>11, <2>1, <2>4, EnterType
    DEF SubagentSpawn, TypeInv, TypeOK, CountInv, review, memory
<1>12. CASE SubagentJoin
  <2>1. Enter("subagent_summarize") /\ "subagent_summarize" \in Nodes
    BY <1>12, <1>n DEF SubagentJoin
  <2> QED
    BY <1>12, <2>1, EnterType
    DEF SubagentJoin, TypeInv, TypeOK, CountInv, review, memory
<1>13. CASE SubagentSummarize
  <2>1. Enter("compaction_gate") /\ "compaction_gate" \in Nodes
    BY <1>13, <1>n DEF SubagentSummarize
  <2>2. history' \in Seq(Outcomes) /\ recent' \in Seq(Outcomes)
    BY <1>13, NoteType DEF SubagentSummarize
  <2> QED
    BY <1>13, <2>1, <2>2, EnterType
    DEF SubagentSummarize, TypeInv, TypeOK, CountInv, delegation
<1>14. CASE ContextCompactor
  <2>1. Enter("loop_gate") /\ "loop_gate" \in Nodes
    BY <1>14, <1>n DEF ContextCompactor
  <2>2. history \in Seq(Outcomes) /\ PruneTo \in Nat /\ PreserveLast \in Nat
    BY DEF TypeInv, TypeOK, LoopAssumption
  <2>3. Latest(history, PruneTo) \in Seq(Outcomes)
    BY <2>2, LatestSeq
  <2>4. history' \in Seq(Outcomes)
    BY <1>14, <2>2, <2>3, LatestSeq DEF ContextCompactor
  <2> QED
    BY <1>14, <2>1, <2>4, EnterType
    DEF ContextCompactor, TypeInv, TypeOK, CountInv, review, delegation
<1>15. CASE LoopGate
  <2>1. status = "running" /\ count <= MaxIterations
    BY <1>15 DEF LoopGate, TypeInv, CountInv
  <2>2. CASE stop /\ Ends("ok", "none") /\ UNCHANGED count
    BY <1>15, <2>1, <2>2, EndsType DEF LoopGate
  <2>3. CASE count' = count + 1 /\ count' <= MaxIterations /\ Enter("agent_model")
    <3>1. Enter("agent_model") /\ "agent_model" \in Nodes
      BY <2>3, <1>n
    <3>2. count' \in 0..(MaxIterations + 1) /\ count' <= MaxIterations
      BY <1>t, <2>3
    <3> QED
      BY <1>15, <3>1, <3>2, EnterType
      DEF LoopGate, TypeInv, TypeOK, CountInv, turn, review, memory, delegation
  <2>4. CASE count' = count + 1 /\ Ends("MaxIterationsError", "none")
    <3>1. count' \in 0..(MaxIterations + 1)
      BY <1>t, <2>1, <2>4
    <3> QED
      BY <1>15, <2>4, <3>1
      DEF LoopGate, Ends, TypeInv, TypeOK, CountInv, turn, review, memory, delegation
  <2> QED
    BY <1>15, <2>2, <2>3, <2>4 DEF LoopGate
<1> HIDE DEF On
<1>s. AgentStartup \/ Planner \/ PlanNormalize \/ AgentModel \/ ToolRoute \/ PermissionRoute
      \/ ToolApproval \/ PreToolHooks \/ PostToolHooks \/ ToolHistoryDigest
      \/ SubagentGate \/ CompactionGate => \E n, m \in Nodes : Step(n, m)
  BY <1>n DEF AgentStartup, Planner, PlanNormalize, AgentModel, ToolRoute, PermissionRoute,
     ToolApproval, PreToolHooks, PostToolHooks, ToolHistoryDigest, SubagentGate, CompactionGate
<1> QED
  BY <1>1, <1>2, <1>3, <1>4, <1>5, <1>6, <1>7, <1>8, <1>9, <1>10, <1>11, <1>12, <1>13,
     <1>14, <1>15, <1>s DEF Next, RunStep

\* The types, and the cap of the loop: a run that can go on has not used up its turns.
THEOREM TypeCorrect == Spec => []TypeOK
<1>1. Init => TypeInv
  BY TypeInit, LoopAssumption
<1>2. TypeInv /\ [Next]_vars => TypeInv'
  BY TypeNext, LoopAssumption
<1>3. TypeInv => TypeOK
  BY DEF TypeInv
<1> QED
  BY <1>1, <1>2, <1>3, PTL DEF Spec

-----------------------------------------------------------------------------
(* What runs was decided on in this turn. The verdict is the one on the     *)
(* current request from the gate to the executor; an approval lives from the *)
(* reviewer's decision to the executor of the same turn and no longer.      *)

Judged == {"permission_route", "tool_approval", "pre_tool_hooks", "tool_executor"}

AuthInv ==
    /\ status = "pending_approval" => at = "tool_approval"
    /\ at \in Judged => verdict = PermissionDecision(setup, request)
    /\ at = "tool_approval" => verdict.route = "ASK"
    /\ decision = "approved" =>
          at \in {"tool_approval", "pre_tool_hooks", "tool_executor"} /\ reviewed = Turn
    /\ On("pre_tool_hooks") \/ On("tool_executor") =>
          verdict.route = "APPROVED" \/ (verdict.route = "ASK" /\ decision = "approved")

\* What is not denied is known, not on the deny list and no write outside; what is
\* approved may run unattended.
LEMMA DecisionSound ==
    ASSUME NEW s, NEW r, PermissionDecision(s, r).route \in {"APPROVED", "ASK"}
    PROVE  /\ r.tool \in KnownTools \ s.deny
           /\ ~(r.tool = "write_file" /\ r.outside)
           /\ s.mode = "enterprise" => r.tool \notin PermissionRequired
           /\ PermissionDecision(s, r).route = "APPROVED" => Unattended(s, r)
  BY DEF PermissionDecision, Decided, Unattended, ReadOnly, PermissionRequired, KnownTools

LEMMA AuthImplies == AuthInv => ToolsAreAuthorised
<1> SUFFICES ASSUME AuthInv, On("pre_tool_hooks") \/ On("tool_executor")
             PROVE  /\ request.tool \in KnownTools \ setup.deny
                    /\ ~(request.tool = "write_file" /\ request.outside)
                    /\ setup.mode = "enterprise" => request.tool \notin PermissionRequired
                    /\ Unattended(setup, request) \/ (decision = "approved" /\ reviewed = Turn)
  BY DEF ToolsAreAuthorised
<1>1. verdict = PermissionDecision(setup, request)
  BY DEF AuthInv, On, Judged
<1>2. \/ verdict.route = "APPROVED"
      \/ verdict.route = "ASK" /\ decision = "approved" /\ reviewed = Turn
  BY DEF AuthInv
<1> QED
  BY <1>1, <1>2, DecisionSound

\* Moving on to a node that is not judged yet, with no approval in force.
LEMMA AuthLeave ==
    ASSUME AuthInv, status = "running", at \notin Judged, NEW n \in Nodes \ Judged,
           Enter(n), decision' \in {decision, "none"}
    PROVE  AuthInv'
  BY DEF AuthInv, Enter, Ends, On, Judged

LEMMA AuthNext ==
    ASSUME AuthInv, [Next]_vars
    PROVE  AuthInv'
<1>1. CASE UNCHANGED vars
  BY <1>1 DEF vars, progress, turn, review, AuthInv, On, Turn
<1>2. CASE Pause \/ HookFails \/ ToolRaises \/ ProviderFails \/ SpawnFails
  BY <1>2 DEF Pause, HookFails, ToolRaises, ProviderFails, SpawnFails, Ends, turn, review,
     AuthInv, On, Turn, Judged
<1>3. CASE \E d \in {"approved", "rejected"} : Decide(d)
  BY <1>3 DEF Decide, turn, AuthInv, On, Turn, Judged
<1>4. CASE PermissionGate
  BY <1>4 DEF PermissionGate, review, AuthInv, Enter, Ends, On, Judged
<1>5. CASE PermissionRoute \/ ToolApproval
  BY <1>5 DEF PermissionRoute, ToolApproval, Step, turn, review, AuthInv, Enter, Ends, On,
     Judged, Turn
<1>6. CASE PreToolHooks
  BY <1>6 DEF PreToolHooks, Step, turn, review, AuthInv, Enter, Ends, On, Judged, Turn
<1>7. CASE ToolExecutor
  BY <1>7 DEF ToolExecutor, AuthInv, Enter, Ends, On, Judged, Turn
<1>8. CASE LoopGate
  BY <1>8 DEF LoopGate, turn, review, AuthInv, Enter, Ends, On, Judged
<1>9. CASE ToolRoute \/ SubagentGate \/ CompactionGate
  BY <1>9, AuthLeave DEF ToolRoute, SubagentGate, CompactionGate, Step, review, On, Judged, Nodes
<1>10. CASE AgentStartup \/ Planner \/ PlanNormalize \/ AgentModel \/ PostToolHooks
            \/ ToolHistoryDigest
  BY <1>10, AuthLeave DEF AgentStartup, Planner, PlanNormalize, AgentModel, PostToolHooks,
     ToolHistoryDigest, Step, review, On, Judged, Nodes
<1>11. CASE AgentContext \/ AgentResponseParser \/ ContextCompactor
  BY <1>11, AuthLeave DEF AgentContext, AgentResponseParser, ContextCompactor, review, On,
     Judged, Nodes
<1>12. CASE SubagentPlan \/ SubagentContext \/ SubagentSpawn \/ SubagentJoin
            \/ SubagentSummarize
  BY <1>12, AuthLeave DEF SubagentPlan, SubagentContext, SubagentSpawn, SubagentJoin,
     SubagentSummarize, review, On, Judged, Nodes
<1> QED
  BY <1>1, <1>2, <1>3, <1>4, <1>5, <1>6, <1>7, <1>8, <1>9, <1>10, <1>11, <1>12
  DEF Next, RunStep

\* Whatever the policy, the caps and the reviewers' answers: no tool runs that was not
\* allowed, and none that needs a reviewer runs on the approval of another turn.
THEOREM ToolsAuthorised == Spec => []ToolsAreAuthorised
<1>1. Init => AuthInv
  BY DEF Init, AuthInv, On, Judged
<1>2. AuthInv /\ [Next]_vars => AuthInv'
  BY AuthNext
<1>3. AuthInv => ToolsAreAuthorised
  BY AuthImplies
<1> QED
  BY <1>1, <1>2, <1>3, PTL DEF Spec

-----------------------------------------------------------------------------
(* Delegation. The flag the gate reads is the current request's, and the    *)
(* tasks, the children's inputs and their records are those of this turn.   *)

OfThisTurn(ts) == \A i \in DOMAIN ts : ts[i] = [turn |-> Turn, id |-> i]

DelegationInv ==
    /\ at \in {"post_tool_hooks", "tool_history_digest", "subagent_gate"} =>
          delegate = (request.tool = "subagent")
    /\ at = "subagent_context" => OfThisTurn(tasks)
    /\ at = "subagent_spawn" => OfThisTurn(inputs)
    /\ at = "subagent_summarize" => joined = records
    /\ DelegationIsReported

\* Nodes the invariant says nothing about.
Silent == Nodes \ (Pipeline \union {"post_tool_hooks", "tool_history_digest",
                                    "subagent_gate", "compaction_gate"})

LEMMA DelegationLeave ==
    ASSUME DelegationInv, at \in Silent, NEW n \in Silent, Enter(n)
    PROVE  DelegationInv'
<1>1. at' \in Silent
  BY DEF Enter, Ends
<1> QED
  BY <1>1 DEF DelegationInv, DelegationIsReported, Silent, Pipeline

LEMMA DelegationNext ==
    ASSUME LoopAssumption, TypeInv, DelegationInv, [Next]_vars
    PROVE  DelegationInv'
<1>1. CASE UNCHANGED vars
  BY <1>1 DEF vars, progress, turn, memory, delegation, DelegationInv, DelegationIsReported,
     OfThisTurn, Turn, AllOk
<1>2. CASE Pause \/ HookFails \/ ToolRaises \/ ProviderFails \/ SpawnFails
  BY <1>2 DEF Pause, HookFails, ToolRaises, ProviderFails, SpawnFails, Ends, turn, memory,
     delegation, DelegationInv, DelegationIsReported, OfThisTurn, Turn, AllOk
<1>3. CASE \E d \in {"approved", "rejected"} : Decide(d)
  BY <1>3 DEF Decide, turn, memory, delegation, DelegationInv, DelegationIsReported,
     OfThisTurn, Turn, AllOk
<1>4. CASE AgentStartup \/ Planner \/ PlanNormalize \/ AgentModel \/ ToolRoute
           \/ PermissionRoute \/ ToolApproval \/ PreToolHooks
  BY <1>4, DelegationLeave DEF AgentStartup, Planner, PlanNormalize, AgentModel, ToolRoute,
     PermissionRoute, ToolApproval, PreToolHooks, Step, On, Silent, Pipeline, Nodes
<1>5. CASE AgentContext \/ AgentResponseParser \/ PermissionGate \/ ContextCompactor
  BY <1>5, DelegationLeave DEF AgentContext, AgentResponseParser, PermissionGate,
     ContextCompactor, On, Silent, Pipeline, Nodes
<1>6. CASE LoopGate
  <2>1. at = "loop_gate" /\ at' \in Silent
    BY <1>6 DEF LoopGate, Enter, Ends, On, Silent, Pipeline, Nodes
  <2> QED
    BY <2>1 DEF DelegationInv, DelegationIsReported, Silent, Pipeline
<1>7. CASE ToolExecutor
  <2>1. /\ at' \in {"tool_executor", "post_tool_hooks"}
        /\ delegate' = (request.tool = "subagent") /\ request' = request
    BY <1>7 DEF ToolExecutor, Enter, Ends, On
  <2> QED
    BY <2>1 DEF DelegationInv, DelegationIsReported, Pipeline
<1>8. CASE PostToolHooks \/ ToolHistoryDigest
  BY <1>8 DEF PostToolHooks, ToolHistoryDigest, Step, On, Enter, Ends, turn,
     DelegationInv, DelegationIsReported, Pipeline
<1>9. CASE SubagentGate
  BY <1>9 DEF SubagentGate, Step, On, Enter, Ends, turn, DelegationInv,
     DelegationIsReported, Pipeline
<1>10. CASE SubagentPlan
  <2>1. OfThisTurn(tasks)' /\ at' \in {"subagent_plan", "subagent_context"}
    BY <1>10 DEF SubagentPlan, ThisTurnsTasks, OfThisTurn, Turn, Enter, Ends, On
  <2> QED
    BY <1>10, <2>1 DEF SubagentPlan, On, turn, DelegationInv, DelegationIsReported, Pipeline
<1>11. CASE SubagentContext
  <2>1. OfThisTurn(inputs)' /\ at' \in {"subagent_context", "subagent_spawn"}
    BY <1>11 DEF SubagentContext, DelegationInv, OfThisTurn, Turn, Enter, Ends, On
  <2>2. OfThisTurn(tasks)'
    BY <1>11 DEF SubagentContext, DelegationInv, OfThisTurn, Turn, On
  <2> QED
    BY <1>11, <2>1, <2>2 DEF SubagentContext, On, turn, DelegationInv, DelegationIsReported,
       Pipeline
<1>12. CASE SubagentSpawn
  <2>1. OfThisTurn(inputs) /\ at' \in {"subagent_spawn", "subagent_join"}
    BY <1>12 DEF SubagentSpawn, DelegationInv, Enter, Ends, On
  <2>2. OfThisTurn(inputs)'
    BY <1>12, <2>1 DEF SubagentSpawn, OfThisTurn, Turn
  <2>3. \A i \in DOMAIN records' : records'[i].task = [turn |-> Turn', id |-> i]
    BY <1>12, <2>1 DEF SubagentSpawn, OfThisTurn, Turn
  <2>4. request.tool = "subagent" /\ request' = request
    BY <1>12 DEF SubagentSpawn, DelegationInv, DelegationIsReported, Pipeline, On
  <2> QED
    BY <2>1, <2>2, <2>3, <2>4 DEF DelegationInv, DelegationIsReported, Pipeline
<1>13. CASE SubagentJoin
  BY <1>13 DEF SubagentJoin, Enter, Ends, On, memory, Turn, DelegationInv,
     DelegationIsReported, Pipeline
<1>14. CASE SubagentSummarize
  <2>1. /\ at = "subagent_summarize" /\ at' \in {"subagent_summarize", "compaction_gate"}
        /\ joined = records
    BY <1>14 DEF SubagentSummarize, Enter, Ends, On, DelegationInv
  <2>2. UNCHANGED <<request, count, records, joined>>
    BY <1>14 DEF SubagentSummarize, delegation
  <2>3. history \in Seq(Outcomes)
    BY DEF TypeInv, TypeOK
  <2>4. history'[Len(history')]
           = [turn |-> Turn, kind |-> IF AllOk(records) THEN "ok" ELSE "partial"]
    BY <1>14, <2>1, <2>3 DEF SubagentSummarize, Note
  <2>5. AllOk(records)' = AllOk(records) /\ Turn' = Turn
    BY <2>2 DEF AllOk, Turn
  <2> QED
    BY <2>1, <2>2, <2>4, <2>5 DEF DelegationInv, DelegationIsReported, Pipeline
<1>15. CASE CompactionGate
  BY <1>15 DEF CompactionGate, Step, On, Enter, Ends, turn, memory, delegation, Turn, AllOk,
     DelegationInv, DelegationIsReported, Pipeline
<1> QED
  BY <1>1, <1>2, <1>3, <1>4, <1>5, <1>6, <1>7, <1>8, <1>9, <1>10, <1>11, <1>12, <1>13,
     <1>14, <1>15 DEF Next, RunStep

\* A delegated request is the only way into the child runs, they are given the tasks of
\* its turn, and the model sees how they ended before it is called again.
THEOREM DelegationReported == Spec => []DelegationIsReported
<1>1. Init => TypeInv /\ DelegationInv
  BY TypeInit, LoopAssumption DEF Init, DelegationInv, DelegationIsReported, Pipeline
<1>2. TypeInv /\ DelegationInv /\ [Next]_vars => (TypeInv /\ DelegationInv)'
  BY TypeNext, DelegationNext, LoopAssumption
<1>3. DelegationInv => DelegationIsReported
  BY DEF DelegationInv
<1> QED
  BY <1>1, <1>2, <1>3, PTL DEF Spec

-----------------------------------------------------------------------------
(* The tool history. recent is a suffix of it, whatever is appended and     *)
(* however often it is compacted.                                           *)

EndsWith(h, r) ==
    /\ Len(r) <= Len(h)
    /\ \A i \in 1..Len(r) : r[i] = h[Len(h) - Len(r) + i]

HistoryInv ==
    /\ at \in {"startup", "context_loader"} => recent = <<>>
    /\ Len(recent) <= PreserveLast
    /\ EndsWith(history, recent)

\* Appending to both keeps a suffix a suffix, and so does forgetting its oldest entries.
LEMMA AppendKeepsSuffix ==
    ASSUME NEW S, NEW h \in Seq(S), NEW r \in Seq(S), NEW e \in S, NEW n \in Nat,
           EndsWith(h, r)
    PROVE  /\ EndsWith(Append(h, e), Latest(Append(r, e), n))
           /\ Len(Latest(Append(r, e), n)) <= n
<1> DEFINE hh == Append(h, e)
           rr == Append(r, e)
           ll == Latest(rr, n)
<1>1. /\ hh \in Seq(S) /\ Len(hh) = Len(h) + 1
      /\ \A i \in 1..Len(h) : hh[i] = h[i]
      /\ hh[Len(h) + 1] = e
  BY AppendProperties
<1>2. /\ rr \in Seq(S) /\ Len(rr) = Len(r) + 1
      /\ \A i \in 1..Len(r) : rr[i] = r[i]
      /\ rr[Len(r) + 1] = e
  BY AppendProperties
<1>3. /\ ll \in Seq(S)
      /\ Len(ll) = IF Len(rr) > n THEN n ELSE Len(rr)
      /\ \A i \in 1..Len(ll) : ll[i] = rr[Len(rr) - Len(ll) + i]
  BY <1>2, LatestSeq
<1>4. Len(h) \in Nat /\ Len(r) \in Nat /\ Len(ll) \in Nat
  BY <1>3
<1> HIDE DEF hh, rr, ll
<1>5. \A i \in 1..Len(rr) : rr[i] = hh[Len(hh) - Len(rr) + i]
  <2> SUFFICES ASSUME NEW i \in 1..Len(rr) PROVE rr[i] = hh[Len(hh) - Len(rr) + i]
    OBVIOUS
  <2>1. CASE i = Len(r) + 1
    BY <1>1, <1>2, <1>4, <2>1
  <2>2. CASE i \in 1..Len(r)
    <3>1. Len(h) - Len(r) + i \in 1..Len(h)
      BY <1>4, <2>2 DEF EndsWith
    <3> QED
      BY <1>1, <1>2, <1>4, <2>2, <3>1 DEF EndsWith
  <2> QED
    BY <1>2, <1>4, <2>1, <2>2
<1>6. Len(ll) <= Len(rr) /\ Len(ll) <= n /\ Len(rr) <= Len(hh)
  BY <1>1, <1>2, <1>3, <1>4 DEF EndsWith
<1>7. \A i \in 1..Len(ll) : ll[i] = hh[Len(hh) - Len(ll) + i]
  <2> SUFFICES ASSUME NEW i \in 1..Len(ll) PROVE ll[i] = hh[Len(hh) - Len(ll) + i]
    OBVIOUS
  <2>1. Len(rr) - Len(ll) + i \in 1..Len(rr)
    BY <1>2, <1>4, <1>6
  <2>2. Len(hh) - Len(rr) + (Len(rr) - Len(ll) + i) = Len(hh) - Len(ll) + i
    BY <1>1, <1>2, <1>4
  <2> QED
    BY <1>3, <1>5, <2>1, <2>2
<1>8. Len(ll) <= Len(hh)
  BY <1>1, <1>2, <1>4, <1>6
<1> QED
  BY <1>6, <1>7, <1>8 DEF EndsWith, hh, rr, ll

\* Keeping the latest n entries keeps every suffix of at most n entries.
LEMMA LatestKeepsSuffix ==
    ASSUME NEW S, NEW h \in Seq(S), NEW r \in Seq(S), NEW n \in Nat,
           EndsWith(h, r), Len(r) <= n
    PROVE  EndsWith(Latest(h, n), r)
<1> DEFINE l == Latest(h, n)
<1>1. /\ l \in Seq(S)
      /\ Len(l) = IF Len(h) > n THEN n ELSE Len(h)
      /\ \A i \in 1..Len(l) : l[i] = h[Len(h) - Len(l) + i]
  BY LatestSeq
<1>2. Len(h) \in Nat /\ Len(r) \in Nat /\ Len(l) \in Nat
  BY <1>1
<1> HIDE DEF l
<1>3. Len(r) <= Len(l)
  BY <1>1, <1>2 DEF EndsWith
<1>4. ASSUME NEW i \in 1..Len(r) PROVE r[i] = l[Len(l) - Len(r) + i]
  <2>1. Len(l) - Len(r) + i \in 1..Len(l)
    BY <1>2, <1>3
  <2>2. Len(h) - Len(l) + (Len(l) - Len(r) + i) = Len(h) - Len(r) + i
    BY <1>2
  <2> QED
    BY <1>1, <2>1, <2>2 DEF EndsWith
<1> QED
  BY <1>3, <1>4 DEF EndsWith, l

LEMMA HistoryImplies == TypeInv /\ HistoryInv => HistoryKeepsTheLatest
<1> SUFFICES ASSUME TypeInv, HistoryInv PROVE HistoryKeepsTheLatest
  OBVIOUS
<1> DEFINE l == Latest(history, Len(recent))
<1>1. history \in Seq(Outcomes) /\ recent \in Seq(Outcomes) /\ Len(recent) \in Nat
  BY DEF TypeInv, TypeOK
<1>2. /\ l \in Seq(Outcomes)
      /\ Len(l) = IF Len(history) > Len(recent) THEN Len(recent) ELSE Len(history)
      /\ \A i \in 1..Len(l) : l[i] = history[Len(history) - Len(l) + i]
  BY <1>1, LatestSeq
<1>3. Len(history) \in Nat /\ Len(recent) <= Len(history)
  BY <1>1 DEF HistoryInv, EndsWith
<1> HIDE DEF l
<1>4. Len(l) = Len(recent)
  BY <1>1, <1>2, <1>3
<1>5. \A i \in 1..Len(l) : l[i] = recent[i]
  BY <1>2, <1>4 DEF HistoryInv, EndsWith
<1>6. l = recent
  BY <1>1, <1>2, <1>4, <1>5, SeqEqual
<1> QED
  BY <1>3, <1>6 DEF HistoryKeepsTheLatest, l

\* An outcome joins both.
LEMMA HistoryNote ==
    ASSUME LoopAssumption, TypeInv, HistoryInv,
           NEW k \in {"denied", "result", "ok", "partial"}, Note(k)
    PROVE  Len(recent') <= PreserveLast /\ EndsWith(history', recent')
<1> DEFINE e == [turn |-> Turn, kind |-> k]
<1>1. e \in Outcomes
  BY DEF Turn, Outcomes, TypeInv, TypeOK, LoopAssumption
<1>2. history \in Seq(Outcomes) /\ recent \in Seq(Outcomes) /\ PreserveLast \in Nat
  BY DEF TypeInv, TypeOK, LoopAssumption
<1>3. history' = Append(history, e) /\ recent' = Latest(Append(recent, e), PreserveLast)
  BY DEF Note
<1> QED
  BY <1>1, <1>2, <1>3, AppendKeepsSuffix DEF HistoryInv

LEMMA HistoryNext ==
    ASSUME LoopAssumption, PruningAssumption, TypeInv, HistoryInv, [Next]_vars
    PROVE  HistoryInv'
<1>1. CASE PermissionGate \/ ToolExecutor \/ SubagentSummarize
  <2>1. at' \notin {"startup", "context_loader"}
    BY <1>1 DEF PermissionGate, ToolExecutor, SubagentSummarize, On, Enter, Ends
  <2>2. \/ \E k \in {"denied", "result", "ok", "partial"} : Note(k)
        \/ UNCHANGED <<history, recent>>
    BY <1>1 DEF PermissionGate, ToolExecutor, SubagentSummarize
  <2>3. Len(recent') <= PreserveLast /\ EndsWith(history', recent')
    BY <2>2, HistoryNote DEF HistoryInv
  <2> QED
    BY <2>1, <2>3 DEF HistoryInv, EndsWith
<1>2. CASE ContextCompactor
  <2>1. /\ history' = Latest(Latest(history, PruneTo), PreserveLast) /\ recent' = recent
        /\ at' \notin {"startup", "context_loader"}
    BY <1>2 DEF ContextCompactor, On, Enter, Ends
  <2>2. /\ history \in Seq(Outcomes) /\ recent \in Seq(Outcomes) /\ Len(recent) \in Nat
        /\ PreserveLast \in Nat /\ PruneTo \in Nat /\ PreserveLast <= PruneTo
    BY DEF TypeInv, TypeOK, LoopAssumption, PruningAssumption
  <2>3. Len(recent) <= PruneTo /\ Len(recent) <= PreserveLast
    BY <2>2 DEF HistoryInv
  <2>4. EndsWith(Latest(history, PruneTo), recent) /\ Latest(history, PruneTo) \in Seq(Outcomes)
    BY <2>2, <2>3, LatestKeepsSuffix, LatestSeq DEF HistoryInv
  <2>5. EndsWith(history', recent)
    BY <2>1, <2>2, <2>3, <2>4, LatestKeepsSuffix
  <2> QED
    BY <2>1, <2>3, <2>5 DEF HistoryInv, EndsWith
<1>3. CASE AgentContext
  <2>1. recent = <<>> /\ history' = <<>> /\ recent' = recent
    BY <1>3 DEF AgentContext, On, HistoryInv
  <2>2. Len(recent') = 0 /\ Len(history') = 0 /\ PreserveLast \in Nat
    BY <2>1 DEF LoopAssumption
  <2> QED
    BY <2>1, <2>2 DEF HistoryInv, EndsWith
<1>4. ASSUME UNCHANGED <<history, recent>>,
             at' \in {"startup", "context_loader"} => at \in {"startup", "context_loader"}
      PROVE  HistoryInv'
  BY <1>4 DEF HistoryInv, EndsWith
<1>5. CASE UNCHANGED vars \/ (\E d \in {"approved", "rejected"} : Decide(d))
  BY <1>4, <1>5 DEF vars, progress, memory, Decide
<1>6. CASE Pause \/ HookFails \/ ToolRaises \/ ProviderFails \/ SpawnFails
  BY <1>4, <1>6 DEF Pause, HookFails, ToolRaises, ProviderFails, SpawnFails, Ends, memory
<1>7. CASE AgentStartup \/ Planner \/ PlanNormalize \/ AgentModel \/ ToolRoute
           \/ PermissionRoute \/ ToolApproval \/ PreToolHooks \/ PostToolHooks
           \/ ToolHistoryDigest \/ SubagentGate \/ CompactionGate
  BY <1>4, <1>7 DEF AgentStartup, Planner, PlanNormalize, AgentModel, ToolRoute,
     PermissionRoute, ToolApproval, PreToolHooks, PostToolHooks, ToolHistoryDigest,
     SubagentGate, CompactionGate, Step, On, Enter, Ends, memory
<1>8. CASE AgentResponseParser \/ SubagentPlan \/ SubagentContext \/ SubagentSpawn
           \/ SubagentJoin \/ LoopGate
  BY <1>4, <1>8 DEF AgentResponseParser, SubagentPlan, SubagentContext, SubagentSpawn,
     SubagentJoin, LoopGate, On, Enter, Ends, memory
<1> QED
  BY <1>1, <1>2, <1>3, <1>5, <1>6, <1>7, <1>8 DEF Next, RunStep

\* For every PreserveLast and every PruneTo that is no smaller: compaction loses no
\* outcome the model is promised.
THEOREM LatestAreKept == Spec => []HistoryKeepsTheLatest
<1>1. Init => TypeInv /\ HistoryInv
  BY TypeInit, LoopAssumption DEF Init, HistoryInv, EndsWith, LoopAssumption
<1>2. TypeInv /\ HistoryInv /\ [Next]_vars => (TypeInv /\ HistoryInv)'
  BY TypeNext, HistoryNext, LoopAssumption, PruningAssumption
<1>3. TypeInv /\ HistoryInv => HistoryKeepsTheLatest
  BY HistoryImplies
<1> QED
  BY <1>1, <1>2, <1>3, PTL DEF Spec

=============================================================================
