---------------------------- MODULE ApprovalFlow ----------------------------
(***************************************************************************)
(* Pausing a run at an approval node, deciding it, and resuming it and the *)
(* parent run whose subgraph node launched it: nodes/approval.py,           *)
(* nodes/subgraph.py and backend/approvals.py. Runs are threads that meet   *)
(* in the files of their run directories; every decide_approval call is one *)
(* more thread. Of a workflow only approval, subgraph and other nodes remain. *)
(***************************************************************************)
EXTENDS Integers, Sequences, FiniteSets

CONSTANTS
    Workflow,     \* workflow ids
    Entry,        \* Entry[w]: the node a run of w starts at
    Approval,     \* approval nodes
    Subgraph,     \* subgraph nodes
    Plain,        \* every other node
    End,          \* END
    Goto,         \* Goto[n][v]: the node after n; v is a verdict or "done"
    StateKey,     \* StateKey[n]: approval_state_key of an approval node
    Declared,     \* the keys WorkflowState declares: LangGraph drops the others
    Child,        \* Child[n]: the workflow of a subgraph node
    Roots,        \* each of Roots: the workflows that are started together
    Decider,      \* threads that call decide_approval
    MaxDecisions, \* bound: decisions that are accepted
    MaxRuns,      \* run ids the refinement mapping shows: no behaviour of a run creates more
    MaxVisits,    \* recursion_limit
    MaxCrashes,   \* bound: crashes of the process
    None

Verdict == {"approved", "rejected"}
Node == Approval \union Subgraph \union Plain
Key == {StateKey[n] : n \in Approval}

ASSUME FlowAssumption ==
    /\ Roots \subseteq Seq(Workflow)
    /\ Entry \in [Workflow -> Node]
    /\ Child \in [Subgraph -> Workflow]
    /\ \A n \in Approval : Goto[n] \in [Verdict -> Node \union {End}]
    /\ \A n \in Subgraph \union Plain : Goto[n]["done"] \in Node \union {End}
    /\ None \notin Node \union {End} /\ End \notin Node
    /\ Approval \intersect (Subgraph \union Plain) = {} /\ Subgraph \intersect Plain = {}
    /\ IsFiniteSet(Decider)
    /\ MaxDecisions \in Nat /\ MaxRuns \in Nat /\ MaxVisits \in Nat /\ MaxCrashes \in Nat

VARIABLES
    runs,      \* the run directories with the state of the run, in order of creation
    decider,   \* decider[d]: how far d's call of decide_approval is
    crashes,   \* crashes so far
    passed,    \* history: <<run, approval node, reviewed>> of every gate a run passed
    cut        \* history: continuations whose call ended without its record

vars == <<runs, decider, crashes, passed, cut>>

RunIds == DOMAIN runs
RunStatus == {"running", "pending_approval", "ok", "error"}
Run == [at : Node \union {End},                    \* the node the run is at
        keys : [Key -> Verdict \union {"none"}],   \* decisions in its state
        marker : Subgraph \union {None},           \* state["_subgraph_resume"]
        visits : Nat,                              \* supersteps
        live : BOOLEAN,                            \* its thread exists
        child : Nat,                               \* the run its subgraph node launched
        status : RunStatus,                        \* telemetry.db
        approval : Approval \union {None},         \* approval.json
        pending : Nat,                             \* pending_subgraph_approval.json
        parent : Nat,                              \* parent_run.json
        decision : Verdict \union {"none"},        \* approval_decision.json
        resumedBy : Nat,                           \* subgraph_decision.json
        source : Nat,                              \* history: the run it continues
        carries : Verdict \union {"none"},         \* history: the decision it was forked with
        grant : Approval \union {None},            \* history: the gate a reviewer decided, until passed
        launcher : Nat,                            \* history: the run that launched it ...
        first : Nat]                               \* ... or that started its chain of continuations

Stages == {"idle", "checked", "continuation", "parent", "record"}
Call == [stage : Stages, source : Nat, verdict : Verdict \union {"none"},
         run : Nat, parentRun : Nat]

TypeOK ==
    /\ runs \in Seq(Run)
    /\ decider \in [Decider -> Call]
    /\ crashes \in 0..MaxCrashes
    /\ passed \subseteq RunIds \X Approval \X BOOLEAN
    /\ cut \subseteq RunIds

NoDecisions == [k \in Key |-> "none"]

\* run_graph entered at node n with the decisions its initial state brings.
NewRun(n, keys, marker) ==
    [at |-> n, keys |-> [k \in Key |-> IF k \in Declared THEN keys[k] ELSE "none"],
     marker |-> marker, visits |-> 0, live |-> TRUE, child |-> 0, status |-> "running",
     approval |-> None, pending |-> 0, parent |-> 0, decision |-> "none", resumedBy |-> 0,
     source |-> 0, carries |-> "none", grant |-> None, launcher |-> 0,
     first |-> 0]

NoCall == [stage |-> "idle", source |-> 0, verdict |-> "none", run |-> 0, parentRun |-> 0]

Init ==
    /\ \E roots \in Roots :
          runs = [r \in DOMAIN roots |->
                     [NewRun(Entry[roots[r]], NoDecisions, None) EXCEPT !.first = r]]
    /\ decider = [d \in Decider |-> NoCall]
    /\ crashes = 0
    /\ passed = {}
    /\ cut = {}

-----------------------------------------------------------------------------
(* A run's own thread.                                                     *)

\* r's thread is at a node of N and has steps left.
At(r, N) ==
    /\ runs[r].live /\ runs[r].status = "running"
    /\ runs[r].at \in N
    /\ runs[r].visits < MaxVisits

Move(r, v) ==
    runs' = [runs EXCEPT ![r].at = Goto[runs[r].at][v], ![r].visits = @ + 1,
                         ![r].marker = None, ![r].child = 0, ![r].grant = None]

Recorded(r, status) == [runs EXCEPT ![r].status = status, ![r].live = FALSE]

EndRun(r) ==
    /\ runs[r].live /\ runs[r].status = "running"
    /\ runs[r].at = End
    /\ runs' = Recorded(r, "ok")
    /\ UNCHANGED <<decider, crashes, passed, cut>>

\* GraphRecursionError
ExhaustVisits(r) ==
    /\ runs[r].live /\ runs[r].status = "running"
    /\ runs[r].at # End
    /\ runs[r].visits >= MaxVisits
    /\ runs' = Recorded(r, "error")
    /\ UNCHANGED <<decider, crashes, passed, cut>>

Work(r) ==
    /\ At(r, Plain)
    /\ Move(r, "done") \/ runs' = Recorded(r, "error")
    /\ UNCHANGED <<decider, crashes, passed, cut>>

DecisionAt(r) == runs[r].keys[StateKey[runs[r].at]]

\* A decision in the state lets the node return; the dispatcher reads it again.
PassGate(r) ==
    /\ At(r, Approval)
    /\ runs[r].approval = None
    /\ DecisionAt(r) # "none"
    /\ Move(r, DecisionAt(r))
    /\ passed' = passed \union {<<r, runs[r].at, runs[r].grant = runs[r].at>>}
    /\ UNCHANGED <<decider, crashes, cut>>

WriteApproval(r) ==
    /\ At(r, Approval)
    /\ runs[r].approval = None
    /\ DecisionAt(r) = "none"
    /\ runs' = [runs EXCEPT ![r].approval = runs[r].at]
    /\ UNCHANGED <<decider, crashes, passed, cut>>

\* PendingApprovalError has come out of the stream, the status is recorded.
RecordPause(r) ==
    /\ At(r, Approval)
    /\ runs[r].approval # None
    /\ runs' = Recorded(r, "pending_approval")
    /\ UNCHANGED <<decider, crashes, passed, cut>>

\* The node was re-entered after the child's approval was decided.
PassSubgraph(r) ==
    /\ At(r, Subgraph)
    /\ runs[r].marker = runs[r].at
    /\ Move(r, "done")
    /\ UNCHANGED <<decider, crashes, passed, cut>>

StartChild(r) ==
    LET c == Len(runs) + 1
        new == NewRun(Entry[Child[runs[r].at]], NoDecisions, None)
    IN  runs' = Append([runs EXCEPT ![r].child = c],
                       [new EXCEPT !.launcher = r, !.first = c])

LaunchChild(r) ==
    /\ At(r, Subgraph)
    /\ runs[r].marker # runs[r].at
    /\ runs[r].child = 0
    /\ StartChild(r)
    /\ UNCHANGED <<decider, crashes, passed, cut>>

\* The child's workflow cannot be loaded.
FailLaunch(r) ==
    /\ At(r, Subgraph)
    /\ runs[r].marker # runs[r].at
    /\ runs[r].child = 0
    /\ runs' = Recorded(r, "error")
    /\ UNCHANGED <<decider, crashes, passed, cut>>

\* r's subgraph node has a child whose run_graph returned with this status.
ChildEnded(r, statuses) ==
    /\ At(r, Subgraph)
    /\ runs[r].child # 0
    /\ ~runs[runs[r].child].live
    /\ runs[runs[r].child].status \in statuses

\* Lineage is written, then a child that did not end "ok" raises SubgraphError.
FinishChild(r) ==
    /\ ChildEnded(r, {"ok", "error"})
    /\ LET c == runs[r].child
           linked == [runs EXCEPT ![c].parent = r]
       IN  runs' = IF runs[c].status = "ok"
                   THEN [linked EXCEPT ![r].at = Goto[runs[r].at]["done"],
                                       ![r].visits = @ + 1, ![r].child = 0]
                   ELSE [linked EXCEPT ![r].status = "error", ![r].live = FALSE]
    /\ UNCHANGED <<decider, crashes, passed, cut>>

\* pending_subgraph_approval.json in the parent ...
DelegatePause(r) ==
    /\ ChildEnded(r, {"pending_approval"})
    /\ runs[r].pending = 0
    /\ runs' = [runs EXCEPT ![r].pending = runs[r].child]
    /\ UNCHANGED <<decider, crashes, passed, cut>>

\* ... then parent_run.json in the child ...
LinkChild(r) ==
    /\ ChildEnded(r, {"pending_approval"})
    /\ runs[r].pending # 0
    /\ runs[runs[r].child].parent = 0
    /\ runs' = [runs EXCEPT ![runs[r].child].parent = r]
    /\ UNCHANGED <<decider, crashes, passed, cut>>

\* ... then PendingSubgraphApprovalError.
RecordDelegatedPause(r) ==
    /\ ChildEnded(r, {"pending_approval"})
    /\ runs[runs[r].child].parent = r
    /\ runs' = Recorded(r, "pending_approval")
    /\ UNCHANGED <<decider, crashes, passed, cut>>

-----------------------------------------------------------------------------
(* decide_approval                                                         *)

\* Seeded defect: the decision artifact is not looked for.
DecidableTwice(r) ==
    /\ runs[r].approval # None
    /\ runs[r].status = "pending_approval"

\* Seeded defect: the status is not looked at.
DecidableEarly(r) ==
    /\ runs[r].approval # None
    /\ runs[r].decision = "none"

\* approval.json exists, approval_decision.json does not, telemetry.db agrees.
Decidable(r) ==
    /\ runs[r].approval # None
    /\ runs[r].decision = "none"
    /\ runs[r].status = "pending_approval"

\* Seeded defect: the verdict is written to every decision key of the state.
VerdictForEveryKey(r, v) == [k \in Key |-> v]

\* Seeded defect: the paused state is carried over without the verdict.
VerdictDropped(r, v) == runs[r].keys

\* The paused state with the verdict in the key of the node that paused.
WithVerdict(r, v) == [runs[r].keys EXCEPT ![StateKey[runs[r].approval]] = v]

Decisions == {c \in RunIds : runs[c].carries # "none"}

\* The checks. A call they, or the loading of the workflow after them, refuse leaves
\* nothing behind.
Accept(d, r, v) ==
    /\ decider[d].stage = "idle"
    /\ Decidable(r)
    /\ Cardinality(Decisions) + Cardinality({e \in Decider : decider[e].stage = "checked"})
          < MaxDecisions
    /\ decider' = [decider EXCEPT ![d] = [stage |-> "checked", source |-> r, verdict |-> v,
                                         run |-> 0, parentRun |-> 0]]
    /\ UNCHANGED <<runs, crashes, passed, cut>>

\* The run that continues r from its approval node.
Continuation(r, v) ==
    [NewRun(runs[r].approval, WithVerdict(r, v), None) EXCEPT
        !.source = r, !.carries = v, !.grant = runs[r].approval, !.first = runs[r].first]

\* run_graph is entered: the continuation's directory and its start are on record.
Begin(d) ==
    /\ decider[d].stage = "checked"
    /\ runs' = Append(runs, Continuation(decider[d].source, decider[d].verdict))
    /\ decider' = [decider EXCEPT ![d].stage = "continuation", ![d].run = Len(runs) + 1]
    /\ UNCHANGED <<crashes, passed, cut>>

\* ... and raises, the workflow having lost the node or its shape: nobody catches it.
BeginRaises(d) ==
    /\ decider[d].stage = "checked"
    /\ LET new == Continuation(decider[d].source, decider[d].verdict)
       IN  runs' = Append(runs, [new EXCEPT !.live = FALSE])
    /\ decider' = [decider EXCEPT ![d] = NoCall]
    /\ cut' = cut \union {Len(runs) + 1}
    /\ UNCHANGED <<crashes, passed>>

\* Seeded defect: a continuation is not waited for.
ReturnedAtOnce(c) == TRUE

\* run_graph has returned: its status is final.
Returned(c) == ~runs[c].live /\ runs[c].status # "running"

\* Seeded defect: the continuation's status is not looked at.
ResumableWhateverStatus(d) ==
    LET p == runs[decider[d].source].parent
    IN  {q \in {p} \ {0} : runs[q].pending # 0}

\* The paused parent the decided run is linked to, if its continuation is to be forked.
ResumableParent(d) ==
    LET p == runs[decider[d].source].parent
    IN  {q \in {p} \ {0} : runs[decider[d].run].status = "ok" /\ runs[q].pending # 0}

ParentContinuation(p) ==
    [NewRun(runs[p].at, runs[p].keys, runs[p].at) EXCEPT !.source = p, !.first = runs[p].first]

ForkParent(d) ==
    /\ decider[d].stage = "continuation"
    /\ Returned(decider[d].run)
    /\ \E p \in ResumableParent(d) : runs' = Append(runs, ParentContinuation(p))
    /\ decider' = [decider EXCEPT ![d].stage = "parent", ![d].parentRun = Len(runs) + 1]
    /\ UNCHANGED <<crashes, passed, cut>>

\* ValueError and BuilderValidationError are not caught: the parent's workflow does not
\* validate, or its run_graph raises with the start of a run on record.
ParentRaises(d) ==
    /\ decider[d].stage = "continuation"
    /\ Returned(decider[d].run)
    /\ \E p \in ResumableParent(d) :
          \/ runs' = runs
          \/ runs' = Append(runs, [ParentContinuation(p) EXCEPT !.live = FALSE])
    /\ decider' = [decider EXCEPT ![d] = NoCall]
    /\ cut' = cut \union {decider[d].run}
    /\ UNCHANGED <<crashes, passed>>

\* OSError, FileNotFoundError and JSONDecodeError are: the parent is left alone.
LeaveParent(d) ==
    /\ decider[d].stage = "continuation"
    /\ Returned(decider[d].run)
    /\ ResumableParent(d) # {}
    /\ decider' = [decider EXCEPT ![d].stage = "record"]
    /\ UNCHANGED <<runs, crashes, passed, cut>>

\* Seeded defect: a continuation that did not end "ok" leaves the call without an end.
SkipParentIfOk(d) ==
    /\ decider[d].stage = "continuation"
    /\ Returned(decider[d].run)
    /\ ResumableParent(d) = {}
    /\ runs[decider[d].run].status = "ok"
    /\ decider' = [decider EXCEPT ![d].stage = "record"]
    /\ UNCHANGED <<runs, crashes, passed, cut>>

SkipParent(d) ==
    /\ decider[d].stage = "continuation"
    /\ Returned(decider[d].run)
    /\ ResumableParent(d) = {}
    /\ decider' = [decider EXCEPT ![d].stage = "record"]
    /\ UNCHANGED <<runs, crashes, passed, cut>>

\* subgraph_decision.json in the parent's directory.
WriteParentDecision(d) ==
    /\ decider[d].stage = "parent"
    /\ Returned(decider[d].parentRun)
    /\ runs' = [runs EXCEPT ![runs[decider[d].source].parent].resumedBy =
                                decider[d].parentRun]
    /\ decider' = [decider EXCEPT ![d].stage = "record"]
    /\ UNCHANGED <<crashes, passed, cut>>

\* approval_decision.json
WriteDecision(d) ==
    /\ decider[d].stage = "record"
    /\ runs' = [runs EXCEPT ![decider[d].source].decision = decider[d].verdict]
    /\ decider' = [decider EXCEPT ![d] = NoCall]
    /\ UNCHANGED <<crashes, passed, cut>>

\* The continuations whose calls have begun and are not done.
InProgress == {decider[d].run : d \in {e \in Decider :
                                          decider[e].stage \notin {"idle", "checked"}}}

\* The process dies with every run and call in it; the files stay.
Crash ==
    /\ crashes < MaxCrashes
    /\ crashes' = crashes + 1
    /\ runs' = [r \in RunIds |-> [runs[r] EXCEPT !.live = FALSE]]
    /\ decider' = [d \in Decider |-> NoCall]
    /\ cut' = cut \union InProgress
    /\ UNCHANGED passed

-----------------------------------------------------------------------------
RunStep(r) ==
    \/ EndRun(r) \/ ExhaustVisits(r) \/ Work(r)
    \/ PassGate(r) \/ WriteApproval(r) \/ RecordPause(r)
    \/ PassSubgraph(r) \/ LaunchChild(r) \/ FailLaunch(r) \/ FinishChild(r)
    \/ DelegatePause(r) \/ LinkChild(r) \/ RecordDelegatedPause(r)

CallStep(d) ==
    \/ Begin(d) \/ BeginRaises(d)
    \/ ForkParent(d) \/ ParentRaises(d) \/ LeaveParent(d) \/ SkipParent(d)
    \/ WriteParentDecision(d) \/ WriteDecision(d)

Progress == (\E r \in RunIds : RunStep(r)) \/ (\E d \in Decider : CallStep(d))

Next ==
    \/ Progress
    \/ \E d \in Decider, r \in RunIds, v \in Verdict : Accept(d, r, v)
    \/ Crash

Spec == Init /\ [][Next]_vars

\* Threads are scheduled; nobody has to decide.
FairSpec == Spec /\ WF_vars(Progress)

-----------------------------------------------------------------------------
(* Safety.                                                                 *)

Continuations(r) == {c \in RunIds : runs[c].source = r}
VerdictRuns(r) == {c \in Continuations(r) : runs[c].carries # "none"}

\* A gate is passed with the verdict a reviewer gave for it; without one, only where
\* such a verdict for the same key had opened a gate of this chain of continuations:
\* it is still in the state (approval.py returns at once). Nothing else opens a gate.
GatesAreReviewed ==
    \A p \in passed : p[3] \/
        \E q \in passed : /\ q[3] /\ StateKey[q[2]] = StateKey[p[2]]
                          /\ runs[q[1]].first = runs[p[1]].first

\* A decision on record was carried out: a continuation forked with that verdict
\* has ended. Holds over crashes and concurrent deciders.
DecisionsAreBacked ==
    \A r \in RunIds : runs[r].decision # "none" =>
        \E c \in Continuations(r) :
            runs[c].carries = runs[r].decision /\ runs[c].status # "running"

\* A parent is resumed only behind a child whose every gate was decided: the run
\* that replaces the child's output has ended "ok", and the parent was paused for it.
ParentsWaitForChildren ==
    \A c \in RunIds : runs[c].marker # None /\ runs[c].source # 0 =>
        LET p == runs[c].source
        IN  /\ runs[p].pending # 0
            /\ \E k \in Continuations(runs[p].pending) : runs[k].status = "ok"

\* approval.json can be seen while the run's thread has still to record the pause: what
\* a reviewer continues is a run whose thread is gone and whose status is final.
DecidedRunsHavePaused ==
    \A c \in Decisions :
        LET r == runs[c].source IN ~runs[r].live /\ runs[r].status = "pending_approval"

\* A verdict takes the run past the gate it was given for, wherever WorkflowState
\* declares the gate's key; where it does not, LangGraph drops the verdict and the
\* continuation pauses at the same gate again.
VerdictsTakeEffect ==
    \A c \in Decisions :
        LET gate == runs[runs[c].source].approval
        IN  runs[c].approval # None =>
                (runs[c].approval = gate <=> StateKey[gate] \notin Declared)

\* A paused run is continued once for every reviewer who decides it at the same time,
\* and once more for every call that a crash or an exception cut off before its record:
\* a decision on record, and a call still waiting for its continuation, count.
OneRunPerCall ==
    \A r \in RunIds :
        Cardinality(VerdictRuns(r)) <=
            Cardinality(Decider) + Cardinality(VerdictRuns(r) \intersect cut)

\* The refinement mapping into ApprovalPromise.
Carrying(r, v) == {c \in VerdictRuns(r) : runs[c].carries = v}

CallOf(d) ==
    IF decider[d].stage = "idle" \/ decider[d].source \notin 1..MaxRuns
    THEN [run |-> 0, verdict |-> "none", begun |-> FALSE]
    ELSE [run |-> decider[d].source, verdict |-> decider[d].verdict,
          begun |-> decider[d].stage # "checked"]

Promise == INSTANCE ApprovalPromise
    WITH RunId <- 1..MaxRuns, Reviewer <- Decider,
         calls <- [d \in Decider |-> CallOf(d)],
         resumed <- [r \in 1..MaxRuns |-> [v \in Verdict |-> Cardinality(Carrying(r, v))]],
         recorded <- [r \in 1..MaxRuns |-> IF r \in RunIds THEN runs[r].decision ELSE "none"]

ImplementsPromise == Promise!Spec

\* What the handover document says was fixed: whatever the key, a continuation does not
\* pause again at the gate its verdict was given for.
EveryVerdictTakesEffect ==
    \A c \in Decisions : runs[c].approval # runs[runs[c].source].approval

-----------------------------------------------------------------------------
(* Liveness, under FairSpec.                                               *)

\* A decision whose continuation was started is recorded, whatever the continuation and
\* the parent's continuation end with, unless a crash or an exception cuts its call off:
\* again and again no decision is left without one or the other.
DecisionsAreRecorded ==
    []<>(\A c \in Decisions : c \in cut \/ runs[runs[c].source].decision # "none")

=============================================================================
