------------------------- MODULE ApprovalFlowProofs -------------------------
(***************************************************************************)
(* Proofs about ApprovalFlow for any workflows, runs, deciders, crashes and *)
(* exceptions that end a call.                                             *)
(***************************************************************************)
EXTENDS ApprovalFlow, FiniteSetTheorems, SequenceTheorems, TLAPS

-----------------------------------------------------------------------------
(* The inductive invariant: what a run's record says of itself and of the   *)
(* runs it names, and what a call of decide_approval has behind it.        *)

\* A thread belongs to a run without a final status, and a paused gate is where
\* its run stands, without a decision for it.
OwnInv(r) ==
    /\ runs[r].live => runs[r].status = "running"
    /\ runs[r].approval # None =>
          /\ runs[r].at = runs[r].approval
          /\ runs[r].keys[StateKey[runs[r].approval]] = "none"

\* A launched child is waited for at its subgraph node, a pause is delegated from
\* it once and for all, and a decided child is linked to the parent paused for it.
ChildInv(r) ==
    /\ runs[r].child # 0 =>
          /\ runs[r].child \in RunIds
          /\ runs[r].at \in Subgraph /\ runs[r].marker # runs[r].at
          /\ runs[r].visits < MaxVisits
          /\ runs[runs[r].child].live => runs[r].live
    /\ runs[r].pending # 0 =>
          /\ runs[r].pending = runs[r].child
          /\ runs[runs[r].child].status = "pending_approval"
    /\ runs[r].parent # 0 =>
          /\ runs[r].status # "running"
          /\ runs[r].status = "pending_approval" =>
                runs[r].parent \in RunIds /\ runs[runs[r].parent].pending = r
    /\ runs[r].launcher # 0 =>
          /\ runs[r].launcher \in RunIds
          /\ runs[r].live => runs[runs[r].launcher].child = r

\* A continuation names a run paused at a gate or for a child that was decided and
\* ended "ok"; a marker is brought by the second kind only; a recorded decision has
\* its continuation.
SourceInv(r) ==
    /\ runs[r].source # 0 => runs[r].source \in RunIds
    /\ runs[r].carries # "none" =>
          /\ runs[r].source # 0
          /\ runs[runs[r].source].approval # None
          /\ runs[runs[r].source].status = "pending_approval"
    /\ runs[r].source # 0 /\ runs[r].carries = "none" =>
          /\ runs[runs[r].source].pending # 0
          /\ \E k \in Continuations(runs[runs[r].source].pending) : runs[k].status = "ok"
    /\ runs[r].marker # None => runs[r].source # 0 /\ runs[r].carries = "none"
    /\ runs[r].decision # "none" =>
          \E c \in Continuations(r) :
              runs[c].carries = runs[r].decision /\ runs[c].status # "running"

RunInv(r) == OwnInv(r) /\ ChildInv(r) /\ SourceInv(r)

\* A call in progress is for a run that is paused at a gate; once begun it has a
\* continuation that carries its verdict, and has seen it end before it goes on.
CallInv(d) ==
    decider[d].stage # "idle" =>
        /\ decider[d].source \in RunIds
        /\ decider[d].verdict # "none"
        /\ runs[decider[d].source].approval # None
        /\ runs[decider[d].source].status = "pending_approval"
        /\ decider[d].stage # "checked" =>
              /\ decider[d].run \in RunIds
              /\ runs[decider[d].run].source = decider[d].source
              /\ runs[decider[d].run].carries = decider[d].verdict
              /\ decider[d].stage # "continuation" => runs[decider[d].run].status # "running"

RunsInv == \A r \in RunIds : RunInv(r)
CallsInv == \A d \in Decider : CallInv(d)

FlowInv == TypeOK /\ RunsInv /\ CallsInv

-----------------------------------------------------------------------------
(* Records and sequences of records.                                       *)

\* The fields of a run a step leaves alone.
SameOrigin(s) ==
    /\ runs'[s].source = runs[s].source /\ runs'[s].carries = runs[s].carries
    /\ runs'[s].keys = runs[s].keys /\ runs'[s].launcher = runs[s].launcher
    /\ runs'[s].first = runs[s].first
SamePlace(s) ==
    /\ runs'[s].at = runs[s].at /\ runs'[s].marker = runs[s].marker
    /\ runs'[s].visits = runs[s].visits /\ runs'[s].child = runs[s].child
    /\ runs'[s].grant = runs[s].grant
SameFiles(s) ==
    /\ runs'[s].approval = runs[s].approval /\ runs'[s].pending = runs[s].pending
    /\ runs'[s].decision = runs[s].decision
SameLife(s) == runs'[s].status = runs[s].status /\ runs'[s].live = runs[s].live
SameParent(s) == runs'[s].parent = runs[s].parent
SameRun(s) == SameOrigin(s) /\ SamePlace(s) /\ SameFiles(s) /\ SameLife(s) /\ SameParent(s)

\* A run id names a record.
LEMMA RunFields ==
    ASSUME TypeOK
    PROVE  /\ Len(runs) \in Nat /\ RunIds = 1..Len(runs)
           /\ \A r \in RunIds : runs[r] \in Run
BY LenProperties DEF TypeOK, RunIds

\* Replacing one record of a sequence of runs.
LEMMA ReplaceRun ==
    ASSUME NEW q \in Seq(Run), NEW r \in DOMAIN q, NEW x \in Run
    PROVE  /\ [q EXCEPT ![r] = x] \in Seq(Run)
           /\ Len([q EXCEPT ![r] = x]) = Len(q)
           /\ DOMAIN [q EXCEPT ![r] = x] = DOMAIN q
           /\ [q EXCEPT ![r] = x][r] = x
           /\ \A s \in DOMAIN q : s # r => [q EXCEPT ![r] = x][s] = q[s]
<1>1. r \in 1..Len(q) /\ DOMAIN q = 1..Len(q)
  BY LenProperties
<1> QED
  BY <1>1, ExceptSeq

\* Adding a record to a sequence of runs.
LEMMA AddRun ==
    ASSUME NEW q \in Seq(Run), NEW x \in Run
    PROVE  /\ Append(q, x) \in Seq(Run)
           /\ Len(q) + 1 \in Nat \ {0}
           /\ Len(q) + 1 \notin DOMAIN q
           /\ DOMAIN Append(q, x) = DOMAIN q \union {Len(q) + 1}
           /\ Append(q, x)[Len(q) + 1] = x
           /\ \A s \in DOMAIN q : Append(q, x)[s] = q[s]
<1>1. Len(q) \in Nat /\ DOMAIN q = 1..Len(q)
  BY LenProperties
<1>2. Append(q, x) \in Seq(Run) /\ Len(Append(q, x)) = Len(q) + 1
  BY AppendProperties
<1>3. DOMAIN Append(q, x) = 1..(Len(q) + 1)
  BY <1>2, LenProperties
<1> QED
  BY <1>1, <1>2, <1>3, AppendProperties

\* A function on the ids of a sequence of runs is one.
LEMMA MapRuns ==
    ASSUME NEW q \in Seq(Run), NEW f \in [DOMAIN q -> Run]
    PROVE  f \in Seq(Run)
<1>1. Len(q) \in Nat /\ DOMAIN q = 1..Len(q)
  BY LenProperties
<1> QED
  BY <1>1, SeqDef

\* What every new run's record says.
Fresh(x) ==
    /\ x.visits = 0 /\ x.child = 0 /\ x.status = "running"
    /\ x.approval = None /\ x.pending = 0 /\ x.parent = 0 /\ x.decision = "none"

\* The keys a new run starts with: LangGraph keeps the declared ones.
Kept(x, keys) == \A k \in Key : x.keys[k] = IF k \in Declared THEN keys[k] ELSE "none"

\* The record of a new run.
LEMMA NewRunFields ==
    ASSUME NEW n \in Node, NEW keys \in [Key -> Verdict \union {"none"}],
           NEW marker \in Subgraph \union {None}, NEW x, x = NewRun(n, keys, marker)
    PROVE  /\ x \in Run /\ Fresh(x) /\ Kept(x, keys) /\ x.at = n /\ x.marker = marker
           /\ x.source = 0 /\ x.carries = "none" /\ x.grant = None /\ x.launcher = 0
<1>1. PICK kept \in [Key -> Verdict \union {"none"}] :
         kept = [k \in Key |-> IF k \in Declared THEN keys[k] ELSE "none"]
  OBVIOUS
<1>2. x = [at |-> n, keys |-> kept,
           marker |-> marker, visits |-> 0, live |-> TRUE, child |-> 0, status |-> "running",
           approval |-> None, pending |-> 0, parent |-> 0, decision |-> "none",
           resumedBy |-> 0, source |-> 0, carries |-> "none", grant |-> None,
           launcher |-> 0, first |-> 0]
  BY <1>1 DEF NewRun
<1>3. x.keys = kept
  BY <1>2
<1>4. x \in Run /\ Fresh(x) /\ x.at = n /\ x.marker = marker
      /\ x.source = 0 /\ x.carries = "none" /\ x.grant = None /\ x.launcher = 0
  BY <1>1, <1>2 DEF Run, RunStatus, Fresh
<1> QED
  BY <1>1, <1>3, <1>4 DEF Kept

\* A record that moves to another node, with and without its marker and grant.
LEMMA MovedFields ==
    ASSUME NEW x \in Run, NEW n \in Node \union {End}
    PROVE  LET moved == [x EXCEPT !.at = n, !.visits = @ + 1, !.child = 0]
               freed == [x EXCEPT !.at = n, !.visits = @ + 1, !.marker = None,
                                  !.child = 0, !.grant = None]
           IN  /\ moved \in Run /\ moved.at = n /\ moved.child = 0
               /\ freed \in Run /\ freed.at = n /\ freed.child = 0
               /\ freed.marker = None /\ freed.grant = None
<1>1. x.visits + 1 \in Nat
  BY DEF Run
<1> QED
  BY <1>1 DEF Run

-----------------------------------------------------------------------------
(* What the steps do.                                                      *)

\* A status is recorded.
LEMMA RecordedDoes ==
    ASSUME TypeOK, NEW r \in RunIds, NEW status \in RunStatus, runs' = Recorded(r, status)
    PROVE  /\ runs' \in Seq(Run) /\ RunIds' = RunIds
           /\ \A s \in RunIds : s # r => runs'[s] = runs[s]
           /\ runs'[r].status = status /\ runs'[r].live = FALSE
           /\ SameOrigin(r) /\ SamePlace(r) /\ SameFiles(r) /\ SameParent(r)
<1> DEFINE x == [runs[r] EXCEPT !.status = status, !.live = FALSE]
<1>1. runs \in Seq(Run) /\ runs[r] \in Run
  BY RunFields DEF TypeOK
<1>2. x \in Run
  BY <1>1 DEF Run
<1>3. runs' = [runs EXCEPT ![r] = x]
  BY <1>1 DEF Recorded, Run
<1>4. x.status = status /\ x.live = FALSE
  BY <1>1 DEF Run
<1>5. /\ runs' \in Seq(Run) /\ RunIds' = RunIds /\ runs'[r] = x
      /\ \A s \in RunIds : s # r => runs'[s] = runs[s]
  BY <1>1, <1>2, <1>3, ReplaceRun DEF RunIds
<1> QED
  BY <1>1, <1>4, <1>5 DEF Run, SameOrigin, SamePlace, SameFiles, SameParent

\* A run moves to the node its verdict, or the end of the node, leads to.
LEMMA MoveDoes ==
    ASSUME TypeOK, NEW r \in RunIds, NEW v,
           \/ runs[r].at \in Approval /\ v \in Verdict
           \/ runs[r].at \in Subgraph \union Plain /\ v = "done",
           Move(r, v)
    PROVE  /\ runs' \in Seq(Run) /\ RunIds' = RunIds
           /\ \A s \in RunIds : s # r => runs'[s] = runs[s]
           /\ runs'[r].at = Goto[runs[r].at][v] /\ runs'[r].marker = None
           /\ runs'[r].child = 0 /\ runs'[r].grant = None
           /\ SameOrigin(r) /\ SameLife(r) /\ SameFiles(r) /\ SameParent(r)
<1> DEFINE x == [runs[r] EXCEPT !.at = Goto[runs[r].at][v], !.visits = @ + 1,
                                !.marker = None, !.child = 0, !.grant = None]
<1>1. runs \in Seq(Run) /\ runs[r] \in Run
  BY RunFields DEF TypeOK
<1>2. Goto[runs[r].at][v] \in Node \union {End}
  <2>1. CASE runs[r].at \in Approval /\ v \in Verdict
    <3>1. Goto[runs[r].at] \in [Verdict -> Node \union {End}]
      BY <2>1, FlowAssumption DEF FlowAssumption
    <3> QED
      BY <2>1, <3>1
  <2>2. CASE runs[r].at \in Subgraph \union Plain /\ v = "done"
    BY <2>2, FlowAssumption DEF FlowAssumption
  <2> QED
    BY <2>1, <2>2
<1>3. /\ x \in Run
      /\ x.at = Goto[runs[r].at][v] /\ x.marker = None
      /\ x.child = 0 /\ x.grant = None
  BY <1>1, <1>2, MovedFields
<1>4. runs' = [runs EXCEPT ![r] = x]
  BY <1>1 DEF Move, Run
<1>5. /\ runs' \in Seq(Run) /\ RunIds' = RunIds /\ runs'[r] = x
      /\ \A s \in RunIds : s # r => runs'[s] = runs[s]
  BY <1>1, <1>3, <1>4, ReplaceRun DEF RunIds
<1> QED
  BY <1>1, <1>3, <1>5 DEF Run, SameOrigin, SameLife, SameFiles, SameParent

\* approval.json is written.
LEMMA WriteApprovalDoes ==
    ASSUME TypeOK, NEW r \in RunIds, WriteApproval(r)
    PROVE  /\ runs' \in Seq(Run) /\ RunIds' = RunIds
           /\ \A s \in RunIds : s # r => runs'[s] = runs[s]
           /\ runs'[r].approval = runs[r].at
           /\ runs'[r].pending = runs[r].pending /\ runs'[r].decision = runs[r].decision
           /\ SameOrigin(r) /\ SamePlace(r) /\ SameLife(r) /\ SameParent(r)
<1> DEFINE x == [runs[r] EXCEPT !.approval = runs[r].at]
<1>1. runs \in Seq(Run) /\ runs[r] \in Run /\ runs[r].at \in Approval
  BY RunFields DEF TypeOK, WriteApproval, At
<1>2. x \in Run
  BY <1>1 DEF Run
<1>3. runs' = [runs EXCEPT ![r] = x]
  BY <1>1 DEF WriteApproval, Run
<1>4. x.approval = runs[r].at
  BY <1>1 DEF Run
<1>5. /\ runs' \in Seq(Run) /\ RunIds' = RunIds /\ runs'[r] = x
      /\ \A s \in RunIds : s # r => runs'[s] = runs[s]
  BY <1>1, <1>2, <1>3, ReplaceRun DEF RunIds
<1> QED
  BY <1>1, <1>4, <1>5 DEF Run, SameOrigin, SamePlace, SameLife, SameParent

\* pending_subgraph_approval.json is written.
LEMMA DelegatePauseDoes ==
    ASSUME TypeOK, NEW r \in RunIds, DelegatePause(r)
    PROVE  /\ runs' \in Seq(Run) /\ RunIds' = RunIds
           /\ \A s \in RunIds : s # r => runs'[s] = runs[s]
           /\ runs'[r].pending = runs[r].child
           /\ runs'[r].approval = runs[r].approval /\ runs'[r].decision = runs[r].decision
           /\ SameOrigin(r) /\ SamePlace(r) /\ SameLife(r) /\ SameParent(r)
<1> DEFINE x == [runs[r] EXCEPT !.pending = runs[r].child]
<1>1. runs \in Seq(Run) /\ runs[r] \in Run
  BY RunFields DEF TypeOK
<1>2. x \in Run
  BY <1>1 DEF Run
<1>3. runs' = [runs EXCEPT ![r] = x]
  BY <1>1 DEF DelegatePause, Run
<1>4. x.pending = runs[r].child
  BY <1>1 DEF Run
<1>5. /\ runs' \in Seq(Run) /\ RunIds' = RunIds /\ runs'[r] = x
      /\ \A s \in RunIds : s # r => runs'[s] = runs[s]
  BY <1>1, <1>2, <1>3, ReplaceRun DEF RunIds
<1> QED
  BY <1>1, <1>4, <1>5 DEF Run, SameOrigin, SamePlace, SameLife, SameParent

\* parent_run.json of a run is written.
LEMMA LinkDoes ==
    ASSUME NEW q \in Seq(Run), NEW c \in DOMAIN q, NEW p \in Nat
    PROVE  LET linked == [q EXCEPT ![c].parent = p]
           IN  /\ linked \in Seq(Run) /\ DOMAIN linked = DOMAIN q
               /\ \A s \in DOMAIN q : s # c => linked[s] = q[s]
               /\ linked[c] = [q[c] EXCEPT !.parent = p]
<1> DEFINE x == [q[c] EXCEPT !.parent = p]
<1>1. q[c] \in Run
  BY LenProperties
<1>2. x \in Run
  BY <1>1 DEF Run
<1>3. [q EXCEPT ![c].parent = p] = [q EXCEPT ![c] = x]
  OBVIOUS
<1> QED
  BY <1>2, <1>3, ReplaceRun

LEMMA LinkChildDoes ==
    ASSUME TypeOK, NEW r \in RunIds, NEW c \in RunIds, c = runs[r].child, LinkChild(r)
    PROVE  /\ runs' \in Seq(Run) /\ RunIds' = RunIds
           /\ \A s \in RunIds : s # c => runs'[s] = runs[s]
           /\ runs'[c].parent = r
           /\ SameOrigin(c) /\ SamePlace(c) /\ SameLife(c) /\ SameFiles(c)
<1>1. runs \in Seq(Run) /\ runs[c] \in Run /\ r \in Nat
  BY RunFields DEF TypeOK
<1>2. runs' = [runs EXCEPT ![c].parent = r]
  BY DEF LinkChild
<1>3. /\ runs' \in Seq(Run) /\ RunIds' = RunIds
      /\ \A s \in RunIds : s # c => runs'[s] = runs[s]
      /\ runs'[c] = [runs[c] EXCEPT !.parent = r]
  BY <1>1, <1>2, LinkDoes DEF RunIds
<1> QED
  BY <1>1, <1>3 DEF Run, SameOrigin, SamePlace, SameLife, SameFiles

\* The parent's node goes on with, or fails with, the child that ended.
LEMMA FinishChildDoes ==
    ASSUME TypeOK, NEW r \in RunIds, NEW c \in RunIds, c = runs[r].child, c # r,
           FinishChild(r)
    PROVE  /\ runs' \in Seq(Run) /\ RunIds' = RunIds
           /\ \A s \in RunIds : s # c /\ s # r => runs'[s] = runs[s]
           /\ runs'[c].parent = r
           /\ SameOrigin(c) /\ SamePlace(c) /\ SameLife(c) /\ SameFiles(c)
           /\ SameOrigin(r) /\ SameFiles(r) /\ SameParent(r)
           /\ runs'[r].marker = runs[r].marker /\ runs'[r].grant = runs[r].grant
           /\ \/ /\ runs[c].status = "ok"
                 /\ runs'[r].at = Goto[runs[r].at]["done"] /\ runs'[r].child = 0
                 /\ SameLife(r)
              \/ /\ SamePlace(r)
                 /\ runs'[r].status = "error" /\ runs'[r].live = FALSE
<1> DEFINE linked == [runs EXCEPT ![c].parent = r]
           ok == [runs[r] EXCEPT !.at = Goto[runs[r].at]["done"], !.visits = @ + 1, !.child = 0]
           failed == [runs[r] EXCEPT !.status = "error", !.live = FALSE]
<1>1. runs \in Seq(Run) /\ runs[c] \in Run /\ runs[r] \in Run /\ r \in Nat
  BY RunFields DEF TypeOK
<1>2. runs[r].at \in Subgraph
  BY DEF FinishChild, ChildEnded, At
<1>3. /\ linked \in Seq(Run) /\ DOMAIN linked = RunIds
      /\ \A s \in RunIds : s # c => linked[s] = runs[s]
      /\ linked[c] = [runs[c] EXCEPT !.parent = r]
  BY <1>1, LinkDoes DEF RunIds
<1>4. /\ ok \in Run /\ ok.at = Goto[runs[r].at]["done"] /\ ok.child = 0
      /\ failed \in Run /\ failed.status = "error" /\ failed.live = FALSE
  <2>1. Goto[runs[r].at]["done"] \in Node \union {End}
    BY <1>2, FlowAssumption DEF FlowAssumption
  <2>2. failed \in Run /\ failed.status = "error" /\ failed.live = FALSE
    BY <1>1 DEF Run, RunStatus
  <2> QED
    BY <1>1, <2>1, <2>2, MovedFields
<1>5. linked[r] = runs[r]
  BY <1>3
<1>6. runs' = IF runs[c].status = "ok"
              THEN [linked EXCEPT ![r].at = Goto[runs[r].at]["done"],
                                  ![r].visits = @ + 1, ![r].child = 0]
              ELSE [linked EXCEPT ![r].status = "error", ![r].live = FALSE]
  BY DEF FinishChild
<1> HIDE DEF linked
<1>7. runs' = IF runs[c].status = "ok" THEN [linked EXCEPT ![r] = ok]
                                      ELSE [linked EXCEPT ![r] = failed]
  BY <1>1, <1>3, <1>5, <1>6 DEF Run
<1>8. /\ runs' \in Seq(Run) /\ RunIds' = RunIds
      /\ \A s \in RunIds : s # r => runs'[s] = linked[s]
      /\ runs'[r] = IF runs[c].status = "ok" THEN ok ELSE failed
  BY <1>3, <1>4, <1>7, ReplaceRun DEF RunIds
<1>9. runs'[c] = [runs[c] EXCEPT !.parent = r]
  BY <1>3, <1>8
<1>10. /\ runs'[c].parent = r
       /\ SameOrigin(c) /\ SamePlace(c) /\ SameLife(c) /\ SameFiles(c)
  BY <1>1, <1>9 DEF Run, SameOrigin, SamePlace, SameLife, SameFiles
<1>11. \A s \in RunIds : s # c /\ s # r => runs'[s] = runs[s]
  BY <1>3, <1>8
<1>12. CASE runs[c].status = "ok"
  <2>1. runs'[r] = ok
    BY <1>8, <1>12
  <2>2. SameOrigin(r) /\ SameFiles(r) /\ SameParent(r) /\ SameLife(r)
    BY <1>1, <2>1 DEF Run, SameOrigin, SameLife, SameFiles, SameParent
  <2>3. runs'[r].marker = runs[r].marker /\ runs'[r].grant = runs[r].grant
    BY <1>1, <2>1 DEF Run
  <2> QED
    BY <1>4, <1>8, <1>10, <1>11, <1>12, <2>1, <2>2, <2>3
<1>13. CASE runs[c].status # "ok"
  <2>1. runs'[r] = failed
    BY <1>8, <1>13
  <2>2. SameOrigin(r) /\ SameFiles(r) /\ SameParent(r) /\ SamePlace(r)
    BY <1>1, <2>1 DEF Run, SameOrigin, SamePlace, SameFiles, SameParent
  <2> QED
    BY <1>4, <1>8, <1>10, <1>11, <2>1, <2>2 DEF SamePlace
<1> QED
  BY <1>12, <1>13

\* A subgraph node launches its child.
LEMMA LaunchChildDoes ==
    ASSUME TypeOK, NEW r \in RunIds, NEW c, c = Len(runs) + 1, LaunchChild(r)
    PROVE  /\ runs' \in Seq(Run) /\ RunIds' = RunIds \union {c}
           /\ c \notin RunIds /\ c \in Nat \ {0}
           /\ \A s \in RunIds : s # r => runs'[s] = runs[s]
           /\ SameOrigin(r) /\ SameFiles(r) /\ SameLife(r) /\ SameParent(r)
           /\ runs'[r].at = runs[r].at /\ runs'[r].marker = runs[r].marker
           /\ runs'[r].visits = runs[r].visits /\ runs'[r].grant = runs[r].grant
           /\ runs'[r].child = c
           /\ Fresh(runs'[c]) /\ \A k \in Key : runs'[c].keys[k] = "none"
           /\ runs'[c].marker = None /\ runs'[c].launcher = r
           /\ runs'[c].source = 0 /\ runs'[c].carries = "none"
<1>1. /\ runs \in Seq(Run) /\ runs[r] \in Run /\ r \in Nat
      /\ c \in Nat \ {0} /\ c \notin RunIds
  BY RunFields DEF TypeOK
<1>2. PICK n \in Node : n = Entry[Child[runs[r].at]]
  <2>1. runs[r].at \in Subgraph
    BY DEF LaunchChild, At
  <2> QED
    BY <2>1, FlowAssumption DEF FlowAssumption
<1>3. NoDecisions \in [Key -> Verdict \union {"none"}] /\ \A k \in Key : NoDecisions[k] = "none"
  BY DEF NoDecisions
<1>4. PICK x : x = NewRun(n, NoDecisions, None)
  OBVIOUS
<1>5. /\ x \in Run /\ Fresh(x) /\ Kept(x, NoDecisions) /\ x.marker = None
      /\ x.source = 0 /\ x.carries = "none"
  BY <1>3, <1>4, NewRunFields
<1>6. PICK y : y = [x EXCEPT !.launcher = r, !.first = c]
  OBVIOUS
<1>7. /\ y \in Run /\ Fresh(y) /\ y.launcher = r /\ y.keys = x.keys /\ y.marker = None
      /\ y.source = 0 /\ y.carries = "none"
  <2>1. c \in Nat /\ r \in Nat
    BY <1>1
  <2>2. x \in Run
    BY <1>5
  <2>3. y \in Run
    BY <1>6, <2>1, <2>2 DEF Run
  <2>4. /\ y.launcher = r /\ y.keys = x.keys /\ y.marker = x.marker
        /\ y.source = x.source /\ y.carries = x.carries
    BY <1>6, <2>2 DEF Run
  <2> QED
    BY <1>5, <1>6, <2>2, <2>3, <2>4 DEF Run, Fresh
<1>8. PICK z \in Run : z = [runs[r] EXCEPT !.child = c]
  BY <1>1 DEF Run
<1>9. PICK q : q = [runs EXCEPT ![r] = z]
  OBVIOUS
<1>10. runs' = Append(q, y)
  <2>1. [runs EXCEPT ![r].child = c] = q
    BY <1>8, <1>9
  <2> QED
    BY <1>2, <1>4, <1>6, <2>1 DEF LaunchChild, StartChild
<1>11. q \in Seq(Run) /\ Len(q) = Len(runs) /\ DOMAIN q = RunIds /\ q[r] = z
       /\ \A s \in RunIds : s # r => q[s] = runs[s]
  BY <1>1, <1>9, ReplaceRun DEF RunIds
<1>12. /\ runs' \in Seq(Run) /\ RunIds' = RunIds \union {c} /\ runs'[c] = y
       /\ \A s \in RunIds : runs'[s] = q[s]
  BY <1>7, <1>10, <1>11, AddRun DEF RunIds
<1>13. /\ SameOrigin(r) /\ SameFiles(r) /\ SameLife(r) /\ SameParent(r)
       /\ runs'[r].at = runs[r].at /\ runs'[r].marker = runs[r].marker
       /\ runs'[r].visits = runs[r].visits /\ runs'[r].grant = runs[r].grant
       /\ runs'[r].child = c
  <2>1. runs'[r] = [runs[r] EXCEPT !.child = c]
    BY <1>8, <1>11, <1>12
  <2> QED
    BY <1>1, <2>1 DEF Run, SameOrigin, SameFiles, SameLife, SameParent
<1>14. \A k \in Key : runs'[c].keys[k] = "none"
  BY <1>3, <1>5, <1>7, <1>12 DEF Kept
<1> QED
  BY <1>1, <1>7, <1>11, <1>12, <1>13, <1>14

\* A decision's run continues the paused one, or has died at its start.
LEMMA BeginDoes ==
    ASSUME TypeOK, CallsInv, NEW d \in Decider, Begin(d) \/ BeginRaises(d),
           NEW c, c = Len(runs) + 1, NEW r, r = decider[d].source,
           NEW v, v = decider[d].verdict, NEW n, n = runs[r].approval
    PROVE  /\ runs' \in Seq(Run) /\ RunIds' = RunIds \union {c}
           /\ c \notin RunIds /\ c \in Nat \ {0} /\ r \in RunIds /\ v \in Verdict
           /\ \A s \in RunIds : runs'[s] = runs[s]
           /\ n \in Approval /\ n # None /\ runs[r].status = "pending_approval"
           /\ Fresh(runs'[c]) /\ runs'[c].at = n
           /\ Kept(runs'[c], WithVerdict(r, v))
           /\ runs'[c].marker = None /\ runs'[c].launcher = 0
           /\ runs'[c].source = r /\ runs'[c].carries = v /\ runs'[c].grant = n
           /\ runs'[c].first = runs[r].first
<1>1. CallInv(d) /\ decider[d].stage # "idle" /\ decider[d] \in Call
  BY DEF CallsInv, TypeOK, Begin, BeginRaises
<1>2. /\ r \in RunIds /\ v \in Verdict /\ n # None
      /\ runs[r].status = "pending_approval"
  BY <1>1 DEF CallInv, Call
<1>3. /\ runs \in Seq(Run) /\ runs[r] \in Run /\ r \in Nat
      /\ c \in Nat \ {0} /\ c \notin RunIds
  BY <1>2, RunFields DEF TypeOK
<1>4. /\ n \in Approval /\ runs[r].first \in Nat
      /\ runs[r].keys \in [Key -> Verdict \union {"none"}]
  BY <1>2, <1>3 DEF Run
<1>5. PICK keys \in [Key -> Verdict \union {"none"}] : keys = WithVerdict(r, v)
  BY <1>2, <1>4 DEF WithVerdict
<1>6. PICK x : x = NewRun(n, keys, None)
  OBVIOUS
<1>7. /\ x \in Run /\ Fresh(x) /\ Kept(x, keys) /\ x.at = n /\ x.marker = None
      /\ x.launcher = 0
  BY <1>4, <1>6, NewRunFields DEF Node
<1>8. PICK y : y = [x EXCEPT !.source = r, !.carries = v, !.grant = n, !.first = runs[r].first]
  OBVIOUS
<1>9. y = Continuation(r, v)
  BY <1>5, <1>6, <1>8 DEF Continuation
<1>10. /\ y \in Run /\ Fresh(y) /\ y.launcher = 0 /\ y.at = n /\ y.keys = x.keys
       /\ y.marker = None /\ y.source = r /\ y.carries = v /\ y.grant = n
       /\ y.first = runs[r].first
  <2>1. y \in Run
    <3>1. PICK f \in Nat : f = runs[r].first
      BY <1>4
    <3>2. PICK w : w = [x EXCEPT !.source = r, !.first = f]
      OBVIOUS
    <3>3. r \in Nat /\ x \in Run
      BY <1>3, <1>7
    <3>4. w \in Run
      BY <3>1, <3>2, <3>3 DEF Run
    <3>5. y = [w EXCEPT !.carries = v, !.grant = n]
      BY <1>8, <3>1, <3>2, <3>3 DEF Run
    <3>6. v \in Verdict /\ n \in Approval
      BY <1>2, <1>4
    <3> QED
      BY <3>4, <3>5, <3>6 DEF Run
  <2>2. /\ y.launcher = x.launcher /\ y.at = x.at /\ y.keys = x.keys /\ y.marker = x.marker
        /\ y.source = r /\ y.carries = v /\ y.grant = n /\ y.first = runs[r].first
    BY <1>7, <1>8 DEF Run
  <2>3. Fresh(y)
    BY <1>7, <1>8 DEF Run, Fresh
  <2> QED
    BY <1>7, <2>1, <2>2, <2>3
<1>11. PICK z : z \in {y, [y EXCEPT !.live = FALSE]} /\ runs' = Append(runs, z)
  BY <1>9 DEF Begin, BeginRaises
<1>12. /\ z \in Run /\ Fresh(z) /\ z.launcher = 0 /\ z.at = n /\ z.keys = x.keys
       /\ z.marker = None /\ z.source = r /\ z.carries = v /\ z.grant = n
       /\ z.first = runs[r].first
  BY <1>10, <1>11 DEF Run, Fresh
<1>13. /\ runs' \in Seq(Run) /\ RunIds' = RunIds \union {c} /\ runs'[c] = z
       /\ \A s \in RunIds : runs'[s] = runs[s]
  BY <1>3, <1>11, <1>12, AddRun DEF RunIds
<1>14. Kept(runs'[c], WithVerdict(r, v))
  BY <1>5, <1>7, <1>12, <1>13 DEF Kept
<1> QED
  BY <1>2, <1>3, <1>4, <1>12, <1>13, <1>14

\* The run c added to the runs continues p, which was paused at a subgraph node.
Forked(p, c) ==
    /\ runs' \in Seq(Run) /\ RunIds' = RunIds \union {c}
    /\ c \notin RunIds /\ c \in Nat \ {0}
    /\ \A s \in RunIds : runs'[s] = runs[s]
    /\ Fresh(runs'[c]) /\ runs'[c].at = runs[p].at /\ runs'[c].marker = runs[p].at
    /\ Kept(runs'[c], runs[p].keys)
    /\ runs'[c].launcher = 0 /\ runs'[c].grant = None
    /\ runs'[c].source = p /\ runs'[c].carries = "none"
    /\ runs'[c].first = runs[p].first

\* A parent's continuation is forked, or has died at its start.
LEMMA ForkDoes ==
    ASSUME TypeOK, NEW c, c = Len(runs) + 1,
           NEW p \in RunIds, runs[p].at \in Subgraph,
           NEW z, z \in {ParentContinuation(p), [ParentContinuation(p) EXCEPT !.live = FALSE]},
           runs' = Append(runs, z)
    PROVE  Forked(p, c)
<1>1. /\ runs \in Seq(Run) /\ runs[p] \in Run /\ p \in Nat
      /\ c \in Nat \ {0} /\ c \notin RunIds
  BY RunFields DEF TypeOK
<1>2. /\ runs[p].keys \in [Key -> Verdict \union {"none"}] /\ runs[p].first \in Nat
      /\ runs[p].at \in Node /\ runs[p].at \in Subgraph \union {None}
  BY <1>1 DEF Run, Node
<1>3. PICK x : x = NewRun(runs[p].at, runs[p].keys, runs[p].at)
  OBVIOUS
<1>4. /\ x \in Run /\ Fresh(x) /\ Kept(x, runs[p].keys)
      /\ x.at = runs[p].at /\ x.marker = runs[p].at
      /\ x.launcher = 0 /\ x.grant = None /\ x.carries = "none"
  <2>1. PICK n : n = runs[p].at
    OBVIOUS
  <2>2. PICK keys : keys = runs[p].keys
    OBVIOUS
  <2>3. /\ keys \in [Key -> Verdict \union {"none"}] /\ x = NewRun(n, keys, n)
        /\ n \in Node /\ n \in Subgraph \union {None}
    BY <1>2, <1>3, <2>1, <2>2
  <2>4. /\ x \in Run /\ Fresh(x) /\ Kept(x, keys) /\ x.at = n /\ x.marker = n
        /\ x.launcher = 0 /\ x.grant = None /\ x.carries = "none"
    BY <2>3, NewRunFields
  <2> QED
    BY <2>1, <2>2, <2>4
<1>5. PICK y : y = [x EXCEPT !.source = p, !.first = runs[p].first]
  OBVIOUS
<1>6. y = ParentContinuation(p)
  BY <1>3, <1>5 DEF ParentContinuation
<1>7. /\ y \in Run /\ Fresh(y) /\ y.keys = x.keys /\ y.at = x.at /\ y.marker = x.marker
      /\ y.launcher = 0 /\ y.grant = None /\ y.source = p /\ y.carries = "none"
      /\ y.first = runs[p].first
  BY <1>1, <1>2, <1>4, <1>5 DEF Run, Fresh
<1>8. /\ z \in Run /\ Fresh(z) /\ z.keys = x.keys /\ z.at = x.at /\ z.marker = x.marker
      /\ z.launcher = 0 /\ z.grant = None /\ z.source = p /\ z.carries = "none"
      /\ z.first = runs[p].first
  <2>1. z = y \/ z = [y EXCEPT !.live = FALSE]
    BY <1>6
  <2>2. CASE z = y
    BY <1>7, <2>2
  <2>3. CASE z = [y EXCEPT !.live = FALSE]
    BY <1>7, <2>3 DEF Run, Fresh
  <2> QED
    BY <2>1, <2>2, <2>3
<1>9. /\ runs' \in Seq(Run) /\ RunIds' = RunIds \union {c} /\ runs'[c] = z
      /\ \A s \in RunIds : runs'[s] = runs[s]
  BY <1>1, <1>8, AddRun DEF RunIds
<1>10. Kept(runs'[c], runs[p].keys)
  BY <1>4, <1>8, <1>9 DEF Kept
<1> QED
  BY <1>1, <1>4, <1>8, <1>9, <1>10 DEF Forked

\* subgraph_decision.json is written: nothing looks at it.
LEMMA WriteParentDecisionDoes ==
    ASSUME TypeOK, NEW d \in Decider, WriteParentDecision(d)
    PROVE  /\ runs' \in Seq(Run) /\ RunIds' = RunIds
           /\ \A s \in RunIds : SameRun(s)
<1>1. PICK p, n : /\ p = runs[decider[d].source].parent /\ n = decider[d].parentRun
                  /\ runs' = [runs EXCEPT ![p].resumedBy = n]
  BY DEF WriteParentDecision
<1>2. runs \in Seq(Run) /\ n \in Nat /\ \A s \in RunIds : runs[s] \in Run
  BY <1>1, RunFields DEF TypeOK, Call
<1>3. CASE p \in RunIds
  <2>1. PICK x : x = [runs[p] EXCEPT !.resumedBy = n]
    OBVIOUS
  <2>2. runs[p] \in Run
    BY <1>2, <1>3
  <2>3. x \in Run
    BY <1>2, <2>1, <2>2 DEF Run
  <2>4. runs' = [runs EXCEPT ![p] = x]
    BY <1>1, <2>1
  <2>5. /\ runs' \in Seq(Run) /\ RunIds' = RunIds /\ runs'[p] = x
        /\ \A s \in RunIds : s # p => runs'[s] = runs[s]
    BY <1>2, <1>3, <2>3, <2>4, ReplaceRun DEF RunIds
  <2>6. SameRun(p)
    BY <2>1, <2>2, <2>5
    DEF Run, SameRun, SameOrigin, SamePlace, SameFiles, SameLife, SameParent
  <2> QED
    BY <2>5, <2>6 DEF SameRun, SameOrigin, SamePlace, SameFiles, SameLife, SameParent
<1>4. CASE p \notin RunIds
  <2>1. runs \in [1..Len(runs) -> Run]
    BY <1>2, LenProperties
  <2>2. runs' = runs
    BY <1>1, <1>4, <2>1 DEF RunIds
  <2> QED
    BY <1>2, <2>2
    DEF RunIds, SameRun, SameOrigin, SamePlace, SameFiles, SameLife, SameParent
<1> QED
  BY <1>3, <1>4

\* approval_decision.json is written.
LEMMA WriteDecisionDoes ==
    ASSUME TypeOK, NEW d \in Decider, NEW r \in RunIds, r = decider[d].source, WriteDecision(d)
    PROVE  /\ runs' \in Seq(Run) /\ RunIds' = RunIds
           /\ \A s \in RunIds : s # r => runs'[s] = runs[s]
           /\ runs'[r].decision = decider[d].verdict
           /\ runs'[r].approval = runs[r].approval /\ runs'[r].pending = runs[r].pending
           /\ SameOrigin(r) /\ SamePlace(r) /\ SameLife(r) /\ SameParent(r)
<1>1. PICK v : v = decider[d].verdict /\ runs' = [runs EXCEPT ![r].decision = v]
  BY DEF WriteDecision
<1>2. runs \in Seq(Run) /\ v \in Verdict \union {"none"} /\ runs[r] \in Run
  BY <1>1, RunFields DEF TypeOK, Call
<1>3. PICK x : x = [runs[r] EXCEPT !.decision = v]
  OBVIOUS
<1>4. x \in Run
  BY <1>2, <1>3 DEF Run
<1>5. runs' = [runs EXCEPT ![r] = x]
  BY <1>1, <1>3
<1>6. /\ runs' \in Seq(Run) /\ RunIds' = RunIds /\ runs'[r] = x
      /\ \A s \in RunIds : s # r => runs'[s] = runs[s]
  BY <1>2, <1>4, <1>5, ReplaceRun DEF RunIds
<1>7. runs[r] \in Run /\ runs'[r] = [runs[r] EXCEPT !.decision = v]
  BY <1>2, <1>3, <1>6
<1>8. /\ runs'[r].decision = v
      /\ runs'[r].approval = runs[r].approval /\ runs'[r].pending = runs[r].pending
      /\ SameOrigin(r) /\ SamePlace(r) /\ SameLife(r) /\ SameParent(r)
  BY <1>7 DEF Run, SameOrigin, SamePlace, SameLife, SameParent
<1> QED
  BY <1>1, <1>6, <1>8

\* Every thread and call dies.
LEMMA CrashDoes ==
    ASSUME TypeOK, Crash
    PROVE  /\ runs' \in Seq(Run) /\ RunIds' = RunIds
           /\ \A s \in RunIds :
                 /\ SameOrigin(s) /\ SamePlace(s) /\ SameFiles(s) /\ SameParent(s)
                 /\ runs'[s].status = runs[s].status /\ runs'[s].live = FALSE
           /\ \A d \in Decider : decider'[d] = NoCall
           /\ cut' = cut \union InProgress
<1>1. runs \in Seq(Run) /\ \A s \in RunIds : runs[s] \in Run
  BY RunFields DEF TypeOK
<1>2. runs' = [r \in RunIds |-> [runs[r] EXCEPT !.live = FALSE]]
  BY DEF Crash
<1>3. ASSUME NEW s \in RunIds
      PROVE  /\ runs'[s] \in Run
             /\ SameOrigin(s) /\ SamePlace(s) /\ SameFiles(s) /\ SameParent(s)
             /\ runs'[s].status = runs[s].status /\ runs'[s].live = FALSE
  <2>1. runs[s] \in Run /\ runs'[s] = [runs[s] EXCEPT !.live = FALSE]
    BY <1>1, <1>2
  <2> QED
    BY <2>1 DEF Run, SameOrigin, SamePlace, SameFiles, SameParent
<1>4. runs' \in [DOMAIN runs -> Run]
  BY <1>2, <1>3 DEF RunIds
<1>5. runs' \in Seq(Run) /\ DOMAIN runs' = DOMAIN runs
  BY <1>1, <1>4, MapRuns
<1> QED
  BY <1>3, <1>5 DEF Crash, RunIds

-----------------------------------------------------------------------------
(* The invariant is kept. A record's own status, place, file or link        *)
(* changes, a record is added, or a call goes on.                          *)

\* A live run whose child is not live gets its status.
LEMMA RecordedKeepsRuns ==
    ASSUME TypeOK, RunsInv, NEW r \in RunIds, NEW status \in RunStatus \ {"running"},
           runs' = Recorded(r, status), runs[r].live,
           runs[r].child # 0 => ~runs[runs[r].child].live
    PROVE  RunsInv'
<1>1. /\ RunIds' = RunIds
      /\ \A s \in RunIds : s # r => runs'[s] = runs[s]
      /\ runs'[r].status = status /\ runs'[r].live = FALSE
      /\ SameOrigin(r) /\ SamePlace(r) /\ SameFiles(r) /\ SameParent(r)
  BY RecordedDoes
<1> SUFFICES ASSUME NEW s \in RunIds PROVE RunInv(s)'
  BY <1>1 DEF RunsInv
<1>2. RunInv(s) /\ RunInv(r)
  BY DEF RunsInv
<1>3. OwnInv(s)'
  BY <1>1, <1>2 DEF RunInv, OwnInv, SameOrigin, SamePlace, SameFiles
<1>4. ChildInv(s)'
  BY <1>1, <1>2 DEF RunInv, OwnInv, ChildInv, SameOrigin, SamePlace, SameFiles, SameParent
<1>5. SourceInv(s)'
  BY <1>1, <1>2
  DEF RunInv, OwnInv, SourceInv, Continuations, SameOrigin, SamePlace, SameFiles
<1> QED
  BY <1>3, <1>4, <1>5 DEF RunInv

\* A live run without a child or a pause moves on.
LEMMA MoveKeepsRuns ==
    ASSUME TypeOK, RunsInv, NEW r \in RunIds, NEW v,
           \/ runs[r].at \in Approval /\ v \in Verdict
           \/ runs[r].at \in Subgraph \union Plain /\ v = "done",
           runs[r].live, runs[r].child = 0, runs[r].approval = None, Move(r, v)
    PROVE  RunsInv'
<1>1. /\ RunIds' = RunIds
      /\ \A s \in RunIds : s # r => runs'[s] = runs[s]
      /\ runs'[r].marker = None /\ runs'[r].child = 0
      /\ SameOrigin(r) /\ SameLife(r) /\ SameFiles(r) /\ SameParent(r)
  BY MoveDoes
<1> SUFFICES ASSUME NEW s \in RunIds PROVE RunInv(s)'
  BY <1>1 DEF RunsInv
<1>2. RunInv(s) /\ RunInv(r)
  BY DEF RunsInv
<1>3. OwnInv(s)'
  BY <1>1, <1>2 DEF RunInv, OwnInv, SameOrigin, SameLife, SameFiles
<1>4. ChildInv(s)'
  BY <1>1, <1>2 DEF RunInv, OwnInv, ChildInv, SameOrigin, SameLife, SameFiles, SameParent
<1>5. SourceInv(s)'
  BY <1>1, <1>2
  DEF RunInv, OwnInv, SourceInv, Continuations, SameOrigin, SameLife, SameFiles
<1> QED
  BY <1>3, <1>4, <1>5 DEF RunInv

LEMMA WriteApprovalKeepsRuns ==
    ASSUME TypeOK, RunsInv, NEW r \in RunIds, WriteApproval(r)
    PROVE  RunsInv'
<1>1. /\ RunIds' = RunIds
      /\ \A s \in RunIds : s # r => runs'[s] = runs[s]
      /\ runs'[r].approval = runs[r].at
      /\ runs'[r].pending = runs[r].pending /\ runs'[r].decision = runs[r].decision
      /\ SameOrigin(r) /\ SamePlace(r) /\ SameLife(r) /\ SameParent(r)
  BY WriteApprovalDoes
<1>2. /\ runs[r].at \in Approval /\ None \notin Approval /\ runs[r].approval = None
      /\ runs[r].keys[StateKey[runs[r].at]] = "none" /\ runs[r].status = "running"
  BY FlowAssumption DEF FlowAssumption, Node, WriteApproval, At, DecisionAt
<1> SUFFICES ASSUME NEW s \in RunIds PROVE RunInv(s)'
  BY <1>1 DEF RunsInv
<1>3. RunInv(s) /\ RunInv(r)
  BY DEF RunsInv
<1>4. OwnInv(s)'
  BY <1>1, <1>2, <1>3 DEF RunInv, OwnInv, SameOrigin, SamePlace, SameLife
<1>5. ChildInv(s)'
  BY <1>1, <1>2, <1>3 DEF RunInv, OwnInv, ChildInv, SameOrigin, SamePlace, SameLife, SameParent
<1>6. SourceInv(s)'
  BY <1>1, <1>2, <1>3
  DEF RunInv, OwnInv, SourceInv, Continuations, SameOrigin, SamePlace, SameLife
<1> QED
  BY <1>4, <1>5, <1>6 DEF RunInv

LEMMA DelegatePauseKeepsRuns ==
    ASSUME TypeOK, RunsInv, NEW r \in RunIds, DelegatePause(r)
    PROVE  RunsInv'
<1>1. /\ RunIds' = RunIds
      /\ \A s \in RunIds : s # r => runs'[s] = runs[s]
      /\ runs'[r].pending = runs[r].child
      /\ runs'[r].approval = runs[r].approval /\ runs'[r].decision = runs[r].decision
      /\ SameOrigin(r) /\ SamePlace(r) /\ SameLife(r) /\ SameParent(r)
  BY DelegatePauseDoes
<1>2. /\ runs[r].pending = 0 /\ runs[r].child # 0
      /\ runs[runs[r].child].status = "pending_approval"
  BY DEF DelegatePause, ChildEnded
<1> SUFFICES ASSUME NEW s \in RunIds PROVE RunInv(s)'
  BY <1>1 DEF RunsInv
<1>3. RunInv(s) /\ RunInv(r) /\ s # 0
  BY RunFields DEF RunsInv
<1>4. OwnInv(s)'
  BY <1>1, <1>2, <1>3 DEF RunInv, OwnInv, SameOrigin, SamePlace, SameLife
<1>5. ChildInv(s)'
  BY <1>1, <1>2, <1>3 DEF RunInv, OwnInv, ChildInv, SameOrigin, SamePlace, SameLife, SameParent
<1>6. SourceInv(s)'
  BY <1>1, <1>2, <1>3
  DEF RunInv, OwnInv, SourceInv, Continuations, SameOrigin, SamePlace, SameLife
<1> QED
  BY <1>4, <1>5, <1>6 DEF RunInv

LEMMA LinkChildKeepsRuns ==
    ASSUME TypeOK, RunsInv, NEW r \in RunIds, LinkChild(r)
    PROVE  RunsInv'
<1>1. PICK c \in RunIds : c = runs[r].child
  BY DEF RunsInv, RunInv, ChildInv, LinkChild, ChildEnded
<1>2. /\ RunIds' = RunIds
      /\ \A s \in RunIds : s # c => runs'[s] = runs[s]
      /\ runs'[c].parent = r
      /\ SameOrigin(c) /\ SamePlace(c) /\ SameLife(c) /\ SameFiles(c)
  BY <1>1, LinkChildDoes
<1>3. runs[r].pending # 0 /\ runs[c].status = "pending_approval"
  BY <1>1 DEF LinkChild, ChildEnded
<1> SUFFICES ASSUME NEW s \in RunIds PROVE RunInv(s)'
  BY <1>2 DEF RunsInv
<1>4. RunInv(s) /\ RunInv(r) /\ RunInv(c)
  BY DEF RunsInv
<1>5. OwnInv(s)'
  BY <1>2, <1>3, <1>4 DEF RunInv, OwnInv, SameOrigin, SamePlace, SameLife, SameFiles
<1>6. ChildInv(s)'
  BY <1>1, <1>2, <1>3, <1>4 DEF RunInv, ChildInv, SameOrigin, SamePlace, SameLife, SameFiles
<1>7. SourceInv(s)'
  BY <1>2, <1>3, <1>4
  DEF RunInv, SourceInv, Continuations, SameOrigin, SamePlace, SameLife, SameFiles
<1> QED
  BY <1>5, <1>6, <1>7 DEF RunInv

\* What a run says of its origin stays, a status once it is final does.
Lasts(q) ==
    /\ SameOrigin(q) /\ SameFiles(q) /\ runs'[q].marker = runs[q].marker
    /\ \/ runs'[q].status = runs[q].status
       \/ runs[q].status = "running" /\ runs'[q].status # "running"

LEMMA SourceLasts ==
    ASSUME RunIds' = RunIds, \A q \in RunIds : Lasts(q), NEW s \in RunIds, SourceInv(s)
    PROVE  SourceInv(s)'
<1>1. \A q : Continuations(q)' = Continuations(q)
  BY DEF Continuations, Lasts, SameOrigin
<1>2. \A q : Continuations(q) \subseteq RunIds
  BY DEF Continuations
<1>3. /\ SameOrigin(s) /\ SameFiles(s) /\ runs'[s].marker = runs[s].marker
      /\ runs[s].source # 0 => Lasts(runs[s].source)
  BY DEF Lasts, SourceInv
<1>4. runs[s].decision # "none" =>
          \E c \in Continuations(s) :
              runs'[c].carries = runs[s].decision /\ runs'[c].status # "running"
  BY <1>2 DEF SourceInv, Lasts, SameOrigin
<1>5. runs[s].source # 0 /\ runs[s].carries = "none" =>
          \E k \in Continuations(runs[runs[s].source].pending) : runs'[k].status = "ok"
  BY <1>2 DEF SourceInv, Lasts
<1> QED
  BY <1>1, <1>3, <1>4, <1>5 DEF SourceInv, Lasts, SameOrigin, SameFiles

LEMMA FinishChildKeepsRuns ==
    ASSUME TypeOK, RunsInv, NEW r \in RunIds, FinishChild(r)
    PROVE  RunsInv'
<1>1. PICK c \in RunIds : c = runs[r].child
  BY DEF RunsInv, RunInv, ChildInv, FinishChild, ChildEnded
<1>2. /\ runs[r].live /\ ~runs[c].live /\ runs[c].status \in {"ok", "error"}
      /\ runs[r].at \in Subgraph /\ c # r
  BY <1>1 DEF FinishChild, ChildEnded, At
<1>3. /\ RunIds' = RunIds
      /\ \A s \in RunIds : s # c /\ s # r => runs'[s] = runs[s]
      /\ runs'[c].parent = r
      /\ SameOrigin(c) /\ SamePlace(c) /\ SameLife(c) /\ SameFiles(c)
      /\ SameOrigin(r) /\ SameFiles(r) /\ SameParent(r)
      /\ runs'[r].marker = runs[r].marker
      /\ \/ runs'[r].child = 0 /\ SameLife(r)
         \/ SamePlace(r) /\ runs'[r].status = "error" /\ runs'[r].live = FALSE
  <2>1. c = runs[r].child /\ c # r
    BY <1>1, <1>2
  <2> QED
    BY <2>1, FinishChildDoes
<1>4. RunInv(r) /\ RunInv(c)
  BY DEF RunsInv
<1>5. runs[r].pending = 0 /\ runs[r].approval = None
  BY <1>1, <1>2, <1>4, RunFields, FlowAssumption
  DEF RunInv, OwnInv, ChildInv, FlowAssumption, Run
<1> SUFFICES ASSUME NEW s \in RunIds PROVE RunInv(s)'
  BY <1>3 DEF RunsInv
<1>6. RunInv(s)
  BY DEF RunsInv
<1>7. OwnInv(s)' /\ ChildInv(s)'
  <2>1. CASE s = r
    <3>1. OwnInv(s)'
      BY <1>3, <1>4, <1>5, <2>1 DEF RunInv, OwnInv, SameLife, SameFiles
    <3>2. runs'[r].pending = 0 /\ runs'[r].parent = 0 /\ runs'[c].live = FALSE
      BY <1>2, <1>3, <1>4, <1>5, RunFields
      DEF RunInv, OwnInv, ChildInv, Run, SameLife, SameFiles, SameParent
    <3>3. CASE SamePlace(r) /\ runs'[r].live = FALSE
      BY <1>1, <1>3, <1>4, <2>1, <3>1, <3>2, <3>3 DEF RunInv, ChildInv, SameOrigin, SamePlace
    <3>4. CASE runs'[r].child = 0 /\ SameLife(r)
      BY <1>1, <1>2, <1>3, <1>4, <2>1, <3>1, <3>2, <3>4
      DEF RunInv, ChildInv, SameOrigin, SamePlace, SameLife
    <3> QED
      BY <1>3, <3>1, <3>3, <3>4
  <2>2. CASE s = c
    <3>1. OwnInv(s)'
      BY <1>3, <1>4, <2>2
      DEF RunInv, OwnInv, SameOrigin, SamePlace, SameLife, SameFiles
    <3>2. ChildInv(s)'
      BY <1>1, <1>2, <1>3, <1>4, <1>5, <2>2
      DEF RunInv, OwnInv, ChildInv, SameOrigin, SamePlace, SameLife, SameFiles, SameParent
    <3> QED
      BY <3>1, <3>2
  <2>3. CASE s # r /\ s # c
    <3>1. OwnInv(s)'
      BY <1>3, <1>6, <2>3 DEF RunInv, OwnInv
    <3>2. ChildInv(s)'
      BY <1>1, <1>2, <1>3, <1>4, <1>5, <1>6, <2>3
      DEF RunInv, OwnInv, ChildInv, SameOrigin, SamePlace, SameLife, SameFiles, SameParent
    <3> QED
      BY <3>1, <3>2
  <2> QED
    BY <2>1, <2>2, <2>3
<1>8. SourceInv(s)'
  <2>1. \A q \in RunIds : Lasts(q)
    <3>1. Lasts(c)
      BY <1>3 DEF Lasts, SamePlace, SameLife
    <3>2. runs[r].status = "running"
      BY <1>2, <1>4 DEF RunInv, OwnInv
    <3>3. Lasts(r)
      BY <1>3, <3>2 DEF Lasts, SamePlace, SameLife
    <3>4. ASSUME NEW q \in RunIds, q # c, q # r PROVE Lasts(q)
      BY <1>3, <3>4 DEF Lasts, SameOrigin, SameFiles
    <3> QED
      BY <3>1, <3>3, <3>4
  <2> QED
    BY <1>3, <1>6, <2>1, SourceLasts DEF RunInv
<1> QED
  BY <1>7, <1>8 DEF RunInv

LEMMA LaunchChildKeepsRuns ==
    ASSUME TypeOK, RunsInv, NEW r \in RunIds, LaunchChild(r)
    PROVE  RunsInv'
<1>1. PICK c : c = Len(runs) + 1
  OBVIOUS
<1>2. /\ RunIds' = RunIds \union {c} /\ c \notin RunIds /\ c # 0
      /\ \A s \in RunIds : s # r => runs'[s] = runs[s]
      /\ SameOrigin(r) /\ SameFiles(r) /\ SameLife(r) /\ SameParent(r)
      /\ runs'[r].at = runs[r].at /\ runs'[r].marker = runs[r].marker
      /\ runs'[r].visits = runs[r].visits
      /\ runs'[r].child = c
      /\ Fresh(runs'[c])
      /\ runs'[c].marker = None /\ runs'[c].launcher = r
      /\ runs'[c].source = 0 /\ runs'[c].carries = "none"
  BY <1>1, LaunchChildDoes
<1>3. /\ runs[r].live /\ runs[r].child = 0 /\ runs[r].visits < MaxVisits
      /\ runs[r].at \in Subgraph /\ runs[r].marker # runs[r].at
  BY DEF LaunchChild, At
<1>4. RunInv(r) /\ runs[r].pending = 0
  BY <1>3 DEF RunsInv, RunInv, ChildInv
<1>5. RunInv(c)'
  <2>1. OwnInv(c)'
    BY <1>2 DEF OwnInv, Fresh
  <2>2. ChildInv(c)'
    BY <1>2 DEF ChildInv, Fresh
  <2>3. SourceInv(c)'
    BY <1>2 DEF SourceInv, Fresh
  <2> QED
    BY <2>1, <2>2, <2>3 DEF RunInv
<1>6. ASSUME NEW s \in RunIds PROVE RunInv(s)'
  <2>1. RunInv(s) /\ s # 0 /\ s # c
    BY <1>2, RunFields DEF RunsInv
  <2>2. OwnInv(s)'
    BY <1>2, <1>4, <2>1 DEF RunInv, OwnInv, SameOrigin, SameFiles, SameLife
  <2>3. ChildInv(s)'
    <3>1. \A q \in RunIds : /\ runs'[q].live = runs[q].live
                            /\ runs'[q].status = runs[q].status
                            /\ runs'[q].pending = runs[q].pending
      BY <1>2 DEF SameFiles, SameLife
    <3>2. runs[s].launcher = r => ~runs[s].live
      BY <1>3, <2>1, RunFields DEF RunInv, ChildInv
    <3>3. CASE s = r
      BY <1>2, <1>3, <1>4, <3>1, <3>2, <3>3
      DEF RunInv, ChildInv, SameOrigin, SameFiles, SameLife, SameParent, Fresh
    <3>4. CASE s # r
      BY <1>2, <2>1, <3>1, <3>2, <3>4 DEF RunInv, ChildInv
    <3> QED
      BY <3>3, <3>4
  <2>4. SourceInv(s)'
    BY <1>2, <1>4, <2>1
    DEF RunInv, SourceInv, Continuations, SameOrigin, SameFiles, SameLife
  <2> QED
    BY <2>2, <2>3, <2>4 DEF RunInv
<1> QED
  BY <1>2, <1>5, <1>6 DEF RunsInv

\* Adding a run that continues another keeps what the records say, if that run does.
LEMMA AddedKeepsRuns ==
    ASSUME RunsInv, NEW c, c \notin RunIds, RunIds' = RunIds \union {c},
           \A s \in RunIds : runs'[s] = runs[s],
           Fresh(runs'[c]), runs'[c].launcher = 0, SourceInv(c)'
    PROVE  RunsInv'
<1>1. RunInv(c)'
  <2>1. OwnInv(c)' /\ ChildInv(c)'
    BY DEF OwnInv, ChildInv, Fresh
  <2> QED
    BY <2>1 DEF RunInv
<1>2. ASSUME NEW s \in RunIds PROVE RunInv(s)'
  <2>1. RunInv(s) /\ s # c
    BY DEF RunsInv
  <2>2. OwnInv(s)' /\ ChildInv(s)'
    BY <2>1 DEF RunInv, OwnInv, ChildInv
  <2>3. SourceInv(s)'
    BY <2>1 DEF RunInv, SourceInv, Continuations
  <2> QED
    BY <2>2, <2>3 DEF RunInv
<1> QED
  BY <1>1, <1>2 DEF RunsInv

LEMMA BeginKeepsRuns ==
    ASSUME TypeOK, RunsInv, CallsInv, NEW d \in Decider, Begin(d) \/ BeginRaises(d)
    PROVE  RunsInv'
<1>1. PICK c, r, v, n : /\ c = Len(runs) + 1 /\ r = decider[d].source
                        /\ v = decider[d].verdict /\ n = runs[r].approval
  OBVIOUS
<1>2. /\ RunIds' = RunIds \union {c} /\ c \notin RunIds /\ r \in RunIds /\ v \in Verdict
      /\ \A s \in RunIds : runs'[s] = runs[s]
      /\ n # None /\ runs[r].status = "pending_approval"
      /\ Fresh(runs'[c])
      /\ runs'[c].marker = None /\ runs'[c].launcher = 0
      /\ runs'[c].source = r /\ runs'[c].carries = v
  BY <1>1, BeginDoes
<1>3. r # 0
  BY <1>2, RunFields
<1>4. SourceInv(c)'
  BY <1>1, <1>2, <1>3 DEF SourceInv, Fresh, Verdict
<1> QED
  BY <1>2, <1>4, AddedKeepsRuns

\* The parent a decided run is linked to is paused for it.
LEMMA ParentIsPaused ==
    ASSUME TypeOK, RunsInv, CallsInv, NEW d \in Decider, decider[d].stage = "continuation",
           NEW p \in ResumableParent(d)
    PROVE  /\ p \in RunIds /\ p # 0 /\ runs[p].at \in Subgraph
           /\ runs[p].pending # 0 /\ runs[p].pending = decider[d].source
           /\ decider[d].run \in Continuations(decider[d].source)
           /\ runs[decider[d].run].status = "ok"
<1>1. PICK s, b : s = decider[d].source /\ b = decider[d].run
  OBVIOUS
<1>2. p = runs[s].parent /\ p # 0 /\ runs[p].pending # 0 /\ runs[b].status = "ok"
  BY <1>1 DEF ResumableParent
<1>3. /\ s \in RunIds /\ b \in RunIds /\ runs[b].source = s
      /\ runs[s].status = "pending_approval"
  BY <1>1 DEF CallsInv, CallInv
<1>4. p \in RunIds /\ runs[p].pending = s
  BY <1>2, <1>3 DEF RunsInv, RunInv, ChildInv
<1>5. runs[p].at \in Subgraph
  BY <1>2, <1>4 DEF RunsInv, RunInv, ChildInv
<1> QED
  BY <1>1, <1>2, <1>3, <1>4, <1>5 DEF Continuations

\* What a call that goes on to the parent, or raises there, does to the runs: nothing,
\* or it adds a continuation of the parent.
LEMMA ForkParentDoes ==
    ASSUME TypeOK, RunsInv, CallsInv, NEW d \in Decider, ForkParent(d) \/ ParentRaises(d),
           NEW c, c = Len(runs) + 1
    PROVE  \/ ParentRaises(d) /\ runs' = runs
           \/ \E p \in RunIds :
                 /\ runs' \in Seq(Run) /\ RunIds' = RunIds \union {c}
                 /\ c \notin RunIds /\ c \in Nat \ {0}
                 /\ \A s \in RunIds : runs'[s] = runs[s]
                 /\ Fresh(runs'[c]) /\ runs'[c].marker = runs[p].at
                 /\ Kept(runs'[c], runs[p].keys)
                 /\ runs'[c].launcher = 0
                 /\ runs'[c].source = p /\ runs'[c].carries = "none"
                 /\ runs'[c].first = runs[p].first
                 /\ p # 0 /\ runs[p].at \in Subgraph /\ runs[p].pending \in RunIds
                 /\ runs[p].pending # 0
                 /\ \E k \in Continuations(runs[p].pending) : runs[k].status = "ok"
<1>1. decider[d].stage = "continuation"
  BY DEF ForkParent, ParentRaises
<1>2. PICK p \in ResumableParent(d) :
         \/ ParentRaises(d) /\ runs' = runs
         \/ runs' = Append(runs, ParentContinuation(p))
         \/ runs' = Append(runs, [ParentContinuation(p) EXCEPT !.live = FALSE])
  BY DEF ForkParent, ParentRaises
<1>3. /\ p \in RunIds /\ p # 0 /\ runs[p].at \in Subgraph
      /\ runs[p].pending # 0 /\ runs[p].pending = decider[d].source
      /\ \E k \in Continuations(runs[p].pending) : runs[k].status = "ok"
  BY <1>1, ParentIsPaused
<1>4. runs[p].pending \in RunIds
  BY <1>1, <1>3 DEF CallsInv, CallInv
<1>5. CASE ParentRaises(d) /\ runs' = runs
  BY <1>5
<1>6. CASE \/ runs' = Append(runs, ParentContinuation(p))
           \/ runs' = Append(runs, [ParentContinuation(p) EXCEPT !.live = FALSE])
  <2>1. PICK z : /\ z \in {ParentContinuation(p), [ParentContinuation(p) EXCEPT !.live = FALSE]}
                 /\ runs' = Append(runs, z)
    BY <1>6
  <2>2. Forked(p, c)
    BY <1>3, <2>1, ForkDoes
  <2>3. /\ runs' \in Seq(Run) /\ RunIds' = RunIds \union {c}
        /\ c \notin RunIds /\ c \in Nat \ {0}
        /\ \A s \in RunIds : runs'[s] = runs[s]
        /\ Fresh(runs'[c]) /\ runs'[c].marker = runs[p].at
        /\ Kept(runs'[c], runs[p].keys)
        /\ runs'[c].launcher = 0
        /\ runs'[c].source = p /\ runs'[c].carries = "none"
        /\ runs'[c].first = runs[p].first
    BY <2>2 DEF Forked
  <2> QED
    BY <1>3, <1>4, <2>3
<1> QED
  BY <1>2, <1>5, <1>6

\* Steps that write nothing a run or a call reads again.
LEMMA SameKeepsRuns ==
    ASSUME RunsInv, RunIds' = RunIds, \A s \in RunIds : SameRun(s)
    PROVE  RunsInv'
<1> SUFFICES ASSUME NEW s \in RunIds PROVE RunInv(s)'
  BY DEF RunsInv
<1>1. RunInv(s)
  BY DEF RunsInv
<1>2. OwnInv(s)' /\ ChildInv(s)'
  BY <1>1 DEF SameRun, RunInv, OwnInv, ChildInv, SameOrigin, SamePlace, SameFiles, SameLife,
     SameParent
<1>3. SourceInv(s)'
  BY <1>1 DEF SameRun, RunInv, SourceInv, Continuations, SameOrigin, SamePlace, SameFiles,
     SameLife
<1> QED
  BY <1>2, <1>3 DEF RunInv

LEMMA SameRuns ==
    ASSUME runs' = runs
    PROVE  RunIds' = RunIds /\ \A s \in RunIds : SameRun(s)
BY DEF RunIds, SameRun, SameOrigin, SamePlace, SameFiles, SameLife, SameParent

LEMMA ForkParentKeepsRuns ==
    ASSUME TypeOK, RunsInv, CallsInv, NEW d \in Decider, ForkParent(d) \/ ParentRaises(d)
    PROVE  RunsInv'
<1>1. PICK c : c = Len(runs) + 1
  OBVIOUS
<1>2. CASE runs' = runs
  BY <1>2, SameRuns, SameKeepsRuns
<1>3. CASE \E p \in RunIds :
              /\ RunIds' = RunIds \union {c} /\ c \notin RunIds
              /\ \A s \in RunIds : runs'[s] = runs[s]
              /\ Fresh(runs'[c]) /\ runs'[c].launcher = 0
              /\ runs'[c].source = p /\ runs'[c].carries = "none"
              /\ p # 0 /\ runs[p].pending \in RunIds /\ runs[p].pending # 0
              /\ \E k \in Continuations(runs[p].pending) : runs[k].status = "ok"
  <2>1. SourceInv(c)'
    BY <1>3 DEF SourceInv, Fresh, Continuations
  <2> QED
    BY <1>3, <2>1, AddedKeepsRuns
<1> QED
  BY <1>1, <1>2, <1>3, ForkParentDoes

LEMMA WriteDecisionKeepsRuns ==
    ASSUME TypeOK, RunsInv, CallsInv, NEW d \in Decider, WriteDecision(d)
    PROVE  RunsInv'
<1>1. PICK r, c : r = decider[d].source /\ c = decider[d].run
  OBVIOUS
<1>2. /\ r \in RunIds /\ c \in RunIds /\ runs[c].source = r
      /\ runs[c].carries = decider[d].verdict /\ runs[c].status # "running"
  BY <1>1 DEF CallsInv, CallInv, WriteDecision
<1>3. /\ RunIds' = RunIds
      /\ \A s \in RunIds : s # r => runs'[s] = runs[s]
      /\ runs'[r].decision = decider[d].verdict
      /\ runs'[r].approval = runs[r].approval /\ runs'[r].pending = runs[r].pending
      /\ SameOrigin(r) /\ SamePlace(r) /\ SameLife(r) /\ SameParent(r)
  BY <1>1, <1>2, WriteDecisionDoes
<1> SUFFICES ASSUME NEW s \in RunIds PROVE RunInv(s)'
  BY <1>3 DEF RunsInv
<1>4. RunInv(s) /\ RunInv(r)
  BY <1>2 DEF RunsInv
<1>5. OwnInv(s)'
  BY <1>3, <1>4 DEF RunInv, OwnInv, SameOrigin, SamePlace, SameLife
<1>6. ChildInv(s)'
  BY <1>2, <1>3, <1>4 DEF RunInv, ChildInv, SameOrigin, SamePlace, SameLife, SameParent
<1>7. SourceInv(s)'
  BY <1>2, <1>3, <1>4
  DEF RunInv, SourceInv, Continuations, SameOrigin, SamePlace, SameLife
<1> QED
  BY <1>5, <1>6, <1>7 DEF RunInv

LEMMA CrashKeepsRuns ==
    ASSUME TypeOK, RunsInv, Crash
    PROVE  RunsInv'
<1>1. /\ RunIds' = RunIds
      /\ \A s \in RunIds :
            /\ SameOrigin(s) /\ SamePlace(s) /\ SameFiles(s) /\ SameParent(s)
            /\ runs'[s].status = runs[s].status /\ runs'[s].live = FALSE
  BY CrashDoes
<1> SUFFICES ASSUME NEW s \in RunIds PROVE RunInv(s)'
  BY <1>1 DEF RunsInv
<1>2. RunInv(s)
  BY DEF RunsInv
<1>3. OwnInv(s)' /\ ChildInv(s)'
  BY <1>1, <1>2
  DEF RunInv, OwnInv, ChildInv, SameOrigin, SamePlace, SameFiles, SameParent
<1>4. SourceInv(s)'
  BY <1>1, <1>2 DEF RunInv, SourceInv, Continuations, SameOrigin, SamePlace, SameFiles
<1> QED
  BY <1>3, <1>4 DEF RunInv

-----------------------------------------------------------------------------
(* Every step. What was recorded of a run stays, and a run that is added is *)
(* one a subgraph node launched or a continuation.                         *)

\* What no step takes back of run s.
Persists(s) ==
    /\ s \in RunIds' /\ SameOrigin(s)
    /\ runs[s].status # "running" => runs'[s].status = runs[s].status
    /\ runs[s].approval # None => runs'[s].approval = runs[s].approval
    /\ runs[s].pending # 0 => runs'[s].pending = runs[s].pending

\* Where a run that is at a node of this kind is not.
LEMMA NodeKinds ==
    ASSUME TypeOK, RunsInv, NEW r \in RunIds
    PROVE  /\ runs[r].at \in Subgraph \union Plain \union {End} => runs[r].approval = None
           /\ runs[r].at \in Approval \union Plain \union {End} =>
                 runs[r].child = 0 /\ runs[r].pending = 0
           /\ runs[r].marker = runs[r].at => runs[r].child = 0 /\ runs[r].pending = 0
<1>1. RunInv(r) /\ runs[r] \in Run
  BY RunFields DEF RunsInv
<1>2. runs[r].approval \in Approval \union {None}
  BY <1>1 DEF Run
<1>3. End \notin Approval \union Subgraph
  BY FlowAssumption DEF FlowAssumption, Node
<1>4. runs[r].at \in Approval \union Plain \union {End} => runs[r].at \notin Subgraph
  BY <1>3, FlowAssumption DEF FlowAssumption
<1>5. runs[r].at \in Subgraph \union Plain \union {End} => runs[r].at \notin Approval
  BY <1>3, FlowAssumption DEF FlowAssumption
<1> QED
  BY <1>1, <1>2, <1>4, <1>5 DEF RunInv, OwnInv, ChildInv

\* A step of a run's thread is of one of few kinds.
LEMMA RunStepKinds ==
    ASSUME TypeOK, RunsInv, NEW r \in RunIds, RunStep(r)
    PROVE  /\ decider' = decider /\ crashes' = crashes /\ cut' = cut
           /\ runs[r].live /\ runs[r].status = "running"
           /\ \/ \E status \in RunStatus \ {"running"} :
                    /\ runs' = Recorded(r, status) /\ passed' = passed
                    /\ runs[r].child # 0 => ~runs[runs[r].child].live
              \/ /\ Work(r) \/ PassSubgraph(r)
                 /\ runs[r].at \in Subgraph \union Plain /\ passed' = passed
                 /\ runs[r].child = 0 /\ runs[r].approval = None /\ Move(r, "done")
              \/ /\ PassGate(r) /\ Move(r, DecisionAt(r)) /\ DecisionAt(r) \in Verdict
                 /\ runs[r].at \in Approval /\ runs[r].child = 0 /\ runs[r].approval = None
              \/ /\ passed' = passed
                 /\ \/ WriteApproval(r) \/ LaunchChild(r) \/ FinishChild(r)
                    \/ DelegatePause(r) \/ LinkChild(r)
<1>1. /\ decider' = decider /\ crashes' = crashes /\ cut' = cut
      /\ runs[r].live /\ runs[r].status = "running"
  BY DEF RunStep, EndRun, ExhaustVisits, Work, PassGate, WriteApproval, RecordPause,
     PassSubgraph, LaunchChild, FailLaunch, FinishChild, DelegatePause, LinkChild, RecordDelegatedPause,
     At, ChildEnded
<1>2. CASE EndRun(r)
  <2>1. runs' = Recorded(r, "ok") /\ passed' = passed /\ runs[r].child = 0
    BY <1>2, NodeKinds DEF EndRun
  <2> QED
    BY <1>1, <2>1 DEF RunStatus
<1>3. CASE ExhaustVisits(r)
  <2>1. runs[r].child = 0
    <3>1. runs[r].visits \in Nat /\ MaxVisits \in Nat
      BY RunFields, FlowAssumption DEF FlowAssumption, Run
    <3>2. runs[r].child # 0 => runs[r].visits < MaxVisits
      BY DEF RunsInv, RunInv, ChildInv
    <3> QED
      BY <1>3, <3>1, <3>2 DEF ExhaustVisits
  <2>2. runs' = Recorded(r, "error") /\ passed' = passed
    BY <1>3 DEF ExhaustVisits
  <2> QED
    BY <1>1, <2>1, <2>2 DEF RunStatus
<1>4. CASE Work(r)
  <2>1. runs[r].at \in Plain /\ passed' = passed /\ runs[r].child = 0 /\ runs[r].approval = None
    BY <1>4, NodeKinds DEF Work, At
  <2>2. CASE Move(r, "done")
    BY <1>1, <1>4, <2>1, <2>2
  <2>3. CASE runs' = Recorded(r, "error")
    BY <1>1, <2>1, <2>3 DEF RunStatus
  <2> QED
    BY <1>4, <2>2, <2>3 DEF Work
<1>5. CASE PassGate(r)
  <2>1. runs[r].at \in Approval /\ runs[r].child = 0
    BY <1>5, NodeKinds DEF PassGate, At
  <2>2. DecisionAt(r) \in Verdict
    <3>1. runs[r].keys \in [Key -> Verdict \union {"none"}] /\ StateKey[runs[r].at] \in Key
      BY <2>1, RunFields DEF Run, Key
    <3>2. DecisionAt(r) \in Verdict \union {"none"}
      BY <3>1 DEF DecisionAt
    <3> QED
      BY <1>5, <3>2 DEF PassGate
  <2> QED
    BY <1>1, <1>5, <2>1, <2>2 DEF PassGate
<1>6. CASE RecordPause(r)
  <2>1. runs' = Recorded(r, "pending_approval") /\ passed' = passed /\ runs[r].child = 0
    BY <1>6, NodeKinds DEF RecordPause, At
  <2> QED
    BY <1>1, <2>1 DEF RunStatus
<1>7. CASE PassSubgraph(r)
  <2>1. /\ runs[r].at \in Subgraph /\ passed' = passed /\ Move(r, "done")
        /\ runs[r].child = 0 /\ runs[r].approval = None
    BY <1>7, NodeKinds DEF PassSubgraph, At
  <2> QED
    BY <1>1, <1>7, <2>1
<1>8. CASE FailLaunch(r)
  <2>1. runs' = Recorded(r, "error") /\ passed' = passed /\ runs[r].child = 0
    BY <1>8 DEF FailLaunch
  <2> QED
    BY <1>1, <2>1 DEF RunStatus
<1>9. CASE RecordDelegatedPause(r)
  <2>1. /\ runs' = Recorded(r, "pending_approval") /\ passed' = passed
        /\ ~runs[runs[r].child].live
    BY <1>9 DEF RecordDelegatedPause, ChildEnded
  <2> QED
    BY <1>1, <2>1 DEF RunStatus
<1>10. CASE \/ WriteApproval(r) \/ LaunchChild(r) \/ FinishChild(r)
           \/ DelegatePause(r) \/ LinkChild(r)
  <2>1. passed' = passed
    BY <1>10 DEF WriteApproval, LaunchChild, FinishChild, DelegatePause, LinkChild
  <2> QED
    BY <1>1, <1>10, <2>1
<1> QED
  BY <1>2, <1>3, <1>4, <1>5, <1>6, <1>7, <1>8, <1>9, <1>10 DEF RunStep

\* ... seen without what it does to the history of gates.
LEMMA RunStepMoves ==
    ASSUME TypeOK, RunsInv, NEW r \in RunIds, RunStep(r)
    PROVE  /\ runs[r].live /\ runs[r].status = "running"
           /\ \/ \E status \in RunStatus \ {"running"} :
                    /\ runs' = Recorded(r, status)
                    /\ runs[r].child # 0 => ~runs[runs[r].child].live
              \/ \E v \in Verdict \union {"done"} :
                    /\ \/ runs[r].at \in Approval /\ v \in Verdict
                       \/ runs[r].at \in Subgraph \union Plain /\ v = "done"
                    /\ runs[r].child = 0 /\ runs[r].approval = None /\ Move(r, v)
              \/ WriteApproval(r) \/ LaunchChild(r) \/ FinishChild(r)
              \/ DelegatePause(r) \/ LinkChild(r)
<1>1. /\ runs[r].live /\ runs[r].status = "running"
      /\ \/ \E status \in RunStatus \ {"running"} :
               /\ runs' = Recorded(r, status)
               /\ runs[r].child # 0 => ~runs[runs[r].child].live
         \/ /\ runs[r].at \in Subgraph \union Plain
            /\ runs[r].child = 0 /\ runs[r].approval = None /\ Move(r, "done")
         \/ /\ Move(r, DecisionAt(r)) /\ DecisionAt(r) \in Verdict
            /\ runs[r].at \in Approval /\ runs[r].child = 0 /\ runs[r].approval = None
         \/ WriteApproval(r) \/ LaunchChild(r) \/ FinishChild(r)
         \/ DelegatePause(r) \/ LinkChild(r)
  <2>1. runs[r].live /\ runs[r].status = "running"
    BY RunStepKinds
  <2>2. CASE \E status \in RunStatus \ {"running"} :
               /\ runs' = Recorded(r, status) /\ passed' = passed
               /\ runs[r].child # 0 => ~runs[runs[r].child].live
    BY <2>1, <2>2
  <2> QED
    BY <2>1, <2>2, RunStepKinds
<1>2. CASE /\ runs[r].at \in Subgraph \union Plain
           /\ runs[r].child = 0 /\ runs[r].approval = None /\ Move(r, "done")
  BY <1>1, <1>2
<1>3. CASE /\ Move(r, DecisionAt(r)) /\ DecisionAt(r) \in Verdict
           /\ runs[r].at \in Approval /\ runs[r].child = 0 /\ runs[r].approval = None
  <2>1. PICK v \in Verdict : v = DecisionAt(r)
    BY <1>3
  <2>2. Move(r, v)
    BY <1>3, <2>1
  <2> QED
    BY <1>1, <1>3, <2>2
<1> QED
  BY <1>1, <1>2, <1>3

\* Nothing is taken back, no decision is recorded, and what is added carries no verdict.
Grows ==
    /\ runs' \in Seq(Run)
    /\ \A s \in RunIds : Persists(s) /\ runs'[s].decision = runs[s].decision
    /\ \A s \in RunIds' \ RunIds :
          Fresh(runs'[s]) /\ runs'[s].carries = "none"

\* A run's thread takes nothing back.
LEMMA RunStepGrows ==
    ASSUME TypeOK, RunsInv, NEW r \in RunIds, RunStep(r)
    PROVE  Grows
<1>1. /\ runs[r].live /\ runs[r].status = "running"
      /\ \/ \E status \in RunStatus \ {"running"} :
               /\ runs' = Recorded(r, status)
               /\ runs[r].child # 0 => ~runs[runs[r].child].live
         \/ \E v \in Verdict \union {"done"} :
               /\ \/ runs[r].at \in Approval /\ v \in Verdict
                  \/ runs[r].at \in Subgraph \union Plain /\ v = "done"
               /\ runs[r].child = 0 /\ runs[r].approval = None /\ Move(r, v)
         \/ WriteApproval(r) \/ LaunchChild(r) \/ FinishChild(r)
         \/ DelegatePause(r) \/ LinkChild(r)
  BY RunStepMoves
<1>2. CASE \E status \in RunStatus \ {"running"} :
               /\ runs' = Recorded(r, status)
               /\ runs[r].child # 0 => ~runs[runs[r].child].live
  <2>1. PICK status \in RunStatus \ {"running"} : runs' = Recorded(r, status)
    BY <1>2
  <2>2. /\ runs' \in Seq(Run) /\ RunIds' = RunIds
        /\ \A s \in RunIds : s # r => runs'[s] = runs[s]
        /\ SameOrigin(r) /\ SameFiles(r)
    BY <2>1, RecordedDoes
  <2> QED
    BY <1>1, <2>2 DEF Grows, Persists, SameOrigin, SameFiles
<1>3. CASE \E v \in Verdict \union {"done"} :
               /\ \/ runs[r].at \in Approval /\ v \in Verdict
                  \/ runs[r].at \in Subgraph \union Plain /\ v = "done"
               /\ runs[r].child = 0 /\ runs[r].approval = None /\ Move(r, v)
  <2>1. /\ runs' \in Seq(Run) /\ RunIds' = RunIds
        /\ \A s \in RunIds : s # r => runs'[s] = runs[s]
        /\ SameOrigin(r) /\ SameFiles(r)
    BY <1>3, MoveDoes
  <2> QED
    BY <1>1, <2>1 DEF Grows, Persists, SameOrigin, SameFiles
<1>4. CASE WriteApproval(r)
  <2>1. runs[r].approval = None
    BY <1>4 DEF WriteApproval
  <2>2. /\ runs' \in Seq(Run) /\ RunIds' = RunIds
        /\ \A s \in RunIds : s # r => runs'[s] = runs[s]
        /\ runs'[r].pending = runs[r].pending /\ runs'[r].decision = runs[r].decision
        /\ SameOrigin(r)
    BY <1>4, WriteApprovalDoes
  <2> QED
    BY <1>1, <2>1, <2>2 DEF Grows, Persists, SameOrigin
<1>5. CASE DelegatePause(r)
  <2>1. runs[r].pending = 0
    BY <1>5 DEF DelegatePause
  <2>2. /\ runs' \in Seq(Run) /\ RunIds' = RunIds
        /\ \A s \in RunIds : s # r => runs'[s] = runs[s]
        /\ runs'[r].approval = runs[r].approval /\ runs'[r].decision = runs[r].decision
        /\ SameOrigin(r)
    BY <1>5, DelegatePauseDoes
  <2> QED
    BY <1>1, <2>1, <2>2 DEF Grows, Persists, SameOrigin
<1>6. CASE LinkChild(r)
  <2>1. PICK c \in RunIds : c = runs[r].child
    BY <1>6 DEF RunsInv, RunInv, ChildInv, LinkChild, ChildEnded
  <2>2. /\ runs' \in Seq(Run) /\ RunIds' = RunIds
        /\ \A s \in RunIds : s # c => runs'[s] = runs[s]
        /\ SameOrigin(c) /\ SameLife(c) /\ SameFiles(c)
    BY <1>6, <2>1, LinkChildDoes
  <2> QED
    BY <2>2 DEF Grows, Persists, SameOrigin, SameLife, SameFiles
<1>7. CASE FinishChild(r)
  <2>1. PICK c \in RunIds : c = runs[r].child
    BY <1>7 DEF RunsInv, RunInv, ChildInv, FinishChild, ChildEnded
  <2>2. c # r /\ c = runs[r].child
    BY <1>1, <1>7, <2>1 DEF FinishChild, ChildEnded
  <2>3. /\ runs' \in Seq(Run) /\ RunIds' = RunIds
        /\ \A s \in RunIds : s # c /\ s # r => runs'[s] = runs[s]
        /\ SameOrigin(c) /\ SameLife(c) /\ SameFiles(c)
        /\ SameOrigin(r) /\ SameFiles(r)
    BY <1>7, <2>2, FinishChildDoes
  <2> QED
    BY <1>1, <2>3 DEF Grows, Persists, SameOrigin, SameLife, SameFiles
<1>8. CASE LaunchChild(r)
  <2>1. PICK c : c = Len(runs) + 1
    OBVIOUS
  <2>2. /\ runs' \in Seq(Run) /\ RunIds' = RunIds \union {c}
        /\ \A s \in RunIds : s # r => runs'[s] = runs[s]
        /\ SameOrigin(r) /\ SameFiles(r) /\ SameLife(r)
        /\ Fresh(runs'[c]) /\ runs'[c].source = 0 /\ runs'[c].carries = "none"
    BY <1>8, <2>1, LaunchChildDoes
  <2> QED
    BY <2>2 DEF Grows, Persists, SameOrigin, SameLife, SameFiles
<1> QED
  BY <1>1, <1>2, <1>3, <1>4, <1>5, <1>6, <1>7, <1>8

\* A run's thread keeps what the records say of one another.
LEMMA RunStepKeepsRuns ==
    ASSUME TypeOK, RunsInv, NEW r \in RunIds, RunStep(r)
    PROVE  RunsInv'
BY RunStepMoves, RecordedKeepsRuns, MoveKeepsRuns, WriteApprovalKeepsRuns, LaunchChildKeepsRuns,
     FinishChildKeepsRuns, DelegatePauseKeepsRuns, LinkChildKeepsRuns

\* Calls that go on without beginning keep what they know.
LEMMA GrowthKeepsCalls ==
    ASSUME CallsInv, \A s \in RunIds : Persists(s), NEW e \in Decider,
           \/ decider'[e] = decider[e]
           \/ decider'[e].stage = "idle"
           \/ /\ decider'[e].source = decider[e].source
              /\ decider'[e].run = decider[e].run
              /\ decider'[e].verdict = decider[e].verdict
              /\ decider[e].stage \notin {"idle", "checked"}
              /\ runs[decider[e].run].status # "running"
    PROVE  CallInv(e)'
<1> SUFFICES ASSUME decider'[e].stage # "idle" PROVE CallInv(e)'
  BY DEF CallInv
<1>1. CallInv(e) /\ decider[e].stage # "idle"
  BY DEF CallsInv
<1>2. PICK b, q : b = decider[e].run /\ q = decider[e].source
  OBVIOUS
<1>3. decider'[e].source = q /\ decider'[e].run = b /\ decider'[e].verdict = decider[e].verdict
  BY <1>2
<1>4. /\ q \in RunIds /\ decider[e].verdict # "none"
      /\ runs[q].approval # None /\ runs[q].status = "pending_approval"
  BY <1>1, <1>2 DEF CallInv
<1>5. /\ q \in RunIds' /\ runs'[q].approval # None /\ runs'[q].status = "pending_approval"
  BY <1>4 DEF Persists
<1>6. ASSUME decider'[e].stage # "checked"
      PROVE  /\ b \in RunIds' /\ runs'[b].source = q
             /\ runs'[b].carries = decider[e].verdict
             /\ decider'[e].stage # "continuation" => runs'[b].status # "running"
  <2>1. /\ b \in RunIds /\ runs[b].source = q /\ runs[b].carries = decider[e].verdict
        /\ decider'[e].stage # "continuation" => runs[b].status # "running"
    BY <1>1, <1>2, <1>6 DEF CallInv
  <2> QED
    BY <2>1 DEF Persists, SameOrigin
<1> QED
  BY <1>3, <1>4, <1>5, <1>6 DEF CallInv

\* One call of decide_approval changes.
LEMMA OneCall ==
    ASSUME TypeOK, NEW d \in Decider, NEW x \in Call, decider' = [decider EXCEPT ![d] = x]
    PROVE  /\ decider' \in [Decider -> Call] /\ decider'[d] = x
           /\ \A e \in Decider : e # d => decider'[e] = decider[e]
BY DEF TypeOK

\* A call that has passed the checks holds what it decides.
LEMMA AcceptDoes ==
    ASSUME TypeOK, NEW d \in Decider, NEW r \in RunIds, NEW v \in Verdict, Accept(d, r, v)
    PROVE  /\ decider' \in [Decider -> Call]
           /\ \A e \in Decider : e # d => decider'[e] = decider[e]
           /\ decider[d].stage = "idle" /\ decider'[d].stage = "checked"
           /\ decider'[d].source = r /\ decider'[d].verdict = v
           /\ Decidable(r)
           /\ runs' = runs /\ crashes' = crashes /\ passed' = passed /\ cut' = cut
<1>1. PICK x : x = [stage |-> "checked", source |-> r, verdict |-> v, run |-> 0, parentRun |-> 0]
  OBVIOUS
<1>2. x \in Call /\ x.stage = "checked" /\ x.source = r /\ x.verdict = v
  BY <1>1, RunFields DEF Call, Stages
<1>3. decider' = [decider EXCEPT ![d] = x]
  BY <1>1 DEF Accept
<1>4. /\ decider[d].stage = "idle" /\ Decidable(r)
      /\ runs' = runs /\ crashes' = crashes /\ passed' = passed /\ cut' = cut
  BY DEF Accept
<1> QED
  BY <1>2, <1>3, <1>4, OneCall

LEMMA NoCallIsIdle == NoCall \in Call /\ NoCall.stage = "idle"
BY DEF NoCall, Call, Stages

\* A call begins its continuation, goes on with what it waited for, or ends.
LEMMA CallStepDoes ==
    ASSUME TypeOK, NEW d \in Decider, CallStep(d)
    PROVE  /\ decider' \in [Decider -> Call]
           /\ \A e \in Decider : e # d => decider'[e] = decider[e]
           /\ crashes' = crashes /\ passed' = passed
           /\ \/ /\ Begin(d) /\ cut' = cut
                 /\ decider[d].stage = "checked" /\ decider'[d].stage = "continuation"
                 /\ decider'[d].source = decider[d].source
                 /\ decider'[d].verdict = decider[d].verdict
                 /\ decider'[d].run = Len(runs) + 1
              \/ /\ BeginRaises(d) /\ cut' = cut \union {Len(runs) + 1}
                 /\ decider[d].stage = "checked" /\ decider'[d] = NoCall
              \/ /\ ForkParent(d) \/ LeaveParent(d) \/ SkipParent(d) \/ WriteParentDecision(d)
                 /\ decider[d].stage \in {"continuation", "parent"} /\ cut' = cut
                 /\ decider'[d].stage \in {"parent", "record"}
                 /\ decider'[d].source = decider[d].source
                 /\ decider'[d].run = decider[d].run
                 /\ decider'[d].verdict = decider[d].verdict
                 /\ decider[d].stage = "continuation" => runs[decider[d].run].status # "running"
              \/ /\ ParentRaises(d) /\ cut' = cut \union {decider[d].run}
                 /\ decider[d].stage = "continuation" /\ decider'[d] = NoCall
              \/ /\ WriteDecision(d) /\ cut' = cut
                 /\ decider[d].stage = "record" /\ decider'[d] = NoCall
<1>1. decider[d] \in Call /\ decider \in [Decider -> Call]
  BY DEF TypeOK
<1>2. PICK c \in Nat : c = Len(runs) + 1
  BY RunFields
<1>3. CASE Begin(d)
  <2>1. decider' = [decider EXCEPT ![d].stage = "continuation", ![d].run = c]
    BY <1>2, <1>3 DEF Begin
  <2>2. PICK x : x = [decider[d] EXCEPT !.stage = "continuation", !.run = c]
    OBVIOUS
  <2>3. /\ x \in Call /\ x.stage = "continuation" /\ x.source = decider[d].source
        /\ x.run = c /\ x.verdict = decider[d].verdict
    BY <1>1, <2>2 DEF Call, Stages
  <2>4. decider' = [decider EXCEPT ![d] = x]
    BY <1>1, <2>1, <2>2 DEF Call
  <2>5. decider[d].stage = "checked" /\ crashes' = crashes /\ passed' = passed /\ cut' = cut
    BY <1>3 DEF Begin
  <2> QED
    BY <1>2, <1>3, <2>3, <2>4, <2>5, OneCall
<1>4. CASE BeginRaises(d)
  <2>1. /\ decider' = [decider EXCEPT ![d] = NoCall] /\ decider[d].stage = "checked"
        /\ crashes' = crashes /\ passed' = passed /\ cut' = cut \union {Len(runs) + 1}
    BY <1>4 DEF BeginRaises
  <2> QED
    BY <1>4, <2>1, NoCallIsIdle, OneCall
<1>5. CASE ForkParent(d)
  <2>1. decider' = [decider EXCEPT ![d].stage = "parent", ![d].parentRun = c]
    BY <1>2, <1>5 DEF ForkParent
  <2>2. PICK x : x = [decider[d] EXCEPT !.stage = "parent", !.parentRun = c]
    OBVIOUS
  <2>3. /\ x \in Call /\ x.stage = "parent" /\ x.source = decider[d].source
        /\ x.run = decider[d].run /\ x.verdict = decider[d].verdict
    BY <1>1, <2>2 DEF Call, Stages
  <2>4. decider' = [decider EXCEPT ![d] = x]
    BY <1>1, <2>1, <2>2 DEF Call
  <2>5. /\ decider[d].stage = "continuation" /\ runs[decider[d].run].status # "running"
        /\ crashes' = crashes /\ passed' = passed /\ cut' = cut
    BY <1>5 DEF ForkParent, Returned
  <2> QED
    BY <1>5, <2>3, <2>4, <2>5, OneCall
<1>6. CASE LeaveParent(d) \/ SkipParent(d) \/ WriteParentDecision(d)
  <2>1. decider' = [decider EXCEPT ![d].stage = "record"]
    BY <1>6 DEF LeaveParent, SkipParent, WriteParentDecision
  <2>2. PICK x : x = [decider[d] EXCEPT !.stage = "record"]
    OBVIOUS
  <2>3. /\ x \in Call /\ x.stage = "record" /\ x.source = decider[d].source
        /\ x.run = decider[d].run /\ x.verdict = decider[d].verdict
    BY <1>1, <2>2 DEF Call, Stages
  <2>4. decider' = [decider EXCEPT ![d] = x]
    BY <1>1, <2>1, <2>2 DEF Call
  <2>5. /\ decider[d].stage \in {"continuation", "parent"}
        /\ decider[d].stage = "continuation" => runs[decider[d].run].status # "running"
        /\ crashes' = crashes /\ passed' = passed /\ cut' = cut
    BY <1>6 DEF LeaveParent, SkipParent, WriteParentDecision, Returned
  <2> QED
    BY <1>6, <2>3, <2>4, <2>5, OneCall
<1>7. CASE ParentRaises(d)
  <2>1. /\ decider' = [decider EXCEPT ![d] = NoCall] /\ decider[d].stage = "continuation"
        /\ crashes' = crashes /\ passed' = passed /\ cut' = cut \union {decider[d].run}
    BY <1>7 DEF ParentRaises
  <2> QED
    BY <1>7, <2>1, NoCallIsIdle, OneCall
<1>8. CASE WriteDecision(d)
  <2>1. /\ decider' = [decider EXCEPT ![d] = NoCall] /\ decider[d].stage = "record"
        /\ crashes' = crashes /\ passed' = passed /\ cut' = cut
    BY <1>8 DEF WriteDecision
  <2> QED
    BY <1>8, <2>1, NoCallIsIdle, OneCall
<1> QED
  BY <1>3, <1>4, <1>5, <1>6, <1>7, <1>8 DEF CallStep

\* What a call's step does to the runs, seen from the history: it adds the continuation of
\* a gate, it adds or writes nothing a verdict is in, or it records a decision.
LEMMA CallStepRuns ==
    ASSUME TypeOK, RunsInv, CallsInv, NEW d \in Decider, CallStep(d)
    PROVE  /\ runs' \in Seq(Run) /\ \A s \in RunIds : Persists(s)
           /\ \/ Begin(d) \/ BeginRaises(d)
              \/ WriteDecision(d)
              \/ Grows /\ ~WriteDecision(d)
<1>1. CASE Begin(d) \/ BeginRaises(d)
  <2>1. PICK c, r, v, n : /\ c = Len(runs) + 1 /\ r = decider[d].source
                          /\ v = decider[d].verdict /\ n = runs[r].approval
    OBVIOUS
  <2>2. /\ runs' \in Seq(Run) /\ RunIds' = RunIds \union {c}
        /\ \A s \in RunIds : runs'[s] = runs[s]
    BY <1>1, <2>1, BeginDoes
  <2> QED
    BY <1>1, <2>2 DEF Persists, SameOrigin
<1>2. CASE ForkParent(d) \/ ParentRaises(d)
  <2>1. PICK c : c = Len(runs) + 1
    OBVIOUS
  <2>2. decider[d].stage # "record"
    BY <1>2 DEF ForkParent, ParentRaises
  <2>3. CASE runs' = runs
    BY <2>2, <2>3 DEF Grows, Persists, SameOrigin, TypeOK, RunIds, WriteDecision
  <2>4. CASE /\ runs' \in Seq(Run) /\ RunIds' = RunIds \union {c}
             /\ \A s \in RunIds : runs'[s] = runs[s]
             /\ Fresh(runs'[c]) /\ runs'[c].carries = "none"
    BY <2>2, <2>4 DEF Grows, Persists, SameOrigin, WriteDecision
  <2> QED
    BY <1>2, <2>1, <2>3, <2>4, ForkParentDoes
<1>3. CASE LeaveParent(d) \/ SkipParent(d)
  <2>1. runs' = runs /\ decider[d].stage # "record"
    BY <1>3 DEF LeaveParent, SkipParent
  <2> QED
    BY <2>1 DEF Grows, Persists, SameOrigin, TypeOK, RunIds, WriteDecision
<1>4. CASE WriteParentDecision(d)
  <2>1. /\ runs' \in Seq(Run) /\ RunIds' = RunIds /\ \A s \in RunIds : SameRun(s)
        /\ decider[d].stage # "record"
    BY <1>4, WriteParentDecisionDoes DEF WriteParentDecision
  <2> QED
    BY <2>1 DEF Grows, Persists, SameRun, SameLife, SameFiles, WriteDecision
<1>5. CASE WriteDecision(d)
  <2>1. PICK r \in RunIds : r = decider[d].source
    BY <1>5 DEF CallsInv, CallInv, WriteDecision
  <2>2. /\ runs' \in Seq(Run) /\ RunIds' = RunIds
        /\ \A s \in RunIds : s # r => runs'[s] = runs[s]
        /\ runs'[r].approval = runs[r].approval /\ runs'[r].pending = runs[r].pending
        /\ SameOrigin(r) /\ SameLife(r)
    BY <1>5, <2>1, WriteDecisionDoes
  <2> QED
    BY <1>5, <2>2 DEF Persists, SameOrigin, SameLife
<1> QED
  BY <1>1, <1>2, <1>3, <1>4, <1>5 DEF CallStep

\* The steps of a call keep what the records say of one another.
LEMMA CallStepKeepsRuns ==
    ASSUME TypeOK, RunsInv, CallsInv, NEW d \in Decider, CallStep(d)
    PROVE  RunsInv'
<1>1. CASE LeaveParent(d) \/ SkipParent(d)
  <2>1. runs' = runs
    BY <1>1 DEF LeaveParent, SkipParent
  <2> QED
    BY <2>1, SameRuns, SameKeepsRuns
<1>2. CASE WriteParentDecision(d)
  BY <1>2, WriteParentDecisionDoes, SameKeepsRuns
<1> QED
  BY <1>1, <1>2, BeginKeepsRuns, ForkParentKeepsRuns, WriteDecisionKeepsRuns DEF CallStep

\* The steps of a call keep what the calls know.
LEMMA CallStepKeepsCalls ==
    ASSUME TypeOK, RunsInv, CallsInv, NEW d \in Decider, CallStep(d)
    PROVE  CallsInv'
<1>1. \A s \in RunIds : Persists(s)
  BY CallStepRuns
<1> SUFFICES ASSUME NEW e \in Decider PROVE CallInv(e)'
  BY DEF CallsInv
<1>2. CASE e # d
  <2>1. decider'[e] = decider[e]
    BY <1>2, CallStepDoes
  <2> QED
    BY <1>1, <2>1, GrowthKeepsCalls
<1>3. CASE e = d /\ Begin(d)
  <2>1. PICK c, r, v, n : /\ c = Len(runs) + 1 /\ r = decider[d].source
                          /\ v = decider[d].verdict /\ n = runs[r].approval
    OBVIOUS
  <2>2. /\ RunIds' = RunIds \union {c} /\ r \in RunIds /\ v \in Verdict
        /\ \A s \in RunIds : runs'[s] = runs[s]
        /\ n # None /\ runs[r].status = "pending_approval"
        /\ runs'[c].source = r /\ runs'[c].carries = v
    BY <1>3, <2>1, BeginDoes
  <2>3. decider[d].stage = "checked"
    BY <1>3 DEF Begin
  <2>4. /\ decider'[d].stage = "continuation" /\ decider'[d].source = r
        /\ decider'[d].verdict = v /\ decider'[d].run = c
    <3>1. decider'[d].stage # "idle"
      <4>1. decider' = [decider EXCEPT ![d].stage = "continuation", ![d].run = Len(runs) + 1]
        BY <1>3 DEF Begin
      <4>2. decider[d] \in Call /\ decider \in [Decider -> Call]
        BY DEF TypeOK
      <4> QED
        BY <4>1, <4>2 DEF Call
    <3> QED
      BY <2>1, <2>3, <3>1, CallStepDoes, NoCallIsIdle
  <2> QED
    BY <1>3, <2>1, <2>2, <2>4 DEF CallInv, Verdict
<1>4. CASE e = d /\ ~Begin(d)
  <2>1. \/ decider'[d].stage = "idle"
        \/ /\ decider'[d].source = decider[d].source
           /\ decider'[d].run = decider[d].run
           /\ decider'[d].verdict = decider[d].verdict
           /\ decider[d].stage \in {"continuation", "parent"}
           /\ decider[d].stage = "continuation" => runs[decider[d].run].status # "running"
    BY <1>4, CallStepDoes, NoCallIsIdle
  <2>2. decider[d].stage = "parent" => runs[decider[d].run].status # "running"
    BY DEF CallsInv, CallInv
  <2> QED
    BY <1>1, <1>4, <2>1, <2>2, GrowthKeepsCalls
<1> QED
  BY <1>2, <1>3, <1>4

\* A call that has passed the checks knows that its run is paused.
LEMMA AcceptKeepsCalls ==
    ASSUME TypeOK, CallsInv, NEW d \in Decider, NEW r \in RunIds, NEW v \in Verdict,
           Accept(d, r, v)
    PROVE  CallsInv'
<1> SUFFICES ASSUME NEW e \in Decider PROVE CallInv(e)'
  BY DEF CallsInv
<1>1. /\ decider'[d].stage = "checked" /\ decider'[d].source = r /\ decider'[d].verdict = v
      /\ Decidable(r) /\ runs' = runs
      /\ \A g \in Decider : g # d => decider'[g] = decider[g]
  BY AcceptDoes
<1>2. CASE e = d
  BY <1>1, <1>2 DEF CallInv, Decidable, Verdict, RunIds
<1>3. CASE e # d
  BY <1>1, <1>3 DEF CallsInv, CallInv, RunIds
<1> QED
  BY <1>2, <1>3

\* A step of any thread, or the end of all of them, takes nothing back: ids, origins,
\* final statuses, approval files and delegated pauses stay.
LEMMA NextPersists ==
    ASSUME FlowInv, [Next]_vars
    PROVE  runs' \in Seq(Run) /\ \A s \in RunIds : Persists(s)
<1>1. TypeOK /\ RunsInv /\ CallsInv
  BY DEF FlowInv
<1>2. CASE runs' = runs
  BY <1>1, <1>2 DEF Persists, SameOrigin, TypeOK, RunIds
<1>3. ASSUME NEW r \in RunIds, RunStep(r)
      PROVE  runs' \in Seq(Run) /\ \A s \in RunIds : Persists(s)
  BY <1>1, <1>3, RunStepGrows DEF Grows
<1>4. ASSUME NEW d \in Decider, CallStep(d)
      PROVE  runs' \in Seq(Run) /\ \A s \in RunIds : Persists(s)
  BY <1>1, <1>4, CallStepRuns
<1>5. ASSUME NEW d \in Decider, NEW r \in RunIds, NEW v \in Verdict, Accept(d, r, v)
      PROVE  runs' \in Seq(Run) /\ \A s \in RunIds : Persists(s)
  BY <1>2, <1>5 DEF Accept
<1>6. CASE Crash
  <2>1. /\ runs' \in Seq(Run) /\ RunIds' = RunIds
        /\ \A s \in RunIds :
              SameOrigin(s) /\ SameFiles(s) /\ runs'[s].status = runs[s].status
    BY <1>1, <1>6, CrashDoes
  <2> QED
    BY <2>1 DEF Persists, SameFiles
<1> QED
  BY <1>2, <1>3, <1>4, <1>5, <1>6 DEF Next, Progress, vars

\* The gate a run passes is recorded as one of that run.
LEMMA PassedIsTyped ==
    ASSUME TypeOK, NEW r \in RunIds, PassGate(r), RunIds \subseteq RunIds'
    PROVE  passed' \subseteq RunIds' \X Approval \X BOOLEAN
<1>1. PICK n, g : n = runs[r].at /\ g = (runs[r].grant = runs[r].at)
  OBVIOUS
<1>2. n \in Approval /\ g \in BOOLEAN
  BY <1>1 DEF PassGate, At
<1>3. passed' = passed \union {<<r, n, g>>}
  BY <1>1 DEF PassGate
<1> QED
  BY <1>2, <1>3 DEF TypeOK

LEMMA NextTyped ==
    ASSUME FlowInv, [Next]_vars
    PROVE  TypeOK'
<1>1. TypeOK /\ RunsInv /\ CallsInv
  BY DEF FlowInv
<1>2. runs' \in Seq(Run) /\ RunIds \subseteq RunIds'
  BY NextPersists DEF Persists
<1>3. passed \subseteq RunIds' \X Approval \X BOOLEAN /\ cut \subseteq RunIds'
  BY <1>1, <1>2 DEF TypeOK
<1>4. CASE UNCHANGED vars
  BY <1>1, <1>2, <1>3, <1>4 DEF vars, TypeOK
<1>5. ASSUME NEW r \in RunIds, RunStep(r) PROVE TypeOK'
  <2>1. decider' = decider /\ crashes' = crashes /\ cut' = cut
    BY <1>1, <1>5, RunStepKinds
  <2>2. passed' = passed \/ PassGate(r)
    BY <1>1, <1>5, RunStepKinds
  <2>3. passed' \subseteq RunIds' \X Approval \X BOOLEAN
    BY <1>1, <1>2, <1>3, <2>2, PassedIsTyped
  <2> QED
    BY <1>1, <1>2, <1>3, <2>1, <2>3 DEF TypeOK
<1>6. ASSUME NEW d \in Decider, CallStep(d) PROVE TypeOK'
  <2>1. decider' \in [Decider -> Call] /\ crashes' = crashes /\ passed' = passed
    BY <1>1, <1>6, CallStepDoes
  <2>2. CASE BeginRaises(d)
    <3>1. PICK c, r, v, n : /\ c = Len(runs) + 1 /\ r = decider[d].source
                            /\ v = decider[d].verdict /\ n = runs[r].approval
      OBVIOUS
    <3>2. RunIds' = RunIds \union {c}
      BY <1>1, <2>2, <3>1, BeginDoes
    <3>3. cut' = cut \union {c}
      BY <2>2, <3>1 DEF BeginRaises
    <3> QED
      BY <1>1, <1>2, <1>3, <2>1, <3>2, <3>3 DEF TypeOK
  <2>3. CASE ParentRaises(d)
    <3>1. decider[d].stage = "continuation" /\ cut' = cut \union {decider[d].run}
      BY <2>3 DEF ParentRaises
    <3>2. decider[d].run \in RunIds
      BY <1>1, <3>1 DEF CallsInv, CallInv
    <3> QED
      BY <1>1, <1>2, <1>3, <2>1, <3>1, <3>2 DEF TypeOK
  <2>4. CASE cut' = cut
    BY <1>1, <1>2, <1>3, <2>1, <2>4 DEF TypeOK
  <2> QED
    BY <1>1, <1>6, <2>2, <2>3, <2>4, CallStepDoes
<1>7. ASSUME NEW d \in Decider, NEW r \in RunIds, NEW v \in Verdict, Accept(d, r, v)
      PROVE  TypeOK'
  BY <1>1, <1>2, <1>3, <1>7, AcceptDoes DEF TypeOK
<1>8. CASE Crash
  <2>1. crashes' \in 0..MaxCrashes /\ passed' = passed
    BY <1>1, <1>8, FlowAssumption DEF Crash, TypeOK, FlowAssumption
  <2>2. decider' \in [Decider -> Call]
    BY <1>8, NoCallIsIdle DEF Crash
  <2>3. InProgress \subseteq RunIds
    BY <1>1 DEF InProgress, CallsInv, CallInv
  <2>4. cut' \subseteq RunIds'
    BY <1>2, <1>3, <1>8, <2>3 DEF Crash
  <2> QED
    BY <1>2, <1>3, <2>1, <2>2, <2>4 DEF TypeOK
<1> QED
  BY <1>4, <1>5, <1>6, <1>7, <1>8 DEF Next, Progress

LEMMA InitFlow == Init => FlowInv
<1> SUFFICES ASSUME Init PROVE FlowInv
  OBVIOUS
<1>1. PICK roots \in Seq(Workflow) :
         runs = [r \in DOMAIN roots |->
                    [NewRun(Entry[roots[r]], NoDecisions, None) EXCEPT !.first = r]]
  BY FlowAssumption DEF Init, FlowAssumption
<1>2. /\ DOMAIN runs = DOMAIN roots
      /\ \A r \in DOMAIN roots :
            runs[r] = [NewRun(Entry[roots[r]], NoDecisions, None) EXCEPT !.first = r]
  BY <1>1
<1>3. NoDecisions \in [Key -> Verdict \union {"none"}] /\ DOMAIN roots \subseteq Nat \ {0}
  BY LenProperties DEF NoDecisions
<1>4. ASSUME NEW r \in RunIds
      PROVE  /\ runs[r] \in Run /\ Fresh(runs[r]) /\ runs[r].launcher = 0
             /\ runs[r].marker = None /\ runs[r].source = 0 /\ runs[r].carries = "none"
  <2>1. r \in DOMAIN roots /\ r \in Nat
    BY <1>2, <1>3 DEF RunIds
  <2>2. PICK n \in Node : n = Entry[roots[r]]
    <3>1. roots[r] \in Workflow
      BY <2>1, ElementOfSeq, LenProperties
    <3> QED
      BY <3>1, FlowAssumption DEF FlowAssumption
  <2>3. PICK x : x = NewRun(n, NoDecisions, None)
    OBVIOUS
  <2>4. /\ x \in Run /\ Fresh(x) /\ x.launcher = 0 /\ x.marker = None
        /\ x.source = 0 /\ x.carries = "none"
    BY <1>3, <2>3, NewRunFields
  <2>5. runs[r] = [x EXCEPT !.first = r]
    BY <1>2, <2>1, <2>2, <2>3
  <2>6. x \in Run /\ runs[r] \in Run
    BY <2>1, <2>4, <2>5 DEF Run
  <2>7. /\ runs[r].launcher = x.launcher /\ runs[r].marker = x.marker
        /\ runs[r].source = x.source /\ runs[r].carries = x.carries
    BY <2>5, <2>6 DEF Run
  <2>8. Fresh(runs[r])
    BY <2>4, <2>5, <2>6 DEF Run, Fresh
  <2> QED
    BY <2>4, <2>6, <2>7, <2>8
<1>5. runs \in Seq(Run)
  <2>1. runs \in [1..Len(roots) -> Run] /\ Len(roots) \in Nat
    <3>1. runs = [r \in DOMAIN roots |-> runs[r]]
      BY <1>1
    <3>2. DOMAIN roots = 1..Len(roots) /\ Len(roots) \in Nat
      BY LenProperties
    <3> QED
      BY <1>2, <1>4, <3>1, <3>2 DEF RunIds
  <2> QED
    BY <2>1, SeqDef
<1>6. TypeOK
  BY <1>5, NoCallIsIdle, FlowAssumption DEF Init, TypeOK, FlowAssumption
<1>7. RunsInv
  <2> SUFFICES ASSUME NEW r \in RunIds PROVE RunInv(r)
    BY DEF RunsInv
  <2>1. OwnInv(r) /\ ChildInv(r) /\ SourceInv(r)
    BY <1>4 DEF OwnInv, ChildInv, SourceInv, Fresh
  <2> QED
    BY <2>1 DEF RunInv
<1>8. CallsInv
  BY NoCallIsIdle DEF Init, CallsInv, CallInv
<1> QED
  BY <1>6, <1>7, <1>8 DEF FlowInv

LEMMA NextFlow == FlowInv /\ [Next]_vars => FlowInv'
<1> SUFFICES ASSUME FlowInv, [Next]_vars PROVE FlowInv'
  OBVIOUS
<1>1. TypeOK /\ RunsInv /\ CallsInv /\ TypeOK'
  BY NextTyped DEF FlowInv
<1>2. \A s \in RunIds : Persists(s)
  BY NextPersists
<1>3. CASE UNCHANGED vars
  <2>1. runs' = runs /\ decider' = decider
    BY <1>3 DEF vars
  <2>2. RunsInv'
    BY <1>1, <2>1, SameRuns, SameKeepsRuns
  <2>3. CallsInv'
    BY <1>1, <1>2, <2>1, GrowthKeepsCalls DEF CallsInv
  <2> QED
    BY <1>1, <2>2, <2>3 DEF FlowInv
<1>4. ASSUME NEW r \in RunIds, RunStep(r) PROVE RunsInv' /\ CallsInv'
  <2>1. decider' = decider
    BY <1>1, <1>4, RunStepKinds
  <2>2. CallsInv'
    BY <1>1, <1>2, <2>1, GrowthKeepsCalls DEF CallsInv
  <2> QED
    BY <1>1, <1>4, <2>2, RunStepKeepsRuns
<1>5. ASSUME NEW d \in Decider, CallStep(d) PROVE RunsInv' /\ CallsInv'
  BY <1>1, <1>5, CallStepKeepsRuns, CallStepKeepsCalls
<1>6. ASSUME NEW d \in Decider, NEW r \in RunIds, NEW v \in Verdict, Accept(d, r, v)
      PROVE  RunsInv' /\ CallsInv'
  <2>1. runs' = runs
    BY <1>6 DEF Accept
  <2> QED
    BY <1>1, <1>6, <2>1, SameRuns, SameKeepsRuns, AcceptKeepsCalls
<1>7. CASE Crash
  <2>1. \A d \in Decider : decider'[d].stage = "idle"
    BY <1>1, <1>7, CrashDoes, NoCallIsIdle
  <2>2. CallsInv'
    BY <1>1, <1>2, <2>1, GrowthKeepsCalls DEF CallsInv
  <2>3. RunsInv'
    BY <1>1, <1>7, CrashKeepsRuns
  <2> QED
    BY <1>1, <2>2, <2>3 DEF FlowInv
<1> QED
  BY <1>1, <1>3, <1>4, <1>5, <1>6, <1>7 DEF Next, Progress, FlowInv

\* In every behaviour the records, the links between them and the calls agree.
THEOREM FlowInvariant == Spec => []FlowInv
BY InitFlow, NextFlow, PTL DEF Spec

\* The records of runs and calls keep their types over any runs, deciders and crashes.
THEOREM TypeCorrect == Spec => []TypeOK
<1>1. FlowInv => TypeOK
  BY DEF FlowInv
<1> QED
  BY <1>1, FlowInvariant, PTL

\* A decision on record was carried out by a continuation that ended, whoever else
\* decides the run and whatever dies.
THEOREM DecisionsBacked == Spec => []DecisionsAreBacked
<1>1. FlowInv => DecisionsAreBacked
  BY DEF FlowInv, RunsInv, RunInv, SourceInv, DecisionsAreBacked
<1> QED
  BY <1>1, FlowInvariant, PTL

\* A parent is forked only for a child that was decided and ended "ok".
THEOREM ParentsWait == Spec => []ParentsWaitForChildren
<1>1. FlowInv => ParentsWaitForChildren
  <2> SUFFICES ASSUME FlowInv, NEW c \in RunIds, runs[c].marker # None, runs[c].source # 0
               PROVE  LET p == runs[c].source
                      IN  /\ runs[p].pending # 0
                          /\ \E k \in Continuations(runs[p].pending) : runs[k].status = "ok"
    BY DEF ParentsWaitForChildren
  <2>1. SourceInv(c)
    BY DEF FlowInv, RunsInv, RunInv
  <2> QED
    BY <2>1 DEF SourceInv
<1> QED
  BY <1>1, FlowInvariant, PTL

\* A reviewer's continuation is of a run whose thread is gone and whose pause is on record,
\* however early approval.json could be seen.
THEOREM PausesPrecedeDecisions == Spec => []DecidedRunsHavePaused
<1>1. FlowInv => DecidedRunsHavePaused
  <2> SUFFICES ASSUME FlowInv, NEW c \in RunIds, runs[c].carries # "none",
                      NEW r, r = runs[c].source
               PROVE  ~runs[r].live /\ runs[r].status = "pending_approval"
    BY DEF DecidedRunsHavePaused, Decisions
  <2>1. r \in RunIds /\ runs[r].status = "pending_approval"
    BY DEF FlowInv, RunsInv, RunInv, SourceInv
  <2> QED
    BY <2>1 DEF FlowInv, RunsInv, RunInv, OwnInv
<1> QED
  BY <1>1, FlowInvariant, PTL

\* What is taken back never: a run keeps where it came from and the status, the pause
\* and the delegated pause that were recorded of it.
THEOREM RecordsStay == Spec => [][\A s \in RunIds : Persists(s)]_vars
<1>1. FlowInv /\ [Next]_vars => [\A s \in RunIds : Persists(s)]_vars
  BY NextPersists
<1> QED
  BY <1>1, FlowInvariant, PTL DEF Spec

-----------------------------------------------------------------------------
(* Verdicts and gates.                                                     *)

\* A run stays where it is, or leaves a node that is no gate, or passes its gate.
Stays(s) == runs'[s].at = runs[s].at /\ runs'[s].grant = runs[s].grant
Leaves(s) == runs[s].at \notin Approval \/ PassGate(s)

\* Where a run's thread takes the runs, and the keys of a child it launches.
LEMMA RunStepPlaces ==
    ASSUME TypeOK, RunsInv, NEW r \in RunIds, RunStep(r)
    PROVE  /\ \A s \in RunIds : Stays(s) \/ (s = r /\ Leaves(s))
           /\ \A s \in RunIds' \ RunIds : \A k \in Key : runs'[s].keys[k] = "none"
<1>1. Approval \intersect (Subgraph \union Plain) = {}
  BY FlowAssumption DEF FlowAssumption
<1>2. CASE \E status \in RunStatus \ {"running"} :
               /\ runs' = Recorded(r, status)
               /\ runs[r].child # 0 => ~runs[runs[r].child].live
  <2>1. /\ RunIds' = RunIds /\ \A q \in RunIds : q # r => runs'[q] = runs[q]
        /\ SamePlace(r)
    BY <1>2, RecordedDoes
  <2> QED
    BY <2>1 DEF Stays, SamePlace
<1>3. CASE /\ Work(r) \/ PassSubgraph(r)
           /\ runs[r].at \in Subgraph \union Plain /\ Move(r, "done")
  <2>1. RunIds' = RunIds /\ \A q \in RunIds : q # r => runs'[q] = runs[q]
    BY <1>3, MoveDoes
  <2> QED
    BY <1>1, <1>3, <2>1 DEF Stays, Leaves
<1>4. CASE PassGate(r) /\ Move(r, DecisionAt(r)) /\ DecisionAt(r) \in Verdict
           /\ runs[r].at \in Approval
  <2>1. PICK v \in Verdict : v = DecisionAt(r) /\ Move(r, v)
    BY <1>4
  <2>2. RunIds' = RunIds /\ \A q \in RunIds : q # r => runs'[q] = runs[q]
    BY <1>4, <2>1, MoveDoes
  <2> QED
    BY <1>4, <2>2 DEF Stays, Leaves
<1>5. CASE WriteApproval(r) \/ DelegatePause(r)
  <2>1. /\ RunIds' = RunIds /\ \A q \in RunIds : q # r => runs'[q] = runs[q]
        /\ SamePlace(r)
    BY <1>5, WriteApprovalDoes, DelegatePauseDoes
  <2> QED
    BY <2>1 DEF Stays, SamePlace
<1>6. CASE LinkChild(r)
  <2>1. PICK c \in RunIds : c = runs[r].child
    BY <1>6 DEF RunsInv, RunInv, ChildInv, LinkChild, ChildEnded
  <2>2. /\ RunIds' = RunIds /\ \A q \in RunIds : q # c => runs'[q] = runs[q]
        /\ SamePlace(c)
    BY <1>6, <2>1, LinkChildDoes
  <2> QED
    BY <2>2 DEF Stays, SamePlace
<1>7. CASE FinishChild(r)
  <2>1. PICK c \in RunIds : c = runs[r].child
    BY <1>7 DEF RunsInv, RunInv, ChildInv, FinishChild, ChildEnded
  <2>2. c # r /\ c = runs[r].child /\ runs[r].at \in Subgraph
    <3>1. runs[r].live
      BY RunStepMoves
    <3> QED
      BY <1>7, <2>1, <3>1 DEF FinishChild, ChildEnded, At
  <2>3. /\ RunIds' = RunIds /\ \A q \in RunIds : q # c /\ q # r => runs'[q] = runs[q]
        /\ SamePlace(c)
    BY <1>7, <2>2, FinishChildDoes
  <2> QED
    BY <1>1, <2>2, <2>3 DEF Stays, Leaves, SamePlace
<1>8. CASE LaunchChild(r)
  <2>1. PICK c : c = Len(runs) + 1
    OBVIOUS
  <2>2. /\ RunIds' = RunIds \union {c}
        /\ \A q \in RunIds : q # r => runs'[q] = runs[q]
        /\ runs'[r].at = runs[r].at /\ runs'[r].grant = runs[r].grant
        /\ \A k \in Key : runs'[c].keys[k] = "none"
    BY <1>8, <2>1, LaunchChildDoes
  <2> QED
    BY <2>2 DEF Stays
<1> QED
  BY <1>2, <1>3, <1>4, <1>5, <1>6, <1>7, <1>8, RunStepKinds

\* A continuation starts with the verdict at the gate it was given for, if the gate's
\* key is declared; without the verdict it is still there.
VerdictInv(c) ==
    runs[c].carries # "none" =>
        LET gate == runs[runs[c].source].approval
        IN  IF StateKey[gate] \in Declared
            THEN runs[c].keys[StateKey[gate]] # "none"
            ELSE runs[c].keys[StateKey[gate]] = "none" /\ runs[c].at = gate

VerdictsInv == \A c \in RunIds : VerdictInv(c)

LEMMA VerdictInit == Init => VerdictsInv
<1> SUFFICES ASSUME Init, NEW c \in RunIds PROVE runs[c].carries = "none"
  BY DEF VerdictsInv, VerdictInv
<1>1. PICK roots : runs = [r \in DOMAIN roots |->
                    [NewRun(Entry[roots[r]], NoDecisions, None) EXCEPT !.first = r]]
  BY DEF Init
<1>2. runs[c] = [NewRun(Entry[roots[c]], NoDecisions, None) EXCEPT !.first = c]
  BY <1>1 DEF RunIds
<1> QED
  BY <1>2 DEF NewRun

\* The gate a verdict was given for is one, and its key is a key.
LEMMA VerdictGate ==
    ASSUME TypeOK, RunsInv, NEW c \in RunIds, runs[c].carries # "none"
    PROVE  LET gate == runs[runs[c].source].approval
           IN  /\ runs[c].source \in RunIds /\ gate \in Approval /\ gate # None
               /\ StateKey[gate] \in Key
<1>1. PICK r : r = runs[c].source
  OBVIOUS
<1>2. r \in RunIds /\ runs[r].approval # None
  BY <1>1 DEF RunsInv, RunInv, SourceInv
<1>3. runs[r].approval \in Approval
  BY <1>2, RunFields DEF Run
<1> QED
  BY <1>1, <1>2, <1>3 DEF Key

\* A run that stays, or leaves otherwise than without its verdict, keeps it.
LEMMA VerdictOfOld ==
    ASSUME TypeOK, RunsInv, NEW c \in RunIds, VerdictInv(c),
           \A s \in RunIds : Persists(s), Stays(c) \/ Leaves(c)
    PROVE  VerdictInv(c)'
<1> SUFFICES ASSUME runs[c].carries # "none" PROVE VerdictInv(c)'
  BY DEF VerdictInv, Persists, SameOrigin
<1>1. PICK r, gate : r = runs[c].source /\ gate = runs[r].approval
  OBVIOUS
<1>2. r \in RunIds /\ gate \in Approval /\ gate # None
  BY <1>1, VerdictGate
<1>3. /\ runs'[c].source = r /\ runs'[c].keys = runs[c].keys /\ runs'[r].approval = gate
  BY <1>1, <1>2 DEF Persists, SameOrigin
<1>4. CASE StateKey[gate] \in Declared
  BY <1>1, <1>3, <1>4 DEF VerdictInv
<1>5. CASE StateKey[gate] \notin Declared
  <2>1. runs[c].keys[StateKey[gate]] = "none" /\ runs[c].at = gate
    BY <1>1, <1>5 DEF VerdictInv
  <2>2. ~Leaves(c)
    BY <1>2, <2>1 DEF Leaves, PassGate, DecisionAt
  <2> QED
    BY <1>3, <1>5, <2>1, <2>2 DEF VerdictInv, Stays
<1> QED
  BY <1>4, <1>5

LEMMA BeginVerdict ==
    ASSUME TypeOK, CallsInv, NEW d \in Decider, Begin(d) \/ BeginRaises(d),
           NEW c, c = Len(runs) + 1
    PROVE  VerdictInv(c)'
<1>1. PICK r, v, n : /\ r = decider[d].source
                     /\ v = decider[d].verdict /\ n = runs[r].approval
  OBVIOUS
<1>2. /\ r \in RunIds /\ v \in Verdict /\ n \in Approval
      /\ \A s \in RunIds : runs'[s] = runs[s]
      /\ runs'[c].at = n /\ Kept(runs'[c], WithVerdict(r, v))
      /\ runs'[c].source = r
  BY <1>1, BeginDoes
<1>3. runs[r].keys \in [Key -> Verdict \union {"none"}] /\ StateKey[n] \in Key
  BY <1>2, RunFields DEF Run, Key
<1>4. WithVerdict(r, v)[StateKey[n]] = v
  BY <1>1, <1>3 DEF WithVerdict
<1>5. runs'[c].keys[StateKey[n]] = IF StateKey[n] \in Declared THEN v ELSE "none"
  BY <1>2, <1>3, <1>4 DEF Kept
<1>6. runs'[runs'[c].source].approval = n
  BY <1>1, <1>2
<1> QED
  BY <1>2, <1>5, <1>6 DEF VerdictInv, Verdict

\* The steps of calls leave the runs where they are.
LEMMA CallStepPlaces ==
    ASSUME TypeOK, RunsInv, CallsInv, NEW d \in Decider, CallStep(d)
    PROVE  \A s \in RunIds : Stays(s)
<1>1. CASE Begin(d) \/ BeginRaises(d)
  <2>1. PICK c, r, v, n : /\ c = Len(runs) + 1 /\ r = decider[d].source
                          /\ v = decider[d].verdict /\ n = runs[r].approval
    OBVIOUS
  <2> QED
    BY <1>1, <2>1, BeginDoes DEF Stays
<1>2. CASE ForkParent(d) \/ ParentRaises(d)
  <2>1. PICK c : c = Len(runs) + 1
    OBVIOUS
  <2>2. CASE runs' = runs
    BY <2>2 DEF Stays
  <2>3. CASE \A s \in RunIds : runs'[s] = runs[s]
    BY <2>3 DEF Stays
  <2> QED
    BY <1>2, <2>1, <2>2, <2>3, ForkParentDoes
<1>3. CASE LeaveParent(d) \/ SkipParent(d)
  BY <1>3 DEF LeaveParent, SkipParent, Stays
<1>4. CASE WriteParentDecision(d)
  BY <1>4, WriteParentDecisionDoes DEF SameRun, SamePlace, Stays
<1>5. CASE WriteDecision(d)
  <2>1. PICK r \in RunIds : r = decider[d].source
    BY <1>5 DEF CallsInv, CallInv, WriteDecision
  <2>2. /\ \A s \in RunIds : s # r => runs'[s] = runs[s]
        /\ SamePlace(r)
    BY <1>5, <2>1, WriteDecisionDoes
  <2> QED
    BY <2>2 DEF Stays, SamePlace
<1> QED
  BY <1>1, <1>2, <1>3, <1>4, <1>5 DEF CallStep

\* The steps that are neither of a run's thread nor of a call's leave the runs in place.
LEMMA OtherStepDoes ==
    ASSUME TypeOK, [Next]_vars, ~\E r \in RunIds : RunStep(r), ~\E d \in Decider : CallStep(d)
    PROVE  /\ RunIds' = RunIds /\ passed' = passed
           /\ \A s \in RunIds : /\ Stays(s) /\ SameOrigin(s)
                                /\ runs'[s].decision = runs[s].decision
<1>1. CASE runs' = runs /\ passed' = passed
  BY <1>1 DEF RunIds, Stays, SameOrigin
<1>2. CASE Crash
  <2>1. passed' = passed
    BY <1>2 DEF Crash
  <2> QED
    BY <1>2, <2>1, CrashDoes DEF Stays, SamePlace, SameFiles
<1>3. ASSUME NEW d \in Decider, NEW r \in RunIds, NEW v \in Verdict, Accept(d, r, v)
      PROVE  runs' = runs /\ passed' = passed
  BY <1>3 DEF Accept
<1> QED
  BY <1>1, <1>2, <1>3 DEF Next, Progress, vars

LEMMA VerdictNext ==
    ASSUME FlowInv, VerdictsInv, [Next]_vars
    PROVE  VerdictsInv'
<1>1. TypeOK /\ RunsInv /\ CallsInv
  BY DEF FlowInv
<1>2. \A s \in RunIds : Persists(s)
  BY NextPersists
<1> SUFFICES ASSUME NEW c \in RunIds' PROVE VerdictInv(c)'
  BY DEF VerdictsInv
<1>3. ASSUME c \in RunIds, Stays(c) \/ Leaves(c) PROVE VerdictInv(c)'
  BY <1>1, <1>2, <1>3, VerdictOfOld DEF VerdictsInv
<1>4. ASSUME NEW r \in RunIds, RunStep(r) PROVE VerdictInv(c)'
  <2>1. c \notin RunIds => runs'[c].carries = "none"
    BY <1>1, <1>4, RunStepGrows DEF Grows
  <2>2. c \in RunIds => Stays(c) \/ Leaves(c)
    BY <1>1, <1>4, RunStepPlaces
  <2> QED
    BY <1>3, <2>1, <2>2 DEF VerdictInv
<1>5. ASSUME NEW d \in Decider, CallStep(d) PROVE VerdictInv(c)'
  <2>1. CASE c \in RunIds
    BY <1>1, <1>3, <1>5, <2>1, CallStepPlaces
  <2>2. CASE c \notin RunIds /\ (Begin(d) \/ BeginRaises(d))
    <3>1. PICK b, r, v, n : /\ b = Len(runs) + 1 /\ r = decider[d].source
                            /\ v = decider[d].verdict /\ n = runs[r].approval
      OBVIOUS
    <3>2. RunIds' = RunIds \union {b}
      BY <1>1, <2>2, <3>1, BeginDoes
    <3>3. c = b
      BY <2>2, <3>2
    <3> QED
      BY <1>1, <2>2, <3>1, <3>3, BeginVerdict
  <2>3. CASE c \notin RunIds /\ WriteDecision(d)
    <3>1. PICK r \in RunIds : r = decider[d].source
      BY <1>1, <2>3 DEF CallsInv, CallInv, WriteDecision
    <3> QED
      BY <1>1, <2>3, <3>1, WriteDecisionDoes
  <2>4. CASE c \notin RunIds /\ Grows
    BY <2>4 DEF Grows, VerdictInv
  <2> QED
    BY <1>1, <1>5, <2>1, <2>2, <2>3, <2>4, CallStepRuns
<1>6. CASE ~(\E r \in RunIds : RunStep(r)) /\ ~(\E d \in Decider : CallStep(d))
  BY <1>1, <1>3, <1>6, OtherStepDoes
<1> QED
  BY <1>4, <1>5, <1>6

\* A verdict takes a run past the gate it was given for if WorkflowState declares the key,
\* and leaves it there if not, where it pauses again if it comes to a pause.
THEOREM VerdictsTell == Spec => []VerdictsTakeEffect
<1>1. FlowInv /\ VerdictsInv => VerdictsTakeEffect
  <2> SUFFICES ASSUME FlowInv, VerdictsInv, NEW c \in RunIds, runs[c].carries # "none",
                      NEW gate, gate = runs[runs[c].source].approval,
                      runs[c].approval # None
               PROVE  runs[c].approval = gate <=> StateKey[gate] \notin Declared
    BY DEF VerdictsTakeEffect, Decisions
  <2>1. OwnInv(c) /\ VerdictInv(c)
    BY DEF FlowInv, RunsInv, RunInv, VerdictsInv
  <2> QED
    BY <2>1 DEF OwnInv, VerdictInv
<1>2. FlowInv /\ VerdictsInv /\ [Next]_vars => VerdictsInv'
  BY VerdictNext
<1> QED
  BY <1>1, <1>2, VerdictInit, FlowInvariant, PTL DEF Spec

\* A verdict in a run's state is that of a gate passed earlier in its chain, or of the
\* gate the run has just been let through.
OpenedBefore(r, k) ==
    \E q \in passed : /\ q[3] /\ StateKey[q[2]] = k /\ runs[q[1]].first = runs[r].first

KeyInv(r) ==
    \A k \in Key : runs[r].keys[k] # "none" =>
        \/ OpenedBefore(r, k)
        \/ runs[r].at \in Approval /\ runs[r].grant = runs[r].at /\ StateKey[runs[r].at] = k

GateInv == GatesAreReviewed /\ \A r \in RunIds : KeyInv(r)

LEMMA GateInit == Init => GateInv
<1> SUFFICES ASSUME Init, NEW r \in RunIds, NEW k \in Key PROVE runs[r].keys[k] = "none"
  BY DEF Init, GateInv, GatesAreReviewed, KeyInv
<1>1. PICK roots : runs = [s \in DOMAIN roots |->
                    [NewRun(Entry[roots[s]], NoDecisions, None) EXCEPT !.first = s]]
  BY DEF Init
<1>2. runs[r] = [NewRun(Entry[roots[r]], NoDecisions, None) EXCEPT !.first = r]
  BY <1>1 DEF RunIds
<1>3. runs[r].keys = [j \in Key |-> IF j \in Declared THEN NoDecisions[j] ELSE "none"]
  BY <1>2 DEF NewRun
<1> QED
  BY <1>3 DEF NoDecisions

\* What opened a gate of a chain stays on the history of that chain.
LEMMA OpenedStays ==
    ASSUME TypeOK, passed \subseteq passed', NEW r \in RunIds, NEW k, OpenedBefore(r, k),
           \A s \in RunIds : Persists(s)
    PROVE  /\ OpenedBefore(r, k)'
           /\ \A c : runs'[c].first = runs[r].first => OpenedBefore(c, k)'
<1>1. PICK q \in passed : q[3] /\ StateKey[q[2]] = k /\ runs[q[1]].first = runs[r].first
  BY DEF OpenedBefore
<1>2. q[1] \in RunIds
  BY DEF TypeOK
<1>3. runs'[q[1]].first = runs[q[1]].first /\ runs'[r].first = runs[r].first
  BY <1>2 DEF Persists, SameOrigin
<1> QED
  BY <1>1, <1>3 DEF OpenedBefore

\* What is reviewed stays so.
LEMMA ReviewedStays ==
    ASSUME TypeOK, GatesAreReviewed, passed' = passed, \A s \in RunIds : Persists(s)
    PROVE  GatesAreReviewed'
<1>1. \A p \in passed : runs'[p[1]].first = runs[p[1]].first
  BY DEF TypeOK, Persists, SameOrigin
<1> QED
  BY <1>1 DEF GatesAreReviewed

\* A run that stays in place keeps it, whatever is passed elsewhere.
LEMMA KeyStays ==
    ASSUME TypeOK, passed \subseteq passed', NEW r \in RunIds, KeyInv(r), Stays(r),
           \A s \in RunIds : Persists(s)
    PROVE  KeyInv(r)'
<1> SUFFICES ASSUME NEW k \in Key, runs'[r].keys[k] # "none"
             PROVE  \/ OpenedBefore(r, k)'
                    \/ /\ runs'[r].at \in Approval /\ runs'[r].grant = runs'[r].at
                       /\ StateKey[runs'[r].at] = k
  BY DEF KeyInv
<1>1. \/ OpenedBefore(r, k)
      \/ runs[r].at \in Approval /\ runs[r].grant = runs[r].at /\ StateKey[runs[r].at] = k
  BY DEF KeyInv, Persists, SameOrigin
<1> QED
  BY <1>1, OpenedStays DEF Stays

\* A run that leaves a node that is no gate keeps it ...
LEMMA KeyLeft ==
    ASSUME TypeOK, passed \subseteq passed', NEW r \in RunIds, KeyInv(r),
           runs[r].at \notin Approval, \A s \in RunIds : Persists(s)
    PROVE  KeyInv(r)'
<1> SUFFICES ASSUME NEW k \in Key, runs'[r].keys[k] # "none" PROVE OpenedBefore(r, k)'
  BY DEF KeyInv
<1>1. OpenedBefore(r, k)
  BY DEF KeyInv, Persists, SameOrigin
<1> QED
  BY <1>1, OpenedStays

\* ... and so does one that passes its gate, which is then reviewed.
LEMMA KeyPassed ==
    ASSUME TypeOK, NEW r \in RunIds, KeyInv(r), PassGate(r), GatesAreReviewed,
           \A s \in RunIds : Persists(s)
    PROVE  KeyInv(r)' /\ GatesAreReviewed'
<1>1. PICK n, g : n = runs[r].at /\ g = (runs[r].grant = runs[r].at)
  OBVIOUS
<1>2. /\ passed' = passed \union {<<r, n, g>>} /\ n \in Approval /\ StateKey[n] \in Key
      /\ runs[r].keys[StateKey[n]] # "none"
  BY <1>1 DEF PassGate, At, DecisionAt, Key
<1>3. passed \subseteq passed' /\ <<r, n, g>> \in passed'
  BY <1>2
<1>4. KeyInv(r)'
  <2> SUFFICES ASSUME NEW k \in Key, runs'[r].keys[k] # "none" PROVE OpenedBefore(r, k)'
    BY DEF KeyInv
  <2>1. \/ OpenedBefore(r, k)
        \/ g /\ StateKey[n] = k
    BY <1>1 DEF KeyInv, Persists, SameOrigin
  <2>2. CASE OpenedBefore(r, k)
    BY <1>3, <2>2, OpenedStays
  <2>3. CASE g /\ StateKey[n] = k
    BY <1>3, <2>3 DEF OpenedBefore
  <2> QED
    BY <2>1, <2>2, <2>3
<1>5. ASSUME NEW p \in passed'
      PROVE  p[3] \/ \E q \in passed' : /\ q[3] /\ StateKey[q[2]] = StateKey[p[2]]
                                        /\ runs'[q[1]].first = runs'[p[1]].first
  <2>1. CASE p \in passed
    <3>1. /\ p[1] \in RunIds /\ runs'[p[1]].first = runs[p[1]].first
      BY <2>1 DEF TypeOK, Persists, SameOrigin
    <3>2. p[3] \/ OpenedBefore(p[1], StateKey[p[2]])
      BY <2>1 DEF GatesAreReviewed, OpenedBefore
    <3>3. p[3] \/ OpenedBefore(p[1], StateKey[p[2]])'
      BY <1>3, <3>1, <3>2, OpenedStays
    <3> QED
      BY <3>3 DEF OpenedBefore
  <2>2. CASE p = <<r, n, g>>
    <3>1. \/ g
          \/ OpenedBefore(r, StateKey[n])
      BY <1>1, <1>2 DEF KeyInv
    <3>2. g \/ OpenedBefore(r, StateKey[n])'
      BY <1>3, <3>1, OpenedStays
    <3> QED
      BY <2>2, <3>2 DEF OpenedBefore
  <2> QED
    BY <1>2, <2>1, <2>2
<1> QED
  BY <1>4, <1>5 DEF GatesAreReviewed

\* A continuation of a paused gate brings what the paused run had, and its verdict.
LEMMA BeginKeys ==
    ASSUME TypeOK, RunsInv, CallsInv, NEW d \in Decider, Begin(d) \/ BeginRaises(d),
           \A r \in RunIds : KeyInv(r), passed' = passed, NEW c, c = Len(runs) + 1
    PROVE  KeyInv(c)'
<1>1. PICK r, v, n : /\ r = decider[d].source
                     /\ v = decider[d].verdict /\ n = runs[r].approval
  OBVIOUS
<1>2. /\ r \in RunIds /\ v \in Verdict /\ n \in Approval /\ n # None
      /\ \A s \in RunIds : runs'[s] = runs[s]
      /\ runs'[c].at = n /\ Kept(runs'[c], WithVerdict(r, v)) /\ runs'[c].grant = n
      /\ runs'[c].first = runs[r].first /\ RunIds' = RunIds \union {c}
  BY <1>1, BeginDoes
<1>3. /\ runs[r].keys \in [Key -> Verdict \union {"none"}] /\ StateKey[n] \in Key
      /\ runs[r].at = n /\ runs[r].keys[StateKey[n]] = "none"
  BY <1>1, <1>2, RunFields DEF Run, Key, RunsInv, RunInv, OwnInv
<1> SUFFICES ASSUME NEW k \in Key, runs'[c].keys[k] # "none", k # StateKey[n]
             PROVE  OpenedBefore(c, k)'
  BY <1>2 DEF KeyInv
<1>4. WithVerdict(r, v)[k] = runs[r].keys[k]
  BY <1>1, <1>3 DEF WithVerdict
<1>5. runs[r].keys[k] # "none"
  BY <1>2, <1>4 DEF Kept
<1>6. OpenedBefore(r, k)
  BY <1>2, <1>3, <1>5 DEF KeyInv
<1>7. \A s \in RunIds : Persists(s)
  BY <1>2 DEF Persists, SameOrigin
<1> QED
  BY <1>2, <1>6, <1>7, OpenedStays

\* A continuation of a parent brings what the parent had.
LEMMA ForkKeys ==
    ASSUME TypeOK, NEW p \in RunIds, KeyInv(p), runs[p].at \in Subgraph, passed' = passed,
           NEW c, Kept(runs'[c], runs[p].keys), runs'[c].first = runs[p].first,
           \A s \in RunIds : Persists(s)
    PROVE  KeyInv(c)'
<1> SUFFICES ASSUME NEW k \in Key, runs'[c].keys[k] # "none" PROVE OpenedBefore(c, k)'
  BY DEF KeyInv
<1>1. runs[p].keys[k] # "none" /\ runs[p].at \notin Approval
  BY FlowAssumption DEF FlowAssumption, Kept
<1>2. OpenedBefore(p, k)
  BY <1>1 DEF KeyInv
<1> QED
  BY <1>2, OpenedStays

LEMMA GateNext ==
    ASSUME FlowInv, GateInv, [Next]_vars
    PROVE  GateInv'
<1>1. TypeOK /\ RunsInv /\ CallsInv /\ GatesAreReviewed
  BY DEF FlowInv, GateInv
<1>2. \A s \in RunIds : Persists(s) /\ KeyInv(s)
  BY NextPersists DEF GateInv
<1>3. ASSUME NEW r \in RunIds, RunStep(r) PROVE GateInv'
  <2>1. /\ \A s \in RunIds : Stays(s) \/ (s = r /\ Leaves(s))
        /\ \A s \in RunIds' \ RunIds : KeyInv(s)'
    BY <1>1, <1>3, RunStepPlaces DEF KeyInv
  <2>2. CASE PassGate(r)
    <3>1. passed \subseteq passed'
      BY <2>2 DEF PassGate
    <3>2. KeyInv(r)' /\ GatesAreReviewed'
      BY <1>1, <1>2, <2>2, KeyPassed
    <3>3. \A s \in RunIds : s # r => KeyInv(s)'
      BY <1>1, <1>2, <2>1, <3>1, KeyStays
    <3> QED
      BY <2>1, <3>2, <3>3 DEF GateInv
  <2>3. CASE ~PassGate(r)
    <3>1. passed' = passed
      BY <1>1, <1>3, <2>3, RunStepKinds
    <3>2. \A s \in RunIds : Stays(s) \/ runs[s].at \notin Approval
      BY <2>1, <2>3 DEF Leaves
    <3>3. \A s \in RunIds : KeyInv(s)'
      BY <1>1, <1>2, <3>1, <3>2, KeyStays, KeyLeft
    <3>4. GatesAreReviewed'
      BY <1>1, <1>2, <3>1, ReviewedStays
    <3> QED
      BY <2>1, <3>3, <3>4 DEF GateInv
  <2> QED
    BY <2>2, <2>3
<1>4. ASSUME NEW d \in Decider, CallStep(d) PROVE GateInv'
  <2>1. passed' = passed
    BY <1>1, <1>4, CallStepDoes
  <2>2. GatesAreReviewed' /\ \A s \in RunIds : KeyInv(s)'
    BY <1>1, <1>2, <1>4, <2>1, CallStepPlaces, KeyStays, ReviewedStays
  <2>3. ASSUME NEW c \in RunIds' \ RunIds PROVE KeyInv(c)'
    <3>1. PICK b : b = Len(runs) + 1
      OBVIOUS
    <3>2. CASE Begin(d) \/ BeginRaises(d)
      <4>1. PICK r, v, n : /\ r = decider[d].source
                           /\ v = decider[d].verdict /\ n = runs[r].approval
        OBVIOUS
      <4>2. RunIds' = RunIds \union {b}
        BY <1>1, <3>1, <3>2, <4>1, BeginDoes
      <4>3. c = b
        BY <4>2
      <4> QED
        BY <1>1, <1>2, <2>1, <3>1, <3>2, <4>3, BeginKeys
    <3>3. CASE ForkParent(d) \/ ParentRaises(d)
      <4>1. runs' # runs
        BY DEF RunIds
      <4>2. PICK p \in RunIds : /\ RunIds' = RunIds \union {b} /\ runs[p].at \in Subgraph
                                /\ Kept(runs'[b], runs[p].keys)
                                /\ runs'[b].first = runs[p].first
        BY <1>1, <3>1, <3>3, <4>1, ForkParentDoes
      <4>3. c = b
        BY <4>2
      <4> QED
        BY <1>1, <1>2, <2>1, <4>2, <4>3, ForkKeys
    <3>4. CASE LeaveParent(d) \/ SkipParent(d)
      BY <3>4 DEF LeaveParent, SkipParent, RunIds
    <3>5. CASE WriteParentDecision(d)
      BY <1>1, <3>5, WriteParentDecisionDoes
    <3>6. CASE WriteDecision(d)
      <4>1. PICK r \in RunIds : r = decider[d].source
        BY <1>1, <3>6 DEF CallsInv, CallInv, WriteDecision
      <4> QED
        BY <1>1, <3>6, <4>1, WriteDecisionDoes
    <3> QED
      BY <1>4, <3>2, <3>3, <3>4, <3>5, <3>6 DEF CallStep
  <2> QED
    BY <2>2, <2>3 DEF GateInv
<1>5. CASE ~(\E r \in RunIds : RunStep(r)) /\ ~(\E d \in Decider : CallStep(d))
  <2>1. RunIds' = RunIds /\ passed' = passed /\ \A s \in RunIds : Stays(s)
    BY <1>1, <1>5, OtherStepDoes
  <2>2. GatesAreReviewed' /\ \A s \in RunIds : KeyInv(s)'
    BY <1>1, <1>2, <2>1, KeyStays, ReviewedStays
  <2> QED
    BY <2>1, <2>2 DEF GateInv
<1> QED
  BY <1>3, <1>4, <1>5

\* No gate opens but by a verdict given for it, or, where that is the code's way, by one
\* given for a gate with the same key earlier in the chain of continuations.
THEOREM GatesReviewed == Spec => []GatesAreReviewed
<1>1. FlowInv /\ GateInv /\ [Next]_vars => GateInv'
  BY GateNext
<1>2. GateInv => GatesAreReviewed
  BY DEF GateInv
<1> QED
  BY <1>1, <1>2, GateInit, FlowInvariant, PTL DEF Spec

-----------------------------------------------------------------------------
(* How often a paused run is continued. Every continuation whose call was    *)
(* not cut off can be told one decider of its own: all of them are waited for *)
(* until a decision is on record, and no call passes the checks afterwards.  *)

Uncut(r) == VerdictRuns(r) \ cut
Checked(r) == {d \in Decider : decider[d].stage = "checked" /\ decider[d].source = r}
Begun(d) == decider[d].stage \notin {"idle", "checked"}

\* Until its decision is on record, every continuation has its call waiting for it.
Attended(r) ==
    runs[r].decision = "none" =>
        \A c \in Uncut(r) : \E d \in Decider : Begun(d) /\ decider[d].run = c

\* The continuations have deciders of their own, other than those about to begin one.
Assigned(r) ==
    \E f \in [Uncut(r) -> Decider] :
        /\ \A b, c \in Uncut(r) : f[b] = f[c] => b = c
        /\ \A c \in Uncut(r) : f[c] \notin Checked(r)

ReviewInv == \A r \in RunIds : Attended(r) /\ Assigned(r)

\* Fewer continuations and fewer calls about to begin one keep their deciders.
LEMMA AssignedShrinks ==
    ASSUME NEW r, Assigned(r), Uncut(r)' \subseteq Uncut(r), Checked(r)' \subseteq Checked(r)
    PROVE  Assigned(r)'
<1>1. PICK f \in [Uncut(r) -> Decider] :
         /\ \A b, c \in Uncut(r) : f[b] = f[c] => b = c
         /\ \A c \in Uncut(r) : f[c] \notin Checked(r)
  BY DEF Assigned
<1>2. PICK U : U = Uncut(r)'
  OBVIOUS
<1>3. PICK g \in [U -> Decider] : \A c \in U : g[c] = f[c]
  <2>1. [c \in U |-> f[c]] \in [U -> Decider]
    BY <1>2
  <2> QED
    BY <2>1
<1>4. /\ \A b, c \in U : g[b] = g[c] => b = c
      /\ \A c \in U : g[c] \notin Checked(r)'
  BY <1>1, <1>2, <1>3
<1>5. \E h \in [U -> Decider] : /\ \A b, c \in U : h[b] = h[c] => b = c
                                /\ \A c \in U : h[c] \notin Checked(r)'
  BY <1>3, <1>4
<1> QED
  BY <1>2, <1>5 DEF Assigned

LEMMA NoneAssigned ==
    ASSUME NEW r, Uncut(r)' = {}
    PROVE  Attended(r)' /\ Assigned(r)'
<1>1. [c \in {} |-> CHOOSE d \in Decider : TRUE] \in [{} -> Decider]
  OBVIOUS
<1> QED
  BY <1>1 DEF Attended, Assigned

\* The continuations of a run with a verdict, and what steps do to them.
LEMMA VerdictRunsGrow ==
    ASSUME RunsInv, \A s \in RunIds : Persists(s), NEW r
    PROVE  /\ r \notin RunIds => VerdictRuns(r) = {}
           /\ VerdictRuns(r) \subseteq VerdictRuns(r)'
           /\ Grows \/ RunIds' = RunIds => VerdictRuns(r)' = VerdictRuns(r)
<1>1. r \notin RunIds => VerdictRuns(r) = {}
  BY DEF RunsInv, RunInv, SourceInv, VerdictRuns, Continuations
<1>2. VerdictRuns(r) \subseteq VerdictRuns(r)'
  BY DEF VerdictRuns, Continuations, Persists, SameOrigin
<1>3. ASSUME Grows \/ RunIds' = RunIds PROVE VerdictRuns(r)' \subseteq VerdictRuns(r)
  BY <1>3 DEF Grows, VerdictRuns, Continuations, Persists, SameOrigin
<1> QED
  BY <1>1, <1>2, <1>3

\* What a continuation that begins adds to them.
LEMMA BeginAdds ==
    ASSUME TypeOK, CallsInv, NEW d \in Decider, Begin(d) \/ BeginRaises(d),
           NEW c, c = Len(runs) + 1, NEW q, q = decider[d].source
    PROVE  /\ q \in RunIds /\ decider[d].verdict \in Verdict
           /\ RunIds' = RunIds \union {c} /\ c \notin RunIds
           /\ \A s \in RunIds : runs'[s] = runs[s]
           /\ runs'[c].carries = decider[d].verdict /\ runs'[c].decision = "none"
           /\ VerdictRuns(q)' = VerdictRuns(q) \union {c}
           /\ \A r : r # q => VerdictRuns(r)' = VerdictRuns(r)
<1>1. PICK v, n : v = decider[d].verdict /\ n = runs[q].approval
  OBVIOUS
<1>2. /\ RunIds' = RunIds \union {c} /\ c \notin RunIds /\ q \in RunIds /\ v \in Verdict
      /\ \A s \in RunIds : runs'[s] = runs[s]
      /\ Fresh(runs'[c]) /\ runs'[c].source = q /\ runs'[c].carries = v
  BY <1>1, BeginDoes
<1> QED
  BY <1>1, <1>2 DEF VerdictRuns, Continuations, Fresh, Verdict

LEMMA ReviewInit == Init => ReviewInv
<1> SUFFICES ASSUME Init, NEW r \in RunIds PROVE Attended(r) /\ Assigned(r)
  BY DEF ReviewInv
<1>1. PICK roots : runs = [s \in DOMAIN roots |->
                    [NewRun(Entry[roots[s]], NoDecisions, None) EXCEPT !.first = s]]
  BY DEF Init
<1>2. ASSUME NEW c \in RunIds PROVE runs[c].carries = "none"
  <2>1. runs[c] = [NewRun(Entry[roots[c]], NoDecisions, None) EXCEPT !.first = c]
    BY <1>1 DEF RunIds
  <2> QED
    BY <2>1 DEF NewRun
<1>3. Uncut(r) = {}
  BY <1>2 DEF Uncut, VerdictRuns, Continuations
<1>4. [c \in {} |-> CHOOSE d \in Decider : TRUE] \in [{} -> Decider]
  OBVIOUS
<1> QED
  BY <1>3, <1>4 DEF Attended, Assigned

\* A run's thread changes neither the continuations nor the calls.
LEMMA ReviewRunStep ==
    ASSUME TypeOK, RunsInv, ReviewInv, NEW r \in RunIds, RunStep(r)
    PROVE  ReviewInv'
<1>1. Grows /\ decider' = decider /\ cut' = cut
  BY RunStepGrows, RunStepKinds
<1> SUFFICES ASSUME NEW s \in RunIds' PROVE Attended(s)' /\ Assigned(s)'
  BY DEF ReviewInv
<1>2. /\ Uncut(s)' = Uncut(s) /\ Checked(s)' = Checked(s)
      /\ s \notin RunIds => Uncut(s) = {}
  BY <1>1, VerdictRunsGrow DEF Grows, Uncut, Checked
<1>3. CASE s \in RunIds
  <2>1. Attended(s) /\ Assigned(s) /\ runs'[s].decision = runs[s].decision
    BY <1>1, <1>3 DEF ReviewInv, Grows
  <2>2. Attended(s)'
    BY <1>1, <1>2, <2>1 DEF Attended, Begun
  <2> QED
    BY <1>2, <2>1, <2>2, AssignedShrinks
<1>4. CASE s \notin RunIds
  BY <1>2, <1>4, NoneAssigned
<1> QED
  BY <1>3, <1>4

\* A call that passes the checks finds no decision: every continuation has its own call.
LEMMA ReviewAccept ==
    ASSUME TypeOK, RunsInv, ReviewInv, NEW d \in Decider, NEW r \in RunIds, NEW v \in Verdict,
           Accept(d, r, v)
    PROVE  ReviewInv'
<1>1. /\ \A e \in Decider : e # d => decider'[e] = decider[e]
      /\ decider[d].stage = "idle" /\ decider'[d].stage = "checked"
      /\ decider'[d].source = r
      /\ runs' = runs /\ cut' = cut /\ runs[r].decision = "none"
  BY AcceptDoes DEF Decidable
<1> SUFFICES ASSUME NEW s \in RunIds PROVE Attended(s)' /\ Assigned(s)'
  BY <1>1 DEF ReviewInv, RunIds
<1>2. Attended(s) /\ Assigned(s) /\ Uncut(s)' = Uncut(s)
  BY <1>1 DEF ReviewInv, Uncut, VerdictRuns, Continuations, RunIds
<1>3. Attended(s)'
  BY <1>1, <1>2 DEF Attended, Begun
<1>4. CASE s # r
  <2>1. Checked(s)' = Checked(s)
    BY <1>1, <1>4 DEF Checked
  <2> QED
    BY <1>2, <1>3, <2>1, AssignedShrinks
<1>5. CASE s = r
  <2>1. \A c \in Uncut(r) : \E e \in Decider : Begun(e) /\ decider[e].run = c
    BY <1>1, <1>2, <1>5 DEF Attended
  <2>2. PICK f \in [Uncut(r) -> Decider] :
           \A c \in Uncut(r) : Begun(f[c]) /\ decider[f[c]].run = c
    <3>1. PICK g : g = [c \in Uncut(r) |->
                           CHOOSE e \in Decider : Begun(e) /\ decider[e].run = c]
      OBVIOUS
    <3> QED
      BY <2>1, <3>1
  <2>3. \A b, c \in Uncut(r) : f[b] = f[c] => b = c
    BY <2>2
  <2>4. \A c \in Uncut(r) : f[c] \notin Checked(r)'
    BY <1>1, <2>2 DEF Begun, Checked
  <2>5. Assigned(r)'
    BY <1>2, <1>5, <2>3, <2>4 DEF Assigned
  <2> QED
    BY <1>3, <1>5, <2>5
<1> QED
  BY <1>4, <1>5

\* The call that begins a continuation is told as its decider.
LEMMA ReviewBegin ==
    ASSUME TypeOK, RunsInv, CallsInv, ReviewInv, NEW d \in Decider, Begin(d)
    PROVE  ReviewInv'
<1>1. PICK c, q : c = Len(runs) + 1 /\ q = decider[d].source
  OBVIOUS
<1>2. /\ q \in RunIds /\ RunIds' = RunIds \union {c} /\ c \notin RunIds
      /\ \A s \in RunIds : runs'[s] = runs[s]
      /\ VerdictRuns(q)' = VerdictRuns(q) \union {c}
      /\ \A r : r # q => VerdictRuns(r)' = VerdictRuns(r)
  BY <1>1, BeginAdds
<1>3. /\ cut' = cut /\ decider[d].stage = "checked" /\ c \notin cut
      /\ \A e \in Decider : e # d => decider'[e] = decider[e]
  BY <1>2, CallStepDoes DEF CallStep, Begin, TypeOK
<1>4. Begun(d)' /\ decider'[d].run = c
  <2>1. decider' = [decider EXCEPT ![d].stage = "continuation", ![d].run = c]
    BY <1>1 DEF Begin
  <2>2. decider[d] \in Call /\ decider \in [Decider -> Call]
    BY DEF TypeOK
  <2> QED
    BY <2>1, <2>2 DEF Begun, Call
<1> SUFFICES ASSUME NEW s \in RunIds' PROVE Attended(s)' /\ Assigned(s)'
  BY DEF ReviewInv
<1>5. /\ s # q => Uncut(s)' = Uncut(s)
      /\ s = q => Uncut(s)' = Uncut(s) \union {c}
      /\ Checked(s)' = Checked(s) \ {d}
  BY <1>2, <1>3, <1>4 DEF Uncut, Checked, Begun
<1>6. CASE s \notin RunIds
  <2>1. Uncut(s) = {}
    BY <1>6 DEF RunsInv, RunInv, SourceInv, Uncut, VerdictRuns, Continuations
  <2> QED
    BY <1>2, <1>5, <1>6, <2>1, NoneAssigned
<1>7. CASE s \in RunIds
  <2>1. Attended(s) /\ Assigned(s) /\ runs'[s].decision = runs[s].decision
    BY <1>2, <1>7 DEF ReviewInv
  <2>2. ASSUME NEW e \in Decider, Begun(e) PROVE Begun(e)' /\ decider'[e].run = decider[e].run
    BY <1>3, <2>2 DEF Begun
  <2>3. Attended(s)'
    BY <1>4, <1>5, <2>1, <2>2 DEF Attended
  <2>4. CASE s # q
    BY <1>5, <2>1, <2>3, <2>4, AssignedShrinks
  <2>5. CASE s = q
    <3>1. PICK f \in [Uncut(s) -> Decider] :
             /\ \A a, b \in Uncut(s) : f[a] = f[b] => a = b
             /\ \A b \in Uncut(s) : f[b] \notin Checked(s)
      BY <2>1 DEF Assigned
    <3>2. d \in Checked(s) /\ c \notin Uncut(s)
      BY <1>1, <1>2, <1>3, <2>5 DEF Checked, Uncut, VerdictRuns, Continuations
    <3>3. PICK U : U = Uncut(s) \union {c}
      OBVIOUS
    <3>4. PICK g \in [U -> Decider] : /\ g[c] = d
                                      /\ \A b \in Uncut(s) : g[b] = f[b]
      <4>1. PICK h : h = [b \in U |-> IF b = c THEN d ELSE f[b]]
        OBVIOUS
      <4> QED
        BY <3>2, <3>3, <4>1
    <3>5. /\ \A a, b \in U : g[a] = g[b] => a = b
          /\ \A b \in U : g[b] \notin Checked(s)'
      BY <1>5, <3>1, <3>2, <3>3, <3>4
    <3>6. Assigned(s)'
      BY <1>5, <2>5, <3>3, <3>4, <3>5 DEF Assigned
    <3> QED
      BY <2>3, <3>6
  <2> QED
    BY <2>4, <2>5
<1> QED
  BY <1>6, <1>7

\* The other steps of a call.
LEMMA ReviewCallStep ==
    ASSUME TypeOK, RunsInv, CallsInv, ReviewInv, NEW d \in Decider, CallStep(d), ~Begin(d)
    PROVE  ReviewInv'
<1>1. /\ \A s \in RunIds : Persists(s)
      /\ BeginRaises(d) \/ WriteDecision(d) \/ (Grows /\ ~WriteDecision(d))
  BY CallStepRuns
<1>2. /\ \A e \in Decider : e # d => decider'[e] = decider[e]
      /\ \/ /\ BeginRaises(d) /\ cut' = cut \union {Len(runs) + 1}
            /\ decider[d].stage = "checked" /\ decider'[d] = NoCall
         \/ /\ decider[d].stage \in {"continuation", "parent"} /\ cut' = cut
            /\ decider'[d].stage \in {"parent", "record"}
            /\ decider'[d].run = decider[d].run
         \/ /\ ParentRaises(d) /\ cut' = cut \union {decider[d].run}
            /\ decider[d].stage = "continuation" /\ decider'[d] = NoCall
         \/ /\ WriteDecision(d) /\ cut' = cut
            /\ decider[d].stage = "record" /\ decider'[d] = NoCall
  BY CallStepDoes
<1> SUFFICES ASSUME NEW s \in RunIds' PROVE Attended(s)' /\ Assigned(s)'
  BY DEF ReviewInv
<1>3. Checked(s)' \subseteq Checked(s)
  BY <1>2, NoCallIsIdle DEF Checked
<1>4. Uncut(s)' \subseteq Uncut(s) /\ (s \notin RunIds => Uncut(s) = {})
  <2>1. CASE BeginRaises(d)
    <3>1. PICK c, q : c = Len(runs) + 1 /\ q = decider[d].source
      OBVIOUS
    <3>2. VerdictRuns(s)' \subseteq VerdictRuns(s) \union {c}
      BY <2>1, <3>1, BeginAdds
    <3>3. cut' = cut \union {c}
      BY <2>1, <3>1 DEF BeginRaises
    <3> QED
      BY <1>1, <3>2, <3>3, VerdictRunsGrow DEF Uncut
  <2>2. CASE WriteDecision(d)
    <3>1. PICK r \in RunIds : r = decider[d].source
      BY <2>2 DEF CallsInv, CallInv, WriteDecision
    <3>2. RunIds' = RunIds /\ cut' = cut
      BY <2>2, <3>1, WriteDecisionDoes DEF WriteDecision
    <3> QED
      BY <1>1, <3>2, VerdictRunsGrow DEF Uncut
  <2>3. CASE Grows /\ ~BeginRaises(d)
    BY <1>1, <1>2, <2>3, VerdictRunsGrow DEF Uncut
  <2> QED
    BY <1>1, <2>1, <2>2, <2>3
<1>5. CASE s \notin RunIds
  BY <1>4, <1>5, NoneAssigned
<1>6. CASE s \in RunIds
  <2>1. Attended(s) /\ Assigned(s)'
    BY <1>3, <1>4, <1>6, AssignedShrinks DEF ReviewInv
  <2>2. SUFFICES ASSUME runs'[s].decision = "none", NEW c \in Uncut(s)'
                 PROVE  \E e \in Decider : Begun(e)' /\ decider'[e].run = c
    BY <2>1 DEF Attended
  <2>3. \/ WriteDecision(d) /\ s = decider[d].source
        \/ runs[s].decision = "none"
    <3>1. CASE BeginRaises(d)
      <4>1. PICK b, q : b = Len(runs) + 1 /\ q = decider[d].source
        OBVIOUS
      <4>2. runs'[s] = runs[s]
        BY <1>6, <3>1, <4>1, BeginAdds
      <4> QED
        BY <2>2, <4>2
    <3>2. CASE WriteDecision(d)
      <4>1. PICK r \in RunIds : r = decider[d].source
        BY <3>2 DEF CallsInv, CallInv, WriteDecision
      <4> QED
        BY <1>6, <2>2, <3>2, <4>1, WriteDecisionDoes
    <3>3. CASE Grows
      BY <1>6, <2>2, <3>3 DEF Grows
    <3> QED
      BY <1>1, <3>1, <3>2, <3>3
  <2>4. ~(WriteDecision(d) /\ s = decider[d].source)
    <3> SUFFICES ASSUME WriteDecision(d), s = decider[d].source PROVE FALSE
      OBVIOUS
    <3>1. runs'[s].decision = decider[d].verdict
      BY <1>6, WriteDecisionDoes
    <3>2. decider[d].verdict # "none"
      BY DEF CallsInv, CallInv, WriteDecision
    <3> QED
      BY <2>2, <3>1, <3>2
  <2>5. c \in Uncut(s)
    BY <1>4, <2>2
  <2>6. PICK e \in Decider : Begun(e) /\ decider[e].run = c
    BY <2>1, <2>3, <2>4, <2>5 DEF Attended
  <2>7. CASE e # d
    BY <1>2, <2>6, <2>7 DEF Begun
  <2>8. CASE e = d /\ WriteDecision(d)
    <3>1. runs[c].source = decider[d].source
      BY <2>6, <2>8 DEF CallsInv, CallInv, WriteDecision
    <3>2. runs[c].source = s
      BY <2>5 DEF Uncut, VerdictRuns, Continuations
    <3> QED
      BY <2>4, <2>8, <3>1, <3>2
  <2>9. CASE e = d /\ ~WriteDecision(d)
    <3>1. c \notin cut'
      BY <2>2 DEF Uncut
    <3> QED
      BY <1>2, <2>6, <2>9, <3>1 DEF Begun
  <2> QED
    BY <2>7, <2>8, <2>9
<1> QED
  BY <1>5, <1>6

\* A crash cuts off every continuation that was waited for.
LEMMA ReviewCrash ==
    ASSUME TypeOK, RunsInv, CallsInv, ReviewInv, Crash
    PROVE  ReviewInv'
<1>1. /\ RunIds' = RunIds /\ cut' = cut \union InProgress
      /\ \A s \in RunIds : SameOrigin(s) /\ SameFiles(s)
      /\ \A d \in Decider : decider'[d] = NoCall
  BY CrashDoes
<1> SUFFICES ASSUME NEW s \in RunIds PROVE Attended(s)' /\ Assigned(s)'
  BY <1>1 DEF ReviewInv
<1>2. Uncut(s)' = Uncut(s) \ InProgress
  BY <1>1 DEF Uncut, VerdictRuns, Continuations, SameOrigin
<1>3. Checked(s)' = {}
  BY <1>1, NoCallIsIdle DEF Checked
<1>4. Attended(s)'
  <2>1. Attended(s) /\ runs'[s].decision = runs[s].decision
    BY <1>1 DEF ReviewInv, SameFiles
  <2>2. \A d \in Decider : Begun(d) => decider[d].run \in InProgress
    BY DEF Begun, InProgress
  <2> QED
    BY <1>2, <2>1, <2>2 DEF Attended
<1> QED
  BY <1>2, <1>3, <1>4, AssignedShrinks DEF ReviewInv

LEMMA ReviewNext ==
    ASSUME FlowInv, ReviewInv, [Next]_vars
    PROVE  ReviewInv'
<1>1. TypeOK /\ RunsInv /\ CallsInv
  BY DEF FlowInv
<1>2. CASE UNCHANGED vars
  <2> SUFFICES ASSUME NEW s \in RunIds PROVE Attended(s)' /\ Assigned(s)'
    BY <1>2 DEF vars, ReviewInv, RunIds
  <2>1. Uncut(s)' = Uncut(s) /\ Checked(s)' = Checked(s)
    BY <1>2 DEF vars, Uncut, Checked, VerdictRuns, Continuations, RunIds
  <2>2. Attended(s)'
    BY <1>2, <2>1 DEF vars, ReviewInv, Attended, Begun
  <2> QED
    BY <2>1, <2>2, AssignedShrinks DEF ReviewInv
<1>3. ASSUME NEW d \in Decider, CallStep(d) PROVE ReviewInv'
  BY <1>1, <1>3, ReviewBegin, ReviewCallStep
<1> QED
  BY <1>1, <1>2, <1>3, ReviewRunStep, ReviewAccept, ReviewCrash DEF Next, Progress

\* The runs are finite, and so are the continuations of one.
LEMMA FiniteRuns ==
    ASSUME TypeOK
    PROVE  IsFiniteSet(RunIds) /\ \A r : IsFiniteSet(VerdictRuns(r))
<1>1. IsFiniteSet(RunIds)
  BY RunFields, FS_Interval
<1>2. \A r : VerdictRuns(r) \in SUBSET RunIds
  BY DEF VerdictRuns, Continuations
<1> QED
  BY <1>1, <1>2, FS_Subset

\* A paused run is continued with a verdict at most once for each decider there is, and
\* once more for each call that ended without its record.
THEOREM ContinuedOncePerCall == Spec => []OneRunPerCall
<1>1. FlowInv /\ ReviewInv => OneRunPerCall
  <2> SUFFICES ASSUME FlowInv, ReviewInv, NEW r \in RunIds
               PROVE  Cardinality(VerdictRuns(r)) <=
                          Cardinality(Decider) + Cardinality(VerdictRuns(r) \intersect cut)
    BY DEF OneRunPerCall
  <2>1. /\ IsFiniteSet(VerdictRuns(r)) /\ Cardinality(VerdictRuns(r)) \in Nat
        /\ IsFiniteSet(Decider) /\ Cardinality(Decider) \in Nat
    BY FiniteRuns, FS_CardinalityType, FlowAssumption DEF FlowInv, FlowAssumption
  <2>2. /\ VerdictRuns(r) \intersect cut \in SUBSET VerdictRuns(r)
        /\ Uncut(r) \in SUBSET VerdictRuns(r)
        /\ Uncut(r) = VerdictRuns(r) \ cut
    BY DEF Uncut
  <2>3. /\ IsFiniteSet(Uncut(r)) /\ Cardinality(Uncut(r)) \in Nat
        /\ Cardinality(VerdictRuns(r) \intersect cut) \in Nat
    BY <2>1, <2>2, FS_Subset, FS_CardinalityType
  <2>4. Cardinality(Uncut(r)) =
            Cardinality(VerdictRuns(r)) - Cardinality(VerdictRuns(r) \intersect cut)
    BY <2>1, <2>2, FS_Difference
  <2>5. Cardinality(Uncut(r)) <= Cardinality(Decider)
    <3> SUFFICES ASSUME Cardinality(Decider) < Cardinality(Uncut(r)) PROVE FALSE
      BY <2>1, <2>3
    <3>1. PICK f \in [Uncut(r) -> Decider] : \A b, c \in Uncut(r) : f[b] = f[c] => b = c
      BY DEF ReviewInv, Assigned
    <3>2. \E b, c \in Uncut(r) : b # c /\ f[b] = f[c]
      BY <2>1, <2>3, FS_PigeonHole
    <3> QED
      BY <3>1, <3>2
  <2> QED
    BY <2>1, <2>3, <2>4, <2>5
<1>2. FlowInv /\ ReviewInv /\ [Next]_vars => ReviewInv'
  BY ReviewNext
<1> QED
  BY <1>1, <1>2, ReviewInit, FlowInvariant, PTL DEF Spec

-----------------------------------------------------------------------------
(* The flow keeps ApprovalPromise.                                         *)

Calls == [d \in Decider |-> CallOf(d)]
Counts == [r \in 1..MaxRuns |-> [v \in Verdict |-> Cardinality(Carrying(r, v))]]
RecordOf(r) == IF r \in RunIds THEN runs[r].decision ELSE "none"
Records == [r \in 1..MaxRuns |-> RecordOf(r)]

PromiseVars == <<Calls, Counts, Records>>

\* The same continuations with the same verdicts, and the same decisions.
LEMMA SameCounts ==
    ASSUME \A s \in RunIds : Persists(s), NEW r, VerdictRuns(r)' = VerdictRuns(r)
    PROVE  \A v : Carrying(r, v)' = Carrying(r, v)
<1>1. \A c \in VerdictRuns(r) : runs'[c].carries = runs[c].carries
  BY DEF VerdictRuns, Continuations, Persists, SameOrigin
<1> QED
  BY <1>1 DEF Carrying

LEMMA GrowthPromised ==
    ASSUME RunsInv, \A s \in RunIds : Persists(s),
           \/ Grows
           \/ RunIds' = RunIds /\ \A s \in RunIds : runs'[s].decision = runs[s].decision
    PROVE  Counts' = Counts /\ Records' = Records
<1>1. \A r : VerdictRuns(r)' = VerdictRuns(r)
  BY VerdictRunsGrow
<1>2. Counts' = Counts
  BY <1>1, SameCounts DEF Counts
<1>3. \A r : RecordOf(r)' = RecordOf(r)
  BY DEF RecordOf, Grows, Persists, Fresh
<1> QED
  BY <1>2, <1>3 DEF Records

\* What a call shows goes with its stage, run and verdict.
LEMMA SameCall ==
    ASSUME NEW e, \/ decider'[e] = decider[e]
                  \/ /\ Begun(e) /\ Begun(e)'
                     /\ decider'[e].source = decider[e].source
                     /\ decider'[e].verdict = decider[e].verdict
    PROVE  CallOf(e)' = CallOf(e)
BY DEF CallOf, Begun

LEMMA IdleCall ==
    ASSUME NEW e, decider[e].stage = "idle" \/ decider[e].source \notin 1..MaxRuns
    PROVE  CallOf(e) = Promise!Idle
BY DEF CallOf, Promise!Idle

\* One call changes what it shows.
LEMMA CallsExcept ==
    ASSUME NEW d \in Decider, NEW x, CallOf(d)' = x,
           \A e \in Decider : e # d => decider'[e] = decider[e]
    PROVE  Calls' = [Calls EXCEPT ![d] = x]
<1>1. \A e \in Decider : e # d => CallOf(e)' = CallOf(e)
  BY SameCall
<1> QED
  BY <1>1 DEF Calls

\* A call that passes the checks asks, of a run without a decision.
LEMMA AcceptPromised ==
    ASSUME TypeOK, NEW d \in Decider, NEW r \in RunIds, NEW v \in Verdict, Accept(d, r, v)
    PROVE  [Promise!Next]_PromiseVars
<1>1. /\ \A e \in Decider : e # d => decider'[e] = decider[e]
      /\ decider[d].stage = "idle" /\ decider'[d].stage = "checked"
      /\ decider'[d].source = r /\ decider'[d].verdict = v
      /\ runs' = runs /\ runs[r].decision = "none"
  BY AcceptDoes DEF Decidable
<1>2. Counts' = Counts /\ Records' = Records
  BY <1>1 DEF Counts, Records, RecordOf, Carrying, VerdictRuns, Continuations, RunIds
<1>3. CallOf(d) = Promise!Idle
  BY <1>1, IdleCall
<1>4. CASE r \notin 1..MaxRuns
  <2>1. CallOf(d)' = Promise!Idle
    BY <1>1, <1>4 DEF CallOf, Promise!Idle
  <2>2. Calls' = [Calls EXCEPT ![d] = Promise!Idle]
    BY <1>1, <2>1, CallsExcept
  <2>3. Calls' = Calls
    BY <1>3, <2>2 DEF Calls
  <2> QED
    BY <1>2, <2>3 DEF PromiseVars
<1>5. CASE r \in 1..MaxRuns
  <2>1. CallOf(d)' = [run |-> r, verdict |-> v, begun |-> FALSE]
    BY <1>1, <1>5 DEF CallOf
  <2>2. Calls' = [Calls EXCEPT ![d] = [run |-> r, verdict |-> v, begun |-> FALSE]]
    BY <1>1, <2>1, CallsExcept
  <2>3. Calls[d] = Promise!Idle /\ Records[r] = "none"
    BY <1>1, <1>3, <1>5 DEF Calls, Records, RecordOf
  <2>4. Promise!Ask(d, r, v)
    BY <1>2, <2>2, <2>3 DEF Promise!Ask, Calls, Counts, Records, RecordOf
  <2> QED
    BY <1>5, <2>4 DEF Promise!Next
<1> QED
  BY <1>4, <1>5

\* A continuation that begins, or raises, resumes the run once more.
LEMMA BeginPromised ==
    ASSUME TypeOK, RunsInv, CallsInv, NEW d \in Decider, Begin(d) \/ BeginRaises(d)
    PROVE  [Promise!Next]_PromiseVars
<1>1. PICK c, q, v : /\ c = Len(runs) + 1 /\ q = decider[d].source
                     /\ v = decider[d].verdict
  OBVIOUS
<1>2. /\ q \in RunIds /\ v \in Verdict /\ RunIds' = RunIds \union {c} /\ c \notin RunIds
      /\ \A s \in RunIds : runs'[s] = runs[s]
      /\ runs'[c].carries = v /\ runs'[c].decision = "none"
      /\ VerdictRuns(q)' = VerdictRuns(q) \union {c}
      /\ \A r : r # q => VerdictRuns(r)' = VerdictRuns(r)
  BY <1>1, BeginAdds
<1>3. \A s \in RunIds : Persists(s)
  BY <1>2 DEF Persists, SameOrigin
<1>4. Records' = Records
  <2>1. \A r : RecordOf(r)' = RecordOf(r)
    BY <1>2 DEF RecordOf
  <2> QED
    BY <2>1 DEF Records
<1>5. \A r, w : r # q => Carrying(r, w)' = Carrying(r, w)
  BY <1>2, <1>3, SameCounts
<1>6. /\ decider[d].stage = "checked" /\ \A e \in Decider : e # d => decider'[e] = decider[e]
      /\ \/ decider'[d].stage = "idle"
         \/ decider'[d].stage = "continuation" /\ decider'[d].source = q
            /\ decider'[d].verdict = v
  <2>1. decider[d].stage = "checked"
    BY DEF Begin, BeginRaises
  <2> QED
    BY <1>1, <2>1, CallStepDoes, NoCallIsIdle DEF CallStep
<1>7. CASE q \notin 1..MaxRuns
  <2>1. CallOf(d)' = Promise!Idle /\ CallOf(d) = Promise!Idle
    BY <1>1, <1>6, <1>7 DEF CallOf, Promise!Idle
  <2>2. Calls' = [Calls EXCEPT ![d] = Promise!Idle]
    BY <1>6, <2>1, CallsExcept
  <2>3. Calls' = Calls
    BY <2>1, <2>2 DEF Calls
  <2>4. Counts' = Counts
    BY <1>5, <1>7 DEF Counts
  <2> QED
    BY <1>4, <2>3, <2>4 DEF PromiseVars
<1>8. CASE q \in 1..MaxRuns
  <2>1. CallOf(d) = [run |-> q, verdict |-> v, begun |-> FALSE]
    BY <1>1, <1>6, <1>8 DEF CallOf
  <2>2. \/ CallOf(d)' = Promise!Idle
        \/ CallOf(d)' = [run |-> q, verdict |-> v, begun |-> TRUE]
    BY <1>6, <1>8 DEF CallOf, Promise!Idle
  <2>3. /\ Calls[d] = CallOf(d)
        /\ \/ Calls' = [Calls EXCEPT ![d] = Promise!Idle]
           \/ Calls' = [Calls EXCEPT ![d] = [run |-> q, verdict |-> v, begun |-> TRUE]]
    BY <1>6, <2>2, CallsExcept DEF Calls
  <2>4. \/ Calls' = [Calls EXCEPT ![d] = Promise!Idle]
        \/ Calls' = [Calls EXCEPT ![d].begun = TRUE]
    BY <2>1, <2>3
  <2>5. Cardinality(Carrying(q, v))' = Cardinality(Carrying(q, v)) + 1
    <3>1. Carrying(q, v)' = Carrying(q, v) \union {c}
      <4>1. \A b \in VerdictRuns(q) : runs'[b].carries = runs[b].carries
        BY <1>2 DEF VerdictRuns, Continuations
      <4> QED
        BY <1>2, <4>1 DEF Carrying
    <3>2. /\ Carrying(q, v) \in SUBSET VerdictRuns(q) /\ c \notin Carrying(q, v)
          /\ IsFiniteSet(VerdictRuns(q))
      BY <1>2, FiniteRuns DEF Carrying, VerdictRuns, Continuations
    <3>3. IsFiniteSet(Carrying(q, v))
      BY <3>2, FS_Subset
    <3> QED
      BY <3>1, <3>2, <3>3, FS_AddElement
  <2>6. \A w \in Verdict : w # v => Carrying(q, w)' = Carrying(q, w)
    <3>1. \A b \in VerdictRuns(q) : runs'[b].carries = runs[b].carries
      BY <1>2 DEF VerdictRuns, Continuations
    <3> QED
      BY <1>2, <3>1 DEF Carrying
  <2>7. Counts' = [Counts EXCEPT ![q][v] = @ + 1]
    <3>1. PICK f : f = [w \in Verdict |-> Cardinality(Carrying(q, w))]
      OBVIOUS
    <3>2. Counts[q] = f
      BY <1>8, <3>1 DEF Counts
    <3>3. [w \in Verdict |-> Cardinality(Carrying(q, w)')] = [f EXCEPT ![v] = @ + 1]
      BY <1>2, <2>5, <2>6, <3>1
    <3>4. \A r \in 1..MaxRuns : Counts'[r] = IF r = q THEN [f EXCEPT ![v] = @ + 1] ELSE Counts[r]
      BY <1>5, <3>3 DEF Counts
    <3>5. Counts' = [r \in 1..MaxRuns |-> Counts'[r]] /\ Counts = [r \in 1..MaxRuns |-> Counts[r]]
      BY DEF Counts
    <3> QED
      BY <3>2, <3>4, <3>5
  <2>8. Promise!Resume(d)
    <3>1. /\ Calls[d].run = q /\ Calls[d].verdict = v /\ ~Calls[d].begun
          /\ Calls[d] # Promise!Idle
      <4>1. q # 0
        BY <1>8
      <4> QED
        BY <2>1, <2>3, <4>1 DEF Promise!Idle
    <3> QED
      BY <1>4, <2>4, <2>7, <3>1 DEF Promise!Resume, Calls, Counts, Records, RecordOf
  <2> QED
    BY <2>8 DEF Promise!Next
<1> QED
  BY <1>7, <1>8

\* A decision is recorded by the call that resumed the run with it.
LEMMA WriteDecisionPromised ==
    ASSUME TypeOK, RunsInv, CallsInv, NEW d \in Decider, WriteDecision(d)
    PROVE  [Promise!Next]_PromiseVars
<1>1. PICK q \in RunIds : q = decider[d].source
  BY DEF CallsInv, CallInv, WriteDecision
<1>2. PICK v : v = decider[d].verdict
  OBVIOUS
<1>3. /\ RunIds' = RunIds /\ runs'[q].decision = v
      /\ \A s \in RunIds : s # q => runs'[s] = runs[s]
  BY <1>1, <1>2, WriteDecisionDoes
<1>4. /\ \A s \in RunIds : Persists(s) /\ decider[d].stage = "record"
      /\ \A e \in Decider : e # d => decider'[e] = decider[e]
      /\ decider'[d].stage = "idle"
  <2>1. decider' = [decider EXCEPT ![d] = NoCall] /\ decider[d].stage = "record"
    BY DEF WriteDecision
  <2> QED
    BY <2>1, CallStepRuns, NoCallIsIdle DEF CallStep, TypeOK
<1>5. Counts' = Counts
  <2>1. \A s \in RunIds : Persists(s)
    BY <1>4
  <2>2. \A r : VerdictRuns(r)' = VerdictRuns(r)
    BY <1>3, <2>1, VerdictRunsGrow
  <2>3. \A r, w : Carrying(r, w)' = Carrying(r, w)
    BY <2>1, <2>2, SameCounts
  <2> QED
    BY <2>3 DEF Counts
<1>6. CallOf(d)' = Promise!Idle
  BY <1>4 DEF CallOf, Promise!Idle
<1>7. Calls' = [Calls EXCEPT ![d] = Promise!Idle]
  BY <1>4, <1>6, CallsExcept
<1>8. CASE q \notin 1..MaxRuns
  <2>1. CallOf(d) = Promise!Idle
    BY <1>1, <1>8, IdleCall
  <2>2. Calls' = Calls
    BY <1>7, <2>1 DEF Calls
  <2>3. Records' = Records
    BY <1>3, <1>8 DEF Records, RecordOf
  <2> QED
    BY <1>5, <2>2, <2>3 DEF PromiseVars
<1>9. CASE q \in 1..MaxRuns
  <2>1. Calls[d] = [run |-> q, verdict |-> v, begun |-> TRUE]
    BY <1>1, <1>2, <1>4, <1>9 DEF Calls, CallOf
  <2>2. Records' = [Records EXCEPT ![q] = v]
    <3>1. \A r \in 1..MaxRuns : RecordOf(r)' = IF r = q THEN v ELSE RecordOf(r)
      BY <1>3, <1>9 DEF RecordOf
    <3> QED
      BY <3>1 DEF Records
  <2>3. Calls[d].begun /\ Calls[d].run = q /\ Calls[d].verdict = v
    BY <2>1
  <2>4. Records' = [Records EXCEPT ![Calls[d].run] = Calls[d].verdict]
    BY <2>2, <2>3
  <2>5. Promise!Record(d)
    BY <1>5, <1>7, <2>3, <2>4 DEF Promise!Record, Calls, Counts, Records, RecordOf
  <2> QED
    BY <2>5 DEF Promise!Next
<1> QED
  BY <1>8, <1>9

\* Calls that end without a record are cut off.
LEMMA CutOffPromised ==
    ASSUME RunsInv, NEW D \in SUBSET Decider,
           \A d \in Decider \ D : decider'[d] = decider[d],
           \A d \in D : decider'[d].stage = "idle",
           Counts' = Counts, Records' = Records
    PROVE  Promise!Next
<1>1. \A d \in D : CallOf(d)' = Promise!Idle
  BY DEF CallOf, Promise!Idle
<1>2. \A d \in Decider \ D : CallOf(d)' = CallOf(d)
  BY SameCall
<1>3. Calls' = [d \in Decider |-> IF d \in D THEN Promise!Idle ELSE Calls[d]]
  BY <1>1, <1>2 DEF Calls
<1>4. Promise!CutOff(D)
  BY <1>3 DEF Promise!CutOff, Calls, Counts, Records, RecordOf
<1> QED
  BY <1>4 DEF Promise!Next

LEMMA NextPromised ==
    ASSUME FlowInv, [Next]_vars
    PROVE  [Promise!Next]_PromiseVars
<1>1. TypeOK /\ RunsInv /\ CallsInv
  BY DEF FlowInv
<1>2. \A s \in RunIds : Persists(s)
  BY NextPersists
<1>3. CASE UNCHANGED vars
  <2>1. Counts' = Counts /\ Records' = Records
    BY <1>1, <1>2, <1>3, GrowthPromised DEF vars, RunIds
  <2>2. Calls' = Calls
    BY <1>3, SameCall DEF vars, Calls
  <2> QED
    BY <2>1, <2>2 DEF PromiseVars
<1>4. ASSUME NEW r \in RunIds, RunStep(r) PROVE [Promise!Next]_PromiseVars
  <2>1. Counts' = Counts /\ Records' = Records
    BY <1>1, <1>2, <1>4, RunStepGrows, GrowthPromised
  <2>2. decider' = decider
    BY <1>1, <1>4, RunStepKinds
  <2>3. Calls' = Calls
    BY <2>2, SameCall DEF Calls
  <2> QED
    BY <2>1, <2>3 DEF PromiseVars
<1>5. ASSUME NEW d \in Decider, CallStep(d) PROVE [Promise!Next]_PromiseVars
  <2>1. CASE Begin(d) \/ BeginRaises(d)
    BY <1>1, <2>1, BeginPromised
  <2>2. CASE WriteDecision(d)
    BY <1>1, <2>2, WriteDecisionPromised
  <2>3. CASE ~(Begin(d) \/ BeginRaises(d)) /\ ~WriteDecision(d)
    <3>1. Counts' = Counts /\ Records' = Records
      BY <1>1, <1>2, <1>5, <2>3, CallStepRuns, GrowthPromised
    <3>2. CASE ParentRaises(d)
      <4>1. /\ \A e \in Decider : e # d => decider'[e] = decider[e]
            /\ decider'[d].stage = "idle"
        <5>1. decider' = [decider EXCEPT ![d] = NoCall]
          BY <3>2 DEF ParentRaises
        <5> QED
          BY <1>1, <5>1, NoCallIsIdle DEF TypeOK
      <4>2. PICK D \in SUBSET Decider : D = {d}
        OBVIOUS
      <4> QED
        BY <1>1, <3>1, <4>1, <4>2, CutOffPromised
    <3>3. CASE ~ParentRaises(d)
      <4>1. /\ \A e \in Decider : e # d => decider'[e] = decider[e]
            /\ Begun(d) /\ Begun(d)'
            /\ decider'[d].source = decider[d].source
            /\ decider'[d].verdict = decider[d].verdict
        BY <1>1, <1>5, <2>3, <3>3, CallStepDoes DEF Begun
      <4>2. Calls' = Calls
        BY <4>1, SameCall DEF Calls
      <4> QED
        BY <3>1, <4>2 DEF PromiseVars
    <3> QED
      BY <3>2, <3>3
  <2> QED
    BY <2>1, <2>2, <2>3
<1>6. ASSUME NEW d \in Decider, NEW r \in RunIds, NEW v \in Verdict, Accept(d, r, v)
      PROVE  [Promise!Next]_PromiseVars
  BY <1>1, <1>6, AcceptPromised
<1>7. CASE Crash
  <2>1. /\ RunIds' = RunIds /\ \A s \in RunIds : SameFiles(s)
        /\ \A d \in Decider : decider'[d].stage = "idle"
    BY <1>1, <1>7, CrashDoes, NoCallIsIdle
  <2>2. Counts' = Counts /\ Records' = Records
    BY <1>1, <1>2, <2>1, GrowthPromised DEF SameFiles
  <2>3. PICK D \in SUBSET Decider : D = Decider
    OBVIOUS
  <2> QED
    BY <1>1, <2>1, <2>2, <2>3, CutOffPromised
<1> QED
  BY <1>3, <1>4, <1>5, <1>6, <1>7 DEF Next, Progress

LEMMA InitPromised == Init => Promise!Init
<1> SUFFICES ASSUME Init PROVE Promise!Init
  OBVIOUS
<1>1. PICK roots : runs = [s \in DOMAIN roots |->
                    [NewRun(Entry[roots[s]], NoDecisions, None) EXCEPT !.first = s]]
  BY DEF Init
<1>2. ASSUME NEW r \in RunIds PROVE runs[r].carries = "none" /\ runs[r].decision = "none"
  <2>1. runs[r] = [NewRun(Entry[roots[r]], NoDecisions, None) EXCEPT !.first = r]
    BY <1>1 DEF RunIds
  <2> QED
    BY <2>1 DEF NewRun
<1>3. \A r, v : Carrying(r, v) = {}
  BY <1>2 DEF Carrying, VerdictRuns, Continuations
<1>4. Counts = [r \in 1..MaxRuns |-> [v \in Verdict |-> 0]]
  BY <1>3, FS_EmptySet DEF Counts
<1>5. Records = [r \in 1..MaxRuns |-> "none"]
  BY <1>2 DEF Records, RecordOf
<1>6. Calls = [d \in Decider |-> Promise!Idle]
  <2>1. \A d \in Decider : decider[d].stage = "idle"
    BY NoCallIsIdle DEF Init
  <2> QED
    BY <2>1, IdleCall DEF Calls
<1> QED
  BY <1>4, <1>5, <1>6 DEF Promise!Init, Calls, Counts, Records, RecordOf

\* The flow, with any number of reviewers and crashes and with exceptions that end a call,
\* keeps the promise: a call asks of an undecided run, resumes it at most once, and records
\* its verdict only after that.
THEOREM KeepsPromise == Spec => ImplementsPromise
<1>1. FlowInv /\ [Next]_vars => [Promise!Next]_PromiseVars
  BY NextPromised
<1> QED
  BY <1>1, InitPromised, FlowInvariant, PTL
  DEF Spec, ImplementsPromise, Promise!Spec, PromiseVars, Calls, Counts, Records, RecordOf

=============================================================================
