---------------------------- MODULE EvalHarness ----------------------------
(***************************************************************************)
(* Evaluations of a workflow on its fixtures (backend/evals) and the       *)
(* optimization that evaluates proposed specs one after the other under a  *)
(* cost cap (backend/graphspec/optimization.py). The command-line eval, the *)
(* optimization in the server and the editing of spec and fixtures share   *)
(* the files of the workflow; the baseline is written in place.            *)
(***************************************************************************)
EXTENDS Integers, Sequences, FiniteSets, FiniteSetsExt

CONSTANTS
    Fixtures,    \* fixtures of the workflow: 1..Fixtures
    PerFixture,  \* n_per_fixture
    Decision,    \* Decision[f]: approval_decision of fixture f, or "none"
    Candidates,  \* candidate_count
    Cap,         \* max_cost_usd
    Costs,       \* what a run may cost
    Gallery,     \* gallery ids of a dataset row; Pid and Cam are its columns
    Pid, Cam,
    QueryPid, QueryCam,
    MaxEdits,    \* bound: edits of one file
    MaxEvals,    \* bound: command-line evals
    MaxRanked,   \* bound: ids in a ranking
    NoBaseline, Torn

ASSUME EvalAssumption ==
    /\ Fixtures \in Nat /\ PerFixture \in Nat \ {0}
    /\ Decision \in [1..Fixtures -> {"approved", "rejected", "none"}]
    /\ Candidates \in 2..5
    /\ Cap \in Nat \ {0} /\ Costs \subseteq Nat
    /\ \E c \in Costs : \A d \in Costs : d <= c
    /\ IsFiniteSet(Gallery)
    /\ Pid \in [Gallery -> Int] /\ Cam \in [Gallery -> Int]
    /\ QueryPid \in Int /\ QueryCam \in Int
    /\ MaxEdits \in Nat /\ MaxEvals \in Nat /\ MaxRanked \in Nat

VARIABLES
    version,   \* version[f]: how often the spec or the fixtures file was edited
    newer,     \* the files modified after the baseline file was
    baseline,  \* content of baseline.json; Torn while it is being written
    cli,       \* the command-line eval (run_eval)
    opt,       \* where the optimization is
    cands,     \* its candidates so far
    total,     \* its total_eval_cost
    dataset,   \* the dataset eval
    moved      \* history: the baseline changed since the optimization started

optVars == <<opt, cands, total, moved>>
vars == <<version, newer, baseline, cli, optVars, dataset>>

Files == {"spec", "fixtures"}
Items == 1..(Fixtures * PerFixture)
FixtureOf(i) == ((i - 1) \div PerFixture) + 1
Decided(i) == Decision[FixtureOf(i)] # "none"

\* What summarize keeps of a list of results.
Sum == [runs : Nat, passes : Nat, cost : Nat]
Zero == [runs |-> 0, passes |-> 0, cost |-> 0]
Add(s, pass, cost) ==
    [runs |-> s.runs + 1, passes |-> s.passes + (IF pass THEN 1 ELSE 0), cost |-> s.cost + cost]

\* edited and whole are history: an edit during the eval, every item was measured.
Baseline == [sum : Sum, specs : SUBSET Nat, fixtures : Nat, edited : BOOLEAN, whole : BOOLEAN]
\* What is no baseline is no record.
ASSUME BaselineAssumption == NoBaseline \notin Baseline /\ Torn \notin Baseline

Cli == [at : {"idle", "batch", "write", "done", "killed"}, update : BOOLEAN,
        cancelled : BOOLEAN, left : SUBSET Items, pending : SUBSET Items, sum : Sum,
        cut : Nat, meta : Nat, specs : SUBSET Nat, fixtures : Nat, edited : BOOLEAN,
        status : {"none", "ok", "cancelled"}, evals : Nat]
EvalStates == {"none", "running", "ok", "stopped_cost_cap", "skipped_cost_cap"}
Candidate == [valid : BOOLEAN, eval : EvalStates, sum : Sum, regression : BOOLEAN]
OptStates == {"idle", "generate", "admit", "evaluate", "judge", "rank", "done", "failed"}
Dataset == [at : {"idle", "batch", "score", "done"}, left : SUBSET Items, cut : SUBSET Items,
            unscored : SUBSET Items, cancelled : BOOLEAN, status : {"none", "ok", "cancelled"},
            ranked : Seq(Gallery), passes : Nat]

TypeOK ==
    /\ version \in [Files -> Nat]
    /\ newer \subseteq Files
    /\ baseline \in Baseline \union {NoBaseline, Torn}
    /\ cli \in Cli
    /\ opt \in OptStates
    /\ cands \in Seq(Candidate)
    /\ total \in Nat
    /\ dataset \in Dataset
    /\ moved \in BOOLEAN

Init ==
    /\ version = [f \in Files |-> 0]
    /\ newer = {}
    /\ baseline = NoBaseline
    /\ cli = [at |-> "idle", update |-> FALSE, cancelled |-> FALSE, left |-> {}, pending |-> {},
              sum |-> Zero, cut |-> 0, meta |-> 0, specs |-> {}, fixtures |-> 0,
              edited |-> FALSE, status |-> "none", evals |-> 0]
    /\ opt = "idle" /\ cands = <<>> /\ total = 0
    /\ dataset = [at |-> "idle", left |-> {}, cut |-> {}, unscored |-> {}, cancelled |-> FALSE,
                  status |-> "none", ranked |-> <<>>, passes |-> 0]
    /\ moved = FALSE

\* An apply of a proposal or an editor changes the spec or the fixtures.
Edit(f) ==
    /\ version[f] < MaxEdits
    /\ version' = [version EXCEPT ![f] = @ + 1]
    /\ newer' = newer \union {f}
    /\ cli' = [cli EXCEPT !.edited = (@ \/ cli.at \in {"batch", "write"})]
    /\ UNCHANGED <<baseline, optVars, dataset>>

-----------------------------------------------------------------------------
(* The comparison with a baseline, cross-multiplied: the pass rate fell by  *)
(* more than 2 points or the mean cost rose by more than 15 %.             *)

Regresses(now, base) ==
    LET n == IF now.runs = 0 THEN 1 ELSE now.runs
        b == IF base.runs = 0 THEN 1 ELSE base.runs
    IN  \/ 100 * (base.passes * n - now.passes * b) > 2 * n * b
        \/ 100 * (now.cost * b - base.cost * n) > 15 * base.cost * n

\* A file that cannot be read as JSON is no baseline.
RegressionAgainst(now) == baseline \in Baseline /\ Regresses(now, baseline.sum)

\* Seeded defect: only the spec is looked at.
SpecQuality ==
    IF baseline = NoBaseline THEN "missing"
    ELSE IF baseline = Torn THEN "invalid"
    ELSE IF "spec" \in newer THEN "stale" ELSE "fresh"

\* _workflow_eval_quality: what the workflow list says of the baseline.
Quality ==
    IF baseline = NoBaseline THEN "missing"
    ELSE IF baseline = Torn THEN "invalid"
    ELSE IF newer # {} THEN "stale" ELSE "fresh"

-----------------------------------------------------------------------------
(* run_eval: a batch of all items, which end in any order, then the results *)
(* in the order of the items, with the decisions their fixtures give.      *)

StartEval(update) ==
    /\ cli.at \in {"idle", "done", "killed"}
    /\ cli.evals < MaxEvals
    /\ dataset.at = "idle"
    /\ cli' = [at |-> "batch", update |-> update, cancelled |-> FALSE, left |-> Items,
               pending |-> {}, sum |-> Zero, cut |-> 0, meta |-> version["spec"],
               specs |-> {}, fixtures |-> version["fixtures"], edited |-> FALSE,
               status |-> "none", evals |-> cli.evals + 1]
    /\ UNCHANGED <<version, newer, baseline, optVars, dataset>>

\* An item runs the spec its own worker loads.
ItemEnds(i) ==
    /\ cli.at = "batch" /\ i \in cli.left
    /\ \E pass \in BOOLEAN, cost \in Costs :
          cli' = [cli EXCEPT !.left = @ \ {i}, !.sum = Add(@, pass, cost),
                             !.specs = @ \union {version["spec"]}]
    /\ UNCHANGED <<version, newer, baseline, optVars, dataset>>

ItemPauses(i) ==
    /\ cli.at = "batch" /\ i \in cli.left
    /\ cli' = [cli EXCEPT !.left = @ \ {i}, !.pending = @ \union {i},
                          !.specs = @ \union {version["spec"]}]
    /\ UNCHANGED <<version, newer, baseline, optVars, dataset>>

ItemCancelled(i) ==
    /\ cli.at = "batch" /\ i \in cli.left
    /\ cli.cancelled
    /\ \E pass \in BOOLEAN, cost \in Costs \union {0} :
          cli' = [cli EXCEPT !.left = @ \ {i}, !.cut = @ + 1, !.sum = Add(@, pass, cost)]
    /\ UNCHANGED <<version, newer, baseline, optVars, dataset>>

CancelEval ==
    /\ cli.at = "batch" /\ ~cli.cancelled
    /\ cli' = [cli EXCEPT !.cancelled = TRUE]
    /\ UNCHANGED <<version, newer, baseline, optVars, dataset>>

\* _build_eval_result of a paused run. The continuation runs the spec the eval
\* loaded, a nested one those of the files.
Decide(i) ==
    /\ cli.at = "batch" /\ cli.left = {}
    /\ i \in cli.pending /\ \A j \in cli.pending : i <= j
    /\ \E pass \in BOOLEAN, cost \in Costs, run \in SUBSET {cli.meta, version["spec"]} :
          /\ pass => Decided(i)
          /\ run # {} <=> Decided(i)
          /\ cli' = [cli EXCEPT !.pending = @ \ {i}, !.sum = Add(@, pass, cost),
                                !.specs = @ \union run]
    /\ UNCHANGED <<version, newer, baseline, optVars, dataset>>

EvalStatus == IF cli.cancelled THEN "cancelled" ELSE "ok"

Report ==
    /\ cli.at = "batch" /\ cli.left = {} /\ cli.pending = {}
    /\ ~(cli.update /\ EvalStatus # "cancelled")
    /\ cli' = [cli EXCEPT !.at = "done", !.status = EvalStatus]
    /\ UNCHANGED <<version, newer, baseline, optVars, dataset>>

\* Seeded defect: a cancelled eval also updates the baseline.
OpenAlways ==
    /\ cli.at = "batch" /\ cli.left = {} /\ cli.pending = {}
    /\ cli.update
    /\ cli' = [cli EXCEPT !.at = "write", !.status = EvalStatus]
    /\ baseline' = Torn /\ newer' = {}
    /\ moved' = (moved \/ opt # "idle")
    /\ UNCHANGED <<version, opt, cands, total, dataset>>

\* open("w") truncates the baseline, json.dump fills it.
OpenBaseline ==
    /\ cli.at = "batch" /\ cli.left = {} /\ cli.pending = {}
    /\ cli.update /\ EvalStatus # "cancelled"
    /\ cli' = [cli EXCEPT !.at = "write", !.status = EvalStatus]
    /\ baseline' = Torn /\ newer' = {}
    /\ moved' = (moved \/ opt # "idle")
    /\ UNCHANGED <<version, opt, cands, total, dataset>>

WriteBaseline ==
    /\ cli.at = "write"
    /\ baseline' = [sum |-> cli.sum, specs |-> cli.specs, fixtures |-> cli.fixtures,
                    edited |-> cli.edited,
                    whole |-> cli.cut = 0 /\ cli.sum.runs = Cardinality(Items)]
    /\ newer' = {}
    /\ cli' = [cli EXCEPT !.at = "done"]
    /\ moved' = (moved \/ opt # "idle")
    /\ UNCHANGED <<version, opt, cands, total, dataset>>

Kill ==
    /\ cli.at \in {"batch", "write"}
    /\ cli' = [cli EXCEPT !.at = "killed"]
    /\ UNCHANGED <<version, newer, baseline, optVars, dataset>>

-----------------------------------------------------------------------------
(* optimize_proposals: a request of the server, whose evals of the         *)
(* candidates (run_eval_for_metadata) run one graph at a time.             *)

Untried(valid) == [valid |-> valid, eval |-> "none", sum |-> Zero, regression |-> FALSE]
Current == cands[Len(cands)]
ReplaceCurrent(c) == cands' = [cands EXCEPT ![Len(cands)] = c]
AfterCandidate == IF Len(cands') < Candidates THEN "generate" ELSE "rank"

StartOptimization ==
    /\ opt = "idle" /\ dataset.at = "idle"
    /\ opt' = "generate"
    /\ UNCHANGED <<version, newer, baseline, cli, cands, total, moved, dataset>>

Generate ==
    /\ opt = "generate"
    /\ \E valid \in BOOLEAN :
          /\ cands' = Append(cands, Untried(valid))
          /\ opt' = IF valid THEN "admit" ELSE AfterCandidate
    /\ UNCHANGED <<version, newer, baseline, cli, total, moved, dataset>>

\* Seeded defect: every candidate gets the whole cap.
WholeCap == Cap

Remaining == Cap - total

Admit ==
    /\ opt = "admit"
    /\ IF Remaining <= 0
       THEN /\ ReplaceCurrent([Current EXCEPT !.eval = "skipped_cost_cap"])
            /\ opt' = AfterCandidate
       ELSE /\ ReplaceCurrent([Current EXCEPT !.eval = "running"])
            /\ opt' = IF Items = {} THEN "judge" ELSE "evaluate"
    /\ UNCHANGED <<version, newer, baseline, cli, total, moved, dataset>>

\* One graph and, if it pauses on an item with a decision, its continuation, whose
\* cost is the one that counts; without a decision it fails.
EvaluateItem ==
    /\ opt = "evaluate"
    /\ \E pass \in BOOLEAN, cost \in Costs :
          LET sum == Add(Current.sum, pass, cost)
              stop == sum.cost >= Remaining
          IN  /\ ReplaceCurrent([Current EXCEPT !.sum = sum,
                                    !.eval = IF stop THEN "stopped_cost_cap" ELSE @])
              /\ opt' = IF stop \/ sum.runs = Cardinality(Items) THEN "judge" ELSE "evaluate"
    /\ UNCHANGED <<version, newer, baseline, cli, total, moved, dataset>>

Judge ==
    /\ opt = "judge"
    /\ ReplaceCurrent([Current EXCEPT !.regression = RegressionAgainst(Current.sum),
                                     !.eval = IF @ = "running" THEN "ok" ELSE @])
    /\ total' = total + Current.sum.cost
    /\ opt' = AfterCandidate
    /\ UNCHANGED <<version, newer, baseline, cli, moved, dataset>>

Rank ==
    /\ opt = "rank"
    /\ opt' = "done"
    /\ UNCHANGED <<version, newer, baseline, cli, cands, total, moved, dataset>>

\* An exception of the provider, the compilation or a decision: no report.
Fail ==
    /\ opt \in {"generate", "admit", "evaluate"}
    /\ opt' = "failed"
    /\ UNCHANGED <<version, newer, baseline, cli, cands, total, moved, dataset>>

Rankable == {k \in DOMAIN cands : cands[k].valid /\ cands[k].sum.runs > 0}

\* Seeded defect: the pass rate is not the second thing looked at.
CheapestFirst(j, k) ==
    LET a == cands[j]  b == cands[k]
        cost == a.sum.cost * b.sum.runs - b.sum.cost * a.sum.runs
    IN  \/ ~a.regression /\ b.regression
        \/ a.regression = b.regression /\ (cost < 0 \/ (cost = 0 /\ j < k))

\* _rank_key: (regression, -pass rate, mean cost, candidate id).
Before(j, k) ==
    LET a == cands[j]  b == cands[k]
        passes == a.sum.passes * b.sum.runs - b.sum.passes * a.sum.runs
        cost == a.sum.cost * b.sum.runs - b.sum.cost * a.sum.runs
    IN  \/ ~a.regression /\ b.regression
        \/ /\ a.regression = b.regression
           /\ \/ passes > 0
              \/ passes = 0 /\ (cost < 0 \/ (cost = 0 /\ j < k))

Recommended == {k \in Rankable : \A j \in Rankable \ {k} : Before(k, j)}

ReportStatus ==
    IF total >= Cap \/ \E k \in DOMAIN cands :
                          cands[k].eval \in {"stopped_cost_cap", "skipped_cost_cap"}
    THEN "stopped_cost_cap"
    ELSE IF Recommended = {} THEN "no_recommendation" ELSE "ok"

-----------------------------------------------------------------------------
(* run_dataset_eval: a batch over the rows of a dataset, then the scorer    *)
(* map_cmc on each row's ranking. It shares nothing with the other evals,   *)
(* so none of them runs beside it.                                         *)

StartDataset ==
    /\ dataset.at = "idle" /\ opt = "idle" /\ cli.at = "idle"
    /\ dataset' = [dataset EXCEPT !.at = "batch", !.left = Items, !.unscored = Items]
    /\ UNCHANGED <<version, newer, baseline, cli, optVars>>

RowEnds(i) ==
    /\ dataset.at = "batch" /\ i \in dataset.left
    /\ \E cut \in {{}} \union {c \in {{i}} : dataset.cancelled} :
          dataset' = [dataset EXCEPT !.left = @ \ {i}, !.cut = @ \union cut]
    /\ UNCHANGED <<version, newer, baseline, cli, optVars>>

CancelDataset ==
    /\ dataset.at \in {"batch", "score"} /\ ~dataset.cancelled
    /\ dataset' = [dataset EXCEPT !.cancelled = TRUE]
    /\ UNCHANGED <<version, newer, baseline, cli, optVars>>

BatchDone ==
    /\ dataset.at = "batch" /\ dataset.left = {}
    /\ dataset' = [dataset EXCEPT !.at = "score",
                      !.status = IF dataset.cancelled THEN "cancelled" ELSE "ok"]
    /\ UNCHANGED <<version, newer, baseline, cli, optVars>>

\* Items of the query's own camera and of the background are passed over.
Junk(g) == (Pid[g] = QueryPid /\ Cam[g] = QueryCam) \/ Pid[g] \in {-1, 0}

\* The places of a ranking that count, and the rank of place n among them.
Filtered(ranked) == {n \in DOMAIN ranked : ~Junk(ranked[n])}
FilteredRank(ranked, n) == Cardinality(Filtered(ranked) \intersect (1..n))

\* Seeded defect: the query's own camera is counted as well.
AnyCamera == {g \in Gallery : Pid[g] = QueryPid}

Relevant == {g \in Gallery : Pid[g] = QueryPid /\ Cam[g] # QueryCam}

Hits(ranked) == {n \in Filtered(ranked) : Pid[ranked[n]] = QueryPid}
Cmc(ranked, k) ==
    IF Relevant # {} /\ \E n \in Hits(ranked) : FilteredRank(ranked, n) <= k THEN 1 ELSE 0

\* The precision at a hit and their sum, in units of 1 / Scale: a multiple of every
\* rank up to 4, beyond which a precision below 1 is rounded down.
Scale == 12
Precision(ranked, n) ==
    (Scale * Cardinality(Hits(ranked) \intersect (1..n))) \div FilteredRank(ranked, n)
ApSum(ranked) ==
    IF Relevant = {} THEN 0
    ELSE MapThenSumSet(LAMBDA n : Precision(ranked, n), Hits(ranked))

ScoreRow(i) ==
    /\ dataset.at = "score"
    /\ i \in dataset.unscored /\ \A j \in dataset.unscored : i <= j
    /\ \E n \in 0..MaxRanked : \E ranked \in [1..n -> Gallery] :
          dataset' = [dataset EXCEPT !.unscored = @ \ {i}, !.ranked = ranked,
                         !.passes = @ + Cmc(ranked, 1),
                         !.status = IF i \in dataset.cut THEN "cancelled" ELSE @]
    /\ UNCHANGED <<version, newer, baseline, cli, optVars>>

WriteDataset ==
    /\ dataset.at = "score" /\ dataset.unscored = {}
    /\ dataset' = [dataset EXCEPT !.at = "done"]
    /\ UNCHANGED <<version, newer, baseline, cli, optVars>>

-----------------------------------------------------------------------------
CliStep ==
    \/ \E update \in BOOLEAN : StartEval(update)
    \/ \E i \in Items : ItemEnds(i) \/ ItemPauses(i) \/ ItemCancelled(i) \/ Decide(i)
    \/ CancelEval \/ Report \/ OpenBaseline \/ WriteBaseline \/ Kill

OptStep ==
    StartOptimization \/ Generate \/ Admit \/ EvaluateItem \/ Judge \/ Rank \/ Fail

DatasetStep ==
    StartDataset \/ CancelDataset \/ BatchDone \/ WriteDataset
        \/ \E i \in Items : RowEnds(i) \/ ScoreRow(i)

Next == (\E f \in Files : Edit(f)) \/ CliStep \/ OptStep \/ DatasetStep

Spec == Init /\ [][Next]_vars

-----------------------------------------------------------------------------
MaxCost == CHOOSE c \in Costs : \A d \in Costs : d <= c

\* The cap is shared: however many candidates are evaluated, the cost counted for
\* all their runs together passes it by less than one run.
CapHolds ==
    total + (IF opt \in {"evaluate", "judge"} THEN Current.sum.cost ELSE 0) < Cap + MaxCost

\* An optimization that reports "ok" has measured every valid candidate on every
\* item, and no candidate does better than the recommended one: none passes more,
\* or as much for less, unless it regresses and the recommended one does not. The
\* baseline they were judged by was the same unless an eval rewrote it meanwhile.
RecommendationStands ==
    opt = "done" /\ ReportStatus = "ok" =>
        LET regresses(k) == baseline \in Baseline /\ Regresses(cands[k].sum, baseline.sum)
            asGood(a, b) == a.passes > b.passes \/ (a.passes = b.passes /\ a.cost <= b.cost)
        IN  \A k \in {k \in DOMAIN cands : cands[k].valid} :
               /\ cands[k].sum.runs = Cardinality(Items)
               /\ ~moved => \E r \in Recommended :
                     \/ regresses(k) /\ ~regresses(r)
                     \/ /\ regresses(k) = regresses(r)
                        /\ asGood(cands[r].sum, cands[k].sum)

\* Only whole evals are evidence: what an eval reports as "ok", and what it makes
\* the baseline, has a result of its own run for every item, whenever it was
\* cancelled.
EvidenceIsWhole ==
    /\ baseline \in Baseline => baseline.whole
    /\ cli.status = "ok" => cli.cut = 0
    /\ dataset.at = "done" /\ dataset.status = "ok" => dataset.cut = {}

\* A baseline shown as fresh measured the spec and the fixtures of today, unless
\* one of them was edited while it was measured.
FreshMeansMeasured ==
    Quality = "fresh" /\ ~baseline.edited =>
        /\ baseline.specs \subseteq {version["spec"]}
        /\ baseline.fixtures = version["fixtures"]

\* A ranking without repetitions has an average precision of at most 1, and of 1
\* exactly when the relevant items lead it; it is a hit within k from the first
\* relevant one on.
MetricsAreSound ==
    LET r == dataset.ranked
        sought == {g \in Gallery : Pid[g] = QueryPid /\ Cam[g] # QueryCam}
        full == Scale * Cardinality(Relevant)
        first(k) == {r[n] : n \in {n \in Filtered(r) : FilteredRank(r, n) <= k}}
    IN  r # <<>> /\ (\A m, n \in DOMAIN r : r[m] = r[n] => m = n) =>
            /\ ApSum(r) <= full
            /\ ApSum(r) = full <=> sought \subseteq first(Cardinality(sought))
            /\ \A k \in 1..MaxRanked :
                  Cmc(r, k) = 1 <=> first(k) \intersect sought # {}

=============================================================================
