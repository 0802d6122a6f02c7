--------------------------- MODULE AccountingProofs ---------------------------
(***************************************************************************)
(* Proofs about ModelCall and EvalHarness: what nodes charge and record,    *)
(* and what evaluations and optimizations make of it. For any number of     *)
(* executions, files and retries, any number of fixtures and candidates,    *)
(* any cap, any costs and any ranking.                                     *)
(***************************************************************************)
EXTENDS EvalHarness, ModelCall, FiniteSetTheorems, TLAPS

-----------------------------------------------------------------------------
(* Sums over finite sets. The fold of the library takes the elements one    *)
(* after the other in the order of a CHOOSE; the sum does not depend on it. *)

\* A set of subsets that has every subset whose smaller ones it has, has them all.
LEMMA SubsetsByInduction ==
    ASSUME NEW S, IsFiniteSet(S), NEW T \in SUBSET (SUBSET S),
           \A s \in SUBSET S : (\A t \in SUBSET s : t # s => t \in T) => s \in T
    PROVE  T = SUBSET S
<1> DEFINE bad == (SUBSET S) \ T
<1>1. CASE bad = {}
  BY <1>1
<1>2. CASE bad # {}
  <2>1. IsWellFoundedOn(StrictSubsetOrdering(S), SUBSET S)
    BY FS_StrictSubsetOrderingWellFounded, FS_FiniteSubsetsOfFinite
  <2>2. bad \subseteq SUBSET S
    OBVIOUS
  <2> HIDE DEF bad
  <2>3. PICK s \in bad : \A t \in bad : ~ (<<t, s>> \in StrictSubsetOrdering(S))
    BY <1>2, <2>1, <2>2, WFMin
  <2>4. ASSUME NEW t \in SUBSET s, t # s
        PROVE  t \in T
    <3>1. t \in SUBSET S /\ s \in SUBSET S
      BY <2>2
    <3>2. <<t, s>> \in StrictSubsetOrdering(S)
      BY <2>4, <3>1 DEF StrictSubsetOrdering
    <3> QED
      BY <2>3, <3>1, <3>2 DEF bad
  <2> QED
    BY <2>3, <2>4 DEF bad
<1> QED
  BY <1>1, <1>2

Pick(s) == CHOOSE x \in s : TRUE

\* g holds the sum of u over every subset of S, as the fold computes it.
SumsOver(u, S, g) ==
    g = [s \in SUBSET S |-> IF s = {} THEN 0 ELSE u[Pick(s)] + g[s \ {Pick(s)}]]

LEMMA PickIn == \A s : s # {} => Pick(s) \in s
BY DEF Pick

LEMMA SumsAt ==
    ASSUME NEW u, NEW S, NEW g, SumsOver(u, S, g)
    PROVE  /\ g[{}] = 0
           /\ \A s \in SUBSET S : s # {} => g[s] = u[Pick(s)] + g[s \ {Pick(s)}]
<1> DEFINE h == [s \in SUBSET S |-> IF s = {} THEN 0 ELSE u[Pick(s)] + g[s \ {Pick(s)}]]
<1>1. g = h
  BY DEF SumsOver
<1>2. h[{}] = 0 /\ \A s \in SUBSET S : s # {} => h[s] = u[Pick(s)] + g[s \ {Pick(s)}]
  OBVIOUS
<1> HIDE DEF h
<1> QED
  BY <1>1, <1>2

\* Two such functions agree where both are defined.
LEMMA SumsAgree ==
    ASSUME NEW u, NEW S, IsFiniteSet(S), NEW g, NEW R, NEW h,
           SumsOver(u, S, g), SumsOver(u, R, h), S \subseteq R
    PROVE  \A s \in SUBSET S : g[s] = h[s]
<1> DEFINE T == {s \in SUBSET S : g[s] = h[s]}
<1>1. ASSUME NEW s \in SUBSET S, \A t \in SUBSET s : t # s => t \in T
      PROVE  s \in T
  <2>1. CASE s = {}
    BY <2>1, SumsAt
  <2>2. CASE s # {}
    <3>1. Pick(s) \in s
      BY <2>2, PickIn
    <3>2. g[s \ {Pick(s)}] = h[s \ {Pick(s)}]
      BY <1>1, <3>1
    <3>3. g[s] = u[Pick(s)] + g[s \ {Pick(s)}]
      BY <2>2, SumsAt
    <3>4. s \in SUBSET R
      OBVIOUS
    <3>5. h[s] = u[Pick(s)] + h[s \ {Pick(s)}]
      BY <2>2, <3>4, SumsAt
    <3> QED
      BY <3>2, <3>3, <3>5
  <2> QED
    BY <2>1, <2>2
<1>2. T \in SUBSET (SUBSET S)
  OBVIOUS
<1> HIDE DEF T
<1>3. T = SUBSET S
  BY <1>1, <1>2, SubsetsByInduction
<1> QED
  BY <1>3 DEF T

\* Over every finite set there is one.
LEMMA SumsExist ==
    ASSUME NEW u, NEW S, IsFiniteSet(S)
    PROVE  \E g : SumsOver(u, S, g)
<1> DEFINE T == {s \in SUBSET S : \E g : SumsOver(u, s, g)}
<1>1. ASSUME NEW s \in SUBSET S, \A t \in SUBSET s : t # s => t \in T
      PROVE  s \in T
  <2> DEFINE Rest(t) == t \ {Pick(t)}
             Below(t) == CHOOSE g : SumsOver(u, Rest(t), g)
             G == [t \in SUBSET s |-> IF t = {} THEN 0 ELSE u[Pick(t)] + Below(t)[Rest(t)]]
  <2>1. ASSUME NEW t \in SUBSET s, t # {}
        PROVE  /\ Rest(t) \in SUBSET s /\ Rest(t) # s /\ Rest(t) \subseteq t
               /\ IsFiniteSet(Rest(t))
               /\ SumsOver(u, Rest(t), Below(t))
    <3>1. Pick(t) \in t
      BY <2>1, PickIn
    <3>2. Rest(t) \in SUBSET s /\ Rest(t) # s /\ Rest(t) \subseteq t
      BY <3>1
    <3>3. IsFiniteSet(Rest(t))
      BY <3>2, FS_Subset
    <3>4. \E g : SumsOver(u, Rest(t), g)
      BY <1>1, <3>2
    <3> QED
      BY <3>2, <3>3, <3>4, Zenon
  <2>2. ASSUME NEW t \in SUBSET s, t # {}
        PROVE  G[Rest(t)] = Below(t)[Rest(t)]
    <3> DEFINE r == Rest(t)
    <3>1. r \in SUBSET s /\ IsFiniteSet(r) /\ SumsOver(u, r, Below(t))
      BY <2>1, <2>2
    <3> HIDE DEF r, Below, Rest
    <3>2. CASE r = {}
      BY <3>1, <3>2, SumsAt DEF r
    <3>3. CASE r # {}
      <4>1. SumsOver(u, Rest(r), Below(r)) /\ IsFiniteSet(Rest(r)) /\ Rest(r) \subseteq r
        BY <2>1, <3>1, <3>3
      <4>2. Below(r)[Rest(r)] = Below(t)[Rest(r)]
        BY <3>1, <4>1, SumsAgree
      <4>3. Below(t)[r] = u[Pick(r)] + Below(t)[Rest(r)]
        <5>1. r \in SUBSET r
          OBVIOUS
        <5> QED
          BY <3>1, <3>3, <5>1, SumsAt DEF Rest
      <4>4. G[r] = u[Pick(r)] + Below(r)[Rest(r)]
        BY <3>1, <3>3
      <4> QED
        BY <4>2, <4>3, <4>4 DEF r
    <3> QED
      BY <3>2, <3>3
  <2>3. G = [t \in SUBSET s |-> IF t = {} THEN 0 ELSE u[Pick(t)] + Below(t)[Rest(t)]]
    OBVIOUS
  <2> HIDE DEF G, Below, Rest
  <2>4. G = [t \in SUBSET s |-> IF t = {} THEN 0 ELSE u[Pick(t)] + G[Rest(t)]]
    <3> DEFINE A(t) == IF t = {} THEN 0 ELSE u[Pick(t)] + Below(t)[Rest(t)]
               B(t) == IF t = {} THEN 0 ELSE u[Pick(t)] + G[Rest(t)]
    <3>1. \A t \in SUBSET s : A(t) = B(t)
      BY <2>2, SMT
    <3>2. G = [t \in SUBSET s |-> A(t)]
      BY <2>3
    <3> HIDE DEF A, B
    <3>3. G = [t \in SUBSET s |-> B(t)]
      BY <3>1, <3>2
    <3> QED
      BY <3>3 DEF B
  <2>5. SumsOver(u, s, G)
    BY <2>4 DEF SumsOver, Rest
  <2> QED
    BY <2>5
<1>2. T \in SUBSET (SUBSET S)
  OBVIOUS
<1> HIDE DEF T
<1>3. T = SUBSET S
  BY <1>1, <1>2, SubsetsByInduction
<1>4. S \in T
  BY <1>3
<1> QED
  BY <1>4 DEF T

\* The sum of natural numbers is one, and a further element adds its own.
LEMMA SumsAdd ==
    ASSUME NEW S, IsFiniteSet(S), NEW u \in [S -> Nat], NEW g, SumsOver(u, S, g)
    PROVE  /\ \A s \in SUBSET S : g[s] \in Nat
           /\ \A s \in SUBSET S : \A c \in S \ s : g[s \union {c}] = g[s] + u[c]
<1>0. /\ g[{}] = 0
      /\ \A s \in SUBSET S : s # {} => g[s] = u[Pick(s)] + g[s \ {Pick(s)}]
  BY SumsAt, SMTT(20)
<1> DEFINE N == {s \in SUBSET S : g[s] \in Nat}
<1>1. \A s \in SUBSET S : g[s] \in Nat
  <2>1. ASSUME NEW s \in SUBSET S, \A t \in SUBSET s : t # s => t \in N
        PROVE  s \in N
    <3>1. CASE s = {}
      BY <1>0, <3>1
    <3>2. CASE s # {}
      <4>1. Pick(s) \in s
        BY <3>2, PickIn
      <4>2. g[s \ {Pick(s)}] \in Nat
        BY <2>1, <4>1
      <4>3. g[s] = u[Pick(s)] + g[s \ {Pick(s)}]
        BY <1>0, <3>2
      <4>4. u[Pick(s)] \in Nat
        BY <4>1
      <4> QED
        BY <4>2, <4>3, <4>4
    <3> QED
      BY <3>1, <3>2
  <2>2. N \in SUBSET (SUBSET S)
    OBVIOUS
  <2> HIDE DEF N
  <2>3. N = SUBSET S
    BY <2>1, <2>2, SubsetsByInduction
  <2> QED
    BY <2>3 DEF N
<1> HIDE DEF N
<1> DEFINE T == {s \in SUBSET S : \A c \in S \ s : g[s \union {c}] = g[s] + u[c]}
<1>2. ASSUME NEW s \in SUBSET S, \A t \in SUBSET s : t # s => t \in T, NEW c \in S \ s
      PROVE  g[s \union {c}] = g[s] + u[c]
  <2> DEFINE x == Pick(s \union {c})
             t == s \ {x}
  <2>1. s \union {c} \in SUBSET S /\ x \in s \union {c}
    BY PickIn
  <2>2. g[s \union {c}] = u[x] + g[(s \union {c}) \ {x}]
    BY <1>0, <2>1, Zenon
  <2> HIDE DEF x
  <2>3. CASE x = c
    <3>1. (s \union {c}) \ {x} = s
      BY <2>3
    <3>2. g[s] \in Nat /\ u[c] \in Nat
      BY <1>1
    <3>3. g[s \union {c}] = u[c] + g[s]
      BY <2>2, <2>3, <3>1, Zenon
    <3> QED
      BY <3>2, <3>3
  <2>4. CASE x # c
    <3>1. x \in s /\ t \in SUBSET s /\ t # s /\ c \in S \ t /\ x \in S \ t
      BY <2>1, <2>4
    <3>2. (s \union {c}) \ {x} = t \union {c} /\ s = t \union {x}
      BY <2>4, <3>1
    <3>3. t \in T
      BY <1>2, <3>1
    <3>4. g[t \union {c}] = g[t] + u[c] /\ g[t \union {x}] = g[t] + u[x]
      BY <3>1, <3>3
    <3>5. g[t] \in Nat /\ u[c] \in Nat /\ u[x] \in Nat
      BY <1>1, <3>1
    <3>6. g[s \union {c}] = u[x] + g[t \union {c}] /\ g[s] = g[t \union {x}]
      BY <2>2, <3>2, Zenon
    <3> HIDE DEF t
    <3> QED
      BY <3>4, <3>5, <3>6
  <2> QED
    BY <2>3, <2>4
<1>3. ASSUME NEW s \in SUBSET S, \A t \in SUBSET s : t # s => t \in T
      PROVE  s \in T
  BY <1>2, <1>3
<1>4. T \in SUBSET (SUBSET S)
  OBVIOUS
<1> HIDE DEF T
<1>5. T = SUBSET S
  BY <1>3, <1>4, SubsetsByInduction
<1> QED
  BY <1>1, <1>5 DEF T

\* The sum of a function over a finite set of its arguments.
IsTotal(u, S, v) == \E g : SumsOver(u, S, g) /\ g[S] = v

LEMMA TotalOfNone == ASSUME NEW u PROVE IsTotal(u, {}, 0)
BY SumsExist, SumsAt, FS_EmptySet DEF IsTotal

LEMMA TotalUnique ==
    ASSUME NEW u, NEW S, IsFiniteSet(S), NEW v, NEW w, IsTotal(u, S, v), IsTotal(u, S, w)
    PROVE  v = w
BY SumsAgree DEF IsTotal

\* It depends on the values in the set only.
LEMMA TotalSame ==
    ASSUME NEW u, NEW w, NEW S, NEW v, IsTotal(u, S, v), \A x \in S : u[x] = w[x]
    PROVE  IsTotal(w, S, v)
<1>1. PICK g : SumsOver(u, S, g) /\ g[S] = v
  BY DEF IsTotal
<1>2. \A s \in SUBSET S : (IF s = {} THEN 0 ELSE u[Pick(s)] + g[s \ {Pick(s)}])
                        = (IF s = {} THEN 0 ELSE w[Pick(s)] + g[s \ {Pick(s)}])
  BY PickIn
<1>3. SumsOver(w, S, g)
  BY <1>1, <1>2 DEF SumsOver
<1> QED
  BY <1>1, <1>3 DEF IsTotal

LEMMA TotalAdd ==
    ASSUME NEW S, IsFiniteSet(S), NEW c, c \notin S, NEW u \in [S \union {c} -> Nat],
           NEW v, IsTotal(u, S, v)
    PROVE  IsTotal(u, S \union {c}, v + u[c])
<1> DEFINE R == S \union {c}
<1>1. IsFiniteSet(R)
  BY FS_AddElement
<1>2. PICK g : SumsOver(u, R, g)
  BY <1>1, SumsExist
<1>3. PICK h : SumsOver(u, S, h) /\ h[S] = v
  BY DEF IsTotal
<1>4. h[S] = g[S]
  BY <1>2, <1>3, SumsAgree
<1>5. g[S \union {c}] = g[S] + u[c]
  BY <1>1, <1>2, SumsAdd
<1> QED
  BY <1>2, <1>3, <1>4, <1>5 DEF IsTotal

\* What a CHOOSE finds is such a sum.
LEMMA ChosenTotal ==
    ASSUME NEW u, NEW S, IsFiniteSet(S)
    PROVE  IsTotal(u, S, (CHOOSE g : SumsOver(u, S, g))[S])
<1> DEFINE f == CHOOSE g : SumsOver(u, S, g)
<1>1. SumsOver(u, S, f)
  BY SumsExist, Zenon
<1> QED
  BY <1>1, Zenon DEF IsTotal

\* A sum of terms that are b at most is b at most for each, and is that much only
\* when all of them are b.
LEMMA TotalBound ==
    ASSUME NEW S, IsFiniteSet(S), NEW b \in Nat, NEW u \in [S -> 0..b], NEW v, IsTotal(u, S, v)
    PROVE  /\ v \in Nat /\ v <= b * Cardinality(S)
           /\ v = b * Cardinality(S) <=> \A x \in S : u[x] = b
<1>1. PICK g : SumsOver(u, S, g) /\ g[S] = v
  BY DEF IsTotal
<1>2. /\ g[{}] = 0
      /\ \A s \in SUBSET S : s # {} => g[s] = u[Pick(s)] + g[s \ {Pick(s)}]
  <2>1. SumsOver(u, S, g)
    BY <1>1
  <2> QED
    BY <2>1, SumsAt, SMTT(20)
<1> DEFINE T == {s \in SUBSET S : /\ g[s] \in Nat /\ g[s] <= b * Cardinality(s)
                                  /\ g[s] = b * Cardinality(s) <=> \A x \in s : u[x] = b}
<1>3. ASSUME NEW s \in SUBSET S, \A t \in SUBSET s : t # s => t \in T
      PROVE  s \in T
  <2>1. CASE s = {}
    <3>1. Cardinality(s) = 0
      BY <2>1, FS_EmptySet
    <3>2. b * 0 = 0
      OBVIOUS
    <3> QED
      BY <1>2, <2>1, <3>1, <3>2
  <2>2. CASE s # {}
    <3> DEFINE x == Pick(s)
               t == s \ {x}
    <3>1. x \in s /\ t \in T
      BY <1>3, <2>2, PickIn
    <3>2. IsFiniteSet(s) /\ Cardinality(t) \in Nat /\ Cardinality(s) = Cardinality(t) + 1
      <4>1. IsFiniteSet(s)
        BY FS_Subset
      <4>2. Cardinality(t) = Cardinality(s) - 1 /\ IsFiniteSet(t)
        BY <3>1, <4>1, FS_RemoveElement
      <4>3. Cardinality(t) \in Nat /\ Cardinality(s) \in Nat
        BY <4>1, <4>2, FS_CardinalityType
      <4> QED
        BY <4>1, <4>2, <4>3
    <3>3. g[s] = u[x] + g[t]
      BY <1>2, <2>2
    <3>4. u[x] \in 0..b
      BY <3>1
    <3>5. /\ g[t] \in Nat /\ g[t] <= b * Cardinality(t)
          /\ g[t] = b * Cardinality(t) <=> \A y \in t : u[y] = b
      BY <3>1
    <3>6. (\A y \in s : u[y] = b) <=> u[x] = b /\ \A y \in t : u[y] = b
      BY <3>1
    <3> HIDE DEF x, t, T
    <3> DEFINE n == Cardinality(t)
               m == b * n
    <3>7. Cardinality(s) = n + 1 /\ n \in Nat
      BY <3>2
    <3>8. m \in Nat /\ b * (n + 1) = m + b
      BY <3>7
    <3>9. g[t] <= m /\ (g[t] = m <=> \A y \in t : u[y] = b)
      BY <3>5
    <3> HIDE DEF m, n
    <3>10. g[s] \in Nat /\ g[s] <= m + b /\ (g[s] = m + b <=> u[x] = b /\ g[t] = m)
      BY <3>3, <3>4, <3>5, <3>8, <3>9
    <3> QED
      BY <3>6, <3>7, <3>8, <3>9, <3>10 DEF T
  <2> QED
    BY <2>1, <2>2
<1>4. T \in SUBSET (SUBSET S)
  OBVIOUS
<1> HIDE DEF T
<1>5. T = SUBSET S
  BY <1>3, <1>4, SubsetsByInduction
<1>6. S \in T
  BY <1>5
<1> QED
  BY <1>1, <1>6 DEF T

\* A finite set of numbers that is not empty has a largest one.
LEMMA Largest ==
    ASSUME NEW S \in SUBSET Nat, IsFiniteSet(S), S # {}
    PROVE  \E n \in S : \A m \in S : m <= n
<1> DEFINE T == {s \in SUBSET S : s # {} => \E n \in s : \A m \in s : m <= n}
<1>1. ASSUME NEW s \in SUBSET S, \A t \in SUBSET s : t # s => t \in T
      PROVE  s \in T
  <2>1. ASSUME NEW x \in s
        PROVE  \E n \in s : \A m \in s : m <= n
    <3>1. CASE s \ {x} = {}
      BY <3>1
    <3>2. CASE s \ {x} # {}
      <4>1. PICK n \in s \ {x} : \A m \in s \ {x} : m <= n
        <5>1. s \ {x} \in SUBSET s /\ s \ {x} # s
          BY <2>1
        <5>2. s \ {x} \in T
          BY <1>1, <5>1
        <5> QED
          BY <3>2, <5>2
      <4>2. n \in Nat /\ x \in Nat /\ s \subseteq Nat
        OBVIOUS
      <4>3. CASE x <= n
        BY <4>1, <4>2, <4>3
      <4>4. CASE ~(x <= n)
        BY <4>1, <4>2, <4>4
      <4> QED
        BY <4>3, <4>4
    <3> QED
      BY <3>1, <3>2
  <2> QED
    BY <2>1
<1>2. T \in SUBSET (SUBSET S)
  OBVIOUS
<1> HIDE DEF T
<1>3. T = SUBSET S
  BY <1>1, <1>2, SubsetsByInduction
<1>4. S \in T
  BY <1>3
<1> QED
  BY <1>4 DEF T

-----------------------------------------------------------------------------
(* EvalHarness                                                              *)

-----------------------------------------------------------------------------
(* What each of the three evals relies on. An eval has a result for every   *)
(* item it no longer waits for, and as long as nothing was edited it ran    *)
(* today's files; a candidate is judged below the cap but for its last run. *)

CliInv ==
    /\ cli.at \in {"batch", "write"} /\ ~cli.edited =>
          /\ cli.specs \subseteq {version["spec"]}
          /\ cli.meta = version["spec"]
          /\ cli.fixtures = version["fixtures"]
    /\ cli.at \in {"batch", "write"} =>
          /\ cli.left \intersect cli.pending = {}
          /\ cli.sum.runs + Cardinality(cli.left) + Cardinality(cli.pending)
                = Cardinality(Items)
    /\ ~cli.cancelled => cli.cut = 0
    /\ cli.status = "ok" => cli.cut = 0 /\ cli.at # "batch"
    /\ cli.at = "write" => cli.cut = 0 /\ cli.left = {} /\ cli.pending = {}

BaselineInv ==
    /\ baseline \in Baseline => baseline.whole
    /\ baseline \in Baseline /\ newer = {} /\ ~baseline.edited =>
          /\ baseline.specs \subseteq {version["spec"]}
          /\ baseline.fixtures = version["fixtures"]

OptInv ==
    /\ opt \in {"admit", "evaluate", "judge"} => cands # <<>>
    /\ opt = "admit" => Current.sum = Zero
    /\ opt = "evaluate" => Current.sum.cost < Remaining
    /\ opt = "judge" => total + Current.sum.cost < Cap + MaxCost
    /\ total < Cap + MaxCost

DatasetInv ==
    /\ dataset.cut # {} => dataset.cancelled
    /\ dataset.at \in {"score", "done"} /\ dataset.cut # {} => dataset.status = "cancelled"

EvalInv == TypeOK /\ CliInv /\ BaselineInv /\ OptInv /\ DatasetInv

cliVars == <<version, newer, baseline, cli>>

-----------------------------------------------------------------------------
\* The items are finitely many.
LEMMA ItemsFinite ==
    /\ IsFiniteSet(Items)
    /\ Cardinality(Items) \in Nat
    /\ \A S \in SUBSET Items : IsFiniteSet(S) /\ Cardinality(S) \in Nat
<1>1. IsFiniteSet(Items)
  BY FS_Interval, EvalAssumption DEF EvalAssumption, Items
<1> QED
  BY <1>1, FS_Subset, FS_CardinalityType

\* The most expensive run is one.
LEMMA MaxCostType == MaxCost \in Costs /\ MaxCost \in Nat /\ \A c \in Costs : c <= MaxCost
BY EvalAssumption DEF EvalAssumption, MaxCost

\* Add keeps the type and counts one more run.
LEMMA AddType ==
    ASSUME NEW s \in Sum, NEW pass \in BOOLEAN, NEW spent \in Nat
    PROVE  /\ Add(s, pass, spent) \in Sum
           /\ Add(s, pass, spent).runs = s.runs + 1
           /\ Add(s, pass, spent).cost = s.cost + spent
BY DEF Sum, Add

\* A step of the eval that fills in its results.
LEMMA CliType ==
    ASSUME cli \in Cli, NEW left \in SUBSET Items, NEW pending \in SUBSET Items,
           NEW sum \in Sum, NEW cut \in Nat, NEW specs \in SUBSET Nat
    PROVE  [cli EXCEPT !.left = left, !.pending = pending, !.sum = sum, !.cut = cut,
                       !.specs = specs] \in Cli
BY DEF Cli

\* A step of the dataset eval that scores a row.
LEMMA DatasetType ==
    ASSUME dataset \in Dataset, NEW unscored \in SUBSET Items, NEW ranked \in Seq(Gallery),
           NEW passes \in Nat, NEW status \in {"none", "ok", "cancelled"}
    PROVE  [dataset EXCEPT !.unscored = unscored, !.ranked = ranked, !.passes = passes,
                           !.status = status] \in Dataset
BY DEF Dataset

LEMMA InitEval == Init => EvalInv
<1> SUFFICES ASSUME Init PROVE EvalInv
  OBVIOUS
<1>1. Zero \in Sum
  BY DEF Zero, Sum
<1>2. baseline \notin Baseline
  BY BaselineAssumption DEF Init
<1>3. TypeOK
  <2>1. cli \in Cli
    BY <1>1 DEF Init, Cli
  <2>2. dataset \in Dataset
    BY DEF Init, Dataset
  <2>3. moved \in BOOLEAN
    BY Zenon DEF Init
  <2> QED
    BY <2>1, <2>2, <2>3 DEF Init, TypeOK, OptStates
<1>4. CliInv
  BY DEF Init, CliInv
<1>5. OptInv
  BY EvalAssumption, MaxCostType DEF EvalAssumption, Init, OptInv
<1> QED
  BY <1>2, <1>3, <1>4, <1>5 DEF Init, EvalInv, BaselineInv, DatasetInv

-----------------------------------------------------------------------------
(* Edits and the steps of the command-line eval.                           *)

\* What a step of the command-line eval must keep.
LEMMA CliSuffices ==
    ASSUME EvalInv, UNCHANGED <<opt, cands, total, dataset>>, moved' \in BOOLEAN,
           version' \in [Files -> Nat], newer' \subseteq Files,
           baseline' \in Baseline \union {NoBaseline, Torn}, cli' \in Cli,
           CliInv', BaselineInv'
    PROVE  EvalInv'
<1>1. TypeOK'
  BY DEF EvalInv, TypeOK
<1>2. OptInv' /\ DatasetInv'
  BY DEF EvalInv, OptInv, DatasetInv, Current, Remaining
<1> QED
  BY <1>1, <1>2 DEF EvalInv

LEMMA EditKeeps ==
    ASSUME EvalInv, NEW f \in Files, Edit(f)
    PROVE  EvalInv'
<1>1. version' \in [Files -> Nat] /\ newer' \subseteq Files /\ newer' # {}
  BY DEF EvalInv, TypeOK, Edit
<1>2. cli' \in Cli /\ baseline' \in Baseline \union {NoBaseline, Torn} /\ moved' \in BOOLEAN
  <2>1. (cli.edited \/ cli.at \in {"batch", "write"}) \in BOOLEAN
    BY DEF EvalInv, TypeOK, Cli
  <2> QED
    BY <2>1 DEF EvalInv, TypeOK, Edit, Cli, optVars
<1>3. CliInv'
  BY DEF EvalInv, TypeOK, Edit, Cli, CliInv
<1>4. BaselineInv'
  BY <1>1 DEF EvalInv, Edit, BaselineInv
<1> QED
  BY <1>1, <1>2, <1>3, <1>4, CliSuffices DEF Edit, optVars

LEMMA StartEvalKeeps ==
    ASSUME EvalInv, NEW update \in BOOLEAN, StartEval(update)
    PROVE  EvalInv'
<1>1. Zero \in Sum /\ Zero.runs = 0
  BY DEF Zero, Sum
<1>2. version["spec"] \in Nat /\ version["fixtures"] \in Nat /\ cli.evals + 1 \in Nat
  BY DEF EvalInv, TypeOK, Files, Cli
<1>3. cli' \in Cli
  BY <1>1, <1>2 DEF StartEval, Cli
<1>4. CliInv'
  <2>1. Cardinality({}) = 0
    BY FS_EmptySet
  <2> QED
    BY <1>1, <2>1, ItemsFinite DEF StartEval, CliInv
<1>5. BaselineInv'
  BY DEF EvalInv, StartEval, BaselineInv
<1> QED
  BY <1>3, <1>4, <1>5, CliSuffices DEF StartEval, optVars, EvalInv, TypeOK

\* One item less to wait for.
LEMMA OneLess ==
    ASSUME EvalInv, cli.at = "batch", NEW i \in cli.left
    PROVE  /\ cli.left \ {i} \in SUBSET Items
           /\ Cardinality(cli.left \ {i}) = Cardinality(cli.left) - 1
           /\ Cardinality(cli.left) \in Nat
           /\ Cardinality(cli.pending) \in Nat
           /\ i \notin cli.pending
<1>1. cli.left \in SUBSET Items /\ cli.pending \in SUBSET Items
  BY DEF EvalInv, TypeOK, Cli
<1>2. IsFiniteSet(cli.left) /\ Cardinality(cli.left) \in Nat /\ Cardinality(cli.pending) \in Nat
  BY <1>1, ItemsFinite
<1>3. Cardinality(cli.left \ {i}) = Cardinality(cli.left) - 1
  BY <1>2, FS_RemoveElement
<1>4. cli.left \intersect cli.pending = {}
  BY DEF EvalInv, CliInv
<1> QED
  BY <1>1, <1>2, <1>3, <1>4

LEMMA ItemEndsKeeps ==
    ASSUME EvalInv, NEW i \in Items, ItemEnds(i) \/ ItemCancelled(i)
    PROVE  EvalInv'
<1> PICK pass \in BOOLEAN, spent \in Nat, specs \in {cli.specs, cli.specs \union {version["spec"]}},
         cut \in {cli.cut, cli.cut + 1} :
        /\ cli.at = "batch" /\ i \in cli.left
        /\ cut # cli.cut => cli.cancelled
        /\ cli' = [cli EXCEPT !.left = @ \ {i}, !.cut = cut, !.sum = Add(@, pass, spent),
                              !.specs = specs]
  <2>1. CASE ItemEnds(i)
    <3>1. PICK pass \in BOOLEAN, spent \in Costs :
             cli' = [cli EXCEPT !.left = @ \ {i}, !.sum = Add(@, pass, spent),
                                !.specs = @ \union {version["spec"]}]
      BY <2>1 DEF ItemEnds
    <3>2. cli' = [cli EXCEPT !.left = @ \ {i}, !.cut = cli.cut, !.sum = Add(@, pass, spent),
                             !.specs = cli.specs \union {version["spec"]}]
      BY <3>1 DEF EvalInv, TypeOK, Cli
    <3> QED
      BY <2>1, <3>2, EvalAssumption DEF ItemEnds, EvalAssumption
  <2>2. CASE ItemCancelled(i)
    <3>1. PICK pass \in BOOLEAN, spent \in Costs \union {0} :
             cli' = [cli EXCEPT !.left = @ \ {i}, !.cut = @ + 1, !.sum = Add(@, pass, spent)]
      BY <2>2 DEF ItemCancelled
    <3>2. cli' = [cli EXCEPT !.left = @ \ {i}, !.cut = cli.cut + 1, !.sum = Add(@, pass, spent),
                             !.specs = cli.specs]
      BY <3>1 DEF EvalInv, TypeOK, Cli
    <3> QED
      BY <2>2, <3>2, EvalAssumption DEF ItemCancelled, EvalAssumption
  <2> QED
    BY <2>1, <2>2
<1>1. cli.sum \in Sum /\ version["spec"] \in Nat /\ cli.cut \in Nat
  BY DEF EvalInv, TypeOK, Cli, Files
<1> DEFINE sum == Add(cli.sum, pass, spent)
<1>a. sum \in Sum /\ sum.runs = cli.sum.runs + 1
  BY <1>1, AddType
<1> HIDE DEF sum
<1>b. /\ cli.left \ {i} \in SUBSET Items
      /\ Cardinality(cli.left \ {i}) = Cardinality(cli.left) - 1
      /\ Cardinality(cli.left) \in Nat /\ Cardinality(cli.pending) \in Nat
  BY OneLess
<1>c. cli' = [cli EXCEPT !.left = @ \ {i}, !.cut = cut, !.sum = sum, !.specs = specs]
  BY DEF sum
<1>2. cli' \in Cli
  <2>1. cut \in Nat /\ specs \in SUBSET Nat
    BY <1>1 DEF EvalInv, TypeOK, Cli
  <2>2. cli \in Cli /\ cli.pending \in SUBSET Items
    BY DEF EvalInv, TypeOK, Cli
  <2>3. cli' = [cli EXCEPT !.left = cli.left \ {i}, !.pending = cli.pending, !.sum = sum,
                           !.cut = cut, !.specs = specs]
    BY <1>c, <2>2 DEF Cli
  <2>4. [cli EXCEPT !.left = cli.left \ {i}, !.pending = cli.pending, !.sum = sum,
                    !.cut = cut, !.specs = specs] \in Cli
    BY <1>a, <1>b, <2>1, <2>2, CliType
  <2> QED
    BY <2>3, <2>4
<1>3. cli'.sum.runs = cli.sum.runs + 1
  BY <1>a, <1>c DEF EvalInv, TypeOK, Cli
<1>4. UNCHANGED <<version, newer, baseline, opt, cands, total, moved, dataset>>
  BY DEF ItemEnds, ItemCancelled, optVars
<1>5. CliInv'
  <2>1. cli.sum.runs \in Nat /\ cli.specs \subseteq Nat
    BY DEF EvalInv, TypeOK, Cli, Sum
  <2>2. cli'.specs \subseteq cli.specs \union {version["spec"]}
    BY <1>c DEF EvalInv, TypeOK, Cli
  <2>3. /\ cli'.left = cli.left \ {i} /\ cli'.cut = cut
        /\ cli'.at = "batch" /\ cli'.pending = cli.pending /\ cli'.edited = cli.edited
        /\ cli'.meta = cli.meta /\ cli'.fixtures = cli.fixtures
        /\ cli'.cancelled = cli.cancelled /\ cli'.status = cli.status
    BY <1>c DEF EvalInv, TypeOK, Cli
  <2>4. Cardinality(Items) \in Nat
    BY ItemsFinite
  <2> QED
    BY <1>b, <1>3, <1>4, <2>1, <2>2, <2>3, <2>4 DEF EvalInv, CliInv
<1>6. BaselineInv'
  BY <1>4 DEF EvalInv, BaselineInv
<1> QED
  BY <1>2, <1>4, <1>5, <1>6, CliSuffices DEF EvalInv, TypeOK

LEMMA ItemPausesKeeps ==
    ASSUME EvalInv, NEW i \in Items, ItemPauses(i)
    PROVE  EvalInv'
<1>1. version["spec"] \in Nat /\ i \in cli.left /\ cli.at = "batch"
  BY DEF EvalInv, TypeOK, Files, ItemPauses
<1>2. cli' \in Cli
  BY <1>1, OneLess DEF EvalInv, TypeOK, Cli, ItemPauses
<1>3. CliInv'
  <2>1. /\ cli'.left = cli.left \ {i} /\ cli'.pending = cli.pending \union {i}
        /\ cli'.specs = cli.specs \union {version["spec"]} /\ cli'.sum = cli.sum
        /\ cli'.at = "batch" /\ cli'.edited = cli.edited /\ cli'.meta = cli.meta
        /\ cli'.fixtures = cli.fixtures /\ cli'.cancelled = cli.cancelled
        /\ cli'.status = cli.status /\ cli'.cut = cli.cut
    BY DEF EvalInv, TypeOK, Cli, ItemPauses
  <2>2. Cardinality(cli.pending \union {i}) = Cardinality(cli.pending) + 1
    BY <1>1, OneLess, ItemsFinite, FS_AddElement DEF EvalInv, TypeOK, Cli
  <2>3. cli.sum.runs \in Nat /\ Cardinality(Items) \in Nat
    BY ItemsFinite DEF EvalInv, TypeOK, Cli, Sum
  <2>4. version' = version
    BY DEF ItemPauses
  <2> QED
    BY <1>1, <2>1, <2>2, <2>3, <2>4, OneLess DEF EvalInv, CliInv
<1>4. BaselineInv'
  BY DEF EvalInv, BaselineInv, ItemPauses
<1> QED
  BY <1>2, <1>3, <1>4, CliSuffices DEF EvalInv, TypeOK, ItemPauses, optVars

LEMMA CancelEvalKeeps == EvalInv /\ CancelEval => EvalInv'
<1> SUFFICES ASSUME EvalInv, CancelEval PROVE EvalInv'
  OBVIOUS
<1>1. cli' \in Cli
  BY DEF EvalInv, TypeOK, Cli, CancelEval
<1>2. CliInv'
  BY DEF EvalInv, TypeOK, Cli, CancelEval, CliInv
<1>3. BaselineInv'
  BY DEF EvalInv, BaselineInv, CancelEval
<1> QED
  BY <1>1, <1>2, <1>3, CliSuffices DEF EvalInv, TypeOK, CancelEval, optVars

LEMMA DecideKeeps ==
    ASSUME EvalInv, NEW i \in Items, Decide(i)
    PROVE  EvalInv'
<1> PICK pass \in BOOLEAN, spent \in Costs, run \in SUBSET {cli.meta, version["spec"]} :
        cli' = [cli EXCEPT !.pending = @ \ {i}, !.sum = Add(@, pass, spent),
                           !.specs = @ \union run]
  BY DEF Decide
<1>1. spent \in Nat /\ cli.sum \in Sum /\ cli.meta \in Nat /\ version["spec"] \in Nat
  BY EvalAssumption DEF EvalInv, TypeOK, Cli, Files, EvalAssumption
<1>2. i \in cli.pending /\ cli.at = "batch" /\ cli.left = {}
  BY DEF Decide
<1> DEFINE sum == Add(cli.sum, pass, spent)
<1>a. sum \in Sum /\ sum.runs = cli.sum.runs + 1
  BY <1>1, AddType
<1> HIDE DEF sum
<1>b. cli' = [cli EXCEPT !.pending = @ \ {i}, !.sum = sum, !.specs = @ \union run]
  BY DEF sum
<1>3. cli' \in Cli
  <2>1. cli.pending \ {i} \in SUBSET Items /\ cli.specs \union run \in SUBSET Nat
    BY <1>1 DEF EvalInv, TypeOK, Cli
  <2>2. cli \in Cli /\ cli.left \in SUBSET Items /\ cli.cut \in Nat
    BY DEF EvalInv, TypeOK, Cli
  <2>3. cli' = [cli EXCEPT !.left = cli.left, !.pending = cli.pending \ {i}, !.sum = sum,
                           !.cut = cli.cut, !.specs = cli.specs \union run]
    BY <1>b, <2>2 DEF Cli
  <2>4. [cli EXCEPT !.left = cli.left, !.pending = cli.pending \ {i}, !.sum = sum,
                    !.cut = cli.cut, !.specs = cli.specs \union run] \in Cli
    BY <1>a, <2>1, <2>2, CliType
  <2> QED
    BY <2>3, <2>4
<1>4. CliInv'
  <2>1. /\ cli'.left = {} /\ cli'.pending = cli.pending \ {i}
        /\ cli'.specs = cli.specs \union run
        /\ cli'.at = "batch" /\ cli'.edited = cli.edited /\ cli'.meta = cli.meta
        /\ cli'.fixtures = cli.fixtures /\ cli'.cancelled = cli.cancelled
        /\ cli'.status = cli.status /\ cli'.cut = cli.cut
    BY <1>b, <1>2 DEF EvalInv, TypeOK, Cli
  <2>2. cli'.sum.runs = cli.sum.runs + 1
    BY <1>a, <1>b DEF EvalInv, TypeOK, Cli
  <2>3. Cardinality(cli.pending \ {i}) = Cardinality(cli.pending) - 1
    BY <1>2, ItemsFinite, FS_RemoveElement DEF EvalInv, TypeOK, Cli
  <2>4. /\ cli.sum.runs \in Nat /\ Cardinality(Items) \in Nat
        /\ Cardinality(cli.pending) \in Nat /\ Cardinality(cli.left) \in Nat
    BY ItemsFinite DEF EvalInv, TypeOK, Cli, Sum
  <2>5. version' = version
    BY DEF Decide
  <2>6. cli.sum.runs + Cardinality(cli.left) + Cardinality(cli.pending) = Cardinality(Items)
    BY <1>2 DEF EvalInv, CliInv
  <2>7. cli'.sum.runs + Cardinality(cli'.left) + Cardinality(cli'.pending) = Cardinality(Items)
    <3>1. Cardinality(cli'.left) = Cardinality(cli.left)
      BY <1>2, <2>1
    <3>2. Cardinality(cli'.pending) = Cardinality(cli.pending) - 1
      BY <2>1, <2>3
    <3> QED
      BY <3>1, <3>2, <2>2, <2>4, <2>6
  <2>8. ~cli.edited => /\ cli.specs \union run \subseteq {version["spec"]}
                       /\ cli.meta = version["spec"] /\ cli.fixtures = version["fixtures"]
    BY <1>2 DEF EvalInv, CliInv
  <2>9. /\ ~cli.cancelled => cli.cut = 0
        /\ cli.status # "ok"
    BY <1>2 DEF EvalInv, CliInv
  <2>10. ~cli'.edited => /\ cli'.specs \subseteq {version'["spec"]}
                         /\ cli'.meta = version'["spec"] /\ cli'.fixtures = version'["fixtures"]
    BY <2>1, <2>5, <2>8
  <2>11. /\ cli'.left \intersect cli'.pending = {} /\ cli'.at = "batch"
         /\ cli'.status # "ok" /\ (~cli'.cancelled => cli'.cut = 0)
    BY <2>1, <2>9
  <2> QED
    BY <2>7, <2>10, <2>11 DEF CliInv
<1>5. BaselineInv'
  BY DEF EvalInv, BaselineInv, Decide
<1> QED
  BY <1>3, <1>4, <1>5, CliSuffices DEF EvalInv, TypeOK, Decide, optVars

LEMMA ReportKeeps == EvalInv /\ (Report \/ Kill) => EvalInv'
<1> SUFFICES ASSUME EvalInv, Report \/ Kill PROVE EvalInv'
  OBVIOUS
<1>1. cli' \in Cli
  <2>1. EvalStatus \in {"none", "ok", "cancelled"}
    BY DEF EvalStatus
  <2>2. CASE Report
    BY <2>1, <2>2 DEF EvalInv, TypeOK, Cli, Report
  <2>3. CASE Kill
    BY <2>3 DEF EvalInv, TypeOK, Cli, Kill
  <2> QED
    BY <2>2, <2>3
<1>2. CliInv'
  BY DEF EvalInv, TypeOK, Cli, Report, Kill, EvalStatus, CliInv
<1>3. BaselineInv'
  BY DEF EvalInv, BaselineInv, Report, Kill
<1> QED
  BY <1>1, <1>2, <1>3, CliSuffices DEF EvalInv, TypeOK, Report, Kill, optVars

LEMMA OpenBaselineKeeps == EvalInv /\ OpenBaseline => EvalInv'
<1> SUFFICES ASSUME EvalInv, OpenBaseline PROVE EvalInv'
  OBVIOUS
<1>1. cli' \in Cli
  <2>1. EvalStatus \in {"none", "ok", "cancelled"}
    BY DEF EvalStatus
  <2> QED
    BY <2>1 DEF EvalInv, TypeOK, Cli, OpenBaseline
<1>2. CliInv'
  BY DEF EvalInv, TypeOK, Cli, OpenBaseline, EvalStatus, CliInv
<1>3. BaselineInv'
  BY BaselineAssumption DEF BaselineInv, OpenBaseline
<1>4. moved' \in BOOLEAN
  BY DEF EvalInv, TypeOK, OpenBaseline
<1> QED
  BY <1>1, <1>2, <1>3, <1>4, CliSuffices DEF EvalInv, TypeOK, OpenBaseline

LEMMA WriteBaselineKeeps == EvalInv /\ WriteBaseline => EvalInv'
<1> SUFFICES ASSUME EvalInv, WriteBaseline PROVE EvalInv'
  OBVIOUS
<1>1. cli' \in Cli
  BY DEF EvalInv, TypeOK, Cli, WriteBaseline
<1>2. cli.cut = 0 /\ cli.sum.runs = Cardinality(Items)
  <2>1. Cardinality({}) = 0 /\ cli.sum.runs \in Nat
    BY FS_EmptySet DEF EvalInv, TypeOK, Cli, Sum
  <2>2. Cardinality(Items) \in Nat
    BY ItemsFinite
  <2> QED
    BY <2>1, <2>2 DEF EvalInv, CliInv, WriteBaseline
<1>3. baseline' \in Baseline /\ baseline'.whole
  <2>1. baseline' = [sum |-> cli.sum, specs |-> cli.specs, fixtures |-> cli.fixtures,
                     edited |-> cli.edited, whole |-> TRUE]
    BY <1>2 DEF WriteBaseline
  <2> QED
    BY <2>1 DEF EvalInv, TypeOK, Cli, Baseline
<1>4. CliInv'
  BY DEF EvalInv, TypeOK, Cli, WriteBaseline, CliInv
<1>5. BaselineInv'
  BY <1>3 DEF EvalInv, CliInv, WriteBaseline, BaselineInv
<1>6. moved' \in BOOLEAN
  BY DEF EvalInv, TypeOK, WriteBaseline
<1> QED
  BY <1>1, <1>3, <1>4, <1>5, <1>6, CliSuffices DEF EvalInv, TypeOK, WriteBaseline

-----------------------------------------------------------------------------
(* The optimization.                                                       *)

\* What a step of the optimization must keep.
LEMMA OptSuffices ==
    ASSUME EvalInv, UNCHANGED <<version, newer, baseline, cli, moved, dataset>>,
           opt' \in OptStates, cands' \in Seq(Candidate), total' \in Nat, OptInv'
    PROVE  EvalInv'
<1>1. TypeOK'
  BY DEF EvalInv, TypeOK
<1>2. CliInv' /\ BaselineInv' /\ DatasetInv'
  BY DEF EvalInv, CliInv, BaselineInv, DatasetInv
<1> QED
  BY <1>1, <1>2 DEF EvalInv

\* The candidate that is evaluated is the last one.
LEMMA CurrentType ==
    ASSUME cands \in Seq(Candidate), cands # <<>>
    PROVE  Len(cands) \in DOMAIN cands /\ Current \in Candidate /\ Current.sum \in Sum
<1>1. Len(cands) \in DOMAIN cands /\ Current \in Candidate
  BY DEF Current
<1> QED
  BY <1>1 DEF Candidate

\* A step that replaces the last candidate.
LEMMA ReplaceCurrentType ==
    ASSUME cands \in Seq(Candidate), cands # <<>>, NEW c \in Candidate, ReplaceCurrent(c)
    PROVE  cands' \in Seq(Candidate) /\ cands' # <<>> /\ Current' = c
BY DEF Current, ReplaceCurrent

LEMMA AfterCandidateType == AfterCandidate \in {"generate", "rank"}
BY DEF AfterCandidate

LEMMA GenerateKeeps == EvalInv /\ Generate => EvalInv'
<1> SUFFICES ASSUME EvalInv, Generate PROVE EvalInv'
  OBVIOUS
<1> PICK valid \in BOOLEAN :
        /\ cands' = Append(cands, Untried(valid))
        /\ opt' = IF valid THEN "admit" ELSE AfterCandidate
  BY DEF Generate
<1> DEFINE c == Untried(valid)
<1>1. c \in Candidate /\ c.sum = Zero
  <2>1. Zero \in Sum
    BY DEF Zero, Sum
  <2> QED
    BY <2>1 DEF Untried, Candidate, EvalStates
<1> HIDE DEF c
<1>2. cands' = Append(cands, c) /\ cands \in Seq(Candidate)
  BY DEF c, EvalInv, TypeOK
<1>3. cands' \in Seq(Candidate) /\ cands' # <<>> /\ Current' = c
  BY <1>1, <1>2 DEF Current
<1>4. opt' \in {"admit", "generate", "rank"}
  BY AfterCandidateType
<1>5. OptInv'
  BY <1>1, <1>3, <1>4 DEF Generate, EvalInv, OptInv
<1> QED
  BY <1>3, <1>4, <1>5, OptSuffices DEF Generate, OptStates, EvalInv, TypeOK

LEMMA AdmitKeeps == EvalInv /\ Admit => EvalInv'
<1> SUFFICES ASSUME EvalInv, Admit PROVE EvalInv'
  OBVIOUS
<1>1. /\ cands \in Seq(Candidate) /\ cands # <<>> /\ Current.sum = Zero
      /\ total \in Nat /\ Cap \in Nat
  BY EvalAssumption DEF EvalAssumption, EvalInv, TypeOK, OptInv, Admit
<1>2. Current \in Candidate
  BY <1>1, CurrentType
<1>3. ASSUME NEW status \in EvalStates,
             ReplaceCurrent([Current EXCEPT !.eval = status])
      PROVE  cands' \in Seq(Candidate) /\ cands' # <<>> /\ Current'.sum = Zero
  <2> DEFINE c == [Current EXCEPT !.eval = status]
  <2>1. c \in Candidate /\ c.sum = Zero
    BY <1>1, <1>2, <1>3 DEF Candidate
  <2>2. ReplaceCurrent(c)
    BY <1>3
  <2> HIDE DEF c
  <2> QED
    BY <1>1, <2>1, <2>2, ReplaceCurrentType
<1>4. Zero.cost = 0
  BY DEF Zero
<1>5. CASE Remaining <= 0
  <2>1. cands' \in Seq(Candidate) /\ opt' \in {"generate", "rank"}
    BY <1>3, <1>5, AfterCandidateType DEF Admit, EvalStates
  <2>2. OptInv'
    BY <2>1 DEF Admit, EvalInv, OptInv
  <2> QED
    BY <2>1, <2>2, OptSuffices DEF Admit, OptStates, EvalInv, TypeOK
<1>6. CASE ~(Remaining <= 0)
  <2>1. /\ cands' \in Seq(Candidate) /\ cands' # <<>> /\ Current'.sum = Zero
        /\ opt' \in {"evaluate", "judge"} /\ total' = total
    BY <1>3, <1>6 DEF Admit, EvalStates
  <2>2. 0 < Cap - total
    BY <1>1, <1>6 DEF Remaining
  <2>3. OptInv'
    BY <1>1, <1>4, <2>1, <2>2, MaxCostType DEF OptInv, Remaining
  <2> QED
    BY <2>1, <2>3, OptSuffices DEF Admit, OptStates, EvalInv, TypeOK
<1> QED
  BY <1>5, <1>6

LEMMA EvaluateItemKeeps == EvalInv /\ EvaluateItem => EvalInv'
<1> SUFFICES ASSUME EvalInv, EvaluateItem PROVE EvalInv'
  OBVIOUS
<1>1. /\ cands \in Seq(Candidate) /\ cands # <<>>
      /\ Current.sum.cost < Cap - total
      /\ total \in Nat /\ Cap \in Nat
  BY EvalAssumption DEF EvalAssumption, EvalInv, TypeOK, OptInv, EvaluateItem, Remaining
<1>2. Current \in Candidate /\ Current.sum \in Sum /\ Current.sum.cost \in Nat
  BY <1>1, CurrentType DEF Sum
<1> PICK pass \in BOOLEAN, spent \in Costs :
        LET sum == Add(Current.sum, pass, spent)
            stop == sum.cost >= Remaining
        IN  /\ ReplaceCurrent([Current EXCEPT !.sum = sum,
                                  !.eval = IF stop THEN "stopped_cost_cap" ELSE @])
            /\ opt' = IF stop \/ sum.runs = Cardinality(Items) THEN "judge" ELSE "evaluate"
  BY DEF EvaluateItem
<1> DEFINE sum == Add(Current.sum, pass, spent)
           stop == sum.cost >= Remaining
           c == [Current EXCEPT !.sum = sum, !.eval = IF stop THEN "stopped_cost_cap" ELSE @]
<1>3. spent \in Nat /\ spent <= MaxCost /\ MaxCost \in Nat
  BY MaxCostType, EvalAssumption DEF EvalAssumption
<1>4. sum \in Sum /\ sum.cost = Current.sum.cost + spent
  BY <1>2, <1>3, AddType
<1>5. /\ ReplaceCurrent(c)
      /\ opt' \in {"evaluate", "judge"} /\ (opt' = "evaluate" => ~stop)
  OBVIOUS
<1>6. c \in Candidate /\ c.sum = sum
  <2> HIDE DEF sum, stop
  <2> QED
    BY <1>2, <1>4 DEF Candidate, EvalStates
<1> HIDE DEF c, sum
<1>7. cands' \in Seq(Candidate) /\ cands' # <<>> /\ Current' = c
  BY <1>1, <1>5, <1>6, ReplaceCurrentType
<1>8. total' = total
  BY DEF EvaluateItem
<1>9. OptInv'
  <2>1. sum.cost \in Nat
    BY <1>4 DEF Sum
  <2>2. opt' = "evaluate" => sum.cost < Cap - total
    BY <1>1, <1>5, <2>1 DEF Remaining
  <2>3. total + sum.cost < Cap + MaxCost
    BY <1>1, <1>2, <1>3, <1>4, <2>1
  <2>4. total < Cap + MaxCost
    BY DEF EvalInv, OptInv
  <2> QED
    BY <1>5, <1>6, <1>7, <1>8, <2>2, <2>3, <2>4 DEF OptInv, Remaining
<1> QED
  BY <1>5, <1>7, <1>8, <1>9, OptSuffices DEF EvaluateItem, OptStates, EvalInv, TypeOK

LEMMA JudgeKeeps == EvalInv /\ Judge => EvalInv'
<1> SUFFICES ASSUME EvalInv, Judge PROVE EvalInv'
  OBVIOUS
<1>1. /\ cands \in Seq(Candidate) /\ cands # <<>> /\ total \in Nat
      /\ total + Current.sum.cost < Cap + MaxCost
  BY DEF EvalInv, TypeOK, OptInv, Judge
<1>2. Current \in Candidate /\ Current.sum.cost \in Nat
  BY <1>1, CurrentType DEF Sum
<1> DEFINE regression == RegressionAgainst(Current.sum)
           c == [Current EXCEPT !.regression = regression,
                                !.eval = IF @ = "running" THEN "ok" ELSE @]
<1>3. ReplaceCurrent(c)
  BY DEF Judge
<1>4. c \in Candidate
  <2>1. regression \in BOOLEAN
    BY DEF RegressionAgainst, Regresses
  <2> HIDE DEF regression
  <2> QED
    BY <1>2, <2>1 DEF Candidate, EvalStates
<1> HIDE DEF c
<1>5. cands' \in Seq(Candidate)
  BY <1>1, <1>3, <1>4, ReplaceCurrentType
<1>6. opt' \in {"generate", "rank"} /\ total' = total + Current.sum.cost
  BY AfterCandidateType DEF Judge
<1>7. OptInv'
  BY <1>1, <1>6 DEF OptInv
<1> QED
  BY <1>1, <1>2, <1>5, <1>6, <1>7, OptSuffices DEF Judge, OptStates

LEMMA OtherOptKeeps == EvalInv /\ (StartOptimization \/ Rank \/ Fail) => EvalInv'
<1> SUFFICES ASSUME EvalInv, StartOptimization \/ Rank \/ Fail PROVE EvalInv'
  OBVIOUS
<1>1. opt' \in {"generate", "done", "failed"} /\ UNCHANGED <<cands, total>>
  BY DEF StartOptimization, Rank, Fail
<1>2. OptInv'
  BY <1>1 DEF EvalInv, OptInv
<1> QED
  BY <1>1, <1>2, OptSuffices DEF StartOptimization, Rank, Fail, OptStates, EvalInv, TypeOK

-----------------------------------------------------------------------------
(* The dataset eval.                                                       *)

\* What a step of the dataset eval must keep.
LEMMA DatasetSuffices ==
    ASSUME EvalInv, UNCHANGED <<version, newer, baseline, cli, opt, cands, total, moved>>,
           dataset' \in Dataset, DatasetInv'
    PROVE  EvalInv'
<1>1. TypeOK'
  BY DEF EvalInv, TypeOK
<1>2. CliInv' /\ BaselineInv' /\ OptInv'
  BY DEF EvalInv, CliInv, BaselineInv, OptInv, Current, Remaining
<1> QED
  BY <1>1, <1>2 DEF EvalInv

LEMMA RowEndsKeeps ==
    ASSUME EvalInv, NEW i \in Items, RowEnds(i)
    PROVE  EvalInv'
<1> PICK cut \in {{}} \union {c \in {{i}} : dataset.cancelled} :
        dataset' = [dataset EXCEPT !.left = @ \ {i}, !.cut = @ \union cut]
  BY DEF RowEnds
<1>1. cut \in SUBSET Items /\ (cut # {} => dataset.cancelled)
  OBVIOUS
<1>2. dataset' \in Dataset
  BY <1>1 DEF EvalInv, TypeOK, Dataset
<1>3. DatasetInv'
  BY <1>1 DEF EvalInv, TypeOK, Dataset, DatasetInv, RowEnds
<1> QED
  BY <1>2, <1>3, DatasetSuffices DEF RowEnds, optVars

LEMMA ScoreRowKeeps ==
    ASSUME EvalInv, NEW i \in Items, ScoreRow(i)
    PROVE  EvalInv'
<1> PICK n \in 0..MaxRanked : \E ranked \in [1..n -> Gallery] :
        dataset' = [dataset EXCEPT !.unscored = @ \ {i}, !.ranked = ranked,
                       !.passes = @ + Cmc(ranked, 1),
                       !.status = IF i \in dataset.cut THEN "cancelled" ELSE @]
  BY DEF ScoreRow
<1> PICK ranked \in [1..n -> Gallery] :
        dataset' = [dataset EXCEPT !.unscored = @ \ {i}, !.ranked = ranked,
                       !.passes = @ + Cmc(ranked, 1),
                       !.status = IF i \in dataset.cut THEN "cancelled" ELSE @]
  OBVIOUS
<1> DEFINE hit == Cmc(ranked, 1)
           status == IF i \in dataset.cut THEN "cancelled" ELSE dataset.status
<1>1. ranked \in Seq(Gallery)
  <2>1. n \in Nat
    BY EvalAssumption DEF EvalAssumption
  <2> QED
    BY <2>1
<1>2. hit \in Nat
  BY DEF Cmc
<1>3. status \in {"cancelled", dataset.status}
  OBVIOUS
<1>4. dataset' = [dataset EXCEPT !.unscored = @ \ {i}, !.ranked = ranked,
                     !.passes = @ + hit, !.status = status]
  OBVIOUS
<1> HIDE DEF hit, status
<1>5. dataset' \in Dataset
  <2>1. dataset \in Dataset
    BY DEF EvalInv, TypeOK
  <2>2. /\ dataset.unscored \ {i} \in SUBSET Items
        /\ dataset.passes + hit \in Nat
        /\ status \in {"none", "ok", "cancelled"}
    BY <1>2, <1>3, <2>1 DEF Dataset
  <2>3. dataset' = [dataset EXCEPT !.unscored = dataset.unscored \ {i}, !.ranked = ranked,
                       !.passes = dataset.passes + hit, !.status = status]
    BY <1>4
  <2>4. [dataset EXCEPT !.unscored = dataset.unscored \ {i}, !.ranked = ranked,
                        !.passes = dataset.passes + hit, !.status = status] \in Dataset
    BY <1>1, <2>1, <2>2, DatasetType
  <2> QED
    BY <2>3, <2>4
<1>6. DatasetInv'
  BY <1>3, <1>4 DEF EvalInv, TypeOK, Dataset, DatasetInv, ScoreRow
<1> QED
  BY <1>5, <1>6, DatasetSuffices DEF ScoreRow, optVars

LEMMA OtherDatasetKeeps ==
    EvalInv /\ (StartDataset \/ CancelDataset \/ BatchDone \/ WriteDataset) => EvalInv'
<1> SUFFICES ASSUME EvalInv, StartDataset \/ CancelDataset \/ BatchDone \/ WriteDataset
             PROVE  EvalInv'
  OBVIOUS
<1>1. CASE StartDataset
  <2>1. dataset' \in Dataset /\ DatasetInv'
    BY <1>1 DEF EvalInv, TypeOK, Dataset, DatasetInv, StartDataset
  <2> QED
    BY <1>1, <2>1, DatasetSuffices DEF StartDataset, optVars
<1>2. CASE CancelDataset
  <2>1. dataset' \in Dataset /\ DatasetInv'
    BY <1>2 DEF EvalInv, TypeOK, Dataset, DatasetInv, CancelDataset
  <2> QED
    BY <1>2, <2>1, DatasetSuffices DEF CancelDataset, optVars
<1>3. CASE BatchDone
  <2>1. dataset' \in Dataset /\ DatasetInv'
    BY <1>3 DEF EvalInv, TypeOK, Dataset, DatasetInv, BatchDone
  <2> QED
    BY <1>3, <2>1, DatasetSuffices DEF BatchDone, optVars
<1>4. CASE WriteDataset
  <2>1. dataset' \in Dataset /\ DatasetInv'
    BY <1>4 DEF EvalInv, TypeOK, Dataset, DatasetInv, WriteDataset
  <2> QED
    BY <1>4, <2>1, DatasetSuffices DEF WriteDataset, optVars
<1> QED
  BY <1>1, <1>2, <1>3, <1>4

-----------------------------------------------------------------------------
LEMMA NextKeeps == EvalInv /\ [Next]_vars => EvalInv'
<1> SUFFICES ASSUME EvalInv, [Next]_vars PROVE EvalInv'
  OBVIOUS
<1>1. CASE \E f \in Files : Edit(f)
  BY <1>1, EditKeeps
<1>2. CASE CliStep
  BY <1>2, StartEvalKeeps, ItemEndsKeeps, ItemPausesKeeps, DecideKeeps, CancelEvalKeeps,
     ReportKeeps, OpenBaselineKeeps, WriteBaselineKeeps DEF CliStep
<1>3. CASE OptStep
  BY <1>3, OtherOptKeeps, GenerateKeeps, AdmitKeeps, EvaluateItemKeeps, JudgeKeeps DEF OptStep
<1>4. CASE DatasetStep
  BY <1>4, OtherDatasetKeeps, RowEndsKeeps, ScoreRowKeeps DEF DatasetStep
<1>5. CASE UNCHANGED vars
  <2>1. UNCHANGED <<version, newer, baseline, cli, opt, cands, total, moved, dataset>>
    BY <1>5 DEF vars, optVars
  <2>2. CliInv' /\ BaselineInv' /\ moved' \in BOOLEAN
    BY <2>1 DEF EvalInv, CliInv, BaselineInv, TypeOK
  <2> QED
    BY <2>1, <2>2, CliSuffices DEF EvalInv, TypeOK
<1> QED
  BY <1>1, <1>2, <1>3, <1>4, <1>5 DEF Next

LEMMA EvalInvariant == Spec => []EvalInv
BY InitEval, NextKeeps, PTL DEF Spec

\* Every reachable state is well typed.
THEOREM TypeCorrect == Spec => []TypeOK
<1>1. EvalInv => TypeOK
  BY DEF EvalInv
<1> QED
  BY <1>1, EvalInvariant, PTL

\* The cost counted for all candidates passes the cap by less than one run
\* (GraphOptimizer.optimize, _evaluate_candidate).
THEOREM CapIsShared == Spec => []CapHolds
<1>1. EvalInv => CapHolds
  <2> SUFFICES ASSUME EvalInv PROVE CapHolds
    OBVIOUS
  <2>1. total \in Nat /\ Cap \in Nat /\ MaxCost \in Nat
    BY MaxCostType, EvalAssumption DEF EvalInv, TypeOK, EvalAssumption
  <2>2. CASE opt \in {"evaluate", "judge"}
    <3>1. Current.sum.cost \in Nat
      BY <2>2, CurrentType DEF EvalInv, TypeOK, OptInv, Sum
    <3> QED
      BY <2>1, <2>2, <3>1 DEF EvalInv, OptInv, CapHolds, Remaining
  <2>3. CASE opt \notin {"evaluate", "judge"}
    BY <2>1, <2>3 DEF EvalInv, OptInv, CapHolds
  <2> QED
    BY <2>2, <2>3
<1> QED
  BY <1>1, EvalInvariant, PTL

\* What is reported as "ok" or becomes the baseline has a result of its own run
\* for every item (EvalHarness.run_eval, run_dataset_eval).
THEOREM OnlyWholeEvalsCount == Spec => []EvidenceIsWhole
<1>1. EvalInv => EvidenceIsWhole
  BY DEF EvalInv, BaselineInv, CliInv, DatasetInv, EvidenceIsWhole
<1> QED
  BY <1>1, EvalInvariant, PTL

\* A baseline that is called fresh measured the files of today
\* (_workflow_eval_quality).
THEOREM FreshBaselines == Spec => []FreshMeansMeasured
<1>1. EvalInv => FreshMeansMeasured
  BY DEF EvalInv, TypeOK, BaselineInv, FreshMeansMeasured, Quality
<1> QED
  BY <1>1, EvalInvariant, PTL

-----------------------------------------------------------------------------
(* The recommendation. A candidate behind the current one is judged: what   *)
(* it reports as "ok" was measured on every item and compared with the      *)
(* baseline, which is still the same unless it has moved.                   *)

Judged(c) ==
    c.valid =>
        /\ c.eval \in {"ok", "stopped_cost_cap", "skipped_cost_cap"}
        /\ c.eval = "ok" =>
              /\ c.sum.runs = Cardinality(Items)
              /\ ~moved => c.regression = RegressionAgainst(c.sum)

RankInv ==
    /\ opt = "idle" => cands = <<>>
    /\ \A k \in DOMAIN cands :
          k < Len(cands) \/ opt \in {"generate", "rank", "done"} => Judged(cands[k])
    /\ opt = "evaluate" => Current.eval = "running"
    /\ opt = "judge" => \/ Current.eval = "stopped_cost_cap"
                        \/ Current.eval = "running" /\ Current.sum.runs = Cardinality(Items)

LEMMA InitRank == Init => RankInv
BY DEF Init, RankInv

\* A step that neither looks at the candidates nor moves the baseline unseen.
LEMMA OthersKeepRank ==
    ASSUME RankInv, UNCHANGED <<opt, cands>>,
           UNCHANGED <<baseline, moved>> \/ (opt # "idle" => moved')
    PROVE  RankInv'
<1>1. Current' = Current
  BY DEF Current
<1>2. ASSUME NEW k \in DOMAIN cands, Judged(cands[k])
      PROVE  Judged(cands[k])'
  <2>1. CASE UNCHANGED <<baseline, moved>>
    BY <1>2, <2>1 DEF Judged, RegressionAgainst
  <2>2. CASE opt # "idle" => moved'
    <3>1. cands # <<>>
      BY <1>2
    <3>2. moved'
      BY <2>2, <3>1 DEF RankInv
    <3> QED
      BY <1>2, <3>2 DEF Judged
  <2> QED
    BY <2>1, <2>2
<1> QED
  BY <1>1, <1>2 DEF RankInv

\* The candidates before the last stay judged when the last one is replaced.
LEMMA ReplaceKeepsRank ==
    ASSUME cands \in Seq(Candidate), cands # <<>>, RankInv, NEW c \in Candidate,
           ReplaceCurrent(c), UNCHANGED <<baseline, moved>>,
           opt' \in {"generate", "rank"} => Judged(c),
           opt' = "evaluate" => c.eval = "running",
           opt' = "judge" => \/ c.eval = "stopped_cost_cap"
                             \/ c.eval = "running" /\ c.sum.runs = Cardinality(Items),
           opt' \in {"generate", "rank", "evaluate", "judge"}
    PROVE  RankInv'
<1>1. /\ cands' = [cands EXCEPT ![Len(cands)] = c]
      /\ Len(cands) \in DOMAIN cands /\ DOMAIN cands = 1..Len(cands)
  BY DEF ReplaceCurrent
<1>2. /\ DOMAIN cands' = DOMAIN cands /\ Len(cands') = Len(cands)
      /\ Current' = c
  BY <1>1 DEF Current
<1>3. ASSUME NEW k \in DOMAIN cands',
             k < Len(cands') \/ opt' \in {"generate", "rank", "done"}
      PROVE  Judged(cands[k])'
  <2>1. Judged(c) => Judged(c)'
    BY DEF Judged, RegressionAgainst
  <2>2. CASE k = Len(cands)
    <3>1. cands'[k] = c /\ Judged(c)
      BY <1>1, <1>2, <1>3, <2>2
    <3> QED
      BY <2>1, <3>1 DEF Judged, RegressionAgainst
  <2>3. CASE k # Len(cands)
    <3>1. k \in DOMAIN cands /\ k < Len(cands) /\ cands'[k] = cands[k]
      BY <1>1, <1>2, <2>3
    <3>2. Judged(cands[k])
      BY <3>1 DEF RankInv
    <3> QED
      BY <3>1, <3>2 DEF Judged, RegressionAgainst
  <2> QED
    BY <2>2, <2>3
<1> QED
  BY <1>2, <1>3 DEF RankInv

LEMMA GenerateRank ==
    ASSUME EvalInv, RankInv, Generate
    PROVE  RankInv'
<1> PICK valid \in BOOLEAN :
        /\ cands' = Append(cands, Untried(valid))
        /\ opt' = IF valid THEN "admit" ELSE AfterCandidate
  BY DEF Generate
<1>1. /\ cands \in Seq(Candidate) /\ opt = "generate"
      /\ UNCHANGED <<baseline, moved>>
  BY DEF Generate, EvalInv, TypeOK
<1>2. opt' \in {"admit", "generate", "rank"} /\ (opt' # "admit" => ~valid)
  BY AfterCandidateType
<1>3. /\ Len(cands') = Len(cands) + 1 /\ DOMAIN cands' = 1..(Len(cands) + 1)
      /\ \A k \in DOMAIN cands : cands'[k] = cands[k]
      /\ cands'[Len(cands) + 1] = Untried(valid)
  BY <1>1
<1>4. ASSUME NEW k \in DOMAIN cands',
             k < Len(cands') \/ opt' \in {"generate", "rank", "done"}
      PROVE  Judged(cands[k])'
  <2>1. CASE k \in DOMAIN cands
    <3>1. Judged(cands[k]) /\ cands'[k] = cands[k]
      BY <1>1, <1>3, <2>1 DEF RankInv
    <3> QED
      BY <1>1, <3>1 DEF Judged, RegressionAgainst
  <2>2. CASE k \notin DOMAIN cands
    <3>1. k = Len(cands) + 1
      BY <1>1, <1>3, <2>2
    <3>2. ~valid /\ cands'[k] = Untried(valid)
      BY <1>2, <1>3, <1>4, <3>1
    <3> QED
      BY <3>2 DEF Judged, Untried
  <2> QED
    BY <2>1, <2>2
<1> QED
  BY <1>2, <1>4 DEF RankInv

LEMMA AdmitRank ==
    ASSUME EvalInv, RankInv, Admit
    PROVE  RankInv'
<1>1. /\ cands \in Seq(Candidate) /\ cands # <<>> /\ Current.sum = Zero
      /\ UNCHANGED <<baseline, moved>>
  BY DEF EvalInv, TypeOK, OptInv, Admit
<1>2. Current \in Candidate
  BY <1>1, CurrentType
<1>3. CASE Remaining <= 0
  <2> DEFINE c == [Current EXCEPT !.eval = "skipped_cost_cap"]
  <2>1. c \in Candidate /\ c.eval = "skipped_cost_cap"
    BY <1>2 DEF Candidate, EvalStates
  <2>2. ReplaceCurrent(c) /\ opt' \in {"generate", "rank"}
    BY <1>3, AfterCandidateType DEF Admit
  <2> HIDE DEF c
  <2> QED
    BY <1>1, <2>1, <2>2, ReplaceKeepsRank DEF Judged
<1>4. CASE ~(Remaining <= 0)
  <2> DEFINE c == [Current EXCEPT !.eval = "running"]
  <2>1. c \in Candidate /\ c.eval = "running" /\ c.sum = Zero
    BY <1>1, <1>2 DEF Candidate, EvalStates
  <2>2. ReplaceCurrent(c) /\ opt' = IF Items = {} THEN "judge" ELSE "evaluate"
    BY <1>4 DEF Admit
  <2>3. opt' = "judge" => c.sum.runs = Cardinality(Items)
    BY <2>1, <2>2, FS_EmptySet DEF Zero
  <2> HIDE DEF c
  <2> QED
    BY <1>1, <2>1, <2>2, <2>3, ReplaceKeepsRank
<1> QED
  BY <1>3, <1>4

LEMMA EvaluateItemRank ==
    ASSUME EvalInv, RankInv, EvaluateItem
    PROVE  RankInv'
<1>1. /\ cands \in Seq(Candidate) /\ cands # <<>>
      /\ UNCHANGED <<baseline, moved>> /\ Current.eval = "running"
  BY DEF EvalInv, TypeOK, OptInv, EvaluateItem, RankInv
<1>2. Current \in Candidate /\ Current.sum \in Sum
  BY <1>1, CurrentType
<1> PICK pass \in BOOLEAN, spent \in Costs :
        LET sum == Add(Current.sum, pass, spent)
            stop == sum.cost >= Remaining
        IN  /\ ReplaceCurrent([Current EXCEPT !.sum = sum,
                                  !.eval = IF stop THEN "stopped_cost_cap" ELSE @])
            /\ opt' = IF stop \/ sum.runs = Cardinality(Items) THEN "judge" ELSE "evaluate"
  BY DEF EvaluateItem
<1> DEFINE sum == Add(Current.sum, pass, spent)
           stop == sum.cost >= Remaining
           c == [Current EXCEPT !.sum = sum, !.eval = IF stop THEN "stopped_cost_cap" ELSE @]
<1>3. sum \in Sum
  BY <1>2, AddType, EvalAssumption DEF EvalAssumption
<1>4. /\ ReplaceCurrent(c)
      /\ opt' = IF stop \/ sum.runs = Cardinality(Items) THEN "judge" ELSE "evaluate"
  OBVIOUS
<1>5. /\ c \in Candidate /\ c.sum = sum
      /\ c.eval = IF stop THEN "stopped_cost_cap" ELSE "running"
  <2> HIDE DEF sum, stop
  <2> QED
    BY <1>1, <1>2, <1>3 DEF Candidate, EvalStates
<1> HIDE DEF c, sum, stop
<1> QED
  BY <1>1, <1>4, <1>5, ReplaceKeepsRank

LEMMA JudgeRank ==
    ASSUME EvalInv, RankInv, Judge
    PROVE  RankInv'
<1>1. /\ cands \in Seq(Candidate) /\ cands # <<>>
      /\ UNCHANGED <<baseline, moved>>
      /\ \/ Current.eval = "stopped_cost_cap"
         \/ Current.eval = "running" /\ Current.sum.runs = Cardinality(Items)
  BY DEF EvalInv, TypeOK, OptInv, Judge, RankInv
<1>2. Current \in Candidate
  BY <1>1, CurrentType
<1> DEFINE regression == RegressionAgainst(Current.sum)
           c == [Current EXCEPT !.regression = regression,
                                !.eval = IF @ = "running" THEN "ok" ELSE @]
<1>3. ReplaceCurrent(c) /\ opt' \in {"generate", "rank"}
  BY AfterCandidateType DEF Judge
<1>4. regression \in BOOLEAN
  BY DEF RegressionAgainst, Regresses
<1>5. /\ c \in Candidate /\ c.sum = Current.sum /\ c.regression = regression
      /\ c.eval = IF Current.eval = "running" THEN "ok" ELSE Current.eval
  <2> HIDE DEF regression
  <2> QED
    BY <1>2, <1>4 DEF Candidate, EvalStates
<1>6. regression = RegressionAgainst(Current.sum)
  OBVIOUS
<1> HIDE DEF c, regression
<1>7. Judged(c)
  BY <1>1, <1>5, <1>6 DEF Judged
<1> QED
  BY <1>1, <1>3, <1>5, <1>7, ReplaceKeepsRank

LEMMA NextRank == EvalInv /\ RankInv /\ [Next]_vars => RankInv'
<1> SUFFICES ASSUME EvalInv, RankInv, [Next]_vars PROVE RankInv'
  OBVIOUS
<1>1. CASE StartOptimization \/ Rank \/ Fail
  <2>1. /\ opt' \in {"generate", "done", "failed"}
        /\ UNCHANGED <<cands, baseline, moved>>
        /\ opt' = "done" => opt = "rank"
        /\ opt' = "generate" => cands = <<>>
    BY <1>1 DEF StartOptimization, Rank, Fail, RankInv
  <2>2. \A k \in DOMAIN cands : Judged(cands[k]) => Judged(cands[k])'
    BY <2>1 DEF Judged, RegressionAgainst
  <2> QED
    BY <2>1, <2>2 DEF RankInv
<1>2. CASE OptStep
  BY <1>1, <1>2, GenerateRank, AdmitRank, EvaluateItemRank, JudgeRank DEF OptStep
<1>3. CASE OpenBaseline \/ WriteBaseline
  <2>1. UNCHANGED <<opt, cands>> /\ (opt # "idle" => moved')
    BY <1>3 DEF OpenBaseline, WriteBaseline
  <2> QED
    BY <2>1, OthersKeepRank
<1>4. CASE UNCHANGED <<opt, cands, baseline, moved>>
  BY <1>4, OthersKeepRank
<1>5. CASE \/ CliStep /\ ~OpenBaseline /\ ~WriteBaseline
           \/ DatasetStep
           \/ \E f \in Files : Edit(f)
           \/ UNCHANGED vars
  BY <1>4, <1>5 DEF CliStep, DatasetStep, Edit, vars, optVars, StartEval, ItemEnds,
     ItemPauses, ItemCancelled, CancelEval, Decide, Report, Kill, StartDataset, RowEnds,
     CancelDataset, BatchDone, ScoreRow, WriteDataset
<1> QED
  BY <1>2, <1>3, <1>5 DEF Next

\* Cross-multiplied by one number of runs, values compare as they are.
LEMMA SameRuns ==
    ASSUME NEW a \in Nat, NEW b \in Nat, NEW n \in Nat, n > 0
    PROVE  /\ a * n - b * n > 0 <=> a > b
           /\ a * n - b * n = 0 <=> a = b
           /\ a * n - b * n < 0 <=> a < b
<1>1. a * n - b * n = (a - b) * n
  OBVIOUS
<1>2. \A d \in Int : (d > 0 => d * n > 0) /\ (d < 0 => d * n < 0) /\ (d = 0 => d * n = 0)
  OBVIOUS
<1>3. a - b \in Int
  OBVIOUS
<1> QED
  BY <1>1, <1>2, <1>3

\* The optimization that reports "ok" recommends a candidate that none of the
\* valid ones betters, each measured on every item (_rank_key, GraphOptimizer).
THEOREM BestIsRecommended == Spec => []RecommendationStands
<1>1. EvalInv /\ RankInv => RecommendationStands
  <2> SUFFICES ASSUME EvalInv, RankInv, opt = "done", ReportStatus = "ok",
                      NEW k \in DOMAIN cands, cands[k].valid
               PROVE  /\ cands[k].sum.runs = Cardinality(Items)
                      /\ ~moved => \E r \in Recommended :
                            LET regresses(j) ==
                                    baseline \in Baseline /\ Regresses(cands[j].sum, baseline.sum)
                                asGood(a, b) ==
                                    a.passes > b.passes
                                        \/ (a.passes = b.passes /\ a.cost <= b.cost)
                            IN  \/ regresses(k) /\ ~regresses(r)
                                \/ /\ regresses(k) = regresses(r)
                                   /\ asGood(cands[r].sum, cands[k].sum)
    BY DEF RecommendationStands
  <2>1. /\ \A j \in DOMAIN cands :
              cands[j].eval \notin {"stopped_cost_cap", "skipped_cost_cap"}
        /\ Recommended # {}
    BY DEF ReportStatus
  <2>2. ASSUME NEW j \in DOMAIN cands, cands[j].valid
        PROVE  /\ cands[j].sum.runs = Cardinality(Items)
               /\ ~moved => cands[j].regression = RegressionAgainst(cands[j].sum)
               /\ cands[j] \in Candidate
    <3>1. Judged(cands[j])
      BY DEF RankInv
    <3>2. cands[j] \in Candidate
      BY DEF EvalInv, TypeOK
    <3> QED
      BY <2>1, <2>2, <3>1, <3>2 DEF Judged
  <2>3. PICK r \in Recommended : TRUE
    BY <2>1
  <2>4. r \in DOMAIN cands /\ cands[r].valid /\ cands[r].sum.runs > 0
    BY DEF Recommended, Rankable
  <2> DEFINE n == Cardinality(Items)
             a == cands[r].sum
             b == cands[k].sum
  <2>5. n \in Nat /\ a.runs = n /\ b.runs = n /\ n > 0 /\ k \in Rankable
    BY <2>2, <2>4, ItemsFinite DEF Rankable
  <2>6. a.passes \in Nat /\ b.passes \in Nat /\ a.cost \in Nat /\ b.cost \in Nat
    BY <2>2, <2>4 DEF Candidate, Sum
  <2>7. ASSUME ~moved
        PROVE  \/ RegressionAgainst(b) /\ ~RegressionAgainst(a)
               \/ /\ RegressionAgainst(b) = RegressionAgainst(a)
                  /\ a.passes > b.passes \/ (a.passes = b.passes /\ a.cost <= b.cost)
    <3>1. CASE k = r
      BY <2>6, <3>1
    <3>2. CASE k # r
      <4>1. Before(r, k)
        BY <2>5, <3>2 DEF Recommended
      <4>2. \/ ~cands[r].regression /\ cands[k].regression
            \/ /\ cands[r].regression = cands[k].regression
               /\ \/ a.passes * n - b.passes * n > 0
                  \/ /\ a.passes * n - b.passes * n = 0
                     /\ a.cost * n - b.cost * n < 0 \/ a.cost * n - b.cost * n = 0
        BY <2>5, <4>1 DEF Before
      <4>3. \/ ~cands[r].regression /\ cands[k].regression
            \/ /\ cands[r].regression = cands[k].regression
               /\ a.passes > b.passes \/ (a.passes = b.passes /\ a.cost <= b.cost)
        BY <2>5, <2>6, <4>2, SameRuns
      <4>4. /\ cands[r].regression = RegressionAgainst(a)
            /\ cands[k].regression = RegressionAgainst(b)
        BY <2>2, <2>4, <2>7
      <4> QED
        BY <4>3, <4>4
    <3> QED
      BY <3>1, <3>2
  <2> QED
    BY <2>2, <2>7 DEF RegressionAgainst
<1> QED
  BY <1>1, InitEval, NextKeeps, InitRank, NextRank, PTL DEF Spec

-----------------------------------------------------------------------------
(* The metrics of a ranking. Its hits are told apart by the relevant items  *)
(* they place, and the hits up to a place are at most as many as its rank.  *)

Upto(S, n) == S \intersect (1..n)

\* The places of a ranking and those among them that count.
LEMMA PlacesCount ==
    ASSUME NEW r \in Seq(Gallery)
    PROVE  /\ Filtered(r) \subseteq DOMAIN r /\ DOMAIN r \subseteq Nat \ {0}
           /\ IsFiniteSet(Filtered(r)) /\ Hits(r) \subseteq Filtered(r) /\ IsFiniteSet(Hits(r))
           /\ \A n \in Filtered(r) : n \in Hits(r) <=> r[n] \in Relevant
<1>1. DOMAIN r = 1..Len(r) /\ Len(r) \in Nat
  OBVIOUS
<1>2. IsFiniteSet(1..Len(r))
  BY <1>1, FS_Interval
<1>3. Filtered(r) \subseteq DOMAIN r /\ Hits(r) \subseteq Filtered(r)
  BY DEF Filtered, Hits
<1>4. IsFiniteSet(Filtered(r)) /\ IsFiniteSet(Hits(r))
  BY <1>1, <1>2, <1>3, FS_Subset
<1>5. ASSUME NEW n \in Filtered(r)
      PROVE  n \in Hits(r) <=> r[n] \in Relevant
  <2>1. r[n] \in Gallery
    BY <1>3
  <2>2. ~Junk(r[n])
    BY DEF Filtered
  <2> QED
    BY <2>1, <2>2 DEF Hits, Relevant, Junk
<1> QED
  BY <1>1, <1>3, <1>4, <1>5

\* Of the places up to one that counts, some are hits; that are all of them exactly
\* when their number is the rank.
LEMMA RankBounds ==
    ASSUME NEW r \in Seq(Gallery), NEW n \in Filtered(r)
    PROVE  /\ FilteredRank(r, n) \in Nat \ {0}
           /\ Cardinality(Upto(Hits(r), n)) \in 0..FilteredRank(r, n)
           /\ Cardinality(Upto(Hits(r), n)) = FilteredRank(r, n)
                 <=> Upto(Filtered(r), n) \subseteq Hits(r)
<1> DEFINE K == Upto(Filtered(r), n)
           H == Upto(Hits(r), n)
<1>1. /\ Filtered(r) \subseteq Nat \ {0} /\ IsFiniteSet(Filtered(r))
      /\ Hits(r) \subseteq Filtered(r)
  BY PlacesCount
<1>2. IsFiniteSet(K) /\ H \subseteq K /\ n \in K
  <2>1. K \subseteq Filtered(r) /\ H \subseteq K
    BY <1>1 DEF Upto
  <2>2. n \in 1..n
    BY <1>1
  <2> QED
    BY <1>1, <2>1, <2>2, FS_Subset DEF Upto
<1>3. /\ IsFiniteSet(H) /\ Cardinality(H) <= Cardinality(K)
      /\ Cardinality(K) = Cardinality(H) => H = K
  BY <1>2, FS_Subset
<1>4. Cardinality(H) \in Nat /\ Cardinality(K) \in Nat /\ Cardinality(K) # 0
  BY <1>2, <1>3, FS_CardinalityType, FS_EmptySet
<1>5. FilteredRank(r, n) = Cardinality(K)
  BY DEF FilteredRank, Upto
<1>6. H = K <=> K \subseteq Hits(r)
  BY <1>2 DEF Upto
<1> HIDE DEF H, K
<1>7. /\ FilteredRank(r, n) \in Nat \ {0}
      /\ Cardinality(H) \in 0..FilteredRank(r, n)
      /\ Cardinality(H) = FilteredRank(r, n) <=> K \subseteq Hits(r)
  BY <1>3, <1>4, <1>5, <1>6
<1> QED
  BY <1>7 DEF H, K

\* A fraction of at most 1, in units of 1 / b.
LEMMA FractionBound ==
    ASSUME NEW k \in Nat \ {0}, NEW h \in 0..k
    PROVE  (12 * h) \div k \in 0..12 /\ ((12 * h) \div k = 12 <=> h = k)
<1> DEFINE q == (12 * h) \div k
<1>1. q \in Int /\ k * q <= 12 * h /\ 12 * h < k * q + k
  OBVIOUS
<1> HIDE DEF q
<1>2. q >= 0
  <2>1. q <= -1 => k * q <= -k
    BY <1>1
  <2> QED
    BY <1>1, <2>1
<1>3. q <= 12
  <2>1. q >= 13 => k * q >= 13 * k
    BY <1>1
  <2> QED
    BY <1>1, <2>1
<1>4. q = 12 => h = k
  BY <1>1
<1>5. h = k => q = 12
  <2>1. q <= 11 => k * q <= 11 * k
    BY <1>1
  <2> QED
    BY <1>1, <1>3, <2>1
<1> QED
  BY <1>1, <1>2, <1>3, <1>4, <1>5 DEF q

\* The precision at a hit is at most 1, and 1 when nothing but hits comes before it.
LEMMA PrecisionBound ==
    ASSUME NEW r \in Seq(Gallery), NEW n \in Hits(r)
    PROVE  /\ Precision(r, n) \in 0..Scale
           /\ Precision(r, n) = Scale <=> Upto(Filtered(r), n) \subseteq Hits(r)
<1> DEFINE k == FilteredRank(r, n)
           h == Cardinality(Upto(Hits(r), n))
<1>1. n \in Filtered(r)
  BY DEF Hits
<1>2. /\ k \in Nat \ {0} /\ h \in 0..k
      /\ h = k <=> Upto(Filtered(r), n) \subseteq Hits(r)
  BY <1>1, RankBounds
<1>3. Precision(r, n) = (12 * h) \div k /\ Scale = 12
  BY DEF Precision, Scale, Upto
<1> HIDE DEF h, k
<1> QED
  BY <1>2, <1>3, FractionBound

\* The average precision is the total of the precisions at the hits.
LEMMA ApSumIsTotal ==
    ASSUME NEW r \in Seq(Gallery)
    PROVE  IsTotal([n \in Hits(r) |-> Precision(r, n)], Hits(r),
                   MapThenSumSet(LAMBDA n : Precision(r, n), Hits(r)))
<1> DEFINE C == Hits(r)
           u == [n \in C |-> Precision(r, n)]
           P(g) == g = [s \in SUBSET C |->
                          IF s = {} THEN 0
                          ELSE Precision(r, CHOOSE x \in s : TRUE)
                                  + g[s \ {CHOOSE x \in s : TRUE}]]
<1>1. ASSUME NEW g
      PROVE  P(g) <=> SumsOver(u, C, g)
  <2> DEFINE A(s) == IF s = {} THEN 0 ELSE Precision(r, Pick(s)) + g[s \ {Pick(s)}]
             B(s) == IF s = {} THEN 0 ELSE u[Pick(s)] + g[s \ {Pick(s)}]
  <2>1. \A s \in SUBSET C : A(s) = B(s)
    BY PickIn
  <2>2. P(g) <=> g = [s \in SUBSET C |-> A(s)]
    BY DEF Pick
  <2>3. SumsOver(u, C, g) <=> g = [s \in SUBSET C |-> B(s)]
    BY DEF SumsOver
  <2> HIDE DEF A, B
  <2>4. [s \in SUBSET C |-> A(s)] = [s \in SUBSET C |-> B(s)]
    BY <2>1
  <2> QED
    BY <2>2, <2>3, <2>4
<1>2. MapThenSumSet(LAMBDA n : Precision(r, n), C) = (CHOOSE g : P(g))[C]
  BY DEF MapThenSumSet, MapThenFoldSet
<1> HIDE DEF P, u
<1>3. IsFiniteSet(C)
  BY PlacesCount
<1>4. (CHOOSE g : P(g)) = CHOOSE g : SumsOver(u, C, g)
  BY <1>1
<1>5. IsTotal(u, C, MapThenSumSet(LAMBDA n : Precision(r, n), C))
  BY <1>2, <1>3, <1>4, ChosenTotal
<1> QED
  BY <1>5 DEF u

Unrepeated(r) == \A m, n \in DOMAIN r : r[m] = r[n] => m = n

\* There are at most as many hits as relevant items, and that many when each item is
\* ranked.
LEMMA HitsBound ==
    ASSUME NEW r \in Seq(Gallery), Unrepeated(r)
    PROVE  /\ Cardinality(Hits(r)) \in Nat /\ Cardinality(Relevant) \in Nat
           /\ Cardinality(Hits(r)) <= Cardinality(Relevant)
           /\ Cardinality(Hits(r)) = Cardinality(Relevant)
                 <=> \A g \in Relevant : \E n \in Hits(r) : r[n] = g
<1> DEFINE f == [n \in Hits(r) |-> r[n]]
<1>1. IsFiniteSet(Relevant)
  BY EvalAssumption, FS_Subset DEF EvalAssumption, Relevant
<1>2. \A n \in Hits(r) : n \in DOMAIN r /\ r[n] \in Relevant
  BY PlacesCount
<1>3. f \in [Hits(r) -> Relevant]
  BY <1>2
<1>4. f \in Injection(Hits(r), Relevant)
  BY <1>2, <1>3 DEF Injection, IsInjective, Unrepeated
<1>5. /\ Cardinality(Hits(r)) <= Cardinality(Relevant)
      /\ Cardinality(Hits(r)) = Cardinality(Relevant) <=> f \in Surjection(Hits(r), Relevant)
  BY <1>1, <1>4, FS_Injection
<1>6. f \in Surjection(Hits(r), Relevant) <=> \A g \in Relevant : \E n \in Hits(r) : r[n] = g
  BY <1>3 DEF Surjection
<1>7. IsFiniteSet(Hits(r))
  BY PlacesCount
<1> QED
  BY <1>1, <1>5, <1>6, <1>7, FS_CardinalityType

First(r, k) == {n \in Filtered(r) : FilteredRank(r, n) <= k}

\* The first k places that count are at most k, and what comes before one of them is
\* one of them.
LEMMA FirstPlaces ==
    ASSUME NEW r \in Seq(Gallery), NEW k \in Nat
    PROVE  /\ IsFiniteSet(First(r, k)) /\ Cardinality(First(r, k)) <= k
           /\ \A n \in First(r, k) : Upto(Filtered(r), n) \subseteq First(r, k)
<1> DEFINE F == First(r, k)
<1>1. /\ Filtered(r) \subseteq Nat \ {0} /\ IsFiniteSet(Filtered(r))
      /\ F \subseteq Filtered(r)
  BY PlacesCount DEF First
<1>2. \A n \in Filtered(r) : /\ IsFiniteSet(Upto(Filtered(r), n))
                             /\ FilteredRank(r, n) = Cardinality(Upto(Filtered(r), n))
                             /\ FilteredRank(r, n) \in Nat
  <2> TAKE n \in Filtered(r)
  <2>1. Upto(Filtered(r), n) \subseteq Filtered(r)
    BY DEF Upto
  <2>2. FilteredRank(r, n) = Cardinality(Upto(Filtered(r), n))
    BY DEF FilteredRank, Upto
  <2> QED
    BY <1>1, <2>1, <2>2, FS_Subset, FS_CardinalityType
<1>3. ASSUME NEW n \in F, NEW m \in Upto(Filtered(r), n)
      PROVE  m \in F
  <2>1. m \in Filtered(r) /\ m <= n /\ n \in Filtered(r) /\ m \in Nat /\ n \in Nat
    BY <1>1 DEF Upto
  <2>2. Upto(Filtered(r), m) \subseteq Upto(Filtered(r), n)
    BY <2>1 DEF Upto
  <2>3. FilteredRank(r, m) <= FilteredRank(r, n)
    BY <1>2, <2>1, <2>2, FS_Subset
  <2> QED
    BY <1>2, <2>1, <2>3 DEF First
<1>4. IsFiniteSet(F)
  BY <1>1, FS_Subset
<1>5. Cardinality(F) <= k
  <2>1. CASE F = {}
    BY <2>1, FS_EmptySet
  <2>2. CASE F # {}
    <3>1. PICK n \in F : \A m \in F : m <= n
      <4>1. F \in SUBSET Nat
        BY <1>1
      <4> QED
        BY <1>4, <2>2, <4>1, Largest
    <3>2. F \subseteq Upto(Filtered(r), n)
      BY <1>1, <3>1 DEF Upto
    <3>3. Cardinality(F) <= FilteredRank(r, n)
      BY <1>1, <1>2, <3>2, FS_Subset
    <3>4. FilteredRank(r, n) <= k
      BY DEF First
    <3>5. Cardinality(F) \in Nat /\ FilteredRank(r, n) \in Nat
      BY <1>1, <1>2, <1>4, FS_CardinalityType
    <3> QED
      BY <3>3, <3>4, <3>5
  <2> QED
    BY <2>1, <2>2
<1> QED
  BY <1>3, <1>4, <1>5

\* A ranking whose hits are all preceded by hits alone, and which ranks every relevant
\* item, begins with those items, and conversely.
LEMMA LeadingHits ==
    ASSUME NEW r \in Seq(Gallery), Unrepeated(r)
    PROVE  (/\ \A n \in Hits(r) : Upto(Filtered(r), n) \subseteq Hits(r)
            /\ \A g \in Relevant : \E n \in Hits(r) : r[n] = g)
           <=> \A g \in Relevant : \E n \in First(r, Cardinality(Relevant)) : r[n] = g
<1> DEFINE R == Cardinality(Relevant)
           F == First(r, R)
<1>1. /\ Filtered(r) \subseteq DOMAIN r /\ IsFiniteSet(Hits(r)) /\ Hits(r) \subseteq Filtered(r)
      /\ \A n \in Filtered(r) : n \in Hits(r) <=> r[n] \in Relevant
  BY PlacesCount
<1>2. /\ Cardinality(Hits(r)) \in Nat /\ R \in Nat /\ Cardinality(Hits(r)) <= R
      /\ Cardinality(Hits(r)) = R <=> \A g \in Relevant : \E n \in Hits(r) : r[n] = g
  BY HitsBound
<1>3. ASSUME \A n \in Hits(r) : Upto(Filtered(r), n) \subseteq Hits(r),
             \A g \in Relevant : \E n \in Hits(r) : r[n] = g, NEW g \in Relevant
      PROVE  \E n \in F : r[n] = g
  <2>1. PICK n \in Hits(r) : r[n] = g
    BY <1>3
  <2>2. Upto(Filtered(r), n) \subseteq Hits(r)
    BY <1>3
  <2>3. Cardinality(Upto(Filtered(r), n)) <= Cardinality(Hits(r))
    BY <1>1, <2>2, FS_Subset
  <2>4. FilteredRank(r, n) = Cardinality(Upto(Filtered(r), n)) /\ Cardinality(Hits(r)) = R
    BY <1>2, <1>3 DEF FilteredRank, Upto
  <2>5. n \in F
    BY <1>1, <2>3, <2>4 DEF First
  <2> QED
    BY <2>1, <2>5
<1>4. ASSUME \A g \in Relevant : \E n \in F : r[n] = g
      PROVE  /\ \A n \in Hits(r) : Upto(Filtered(r), n) \subseteq Hits(r)
             /\ \A g \in Relevant : \E n \in Hits(r) : r[n] = g
  <2>1. F \subseteq Filtered(r)
    BY DEF First
  <2>2. \A g \in Relevant : \E n \in Hits(r) : r[n] = g
    BY <1>1, <1>4, <2>1
  <2>3. Hits(r) \subseteq F
    <3> SUFFICES ASSUME NEW n \in Hits(r) PROVE n \in F
      OBVIOUS
    <3>1. PICK m \in F : r[m] = r[n]
      BY <1>1, <1>4
    <3> QED
      BY <1>1, <2>1, <3>1 DEF Unrepeated
  <2>4. /\ IsFiniteSet(F) /\ Cardinality(F) <= R
        /\ \A n \in F : Upto(Filtered(r), n) \subseteq F
    BY <1>2, FirstPlaces
  <2>5. Cardinality(Hits(r)) = R
    BY <1>2, <2>2
  <2>6. F = Hits(r)
    <3>1. /\ Cardinality(Hits(r)) <= Cardinality(F)
          /\ Cardinality(F) = Cardinality(Hits(r)) => Hits(r) = F
      BY <2>3, <2>4, FS_Subset
    <3>2. Cardinality(F) \in Nat
      BY <2>4, FS_CardinalityType
    <3> QED
      BY <1>2, <2>4, <2>5, <3>1, <3>2
  <2> HIDE DEF F
  <2> QED
    BY <2>2, <2>3, <2>4, <2>6
<1> QED
  BY <1>3, <1>4

LEMMA ApIsSound ==
    ASSUME NEW r \in Seq(Gallery), Unrepeated(r)
    PROVE  /\ ApSum(r) <= Scale * Cardinality(Relevant)
           /\ ApSum(r) = Scale * Cardinality(Relevant)
                 <=> \A g \in Relevant : \E n \in First(r, Cardinality(Relevant)) : r[n] = g
<1> DEFINE u == [n \in Hits(r) |-> Precision(r, n)]
           v == MapThenSumSet(LAMBDA n : Precision(r, n), Hits(r))
           H == Cardinality(Hits(r))
           R == Cardinality(Relevant)
           covers == \A g \in Relevant : \E n \in Hits(r) : r[n] = g
           leads == \A n \in Hits(r) : Upto(Filtered(r), n) \subseteq Hits(r)
<1>1. IsFiniteSet(Hits(r)) /\ Scale = 12
  BY PlacesCount DEF Scale
<1>2. /\ u \in [Hits(r) -> 0..12]
      /\ \A n \in Hits(r) : u[n] = 12 <=> Upto(Filtered(r), n) \subseteq Hits(r)
  BY <1>1, PrecisionBound
<1>3. IsTotal(u, Hits(r), v)
  BY ApSumIsTotal
<1> HIDE DEF u, v
<1>4. v \in Nat /\ v <= 12 * H /\ (v = 12 * H <=> leads)
  <2>1. 12 \in Nat
    OBVIOUS
  <2>2. v \in Nat /\ v <= 12 * H /\ (v = 12 * H <=> \A n \in Hits(r) : u[n] = 12)
    BY <1>1, <1>2, <1>3, <2>1, TotalBound
  <2> QED
    BY <1>2, <2>2
<1>5. H \in Nat /\ R \in Nat /\ H <= R /\ (H = R <=> covers)
  BY HitsBound
<1> HIDE DEF H, R, leads, covers
<1>6. v <= 12 * R /\ (v = 12 * R <=> leads /\ covers)
  BY <1>4, <1>5
<1>7. ApSum(r) = v
  <2>1. CASE Relevant # {}
    BY <2>1 DEF ApSum, v
  <2>2. CASE Relevant = {}
    <3>1. R = 0
      BY <2>2, FS_EmptySet DEF R
    <3>2. ApSum(r) = 0
      BY <2>2 DEF ApSum
    <3> QED
      BY <1>4, <1>5, <3>1, <3>2
  <2> QED
    BY <2>1, <2>2
<1>8. leads /\ covers <=> \A g \in Relevant : \E n \in First(r, R) : r[n] = g
  BY LeadingHits DEF leads, covers, R
<1> QED
  BY <1>1, <1>6, <1>7, <1>8 DEF R

LEMMA CmcIsSound ==
    ASSUME NEW r \in Seq(Gallery), NEW k
    PROVE  Cmc(r, k) = 1 <=> \E n \in First(r, k) : r[n] \in Relevant
BY PlacesCount DEF Cmc, First

\* A ranking without repetitions has an average precision of at most 1, and of 1
\* exactly when the relevant items lead it; it is a hit within k from the first
\* relevant one on (_compute_map_cmc), however long it is and whatever the gallery.
THEOREM MetricsSound == Spec => []MetricsAreSound
<1>1. EvalInv => MetricsAreSound
  <2> SUFFICES ASSUME EvalInv PROVE MetricsAreSound
    OBVIOUS
  <2> DEFINE r == dataset.ranked
             sought == {g \in Gallery : Pid[g] = QueryPid /\ Cam[g] # QueryCam}
             full == Scale * Cardinality(Relevant)
             first(k) == {r[n] : n \in {n \in Filtered(r) : FilteredRank(r, n) <= k}}
  <2>1. r \in Seq(Gallery) /\ sought = Relevant
    BY DEF EvalInv, TypeOK, Dataset, Relevant
  <2>2. \A k : first(k) = {r[n] : n \in First(r, k)}
    BY DEF First
  <2> HIDE DEF first
  <2>3. ASSUME Unrepeated(r)
        PROVE  /\ ApSum(r) <= full
               /\ ApSum(r) = full <=> sought \subseteq first(Cardinality(sought))
               /\ \A k \in 1..MaxRanked :
                     Cmc(r, k) = 1 <=> first(k) \intersect sought # {}
    <3>1. /\ ApSum(r) <= full
          /\ ApSum(r) = full
                <=> \A g \in Relevant : \E n \in First(r, Cardinality(Relevant)) : r[n] = g
      BY <2>1, <2>3, ApIsSound
    <3>2. (\A g \in Relevant : \E n \in First(r, Cardinality(Relevant)) : r[n] = g)
             <=> sought \subseteq first(Cardinality(sought))
      BY <2>1, <2>2
    <3>3. \A k : Cmc(r, k) = 1 <=> \E n \in First(r, k) : r[n] \in Relevant
      BY <2>1, CmcIsSound
    <3>4. \A k : (\E n \in First(r, k) : r[n] \in Relevant) <=> first(k) \intersect sought # {}
      BY <2>1, <2>2
    <3> QED
      BY <3>1, <3>2, <3>3, <3>4
  <2> QED
    BY <2>3 DEF MetricsAreSound, Unrepeated, first
<1> QED
  BY <1>1, EvalInvariant, PTL

-----------------------------------------------------------------------------
(* ModelCall                                                                *)

-----------------------------------------------------------------------------
(* What is true of one execution, of the executions that hold a file's      *)
(* lock, and of the writes to a file.                                      *)

OneAttempt(x) == \A i \in DOMAIN x.parts : x.parts[i] = <<x.attempt, i>>

Local(c, x) ==
    /\ x.at \in {"stream", "answered"} \/ x.result = "ok" => OneAttempt(x)
    /\ ~Streams(c) => x.parts = <<>> /\ x.at # "stream"
    /\ x.at \in {"search", "child", "tool"} => ~Streams(c)
    /\ x.result # "none" <=> x.at \in {"lock", "append", "flush", "done"}
    /\ x.at \in {"lock", "append", "flush"} => Audited(c)

Writing(c) == call[c].at \in {"append", "flush"}

LockInv ==
    /\ \A c \in Calls : Writing(c) => Path[c] \in held
    /\ \A c, d \in Calls : Writing(c) /\ Writing(d) /\ Path[c] = Path[d] => c = d

\* A file holds half a line exactly while its writer is about to write the rest.
FileInv ==
    /\ WholeLines
    /\ \A p \in Paths :
          Len(log[p]) % 2 = 1 => \E c \in Calls : Path[c] = p /\ call[c].at = "flush"
    /\ \A c \in Calls : call[c].at = "flush" =>
          /\ Len(log[Path[c]]) % 2 = 1
          /\ log[Path[c]][Len(log[Path[c]])] = Half(c, 1)

Mine(c) == {i \in DOMAIN log[Path[c]] : log[Path[c]][i].call = c /\ log[Path[c]][i].half = 2}

MineInv ==
    \A c \in Calls :
        /\ \A i \in Mine(c) : call[c].at = "done" /\ log[Path[c]][i].status = call[c].result
        /\ \A i, j \in Mine(c) : i = j
        /\ call[c].at = "done" /\ Mine(c) = {} =>
              ~Audited(c) \/ (kind[c] = "llm" /\ call[c].result = "cancelled")

CallInv == CallTypeOK /\ (\A c \in Calls : Local(c, call[c])) /\ LockInv /\ FileInv /\ MineInv

-----------------------------------------------------------------------------
LEMMA InitCalls == CallInit => CallInv
<1> SUFFICES ASSUME CallInit PROVE CallInv
  OBVIOUS
<1> DEFINE x == [at |-> "idle", attempt |-> 0, parts |-> <<>>, usage |-> 0, result |-> "none"]
<1>1. \A c \in Calls : call[c] = x
  BY DEF CallInit
<1>2. x \in Call
  BY DEF Call, Places
<1>3. \A p \in Paths : log[p] = <<>>
  BY DEF CallInit
<1> HIDE DEF x
<1>4. CallTypeOK
  <2>1. call \in [Calls -> Call] /\ kind \in [Calls -> Kinds]
    BY <1>2 DEF CallInit, x
  <2>2. log \in [Paths -> Seq(Write)]
    BY DEF CallInit
  <2>3. cancelled \in BOOLEAN
    BY Zenon DEF CallInit
  <2> QED
    BY <2>1, <2>2, <2>3 DEF CallInit, CallTypeOK
<1>5. \A c \in Calls : Local(c, call[c])
  BY <1>1 DEF Local, x
<1>6. LockInv
  BY <1>1 DEF LockInv, Writing, x
<1>7. FileInv
  <2>1. Len(<<>>) = 0 /\ 0 % 2 = 0
    OBVIOUS
  <2>2. ASSUME NEW p \in Paths PROVE Len(log[p]) % 2 # 1
    <3>1. Len(log[p]) = 0
      BY <1>3
    <3> QED
      BY <2>1, <3>1
  <2>3. WholeLines
    BY <1>3 DEF WholeLines
  <2>4. \A c \in Calls : call[c].at # "flush"
    BY <1>1 DEF x
  <2> QED
    BY <2>2, <2>3, <2>4 DEF FileInv
<1>8. MineInv
  <2>1. \A c \in Calls : Mine(c) = {}
    BY <1>3 DEF Mine, Paths
  <2> QED
    BY <1>1, <2>1 DEF MineInv, x
<1> QED
  BY <1>4, <1>5, <1>6, <1>7, <1>8 DEF CallInv

-----------------------------------------------------------------------------
(* Steps that write nothing.                                               *)

\* The variables that are neither the executions nor the files.
OtherTypes ==
    /\ cancelled \in BOOLEAN
    /\ cost \in Nat
    /\ stdout \in Calls \union {Log}
    /\ saved \in [Calls -> Calls \union {Log}]
    /\ printed \subseteq (Calls \union {Log}) \X (Calls \union {Log})

\* A step that leaves the executions and the files alone.
LEMMA QuietSuffices ==
    ASSUME CallInv, UNCHANGED <<kind, call, held, log>>, OtherTypes'
    PROVE  CallInv'
<1>1. CallTypeOK'
  BY DEF CallInv, CallTypeOK, OtherTypes
<1>2. \A c \in Calls : Local(c, call[c])'
  BY DEF CallInv, Local, Streams, Audited, OneAttempt
<1>3. LockInv' /\ FileInv'
  BY DEF CallInv, LockInv, FileInv, Writing, WholeLines, Half
<1>4. MineInv'
  BY DEF CallInv, MineInv, Mine, Audited
<1> QED
  BY <1>1, <1>2, <1>3, <1>4 DEF CallInv

\* An execution goes on and writes nothing.
LEMMA MoveSuffices ==
    ASSUME CallInv, UNCHANGED <<kind, held, log>>, OtherTypes',
           NEW c \in Calls, NEW x \in Call, call' = [call EXCEPT ![c] = x],
           call[c].at \notin {"append", "flush", "done"},
           x.at \notin {"append", "flush"},
           x.at = "done" => ~Audited(c) \/ (kind[c] = "llm" /\ x.result = "cancelled"),
           Local(c, x)
    PROVE  CallInv'
<1>1. /\ call' \in [Calls -> Call] /\ call'[c] = x
      /\ \A d \in Calls \ {c} : call'[d] = call[d]
  BY DEF CallInv, CallTypeOK
<1>2. CallTypeOK'
  BY <1>1 DEF CallInv, CallTypeOK, OtherTypes
<1>3. \A d \in Calls : Local(d, call[d])'
  <2> TAKE d \in Calls
  <2>1. Local(d, call'[d])
    BY <1>1 DEF CallInv
  <2> QED
    BY <2>1 DEF Local, Streams, Audited, OneAttempt
<1>4. \A d \in Calls : Writing(d)' <=> Writing(d)
  BY <1>1 DEF Writing
<1>5. LockInv'
  BY <1>4 DEF CallInv, LockInv
<1>6. FileInv'
  <2>1. \A d \in Calls : call'[d].at = "flush" <=> call[d].at = "flush"
    BY <1>1
  <2>2. \A d \in Calls : call[d].at = "flush" => call'[d] = call[d]
    BY <1>1
  <2>3. WholeLines'
    BY DEF CallInv, FileInv, WholeLines
  <2>4. \A p \in Paths :
           Len(log'[p]) % 2 = 1 => \E d \in Calls : Path[d] = p /\ call'[d].at = "flush"
    BY <2>1 DEF CallInv, FileInv
  <2>5. ASSUME NEW d \in Calls, call'[d].at = "flush"
        PROVE  /\ Len(log'[Path[d]]) % 2 = 1
               /\ log'[Path[d]][Len(log'[Path[d]])] = Half(d, 1)'
    <3>1. call[d].at = "flush" /\ Half(d, 1)' = Half(d, 1)
      BY <2>1, <2>2, <2>5 DEF Half
    <3>2. /\ Len(log[Path[d]]) % 2 = 1
          /\ log[Path[d]][Len(log[Path[d]])] = Half(d, 1)
      BY <3>1 DEF CallInv, FileInv
    <3> QED
      BY <3>1, <3>2
  <2> QED
    BY <2>3, <2>4, <2>5 DEF FileInv
<1>7. MineInv'
  <2>1. \A d \in Calls : Mine(d)' = Mine(d)
    BY DEF Mine
  <2>2. Mine(c) = {}
    BY DEF CallInv, MineInv
  <2> QED
    BY <1>1, <2>1, <2>2 DEF CallInv, MineInv, Audited
<1> QED
  BY <1>2, <1>3, <1>5, <1>6, <1>7 DEF CallInv

LEMMA OthersStay ==
    ASSUME CallInv, UNCHANGED <<cancelled, cost, stdout, saved, printed>>
    PROVE  OtherTypes'
BY DEF CallInv, CallTypeOK, OtherTypes

\* An execution goes to another place and keeps what it has.
LEMMA GoKeeps ==
    ASSUME CallInv, UNCHANGED <<kind, held, log>>, OtherTypes',
           NEW c \in Calls, NEW place \in Places, Go(c, place),
           call[c].at \notin {"lock", "append", "flush", "done"},
           place \notin {"lock", "append", "flush", "done"},
           place = "answered" => call[c].at = "stream",
           place # "stream",
           place \in {"search", "child", "tool"} => ~Streams(c)
    PROVE  CallInv'
<1> DEFINE x == [call[c] EXCEPT !.at = place]
<1>1. call[c] \in Call /\ Local(c, call[c])
  BY DEF CallInv, CallTypeOK
<1>2. /\ x \in Call /\ x.at = place /\ x.parts = call[c].parts
      /\ x.attempt = call[c].attempt /\ x.result = call[c].result
  BY <1>1 DEF Call
<1>3. call' = [call EXCEPT ![c] = x]
  BY DEF Go
<1> HIDE DEF x
<1>4. Local(c, x)
  BY <1>1, <1>2 DEF Local, OneAttempt
<1> QED
  BY <1>2, <1>3, <1>4, MoveSuffices

\* An execution ends, before its line is written.
LEMMA SettleKeeps ==
    ASSUME CallInv, UNCHANGED <<kind, held, log>>, OtherTypes',
           NEW c \in Calls, NEW result \in Ends, Settle(c, result),
           call[c].at \notin {"lock", "append", "flush", "done"},
           result = "ok" => call[c].at = "answered" \/ ~Streams(c)
    PROVE  CallInv'
<1> DEFINE place == IF Audited(c) THEN "lock" ELSE "done"
           x == [call[c] EXCEPT !.result = result, !.at = place]
<1>1. call[c] \in Call /\ Local(c, call[c])
  BY DEF CallInv, CallTypeOK
<1>2. call' = [call EXCEPT ![c] = x]
  BY DEF Settle
<1>3. place \in Places /\ place = (IF Audited(c) THEN "lock" ELSE "done")
  BY DEF Places
<1> HIDE DEF place
<1>4. /\ x \in Call /\ x.at = place /\ x.parts = call[c].parts
      /\ x.attempt = call[c].attempt /\ x.result = result
  BY <1>1, <1>3 DEF Call
<1> HIDE DEF x
<1>5. result # "none" /\ (~Streams(c) => OneAttempt(call[c]))
  BY <1>1 DEF Ends, Local, OneAttempt
<1>6. Local(c, x)
  BY <1>1, <1>3, <1>4, <1>5 DEF Local, OneAttempt
<1> QED
  BY <1>2, <1>3, <1>4, <1>6, MoveSuffices

-----------------------------------------------------------------------------
(* The steps of the node bodies.                                           *)

LEMMA StartKeeps ==
    ASSUME CallInv, NEW c \in Calls, Start(c)
    PROVE  CallInv'
<1>1. /\ UNCHANGED <<kind, held, log>> /\ OtherTypes' /\ call[c].at = "idle"
      /\ ~Streams(c) <=> kind[c] \notin {"llm", "judge"}
  BY OthersStay DEF Start, outVars, Streams
<1>2. \/ Settle(c, "cancelled")
      \/ \E place \in {"failed", "request"} : Go(c, place)
      \/ ~Streams(c) /\ \E place \in {"child", "search", "failed"} : Go(c, place)
  BY <1>1 DEF Start
<1> QED
  BY <1>1, <1>2, GoKeeps, SettleKeeps DEF Places, Ends

LEMMA WakeKeeps ==
    ASSUME CallInv, NEW c \in Calls, Wake(c)
    PROVE  CallInv'
<1> DEFINE next == call[c].attempt + 1
           x == [call[c] EXCEPT !.at = "request", !.attempt = next]
<1>1. /\ UNCHANGED <<kind, held, log>> /\ OtherTypes' /\ call[c].at = "backoff"
  BY OthersStay DEF Wake, outVars
<1>2. call[c] \in Call /\ Local(c, call[c])
  BY DEF CallInv, CallTypeOK
<1>3. call' = [call EXCEPT ![c] = x]
  BY DEF Wake
<1>a. next \in Nat
  BY <1>2 DEF Call
<1> HIDE DEF next
<1>4. /\ x \in Call /\ x.at = "request" /\ x.parts = call[c].parts
      /\ x.result = call[c].result
  BY <1>2, <1>a DEF Call, Places
<1> HIDE DEF x
<1>5. Local(c, x)
  BY <1>1, <1>2, <1>4 DEF Local
<1> QED
  BY <1>1, <1>3, <1>4, <1>5, MoveSuffices

LEMMA RetryKeeps ==
    ASSUME CallInv, UNCHANGED <<kind, held, log>>, OtherTypes', NEW c \in Calls,
           call[c].at \in {"request", "stream"}, Retry(c)
    PROVE  CallInv'
<1>1. \E place \in {"failed", "backoff"} : Go(c, place)
  BY DEF Retry
<1> QED
  BY <1>1, GoKeeps DEF Places

LEMMA RespondKeeps ==
    ASSUME CallInv, NEW c \in Calls, Respond(c)
    PROVE  CallInv'
<1>1. /\ UNCHANGED <<kind, held, log>> /\ OtherTypes' /\ call[c].at = "request"
  BY OthersStay DEF Respond, outVars
<1>2. call[c] \in Call /\ Local(c, call[c])
  BY DEF CallInv, CallTypeOK
<1>3. CASE Streams(c) /\ call' = [call EXCEPT ![c].at = "stream", ![c].parts = <<>>,
                                             ![c].usage = 0]
  <2> DEFINE x == [call[c] EXCEPT !.at = "stream", !.parts = <<>>, !.usage = 0]
  <2>1. call' = [call EXCEPT ![c] = x]
    BY <1>3
  <2>2. <<>> \in Seq(Nat \X Nat)
    OBVIOUS
  <2>3. x \in Call /\ x.at = "stream" /\ x.parts = <<>> /\ x.result = call[c].result
    BY <1>2, <2>2 DEF Call, Places
  <2> HIDE DEF x
  <2>4. OneAttempt(x)
    BY <2>3 DEF OneAttempt
  <2>5. Local(c, x)
    BY <1>1, <1>2, <1>3, <2>3, <2>4 DEF Local
  <2> QED
    BY <1>1, <2>1, <2>3, <2>5, MoveSuffices
<1>4. CASE ~Streams(c) /\ \E u \in 0..MaxUsage :
              call' = [call EXCEPT ![c].at = "answered", ![c].usage = u]
  <2> PICK u \in 0..MaxUsage : call' = [call EXCEPT ![c].at = "answered", ![c].usage = u]
    BY <1>4
  <2> DEFINE x == [call[c] EXCEPT !.at = "answered", !.usage = u]
  <2>1. call' = [call EXCEPT ![c] = x]
    OBVIOUS
  <2>2. u \in Nat
    BY CallAssumption DEF CallAssumption
  <2>3. x \in Call /\ x.at = "answered" /\ x.parts = call[c].parts /\ x.result = call[c].result
    BY <1>2, <2>2 DEF Call, Places
  <2> HIDE DEF x
  <2>4. OneAttempt(x)
    BY <1>2, <1>4, <2>3 DEF OneAttempt, Local
  <2>5. Local(c, x)
    BY <1>1, <1>2, <1>4, <2>3, <2>4 DEF Local
  <2> QED
    BY <1>1, <2>1, <2>3, <2>5, MoveSuffices
<1>5. CASE Retry(c) \/ Go(c, "failed")
  BY <1>1, <1>5, RetryKeeps, GoKeeps DEF Places
<1> QED
  BY <1>3, <1>4, <1>5 DEF Respond

LEMMA LineKeeps ==
    ASSUME CallInv, NEW c \in Calls, Line(c)
    PROVE  CallInv'
<1>1. /\ UNCHANGED <<kind, held, log>> /\ OtherTypes' /\ call[c].at = "stream"
  BY OthersStay DEF Line, outVars
<1>2. call[c] \in Call /\ Local(c, call[c]) /\ Streams(c) /\ OneAttempt(call[c])
  BY <1>1 DEF CallInv, CallTypeOK, Local
<1>3. call[c].attempt \in Nat /\ call[c].parts \in Seq(Nat \X Nat)
  BY <1>2 DEF Call
<1>4. CASE call' = [call EXCEPT ![c].parts = Append(@, <<call[c].attempt, Len(@) + 1>>)]
  <2> DEFINE parts == Append(call[c].parts, <<call[c].attempt, Len(call[c].parts) + 1>>)
             x == [call[c] EXCEPT !.parts = parts]
  <2>1. call' = [call EXCEPT ![c] = x]
    BY <1>4
  <2>2. parts \in Seq(Nat \X Nat)
    BY <1>3
  <2>3. \A i \in DOMAIN parts : parts[i] = <<call[c].attempt, i>>
    <3> DEFINE n == Len(call[c].parts)
    <3>1. /\ n \in Nat /\ DOMAIN call[c].parts = 1..n /\ DOMAIN parts = 1..(n + 1)
          /\ parts[n + 1] = <<call[c].attempt, n + 1>>
          /\ \A i \in 1..n : parts[i] = call[c].parts[i]
      BY <1>3
    <3>2. \A i \in 1..n : call[c].parts[i] = <<call[c].attempt, i>>
      BY <1>2, <3>1 DEF OneAttempt
    <3> HIDE DEF n, parts
    <3> QED
      BY <3>1, <3>2
  <2> HIDE DEF parts
  <2>4. /\ x \in Call /\ x.at = "stream" /\ x.parts = parts
        /\ x.attempt = call[c].attempt /\ x.result = call[c].result
    BY <1>1, <1>2, <2>2 DEF Call
  <2> HIDE DEF x
  <2>5. OneAttempt(x)
    BY <2>3, <2>4 DEF OneAttempt
  <2>6. Local(c, x)
    BY <1>1, <1>2, <2>4, <2>5 DEF Local
  <2> QED
    BY <1>1, <2>1, <2>4, <2>6, MoveSuffices
<1>5. CASE \E u \in 1..MaxUsage : call' = [call EXCEPT ![c].usage = u]
  <2> PICK u \in 1..MaxUsage : call' = [call EXCEPT ![c].usage = u]
    BY <1>5
  <2> DEFINE x == [call[c] EXCEPT !.usage = u]
  <2>1. call' = [call EXCEPT ![c] = x]
    OBVIOUS
  <2>2. u \in Nat
    BY CallAssumption DEF CallAssumption
  <2>3. /\ x \in Call /\ x.at = "stream" /\ x.parts = call[c].parts
        /\ x.attempt = call[c].attempt /\ x.result = call[c].result
    BY <1>1, <1>2, <2>2 DEF Call
  <2> HIDE DEF x
  <2>4. Local(c, x)
    BY <1>1, <1>2, <2>3 DEF Local, OneAttempt
  <2> QED
    BY <1>1, <2>1, <2>3, <2>4, MoveSuffices
<1>6. CASE Go(c, "answered") \/ Go(c, "failed")
  BY <1>1, <1>6, GoKeeps DEF Places
<1> QED
  BY <1>4, <1>5, <1>6 DEF Line

LEMMA StreamEndsKeeps ==
    ASSUME CallInv, NEW c \in Calls, EndOfStream(c) \/ Drop(c) \/ Interrupt(c)
    PROVE  CallInv'
<1>1. /\ UNCHANGED <<kind, held, log>> /\ OtherTypes' /\ call[c].at = "stream"
  BY OthersStay DEF EndOfStream, Drop, Interrupt, outVars
<1>2. Go(c, "answered") \/ Retry(c) \/ Settle(c, "cancelled")
  BY DEF EndOfStream, Drop, Interrupt
<1> QED
  BY <1>1, <1>2, GoKeeps, RetryKeeps, SettleKeeps DEF Places, Ends

LEMMA ChargeKeeps ==
    ASSUME CallInv, NEW c \in Calls, Charge(c)
    PROVE  CallInv'
<1>1. call[c].usage \in Nat
  BY DEF CallInv, CallTypeOK, Call
<1>2. OtherTypes'
  BY <1>1 DEF CallInv, CallTypeOK, OtherTypes, Charge, outVars
<1> QED
  BY <1>2, SettleKeeps DEF Charge, Ends

LEMMA FailKeeps ==
    ASSUME CallInv, NEW c \in Calls, NodeFails(c)
    PROVE  CallInv'
<1>1. /\ UNCHANGED <<kind, held, log>> /\ OtherTypes' /\ call[c].at = "failed"
  BY OthersStay DEF NodeFails, outVars
<1>2. call[c] \in Call /\ Local(c, call[c])
  BY DEF CallInv, CallTypeOK
<1>3. CASE kind[c] = "llm" /\ cancelled
  <2> DEFINE x == [call[c] EXCEPT !.at = "done", !.result = "cancelled"]
  <2>1. call' = [call EXCEPT ![c] = x]
    BY <1>3 DEF NodeFails
  <2>2. x \in Call /\ x.at = "done" /\ x.result = "cancelled" /\ x.parts = call[c].parts
    BY <1>2 DEF Call, Places, Ends
  <2> HIDE DEF x
  <2>3. Local(c, x)
    BY <1>1, <1>2, <2>2 DEF Local
  <2> QED
    BY <1>1, <1>3, <2>1, <2>2, <2>3, MoveSuffices
<1>4. CASE ~(kind[c] = "llm" /\ cancelled)
  BY <1>1, <1>4, SettleKeeps DEF NodeFails, Ends
<1> QED
  BY <1>3, <1>4

LEMMA WorkKeeps ==
    ASSUME CallInv, NEW c \in Calls, Search(c) \/ SandboxEnds(c) \/ ToolRefused(c)
    PROVE  CallInv'
<1>1. /\ UNCHANGED <<kind, held, log>> /\ OtherTypes'
      /\ call[c].at \in {"search", "child", "idle"}
  BY OthersStay DEF Search, SandboxEnds, ToolRefused, outVars
<1>2. \/ Settle(c, "ok") /\ call[c].at = "search"
      \/ Go(c, "failed")
      \/ \E status \in {"PASS", "FAIL", "ERROR", "TIMEOUT", "error"} : Settle(c, status)
  BY DEF Search, SandboxEnds, ToolRefused
<1>3. call[c].at = "search" => ~Streams(c)
  BY DEF CallInv, Local
<1> QED
  BY <1>1, <1>2, <1>3, GoKeeps, SettleKeeps DEF Places, Ends

LEMMA ToolKeeps ==
    ASSUME CallInv, NEW c \in Calls, ToolEnters(c) \/ ToolPrints(c) \/ ToolExits(c)
    PROVE  CallInv'
<1>1. /\ stdout \in Calls \union {Log} /\ saved \in [Calls -> Calls \union {Log}]
      /\ cancelled \in BOOLEAN /\ cost \in Nat
      /\ printed \subseteq (Calls \union {Log}) \X (Calls \union {Log})
  BY DEF CallInv, CallTypeOK
<1>2. CASE ToolEnters(c)
  <2>1. OtherTypes'
    BY <1>1, <1>2 DEF ToolEnters, OtherTypes
  <2> QED
    BY <1>2, <2>1, GoKeeps DEF ToolEnters, Places, Streams
<1>3. CASE ToolPrints(c)
  <2>1. OtherTypes'
    BY <1>1, <1>3 DEF ToolPrints, OtherTypes
  <2> QED
    BY <1>3, <2>1, QuietSuffices DEF ToolPrints, nodeVars
<1>4. CASE ToolExits(c)
  <2>1. OtherTypes'
    BY <1>1, <1>4 DEF ToolExits, OtherTypes
  <2>2. ~Streams(c)
    BY <1>4 DEF ToolExits, CallInv, Local
  <2> QED
    BY <1>4, <2>1, <2>2, SettleKeeps DEF ToolExits, Ends
<1> QED
  BY <1>2, <1>3, <1>4

-----------------------------------------------------------------------------
(* The audit line.                                                         *)

\* An execution that has its result goes to another place.
LEMMA PlaceChanges ==
    ASSUME CallInv, NEW c \in Calls, NEW place \in {"append", "flush", "done"}, Go(c, place),
           kind' = kind, call[c].at \in {"lock", "append", "flush"}
    PROVE  /\ call' \in [Calls -> Call]
           /\ call'[c].at = place /\ call'[c].result = call[c].result
           /\ \A d \in Calls \ {c} : call'[d] = call[d]
           /\ \A d \in Calls : Local(d, call[d])'
           /\ \A d \in Calls : call'[d].result = call[d].result
<1> DEFINE x == [call[c] EXCEPT !.at = place]
<1>1. call[c] \in Call /\ Local(c, call[c]) /\ call \in [Calls -> Call]
  BY DEF CallInv, CallTypeOK
<1>2. call' = [call EXCEPT ![c] = x]
  BY DEF Go
<1>3. /\ x \in Call /\ x.at = place /\ x.parts = call[c].parts
      /\ x.attempt = call[c].attempt /\ x.result = call[c].result
  BY <1>1 DEF Call, Places
<1> HIDE DEF x
<1>4. Local(c, x)
  BY <1>1, <1>3 DEF Local, OneAttempt
<1>5. /\ call' \in [Calls -> Call] /\ call'[c] = x
      /\ \A d \in Calls \ {c} : call'[d] = call[d]
  BY <1>1, <1>2, <1>3
<1>6. \A d \in Calls : Local(d, call'[d])
  BY <1>4, <1>5 DEF CallInv
<1>7. \A d \in Calls : Local(d, call[d])'
  BY <1>6 DEF Local, Streams, Audited, OneAttempt
<1> QED
  BY <1>3, <1>5, <1>7

LEMMA AcquireKeeps ==
    ASSUME CallInv, NEW c \in Calls, Acquire(c)
    PROVE  CallInv'
<1>1. /\ call[c].at = "lock" /\ Path[c] \notin held /\ held' = held \union {Path[c]}
      /\ Go(c, "append") /\ UNCHANGED <<kind, cancelled, cost, log, stdout, saved, printed>>
  BY DEF Acquire, LockFor, outVars
<1>2. /\ call' \in [Calls -> Call] /\ call'[c].at = "append"
      /\ \A d \in Calls \ {c} : call'[d] = call[d]
      /\ \A d \in Calls : Local(d, call[d])'
  BY <1>1, PlaceChanges
<1>3. Path[c] \in Paths
  BY DEF Paths
<1>4. CallTypeOK'
  BY <1>1, <1>2, <1>3 DEF CallInv, CallTypeOK
<1>5. LockInv'
  <2>1. \A d \in Calls \ {c} : (Writing(d)' <=> Writing(d)) /\ (Writing(d) => Path[d] # Path[c])
    BY <1>1, <1>2 DEF Writing, CallInv, LockInv
  <2> QED
    BY <1>1, <2>1 DEF CallInv, LockInv
<1>6. FileInv'
  <2>1. \A d \in Calls : call'[d].at = "flush" <=> call[d].at = "flush"
    BY <1>1, <1>2
  <2>2. \A d \in Calls : call[d].at = "flush" => call'[d] = call[d]
    BY <1>1, <1>2
  <2>3. WholeLines'
    BY <1>1 DEF CallInv, FileInv, WholeLines
  <2>4. \A p \in Paths :
           Len(log'[p]) % 2 = 1 => \E d \in Calls : Path[d] = p /\ call'[d].at = "flush"
    BY <1>1, <2>1 DEF CallInv, FileInv
  <2>5. ASSUME NEW d \in Calls, call'[d].at = "flush"
        PROVE  /\ Len(log'[Path[d]]) % 2 = 1
               /\ log'[Path[d]][Len(log'[Path[d]])] = Half(d, 1)'
    <3>1. call[d].at = "flush" /\ Half(d, 1)' = Half(d, 1)
      BY <2>1, <2>2, <2>5 DEF Half
    <3>2. /\ Len(log[Path[d]]) % 2 = 1
          /\ log[Path[d]][Len(log[Path[d]])] = Half(d, 1)
      BY <3>1 DEF CallInv, FileInv
    <3> QED
      BY <1>1, <3>1, <3>2
  <2> QED
    BY <2>3, <2>4, <2>5 DEF FileInv
<1>7. MineInv'
  <2>1. \A d \in Calls : Mine(d)' = Mine(d)
    BY <1>1 DEF Mine
  <2>2. Mine(c) = {}
    BY <1>1 DEF CallInv, MineInv
  <2> QED
    BY <1>1, <1>2, <2>1, <2>2 DEF CallInv, MineInv, Audited
<1> QED
  BY <1>2, <1>4, <1>5, <1>6, <1>7 DEF CallInv

\* A half is appended to the file of an execution.
LEMMA Appended ==
    ASSUME CallInv, NEW c \in Calls, NEW n \in {1, 2}, call[c].at \in {"append", "flush"},
           log' = [log EXCEPT ![Path[c]] = Append(@, Half(c, n))]
    PROVE  /\ log' \in [Paths -> Seq(Write)]
           /\ Path[c] \in Paths /\ log[Path[c]] \in Seq(Write)
           /\ \A p \in Paths \ {Path[c]} : log'[p] = log[p]
           /\ Len(log'[Path[c]]) = Len(log[Path[c]]) + 1
           /\ \A i \in DOMAIN log[Path[c]] : log'[Path[c]][i] = log[Path[c]][i]
           /\ log'[Path[c]][Len(log[Path[c]]) + 1] = Half(c, n)
           /\ DOMAIN log'[Path[c]] = DOMAIN log[Path[c]] \union {Len(log[Path[c]]) + 1}
<1>1. Path[c] \in Paths
  BY DEF Paths
<1>2. Half(c, n) \in Write
  <2>1. call[c].result \in Ends
    BY DEF CallInv, CallTypeOK, Call, Local
  <2> QED
    BY <2>1 DEF Half, Write
<1>3. log \in [Paths -> Seq(Write)] /\ log[Path[c]] \in Seq(Write)
  BY <1>1 DEF CallInv, CallTypeOK
<1> DEFINE h == Half(c, n)
<1> HIDE DEF h
<1>4. h \in Write /\ log' = [log EXCEPT ![Path[c]] = Append(@, h)]
  BY <1>2 DEF h
<1>5. /\ log' \in [Paths -> Seq(Write)]
      /\ \A p \in Paths \ {Path[c]} : log'[p] = log[p]
      /\ log'[Path[c]] = Append(log[Path[c]], h)
  BY <1>1, <1>3, <1>4
<1>6. /\ Len(log'[Path[c]]) = Len(log[Path[c]]) + 1
      /\ \A i \in DOMAIN log[Path[c]] : log'[Path[c]][i] = log[Path[c]][i]
      /\ log'[Path[c]][Len(log[Path[c]]) + 1] = h
      /\ DOMAIN log'[Path[c]] = DOMAIN log[Path[c]] \union {Len(log[Path[c]]) + 1}
  BY <1>3, <1>4, <1>5
<1> QED
  BY <1>1, <1>3, <1>5, <1>6 DEF h

\* Odd and even lengths.
LEMMA Parity ==
    ASSUME NEW n \in Nat
    PROVE  (n % 2 = 1 => (n + 1) % 2 # 1) /\ (n % 2 # 1 => (n + 1) % 2 = 1)
OBVIOUS

LEMMA AppendLineKeeps ==
    ASSUME CallInv, NEW c \in Calls, AppendLine(c)
    PROVE  CallInv'
<1> DEFINE p == Path[c]
           n == Len(log[p])
<1>1. /\ call[c].at = "append" /\ log' = [log EXCEPT ![p] = Append(@, Half(c, 1))]
      /\ Go(c, "flush") /\ UNCHANGED <<kind, cancelled, cost, held, stdout, saved, printed>>
  BY DEF AppendLine, outVars
<1>2. /\ call' \in [Calls -> Call] /\ call'[c].at = "flush"
      /\ \A d \in Calls \ {c} : call'[d] = call[d]
      /\ \A d \in Calls : Local(d, call[d])'
      /\ \A d \in Calls : call'[d].result = call[d].result
  BY <1>1, PlaceChanges
<1>3. /\ log' \in [Paths -> Seq(Write)] /\ p \in Paths /\ log[p] \in Seq(Write)
      /\ \A q \in Paths \ {p} : log'[q] = log[q]
      /\ Len(log'[p]) = n + 1
      /\ \A i \in DOMAIN log[p] : log'[p][i] = log[p][i]
      /\ log'[p][n + 1] = Half(c, 1)
      /\ DOMAIN log'[p] = DOMAIN log[p] \union {n + 1}
  BY <1>1, Appended
<1>4. CallTypeOK'
  BY <1>1, <1>2, <1>3 DEF CallInv, CallTypeOK
<1>5. \A d \in Calls : Writing(d)' <=> Writing(d)
  BY <1>1, <1>2 DEF Writing
<1>6. LockInv'
  BY <1>1, <1>5 DEF CallInv, LockInv
\* No other execution writes to the file, so its last line is whole.
<1>7. \A d \in Calls \ {c} : Path[d] = p => call[d].at # "flush"
  BY <1>1 DEF CallInv, LockInv, Writing
<1>8. n % 2 # 1 /\ n \in Nat
  <2>1. n % 2 = 1 => \E d \in Calls : Path[d] = p /\ call[d].at = "flush"
    BY <1>3 DEF CallInv, FileInv
  <2>2. \A d \in Calls : Path[d] = p => call[d].at # "flush"
    BY <1>1, <1>7
  <2>3. n \in Nat
    BY <1>3
  <2> QED
    BY <2>1, <2>2, <2>3
<1>9. (n + 1) % 2 = 1
  BY <1>8, Parity
<1>10. FileInv'
  <2>1. Half(c, 1).half = 1 /\ Half(c, 1).call = c /\ Half(c, 1).status = call[c].result
    BY DEF Half
  <2>2. WholeLines'
    <3> SUFFICES ASSUME NEW q \in Paths, NEW i \in DOMAIN log'[q]
                 PROVE  /\ log'[q][i].half = 1 <=> i % 2 = 1
                        /\ log'[q][i].half = 2 =>
                              log'[q][i - 1] = [log'[q][i] EXCEPT !.half = 1]
      BY DEF WholeLines
    <3>1. CASE q # p
      <4>1. log'[q] = log[q] /\ i \in DOMAIN log[q]
        BY <1>3, <3>1
      <4>2. /\ log[q][i].half = 1 <=> i % 2 = 1
            /\ log[q][i].half = 2 => log[q][i - 1] = [log[q][i] EXCEPT !.half = 1]
        BY <4>1 DEF CallInv, FileInv, WholeLines
      <4> QED
        BY <4>1, <4>2
    <3>2. CASE q = p /\ i = n + 1
      <4>1. log'[q][i] = Half(c, 1) /\ i % 2 = 1
        BY <1>3, <1>9, <3>2
      <4> QED
        BY <2>1, <4>1
    <3>3. CASE q = p /\ i # n + 1
      <4>1. i \in DOMAIN log[p] /\ log'[p][i] = log[p][i]
        BY <1>3, <3>3
      <4>2. /\ log[p][i].half = 1 <=> i % 2 = 1
            /\ log[p][i].half = 2 => log[p][i - 1] = [log[p][i] EXCEPT !.half = 1]
        <5>1. WholeLines
          BY DEF CallInv, FileInv
        <5> QED
          BY <1>3, <4>1, <5>1 DEF WholeLines
      <4>3. log[p][i].half = 2 => i - 1 \in DOMAIN log[p]
        <5>1. i \in 1..n /\ DOMAIN log[p] = 1..n
          BY <1>3, <4>1
        <5>2. i = 1 => i % 2 = 1
          OBVIOUS
        <5> QED
          BY <4>2, <5>1, <5>2
      <4> QED
        BY <1>3, <3>3, <4>1, <4>2, <4>3
    <3> QED
      BY <3>1, <3>2, <3>3
  <2>3. \A q \in Paths :
           Len(log'[q]) % 2 = 1 => \E d \in Calls : Path[d] = q /\ call'[d].at = "flush"
    <3> SUFFICES ASSUME NEW q \in Paths, Len(log'[q]) % 2 = 1
                 PROVE  \E d \in Calls : Path[d] = q /\ call'[d].at = "flush"
      OBVIOUS
    <3>1. CASE q = p
      BY <1>2, <3>1
    <3>2. CASE q # p
      <4>1. PICK d \in Calls : Path[d] = q /\ call[d].at = "flush"
        <5>1. log'[q] = log[q]
          BY <1>3, <3>2
        <5>2. Len(log[q]) % 2 = 1
          BY <5>1
        <5> QED
          BY <5>2 DEF CallInv, FileInv
      <4> QED
        BY <1>1, <1>2, <4>1
    <3> QED
      BY <3>1, <3>2
  <2>4. ASSUME NEW d \in Calls, call'[d].at = "flush"
        PROVE  /\ Len(log'[Path[d]]) % 2 = 1
               /\ log'[Path[d]][Len(log'[Path[d]])] = Half(d, 1)'
    <3>1. Half(d, 1)' = Half(d, 1)
      BY <1>2 DEF Half
    <3>2. CASE d = c
      BY <1>3, <1>9, <3>1, <3>2
    <3>3. CASE d # c
      <4>1. call[d].at = "flush" /\ Path[d] # p /\ Path[d] \in Paths
        BY <1>2, <1>7, <2>4, <3>3 DEF Paths
      <4> QED
        <5>1. log'[Path[d]] = log[Path[d]]
          BY <1>3, <4>1
        <5>2. /\ Len(log[Path[d]]) % 2 = 1
              /\ log[Path[d]][Len(log[Path[d]])] = Half(d, 1)
          BY <4>1 DEF CallInv, FileInv
        <5> QED
          BY <3>1, <5>1, <5>2
    <3> QED
      BY <3>2, <3>3
  <2> QED
    BY <2>2, <2>3, <2>4 DEF FileInv
<1>11. MineInv'
  <2>1. Half(c, 1).half = 1
    BY DEF Half
  <2>2. ASSUME NEW d \in Calls PROVE Mine(d)' = Mine(d) /\
           \A i \in Mine(d) : log'[Path[d]][i].status = log[Path[d]][i].status
    <3>1. Path[d] \in Paths
      BY DEF Paths
    <3>2. CASE Path[d] # p
      BY <1>3, <3>1, <3>2 DEF Mine
    <3>3. CASE Path[d] = p
      BY <1>3, <2>1, <3>3 DEF Mine
    <3> QED
      BY <3>2, <3>3
  <2>3. Mine(c) = {}
    BY <1>1 DEF CallInv, MineInv
  <2> SUFFICES ASSUME NEW d \in Calls
               PROVE  /\ \A i \in Mine(d)' : call'[d].at = "done"
                                             /\ log'[Path[d]][i].status = call'[d].result
                      /\ \A i, j \in Mine(d)' : i = j
                      /\ call'[d].at = "done" /\ Mine(d)' = {} =>
                            ~Audited(d)' \/ (kind'[d] = "llm" /\ call'[d].result = "cancelled")
    BY DEF MineInv
  <2>4. CASE d = c
    BY <1>2, <2>2, <2>3, <2>4
  <2>5. CASE d # c
    <3>1. call'[d] = call[d] /\ Audited(d)' = Audited(d) /\ kind' = kind
      BY <1>1, <1>2, <2>5 DEF Audited
    <3> QED
      BY <2>2, <3>1 DEF CallInv, MineInv
  <2> QED
    BY <2>4, <2>5
<1> QED
  BY <1>2, <1>4, <1>6, <1>10, <1>11 DEF CallInv

LEMMA FlushKeeps ==
    ASSUME CallInv, NEW c \in Calls, Flush(c)
    PROVE  CallInv'
<1> DEFINE p == Path[c]
           n == Len(log[p])
<1>1. /\ call[c].at = "flush" /\ log' = [log EXCEPT ![p] = Append(@, Half(c, 2))]
      /\ held' = held \ {p}
      /\ Go(c, "done") /\ UNCHANGED <<kind, cancelled, cost, stdout, saved, printed>>
  BY DEF Flush, LockFor, outVars
<1>2. /\ call' \in [Calls -> Call] /\ call'[c].at = "done"
      /\ \A d \in Calls \ {c} : call'[d] = call[d]
      /\ \A d \in Calls : Local(d, call[d])'
      /\ \A d \in Calls : call'[d].result = call[d].result
  BY <1>1, PlaceChanges
<1>3. /\ log' \in [Paths -> Seq(Write)] /\ p \in Paths /\ log[p] \in Seq(Write)
      /\ \A q \in Paths \ {p} : log'[q] = log[q]
      /\ Len(log'[p]) = n + 1
      /\ \A i \in DOMAIN log[p] : log'[p][i] = log[p][i]
      /\ log'[p][n + 1] = Half(c, 2)
      /\ DOMAIN log'[p] = DOMAIN log[p] \union {n + 1}
  BY <1>1, Appended
<1>4. CallTypeOK'
  BY <1>1, <1>2, <1>3 DEF CallInv, CallTypeOK
\* Nobody else writes to the file.
<1>5. \A d \in Calls \ {c} : Path[d] = p => ~Writing(d)
  BY <1>1 DEF CallInv, LockInv, Writing
<1>6. LockInv'
  <2>1. \A d \in Calls : Writing(d)' => Writing(d) /\ d # c
    BY <1>2 DEF Writing
  <2> QED
    BY <1>1, <1>5, <2>1 DEF CallInv, LockInv
<1>7. n % 2 = 1 /\ n \in Nat /\ n \in DOMAIN log[p] /\ log[p][n] = Half(c, 1)
  <2>1. n % 2 = 1 /\ log[p][n] = Half(c, 1)
    BY <1>1 DEF CallInv, FileInv
  <2>2. n \in Nat /\ DOMAIN log[p] = 1..n
    BY <1>3
  <2>3. n # 0
    <3>1. 0 % 2 # 1
      OBVIOUS
    <3> QED
      BY <2>1, <3>1
  <2>4. n \in DOMAIN log[p]
    BY <2>2, <2>3
  <2> QED
    BY <2>1, <2>2, <2>4
<1>8. (n + 1) % 2 # 1
  BY <1>7, Parity
<1>9. Half(c, 2).half = 2 /\ Half(c, 2).call = c /\ Half(c, 2).status = call[c].result
  BY DEF Half
<1>10. FileInv'
  <2>1. [Half(c, 2) EXCEPT !.half = 1] = Half(c, 1)
    BY DEF Half
  <2>2. WholeLines'
    <3> SUFFICES ASSUME NEW q \in Paths, NEW i \in DOMAIN log'[q]
                 PROVE  /\ log'[q][i].half = 1 <=> i % 2 = 1
                        /\ log'[q][i].half = 2 =>
                              log'[q][i - 1] = [log'[q][i] EXCEPT !.half = 1]
      BY DEF WholeLines
    <3>1. CASE q # p
      <4>1. log'[q] = log[q] /\ i \in DOMAIN log[q]
        BY <1>3, <3>1
      <4>2. /\ log[q][i].half = 1 <=> i % 2 = 1
            /\ log[q][i].half = 2 => log[q][i - 1] = [log[q][i] EXCEPT !.half = 1]
        BY <4>1 DEF CallInv, FileInv, WholeLines
      <4> QED
        BY <4>1, <4>2
    <3>2. CASE q = p /\ i = n + 1
      <4>1. i - 1 = n /\ log'[p][n] = Half(c, 1)
        BY <1>3, <1>7, <3>2
      <4>2. log'[q][i] = Half(c, 2) /\ i % 2 # 1
        BY <1>3, <1>8, <3>2
      <4>3. log'[q][i - 1] = [log'[q][i] EXCEPT !.half = 1]
        <5>1. [log'[q][i] EXCEPT !.half = 1] = Half(c, 1)
          BY <2>1, <4>2, Zenon
        <5>2. log'[q][i - 1] = Half(c, 1)
          BY <3>2, <4>1
        <5> QED
          BY <5>1, <5>2, Zenon
      <4>4. log'[q][i].half = 2
        BY <1>9, <4>2
      <4> QED
        BY <4>2, <4>3, <4>4
    <3>3. CASE q = p /\ i # n + 1
      <4>1. i \in DOMAIN log[p] /\ log'[p][i] = log[p][i]
        BY <1>3, <3>3
      <4>2. /\ log[p][i].half = 1 <=> i % 2 = 1
            /\ log[p][i].half = 2 => log[p][i - 1] = [log[p][i] EXCEPT !.half = 1]
        <5>1. WholeLines
          BY DEF CallInv, FileInv
        <5> QED
          BY <1>3, <4>1, <5>1 DEF WholeLines
      <4>3. log[p][i].half = 2 => i - 1 \in DOMAIN log[p]
        <5>1. i \in 1..n /\ DOMAIN log[p] = 1..n
          BY <1>3, <4>1
        <5>2. i = 1 => i % 2 = 1
          OBVIOUS
        <5> QED
          BY <4>2, <5>1, <5>2
      <4> QED
        BY <1>3, <3>3, <4>1, <4>2, <4>3
    <3> QED
      BY <3>1, <3>2, <3>3
  <2>3. \A q \in Paths :
           Len(log'[q]) % 2 = 1 => \E d \in Calls : Path[d] = q /\ call'[d].at = "flush"
    <3> SUFFICES ASSUME NEW q \in Paths, Len(log'[q]) % 2 = 1
                 PROVE  \E d \in Calls : Path[d] = q /\ call'[d].at = "flush"
      OBVIOUS
    <3>1. q # p
      BY <1>3, <1>8
    <3>2. PICK d \in Calls : Path[d] = q /\ call[d].at = "flush"
      <4>1. log'[q] = log[q]
        BY <1>3, <3>1
      <4>2. Len(log[q]) % 2 = 1
        BY <4>1
      <4> QED
        BY <4>2 DEF CallInv, FileInv
    <3> QED
      BY <1>2, <3>1, <3>2
  <2>4. ASSUME NEW d \in Calls, call'[d].at = "flush"
        PROVE  /\ Len(log'[Path[d]]) % 2 = 1
               /\ log'[Path[d]][Len(log'[Path[d]])] = Half(d, 1)'
    <3>1. Half(d, 1)' = Half(d, 1)
      BY <1>2 DEF Half
    <3>2. d # c /\ call[d].at = "flush" /\ Path[d] \in Paths
      BY <1>2, <2>4 DEF Paths
    <3>3. Path[d] # p
      BY <1>5, <3>2 DEF Writing
    <3> QED
      <4>1. log'[Path[d]] = log[Path[d]]
        BY <1>3, <3>2, <3>3
      <4>2. /\ Len(log[Path[d]]) % 2 = 1
            /\ log[Path[d]][Len(log[Path[d]])] = Half(d, 1)
        BY <3>2 DEF CallInv, FileInv
      <4> QED
        BY <3>1, <4>1, <4>2
  <2> QED
    BY <2>2, <2>3, <2>4 DEF FileInv
<1>11. MineInv'
  <2>1. ASSUME NEW d \in Calls, d # c
        PROVE  Mine(d)' = Mine(d) /\
                  \A i \in Mine(d) : log'[Path[d]][i].status = log[Path[d]][i].status
    <3>1. Path[d] \in Paths
      BY DEF Paths
    <3>2. CASE Path[d] # p
      BY <1>3, <3>1, <3>2 DEF Mine
    <3>3. CASE Path[d] = p
      BY <1>3, <1>9, <2>1, <3>3 DEF Mine
    <3> QED
      BY <3>2, <3>3
  <2>2. Mine(c) = {}
    BY <1>1 DEF CallInv, MineInv
  <2>3. Mine(c)' = {n + 1}
    BY <1>3, <1>9, <2>2 DEF Mine
  <2>4. \A i \in Mine(c)' : call'[c].at = "done" /\ log'[p][i].status = call'[c].result
    BY <1>2, <1>3, <1>9, <2>3
  <2> SUFFICES ASSUME NEW d \in Calls
               PROVE  /\ \A i \in Mine(d)' : call'[d].at = "done"
                                             /\ log'[Path[d]][i].status = call'[d].result
                      /\ \A i, j \in Mine(d)' : i = j
                      /\ call'[d].at = "done" /\ Mine(d)' = {} =>
                            ~Audited(d)' \/ (kind'[d] = "llm" /\ call'[d].result = "cancelled")
    BY DEF MineInv
  <2>5. CASE d = c
    BY <2>3, <2>4, <2>5
  <2>6. CASE d # c
    <3>1. call'[d] = call[d] /\ Audited(d)' = Audited(d) /\ kind' = kind
      BY <1>1, <1>2, <2>6 DEF Audited
    <3> QED
      BY <2>1, <2>6, <3>1 DEF CallInv, MineInv
  <2> QED
    BY <2>5, <2>6
<1> QED
  BY <1>2, <1>4, <1>6, <1>10, <1>11 DEF CallInv

-----------------------------------------------------------------------------
LEMMA NextCalls == CallInv /\ [CallNext]_callVars => CallInv'
<1> SUFFICES ASSUME CallInv, [CallNext]_callVars PROVE CallInv'
  OBVIOUS
<1>1. CASE \E c \in Calls : Step(c)
  <2> PICK c \in Calls : Step(c)
    BY <1>1
  <2> QED
    BY StartKeeps, WakeKeeps, RespondKeeps, LineKeeps, StreamEndsKeeps, ChargeKeeps,
       FailKeeps, WorkKeeps, ToolKeeps, AcquireKeeps, AppendLineKeeps, FlushKeeps DEF Step
<1>2. CASE Cancel
  <2>1. OtherTypes'
    BY <1>2 DEF Cancel, CallInv, CallTypeOK, OtherTypes, outVars
  <2> QED
    BY <1>2, <2>1, QuietSuffices DEF Cancel, nodeVars
<1>3. CASE Echo
  <2>1. OtherTypes'
    BY <1>3 DEF Echo, CallInv, CallTypeOK, OtherTypes
  <2> QED
    BY <1>3, <2>1, QuietSuffices DEF Echo, nodeVars
<1>4. CASE UNCHANGED callVars
  <2>1. UNCHANGED <<kind, call, cancelled, cost, held, log, stdout, saved, printed>>
    BY <1>4 DEF callVars, nodeVars, outVars
  <2> QED
    BY <2>1, OthersStay, QuietSuffices
<1> QED
  BY <1>1, <1>2, <1>3, <1>4 DEF CallNext

LEMMA CallInvariant == CallSpec => []CallInv
BY InitCalls, NextCalls, PTL DEF CallSpec

\* Every reachable state is well typed.
THEOREM CallsTypeCorrect == CallSpec => []CallTypeOK
<1>1. CallInv => CallTypeOK
  BY DEF CallInv
<1> QED
  BY <1>1, CallInvariant, PTL

\* Every audited execution that ended has its one whole line, which says how it
\* ended, however many append to the file (AuditRecorder.write_event).
THEOREM LinesAreTrue == CallSpec => []LinesTellTheEnds
<1>1. CallInv => LinesTellTheEnds
  <2> SUFFICES ASSUME CallInv, NEW c \in Calls
               PROVE  /\ Cardinality(Mine(c)) <= 1
                      /\ \A i \in Mine(c) : call[c].at = "done"
                                            /\ log[Path[c]][i].status = call[c].result
                      /\ call[c].at = "done" /\ Mine(c) = {} =>
                            ~Audited(c) \/ (kind[c] = "llm" /\ call[c].result = "cancelled")
    BY DEF LinesTellTheEnds, Mine, CallInv, FileInv
  <2>1. Cardinality(Mine(c)) <= 1
    <3>1. CASE Mine(c) = {}
      BY <3>1, FS_EmptySet
    <3>2. CASE Mine(c) # {}
      <4>1. PICK i \in Mine(c) : Mine(c) = {i}
        BY <3>2 DEF CallInv, MineInv
      <4> QED
        BY <4>1, FS_Singleton
    <3> QED
      BY <3>1, <3>2
  <2> QED
    BY <2>1 DEF CallInv, MineInv
<1> QED
  BY <1>1, CallInvariant, PTL


-----------------------------------------------------------------------------
(* The charge. The budget holds the total of the charged executions; what   *)
(* ends "ok" without a provider never used any tokens.                      *)

NoTokens == {"idle", "search", "child", "tool"}
ChargedCalls == {c \in Calls : Charged(c)}
Usage == [c \in Calls |-> call[c].usage]

ChargeInv ==
    /\ \A c \in Calls : call[c].at \in NoTokens => call[c].usage = 0
    /\ IsFiniteSet(ChargedCalls)
    /\ IsTotal(Usage, ChargedCalls, cost)

\* The fold that the property names is that total.
LEMMA FoldIsTotal ==
    ASSUME NEW C \in SUBSET Calls, IsFiniteSet(C)
    PROVE  IsTotal(Usage, C, MapThenSumSet(LAMBDA c : call[c].usage, C))
<1> DEFINE P(g) == g = [s \in SUBSET C |->
                          IF s = {} THEN 0
                          ELSE call[CHOOSE x \in s : TRUE].usage
                                  + g[s \ {CHOOSE x \in s : TRUE}]]
<1>1. ASSUME NEW g
      PROVE  P(g) <=> SumsOver(Usage, C, g)
  <2> DEFINE A(s) == IF s = {} THEN 0 ELSE call[Pick(s)].usage + g[s \ {Pick(s)}]
             B(s) == IF s = {} THEN 0 ELSE Usage[Pick(s)] + g[s \ {Pick(s)}]
  <2>1. \A s \in SUBSET C : A(s) = B(s)
    BY PickIn DEF Usage
  <2>2. P(g) <=> g = [s \in SUBSET C |-> A(s)]
    BY DEF Pick
  <2>3. SumsOver(Usage, C, g) <=> g = [s \in SUBSET C |-> B(s)]
    BY DEF SumsOver
  <2> HIDE DEF A, B
  <2>4. [s \in SUBSET C |-> A(s)] = [s \in SUBSET C |-> B(s)]
    BY <2>1
  <2> QED
    BY <2>2, <2>3, <2>4
<1>2. MapThenSumSet(LAMBDA c : call[c].usage, C) = (CHOOSE g : P(g))[C]
  BY DEF MapThenSumSet, MapThenFoldSet
<1> HIDE DEF P
<1>3. (CHOOSE g : P(g)) = CHOOSE g : SumsOver(Usage, C, g)
  BY <1>1
<1> QED
  BY <1>2, <1>3, ChosenTotal

LEMMA InitCharge == CallInit => ChargeInv
<1> SUFFICES ASSUME CallInit PROVE ChargeInv
  OBVIOUS
<1>1. \A c \in Calls : call[c].usage = 0 /\ call[c].result = "none"
  BY DEF CallInit
<1>2. ChargedCalls = {} /\ cost = 0
  BY <1>1 DEF CallInit, ChargedCalls, Charged
<1> QED
  BY <1>1, <1>2, FS_EmptySet, TotalOfNone DEF ChargeInv

\* A step that charges nothing.
LEMMA NothingCharged ==
    ASSUME ChargeInv, cost' = cost,
           \A d \in Calls :
              /\ Charged(d)' <=> Charged(d)
              /\ Charged(d) => call'[d].usage = call[d].usage
              /\ call'[d].at \in NoTokens => call'[d].usage = 0
    PROVE  ChargeInv'
<1>1. ChargedCalls' = ChargedCalls
  BY DEF ChargedCalls
<1>2. \A d \in ChargedCalls : Usage[d] = Usage'[d]
  BY DEF ChargedCalls, Usage
<1>3. IsTotal(Usage', ChargedCalls, cost)
  BY <1>2, TotalSame DEF ChargeInv
<1> QED
  BY <1>1, <1>3 DEF ChargeInv

\* A step that leaves the executions and the cost alone.
LEMMA QuietCharges == ASSUME ChargeInv, UNCHANGED <<call, cost>> PROVE ChargeInv'
BY NothingCharged DEF Charged, ChargeInv

\* A step in which one execution ends "ok" and its tokens are charged.
LEMMA OneCharged ==
    ASSUME CallInv, ChargeInv, NEW c \in Calls, ~Charged(c), Charged(c)',
           \A d \in Calls : /\ d # c => call'[d] = call[d]
                            /\ call'[d].usage = call[d].usage,
           call'[c].at \notin NoTokens,
           cost' = cost + call[c].usage
    PROVE  ChargeInv'
<1> DEFINE R == ChargedCalls \union {c}
           u == [d \in R |-> call[d].usage]
<1>1. ChargedCalls' = R /\ c \notin ChargedCalls
  BY DEF ChargedCalls, Charged
<1>2. IsFiniteSet(ChargedCalls) /\ IsFiniteSet(R)
  BY FS_AddElement DEF ChargeInv
<1>3. u \in [R -> Nat] /\ u[c] = call[c].usage
  BY DEF CallInv, CallTypeOK, Call, ChargedCalls
<1>4. /\ \A d \in ChargedCalls : Usage[d] = u[d]
      /\ \A d \in R : u[d] = Usage'[d]
  BY DEF Usage, ChargedCalls
<1> HIDE DEF u
<1>5. IsTotal(u, ChargedCalls, cost)
  BY <1>4, TotalSame DEF ChargeInv
<1>6. IsTotal(u, R, cost + call[c].usage)
  BY <1>1, <1>2, <1>3, <1>5, TotalAdd
<1> HIDE DEF R
<1>7. IsTotal(Usage', R, cost')
  BY <1>4, <1>6, TotalSame
<1>8. \A d \in Calls : call'[d].at \in NoTokens => call'[d].usage = 0
  BY DEF ChargeInv
<1> QED
  BY <1>1, <1>2, <1>7, <1>8 DEF ChargeInv

\* An execution goes to another place.
LEMMA GoChargesNothing ==
    ASSUME CallInv, ChargeInv, cost' = cost, NEW c \in Calls, NEW place, Go(c, place),
           place \in NoTokens => call[c].at \in NoTokens
    PROVE  ChargeInv'
<1>1. call \in [Calls -> Call] /\ call[c] \in Call
  BY DEF CallInv, CallTypeOK
<1>2. /\ \A d \in Calls \ {c} : call'[d] = call[d]
      /\ call'[c].at = place /\ call'[c].usage = call[c].usage
      /\ call'[c].result = call[c].result
  BY <1>1 DEF Go, Call
<1>3. \A d \in Calls : /\ Charged(d)' <=> Charged(d)
                       /\ call'[d].usage = call[d].usage
                       /\ call'[d].at \in NoTokens => call'[d].usage = 0
  BY <1>2 DEF Charged, ChargeInv
<1> QED
  BY <1>3, NothingCharged

\* What Settle leaves of an execution that goes on.
LEMMA Settled ==
    ASSUME CallInv, NEW c \in Calls, NEW result, Settle(c, result)
    PROVE  /\ \A d \in Calls \ {c} : call'[d] = call[d]
           /\ call'[c].usage = call[c].usage /\ call'[c].result = result
           /\ call'[c].at \notin NoTokens
<1> DEFINE place == IF Audited(c) THEN "lock" ELSE "done"
<1>1. call \in [Calls -> Call] /\ call[c] \in Call
  BY DEF CallInv, CallTypeOK
<1>2. place \notin NoTokens
  BY DEF NoTokens
<1>3. call' = [call EXCEPT ![c].result = result, ![c].at = place]
  BY DEF Settle
<1> HIDE DEF place
<1> QED
  BY <1>1, <1>2, <1>3 DEF Call

LEMMA SettleChargesNothing ==
    ASSUME CallInv, ChargeInv, cost' = cost, NEW c \in Calls, NEW result, Settle(c, result),
           result # "ok", call[c].at \notin {"lock", "append", "flush", "done"}
    PROVE  ChargeInv'
<1>1. ~Charged(c)
  BY DEF CallInv, Local, Charged
<1>2. \A d \in Calls : /\ Charged(d)' <=> Charged(d)
                       /\ call'[d].usage = call[d].usage
                       /\ call'[d].at \in NoTokens => call'[d].usage = 0
  BY <1>1, Settled DEF Charged, ChargeInv
<1> QED
  BY <1>2, NothingCharged

LEMMA SettleCharges ==
    ASSUME CallInv, ChargeInv, NEW c \in Calls, Settle(c, "ok"),
           call[c].at \notin {"lock", "append", "flush", "done"},
           cost' = cost + call[c].usage
    PROVE  ChargeInv'
<1>1. ~Charged(c)
  BY DEF CallInv, Local, Charged
<1>2. /\ Charged(c)' /\ call'[c].at \notin NoTokens
      /\ \A d \in Calls : /\ d # c => call'[d] = call[d]
                          /\ call'[d].usage = call[d].usage
  BY Settled DEF Charged
<1> QED
  BY <1>1, <1>2, OneCharged

\* An execution that had no provider ends "ok": there is nothing to charge.
LEMMA SettleFree ==
    ASSUME CallInv, ChargeInv, cost' = cost, NEW c \in Calls, Settle(c, "ok"),
           call[c].at \in NoTokens
    PROVE  ChargeInv'
<1>1. call[c].usage = 0 /\ cost \in Nat
  BY DEF CallInv, CallTypeOK, ChargeInv
<1>2. cost' = cost + call[c].usage
  BY <1>1
<1> QED
  BY <1>2, SettleCharges DEF NoTokens

\* An execution that has no result yet changes, keeps having none, and is not
\* before its work.
LEMMA WorkChargesNothing ==
    ASSUME CallInv, ChargeInv, cost' = cost, NEW c \in Calls, NEW x,
           call' = [call EXCEPT ![c] = x], ~Charged(c), x.result # "ok", x.at \notin NoTokens
    PROVE  ChargeInv'
<1>1. \A d \in Calls \ {c} : call'[d] = call[d]
  BY DEF CallInv, CallTypeOK
<1>2. call'[c] = x
  BY DEF CallInv, CallTypeOK
<1>3. \A d \in Calls : /\ Charged(d)' <=> Charged(d)
                       /\ Charged(d) => call'[d].usage = call[d].usage
                       /\ call'[d].at \in NoTokens => call'[d].usage = 0
  BY <1>1, <1>2 DEF Charged, ChargeInv
<1> QED
  BY <1>3, NothingCharged

-----------------------------------------------------------------------------
LEMMA ProviderCharges ==
    ASSUME CallInv, ChargeInv, NEW c \in Calls,
           Wake(c) \/ Respond(c) \/ Line(c) \/ EndOfStream(c) \/ Drop(c) \/ Interrupt(c)
    PROVE  ChargeInv'
<1>1. cost' = cost /\ call[c].at \in {"backoff", "request", "stream"} /\ call[c] \in Call
  BY DEF Wake, Respond, Line, EndOfStream, Drop, Interrupt, CallInv, CallTypeOK
<1>2. ~Charged(c) /\ call[c].result # "ok"
  BY <1>1 DEF CallInv, Local, Charged
<1>3. CASE \E place \in {"failed", "answered", "backoff"} : Go(c, place)
  BY <1>1, <1>3, GoChargesNothing DEF NoTokens
<1>4. CASE Settle(c, "cancelled")
  BY <1>1, <1>4, SettleChargesNothing
<1>5. CASE \E x : /\ call' = [call EXCEPT ![c] = x]
                  /\ x.result = call[c].result
                  /\ x.at \in {"request", "stream", "answered"}
  BY <1>1, <1>2, <1>5, WorkChargesNothing DEF NoTokens
<1>6. Wake(c) => \E x : /\ call' = [call EXCEPT ![c] = x]
                        /\ x.result = call[c].result
                        /\ x.at \in {"request", "stream", "answered"}
  <2> DEFINE x == [call[c] EXCEPT !.at = "request", !.attempt = @ + 1]
  <2>1. x.result = call[c].result /\ x.at = "request"
    BY <1>1 DEF Call
  <2>2. Wake(c) => call' = [call EXCEPT ![c] = x]
    BY DEF Wake
  <2> HIDE DEF x
  <2> QED
    BY <2>1, <2>2
<1>7. Respond(c) => \/ \E place \in {"failed", "backoff"} : Go(c, place)
                    \/ \E x : /\ call' = [call EXCEPT ![c] = x]
                              /\ x.result = call[c].result
                              /\ x.at \in {"request", "stream", "answered"}
  <2> SUFFICES ASSUME Respond(c)
               PROVE  \/ \E place \in {"failed", "backoff"} : Go(c, place)
                      \/ \E x : /\ call' = [call EXCEPT ![c] = x]
                                /\ x.result = call[c].result
                                /\ x.at \in {"request", "stream", "answered"}
    OBVIOUS
  <2> DEFINE x == [call[c] EXCEPT !.at = "stream", !.parts = <<>>, !.usage = 0]
             y(u) == [call[c] EXCEPT !.at = "answered", !.usage = u]
  <2>1. \/ \E place \in {"failed", "backoff"} : Go(c, place)
        \/ call' = [call EXCEPT ![c] = x]
        \/ \E u \in 0..MaxUsage : call' = [call EXCEPT ![c] = y(u)]
    BY DEF Respond, Retry
  <2>2. x.result = call[c].result /\ x.at = "stream"
    BY <1>1 DEF Call
  <2>3. \A u : y(u).result = call[c].result /\ y(u).at = "answered"
    BY <1>1 DEF Call
  <2> HIDE DEF x, y
  <2> QED
    BY <2>1, <2>2, <2>3
<1>8. Line(c) => \/ \E place \in {"failed", "answered"} : Go(c, place)
                 \/ \E x : /\ call' = [call EXCEPT ![c] = x]
                           /\ x.result = call[c].result
                           /\ x.at \in {"request", "stream", "answered"}
  <2> SUFFICES ASSUME Line(c)
               PROVE  \/ \E place \in {"failed", "answered"} : Go(c, place)
                      \/ \E x : /\ call' = [call EXCEPT ![c] = x]
                                /\ x.result = call[c].result
                                /\ x.at \in {"request", "stream", "answered"}
    OBVIOUS
  <2> DEFINE x == [call[c] EXCEPT !.parts = Append(@, <<call[c].attempt, Len(@) + 1>>)]
             y(u) == [call[c] EXCEPT !.usage = u]
  <2>1. \/ \E place \in {"failed", "answered"} : Go(c, place)
        \/ call' = [call EXCEPT ![c] = x]
        \/ \E u \in 1..MaxUsage : call' = [call EXCEPT ![c] = y(u)]
    BY DEF Line
  <2>2. x.result = call[c].result /\ x.at = call[c].at
    BY <1>1 DEF Call
  <2>3. \A u : y(u).result = call[c].result /\ y(u).at = call[c].at
    BY <1>1 DEF Call
  <2>4. call[c].at = "stream"
    BY DEF Line
  <2> HIDE DEF x, y
  <2> QED
    BY <2>1, <2>2, <2>3, <2>4
<1>9. EndOfStream(c) \/ Drop(c) \/ Interrupt(c) =>
         \/ \E place \in {"failed", "answered", "backoff"} : Go(c, place)
         \/ Settle(c, "cancelled")
  BY DEF EndOfStream, Drop, Interrupt, Retry
<1> QED
  BY <1>3, <1>4, <1>5, <1>6, <1>7, <1>8, <1>9

LEMMA BodyCharges ==
    ASSUME CallInv, ChargeInv, NEW c \in Calls,
           \/ Start(c) \/ Charge(c) \/ NodeFails(c) \/ Search(c) \/ SandboxEnds(c)
           \/ ToolEnters(c) \/ ToolRefused(c) \/ ToolPrints(c) \/ ToolExits(c)
    PROVE  ChargeInv'
<1>1. CASE Start(c)
  <2>1. \/ Settle(c, "cancelled")
        \/ \E place \in {"failed", "request", "child", "search"} : Go(c, place)
    BY <1>1 DEF Start
  <2>2. cost' = cost /\ call[c].at = "idle"
    BY <1>1 DEF Start
  <2> QED
    BY <2>1, <2>2, GoChargesNothing, SettleChargesNothing DEF NoTokens
<1>2. CASE Charge(c)
  BY <1>2, SettleCharges DEF Charge
<1>3. CASE NodeFails(c)
  <2> DEFINE x == [call[c] EXCEPT !.at = "done", !.result = "cancelled"]
  <2>1. cost' = cost /\ call[c].at = "failed" /\ call[c] \in Call
    BY <1>3 DEF NodeFails, CallInv, CallTypeOK
  <2>2. call' = [call EXCEPT ![c] = x] \/ Settle(c, "error")
    BY <1>3 DEF NodeFails
  <2>3. x.at = "done" /\ x.result = "cancelled"
    BY <2>1 DEF Call
  <2>4. ~Charged(c)
    BY <2>1 DEF CallInv, Local, Charged
  <2> HIDE DEF x
  <2> QED
    BY <2>1, <2>2, <2>3, <2>4, WorkChargesNothing, SettleChargesNothing DEF NoTokens
<1>4. CASE Search(c)
  BY <1>4, SettleFree, GoChargesNothing DEF Search, NoTokens
<1>5. CASE SandboxEnds(c)
  <2>1. \E status \in {"PASS", "FAIL", "ERROR", "TIMEOUT"} : Settle(c, status)
    BY <1>5 DEF SandboxEnds
  <2> QED
    BY <1>5, <2>1, SettleChargesNothing DEF SandboxEnds
<1>6. CASE ToolEnters(c)
  BY <1>6, GoChargesNothing DEF ToolEnters, NoTokens
<1>7. CASE ToolRefused(c)
  BY <1>7, SettleChargesNothing DEF ToolRefused
<1>8. CASE ToolPrints(c)
  BY <1>8, QuietCharges DEF ToolPrints, nodeVars
<1>9. CASE ToolExits(c)
  BY <1>9, SettleFree, SettleChargesNothing DEF ToolExits, NoTokens
<1> QED
  BY <1>1, <1>2, <1>3, <1>4, <1>5, <1>6, <1>7, <1>8, <1>9

LEMMA LineWritten ==
    ASSUME CallInv, ChargeInv, NEW c \in Calls, Acquire(c) \/ AppendLine(c) \/ Flush(c)
    PROVE  ChargeInv'
<1>1. cost' = cost /\ \E place \in {"append", "flush", "done"} : Go(c, place)
  BY DEF Acquire, AppendLine, Flush
<1> QED
  BY <1>1, GoChargesNothing DEF NoTokens

LEMMA NextCharge == CallInv /\ ChargeInv /\ [CallNext]_callVars => ChargeInv'
<1> SUFFICES ASSUME CallInv, ChargeInv, [CallNext]_callVars PROVE ChargeInv'
  OBVIOUS
<1>1. CASE \E c \in Calls : Step(c)
  <2> PICK c \in Calls : Step(c)
    BY <1>1
  <2> QED
    BY ProviderCharges, BodyCharges, LineWritten DEF Step
<1>2. CASE Cancel \/ Echo \/ UNCHANGED callVars
  BY <1>2, QuietCharges DEF Cancel, Echo, callVars, nodeVars
<1> QED
  BY <1>1, <1>2 DEF CallNext

LEMMA ChargeInvariant == CallSpec => []ChargeInv
<1>1. CallInit => ChargeInv
  BY InitCharge
<1> QED
  BY <1>1, CallInvariant, NextCharge, PTL DEF CallSpec

\* What a node takes for the answer is the beginning of one attempt's text, however
\* often its provider was asked again (OpenRouterProvider.invoke_stream), and the
\* budget holds the tokens of the answers taken, each once (BudgetEnforcer.add_cost).
THEOREM AnswersAreCharged == CallSpec => []AnswersAreChargedOnce
<1>1. CallInv /\ ChargeInv => AnswersAreChargedOnce
  <2> SUFFICES ASSUME CallInv, ChargeInv PROVE AnswersAreChargedOnce
    OBVIOUS
  <2>1. \A c \in Calls : call[c].at = "answered" \/ Charged(c) =>
           \A i \in DOMAIN call[c].parts : call[c].parts[i] = <<call[c].attempt, i>>
    BY DEF CallInv, Local, OneAttempt, Charged
  <2>2. ChargedCalls \in SUBSET Calls
    BY DEF ChargedCalls
  <2>3. cost = MapThenSumSet(LAMBDA c : call[c].usage, ChargedCalls)
    BY <2>2, FoldIsTotal, TotalUnique DEF ChargeInv
  <2> QED
    BY <2>1, <2>3 DEF AnswersAreChargedOnce, ChargedCalls
<1> QED
  BY <1>1, CallInvariant, ChargeInvariant, PTL

=============================================================================
