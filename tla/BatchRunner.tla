---------------------------- MODULE BatchRunner ----------------------------
(***************************************************************************)
(* run_workflow_batch (backend/runtime/functions.py): a main thread that   *)
(* keeps at most max_concurrency items with the worker threads of a pool,   *)
(* collects the finished ones in whatever order they end, and returns the   *)
(* results in the order of the items.                                      *)
(***************************************************************************)
EXTENDS Integers, FiniteSets

CONSTANTS
    Items,           \* len(items)
    MaxConcurrency,  \* max_concurrency
    Cancellable      \* a CancellationController was given

ASSUME BatchAssumption ==
    /\ Items \in Nat
    /\ MaxConcurrency \in Nat \ {0}
    /\ Cancellable \in BOOLEAN

Item == 1..Items

VARIABLES
    pc,         \* where the main thread is
    next,       \* next_index: the items before it were submitted
    pending,    \* the futures waited for
    done,       \* futures wait() returned that were not collected yet
    outcome,    \* outcome[i]: how item i's run ended, "none" before
    working,    \* items a worker is running
    started,    \* history: how often a worker took item i
    results,    \* the list of results
    event       \* CancellationController._event

batchVars == <<pc, next, pending, done, outcome, working, started, results, event>>

PCs == {"fill", "submit", "wait", "collect", "gather", "returned"}
Outcomes == {"ok", "error", "cancelled"}
Maybe == Outcomes \union {"none"}

BatchTypeOK ==
    /\ pc \in PCs
    /\ next \in 1..(Items + 1)
    /\ pending \subseteq Item /\ done \subseteq Item /\ working \subseteq Item
    /\ outcome \in [Item -> Maybe]
    /\ started \in [Item -> Nat]
    /\ results \in [Item -> Maybe]
    /\ event \in BOOLEAN

BatchInit ==
    /\ pc = "fill"
    /\ next = 1
    /\ pending = {} /\ done = {} /\ working = {}
    /\ outcome = [i \in Item |-> "none"]
    /\ started = [i \in Item |-> 0]
    /\ results = [i \in Item |-> "none"]
    /\ event \in (IF Cancellable THEN BOOLEAN ELSE {FALSE})

-----------------------------------------------------------------------------
(* The main thread: both fill loops are the same loop.                     *)

HasRoom == next <= Items /\ Cardinality(pending) < MaxConcurrency

\* _submit_next has found the flag clear.
CheckCancelled ==
    /\ pc = "fill"
    /\ HasRoom
    /\ ~event
    /\ pc' = "submit"
    /\ UNCHANGED <<next, pending, done, outcome, working, started, results, event>>

\* _submit_next returns without submitting; the loop calls it again.
SkipCancelled ==
    /\ pc = "fill"
    /\ HasRoom
    /\ event
    /\ UNCHANGED batchVars

\* Seeded defect: next_index is not advanced.
SubmitSame ==
    /\ pc = "submit"
    /\ pending' = pending \union {next}
    /\ pc' = "fill"
    /\ UNCHANGED <<next, done, outcome, working, started, results, event>>

Submit ==
    /\ pc = "submit"
    /\ pending' = pending \union {next}
    /\ next' = next + 1
    /\ pc' = "fill"
    /\ UNCHANGED <<done, outcome, working, started, results, event>>

EndFill ==
    /\ pc = "fill"
    /\ ~HasRoom
    /\ pc' = IF pending = {} THEN "gather" ELSE "wait"
    /\ UNCHANGED <<next, pending, done, outcome, working, started, results, event>>

\* Seeded defect: one of the finished futures is taken, the others are dropped.
WaitForOne ==
    /\ pc = "wait"
    /\ \E i \in pending : outcome[i] # "none" /\ done' = {i}
    /\ pending' = {i \in pending : outcome[i] = "none"}
    /\ pc' = "collect"
    /\ UNCHANGED <<next, outcome, working, started, results, event>>

\* wait(pending, return_when=FIRST_COMPLETED)
Wait ==
    /\ pc = "wait"
    /\ \E i \in pending : outcome[i] # "none"
    /\ done' = {i \in pending : outcome[i] # "none"}
    /\ pending' = pending \ done'
    /\ pc' = "collect"
    /\ UNCHANGED <<next, outcome, working, started, results, event>>

Collect(i) ==
    /\ pc = "collect"
    /\ i \in done
    /\ done' = done \ {i}
    /\ results' = [results EXCEPT ![i] = outcome[i]]
    /\ event' = (event \/ (outcome[i] = "cancelled" /\ Cancellable))
    /\ UNCHANGED <<pc, next, pending, outcome, working, started>>

EndCollect ==
    /\ pc = "collect"
    /\ done = {}
    /\ pc' = "fill"
    /\ UNCHANGED <<next, pending, done, outcome, working, started, results, event>>

\* Items without a result were "cancelled before scheduling".
Gather ==
    /\ pc = "gather"
    /\ results' = [i \in Item |-> IF results[i] = "none" THEN "cancelled" ELSE results[i]]
    /\ pc' = "returned"
    /\ UNCHANGED <<next, pending, done, outcome, working, started, event>>

-----------------------------------------------------------------------------
(* A worker of the pool runs _run: a run_graph call, any exception of which *)
(* becomes the result "error".                                             *)

TakeItem(i) ==
    /\ i \in pending
    /\ i \notin working /\ outcome[i] = "none"
    /\ working' = working \union {i}
    /\ started' = [started EXCEPT ![i] = IF @ < 2 THEN @ + 1 ELSE @]
    /\ UNCHANGED <<pc, next, pending, done, outcome, results, event>>

\* A run is "cancelled" only once the controller is.
EndItem(i) ==
    /\ i \in working
    /\ working' = working \ {i}
    /\ \E o \in IF event THEN Outcomes ELSE {"ok", "error"} :
          outcome' = [outcome EXCEPT ![i] = o]
    /\ UNCHANGED <<pc, next, pending, done, started, results, event>>

CancelBatch ==
    /\ Cancellable /\ ~event
    /\ pc # "returned"
    /\ event' = TRUE
    /\ UNCHANGED <<pc, next, pending, done, outcome, working, started, results>>

-----------------------------------------------------------------------------
MainStep ==
    \/ CheckCancelled \/ SkipCancelled \/ Submit \/ EndFill \/ Wait \/ EndCollect \/ Gather
    \/ \E i \in Item : Collect(i)

PoolStep == \E i \in Item : TakeItem(i) \/ EndItem(i)

Returned == pc = "returned" /\ UNCHANGED batchVars

BatchNext == MainStep \/ PoolStep \/ CancelBatch \/ Returned

BatchSpec == BatchInit /\ [][BatchNext]_batchVars

\* The main thread runs, and every item handed to the pool is taken and ends.
FairBatchSpec == /\ BatchSpec
            /\ WF_batchVars(MainStep)
            /\ \A i \in Item : WF_batchVars(TakeItem(i)) /\ WF_batchVars(EndItem(i))

-----------------------------------------------------------------------------
\* The pool never runs more items at a time than the caller allowed, also while
\* finished futures are still being collected.
ConcurrencyBounded == Cardinality(working) <= MaxConcurrency

\* Every item that was handed to the pool is run once and its own result is the
\* one at its place, however many futures finish between two waits; an item that
\* never was is reported cancelled.
ResultsInOrder ==
    pc = "returned" => \A i \in Item :
        /\ i < next => started[i] = 1 /\ results[i] = outcome[i]
        /\ i >= next => started[i] = 0 /\ results[i] = "cancelled"
        /\ working = {}

\* The fill loop has room and items, and the flag keeps it from submitting any.
Stuck == pc = "fill" /\ HasRoom /\ event

\* A batch returns, whatever its items end with and whenever it is cancelled, unless the
\* cancellation meets the fill loop with items left and room in the pool.
BatchReturns == <>(pc = "returned" \/ Stuck)

\* What the README says of a Ctrl+C: a cancelled batch, too, comes to its end.
CancelledBatchesReturn == <>(pc = "returned")

=============================================================================
