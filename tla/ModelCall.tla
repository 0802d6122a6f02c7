------------------------------ MODULE ModelCall ------------------------------
(***************************************************************************)
(* The bodies of the leaf nodes (backend/runtime/nodes) while several of    *)
(* them run at a time, in the threads of a superstep or of a batch: the     *)
(* provider's retry loop and stream, the charge, the audit line they append *)
(* to a shared file, the sandbox, and the process-wide redirection of       *)
(* sys.stdout around a python tool.                                         *)
(***************************************************************************)
EXTENDS Integers, Sequences, FiniteSets, FiniteSetsExt

CONSTANTS
    Calls,       \* executions of nodes
    Kinds,       \* what they may be
    Path,        \* Path[c]: node_events.jsonl of the recorder of c
    MaxRetries,  \* max_retries of a node
    Chunks,      \* bound: pieces of text in a whole answer
    MaxUsage,    \* bound: tokens of an answer, at a price of 1
    Log          \* the stdout the process was started with

AllKinds == {"llm", "judge", "embedding", "sandbox", "tool", "retriever"}

ASSUME CallAssumption ==
    /\ Kinds \subseteq AllKinds
    /\ MaxRetries \in Nat /\ Chunks \in Nat /\ MaxUsage \in Nat
    /\ Log \notin Calls

VARIABLES
    kind,       \* kind[c]: which node c executes
    call,       \* call[c]: where c is and what it has
    cancelled,  \* CancellationController.is_cancelled()
    cost,       \* BudgetEnforcer.cost_accum_usd
    held,       \* the locks of _LOCKS that are held
    log,        \* log[p]: the writes to file p
    stdout,     \* sys.stdout: Log or the buffer of a tool
    saved,      \* saved[c]: what redirect_stdout of c restores
    printed     \* history: who printed and where it went

nodeVars == <<kind, call>>
outVars == <<stdout, saved, printed>>
callVars == <<nodeVars, cancelled, cost, held, log, outVars>>

Streams(c) == kind[c] \in {"llm", "judge"}
Audited(c) == kind[c] \notin {"judge", "sandbox"}
Paths == {Path[c] : c \in Calls}

Ends == {"ok", "error", "cancelled", "PASS", "FAIL", "ERROR", "TIMEOUT"}
Places == {"idle", "request", "stream", "backoff", "answered", "failed", "search", "child",
           "tool", "lock", "append", "flush", "done"}
\* parts holds <<attempt, number>> of each piece of text.
Call == [at : Places, attempt : Nat, parts : Seq(Nat \X Nat), usage : Nat,
         result : Ends \union {"none"}]
Write == [call : Calls, half : {1, 2}, status : Ends]

CallTypeOK ==
    /\ kind \in [Calls -> Kinds]
    /\ call \in [Calls -> Call]
    /\ cancelled \in BOOLEAN
    /\ cost \in Nat
    /\ held \subseteq Paths \union Calls
    /\ log \in [Paths -> Seq(Write)]
    /\ stdout \in Calls \union {Log}
    /\ saved \in [Calls -> Calls \union {Log}]
    /\ printed \subseteq (Calls \union {Log}) \X (Calls \union {Log})

CallInit ==
    /\ kind \in [Calls -> Kinds]
    /\ call = [c \in Calls |-> [at |-> "idle", attempt |-> 0, parts |-> <<>>, usage |-> 0,
                                result |-> "none"]]
    /\ cancelled = FALSE /\ cost = 0
    /\ held = {} /\ log = [p \in Paths |-> <<>>]
    /\ stdout = Log /\ saved = [c \in Calls |-> Log] /\ printed = {}

Cancel ==
    /\ ~cancelled /\ cancelled' = TRUE
    /\ UNCHANGED <<nodeVars, cost, held, log, outVars>>

-----------------------------------------------------------------------------
(* How a node body ends: it writes its audit line, if it has a recorder.   *)

Go(c, place) == call' = [call EXCEPT ![c].at = place]

Settle(c, result) ==
    call' = [call EXCEPT ![c].result = result, ![c].at = IF Audited(c) THEN "lock" ELSE "done"]

\* Prompt, key, image and provider are looked up before anything is sent; an
\* embedding node also looks at the controller.
Start(c) ==
    /\ call[c].at = "idle"
    /\ \/ /\ kind[c] = "embedding" /\ cancelled /\ Settle(c, "cancelled")
       \/ /\ ~(kind[c] = "embedding" /\ cancelled)
          /\ kind[c] \in {"llm", "judge", "embedding"}
          /\ Go(c, IF MaxRetries = 0 THEN "failed" ELSE "request") \/ Go(c, "failed")
       \/ kind[c] = "sandbox" /\ Go(c, "child")
       \/ kind[c] = "retriever" /\ (Go(c, "search") \/ Go(c, "failed"))
    /\ UNCHANGED <<kind, cancelled, cost, held, log, outVars>>

-----------------------------------------------------------------------------
(* The retry loop of the providers.                                        *)

\* A status other than 200, a malformed answer or an httpx error.
Retry(c) == Go(c, IF call[c].attempt = MaxRetries - 1 THEN "failed" ELSE "backoff")

Wake(c) ==
    /\ call[c].at = "backoff"
    /\ call' = [call EXCEPT ![c].at = "request", ![c].attempt = @ + 1]
    /\ UNCHANGED <<kind, cancelled, cost, held, log, outVars>>

\* Seeded defect: the pieces of the failed attempt are kept.
RespondKeepingParts(c) ==
    /\ call[c].at = "request"
    /\ \/ Streams(c) /\ Go(c, "stream")
       \/ ~Streams(c) /\ \E u \in 0..MaxUsage :
             call' = [call EXCEPT ![c].at = "answered", ![c].usage = u]
       \/ Retry(c)
       \/ Go(c, "failed")
    /\ UNCHANGED <<kind, cancelled, cost, held, log, outVars>>

\* The answer to a request: a stream begins, an embedding is there; the last
\* disjunct is an exception the loop does not catch (a body that is no JSON).
Respond(c) ==
    /\ call[c].at = "request"
    /\ \/ Streams(c) /\ call' = [call EXCEPT ![c].at = "stream", ![c].parts = <<>>,
                                             ![c].usage = 0]
       \/ ~Streams(c) /\ \E u \in 0..MaxUsage :
             call' = [call EXCEPT ![c].at = "answered", ![c].usage = u]
       \/ Retry(c)
       \/ Go(c, "failed")
    /\ UNCHANGED <<kind, cancelled, cost, held, log, outVars>>

\* Seeded defect: only a line that carries data is preceded by the check.
InterruptAtData(c) ==
    /\ call[c].at = "stream" /\ cancelled
    /\ Len(call[c].parts) < Chunks
    /\ Settle(c, "cancelled")
    /\ UNCHANGED <<kind, cancelled, cost, held, log, outVars>>

\* A line arrives, be it a comment that keeps the connection alive.
Interrupt(c) ==
    /\ call[c].at = "stream" /\ cancelled
    /\ Settle(c, "cancelled")
    /\ UNCHANGED <<kind, cancelled, cost, held, log, outVars>>

Line(c) ==
    /\ call[c].at = "stream" /\ ~cancelled
    /\ \/ /\ Len(call[c].parts) < Chunks /\ call[c].usage = 0
          /\ call' = [call EXCEPT ![c].parts = Append(@, <<call[c].attempt, Len(@) + 1>>)]
       \/ /\ Len(call[c].parts) = Chunks /\ call[c].usage = 0
          /\ \E u \in 1..MaxUsage : call' = [call EXCEPT ![c].usage = u]
       \/ Len(call[c].parts) = Chunks /\ Go(c, "answered")  \* [DONE]
       \/ Go(c, "failed")                                   \* JSON that is no object
    /\ UNCHANGED <<kind, cancelled, cost, held, log, outVars>>

\* The stream ends without [DONE], which is taken for the whole answer.
EndOfStream(c) ==
    /\ call[c].at = "stream"
    /\ Go(c, "answered")
    /\ UNCHANGED <<kind, cancelled, cost, held, log, outVars>>

Drop(c) ==
    /\ call[c].at = "stream"
    /\ Retry(c)
    /\ UNCHANGED <<kind, cancelled, cost, held, log, outVars>>

-----------------------------------------------------------------------------
(* The node bodies around the provider call.                               *)

Charge(c) ==
    /\ call[c].at = "answered"
    /\ cost' = cost + call[c].usage
    /\ Settle(c, "ok")
    /\ UNCHANGED <<kind, cancelled, held, log, outVars>>

\* An LLM node that failed while the run was being cancelled ends cancelled, and
\* writes no line.
NodeFails(c) ==
    /\ call[c].at = "failed"
    /\ IF kind[c] = "llm" /\ cancelled
       THEN call' = [call EXCEPT ![c].at = "done", ![c].result = "cancelled"]
       ELSE Settle(c, "error")
    /\ UNCHANGED <<kind, cancelled, cost, held, log, outVars>>

\* _search_index: the rows of one of three tables, or none of them is there.
Search(c) ==
    /\ call[c].at = "search"
    /\ Settle(c, "ok") \/ Go(c, "failed")
    /\ UNCHANGED <<kind, cancelled, cost, held, log, outVars>>

\* The last result line of the child decides; a child that prints none (killed,
\* out of memory, sys.exit) is an ERROR, one that runs too long is killed.
SandboxEnds(c) ==
    /\ call[c].at = "child"
    /\ \E status \in {"PASS", "FAIL", "ERROR", "TIMEOUT"} : Settle(c, status)
    /\ UNCHANGED <<kind, cancelled, cost, held, log, outVars>>

\* redirect_stdout: __enter__ remembers sys.stdout and replaces it.
ToolEnters(c) ==
    /\ call[c].at = "idle" /\ kind[c] = "tool"
    /\ Go(c, "tool")
    /\ saved' = [saved EXCEPT ![c] = stdout]
    /\ stdout' = c
    /\ UNCHANGED <<kind, cancelled, cost, held, log, printed>>

\* The callable is not allowed, not importable or lacks a key.
ToolRefused(c) ==
    /\ call[c].at = "idle" /\ kind[c] = "tool"
    /\ Settle(c, "error")
    /\ UNCHANGED <<kind, cancelled, cost, held, log, outVars>>

ToolPrints(c) ==
    /\ call[c].at = "tool"
    /\ printed' = printed \union {<<c, stdout>>}
    /\ UNCHANGED <<nodeVars, cancelled, cost, held, log, stdout, saved>>

\* The callable returns or raises; __exit__ puts back what __enter__ found.
ToolExits(c) ==
    /\ call[c].at = "tool"
    /\ Settle(c, "ok") \/ Settle(c, "error")
    /\ stdout' = saved[c]
    /\ UNCHANGED <<kind, cancelled, cost, held, log, saved, printed>>

\* The command prints its result when all is done.
Echo ==
    /\ \A c \in Calls : call[c].at = "done"
    /\ printed' = printed \union {<<Log, stdout>>}
    /\ UNCHANGED <<nodeVars, cancelled, cost, held, log, stdout, saved>>

-----------------------------------------------------------------------------
(* AuditRecorder.write_event: a line that does not fit the file's buffer    *)
(* reaches the file in several writes, under the lock of its path.         *)

\* Seeded defect: one lock per recorder.
LockPerRecorder(c) == c

LockFor(c) == Path[c]

Acquire(c) ==
    /\ call[c].at = "lock"
    /\ LockFor(c) \notin held
    /\ held' = held \union {LockFor(c)}
    /\ Go(c, "append")
    /\ UNCHANGED <<kind, cancelled, cost, log, outVars>>

Half(c, n) == [call |-> c, half |-> n, status |-> call[c].result]

AppendLine(c) ==
    /\ call[c].at = "append"
    /\ log' = [log EXCEPT ![Path[c]] = Append(@, Half(c, 1))]
    /\ Go(c, "flush")
    /\ UNCHANGED <<kind, cancelled, cost, held, outVars>>

Flush(c) ==
    /\ call[c].at = "flush"
    /\ log' = [log EXCEPT ![Path[c]] = Append(@, Half(c, 2))]
    /\ held' = held \ {LockFor(c)}
    /\ Go(c, "done")
    /\ UNCHANGED <<kind, cancelled, cost, outVars>>

-----------------------------------------------------------------------------
Step(c) ==
    \/ Start(c) \/ Wake(c) \/ Respond(c) \/ Interrupt(c) \/ Line(c) \/ EndOfStream(c) \/ Drop(c)
    \/ Charge(c) \/ NodeFails(c) \/ Search(c) \/ SandboxEnds(c)
    \/ ToolEnters(c) \/ ToolRefused(c) \/ ToolPrints(c) \/ ToolExits(c)
    \/ Acquire(c) \/ AppendLine(c) \/ Flush(c)

CallNext == Cancel \/ Echo \/ \E c \in Calls : Step(c)

CallSpec == CallInit /\ [][CallNext]_callVars

\* A thread that can go on does; a request is answered or times out; a stream
\* that is open brings a line within the read timeout or breaks off. Nothing is
\* assumed of what a stream brings, nor of a tool.
Fairness ==
    \A c \in Calls :
        /\ WF_callVars(Respond(c)) /\ WF_callVars(Interrupt(c)) /\ WF_callVars(Wake(c))
        /\ WF_callVars(Charge(c)) /\ WF_callVars(NodeFails(c)) /\ WF_callVars(Search(c))
        /\ WF_callVars(SandboxEnds(c))
        /\ WF_callVars(Acquire(c)) /\ WF_callVars(AppendLine(c)) /\ WF_callVars(Flush(c))

FairCallSpec == CallSpec /\ Fairness

-----------------------------------------------------------------------------
Charged(c) == call[c].result = "ok"

\* What a node takes for the answer is the beginning of the text of one attempt,
\* without a gap or a repetition, however often the stream broke off before; and
\* the budget holds the tokens of those answers, each once, and of nothing else.
AnswersAreChargedOnce ==
    /\ \A c \in Calls : call[c].at = "answered" \/ Charged(c) =>
          \A i \in DOMAIN call[c].parts : call[c].parts[i] = <<call[c].attempt, i>>
    /\ cost = MapThenSumSet(LAMBDA c : call[c].usage, {c \in Calls : Charged(c)})

\* Whole lines: whichever nodes append to one file at a time, its writes are pairs
\* of halves of one line.
WholeLines ==
    \A p \in Paths : \A i \in DOMAIN log[p] :
        /\ log[p][i].half = 1 <=> i % 2 = 1
        /\ log[p][i].half = 2 => log[p][i - 1] = [log[p][i] EXCEPT !.half = 1]

\* One line for each audited node that ended, which says how it did; only an LLM
\* node cancelled while it was failing leaves none.
LinesTellTheEnds ==
    /\ WholeLines
    /\ \A c \in Calls :
          LET mine == {i \in DOMAIN log[Path[c]] :
                          log[Path[c]][i].call = c /\ log[Path[c]][i].half = 2}
          IN  /\ Cardinality(mine) <= 1
              /\ \A i \in mine : call[c].at = "done" /\ log[Path[c]][i].status = call[c].result
              /\ call[c].at = "done" /\ mine = {} =>
                    ~Audited(c) \/ (kind[c] = "llm" /\ call[c].result = "cancelled")

\* After a cancellation every node that was running ends, however often its
\* provider fails and although a stream may be kept alive for good. (What a python
\* tool runs is not interrupted.)
CancelledCallsEnd ==
    cancelled ~> \A c \in Calls : kind[c] # "tool" => call[c].at \in {"idle", "done"}

\* What a tool prints goes to its own node, and what the command prints to the
\* stdout it was started with.
OutputIsTheirs == \A p \in printed : p[1] = p[2]

=============================================================================
