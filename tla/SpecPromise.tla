----------------------------- MODULE SpecPromise -----------------------------
(***************************************************************************)
(* What the store of workflow specs promises: a workflow is created once,  *)
(* and its text is replaced only after the text it had has been kept. It   *)
(* promises nothing of a workflow that two requests edited at one time.    *)
(***************************************************************************)
CONSTANTS Workflows, Text, None

VARIABLES
    current,    \* the text of every workflow, None before it exists
    kept,       \* the texts of it that can be had back
    shared      \* the workflows that two requests have edited at one time

Init ==
    /\ current \in [Workflows -> Text \union {None}]
    /\ kept = [w \in Workflows |-> {}]
    /\ shared = {}

\* Only w's text changes, to t.
Put(w, t) == t \in Text /\ current' = [current EXCEPT ![w] = t]

Create(w) ==
    /\ current[w] = None
    /\ Put(w, current'[w])
    /\ UNCHANGED <<kept, shared>>

Keep(w) ==
    /\ current[w] # None
    /\ kept' = [kept EXCEPT ![w] = @ \union {current[w]}]
    /\ UNCHANGED <<current, shared>>

Replace(w) ==
    /\ current[w] \in kept[w]
    /\ Put(w, current'[w])
    /\ UNCHANGED <<kept, shared>>

Share(w) ==
    /\ shared' = shared \union {w}
    /\ UNCHANGED <<current, kept>>

Anything(w) ==
    /\ w \in shared
    /\ current' = [current EXCEPT ![w] = current'[w]]
    /\ kept' = [kept EXCEPT ![w] = kept'[w]]
    /\ UNCHANGED shared

Next == \E w \in Workflows : Create(w) \/ Keep(w) \/ Replace(w) \/ Share(w) \/ Anything(w)

Spec == Init /\ [][Next]_<<current, kept, shared>>

=============================================================================
