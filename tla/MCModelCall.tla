----------------------------- MODULE MCModelCall -----------------------------
(* Two executions whose recorders share a file, as rows of a dataset do.   *)
EXTENDS ModelCall

CONSTANTS c1, c2

OneFile == [c \in Calls |-> "node_events"]

=============================================================================
