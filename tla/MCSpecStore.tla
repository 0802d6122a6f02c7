----------------------------- MODULE MCSpecStore -----------------------------
(* An instance of SpecStore for TLC.                                       *)
EXTENDS SpecStore, TLC

CONSTANTS a, b, n, x

Plain(name, body) ==
    [name |-> name, body |-> body, template |-> FALSE, refs |-> {}, valid |-> TRUE]

\* a is a template that runs b, b a plain workflow, n does not exist yet.
SmallStore == [w \in Workflows |->
    IF w = a THEN [Plain(a, 1) EXCEPT !.template = TRUE, !.refs = {b}]
    ELSE IF w = b THEN Plain(b, 1) ELSE NoFile]

\* A change of b, one that closes a cycle with a, one of n, one that is not a GraphSpec,
\* one under a name of its own.
SmallProposals == {
    Plain(b, 2),
    [Plain(b, 2) EXCEPT !.refs = {a}],
    Plain(n, 2),
    [Plain(b, 1) EXCEPT !.valid = FALSE],
    Plain(x, 2)}

Symmetry == Permutations(Clients)

=============================================================================
