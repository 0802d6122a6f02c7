--------------------------- MODULE MCRunExecutor ---------------------------
(***************************************************************************)
(* A graph for RunExecutor of two parts, which runs are entered in at their *)
(* own start nodes: one with the shapes of coder_tester, supervisor_loop and *)
(* dispatch_aggregate, one with those of approval_subgraph_wrapper.         *)
(***************************************************************************)
EXTENDS RunExecutor, TLC

END == "__end__"

(* planner -> coder -> tester -> gate, which goes back to the coder on failure; *)
(* then supervisor -> router -> (prep -> (a -> c | b) -> join | writer | END),  *)
(* where the join and the writer loop back to the supervisor.               *)
StudioNodes == {"planner", "coder", "tester", "gate",
                "supervisor", "router", "prep", "a", "b", "c", "join", "writer"}

(* draft -> (review | memo); review (approval) -> child (subgraph) -> signoff      *)
(* (approval) -> publish -> (left | right), which write one key; a rejection goes *)
(* back to the draft, a cycle that no loop counter covers.                        *)
ReviewNodes == {"draft", "memo", "review", "child", "signoff", "publish", "left", "right"}

Nodes == StudioNodes \union ReviewNodes
Kinding == [n \in Nodes |->
               CASE n = "child" -> "subgraph"
                 [] n \in {"review", "signoff"} -> "approval"
                 [] n \in {"gate", "router"} -> n
                 [] OTHER -> "plain"]
Edges ==
    {<<"planner", "coder">>, <<"coder", "tester">>, <<"tester", "gate">>,
     <<"supervisor", "router">>, <<"prep", "a">>, <<"prep", "b">>, <<"a", "c">>,
     <<"c", "join">>, <<"b", "join">>,
     <<"draft", "review">>, <<"draft", "memo">>, <<"child", "signoff">>,
     <<"publish", "left">>, <<"publish", "right">>}
Branches ==
    "gate" :> [pass |-> "supervisor", fail |-> "coder"]
    @@ "router" :> [team |-> "prep", solo |-> "writer", default |-> END]
    @@ "review" :> [approved |-> "child", rejected |-> "draft"]
    @@ "signoff" :> [approved |-> "publish", rejected |-> "draft"]
BackEdgesOf ==
    <<[from |-> "gate", to |-> "coder", max |-> 2],
      [from |-> "join", to |-> "supervisor", max |-> 2],
      [from |-> "writer", to |-> "supervisor", max |-> 1]>>
Keys == (Nodes \ {"left", "right"}) \union {"answer"}
Outputs == [n \in Nodes |-> IF n \in {"left", "right"} THEN {"answer"} ELSE {n}]

\* New runs, replays of a snapshot, continuations of a paused run, and a start node
\* that was removed from the workflow.
Starts == {"planner", "gate", "supervisor", "draft", "review", "signoff", "publish", "removed"}

Deciding(r, s) == ("review" :> r) @@ ("signoff" :> s)
Fresh == [decision |-> Deciding("none", "none"), counts |-> <<0, 0, 0>>]

\* A snapshot replayed at the gate brings any count of its loop, a continuation the verdict
\* of the gate it is entered at beside the earlier one.
CarriedAt ==
    [n \in Starts |->
        CASE n = "gate" -> {[Fresh EXCEPT !.counts[1] = c] : c \in 0..2}
          [] n = "review" ->
                 {[Fresh EXCEPT !.decision = Deciding(v, "none")] : v \in {"approved", "rejected"}}
          [] n = "signoff" ->
                 {[Fresh EXCEPT !.decision = Deciding("approved", v)] :
                      v \in {"approved", "rejected"}}
          [] OTHER -> {Fresh}]

\* No join target starts but by its waiting edge: what the theorem about joins requires.
ASSUME CoveredByTheorems == JoinsOnlyWait

=============================================================================
