--------------------------- MODULE MCApprovalFlow ---------------------------
(* Workflows for ApprovalFlow.                                             *)
EXTENDS ApprovalFlow

CONSTANTS draft, review, confirm, wrap, plan, act

Gate(yes, no) == [v \in Verdict |-> IF v = "approved" THEN yes ELSE no]
Step(next) == [v \in {"done"} |-> next]

\* wrapper: a subgraph around a child with two gates, each with its own key.
\* agent: a gate whose rejection leads back to it, then one with the same key, as the
\* tool approvals of the coding agent loop; last a gate whose key is not declared, as
\* the plan approval of claude_code_yaml_workflow.
FlowEntry == [w \in {"wrapper", "child", "agent"} |->
    CASE w = "wrapper" -> wrap [] w = "child" -> draft [] OTHER -> act]
FlowChild == [n \in {wrap} |-> "child"]
FlowGoto == [n \in {draft, review, confirm, wrap, plan, act} |->
    CASE n = draft -> Step(review)
      [] n = review -> Gate(confirm, End)
      [] n = confirm -> Gate(End, End)
      [] n = act -> Gate(plan, act)
      [] n = plan -> Gate(End, End)
      [] OTHER -> Step(End)]
FlowKey == [n \in {review, confirm, plan, act} |->
    CASE n = review -> "approval_decision"
      [] n = plan -> "plan_approval_decision"
      [] OTHER -> "tool_approval_decision"]

WrapperOrAgent == {<<"wrapper">>, <<"agent">>}
OneAgent == {<<"agent">>}

=============================================================================
