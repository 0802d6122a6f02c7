\* The agent, whose last gate has a key WorkflowState does not declare.
SPECIFICATION Spec
CONSTANTS
    draft = draft
    review = review
    confirm = confirm
    wrap = wrap
    plan = plan
    act = act
    End = End
    None = None
    Workflow = {"wrapper", "child", "agent"}
    Entry <- FlowEntry
    Approval = {review, confirm, plan, act}
    Subgraph = {wrap}
    Plain = {draft}
    Goto <- FlowGoto
    StateKey <- FlowKey
    Declared = {"approval_decision", "tool_approval_decision"}
    Child <- FlowChild
    Roots <- OneAgent
    Decider = {"d1", "d2"}
    MaxDecisions = 3
    MaxRuns = 8
    MaxVisits = 6
    MaxCrashes = 1
INVARIANTS EveryVerdictTakesEffect
CHECK_DEADLOCK FALSE
