\* Two reviewers, a crash at any point: a wrapper around a child with two gates, or an
\* agent with a gate on a cycle and one whose key is not declared.
SPECIFICATION FairSpec
CONSTANTS
    draft = draft
    review = review
    confirm = confirm
    wrap = wrap
    plan = plan
    act = act
    End = End
    None = None
    Workflow = {"wrapper", "child", "agent"}
    Entry <- FlowEntry
    Approval = {review, confirm, plan, act}
    Subgraph = {wrap}
    Plain = {draft}
    Goto <- FlowGoto
    StateKey <- FlowKey
    Declared = {"approval_decision", "tool_approval_decision"}
    Child <- FlowChild
    Roots <- WrapperOrAgent
    Decider = {"d1", "d2"}
    MaxDecisions = 3
    MaxRuns = 8
    MaxVisits = 6
    MaxCrashes = 1
INVARIANTS DecisionsAreBacked ParentsWaitForChildren GatesAreReviewed 
     OneRunPerCall
PROPERTIES ImplementsPromise DecisionsAreRecorded
CHECK_DEADLOCK FALSE
