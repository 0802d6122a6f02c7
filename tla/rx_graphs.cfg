\* Loops, a router, a fan-out with branches of length 1 and 2 and its join, in one run
\* that is entered at the start, at the gate (replay) or behind the first loop; approvals,
\* one of them beside a sibling, a subgraph, a conflict of writes, a cycle without a counter.
CONSTANTS
    Node <- Nodes
    End <- END
    Kind <- Kinding
    Edge <- Edges
    Branch <- Branches
    Loops <- BackEdgesOf
    Key <- Keys
    Output <- Outputs
    StartNodes <- Starts
    Carried <- CarriedAt
    CostBudget = 1
    MaxNodeCost = 1
    RecursionLimit = 30
SPECIFICATION FairSpec
INVARIANTS LoopCapsHold CancellationPrompt RecordsAgree OvershootBounded
PROPERTIES JoinWaitsForAll RunEnds
