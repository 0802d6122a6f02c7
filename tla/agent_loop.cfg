\* Every mode, every kind of request, reviewers that answer at any time or never: three
\* turns, with enough supersteps for two delegated ones. A run ends or stays paused.
CONSTANTS
    Setups <- LoopSetups
    Requests <- LoopRequests
    NodeTools = {"read_file", "write_file", "shell", "subagent"}
    Hooked = {"pre_tool_hooks"}
    ExecuteChildren = TRUE
    MaxTasks = 2
    MaxIterations = 2
    RecursionLimit = 42
    PreserveLast = 2
    PruneTo = 3
    Threshold = 3
SPECIFICATION FairSpec
INVARIANTS ToolsAreAuthorised HistoryKeepsTheLatest DelegationIsReported
PROPERTY ChainRests
CHECK_DEADLOCK FALSE
