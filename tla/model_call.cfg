\* Two nodes of any kind on one audit file, three attempts each.
CONSTANTS
    c1 = c1
    c2 = c2
    Calls = {c1, c2}
    Kinds <- AllKinds
    Path <- OneFile
    MaxRetries = 3
    Chunks = 2
    MaxUsage = 2
    Log = Log
SPECIFICATION FairCallSpec
INVARIANTS AnswersAreChargedOnce LinesTellTheEnds
PROPERTY CancelledCallsEnd
