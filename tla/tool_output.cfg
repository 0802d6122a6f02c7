\* Two python tools in one superstep.
CONSTANTS
    c1 = c1
    c2 = c2
    Calls = {c1, c2}
    Kinds = {"tool"}
    Path <- OneFile
    MaxRetries = 1
    Chunks = 1
    MaxUsage = 1
    Log = Log
SPECIFICATION CallSpec
INVARIANT OutputIsTheirs
