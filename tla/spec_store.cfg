\* Two clients that apply, restore and copy three workflows, and a crash between any
\* two writes.
SPECIFICATION Spec
CONSTANTS
    a = a
    b = b
    n = n
    x = x
    NoFile = NoFile
    Empty = Empty
    Torn = Torn
    None = None
    Workflows = {a, b, n}
    Names = {a, b, n, x}
    Bodies = {1, 2}
    Proposals <- SmallProposals
    Stored <- SmallStore
    Titles = {x}
    Clients = {c1, c2}
    MaxAudits = 3
    MaxCrashes = 1
SYMMETRY Symmetry
INVARIANTS Recoverable TrailReplays SnapshotsRestorable
PROPERTIES AnswersAreTrue ImplementsPromise
