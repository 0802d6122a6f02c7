\* A command-line eval that may update the baseline, an optimization of two
\* candidates and edits of the spec and the fixtures, in any order; or a dataset eval.
SPECIFICATION Spec
CONSTANTS
    Fixtures = 2
    PerFixture = 1
    Decision <- OneDecision
    Candidates = 2
    Cap = 6
    Costs = {1, 2}
    Gallery = {"match", "second", "same", "other", "background"}
    Pid <- People
    Cam <- Cameras
    QueryPid = 7
    QueryCam = 1
    MaxEdits = 1
    MaxEvals = 1
    MaxRanked = 3
    NoBaseline = NoBaseline
    Torn = Torn
INVARIANTS CapHolds RecommendationStands EvidenceIsWhole FreshMeansMeasured MetricsAreSound
CHECK_DEADLOCK FALSE
