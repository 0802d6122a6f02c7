\* A run under way and one to come of one workflow, a second workflow without any: one reconnect, one selection,
\* one request for the list outside a resync.
SPECIFICATION FairSpec
CONSTANTS
    Workflow = {"w1", "w2"}
    GraphOf <- TwoRuns
    Digest <- TwoStates
    Final <- Ends
    MaxConnections = 2
    MaxSwitches = 1
    MaxRefetches = 1
    Existing = {1}
    None = None
INVARIANT FingerprintsMatchWire
PROPERTIES  LateChangesArrive
