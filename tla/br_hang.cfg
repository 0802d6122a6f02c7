\* A batch that is cancelled while items wait for a worker.
SPECIFICATION FairBatchSpec
CONSTANTS
    Items = 3
    MaxConcurrency = 2
    Cancellable = TRUE
PROPERTY CancelledBatchesReturn
