\* Items that fail or are cancelled, at any point of the batch.
SPECIFICATION FairBatchSpec
CONSTANTS
    Items = 4
    MaxConcurrency = 2
    Cancellable = TRUE
INVARIANT ResultsInOrder
PROPERTY BatchReturns
