CONSTANTS
    BodiesTables <- AllTables
    From = 1
    To = 4
    MaxWorkers = 2
    MaxBatchSize = 2
    Interrupts = TRUE
    StartFails = TRUE
    None = None

SPECIFICATION Spec

INVARIANTS
    CollectedInOrder
    KeysSlipOnlyByEmptyBlocks
    ReportedResultsAreKept

PROPERTIES
    RecoverReturns

\* recover returns.
CHECK_DEADLOCK FALSE
