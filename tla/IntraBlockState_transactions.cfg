CONSTANTS
    contract = contract
    other = other
    code = code
    Address = {contract}
    Key = {k}
    Value = {0, 1}
    Zero = 0
    EmptyHash = EmptyHash
    Code = {EmptyHash, code}
    LogEntry = {log}
    Ripemd = other
    None = None
    UintMod = 2
    Amount = {1}
    MaxIncarnation = 2
    MaxNonce = 1
    SpuriousDragon = TRUE
    InitialDb <- MCInitialDb
    MaxJournal = 5
    MaxSnapshots = 1
    MaxLogs = 0
    MaxRefund = 0
    MaxTransactions = 3

SPECIFICATION AccountSpec

INVARIANTS
    OriginalIsTxnStart
    ChangeSetIsBlockStart
    NoOrphanedStorage


\* A block ends: after MaxTransactions no further transaction begins.
CHECK_DEADLOCK FALSE
