CONSTANTS
    contract = contract
    other = other
    code = code
    Address = {contract}
    Key = {k}
    Value = {0, 1}
    Zero = 0
    EmptyHash = EmptyHash
    Code = {EmptyHash, code}
    LogEntry = {log}
    Ripemd = other
    None = None
    UintMod = 2
    Amount = {1}
    MaxIncarnation = 2
    MaxNonce = 1
    SpuriousDragon = TRUE
    InitialDb <- MCInitialDb
    MaxJournal = 3
    MaxSnapshots = 2
    MaxLogs = 1
    MaxRefund = 1
    MaxTransactions = 1

SPECIFICATION Spec

INVARIANTS
    CodeKnown

PROPERTIES
    RevertRestores

\* A block ends: after MaxTransactions no further transaction begins.
CHECK_DEADLOCK FALSE
