CONSTANTS
    contract = contract
    other = other
    code = EmptyHash
    Address = {contract, other}
    Key = {k}
    Value = {0, 1}
    Zero = 0
    EmptyHash = EmptyHash
    Code = {EmptyHash}
    LogEntry = {log}
    Ripemd = other
    None = None
    UintMod = 2
    Amount = {1}
    MaxIncarnation = 2
    MaxNonce = 0
    SpuriousDragon = FALSE
    InitialDb <- MCInitialDb
    MaxJournal = 5
    MaxSnapshots = 2
    MaxLogs = 0
    MaxRefund = 0
    MaxTransactions = 1

SPECIFICATION AccountSpec

INVARIANTS
    JournalInvertible

PROPERTIES
    SnapshotsSpec
    RipemdTouchSurvives

\* A block ends: after MaxTransactions no further transaction begins.
CHECK_DEADLOCK FALSE
