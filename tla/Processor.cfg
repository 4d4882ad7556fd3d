CONSTANTS
    eoa = eoa
    con = con
    miner = miner
    ripemd = ripemd
    new1 = new1
    new2 = new2
    new3 = new3
    k1 = k1
    empty = empty
    code = code
    bigcode = bigcode
    None = None
    Address <- MCAddress
    Key <- MCKey
    Value <- MCValue
    Code <- MCCode
    Zero = 0
    EmptyHash = empty
    Ripemd = ripemd
    LogEntry = {log}
    UintMod = 1000000
    MaxIncarnation = 2
    Precompile <- MCPrecompile
    CreateAddress <- MCCreateAddress
    Create2Address <- MCCreate2Address
    CodeLength <- MCCodeLength
    kMaxCodeSize = 1
    Revision = {0, 5, 9}
    InitialDb <- MCInitialDb
    Txn <- MCTxn
    Beneficiary = miner
    GasLimit = 60000
    Ommer <- MCOmmer
    DaoChildren <- MCDaoChildren
    DaoWithdraw = miner
    Callee <- MCCallee
    Heir <- MCHeir
    OpGas = 300
    PrecompileRun <- MCPrecompileRun
    MaxTransactions = 2
    MaxDepth = 3
    MaxLogs = 1
    MaxGas = 900
SPECIFICATION Spec
INVARIANTS EtherConserved GasNeverCreated FailedTransactionLeavesNoTrace
PROPERTIES StaticCallsChangeNoAccount MeteringSpec
CHECK_DEADLOCK FALSE
