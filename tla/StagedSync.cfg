SPECIFICATION Spec
CONSTANTS
    None = None
    NoChange = NoChange
    MissingSenders = MissingSenders
    EmptyHash = EmptyHash
    CodeHash = CodeHash
    Address <- MCAddress
    Location <- MCLocation
    GenesisBalance <- MCGenesisBalance
    Chains <- MCChains
    Keccak <- MCKeccak
    Beyond <- MCBeyond
    InitialHead = 2
    ToBlock = {4}
    BatchSize = {1, 9}
    RecoverFrom = {1, 3}
    UnwindTo = {2}
    MaxIncarnation = 2
    MaxRuns = 3
    kBitmapChunkLimit = 9
    kBitmapBufferSizeLimit = 3
INVARIANTS
    CommittedStateIsChainState
    AccountHistoryIsExact
    ChangeSetsAreReproducible
    HashedAccountsFollow
    LookupsAreExact
    
    
    
PROPERTIES
    ExecuteTerminates
CHECK_DEADLOCK FALSE
