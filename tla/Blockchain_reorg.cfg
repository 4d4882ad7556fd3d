CONSTANTS
    g = g
    a1 = a1
    a2 = a2
    b1 = b1
    b2 = b2
    c1 = c1
    contract = contract
    sender = sender
    code = code
    Address = {contract, sender}
    Key = {k}
    Value = {0, 1, 2}
    Zero = 0
    Code = {EmptyHash, code}
    EmptyHash = EmptyHash
    Ripemd = None
    None = None
    UintMod = 8
    MaxIncarnation = 6
    Block = {g, a1, a2, b1, b2, c1}
    Genesis = g
    Number <- MCNumber
    Parent <- MCParent
    Difficulty <- MCDifficulty
    Beneficiary <- MCBeneficiary
    Sender = sender
    ContractCode = code
    Reward = 1
    Contents <- MCContents
    Defects <- MCDefects
    GenesisState <- MCGenesisState

SPECIFICATION Spec

INVARIANTS
    StateIsCanonical
    BadBlocksAreBad

PROPERTIES
    ForkSpec

\* Every block is inserted, or the incarnations are used up.
CHECK_DEADLOCK FALSE
