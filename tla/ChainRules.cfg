SPECIFICATION Spec
CONSTANTS
    None = None
    kUint64 = 1073741824
    kUint256 = 1073741824
    kMinDifficulty = 131072
    kBombPeriod = 1
    kBombDelay <- MCBombDelay
    Configs <- MCConfigs
    Gaps = {1, 13}
    EdgeGaps = {8, 9, 12, 999, 1000, 5000}
    Transactions <- MCTransactions
    kOmmerGenerations = 2
    kMaxGasLimit = 8199
    kSecp256k1n = 11
    MaxBlocks = 5
INVARIANTS
    NoOmmerIsRewardedTwice
    VerdictsFollowTheRules
CHECK_DEADLOCK FALSE
