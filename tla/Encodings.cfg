SPECIFICATION Spec
CONSTANTS
    None = None
    kUint64Bytes = 2
    kUint256Bytes = 3
    kHashLength = 3
    kAddressLength = 2
    kBloomByteLength = 57
    kNonceLength = 2
    EmptyHash <- MCEmptyHash
    Items <- MCItems
    Damaged <- MCDamaged
    DamageBytes <- MCDamageBytes
INVARIANTS
    LengthsAreExact
    RoundTrip
    AcceptedIsCanonical
CHECK_DEADLOCK FALSE
