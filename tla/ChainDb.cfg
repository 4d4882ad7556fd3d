SPECIFICATION Spec
CONSTANTS
    None = None
    t1 = t1
    t2 = t2
    Thread <- MC_Thread
    Flags <- MC_Flags
    Extracts <- MC_Extracts
    kOptimalBufferSize = 2
    MaxEnvs = 2
    MaxOps = 3
INVARIANTS
    CountersAreExact
    EnvironmentsOverlapOnlyWhileClosing
PROPERTIES
    OnlyCommitsPublish
    ThreadsComeToRest
CHECK_DEADLOCK FALSE
