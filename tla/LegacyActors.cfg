SPECIFICATION Spec
CONSTANTS
    ka = ka
    kb = kb
    kc = kc
    Keys = {ka, kb, kc}
    KeyNs <- MCKeyNs
    Unscoped = "unscoped"
    Tokens <- MCTokens
    MaxWats = 7
    Absent = Absent
    Requests <- MCRequests
    Backends = {"redis", "dynamodb"}
    BufferSize = 2
    ReportsPerEpoch = 2
    MiningAmount = 1
    SubsidyAmount = 1
    InitialDifficulty = 2
    MaxCalls = 3
    MaxFaults = 1
    NoReq = NoReq
    NoCall = NoCall
INVARIANTS
    TypeOK
    SuccessIsOwn
    AcceptedIsCounted
    MemoryTracksStore
PROPERTIES
    SpentStays
    TargetMovesByEpoch
    EveryCallAnswered
CHECK_DEADLOCK FALSE
