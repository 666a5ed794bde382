SPECIFICATION Spec
CONSTANTS
    Keys <- MCKeys
    KeyNs <- OneContract
    Unscoped = Unscoped
    Tokens <- MCTokens
    MaxWats = 7
    Absent = Absent
    Workers = {w1, w2}
    FungibleRequests <- MCFungible
    CollectibleRequests <- MCCollectible
    MaxClock = 2
    MaxFaults = 1
    NoLock = NoLock
    NoReq = NoReq
INVARIANTS CacheAgrees HealthFresh
PROPERTIES LockHolds NoDoubleSpend WindowStartsClosed
SYMMETRY WorkerSymmetry
