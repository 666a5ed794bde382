SPECIFICATION FairSpec
CONSTANTS
    Keys <- MCKeys
    KeyNs <- MCUnscoped
    Tokens <- MCTokens
    Requests <- LiveRequests
    Workers = {w1, w2}
    Unscoped = Unscoped
    Absent = Absent
    NoReq = NoReq
    NoKey = NoKey
    MaxWats = 3
    Backend = "fdb"
    MaxNonces = 1
    MaxCommits = 9
    MaxReports = 3
    Faults = TRUE
INVARIANTS HealthTruthful CountNeverAhead
PROPERTY EveryRequestAnswered
