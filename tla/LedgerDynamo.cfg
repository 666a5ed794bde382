SPECIFICATION Spec
CONSTANTS
    Keys <- MCKeys
    KeyNs <- MCUnscoped
    Tokens <- MCTokens
    Requests <- InsertRaceRequests
    Workers = {w1, w2}
    Unscoped = Unscoped
    Absent = Absent
    NoReq = NoReq
    NoKey = NoKey
    MaxWats = 3
    Backend = "dynamodb"
    MaxNonces = 1
    MaxCommits = 2
    MaxReports = 1
    Faults = TRUE
INVARIANT NoUnauditedSpend
SYMMETRY WorkerSymmetry
