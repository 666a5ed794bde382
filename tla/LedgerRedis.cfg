SPECIFICATION Spec
CONSTANTS
    Keys <- MCKeys
    KeyNs <- MCUnscoped
    Tokens <- MCTokens
    Requests <- InsertRaceRequests
    Workers = {w1, w2}
    Unscoped = Unscoped
    Absent = Absent
    NoReq = NoReq
    NoKey = NoKey
    MaxWats = 3
    Backend = "redis"
    MaxNonces = 1
    MaxCommits = 2
    MaxReports = 1
    Faults = TRUE
PROPERTY OnlyCreatorRevives
SYMMETRY WorkerSymmetry
