SPECIFICATION Spec
CONSTANTS
    Keys <- MCVoucherKeys
    KeyNs <- MCScoped
    Tokens <- MCVoucherTokens
    Requests <- VoucherRequests
    Workers = {w1, w2}
    Unscoped = Unscoped
    Absent = Absent
    NoReq = NoReq
    NoKey = NoKey
    MaxWats = 3
    Backend = "fdb"
    MaxNonces = 1
    MaxCommits = 9
    MaxReports = 1
    Faults = TRUE
INVARIANTS TypeOK SingleUse SpentIffAudited AuditIsCausal ValueIsAudited AuditInOneNamespace
PROPERTIES RecordsStable ImplementsRegistry
SYMMETRY WorkerSymmetry
