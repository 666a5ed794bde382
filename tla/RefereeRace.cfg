SPECIFICATION Spec
CONSTANTS
    Swaps = {s1}
    Workers = {w1, w2}
    Retry = 2
    AppendRetries = 2
    AuditBackend = "dynamodb"
    MaxFaults = 1
    Absent = Absent
INVARIANTS TypeOK NonceUsedOnce SettleNeedsSpent RefundNeedsExhaustion AuditIsChained RowIsAudited
PROPERTY NoSignatureAfterCancel
SYMMETRY WorkerSymmetry
CHECK_DEADLOCK FALSE
