SPECIFICATION Spec
CONSTANTS
    Swaps = {s1}
    Workers = {w1, w2}
    Retry = 2
    AppendRetries = 2
    AuditBackend = "list"
    MaxFaults = 0
    Absent = Absent
PROPERTY TerminalIsFinal
SYMMETRY WorkerSymmetry
CHECK_DEADLOCK FALSE
