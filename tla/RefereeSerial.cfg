SPECIFICATION FairSpec
CONSTANTS
    Swaps = {s1}
    Workers = {w1}
    Retry = 3
    AppendRetries = 9
    AuditBackend = "list"
    MaxFaults = 2
    Absent = Absent
PROPERTIES TerminalIsFinal SwapResolves
CHECK_DEADLOCK FALSE
