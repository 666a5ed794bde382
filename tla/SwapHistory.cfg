SPECIFICATION Spec
CONSTANTS
    Swaps <- MCSwaps
    Parties = {"p", "q"}
    Pairs <- MCPairs
    Listers = {"p"}
    Limit = 2
    MaxClock = 1
    MaxWrites = 4
    Absent = Absent
INVARIANTS HistoryComplete HistoryOrdered HistoryFresh
