SPECIFICATION Spec
CONSTANTS
    Base = 2
    Decimals = 2
    MaxWats = 9
    HexLen = 2
    FpLen = 1
    Samples <- MCSamples
    MaxEdits = 2
INVARIANTS GrammarExact RoundTrip
CHECK_DEADLOCK FALSE
