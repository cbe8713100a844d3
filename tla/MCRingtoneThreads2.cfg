SPECIFICATION Spec
CONSTANTS
    Call = {c1, c2}
    Threads = 2
    MaxCount = 3
    ToneMayFail = TRUE
INVARIANTS
    CountsNotNegative
CHECK_DEADLOCK FALSE
