CONSTANTS
    W8 = 2
    W16 = 4
    W32 = 8
    W64 = 10
    Edge = 3
    NegativeMod = TRUE
    Overrun = FALSE
    LongText = FALSE
SPECIFICATION WordSpec
INVARIANT Faithful
CHECK_DEADLOCK FALSE
