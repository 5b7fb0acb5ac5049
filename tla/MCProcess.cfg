CONSTANTS
    Child = {c1, c2}
    Threaded = FALSE
    PipeFails = TRUE
    ForkFails = FALSE
    ExecFails = TRUE
    Buffered = {"stdout"}
    Cap = 1
    MaxWrites = 1
SPECIFICATION FairSpec
INVARIANTS NothingLeftOpen InheritOrder PrintedOnce
PROPERTY WaitReturns
CHECK_DEADLOCK FALSE
