CONSTANTS
    Sig = {2, 10, 34}
    N_SIGNALS = 32
    Thread = {t1, t2}
    MaxRaise = 3
SPECIFICATION FairSpec
INVARIANTS NothingLost NotAgain NoAbort
PROPERTY HandedOut
CHECK_DEADLOCK FALSE
