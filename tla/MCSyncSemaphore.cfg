CONSTANTS
    Thread = {t1, t2, t3}
    Nobody = Nobody
    Value = {}
    Null = Null
    Initial = 0
    SemaWaiters = {t1, t2}
    NumThreads = 2
    Latecomers = TRUE
    Timeout = 1
    MaxOps = 1
SPECIFICATION Spec
INVARIANT SemaphoreSound
CHECK_DEADLOCK FALSE
