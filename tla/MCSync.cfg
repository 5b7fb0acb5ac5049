CONSTANTS
    Thread = {t1, t2, t3}
    Nobody = Nobody
    Value = {v1, v2}
    Null = Null
    Initial = 0
    SemaWaiters = {t1}
    NumThreads = 2
    Latecomers = FALSE
    Timeout = 1
    MaxOps = 2
SPECIFICATION FairSpec
INVARIANTS SemaphoreSound BarrierTogether ChannelExact NothingOverlooked
PROPERTIES NoLostWakeup TimeoutReturns ImplementsBuffer
CHECK_DEADLOCK FALSE
