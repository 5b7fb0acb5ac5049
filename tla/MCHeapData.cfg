CONSTANTS
    Addr = {a1, a2, a3}
    Var = {x1, x2}
    Null = Null
    MaxFields = 3
    Kinds = {"value", "constructor", "ioref", "array"}
    Sizes = {2}
    MaxDepth = 4
    RefMax = 3
    ClosureCap = 1
    Reentrant = FALSE
SPECIFICATION FairSpec
INVARIANTS TypeOK NoDangling CountExact OnlyCyclesLeak
PROPERTIES Immortalized CascadeEnds
CHECK_DEADLOCK FALSE
