CONSTANTS
    Addr = {a1, a2, a3, a4}
    Var = {x1, x2, x3}
    Null = Null
    MaxFields = 3
    Kinds = {"value", "closure", "gcpointer"}
    Sizes = {1, 2}
    MaxDepth = 4
    RefMax = 4
    ClosureCap = 2
    Reentrant = FALSE
SPECIFICATION Spec
SYMMETRY Symmetry
INVARIANTS CountExact SoleOwner OnlyCyclesLeak
CHECK_DEADLOCK FALSE
