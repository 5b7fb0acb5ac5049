CONSTANTS
    Var = {v1, v2, v3}
    Con = {n1, n2}
    MaxArgs = 3
    MaxNest = 2
    SelfApply = FALSE
    LastUseExt = FALSE
    BorrowedExt = FALSE
    IgnoreFields = FALSE
SPECIFICATION Spec
SYMMETRY Symmetry
INVARIANTS OwnedExact Backed DroppedEarly CellExact
CHECK_DEADLOCK FALSE
