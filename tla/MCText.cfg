CONSTANTS
    Char = {1, 2}
    MaxLen = 3
    IntBits = 4
    Args <- MCArgs
    Sizes <- MCSizes
    Lens = {1, 2}
    Base = 3
    Overlap = FALSE
SPECIFICATION Spec
INVARIANTS StringFaithful BufferFaithful
CHECK_DEADLOCK FALSE
