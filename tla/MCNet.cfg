CONSTANTS
    Byte = {a, b}
    Nul = Nul
    Junk = Junk
    Word = 2
    Lens = {2, 4}
    Piece = 3
    MaxSent = 3
    SplitWords = FALSE
    Resends = {"sendBuf"}
SPECIFICATION Spec
SYMMETRY Symmetry
INVARIANTS ResultSound RecvAllComplete  RoundTrip
CHECK_DEADLOCK FALSE
