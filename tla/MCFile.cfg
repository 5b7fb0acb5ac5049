CONSTANTS
    Calls = {"fRead", "readFile", "readFilePage", "fGetChars", "createBufferFromFile", "writeFile", "appendFile"}
    MaxLen = 6
    IntMax = 3
    BufSiz = 2
    PageLines = 2
    Chunk = 2
    MaxText = 3
    Room = 4
    Nuls = FALSE
SPECIFICATION FairSpec
INVARIANTS ReadExact InBuffer WriteSound
PROPERTIES ReadEnds
CHECK_DEADLOCK FALSE
