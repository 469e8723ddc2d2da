SPECIFICATION Spec
CONSTANTS
    DATA_SIZE = 7
    BULK_BUF_SIZE = 9
    Sector = 2
    MAX_LOGLINE_SIZE = 32
    Stamp = 1
    Beyond = 100
    Writes <- LongWrites
    Times = {4, 6, 8}
    Offsets = {0}
    MaxLines = 3
    MaxSize = 40
INVARIANT
    SearchIsShort
