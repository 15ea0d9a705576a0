SPECIFICATION FilterSpec
CONSTANTS
    short = short
    mid = mid
    long = long
    huge = huge
    Values = {short, mid, long, huge}
    Inputs <- MCInputs
    ChunkSizes = {1, 2, 3, 4}
    InLimit = 3
    MaxValues = 3
    Width <- MCWidth
    Around = 2
    Comma = 1
    MaxLen = 8
    Allowance = 2
    MaxBytes = 2
INVARIANTS NothingLeftOut ChunksFit ChunksMaximal
\* The call stops once it has returned or raised.
CHECK_DEADLOCK FALSE
