CHECK_DEADLOCK FALSE
SPECIFICATION FairSpec
CONSTANTS
    MaxBytes = 3
    MaxTail = 2
    Chunk = 2
    Output = {"lead", "cont", "lf", "cr"}
INVARIANTS
    TypeOK
    TailIsLastLines
    NothingLost
    PageIsComplete
PROPERTIES
    StreamEnds
