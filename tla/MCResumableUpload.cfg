SPECIFICATION FairUploadSpec
CONSTANTS
    Sizes = {0, 1, 5}
    ChunkSize = 2
    Attempts = 3
    MaxStalled = 5
INVARIANTS
    OffsetIsAcknowledged
PROPERTIES
    UploadEnds
    ImplementsContract
CHECK_DEADLOCK FALSE
