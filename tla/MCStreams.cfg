SPECIFICATION MCSpec
CONSTANTS
    MaxChunks = 3
    MaxReads = 2
    MaxReaders = 2
    HighWaterMarks = {0, 1}
    Sizes = {0, 2}
    MaxNesting = 2
    MaxWrites = 2
    MaxWriters = 2
    MaxFrames = 2
    HandOver = TRUE
    WriteHighWaterMarks = {0, 1, 2}
    WriteSizes = {0, 1}
CHECK_DEADLOCK FALSE
INVARIANT ReadersAreServed
INVARIANT ReadersAreTold
INVARIANT SinkIsServed
INVARIANT WritersAreTold
INVARIANT SourceIsShared
PROPERTY EveryCallIsAnswered
