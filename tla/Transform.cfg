SPECIFICATION Spec
CONSTANTS
    MaxWrites = 2
    MaxReads = 2
    ReadableHighWaterMarks = {0, 1}
    WritableHighWaterMarks = {1}
CHECK_DEADLOCK FALSE
INVARIANT ChunksPass
INVARIANT FailureReachesTheWritable
PROPERTY NoStandoff
