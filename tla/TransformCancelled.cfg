SPECIFICATION Spec
CONSTANTS
    MaxWrites = 2
    MaxReads = 2
    ReadableHighWaterMarks = {0, 1}
    WritableHighWaterMarks = {1}
INVARIANT TransformAlgorithmExists
CHECK_DEADLOCK FALSE
