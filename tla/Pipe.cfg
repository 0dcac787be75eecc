SPECIFICATION Spec
CONSTANTS
    MaxChunks = 2
    SourceHighWaterMarks = {1}
    DestHighWaterMarks = {1}
CHECK_DEADLOCK FALSE
INVARIANT ChunksAreHandedOver
INVARIANT SettledPipeIsOver
PROPERTY PipeSettlesForGood
