SPECIFICATION FairSpec
CONSTANTS
    Streams <- MCStreams
    None = None
\* A stream that has ended, or whose consumer stopped, moves no more.
CHECK_DEADLOCK FALSE
INVARIANTS
    InOrder
    StepIsOfChunk
    RefsExact
    ChunksAsDocumented
PROPERTIES
    EndReached
