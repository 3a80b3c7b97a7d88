\* A paragraph after an overlap that leaves no room for it.
SPECIFICATION Spec
CONSTANTS
    Document <- MCDocument
    ChunkSize = 4
    Overlap = 3
    BatchSize = 2
    CharTokens = 2
INVARIANTS
    RespectsSize
\* A document is indexed once.
CHECK_DEADLOCK FALSE
