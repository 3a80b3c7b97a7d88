\* Every document of up to five paragraphs of 1 to 9 tokens.
SPECIFICATION Spec
CONSTANTS
    Document <- MCDocument
    ChunkSize = 4
    Overlap = 3
    BatchSize = 2
    CharTokens = 2
INVARIANTS
    Stitched
    OverlapIsBounded
    WithinBudget
    EmbeddingsMatch
\* A document is indexed once.
CHECK_DEADLOCK FALSE
