\* Three requests at a time on one document; only the embedding service fails.
SPECIFICATION FairSpec
CONSTANTS
    Document = {d1}
    Request = {r1, r2, r3}
    Message = {m1}
    ChunkCounts = {0, 1}
    MaxVersion = 2
    Faults = {"embed"}
    NoDocument = NoDocument
    NoMessage = NoMessage
INVARIANTS
    ReadyHasChunks
    NoAbandonedDocument
    NoOrphanFile
PROPERTIES
    Settles
    DeleteRemovesFile
\* The system stops when every id has been drawn and deleted.
CHECK_DEADLOCK FALSE
