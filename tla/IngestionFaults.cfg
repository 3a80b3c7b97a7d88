\* Two requests on two documents, with crashes, database errors, failed unlinks.
SPECIFICATION Spec
CONSTANTS
    Document = {d1, d2}
    Request = {r1, r2}
    Message = {m1, m2}
    ChunkCounts = {0, 2}
    MaxVersion = 2
    Faults = {"crash", "db", "embed", "unlink"}
    NoDocument = NoDocument
    NoMessage = NoMessage
SYMMETRY Symmetry
INVARIANTS
    TypeOK
    RowHasFile
    ChunksWhole
PROPERTIES
    FollowsLifecycle
    ImplementsKnowledgeBase
\* The system stops when every id has been drawn and deleted.
CHECK_DEADLOCK FALSE
