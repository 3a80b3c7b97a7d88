------------------------------ MODULE Ingestion ------------------------------
(***************************************************************************)
(* The knowledge-base ingestion pipeline: upload, reindex and delete       *)
(* requests of administrators, each a sequence of separately committed     *)
(* database and file-system steps, and process_document, which Starlette   *)
(* runs in the same request once the response has gone out.  Requests run  *)
(* on threads of one process against PostgreSQL (READ COMMITTED), so the   *)
(* steps of any two of them interleave.                                    *)
(*                                                                         *)
(* A request keeps the row it last loaded (`seen').  The ORM writes a      *)
(* column only if its new value differs from that loaded value.            *)
(***************************************************************************)
EXTENDS Naturals, FiniteSets

CONSTANTS
    Document,      \* the document ids uuid4() can draw
    Request,       \* the requests that can be in flight at a time
    Message,       \* texts of the exceptions a pipeline step can raise
    ChunkCounts,   \* how many chunks a file can be cut into; 0: none, or unreadable
    MaxVersion,    \* bound: no reindex is accepted at this version
    Faults,        \* which failures of the environment may happen
    NoDocument, NoMessage

ASSUME CountsAssumption  == ChunkCounts \subseteq Nat
ASSUME MessageAssumption == NoMessage \notin Message
ASSUME NoDocAssumption   == NoDocument \notin Document
ASSUME FaultsAssumption  == Faults \subseteq {"crash", "db", "embed", "unlink"}
ASSUME VersionAssumption == MaxVersion \in Nat

VARIABLES
    row,       \* knowledge_documents: the row of each id, NoRow if there is none
    chunks,    \* document_chunks of each document, with the run that stored them
    disk,      \* the documents whose file is under the storage directory
    text,      \* how many chunks the uploaded bytes of a document yield
    issued,    \* the ids already drawn
    req        \* the requests in flight: program point, document, loaded row

vars == <<row, chunks, disk, text, issued, req>>

InFlight == {"UPLOADING", "PROCESSING", "INDEXING"}
Status   == InFlight \cup {"READY", "FAILED"}

Row   == [status: Status \cup {"NONE"}, version: Nat, error: Message \cup {NoMessage}]
NoRow == [status |-> "NONE", version |-> 0, error |-> NoMessage]
Chunk == [index: Nat, run: Request]

\* Program points of process_document, by where an exception raised there goes:
\* the inner `try' of the pipeline, or nowhere (the run just ends).
Caught   == {"loaded", "processing", "extracting", "chunked", "indexing",
             "embedding", "storing", "stored", "ready"}
Uncaught == {"queued", "failing", "marking"}
Handler  == {"written", "inserted", "reindexing", "bumped", "deleting", "deleted"}
Point    == {"idle"} \cup Handler \cup Caught \cup Uncaught

Idle == [at |-> "idle", doc |-> NoDocument, seen |-> NoRow]

Init ==
    /\ row = [d \in Document |-> NoRow]
    /\ chunks = [d \in Document |-> {}]
    /\ disk = {}
    /\ text = [d \in Document |-> 0]
    /\ issued = {}
    /\ req = [r \in Request |-> Idle]

-----------------------------------------------------------------------------
(* Database helpers.                                                       *)

Exists(d) == row[d].status # "NONE"

At(r, p)   == req[r].at = p
Goto(r, p) == req' = [req EXCEPT ![r].at = p]
Load(r, p) == req' = [req EXCEPT ![r].at = p, ![r].seen = row[req[r].doc]]
Finish(r)  == req' = [req EXCEPT ![r] = Idle]

\* A SELECT by primary key: load the row, or follow the code's path for None
\* (or for the exception a refresh of a deleted row raises).
LoadOr(r, p, gone) == IF Exists(req[r].doc) THEN Load(r, p) ELSE gone

\* What an UPDATE leaves in a column: the new value only if it differs from
\* the loaded one, because an unchanged attribute is not in the UPDATE.
Column(current, loaded, new) == IF new = loaded THEN current ELSE new

\* update_status on a loaded row, up to and including its commit.
Written(current, seen, status, error) ==
    [current EXCEPT !.status = Column(@, seen.status, status),
                    !.error  = Column(@, seen.error, error)]

Dirty(seen, status, error) == status # seen.status \/ error # seen.error

-----------------------------------------------------------------------------
(* Handlers: upload, reindex, delete.                                      *)

\* upload_knowledge_document up to write_bytes; rejected uploads change nothing.
Upload(r) ==
    /\ At(r, "idle")
    /\ \E d \in Document \ issued, n \in ChunkCounts :
        /\ issued' = issued \cup {d}
        /\ text' = [text EXCEPT ![d] = n]
        /\ disk' = disk \cup {d}
        /\ req' = [req EXCEPT ![r] = [at |-> "written", doc |-> d, seen |-> NoRow]]
    /\ UNCHANGED <<row, chunks>>

\* Mutant: the new row gets no version.
InsertRowUnversioned(r) ==
    /\ At(r, "written")
    /\ row' = [row EXCEPT ![req[r].doc] = [status |-> "UPLOADING", error |-> NoMessage]]
    /\ Goto(r, "inserted")
    /\ UNCHANGED <<chunks, disk, text, issued>>

\* The INSERT of create_document commits.
InsertRow(r) ==
    /\ At(r, "written")
    /\ row' = [row EXCEPT ![req[r].doc] =
                  [status |-> "UPLOADING", version |-> 1, error |-> NoMessage]]
    /\ Goto(r, "inserted")
    /\ UNCHANGED <<chunks, disk, text, issued>>

\* The refresh after an insert or a bump; then the background task is added and
\* the response sent.  A row deleted meanwhile makes it a 500 without a task.
Schedule(r) ==
    /\ At(r, "inserted") \/ At(r, "bumped")
    /\ IF Exists(req[r].doc) THEN Goto(r, "queued") ELSE Finish(r)
    /\ UNCHANGED <<row, chunks, disk, text, issued>>

StartReindex(r) ==
    /\ At(r, "idle")
    /\ \E d \in Document :
        /\ Exists(d)
        /\ row[d].version < MaxVersion
        /\ req' = [req EXCEPT ![r] = [at |-> "reindexing", doc |-> d, seen |-> row[d]]]
    /\ UNCHANGED <<row, chunks, disk, text, issued>>

\* bump_version_for_reindex computes the version from the loaded row.
Bumped(current, seen) ==
    [Written(current, seen, "UPLOADING", NoMessage) EXCEPT !.version = seen.version + 1]

\* The commit of the bump; the UPDATE of a deleted row raises StaleDataError.
BumpVersion(r) ==
    LET d == req[r].doc IN
    /\ At(r, "reindexing")
    /\ IF Exists(d)
       THEN row' = [row EXCEPT ![d] = Bumped(@, req[r].seen)] /\ Goto(r, "bumped")
       ELSE UNCHANGED row /\ Finish(r)
    /\ UNCHANGED <<chunks, disk, text, issued>>

\* Mutant: the file is unlinked before the row is deleted.
StartDeleteUnlinksFirst(r) ==
    /\ At(r, "idle")
    /\ \E d \in Document :
        /\ Exists(d)
        /\ req' = [req EXCEPT ![r] = [at |-> "deleting", doc |-> d, seen |-> NoRow]]
        /\ disk' = disk \ {d}
    /\ UNCHANGED <<row, chunks, text, issued>>

StartDelete(r) ==
    /\ At(r, "idle")
    /\ \E d \in Document :
        /\ Exists(d)
        /\ req' = [req EXCEPT ![r] = [at |-> "deleting", doc |-> d, seen |-> NoRow]]
    /\ UNCHANGED <<row, chunks, disk, text, issued>>

\* The DELETE and its cascade to document_chunks; deleting a row that is
\* already gone only logs a warning, and the handler goes on.
DeleteRow(r) ==
    /\ At(r, "deleting")
    /\ row' = [row EXCEPT ![req[r].doc] = NoRow]
    /\ chunks' = [chunks EXCEPT ![req[r].doc] = {}]
    /\ Goto(r, "deleted")
    /\ UNCHANGED <<disk, text, issued>>

\* Mutant: delete_document never unlinks the file.
RemoveFileForgotten(r) ==
    At(r, "deleted") /\ Finish(r) /\ UNCHANGED <<row, chunks, disk, text, issued>>

\* unlink(missing_ok=True).
RemoveFile(r) ==
    /\ At(r, "deleted")
    /\ disk' = disk \ {req[r].doc}
    /\ Finish(r)
    /\ UNCHANGED <<row, chunks, text, issued>>

\* unlink raises OSError: logged, and the request still succeeds.
RemoveFileFails(r) ==
    /\ "unlink" \in Faults
    /\ At(r, "deleted")
    /\ Finish(r)
    /\ UNCHANGED <<row, chunks, disk, text, issued>>

-----------------------------------------------------------------------------
(* process_document.                                                       *)

LoadDocument(r) ==
    /\ At(r, "queued")
    /\ LoadOr(r, "loaded", Finish(r))
    /\ UNCHANGED <<row, chunks, disk, text, issued>>

\* update_status up to its commit, on the row as loaded; an UPDATE that matches
\* no row raises, one that has no changed column is not sent.
CommitStatus(r, status, to) ==
    LET d == req[r].doc IN
    /\ IF Exists(d) \/ ~Dirty(req[r].seen, status, NoMessage)
       THEN /\ row' = [row EXCEPT ![d] = Written(@, req[r].seen, status, NoMessage)]
            /\ Goto(r, to)
       ELSE UNCHANGED row /\ Goto(r, "failing")
    /\ UNCHANGED <<chunks, disk, text, issued>>

\* Mutant: the pipeline starts with INDEXING.
MarkProcessingSkipped(r) == At(r, "loaded") /\ CommitStatus(r, "INDEXING", "processing")

MarkProcessing(r) == At(r, "loaded") /\ CommitStatus(r, "PROCESSING", "processing")

RefreshProcessing(r) ==
    /\ At(r, "processing")
    /\ LoadOr(r, "extracting", Goto(r, "failing"))
    /\ UNCHANGED <<row, chunks, disk, text, issued>>

\* Mutant: a file without text is not an error.
ExtractAllowsEmpty(r) ==
    /\ At(r, "extracting")
    /\ Goto(r, IF req[r].doc \in disk THEN "chunked" ELSE "failing")
    /\ UNCHANGED <<row, chunks, disk, text, issued>>

\* extract_text, clean_text and chunk_pages: a missing or unreadable file and a
\* file without text all raise.
Extract(r) ==
    /\ At(r, "extracting")
    /\ IF req[r].doc \in disk /\ text[req[r].doc] > 0
       THEN Goto(r, "chunked")
       ELSE Goto(r, "failing")
    /\ UNCHANGED <<row, chunks, disk, text, issued>>

MarkIndexing(r) == At(r, "chunked") /\ CommitStatus(r, "INDEXING", "indexing")

RefreshIndexing(r) ==
    /\ At(r, "indexing")
    /\ LoadOr(r, "embedding", Goto(r, "failing"))
    /\ UNCHANGED <<row, chunks, disk, text, issued>>

\* Mutant: errors of the embedding service are not caught.
EmbedFailsUncaught(r) ==
    /\ "embed" \in Faults
    /\ At(r, "embedding")
    /\ Finish(r)
    /\ UNCHANGED <<row, chunks, disk, text, issued>>

EmbedFails(r) ==
    /\ "embed" \in Faults
    /\ At(r, "embedding")
    /\ Goto(r, "failing")
    /\ UNCHANGED <<row, chunks, disk, text, issued>>

\* The embeddings are back; delete_for_document commits, which expires the
\* loaded row.
ClearChunks(r) ==
    /\ At(r, "embedding")
    /\ chunks' = [chunks EXCEPT ![req[r].doc] = {}]
    /\ req' = [req EXCEPT ![r].at = "storing", ![r].seen = NoRow]
    /\ UNCHANGED <<row, disk, text, issued>>

ChunksOf(d, r) == {[index |-> i, run |-> r] : i \in 0 .. text[d] - 1}

\* Mutant: no unique constraint.
CollidesNever(d, r) == FALSE

\* uq_document_chunks_document_index: no second chunk with the same index.
Collides(d, r) == \E c \in chunks[d], new \in ChunksOf(d, r) : c.index = new.index

\* Mutant: no foreign key.
InsertableWithoutDocument(d, r) == ~Collides(d, r)

\* The database accepts the chunks: neither the foreign key (document gone) nor
\* the unique constraint (another run stored first) refuses them.
Insertable(d, r) == Exists(d) /\ ~Collides(d, r)

\* bulk_create: one commit for all chunks.
StoreChunks(r) ==
    LET d == req[r].doc IN
    /\ At(r, "storing")
    /\ IF Insertable(d, r)
       THEN chunks' = [chunks EXCEPT ![d] = @ \cup ChunksOf(d, r)] /\ Goto(r, "stored")
       ELSE UNCHANGED chunks /\ Goto(r, "failing")
    /\ UNCHANGED <<row, disk, text, issued>>

\* The loaded row has expired, so both columns are written whatever they hold.
Published(current) == [current EXCEPT !.status = "READY", !.error = NoMessage]

MarkReady(r) ==
    LET d == req[r].doc IN
    /\ At(r, "stored")
    /\ IF Exists(d)
       THEN /\ row' = [row EXCEPT ![d] = Published(@)]
            /\ Goto(r, "ready")
       ELSE UNCHANGED row /\ Goto(r, "failing")
    /\ UNCHANGED <<chunks, disk, text, issued>>

RefreshReady(r) ==
    /\ At(r, "ready")
    /\ IF Exists(req[r].doc) THEN Finish(r) ELSE Goto(r, "failing")
    /\ UNCHANGED <<row, chunks, disk, text, issued>>

\* Mutant: the except clause only logs.
ReloadFailedOnlyLogs(r) ==
    At(r, "failing") /\ Finish(r) /\ UNCHANGED <<row, chunks, disk, text, issued>>

\* The except clause: roll back and load the row again.
ReloadFailed(r) ==
    /\ At(r, "failing")
    /\ LoadOr(r, "marking", Finish(r))
    /\ UNCHANGED <<row, chunks, disk, text, issued>>

\* If the row has gone since, the exception leaves the run, which ends anyway.
MarkFailed(r) ==
    LET d == req[r].doc IN
    /\ At(r, "marking")
    /\ \E m \in Message :
        row' = IF Exists(d)
               THEN [row EXCEPT ![d] = Written(@, req[r].seen, "FAILED", m)]
               ELSE row
    /\ Finish(r)
    /\ UNCHANGED <<chunks, disk, text, issued>>

-----------------------------------------------------------------------------
(* Failures of the environment.                                            *)

\* A statement of the request raises for a reason of the database's own (lost
\* connection, no pooled connection, a value too long for its column).  Only
\* the inner try of process_document catches it.
DatabaseError(r) ==
    /\ "db" \in Faults
    /\ \/ req[r].at \in Caught \ {"extracting"} /\ Goto(r, "failing")
       \/ req[r].at \in Uncaught \cup (Handler \ {"deleted"}) /\ Finish(r)
    /\ UNCHANGED <<row, chunks, disk, text, issued>>

\* The process dies: requests and background tasks live only in its memory.
Crash ==
    /\ "crash" \in Faults
    /\ \E r \in Request : ~At(r, "idle")
    /\ req' = [r \in Request |-> Idle]
    /\ UNCHANGED <<row, chunks, disk, text, issued>>

-----------------------------------------------------------------------------
\* What an administrator may ask for.
Ask(r) == Upload(r) \/ StartReindex(r) \/ StartDelete(r)

\* What the server then does.
Serve(r) ==
    \/ InsertRow(r) \/ Schedule(r) \/ BumpVersion(r) \/ DeleteRow(r) \/ RemoveFile(r)
    \/ LoadDocument(r) \/ MarkProcessing(r) \/ RefreshProcessing(r) \/ Extract(r)
    \/ MarkIndexing(r) \/ RefreshIndexing(r) \/ ClearChunks(r) \/ StoreChunks(r)
    \/ MarkReady(r) \/ RefreshReady(r) \/ ReloadFailed(r) \/ MarkFailed(r)

Fail(r) == RemoveFileFails(r) \/ EmbedFails(r) \/ DatabaseError(r)

Next == Crash \/ \E r \in Request : Ask(r) \/ Serve(r) \/ Fail(r)

Spec == Init /\ [][Next]_vars

\* A thread that serves a request keeps running; nobody is obliged to ask for
\* anything, and no fault has to happen.
FairSpec == Spec /\ \A r \in Request : WF_vars(Serve(r))
=============================================================================
