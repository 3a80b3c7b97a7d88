------------------------- MODULE IngestionProperties -------------------------
(* What the ingestion pipeline promises, over the states of Ingestion.      *)
EXTENDS Ingestion

\* Type correctness of the rows, the chunks, the files and the requests.
TypeOK ==
    /\ row \in [Document -> Row]
    /\ chunks \in [Document -> SUBSET Chunk]
    /\ disk \subseteq Document
    /\ text \in [Document -> ChunkCounts \cup {0}]
    /\ issued \subseteq Document
    /\ req \in [Request -> [at: Point, doc: Document \cup {NoDocument}, seen: Row]]

\* A row never points at a file that is not there, whatever fails and whenever
\* the process dies: create_document stores the file before the row, and
\* delete_document removes the row before the file.
RowHasFile == \A d \in Document : Exists(d) => d \in disk

\* The chunks of a document are all of one run and complete: two pipeline runs
\* that replace them at the same time never leave a mixture, because
\* bulk_create is one commit and the unique constraint refuses the second one.
ChunksWhole ==
    \A d \in Document : chunks[d] # {} => \E r \in Request : chunks[d] = ChunksOf(d, r)

\* No chunk of a deleted document is searchable: a run still in flight when its
\* document is deleted cannot bring chunks back (foreign key, cascade).
DeletedLeavesNoChunks == \A d \in Document : ~Exists(d) => chunks[d] = {}

\* A document the list shows as READY can be found by a search, except while
\* some run is between clearing and storing its chunks.
ReadyHasChunks ==
    \A d \in Document :
        row[d].status = "READY" /\ chunks[d] = {} =>
            \E r \in Request : req[r].doc = d /\ At(r, "storing")

\* A request that still has to give document d a final status.  A run about to
\* record its failure on a row it loaded as FAILED will not write the status.
Settling(r, d) ==
    /\ req[r].doc = d
    /\ \/ req[r].at \in {"inserted", "bumped", "queued", "failing"} \cup (Caught \ {"ready"})
       \/ At(r, "marking") /\ req[r].seen.status # "FAILED"

\* No document is left in flight with nobody to finish it, as long as neither
\* the process nor the database fails: every early return and exception path of
\* process_document is covered, also when runs overlap.
NoAbandonedDocument ==
    \A d \in Document :
        row[d].status \in InFlight => \E r \in Request : Settling(r, d)

\* A file without a row is between the two halves of an upload or a delete; with
\* no fault nothing is left behind on the disk.
NoOrphanFile ==
    \A d \in disk : ~Exists(d) => \E r \in Request :
        req[r].doc = d /\ req[r].at \in {"written", "deleted"}

-----------------------------------------------------------------------------
(* An action property.                                                     *)

\* The changes of status the documentation draws: forward along the pipeline,
\* to FAILED from any step of it (from READY too: the run reads the row back
\* after its last commit, and that may fail), back to UPLOADING by a reindex,
\* and removal.
Lifecycle ==
    {<<"NONE", "UPLOADING">>, <<"UPLOADING", "PROCESSING">>, <<"PROCESSING", "INDEXING">>,
     <<"INDEXING", "READY">>} \cup ((InFlight \cup {"READY"}) \X {"FAILED"})
     \cup (Status \X {"UPLOADING", "NONE"})

\* Until its first reindex a document's status moves only along the lifecycle
\* of README.md, whatever deletes it and whatever fails meanwhile.  (A run that
\* outlives a reindex writes its own status over the reset one.)
FollowsLifecycle ==
    [][\A d \in Document :
          row[d].version <= 1 /\ row'[d].status # row[d].status =>
            <<row[d].status, row'[d].status>> \in Lifecycle]_vars

-----------------------------------------------------------------------------
(* The abstract view of a search.                                          *)

Phase(d) ==
    IF Exists(d) THEN "live"
    ELSE IF d \in issued /\ ~\E r \in Request : At(r, "written") /\ req[r].doc = d THEN "gone"
    ELSE "absent"

\* The run whose chunks document d has; by ChunksWhole there is only one.
Content(d) ==
    IF chunks[d] = {} THEN NoDocument ELSE CHOOSE r \in Request : \E c \in chunks[d] : c.run = r

KB == INSTANCE KnowledgeBase WITH
    Run <- Request, NoRun <- NoDocument,
    phase <- [d \in Document |-> Phase(d)],
    content <- [d \in Document |-> Content(d)]

\* Under every interleaving and every fault the pipeline implements the
\* knowledge base: content appears whole and into nothing, and a deleted
\* document never comes back.
ImplementsKnowledgeBase == KB!Spec

-----------------------------------------------------------------------------
(* Liveness.                                                               *)

\* An accepted document does not stay in flight for ever: it becomes READY or
\* FAILED, or it is deleted.
Settles ==
    \A d \in Document : row[d].status \in InFlight ~> row[d].status \notin InFlight

\* Deleting a document eventually removes its file too.
DeleteRemovesFile ==
    \A d \in Document :
        (\E r \in Request : req[r].doc = d /\ At(r, "deleting")) ~> (~Exists(d) /\ d \notin disk)
=============================================================================
