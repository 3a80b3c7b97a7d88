--------------------------- MODULE IngestionProofs ---------------------------
(* Proofs about the ingestion pipeline, for every set of documents and      *)
(* requests, every fault and every bound.                                   *)
EXTENDS IngestionProperties, TLAPS

USE CountsAssumption, NoDocAssumption, MessageAssumption

-----------------------------------------------------------------------------
(* Facts about the database helpers.                                        *)

\* NoRow is a row, and no status that the code writes is "NONE".
LEMMA NoRowIsRow == NoRow \in Row /\ NoRow.status = "NONE"
BY DEF NoRow, Row

\* update_status turns rows into rows.
LEMMA WrittenIsRow ==
    ASSUME NEW current \in Row, NEW seen \in Row, NEW s \in Status,
           NEW e \in Message \cup {NoMessage}
    PROVE  Written(current, seen, s, e) \in Row
BY DEF Written, Column, Row

\* So does the bump of a reindex.
LEMMA BumpedIsRow ==
    ASSUME NEW current \in Row, NEW seen \in Row
    PROVE  Bumped(current, seen) \in Row
<1>1. Written(current, seen, "UPLOADING", NoMessage) \in Row
  BY WrittenIsRow DEF Status, InFlight
<1>2. seen.version + 1 \in Nat
  BY DEF Row
<1>. QED BY <1>1, <1>2 DEF Bumped, Row

\* And the write of READY.
LEMMA PublishedIsRow == ASSUME NEW current \in Row PROVE Published(current) \in Row
BY DEF Published, Row, Status

\* A run's chunks are chunks.
LEMMA ChunksOfType ==
    ASSUME TypeOK, NEW d \in Document, NEW r \in Request
    PROVE  ChunksOf(d, r) \subseteq Chunk
<1>0. text[d] \in ChunkCounts \cup {0}
  BY DEF TypeOK
<1>1. text[d] \in Nat
  BY <1>0, 0 \in Nat, CountsAssumption
<1>2. \A i \in 0 .. text[d] - 1 : [index |-> i, run |-> r] \in Chunk
  BY <1>1 DEF Chunk
<1>. QED BY <1>2 DEF ChunksOf

-----------------------------------------------------------------------------
(* Type correctness.                                                        *)

\* A request that is not idle works on a document.
Working == \A r \in Request : req[r].at # "idle" => req[r].doc \in Document

TypeInv == TypeOK /\ Working

LEMMA TypeInvInit == Init => TypeInv
<1>. SUFFICES ASSUME Init PROVE TypeInv
  OBVIOUS
<1>1. Idle \in [at: Point, doc: Document \cup {NoDocument}, seen: Row]
  BY NoRowIsRow DEF Idle, Point
<1>2. TypeOK
  BY <1>1, NoRowIsRow DEF Init, TypeOK
<1>. QED BY <1>2 DEF Init, TypeInv, Working, Idle

ReqType == req \in [Request -> [at: Point, doc: Document \cup {NoDocument}, seen: Row]]

\* The three ways a request moves on keep requests well-typed.
LEMMA MoveType ==
    ASSUME TypeInv, NEW r \in Request, NEW p \in Point, req[r].at # "idle",
           Goto(r, p) \/ Load(r, p) \/ Finish(r)
    PROVE  ReqType' /\ Working'
<1>1. req[r].doc \in Document /\ row[req[r].doc] \in Row
  BY DEF TypeInv, TypeOK, Working
<1>2. CASE Goto(r, p)
  BY <1>1, <1>2 DEF Goto, TypeInv, TypeOK, Working, ReqType
<1>3. CASE Load(r, p)
  BY <1>1, <1>3 DEF Load, TypeInv, TypeOK, Working, ReqType
<1>4. CASE Finish(r)
  BY <1>4, NoRowIsRow DEF Finish, Idle, Point, TypeInv, TypeOK, Working, ReqType
<1>. QED BY <1>2, <1>3, <1>4

LEMMA TypeInvStep == TypeInv /\ [Next]_vars => TypeInv'
<1>. SUFFICES ASSUME TypeInv, [Next]_vars PROVE TypeInv'
  OBVIOUS
<1>. USE DEF TypeInv
<1>1. CASE UNCHANGED vars
  BY <1>1 DEF vars, TypeOK, Working
<1>2. CASE Crash
  BY <1>2, NoRowIsRow DEF Crash, TypeOK, Working, Idle, Point
<1>3. ASSUME NEW r \in Request, Ask(r) PROVE TypeInv'
  <2>1. CASE Upload(r)
    BY <2>1, NoRowIsRow DEF Upload, At, TypeOK, Working, Point, Handler
  <2>2. CASE StartReindex(r)
    BY <2>2 DEF StartReindex, At, TypeOK, Working, Point, Handler
  <2>3. CASE StartDelete(r)
    BY <2>3, NoRowIsRow DEF StartDelete, At, TypeOK, Working, Point, Handler
  <2>. QED BY <1>3, <2>1, <2>2, <2>3 DEF Ask
<1>4. ASSUME NEW r \in Request, Serve(r) \/ Fail(r) PROVE TypeInv'
  <2>. DEFINE d == req[r].doc
  <2>0. /\ req[r].at # "idle" /\ d \in Document /\ req[r].seen \in Row /\ row[d] \in Row
    BY <1>4 DEF Serve, Fail, InsertRow, Schedule, BumpVersion, DeleteRow, RemoveFile,
          LoadDocument, MarkProcessing, RefreshProcessing, Extract, MarkIndexing,
          RefreshIndexing, ClearChunks, StoreChunks, MarkReady, RefreshReady, ReloadFailed,
          MarkFailed, RemoveFileFails, EmbedFails, DatabaseError, At, TypeOK, Working,
          Caught, Uncaught, Handler
  <2>. USE DEF At, Point, Handler, Caught, Uncaught
  <2>1. CASE InsertRow(r)
    BY <2>0, <2>1, MoveType DEF InsertRow, Row, Status, InFlight, TypeOK, ReqType
  <2>2. CASE BumpVersion(r)
    BY <2>0, <2>2, MoveType, BumpedIsRow DEF BumpVersion, TypeOK, ReqType
  <2>3. CASE DeleteRow(r)
    BY <2>0, <2>3, MoveType, NoRowIsRow DEF DeleteRow, TypeOK, ReqType
  <2>4. CASE RemoveFile(r)
    BY <2>0, <2>4, MoveType DEF RemoveFile, TypeOK, ReqType
  <2>5. ASSUME NEW s \in Status, NEW p \in Point, CommitStatus(r, s, p) PROVE TypeInv'
    <3>1. Written(row[d], req[r].seen, s, NoMessage) \in Row
      BY <2>0, WrittenIsRow
    <3>2. row' \in [Document -> Row] /\ UNCHANGED <<chunks, disk, text, issued>>
      BY <2>5, <3>1 DEF CommitStatus, TypeOK
    <3>3. ReqType' /\ Working'
      BY <2>0, <2>5, MoveType DEF CommitStatus
    <3>. QED BY <3>2, <3>3 DEF TypeOK, ReqType
  <2>6. CASE MarkProcessing(r)
    BY <2>5, <2>6 DEF MarkProcessing, Status, InFlight
  <2>7. CASE MarkIndexing(r)
    BY <2>5, <2>7 DEF MarkIndexing, Status, InFlight
  <2>8. CASE ClearChunks(r)
    BY <2>0, <2>8, NoRowIsRow DEF ClearChunks, TypeOK, Working
  <2>9. CASE StoreChunks(r)
    BY <2>0, <2>9, MoveType, ChunksOfType DEF StoreChunks, TypeOK, ReqType
  <2>10. CASE MarkReady(r)
    BY <2>0, <2>10, MoveType, PublishedIsRow DEF MarkReady, TypeOK, ReqType
  <2>11. CASE MarkFailed(r)
    <3>1. \A m \in Message : Written(row[d], req[r].seen, "FAILED", m) \in Row
      BY <2>0, WrittenIsRow DEF Status
    <3>2. row' \in [Document -> Row] /\ UNCHANGED <<chunks, disk, text, issued>>
      BY <2>11, <3>1 DEF MarkFailed, TypeOK
    <3>3. ReqType' /\ Working'
      BY <2>0, <2>11, MoveType DEF MarkFailed
    <3>. QED BY <3>2, <3>3 DEF TypeOK, ReqType
  <2>12. CASE \/ Schedule(r) \/ LoadDocument(r) \/ RefreshProcessing(r) \/ Extract(r)
              \/ RefreshIndexing(r) \/ RefreshReady(r) \/ ReloadFailed(r)
              \/ RemoveFileFails(r) \/ EmbedFails(r) \/ DatabaseError(r)
    <3>1. \E p \in Point : Goto(r, p) \/ Load(r, p) \/ Finish(r)
      BY <2>12 DEF Schedule, LoadDocument, RefreshProcessing, Extract, RefreshIndexing,
            RefreshReady, ReloadFailed, RemoveFileFails, EmbedFails, DatabaseError, LoadOr
    <3>2. UNCHANGED <<row, chunks, disk, text, issued>>
      BY <2>12 DEF Schedule, LoadDocument, RefreshProcessing, Extract, RefreshIndexing,
            RefreshReady, ReloadFailed, RemoveFileFails, EmbedFails, DatabaseError
    <3>. QED BY <2>0, <3>1, <3>2, MoveType DEF TypeOK, ReqType
  <2>. QED
    BY <1>4, <2>1, <2>2, <2>3, <2>4, <2>6, <2>7, <2>8, <2>9, <2>10, <2>11, <2>12
    DEF Serve, Fail
<1>. QED BY <1>1, <1>2, <1>3, <1>4 DEF Next

\* The variables always have their types.
THEOREM TypeCorrect == Spec => []TypeOK
<1>1. TypeInv => TypeOK
  BY DEF TypeInv
<1>. QED BY <1>1, TypeInvInit, TypeInvStep, PTL DEF Spec

-----------------------------------------------------------------------------
(* Rows, files and chunks.                                                  *)

\* A request that is not idle works on an id that was drawn, and so is the id of
\* every row.
KnownIds ==
    /\ \A r \in Request : req[r].at # "idle" => req[r].doc \in issued
    /\ \A r \in Request : req[r].at = "idle" => req[r].doc = NoDocument
    /\ \A d \in Document : Exists(d) => d \in issued

\* Between storing the file and inserting the row, no other request can know the
\* document: the invariant that rules out a delete in the middle of an upload.
FreshUpload ==
    \A r \in Request : At(r, "written") =>
        /\ ~Exists(req[r].doc)
        /\ req[r].doc \in disk
        /\ \A q \in Request \ {r} : req[q].doc # req[r].doc

\* A document whose file is about to be unlinked has no row any more.
DeletedGone == \A r \in Request : At(r, "deleted") => ~Exists(req[r].doc)

StorageInv ==
    /\ TypeInv /\ KnownIds /\ FreshUpload /\ DeletedGone
    /\ RowHasFile /\ ChunksWhole /\ DeletedLeavesNoChunks

\* An UPDATE neither creates a row nor makes one disappear.
LEMMA WrittenStatus ==
    ASSUME NEW current \in Row, NEW seen \in Row, NEW s \in Status,
           NEW e \in Message \cup {NoMessage}
    PROVE  /\ current.status # "NONE" => Written(current, seen, s, e).status # "NONE"
           /\ ~Dirty(seen, s, e) => Written(current, seen, s, e).status = current.status
<1>1. "NONE" \notin Status
  BY DEF Status, InFlight
<1>2. Written(current, seen, s, e).status = Column(current.status, seen.status, s)
  BY DEF Written, Row
<1>. QED BY <1>1, <1>2 DEF Column, Dirty

LEMMA BumpedStatus ==
    ASSUME NEW current \in Row, NEW seen \in Row, current.status # "NONE"
    PROVE  Bumped(current, seen).status # "NONE"
<1>1. Written(current, seen, "UPLOADING", NoMessage) \in Row
  BY WrittenIsRow DEF Status, InFlight
<1>2. Written(current, seen, "UPLOADING", NoMessage).status # "NONE"
  BY WrittenStatus DEF Status, InFlight
<1>. QED BY <1>1, <1>2 DEF Bumped, Row

\* What a step of the server does to the request it serves.
LEMMA ServeReq ==
    ASSUME TypeInv, NEW r \in Request, Serve(r) \/ Fail(r)
    PROVE  /\ \A q \in Request \ {r} : req'[q] = req[q]
           /\ req'[r] = Idle \/ req'[r].doc = req[r].doc
           /\ req[r].at # "idle" /\ req'[r].at # "written"
           /\ req'[r].at = "deleted" => DeleteRow(r)
           /\ req'[r].at = "idle" => req'[r] = Idle
<1>. USE DEF TypeInv, TypeOK, At, Caught, Uncaught, Handler
<1>1. CASE \E p \in Point \ {"idle", "written", "deleted"} :
              /\ req[r].at # "idle"
              /\ Goto(r, p) \/ Load(r, p) \/ Finish(r)
  BY <1>1 DEF Goto, Load, Finish, Idle
<1>2. CASE DeleteRow(r)
  BY <1>2 DEF DeleteRow, Goto
<1>3. CASE ClearChunks(r)
  BY <1>3 DEF ClearChunks
<1>. QED
  BY <1>1, <1>2, <1>3 DEF Serve, Fail, InsertRow, Schedule, BumpVersion, RemoveFile,
    LoadDocument, MarkProcessing, RefreshProcessing, Extract, MarkIndexing, RefreshIndexing,
    CommitStatus, LoadOr, StoreChunks, MarkReady, RefreshReady, ReloadFailed, MarkFailed,
    RemoveFileFails, EmbedFails, DatabaseError, Point

\* Rows appear by InsertRow and disappear by DeleteRow only, the latter with
\* the document's chunks.
LEMMA ServeRows ==
    ASSUME TypeInv, NEW r \in Request, Serve(r) \/ Fail(r), NEW d \in Document
    PROVE  /\ Exists(d)' => Exists(d) \/ (At(r, "written") /\ d = req[r].doc)
           /\ Exists(d) => Exists(d)' \/ (DeleteRow(r) /\ d = req[r].doc /\ chunks'[d] = {})
           /\ DeleteRow(r) /\ d = req[r].doc => ~Exists(d)'
<1>. DEFINE x == req[r].doc
<1>0. /\ x \in Document /\ row[x] \in Row /\ req[r].seen \in Row
      /\ row \in [Document -> Row] /\ chunks \in [Document -> SUBSET Chunk]
  BY ServeReq DEF TypeInv, TypeOK, Working
<1>1. CASE UNCHANGED row
  BY <1>0, <1>1, NoRowIsRow DEF Exists, DeleteRow
<1>2. CASE InsertRow(r)
  BY <1>0, <1>2 DEF InsertRow, Exists, At, DeleteRow
<1>3. CASE BumpVersion(r) /\ ~UNCHANGED row
  <2>1. Exists(x) /\ row' = [row EXCEPT ![x] = Bumped(@, req[r].seen)]
    BY <1>3 DEF BumpVersion
  <2>2. row'[x].status # "NONE"
    BY <1>0, <2>1, BumpedStatus DEF Exists
  <2>. QED BY <1>0, <1>3, <2>1, <2>2 DEF Exists, BumpVersion, DeleteRow, At
<1>4. CASE DeleteRow(r)
  BY <1>0, <1>4, NoRowIsRow DEF DeleteRow, Exists
<1>5. ASSUME NEW s \in Status, NEW p \in Point, CommitStatus(r, s, p), ~At(r, "deleting"),
             ~UNCHANGED row
      PROVE (Exists(d)' <=> Exists(d)) /\ ~DeleteRow(r)
  <2>1. /\ Exists(x) \/ ~Dirty(req[r].seen, s, NoMessage)
        /\ row' = [row EXCEPT ![x] = Written(@, req[r].seen, s, NoMessage)]
    BY <1>5 DEF CommitStatus
  <2>2. row'[x].status # "NONE" <=> row[x].status # "NONE"
    BY <1>0, <2>1, WrittenStatus DEF Exists
  <2>. QED BY <1>0, <1>5, <2>1, <2>2 DEF Exists, DeleteRow
<1>6. CASE (MarkProcessing(r) \/ MarkIndexing(r)) /\ ~UNCHANGED row
  BY <1>5, <1>6 DEF MarkProcessing, MarkIndexing, At, Status, InFlight, Point, Caught
<1>7. CASE MarkReady(r) /\ ~UNCHANGED row
  <2>1. Exists(x) /\ row' = [row EXCEPT ![x] = Published(@)] /\ At(r, "stored")
    BY <1>7 DEF MarkReady
  <2>2. row'[x].status # "NONE"
    BY <1>0, <2>1 DEF Published, Row
  <2>. QED BY <1>0, <2>1, <2>2 DEF Exists, DeleteRow, At
<1>8. CASE MarkFailed(r) /\ ~UNCHANGED row
  <2>1. PICK m \in Message :
          /\ Exists(x) /\ row' = [row EXCEPT ![x] = Written(@, req[r].seen, "FAILED", m)]
          /\ At(r, "marking")
    BY <1>8 DEF MarkFailed
  <2>2. row'[x].status # "NONE"
    BY <1>0, <2>1, WrittenStatus DEF Exists, Status
  <2>. QED BY <1>0, <2>1, <2>2 DEF Exists, DeleteRow, At
<1>. QED
  BY <1>1, <1>2, <1>3, <1>4, <1>6, <1>7, <1>8 DEF Serve, Fail, Schedule, RemoveFile,
    LoadDocument, RefreshProcessing, Extract, RefreshIndexing, ClearChunks, StoreChunks,
    RefreshReady, ReloadFailed, RemoveFileFails, EmbedFails, DatabaseError

\* Files disappear by RemoveFile only; ids are never drawn and texts never
\* change outside of an upload.
LEMMA ServeDisk ==
    ASSUME NEW r \in Request, Serve(r) \/ Fail(r)
    PROVE  /\ UNCHANGED <<text, issued>>
           /\ \A d \in disk : d \in disk' \/ (At(r, "deleted") /\ d = req[r].doc)
BY DEF Serve, Fail, InsertRow, Schedule, BumpVersion, DeleteRow, RemoveFile,
  LoadDocument, MarkProcessing, RefreshProcessing, Extract, MarkIndexing, RefreshIndexing,
  CommitStatus, ClearChunks, StoreChunks, MarkReady, RefreshReady, ReloadFailed, MarkFailed,
  RemoveFileFails, EmbedFails, DatabaseError

\* The unique constraint leaves a run only an empty document to store into.
LEMMA InsertableEmpty ==
    ASSUME TypeInv, ChunksWhole, NEW r \in Request, NEW d \in Document, Insertable(d, r)
    PROVE  chunks[d] = {}
<1>. SUFFICES ASSUME chunks[d] # {} PROVE FALSE
  OBVIOUS
<1>1. PICK q \in Request : chunks[d] = ChunksOf(d, q)
  BY DEF ChunksWhole
<1>2. PICK c \in ChunksOf(d, q) : TRUE
  BY <1>1
<1>3. PICK i \in 0 .. text[d] - 1 : c = [index |-> i, run |-> q]
  BY <1>2 DEF ChunksOf
<1>4. [index |-> i, run |-> r] \in ChunksOf(d, r)
  BY <1>3 DEF ChunksOf
<1>5. Collides(d, r)
  BY <1>1, <1>2, <1>3, <1>4 DEF Collides
<1>. QED BY <1>5 DEF Insertable

\* Chunks are left alone, cleared, or stored into an empty, existing document.
LEMMA ServeChunks ==
    ASSUME TypeInv, ChunksWhole, NEW r \in Request, Serve(r) \/ Fail(r), NEW d \in Document
    PROVE  \/ chunks'[d] = chunks[d]
           \/ chunks'[d] = {}
           \/ chunks'[d] = ChunksOf(d, r) /\ Exists(d) /\ UNCHANGED row
<1>. DEFINE x == req[r].doc
<1>0. x \in Document /\ chunks \in [Document -> SUBSET Chunk]
  BY ServeReq DEF TypeInv, TypeOK, Working
<1>1. CASE UNCHANGED chunks
  BY <1>1
<1>2. CASE DeleteRow(r) \/ ClearChunks(r)
  BY <1>0, <1>2 DEF DeleteRow, ClearChunks
<1>3. CASE StoreChunks(r) /\ ~UNCHANGED chunks
  <2>1. /\ Insertable(x, r) /\ UNCHANGED row
        /\ chunks' = [chunks EXCEPT ![x] = @ \cup ChunksOf(x, r)]
    BY <1>3 DEF StoreChunks
  <2>2. chunks[x] = {}
    BY <1>0, <2>1, InsertableEmpty
  <2>. QED BY <1>0, <2>1, <2>2 DEF Insertable
<1>. QED
  BY <1>1, <1>2, <1>3 DEF Serve, Fail, InsertRow, Schedule, BumpVersion, RemoveFile,
    LoadDocument, MarkProcessing, RefreshProcessing, Extract, MarkIndexing, RefreshIndexing,
    CommitStatus, MarkReady, RefreshReady, ReloadFailed, MarkFailed,
    RemoveFileFails, EmbedFails, DatabaseError

LEMMA StorageInit == Init => StorageInv
<1>. SUFFICES ASSUME Init PROVE StorageInv
  OBVIOUS
<1>1. TypeInv
  BY TypeInvInit
<1>2. \A d \in Document : ~Exists(d)
  BY NoRowIsRow DEF Init, Exists
<1>. QED
  BY <1>1, <1>2 DEF Init, StorageInv, KnownIds, FreshUpload, DeletedGone, RowHasFile,
    ChunksWhole, DeletedLeavesNoChunks, Idle, At

\* New requests: an upload draws an id nobody has; the others find a row.
LEMMA StorageAsk ==
    ASSUME StorageInv, NEW r \in Request, Ask(r), TypeInv'
    PROVE  StorageInv'
<1>. USE DEF StorageInv, At
<1>1. UNCHANGED <<row, chunks>>
  BY DEF Ask, Upload, StartReindex, StartDelete
<1>2. \A d \in Document : Exists(d)' <=> Exists(d)
  BY <1>1 DEF Exists
<1>3. \A q \in Request \ {r} : req'[q] = req[q]
  BY DEF Ask, Upload, StartReindex, StartDelete, TypeInv, TypeOK
<1>4. /\ issued \subseteq issued' /\ disk \subseteq disk'
      /\ \A d \in issued : text'[d] = text[d]
  BY DEF Ask, Upload, StartReindex, StartDelete, TypeInv, TypeOK
<1>5. ChunksWhole' /\ DeletedLeavesNoChunks' /\ RowHasFile'
  <2>1. \A d \in Document, q \in Request : chunks[d] # {} => ChunksOf(d, q)' = ChunksOf(d, q)
    BY <1>4 DEF ChunksOf, DeletedLeavesNoChunks, KnownIds
  <2>. QED BY <1>1, <1>2, <1>4, <2>1 DEF ChunksWhole, DeletedLeavesNoChunks, RowHasFile
<1>6. CASE Upload(r)
  <2>1. PICK d \in Document \ issued :
          /\ issued' = issued \cup {d} /\ disk' = disk \cup {d}
          /\ req'[r] = [at |-> "written", doc |-> d, seen |-> NoRow]
    BY <1>6 DEF Upload, TypeInv, TypeOK
  <2>2. \A q \in Request \ {r} : req[q].doc # d
    BY <2>1, NoDocAssumption DEF KnownIds
  <2>3. KnownIds'
    BY <1>2, <1>3, <2>1 DEF KnownIds
  <2>4. FreshUpload' /\ DeletedGone'
    BY <1>2, <1>3, <2>1, <2>2 DEF FreshUpload, DeletedGone, KnownIds, TypeInv, TypeOK
  <2>. QED BY <1>5, <2>3, <2>4
<1>7. CASE StartReindex(r) \/ StartDelete(r)
  <2>1. PICK d \in Document :
          /\ Exists(d) /\ req'[r].doc = d /\ req'[r].at \in {"reindexing", "deleting"}
    BY <1>7 DEF StartReindex, StartDelete, TypeInv, TypeOK
  <2>2. KnownIds'
    BY <1>2, <1>3, <1>4, <2>1 DEF KnownIds
  <2>3. FreshUpload' /\ DeletedGone'
    BY <1>2, <1>3, <1>4, <2>1 DEF FreshUpload, DeletedGone, KnownIds, TypeInv, TypeOK
  <2>. QED BY <1>5, <2>2, <2>3
<1>. QED BY <1>6, <1>7 DEF Ask

LEMMA StorageServe ==
    ASSUME StorageInv, NEW r \in Request, Serve(r) \/ Fail(r), TypeInv'
    PROVE  StorageInv'
<1>. USE DEF StorageInv
<1>1. /\ req[r].doc \in Document /\ req[r].doc \in issued
      /\ \A q \in Request \ {r} : req'[q] = req[q]
  BY ServeReq DEF KnownIds, TypeInv, Working
<1>2. /\ req'[r] = Idle \/ req'[r].doc = req[r].doc
      /\ req'[r].at # "written" /\ (req'[r].at = "idle" => req'[r] = Idle)
      /\ req'[r].at = "deleted" => DeleteRow(r)
  BY ServeReq
<1>3. \A d \in Document :
        /\ Exists(d)' => Exists(d) \/ (At(r, "written") /\ d = req[r].doc)
        /\ Exists(d) => Exists(d)' \/ chunks'[d] = {}
        /\ DeleteRow(r) /\ d = req[r].doc => ~Exists(d)'
  BY ServeRows
<1>4. /\ UNCHANGED <<text, issued>>
      /\ \A d \in disk : d \in disk' \/ (At(r, "deleted") /\ d = req[r].doc)
  BY ServeDisk
<1>5. KnownIds'
  BY <1>1, <1>2, <1>3, <1>4 DEF KnownIds, Idle
<1>6. FreshUpload'
  <2>. SUFFICES ASSUME NEW q \in Request, At(q, "written")'
       PROVE /\ ~Exists(req[q].doc)' /\ req[q].doc \in disk'
             /\ req'[q] = req[q]
             /\ \A p \in Request \ {q} : req'[p].doc # req[q].doc
    BY DEF FreshUpload, Exists
  <2>1. q # r /\ req'[q] = req[q]
    BY <1>1, <1>2 DEF At
  <2>2. /\ ~Exists(req[q].doc) /\ req[q].doc \in disk /\ req[q].doc \in Document
        /\ \A p \in Request \ {q} : req[p].doc # req[q].doc
    BY <2>1 DEF FreshUpload, At, TypeInv, Working
  <2>3. ~Exists(req[q].doc)' /\ req[q].doc \in disk'
    BY <1>3, <1>4, <2>1, <2>2 DEF Exists
  <2>. QED BY <1>1, <1>2, <2>1, <2>2, <2>3 DEF Idle
<1>7. DeletedGone'
  <2>. SUFFICES ASSUME NEW q \in Request, At(q, "deleted")' PROVE ~Exists(req[q].doc)'
    BY DEF DeletedGone, Exists
  <2>1. CASE q = r
    BY <1>1, <1>2, <1>3, <2>1 DEF At, Idle, Exists
  <2>2. CASE q # r
    <3>1. req'[q] = req[q] /\ At(q, "deleted") /\ ~Exists(req[q].doc)
      BY <1>1, <2>2 DEF At, DeletedGone
    <3>2. ~(At(r, "written") /\ req[q].doc = req[r].doc)
      BY <2>2 DEF FreshUpload
    <3>3. req[q].doc \in Document
      BY <3>1 DEF At, TypeInv, Working
    <3>. QED BY <1>3, <3>1, <3>2, <3>3 DEF Exists
  <2>. QED BY <2>1, <2>2
<1>8. RowHasFile'
  <2>. SUFFICES ASSUME NEW d \in Document, Exists(d)' PROVE d \in disk'
    BY DEF RowHasFile
  <2>1. CASE Exists(d)
    BY <1>4, <2>1 DEF RowHasFile, DeletedGone
  <2>2. CASE At(r, "written") /\ d = req[r].doc
    BY <1>4, <2>2 DEF FreshUpload, At
  <2>. QED BY <1>3, <2>1, <2>2
<1>9. ChunksWhole'
  <2>1. \A d \in Document, q \in Request : ChunksOf(d, q)' = ChunksOf(d, q)
    BY <1>4 DEF ChunksOf
  <2>. QED BY <2>1, ServeChunks DEF ChunksWhole
<1>10. DeletedLeavesNoChunks'
  <2>. SUFFICES ASSUME NEW d \in Document, ~Exists(d)', chunks'[d] # {} PROVE FALSE
    BY DEF DeletedLeavesNoChunks
  <2>1. ~Exists(d)
    BY <1>3
  <2>2. chunks[d] = {}
    BY <2>1 DEF DeletedLeavesNoChunks
  <2>. QED BY <2>1, <2>2, ServeChunks
<1>. QED BY <1>5, <1>6, <1>7, <1>8, <1>9, <1>10

LEMMA StorageStep == StorageInv /\ [Next]_vars => StorageInv'
<1>. SUFFICES ASSUME StorageInv, [Next]_vars PROVE StorageInv'
  OBVIOUS
<1>0. TypeInv'
  BY TypeInvStep DEF StorageInv
<1>1. CASE UNCHANGED vars
  BY <1>0, <1>1 DEF vars, StorageInv, KnownIds, FreshUpload, DeletedGone, RowHasFile,
    ChunksWhole, DeletedLeavesNoChunks, ChunksOf, At, Exists
<1>2. CASE Crash
  BY <1>0, <1>2 DEF Crash, StorageInv, KnownIds, FreshUpload, DeletedGone, RowHasFile,
    ChunksWhole, DeletedLeavesNoChunks, ChunksOf, At, Exists, Idle
<1>. QED BY <1>0, <1>1, <1>2, StorageAsk, StorageServe DEF Next

LEMMA StorageHolds == Spec => []StorageInv
BY StorageInit, StorageStep, PTL DEF Spec

\* Whatever fails and whenever the process dies, a row has its file.
THEOREM RowsHaveFiles == Spec => []RowHasFile
BY StorageHolds, PTL DEF StorageInv

\* However requests interleave, the chunks of a document are complete and of one
\* run.
THEOREM ChunksStayWhole == Spec => []ChunksWhole
BY StorageHolds, PTL DEF StorageInv

\* No run brings chunks back to a document that was deleted meanwhile.
THEOREM DeletedStaysGone == Spec => []DeletedLeavesNoChunks
BY StorageHolds, PTL DEF StorageInv

-----------------------------------------------------------------------------
(* No document is abandoned, and READY documents are searchable, as long as *)
(* neither the process nor the database fails.                              *)

Reliable == "crash" \notin Faults /\ "db" \notin Faults

\* The status written by an UPDATE.
LEMMA WrittenTo ==
    ASSUME NEW current \in Row, NEW seen \in Row, NEW s \in Status,
           NEW e \in Message \cup {NoMessage}
    PROVE  /\ Written(current, seen, s, e).status \in {current.status, s}
           /\ s # seen.status => Written(current, seen, s, e).status = s
BY DEF Written, Column, Row

LEMMA BumpedTo ==
    ASSUME NEW current \in Row, NEW seen \in Row
    PROVE  Bumped(current, seen).status \in {current.status, "UPLOADING"}
<1>1. Written(current, seen, "UPLOADING", NoMessage) \in Row
  BY WrittenIsRow DEF Status, InFlight
<1>2. Written(current, seen, "UPLOADING", NoMessage).status \in {current.status, "UPLOADING"}
  BY WrittenTo DEF Status, InFlight
<1>. QED BY <1>1, <1>2 DEF Bumped, Row

\* A request that serves a document in flight still has to settle it after the
\* step, unless it did not have to before.
LEMMA HandOver ==
    ASSUME Reliable, TypeInv, NEW r \in Request, Serve(r) \/ Fail(r), NEW d \in Document,
           row'[d].status \in InFlight
    PROVE  Settling(r, d)' \/ (row[d].status \in InFlight /\ ~Settling(r, d))
<1>. DEFINE x == req[r].doc
<1>0. /\ x \in Document /\ row[x] \in Row /\ req[r].seen \in Row
      /\ row \in [Document -> Row] /\ req \in [Request -> [at: Point,
            doc: Document \cup {NoDocument}, seen: Row]]
  BY ServeReq DEF TypeInv, TypeOK, Working
<1>. USE DEF At, Exists, InFlight, Caught
<1>1. CASE InsertRow(r)
  BY <1>0, <1>1 DEF InsertRow, Goto, Settling
<1>2. CASE BumpVersion(r)
  BY <1>0, <1>2 DEF BumpVersion, Goto, Finish, Settling
<1>3. CASE DeleteRow(r) \/ RemoveFile(r) \/ RemoveFileFails(r)
  BY <1>0, <1>3 DEF DeleteRow, RemoveFile, RemoveFileFails, NoRow, Settling
<1>4. ASSUME NEW s, NEW p \in {"processing", "indexing"}, CommitStatus(r, s, p)
      PROVE  Settling(r, d)' \/ (row[d].status \in InFlight /\ ~Settling(r, d))
  BY <1>0, <1>4 DEF CommitStatus, Goto, Settling
<1>5. CASE MarkProcessing(r) \/ MarkIndexing(r)
  BY <1>4, <1>5 DEF MarkProcessing, MarkIndexing
<1>6. CASE StoreChunks(r) \/ Extract(r) \/ ClearChunks(r) \/ EmbedFails(r)
  BY <1>0, <1>6 DEF StoreChunks, Extract, ClearChunks, EmbedFails, Goto, Settling
<1>7. CASE MarkReady(r)
  <2>1. CASE Exists(x)
    <3>1. row' = [row EXCEPT ![x] = Published(@)] /\ Published(row[x]).status = "READY"
      BY <1>0, <1>7, <2>1 DEF MarkReady, Published, Row
    <3>2. d # x
      BY <1>0, <3>1
    <3>. QED BY <1>0, <3>1, <3>2 DEF Settling
  <2>2. CASE ~Exists(x)
    BY <1>0, <1>7, <2>2 DEF MarkReady, Goto, Settling
  <2>. QED BY <2>1, <2>2
<1>8. CASE Schedule(r) \/ LoadDocument(r) \/ RefreshProcessing(r) \/ RefreshIndexing(r)
           \/ RefreshReady(r) \/ ReloadFailed(r)
  BY <1>0, <1>8 DEF Schedule, LoadDocument, RefreshProcessing, RefreshIndexing,
    RefreshReady, ReloadFailed, LoadOr, Load, Goto, Finish, Settling
<1>9. CASE MarkFailed(r)
  <2>1. CASE Exists(x)
    <3>1. PICK m \in Message : row' = [row EXCEPT ![x] = Written(@, req[r].seen, "FAILED", m)]
      BY <1>9, <2>1 DEF MarkFailed
    <3>2. row'[x] = Written(row[x], req[r].seen, "FAILED", m)
      BY <1>0, <3>1
    <3>3. CASE d = x
      BY <1>0, <1>9, <3>2, <3>3, WrittenTo DEF Settling, Status, MarkFailed
    <3>4. CASE d # x
      BY <1>0, <3>1, <3>4 DEF Settling
    <3>. QED BY <3>3, <3>4
  <2>2. CASE ~Exists(x)
    BY <1>0, <1>9, <2>2 DEF MarkFailed, Settling
  <2>. QED BY <2>1, <2>2
<1>. QED
  BY <1>1, <1>2, <1>3, <1>5, <1>6, <1>7, <1>8, <1>9 DEF Serve, Fail, DatabaseError, Reliable

LEMMA AbandonStep ==
    ASSUME Reliable, TypeInv, NoAbandonedDocument, [Next]_vars
    PROVE  NoAbandonedDocument'
<1>. SUFFICES ASSUME NEW d \in Document, row'[d].status \in InFlight
     PROVE \E q \in Request : Settling(q, d)'
  BY DEF NoAbandonedDocument, InFlight
<1>1. CASE UNCHANGED vars
  BY <1>1 DEF vars, NoAbandonedDocument, Settling, At
<1>2. ASSUME NEW r \in Request, Ask(r) PROVE \E q \in Request : Settling(q, d)'
  <2>1. UNCHANGED row /\ req[r].at = "idle" /\ \A q \in Request \ {r} : req'[q] = req[q]
    BY <1>2 DEF Ask, Upload, StartReindex, StartDelete, At, TypeInv, TypeOK
  <2>2. PICK q \in Request : Settling(q, d)
    BY <2>1 DEF NoAbandonedDocument
  <2>3. q # r
    BY <2>1, <2>2 DEF Settling, At, Caught
  <2>. QED BY <2>1, <2>2, <2>3 DEF Settling, At
<1>3. ASSUME NEW r \in Request, Serve(r) \/ Fail(r) PROVE \E q \in Request : Settling(q, d)'
  <2>1. CASE Settling(r, d)'
    BY <2>1
  <2>2. CASE row[d].status \in InFlight /\ ~Settling(r, d)
    <3>1. PICK q \in Request : Settling(q, d)
      BY <2>2 DEF NoAbandonedDocument
    <3>2. req'[q] = req[q]
      BY <1>3, <2>2, <3>1, ServeReq
    <3>. QED BY <3>1, <3>2 DEF Settling, At
  <2>. QED BY <1>3, <2>1, <2>2, HandOver
<1>. QED BY <1>1, <1>2, <1>3 DEF Next, Crash, Reliable

\* Without crashes and database errors, a document that is in flight always has
\* a request that will still give it a final status, however runs overlap.
THEOREM NothingAbandoned == ASSUME Reliable PROVE Spec => []NoAbandonedDocument
<1>1. Init => TypeInv /\ NoAbandonedDocument
  <2>1. Init => NoAbandonedDocument
    BY DEF Init, NoAbandonedDocument, NoRow, InFlight
  <2>. QED BY <2>1, TypeInvInit
<1>2. (TypeInv /\ NoAbandonedDocument) /\ [Next]_vars => (TypeInv /\ NoAbandonedDocument)'
  BY TypeInvStep, AbandonStep
<1>. QED BY <1>1, <1>2, PTL DEF Spec

-----------------------------------------------------------------------------

\* A run that got past chunking has something to store.
HasText ==
    \A r \in Request :
        req[r].at \in {"chunked", "indexing", "embedding", "storing", "stored"} =>
            text[req[r].doc] > 0

\* An existing document without chunks that is READY, or that a run is about to
\* make READY, has a run that is about to store chunks.
EmptyIsBeingFilled ==
    \A d \in Document :
        /\ Exists(d) /\ chunks[d] = {}
        /\ row[d].status = "READY" \/ \E r \in Request : At(r, "stored") /\ req[r].doc = d
        => \E r \in Request : At(r, "storing") /\ req[r].doc = d

SearchInv == StorageInv /\ HasText /\ EmptyIsBeingFilled

\* Only MarkReady makes a document READY.
LEMMA ServeReady ==
    ASSUME TypeInv, NEW r \in Request, Serve(r) \/ Fail(r), NEW d \in Document,
           row'[d].status = "READY"
    PROVE  row[d].status = "READY" \/ (At(r, "stored") /\ d = req[r].doc)
<1>. DEFINE x == req[r].doc
<1>0. x \in Document /\ row[x] \in Row /\ req[r].seen \in Row /\ row \in [Document -> Row]
  BY ServeReq DEF TypeInv, TypeOK, Working
<1>1. CASE UNCHANGED row
  BY <1>1
<1>2. CASE InsertRow(r) \/ DeleteRow(r)
  BY <1>0, <1>2 DEF InsertRow, DeleteRow, NoRow
<1>3. CASE BumpVersion(r) /\ ~UNCHANGED row
  BY <1>0, <1>3, BumpedTo DEF BumpVersion
<1>4. ASSUME NEW s \in {"PROCESSING", "INDEXING"}, NEW p, CommitStatus(r, s, p)
      PROVE  row[d].status = "READY"
  <2>1. Written(row[x], req[r].seen, s, NoMessage).status \in {row[x].status, s}
    BY <1>0, WrittenTo DEF Status, InFlight
  <2>. QED BY <1>0, <1>4, <2>1 DEF CommitStatus
<1>5. CASE MarkProcessing(r) \/ MarkIndexing(r)
  BY <1>4, <1>5 DEF MarkProcessing, MarkIndexing
<1>6. CASE MarkReady(r) /\ ~UNCHANGED row
  BY <1>0, <1>6 DEF MarkReady
<1>7. CASE MarkFailed(r) /\ ~UNCHANGED row
  <2>1. PICK m \in Message : row' = [row EXCEPT ![x] = Written(@, req[r].seen, "FAILED", m)]
    BY <1>7 DEF MarkFailed
  <2>2. Written(row[x], req[r].seen, "FAILED", m).status \in {row[x].status, "FAILED"}
    BY <1>0, WrittenTo DEF Status
  <2>. QED BY <1>0, <2>1, <2>2
<1>. QED
  BY <1>1, <1>2, <1>3, <1>5, <1>6, <1>7 DEF Serve, Fail, Schedule, RemoveFile,
    LoadDocument, RefreshProcessing, Extract, RefreshIndexing, ClearChunks, StoreChunks,
    RefreshReady, ReloadFailed, RemoveFileFails, EmbedFails, DatabaseError

\* How a run moves between the points the invariant speaks of.
LEMMA ServePoints ==
    ASSUME Reliable, TypeInv, NEW r \in Request, Serve(r) \/ Fail(r)
    PROVE  /\ req'[r].at \in {"chunked", "indexing", "embedding", "storing", "stored"} =>
                 /\ req'[r].doc = req[r].doc
                 /\ \/ req[r].at \in {"chunked", "indexing", "embedding", "storing"}
                    \/ text[req[r].doc] > 0
           /\ req'[r].at = "stored" => StoreChunks(r) /\ UNCHANGED row
           /\ At(r, "storing") => StoreChunks(r)
           /\ (\E d \in Document : chunks'[d] # chunks[d] /\ chunks'[d] = {}) =>
                 DeleteRow(r) \/ ClearChunks(r)
<1>. USE DEF TypeInv, TypeOK, At, Caught, Uncaught, Handler, Idle
<1>1. CASE StoreChunks(r)
  <2>1. chunks'[req[r].doc] = {} => chunks'[req[r].doc] = chunks[req[r].doc]
    BY <1>1 DEF StoreChunks, Working
  <2>. QED BY <1>1, <2>1 DEF StoreChunks, Goto, DeleteRow, ClearChunks
<1>2. CASE ClearChunks(r)
  BY <1>2 DEF ClearChunks
<1>3. CASE DeleteRow(r)
  BY <1>3 DEF DeleteRow, Goto
<1>4. CASE Extract(r)
  BY <1>4 DEF Extract, Goto
<1>5. CASE MarkIndexing(r) \/ RefreshIndexing(r)
  BY <1>5 DEF MarkIndexing, CommitStatus, RefreshIndexing, LoadOr, Goto, Load
<1>. QED
  BY <1>1, <1>2, <1>3, <1>4, <1>5 DEF Serve, Fail, InsertRow, Schedule, BumpVersion,
    RemoveFile, LoadDocument, MarkProcessing, RefreshProcessing, CommitStatus, LoadOr,
    MarkReady, RefreshReady, ReloadFailed, MarkFailed, RemoveFileFails, EmbedFails,
    DatabaseError, Reliable, Goto, Load, Finish

LEMMA SearchServe ==
    ASSUME Reliable, SearchInv, NEW r \in Request, Serve(r) \/ Fail(r), StorageInv'
    PROVE  SearchInv'
<1>. USE DEF SearchInv
<1>0. TypeInv
  BY DEF StorageInv
<1>1. /\ \A q \in Request \ {r} : req'[q] = req[q]
      /\ UNCHANGED text
  BY <1>0, ServeReq, ServeDisk
<1>2. HasText'
  BY <1>0, <1>1, ServePoints DEF HasText
<1>3. EmptyIsBeingFilled'
  <2>. SUFFICES ASSUME NEW d \in Document, Exists(d)', chunks'[d] = {},
              row'[d].status = "READY" \/ \E q \in Request : At(q, "stored")' /\ req'[q].doc = d
       PROVE \E p \in Request : At(p, "storing")' /\ req'[p].doc = d
    BY DEF EmptyIsBeingFilled, At
  <2>1. CASE chunks'[d] # chunks[d]
    <3>1. DeleteRow(r) \/ ClearChunks(r)
      BY <1>0, <2>1, ServePoints
    <3>2. d = req[r].doc /\ req[r].doc \in Document
      BY <1>0, <2>1, <3>1 DEF DeleteRow, ClearChunks, TypeInv, TypeOK, Working, At
    <3>3. ~DeleteRow(r)
      BY <1>0, <3>2, ServeRows
    <3>. QED BY <1>0, <3>1, <3>2, <3>3 DEF ClearChunks, At, TypeInv, TypeOK
  <2>2. CASE chunks'[d] = chunks[d]
    <3>1. Exists(d)
      <4>1. CASE At(r, "written") /\ d = req[r].doc
        <5>1. InsertRow(r)
          BY <4>1 DEF Serve, Fail, InsertRow, Schedule, BumpVersion, DeleteRow, RemoveFile,
            LoadDocument, MarkProcessing, RefreshProcessing, Extract, MarkIndexing,
            RefreshIndexing, ClearChunks, StoreChunks, MarkReady, RefreshReady, ReloadFailed,
            MarkFailed, RemoveFileFails, EmbedFails, DatabaseError, Reliable, At
        <5>2. row'[d].status = "UPLOADING"
          BY <1>0, <4>1, <5>1 DEF InsertRow, TypeInv, TypeOK
        <5>3. PICK q \in Request : At(q, "stored")' /\ req'[q].doc = d
          BY <5>2
        <5>4. q # r
          BY <1>0, <5>1, <5>3 DEF InsertRow, Goto, At, TypeInv, TypeOK
        <5>5. req[q].doc # d
          BY <4>1, <5>4 DEF StorageInv, FreshUpload
        <5>. QED BY <1>1, <5>3, <5>4, <5>5
      <4>. QED BY <1>0, <4>1, ServeRows
    <3>2. ~(At(r, "storing") /\ d = req[r].doc)
      <4>. SUFFICES ASSUME At(r, "storing"), d = req[r].doc PROVE FALSE
        OBVIOUS
      <4>1. StoreChunks(r) /\ text[d] > 0 /\ text[d] \in Nat
        <5>1. text[d] \in ChunkCounts \cup {0}
          BY <1>0 DEF TypeInv, TypeOK
        <5>2. text[d] \in Nat
          BY <5>1, 0 \in Nat, CountsAssumption
        <5>. QED BY <1>0, <5>2, ServePoints DEF HasText, At
      <4>2. [index |-> 0, run |-> r] \in ChunksOf(d, r)
        BY <4>1 DEF ChunksOf
      <4>3. Insertable(d, r)
        BY <2>2, <3>1 DEF Insertable, Collides
      <4>. QED BY <1>0, <4>1, <4>2, <4>3 DEF StoreChunks, TypeInv, TypeOK
    <3>3. row[d].status = "READY" \/ \E q \in Request : At(q, "stored") /\ req[q].doc = d
      <4>1. CASE row'[d].status = "READY"
        BY <1>0, <4>1, ServeReady
      <4>2. ASSUME NEW q \in Request, At(q, "stored")', req'[q].doc = d
            PROVE  At(q, "stored") /\ req[q].doc = d
        <5>1. CASE q = r
          <6>1. StoreChunks(r) /\ req[r].doc = d /\ At(r, "storing")
            BY <1>0, <4>2, <5>1, ServePoints, ServeReq DEF At, StoreChunks, Idle
          <6>. QED BY <3>2, <6>1
        <5>2. CASE q # r
          BY <1>1, <4>2, <5>2 DEF At
        <5>. QED BY <5>1, <5>2
      <4>. QED BY <4>1, <4>2
    <3>4. PICK p \in Request : At(p, "storing") /\ req[p].doc = d
      BY <2>2, <3>1, <3>3 DEF EmptyIsBeingFilled
    <3>5. p # r
      BY <3>2, <3>4
    <3>. QED BY <1>1, <3>4, <3>5 DEF At
  <2>. QED BY <2>1, <2>2
<1>. QED BY <1>2, <1>3

LEMMA SearchAsk ==
    ASSUME SearchInv, NEW r \in Request, Ask(r), StorageInv'
    PROVE  SearchInv'
<1>. USE DEF SearchInv
<1>1. /\ UNCHANGED <<row, chunks>> /\ \A q \in Request \ {r} : req'[q] = req[q]
      /\ req[r].at = "idle" /\ req'[r].at \in {"written", "reindexing", "deleting"}
      /\ \A d \in issued : text'[d] = text[d]
  BY DEF StorageInv, TypeInv, TypeOK, Ask, Upload, StartReindex, StartDelete, At
<1>2. HasText'
  BY <1>1 DEF HasText, StorageInv, KnownIds
<1>3. EmptyIsBeingFilled'
  BY <1>1 DEF EmptyIsBeingFilled, At, Exists
<1>. QED BY <1>2, <1>3

\* Without crashes and database errors a READY document has chunks, except while
\* a run is between clearing and storing them.
THEOREM ReadyIsSearchable == ASSUME Reliable PROVE Spec => []ReadyHasChunks
<1>1. Init => SearchInv
  BY StorageInit DEF Init, SearchInv, HasText, EmptyIsBeingFilled, Idle, NoRow, Exists
<1>2. SearchInv /\ [Next]_vars => SearchInv'
  <2>. SUFFICES ASSUME SearchInv, [Next]_vars PROVE SearchInv'
    OBVIOUS
  <2>1. StorageInv'
    BY StorageStep DEF SearchInv
  <2>2. CASE UNCHANGED vars
    BY <2>1, <2>2 DEF vars, SearchInv, HasText, EmptyIsBeingFilled, At, Exists
  <2>. QED BY <2>1, <2>2, SearchAsk, SearchServe DEF Next, Crash, Reliable
<1>3. SearchInv => ReadyHasChunks
  BY DEF SearchInv, EmptyIsBeingFilled, ReadyHasChunks, Exists
<1>. QED BY <1>1, <1>2, <1>3, PTL DEF Spec

-----------------------------------------------------------------------------
(* Files without a row.                                                     *)

\* Serving a request never makes a file appear, and each half of an upload or a
\* delete that loses its request has run to its end.
LEMMA ServeHalves ==
    ASSUME Reliable, "unlink" \notin Faults, TypeInv, NEW r \in Request, Serve(r) \/ Fail(r)
    PROVE  /\ disk' \subseteq disk
           /\ At(r, "written") => row'[req[r].doc].status # "NONE"
           /\ At(r, "deleted") => req[r].doc \notin disk'
           /\ DeleteRow(r) => req'[r].doc = req[r].doc /\ req'[r].at = "deleted"
<1>. USE DEF At, Caught, Uncaught
<1>1. CASE InsertRow(r)
  <2>1. req[r].doc \in Document
    BY <1>1, ServeReq DEF TypeInv, Working
  <2>. QED BY <1>1, <2>1 DEF InsertRow, TypeInv, TypeOK, DeleteRow
<1>2. CASE RemoveFile(r)
  BY <1>2 DEF RemoveFile, DeleteRow
<1>3. CASE DeleteRow(r)
  BY <1>3 DEF DeleteRow, Goto, TypeInv, TypeOK
<1>. QED
  BY <1>1, <1>2, <1>3 DEF Serve, Fail, Schedule, BumpVersion, DeleteRow,
    LoadDocument, MarkProcessing, RefreshProcessing, Extract, MarkIndexing, RefreshIndexing,
    CommitStatus, ClearChunks, StoreChunks, MarkReady, RefreshReady, ReloadFailed, MarkFailed,
    RemoveFileFails, EmbedFails, DatabaseError, Reliable

LEMMA OrphanStep ==
    ASSUME Reliable, "unlink" \notin Faults, TypeInv, NoOrphanFile, [Next]_vars
    PROVE  NoOrphanFile'
<1>. DEFINE Half(r, d) == req[r].doc = d /\ req[r].at \in {"written", "deleted"}
<1>. SUFFICES ASSUME NEW d \in disk', ~Exists(d)'
     PROVE \E q \in Request : Half(q, d)'
  BY DEF NoOrphanFile
<1>1. CASE UNCHANGED vars
  BY <1>1 DEF vars, NoOrphanFile, Exists
<1>2. ASSUME NEW r \in Request, Ask(r) PROVE \E q \in Request : Half(q, d)'
  <2>1. UNCHANGED row /\ req[r].at = "idle" /\ \A q \in Request \ {r} : req'[q] = req[q]
    BY <1>2 DEF Ask, Upload, StartReindex, StartDelete, At, TypeInv, TypeOK
  <2>2. CASE d \in disk
    <3>1. PICK q \in Request : Half(q, d)
      BY <2>1, <2>2 DEF NoOrphanFile, Exists
    <3>. QED BY <2>1, <3>1
  <2>3. CASE d \notin disk
    BY <1>2, <2>3 DEF Ask, Upload, StartReindex, StartDelete, TypeInv, TypeOK
  <2>. QED BY <2>2, <2>3
<1>3. ASSUME NEW r \in Request, Serve(r) \/ Fail(r) PROVE \E q \in Request : Half(q, d)'
  <2>0. d \in disk /\ d \in Document
    BY <1>3, ServeHalves DEF TypeInv, TypeOK
  <2>1. CASE Exists(d)
    <3>1. DeleteRow(r) /\ d = req[r].doc
      BY <1>3, <2>0, <2>1, ServeRows
    <3>. QED BY <1>3, <3>1, ServeHalves
  <2>2. CASE ~Exists(d)
    <3>1. PICK q \in Request : Half(q, d)
      BY <2>0, <2>2 DEF NoOrphanFile
    <3>2. q # r
      BY <1>3, <3>1, ServeHalves DEF At, Exists
    <3>. QED BY <1>3, <3>1, <3>2, ServeReq
  <2>. QED BY <2>1, <2>2
<1>. QED BY <1>1, <1>2, <1>3 DEF Next, Crash, Reliable

\* As long as the process, the database and unlink do not fail, a file without a
\* row belongs to an upload or a delete that is not over yet.
THEOREM NothingOrphaned ==
    ASSUME Reliable, "unlink" \notin Faults PROVE Spec => []NoOrphanFile
<1>1. Init => TypeInv /\ NoOrphanFile
  BY TypeInvInit DEF Init, NoOrphanFile
<1>2. (TypeInv /\ NoOrphanFile) /\ [Next]_vars => (TypeInv /\ NoOrphanFile)'
  BY TypeInvStep, OrphanStep
<1>. QED BY <1>1, <1>2, PTL DEF Spec

-----------------------------------------------------------------------------
(* The lifecycle of a document before its first reindex.                    *)

\* A request that runs, or is about to run, the pipeline.
Running == {"inserted", "bumped"} \cup Caught \cup Uncaught

\* Rows have a version, and a reindex computes the next one from it.
Versioned ==
    /\ \A d \in Document : Exists(d) => row[d].version >= 1
    /\ \A r \in Request : At(r, "reindexing") => req[r].seen.version >= 1

\* The status of a document that only the run at point p works on.
StatusAt(p) ==
    CASE p \in {"inserted", "queued", "loaded"} -> {"UPLOADING"}
      [] p \in {"processing", "extracting", "chunked"} -> {"PROCESSING"}
      [] p \in {"indexing", "embedding", "storing", "stored"} -> {"INDEXING"}
      [] p = "ready" -> {"READY"}
      [] p = "bumped" -> {}
      [] OTHER -> InFlight \cup {"READY"}

\* Where a run goes on to use the status it has loaded.
Holding == {"loaded", "extracting", "chunked", "embedding", "marking"}

\* What run r and the row of its document agree on.
InStep(r) ==
    /\ row[req[r].doc].status \in StatusAt(req[r].at)
    /\ req[r].at \in Holding => req[r].seen.status = row[req[r].doc].status

\* A document that was never reindexed has at most one run, which is in step
\* with it.
FirstRun ==
    \A d \in Document : Exists(d) /\ row[d].version <= 1 =>
        \A r \in Request : req[r].at \in Running /\ req[r].doc = d =>
            /\ \A q \in Request \ {r} : req[q].at \in Running => req[q].doc # d
            /\ InStep(r)

LifeInv == StorageInv /\ Versioned /\ FirstRun

\* The version an UPDATE leaves.
LEMMA WrittenVersion ==
    ASSUME NEW current \in Row, NEW seen \in Row, NEW s \in Status,
           NEW e \in Message \cup {NoMessage}
    PROVE  Written(current, seen, s, e).version = current.version
BY DEF Written, Row

LEMMA BumpedVersion ==
    ASSUME NEW current \in Row, NEW seen \in Row
    PROVE  Bumped(current, seen).version = seen.version + 1
<1>1. Written(current, seen, "UPLOADING", NoMessage) \in Row
  BY WrittenIsRow DEF Status, InFlight
<1>. QED BY <1>1 DEF Bumped, Row

\* A step of a request changes no row but its own document's, and its version
\* only where it inserts, bumps or deletes that row.
LEMMA ServeVersions ==
    ASSUME TypeInv, NEW r \in Request, Serve(r) \/ Fail(r)
    PROVE  /\ \A d \in Document \ {req[r].doc} : row'[d] = row[d]
           /\ \/ row'[req[r].doc].version = row[req[r].doc].version
              \/ InsertRow(r) /\ row'[req[r].doc].version = 1
              \/ BumpVersion(r) /\ row'[req[r].doc].version = req[r].seen.version + 1
              \/ DeleteRow(r) /\ row'[req[r].doc] = NoRow
<1>. DEFINE x == req[r].doc
<1>0. /\ x \in Document /\ row[x] \in Row /\ req[r].seen \in Row
      /\ row \in [Document -> Row]
  BY ServeReq DEF TypeInv, TypeOK, Working
<1>1. CASE UNCHANGED row
  BY <1>1
<1>2. CASE InsertRow(r) \/ DeleteRow(r)
  BY <1>0, <1>2 DEF InsertRow, DeleteRow
<1>3. CASE BumpVersion(r) /\ ~UNCHANGED row
  BY <1>0, <1>3, BumpedVersion DEF BumpVersion
<1>4. ASSUME NEW s \in Status, NEW p, CommitStatus(r, s, p), ~UNCHANGED row
      PROVE  /\ \A d \in Document \ {x} : row'[d] = row[d]
             /\ row'[x].version = row[x].version
  <2>1. row' = [row EXCEPT ![x] = Written(@, req[r].seen, s, NoMessage)]
    BY <1>4 DEF CommitStatus
  <2>. QED BY <1>0, <2>1, WrittenVersion
<1>5. CASE (MarkProcessing(r) \/ MarkIndexing(r)) /\ ~UNCHANGED row
  BY <1>4, <1>5 DEF MarkProcessing, MarkIndexing, Status, InFlight
<1>6. CASE MarkReady(r) /\ ~UNCHANGED row
  <2>1. row' = [row EXCEPT ![x] = Published(@)]
    BY <1>6 DEF MarkReady
  <2>2. Published(row[x]).version = row[x].version
    BY <1>0 DEF Published, Row
  <2>. QED BY <1>0, <2>1, <2>2
<1>7. CASE MarkFailed(r) /\ ~UNCHANGED row
  <2>1. PICK m \in Message : row' = [row EXCEPT ![x] = Written(@, req[r].seen, "FAILED", m)]
    BY <1>7 DEF MarkFailed
  <2>2. Written(row[x], req[r].seen, "FAILED", m).version = row[x].version
    <3>1. "FAILED" \in Status /\ m \in Message \cup {NoMessage}
      BY DEF Status
    <3>. HIDE DEF x
    <3>. QED BY <1>0, <3>1, WrittenVersion
  <2>. QED BY <1>0, <2>1, <2>2
<1>. QED
  BY <1>1, <1>2, <1>3, <1>5, <1>6, <1>7 DEF Serve, Fail, Schedule, RemoveFile,
    LoadDocument, RefreshProcessing, Extract, RefreshIndexing, ClearChunks, StoreChunks,
    RefreshReady, ReloadFailed, RemoveFileFails, EmbedFails, DatabaseError

\* The only run of a document stays in step with it, and takes its status along
\* the lifecycle.
LEMMA RunInStep ==
    ASSUME TypeInv, NEW r \in Request, Serve(r) \/ Fail(r),
           Exists(req[r].doc), req[r].at \in Running, InStep(r)
    PROVE  /\ row'[req[r].doc].status # row[req[r].doc].status =>
                 <<row[req[r].doc].status, row'[req[r].doc].status>> \in Lifecycle
           /\ req'[r].at \in Running => InStep(r)'
<1>. DEFINE x == req[r].doc
<1>0. /\ x \in Document /\ row[x] \in Row /\ req[r].seen \in Row /\ row \in [Document -> Row]
      /\ req \in [Request -> [at: Point, doc: Document \cup {NoDocument}, seen: Row]]
  BY ServeReq DEF TypeInv, TypeOK, Working
<1>. USE DEF At, Exists, Running, Caught, Uncaught, InFlight, Holding, InStep, StatusAt, Idle
<1>1. CASE Schedule(r) \/ LoadDocument(r) \/ RefreshProcessing(r) \/ RefreshIndexing(r)
           \/ RefreshReady(r) \/ ReloadFailed(r)
  BY <1>0, <1>1 DEF Schedule, LoadDocument, RefreshProcessing, RefreshIndexing,
    RefreshReady, ReloadFailed, LoadOr, Load, Goto, Finish
<1>2. CASE Extract(r) \/ ClearChunks(r) \/ StoreChunks(r) \/ EmbedFails(r)
  BY <1>0, <1>2 DEF Extract, ClearChunks, StoreChunks, EmbedFails, Goto
<1>3. CASE MarkProcessing(r)
  <2>1. row' = [row EXCEPT ![x] = Written(@, req[r].seen, "PROCESSING", NoMessage)]
        /\ Goto(r, "processing")
    BY <1>3 DEF MarkProcessing, CommitStatus
  <2>2. row'[x].status = "PROCESSING" /\ row[x].status = "UPLOADING"
    BY <1>0, <1>3, <2>1, WrittenTo DEF MarkProcessing, Status
  <2>. QED BY <1>0, <2>1, <2>2 DEF Goto, Lifecycle
<1>4. CASE MarkIndexing(r)
  <2>1. row' = [row EXCEPT ![x] = Written(@, req[r].seen, "INDEXING", NoMessage)]
        /\ Goto(r, "indexing")
    BY <1>4 DEF MarkIndexing, CommitStatus
  <2>2. row'[x].status = "INDEXING" /\ row[x].status = "PROCESSING"
    BY <1>0, <1>4, <2>1, WrittenTo DEF MarkIndexing, Status
  <2>. QED BY <1>0, <2>1, <2>2 DEF Goto, Lifecycle
<1>5. CASE MarkReady(r)
  <2>1. row' = [row EXCEPT ![x] = Published(@)] /\ Goto(r, "ready")
    BY <1>5 DEF MarkReady
  <2>2. row'[x].status = "READY" /\ row[x].status = "INDEXING"
    BY <1>0, <1>5, <2>1 DEF MarkReady, Published, Row
  <2>. QED BY <1>0, <2>1, <2>2 DEF Goto, Lifecycle
<1>6. CASE MarkFailed(r)
  <2>1. PICK m \in Message : row' = [row EXCEPT ![x] = Written(@, req[r].seen, "FAILED", m)]
    BY <1>6 DEF MarkFailed
  <2>2. row'[x].status = "FAILED" /\ row[x].status \in InFlight \cup {"READY"}
    BY <1>0, <1>6, <2>1, WrittenTo DEF MarkFailed, Status
  <2>. QED BY <1>0, <1>6, <2>1, <2>2 DEF MarkFailed, Finish, Lifecycle
<1>7. CASE DatabaseError(r)
  BY <1>0, <1>7 DEF DatabaseError, Goto, Finish, Handler
<1>. QED
  BY <1>1, <1>2, <1>3, <1>4, <1>5, <1>6, <1>7 DEF Serve, Fail, InsertRow, BumpVersion,
    DeleteRow, RemoveFile, RemoveFileFails

\* A request outside of the pipeline starts a first run with InsertRow only.
LEMMA OutsideRun ==
    ASSUME TypeInv, Versioned, NEW r \in Request, Serve(r) \/ Fail(r),
           req[r].at \notin Running,
           row'[req[r].doc].status # "NONE", row'[req[r].doc].version <= 1
    PROVE  InsertRow(r) \/ (UNCHANGED row /\ req'[r].at \notin Running)
<1>. DEFINE x == req[r].doc
<1>0. /\ x \in Document /\ row[x] \in Row /\ req[r].seen \in Row /\ row \in [Document -> Row]
      /\ req \in [Request -> [at: Point, doc: Document \cup {NoDocument}, seen: Row]]
  BY ServeReq DEF TypeInv, TypeOK, Working
<1>. USE DEF Running, Caught, Uncaught, Idle, At
<1>1. CASE BumpVersion(r)
  <2>1. CASE Exists(x)
    <3>1. row'[x] = Bumped(row[x], req[r].seen) /\ req[r].seen.version \in Nat
      BY <1>0, <1>1, <2>1 DEF BumpVersion, Row
    <3>2. req[r].seen.version >= 1
      BY <1>1 DEF BumpVersion, Versioned
    <3>. QED BY <1>0, <3>1, <3>2, BumpedVersion
  <2>2. CASE ~Exists(x)
    BY <1>0, <1>1, <2>2 DEF BumpVersion, Finish
  <2>. QED BY <2>1, <2>2
<1>2. CASE DeleteRow(r)
  BY <1>0, <1>2, NoRowIsRow DEF DeleteRow, Exists
<1>3. CASE RemoveFile(r) \/ RemoveFileFails(r)
  BY <1>0, <1>3 DEF RemoveFile, RemoveFileFails, Finish
<1>4. CASE DatabaseError(r)
  BY <1>0, <1>4 DEF DatabaseError, Finish
<1>. QED
  BY <1>1, <1>2, <1>3, <1>4 DEF Serve, Fail, Schedule, LoadDocument, MarkProcessing,
    RefreshProcessing, Extract, MarkIndexing, RefreshIndexing, ClearChunks, StoreChunks,
    MarkReady, RefreshReady, ReloadFailed, MarkFailed, EmbedFails

LEMMA LifeServe ==
    ASSUME LifeInv, NEW r \in Request, Serve(r) \/ Fail(r)
    PROVE  Versioned' /\ FirstRun'
<1>. DEFINE x == req[r].doc
<1>0. /\ TypeInv /\ x \in Document /\ \A q \in Request \ {r} : req'[q] = req[q]
      /\ req[r].seen \in Row /\ row \in [Document -> Row]
      /\ req'[r] = Idle \/ req'[r].doc = x
      /\ Idle.at \notin Running \cup {"reindexing"}
  BY ServeReq DEF LifeInv, StorageInv, TypeInv, TypeOK, Working, Idle, Running, Caught, Uncaught
<1>1. Versioned'
  <2>1. ASSUME NEW d \in Document, Exists(d)' PROVE row'[d].version >= 1
    <3>1. CASE d # x
      BY <1>0, <2>1, <3>1, ServeVersions DEF LifeInv, Versioned, Exists
    <3>2. CASE d = x
      <4>1. /\ BumpVersion(r) => req[r].seen.version >= 1
            /\ req[r].seen.version \in Nat /\ row[x].version \in Nat
        BY <1>0 DEF LifeInv, Versioned, BumpVersion, Row
      <4>2. ~InsertRow(r) => row[x].version >= 1
        <5>1. InsertRow(r) \/ Exists(x) \/ UNCHANGED row
          BY <1>0, <2>1, <3>2, ServeRows DEF At, Serve, Fail, Schedule, BumpVersion, DeleteRow,
            RemoveFile, LoadDocument, MarkProcessing, RefreshProcessing, Extract, MarkIndexing,
            RefreshIndexing, ClearChunks, StoreChunks, MarkReady, RefreshReady, ReloadFailed,
            MarkFailed, RemoveFileFails, EmbedFails, DatabaseError
        <5>. QED BY <1>0, <2>1, <3>2, <5>1 DEF LifeInv, Versioned, Exists
      <4>3. \/ row'[x].version = row[x].version /\ ~InsertRow(r)
            \/ row'[x].version = 1
            \/ row'[x].version = req[r].seen.version + 1
        BY <1>0, <2>1, <3>2, ServeVersions, NoRowIsRow DEF Exists, InsertRow
      <4>. QED BY <3>2, <4>1, <4>2, <4>3
    <3>. QED BY <3>1, <3>2
  <2>2. ASSUME NEW q \in Request, At(q, "reindexing")' PROVE req'[q].seen.version >= 1
    <3>1. q # r
      BY <1>0, <2>2 DEF At, Serve, Fail, InsertRow, Schedule, BumpVersion, DeleteRow, RemoveFile,
        LoadDocument, MarkProcessing, RefreshProcessing, Extract, MarkIndexing, RefreshIndexing,
        CommitStatus, LoadOr, ClearChunks, StoreChunks, MarkReady, RefreshReady, ReloadFailed,
        MarkFailed, RemoveFileFails, EmbedFails, DatabaseError, Goto, Load, Finish, TypeInv, TypeOK
    <3>. QED BY <1>0, <2>2, <3>1 DEF LifeInv, Versioned, At
  <2>. QED BY <2>1, <2>2 DEF Versioned, Exists, At
<1>2. FirstRun'
  <2>. SUFFICES ASSUME NEW d \in Document, Exists(d)', row'[d].version <= 1,
                       NEW q \in Request, req'[q].at \in Running, req'[q].doc = d
       PROVE  /\ \A p \in Request \ {q} : req'[p].at \in Running => req'[p].doc # d
              /\ InStep(q)'
    BY DEF FirstRun, Exists
  <2>1. CASE d # x
    <3>1. q # r /\ req'[q] = req[q] /\ row'[d] = row[d] /\ Exists(d)
      BY <1>0, <2>1, ServeVersions DEF Exists
    <3>2. /\ \A p \in Request \ {q} : req[p].at \in Running => req[p].doc # d
          /\ InStep(q)
      BY <3>1 DEF LifeInv, FirstRun
    <3>. QED BY <1>0, <2>1, <3>1, <3>2 DEF InStep
  <2>2. CASE d = x /\ req[r].at \notin Running
    <3>1. CASE InsertRow(r)
      <4>1. \A p \in Request \ {r} : req[p].doc # x
        BY <3>1 DEF InsertRow, LifeInv, StorageInv, FreshUpload
      <4>2. q = r /\ req'[r].at = "inserted" /\ row'[x].status = "UPLOADING"
        BY <1>0, <2>2, <3>1, <4>1 DEF InsertRow, Goto, TypeInv, TypeOK, At
      <4>. QED BY <1>0, <2>2, <4>1, <4>2 DEF InStep, StatusAt, Holding
    <3>2. CASE UNCHANGED row /\ req'[r].at \notin Running
      <4>1. q # r /\ Exists(d)
        BY <3>2 DEF Exists
      <4>. QED BY <1>0, <2>2, <3>2, <4>1 DEF LifeInv, FirstRun, InStep
    <3>. QED BY <1>0, <2>2, <3>1, <3>2, OutsideRun DEF LifeInv, Exists
  <2>3. CASE d = x /\ req[r].at \in Running
    <3>1. Exists(x) /\ row[x].version <= 1
      <4>1. ~InsertRow(r) /\ ~BumpVersion(r) /\ ~At(r, "written")
        BY <2>3 DEF InsertRow, BumpVersion, At, Running, Caught, Uncaught
      <4>. QED BY <1>0, <2>3, <4>1, ServeRows, ServeVersions, NoRowIsRow DEF Exists
    <3>2. /\ \A p \in Request \ {r} : req[p].at \in Running => req[p].doc # x
          /\ InStep(r)
      BY <1>0, <2>3, <3>1 DEF LifeInv, FirstRun
    <3>3. q = r
      BY <1>0, <2>3, <3>2
    <3>. QED BY <1>0, <2>3, <3>1, <3>2, <3>3, RunInStep
  <2>. QED BY <2>1, <2>2, <2>3
<1>. QED BY <1>1, <1>2

LEMMA LifeStep == LifeInv /\ [Next]_vars => LifeInv'
<1>. SUFFICES ASSUME LifeInv, [Next]_vars PROVE LifeInv'
  OBVIOUS
<1>0. StorageInv' /\ TypeInv
  BY StorageStep DEF LifeInv, StorageInv
<1>1. CASE UNCHANGED vars
  BY <1>0, <1>1 DEF vars, LifeInv, Versioned, FirstRun, InStep, Exists, At
<1>2. CASE Crash
  BY <1>0, <1>2 DEF Crash, LifeInv, Versioned, FirstRun, Exists, At, Idle, Running, Caught, Uncaught
<1>3. ASSUME NEW r \in Request, Ask(r) PROVE LifeInv'
  <2>1. /\ UNCHANGED row /\ \A q \in Request \ {r} : req'[q] = req[q]
        /\ req'[r].at \in {"written", "reindexing", "deleting"}
        /\ req'[r].at = "reindexing" =>
              \E d \in Document : Exists(d) /\ req'[r].seen = row[d]
    BY <1>0, <1>3 DEF Ask, Upload, StartReindex, StartDelete, TypeInv, TypeOK
  <2>2. Versioned' /\ FirstRun'
    BY <2>1 DEF LifeInv, Versioned, FirstRun, InStep, Exists, At, Running, Caught, Uncaught
  <2>. QED BY <1>0, <2>2 DEF LifeInv
<1>. QED BY <1>0, <1>1, <1>2, <1>3, LifeServe DEF Next, LifeInv

\* Until its first reindex the status of a document moves only along the
\* lifecycle the documentation draws, whatever fails meanwhile.
THEOREM LifecycleFollowed == Spec => FollowsLifecycle
<1>. DEFINE Moves ==
        \A d \in Document :
            row[d].version <= 1 /\ row'[d].status # row[d].status =>
                <<row[d].status, row'[d].status>> \in Lifecycle
<1>1. Init => LifeInv
  <2>1. Init => StorageInv
    BY StorageInit
  <2>2. Init => Versioned /\ FirstRun
    BY NoRowIsRow DEF Init, Versioned, FirstRun, Exists, At, Idle
  <2>. QED BY <2>1, <2>2 DEF LifeInv
<1>2. LifeInv /\ [Next]_vars => [Moves]_vars
  <2>. SUFFICES ASSUME LifeInv, Next, NEW d \in Document,
                       row[d].version <= 1, row'[d].status # row[d].status
       PROVE  <<row[d].status, row'[d].status>> \in Lifecycle
    BY DEF vars
  <2>1. PICK r \in Request : Serve(r) \/ Fail(r)
    BY DEF Next, Crash, Ask, Upload, StartReindex, StartDelete
  <2>2. /\ TypeInv /\ req[r].doc = d /\ row \in [Document -> Row] /\ row' \in [Document -> Row]
    BY <2>1, ServeVersions, TypeInvStep DEF LifeInv, StorageInv, TypeInv, TypeOK
  <2>3. CASE ~Exists(d)'
    BY <2>2, <2>3 DEF Exists, Lifecycle, Row
  <2>4. CASE Exists(d)' /\ ~Exists(d)
    <3>1. At(r, "written")
      BY <2>1, <2>2, <2>4, ServeRows
    <3>. QED BY <2>1, <2>2, <2>4, <3>1 DEF Exists, Lifecycle, At, Serve, Fail, InsertRow, Schedule,
      BumpVersion, DeleteRow, RemoveFile, LoadDocument, MarkProcessing, RefreshProcessing, Extract,
      MarkIndexing, RefreshIndexing, ClearChunks, StoreChunks, MarkReady, RefreshReady,
      ReloadFailed, MarkFailed, RemoveFileFails, EmbedFails, DatabaseError
  <2>5. CASE Exists(d)' /\ Exists(d) /\ req[r].at \in Running
    BY <2>1, <2>2, <2>5, RunInStep DEF LifeInv, FirstRun
  <2>6. CASE Exists(d)' /\ Exists(d) /\ req[r].at \notin Running
    <3>1. BumpVersion(r)
      BY <2>1, <2>2, <2>6, ServeVersions
      DEF Exists, At, Running, Caught, Uncaught, Serve, Fail, InsertRow, Schedule,
      DeleteRow, RemoveFile, LoadDocument, MarkProcessing, RefreshProcessing, Extract,
      MarkIndexing, RefreshIndexing, ClearChunks, StoreChunks, MarkReady, RefreshReady,
      ReloadFailed, MarkFailed, RemoveFileFails, EmbedFails, DatabaseError, LifeInv, StorageInv,
      FreshUpload, NoRow, TypeInv, TypeOK
    <3>2. row'[d].status = "UPLOADING" /\ row[d].status \in Status
      BY <2>2, <2>6, <3>1, BumpedTo DEF BumpVersion, Exists, Row, TypeInv, TypeOK
    <3>. QED BY <3>2 DEF Lifecycle
  <2>. QED BY <2>3, <2>4, <2>5, <2>6
<1>. QED BY <1>1, <1>2, LifeStep, PTL DEF Spec, FollowsLifecycle

-----------------------------------------------------------------------------
(* The pipeline implements the knowledge base as a search sees it.         *)

PhaseMap   == [d \in Document |-> Phase(d)]
ContentMap == [d \in Document |-> Content(d)]

\* Some upload of d is between storing the file and inserting the row.
Uploading(d) == \E r \in Request : At(r, "written") /\ req[r].doc = d

LEMMA PhaseDef ==
    \A d \in Document :
        /\ Exists(d) => Phase(d) = "live"
        /\ ~Exists(d) /\ d \in issued /\ ~Uploading(d) => Phase(d) = "gone"
        /\ ~Exists(d) /\ (d \notin issued \/ Uploading(d)) => Phase(d) = "absent"
BY DEF Phase, Uploading

\* The content of a document with the chunks of one run is that run.
LEMMA ContentOf ==
    ASSUME NEW d \in Document, NEW r \in Request, chunks[d] = ChunksOf(d, r), chunks[d] # {}
    PROVE  Content(d) = r
<1>1. \A q \in Request : (\E c \in chunks[d] : c.run = q) <=> q = r
  BY DEF ChunksOf
<1>. QED BY <1>1 DEF Content

LEMMA RefineInit == Init => KB!Init
<1>. SUFFICES ASSUME Init PROVE KB!Init
  OBVIOUS
<1>1. \A d \in Document : Phase(d) = "absent"
  BY NoRowIsRow DEF Init, Phase, Exists
<1>2. \A d \in Document : Content(d) = NoDocument
  BY DEF Init, Content
<1>. QED BY <1>1, <1>2 DEF KB!Init

\* A step that changes neither rows nor chunks nor uploads is invisible.
LEMMA Invisible ==
    ASSUME UNCHANGED <<row, chunks>>,
           \A d \in Document : Exists(d) \/ (d \in issued' /\ ~Uploading(d)' <=> d \in issued /\ ~Uploading(d))
    PROVE  UNCHANGED <<PhaseMap, ContentMap>>
<1>1. \A d \in Document : Exists(d)' <=> Exists(d)
  BY DEF Exists
<1>2. \A d \in Document : Phase(d)' = Phase(d)
  BY <1>1 DEF Phase, Uploading
<1>3. \A d \in Document : Content(d)' = Content(d)
  BY DEF Content
<1>. QED BY <1>2, <1>3 DEF PhaseMap, ContentMap

LEMMA RefineAsk ==
    ASSUME StorageInv, NEW r \in Request, Ask(r)
    PROVE  UNCHANGED <<PhaseMap, ContentMap>>
<1>1. UNCHANGED <<row, chunks>> /\ req[r].at = "idle"
      /\ \A q \in Request \ {r} : req'[q] = req[q]
  BY DEF Ask, Upload, StartReindex, StartDelete, StorageInv, TypeInv, TypeOK, At
<1>2. CASE Upload(r)
  <2>1. PICK x \in Document \ issued :
          /\ issued' = issued \cup {x}
          /\ req'[r] = [at |-> "written", doc |-> x, seen |-> NoRow]
    BY <1>2 DEF Upload, StorageInv, TypeInv, TypeOK
  <2>2. Uploading(x)'
    BY <2>1 DEF Uploading, At
  <2>3. \A d \in Document \ {x} : Uploading(d)' <=> Uploading(d)
    BY <1>1, <2>1 DEF Uploading, At
  <2>. QED BY <1>1, <2>1, <2>2, <2>3, Invisible
<1>3. CASE StartReindex(r) \/ StartDelete(r)
  <2>1. req'[r].at # "written" /\ UNCHANGED issued
    BY <1>3 DEF StartReindex, StartDelete, StorageInv, TypeInv, TypeOK
  <2>2. \A d \in Document : Uploading(d)' <=> Uploading(d)
    BY <1>1, <2>1 DEF Uploading, At
  <2>. QED BY <1>1, <2>1, <2>2, Invisible
<1>. QED BY <1>2, <1>3 DEF Ask

\* The uploads of a request that is served: only an InsertRow, or an error in
\* its place, ends one.
LEMMA ServeUploading ==
    ASSUME StorageInv, NEW r \in Request, Serve(r) \/ Fail(r), NEW d \in Document
    PROVE  Uploading(d)' <=> Uploading(d) /\ ~(At(r, "written") /\ req[r].doc = d)
<1>1. /\ \A q \in Request \ {r} : req'[q] = req[q]
      /\ req'[r].at # "written"
  BY ServeReq DEF StorageInv
<1>2. \A q \in Request \ {r} :
        At(r, "written") /\ req[r].doc = d => req[q].doc # d
  BY DEF StorageInv, FreshUpload
<1>. QED BY <1>1, <1>2 DEF Uploading, At

LEMMA RefineServe ==
    ASSUME StorageInv, NEW r \in Request, Serve(r) \/ Fail(r)
    PROVE  KB!Next \/ UNCHANGED <<PhaseMap, ContentMap>>
<1>p. PICK x \in Document : x = req[r].doc
  BY ServeReq DEF StorageInv, TypeInv, Working
<1>0. /\ x = req[r].doc /\ x \in issued /\ req[r].at # "idle"
      /\ TypeInv /\ row \in [Document -> Row] /\ chunks \in [Document -> SUBSET Chunk]
      /\ req \in [Request -> [at: Point, doc: Document \cup {NoDocument}, seen: Row]]
  BY <1>p, ServeReq DEF StorageInv, KnownIds, TypeInv, TypeOK
<1>a. UNCHANGED issued
  BY ServeDisk
<1>b. \A d \in Document : Uploading(d)' <=> Uploading(d) /\ ~(At(r, "written") /\ x = d)
  BY <1>0, ServeUploading
<1>c. \A d \in Document : (Exists(d)' <=> Exists(d)) /\ ~(At(r, "written") /\ x = d)
                             => Phase(d)' = Phase(d)
  BY <1>a, <1>b DEF Phase, Uploading
<1>d. \A d \in Document : chunks'[d] = chunks[d] => Content(d)' = Content(d)
  BY DEF Content
<1>1. CASE InsertRow(r)
  <2>1. /\ At(r, "written") /\ UNCHANGED chunks /\ Exists(x)'
        /\ \A d \in Document \ {x} : row'[d] = row[d]
    BY <1>0, <1>1 DEF InsertRow, Exists
  <2>2. ~Exists(x) /\ Uploading(x)
    BY <1>0, <2>1 DEF StorageInv, FreshUpload, Uploading
  <2>3. Phase(x) = "absent" /\ Phase(x)' = "live"
    BY <1>0, <2>1, <2>2, PhaseDef DEF Phase
  <2>4. \A d \in Document \ {x} : Phase(d)' = Phase(d)
    BY <1>c, <2>1 DEF Exists
  <2>5. \A d \in Document : Content(d)' = Content(d)
    BY <1>d, <2>1
  <2>6. KB!Add(x)
    BY <1>0, <2>3, <2>4, <2>5 DEF KB!Add
  <2>. QED BY <1>0, <2>6 DEF KB!Next
<1>2. CASE DeleteRow(r)
  <2>1. /\ ~At(r, "written") /\ ~Exists(x)' /\ chunks'[x] = {}
        /\ \A d \in Document \ {x} : row'[d] = row[d] /\ chunks'[d] = chunks[d]
    BY <1>0, <1>2, NoRowIsRow DEF DeleteRow, Exists, At
  <2>2. \A d \in Document \ {x} : Phase(d)' = Phase(d) /\ Content(d)' = Content(d)
    BY <1>c, <1>d, <2>1 DEF Exists
  <2>3. Content(x)' = NoDocument
    BY <2>1 DEF Content
  <2>4. CASE Exists(x)
    <3>1. ~Uploading(x)
      BY <2>4 DEF StorageInv, FreshUpload, Uploading
    <3>2. Phase(x) = "live" /\ Phase(x)' = "gone"
      BY <1>0, <1>a, <1>b, <2>1, <2>4, <3>1 DEF Phase, Uploading
    <3>3. KB!Remove(x)
      BY <1>0, <2>2, <2>3, <3>2 DEF KB!Remove
    <3>. QED BY <1>0, <3>3 DEF KB!Next
  <2>5. CASE ~Exists(x)
    <3>1. Phase(x)' = Phase(x)
      BY <1>0, <1>c, <2>1, <2>5
    <3>2. Content(x)' = Content(x)
      BY <1>0, <1>d, <2>1, <2>5 DEF StorageInv, DeletedLeavesNoChunks
    <3>. QED BY <2>2, <3>1, <3>2 DEF PhaseMap, ContentMap
  <2>. QED BY <2>4, <2>5
<1>3. CASE ClearChunks(r)
  <2>1. /\ UNCHANGED row /\ ~At(r, "written") /\ chunks'[x] = {}
        /\ \A d \in Document \ {x} : chunks'[d] = chunks[d]
    BY <1>0, <1>3 DEF ClearChunks, At
  <2>2. \A d \in Document : Phase(d)' = Phase(d)
    BY <1>c, <2>1 DEF Exists
  <2>3. Content(x)' = NoDocument /\ \A d \in Document \ {x} : Content(d)' = Content(d)
    BY <1>d, <2>1 DEF Content
  <2>4. KB!Clear(x)
    BY <1>0, <2>2, <2>3 DEF KB!Clear
  <2>. QED BY <1>0, <2>4 DEF KB!Next
<1>4. CASE StoreChunks(r) /\ chunks'[x] # chunks[x]
  <2>1. /\ UNCHANGED row /\ ~At(r, "written") /\ Insertable(x, r)
        /\ chunks' = [chunks EXCEPT ![x] = @ \cup ChunksOf(x, r)]
    BY <1>0, <1>4 DEF StoreChunks, At
  <2>2. chunks[x] = {} /\ chunks'[x] = ChunksOf(x, r) /\ chunks'[x] # {} /\ Exists(x)
    BY <1>0, <1>4, <2>1, InsertableEmpty DEF StorageInv, Insertable
  <2>3. \A d \in Document : Phase(d)' = Phase(d)
    BY <1>c, <2>1 DEF Exists
  <2>4. Content(x) = NoDocument
    BY <2>2 DEF Content
  <2>5. Content(x)' = r
    <3>1. chunks'[x] = ChunksOf(x, r)'
      BY <2>2, ServeDisk DEF ChunksOf
    <3>2. \A q \in Request : (\E c \in chunks'[x] : c.run = q) <=> q = r
      BY <2>2 DEF ChunksOf
    <3>. QED BY <2>2, <3>2 DEF Content
  <2>6. \A d \in Document \ {x} : Content(d)' = Content(d)
    BY <1>0, <1>d, <2>1
  <2>7. KB!Publish(x, r)
    BY <1>0, <2>2, <2>3, <2>4, <2>5, <2>6, PhaseDef DEF KB!Publish
  <2>. QED BY <1>0, <2>7 DEF KB!Next
<1>5. CASE At(r, "written") /\ UNCHANGED <<row, chunks>>
  <2>1. ~Exists(x) /\ Uploading(x)
    BY <1>0, <1>5 DEF StorageInv, FreshUpload, Uploading
  <2>2. Phase(x) = "absent" /\ Phase(x)' = "gone"
    BY <1>0, <1>a, <1>b, <1>5, <2>1 DEF Phase, Uploading, Exists
  <2>3. \A d \in Document \ {x} : Phase(d)' = Phase(d)
    BY <1>c, <1>5 DEF Exists
  <2>4. \A d \in Document : Content(d)' = Content(d)
    BY <1>d, <1>5
  <2>5. KB!Abandon({x})
    BY <1>0, <2>2, <2>3, <2>4 DEF KB!Abandon
  <2>. QED BY <1>0, <2>5 DEF KB!Next
<1>6. CASE ~DeleteRow(r) /\ ~At(r, "written") /\ UNCHANGED chunks
  <2>1. \A d \in Document : Exists(d)' <=> Exists(d)
    BY <1>0, <1>6, ServeRows
  <2>. QED BY <1>c, <1>d, <1>6, <2>1 DEF PhaseMap, ContentMap
<1>7. CASE StoreChunks(r) /\ chunks'[x] = chunks[x]
  BY <1>0, <1>c, <1>d, <1>7 DEF StoreChunks, At, Exists, PhaseMap, ContentMap
<1>. QED
  BY <1>1, <1>2, <1>3, <1>4, <1>5, <1>6, <1>7 DEF Serve, Fail, Schedule, BumpVersion,
    RemoveFile, LoadDocument, MarkProcessing, RefreshProcessing, Extract, MarkIndexing,
    RefreshIndexing, CommitStatus, MarkReady, RefreshReady, ReloadFailed, MarkFailed,
    RemoveFileFails, EmbedFails, DatabaseError, At

LEMMA RefineCrash ==
    ASSUME StorageInv, Crash
    PROVE  KB!Next
<1>. DEFINE D == {d \in Document : ~Exists(d) /\ d \in issued /\ Uploading(d)}
<1>1. UNCHANGED <<row, chunks, issued>> /\ \A d \in Document : ~Uploading(d)'
  BY DEF Crash, Uploading, At, Idle
<1>2. \A d \in D : Phase(d) = "absent" /\ Phase(d)' = "gone"
  BY <1>1, PhaseDef DEF Phase, Uploading, Exists
<1>3. \A d \in Document \ D : Phase(d)' = Phase(d)
  BY <1>1 DEF Phase, Uploading, Exists
<1>4. \A d \in Document : Content(d)' = Content(d)
  BY <1>1 DEF Content
<1>5. KB!Abandon(D)
  BY <1>2, <1>3, <1>4 DEF KB!Abandon
<1>. QED BY <1>5 DEF KB!Next

\* The ingestion pipeline implements the knowledge base, whatever fails.
THEOREM Refinement == Spec => ImplementsKnowledgeBase
<1>1. StorageInv /\ [Next]_vars => [KB!Next]_<<PhaseMap, ContentMap>>
  <2>. SUFFICES ASSUME StorageInv, [Next]_vars
       PROVE KB!Next \/ UNCHANGED <<PhaseMap, ContentMap>>
    OBVIOUS
  <2>1. CASE UNCHANGED vars
    BY <2>1 DEF vars, PhaseMap, ContentMap, Phase, Content, Exists, At
  <2>. QED BY <2>1, RefineAsk, RefineServe, RefineCrash DEF Next
<1>2. [KB!Next]_<<PhaseMap, ContentMap>> => [KB!Next]_KB!vars
  BY DEF PhaseMap, ContentMap, KB!vars
<1>. QED
  BY <1>1, <1>2, RefineInit, StorageInit, StorageStep, PTL
  DEF Spec, ImplementsKnowledgeBase, KB!Spec
=============================================================================
