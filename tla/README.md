# A formal model of the IT knowledge platform

TLA+ specifications of the platform in this repository (a FastAPI backend on
PostgreSQL and a Next.js frontend), the TLC configurations that model-check
them, and proofs checked by TLAPS. Line numbers refer to the sources as they are
in the repository; `PROJECT.json` maps every definition to the lines it stands
for.

    tlc -workers 2 -config IngestionFaults.cfg MCIngestion.tla
    tlapm IngestionProofs.tla

## The system

One server process answers requests on a pool of threads. A handler is a
sequence of SQL statements and commits (READ COMMITTED, no explicit locks), with
calls to the file system and to the Gemini API between them, so any two requests
interleave between any two of these steps. The ORM adds a twist that several
components share: a column is written only if its new value differs from the
value the request *loaded*, whatever the database holds by then.

| component | state | operations | who it meets |
|---|---|---|---|
| document ingestion (`document_service`, `api/knowledge`, document and chunk repositories) | `knowledge_documents`, `document_chunks`, the storage directory, background tasks in memory | upload, reindex, delete, `process_document` | retrieval reads READY documents' chunks; knowledge pages poll the status |
| user accounts (`api/users`, `deps`, `user_repository`, two scripts) | `users` | register, PATCH is_active, seed, promote | every authenticated request reads `is_active` and `role` |
| sign-in sessions (`auth_service`, `api/auth`, `AuthContext`) | `refresh_tokens`, the browser's cookie, each tab's status and user | register, login, refresh, logout, page load | accounts; every page |
| tickets (`api/tickets`, `ticket_repository`, comments) | `tickets`, `ticket_comments` | create, comment, PATCH, assign | accounts |
| assistant chat (`api/ai`, `rag_service`, `llm_service`, conversation and message repositories) | `conversations`, `messages` | chat, list, read, delete | retrieval over ingestion's tables |
| assistant page (`useAssistantChat`) | active conversation, shown messages, last failed message | send, retry, open, new, delete | chat |
| chunking and parsing | none (pure functions) | `chunk_pages`, `extract_text`, `clean_text` | ingestion calls them |
| connection pool (`core/database`) | connections in use | check out, return, time out | every request, every background task |
| knowledge pages (`useKnowledgeDocuments`, the cards, the page of one document, the upload form) | the documents shown, the error, the disabled buttons, the interval | load, poll, reindex, delete, upload | ingestion |
| ticket pages (`AdminTicketControls`, `CommentSection`) | the ticket shown, two waiting flags | change a column, comment | tickets |
| dashboard, conversation oversight | none | COUNT queries one after the other | reads every table |
| limiter, configuration, logging, health, schemas, migrations, seed and evaluation scripts, layout components | none of the program's own | | |

What is hard, component by component:

* **Ingestion.** Uploads answer before the document is processed; a reindex or a
  delete is accepted while a run of the same document is in flight; replacing
  the chunks is two commits; the file and the row are two stores; failure
  handling itself reads and writes the row; a restart loses the task.
  Correct means: a row has its file; the chunks of a document are one run's,
  complete; a deleted document stays deleted; READY means searchable; every
  document settles; the documented status, version and error rules hold.
* **Accounts.** Authorization is read once and used later; a commit writes a
  column relative to what was loaded. Correct means: an administrator remains;
  a deactivation is not undone by somebody who never saw it.
* **Sessions.** A single-use cookie is shared by all tabs; check, revocation and
  issue are separate statements; answers arrive in any order or not at all, while
  the handler goes on, and each rewrites the cookie and the tab's state. Correct means: a spent token is
  never exchanged; success has spent the token; deactivation takes effect at
  once; a session never changes its account; loading ends; log out and reload do
  what the documentation says.
* **Chat.** The question is committed before the answer exists; the conversation
  may be deleted meanwhile; messages are listed by the time their transaction
  *began*; the page's state has moved on when the answer comes. Correct means:
  an answer follows its question, an answer given is kept, no message outlives
  its conversation, and the page, left alone, shows what is stored.
* **Tickets.** Overlapping PATCH and assign requests merge by column; an answer to
  one control replaces the whole ticket on the page. Correct means: no change is
  undone by one that did not name its column, comments keep their order, the
  dashboard's bars and totals agree, the page shows what is stored.
* **Pool.** A request holds its connection while its background task waits for
  another one. Correct means: every request ends, no connection is lost, and a
  document is left in flight only if a wait for a connection timed out.
* **Chunking.** The boundary cases of budget and overlap, and of batches. Correct
  means: the chunks without their overlaps are the document, readable but for a
  character across a cut, and every chunk has its own embedding.
* **Knowledge pages.** A page polls as long as it *shows* a document in flight, and
  loads overtake each other. Correct means: the waiting ends, and the page comes
  to show its documents as they are.

The hazards are listed one by one, with their lines and the properties that
cover them, in `PROJECT.json`.

## Modules

| module | what it is |
|---|---|
| `Ingestion` | the pipeline, one action per committed step |
| `KnowledgeBase` | the abstract promise to a search: absent, live, gone; content whole or nothing |
| `IngestionProperties` | its properties and the mapping to `KnowledgeBase` |
| `IngestionProofs` | theorems about them, the refinement included |
| `Accounts`, `AccountsProofs` | accounts and PATCH requests with their properties, and theorems |
| `Sessions` | extends `Accounts`: tokens, cookie, tabs and calls, and the accounts being administered meanwhile |
| `SessionProperties`, `SessionProofs` | its properties, and theorems about them |
| `Chat` | the assistant's endpoints, one action per statement or commit |
| `Transcripts` | the abstract promise: conversations, questions, answers, without requests |
| `ChatProperties` | properties of the endpoints and the mapping to `Transcripts` |
| `ChatPage` | extends `Chat`: the page of one user composed with the endpoints and other clients |
| `ChatProofs` | theorems about endpoints, composition and what the page shows |
| `Tickets` | the ticket endpoints, one action per statement or commit |
| `TicketBoard` | the abstract promise: a change takes effect at once, on the columns it names |
| `Dashboard` | extends `Tickets` by the dashboard's counts, query by query |
| `TicketProperties` | properties of both and the mapping to `TicketBoard` |
| `TicketPage` | an administrator's ticket page composed with `Dashboard` and other clients |
| `TicketProofs` | theorems about endpoints, dashboard, composition and what the page shows |
| `Timeline` | ORDER BY created_at, as `Chat` and `Tickets` list messages and comments |
| `TimelineProofs` | lemmas the proofs share: induction over numbers, listings by time, sums over a set |
| `ConnectionPool`, `PoolProofs` | sessions of requests and of background tasks drawing on one pool, and theorems |
| `Chunking`, `ChunkingProofs` | packing paragraphs into chunks and embedding them in batches, and theorems |
| `KnowledgePages` | the pages that load and poll documents, with the pipeline reduced to its runs |
| `MCIngestion`, `MCAccounts`, `MCSessions`, `MCChatPage`, `MCTicketPage`, `MCConnectionPool`, `MCChunking`, `MCKnowledgePages` | the instances for TLC: symmetry sets, the kinds of requests, the set of documents |

A composition always has the same form: the component below is extended, its
actions are used unchanged with the page's variables left alone (`ServerStep`),
the page's own actions submit requests to it or consume its answers, and
`Elsewhere` lets any other client submit what it may.

Definitions marked "Mutant" are what plausible mistakes would turn the
definition after them into. Each property is violated when TLC uses the mutated
definition; nothing else refers to them.

### Ingestion

A *request* is a handler together with the background task Starlette runs for it
on the same thread; `req[r].at` is its program point and `req[r].seen` the ORM
row it holds. `row`, `chunks` and `disk` are the two tables and the storage
directory; `text[d]` is the number of chunks the uploaded bytes yield, chosen
when they are uploaded (0 stands for a file without text as well as for one that
cannot be parsed: both end in the same failure path).

Every commit is a step, and so is every `refresh` after one, because another
request can change or delete the row in between. `Written`/`Dirty`/`Column` are
the ORM's UPDATE: only columns that differ from `seen`. `Collides` and
`Insertable` are the unique constraint on (document, index) and the foreign key.
The program points are divided as the code's `try` blocks divide them: what is
raised at a point of `Caught` goes to the failure path, at `Uncaught` the run
ends. `Faults` chooses what the environment may do: a crash (all requests are
lost, `disk` and tables stay), a database error, a failing embedding call, a
failing unlink.

### Accounts

`PATCH /api/users/{id}` is three steps: `Authorize` (require_admin and the
refusal to deactivate oneself), `LoadTarget`, `CommitSwitch`. The caller's own
row is already in the session when it is also the target, so `LoadTarget` does
not read it again. `SeedAdmin` and `PromoteToAdmin` are the operator's scripts.
Accounts are never deleted by the program.

### Sessions

A *call* is one request of the frontend, from `fetch` to the state update, with
the server's handler in between. `call[c].at` is the point it has reached:
`sent`, then the server's points (`found`, `owned`, `issuing` ... ), then `issued`
(the response with a new cookie is under way), `profile`/`known`/`unknown`
(the GET /api/users/me that follows) or `refused`/`crashed`/`loggedout`.
`call[c].tab` is who will receive it. A reload and a connection that fails
(`ConnectionFails`) set it to `NoTab`, and the server carries on, so that the
page's next call overlaps the handler of the last; what stops a handler is a
failure of its own (`HandlerFails`). A call takes the cookie the browser holds when it is sent,
and the cookie is replaced when its response arrives, so a call holds the token
it presented for its whole life.

The two sides of one step of the code that matter for the properties are kept:
the refresh handler asks for the deletion of the cookie and then raises, so its
error response deletes nothing (`ReceiveError`); a failed refresh sets only the
status, a failed log out clears everything (`AfterFailure`).

`root` (of a token), `spent`, `barred` and `late` (of a call), `ended` and `forked`
are history: no guard reads them. `forked` holds the sign-ins one token of which a
refresh found good while another that had found it good had not revoked it yet
(`Exchanging`); `late` marks a log out that came to a token already revoked or
being exchanged.

### Chat and ChatPage

A request is made once, so `<<r, "USER">>` and `<<r, "ASSISTANT">>` name its two
messages. `req[r].at` is the statement the handler has reached; `found` to `stored` are
the steps of `api/ai.chat` between its commits. `created_at` is `now()` of
PostgreSQL, the time the *transaction* began, so `Begin` draws it where the first
statement after a commit runs: for the question at the authentication or after the
new conversation's commit, for the answer at the refresh after the question's
commit, long before the model is asked. `Listing` is the ORDER BY (`InOrder` of
`Timeline`). What is retrieved and what the model says are two choices: evidence or none, an answer
or a failure (`model`). Every INSERT meets the foreign key (`Insertable`) and
every `refresh` a row that may be gone.

`ChatPage` is `useAssistantChat`: `active`, `shown`, `sending`, `loading`,
`error`, `failed` are its state, `capturedActive[r]` the value a callback closed
over when it made request r. The guards are those of what is rendered: the input
is disabled while sending, Retry is under the messages. `Elsewhere` is another
user, another tab or the API. `disturbed` is history: it becomes true when the
user acts before an answer is there, another client of the same user acts, or an
answer or a load is lost; `ShownIsStored` says what the page shows otherwise: every
stored message of the active conversation, once and in the order of the listing,
and besides them only questions that got no answer.

### Tickets, Dashboard and TicketPage

`treq[r].seen` is the row the handler loaded and `Dirty` the columns its unit of
work writes: those it was asked to set that differ from `seen`. The change, the
refresh after it and the comments of the answer are three steps. A comment's
`stamp` is drawn when the ticket is looked up, before the comment is inserted, and
comments are listed by it (`InOrder`).
`Dashboard` counts one query per step, in the order of `get_dashboard_metrics`;
by status, in total and by category are enough to show how counts taken at
different moments fit together.

`TicketPage` is the administrator's page: the controls (`busy`) and the comment
form (`submitting`) wait separately, every answer to a control replaces the
ticket *with its comments*, an answer to a comment appends one. `strayed` is
history: the part of the page, row or comments, that it cannot be expected to
know, because another client changed it, an answer was lost, or a comment was
posted while a control was waiting.

### ConnectionPool

`Script` gives each kind of session its sequence of statements, commits and
outside calls, a question in an existing conversation and in a new one
separately, with the reads that follow a commit because it expired what was
loaded (`ChatScript`, `NewChatScript`); `held` is the set of sessions with a connection. A statement takes
one if the session has none, a commit gives it back. FastAPI leaves `get_db` only
after the response *and its background tasks*: `Close` of an upload waits for its
task, and the query after its commit has left it with a connection. `Refuse` is
QueuePool's timeout; what it raises goes through the same handlers as any failure:
`process_document` records FAILED (`recover`), needing a connection again.

### Chunking

One step per paragraph and per batch. A paragraph is its number of tokens, a part
of one a range; so "which tokens are in which chunk" can be compared with the
document without any text. `Cut` is what the chunks would be if the loop ended
now: those made and the one being built. `CarryOverlap` keeps the longest end of
the window that fits into the overlap (`Fits`: where such an end may begin);
`Repeats` and `Fresh` tell, of the parts of a chunk, those the chunk before has from
those that go on.

`_hard_split` decodes slices of tokens, and a character can be several tokens. One
that lies across a cut is decoded to replacement characters on both sides. Any set
of such characters may be there (`Straddling`, at most `CharTokens` tokens long;
four with cl100k_base, whose tokens are whole bytes of UTF-8), and a piece says
which of its tokens are unreadable for it (`torn`). The count stored with a piece is
taken of its decoded text and is not modelled; that of a packed chunk is.

### KnowledgePages

`status` and `runs` are all a load can see of `Ingestion`: a document is in
flight or settled, and several runs of it may be under way. A call is sent,
served and received in three steps, so loads of the interval overtake each other.
`place` is the page; a page that is left ignores the answers to its loads
(`Mount`), but handlers of its buttons go on, and navigate when they are answered
even if the page was left. `late` holds the answers overtaken by one the page has
used. A change is several steps, as in `Ingestion`: the row is
loaded, the commit made, the row *read again*, and answered as it is then, which
may be as another run has left it; only then does the run of its own begin. A
handler goes on when its connection fails. `misled` is history: the page has
stopped looking (or is about to, because of an answer under way), and something
changes; or it has used an overtaken answer; or a change it made was committed
and its answer is lost or an error.

## Runs

Distinct states are of a complete search, with symmetry where the cfg declares
it; no run with a liveness property uses symmetry.

| run | instance | states | shows |
|---|---|---|---|
| IngestionConcurrent | 1 document, 3 requests, embedding may fail, fair | 477,243 | `ReadyHasChunks`, `NoAbandonedDocument`, `NoOrphanFile`, `Settles`, `DeleteRemovesFile` |
| IngestionFaults | 2 documents, 2 requests; crash, database, embedding and unlink faults | 1,371,689 | `TypeOK`, `RowHasFile`, `ChunksWhole`, `FollowsLifecycle`, `ImplementsKnowledgeBase` |
| SessionsConcurrent | 2 accounts, 2 PATCH, 2 tokens, 1 tab, 2 calls | 1,505,255 | `TypeOK`, `DeactivatedGetsNothing`, `LockoutNeedsOverlap`, `DeactivationStands` |
| SessionsOverlap | 2 accounts, 3 tokens, 1 tab, 2 calls; tokens expire, handlers fail, answers are lost | 4,337,492 | `ChainKeepsAccount`, `SpentTokenIsRefused`, `OneLiveTokenPerSignIn`, `LogoutEndsSession` |
| SessionsSerial | 2 accounts, 3 tokens, 1 tab, 1 call at a time; tokens expire, handlers fail, answers are lost; fair | 870,915 | `ReloadRestoresSession`, `LoadingEnds` |
| ChatPage | 2 users, 2 conversations, 3 requests; model, database, lost answers | 1,915,594 | `AnswerFollowsQuestion`, `AnsweredIsKept`, `OneQuestionAtATime`, `ShownIsStored`, `ImplementsTranscripts` |
| Tickets | 2 users, one an administrator, 1 ticket, 3 requests; database, lost answers | 1,746,391 | `TypeOK`, `CommentsInOrder`, `BarsAgreeWithTotal`, `ShownRowIsStored`, `ShownCommentsAreStored`, `ImplementsBoard` |
| ConnectionPool | 2 uploads or reindexes, a question, a listing, 2 connections; fair | 133,163 | `ConnectionsComeBack`, `UnsettledOnlyIfRefused`, `EveryRequestEnds` |
| Chunking | all documents of up to 5 paragraphs of 1, 2, 4 or 9 tokens, any characters of 2 tokens across the cuts; chunks of 4, overlap 3, batches of 2 | 294,705 | `Stitched`, `OverlapIsBounded`, `WithinBudget`, `EmbeddingsMatch` |
| KnowledgePages | 1 document, 2 calls, 2 overlapping runs, lost answers, failing handlers, fair | 160,642 | `WaitingEnds`, `CatchesUp` |

Two runs are counterexamples, recorded as findings in `PROJECT.json` with the
sentence each contradicts:

| run | violated | because |
|---|---|---|
| AccountsLockout | `SomeAdminIsActive` | two administrators deactivate each other, both checked before either commits |
| ChunkingSize | `RespectsSize` | the size is compared before the overlap is carried into the new chunk, and not again |

Deadlock is checked where the system never stops: the accounts, sessions and
knowledge page runs. Elsewhere a complete run really ends: every document id drawn
and deleted, every request made and answered, a document indexed.

### What the code does beside the properties

Each property is as strong as the code allows. Where a premise was needed, these
are the behaviours it excludes; anyone can see them by dropping the premise.

* *Ingestion.* After a reindex has overlapped a run, the older run writes its
  statuses over the reset one, so `FollowsLifecycle` speaks of documents not yet
  reindexed (README.md:302-303 draws the lifecycle). Resetting to UPLOADING is
  no change for a request that loaded UPLOADING, and writes nothing. Two
  overlapping reindexes store the same version. READY may turn to FAILED if the
  read-back after the last commit fails. A crash loses the background task and
  nothing resumes the document, hence `Settles` without crashes only
  (docs/architecture.md:109-111).
* *Accounts.* An administrator whose request was let in and who is deactivated
  before it commits still deactivates another: two can end each other, the run
  AccountsLockout. `LockoutNeedsOverlap` says that there is no other way.
* *Sessions.* Two rotations of one cookie that overlap both issue a successor
  (README.md:242-243), from then on the sign-in has two chains of good tokens
  (`forked`), and a log out ends only the one it presents. It takes no second tab:
  a double reload, or a refresh whose connection failed and whose handler goes on,
  overlaps the next refresh. A log out that meets a rotation past its check revokes
  a token the rotation revokes too, and the successor is issued after it (`late`);
  one whose cookie was revoked before it came is late as well, for the
  successor's cookie never reached the browser. `OneLiveTokenPerSignIn` and
  `LogoutEndsSession` exclude these and nothing else, with any number of tabs and
  calls. Of two overlapping page loads one loses and shows the login page while
  the browser holds the winner's good token: hence one call at a time in
  SessionsSerial. `ReloadRestoresSession` also holds only while the browser's cookie and
  the refused one are of one sign-in. A page's first refresh that fails after the
  form's sign-in has succeeded shows the login page over it (AuthContext.tsx:50).
  The second of two overlapping registrations of an address gets a server error,
  not the 409 of `test_register_duplicate_email`.
* *Chat.* "New" while a question is under way is undone by the answer, which makes
  its conversation active again (README.md:385). After a failure in one
  conversation, Retry sends its question to the one opened since. An answer can
  be stored and still be reported as an error (the UPDATE of `touch` fails, the
  response is lost); Retry then asks again. Messages of two conversations opened
  one after the other may arrive in the other order. A deletion compares the deleted
  conversation with the one active when it was asked for, so a conversation opened
  meanwhile may be cleared, or the deleted one stay open
  (useAssistantChat.ts:121). `AnsweredIsKept` speaks of
  stored messages, not of citations: the documents cited may be gone.
* *Tickets.* A column that has the wanted value when the ticket is loaded is not
  written, even if another request has changed it before the commit. `TicketBoard`
  therefore lets `Apply` take effect on fewer columns than named. The answer to a
  change replaces the comments by those it read: one posted meanwhile may vanish
  from the page or be shown twice. The dashboard's counts are of different moments:
  users active may exceed users in total, documents by status their total when
  documents are deleted meanwhile, and the first day of `ai_questions_by_day` is
  cut off at the time of day (dashboard_service.py:24).
* *Pool.* Uploads that hold all connections while their tasks wait are freed only
  by the timeout, 30 seconds by default. A task refused in its first statement or
  in its failure handler leaves the document in flight for good. A refresh refused
  after its commit reports an error for a row that is stored.
* *Chunking.* A chunk may exceed its size by up to the overlap; a short
  paragraph's chunk may be repeated whole at the head of the next. A character of
  several tokens that lies across a cut of an oversized paragraph is replaced in
  both pieces and found in neither (chunking_service.py:41): `Stitched` says that
  nothing farther from a cut is touched. A piece is at most a chunk's size of the
  paragraph's tokens; its text, encoded again, may count otherwise.
* *Knowledge pages.* "Status changes show up live" (useKnowledgeDocuments.ts:14-16)
  needs the page to be polling. It misses another client's reindex while it shows
  only settled documents; what follows an overtaken load or reindex answer that
  shows READY; a second run's end after the first was seen READY, also where the
  READY came as the answer to a reindex, whose refresh reads the row after another
  run has settled it (document_repository.py:77-79, [id]/page.tsx:74); and a change
  of its own whose answer is lost or an error after the commit, or whose page was
  left. `misled` marks these and only these.

### Bounds

* *Requests and calls.* Two concurrent actors show every pairwise race; a third
  lets a reindex and a delete overlap one run, a comment and a change overlap
  another client, a deletion meet two questions.
* *Documents, tickets.* Requests on different ones share nothing but request
  slots and ids, so one suffices for the races; two documents where faults leave
  something behind, two conversations because the page moves between them.
* *Status and Priority* in Tickets have two and one value: one change to differ
  and a column that has nothing to change to. All three columns go the same way.
* *Chunk counts {0, 2}.* No text, and more than one chunk, so that a partial
  replacement would be visible; {0, 1} where chunks only have to be there or not.
* *MaxVersion, MaxRuns.* Two reindexes are enough to overlap.
* *Tokens.* Three are a sign-in and two successors, or two sign-ins and a
  successor; two, a sign-in and a successor, where accounts are administered. `TokensLeft` makes a call only if a token is left for it, so no call
  is ever stuck for want of one.
* *Error messages.* Two where `error` matters, because a second failure with the
  same text would be no change to the ORM.
* *Tabs.* One suffices for what the sessions' tables promise: a call whose page was
  reloaded stands for one of another tab, and its answer may reach the cookie or
  not; reload, form and log out of one tab overlap as those of two do.
* *CharTokens* is two: one token of the character on each side of the cut. Longer
  ones (up to four tokens) reach farther, which `Stitched` counts, and the proof
  covers.
* *Rooms.* In `KnowledgePages` a reindex is asked for only if its run would stay
  within MaxRuns (`Room`).
* *Paragraphs* smaller than the overlap, of the chunk size, and cut in three; five
  of them fill two chunks with an overlap between, and three batches.
* *Connections.* As many as uploads: the smallest pool they can exhaust.

Not enumerated because they change no state: rate limiting (429), validation
(422), a malformed token, listing endpoints. Left out: React's double effects
in development, several browsers (their tokens share no cookie; the server side
of two browsers is that of two calls), and the fifteen minutes of an access
token, after which the frontend, which refreshes only on page load, shows errors
until it is reloaded.

### Fairness

* `IngestionConcurrent`: weak fairness of each request's next step. The thread
  that serves it keeps running; the embedding call returns or raises.
* `SessionsSerial`: weak fairness of each call's next step; nobody is assumed
  ever to load a page, submit a form or log out, and calls may fail at any step.
  `LoadingEnds` speaks of a tab that is not reloaded for ever, for a user who keeps
  reloading keeps it loading.
* `ConnectionPool`: weak fairness of each session's next step, and of starting
  the task. A session that finds the pool full has `Refuse` enabled, which is the
  pool's timeout; it need not ever get a connection. That requests keep arriving
  is not assumed.
* `KnowledgePages`: weak fairness of receiving a call that is answered, and of the
  steps of a handler that has begun to serve a change (`ServeChange`). Strong
  fairness of the interval, of serving a load and of using its answer: the browser
  makes the call again and again, `Tick` is disabled while all calls are taken,
  and any number of loads may fail or be lost, but not all of them for ever. No
  fairness of the pipeline or the user: the properties' premise is that the
  documents stay settled and the page stays where it is.

The other runs check safety and refinement only.

## Proofs

TLC checks the instances above; the following hold for every value of the
constants allowed by the named assumptions (`IngestionAssumption`,
`ChatAssumption`, ...), which say that the sets' special values are no members,
bounds are positive and the like. `tlapm` checks every proof to its leaves.

**Ingestion** (`IngestionProofs`, 1446 obligations). Three inductive invariants:

* `StorageInv` strengthens `RowHasFile`, `ChunksWhole` and `DeletedLeavesNoChunks`.
  What has to be added: each request's document was issued (`KnownIds`), an id
  between the file and the row belongs to one upload and has nothing else yet
  (`FreshUpload`), and a request that has deleted its row finds it gone
  (`DeletedGone`). Without `FreshUpload`, for instance, an upload could insert over
  chunks another run had stored. It holds with any faults.
* `SearchInv` adds for `ReadyIsSearchable` that a run beyond extraction has text and
  that an empty READY document is being refilled. This theorem and
  `NothingAbandoned` assume `Reliable`: neither the process nor the database fails.
  `NothingOrphaned` assumes besides that no unlink fails; each of the three faults
  does leave a file behind.
* `LifeInv` adds for `LifecycleFollowed` what makes the first run alone: versions
  start at 1 and a reindex counts one further (`Versioned`), so a document still at
  version 1 has at most one run, and its status is the one that run's program point
  has written (`FirstRun`). That holds with any faults, because a crash ends the
  run for good and a failure handler is part of it.

`Refinement` is `Spec => ImplementsKnowledgeBase`, with any faults: each action is
an abstract step or a stutter under the mapping of `IngestionProperties`.
`StorageInv` supplies what the abstract guards need: content that appears is whole
and appears where there was none.

**Accounts** (`AccountsProofs`, 163). `LockoutsNeedOverlap`, for any number of
accounts and of overlapping requests, with no assumption on them: whoever takes the
last active administrator away was an administrator when it was let in
(`CallersAreAdmins`, which nothing takes back, for roles are only given) and does
not target itself, so that, were it still active, an active administrator would be
left. `DeactivationsStand` has the same premises.

**Sessions** (`SessionProofs`, 1558). First the properties that hold whatever
interleaves. The invariant has one clause per thing known of a call in flight
(`CallInv`): what it carries was issued; which kind of call can be at a point and
for which account; a refresh with a spent token is before its check or refused;
past the revocation the token is revoked; a barred call's account is still
deactivated. The argument is the lemma `Frame`: tokens are only issued, revoked
and expired, never the other way (`TokensGrow`), so what is known of one call
survives the steps of all others; each action is then examined only for the call
that takes it, and administration, which can lift a bar, on its own.

`OneTokenPerSignIn` and `LogoutIsFinal` hold for any number of tabs, tokens, accounts
and overlapping calls, with losses and expiry, and assume nothing about who calls
when. `ChainsInv` says of a sign-in that has not forked (`Single`): at most one of
its tokens stands, that is, is not revoked; at most one refresh trades it (`Trades`:
it has found its cookie good and issued nothing yet); and meanwhile nothing else
stands. Of a sign-in that has ended, and of the one a log out in time is about to
end, it says `Over`: nothing stands and nobody trades. `forked` and `late` are set
from the state alone (`Exchanging`), and the proof shows that they are the only ways
out. Steps that only revoke, expire or stop calls keep the invariant by `Shrinks`,
those that do not touch tokens by `Quiet`.

**Chat and ChatPage** (`ChatProofs`, 2509). `AnswersFollow`, `AnswersKept` and
`ChatImplementsTranscripts`, for any users, conversations, requests and faults.
The invariant is `Types`, `Clock` (no stamp is ahead of the clock) and, for each
request, `Known(r)`: past the look-up the conversation is the caller's, which
kinds of request reach which points, the answer's stamp is later than the
question's from the moment it is drawn, and a stored message's conversation is
alive. A step of one request leaves `Known` of the others true, except a deletion,
which takes their messages with it.

`PageUsesEndpoints`: the composition implements `ChatSpec`, because each page
action submits what some client may submit, or leaves the endpoints alone; so the
theorems about the endpoints hold of it. `PageAsksOneQuestion` needs `PageInv`: a
retry has something to retry only while nothing is being sent, and an active
conversation is the user's own.

`PageShowsStored` is `ShownIsStored`, the longest argument of the project. To
`PageInv` it adds that stored messages have stamps that differ (`Times`), so a
listing exists and is the only one; the endpoints' and the page's types
(`PageTypes`: a reply lists messages); and, while the page is undisturbed,
`Undisturbed`: all the user's requests but at most one are over, and the page agrees
with the tables (`Settled`), or with the tables but for the one call under way
(`UnderWay`): the question shown and not yet stored, the answer stored and not yet
shown (`Asking`), the reply still equal to the listing (`Loading`), the
conversation being removed (`Deleting`). It is inductive because nobody else's step can touch a
conversation of the user while `disturbed` is false, and the stamps a step of the
one call draws are later than all listed (`ListedLast`).

**Tickets, Dashboard and TicketPage** (`TicketProofs`, 2335).
`CommentsStayInOrder`: the comments answered before a request was made bear stamps
no later than the clock it draws from. `BoardImplemented`: every commit of a
change is `Apply` of an admitted wish on the columns `Dirty` names, at most once.
`PageUsesEndpoints` and `PageKeepsBoard` carry both over to the page.

`PageShowsRow` and `PageShowsComments` are two invariants of the same shape
(`RowInv`, `CommentsInv`), each as long as its part has not `strayed`. They say more
than the properties because they must also speak of the time when calls are under
way: the row is stored as shown unless a change under way is applied; an answer
that is not a comment's holds the stored row from its refresh on; the shown
comments are all but those under way; and a comment under way is later than all
others, so that appending it is listing it. `CallsInv` (no two calls of a kind; the
flags of the page say which) keeps the two parts apart, and `AnswersInv` (every
comment has a time of its own) makes listings exist. `PageTypes` follows from them.

`DashboardAgrees` is an invariant of the endpoints and the dashboard, for finite
sets of tickets and statuses: counts already taken are bounded by the tickets there
are now (`Counted`), for tickets are opened and never removed, and by status they
add up to the tickets of the time (`StatusesAddUp`). The order of the three queries
decides which of them may be ahead.

**Chunking** (`ChunkingProofs`, 1774). All four safety properties, for every
document, size, overlap, batch size and answer of the service. `PackingInv`
characterises what the loop has made of the paragraphs read (`WellCut`): every
chunk is a carried-over end of the one before followed by parts that go on from it
(`Carries`, `GoesOn`), counted right (`Counted`), every part is within its paragraph
and a chunk's size, its unreadable tokens next to a cut (`Lies`), and every token
read is in a part that goes on (`Covered`). How long a character may be is a
constant, and which characters lie across the cuts is any set of them. It is stated of `Cut`, so a step either extends the last chunk
or appends chunks to it. The lemmas compute `SizeOf`, a recursive function, by
induction over the length. `EmbeddingInv` says that the vectors received are those
of the first chunks, as far as the batches have come.

**ConnectionPool** (`PoolProofs`, 561). `NoConnectionIsLost` and
`ExhaustionAlone`, for any pool and any number of requests. The invariant adds to
the types which script each session can be in and how far a task can be
before its request has answered (`SessionsOK`), and, for each document, that it is
settled until the request's commit, after the task's last commit, and after its
end unless the task was refused a connection (`DocumentOK`).

**Timeline** (`TimelineProofs`, 318). What the proofs above share. A finite set of
things with times that differ can be listed by them (`Listed`), in one way only
(`InOrderIs`); a later thing comes last (`ListedLast`); times that agree give the
same listing (`ListedSame`); a sum over a set is that of its parts. The library's
induction theorems take an operator as a parameter; the induction used here is the
lemma `Induction`, about a set of numbers, from the well-foundedness of `<`.

The invariants about the pages, the chains of tokens and the life cycle were
checked by TLC on the instances above before they were proved.

Some theorems are about formulas no run checks by themselves:
`AccountsTypeCorrect`, `PoolTypes` and `PageTypesHold` (types the other proofs rest
on), `SuccessSpends` (whoever is told that a refresh or log out succeeded has spent
the token), and `DeletedStaysGone` (a deleted document has no chunks). The two
`PageUsesEndpoints` are refinements between modules of this project.

Only model-checked:

* liveness (`Settles`, `DeleteRemovesFile`, `LoadingEnds`, `EveryRequestEnds`,
  `WaitingEnds`, `CatchesUp`), which with its fairness is outside this prover;
  `KnowledgePages`, whose properties are of this kind, has no theorem;
* `ReloadRestoresSession`, which is about one tab with one call at a time and is
  false beyond that; a theorem would have to assume what the code does not ensure.

Every other property of a passing run is a theorem, without assumptions about how
requests interleave; those of `Ingestion` that need it assume that certain faults do
not occur, as the runs do that check them.

## Not modelled

* *Retrieval's ranking* (`rag_service`'s distances, thresholds, confidence and
  citations): arithmetic on one query's result. `Chat` keeps that it finds
  something or not, `Ingestion` what there is to be found.
* *Extraction and cleaning of text*: pure functions of a file. `Ingestion` keeps
  that they fail or yield nothing, `Chunking` starts from their paragraphs.
* *Employees' pages* for tickets and documents: the administrator's with fewer
  controls. *Filters and lists*: single SELECTs that are rendered.
* *Counts of users, documents and questions* on the dashboard, and the oversight
  list: of the same form as the ticket counts, or a single read.
* *Pre-ping, recycling and the thread pool's own limit*: they replace broken
  connections, or delay a request before its first statement.
* *Rate limiter, configuration, logging, health check, schemas*: no state another
  component relies on. (`/ready` answers 503 also when only the pool is
  exhausted.)
* *Migrations, seed data, evaluation scripts*: one-off, sequential scripts; seeding
  and promoting an administrator are in `Accounts`.
* *Layout components*: rendering.

## Plan

Done: the pipeline, accounts, sessions, chat with its page, tickets with their
page and the dashboard's counts, the pool, chunking, knowledge pages; and the
proofs of the safety properties the runs check. Left, in this order:

1. What an answer may cite, composing `Chat` with the states of `Ingestion`: the
   citations of an answer name chunks that a reindex or a deletion may have taken
   since the search, or a new one replaced.
2. For `KnowledgePages` the safety its liveness rests on, as theorems: what a page
   that is not `misled` can show while its documents stay settled.
3. A second document in `KnowledgePages`, with the list's and a document's page
   moving between them.
