--------------------------- MODULE ConnectionPool ---------------------------
(***************************************************************************)
(* The pool of database connections (core/database) and the sessions that  *)
(* draw on it.  A session takes a connection with its first statement,     *)
(* returns it when it commits or closes, and takes another with the next   *)
(* statement.  A request's session is closed only after its background     *)
(* task, which has a session of its own: an upload keeps one connection    *)
(* while its task waits for a second.  What ends such a wait is the pool's *)
(* timeout.                                                                *)
(***************************************************************************)
EXTENDS Naturals, Sequences, FiniteSets

CONSTANTS
    Request,   \* requests
    KindOf,    \* "document" (an upload or a reindex), "chat" or "read"
    Limit      \* db_pool_size + db_max_overflow

ASSUME PoolAssumption ==
    /\ KindOf \in [Request -> {"document", "chat", "read"}]
    /\ Limit \in Nat \ {0}

Settled == {"READY", "FAILED"}
Status == {"UPLOADING", "PROCESSING", "INDEXING"} \cup Settled

Session == Request \X {"request", "task"}
Own(r) == <<r, "request">>
Task(r) == <<r, "task">>

\* What each kind of session does: "query" is a statement, "commit" and the
\* statuses are commits, "call" is work outside the database (the parser, the
\* embeddings, the language model).  Every commit expires what the session has
\* read, so that the refresh after it, or the next use of a row, is a statement.
DocumentScript == <<"query", "UPLOADING", "query">>
TaskScript ==
    <<"query", "PROCESSING", "query", "call", "INDEXING", "query", "call",
      "commit", "commit", "READY", "query">>
RecoverScript == <<"query", "FAILED", "query">>

\* The question is stored and read back, the answer found, stored and read
\* back, and the conversation touched and, for the response, read again.
ChatScript ==
    <<"query", "commit", "query", "call", "query", "call", "commit", "query", "commit", "query">>
\* A question without a conversation stores a new one first.
NewChatScript == <<"query", "commit">> \o ChatScript

Script ==
    [document |-> DocumentScript, chat |-> ChatScript, newchat |-> NewChatScript,
     read |-> <<"query">>, task |-> TaskScript, recover |-> RecoverScript]

\* The scripts that a request of each kind may follow.
ScriptsOf(kind) == IF kind = "chat" THEN {"chat", "newchat"} ELSE {kind}

VARIABLES
    script,    \* what a session is doing; "none" before, "ended" after
    step,      \* its next step
    held,      \* the sessions that have a connection
    doc,       \* status of a request's document; "none" if there is none
    refused    \* history: the sessions that waited for a connection in vain

vars == <<script, step, held, doc, refused>>

Init ==
    /\ script = [s \in Session |-> "none"]
    /\ step = [s \in Session |-> 1]
    /\ held = {}
    /\ doc \in [Request -> {"none", "READY"}]
    /\ \A r \in Request : KindOf[r] # "document" => doc[r] = "none"
    /\ refused = {}

Active(s) == script[s] \notin {"none", "ended"}
Finished(s) == Active(s) /\ step[s] > Len(Script[script[s]])
Now(s) == Script[script[s]][step[s]]
Doing(s, what) == Active(s) /\ ~Finished(s) /\ Now(s) \in what

Full == Cardinality(held) >= Limit

Begin(s, name) ==
    /\ script' = [script EXCEPT ![s] = name]
    /\ step' = [step EXCEPT ![s] = 1]

Advance(s) == step' = [step EXCEPT ![s] = @ + 1] /\ UNCHANGED <<script, refused>>

\* A statement; the first of a transaction takes a connection from the pool.
Query(s) ==
    /\ Doing(s, {"query"})
    /\ s \in held \/ ~Full
    /\ held' = held \cup {s}
    /\ Advance(s)
    /\ UNCHANGED doc

\* A commit; its connection goes back to the pool.
Commit(s) ==
    /\ Doing(s, {"commit"} \cup Status)
    /\ s \in held \/ ~Full
    /\ held' = held \ {s}
    /\ doc' = IF Now(s) = "commit" THEN doc ELSE [doc EXCEPT ![s[1]] = Now(s)]
    /\ Advance(s)

CallReturns(s) ==
    /\ Doing(s, {"call"})
    /\ Advance(s)
    /\ UNCHANGED <<held, doc>>

\* Mutant: process_document does not catch what its pipeline raises.
RaiseUncaught(s) ==
    /\ held' = held \ {s}
    /\ Begin(s, "ended")
    /\ UNCHANGED doc

\* An exception ends a session, which is closed.  process_document, past its
\* first statement, rolls back and stores FAILED instead.
Raise(s) ==
    /\ held' = held \ {s}
    /\ Begin(s, IF script[s] = "task" /\ step[s] > 1 THEN "recover" ELSE "ended")
    /\ UNCHANGED doc

CallFails(s) == Doing(s, {"call"}) /\ Raise(s) /\ UNCHANGED refused

\* Mutant: a wait has no end.
RefuseNever(s) == FALSE /\ s \in held /\ UNCHANGED vars

\* No connection came back within the pool's timeout.
Refuse(s) ==
    /\ Doing(s, {"query", "commit"} \cup Status)
    /\ s \notin held /\ Full
    /\ refused' = refused \cup {s}
    /\ Raise(s)

\* The answer of an upload or reindex is sent: its task starts.
StartTask(r) ==
    /\ script[Own(r)] = "document" /\ Finished(Own(r))
    /\ script[Task(r)] = "none"
    /\ Begin(Task(r), "task")
    /\ UNCHANGED <<held, doc, refused>>

\* Mutant: process_document does not close its session.
CloseRequestOnly(s) ==
    /\ Finished(s)
    /\ script[s] = "document" => script[Task(s[1])] = "ended"
    /\ Begin(s, "ended")
    /\ held' = IF s = Own(s[1]) THEN held \ {s} ELSE held
    /\ UNCHANGED <<doc, refused>>

\* get_db and process_document close their sessions in the end, a request's
\* after its background task.
Close(s) ==
    /\ Finished(s)
    /\ script[s] = "document" => script[Task(s[1])] = "ended"
    /\ Begin(s, "ended")
    /\ held' = held \ {s}
    /\ UNCHANGED <<doc, refused>>

Arrive(r) ==
    /\ script[Own(r)] = "none"
    /\ \E name \in ScriptsOf(KindOf[r]) : Begin(Own(r), name)
    /\ UNCHANGED <<held, doc, refused>>

SessionNext(s) ==
    \/ Query(s) \/ Commit(s) \/ CallReturns(s) \/ CallFails(s)
    \/ Refuse(s) \/ Close(s)

Next ==
    \/ \E r \in Request : Arrive(r) \/ StartTask(r)
    \/ \E s \in Session : SessionNext(s)

\* A session that waits is served or refused in time, calls return or fail,
\* and sessions are closed.
Fairness ==
    /\ \A s \in Session : WF_vars(SessionNext(s))
    /\ \A r \in Request : WF_vars(StartTask(r))

Spec == Init /\ [][Next]_vars /\ Fairness

-----------------------------------------------------------------------------
\* Type correctness.
TypeOK ==
    /\ script \in [Session -> DOMAIN Script \cup {"none", "ended"}]
    /\ step \in [Session -> Nat \ {0}]
    /\ held \subseteq Session
    /\ doc \in [Request -> Status \cup {"none"}]
    /\ refused \subseteq Session

\* Every connection in use belongs to a session that is still working: none
\* is lost, whichever of its steps failed.
ConnectionsComeBack == \A s \in held : Active(s)

\* When a document's request is over, the document is READY or FAILED, unless
\* the request or its task was refused a connection: then it may stay as it
\* is, and no one takes it up again.
UnsettledOnlyIfRefused ==
    \A r \in Request :
        (script[Own(r)] = "ended" /\ doc[r] \in Status \ Settled) =>
            {Own(r), Task(r)} \cap refused # {}

\* Every request ends, also when uploads hold all connections and each waits
\* for its task to get one more.
EveryRequestEnds ==
    \A r \in Request : script[Own(r)] # "none" ~> script[Own(r)] = "ended"
=============================================================================
