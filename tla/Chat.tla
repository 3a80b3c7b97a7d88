-------------------------------- MODULE Chat --------------------------------
(***************************************************************************)
(* The assistant's endpoints (api/ai.py) over the tables conversations and *)
(* messages, one action per statement or commit.  A request is made once;  *)
(* its question and its answer are the messages <<r, "USER">> and          *)
(* <<r, "ASSISTANT">>.                                                     *)
(***************************************************************************)
EXTENDS Naturals, FiniteSets, Sequences, Timeline

CONSTANTS
    User, Conversation, Request,
    Faults,            \* what may fail: "model" (Gemini), "db", and, in ChatPage, "lost"
    NoUser, NoConversation

ASSUME ChatAssumption ==
    /\ NoUser \notin User
    /\ NoConversation \notin Conversation

VARIABLES
    owner,     \* conversations.user_id; kept when the row is deleted, ids are never reused
    gone,      \* the conversations that were deleted
    stored,    \* the rows of messages
    req,       \* the requests
    stamp,     \* when the transaction that inserts a message began: its created_at
    now,       \* the number of transactions begun
    reply      \* the messages a reading request has been given

tables   == <<owner, gone, stored>>
chatVars == <<owner, gone, stored, req, stamp, now, reply>>

Role    == {"USER", "ASSISTANT"}
Message == Request \X Role
Point   == {"idle", "sent", "created", "found", "asked", "answering", "prompting",
            "answered", "stored", "reading", "deleting", "done", "failed"}
ChatRequest == [at: Point, kind: {"chat", "read", "delete"}, by: User \cup {NoUser},
                conv: Conversation \cup {NoConversation}]
NoRequest   == [at |-> "idle", kind |-> "chat", by |-> NoUser, conv |-> NoConversation]

ChatInit ==
    /\ owner = [c \in Conversation |-> NoUser]
    /\ gone = {}
    /\ stored = {}
    /\ req = [r \in Request |-> NoRequest]
    /\ stamp = [m \in Message |-> 0]
    /\ now = 0
    /\ reply = [r \in Request |-> <<>>]

At(r, point)  == req[r].at = point
Goto(r, point) == req' = [req EXCEPT ![r].at = point]
Live(c)       == c \in Conversation /\ owner[c] # NoUser /\ c \notin gone

\* get_owned_by_id finds the row.
Owned(c, u) == Live(c) /\ owner[c] = u

MessagesOf(c) == {m \in stored : req[m[1]].conv = c}

\* list_for_conversation: by created_at.
Listing(c) == InOrder(MessagesOf(c), stamp)

\* The statement starts a transaction, whose time the message m inserted in it
\* will bear: now() is the time of the transaction, not of the statement.
Begin(m) ==
    /\ now' = now + 1
    /\ stamp' = [stamp EXCEPT ![m] = now + 1]

-----------------------------------------------------------------------------
\* A client makes a request; c is NoConversation for a chat that opens one.
Submit(r, kind, u, c) ==
    /\ At(r, "idle")
    /\ req' = [req EXCEPT ![r] = [at |-> "sent", kind |-> kind, by |-> u, conv |-> c]]
    /\ UNCHANGED <<tables, stamp, now, reply>>

\* All three handlers look their conversation up, and answer 404 when it is
\* not the caller's.  The transaction in which the question will be stored
\* began with the caller's authentication.
FindConversation(r) ==
    /\ At(r, "sent")
    /\ req[r].conv # NoConversation
    /\ IF ~Owned(req[r].conv, req[r].by)
       THEN Goto(r, "failed") /\ UNCHANGED <<stamp, now>>
       ELSE IF req[r].kind = "chat"
       THEN Goto(r, "found") /\ Begin(<<r, "USER">>)
       ELSE /\ Goto(r, IF req[r].kind = "read" THEN "reading" ELSE "deleting")
            /\ UNCHANGED <<stamp, now>>
    /\ UNCHANGED <<tables, reply>>

\* conversation_repository.create, up to its commit.
CreateConversation(r) ==
    /\ At(r, "sent")
    /\ req[r].conv = NoConversation
    /\ \E c \in Conversation :
        /\ owner[c] = NoUser
        /\ owner' = [owner EXCEPT ![c] = req[r].by]
        /\ req' = [req EXCEPT ![r].at = "created", ![r].conv = c]
    /\ UNCHANGED <<gone, stored, stamp, now, reply>>

\* The refresh after that commit fails if the row is gone already.
RefreshConversation(r) ==
    /\ At(r, "created")
    /\ IF Live(req[r].conv)
       THEN Goto(r, "found") /\ Begin(<<r, "USER">>)
       ELSE Goto(r, "failed") /\ UNCHANGED <<stamp, now>>
    /\ UNCHANGED <<tables, reply>>

\* Mutant: messages have no foreign key.
InsertableAnywhere(c) == TRUE

\* The foreign key messages.conversation_id.
Insertable(c) == Live(c)

\* message_repository.create for the question, up to its commit; a violated
\* foreign key is caught nowhere.
StoreQuestion(r) ==
    /\ At(r, "found")
    /\ IF Insertable(req[r].conv)
       THEN stored' = stored \cup {<<r, "USER">>} /\ Goto(r, "asked")
       ELSE UNCHANGED stored /\ Goto(r, "failed")
    /\ UNCHANGED <<owner, gone, stamp, now, reply>>

\* Mutant: the answer bears the time its request began.
ReloadAfterQuestionSameTime(r) ==
    /\ At(r, "asked")
    /\ IF Live(req[r].conv)
       THEN /\ Goto(r, "answering")
            /\ stamp' = [stamp EXCEPT ![<<r, "ASSISTANT">>] = stamp[<<r, "USER">>]]
       ELSE Goto(r, "failed") /\ UNCHANGED stamp
    /\ UNCHANGED <<tables, now, reply>>

\* The refresh of the message and the reload of conversation.id fail if the
\* rows are gone.  They begin the transaction that will store the answer.
ReloadAfterQuestion(r) ==
    /\ At(r, "asked")
    /\ IF Live(req[r].conv)
       THEN Goto(r, "answering") /\ Begin(<<r, "ASSISTANT">>)
       ELSE Goto(r, "failed") /\ UNCHANGED <<stamp, now>>
    /\ UNCHANGED <<tables, reply>>

\* retrieve_relevant_chunks finds evidence or none; without any the fixed
\* answer is given and the model is not asked.
Retrieve(r) ==
    /\ At(r, "answering")
    /\ Goto(r, "prompting") \/ Goto(r, "answered")
    /\ UNCHANGED <<tables, stamp, now, reply>>

\* generate_answer returns a text.
Generate(r) ==
    /\ At(r, "prompting")
    /\ Goto(r, "answered")
    /\ UNCHANGED <<tables, stamp, now, reply>>

\* The embedding of the question or its answer fails: 503, the question stays.
AnswerFails(r) ==
    /\ "model" \in Faults
    /\ req[r].at \in {"answering", "prompting"}
    /\ Goto(r, "failed")
    /\ UNCHANGED <<tables, stamp, now, reply>>

\* Mutant: the answer is not committed.
StoreAnswerUncommitted(r) ==
    /\ At(r, "answered")
    /\ Goto(r, IF Insertable(req[r].conv) THEN "stored" ELSE "failed")
    /\ UNCHANGED <<tables, stamp, now, reply>>

\* message_repository.create for the answer, up to its commit.
StoreAnswer(r) ==
    /\ At(r, "answered")
    /\ IF Insertable(req[r].conv)
       THEN stored' = stored \cup {<<r, "ASSISTANT">>} /\ Goto(r, "stored")
       ELSE UNCHANGED stored /\ Goto(r, "failed")
    /\ UNCHANGED <<owner, gone, stamp, now, reply>>

\* The refresh, the UPDATE of touch and the reload of conversation.id for the
\* response: each raises if its row is gone.
Finish(r) ==
    /\ At(r, "stored")
    /\ Goto(r, IF Live(req[r].conv) THEN "done" ELSE "failed")
    /\ UNCHANGED <<tables, stamp, now, reply>>

\* get_conversation's second statement.
ReadMessages(r) ==
    /\ At(r, "reading")
    /\ reply' = [reply EXCEPT ![r] = Listing(req[r].conv)]
    /\ Goto(r, "done")
    /\ UNCHANGED <<tables, stamp, now>>

\* The row and, by ON DELETE CASCADE, its messages; a row that is gone already
\* is no error.
DeleteConversation(r) ==
    /\ At(r, "deleting")
    /\ gone' = gone \cup {req[r].conv}
    /\ stored' = stored \ MessagesOf(req[r].conv)
    /\ Goto(r, "done")
    /\ UNCHANGED <<owner, stamp, now, reply>>

\* A statement fails or the process dies: nothing of it is kept.
Break(r) ==
    /\ "db" \in Faults
    /\ req[r].at \notin {"idle", "done", "failed"}
    /\ Goto(r, "failed")
    /\ UNCHANGED <<tables, stamp, now, reply>>

\* What the thread that serves r does next.
Serve(r) ==
    \/ FindConversation(r) \/ CreateConversation(r) \/ RefreshConversation(r)
    \/ StoreQuestion(r) \/ ReloadAfterQuestion(r) \/ Retrieve(r) \/ Generate(r)
    \/ AnswerFails(r) \/ StoreAnswer(r) \/ Finish(r)
    \/ ReadMessages(r) \/ DeleteConversation(r) \/ Break(r)

\* Any client may name any conversation there has been; an id that never was is
\* answered like another user's.
SubmitAny(r) ==
    \E kind \in {"chat", "read", "delete"}, u \in User,
       c \in Conversation \cup {NoConversation} :
        /\ IF c = NoConversation THEN kind = "chat" ELSE owner[c] # NoUser
        /\ Submit(r, kind, u, c)

ChatNext == \E r \in Request : SubmitAny(r) \/ Serve(r)

ChatSpec == ChatInit /\ [][ChatNext]_chatVars
=============================================================================
