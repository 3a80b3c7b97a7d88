--------------------------- MODULE ChatProperties ---------------------------
EXTENDS Chat

ChatTypeOK ==
    /\ owner \in [Conversation -> User \cup {NoUser}]
    /\ gone \subseteq Conversation
    /\ stored \subseteq Message
    /\ req \in [Request -> ChatRequest]
    /\ stamp \in [Message -> Nat]
    /\ now \in Nat
    /\ reply \in [Request -> Seq(Message)]

\* The messages of a conversation are listed by the time their transactions
\* began, and requests overlap: still every answer is listed, in the same
\* conversation, after the question it answers.
AnswerFollowsQuestion ==
    \A r \in Request : <<r, "ASSISTANT">> \in stored =>
        /\ <<r, "USER">> \in stored
        /\ stamp[<<r, "USER">>] < stamp[<<r, "ASSISTANT">>]

\* An answer a client has been given is in the conversation's history, with its
\* question, for as long as the conversation exists.
AnsweredIsKept ==
    \A r \in Request : At(r, "done") /\ req[r].kind = "chat" /\ Live(req[r].conv) =>
        \A role \in Role : <<r, role>> \in stored

-----------------------------------------------------------------------------
(* The abstract view of the tables.                                        *)

Kept(role) == {r \in Request : <<r, role>> \in stored}
Asked      == {<<r, req[r].conv, req[r].by>> : r \in Kept("USER")}

T == INSTANCE Transcripts WITH Exchange <- Request, asked <- Asked, answered <- Kept("ASSISTANT")

\* However chats, deletions and failures interleave, the tables implement the
\* transcripts: no message outlives its conversation or enters another user's,
\* and no answer stands without its question.
ImplementsTranscripts == T!Spec
=============================================================================
