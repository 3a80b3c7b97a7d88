---------------------------- MODULE Transcripts ----------------------------
(***************************************************************************)
(* What the assistant's tables promise to a user: a conversation belongs   *)
(* to whoever opened it; only the owner's questions enter it, and only     *)
(* while it exists; an answer joins a question that is there; forgetting   *)
(* a conversation takes all of it away, for ever.                          *)
(***************************************************************************)
CONSTANTS User, Conversation, Exchange, NoUser

VARIABLES
    owner,     \* of each conversation; NoUser before it is opened
    gone,      \* the conversations that were forgotten
    asked,     \* the questions kept: sets of <<exchange, conversation, user>>
    answered   \* the exchanges whose answer is kept

vars == <<owner, gone, asked, answered>>

Init ==
    /\ owner = [c \in Conversation |-> NoUser]
    /\ gone = {}
    /\ asked = {}
    /\ answered = {}

Live(c) == owner[c] # NoUser /\ c \notin gone

Open(c, u) ==
    /\ owner[c] = NoUser
    /\ owner' = [owner EXCEPT ![c] = u]
    /\ UNCHANGED <<gone, asked, answered>>

Ask(q, c, u) ==
    /\ Live(c) /\ owner[c] = u
    /\ \A a \in asked : a[1] # q
    /\ asked' = asked \cup {<<q, c, u>>}
    /\ UNCHANGED <<owner, gone, answered>>

Answer(q) ==
    /\ q \notin answered
    /\ \E a \in asked : a[1] = q /\ Live(a[2])
    /\ answered' = answered \cup {q}
    /\ UNCHANGED <<owner, gone, asked>>

Forget(c) ==
    /\ Live(c)
    /\ gone' = gone \cup {c}
    /\ asked' = {a \in asked : a[2] # c}
    /\ answered' = {q \in answered : \A a \in asked : a[1] = q => a[2] # c}
    /\ UNCHANGED owner

Next ==
    \/ \E c \in Conversation : Forget(c)
    \/ \E c \in Conversation, u \in User : Open(c, u)
    \/ \E q \in Exchange : Answer(q)
    \/ \E q \in Exchange, c \in Conversation, u \in User : Ask(q, c, u)

Spec == Init /\ [][Next]_vars
=============================================================================
