------------------------------ MODULE ChatPage ------------------------------
(***************************************************************************)
(* The assistant page (useAssistantChat) composed with the endpoints it    *)
(* calls: what the page shows while answers are on their way.  Each        *)
(* handler captures the page's state when it is called; the answer finds   *)
(* the page as it is by then.                                              *)
(***************************************************************************)
EXTENDS ChatProperties

CONSTANT Me   \* the user who is signed in at the page

ASSUME MeAssumption == Me \in User

VARIABLES
    active,      \* activeConversationId
    shown,       \* messages
    sending, loading, error,
    failed,      \* whether there is a lastFailedMessage
    calls,       \* the page's requests that are not answered yet
    capturedActive,   \* activeConversationId when the request was made
    disturbed    \* history: see ShownIsStored

pageVars == <<active, shown, sending, loading, error, failed, calls, capturedActive, disturbed>>
vars == <<chatVars, pageVars>>

PageInit ==
    /\ active = NoConversation
    /\ shown = <<>>
    /\ sending = FALSE /\ loading = FALSE
    /\ error = FALSE /\ failed = FALSE
    /\ calls = {}
    /\ capturedActive = [r \in Request |-> NoConversation]
    /\ disturbed = FALSE

Init == ChatInit /\ PageInit

\* The page calls the server; acting before the last answer is a disturbance.
Call(r, kind, c) ==
    /\ Submit(r, kind, Me, c)
    /\ calls' = calls \cup {r}
    /\ capturedActive' = [capturedActive EXCEPT ![r] = active]
    /\ disturbed' = (disturbed \/ calls # {})

\* sendMessage: the question is shown before it is stored.
SendMessage(r) ==
    /\ Call(r, "chat", active)
    /\ shown' = Append(shown, <<r, "USER">>)
    /\ sending' = TRUE
    /\ error' = FALSE
    /\ failed' = FALSE
    /\ UNCHANGED <<active, loading>>

\* ChatInput is disabled while a message is being sent.
Send(r) == ~sending /\ SendMessage(r)

\* The Retry button is part of the error, under the messages.
Retry(r) ==
    /\ error /\ failed
    /\ ~loading /\ shown # <<>>
    /\ SendMessage(r)

\* The sidebar's list may be old: it offers what was ever the user's.
Offered == {c \in Conversation : owner[c] = Me}

\* loadConversation: the conversation is active at once, its messages come later.
LoadConversation(r) ==
    /\ \E c \in Offered : Call(r, "read", c) /\ active' = c
    /\ loading' = TRUE
    /\ error' = FALSE
    /\ UNCHANGED <<shown, sending, failed>>

RemoveConversation(r) ==
    /\ \E c \in Offered : Call(r, "delete", c)
    /\ UNCHANGED <<active, shown, sending, loading, error, failed>>

\* Mutant: the messages stay on the page.
ClearedButMessages ==
    /\ active' = NoConversation
    /\ error' = FALSE
    /\ failed' = FALSE
    /\ UNCHANGED shown

\* startNewConversation's assignments.
Cleared ==
    /\ active' = NoConversation
    /\ shown' = <<>>
    /\ error' = FALSE
    /\ failed' = FALSE

StartNewConversation ==
    /\ Cleared
    /\ disturbed' = (disturbed \/ calls # {})
    /\ UNCHANGED <<chatVars, sending, loading, calls, capturedActive>>

-----------------------------------------------------------------------------
(* What the page does with an answer.                                      *)

Over(r) == calls' = calls \ {r} /\ UNCHANGED <<chatVars, capturedActive>>

ReceiveAnswer(r) ==
    /\ r \in calls /\ At(r, "done") /\ req[r].kind = "chat"
    /\ active' = req[r].conv
    /\ shown' = Append(shown, <<r, "ASSISTANT">>)
    /\ sending' = FALSE
    /\ Over(r)
    /\ UNCHANGED <<loading, error, failed, disturbed>>

ReceiveMessages(r) ==
    /\ r \in calls /\ At(r, "done") /\ req[r].kind = "read"
    /\ shown' = reply[r]
    /\ loading' = FALSE
    /\ Over(r)
    /\ UNCHANGED <<active, sending, error, failed, disturbed>>

\* The deleted conversation is compared with the one that was active when the
\* button was pressed.
ReceiveDeletion(r) ==
    /\ r \in calls /\ At(r, "done") /\ req[r].kind = "delete"
    /\ IF capturedActive[r] = req[r].conv THEN Cleared
       ELSE UNCHANGED <<active, shown, error, failed>>
    /\ Over(r)
    /\ UNCHANGED <<sending, loading, disturbed>>

\* Mutant: only an answer ends the sending.
EndSendingForgotten(r) == UNCHANGED sending

\* The finally of sendMessage.
EndSending(r) == sending' = (sending /\ req[r].kind # "chat")

\* The request failed, or its answer is lost, even though the server goes on.
ReceiveError(r) ==
    /\ r \in calls
    /\ At(r, "failed") \/ ("lost" \in Faults /\ ~At(r, "idle"))
    /\ error' = TRUE
    /\ failed' = (failed \/ req[r].kind = "chat")
    /\ EndSending(r)
    /\ loading' = (loading /\ req[r].kind # "read")
    /\ disturbed' = (disturbed \/ req[r].kind = "read"
                      \/ ~At(r, "failed") \/ <<r, "ASSISTANT">> \in stored)
    /\ Over(r)
    /\ UNCHANGED <<active, shown>>

Receive(r) == ReceiveAnswer(r) \/ ReceiveMessages(r) \/ ReceiveDeletion(r) \/ ReceiveError(r)

ServerStep(r) == Serve(r) /\ UNCHANGED pageVars

\* Another user, or this user in another tab or through the API; what they only
\* read changes nothing here.
Elsewhere(r) ==
    /\ SubmitAny(r)
    /\ req'[r].kind # "read"
    /\ disturbed' = (disturbed \/ req'[r].by = Me)
    /\ UNCHANGED <<active, shown, sending, loading, error, failed, calls, capturedActive>>

Next ==
    \/ StartNewConversation
    \/ \E r \in Request :
        \/ Send(r) \/ Retry(r) \/ LoadConversation(r) \/ RemoveConversation(r)
        \/ Receive(r) \/ ServerStep(r) \/ Elsewhere(r)

Spec == Init /\ [][Next]_vars

-----------------------------------------------------------------------------
TypeOK ==
    /\ ChatTypeOK
    /\ active \in Conversation \cup {NoConversation}
    /\ shown \in Seq(Message)
    /\ {sending, loading, error, failed, disturbed} \subseteq BOOLEAN
    /\ calls \subseteq Request
    /\ capturedActive \in [Request -> Conversation \cup {NoConversation}]

\* The page never has two questions under way, though Retry does not look at
\* `sending', other calls fail meanwhile and answers get lost; and it says it is
\* sending exactly while one is.
OneQuestionAtATime ==
    /\ \A q, r \in calls : req[q].kind = "chat" /\ req[r].kind = "chat" => q = r
    /\ sending <=> \E r \in calls : req[r].kind = "chat"

InActive(m) == m \in MessagesOf(active)

\* As long as the user waits for each answer, uses no other client, and loses no
\* answer and no load, the page, when nothing is under way, shows every stored
\* message of the active conversation, once and in the order of their times, and
\* otherwise only questions that were not answered: through failures, retries,
\* deletions and changes of conversation, and while other users chat.
ShownIsStored ==
    ~disturbed /\ calls = {} /\ Live(active) =>
        /\ \A i, j \in DOMAIN shown :
            i < j /\ InActive(shown[i]) /\ InActive(shown[j]) => stamp[shown[i]] < stamp[shown[j]]
        /\ \A m \in MessagesOf(active) : \E i \in DOMAIN shown : shown[i] = m
        /\ \A i \in DOMAIN shown : InActive(shown[i]) \/ shown[i][2] = "USER"
=============================================================================
