----------------------------- MODULE ChatProofs -----------------------------
(***************************************************************************)
(* Theorems about the assistant's endpoints, for any number of users,      *)
(* conversations and requests and whatever fails; and about the assistant  *)
(* page composed with them: the page and the other clients only do what    *)
(* any client may do, so the theorems about the endpoints hold of the      *)
(* composition; the page asks one question at a time; and it shows what is *)
(* stored.                                                                 *)
(***************************************************************************)
EXTENDS ChatPage, TimelineProofs, TLAPS

Storing   == {"asked", "answering", "prompting", "answered", "stored"}
Chatting  == {"created", "found"} \cup Storing
Granted   == Chatting \cup {"reading", "deleting", "done"}

Types ==
    /\ owner \in [Conversation -> User \cup {NoUser}]
    /\ gone \subseteq Conversation
    /\ stored \subseteq Message
    /\ req \in [Request -> ChatRequest]
    /\ stamp \in [Message -> Nat]
    /\ now \in Nat

\* No message bears a time that has not come yet.
Clock == \A m \in Message : stamp[m] <= now

\* What is known of one request, wherever the others are.
Known(r) ==
    /\ req[r].at # "idle" => req[r].by \in User
    /\ req[r].at \in Granted =>
        req[r].conv \in Conversation /\ owner[req[r].conv] = req[r].by
    /\ req[r].at \in Chatting \/ (At(r, "sent") /\ req[r].conv = NoConversation) =>
        req[r].kind = "chat"
    /\ req[r].at = "reading" => req[r].kind = "read"
    /\ req[r].at = "deleting" => req[r].kind = "delete"
    /\ req[r].at \in {"answering", "prompting", "answered", "stored"} =>
        stamp[<<r, "USER">>] < stamp[<<r, "ASSISTANT">>]
    /\ <<r, "USER">> \in stored =>
        /\ req[r].at \in Storing \cup {"done", "failed"}
        /\ Live(req[r].conv)
        /\ owner[req[r].conv] = req[r].by
    /\ <<r, "ASSISTANT">> \in stored =>
        /\ req[r].at \in {"stored", "done", "failed"}
        /\ <<r, "USER">> \in stored
        /\ stamp[<<r, "USER">>] < stamp[<<r, "ASSISTANT">>]
    /\ req[r].at \in Storing /\ Live(req[r].conv) => <<r, "USER">> \in stored
    /\ At(r, "stored") \/ (At(r, "done") /\ req[r].kind = "chat") =>
        (Live(req[r].conv) => <<r, "USER">> \in stored /\ <<r, "ASSISTANT">> \in stored)

IInv == Types /\ Clock /\ \A r \in Request : Known(r)

Step(r) == SubmitAny(r) \/ Serve(r)

-----------------------------------------------------------------------------
LEMMA GotoTypes ==
    ASSUME NEW r \in Request, NEW point \in Point, Goto(r, point),
           req \in [Request -> ChatRequest]
    PROVE  req' \in [Request -> ChatRequest]
BY DEF Goto, ChatRequest

LEMMA BeginTypes ==
    ASSUME NEW m \in Message, Begin(m), stamp \in [Message -> Nat], now \in Nat
    PROVE  stamp' \in [Message -> Nat] /\ now' \in Nat
BY DEF Begin

LEMMA StepTypes ==
    ASSUME NEW r \in Request, IInv, Step(r)
    PROVE  Types'
<1>1. Types BY DEF IInv
<1>2. \A role \in Role : <<r, role>> \in Message BY DEF Message
<1>3. req[r].at # "idle" => req[r].by \in User BY DEF IInv, Known
<1>4. At(r, "deleting") => req[r].conv \in Conversation BY DEF IInv, Known, At, Granted
<1> USE <1>1, <1>2 DEF Types, Role, tables
<1>5. CASE SubmitAny(r) BY <1>5 DEF SubmitAny, Submit, ChatRequest, Point
<1>6. CASE FindConversation(r)
    <2>1. Goto(r, "failed") \/ Goto(r, "found") \/ Goto(r, "reading") \/ Goto(r, "deleting")
        BY <1>6 DEF FindConversation
    <2>2. req' \in [Request -> ChatRequest] BY <2>1, GotoTypes DEF Point
    <2>3. UNCHANGED <<stamp, now>> \/ Begin(<<r, "USER">>) BY <1>6 DEF FindConversation
    <2>4. stamp' \in [Message -> Nat] /\ now' \in Nat BY <2>3, BeginTypes
    <2> QED BY <1>6, <2>2, <2>4 DEF FindConversation
<1>7. CASE CreateConversation(r)
    <2>1. req[r].by \in User BY <1>3, <1>7 DEF CreateConversation, At
    <2>2. PICK c \in Conversation :
            /\ owner' = [owner EXCEPT ![c] = req[r].by]
            /\ req' = [req EXCEPT ![r].at = "created", ![r].conv = c]
        BY <1>7 DEF CreateConversation
    <2>3. req' \in [Request -> ChatRequest] BY <2>2 DEF ChatRequest, Point
    <2> QED BY <1>7, <2>1, <2>2, <2>3 DEF CreateConversation
<1>8. CASE RefreshConversation(r)
    <2>1. req' \in [Request -> ChatRequest]
        BY <1>8, GotoTypes DEF RefreshConversation, Point
    <2>2. stamp' \in [Message -> Nat] /\ now' \in Nat
        BY <1>8, BeginTypes DEF RefreshConversation
    <2> QED BY <1>8, <2>1, <2>2 DEF RefreshConversation
<1>9. CASE ReloadAfterQuestion(r)
    <2>1. req' \in [Request -> ChatRequest]
        BY <1>9, GotoTypes DEF ReloadAfterQuestion, Point
    <2>2. stamp' \in [Message -> Nat] /\ now' \in Nat
        BY <1>9, BeginTypes DEF ReloadAfterQuestion
    <2> QED BY <1>9, <2>1, <2>2 DEF ReloadAfterQuestion
<1>10. CASE StoreQuestion(r) \/ StoreAnswer(r)
    <2>1. req' \in [Request -> ChatRequest]
        BY <1>10, GotoTypes DEF StoreQuestion, StoreAnswer, Point
    <2> QED BY <1>10, <2>1 DEF StoreQuestion, StoreAnswer
<1>11. CASE Retrieve(r) \/ Generate(r) \/ AnswerFails(r) \/ Finish(r) \/ Break(r) \/ ReadMessages(r)
    <2>1. req' \in [Request -> ChatRequest]
        BY <1>11, GotoTypes
           DEF Retrieve, Generate, AnswerFails, Finish, Break, ReadMessages, Point
    <2> QED BY <1>11, <2>1 DEF Retrieve, Generate, AnswerFails, Finish, Break, ReadMessages
<1>12. CASE DeleteConversation(r)
    <2>1. req' \in [Request -> ChatRequest]
        BY <1>12, GotoTypes DEF DeleteConversation, Point
    <2> QED BY <1>4, <1>12, <2>1 DEF DeleteConversation
<1> QED BY <1>5, <1>6, <1>7, <1>8, <1>9, <1>10, <1>11, <1>12 DEF Step, Serve

\* Time only goes on, and only r's own messages are stamped.
LEMMA StepStamps ==
    ASSUME NEW r \in Request, IInv, Step(r)
    PROVE  /\ Clock'
           /\ \A s \in Request \ {r}, role \in Role : stamp'[<<s, role>>] = stamp[<<s, role>>]
<1> USE DEF IInv, Types, Message, Role
<1>1. CASE UNCHANGED <<stamp, now>> BY <1>1 DEF Clock
<1>2. CASE \E role \in Role : Begin(<<r, role>>)
    <2> PICK role \in Role : Begin(<<r, role>>) BY <1>2
    <2>1. now' = now + 1 /\ stamp' = [stamp EXCEPT ![<<r, role>>] = now + 1] BY DEF Begin
    <2>2. \A m \in Message : stamp'[m] = IF m = <<r, role>> THEN now + 1 ELSE stamp[m] BY <2>1
    <2>3. Clock' BY <2>1, <2>2 DEF Clock
    <2> QED BY <2>2, <2>3
<1> QED BY <1>1, <1>2 DEF Step, SubmitAny, Submit, Serve, FindConversation, CreateConversation,
        RefreshConversation, StoreQuestion, ReloadAfterQuestion, Retrieve, Generate, AnswerFails,
        StoreAnswer, Finish, ReadMessages, DeleteConversation, Break

\* What r does to the tables, as the other requests see it.
LEMMA StepTables ==
    ASSUME NEW r \in Request, IInv, Step(r)
    PROVE  /\ \A c \in Conversation : owner[c] # NoUser => owner'[c] = owner[c]
           /\ gone \subseteq gone'
           /\ \A s \in Request \ {r} :
                /\ req'[s] = req[s]
                /\ \A role \in Role :
                    /\ <<s, role>> \in stored' =>
                         <<s, role>> \in stored /\ ~(req[s].conv \in gone' /\ req[s].conv \notin gone)
                    /\ <<s, role>> \in stored /\ req[s].conv \notin gone' => <<s, role>> \in stored'
<1> USE DEF IInv, Types, Role, Goto
<1>1. CASE UNCHANGED tables /\ \A s \in Request \ {r} : req'[s] = req[s] BY <1>1 DEF tables
<1>2. CASE CreateConversation(r) BY <1>2 DEF CreateConversation
<1>3. CASE StoreQuestion(r) \/ StoreAnswer(r) BY <1>3 DEF StoreQuestion, StoreAnswer
<1>4. CASE DeleteConversation(r) BY <1>4 DEF DeleteConversation, MessagesOf
<1>5. CASE SubmitAny(r) BY <1>1, <1>5 DEF SubmitAny, Submit
<1> QED BY <1>1, <1>2, <1>3, <1>4, <1>5 DEF Step, Serve, FindConversation, RefreshConversation,
        ReloadAfterQuestion, Retrieve, Generate, AnswerFails, Finish, ReadMessages, Break

\* What is known of a request survives the steps of the others.
LEMMA Frame ==
    ASSUME NEW r \in Request, NEW s \in Request, s # r, IInv, Step(r), ChatAssumption
    PROVE  Known(s)'
<1>1. Known(s) /\ Types BY DEF IInv
<1>2. req'[s] = req[s] BY StepTables
<1>3. \A role \in Role : stamp'[<<s, role>>] = stamp[<<s, role>>] BY StepStamps
<1>4. \A c \in Conversation : owner[c] # NoUser => owner'[c] = owner[c] BY StepTables
<1>5. gone \subseteq gone' BY StepTables
<1>6. \A role \in Role :
        /\ <<s, role>> \in stored' =>
             <<s, role>> \in stored /\ ~(req[s].conv \in gone' /\ req[s].conv \notin gone)
        /\ <<s, role>> \in stored /\ req[s].conv \notin gone' => <<s, role>> \in stored'
    BY StepTables
<1>7. req[s].at \in Granted => owner'[req[s].conv] = owner[req[s].conv]
    BY <1>1, <1>4 DEF Known, ChatAssumption, Granted, Chatting, Storing
<1>8. <<s, "USER">> \in stored' => Live(req[s].conv)' /\ owner'[req[s].conv] = req[s].by
    <2> SUFFICES ASSUME <<s, "USER">> \in stored'
                 PROVE  Live(req[s].conv)' /\ owner'[req[s].conv] = req[s].by
        OBVIOUS
    <2>1. <<s, "USER">> \in stored /\ ~(req[s].conv \in gone' /\ req[s].conv \notin gone)
        BY <1>6 DEF Role
    <2>2. Live(req[s].conv) /\ owner[req[s].conv] = req[s].by BY <1>1, <2>1 DEF Known
    <2>3. req[s].conv \in Conversation /\ owner[req[s].conv] # NoUser /\ req[s].conv \notin gone
        BY <2>2 DEF Live
    <2> QED BY <1>2, <1>4, <2>1, <2>2, <2>3 DEF Live
<1>9. <<s, "ASSISTANT">> \in stored' => <<s, "USER">> \in stored'
    BY <1>1, <1>6 DEF Known, Live, Role
<1>10. Live(req[s].conv)' /\ req[s].at \in Granted => Live(req[s].conv)
    BY <1>1, <1>2, <1>5, <1>7 DEF Live
<1>11. req[s].at \in Storing /\ Live(req[s].conv)' => <<s, "USER">> \in stored'
    BY <1>1, <1>2, <1>6, <1>10 DEF Known, Live, Role, Granted, Chatting
<1>12. (At(s, "stored") \/ (At(s, "done") /\ req[s].kind = "chat")) /\ Live(req[s].conv)' =>
            <<s, "USER">> \in stored' /\ <<s, "ASSISTANT">> \in stored'
    BY <1>1, <1>2, <1>6, <1>10 DEF Known, Live, Role, Granted, Chatting, Storing, At
<1>13. <<s, "USER">> \in stored' => req[s].at \in Storing \cup {"done", "failed"}
    BY <1>1, <1>6 DEF Known, Role
<1>14. <<s, "ASSISTANT">> \in stored' =>
            /\ req[s].at \in {"stored", "done", "failed"}
            /\ stamp[<<s, "USER">>] < stamp[<<s, "ASSISTANT">>]
    BY <1>1, <1>6 DEF Known, Role
<1>15. req[s].at \in Granted => owner'[req[s].conv] = req[s].by /\ req[s].conv \in Conversation
    BY <1>1, <1>7 DEF Known
<1>16. stamp'[<<s, "USER">>] = stamp[<<s, "USER">>] /\ stamp'[<<s, "ASSISTANT">>] = stamp[<<s, "ASSISTANT">>]
    BY <1>3 DEF Role
<1> QED BY <1>1, <1>2, <1>8, <1>9, <1>11, <1>12, <1>13, <1>14, <1>15, <1>16 DEF Known, At

LEMMA GotoKeeps ==
    ASSUME NEW r \in Request, NEW point, Goto(r, point), req \in [Request -> ChatRequest]
    PROVE  /\ req'[r].at = point
           /\ req'[r].conv = req[r].conv /\ req'[r].by = req[r].by /\ req'[r].kind = req[r].kind
BY DEF Goto, ChatRequest

\* Each action establishes what is known after it of the request that takes it.
LEMMA OwnStep ==
    ASSUME NEW r \in Request, IInv, Step(r), ChatAssumption
    PROVE  Known(r)'
<1>1. Known(r) /\ Types /\ Clock BY DEF IInv
<1>2. <<r, "USER">> \in Message /\ <<r, "ASSISTANT">> \in Message
      /\ <<r, "USER">> # <<r, "ASSISTANT">>
    BY DEF Message, Role
<1>3. req \in [Request -> ChatRequest] BY <1>1 DEF Types
<1> USE <1>1, <1>2, <1>3 DEF At, Granted, Chatting, Storing
<1>4. CASE SubmitAny(r)
    <2>1. <<r, "USER">> \notin stored /\ <<r, "ASSISTANT">> \notin stored
        BY <1>4 DEF SubmitAny, Submit, Known
    <2>2. PICK kind \in {"chat", "read", "delete"}, u \in User,
               c \in Conversation \cup {NoConversation} :
            /\ IF c = NoConversation THEN kind = "chat" ELSE owner[c] # NoUser
            /\ req' = [req EXCEPT ![r] = [at |-> "sent", kind |-> kind, by |-> u, conv |-> c]]
        BY <1>4 DEF SubmitAny, Submit
    <2>3. /\ req'[r].at = "sent" /\ req'[r].by \in User
          /\ req'[r].conv = NoConversation => req'[r].kind = "chat"
        BY <2>2
    <2>4. stored' = stored BY <1>4 DEF SubmitAny, Submit, tables
    <2> QED BY <2>1, <2>3, <2>4 DEF Known
<1>5. CASE FindConversation(r)
    <2>1. <<r, "USER">> \notin stored /\ <<r, "ASSISTANT">> \notin stored /\ req[r].by \in User
        BY <1>5 DEF FindConversation, Known
    <2>2. stored' = stored /\ owner' = owner /\ gone' = gone BY <1>5 DEF FindConversation, tables
    <2>3. /\ req'[r].conv = req[r].conv /\ req'[r].by = req[r].by /\ req'[r].kind = req[r].kind
          /\ \/ req'[r].at = "failed"
             \/ /\ req'[r].at = CASE req[r].kind = "chat" -> "found"
                                  [] req[r].kind = "read" -> "reading"
                                  [] OTHER -> "deleting"
                /\ Owned(req[r].conv, req[r].by)
        BY <1>5, GotoKeeps DEF FindConversation
    <2>4. req[r].kind \in {"chat", "read", "delete"} BY DEF ChatRequest
    <2> QED BY <2>1, <2>2, <2>3, <2>4 DEF Known, Owned, Live
<1>6. CASE CreateConversation(r)
    <2>1. <<r, "USER">> \notin stored /\ <<r, "ASSISTANT">> \notin stored /\ req[r].by \in User
        BY <1>6 DEF CreateConversation, Known
    <2>2. PICK c \in Conversation :
            /\ owner' = [owner EXCEPT ![c] = req[r].by]
            /\ req' = [req EXCEPT ![r].at = "created", ![r].conv = c]
        BY <1>6 DEF CreateConversation
    <2>3. req'[r].at = "created" /\ req'[r].conv = c /\ req'[r].by = req[r].by
          /\ req'[r].kind = req[r].kind
        BY <2>2
    <2>4. stored' = stored /\ owner'[c] = req[r].by
        BY <1>6, <2>2 DEF CreateConversation, Types
    <2>5. req[r].kind = "chat" BY <1>6 DEF CreateConversation, Known
    <2> QED BY <2>1, <2>3, <2>4, <2>5 DEF Known
<1>7. CASE RefreshConversation(r)
    <2>1. <<r, "USER">> \notin stored /\ <<r, "ASSISTANT">> \notin stored
        BY <1>7 DEF RefreshConversation, Known
    <2>2. stored' = stored /\ owner' = owner BY <1>7 DEF RefreshConversation, tables
    <2>3. req'[r].conv = req[r].conv /\ req'[r].by = req[r].by /\ req'[r].kind = req[r].kind
          /\ req'[r].at \in {"found", "failed"}
        BY <1>7, GotoKeeps DEF RefreshConversation
    <2> QED BY <1>7, <2>1, <2>2, <2>3 DEF Known, RefreshConversation
<1>8. CASE StoreQuestion(r)
    <2>1. <<r, "USER">> \notin stored /\ <<r, "ASSISTANT">> \notin stored
        BY <1>8 DEF StoreQuestion, Known
    <2>2. owner' = owner /\ gone' = gone BY <1>8 DEF StoreQuestion
    <2>3. req'[r].conv = req[r].conv /\ req'[r].by = req[r].by /\ req'[r].kind = req[r].kind
        BY <1>8, GotoKeeps DEF StoreQuestion
    <2>4. \/ req'[r].at = "failed" /\ stored' = stored
          \/ /\ req'[r].at = "asked" /\ stored' = stored \cup {<<r, "USER">>}
             /\ Live(req[r].conv)
        BY <1>8, GotoKeeps DEF StoreQuestion, Insertable
    <2> QED BY <1>8, <2>1, <2>2, <2>3, <2>4 DEF Known, Live, StoreQuestion
<1>9. CASE ReloadAfterQuestion(r)
    <2>1. <<r, "ASSISTANT">> \notin stored BY <1>9 DEF ReloadAfterQuestion, Known
    <2>2. stored' = stored /\ owner' = owner /\ gone' = gone BY <1>9 DEF ReloadAfterQuestion, tables
    <2>3. req'[r].conv = req[r].conv /\ req'[r].by = req[r].by /\ req'[r].kind = req[r].kind
          /\ req'[r].at \in {"answering", "failed"}
        BY <1>9, GotoKeeps DEF ReloadAfterQuestion
    <2>4. req'[r].at = "answering" => stamp'[<<r, "USER">>] < stamp'[<<r, "ASSISTANT">>]
        BY <1>9, GotoKeeps DEF ReloadAfterQuestion, Begin, Types, Clock
    <2> QED BY <1>9, <2>1, <2>2, <2>3, <2>4 DEF Known, Live, ReloadAfterQuestion
<1>10. CASE Retrieve(r) \/ Generate(r) \/ AnswerFails(r)
    <2>1. req[r].at \in {"answering", "prompting"}
        BY <1>10, GotoKeeps DEF Retrieve, Generate, AnswerFails
    <2>2. stored' = stored /\ owner' = owner /\ gone' = gone /\ stamp' = stamp
        BY <1>10 DEF Retrieve, Generate, AnswerFails, tables
    <2>3. req'[r].conv = req[r].conv /\ req'[r].by = req[r].by /\ req'[r].kind = req[r].kind
          /\ req'[r].at \in {"prompting", "answered", "failed"}
        BY <1>10, GotoKeeps DEF Retrieve, Generate, AnswerFails
    <2> QED BY <2>1, <2>2, <2>3 DEF Known, Live
<1>11. CASE StoreAnswer(r)
    <2>1. <<r, "ASSISTANT">> \notin stored BY <1>11 DEF StoreAnswer, Known
    <2>2. owner' = owner /\ gone' = gone /\ stamp' = stamp BY <1>11 DEF StoreAnswer
    <2>3. req'[r].conv = req[r].conv /\ req'[r].by = req[r].by /\ req'[r].kind = req[r].kind
        BY <1>11, GotoKeeps DEF StoreAnswer
    <2>4. \/ req'[r].at = "failed" /\ stored' = stored
          \/ /\ req'[r].at = "stored" /\ stored' = stored \cup {<<r, "ASSISTANT">>}
             /\ Live(req[r].conv)
        BY <1>11, GotoKeeps DEF StoreAnswer, Insertable
    <2>5. Live(req[r].conv) => <<r, "USER">> \in stored BY <1>11 DEF StoreAnswer, Known
    <2> QED BY <1>11, <2>1, <2>2, <2>3, <2>4, <2>5 DEF Known, Live, StoreAnswer
<1>12. CASE Finish(r) \/ Break(r) \/ ReadMessages(r)
    <2>1. stored' = stored /\ owner' = owner /\ gone' = gone /\ stamp' = stamp
        BY <1>12 DEF Finish, Break, ReadMessages, tables
    <2>2. req'[r].conv = req[r].conv /\ req'[r].by = req[r].by /\ req'[r].kind = req[r].kind
        BY <1>12, GotoKeeps DEF Finish, Break, ReadMessages
    <2>3. \/ req'[r].at = "failed" /\ req[r].at # "idle"
          \/ req'[r].at = "done" /\ req[r].at \in {"stored", "reading"}
        BY <1>12, GotoKeeps DEF Finish, Break, ReadMessages
    <2>4. <<r, "ASSISTANT">> \in stored => req'[r].at \in {"stored", "done", "failed"}
        BY <2>3
    <2>5. <<r, "USER">> \in stored => req'[r].at \in Storing \cup {"done", "failed"}
        BY <2>3
    <2> QED BY <2>1, <2>2, <2>3, <2>4, <2>5 DEF Known, Live
<1>13. CASE DeleteConversation(r)
    <2>1. <<r, "USER">> \notin stored /\ <<r, "ASSISTANT">> \notin stored
        BY <1>13 DEF DeleteConversation, Known
    <2>2. owner' = owner /\ stored' \subseteq stored BY <1>13 DEF DeleteConversation
    <2>3. req'[r].conv = req[r].conv /\ req'[r].by = req[r].by /\ req'[r].kind = req[r].kind
          /\ req'[r].at = "done"
        BY <1>13, GotoKeeps DEF DeleteConversation
    <2> QED BY <1>13, <2>1, <2>2, <2>3 DEF Known, DeleteConversation
<1> QED BY <1>4, <1>5, <1>6, <1>7, <1>8, <1>9, <1>10, <1>11, <1>12, <1>13 DEF Step, Serve

LEMMA IInvStep ==
    ASSUME ChatAssumption, IInv, [ChatNext]_chatVars PROVE IInv'
<1>1. CASE UNCHANGED chatVars
    BY <1>1 DEF chatVars, IInv, Types, Clock, Known, Live, At
<1>2. CASE ChatNext
    <2> PICK r \in Request : Step(r) BY <1>2 DEF ChatNext, Step
    <2>1. Types' BY StepTypes
    <2>2. Clock' BY StepStamps
    <2>3. \A s \in Request : Known(s)' BY Frame, OwnStep
    <2> QED BY <2>1, <2>2, <2>3 DEF IInv
<1> QED BY <1>1, <1>2

LEMMA IInvInit == ChatInit => IInv
<1> SUFFICES ASSUME ChatInit PROVE IInv OBVIOUS
<1>1. Types BY DEF ChatInit, Types, ChatRequest, Point, NoRequest, Message
<1>2. Clock BY DEF ChatInit, Clock
<1>3. \A r \in Request : Known(r)
    BY DEF ChatInit, Known, NoRequest, Granted, Chatting, Storing, At
<1> QED BY <1>1, <1>2, <1>3 DEF IInv

LEMMA IInvInvariant ==
    ASSUME ChatAssumption PROVE ChatSpec => []IInv
<1>1. IInv /\ [ChatNext]_chatVars => IInv' BY IInvStep
<1> QED BY <1>1, IInvInit, PTL DEF ChatSpec

\* Every listed answer has its question, earlier and in the same conversation.
THEOREM AnswersFollow ==
    ASSUME ChatAssumption PROVE ChatSpec => []AnswerFollowsQuestion
<1>1. IInv => AnswerFollowsQuestion BY DEF IInv, Known, AnswerFollowsQuestion
<1> QED BY <1>1, IInvInvariant, PTL

\* What a client was answered stays in the history while its conversation exists.
THEOREM AnswersKept ==
    ASSUME ChatAssumption PROVE ChatSpec => []AnsweredIsKept
<1>1. IInv => AnsweredIsKept BY DEF IInv, Known, AnsweredIsKept, Role
<1> QED BY <1>1, IInvInvariant, PTL

-----------------------------------------------------------------------------
(* The refinement.                                                         *)

LEMMA AskedMembers ==
    /\ \A a \in Asked : a[1] \in Kept("USER") /\ a = <<a[1], req[a[1]].conv, req[a[1]].by>>
    /\ \A a \in Asked : a[2] = req[a[1]].conv
    /\ \A s \in Kept("USER") : <<s, req[s].conv, req[s].by>> \in Asked
<1>1. \A a \in Asked : \E s \in Kept("USER") : a = <<s, req[s].conv, req[s].by>> BY DEF Asked
<1>2. ASSUME NEW a \in Asked
      PROVE  /\ a[1] \in Kept("USER") /\ a = <<a[1], req[a[1]].conv, req[a[1]].by>>
             /\ a[2] = req[a[1]].conv
    <2> PICK s \in Kept("USER") : a = <<s, req[s].conv, req[s].by>> BY <1>1
    <2> QED OBVIOUS
<1>3. \A s \in Kept("USER") : <<s, req[s].conv, req[s].by>> \in Asked BY DEF Asked
<1> QED BY <1>2, <1>3

LEMMA SameTranscripts ==
    ASSUME stored' = stored, owner' = owner, gone' = gone,
           \A r \in Request : <<r, "USER">> \in stored =>
               req'[r].conv = req[r].conv /\ req'[r].by = req[r].by
    PROVE  UNCHANGED T!vars
<1>1. Kept("USER")' = Kept("USER") /\ Kept("ASSISTANT")' = Kept("ASSISTANT") BY DEF Kept
<1>2. Asked' = Asked BY <1>1 DEF Asked, Kept
<1> QED BY <1>1, <1>2 DEF T!vars

\* Each step is a step of the transcripts, or none.
LEMMA StepSimulates ==
    ASSUME NEW r \in Request, IInv, Step(r), ChatAssumption
    PROVE  T!Next \/ UNCHANGED T!vars
<1>1. Known(r) /\ Types BY DEF IInv
<1>2. \A s \in Request \ {r} : req'[s] = req[s] BY StepTables
<1>3. req \in [Request -> ChatRequest] BY <1>1 DEF Types
<1>4. CASE SubmitAny(r)
    <2>1. <<r, "USER">> \notin stored BY <1>1, <1>4 DEF SubmitAny, Submit, Known, At, Storing
    <2>2. UNCHANGED tables BY <1>4 DEF SubmitAny, Submit
    <2> QED BY <1>2, <2>1, <2>2, SameTranscripts DEF tables
<1>5. CASE UNCHANGED tables /\ \E point : Goto(r, point)
    <2>1. req'[r].conv = req[r].conv /\ req'[r].by = req[r].by BY <1>3, <1>5, GotoKeeps
    <2> QED BY <1>2, <1>5, <2>1, SameTranscripts DEF tables
<1>6. CASE CreateConversation(r)
    <2>1. <<r, "USER">> \notin stored /\ req[r].by \in User
        BY <1>1, <1>6 DEF CreateConversation, Known, At, Storing
    <2>2. PICK c \in Conversation : owner[c] = NoUser /\ owner' = [owner EXCEPT ![c] = req[r].by]
        BY <1>6 DEF CreateConversation
    <2>3. stored' = stored /\ gone' = gone BY <1>6 DEF CreateConversation
    <2>4. Kept("USER")' = Kept("USER") /\ Kept("ASSISTANT")' = Kept("ASSISTANT") BY <2>3 DEF Kept
    <2>5. Asked' = Asked BY <1>2, <2>1, <2>4 DEF Asked, Kept
    <2>6. T!Open(c, req[r].by) BY <2>2, <2>3, <2>4, <2>5 DEF T!Open
    <2> QED BY <2>1, <2>6 DEF T!Next
<1>7. CASE StoreQuestion(r)
    <2>1. CASE UNCHANGED stored
        <3>1. \E point : Goto(r, point) BY <1>7 DEF StoreQuestion
        <3> QED BY <1>5, <1>7, <2>1, <3>1 DEF StoreQuestion, tables
    <2>2. CASE ~UNCHANGED stored
        <3>1. stored' = stored \cup {<<r, "USER">>} /\ Live(req[r].conv) /\ Goto(r, "asked")
            BY <1>7, <2>2 DEF StoreQuestion, Insertable
        <3>2. req'[r].conv = req[r].conv /\ req'[r].by = req[r].by BY <1>3, <3>1, GotoKeeps
        <3>3. <<r, "USER">> \notin stored BY <1>1, <1>7 DEF StoreQuestion, Known, At, Storing
        <3>4. req[r].conv \in Conversation /\ owner[req[r].conv] = req[r].by /\ req[r].by \in User
            BY <1>1, <1>7 DEF StoreQuestion, Known, At, Granted, Chatting
        <3>5. Kept("USER")' = Kept("USER") \cup {r} /\ Kept("ASSISTANT")' = Kept("ASSISTANT")
            BY <3>1 DEF Kept
        <3>6. \A s \in Kept("USER") \cup {r} :
                  req'[s].conv = req[s].conv /\ req'[s].by = req[s].by
            BY <1>2, <3>2 DEF Kept
        <3>7. Asked' = Asked \cup {<<r, req[r].conv, req[r].by>>} BY <3>5, <3>6 DEF Asked
        <3>8. \A a \in Asked : a[1] # r BY <3>3, AskedMembers DEF Kept
        <3>9. owner' = owner /\ gone' = gone BY <1>7 DEF StoreQuestion
        <3>10. T!Live(req[r].conv) BY <3>1 DEF Live, T!Live
        <3>11. T!Ask(r, req[r].conv, req[r].by)
            BY <3>4, <3>5, <3>7, <3>8, <3>9, <3>10 DEF T!Ask
        <3> QED BY <3>4, <3>11 DEF T!Next
    <2> QED BY <2>1, <2>2
<1>8. CASE StoreAnswer(r)
    <2>1. CASE UNCHANGED stored
        <3>1. \E point : Goto(r, point) BY <1>8 DEF StoreAnswer
        <3> QED BY <1>5, <1>8, <2>1, <3>1 DEF StoreAnswer, tables
    <2>2. CASE ~UNCHANGED stored
        <3>1. stored' = stored \cup {<<r, "ASSISTANT">>} /\ Live(req[r].conv) /\ Goto(r, "stored")
            BY <1>8, <2>2 DEF StoreAnswer, Insertable
        <3>2. req'[r].conv = req[r].conv /\ req'[r].by = req[r].by BY <1>3, <3>1, GotoKeeps
        <3>3. <<r, "USER">> \in stored /\ <<r, "ASSISTANT">> \notin stored
            BY <1>1, <1>8, <3>1 DEF StoreAnswer, Known, At, Storing
        <3>4. Kept("USER")' = Kept("USER") /\ Kept("ASSISTANT")' = Kept("ASSISTANT") \cup {r}
            BY <3>1 DEF Kept
        <3>5. \A s \in Kept("USER") : req'[s].conv = req[s].conv /\ req'[s].by = req[s].by
            BY <1>2, <3>2 DEF Kept
        <3>6. Asked' = Asked BY <3>4, <3>5 DEF Asked
        <3>7. <<r, req[r].conv, req[r].by>> \in Asked BY <3>3 DEF Asked, Kept
        <3>8. T!Live(req[r].conv) BY <3>1 DEF Live, T!Live
        <3>9. owner' = owner /\ gone' = gone BY <1>8 DEF StoreAnswer
        <3>10. r \notin Kept("ASSISTANT") BY <3>3 DEF Kept
        <3>11. \E a \in Asked : a[1] = r /\ T!Live(a[2]) BY <3>7, <3>8
        <3>12. T!Answer(r) BY <3>4, <3>6, <3>9, <3>10, <3>11 DEF T!Answer
        <3> QED BY <3>12 DEF T!Next
    <2> QED BY <2>1, <2>2
<1>9. CASE DeleteConversation(r)
    <2> DEFINE c == req[r].conv
    <2>1. Goto(r, "done") /\ owner' = owner /\ gone' = gone \cup {c} /\ stored' = stored \ MessagesOf(c)
        BY <1>9 DEF DeleteConversation
    <2>2. req'[r].conv = c /\ req'[r].by = req[r].by BY <1>3, <2>1, GotoKeeps
    <2>3. c \in Conversation /\ owner[c] # NoUser
        BY <1>1, <1>9 DEF DeleteConversation, Known, At, Granted, ChatAssumption
    <2>4. \A s \in Request : req'[s].conv = req[s].conv /\ req'[s].by = req[s].by
        BY <1>2, <2>2
    <2>5. \A s \in Request, role \in Role :
              <<s, role>> \in stored' <=> <<s, role>> \in stored /\ req[s].conv # c
        BY <2>1 DEF MessagesOf
    <2>6. CASE c \in gone
        <3>1. \A s \in Request, role \in Role : <<s, role>> \in stored => req[s].conv # c
            BY <2>6 DEF IInv, Known, Live, Role
        <3>2. stored' = stored BY <1>1, <2>1, <3>1 DEF MessagesOf, Types, Message
        <3> QED BY <2>1, <2>4, <2>6, <3>2, SameTranscripts
    <2>7. CASE c \notin gone
        <3>1. \A s \in Request :
                  /\ s \in Kept("USER")' <=> s \in Kept("USER") /\ req[s].conv # c
                  /\ s \in Kept("ASSISTANT")' <=> s \in Kept("ASSISTANT") /\ req[s].conv # c
            BY <2>5 DEF Kept, Role
        <3>2. Asked' = {a \in Asked : a[2] # c}
            <4> DEFINE Row(s) == <<s, req[s].conv, req[s].by>>
            <4>1. Kept("USER")' = {s \in Kept("USER") : req[s].conv # c} BY <3>1 DEF Kept
            <4>2. Asked' = {Row(s) : s \in Kept("USER")'} BY <2>4 DEF Asked, Kept
            <4>3. \A s \in Kept("USER") : Row(s) \in Asked /\ Row(s)[2] = req[s].conv
                BY AskedMembers
            <4>4. \A a \in Asked : a[1] \in Kept("USER") /\ a = Row(a[1]) /\ a[2] = req[a[1]].conv
                BY AskedMembers
            <4> HIDE DEF Row
            <4> QED BY <4>1, <4>2, <4>3, <4>4
        <3>3. \A s \in Request : s \in Kept("ASSISTANT") =>
                  (req[s].conv # c <=> \A a \in Asked : a[1] = s => a[2] # c)
            <4> SUFFICES ASSUME NEW s \in Request, s \in Kept("ASSISTANT")
                         PROVE  req[s].conv # c <=> \A a \in Asked : a[1] = s => a[2] # c
                OBVIOUS
            <4>1. s \in Kept("USER") BY DEF IInv, Known, Kept
            <4>2. <<s, req[s].conv, req[s].by>> \in Asked BY <4>1, AskedMembers
            <4>3. \A a \in Asked : a[2] = req[a[1]].conv BY AskedMembers
            <4> QED BY <4>2, <4>3
        <3>4. Kept("ASSISTANT")' = {q \in Kept("ASSISTANT") : \A a \in Asked : a[1] = q => a[2] # c}
            BY <3>1, <3>3 DEF Kept
        <3>5. T!Live(c) BY <2>3, <2>7 DEF T!Live
        <3>6. T!Forget(c) BY <2>1, <3>2, <3>4, <3>5 DEF T!Forget
        <3> QED BY <2>3, <3>6 DEF T!Next
    <2> QED BY <2>6, <2>7
<1> QED BY <1>4, <1>5, <1>6, <1>7, <1>8, <1>9 DEF Step, Serve, FindConversation, RefreshConversation,
        ReloadAfterQuestion, Retrieve, Generate, AnswerFails, Finish, ReadMessages, Break

\* Every behaviour of the endpoints is one of the transcripts.
THEOREM ChatImplementsTranscripts ==
    ASSUME ChatAssumption PROVE ChatSpec => ImplementsTranscripts
<1>1. ChatInit => T!Init
    BY DEF ChatInit, T!Init, Asked, Kept
<1>2. IInv /\ [ChatNext]_chatVars => [T!Next]_(T!vars)
    <2> SUFFICES ASSUME IInv, [ChatNext]_chatVars PROVE [T!Next]_(T!vars) OBVIOUS
    <2>1. CASE UNCHANGED chatVars BY <2>1, SameTranscripts DEF chatVars
    <2>2. CASE ChatNext BY <2>2, StepSimulates DEF ChatNext, Step
    <2> QED BY <2>1, <2>2
<1> QED BY <1>1, <1>2, IInvInvariant, PTL DEF ChatSpec, ImplementsTranscripts, T!Spec

-----------------------------------------------------------------------------
(* The page composed with the endpoints.                                   *)

PageInv ==
    /\ sending \in BOOLEAN /\ failed \in BOOLEAN
    /\ calls \subseteq Request
    /\ failed => ~sending
    /\ \A r \in calls : ~At(r, "idle") /\ req[r].by = Me
    /\ active # NoConversation => active \in Conversation /\ owner[active] = Me
    /\ OneQuestionAtATime

CInv == IInv /\ PageInv

-----------------------------------------------------------------------------
\* A call of the page is a submission, and leaves the other requests alone.
LEMMA CallSubmits ==
    ASSUME NEW r \in Request, NEW kind \in {"chat", "read", "delete"},
           NEW c \in Conversation \cup {NoConversation}, Call(r, kind, c), CInv,
           IF c = NoConversation THEN kind = "chat" ELSE owner[c] # NoUser,
           MeAssumption
    PROVE  /\ SubmitAny(r)
           /\ At(r, "idle") /\ ~At(r, "idle")' /\ req'[r].by = Me /\ req'[r].kind = kind
           /\ \A s \in Request \ {r} : req'[s] = req[s]
           /\ owner' = owner
           /\ calls' = calls \cup {r}
<1>1. req \in [Request -> ChatRequest] BY DEF CInv, IInv, Types
<1>2. Submit(r, kind, Me, c) /\ calls' = calls \cup {r} BY DEF Call
<1>3. SubmitAny(r) BY <1>2 DEF SubmitAny, MeAssumption
<1> QED BY <1>1, <1>2, <1>3 DEF Submit, At, tables

\* A question may be sent when none is under way.
LEMMA SendMessageStep ==
    ASSUME NEW r \in Request, SendMessage(r), ~sending, CInv, ChatAssumption, MeAssumption
    PROVE  SubmitAny(r) /\ PageInv'
<1>1. PageInv BY DEF CInv
<1>2. active \in Conversation \cup {NoConversation}
      /\ (active # NoConversation => owner[active] # NoUser)
    BY <1>1 DEF PageInv, ChatAssumption, MeAssumption
<1>3. Call(r, "chat", active) BY DEF SendMessage
<1>4. /\ SubmitAny(r)
      /\ At(r, "idle") /\ ~At(r, "idle")' /\ req'[r].by = Me /\ req'[r].kind = "chat"
      /\ \A s \in Request \ {r} : req'[s] = req[s]
      /\ owner' = owner
      /\ calls' = calls \cup {r}
    BY <1>2, <1>3, CallSubmits
<1>5. sending' = TRUE /\ failed' = FALSE /\ active' = active BY DEF SendMessage
<1>6. \A s \in calls : s # r /\ s \in Request BY <1>1, <1>4 DEF PageInv
<1>7. \A s \in calls : req[s].kind # "chat" BY <1>1 DEF PageInv, OneQuestionAtATime
<1>8. OneQuestionAtATime' BY <1>4, <1>5, <1>6, <1>7 DEF OneQuestionAtATime
<1> QED BY <1>1, <1>4, <1>5, <1>6, <1>8 DEF PageInv, At

\* The other calls of the page.
LEMMA OtherCallStep ==
    ASSUME NEW r \in Request, LoadConversation(r) \/ RemoveConversation(r),
           CInv, ChatAssumption, MeAssumption
    PROVE  SubmitAny(r) /\ PageInv'
<1>1. PageInv BY DEF CInv
<1>2. PICK c \in Offered, kind \in {"read", "delete"} :
        Call(r, kind, c) /\ (active' = active \/ active' = c)
    BY DEF LoadConversation, RemoveConversation
<1>3. c \in Conversation /\ owner[c] = Me /\ owner[c] # NoUser /\ c # NoConversation
    BY DEF Offered, ChatAssumption, MeAssumption
<1>4. /\ SubmitAny(r)
      /\ At(r, "idle") /\ ~At(r, "idle")' /\ req'[r].by = Me /\ req'[r].kind = kind
      /\ \A s \in Request \ {r} : req'[s] = req[s]
      /\ owner' = owner
      /\ calls' = calls \cup {r}
    BY <1>2, <1>3, CallSubmits
<1>5. sending' = sending /\ failed' = failed BY DEF LoadConversation, RemoveConversation
<1>6. \A s \in calls : s # r /\ s \in Request BY <1>1, <1>4 DEF PageInv
<1>7. OneQuestionAtATime' BY <1>1, <1>4, <1>5, <1>6 DEF PageInv, OneQuestionAtATime
<1> QED BY <1>1, <1>2, <1>3, <1>4, <1>5, <1>6, <1>7 DEF PageInv, At

\* An answer: the page drops the call, and ends its sending with a question's.
LEMMA ReceiveStep ==
    ASSUME NEW r \in Request, Receive(r), CInv, ChatAssumption, MeAssumption
    PROVE  UNCHANGED chatVars /\ PageInv'
<1>1. PageInv /\ Known(r) BY DEF CInv, IInv
<1>2. r \in calls /\ calls' = calls \ {r} /\ UNCHANGED chatVars
    BY DEF Receive, ReceiveAnswer, ReceiveMessages, ReceiveDeletion, ReceiveError, Over
<1>3. req' = req /\ owner' = owner BY <1>2 DEF chatVars
<1>4. \/ req[r].kind = "chat" /\ sending' = FALSE
      \/ req[r].kind # "chat" /\ sending' = sending
    BY <1>1 DEF Receive, ReceiveAnswer, ReceiveMessages, ReceiveDeletion, ReceiveError, EndSending, PageInv
<1>5. failed' \in BOOLEAN /\ (failed' => ~sending')
    <2>1. failed \in BOOLEAN /\ (failed => ~sending) BY <1>1 DEF PageInv
    <2>2. \/ failed' = failed
          \/ failed' = FALSE
          \/ req[r].kind = "chat" /\ failed' = TRUE
        <3>1. CASE ReceiveAnswer(r) \/ ReceiveMessages(r) BY <3>1 DEF ReceiveAnswer, ReceiveMessages
        <3>2. CASE ReceiveDeletion(r) BY <3>2 DEF ReceiveDeletion, Cleared
        <3>3. CASE ReceiveError(r)
            <4>1. failed' = (failed \/ req[r].kind = "chat") BY <3>3 DEF ReceiveError
            <4> QED BY <2>1, <4>1
        <3> QED BY <3>1, <3>2, <3>3 DEF Receive
    <2>3. CASE failed' = failed
        <3>1. CASE failed = FALSE BY <2>3, <3>1, Zenon
        <3>2. CASE failed = TRUE
            <4>1. ~sending' BY <1>4, <2>1, <3>2, Zenon
            <4> QED BY <2>3, <3>2, <4>1, Zenon
        <3> QED BY <2>1, <3>1, <3>2
    <2>4. CASE failed' = FALSE BY <2>4, Zenon
    <2>5. CASE req[r].kind = "chat" /\ failed' = TRUE BY <1>4, <2>5, Zenon
    <2> QED BY <2>2, <2>3, <2>4, <2>5
<1>6. active' # NoConversation => active' \in Conversation /\ owner'[active'] = Me
    <2>1. CASE active' = active \/ active' = NoConversation BY <1>1, <1>3, <2>1 DEF PageInv
    <2>2. CASE ReceiveAnswer(r)
        <3>1. active' = req[r].conv /\ At(r, "done") BY <2>2 DEF ReceiveAnswer
        <3>2. req[r].conv \in Conversation /\ owner[req[r].conv] = Me
            BY <1>1, <1>2, <3>1 DEF Known, PageInv, Granted, At
        <3> QED BY <1>3, <3>1, <3>2
    <2> QED BY <2>1, <2>2 DEF Receive, ReceiveMessages, ReceiveDeletion, ReceiveError, Cleared
<1>7. OneQuestionAtATime' BY <1>1, <1>2, <1>3, <1>4 DEF PageInv, OneQuestionAtATime
<1> QED BY <1>1, <1>2, <1>3, <1>4, <1>5, <1>6, <1>7 DEF PageInv, At

\* The server, and other clients, while the page waits.
LEMMA ServerSideStep ==
    ASSUME NEW r \in Request, ServerStep(r) \/ Elsewhere(r), CInv, ChatAssumption, MeAssumption
    PROVE  Step(r) /\ PageInv'
<1>1. PageInv /\ IInv /\ Types BY DEF CInv, IInv
<1>2. Step(r) BY DEF Step, ServerStep, Elsewhere
<1>3. req \in [Request -> ChatRequest] BY <1>1 DEF Types
<1>4. UNCHANGED <<active, sending, failed, calls>> BY DEF ServerStep, Elsewhere, pageVars
<1>5. \A s \in Request \ {r} : req'[s] = req[s] BY <1>1, <1>2, StepTables
<1>6. \A c \in Conversation : owner[c] # NoUser => owner'[c] = owner[c] BY <1>1, <1>2, StepTables
<1>7. r \in calls => req'[r].kind = req[r].kind /\ req'[r].by = req[r].by /\ ~At(r, "idle")'
    <2>1. CASE Elsewhere(r)
        BY <1>1, <2>1 DEF Elsewhere, SubmitAny, Submit, PageInv
    <2>2. CASE CreateConversation(r) BY <1>3, <2>2 DEF CreateConversation, ChatRequest, At
    <2>3. CASE ServerStep(r) /\ ~CreateConversation(r)
        <3>1. \E point : point # "idle" /\ Goto(r, point)
            BY <2>3 DEF ServerStep, Serve, FindConversation, RefreshConversation, StoreQuestion,
                ReloadAfterQuestion, Retrieve, Generate, AnswerFails, StoreAnswer, Finish,
                ReadMessages, DeleteConversation, Break
        <3> QED BY <1>3, <3>1, GotoKeeps DEF At
    <2> QED BY <2>1, <2>2, <2>3
<1>8. OneQuestionAtATime' BY <1>1, <1>4, <1>5, <1>7 DEF PageInv, OneQuestionAtATime
<1>9. \A s \in calls : ~At(s, "idle")' /\ req'[s].by = Me BY <1>1, <1>5, <1>7 DEF PageInv, At
<1>10. active # NoConversation => active \in Conversation /\ owner'[active] = Me
    BY <1>1, <1>6 DEF PageInv, ChatAssumption, MeAssumption
<1> QED BY <1>1, <1>2, <1>4, <1>8, <1>9, <1>10 DEF PageInv

LEMMA PageStep ==
    ASSUME CInv, [Next]_vars, ChatAssumption, MeAssumption
    PROVE  [ChatNext]_chatVars /\ PageInv'
<1>1. PageInv BY DEF CInv
<1>2. CASE UNCHANGED vars
    BY <1>1, <1>2 DEF vars, chatVars, pageVars, PageInv, OneQuestionAtATime, At
<1>3. CASE StartNewConversation
    BY <1>1, <1>3 DEF StartNewConversation, Cleared, chatVars, PageInv, OneQuestionAtATime, At
<1>4. ASSUME NEW r \in Request, Send(r) \/ Retry(r)
      PROVE  [ChatNext]_chatVars /\ PageInv'
    <2>1. ~sending /\ SendMessage(r) BY <1>1, <1>4 DEF Send, Retry, PageInv
    <2> QED BY <2>1, SendMessageStep DEF ChatNext
<1>5. ASSUME NEW r \in Request, LoadConversation(r) \/ RemoveConversation(r)
      PROVE  [ChatNext]_chatVars /\ PageInv'
    BY <1>5, OtherCallStep DEF ChatNext
<1>6. ASSUME NEW r \in Request, Receive(r)
      PROVE  [ChatNext]_chatVars /\ PageInv'
    BY <1>6, ReceiveStep
<1>7. ASSUME NEW r \in Request, ServerStep(r) \/ Elsewhere(r)
      PROVE  [ChatNext]_chatVars /\ PageInv'
    BY <1>7, ServerSideStep DEF ChatNext, Step
<1> QED BY <1>2, <1>3, <1>4, <1>5, <1>6, <1>7 DEF Next

LEMMA CInvInvariant ==
    ASSUME ChatAssumption, MeAssumption
    PROVE  Spec => [](CInv)
<1>1. Init => CInv
    BY IInvInit DEF Init, PageInit, CInv, PageInv, OneQuestionAtATime
<1>2. CInv /\ [Next]_vars => CInv'
    BY PageStep, IInvStep DEF CInv
<1> QED BY <1>1, <1>2, PTL DEF Spec

\* To the server the page is a client like any other, so whatever holds of the
\* endpoints (AnswersFollow, AnswersKept, ChatImplementsTranscripts) holds while
\* the page uses them.
THEOREM PageUsesEndpoints ==
    ASSUME ChatAssumption, MeAssumption
    PROVE  Spec => ChatSpec
<1>1. CInv /\ [Next]_vars => [ChatNext]_chatVars BY PageStep
<1>2. Init => ChatInit BY DEF Init
<1> QED BY <1>1, <1>2, CInvInvariant, PTL DEF Spec, ChatSpec

\* The page never has two questions under way, and says so truly.
THEOREM PageAsksOneQuestion ==
    ASSUME ChatAssumption, MeAssumption
    PROVE  Spec => []OneQuestionAtATime
<1>1. CInv => OneQuestionAtATime BY DEF CInv, PageInv
<1> QED BY <1>1, CInvInvariant, PTL

-----------------------------------------------------------------------------
(* What the page shows, and what is stored.                                *)

\* The messages of c among rows, when the requests are rs.
Of(rows, rs, c) == {m \in rows : rs[m[1]].conv = c}

\* list has the messages in S by time, except some pending ones, and besides
\* them only questions.
Agrees(list, S, time, pending) ==
    /\ \A i \in DOMAIN list : list[i] \in S \/ list[i][2] = "USER"
    /\ \A i, j \in DOMAIN list : i < j /\ list[i] \in S /\ list[j] \in S => time[list[i]] < time[list[j]]
    /\ \A m \in S \ pending : \E i \in DOMAIN list : list[i] = m

Questions(list) == \A i \in DOMAIN list : list[i][2] = "USER"

LEMMA AgreesOnSame ==
    ASSUME NEW list, NEW S, NEW time, NEW other, NEW P, Agrees(list, S, time, P),
           \A m \in S : other[m] = time[m]
    PROVE  Agrees(list, S, other, P)
BY DEF Agrees

LEMMA AgreesWithNone ==
    ASSUME NEW list, NEW time, NEW P
    PROVE  Agrees(list, {}, time, P) <=> Questions(list)
BY DEF Agrees, Questions

LEMMA AgreesWithoutPending ==
    ASSUME NEW list, NEW S, NEW time, NEW m, m \notin S, Agrees(list, S, time, {m})
    PROVE  Agrees(list, S, time, {})
BY DEF Agrees

LEMMA AgreesWithMore ==
    ASSUME NEW list, NEW S, NEW time, NEW P, Agrees(list, S, time, {})
    PROVE  Agrees(list, S, time, P)
BY DEF Agrees

\* Sending: a question is shown that is not stored.
LEMMA AgreesSent ==
    ASSUME NEW M, NEW list \in Seq(M), NEW S, NEW time, NEW P, Agrees(list, S, time, P),
           NEW m \in M, m \notin S, m[2] = "USER"
    PROVE  Agrees(Append(list, m), S, time, P)
<1> DEFINE new == Append(list, m)
<1>1. /\ Len(list) \in Nat /\ DOMAIN list = 1..Len(list)
      /\ DOMAIN new = 1..(Len(list) + 1)
      /\ new[Len(list) + 1] = m
      /\ \A i \in 1..Len(list) : new[i] = list[i]
    OBVIOUS
<1> HIDE DEF new
<1> QED BY <1>1 DEF Agrees

\* The question that is shown last is stored, and is the newest.
LEMMA AgreesStored ==
    ASSUME NEW M, NEW list \in Seq(M), NEW S, NEW time, NEW P, Agrees(list, S, time, P),
           NEW m, list # <<>>, list[Len(list)] = m, \A i \in DOMAIN list : list[i] = m => i = Len(list),
           \A n \in S : time[n] < time[m]
    PROVE  Agrees(list, S \cup {m}, time, P)
<1>1. Len(list) \in Nat \ {0} /\ DOMAIN list = 1..Len(list) OBVIOUS
<1> QED BY <1>1 DEF Agrees

\* The answer is stored, and is not shown.
LEMMA AgreesAnswered ==
    ASSUME NEW list, NEW S, NEW time, NEW m, Agrees(list, S, time, {m}),
           \A i \in DOMAIN list : list[i] # m
    PROVE  Agrees(list, S \cup {m}, time, {m})
BY DEF Agrees

\* It is shown, and is the newest.
LEMMA AgreesReceived ==
    ASSUME NEW M, NEW list \in Seq(M), NEW S, NEW time, NEW m \in S, Agrees(list, S, time, {m}),
           m \in M, \A i \in DOMAIN list : list[i] # m,
           \A n \in S \ {m} : time[n] < time[m]
    PROVE  Agrees(Append(list, m), S, time, {})
<1> DEFINE new == Append(list, m)
<1>1. /\ Len(list) \in Nat /\ DOMAIN list = 1..Len(list)
      /\ DOMAIN new = 1..(Len(list) + 1)
      /\ new[Len(list) + 1] = m
      /\ \A i \in 1..Len(list) : new[i] = list[i]
    OBVIOUS
<1> HIDE DEF new
<1>2. \A i \in DOMAIN new : new[i] \in S \/ new[i][2] = "USER" BY <1>1 DEF Agrees
<1>3. \A n \in S : \E i \in DOMAIN new : new[i] = n
    <2> TAKE n \in S
    <2>1. CASE n = m BY <1>1, <2>1
    <2>2. CASE n # m BY <1>1, <2>2 DEF Agrees
    <2> QED BY <2>1, <2>2
<1>4. ASSUME NEW i \in DOMAIN new, NEW j \in DOMAIN new, i < j, new[i] \in S, new[j] \in S
      PROVE  time[new[i]] < time[new[j]]
    <2>1. i \in 1..Len(list) /\ new[i] = list[i] /\ new[i] # m BY <1>1, <1>4
    <2>2. CASE j \in 1..Len(list) BY <1>1, <1>4, <2>1, <2>2 DEF Agrees
    <2>3. CASE j = Len(list) + 1 BY <1>1, <1>4, <2>1, <2>3
    <2> QED BY <1>1, <2>2, <2>3
<1> QED BY <1>2, <1>3, <1>4 DEF Agrees, new

\* A listing agrees.
LEMMA AgreesListed ==
    ASSUME NEW S, NEW time, Distinct(S, time), NEW b \in Nat, \A x \in S : time[x] <= b
    PROVE  Agrees(InOrder(S, time), S, time, {})
<1>1. IsFiniteSet(S) /\ ByTime(InOrder(S, time), S, time) BY Listed
<1>2. \A x \in S : \E i \in 1..Cardinality(S) : InOrder(S, time)[i] = x
    BY <1>1, ListsAll DEF Distinct
<1>3. DOMAIN InOrder(S, time) = 1..Cardinality(S)
      /\ \A i \in 1..Cardinality(S) : InOrder(S, time)[i] \in S
    BY <1>1 DEF ByTime
<1> QED BY <1>1, <1>2, <1>3 DEF Agrees, ByTime

-----------------------------------------------------------------------------
\* What is known of the times of messages and of the lists that are read.
Times ==
    /\ \A m, n \in Message : stamp[m] = stamp[n] => m = n \/ stamp[m] = 0
    /\ \A m \in stored : stamp[m] > 0
    /\ \A r \in Request : req[r].at \in {"found"} \cup Storing => stamp[<<r, "USER">>] > 0
    /\ \A r \in Request : At(r, "idle") => req[r].by = NoUser
    /\ reply \in [Request -> Seq(Message)]

\* The messages of a conversation have times that differ, so they can be listed.
LEMMA MessageTimes ==
    ASSUME IInv, Times, NEW S \in SUBSET stored
    PROVE  /\ Distinct(S, stamp) /\ now \in Nat /\ \A m \in S : stamp[m] <= now
           /\ InOrder(S, stamp) \in Seq(Message)
<1>1. Types /\ S \subseteq Message BY DEF IInv, Types
<1>2. \A m \in S : stamp[m] \in Nat /\ stamp[m] > 0 /\ stamp[m] <= now
    BY <1>1 DEF IInv, Types, Clock, Times
<1>3. \A m, n \in S : stamp[m] = stamp[n] => m = n BY <1>1, <1>2 DEF Times
<1>4. Distinct(S, stamp) BY <1>2, <1>3 DEF Distinct
<1>5. now \in Nat BY <1>1 DEF Types
<1>6. InOrder(S, stamp) \in Seq(S) BY <1>2, <1>4, <1>5, Listed
<1> QED BY <1>1, <1>2, <1>4, <1>5, <1>6

\* A step gives no time but to the message its request stores next, and that
\* time is the newest.
LEMMA StepClock ==
    ASSUME NEW r \in Request, Step(r), req \in [Request -> ChatRequest]
    PROVE  \/ UNCHANGED <<stamp, now>> /\ req'[r].at # "found"
           \/ /\ Begin(<<r, "USER">>) /\ Goto(r, "found")
              /\ At(r, "sent") \/ At(r, "created")
              /\ Live(req[r].conv) /\ UNCHANGED tables
           \/ Begin(<<r, "ASSISTANT">>) /\ Goto(r, "answering") /\ At(r, "asked") /\ UNCHANGED tables
<1>1. CASE FindConversation(r)
    <2>1. CASE Owned(req[r].conv, req[r].by) /\ req[r].kind = "chat"
        BY <1>1, <2>1 DEF FindConversation, Owned
    <2>2. CASE ~(Owned(req[r].conv, req[r].by) /\ req[r].kind = "chat")
        <3>1. /\ UNCHANGED <<stamp, now>>
              /\ Goto(r, "failed") \/ Goto(r, "reading") \/ Goto(r, "deleting")
            BY <1>1, <2>2 DEF FindConversation
        <3> QED BY <3>1, GotoKeeps
    <2> QED BY <2>1, <2>2
<1>2. CASE RefreshConversation(r)
    <2>1. CASE Live(req[r].conv) BY <1>2, <2>1 DEF RefreshConversation
    <2>2. CASE ~Live(req[r].conv) BY <1>2, <2>2, GotoKeeps DEF RefreshConversation
    <2> QED BY <2>1, <2>2
<1>3. CASE ReloadAfterQuestion(r)
    <2>1. CASE Live(req[r].conv) BY <1>3, <2>1 DEF ReloadAfterQuestion
    <2>2. CASE ~Live(req[r].conv) BY <1>3, <2>2, GotoKeeps DEF ReloadAfterQuestion
    <2> QED BY <2>1, <2>2
<1>4. CASE SubmitAny(r)
    <2>1. req'[r].at = "sent" BY <1>4 DEF SubmitAny, Submit
    <2> QED BY <1>4, <2>1 DEF SubmitAny, Submit
<1>5. CASE CreateConversation(r)
    <2>1. req'[r].at = "created" BY <1>5 DEF CreateConversation, ChatRequest
    <2> QED BY <1>5, <2>1 DEF CreateConversation
<1>6. CASE StoreQuestion(r) \/ StoreAnswer(r) BY <1>6, GotoKeeps DEF StoreQuestion, StoreAnswer
<1>7. CASE Retrieve(r) \/ Generate(r) \/ AnswerFails(r) \/ Finish(r) \/ Break(r) \/ ReadMessages(r)
           \/ DeleteConversation(r)
    BY <1>7, GotoKeeps DEF Retrieve, Generate, AnswerFails, Finish, Break, ReadMessages,
       DeleteConversation
<1> QED BY <1>1, <1>2, <1>3, <1>4, <1>5, <1>6, <1>7 DEF Step, Serve

\* What a step adds to the messages.
LEMMA StepStored ==
    ASSUME NEW r \in Request, Step(r), IInv
    PROVE  \/ stored' \subseteq stored
           \/ /\ StoreQuestion(r) /\ At(r, "found") /\ Live(req[r].conv)
              /\ stored' = stored \cup {<<r, "USER">>} /\ Goto(r, "asked")
           \/ /\ StoreAnswer(r) /\ At(r, "answered") /\ Live(req[r].conv)
              /\ stored' = stored \cup {<<r, "ASSISTANT">>} /\ Goto(r, "stored")
BY DEF Step, SubmitAny, Submit, Serve, FindConversation, CreateConversation,
        RefreshConversation, StoreQuestion, ReloadAfterQuestion, Retrieve, Generate, AnswerFails,
        StoreAnswer, Finish, ReadMessages, DeleteConversation, Break, tables, Insertable

LEMMA TimesStep ==
    ASSUME NEW r \in Request, Step(r), IInv, IInv', Times, ChatAssumption
    PROVE  Times'
<1>1. Types /\ Types' /\ Known(r) /\ Clock BY DEF IInv
<1>2. req \in [Request -> ChatRequest] /\ stamp \in [Message -> Nat] /\ now \in Nat
      /\ stamp' \in [Message -> Nat] /\ stored \subseteq Message
    BY <1>1 DEF Types
<1>3. \A s \in Request \ {r} : req'[s] = req[s] BY StepTables
<1>4. <<r, "USER">> \in Message /\ <<r, "ASSISTANT">> \in Message
      /\ <<r, "USER">> # <<r, "ASSISTANT">>
    BY DEF Message, Role
<1>5. /\ \A m, n \in Message : stamp'[m] = stamp'[n] => m = n \/ stamp'[m] = 0
      /\ \A m \in Message : stamp[m] > 0 => stamp'[m] > 0
    <2>1. CASE UNCHANGED <<stamp, now>> BY <2>1 DEF Times
    <2>2. ASSUME NEW m \in Message, Begin(m)
          PROVE  /\ \A n, k \in Message : stamp'[n] = stamp'[k] => n = k \/ stamp'[n] = 0
                 /\ \A n \in Message : stamp[n] > 0 => stamp'[n] > 0
        <3>1. \A n \in Message : stamp'[n] = IF n = m THEN now + 1 ELSE stamp[n]
            BY <1>2, <2>2 DEF Begin
        <3>2. \A n \in Message : stamp[n] \in Nat /\ stamp[n] < now + 1 BY <1>1, <1>2 DEF Clock
        <3> QED BY <1>2, <3>1, <3>2 DEF Times
    <2> QED BY <1>2, <1>4, <2>1, <2>2, StepClock
<1>6. \A s \in Request : req'[s].at \in {"found"} \cup Storing => stamp'[<<s, "USER">>] > 0
    <2>1. \A s \in Request : <<s, "USER">> \in Message BY DEF Message, Role
    <2>2. \A s \in Request \ {r} : req'[s].at \in {"found"} \cup Storing => stamp'[<<s, "USER">>] > 0
        BY <1>3, <1>5, <2>1 DEF Times
    <2>3. CASE Begin(<<r, "USER">>)
        <3>1. stamp'[<<r, "USER">>] = now + 1 BY <1>2, <1>4, <2>3 DEF Begin
        <3>2. stamp'[<<r, "USER">>] > 0 BY <1>2, <3>1
        <3> QED BY <2>2, <3>2, Zenon
    <2>4. CASE ~Begin(<<r, "USER">>)
        <3>1. req'[r].at # "found"
            <4>1. CASE Goto(r, "answering") BY <1>2, <4>1, GotoKeeps
            <4> QED BY <1>2, <2>4, <4>1, StepClock
        <3>2. req'[r].at \in Storing => req[r].at \in {"found"} \cup Storing
            <4>1. CASE SubmitAny(r)
                <5>1. req'[r].at = "sent" BY <1>2, <4>1 DEF SubmitAny, Submit
                <5> QED BY <5>1 DEF Storing
            <4>2. CASE CreateConversation(r)
                <5>1. req'[r].at = "created" BY <1>2, <4>2 DEF CreateConversation, ChatRequest
                <5> QED BY <5>1 DEF Storing
            <4>3. CASE FindConversation(r) \/ RefreshConversation(r) \/ Break(r) \/ AnswerFails(r)
                       \/ ReadMessages(r) \/ DeleteConversation(r) \/ Finish(r)
                <5>1. \E p \in {"failed", "found", "reading", "deleting", "done"} : Goto(r, p)
                    BY <4>3 DEF FindConversation, RefreshConversation, Break, AnswerFails,
                                ReadMessages, DeleteConversation, Finish
                <5> QED BY <1>2, <5>1, GotoKeeps DEF Storing
            <4>4. CASE StoreQuestion(r) \/ ReloadAfterQuestion(r) \/ Retrieve(r) \/ Generate(r)
                       \/ StoreAnswer(r)
                BY <4>4 DEF StoreQuestion, ReloadAfterQuestion, Retrieve, Generate,
                            StoreAnswer, At, Storing
            <4> QED BY <4>1, <4>2, <4>3, <4>4 DEF Step, Serve
        <3> QED BY <1>4, <1>5, <2>2, <3>1, <3>2 DEF Times
    <2> QED BY <2>3, <2>4
<1>7. \A m \in stored' : stamp'[m] > 0
    <2>1. CASE stored' \subseteq stored BY <1>2, <1>5, <2>1 DEF Times
    <2>2. CASE At(r, "found") /\ stored' = stored \cup {<<r, "USER">>}
        BY <1>2, <1>4, <1>5, <2>2 DEF Times, At
    <2>3. CASE At(r, "answered") /\ stored' = stored \cup {<<r, "ASSISTANT">>}
        <3>1. stamp[<<r, "USER">>] < stamp[<<r, "ASSISTANT">>] BY <1>1, <2>3 DEF Known, At
        <3>2. stamp[<<r, "ASSISTANT">>] > 0 BY <1>2, <1>4, <3>1
        <3> QED BY <1>2, <1>4, <1>5, <2>3, <3>2 DEF Times
    <2> QED BY <2>1, <2>2, <2>3, StepStored
<1>8. reply' \in [Request -> Seq(Message)]
    <2>1. CASE ReadMessages(r)
        <3>1. MessagesOf(req[r].conv) \in SUBSET stored BY DEF MessagesOf
        <3>2. Listing(req[r].conv) \in Seq(Message) BY <3>1, MessageTimes DEF Listing
        <3>3. reply' = [reply EXCEPT ![r] = Listing(req[r].conv)] BY <2>1 DEF ReadMessages
        <3> QED BY <3>2, <3>3 DEF Times
    <2>2. CASE reply' = reply BY <2>2 DEF Times
    <2> QED BY <2>1, <2>2 DEF Step, SubmitAny, Submit, Serve, FindConversation, CreateConversation,
        RefreshConversation, StoreQuestion, ReloadAfterQuestion, Retrieve, Generate, AnswerFails,
        StoreAnswer, Finish, DeleteConversation, Break
<1>9. \A s \in Request : At(s, "idle")' => req'[s].by = NoUser
    <2>1. \A s \in Request \ {r} : At(s, "idle")' => req'[s].by = NoUser
        BY <1>3 DEF Times, At
    <2>2. ~At(r, "idle")'
        <3>1. CASE SubmitAny(r) BY <1>2, <3>1 DEF SubmitAny, Submit, At
        <3>2. CASE CreateConversation(r)
            BY <1>2, <3>2 DEF CreateConversation, ChatRequest, At
        <3>3. CASE Serve(r) /\ ~CreateConversation(r)
            <4>1. \E point : point # "idle" /\ Goto(r, point)
                BY <3>3 DEF Serve, FindConversation, RefreshConversation, StoreQuestion,
                    ReloadAfterQuestion, Retrieve, Generate, AnswerFails, StoreAnswer, Finish,
                    ReadMessages, DeleteConversation, Break
            <4> QED BY <1>2, <4>1, GotoKeeps DEF At
        <3> QED BY <3>1, <3>2, <3>3 DEF Step
    <2> QED BY <2>1, <2>2
<1> QED BY <1>5, <1>6, <1>7, <1>8, <1>9 DEF Times

\* Every answer to a reading request lists messages.
LEMMA TimesInvariant ==
    ASSUME ChatAssumption PROVE ChatSpec => []Times
<1>1. ChatInit => Times
    BY DEF ChatInit, Times, Message, Storing, NoRequest
<1>2. IInv /\ IInv' /\ Times /\ [ChatNext]_chatVars => Times'
    <2>1. CASE UNCHANGED chatVars BY <2>1 DEF chatVars, Times, At
    <2>2. CASE ChatNext BY <2>2, TimesStep DEF ChatNext, Step
    <2> QED BY <2>1, <2>2
<1> QED BY <1>1, <1>2, IInvInvariant, PTL DEF ChatSpec

-----------------------------------------------------------------------------
\* What a step leaves of the conversations.

\* c is there, or is the one that is yet to be opened.
Current(owners, deleted, c) ==
    c = NoConversation \/ (c \in Conversation /\ owners[c] # NoUser /\ c \notin deleted)

\* Messages are in conversations that exist.
LEMMA MessageKnown ==
    ASSUME IInv, NEW m \in stored
    PROVE  /\ m[1] \in Request /\ m[2] \in Role /\ m = <<m[1], m[2]>>
           /\ req[m[1]].at \in Storing \cup {"done", "failed"}
           /\ Live(req[m[1]].conv) /\ owner[req[m[1]].conv] = req[m[1]].by
<1>1. m \in Message BY DEF IInv, Types
<1>2. m[1] \in Request /\ m[2] \in Role /\ m = <<m[1], m[2]>> BY <1>1 DEF Message
<1>3. Known(m[1]) BY <1>2 DEF IInv
<1>4. <<m[1], "USER">> \in stored BY <1>2, <1>3 DEF Known, Role
<1> QED BY <1>2, <1>3, <1>4 DEF Known

LEMMA NoneOf ==
    ASSUME IInv, ChatAssumption, NEW c, c \in Conversation => owner[c] = NoUser
    PROVE  Of(stored, req, c) = {}
BY MessageKnown DEF Of, Live

LEMMA StampsKeep ==
    ASSUME IInv, NEW r \in Request, Step(r), NEW m \in stored
    PROVE  stamp'[m] = stamp[m]
<1>1. Types /\ Known(r) /\ m \in Message BY DEF IInv, Types
<1>2. req \in [Request -> ChatRequest] /\ stamp \in [Message -> Nat] BY <1>1 DEF Types
<1>3. CASE UNCHANGED <<stamp, now>> BY <1>3
<1>4. CASE Begin(<<r, "USER">>) /\ (At(r, "sent") \/ At(r, "created"))
    <2>1. m # <<r, "USER">> BY <1>1, <1>4 DEF Known, Storing, At
    <2> QED BY <1>1, <1>2, <1>4, <2>1 DEF Begin
<1>5. CASE Begin(<<r, "ASSISTANT">>) /\ At(r, "asked")
    <2>1. m # <<r, "ASSISTANT">> BY <1>1, <1>5 DEF Known, At
    <2> QED BY <1>1, <1>2, <1>5, <2>1 DEF Begin
<1> QED BY <1>2, <1>3, <1>4, <1>5, StepClock

\* How a step changes its own request.
LEMMA StepOwn ==
    ASSUME NEW r \in Request, Step(r), req \in [Request -> ChatRequest]
    PROVE  \/ SubmitAny(r) /\ At(r, "idle") /\ UNCHANGED tables
           \/ CreateConversation(r) /\ At(r, "sent") /\ req'[r].at = "created"
           \/ /\ Serve(r) /\ ~CreateConversation(r) /\ owner' = owner
              /\ req[r].at \notin {"idle", "done", "failed"} /\ req'[r].at # "idle"
              /\ req'[r].conv = req[r].conv /\ req'[r].by = req[r].by /\ req'[r].kind = req[r].kind
<1>1. CASE SubmitAny(r) BY <1>1 DEF SubmitAny, Submit
<1>2. CASE CreateConversation(r) BY <1>2 DEF CreateConversation, ChatRequest
<1>3. CASE Serve(r) /\ ~CreateConversation(r)
    <2>1. /\ owner' = owner /\ req[r].at \notin {"idle", "done", "failed"}
          /\ \E point : point # "idle" /\ Goto(r, point)
        BY <1>3 DEF Serve, FindConversation, RefreshConversation, StoreQuestion, tables, At,
            ReloadAfterQuestion, Retrieve, Generate, AnswerFails, StoreAnswer, Finish,
            ReadMessages, DeleteConversation, Break
    <2> QED BY <1>3, <2>1, GotoKeeps
<1> QED BY <1>1, <1>2, <1>3 DEF Step

LEMMA OfKeeps ==
    ASSUME IInv, NEW r \in Request, Step(r), NEW c, stored' = stored \/ req[r].conv # c
    PROVE  Of(stored', req', c) = Of(stored, req, c)
<1>1. Types /\ Known(r) BY DEF IInv
<1>2. req \in [Request -> ChatRequest] BY <1>1 DEF Types
<1>3. \A s \in Request \ {r} : req'[s] = req[s] BY StepTables
<1>4. \A m \in stored : m[1] \in Request /\ m = <<m[1], m[2]>> BY MessageKnown
<1>5. CASE stored' = stored
    <2>1. CASE req'[r].conv = req[r].conv
        <3>1. \A m \in stored : req'[m[1]].conv = req[m[1]].conv BY <1>3, <1>4, <2>1
        <3> QED BY <1>5, <3>1 DEF Of
    <2>2. CASE At(r, "idle") \/ At(r, "sent")
        <3>1. \A m \in stored : m[1] # r BY <2>2, MessageKnown DEF At, Storing
        <3>2. \A m \in stored : req'[m[1]].conv = req[m[1]].conv BY <1>3, <1>4, <3>1
        <3> QED BY <1>5, <3>2 DEF Of
    <2> QED BY <1>2, <2>1, <2>2, StepOwn
<1>6. CASE stored' # stored
    <2>1. req[r].conv # c BY <1>6
    <2>2. CASE DeleteConversation(r)
        <3>1. stored' = stored \ {m \in stored : req[m[1]].conv = req[r].conv} /\ req'[r].conv = req[r].conv
            BY <1>2, <2>2, GotoKeeps DEF DeleteConversation, MessagesOf
        <3>2. \A m \in stored : req'[m[1]].conv = req[m[1]].conv BY <1>3, <1>4, <3>1
        <3> QED BY <2>1, <3>1, <3>2 DEF Of
    <2>3. ASSUME NEW role, stored' = stored \cup {<<r, role>>}, req'[r].conv = req[r].conv
          PROVE  Of(stored', req', c) = Of(stored, req, c)
        <3>1. \A m \in stored : req'[m[1]].conv = req[m[1]].conv BY <1>3, <1>4, <2>3
        <3> QED BY <2>1, <2>3, <3>1 DEF Of
    <2>4. CASE StoreQuestion(r) \/ StoreAnswer(r)
        <3>1. req'[r].conv = req[r].conv BY <1>2, <2>4, GotoKeeps DEF StoreQuestion, StoreAnswer
        <3>2. \E role : stored' = stored \cup {<<r, role>>} BY <1>6, <2>4 DEF StoreQuestion, StoreAnswer
        <3> QED BY <2>3, <3>1, <3>2
    <2> QED BY <1>6, <2>2, <2>4 DEF Step, SubmitAny, Submit, Serve, FindConversation,
        CreateConversation, RefreshConversation, ReloadAfterQuestion, Retrieve, Generate,
        AnswerFails, Finish, ReadMessages, Break, tables
<1> QED BY <1>5, <1>6

\* A conversation that exists after the step and had an owner existed before.
LEMMA CurrentKeeps ==
    ASSUME IInv, NEW r \in Request, Step(r), NEW c,
           c \in Conversation => owner[c] # NoUser, Current(owner', gone', c)
    PROVE  Current(owner, gone, c)
BY StepTables DEF Current

\* What other users do leaves the conversations of Me alone.
LEMMA OthersKeep ==
    ASSUME IInv, ChatAssumption, MeAssumption, NEW r \in Request, Step(r), req'[r].by # Me,
           At(r, "idle") => req[r].by = NoUser,
           NEW c, c \in Conversation => owner[c] = Me
    PROVE  /\ Of(stored', req', c) = Of(stored, req, c)
           /\ \A m \in Of(stored, req, c) : stamp'[m] = stamp[m]
           /\ Current(owner', gone', c) => Current(owner, gone, c)
           /\ req[r].by # Me
<1>1. Types /\ Known(r) BY DEF IInv
<1>2. req \in [Request -> ChatRequest] BY <1>1 DEF Types
<1>3. req[r].by # Me
    <2>1. CASE At(r, "idle") BY <2>1 DEF ChatAssumption, MeAssumption
    <2>2. CASE CreateConversation(r) BY <1>2, <2>2 DEF CreateConversation
    <2> QED BY <1>2, <2>1, <2>2, StepOwn
<1>4. stored' = stored \/ req[r].conv # c
    <2>1. CASE At(r, "found") \/ At(r, "answered") \/ At(r, "deleting")
        <3>1. req[r].conv \in Conversation /\ owner[req[r].conv] = req[r].by
            BY <1>1, <2>1 DEF Known, At, Granted, Chatting, Storing
        <3> QED BY <1>3, <3>1
    <2> QED BY <2>1 DEF Step, SubmitAny, Submit, Serve, FindConversation,
        CreateConversation, RefreshConversation, ReloadAfterQuestion, Retrieve, Generate,
        StoreQuestion, StoreAnswer, DeleteConversation,
        AnswerFails, Finish, ReadMessages, Break, tables
<1>5. Of(stored', req', c) = Of(stored, req, c) BY <1>4, OfKeeps
<1>6. \A m \in Of(stored, req, c) : stamp'[m] = stamp[m] BY StampsKeep DEF Of
<1>7. Current(owner', gone', c) => Current(owner, gone, c)
    BY CurrentKeeps DEF ChatAssumption, MeAssumption
<1> QED BY <1>3, <1>5, <1>6, <1>7

-----------------------------------------------------------------------------
(* The page and the tables while the user waits for each answer.           *)

\* A question is under way: it is shown last, and what is shown is what is
\* stored of its conversation, but for its answer.
Asking(r) ==
    /\ shown # <<>> /\ shown[Len(shown)] = <<r, "USER">>
    /\ \A i \in DOMAIN shown : shown[i][1] = r => i = Len(shown)
    /\ \/ active = req[r].conv
       \/ /\ active = NoConversation /\ Questions(shown)
          /\ \A m \in Of(stored, req, req[r].conv) : m[1] = r
    /\ Current(owner, gone, req[r].conv) =>
        Agrees(shown, Of(stored, req, req[r].conv), stamp, {<<r, "ASSISTANT">>})
    /\ req[r].at \in {"found", "done"} \cup Storing =>
        \A m \in Of(stored, req, req[r].conv) : m[1] # r => stamp[m] < stamp[<<r, "USER">>]

Loading(r) ==
    /\ active = req[r].conv
    /\ At(r, "done") => reply[r] = InOrder(Of(stored, req, active), stamp)

Settled == Current(owner, gone, active) => Agrees(shown, Of(stored, req, active), stamp, {})

Deleting(r) == capturedActive[r] = active /\ Settled

UnderWay(r) ==
    /\ req[r].kind = "chat" => Asking(r)
    /\ req[r].kind = "read" => Loading(r)
    /\ req[r].kind = "delete" => Deleting(r)

Undisturbed ==
    /\ \A q, r \in calls : q = r
    /\ \A r \in Request : req[r].by = Me => r \in calls \/ req[r].at \in {"done", "failed"}
    /\ \A r \in calls : req[r].conv \in Conversation => owner[req[r].conv] = Me
    /\ shown \in Seq(Message)
    /\ \A i \in DOMAIN shown : req[shown[i][1]].by = Me
    /\ calls = {} => Settled
    /\ \A r \in calls : UnderWay(r)

-----------------------------------------------------------------------------
\* The page's own question is served.
LEMMA AskingStep ==
    ASSUME CInv, Times, Undisturbed, ChatAssumption, MeAssumption, NEW r \in calls,
           req[r].kind = "chat", Serve(r), UNCHANGED <<active, shown>>
    PROVE  /\ Asking(r)'
           /\ req'[r].conv \in Conversation => owner'[req'[r].conv] = Me
<1>1. IInv /\ PageInv /\ Types /\ Clock BY DEF CInv, IInv
<1>2. r \in Request /\ Step(r) /\ Asking(r) /\ Known(r) /\ req[r].by = Me /\ shown \in Seq(Message)
    BY <1>1 DEF PageInv, Step, Undisturbed, UnderWay, IInv
<1>3. req \in [Request -> ChatRequest] /\ stamp \in [Message -> Nat] /\ now \in Nat BY <1>1 DEF Types
<1>4. <<r, "USER">> \in Message /\ <<r, "ASSISTANT">> \in Message BY <1>2 DEF Message, Role
<1>5. req[r].conv \in Conversation => owner[req[r].conv] = Me BY DEF Undisturbed
<1>6. \A m \in stored : stamp'[m] = stamp[m] BY <1>1, <1>2, StampsKeep
<1>7. \A m \in stored : stamp[m] \in Nat /\ stamp[m] <= now BY <1>1, <1>3 DEF Types, Clock
<1>8. Of(stored, req, req[r].conv) \subseteq stored BY DEF Of
<1>9. CASE CreateConversation(r)
    <2>1. PICK c \in Conversation :
            /\ owner[c] = NoUser
            /\ owner' = [owner EXCEPT ![c] = req[r].by]
            /\ req' = [req EXCEPT ![r].at = "created", ![r].conv = c]
        BY <1>9 DEF CreateConversation
    <2>2. req'[r].conv = c /\ req'[r].at = "created" /\ owner'[c] = Me
        BY <1>1, <1>2, <1>3, <2>1 DEF Types
    <2>3. req[r].conv = NoConversation /\ stored' = stored BY <1>9 DEF CreateConversation
    <2>4. Of(stored, req, c) = {} /\ Of(stored, req, NoConversation) = {}
        BY <1>1, <2>1, NoneOf DEF ChatAssumption
    <2>5. Of(stored', req', c) = {} BY <1>1, <1>2, <2>3, <2>4, OfKeeps
    <2>6. active = NoConversation /\ Questions(shown)
        BY <1>2, <2>3, <2>4, AgreesWithNone DEF Asking, Current
    <2>7. Agrees(shown, Of(stored', req', c), stamp', {<<r, "ASSISTANT">>})
        BY <2>5, <2>6, AgreesWithNone
    <2> QED BY <1>2, <2>2, <2>5, <2>6, <2>7 DEF Asking, Storing
<1>10. CASE ~CreateConversation(r)
    <2>1. /\ owner' = owner /\ req'[r].conv = req[r].conv
          /\ req[r].at \notin {"idle", "done", "failed"}
        <3>1. ~At(r, "idle")
            BY DEF Serve, FindConversation, RefreshConversation, StoreQuestion, tables, At,
                ReloadAfterQuestion, Retrieve, Generate, AnswerFails, StoreAnswer, Finish,
                CreateConversation, ReadMessages, DeleteConversation, Break
        <3> QED BY <1>2, <1>3, <1>10, <3>1, StepOwn
    <2>2. Current(owner', gone', req[r].conv) => Current(owner, gone, req[r].conv)
        BY <1>1, <1>2, <1>5, CurrentKeeps DEF ChatAssumption, MeAssumption
    <2>3. CASE stored' = stored
        <3>1. Of(stored', req', req'[r].conv) = Of(stored, req, req[r].conv)
            BY <1>1, <1>2, <2>1, <2>3, OfKeeps
        <3>2. Current(owner', gone', req'[r].conv) =>
                Agrees(shown', Of(stored', req', req'[r].conv), stamp', {<<r, "ASSISTANT">>})
            BY <1>2, <1>6, <1>8, <2>1, <2>2, <3>1, AgreesOnSame DEF Asking
        <3>3. req'[r].at \in {"found", "done"} \cup Storing =>
                \A m \in Of(stored, req, req[r].conv) : m[1] # r => stamp'[m] < stamp'[<<r, "USER">>]
            <4>1. CASE Begin(<<r, "USER">>)
                <5>1. stamp'[<<r, "USER">>] = now + 1 BY <1>3, <1>4, <4>1 DEF Begin
                <5> QED BY <1>3, <1>6, <1>7, <1>8, <5>1
            <4>2. CASE ~Begin(<<r, "USER">>)
                <5>1. req'[r].at # "found" /\ stamp'[<<r, "USER">>] = stamp[<<r, "USER">>]
                    <6>1. CASE UNCHANGED <<stamp, now>> /\ req'[r].at # "found" BY <6>1
                    <6>2. CASE Begin(<<r, "ASSISTANT">>) /\ Goto(r, "answering")
                        BY <1>2, <1>3, <1>4, <6>2, GotoKeeps DEF Begin
                    <6> QED BY <1>2, <1>3, <4>2, <6>1, <6>2, StepClock
                <5>2. req'[r].at \in {"done"} \cup Storing => req[r].at \in {"found"} \cup Storing
                    <6>1. CASE FindConversation(r) \/ RefreshConversation(r) \/ Break(r) \/ AnswerFails(r)
                        <7>1. \E p \in {"failed", "found", "reading", "deleting"} : Goto(r, p)
                            BY <6>1 DEF FindConversation, RefreshConversation, Break, AnswerFails
                        <7> QED BY <1>2, <1>3, <7>1, GotoKeeps DEF Storing
                    <6>2. CASE StoreQuestion(r) \/ ReloadAfterQuestion(r) \/ Retrieve(r) \/ Generate(r)
                               \/ StoreAnswer(r) \/ Finish(r)
                        BY <6>2 DEF StoreQuestion, ReloadAfterQuestion, Retrieve, Generate,
                                    StoreAnswer, Finish, At, Storing
                    <6>3. ~ReadMessages(r) /\ ~DeleteConversation(r)
                        BY <1>2 DEF ReadMessages, DeleteConversation, Known, At
                    <6> QED BY <1>10, <6>1, <6>2, <6>3 DEF Serve
                <5> QED BY <1>2, <1>6, <1>8, <5>1, <5>2 DEF Asking
            <4> QED BY <4>1, <4>2
        <3> QED BY <1>2, <1>5, <2>1, <3>1, <3>2, <3>3 DEF Asking
    <2>4. CASE /\ At(r, "found") /\ Live(req[r].conv)
               /\ stored' = stored \cup {<<r, "USER">>} /\ Goto(r, "asked") /\ StoreQuestion(r)
        <3> DEFINE S == Of(stored, req, req[r].conv)
                   m == <<r, "USER">>
        <3>1. req'[r].at = "asked" BY <1>2, <1>3, <2>4, GotoKeeps
        <3>2. stamp' = stamp /\ gone' = gone BY <2>4 DEF StoreQuestion
        <3>3. \A s \in stored : req'[s[1]].conv = req[s[1]].conv
            BY <1>1, <1>2, <2>1, MessageKnown, StepTables
        <3>4. Of(stored', req', req'[r].conv) = S \cup {m}
            BY <2>1, <2>4, <3>3 DEF Of
        <3>5. \A n \in S : n[1] # r
            <4>1. <<r, "USER">> \notin stored /\ <<r, "ASSISTANT">> \notin stored
                BY <1>2, <2>4 DEF Known, At, Storing
            <4> QED BY <1>1, <4>1, MessageKnown DEF Of, Role
        <3>6. \A n \in S : stamp[n] < stamp[m] BY <1>2, <2>4, <3>5 DEF Asking, At
        <3>7. Agrees(shown, S, stamp, {<<r, "ASSISTANT">>})
            BY <1>2, <2>4 DEF Asking, Current, Live
        <3>8. \A i \in DOMAIN shown : shown[i] = m => i = Len(shown) BY <1>2 DEF Asking
        <3>9. shown # <<>> /\ shown[Len(shown)] = m BY <1>2 DEF Asking
        <3> HIDE DEF S, m
        <3>10. Agrees(shown, S \cup {m}, stamp, {<<r, "ASSISTANT">>})
            BY <1>2, <3>6, <3>7, <3>8, <3>9, AgreesStored
        <3>11. \A n \in S \cup {m} : n[1] # r => stamp[n] < stamp[<<r, "USER">>]
            BY <3>6 DEF m
        <3>12. \/ active = req[r].conv
               \/ active = NoConversation /\ Questions(shown) /\ \A n \in S \cup {m} : n[1] = r
            BY <1>2 DEF Asking, S, m
        <3> QED BY <1>2, <1>5, <2>1, <3>1, <3>2, <3>4, <3>10, <3>11, <3>12 DEF Asking
    <2>5. CASE /\ At(r, "answered") /\ Live(req[r].conv) /\ StoreAnswer(r)
               /\ stored' = stored \cup {<<r, "ASSISTANT">>} /\ Goto(r, "stored")
        <3> DEFINE S == Of(stored, req, req[r].conv)
                   m == <<r, "ASSISTANT">>
        <3>1. req'[r].at = "stored" BY <1>2, <1>3, <2>5, GotoKeeps
        <3>2. stamp' = stamp /\ gone' = gone BY <2>5 DEF StoreAnswer
        <3>3. \A s \in stored : req'[s[1]].conv = req[s[1]].conv
            BY <1>1, <1>2, <2>1, MessageKnown, StepTables
        <3>4. Of(stored', req', req'[r].conv) = S \cup {m}
            BY <2>1, <2>5, <3>3 DEF Of
        <3>5. \A n \in S : n[1] # r => stamp[n] < stamp[<<r, "USER">>]
            BY <1>2, <2>5 DEF Asking, At, Storing
        <3>6. Agrees(shown, S, stamp, {m})
            BY <1>2, <2>5 DEF Asking, Current, Live
        <3>7. \A i \in DOMAIN shown : shown[i] # m BY <1>2 DEF Asking
        <3>8. m[1] = r OBVIOUS
        <3> HIDE DEF S, m
        <3>9. Agrees(shown, S \cup {m}, stamp, {m}) BY <3>6, <3>7, AgreesAnswered
        <3>10. \/ active = req[r].conv
               \/ active = NoConversation /\ Questions(shown) /\ \A n \in S \cup {m} : n[1] = r
            BY <1>2, <3>8 DEF Asking, S
        <3>11. \A n \in S \cup {m} : n[1] # r => stamp[n] < stamp[<<r, "USER">>] BY <3>5, <3>8
        <3> QED BY <1>2, <1>5, <2>1, <3>1, <3>2, <3>4, <3>9, <3>10, <3>11 DEF Asking, m
    <2>6. ~DeleteConversation(r) BY <1>2 DEF DeleteConversation, Known, At
    <2>7. stored' = stored \/ StoreQuestion(r) \/ StoreAnswer(r)
        BY <1>10, <2>6 DEF Serve, FindConversation,
            RefreshConversation, ReloadAfterQuestion, Retrieve, Generate,
            AnswerFails, Finish, ReadMessages, Break, tables
    <2> QED BY <2>3, <2>4, <2>5, <2>7 DEF StoreQuestion, StoreAnswer, Insertable
<1> QED BY <1>9, <1>10

\* Another conversation is shown as it was before the step.
LEMMA SettledKeeps ==
    ASSUME CInv, ChatAssumption, MeAssumption, NEW r \in Request, Step(r),
           stored' = stored \/ req[r].conv # active, UNCHANGED <<active, shown>>, Settled
    PROVE  Settled'
<1>1. IInv /\ PageInv BY DEF CInv
<1>2. active \in Conversation => owner[active] = Me /\ owner[active] # NoUser
    BY <1>1 DEF PageInv, ChatAssumption, MeAssumption
<1>3. Of(stored', req', active) = Of(stored, req, active) BY <1>1, OfKeeps
<1>4. Current(owner', gone', active) => Current(owner, gone, active) BY <1>1, <1>2, CurrentKeeps
<1>5. \A m \in Of(stored, req, active) : stamp'[m] = stamp[m] BY <1>1, StampsKeep DEF Of
<1>6. Agrees(shown, Of(stored, req, active), stamp, {})
        => Agrees(shown, Of(stored, req, active), stamp', {})
    BY <1>5, AgreesOnSame
<1> QED BY <1>3, <1>4, <1>6 DEF Settled

\* The page's own load or deletion is served.
LEMMA OtherCallServed ==
    ASSUME CInv, Times, Undisturbed, ChatAssumption, MeAssumption, NEW r \in calls,
           req[r].kind # "chat", Serve(r), UNCHANGED <<active, shown, capturedActive>>
    PROVE  /\ req[r].kind = "read" => Loading(r)'
           /\ req[r].kind = "delete" => Deleting(r)'
           /\ req'[r].conv = req[r].conv /\ owner' = owner
<1>1. IInv /\ PageInv /\ Types BY DEF CInv, IInv
<1>2. r \in Request /\ Step(r) /\ Known(r) /\ UnderWay(r)
    BY <1>1 DEF PageInv, Step, Undisturbed, IInv
<1>3. req \in [Request -> ChatRequest] BY <1>1 DEF Types
<1>4. FindConversation(r) \/ ReadMessages(r) \/ DeleteConversation(r) \/ Break(r)
    BY <1>2 DEF Serve, CreateConversation, RefreshConversation, StoreQuestion, ReloadAfterQuestion,
       Retrieve, Generate, AnswerFails, StoreAnswer, Finish, Known, Chatting, Storing, At
<1>5. req'[r].conv = req[r].conv /\ owner' = owner
    BY <1>2, <1>3, <1>4, GotoKeeps DEF FindConversation, ReadMessages, DeleteConversation, Break, tables
<1>6. ASSUME req[r].kind = "read" PROVE Loading(r)'
    <2>1. active = req[r].conv BY <1>2, <1>6 DEF UnderWay, Loading
    <2>2. CASE ReadMessages(r)
        <3>1. /\ reply' = [reply EXCEPT ![r] = Listing(req[r].conv)]
              /\ stored' = stored /\ stamp' = stamp
            BY <2>2 DEF ReadMessages, tables
        <3>2. reply'[r] = Listing(req[r].conv) BY <1>2, <3>1 DEF Times
        <3>3. Listing(req[r].conv) = InOrder(Of(stored, req, req[r].conv), stamp)
            BY DEF Listing, MessagesOf, Of
        <3>4. Of(stored', req', active) = Of(stored, req, active) BY <1>1, <1>2, <3>1, OfKeeps
        <3> QED BY <1>5, <2>1, <3>1, <3>2, <3>3, <3>4 DEF Loading
    <2>3. CASE FindConversation(r) \/ Break(r)
        <3>1. req'[r].at # "done" BY <1>2, <1>3, <2>3, GotoKeeps DEF FindConversation, Break
        <3> QED BY <1>5, <2>1, <3>1 DEF Loading, At
    <2>4. ~DeleteConversation(r) BY <1>2, <1>6 DEF Known, DeleteConversation, At
    <2> QED BY <1>4, <2>2, <2>3, <2>4
<1>7. ASSUME req[r].kind = "delete" PROVE Deleting(r)'
    <2>1. capturedActive[r] = active /\ Settled BY <1>2, <1>7 DEF UnderWay, Deleting
    <2>2. CASE stored' = stored \/ req[r].conv # active
        <3>1. Settled' BY <1>2, <2>1, <2>2, SettledKeeps
        <3> QED BY <2>1, <3>1 DEF Deleting
    <2>3. CASE DeleteConversation(r) /\ req[r].conv = active
        <3>1. active \in gone' /\ active \in Conversation
            BY <1>2, <2>3 DEF DeleteConversation, Known, At, Granted
        <3>2. ~Current(owner', gone', active') BY <3>1 DEF Current, ChatAssumption
        <3> QED BY <2>1, <3>2 DEF Deleting, Settled
    <2> QED BY <1>4, <2>2, <2>3 DEF FindConversation, ReadMessages, Break, tables
<1> QED BY <1>5, <1>6, <1>7

\* Others act; what is under way at the page is not touched.
LEMMA OthersUndisturbed ==
    ASSUME CInv, Times, Undisturbed, ChatAssumption, MeAssumption, NEW q \in Request \ calls,
           Step(q), req'[q].by # Me, UNCHANGED <<active, shown, calls, capturedActive>>
    PROVE  Undisturbed'
<1>1. IInv /\ PageInv /\ Types BY DEF CInv, IInv
<1>2. \A s \in Request \ {q} : req'[s] = req[s] BY <1>1, StepTables
<1>3. At(q, "idle") => req[q].by = NoUser BY DEF Times
<1>4. \A c : (c \in Conversation => owner[c] = Me) =>
        /\ Of(stored', req', c) = Of(stored, req, c)
        /\ \A m \in Of(stored, req, c) : stamp'[m] = stamp[m]
        /\ Current(owner', gone', c) => Current(owner, gone, c)
        /\ req[q].by # Me
    BY <1>1, <1>3, OthersKeep
<1>5. req[q].by # Me BY <1>4 DEF ChatAssumption
<1>6. active \in Conversation => owner[active] = Me BY <1>1 DEF PageInv, ChatAssumption
<1>7. Settled => Settled'
    <2>1. Agrees(shown, Of(stored, req, active), stamp, {})
            => Agrees(shown, Of(stored, req, active), stamp', {})
        BY <1>4, <1>6, AgreesOnSame
    <2> QED BY <1>4, <1>6, <2>1 DEF Settled
<1>8. \A c \in Conversation : owner[c] # NoUser => owner'[c] = owner[c] BY <1>1, StepTables
<1>9. ASSUME NEW r \in calls PROVE UnderWay(r)' /\ (req'[r].conv \in Conversation => owner'[req'[r].conv] = Me)
    <2>1. r \in Request /\ r # q /\ req'[r] = req[r] /\ UnderWay(r) BY <1>1, <1>2 DEF PageInv, Undisturbed
    <2>2. req[r].conv \in Conversation => owner[req[r].conv] = Me BY DEF Undisturbed
    <2>3. ASSUME req[r].kind = "chat" PROVE Asking(r)'
        <3> DEFINE S == Of(stored, req, req[r].conv)
        <3>1. Asking(r) BY <2>1, <2>3 DEF UnderWay
        <3>2. Of(stored', req', req'[r].conv) = S BY <1>4, <2>1, <2>2
        <3>3. \A m \in S : stamp'[m] = stamp[m] BY <1>4, <2>1, <2>2
        <3>4. stamp'[<<r, "USER">>] = stamp[<<r, "USER">>] BY <1>1, <2>1, StepStamps DEF Role
        <3>5. Agrees(shown, S, stamp, {<<r, "ASSISTANT">>}) => Agrees(shown, S, stamp', {<<r, "ASSISTANT">>})
            BY <3>3, AgreesOnSame
        <3>6. Current(owner', gone', req'[r].conv) => Current(owner, gone, req[r].conv)
            BY <1>4, <2>1, <2>2
        <3>7. req[r].at \in {"found", "done"} \cup Storing =>
                \A m \in S : m[1] # r => stamp'[m] < stamp'[<<r, "USER">>]
            BY <3>1, <3>3, <3>4 DEF Asking
        <3>8. \/ active = req[r].conv
              \/ active = NoConversation /\ Questions(shown) /\ \A m \in S : m[1] = r
            BY <3>1 DEF Asking
        <3>9. Current(owner, gone, req[r].conv) => Agrees(shown, S, stamp, {<<r, "ASSISTANT">>})
            BY <3>1 DEF Asking
        <3>10. /\ shown # <<>> /\ shown[Len(shown)] = <<r, "USER">>
               /\ \A i \in DOMAIN shown : shown[i][1] = r => i = Len(shown)
            BY <3>1 DEF Asking
        <3> HIDE DEF S
        <3> QED BY <2>1, <3>2, <3>5, <3>6, <3>7, <3>8, <3>9, <3>10 DEF Asking
    <2>4. ASSUME req[r].kind = "read" PROVE Loading(r)'
        <3>1. active = req[r].conv /\ (At(r, "done") => reply[r] = InOrder(Of(stored, req, active), stamp))
            BY <2>1, <2>4 DEF UnderWay, Loading
        <3>2. reply'[r] = reply[r]
            BY <2>1 DEF Step, SubmitAny, Submit, Serve, FindConversation, CreateConversation,
               RefreshConversation, StoreQuestion, ReloadAfterQuestion, Retrieve, Generate, AnswerFails,
               StoreAnswer, Finish, ReadMessages, DeleteConversation, Break, Times
        <3>3. InOrder(Of(stored, req, active), stamp') = InOrder(Of(stored, req, active), stamp)
            <4>1. Of(stored, req, active) \in SUBSET stored BY DEF Of
            <4>2. \A m \in Of(stored, req, active) : stamp'[m] = stamp[m] BY <1>4, <1>6
            <4> HIDE DEF Of
            <4>3. /\ Distinct(Of(stored, req, active), stamp) /\ now \in Nat
                  /\ \A m \in Of(stored, req, active) : stamp[m] <= now
                BY <1>1, <4>1, MessageTimes
            <4> QED BY <4>2, <4>3, ListedSame
        <3>4. Of(stored', req', active) = Of(stored, req, active) BY <1>4, <1>6
        <3> QED BY <2>1, <3>1, <3>2, <3>3, <3>4 DEF Loading, At
    <2>5. ASSUME req[r].kind = "delete" PROVE Deleting(r)'
        BY <1>7, <2>1, <2>5 DEF UnderWay, Deleting
    <2>6. req'[r].conv \in Conversation => owner'[req'[r].conv] = Me
        BY <1>8, <2>1, <2>2 DEF ChatAssumption, MeAssumption
    <2> QED BY <2>1, <2>3, <2>4, <2>5, <2>6 DEF UnderWay
<1>10. \A r \in Request : req'[r].by = Me => r \in calls \/ req'[r].at \in {"done", "failed"}
    BY <1>2 DEF Undisturbed
<1>11. \A i \in DOMAIN shown : req'[shown[i][1]].by = Me
    <2> TAKE i \in DOMAIN shown
    <2>1. shown[i] \in Message /\ req[shown[i][1]].by = Me BY DEF Undisturbed
    <2>2. shown[i][1] \in Request /\ shown[i][1] # q BY <1>5, <2>1 DEF Message
    <2> QED BY <1>2, <2>1, <2>2
<1> QED BY <1>7, <1>9, <1>10, <1>11 DEF Undisturbed

\* The server acts, for the page or for others.
LEMMA ServerUndisturbed ==
    ASSUME CInv, Times, Undisturbed, ChatAssumption, MeAssumption, NEW q \in Request, ServerStep(q)
    PROVE  Undisturbed'
<1>1. IInv /\ PageInv /\ Types /\ Serve(q) /\ Step(q) /\ UNCHANGED pageVars
    BY DEF CInv, IInv, ServerStep, Step
<1>2. UNCHANGED <<active, shown, calls, capturedActive>> BY <1>1 DEF pageVars
<1>3. req \in [Request -> ChatRequest] BY <1>1 DEF Types
<1>4. /\ req[q].at \notin {"idle", "done", "failed"}
      /\ req'[q].by = req[q].by /\ req'[q].kind = req[q].kind
    <2>1. CASE CreateConversation(q) BY <1>3, <2>1 DEF CreateConversation, ChatRequest, At
    <2>2. CASE ~CreateConversation(q)
        <3>1. ~At(q, "idle")
            BY <1>1 DEF Serve, FindConversation, RefreshConversation, StoreQuestion, tables, At,
                ReloadAfterQuestion, Retrieve, Generate, AnswerFails, StoreAnswer, Finish,
                CreateConversation, ReadMessages, DeleteConversation, Break
        <3> QED BY <1>1, <1>3, <2>2, <3>1, StepOwn
    <2> QED BY <2>1, <2>2
<1>5. CASE q \notin calls
    <2>1. req'[q].by # Me BY <1>4, <1>5 DEF Undisturbed
    <2> QED BY <1>1, <1>2, <1>5, <2>1, OthersUndisturbed
<1>6. CASE q \in calls
    <2>1. \A r \in calls : r = q BY <1>6 DEF Undisturbed
    <2>2. \A s \in Request \ {q} : req'[s] = req[s] BY <1>1, StepTables
    <2>3. req[q].conv \in Conversation => owner[req[q].conv] = Me BY <1>6 DEF Undisturbed
    <2>4. UnderWay(q)' /\ (req'[q].conv \in Conversation => owner'[req'[q].conv] = Me)
        <3>1. CASE req[q].kind = "chat"
            BY <1>1, <1>2, <1>4, <1>6, <3>1, AskingStep DEF UnderWay
        <3>2. CASE req[q].kind # "chat"
            BY <1>1, <1>2, <1>4, <1>6, <2>3, <3>2, OtherCallServed DEF UnderWay
        <3> QED BY <3>1, <3>2
    <2>5. \A r \in Request : req'[r].by = Me => r \in calls \/ req'[r].at \in {"done", "failed"}
        BY <1>6, <2>2 DEF Undisturbed
    <2>6. \A i \in DOMAIN shown : req'[shown[i][1]].by = Me
        <3> TAKE i \in DOMAIN shown
        <3>1. shown[i] \in Message /\ req[shown[i][1]].by = Me BY DEF Undisturbed
        <3>2. shown[i][1] \in Request BY <3>1 DEF Message
        <3> QED BY <1>4, <2>2, <3>1, <3>2
    <2>7. calls # {} BY <1>6
    <2> QED BY <1>2, <2>1, <2>4, <2>5, <2>6, <2>7 DEF Undisturbed
<1> QED BY <1>5, <1>6

-----------------------------------------------------------------------------
\* The page's variables.
PageTypes ==
    /\ active \in Conversation \cup {NoConversation}
    /\ shown \in Seq(Message)
    /\ {sending, loading, error, failed, disturbed} \subseteq BOOLEAN
    /\ capturedActive \in [Request -> Conversation \cup {NoConversation}]

\* Nothing is under way and the page makes a call.
LEMMA CallMade ==
    ASSUME CInv, Times, PageTypes, Undisturbed, ChatAssumption, MeAssumption, calls = {},
           NEW r \in Request, NEW kind \in {"chat", "read", "delete"},
           NEW c \in Conversation \cup {NoConversation}, Call(r, kind, c), SubmitAny(r)
    PROVE  /\ req'[r].kind = kind /\ req'[r].conv = c /\ req'[r].by = Me /\ req'[r].at = "sent"
           /\ calls' = {r} /\ capturedActive'[r] = active
           /\ owner' = owner /\ gone' = gone /\ stored' = stored /\ stamp' = stamp
           /\ \A x : Of(stored', req', x) = Of(stored, req, x)
           /\ \A s \in Request : req'[s].by = Me => s \in calls' \/ req'[s].at \in {"done", "failed"}
           /\ \A i \in DOMAIN shown : shown[i][1] # r /\ req'[shown[i][1]].by = Me
           /\ \A role : <<r, role>> \notin stored
<1>1. IInv /\ PageInv /\ Types /\ Step(r) BY DEF CInv, IInv, Step
<1>2. req \in [Request -> ChatRequest] BY <1>1 DEF Types
<1>3. /\ At(r, "idle")
      /\ req' = [req EXCEPT ![r] = [at |-> "sent", kind |-> kind, by |-> Me, conv |-> c]]
      /\ owner' = owner /\ gone' = gone /\ stored' = stored /\ stamp' = stamp
      /\ calls' = {r}
      /\ capturedActive' = [capturedActive EXCEPT ![r] = active]
    BY DEF Call, Submit, tables
<1>4. req'[r] = [at |-> "sent", kind |-> kind, by |-> Me, conv |-> c]
      /\ \A s \in Request \ {r} : req'[s] = req[s]
    BY <1>2, <1>3
<1>5. capturedActive'[r] = active BY <1>3 DEF PageTypes
<1>6. \A x : Of(stored', req', x) = Of(stored, req, x) BY <1>1, <1>3, OfKeeps
<1>7. \A s \in Request : req'[s].by = Me => s \in calls' \/ req'[s].at \in {"done", "failed"}
    BY <1>3, <1>4 DEF Undisturbed
<1>8. req[r].by # Me BY <1>3 DEF Times, ChatAssumption, MeAssumption
<1>9. \A i \in DOMAIN shown : shown[i][1] # r /\ req'[shown[i][1]].by = Me
    <2> TAKE i \in DOMAIN shown
    <2>1. shown[i] \in Message /\ req[shown[i][1]].by = Me BY DEF Undisturbed
    <2>2. shown[i][1] \in Request BY <2>1 DEF Message
    <2> QED BY <1>4, <1>8, <2>1, <2>2
<1>10. \A role : <<r, role>> \notin stored
    <2> TAKE role
    <2>1. SUFFICES ASSUME <<r, role>> \in stored PROVE FALSE OBVIOUS
    <2>2. <<r, role>>[1] = r OBVIOUS
    <2>3. req[<<r, role>>[1]].at \in Storing \cup {"done", "failed"} BY <1>1, <2>1, MessageKnown
    <2>4. req[r].at \in Storing \cup {"done", "failed"} BY <2>2, <2>3, Zenon
    <2>5. req[r].at = "idle" BY <1>3 DEF At
    <2> QED BY <2>4, <2>5 DEF Storing
<1>11. req'[r].kind = kind /\ req'[r].conv = c /\ req'[r].by = Me /\ req'[r].at = "sent"
    BY <1>4
<1> QED BY <1>3, <1>5, <1>6, <1>7, <1>9, <1>10, <1>11

LEMMA SendUndisturbed ==
    ASSUME CInv, Times, PageTypes, Undisturbed, ChatAssumption, MeAssumption, calls = {},
           NEW r \in Request, SendMessage(r), SubmitAny(r)
    PROVE  Undisturbed'
<1>1. IInv /\ PageInv BY DEF CInv
<1>2. Call(r, "chat", active) /\ shown' = Append(shown, <<r, "USER">>) /\ active' = active
    BY DEF SendMessage
<1>3. active \in Conversation \cup {NoConversation} /\ shown \in Seq(Message) BY DEF PageTypes
<1>4. /\ req'[r].kind = "chat" /\ req'[r].conv = active /\ req'[r].by = Me /\ req'[r].at = "sent"
      /\ calls' = {r} /\ capturedActive'[r] = active
      /\ owner' = owner /\ gone' = gone /\ stored' = stored /\ stamp' = stamp
      /\ \A x : Of(stored', req', x) = Of(stored, req, x)
      /\ \A s \in Request : req'[s].by = Me => s \in calls' \/ req'[s].at \in {"done", "failed"}
      /\ \A i \in DOMAIN shown : shown[i][1] # r /\ req'[shown[i][1]].by = Me
      /\ \A role : <<r, role>> \notin stored
    BY <1>2, <1>3, CallMade
<1>5. <<r, "USER">> \in Message BY DEF Message, Role
<1>6. /\ shown' \in Seq(Message) /\ shown' # <<>>
      /\ Len(shown) \in Nat /\ Len(shown') = Len(shown) + 1
      /\ DOMAIN shown = 1..Len(shown) /\ DOMAIN shown' = 1..(Len(shown) + 1)
      /\ shown'[Len(shown) + 1] = <<r, "USER">>
      /\ \A i \in 1..Len(shown) : shown'[i] = shown[i]
    BY <1>2, <1>3, <1>5
<1>7. \A i \in DOMAIN shown' : i = Len(shown') \/ (i \in DOMAIN shown /\ shown'[i] = shown[i])
    BY <1>6
<1>8. \A i \in DOMAIN shown' : shown'[i][1] = r => i = Len(shown') BY <1>4, <1>7
<1>9. \A i \in DOMAIN shown' : req'[shown'[i][1]].by = Me BY <1>4, <1>6, <1>7
<1>10. Current(owner, gone, active) =>
        Agrees(shown', Of(stored, req, active), stamp, {<<r, "ASSISTANT">>})
    <2>1. <<r, "USER">> \notin Of(stored, req, active) BY <1>4 DEF Of
    <2>2. Current(owner, gone, active) => Agrees(shown, Of(stored, req, active), stamp, {<<r, "ASSISTANT">>})
        BY AgreesWithMore DEF Undisturbed, Settled
    <2>3. <<r, "USER">>[2] = "USER" OBVIOUS
    <2> QED BY <1>2, <1>3, <1>5, <2>1, <2>2, <2>3, AgreesSent
<1>11. Asking(r)' BY <1>2, <1>4, <1>6, <1>8, <1>10 DEF Asking, Storing
<1>12. req'[r].conv \in Conversation => owner'[req'[r].conv] = Me
    BY <1>1, <1>4 DEF PageInv, ChatAssumption
<1> QED BY <1>4, <1>6, <1>9, <1>11, <1>12 DEF Undisturbed, UnderWay

LEMMA OtherCallUndisturbed ==
    ASSUME CInv, Times, PageTypes, Undisturbed, ChatAssumption, MeAssumption, calls = {},
           NEW r \in Request, LoadConversation(r) \/ RemoveConversation(r), SubmitAny(r)
    PROVE  Undisturbed'
<1>1. PICK c \in Offered, kind \in {"read", "delete"} :
        /\ Call(r, kind, c) /\ shown' = shown
        /\ \/ kind = "read" /\ active' = c
           \/ kind = "delete" /\ active' = active
    BY DEF LoadConversation, RemoveConversation
<1>2. c \in Conversation /\ owner[c] = Me BY DEF Offered
<1>3. /\ req'[r].kind = kind /\ req'[r].conv = c /\ req'[r].by = Me /\ req'[r].at = "sent"
      /\ calls' = {r} /\ capturedActive'[r] = active
      /\ owner' = owner /\ gone' = gone /\ stored' = stored /\ stamp' = stamp
      /\ \A x : Of(stored', req', x) = Of(stored, req, x)
      /\ \A s \in Request : req'[s].by = Me => s \in calls' \/ req'[s].at \in {"done", "failed"}
      /\ \A i \in DOMAIN shown : shown[i][1] # r /\ req'[shown[i][1]].by = Me
    BY <1>1, <1>2, CallMade
<1>4. kind = "read" => Loading(r)' BY <1>1, <1>3 DEF Loading, At
<1>5. kind = "delete" => Deleting(r)'
    BY <1>1, <1>3 DEF Deleting, Settled, Undisturbed
<1>6. UnderWay(r)' BY <1>3, <1>4, <1>5 DEF UnderWay
<1> QED BY <1>1, <1>2, <1>3, <1>6 DEF Undisturbed

\* The answer to the one call comes, and the page shows what is stored.
LEMMA ReceiveUndisturbed ==
    ASSUME CInv, Times, PageTypes, Undisturbed, ChatAssumption, MeAssumption,
           NEW r \in Request, Receive(r), ~disturbed'
    PROVE  Undisturbed'
<1>1. IInv /\ PageInv /\ Known(r) /\ Types BY DEF CInv, IInv
<1>2. r \in calls /\ calls' = calls \ {r} /\ UNCHANGED chatVars
    BY DEF Receive, ReceiveAnswer, ReceiveMessages, ReceiveDeletion, ReceiveError, Over
<1>3. UNCHANGED <<owner, gone, stored, req, stamp, reply>> BY <1>2 DEF chatVars
<1>4. calls = {r} /\ calls' = {} BY <1>2 DEF Undisturbed
<1>5. UnderWay(r) /\ req[r].by = Me /\ shown \in Seq(Message) BY <1>1, <1>2 DEF PageInv, Undisturbed
<1>6. req[r].kind \in {"chat", "read", "delete"} BY <1>1 DEF Types, ChatRequest
<1>7. SUFFICES /\ req[r].at \in {"done", "failed"}
               /\ shown' \in Seq(Message) /\ \A i \in DOMAIN shown' : req[shown'[i][1]].by = Me
               /\ Settled'
    BY <1>3, <1>4 DEF Undisturbed
<1>8. \A i \in DOMAIN shown : req[shown[i][1]].by = Me BY DEF Undisturbed
<1>9. CASE ReceiveAnswer(r)
    <2> DEFINE a == <<r, "ASSISTANT">>
               S == Of(stored, req, req[r].conv)
    <2>1. At(r, "done") /\ req[r].kind = "chat" /\ active' = req[r].conv /\ shown' = Append(shown, a)
        BY <1>9 DEF ReceiveAnswer
    <2>2. Asking(r) BY <1>5, <2>1 DEF UnderWay
    <2>3. a \in Message /\ a[1] = r BY DEF Message, Role
    <2>4. req[r].conv \in Conversation BY <1>1, <2>1 DEF Known, Granted, At
    <2>5. /\ shown' \in Seq(Message)
          /\ DOMAIN shown' = 1..(Len(shown) + 1) /\ DOMAIN shown = 1..Len(shown) /\ Len(shown) \in Nat
          /\ shown'[Len(shown) + 1] = a
          /\ \A i \in 1..Len(shown) : shown'[i] = shown[i]
        BY <1>5, <2>1, <2>3
    <2>6. \A i \in DOMAIN shown' : req[shown'[i][1]].by = Me BY <1>5, <1>8, <2>3, <2>5
    <2>7. ASSUME Current(owner, gone, req[r].conv) PROVE Agrees(shown', S, stamp, {})
        <3>1. Live(req[r].conv) BY <2>4, <2>7 DEF Current, Live, ChatAssumption
        <3>2. <<r, "USER">> \in stored /\ a \in stored BY <1>1, <2>1, <3>1 DEF Known
        <3>3. a \in S BY <3>2 DEF Of
        <3>4. stamp[<<r, "USER">>] < stamp[a] BY <1>1, <3>2 DEF Known
        <3>5. \A m \in S : m[1] # r => stamp[m] < stamp[<<r, "USER">>]
            BY <2>1, <2>2 DEF Asking, At
        <3>6. \A m \in S : m \in Message /\ stamp[m] \in Nat BY <1>1 DEF Of, Types
        <3>7. <<r, "USER">> \in Message BY DEF Message, Role
        <3>8. stamp[<<r, "USER">>] \in Nat /\ stamp[a] \in Nat BY <1>1, <2>3, <3>7 DEF Types
        <3>9. \A m \in S \ {a} : stamp[m] < stamp[a]
            <4> TAKE m \in S \ {a}
            <4>1. CASE m[1] = r
                <5>1. m = <<r, "USER">> BY <3>6, <4>1 DEF Message, Role
                <5> QED BY <3>4, <5>1
            <4>2. CASE m[1] # r
                <5>1. stamp[m] < stamp[<<r, "USER">>] BY <3>5, <4>2
                <5> QED BY <3>4, <3>6, <3>8, <5>1
            <4> QED BY <4>1, <4>2
        <3>10. Agrees(shown, S, stamp, {a}) BY <2>2, <2>7 DEF Asking
        <3>11. \A i \in DOMAIN shown : shown[i] # a
            <4>1. \A i \in DOMAIN shown : shown[i][1] = r => shown[i] = <<r, "USER">>
                BY <2>2 DEF Asking
            <4> QED BY <4>1
        <3> HIDE DEF S, a
        <3>12. Agrees(Append(shown, a), S, stamp, {})
            BY <1>5, <2>3, <3>3, <3>9, <3>10, <3>11, AgreesReceived
        <3> QED BY <2>1, <3>12
    <2>8. Settled' BY <1>3, <2>1, <2>7 DEF Settled
    <2> QED BY <2>1, <2>5, <2>6, <2>8 DEF At
<1>10. CASE ReceiveMessages(r)
    <2> DEFINE S == Of(stored, req, active)
    <2>1. At(r, "done") /\ req[r].kind = "read" /\ active' = active /\ shown' = reply[r]
        BY <1>10 DEF ReceiveMessages
    <2>2. shown' = InOrder(S, stamp) /\ active = req[r].conv BY <1>5, <2>1 DEF UnderWay, Loading
    <2>3. active \in Conversation /\ owner[active] = Me
        BY <1>1, <1>5, <2>1, <2>2 DEF Known, Granted, At
    <2>4. S \in SUBSET stored BY DEF Of
    <2>5. \A m \in S : req[m[1]].by = Me
        <3> TAKE m \in S
        <3>1. m \in stored /\ req[m[1]].conv = active BY DEF Of
        <3> QED BY <1>1, <2>3, <3>1, MessageKnown
    <2> HIDE DEF S
    <2>6. /\ Distinct(S, stamp) /\ now \in Nat /\ \A m \in S : stamp[m] <= now
          /\ InOrder(S, stamp) \in Seq(Message)
        BY <1>1, <2>4, MessageTimes
    <2>7. InOrder(S, stamp) \in Seq(S) BY <2>6, Listed
    <2>8. \A i \in DOMAIN shown' : req[shown'[i][1]].by = Me BY <2>2, <2>5, <2>7
    <2>9. Agrees(shown', S, stamp, {}) BY <2>2, <2>6, AgreesListed
    <2>10. Settled' BY <1>3, <2>1, <2>9 DEF Settled, S
    <2> QED BY <2>1, <2>2, <2>6, <2>8, <2>10 DEF At
<1>11. CASE ReceiveDeletion(r)
    <2>1. At(r, "done") /\ req[r].kind = "delete" BY <1>11 DEF ReceiveDeletion
    <2>2. Settled BY <1>5, <2>1 DEF UnderWay, Deleting
    <2>3. CASE Cleared
        <3>1. active' = NoConversation /\ shown' = <<>> BY <2>3 DEF Cleared
        <3>2. Of(stored, req, NoConversation) = {} BY <1>1, NoneOf DEF ChatAssumption
        <3>3. Agrees(<<>>, {}, stamp, {}) BY AgreesWithNone DEF Questions
        <3>4. Settled' BY <1>3, <3>1, <3>2, <3>3 DEF Settled
        <3> QED BY <2>1, <3>1, <3>4 DEF At
    <2>4. CASE active' = active /\ shown' = shown
        <3>1. Settled' BY <1>3, <2>2, <2>4 DEF Settled
        <3> QED BY <1>5, <1>8, <2>1, <2>4, <3>1 DEF At
    <2> QED BY <1>11, <2>3, <2>4 DEF ReceiveDeletion
<1>12. CASE ReceiveError(r)
    <2>1. /\ req[r].kind # "read" /\ At(r, "failed") /\ <<r, "ASSISTANT">> \notin stored
          /\ active' = active /\ shown' = shown
        BY <1>12 DEF ReceiveError
    <2>2. CASE req[r].kind = "delete"
        <3>1. Settled' BY <1>3, <1>5, <2>1, <2>2 DEF UnderWay, Deleting, Settled
        <3> QED BY <1>5, <1>8, <2>1, <3>1 DEF At
    <2>3. CASE req[r].kind = "chat"
        <3>1. Asking(r) BY <1>5, <2>3 DEF UnderWay
        <3>2. CASE active = req[r].conv
            <4>1. <<r, "ASSISTANT">> \notin Of(stored, req, active) BY <2>1 DEF Of
            <4>2. Settled BY <3>1, <3>2, <4>1, AgreesWithoutPending DEF Asking, Settled
            <4>3. Settled' BY <1>3, <2>1, <4>2 DEF Settled
            <4> QED BY <1>5, <1>8, <2>1, <4>3 DEF At
        <3>3. CASE active = NoConversation /\ Questions(shown)
            <4>1. Of(stored, req, active) = {} BY <1>1, <3>3, NoneOf DEF ChatAssumption
            <4>2. Agrees(shown, {}, stamp, {}) BY <3>3, AgreesWithNone
            <4>3. Settled' BY <1>3, <2>1, <4>1, <4>2 DEF Settled
            <4> QED BY <1>5, <1>8, <2>1, <4>3 DEF At
        <3> QED BY <3>1, <3>2, <3>3 DEF Asking
    <2> QED BY <1>6, <2>1, <2>2, <2>3
<1> QED BY <1>9, <1>10, <1>11, <1>12 DEF Receive

-----------------------------------------------------------------------------
LEMMA PageTypesStep ==
    ASSUME CInv, Times, PageTypes, ChatAssumption, MeAssumption, [Next]_vars
    PROVE  PageTypes'
<1>1. IInv /\ Types BY DEF CInv, IInv
<1>2. req \in [Request -> ChatRequest] BY <1>1 DEF Types
<1>3. /\ <<>> \in Seq(Message)
      /\ \A r \in Request, role \in {"USER", "ASSISTANT"} : Append(shown, <<r, role>>) \in Seq(Message)
    <2>1. \A r \in Request, role \in {"USER", "ASSISTANT"} : <<r, role>> \in Message
        BY DEF Message, Role
    <2>2. \A m \in Message : Append(shown, m) \in Seq(Message) BY DEF PageTypes
    <2> QED BY <2>1, <2>2
<1>4. CASE UNCHANGED vars BY <1>4 DEF vars, pageVars, PageTypes
<1>5. CASE StartNewConversation
    <2>1. disturbed' = (disturbed \/ calls # {})
          /\ active' = NoConversation /\ shown' = <<>> /\ error' = FALSE /\ failed' = FALSE
          /\ UNCHANGED <<sending, loading, capturedActive>>
        BY <1>5 DEF StartNewConversation, Cleared
    <2>2. disturbed' \in BOOLEAN BY <2>1
    <2>3. shown' \in Seq(Message) BY <1>3, <2>1
    <2> QED BY <2>1, <2>2, <2>3 DEF PageTypes
<1>6. ASSUME NEW r \in Request, NEW kind, NEW c, Call(r, kind, c)
      PROVE  disturbed' \in BOOLEAN /\ capturedActive' \in [Request -> Conversation \cup {NoConversation}]
    BY <1>6 DEF Call, PageTypes
<1>7. ASSUME NEW r \in Request, Send(r) \/ Retry(r) PROVE PageTypes'
    <2>1. SendMessage(r) BY <1>7 DEF Send, Retry
    <2>2. /\ shown' = Append(shown, <<r, "USER">>)
          /\ sending' = TRUE /\ error' = FALSE /\ failed' = FALSE
          /\ UNCHANGED <<active, loading>>
          /\ Call(r, "chat", active)
        BY <2>1 DEF SendMessage
    <2>3. shown' \in Seq(Message) BY <1>3, <2>2
    <2> QED BY <1>6, <2>2, <2>3 DEF PageTypes
<1>8. ASSUME NEW r \in Request, LoadConversation(r) \/ RemoveConversation(r) PROVE PageTypes'
    <2>1. PICK c \in Offered, kind \in {"read", "delete"} :
            Call(r, kind, c) /\ (active' = active \/ active' = c)
        BY <1>8 DEF LoadConversation, RemoveConversation
    <2>2. c \in Conversation BY DEF Offered
    <2>3. /\ shown' = shown /\ sending' = sending /\ failed' = failed
          /\ error' \in BOOLEAN /\ loading' \in BOOLEAN
        BY <1>8 DEF LoadConversation, RemoveConversation, PageTypes
    <2> QED BY <1>6, <2>1, <2>2, <2>3 DEF PageTypes
<1>9. ASSUME NEW r \in Request, Receive(r) PROVE PageTypes'
    <2>1. capturedActive' = capturedActive
        BY <1>9 DEF Receive, ReceiveAnswer, ReceiveMessages, ReceiveDeletion, ReceiveError, Over
    <2>2. CASE ReceiveAnswer(r)
        <3>1. req[r].conv \in Conversation \cup {NoConversation} BY <1>2 DEF ChatRequest
        <3>2. shown' \in Seq(Message) BY <1>3, <2>2 DEF ReceiveAnswer
        <3> QED BY <2>1, <2>2, <3>1, <3>2 DEF ReceiveAnswer, PageTypes
    <2>3. CASE ReceiveMessages(r)
        BY <2>1, <2>3 DEF ReceiveMessages, PageTypes, Times
    <2>4. CASE ReceiveDeletion(r)
        <3>1. active' = active \/ active' = NoConversation BY <2>4 DEF ReceiveDeletion, Cleared
        <3>2. shown' \in Seq(Message) BY <1>3, <2>4 DEF ReceiveDeletion, Cleared, PageTypes
        <3>3. UNCHANGED <<sending, loading, disturbed>> BY <2>4 DEF ReceiveDeletion
        <3>4. error' \in BOOLEAN /\ failed' \in BOOLEAN
            BY <2>4 DEF ReceiveDeletion, Cleared, PageTypes
        <3> QED BY <2>1, <3>1, <3>2, <3>3, <3>4 DEF PageTypes
    <2>5. CASE ReceiveError(r)
        <3>1. error' = TRUE /\ active' = active /\ shown' = shown BY <2>5 DEF ReceiveError
        <3>2. failed' \in BOOLEAN BY <2>5 DEF ReceiveError
        <3>3. sending' \in BOOLEAN BY <2>5 DEF ReceiveError, EndSending
        <3>4. loading' \in BOOLEAN BY <2>5 DEF ReceiveError
        <3>5. disturbed' \in BOOLEAN BY <2>5 DEF ReceiveError
        <3> QED BY <2>1, <3>1, <3>2, <3>3, <3>4, <3>5 DEF PageTypes
    <2> QED BY <1>9, <2>2, <2>3, <2>4, <2>5 DEF Receive
<1>10. ASSUME NEW r \in Request, ServerStep(r) \/ Elsewhere(r) PROVE PageTypes'
    <2>1. UNCHANGED <<active, shown, sending, loading, error, failed, capturedActive>>
        BY <1>10 DEF ServerStep, Elsewhere, pageVars
    <2>2. disturbed' \in BOOLEAN BY <1>10 DEF ServerStep, Elsewhere, pageVars, PageTypes
    <2> QED BY <2>1, <2>2 DEF PageTypes
<1> QED BY <1>4, <1>5, <1>7, <1>8, <1>9, <1>10 DEF Next

\* Unless the user is impatient, uses another client or loses an answer.
LEMMA UndisturbedStep ==
    ASSUME CInv, Times, PageTypes, ~disturbed => Undisturbed, ChatAssumption, MeAssumption,
           [Next]_vars, ~disturbed'
    PROVE  Undisturbed'
<1>1. IInv /\ PageInv BY DEF CInv, IInv
<1>2. CASE UNCHANGED vars
    BY <1>2 DEF vars, chatVars, pageVars, Undisturbed, UnderWay, Asking, Loading, Deleting, Settled, At
<1>3. CASE StartNewConversation
    <2>1. disturbed' = (disturbed \/ calls # {}) /\ Cleared /\ UNCHANGED <<chatVars, calls>>
        BY <1>3 DEF StartNewConversation
    <2>2. calls = {} /\ Undisturbed BY <2>1
    <2>3. active' = NoConversation /\ shown' = <<>> BY <2>1 DEF Cleared
    <2>4. Of(stored, req, NoConversation) = {} BY <1>1, NoneOf DEF ChatAssumption
    <2>5. Agrees(<<>>, {}, stamp, {}) BY AgreesWithNone DEF Questions
    <2>6. UNCHANGED <<owner, gone, stored, req, stamp>> BY <2>1 DEF chatVars
    <2>7. Settled' BY <2>3, <2>4, <2>5, <2>6 DEF Settled
    <2> QED BY <2>1, <2>2, <2>3, <2>6, <2>7 DEF Undisturbed
<1>4. ASSUME NEW r \in Request, NEW kind, NEW c, Call(r, kind, c)
      PROVE  calls = {} /\ Undisturbed
    <2>1. disturbed' = (disturbed \/ calls # {}) BY <1>4 DEF Call
    <2> QED BY <2>1
<1>5. ASSUME NEW r \in Request, Send(r) \/ Retry(r) PROVE Undisturbed'
    <2>1. ~sending /\ SendMessage(r) BY <1>1, <1>5 DEF Send, Retry, PageInv
    <2>2. calls = {} /\ Undisturbed BY <1>4, <2>1 DEF SendMessage
    <2>3. SubmitAny(r) BY <2>1, SendMessageStep
    <2> QED BY <2>1, <2>2, <2>3, SendUndisturbed
<1>6. ASSUME NEW r \in Request, LoadConversation(r) \/ RemoveConversation(r) PROVE Undisturbed'
    <2>1. calls = {} /\ Undisturbed BY <1>4, <1>6 DEF LoadConversation, RemoveConversation
    <2>2. SubmitAny(r) BY <1>6, OtherCallStep
    <2> QED BY <1>6, <2>1, <2>2, OtherCallUndisturbed
<1>7. ASSUME NEW r \in Request, Receive(r) PROVE Undisturbed'
    <2>1. ~disturbed
        <3>1. disturbed' = disturbed \/ ReceiveError(r)
            BY <1>7 DEF Receive, ReceiveAnswer, ReceiveMessages, ReceiveDeletion
        <3>2. CASE ReceiveError(r) BY <3>2 DEF ReceiveError
        <3>3. CASE disturbed' = disturbed BY <3>3
        <3> QED BY <3>1, <3>2, <3>3
    <2> QED BY <1>7, <2>1, ReceiveUndisturbed
<1>8. ASSUME NEW r \in Request, ServerStep(r) PROVE Undisturbed'
    <2>1. disturbed' = disturbed BY <1>8 DEF ServerStep, pageVars
    <2>2. ~disturbed BY <2>1
    <2> QED BY <1>8, <2>2, ServerUndisturbed
<1>9. ASSUME NEW r \in Request, Elsewhere(r) PROVE Undisturbed'
    <2>1. /\ SubmitAny(r) /\ disturbed' = (disturbed \/ req'[r].by = Me)
          /\ UNCHANGED <<active, shown, calls, capturedActive>>
        BY <1>9 DEF Elsewhere
    <2>2. ~disturbed /\ req'[r].by # Me BY <2>1
    <2>3. r \notin calls BY <1>1, <2>1 DEF PageInv, SubmitAny, Submit
    <2> QED BY <2>1, <2>2, <2>3, OthersUndisturbed DEF Step
<1> QED BY <1>2, <1>3, <1>5, <1>6, <1>7, <1>8, <1>9 DEF Next

LEMMA PageHolds ==
    ASSUME ChatAssumption, MeAssumption
    PROVE  Spec => [](CInv /\ Times /\ PageTypes /\ (~disturbed => Undisturbed))
<1>1. Init => PageTypes
    <2> SUFFICES ASSUME Init PROVE PageTypes OBVIOUS
    <2>1. capturedActive = [r \in Request |-> NoConversation] /\ shown = <<>> BY DEF Init, PageInit
    <2>2. shown \in Seq(Message) BY <2>1
    <2> QED BY <2>1, <2>2 DEF Init, PageInit, PageTypes
<1>2. Init => Undisturbed
    <2> SUFFICES ASSUME Init PROVE Undisturbed OBVIOUS
    <2>1. calls = {} /\ shown = <<>> /\ active = NoConversation BY DEF Init, PageInit
    <2>2. stored = {} /\ \A r \in Request : req[r].by = NoUser
        BY DEF Init, ChatInit, NoRequest
    <2>3. Of(stored, req, active) = {} BY <2>2 DEF Of
    <2>4. Settled BY <2>1, <2>3, AgreesWithNone DEF Settled, Questions
    <2> QED BY <2>1, <2>2, <2>4 DEF Undisturbed, ChatAssumption, MeAssumption
<1>3. CInv /\ Times /\ PageTypes /\ (~disturbed => Undisturbed) /\ [Next]_vars
        => PageTypes' /\ (~disturbed => Undisturbed)'
    BY PageTypesStep, UndisturbedStep
<1>4. Spec => []CInv BY CInvInvariant
<1>5. Spec => []Times BY PageUsesEndpoints, TimesInvariant, PTL
<1> QED BY <1>1, <1>2, <1>3, <1>4, <1>5, PTL DEF Spec

\* As long as the user waits for each answer, the page shows what is stored of
\* the active conversation, once and in order (useAssistantChat), for any number
\* of conversations, requests and other users, and whatever fails.
THEOREM PageShowsStored ==
    ASSUME ChatAssumption, MeAssumption
    PROVE  Spec => []ShownIsStored
<1>1. (~disturbed => Undisturbed) => ShownIsStored
    <2> SUFFICES ASSUME Undisturbed, calls = {}, Live(active)
                 PROVE  /\ \A i, j \in DOMAIN shown :
                            i < j /\ InActive(shown[i]) /\ InActive(shown[j]) =>
                                stamp[shown[i]] < stamp[shown[j]]
                        /\ \A m \in MessagesOf(active) : \E i \in DOMAIN shown : shown[i] = m
                        /\ \A i \in DOMAIN shown : InActive(shown[i]) \/ shown[i][2] = "USER"
        BY DEF ShownIsStored
    <2>1. Agrees(shown, Of(stored, req, active), stamp, {})
        BY DEF Undisturbed, Settled, Current, Live
    <2>2. MessagesOf(active) = Of(stored, req, active) BY DEF MessagesOf, Of
    <2> QED BY <2>1, <2>2 DEF Agrees, InActive
<1> QED BY <1>1, PageHolds, PTL

\* Every list a reading request is given is one of messages, in whatever order
\* requests overlap (get_conversation), and the page's variables keep their types.
THEOREM PageTypesHold ==
    ASSUME ChatAssumption, MeAssumption
    PROVE  Spec => []TypeOK
<1>1. CInv /\ Times /\ PageTypes => TypeOK
    BY DEF CInv, IInv, Types, PageInv, Times, PageTypes, TypeOK, ChatTypeOK
<1> QED BY <1>1, PageHolds, PTL
=============================================================================
