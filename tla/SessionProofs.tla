--------------------------- MODULE SessionProofs ---------------------------
(***************************************************************************)
(* The properties of sessions, for any accounts, tokens, tabs and calls,   *)
(* whatever interleaves or fails.  Tokens are only ever issued, revoked    *)
(* and expired, never the other way (TokensGrow), and a step of one call   *)
(* leaves the others alone, so that what is known of a call in flight      *)
(* (CallInv) survives the steps of all others (Frame).  Of the tokens of   *)
(* one sign-in at most one stands, and at most one refresh trades it, for  *)
(* as long as no two refreshes found the same token good (Single); a log   *)
(* out that was in time leaves neither (Over).                             *)
(***************************************************************************)
EXTENDS SessionProperties, AccountsProofs

Granted == {"found", "owned", "issuing", "issued", "profile", "known", "unknown"}
HasHeir == {"issued", "profile", "known", "unknown", "crashed"}

SubjectOf(c) == Subject(call[c].kind, call[c].who, call[c].cookie)

\* What a call carries was issued.
Known(c) ==
    /\ call[c].cookie # NoToken => Issued(call[c].cookie)
    /\ call[c].heir # NoToken =>
           /\ Issued(call[c].heir)
           /\ token[call[c].heir].owner = call[c].who
           /\ call[c].at \in HasHeir

\* Which kind of call can be at a point, and for whom.
Placed(c) ==
    /\ Is(c, "refresh") /\ call[c].at \in Granted =>
           Issued(call[c].cookie) /\ call[c].who = token[call[c].cookie].owner
    /\ Is(c, "login") \/ Is(c, "register") =>
           call[c].who \in Account /\ call[c].at \notin {"found", "owned", "loggedout"}
    /\ Is(c, "logout") =>
           /\ call[c].at \notin (Granted \ {"found"}) \cup {"free"}
           /\ At(c, "found") => Issued(call[c].cookie)
    /\ At(c, "loggedout") => Is(c, "logout") /\ (call[c].late \/ Issued(call[c].cookie))
    /\ At(c, "free") => Is(c, "register")

SpentRefused(c) ==
    Is(c, "refresh") /\ call[c].spent =>
        /\ Issued(call[c].cookie) /\ Spent(call[c].cookie)
        /\ call[c].at \in {"sent", "refused", "crashed"}

Spends(c) ==
    /\ Is(c, "refresh") \/ Is(c, "logout")
    /\ call[c].at \in {"issuing", "issued", "profile", "known", "loggedout"}
    /\ Issued(call[c].cookie)
    => token[call[c].cookie].revoked

BarHolds(c) ==
    call[c].barred =>
        /\ Barred(SubjectOf(c))
        /\ call[c].at \in {"sent", "found", "refused", "loggedout", "crashed",
                           "profile", "unknown"}

CallInv(c) == Known(c) /\ Placed(c) /\ SpentRefused(c) /\ Spends(c) /\ BarHolds(c)

\* A token's chain leads to an issued token of the same account.
Chained ==
    \A k \in Token : Issued(k) =>
        Issued(token[k].root) /\ token[token[k].root].owner = token[k].owner

SessionInv ==
    /\ TypeOK
    /\ jar # NoToken => Issued(jar)
    /\ Chained
    /\ \A c \in Call : CallInv(c)

\* What every step does to the tokens that exist.
TokensGrow ==
    \A k \in Token : Issued(k) =>
        /\ Issued(k)'
        /\ token'[k].owner = token[k].owner /\ token'[k].root = token[k].root
        /\ token[k].revoked => token'[k].revoked
        /\ token[k].expired => token'[k].expired

BarStays == \A a \in Account : Barred(a) => Barred(a)'

-----------------------------------------------------------------------------
\* Initially every type is right.
LEMMA InitTyped == Init => TypeOK
  BY AccountsInitTyped
     DEF Init, TypeOK, TokenRow, NoRow, TabState, LoggedOut, CallState, NoCall, Point, Kind

\* A failed call leaves a well-typed tab behind.
LEMMA AfterFailureTyped ==
    ASSUME TypeOK, NEW c \in Call
    PROVE  AfterFailure(c) \in [Tab -> TabState]
  BY DEF TypeOK, AfterFailure, TabState, LoggedOut

-----------------------------------------------------------------------------
\* A step that takes nothing from the tokens and activates nobody leaves what
\* is known of the calls it does not touch.
LEMMA Frame ==
    ASSUME TypeOK, TypeOK', NEW c \in Call, CallInv(c),
           TokensGrow, BarStays,
           call'[c] = call[c] \/ call'[c] = [call[c] EXCEPT !.tab = NoTab]
    PROVE  CallInv(c)'
<1> USE DEF TypeOK, CallState, TokenRow
<1>1. ASSUME NEW k \in Token \cup {NoToken}, Issued(k)
      PROVE  /\ Issued(k)' /\ token'[k].owner = token[k].owner
             /\ Spent(k) => Spent(k)'
             /\ token[k].revoked => token'[k].revoked
  BY <1>1 DEF TokensGrow, Issued, Spent
<1>0. /\ call'[c].at = call[c].at /\ call'[c].kind = call[c].kind
      /\ call'[c].who = call[c].who /\ call'[c].cookie = call[c].cookie
      /\ call'[c].heir = call[c].heir /\ call'[c].spent = call[c].spent
      /\ call'[c].barred = call[c].barred /\ call'[c].late = call[c].late
  OBVIOUS
<1>2. Known(c)'
  BY <1>0, <1>1 DEF CallInv, Known
<1>3. Placed(c)'
  BY <1>0, <1>1 DEF CallInv, Placed, Is, At
<1>4. SpentRefused(c)'
  BY <1>0, <1>1 DEF CallInv, SpentRefused, Is
<1>5. Spends(c)'
  BY <1>0, <1>1 DEF CallInv, Known, Spends, Is, Issued
<1>6. BarHolds(c)'
  BY <1>0, <1>1 DEF CallInv, Known, BarHolds, SubjectOf, Subject, BarStays, Barred, Issued
<1> QED BY <1>2, <1>3, <1>4, <1>5, <1>6 DEF CallInv

\* An idle slot carries nothing.
LEMMA IdleInv ==
    ASSUME NEW c \in Call, call'[c] = NoCall
    PROVE  CallInv(c)'
  BY DEF NoCall, CallInv, Known, Placed, SpentRefused, Spends, BarHolds, Is, At, Granted

-----------------------------------------------------------------------------
\* Administration keeps the types of accounts and touches only `barred'.
LEMMA AdministerTyped ==
    ASSUME TypeOK, Administer
    PROVE  TypeOK'
<1>1. AccountsTypeOK'
  BY AccountsNextTyped DEF TypeOK, Administer, AccountsNext
<1>2. \A c \in Call : \A b \in BOOLEAN : [call[c] EXCEPT !.barred = b] \in CallState
  BY DEF TypeOK, CallState
<1>3. call' \in [Call -> CallState]
  <2>1. PICK now : call' = [c \in Call |-> [call[c] EXCEPT !.barred =
                     @ /\ Subject(call[c].kind, call[c].who, call[c].cookie) \in now]]
    BY Zenon DEF Administer
  <2>2. ASSUME NEW c \in Call PROVE call'[c] \in CallState
    <3>1. PICK b \in BOOLEAN :
            b = (call[c].barred /\ Subject(call[c].kind, call[c].who, call[c].cookie) \in now)
      OBVIOUS
    <3>2. call'[c] = [call[c] EXCEPT !.barred = b]
      BY <2>1, <3>1, Zenon
    <3> QED BY <1>2, <3>2
  <2>3. call' = [c \in Call |-> call'[c]]
    BY <2>1
  <2> QED BY <2>2, <2>3
<1> QED BY <1>1, <1>3 DEF TypeOK, Administer

\* What the frontend sends is a well-typed call.
LEMMA RequestTyped ==
    ASSUME TypeOK, NEW t \in Tab, NEW kind \in Kind, NEW a \in Account \cup {NoAccount}
    PROVE  Request(t, kind, a) \in CallState
<1>1. PICK s \in BOOLEAN : s = (Issued(jar) /\ Spent(jar))
  OBVIOUS
<1>2. PICK b \in BOOLEAN : b = Barred(Subject(kind, a, jar))
  BY Zenon DEF Barred
<1>3. jar \in Token \cup {NoToken}
  BY DEF TypeOK
<1>4. Request(t, kind, a) =
        [at |-> "sent", kind |-> kind, tab |-> t, who |-> a, cookie |-> jar,
         heir |-> NoToken, spent |-> s, barred |-> b, late |-> FALSE]
  BY <1>1, <1>2, Zenon DEF Request
<1> QED BY <1>3, <1>4 DEF CallState, Point

\* Sending keeps the types.
LEMMA SendTyped ==
    ASSUME TypeOK, NEW t \in Tab, Send(t), UNCHANGED accountVars
    PROVE  TypeOK'
<1>1. ASSUME NEW kind \in Kind, NEW a \in Account \cup {NoAccount}
      PROVE  Request(t, kind, a) \in CallState
  BY RequestTyped
<1>2. AccountsTypeOK'
  BY DEF TypeOK, AccountsTypeOK, accountVars
<1>3. CASE LoadPage(t)
  <2>1. PICK c \in Free : call' = [d \in Call |->
            IF d = c THEN Request(t, "refresh", NoAccount)
            ELSE IF call[d].tab = t THEN [call[d] EXCEPT !.tab = NoTab] ELSE call[d]]
    BY <1>3 DEF LoadPage
  <2>2. \A d \in Call : [call[d] EXCEPT !.tab = NoTab] \in CallState
    BY DEF TypeOK, CallState
  <2>3. Request(t, "refresh", NoAccount) \in CallState
    BY <1>1 DEF Kind
  <2>4. call' \in [Call -> CallState]
    BY <2>1, <2>2, <2>3 DEF TypeOK
  <2> QED BY <1>2, <1>3, <2>4 DEF LoadPage, TypeOK, TabState, Loading
<1>4. CASE SubmitForm(t)
  <2>1. PICK c \in Free, kind \in {"login", "register"}, a \in Account :
          call' = [call EXCEPT ![c] = Request(t, kind, a)]
    BY <1>4 DEF SubmitForm
  <2>2. Request(t, kind, a) \in CallState
    BY <1>1 DEF Kind
  <2> QED BY <1>2, <1>4, <2>1, <2>2 DEF SubmitForm, TypeOK
<1>5. CASE ClickLogout(t)
  <2>1. Request(t, "logout", NoAccount) \in CallState
    BY <1>1 DEF Kind
  <2> QED BY <1>2, <1>5, <2>1 DEF ClickLogout, TypeOK
<1> QED BY <1>3, <1>4, <1>5 DEF Send

\* Moving a call on keeps its type.
LEMMA GotoTyped ==
    ASSUME TypeOK, NEW c \in Call, NEW p \in Point, Goto(c, p)
    PROVE  call' \in [Call -> CallState]
BY DEF TypeOK, CallState, Goto

\* The server's steps keep the types.
LEMMA AnswerTyped ==
    ASSUME TypeOK, NEW c \in Call, CallInv(c), Answer(c), UNCHANGED accountVars
    PROVE  TypeOK'
<1>1. AccountsTypeOK'
  BY DEF TypeOK, AccountsTypeOK, accountVars
<1>0. /\ token \in [Token -> TokenRow] /\ call \in [Call -> CallState]
      /\ forked \subseteq Token \cup {NoToken}
  BY DEF TypeOK
<1>2. CASE LookUp(c)
  <2>1. CASE Issued(call[c].cookie) /\ ~Spent(call[c].cookie)
    <3>1. /\ token[call[c].cookie].owner \in Account \cup {NoAccount}
          /\ token[call[c].cookie].root \in Token \cup {NoToken}
      BY <1>0, <2>1 DEF Issued, CallState, TokenRow
    <3>2. call' \in [Call -> CallState]
      BY <1>0, <1>2, <2>1, <3>1 DEF LookUp, CallState, Point
    <3>3. forked' \subseteq Token \cup {NoToken}
      BY <1>0, <1>2, <2>1, <3>1 DEF LookUp, Forks
    <3> QED BY <1>1, <1>2, <3>2, <3>3 DEF LookUp, TypeOK
  <2>2. CASE ~(Issued(call[c].cookie) /\ ~Spent(call[c].cookie))
    <3>1. call' \in [Call -> CallState]
      BY <1>2, <2>2, GotoTyped DEF LookUp, Point
    <3> QED BY <1>1, <1>2, <2>2, <3>1 DEF LookUp, TypeOK
  <2> QED BY <2>1, <2>2
<1>3. CASE CheckOwner(c)
  <2>1. call' \in [Call -> CallState]
    BY <1>3, GotoTyped DEF CheckOwner, Point
  <2> QED BY <1>1, <1>3, <2>1 DEF CheckOwner, TypeOK
<1>4. CASE Revoke(c)
  <2>1. call[c].cookie \in Token
    BY <1>0, <1>4 DEF Revoke, CallInv, Placed, Issued, Is, At, Granted, Kind, CallState
  <2>2. token' \in [Token -> TokenRow]
    BY <1>0, <1>4, <2>1 DEF Revoke, TokenRow
  <2>3. call' \in [Call -> CallState]
    <3>1. PICK b \in BOOLEAN : b = (Is(c, "logout") /\ TooLate(call[c].cookie))
      OBVIOUS
    <3>2. call' = [call EXCEPT ![c].at = IF Is(c, "logout") THEN "loggedout" ELSE "issuing",
                               ![c].late = b]
      BY <1>4, <3>1, Zenon DEF Revoke, Revoked
    <3>3. \A p \in Point : [call[c] EXCEPT !.at = p, !.late = b] \in CallState
      BY <1>0 DEF CallState
    <3>4. \E p \in Point : call' = [call EXCEPT ![c] = [call[c] EXCEPT !.at = p, !.late = b]]
      BY <3>2 DEF Point
    <3> QED BY <1>0, <3>3, <3>4
  <2> QED BY <1>1, <1>4, <2>2, <2>3 DEF Revoke, TypeOK
<1>5. CASE Authenticate(c)
  <2>1. call' \in [Call -> CallState]
    BY <1>5, GotoTyped DEF Authenticate, Point
  <2> QED BY <1>1, <1>5, <2>1 DEF Authenticate, TypeOK
<1>6. CASE CheckAddress(c)
  <2>1. call' \in [Call -> CallState]
    BY <1>6, GotoTyped DEF CheckAddress, Point
  <2> QED BY <1>1, <1>6, <2>1 DEF CheckAddress, TypeOK
<1>7. CASE Issue(c)
  <2>1. PICK k \in Unissued :
          /\ token' = [token EXCEPT ![k] =
               [owner |-> call[c].who, revoked |-> FALSE, expired |-> FALSE,
                root |-> IF Is(c, "refresh") THEN token[call[c].cookie].root ELSE k]]
          /\ call' = [call EXCEPT ![c].at = "issued", ![c].heir = k]
    BY <1>7 DEF Issue
  <2>2. k \in Token /\ call[c].who \in Account \cup {NoAccount}
    BY <1>0 DEF Unissued, CallState
  <2>3. PICK r \in Token \cup {NoToken} :
          r = IF Is(c, "refresh") THEN token[call[c].cookie].root ELSE k
    BY <1>0, <1>7, <2>2 DEF Issue, TokenRow, CallInv, Placed, Issued, Granted, CallState, At
  <2>4. token' = [token EXCEPT ![k] = [owner |-> call[c].who, revoked |-> FALSE,
                                       expired |-> FALSE, root |-> r]]
    BY <2>1, <2>3
  <2>5. token' \in [Token -> TokenRow]
    BY <1>0, <2>2, <2>4 DEF TokenRow
  <2>6. call' \in [Call -> CallState]
    <3>1. [call[c] EXCEPT !.at = "issued", !.heir = k] \in CallState
      BY <1>0, <2>2 DEF CallState, Point
    <3>2. call' = [call EXCEPT ![c] = [call[c] EXCEPT !.at = "issued", !.heir = k]]
      BY <2>1
    <3> QED BY <1>0, <3>1, <3>2
  <2> QED BY <1>1, <1>7, <2>5, <2>6 DEF Issue, TypeOK
<1>8. CASE LookUpForLogout(c)
  <2>1. call' \in [Call -> CallState]
    <3>1. CASE Goto(c, "found")
      BY <3>1, GotoTyped DEF Point
    <3>2. CASE call' = [call EXCEPT ![c].at = "loggedout", ![c].late = TRUE]
      <4>1. [call[c] EXCEPT !.at = "loggedout", !.late = TRUE] \in CallState
        BY <1>0 DEF CallState, Point
      <4>2. call' = [call EXCEPT ![c] = [call[c] EXCEPT !.at = "loggedout", !.late = TRUE]]
        BY <3>2
      <4> QED BY <1>0, <4>1, <4>2
    <3> QED BY <1>8, <3>1, <3>2 DEF LookUpForLogout
  <2> QED BY <1>1, <1>8, <2>1 DEF LookUpForLogout, TypeOK
<1>9. CASE ReadProfile(c)
  <2>1. call' \in [Call -> CallState]
    BY <1>9, GotoTyped DEF ReadProfile, Point
  <2> QED BY <1>1, <1>9, <2>1 DEF ReadProfile, TypeOK
<1> QED
  BY <1>2, <1>3, <1>4, <1>5, <1>6, <1>7, <1>8, <1>9 DEF Answer

\* What the browser receives keeps the types.
LEMMA ReceiveTyped ==
    ASSUME TypeOK, NEW c \in Call, CallInv(c), Receive(c) \/ CallFails(c),
           UNCHANGED accountVars
    PROVE  TypeOK'
<1>1. AccountsTypeOK'
  BY DEF TypeOK, AccountsTypeOK, accountVars
<1>2. NoCall \in CallState
  BY DEF NoCall, CallState, Point, Kind
<1>3. AfterFailure(c) \in [Tab -> TabState]
  BY AfterFailureTyped
<1>4. CASE ReceiveToken(c)
  <2>1. CASE call[c].tab = NoTab
    BY <1>1, <1>2, <1>4, <2>1 DEF ReceiveToken, TypeOK, CallState
  <2>2. CASE call[c].tab # NoTab
    <3>1. PICK b \in BOOLEAN : b = Barred(call[c].who)
      BY Zenon DEF Barred
    <3>2. call' = [call EXCEPT ![c].at = "profile", ![c].barred = b] /\ jar' = call[c].heir
      BY <1>4, <2>2, <3>1 DEF ReceiveToken
    <3> QED BY <1>1, <1>4, <3>2 DEF ReceiveToken, TypeOK, CallState, Point
  <2> QED BY <2>1, <2>2
<1>5. CASE ReceiveProfile(c)
  BY <1>1, <1>2, <1>5 DEF ReceiveProfile, TypeOK, CallState, TabState
<1>6. CASE ReceiveError(c)
  BY <1>1, <1>2, <1>3, <1>6 DEF ReceiveError, TypeOK
<1>8. CASE CallFails(c)
  BY <1>1, <1>3, <1>8 DEF CallFails, ConnectionFails, HandlerFails, Goto, TypeOK, CallState, Point
<1>7. CASE ReceiveLogout(c)
  <2>1. tab' \in [Tab -> TabState]
    BY <1>7 DEF ReceiveLogout, TypeOK, TabState, LoggedOut
  <2>2. ended' \subseteq Token \cup {NoToken}
    <3>1. call[c].late \/ Issued(call[c].cookie)
      BY <1>7 DEF ReceiveLogout, CallInv, Placed
    <3> QED BY <1>7, <3>1 DEF ReceiveLogout, TypeOK, TokenRow, Issued, CallState
  <2>3. jar' \in Token \cup {NoToken}
    BY <1>7 DEF ReceiveLogout, TypeOK
  <2> QED BY <1>1, <1>2, <1>7, <2>1, <2>2, <2>3 DEF ReceiveLogout, TypeOK
<1> QED BY <1>4, <1>5, <1>6, <1>7, <1>8 DEF Receive

\* So do registrations and the passing of time.
LEMMA OthersTyped ==
    ASSUME TypeOK,
           \/ \E c \in Call : InsertUser(c)
           \/ (\E k \in Token : Expire(k)) /\ UNCHANGED accountVars
    PROVE  TypeOK'
<1>1. ASSUME NEW c \in Call, InsertUser(c) PROVE TypeOK'
  <2>1. AccountsTypeOK'
    <3>1. CASE RegisterUser(call[c].who) /\ call[c].who \in Account
      BY <3>1, AccountsNextTyped DEF TypeOK, AccountsNext
    <3>2. CASE RegisterUser(call[c].who) /\ call[c].who \notin Account
      BY <3>2 DEF TypeOK, AccountsTypeOK, RegisterUser, Created
    <3>3. CASE UNCHANGED accountVars
      BY <3>3 DEF TypeOK, AccountsTypeOK, accountVars
    <3> QED BY <1>1, <3>1, <3>2, <3>3 DEF InsertUser
  <2> QED BY <1>1, <2>1 DEF InsertUser, Goto, TypeOK, CallState, Point
<1>2. ASSUME NEW k \in Token, Expire(k), UNCHANGED accountVars PROVE TypeOK'
  <2>1. token' \in [Token -> TokenRow]
    <3>1. token' = [token EXCEPT ![k].expired = TRUE]
      BY <1>2 DEF Expire
    <3> QED BY <3>1 DEF TypeOK, TokenRow
  <2> QED BY <1>2, <2>1 DEF Expire, TypeOK, AccountsTypeOK, accountVars
<1> QED BY <1>1, <1>2

\* Every step keeps the types.
LEMMA NextTyped ==
    ASSUME SessionInv, [Next]_vars
    PROVE  TypeOK'
<1>1. TypeOK /\ \A c \in Call : CallInv(c)
  BY DEF SessionInv
<1>2. CASE UNCHANGED vars
  BY <1>1, <1>2 DEF vars, TypeOK, AccountsTypeOK
<1>3. CASE Administer
  BY <1>1, <1>3, AdministerTyped
<1>4. CASE (\E t \in Tab : Send(t)) /\ UNCHANGED accountVars
  BY <1>1, <1>4, SendTyped
<1>5. ASSUME NEW c \in Call, Answer(c) /\ UNCHANGED accountVars PROVE TypeOK'
  BY <1>1, <1>5, AnswerTyped
<1>6. ASSUME NEW c \in Call, (Receive(c) \/ CallFails(c)) /\ UNCHANGED accountVars PROVE TypeOK'
  BY <1>1, <1>6, ReceiveTyped
<1>7. CASE \/ \E c \in Call : InsertUser(c)
           \/ (\E k \in Token : Expire(k)) /\ UNCHANGED accountVars
  BY <1>1, <1>7, OthersTyped
<1> QED BY <1>2, <1>3, <1>4, <1>5, <1>6, <1>7 DEF Next, Proceed

-----------------------------------------------------------------------------
\* A call as it is sent satisfies what is claimed of calls.
LEMMA RequestInv ==
    ASSUME SessionInv, NEW c \in Call, NEW t \in Tab, NEW kind \in Kind,
           NEW a \in Account \cup {NoAccount},
           kind \in {"login", "register"} => a \in Account,
           UNCHANGED <<token, user>>, call'[c] = Request(t, kind, a)
    PROVE  CallInv(c)'
<1>1. jar # NoToken => Issued(jar)
  BY DEF SessionInv
<1>2. PICK s \in BOOLEAN : s = (Issued(jar) /\ Spent(jar))
  OBVIOUS
<1>3. PICK b \in BOOLEAN : b = Barred(Subject(kind, a, jar))
  BY Zenon DEF Barred
<1>4. call'[c] = [at |-> "sent", kind |-> kind, tab |-> t, who |-> a, cookie |-> jar,
                  heir |-> NoToken, spent |-> s, barred |-> b, late |-> FALSE]
  BY <1>2, <1>3, Zenon DEF Request
<1>5. /\ call'[c].at = "sent" /\ call'[c].kind = kind /\ call'[c].who = a
      /\ call'[c].cookie = jar /\ call'[c].heir = NoToken
      /\ call'[c].spent = s /\ call'[c].barred = b
  BY <1>4
<1>6. Known(c)' /\ Placed(c)' /\ Spends(c)'
  BY <1>1, <1>5 DEF Known, Placed, Spends, Issued, Is, At, Granted
<1>7. SpentRefused(c)'
  BY <1>2, <1>5 DEF SpentRefused, Issued, Spent, Is
<1>8. BarHolds(c)'
  BY <1>3, <1>5 DEF BarHolds, SubjectOf, Subject, Barred, Issued, Registered, Active
<1> QED BY <1>6, <1>7, <1>8 DEF CallInv

\* Sending keeps the invariant.
LEMMA SendInv ==
    ASSUME SessionInv, NEW t \in Tab, Send(t), UNCHANGED accountVars
    PROVE  SessionInv'
<1>1. TypeOK /\ TypeOK'
  BY SendTyped DEF SessionInv
<1>2. UNCHANGED <<token, jar, user>>
  BY DEF Send, LoadPage, SubmitForm, ClickLogout, accountVars
<1>3. TokensGrow /\ BarStays
  BY <1>2 DEF TokensGrow, BarStays, Issued, Barred, Registered, Active
<1>4. (jar # NoToken => Issued(jar))' /\ Chained'
  BY <1>2 DEF SessionInv, Chained, Issued
<1>5. ASSUME NEW d \in Call PROVE CallInv(d)'
  <2>1. ASSUME call'[d] = call[d] \/ call'[d] = [call[d] EXCEPT !.tab = NoTab]
        PROVE  CallInv(d)'
    BY <1>1, <1>3, <2>1, Frame DEF SessionInv
  <2>2. CASE LoadPage(t)
    <3>1. PICK c \in Free : call' = [e \in Call |->
            IF e = c THEN Request(t, "refresh", NoAccount)
            ELSE IF call[e].tab = t THEN [call[e] EXCEPT !.tab = NoTab] ELSE call[e]]
      BY <2>2 DEF LoadPage
    <3>2. CASE d = c
      BY <1>2, <3>1, <3>2, RequestInv DEF Kind
    <3>3. CASE d # c
      BY <2>1, <3>1, <3>3
    <3> QED BY <3>2, <3>3
  <2>3. CASE SubmitForm(t)
    <3>1. PICK c \in Free, kind \in {"login", "register"}, a \in Account :
            call' = [call EXCEPT ![c] = Request(t, kind, a)]
      BY <2>3 DEF SubmitForm
    <3>2. CASE d = c
      BY <1>1, <1>2, <3>1, <3>2, RequestInv DEF Kind, TypeOK
    <3>3. CASE d # c
      BY <1>1, <2>1, <3>1, <3>3 DEF TypeOK
    <3> QED BY <3>2, <3>3
  <2>4. CASE ClickLogout(t)
    <3>1. PICK c \in Free : call' = [call EXCEPT ![c] = Request(t, "logout", NoAccount)]
      BY <2>4 DEF ClickLogout
    <3>2. CASE d = c
      BY <1>1, <1>2, <3>1, <3>2, RequestInv DEF Kind, TypeOK
    <3>3. CASE d # c
      BY <1>1, <2>1, <3>1, <3>3 DEF TypeOK
    <3> QED BY <3>2, <3>3
  <2> QED BY <2>2, <2>3, <2>4 DEF Send
<1> QED BY <1>1, <1>4, <1>5 DEF SessionInv

-----------------------------------------------------------------------------
\* A step of one call preserves the invariant if it does so for that call.
LEMMA OneCall ==
    ASSUME SessionInv, TypeOK', NEW c \in Call,
           \A d \in Call \ {c} : call'[d] = call[d],
           CallInv(c)', TokensGrow, BarStays, Chained', (jar # NoToken => Issued(jar))'
    PROVE  SessionInv'
<1>1. \A d \in Call \ {c} : CallInv(d)'
  BY Frame DEF SessionInv
<1> QED BY <1>1 DEF SessionInv

\* If neither tokens nor accounts change, they neither grow nor are activated.
LEMMA NothingGrows ==
    ASSUME SessionInv, UNCHANGED <<token, user>>
    PROVE  TokensGrow /\ BarStays /\ Chained'
  BY DEF TokensGrow, BarStays, Issued, Barred, Registered, Active, SessionInv, Chained

\* The server's steps on a call keep what is claimed of it, the tokens' chains,
\* and every token that exists.
LEMMA AnswerKeeps ==
    ASSUME SessionInv, TypeOK', NEW c \in Call, Answer(c), UNCHANGED accountVars
    PROVE  /\ \A d \in Call \ {c} : call'[d] = call[d]
           /\ CallInv(c)' /\ TokensGrow /\ BarStays /\ Chained' /\ UNCHANGED jar
<1>1. TypeOK /\ CallInv(c) /\ UNCHANGED user
  BY DEF SessionInv, accountVars
<1>2. \A d \in Call \ {c} : call'[d] = call[d]
  BY <1>1 DEF TypeOK, Answer, LookUp, CheckOwner, Revoke, Revoked, Authenticate, CheckAddress,
     Issue, LookUpForLogout, ReadProfile, Goto
<1>3. UNCHANGED jar
  BY DEF Answer, LookUp, CheckOwner, Revoke, Authenticate, CheckAddress, Issue,
     LookUpForLogout, ReadProfile
<1>4. BarStays
  BY <1>1 DEF BarStays, Barred, Registered, Active
<1> DEFINE To(p) ==
        /\ call'[c].at = p /\ call'[c].kind = call[c].kind
        /\ call'[c].who = call[c].who /\ call'[c].cookie = call[c].cookie
        /\ call'[c].heir = call[c].heir /\ call'[c].spent = call[c].spent
        /\ call'[c].barred = call[c].barred
<1>5. ASSUME NEW p \in Point, Goto(c, p) PROVE To(p)
  BY <1>1, <1>5 DEF TypeOK, CallState, Goto
<1> USE DEF CallInv, Known, Placed, SpentRefused, Spends, BarHolds, SubjectOf, Subject,
            Issued, Spent, Barred, Registered, Active, Is, At, Granted, HasHeir
<1>6. CASE LookUp(c)
  <2>1. CASE Issued(call[c].cookie) /\ ~Spent(call[c].cookie)
    <3>1. /\ call'[c].at = "found" /\ call'[c].kind = call[c].kind
          /\ call'[c].who = token[call[c].cookie].owner /\ call'[c].cookie = call[c].cookie
          /\ call'[c].heir = call[c].heir /\ call'[c].spent = call[c].spent
          /\ call'[c].barred = call[c].barred /\ UNCHANGED token
      BY <1>1, <1>6, <2>1 DEF LookUp, TypeOK, CallState
    <3> QED BY <1>1, <1>2, <1>3, <1>4, <1>6, <2>1, <3>1, NothingGrows DEF LookUp
  <2>2. CASE ~(Issued(call[c].cookie) /\ ~Spent(call[c].cookie))
    <3>1. To("refused") /\ UNCHANGED token
      BY <1>5, <1>6, <2>2 DEF LookUp, Point
    <3> QED BY <1>1, <1>2, <1>3, <1>4, <1>6, <3>1, NothingGrows DEF LookUp
  <2> QED BY <2>1, <2>2
<1>7. CASE CheckOwner(c)
  <2>1. /\ (To("owned") /\ Active(call[c].who)) \/ To("refused")
        /\ UNCHANGED token
    BY <1>5, <1>7 DEF CheckOwner, Point
  <2> QED BY <1>1, <1>2, <1>3, <1>4, <1>7, <2>1, NothingGrows DEF CheckOwner
<1>8. CASE Revoke(c)
  <2>1. /\ \/ Is(c, "logout") /\ To("loggedout")
           \/ Is(c, "refresh") /\ To("issuing")
        /\ token' = [token EXCEPT ![call[c].cookie].revoked = TRUE]
    <3>1. PICK b : b = (Is(c, "logout") /\ TooLate(call[c].cookie))
      OBVIOUS
    <3>2. call' = [call EXCEPT ![c].at = IF Is(c, "logout") THEN "loggedout" ELSE "issuing",
                               ![c].late = b]
      BY <1>8, <3>1, Zenon DEF Revoke, Revoked
    <3> QED BY <1>1, <1>8, <3>2 DEF Revoke, Point, Kind, TypeOK, CallState
  <2>2. call[c].cookie \in Token /\ Issued(call[c].cookie)
    BY <1>1, <1>8 DEF Revoke, TypeOK, CallState, Kind
  <2>3. /\ token'[call[c].cookie].revoked
        /\ \A k \in Token :
               /\ token'[k].owner = token[k].owner /\ token'[k].root = token[k].root
               /\ token[k].revoked => token'[k].revoked
               /\ token'[k].expired = token[k].expired
    BY <1>1, <2>1, <2>2 DEF TypeOK, TokenRow
  <2>4. TokensGrow
    BY <1>1, <2>3 DEF TokensGrow, TypeOK, TokenRow
  <2>5. Chained'
    BY <1>1, <2>3 DEF SessionInv, Chained, TypeOK, TokenRow
  <2>6. CallInv(c)'
    BY <1>1, <1>8, <2>1, <2>2, <2>3 DEF Revoke, TypeOK, CallState, TokenRow
  <2> QED BY <1>2, <1>3, <1>4, <2>4, <2>5, <2>6
<1>9. CASE Authenticate(c)
  <2>1. /\ (To("issuing") /\ Active(call[c].who)) \/ To("refused")
        /\ UNCHANGED token
    BY <1>5, <1>9 DEF Authenticate, Point
  <2> QED BY <1>1, <1>2, <1>3, <1>4, <1>9, <2>1, NothingGrows DEF Authenticate
<1>10. CASE CheckAddress(c)
  <2>1. /\ To("refused") \/ (To("free") /\ ~Registered(call[c].who))
        /\ UNCHANGED token
    BY <1>5, <1>10 DEF CheckAddress, Point
  <2> QED BY <1>1, <1>2, <1>3, <1>4, <1>10, <2>1, NothingGrows DEF CheckAddress
<1>11. CASE Issue(c)
  <2>1. PICK k \in Unissued :
          /\ token' = [token EXCEPT ![k] =
               [owner |-> call[c].who, revoked |-> FALSE, expired |-> FALSE,
                root |-> IF Is(c, "refresh") THEN token[call[c].cookie].root ELSE k]]
          /\ call' = [call EXCEPT ![c].at = "issued", ![c].heir = k]
    BY <1>11 DEF Issue
  <2>2. /\ call'[c].at = "issued" /\ call'[c].kind = call[c].kind
        /\ call'[c].who = call[c].who /\ call'[c].cookie = call[c].cookie
        /\ call'[c].heir = k /\ call'[c].spent = call[c].spent
        /\ call'[c].barred = call[c].barred
    BY <1>1, <2>1 DEF TypeOK, CallState
  <2>3. k \in Token /\ ~Issued(k) /\ k # NoToken
    BY NoTokenAssumption DEF Unissued
  <2>4. call[c].who # NoAccount
    BY <1>1, <1>11, NoAccountAssumption DEF Issue, TypeOK, CallState, Kind
  <2>5. /\ token'[k].owner = call[c].who
        /\ token'[k].root = IF Is(c, "refresh") THEN token[call[c].cookie].root ELSE k
        /\ \A l \in Token \ {k} : token'[l] = token[l]
    BY <1>1, <2>1, <2>3 DEF TypeOK
  <2>6. TokensGrow
    BY <2>3, <2>5 DEF TokensGrow
  <2>7. Chained'
    <3>2. ASSUME NEW l \in Token, Issued(l)
          PROVE  /\ token[l].root \in Token \ {k} /\ Issued(token[l].root)
                 /\ token[token[l].root].owner = token[l].owner
      BY <1>1, <2>3, <3>2 DEF SessionInv, Chained, TypeOK, TokenRow
    <3>3. Is(c, "refresh") => call[c].cookie \in Token /\ Issued(call[c].cookie)
                              /\ token[call[c].cookie].owner = call[c].who
      BY <1>1, <1>11 DEF Issue, TypeOK, CallState
    <3> QED BY <2>3, <2>4, <2>5, <3>2, <3>3 DEF Chained
  <2>8. CallInv(c)'
    <3>1. call[c].cookie # NoToken => call[c].cookie \in Token \ {k}
      BY <1>1, <2>3 DEF TypeOK, CallState
    <3> QED BY <1>1, <1>11, <2>2, <2>3, <2>4, <2>5, <3>1 DEF Issue
  <2> QED BY <1>2, <1>3, <1>4, <2>6, <2>7, <2>8
<1>12. CASE LookUpForLogout(c)
  <2>1. /\ \/ To("found") /\ Issued(call[c].cookie)
           \/ To("loggedout") /\ (Issued(call[c].cookie) => token[call[c].cookie].revoked)
              /\ call'[c].late
        /\ UNCHANGED token
    <3>1. CASE Goto(c, "found") /\ Issued(call[c].cookie)
      BY <1>5, <1>12, <3>1 DEF LookUpForLogout, Point
    <3>2. CASE call' = [call EXCEPT ![c].at = "loggedout", ![c].late = TRUE]
      BY <1>1, <1>12, <3>1, <3>2 DEF LookUpForLogout, TypeOK, CallState
    <3> QED BY <1>12, <3>1, <3>2 DEF LookUpForLogout
  <2> QED BY <1>1, <1>2, <1>3, <1>4, <1>12, <2>1, NothingGrows DEF LookUpForLogout
<1>13. CASE ReadProfile(c)
  <2>1. /\ (To("known") /\ Active(call[c].who)) \/ To("unknown")
        /\ UNCHANGED token
    BY <1>5, <1>13 DEF ReadProfile, Point
  <2>2. Is(c, "login") \/ Is(c, "register") \/ Is(c, "refresh")
    BY <1>1, <1>13 DEF ReadProfile, TypeOK, CallState, Kind
  <2> QED BY <1>1, <1>2, <1>3, <1>4, <1>13, <2>1, <2>2, NothingGrows DEF ReadProfile
<1> QED
  BY <1>6, <1>7, <1>8, <1>9, <1>10, <1>11, <1>12, <1>13 DEF Answer

\* So do the steps of the browser; a cookie it stores was issued.
LEMMA ReceiveKeeps ==
    ASSUME SessionInv, TypeOK', NEW c \in Call, Receive(c) \/ CallFails(c),
           UNCHANGED accountVars
    PROVE  /\ \A d \in Call \ {c} : call'[d] = call[d]
           /\ CallInv(c)' /\ TokensGrow /\ BarStays /\ Chained'
           /\ (jar # NoToken => Issued(jar))'
<1>1. /\ TypeOK /\ CallInv(c) /\ UNCHANGED <<token, user>>
      /\ jar # NoToken => Issued(jar)
  BY DEF SessionInv, accountVars, Receive, ReceiveToken, ReceiveProfile, ReceiveError,
     ReceiveLogout, CallFails, ConnectionFails, HandlerFails
<1>2. TokensGrow /\ BarStays /\ Chained'
  BY <1>1, NothingGrows
<1>3. ASSUME call' = [call EXCEPT ![c] = NoCall]
      PROVE  (\A d \in Call \ {c} : call'[d] = call[d]) /\ CallInv(c)'
  BY <1>1, <1>3, IdleInv DEF TypeOK
<1>4. CASE ReceiveToken(c)
  <2>1. call[c].heir # NoToken => Issued(call[c].heir)
    BY <1>1 DEF CallInv, Known
  <2>2. (jar # NoToken => Issued(jar))'
    BY <1>1, <1>4, <2>1 DEF ReceiveToken, Issued
  <2>3. CASE call[c].tab = NoTab
    BY <1>2, <1>3, <1>4, <2>2, <2>3 DEF ReceiveToken
  <2>4. CASE call[c].tab # NoTab
    <3>1. PICK b \in BOOLEAN : b = Barred(call[c].who)
      BY Zenon DEF Barred
    <3>2. call' = [call EXCEPT ![c].at = "profile", ![c].barred = b]
      BY <1>4, <2>4, <3>1 DEF ReceiveToken
    <3>3. /\ call'[c].at = "profile" /\ call'[c].kind = call[c].kind
          /\ call'[c].who = call[c].who /\ call'[c].cookie = call[c].cookie
          /\ call'[c].heir = call[c].heir /\ call'[c].spent = call[c].spent
          /\ call'[c].barred = b
      BY <1>1, <3>2 DEF TypeOK, CallState
    <3>4. Is(c, "login") \/ Is(c, "register") \/ Is(c, "refresh")
      BY <1>1, <1>4 DEF ReceiveToken, TypeOK, CallState, CallInv, Placed, Kind, Granted, At, Is
    <3>5. CallInv(c)'
      BY <1>1, <1>4, <3>1, <3>3, <3>4
         DEF ReceiveToken, CallInv, Known, Placed, SpentRefused, Spends, BarHolds, SubjectOf,
             Subject, Issued, Spent, Barred, Registered, Active, Is, At, Granted, HasHeir
    <3> QED BY <1>1, <1>2, <2>2, <3>2, <3>5 DEF TypeOK
  <2> QED BY <2>3, <2>4
<1>5. CASE ReceiveProfile(c) \/ ReceiveError(c)
  <2>1. call' = [call EXCEPT ![c] = NoCall] /\ UNCHANGED jar
    BY <1>5 DEF ReceiveProfile, ReceiveError
  <2> QED BY <1>1, <1>2, <1>3, <2>1 DEF Issued
<1>7. CASE ConnectionFails(c)
  <2>1. /\ call'[c] = [call[c] EXCEPT !.tab = NoTab] /\ UNCHANGED jar
        /\ \A d \in Call \ {c} : call'[d] = call[d]
    BY <1>1, <1>7 DEF ConnectionFails, TypeOK
  <2>2. CallInv(c)'
    BY <1>1, <1>2, <2>1, Frame
  <2> QED BY <1>1, <1>2, <2>1, <2>2 DEF Issued
<1>8. CASE HandlerFails(c)
  <2>1. /\ call'[c] = [call[c] EXCEPT !.at = "crashed"] /\ UNCHANGED jar
        /\ \A d \in Call \ {c} : call'[d] = call[d]
    BY <1>1, <1>8 DEF HandlerFails, Goto, TypeOK
  <2>2. /\ call'[c].at = "crashed" /\ call'[c].kind = call[c].kind
        /\ call'[c].who = call[c].who /\ call'[c].cookie = call[c].cookie
        /\ call'[c].heir = call[c].heir /\ call'[c].spent = call[c].spent
        /\ call'[c].barred = call[c].barred
    BY <1>1, <2>1 DEF TypeOK, CallState
  <2>3. Known(c)' /\ Placed(c)'
    BY <1>1, <1>8, <2>2 DEF HandlerFails, CallInv, Known, Placed, Issued, Is, At, Granted, HasHeir
  <2>4. SpentRefused(c)' /\ Spends(c)' /\ BarHolds(c)'
    BY <1>1, <2>2 DEF CallInv, SpentRefused, Spends, BarHolds, SubjectOf, Subject, Issued, Spent,
       Barred, Registered, Active, Is, At
  <2> QED BY <1>1, <1>2, <2>1, <2>3, <2>4 DEF CallInv, Issued
<1>6. CASE ReceiveLogout(c)
  <2>1. call' = [call EXCEPT ![c] = NoCall] /\ jar' \in {jar, NoToken}
    BY <1>6 DEF ReceiveLogout
  <2> QED BY <1>1, <1>2, <1>3, <2>1 DEF Issued
<1> QED BY <1>4, <1>5, <1>6, <1>7, <1>8 DEF Receive, CallFails

\* So does the INSERT of a registration, which deactivates and activates nobody.
LEMMA InsertKeeps ==
    ASSUME SessionInv, TypeOK', NEW c \in Call, InsertUser(c)
    PROVE  /\ \A d \in Call \ {c} : call'[d] = call[d]
           /\ CallInv(c)' /\ TokensGrow /\ BarStays /\ Chained' /\ UNCHANGED jar
<1>1. TypeOK /\ CallInv(c) /\ UNCHANGED <<token, jar>>
  BY DEF SessionInv, InsertUser
<1>2. TokensGrow /\ Chained'
  BY <1>1 DEF TokensGrow, Issued, SessionInv, Chained
<1>3. BarStays
  <2>1. CASE RegisterUser(call[c].who)
    <3>1. \A a \in Account : Registered(a) => user'[a] = user[a]
      BY <1>1, <2>1 DEF RegisterUser, Created, TypeOK, AccountsTypeOK
    <3> QED BY <3>1 DEF BarStays, Barred, Registered, Active
  <2>2. CASE UNCHANGED accountVars
    BY <2>2 DEF accountVars, BarStays, Barred, Registered, Active
  <2> QED BY <2>1, <2>2 DEF InsertUser
<1>4. \A d \in Call \ {c} : call'[d] = call[d]
  BY <1>1 DEF InsertUser, Goto, TypeOK
<1>5. /\ call'[c].at \in {"issuing", "crashed"} /\ call'[c].kind = call[c].kind
      /\ call'[c].who = call[c].who /\ call'[c].cookie = call[c].cookie
      /\ call'[c].heir = call[c].heir /\ call'[c].spent = call[c].spent
      /\ call'[c].barred = call[c].barred
  BY <1>1 DEF InsertUser, Goto, TypeOK, CallState
<1>6. CallInv(c)'
  BY <1>1, <1>5 DEF InsertUser, CallInv, Known, Placed, SpentRefused, Spends, BarHolds,
     Issued, Spent, Is, At, Granted, HasHeir
<1> QED BY <1>1, <1>2, <1>3, <1>4, <1>6

\* Time only expires tokens.
LEMMA ExpireInv ==
    ASSUME SessionInv, TypeOK', NEW k \in Token, Expire(k), UNCHANGED accountVars
    PROVE  SessionInv'
<1>1. TypeOK /\ UNCHANGED <<jar, call, user>>
  BY DEF SessionInv, Expire, accountVars
<1>2. \A l \in Token :
          /\ token'[l].owner = token[l].owner /\ token'[l].root = token[l].root
          /\ token'[l].revoked = token[l].revoked
          /\ token[l].expired => token'[l].expired
  BY <1>1 DEF Expire, TypeOK, TokenRow
<1>3. TokensGrow /\ BarStays
  BY <1>1, <1>2 DEF TokensGrow, BarStays, Issued, Barred, Registered, Active, TypeOK, TokenRow
<1>4. Chained' /\ (jar # NoToken => Issued(jar))'
  BY <1>1, <1>2 DEF SessionInv, Chained, Issued, TypeOK, TokenRow
<1>5. \A c \in Call : CallInv(c)'
  BY <1>1, <1>3, Frame DEF SessionInv
<1> QED BY <1>4, <1>5 DEF SessionInv

\* Administration lifts the bar of the calls whose account it activates.
LEMMA AdministerInv ==
    ASSUME SessionInv, TypeOK', Administer
    PROVE  SessionInv'
<1>1. TypeOK /\ UNCHANGED <<token, jar>>
  BY DEF SessionInv, Administer
<1>2. Chained' /\ (jar # NoToken => Issued(jar))'
  BY <1>1 DEF SessionInv, Chained, Issued
<1>3. PICK now \in {{a \in Account : Barred(a)'}} :
          call' = [c \in Call |-> [call[c] EXCEPT !.barred =
                     @ /\ Subject(call[c].kind, call[c].who, call[c].cookie) \in now]]
  BY Zenon DEF Administer
<1>4. ASSUME NEW c \in Call PROVE CallInv(c)'
  <2>1. PICK b \in BOOLEAN : b = (call[c].barred /\ SubjectOf(c) \in now)
    OBVIOUS
  <2>2. call'[c] = [call[c] EXCEPT !.barred = b]
    BY <1>3, <2>1, Zenon DEF SubjectOf
  <2>3. /\ call'[c].at = call[c].at /\ call'[c].kind = call[c].kind
        /\ call'[c].who = call[c].who /\ call'[c].cookie = call[c].cookie
        /\ call'[c].heir = call[c].heir /\ call'[c].spent = call[c].spent
        /\ call'[c].barred = b /\ call'[c].late = call[c].late
    BY <1>1, <2>2 DEF TypeOK, CallState
  <2>4. CallInv(c)
    BY DEF SessionInv
  <2>5. SubjectOf(c)' = SubjectOf(c)
    BY <1>1, <2>3 DEF SubjectOf, Subject, Issued
  <2>6. (b => call[c].barred /\ Barred(SubjectOf(c))')
    BY <1>3, <2>1, <2>5
  <2>7. BarHolds(c)'
    BY <2>3, <2>4, <2>6 DEF CallInv, BarHolds
  <2> QED
    BY <1>1, <2>3, <2>4, <2>7 DEF CallInv, Known, Placed, SpentRefused, Spends, Issued,
       Spent, Is, At
<1> QED BY <1>2, <1>4 DEF SessionInv

-----------------------------------------------------------------------------
\* The invariant holds initially, and every step keeps it.
LEMMA InitInv == Init => SessionInv
<1> SUFFICES ASSUME Init PROVE SessionInv
  OBVIOUS
<1>1. TypeOK
  BY InitTyped
<1>2. (jar # NoToken => Issued(jar)) /\ Chained
  BY DEF Init, Issued, Chained, NoRow
<1>3. ASSUME NEW c \in Call PROVE CallInv(c)
  BY DEF Init, NoCall, CallInv, Known, Placed, SpentRefused, Spends, BarHolds, Is, At, Granted
<1> QED BY <1>1, <1>2, <1>3 DEF SessionInv

LEMMA NextInv == SessionInv /\ [Next]_vars => SessionInv'
<1> SUFFICES ASSUME SessionInv, [Next]_vars PROVE SessionInv'
  OBVIOUS
<1>1. TypeOK'
  BY NextTyped
<1>2. CASE UNCHANGED vars
  <2>1. TokensGrow /\ BarStays /\ Chained' /\ UNCHANGED <<jar, call, token>>
    BY <1>2, NothingGrows DEF vars
  <2> QED BY <1>1, <2>1, Frame DEF SessionInv, Issued
<1>3. CASE Administer
  BY <1>1, <1>3, AdministerInv
<1>4. CASE (\E t \in Tab : Send(t)) /\ UNCHANGED accountVars
  BY <1>4, SendInv
<1>5. ASSUME NEW c \in Call, Answer(c) /\ UNCHANGED accountVars PROVE SessionInv'
  <2>1. (jar # NoToken => Issued(jar))'
    BY <1>5, <1>1, AnswerKeeps DEF SessionInv, TokensGrow, TypeOK
  <2> QED BY <1>1, <1>5, <2>1, AnswerKeeps, OneCall
<1>6. ASSUME NEW c \in Call, (Receive(c) \/ CallFails(c)) /\ UNCHANGED accountVars
      PROVE  SessionInv'
  BY <1>1, <1>6, ReceiveKeeps, OneCall
<1>7. ASSUME NEW c \in Call, InsertUser(c) PROVE SessionInv'
  <2>1. (jar # NoToken => Issued(jar))'
    BY <1>7 DEF SessionInv, InsertUser, Issued
  <2> QED BY <1>1, <1>7, <2>1, InsertKeeps, OneCall
<1>8. ASSUME NEW k \in Token, Expire(k) /\ UNCHANGED accountVars PROVE SessionInv'
  BY <1>1, <1>8, ExpireInv
<1> QED BY <1>2, <1>3, <1>4, <1>5, <1>6, <1>7, <1>8 DEF Next, Proceed

\* Whatever interleaves, the invariant holds.
LEMMA InvHolds == Spec => []SessionInv
  BY InitInv, NextInv, PTL DEF Spec

-----------------------------------------------------------------------------
\* Every state of accounts, tokens, tabs and calls has the type it is declared with.
THEOREM SessionsTypeCorrect == Spec => []TypeOK
<1>1. SessionInv => TypeOK
  BY DEF SessionInv
<1> QED BY <1>1, InvHolds, PTL

\* A token that was spent when a refresh presented it is never exchanged.
THEOREM SpentTokensRefused == Spec => []SpentTokenIsRefused
<1>1. SessionInv => SpentTokenIsRefused
  BY DEF SessionInv, CallInv, SpentRefused, SpentTokenIsRefused, At
<1> QED BY <1>1, InvHolds, PTL

\* Whoever is told that a refresh or log out succeeded has spent its token.
THEOREM SuccessSpends == Spec => []SuccessSpendsToken
<1>1. SessionInv => SuccessSpendsToken
  BY DEF SessionInv, CallInv, Spends, SuccessSpendsToken
<1> QED BY <1>1, InvHolds, PTL

\* A request sent after a deactivation gets neither a token nor a profile.
THEOREM DeactivationRevokesAccess == Spec => []DeactivatedGetsNothing
<1>1. SessionInv => DeactivatedGetsNothing
  BY DEF SessionInv, CallInv, BarHolds, DeactivatedGetsNothing
<1> QED BY <1>1, InvHolds, PTL

\* Exchanging tokens never moves a session to another account.
THEOREM ChainsKeepAccounts == Spec => []ChainKeepsAccount
<1>1. SessionInv => ChainKeepsAccount
  BY DEF SessionInv, Chained, CallInv, Known, ChainKeepsAccount
<1> QED BY <1>1, InvHolds, PTL

-----------------------------------------------------------------------------
(* The tokens of one sign-in.                                               *)

Stands(k) == Issued(k) /\ ~token[k].revoked

\* A refresh that found its token good and has not issued another for it yet.
Trades(c) == Is(c, "refresh") /\ call[c].at \in {"found", "owned", "issuing"}

\* A log out that was in time.
LogsOut(c) == At(c, "loggedout") /\ ~call[c].late

RootOf(c) == token[call[c].cookie].root

\* Of the tokens of sign-in r one stands, one refresh trades it, and meanwhile
\* no other stands.
OneStands(r) ==
    \A k, l \in Token : Stands(k) /\ Stands(l) /\ token[k].root = r /\ token[l].root = r => k = l
OneTrades(r) ==
    \A c, d \in Call : Trades(c) /\ Trades(d) /\ RootOf(c) = r /\ RootOf(d) = r => c = d
TradesTheLast(r) ==
    \A c \in Call, k \in Token :
        Trades(c) /\ RootOf(c) = r /\ Stands(k) /\ token[k].root = r => k = call[c].cookie
Single(r) == OneStands(r) /\ OneTrades(r) /\ TradesTheLast(r)

\* Nothing of it is left, and nothing will be issued for it.
Over(r) ==
    /\ \A k \in Token : Stands(k) => token[k].root # r
    /\ \A c \in Call : Trades(c) => RootOf(c) # r

\* As long as no two refreshes traded one token at once.
ChainsInv ==
    /\ \A r \in Token : r \in forked \/ Single(r)
    /\ \A r \in ended : Issued(r) /\ (r \in forked \/ Over(r))
    /\ \A c \in Call : LogsOut(c) => RootOf(c) \in forked \/ Over(RootOf(c))

\* What a call carries belongs to a sign-in.
LEMMA RootFacts ==
    ASSUME SessionInv, NEW c \in Call, Trades(c) \/ LogsOut(c)
    PROVE  /\ call[c].cookie \in Token /\ Issued(call[c].cookie)
           /\ RootOf(c) \in Token /\ Issued(RootOf(c))
           /\ At(c, "issuing") => token[call[c].cookie].revoked
<1>1. Issued(call[c].cookie)
  BY DEF SessionInv, CallInv, Placed, Trades, LogsOut, Granted, At, Is
<1>2. call[c].cookie \in Token
  BY <1>1 DEF SessionInv, TypeOK, CallState, Issued
<1>3. At(c, "issuing") => token[call[c].cookie].revoked
  BY <1>1 DEF SessionInv, CallInv, Spends, Trades, LogsOut, At
<1>4. Issued(RootOf(c)) /\ RootOf(c) \in Token
  BY <1>1, <1>2 DEF SessionInv, Chained, RootOf, TypeOK, TokenRow, Issued
<1> QED BY <1>1, <1>2, <1>3, <1>4

\* No token is issued or moved, but some may be revoked; no refresh begins to trade.
Shrinks ==
    /\ \A k \in Token :
        /\ Issued(k)' <=> Issued(k)
        /\ token'[k].root = token[k].root
        /\ token[k].revoked => token'[k].revoked
    /\ \A c \in Call : Trades(c)' => Trades(c) /\ call'[c].cookie = call[c].cookie

LEMMA ShrinkFacts ==
    ASSUME SessionInv, Shrinks
    PROVE  \A r : (Single(r) => Single(r)') /\ (Over(r) => Over(r)')
<1>1. \A k \in Token : (Stands(k)' => Stands(k)) /\ token'[k].root = token[k].root
  BY DEF Shrinks, Stands
<1>2. \A c \in Call : Trades(c)' =>
        /\ Trades(c) /\ call'[c].cookie = call[c].cookie
        /\ token'[call'[c].cookie].root = token[call[c].cookie].root
  BY RootFacts DEF Shrinks
<1> QED BY <1>1, <1>2, Zenon DEF Single, OneStands, OneTrades, TradesTheLast, Over, RootOf

\* Most steps only shrink, and no log out begins in them but of a sign-in that is over.
LEMMA ShrinkKeeps ==
    ASSUME SessionInv, ChainsInv, Shrinks, UNCHANGED <<ended, forked>>,
           \A c \in Call : LogsOut(c)' =>
               \/ LogsOut(c) /\ call'[c].cookie = call[c].cookie
               \/ RootOf(c)' \in forked \/ Over(RootOf(c))'
    PROVE  ChainsInv'
<1>1. \A r : (Single(r) => Single(r)') /\ (Over(r) => Over(r)')
  BY ShrinkFacts
<1>2. ASSUME NEW c \in Call, LogsOut(c), call'[c].cookie = call[c].cookie
      PROVE  RootOf(c)' = RootOf(c) /\ (RootOf(c) \in forked \/ Over(RootOf(c)))
  BY <1>2, RootFacts DEF ChainsInv, Shrinks, RootOf
<1>3. \A r \in ended' : Issued(r)'
  BY DEF ChainsInv, Shrinks, SessionInv, TypeOK, Issued
<1>4. \A r \in Token : r \in forked' \/ Single(r)'
  BY <1>1 DEF ChainsInv
<1>5. \A r \in ended' : r \in forked' \/ Over(r)'
  BY <1>1 DEF ChainsInv
<1>6. ASSUME NEW c \in Call, LogsOut(c)' PROVE RootOf(c)' \in forked' \/ Over(RootOf(c))'
  <2>1. CASE LogsOut(c) /\ call'[c].cookie = call[c].cookie
    <3>1. ASSUME NEW r, r = RootOf(c), Over(r) PROVE Over(RootOf(c))'
      <4>1. Over(r)' /\ r = RootOf(c)'
        BY <1>1, <1>2, <2>1, <3>1
      <4> QED BY <4>1
    <3> QED BY <1>2, <2>1, <3>1
  <2> QED BY <1>6, <2>1
<1> QED BY <1>3, <1>4, <1>5, <1>6 DEF ChainsInv

\* What is left of a call when it neither begins to trade nor logs out in this step.
Quiet(c) ==
    /\ Trades(c)' => Trades(c) /\ call'[c].cookie = call[c].cookie
    /\ LogsOut(c)' => LogsOut(c) /\ call'[c].cookie = call[c].cookie

\* Steps that touch no token and begin nothing.
LEMMA QuietStep ==
    ASSUME SessionInv, ChainsInv, UNCHANGED <<token, ended, forked>>,
           \A c \in Call : Quiet(c)
    PROVE  ChainsInv'
<1>1. Shrinks
  BY DEF Shrinks, Quiet, Issued
<1> QED BY <1>1, ShrinkKeeps DEF Quiet

\* A call left alone is quiet, also if only its reader goes.
LEMMA LeftAlone ==
    ASSUME TypeOK, NEW c \in Call, NEW b \in BOOLEAN,
           \/ call'[c] = call[c]
           \/ call'[c] = [call[c] EXCEPT !.tab = NoTab]
           \/ call'[c] = [call[c] EXCEPT !.barred = b]
    PROVE  Quiet(c)
  BY DEF TypeOK, CallState, Quiet, Trades, LogsOut, Is, At

\* Sending.
LEMMA SendChains ==
    ASSUME SessionInv, ChainsInv, NEW t \in Tab, Send(t)
    PROVE  ChainsInv'
<1>1. TypeOK /\ UNCHANGED <<token, ended, forked>>
  BY DEF SessionInv, Send, LoadPage, SubmitForm, ClickLogout
<1>2. ASSUME NEW c \in Call, NEW kind, NEW a, call'[c] = Request(t, kind, a)
      PROVE  Quiet(c)
  BY <1>2 DEF Request, Quiet, Trades, LogsOut, At
<1>3. ASSUME NEW c \in Call PROVE Quiet(c)
  <2>1. \/ \E kind, a : call'[c] = Request(t, kind, a)
        \/ call'[c] = call[c] \/ call'[c] = [call[c] EXCEPT !.tab = NoTab]
    <3>1. CASE LoadPage(t)
      BY <3>1 DEF LoadPage
    <3>2. CASE SubmitForm(t)
      BY <1>1, <3>2 DEF SubmitForm, TypeOK
    <3>3. CASE ClickLogout(t)
      BY <1>1, <3>3 DEF ClickLogout, TypeOK
    <3> QED BY <3>1, <3>2, <3>3 DEF Send
  <2> QED BY <1>1, <1>2, <2>1, LeftAlone
<1> QED BY <1>1, <1>3, QuietStep

\* Administration.
LEMMA AdministerChains ==
    ASSUME SessionInv, ChainsInv, Administer
    PROVE  ChainsInv'
<1>1. TypeOK /\ UNCHANGED <<token, ended, forked>>
  BY DEF SessionInv, Administer
<1>2. PICK now : call' = [c \in Call |-> [call[c] EXCEPT !.barred =
                     @ /\ Subject(call[c].kind, call[c].who, call[c].cookie) \in now]]
  BY Zenon DEF Administer
<1>3. ASSUME NEW c \in Call PROVE Quiet(c)
  <2>1. PICK b \in BOOLEAN :
          b = (call[c].barred /\ Subject(call[c].kind, call[c].who, call[c].cookie) \in now)
    OBVIOUS
  <2>2. call'[c] = [call[c] EXCEPT !.barred = b]
    BY <1>2, <2>1, Zenon
  <2> QED BY <1>1, <2>2, LeftAlone
<1> QED BY <1>1, <1>3, QuietStep

\* Time.
LEMMA ExpireChains ==
    ASSUME SessionInv, ChainsInv, NEW k \in Token, Expire(k)
    PROVE  ChainsInv'
<1>1. TypeOK /\ UNCHANGED <<call, ended, forked>>
  BY DEF SessionInv, Expire
<1>2. \A l \in Token :
          /\ token'[l].owner = token[l].owner /\ token'[l].root = token[l].root
          /\ token'[l].revoked = token[l].revoked
  BY <1>1 DEF Expire, TypeOK, TokenRow
<1>3. Shrinks
  BY <1>1, <1>2 DEF Shrinks, Issued, Trades, Is
<1>4. \A c \in Call : LogsOut(c)' => LogsOut(c) /\ call'[c].cookie = call[c].cookie
  BY <1>1 DEF LogsOut, At
<1> QED BY <1>1, <1>3, <1>4, ShrinkKeeps

\* The steps of a call that read, fail or end.
LEMMA CallChains ==
    ASSUME SessionInv, ChainsInv, NEW c \in Call,
           \/ CheckOwner(c) \/ Authenticate(c) \/ CheckAddress(c) \/ ReadProfile(c)
           \/ LookUpForLogout(c) \/ InsertUser(c) \/ CallFails(c)
           \/ ReceiveToken(c) \/ ReceiveProfile(c) \/ ReceiveError(c)
    PROVE  ChainsInv'
<1>1. TypeOK /\ CallInv(c) /\ UNCHANGED <<token, ended, forked>>
  BY DEF SessionInv, CheckOwner, Authenticate, CheckAddress, ReadProfile, LookUpForLogout,
     InsertUser, CallFails, ConnectionFails, HandlerFails, ReceiveToken, ReceiveProfile,
     ReceiveError
<1>2. \A d \in Call \ {c} : call'[d] = call[d]
  BY <1>1 DEF CheckOwner, Authenticate, CheckAddress, ReadProfile, LookUpForLogout, TypeOK,
     InsertUser, CallFails, ConnectionFails, HandlerFails, Goto, ReceiveToken, ReceiveProfile,
     ReceiveError
<1>3. ASSUME NEW p, call' = [call EXCEPT ![c].at = p], p # "loggedout",
             p \in {"owned", "issuing"} => Trades(c) \/ ~Is(c, "refresh"),
             p = "found" => Is(c, "logout")
      PROVE  Quiet(c)
  <2>1. call'[c].at = p /\ call'[c].kind = call[c].kind /\ call'[c].cookie = call[c].cookie
    BY <1>1, <1>3 DEF TypeOK, CallState
  <2> QED BY <1>3, <2>1 DEF Quiet, Trades, LogsOut, Is, At
<1>4. CASE call' = [call EXCEPT ![c] = NoCall]
  <2>1. Quiet(c)
    BY <1>1, <1>4 DEF TypeOK, NoCall, Quiet, Trades, LogsOut, At
  <2> QED BY <1>1, <1>2, <2>1, LeftAlone, QuietStep
<1>5. CASE CheckOwner(c)
  <2>1. \E p \in {"owned", "refused"} : Goto(c, p)
    BY <1>5 DEF CheckOwner
  <2>2. Trades(c)
    BY <1>5 DEF CheckOwner, Trades, At
  <2>3. Quiet(c)
    BY <1>3, <2>1, <2>2 DEF Goto
  <2> QED BY <1>1, <1>2, <2>3, LeftAlone, QuietStep
<1>6. CASE Authenticate(c) \/ CheckAddress(c) \/ InsertUser(c)
  <2>1. \E p \in {"issuing", "refused", "free", "crashed"} : Goto(c, p)
    BY <1>6 DEF Authenticate, CheckAddress, InsertUser
  <2>2. ~Is(c, "refresh")
    BY <1>1, <1>6 DEF Authenticate, CheckAddress, InsertUser, CallInv, Placed, Is, At
  <2>3. Quiet(c)
    BY <1>3, <2>1, <2>2 DEF Goto
  <2> QED BY <1>1, <1>2, <2>3, LeftAlone, QuietStep
<1>7. CASE ReadProfile(c) \/ HandlerFails(c)
  <2>1. \E p \in {"known", "unknown", "crashed"} : Goto(c, p)
    BY <1>7 DEF ReadProfile, HandlerFails
  <2>2. Quiet(c)
    BY <1>3, <2>1 DEF Goto
  <2> QED BY <1>1, <1>2, <2>2, LeftAlone, QuietStep
<1>8. CASE ConnectionFails(c)
  <2>1. call'[c] = [call[c] EXCEPT !.tab = NoTab]
    BY <1>1, <1>8 DEF ConnectionFails, TypeOK
  <2> QED BY <1>1, <1>2, <2>1, LeftAlone, QuietStep
<1>9. CASE LookUpForLogout(c)
  <2>1. CASE Goto(c, "found")
    <3>1. Quiet(c)
      BY <1>3, <1>9, <2>1 DEF Goto, LookUpForLogout
    <3> QED BY <1>1, <1>2, <3>1, LeftAlone, QuietStep
  <2>2. CASE call' = [call EXCEPT ![c].at = "loggedout", ![c].late = TRUE]
    <3>1. call'[c].at = "loggedout" /\ call'[c].late
      BY <1>1, <2>2 DEF TypeOK, CallState
    <3>2. Quiet(c)
      BY <3>1 DEF Quiet, Trades, LogsOut
    <3> QED BY <1>1, <1>2, <3>2, LeftAlone, QuietStep
  <2> QED BY <1>9, <2>1, <2>2 DEF LookUpForLogout
<1>10. CASE ReceiveToken(c)
  <2>1. CASE call[c].tab = NoTab
    BY <1>4, <1>10, <2>1 DEF ReceiveToken
  <2>2. CASE call[c].tab # NoTab
    <3>1. call'[c].at = "profile"
      BY <1>1, <1>10, <2>2 DEF ReceiveToken, TypeOK, CallState
    <3>2. Quiet(c)
      BY <3>1 DEF Quiet, Trades, LogsOut, At
    <3> QED BY <1>1, <1>2, <3>2, LeftAlone, QuietStep
  <2> QED BY <2>1, <2>2
<1>11. CASE ReceiveProfile(c) \/ ReceiveError(c)
  BY <1>4, <1>11 DEF ReceiveProfile, ReceiveError
<1> QED BY <1>5, <1>6, <1>7, <1>8, <1>9, <1>10, <1>11 DEF CallFails

-----------------------------------------------------------------------------
\* A refresh finds its token good: from then on it trades the last of its
\* sign-in, unless another was trading it already.
LEMMA LookUpChains ==
    ASSUME SessionInv, ChainsInv, NEW c \in Call, LookUp(c)
    PROVE  ChainsInv'
<1>0. TypeOK /\ UNCHANGED <<token, ended>>
  BY DEF SessionInv, LookUp
<1>1. CASE ~(Issued(call[c].cookie) /\ ~Spent(call[c].cookie))
  <2>1. call' = [call EXCEPT ![c].at = "refused"] /\ UNCHANGED forked
    BY <1>1 DEF LookUp, Goto
  <2>2. Quiet(c) /\ \A d \in Call \ {c} : call'[d] = call[d]
    BY <1>0, <2>1 DEF TypeOK, CallState, Quiet, Trades, LogsOut, At
  <2> QED BY <1>0, <2>1, <2>2, LeftAlone, QuietStep
<1>2. CASE Issued(call[c].cookie) /\ ~Spent(call[c].cookie)
  <2> DEFINE k == call[c].cookie
             r == token[k].root
  <2>1. /\ k \in Token /\ Stands(k) /\ r \in Token
    <3>1. k \in Token
      BY <1>0, <1>2 DEF TypeOK, CallState, Issued
    <3>2. Issued(r) /\ Stands(k)
      BY <1>2, <3>1 DEF SessionInv, Chained, Stands, Spent
    <3> QED BY <1>0, <3>1, <3>2 DEF TypeOK, TokenRow, Issued
  <2>2. /\ \A d \in Call \ {c} : call'[d] = call[d]
        /\ call'[c].cookie = k /\ call'[c].at = "found" /\ call'[c].kind = "refresh"
        /\ call[c].at = "sent" /\ forked' = Forks(k)
    BY <1>0, <1>2 DEF LookUp, TypeOK, CallState, Is, At
  <2>3. \A d \in Call : /\ Trades(d)' => d = c \/ Trades(d)
                        /\ RootOf(d)' = RootOf(d) /\ call'[d].cookie = call[d].cookie
                        /\ (LogsOut(d)' => LogsOut(d))
    BY <1>0, <2>2 DEF Trades, RootOf, LogsOut, Is, At
  <2>4. ~Trades(c) /\ RootOf(c) = r
    BY <2>2 DEF Trades, RootOf
  <2>5. \A l \in Token : /\ Stands(l)' <=> Stands(l)
                         /\ token'[l] = token[l]
    BY <1>0 DEF Stands, Issued
  <2>6. forked \subseteq forked' /\ (r \notin forked' => Exchanging(k) = {} /\ r \notin forked)
    BY <2>2 DEF Forks
  <2>7. ASSUME r \notin forked', NEW d \in Call, Trades(d), RootOf(d) = r PROVE FALSE
    <3>1. Single(r)
      BY <2>1, <2>6, <2>7 DEF ChainsInv
    <3>2. call[d].cookie = k
      BY <2>1, <2>7, <3>1 DEF Single, TradesTheLast
    <3>3. At(d, "issuing")
      BY <2>6, <2>7, <3>2 DEF Exchanging, Trades, At
    <3> QED BY <2>1, <2>7, <3>2, <3>3, RootFacts DEF Stands
  <2>8. ASSUME NEW q \in Token, q \notin forked' PROVE Single(q)'
    <3>1. Single(q)
      BY <2>6, <2>8 DEF ChainsInv
    <3>2. OneStands(q)'
      BY <2>5, <3>1 DEF Single, OneStands
    <3>3. OneTrades(q)'
      BY <2>3, <2>4, <2>7, <2>8, <3>1 DEF Single, OneTrades
    <3>4. TradesTheLast(q)'
      <4> SUFFICES ASSUME NEW d \in Call, NEW l \in Token, Trades(d)', RootOf(d)' = q,
                          Stands(l)', (token[l].root = q)'
                   PROVE  l = call'[d].cookie
        BY DEF TradesTheLast
      <4>1. Stands(l) /\ token[l].root = q /\ RootOf(d) = q /\ call'[d].cookie = call[d].cookie
        BY <2>3, <2>5
      <4>2. CASE d = c
        BY <2>1, <2>4, <3>1, <4>1, <4>2 DEF Single, OneStands
      <4>3. CASE d # c
        BY <2>3, <3>1, <4>1, <4>3 DEF Single, TradesTheLast
      <4> QED BY <4>2, <4>3
    <3> QED BY <3>2, <3>3, <3>4 DEF Single
  <2>9. ASSUME NEW q, Over(q) PROVE Over(q)'
    <3>1. q # r
      BY <2>1, <2>9 DEF Over
    <3> QED BY <2>3, <2>4, <2>5, <2>9, <3>1 DEF Over
  <2>10. \A q \in ended' : Issued(q)' /\ (q \in forked' \/ Over(q)')
    BY <1>0, <2>6, <2>9 DEF ChainsInv, Issued
  <2>11. ASSUME NEW d \in Call, LogsOut(d)' PROVE RootOf(d)' \in forked' \/ Over(RootOf(d))'
    <3> DEFINE q == RootOf(d)
    <3>1. q \in forked \/ Over(q)
      BY <2>3, <2>11 DEF ChainsInv
    <3>2. Over(q) => Over(RootOf(d))'
      <4>1. ASSUME NEW x, x = q, Over(x) PROVE Over(RootOf(d))'
        <5>1. Over(x)' /\ x = RootOf(d)'
          BY <2>3, <2>9, <4>1
        <5> QED BY <5>1
      <4> QED BY <4>1
    <3> QED BY <2>3, <2>6, <3>1, <3>2
  <2> QED BY <2>8, <2>10, <2>11 DEF ChainsInv
<1> QED BY <1>1, <1>2

\* A revocation: a refresh goes on trading the token it gave up, a log out ends
\* the sign-in if it was in time.
LEMMA RevokeChains ==
    ASSUME SessionInv, ChainsInv, NEW c \in Call, Revoke(c)
    PROVE  ChainsInv'
<1> DEFINE k == call[c].cookie
           r == token[k].root
<1>0. TypeOK /\ CallInv(c) /\ UNCHANGED <<ended, forked>>
  BY DEF SessionInv, Revoke
<1>1. Issued(k) /\ k \in Token
  BY <1>0 DEF Revoke, CallInv, Placed, Granted, Is, At, TypeOK, CallState, Kind, Issued
<1>2. /\ \A l \in Token : /\ token'[l].owner = token[l].owner /\ token'[l].root = token[l].root
                          /\ token'[l].revoked = (token[l].revoked \/ l = k)
  BY <1>0, <1>1 DEF Revoke, TypeOK, TokenRow
<1>3. /\ \A d \in Call \ {c} : call'[d] = call[d]
      /\ call'[c].at = (IF Is(c, "logout") THEN "loggedout" ELSE "issuing")
      /\ call'[c].kind = call[c].kind /\ call'[c].cookie = k
      /\ call'[c].late = (Is(c, "logout") /\ TooLate(k))
  <2>1. PICK b \in BOOLEAN : b = (Is(c, "logout") /\ TooLate(k))
    OBVIOUS
  <2>2. call' = [call EXCEPT ![c].at = IF Is(c, "logout") THEN "loggedout" ELSE "issuing",
                             ![c].late = b]
    BY <2>1, Zenon DEF Revoke, Revoked
  <2>3. call'[c].late = b /\ \A d \in Call \ {c} : call'[d] = call[d]
    BY <1>0, <2>2 DEF TypeOK, CallState
  <2>4. /\ call'[c].at = (IF Is(c, "logout") THEN "loggedout" ELSE "issuing")
        /\ call'[c].kind = call[c].kind /\ call'[c].cookie = k
    BY <1>0, <2>2 DEF TypeOK, CallState
  <2> QED BY <2>1, <2>3, <2>4
<1>4. Is(c, "refresh") => Trades(c)
  BY DEF Revoke, Trades, Is, At
<1>5. Shrinks
  <2>1. \A d \in Call : Trades(d)' => Trades(d) /\ call'[d].cookie = call[d].cookie
    BY <1>3, <1>4 DEF Trades, Is
  <2> QED BY <1>2, <2>1 DEF Shrinks, Issued
<1>6. ASSUME NEW d \in Call, LogsOut(d)', d # c PROVE LogsOut(d) /\ call'[d].cookie = call[d].cookie
  BY <1>3, <1>6 DEF LogsOut, At
<1>7. ASSUME LogsOut(c)' PROVE RootOf(c)' \in forked \/ Over(RootOf(c))'
  <2>1. RootOf(c)' = r /\ r \in Token
    BY <1>0, <1>1, <1>2, <1>3 DEF RootOf, SessionInv, Chained, TypeOK, TokenRow, Issued
  <2>2. Stands(k) /\ Exchanging(k) = {}
    BY <1>1, <1>3, <1>7 DEF LogsOut, At, TooLate, Stands
  <2>3. ASSUME NEW x, x = r, x \notin forked PROVE Over(x)'
    <3>1. Single(r)
      BY <2>1, <2>3 DEF ChainsInv
    <3>2. \A l \in Token : Stands(l)' => token'[l].root # x
      BY <1>1, <1>2, <2>2, <2>3, <3>1 DEF Single, OneStands, Stands, Issued
    <3>3. ASSUME NEW d \in Call, Trades(d), RootOf(d) = r PROVE FALSE
      <4>1. call[d].cookie = k
        BY <1>1, <2>2, <3>1, <3>3 DEF Single, TradesTheLast
      <4>2. At(d, "issuing")
        BY <2>2, <3>3, <4>1 DEF Exchanging, Trades, At
      <4> QED BY <2>2, <3>3, <4>1, <4>2, RootFacts DEF Stands
    <3>4. ASSUME NEW d \in Call, Trades(d)' PROVE RootOf(d)' # x
      <4>1. Trades(d) /\ RootOf(d)' = RootOf(d)
        BY <1>2, <1>5, <3>4, RootFacts DEF Shrinks, RootOf
      <4> QED BY <2>3, <3>3, <4>1
    <3> QED BY <3>2, <3>4 DEF Over
  <2>4. ASSUME NEW x, x = r, Over(x)' PROVE Over(RootOf(c))'
    <3>1. Over(x)' /\ x = RootOf(c)'
      BY <2>1, <2>4
    <3> QED BY <3>1
  <2> QED BY <2>1, <2>3, <2>4
<1> QED BY <1>0, <1>5, <1>6, <1>7, ShrinkKeeps

\* A token is issued: for the refresh that traded the last one, or for a new sign-in.
LEMMA IssueChains ==
    ASSUME SessionInv, ChainsInv, NEW c \in Call, Issue(c)
    PROVE  ChainsInv'
<1>0. TypeOK /\ CallInv(c) /\ UNCHANGED <<ended, forked>>
  BY DEF SessionInv, Issue
<1>1. PICK k \in Unissued :
          /\ token' = [token EXCEPT ![k] =
               [owner |-> call[c].who, revoked |-> FALSE, expired |-> FALSE,
                root |-> IF Is(c, "refresh") THEN token[call[c].cookie].root ELSE k]]
          /\ call' = [call EXCEPT ![c].at = "issued", ![c].heir = k]
  BY DEF Issue
<1> DEFINE r == IF Is(c, "refresh") THEN RootOf(c) ELSE k
<1>2. /\ k \in Token /\ ~Issued(k)
      /\ token'[k].root = r /\ \A l \in Token : l # k => token'[l] = token[l]
  BY <1>0, <1>1 DEF Unissued, RootOf, TypeOK
<1>3. /\ \A d \in Call \ {c} : call'[d] = call[d]
      /\ call'[c].at = "issued" /\ ~Trades(c)' /\ ~LogsOut(c)'
  BY <1>0, <1>1 DEF TypeOK, CallState, Trades, LogsOut, At
<1>4. \A l \in Token : Issued(l) => Issued(l)' /\ l # k
  BY <1>2 DEF Issued
<1>5. \A d \in Call : Trades(d)' =>
          /\ d # c /\ Trades(d) /\ RootOf(d)' = RootOf(d) /\ call'[d].cookie = call[d].cookie
  <2>1. ASSUME NEW d \in Call, Trades(d)' PROVE d # c /\ Trades(d) /\ call'[d].cookie = call[d].cookie
    BY <1>3, <2>1 DEF Trades, Is
  <2>2. ASSUME NEW d \in Call, Trades(d) PROVE call[d].cookie \in Token /\ call[d].cookie # k
    BY <1>2, <2>2, RootFacts
  <2> QED BY <1>2, <2>1, <2>2 DEF RootOf
<1>6. \A l \in Token : Stands(l)' => l = k \/ (Stands(l) /\ token'[l].root = token[l].root)
  <2>1. ASSUME NEW l \in Token, Stands(l)', l # k PROVE Stands(l) /\ token'[l].root = token[l].root
    <3>1. token'[l] = token[l]
      BY <1>2, <2>1
    <3> QED BY <2>1, <3>1 DEF Stands, Issued
  <2> QED BY <2>1
<1>7. Is(c, "refresh") => Trades(c) /\ At(c, "issuing")
  BY DEF Issue, Trades, At
<1>8. ASSUME NEW q \in Token, Single(q)
      PROVE  /\ \A l \in Token : Stands(l) /\ token[l].root = q => q # r
             /\ \A d \in Call : Trades(d)' /\ RootOf(d) = q => q # r
  <2>1. CASE Is(c, "refresh")
    <3>1. Trades(c) /\ token[call[c].cookie].revoked
      BY <1>7, <2>1, RootFacts
    <3> QED BY <1>5, <1>8, <2>1, <3>1 DEF Single, TradesTheLast, OneTrades, Stands
  <2>2. CASE ~Is(c, "refresh")
    <3>1. \A l \in Token : Stands(l) => token[l].root # k
      BY <1>2 DEF SessionInv, Chained, Stands
    <3>2. \A d \in Call : Trades(d)' => RootOf(d) # k
      BY <1>2, <1>5, RootFacts
    <3> QED BY <1>8, <2>2, <3>1, <3>2
  <2> QED BY <2>1, <2>2
<1>9. ASSUME NEW q \in Token, Single(q) PROVE Single(q)'
  <2>1. OneStands(q)'
    BY <1>2, <1>6, <1>8, <1>9 DEF Single, OneStands
  <2>2. OneTrades(q)'
    BY <1>5, <1>9 DEF Single, OneTrades
  <2>3. TradesTheLast(q)'
    BY <1>2, <1>5, <1>6, <1>8, <1>9 DEF Single, TradesTheLast
  <2> QED BY <2>1, <2>2, <2>3 DEF Single
<1>10. ASSUME NEW q, Issued(q), q \in Token, Over(q) PROVE Over(q)'
  <2>1. q # r
    BY <1>2, <1>7, <1>10 DEF Over
  <2> QED BY <1>2, <1>5, <1>6, <1>10, <2>1 DEF Over
<1>11. \A q \in Token : q \in forked' \/ Single(q)'
  BY <1>0, <1>9 DEF ChainsInv
<1>12. \A q \in ended' : Issued(q)' /\ (q \in forked' \/ Over(q)')
  <2>1. \A q \in ended : q \in Token
    BY <1>0 DEF ChainsInv, TypeOK, Issued
  <2> QED BY <1>0, <1>4, <1>10, <2>1 DEF ChainsInv
<1>13. ASSUME NEW d \in Call, LogsOut(d)' PROVE RootOf(d)' \in forked' \/ Over(RootOf(d))'
  <2>1. LogsOut(d) /\ call'[d].cookie = call[d].cookie
    BY <1>3, <1>13 DEF LogsOut, At
  <2>2. /\ call[d].cookie \in Token /\ Issued(call[d].cookie)
        /\ RootOf(d) \in Token /\ Issued(RootOf(d))
    BY <2>1, RootFacts
  <2>3. RootOf(d)' = RootOf(d)
    BY <1>2, <1>4, <2>1, <2>2 DEF RootOf
  <2>4. ASSUME NEW q, q = RootOf(d), Over(q) PROVE Over(RootOf(d))'
    <3>1. Over(q)' /\ q = RootOf(d)'
      BY <1>10, <2>2, <2>3, <2>4
    <3> QED BY <3>1
  <2> QED BY <1>0, <2>1, <2>3, <2>4 DEF ChainsInv
<1> QED BY <1>11, <1>12, <1>13 DEF ChainsInv

\* The browser is told of a log out.
LEMMA LogoutChains ==
    ASSUME SessionInv, ChainsInv, NEW c \in Call, ReceiveLogout(c)
    PROVE  ChainsInv'
<1>0. TypeOK /\ UNCHANGED <<token, forked>>
  BY DEF SessionInv, ReceiveLogout
<1>1. Shrinks /\ \A d \in Call : Quiet(d)
  <2>1. /\ \A d \in Call \ {c} : call'[d] = call[d]
        /\ call'[c] = NoCall
    BY <1>0 DEF ReceiveLogout, TypeOK
  <2>2. \A d \in Call : Quiet(d)
    BY <2>1 DEF Quiet, Trades, LogsOut, NoCall, Is, At
  <2> QED BY <1>0, <2>2 DEF Shrinks, Quiet, Issued
<1>2. \A q : (Single(q) => Single(q)') /\ (Over(q) => Over(q)')
  BY <1>1, ShrinkFacts
<1>3. \A q \in ended' : Issued(q) /\ (q \in forked \/ Over(q))
  <2>1. CASE ended' = ended
    BY <2>1 DEF ChainsInv
  <2>2. CASE ~call[c].late /\ ended' = ended \cup {RootOf(c)}
    <3>1. LogsOut(c)
      BY <2>2 DEF ReceiveLogout, LogsOut
    <3> QED BY <2>2, <3>1, RootFacts DEF ChainsInv
  <2> QED BY <2>1, <2>2 DEF ReceiveLogout, RootOf
<1>4. \A q \in Token : q \in forked' \/ Single(q)'
  BY <1>0, <1>2 DEF ChainsInv
<1>5. \A q \in ended' : Issued(q)' /\ (q \in forked' \/ Over(q)')
  BY <1>0, <1>2, <1>3 DEF Issued
<1>6. ASSUME NEW d \in Call, LogsOut(d)' PROVE RootOf(d)' \in forked' \/ Over(RootOf(d))'
  <2>1. LogsOut(d) /\ RootOf(d)' = RootOf(d)
    BY <1>0, <1>1, <1>6 DEF Quiet, RootOf
  <2>2. ASSUME NEW q, q = RootOf(d), Over(q) PROVE Over(RootOf(d))'
    <3>1. Over(q)' /\ q = RootOf(d)'
      BY <1>2, <2>1, <2>2
    <3> QED BY <3>1
  <2> QED BY <1>0, <2>1, <2>2 DEF ChainsInv
<1> QED BY <1>4, <1>5, <1>6 DEF ChainsInv

-----------------------------------------------------------------------------
\* Initially nobody has signed in.
LEMMA InitChains == Init => ChainsInv
  BY DEF Init, NoRow, NoCall, ChainsInv, Single, OneStands, OneTrades, TradesTheLast, Over,
     Stands, Issued, Trades, LogsOut, At

LEMMA NextChains == SessionInv /\ ChainsInv /\ [Next]_vars => ChainsInv'
<1> SUFFICES ASSUME SessionInv, ChainsInv, [Next]_vars PROVE ChainsInv'
  OBVIOUS
<1>1. CASE UNCHANGED vars
  <2>1. UNCHANGED <<token, call, ended, forked>> /\ TypeOK
    BY <1>1 DEF vars, SessionInv
  <2> QED BY <2>1, LeftAlone, QuietStep
<1>2. CASE Administer
  BY <1>2, AdministerChains
<1>3. ASSUME NEW c \in Call, Proceed(c) PROVE ChainsInv'
  BY <1>3, CallChains, LookUpChains, RevokeChains, IssueChains, LogoutChains
     DEF Proceed, Answer, Receive
<1> QED BY <1>1, <1>2, <1>3, SendChains, CallChains, ExpireChains DEF Next

LEMMA ChainsHold == Spec => [](SessionInv /\ ChainsInv)
  BY InitInv, NextInv, InitChains, NextChains, PTL DEF Spec

\* Of the tokens that descend from one sign-in at most one is good, whatever
\* tabs, reloads, requests and losses interleave, unless the sign-in forked.
THEOREM OneTokenPerSignIn == Spec => []OneLiveTokenPerSignIn
<1>1. SessionInv /\ ChainsInv => OneLiveTokenPerSignIn
  <2> SUFFICES ASSUME SessionInv, ChainsInv, NEW k \in Token, NEW l \in Token,
                      Live(k), Live(l), token[k].root = token[l].root,
                      token[k].root \notin forked
               PROVE  k = l
    BY DEF OneLiveTokenPerSignIn
  <2>1. token[k].root \in Token
    BY DEF Live, SessionInv, Chained, TypeOK, TokenRow, Issued
  <2> QED BY <2>1 DEF ChainsInv, Single, OneStands, Live, Spent, Stands
<1> QED BY <1>1, ChainsHold, PTL

\* After a log out in time no token of that sign-in is good, nor will one be.
THEOREM LogoutIsFinal == Spec => []LogoutEndsSession
<1>1. SessionInv /\ ChainsInv => LogoutEndsSession
  BY DEF ChainsInv, Over, LogoutEndsSession, Live, Spent, Stands
<1> QED BY <1>1, ChainsHold, PTL
=============================================================================
