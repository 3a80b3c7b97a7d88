------------------------------ MODULE Sessions ------------------------------
(***************************************************************************)
(* Sign-in sessions of one browser: its tabs (AuthContext), the refresh    *)
(* cookie they share, the requests they have in flight, and the            *)
(* refresh_tokens table.  A request is one call of the frontend together   *)
(* with the server's handler; each statement of the handler that reads or  *)
(* commits is a step, and the server goes on with a request whose page has *)
(* been reloaded or whose fetch has failed.  Accounts are those of module  *)
(* Accounts, which go on being administered meanwhile.                     *)
(***************************************************************************)
EXTENDS Accounts

CONSTANTS
    Token,        \* the refresh tokens that can be drawn
    Tab,
    Call,         \* the requests of the browser that can be in flight at a time
    Faults,       \* what else may happen: "lost" (a call fails), "expired"
    NoToken, NoTab

ASSUME NoTokenAssumption == NoToken \notin Token
ASSUME NoTabAssumption   == NoTab \notin Tab
ASSUME FaultsAssumption  == Faults \subseteq {"lost", "expired"}

VARIABLES
    token,    \* refresh_tokens, by token
    jar,      \* the refresh cookie of the browser
    tab,      \* the AuthContext of each tab
    call,     \* the requests in flight
    ended,    \* history: the sign-ins that the browser was told it is logged out of
    forked    \* history: the sign-ins one token of which two refreshes exchanged at once

vars == <<user, patch, token, jar, tab, call, ended, forked>>

\* root is history: the token that the sign-in this one descends from was given.
TokenRow == [owner: Account \cup {NoAccount}, revoked: BOOLEAN, expired: BOOLEAN,
             root: Token \cup {NoToken}]
NoRow    == [owner |-> NoAccount, revoked |-> FALSE, expired |-> FALSE, root |-> NoToken]

\* user stands for both the profile and the access token: they are set together.
TabState == [status: {"loading", "authenticated", "unauthenticated"},
             user: Account \cup {NoAccount}]
Loading  == [status |-> "loading", user |-> NoAccount]
LoggedOut == [status |-> "unauthenticated", user |-> NoAccount]

Kind  == {"refresh", "login", "register", "logout"}
Point == {"idle", "sent", "found", "owned", "free", "issuing", "issued", "loggedout",
          "refused", "crashed", "profile", "known", "unknown"}

\* tab: where the answer goes, NoTab once the page is gone; who: the account;
\* cookie: as sent; heir: the token issued.  History: spent, whether the cookie
\* was revoked or expired when the request was sent; barred, whether the account
\* was deactivated then and has not been activated since; late, whether a log out
\* found its token revoked already, or being exchanged.
CallState == [at: Point, kind: Kind, tab: Tab \cup {NoTab}, who: Account \cup {NoAccount},
              cookie: Token \cup {NoToken}, heir: Token \cup {NoToken},
              spent: BOOLEAN, barred: BOOLEAN, late: BOOLEAN]
NoCall == [at |-> "idle", kind |-> "refresh", tab |-> NoTab, who |-> NoAccount,
           cookie |-> NoToken, heir |-> NoToken,
           spent |-> FALSE, barred |-> FALSE, late |-> FALSE]

\* No accounts yet; every tab is open and its first refresh was refused.
Init ==
    /\ AccountsInit
    /\ token = [k \in Token |-> NoRow]
    /\ jar = NoToken
    /\ tab = [t \in Tab |-> LoggedOut]
    /\ call = [c \in Call |-> NoCall]
    /\ ended = {} /\ forked = {}

-----------------------------------------------------------------------------
Issued(k) == k # NoToken /\ token[k].owner # NoAccount
Spent(k)  == token[k].revoked \/ token[k].expired

\* The server would accept the token now.
Live(k) == Issued(k) /\ ~Spent(k) /\ Active(token[k].owner)

At(c, p)      == call[c].at = p
Is(c, kind)   == call[c].kind = kind
Goto(c, p)    == call' = [call EXCEPT ![c].at = p]
Free          == {c \in Call : At(c, "idle")}
Unissued      == {k \in Token : ~Issued(k)}

\* Bound: a call is made only if a token is left for it and those before it.
TokensLeft == Cardinality(Call \ Free) < Cardinality(Unissued)

\* The refreshes that have found token k good and not revoked it yet.
Exchanging(k) ==
    {c \in Call : Is(c, "refresh") /\ call[c].at \in {"found", "owned"} /\ call[c].cookie = k}

TooLate(k) == ~Issued(k) \/ token[k].revoked \/ Exchanging(k) # {}
Forks(k)   == IF Exchanging(k) = {} THEN forked ELSE forked \cup {token[k].root}

Barred(a) == a # NoAccount /\ Registered(a) /\ ~Active(a)

\* The account a call acts for: the owner of the cookie, or the one signing in.
Subject(kind, a, k) ==
    IF kind \in {"login", "register"} THEN a
    ELSE IF Issued(k) THEN token[k].owner ELSE NoAccount

\* fetch: the browser adds the cookie it holds at this moment.
Request(t, kind, a) ==
    [at |-> "sent", kind |-> kind, tab |-> t, who |-> a, cookie |-> jar, heir |-> NoToken,
     spent |-> Issued(jar) /\ Spent(jar), barred |-> Barred(Subject(kind, a, jar)),
     late |-> FALSE]

-----------------------------------------------------------------------------
(* The frontend sends.                                                     *)

\* A page load or reload: whatever the page had in flight loses its reader, and
\* AuthProvider asks for a refresh, cookie or not.
LoadPage(t) ==
    /\ TokensLeft
    /\ \E c \in Free :
        call' = [d \in Call |->
            IF d = c THEN Request(t, "refresh", NoAccount)
            ELSE IF call[d].tab = t THEN [call[d] EXCEPT !.tab = NoTab] ELSE call[d]]
    /\ tab' = [tab EXCEPT ![t] = Loading]
    /\ UNCHANGED <<token, jar, ended, forked>>

\* LoginForm and RegisterForm are shown unless the tab is authenticated: also
\* while it is loading, and again while an earlier form's request is in flight.
SubmitForm(t) ==
    /\ TokensLeft
    /\ tab[t].status # "authenticated"
    /\ \E c \in Free, kind \in {"login", "register"}, a \in Account :
        call' = [call EXCEPT ![c] = Request(t, kind, a)]
    /\ UNCHANGED <<token, jar, tab, ended, forked>>

\* NavBar's button.
ClickLogout(t) ==
    /\ tab[t].status = "authenticated"
    /\ \E c \in Free : call' = [call EXCEPT ![c] = Request(t, "logout", NoAccount)]
    /\ UNCHANGED <<token, jar, tab, ended, forked>>

-----------------------------------------------------------------------------
(* The server answers.                                                     *)

\* Mutant: a revoked token is accepted.
LookUpIgnoresRevocation(c) ==
    LET k == call[c].cookie IN
    /\ At(c, "sent") /\ Is(c, "refresh")
    /\ IF Issued(k) /\ ~token[k].expired
       THEN /\ call' = [call EXCEPT ![c].at = "found", ![c].who = token[k].owner]
            /\ forked' = Forks(k)
       ELSE Goto(c, "refused") /\ UNCHANGED forked
    /\ UNCHANGED <<token, jar, tab, ended>>

\* Mutant: the comparison of expires_at with the time is the wrong way round.
LookUpFlipsExpiry(c) ==
    LET k == call[c].cookie IN
    /\ At(c, "sent") /\ Is(c, "refresh")
    /\ IF Issued(k) /\ ~token[k].revoked /\ token[k].expired
       THEN /\ call' = [call EXCEPT ![c].at = "found", ![c].who = token[k].owner]
            /\ forked' = Forks(k)
       ELSE Goto(c, "refused") /\ UNCHANGED forked
    /\ UNCHANGED <<token, jar, tab, ended>>

\* refresh: no cookie, and get_by_token_hash in rotate_refresh_token.
LookUp(c) ==
    LET k == call[c].cookie IN
    /\ At(c, "sent") /\ Is(c, "refresh")
    /\ IF Issued(k) /\ ~Spent(k)
       THEN /\ call' = [call EXCEPT ![c].at = "found", ![c].who = token[k].owner]
            /\ forked' = Forks(k)
       ELSE Goto(c, "refused") /\ UNCHANGED forked
    /\ UNCHANGED <<token, jar, tab, ended>>

\* Mutant: is_active is not checked.
CheckOwnerExists(c) ==
    /\ At(c, "found") /\ Is(c, "refresh")
    /\ Goto(c, "owned")
    /\ UNCHANGED <<token, jar, tab, ended, forked>>

\* rotate_refresh_token reads the owner.
CheckOwner(c) ==
    /\ At(c, "found") /\ Is(c, "refresh")
    /\ Goto(c, IF Active(call[c].who) THEN "owned" ELSE "refused")
    /\ UNCHANGED <<token, jar, tab, ended, forked>>

Revoked(c) ==
    call' = [call EXCEPT ![c].at = IF Is(c, "logout") THEN "loggedout" ELSE "issuing",
                         ![c].late = Is(c, "logout") /\ TooLate(call[c].cookie)]

\* Mutant: the presented token stays valid.
RevokeForgotten(c) ==
    /\ At(c, "owned") \/ (At(c, "found") /\ Is(c, "logout"))
    /\ Revoked(c)
    /\ UNCHANGED <<token, jar, tab, ended, forked>>

\* refresh_token_repository.revoke, whatever became of the row since it was loaded.
Revoke(c) ==
    /\ At(c, "owned") \/ (At(c, "found") /\ Is(c, "logout"))
    /\ token' = [token EXCEPT ![call[c].cookie].revoked = TRUE]
    /\ Revoked(c)
    /\ UNCHANGED <<jar, tab, ended, forked>>

\* authenticate_user, with the right password or not.
Authenticate(c) ==
    /\ At(c, "sent") /\ Is(c, "login")
    /\ \/ Active(call[c].who) /\ Goto(c, "issuing")
       \/ Goto(c, "refused")
    /\ UNCHANGED <<token, jar, tab, ended, forked>>

\* register_user: an address in use is a 409.
CheckAddress(c) ==
    /\ At(c, "sent") /\ Is(c, "register")
    /\ Goto(c, IF Registered(call[c].who) THEN "refused" ELSE "free")
    /\ UNCHANGED <<token, jar, tab, ended, forked>>

\* Mutant: the new row has no expiry.
IssueWithoutExpiry(c) ==
    /\ At(c, "issuing")
    /\ \E k \in Unissued :
        /\ token' = [token EXCEPT ![k] =
               [owner |-> call[c].who, revoked |-> FALSE,
                root |-> IF Is(c, "refresh") THEN token[call[c].cookie].root ELSE k]]
        /\ call' = [call EXCEPT ![c].at = "issued", ![c].heir = k]
    /\ UNCHANGED <<jar, tab, ended, forked>>

\* Mutant: the new token is issued to whoever holds the cookie now.
IssueToCookieOwner(c) ==
    /\ At(c, "issuing")
    /\ \E k \in Unissued :
        /\ token' = [token EXCEPT ![k] =
               [owner |-> IF Issued(jar) THEN token[jar].owner ELSE call[c].who,
                revoked |-> FALSE, expired |-> FALSE,
                root |-> IF Is(c, "refresh") THEN token[call[c].cookie].root ELSE k]]
        /\ call' = [call EXCEPT ![c].at = "issued", ![c].heir = k]
    /\ UNCHANGED <<jar, tab, ended, forked>>

\* issue_token_pair: commits a new row; a rotation's token continues its chain.
Issue(c) ==
    /\ At(c, "issuing")
    /\ \E k \in Unissued :
        /\ token' = [token EXCEPT ![k] =
               [owner |-> call[c].who, revoked |-> FALSE, expired |-> FALSE,
                root |-> IF Is(c, "refresh") THEN token[call[c].cookie].root ELSE k]]
        /\ call' = [call EXCEPT ![c].at = "issued", ![c].heir = k]
    /\ UNCHANGED <<jar, tab, ended, forked>>

\* Mutant: logout only clears the cookie.
LookUpForLogoutForgotten(c) ==
    /\ At(c, "sent") /\ Is(c, "logout")
    /\ call' = [call EXCEPT ![c].at = "loggedout", ![c].late = TooLate(call[c].cookie)]
    /\ UNCHANGED <<token, jar, tab, ended, forked>>

\* revoke_refresh_token: only a known, unrevoked token needs revoking.
LookUpForLogout(c) ==
    LET k == call[c].cookie IN
    /\ At(c, "sent") /\ Is(c, "logout")
    /\ IF Issued(k) /\ ~token[k].revoked
       THEN Goto(c, "found")
       ELSE call' = [call EXCEPT ![c].at = "loggedout", ![c].late = TRUE]
    /\ UNCHANGED <<token, jar, tab, ended, forked>>

\* GET /api/users/me with the access token just received.
ReadProfile(c) ==
    /\ At(c, "profile")
    /\ Goto(c, IF Active(call[c].who) THEN "known" ELSE "unknown")
    /\ UNCHANGED <<token, jar, tab, ended, forked>>

-----------------------------------------------------------------------------
(* The browser receives.                                                   *)

\* Mutant: a failed refresh leaves the tab loading.
AfterFailureIgnored(c) ==
    [t \in Tab |-> IF t = call[c].tab /\ Is(c, "logout") THEN LoggedOut ELSE tab[t]]

\* AuthContext after call c failed: refresh only sets the status, logout clears
\* everything, and a form shows the error.
AfterFailure(c) ==
    [t \in Tab |->
        IF t = call[c].tab /\ Is(c, "logout") THEN LoggedOut
        ELSE IF t = call[c].tab /\ Is(c, "refresh")
             THEN [tab[t] EXCEPT !.status = "unauthenticated"]
             ELSE tab[t]]

\* The response with the new cookie; applyAccessToken then asks for the profile.
\* A page that is gone may still have let the browser store the cookie.
ReceiveToken(c) ==
    /\ At(c, "issued")
    /\ IF call[c].tab = NoTab
       THEN jar' \in {jar, call[c].heir} /\ call' = [call EXCEPT ![c] = NoCall]
       ELSE /\ jar' = call[c].heir
            /\ call' = [call EXCEPT ![c].at = "profile", ![c].barred = Barred(call[c].who)]
    /\ UNCHANGED <<token, tab, ended, forked>>

\* The profile: the tab shows it, whatever it showed before.
ReceiveProfile(c) ==
    /\ At(c, "known")
    /\ tab' = IF call[c].tab = NoTab THEN tab
              ELSE [tab EXCEPT ![call[c].tab] =
                        [status |-> "authenticated", user |-> call[c].who]]
    /\ call' = [call EXCEPT ![c] = NoCall]
    /\ UNCHANGED <<token, jar, ended, forked>>

\* An error response: it carries no cookie, not even the deletion refresh asks
\* for, because the handler raises instead of returning its response.
ReceiveError(c) ==
    /\ At(c, "refused") \/ At(c, "crashed") \/ At(c, "unknown")
    /\ tab' = AfterFailure(c)
    /\ call' = [call EXCEPT ![c] = NoCall]
    /\ UNCHANGED <<token, jar, ended, forked>>

\* The response of logout deletes the cookie, also one set since it was sent.
ReceiveLogout(c) ==
    /\ At(c, "loggedout")
    /\ jar' \in IF call[c].tab = NoTab THEN {jar, NoToken} ELSE {NoToken}
    /\ tab' = IF call[c].tab = NoTab THEN tab ELSE [tab EXCEPT ![call[c].tab] = LoggedOut]
    /\ ended' = IF call[c].tab = NoTab \/ call[c].late THEN ended
                ELSE ended \cup {token[call[c].cookie].root}
    /\ call' = [call EXCEPT ![c] = NoCall]
    /\ UNCHANGED <<token, forked>>

-----------------------------------------------------------------------------
(* The environment.                                                        *)

\* The connection fails, and with it the page's fetch: the handler, which does
\* not notice, goes on, and its answer has no reader any more.
ConnectionFails(c) ==
    /\ "lost" \in Faults
    /\ ~At(c, "idle") /\ call[c].tab # NoTab
    /\ tab' = AfterFailure(c)
    /\ call' = [call EXCEPT ![c].tab = NoTab]
    /\ UNCHANGED <<token, jar, ended, forked>>

\* The server or the database fails under the handler, or the request never
\* arrived; what was committed stays.
HandlerFails(c) ==
    /\ "lost" \in Faults
    /\ call[c].at \in {"sent", "found", "owned", "free", "issuing", "profile"}
    /\ Goto(c, "crashed")
    /\ UNCHANGED <<token, jar, tab, ended, forked>>

CallFails(c) == ConnectionFails(c) \/ HandlerFails(c)

\* refresh_token_expire_days go by.
Expire(k) ==
    /\ "expired" \in Faults
    /\ Issued(k) /\ ~token[k].expired
    /\ token' = [token EXCEPT ![k].expired = TRUE]
    /\ UNCHANGED <<jar, tab, call, ended, forked>>

-----------------------------------------------------------------------------
\* register_user's INSERT; an address taken since the check is an IntegrityError
\* that nothing catches.
InsertUser(c) ==
    /\ At(c, "free")
    /\ \/ RegisterUser(call[c].who) /\ Goto(c, "issuing")
       \/ Registered(call[c].who) /\ Goto(c, "crashed") /\ UNCHANGED accountVars
    /\ UNCHANGED <<token, jar, tab, ended, forked>>

Send(t) == LoadPage(t) \/ SubmitForm(t) \/ ClickLogout(t)

Answer(c) ==
    \/ LookUp(c) \/ CheckOwner(c) \/ Revoke(c) \/ Authenticate(c) \/ CheckAddress(c)
    \/ Issue(c) \/ LookUpForLogout(c) \/ ReadProfile(c)

Receive(c) == ReceiveToken(c) \/ ReceiveProfile(c) \/ ReceiveError(c) \/ ReceiveLogout(c)

\* A call goes on: the server works on it, and its answer arrives.
Proceed(c) ==
    \/ InsertUser(c)
    \/ (Answer(c) \/ Receive(c)) /\ UNCHANGED accountVars

\* Accounts are administered meanwhile; an activation ends the bar of its calls.
Administer ==
    /\ Administration
    /\ \E now \in {{a \in Account : Barred(a)'}} :
        call' = [c \in Call |-> [call[c] EXCEPT !.barred =
                   @ /\ Subject(call[c].kind, call[c].who, call[c].cookie) \in now]]
    /\ UNCHANGED <<token, jar, tab, ended, forked>>

Next ==
    \/ Administer
    \/ \E c \in Call : Proceed(c)
    \/ /\ \/ \E t \in Tab : Send(t)
          \/ \E c \in Call : CallFails(c)
          \/ \E k \in Token : Expire(k)
       /\ UNCHANGED accountVars

Spec == Init /\ [][Next]_vars

\* Calls proceed; nobody has to send anything.
FairSpec == Spec /\ \A c \in Call : WF_vars(Proceed(c))
=============================================================================
