------------------------- MODULE SessionProperties -------------------------
(***************************************************************************)
(* What the sessions of module Sessions promise: the table against the     *)
(* cookie, the cookie against what the tabs show.                          *)
(***************************************************************************)
EXTENDS Sessions

TypeOK ==
    /\ AccountsTypeOK
    /\ token \in [Token -> TokenRow]
    /\ jar \in Token \cup {NoToken}
    /\ tab \in [Tab -> TabState]
    /\ call \in [Call -> CallState]
    /\ ended \subseteq Token \cup {NoToken} /\ forked \subseteq Token \cup {NoToken}

-----------------------------------------------------------------------------
(* Whatever interleaves.                                                   *)

(***************************************************************************)
(* A token that was revoked or had expired when a refresh presented it is  *)
(* not exchanged for another, whatever other requests do meanwhile.        *)
(***************************************************************************)
SpentTokenIsRefused ==
    \A c \in Call :
        Is(c, "refresh") /\ call[c].spent => call[c].at \in {"idle", "sent", "refused", "crashed"}

(***************************************************************************)
(* Whoever is told that a refresh or a log out succeeded has spent the     *)
(* token it presented: rotation revokes before it issues, and log out      *)
(* never answers with the token still good.                                *)
(***************************************************************************)
SuccessSpendsToken ==
    \A c \in Call :
        /\ (Is(c, "refresh") \/ Is(c, "logout"))
        /\ call[c].at \in {"issuing", "issued", "profile", "known", "loggedout"}
        /\ Issued(call[c].cookie)
        => token[call[c].cookie].revoked

(***************************************************************************)
(* "Deactivation is a real-time access revocation" (architecture.md:207):  *)
(* a request sent after an account was deactivated gets neither a token    *)
(* nor a profile for it, unless the account was activated in between.      *)
(***************************************************************************)
DeactivatedGetsNothing ==
    \A c \in Call :
        call[c].barred => call[c].at \in {"sent", "found", "refused", "loggedout", "crashed",
                                         "profile", "unknown"}

(***************************************************************************)
(* Exchanging tokens never moves a session to another account: every token *)
(* of a chain, and everything the tabs are going to show for it, belongs   *)
(* to the account that signed in.                                          *)
(***************************************************************************)
ChainKeepsAccount ==
    /\ \A k \in Token : Issued(k) => token[token[k].root].owner = token[k].owner
    /\ \A c \in Call : call[c].heir # NoToken => token[call[c].heir].owner = call[c].who

(***************************************************************************)
(* "On refresh/logout the token is rotated/revoked" (README.md:242): of    *)
(* the tokens that descend from one sign-in at most one is good, whatever  *)
(* tabs, reloads and lost answers interleave, unless two refreshes found   *)
(* the same token good before either revoked it.                           *)
(***************************************************************************)
OneLiveTokenPerSignIn ==
    \A k, l \in Token :
        Live(k) /\ Live(l) /\ token[k].root = token[l].root /\ token[k].root \notin forked
            => k = l

(***************************************************************************)
(* "Revokes the refresh token, clears the cookie" (README.md:234): after a *)
(* log out the browser saw succeed, no token of that sign-in is good, so   *)
(* that a refresh is refused (test_logout_revokes_refresh_token); except   *)
(* for a log out whose token was revoked already or was being exchanged    *)
(* when it came to it, and a sign-in whose tokens had forked.              *)
(***************************************************************************)
LogoutEndsSession ==
    \A k \in Token : Live(k) /\ token[k].root \notin forked => token[k].root \notin ended

(***************************************************************************)
(* AuthProvider decides: a tab that is loading, and is not reloaded for    *)
(* ever, comes to show the application or the login page.                  *)
(***************************************************************************)
LoadingEnds ==
    \A t \in Tab :
        <>[][~LoadPage(t)]_vars => [](tab[t].status = "loading" => <>(tab[t].status # "loading"))

-----------------------------------------------------------------------------
(* With one request at a time, and nobody administering accounts.          *)

(***************************************************************************)
(* "This is how a page reload restores a session" (architecture.md:84): a  *)
(* tab that loaded with the cookie of a sign-in is refused, and turns to   *)
(* the login page, only if the browser holds no good token of that sign-in *)
(* any more.                                                               *)
(***************************************************************************)
ReloadRestoresSession ==
    [][\A c \in Call :
          /\ Is(c, "refresh") /\ At(c, "refused") /\ call'[c] = NoCall /\ call[c].tab # NoTab
          /\ Issued(call[c].cookie) /\ Issued(jar)
          /\ token[call[c].cookie].root = token[jar].root
          /\ tab'[call[c].tab].status = "unauthenticated"
          => ~Live(jar)]_vars

=============================================================================
