------------------------------ MODULE Accounts ------------------------------
(***************************************************************************)
(* User accounts: their role, and the is_active switch administrators      *)
(* operate with PATCH /api/users/{id}.  A PATCH request checks its caller  *)
(* once, loads its target and commits; requests of several administrators  *)
(* interleave between these steps.  There is no other way to change        *)
(* is_active, and none to delete an account.                               *)
(***************************************************************************)
EXTENDS Naturals, FiniteSets

CONSTANTS
    Account,      \* the e-mail addresses that may have an account
    Patch,        \* the PATCH requests that can be in flight at a time
    NoAccount

ASSUME NoAccountAssumption == NoAccount \notin Account

VARIABLES
    user,     \* users: the row of each address, NoUser if there is none
    patch     \* the PATCH requests in flight

accountVars == <<user, patch>>

User   == [role: {"EMPLOYEE", "ADMIN", "NONE"}, active: BOOLEAN]
NoUser == [role |-> "NONE", active |-> FALSE]

\* by: the caller; of: the account to switch to `want'; seen: its is_active as loaded.
PatchRequest == [at: {"idle", "authorized", "loaded"},
                 by: Account \cup {NoAccount}, of: Account \cup {NoAccount},
                 want: BOOLEAN, seen: BOOLEAN]

NoPatch == [at |-> "idle", by |-> NoAccount, of |-> NoAccount, want |-> FALSE, seen |-> FALSE]

AccountsInit ==
    /\ user = [a \in Account |-> NoUser]
    /\ patch = [p \in Patch |-> NoPatch]

Registered(a) == user[a].role # "NONE"
Active(a)     == user[a].active
IsAdmin(a)    == user[a].role = "ADMIN"

\* user_repository.create; is_active defaults to True.
Created(a, role) == [user EXCEPT ![a] = [role |-> role, active |-> TRUE]]

-----------------------------------------------------------------------------
(* Rows are created by registration and by the operator's scripts.         *)

\* register_user's INSERT; a taken address is refused by the unique index.
RegisterUser(a) ==
    /\ ~Registered(a)
    /\ user' = Created(a, "EMPLOYEE")
    /\ UNCHANGED patch

SeedAdmin(a) ==
    /\ ~Registered(a)
    /\ user' = Created(a, "ADMIN")
    /\ UNCHANGED patch

\* Writes the role column only, which nothing else writes.
PromoteToAdmin(a) ==
    /\ Registered(a)
    /\ user' = [user EXCEPT ![a].role = "ADMIN"]
    /\ UNCHANGED patch

-----------------------------------------------------------------------------
(* update_user_active_status.                                              *)

\* Mutant: administrators may switch off their own account.
AuthorizeAllowsSelf(p) ==
    /\ patch[p].at = "idle"
    /\ \E by \in Account, of \in Account, want \in BOOLEAN :
        /\ Active(by) /\ IsAdmin(by)
        /\ patch' = [patch EXCEPT ![p] =
               [at |-> "authorized", by |-> by, of |-> of, want |-> want, seen |-> FALSE]]
    /\ UNCHANGED user

\* require_admin, and the rejection of a request to deactivate oneself.
Authorize(p) ==
    /\ patch[p].at = "idle"
    /\ \E by \in Account, of \in Account, want \in BOOLEAN :
        /\ Active(by) /\ IsAdmin(by)
        /\ ~(of = by /\ ~want)
        /\ patch' = [patch EXCEPT ![p] =
               [at |-> "authorized", by |-> by, of |-> of, want |-> want, seen |-> FALSE]]
    /\ UNCHANGED user

\* get_by_id: 404 for an unknown id; the caller's own row is already in the
\* session, loaded when it was active, and is not read again.
LoadTarget(p) ==
    LET of == patch[p].of IN
    /\ patch[p].at = "authorized"
    /\ patch' = IF Registered(of)
                THEN [patch EXCEPT ![p].at = "loaded",
                                   ![p].seen = (of = patch[p].by) \/ Active(of)]
                ELSE [patch EXCEPT ![p] = NoPatch]
    /\ UNCHANGED user

\* Mutant: the UPDATE writes is_active whether or not it was changed.
SwitchedAlways(current, seen, want) == want

\* The UPDATE holds is_active only if it differs from the loaded value.
Switched(current, seen, want) == IF want = seen THEN current ELSE want

\* set_active; the refresh after the commit changes nothing.
CommitSwitch(p) ==
    LET of == patch[p].of IN
    /\ patch[p].at = "loaded"
    /\ user' = [user EXCEPT ![of].active = Switched(@, patch[p].seen, patch[p].want)]
    /\ patch' = [patch EXCEPT ![p] = NoPatch]

\* The request fails (database error, restart): nothing of it is kept.
DropPatch(p) ==
    /\ patch[p].at # "idle"
    /\ patch' = [patch EXCEPT ![p] = NoPatch]
    /\ UNCHANGED user

\* Everything but registration, which is a step of a larger request.
Administration ==
    \/ \E a \in Account : SeedAdmin(a) \/ PromoteToAdmin(a)
    \/ \E p \in Patch : Authorize(p) \/ LoadTarget(p) \/ CommitSwitch(p) \/ DropPatch(p)

AccountsNext == Administration \/ \E a \in Account : RegisterUser(a)

AccountsSpec == AccountsInit /\ [][AccountsNext]_accountVars

-----------------------------------------------------------------------------
AccountsTypeOK ==
    /\ user \in [Account -> User]
    /\ patch \in [Patch -> PatchRequest]

(***************************************************************************)
(* Once there is an administrator, one of them can use the application:    *)
(* update_user_active_status rejects only the request of an administrator  *)
(* against itself, and that has to be enough, whoever deactivates whom.    *)
(***************************************************************************)
SomeAdminIsActive ==
    (\E a \in Account : IsAdmin(a)) => \E a \in Account : IsAdmin(a) /\ Active(a)

(***************************************************************************)
(* The last active administrator is lost only by a request whose own       *)
(* caller has been deactivated since require_admin let it in: the check    *)
(* against deactivating oneself is enough for any sequence of requests,    *)
(* and for any interleaving in which a caller keeps its right.             *)
(***************************************************************************)
LockoutNeedsOverlap ==
    [][SomeAdminIsActive /\ ~SomeAdminIsActive' =>
          \E p \in Patch : /\ patch[p].at = "loaded" /\ patch'[p].at = "idle"
                           /\ ~Active(patch[p].by)]_accountVars

(***************************************************************************)
(* A deactivation is undone only by a request that loaded the account when *)
(* it was already deactivated: a request that read it before, and whose    *)
(* administrator never saw the deactivation, leaves it standing.           *)
(***************************************************************************)
DeactivationStands ==
    [][\A a \in Account :
          Registered(a) /\ ~Active(a) /\ Active(a)' =>
              \E p \in Patch : /\ patch[p].at = "loaded" /\ patch'[p].at = "idle"
                               /\ patch[p].of = a /\ ~patch[p].seen]_accountVars
=============================================================================
