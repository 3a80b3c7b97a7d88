--------------------------- MODULE AccountsProofs ---------------------------
(***************************************************************************)
(* For any number of accounts and of overlapping PATCH requests: how the   *)
(* last active administrator can be lost, and that a deactivation is not   *)
(* undone by a request that never saw it.                                  *)
(***************************************************************************)
EXTENDS Accounts, TLAPS

\* Only an administrator deactivates, and stays one.
Governed ==
    (\E a \in Account : Registered(a) /\ ~Active(a)) => \E a \in Account : IsAdmin(a)

\* What Authorize saw of a request in flight, and nothing takes back.
CallersAreAdmins ==
    \A p \in Patch :
        patch[p].at # "idle" =>
            /\ patch[p].by \in Account /\ patch[p].of \in Account
            /\ IsAdmin(patch[p].by)
            /\ ~patch[p].want => patch[p].of # patch[p].by

AccountsInv == AccountsTypeOK /\ Governed /\ CallersAreAdmins

-----------------------------------------------------------------------------
\* The initial state is well typed.
LEMMA AccountsInitTyped == AccountsInit => AccountsTypeOK
  BY DEF AccountsInit, AccountsTypeOK, NoUser, User, NoPatch, PatchRequest

\* Every step keeps the types.
LEMMA AccountsNextTyped == AccountsTypeOK /\ [AccountsNext]_accountVars => AccountsTypeOK'
<1> SUFFICES ASSUME AccountsTypeOK, [AccountsNext]_accountVars PROVE AccountsTypeOK'
  OBVIOUS
<1> USE DEF AccountsTypeOK, User, PatchRequest, Registered, Active
<1>1. ASSUME NEW a \in Account, SeedAdmin(a) PROVE AccountsTypeOK'
  BY <1>1 DEF SeedAdmin, Created
<1>2. ASSUME NEW a \in Account, PromoteToAdmin(a) PROVE AccountsTypeOK'
  BY <1>2 DEF PromoteToAdmin
<1>3. ASSUME NEW a \in Account, RegisterUser(a) PROVE AccountsTypeOK'
  BY <1>3 DEF RegisterUser, Created
<1>4. ASSUME NEW p \in Patch, Authorize(p) PROVE AccountsTypeOK'
  BY <1>4 DEF Authorize
<1>5. ASSUME NEW p \in Patch, LoadTarget(p) PROVE AccountsTypeOK'
  <2>1. CASE Registered(patch[p].of)
    <3>1. PICK s \in BOOLEAN : s = ((patch[p].of = patch[p].by) \/ Active(patch[p].of))
      OBVIOUS
    <3>2. /\ patch' = [patch EXCEPT ![p].at = "loaded", ![p].seen = s]
          /\ UNCHANGED user
      <4> HIDE DEF AccountsTypeOK, User, PatchRequest, Registered, Active
      <4> QED BY <1>5, <2>1, <3>1, Zenon DEF LoadTarget
    <3> QED BY <3>2
  <2>2. CASE ~Registered(patch[p].of)
    BY <1>5, <2>2 DEF LoadTarget, NoPatch
  <2> QED BY <2>1, <2>2
<1>6. ASSUME NEW p \in Patch, CommitSwitch(p) PROVE AccountsTypeOK'
  <2>1. patch' \in [Patch -> PatchRequest]
    BY <1>6 DEF CommitSwitch, NoPatch
  <2>2. user' \in [Account -> User]
    BY <1>6 DEF CommitSwitch, Switched
  <2> QED BY <2>1, <2>2
<1>7. ASSUME NEW p \in Patch, DropPatch(p) PROVE AccountsTypeOK'
  BY <1>7 DEF DropPatch, NoPatch
<1>8. CASE UNCHANGED accountVars
  BY <1>8 DEF accountVars
<1> QED
  BY <1>1, <1>2, <1>3, <1>4, <1>5, <1>6, <1>7, <1>8 DEF AccountsNext, Administration

\* Every reachable state of accounts and PATCH requests is well typed.
THEOREM AccountsTypeCorrect == AccountsSpec => []AccountsTypeOK
  BY AccountsInitTyped, AccountsNextTyped, PTL DEF AccountsSpec

-----------------------------------------------------------------------------
\* Every step keeps the invariant.
LEMMA AccountsNextGoverned ==
    ASSUME AccountsInv, [AccountsNext]_accountVars
    PROVE  AccountsInv'
<1>0. AccountsTypeOK'
  BY AccountsNextTyped DEF AccountsInv
<1> USE DEF AccountsInv, AccountsTypeOK, User, PatchRequest,
            Governed, CallersAreAdmins, Registered, Active, IsAdmin
<1>1. ASSUME NEW a \in Account, SeedAdmin(a) PROVE AccountsInv'
  BY <1>0, <1>1 DEF SeedAdmin, Created
<1>2. ASSUME NEW a \in Account, PromoteToAdmin(a) PROVE AccountsInv'
  BY <1>0, <1>2 DEF PromoteToAdmin
<1>3. ASSUME NEW a \in Account, RegisterUser(a) PROVE AccountsInv'
  BY <1>0, <1>3 DEF RegisterUser, Created
<1>4. ASSUME NEW p \in Patch, Authorize(p) PROVE AccountsInv'
  BY <1>0, <1>4 DEF Authorize
<1>5. ASSUME NEW p \in Patch, LoadTarget(p) PROVE AccountsInv'
  BY <1>0, <1>5 DEF LoadTarget, NoPatch
<1>6. ASSUME NEW p \in Patch, CommitSwitch(p) PROVE AccountsInv'
  <2>1. /\ patch[p].by \in Account /\ patch[p].of \in Account /\ IsAdmin(patch[p].by)
    BY <1>6 DEF CommitSwitch
  <2>2. \A a \in Account : user'[a].role = user[a].role
    BY <1>6, <2>1 DEF CommitSwitch
  <2>3. Governed'
    BY <2>1, <2>2
  <2>4. CallersAreAdmins'
    BY <1>6, <2>2 DEF CommitSwitch, NoPatch
  <2> QED BY <1>0, <2>3, <2>4
<1>7. ASSUME NEW p \in Patch, DropPatch(p) PROVE AccountsInv'
  BY <1>0, <1>7 DEF DropPatch, NoPatch
<1>8. CASE UNCHANGED accountVars
  BY <1>0, <1>8 DEF accountVars
<1> QED
  BY <1>1, <1>2, <1>3, <1>4, <1>5, <1>6, <1>7, <1>8 DEF AccountsNext, Administration

LEMMA AccountsInvHolds == AccountsSpec => []AccountsInv
<1>1. AccountsInit => AccountsInv
  BY AccountsInitTyped
     DEF AccountsInit, AccountsInv, Governed, CallersAreAdmins, NoUser, NoPatch,
         Registered, Active, IsAdmin
<1> QED
  BY <1>1, AccountsNextGoverned, PTL DEF AccountsSpec

(***************************************************************************)
(* However many requests overlap, the last active administrator is lost    *)
(* only by a request whose caller was deactivated while it was in flight.  *)
(***************************************************************************)
THEOREM LockoutsNeedOverlap == AccountsSpec => LockoutNeedsOverlap
<1> DEFINE Overlaps ==
    SomeAdminIsActive /\ ~SomeAdminIsActive' =>
        \E p \in Patch : /\ patch[p].at = "loaded" /\ patch'[p].at = "idle"
                         /\ ~Active(patch[p].by)
<1>1. AccountsInv /\ [AccountsNext]_accountVars => [Overlaps]_accountVars
  <2> SUFFICES ASSUME AccountsInv, [AccountsNext]_accountVars,
                      SomeAdminIsActive, ~SomeAdminIsActive'
               PROVE  \E p \in Patch : /\ patch[p].at = "loaded" /\ patch'[p].at = "idle"
                                       /\ ~Active(patch[p].by)
    OBVIOUS
  <2> USE DEF AccountsInv, AccountsTypeOK, User, PatchRequest, SomeAdminIsActive,
              Registered, Active, IsAdmin
  <2>1. ASSUME NEW a \in Account, SeedAdmin(a) PROVE FALSE
    BY <2>1 DEF SeedAdmin, Created
  <2>2. ASSUME NEW a \in Account, PromoteToAdmin(a) PROVE FALSE
    <3>1. CASE \E b \in Account : IsAdmin(b)
      BY <2>2, <3>1 DEF PromoteToAdmin
    <3>2. CASE ~\E b \in Account : IsAdmin(b)
      <4>1. Active(a)
        BY <2>2, <3>2 DEF PromoteToAdmin, Governed
      <4> QED BY <2>2, <4>1 DEF PromoteToAdmin
    <3> QED BY <3>1, <3>2
  <2>3. ASSUME NEW a \in Account, RegisterUser(a) PROVE FALSE
    BY <2>3 DEF RegisterUser, Created
  <2>4. ASSUME NEW p \in Patch, Authorize(p) \/ LoadTarget(p) \/ DropPatch(p) PROVE FALSE
    BY <2>4 DEF Authorize, LoadTarget, DropPatch
  <2>5. ASSUME NEW p \in Patch, CommitSwitch(p)
        PROVE  patch[p].at = "loaded" /\ patch'[p].at = "idle" /\ ~Active(patch[p].by)
    <3>1. /\ patch[p].by \in Account /\ patch[p].of \in Account /\ IsAdmin(patch[p].by)
          /\ ~patch[p].want => patch[p].of # patch[p].by
      BY <2>5 DEF CommitSwitch, CallersAreAdmins
    <3>2. /\ user'[patch[p].by].role = "ADMIN"
          /\ Active(patch[p].by) => user'[patch[p].by].active
      BY <2>5, <3>1 DEF CommitSwitch, Switched
    <3> QED BY <2>5, <3>1, <3>2 DEF CommitSwitch, NoPatch
  <2>6. CASE UNCHANGED accountVars
    BY <2>6 DEF accountVars
  <2> QED
    BY <2>1, <2>2, <2>3, <2>4, <2>5, <2>6 DEF AccountsNext, Administration
<1> QED
  BY <1>1, AccountsInvHolds, PTL DEF AccountsSpec, LockoutNeedsOverlap

(***************************************************************************)
(* However many requests overlap, only a request that loaded the account   *)
(* as deactivated activates it.                                            *)
(***************************************************************************)
THEOREM DeactivationsStand == AccountsSpec => DeactivationStands
<1> DEFINE Stands ==
    \A a \in Account :
          Registered(a) /\ ~Active(a) /\ Active(a)' =>
              \E p \in Patch : /\ patch[p].at = "loaded" /\ patch'[p].at = "idle"
                               /\ patch[p].of = a /\ ~patch[p].seen
<1>1. AccountsTypeOK /\ [AccountsNext]_accountVars => [Stands]_accountVars
  <2> SUFFICES ASSUME AccountsTypeOK, [AccountsNext]_accountVars,
                      NEW a \in Account, Registered(a), ~Active(a), Active(a)'
               PROVE  \E p \in Patch : /\ patch[p].at = "loaded" /\ patch'[p].at = "idle"
                                       /\ patch[p].of = a /\ ~patch[p].seen
    OBVIOUS
  <2> USE DEF AccountsTypeOK, User, PatchRequest, Registered, Active
  <2>1. ASSUME NEW b \in Account, SeedAdmin(b) \/ RegisterUser(b) PROVE FALSE
    BY <2>1 DEF SeedAdmin, RegisterUser, Created
  <2>2. ASSUME NEW b \in Account, PromoteToAdmin(b) PROVE FALSE
    BY <2>2 DEF PromoteToAdmin
  <2>3. ASSUME NEW p \in Patch, Authorize(p) \/ LoadTarget(p) \/ DropPatch(p) PROVE FALSE
    BY <2>3 DEF Authorize, LoadTarget, DropPatch
  <2>4. ASSUME NEW p \in Patch, CommitSwitch(p)
        PROVE  patch[p].at = "loaded" /\ patch'[p].at = "idle"
               /\ patch[p].of = a /\ ~patch[p].seen
    BY <2>4 DEF CommitSwitch, Switched, NoPatch
  <2>5. CASE UNCHANGED accountVars
    BY <2>5 DEF accountVars
  <2> QED
    BY <2>1, <2>2, <2>3, <2>4, <2>5 DEF AccountsNext, Administration
<1> QED
  BY <1>1, AccountsTypeCorrect, PTL DEF AccountsSpec, DeactivationStands
=============================================================================
