---- MODULE Accounts ----
(***************************************************************************)
(* Who the service gives credentials to: AuthService with history          *)
(* variables that count what is issued for one reset token, and what is    *)
(* issued to an account after it was deactivated or deleted.               *)
(***************************************************************************)
EXTENDS AuthService

VARIABLES
    uses,         \* how often a reset token has set a password
    deactivated,  \* credentials an account got since it was deactivated
    deleted       \* credentials an account got since it was deleted

countVars == <<uses, deactivated, deleted>>
accountVars == <<vars, countVars>>

\* A credential is a refresh token or a new password.
Grants(r) == req[r].pc \in {"login.issue", "refresh.rotate", "google.issue", "reset.commit"}

AccountsInit ==
    /\ Init
    /\ uses = [k \in ResetTokens |-> 0]
    /\ deactivated = [u \in UserIds |-> 0]
    /\ deleted = [u \in UserIds |-> 0]

ObserveGrant(r) == LET u == req[r].user IN
    /\ uses' = IF At(r, "reset.commit") THEN [uses EXCEPT ![req[r].reset] = @ + 1]
               ELSE uses
    /\ deactivated' = IF Grants(r) /\ ~users[u].isActive
                      THEN [deactivated EXCEPT ![u] = @ + 1] ELSE deactivated
    /\ deleted' = IF Grants(r) /\ users[u].deleted
                  THEN [deleted EXCEPT ![u] = @ + 1] ELSE deleted

\* An account that is put back into service is counted anew.
ObserveEdit ==
    /\ deactivated' = [u \in UserIds |->
                         IF users'[u].isActive THEN 0 ELSE deactivated[u]]
    /\ deleted' = [u \in UserIds |-> IF users'[u].deleted THEN deleted[u] ELSE 0]
    /\ UNCHANGED uses

AccountsNext ==
    \/ \E r \in Requests : Step(r) /\ ObserveGrant(r)
    \/ \E r \in Requests : Abort(r) /\ UNCHANGED countVars
    \/ Environment /\ ObserveEdit

AccountsSpec == AccountsInit /\ [][AccountsNext]_accountVars
----------------------------------------------------------------------------
(* Properties *)

\* Every variable has its type.
AccountsTypeOK ==
    /\ TypeOK
    /\ uses \in [ResetTokens -> Nat]
    /\ deactivated \in [UserIds -> Nat]
    /\ deleted \in [UserIds -> Nat]

\* The requests that looked a reset token up before it was first used are all
\* that can still set a password with it: later lookups find it used.
ResetUsesBounded == \A k \in ResetTokens : uses[k] <= Cardinality(Requests)

\* Deactivating an account ends the issuing of credentials to it, but for the
\* requests that had read its row before: each gate reads isActive anew.
DeactivationBounded == \A u \in UserIds : deactivated[u] <= Cardinality(Requests)

\* The same for soft deletion (comment in resetPassword: "Every other gate that
\* issues/consumes credentials (login, refresh, googleLogin, JwtStrategy)
\* re-checks deletedAt/isActive against the current user row").
DeletionBounded == \A u \in UserIds : deleted[u] <= Cardinality(Requests)

\* However registrations, Google sign-ups and links race, and however the
\* address is typed, a mailbox and a Google identity have one account each.
OneAccountPerIdentity == \A u, v \in {w \in UserIds : Present(w)} :
    \/ u = v
    \/ /\ LowerCase[users[u].email] # LowerCase[users[v].email]
       /\ users[u].googleId = users[v].googleId => users[u].googleId = None
====
