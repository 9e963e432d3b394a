---- MODULE Sessions ----
(***************************************************************************)
(* The life of refresh tokens: AuthService with history variables that     *)
(* number the sweeps (updateMany over all of a user's tokens: logout-all,  *)
(* replay of a rotated token, password reset) and record where each token  *)
(* comes from.                                                             *)
(***************************************************************************)
EXTENDS AuthService

CONSTANT SweepBound  \* bound: sweeps of one account that are watched
ASSUME SweepBoundAssumption == SweepBound \in Nat

VARIABLES
    generation,  \* how often the sessions of an account have been swept
    seen,        \* the generation of its account when a request that may issue
                 \* a token began; 0 otherwise
    since,       \* the seen of the request that issued an open token; else 0
    parent       \* the token it was rotated from

lineageVars == <<generation, seen, since, parent>>
sessionVars == <<vars, lineageVars>>

\* The lookups after which a request may issue a token.
BeginsIssue(r) == At(r, "idle") /\ req'[r].pc \in
    {"login.issue", "refresh.user", "google.link", "google.issue"}
Sweeps(r) == req[r].pc \in {"refresh.reuse", "logoutAll", "reset.commit"}
IssuedNow(t) == ~Issued(t) /\ refreshTokens'[t].user # None

SessionsInit ==
    /\ Init
    /\ generation = [u \in UserIds |-> 0]
    /\ seen = [r \in Requests |-> 0]
    /\ since = [t \in Tokens |-> 0]
    /\ parent = [t \in Tokens |-> None]

ObserveSweep(r) ==
    IF Sweeps(r)
    THEN /\ generation[req[r].user] < SweepBound
         /\ generation' = [generation EXCEPT ![req[r].user] = @ + 1]
    ELSE UNCHANGED generation

\* A request that creates its account has seen no sweep of it.
ObserveBegin(r) ==
    seen' = [seen EXCEPT ![r] = IF BeginsIssue(r) THEN generation[req'[r].user]
                                ELSE IF req'[r].pc = "idle" THEN 0 ELSE @]

ObserveIssue(r) ==
    /\ since' = [t \in Tokens |-> IF IssuedNow(t) THEN seen[r]
                                  ELSE IF Open(t)' THEN since[t] ELSE 0]
    /\ parent' = [t \in Tokens |-> IF IssuedNow(t) THEN req[r].token ELSE parent[t]]

SessionsNext ==
    \/ \E r \in Requests :
         Step(r) /\ ObserveSweep(r) /\ ObserveBegin(r) /\ ObserveIssue(r)
    \/ \E r \in Requests : Abort(r) /\ ObserveBegin(r)
                          /\ UNCHANGED <<generation, since, parent>>
    \/ Environment /\ UNCHANGED lineageVars

SessionsSpec == SessionsInit /\ [][SessionsNext]_sessionVars
----------------------------------------------------------------------------
(* Properties *)

\* Every variable has its type: the tables, the requests, the lineage of tokens.
SessionsTypeOK ==
    /\ TypeOK
    /\ generation \in [UserIds -> Nat]
    /\ seen \in [Requests -> Nat]
    /\ since \in [Tokens -> Nat]
    /\ parent \in [Tokens -> Maybe(Tokens)]

Survivors(u) == {t \in Tokens :
    refreshTokens[t].user = u /\ Open(t) /\ since[t] < generation[u]}

\* A sweep ends every session except those that requests still in flight issue
\* afterwards: every other request of the moment may leave one, no more.
SurvivorsBounded == \A u \in UserIds :
    Cardinality(Survivors(u)) < Cardinality(Requests)

\* A token is rotated at most once for each request that can hold it at once:
\* from the first rotation on, every lookup of it ends in the reuse branch.
RotationsBounded == \A t \in Tokens :
    Cardinality({c \in Tokens : parent[c] = t}) <= Cardinality(Requests)

\* The service implements SessionStore: rotation closes the predecessor in the
\* step that opens the successor, a closed session stays closed, and what is
\* closed at once is one session or all sessions of one user.
Store == INSTANCE SessionStore WITH
    Sessions <- Tokens, Holders <- UserIds, None <- None, parent <- parent,
    holder <- [t \in Tokens |-> refreshTokens[t].user],
    open <- {t \in Tokens : Open(t)}

ImplementsSessionStore == Store!StoreSpec
====
