---- MODULE Lockout ----
(***************************************************************************)
(* What MAX_FAILED_ATTEMPTS promises (.env.example, recordFailedAttempt):  *)
(* AuthService together with three history variables that watch it.  They  *)
(* never restrict a step of the service.                                   *)
(***************************************************************************)
EXTENDS AuthService

CONSTANT GuessBound  \* bound: no more wrong passwords than this are watched
ASSUME GuessBoundAssumption == GuessBound \in Nat

VARIABLES
    guesses,     \* wrong passwords compared since the account was cleared
    allowance,   \* how many of them the lockout has let through so far
    interrupted  \* accounts whose lock was owed by a request that died

historyVars == <<guesses, allowance, interrupted>>
lockoutVars == <<vars, historyVars>>

Guessed(r) == At(r, "idle") /\ req'[r].pc = "login.failed"
Cleared(r) == req[r].pc \in {"login.issue", "reset.commit"}
Owing(r) == req[r].pc \in {"login.failed", "login.lock"}

LockoutInit ==
    /\ Init
    /\ guesses = [u \in UserIds |-> 0]
    /\ allowance = [u \in UserIds |-> MaxFailedAttempts - 1]
    /\ interrupted = {}

\* A successful login or a password reset starts counting again.
ObserveStep(r) == LET u == req[r].user IN
    /\ Guessed(r) => guesses[req'[r].user] < GuessBound
    /\ guesses' = IF Guessed(r) THEN [guesses EXCEPT ![req'[r].user] = @ + 1]
                  ELSE IF Cleared(r) THEN [guesses EXCEPT ![u] = 0]
                  ELSE guesses
    /\ allowance' = IF Cleared(r)
                    THEN [allowance EXCEPT ![u] = MaxFailedAttempts - 1]
                    ELSE allowance
    /\ interrupted' = IF Cleared(r) \/ At(r, "login.lock")
                      THEN interrupted \ {u} ELSE interrupted

\* A request that dies before it has recorded or locked costs one guess.
ObserveAbort(r) == LET u == req[r].user IN
    /\ allowance' = IF Owing(r) THEN [allowance EXCEPT ![u] = @ + 1] ELSE allowance
    /\ interrupted' = IF At(r, "login.lock") THEN interrupted \cup {u} ELSE interrupted
    /\ UNCHANGED guesses

Elapsed(u) == users[u].locked = "running" /\ users'[u].locked = "elapsed"

\* When a lock runs out, what was guessed before it is spent.
ObserveEnvironment ==
    /\ allowance' = [u \in UserIds |->
         IF Elapsed(u) /\ allowance[u] < guesses[u] THEN guesses[u] ELSE allowance[u]]
    /\ UNCHANGED <<guesses, interrupted>>

LockoutNext ==
    \/ \E r \in Requests : Step(r) /\ ObserveStep(r)
    \/ \E r \in Requests : Abort(r) /\ ObserveAbort(r)
    \/ Environment /\ ObserveEnvironment

LockoutSpec == LockoutInit /\ [][LockoutNext]_lockoutVars
----------------------------------------------------------------------------
(* Properties *)

\* Every variable has its type: the tables, the requests and the counters.
LockoutTypeOK ==
    /\ TypeOK
    /\ guesses \in [UserIds -> Nat]
    /\ allowance \in [UserIds -> Nat]
    /\ interrupted \in SUBSET UserIds

\* An account at the threshold is locked, or was and its time ran out, or some
\* request is about to lock it, or the request that was to lock it has died
\* between the increment and the second update of recordFailedAttempt.
ThresholdLocks == \A u \in UserIds :
    users[u].failed >= MaxFailedAttempts =>
        \/ users[u].locked # "no"
        \/ u \in interrupted
        \/ \E r \in Requests : At(r, "login.lock") /\ req[r].user = u

\* However the requests of a parallel burst interleave, the wrong passwords
\* compared exceed what the lockout has let through by at most one for each
\* request that can be in flight: no increment is lost, none is made twice.
GuessesBounded == \A u \in UserIds :
    guesses[u] <= allowance[u] + Cardinality(Requests)
====
