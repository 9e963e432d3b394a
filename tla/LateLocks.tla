---- MODULE LateLocks ----
(***************************************************************************)
(* What "Cleared early by a successful login or password reset" is worth   *)
(* (.env.example): recordFailedAttempt increments in one statement and     *)
(* locks in another, so a login or a reset that clears the account between *)
(* the two is followed by a lock nobody has earned since.  Lockout with    *)
(* one more history variable that counts them.                             *)
(***************************************************************************)
EXTENDS Lockout

VARIABLE late  \* locks set below the threshold since the account was cleared

lateVars == <<lockoutVars, late>>

Belated(r) == At(r, "login.lock") /\ users[req[r].user].failed < MaxFailedAttempts

LateInit == LockoutInit /\ late = [u \in UserIds |-> 0]

ObserveLate(r) ==
    late' = IF Cleared(r) THEN [late EXCEPT ![req[r].user] = 0]
            ELSE IF Belated(r) THEN [late EXCEPT ![req[r].user] = @ + 1]
            ELSE late

LateNext ==
    \/ \E r \in Requests : Step(r) /\ ObserveStep(r) /\ ObserveLate(r)
    \/ \E r \in Requests : Abort(r) /\ ObserveAbort(r) /\ UNCHANGED late
    \/ Environment /\ ObserveEnvironment /\ UNCHANGED late

LateSpec == LateInit /\ [][LateNext]_lateVars
----------------------------------------------------------------------------
\* An account that a login or a reset has cleared is locked again below the
\* threshold only by requests that were in flight then, once by each: the
\* requests that come after cannot keep a cleared account locked out.
LateLocksBounded == \A u \in UserIds : late[u] < Cardinality(Requests)
====
