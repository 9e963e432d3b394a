---- MODULE SessionStore ----
(***************************************************************************)
(* What the refresh tokens of the service are for, without its requests:   *)
(* sessions that are opened for a user, rotated into a successor of the    *)
(* same user, and closed one at a time or all of one user's at once.  A    *)
(* closed session never opens again.                                       *)
(***************************************************************************)
CONSTANTS Sessions, Holders, None

VARIABLES
    holder,  \* whose session it is; None before it is opened
    parent,  \* the session it was rotated from
    open     \* the sessions that have not been closed

storeVars == <<holder, parent, open>>

StoreInit ==
    /\ holder = [s \in Sessions |-> None]
    /\ parent = [s \in Sessions |-> None]
    /\ open = {}

Fresh(s) == holder[s] = None

OpenSession == \E s \in Sessions, h \in Holders :
    /\ Fresh(s)
    /\ holder' = [holder EXCEPT ![s] = h]
    /\ open' = open \cup {s}
    /\ UNCHANGED parent

\* The predecessor is closed in the same step, if it is not closed already.
RotateSession == \E old, s \in Sessions :
    /\ ~Fresh(old) /\ Fresh(s)
    /\ holder' = [holder EXCEPT ![s] = holder[old]]
    /\ parent' = [parent EXCEPT ![s] = old]
    /\ open' = (open \ {old}) \cup {s}

CloseSession == \E s \in open :
    /\ open' = open \ {s}
    /\ UNCHANGED <<holder, parent>>

CloseAllOf == \E h \in Holders :
    /\ open' = {s \in open : holder[s] # h}
    /\ UNCHANGED <<holder, parent>>

StoreNext == OpenSession \/ RotateSession \/ CloseSession \/ CloseAllOf

StoreSpec == StoreInit /\ [][StoreNext]_storeVars
====
