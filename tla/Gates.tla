---- MODULE Gates ----
(***************************************************************************)
(* The feature gates of AuthService: register and googleLogin ask          *)
(* getSettings whether they may go on, hash a password or look accounts    *)
(* up, and insert a row several awaits later.  Settings underneath.        *)
(***************************************************************************)
EXTENDS Settings

VARIABLE gate   \* what each request wants, and whether its gate let it pass

gateVars == <<vars, gate>>

Gated == {"allowRegistration", "enableGoogleLogin"}
NoGate == [flag |-> None, state |-> "none"]

GatesInit == Init /\ gate = [r \in Requests |-> NoGate]

\* Mutation: the gate is read the wrong way round.
PassesWhenOff(flags, flag) == ~flags[flag]

\* A flag that is off is a ForbiddenException.
Passes(flags, flag) == flags[flag]

Decide(r, flag, value) == gate' = [gate EXCEPT ![r] =
    IF Passes(value.flags, flag) THEN [flag |-> flag, state |-> "admitted"] ELSE NoGate]

\* The first statement of register, and of googleLogin: a cache hit decides at
\* once, a miss awaits the row and the fill.
CheckGate(r) == \E flag \in Gated :
    /\ gate[r] = NoGate
    /\ \/ At(r, "idle") /\ cache # None /\ Decide(r, flag, cache) /\ UNCHANGED vars
       \/ ReadCache(r) /\ gate' = [gate EXCEPT ![r] = [flag |-> flag, state |-> "asking"]]

\* getSettings and updateSettings go on; a gate that awaits the answer acts on
\* the value it read, whether or not Redis took it.
GateResume(r) ==
    /\ Resume(r)
    /\ IF At(r, "get.fill") /\ gate[r].state = "asking"
       THEN Decide(r, gate[r].flag, req[r].value) ELSE UNCHANGED gate

\* The row is inserted: bcrypt.hash, or the lookups of googleLogin, are over.
Admit(r) ==
    /\ gate[r].state = "admitted"
    /\ gate' = [gate EXCEPT ![r] = NoGate]
    /\ UNCHANGED vars

GateAborts(r) ==
    /\ Abort(r) \/ (gate[r].state = "admitted" /\ UNCHANGED vars)
    /\ gate' = [gate EXCEPT ![r] = NoGate]

GatesNext ==
    \/ \E r \in Requests :
         \/ CheckGate(r) \/ GateResume(r) \/ Admit(r) \/ GateAborts(r)
         \/ gate[r] = NoGate /\ (ReadCache(r) \/ Upsert(r)) /\ UNCHANGED gate
    \/ (Expire \/ DirectEdit) /\ UNCHANGED gate

\* Hashing and lookups end.
GatesFairness ==
    /\ \A r \in Requests : WF_gateVars(GateResume(r)) /\ WF_gateVars(Admit(r))
    /\ WF_gateVars(Expire /\ UNCHANGED gate)

GatesSpec == GatesInit /\ [][GatesNext]_gateVars /\ GatesFairness
----------------------------------------------------------------------------
(* Properties *)

\* Every variable has its type, and only a pending read asks for a gate.
GatesTypeOK ==
    /\ TypeOK
    /\ gate \in [Requests -> [flag: Gated \cup {None}, state: {"none", "asking", "admitted"}]]
    /\ \A r \in Requests : gate[r].state = "asking" => req[r].pc \in {"get.row", "get.fill"}

\* README: "disable registration or Google login without a redeploy".  Once a
\* flag is off in the row and nobody turns it on again, requests that pass its
\* gate, on a stale copy or on a row read earlier, come to an end.
ClosedGateHolds == \A flag \in Gated :
    <>[](~Current.flags[flag])
    => <>[](\A r \in Requests : gate[r].flag = flag => gate[r].state # "admitted")
====
