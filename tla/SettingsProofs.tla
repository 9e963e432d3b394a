---- MODULE SettingsProofs ----
(***************************************************************************)
(* StaleFillsBounded for every number of requests, and for the requests    *)
(* that pass a gate as well: Gates adds steps that leave Settings alone.   *)
(* The bound is inductive together with the old values still in hand: the  *)
(* stale writes since the row changed, and the requests that hold an older *)
(* value, are no more than the requests. Of the gates themselves, the      *)
(* types and that they implement Settings.                                 *)
(***************************************************************************)
EXTENDS Gates, FiniteSetTheorems, TLAPS

\* The requests that are about to write an older value than the row's.
Holding == {r \in Requests : /\ req[r].pc \in {"get.fill", "update.write"}
                             /\ req[r].value.version < Current.version}

\* The bound, with those that will yet write an older value.
StaleInv == staleFills + Cardinality(Holding) <= Cardinality(Requests)

\* A request that is about to write has something to write.
Carrying == \A r \in Requests :
    req[r].pc \in {"get.fill", "update.write"} => req[r].value \in Settings

\* The inductive invariant of Settings.
IInv == TypeOK /\ Carrying /\ StaleInv

\* The steps of Settings, whoever takes them.
SettingsStep ==
    \/ \E r \in Requests : ReadCache(r) \/ Upsert(r) \/ Resume(r) \/ Abort(r)
    \/ Expire \/ DirectEdit
----------------------------------------------------------------------------
\* The row as getSettings returns it, and as an update changes it.
LEMMA CurrentType ==
  ASSUME TypeOK PROVE Current \in Settings
<1>1. [flags |-> FALLBACK_SETTINGS, version |-> 0] \in Settings
  BY DEF Settings, Flags, FALLBACK_SETTINGS
<1> QED BY <1>1 DEF Current, TypeOK

LEMMA MergedType ==
  ASSUME TypeOK, NEW dto \in UpdateSettingsDto
  PROVE  Merged(dto) \in Settings /\ Merged(dto).version = Current.version + 1
<1>1. Current \in Settings
  BY CurrentType
<1>2. \A f \in DOMAIN FALLBACK_SETTINGS :
        (IF f \in DOMAIN dto THEN dto[f] ELSE Current.flags[f]) \in BOOLEAN
  <2>1. \A f \in DOMAIN dto : dto[f] \in BOOLEAN
    BY DEF UpdateSettingsDto, Flags
  <2>2. \A f \in DOMAIN FALLBACK_SETTINGS : Current.flags[f] \in BOOLEAN
    BY <1>1 DEF Settings, Flags, FALLBACK_SETTINGS
  <2> QED BY <2>1, <2>2
<1>3. Merged(dto).flags \in Flags
  BY <1>2 DEF Merged, Flags, FALLBACK_SETTINGS
<1>4. Merged(dto) = [flags |-> Merged(dto).flags, version |-> Current.version + 1]
  BY DEF Merged
<1> QED BY <1>1, <1>3, <1>4 DEF Settings

\* Sets of requests are finite, and shrink by what they lose.
LEMMA Counting ==
  ASSUME NEW S \in SUBSET Requests, NEW T \in SUBSET S
  PROVE  /\ IsFiniteSet(S) /\ Cardinality(S) \in Nat /\ Cardinality(T) \in Nat
         /\ Cardinality(Requests) \in Nat /\ Cardinality(S) <= Cardinality(Requests)
         /\ Cardinality(T) <= Cardinality(S)
         /\ \A r \in S : r \notin T => Cardinality(T) < Cardinality(S)
<1>1. /\ IsFiniteSet(S) /\ Cardinality(S) <= Cardinality(Requests)
      /\ IsFiniteSet(T) /\ Cardinality(T) <= Cardinality(S)
      /\ Cardinality(T) = Cardinality(S) => T = S
  BY SettingsAssumption, FS_Subset
<1>2. /\ Cardinality(S) \in Nat /\ Cardinality(T) \in Nat
      /\ Cardinality(Requests) \in Nat
  BY <1>1, SettingsAssumption, FS_CardinalityType
<1> QED BY <1>1, <1>2

\* While the row stays, a request that does not take up an old value leaves
\* the bound alone, and may write the old value it holds.
LEMMA RowStays ==
  ASSUME TypeOK, StaleInv, NEW r \in Requests, NEW q, UNCHANGED row,
         req' = [req EXCEPT ![r] = q],
         ~(q.pc \in {"get.fill", "update.write"} /\ q.value.version < Current.version),
         \/ staleFills' = staleFills
         \/ r \in Holding /\ staleFills' = staleFills + 1
  PROVE  StaleInv'
<1>1. Current' = Current
  BY DEF Current
<1>2. Holding' = Holding \ {r}
  BY <1>1 DEF Holding, TypeOK
<1>3. /\ Cardinality(Holding') <= Cardinality(Holding)
      /\ Cardinality(Holding) \in Nat /\ Cardinality(Holding') \in Nat
      /\ Cardinality(Requests) \in Nat
      /\ r \in Holding => Cardinality(Holding') < Cardinality(Holding)
  BY <1>2, Counting DEF Holding
<1> QED BY <1>3 DEF StaleInv, TypeOK

\* Whatever is in flight when the row changes, it is at most every request.
LEMMA RowChanges ==
  ASSUME staleFills' = 0 PROVE StaleInv'
<1>1. Holding' \in SUBSET Requests
  BY DEF Holding
<1> QED BY <1>1, Counting DEF StaleInv
----------------------------------------------------------------------------
\* Each step keeps the invariant.
LEMMA ReadCacheKeeps ==
  ASSUME IInv, NEW r \in Requests, ReadCache(r) PROVE IInv'
<1>1. req' = [req EXCEPT ![r] = [pc |-> "get.row", value |-> None]]
  BY DEF ReadCache, Await
<1>2. TypeOK' /\ Carrying'
  BY <1>1 DEF IInv, TypeOK, Carrying, ReadCache, Awaits
<1>3. StaleInv'
  BY <1>1, RowStays DEF IInv, ReadCache
<1> QED BY <1>2, <1>3 DEF IInv

\* A request that misses takes the value the row has now.
LEMMA ReadRowKeeps ==
  ASSUME IInv, NEW r \in Requests, ReadRow(r) PROVE IInv'
<1>1. /\ req' = [req EXCEPT ![r] = [pc |-> "get.fill", value |-> Current]]
      /\ Current \in Settings
  BY CurrentType DEF ReadRow, Await, IInv
<1>2. TypeOK' /\ Carrying'
  BY <1>1 DEF IInv, TypeOK, Carrying, ReadRow, Awaits
<1>3. StaleInv'
  <2>1. ~(Current.version < Current.version)
    BY <1>1 DEF Settings
  <2> QED BY <1>1, <2>1, RowStays DEF IInv, ReadRow
<1> QED BY <1>2, <1>3 DEF IInv

\* Fill and WriteThrough both write what the request carries, and respond.
LEMMA WriteCacheKeeps ==
  ASSUME IInv, NEW r \in Requests, Fill(r) \/ WriteThrough(r) PROVE IInv'
<1>1. /\ req[r].pc \in {"get.fill", "update.write"}
      /\ req' = [req EXCEPT ![r] = NoRequest] /\ row' = row
      /\ WriteCache(req[r].value)
  BY DEF Fill, WriteThrough, At, Respond
<1>2. req[r].value \in Settings
  BY <1>1 DEF IInv, Carrying
<1>3. /\ cache' \in Settings \cup {None}
      /\ \/ staleFills' = staleFills
         \/ r \in Holding /\ staleFills' = staleFills + 1
  BY <1>1, <1>2 DEF WriteCache, Holding, IInv, TypeOK
<1>4. TypeOK' /\ Carrying'
  BY <1>1, <1>3 DEF IInv, TypeOK, Carrying, NoRequest, Awaits
<1>5. StaleInv'
  BY <1>1, <1>3, RowStays DEF IInv, NoRequest
<1> QED BY <1>4, <1>5 DEF IInv

\* From here on, whatever is in hand is an older value.
LEMMA UpsertKeeps ==
  ASSUME IInv, NEW r \in Requests, Upsert(r) PROVE IInv'
<1>1. PICK dto \in UpdateSettingsDto :
        /\ row' = Merged(dto) /\ staleFills' = 0 /\ UNCHANGED cache
        /\ req' = [req EXCEPT ![r] = [pc |-> "update.write", value |-> Merged(dto)]]
  BY DEF Upsert, Await
<1>2. Merged(dto) \in Settings
  BY MergedType DEF IInv
<1>3. TypeOK' /\ Carrying'
  BY <1>1, <1>2 DEF IInv, TypeOK, Carrying, Awaits
<1> QED BY <1>1, <1>3, RowChanges DEF IInv

\* The same when the row is edited past the service.
LEMMA DirectEditKeeps ==
  ASSUME IInv, DirectEdit PROVE IInv'
<1>1. PICK dto \in UpdateSettingsDto :
        row' = Merged(dto) /\ staleFills' = 0 /\ UNCHANGED <<cache, req>>
  BY DEF DirectEdit
<1>2. TypeOK' /\ Carrying'
  BY <1>1, MergedType DEF IInv, TypeOK, Carrying
<1> QED BY <1>1, <1>2, RowChanges DEF IInv

\* A request that dies writes nothing.
LEMMA AbortKeeps ==
  ASSUME IInv, NEW r \in Requests, Abort(r) PROVE IInv'
<1>1. req' = [req EXCEPT ![r] = NoRequest]
  BY DEF Abort, Respond
<1>2. TypeOK' /\ Carrying'
  BY <1>1 DEF IInv, TypeOK, Carrying, Abort, NoRequest, Awaits
<1>3. StaleInv'
  BY <1>1, RowStays DEF IInv, Abort, NoRequest
<1> QED BY <1>2, <1>3 DEF IInv

\* The cached entry expires, or nothing happens.
LEMMA NothingInHandMoves ==
  ASSUME IInv, UNCHANGED <<row, req, staleFills>>, cache' \in {cache, None}
  PROVE  IInv'
<1>1. Holding' = Holding
  BY DEF Holding, Current
<1> QED BY <1>1 DEF IInv, TypeOK, Carrying, StaleInv

\* All steps of Settings together.
LEMMA SettingsStepKeeps ==
  ASSUME IInv, SettingsStep \/ UNCHANGED vars PROVE IInv'
<1>1. ASSUME NEW r \in Requests, Resume(r) PROVE IInv'
  BY <1>1, ReadRowKeeps, WriteCacheKeeps DEF Resume
<1>2. CASE Expire
  BY <1>2, NothingInHandMoves DEF Expire
<1>3. CASE UNCHANGED vars
  BY <1>3, NothingInHandMoves DEF vars
<1> QED
  BY <1>1, <1>2, <1>3, ReadCacheKeeps, UpsertKeeps, AbortKeeps, DirectEditKeeps
  DEF SettingsStep

\* Nothing is cached at first, and no request under way.
LEMMA InitIInv ==
  ASSUME Init PROVE IInv
<1>1. TypeOK /\ Carrying
  <2>1. [flags |-> FALLBACK_SETTINGS, version |-> 0] \in Settings
    BY DEF Settings, Flags, FALLBACK_SETTINGS
  <2>2. NoRequest \in [pc: Awaits, value: Settings \cup {None}]
    BY DEF NoRequest, Awaits
  <2> QED BY <2>1, <2>2 DEF Init, TypeOK, Carrying, NoRequest
<1>2. Holding = {} /\ staleFills = 0
  BY DEF Init, Holding, NoRequest
<1>3. Cardinality(Holding) = 0 /\ Cardinality(Requests) \in Nat
  BY <1>2, SettingsAssumption, FS_EmptySet, FS_CardinalityType
<1> QED BY <1>1, <1>2, <1>3 DEF IInv, StaleInv

\* Whoever asks for a gate calls getSettings like anybody else.
LEMMA GatesStepIsSettingsStep ==
  ASSUME [GatesNext]_gateVars PROVE SettingsStep \/ UNCHANGED vars
  BY DEF GatesNext, gateVars, CheckGate, GateResume, Admit, GateAborts, SettingsStep
----------------------------------------------------------------------------
\* The invariant implies the bound.
LEMMA IInvBounds ==
  ASSUME IInv PROVE StaleFillsBounded
<1>1. Holding \in SUBSET Requests
  BY DEF Holding
<1>2. Cardinality(Holding) \in Nat /\ Cardinality(Requests) \in Nat
  BY <1>1, Counting
<1> QED BY <1>2 DEF IInv, StaleInv, StaleFillsBounded, TypeOK

\* Between two changes of the row, and however many requests read, update and
\* pass gates, the cache is given an older value at most once by each request:
\* stale settings cannot be renewed for ever (WriteCache, readCache).
THEOREM StaleFillsAlwaysBounded == GatesSpec => []StaleFillsBounded
<1>1. GatesInit => IInv
  BY InitIInv DEF GatesInit
<1>2. IInv /\ [GatesNext]_gateVars => IInv'
  BY GatesStepIsSettingsStep, SettingsStepKeeps
<1>3. IInv => StaleFillsBounded
  BY IInvBounds
<1> QED BY <1>1, <1>2, <1>3, PTL DEF GatesSpec
----------------------------------------------------------------------------
(* Who asks for a gate                                                     *)

\* What GatesTypeOK says of one gate.
Gate == [flag: Gated \cup {None}, state: {"none", "asking", "admitted"}]

\* Deciding leaves a gate that is not asking any more, and no other changed.
LEMMA Decided ==
  ASSUME GatesTypeOK, NEW r \in Requests, NEW flag \in Gated \cup {None}, NEW value,
         Decide(r, flag, value)
  PROVE  /\ gate' \in [Requests -> Gate] /\ gate'[r].state # "asking"
         /\ \A s \in Requests \ {r} : gate'[s] = gate[s]
<1> DEFINE decision == IF Passes(value.flags, flag)
                       THEN [flag |-> flag, state |-> "admitted"] ELSE NoGate
<1>1. decision \in Gate /\ decision.state # "asking"
  BY DEF NoGate, Gate
<1>2. gate' = [gate EXCEPT ![r] = decision] /\ gate \in [Requests -> Gate]
  BY DEF Decide, GatesTypeOK, Gate
<1> HIDE DEF decision
<1> QED BY <1>1, <1>2

\* Who asks has a getSettings call under way that is yet to answer.
Asking == \A r \in Requests : gate[r].state = "asking" => req[r].pc \in {"get.row", "get.fill"}

\* With the invariant of Settings, every step keeps it so.
LEMMA GatesInductive ==
  ASSUME IInv, GatesTypeOK, [GatesNext]_gateVars PROVE GatesTypeOK'
<1>0. /\ gate \in [Requests -> Gate] /\ TypeOK /\ TypeOK'
      /\ req \in [Requests -> [pc: Awaits, value: Settings \cup {None}]]
      /\ Asking
  BY GatesStepIsSettingsStep, SettingsStepKeeps DEF IInv, GatesTypeOK, Gate, TypeOK, Asking
<1> SUFFICES gate' \in [Requests -> Gate] /\ Asking'
  BY <1>0 DEF GatesTypeOK, Gate, Asking
<1> USE DEF Asking
<1>1. ASSUME NEW r \in Requests, gate'[r].state # "asking", gate' \in [Requests -> Gate],
             \A s \in Requests \ {r} : gate'[s] = gate[s] /\ req'[s] = req[s]
      PROVE  gate' \in [Requests -> Gate] /\ Asking'
  BY <1>0, <1>1
<1>2. ASSUME NEW r \in Requests, CheckGate(r)
      PROVE  gate' \in [Requests -> Gate] /\ Asking'
  <2>1. PICK flag \in Gated :
          \/ Decide(r, flag, cache) /\ UNCHANGED vars
          \/ ReadCache(r) /\ gate' = [gate EXCEPT ![r] = [flag |-> flag, state |-> "asking"]]
    BY <1>2 DEF CheckGate
  <2>2. CASE Decide(r, flag, cache) /\ UNCHANGED vars
    BY <1>1, <2>2, Decided DEF vars
  <2>3. CASE ReadCache(r) /\ gate' = [gate EXCEPT ![r] = [flag |-> flag, state |-> "asking"]]
    BY <1>0, <2>3 DEF ReadCache, Await, Gate
  <2> QED BY <2>1, <2>2, <2>3
<1>3. ASSUME NEW r \in Requests, GateResume(r)
      PROVE  gate' \in [Requests -> Gate] /\ Asking'
  <2>1. /\ \A s \in Requests \ {r} : req'[s] = req[s]
        /\ \/ At(r, "get.row") /\ req'[r].pc = "get.fill"
           \/ At(r, "get.fill") \/ At(r, "update.write")
    BY <1>0, <1>3 DEF GateResume, Resume, ReadRow, Fill, WriteThrough, Await, Respond
  <2>2. CASE At(r, "get.fill") /\ gate[r].state = "asking"
    <3>1. gate[r].flag \in Gated \cup {None} /\ Decide(r, gate[r].flag, req[r].value)
      BY <1>0, <1>3, <2>2 DEF GateResume, Gate
    <3> QED BY <1>1, <2>1, <3>1, Decided
  <2>3. CASE ~(At(r, "get.fill") /\ gate[r].state = "asking")
    <3>1. gate' = gate
      BY <1>3, <2>3 DEF GateResume
    <3> QED BY <1>0, <2>1, <2>3, <3>1 DEF At
  <2> QED BY <2>2, <2>3
<1>4. ASSUME NEW r \in Requests, Admit(r) \/ GateAborts(r)
      PROVE  gate' \in [Requests -> Gate] /\ Asking'
  <2>1. \A s \in Requests \ {r} : req'[s] = req[s]
    BY <1>0, <1>4 DEF Admit, GateAborts, Abort, Respond, vars
  <2>2. gate' = [gate EXCEPT ![r] = NoGate]
    BY <1>4 DEF Admit, GateAborts
  <2> QED BY <1>0, <1>1, <2>1, <2>2 DEF NoGate, Gate
<1>5. ASSUME NEW r \in Requests, gate[r] = NoGate, ReadCache(r) \/ Upsert(r), gate' = gate
      PROVE  gate' \in [Requests -> Gate] /\ Asking'
  <2>1. \A s \in Requests \ {r} : req'[s] = req[s]
    BY <1>0, <1>5 DEF ReadCache, Upsert, Await
  <2> QED BY <1>0, <1>1, <1>5, <2>1 DEF NoGate
<1>6. CASE gate' = gate /\ req' = req
  BY <1>0, <1>6
<1> QED BY <1>2, <1>3, <1>4, <1>5, <1>6
        DEF GatesNext, gateVars, vars, Expire, DirectEdit

\* No gate is asked for at first.
LEMMA GatesStart == GatesInit => IInv /\ GatesTypeOK
BY InitIInv DEF GatesInit, GatesTypeOK, NoGate, IInv

\* The row, the cache and the requests have their types, and a gate is asked
\* for only while the getSettings call behind it is under way.
THEOREM GatesTypeCorrect == GatesSpec => []GatesTypeOK
<1>1. IInv /\ GatesTypeOK /\ [GatesNext]_gateVars => (IInv /\ GatesTypeOK)'
  BY GatesInductive, GatesStepIsSettingsStep, SettingsStepKeeps
<1> QED BY <1>1, GatesStart, PTL DEF GatesSpec

\* The callers of getSettings do to the row and to the cache what Settings
\* describes: what its steps can never do, these do not either.
THEOREM GatesImplementSettings == GatesSpec => Init /\ [][Next]_vars
<1>1. [GatesNext]_gateVars => [Next]_vars
  BY GatesStepIsSettingsStep DEF SettingsStep, Next
<1> QED BY <1>1, PTL DEF GatesSpec, GatesInit
====
