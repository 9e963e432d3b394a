---- MODULE StorageProofs ----
(***************************************************************************)
(* The properties of Storage for any number of requests, objects and       *)
(* folders.  They hold because an upload has its key to itself until the   *)
(* client is told: UUIDs are drawn once, and streams and deletes are asked *)
(* only for keys that were answered.                                       *)
(***************************************************************************)
EXTENDS Storage, TLAPS

\* The awaits of an upload, and those of the other operations.
Uploads == {"upload.create", "upload.fill", "upload.put", "upload.answer"}
Others == {"stream.open", "stream.get", "delete.rm", "delete.answer"}

\* What a request that awaits may rely on.
Holds(r) ==
    /\ req[r].pc \in Uploads => req[r].key \in Key \ known
    /\ req[r].pc \in Others => req[r].key \in known
    /\ req[r].pc = "upload.answer" => objects[req[r].key] = "whole"
    /\ req[r].pc \in {"delete.rm", "delete.answer"} => req[r].key \in condemned
    /\ req[r].pc = "delete.answer" => objects[req[r].key] = "absent"

\* No two requests upload under one key.
Apart == \A r, s \in Requests :
    r # s /\ req[r].pc \in Uploads /\ req[s].pc \in Uploads => req[r].key # req[s].key

\* What clients know of is whole, unless a delete has removed it.
KnownWhole ==
    /\ removed \subseteq condemned /\ condemned \subseteq known
    /\ \A k \in known : objects[k] = "whole" \/ (objects[k] = "absent" /\ k \in condemned)
    /\ \A k \in removed : objects[k] = "absent"

\* The inductive invariant.
IInv == TypeOK /\ (\A r \in Requests : Holds(r)) /\ Apart /\ KnownWhole
----------------------------------------------------------------------------
\* No object is stored and no request under way at first.
LEMMA InitIInv ==
  ASSUME Init PROVE IInv
<1>1. NoRequest \in [pc: Awaits, key: Key \cup {NoKey}]
  BY DEF NoRequest, Awaits
<1> QED
  BY <1>1 DEF Init, IInv, TypeOK, Holds, Apart, KnownWhole, NoRequest, Uploads, Others

\* What every step below does to the requests.
LEMMA OneMoves ==
  ASSUME TypeOK, NEW r \in Requests, NEW pc \in Awaits, NEW k \in Key \cup {NoKey},
         req' = [req EXCEPT ![r] = [pc |-> pc, key |-> k]]
  PROVE  /\ req' \in [Requests -> [pc: Awaits, key: Key \cup {NoKey}]]
         /\ req'[r].pc = pc /\ req'[r].key = k
         /\ \A s \in Requests \ {r} : req'[s] = req[s]
  BY DEF TypeOK

\* An upload begins with a key that nobody has drawn.
LEMMA UploadKeeps ==
  ASSUME IInv, NEW r \in Requests, Upload(r) PROVE IInv'
<1>1. PICK file \in File, folder \in Folders, id \in Ids :
        /\ ~Drawn(id)
        /\ Await(r, IF provider = "local" THEN "upload.create" ELSE "upload.put",
                 [folder |-> folder, id |-> id, extension |-> file.extension])
        /\ UNCHANGED <<provider, objects, known, condemned, removed>>
  BY DEF Upload
<1> DEFINE k == [folder |-> folder, id |-> id, extension |-> file.extension]
           pc == IF provider = "local" THEN "upload.create" ELSE "upload.put"
<1>2. k \in Key /\ k.id = id /\ pc \in Awaits /\ pc \in {"upload.create", "upload.put"}
  BY DEF File, Key, Awaits
<1>3. /\ k \notin known
      /\ \A s \in Requests : req[s].key # k
  BY <1>1, <1>2 DEF Drawn
<1>4. /\ req' \in [Requests -> [pc: Awaits, key: Key \cup {NoKey}]]
      /\ req'[r].pc = pc /\ req'[r].key = k
      /\ \A s \in Requests \ {r} : req'[s] = req[s]
  <2>1. req' = [req EXCEPT ![r] = [pc |-> pc, key |-> k]]
    BY <1>1 DEF Await
  <2> HIDE DEF k, pc
  <2> QED BY <1>2, <2>1, OneMoves DEF IInv
<1> HIDE DEF k, pc
<1>5. TypeOK' /\ KnownWhole'
  BY <1>1, <1>4 DEF IInv, TypeOK, KnownWhole
<1>6. \A s \in Requests : Holds(s)'
  BY <1>1, <1>2, <1>3, <1>4 DEF IInv, Holds, Uploads, Others
<1>7. Apart'
  BY <1>3, <1>4 DEF IInv, Apart
<1> QED BY <1>5, <1>6, <1>7 DEF IInv

\* A write of an upload touches a key nobody else has.
LEMMA WriteKeeps ==
  ASSUME IInv, NEW r \in Requests, NEW content \in {"partial", "whole"}, NEW pc \in Uploads,
         pc = "upload.answer" => content = "whole",
         req[r].pc \in Uploads, Put(req[r].key, content), Await(r, pc, req[r].key),
         UNCHANGED <<provider, known, condemned, removed>>
  PROVE  IInv'
<1>1. /\ req[r].key \in Key \ known /\ Holds(r)
      /\ objects \in [Key -> {"absent", "partial", "whole"}]
  BY DEF IInv, Holds, TypeOK
<1>2. /\ req' \in [Requests -> [pc: Awaits, key: Key \cup {NoKey}]]
      /\ req'[r].pc = pc /\ req'[r].key = req[r].key
      /\ \A s \in Requests \ {r} : req'[s] = req[s]
  BY <1>1, OneMoves DEF IInv, Await, Uploads, Awaits
<1>3. /\ objects' \in [Key -> {"absent", "partial", "whole"}]
      /\ objects'[req[r].key] = content
      /\ \A k \in Key : k # req[r].key => objects'[k] = objects[k]
  BY <1>1 DEF Put
<1>4. TypeOK'
  BY <1>2, <1>3 DEF IInv, TypeOK
<1>5. KnownWhole'
  BY <1>1, <1>3 DEF IInv, TypeOK, KnownWhole
<1>6. Holds(r)'
  BY <1>1, <1>2, <1>3 DEF Holds, Uploads, Others
<1>7. ASSUME NEW s \in Requests \ {r} PROVE Holds(s)'
  <2>1. Holds(s) /\ (req[s].pc \in Uploads => req[s].key # req[r].key)
    BY DEF IInv, Apart
  <2>2. req[s].pc \in Uploads \cup Others => req[s].key \in Key /\ req[s].key # req[r].key
    BY <1>1, <2>1 DEF Holds, IInv, TypeOK
  <2> QED BY <1>2, <1>3, <2>1, <2>2 DEF Holds, Uploads, Others
<1>8. Apart'
  BY <1>2 DEF IInv, Apart
<1> QED BY <1>4, <1>5, <1>6, <1>7, <1>8 DEF IInv

\* The client is told the key of an object that is whole.
LEMMA AnswerUploadKeeps ==
  ASSUME IInv, NEW r \in Requests, AnswerUpload(r) PROVE IInv'
<1>1. /\ req[r].pc = "upload.answer" /\ req[r].key \in Key
      /\ objects[req[r].key] = "whole"
      /\ known' = known \cup {req[r].key}
      /\ UNCHANGED <<provider, objects, condemned, removed>>
  BY DEF AnswerUpload, At, IInv, Holds, Uploads
<1>2. /\ req' \in [Requests -> [pc: Awaits, key: Key \cup {NoKey}]]
      /\ req'[r].pc = "idle"
      /\ \A s \in Requests \ {r} : req'[s] = req[s]
  BY OneMoves DEF IInv, AnswerUpload, Respond, NoRequest, Awaits
<1>3. TypeOK' /\ KnownWhole'
  BY <1>1, <1>2 DEF IInv, TypeOK, KnownWhole
<1>4. \A s \in Requests : Holds(s)'
  BY <1>1, <1>2 DEF IInv, Holds, Apart, Uploads, Others
<1>5. Apart'
  BY <1>2 DEF IInv, Apart, Uploads
<1> QED BY <1>3, <1>4, <1>5 DEF IInv

\* Streams and deletes begin with a key that was answered.
LEMMA AskKeeps ==
  ASSUME IInv, NEW r \in Requests, Stream(r) \/ Delete(r) PROVE IInv'
<1>1. PICK k \in known, pc \in Others \ {"delete.answer"} :
        /\ Await(r, pc, k)
        /\ pc = "delete.rm" => condemned' = condemned \cup {k}
        /\ pc # "delete.rm" => condemned' = condemned
        /\ UNCHANGED <<provider, objects, known, removed>>
  BY DEF Stream, Delete, Others
<1>2. k \in Key
  BY DEF IInv, TypeOK
<1>3. /\ req' \in [Requests -> [pc: Awaits, key: Key \cup {NoKey}]]
      /\ req'[r].pc = pc /\ req'[r].key = k
      /\ \A s \in Requests \ {r} : req'[s] = req[s]
  BY <1>1, <1>2, OneMoves DEF IInv, Await, Others, Awaits
<1>4. TypeOK' /\ KnownWhole'
  BY <1>1, <1>2, <1>3 DEF IInv, TypeOK, KnownWhole
<1>5. \A s \in Requests : Holds(s)'
  BY <1>1, <1>3 DEF IInv, Holds, Uploads, Others
<1>6. Apart'
  BY <1>1, <1>3 DEF IInv, Apart, Uploads, Others
<1> QED BY <1>4, <1>5, <1>6 DEF IInv

\* An object is removed only after it was condemned.
LEMMA RemoveObjectKeeps ==
  ASSUME IInv, NEW r \in Requests, RemoveObject(r) PROVE IInv'
<1>1. /\ req[r].pc = "delete.rm" /\ req[r].key \in known /\ req[r].key \in condemned
      /\ req[r].key \in Key
      /\ UNCHANGED <<provider, known, condemned, removed>>
      /\ objects \in [Key -> {"absent", "partial", "whole"}]
  BY DEF RemoveObject, At, IInv, Holds, Others, TypeOK
<1>2. /\ req' \in [Requests -> [pc: Awaits, key: Key \cup {NoKey}]]
      /\ req'[r].pc = "delete.answer" /\ req'[r].key = req[r].key
      /\ \A s \in Requests \ {r} : req'[s] = req[s]
  BY <1>1, OneMoves DEF IInv, RemoveObject, Await, Awaits
<1>3. /\ objects' \in [Key -> {"absent", "partial", "whole"}]
      /\ objects'[req[r].key] = "absent"
      /\ \A k \in Key : k # req[r].key => objects'[k] = objects[k]
  BY <1>1 DEF RemoveObject, Put
<1>4. TypeOK' /\ KnownWhole'
  BY <1>1, <1>2, <1>3 DEF IInv, TypeOK, KnownWhole
<1>5. \A s \in Requests : Holds(s)'
  <2>1. Holds(r)'
    BY <1>1, <1>2, <1>3 DEF Holds, Uploads, Others
  <2>2. ASSUME NEW s \in Requests \ {r} PROVE Holds(s)'
    <3>1. Holds(s) /\ req'[s] = req[s]
      BY <1>2 DEF IInv
    <3>2. req[s].pc \in Uploads \cup Others => req[s].key \in Key
      BY <3>1 DEF Holds, IInv, TypeOK
    <3> QED BY <1>1, <1>3, <3>1, <3>2 DEF Holds, Uploads, Others
  <2> QED BY <2>1, <2>2
<1>6. Apart'
  BY <1>2 DEF IInv, Apart, Uploads
<1> QED BY <1>4, <1>5, <1>6 DEF IInv

\* Requests that end without having written.
LEMMA EndKeeps ==
  ASSUME IInv, NEW r \in Requests, AnswerStream(r) \/ AnswerDelete(r) \/ Abort(r)
  PROVE  IInv'
<1>1. /\ UNCHANGED <<provider, objects, known, condemned>>
      /\ removed' \in {removed, removed \cup {req[r].key}}
      /\ removed' # removed
           => req[r].key \in condemned /\ objects[req[r].key] = "absent"
  BY DEF AnswerStream, AnswerDelete, Abort, At, IInv, Holds
<1>2. /\ req' \in [Requests -> [pc: Awaits, key: Key \cup {NoKey}]]
      /\ req'[r].pc = "idle"
      /\ \A s \in Requests \ {r} : req'[s] = req[s]
  BY OneMoves DEF IInv, AnswerStream, AnswerDelete, Abort, Respond, NoRequest, Awaits
<1>3. TypeOK' /\ KnownWhole'
  BY <1>1, <1>2 DEF IInv, TypeOK, KnownWhole
<1>4. \A s \in Requests : Holds(s)'
  BY <1>1, <1>2 DEF IInv, Holds, Uploads, Others
<1>5. Apart'
  BY <1>2 DEF IInv, Apart, Uploads
<1> QED BY <1>3, <1>4, <1>5 DEF IInv

\* Every step keeps the invariant.
LEMMA NextKeeps ==
  ASSUME IInv, [Next]_vars PROVE IInv'
<1>1. CASE UNCHANGED vars
  BY <1>1 DEF vars, IInv, TypeOK, Holds, Apart, KnownWhole
<1>2. ASSUME NEW r \in Requests, CreateFile(r) \/ FillFile(r) \/ PutObject(r) PROVE IInv'
  BY <1>2, WriteKeeps DEF CreateFile, FillFile, PutObject, At, Uploads
<1> QED
  BY <1>1, <1>2, UploadKeeps, AnswerUploadKeeps, AskKeeps, RemoveObjectKeeps, EndKeeps DEF Next

\* The invariant in every reachable state.
LEMMA Inductive == Spec => []IInv
<1> QED BY InitIInv, NextKeeps, PTL DEF Spec
----------------------------------------------------------------------------
\* Every object and every request of StorageService has its type.
THEOREM StorageTypeCorrect == Spec => []TypeOK
<1> QED BY Inductive, PTL DEF IInv

\* However many uploads, streams and deletes interleave or die, a key that
\* uploadFile has answered with is whole until a delete is asked for.
THEOREM KnownObjectsAlwaysWhole == Spec => []KnownObjectsWhole
<1>1. IInv => KnownObjectsWhole
  BY DEF IInv, KnownWhole, KnownObjectsWhole
<1> QED BY <1>1, Inductive, PTL

\* getFileStream never opens a file of which a part is missing.
THEOREM StreamsAlwaysWhole == Spec => []StreamsWhole
<1>1. IInv => StreamsWhole
  BY DEF IInv, Holds, Others, KnownWhole, StreamsWhole
<1> QED BY <1>1, Inductive, PTL

\* What deleteFile has answered for stays deleted.
THEOREM RemovedAlwaysStayRemoved == Spec => []RemovedStayRemoved
<1>1. IInv => RemovedStayRemoved
  BY DEF IInv, KnownWhole, RemovedStayRemoved
<1> QED BY <1>1, Inductive, PTL
====
