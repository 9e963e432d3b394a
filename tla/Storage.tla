---- MODULE Storage ----
(***************************************************************************)
(* File storage: StorageController and StorageService over one of the two  *)
(* providers, local disk or an S3-compatible cloud.  Several requests are  *)
(* served at a time; each await on the file system or the object store is  *)
(* one atomic action.  An upload, stream or delete that a check refuses    *)
(* (400, 413, 415, and 404 for an object that is not there) changes        *)
(* nothing and is a stuttering step.                                       *)
(***************************************************************************)
EXTENDS Integers, FiniteSets

CONSTANTS
    Requests,        \* HTTP requests served at one time
    Folders,         \* folder names clients send
    SafeFolders,     \* those SAFE_FOLDER_PATTERN accepts
    Extensions,      \* path.extname(originalname), in lower case
    SafeExtensions,  \* those SAFE_FILENAME_PATTERN accepts behind a UUID
    Ids,             \* the UUIDs randomUUID() may draw
    MimeTypes,
    AllowedMimeTypes,  \* STORAGE_ALLOWED_MIME_TYPES
    MaxFileSize,       \* STORAGE_MAX_FILE_SIZE_MB, in blocks
    None

ASSUME StorageAssumption ==
    /\ SafeFolders \subseteq Folders
    /\ SafeExtensions \subseteq Extensions
    /\ AllowedMimeTypes \subseteq MimeTypes
    /\ MaxFileSize \in Nat
    /\ None \notin Folders

\* An object key <folder>/<uuid><extension>.
Key == [folder: Folders, id: Ids, extension: Extensions]
NoKey == [folder |-> None, id |-> None, extension |-> None]

\* What Multer hands over: limits.fileSize lets nothing larger through.
File == [size: 0..MaxFileSize + 1, mimetype: MimeTypes, extension: Extensions]

VARIABLES
    provider,   \* STORAGE_PROVIDER
    objects,    \* what the disk or the bucket holds under each key
    req,        \* where each request awaits, and its key
    known,      \* history: keys an upload has answered with
    condemned,  \* history: keys somebody has asked to delete
    removed     \* history: keys whose deletion has been answered

vars == <<provider, objects, req, known, condemned, removed>>

Awaits == {"idle", "upload.create", "upload.fill", "upload.put",
           "upload.answer", "stream.open", "stream.get",
           "delete.rm", "delete.answer"}
NoRequest == [pc |-> "idle", key |-> NoKey]

Init ==
    /\ provider \in {"local", "cloud"}
    /\ objects = [k \in Key |-> "absent"]
    /\ req = [r \in Requests |-> NoRequest]
    /\ known = {} /\ condemned = {} /\ removed = {}

TypeOK ==
    /\ provider \in {"local", "cloud"}
    /\ objects \in [Key -> {"absent", "partial", "whole"}]
    /\ req \in [Requests -> [pc: Awaits, key: Key \cup {NoKey}]]
    /\ known \subseteq Key /\ condemned \subseteq Key /\ removed \subseteq Key

At(r, await) == req[r].pc = await
Await(r, await, k) == req' = [req EXCEPT ![r] = [pc |-> await, key |-> k]]
Respond(r) == req' = [req EXCEPT ![r] = NoRequest]
Put(k, content) == objects' = [objects EXCEPT ![k] = content]
----------------------------------------------------------------------------
(* POST /storage/upload *)

\* fileFilter and assertValidFile, then assertSafeFolder of either provider;
\* nothing asks for the extension.
Accepted(file, folder) ==
    /\ file.mimetype \in AllowedMimeTypes
    /\ file.size > 0 /\ file.size <= MaxFileSize
    /\ folder \in SafeFolders

\* A UUID is drawn once: no upload before has used it.
Drawn(id) == \/ \E k \in known : k.id = id
             \/ \E r \in Requests : req[r].key.id = id
             \/ \E k \in Key : k.id = id /\ objects[k] # "absent"

\* Mutation: the name of the file is kept, so uploads may collide.
UploadNamed(r) == \E file \in File, folder \in Folders, id \in Ids :
    /\ At(r, "idle")
    /\ Accepted(file, folder)
    /\ Await(r, IF provider = "local" THEN "upload.create" ELSE "upload.put",
             [folder |-> folder, id |-> id, extension |-> file.extension])
    /\ UNCHANGED <<provider, objects, known, condemned, removed>>

\* Up to the first await that writes: mkdir is done, the name is chosen.
Upload(r) == \E file \in File, folder \in Folders, id \in Ids :
    /\ At(r, "idle")
    /\ Accepted(file, folder)
    /\ ~Drawn(id)
    /\ Await(r, IF provider = "local" THEN "upload.create" ELSE "upload.put",
             [folder |-> folder, id |-> id, extension |-> file.extension])
    /\ UNCHANGED <<provider, objects, known, condemned, removed>>

\* fs.writeFile opens the file, then writes into it.
CreateFile(r) ==
    /\ At(r, "upload.create")
    /\ Put(req[r].key, "partial")
    /\ Await(r, "upload.fill", req[r].key)
    /\ UNCHANGED <<provider, known, condemned, removed>>

FillFile(r) ==
    /\ At(r, "upload.fill")
    /\ Put(req[r].key, "whole")
    /\ Await(r, "upload.answer", req[r].key)
    /\ UNCHANGED <<provider, known, condemned, removed>>

PutObject(r) ==
    /\ At(r, "upload.put")
    /\ Put(req[r].key, "whole")
    /\ Await(r, "upload.answer", req[r].key)
    /\ UNCHANGED <<provider, known, condemned, removed>>

\* Mutation: the write is not awaited.
AnswerUploadEarly(r) ==
    /\ req[r].pc \in {"upload.create", "upload.fill", "upload.put", "upload.answer"}
    /\ known' = known \cup {req[r].key}
    /\ IF At(r, "upload.answer") THEN Respond(r) ELSE UNCHANGED req
    /\ UNCHANGED <<provider, objects, condemned, removed>>

\* Mutation: the name is answered without its folder.
AnswerUploadBare(r) ==
    /\ At(r, "upload.answer")
    /\ known' = known \cup {[req[r].key EXCEPT !.folder = None]}
    /\ Respond(r)
    /\ UNCHANGED <<provider, objects, condemned, removed>>

\* The client learns the key only now.
AnswerUpload(r) ==
    /\ At(r, "upload.answer")
    /\ known' = known \cup {req[r].key}
    /\ Respond(r)
    /\ UNCHANGED <<provider, objects, condemned, removed>>
----------------------------------------------------------------------------
(* GET /storage/stream/:folder/:filename *)

\* resolveSafePath and assertSafeKey: both patterns, one segment each.
SafeKey(k) == k.folder \in SafeFolders /\ k.extension \in SafeExtensions

\* Nobody guesses a UUID: what is asked for has been answered before.  On disk
\* access() refuses an absent file (404) before the stream is opened.
Stream(r) == \E k \in known :
    /\ At(r, "idle")
    /\ SafeKey(k)
    /\ \/ provider = "local" /\ objects[k] # "absent" /\ Await(r, "stream.open", k)
       \/ provider = "cloud" /\ Await(r, "stream.get", k)
    /\ UNCHANGED <<provider, objects, known, condemned, removed>>

\* 200 with the body, or 500 (disk) or 404 (cloud) if it has gone meanwhile.
AnswerStream(r) ==
    /\ req[r].pc \in {"stream.open", "stream.get"}
    /\ Respond(r)
    /\ UNCHANGED <<provider, objects, known, condemned, removed>>
----------------------------------------------------------------------------
(* DELETE /storage/:folder/:filename *)

Delete(r) == \E k \in known :
    /\ At(r, "idle")
    /\ SafeKey(k)
    /\ condemned' = condemned \cup {k}
    /\ Await(r, "delete.rm", k)
    /\ UNCHANGED <<provider, objects, known, removed>>

\* Mutation: the file is emptied and stays.
TruncateObject(r) ==
    /\ At(r, "delete.rm")
    /\ Put(req[r].key, "partial")
    /\ Await(r, "delete.answer", req[r].key)
    /\ UNCHANGED <<provider, known, condemned, removed>>

\* Deleting what is already gone is no error, with either provider.
RemoveObject(r) ==
    /\ At(r, "delete.rm")
    /\ Put(req[r].key, "absent")
    /\ Await(r, "delete.answer", req[r].key)
    /\ UNCHANGED <<provider, known, condemned, removed>>

AnswerDelete(r) ==
    /\ At(r, "delete.answer")
    /\ removed' = removed \cup {req[r].key}
    /\ Respond(r)
    /\ UNCHANGED <<provider, objects, known, condemned>>
----------------------------------------------------------------------------
\* The replica dies, the disk is full, the object store answers an error.
Abort(r) ==
    /\ ~At(r, "idle")
    /\ Respond(r)
    /\ UNCHANGED <<provider, objects, known, condemned, removed>>

Next == \E r \in Requests :
    \/ Upload(r) \/ CreateFile(r) \/ FillFile(r) \/ PutObject(r) \/ AnswerUpload(r)
    \/ Stream(r) \/ AnswerStream(r)
    \/ Delete(r) \/ RemoveObject(r) \/ AnswerDelete(r)
    \/ Abort(r)

Spec == Init /\ [][Next]_vars
----------------------------------------------------------------------------
(* Properties *)

\* A key a client was given is whole until somebody asks to delete it: no
\* upload answers before its bytes are written, overwrites another's object,
\* or is undone by a delete of another key, whichever requests die.
KnownObjectsWhole == \A k \in known \ condemned : objects[k] = "whole"

\* What a stream is opened on is the whole file or gone, never a file that an
\* upload is still writing or has left behind half written.
StreamsWhole == \A r \in Requests :
    req[r].pc \in {"stream.open", "stream.get"} => objects[req[r].key] # "partial"

\* A deletion that was answered is final: no late write, retried delete or
\* later upload brings the object back.
RemovedStayRemoved == \A k \in removed : objects[k] = "absent"
====
