------------------------------ MODULE FileStore ------------------------------
(***************************************************************************)
(* MemoryFileStore (pkg/server/files.go) and its routes (file_routes.go):  *)
(* a ticket is prepared, its bytes are uploaded within the ticket's life,  *)
(* and the file is served until it expires.                                *)
(*                                                                         *)
(* Each method of the store reads the clock of its caller and holds the    *)
(* store's lock, except Content, which takes it twice.  Digests are the    *)
(* contents themselves.  The fields of a FileRef that Validate compares    *)
(* (URI, name, media type, size and digest) are one: its digest.           *)
(***************************************************************************)
EXTENDS Integers

CONSTANTS
  Files,        \* prepare-upload requests; each names the file it makes
  Puts,         \* PUT .../content requests
  Downloads,    \* GET .../content requests
  Identities,   \* actor and principal
  Contents,     \* bytes, and their digests
  NoContent,    \* storedFile.Content before an upload
  Declared,     \* what each prepare-upload request declares
  PutRequests,  \* what a PUT may send
  Asked,        \* who downloads what
  UploadTTL,
  FileTTL,
  MaxTime       \* last tick of the model's clock (a bound)

ASSUME FileConstants ==
  /\ NoContent \notin Contents
  /\ UploadTTL \in Nat /\ FileTTL \in Nat \ {0} /\ MaxTime \in Nat
  /\ Declared \in [Files -> [owner : Identities, digest : Contents, expiresAt : Nat]]
  /\ PutRequests \subseteq [file : Files, who : Identities, header : Contents,
                            token : BOOLEAN, body : Contents]
  /\ Asked \in [Downloads -> [file : Files, who : Identities]]

VARIABLES
  now,
  files,        \* MemoryFileStore.files
  put,          \* what each PUT sent, and the next call of its handler
  download      \* the same of each GET, and what it was served

fileVars == <<files, put, download>>

FileStates == {"absent", "pending_upload", "ready"}

File == [state : FileStates, owner : Identities, digest : Contents,
         content : Contents \cup {NoContent}, createdAt : Nat, expiresAt : Nat]

Unprepared(f) ==
  [state |-> "absent", owner |-> Declared[f].owner, digest |-> Declared[f].digest,
   content |-> NoContent, createdAt |-> 0, expiresAt |-> 0]

FileInit ==
  /\ now = 0
  /\ files = [f \in Files |-> Unprepared(f)]
  /\ \E sent \in [Puts -> PutRequests] :
       put = [u \in Puts |-> [at |-> "get", sent |-> sent[u]]]
  /\ download = [d \in Downloads |-> [at |-> "get", content |-> NoContent]]

-----------------------------------------------------------------------------
(* MemoryFileStore                                                         *)

(* The requested expiry, when there is one, may only shorten the life.     *)
ExpiryOf(f) ==
  IF Declared[f].expiresAt \in 1 .. now + FileTTL - 1
  THEN Declared[f].expiresAt
  ELSE now + FileTTL

Pending(file, expiresAt) ==
  [file EXCEPT !.state = "pending_upload", !.createdAt = now, !.expiresAt = expiresAt]

Prepare(f) ==
  /\ files[f].state = "absent"
  /\ Declared[f].expiresAt = 0 \/ Declared[f].expiresAt > now
  /\ files' = [files EXCEPT ![f] = Pending(files[f], ExpiryOf(f))]

(* Get succeeds.                                                           *)
Visible(who, f) ==
  /\ files[f].state # "absent"
  /\ files[f].owner = who
  /\ files[f].expiresAt > now

UploadAllowed(r) ==
  /\ files[r.file].owner = r.who
  /\ now <= files[r.file].createdAt + UploadTTL
  /\ r.token
  /\ r.body = files[r.file].digest

Ready(file, body) == [file EXCEPT !.state = "ready", !.content = body]

(* Mutant: the bytes are stored before their digest is compared.           *)
StoreAnyBytes(r) ==
  /\ now <= files[r.file].createdAt + UploadTTL
  /\ files' = [files EXCEPT ![r.file] = Ready(files[r.file], r.body)]

(* A repeated upload is answered and changes nothing.  Neither the first   *)
(* nor a repeated one looks at the expiry of the file.                     *)
Upload(r) ==
  /\ UploadAllowed(r)
  /\ IF files[r.file].state = "ready"
     THEN UNCHANGED files
     ELSE files' = [files EXCEPT ![r.file] = Ready(files[r.file], r.body)]

Usable(who, f) == Visible(who, f) /\ files[f].state = "ready"

-----------------------------------------------------------------------------
(* The routes                                                              *)

PrepareUpload(f) == Prepare(f) /\ UNCHANGED <<now, put, download>>

PutGoto(u, from, to) ==
  /\ put[u].at = from
  /\ put' = [put EXCEPT ![u].at = to]

(* handleUploadContent finds the file and its declared digest, reads the   *)
(* body for as long as the client takes, and uploads it.                   *)
PutFinds(u) ==
  LET r == put[u].sent IN
    /\ PutGoto(u, "get", "upload")
    /\ Visible(r.who, r.file)
    /\ r.header = files[r.file].digest
    /\ UNCHANGED <<now, files, download>>

PutUploads(u) ==
  /\ PutGoto(u, "upload", "done")
  /\ Upload(put[u].sent)
  /\ UNCHANGED <<now, download>>

PutRefused(u) ==
  LET r == put[u].sent IN
    /\ \/ PutGoto(u, "get", "refused")
          /\ ~(Visible(r.who, r.file) /\ r.header = files[r.file].digest)
       \/ PutGoto(u, "upload", "refused") /\ ~UploadAllowed(r)
    /\ UNCHANGED <<now, files, download>>

DownloadGoto(d, from, to) ==
  /\ download[d].at = from
  /\ download' = [download EXCEPT ![d].at = to]

(* Content: the reference under the lock, the bytes under the next one.    *)
FindContent(d) ==
  /\ Usable(Asked[d].who, Asked[d].file)
  /\ DownloadGoto(d, "get", "read")
  /\ UNCHANGED <<now, files, put>>

ReadContent(d) ==
  /\ download[d].at = "read"
  /\ download' = [download EXCEPT ![d] = [at |-> "served", content |-> files[Asked[d].file].content]]
  /\ UNCHANGED <<now, files, put>>

DownloadRefused(d) ==
  /\ ~Usable(Asked[d].who, Asked[d].file)
  /\ DownloadGoto(d, "get", "refused")
  /\ UNCHANGED <<now, files, put>>

FileTick ==
  /\ now < MaxTime
  /\ now' = now + 1
  /\ UNCHANGED fileVars

FileSteps ==
  \/ \E f \in Files : PrepareUpload(f)
  \/ \E u \in Puts : PutFinds(u) \/ PutUploads(u) \/ PutRefused(u)
  \/ \E d \in Downloads : FindContent(d) \/ ReadContent(d) \/ DownloadRefused(d)

FileSpec == FileInit /\ [][FileSteps \/ FileTick]_<<now, fileVars>>

-----------------------------------------------------------------------------

FileTypeOK ==
  /\ now \in 0 .. MaxTime
  /\ files \in [Files -> File]
  /\ put \in [Puts -> [at : {"get", "upload", "done", "refused"}, sent : PutRequests]]
  /\ download \in [Downloads -> [at : {"get", "read", "served", "refused"},
                                 content : Contents \cup {NoContent}]]

(* The bytes of a ready file never change, and what was declared of a file *)
(* never does, however uploads repeat, race and come late.                 *)
ReadyIsFinal ==
  [][\A f \in Files :
       /\ files[f].state = "ready" => files'[f] = files[f]
       /\ files[f].state # "absent" => /\ files'[f].digest = files[f].digest
                                       /\ files'[f].owner = files[f].owner
                                       /\ files'[f].expiresAt = files[f].expiresAt]_files

(* A download serves its owner the bytes that were declared, although it   *)
(* finds the reference and the bytes under two locks.                      *)
DownloadIsDeclared ==
  \A d \in Downloads :
    download[d].at = "served" =>
      /\ download[d].content = Declared[Asked[d].file].digest
      /\ Declared[Asked[d].file].owner = Asked[d].who

=============================================================================
