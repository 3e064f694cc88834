----------------------------- MODULE QuotesProofs -----------------------------
(***************************************************************************)
(* Proofs about the file store and the quotes made over it, for any files, *)
(* uploads, downloads, negotiations, prepares and commits, any lives and   *)
(* any contracts the service may return, and about the decimal amounts the *)
(* quotes are made of.                                                     *)
(***************************************************************************)
EXTENDS Quotes, WellFoundedInduction, TLAPS

-----------------------------------------------------------------------------
(* The file store                                                          *)

(* A file keeps what was declared of it, and a ready one has those bytes.  *)
FilesAreAsDeclared ==
  \A f \in Files :
    /\ files[f].owner = Declared[f].owner
    /\ files[f].digest = Declared[f].digest
    /\ files[f].state = "ready" => files[f].content = Declared[f].digest

(* An upload that has found its file, and a download that has, still has   *)
(* it, whatever happens between its two calls.                             *)
FoundStaysFound ==
  /\ \A u \in Puts : put[u].at = "upload" => files[put[u].sent.file].state # "absent"
  /\ \A d \in Downloads :
       download[d].at = "read" =>
         /\ files[Asked[d].file].state = "ready"
         /\ Declared[Asked[d].file].owner = Asked[d].who

FileInv == FileTypeOK /\ FilesAreAsDeclared /\ FoundStaysFound /\ DownloadIsDeclared

FileStep == [FileSteps \/ FileTick]_<<now, fileVars>>

(* The store is empty at first.                                            *)
LEMMA FileInitially ==
  ASSUME FileInit
  PROVE  FileInv
<1> USE FileConstants DEF FileInit
<1>1. FileTypeOK
  BY DEF FileTypeOK, File, FileStates, Unprepared
<1>2. FilesAreAsDeclared
  BY DEF FilesAreAsDeclared, Unprepared
<1>3. FoundStaysFound /\ DownloadIsDeclared
  <2>1. PICK sent \in [Puts -> PutRequests] :
          put = [u \in Puts |-> [at |-> "get", sent |-> sent[u]]]
    OBVIOUS
  <2>2. \A u \in Puts : put[u].at = "get"
    BY <2>1
  <2>3. \A d \in Downloads : download[d].at = "get"
    OBVIOUS
  <2>4. QED
    BY <2>2, <2>3 DEF FoundStaysFound, DownloadIsDeclared
<1>4. QED
  BY <1>1, <1>2, <1>3 DEF FileInv

(* The life of a new file is a time.                                       *)
LEMMA ExpiryIsATime ==
  ASSUME FileTypeOK, NEW f \in Files
  PROVE  ExpiryOf(f) \in Nat
BY FileConstants DEF FileTypeOK, ExpiryOf

(* What an upload sends is of a file, and its bytes are contents.          *)
LEMMA PutTypes ==
  ASSUME FileTypeOK, NEW u \in Puts
  PROVE  /\ put[u] = [at |-> put[u].at, sent |-> put[u].sent]
         /\ put[u].sent \in PutRequests
         /\ put[u].sent.file \in Files
         /\ put[u].sent.body \in Contents
<1>1. put[u] \in [at : {"get", "upload", "done", "refused"}, sent : PutRequests]
  BY DEF FileTypeOK
<1>2. put[u] = [at |-> put[u].at, sent |-> put[u].sent] /\ put[u].sent \in PutRequests
  BY <1>1
<1>3. put[u].sent \in [file : Files, who : Identities, header : Contents,
                       token : BOOLEAN, body : Contents]
  BY <1>2, FileConstants
<1>4. QED
  BY <1>2, <1>3

(* The file a preparation or an upload leaves.                              *)
LEMMA NewFile ==
  ASSUME NEW file \in File, NEW e \in Nat, NEW body \in Contents, now \in Nat
  PROVE  /\ Pending(file, e) \in File
         /\ Pending(file, e).state = "pending_upload"
         /\ Pending(file, e).owner = file.owner
         /\ Pending(file, e).digest = file.digest
         /\ Ready(file, body) \in File
         /\ Ready(file, body).state = "ready"
         /\ Ready(file, body).owner = file.owner
         /\ Ready(file, body).digest = file.digest
         /\ Ready(file, body).expiresAt = file.expiresAt
         /\ Ready(file, body).content = body
BY DEF Pending, Ready, File, FileStates

(* An upload makes its file ready with the declared bytes, or changes nothing. *)
LEMMA UploadChanges ==
  ASSUME FileTypeOK, NEW u \in Puts, Upload(put[u].sent)
  PROVE  \/ UNCHANGED files
         \/ \E f \in Files, new \in File :
              /\ files' = [files EXCEPT ![f] = new]
              /\ files[f].state # "ready" /\ new.state = "ready"
              /\ new.owner = files[f].owner /\ new.expiresAt = files[f].expiresAt
              /\ new.digest = files[f].digest /\ new.content = files[f].digest
<1> DEFINE r == put[u].sent
           f == r.file
           new == Ready(files[f], r.body)
<1>1. f \in Files /\ r.body \in Contents /\ files[f] \in File /\ now \in Nat
  BY PutTypes DEF FileTypeOK
<1>2. r.body = files[f].digest
  BY DEF Upload, UploadAllowed
<1>3. CASE files[f].state = "ready"
  BY <1>3 DEF Upload
<1>4. CASE files[f].state # "ready"
  <2>1. files' = [files EXCEPT ![f] = new]
    BY <1>4 DEF Upload
  <2>2. /\ new \in File /\ new.state = "ready" /\ new.owner = files[f].owner
        /\ new.expiresAt = files[f].expiresAt /\ new.digest = files[f].digest
        /\ new.content = r.body
    BY <1>1, NewFile, 0 \in Nat
  <2> HIDE DEF new, r, f
  <2>3. QED
    BY <1>1, <1>2, <1>4, <2>1, <2>2 DEF r, f
<1>5. QED
  BY <1>3, <1>4

(* A preparation makes a new file.                                         *)
LEMMA PrepareChanges ==
  ASSUME FileTypeOK, NEW f \in Files, Prepare(f)
  PROVE  \E new \in File :
           /\ files' = [files EXCEPT ![f] = new]
           /\ files[f].state = "absent" /\ new.state = "pending_upload"
           /\ new.owner = files[f].owner /\ new.digest = files[f].digest
<1> DEFINE new == Pending(files[f], ExpiryOf(f))
<1>1. files[f] \in File /\ ExpiryOf(f) \in Nat /\ now \in Nat
  BY ExpiryIsATime DEF FileTypeOK
<1>2. files' = [files EXCEPT ![f] = new] /\ files[f].state = "absent"
  BY DEF Prepare
<1>3. Declared[f].digest \in Contents
  BY FileConstants
<1>4. new \in File /\ new.state = "pending_upload" /\ new.owner = files[f].owner
      /\ new.digest = files[f].digest
  BY <1>1, <1>3, NewFile
<1> HIDE DEF new
<1>5. QED
  BY <1>2, <1>4

(* Types are preserved.                                                    *)
LEMMA FileTypeStep ==
  ASSUME FileTypeOK, FileStep
  PROVE  FileTypeOK'
<1> USE FileConstants DEF FileTypeOK, File, FileStates
<1>1. ASSUME NEW f \in Files, PrepareUpload(f) PROVE FileTypeOK'
  <2>1. files' \in [Files -> File]
    BY <1>1, PrepareChanges DEF PrepareUpload
  <2>2. QED
    BY <1>1, <2>1 DEF PrepareUpload
<1>2. ASSUME NEW u \in Puts, PutFinds(u) PROVE FileTypeOK'
  BY <1>2 DEF PutFinds, PutGoto
<1>3. ASSUME NEW u \in Puts, PutUploads(u) PROVE FileTypeOK'
  <2>1. files' \in [Files -> File]
    BY <1>3, UploadChanges DEF PutUploads
  <2>2. put' = [put EXCEPT ![u].at = "done"] /\ UNCHANGED <<now, download>>
    BY <1>3 DEF PutUploads, PutGoto
  <2>3. QED
    BY <2>1, <2>2, PutTypes
<1>4. ASSUME NEW u \in Puts, PutRefused(u) PROVE FileTypeOK'
  <2>1. put' = [put EXCEPT ![u].at = "refused"] /\ UNCHANGED <<now, files, download>>
    BY <1>4 DEF PutRefused, PutGoto
  <2>2. QED
    BY <2>1, PutTypes
<1>5. ASSUME NEW d \in Downloads, FindContent(d) PROVE FileTypeOK'
  BY <1>5 DEF FindContent, DownloadGoto
<1>6. ASSUME NEW d \in Downloads, ReadContent(d) PROVE FileTypeOK'
  BY <1>6 DEF ReadContent
<1>7. ASSUME NEW d \in Downloads, DownloadRefused(d) PROVE FileTypeOK'
  BY <1>7 DEF DownloadRefused, DownloadGoto
<1>8. CASE FileTick
  BY <1>8 DEF FileTick, fileVars
<1>9. CASE UNCHANGED <<now, fileVars>>
  BY <1>9 DEF fileVars
<1>10. QED
  BY <1>1, <1>2, <1>3, <1>4, <1>5, <1>6, <1>7, <1>8, <1>9 DEF FileStep, FileSteps

(* What a single step may do to the files.                                 *)
FilesAdvance ==
  \A f \in Files :
    /\ files'[f].owner = files[f].owner
    /\ files'[f].digest = files[f].digest
    /\ files[f].state = "ready" => files'[f] = files[f]
    /\ files[f].state # "absent" => /\ files'[f].state # "absent"
                                    /\ files'[f].expiresAt = files[f].expiresAt

(* Files are only prepared once, and only become ready.                    *)
LEMMA FilesAdvanceStep ==
  ASSUME FileTypeOK, FileStep
  PROVE  FilesAdvance
<1> USE FileConstants DEF FileTypeOK, File, FileStates, FilesAdvance
<1>1. ASSUME NEW f \in Files, PrepareUpload(f) PROVE FilesAdvance
  BY <1>1, PrepareChanges DEF PrepareUpload
<1>2. ASSUME NEW u \in Puts, PutUploads(u) PROVE FilesAdvance
  BY <1>2, UploadChanges DEF PutUploads
<1>3. CASE UNCHANGED files
  BY <1>3
<1>4. QED
  BY <1>1, <1>2, <1>3 DEF FileStep, FileSteps, FileTick, fileVars, PutFinds,
     PutRefused, FindContent, ReadContent, DownloadRefused

(* A file that becomes ready has the bytes that were declared.             *)
LEMMA DeclaredStep ==
  ASSUME FileInv, FileStep
  PROVE  FilesAreAsDeclared'
<1> USE FileConstants DEF FileInv, FileTypeOK, File, FileStates, FilesAreAsDeclared
<1>1. ASSUME NEW f \in Files, PrepareUpload(f) PROVE FilesAreAsDeclared'
  <2>1. PICK new \in File : /\ files' = [files EXCEPT ![f] = new]
                            /\ new.state = "pending_upload" /\ files[f].state = "absent"
                            /\ new.owner = files[f].owner /\ new.digest = files[f].digest
    BY <1>1, PrepareChanges DEF PrepareUpload
  <2>2. ASSUME NEW g \in Files PROVE files'[g] = IF g = f THEN new ELSE files[g]
    BY <2>1
  <2>3. QED
    BY <2>1, <2>2
<1>2. ASSUME NEW u \in Puts, PutUploads(u) PROVE FilesAreAsDeclared'
  BY <1>2, UploadChanges DEF PutUploads
<1>3. CASE UNCHANGED files
  BY <1>3
<1>4. QED
  BY <1>1, <1>2, <1>3 DEF FileStep, FileSteps, FileTick, fileVars, PutFinds,
     PutRefused, FindContent, ReadContent, DownloadRefused

(* The second call of an upload or a download meets the file of the first. *)
LEMMA FoundStep ==
  ASSUME FileInv, FileStep
  PROVE  FoundStaysFound' /\ DownloadIsDeclared'
<1> DEFINE G == FoundStaysFound' /\ DownloadIsDeclared'
<1>0. FilesAdvance
  BY FilesAdvanceStep DEF FileInv
<1> USE <1>0, FileConstants DEF FileInv, FileTypeOK, File, FileStates, FilesAdvance,
    FilesAreAsDeclared, FoundStaysFound, DownloadIsDeclared
<1>1. ASSUME NEW f \in Files, PrepareUpload(f) PROVE G
  BY <1>1 DEF PrepareUpload
<1>2. ASSUME NEW u \in Puts, PutFinds(u) PROVE G
  BY <1>2 DEF PutFinds, PutGoto, Visible
<1>3. ASSUME NEW u \in Puts, PutUploads(u) PROVE G
  BY <1>3 DEF PutUploads, PutGoto
<1>4. ASSUME NEW u \in Puts, PutRefused(u) PROVE G
  <2>1. put' = [put EXCEPT ![u].at = "refused"] /\ UNCHANGED <<files, download>>
    BY <1>4 DEF PutRefused, PutGoto
  <2>2. QED
    BY <2>1, PutTypes
<1>5. ASSUME NEW d \in Downloads, FindContent(d) PROVE G
  BY <1>5 DEF FindContent, DownloadGoto, Usable, Visible
<1>6. ASSUME NEW d \in Downloads, ReadContent(d) PROVE G
  BY <1>6 DEF ReadContent
<1>7. ASSUME NEW d \in Downloads, DownloadRefused(d) PROVE G
  BY <1>7 DEF DownloadRefused, DownloadGoto
<1>8. CASE FileTick
  BY <1>8 DEF FileTick, fileVars
<1>9. CASE UNCHANGED <<now, fileVars>>
  BY <1>9 DEF fileVars
<1>10. QED
  BY <1>1, <1>2, <1>3, <1>4, <1>5, <1>6, <1>7, <1>8, <1>9 DEF FileStep, FileSteps

(* FileInv is inductive over the steps of the store and its routes.        *)
LEMMA FileInvStep ==
  ASSUME FileInv, FileStep
  PROVE  FileInv'
BY FileTypeStep, DeclaredStep, FoundStep DEF FileInv

-----------------------------------------------------------------------------
(* Decimal amounts                                                         *)

(* Induction over the numbers of a set.                                    *)
LEMMA SetInduction ==
  ASSUME NEW S, 0 \in S, \A n \in Nat : n \in S => n + 1 \in S
  PROVE  Nat \subseteq S
<1> SUFFICES ASSUME Nat \ S # {} PROVE FALSE
  OBVIOUS
<1> DEFINE R == {ss \in Nat \X Nat : ss[1] < ss[2]}
<1>1. IsWellFoundedOn(R, Nat)
  BY NatLessThanWellFounded DEF OpToRel
<1> HIDE DEF R
<1>2. PICK x \in Nat \ S : \A y \in Nat \ S : ~ (<<y, x>> \in R)
  BY <1>1, WFMin
<1>3. x - 1 \in Nat \ S
  BY <1>2
<1>4. <<x - 1, x>> \in R
  BY <1>3 DEF R
<1>5. QED
  BY <1>2, <1>3, <1>4

(* What a definition by a first value and a step says of a function.       *)
DefinedBy(f, m, first, step) ==
  f = [i \in 0 .. m |-> IF i = 0 THEN first ELSE step[i][f[i - 1]]]

(* There is such a function.                                               *)
LEMMA RecursiveFunction ==
  ASSUME NEW D, NEW first \in D, NEW m \in Nat, NEW step \in [1 .. m -> [D -> D]]
  PROVE  \E f \in [0 .. m -> D] : DefinedBy(f, m, first, step)
<1> DEFINE Upto(k, f) == \A i \in 0 .. k : f[i] = IF i = 0 THEN first ELSE step[i][f[i - 1]]
           S == {k \in Nat : k <= m => \E f \in [0 .. k -> D] : Upto(k, f)}
<1>1. 0 \in S
  <2>1. [i \in 0 .. 0 |-> first] \in [0 .. 0 -> D] /\ Upto(0, [i \in 0 .. 0 |-> first])
    OBVIOUS
  <2>2. QED
    BY <2>1
<1>2. ASSUME NEW k \in Nat, k \in S
      PROVE  k + 1 \in S
  <2> SUFFICES ASSUME k + 1 <= m
               PROVE  \E f \in [0 .. k + 1 -> D] : Upto(k + 1, f)
    OBVIOUS
  <2>1. PICK f \in [0 .. k -> D] : Upto(k, f)
    BY <1>2
  <2> DEFINE g == [i \in 0 .. k + 1 |-> IF i <= k THEN f[i] ELSE step[k + 1][f[k]]]
  <2>2. f[k] \in D /\ step[k + 1] \in [D -> D]
    OBVIOUS
  <2>3. g \in [0 .. k + 1 -> D]
    BY <2>2
  <2>4. ASSUME NEW i \in 0 .. k + 1
        PROVE  g[i] = IF i = 0 THEN first ELSE step[i][g[i - 1]]
    <3>1. CASE i = 0
      BY <2>1, <3>1
    <3>2. CASE i # 0 /\ i <= k
      <4>1. i \in 0 .. k /\ i - 1 \in 0 .. k + 1 /\ i - 1 <= k
        BY <3>2
      <4>2. f[i] = step[i][f[i - 1]]
        BY <2>1, <3>2, <4>1
      <4>3. g[i] = f[i] /\ g[i - 1] = f[i - 1]
        BY <3>2, <4>1
      <4>4. QED
        BY <3>2, <4>2, <4>3
    <3>3. CASE i = k + 1
      <4>1. g[i] = step[k + 1][f[k]] /\ g[i - 1] = f[k]
        BY <3>3
      <4>2. QED
        BY <3>3, <4>1
    <3>4. QED
      BY <3>1, <3>2, <3>3
  <2>5. QED
    BY <2>3, <2>4
<1>3. m \in S
  <2> HIDE DEF S
  <2>1. Nat \subseteq S
    BY <1>1, <1>2, SetInduction
  <2>2. QED
    BY <2>1
<1>4. PICK f \in [0 .. m -> D] : Upto(m, f)
  BY <1>3
<1>5. DefinedBy(f, m, first, step)
  BY <1>4 DEF DefinedBy
<1>6. QED
  BY <1>5

(* The powers of ten.                                                      *)
LEMMA TenToIs ==
  /\ TenTo \in [Scales -> Nat \ {0}]
  /\ TenTo[0] = 1
  /\ \A n \in 1 .. 18 : TenTo[n] = 10 * TenTo[n - 1]
<1> DEFINE D == Nat
           first == 1
           m == 18
           step == [i \in 1 .. m |-> [x \in D |-> 10 * x]]
<1>1. step \in [1 .. m -> [D -> D]] /\ first \in D /\ m \in Nat
  OBVIOUS
<1>2. \E f \in [0 .. m -> D] : DefinedBy(f, m, first, step)
  <2> HIDE DEF D, first, m, step
  <2>1. QED
    BY <1>1, RecursiveFunction
<1> HIDE DEF step
<1>3. PICK f \in [0 .. 18 -> Nat] :
        f = [i \in 0 .. 18 |-> IF i = 0 THEN 1 ELSE step[i][f[i - 1]]]
  BY <1>2 DEF DefinedBy
<1>4. \A n \in 1 .. 18 : step[n][f[n - 1]] = 10 * f[n - 1]
  BY DEF step
<1>5. f = [n \in Scales |-> IF n = 0 THEN 1 ELSE 10 * f[n - 1]]
  BY <1>3, <1>4 DEF Scales
<1>6. TenTo = [n \in Scales |-> IF n = 0 THEN 1 ELSE 10 * TenTo[n - 1]]
  BY <1>5 DEF TenTo
<1>7. DOMAIN TenTo = Scales /\ TenTo[0] = 1 /\ \A n \in 1 .. 18 : TenTo[n] = 10 * TenTo[n - 1]
  BY <1>6 DEF Scales
<1> DEFINE S == {n \in Nat : n \in Scales => TenTo[n] \in Nat \ {0}}
<1>8. 0 \in S
  BY <1>7
<1>9. ASSUME NEW n \in Nat, n \in S
      PROVE  n + 1 \in S
  <2>1. CASE n + 1 \in Scales
    <3>1. n \in Scales /\ n + 1 \in 1 .. 18 /\ (n + 1) - 1 = n
      BY <2>1 DEF Scales
    <3>2. TenTo[n] \in Nat \ {0} /\ TenTo[n + 1] = 10 * TenTo[n]
      BY <1>7, <1>9, <3>1
    <3>3. QED
      BY <3>2
  <2>2. CASE n + 1 \notin Scales
    BY <2>2
  <2>3. QED
    BY <2>1, <2>2
<1>10. \A n \in Scales : TenTo[n] \in Nat \ {0}
  <2>1. Nat \subseteq S
    <3> HIDE DEF S
    <3>1. QED
      BY <1>8, <1>9, SetInduction
  <2>2. QED
    BY <2>1 DEF Scales
<1>11. TenTo \in [Scales -> Nat \ {0}]
  <2>1. TenTo = [n \in Scales |-> TenTo[n]]
    BY <1>6
  <2>2. QED
    BY <1>10, <2>1
<1>12. QED
  BY <1>7, <1>11

(* Moving the point by a places and then by b moves it by a + b.           *)
LEMMA TenToAdds ==
  \A a, b \in Scales : a + b \in Scales => TenTo[a + b] = TenTo[a] * TenTo[b]
<1> DEFINE S == {a \in Nat : \A b \in Nat : a + b \in Scales => TenTo[a + b] = TenTo[a] * TenTo[b]}
<1>1. \A n \in Scales : TenTo[n] \in Nat
  BY TenToIs
<1>2. 0 \in S
  <2> SUFFICES ASSUME NEW b \in Nat, 0 + b \in Scales
               PROVE  TenTo[0 + b] = TenTo[0] * TenTo[b]
    OBVIOUS
  <2>1. 0 + b = b
    OBVIOUS
  <2>2. TenTo[b] \in Nat /\ TenTo[0] = 1
    BY <1>1, <2>1, TenToIs
  <2>3. QED
    BY <2>1, <2>2
<1>3. ASSUME NEW a \in Nat, a \in S
      PROVE  a + 1 \in S
  <2> SUFFICES ASSUME NEW b \in Nat, a + 1 + b \in Scales
               PROVE  TenTo[a + 1 + b] = TenTo[a + 1] * TenTo[b]
    OBVIOUS
  <2>1. /\ a \in Scales /\ b \in Scales /\ a + b \in Scales
        /\ a + 1 + b \in 1 .. 18 /\ a + 1 \in 1 .. 18
        /\ (a + 1 + b) - 1 = a + b /\ (a + 1) - 1 = a
    BY DEF Scales
  <2>2. TenTo[a] \in Nat /\ TenTo[b] \in Nat
    BY <1>1, <2>1
  <2>3. TenTo[a + 1 + b] = 10 * TenTo[a + b] /\ TenTo[a + 1] = 10 * TenTo[a]
    BY <2>1, TenToIs
  <2>4. TenTo[a + b] = TenTo[a] * TenTo[b]
    BY <1>3, <2>1
  <2>5. \A x, y \in Nat : 10 * (x * y) = (10 * x) * y
    OBVIOUS
  <2>6. QED
    BY <2>2, <2>3, <2>4, <2>5
<1>4. Nat \subseteq S
  <2> HIDE DEF S
  <2>1. QED
    BY <1>2, <1>3, SetInduction
<1>5. ASSUME NEW a \in Scales, NEW b \in Scales, a + b \in Scales
      PROVE  TenTo[a + b] = TenTo[a] * TenTo[b]
  <2>1. a \in Nat /\ b \in Nat
    BY DEF Scales
  <2>2. a \in S
    BY <1>4, <2>1
  <2>3. QED
    BY <1>5, <2>1, <2>2
<1>6. QED
  BY <1>5

(* A set of numbers has a smallest.                                        *)
LEMMA SmallestNumber ==
  ASSUME NEW T, T \subseteq Nat, T # {}
  PROVE  \E x \in T : \A y \in T : x <= y
<1> DEFINE R == {ss \in Nat \X Nat : ss[1] < ss[2]}
<1>1. IsWellFoundedOn(R, Nat)
  BY NatLessThanWellFounded DEF OpToRel
<1> HIDE DEF R
<1>2. PICK x \in T : \A y \in T : ~ (<<y, x>> \in R)
  BY <1>1, WFMin
<1>3. ASSUME NEW y \in T
      PROVE  x <= y
  <2>1. x \in Nat /\ y \in Nat /\ <<y, x>> \notin R
    BY <1>2
  <2>2. QED
    BY <2>1 DEF R
<1>4. QED
  BY <1>3

(* Only zeros are removed.                                                 *)
LEMMA TrimmedIs ==
  ASSUME NEW units \in Nat, NEW scale \in Scales
  PROVE  /\ Trimmed(units, scale) \in 0 .. scale
         /\ units % TenTo[scale - Trimmed(units, scale)] = 0
<1> DEFINE T == {s \in 0 .. scale : units % TenTo[scale - s] = 0}
<1>1. scale \in T
  <2>1. scale \in Nat /\ scale - scale = 0 /\ scale \in 0 .. scale
    BY DEF Scales
  <2>2. units % 1 = 0
    OBVIOUS
  <2>3. QED
    BY <2>1, <2>2, TenToIs
<1>2. T \subseteq Nat
  BY DEF Scales
<1>3. PICK s \in T : \A y \in T : s <= y
  <2> HIDE DEF T
  <2>1. QED
    BY <1>1, <1>2, SmallestNumber
<1>4. \A t \in 0 .. s - 1 : units % TenTo[scale - t] # 0
  <2> SUFFICES ASSUME NEW t \in 0 .. s - 1, units % TenTo[scale - t] = 0
               PROVE  FALSE
    OBVIOUS
  <2>1. s \in Nat /\ scale \in Nat /\ s <= scale
    BY <1>2 DEF Scales
  <2>2. t \in T /\ t < s
    BY <2>1
  <2>3. QED
    BY <1>3, <2>1, <2>2
<1>5. \E z \in 0 .. scale : /\ units % TenTo[scale - z] = 0
                            /\ \A t \in 0 .. z - 1 : units % TenTo[scale - t] # 0
  BY <1>3, <1>4
<1>6. QED
  BY <1>5 DEF Trimmed

(* An amount the properties can compare.                                   *)
Fits(m) == m.units \in Nat /\ m.scale \in Scales /\ m.scale <= Precision

(* Its exact value, from its value at a scale in between.                  *)
LEMMA ExactAtScale ==
  ASSUME NEW m, Fits(m), NEW s \in Scales, m.scale <= s, s <= Precision
  PROVE  /\ AtScale(m, s) \in Nat
         /\ TenTo[Precision - s] \in Nat \ {0}
         /\ Exact(m) = AtScale(m, s) * TenTo[Precision - s]
<1>1. /\ m.units \in Nat /\ m.scale \in Nat /\ s \in Nat /\ Precision \in Nat
      /\ s - m.scale \in Scales /\ Precision - s \in Scales /\ Precision - m.scale \in Scales
      /\ (s - m.scale) + (Precision - s) = Precision - m.scale
  BY QuoteConstants DEF Fits, Scales
<1>2. TenTo[Precision - m.scale] = TenTo[s - m.scale] * TenTo[Precision - s]
  BY <1>1, TenToAdds
<1>3. TenTo[s - m.scale] \in Nat \ {0} /\ TenTo[Precision - s] \in Nat \ {0}
  BY <1>1, TenToIs
<1>4. \A x, y, z \in Nat : x * (y * z) = (x * y) * z
  OBVIOUS
<1>5. \A x, y \in Nat : x * y \in Nat
  OBVIOUS
<1>6. AtScale(m, s) \in Nat
  BY <1>1, <1>3, <1>5 DEF AtScale
<1>7. Exact(m) = AtScale(m, s) * TenTo[Precision - s]
  BY <1>1, <1>2, <1>3, <1>4 DEF Exact, AtScale
<1>8. QED
  BY <1>3, <1>6, <1>7

(* CompareMoney compares the amounts themselves.                           *)
THEOREM CompareIsExact ==
  ASSUME NEW l, NEW r, Fits(l), Fits(r)
  PROVE  /\ AtMost(l, r) => l.currency = r.currency /\ Exact(l) <= Exact(r)
         /\ SameAmount(l, r) => l.currency = r.currency /\ Exact(l) = Exact(r)
<1> DEFINE s == CommonScale(l, r)
           x == AtScale(l, s)
           y == AtScale(r, s)
           k == TenTo[Precision - s]
<1>1. /\ s \in Scales /\ s <= Precision /\ l.scale <= s /\ r.scale <= s
  BY QuoteConstants DEF CommonScale, Fits, Scales
<1>2. /\ x \in Nat /\ y \in Nat /\ k \in Nat
      /\ Exact(l) = x * k /\ Exact(r) = y * k
  BY <1>1, ExactAtScale
<1>3. /\ AtMost(l, r) => l.currency = r.currency /\ x <= y
      /\ SameAmount(l, r) => l.currency = r.currency /\ x = y
  <2>1. CompareMoney(l, r) = IF x - y < 0 THEN -1 ELSE IF x - y = 0 THEN 0 ELSE 1
    BY DEF CompareMoney
  <2> HIDE DEF x, y, s
  <2>2. /\ CompareMoney(l, r) <= 0 => x <= y
        /\ CompareMoney(l, r) = 0 => x = y
    BY <1>2, <2>1
  <2>3. QED
    BY <2>2 DEF AtMost, SameAmount, Comparable
<1> HIDE DEF x, y, k, s
<1>4. \A a, b, c \in Nat : a <= b => a * c <= b * c
  OBVIOUS
<1>5. QED
  BY <1>2, <1>3, <1>4

(* AddMoney adds the amounts themselves.                                   *)
THEOREM AddIsExact ==
  ASSUME NEW l, NEW r, Fits(l), Fits(r)
  PROVE  /\ Fits(AddMoney(l, r))
         /\ AddMoney(l, r).currency = l.currency
         /\ Exact(AddMoney(l, r)) = Exact(l) + Exact(r)
         /\ Exact(l) \in Nat /\ Exact(r) \in Nat
<1> DEFINE s == CommonScale(l, r)
           x == AtScale(l, s)
           y == AtScale(r, s)
           k == TenTo[Precision - s]
           t == Trimmed(x + y, s)
           d == TenTo[s - t]
           q == (x + y) \div d
<1>1. /\ s \in Scales /\ s <= Precision /\ l.scale <= s /\ r.scale <= s
  BY QuoteConstants DEF CommonScale, Fits, Scales
<1>2. /\ x \in Nat /\ y \in Nat /\ k \in Nat
      /\ Exact(l) = x * k /\ Exact(r) = y * k
  BY <1>1, ExactAtScale
<1>3. t \in 0 .. s /\ (x + y) % d = 0
  <2> HIDE DEF x, y, s
  <2>1. x + y \in Nat
    BY <1>2
  <2>2. QED
    BY <1>1, <2>1, TrimmedIs
<1>4. AddMoney(l, r) = [currency |-> l.currency, units |-> q, scale |-> t]
  BY DEF AddMoney
<1> HIDE DEF x, y, s, t
<1>5. /\ t \in Scales /\ t <= s /\ t <= Precision /\ s - t \in Scales
      /\ Precision - t \in Scales /\ Precision - s \in Scales
      /\ (s - t) + (Precision - s) = Precision - t
  BY <1>1, <1>3, QuoteConstants DEF Scales
<1>6. d \in Nat \ {0}
  BY <1>5, TenToIs
<1>7. TenTo[Precision - t] = d * k
  BY <1>5, TenToAdds
<1> HIDE DEF k
<1>8. q \in Nat /\ q * d = x + y
  <2> HIDE DEF d
  <2>1. \A a \in Nat, b \in Nat \ {0} : a \div b \in Nat /\ (a % b = 0 => (a \div b) * b = a)
    OBVIOUS
  <2>2. x + y \in Nat
    BY <1>2
  <2>3. QED
    BY <1>3, <1>6, <2>1, <2>2
<1> HIDE DEF d, q
<1>9. Fits(AddMoney(l, r)) /\ AddMoney(l, r).currency = l.currency
  BY <1>4, <1>5, <1>8 DEF Fits
<1>10. Exact(AddMoney(l, r)) = q * (d * k)
  BY <1>4, <1>7 DEF Exact
<1>11. q * (d * k) = (q * d) * k
  <2>1. \A a, b, c \in Nat : a * (b * c) = (a * b) * c
    OBVIOUS
  <2>2. QED
    BY <1>2, <1>6, <1>8, <2>1
<1>12. (x + y) * k = x * k + y * k
  <2>1. \A a, b, c \in Nat : (a + b) * c = a * c + b * c
    OBVIOUS
  <2>2. QED
    BY <1>2, <2>1
<1>13. x * k \in Nat /\ y * k \in Nat
  <2>1. \A a, b \in Nat : a * b \in Nat
    OBVIOUS
  <2>2. QED
    BY <1>2, <2>1
<1>14. QED
  BY <1>2, <1>8, <1>9, <1>10, <1>11, <1>12, <1>13

(* The running totals, and their exact values.                             *)
LEMMA TotalsDefined ==
  ASSUME NEW b, NEW currency, Len(b) \in Nat, \A i \in 1 .. Len(b) : Fits(b[i])
  PROVE  Totals(b, currency) =
           [i \in 0 .. Len(b) |-> IF i = 0 THEN Zero(currency)
                                  ELSE AddMoney(Totals(b, currency)[i - 1], b[i])]
<1> DEFINE D == [currency : {currency}, units : Nat, scale : 0 .. Precision]
           m == Len(b)
           first == Zero(currency)
           step == [i \in 1 .. m |-> [x \in D |-> AddMoney(x, b[i])]]
<1>1. ASSUME NEW x \in D, NEW i \in 1 .. m
      PROVE  AddMoney(x, b[i]) \in D
  <2>1. Fits(x)
    <3>1. x.units \in Nat /\ x.scale \in 0 .. Precision
      OBVIOUS
    <3>2. \A z \in 0 .. Precision : z \in Scales /\ z <= Precision
      BY QuoteConstants DEF Scales
    <3> HIDE DEF D
    <3>3. QED
      BY <3>1, <3>2 DEF Fits
  <2>2. Fits(AddMoney(x, b[i])) /\ AddMoney(x, b[i]).currency = x.currency
    BY <2>1, AddIsExact
  <2>3. PICK u, z : AddMoney(x, b[i]) = [currency |-> x.currency, units |-> u, scale |-> z]
    BY DEF AddMoney
  <2>4. u \in Nat /\ z \in Scales /\ z <= Precision
    <3>1. AddMoney(x, b[i]).units = u /\ AddMoney(x, b[i]).scale = z
      BY <2>3
    <3>2. QED
      BY <2>2, <3>1 DEF Fits
  <2>5. \A y \in Scales : y <= Precision => y \in 0 .. Precision
    BY QuoteConstants DEF Scales
  <2>6. x.currency = currency
    OBVIOUS
  <2>7. QED
    BY <2>3, <2>4, <2>5, <2>6
<1>2. first \in D /\ m \in Nat
  BY QuoteConstants DEF Zero, Scales
<1>3. step \in [1 .. m -> [D -> D]]
  <2> HIDE DEF D, m
  <2>1. QED
    BY <1>1
<1>4. \E f \in [0 .. m -> D] : DefinedBy(f, m, first, step)
  <2> HIDE DEF D, m, first, step
  <2>1. QED
    BY <1>2, <1>3, RecursiveFunction
<1>5. PICK f \in [0 .. m -> D] : DefinedBy(f, m, first, step)
  BY <1>4
<1>6. \A i \in 1 .. m : step[i][f[i - 1]] = AddMoney(f[i - 1], b[i])
  <2> HIDE DEF D
  <2>1. QED
    BY <1>2
<1> HIDE DEF D, step
<1>7. f = [i \in 0 .. Len(b) |-> IF i = 0 THEN Zero(currency) ELSE AddMoney(f[i - 1], b[i])]
  <2>1. f = [i \in 0 .. m |-> IF i = 0 THEN first ELSE step[i][f[i - 1]]]
    BY <1>5 DEF DefinedBy
  <2>2. \A i \in 0 .. m : i # 0 => i \in 1 .. m
    BY <1>2
  <2> HIDE DEF first, m
  <2>3. f = [i \in 0 .. m |-> IF i = 0 THEN first ELSE AddMoney(f[i - 1], b[i])]
    BY <1>6, <2>1, <2>2
  <2>4. QED
    BY <2>3 DEF first, m
<1>8. QED
  BY <1>7 DEF Totals

(* The same for the sums of the exact values.                              *)
LEMMA ExactTotalsDefined ==
  ASSUME NEW b, Len(b) \in Nat, \A i \in 1 .. Len(b) : Fits(b[i])
  PROVE  ExactTotals(b) =
           [i \in 0 .. Len(b) |-> IF i = 0 THEN 0 ELSE ExactTotals(b)[i - 1] + Exact(b[i])]
<1> DEFINE D == Nat
           m == Len(b)
           first == 0
           step == [i \in 1 .. m |-> [x \in D |-> x + Exact(b[i])]]
<1>1. \A i \in 1 .. m : Exact(b[i]) \in Nat
  BY AddIsExact
<1>2. step \in [1 .. m -> [D -> D]] /\ first \in D /\ m \in Nat
  BY <1>1
<1>3. \E f \in [0 .. m -> D] : DefinedBy(f, m, first, step)
  <2> HIDE DEF D, m, first, step
  <2>1. QED
    BY <1>2, RecursiveFunction
<1>4. PICK f \in [0 .. m -> D] : DefinedBy(f, m, first, step)
  BY <1>3
<1>5. ASSUME NEW i \in 1 .. m
      PROVE  step[i][f[i - 1]] = f[i - 1] + Exact(b[i])
  <2>1. i - 1 \in 0 .. m
    BY <1>2
  <2>2. f[i - 1] \in D
    BY <1>4, <2>1
  <2>3. QED
    BY <2>2
<1> HIDE DEF step, D
<1>6. f = [i \in 0 .. Len(b) |-> IF i = 0 THEN 0 ELSE f[i - 1] + Exact(b[i])]
  BY <1>2, <1>4, <1>5 DEF DefinedBy
<1>7. QED
  BY <1>6 DEF ExactTotals

(* Every running total is the exact sum of the components so far.          *)
LEMMA TotalsAreExact ==
  ASSUME NEW b, NEW currency, Len(b) \in Nat, \A i \in 1 .. Len(b) : Fits(b[i])
  PROVE  \A i \in 0 .. Len(b) :
           /\ Fits(Totals(b, currency)[i])
           /\ Exact(Totals(b, currency)[i]) = ExactTotals(b)[i]
<1> DEFINE money == Totals(b, currency)
           exact == ExactTotals(b)
           S == {i \in Nat : i <= Len(b) => Fits(money[i]) /\ Exact(money[i]) = exact[i]}
<1>1. /\ money[0] = Zero(currency) /\ exact[0] = 0
      /\ \A i \in 1 .. Len(b) : money[i] = AddMoney(money[i - 1], b[i])
      /\ \A i \in 1 .. Len(b) : exact[i] = exact[i - 1] + Exact(b[i])
  <2>1. money = [i \in 0 .. Len(b) |-> IF i = 0 THEN Zero(currency)
                                       ELSE AddMoney(money[i - 1], b[i])]
    BY TotalsDefined
  <2>2. exact = [i \in 0 .. Len(b) |-> IF i = 0 THEN 0 ELSE exact[i - 1] + Exact(b[i])]
    BY ExactTotalsDefined
  <2> HIDE DEF money, exact
  <2>3. /\ money[0] = Zero(currency)
        /\ \A i \in 1 .. Len(b) : money[i] = AddMoney(money[i - 1], b[i])
    BY <2>1
  <2>4. exact[0] = 0 /\ \A i \in 1 .. Len(b) : exact[i] = exact[i - 1] + Exact(b[i])
    BY <2>2
  <2>5. QED
    BY <2>3, <2>4
<1>2. Fits(Zero(currency)) /\ Exact(Zero(currency)) = 0
  <2>1. Fits(Zero(currency)) /\ Precision - 0 \in Scales
    BY QuoteConstants DEF Fits, Zero, Scales
  <2>2. TenTo[Precision - 0] \in Nat
    BY <2>1, TenToIs
  <2>3. QED
    BY <2>1, <2>2 DEF Exact, Zero
<1> HIDE DEF money, exact
<1>3. 0 \in S
  BY <1>1, <1>2
<1>4. ASSUME NEW i \in Nat, i \in S
      PROVE  i + 1 \in S
  <2> SUFFICES ASSUME i + 1 <= Len(b)
               PROVE  Fits(money[i + 1]) /\ Exact(money[i + 1]) = exact[i + 1]
    OBVIOUS
  <2>1. Fits(money[i]) /\ Exact(money[i]) = exact[i] /\ Fits(b[i + 1])
    BY <1>4
  <2>2. money[i + 1] = AddMoney(money[i], b[i + 1]) /\ exact[i + 1] = exact[i] + Exact(b[i + 1])
    <3>1. i + 1 \in 1 .. Len(b) /\ (i + 1) - 1 = i
      OBVIOUS
    <3>2. QED
      BY <1>1, <3>1
  <2>3. QED
    BY <2>1, <2>2, AddIsExact
<1>5. Nat \subseteq S
  <2> HIDE DEF S
  <2>1. QED
    BY <1>3, <1>4, SetInduction
<1>6. QED
  BY <1>5 DEF money, exact

(* validatePriceComponents compares the exact sum.                         *)
LEMMA SumIsExact ==
  ASSUME NEW b, NEW price, Len(b) \in Nat, \A i \in 1 .. Len(b) : Fits(b[i]), Fits(price),
         b # <<>>, SumsTo(b, price)
  PROVE  ExactTotals(b)[Len(b)] = Exact(price)
<1> DEFINE money == Totals(b, price.currency)
<1>1. SameAmount(money[Len(b)], price)
  BY DEF SumsTo
<1>2. Fits(money[Len(b)]) /\ Exact(money[Len(b)]) = ExactTotals(b)[Len(b)]
  BY TotalsAreExact
<1> HIDE DEF money
<1>3. QED
  BY <1>1, <1>2, CompareIsExact

-----------------------------------------------------------------------------
(* The quotes                                                              *)

(* A reference to a ready file of its owner, with the bytes it names.      *)
Sound(who, ref) ==
  /\ ref.file \in Files
  /\ files[ref.file].state = "ready"
  /\ files[ref.file].owner = who
  /\ files[ref.file].digest = ref.digest
  /\ files[ref.file].expiresAt # 0

(* What ValidateRefs has seen of the files holds for the rest of prepare.  *)
ValidatedRefsAreSound ==
  \A p \in Prepares :
    preparing[p].at \in {"service", "check", "issue"} =>
      \A ref \in preparing[p].sent.refs : Sound(preparing[p].sent.who, ref)

PricedByContract ==
  \A p \in Prepares :
    preparing[p].at \in {"check", "issue"} => preparing[p].contract \in Contracts

(* A stored quote names sound files, and outlives none of those whose      *)
(* expiry the caller has copied.                                           *)
QuotesAreSound ==
  \A p \in Prepares :
    quotes[p].stored =>
      \A ref \in quotes[p].refs :
        /\ Sound(quotes[p].who, ref)
        /\ ref.copied => files[ref.file].expiresAt >= quotes[p].expiresAt

CommittedQuotesExist ==
  \A c \in Commits : committed[c] >= 0 => quotes[CommitOf[c].quote].stored

QuotesInv ==
  /\ FileInv
  /\ QuotesTypeOK
  /\ ValidatedRefsAreSound
  /\ PricedByContract
  /\ QuotesAreSound
  /\ CommittedQuotesExist

USE DEF Preparation

(* Nothing is offered, prepared or committed at first.                     *)
LEMMA QuotesInitially ==
  ASSUME QuotesInit
  PROVE  QuotesInv
<1> USE FileConstants, QuoteConstants
<1>1. FileInv
  BY FileInitially DEF QuotesInit
<1>2. PICK sent \in [Prepares -> PrepareRequests] :
        preparing = [p \in Prepares |-> [at |-> "offer", sent |-> sent[p],
                                         contract |-> NoContract, expiresAt |-> 0]]
  BY DEF QuotesInit
<1>3. preparing \in [Prepares -> Preparation]
  BY <1>2
<1>4. QuotesTypeOK
  BY <1>1, <1>3 DEF QuotesInit, QuotesTypeOK, FileInv, NoQuote, Waiting
<1>5. ValidatedRefsAreSound /\ PricedByContract
  BY <1>2 DEF ValidatedRefsAreSound, PricedByContract
<1>6. QuotesAreSound
  BY DEF QuotesInit, QuotesAreSound, NoQuote
<1>7. CommittedQuotesExist
  BY DEF QuotesInit, CommittedQuotesExist, Waiting
<1>8. QED
  BY <1>1, <1>4, <1>5, <1>6, <1>7 DEF QuotesInv

(* What is known of a prepare.                                             *)
LEMMA PreparingTypes ==
  ASSUME QuotesTypeOK, NEW p \in Prepares
  PROVE  /\ preparing[p] = [at |-> preparing[p].at, sent |-> preparing[p].sent,
                            contract |-> preparing[p].contract,
                            expiresAt |-> preparing[p].expiresAt]
         /\ preparing[p].sent \in PrepareRequests
         /\ preparing[p].sent \in PrepareRequest
         /\ preparing[p].expiresAt \in Nat
         /\ preparing[p].contract \in Contracts => preparing[p].contract \in Contract
<1>1. preparing[p] \in Preparation
  BY DEF QuotesTypeOK
<1>2. QED
  BY <1>1, QuoteConstants

(* A quote has the fields of its request and its contract.                 *)
LEMMA QuoteTypes ==
  ASSUME QuotesTypeOK, NEW p \in Prepares, preparing[p].contract \in Contracts
  PROVE  /\ Quote(p) \in StoredQuote
         /\ Quote(p).stored
         /\ Quote(p).who = preparing[p].sent.who
         /\ Quote(p).refs = preparing[p].sent.refs
         /\ Quote(p).expiresAt = preparing[p].expiresAt
<1> DEFINE r == preparing[p].sent
           t == preparing[p].contract
<1>1. r \in PrepareRequest /\ t \in Contract /\ preparing[p].expiresAt \in Nat
  BY PreparingTypes
<1>2. now \in 0 .. MaxTime
  BY DEF QuotesTypeOK, FileTypeOK
<1>3. /\ r.who \in Identities /\ r.offer \in Negotiations /\ r.refs \in SUBSET FileRef
      /\ r.maxPrice \in SUBSET Amount /\ r.deadline \in Nat
  BY <1>1 DEF PrepareRequest
<1>4. /\ t.price \in Amount /\ t.ceiling \in Amount /\ t.variable \in BOOLEAN
      /\ t.breakdown \in Seq(Amount)
  BY <1>1 DEF Contract
<1>5. QED
  BY <1>1, <1>2, <1>3, <1>4 DEF Quote, StoredQuote

(* Sound references stay so, and their files keep their expiry.            *)
LEMMA SoundStaysSound ==
  ASSUME FileTypeOK, FileStep, NEW who, NEW ref, Sound(who, ref)
  PROVE  /\ files'[ref.file] = files[ref.file]
         /\ Sound(who, ref)'
BY FilesAdvanceStep DEF FilesAdvance, Sound

(* The steps of the file store and its routes.                             *)
LEMMA FileStepKeepsQuotes ==
  ASSUME QuotesInv, FileStep, UNCHANGED quoteVars
  PROVE  QuotesInv'
<1> USE DEF QuotesInv, quoteVars
<1>1. FileInv'
  BY FileInvStep
<1>2. QuotesTypeOK'
  BY <1>1 DEF QuotesTypeOK, FileInv
<1>3. \A who, ref : Sound(who, ref) => Sound(who, ref)' /\ files'[ref.file] = files[ref.file]
  BY SoundStaysSound DEF FileInv
<1>4. ValidatedRefsAreSound' /\ PricedByContract'
  BY <1>3 DEF ValidatedRefsAreSound, PricedByContract, Sound
<1>5. QuotesAreSound'
  BY <1>3 DEF QuotesAreSound, Sound
<1>6. CommittedQuotesExist'
  BY DEF CommittedQuotesExist
<1>7. QED
  BY <1>1, <1>2, <1>4, <1>5, <1>6

(* The steps of negotiate.                                                 *)
LEMMA NegotiateKeepsQuotes ==
  ASSUME QuotesInv, NEW n \in Negotiations,
         ServiceNegotiates(n) \/ StoreOffer(n) \/ NegotiateRefused(n)
  PROVE  QuotesInv'
<1> USE QuoteConstants DEF QuotesInv
<1>1. UNCHANGED <<now, fileVars, preparing, quotes, committed>>
  BY DEF ServiceNegotiates, StoreOffer, NegotiateRefused
<1>2. FileInv'
  <2>1. FileStep
    BY <1>1 DEF FileStep, fileVars
  <2>2. QED
    BY <2>1, FileInvStep
<1>3. /\ negotiating' \in [Negotiations -> [at : {"service", "offer", "done", "refused"},
                                           expiresAt : Nat]]
      /\ offers' \in [Negotiations -> Nat]
  <2>1. /\ negotiating \in [Negotiations -> [at : {"service", "offer", "done", "refused"},
                                             expiresAt : Nat]]
        /\ offers \in [Negotiations -> Nat]
        /\ now \in Nat
    BY FileConstants DEF QuotesTypeOK, FileTypeOK
  <2> HIDE DEF QuotesInv
  <2>2. CASE ServiceNegotiates(n)
    <3>1. now + OfferLife \in Nat
      BY <2>1
    <3>2. /\ negotiating' = [negotiating EXCEPT ![n] = [at |-> "offer",
                                                        expiresAt |-> now + OfferLife]]
          /\ offers' = offers
      BY <2>2 DEF ServiceNegotiates
    <3>3. QED
      BY <2>1, <3>1, <3>2
  <2>3. negotiating[n].expiresAt \in Nat
    BY <2>1
  <2>4. CASE StoreOffer(n)
    <3>1. /\ negotiating' = [negotiating EXCEPT ![n].at = "done"]
          /\ offers' = [offers EXCEPT ![n] = negotiating[n].expiresAt]
      BY <2>4 DEF StoreOffer, NegotiateGoto
    <3>2. QED
      BY <2>1, <2>3, <3>1
  <2>5. CASE NegotiateRefused(n)
    <3>1. negotiating' = [negotiating EXCEPT ![n].at = "refused"]
      BY <2>5 DEF NegotiateRefused, NegotiateGoto
    <3>2. offers' \in {offers, [offers EXCEPT ![n] = negotiating[n].expiresAt]}
      BY <2>5 DEF NegotiateRefused
    <3>3. negotiating' \in [Negotiations -> [at : {"service", "offer", "done", "refused"},
                                             expiresAt : Nat]]
      BY <2>1, <3>1
    <3>4. offers' \in [Negotiations -> Nat]
      BY <2>1, <2>3, <3>2
    <3>5. QED
      BY <3>3, <3>4
  <2>6. QED
    BY <2>2, <2>4, <2>5
<1>4. QuotesTypeOK'
  BY <1>1, <1>2, <1>3 DEF QuotesTypeOK, FileInv
<1>5. ValidatedRefsAreSound' /\ PricedByContract' /\ QuotesAreSound' /\ CommittedQuotesExist'
  BY <1>1 DEF ValidatedRefsAreSound, PricedByContract, QuotesAreSound,
     CommittedQuotesExist, Sound, fileVars
<1>6. QED
  BY <1>2, <1>4, <1>5

(* A prepare that moves on as p, to what the invariant says of it, keeps   *)
(* the invariant.                                                          *)
LEMMA PrepareMoves ==
  ASSUME QuotesInv, NEW p \in Prepares, NEW new,
         UNCHANGED <<now, fileVars, negotiating, offers, committed>>,
         preparing' = [preparing EXCEPT ![p] = new],
         new \in Preparation,
         new.sent = preparing[p].sent,
         new.at \in {"service", "check", "issue"} =>
           \A ref \in new.sent.refs : Sound(new.sent.who, ref),
         new.at \in {"check", "issue"} => new.contract \in Contracts,
         \/ UNCHANGED quotes
         \/ /\ quotes' = [quotes EXCEPT ![p] = Quote(p)]
            /\ preparing[p].at = "issue"
            /\ Issuable(p)
  PROVE  QuotesInv'
<1> USE QuoteConstants DEF QuotesInv
<1>1. FileInv'
  <2>1. FileStep
    BY DEF FileStep, fileVars
  <2>2. QED
    BY <2>1, FileInvStep
<1>2. \A who, ref : Sound(who, ref)' <=> Sound(who, ref)
  BY DEF Sound, fileVars
<1>3. ValidatedRefsAreSound' /\ PricedByContract'
  <2>1. \A q \in Prepares : preparing'[q] = IF q = p THEN new ELSE preparing[q]
    BY DEF QuotesTypeOK
  <2>2. PricedByContract'
    BY <2>1 DEF PricedByContract
  <2>3. ValidatedRefsAreSound'
    BY <1>2, <2>1 DEF ValidatedRefsAreSound
  <2>4. QED
    BY <2>2, <2>3
<1>4. CASE UNCHANGED quotes
  <2>1. QuotesTypeOK'
    BY <1>1, <1>4 DEF QuotesTypeOK, FileInv
  <2>2. QuotesAreSound' /\ CommittedQuotesExist'
    BY <1>4 DEF QuotesAreSound, CommittedQuotesExist, Sound, fileVars
  <2>3. QED
    BY <1>1, <1>3, <2>1, <2>2
<1>5. CASE /\ quotes' = [quotes EXCEPT ![p] = Quote(p)]
           /\ preparing[p].at = "issue"
           /\ Issuable(p)
  <2> DEFINE r == preparing[p].sent
  <2>1. preparing[p].contract \in Contracts
    BY <1>5 DEF PricedByContract
  <2>2. /\ Quote(p) \in StoredQuote /\ Quote(p).stored /\ Quote(p).who = r.who
        /\ Quote(p).refs = r.refs /\ Quote(p).expiresAt = preparing[p].expiresAt
    BY <2>1, QuoteTypes
  <2>3. \A ref \in r.refs :
          /\ Sound(r.who, ref)
          /\ ref.copied => files[ref.file].expiresAt >= preparing[p].expiresAt
    <3>1. \A ref \in r.refs : Sound(r.who, ref)
      BY <1>5 DEF ValidatedRefsAreSound
    <3>2. \A ref \in r.refs : ClaimedExpiry(ref) # 0 => ClaimedExpiry(ref) >= preparing[p].expiresAt
      BY <1>5 DEF Issuable, QuoteValid
    <3>3. QED
      BY <3>1, <3>2 DEF ClaimedExpiry, Sound
  <2>4. \A q \in Prepares : quotes'[q] = IF q = p THEN Quote(p) ELSE quotes[q]
    BY <1>5 DEF QuotesTypeOK
  <2> HIDE DEF r
  <2>5. QuotesTypeOK'
    BY <1>1, <1>5, <2>2 DEF QuotesTypeOK, FileInv
  <2>6. QuotesAreSound'
    <3>1. \A q \in Prepares : quotes'[q].stored =>
            \A ref \in quotes'[q].refs :
              /\ Sound(quotes'[q].who, ref)
              /\ ref.copied => files[ref.file].expiresAt >= quotes'[q].expiresAt
      BY <2>2, <2>3, <2>4 DEF QuotesAreSound
    <3>2. files' = files
      BY DEF fileVars
    <3>3. QED
      BY <1>2, <3>1, <3>2 DEF QuotesAreSound
  <2>7. CommittedQuotesExist'
    BY <2>2, <2>4 DEF CommittedQuotesExist
  <2>8. QED
    BY <1>1, <1>3, <2>5, <2>6, <2>7
<1>6. QED
  BY <1>4, <1>5

(* A prepare that goes to its next call keeps its request and contract.    *)
LEMMA GotoMoves ==
  ASSUME QuotesTypeOK, NEW p \in Prepares, NEW from, NEW to, PrepareGoto(p, from, to),
         to \in {"offer", "refs", "service", "check", "issue", "done", "refused"}
  PROVE  \E new \in Preparation :
           /\ preparing[p].at = from
           /\ preparing' = [preparing EXCEPT ![p] = new]
           /\ new.at = to
           /\ new.sent = preparing[p].sent
           /\ new.contract = preparing[p].contract
<1> DEFINE new == [preparing[p] EXCEPT !.at = to]
<1>1. preparing' = [preparing EXCEPT ![p] = new] /\ preparing[p].at = from
  BY DEF PrepareGoto
<1>2. preparing[p] \in Preparation
  BY DEF QuotesTypeOK
<1>3. /\ new \in Preparation
      /\ new.at = to /\ new.sent = preparing[p].sent /\ new.contract = preparing[p].contract
  BY <1>2
<1> HIDE DEF new
<1>4. QED
  BY <1>1, <1>3

(* A priced prepare keeps its request.                                     *)
LEMMA PricedMoves ==
  ASSUME NEW request \in Preparation,
         NEW t \in Contracts, now \in Nat, t.lifetime \in Nat
  PROVE  /\ Priced(request, t) \in Preparation
         /\ Priced(request, t).sent = request.sent
         /\ Priced(request, t).contract = t
<1>1. now + t.lifetime \in Nat
  OBVIOUS
<1>2. QED
  BY <1>1 DEF Priced

(* The steps of prepare.                                                   *)
LEMMA PrepareKeepsQuotes ==
  ASSUME QuotesInv, NEW p \in Prepares,
         \/ FindOffer(p) \/ ValidateRefs(p) \/ ServicePrepares(p)
         \/ CheckContract(p) \/ IssueQuote(p) \/ PrepareRefused(p)
  PROVE  QuotesInv'
<1>0. QuotesTypeOK
  BY DEF QuotesInv
<1>1. CASE FindOffer(p)
  <2>1. /\ PrepareGoto(p, "offer", "refs")
        /\ UNCHANGED <<now, fileVars, negotiating, offers, quotes, committed>>
    BY <1>1 DEF FindOffer
  <2>2. QED
    BY <1>0, <2>1, GotoMoves, PrepareMoves
<1>2. CASE ValidateRefs(p)
  <2>1. /\ PrepareGoto(p, "refs", "service")
        /\ UNCHANGED <<now, fileVars, negotiating, offers, quotes, committed>>
    BY <1>2 DEF ValidateRefs
  <2>2. \A ref \in preparing[p].sent.refs : Sound(preparing[p].sent.who, ref)
    <3>1. preparing[p].sent.refs \subseteq FileRef /\ now \in Nat
      BY <1>0, PreparingTypes DEF PrepareRequest, QuotesTypeOK, FileTypeOK
    <3>2. \A f \in Files : files[f].expiresAt \in Nat
      BY <1>0 DEF QuotesTypeOK, FileTypeOK, File
    <3>3. \A ref \in preparing[p].sent.refs : FileMatches(preparing[p].sent.who, ref)
      BY <1>2 DEF ValidateRefs, RefsValid
    <3>4. QED
      BY <3>1, <3>2, <3>3 DEF FileMatches, Usable, Visible, Sound, FileRef
  <2>3. QED
    BY <1>0, <2>1, <2>2, GotoMoves, PrepareMoves
<1>3. CASE ServicePrepares(p)
  <2>1. PICK t \in Contracts : preparing' = [preparing EXCEPT ![p] = Priced(preparing[p], t)]
    BY <1>3 DEF ServicePrepares
  <2> DEFINE new == Priced(preparing[p], t)
  <2>2. now \in Nat /\ t \in Contract /\ t.lifetime \in Nat
    BY <1>0, FileConstants, QuoteConstants DEF QuotesTypeOK, FileTypeOK, Contract
  <2>3. preparing[p] \in Preparation
    BY <1>0 DEF QuotesTypeOK
  <2>4. /\ new \in Preparation
        /\ new.sent = preparing[p].sent /\ new.contract = t
    BY <2>2, <2>3, PricedMoves
  <2>5. \A ref \in preparing[p].sent.refs : Sound(preparing[p].sent.who, ref)
    BY <1>3 DEF ServicePrepares, QuotesInv, ValidatedRefsAreSound
  <2>6. UNCHANGED <<now, fileVars, negotiating, offers, quotes, committed>>
    BY <1>3 DEF ServicePrepares
  <2> HIDE DEF new
  <2>7. preparing' = [preparing EXCEPT ![p] = new]
    BY <2>1 DEF new
  <2>8. QED
    BY <2>4, <2>5, <2>6, <2>7, PrepareMoves
<1>4. CASE CheckContract(p)
  <2>1. /\ PrepareGoto(p, "check", "issue")
        /\ UNCHANGED <<now, fileVars, negotiating, offers, quotes, committed>>
    BY <1>4 DEF CheckContract
  <2>2. /\ preparing[p].contract \in Contracts
        /\ \A ref \in preparing[p].sent.refs : Sound(preparing[p].sent.who, ref)
    BY <2>1 DEF PrepareGoto, QuotesInv, ValidatedRefsAreSound, PricedByContract
  <2>3. PICK new \in Preparation :
          /\ preparing' = [preparing EXCEPT ![p] = new]
          /\ new.sent = preparing[p].sent
          /\ new.contract = preparing[p].contract
    BY <1>0, <2>1, GotoMoves
  <2>4. QED
    BY <2>1, <2>2, <2>3, PrepareMoves
<1>5. CASE IssueQuote(p)
  <2>1. /\ PrepareGoto(p, "issue", "done")
        /\ Issuable(p) /\ quotes' = [quotes EXCEPT ![p] = Quote(p)]
        /\ UNCHANGED <<now, fileVars, negotiating, offers, committed>>
    BY <1>5 DEF IssueQuote
  <2>2. PICK new \in Preparation :
          /\ preparing[p].at = "issue"
          /\ preparing' = [preparing EXCEPT ![p] = new]
          /\ new.at = "done"
          /\ new.sent = preparing[p].sent
    BY <1>0, <2>1, GotoMoves
  <2>3. new.at \notin {"service", "check", "issue"}
    BY <2>2
  <2>4. QED
    BY <2>1, <2>2, <2>3, PrepareMoves
<1>6. CASE PrepareRefused(p)
  <2>1. PICK from \in {"offer", "refs", "service", "check", "issue"} :
          /\ PrepareGoto(p, from, "refused")
          /\ \/ UNCHANGED quotes
             \/ /\ from = "issue" /\ Issuable(p)
                /\ quotes' = [quotes EXCEPT ![p] = Quote(p)]
    BY <1>6 DEF PrepareRefused
  <2>2. UNCHANGED <<now, fileVars, negotiating, offers, committed>>
    BY <1>6 DEF PrepareRefused
  <2>3. PICK new \in Preparation :
          /\ preparing[p].at = from
          /\ preparing' = [preparing EXCEPT ![p] = new]
          /\ new.at = "refused"
          /\ new.sent = preparing[p].sent
    BY <1>0, <2>1, GotoMoves
  <2>4. QED
    BY <2>1, <2>2, <2>3, PrepareMoves
<1>7. QED
  BY <1>1, <1>2, <1>3, <1>4, <1>5, <1>6

(* A commit is accepted for a stored quote only.                           *)
LEMMA AcceptKeepsQuotes ==
  ASSUME QuotesInv, NEW c \in Commits, AcceptCommit(c)
  PROVE  QuotesInv'
<1> USE QuoteConstants DEF QuotesInv, AcceptCommit
<1>1. FileInv'
  <2>1. FileStep
    BY DEF FileStep, fileVars
  <2>2. QED
    BY <2>1, FileInvStep
<1>2. QuotesTypeOK'
  BY <1>1 DEF QuotesTypeOK, FileInv, FileTypeOK
<1>3. ValidatedRefsAreSound' /\ PricedByContract' /\ QuotesAreSound'
  BY DEF ValidatedRefsAreSound, PricedByContract, QuotesAreSound, Sound, fileVars
<1>4. CommittedQuotesExist'
  BY DEF CommittedQuotesExist, CommitAllowed, QuotesTypeOK, Rejected
<1>5. QED
  BY <1>1, <1>2, <1>3, <1>4

(* QuotesInv is inductive.                                                 *)
LEMMA QuotesInvStep ==
  ASSUME QuotesInv, [QuotesNext]_allVars
  PROVE  QuotesInv'
<1>1. CASE (FileSteps \/ FileTick) /\ UNCHANGED quoteVars
  BY <1>1, FileStepKeepsQuotes DEF FileStep
<1>2. CASE QuoteSteps
  BY <1>2, NegotiateKeepsQuotes, PrepareKeepsQuotes, AcceptKeepsQuotes DEF QuoteSteps
<1>3. CASE UNCHANGED allVars
  BY <1>3, FileStepKeepsQuotes DEF allVars, FileStep
<1>4. QED
  BY <1>1, <1>2, <1>3 DEF QuotesNext

(* The invariant always holds.                                             *)
LEMMA QuotesInductive == QuotesSpec => []QuotesInv
BY QuotesInitially, QuotesInvStep, PTL DEF QuotesSpec

(* Tickets, uploads, downloads, offers, contracts and quotes keep their    *)
(* types.                                                                  *)
THEOREM QuotesTypeCorrect == QuotesSpec => []QuotesTypeOK
<1>1. QuotesInv => QuotesTypeOK
  BY DEF QuotesInv
<1>2. QED
  BY QuotesInductive, <1>1, PTL

(* Content finds the reference and the bytes under two locks; what it      *)
(* serves is what the owner declared, to the owner.                        *)
THEOREM DownloadsAreDeclared == QuotesSpec => []DownloadIsDeclared
<1>1. QuotesInv => DownloadIsDeclared
  BY DEF QuotesInv, FileInv
<1>2. QED
  BY QuotesInductive, <1>1, PTL

(* Uploads that repeat, race or come late never change a ready file, nor   *)
(* what was declared of any file.                                          *)
THEOREM ReadyFilesAreFinal == QuotesSpec => ReadyIsFinal
<1>1. QuotesInv /\ [QuotesNext]_allVars =>
        [\A f \in Files :
           /\ files[f].state = "ready" => files'[f] = files[f]
           /\ files[f].state # "absent" => /\ files'[f].digest = files[f].digest
                                           /\ files'[f].owner = files[f].owner
                                           /\ files'[f].expiresAt = files[f].expiresAt]_files
  <2> SUFFICES ASSUME QuotesInv, [QuotesNext]_allVars, ~UNCHANGED files
               PROVE  FilesAdvance
    BY DEF FilesAdvance
  <2>1. FileSteps
    BY DEF QuotesNext, QuoteSteps, FileTick, fileVars, allVars, ServiceNegotiates, StoreOffer,
       NegotiateRefused, FindOffer, ValidateRefs, ServicePrepares, CheckContract, IssueQuote,
       PrepareRefused, AcceptCommit
  <2>2. QED
    BY <2>1, FilesAdvanceStep DEF QuotesInv, FileInv, FileStep
<1>2. QED
  BY QuotesInductive, <1>1, PTL DEF QuotesSpec, ReadyIsFinal

(* Validate compares each reference of prepare with a ready file of the    *)
(* caller, and nothing that happens later takes the file or its bytes.     *)
THEOREM QuotesNameSoundFiles == QuotesSpec => []QuotedFilesAreSound
<1>1. QuotesInv => QuotedFilesAreSound
  BY DEF QuotesInv, FileInv, FilesAreAsDeclared, QuotesAreSound, Sound, QuotedFilesAreSound
<1>2. QED
  BY QuotesInductive, <1>1, PTL

(* ValidateQuoteSemantics bounds the quote by the expiries the caller has  *)
(* copied, so a commit before the quote's expiry finds those files.        *)
THEOREM CommitsFindTheirFiles == QuotesSpec => []CommitFindsItsFiles
<1>1. QuotesInv => CommitFindsItsFiles
  <2> SUFFICES ASSUME QuotesInv, NEW c \in Commits, committed[c] >= 0,
                      committed[c] < quotes[CommitOf[c].quote].expiresAt,
                      NEW ref \in quotes[CommitOf[c].quote].refs, ref.copied
               PROVE  files[ref.file].expiresAt > committed[c]
    BY DEF CommitFindsItsFiles
  <2> DEFINE p == CommitOf[c].quote
  <2>1. p \in Prepares
    BY QuoteConstants
  <2>2. quotes[p].stored
    BY DEF QuotesInv, CommittedQuotesExist
  <2>3. quotes[p] \in StoredQuote
    BY <2>1, <2>2 DEF QuotesInv, QuotesTypeOK, NoQuote
  <2>4. quotes[p].expiresAt \in Nat /\ committed[c] \in Int
    <3>1. committed[c] \in {-1, -2} \cup 0 .. MaxTime
      BY DEF QuotesInv, QuotesTypeOK, Waiting, Rejected
    <3>2. committed[c] \in Int
      BY <3>1, FileConstants
    <3>3. quotes[p].expiresAt \in Nat
      BY <2>3 DEF StoredQuote
    <3>4. QED
      BY <3>2, <3>3
  <2>5. Sound(quotes[p].who, ref) /\ files[ref.file].expiresAt >= quotes[p].expiresAt
    BY <2>1, <2>2 DEF QuotesInv, QuotesAreSound
  <2>6. files[ref.file].expiresAt \in Nat
    BY <2>5 DEF Sound, QuotesInv, QuotesTypeOK, FileTypeOK, File
  <2>7. QED
    BY <2>4, <2>5, <2>6
<1>2. QED
  BY QuotesInductive, <1>1, PTL

(* negotiate, prepare and commit only read the file store: what a client   *)
(* may do to it is what its own routes allow.                              *)
THEOREM QuotesOnlyReadFiles == QuotesSpec => FileSpec
<1>1. QuotesInit => FileInit
  BY DEF QuotesInit
<1>2. [QuotesNext]_allVars => FileStep
  <2> SUFFICES ASSUME [QuotesNext]_allVars PROVE FileStep
    OBVIOUS
  <2>1. CASE FileSteps \/ FileTick
    BY <2>1 DEF FileStep
  <2>2. CASE QuoteSteps
    <3>1. UNCHANGED <<now, fileVars>>
      BY <2>2 DEF QuoteSteps, ServiceNegotiates, StoreOffer, NegotiateRefused, FindOffer,
                  ValidateRefs, ServicePrepares, CheckContract, IssueQuote, PrepareRefused,
                  AcceptCommit
    <3>2. QED
      BY <3>1 DEF FileStep
  <2>3. CASE UNCHANGED allVars
    BY <2>3 DEF allVars, FileStep
  <2>4. QED
    BY <2>1, <2>2, <2>3 DEF QuotesNext
<1>3. QED
  BY <1>1, <1>2, PTL DEF QuotesSpec, FileSpec, FileStep

-----------------------------------------------------------------------------
(* The prices of the quotes                                                *)

(* The scale of the properties is fine enough for every amount there is.   *)
AmountsFit ==
  /\ \A t \in Contracts : /\ t.price.scale <= Precision /\ t.ceiling.scale <= Precision
                          /\ \A i \in 1 .. Len(t.breakdown) : t.breakdown[i].scale <= Precision
  /\ \A n \in Negotiations : \A m \in NegotiationOf[n].budget : m.scale <= Precision
  /\ \A r \in PrepareRequests : \A m \in r.maxPrice : m.scale <= Precision

(* The scale of ValidateMoney is.                                          *)
LEMMA TheFinestScaleFits ==
  ASSUME Precision = 18
  PROVE  AmountsFit
<1>1. \A m \in Amount : m.scale <= Precision
  BY DEF Amount, Scales
<1>2. ASSUME NEW t \in Contracts
      PROVE  /\ t.price \in Amount /\ t.ceiling \in Amount
             /\ \A i \in 1 .. Len(t.breakdown) : t.breakdown[i] \in Amount
  <2>1. t \in Contract
    BY QuoteConstants
  <2>2. t.price \in Amount /\ t.ceiling \in Amount /\ t.breakdown \in Seq(Amount)
    BY <2>1 DEF Contract
  <2>3. QED
    BY <2>2
<1>3. ASSUME NEW n \in Negotiations
      PROVE  NegotiationOf[n].budget \subseteq Amount
  BY QuoteConstants
<1>4. ASSUME NEW r \in PrepareRequests
      PROVE  r.maxPrice \subseteq Amount
  BY QuoteConstants DEF PrepareRequest
<1>5. QED
  BY <1>1, <1>2, <1>3, <1>4 DEF AmountsFit

(* What CheckContract has compared holds until the quote is issued.        *)
CheckedWithinLimits ==
  \A p \in Prepares :
    preparing[p].at = "issue" => WithinLimits(preparing[p].sent, preparing[p].contract)

(* A stored quote has the prices of a contract that passed the checks of a *)
(* request for it.                                                         *)
PricedBy(q, r, t) ==
  /\ q.offer = r.offer /\ q.maxPrice = r.maxPrice
  /\ q.price = t.price /\ q.ceiling = t.ceiling /\ q.breakdown = t.breakdown
  /\ PricesValid(t) /\ WithinLimits(r, t)

QuotesArePriced ==
  \A p \in Prepares :
    quotes[p].stored => \E r \in PrepareRequests, t \in Contracts : PricedBy(quotes[p], r, t)

PriceInv == QuotesInv /\ CheckedWithinLimits /\ QuotesArePriced

(* A prepare that moves on as p, to what the invariant says of it.         *)
LEMMA PricesMove ==
  ASSUME PriceInv, NEW p \in Prepares, NEW new,
         preparing' = [preparing EXCEPT ![p] = new],
         new.at = "issue" => WithinLimits(new.sent, new.contract),
         \/ UNCHANGED quotes
         \/ /\ quotes' = [quotes EXCEPT ![p] = Quote(p)]
            /\ preparing[p].at = "issue"
            /\ Issuable(p)
  PROVE  CheckedWithinLimits' /\ QuotesArePriced'
<1>1. CheckedWithinLimits'
  <2>1. \A q \in Prepares : preparing'[q] = IF q = p THEN new ELSE preparing[q]
    BY DEF PriceInv, QuotesInv, QuotesTypeOK
  <2>2. QED
    BY <2>1 DEF PriceInv, CheckedWithinLimits, WithinLimits, Limits
<1>2. CASE UNCHANGED quotes
  BY <1>1, <1>2 DEF PriceInv, QuotesArePriced
<1>3. CASE /\ quotes' = [quotes EXCEPT ![p] = Quote(p)]
           /\ preparing[p].at = "issue"
           /\ Issuable(p)
  <2>1. preparing[p].sent \in PrepareRequests /\ preparing[p].contract \in Contracts
    BY <1>3, PreparingTypes DEF PriceInv, QuotesInv, PricedByContract
  <2>2. PricesValid(preparing[p].contract)
    BY <1>3 DEF Issuable, QuoteValid
  <2>3. WithinLimits(preparing[p].sent, preparing[p].contract)
    BY <1>3 DEF PriceInv, CheckedWithinLimits
  <2>4. PricedBy(Quote(p), preparing[p].sent, preparing[p].contract)
    BY <2>2, <2>3 DEF PricedBy, Quote
  <2>5. \A q \in Prepares : quotes'[q] = IF q = p THEN Quote(p) ELSE quotes[q]
    BY <1>3 DEF PriceInv, QuotesInv, QuotesTypeOK
  <2>6. ASSUME NEW q \in Prepares, quotes'[q].stored
        PROVE  \E r \in PrepareRequests, t \in Contracts : PricedBy(quotes'[q], r, t)
    <3>1. CASE q = p
      BY <2>1, <2>4, <2>5, <3>1
    <3>2. CASE q # p
      <4>1. quotes'[q] = quotes[q]
        BY <2>5, <3>2
      <4>2. QED
        BY <2>6, <4>1 DEF PriceInv, QuotesArePriced
    <3>3. QED
      BY <3>1, <3>2
  <2>7. QED
    BY <1>1, <2>6 DEF QuotesArePriced
<1>4. QED
  BY <1>2, <1>3

(* Nothing is priced at first.                                             *)
LEMMA PricesInitially ==
  ASSUME QuotesInit
  PROVE  PriceInv
<1>1. QuotesInv
  BY QuotesInitially
<1>2. CheckedWithinLimits
  <2>1. PICK sent \in [Prepares -> PrepareRequests] :
          preparing = [p \in Prepares |-> [at |-> "offer", sent |-> sent[p],
                                           contract |-> NoContract, expiresAt |-> 0]]
    BY DEF QuotesInit
  <2>2. \A p \in Prepares : preparing[p].at = "offer"
    BY <2>1
  <2>3. QED
    BY <2>2 DEF CheckedWithinLimits
<1>3. QuotesArePriced
  BY DEF QuotesInit, QuotesArePriced, NoQuote
<1>4. QED
  BY <1>1, <1>2, <1>3 DEF PriceInv

(* Only CheckContract moves a prepare to its last call, and only that call *)
(* stores a quote.                                                         *)
LEMMA PricesStep ==
  ASSUME PriceInv, [QuotesNext]_allVars
  PROVE  PriceInv'
<1>0. QuotesInv /\ QuotesInv' /\ QuotesTypeOK
  BY QuotesInvStep DEF PriceInv, QuotesInv
<1>1. ASSUME UNCHANGED <<preparing, quotes>>
      PROVE  PriceInv'
  BY <1>0, <1>1 DEF PriceInv, CheckedWithinLimits, QuotesArePriced
<1>2. CASE (FileSteps \/ FileTick) /\ UNCHANGED quoteVars
  BY <1>1, <1>2 DEF quoteVars
<1>3. ASSUME NEW n \in Negotiations, ServiceNegotiates(n) \/ StoreOffer(n) \/ NegotiateRefused(n)
      PROVE  PriceInv'
  BY <1>1, <1>3 DEF ServiceNegotiates, StoreOffer, NegotiateRefused
<1>4. ASSUME NEW c \in Commits, AcceptCommit(c)
      PROVE  PriceInv'
  BY <1>1, <1>4 DEF AcceptCommit
<1>5. ASSUME NEW p \in Prepares,
             \/ FindOffer(p) \/ ValidateRefs(p) \/ ServicePrepares(p)
             \/ CheckContract(p) \/ IssueQuote(p) \/ PrepareRefused(p)
      PROVE  PriceInv'
  <2> SUFFICES CheckedWithinLimits' /\ QuotesArePriced'
    BY <1>0 DEF PriceInv
  <2>1. ASSUME NEW from, NEW to \in {"refs", "service", "done", "refused"},
               PrepareGoto(p, from, to),
               \/ UNCHANGED quotes
               \/ from = "issue" /\ quotes' = [quotes EXCEPT ![p] = Quote(p)] /\ Issuable(p)
        PROVE  CheckedWithinLimits' /\ QuotesArePriced'
    <3>1. PICK new \in Preparation :
            /\ preparing[p].at = from /\ new.at = to
            /\ preparing' = [preparing EXCEPT ![p] = new]
      BY <1>0, <2>1, GotoMoves
    <3>2. new.at # "issue"
      BY <3>1
    <3>3. QED
      BY <2>1, <3>1, <3>2, PricesMove
  <2>2. CASE FindOffer(p)
    BY <2>1, <2>2 DEF FindOffer
  <2>3. CASE ValidateRefs(p)
    BY <2>1, <2>3 DEF ValidateRefs
  <2>4. CASE ServicePrepares(p)
    <3>1. PICK t \in Contracts : preparing' = [preparing EXCEPT ![p] = Priced(preparing[p], t)]
      BY <2>4 DEF ServicePrepares
    <3>2. preparing[p] \in Preparation
      BY <1>0 DEF QuotesTypeOK
    <3>3. Priced(preparing[p], t).at = "check"
      BY <3>2 DEF Priced
    <3>4. UNCHANGED quotes
      BY <2>4 DEF ServicePrepares
    <3>5. QED
      BY <3>1, <3>3, <3>4, PricesMove
  <2>5. CASE CheckContract(p)
    <3>1. /\ PrepareGoto(p, "check", "issue") /\ UNCHANGED quotes
          /\ WithinLimits(preparing[p].sent, preparing[p].contract)
      BY <2>5 DEF CheckContract, ContractAccepted
    <3>2. PICK new \in Preparation :
            /\ preparing' = [preparing EXCEPT ![p] = new]
            /\ new.sent = preparing[p].sent /\ new.contract = preparing[p].contract
      BY <1>0, <3>1, GotoMoves
    <3>3. QED
      BY <3>1, <3>2, PricesMove
  <2>6. CASE IssueQuote(p)
    BY <2>1, <2>6 DEF IssueQuote
  <2>7. CASE PrepareRefused(p)
    <3>1. PICK from \in {"offer", "refs", "service", "check", "issue"} :
            /\ PrepareGoto(p, from, "refused")
            /\ \/ UNCHANGED quotes
               \/ /\ from = "issue" /\ Issuable(p)
                  /\ quotes' = [quotes EXCEPT ![p] = Quote(p)]
      BY <2>7 DEF PrepareRefused
    <3>2. QED
      BY <2>1, <3>1
  <2>8. QED
    BY <1>5, <2>2, <2>3, <2>4, <2>5, <2>6, <2>7
<1>6. CASE UNCHANGED allVars
  BY <1>1, <1>6 DEF allVars, quoteVars
<1>7. QED
  BY <1>2, <1>3, <1>4, <1>5, <1>6 DEF QuotesNext, QuoteSteps

(* PriceInv is inductive.                                                  *)
LEMMA PriceInductive == QuotesSpec => []PriceInv
BY PricesInitially, PricesStep, PTL DEF QuotesSpec

(* The amounts of a stored quote can be compared.                          *)
LEMMA QuoteAmountsFit ==
  ASSUME AmountsFit, NEW r \in PrepareRequests, NEW t \in Contracts
  PROVE  /\ Fits(t.price) /\ Fits(t.ceiling)
         /\ Len(t.breakdown) \in Nat
         /\ \A i \in 1 .. Len(t.breakdown) : Fits(t.breakdown[i])
         /\ \A limit \in Limits(r) : Fits(limit)
<1>1. ASSUME NEW m \in Amount, m.scale <= Precision
      PROVE  Fits(m)
  BY <1>1 DEF Amount, Fits
<1>2. /\ t.price \in Amount /\ t.ceiling \in Amount /\ t.breakdown \in Seq(Amount)
  <2>1. t \in Contract
    BY QuoteConstants
  <2>2. QED
    BY <2>1 DEF Contract
<1>3. Len(t.breakdown) \in Nat /\ \A i \in 1 .. Len(t.breakdown) : t.breakdown[i] \in Amount
  BY <1>2
<1>4. NegotiationOf[r.offer].budget \subseteq Amount /\ r.offer \in Negotiations
      /\ r.maxPrice \subseteq Amount
  BY QuoteConstants DEF PrepareRequest
<1>5. /\ t.price.scale <= Precision /\ t.ceiling.scale <= Precision
      /\ \A i \in 1 .. Len(t.breakdown) : t.breakdown[i].scale <= Precision
  BY DEF AmountsFit
<1>6. \A limit \in Limits(r) : limit \in Amount /\ limit.scale <= Precision
  BY <1>4 DEF AmountsFit, Limits
<1>7. QED
  BY <1>1, <1>2, <1>3, <1>5, <1>6

(* validatePreparedContract and the handler compare the service's ceiling  *)
(* with the offer's budget and the caller's maximum, to the last digit and *)
(* at whatever scales the three are written.                               *)
THEOREM QuotesStayWithinBudgets ==
  ASSUME AmountsFit
  PROVE  QuotesSpec => []QuoteWithinBudget
<1>1. PriceInv => QuoteWithinBudget
  <2> SUFFICES ASSUME PriceInv, NEW p \in Prepares, quotes[p].stored
               PROVE  /\ Exact(quotes[p].price) <= Exact(quotes[p].ceiling)
                      /\ \A limit \in NegotiationOf[quotes[p].offer].budget
                                        \cup quotes[p].maxPrice :
                           /\ quotes[p].ceiling.currency = limit.currency
                           /\ Exact(quotes[p].ceiling) <= Exact(limit)
    BY DEF QuoteWithinBudget
  <2>1. PICK r \in PrepareRequests, t \in Contracts : PricedBy(quotes[p], r, t)
    BY DEF PriceInv, QuotesArePriced
  <2>2. AtMost(t.price, t.ceiling) /\ \A limit \in Limits(r) : AtMost(t.ceiling, limit)
    BY <2>1 DEF PricedBy, PricesValid, WithinLimits
  <2>3. Fits(t.price) /\ Fits(t.ceiling) /\ \A limit \in Limits(r) : Fits(limit)
    BY QuoteAmountsFit
  <2>4. Exact(t.price) <= Exact(t.ceiling)
    BY <2>2, <2>3, CompareIsExact
  <2>5. \A limit \in Limits(r) : t.ceiling.currency = limit.currency
                                 /\ Exact(t.ceiling) <= Exact(limit)
    BY <2>2, <2>3, CompareIsExact
  <2>6. QED
    BY <2>1, <2>4, <2>5 DEF PricedBy, Limits
<1>2. QED
  BY PriceInductive, <1>1, PTL

(* validatePriceComponents adds the components with AddMoney, which drops  *)
(* zeros but no value, however many there are and at whatever scales.      *)
THEOREM PricesAddUp ==
  ASSUME AmountsFit
  PROVE  QuotesSpec => []PriceIsTheSumOfItsParts
<1>1. PriceInv => PriceIsTheSumOfItsParts
  <2> SUFFICES ASSUME PriceInv, NEW p \in Prepares, quotes[p].stored,
                      quotes[p].breakdown # <<>>
               PROVE  ExactTotals(quotes[p].breakdown)[Len(quotes[p].breakdown)]
                        = Exact(quotes[p].price)
    BY DEF PriceIsTheSumOfItsParts
  <2>1. PICK r \in PrepareRequests, t \in Contracts : PricedBy(quotes[p], r, t)
    BY DEF PriceInv, QuotesArePriced
  <2>2. SumsTo(t.breakdown, t.price) /\ quotes[p].breakdown = t.breakdown
        /\ quotes[p].price = t.price
    BY <2>1 DEF PricedBy, PricesValid
  <2>3. /\ Fits(t.price) /\ Len(t.breakdown) \in Nat
        /\ \A i \in 1 .. Len(t.breakdown) : Fits(t.breakdown[i])
    BY QuoteAmountsFit
  <2>4. ExactTotals(t.breakdown)[Len(t.breakdown)] = Exact(t.price)
    BY <2>2, <2>3, SumIsExact
  <2>5. QED
    BY <2>2, <2>4
<1>2. QED
  BY PriceInductive, <1>1, PTL

=============================================================================
