----------------------------- MODULE Multipart -----------------------------
(***************************************************************************)
(* Multipart uploads and the staging files of their parts                  *)
(* (internal/db/multipart.go, and PutPart, CompleteMultipart and the       *)
(* staging and multipart sweeps of internal/cas): parts are put, replaced, *)
(* listed and assembled while uploads are aborted, completed, expired, and *)
(* dropped with their namespace.                                           *)
(*                                                                         *)
(* As in XorbStore, a transaction takes its locks one statement at a time  *)
(* and publishes its writes in its last step.  A lock is known from the    *)
(* step its holder is at, so it needs no variable.  Staging files are      *)
(* written and deleted at once.                                            *)
(***************************************************************************)
EXTENDS Naturals, FiniteSets

CONSTANTS
    Upload,     \* upload ids
    Part,       \* part numbers
    File,       \* staging keys
    Body,       \* what a part may hold, which its ETag tells apart
    Client,     \* requests
    Sweeper,    \* background loops
    MaxFaults,  \* jobs that fail, and staged files that rot (bounds the model)
    None        \* no row, no file, no body

\* Stored bytes that are not a part as it was put: a rotten one, or the
\* assembly of many.
Other == [other |-> TRUE]

ASSUME MultipartAssumption ==
    /\ Part \subseteq Nat \ {0}
    /\ Client \cap Sweeper = {}
    /\ None \notin Upload \cup File \cup Body \cup Client \cup {Other}
    /\ Other \notin Body
    /\ MaxFaults \in Nat

VARIABLES
    uploads,    \* the multipart_uploads table
    idle,       \* those with no activity inside the expiry window
    parts,      \* the multipart_parts table: a staging file and an ETag each
    files,      \* the backend's staging files: what each holds, or None
    object,     \* the object under the uploads' key: what each part of it holds
    req,        \* the requests
    job,        \* the background jobs
    acked,      \* the parts whose client heard that they were put as they are listed
    faults      \* faults so far

vars == <<uploads, idle, parts, files, object, req, job, acked, faults>>

NoPart == [file |-> None, etag |-> None]
NoParts == [n \in Part |-> NoPart]
NoObject == [n \in Part |-> None]

IdleRequest == [pc |-> "idle", upload |-> None, part |-> 0, file |-> None, body |-> None,
                replaced |-> None, list |-> NoParts, read |-> NoObject, trash |-> {}]
IdleJob == [pc |-> "idle", uploads |-> {}, file |-> None, trash |-> {}]

Init ==
    /\ uploads = {}
    /\ idle = {}
    /\ parts = [u \in Upload |-> NoParts]
    /\ files = [f \in File |-> None]
    /\ object = NoObject
    /\ req = [c \in Client |-> IdleRequest]
    /\ job = [g \in Sweeper |-> IdleJob]
    /\ acked = {}
    /\ faults = 0

----------------------------------------------------------------------------
(* What the tables and the locks say. *)

Rows(u) == {n \in Part : parts[u][n] # NoPart}
FilesOf(u) == {parts[u][n].file : n \in Rows(u)}
Listed(f) == \E u \in Upload : f \in FilesOf(u)

\* Part rows are locked by the request that replaces them (from its first
\* statement on) or inserts them, and by the one that removes their upload.
PartHolders(u, n) ==
    {c \in Client :
        /\ req[c].upload = u
        /\ \/ req[c].pc = "insert" /\ req[c].part = n /\ req[c].replaced # None
           \/ req[c].pc = "commitPart" /\ req[c].part = n
           \/ req[c].pc = "deleteUpload" /\ parts[u][n].file \in req[c].trash}

\* A new part's foreign key shares the upload's row with other new parts;
\* the multipart sweep holds the row alone.
Sharers(u) == {c \in Client : req[c].pc = "commitPart" /\ req[c].upload = u
                              /\ parts[u][req[c].part] = NoPart}
Expirers(u) == {g \in Sweeper : job[g].pc \in {"keys", "expire"} /\ u \in job[g].uploads}

\* Staging keys are UUIDs: a new one is named nowhere.
Fresh(f) ==
    /\ files[f] = None /\ ~Listed(f)
    /\ \A c \in Client : f \notin {req[c].file, req[c].replaced} \cup req[c].trash
                                    \cup {req[c].list[n].file : n \in Part}
    /\ \A g \in Sweeper : f # job[g].file /\ f \notin job[g].trash

\* The grace period outlasts a request from its staging file's last byte to
\* the transaction that records it: a file a request is about to record is
\* not old enough to be swept.
Old(f) == \A c \in Client : req[c].file # f

Goes(c, r) == req' = [req EXCEPT ![c] = r]
Works(g, j) == job' = [job EXCEPT ![g] = j]

----------------------------------------------------------------------------
(* Waiting. *)

\* Who a delete of the upload's row, and of the parts under it, waits for.
DropWaits(p, u) ==
    (Sharers(u) \cup Expirers(u) \cup UNION {PartHolders(u, n) : n \in Rows(u)}) \ {p}

\* Mutant of RequestWaitsOn: a part put again touches its upload's row too.
RequestTouchesUpload(c) ==
    LET r == req[c] IN
    CASE r.pc \in {"select", "insert"} -> (PartHolders(r.upload, r.part) \cup Expirers(r.upload)) \ {c}
      [] r.pc = "lockParts" -> UNION {PartHolders(r.upload, n) : n \in Rows(r.upload)}
      [] r.pc = "deleteUpload" -> DropWaits(c, r.upload)
      [] OTHER -> {}

\* Who holds what a request needs next: the part's row, or for a new one the
\* upload's; the part rows of an upload; or both.
RequestWaitsOn(c) ==
    LET r == req[c]
        row == r.upload # None /\ r.part # 0 /\ parts[r.upload][r.part] # NoPart
    IN CASE r.pc = "select" /\ row -> PartHolders(r.upload, r.part)
         [] r.pc = "insert" -> (PartHolders(r.upload, r.part) \ {c})
                                \cup (IF row THEN {} ELSE Expirers(r.upload))
         [] r.pc = "lockParts" -> UNION {PartHolders(r.upload, n) : n \in Rows(r.upload)}
         [] r.pc = "deleteUpload" -> DropWaits(c, r.upload)
         [] OTHER -> {}

JobWaitsOn(g) ==
    IF job[g].pc = "expire" THEN UNION {DropWaits(g, u) : u \in job[g].uploads} ELSE {}

WaitsOn(p) == IF p \in Client THEN RequestWaitsOn(p) ELSE JobWaitsOn(p)

\* Processes that all wait, each on another of them.
Deadlocked(S) ==
    /\ S # {}
    /\ \A p \in S : WaitsOn(p) # {}
    /\ UNION {WaitsOn(p) : p \in S} = S

----------------------------------------------------------------------------
(* Opening an upload, and putting a part. *)

CreateMultipart(u) ==
    /\ u \notin uploads
    /\ \A c \in Client : req[c].upload # u
    /\ uploads' = uploads \cup {u}
    /\ UNCHANGED <<idle, parts, files, object, req, job, acked, faults>>

\* GetMultipart finds the upload, and the body is staged.
StagePart(c, u, n, f, b) ==
    /\ req[c].pc = "idle"
    /\ u \in uploads
    /\ Fresh(f)
    /\ files' = [files EXCEPT ![f] = b]
    /\ Goes(c, [IdleRequest EXCEPT !.pc = "select", !.upload = u, !.part = n,
                                   !.file = f, !.body = b])
    /\ UNCHANGED <<uploads, idle, parts, object, job, acked, faults>>

\* The row of an earlier attempt is locked, and its file remembered.
SelectPart(c) ==
    LET r == req[c] IN
    /\ r.pc = "select"
    /\ RequestWaitsOn(c) = {}
    /\ Goes(c, [r EXCEPT !.pc = "insert", !.replaced = parts[r.upload][r.part].file])
    /\ UNCHANGED <<uploads, idle, parts, files, object, job, acked, faults>>

\* Mutant of InsertPart: the upload is not looked for again.
InsertPartUnchecked(c) ==
    LET r == req[c] IN
    /\ r.pc = "insert"
    /\ RequestWaitsOn(c) = {}
    /\ Goes(c, [r EXCEPT !.pc = "commitPart"])
    /\ UNCHANGED <<uploads, idle, parts, files, object, job, acked, faults>>

NewRow(r) == parts[r.upload][r.part] = NoPart

\* The upsert.  A new row needs its upload, whose row it shares.  A row that
\* came up since the select is updated, and its file forgotten.
InsertPart(c) ==
    LET r == req[c] IN
    /\ r.pc = "insert"
    /\ RequestWaitsOn(c) = {}
    /\ NewRow(r) => r.upload \in uploads
    /\ Goes(c, [r EXCEPT !.pc = "commitPart"])
    /\ UNCHANGED <<uploads, idle, parts, files, object, job, acked, faults>>

\* The upload of a new row is gone: the foreign key refuses it.
RefusePart(c) ==
    LET r == req[c] IN
    /\ r.pc = "insert"
    /\ RequestWaitsOn(c) = {}
    /\ NewRow(r) /\ r.upload \notin uploads
    /\ Goes(c, [IdleRequest EXCEPT !.pc = "discard", !.trash = {r.file}])
    /\ UNCHANGED <<uploads, idle, parts, files, object, job, acked, faults>>

\* What the commit of a part writes, whether or not its client hears of it.
RecordPart(c) ==
    LET r == req[c] IN
    /\ r.pc = "commitPart"
    /\ parts' = [parts EXCEPT ![r.upload][r.part] = [file |-> r.file, etag |-> r.body]]
    /\ idle' = idle \ {r.upload}
    /\ UNCHANGED <<uploads, files, object, job, faults>>

\* Mutant of CommitPart: the wrong file is discarded.
CommitPartDiscardsOwn(c) ==
    /\ RecordPart(c)
    /\ acked' = acked \cup {<<req[c].upload, req[c].part>>}
    /\ Goes(c, [IdleRequest EXCEPT !.pc = "discard",
                  !.trash = IF req[c].replaced = None THEN {} ELSE {req[c].file}])

\* The file the part replaced is discarded after the commit.
CommitPart(c) ==
    /\ RecordPart(c)
    /\ acked' = acked \cup {<<req[c].upload, req[c].part>>}
    /\ Goes(c, [IdleRequest EXCEPT !.pc = "discard", !.trash = {req[c].replaced} \ {None}])

\* The commit's answer is lost: the part is recorded, and PutPart takes the
\* error for a rollback and discards the file it staged.
LosePartAnswer(c) ==
    /\ RecordPart(c)
    /\ Goes(c, [IdleRequest EXCEPT !.pc = "discard", !.trash = {req[c].file}])
    /\ acked' = acked \ {<<req[c].upload, req[c].part>>}

\* The transaction fails, or is refused by the quota: it rolls back.
FailPart(c) ==
    /\ req[c].pc \in {"select", "insert", "commitPart"}
    /\ Goes(c, [IdleRequest EXCEPT !.pc = "discard", !.trash = {req[c].file}])
    /\ UNCHANGED <<uploads, idle, parts, files, object, job, acked, faults>>

\* DiscardStaging, whose failures are swallowed.
Discarded(f) == {files, [files EXCEPT ![f] = None]}

Discard(c) ==
    /\ req[c].pc = "discard"
    /\ \E f \in req[c].trash :
          /\ files' \in Discarded(f)
          /\ Goes(c, [req[c] EXCEPT !.trash = @ \ {f}])
    /\ UNCHANGED <<uploads, idle, parts, object, job, acked, faults>>

EndRequest(c) ==
    /\ req[c].pc = "discard"
    /\ req[c].trash = {}
    /\ Goes(c, IdleRequest)
    /\ UNCHANGED <<uploads, idle, parts, files, object, job, acked, faults>>

----------------------------------------------------------------------------
(* Completing an upload. *)

\* ListParts and ResolveManifest: the parts the client names, all of them
\* put.  A new staging file takes what is assembled.
StartComplete(c, u, named, f) ==
    /\ req[c].pc = "idle"
    /\ named # {} /\ named \subseteq Rows(u)
    /\ Fresh(f)
    /\ Goes(c, [IdleRequest EXCEPT !.pc = "assemble", !.upload = u, !.file = f,
                  !.list = [n \in Part |-> IF n \in named THEN parts[u][n] ELSE NoPart]])
    /\ UNCHANGED <<uploads, idle, parts, files, object, job, acked, faults>>

Unread(r) == {n \in Part : r.list[n] # NoPart /\ r.read[n] = None}

\* Mutant of Verified: what was staged is taken at its word.
VerifiedNever(row) == files[row.file] # None
\* A part is read whole, and has the digest its row gives.
Verified(row) == files[row.file] = row.etag

\* stageParts reads the parts in order ...
IsNext(r, n) == n \in Unread(r) /\ \A m \in Unread(r) : n <= m

AssemblePart(c) ==
    LET r == req[c] IN
    /\ r.pc = "assemble"
    /\ \E n \in Part :
          /\ IsNext(r, n)
          /\ Verified(r.list[n])
          /\ Goes(c, [r EXCEPT !.read[n] = files[r.list[n].file]])
    /\ UNCHANGED <<uploads, idle, parts, files, object, job, acked, faults>>

\* Mutant of RefuseAssembly: a part whose file is gone is waited for.
RefuseAssemblyOfDamaged(c) ==
    LET r == req[c] IN
    /\ r.pc = "assemble"
    /\ \E n \in Part :
          /\ IsNext(r, n)
          /\ ~Verified(r.list[n])
          /\ files[r.list[n].file] # None
    /\ Goes(c, [IdleRequest EXCEPT !.pc = "discard", !.trash = {r.file}])
    /\ files' = [files EXCEPT ![r.file] = Other]
    /\ UNCHANGED <<uploads, idle, parts, object, job, acked, faults>>

\* ... and gives up at one that is missing or is not what its row says.
RefuseAssembly(c) ==
    LET r == req[c] IN
    /\ r.pc = "assemble"
    /\ \E n \in Part : IsNext(r, n) /\ ~Verified(r.list[n])
    /\ Goes(c, [IdleRequest EXCEPT !.pc = "discard", !.trash = {r.file}])
    /\ files' = [files EXCEPT ![r.file] = Other]
    /\ UNCHANGED <<uploads, idle, parts, object, job, acked, faults>>

\* The assembled file is closed, and with that written.
FinishAssembly(c) ==
    /\ req[c].pc = "assemble"
    /\ Unread(req[c]) = {}
    /\ files' = [files EXCEPT ![req[c].file] = Other]
    /\ Goes(c, [req[c] EXCEPT !.pc = "commitObject"])
    /\ UNCHANGED <<uploads, idle, parts, object, job, acked, faults>>

\* The commit of XorbStore, of which only the end is seen here.
CommitObject(c) ==
    LET r == req[c] IN
    /\ r.pc = "commitObject"
    /\ r.upload # None
    /\ object' = r.read
    /\ Goes(c, [IdleRequest EXCEPT !.pc = "tidy", !.upload = r.upload, !.trash = {r.file}])
    /\ UNCHANGED <<uploads, idle, parts, files, job, acked, faults>>

\* The commit discards the assembled file.
DiscardAssembled(c) ==
    /\ req[c].pc = "tidy"
    /\ \E f \in req[c].trash : files' \in Discarded(f)
    /\ Goes(c, [req[c] EXCEPT !.pc = "lockParts", !.trash = {}])
    /\ UNCHANGED <<uploads, idle, parts, object, job, acked, faults>>

\* A commit that fails leaves the assembled file to the staging sweep, and the
\* object as it was, unless only its answer was lost.
FailObject(c) ==
    LET r == req[c] IN
    /\ r.pc = "commitObject"
    /\ object' \in {object} \cup (IF r.upload = None THEN {} ELSE {r.read})
    /\ Goes(c, IdleRequest)
    /\ UNCHANGED <<uploads, idle, parts, files, job, acked, faults>>

----------------------------------------------------------------------------
(* Removing an upload: the end of its completion, or its abort. *)

StartAbort(c, u) ==
    /\ req[c].pc = "idle"
    /\ u \in uploads
    /\ Goes(c, [IdleRequest EXCEPT !.pc = "lockParts", !.upload = u])
    /\ UNCHANGED <<uploads, idle, parts, files, object, job, acked, faults>>

\* RemoveMultipart locks the part rows and reads their files ...
LockParts(c) ==
    LET u == req[c].upload IN
    /\ req[c].pc = "lockParts"
    /\ RequestWaitsOn(c) = {}
    /\ Goes(c, [req[c] EXCEPT !.pc = "deleteUpload", !.trash = FilesOf(u)])
    /\ UNCHANGED <<uploads, idle, parts, files, object, job, acked, faults>>

\* The upload goes, and with it whatever parts it has by now.
Drop(us) ==
    /\ uploads' = uploads \ us
    /\ idle' = idle \ us
    /\ parts' = [u \in Upload |-> IF u \in us THEN NoParts ELSE parts[u]]
    /\ acked' = acked \ (us \X Part)

\* ... and deletes the upload, after which the files it read are discarded.
RemoveMultipart(c) ==
    /\ req[c].pc = "deleteUpload"
    /\ RequestWaitsOn(c) = {}
    /\ Drop({req[c].upload})
    /\ Goes(c, [IdleRequest EXCEPT !.pc = "discard", !.trash = req[c].trash])
    /\ UNCHANGED <<files, object, job, faults>>

\* The removal fails: a completed upload keeps its parts for the sweep.
FailRemove(c) ==
    /\ req[c].pc \in {"lockParts", "deleteUpload"}
    /\ Goes(c, IdleRequest)
    /\ UNCHANGED <<uploads, idle, parts, files, object, job, acked, faults>>

\* The process dies.
Crash(c) ==
    /\ req[c].pc # "idle"
    /\ Goes(c, IdleRequest)
    /\ UNCHANGED <<uploads, idle, parts, files, object, job, acked, faults>>

\* DeleteNamespace drops the namespace's uploads, and discards no file.  What
\* is being assembled can no longer be committed to it.
DeleteNamespace ==
    /\ object = NoObject
    /\ \A u \in uploads : DropWaits(None, u) = {}
    /\ Drop(uploads)
    /\ req' = [c \in Client |-> IF req[c].pc \in {"assemble", "commitObject"}
                                THEN [req[c] EXCEPT !.upload = None] ELSE req[c]]
    /\ UNCHANGED <<files, object, job, faults>>

DeleteObject ==
    /\ object' = NoObject
    /\ UNCHANGED <<uploads, idle, parts, files, req, job, acked, faults>>

----------------------------------------------------------------------------
(* The multipart sweep. *)

\* The expiry window passes with no activity.
Expire(u) ==
    /\ u \in uploads
    /\ idle' = idle \cup {u}
    /\ UNCHANGED <<uploads, parts, files, object, req, job, acked, faults>>

\* Mutant of PickUploads: only uploads that have parts are found.
PickUploadsWithParts(g) ==
    LET expired == {u \in uploads \cap idle : Rows(u) # {} /\ Sharers(u) \cup Expirers(u) = {}} IN
    /\ job[g].pc = "idle"
    /\ expired # {}
    /\ Works(g, [IdleJob EXCEPT !.pc = "keys", !.uploads = expired])
    /\ UNCHANGED <<uploads, idle, parts, files, object, req, acked, faults>>

\* Uploads found idle are locked, except those that are locked already.
PickUploads(g) ==
    LET expired == {u \in uploads \cap idle : Sharers(u) \cup Expirers(u) = {}} IN
    /\ job[g].pc = "idle"
    /\ expired # {}
    /\ Works(g, [IdleJob EXCEPT !.pc = "keys", !.uploads = expired])
    /\ UNCHANGED <<uploads, idle, parts, files, object, req, acked, faults>>

ReadKeys(g) ==
    /\ job[g].pc = "keys"
    /\ Works(g, [job[g] EXCEPT !.pc = "expire",
                    !.trash = UNION {FilesOf(u) : u \in job[g].uploads}])
    /\ UNCHANGED <<uploads, idle, parts, files, object, req, acked, faults>>

SweepMultipart(g) ==
    /\ job[g].pc = "expire"
    /\ JobWaitsOn(g) = {}
    /\ Drop(job[g].uploads)
    /\ Works(g, [IdleJob EXCEPT !.pc = "discard", !.trash = job[g].trash])
    /\ UNCHANGED <<files, object, req, faults>>

DiscardSwept(g) ==
    /\ job[g].pc = "discard"
    /\ \E f \in job[g].trash :
          /\ files' \in Discarded(f)
          /\ Works(g, [job[g] EXCEPT !.trash = @ \ {f}])
    /\ UNCHANGED <<uploads, idle, parts, object, req, acked, faults>>

AbandonJob(g) ==
    /\ Works(g, IdleJob)
    /\ UNCHANGED <<uploads, idle, parts, files, object, req, acked, faults>>

EndSweep(g) ==
    /\ job[g].pc = "discard"
    /\ job[g].trash = {}
    /\ AbandonJob(g)

----------------------------------------------------------------------------
(* The staging sweep. *)

PickFile(g, f) ==
    /\ job[g].pc = "idle"
    /\ files[f] # None
    /\ Old(f)
    /\ Works(g, [IdleJob EXCEPT !.pc = "check", !.file = f])
    /\ UNCHANGED <<uploads, idle, parts, files, object, req, acked, faults>>

\* Mutant of CheckFile: a file is as good as unlisted once its upload is idle.
CheckFileOfActive(g) ==
    LET listed == \E u \in uploads \ idle : job[g].file \in FilesOf(u) IN
    /\ job[g].pc = "check"
    /\ Works(g, IF listed THEN IdleJob ELSE [job[g] EXCEPT !.pc = "delete"])
    /\ UNCHANGED <<uploads, idle, parts, files, object, req, acked, faults>>

\* StagingKeyReferenced.
CheckFile(g) ==
    /\ job[g].pc = "check"
    /\ Works(g, IF Listed(job[g].file) THEN IdleJob ELSE [job[g] EXCEPT !.pc = "delete"])
    /\ UNCHANGED <<uploads, idle, parts, files, object, req, acked, faults>>

DeleteFile(g) ==
    /\ job[g].pc = "delete"
    /\ files' = [files EXCEPT ![job[g].file] = None]
    /\ Works(g, IdleJob)
    /\ UNCHANGED <<uploads, idle, parts, object, req, acked, faults>>

FailJob(g) ==
    /\ job[g].pc # "idle"
    /\ faults < MaxFaults
    /\ faults' = faults + 1
    /\ Works(g, IdleJob)
    /\ UNCHANGED <<uploads, idle, parts, files, object, req, acked>>

Rot(f) ==
    /\ files[f] \in Body
    /\ faults < MaxFaults
    /\ faults' = faults + 1
    /\ files' = [files EXCEPT ![f] = Other]
    /\ UNCHANGED <<uploads, idle, parts, object, req, job, acked>>

\* Postgres fails one of them.
Victim ==
    \E S \in SUBSET (Client \cup Sweeper) :
        /\ Deadlocked(S)
        /\ \/ \E c \in S \cap Client : FailPart(c) \/ FailRemove(c)
           \/ \E g \in S \cap Sweeper : AbandonJob(g)

----------------------------------------------------------------------------
Request(c) ==
    \/ \E u \in Upload :
          \/ StartAbort(c, u)
          \/ \E f \in File, n \in Part, b \in Body : StagePart(c, u, n, f, b)
          \/ \E f \in File, named \in SUBSET Part : StartComplete(c, u, named, f)

RequestStep(c) ==
    \/ SelectPart(c)
    \/ InsertPart(c)
    \/ RefusePart(c)
    \/ CommitPart(c)
    \/ Discard(c)
    \/ EndRequest(c)
    \/ AssemblePart(c)
    \/ RefuseAssembly(c)
    \/ FinishAssembly(c)
    \/ CommitObject(c)
    \/ DiscardAssembled(c)
    \/ LockParts(c)
    \/ RemoveMultipart(c)

Failure(c) == LosePartAnswer(c) \/ FailPart(c) \/ FailObject(c) \/ FailRemove(c) \/ Crash(c)

JobStep(g) ==
    \/ ReadKeys(g)
    \/ SweepMultipart(g)
    \/ DiscardSwept(g)
    \/ EndSweep(g)
    \/ CheckFile(g)
    \/ DeleteFile(g)

Next ==
    \/ \E c \in Client : Request(c) \/ RequestStep(c) \/ Failure(c)
    \/ \E g \in Sweeper :
          \/ PickUploads(g)
          \/ JobStep(g)
          \/ FailJob(g)
          \/ \E f \in File : PickFile(g, f)
    \/ \E u \in Upload : CreateMultipart(u) \/ Expire(u)
    \/ \E f \in File : Rot(f)
    \/ DeleteNamespace
    \/ DeleteObject
    \/ Victim

Spec == Init /\ [][Next]_vars

\* Requests and jobs run until they are done; Postgres grants locks in turn,
\* and ends deadlocks.  The sweeper loops forever, over every file and every
\* upload, and an upload left alone long enough is idle.  An upload may have
\* its removals fail for a while, not forever.
Fairness ==
    /\ \A c \in Client :
          /\ SF_vars(RequestStep(c))
          /\ WF_vars(FailObject(c))
          /\ <>[][~FailRemove(c)]_vars
    /\ WF_vars(Victim)
    /\ \A g \in Sweeper :
          /\ SF_vars(JobStep(g))
          /\ SF_vars(PickUploads(g))
          /\ \A f \in File : SF_vars(PickFile(g, f))
    /\ \A u \in Upload : WF_vars(Expire(u))

LiveSpec == Spec /\ Fairness

----------------------------------------------------------------------------
(* Properties. *)

PartRow == [file : File, etag : Body]
RequestState ==
    [pc : {"idle", "select", "insert", "commitPart", "discard", "assemble", "commitObject",
           "tidy", "lockParts", "deleteUpload"},
     upload : Upload \cup {None}, part : Part \cup {0}, file : File \cup {None},
     body : Body \cup {None}, replaced : File \cup {None},
     list : [Part -> PartRow \cup {NoPart}], read : [Part -> Body \cup {Other, None}],
     trash : SUBSET File]
JobState == [pc : {"idle", "keys", "expire", "discard", "check", "delete"},
             uploads : SUBSET Upload, file : File \cup {None}, trash : SUBSET File]

\* Types; and only an upload that is open, or being put a part, has parts.
TypeOK ==
    /\ uploads \subseteq Upload
    /\ idle \subseteq uploads
    /\ parts \in [Upload -> [Part -> PartRow \cup {NoPart}]]
    /\ \A u \in Upload \ uploads : Rows(u) = {}
    /\ files \in [File -> Body \cup {Other, None}]
    /\ object \in [Part -> Body \cup {Other, None}]
    /\ req \in [Client -> RequestState]
    /\ job \in [Sweeper -> JobState]
    /\ acked \subseteq {p \in Upload \X Part : p[2] \in Rows(p[1])}
    /\ faults \in 0..MaxFaults

\* A part its client was told is put has its staged bytes for as long as it
\* is listed, so a completion that names it finds it, whatever replaces,
\* removes, expires or sweeps other files, and whenever.
AckedPartsStored == \A p \in acked : files[parts[p[1]][p[2]].file] # None

\* An object is made only of parts as they were put, whatever happened to
\* their staging files before they were read or since.
ObjectsAreIntact == \A n \in Part : object[n] # Other

\* The only deadlock is between the removal of an upload, which locks the
\* parts and then the upload, and its expiry, which locks the upload first.
DeadlocksExpected ==
    \A S \in SUBSET (Client \cup Sweeper) : Deadlocked(S) =>
        /\ \E g \in S \cap Sweeper : job[g].pc = "expire"
        /\ \E c \in S \cap Client : req[c].pc = "deleteUpload"

\* Requests end.
RequestsEnd == \A c \in Client : req[c].pc # "idle" ~> req[c].pc = "idle"

\* An upload left idle is not kept forever, and no staged file that is
\* listed nowhere is, whoever failed to discard it.
StagingIsFreed ==
    /\ \A u \in Upload : []<>(u \notin idle)
    /\ \A f \in File : []<>(files[f] = None \/ Listed(f))
=============================================================================
