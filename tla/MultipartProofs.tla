-------------------------- MODULE MultipartProofs --------------------------
(***************************************************************************)
(* Proofs of Multipart: its types, that no part its client was told is put *)
(* loses its staged file, that no object is made of damaged parts, and     *)
(* that removals deadlock with expiries alone.                             *)
(*                                                                         *)
(* Each part of the invariant has a lemma of its own, which goes through   *)
(* the steps of the specification.                                         *)
(***************************************************************************)
EXTENDS MultipartInvariant, TLAPS

----------------------------------------------------------------------------
(* Types. *)

\* What requests and jobs are reset to has their types.
LEMMA IdleTyped == IdleRequest \in RequestState /\ IdleJob \in JobState
  BY DEF IdleRequest, IdleJob, RequestState, JobState, NoParts, NoObject

\* A request is updated to another.
LEMMA RequestUpdated ==
    ASSUME TypeOK, NEW c \in Client, NEW s \in RequestState, Goes(c, s)
    PROVE req' \in [Client -> RequestState]
  BY DEF TypeOK, Goes

\* The same of a job.
LEMMA JobUpdated ==
    ASSUME TypeOK, NEW g \in Sweeper, NEW j \in JobState, Works(g, j)
    PROVE job' \in [Sweeper -> JobState]
  BY DEF TypeOK, Works

\* A row names a file, and a missing row none.
LEMMA RowTyped ==
    ASSUME TypeOK, NEW u \in Upload, NEW n \in Part
    PROVE IF n \in Rows(u) THEN parts[u][n] \in PartRow ELSE parts[u][n] = NoPart
  BY DEF TypeOK, Rows

LEMMA FilesTyped == TypeOK => \A u \in Upload : FilesOf(u) \subseteq File
  BY RowTyped DEF FilesOf, PartRow, Rows

\* A drop leaves the tables well typed: part rows go with their upload.
LEMMA DropTyped ==
    ASSUME TypeOK, NEW us, Drop(us)
    PROVE /\ uploads' \subseteq Upload /\ idle' \subseteq uploads'
          /\ parts' \in [Upload -> [Part -> PartRow \cup {NoPart}]]
          /\ (\A u \in Upload \ uploads : Rows(u) = {})'
          /\ acked' \subseteq {p \in Upload \X Part : p[2] \in Rows(p[1])'}
  <1>1. NoParts \in [Part -> PartRow \cup {NoPart}]
    BY DEF NoParts
  <1>2. parts' \in [Upload -> [Part -> PartRow \cup {NoPart}]]
    BY <1>1 DEF TypeOK, Drop
  <1>3. \A u \in Upload \ us : Rows(u)' = Rows(u)
    BY DEF Drop, Rows
  <1>4. \A u \in us \cap Upload : Rows(u)' = {}
    BY DEF Drop, Rows, NoParts
  <1> QED
    BY <1>2, <1>3, <1>4 DEF TypeOK, Drop

\* So does the recording of a part, of an upload that is open.
LEMMA RecordTyped ==
    ASSUME IInv, NEW c \in Client, RecordPart(c), req' \in [Client -> RequestState],
           \/ acked' = acked \cup {<<req[c].upload, req[c].part>>}
           \/ acked' = acked \ {<<req[c].upload, req[c].part>>}
    PROVE TypeOK'
  <1> DEFINE r == req[c]
             row == [file |-> r.file, etag |-> r.body]
  <1>1. PICK u \in Upload, n \in Part : u = r.upload /\ n = r.part
    BY DEF IInv, RecordPart, Subjects
  <1>2. u \in uploads /\ row \in PartRow /\ row # NoPart
    BY <1>1, MultipartAssumption
    DEF IInv, TypeOK, RecordPart, Subjects, OpenWhileRecording, PartRow, NoPart
  <1>3. TypeOK /\ parts' = [parts EXCEPT ![u][n] = row]
    BY <1>1 DEF IInv, RecordPart
  <1> HIDE DEF row
  <1>4. parts' \in [Upload -> [Part -> PartRow \cup {NoPart}]]
    BY <1>2, <1>3 DEF TypeOK
  <1>5. \A v \in Upload \ {u} : Rows(v)' = Rows(v)
    BY <1>3 DEF TypeOK, Rows
  <1>6. Rows(u)' = Rows(u) \cup {n}
    BY <1>2, <1>3 DEF TypeOK, Rows
  <1>7. acked' \subseteq {p \in Upload \X Part : p[2] \in Rows(p[1])'}
    BY <1>1, <1>3, <1>5, <1>6 DEF TypeOK
  <1> QED
    BY <1>1, <1>2, <1>3, <1>4, <1>5, <1>7 DEF TypeOK, RecordPart

\* The types are kept by the start of a request ...
LEMMA RequestTyped ==
    ASSUME IInv, NEW c \in Client, Request(c)
    PROVE TypeOK'
  <1> USE IdleTyped DEF IInv
  <1>1. ASSUME NEW u \in Upload, StartAbort(c, u) PROVE TypeOK'
    <2>1. [IdleRequest EXCEPT !.pc = "lockParts", !.upload = u] \in RequestState
      BY DEF RequestState
    <2> QED
      BY <1>1, <2>1, RequestUpdated DEF TypeOK, StartAbort, Rows
  <1>2. ASSUME NEW u \in Upload, NEW f \in File, NEW n \in Part, NEW b \in Body,
               StagePart(c, u, n, f, b)
        PROVE TypeOK'
    <2>1. [IdleRequest EXCEPT !.pc = "select", !.upload = u, !.part = n,
                              !.file = f, !.body = b] \in RequestState
      BY DEF RequestState
    <2> QED
      BY <1>2, <2>1, RequestUpdated DEF TypeOK, StagePart, Rows
  <1>3. ASSUME NEW u \in Upload, NEW f \in File, NEW named \in SUBSET Part,
               StartComplete(c, u, named, f)
        PROVE TypeOK'
    <2> DEFINE list == [n \in Part |-> IF n \in named THEN parts[u][n] ELSE NoPart]
    <2>1. list \in [Part -> PartRow \cup {NoPart}]
      BY DEF TypeOK
    <2>2. [IdleRequest EXCEPT !.pc = "assemble", !.upload = u, !.file = f, !.list = list]
             \in RequestState
      BY <2>1 DEF RequestState
    <2> QED
      BY <1>3, <2>2, RequestUpdated DEF TypeOK, StartComplete, Rows
  <1> QED
    BY <1>1, <1>2, <1>3 DEF Request

\* ... by each of its steps ...
LEMMA RequestStepTyped ==
    ASSUME IInv, NEW c \in Client, RequestStep(c)
    PROVE TypeOK'
  <1> DEFINE r == req[c]
  <1> USE IdleTyped DEF IInv
  <1>0. r \in RequestState /\ TypeOK
    BY DEF TypeOK
  <1>1. CASE SelectPart(c)
    <2>1. r.upload \in Upload /\ r.part \in Part
      BY <1>1 DEF Subjects, SelectPart
    <2>2. parts[r.upload][r.part].file \in File \cup {None}
      BY <1>0, <2>1, RowTyped DEF PartRow, NoPart
    <2>3. [r EXCEPT !.pc = "insert", !.replaced = parts[r.upload][r.part].file] \in RequestState
      BY <1>0, <2>2 DEF RequestState
    <2> QED
      BY <1>0, <1>1, <2>3, RequestUpdated DEF TypeOK, SelectPart, Rows
  <1>2. CASE InsertPart(c)
    <2>1. [r EXCEPT !.pc = "commitPart"] \in RequestState
      BY <1>0 DEF RequestState
    <2> QED
      BY <1>0, <1>2, <2>1, RequestUpdated DEF TypeOK, InsertPart, Rows
  <1>3. CASE RefusePart(c)
    <2>1. r.file \in File
      BY <1>3 DEF Subjects, RefusePart
    <2>2. [IdleRequest EXCEPT !.pc = "discard", !.trash = {r.file}] \in RequestState
      BY <2>1 DEF RequestState
    <2> QED
      BY <1>0, <1>3, <2>2, RequestUpdated DEF TypeOK, RefusePart, Rows
  <1>4. CASE CommitPart(c)
    <2>1. [IdleRequest EXCEPT !.pc = "discard", !.trash = {r.replaced} \ {None}] \in RequestState
      BY <1>0 DEF RequestState
    <2>2. req' \in [Client -> RequestState]
      BY <1>0, <1>4, <2>1, RequestUpdated DEF CommitPart
    <2> QED
      BY <1>0, <1>4, <2>2, RecordTyped DEF CommitPart
  <1>5. CASE Discard(c)
    <2>1. PICK f \in r.trash : Goes(c, [r EXCEPT !.trash = @ \ {f}]) /\ files' \in Discarded(f)
      BY <1>5 DEF Discard
    <2>2. [r EXCEPT !.trash = @ \ {f}] \in RequestState
      BY <1>0 DEF RequestState
    <2> QED
      BY <1>0, <1>5, <2>1, <2>2, RequestUpdated DEF TypeOK, Discard, Discarded, Rows
  <1>6. CASE EndRequest(c)
    BY <1>0, <1>6, RequestUpdated DEF TypeOK, EndRequest, Rows
  <1>7. CASE AssemblePart(c)
    <2>1. PICK n \in Part : IsNext(r, n) /\ Goes(c, [r EXCEPT !.read[n] = files[r.list[n].file]])
      BY <1>7 DEF AssemblePart
    <2>2. r.list[n] \in PartRow
      BY <1>0, <2>1 DEF IsNext, Unread, RequestState
    <2>3. files[r.list[n].file] \in Body \cup {Other, None}
      BY <1>0, <2>2 DEF PartRow, TypeOK
    <2>4. [r EXCEPT !.read[n] = files[r.list[n].file]] \in RequestState
      BY <1>0, <2>3 DEF RequestState
    <2> QED
      BY <1>0, <1>7, <2>1, <2>4, RequestUpdated DEF TypeOK, AssemblePart, Rows
  <1>8. CASE RefuseAssembly(c)
    <2>1. r.file \in File
      BY <1>8 DEF Subjects, RefuseAssembly
    <2>2. [IdleRequest EXCEPT !.pc = "discard", !.trash = {r.file}] \in RequestState
      BY <2>1 DEF RequestState
    <2> QED
      BY <1>0, <1>8, <2>2, RequestUpdated DEF TypeOK, RefuseAssembly, Rows
  <1>9. CASE FinishAssembly(c)
    <2>1. [r EXCEPT !.pc = "commitObject"] \in RequestState
      BY <1>0 DEF RequestState
    <2> QED
      BY <1>0, <1>9, <2>1, RequestUpdated DEF TypeOK, FinishAssembly, Rows
  <1>10. CASE CommitObject(c)
    <2>1. r.file \in File
      BY <1>10 DEF Subjects, CommitObject
    <2>2. [IdleRequest EXCEPT !.pc = "tidy", !.upload = r.upload, !.trash = {r.file}] \in RequestState
      BY <1>0, <2>1 DEF RequestState
    <2>3. r.read \in [Part -> Body \cup {Other, None}]
      BY <1>0 DEF RequestState
    <2> QED
      BY <1>0, <1>10, <2>2, <2>3, RequestUpdated DEF TypeOK, CommitObject, Rows
  <1>11. CASE DiscardAssembled(c)
    <2>1. [r EXCEPT !.pc = "lockParts", !.trash = {}] \in RequestState
      BY <1>0 DEF RequestState
    <2> QED
      BY <1>0, <1>11, <2>1, RequestUpdated DEF TypeOK, DiscardAssembled, Discarded, Rows
  <1>12. CASE LockParts(c)
    <2>1. FilesOf(r.upload) \subseteq File
      BY <1>12, FilesTyped DEF Subjects, LockParts
    <2>2. [r EXCEPT !.pc = "deleteUpload", !.trash = FilesOf(r.upload)] \in RequestState
      BY <1>0, <2>1 DEF RequestState
    <2> QED
      BY <1>0, <1>12, <2>2, RequestUpdated DEF TypeOK, LockParts, Rows
  <1>13. CASE RemoveMultipart(c)
    <2>1. [IdleRequest EXCEPT !.pc = "discard", !.trash = r.trash] \in RequestState
      BY <1>0 DEF RequestState
    <2>2. req' \in [Client -> RequestState]
      BY <1>0, <1>13, <2>1, RequestUpdated DEF RemoveMultipart
    <2> QED
      BY <1>0, <1>13, <2>2, DropTyped DEF TypeOK, RemoveMultipart
  <1> QED
    BY <1>1, <1>2, <1>3, <1>4, <1>5, <1>6, <1>7, <1>8, <1>9, <1>10, <1>11, <1>12, <1>13
    DEF RequestStep

\* ... by its failures ...
LEMMA FailureTyped ==
    ASSUME IInv, NEW c \in Client, Failure(c)
    PROVE TypeOK'
  <1> DEFINE r == req[c]
             discard == [IdleRequest EXCEPT !.pc = "discard", !.trash = {r.file}]
  <1>0. r \in RequestState /\ TypeOK
    BY DEF IInv, TypeOK
  <1>1. r.pc \in {"select", "insert", "commitPart"} => discard \in RequestState
    BY IdleTyped DEF IInv, Subjects, RequestState
  <1>2. CASE LosePartAnswer(c)
    <2>1. req' \in [Client -> RequestState]
      BY <1>0, <1>1, <1>2, RequestUpdated DEF LosePartAnswer, RecordPart
    <2> QED
      BY <1>0, <1>2, <2>1, RecordTyped DEF LosePartAnswer
  <1>3. CASE FailPart(c)
    BY <1>0, <1>1, <1>3, RequestUpdated DEF TypeOK, FailPart, Rows
  <1>4. CASE FailObject(c)
    <2>1. r.read \in [Part -> Body \cup {Other, None}]
      BY <1>0 DEF RequestState
    <2> QED
      BY <1>0, <1>4, <2>1, IdleTyped, RequestUpdated DEF TypeOK, FailObject, Rows
  <1>5. CASE FailRemove(c) \/ Crash(c)
    BY <1>0, <1>5, IdleTyped, RequestUpdated DEF TypeOK, FailRemove, Crash, Rows
  <1> QED
    BY <1>2, <1>3, <1>4, <1>5 DEF Failure

\* ... by the background jobs ...
LEMMA JobTyped ==
    ASSUME IInv, NEW g \in Sweeper,
           \/ PickUploads(g) \/ JobStep(g) \/ FailJob(g) \/ AbandonJob(g)
           \/ \E f \in File : PickFile(g, f)
    PROVE TypeOK'
  <1> DEFINE j == job[g]
  <1> USE IdleTyped DEF IInv
  <1>0. j \in JobState /\ TypeOK
    BY DEF TypeOK
  <1>1. CASE PickUploads(g)
    <2>1. \A us \in SUBSET Upload : [IdleJob EXCEPT !.pc = "keys", !.uploads = us] \in JobState
      BY DEF JobState
    <2>2. uploads \subseteq Upload
      BY <1>0 DEF TypeOK
    <2> QED
      BY <1>0, <1>1, <2>1, <2>2, JobUpdated DEF TypeOK, PickUploads, Rows
  <1>2. CASE ReadKeys(g)
    <2>1. UNION {FilesOf(u) : u \in j.uploads} \subseteq File
      BY <1>0, FilesTyped DEF JobState
    <2>2. [j EXCEPT !.pc = "expire", !.trash = UNION {FilesOf(u) : u \in j.uploads}] \in JobState
      BY <1>0, <2>1 DEF JobState
    <2> QED
      BY <1>0, <1>2, <2>2, JobUpdated DEF TypeOK, ReadKeys, Rows
  <1>3. CASE SweepMultipart(g)
    <2>1. [IdleJob EXCEPT !.pc = "discard", !.trash = j.trash] \in JobState
      BY <1>0 DEF JobState
    <2>2. job' \in [Sweeper -> JobState]
      BY <1>0, <1>3, <2>1, JobUpdated DEF SweepMultipart
    <2> QED
      BY <1>0, <1>3, <2>2, DropTyped DEF TypeOK, SweepMultipart
  <1>4. CASE DiscardSwept(g)
    <2>1. PICK f \in j.trash : Works(g, [j EXCEPT !.trash = @ \ {f}]) /\ files' \in Discarded(f)
      BY <1>4 DEF DiscardSwept
    <2>2. [j EXCEPT !.trash = @ \ {f}] \in JobState
      BY <1>0 DEF JobState
    <2> QED
      BY <1>0, <1>4, <2>1, <2>2, JobUpdated DEF TypeOK, DiscardSwept, Discarded, Rows
  <1>5. CASE CheckFile(g)
    <2>1. [j EXCEPT !.pc = "delete"] \in JobState
      BY <1>0 DEF JobState
    <2> QED
      BY <1>0, <1>5, <2>1, JobUpdated DEF TypeOK, CheckFile, Rows
  <1>6. CASE AbandonJob(g) \/ DeleteFile(g)
    BY <1>0, <1>6, JobUpdated DEF TypeOK, AbandonJob, DeleteFile, Rows
  <1>7. CASE FailJob(g)
    BY <1>0, <1>7, JobUpdated, MultipartAssumption DEF TypeOK, FailJob, Rows
  <1>8. ASSUME NEW f \in File, PickFile(g, f) PROVE TypeOK'
    <2>1. [IdleJob EXCEPT !.pc = "check", !.file = f] \in JobState
      BY DEF JobState
    <2> QED
      BY <1>0, <1>8, <2>1, JobUpdated DEF TypeOK, PickFile, Rows
  <1> QED
    BY <1>1, <1>2, <1>3, <1>4, <1>5, <1>6, <1>7, <1>8 DEF JobStep, EndSweep

\* ... and by all else.
LEMMA RestTyped ==
    ASSUME IInv
    PROVE /\ \A u \in Upload : CreateMultipart(u) \/ Expire(u) => TypeOK'
          /\ \A f \in File : Rot(f) => TypeOK'
          /\ DeleteNamespace \/ DeleteObject => TypeOK'
          /\ UNCHANGED vars => TypeOK'
  <1> USE DEF IInv
  <1>1. ASSUME NEW u \in Upload, CreateMultipart(u) \/ Expire(u) PROVE TypeOK'
    BY <1>1 DEF TypeOK, CreateMultipart, Expire, Rows
  <1>2. ASSUME NEW f \in File, Rot(f) PROVE TypeOK'
    BY <1>2, MultipartAssumption DEF TypeOK, Rot, Rows
  <1>3. CASE DeleteNamespace
    <2>1. ASSUME NEW r \in RequestState PROVE [r EXCEPT !.upload = None] \in RequestState
      BY DEF RequestState
    <2>2. req' \in [Client -> RequestState]
      BY <1>3, <2>1 DEF TypeOK, DeleteNamespace
    <2> QED
      BY <1>3, <2>2, DropTyped DEF TypeOK, DeleteNamespace
  <1>4. CASE DeleteObject
    BY <1>4 DEF TypeOK, DeleteObject, NoObject, Rows
  <1>5. CASE UNCHANGED vars
    BY <1>5 DEF TypeOK, vars, Rows
  <1> QED
    BY <1>1, <1>2, <1>3, <1>4, <1>5

\* Every step keeps the types.
LEMMA TypeKept == ASSUME IInv, [Next]_vars PROVE TypeOK'
  <1>1. ASSUME NEW c \in Client, Request(c) \/ RequestStep(c) \/ Failure(c) PROVE TypeOK'
    BY <1>1, RequestTyped, RequestStepTyped, FailureTyped
  <1>2. CASE Victim
    <2>1. ASSUME NEW c \in Client, FailPart(c) \/ FailRemove(c) PROVE TypeOK'
      BY <2>1, FailureTyped DEF Failure
    <2>2. ASSUME NEW g \in Sweeper, AbandonJob(g) PROVE TypeOK'
      BY <2>2, JobTyped
    <2> QED
      BY <1>2, <2>1, <2>2 DEF Victim
  <1> QED
    BY <1>1, <1>2, JobTyped, RestTyped DEF Next

----------------------------------------------------------------------------
(***************************************************************************)
(* The steps of the specification.  Those that disturb the invariant in    *)
(* the same way are taken together, as what they have in common.           *)
(***************************************************************************)

\* A request resets to idle.
Resets(c) == Goes(c, IdleRequest) /\ UNCHANGED <<uploads, parts, files, job, acked>>

\* A request gives up, and goes to discard the file it staged.
GivesUp(c) ==
    /\ req[c].file \in File
    /\ Goes(c, [IdleRequest EXCEPT !.pc = "discard", !.trash = {req[c].file}])
    /\ \A f \in File : f # req[c].file => files'[f] = files[f]
    /\ UNCHANGED <<uploads, parts, job, acked>>

\* A job resets to idle, and may have deleted the file it found not listed.
JobResets(g) ==
    /\ Works(g, IdleJob)
    /\ \A f \in File : files'[f] = files[f] \/ (job[g].pc = "delete" /\ f = job[g].file)
    /\ UNCHANGED <<uploads, parts, req, acked>>

\* Nothing requests and jobs rely on is disturbed.
Undisturbed ==
    /\ UNCHANGED <<parts, req, job, acked>>
    /\ uploads \subseteq uploads'
    /\ \A f \in File : files[f] # None => files'[f] # None

RequestActs(c) ==
    \/ \E u \in Upload :
          \/ StartAbort(c, u)
          \/ \E f \in File :
                \/ \E n \in Part, b \in Body : StagePart(c, u, n, f, b)
                \/ \E named \in SUBSET Part : StartComplete(c, u, named, f)
    \/ SelectPart(c)
    \/ InsertPart(c)
    \/ CommitPart(c)
    \/ LosePartAnswer(c)
    \/ Discard(c)
    \/ AssemblePart(c)
    \/ FinishAssembly(c)
    \/ CommitObject(c)
    \/ DiscardAssembled(c)
    \/ LockParts(c)
    \/ RemoveMultipart(c)
    \/ GivesUp(c)
    \/ Resets(c)

JobActs(g) ==
    \/ PickUploads(g)
    \/ ReadKeys(g)
    \/ SweepMultipart(g)
    \/ DiscardSwept(g)
    \/ \E f \in File : PickFile(g, f)
    \/ CheckFile(g)
    \/ JobResets(g)

\* Every step is one of these.
LEMMA StepCases ==
    ASSUME IInv, [Next]_vars
    PROVE \/ \E c \in Client : RequestActs(c)
          \/ \E g \in Sweeper : JobActs(g)
          \/ DeleteNamespace
          \/ Undisturbed
  <1>1. ASSUME NEW c \in Client, RefusePart(c) \/ FailPart(c) \/ RefuseAssembly(c)
        PROVE GivesUp(c)
    <2>1. CASE RefusePart(c)
      BY <2>1 DEF RefusePart, GivesUp, IInv, Subjects
    <2>2. CASE FailPart(c)
      BY <2>2 DEF FailPart, GivesUp, IInv, Subjects
    <2>3. CASE RefuseAssembly(c)
      BY <2>3 DEF RefuseAssembly, GivesUp, IInv, Subjects, TypeOK
    <2> QED
      BY <1>1, <2>1, <2>2, <2>3
  <1>2. ASSUME NEW c \in Client, EndRequest(c) \/ FailObject(c) \/ FailRemove(c) \/ Crash(c)
        PROVE Resets(c)
    BY <1>2 DEF Resets, EndRequest, FailObject, FailRemove, Crash
  <1>3. ASSUME NEW c \in Client, Request(c) \/ RequestStep(c) \/ Failure(c) PROVE RequestActs(c)
    BY <1>1, <1>2, <1>3 DEF Request, RequestStep, Failure, RequestActs
  <1>4. ASSUME NEW g \in Sweeper, DeleteFile(g) \/ EndSweep(g) \/ FailJob(g) \/ AbandonJob(g)
        PROVE JobResets(g)
    <2>1. CASE DeleteFile(g)
      BY <2>1 DEF DeleteFile, JobResets, IInv, TypeOK
    <2>2. CASE EndSweep(g) \/ FailJob(g) \/ AbandonJob(g)
      BY <2>2 DEF EndSweep, FailJob, AbandonJob, JobResets
    <2> QED
      BY <1>4, <2>1, <2>2
  <1>5. ASSUME NEW g \in Sweeper,
               PickUploads(g) \/ JobStep(g) \/ FailJob(g) \/ \E f \in File : PickFile(g, f)
        PROVE JobActs(g)
    BY <1>4, <1>5 DEF JobStep, JobActs
  <1>6. CASE Victim
    BY <1>3, <1>4, <1>6 DEF Victim, Failure, JobActs
  <1>7. ASSUME NEW f \in File, Rot(f) PROVE Undisturbed
    <2>1. \A g \in File : files[g] # None => files'[g] # None
      BY <1>7, MultipartAssumption DEF Rot, IInv, TypeOK
    <2> QED
      BY <1>7, <2>1 DEF Rot, Undisturbed
  <1>8. ASSUME NEW u \in Upload, CreateMultipart(u) \/ Expire(u) PROVE Undisturbed
    BY <1>8 DEF CreateMultipart, Expire, Undisturbed
  <1>9. CASE DeleteObject \/ UNCHANGED vars
    BY <1>9 DEF DeleteObject, vars, Undisturbed
  <1> QED
    BY <1>3, <1>5, <1>6, <1>7, <1>8, <1>9 DEF Next

\* What a drop waits for keeps it from the upload of a part that is being
\* recorded, and of one whose row is held to be replaced.
Spares(us) ==
    \A c \in Client :
        req[c].pc = "commitPart" \/ (req[c].pc = "insert" /\ req[c].replaced # None) =>
            req[c].upload \notin us

LEMMA DropWaitsSpare ==
    ASSUME IInv, NEW p, NEW u \in Upload, DropWaits(p, u) = {}, NEW c \in Client, c # p,
           req[c].pc = "commitPart" \/ (req[c].pc = "insert" /\ req[c].replaced # None)
    PROVE req[c].upload # u
  <1>1. c \notin Sharers(u) /\ \A n \in Rows(u) : c \notin PartHolders(u, n)
    BY DEF DropWaits
  <1> QED
    BY <1>1 DEF IInv, Subjects, ReplacedIsListed, Sharers, PartHolders, Rows

LEMMA DropsSpare ==
    ASSUME IInv
    PROVE /\ \A c \in Client : RemoveMultipart(c) => Spares({req[c].upload})
          /\ \A g \in Sweeper : SweepMultipart(g) => Spares(job[g].uploads)
          /\ DeleteNamespace => Spares(uploads)
  <1>1. ASSUME NEW c \in Client, RemoveMultipart(c) PROVE Spares({req[c].upload})
    <2>1. req[c].upload \in Upload /\ DropWaits(c, req[c].upload) = {} /\ req[c].pc = "deleteUpload"
      BY <1>1 DEF RemoveMultipart, RequestWaitsOn, IInv, Subjects
    <2> QED
      BY <2>1, DropWaitsSpare DEF Spares
  <1>2. ASSUME NEW g \in Sweeper, SweepMultipart(g) PROVE Spares(job[g].uploads)
    <2>1. job[g].uploads \subseteq Upload /\ \A u \in job[g].uploads : DropWaits(g, u) = {}
      BY <1>2 DEF SweepMultipart, JobWaitsOn, IInv, TypeOK, JobState
    <2> QED
      BY <2>1, DropWaitsSpare, MultipartAssumption DEF Spares
  <1>3. ASSUME DeleteNamespace PROVE Spares(uploads)
    <2>1. uploads \subseteq Upload /\ \A u \in uploads : DropWaits(None, u) = {}
      BY <1>3 DEF DeleteNamespace, IInv, TypeOK
    <2>2. None \notin Client
      BY MultipartAssumption
    <2> QED
      BY <2>1, <2>2, DropWaitsSpare DEF Spares
  <1> QED
    BY <1>1, <1>2, <1>3

\* A drop leaves nothing of the uploads it drops.
LEMMA DropForgets ==
    ASSUME TypeOK, NEW us, Drop(us)
    PROVE \A f :
            /\ \A u \in Upload : f \in FilesOf(u)' => u \notin us /\ f \in FilesOf(u)
            /\ Acked(f)' => Acked(f) /\ \E u \in Upload \ us : f \in FilesOf(u)
  <1> SUFFICES ASSUME NEW f
               PROVE /\ \A u \in Upload : f \in FilesOf(u)' => u \notin us /\ f \in FilesOf(u)
                     /\ Acked(f)' => Acked(f) /\ \E u \in Upload \ us : f \in FilesOf(u)
    OBVIOUS
  <1>1. ASSUME NEW u \in Upload, f \in FilesOf(u)' PROVE u \notin us /\ f \in FilesOf(u)
    BY <1>1 DEF Drop, FilesOf, Rows, NoParts
  <1>2. ASSUME Acked(f)' PROVE Acked(f) /\ \E u \in Upload \ us : f \in FilesOf(u)
    <2>1. PICK p \in acked' : parts'[p[1]][p[2]].file = f
      BY <1>2 DEF Acked
    <2>2. p \in acked /\ p[1] \in Upload /\ p[2] \in Rows(p[1]) /\ p \notin us \X Part
      BY <2>1 DEF Drop, TypeOK
    <2>3. p[1] \notin us
      BY <2>2 DEF TypeOK
    <2>4. parts[p[1]][p[2]].file = f
      BY <2>1, <2>2, <2>3 DEF Drop
    <2> QED
      BY <2>2, <2>3, <2>4 DEF Acked, FilesOf
  <1> QED
    BY <1>1, <1>2

\* Acknowledged parts stay stored when only files that hold none are deleted.
LEMMA AckedStay ==
    ASSUME IInv, UNCHANGED <<parts, acked>>,
           \A f \in File : files'[f] = files[f] \/ ~Acked(f)
    PROVE AckedPartsStored'
  <1> SUFFICES ASSUME NEW p \in acked PROVE files'[parts[p[1]][p[2]].file] # None
    BY DEF AckedPartsStored
  <1>1. parts[p[1]][p[2]].file \in File
    BY DEF IInv, TypeOK, Rows, PartRow
  <1> QED
    BY <1>1 DEF IInv, AckedPartsStored, Acked

\* Recording a part lists its file, and no other.
LEMMA RecordLists ==
    ASSUME IInv, NEW c \in Client, RecordPart(c),
           acked' \subseteq acked \cup {<<req[c].upload, req[c].part>>}
    PROVE \A f : /\ Listed(f)' => Listed(f) \/ f = req[c].file
                 /\ Acked(f)' => Acked(f) \/ f = req[c].file
                 /\ \A u \in Upload : f \in FilesOf(u)' => f \in FilesOf(u) \/ f = req[c].file
  <1> DEFINE r == req[c]
  <1>1. /\ r.upload \in Upload /\ r.part \in Part
        /\ parts' = [parts EXCEPT ![r.upload][r.part] = [file |-> r.file, etag |-> r.body]]
    BY DEF RecordPart, IInv, Subjects
  <1>2. ASSUME NEW u \in Upload, NEW n \in Part, <<u, n>> # <<r.upload, r.part>>
        PROVE parts'[u][n] = parts[u][n]
    BY <1>1, <1>2 DEF IInv, TypeOK
  <1>3. parts'[r.upload][r.part].file = r.file
    BY <1>1 DEF IInv, TypeOK
  <1> SUFFICES ASSUME NEW f, f # r.file
               PROVE /\ Listed(f)' => Listed(f)
                     /\ Acked(f)' => Acked(f)
                     /\ \A u \in Upload : f \in FilesOf(u)' => f \in FilesOf(u)
    OBVIOUS
  <1>4. \A u \in Upload : f \in FilesOf(u)' => f \in FilesOf(u)
    BY <1>2, <1>3 DEF FilesOf, Rows
  <1>5. ASSUME NEW p \in acked', parts'[p[1]][p[2]].file = f
        PROVE p \in acked /\ parts[p[1]][p[2]].file = f
    BY <1>2, <1>3, <1>5 DEF IInv, TypeOK
  <1> QED
    BY <1>4, <1>5 DEF Listed, Acked

\* Recording a part changes its own row only, to a file no other row names.
LEMMA RecordKeepsRows ==
    ASSUME IInv, NEW c \in Client, RecordPart(c)
    PROVE RowsNameOwnFiles'
  <1> DEFINE r == req[c]
  <1>1. /\ r.upload \in Upload /\ r.part \in Part /\ ~Listed(r.file)
        /\ parts' = [parts EXCEPT ![r.upload][r.part] = [file |-> r.file, etag |-> r.body]]
    BY MultipartAssumption DEF RecordPart, IInv, Subjects, StagedFilesArePrivate
  <1>2. ASSUME NEW u \in Upload, NEW n \in Rows(u)'
        PROVE \/ u = r.upload /\ n = r.part /\ parts'[u][n].file = r.file
              \/ n \in Rows(u) /\ parts'[u][n] = parts[u][n] /\ parts'[u][n].file # r.file
    BY <1>1, <1>2 DEF IInv, TypeOK, Rows, Listed, FilesOf
  <1> QED
    BY <1>2 DEF IInv, RowsNameOwnFiles

\* Requests and jobs go on knowing what they are about: the steps that leave a
\* subject behind go where none is needed.
LEMMA SubjectsKept == ASSUME IInv, [Next]_vars PROVE Subjects'
  <1> USE MultipartAssumption
      DEF IInv, TypeOK, RequestState, JobState, PartRow, NoPart, IdleRequest, IdleJob, Goes, Works, Subjects, NoObject
  <1>1. ASSUME NEW c \in Client, NEW u \in Upload, NEW f \in File, NEW n \in Part,
               NEW b \in Body, StagePart(c, u, n, f, b)
        PROVE Subjects'
    BY <1>1 DEF StagePart, Fresh
  <1>2. ASSUME NEW c \in Client, NEW u \in Upload, NEW f \in File,
               NEW named \in SUBSET Part, StartComplete(c, u, named, f)
        PROVE Subjects'
    BY <1>2 DEF StartComplete, Fresh
  <1>3. ASSUME NEW c \in Client, NEW u \in Upload, StartAbort(c, u) PROVE Subjects'
    BY <1>3 DEF StartAbort
  <1>4. ASSUME NEW c \in Client, SelectPart(c) PROVE Subjects'
    BY <1>4 DEF SelectPart, RequestWaitsOn, PartHolders
  <1>5. ASSUME NEW c \in Client, InsertPart(c) PROVE Subjects'
    BY <1>5 DEF InsertPart, NewRow, RequestWaitsOn, PartHolders, Rows
  <1>6. ASSUME NEW c \in Client, CommitPart(c) PROVE Subjects'
    BY <1>6 DEF CommitPart, RecordPart
  <1>7. ASSUME NEW c \in Client, LosePartAnswer(c) PROVE Subjects'
    BY <1>7 DEF LosePartAnswer, RecordPart
  <1>8. ASSUME NEW c \in Client, Discard(c) PROVE Subjects'
    BY <1>8 DEF Discard, Discarded
  <1>9. ASSUME NEW c \in Client, CommitObject(c) PROVE Subjects'
    BY <1>9 DEF CommitObject
  <1>10. ASSUME NEW c \in Client, DiscardAssembled(c) PROVE Subjects'
    BY <1>10 DEF DiscardAssembled, Discarded
  <1>11. ASSUME NEW c \in Client, LockParts(c) PROVE Subjects'
    BY <1>11 DEF LockParts
  <1>12. ASSUME NEW c \in Client, RemoveMultipart(c) PROVE Subjects'
    BY <1>12 DEF RemoveMultipart, Drop, Rows, NoParts
  <1>13. ASSUME NEW c \in Client, Resets(c) PROVE Subjects'
    BY <1>13 DEF Resets
  <1>14. ASSUME NEW c \in Client, GivesUp(c) PROVE Subjects'
    BY <1>14 DEF GivesUp
  <1>15. ASSUME NEW c \in Client, AssemblePart(c) PROVE Subjects'
    BY <1>15 DEF AssemblePart, IsNext, Unread, Verified
  <1>16. ASSUME NEW c \in Client, FinishAssembly(c) PROVE Subjects'
    BY <1>16 DEF FinishAssembly
  <1>17. ASSUME NEW g \in Sweeper, PickUploads(g) PROVE Subjects'
    BY <1>17 DEF PickUploads
  <1>18. ASSUME NEW g \in Sweeper, ReadKeys(g) PROVE Subjects'
    BY <1>18 DEF ReadKeys, FilesOf, Rows
  <1>19. ASSUME NEW g \in Sweeper, SweepMultipart(g) PROVE Subjects'
    BY <1>19 DEF SweepMultipart, Drop, Rows, NoParts
  <1>20. ASSUME NEW g \in Sweeper, DiscardSwept(g) PROVE Subjects'
    BY <1>20 DEF DiscardSwept, Discarded
  <1>21. ASSUME NEW g \in Sweeper, NEW f \in File, PickFile(g, f) PROVE Subjects'
    BY <1>21 DEF PickFile, Old
  <1>22. ASSUME NEW g \in Sweeper, CheckFile(g) PROVE Subjects'
    BY <1>22 DEF CheckFile
  <1>23. ASSUME NEW g \in Sweeper, JobResets(g) PROVE Subjects'
    BY <1>23 DEF JobResets
  <1>24. ASSUME DeleteNamespace PROVE Subjects'
    BY <1>24 DEF DeleteNamespace, Drop, Rows, NoParts
  <1>25. ASSUME Undisturbed PROVE Subjects'
    BY <1>25 DEF Undisturbed
  <1> QED
    BY <1>1, <1>2, <1>3, <1>4, <1>5, <1>6, <1>7, <1>8, <1>9, <1>10, <1>11, <1>12, <1>13, <1>14, <1>15, <1>16, <1>17, <1>18, <1>19, <1>20, <1>21, <1>22, <1>23, <1>24, <1>25, StepCases DEF RequestActs, JobActs

\* A staged file stays its request's own: it is fresh when it is staged, old
\* when a job picks it, and no longer its request's once a row names it.
LEMMA StagedFilesArePrivateKept == ASSUME IInv, [Next]_vars PROVE StagedFilesArePrivate'
  <1> USE MultipartAssumption
      DEF IInv, TypeOK, RequestState, JobState, PartRow, NoPart, IdleRequest, IdleJob, Goes, Works, StagedFilesArePrivate, Subjects, Listed, FilesOf, Rows
  <1>1. ASSUME NEW c \in Client, NEW u \in Upload, NEW f \in File, NEW n \in Part,
               NEW b \in Body, StagePart(c, u, n, f, b)
        PROVE StagedFilesArePrivate'
    BY <1>1 DEF StagePart, Fresh
  <1>2. ASSUME NEW c \in Client, NEW u \in Upload, NEW f \in File,
               NEW named \in SUBSET Part, StartComplete(c, u, named, f)
        PROVE StagedFilesArePrivate'
    BY <1>2 DEF StartComplete, Fresh
  <1>3. ASSUME NEW c \in Client, NEW u \in Upload, StartAbort(c, u) PROVE StagedFilesArePrivate'
    BY <1>3 DEF StartAbort
  <1>4. ASSUME NEW c \in Client, SelectPart(c) PROVE StagedFilesArePrivate'
    BY <1>4 DEF SelectPart
  <1>5. ASSUME NEW c \in Client, InsertPart(c) PROVE StagedFilesArePrivate'
    BY <1>5 DEF InsertPart, NewRow, RequestWaitsOn, PartHolders
  <1>6. ASSUME NEW c \in Client, CommitPart(c) PROVE StagedFilesArePrivate'
    <2> DEFINE r == req[c]
    <2>1. r.pc = "commitPart" /\ r.file # None /\ RecordPart(c) /\ UNCHANGED job
      BY <1>6 DEF CommitPart, RecordPart
    <2>2. \A f : Listed(f)' => Listed(f) \/ f = r.file
      <3> HIDE DEF Listed, FilesOf, Rows, TypeOK, Subjects, StagedFilesArePrivate
      <3> QED
        BY <1>6, <2>1, RecordLists DEF CommitPart
    <2>3. req'[c].file = None /\ \A d \in Client : d # c => req'[d] = req[d]
      BY <1>6 DEF CommitPart
    <2>4. \A d \in Client : d # c /\ req[d].file # None => req[d].file \notin req'[c].trash
      BY <1>6, <2>1 DEF CommitPart, ReplacedIsListed
    <2> HIDE DEF Listed, FilesOf, Rows, TypeOK, Subjects
    <2> QED
      BY <2>1, <2>2, <2>3, <2>4 DEF IInv
  <1>7. ASSUME NEW c \in Client, LosePartAnswer(c) PROVE StagedFilesArePrivate'
    <2> DEFINE r == req[c]
    <2>1. r.pc = "commitPart" /\ r.file # None /\ RecordPart(c) /\ UNCHANGED job
      BY <1>7 DEF LosePartAnswer, RecordPart
    <2>2. \A f : Listed(f)' => Listed(f) \/ f = r.file
      <3> HIDE DEF Listed, FilesOf, Rows, TypeOK, Subjects, StagedFilesArePrivate
      <3> QED
        BY <1>7, <2>1, RecordLists DEF LosePartAnswer
    <2>3. req'[c].file = None /\ \A d \in Client : d # c => req'[d] = req[d]
      BY <1>7 DEF LosePartAnswer
    <2>4. \A d \in Client : d # c /\ req[d].file # None => req[d].file \notin req'[c].trash
      BY <1>7, <2>1 DEF LosePartAnswer
    <2> HIDE DEF Listed, FilesOf, Rows, TypeOK, Subjects
    <2> QED
      BY <2>1, <2>2, <2>3, <2>4 DEF IInv
  <1>8. ASSUME NEW c \in Client, Discard(c) PROVE StagedFilesArePrivate'
    BY <1>8 DEF Discard, Discarded
  <1>9. ASSUME NEW c \in Client, CommitObject(c) PROVE StagedFilesArePrivate'
    BY <1>9 DEF CommitObject
  <1>10. ASSUME NEW c \in Client, DiscardAssembled(c) PROVE StagedFilesArePrivate'
    BY <1>10 DEF DiscardAssembled, Discarded
  <1>11. ASSUME NEW c \in Client, LockParts(c) PROVE StagedFilesArePrivate'
    <2>1. /\ \A d \in Client : req'[d].file = req[d].file
          /\ \A d \in Client \ {c} : req'[d].trash = req[d].trash
          /\ \A f \in req'[c].trash : Listed(f)
          /\ UNCHANGED <<parts, job>>
      BY <1>11 DEF LockParts
    <2>2. \A f : Listed(f)' = Listed(f)
      BY <2>1
    <2> HIDE DEF Listed, FilesOf, Rows, TypeOK, Subjects
    <2> QED
      BY <2>1, <2>2 DEF IInv
  <1>12. ASSUME NEW c \in Client, RemoveMultipart(c) PROVE StagedFilesArePrivate'
    BY <1>12 DEF RemoveMultipart, Drop, NoParts
  <1>13. ASSUME NEW c \in Client, Resets(c) PROVE StagedFilesArePrivate'
    BY <1>13 DEF Resets
  <1>14. ASSUME NEW c \in Client, GivesUp(c) PROVE StagedFilesArePrivate'
    BY <1>14 DEF GivesUp
  <1>15. ASSUME NEW c \in Client, AssemblePart(c) PROVE StagedFilesArePrivate'
    BY <1>15 DEF AssemblePart, IsNext, Unread, Verified
  <1>16. ASSUME NEW c \in Client, FinishAssembly(c) PROVE StagedFilesArePrivate'
    BY <1>16 DEF FinishAssembly
  <1>17. ASSUME NEW g \in Sweeper, PickUploads(g) PROVE StagedFilesArePrivate'
    BY <1>17 DEF PickUploads
  <1>18. ASSUME NEW g \in Sweeper, ReadKeys(g) PROVE StagedFilesArePrivate'
    BY <1>18 DEF ReadKeys
  <1>19. ASSUME NEW g \in Sweeper, SweepMultipart(g) PROVE StagedFilesArePrivate'
    BY <1>19 DEF SweepMultipart, Drop, NoParts
  <1>20. ASSUME NEW g \in Sweeper, DiscardSwept(g) PROVE StagedFilesArePrivate'
    BY <1>20 DEF DiscardSwept, Discarded
  <1>21. ASSUME NEW g \in Sweeper, NEW f \in File, PickFile(g, f) PROVE StagedFilesArePrivate'
    BY <1>21 DEF PickFile, Old
  <1>22. ASSUME NEW g \in Sweeper, CheckFile(g) PROVE StagedFilesArePrivate'
    BY <1>22 DEF CheckFile
  <1>23. ASSUME NEW g \in Sweeper, JobResets(g) PROVE StagedFilesArePrivate'
    BY <1>23 DEF JobResets
  <1>24. ASSUME DeleteNamespace PROVE StagedFilesArePrivate'
    BY <1>24 DEF DeleteNamespace, Drop, NoParts
  <1>25. ASSUME Undisturbed PROVE StagedFilesArePrivate'
    BY <1>25 DEF Undisturbed
  <1> QED
    BY <1>1, <1>2, <1>3, <1>4, <1>5, <1>6, <1>7, <1>8, <1>9, <1>10, <1>11, <1>12, <1>13, <1>14, <1>15, <1>16, <1>17, <1>18, <1>19, <1>20, <1>21, <1>22, <1>23, <1>24, <1>25, StepCases DEF RequestActs, JobActs

\* Only files that are about to be discarded, or that no row names, are deleted.
LEMMA StagedFilesAreStoredKept == ASSUME IInv, [Next]_vars PROVE StagedFilesAreStored'
  <1> USE MultipartAssumption
      DEF IInv, TypeOK, RequestState, JobState, PartRow, NoPart, IdleRequest, IdleJob, Goes, Works, StagedFilesAreStored, StagedFilesArePrivate, Subjects
  <1>1. ASSUME NEW c \in Client, NEW u \in Upload, NEW f \in File, NEW n \in Part,
               NEW b \in Body, StagePart(c, u, n, f, b)
        PROVE StagedFilesAreStored'
    BY <1>1 DEF StagePart, Fresh
  <1>2. ASSUME NEW c \in Client, NEW u \in Upload, NEW f \in File,
               NEW named \in SUBSET Part, StartComplete(c, u, named, f)
        PROVE StagedFilesAreStored'
    BY <1>2 DEF StartComplete, Fresh
  <1>3. ASSUME NEW c \in Client, NEW u \in Upload, StartAbort(c, u) PROVE StagedFilesAreStored'
    BY <1>3 DEF StartAbort
  <1>4. ASSUME NEW c \in Client, SelectPart(c) PROVE StagedFilesAreStored'
    BY <1>4 DEF SelectPart, RequestWaitsOn, PartHolders
  <1>5. ASSUME NEW c \in Client, InsertPart(c) PROVE StagedFilesAreStored'
    BY <1>5 DEF InsertPart, NewRow, RequestWaitsOn, PartHolders, Rows
  <1>6. ASSUME NEW c \in Client, CommitPart(c) PROVE StagedFilesAreStored'
    BY <1>6 DEF CommitPart, RecordPart
  <1>7. ASSUME NEW c \in Client, LosePartAnswer(c) PROVE StagedFilesAreStored'
    BY <1>7 DEF LosePartAnswer, RecordPart
  <1>8. ASSUME NEW c \in Client, Discard(c) PROVE StagedFilesAreStored'
    BY <1>8 DEF Discard, Discarded
  <1>9. ASSUME NEW c \in Client, CommitObject(c) PROVE StagedFilesAreStored'
    BY <1>9 DEF CommitObject
  <1>10. ASSUME NEW c \in Client, DiscardAssembled(c) PROVE StagedFilesAreStored'
    <2>1. \A d \in Client : req[d].file \in File => files'[req[d].file] = files[req[d].file]
      <3>1. PICK f \in req[c].trash : files' \in Discarded(f)
        BY <1>10 DEF DiscardAssembled
      <3>2. \A d \in Client : req[d].file \in File => req[d].file # f
        BY <3>1
      <3> QED
        BY <3>1, <3>2 DEF Discarded
    <2>2. \A d \in Client : req'[d].pc \in {"select", "insert", "commitPart"} => req'[d] = req[d]
      BY <1>10 DEF DiscardAssembled
    <2> QED
      BY <2>1, <2>2
  <1>11. ASSUME NEW c \in Client, LockParts(c) PROVE StagedFilesAreStored'
    BY <1>11 DEF LockParts
  <1>12. ASSUME NEW c \in Client, RemoveMultipart(c) PROVE StagedFilesAreStored'
    BY <1>12 DEF RemoveMultipart, Drop, Rows, NoParts
  <1>13. ASSUME NEW c \in Client, Resets(c) PROVE StagedFilesAreStored'
    BY <1>13 DEF Resets
  <1>14. ASSUME NEW c \in Client, GivesUp(c) PROVE StagedFilesAreStored'
    BY <1>14 DEF GivesUp
  <1>15. ASSUME NEW c \in Client, AssemblePart(c) PROVE StagedFilesAreStored'
    BY <1>15 DEF AssemblePart, IsNext, Unread, Verified
  <1>16. ASSUME NEW c \in Client, FinishAssembly(c) PROVE StagedFilesAreStored'
    BY <1>16 DEF FinishAssembly
  <1>17. ASSUME NEW g \in Sweeper, PickUploads(g) PROVE StagedFilesAreStored'
    BY <1>17 DEF PickUploads
  <1>18. ASSUME NEW g \in Sweeper, ReadKeys(g) PROVE StagedFilesAreStored'
    BY <1>18 DEF ReadKeys, FilesOf, Rows
  <1>19. ASSUME NEW g \in Sweeper, SweepMultipart(g) PROVE StagedFilesAreStored'
    BY <1>19 DEF SweepMultipart, Drop, Rows, NoParts
  <1>20. ASSUME NEW g \in Sweeper, DiscardSwept(g) PROVE StagedFilesAreStored'
    <2>1. PICK f \in job[g].trash : files' \in Discarded(f)
      BY <1>20 DEF DiscardSwept
    <2>2. \A d \in Client : req[d].file # f
      BY <2>1 DEF RequestState
    <2>3. \A h \in File : h # f => files'[h] = files[h]
      BY <2>1 DEF Discarded
    <2>4. req' = req
      BY <1>20 DEF DiscardSwept
    <2> HIDE DEF TypeOK, StagedFilesArePrivate
    <2> QED
      BY <2>2, <2>3, <2>4 DEF IInv
  <1>21. ASSUME NEW g \in Sweeper, NEW f \in File, PickFile(g, f) PROVE StagedFilesAreStored'
    BY <1>21 DEF PickFile, Old
  <1>22. ASSUME NEW g \in Sweeper, CheckFile(g) PROVE StagedFilesAreStored'
    BY <1>22 DEF CheckFile
  <1>23. ASSUME NEW g \in Sweeper, JobResets(g) PROVE StagedFilesAreStored'
    BY <1>23 DEF JobResets
  <1>24. ASSUME DeleteNamespace PROVE StagedFilesAreStored'
    BY <1>24 DEF DeleteNamespace, Drop, Rows, NoParts
  <1>25. ASSUME Undisturbed PROVE StagedFilesAreStored'
    BY <1>25 DEF Undisturbed
  <1> QED
    BY <1>1, <1>2, <1>3, <1>4, <1>5, <1>6, <1>7, <1>8, <1>9, <1>10, <1>11, <1>12, <1>13, <1>14, <1>15, <1>16, <1>17, <1>18, <1>19, <1>20, <1>21, <1>22, <1>23, <1>24, <1>25, StepCases DEF RequestActs, JobActs

\* A row is taken only from nobody: each step that takes one waits for its
\* holder.
LEMMA RowsHaveOneHolderKept == ASSUME IInv, [Next]_vars PROVE RowsHaveOneHolder'
  <1> USE MultipartAssumption
      DEF IInv, TypeOK, RequestState, JobState, PartRow, NoPart, IdleRequest, IdleJob, Goes, Works, RowsHaveOneHolder, PartHolders, StagedFilesArePrivate, Subjects, Rows
  <1>1. ASSUME NEW c \in Client, NEW u \in Upload, NEW f \in File, NEW n \in Part,
               NEW b \in Body, StagePart(c, u, n, f, b)
        PROVE RowsHaveOneHolder'
    BY <1>1 DEF StagePart, Fresh
  <1>2. ASSUME NEW c \in Client, NEW u \in Upload, NEW f \in File,
               NEW named \in SUBSET Part, StartComplete(c, u, named, f)
        PROVE RowsHaveOneHolder'
    BY <1>2 DEF StartComplete, Fresh
  <1>3. ASSUME NEW c \in Client, NEW u \in Upload, StartAbort(c, u) PROVE RowsHaveOneHolder'
    BY <1>3 DEF StartAbort
  <1>4. ASSUME NEW c \in Client, SelectPart(c) PROVE RowsHaveOneHolder'
    <2> DEFINE r == req[c]
    <2>1. r.upload \in Upload /\ r.part \in Part /\ r.pc = "select"
      BY <1>4 DEF SelectPart
    <2>2. parts[r.upload][r.part] # NoPart => PartHolders(r.upload, r.part) = {}
      <3> HIDE DEF PartHolders
      <3> QED
        BY <1>4, <2>1 DEF SelectPart, RequestWaitsOn
    <2>3. ASSUME NEW u \in Upload, NEW n \in Part, NEW d \in PartHolders(u, n)'
          PROVE d \in PartHolders(u, n)
                \/ (d = c /\ u = r.upload /\ n = r.part /\ parts[u][n] # NoPart)
      <3>1. CASE d = c
        BY <1>4, <2>3, <3>1 DEF SelectPart
      <3>2. CASE d # c
        BY <1>4, <2>3, <3>2 DEF SelectPart
      <3> QED
        BY <3>1, <3>2
    <2> HIDE DEF PartHolders
    <2> QED
      <3> HIDE DEF TypeOK, Subjects, StagedFilesArePrivate, Listed, Rows
      <3> SUFFICES ASSUME NEW u \in Upload, NEW n \in Part,
                          NEW d \in PartHolders(u, n)', NEW e \in PartHolders(u, n)'
                   PROVE d = e
        OBVIOUS
      <3>1. \A h, i \in PartHolders(u, n) : h = i
        BY DEF IInv, RowsHaveOneHolder
      <3> QED
        BY <2>2, <2>3, <3>1
  <1>5. ASSUME NEW c \in Client, InsertPart(c) PROVE RowsHaveOneHolder'
    <2> DEFINE r == req[c]
    <2>1. \A h \in PartHolders(r.upload, r.part) : h = c
      <3> HIDE DEF PartHolders
      <3> QED
        BY <1>5 DEF InsertPart, RequestWaitsOn
    <2>2. ASSUME NEW u \in Upload, NEW n \in Part, NEW d \in PartHolders(u, n)'
          PROVE d \in PartHolders(u, n) \/ (d = c /\ u = r.upload /\ n = r.part)
      <3>1. CASE d = c
        BY <1>5, <2>2, <3>1 DEF InsertPart
      <3>2. CASE d # c
        BY <1>5, <2>2, <3>2 DEF InsertPart
      <3> QED
        BY <3>1, <3>2
    <2> HIDE DEF PartHolders
    <2> QED
      <3> HIDE DEF TypeOK, Subjects, StagedFilesArePrivate, Listed, Rows
      <3> SUFFICES ASSUME NEW u \in Upload, NEW n \in Part,
                          NEW d \in PartHolders(u, n)', NEW e \in PartHolders(u, n)'
                   PROVE d = e
        OBVIOUS
      <3>1. \A h, i \in PartHolders(u, n) : h = i
        BY DEF IInv, RowsHaveOneHolder
      <3> QED
        BY <2>1, <2>2, <3>1
  <1>6. ASSUME NEW c \in Client, CommitPart(c) PROVE RowsHaveOneHolder'
    BY <1>6 DEF CommitPart, RecordPart
  <1>7. ASSUME NEW c \in Client, LosePartAnswer(c) PROVE RowsHaveOneHolder'
    <2>1. ASSUME NEW u \in Upload, NEW n \in Part, NEW d \in PartHolders(u, n)'
          PROVE d \in PartHolders(u, n)
      <3>1. d # c
        <4>1. req'[c].pc = "discard" /\ d \in Client
          BY <1>7, <2>1 DEF LosePartAnswer, RecordPart
        <4> QED
          BY <2>1, <4>1
      <3>2. CASE u = req[c].upload /\ n = req[c].part
        <4>1. parts'[u][n].file = req[c].file
          BY <1>7, <3>2 DEF LosePartAnswer, RecordPart
        <4>2. d \in Client /\ req'[d] = req[d]
          BY <1>7, <2>1, <3>1 DEF LosePartAnswer
        <4>3. req[c].file # None
          BY <1>7 DEF LosePartAnswer, RecordPart
        <4>4. req[c].file \notin req[d].trash
          <5> HIDE DEF TypeOK, Subjects, Listed, RowsHaveOneHolder
          <5> QED
            BY <4>2, <4>3
        <4> QED
          BY <2>1, <4>1, <4>2, <4>4
      <3>3. CASE ~(u = req[c].upload /\ n = req[c].part)
        BY <1>7, <2>1, <3>1, <3>3 DEF LosePartAnswer, RecordPart
      <3> QED
        BY <3>2, <3>3
    <2> HIDE DEF PartHolders
    <2> QED
      BY <2>1 DEF IInv, RowsHaveOneHolder
  <1>8. ASSUME NEW c \in Client, Discard(c) PROVE RowsHaveOneHolder'
    BY <1>8 DEF Discard, Discarded
  <1>9. ASSUME NEW c \in Client, CommitObject(c) PROVE RowsHaveOneHolder'
    BY <1>9 DEF CommitObject
  <1>10. ASSUME NEW c \in Client, DiscardAssembled(c) PROVE RowsHaveOneHolder'
    BY <1>10 DEF DiscardAssembled, Discarded
  <1>11. ASSUME NEW c \in Client, LockParts(c) PROVE RowsHaveOneHolder'
    <2> DEFINE v == req[c].upload
    <2>1. \A n \in Rows(v) : PartHolders(v, n) = {}
      <3> HIDE DEF PartHolders, Rows
      <3> QED
        BY <1>11 DEF LockParts, RequestWaitsOn
    <2>2. ASSUME NEW u \in Upload, NEW n \in Part, NEW d \in PartHolders(u, n)'
          PROVE d \in PartHolders(u, n) \/ (d = c /\ u = v /\ n \in Rows(v))
      <3>1. CASE d = c
        <4>1. u = v /\ parts[u][n].file \in FilesOf(v)
          BY <1>11, <2>2, <3>1 DEF LockParts
        <4>2. parts[u][n].file # None
          BY <4>1 DEF FilesOf
        <4> QED
          BY <3>1, <4>1, <4>2
      <3>2. CASE d # c
        BY <1>11, <2>2, <3>2 DEF LockParts
      <3> QED
        BY <3>1, <3>2
    <2> HIDE DEF PartHolders, Rows
    <2> QED
      <3> HIDE DEF TypeOK, Subjects, StagedFilesArePrivate, Listed, Rows
      <3> SUFFICES ASSUME NEW u \in Upload, NEW n \in Part,
                          NEW d \in PartHolders(u, n)', NEW e \in PartHolders(u, n)'
                   PROVE d = e
        OBVIOUS
      <3>1. \A h, i \in PartHolders(u, n) : h = i
        BY DEF IInv, RowsHaveOneHolder
      <3> QED
        BY <2>1, <2>2, <3>1
  <1>12. ASSUME NEW c \in Client, RemoveMultipart(c) PROVE RowsHaveOneHolder'
    BY <1>12 DEF RemoveMultipart, Drop, NoParts
  <1>13. ASSUME NEW c \in Client, Resets(c) PROVE RowsHaveOneHolder'
    BY <1>13 DEF Resets
  <1>14. ASSUME NEW c \in Client, GivesUp(c) PROVE RowsHaveOneHolder'
    BY <1>14 DEF GivesUp
  <1>15. ASSUME NEW c \in Client, AssemblePart(c) PROVE RowsHaveOneHolder'
    BY <1>15 DEF AssemblePart, IsNext, Unread, Verified
  <1>16. ASSUME NEW c \in Client, FinishAssembly(c) PROVE RowsHaveOneHolder'
    BY <1>16 DEF FinishAssembly
  <1>17. ASSUME NEW g \in Sweeper, PickUploads(g) PROVE RowsHaveOneHolder'
    BY <1>17 DEF PickUploads
  <1>18. ASSUME NEW g \in Sweeper, ReadKeys(g) PROVE RowsHaveOneHolder'
    BY <1>18 DEF ReadKeys, FilesOf
  <1>19. ASSUME NEW g \in Sweeper, SweepMultipart(g) PROVE RowsHaveOneHolder'
    BY <1>19 DEF SweepMultipart, Drop, NoParts
  <1>20. ASSUME NEW g \in Sweeper, DiscardSwept(g) PROVE RowsHaveOneHolder'
    BY <1>20 DEF DiscardSwept, Discarded
  <1>21. ASSUME NEW g \in Sweeper, NEW f \in File, PickFile(g, f) PROVE RowsHaveOneHolder'
    BY <1>21 DEF PickFile, Old
  <1>22. ASSUME NEW g \in Sweeper, CheckFile(g) PROVE RowsHaveOneHolder'
    BY <1>22 DEF CheckFile
  <1>23. ASSUME NEW g \in Sweeper, JobResets(g) PROVE RowsHaveOneHolder'
    <2>1. \A u \in Upload, n \in Part : PartHolders(u, n)' = PartHolders(u, n)
      BY <1>23 DEF JobResets
    <2> HIDE DEF PartHolders
    <2> QED
      BY <2>1 DEF IInv, RowsHaveOneHolder
  <1>24. ASSUME DeleteNamespace PROVE RowsHaveOneHolder'
    BY <1>24 DEF DeleteNamespace, Drop, NoParts
  <1>25. ASSUME Undisturbed PROVE RowsHaveOneHolder'
    BY <1>25 DEF Undisturbed
  <1> QED
    BY <1>1, <1>2, <1>3, <1>4, <1>5, <1>6, <1>7, <1>8, <1>9, <1>10, <1>11, <1>12, <1>13, <1>14, <1>15, <1>16, <1>17, <1>18, <1>19, <1>20, <1>21, <1>22, <1>23, <1>24, <1>25, StepCases DEF RequestActs, JobActs

\* A held row is changed by its holder only.
LEMMA ReplacedIsListedKept == ASSUME IInv, [Next]_vars PROVE ReplacedIsListed'
  <1> USE MultipartAssumption
      DEF IInv, TypeOK, RequestState, JobState, PartRow, NoPart, IdleRequest, IdleJob, Goes, Works, ReplacedIsListed, Rows, RowsHaveOneHolder, PartHolders, Subjects
  <1>1. ASSUME NEW c \in Client, NEW u \in Upload, NEW f \in File, NEW n \in Part,
               NEW b \in Body, StagePart(c, u, n, f, b)
        PROVE ReplacedIsListed'
    BY <1>1 DEF StagePart, Fresh
  <1>2. ASSUME NEW c \in Client, NEW u \in Upload, NEW f \in File,
               NEW named \in SUBSET Part, StartComplete(c, u, named, f)
        PROVE ReplacedIsListed'
    BY <1>2 DEF StartComplete, Fresh
  <1>3. ASSUME NEW c \in Client, NEW u \in Upload, StartAbort(c, u) PROVE ReplacedIsListed'
    BY <1>3 DEF StartAbort
  <1>4. ASSUME NEW c \in Client, SelectPart(c) PROVE ReplacedIsListed'
    BY <1>4 DEF SelectPart
  <1>5. ASSUME NEW c \in Client, InsertPart(c) PROVE ReplacedIsListed'
    BY <1>5 DEF InsertPart, NewRow, RequestWaitsOn
  <1>6. ASSUME NEW c \in Client, CommitPart(c) PROVE ReplacedIsListed'
    BY <1>6 DEF CommitPart, RecordPart
  <1>7. ASSUME NEW c \in Client, LosePartAnswer(c) PROVE ReplacedIsListed'
    BY <1>7 DEF LosePartAnswer, RecordPart
  <1>8. ASSUME NEW c \in Client, Discard(c) PROVE ReplacedIsListed'
    BY <1>8 DEF Discard, Discarded
  <1>9. ASSUME NEW c \in Client, CommitObject(c) PROVE ReplacedIsListed'
    BY <1>9 DEF CommitObject
  <1>10. ASSUME NEW c \in Client, DiscardAssembled(c) PROVE ReplacedIsListed'
    BY <1>10 DEF DiscardAssembled, Discarded
  <1>11. ASSUME NEW c \in Client, LockParts(c) PROVE ReplacedIsListed'
    BY <1>11 DEF LockParts, RequestWaitsOn, FilesOf
  <1>12. ASSUME NEW c \in Client, RemoveMultipart(c) PROVE ReplacedIsListed'
    <2> DEFINE v == req[c].upload
    <2>1. Spares({v})
      BY <1>12, DropsSpare
    <2>2. \A u \in Upload \ {v} : parts'[u] = parts[u]
      BY <1>12 DEF RemoveMultipart, Drop
    <2>3. req'[c].pc = "discard" /\ \A d \in Client : d # c => req'[d] = req[d]
      BY <1>12 DEF RemoveMultipart
    <2> HIDE DEF TypeOK, RowsHaveOneHolder
    <2> QED
      BY <2>1, <2>2, <2>3 DEF IInv, Spares
  <1>13. ASSUME NEW c \in Client, Resets(c) PROVE ReplacedIsListed'
    BY <1>13 DEF Resets
  <1>14. ASSUME NEW c \in Client, GivesUp(c) PROVE ReplacedIsListed'
    BY <1>14 DEF GivesUp
  <1>15. ASSUME NEW c \in Client, AssemblePart(c) PROVE ReplacedIsListed'
    BY <1>15 DEF AssemblePart, IsNext, Unread, Verified
  <1>16. ASSUME NEW c \in Client, FinishAssembly(c) PROVE ReplacedIsListed'
    BY <1>16 DEF FinishAssembly
  <1>17. ASSUME NEW g \in Sweeper, PickUploads(g) PROVE ReplacedIsListed'
    BY <1>17 DEF PickUploads
  <1>18. ASSUME NEW g \in Sweeper, ReadKeys(g) PROVE ReplacedIsListed'
    BY <1>18 DEF ReadKeys, FilesOf
  <1>19. ASSUME NEW g \in Sweeper, SweepMultipart(g) PROVE ReplacedIsListed'
    BY <1>19, DropsSpare DEF SweepMultipart, Drop, NoParts, Spares
  <1>20. ASSUME NEW g \in Sweeper, DiscardSwept(g) PROVE ReplacedIsListed'
    BY <1>20 DEF DiscardSwept, Discarded
  <1>21. ASSUME NEW g \in Sweeper, NEW f \in File, PickFile(g, f) PROVE ReplacedIsListed'
    BY <1>21 DEF PickFile, Old
  <1>22. ASSUME NEW g \in Sweeper, CheckFile(g) PROVE ReplacedIsListed'
    BY <1>22 DEF CheckFile
  <1>23. ASSUME NEW g \in Sweeper, JobResets(g) PROVE ReplacedIsListed'
    BY <1>23 DEF JobResets
  <1>24. ASSUME DeleteNamespace PROVE ReplacedIsListed'
    BY <1>24, DropsSpare DEF DeleteNamespace, Drop, NoParts, Spares
  <1>25. ASSUME Undisturbed PROVE ReplacedIsListed'
    BY <1>25 DEF Undisturbed
  <1> QED
    BY <1>1, <1>2, <1>3, <1>4, <1>5, <1>6, <1>7, <1>8, <1>9, <1>10, <1>11, <1>12, <1>13, <1>14, <1>15, <1>16, <1>17, <1>18, <1>19, <1>20, <1>21, <1>22, <1>23, <1>24, <1>25, StepCases DEF RequestActs, JobActs

\* A drop waits for the parts that are being recorded.
LEMMA OpenWhileRecordingKept == ASSUME IInv, [Next]_vars PROVE OpenWhileRecording'
  <1> USE MultipartAssumption
      DEF IInv, TypeOK, RequestState, JobState, PartRow, NoPart, IdleRequest, IdleJob, Goes, Works, OpenWhileRecording
  <1>1. ASSUME NEW c \in Client, NEW u \in Upload, NEW f \in File, NEW n \in Part,
               NEW b \in Body, StagePart(c, u, n, f, b)
        PROVE OpenWhileRecording'
    BY <1>1 DEF StagePart, Fresh
  <1>2. ASSUME NEW c \in Client, NEW u \in Upload, NEW f \in File,
               NEW named \in SUBSET Part, StartComplete(c, u, named, f)
        PROVE OpenWhileRecording'
    BY <1>2 DEF StartComplete, Fresh
  <1>3. ASSUME NEW c \in Client, NEW u \in Upload, StartAbort(c, u) PROVE OpenWhileRecording'
    BY <1>3 DEF StartAbort
  <1>4. ASSUME NEW c \in Client, SelectPart(c) PROVE OpenWhileRecording'
    BY <1>4 DEF SelectPart, RequestWaitsOn, PartHolders
  <1>5. ASSUME NEW c \in Client, InsertPart(c) PROVE OpenWhileRecording'
    BY <1>5 DEF InsertPart, NewRow, Subjects, Rows
  <1>6. ASSUME NEW c \in Client, CommitPart(c) PROVE OpenWhileRecording'
    BY <1>6 DEF CommitPart, RecordPart
  <1>7. ASSUME NEW c \in Client, LosePartAnswer(c) PROVE OpenWhileRecording'
    BY <1>7 DEF LosePartAnswer, RecordPart
  <1>8. ASSUME NEW c \in Client, Discard(c) PROVE OpenWhileRecording'
    BY <1>8 DEF Discard, Discarded
  <1>9. ASSUME NEW c \in Client, CommitObject(c) PROVE OpenWhileRecording'
    BY <1>9 DEF CommitObject
  <1>10. ASSUME NEW c \in Client, DiscardAssembled(c) PROVE OpenWhileRecording'
    BY <1>10 DEF DiscardAssembled, Discarded
  <1>11. ASSUME NEW c \in Client, LockParts(c) PROVE OpenWhileRecording'
    BY <1>11 DEF LockParts
  <1>12. ASSUME NEW c \in Client, RemoveMultipart(c) PROVE OpenWhileRecording'
    BY <1>12, DropsSpare DEF RemoveMultipart, Drop, Rows, NoParts, Spares
  <1>13. ASSUME NEW c \in Client, Resets(c) PROVE OpenWhileRecording'
    BY <1>13 DEF Resets
  <1>14. ASSUME NEW c \in Client, GivesUp(c) PROVE OpenWhileRecording'
    BY <1>14 DEF GivesUp
  <1>15. ASSUME NEW c \in Client, AssemblePart(c) PROVE OpenWhileRecording'
    BY <1>15 DEF AssemblePart, IsNext, Unread, Verified
  <1>16. ASSUME NEW c \in Client, FinishAssembly(c) PROVE OpenWhileRecording'
    BY <1>16 DEF FinishAssembly
  <1>17. ASSUME NEW g \in Sweeper, PickUploads(g) PROVE OpenWhileRecording'
    BY <1>17 DEF PickUploads
  <1>18. ASSUME NEW g \in Sweeper, ReadKeys(g) PROVE OpenWhileRecording'
    BY <1>18 DEF ReadKeys, FilesOf, Rows
  <1>19. ASSUME NEW g \in Sweeper, SweepMultipart(g) PROVE OpenWhileRecording'
    BY <1>19, DropsSpare DEF SweepMultipart, Drop, Rows, NoParts, Spares
  <1>20. ASSUME NEW g \in Sweeper, DiscardSwept(g) PROVE OpenWhileRecording'
    BY <1>20 DEF DiscardSwept, Discarded
  <1>21. ASSUME NEW g \in Sweeper, NEW f \in File, PickFile(g, f) PROVE OpenWhileRecording'
    BY <1>21 DEF PickFile, Old
  <1>22. ASSUME NEW g \in Sweeper, CheckFile(g) PROVE OpenWhileRecording'
    BY <1>22 DEF CheckFile
  <1>23. ASSUME NEW g \in Sweeper, JobResets(g) PROVE OpenWhileRecording'
    BY <1>23 DEF JobResets
  <1>24. ASSUME DeleteNamespace PROVE OpenWhileRecording'
    BY <1>24, DropsSpare DEF DeleteNamespace, Drop, Rows, NoParts, Spares
  <1>25. ASSUME Undisturbed PROVE OpenWhileRecording'
    BY <1>25 DEF Undisturbed
  <1> QED
    BY <1>1, <1>2, <1>3, <1>4, <1>5, <1>6, <1>7, <1>8, <1>9, <1>10, <1>11, <1>12, <1>13, <1>14, <1>15, <1>16, <1>17, <1>18, <1>19, <1>20, <1>21, <1>22, <1>23, <1>24, <1>25, StepCases DEF RequestActs, JobActs

\* A request that reads the files of an upload holds its rows until it deletes
\* them.
LEMMA RequestTrashKept == ASSUME IInv, [Next]_vars PROVE RequestTrash'
  <1> USE MultipartAssumption
      DEF IInv, TypeOK, RequestState, JobState, PartRow, NoPart, IdleRequest, IdleJob, Goes, Works, RequestTrash, Acked, Listed, FilesOf, Rows, StagedFilesArePrivate, Subjects
  <1>1. ASSUME NEW c \in Client, NEW u \in Upload, NEW f \in File, NEW n \in Part,
               NEW b \in Body, StagePart(c, u, n, f, b)
        PROVE RequestTrash'
    BY <1>1 DEF StagePart, Fresh
  <1>2. ASSUME NEW c \in Client, NEW u \in Upload, NEW f \in File,
               NEW named \in SUBSET Part, StartComplete(c, u, named, f)
        PROVE RequestTrash'
    BY <1>2 DEF StartComplete, Fresh
  <1>3. ASSUME NEW c \in Client, NEW u \in Upload, StartAbort(c, u) PROVE RequestTrash'
    BY <1>3 DEF StartAbort
  <1>4. ASSUME NEW c \in Client, SelectPart(c) PROVE RequestTrash'
    BY <1>4 DEF SelectPart, RequestWaitsOn, PartHolders
  <1>5. ASSUME NEW c \in Client, InsertPart(c) PROVE RequestTrash'
    BY <1>5 DEF InsertPart, NewRow, RequestWaitsOn, PartHolders
  <1>6. ASSUME NEW c \in Client, CommitPart(c) PROVE RequestTrash'
    BY <1>6 DEF CommitPart, RecordPart, ReplacedIsListed, RowsNameOwnFiles
  <1>7. ASSUME NEW c \in Client, LosePartAnswer(c) PROVE RequestTrash'
    BY <1>7 DEF LosePartAnswer, RecordPart
  <1>8. ASSUME NEW c \in Client, Discard(c) PROVE RequestTrash'
    BY <1>8 DEF Discard, Discarded
  <1>9. ASSUME NEW c \in Client, CommitObject(c) PROVE RequestTrash'
    <2>1. req'[c].trash = {req[c].file} /\ req'[c].pc = "tidy"
      BY <1>9 DEF CommitObject
    <2>2. req[c].file # None /\ ~Listed(req[c].file)
      BY <1>9 DEF CommitObject
    <2>3. ~Acked(req[c].file)
      BY <2>2
    <2>4. \A f : Acked(f)' = Acked(f) /\ \A u \in Upload : (f \in FilesOf(u))' = (f \in FilesOf(u))
      BY <1>9 DEF CommitObject
    <2>5. \A d \in Client : d # c => req'[d] = req[d]
      BY <1>9 DEF CommitObject
    <2> HIDE DEF Acked, FilesOf, Rows, TypeOK, Subjects, StagedFilesArePrivate
    <2> QED
      BY <2>1, <2>3, <2>4, <2>5 DEF IInv
  <1>10. ASSUME NEW c \in Client, DiscardAssembled(c) PROVE RequestTrash'
    BY <1>10 DEF DiscardAssembled, Discarded
  <1>11. ASSUME NEW c \in Client, LockParts(c) PROVE RequestTrash'
    BY <1>11 DEF LockParts, RowsNameOwnFiles
  <1>12. ASSUME NEW c \in Client, RemoveMultipart(c) PROVE RequestTrash'
    <2> DEFINE v == req[c].upload
    <2> HIDE DEF Acked, FilesOf, Rows, TypeOK, Subjects, StagedFilesArePrivate
    <2>1. /\ req[c].pc = "deleteUpload"
          /\ Drop({v})
          /\ req'[c].pc = "discard" /\ req'[c].trash = req[c].trash
          /\ \A d \in Client : d # c => req'[d] = req[d]
      BY <1>12 DEF RemoveMultipart, TypeOK
    <2>2. \A f : /\ \A u \in Upload : f \in FilesOf(u)' => f \in FilesOf(u)
                 /\ Acked(f)' => Acked(f) /\ \E u \in Upload \ {v} : f \in FilesOf(u)
      BY <2>1, DropForgets
    <2> QED
      BY <2>1, <2>2
  <1>13. ASSUME NEW c \in Client, Resets(c) PROVE RequestTrash'
    BY <1>13 DEF Resets
  <1>14. ASSUME NEW c \in Client, GivesUp(c) PROVE RequestTrash'
    <2>1. req'[c].trash = {req[c].file} /\ req'[c].pc = "discard"
      BY <1>14 DEF GivesUp
    <2>2. ~Acked(req[c].file)
      BY <1>14 DEF GivesUp
    <2>3. \A f : Acked(f)' = Acked(f) /\ \A u \in Upload : (f \in FilesOf(u))' = (f \in FilesOf(u))
      BY <1>14 DEF GivesUp
    <2>4. \A d \in Client : d # c => req'[d] = req[d]
      BY <1>14 DEF GivesUp
    <2> HIDE DEF Acked, FilesOf, Rows, TypeOK, Subjects, StagedFilesArePrivate
    <2> QED
      BY <2>1, <2>2, <2>3, <2>4
  <1>15. ASSUME NEW c \in Client, AssemblePart(c) PROVE RequestTrash'
    BY <1>15 DEF AssemblePart, IsNext, Unread, Verified
  <1>16. ASSUME NEW c \in Client, FinishAssembly(c) PROVE RequestTrash'
    BY <1>16 DEF FinishAssembly
  <1>17. ASSUME NEW g \in Sweeper, PickUploads(g) PROVE RequestTrash'
    BY <1>17 DEF PickUploads
  <1>18. ASSUME NEW g \in Sweeper, ReadKeys(g) PROVE RequestTrash'
    BY <1>18 DEF ReadKeys
  <1>19. ASSUME NEW g \in Sweeper, SweepMultipart(g) PROVE RequestTrash'
    <2> HIDE DEF Acked, FilesOf, Rows, TypeOK, Subjects, StagedFilesArePrivate
    <2>1. Drop(job[g].uploads) /\ req' = req
      BY <1>19 DEF SweepMultipart
    <2>2. \A f : /\ \A u \in Upload : f \in FilesOf(u)' => f \in FilesOf(u)
                 /\ Acked(f)' => Acked(f)
      BY <2>1, DropForgets
    <2> QED
      BY <2>1, <2>2
  <1>20. ASSUME NEW g \in Sweeper, DiscardSwept(g) PROVE RequestTrash'
    BY <1>20 DEF DiscardSwept, Discarded
  <1>21. ASSUME NEW g \in Sweeper, NEW f \in File, PickFile(g, f) PROVE RequestTrash'
    BY <1>21 DEF PickFile, Old
  <1>22. ASSUME NEW g \in Sweeper, CheckFile(g) PROVE RequestTrash'
    BY <1>22 DEF CheckFile
  <1>23. ASSUME NEW g \in Sweeper, JobResets(g) PROVE RequestTrash'
    BY <1>23 DEF JobResets
  <1>24. ASSUME DeleteNamespace PROVE RequestTrash'
    <2> HIDE DEF Acked, FilesOf, Rows, Subjects, StagedFilesArePrivate
    <2>1. Drop(uploads)
      BY <1>24 DEF DeleteNamespace
    <2>2. \A c \in Client : req'[c].trash = req[c].trash /\ req'[c].pc = req[c].pc
      BY <1>24 DEF DeleteNamespace
    <2>3. \A c \in Client : req[c].pc = "deleteUpload" => req'[c].upload = req[c].upload
      BY <1>24 DEF DeleteNamespace
    <2> HIDE DEF TypeOK
    <2>4. \A f : /\ \A u \in Upload : f \in FilesOf(u)' => f \in FilesOf(u)
                 /\ Acked(f)' => Acked(f)
      BY <2>1, DropForgets
    <2> QED
      BY <2>2, <2>3, <2>4
  <1>25. ASSUME Undisturbed PROVE RequestTrash'
    BY <1>25 DEF Undisturbed
  <1> QED
    BY <1>1, <1>2, <1>3, <1>4, <1>5, <1>6, <1>7, <1>8, <1>9, <1>10, <1>11, <1>12, <1>13, <1>14, <1>15, <1>16, <1>17, <1>18, <1>19, <1>20, <1>21, <1>22, <1>23, <1>24, <1>25, StepCases DEF RequestActs, JobActs

\* A row takes over a file no other row names.
LEMMA RowsNameOwnFilesKept == ASSUME IInv, [Next]_vars PROVE RowsNameOwnFiles'
  <1> USE MultipartAssumption
      DEF IInv, TypeOK, RequestState, JobState, PartRow, NoPart, IdleRequest, IdleJob, Goes, Works, RowsNameOwnFiles, Rows, Listed, FilesOf, StagedFilesArePrivate, Subjects
  <1>1. ASSUME NEW c \in Client, NEW u \in Upload, NEW f \in File, NEW n \in Part,
               NEW b \in Body, StagePart(c, u, n, f, b)
        PROVE RowsNameOwnFiles'
    BY <1>1 DEF StagePart, Fresh
  <1>2. ASSUME NEW c \in Client, NEW u \in Upload, NEW f \in File,
               NEW named \in SUBSET Part, StartComplete(c, u, named, f)
        PROVE RowsNameOwnFiles'
    BY <1>2 DEF StartComplete, Fresh
  <1>3. ASSUME NEW c \in Client, NEW u \in Upload, StartAbort(c, u) PROVE RowsNameOwnFiles'
    BY <1>3 DEF StartAbort
  <1>4. ASSUME NEW c \in Client, SelectPart(c) PROVE RowsNameOwnFiles'
    BY <1>4 DEF SelectPart, RequestWaitsOn, PartHolders
  <1>5. ASSUME NEW c \in Client, InsertPart(c) PROVE RowsNameOwnFiles'
    BY <1>5 DEF InsertPart, NewRow, RequestWaitsOn, PartHolders
  <1>6. ASSUME NEW c \in Client, CommitPart(c) PROVE RowsNameOwnFiles'
    BY <1>6, RecordKeepsRows DEF CommitPart
  <1>7. ASSUME NEW c \in Client, LosePartAnswer(c) PROVE RowsNameOwnFiles'
    BY <1>7, RecordKeepsRows DEF LosePartAnswer
  <1>8. ASSUME NEW c \in Client, Discard(c) PROVE RowsNameOwnFiles'
    BY <1>8 DEF Discard, Discarded
  <1>9. ASSUME NEW c \in Client, CommitObject(c) PROVE RowsNameOwnFiles'
    BY <1>9 DEF CommitObject
  <1>10. ASSUME NEW c \in Client, DiscardAssembled(c) PROVE RowsNameOwnFiles'
    BY <1>10 DEF DiscardAssembled, Discarded
  <1>11. ASSUME NEW c \in Client, LockParts(c) PROVE RowsNameOwnFiles'
    BY <1>11 DEF LockParts, RequestWaitsOn
  <1>12. ASSUME NEW c \in Client, RemoveMultipart(c) PROVE RowsNameOwnFiles'
    BY <1>12 DEF RemoveMultipart, Drop, NoParts
  <1>13. ASSUME NEW c \in Client, Resets(c) PROVE RowsNameOwnFiles'
    BY <1>13 DEF Resets
  <1>14. ASSUME NEW c \in Client, GivesUp(c) PROVE RowsNameOwnFiles'
    BY <1>14 DEF GivesUp
  <1>15. ASSUME NEW c \in Client, AssemblePart(c) PROVE RowsNameOwnFiles'
    BY <1>15 DEF AssemblePart, IsNext, Unread, Verified
  <1>16. ASSUME NEW c \in Client, FinishAssembly(c) PROVE RowsNameOwnFiles'
    BY <1>16 DEF FinishAssembly
  <1>17. ASSUME NEW g \in Sweeper, PickUploads(g) PROVE RowsNameOwnFiles'
    BY <1>17 DEF PickUploads
  <1>18. ASSUME NEW g \in Sweeper, ReadKeys(g) PROVE RowsNameOwnFiles'
    BY <1>18 DEF ReadKeys
  <1>19. ASSUME NEW g \in Sweeper, SweepMultipart(g) PROVE RowsNameOwnFiles'
    BY <1>19 DEF SweepMultipart, Drop, NoParts
  <1>20. ASSUME NEW g \in Sweeper, DiscardSwept(g) PROVE RowsNameOwnFiles'
    BY <1>20 DEF DiscardSwept, Discarded
  <1>21. ASSUME NEW g \in Sweeper, NEW f \in File, PickFile(g, f) PROVE RowsNameOwnFiles'
    BY <1>21 DEF PickFile, Old
  <1>22. ASSUME NEW g \in Sweeper, CheckFile(g) PROVE RowsNameOwnFiles'
    BY <1>22 DEF CheckFile
  <1>23. ASSUME NEW g \in Sweeper, JobResets(g) PROVE RowsNameOwnFiles'
    BY <1>23 DEF JobResets
  <1>24. ASSUME DeleteNamespace PROVE RowsNameOwnFiles'
    BY <1>24 DEF DeleteNamespace, Drop, NoParts
  <1>25. ASSUME Undisturbed PROVE RowsNameOwnFiles'
    BY <1>25 DEF Undisturbed
  <1> QED
    BY <1>1, <1>2, <1>3, <1>4, <1>5, <1>6, <1>7, <1>8, <1>9, <1>10, <1>11, <1>12, <1>13, <1>14, <1>15, <1>16, <1>17, <1>18, <1>19, <1>20, <1>21, <1>22, <1>23, <1>24, <1>25, StepCases DEF RequestActs, JobActs

\* No file of an acknowledged part is deleted.
LEMMA AckedPartsStoredKept == ASSUME IInv, [Next]_vars PROVE AckedPartsStored'
  <1> USE MultipartAssumption
      DEF IInv, TypeOK, RequestState, JobState, PartRow, NoPart, IdleRequest, IdleJob, Goes, Works, AckedPartsStored, Acked, Rows, Listed, FilesOf, StagedFilesArePrivate, Subjects
  <1>1. ASSUME NEW c \in Client, NEW u \in Upload, NEW f \in File, NEW n \in Part,
               NEW b \in Body, StagePart(c, u, n, f, b)
        PROVE AckedPartsStored'
    BY <1>1 DEF StagePart, Fresh
  <1>2. ASSUME NEW c \in Client, NEW u \in Upload, NEW f \in File,
               NEW named \in SUBSET Part, StartComplete(c, u, named, f)
        PROVE AckedPartsStored'
    BY <1>2 DEF StartComplete, Fresh
  <1>3. ASSUME NEW c \in Client, NEW u \in Upload, StartAbort(c, u) PROVE AckedPartsStored'
    BY <1>3 DEF StartAbort
  <1>4. ASSUME NEW c \in Client, SelectPart(c) PROVE AckedPartsStored'
    BY <1>4 DEF SelectPart, RequestWaitsOn, PartHolders
  <1>5. ASSUME NEW c \in Client, InsertPart(c) PROVE AckedPartsStored'
    BY <1>5 DEF InsertPart, NewRow, RequestWaitsOn, PartHolders
  <1>6. ASSUME NEW c \in Client, CommitPart(c) PROVE AckedPartsStored'
    <2> DEFINE r == req[c]
    <2>1. r.upload \in Upload /\ r.part \in Part /\ r.file \in File /\ files[r.file] # None
      BY <1>6 DEF CommitPart, RecordPart, StagedFilesAreStored
    <2>2. parts'[r.upload][r.part].file = r.file /\ files' = files
      BY <1>6, <2>1 DEF CommitPart, RecordPart
    <2>3. ASSUME NEW p \in acked', p # <<r.upload, r.part>>
          PROVE p \in acked /\ parts'[p[1]][p[2]] = parts[p[1]][p[2]]
      BY <1>6, <2>1, <2>3 DEF CommitPart, RecordPart
    <2> QED
      <3> HIDE DEF TypeOK, Subjects, Listed, StagedFilesArePrivate
      <3> SUFFICES ASSUME NEW p \in acked' PROVE files'[parts'[p[1]][p[2]].file] # None
        OBVIOUS
      <3>1. CASE p = <<r.upload, r.part>>
        BY <2>1, <2>2, <3>1
      <3>2. CASE p # <<r.upload, r.part>>
        BY <2>2, <2>3, <3>2
      <3> QED
        BY <3>1, <3>2
  <1>7. ASSUME NEW c \in Client, LosePartAnswer(c) PROVE AckedPartsStored'
    BY <1>7 DEF LosePartAnswer, RecordPart
  <1>8. ASSUME NEW c \in Client, Discard(c) PROVE AckedPartsStored'
    <2>1. PICK f \in req[c].trash : files' \in Discarded(f)
      BY <1>8 DEF Discard
    <2>2. ~Acked(f)
      BY <1>8, <2>1 DEF Discard, RequestTrash
    <2>3. parts' = parts /\ acked' = acked
      BY <1>8 DEF Discard
    <2>4. \A h \in File : files'[h] = files[h] \/ h = f
      BY <2>1 DEF Discarded
    <2> QED
      BY <2>2, <2>3, <2>4, AckedStay
  <1>9. ASSUME NEW c \in Client, CommitObject(c) PROVE AckedPartsStored'
    BY <1>9 DEF CommitObject
  <1>10. ASSUME NEW c \in Client, DiscardAssembled(c) PROVE AckedPartsStored'
    <2>1. PICK f \in req[c].trash : files' \in Discarded(f)
      BY <1>10 DEF DiscardAssembled
    <2>2. ~Acked(f)
      BY <1>10, <2>1 DEF DiscardAssembled, RequestTrash
    <2>3. parts' = parts /\ acked' = acked
      BY <1>10 DEF DiscardAssembled
    <2>4. \A h \in File : files'[h] = files[h] \/ h = f
      BY <2>1 DEF Discarded
    <2> QED
      BY <2>2, <2>3, <2>4, AckedStay
  <1>11. ASSUME NEW c \in Client, LockParts(c) PROVE AckedPartsStored'
    BY <1>11 DEF LockParts, RequestWaitsOn
  <1>12. ASSUME NEW c \in Client, RemoveMultipart(c) PROVE AckedPartsStored'
    BY <1>12 DEF RemoveMultipart, Drop, NoParts
  <1>13. ASSUME NEW c \in Client, Resets(c) PROVE AckedPartsStored'
    BY <1>13 DEF Resets
  <1>14. ASSUME NEW c \in Client, GivesUp(c) PROVE AckedPartsStored'
    BY <1>14 DEF GivesUp
  <1>15. ASSUME NEW c \in Client, AssemblePart(c) PROVE AckedPartsStored'
    BY <1>15 DEF AssemblePart, IsNext, Unread, Verified
  <1>16. ASSUME NEW c \in Client, FinishAssembly(c) PROVE AckedPartsStored'
    BY <1>16 DEF FinishAssembly
  <1>17. ASSUME NEW g \in Sweeper, PickUploads(g) PROVE AckedPartsStored'
    BY <1>17 DEF PickUploads
  <1>18. ASSUME NEW g \in Sweeper, ReadKeys(g) PROVE AckedPartsStored'
    BY <1>18 DEF ReadKeys
  <1>19. ASSUME NEW g \in Sweeper, SweepMultipart(g) PROVE AckedPartsStored'
    BY <1>19 DEF SweepMultipart, Drop, NoParts
  <1>20. ASSUME NEW g \in Sweeper, DiscardSwept(g) PROVE AckedPartsStored'
    <2>1. PICK f \in job[g].trash : files' \in Discarded(f)
      BY <1>20 DEF DiscardSwept
    <2>2. ~Acked(f)
      BY <1>20, <2>1 DEF DiscardSwept, JobTrash
    <2>3. parts' = parts /\ acked' = acked
      BY <1>20 DEF DiscardSwept
    <2>4. \A h \in File : files'[h] = files[h] \/ h = f
      BY <2>1 DEF Discarded
    <2> QED
      BY <2>2, <2>3, <2>4, AckedStay
  <1>21. ASSUME NEW g \in Sweeper, NEW f \in File, PickFile(g, f) PROVE AckedPartsStored'
    BY <1>21 DEF PickFile, Old
  <1>22. ASSUME NEW g \in Sweeper, CheckFile(g) PROVE AckedPartsStored'
    BY <1>22 DEF CheckFile
  <1>23. ASSUME NEW g \in Sweeper, JobResets(g) PROVE AckedPartsStored'
    <2>1. job[g].pc = "delete" => ~Acked(job[g].file)
      BY DEF JobTrash
    <2> QED
      BY <1>23, <2>1, AckedStay DEF JobResets
  <1>24. ASSUME DeleteNamespace PROVE AckedPartsStored'
    BY <1>24 DEF DeleteNamespace, Drop, NoParts
  <1>25. ASSUME Undisturbed PROVE AckedPartsStored'
    BY <1>25 DEF Undisturbed
  <1> QED
    BY <1>1, <1>2, <1>3, <1>4, <1>5, <1>6, <1>7, <1>8, <1>9, <1>10, <1>11, <1>12, <1>13, <1>14, <1>15, <1>16, <1>17, <1>18, <1>19, <1>20, <1>21, <1>22, <1>23, <1>24, <1>25, StepCases DEF RequestActs, JobActs

\* A file found to be listed nowhere is listed nowhere when it is deleted: no
\* request has it, and no row is given a file but by the request that staged it.
LEMMA JobTrashKept == ASSUME IInv, [Next]_vars PROVE JobTrash'
  <1> USE MultipartAssumption
      DEF IInv, TypeOK, RequestState, JobState, PartRow, NoPart, IdleRequest, IdleJob, Goes, Works, JobTrash, Acked, Listed, FilesOf, Rows, StagedFilesArePrivate, Subjects
  <1>1. ASSUME NEW c \in Client, NEW u \in Upload, NEW f \in File, NEW n \in Part,
               NEW b \in Body, StagePart(c, u, n, f, b)
        PROVE JobTrash'
    BY <1>1 DEF StagePart, Fresh
  <1>2. ASSUME NEW c \in Client, NEW u \in Upload, NEW f \in File,
               NEW named \in SUBSET Part, StartComplete(c, u, named, f)
        PROVE JobTrash'
    BY <1>2 DEF StartComplete, Fresh
  <1>3. ASSUME NEW c \in Client, NEW u \in Upload, StartAbort(c, u) PROVE JobTrash'
    BY <1>3 DEF StartAbort
  <1>4. ASSUME NEW c \in Client, SelectPart(c) PROVE JobTrash'
    BY <1>4 DEF SelectPart, RequestWaitsOn, PartHolders
  <1>5. ASSUME NEW c \in Client, InsertPart(c) PROVE JobTrash'
    BY <1>5 DEF InsertPart, NewRow, RequestWaitsOn, PartHolders
  <1>6. ASSUME NEW c \in Client, CommitPart(c) PROVE JobTrash'
    <2> DEFINE r == req[c]
    <2>1. r.file # None /\ RecordPart(c) /\ UNCHANGED job
      BY <1>6 DEF CommitPart, RecordPart
    <2>2. \A f : /\ Listed(f)' => Listed(f) \/ f = r.file
                 /\ Acked(f)' => Acked(f) \/ f = r.file
                 /\ \A u \in Upload : f \in FilesOf(u)' => f \in FilesOf(u) \/ f = r.file
      BY <1>6, <2>1, RecordLists DEF CommitPart
    <2>3. \A h \in Sweeper : job[h].file # r.file /\ r.file \notin job[h].trash
      BY <2>1
    <2> HIDE DEF Acked, Listed, FilesOf, Rows, TypeOK, Subjects, StagedFilesArePrivate
    <2> QED
      BY <2>1, <2>2, <2>3 DEF IInv
  <1>7. ASSUME NEW c \in Client, LosePartAnswer(c) PROVE JobTrash'
    <2> DEFINE r == req[c]
    <2>1. r.file # None /\ RecordPart(c) /\ UNCHANGED job
      BY <1>7 DEF LosePartAnswer, RecordPart
    <2>2. \A f : /\ Listed(f)' => Listed(f) \/ f = r.file
                 /\ Acked(f)' => Acked(f) \/ f = r.file
                 /\ \A u \in Upload : f \in FilesOf(u)' => f \in FilesOf(u) \/ f = r.file
      BY <1>7, <2>1, RecordLists DEF LosePartAnswer
    <2>3. \A h \in Sweeper : job[h].file # r.file /\ r.file \notin job[h].trash
      BY <2>1
    <2> HIDE DEF Acked, Listed, FilesOf, Rows, TypeOK, Subjects, StagedFilesArePrivate
    <2> QED
      BY <2>1, <2>2, <2>3 DEF IInv
  <1>8. ASSUME NEW c \in Client, Discard(c) PROVE JobTrash'
    BY <1>8 DEF Discard, Discarded
  <1>9. ASSUME NEW c \in Client, CommitObject(c) PROVE JobTrash'
    BY <1>9 DEF CommitObject
  <1>10. ASSUME NEW c \in Client, DiscardAssembled(c) PROVE JobTrash'
    BY <1>10 DEF DiscardAssembled, Discarded
  <1>11. ASSUME NEW c \in Client, LockParts(c) PROVE JobTrash'
    BY <1>11 DEF LockParts, RequestWaitsOn
  <1>12. ASSUME NEW c \in Client, RemoveMultipart(c) PROVE JobTrash'
    <2> HIDE DEF Acked, FilesOf, Rows, TypeOK, Subjects, StagedFilesArePrivate
    <2>1. Drop({req[c].upload}) /\ job' = job
      BY <1>12 DEF RemoveMultipart
    <2>2. \A f : /\ \A u \in Upload : f \in FilesOf(u)' => f \in FilesOf(u)
                 /\ Acked(f)' => Acked(f)
      BY <2>1, DropForgets
    <2> QED
      BY <2>1, <2>2
  <1>13. ASSUME NEW c \in Client, Resets(c) PROVE JobTrash'
    BY <1>13 DEF Resets
  <1>14. ASSUME NEW c \in Client, GivesUp(c) PROVE JobTrash'
    BY <1>14 DEF GivesUp
  <1>15. ASSUME NEW c \in Client, AssemblePart(c) PROVE JobTrash'
    BY <1>15 DEF AssemblePart, IsNext, Unread, Verified
  <1>16. ASSUME NEW c \in Client, FinishAssembly(c) PROVE JobTrash'
    BY <1>16 DEF FinishAssembly
  <1>17. ASSUME NEW g \in Sweeper, PickUploads(g) PROVE JobTrash'
    BY <1>17 DEF PickUploads
  <1>18. ASSUME NEW g \in Sweeper, ReadKeys(g) PROVE JobTrash'
    <2>1. /\ parts' = parts /\ acked' = acked
          /\ job'[g].pc = "expire" /\ job'[g].uploads = job[g].uploads
          /\ job'[g].trash = UNION {FilesOf(u) : u \in job[g].uploads}
          /\ \A h \in Sweeper : h # g => job'[h] = job[h]
      BY <1>18 DEF ReadKeys
    <2>2. job[g].uploads \subseteq Upload
      OBVIOUS
    <2>3. \A u, v \in Upload : \A f \in FilesOf(u) : f \in FilesOf(v) => u = v
      BY DEF RowsNameOwnFiles
    <2>4. \A f : Acked(f)' = Acked(f) /\ Listed(f)' = Listed(f)
                 /\ \A u \in Upload : (f \in FilesOf(u))' = (f \in FilesOf(u))
      BY <2>1
    <2> HIDE DEF Acked, Listed, FilesOf, Rows, TypeOK, Subjects, StagedFilesArePrivate
    <2> QED
      BY <2>1, <2>2, <2>3, <2>4 DEF IInv
  <1>19. ASSUME NEW g \in Sweeper, SweepMultipart(g) PROVE JobTrash'
    <2> HIDE DEF Acked, FilesOf, Rows, TypeOK, Subjects, StagedFilesArePrivate
    <2>1. /\ job[g].pc = "expire"
          /\ Drop(job[g].uploads)
          /\ job'[g].pc = "discard" /\ job'[g].trash = job[g].trash
          /\ \A h \in Sweeper : h # g => job'[h] = job[h]
      BY <1>19 DEF SweepMultipart, TypeOK
    <2>2. \A f : /\ \A u \in Upload : f \in FilesOf(u)' => f \in FilesOf(u)
                 /\ Acked(f)' => Acked(f) /\ \E u \in Upload \ job[g].uploads : f \in FilesOf(u)
      BY <2>1, DropForgets
    <2> QED
      BY <2>1, <2>2
  <1>20. ASSUME NEW g \in Sweeper, DiscardSwept(g) PROVE JobTrash'
    BY <1>20 DEF DiscardSwept, Discarded
  <1>21. ASSUME NEW g \in Sweeper, NEW f \in File, PickFile(g, f) PROVE JobTrash'
    BY <1>21 DEF PickFile, Old
  <1>22. ASSUME NEW g \in Sweeper, CheckFile(g) PROVE JobTrash'
    BY <1>22 DEF CheckFile
  <1>23. ASSUME NEW g \in Sweeper, JobResets(g) PROVE JobTrash'
    BY <1>23 DEF JobResets
  <1>24. ASSUME DeleteNamespace PROVE JobTrash'
    BY <1>24 DEF DeleteNamespace, Drop, NoParts
  <1>25. ASSUME Undisturbed PROVE JobTrash'
    BY <1>25 DEF Undisturbed
  <1> QED
    BY <1>1, <1>2, <1>3, <1>4, <1>5, <1>6, <1>7, <1>8, <1>9, <1>10, <1>11, <1>12, <1>13, <1>14, <1>15, <1>16, <1>17, <1>18, <1>19, <1>20, <1>21, <1>22, <1>23, <1>24, <1>25, StepCases DEF RequestActs, JobActs

\* The object changes only to what a request read of each part, or goes.
LEMMA ObjectsAreIntactKept == ASSUME IInv, [Next]_vars PROVE ObjectsAreIntact'
  <1> DEFINE Changes == object' \in {object, NoObject} \cup {req[c].read : c \in Client}
  <1>1. ASSUME NEW c \in Client, Request(c) PROVE Changes
    BY <1>1 DEF Request, StartAbort, StagePart, StartComplete
  <1>2. ASSUME NEW c \in Client, RequestStep(c) PROVE Changes
    BY <1>2 DEF RequestStep, SelectPart, InsertPart, RefusePart, CommitPart, RecordPart, Discard,
       EndRequest, AssemblePart, RefuseAssembly, FinishAssembly, CommitObject, DiscardAssembled,
       LockParts, RemoveMultipart
  <1>3. ASSUME NEW c \in Client, Failure(c) PROVE Changes
    BY <1>3 DEF Failure, LosePartAnswer, RecordPart, FailPart, FailObject, FailRemove, Crash
  <1>4. ASSUME NEW g \in Sweeper,
               \/ PickUploads(g) \/ JobStep(g) \/ FailJob(g) \/ AbandonJob(g)
               \/ \E f \in File : PickFile(g, f)
        PROVE Changes
    BY <1>4 DEF PickUploads, JobStep, ReadKeys, SweepMultipart, DiscardSwept, EndSweep,
       AbandonJob, CheckFile, DeleteFile, FailJob, PickFile
  <1>5. ASSUME NEW u \in Upload, CreateMultipart(u) \/ Expire(u) PROVE Changes
    BY <1>5 DEF CreateMultipart, Expire
  <1>6. ASSUME NEW f \in File, Rot(f) PROVE Changes
    BY <1>6 DEF Rot
  <1>7. ASSUME DeleteNamespace \/ DeleteObject \/ UNCHANGED vars PROVE Changes
    <2>1. ASSUME DeleteNamespace PROVE object' = object
      BY <2>1 DEF DeleteNamespace
    <2>2. ASSUME DeleteObject PROVE object' = NoObject
      BY <2>2 DEF DeleteObject
    <2>3. ASSUME UNCHANGED vars PROVE object' = object
      BY <2>3 DEF vars
    <2> QED
      BY <1>7, <2>1, <2>2, <2>3
  <1>8. Changes
    <2> HIDE DEF Changes
    <2>1. ASSUME Victim PROVE Changes
      BY <1>3, <1>4, <2>1 DEF Victim, Failure
    <2> QED
      BY <1>1, <1>2, <1>3, <1>4, <1>5, <1>6, <1>7, <2>1 DEF Next
  <1>9. \A n \in Part : NoObject[n] # Other
    BY MultipartAssumption DEF NoObject
  <1> QED
    BY <1>8, <1>9 DEF IInv, Subjects, ObjectsAreIntact

----------------------------------------------------------------------------
(* The theorems. *)

\* The invariant holds at first, when no request or job is at work.
LEMMA InitInvariant == Init => IInv
  <1> SUFFICES ASSUME Init PROVE IInv
    OBVIOUS
  <1>1. TypeOK
    BY IdleTyped, MultipartAssumption DEF Init, TypeOK, NoParts, NoObject, Rows
  <1>2. /\ \A c \in Client : req[c].pc = "idle" /\ req[c].file = None /\ req[c].trash = {}
        /\ \A c \in Client : \A n \in Part : req[c].read[n] # Other
        /\ \A g \in Sweeper : job[g].pc = "idle" /\ job[g].trash = {}
    BY MultipartAssumption DEF Init, IdleRequest, IdleJob, NoObject
  <1>3. \A u \in Upload : Rows(u) = {}
    BY DEF Init, Rows, NoParts
  <1>4. ObjectsAreIntact /\ AckedPartsStored
    BY MultipartAssumption DEF Init, ObjectsAreIntact, AckedPartsStored, NoObject
  <1>5. Subjects /\ StagedFilesArePrivate /\ StagedFilesAreStored /\ ReplacedIsListed
        /\ OpenWhileRecording /\ RequestTrash /\ JobTrash
    BY <1>2 DEF Subjects, StagedFilesArePrivate, StagedFilesAreStored, ReplacedIsListed,
       OpenWhileRecording, RequestTrash, JobTrash
  <1>6. RowsHaveOneHolder
    BY <1>2 DEF RowsHaveOneHolder, PartHolders
  <1> QED
    BY <1>1, <1>3, <1>4, <1>5, <1>6 DEF IInv, RowsNameOwnFiles

\* Every step keeps it.
LEMMA StepInvariant == IInv /\ [Next]_vars => IInv'
  BY TypeKept, SubjectsKept, RowsNameOwnFilesKept, StagedFilesArePrivateKept,
     StagedFilesAreStoredKept, RowsHaveOneHolderKept, ReplacedIsListedKept,
     OpenWhileRecordingKept, RequestTrashKept, JobTrashKept, AckedPartsStoredKept,
     ObjectsAreIntactKept
  DEF IInv

\* So it always holds.
LEMMA Invariant == Spec => []IInv
  BY InitInvariant, StepInvariant, PTL DEF Spec

\* The tables, requests and jobs have their types, and no upload that is gone
\* has parts.
THEOREM MultipartTypeCorrect == Spec => []TypeOK
  <1>1. IInv => TypeOK
    BY DEF IInv
  <1> QED
    BY <1>1, Invariant, PTL

\* A part whose client heard that it was put has its staged file for as long as
\* it is listed (PutPart, CompleteMultipart, AbortMultipart and both sweeps).
THEOREM AckedPartsAreStored == Spec => []AckedPartsStored
  <1>1. IInv => AckedPartsStored
    BY DEF IInv
  <1> QED
    BY <1>1, Invariant, PTL

\* An object is assembled of parts as they were put, and of nothing else.
THEOREM AssembledObjectsIntact == Spec => []ObjectsAreIntact
  <1>1. IInv => ObjectsAreIntact
    BY DEF IInv
  <1> QED
    BY <1>1, Invariant, PTL

----------------------------------------------------------------------------
(* Waiting: the locks of Multipart are only waited for in a circle by a    *)
(* removal and an expiry together.                                         *)

\* A request comes to remove an upload's row by locking its parts.
LEMMA RemovalsStart ==
    ASSUME IInv, [Next]_vars, NEW c \in Client, req'[c].pc = "deleteUpload"
    PROVE req'[c] = req[c] \/ LockParts(c)
  <1>0. req \in [Client -> RequestState]
    BY DEF IInv, TypeOK
  <1>1. ASSUME NEW d \in Client, RequestActs(d) PROVE req'[c] = req[c] \/ LockParts(c)
    <2>1. CASE c # d
      <3>1. ASSUME NEW s, Goes(d, s) PROVE req'[c] = req[c]
        BY <2>1, <3>1 DEF Goes
      <3>2. CASE GivesUp(d) \/ DiscardAssembled(d) \/ RemoveMultipart(d) \/ LockParts(d)
        BY <3>1, <3>2 DEF GivesUp, DiscardAssembled, RemoveMultipart, LockParts, Resets
      <3>3. CASE SelectPart(d) \/ InsertPart(d) \/ CommitPart(d) \/ LosePartAnswer(d)
        BY <3>1, <3>3 DEF SelectPart, InsertPart, CommitPart, LosePartAnswer
      <3>4. CASE Discard(d) \/ AssemblePart(d) \/ FinishAssembly(d) \/ CommitObject(d) \/ Resets(d)
        BY <3>1, <3>4 DEF Discard, AssemblePart, FinishAssembly, CommitObject, Resets
      <3>5. ASSUME NEW u, NEW f, \/ StartAbort(d, u)
                                 \/ \E n \in Part, b \in Body : StagePart(d, u, n, f, b)
                                 \/ \E named \in SUBSET Part : StartComplete(d, u, named, f)
            PROVE req'[c] = req[c]
        BY <3>1, <3>5 DEF StartAbort, StagePart, StartComplete
      <3> QED
        BY <1>1, <3>2, <3>3, <3>4, <3>5 DEF RequestActs
    <2>2. CASE c = d
      <3>0. \A t : Goes(c, t) => req'[c] = t
        BY <1>0 DEF Goes
      <3>1. ~(\E u \in Upload : StartAbort(c, u))
        BY <1>0, <3>0 DEF StartAbort, IdleRequest
      <3>2. ~(\E u \in Upload, f \in File, n \in Part, b \in Body : StagePart(c, u, n, f, b))
        BY <1>0, <3>0 DEF StagePart, IdleRequest
      <3>3. ~(\E u \in Upload, f \in File, named \in SUBSET Part : StartComplete(c, u, named, f))
        BY <1>0, <3>0 DEF StartComplete, IdleRequest
      <3>4. ~SelectPart(c) /\ ~InsertPart(c) /\ ~AssemblePart(c) /\ ~FinishAssembly(c)
        BY <1>0, <3>0 DEF SelectPart, InsertPart, AssemblePart, FinishAssembly, RequestState
      <3>5. ~CommitPart(c) /\ ~LosePartAnswer(c) /\ ~CommitObject(c)
        BY <1>0, <3>0 DEF CommitPart, LosePartAnswer, CommitObject, IdleRequest
      <3>6. ~GivesUp(c)
        BY <1>0, <3>0 DEF GivesUp, IdleRequest
      <3>8. ~Resets(c)
        BY <1>0, <3>0 DEF Resets, IdleRequest
      <3>9. ~RemoveMultipart(c)
        BY <1>0, <3>0 DEF RemoveMultipart, IdleRequest
      <3>7. ~Discard(c) /\ ~DiscardAssembled(c)
        BY <1>0, <3>0 DEF Discard, DiscardAssembled, RequestState
      <3> QED
        BY <1>1, <2>2, <3>1, <3>2, <3>3, <3>4, <3>5, <3>6, <3>7, <3>8, <3>9 DEF RequestActs
    <2> QED
      BY <2>1, <2>2
  <1>2. ASSUME NEW g \in Sweeper, JobActs(g) PROVE req'[c] = req[c]
    BY <1>2 DEF JobActs, PickUploads, ReadKeys, SweepMultipart, DiscardSwept, PickFile,
       CheckFile, JobResets
  <1>3. ASSUME DeleteNamespace PROVE req'[c] = req[c]
    BY <1>3 DEF DeleteNamespace
  <1> QED
    BY <1>1, <1>2, <1>3, StepCases DEF Undisturbed

\* A step leaves the part rows as they were, records a part, or drops uploads
\* whose parts no one else holds.
LEMMA RowChanges ==
    ASSUME IInv, [Next]_vars
    PROVE \/ UNCHANGED parts
          \/ \E c \in Client : RecordPart(c)
          \/ \E us, p :
                /\ parts' = [u \in Upload |-> IF u \in us THEN NoParts ELSE parts[u]]
                /\ \A u \in us \cap uploads : DropWaits(p, u) = {}
                /\ p \in Client => req'[p].pc # "deleteUpload"
  <1> DEFINE Drops(us, p) ==
               /\ parts' = [u \in Upload |-> IF u \in us THEN NoParts ELSE parts[u]]
               /\ \A u \in us \cap uploads : DropWaits(p, u) = {}
               /\ p \in Client => req'[p].pc # "deleteUpload"
  <1>1. ASSUME NEW c \in Client, RemoveMultipart(c) PROVE Drops({req[c].upload}, c)
    BY <1>1 DEF RemoveMultipart, RequestWaitsOn, Drop, Goes, IInv, TypeOK
  <1>2. ASSUME NEW g \in Sweeper, SweepMultipart(g) PROVE Drops(job[g].uploads, g)
    BY <1>2, MultipartAssumption DEF SweepMultipart, JobWaitsOn, Drop
  <1>3. ASSUME DeleteNamespace PROVE Drops(uploads, None)
    BY <1>3, MultipartAssumption DEF DeleteNamespace, Drop
  <1>4. ASSUME NEW c \in Client, RequestActs(c)
        PROVE UNCHANGED parts \/ RecordPart(c) \/ RemoveMultipart(c)
    BY <1>4 DEF RequestActs, StartAbort, StagePart, StartComplete, SelectPart, InsertPart,
       CommitPart, LosePartAnswer, Discard, AssemblePart, FinishAssembly, CommitObject,
       DiscardAssembled, LockParts, GivesUp, Resets
  <1>5. ASSUME NEW g \in Sweeper, JobActs(g) PROVE UNCHANGED parts \/ SweepMultipart(g)
    BY <1>5 DEF JobActs, PickUploads, ReadKeys, DiscardSwept, PickFile, CheckFile, JobResets
  <1> HIDE DEF Drops
  <1>6. UNCHANGED parts \/ (\E c \in Client : RecordPart(c)) \/ \E us, p : Drops(us, p)
    BY <1>1, <1>2, <1>3, <1>4, <1>5, StepCases DEF Undisturbed
  <1> QED
    BY <1>6 DEF Drops

\* The parts a removal has read are locked until it is over, so they stay.
LEMMA PartsReadStay ==
    ASSUME IInv, RemovalsRead, [Next]_vars,
           NEW c \in Client, req[c].pc = "deleteUpload", req'[c] = req[c]
    PROVE req[c].trash \subseteq FilesOf(req[c].upload)'
  <1> DEFINE v == req[c].upload
  <1> SUFFICES ASSUME NEW f \in req[c].trash PROVE f \in FilesOf(v)'
    OBVIOUS
  <1>1. v \in Upload /\ f \in FilesOf(v)
    BY DEF IInv, Subjects, RemovalsRead
  <1>2. PICK n \in Rows(v) : parts[v][n].file = f
    BY <1>1 DEF FilesOf
  <1>3. c \in PartHolders(v, n) /\ n \in Part /\ parts[v][n] # NoPart
    BY <1>2 DEF PartHolders, Rows
  <1>4. parts'[v][n] = parts[v][n]
    <2>1. ASSUME NEW d \in Client, RecordPart(d) PROVE parts'[v][n] = parts[v][n]
      <3>1. req[d].pc = "commitPart" /\ req[d].upload \in Upload /\ req[d].part \in Part
            /\ parts' = [parts EXCEPT ![req[d].upload][req[d].part] =
                            [file |-> req[d].file, etag |-> req[d].body]]
        BY <2>1 DEF RecordPart, IInv, Subjects
      <3>2. ~(req[d].upload = v /\ req[d].part = n)
        <4>1. ASSUME req[d].upload = v, req[d].part = n PROVE FALSE
          <5>1. d \in PartHolders(v, n)
            BY <3>1, <4>1 DEF PartHolders
          <5>2. d = c
            BY <1>1, <1>3, <5>1 DEF IInv, RowsHaveOneHolder
          <5> QED
            BY <3>1, <5>2
        <4> QED
          BY <4>1
      <3> QED
        BY <1>1, <1>3, <3>1, <3>2 DEF IInv, TypeOK
    <2>2. ASSUME NEW us, NEW p,
                 parts' = [u \in Upload |-> IF u \in us THEN NoParts ELSE parts[u]],
                 \A u \in us \cap uploads : DropWaits(p, u) = {},
                 p \in Client => req'[p].pc # "deleteUpload"
          PROVE parts'[v][n] = parts[v][n]
      <3>1. v \in uploads
        BY <1>1, <1>2 DEF IInv, TypeOK
      <3>2. p # c
        BY <2>2
      <3>3. v \in us => c \in DropWaits(p, v)
        BY <1>2, <1>3, <3>2 DEF DropWaits
      <3>4. v \notin us
        BY <2>2, <3>1, <3>3
      <3> QED
        BY <1>1, <2>2, <3>4
    <2> QED
      BY <2>1, <2>2, RowChanges
  <1> QED
    BY <1>2, <1>3, <1>4 DEF FilesOf, Rows

\* A removal reads the parts that are listed, and they stay.
LEMMA RemovalsReadKept == ASSUME IInv, RemovalsRead, [Next]_vars PROVE RemovalsRead'
  <1> SUFFICES ASSUME NEW c \in Client, req'[c].pc = "deleteUpload"
               PROVE (req[c].trash \subseteq FilesOf(req[c].upload))'
    BY DEF RemovalsRead
  <1>1. CASE req'[c] = req[c]
    BY <1>1, PartsReadStay
  <1>2. CASE LockParts(c)
    <2>1. /\ parts' = parts /\ req'[c].upload = req[c].upload
          /\ req'[c].trash = FilesOf(req[c].upload)
      BY <1>2 DEF LockParts, Goes, IInv, TypeOK, RequestState
    <2> QED
      BY <2>1 DEF FilesOf, Rows
  <1> QED
    BY <1>1, <1>2, RemovalsStart

\* A removal of an upload waits for one that holds parts of it.
LEMMA RemovalsWait ==
    ASSUME IInv, RemovalsRead, NEW c \in Client, NEW d \in Client,
           LockParts(c), req[d].pc = "deleteUpload", req[d].upload = req[c].upload
    PROVE req[d].trash = {}
  <1> DEFINE v == req[c].upload
  <1>1. \A n \in Rows(v) : PartHolders(v, n) = {}
    BY DEF LockParts, RequestWaitsOn
  <1> SUFFICES ASSUME NEW f \in req[d].trash PROVE FALSE
    OBVIOUS
  <1>2. PICK n \in Rows(v) : parts[v][n].file = f
    BY DEF RemovalsRead, FilesOf
  <1>3. d \in PartHolders(v, n)
    BY <1>2 DEF PartHolders
  <1> QED
    BY <1>1, <1>2, <1>3

LEMMA RemovalsExcludeKept ==
    ASSUME IInv, RemovalsRead, RemovalsExclude, [Next]_vars
    PROVE RemovalsExclude'
  <1> SUFFICES ASSUME NEW c \in Client, NEW d \in Client, c # d,
                      req'[c].pc = "deleteUpload", req'[d].pc = "deleteUpload",
                      req'[c].upload = req'[d].upload
               PROVE req'[c].trash = {} \/ req'[d].trash = {}
    BY DEF RemovalsExclude
  <1>1. ASSUME NEW a \in Client, NEW b \in Client, a # b, LockParts(a),
               req'[b].pc = "deleteUpload", req'[b].upload = req'[a].upload
        PROVE req'[b].trash = {}
    <2>1. req'[b] = req[b] /\ req'[a].upload = req[a].upload
      BY <1>1 DEF LockParts, Goes, IInv, TypeOK, RequestState
    <2> QED
      BY <1>1, <2>1, RemovalsWait
  <1> QED
    BY <1>1, RemovalsStart DEF RemovalsExclude

\* The sweep passes over the uploads another sweep has locked.
LEMMA ExpiriesExcludeKept == ASSUME IInv, ExpiriesExclude, [Next]_vars PROVE ExpiriesExclude'
  <1> USE DEF IInv, TypeOK, JobState, IdleJob, Works, Expires
  <1>1. ASSUME NEW g \in Sweeper, PickUploads(g) PROVE ExpiriesExclude'
    <2>1. \A h \in Sweeper \ {g} : Expires(h)' = Expires(h)
      BY <1>1 DEF PickUploads
    <2>2. \A h \in Sweeper : Expires(g)' \cap Expires(h) = {}
      BY <1>1 DEF PickUploads, Expirers
    <2> HIDE DEF Expires
    <2> QED
      BY <2>1, <2>2 DEF ExpiriesExclude
  <1>2. ASSUME NEW g \in Sweeper, JobActs(g), ~PickUploads(g)
        PROVE \A h \in Sweeper : Expires(h)' \subseteq Expires(h)
    <2>1. \A h \in Sweeper \ {g} : job'[h] = job[h]
      BY <1>2 DEF JobActs, ReadKeys, SweepMultipart, DiscardSwept, PickFile, CheckFile, JobResets
    <2>2. Expires(g)' \subseteq Expires(g)
      <3>1. CASE ReadKeys(g) \/ SweepMultipart(g) \/ DiscardSwept(g)
        <4>1. CASE ReadKeys(g)
          BY <4>1 DEF ReadKeys
        <4>2. CASE SweepMultipart(g)
          BY <4>2 DEF SweepMultipart
        <4>3. CASE DiscardSwept(g)
          BY <4>3 DEF DiscardSwept
        <4> QED
          BY <3>1, <4>1, <4>2, <4>3
      <3>2. CASE \E f \in File : PickFile(g, f)
        BY <3>2 DEF PickFile
      <3>3. CASE CheckFile(g)
        BY <3>3 DEF CheckFile
      <3>4. CASE JobResets(g)
        BY <3>4 DEF JobResets
      <3> QED
        BY <1>2, <3>1, <3>2, <3>3, <3>4 DEF JobActs
    <2> QED
      BY <2>1, <2>2
  <1>3. ASSUME NEW c \in Client, RequestActs(c) PROVE job' = job
    BY <1>3 DEF RequestActs, StartAbort, StagePart, StartComplete, SelectPart, InsertPart,
       CommitPart, LosePartAnswer, RecordPart, Discard, AssemblePart, FinishAssembly,
       CommitObject, DiscardAssembled, LockParts, RemoveMultipart, GivesUp, Resets
  <1>4. ASSUME DeleteNamespace \/ Undisturbed PROVE job' = job
    BY <1>4 DEF DeleteNamespace, Undisturbed
  <1>5. ASSUME \A h \in Sweeper : Expires(h)' \subseteq Expires(h) PROVE ExpiriesExclude'
    BY <1>5 DEF ExpiriesExclude
  <1>6. job' = job => \A h \in Sweeper : Expires(h)' \subseteq Expires(h)
    OBVIOUS
  <1> HIDE DEF Expires
  <1> QED
    BY <1>1, <1>2, <1>3, <1>4, <1>5, <1>6, StepCases

\* What the waits rest on holds at first, and is kept.
LEMMA WaitsHold == Spec => [](IInv /\ WaitInv)
  <1>1. Init => WaitInv
    BY DEF Init, WaitInv, RemovalsRead, RemovalsExclude, ExpiriesExclude, Expires,
       IdleRequest, IdleJob
  <1>2. IInv /\ WaitInv /\ [Next]_vars => WaitInv'
    BY RemovalsReadKept, RemovalsExcludeKept, ExpiriesExcludeKept DEF WaitInv
  <1> QED
    BY <1>1, <1>2, InitInvariant, StepInvariant, PTL DEF Spec

\* A request waits for one that holds a part: no request that puts one and has
\* found its row waits at all, and one that has not holds nothing yet.
LEMMA RequestWaits ==
    ASSUME IInv, NEW c \in Client
    PROVE /\ RequestWaitsOn(c) # {} =>
                \/ req[c].pc \in {"select", "lockParts", "deleteUpload"}
                \/ req[c].pc = "insert" /\ req[c].replaced = None
          /\ RequestWaitsOn(c) \subseteq Client \cup Sweeper
  <1>1. RequestWaitsOn(c) \subseteq Client \cup Sweeper
    BY DEF RequestWaitsOn, DropWaits, PartHolders, Sharers, Expirers
  <1>2. ASSUME req[c].pc = "insert", req[c].replaced # None PROVE RequestWaitsOn(c) = {}
    <2> DEFINE v == req[c].upload
               n == req[c].part
    <2>1. v \in Upload /\ n \in Part /\ n \in Rows(v)
      BY <1>2 DEF IInv, Subjects, ReplacedIsListed
    <2>2. v # None /\ n # 0 /\ parts[v][n] # NoPart
      BY <2>1, MultipartAssumption DEF Rows
    <2>3. c \in PartHolders(v, n)
      BY <1>2 DEF PartHolders
    <2>4. PartHolders(v, n) \ {c} = {}
      BY <2>1, <2>3 DEF IInv, RowsHaveOneHolder
    <2> QED
      BY <1>2, <2>2, <2>4 DEF RequestWaitsOn
  <1> QED
    BY <1>1, <1>2 DEF RequestWaitsOn

\* A removal that others wait for holds a part, and waits for no other removal.
LEMMA RemovalsDoNotCircle ==
    ASSUME IInv, WaitInv, NEW b \in Client, NEW c \in Client, NEW d \in Client,
           b # c, req[b].pc = "deleteUpload", req[c].pc = "deleteUpload",
           c \in RequestWaitsOn(b), d \in RequestWaitsOn(c), req[d].pc = "deleteUpload"
    PROVE FALSE
  <1>1. ASSUME NEW x \in Client, NEW y \in Client, y \in RequestWaitsOn(x),
               req[x].pc = "deleteUpload", req[y].pc = "deleteUpload"
        PROVE x # y /\ req[x].upload = req[y].upload /\ req[y].trash # {}
    <2> DEFINE u == req[x].upload
    <2>1. y \in DropWaits(x, u)
      BY <1>1 DEF RequestWaitsOn
    <2>2. y \notin Sharers(u) /\ y \notin Expirers(u)
      BY <1>1, MultipartAssumption DEF Sharers, Expirers
    <2>3. x # y /\ \E n \in Rows(u) : y \in PartHolders(u, n)
      BY <2>1, <2>2 DEF DropWaits
    <2> QED
      BY <1>1, <2>3 DEF PartHolders
  <1>2. c # d /\ req[c].upload = req[d].upload /\ req[d].trash # {} /\ req[c].trash # {}
    BY <1>1
  <1> QED
    BY <1>2 DEF WaitInv, RemovalsExclude

\* What deadlocks is a removal and an expiry.
LEMMA DeadlocksOfBoth == IInv /\ WaitInv => DeadlocksExpected
  <1> SUFFICES ASSUME IInv, WaitInv, NEW S \in SUBSET (Client \cup Sweeper), Deadlocked(S)
               PROVE /\ \E g \in S \cap Sweeper : job[g].pc = "expire"
                     /\ \E c \in S \cap Client : req[c].pc = "deleteUpload"
    BY DEF DeadlocksExpected
  <1>1. /\ S # {}
        /\ \A p \in S : WaitsOn(p) # {} /\ WaitsOn(p) \subseteq S
        /\ \A p \in S : \E q \in S : p \in WaitsOn(q)
    BY DEF Deadlocked
  <1>2. ASSUME NEW c \in S \cap Client PROVE req[c].pc = "deleteUpload"
    <2>1. WaitsOn(c) = RequestWaitsOn(c) /\ RequestWaitsOn(c) # {}
      BY <1>1 DEF WaitsOn
    <2>2. PICK q \in S : c \in WaitsOn(q)
      BY <1>1
    <2>3. \/ req[c].pc \in {"commitPart", "deleteUpload"}
          \/ req[c].pc = "insert" /\ req[c].replaced # None
      BY <1>2, <2>2, MultipartAssumption
      DEF WaitsOn, RequestWaitsOn, JobWaitsOn, DropWaits, PartHolders, Sharers, Expirers
    <2> QED
      BY <1>2, <2>1, <2>3, RequestWaits
  <1>3. ASSUME NEW g \in S \cap Sweeper PROVE job[g].pc = "expire"
    BY <1>1, <1>3, MultipartAssumption DEF WaitsOn, JobWaitsOn
  <1>4. S \cap Sweeper # {}
    <2> SUFFICES ASSUME S \cap Sweeper = {} PROVE FALSE
      OBVIOUS
    <2>1. S \subseteq Client
      OBVIOUS
    <2>2. PICK c \in S : TRUE
      BY <1>1
    <2>3. PICK b \in S : c \in WaitsOn(b)
      BY <1>1
    <2>4. PICK d \in S : d \in WaitsOn(c)
      BY <1>1
    <2>5. c \in RequestWaitsOn(b) /\ d \in RequestWaitsOn(c)
      BY <2>1, <2>3, <2>4 DEF WaitsOn
    <2>6. b # c
      BY <1>2, <2>1, <2>5, MultipartAssumption DEF RequestWaitsOn, DropWaits
    <2> QED
      BY <1>2, <2>1, <2>5, <2>6, RemovalsDoNotCircle
  <1>5. S \cap Client # {}
    <2> SUFFICES ASSUME S \cap Client = {} PROVE FALSE
      OBVIOUS
    <2>1. PICK g \in S : TRUE
      BY <1>1
    <2>2. PICK h \in S : h \in WaitsOn(g)
      BY <1>1
    <2>3. g \in Sweeper /\ h \in Sweeper /\ g \notin Client /\ h \notin Client
      BY MultipartAssumption
    <2>4. PICK u \in job[g].uploads : h \in DropWaits(g, u) /\ job[g].pc = "expire"
      BY <2>2, <2>3 DEF WaitsOn, JobWaitsOn
    <2>5. h # g /\ h \in Expirers(u)
      BY <2>3, <2>4 DEF DropWaits, Sharers, PartHolders
    <2> QED
      BY <2>3, <2>4, <2>5 DEF WaitInv, ExpiriesExclude, Expires, Expirers
  <1> QED
    BY <1>2, <1>3, <1>4, <1>5

\* The only deadlock Postgres may be asked to break is between the removal of
\* an upload, which locks its parts and then the upload (RemoveMultipart), and
\* its expiry, which locks the upload and then deletes its parts
\* (ExpireMultiparts).
THEOREM DeadlocksAreExpected == Spec => []DeadlocksExpected
  BY WaitsHold, DeadlocksOfBoth, PTL
=============================================================================
