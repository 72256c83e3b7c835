------------------------ MODULE MultipartInvariant ------------------------
(***************************************************************************)
(* The inductive invariant behind the safety of Multipart: which staging   *)
(* files a request has to itself, which rows it may rely on while it holds *)
(* their locks, and what may be discarded.                                 *)
(***************************************************************************)
EXTENDS Multipart

\* Requests and jobs know what they are about, and what a request read of a
\* part is the part as it was put.
Subjects ==
    /\ \A c \in Client :
          LET r == req[c] IN
          /\ r.pc \in {"select", "insert", "commitPart"} =>
                r.upload \in Upload /\ r.part \in Part /\ r.file \in File /\ r.body \in Body
          /\ r.pc \in {"assemble", "commitObject"} => r.file \in File
          /\ r.pc \in {"tidy", "lockParts", "deleteUpload"} => r.upload \in Upload
          /\ \A n \in Part : r.read[n] # Other
    /\ \A g \in Sweeper : job[g].pc \in {"check", "delete"} => job[g].file \in File

\* No two rows name one file.
RowsNameOwnFiles ==
    \A u, v \in Upload : \A m \in Rows(u), n \in Rows(v) :
        parts[u][m].file = parts[v][n].file => u = v /\ m = n

\* The file a request staged is its own until it is recorded: no row, no
\* other request and no job knows it.
StagedFilesArePrivate ==
    \A c \in Client : req[c].file # None =>
        /\ ~Listed(req[c].file)
        /\ \A d \in Client : /\ req[c].file \notin req[d].trash
                             /\ d # c => req[d].file # req[c].file
        /\ \A g \in Sweeper : job[g].file # req[c].file /\ req[c].file \notin job[g].trash

\* ... and it is stored.
StagedFilesAreStored ==
    \A c \in Client : req[c].pc \in {"select", "insert", "commitPart"} => files[req[c].file] # None

\* A row has one holder, who knows the file the row names.
RowsHaveOneHolder ==
    \A u \in Upload : \A n \in Part : \A c, d \in PartHolders(u, n) : c = d

ReplacedIsListed ==
    \A c \in Client :
        LET r == req[c] IN
        r.pc \in {"insert", "commitPart"} /\ r.replaced # None =>
            r.part \in Rows(r.upload) /\ parts[r.upload][r.part].file = r.replaced

\* An upload stays open while a part of it is recorded.
OpenWhileRecording == \A c \in Client : req[c].pc = "commitPart" => req[c].upload \in uploads

\* What is about to be discarded is no acknowledged part's; what will be once
\* an upload is removed is that upload's, or nobody's.
Acked(f) == \E p \in acked : parts[p[1]][p[2]].file = f

RequestTrash ==
    \A c \in Client : \A f \in req[c].trash :
        /\ req[c].pc \in {"discard", "tidy"} => ~Acked(f)
        /\ req[c].pc = "deleteUpload" =>
              \A u \in Upload : f \in FilesOf(u) => u = req[c].upload

JobTrash ==
    \A g \in Sweeper :
        /\ \A f \in job[g].trash :
              /\ job[g].pc = "discard" => ~Acked(f)
              /\ job[g].pc = "expire" =>
                    \A u \in Upload : f \in FilesOf(u) => u \in job[g].uploads
        /\ job[g].pc = "delete" => ~Listed(job[g].file)

\* The inductive invariant.
IInv ==
    /\ TypeOK
    /\ Subjects
    /\ RowsNameOwnFiles
    /\ StagedFilesArePrivate
    /\ StagedFilesAreStored
    /\ RowsHaveOneHolder
    /\ ReplacedIsListed
    /\ OpenWhileRecording
    /\ RequestTrash
    /\ JobTrash
    /\ AckedPartsStored
    /\ ObjectsAreIntact

\* What the waits of Multipart rest on besides: the parts a removal has read
\* stay as it read them, removals of one upload do not both hold parts of it,
\* and two sweeps do not expire one upload.
RemovalsRead ==
    \A c \in Client : req[c].pc = "deleteUpload" => req[c].trash \subseteq FilesOf(req[c].upload)

RemovalsExclude ==
    \A c, d \in Client :
        /\ c # d
        /\ req[c].pc = "deleteUpload" /\ req[d].pc = "deleteUpload"
        /\ req[c].upload = req[d].upload
        => req[c].trash = {} \/ req[d].trash = {}

Expires(g) == IF job[g].pc \in {"keys", "expire"} THEN job[g].uploads ELSE {}

ExpiriesExclude == \A g, h \in Sweeper : g # h => Expires(g) \cap Expires(h) = {}

WaitInv ==
    /\ RemovalsRead
    /\ RemovalsExclude
    /\ ExpiriesExclude
=============================================================================
