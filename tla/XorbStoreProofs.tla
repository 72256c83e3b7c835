-------------------------- MODULE XorbStoreProofs --------------------------
(***************************************************************************)
(* XorbStore is safe for every value of its constants: any contents,       *)
(* chunkings and groupings into xorbs, any number of requests and          *)
(* background jobs.                                                        *)
(*                                                                         *)
(* First what is stored, from the rows and the bytes alone; then, from the *)
(* locks that requests and jobs hold, the refcounts, what is damaged, and  *)
(* who can wait for whom.                                                  *)
(***************************************************************************)
EXTENDS XorbStoreInvariant, TLAPS, FiniteSetTheorems

\* The values variables are reset to have their types.
LEMMA ResetsTyped ==
    /\ IdleCommit \in RequestState
    /\ IdleJob \in JobState
    /\ NoRow \in XorbRow
    /\ NoBytes \in Stored
    /\ Unplaced \in [Chunk -> SUBSET Chunk]
  <1>1. AKey \in SealKey
    BY ProcessAssumption DEF AKey
  <1>2. Unplaced \in [Chunk -> SUBSET Chunk]
    BY DEF Unplaced, NoXorb
  <1>3. 0 \in 0..CommitAttempts
    BY BoundAssumption
  <1> QED
    BY <1>1, <1>2, <1>3
    DEF IdleCommit, RequestState, IdleJob, JobState, NoRow, XorbRow, NoBytes, Stored, NoXorb

LEMMA InitTyped == Init => TypeOK
  <1> SUFFICES ASSUME Init PROVE TypeOK
    OBVIOUS
  <1>1. rotted \in 0..MaxRot
    BY BoundAssumption DEF Init, Empty
  <1>2. blobs \in [Content -> BlobRow]
    BY DEF Init, Empty, BlobRow
  <1> QED
    BY <1>1, <1>2, ResetsTyped DEF Init, Empty, TypeOK

\* Locks go to processes, and come back from them.
LEMMA LocksTyped ==
    ASSUME TypeOK, NEW p \in Proc
    PROVE /\ \A b : LockBlob(b, p) => blobLock' \in [Content -> Proc \cup {NoProc}]
          /\ \A x : LockXorb(x, p) => xorbLock' \in [Xorb -> Proc \cup {NoProc}]
          /\ UnlockBlobs(p) => blobLock' \in [Content -> Proc \cup {NoProc}]
          /\ UnlockXorbs(p) => xorbLock' \in [Xorb -> Proc \cup {NoProc}]
  BY DEF TypeOK, LockBlob, LockXorb, UnlockBlobs, UnlockXorbs

\* Writes and deletes of bytes leave the backend well typed.
LEMMA BytesTyped ==
    ASSUME TypeOK, NEW x
    PROVE /\ \A p \in Proc : \A bad \in SUBSET Chunk :
                PutOnce(x, p, bad) => bytes' \in [Xorb -> Stored]
          /\ DeleteBytes(x) => bytes' \in [Xorb -> Stored]
  <1>1. bytes \in [Xorb -> Stored]
    BY DEF TypeOK
  <1>2. ASSUME NEW p \in Proc, NEW bad \in SUBSET Chunk, PutOnce(x, p, bad)
        PROVE bytes' \in [Xorb -> Stored]
    <2>1. [there |-> TRUE, key |-> KeyOf[p], bad |-> bad] \in Stored
      BY ProcessAssumption DEF Stored
    <2> QED
      BY <1>1, <1>2, <2>1 DEF PutOnce
  <1>3. DeleteBytes(x) => bytes' \in [Xorb -> Stored]
    BY <1>1, ResetsTyped DEF DeleteBytes
  <1> QED
    BY <1>2, <1>3

\* A claim yields a row, with the layout it had or the claimer's own.
LEMMA ClaimedRowTyped ==
    ASSUME TypeOK, NEW x \in Xorb, NEW p \in Proc
    PROVE ClaimedRow(x, p) \in XorbRow /\ ClaimedRow(x, p).row
  BY ResetsTyped, ProcessAssumption DEF TypeOK, ClaimedRow, XorbRow, NoRow

\* What a request and a job are about is typed, and so is what they go on with.
LEMMA RequestUpdated ==
    ASSUME TypeOK, NEW c \in Committer, NEW t \in RequestState,
           com' = [com EXCEPT ![c] = t]
    PROVE com' \in [Committer -> RequestState]
  BY DEF TypeOK

LEMMA JobUpdated ==
    ASSUME TypeOK, NEW g \in Collector, NEW t \in JobState,
           col' = [col EXCEPT ![g] = t]
    PROVE col' \in [Collector -> JobState]
  BY DEF TypeOK

LEMMA RequestTyped ==
    ASSUME TypeOK, NEW c \in Committer, Request(c)
    PROVE TypeOK'
  <1>1. ASSUME NEW k \in Key, NEW b \in Content, StartPut(c, k, b) PROVE TypeOK'
    <2>1. [IdleCommit EXCEPT !.pc = "placement", !.content = b, !.key = k, !.attempt = 1]
             \in RequestState
      <3>1. 1 \in 0..CommitAttempts
        BY BoundAssumption
      <3> QED
        BY <3>1, ResetsTyped DEF RequestState
    <2> QED
      BY <1>1, <2>1, RequestUpdated DEF TypeOK, StartPut, tables, locks
  <1>2. ASSUME NEW k \in Key, NEW b \in Content, StartLink(c, k, b) PROVE TypeOK'
    <2>1. [IdleCommit EXCEPT !.pc = "claimLive", !.content = b, !.key = k] \in RequestState
      BY ResetsTyped DEF RequestState
    <2> QED
      BY <1>2, <2>1, RequestUpdated DEF TypeOK, StartLink, tables, locks
  <1>3. ASSUME NEW k \in Key, NEW src \in Key, StartCopy(c, src, k) PROVE TypeOK'
    <2>1. objects[src] \in Content \cup {None}
      BY DEF TypeOK
    <2>2. [IdleCommit EXCEPT !.pc = "claimStored", !.content = objects[src], !.key = k]
             \in RequestState
      BY <2>1, ResetsTyped DEF RequestState
    <2> QED
      BY <1>3, <2>2, RequestUpdated DEF TypeOK, StartCopy, tables, locks
  <1>4. ASSUME NEW k \in Key, StartDelete(c, k) PROVE TypeOK'
    <2>1. objects[k] \in Content \cup {None}
      BY DEF TypeOK
    <2>2. [IdleCommit EXCEPT !.pc = "release", !.content = objects[k], !.key = k]
             \in RequestState
      BY <2>1, ResetsTyped DEF RequestState
    <2> QED
      BY <1>4, <2>2, RequestUpdated DEF TypeOK, StartDelete, tables, locks
  <1> QED
    BY <1>1, <1>2, <1>3, <1>4 DEF Request

LEMMA RetryTyped ==
    ASSUME TypeOK, NEW c \in Committer, Retry(c)
    PROVE /\ com' \in [Committer -> RequestState]
          /\ blobLock' \in [Content -> Proc \cup {NoProc}]
          /\ xorbLock' \in [Xorb -> Proc \cup {NoProc}]
  <1> DEFINE t == com[c]
             again == [IdleCommit EXCEPT !.pc = "placement", !.content = t.content,
                                         !.key = t.key, !.attempt = t.attempt + 1]
             next == IF t.attempt < CommitAttempts THEN again ELSE IdleCommit
  <1>1. t \in RequestState
    BY DEF TypeOK
  <1>2. ASSUME t.attempt < CommitAttempts PROVE again \in RequestState
    <2>1. t.attempt + 1 \in 0..CommitAttempts
      BY <1>1, <1>2, BoundAssumption DEF RequestState
    <2> QED
      BY <1>1, <2>1, ResetsTyped DEF RequestState
  <1>3. next \in RequestState
    BY <1>2, ResetsTyped
  <1>4. com' = [com EXCEPT ![c] = next]
    BY DEF Retry
  <1>5. com' \in [Committer -> RequestState]
    BY <1>3, <1>4, RequestUpdated
  <1> QED
    BY <1>5, LocksTyped DEF Retry, Unlock, Proc

LEMMA PcTyped ==
    /\ \A t \in RequestState :
          \A pc \in {"idle", "placement", "locate", "write", "claimXorbs", "claimStored",
                     "claimLive", "upsert", "commit"} : [t EXCEPT !.pc = pc] \in RequestState
    /\ \A t \in JobState :
          \A pc \in {"idle", "detach", "deleteBytes", "deleteRow", "reclaim", "use", "copy",
                     "move", "lockBlobs", "lockXorbs", "requeue"} : [t EXCEPT !.pc = pc] \in JobState
  BY DEF RequestState, JobState

\* A plan places every chunk of the content, in a xorb found or a new one.
LEMMA PlanChunksPlaces ==
    ASSUME TypeOK, RequestsHaveContent, NEW c \in Committer, PlanChunks(c)
    PROVE \E plan \in [Chunk -> SUBSET Chunk] : \E new \in SUBSET Xorb :
             /\ Places(plan, com[c].content)
             /\ com' = [com EXCEPT ![c].pc = "write", ![c].plan = plan,
                                   ![c].new = new, ![c].unwritten = new]
  <1> DEFINE b == com[c].content
             new(reused) == GroupForXorbs(ChunksOf[b] \ reused)
             plan(reused, at) ==
                [ch \in Chunk |-> CASE ch \in reused -> at[ch]
                                    [] ch \in ChunksOf[b] \ reused ->
                                          CHOOSE x \in new(reused) : ch \in x
                                    [] OTHER -> NoXorb]
  <1>0. com[c] \in RequestState /\ b \in Content
    BY DEF TypeOK, RequestsHaveContent, PlanChunks
  <1>1. PICK reused \in SUBSET {ch \in ChunksOf[b] : Located(ch) # {}} :
        \E at \in [reused -> UNION {Located(ch) : ch \in reused}] :
           /\ \A ch \in reused : at[ch] \in Located(ch)
           /\ com' = [com EXCEPT ![c].pc = "write", ![c].plan = plan(reused, at),
                                 ![c].new = new(reused), ![c].unwritten = new(reused)]
    BY DEF PlanChunks
  <1>2. PICK at \in [reused -> UNION {Located(ch) : ch \in reused}] :
           /\ \A ch \in reused : at[ch] \in Located(ch)
           /\ com' = [com EXCEPT ![c].pc = "write", ![c].plan = plan(reused, at),
                                 ![c].new = new(reused), ![c].unwritten = new(reused)]
    BY <1>1
  <1>3. ChunksOf[b] \in SUBSET Chunk /\ ChunksOf[b] \ reused \in SUBSET Chunk
    BY <1>0, ContentAssumption
  <1>4. new(reused) \in SUBSET Xorb /\ UNION new(reused) = ChunksOf[b] \ reused
    BY <1>3, ContentAssumption
  <1>5. ASSUME NEW ch \in Chunk
        PROVE IF ch \in ChunksOf[b] THEN plan(reused, at)[ch] \in Xorb /\ ch \in plan(reused, at)[ch]
                                    ELSE plan(reused, at)[ch] = NoXorb
    <2>1. CASE ch \in reused
      BY <2>1, <1>2 DEF Located
    <2>2. CASE ch \in ChunksOf[b] \ reused
      BY <2>2, <1>4
    <2> QED
      BY <2>1, <2>2, <1>1
  <1>6. plan(reused, at) \in [Chunk -> SUBSET Chunk]
    <2> SUFFICES ASSUME NEW ch \in Chunk PROVE plan(reused, at)[ch] \in SUBSET Chunk
      OBVIOUS
    <2> HIDE DEF plan
    <2> QED
      BY <1>5 DEF Xorb, NoXorb
  <1> HIDE DEF new, plan
  <1> QED
    BY <1>2, <1>4, <1>5, <1>6 DEF Places

LEMMA PlanChunksTyped ==
    ASSUME TypeOK, RequestsHaveContent, NEW c \in Committer, PlanChunks(c)
    PROVE com' \in [Committer -> RequestState]
  <1>1. PICK plan \in [Chunk -> SUBSET Chunk], new \in SUBSET Xorb :
           com' = [com EXCEPT ![c].pc = "write", ![c].plan = plan,
                              ![c].new = new, ![c].unwritten = new]
    BY PlanChunksPlaces
  <1>0. com[c] \in RequestState
    BY DEF TypeOK
  <1>2. [com[c] EXCEPT !.pc = "write", !.plan = plan, !.new = new, !.unwritten = new] \in RequestState
    BY <1>0 DEF RequestState
  <1> QED
    BY <1>1, <1>2 DEF TypeOK

LEMMA AttachedRowTyped ==
    ASSUME TypeOK, NEW x \in Xorb, NEW c \in Committer
    PROVE AttachedRow(x, c) \in XorbRow /\ AttachedRow(x, c).row
  <1> DEFINE row == ClaimedRow(x, c)
             released == row.released \/ (row.ref = 0 /\ x \notin com[c].new)
  <1>1. row \in XorbRow /\ row.row
    BY ClaimedRowTyped DEF Proc
  <1>2. AttachedRow(x, c) = [row EXCEPT !.ref = row.ref + 1, !.released = released]
    BY <1>1 DEF AttachedRow, XorbRow
  <1>3. row.ref + 1 \in Nat /\ released \in BOOLEAN
    BY <1>1 DEF XorbRow
  <1> HIDE DEF row, released
  <1> QED
    BY <1>1, <1>2, <1>3 DEF XorbRow

LEMMA UpsertTyped ==
    ASSUME TypeOK, NEW p, NEW k \in Key, NEW b \in Content, Upsert(p, k, b)
    PROVE objects' \in [Key -> Content \cup {None}] /\ blobs' \in [Content -> BlobRow]
  <1> DEFINE old == objects[k]
             claimed == [blobs EXCEPT ![b] = [row |-> TRUE, ref |-> @.ref + 1]]
  <1>1. objects' \in [Key -> Content \cup {None}]
    BY DEF TypeOK, Upsert
  <1>2. \A n \in Nat : Drop(n) \in Nat
    BY DEF Drop
  <1>3. \A d \in Content : blobs[d] \in BlobRow
    BY DEF TypeOK
  <1>4. [row |-> TRUE, ref |-> blobs[b].ref + 1] \in BlobRow
    BY <1>3 DEF BlobRow
  <1>5. claimed \in [Content -> BlobRow]
    BY <1>3, <1>4 DEF TypeOK
  <1>6. CASE old = None
    BY <1>1, <1>5, <1>6 DEF Upsert
  <1>7. CASE old # None
    <2>1. old \in Content
      BY <1>7 DEF TypeOK
    <2>2. [claimed[old] EXCEPT !.ref = Drop(@)] \in BlobRow
      BY <1>2, <1>5, <2>1 DEF BlobRow
    <2>3. blobs' = [claimed EXCEPT ![old].ref = Drop(@)]
      BY <1>7 DEF Upsert
    <2> HIDE DEF claimed
    <2> QED
      BY <1>1, <1>5, <2>1, <2>2, <2>3
  <1> QED
    BY <1>6, <1>7

LEMMA DeleteObjectTyped ==
    ASSUME TypeOK, RequestsHaveContent, NEW c \in Committer, DeleteObject(c)
    PROVE TypeOK'
  <1> DEFINE b == com[c].content
  <1>1. objects' \in [Key -> Content \cup {None}]
    BY DEF DeleteObject, TypeOK
  <1>2. blobs' \in [Content -> BlobRow]
    <2>1. blobs[b] \in BlobRow
      BY DEF DeleteObject, TypeOK, RequestsHaveContent
    <2>2. [blobs[b] EXCEPT !.ref = Drop(@)] \in BlobRow
      BY <2>1 DEF BlobRow, Drop
    <2> QED
      BY <2>2 DEF DeleteObject, TypeOK
  <1>3. com' \in [Committer -> RequestState]
    BY ResetsTyped, RequestUpdated DEF DeleteObject
  <1> QED
    BY <1>1, <1>2, <1>3 DEF DeleteObject, TypeOK, locks

LEMMA CommitStepTyped ==
    ASSUME TypeOK, RequestsHaveContent, NEW c \in Committer, CommitStep(c)
    PROVE TypeOK'
  <1>0. com[c] \in RequestState
    BY DEF TypeOK
  <1>1. CASE PlanPlacement(c)
    <2> DEFINE b == com[c].content
    <2>1. [com[c] EXCEPT !.pc = IF blobs[b].row THEN "write" ELSE "locate",
                         !.attach = ~blobs[b].row \/ ChunksOf[b] = {}] \in RequestState
      BY <1>0 DEF RequestState
    <2>2. com' \in [Committer -> RequestState]
      BY <1>1, <2>1 DEF TypeOK, PlanPlacement
    <2> QED
      BY <1>1, <2>2 DEF TypeOK, PlanPlacement, tables, locks
  <1>2. CASE PlanChunks(c)
    BY <1>2, PlanChunksTyped DEF TypeOK, PlanChunks, tables, locks
  <1>3. ASSUME NEW x \in Xorb, WriteXorb(c, x) PROVE TypeOK'
    <2>1. bytes' \in [Xorb -> Stored]
      BY <1>3, BytesTyped DEF WriteXorb, Proc
    <2>2. [com[c] EXCEPT !.unwritten = @ \ {x},
                         !.existed = IF bytes[x].there THEN @ \cup {x} ELSE @] \in RequestState
      BY <1>0 DEF RequestState
    <2>3. com' \in [Committer -> RequestState]
      BY <1>3, <2>2 DEF TypeOK, WriteXorb
    <2> QED
      BY <1>3, <2>1, <2>3 DEF TypeOK, WriteXorb, tables, locks
  <1>4. CASE ClaimBlob(c)
    <2>1. CASE Retry(c)
      BY <1>4, <2>1, RetryTyped DEF TypeOK, ClaimBlob, tables
    <2>2. CASE ~Retry(c)
      <3> DEFINE claims == ~blobs[com[c].content].row /\ XorbsIn(com[c].plan) # {}
                 next == [com[c] EXCEPT !.pc = IF claims THEN "claimXorbs" ELSE "upsert"]
      <3>1. next \in RequestState
        BY <1>0, PcTyped
      <3>2. com' = [com EXCEPT ![c] = next]
        BY <1>0, <1>4, <2>2 DEF TypeOK, ClaimBlob
      <3>3. com' \in [Committer -> RequestState]
        BY <3>1, <3>2, RequestUpdated
      <3> QED
        BY <1>4, <2>2, <3>3, LocksTyped DEF TypeOK, ClaimBlob, tables, Proc
    <2> QED
      BY <2>1, <2>2
  <1>5. CASE ClaimXorb(c)
    <2>1. bytes' \in [Xorb -> Stored]
      BY <1>5, BytesTyped DEF ClaimXorb, TypeOK
    <2>2. CASE Retry(c)
      BY <1>5, <2>1, <2>2, RetryTyped DEF TypeOK, ClaimXorb, tables
    <2>3. CASE ~Retry(c)
      <3>1. PICK x \in FirstXorb(XorbsToClaim(c)) :
               /\ LockXorb(x, c)
               /\ com' = [com EXCEPT ![c].pc = IF XorbsToClaim(c) = {x} THEN "upsert" ELSE @]
               /\ UNCHANGED blobLock
        BY <1>5, <2>3 DEF ClaimXorb
      <3>2. com[c].pc = "claimXorbs"
        BY <1>5 DEF ClaimXorb
      <3>3. [com[c] EXCEPT !.pc = IF XorbsToClaim(c) = {x} THEN "upsert" ELSE @] \in RequestState
        BY <1>0, <3>2, PcTyped
      <3>4. com' \in [Committer -> RequestState]
        BY <3>1, <3>3 DEF TypeOK
      <3>5. xorbLock' \in [Xorb -> Proc \cup {NoProc}]
        BY <3>1, LocksTyped DEF Proc
      <3> QED
        BY <1>5, <2>1, <3>1, <3>4, <3>5 DEF TypeOK, ClaimXorb, tables
    <2> QED
      BY <2>2, <2>3
  <1>6. CASE ClaimStored(c)
    <2>1. [com[c] EXCEPT !.pc = "upsert"] \in RequestState
      BY <1>0, PcTyped
    <2>2. com' \in [Committer -> RequestState]
      BY <1>6, <2>1, ResetsTyped DEF TypeOK, ClaimStored
    <2>3. blobLock' \in [Content -> Proc \cup {NoProc}]
      BY <1>6, LocksTyped DEF ClaimStored, TypeOK, Proc
    <2> QED
      BY <1>6, <2>2, <2>3 DEF TypeOK, ClaimStored, tables
  <1>7. CASE Commit(c)
    <2> DEFINE k == com[c].key
               b == com[c].content
    <2>1. b \in Content /\ k \in Key /\ com[c].plan \in [Chunk -> SUBSET Chunk]
      BY <1>0, <1>7 DEF RequestsHaveContent, Commit, RequestState
    <2>2. objects' \in [Key -> Content \cup {None}]
      BY <1>7, <2>1, UpsertTyped DEF Commit
    <2>3. blobs' \in [Content -> BlobRow]
      BY <1>7, <2>1, UpsertTyped DEF Commit
    <2>4. place' \in [Content -> [Chunk -> SUBSET Chunk]]
      BY <1>7, <2>1 DEF Commit, TypeOK
    <2>5. \A x \in Xorb : AttachedRow(x, c) \in XorbRow
      BY AttachedRowTyped
    <2>6. xorbs' \in [Xorb -> XorbRow]
      BY <1>7, <2>5 DEF Commit, TypeOK
    <2>7. com' \in [Committer -> RequestState]
      BY <1>7, ResetsTyped, RequestUpdated DEF Commit
    <2>8. blobLock' \in [Content -> Proc \cup {NoProc}] /\ xorbLock' \in [Xorb -> Proc \cup {NoProc}]
      BY <1>7, LocksTyped DEF Commit, Unlock, Proc
    <2> QED
      BY <1>7, <2>2, <2>3, <2>4, <2>6, <2>7, <2>8 DEF Commit, TypeOK
  <1>8. CASE LockKey(c)
    <2>1. [com[c] EXCEPT !.pc = "commit"] \in RequestState
      BY <1>0, PcTyped
    <2> QED
      BY <1>8, <2>1, RequestUpdated DEF TypeOK, LockKey, tables, locks
  <1> QED
    BY <1>1, <1>2, <1>3, <1>4, <1>5, <1>6, <1>7, <1>8, DeleteObjectTyped DEF CommitStep

LEMMA EndCommitTyped ==
    ASSUME TypeOK, NEW c \in Committer, EndCommit(c)
    PROVE TypeOK'
  <1>1. com' \in [Committer -> RequestState]
    BY ResetsTyped, RequestUpdated DEF EndCommit
  <1>2. blobLock' \in [Content -> Proc \cup {NoProc}] /\ xorbLock' \in [Xorb -> Proc \cup {NoProc}]
    BY LocksTyped DEF EndCommit, Unlock, Proc
  <1> QED
    BY <1>1, <1>2 DEF EndCommit, TypeOK, tables

\* A job takes a new candidate.
LEMMA JobTyped ==
    ASSUME TypeOK, NEW g \in Collector, Job(g)
    PROVE TypeOK'
  <1>1. ASSUME NEW b \in Content, PickBlob(g, b) PROVE TypeOK'
    <2>1. [IdleJob EXCEPT !.pc = "detach", !.blob = b] \in JobState
      BY ResetsTyped DEF JobState
    <2>2. col' \in [Collector -> JobState]
      BY <1>1, <2>1, JobUpdated DEF PickBlob
    <2> QED
      BY <1>1, <2>2, LocksTyped DEF PickBlob, TypeOK, tables, Proc
  <1>2. ASSUME NEW x \in Xorb, NEW pc \in {"deleteBytes", "reclaim", "use"}
        PROVE [IdleJob EXCEPT !.pc = pc, !.xorb = x] \in JobState
    BY ResetsTyped DEF JobState, Xorb
  <1>3. ASSUME NEW x \in Xorb, PickXorb(g, x) PROVE TypeOK'
    <2>1. col' \in [Collector -> JobState]
      BY <1>2, <1>3, JobUpdated DEF PickXorb
    <2> QED
      BY <1>3, <2>1, LocksTyped DEF PickXorb, TypeOK, tables, Proc
  <1>4. ASSUME NEW x \in Xorb, ClaimOrphan(g, x) PROVE TypeOK'
    <2>1. col' \in [Collector -> JobState]
      BY <1>2, <1>4, JobUpdated DEF ClaimOrphan
    <2> QED
      BY <1>4, <2>1, LocksTyped DEF ClaimOrphan, TypeOK, tables, Proc
  <1>5. ASSUME NEW x \in Xorb, ClaimCompaction(g, x) PROVE TypeOK'
    <2>1. col' \in [Collector -> JobState]
      BY <1>2, <1>5, JobUpdated, ResetsTyped DEF ClaimCompaction
    <2>2. xorbs' \in [Xorb -> XorbRow]
      BY <1>5 DEF ClaimCompaction, TypeOK, XorbRow
    <2> QED
      BY <1>5, <2>1, <2>2 DEF ClaimCompaction, TypeOK, locks
  <1> QED
    BY <1>1, <1>3, <1>4, <1>5 DEF Job

LEMMA GiveUpTyped ==
    ASSUME TypeOK, NEW g \in Collector, GiveUp(g)
    PROVE /\ col' \in [Collector -> JobState]
          /\ blobLock' \in [Content -> Proc \cup {NoProc}]
          /\ xorbLock' \in [Xorb -> Proc \cup {NoProc}]
  <1>1. col[g] \in JobState
    BY DEF TypeOK
  <1>2. [IdleJob EXCEPT !.pc = "requeue", !.xorb = col[g].xorb] \in JobState
    BY <1>1, ResetsTyped DEF JobState
  <1>3. col' \in [Collector -> JobState]
    BY <1>2, JobUpdated DEF GiveUp
  <1> QED
    BY <1>3, LocksTyped DEF GiveUp, Unlock, Proc

LEMMA FailJobTyped ==
    ASSUME TypeOK, NEW g \in Collector, FailJob(g)
    PROVE TypeOK'
  <1>1. col' \in [Collector -> JobState]
    BY ResetsTyped, JobUpdated DEF FailJob
  <1> QED
    BY <1>1, LocksTyped DEF FailJob, Unlock, TypeOK, tables, Proc

LEMMA ScrubTyped ==
    ASSUME TypeOK, NEW x \in Xorb, Scrub(x)
    PROVE TypeOK'
  <1> DEFINE sound == \A c \in x : Sound(x, c)
             next == [xorbs[x] EXCEPT !.damaged = ~sound, !.released = xorbs[x].released \/ ~sound]
  <1>1. xorbs[x] \in XorbRow
    BY DEF TypeOK
  <1>3. xorbs' = [xorbs EXCEPT ![x] = next]
    BY <1>1 DEF Scrub, TypeOK
  <1> HIDE DEF sound
  <1>2. (~sound) \in BOOLEAN /\ (xorbs[x].released \/ ~sound) \in BOOLEAN
    OBVIOUS
  <1>4. next \in XorbRow
    BY <1>1, <1>2 DEF XorbRow
  <1>5. xorbs' \in [Xorb -> XorbRow]
    BY <1>3, <1>4 DEF TypeOK
  <1> QED
    BY <1>5 DEF Scrub, TypeOK, locks

LEMMA RotTyped ==
    ASSUME TypeOK, NEW x \in Xorb, NEW c \in x, Rot(x, c)
    PROVE TypeOK'
  <1>1. bytes[x] \in Stored /\ c \in Chunk
    BY DEF TypeOK, Xorb
  <1>4. [bytes[x] EXCEPT !.bad = @ \cup {c}] \in Stored
    BY <1>1 DEF Stored
  <1>2. bytes' \in [Xorb -> Stored]
    BY <1>4 DEF Rot, TypeOK
  <1>3. rotted' \in 0..MaxRot
    BY BoundAssumption DEF Rot, TypeOK
  <1> QED
    BY <1>2, <1>3 DEF Rot, TypeOK, tables, locks

\* The blobs a xorb is counted over are finitely many.
LEMMA CountTyped == \A S : S \subseteq Content => Cardinality(S) \in Nat
  BY FS_CardinalityType, FS_Subset, ContentAssumption

LEMMA MoveTermsTyped ==
    ASSUME TypeOK, NEW g \in Collector, MoveTerms(g)
    PROVE TypeOK'
  <1> DEFINE from == col[g].xorb
             to == col[g].live
             moved == [b \in Content |-> [c \in Chunk |-> IF place[b][c] = from THEN to ELSE place[b][c]]]
             users == {b \in Content : to \in XorbsIn(moved[b])}
             emptied == [xorbs[from] EXCEPT !.ref = 0, !.released = FALSE]
             counted == [ClaimedRow(to, g) EXCEPT !.ref = Cardinality(users)]
  <1>0. col[g] \in JobState
    BY DEF TypeOK
  <1>1. CASE Covered(g)
    <2>1. /\ place' = moved
          /\ xorbs' = [xorbs EXCEPT ![from] = [@ EXCEPT !.ref = 0, !.released = FALSE],
                                    ![to] = counted]
          /\ Unlock(g)
          /\ col' = [col EXCEPT ![g] = IdleJob]
      BY <1>1 DEF MoveTerms
    <2>2. place' \in [Content -> [Chunk -> SUBSET Chunk]]
      BY <2>1, <1>0 DEF TypeOK, JobState
    <2>3. Cardinality(users) \in Nat
      BY CountTyped
    <2> HIDE DEF users
    <2>4. to \in Xorb => counted \in XorbRow
      BY <2>3, ClaimedRowTyped DEF XorbRow, Proc
    <2>5. ASSUME from \in Xorb PROVE emptied \in XorbRow
      <3>1. xorbs[from] \in XorbRow
        BY <2>5 DEF TypeOK
      <3> QED
        BY <3>1 DEF XorbRow
    <2> HIDE DEF counted
    <2>6. xorbs' \in [Xorb -> XorbRow]
      BY <2>1, <2>4, <2>5 DEF TypeOK
    <2>7. col' \in [Collector -> JobState]
      BY <2>1, ResetsTyped, JobUpdated
    <2> QED
      BY <2>1, <2>2, <2>6, <2>7, LocksTyped DEF MoveTerms, TypeOK, Unlock, Proc
  <1>2. CASE ~Covered(g)
    BY <1>2, GiveUpTyped DEF MoveTerms, TypeOK
  <1> QED
    BY <1>1, <1>2

LEMMA JobStepTyped ==
    ASSUME TypeOK, JobsHaveSubjects, NEW g \in Collector, JobStep(g)
    PROVE TypeOK'
  <1>0. col[g] \in JobState /\ g \in Proc
    BY DEF TypeOK, Proc
  <1>idle. col' = [col EXCEPT ![g] = IdleJob] => col' \in [Collector -> JobState]
    BY ResetsTyped, JobUpdated
  <1>1. CASE LockDetached(g)
    BY <1>0, <1>1, LocksTyped DEF LockDetached, TypeOK, tables
  <1>2. CASE SweepBlob(g)
    <2> DEFINE b == col[g].blob
    <2>1. \A x \in Xorb : DetachedRow(xorbs[x]) \in XorbRow
      <3> SUFFICES ASSUME NEW x \in Xorb PROVE DetachedRow(xorbs[x]) \in XorbRow
        OBVIOUS
      <3>1. xorbs[x] \in XorbRow
        BY DEF TypeOK
      <3>2. Drop(xorbs[x].ref) \in Nat /\ (xorbs[x].released \/ xorbs[x].ref > 1) \in BOOLEAN
        BY <3>1 DEF Drop, XorbRow
      <3> QED
        BY <3>1, <3>2 DEF DetachedRow, XorbRow
    <2>2. xorbs' \in [Xorb -> XorbRow]
      BY <1>2, <2>1 DEF SweepBlob, TypeOK
    <2>3. blobs' \in [Content -> BlobRow]
      BY <1>2 DEF SweepBlob, TypeOK, BlobRow
    <2>4. place' \in [Content -> [Chunk -> SUBSET Chunk]]
      BY <1>2, ResetsTyped DEF SweepBlob, TypeOK
    <2>5. col' \in [Collector -> JobState]
      BY <1>2, <1>idle DEF SweepBlob
    <2> QED
      BY <1>0, <1>2, <2>2, <2>3, <2>4, <2>5, LocksTyped DEF SweepBlob, Unlock, TypeOK
  <1>3. CASE DeleteXorbBytes(g)
    <2>1. [col[g] EXCEPT !.pc = "deleteRow"] \in JobState
      BY <1>0, PcTyped
    <2> QED
      BY <1>3, <2>1, BytesTyped DEF DeleteXorbBytes, TypeOK, tables, locks
  <1>4. CASE SweepXorb(g)
    <2>1. xorbs' \in [Xorb -> XorbRow]
      BY <1>4, ResetsTyped DEF SweepXorb, TypeOK
    <2> QED
      BY <1>0, <1>4, <2>1, <1>idle, LocksTyped DEF SweepXorb, Unlock, TypeOK
  <1>5. CASE ReclaimOrphan(g)
    BY <1>0, <1>5, <1>idle, BytesTyped, LocksTyped DEF ReclaimOrphan, Unlock, TypeOK, tables
  <1>6. CASE ReadUse(g)
    <2>1. LiveChunks(col[g].xorb) \in SUBSET Chunk
      BY DEF LiveChunks
    <2>2. [col[g] EXCEPT !.pc = "copy", !.live = LiveChunks(col[g].xorb)] \in JobState
      BY <1>0, <2>1 DEF JobState
    <2>3. col' \in [Collector -> JobState]
      BY <1>6, <2>2, <1>idle DEF ReadUse, TypeOK
    <2> QED
      BY <1>6, <2>3 DEF ReadUse, TypeOK, tables, locks
  <1>7. CASE CopyLive(g)
    <2> DEFINE live == col[g].live
    <2>1. bytes' \in [Xorb -> Stored]
      <3>1. Unread(g) \in SUBSET Chunk
        BY <1>0 DEF JobState, Unread
      <3>2. PutOnce(col[g].live, g, Unread(g)) \/ UNCHANGED bytes
        BY <1>7 DEF CopyLive
      <3>3. g \in Proc
        BY DEF Proc
      <3>4. CASE PutOnce(col[g].live, g, Unread(g))
        BY <3>1, <3>3, <3>4, BytesTyped
      <3>5. CASE UNCHANGED bytes
        BY <3>5 DEF TypeOK
      <3> QED
        BY <3>2, <3>4, <3>5
    <2>2. \A x \in Xorb : [xorbs[x] EXCEPT !.damaged = TRUE, !.released = TRUE] \in XorbRow
      BY DEF TypeOK, XorbRow
    <2>3. xorbs' \in [Xorb -> XorbRow]
      BY <1>7, <2>2 DEF CopyLive, TypeOK
    <2>4. bytes[live].there \in BOOLEAN
      BY <1>7 DEF CopyLive, TypeOK, Stored, JobsHaveSubjects
    <2>6. [col[g] EXCEPT !.pc = "move", !.existed = bytes[live].there] \in JobState
      BY <1>0, <2>4 DEF JobState
    <2>5. col' \in [Collector -> JobState]
      BY <1>7, <2>6, <1>idle DEF CopyLive, TypeOK
    <2> QED
      BY <1>7, <2>1, <2>3, <2>5 DEF CopyLive, TypeOK, locks
  <1>8. CASE ReadMoved(g)
    <2>1. [col[g] EXCEPT !.pc = "lockBlobs", !.blobs = BlobsOn(col[g].xorb)] \in JobState
      BY <1>0 DEF JobState, BlobsOn
    <2> QED
      BY <1>8, <2>1 DEF ReadMoved, TypeOK, tables, locks
  <1>9. CASE LockMoved(g)
    <2>1. [col[g] EXCEPT !.pc = "lockXorbs"] \in JobState
      BY <1>0, PcTyped
    <2> QED
      BY <1>0, <1>9, <2>1, LocksTyped DEF LockMoved, TypeOK, tables
  <1>10. CASE LockMovedXorb(g)
    <2>1. bytes' \in [Xorb -> Stored]
      BY <1>10, BytesTyped DEF LockMovedXorb, TypeOK
    <2>2. /\ col' \in [Collector -> JobState]
          /\ blobLock' \in [Content -> Proc \cup {NoProc}]
          /\ xorbLock' \in [Xorb -> Proc \cup {NoProc}]
      BY <1>0, <1>10, GiveUpTyped, LocksTyped DEF LockMovedXorb, TypeOK
    <2> QED
      BY <1>10, <2>1, <2>2 DEF LockMovedXorb, TypeOK, tables
  <1>11. CASE MoveTerms(g)
    BY <1>11, MoveTermsTyped
  <1>12. CASE RequeueCompaction(g)
    <2> DEFINE x == col[g].xorb
    <2>1. x \in Xorb => [xorbs[x] EXCEPT !.released = xorbs[x].released \/ xorbs[x].ref > 0] \in XorbRow
      BY DEF TypeOK, XorbRow
    <2>2. xorbs' \in [Xorb -> XorbRow]
      BY <1>12, <2>1 DEF RequeueCompaction, TypeOK
    <2> QED
      BY <1>12, <2>2, <1>idle DEF RequeueCompaction, TypeOK, locks
  <1>13. CASE LockTimeout(g)
    BY <1>13, GiveUpTyped DEF LockTimeout, TypeOK, tables
  <1> QED
    BY <1>1, <1>2, <1>3, <1>4, <1>5, <1>6, <1>7, <1>8, <1>9, <1>10, <1>11, <1>12, <1>13
    DEF JobStep

\* Requests keep what they are about until they end.
LEMMA RequestSubjects ==
    ASSUME TypeOK, RequestsHaveContent, NEW c \in Committer,
           Request(c) \/ CommitStep(c) \/ EndCommit(c)
    PROVE RequestsHaveContent'
  <1> DEFINE About(t) == t.pc # "idle" => t.content \in Content /\ t.key \in Key
  <1>0. About(com[c]) /\ com[c] \in RequestState
    BY DEF RequestsHaveContent, TypeOK
  <1>1. ASSUME NEW t, About(t), com' = [com EXCEPT ![c] = t]
        PROVE RequestsHaveContent'
    BY <1>1 DEF RequestsHaveContent, TypeOK
  <1>2. UNCHANGED com => RequestsHaveContent'
    BY DEF RequestsHaveContent
  <1>3. CASE Request(c)
    <2>1. \A k \in Key : objects[k] # None => objects[k] \in Content
      BY DEF TypeOK
    <2> QED
      BY <1>1, <1>3, <2>1
      DEF Request, StartPut, StartLink, StartCopy, StartDelete, IdleCommit
  <1>4. ASSUME com[c].pc # "idle",
               \/ com' = [com EXCEPT ![c] = IdleCommit]
               \/ Retry(c)
        PROVE RequestsHaveContent'
    BY <1>0, <1>1, <1>4 DEF Retry, IdleCommit
  <1>5. CASE EndCommit(c)
    BY <1>1, <1>5 DEF EndCommit, IdleCommit
  <1>6. ASSUME com[c].pc # "idle",
               /\ com'[c].content = com[c].content /\ com'[c].key = com[c].key
               /\ \A d \in Committer \ {c} : com'[d] = com[d]
        PROVE RequestsHaveContent'
    BY <1>0, <1>6 DEF RequestsHaveContent
  <1>7. CASE CommitStep(c)
    <2>1. CASE PlanPlacement(c)
      BY <1>0, <1>6, <2>1 DEF PlanPlacement, TypeOK, RequestState
    <2>2. CASE PlanChunks(c)
      <3>1. com[c].pc # "idle"
        BY <2>2 DEF PlanChunks
      <3>2. PICK plan, new : com' = [com EXCEPT ![c].pc = "write", ![c].plan = plan,
                                                ![c].new = new, ![c].unwritten = new]
        BY <2>2, PlanChunksPlaces
      <3>3. /\ com'[c].content = com[c].content /\ com'[c].key = com[c].key
            /\ \A d \in Committer \ {c} : com'[d] = com[d]
        BY <1>0, <3>2 DEF TypeOK, RequestState
      <3> QED
        BY <1>6, <3>1, <3>3
    <2>3. ASSUME NEW x \in Xorb, WriteXorb(c, x) PROVE RequestsHaveContent'
      BY <1>0, <1>6, <2>3 DEF WriteXorb, TypeOK, RequestState
    <2>4. CASE ClaimBlob(c)
      BY <1>0, <1>4, <1>6, <2>4 DEF ClaimBlob, TypeOK, RequestState
    <2>5. CASE ClaimXorb(c)
      BY <1>0, <1>4, <1>6, <2>5 DEF ClaimXorb, TypeOK, RequestState
    <2>6. CASE ClaimStored(c)
      BY <1>0, <1>4, <1>6, <2>6 DEF ClaimStored, TypeOK, RequestState
    <2>7. CASE Commit(c) \/ DeleteObject(c)
      BY <1>4, <2>7 DEF Commit, DeleteObject
    <2>8. CASE LockKey(c)
      BY <1>0, <1>6, <2>8 DEF LockKey, TypeOK, RequestState
    <2> QED
      BY <1>7, <2>1, <2>2, <2>3, <2>4, <2>5, <2>6, <2>7, <2>8 DEF CommitStep
  <1> QED
    BY <1>3, <1>5, <1>7

\* Jobs keep what they are about until they end.
LEMMA JobSubjects ==
    ASSUME TypeOK, JobsHaveSubjects, NEW g \in Collector,
           Job(g) \/ JobStep(g) \/ FailJob(g)
    PROVE JobsHaveSubjects'
  <1> DEFINE About(t) ==
        /\ t.pc = "detach" => t.blob \in Content
        /\ t.pc \in {"deleteBytes", "deleteRow", "reclaim", "use", "copy", "move", "lockBlobs",
                     "lockXorbs", "requeue"} => t.xorb \in Xorb
        /\ t.pc \in {"copy", "move", "lockBlobs", "lockXorbs"} => t.live \in Xorb
  <1>0. About(col[g]) /\ col[g] \in JobState
    BY DEF JobsHaveSubjects, TypeOK
  <1>1. ASSUME NEW t, About(t), col' = [col EXCEPT ![g] = t]
        PROVE JobsHaveSubjects'
    BY <1>1 DEF JobsHaveSubjects, TypeOK
  <1>2. UNCHANGED col => JobsHaveSubjects'
    BY DEF JobsHaveSubjects
  <1>3. About(IdleJob)
    BY DEF IdleJob
  <1>4. CASE Job(g)
    BY <1>1, <1>2, <1>3, <1>4 DEF Job, PickBlob, PickXorb, ClaimOrphan, ClaimCompaction, IdleJob
  <1>5. CASE FailJob(g)
    BY <1>1, <1>3, <1>5 DEF FailJob
  <1>6. ASSUME GiveUp(g), col[g].xorb \in Xorb PROVE JobsHaveSubjects'
    BY <1>1, <1>6 DEF GiveUp, IdleJob
  <1>7. CASE JobStep(g)
    <2>1. CASE LockDetached(g)
      BY <1>2, <2>1 DEF LockDetached
    <2>2. CASE SweepBlob(g) \/ SweepXorb(g) \/ ReclaimOrphan(g) \/ RequeueCompaction(g)
      BY <1>1, <1>3, <2>2 DEF SweepBlob, SweepXorb, ReclaimOrphan, RequeueCompaction
    <2>3. CASE DeleteXorbBytes(g)
      BY <1>0, <1>1, <2>3 DEF DeleteXorbBytes, TypeOK, JobState
    <2>4. CASE ReadUse(g)
      <3>1. LiveChunks(col[g].xorb) # {} => LiveChunks(col[g].xorb) \in Xorb
        BY DEF LiveChunks, Xorb
      <3> QED
        BY <1>0, <1>1, <1>3, <2>4, <3>1 DEF ReadUse, TypeOK, JobState
    <2>5. CASE CopyLive(g)
      BY <1>0, <1>1, <1>3, <2>5 DEF CopyLive, TypeOK, JobState
    <2>6. CASE ReadMoved(g)
      BY <1>0, <1>1, <2>6 DEF ReadMoved, TypeOK, JobState
    <2>7. CASE LockMoved(g)
      BY <1>0, <1>1, <1>2, <2>7 DEF LockMoved, TypeOK, JobState
    <2>8. CASE LockMovedXorb(g)
      BY <1>0, <1>2, <1>6, <2>8 DEF LockMovedXorb
    <2>9. CASE MoveTerms(g)
      BY <1>0, <1>1, <1>3, <1>6, <2>9 DEF MoveTerms
    <2>10. CASE LockTimeout(g)
      BY <1>0, <1>6, <2>10 DEF LockTimeout, Moving
    <2> QED
      BY <1>7, <2>1, <2>2, <2>3, <2>4, <2>5, <2>6, <2>7, <2>8, <2>9, <2>10 DEF JobStep
  <1> QED
    BY <1>4, <1>5, <1>7

LEMMA TypedStep == Typed /\ [Next]_vars => Typed'
  <1> SUFFICES ASSUME Typed, [Next]_vars PROVE Typed'
    OBVIOUS
  <1> USE DEF Typed
  <1>1. UNCHANGED com => RequestsHaveContent'
    BY DEF RequestsHaveContent
  <1>2. UNCHANGED col => JobsHaveSubjects'
    BY DEF JobsHaveSubjects
  <1>3. ASSUME NEW c \in Committer, Request(c) PROVE Typed'
    BY <1>2, <1>3, RequestTyped, RequestSubjects
    DEF Request, StartPut, StartLink, StartCopy, StartDelete
  <1>4. ASSUME NEW c \in Committer, CommitStep(c) PROVE Typed'
    <2>1. UNCHANGED col
      BY <1>4 DEF CommitStep, PlanPlacement, PlanChunks, WriteXorb, ClaimBlob, ClaimXorb,
                  ClaimStored, LockKey, Commit, DeleteObject
    <2> QED
      BY <1>2, <1>4, <2>1, CommitStepTyped, RequestSubjects
  <1>5. ASSUME NEW c \in Committer, EndCommit(c) PROVE Typed'
    BY <1>2, <1>5, EndCommitTyped, RequestSubjects DEF EndCommit
  <1>7. ASSUME NEW g \in Collector, Job(g) PROVE Typed'
    BY <1>1, <1>7, JobTyped, JobSubjects DEF Job, PickBlob, PickXorb, ClaimOrphan, ClaimCompaction
  <1>8. ASSUME NEW g \in Collector, JobStep(g) PROVE Typed'
    <2>1. UNCHANGED com
      BY <1>8 DEF JobStep, LockDetached, SweepBlob, DeleteXorbBytes, SweepXorb, ReclaimOrphan,
                  ReadUse, CopyLive, ReadMoved, LockMoved, LockMovedXorb, MoveTerms,
                  RequeueCompaction, LockTimeout
    <2> QED
      BY <1>1, <1>8, <2>1, JobStepTyped, JobSubjects
  <1>9. ASSUME NEW g \in Collector, FailJob(g) PROVE Typed'
    BY <1>1, <1>9, FailJobTyped, JobSubjects DEF FailJob
  <1>10. ASSUME NEW x \in Xorb, Scrub(x) PROVE Typed'
    BY <1>1, <1>2, <1>10, ScrubTyped DEF Scrub
  <1>11. ASSUME NEW x \in Xorb, NEW c \in x, Rot(x, c) PROVE Typed'
    BY <1>1, <1>2, <1>11, RotTyped DEF Rot
  <1>12. CASE UNCHANGED vars
    BY <1>1, <1>2, <1>12 DEF vars, TypeOK
  <1> QED
    BY <1>3, <1>4, <1>5, <1>7, <1>8, <1>9, <1>10, <1>11, <1>12
    DEF Next, Steps, FailCommit, VictimCommit

\* Every variable keeps its type, and every request and job its subject, in
\* every behaviour of the store.
THEOREM TypeCorrect == Spec => []TypeOK
  <1>1. Init => Typed
    BY InitTyped DEF Init, Empty, Typed, RequestsHaveContent, JobsHaveSubjects, IdleCommit, IdleJob
  <1>2. Typed => TypeOK
    BY DEF Typed
  <1> QED
    BY <1>1, <1>2, TypedStep, PTL DEF Spec

-----------------------------------------------------------------------------
\* What a process relies on holds for as long as its locks are respected.
LEMMA CommitRespected ==
    ASSUME IInv, NEW c \in Committer, com'[c] = com[c], Respected(c)
    PROVE CommitInv(c)'
  <1> DEFINE t == com[c]
  <1>1. CommitInv(c) /\ (t.pc # "idle" => t.content \in Content)
    BY DEF IInv, Typed, RequestsHaveContent
  <1>2. t.pc \in {"claimXorbs", "upsert", "commit"} =>
           t.content \in BlobsHeld(c) /\ t.content \in BlobsHeld(c)'
    BY <1>1 DEF CommitInv, BlobsHeld, Respected
  <1>3. t.pc \in {"claimXorbs", "upsert", "commit"} =>
           blobLock'[t.content] = c /\ blobs'[t.content].row = blobs[t.content].row
    BY <1>1, <1>2 DEF Respected, BlobsHeld
  <1>4. \A x \in XorbsHeld(c)' : bytes'[x].there
    BY <1>1 DEF CommitInv, Respected
  <1> QED
    BY <1>1, <1>3, <1>4 DEF CommitInv, Respected, Places

LEMMA JobRespected ==
    ASSUME IInv, NEW g \in Collector, col'[g] = col[g], Respected(g)
    PROVE JobInv(g)'
  <1> DEFINE t == col[g]
  <1>1. JobInv(g)
    BY DEF IInv
  <1>2. /\ t.pc = "detach" => t.blob \in Content
        /\ t.pc \in {"deleteBytes", "deleteRow", "reclaim"} => t.xorb \in Xorb
        /\ t.pc = "lockXorbs" => t.live \in Xorb
    BY DEF IInv, Typed, JobsHaveSubjects
  <1>3. t.pc = "detach" => blobLock'[t.blob] = g /\ ~Referenced(t.blob)'
    <2> SUFFICES ASSUME t.pc = "detach" PROVE blobLock'[t.blob] = g /\ ~Referenced(t.blob)'
      OBVIOUS
    <2>1. t.blob \in BlobsHeld(g) /\ ~Referenced(t.blob)
      BY <1>1, <1>2 DEF JobInv, BlobsHeld
    <2> QED
      BY <2>1 DEF Respected, BlobsHeld
  <1>4. t.pc \in {"deleteBytes", "deleteRow"} =>
           xorbLock'[t.xorb] = g /\ xorbs'[t.xorb].ref = 0 /\ BlobsOn(t.xorb)' = {}
    <2> SUFFICES ASSUME t.pc \in {"deleteBytes", "deleteRow"}
                 PROVE xorbLock'[t.xorb] = g /\ xorbs'[t.xorb].ref = 0 /\ BlobsOn(t.xorb)' = {}
      OBVIOUS
    <2>1. t.xorb \in XorbsHeld(g) /\ xorbs[t.xorb].ref = 0 /\ BlobsOn(t.xorb) = {}
      BY <1>1, <1>2 DEF JobInv, XorbsHeld
    <2> QED
      BY <2>1 DEF Respected, XorbsHeld
  <1>5. t.pc = "reclaim" => xorbLock'[t.xorb] = g /\ ~xorbs'[t.xorb].row
    BY <1>1, <1>2 DEF JobInv, XorbsHeld, Respected
  <1>6. t.pc \in {"idle", "use", "copy", "move", "lockBlobs", "requeue"} => XorbsHeld(g)' = {}
    BY <1>1 DEF JobInv, Respected
  <1>7. t.pc = "lockXorbs" /\ xorbLock'[t.live] = g => bytes'[t.live].there
    BY <1>1, <1>2 DEF JobInv, XorbsHeld, Respected
  <1> QED
    BY <1>3, <1>4, <1>5, <1>6, <1>7 DEF JobInv

\* Taking a free lock and ending a transaction leave the others their locks.
LEMMA LocksKept ==
    ASSUME TypeOK, NEW p \in Proc, NEW q \in Proc, q # p
    PROVE /\ \A b \in Content : BlobFree(b, p) /\ LockBlob(b, p) => BlobsHeld(q)' = BlobsHeld(q)
          /\ \A x \in Xorb : XorbFree(x, p) /\ LockXorb(x, p) => XorbsHeld(q)' = XorbsHeld(q)
          /\ UnlockBlobs(p) => BlobsHeld(q)' = BlobsHeld(q)
          /\ UnlockXorbs(p) => XorbsHeld(q)' = XorbsHeld(q)
          /\ UNCHANGED blobLock => BlobsHeld(q)' = BlobsHeld(q)
          /\ UNCHANGED xorbLock => XorbsHeld(q)' = XorbsHeld(q)
  <1>0. q # NoProc
    BY ProcessAssumption
  <1>1. ASSUME NEW b \in Content, BlobFree(b, p), LockBlob(b, p) PROVE BlobsHeld(q)' = BlobsHeld(q)
    BY <1>0, <1>1 DEF BlobFree, LockBlob, BlobsHeld, TypeOK
  <1>2. ASSUME NEW x \in Xorb, XorbFree(x, p), LockXorb(x, p) PROVE XorbsHeld(q)' = XorbsHeld(q)
    BY <1>0, <1>2 DEF XorbFree, LockXorb, XorbsHeld, TypeOK
  <1>3. UnlockBlobs(p) => BlobsHeld(q)' = BlobsHeld(q)
    BY <1>0 DEF UnlockBlobs, BlobsHeld
  <1>4. UnlockXorbs(p) => XorbsHeld(q)' = XorbsHeld(q)
    BY <1>0 DEF UnlockXorbs, XorbsHeld
  <1> QED
    BY <1>1, <1>2, <1>3, <1>4 DEF BlobsHeld, XorbsHeld

LEMMA UnlockReleases ==
    ASSUME TypeOK, NEW p \in Proc, UnlockXorbs(p)
    PROVE XorbsHeld(p)' = {}
  BY ProcessAssumption DEF UnlockXorbs, XorbsHeld

\* A step that changes no blob row, term, or xorb row or refcount, and deletes
\* no bytes, keeps the store's invariant.
LEMMA StoreKept ==
    ASSUME StoreInv, UNCHANGED place,
           \A k \in Key : objects'[k] \in {objects[k], None},
           \A b \in Content : blobs'[b].row = blobs[b].row,
           \A x \in Xorb : xorbs'[x].row = xorbs[x].row /\ xorbs'[x].ref = xorbs[x].ref,
           \A x \in Xorb : bytes[x].there => bytes'[x].there,
           TypeOK
    PROVE StoreInv'
  <1>1. TermsMatchRows'
    BY DEF StoreInv, TermsMatchRows, Places
  <1>2. TermsAreStored'
    <2>1. \A b \in Content : \A c \in Chunk : place[b][c] # NoXorb => place[b][c] \in Xorb
      BY DEF TypeOK, NoXorb, Xorb
    <2> QED
      BY <2>1 DEF StoreInv, TermsAreStored
  <1>3. LiveXorbsAreStored'
    BY DEF StoreInv, LiveXorbsAreStored
  <1>4. ObjectsHaveRows'
    BY DEF StoreInv, ObjectsHaveRows, TypeOK
  <1>5. NoRowNoReference'
    BY DEF StoreInv, NoRowNoReference
  <1> QED
    BY <1>1, <1>2, <1>3, <1>4, <1>5 DEF StoreInv

\* A step that changes no table and deletes no bytes respects whoever keeps
\* its locks.
LEMMA ReadsRespect ==
    ASSUME NEW q \in Proc, UNCHANGED <<objects, place>>,
           \A b \in Content : blobs'[b].row = blobs[b].row,
           \A x \in Xorb : xorbs'[x].row = xorbs[x].row /\ xorbs'[x].ref = xorbs[x].ref,
           \A x \in XorbsHeld(q) : bytes[x].there => bytes'[x].there,
           BlobsHeld(q)' = BlobsHeld(q), XorbsHeld(q)' = XorbsHeld(q)
    PROVE Respected(q)
  <1>1. \A x \in XorbsHeld(q) : BlobsOn(x)' = BlobsOn(x)
    BY DEF BlobsOn, XorbsIn
  <1>2. \A b \in BlobsHeld(q) : Referenced(b)' = Referenced(b)
    BY DEF Referenced
  <1> QED
    BY <1>1, <1>2 DEF Respected, BlobsHeld, XorbsHeld

\* A step of one process keeps the invariant if it keeps the store's, its own,
\* and respects every other process.
LEMMA CommitterSuffices ==
    ASSUME IInv, Typed', NEW c \in Committer, StoreInv', CommitInv(c)',
           \A d \in Committer \ {c} : com'[d] = com[d], UNCHANGED col,
           \A q \in Proc \ {c} : Respected(q)
    PROVE IInv'
  <1>1. \A d \in Committer : CommitInv(d)'
    BY CommitRespected DEF Proc
  <1>2. \A g \in Collector : JobInv(g)'
    BY JobRespected, ProcessAssumption DEF Proc
  <1> QED
    BY <1>1, <1>2 DEF IInv

LEMMA CollectorSuffices ==
    ASSUME IInv, Typed', NEW g \in Collector, StoreInv', JobInv(g)',
           \A h \in Collector \ {g} : col'[h] = col[h], UNCHANGED com,
           \A q \in Proc \ {g} : Respected(q)
    PROVE IInv'
  <1>1. \A d \in Committer : CommitInv(d)'
    BY CommitRespected, ProcessAssumption DEF Proc
  <1>2. \A h \in Collector : JobInv(h)'
    BY JobRespected DEF Proc
  <1> QED
    BY <1>1, <1>2 DEF IInv

LEMMA RespectSuffices ==
    ASSUME IInv, Typed', StoreInv', UNCHANGED <<com, col>>, \A q \in Proc : Respected(q)
    PROVE IInv'
  BY CommitRespected, JobRespected DEF IInv, Proc

\* What a request holds is stored, whatever it goes on to.
LEMMA IdleCommitInv ==
    ASSUME IInv, NEW c \in Committer,
           com'[c].pc \notin {"write", "claimXorbs", "upsert", "commit"},
           com'[c].pc = "placement" => com'[c].plan = Unplaced,
           \A x \in XorbsHeld(c)' : bytes'[x].there
    PROVE CommitInv(c)'
  BY DEF CommitInv

\* A transaction that rolls back changes no table.
LEMMA RollbackKeeps ==
    ASSUME IInv, Typed', NEW c \in Committer, Retry(c) \/ EndCommit(c),
           UNCHANGED <<tables, col>>,
           \A x \in Xorb : bytes[x].there /\ xorbLock[x] # NoProc => bytes'[x].there,
           StoreInv'
    PROVE IInv'
  <1> USE DEF IInv, Typed
  <1>1. XorbsHeld(c)' = {}
    BY UnlockReleases DEF Retry, EndCommit, Unlock, Proc
  <1>2. /\ com'[c].pc \in {"idle", "placement"} /\ com'[c].plan = Unplaced
        /\ \A d \in Committer \ {c} : com'[d] = com[d]
    <2>1. CASE Retry(c)
      BY <2>1 DEF TypeOK, Retry, IdleCommit
    <2>2. CASE EndCommit(c)
      BY <2>2 DEF TypeOK, EndCommit, IdleCommit
    <2> QED
      BY <2>1, <2>2
  <1>3. CommitInv(c)'
    BY <1>1, <1>2, IdleCommitInv
  <1>5. ASSUME NEW q \in Proc \ {c} PROVE Respected(q)
    <2>1. BlobsHeld(q)' = BlobsHeld(q) /\ XorbsHeld(q)' = XorbsHeld(q)
      BY LocksKept DEF Retry, EndCommit, Unlock, Proc
    <2>2. \A x \in XorbsHeld(q) : bytes[x].there => bytes'[x].there
      BY ProcessAssumption DEF XorbsHeld
    <2> QED
      BY <2>1, <2>2, ReadsRespect DEF tables
  <1> QED
    BY <1>2, <1>3, <1>5, CommitterSuffices

LEMMA RequestKeeps ==
    ASSUME IInv, Typed', NEW c \in Committer, Request(c)
    PROVE IInv'
  <1> USE DEF IInv, Typed
  <1> DEFINE Begun ==
        /\ UNCHANGED <<tables, bytes, locks, col>>
        /\ com'[c].pc \in {"placement", "claimStored", "claimLive", "release"}
        /\ com'[c].plan = Unplaced
        /\ \A d \in Committer \ {c} : com'[d] = com[d]
  <1>1. Begun
    <2>1. ASSUME NEW k \in Key, NEW b \in Content, StartPut(c, k, b) PROVE Begun
      BY <2>1 DEF StartPut, IdleCommit, TypeOK
    <2>2. ASSUME NEW k \in Key, NEW b \in Content, StartLink(c, k, b) PROVE Begun
      BY <2>2 DEF StartLink, IdleCommit, TypeOK
    <2>3. ASSUME NEW k \in Key, NEW src \in Key, StartCopy(c, src, k) PROVE Begun
      BY <2>3 DEF StartCopy, IdleCommit, TypeOK
    <2>4. ASSUME NEW k \in Key, StartDelete(c, k) PROVE Begun
      BY <2>4 DEF StartDelete, IdleCommit, TypeOK
    <2> QED
      BY <2>1, <2>2, <2>3, <2>4 DEF Request
  <1>2. StoreInv'
    BY <1>1, StoreKept DEF tables
  <1>3. CommitInv(c)'
    BY <1>1, IdleCommitInv DEF CommitInv, XorbsHeld, locks
  <1>4. \A q \in Proc : Respected(q)
    BY <1>1, ReadsRespect DEF tables, locks, BlobsHeld, XorbsHeld
  <1> QED
    BY <1>1, <1>2, <1>3, <1>4, CommitterSuffices

LEMMA PlanKeeps ==
    ASSUME IInv, Typed', NEW c \in Committer, PlanPlacement(c) \/ PlanChunks(c)
    PROVE IInv'
  <1> USE DEF IInv, Typed
  <1>1. UNCHANGED <<tables, bytes, locks, col>> /\ com[c] \in RequestState
    BY DEF PlanPlacement, PlanChunks, TypeOK
  <1>2. StoreInv'
    BY <1>1, StoreKept DEF tables
  <1>3. \A q \in Proc : Respected(q)
    BY <1>1, ReadsRespect DEF tables, locks, BlobsHeld, XorbsHeld
  <1>4. \A x \in XorbsHeld(c)' : bytes'[x].there
    BY <1>1 DEF CommitInv, XorbsHeld, locks
  <1>5. CASE PlanPlacement(c)
    <2>1. com[c].plan = Unplaced /\ com[c].content \in Content
      BY <1>5 DEF PlanPlacement, CommitInv, RequestsHaveContent
    <2>2. /\ com'[c].pc \in {"write", "locate"} /\ com'[c].plan = Unplaced
          /\ com'[c].content = com[c].content
          /\ com'[c].pc = "write" /\ com'[c].attach => ChunksOf[com[c].content] = {}
          /\ \A d \in Committer \ {c} : com'[d] = com[d]
      BY <1>1, <1>5, <2>1 DEF PlanPlacement, TypeOK, RequestState
    <2>3. ChunksOf[com[c].content] = {} => Places(Unplaced, com[c].content)
      BY DEF Places, Unplaced
    <2>4. CommitInv(c)'
      BY <1>4, <2>2, <2>3 DEF CommitInv, Places
    <2> QED
      BY <1>1, <1>2, <1>3, <2>2, <2>4, CommitterSuffices
  <1>6. CASE PlanChunks(c)
    <2>1. PICK plan \in [Chunk -> SUBSET Chunk], new \in SUBSET Xorb :
             /\ Places(plan, com[c].content)
             /\ com' = [com EXCEPT ![c].pc = "write", ![c].plan = plan,
                                   ![c].new = new, ![c].unwritten = new]
      BY <1>6, PlanChunksPlaces
    <2>2. /\ com'[c].pc = "write" /\ com'[c].plan = plan
          /\ com'[c].content = com[c].content
          /\ \A d \in Committer \ {c} : com'[d] = com[d]
      BY <1>1, <2>1 DEF TypeOK, RequestState
    <2>3. CommitInv(c)'
      BY <1>4, <2>1, <2>2 DEF CommitInv, Places
    <2> QED
      BY <1>1, <1>2, <1>3, <2>2, <2>3, CommitterSuffices
  <1> QED
    BY <1>5, <1>6

LEMMA WriteXorbKeeps ==
    ASSUME IInv, Typed', NEW c \in Committer, NEW x \in Xorb, WriteXorb(c, x)
    PROVE IInv'
  <1> USE DEF IInv, Typed
  <1>1. UNCHANGED <<tables, locks, col>> /\ com[c] \in RequestState
    BY DEF WriteXorb, TypeOK
  <1>2. \A y \in Xorb : bytes[y].there => bytes'[y].there
    BY DEF WriteXorb, PutOnce, TypeOK, Stored
  <1>3. StoreInv'
    BY <1>1, <1>2, StoreKept DEF tables
  <1>4. \A q \in Proc : Respected(q)
    BY <1>1, <1>2, ReadsRespect DEF tables, locks, BlobsHeld, XorbsHeld
  <1>5. /\ com'[c].pc = "write" /\ com'[c].plan = com[c].plan
        /\ com'[c].attach = com[c].attach /\ com'[c].content = com[c].content
        /\ \A d \in Committer \ {c} : com'[d] = com[d]
    BY <1>1 DEF WriteXorb, TypeOK, RequestState
  <1>6. com[c].pc = "write"
    BY DEF WriteXorb
  <1>7. \A y \in XorbsHeld(c)' : bytes'[y].there
    BY <1>1, <1>2 DEF CommitInv, XorbsHeld, locks
  <1>8. CommitInv(c)'
    BY <1>5, <1>6, <1>7 DEF CommitInv, Places
  <1> QED
    BY <1>1, <1>3, <1>4, <1>5, <1>8, CommitterSuffices

LEMMA ClaimBlobKeeps ==
    ASSUME IInv, Typed', NEW c \in Committer, ClaimBlob(c)
    PROVE IInv'
  <1> USE DEF IInv, Typed
  <1> DEFINE b == com[c].content
             fresh == ~blobs[b].row
  <1>1. UNCHANGED <<tables, bytes, col>> /\ com[c] \in RequestState /\ com[c].pc = "write"
        /\ b \in Content /\ BlobFree(b, c)
    BY DEF ClaimBlob, TypeOK, RequestsHaveContent
  <1>2. StoreInv'
    BY <1>1, StoreKept DEF tables
  <1>3. CASE Retry(c)
    BY <1>1, <1>2, <1>3, RollbackKeeps
  <1>4. CASE ~Retry(c)
    <2>1. /\ ~fresh \/ com[c].attach
          /\ LockBlob(b, c)
          /\ com' = [com EXCEPT ![c].pc =
                        IF fresh /\ XorbsIn(com[c].plan) # {} THEN "claimXorbs" ELSE "upsert"]
          /\ UNCHANGED xorbLock
      BY <1>4 DEF ClaimBlob
    <2>2. /\ com'[c].pc = IF fresh /\ XorbsIn(com[c].plan) # {} THEN "claimXorbs" ELSE "upsert"
          /\ com'[c].plan = com[c].plan /\ com'[c].content = b
          /\ \A d \in Committer \ {c} : com'[d] = com[d]
      BY <1>1, <2>1 DEF TypeOK, RequestState
    <2>3. ASSUME NEW q \in Proc \ {c} PROVE Respected(q)
      <3>1. BlobsHeld(q)' = BlobsHeld(q) /\ XorbsHeld(q)' = XorbsHeld(q)
        BY <1>1, <2>1, LocksKept DEF Proc
      <3> QED
        BY <1>1, <3>1, ReadsRespect DEF tables
    <2>4. fresh => Places(com[c].plan, b)
      BY <1>1, <2>1 DEF CommitInv
    <2>5. blobLock'[b] = c
      BY <1>1, <2>1 DEF LockBlob, TypeOK
    <2>6. \A x \in XorbsHeld(c)' : bytes'[x].there
      BY <1>1, <2>1 DEF CommitInv, XorbsHeld
    <2>7. CommitInv(c)'
      BY <1>1, <2>2, <2>4, <2>5, <2>6 DEF CommitInv, Places, XorbsIn, tables
    <2> QED
      BY <1>1, <1>2, <2>2, <2>3, <2>7, CommitterSuffices
  <1> QED
    BY <1>3, <1>4

\* What a refcount other than zero stands for.
LEMMA ReferencedStored ==
    ASSUME TypeOK, StoreInv, NEW x \in Xorb, xorbs[x].ref # 0
    PROVE xorbs[x].row /\ bytes[x].there
  <1>1. xorbs[x].row /\ xorbs[x].ref > 0
    BY DEF StoreInv, NoRowNoReference, TypeOK, XorbRow
  <1> QED
    BY <1>1 DEF StoreInv, LiveXorbsAreStored

\* Bytes discarded by a claim have no row, so nothing refers to them.
LEMMA DeleteKeeps ==
    ASSUME TypeOK, StoreInv, NEW x \in Xorb, DeleteBytes(x), UNCHANGED tables,
           ~xorbs[x].row \/ (xorbs[x].ref = 0 /\ BlobsOn(x) = {})
    PROVE StoreInv'
  <1>1. \A y \in Xorb \ {x} : bytes'[y] = bytes[y]
    BY DEF DeleteBytes, TypeOK
  <1>2. \A b \in Content : \A ch \in Chunk : place[b][ch] # x
    <2>1. CASE ~xorbs[x].row
      BY <2>1 DEF StoreInv, TermsAreStored, NoXorb, Xorb
    <2>2. CASE BlobsOn(x) = {}
      BY <2>2 DEF BlobsOn, XorbsIn, NoXorb, Xorb
    <2> QED
      BY <2>1, <2>2
  <1>3. TermsAreStored'
    <2>1. \A b \in Content : \A ch \in Chunk : place[b][ch] # NoXorb => place[b][ch] \in Xorb
      BY DEF TypeOK, NoXorb, Xorb
    <2> QED
      BY <1>1, <1>2, <2>1 DEF StoreInv, TermsAreStored, tables
  <1>4. xorbs[x].ref = 0
    BY DEF StoreInv, NoRowNoReference
  <1>5. LiveXorbsAreStored'
    BY <1>1, <1>4 DEF StoreInv, LiveXorbsAreStored, tables
  <1> QED
    BY <1>3, <1>5 DEF StoreInv, TermsMatchRows, Places, ObjectsHaveRows, NoRowNoReference, tables

LEMMA ClaimXorbKeeps ==
    ASSUME IInv, Typed', NEW c \in Committer, ClaimXorb(c)
    PROVE IInv'
  <1> USE DEF IInv, Typed
  <1>1. UNCHANGED <<tables, col>> /\ com[c] \in RequestState /\ com[c].pc = "claimXorbs"
        /\ com[c].content \in Content
    BY DEF ClaimXorb, TypeOK, RequestsHaveContent
  <1> DEFINE wrote(x) == x \in com[c].new
             existed(x) == x \in com[c].existed
  <1>2. PICK x \in FirstXorb(XorbsToClaim(c)) :
           /\ ~MustWait(x, wrote(x), c)
           /\ IF Discards(x, wrote(x), existed(x)) THEN DeleteBytes(x) ELSE UNCHANGED bytes
           /\ \/ /\ ClaimStale(x, wrote(x), existed(x))
                 /\ Retry(c)
              \/ /\ ~ClaimStale(x, wrote(x), existed(x))
                 /\ LockXorb(x, c)
                 /\ com' = [com EXCEPT ![c].pc = IF XorbsToClaim(c) = {x} THEN "upsert" ELSE @]
                 /\ UNCHANGED blobLock
    BY DEF ClaimXorb
  <1>3. x \in Xorb /\ x \in XorbsToClaim(c)
    BY <1>1, <1>2 DEF FirstXorb, XorbsToClaim, XorbsIn, RequestState, NoXorb, Xorb
  <1>4. CASE ClaimStale(x, wrote(x), existed(x))
    <2>1. Retry(c)
      BY <1>2, <1>4
    <2>2. StoreInv'
      <3>1. CASE Discards(x, wrote(x), existed(x))
        BY <1>1, <1>2, <1>3, <3>1, DeleteKeeps DEF Discards
      <3>2. CASE ~Discards(x, wrote(x), existed(x))
        BY <1>1, <1>2, <3>2, StoreKept DEF tables
      <3> QED
        BY <3>1, <3>2
    <2>3. \A y \in Xorb : bytes[y].there /\ xorbLock[y] # NoProc => bytes'[y].there
      <3>1. CASE Discards(x, wrote(x), existed(x))
        <4>1. xorbLock[x] = NoProc
          BY <1>2, <1>3, <3>1 DEF Discards, MustWait, XorbFree, XorbsToClaim, XorbsHeld
        <4> QED
          BY <1>2, <1>3, <3>1, <4>1 DEF DeleteBytes, TypeOK
      <3>2. CASE ~Discards(x, wrote(x), existed(x))
        BY <1>2, <3>2
      <3> QED
        BY <3>1, <3>2
    <2> QED
      BY <1>1, <2>1, <2>2, <2>3, RollbackKeeps
  <1>5. CASE ~ClaimStale(x, wrote(x), existed(x))
    <2>1. /\ LockXorb(x, c) /\ UNCHANGED blobLock /\ UNCHANGED bytes
          /\ com' = [com EXCEPT ![c].pc = IF XorbsToClaim(c) = {x} THEN "upsert" ELSE @]
      BY <1>2, <1>5 DEF ClaimStale
    <2>2. bytes[x].there /\ (wrote(x) \/ xorbs[x].row)
      BY <1>3, <1>5, ReferencedStored DEF ClaimStale
    <2>3. XorbFree(x, c)
      BY <1>2, <2>2 DEF MustWait
    <2>4. StoreInv'
      BY <1>1, <2>1, StoreKept DEF tables
    <2>5. ASSUME NEW q \in Proc \ {c} PROVE Respected(q)
      <3>1. BlobsHeld(q)' = BlobsHeld(q) /\ XorbsHeld(q)' = XorbsHeld(q)
        BY <1>3, <2>1, <2>3, LocksKept DEF Proc
      <3> QED
        BY <1>1, <2>1, <3>1, ReadsRespect DEF tables
    <2>6. /\ com'[c].pc = IF XorbsToClaim(c) = {x} THEN "upsert" ELSE "claimXorbs"
          /\ com'[c].plan = com[c].plan /\ com'[c].content = com[c].content
          /\ \A d \in Committer \ {c} : com'[d] = com[d]
      BY <1>1, <2>1 DEF TypeOK, RequestState
    <2>7. XorbsHeld(c)' = XorbsHeld(c) \cup {x}
      BY <1>3, <2>1 DEF LockXorb, XorbsHeld, TypeOK
    <2>8. Places(com[c].plan, com[c].content) /\ blobLock[com[c].content] = c
          /\ \A y \in XorbsHeld(c) : bytes[y].there
      BY <1>1 DEF CommitInv
    <2>9. XorbsToClaim(c) = {x} => XorbsIn(com[c].plan) \subseteq XorbsHeld(c)'
      BY <2>7 DEF XorbsToClaim
    <2>10. CommitInv(c)'
      <3>1. com'[c].pc = "upsert" => XorbsIn(com'[c].plan) \subseteq XorbsHeld(c)'
        BY <2>6, <2>9
      <3>2. \A y \in XorbsHeld(c)' : bytes'[y].there
        BY <2>1, <2>2, <2>7, <2>8
      <3> QED
        BY <2>1, <2>6, <2>8, <3>1, <3>2 DEF CommitInv, Places, XorbsIn
    <2> QED
      BY <1>1, <2>4, <2>5, <2>6, <2>10, CommitterSuffices
  <1> QED
    BY <1>4, <1>5

LEMMA ClaimStoredKeeps ==
    ASSUME IInv, Typed', NEW c \in Committer, ClaimStored(c)
    PROVE IInv'
  <1> USE DEF IInv, Typed
  <1> DEFINE b == com[c].content
             stored == blobs[b].row /\ (com[c].pc = "claimLive" => blobs[b].ref > 0)
  <1>1. UNCHANGED <<tables, bytes, xorbLock, col>> /\ com[c] \in RequestState
        /\ b \in Content
    BY DEF ClaimStored, TypeOK, RequestsHaveContent
  <1>2. StoreInv'
    BY <1>1, StoreKept DEF tables
  <1>3. \A x \in XorbsHeld(c)' : bytes'[x].there
    BY <1>1 DEF CommitInv, XorbsHeld
  <1>4. CASE stored
    <2>1. BlobFree(b, c) /\ LockBlob(b, c) /\ com' = [com EXCEPT ![c].pc = "upsert"]
      BY <1>4 DEF ClaimStored
    <2>2. /\ com'[c].pc = "upsert" /\ com'[c].content = b
          /\ \A d \in Committer \ {c} : com'[d] = com[d]
      BY <1>1, <2>1 DEF TypeOK, RequestState
    <2>3. blobLock'[b] = c
      BY <1>1, <2>1 DEF LockBlob, TypeOK
    <2>4. CommitInv(c)'
      BY <1>1, <1>3, <1>4, <2>2, <2>3 DEF CommitInv, tables
    <2>5. ASSUME NEW q \in Proc \ {c} PROVE Respected(q)
      <3>1. BlobsHeld(q)' = BlobsHeld(q) /\ XorbsHeld(q)' = XorbsHeld(q)
        BY <1>1, <2>1, LocksKept DEF Proc
      <3> QED
        BY <1>1, <3>1, ReadsRespect DEF tables
    <2> QED
      BY <1>1, <1>2, <2>2, <2>4, <2>5, CommitterSuffices
  <1>5. CASE ~stored
    <2>1. com' = [com EXCEPT ![c] = IdleCommit] /\ UNCHANGED blobLock
      BY <1>5 DEF ClaimStored
    <2>2. /\ com'[c].pc = "idle"
          /\ \A d \in Committer \ {c} : com'[d] = com[d]
      BY <2>1 DEF TypeOK, IdleCommit
    <2>3. CommitInv(c)'
      BY <1>3, <2>2, IdleCommitInv
    <2>4. \A q \in Proc : Respected(q)
      BY <1>1, <2>1, ReadsRespect DEF tables, BlobsHeld, XorbsHeld
    <2> QED
      BY <1>1, <1>2, <2>2, <2>3, <2>4, CommitterSuffices
  <1> QED
    BY <1>4, <1>5

\* What a commit makes of the tables.
LEMMA CommitPublishes ==
    ASSUME IInv, NEW c \in Committer, Commit(c)
    PROVE LET b == com[c].content
              used == XorbsIn(com[c].plan)
          IN /\ b \in Content /\ blobLock[b] = c
             /\ ~blobs[b].row => Places(com[c].plan, b) /\ used \subseteq XorbsHeld(c)
             /\ objects' = [objects EXCEPT ![com[c].key] = b]
             /\ blobs'[b].row /\ \A d \in Content \ {b} : blobs'[d].row = blobs[d].row
             /\ \A d \in Content :
                   place'[d] = IF d = b /\ ~blobs[b].row THEN com[c].plan ELSE place[d]
             /\ \A x \in Xorb :
                   IF x \in used /\ ~blobs[b].row THEN xorbs'[x].row ELSE xorbs'[x] = xorbs[x]
  <1> USE DEF IInv, Typed
  <1> DEFINE b == com[c].content
             k == com[c].key
             used == XorbsIn(com[c].plan)
  <1>1. b \in Content /\ k \in Key /\ blobLock[b] = c
        /\ (~blobs[b].row => Places(com[c].plan, b) /\ used \subseteq XorbsHeld(c))
    BY DEF Commit, RequestsHaveContent, CommitInv
  <1>2. objects' = [objects EXCEPT ![k] = b]
    BY DEF Commit, Upsert
  <1>3. blobs'[b].row /\ \A d \in Content \ {b} : blobs'[d].row = blobs[d].row
    <2> DEFINE old == objects[k]
               claimed == [blobs EXCEPT ![b] = [row |-> TRUE, ref |-> @.ref + 1]]
    <2>1. claimed \in [Content -> BlobRow] /\ claimed[b].row
          /\ \A d \in Content \ {b} : claimed[d].row = blobs[d].row
      <3>1. [row |-> TRUE, ref |-> blobs[b].ref + 1] \in BlobRow
        BY <1>1 DEF TypeOK, BlobRow
      <3> QED
        BY <1>1, <3>1 DEF TypeOK
    <2>2. blobs' = IF old = None THEN claimed ELSE [claimed EXCEPT ![old].ref = Drop(@)]
      BY DEF Commit, Upsert
    <2> HIDE DEF claimed
    <2>3. \A d \in Content : blobs'[d].row = claimed[d].row
      BY <2>1, <2>2 DEF BlobRow
    <2> QED
      BY <1>1, <2>1, <2>3
  <1>4. \A d \in Content :
           place'[d] = IF d = b /\ ~blobs[b].row THEN com[c].plan ELSE place[d]
    BY <1>1 DEF Commit, TypeOK
  <1>5. \A x \in Xorb :
           IF x \in used /\ ~blobs[b].row THEN xorbs'[x].row ELSE xorbs'[x] = xorbs[x]
    BY AttachedRowTyped DEF Commit
  <1> QED
    BY <1>1, <1>2, <1>3, <1>4, <1>5

LEMMA CommitKeeps ==
    ASSUME IInv, Typed', NEW c \in Committer, Commit(c)
    PROVE IInv'
  <1> USE DEF IInv, Typed
  <1> DEFINE b == com[c].content
             used == XorbsIn(com[c].plan)
  <1>0. /\ b \in Content /\ blobLock[b] = c
        /\ ~blobs[b].row => Places(com[c].plan, b) /\ used \subseteq XorbsHeld(c)
        /\ objects' = [objects EXCEPT ![com[c].key] = b]
        /\ blobs'[b].row /\ \A d \in Content \ {b} : blobs'[d].row = blobs[d].row
        /\ \A d \in Content :
              place'[d] = IF d = b /\ ~blobs[b].row THEN com[c].plan ELSE place[d]
        /\ \A x \in Xorb :
              IF x \in used /\ ~blobs[b].row THEN xorbs'[x].row ELSE xorbs'[x] = xorbs[x]
    BY CommitPublishes
  <1>1. UNCHANGED <<bytes, col>> /\ Unlock(c) /\ com' = [com EXCEPT ![c] = IdleCommit]
    BY DEF Commit
  <1>2. \A x \in XorbsHeld(c) : bytes[x].there
    BY DEF CommitInv
  <1>3. \A d \in Content : blobs[d].row => blobs'[d].row
    BY <1>0
  <1>4. \A x \in Xorb : xorbs[x].row => xorbs'[x].row
    BY <1>0
  <1>5. TermsMatchRows'
    BY <1>0 DEF StoreInv, TermsMatchRows, Places
  <1>6. TermsAreStored'
    <2> SUFFICES ASSUME NEW d \in Content, NEW ch \in Chunk, place'[d][ch] # NoXorb
                 PROVE xorbs'[place'[d][ch]].row /\ bytes'[place'[d][ch]].there
      BY DEF TermsAreStored
    <2>1. place'[d][ch] \in Xorb
      BY DEF TypeOK, NoXorb, Xorb
    <2>2. CASE d = b /\ ~blobs[b].row
      <3>1. place'[d][ch] \in used
        BY <1>0, <2>2 DEF XorbsIn
      <3> QED
        BY <1>0, <1>1, <1>2, <2>1, <2>2, <3>1
    <2>3. CASE ~(d = b /\ ~blobs[b].row)
      BY <1>0, <1>1, <1>4, <2>1, <2>3 DEF StoreInv, TermsAreStored
    <2> QED
      BY <2>2, <2>3
  <1>7. LiveXorbsAreStored'
    BY <1>0, <1>1, <1>2 DEF StoreInv, LiveXorbsAreStored
  <1>8. ObjectsHaveRows'
    BY <1>0, <1>3 DEF StoreInv, ObjectsHaveRows, TypeOK
  <1>9. NoRowNoReference'
    BY <1>0 DEF StoreInv, NoRowNoReference
  <1>10. StoreInv'
    BY <1>5, <1>6, <1>7, <1>8, <1>9 DEF StoreInv
  <1>11. ASSUME NEW q \in Proc \ {c} PROVE Respected(q)
    <2>1. BlobsHeld(q)' = BlobsHeld(q) /\ XorbsHeld(q)' = XorbsHeld(q)
      BY <1>1, LocksKept DEF Unlock, Proc
    <2>2. b \notin BlobsHeld(q)
      BY <1>0 DEF BlobsHeld
    <2>3. ASSUME NEW d \in BlobsHeld(q)
          PROVE blobs'[d].row = blobs[d].row /\ (Referenced(d)' => Referenced(d))
      <3>1. d \in Content \ {b}
        BY <2>2 DEF BlobsHeld
      <3> QED
        BY <1>0, <3>1 DEF Referenced, TypeOK
    <2>4. ASSUME NEW x \in XorbsHeld(q)
          PROVE xorbs'[x] = xorbs[x] /\ BlobsOn(x)' \subseteq BlobsOn(x)
      <3>1. x \in Xorb /\ x \notin XorbsHeld(c)
        BY DEF XorbsHeld
      <3>2. ~blobs[b].row => x \notin used
        BY <1>0, <3>1
      <3>3. xorbs'[x] = xorbs[x]
        BY <1>0, <3>1, <3>2
      <3>4. ASSUME NEW d \in Content, x \in XorbsIn(place'[d]) PROVE x \in XorbsIn(place[d])
        BY <1>0, <3>2, <3>4
      <3> QED
        BY <3>3, <3>4 DEF BlobsOn, XorbsIn
    <2> QED
      BY <1>1, <2>1, <2>3, <2>4 DEF Respected
  <1>12. /\ com'[c].pc = "idle" /\ \A d \in Committer \ {c} : com'[d] = com[d]
    BY <1>1 DEF TypeOK, IdleCommit
  <1>13. CommitInv(c)'
    <2>1. XorbsHeld(c)' = {}
      BY <1>1, UnlockReleases DEF Unlock, Proc
    <2> QED
      BY <1>12, <2>1, IdleCommitInv
  <1> QED
    BY <1>1, <1>10, <1>11, <1>12, <1>13, CommitterSuffices

LEMMA EndCommitKeeps ==
    ASSUME IInv, Typed', NEW c \in Committer, EndCommit(c)
    PROVE IInv'
  <1>1. StoreInv'
    BY StoreKept DEF EndCommit, tables, IInv, Typed
  <1> QED
    BY <1>1, RollbackKeeps DEF EndCommit

\* The lock of a key protects nothing the invariant is about.
LEMMA LockKeyKeeps ==
    ASSUME IInv, Typed', NEW c \in Committer, LockKey(c)
    PROVE IInv'
  <1> USE DEF IInv, Typed
  <1>1. UNCHANGED <<tables, bytes, locks, col>> /\ com[c] \in RequestState /\ com[c].pc = "upsert"
    BY DEF LockKey, TypeOK
  <1>2. /\ com'[c].pc = "commit"
        /\ com'[c].plan = com[c].plan /\ com'[c].content = com[c].content
        /\ \A d \in Committer \ {c} : com'[d] = com[d]
    BY <1>1 DEF LockKey, TypeOK, RequestState
  <1>3. StoreInv'
    BY <1>1, StoreKept DEF tables
  <1>4. CommitInv(c)'
    BY <1>1, <1>2 DEF CommitInv, Places, XorbsIn, XorbsHeld, tables, locks
  <1>5. \A q \in Proc : Respected(q)
    BY <1>1, ReadsRespect DEF tables, locks, BlobsHeld, XorbsHeld
  <1> QED
    BY <1>1, <1>2, <1>3, <1>4, <1>5, CommitterSuffices

\* A delete takes a reference away, and leaves the row it was to.
LEMMA DeleteObjectKeeps ==
    ASSUME IInv, Typed', NEW c \in Committer, DeleteObject(c)
    PROVE IInv'
  <1> USE DEF IInv, Typed
  <1>1. /\ UNCHANGED <<place, xorbs, bytes, locks, col>>
        /\ objects' = [objects EXCEPT ![com[c].key] = None]
        /\ \A b \in Content : blobs'[b].row = blobs[b].row
    BY DEF DeleteObject, TypeOK, BlobRow
  <1>2. /\ com'[c].pc = "idle" /\ \A d \in Committer \ {c} : com'[d] = com[d]
    BY DEF DeleteObject, TypeOK, IdleCommit
  <1>3. StoreInv'
    <2>1. \A k \in Key : objects'[k] \in {objects[k], None}
      BY <1>1 DEF TypeOK
    <2> QED
      BY <1>1, <2>1, StoreKept
  <1>4. \A b \in Content : Referenced(b)' => Referenced(b)
    BY <1>1, ContentAssumption DEF Referenced, TypeOK
  <1>5. \A q \in Proc : Respected(q)
    BY <1>1, <1>4 DEF Respected, BlobsHeld, XorbsHeld, BlobsOn, XorbsIn, locks
  <1>6. CommitInv(c)'
    <2>1. \A x \in XorbsHeld(c)' : bytes'[x].there
      BY <1>1 DEF CommitInv, XorbsHeld, locks
    <2> QED
      BY <1>2, <2>1, IdleCommitInv
  <1> QED
    BY <1>1, <1>2, <1>3, <1>5, <1>6, CommitterSuffices

LEMMA CommitStepKeeps ==
    ASSUME IInv, Typed', NEW c \in Committer, CommitStep(c)
    PROVE IInv'
  BY PlanKeeps, WriteXorbKeeps, ClaimBlobKeeps, ClaimXorbKeeps, ClaimStoredKeeps, LockKeyKeeps,
     CommitKeeps, DeleteObjectKeeps
  DEF CommitStep

\* A job that holds no xorb has nothing to rely on.
LEMMA IdleJobInv ==
    ASSUME NEW g \in Collector, XorbsHeld(g)' = {},
           col'[g].pc \in {"idle", "use", "copy", "move", "lockBlobs", "requeue"}
    PROVE JobInv(g)'
  BY DEF JobInv

\* So has one that gives up or is cut short, and its locks are free again.
LEMMA AbandonKeeps ==
    ASSUME IInv, Typed', NEW g \in Collector, GiveUp(g) \/ FailJob(g),
           UNCHANGED <<tables, com>>,
           \A x \in Xorb : bytes[x].there /\ xorbLock[x] # NoProc => bytes'[x].there,
           StoreInv'
    PROVE IInv'
  <1> USE DEF IInv, Typed
  <1>1. Unlock(g)
    BY DEF GiveUp, FailJob
  <1>2. XorbsHeld(g)' = {}
    BY <1>1, UnlockReleases DEF Unlock, Proc
  <1>3. col'[g].pc \in {"idle", "requeue"} /\ \A h \in Collector \ {g} : col'[h] = col[h]
    <2>1. CASE GiveUp(g)
      BY <2>1 DEF TypeOK, GiveUp, IdleJob
    <2>2. CASE FailJob(g)
      BY <2>2 DEF TypeOK, FailJob, IdleJob
    <2> QED
      BY <2>1, <2>2
  <1>4. JobInv(g)'
    BY <1>2, <1>3, IdleJobInv
  <1>5. ASSUME NEW q \in Proc \ {g} PROVE Respected(q)
    <2>1. BlobsHeld(q)' = BlobsHeld(q) /\ XorbsHeld(q)' = XorbsHeld(q)
      BY <1>1, LocksKept DEF Unlock, Proc
    <2>2. \A x \in XorbsHeld(q) : bytes[x].there => bytes'[x].there
      BY ProcessAssumption DEF XorbsHeld
    <2> QED
      BY <2>1, <2>2, ReadsRespect DEF tables
  <1> QED
    BY <1>3, <1>4, <1>5, CollectorSuffices

LEMMA FailJobKeeps ==
    ASSUME IInv, Typed', NEW g \in Collector, FailJob(g)
    PROVE IInv'
  <1>1. StoreInv'
    BY StoreKept DEF FailJob, tables, IInv, Typed
  <1> QED
    BY <1>1, AbandonKeeps DEF FailJob

LEMMA JobKeeps ==
    ASSUME IInv, Typed', NEW g \in Collector, Job(g)
    PROVE IInv'
  <1> USE DEF IInv, Typed
  <1>0. g \in Proc
    BY DEF Proc
  <1>1. ASSUME NEW b \in Content, PickBlob(g, b) PROVE IInv'
    <2>1. /\ UNCHANGED <<tables, bytes, xorbLock, com>> /\ ~Referenced(b)
          /\ BlobFree(b, g) /\ LockBlob(b, g) /\ XorbsHeld(g) = {}
      BY <1>1 DEF PickBlob, Begins, BlobFree, JobInv
    <2>2. StoreInv'
      BY <2>1, StoreKept DEF tables
    <2>3. /\ col'[g].pc = "detach" /\ col'[g].blob = b
          /\ \A h \in Collector \ {g} : col'[h] = col[h]
      BY <1>1 DEF PickBlob, TypeOK, IdleJob
    <2>4. JobInv(g)'
      BY <2>1, <2>3 DEF JobInv, LockBlob, TypeOK, Referenced, tables
    <2>5. ASSUME NEW q \in Proc \ {g} PROVE Respected(q)
      BY <1>0, <2>1, LocksKept, ReadsRespect DEF tables
    <2> QED
      BY <2>1, <2>2, <2>3, <2>4, <2>5, CollectorSuffices
  <1>2. ASSUME NEW x \in Xorb, PickXorb(g, x) \/ ClaimOrphan(g, x) PROVE IInv'
    <2>1. /\ UNCHANGED <<tables, bytes, blobLock, com>>
          /\ XorbFree(x, g) /\ LockXorb(x, g)
      BY <1>2 DEF PickXorb, ClaimOrphan, XorbFree
    <2>2. StoreInv'
      BY <2>1, StoreKept DEF tables
    <2>3. /\ col'[g].xorb = x
          /\ \/ col'[g].pc = "deleteBytes" /\ xorbs[x].ref = 0 /\ BlobsOn(x) = {}
             \/ col'[g].pc = "reclaim" /\ ~xorbs[x].row
          /\ \A h \in Collector \ {g} : col'[h] = col[h]
      <3>1. CASE PickXorb(g, x)
        BY <3>1 DEF PickXorb, TypeOK, IdleJob
      <3>2. CASE ClaimOrphan(g, x)
        BY <3>2 DEF ClaimOrphan, TypeOK, IdleJob
      <3> QED
        BY <1>2, <3>1, <3>2
    <2>4. xorbLock'[x] = g
      BY <2>1 DEF LockXorb, TypeOK
    <2>5. JobInv(g)'
      BY <2>1, <2>3, <2>4 DEF JobInv, BlobsOn, tables
    <2>6. ASSUME NEW q \in Proc \ {g} PROVE Respected(q)
      BY <1>0, <2>1, LocksKept, ReadsRespect DEF tables
    <2> QED
      BY <2>1, <2>2, <2>3, <2>5, <2>6, CollectorSuffices
  <1>3. ASSUME NEW x \in Xorb, ClaimCompaction(g, x) PROVE IInv'
    <2>1. /\ UNCHANGED <<objects, blobs, place, bytes, locks, com>>
          /\ XorbsHeld(g) = {}
      BY <1>3 DEF ClaimCompaction, Begins, JobInv
    <2>2. \A y \in Xorb : xorbs'[y].row = xorbs[y].row /\ xorbs'[y].ref = xorbs[y].ref
      BY <1>3 DEF ClaimCompaction, TypeOK, XorbRow
    <2>3. StoreInv'
      BY <2>1, <2>2, StoreKept
    <2>4. col'[g].pc \in {"idle", "use"} /\ \A h \in Collector \ {g} : col'[h] = col[h]
      BY <1>3 DEF ClaimCompaction, TypeOK, IdleJob
    <2>5. JobInv(g)'
      BY <2>1, <2>4, IdleJobInv DEF XorbsHeld, locks
    <2>6. \A q \in Proc : Respected(q)
      BY <2>1, <2>2, ReadsRespect DEF locks, BlobsHeld, XorbsHeld
    <2> QED
      BY <2>1, <2>3, <2>4, <2>5, <2>6, CollectorSuffices
  <1> QED
    BY <1>1, <1>2, <1>3 DEF Job

LEMMA LockDetachedKeeps ==
    ASSUME IInv, Typed', NEW g \in Collector, LockDetached(g)
    PROVE IInv'
  <1> USE DEF IInv, Typed
  <1>1. PICK x \in FirstXorb(XorbsToDetach(g)) : XorbFree(x, g) /\ LockXorb(x, g)
    BY DEF LockDetached
  <1>2. UNCHANGED <<tables, bytes, blobLock, com, col>> /\ col[g].pc = "detach"
    BY DEF LockDetached
  <1>3. x \in Xorb
    BY <1>1, <1>2 DEF FirstXorb, XorbsToDetach, XorbsIn, TypeOK, JobsHaveSubjects, NoXorb, Xorb
  <1>4. StoreInv'
    BY <1>2, StoreKept DEF tables
  <1>5. JobInv(g)'
    BY <1>2 DEF JobInv, Referenced, tables
  <1>6. ASSUME NEW q \in Proc \ {g} PROVE Respected(q)
    BY <1>1, <1>2, <1>3, LocksKept, ReadsRespect DEF tables, Proc
  <1> QED
    BY <1>2, <1>4, <1>5, <1>6, CollectorSuffices

LEMMA SweepBlobKeeps ==
    ASSUME IInv, Typed', NEW g \in Collector, SweepBlob(g)
    PROVE IInv'
  <1> USE DEF IInv, Typed
  <1> DEFINE b == col[g].blob
  <1>1. /\ b \in Content /\ blobLock[b] = g /\ ~Referenced(b)
        /\ UNCHANGED <<objects, bytes, com>> /\ Unlock(g)
    BY DEF SweepBlob, JobsHaveSubjects, JobInv
  <1>2. /\ ~blobs'[b].row /\ place'[b] = Unplaced
        /\ \A d \in Content \ {b} : blobs'[d] = blobs[d] /\ place'[d] = place[d]
    BY <1>1 DEF SweepBlob, TypeOK
  <1>3. \A x \in Xorb : /\ xorbs'[x].row = xorbs[x].row
                        /\ xorbs[x].ref = 0 => xorbs'[x].ref = 0
                        /\ x \notin XorbsHeld(g) => xorbs'[x] = xorbs[x]
    <2> SUFFICES ASSUME NEW x \in Xorb
                 PROVE /\ xorbs'[x].row = xorbs[x].row
                       /\ xorbs[x].ref = 0 => xorbs'[x].ref = 0
                       /\ x \notin XorbsHeld(g) => xorbs'[x] = xorbs[x]
      OBVIOUS
    <2>1. xorbs[x] \in XorbRow
      BY DEF TypeOK
    <2>2. /\ DetachedRow(xorbs[x]).row = xorbs[x].row
          /\ xorbs[x].ref = 0 => DetachedRow(xorbs[x]).ref = 0
      BY <2>1 DEF DetachedRow, Drop, XorbRow
    <2>3. xorbs'[x] = IF x \in XorbsHeld(g) THEN DetachedRow(xorbs[x]) ELSE xorbs[x]
      BY DEF SweepBlob
    <2> QED
      BY <2>2, <2>3
  <1>4. StoreInv'
    <2>1. TermsMatchRows'
      BY <1>1, <1>2 DEF StoreInv, TermsMatchRows, Places
    <2>2. TermsAreStored'
      <3>1. \A d \in Content : \A ch \in Chunk :
               place'[d][ch] # NoXorb => place'[d][ch] = place[d][ch] /\ place[d][ch] \in Xorb
        <4> SUFFICES ASSUME NEW d \in Content, NEW ch \in Chunk, place'[d][ch] # NoXorb
                     PROVE place'[d][ch] = place[d][ch] /\ place[d][ch] \in Xorb
          OBVIOUS
        <4>1. d # b
          BY <1>2 DEF Unplaced
        <4>2. place'[d][ch] = place[d][ch] /\ place[d][ch] \in SUBSET Chunk
          BY <1>2, <4>1 DEF TypeOK
        <4> QED
          BY <4>2 DEF NoXorb, Xorb
      <3> QED
        BY <1>1, <1>3, <3>1 DEF StoreInv, TermsAreStored
    <2>3. LiveXorbsAreStored'
      <3> SUFFICES ASSUME NEW x \in Xorb, xorbs'[x].ref > 0 PROVE bytes'[x].there
        BY DEF LiveXorbsAreStored
      <3>1. xorbs[x].ref # 0
        BY <1>3
      <3> QED
        BY <1>1, <3>1, ReferencedStored
    <2>4. ObjectsHaveRows'
      BY <1>1, <1>2 DEF StoreInv, ObjectsHaveRows, Referenced, TypeOK
    <2>5. NoRowNoReference'
      BY <1>3 DEF StoreInv, NoRowNoReference
    <2> QED
      BY <2>1, <2>2, <2>3, <2>4, <2>5 DEF StoreInv
  <1>5. ASSUME NEW q \in Proc \ {g} PROVE Respected(q)
    <2>1. BlobsHeld(q)' = BlobsHeld(q) /\ XorbsHeld(q)' = XorbsHeld(q)
      BY <1>1, LocksKept DEF Unlock, Proc
    <2>2. \A d \in BlobsHeld(q) : blobs'[d] = blobs[d] /\ (Referenced(d)' => Referenced(d))
      BY <1>1, <1>2 DEF BlobsHeld, Referenced
    <2>3. ASSUME NEW x \in XorbsHeld(q)
          PROVE x \in Xorb /\ xorbs'[x] = xorbs[x] /\ BlobsOn(x)' \subseteq BlobsOn(x)
      <3>1. x \in Xorb /\ x \notin XorbsHeld(g)
        BY DEF XorbsHeld
      <3>2. ASSUME NEW d \in Content, x \in XorbsIn(place'[d]) PROVE x \in XorbsIn(place[d])
        <4>1. d # b
          BY <1>2, <3>2 DEF XorbsIn, Unplaced
        <4> QED
          BY <1>2, <3>2, <4>1
      <3> QED
        BY <1>3, <3>1, <3>2 DEF BlobsOn, XorbsIn
    <2> QED
      BY <1>1, <2>1, <2>2, <2>3 DEF Respected
  <1>6. /\ col'[g].pc = "idle" /\ \A h \in Collector \ {g} : col'[h] = col[h]
    BY DEF SweepBlob, TypeOK, IdleJob
  <1>7. JobInv(g)'
    BY <1>1, <1>6, UnlockReleases, IdleJobInv DEF Unlock, Proc
  <1> QED
    BY <1>1, <1>4, <1>5, <1>6, <1>7, CollectorSuffices

\* The sweeps delete bytes of xorbs they hold, that nothing refers to.
LEMMA DeleteXorbBytesKeeps ==
    ASSUME IInv, Typed', NEW g \in Collector, DeleteXorbBytes(g)
    PROVE IInv'
  <1> USE DEF IInv, Typed
  <1> DEFINE x == col[g].xorb
  <1>1. /\ UNCHANGED <<tables, locks, com>> /\ DeleteBytes(x) /\ col[g] \in JobState
        /\ x \in Xorb /\ xorbLock[x] = g /\ xorbs[x].ref = 0 /\ BlobsOn(x) = {}
    BY DEF DeleteXorbBytes, TypeOK, JobsHaveSubjects, JobInv
  <1>2. StoreInv'
    BY <1>1, DeleteKeeps
  <1>3. /\ col'[g].pc = "deleteRow" /\ col'[g].xorb = x
        /\ \A h \in Collector \ {g} : col'[h] = col[h]
    BY <1>1 DEF DeleteXorbBytes, TypeOK, JobState
  <1>4. JobInv(g)'
    BY <1>1, <1>3 DEF JobInv, BlobsOn, tables, locks
  <1>5. ASSUME NEW q \in Proc \ {g} PROVE Respected(q)
    <2>1. \A y \in XorbsHeld(q) : bytes[y].there => bytes'[y].there
      BY <1>1 DEF XorbsHeld, DeleteBytes, TypeOK
    <2> QED
      BY <1>1, <2>1, ReadsRespect DEF tables, locks, BlobsHeld, XorbsHeld
  <1> QED
    BY <1>1, <1>2, <1>3, <1>4, <1>5, CollectorSuffices

LEMMA SweepXorbKeeps ==
    ASSUME IInv, Typed', NEW g \in Collector, SweepXorb(g)
    PROVE IInv'
  <1> USE DEF IInv, Typed
  <1> DEFINE x == col[g].xorb
  <1>1. /\ UNCHANGED <<objects, blobs, place, bytes, com>> /\ Unlock(g)
        /\ x \in Xorb /\ xorbLock[x] = g /\ xorbs[x].ref = 0 /\ BlobsOn(x) = {}
    BY DEF SweepXorb, JobsHaveSubjects, JobInv
  <1>2. /\ xorbs'[x].ref = 0 /\ \A y \in Xorb \ {x} : xorbs'[y] = xorbs[y]
    BY <1>1 DEF SweepXorb, TypeOK, NoRow
  <1>3. StoreInv'
    <2>1. \A d \in Content : \A ch \in Chunk :
             place[d][ch] # NoXorb => place[d][ch] \in Xorb \ {x}
      <3>1. \A d \in Content : \A ch \in Chunk : place[d][ch] # x
        BY <1>1 DEF BlobsOn, XorbsIn, NoXorb, Xorb
      <3> QED
        BY <3>1 DEF TypeOK, NoXorb, Xorb
    <2>2. TermsAreStored'
      BY <1>1, <1>2, <2>1 DEF StoreInv, TermsAreStored
    <2>3. LiveXorbsAreStored' /\ NoRowNoReference'
      BY <1>1, <1>2 DEF StoreInv, LiveXorbsAreStored, NoRowNoReference
    <2> QED
      BY <1>1, <2>2, <2>3 DEF StoreInv, TermsMatchRows, Places, ObjectsHaveRows
  <1>4. ASSUME NEW q \in Proc \ {g} PROVE Respected(q)
    <2>1. BlobsHeld(q)' = BlobsHeld(q) /\ XorbsHeld(q)' = XorbsHeld(q)
      BY <1>1, LocksKept DEF Unlock, Proc
    <2>2. \A y \in XorbsHeld(q) : y \in Xorb /\ xorbs'[y] = xorbs[y]
      BY <1>1, <1>2 DEF XorbsHeld
    <2> QED
      BY <1>1, <2>1, <2>2 DEF Respected, Referenced, BlobsOn, XorbsIn
  <1>5. /\ col'[g].pc = "idle" /\ \A h \in Collector \ {g} : col'[h] = col[h]
    BY DEF SweepXorb, TypeOK, IdleJob
  <1>6. JobInv(g)'
    BY <1>1, <1>5, UnlockReleases, IdleJobInv DEF Unlock, Proc
  <1> QED
    BY <1>1, <1>3, <1>4, <1>5, <1>6, CollectorSuffices

LEMMA ReclaimOrphanKeeps ==
    ASSUME IInv, Typed', NEW g \in Collector, ReclaimOrphan(g)
    PROVE IInv'
  <1> USE DEF IInv, Typed
  <1> DEFINE x == col[g].xorb
  <1>1. /\ UNCHANGED <<tables, com>> /\ DeleteBytes(x) /\ Unlock(g)
        /\ x \in Xorb /\ xorbLock[x] = g /\ ~xorbs[x].row
    BY DEF ReclaimOrphan, JobsHaveSubjects, JobInv
  <1>2. StoreInv'
    BY <1>1, DeleteKeeps
  <1>3. ASSUME NEW q \in Proc \ {g} PROVE Respected(q)
    <2>1. BlobsHeld(q)' = BlobsHeld(q) /\ XorbsHeld(q)' = XorbsHeld(q)
      BY <1>1, LocksKept DEF Unlock, Proc
    <2>2. \A y \in XorbsHeld(q) : bytes[y].there => bytes'[y].there
      BY <1>1 DEF XorbsHeld, DeleteBytes, TypeOK
    <2> QED
      BY <1>1, <2>1, <2>2, ReadsRespect DEF tables
  <1>4. /\ col'[g].pc = "idle" /\ \A h \in Collector \ {g} : col'[h] = col[h]
    BY DEF ReclaimOrphan, TypeOK, IdleJob
  <1>5. JobInv(g)'
    BY <1>1, <1>4, UnlockReleases, IdleJobInv DEF Unlock, Proc
  <1> QED
    BY <1>1, <1>2, <1>3, <1>4, <1>5, CollectorSuffices

\* Compaction changes no row or refcount, and deletes no bytes, up to the move.
LEMMA CompactionReadsKeep ==
    ASSUME IInv, Typed', NEW g \in Collector,
           ReadUse(g) \/ CopyLive(g) \/ ReadMoved(g) \/ RequeueCompaction(g)
    PROVE IInv'
  <1> USE DEF IInv, Typed
  <1>0. col[g] \in JobState
    BY DEF TypeOK
  <1>1. UNCHANGED <<objects, blobs, place, locks, com>>
    BY DEF ReadUse, CopyLive, ReadMoved, RequeueCompaction, tables
  <1>2. \A x \in Xorb : xorbs'[x].row = xorbs[x].row /\ xorbs'[x].ref = xorbs[x].ref
    <2>1. CASE CopyLive(g)
      <3>1. PICK mark : xorbs' = [x \in Xorb |-> IF x \in mark
                             THEN [xorbs[x] EXCEPT !.damaged = TRUE, !.released = TRUE]
                             ELSE xorbs[x]]
        BY <2>1 DEF CopyLive
      <3> QED
        BY <3>1 DEF TypeOK, XorbRow
    <2>2. CASE RequeueCompaction(g)
      BY <2>2 DEF RequeueCompaction, TypeOK, XorbRow
    <2>3. CASE ReadUse(g) \/ ReadMoved(g)
      BY <2>3 DEF ReadUse, ReadMoved, tables
    <2> QED
      BY <2>1, <2>2, <2>3
  <1>3. \A x \in Xorb : bytes[x].there => bytes'[x].there
    BY DEF ReadUse, CopyLive, ReadMoved, RequeueCompaction, PutOnce, TypeOK, Stored
  <1>4. StoreInv'
    BY <1>1, <1>2, <1>3, StoreKept
  <1>5. \A q \in Proc : Respected(q)
    BY <1>1, <1>2, <1>3, ReadsRespect DEF locks, BlobsHeld, XorbsHeld
  <1>6. /\ col[g].pc \in {"use", "copy", "move", "requeue"}
        /\ col'[g].pc \in {"idle", "copy", "move", "lockBlobs"}
        /\ \A h \in Collector \ {g} : col'[h] = col[h]
    <2>1. CASE ReadUse(g)
      BY <1>0, <2>1 DEF ReadUse, TypeOK, JobState, IdleJob
    <2>2. CASE CopyLive(g)
      <3>1. /\ col[g].pc = "copy"
            /\ \/ \E e : col' = [col EXCEPT ![g].pc = "move", ![g].existed = e]
               \/ col' = [col EXCEPT ![g] = IdleJob]
        BY <2>2 DEF CopyLive
      <3> QED
        BY <1>0, <3>1 DEF TypeOK, JobState, IdleJob
    <2>3. CASE ReadMoved(g) \/ RequeueCompaction(g)
      BY <1>0, <2>3 DEF ReadMoved, RequeueCompaction, TypeOK, JobState, IdleJob
    <2> QED
      BY <2>1, <2>2, <2>3
  <1>7. JobInv(g)'
    <2>1. XorbsHeld(g) = {}
      BY <1>6 DEF JobInv
    <2> QED
      BY <1>1, <1>6, <2>1, IdleJobInv DEF XorbsHeld, locks
  <1> QED
    BY <1>1, <1>4, <1>5, <1>6, <1>7, CollectorSuffices

LEMMA LockMovedKeeps ==
    ASSUME IInv, Typed', NEW g \in Collector, LockMoved(g)
    PROVE IInv'
  <1> USE DEF IInv, Typed
  <1>1. /\ UNCHANGED <<tables, bytes, xorbLock, com>> /\ col[g].pc = "lockBlobs"
        /\ XorbsHeld(g) = {} /\ col[g].live \in Xorb /\ col[g] \in JobState
    BY DEF LockMoved, JobInv, JobsHaveSubjects, TypeOK
  <1>2. \/ col' = [col EXCEPT ![g].pc = "lockXorbs"] /\ UNCHANGED blobLock
        \/ /\ UNCHANGED col
           /\ \E b \in BlobsToLock(g) : BlobFree(b, g) /\ LockBlob(b, g)
    BY DEF LockMoved, FirstBlob
  <1>3. StoreInv'
    BY <1>1, StoreKept DEF tables
  <1>4. ASSUME NEW q \in Proc \ {g} PROVE Respected(q)
    <2>1. BlobsToLock(g) \subseteq Content
      BY <1>1 DEF BlobsToLock, JobState
    <2>2. BlobsHeld(q)' = BlobsHeld(q) /\ XorbsHeld(q)' = XorbsHeld(q)
      BY <1>1, <1>2, <2>1, LocksKept DEF Proc
    <2> QED
      BY <1>1, <2>2, ReadsRespect DEF tables
  <1>5. /\ col'[g].pc \in {"lockBlobs", "lockXorbs"} /\ col'[g].live = col[g].live
        /\ \A h \in Collector \ {g} : col'[h] = col[h]
    BY <1>1, <1>2 DEF TypeOK, JobState
  <1>6. XorbsHeld(g)' = {} /\ xorbLock'[col[g].live] # g
    BY <1>1 DEF XorbsHeld
  <1>7. JobInv(g)'
    BY <1>5, <1>6 DEF JobInv
  <1> QED
    BY <1>1, <1>3, <1>4, <1>5, <1>7, CollectorSuffices

LEMMA LockMovedXorbKeeps ==
    ASSUME IInv, Typed', NEW g \in Collector, LockMovedXorb(g)
    PROVE IInv'
  <1> USE DEF IInv, Typed
  <1> DEFINE live == col[g].live
             existed == col[g].existed
             stale(x) == IF x = live THEN ClaimStale(x, TRUE, existed)
                                     ELSE ~xorbs[x].row \/ xorbs[x].ref = 0
  <1>1. /\ UNCHANGED <<tables, com>> /\ col[g].pc = "lockXorbs"
        /\ live \in Xorb /\ col[g].xorb \in Xorb
    BY DEF LockMovedXorb, JobsHaveSubjects
  <1>2. PICK x \in FirstXorb(XorbsToMove(g)) :
           /\ ~MustWait(x, x = live, g)
           /\ IF x = live /\ Discards(x, TRUE, existed) THEN DeleteBytes(x) ELSE UNCHANGED bytes
           /\ \/ /\ stale(x)
                 /\ GiveUp(g)
              \/ /\ ~stale(x)
                 /\ LockXorb(x, g)
                 /\ UNCHANGED <<blobLock, col>>
    BY DEF LockMovedXorb
  <1>3. x \in Xorb /\ x \in XorbsToMove(g)
    BY <1>1, <1>2 DEF FirstXorb, XorbsToMove
  <1>4. CASE stale(x)
    <2>1. StoreInv'
      <3>1. CASE x = live /\ Discards(x, TRUE, existed)
        BY <1>1, <1>2, <1>3, <3>1, DeleteKeeps DEF Discards
      <3>2. CASE ~(x = live /\ Discards(x, TRUE, existed))
        BY <1>1, <1>2, <3>2, StoreKept DEF tables
      <3> QED
        BY <3>1, <3>2
    <2>2. \A y \in Xorb : bytes[y].there /\ xorbLock[y] # NoProc => bytes'[y].there
      <3>1. CASE x = live /\ Discards(x, TRUE, existed)
        <4>1. xorbLock[x] = NoProc
          BY <1>2, <1>3, <3>1 DEF MustWait, XorbFree, XorbsToMove, XorbsHeld
        <4> QED
          BY <1>2, <1>3, <3>1, <4>1 DEF DeleteBytes, TypeOK
      <3>2. CASE ~(x = live /\ Discards(x, TRUE, existed))
        BY <1>2, <3>2
      <3> QED
        BY <3>1, <3>2
    <2> QED
      BY <1>1, <1>2, <1>4, <2>1, <2>2, AbandonKeeps
  <1>5. CASE ~stale(x)
    <2>1. LockXorb(x, g) /\ UNCHANGED <<blobLock, col, bytes>>
      BY <1>2, <1>5 DEF ClaimStale
    <2>2. x = live => bytes[x].there
      BY <1>3, <1>5, ReferencedStored DEF ClaimStale
    <2>3. XorbFree(x, g)
      BY <1>2, <1>5 DEF MustWait
    <2>4. StoreInv'
      BY <1>1, <2>1, StoreKept DEF tables
    <2>5. ASSUME NEW q \in Proc \ {g} PROVE Respected(q)
      <3>1. BlobsHeld(q)' = BlobsHeld(q) /\ XorbsHeld(q)' = XorbsHeld(q)
        BY <1>3, <2>1, <2>3, LocksKept DEF Proc
      <3> QED
        BY <1>1, <2>1, <3>1, ReadsRespect DEF tables
    <2>6. xorbLock'[live] = g => bytes'[live].there
      BY <1>1, <1>3, <2>1, <2>2 DEF LockXorb, TypeOK, JobInv
    <2>7. JobInv(g)'
      BY <1>1, <2>1, <2>6 DEF JobInv
    <2> QED
      BY <1>1, <2>1, <2>4, <2>5, <2>7, CollectorSuffices
  <1> QED
    BY <1>4, <1>5

\* The move keeps every chunk in a xorb that holds it: the terms are those of
\* locked blobs, and use only chunks of the xorb they are moved to.
LEMMA MoveKeeps ==
    ASSUME IInv, Typed', NEW g \in Collector, MoveTerms(g), Covered(g)
    PROVE IInv'
  <1> USE DEF IInv, Typed
  <1> DEFINE from == col[g].xorb
             to == col[g].live
             moved == [b \in Content |-> [c \in Chunk |-> IF place[b][c] = from THEN to ELSE place[b][c]]]
             users == {b \in Content : to \in XorbsIn(moved[b])}
  <1>1. /\ col[g].pc = "lockXorbs" /\ from \in Xorb /\ to \in Xorb
        /\ from \in XorbsHeld(g) /\ to \in XorbsHeld(g) /\ bytes[to].there
        /\ UNCHANGED <<objects, blobs, bytes, com>>
    BY DEF MoveTerms, XorbsToMove, XorbsHeld, JobsHaveSubjects, JobInv
  <1>2. /\ place' = moved /\ Unlock(g) /\ col' = [col EXCEPT ![g] = IdleJob]
        /\ xorbs' = [xorbs EXCEPT ![from] = [@ EXCEPT !.ref = 0, !.released = FALSE],
                                  ![to] = [ClaimedRow(to, g) EXCEPT !.ref = Cardinality(users)]]
    BY DEF MoveTerms
  <1>3. \A b \in Content : \A c \in Chunk :
           place'[b][c] = IF place[b][c] = from THEN to ELSE place[b][c]
    BY <1>2
  <1>4. /\ xorbs'[to].row
        /\ from # to => xorbs'[from].row = xorbs[from].row /\ xorbs'[from].ref = 0
        /\ \A x \in Xorb \ {from, to} : xorbs'[x] = xorbs[x]
    <2>1. ClaimedRow(to, g) \in XorbRow /\ ClaimedRow(to, g).row
      BY <1>1, ClaimedRowTyped DEF Proc
    <2> HIDE DEF users
    <2>2. [ClaimedRow(to, g) EXCEPT !.ref = Cardinality(users)].row
      BY <2>1 DEF XorbRow
    <2>3. xorbs[from] \in XorbRow
      BY <1>1 DEF TypeOK
    <2>4. /\ [xorbs[from] EXCEPT !.ref = 0, !.released = FALSE].row = xorbs[from].row
          /\ [xorbs[from] EXCEPT !.ref = 0, !.released = FALSE].ref = 0
      BY <2>3 DEF XorbRow
    <2> QED
      BY <1>1, <1>2, <2>2, <2>4 DEF TypeOK
  <1>5. TermsMatchRows'
    <2>1. ASSUME NEW b \in Content, blobs[b].row PROVE Places(place'[b], b)
      <3>1. Places(place[b], b)
        BY <2>1 DEF StoreInv, TermsMatchRows
      <3>2. \A c \in Chunk : place[b][c] = from => c \in to
        BY <2>1 DEF Covered, LiveChunks
      <3> QED
        BY <1>1, <1>3, <3>1, <3>2 DEF Places, NoXorb, Xorb
    <2>2. ASSUME NEW b \in Content, ~blobs[b].row PROVE place'[b] = Unplaced
      <3>1. \A c \in Chunk : place[b][c] # from
        BY <1>1, <2>2 DEF StoreInv, TermsMatchRows, Unplaced, NoXorb, Xorb
      <3> QED
        BY <1>2, <2>2, <3>1 DEF StoreInv, TermsMatchRows, Unplaced
    <2> QED
      BY <1>1, <2>1, <2>2 DEF TermsMatchRows, Places
  <1>6. \A b \in Content : \A c \in Chunk : place[b][c] # NoXorb => place[b][c] \in Xorb
    BY DEF TypeOK, NoXorb, Xorb
  <1>7. TermsAreStored'
    BY <1>1, <1>3, <1>4, <1>6 DEF StoreInv, TermsAreStored
  <1>8. LiveXorbsAreStored' /\ NoRowNoReference'
    BY <1>1, <1>4 DEF StoreInv, LiveXorbsAreStored, NoRowNoReference
  <1>9. StoreInv'
    BY <1>1, <1>5, <1>7, <1>8 DEF StoreInv, ObjectsHaveRows
  <1>10. ASSUME NEW q \in Proc \ {g} PROVE Respected(q)
    <2>1. BlobsHeld(q)' = BlobsHeld(q) /\ XorbsHeld(q)' = XorbsHeld(q)
      BY <1>2, LocksKept DEF Unlock, Proc
    <2>2. ASSUME NEW x \in XorbsHeld(q)
          PROVE x \in Xorb \ {from, to} /\ BlobsOn(x)' \subseteq BlobsOn(x)
      <3>1. x \in Xorb \ {from, to}
        BY <1>1 DEF XorbsHeld
      <3> QED
        BY <1>3, <3>1 DEF BlobsOn, XorbsIn
    <2> QED
      BY <1>1, <1>4, <2>1, <2>2 DEF Respected, Referenced
  <1>11. /\ col'[g].pc = "idle" /\ \A h \in Collector \ {g} : col'[h] = col[h]
    BY <1>2 DEF TypeOK, IdleJob
  <1>12. JobInv(g)'
    BY <1>2, <1>11, UnlockReleases, IdleJobInv DEF Unlock, Proc
  <1> QED
    BY <1>1, <1>9, <1>10, <1>11, <1>12, CollectorSuffices

LEMMA JobStepKeeps ==
    ASSUME IInv, Typed', NEW g \in Collector, JobStep(g)
    PROVE IInv'
  <1>1. ASSUME GiveUp(g), UNCHANGED <<tables, bytes, com>> PROVE IInv'
    <2>1. StoreInv'
      BY <1>1, StoreKept DEF tables, IInv, Typed
    <2> QED
      BY <1>1, <2>1, AbandonKeeps
  <1>2. CASE MoveTerms(g)
    <2>1. CASE Covered(g)
      BY <1>2, <2>1, MoveKeeps
    <2>2. CASE ~Covered(g)
      BY <1>1, <1>2, <2>2 DEF MoveTerms, tables
    <2> QED
      BY <2>1, <2>2
  <1>3. CASE LockTimeout(g)
    BY <1>1, <1>3 DEF LockTimeout
  <1> QED
    BY <1>2, <1>3, LockDetachedKeeps, SweepBlobKeeps, DeleteXorbBytesKeeps, SweepXorbKeeps,
       ReclaimOrphanKeeps, CompactionReadsKeep, LockMovedKeeps, LockMovedXorbKeeps
    DEF JobStep

\* Scrubs and rot happen at once, where no lock is in the way.
LEMMA DamageKeeps ==
    ASSUME IInv, Typed', NEW x \in Xorb, Scrub(x) \/ \E c \in x : Rot(x, c)
    PROVE IInv'
  <1> USE DEF IInv, Typed
  <1>1. UNCHANGED <<objects, blobs, place, locks, com, col>>
    BY DEF Scrub, Rot, tables
  <1>2. \A y \in Xorb : xorbs'[y].row = xorbs[y].row /\ xorbs'[y].ref = xorbs[y].ref
    BY DEF Scrub, Rot, tables, TypeOK, XorbRow
  <1>3. \A y \in Xorb : bytes[y].there => bytes'[y].there
    <2>1. CASE Scrub(x)
      BY <2>1 DEF Scrub
    <2>2. ASSUME NEW c \in x, Rot(x, c)
          PROVE \A y \in Xorb : bytes'[y].there = bytes[y].there
      BY <2>2 DEF Rot, TypeOK, Stored
    <2> QED
      BY <2>1, <2>2
  <1>4. StoreInv'
    BY <1>1, <1>2, <1>3, StoreKept
  <1>5. \A q \in Proc : Respected(q)
    BY <1>1, <1>2, <1>3, ReadsRespect DEF locks, BlobsHeld, XorbsHeld
  <1> QED
    BY <1>1, <1>4, <1>5, RespectSuffices

-----------------------------------------------------------------------------
LEMMA InitInv == Init => IInv
  <1> SUFFICES ASSUME Init PROVE IInv
    OBVIOUS
  <1>1. Typed
    BY InitTyped DEF Init, Empty, Typed, RequestsHaveContent, JobsHaveSubjects, IdleCommit, IdleJob
  <1>2. StoreInv
    <2>1. \A b \in Content : place[b] = Unplaced /\ ~blobs[b].row
      BY DEF Init, Empty
    <2>2. \A x \in Xorb : ~xorbs[x].row /\ xorbs[x].ref = 0
      BY DEF Init, Empty, NoRow
    <2>3. \A k \in Key : objects[k] = None
      BY DEF Init, Empty
    <2> QED
      BY <2>1, <2>2, <2>3
      DEF StoreInv, TermsMatchRows, TermsAreStored, LiveXorbsAreStored, ObjectsHaveRows,
          NoRowNoReference, Unplaced
  <1>3. \A p \in Proc : XorbsHeld(p) = {}
    BY ProcessAssumption DEF Init, Empty, XorbsHeld
  <1>4. \A c \in Committer : CommitInv(c)
    BY <1>3 DEF Init, Empty, CommitInv, IdleCommit, Proc
  <1>5. \A g \in Collector : JobInv(g)
    BY <1>3 DEF Init, Empty, JobInv, IdleJob, Proc
  <1> QED
    BY <1>1, <1>2, <1>4, <1>5 DEF IInv

LEMMA StepInv == IInv /\ [Next]_vars => IInv'
  <1> SUFFICES ASSUME IInv, [Next]_vars PROVE IInv'
    OBVIOUS
  <1>1. Typed'
    BY TypedStep DEF IInv
  <1>2. CASE UNCHANGED vars
    <2>1. StoreInv'
      BY <1>2, StoreKept DEF vars, IInv, Typed
    <2>2. \A q \in Proc : Respected(q)
      BY <1>2, ReadsRespect DEF vars, BlobsHeld, XorbsHeld
    <2> QED
      BY <1>1, <1>2, <2>1, <2>2, RespectSuffices DEF vars
  <1>3. ASSUME NEW c \in Committer, Request(c) \/ CommitStep(c) \/ FailCommit(c) \/ VictimCommit(c)
        PROVE IInv'
    BY <1>1, <1>3, RequestKeeps, CommitStepKeeps, EndCommitKeeps DEF FailCommit, VictimCommit
  <1>4. ASSUME NEW g \in Collector, Job(g) \/ JobStep(g) \/ FailJob(g)
        PROVE IInv'
    BY <1>1, <1>4, JobKeeps, JobStepKeeps, FailJobKeeps
  <1> QED
    BY <1>1, <1>2, <1>3, <1>4, DamageKeeps DEF Next, Steps

\* The store's invariant, with what every request and job relies on while it
\* holds its locks, in every behaviour.
THEOREM InvariantHolds == Spec => []IInv
  BY InitInv, StepInv, PTL DEF Spec

LEMMA InvReferences == IInv => BytesBehindReferences
  <1> SUFFICES ASSUME IInv, NEW k \in Key, objects[k] # None
               PROVE /\ blobs[objects[k]].row
                     /\ \A c \in ChunksOf[objects[k]] :
                           LET x == place[objects[k]][c]
                           IN c \in x /\ xorbs[x].row /\ bytes[x].there
    BY DEF BytesBehindReferences
  <1> DEFINE b == objects[k]
  <1>1. b \in Content /\ blobs[b].row
    BY DEF IInv, Typed, TypeOK, StoreInv, ObjectsHaveRows
  <1>2. Places(place[b], b)
    BY <1>1 DEF IInv, StoreInv, TermsMatchRows
  <1>3. \A c \in ChunksOf[b] : c \in Chunk /\ place[b][c] \in Xorb /\ c \in place[b][c]
    BY <1>1, <1>2, ContentAssumption DEF Places
  <1> QED
    BY <1>1, <1>3 DEF IInv, StoreInv, TermsAreStored, NoXorb, Xorb

\* No interleaving of commits, copies, links, deletes, sweeps and compactions,
\* with any of them cut short at any point, leaves an object whose content
\* cannot be found.
THEOREM ReferencesHaveBytes == Spec => []BytesBehindReferences
  BY InvariantHolds, InvReferences, PTL

\* A live xorb row always has its bytes, which is what lets a claim of one
\* skip the check.
THEOREM LiveXorbsStored == Spec => []LiveXorbsAreStored
  <1>1. IInv => LiveXorbsAreStored
    BY DEF IInv, StoreInv
  <1> QED
    BY <1>1, InvariantHolds, PTL

-----------------------------------------------------------------------------
\* The content that can be read back whole is that with a row.
LEMMA StoredIsRows == IInv => StoredContent = {b \in Content : blobs[b].row}
  <1> SUFFICES ASSUME IInv, NEW b \in Content, blobs[b].row
               PROVE \A c \in ChunksOf[b] : LET x == place[b][c]
                                            IN c \in x /\ xorbs[x].row /\ bytes[x].there
    BY DEF StoredContent
  <1>1. Places(place[b], b)
    BY DEF IInv, StoreInv, TermsMatchRows
  <1>2. \A c \in ChunksOf[b] : c \in Chunk /\ place[b][c] \in Xorb /\ c \in place[b][c]
    BY <1>1, ContentAssumption DEF Places
  <1> QED
    BY <1>2 DEF IInv, StoreInv, TermsAreStored, NoXorb, Xorb

LEMMA StepPromise == IInv /\ IInv' /\ [Next]_vars => [Promise!Next]_(Promise!vars)
  <1> SUFFICES ASSUME IInv, IInv', [Next]_vars
               PROVE Promise!Next \/ UNCHANGED <<objects, StoredContent>>
    BY DEF Promise!vars
  <1>1. StoredContent = {b \in Content : blobs[b].row}
    BY StoredIsRows
  <1>2. StoredContent' = {b \in Content : blobs'[b].row}
    <2>1. (IInv => StoredContent = {b \in Content : blobs[b].row})'
      BY StoredIsRows, PTL
    <2> QED
      BY <2>1
  <1>3. ASSUME UNCHANGED objects, \A b \in Content : blobs'[b].row = blobs[b].row
        PROVE UNCHANGED <<objects, StoredContent>>
    BY <1>1, <1>2, <1>3
  <1>4. ASSUME NEW c \in Committer, Commit(c) PROVE Promise!Next
    <2> DEFINE b == com[c].content
               k == com[c].key
    <2>1. /\ b \in Content /\ objects' = [objects EXCEPT ![k] = b]
          /\ blobs'[b].row /\ \A d \in Content \ {b} : blobs'[d].row = blobs[d].row
      BY <1>4, CommitPublishes
    <2>2. k \in Key
      BY <1>4 DEF Commit, IInv, Typed, RequestsHaveContent
    <2>3. StoredContent' = StoredContent \cup {b}
      BY <1>1, <1>2, <2>1
    <2> QED
      BY <2>1, <2>2, <2>3 DEF Promise!Next, Promise!Put
  <1>5. ASSUME NEW c \in Committer, DeleteObject(c) PROVE Promise!Next
    <2>0. com[c].key \in Key
      BY <1>5 DEF DeleteObject, IInv, Typed, RequestsHaveContent
    <2>1. \A b \in Content : blobs'[b].row = blobs[b].row
      BY <1>5 DEF DeleteObject, IInv, Typed, TypeOK, BlobRow
    <2>2. StoredContent' = StoredContent
      BY <1>1, <1>2, <2>1
    <2> QED
      BY <1>5, <2>0, <2>2 DEF DeleteObject, Promise!Next, Promise!Delete
  <1>6. ASSUME NEW g \in Collector, SweepBlob(g) PROVE Promise!Next
    <2> DEFINE b == col[g].blob
    <2>1. b \in Content /\ ~Referenced(b) /\ UNCHANGED objects
      BY <1>6 DEF SweepBlob, IInv, Typed, JobsHaveSubjects, JobInv
    <2>2. ~blobs'[b].row /\ \A d \in Content \ {b} : blobs'[d] = blobs[d]
      BY <1>6, <2>1 DEF SweepBlob, IInv, Typed, TypeOK
    <2>3. StoredContent' = StoredContent \ {b}
      BY <1>1, <1>2, <2>2
    <2> QED
      BY <2>1, <2>3 DEF Promise!Next, Promise!Collect, Referenced
  <1>7. ASSUME NEW c \in Committer, CommitStep(c), ~Commit(c), ~DeleteObject(c)
        PROVE UNCHANGED <<objects, blobs>>
    BY <1>7 DEF CommitStep, PlanPlacement, PlanChunks, WriteXorb, ClaimBlob, ClaimXorb,
                ClaimStored, LockKey, tables
  <1>8. ASSUME NEW c \in Committer, Request(c) \/ EndCommit(c)
        PROVE UNCHANGED <<objects, blobs>>
    BY <1>8 DEF Request, StartPut, StartLink, StartCopy, StartDelete, EndCommit, tables
  <1>9. ASSUME NEW g \in Collector, JobStep(g), ~SweepBlob(g)
        PROVE UNCHANGED <<objects, blobs>>
    BY <1>9 DEF JobStep, LockDetached, DeleteXorbBytes, SweepXorb, ReclaimOrphan, ReadUse,
                CopyLive, ReadMoved, LockMoved, LockMovedXorb, MoveTerms, RequeueCompaction,
                LockTimeout, tables
  <1>10. ASSUME NEW g \in Collector, Job(g) \/ FailJob(g)
         PROVE UNCHANGED <<objects, blobs>>
    BY <1>10 DEF Job, PickBlob, PickXorb, ClaimOrphan, ClaimCompaction, FailJob, tables
  <1>11. ASSUME NEW x \in Xorb, Scrub(x) \/ \E c \in x : Rot(x, c)
         PROVE UNCHANGED <<objects, blobs>>
    BY <1>11 DEF Scrub, Rot, tables
  <1>12. UNCHANGED vars => UNCHANGED <<objects, blobs>>
    BY DEF vars
  <1> QED
    BY <1>3, <1>4, <1>5, <1>6, <1>7, <1>8, <1>9, <1>10, <1>11, <1>12
    DEF Next, Steps, FailCommit, VictimCommit

\* The store keeps the promises of ContentStore: content a key points at can
\* be read back whole, and only content no key points at is ever given up.
THEOREM PromiseKept == Spec => KeepsPromise
  <1>1. Init => Promise!Init
    <2> SUFFICES ASSUME Init PROVE Promise!Init
      OBVIOUS
    <2>1. StoredContent = {}
      BY DEF Init, Empty, StoredContent
    <2> QED
      BY <2>1 DEF Init, Empty, Promise!Init
  <1> QED
    BY <1>1, StepPromise, InvariantHolds, PTL DEF Spec, KeepsPromise, Promise!Spec

----------------------------------------------------------------------------
(* Locks are kept until their holder gives them up. *)

LEMMA CommitLocksKept ==
    ASSUME IInv, NEW c \in Committer, CommitLocks(c), com'[c] = com[c], LocksRespected(c),
           com[c].pc = "release" => objects'[com[c].key] = objects[com[c].key]
    PROVE CommitLocks(c)'
  <1> DEFINE t == com[c]
  <1>1. t.pc = "claimXorbs" => t.content \in BlobsHeld(c)
    BY DEF IInv, Typed, RequestsHaveContent, CommitInv, BlobsHeld
  <1>2. BlobsHeld(c)' = BlobsHeld(c) /\ XorbsHeld(c)' = XorbsHeld(c)
    BY DEF LocksRespected
  <1>3. t.pc = "claimXorbs" => ~blobs'[t.content].row
    BY <1>1 DEF LocksRespected, CommitLocks
  <1>4. XorbsToClaim(c)' = XorbsToClaim(c)
    BY <1>2 DEF XorbsToClaim, XorbsIn
  <1> QED
    BY <1>2, <1>3, <1>4 DEF CommitLocks, Before

LEMMA JobLocksKept ==
    ASSUME IInv, NEW g \in Collector, JobLocks(g), col'[g] = col[g], LocksRespected(g)
    PROVE JobLocks(g)'
  <1> DEFINE t == col[g]
  <1>1. t.pc = "detach" => t.blob \in BlobsHeld(g)
    BY DEF IInv, Typed, JobsHaveSubjects, JobInv, BlobsHeld
  <1>2. BlobsHeld(g)' = BlobsHeld(g) /\ XorbsHeld(g)' = XorbsHeld(g)
    BY DEF LocksRespected
  <1>3. t.pc = "detach" => place'[t.blob] = place[t.blob]
    BY <1>1 DEF LocksRespected
  <1> QED
    BY <1>2, <1>3 DEF JobLocks, Before, XorbsIn

\* A step that changes no term and no blob row respects who keeps its locks.
LEMMA QuietRespects ==
    ASSUME NEW q \in Proc, UNCHANGED place, \A b \in Content : blobs'[b].row = blobs[b].row,
           BlobsHeld(q)' = BlobsHeld(q), XorbsHeld(q)' = XorbsHeld(q)
    PROVE LocksRespected(q)
  BY DEF LocksRespected, BlobsHeld

\* A step of one request, that respects the others' locks and keys.
LEMMA RequestLocks ==
    ASSUME IInv, LockInv, NEW c \in Committer, CommitLocks(c)',
           \A d \in Committer \ {c} : com'[d] = com[d], UNCHANGED col,
           \A q \in Proc \ {c} : LocksRespected(q),
           \A k \in Key : objects'[k] # objects[k] => c \in KeyHolders(k),
           com'[c].pc \in {"commit", "release"} => KeyHolders(com'[c].key) \subseteq {c}
    PROVE LockInv'
  <1>1. ASSUME NEW d \in Committer \ {c} PROVE CommitLocks(d)'
    <2>1. com[d].pc = "release" => objects'[com[d].key] = objects[com[d].key]
      <3> SUFFICES ASSUME com[d].pc = "release", objects'[com[d].key] # objects[com[d].key]
                   PROVE FALSE
        OBVIOUS
      <3>1. com[d].key \in Key
        BY DEF IInv, Typed, RequestsHaveContent
      <3>2. c \in KeyHolders(com[d].key) /\ d \in KeyHolders(com[d].key)
        BY <3>1 DEF KeyHolders
      <3> QED
        BY <3>1, <3>2 DEF LockInv, KeysHeldOnce
    <2> QED
      BY <2>1, CommitLocksKept DEF LockInv, Proc
  <1>2. ASSUME NEW g \in Collector PROVE JobLocks(g)'
    BY JobLocksKept, ProcessAssumption DEF LockInv, Proc
  <1>3. KeysHeldOnce'
    <2> SUFFICES ASSUME NEW k \in Key, NEW d \in KeyHolders(k)', NEW e \in KeyHolders(k)', d # e
                 PROVE FALSE
      BY DEF KeysHeldOnce
    <2>1. \A f \in Committer \ {c} : f \in KeyHolders(k)' <=> f \in KeyHolders(k)
      BY DEF KeyHolders
    <2>2. d \in Committer /\ e \in Committer
      BY DEF KeyHolders
    <2>3. CASE d # c /\ e # c
      BY <2>1, <2>2, <2>3 DEF LockInv, KeysHeldOnce
    <2>4. CASE d = c \/ e = c
      <3>1. c \in KeyHolders(k)'
        BY <2>4
      <3>2. com'[c].pc \in {"commit", "release"} /\ com'[c].key = k
        BY <3>1 DEF KeyHolders
      <3> QED
        BY <2>1, <2>2, <2>4, <3>2
    <2> QED
      BY <2>3, <2>4
  <1> QED
    BY <1>1, <1>2, <1>3 DEF LockInv

\* A step of one job.
LEMMA JobStepLocks ==
    ASSUME IInv, LockInv, NEW g \in Collector, JobLocks(g)',
           \A h \in Collector \ {g} : col'[h] = col[h], UNCHANGED <<com, objects>>,
           \A q \in Proc \ {g} : LocksRespected(q)
    PROVE LockInv'
  <1>1. ASSUME NEW d \in Committer PROVE CommitLocks(d)'
    BY CommitLocksKept, ProcessAssumption DEF LockInv, Proc
  <1>2. ASSUME NEW h \in Collector PROVE JobLocks(h)'
    BY JobLocksKept DEF LockInv, Proc
  <1>3. KeysHeldOnce'
    BY DEF LockInv, KeysHeldOnce, KeyHolders
  <1> QED
    BY <1>1, <1>2, <1>3 DEF LockInv

\* The end of a transaction: nothing is held after it, and what it published
\* was about blobs it held.
LEMMA EndRespects ==
    ASSUME TypeOK, NEW p \in Proc, Unlock(p),
           \A b \in Content \ BlobsHeld(p) : blobs'[b].row = blobs[b].row /\ place'[b] = place[b]
    PROVE /\ BlobsHeld(p)' = {} /\ XorbsHeld(p)' = {}
          /\ \A q \in Proc \ {p} : LocksRespected(q)
  <1>1. BlobsHeld(p)' = {} /\ XorbsHeld(p)' = {}
    BY ProcessAssumption DEF Unlock, UnlockBlobs, UnlockXorbs, BlobsHeld, XorbsHeld
  <1>2. ASSUME NEW q \in Proc \ {p} PROVE LocksRespected(q)
    <2>1. BlobsHeld(q)' = BlobsHeld(q) /\ XorbsHeld(q)' = XorbsHeld(q)
      BY LocksKept DEF Unlock
    <2>2. \A b \in BlobsHeld(q) : b \in Content \ BlobsHeld(p)
      BY DEF BlobsHeld
    <2> QED
      BY <2>1, <2>2 DEF LocksRespected
  <1> QED
    BY <1>1, <1>2

LEMMA RequestEnds ==
    ASSUME IInv, LockInv, NEW c \in Committer, Unlock(c), com'[c].pc \in {"idle", "placement"},
           \A d \in Committer \ {c} : com'[d] = com[d], UNCHANGED col,
           \A b \in Content \ BlobsHeld(c) : blobs'[b].row = blobs[b].row /\ place'[b] = place[b],
           \A k \in Key : objects'[k] # objects[k] => c \in KeyHolders(k)
    PROVE LockInv'
  <1>1. /\ BlobsHeld(c)' = {} /\ XorbsHeld(c)' = {}
        /\ \A q \in Proc \ {c} : LocksRespected(q)
    BY EndRespects DEF IInv, Typed, Proc
  <1>2. CommitLocks(c)'
    BY <1>1 DEF CommitLocks
  <1> QED
    BY <1>1, <1>2, RequestLocks

LEMMA JobEnds ==
    ASSUME IInv, LockInv, NEW g \in Collector, Unlock(g),
           col'[g].pc \notin {"detach", "lockBlobs", "lockXorbs"},
           \A h \in Collector \ {g} : col'[h] = col[h], UNCHANGED <<com, objects>>,
           \A b \in Content \ BlobsHeld(g) : blobs'[b].row = blobs[b].row /\ place'[b] = place[b]
    PROVE LockInv'
  <1>1. /\ BlobsHeld(g)' = {} /\ XorbsHeld(g)' = {}
        /\ \A q \in Proc \ {g} : LocksRespected(q)
    BY EndRespects DEF IInv, Typed, Proc
  <1>2. JobLocks(g)'
    BY <1>1 DEF JobLocks
  <1> QED
    BY <1>1, <1>2, JobStepLocks

----------------------------------------------------------------------------
(* Requests. *)

\* A step that takes no lock, of a request that holds none.
LEMMA NothingHeld ==
    ASSUME IInv, LockInv, NEW c \in Committer,
           com[c].pc \notin {"claimXorbs", "upsert", "commit"},
           com'[c].pc \notin {"claimXorbs", "upsert", "commit", "release"},
           \A d \in Committer \ {c} : com'[d] = com[d], UNCHANGED <<col, tables, locks>>
    PROVE LockInv'
  <1>1. BlobsHeld(c)' = {} /\ XorbsHeld(c)' = {}
    BY DEF LockInv, CommitLocks, BlobsHeld, XorbsHeld, locks
  <1>2. CommitLocks(c)'
    BY <1>1 DEF CommitLocks
  <1>3. \A q \in Proc \ {c} : LocksRespected(q)
    BY QuietRespects DEF tables, locks, BlobsHeld, XorbsHeld
  <1> QED
    BY <1>2, <1>3, RequestLocks DEF tables

LEMMA RequestKeepsLocks ==
    ASSUME IInv, LockInv, NEW c \in Committer, Request(c)
    PROVE LockInv'
  <1>1. /\ com \in [Committer -> RequestState] /\ com[c].pc = "idle"
        /\ UNCHANGED <<col, tables, locks>>
    BY DEF Request, StartPut, StartLink, StartCopy, StartDelete, Receives, IInv, Typed, TypeOK
  <1>2. ASSUME NEW k \in Key, StartDelete(c, k) PROVE LockInv'
    <2>1. /\ objects[k] # None /\ KeyHolders(k) = {}
          /\ com'[c].pc = "release" /\ com'[c].content = objects[k] /\ com'[c].key = k
          /\ \A d \in Committer \ {c} : com'[d] = com[d]
      BY <1>1, <1>2 DEF StartDelete, IdleCommit
    <2>2. BlobsHeld(c)' = {} /\ XorbsHeld(c)' = {}
      <3>1. BlobsHeld(c) = {} /\ XorbsHeld(c) = {}
        BY <1>1 DEF LockInv, CommitLocks
      <3> QED
        BY <1>1, <3>1 DEF BlobsHeld, XorbsHeld, locks
    <2>3. CommitLocks(c)'
      BY <1>1, <2>1, <2>2 DEF CommitLocks, tables
    <2>4. \A q \in Proc \ {c} : LocksRespected(q)
      BY <1>1, QuietRespects DEF tables, locks, BlobsHeld, XorbsHeld
    <2> QED
      BY <1>1, <2>1, <2>3, <2>4, RequestLocks DEF tables
  <1>3. ASSUME NEW k \in Key, NEW b \in Content, StartPut(c, k, b) \/ StartLink(c, k, b)
        PROVE LockInv'
    <2>1. /\ com'[c].pc \in {"placement", "claimLive"}
          /\ \A d \in Committer \ {c} : com'[d] = com[d]
      BY <1>1, <1>3 DEF StartPut, StartLink, IdleCommit
    <2> QED
      BY <1>1, <2>1, NothingHeld
  <1>4. ASSUME NEW k \in Key, NEW src \in Key, StartCopy(c, src, k) PROVE LockInv'
    <2>1. com'[c].pc = "claimStored" /\ \A d \in Committer \ {c} : com'[d] = com[d]
      BY <1>1, <1>4 DEF StartCopy, IdleCommit
    <2> QED
      BY <1>1, <2>1, NothingHeld
  <1> QED
    BY <1>2, <1>3, <1>4 DEF Request

LEMMA PlanKeepsLocks ==
    ASSUME IInv, LockInv, NEW c \in Committer,
           PlanPlacement(c) \/ PlanChunks(c) \/ \E x \in Xorb : WriteXorb(c, x)
    PROVE LockInv'
  <1>0. com \in [Committer -> RequestState] /\ com[c] \in RequestState
    BY DEF IInv, Typed, TypeOK
  <1>1. CASE PlanPlacement(c)
    <2>1. /\ com[c].pc = "placement" /\ UNCHANGED <<col, tables, locks>>
          /\ com'[c].pc \in {"write", "locate"} /\ \A d \in Committer \ {c} : com'[d] = com[d]
      BY <1>0, <1>1 DEF PlanPlacement, RequestState
    <2> QED
      BY <2>1, NothingHeld
  <1>2. CASE PlanChunks(c)
    <2>1. PICK plan \in [Chunk -> SUBSET Chunk], new \in SUBSET Xorb :
             /\ Places(plan, com[c].content)
             /\ com' = [com EXCEPT ![c].pc = "write", ![c].plan = plan,
                                   ![c].new = new, ![c].unwritten = new]
      BY <1>2, PlanChunksPlaces DEF IInv, Typed
    <2>2. com'[c].pc = "write" /\ \A d \in Committer \ {c} : com'[d] = com[d]
      BY <1>0, <2>1 DEF RequestState
    <2>3. com[c].pc = "locate" /\ UNCHANGED <<col, tables, locks>>
      BY <1>2 DEF PlanChunks
    <2> QED
      BY <2>2, <2>3, NothingHeld
  <1>3. ASSUME NEW x \in Xorb, WriteXorb(c, x) PROVE LockInv'
    <2>1. /\ com[c].pc = "write" /\ UNCHANGED <<col, tables, locks>>
          /\ com'[c].pc = "write" /\ \A d \in Committer \ {c} : com'[d] = com[d]
      BY <1>0, <1>3 DEF WriteXorb, RequestState
    <2> QED
      BY <2>1, NothingHeld
  <1> QED
    BY <1>1, <1>2, <1>3

LEMMA RetryKeepsLocks ==
    ASSUME IInv, LockInv, NEW c \in Committer, Retry(c), UNCHANGED <<tables, col>>
    PROVE LockInv'
  <1>1. /\ Unlock(c) /\ com'[c].pc \in {"idle", "placement"}
        /\ \A d \in Committer \ {c} : com'[d] = com[d]
    BY DEF Retry, IdleCommit, IInv, Typed, TypeOK
  <1> QED
    BY <1>1, RequestEnds DEF tables

LEMMA EndCommitKeepsLocks ==
    ASSUME IInv, LockInv, NEW c \in Committer, EndCommit(c)
    PROVE LockInv'
  <1>1. /\ Unlock(c) /\ com'[c].pc = "idle" /\ UNCHANGED <<tables, col>>
        /\ \A d \in Committer \ {c} : com'[d] = com[d]
    BY DEF EndCommit, IdleCommit, IInv, Typed, TypeOK
  <1> QED
    BY <1>1, RequestEnds DEF tables

\* A claim of a blob that is not held by another.
LEMMA BlobClaimed ==
    ASSUME IInv, LockInv, NEW c \in Committer, UNCHANGED <<tables, xorbLock, col>>,
           NEW b \in Content, com[c].content = b, BlobFree(b, c), LockBlob(b, c),
           com[c].pc \notin {"claimXorbs", "upsert", "commit"},
           NEW pc \in {"claimXorbs", "upsert"}, com' = [com EXCEPT ![c].pc = pc],
           pc = "claimXorbs" => ~blobs[b].row
    PROVE LockInv'
  <1>0. com \in [Committer -> RequestState] /\ com[c] \in RequestState /\ TypeOK
    BY DEF IInv, Typed, TypeOK
  <1>1. /\ com'[c].pc = pc /\ com'[c].content = b
        /\ \A d \in Committer \ {c} : com'[d] = com[d]
    BY <1>0 DEF RequestState
  <1>2. BlobsHeld(c) = {} /\ XorbsHeld(c) = {}
    BY DEF LockInv, CommitLocks
  <1>3. BlobsHeld(c)' \subseteq {b} /\ XorbsHeld(c)' = {}
    BY <1>0, <1>2 DEF LockBlob, BlobsHeld, XorbsHeld, TypeOK
  <1>4. CommitLocks(c)'
    BY <1>1, <1>3 DEF CommitLocks, Before, tables
  <1>5. ASSUME NEW q \in Proc \ {c} PROVE LocksRespected(q)
    <2>1. BlobsHeld(q)' = BlobsHeld(q) /\ XorbsHeld(q)' = XorbsHeld(q)
      BY <1>0, LocksKept DEF Proc
    <2> QED
      BY <2>1, QuietRespects DEF tables
  <1> QED
    BY <1>1, <1>4, <1>5, RequestLocks DEF tables

LEMMA ClaimBlobKeepsLocks ==
    ASSUME IInv, LockInv, NEW c \in Committer, ClaimBlob(c) \/ ClaimStored(c)
    PROVE LockInv'
  <1>0. com \in [Committer -> RequestState]
    BY DEF IInv, Typed, TypeOK
  <1>1. CASE ClaimBlob(c)
    <2> DEFINE b == com[c].content
               pc == IF ~blobs[b].row /\ XorbsIn(com[c].plan) # {} THEN "claimXorbs" ELSE "upsert"
    <2>1. /\ com[c].pc = "write" /\ BlobFree(b, c) /\ UNCHANGED <<tables, bytes, col>> /\ b \in Content
      BY <1>1 DEF ClaimBlob, IInv, Typed, RequestsHaveContent
    <2>2. CASE Retry(c)
      BY <2>1, <2>2, RetryKeepsLocks
    <2>3. CASE LockBlob(b, c) /\ com' = [com EXCEPT ![c].pc = pc] /\ UNCHANGED xorbLock
      BY <2>1, <2>3, BlobClaimed
    <2> QED
      BY <1>1, <2>2, <2>3 DEF ClaimBlob
  <1>2. CASE ClaimStored(c)
    <2> DEFINE b == com[c].content
    <2>1. /\ com[c].pc \in {"claimStored", "claimLive"} /\ b \in Content
          /\ UNCHANGED <<tables, xorbLock, col>>
      BY <1>2 DEF ClaimStored, IInv, Typed, RequestsHaveContent
    <2>2. CASE BlobFree(b, c) /\ LockBlob(b, c) /\ com' = [com EXCEPT ![c].pc = "upsert"]
      BY <2>1, <2>2, BlobClaimed
    <2>3. CASE com' = [com EXCEPT ![c] = IdleCommit] /\ UNCHANGED blobLock
      <3>1. com'[c].pc = "idle" /\ \A d \in Committer \ {c} : com'[d] = com[d]
        BY <1>0, <2>3 DEF IdleCommit
      <3> QED
        BY <2>1, <2>3, <3>1, NothingHeld DEF locks
    <2> QED
      BY <1>2, <2>2, <2>3 DEF ClaimStored
  <1> QED
    BY <1>1, <1>2

LEMMA LockKeyKeepsLocks ==
    ASSUME IInv, LockInv, NEW c \in Committer, LockKey(c)
    PROVE LockInv'
  <1>0. com \in [Committer -> RequestState] /\ com[c] \in RequestState
    BY DEF IInv, Typed, TypeOK
  <1>1. /\ com[c].pc = "upsert" /\ KeyHolders(com[c].key) = {}
        /\ com'[c].pc = "commit" /\ com'[c].key = com[c].key /\ com'[c].content = com[c].content
        /\ \A d \in Committer \ {c} : com'[d] = com[d]
        /\ UNCHANGED <<tables, locks, col>>
    BY <1>0 DEF LockKey, RequestState
  <1>2. CommitLocks(c)'
    BY <1>1 DEF LockInv, CommitLocks, BlobsHeld, locks
  <1>3. \A q \in Proc \ {c} : LocksRespected(q)
    BY <1>1, QuietRespects DEF tables, locks, BlobsHeld, XorbsHeld
  <1> QED
    BY <1>1, <1>2, <1>3, RequestLocks DEF tables

\* The next xorb in order comes after those that are held, and before the rest.
LEMMA NextInOrder ==
    ASSUME NEW S \in SUBSET Xorb, NEW T \in SUBSET Xorb, Before(S, T), NEW x \in FirstXorb(T)
    PROVE Before(S \cup {x}, T \ {x})
  <1>1. \A y \in T \ {x} : XorbOrder[x] < XorbOrder[y]
    BY OrderAssumption DEF FirstXorb
  <1> QED
    BY <1>1 DEF Before, FirstXorb

LEMMA ClaimXorbKeepsLocks ==
    ASSUME IInv, LockInv, NEW c \in Committer, ClaimXorb(c)
    PROVE LockInv'
  <1> DEFINE t == com[c]
  <1>0. com \in [Committer -> RequestState] /\ t \in RequestState /\ TypeOK
    BY DEF IInv, Typed, TypeOK
  <1>1. PICK x \in FirstXorb(XorbsToClaim(c)) :
           /\ ~MustWait(x, x \in t.new, c)
           /\ \/ Retry(c)
              \/ /\ ~ClaimStale(x, x \in t.new, x \in t.existed)
                 /\ LockXorb(x, c)
                 /\ com' = [com EXCEPT ![c].pc = IF XorbsToClaim(c) = {x} THEN "upsert" ELSE @]
                 /\ UNCHANGED blobLock
    BY DEF ClaimXorb
  <1>2. t.pc = "claimXorbs" /\ UNCHANGED <<tables, col>>
    BY DEF ClaimXorb
  <1>3. /\ XorbsToClaim(c) \in SUBSET Xorb /\ x \in XorbsToClaim(c) /\ x \in Xorb
        /\ XorbsHeld(c) \in SUBSET Xorb
    <2>1. t.plan \in [Chunk -> SUBSET Chunk]
      BY <1>0 DEF RequestState
    <2> QED
      BY <1>1, <2>1 DEF FirstXorb, XorbsToClaim, XorbsIn, NoXorb, Xorb, XorbsHeld
  <1>4. CASE Retry(c)
    BY <1>2, <1>4, RetryKeepsLocks
  <1>5. CASE ~Retry(c)
    <2>1. /\ XorbFree(x, c) /\ LockXorb(x, c) /\ UNCHANGED blobLock
          /\ com' = [com EXCEPT ![c].pc = IF XorbsToClaim(c) = {x} THEN "upsert" ELSE @]
      BY <1>1, <1>5 DEF MustWait, ClaimStale
    <2>2. /\ com'[c].pc \in {"claimXorbs", "upsert"} /\ com'[c].plan = t.plan
          /\ com'[c].content = t.content
          /\ \A d \in Committer \ {c} : com'[d] = com[d]
      BY <1>0, <1>2, <2>1 DEF RequestState
    <2>3. XorbsHeld(c)' = XorbsHeld(c) \cup {x} /\ BlobsHeld(c)' = BlobsHeld(c)
      BY <1>0, <1>3, <2>1 DEF LockXorb, XorbsHeld, BlobsHeld, TypeOK
    <2>4. XorbsToClaim(c)' = XorbsToClaim(c) \ {x}
      BY <2>2, <2>3 DEF XorbsToClaim, XorbsIn
    <2>5. CommitLocks(c)
      BY DEF LockInv
    <2>6. Before(XorbsHeld(c) \cup {x}, XorbsToClaim(c) \ {x})
      BY <1>1, <1>2, <1>3, <2>5, NextInOrder DEF CommitLocks
    <2>7. Before(XorbsHeld(c), XorbsToClaim(c))'
      BY <2>3, <2>4, <2>6 DEF Before
    <2>8. CommitLocks(c)'
      BY <1>2, <2>2, <2>3, <2>5, <2>7 DEF CommitLocks, tables
    <2>9. ASSUME NEW q \in Proc \ {c} PROVE LocksRespected(q)
      <3>1. BlobsHeld(q)' = BlobsHeld(q) /\ XorbsHeld(q)' = XorbsHeld(q)
        BY <1>0, <1>3, <2>1, LocksKept DEF Proc
      <3> QED
        BY <1>2, <3>1, QuietRespects DEF tables
    <2> QED
      BY <1>2, <2>2, <2>8, <2>9, RequestLocks DEF tables
  <1> QED
    BY <1>4, <1>5

LEMMA CommitKeepsLocks ==
    ASSUME IInv, LockInv, NEW c \in Committer, Commit(c)
    PROVE LockInv'
  <1> DEFINE b == com[c].content
             k == com[c].key
  <1>0. TypeOK /\ b \in Content /\ k \in Key /\ com[c].pc = "commit" /\ blobLock[b] = c
    BY DEF Commit, IInv, Typed, RequestsHaveContent, CommitInv
  <1>1. /\ Upsert(c, k, b) /\ Unlock(c) /\ com' = [com EXCEPT ![c] = IdleCommit]
        /\ UNCHANGED <<bytes, col, rotted>>
        /\ UNCHANGED place \/ place' = [place EXCEPT ![b] = com[c].plan]
    BY DEF Commit
  <1>2. ASSUME NEW d \in Content \ BlobsHeld(c)
        PROVE blobs'[d].row = blobs[d].row /\ place'[d] = place[d]
    <2>1. d # b
      BY <1>0 DEF BlobsHeld
    <2>2. place'[d] = place[d]
      BY <1>0, <1>1, <2>1 DEF TypeOK
    <2>3. blobs[d] \in BlobRow
      BY <1>0 DEF TypeOK
    <2> DEFINE claimed == [blobs EXCEPT ![b] = [row |-> TRUE, ref |-> @.ref + 1]]
               old == objects[k]
    <2>4. claimed[d] = blobs[d] /\ d \in DOMAIN claimed
      BY <1>0, <2>1 DEF TypeOK
    <2>5. blobs' = claimed \/ blobs' = [claimed EXCEPT ![old].ref = Drop(@)]
      BY <1>1 DEF Upsert
    <2> HIDE DEF claimed
    <2>6. blobs'[d].row = blobs[d].row
      <3>1. CASE blobs' = claimed
        BY <2>4, <3>1
      <3>2. CASE blobs' = [claimed EXCEPT ![old].ref = Drop(@)]
        <4>1. CASE d = old
          BY <2>3, <2>4, <3>2, <4>1 DEF BlobRow
        <4>2. CASE d # old
          BY <2>4, <3>2, <4>2
        <4> QED BY <4>1, <4>2
      <3> QED
        BY <2>5, <3>1, <3>2
    <2> QED
      BY <2>2, <2>6
  <1>3. \A j \in Key : objects'[j] # objects[j] => c \in KeyHolders(j)
    BY <1>0, <1>1 DEF Upsert, KeyHolders, TypeOK
  <1>4. com'[c].pc = "idle" /\ \A d \in Committer \ {c} : com'[d] = com[d]
    BY <1>0, <1>1 DEF IdleCommit, TypeOK
  <1> QED
    BY <1>1, <1>2, <1>3, <1>4, RequestEnds

LEMMA DeleteObjectKeepsLocks ==
    ASSUME IInv, LockInv, NEW c \in Committer, DeleteObject(c)
    PROVE LockInv'
  <1>0. TypeOK /\ com[c].key \in Key /\ com[c].pc = "release"
    BY DEF DeleteObject, IInv, Typed, RequestsHaveContent
  <1>1. /\ UNCHANGED <<place, locks, col>>
        /\ objects' = [objects EXCEPT ![com[c].key] = None]
        /\ \A b \in Content : blobs'[b].row = blobs[b].row
        /\ com'[c].pc = "idle" /\ \A d \in Committer \ {c} : com'[d] = com[d]
    BY <1>0 DEF DeleteObject, TypeOK, BlobRow, IdleCommit
  <1>2. CommitLocks(c)'
    BY <1>0, <1>1 DEF LockInv, CommitLocks, BlobsHeld, XorbsHeld, locks
  <1>3. \A q \in Proc \ {c} : LocksRespected(q)
    BY <1>1, QuietRespects DEF locks, BlobsHeld, XorbsHeld
  <1>4. \A j \in Key : objects'[j] # objects[j] => c \in KeyHolders(j)
    BY <1>0, <1>1 DEF KeyHolders, TypeOK
  <1> QED
    BY <1>1, <1>2, <1>3, <1>4, RequestLocks

LEMMA CommitStepKeepsLocks ==
    ASSUME IInv, LockInv, NEW c \in Committer, CommitStep(c)
    PROVE LockInv'
  BY PlanKeepsLocks, ClaimBlobKeepsLocks, ClaimXorbKeepsLocks, LockKeyKeepsLocks,
     CommitKeepsLocks, DeleteObjectKeepsLocks DEF CommitStep

----------------------------------------------------------------------------
(* Jobs. *)

\* A step that takes no lock.
LEMMA JobReads ==
    ASSUME IInv, LockInv, NEW g \in Collector, UNCHANGED <<objects, blobs, place, locks, com>>,
           \A h \in Collector \ {g} : col'[h] = col[h],
           \/ col'[g] = col[g]
           \/ col[g].pc \in {"lockBlobs", "lockXorbs"} /\ col'[g].pc \in {"lockBlobs", "lockXorbs"}
           \/ /\ col[g].pc \notin {"detach", "lockBlobs", "lockXorbs"}
              /\ col'[g].pc # "detach"
    PROVE LockInv'
  <1>1. \A q \in Proc : LocksRespected(q)
    BY QuietRespects DEF locks, BlobsHeld, XorbsHeld
  <1>2. JobLocks(g)'
    <2>1. CASE col'[g] = col[g]
      BY <1>1, <2>1, JobLocksKept DEF LockInv, Proc
    <2>2. CASE col'[g].pc \in {"lockBlobs", "lockXorbs"}
      BY <2>2 DEF JobLocks
    <2>3. CASE /\ col[g].pc \notin {"detach", "lockBlobs", "lockXorbs"}
               /\ col'[g].pc # "detach"
      <3>1. BlobsHeld(g) = {}
        BY <2>3 DEF LockInv, JobLocks
      <3>2. BlobsHeld(g)' = {}
        BY <3>1 DEF BlobsHeld, locks
      <3> QED
        BY <2>3, <3>2 DEF JobLocks
    <2> QED
      BY <2>1, <2>2, <2>3
  <1> QED
    BY <1>1, <1>2, JobStepLocks

\* A lock that is free is taken.
LEMMA JobTakesLock ==
    ASSUME IInv, LockInv, NEW g \in Collector, UNCHANGED <<tables, com>>,
           \/ \E b \in Content : BlobFree(b, g) /\ LockBlob(b, g) /\ UNCHANGED xorbLock
           \/ \E x \in Xorb : XorbFree(x, g) /\ LockXorb(x, g) /\ UNCHANGED blobLock,
           \A h \in Collector \ {g} : col'[h] = col[h], JobLocks(g)'
    PROVE LockInv'
  <1>1. ASSUME NEW q \in Proc \ {g} PROVE LocksRespected(q)
    <2>1. BlobsHeld(q)' = BlobsHeld(q) /\ XorbsHeld(q)' = XorbsHeld(q)
      BY LocksKept DEF Proc, IInv, Typed
    <2> QED
      BY <2>1, QuietRespects DEF tables
  <1> QED
    BY <1>1, JobStepLocks DEF tables

LEMMA JobKeepsLocks ==
    ASSUME IInv, LockInv, NEW g \in Collector, Job(g)
    PROVE LockInv'
  <1>0. TypeOK /\ col[g].pc = "idle" /\ BlobsHeld(g) = {} /\ XorbsHeld(g) = {}
    <2>1. TypeOK /\ col[g].pc = "idle"
      BY DEF Job, PickBlob, PickXorb, ClaimOrphan, ClaimCompaction, Begins, IInv, Typed
    <2> QED
      BY <2>1 DEF IInv, JobInv, LockInv, JobLocks
  <1>1. ASSUME NEW b \in Content, PickBlob(g, b) PROVE LockInv'
    <2>1. /\ UNCHANGED <<tables, com, xorbLock>> /\ BlobFree(b, g) /\ LockBlob(b, g)
          /\ col'[g].pc = "detach" /\ col'[g].blob = b
          /\ \A h \in Collector \ {g} : col'[h] = col[h]
      BY <1>0, <1>1 DEF PickBlob, BlobFree, IdleJob, TypeOK
    <2>2. BlobsHeld(g)' \subseteq {b} /\ XorbsHeld(g)' = {}
      BY <1>0, <2>1 DEF BlobsHeld, XorbsHeld, LockBlob, TypeOK
    <2>3. JobLocks(g)'
      BY <2>1, <2>2 DEF JobLocks, Before
    <2> QED
      BY <2>1, <2>3, JobTakesLock
  <1>2. ASSUME NEW x \in Xorb, PickXorb(g, x) \/ ClaimOrphan(g, x) PROVE LockInv'
    <2>1. /\ UNCHANGED <<tables, com, blobLock>> /\ XorbFree(x, g) /\ LockXorb(x, g)
          /\ col'[g].pc \in {"deleteBytes", "reclaim"}
          /\ \A h \in Collector \ {g} : col'[h] = col[h]
      <3>1. CASE PickXorb(g, x)
        BY <1>0, <3>1 DEF PickXorb, XorbFree, IdleJob, TypeOK
      <3>2. CASE ClaimOrphan(g, x)
        BY <1>0, <3>2 DEF ClaimOrphan, XorbFree, IdleJob, TypeOK
      <3> QED
        BY <1>2, <3>1, <3>2
    <2>2. BlobsHeld(g)' = {}
      BY <1>0, <2>1 DEF BlobsHeld
    <2>3. JobLocks(g)'
      BY <2>1, <2>2 DEF JobLocks
    <2> QED
      BY <2>1, <2>3, JobTakesLock
  <1>3. ASSUME NEW x \in Xorb, ClaimCompaction(g, x) PROVE LockInv'
    <2>1. /\ UNCHANGED <<objects, blobs, place, locks, com>>
          /\ col'[g].pc \in {"idle", "use"}
          /\ \A h \in Collector \ {g} : col'[h] = col[h]
      BY <1>0, <1>3 DEF ClaimCompaction, IdleJob, TypeOK
    <2> QED
      BY <1>0, <2>1, JobReads
  <1> QED
    BY <1>1, <1>2, <1>3 DEF Job

LEMMA LockDetachedKeepsLocks ==
    ASSUME IInv, LockInv, NEW g \in Collector, LockDetached(g)
    PROVE LockInv'
  <1> DEFINE terms == XorbsIn(place[col[g].blob])
  <1>0. TypeOK /\ StoreInv /\ JobLocks(g)
    BY DEF IInv, Typed, LockInv
  <1>1. PICK x \in FirstXorb(XorbsToDetach(g)) : XorbFree(x, g) /\ LockXorb(x, g)
    BY DEF LockDetached
  <1>2. UNCHANGED <<tables, bytes, blobLock, com, col>> /\ col[g].pc = "detach"
    BY DEF LockDetached
  <1>3. terms \subseteq Xorb /\ XorbsToDetach(g) = terms \ XorbsHeld(g)
    <2>1. col[g].blob \in Content
      BY <1>2 DEF IInv, Typed, JobsHaveSubjects
    <2>2. ASSUME NEW c \in Chunk, place[col[g].blob][c] # NoXorb
          PROVE  place[col[g].blob][c] \in Xorb /\ xorbs[place[col[g].blob][c]].row
      <3>1. place[col[g].blob] \in [Chunk -> SUBSET Chunk]
        BY <1>0, <2>1 DEF TypeOK
      <3>2. place[col[g].blob][c] \in Xorb
        BY <2>2, <3>1 DEF NoXorb, Xorb
      <3> QED
        BY <1>0, <2>1, <2>2, <3>2 DEF StoreInv, TermsAreStored
    <2> QED
      BY <2>2 DEF XorbsToDetach, XorbsIn
  <1>4. x \in terms \ XorbsHeld(g) /\ x \in Xorb
    BY <1>1, <1>3 DEF FirstXorb
  <1>5. XorbsHeld(g)' = XorbsHeld(g) \cup {x} /\ BlobsHeld(g)' = BlobsHeld(g)
    BY <1>0, <1>1, <1>2, <1>4 DEF LockXorb, XorbsHeld, BlobsHeld, TypeOK
  <1>6. Before(XorbsHeld(g) \cup {x}, (terms \ XorbsHeld(g)) \ {x})
    <2>1. XorbsHeld(g) \in SUBSET Xorb /\ terms \ XorbsHeld(g) \in SUBSET Xorb
      BY <1>3 DEF XorbsHeld
    <2>2. Before(XorbsHeld(g), terms \ XorbsHeld(g))
      BY <1>0, <1>2 DEF JobLocks
    <2>3. x \in FirstXorb(terms \ XorbsHeld(g))
      BY <1>1, <1>3
    <2> QED
      BY <2>1, <2>2, <2>3, NextInOrder
  <1>7. (terms \ XorbsHeld(g))' = (terms \ XorbsHeld(g)) \ {x}
    BY <1>2, <1>5 DEF XorbsIn, tables
  <1>8. JobLocks(g)'
    <2>1. XorbsHeld(g)' \subseteq terms'
      BY <1>0, <1>2, <1>4, <1>5 DEF JobLocks, XorbsIn, tables
    <2>2. Before(XorbsHeld(g), terms \ XorbsHeld(g))'
      BY <1>5, <1>6, <1>7 DEF Before
    <2> QED
      BY <1>0, <1>2, <1>5, <2>1, <2>2 DEF JobLocks
  <1> QED
    BY <1>1, <1>2, <1>4, <1>8, JobTakesLock

LEMMA LockMovedKeepsLocks ==
    ASSUME IInv, LockInv, NEW g \in Collector, LockMoved(g)
    PROVE LockInv'
  <1>0. TypeOK /\ col[g] \in JobState /\ col[g].pc = "lockBlobs"
    BY DEF LockMoved, IInv, Typed, TypeOK
  <1>1. CASE BlobsToLock(g) = {}
    <2>1. /\ UNCHANGED <<objects, blobs, place, locks, com>>
          /\ col'[g].pc = "lockXorbs" /\ \A h \in Collector \ {g} : col'[h] = col[h]
      BY <1>0, <1>1 DEF LockMoved, TypeOK, JobState, tables, locks
    <2> QED
      BY <1>0, <2>1, JobReads
  <1>2. CASE BlobsToLock(g) # {}
    <2>1. PICK b \in FirstBlob(BlobsToLock(g)) : BlobFree(b, g) /\ LockBlob(b, g)
      BY <1>2 DEF LockMoved
    <2>2. b \in Content /\ UNCHANGED <<tables, xorbLock, com, col>>
      BY <1>0, <1>2, <2>1 DEF LockMoved, FirstBlob, BlobsToLock, JobState
    <2>3. JobLocks(g)'
      BY <1>0, <2>2 DEF JobLocks
    <2> QED
      BY <2>1, <2>2, <2>3, JobTakesLock
  <1> QED
    BY <1>1, <1>2

LEMMA GiveUpKeepsLocks ==
    ASSUME IInv, LockInv, NEW g \in Collector, GiveUp(g), UNCHANGED <<tables, com>>
    PROVE LockInv'
  <1>1. /\ Unlock(g) /\ col'[g].pc = "requeue"
        /\ \A h \in Collector \ {g} : col'[h] = col[h]
    BY DEF GiveUp, IdleJob, IInv, Typed, TypeOK
  <1> QED
    BY <1>1, JobEnds DEF tables

LEMMA LockMovedXorbKeepsLocks ==
    ASSUME IInv, LockInv, NEW g \in Collector, LockMovedXorb(g)
    PROVE LockInv'
  <1> DEFINE claims(x) == x = col[g].live
             stale(x) == IF claims(x) THEN ClaimStale(x, TRUE, col[g].existed)
                         ELSE ~xorbs[x].row \/ xorbs[x].ref = 0
  <1>0. TypeOK /\ col[g].pc = "lockXorbs" /\ UNCHANGED <<tables, com>>
    BY DEF LockMovedXorb, IInv, Typed
  <1>1. PICK x \in FirstXorb(XorbsToMove(g)) :
           /\ ~MustWait(x, claims(x), g)
           /\ \/ GiveUp(g)
              \/ /\ ~stale(x) /\ LockXorb(x, g) /\ UNCHANGED <<blobLock, col>>
    BY DEF LockMovedXorb
  <1>2. CASE GiveUp(g)
    BY <1>0, <1>2, GiveUpKeepsLocks
  <1>3. CASE ~GiveUp(g)
    <2>1. x \in Xorb
      BY <1>0, <1>1 DEF FirstXorb, XorbsToMove, IInv, Typed, JobsHaveSubjects
    <2>2. XorbFree(x, g)
      BY <1>1, <1>3 DEF MustWait
    <2>3. LockXorb(x, g) /\ UNCHANGED <<blobLock, col>>
      BY <1>1, <1>3
    <2>4. JobLocks(g)'
      BY <1>0, <2>3 DEF JobLocks
    <2> QED
      BY <1>0, <2>1, <2>2, <2>3, <2>4, JobTakesLock
  <1> QED
    BY <1>2, <1>3

LEMMA SweepBlobKeepsLocks ==
    ASSUME IInv, LockInv, NEW g \in Collector, SweepBlob(g)
    PROVE LockInv'
  <1> DEFINE b == col[g].blob
  <1>0. TypeOK /\ b \in Content /\ b \in BlobsHeld(g)
    BY DEF SweepBlob, IInv, Typed, JobsHaveSubjects, JobInv, BlobsHeld
  <1>1. /\ Unlock(g) /\ UNCHANGED <<com, objects>> /\ col'[g].pc = "idle"
        /\ \A h \in Collector \ {g} : col'[h] = col[h]
    BY <1>0 DEF SweepBlob, IdleJob, TypeOK
  <1>2. \A d \in Content \ BlobsHeld(g) : blobs'[d].row = blobs[d].row /\ place'[d] = place[d]
    BY <1>0 DEF SweepBlob, TypeOK
  <1> QED
    BY <1>1, <1>2, JobEnds

LEMMA MoveTermsKeepsLocks ==
    ASSUME IInv, LockInv, NEW g \in Collector, MoveTerms(g)
    PROVE LockInv'
  <1> DEFINE from == col[g].xorb
             to == col[g].live
             moved == [b \in Content |->
                         [c \in Chunk |-> IF place[b][c] = from THEN to ELSE place[b][c]]]
  <1>0. TypeOK /\ from \in Xorb
    BY DEF MoveTerms, IInv, Typed, JobsHaveSubjects
  <1>1. UNCHANGED <<objects, blobs, com>>
    BY DEF MoveTerms
  <1>2. CASE ~Covered(g)
    BY <1>1, <1>2, GiveUpKeepsLocks DEF MoveTerms, tables
  <1>3. CASE Covered(g)
    <2>1. Unlock(g) /\ col' = [col EXCEPT ![g] = IdleJob] /\ place' = moved
      BY <1>3 DEF MoveTerms
    <2>2. col'[g].pc = "idle" /\ \A h \in Collector \ {g} : col'[h] = col[h]
      BY <1>0, <2>1 DEF IdleJob, TypeOK
    <2>3. ASSUME NEW b \in Content \ BlobsHeld(g) PROVE place'[b] = place[b]
      <3>1. b \notin BlobsOn(from)
        BY <1>3 DEF Covered
      <3>2. from # NoXorb
        BY <1>0 DEF Xorb, NoXorb
      <3>3. \A c \in Chunk : place[b][c] # from
        BY <3>1, <3>2 DEF BlobsOn, XorbsIn
      <3>4. place[b] \in [Chunk -> SUBSET Chunk]
        BY <1>0 DEF TypeOK
      <3>5. place'[b] = [c \in Chunk |-> IF place[b][c] = from THEN to ELSE place[b][c]]
        BY <2>1
      <3> QED
        BY <3>3, <3>4, <3>5
    <2> QED
      BY <1>1, <2>1, <2>2, <2>3, JobEnds
  <1> QED
    BY <1>2, <1>3

LEMMA JobStepKeepsLocks ==
    ASSUME IInv, LockInv, NEW g \in Collector, JobStep(g)
    PROVE LockInv'
  <1>0. TypeOK /\ col[g] \in JobState
    BY DEF IInv, Typed, TypeOK
  <1>1. CASE DeleteXorbBytes(g) \/ ReadUse(g) \/ CopyLive(g) \/ RequeueCompaction(g)
    <2>1. /\ UNCHANGED <<objects, blobs, place, locks, com>>
          /\ \A h \in Collector \ {g} : col'[h] = col[h]
      BY <1>0, <1>1 DEF DeleteXorbBytes, ReadUse, CopyLive, RequeueCompaction, TypeOK, tables
    <2>2. /\ col[g].pc \in {"deleteBytes", "use", "copy", "requeue"}
          /\ col'[g].pc \in {"idle", "deleteRow", "copy", "move"}
      <3>1. CASE DeleteXorbBytes(g)
        BY <1>0, <3>1 DEF DeleteXorbBytes, TypeOK, JobState
      <3>2. CASE ReadUse(g)
        BY <1>0, <3>2 DEF ReadUse, TypeOK, JobState, IdleJob
      <3>3. CASE CopyLive(g)
        <4>1. /\ col[g].pc = "copy"
              /\ \/ col' = [col EXCEPT ![g].pc = "move", ![g].existed = bytes[col[g].live].there]
                 \/ col' = [col EXCEPT ![g] = IdleJob]
          BY <3>3 DEF CopyLive
        <4> QED
          BY <1>0, <4>1 DEF TypeOK, JobState, IdleJob
      <3>4. CASE RequeueCompaction(g)
        BY <1>0, <3>4 DEF RequeueCompaction, TypeOK, JobState, IdleJob
      <3> QED
        BY <1>1, <3>1, <3>2, <3>3, <3>4
    <2> QED
      BY <2>1, <2>2, JobReads
  <1>2. CASE ReadMoved(g)
    <2>1. /\ UNCHANGED <<tables, locks, com>> /\ col[g].pc = "move" /\ col'[g].pc = "lockBlobs"
          /\ \A h \in Collector \ {g} : col'[h] = col[h]
      BY <1>0, <1>2 DEF ReadMoved, TypeOK, JobState
    <2> QED
      BY <2>1, JobReads DEF tables
  <1>3. CASE SweepXorb(g) \/ ReclaimOrphan(g)
    <2>1. /\ Unlock(g) /\ UNCHANGED <<objects, blobs, place, com>> /\ col'[g].pc = "idle"
          /\ \A h \in Collector \ {g} : col'[h] = col[h]
      <3>1. CASE SweepXorb(g)
        BY <1>0, <3>1 DEF SweepXorb, TypeOK, IdleJob
      <3>2. CASE ReclaimOrphan(g)
        BY <1>0, <3>2 DEF ReclaimOrphan, TypeOK, IdleJob, tables
      <3> QED
        BY <1>3, <3>1, <3>2
    <2> QED
      BY <2>1, JobEnds
  <1>4. CASE LockTimeout(g)
    BY <1>4, GiveUpKeepsLocks DEF LockTimeout
  <1> QED
    BY <1>1, <1>2, <1>3, <1>4, LockDetachedKeepsLocks, SweepBlobKeepsLocks, LockMovedKeepsLocks,
       LockMovedXorbKeepsLocks, MoveTermsKeepsLocks DEF JobStep

LEMMA FailJobKeepsLocks ==
    ASSUME IInv, LockInv, NEW g \in Collector, FailJob(g)
    PROVE LockInv'
  <1>1. /\ Unlock(g) /\ UNCHANGED <<tables, com>> /\ col'[g].pc = "idle"
        /\ \A h \in Collector \ {g} : col'[h] = col[h]
    BY DEF FailJob, IdleJob, IInv, Typed, TypeOK
  <1> QED
    BY <1>1, JobEnds DEF tables

LEMMA NobodyStepsKeepsLocks ==
    ASSUME IInv, LockInv, UNCHANGED <<objects, blobs, place, locks, com, col>>
    PROVE LockInv'
  <1>1. \A q \in Proc : LocksRespected(q)
    BY QuietRespects DEF locks, BlobsHeld, XorbsHeld
  <1>2. \A c \in Committer : CommitLocks(c)'
    BY <1>1, CommitLocksKept DEF LockInv, Proc
  <1>3. \A g \in Collector : JobLocks(g)'
    BY <1>1, JobLocksKept DEF LockInv, Proc
  <1>4. KeysHeldOnce'
    BY DEF LockInv, KeysHeldOnce, KeyHolders
  <1> QED
    BY <1>2, <1>3, <1>4 DEF LockInv

----------------------------------------------------------------------------
LEMMA InitLocks == Init => LockInv
  <1> SUFFICES ASSUME Init PROVE LockInv
    OBVIOUS
  <1>1. \A p \in Proc : BlobsHeld(p) = {} /\ XorbsHeld(p) = {}
    BY ProcessAssumption DEF Init, Empty, BlobsHeld, XorbsHeld
  <1>2. \A c \in Committer : com[c].pc = "idle"
    BY DEF Init, Empty, IdleCommit
  <1>3. \A g \in Collector : col[g].pc = "idle"
    BY DEF Init, Empty, IdleJob
  <1>4. \A k \in Key : KeyHolders(k) = {}
    BY <1>2 DEF KeyHolders
  <1> QED
    BY <1>1, <1>2, <1>3, <1>4 DEF LockInv, CommitLocks, JobLocks, KeysHeldOnce, Proc

LEMMA StepLocks == IInv /\ LockInv /\ [Next]_vars => LockInv'
  <1> SUFFICES ASSUME IInv, LockInv, [Next]_vars PROVE LockInv'
    OBVIOUS
  <1>1. ASSUME NEW c \in Committer,
               Request(c) \/ CommitStep(c) \/ FailCommit(c) \/ VictimCommit(c)
        PROVE LockInv'
    BY <1>1, RequestKeepsLocks, CommitStepKeepsLocks, EndCommitKeepsLocks
       DEF FailCommit, VictimCommit
  <1>2. ASSUME NEW g \in Collector, Job(g) \/ JobStep(g) \/ FailJob(g) PROVE LockInv'
    BY <1>2, JobKeepsLocks, JobStepKeepsLocks, FailJobKeepsLocks
  <1>3. ASSUME NEW x \in Xorb, Scrub(x) \/ \E c \in x : Rot(x, c) PROVE LockInv'
    <2>1. UNCHANGED <<objects, blobs, place, locks, com, col>>
      BY <1>3 DEF Scrub, Rot, tables
    <2> QED
      BY <2>1, NobodyStepsKeepsLocks
  <1>4. CASE UNCHANGED vars
    BY <1>4, NobodyStepsKeepsLocks DEF vars, locks
  <1> QED
    BY <1>1, <1>2, <1>3, <1>4 DEF Next, Steps

\* Every commit and blob sweep holds just the locks its place in the code says,
\* its xorbs taken in hash order (AttachTerms, GCSweep), and every key is
\* written by one request at a time.
THEOREM LocksInOrder == Spec => []LockInv
  <1>1. IInv /\ LockInv /\ [Next]_vars => LockInv'
    BY StepLocks
  <1> QED
    BY InitLocks, <1>1, InvariantHolds, PTL DEF Spec

----------------------------------------------------------------------------
(* Refcounts. *)

KeysOf(b) == {k \in Key : objects[k] = b}
BlobCounts == IsFiniteSet(Objects) /\ \A b \in Content : blobs[b].ref = Cardinality(KeysOf(b))
XorbCounts == \A x \in Xorb : xorbs[x].ref = Cardinality(BlobsOn(x))
DamageCount == IsFiniteSet(Spoiled) /\ Cardinality(Spoiled) <= rotted

LEMMA CountParts == CountInv <=> BlobCounts /\ XorbCounts /\ DamageCount
  BY DEF CountInv, RefcountsExact, DamageDoesNotSpread, Spoiled, BlobCounts, XorbCounts,
         DamageCount, KeysOf

LEMMA KeysFinite ==
    ASSUME IsFiniteSet(Objects), NEW b \in Content
    PROVE IsFiniteSet(KeysOf(b)) /\ Cardinality(KeysOf(b)) \in Nat
  <1>1. KeysOf(b) \in SUBSET Objects
    BY ContentAssumption DEF KeysOf, Objects
  <1>2. IsFiniteSet(KeysOf(b))
    BY <1>1, FS_Subset
  <1> QED
    BY <1>2, FS_CardinalityType

LEMMA BlobsOnFinite ==
    ASSUME NEW x
    PROVE IsFiniteSet(BlobsOn(x)) /\ Cardinality(BlobsOn(x)) \in Nat
  <1>1. BlobsOn(x) \in SUBSET Content
    BY DEF BlobsOn
  <1>2. IsFiniteSet(BlobsOn(x))
    BY <1>1, FS_Subset, ContentAssumption
  <1> QED
    BY <1>2, FS_CardinalityType

\* A reference is dropped where there is one.
LEMMA DropLast ==
    ASSUME NEW S, IsFiniteSet(S), NEW k \in S
    PROVE Drop(Cardinality(S)) = Cardinality(S \ {k})
  <1>1. Cardinality(S) \in Nat /\ Cardinality(S) # 0
    BY FS_CardinalityType, FS_EmptySet
  <1> QED
    BY <1>1, FS_RemoveElement DEF Drop

LEMMA CommitCountsKeys ==
    ASSUME IInv, BlobCounts, NEW c \in Committer, Commit(c)
    PROVE BlobCounts'
  <1> DEFINE b == com[c].content
             k == com[c].key
             old == objects[k]
             claimed == [blobs EXCEPT ![b] = [row |-> TRUE, ref |-> @.ref + 1]]
  <1>0. TypeOK /\ b \in Content /\ k \in Key /\ old \in Content \cup {None}
    BY DEF Commit, IInv, Typed, RequestsHaveContent, TypeOK
  <1>1. /\ objects' = [objects EXCEPT ![k] = b]
        /\ blobs' = IF old = None THEN claimed ELSE [claimed EXCEPT ![old].ref = Drop(@)]
    BY DEF Commit, Upsert
  <1>2. IsFiniteSet(Objects')
    <2>1. Objects' = Objects \cup {k}
      BY <1>0, <1>1, ContentAssumption DEF Objects, TypeOK
    <2> QED
      BY <2>1, FS_AddElement DEF BlobCounts
  <1>3. /\ \A d \in Content : claimed[d].ref = IF d = b THEN blobs[d].ref + 1 ELSE blobs[d].ref
        /\ claimed \in [Content -> BlobRow]
    <2>1. [row |-> TRUE, ref |-> blobs[b].ref + 1] \in BlobRow
      BY <1>0 DEF TypeOK, BlobRow
    <2> QED
      BY <1>0, <2>1 DEF TypeOK
  <1> HIDE DEF claimed
  <1>4. \A d \in Content :
           KeysOf(d)' = IF d = b THEN KeysOf(d) \cup {k} ELSE KeysOf(d) \ {k}
    BY <1>0, <1>1 DEF KeysOf, TypeOK
  <1>5. ASSUME NEW d \in Content PROVE blobs'[d].ref = Cardinality(KeysOf(d)')
    <2>1. /\ blobs[d].ref = Cardinality(KeysOf(d)) /\ IsFiniteSet(KeysOf(d))
          /\ Cardinality(KeysOf(d)) \in Nat
      BY KeysFinite DEF BlobCounts
    <2>2. k \in KeysOf(d) <=> d = old
      BY <1>0 DEF KeysOf
    <2>3. CASE d = old
      <3>1. old # None
        BY <2>3, ContentAssumption
      <3>2. claimed[d] \in BlobRow
        BY <1>3
      <3>3. blobs'[d].ref = Drop(claimed[d].ref)
        BY <1>1, <1>3, <2>3, <3>1, <3>2 DEF BlobRow
      <3>4. CASE d = b
        <4>1. KeysOf(d)' = KeysOf(d)
          BY <1>4, <2>2, <2>3, <3>4
        <4> QED
          BY <1>3, <2>1, <3>3, <3>4, <4>1 DEF Drop
      <3>5. CASE d # b
        BY <1>3, <1>4, <2>1, <2>2, <2>3, <3>3, <3>5, DropLast
      <3> QED
        BY <3>4, <3>5
    <2>4. CASE d # old
      <3>1. blobs'[d].ref = claimed[d].ref
        BY <1>1, <1>3, <2>4
      <3>2. CASE d = b
        BY <1>3, <1>4, <2>1, <2>2, <2>4, <3>1, <3>2, FS_AddElement
      <3>3. CASE d # b
        <4>1. KeysOf(d)' = KeysOf(d)
          BY <1>4, <2>2, <2>4, <3>3
        <4> QED
          BY <1>3, <2>1, <3>1, <3>3, <4>1
      <3> QED
        BY <3>2, <3>3
    <2> QED
      BY <2>3, <2>4
  <1> QED
    BY <1>2, <1>5 DEF BlobCounts

LEMMA DeleteCountsKeys ==
    ASSUME IInv, LockInv, BlobCounts, NEW c \in Committer, DeleteObject(c)
    PROVE BlobCounts'
  <1> DEFINE b == com[c].content
             k == com[c].key
  <1>0. TypeOK /\ b \in Content /\ k \in Key /\ objects[k] = b
    BY DEF DeleteObject, IInv, Typed, RequestsHaveContent, LockInv, CommitLocks
  <1>1. /\ objects' = [objects EXCEPT ![k] = None]
        /\ \A d \in Content : blobs'[d].ref = IF d = b THEN Drop(blobs[d].ref) ELSE blobs[d].ref
    BY <1>0 DEF DeleteObject, TypeOK, BlobRow
  <1>2. IsFiniteSet(Objects')
    <2>1. Objects' \in SUBSET Objects
      BY <1>0, <1>1 DEF Objects, TypeOK
    <2> QED
      BY <2>1, FS_Subset DEF BlobCounts
  <1>3. ASSUME NEW d \in Content PROVE blobs'[d].ref = Cardinality(KeysOf(d)')
    <2>1. /\ blobs[d].ref = Cardinality(KeysOf(d)) /\ IsFiniteSet(KeysOf(d))
      BY KeysFinite DEF BlobCounts
    <2>2. KeysOf(d)' = KeysOf(d) \ {k} /\ (k \in KeysOf(d) <=> d = b)
      BY <1>0, <1>1, ContentAssumption DEF KeysOf, TypeOK
    <2>3. CASE d = b
      BY <1>1, <2>1, <2>2, <2>3, DropLast
    <2>4. CASE d # b
      <3>1. KeysOf(d)' = KeysOf(d)
        BY <2>2, <2>4
      <3> QED
        BY <1>1, <2>1, <2>4, <3>1
    <2> QED
      BY <2>3, <2>4
  <1> QED
    BY <1>2, <1>3 DEF BlobCounts

LEMMA SweepCountsKeys ==
    ASSUME IInv, BlobCounts, NEW g \in Collector, SweepBlob(g)
    PROVE BlobCounts'
  <1> DEFINE b == col[g].blob
  <1>0. TypeOK /\ b \in Content /\ ~Referenced(b)
    BY DEF SweepBlob, IInv, Typed, JobsHaveSubjects, JobInv
  <1>1. /\ UNCHANGED objects
        /\ \A d \in Content : blobs'[d].ref = IF d = b THEN 0 ELSE blobs[d].ref
    BY <1>0 DEF SweepBlob, TypeOK
  <1>2. Cardinality(KeysOf(b)) = 0
    <2>1. KeysOf(b) = {}
      BY <1>0 DEF Referenced, KeysOf
    <2> QED
      BY <2>1, FS_EmptySet
  <1> QED
    BY <1>1, <1>2 DEF BlobCounts, Objects, KeysOf

LEMMA CommitCountsBlobs ==
    ASSUME IInv, XorbCounts, NEW c \in Committer, Commit(c)
    PROVE XorbCounts'
  <1> DEFINE b == com[c].content
             used == XorbsIn(com[c].plan)
  <1>0. TypeOK /\ b \in Content
    BY DEF Commit, IInv, Typed, RequestsHaveContent
  <1>1. CASE blobs[b].row
    BY <1>1 DEF Commit, XorbCounts, BlobsOn
  <1>2. CASE ~blobs[b].row
    <2>1. place' = [place EXCEPT ![b] = com[c].plan]
          /\ xorbs' = [x \in Xorb |-> IF x \in used THEN AttachedRow(x, c) ELSE xorbs[x]]
      BY <1>2 DEF Commit
    <2>2. XorbsIn(place[b]) = {}
      BY <1>0, <1>2 DEF IInv, StoreInv, TermsMatchRows, Unplaced, XorbsIn
    <2>3. \A x : BlobsOn(x)' = IF x \in used THEN BlobsOn(x) \cup {b} ELSE BlobsOn(x)
      <3>1. place'[b] = com[c].plan /\ \A d \in Content \ {b} : place'[d] = place[d]
        BY <1>0, <2>1 DEF TypeOK
      <3> QED
        BY <1>0, <2>2, <3>1 DEF BlobsOn, XorbsIn
    <2>4. ASSUME NEW x \in Xorb PROVE xorbs'[x].ref = Cardinality(BlobsOn(x)')
      <3>1. xorbs[x].ref = Cardinality(BlobsOn(x)) /\ IsFiniteSet(BlobsOn(x))
        BY BlobsOnFinite DEF XorbCounts
      <3>2. b \notin BlobsOn(x)
        BY <2>2 DEF BlobsOn
      <3>3. CASE x \in used
        <4>1. xorbs'[x].ref = xorbs[x].ref + 1
          <5>1. ClaimedRow(x, c) \in XorbRow
            BY <1>0, ClaimedRowTyped DEF Proc
          <5>2. ClaimedRow(x, c).ref = xorbs[x].ref
            BY <1>0 DEF ClaimedRow, NoRow, IInv, StoreInv, NoRowNoReference
          <5>3. AttachedRow(x, c).ref = ClaimedRow(x, c).ref + 1
            BY <5>1 DEF AttachedRow, XorbRow
          <5> QED
            BY <2>1, <3>3, <5>2, <5>3
        <4> QED
          BY <2>3, <3>1, <3>2, <3>3, <4>1, FS_AddElement
      <3>4. CASE x \notin used
        BY <2>1, <2>3, <3>1, <3>4
      <3> QED
        BY <3>3, <3>4
    <2> QED
      BY <2>4 DEF XorbCounts
  <1> QED
    BY <1>1, <1>2

\* What a blob sweep has locked when it deletes the blob is all of its xorbs.
LEMMA DetachesAll ==
    ASSUME IInv, LockInv, NEW g \in Collector, col[g].pc = "detach", XorbsToDetach(g) = {}
    PROVE XorbsHeld(g) = XorbsIn(place[col[g].blob])
  <1>1. col[g].blob \in Content /\ TypeOK
    BY DEF IInv, Typed, JobsHaveSubjects
  <1>2. ASSUME NEW c \in Chunk, place[col[g].blob][c] # NoXorb
        PROVE xorbs[place[col[g].blob][c]].row
    BY <1>1, <1>2 DEF IInv, StoreInv, TermsAreStored
  <1>3. XorbsIn(place[col[g].blob]) \subseteq XorbsHeld(g)
    BY <1>2 DEF XorbsToDetach, XorbsIn
  <1>4. XorbsHeld(g) \subseteq XorbsIn(place[col[g].blob])
    BY DEF LockInv, JobLocks
  <1> QED
    BY <1>3, <1>4

LEMMA SweepCountsBlobs ==
    ASSUME IInv, LockInv, XorbCounts, NEW g \in Collector, SweepBlob(g)
    PROVE XorbCounts'
  <1> DEFINE b == col[g].blob
  <1>0. TypeOK /\ b \in Content /\ col[g].pc = "detach"
    BY DEF SweepBlob, IInv, Typed, JobsHaveSubjects
  <1>1. /\ place' = [place EXCEPT ![b] = Unplaced]
        /\ xorbs' = [x \in Xorb |->
                       IF x \in XorbsIn(place[b]) THEN DetachedRow(xorbs[x]) ELSE xorbs[x]]
    BY <1>0, DetachesAll DEF SweepBlob
  <1>2. \A x : BlobsOn(x)' = BlobsOn(x) \ {b}
    <2>1. XorbsIn(Unplaced) = {}
      BY DEF XorbsIn, Unplaced
    <2>2. place'[b] = Unplaced /\ \A d \in Content \ {b} : place'[d] = place[d]
      BY <1>0, <1>1 DEF TypeOK
    <2> QED
      BY <2>1, <2>2 DEF BlobsOn, XorbsIn
  <1>3. ASSUME NEW x \in Xorb PROVE xorbs'[x].ref = Cardinality(BlobsOn(x)')
    <2>1. xorbs[x].ref = Cardinality(BlobsOn(x)) /\ IsFiniteSet(BlobsOn(x))
      BY BlobsOnFinite DEF XorbCounts
    <2>2. b \in BlobsOn(x) <=> x \in XorbsIn(place[b])
      BY <1>0 DEF BlobsOn
    <2>3. CASE x \in XorbsIn(place[b])
      <3>1. xorbs[x] \in XorbRow
        BY <1>0 DEF TypeOK
      <3>2. xorbs'[x].ref = Drop(xorbs[x].ref)
        BY <1>1, <2>3, <3>1 DEF DetachedRow, XorbRow
      <3> QED
        BY <1>2, <2>1, <2>2, <2>3, <3>2, DropLast
    <2>4. CASE x \notin XorbsIn(place[b])
      <3>1. BlobsOn(x)' = BlobsOn(x)
        BY <1>2, <2>2, <2>4
      <3> QED
        BY <1>1, <2>1, <2>4, <3>1
    <2> QED
      BY <2>3, <2>4
  <1> QED
    BY <1>3 DEF XorbCounts

LEMMA SweepXorbCountsBlobs ==
    ASSUME IInv, XorbCounts, NEW g \in Collector, SweepXorb(g)
    PROVE XorbCounts'
  <1> DEFINE x == col[g].xorb
  <1>0. TypeOK /\ x \in Xorb /\ BlobsOn(x) = {}
    BY DEF SweepXorb, IInv, Typed, JobsHaveSubjects, JobInv
  <1>1. UNCHANGED place /\ xorbs' = [xorbs EXCEPT ![x] = NoRow]
    BY DEF SweepXorb
  <1>2. \A y \in Xorb : xorbs'[y].ref = IF y = x THEN 0 ELSE xorbs[y].ref
    BY <1>0, <1>1 DEF NoRow, TypeOK
  <1>3. \A y : BlobsOn(y)' = BlobsOn(y)
    BY <1>1 DEF BlobsOn, XorbsIn
  <1> QED
    BY <1>0, <1>2, <1>3, FS_EmptySet DEF XorbCounts

LEMMA MoveCountsBlobs ==
    ASSUME IInv, XorbCounts, NEW g \in Collector, MoveTerms(g)
    PROVE XorbCounts'
  <1> DEFINE from == col[g].xorb
             to == col[g].live
             moved == [b \in Content |->
                         [c \in Chunk |-> IF place[b][c] = from THEN to ELSE place[b][c]]]
             users == {b \in Content : to \in XorbsIn(moved[b])}
  <1>0. TypeOK /\ from \in Xorb /\ to \in Xorb
    BY DEF MoveTerms, IInv, Typed, JobsHaveSubjects
  <1>1. CASE ~Covered(g)
    BY <1>1 DEF MoveTerms, XorbCounts, BlobsOn
  <1>2. CASE Covered(g)
    <2>1. /\ place' = moved
          /\ xorbs' = [xorbs EXCEPT ![from] = [@ EXCEPT !.ref = 0, !.released = FALSE],
                                    ![to] = [ClaimedRow(to, g) EXCEPT !.ref = Cardinality(users)]]
      BY <1>2 DEF MoveTerms
    <2>2. \A b \in Content : \A c \in Chunk :
             place'[b][c] = IF place[b][c] = from THEN to ELSE place[b][c]
      BY <2>1
    <2>3. \A x : x = to => BlobsOn(x)' = users
      <3>1. \A b \in Content : place'[b] = moved[b]
        BY <2>1
      <3> HIDE DEF moved
      <3> QED
        BY <3>1 DEF BlobsOn, XorbsIn
    <2>4. /\ xorbs'[to].ref = Cardinality(users)
          /\ from # to => xorbs'[from].ref = 0
          /\ \A y \in Xorb \ {from, to} : xorbs'[y] = xorbs[y]
      <3>1. ClaimedRow(to, g) \in XorbRow
        BY <1>0, ClaimedRowTyped DEF Proc
      <3> HIDE DEF users
      <3>2. [ClaimedRow(to, g) EXCEPT !.ref = Cardinality(users)].ref = Cardinality(users)
        BY <3>1 DEF XorbRow
      <3>3. xorbs[from] \in XorbRow
        BY <1>0 DEF TypeOK
      <3>4. [xorbs[from] EXCEPT !.ref = 0, !.released = FALSE].ref = 0
        BY <3>3 DEF XorbRow
      <3> QED
        BY <1>0, <2>1, <3>2, <3>4 DEF TypeOK
    <2>5. \A x : x = from /\ from # to => BlobsOn(x)' = {}
      <3>1. from # to => \A b \in Content : from \notin XorbsIn(place'[b])
        BY <2>2 DEF XorbsIn
      <3> QED
        BY <3>1 DEF BlobsOn, XorbsIn
    <2>6. \A x : x \notin {from, to} => BlobsOn(x)' = BlobsOn(x)
      BY <2>2 DEF BlobsOn, XorbsIn
    <2> HIDE DEF users
    <2>7. ASSUME NEW y \in Xorb PROVE xorbs'[y].ref = Cardinality(BlobsOn(y)')
      <3>1. CASE y = to
        BY <2>3, <2>4, <3>1
      <3>2. CASE y = from /\ from # to
        BY <2>4, <2>5, <3>2, FS_EmptySet
      <3>3. CASE y \notin {from, to}
        BY <2>4, <2>6, <3>3 DEF XorbCounts
      <3> QED
        BY <3>1, <3>2, <3>3
    <2> QED
      BY <2>7 DEF XorbCounts
  <1> QED
    BY <1>1, <1>2

----------------------------------------------------------------------------
(* Damage. *)

\* The bad chunks of what is stored are no more than before.
LEMMA DamageKept ==
    ASSUME TypeOK, DamageCount, UNCHANGED rotted,
           \A x \in Xorb : bytes'[x].bad = bytes[x].bad \/ bytes'[x].bad = {}
    PROVE DamageCount'
  <1>1. Spoiled' \in SUBSET Spoiled
    BY DEF Spoiled
  <1>2. IsFiniteSet(Spoiled')
    BY <1>1, FS_Subset DEF DamageCount
  <1>3. Cardinality(Spoiled') <= Cardinality(Spoiled)
    BY <1>1, FS_Subset DEF DamageCount
  <1>4. Cardinality(Spoiled') \in Nat /\ Cardinality(Spoiled) \in Nat /\ rotted \in Nat
    BY <1>2, FS_CardinalityType, BoundAssumption DEF DamageCount, TypeOK
  <1> QED
    BY <1>2, <1>3, <1>4 DEF DamageCount

LEMMA RotCounts ==
    ASSUME TypeOK, DamageCount, NEW x \in Xorb, NEW c \in x, Rot(x, c)
    PROVE DamageCount'
  <1>1. rotted' = rotted + 1 /\ rotted \in Nat
    BY BoundAssumption DEF Rot, TypeOK
  <1>2. Spoiled' \in SUBSET (Spoiled \cup {x})
    BY DEF Rot, Spoiled, TypeOK
  <1>3. /\ IsFiniteSet(Spoiled \cup {x})
        /\ Cardinality(Spoiled \cup {x}) <= Cardinality(Spoiled) + 1
        /\ Cardinality(Spoiled) \in Nat /\ Cardinality(Spoiled \cup {x}) \in Nat
    <2>1. IsFiniteSet(Spoiled)
      BY DEF DamageCount
    <2>2. /\ IsFiniteSet(Spoiled \cup {x})
          /\ Cardinality(Spoiled \cup {x}) =
                IF x \in Spoiled THEN Cardinality(Spoiled) ELSE Cardinality(Spoiled) + 1
      BY <2>1, FS_AddElement
    <2>3. Cardinality(Spoiled) \in Nat /\ Cardinality(Spoiled \cup {x}) \in Nat
      BY <2>1, <2>2, FS_CardinalityType
    <2> QED
      BY <2>2, <2>3
  <1>4. IsFiniteSet(Spoiled') /\ Cardinality(Spoiled') <= Cardinality(Spoiled \cup {x})
    BY <1>2, <1>3, FS_Subset
  <1>5. Cardinality(Spoiled') \in Nat
    BY <1>4, FS_CardinalityType
  <1> QED
    BY <1>1, <1>3, <1>4, <1>5 DEF DamageCount

\* A compaction writes only chunks that it has read whole.
LEMMA CopiesAreSound ==
    ASSUME TypeOK, DamageCount, NEW g \in Collector, CopyLive(g)
    PROVE DamageCount'
  <1>1. UNCHANGED rotted
    BY DEF CopyLive
  <1>2. UNCHANGED bytes \/ (Missing(g) = {} /\ PutOnce(col[g].live, g, Unread(g)))
    BY DEF CopyLive
  <1>3. Missing(g) = {} => Unread(g) = {}
    BY DEF Missing, Unread, Unsound
  <1>4. \A x \in Xorb : bytes'[x].bad = bytes[x].bad \/ bytes'[x].bad = {}
    BY <1>2, <1>3 DEF PutOnce, TypeOK
  <1> QED
    BY <1>1, <1>4, DamageKept

LEMMA StepDamage ==
    ASSUME IInv, DamageCount, [Next]_vars
    PROVE DamageCount'
  <1>0. TypeOK
    BY DEF IInv, Typed
  <1>1. ASSUME UNCHANGED <<bytes, rotted>> PROVE DamageCount'
    BY <1>0, <1>1, DamageKept
  <1>2. ASSUME UNCHANGED rotted, NEW x, UNCHANGED bytes \/ DeleteBytes(x) PROVE DamageCount'
    <2>1. \A y \in Xorb : bytes'[y].bad = bytes[y].bad \/ bytes'[y].bad = {}
      BY <1>0, <1>2 DEF DeleteBytes, NoBytes, TypeOK
    <2> QED
      BY <1>0, <1>2, <2>1, DamageKept
  <1>3. ASSUME NEW c \in Committer,
               Request(c) \/ CommitStep(c) \/ FailCommit(c) \/ VictimCommit(c)
        PROVE DamageCount'
    <2>1. ASSUME NEW x \in Xorb, WriteXorb(c, x) PROVE DamageCount'
      <3>1. UNCHANGED rotted /\ PutOnce(x, c, {})
        BY <2>1 DEF WriteXorb
      <3>2. \A y \in Xorb : bytes'[y].bad = bytes[y].bad \/ bytes'[y].bad = {}
        BY <1>0, <3>1 DEF PutOnce, TypeOK
      <3> QED
        BY <1>0, <3>1, <3>2, DamageKept
    <2>2. CASE ClaimXorb(c)
      <3>1. UNCHANGED rotted /\ \E x : UNCHANGED bytes \/ DeleteBytes(x)
        BY <2>2 DEF ClaimXorb
      <3> QED
        BY <1>2, <3>1
    <2>3. CASE Request(c) \/ FailCommit(c) \/ VictimCommit(c)
      BY <1>1, <2>3 DEF Request, StartPut, StartLink, StartCopy, StartDelete, FailCommit,
                        VictimCommit, EndCommit
    <2>4. CASE PlanPlacement(c) \/ PlanChunks(c) \/ ClaimBlob(c) \/ ClaimStored(c) \/ LockKey(c)
               \/ Commit(c) \/ DeleteObject(c)
      BY <1>1, <2>4 DEF PlanPlacement, PlanChunks, ClaimBlob, ClaimStored, LockKey, Commit,
                        DeleteObject
    <2> QED
      BY <1>3, <2>1, <2>2, <2>3, <2>4 DEF CommitStep
  <1>4. ASSUME NEW g \in Collector, Job(g) \/ JobStep(g) \/ FailJob(g) PROVE DamageCount'
    <2>1. CASE Job(g) \/ FailJob(g)
      BY <1>1, <2>1 DEF Job, PickBlob, PickXorb, ClaimOrphan, ClaimCompaction, FailJob
    <2>2. CASE DeleteXorbBytes(g) \/ ReclaimOrphan(g)
      BY <1>2, <2>2 DEF DeleteXorbBytes, ReclaimOrphan
    <2>3. CASE LockMovedXorb(g)
      <3>1. UNCHANGED rotted /\ \E x : UNCHANGED bytes \/ DeleteBytes(x)
        BY <2>3 DEF LockMovedXorb
      <3> QED
        BY <1>2, <3>1
    <2>4. CASE LockDetached(g) \/ SweepBlob(g) \/ SweepXorb(g) \/ ReadUse(g) \/ ReadMoved(g)
               \/ LockMoved(g) \/ MoveTerms(g) \/ RequeueCompaction(g) \/ LockTimeout(g)
      BY <1>1, <2>4 DEF LockDetached, SweepBlob, SweepXorb, ReadUse, ReadMoved, LockMoved,
                        MoveTerms, RequeueCompaction, LockTimeout
    <2>5. CASE CopyLive(g)
      BY <1>0, <2>5, CopiesAreSound
    <2> QED
      BY <1>4, <2>1, <2>2, <2>3, <2>4, <2>5 DEF JobStep
  <1>5. ASSUME NEW x \in Xorb, NEW c \in x, Rot(x, c) PROVE DamageCount'
    BY <1>0, <1>5, RotCounts
  <1>6. ASSUME NEW x \in Xorb, Scrub(x) PROVE DamageCount'
    BY <1>1, <1>6 DEF Scrub
  <1>7. CASE UNCHANGED vars
    BY <1>1, <1>7 DEF vars
  <1> QED
    BY <1>3, <1>4, <1>5, <1>6, <1>7 DEF Next, Steps

LEMMA StepCounts ==
    ASSUME IInv, LockInv, CountInv, [Next]_vars
    PROVE CountInv'
  <1>0. TypeOK /\ BlobCounts /\ XorbCounts /\ DamageCount
    BY CountParts DEF IInv, Typed
  <1>1. ASSUME UNCHANGED <<objects, blobs>> PROVE BlobCounts'
    BY <1>0, <1>1 DEF BlobCounts, Objects, KeysOf
  <1>2. ASSUME UNCHANGED place, \A x \in Xorb : xorbs'[x].ref = xorbs[x].ref PROVE XorbCounts'
    BY <1>0, <1>2 DEF XorbCounts, BlobsOn, XorbsIn
  <1>3. ASSUME UNCHANGED tables PROVE BlobCounts' /\ XorbCounts'
    BY <1>1, <1>2, <1>3 DEF tables
  <1>4. ASSUME NEW c \in Committer, Commit(c) PROVE BlobCounts' /\ XorbCounts'
    BY <1>0, <1>4, CommitCountsKeys, CommitCountsBlobs
  <1>5. ASSUME NEW c \in Committer, DeleteObject(c) PROVE BlobCounts' /\ XorbCounts'
    BY <1>0, <1>2, <1>5, DeleteCountsKeys DEF DeleteObject
  <1>6. ASSUME NEW c \in Committer,
               \/ Request(c) \/ FailCommit(c) \/ VictimCommit(c) \/ PlanPlacement(c)
               \/ PlanChunks(c) \/ ClaimBlob(c) \/ ClaimXorb(c) \/ ClaimStored(c) \/ LockKey(c)
               \/ \E x \in Xorb : WriteXorb(c, x)
        PROVE BlobCounts' /\ XorbCounts'
    <2>1. UNCHANGED tables
      BY <1>6 DEF Request, StartPut, StartLink, StartCopy, StartDelete, FailCommit, VictimCommit,
                  EndCommit, PlanPlacement, PlanChunks, ClaimBlob, ClaimXorb, ClaimStored, LockKey,
                  WriteXorb
    <2> QED
      BY <1>3, <2>1
  <1>7. ASSUME NEW g \in Collector, SweepBlob(g) PROVE BlobCounts' /\ XorbCounts'
    BY <1>0, <1>7, SweepCountsKeys, SweepCountsBlobs
  <1>8. ASSUME NEW g \in Collector, SweepXorb(g) \/ MoveTerms(g) PROVE BlobCounts' /\ XorbCounts'
    <2>1. UNCHANGED <<objects, blobs>>
      BY <1>8 DEF SweepXorb, MoveTerms
    <2> QED
      BY <1>0, <1>1, <1>8, <2>1, SweepXorbCountsBlobs, MoveCountsBlobs
  <1>9. ASSUME NEW g \in Collector, CopyLive(g) PROVE BlobCounts' /\ XorbCounts'
    <2>1. PICK mark : xorbs' = [x \in Xorb |-> IF x \in mark
                          THEN [xorbs[x] EXCEPT !.damaged = TRUE, !.released = TRUE]
                          ELSE xorbs[x]]
      BY <1>9 DEF CopyLive
    <2>2. \A x \in Xorb : xorbs'[x].ref = xorbs[x].ref
      BY <1>0, <2>1 DEF TypeOK, XorbRow
    <2>3. UNCHANGED <<objects, blobs, place>>
      BY <1>9 DEF CopyLive
    <2> QED
      BY <1>1, <1>2, <2>2, <2>3
  <1>10. ASSUME NEW g \in Collector, RequeueCompaction(g) PROVE BlobCounts' /\ XorbCounts'
    <2>1. \A y \in Xorb : xorbs'[y].ref = xorbs[y].ref
      BY <1>0, <1>10 DEF RequeueCompaction, TypeOK, XorbRow
    <2> QED
      BY <1>1, <1>2, <1>10, <2>1 DEF RequeueCompaction
  <1>11. ASSUME NEW g \in Collector, NEW x \in Xorb, ClaimCompaction(g, x)
         PROVE BlobCounts' /\ XorbCounts'
    <2>1. \A y \in Xorb : xorbs'[y].ref = xorbs[y].ref
      BY <1>0, <1>11 DEF ClaimCompaction, TypeOK, XorbRow
    <2> QED
      BY <1>1, <1>2, <1>11, <2>1 DEF ClaimCompaction
  <1>12. ASSUME NEW g \in Collector,
                \/ \E b \in Content : PickBlob(g, b)
                \/ \E x \in Xorb : PickXorb(g, x) \/ ClaimOrphan(g, x)
                \/ FailJob(g) \/ LockDetached(g) \/ DeleteXorbBytes(g) \/ ReclaimOrphan(g)
                \/ ReadUse(g) \/ ReadMoved(g) \/ LockMoved(g) \/ LockMovedXorb(g) \/ LockTimeout(g)
         PROVE BlobCounts' /\ XorbCounts'
    <2>1. UNCHANGED tables
      BY <1>12 DEF PickBlob, PickXorb, ClaimOrphan, FailJob, LockDetached, DeleteXorbBytes,
                   ReclaimOrphan, ReadUse, ReadMoved, LockMoved, LockMovedXorb, LockTimeout
    <2> QED
      BY <1>3, <2>1
  <1>13. ASSUME NEW x \in Xorb, Scrub(x) PROVE BlobCounts' /\ XorbCounts'
    <2>1. \A y \in Xorb : xorbs'[y].ref = xorbs[y].ref
      BY <1>0, <1>13 DEF Scrub, TypeOK, XorbRow
    <2> QED
      BY <1>1, <1>2, <1>13, <2>1 DEF Scrub
  <1>14. ASSUME NEW x \in Xorb, NEW c \in x, Rot(x, c) PROVE BlobCounts' /\ XorbCounts'
    BY <1>3, <1>14 DEF Rot
  <1>15. ASSUME UNCHANGED vars PROVE BlobCounts' /\ XorbCounts'
    BY <1>3, <1>15 DEF vars, tables
  <1>16. BlobCounts' /\ XorbCounts'
    <2>1. ASSUME NEW c \in Committer,
                 Request(c) \/ CommitStep(c) \/ FailCommit(c) \/ VictimCommit(c)
          PROVE BlobCounts' /\ XorbCounts'
      BY <1>4, <1>5, <1>6, <2>1 DEF CommitStep
    <2>2. ASSUME NEW g \in Collector, Job(g) \/ JobStep(g) \/ FailJob(g)
          PROVE BlobCounts' /\ XorbCounts'
      BY <1>7, <1>8, <1>9, <1>10, <1>11, <1>12, <2>2 DEF Job, JobStep
    <2> QED
      BY <1>13, <1>14, <1>15, <2>1, <2>2 DEF Next, Steps
  <1>17. DamageCount'
    BY <1>0, StepDamage
  <1>18. RefcountsExact'
    <2>1. \A b \in Content : blobs'[b].ref = Cardinality({k \in Key : objects'[k] = b})
      BY <1>16 DEF BlobCounts, KeysOf
    <2>2. \A x \in Xorb : xorbs'[x].ref = Cardinality(BlobsOn(x)')
      BY <1>16 DEF XorbCounts
    <2> QED
      BY <2>1, <2>2 DEF RefcountsExact
  <1>19. DamageDoesNotSpread'
    BY <1>17 DEF DamageCount, DamageDoesNotSpread, Spoiled
  <1> QED
    BY <1>16, <1>17, <1>18, <1>19 DEF CountInv, BlobCounts, DamageCount

LEMMA InitCounts == Init => CountInv
  <1> SUFFICES ASSUME Init PROVE CountInv
    OBVIOUS
  <1> USE DEF Init, Empty
  <1>1. BlobCounts
    <2>1. Objects = {} /\ \A b \in Content : KeysOf(b) = {}
      BY ContentAssumption DEF Objects, KeysOf
    <2> QED
      BY <2>1, FS_EmptySet DEF BlobCounts
  <1>2. XorbCounts
    <2>1. \A x \in Xorb : BlobsOn(x) = {}
      BY DEF BlobsOn, XorbsIn, Unplaced, Xorb, NoXorb
    <2> HIDE DEF Init, Empty
    <2>2. xorbs = [x \in Xorb |-> NoRow]
      BY DEF Init, Empty
    <2> QED
      <3>1. \A x \in Xorb : xorbs[x] = NoRow /\ Cardinality(BlobsOn(x)) = 0
        BY <2>1, <2>2, FS_EmptySet
      <3>2. NoRow.ref = 0
        BY DEF NoRow
      <3> QED
        BY <3>1, <3>2 DEF XorbCounts
  <1>3. DamageCount
    <2>1. Spoiled = {}
      BY DEF Spoiled, NoBytes
    <2> QED
      BY <2>1, FS_EmptySet DEF DamageCount
  <1> QED
    BY <1>1, <1>2, <1>3, CountParts

\* The refcounts and the damage are what the tables and the backend say.
THEOREM CountsHold == Spec => []CountInv
  <1>1. IInv /\ LockInv /\ CountInv /\ [Next]_vars => CountInv'
    BY StepCounts
  <1> QED
    BY InitCounts, <1>1, InvariantHolds, LocksInOrder, PTL DEF Spec

\* No order of commits, deletes, sweeps and moves makes the refcount of a blob
\* or a xorb drift from the rows that refer to it.
THEOREM RefcountsStayExact == Spec => []RefcountsExact
  <1>1. CountInv => RefcountsExact
    BY DEF CountInv
  <1> QED
    BY <1>1, CountsHold, PTL

\* Nothing but rot makes a stored chunk unsound: a commit or a compaction never
\* writes a xorb with a chunk it has not read whole.
THEOREM DamageStaysPut == Spec => []DamageDoesNotSpread
  <1>1. CountInv => DamageDoesNotSpread
    BY DEF CountInv
  <1> QED
    BY <1>1, CountsHold, PTL

----------------------------------------------------------------------------
(* Deadlocks. *)

\* A set of numbers has a least one.
LEMMA LeastNumber ==
    ASSUME NEW T, T \subseteq Nat, T # {}
    PROVE \E n \in T : \A m \in T : ~(m < n)
  <1> DEFINE R == OpToRel(<, Nat)
  <1>1. IsWellFoundedOn(R, Nat)
    BY NatLessThanWellFounded, Zenon
  <1>2. \A m, n \in Nat : m < n => <<m, n>> \in R
    BY DEF OpToRel
  <1> HIDE DEF R
  <1>3. PICK n \in T : \A m \in T : <<m, n>> \notin R
    BY <1>1, WFMin, Zenon
  <1> QED
    BY <1>2, <1>3

\* The processes that take the locks of xorbs one by one, and what each still needs.
Orders(p) == \/ p \in Committer /\ com[p].pc = "claimXorbs"
             \/ p \in Collector /\ col[p].pc = "detach"
XorbsNeeded(p) == IF p \in Committer THEN XorbsToClaim(p) ELSE XorbsToDetach(p)

LEMMA NeededAfterHeld ==
    ASSUME IInv, LockInv, NEW p \in Proc, Orders(p)
    PROVE XorbsNeeded(p) \subseteq Xorb /\ Before(XorbsHeld(p), XorbsNeeded(p))
  <1>1. CASE p \in Committer
    <2>1. com[p].pc = "claimXorbs" /\ XorbsNeeded(p) = XorbsToClaim(p)
      BY <1>1, ProcessAssumption DEF Orders, XorbsNeeded
    <2>2. com[p].plan \in [Chunk -> SUBSET Chunk]
      BY <1>1 DEF IInv, Typed, TypeOK, RequestState
    <2>3. XorbsToClaim(p) \subseteq Xorb
      BY <2>2 DEF XorbsToClaim, XorbsIn, NoXorb, Xorb
    <2>4. Before(XorbsHeld(p), XorbsToClaim(p))
      BY <1>1, <2>1 DEF LockInv, CommitLocks
    <2> QED
      BY <2>1, <2>3, <2>4
  <1>2. CASE p \notin Committer
    <2> DEFINE b == col[p].blob
    <2>1. p \in Collector /\ col[p].pc = "detach" /\ XorbsNeeded(p) = XorbsToDetach(p)
      BY <1>2 DEF Orders, XorbsNeeded, Proc
    <2>2. place[b] \in [Chunk -> SUBSET Chunk]
      <3>1. b \in Content
        BY <2>1 DEF IInv, Typed, JobsHaveSubjects
      <3> QED
        BY <3>1 DEF IInv, Typed, TypeOK
    <2>3. XorbsIn(place[b]) \subseteq Xorb
      BY <2>2 DEF XorbsIn, NoXorb, Xorb
    <2>4. XorbsToDetach(p) \subseteq XorbsIn(place[b]) \ XorbsHeld(p)
      BY DEF XorbsToDetach
    <2>5. Before(XorbsHeld(p), XorbsIn(place[b]) \ XorbsHeld(p))
      BY <2>1 DEF LockInv, JobLocks
    <2> QED
      BY <2>1, <2>3, <2>4, <2>5 DEF Before
  <1> QED
    BY <1>1, <1>2

\* One of them waits for the first xorb that it needs.
LEMMA OrderedWaits ==
    ASSUME NEW p \in Proc, Orders(p), NEW q \in WaitsOn(p)
    PROVE \E x \in FirstXorb(XorbsNeeded(p)) : xorbLock[x] = q
  <1>1. CASE p \in Committer
    <2>1. com[p].pc = "claimXorbs"
      BY <1>1, ProcessAssumption DEF Orders
    <2> QED
      BY <1>1, <2>1 DEF WaitsOn, CommitNeeds, XorbsNeeded
  <1>2. CASE p \notin Committer
    <2>1. col[p].pc = "detach"
      BY <1>2 DEF Orders
    <2> QED
      BY <1>2, <2>1 DEF WaitsOn, JobNeeds, XorbsNeeded
  <1> QED
    BY <1>1, <1>2

\* The blob that one of them holds is of no object.
LEMMA OrderedHoldsUnused ==
    ASSUME IInv, LockInv, NEW p \in Proc, Orders(p), NEW k \in Key, objects[k] # None
    PROVE blobLock[objects[k]] # p
  <1>0. objects[k] \in Content /\ blobs[objects[k]].row
    BY DEF IInv, Typed, TypeOK, StoreInv, ObjectsHaveRows
  <1> SUFFICES ASSUME objects[k] \in BlobsHeld(p) PROVE FALSE
    BY <1>0 DEF BlobsHeld
  <1>1. CASE p \in Committer
    <2>1. com[p].pc = "claimXorbs"
      BY <1>1, ProcessAssumption DEF Orders
    <2>2. CommitLocks(p)
      BY <1>1 DEF LockInv
    <2> QED
      BY <1>0, <2>1, <2>2 DEF CommitLocks
  <1>2. CASE p \notin Committer
    <2>1. p \in Collector /\ col[p].pc = "detach"
      BY <1>2 DEF Orders, Proc
    <2>2. objects[k] = col[p].blob
      BY <2>1 DEF LockInv, JobLocks
    <2>3. ~Referenced(col[p].blob)
      BY <2>1 DEF IInv, JobInv
    <2> QED
      BY <2>2, <2>3 DEF Referenced
  <1> QED
    BY <1>1, <1>2

Publishing(p) == p \in Committer /\ com[p].pc \in {"upsert", "commit", "release"}

\* Who waits is publishing, taking xorbs in order, moving, or holds nothing.
LEMMA WhoWaits ==
    ASSUME IInv, LockInv, NEW p \in Proc, Waiting(p)
    PROVE \/ Orders(p)
          \/ Publishing(p)
          \/ p \in Collector /\ Moving(p)
          \/ BlobsHeld(p) = {} /\ XorbsHeld(p) = {} /\ \A k \in Key : p \notin KeyHolders(k)
  <1>1. CASE p \in Committer
    <2>1. com[p] \in RequestState
      BY <1>1 DEF IInv, Typed, TypeOK
    <2>2. CASE com[p].pc \in {"claimXorbs", "upsert", "commit", "release"}
      BY <1>1, <2>2 DEF Orders, Publishing
    <2>3. CASE com[p].pc \notin {"claimXorbs", "upsert", "commit", "release"}
      BY <1>1, <2>3 DEF LockInv, CommitLocks, KeyHolders
    <2> QED
      BY <2>2, <2>3
  <1>2. CASE p \notin Committer
    <2>1. p \in Collector /\ JobNeeds(p) # {}
      BY <1>2 DEF Waiting, WaitsOn, Proc
    <2>2. col[p].pc \in {"detach", "lockBlobs", "lockXorbs"}
      BY <2>1 DEF JobNeeds
    <2> QED
      BY <2>1, <2>2 DEF Orders, Moving
  <1> QED
    BY <1>1, <1>2

\* Whoever is waited for holds something.
LEMMA WaitsForHolder ==
    ASSUME IInv, NEW p \in Proc, NEW q \in WaitsOn(p)
    PROVE BlobsHeld(q) # {} \/ XorbsHeld(q) # {} \/ \E k \in Key : q \in KeyHolders(k)
  <1>1. CASE p \in Committer
    <2> DEFINE t == com[p]
    <2>1. t \in RequestState /\ q \in CommitNeeds(p)
      BY <1>1 DEF IInv, Typed, TypeOK, WaitsOn
    <2>2. t.pc # "idle" => t.content \in Content /\ t.key \in Key
      BY <1>1 DEF IInv, Typed, RequestsHaveContent
    <2>3. CASE t.pc \in {"write", "claimStored", "claimLive", "release"}
      <3>1. q = blobLock[t.content] /\ t.content \in Content
        BY <2>1, <2>2, <2>3 DEF CommitNeeds
      <3> QED
        BY <3>1 DEF BlobsHeld
    <2>4. CASE t.pc = "claimXorbs"
      <3>1. \E x \in XorbsToClaim(p) : q = xorbLock[x]
        BY <2>1, <2>4 DEF CommitNeeds, FirstXorb
      <3>2. XorbsToClaim(p) \subseteq Xorb
        BY <2>1 DEF RequestState, XorbsToClaim, XorbsIn, NoXorb, Xorb
      <3> QED
        BY <3>1, <3>2 DEF XorbsHeld
    <2>5. CASE t.pc = "upsert"
      BY <2>1, <2>2, <2>5 DEF CommitNeeds
    <2>6. CASE t.pc = "commit"
      <3>1. q = blobLock[objects[t.key]] /\ objects[t.key] # None /\ t.key \in Key
        BY <2>1, <2>2, <2>6 DEF CommitNeeds
      <3>2. objects[t.key] \in Content
        BY <3>1 DEF IInv, Typed, TypeOK
      <3> QED
        BY <3>1, <3>2 DEF BlobsHeld
    <2>7. CASE t.pc \in {"idle", "placement", "locate"}
      BY <2>1, <2>7 DEF CommitNeeds
    <2> QED
      BY <2>1, <2>3, <2>4, <2>5, <2>6, <2>7 DEF RequestState
  <1>2. CASE p \notin Committer
    <2> DEFINE t == col[p]
    <2>1. p \in Collector /\ t \in JobState /\ q \in JobNeeds(p) /\ TypeOK
      BY <1>2 DEF IInv, Typed, TypeOK, WaitsOn, Proc
    <2>2. CASE t.pc = "detach"
      <3>1. \E x \in XorbsToDetach(p) : q = xorbLock[x]
        BY <2>1, <2>2 DEF JobNeeds, FirstXorb
      <3>2. t.blob \in Content
        BY <2>1, <2>2 DEF IInv, Typed, JobsHaveSubjects
      <3>3. place[t.blob] \in [Chunk -> SUBSET Chunk]
        BY <2>1, <3>2 DEF TypeOK
      <3>4. XorbsToDetach(p) \subseteq Xorb
        BY <3>3 DEF XorbsToDetach, XorbsIn, NoXorb, Xorb
      <3> QED
        BY <3>1, <3>4 DEF XorbsHeld
    <2>3. CASE t.pc = "lockBlobs"
      <3>1. \E b \in BlobsToLock(p) : q = blobLock[b]
        BY <2>1, <2>3 DEF JobNeeds, FirstBlob
      <3>2. BlobsToLock(p) \subseteq Content
        BY <2>1 DEF BlobsToLock, JobState
      <3> QED
        BY <3>1, <3>2 DEF BlobsHeld
    <2>4. CASE t.pc = "lockXorbs"
      <3>1. \E x \in XorbsToMove(p) : q = xorbLock[x]
        BY <2>1, <2>4 DEF JobNeeds, FirstXorb
      <3>2. XorbsToMove(p) \subseteq Xorb
        BY <2>1, <2>4 DEF XorbsToMove, IInv, Typed, JobsHaveSubjects
      <3> QED
        BY <3>1, <3>2 DEF XorbsHeld
    <2>5. CASE t.pc \notin {"detach", "lockBlobs", "lockXorbs"}
      BY <2>1, <2>5 DEF JobNeeds
    <2> QED
      BY <2>2, <2>3, <2>4, <2>5
  <1> QED
    BY <1>1, <1>2

\* Nobody who is publishing waits for one of those that take xorbs in order.
LEMMA PublishingPasses ==
    ASSUME IInv, LockInv, NEW p \in Proc, Orders(p), NEW q \in Proc, Publishing(q)
    PROVE p \notin WaitsOn(q)
  <1> SUFFICES ASSUME p \in WaitsOn(q) PROVE FALSE
    OBVIOUS
  <1> DEFINE t == com[q]
  <1>1. q \in Committer /\ p \in CommitNeeds(q) /\ t.key \in Key
    BY DEF Publishing, WaitsOn, IInv, Typed, RequestsHaveContent
  <1>2. CASE t.pc = "upsert"
    <2>1. p \in KeyHolders(t.key)
      BY <1>1, <1>2 DEF CommitNeeds
    <2> QED
      BY <2>1, ProcessAssumption DEF KeyHolders, Orders
  <1>3. CASE t.pc = "commit"
    <2>1. p = blobLock[objects[t.key]] /\ objects[t.key] # None
      BY <1>1, <1>3 DEF CommitNeeds
    <2> QED
      BY <1>1, <2>1, OrderedHoldsUnused
  <1>4. CASE t.pc = "release"
    <2>1. p = blobLock[t.content] /\ objects[t.key] = t.content /\ t.content \in Content
      BY <1>1, <1>4 DEF CommitNeeds, LockInv, CommitLocks, IInv, Typed, RequestsHaveContent
    <2> QED
      BY <1>1, <2>1, OrderedHoldsUnused, ContentAssumption
  <1> QED
    BY <1>2, <1>3, <1>4 DEF Publishing

LEMMA InvDeadlocks == IInv /\ LockInv => DeadlocksExpected
  <1> SUFFICES ASSUME IInv, LockInv, NEW S \in SUBSET Proc, Deadlocked(S),
                      \A g \in S \cap Collector : ~Moving(g)
               PROVE \A p \in S : Publishing(p)
    BY DEF DeadlocksExpected, Publishing
  <1>1. \A p \in S : Waiting(p) /\ \E q \in S : p \in WaitsOn(q)
    BY DEF Deadlocked
  <1>2. ASSUME NEW p \in S PROVE Orders(p) \/ Publishing(p)
    <2>1. PICK q \in S : p \in WaitsOn(q)
      BY <1>1
    <2>2. BlobsHeld(p) # {} \/ XorbsHeld(p) # {} \/ \E k \in Key : p \in KeyHolders(k)
      BY <2>1, WaitsForHolder
    <2> QED
      BY <1>1, <2>2, WhoWaits
  <1> DEFINE T == {n \in Nat : \E p \in S : Orders(p) /\
                     \E x \in FirstXorb(XorbsNeeded(p)) : XorbOrder[x] = n}
  <1>3. ASSUME NEW p \in S, Orders(p)
        PROVE \E n \in T : \A x \in FirstXorb(XorbsNeeded(p)) : XorbOrder[x] = n
    <2>1. PICK q : q \in WaitsOn(p)
      BY <1>1 DEF Waiting
    <2>2. PICK x \in FirstXorb(XorbsNeeded(p)) : xorbLock[x] = q
      BY <1>3, <2>1, OrderedWaits
    <2>3. XorbsNeeded(p) \subseteq Xorb
      BY <1>3, NeededAfterHeld
    <2>4. \A y \in FirstXorb(XorbsNeeded(p)) : XorbOrder[y] = XorbOrder[x] /\ XorbOrder[y] \in Nat
      BY <2>3, OrderAssumption DEF FirstXorb
    <2> QED
      BY <1>3, <2>2, <2>4
  <1>4. ASSUME NEW p \in S, Orders(p) PROVE FALSE
    <2>1. T \subseteq Nat /\ T # {}
      BY <1>3, <1>4
    <2>2. PICK n \in T : \A m \in T : ~(m < n)
      <3> HIDE DEF T
      <3> QED
        BY <2>1, LeastNumber
    <2>3. PICK r \in S : Orders(r) /\ \E x \in FirstXorb(XorbsNeeded(r)) : XorbOrder[x] = n
      OBVIOUS
    <2>4. PICK q \in S : r \in WaitsOn(q)
      BY <1>1
    <2>5. Orders(q)
      BY <1>2, <2>3, <2>4, PublishingPasses
    <2>6. PICK y \in FirstXorb(XorbsNeeded(q)) : xorbLock[y] = r
      BY <2>4, <2>5, OrderedWaits
    <2>7. y \in XorbsHeld(r)
      BY <2>5, <2>6, NeededAfterHeld DEF FirstXorb, XorbsHeld
    <2>8. \A x \in FirstXorb(XorbsNeeded(r)) : XorbOrder[y] < XorbOrder[x]
      BY <2>3, <2>7, NeededAfterHeld DEF Before, FirstXorb
    <2>9. PICK m \in T : \A x \in FirstXorb(XorbsNeeded(q)) : XorbOrder[x] = m
      BY <1>3, <2>5
    <2> QED
      BY <2>2, <2>3, <2>6, <2>8, <2>9
  <1> QED
    BY <1>2, <1>4

\* A cycle of waits has a compaction in it, or consists of requests that wait
\* for a key, or for the blob it is taken from: claims of xorbs and blob
\* sweeps, which take xorbs in hash order, never wait for each other forever.
THEOREM DeadlocksStayExpected == Spec => []DeadlocksExpected
  BY InvDeadlocks, InvariantHolds, LocksInOrder, PTL

=============================================================================
