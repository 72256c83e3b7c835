----------------------------- MODULE XorbStore -----------------------------
(***************************************************************************)
(* The write path and the collectors of the content-addressed store:      *)
(* commits, copies, links and deletes of objects, against the blob sweep,  *)
(* the xorb sweep, the orphan sweep and compaction (internal/cas and       *)
(* internal/db).                                                           *)
(*                                                                         *)
(* A transaction is a process that takes row locks one statement at a time *)
(* and publishes all its writes in one step, the commit.  Its locks keep   *)
(* every row it read as it read it, so a statement's effect on a locked    *)
(* row is applied at the commit.  The backend is not transactional: a      *)
(* write or a delete of bytes is visible at once, and a rollback leaves it.*)
(*                                                                         *)
(* Content, Chunk, and so on stand for hashes.  A xorb is named by the     *)
(* chunks it holds, so it is the set of them.  Grace periods are not       *)
(* modelled: any unreferenced row or object counts as old enough, which    *)
(* allows every interleaving a grace period would, and more.               *)
(***************************************************************************)
EXTENDS Naturals, FiniteSets

CONSTANTS
    Content,            \* blob hashes
    Chunk,              \* chunk hashes
    ChunksOf,           \* the chunks of each content
    Key,                \* object keys of a namespace
    Committer,          \* requests that write, one at a time each
    Collector,          \* background loops, one job at a time each
    Calls,              \* the calls the requests make
    Jobs,               \* the jobs the collectors run
    SealKey,            \* encryption keys (a key decides a xorb's layout)
    KeyOf,              \* the current key of each process
    BlobOrder,          \* the order of blob hashes
    XorbOrder,          \* the order of xorb hashes
    GroupForXorbs(_),   \* how new chunks are split into xorbs
    CommitAttempts,     \* plans a commit makes before it gives up
    MaxRot,             \* how many stored chunks rot (bounds the model)
    None,               \* no object under a key, no request
    NoProc              \* a lock nobody holds

Proc == Committer \cup Collector
Xorb == (SUBSET Chunk) \ {{}}
NoXorb == {}

AllCalls == {"put", "copy", "link", "delete"}
AllJobs == {"blobs", "xorbs", "orphans", "compact"}

ASSUME ContentAssumption ==
    /\ IsFiniteSet(Content)
    /\ ChunksOf \in [Content -> SUBSET Chunk]
    /\ None \notin Content
    /\ \A cs \in SUBSET Chunk :
          /\ GroupForXorbs(cs) \subseteq Xorb
          /\ UNION GroupForXorbs(cs) = cs

ASSUME ProcessAssumption ==
    /\ Committer \cap Collector = {}
    /\ NoProc \notin Proc
    /\ KeyOf \in [Proc -> SealKey]
    /\ SealKey # {}
    /\ Calls \subseteq AllCalls
    /\ Jobs \subseteq AllJobs

ASSUME OrderAssumption ==
    /\ BlobOrder \in [Content -> Nat]
    /\ XorbOrder \in [Xorb -> Nat]
    /\ \A a, b \in Content : BlobOrder[a] = BlobOrder[b] => a = b
    /\ \A x, y \in Xorb : XorbOrder[x] = XorbOrder[y] => x = y

ASSUME BoundAssumption ==
    /\ CommitAttempts \in Nat \ {0}
    /\ MaxRot \in Nat

VARIABLES
    objects,    \* the objects table: the blob each key points at
    blobs,      \* the blobs table: is there a row, and its refcount
    place,      \* the blob_terms table: the xorb each blob reads a chunk from
    xorbs,      \* the xorbs table
    bytes,      \* the backend: what is stored under each xorb's name
    blobLock,   \* who holds the row lock (or uncommitted insert) of a blob
    xorbLock,   \* who holds the row lock (or uncommitted insert) of a xorb
    com,        \* the requests
    col,        \* the background jobs
    rotted      \* stored chunks that have rotted so far

vars == <<objects, blobs, place, xorbs, bytes, blobLock, xorbLock, com, col,
          rotted>>

AKey == CHOOSE k \in SealKey : TRUE
NoRow == [row |-> FALSE, ref |-> 0, key |-> AKey,
          damaged |-> FALSE, released |-> FALSE]
NoBytes == [there |-> FALSE, key |-> AKey, bad |-> {}]
Unplaced == [c \in Chunk |-> NoXorb]

IdleCommit == [pc |-> "idle", content |-> None, key |-> None,
               attempt |-> 0, attach |-> FALSE, plan |-> Unplaced,
               new |-> {}, unwritten |-> {}, existed |-> {}]
IdleJob == [pc |-> "idle", blob |-> None, xorb |-> NoXorb,
            live |-> {}, existed |-> FALSE, blobs |-> {}]

\* A store that holds nothing.
Empty ==
    /\ objects = [k \in Key |-> None]
    /\ blobs = [b \in Content |-> [row |-> FALSE, ref |-> 0]]
    /\ place = [b \in Content |-> Unplaced]
    /\ xorbs = [x \in Xorb |-> NoRow]
    /\ bytes = [x \in Xorb |-> NoBytes]
    /\ blobLock = [b \in Content |-> NoProc]
    /\ xorbLock = [x \in Xorb |-> NoProc]
    /\ com = [c \in Committer |-> IdleCommit]
    /\ col = [g \in Collector |-> IdleJob]

Init == Empty /\ rotted = 0

----------------------------------------------------------------------------
(* What the tables say. *)

\* The xorbs a placement of chunks uses.
XorbsIn(p) == {p[c] : c \in Chunk} \ {NoXorb}
\* The blobs with a term on x, and the chunks of x some term uses.
BlobsOn(x) == {b \in Content : x \in XorbsIn(place[b])}
LiveChunks(x) == {c \in Chunk : \E b \in Content : place[b][c] = x}
Referenced(b) == \E k \in Key : objects[k] = b

\* A stored chunk that decodes, at the place its row gives, to its hash.
Sound(x, c) ==
    /\ bytes[x].there
    /\ c \in x \ bytes[x].bad
    /\ bytes[x].key = xorbs[x].key
\* Where LocateChunks finds c.
Located(c) ==
    {x \in Xorb : c \in x /\ xorbs[x].row /\ xorbs[x].ref > 0 /\ ~xorbs[x].damaged}

\* The one of S that is first in hash order, as a set.
FirstBlob(S) == {b \in S : \A d \in S : BlobOrder[b] <= BlobOrder[d]}
FirstXorb(S) == {x \in S : \A y \in S : XorbOrder[x] <= XorbOrder[y]}

BlobsHeld(p) == {b \in Content : blobLock[b] = p}
XorbsHeld(p) == {x \in Xorb : xorbLock[x] = p}

BlobFree(b, p) == blobLock[b] \in {NoProc, p}
XorbFree(x, p) == xorbLock[x] \in {NoProc, p}

LockBlob(b, p) == blobLock' = [blobLock EXCEPT ![b] = p]
LockXorb(x, p) == xorbLock' = [xorbLock EXCEPT ![x] = p]
\* The end of a transaction, either way.
UnlockBlobs(p) == blobLock' = [b \in Content |-> IF blobLock[b] = p THEN NoProc ELSE blobLock[b]]
UnlockXorbs(p) == xorbLock' = [x \in Xorb |-> IF xorbLock[x] = p THEN NoProc ELSE xorbLock[x]]
Unlock(p) == UnlockBlobs(p) /\ UnlockXorbs(p)

tables == <<objects, blobs, place, xorbs>>
locks == <<blobLock, xorbLock>>

----------------------------------------------------------------------------
(* The backend. *)

\* A conditional write: what is already stored under the name is left alone.
\* bad are the chunks the writer has no sound copy of.
PutOnce(x, p, bad) ==
    bytes' = [bytes EXCEPT ![x] =
                 IF @.there THEN @ ELSE [there |-> TRUE, key |-> KeyOf[p], bad |-> bad]]
DeleteBytes(x) == bytes' = [bytes EXCEPT ![x] = NoBytes]

----------------------------------------------------------------------------
(* claimXorb: what claiming x finds.  wrote is whether the claimer wrote x  *)
(* (or found it written, existed) rather than planned to reuse it.          *)

MustWait(x, wrote, p) == (wrote \/ xorbs[x].row) /\ ~XorbFree(x, p)

\* Mutant of Discards: it looks for the bytes only, not for their row.
DiscardsLive(x, wrote, existed) == wrote /\ existed

\* Bytes the claimer did not write, and no row says how they are laid out.
Discards(x, wrote, existed) == wrote /\ existed /\ ~xorbs[x].row

\* Mutant of ClaimStale: nothing looks for the bytes of a new or idle row.
ClaimStaleUnread(x, wrote, existed) ==
    \/ Discards(x, wrote, existed)
    \/ ~wrote /\ (~xorbs[x].row \/ xorbs[x].damaged)

ClaimStale(x, wrote, existed) ==
    \/ Discards(x, wrote, existed)
    \/ ~wrote /\ (~xorbs[x].row \/ xorbs[x].damaged)
    \/ xorbs[x].ref = 0 /\ ~bytes[x].there

\* The row once the claim commits, before its refcount changes.
ClaimedRow(x, p) ==
    IF xorbs[x].row THEN xorbs[x] ELSE [NoRow EXCEPT !.row = TRUE, !.key = KeyOf[p]]

----------------------------------------------------------------------------
(* Commits: Put and CompleteMultipart, once the content is staged. *)

Receives(c, call) == call \in Calls /\ com[c].pc = "idle"

StartPut(c, k, b) ==
    /\ Receives(c, "put")
    /\ com' = [com EXCEPT ![c] = [IdleCommit EXCEPT
                  !.pc = "placement", !.content = b, !.key = k, !.attempt = 1]]
    /\ UNCHANGED <<tables, bytes, locks, col, rotted>>

\* Mutants of Retry: one attempt too many, and a transaction left open.
RetryOnceMore(c) ==
    /\ Unlock(c)
    /\ LET t == com[c]
           again == [IdleCommit EXCEPT !.pc = "placement", !.content = t.content,
                                       !.key = t.key, !.attempt = t.attempt + 1]
       IN com' = [com EXCEPT ![c] = IF t.attempt <= CommitAttempts THEN again ELSE IdleCommit]
RetryWithLocks(c) ==
    /\ UNCHANGED locks
    /\ LET t == com[c]
           again == [IdleCommit EXCEPT !.pc = "placement", !.content = t.content,
                                       !.key = t.key, !.attempt = t.attempt + 1]
       IN com' = [com EXCEPT ![c] = IF t.attempt < CommitAttempts THEN again ELSE IdleCommit]

\* A transaction that found its plan stale rolls back and plans again.
Retry(c) ==
    /\ Unlock(c)
    /\ LET t == com[c]
           again == [IdleCommit EXCEPT !.pc = "placement", !.content = t.content,
                                       !.key = t.key, !.attempt = t.attempt + 1]
       IN com' = [com EXCEPT ![c] = IF t.attempt < CommitAttempts THEN again ELSE IdleCommit]

\* BlobPlacement: content with a row, or with no chunks, needs no terms.
PlanPlacement(c) ==
    LET b == com[c].content
        exists == blobs[b].row
    IN /\ com[c].pc = "placement"
       /\ com' = [com EXCEPT ![c].pc = IF exists THEN "write" ELSE "locate",
                             ![c].attach = ~exists \/ ChunksOf[b] = {}]
       /\ UNCHANGED <<tables, bytes, locks, col, rotted>>

\* LocateChunks and the rest of plan: some of the located chunks are reused
\* where they are (which of them depends on the lengths of the runs they
\* form), and the others go into new xorbs.
PlanChunks(c) ==
    /\ com[c].pc = "locate"
    /\ LET b == com[c].content IN
       \E reused \in SUBSET {ch \in ChunksOf[b] : Located(ch) # {}} :
       \E at \in [reused -> UNION {Located(ch) : ch \in reused}] :
          LET new == GroupForXorbs(ChunksOf[b] \ reused)
              xorbOf(ch) == CASE ch \in reused -> at[ch]
                              [] ch \in ChunksOf[b] \ reused -> CHOOSE x \in new : ch \in x
                              [] OTHER -> NoXorb
          IN /\ \A ch \in reused : at[ch] \in Located(ch)
             /\ com' = [com EXCEPT ![c].pc = "write",
                                   ![c].plan = [ch \in Chunk |-> xorbOf(ch)],
                                   ![c].new = new, ![c].unwritten = new]
    /\ UNCHANGED <<tables, bytes, locks, col, rotted>>

\* carryOut: the new xorbs are written side by side, in any order.
WriteXorb(c, x) ==
    /\ com[c].pc = "write"
    /\ x \in com[c].unwritten
    /\ PutOnce(x, c, {})
    /\ com' = [com EXCEPT ![c].unwritten = @ \ {x},
                          ![c].existed = IF bytes[x].there THEN @ \cup {x} ELSE @]
    /\ UNCHANGED <<tables, locks, col, rotted>>

\* ClaimBlob: the first statement of the commit's transaction.  A plan made
\* for content that was stored, and no longer is, is stale.
ClaimBlob(c) ==
    LET b == com[c].content
        fresh == ~blobs[b].row
    IN /\ com[c].pc = "write"
       /\ com[c].unwritten = {}
       /\ BlobFree(b, c)
       /\ \/ /\ fresh /\ ~com[c].attach
             /\ Retry(c)
          \/ /\ ~fresh \/ com[c].attach
             /\ LockBlob(b, c)
             /\ com' = [com EXCEPT ![c].pc =
                           IF fresh /\ XorbsIn(com[c].plan) # {} THEN "claimXorbs" ELSE "upsert"]
             /\ UNCHANGED xorbLock
       /\ UNCHANGED <<tables, bytes, col, rotted>>

XorbsToClaim(c) == XorbsIn(com[c].plan) \ XorbsHeld(c)

\* AttachTerms: the xorbs of the plan are claimed in hash order.
ClaimXorb(c) ==
    /\ com[c].pc = "claimXorbs"
    /\ \E x \in FirstXorb(XorbsToClaim(c)) :
       LET wrote == x \in com[c].new
           existed == x \in com[c].existed
       IN /\ ~MustWait(x, wrote, c)
          /\ IF Discards(x, wrote, existed) THEN DeleteBytes(x) ELSE UNCHANGED bytes
          /\ \/ /\ ClaimStale(x, wrote, existed)
                /\ Retry(c)
             \/ /\ ~ClaimStale(x, wrote, existed)
                /\ LockXorb(x, c)
                /\ com' = [com EXCEPT ![c].pc = IF XorbsToClaim(c) = {x} THEN "upsert" ELSE @]
                /\ UNCHANGED blobLock
    /\ UNCHANGED <<tables, col, rotted>>

\* The rows of the xorbs a fresh blob uses: one reference each, and one
\* reused from zero is marked for compaction.
AttachedRow(x, c) ==
    LET row == ClaimedRow(x, c)
    IN [row EXCEPT !.ref = @ + 1,
                   !.released = @ \/ (row.ref = 0 /\ x \notin com[c].new)]

Drop(n) == IF n > 0 THEN n - 1 ELSE 0

\* UpsertObject: the key is locked (its advisory lock, and its row) until the
\* transaction ends, by whoever writes it; a delete locks its row the same way.
KeyHolders(k) == {c \in Committer : com[c].pc \in {"commit", "release"} /\ com[c].key = k}

LockKey(c) ==
    /\ com[c].pc = "upsert"
    /\ KeyHolders(com[c].key) = {}
    /\ com' = [com EXCEPT ![c].pc = "commit"]
    /\ UNCHANGED <<tables, bytes, locks, col, rotted>>

\* Mutant of Upsert: a key that points at b already is thought unchanged.
UpsertIdempotent(p, k, b) ==
    LET old == objects[k]
        claimed == [blobs EXCEPT ![b] = [row |-> TRUE, ref |-> @.ref + 1]]
    IN /\ old # None => BlobFree(old, p)
       /\ objects' = [objects EXCEPT ![k] = b]
       /\ blobs' = IF old \in {None, b} THEN claimed ELSE [claimed EXCEPT ![old].ref = Drop(@)]

\* The rest of UpsertObject: key k points at b, and the blob it pointed at
\* before is released, whose row lock is waited for.
Upsert(p, k, b) ==
    LET old == objects[k]
        claimed == [blobs EXCEPT ![b] = [row |-> TRUE, ref |-> @.ref + 1]]
    IN /\ old # None => BlobFree(old, p)
       /\ objects' = [objects EXCEPT ![k] = b]
       /\ blobs' = IF old = None THEN claimed ELSE [claimed EXCEPT ![old].ref = Drop(@)]

Commit(c) ==
    LET b == com[c].content
        used == XorbsIn(com[c].plan)
    IN /\ com[c].pc = "commit"
       /\ Upsert(c, com[c].key, b)
       /\ IF blobs[b].row THEN UNCHANGED <<place, xorbs>>
          ELSE /\ place' = [place EXCEPT ![b] = com[c].plan]
               /\ xorbs' = [x \in Xorb |-> IF x \in used THEN AttachedRow(x, c) ELSE xorbs[x]]
       /\ Unlock(c)
       /\ com' = [com EXCEPT ![c] = IdleCommit]
       /\ UNCHANGED <<bytes, col, rotted>>

----------------------------------------------------------------------------
(* Copies and links: they claim a blob that is stored, and write nothing.  *)

\* The source is read before the transaction begins.
StartCopy(c, src, k) ==
    /\ Receives(c, "copy")
    /\ objects[src] # None
    /\ com' = [com EXCEPT ![c] = [IdleCommit EXCEPT
                  !.pc = "claimStored", !.content = objects[src], !.key = k]]
    /\ UNCHANGED <<tables, bytes, locks, col, rotted>>

\* The client names the content by its hash.
StartLink(c, k, b) ==
    /\ Receives(c, "link")
    /\ com' = [com EXCEPT ![c] = [IdleCommit EXCEPT
                  !.pc = "claimLive", !.content = b, !.key = k]]
    /\ UNCHANGED <<tables, bytes, locks, col, rotted>>

\* ClaimStoredBlob takes any row, ClaimExistingBlob only a live one.
ClaimStored(c) ==
    LET b == com[c].content
        stored == blobs[b].row /\ (com[c].pc = "claimLive" => blobs[b].ref > 0)
    IN /\ com[c].pc \in {"claimStored", "claimLive"}
       /\ stored => BlobFree(b, c)
       /\ \/ /\ stored
             /\ LockBlob(b, c)
             /\ com' = [com EXCEPT ![c].pc = "upsert"]
          \/ /\ ~stored
             /\ com' = [com EXCEPT ![c] = IdleCommit]
             /\ UNCHANGED blobLock
       /\ UNCHANGED <<tables, bytes, xorbLock, col, rotted>>

\* DeleteObject takes the key's row, then releases its blob.
StartDelete(c, k) ==
    /\ Receives(c, "delete")
    /\ objects[k] # None
    /\ KeyHolders(k) = {}
    /\ com' = [com EXCEPT ![c] = [IdleCommit EXCEPT
                  !.pc = "release", !.content = objects[k], !.key = k]]
    /\ UNCHANGED <<tables, bytes, locks, col, rotted>>

DeleteObject(c) ==
    LET b == com[c].content IN
    /\ com[c].pc = "release"
    /\ BlobFree(b, c)
    /\ objects' = [objects EXCEPT ![com[c].key] = None]
    /\ blobs' = [blobs EXCEPT ![b].ref = Drop(@)]
    /\ com' = [com EXCEPT ![c] = IdleCommit]
    /\ UNCHANGED <<place, xorbs, bytes, locks, col, rotted>>

----------------------------------------------------------------------------
(* The blob sweep (GCSweep): its candidate's row is locked unless someone   *)
(* holds it, then the rows of its xorbs in hash order, and the terms and    *)
(* the row go together.                                                     *)

Begins(g, job) == job \in Jobs /\ col[g].pc = "idle"

\* Mutant of PickBlob: the references are not looked at under the lock.
PickAnyBlob(g, b) ==
    /\ Begins(g, "blobs")
    /\ blobs[b].row
    /\ BlobFree(b, NoProc)
    /\ LockBlob(b, g)
    /\ col' = [col EXCEPT ![g] = [IdleJob EXCEPT !.pc = "detach", !.blob = b]]
    /\ UNCHANGED <<tables, bytes, xorbLock, com, rotted>>

PickBlob(g, b) ==
    /\ Begins(g, "blobs")
    /\ blobs[b].row /\ blobs[b].ref = 0 /\ ~Referenced(b)
    /\ BlobFree(b, NoProc)
    /\ LockBlob(b, g)
    /\ col' = [col EXCEPT ![g] = [IdleJob EXCEPT !.pc = "detach", !.blob = b]]
    /\ UNCHANGED <<tables, bytes, xorbLock, com, rotted>>

XorbsToDetach(g) == {x \in XorbsIn(place[col[g].blob]) : xorbs[x].row} \ XorbsHeld(g)

\* Mutant of LockDetached: the xorbs are locked in no order.
LockDetachedUnordered(g) ==
    /\ col[g].pc = "detach"
    /\ \E x \in XorbsToDetach(g) : XorbFree(x, g) /\ LockXorb(x, g)
    /\ UNCHANGED <<tables, bytes, blobLock, com, col, rotted>>

LockDetached(g) ==
    /\ col[g].pc = "detach"
    /\ \E x \in FirstXorb(XorbsToDetach(g)) : XorbFree(x, g) /\ LockXorb(x, g)
    /\ UNCHANGED <<tables, bytes, blobLock, com, col, rotted>>

\* Mutant of DetachedRow: the xorb is marked, and its reference kept.
DetachedRowKept(row) ==
    [row EXCEPT !.released = @ \/ row.ref > 1]

\* A xorb other blobs still use may now hold dead chunks.
DetachedRow(row) ==
    [row EXCEPT !.ref = Drop(@), !.released = @ \/ row.ref > 1]

SweepBlob(g) ==
    LET b == col[g].blob IN
    /\ col[g].pc = "detach"
    /\ XorbsToDetach(g) = {}
    /\ xorbs' = [x \in Xorb |-> IF x \in XorbsHeld(g) THEN DetachedRow(xorbs[x]) ELSE xorbs[x]]
    /\ place' = [place EXCEPT ![b] = Unplaced]
    /\ blobs' = [blobs EXCEPT ![b] = [row |-> FALSE, ref |-> 0]]
    /\ Unlock(g)
    /\ col' = [col EXCEPT ![g] = IdleJob]
    /\ UNCHANGED <<objects, bytes, com, rotted>>

----------------------------------------------------------------------------
(* The xorb sweep (GCSweepXorbs): row and bytes go under the row's lock,    *)
(* the bytes before the transaction commits.                                *)

\* Mutant of PickXorb: a row another transaction has claimed is picked.
PickClaimedXorb(g, x) ==
    /\ Begins(g, "xorbs")
    /\ xorbs[x].row /\ xorbs[x].ref = 0 /\ BlobsOn(x) = {}
    /\ LockXorb(x, g)
    /\ col' = [col EXCEPT ![g] = [IdleJob EXCEPT !.pc = "deleteBytes", !.xorb = x]]
    /\ UNCHANGED <<tables, bytes, blobLock, com, rotted>>

PickXorb(g, x) ==
    /\ Begins(g, "xorbs")
    /\ xorbs[x].row /\ xorbs[x].ref = 0 /\ BlobsOn(x) = {}
    /\ XorbFree(x, NoProc)
    /\ LockXorb(x, g)
    /\ col' = [col EXCEPT ![g] = [IdleJob EXCEPT !.pc = "deleteBytes", !.xorb = x]]
    /\ UNCHANGED <<tables, bytes, blobLock, com, rotted>>

DeleteXorbBytes(g) ==
    /\ col[g].pc = "deleteBytes"
    /\ DeleteBytes(col[g].xorb)
    /\ col' = [col EXCEPT ![g].pc = "deleteRow"]
    /\ UNCHANGED <<tables, locks, com, rotted>>

SweepXorb(g) ==
    /\ col[g].pc = "deleteRow"
    /\ xorbs' = [xorbs EXCEPT ![col[g].xorb] = NoRow]
    /\ Unlock(g)
    /\ col' = [col EXCEPT ![g] = IdleJob]
    /\ UNCHANGED <<objects, blobs, place, bytes, com, rotted>>

----------------------------------------------------------------------------
(* The orphan sweep (reclaimOrphan): bytes with no row are deleted under an *)
(* insert of their row that is always rolled back.  The insert waits for a  *)
(* claim in flight, for a while, and skips the xorb after that.             *)

ClaimOrphan(g, x) ==
    /\ Begins(g, "orphans")
    /\ bytes[x].there /\ ~xorbs[x].row
    /\ XorbFree(x, NoProc)
    /\ LockXorb(x, g)
    /\ col' = [col EXCEPT ![g] = [IdleJob EXCEPT !.pc = "reclaim", !.xorb = x]]
    /\ UNCHANGED <<tables, bytes, blobLock, com, rotted>>

ReclaimOrphan(g) ==
    /\ col[g].pc = "reclaim"
    /\ DeleteBytes(col[g].xorb)
    /\ Unlock(g)
    /\ col' = [col EXCEPT ![g] = IdleJob]
    /\ UNCHANGED <<tables, com, rotted>>

----------------------------------------------------------------------------
(* Compaction: the live chunks of a xorb that lost a blob are copied to a   *)
(* new xorb, and every term on it is moved there.                           *)

ClaimCompaction(g, x) ==
    /\ Begins(g, "compact")
    /\ xorbs[x].released
    /\ XorbFree(x, NoProc)
    /\ xorbs' = [xorbs EXCEPT ![x].released = FALSE]
    /\ col' = [col EXCEPT ![g] = IF xorbs[x].ref = 0 THEN IdleJob
                                 ELSE [IdleJob EXCEPT !.pc = "use", !.xorb = x]]
    /\ UNCHANGED <<objects, blobs, place, bytes, locks, com, rotted>>

\* XorbUse, and whether the xorb is worth rewriting: never when all or none
\* of its chunks are live, always when it is damaged, and otherwise when the
\* live ones are few, which depends on their sizes.
ReadUse(g) ==
    LET x == col[g].xorb
        live == LiveChunks(x)
        rewrite == xorbs[x].row /\ xorbs[x].ref > 0 /\ live # {} /\ live # x
    IN /\ col[g].pc = "use"
       /\ \/ /\ rewrite
             /\ col' = [col EXCEPT ![g].pc = "copy", ![g].live = live]
          \/ /\ ~rewrite \/ ~xorbs[x].damaged
             /\ col' = [col EXCEPT ![g] = IdleJob]
       /\ UNCHANGED <<tables, bytes, locks, com, rotted>>

\* Mutant of Unsound: only what is marked as damaged is checked.
UnsoundMarked(g) ==
    {c \in col[g].live : xorbs[col[g].xorb].damaged /\ ~Sound(col[g].xorb, c)}

\* The live chunks that fail their check, and where else each is looked for.
Unsound(g) == {c \in col[g].live : ~Sound(col[g].xorb, c)}
Elsewhere(g, c) == Located(c) \ {col[g].xorb}
\* Those with no sound copy anywhere, and what would be written of them.
Missing(g) == {c \in Unsound(g) : \A x \in Elsewhere(g, c) : ~Sound(x, c)}
Unread(g) == {c \in col[g].live : \A x \in {col[g].xorb} \cup Elsewhere(g, c) : ~Sound(x, c)}

\* The new xorb is written once every live chunk has been read whole, from
\* here or from the first copy elsewhere that passes its check; copies that
\* fail it mark their xorbs.  With no sound copy the xorb is left as it is.
CopyLive(g) ==
    LET live == col[g].live
        failing == UNION {{x \in Elsewhere(g, c) : c \in bytes[x].bad} : c \in Unsound(g)}
    IN /\ col[g].pc = "copy"
       /\ \E mark \in SUBSET failing :
             /\ \A x \in mark : XorbFree(x, NoProc)
             /\ xorbs' = [x \in Xorb |-> IF x \in mark
                             THEN [xorbs[x] EXCEPT !.damaged = TRUE, !.released = TRUE]
                             ELSE xorbs[x]]
       /\ \/ /\ Missing(g) = {}
             /\ PutOnce(live, g, Unread(g))
             /\ col' = [col EXCEPT ![g].pc = "move", ![g].existed = bytes[live].there]
          \/ /\ Missing(g) # {}
             /\ col' = [col EXCEPT ![g] = IdleJob]
             /\ UNCHANGED bytes
       /\ UNCHANGED <<objects, blobs, place, locks, com, rotted>>

\* MoveTerms: the blobs with a term on the xorb, as its first statement finds
\* them, are locked in hash order, then both xorbs, in hash order.
ReadMoved(g) ==
    /\ col[g].pc = "move"
    /\ col' = [col EXCEPT ![g].pc = "lockBlobs", ![g].blobs = BlobsOn(col[g].xorb)]
    /\ UNCHANGED <<tables, bytes, locks, com, rotted>>

BlobsToLock(g) == {b \in col[g].blobs : blobs[b].row} \ BlobsHeld(g)

LockMoved(g) ==
    /\ col[g].pc = "lockBlobs"
    /\ IF BlobsToLock(g) = {}
       THEN /\ col' = [col EXCEPT ![g].pc = "lockXorbs"]
            /\ UNCHANGED blobLock
       ELSE /\ \E b \in FirstBlob(BlobsToLock(g)) : BlobFree(b, g) /\ LockBlob(b, g)
            /\ UNCHANGED col
    /\ UNCHANGED <<tables, bytes, xorbLock, com, rotted>>

\* A move that cannot go ahead is marked again, once it has rolled back.
GiveUp(g) ==
    /\ Unlock(g)
    /\ col' = [col EXCEPT ![g] = [IdleJob EXCEPT !.pc = "requeue", !.xorb = col[g].xorb]]

XorbsToMove(g) == {col[g].xorb, col[g].live} \ XorbsHeld(g)

LockMovedXorb(g) ==
    /\ col[g].pc = "lockXorbs"
    /\ \E x \in FirstXorb(XorbsToMove(g)) :
       LET claims == x = col[g].live
           stale == IF claims THEN ClaimStale(x, TRUE, col[g].existed)
                    ELSE ~xorbs[x].row \/ xorbs[x].ref = 0
       IN /\ ~MustWait(x, claims, g)
          /\ IF claims /\ Discards(x, TRUE, col[g].existed)
             THEN DeleteBytes(x) ELSE UNCHANGED bytes
          /\ \/ /\ stale
                /\ GiveUp(g)
             \/ /\ ~stale
                /\ LockXorb(x, g)
                /\ UNCHANGED <<blobLock, col>>
    /\ UNCHANGED <<tables, com, rotted>>

\* Mutant of Covered: the chunks that came to be used since are forgotten.
CoveredBlobs(g) == BlobsOn(col[g].xorb) \subseteq BlobsHeld(g)

\* The terms are read again under the locks: each must belong to a locked
\* blob, and use only chunks the new xorb holds.
Covered(g) ==
    /\ BlobsOn(col[g].xorb) \subseteq BlobsHeld(g)
    /\ LiveChunks(col[g].xorb) \subseteq col[g].live

\* Mutant of MoveTerms: the references are counted as first read.
MoveTermsCounted(g) ==
    LET from == col[g].xorb
        to == col[g].live
        moved == [b \in Content |-> [c \in Chunk |-> IF place[b][c] = from THEN to ELSE place[b][c]]]
    IN /\ col[g].pc = "lockXorbs"
       /\ XorbsToMove(g) = {}
       /\ \/ /\ Covered(g)
             /\ place' = moved
             /\ xorbs' = [xorbs EXCEPT
                    ![from] = [@ EXCEPT !.ref = 0, !.released = FALSE],
                    ![to] = [ClaimedRow(to, g) EXCEPT !.ref = @ + Cardinality(col[g].blobs)]]
             /\ Unlock(g)
             /\ col' = [col EXCEPT ![g] = IdleJob]
          \/ /\ ~Covered(g)
             /\ GiveUp(g)
             /\ UNCHANGED <<place, xorbs>>
       /\ UNCHANGED <<objects, blobs, bytes, com, rotted>>

MoveTerms(g) ==
    LET from == col[g].xorb
        to == col[g].live
        moved == [b \in Content |-> [c \in Chunk |-> IF place[b][c] = from THEN to ELSE place[b][c]]]
        users == {b \in Content : to \in XorbsIn(moved[b])}
    IN /\ col[g].pc = "lockXorbs"
       /\ XorbsToMove(g) = {}
       /\ \/ /\ Covered(g)
             /\ place' = moved
             /\ xorbs' = [xorbs EXCEPT
                    ![from] = [@ EXCEPT !.ref = 0, !.released = FALSE],
                    ![to] = [ClaimedRow(to, g) EXCEPT !.ref = Cardinality(users)]]
             /\ Unlock(g)
             /\ col' = [col EXCEPT ![g] = IdleJob]
          \/ /\ ~Covered(g)
             /\ GiveUp(g)
             /\ UNCHANGED <<place, xorbs>>
       /\ UNCHANGED <<objects, blobs, bytes, com, rotted>>

RequeueCompaction(g) ==
    LET x == col[g].xorb IN
    /\ col[g].pc = "requeue"
    /\ xorbs[x].ref > 0 => XorbFree(x, NoProc)
    /\ xorbs' = [xorbs EXCEPT ![x].released = @ \/ xorbs[x].ref > 0]
    /\ col' = [col EXCEPT ![g] = IdleJob]
    /\ UNCHANGED <<objects, blobs, place, bytes, locks, com, rotted>>

----------------------------------------------------------------------------
(* Waiting.  WaitsOn(p) holds the process with the one lock p needs next,   *)
(* if another has it.                                                       *)

CommitNeeds(c) ==
    LET t == com[c]
        claim == {x \in FirstXorb(XorbsToClaim(c)) : MustWait(x, x \in t.new, c)}
    IN CASE t.pc = "write" /\ t.unwritten = {} -> {blobLock[t.content]}
         [] t.pc = "claimStored" -> {blobLock[t.content]}
         [] t.pc = "claimLive" /\ blobs[t.content].ref > 0 -> {blobLock[t.content]}
         [] t.pc = "claimXorbs" -> {xorbLock[x] : x \in claim}
         [] t.pc = "upsert" -> KeyHolders(t.key)
         [] t.pc = "commit" -> {blobLock[b] : b \in {objects[t.key]} \ {None}}
         [] t.pc = "release" -> {blobLock[t.content]}
         [] OTHER -> {}

JobNeeds(g) ==
    LET t == col[g]
        claim == {x \in FirstXorb(XorbsToMove(g)) : MustWait(x, x = t.live, g)}
    IN CASE t.pc = "detach" -> {xorbLock[x] : x \in FirstXorb(XorbsToDetach(g))}
         [] t.pc = "lockBlobs" -> {blobLock[b] : b \in FirstBlob(BlobsToLock(g))}
         [] t.pc = "lockXorbs" -> {xorbLock[x] : x \in claim}
         [] OTHER -> {}

WaitsOn(p) == (IF p \in Committer THEN CommitNeeds(p) ELSE JobNeeds(p)) \ {p, NoProc}
Waiting(p) == WaitsOn(p) # {}

\* A deadlock: processes that all wait, each on another of them.
Deadlocked(S) ==
    /\ S # {}
    /\ \A p \in S : Waiting(p)
    /\ UNION {WaitsOn(p) : p \in S} = S

Moving(g) == col[g].pc \in {"lockBlobs", "lockXorbs"}

----------------------------------------------------------------------------
(* Failures.  A request or a job may end at any point: the client goes      *)
(* away, the backend or the database fails, the quota refuses the commit,   *)
(* the process is killed.  Its transaction rolls back, and what it wrote to *)
(* the backend stays.                                                       *)

EndCommit(c) ==
    /\ Unlock(c)
    /\ com' = [com EXCEPT ![c] = IdleCommit]
    /\ UNCHANGED <<tables, bytes, col, rotted>>

FailCommit(c) == com[c].pc # "idle" /\ EndCommit(c)

FailJob(g) ==
    /\ col[g].pc # "idle"
    /\ Unlock(g)
    /\ col' = [col EXCEPT ![g] = IdleJob]
    /\ UNCHANGED <<tables, bytes, com, rotted>>

\* Postgres ends a deadlock by failing one of the transactions in it.
VictimCommit(c) ==
    /\ \E S \in SUBSET Proc : c \in S /\ Deadlocked(S)
    /\ EndCommit(c)

\* CompactLockTimeout: a compaction gives up on a lock it waits for.
LockTimeout(g) ==
    /\ Moving(g) /\ Waiting(g)
    /\ GiveUp(g)
    /\ UNCHANGED <<tables, bytes, com, rotted>>

----------------------------------------------------------------------------
(* Damage: a stored chunk rots, and a read or a scrub finds out.            *)

Rot(x, c) ==
    /\ rotted < MaxRot
    /\ bytes[x].there /\ c \in x \ bytes[x].bad
    /\ bytes' = [bytes EXCEPT ![x].bad = @ \cup {c}]
    /\ rotted' = rotted + 1
    /\ UNCHANGED <<tables, locks, com, col>>

\* RecordScrub: a check of a live xorb, and what its row says after it.
Scrub(x) ==
    LET sound == \A c \in x : Sound(x, c) IN
    /\ xorbs[x].row /\ xorbs[x].ref > 0
    /\ XorbFree(x, NoProc)
    /\ xorbs' = [xorbs EXCEPT ![x].damaged = ~sound, ![x].released = @ \/ ~sound]
    /\ UNCHANGED <<objects, blobs, place, bytes, locks, com, col, rotted>>

----------------------------------------------------------------------------
CommitStep(c) ==
    \/ PlanPlacement(c)
    \/ PlanChunks(c)
    \/ \E x \in Xorb : WriteXorb(c, x)
    \/ ClaimBlob(c)
    \/ ClaimXorb(c)
    \/ ClaimStored(c)
    \/ LockKey(c)
    \/ Commit(c)
    \/ DeleteObject(c)

JobStep(g) ==
    \/ LockDetached(g)
    \/ SweepBlob(g)
    \/ DeleteXorbBytes(g)
    \/ SweepXorb(g)
    \/ ReclaimOrphan(g)
    \/ ReadUse(g)
    \/ CopyLive(g)
    \/ ReadMoved(g)
    \/ LockMoved(g)
    \/ LockMovedXorb(g)
    \/ MoveTerms(g)
    \/ RequeueCompaction(g)
    \/ LockTimeout(g)

Request(c) ==
    \E k \in Key :
        \/ \E b \in Content : StartPut(c, k, b) \/ StartLink(c, k, b)
        \/ \E src \in Key : StartCopy(c, src, k)
        \/ StartDelete(c, k)

Job(g) ==
    \/ \E b \in Content : PickBlob(g, b)
    \/ \E x \in Xorb : PickXorb(g, x) \/ ClaimOrphan(g, x) \/ ClaimCompaction(g, x)

Steps ==
    \/ \E c \in Committer : Request(c) \/ CommitStep(c) \/ FailCommit(c) \/ VictimCommit(c)
    \/ \E g \in Collector : Job(g) \/ JobStep(g)
    \/ \E x \in Xorb : Scrub(x) \/ \E c \in x : Rot(x, c)

Next == Steps \/ \E g \in Collector : FailJob(g)

Spec == Init /\ [][Next]_vars

----------------------------------------------------------------------------
(* Properties. *)

BlobRow == [row : BOOLEAN, ref : Nat]
XorbRow == [row : BOOLEAN, ref : Nat, key : SealKey, damaged : BOOLEAN, released : BOOLEAN]
Stored == [there : BOOLEAN, key : SealKey, bad : SUBSET Chunk]
RequestState == [pc : {"idle", "placement", "locate", "write", "claimXorbs",
                   "claimStored", "claimLive", "upsert", "commit", "release"},
             content : Content \cup {None}, key : Key \cup {None},
             attempt : 0..CommitAttempts, attach : BOOLEAN,
             plan : [Chunk -> SUBSET Chunk],
             new : SUBSET Xorb, unwritten : SUBSET Xorb, existed : SUBSET Xorb]
JobState == [pc : {"idle", "detach", "deleteBytes", "deleteRow", "reclaim", "use", "copy",
               "move", "lockBlobs", "lockXorbs", "requeue"},
         blob : Content \cup {None}, xorb : SUBSET Chunk, live : SUBSET Chunk,
         existed : BOOLEAN, blobs : SUBSET Content]

TypeOK ==
    /\ objects \in [Key -> Content \cup {None}]
    /\ blobs \in [Content -> BlobRow]
    /\ place \in [Content -> [Chunk -> SUBSET Chunk]]
    /\ xorbs \in [Xorb -> XorbRow]
    /\ bytes \in [Xorb -> Stored]
    /\ blobLock \in [Content -> Proc \cup {NoProc}]
    /\ xorbLock \in [Xorb -> Proc \cup {NoProc}]
    /\ com \in [Committer -> RequestState]
    /\ col \in [Collector -> JobState]
    /\ rotted \in 0..MaxRot

\* "A committed reference always has bytes behind it": whatever is swept,
\* compacted, retried or cut short, every chunk of every object's content is
\* placed in a xorb that holds it, has a row, and is in the backend.
BytesBehindReferences ==
    \A k \in Key : objects[k] # None =>
        /\ blobs[objects[k]].row
        /\ \A c \in ChunksOf[objects[k]] :
              LET x == place[objects[k]][c]
              IN c \in x /\ xorbs[x].row /\ bytes[x].there

\* A claim of a live xorb does not look for its bytes (claimXorb checks only
\* rows it creates or finds at zero), so a live row must always have them.
LiveXorbsAreStored ==
    \A x \in Xorb : xorbs[x].row /\ xorbs[x].ref > 0 => bytes[x].there

\* The refcounts are caches of the objects and blob_terms tables, and no
\* order of commits, sweeps and moves makes them drift.
RefcountsExact ==
    /\ \A b \in Content : blobs[b].ref = Cardinality({k \in Key : objects[k] = b})
    /\ \A x \in Xorb : xorbs[x].ref = Cardinality(BlobsOn(x))

\* Every chunk is checked as it is copied, so what rots stays where it is:
\* no commit or compaction writes a xorb with an unsound chunk.
DamageDoesNotSpread ==
    Cardinality({x \in Xorb : bytes[x].bad # {}}) <= rotted

\* Locking xorbs in hash order keeps deadlocks to those the code expects: a
\* cycle of waits has a compaction in it, which gives up after a while, or
\* consists of requests waiting for a key, or for the blob it is taken from.
DeadlocksExpected ==
    \A S \in SUBSET Proc : Deadlocked(S) =>
        \/ \E g \in S \cap Collector : Moving(g)
        \/ \A p \in S : p \in Committer /\ com[p].pc \in {"upsert", "commit", "release"}

\* New uploads do not take on damage already found (README.md:92): no xorb a
\* new blob is placed in is marked damaged.
NewBlobsAvoidDamage ==
    [][\A b \in Content : ~blobs[b].row /\ blobs'[b].row =>
          \A x \in XorbsIn(place'[b]) : ~xorbs[x].damaged]_vars

\* A xorb's bytes are written by whoever creates its row, and the row says
\* how (migrations/0012): the row of a live xorb names the key, and with it
\* the layout, of the bytes that are stored.
RowsDescribeBytes ==
    \A x \in Xorb : xorbs[x].ref > 0 => xorbs[x].key = bytes[x].key

\* The store keeps the promises of ContentStore, where the content stored is
\* that with a row and with all its chunks in place.
StoredContent ==
    {b \in Content : blobs[b].row /\
        \A c \in ChunksOf[b] : LET x == place[b][c]
                               IN c \in x /\ xorbs[x].row /\ bytes[x].there}
Promise == INSTANCE ContentStore WITH stored <- StoredContent
KeepsPromise == Promise!Spec
=============================================================================
