------------------------ MODULE XorbStoreInvariant ------------------------
(***************************************************************************)
(* The inductive invariant behind the safety of XorbStore: what every     *)
(* process may rely on while it holds its locks, and what the tables and   *)
(* the backend owe each other between transactions.                        *)
(***************************************************************************)
EXTENDS XorbStore

\* p places exactly the chunks of b, each in a xorb that holds it.
Places(p, b) ==
    \A c \in Chunk : IF c \in ChunksOf[b] THEN p[c] \in Xorb /\ c \in p[c]
                                          ELSE p[c] = NoXorb

\* A blob row comes with terms for all of its content, and no row with none.
TermsMatchRows ==
    \A b \in Content : IF blobs[b].row THEN Places(place[b], b) ELSE place[b] = Unplaced

\* What a term points at has a row and bytes.
TermsAreStored ==
    \A b \in Content : \A c \in Chunk : place[b][c] # NoXorb =>
        xorbs[place[b][c]].row /\ bytes[place[b][c]].there

ObjectsHaveRows == \A k \in Key : objects[k] # None => blobs[objects[k]].row

NoRowNoReference == \A x \in Xorb : ~xorbs[x].row => xorbs[x].ref = 0

\* What the tables and the backend owe each other after every step.
StoreInv ==
    /\ TermsMatchRows
    /\ TermsAreStored
    /\ LiveXorbsAreStored
    /\ ObjectsHaveRows
    /\ NoRowNoReference

\* A request knows the key it is about, and the content to go there.
RequestsHaveContent ==
    \A c \in Committer : com[c].pc # "idle" => com[c].content \in Content /\ com[c].key \in Key

\* A job knows the row it is about, and a compaction the chunks it keeps.
JobsHaveSubjects ==
    \A g \in Collector :
        LET t == col[g] IN
        /\ t.pc = "detach" => t.blob \in Content
        /\ t.pc \in {"deleteBytes", "deleteRow", "reclaim", "use", "copy", "move", "lockBlobs",
                     "lockXorbs", "requeue"} => t.xorb \in Xorb
        /\ t.pc \in {"copy", "move", "lockBlobs", "lockXorbs"} => t.live \in Xorb

\* A commit that has planned knows where all of its content goes; one that
\* has claimed a xorb knows its bytes are there for as long as it holds it.
CommitInv(c) ==
    LET t == com[c] IN
    /\ t.pc = "placement" => t.plan = Unplaced
    /\ t.pc = "write" /\ t.attach => Places(t.plan, t.content)
    /\ t.pc = "claimXorbs" => Places(t.plan, t.content)
    /\ t.pc \in {"upsert", "commit"} /\ ~blobs[t.content].row =>
          Places(t.plan, t.content) /\ XorbsIn(t.plan) \subseteq XorbsHeld(c)
    /\ t.pc \in {"claimXorbs", "upsert", "commit"} => blobLock[t.content] = c
    /\ \A x \in XorbsHeld(c) : bytes[x].there

\* A sweep that has picked its candidate holds its lock, under which nobody
\* makes the candidate referenced again; a compaction that has claimed the
\* xorb it wrote knows its bytes are there.
JobInv(g) ==
    LET t == col[g] IN
    /\ t.pc = "detach" =>
          blobLock[t.blob] = g /\ ~Referenced(t.blob)
    /\ t.pc \in {"deleteBytes", "deleteRow"} =>
          xorbLock[t.xorb] = g /\ xorbs[t.xorb].ref = 0 /\ BlobsOn(t.xorb) = {}
    /\ t.pc = "reclaim" => xorbLock[t.xorb] = g /\ ~xorbs[t.xorb].row
    /\ t.pc \in {"idle", "use", "copy", "move", "lockBlobs", "requeue"} => XorbsHeld(g) = {}
    /\ t.pc = "lockXorbs" /\ xorbLock[t.live] = g => bytes[t.live].there

Typed == TypeOK /\ RequestsHaveContent /\ JobsHaveSubjects

IInv ==
    /\ Typed
    /\ StoreInv
    /\ \A c \in Committer : CommitInv(c)
    /\ \A g \in Collector : JobInv(g)

\* What a row lock protects: a step that respects q leaves q its locks, and
\* does not change what q relies on while it holds them.
Respected(q) ==
    /\ BlobsHeld(q)' = BlobsHeld(q)
    /\ XorbsHeld(q)' = XorbsHeld(q)
    /\ \A b \in BlobsHeld(q) :
          /\ blobs'[b].row = blobs[b].row
          /\ Referenced(b)' => Referenced(b)
    /\ \A x \in XorbsHeld(q) :
          /\ bytes[x].there => bytes'[x].there
          /\ xorbs'[x].row = xorbs[x].row
          /\ xorbs[x].ref = 0 => xorbs'[x].ref = 0
          /\ BlobsOn(x)' \subseteq BlobsOn(x)

----------------------------------------------------------------------------
(* Who holds which locks, and in what order they were taken. *)

Before(S, T) == \A x \in S, y \in T : XorbOrder[x] < XorbOrder[y]

\* A commit holds the blob it claimed, that of a fresh blob with the first of
\* its xorbs; a delete knows the blob of the object it holds.
CommitLocks(c) ==
    LET t == com[c]
        claimed == t.pc \in {"claimXorbs", "upsert", "commit"}
    IN /\ BlobsHeld(c) \subseteq {b \in {t.content} : claimed}
       /\ ~claimed => XorbsHeld(c) = {}
       /\ t.pc = "claimXorbs" =>
             /\ ~blobs[t.content].row
             /\ Before(XorbsHeld(c), XorbsToClaim(c))
       /\ t.pc = "release" => objects[t.key] = t.content

\* A blob sweep holds its candidate with the first of its xorbs.
JobLocks(g) ==
    LET t == col[g]
        terms == XorbsIn(place[t.blob])
    IN /\ t.pc = "detach" =>
             /\ BlobsHeld(g) \subseteq {t.blob}
             /\ XorbsHeld(g) \subseteq terms
             /\ Before(XorbsHeld(g), terms \ XorbsHeld(g))
       /\ t.pc \notin {"detach", "lockBlobs", "lockXorbs"} => BlobsHeld(g) = {}

\* A key is written, or deleted, by one request at a time.
KeysHeldOnce == \A k \in Key : \A c, d \in KeyHolders(k) : c = d

LockInv ==
    /\ \A c \in Committer : CommitLocks(c)
    /\ \A g \in Collector : JobLocks(g)
    /\ KeysHeldOnce

\* The sets whose sizes are counted are finite.
Objects == {k \in Key : objects[k] # None}
Spoiled == {x \in Xorb : bytes[x].bad # {}}

CountInv ==
    /\ IsFiniteSet(Objects)
    /\ RefcountsExact
    /\ IsFiniteSet(Spoiled)
    /\ DamageDoesNotSpread

\* A step that respects the locks of q leaves them to q, with the rows and
\* terms of the blobs among them.
LocksRespected(q) ==
    /\ BlobsHeld(q)' = BlobsHeld(q)
    /\ XorbsHeld(q)' = XorbsHeld(q)
    /\ \A b \in BlobsHeld(q) : blobs'[b].row = blobs[b].row /\ place'[b] = place[b]
=============================================================================
