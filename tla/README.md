# simplecas in TLA+

simplecas is an S3-compatible object store that keeps each distinct content
once. Content is cut into chunks, chunks are packed into xorbs, and any number
of stateless servers share one Postgres database and one storage backend. This
directory holds TLA+ models of its parts, TLC configurations that check them on
small instances, and proofs, checked by TLAPS, of what matters most.

Paths below are relative to `src/`.

## The system

| Component | State | Operations | Talks to |
| --- | --- | --- | --- |
| Write path (`internal/cas/cas.go`, `plan.go`; `internal/db/object.go`, `xorb.go`) | tables `objects`, `blobs`, `blob_terms`, `xorbs`, `xorb_chunks`; bytes under `xorbs/`, `blobs/` | `Put`, `CompleteMultipart`, `CopyObject`, `LinkBlob`, `DeleteObject` | database transactions, backend, quota |
| Garbage collection (`internal/cas/gc.go`, `internal/db/stats.go`) | the same tables and bytes | blob, xorb, orphan, staging, multipart and session sweeps; ETag backfill; usage fold | row locks shared with the write path |
| Compaction (`internal/cas/compact.go`, `internal/db/compact.go`) | `xorbs.released_at`, terms | `ClaimCompaction`, `XorbUse`, copy, `MoveTerms`, `RequeueCompaction` | the same |
| Scrubbing (`internal/cas/scrub.go`, `internal/db/scrub.go`) | `verified_at`, `damaged_at` | `ClaimScrub`, check, `RecordScrub`, `RequeueScrub` | marks xorbs that dedup then avoids |
| Reader (`internal/cas/reader.go`) | a blob's terms, read a page at a time | `Open`, `produce`, `fetchRun`, `soundCopy` | rereads what compaction moves |
| Encryption (`internal/cas/crypt.go`, `internal/seal`) | `storage_keys`, `xorbs.key_id` | seal, open, `CheckKeys` at startup | decides a xorb's layout |
| Chunker, hashes, xorb format (`chunker.go`, `xethash.go`, `xorb.go`) | none | content-defined boundaries, Merkle hashes, encode and decode | names of chunks and xorbs |
| Multipart and staging (`internal/db/multipart.go`, `cas.go`, `gc.go`) | `multipart_uploads`, `multipart_parts`, files under `staging/` | create, `PutPart`, complete, abort, list, sweeps | write path, quota |
| Quota and usage (`internal/db/quota.go`, migration 0013) | counters, deltas | `CheckQuota`, `EnforceQuota`, `FoldUsage`, triggers | every write of `objects` and parts |
| Tenants, members, invitations, users | `tenants`, `tenant_members`, `invitations`, `users` | create, delete, roles, invite, accept, decline, revoke | namespaces, audit log |
| Namespaces (`internal/db/namespace.go`) | `namespaces` | create, delete | tenants, objects, uploads |
| Audit log (`internal/db/audit.go`) | `audit_events` | written by the transaction it describes | tenants |
| Object listing (`ListObjects`) | none | prefix, delimiter, marker, limit | `objects` |
| S3 credentials, sessions, sign-in | `s3_credentials`, `sessions` | mint, look up, revoke, reseal; create, touch, revoke, sweep | tenants, users |
| S3 gateway (`internal/s3`), admin API, server, UI | none of their own | validation and routing | all of the above |

**What is hard here.** Requests and background loops of many servers share rows
under `SELECT ... FOR UPDATE`, taken one statement at a time; the backend is not
transactional, so bytes are written before a commit and deleted before one, and
every failure in between leaves one without the other. Plans are made outside
the transaction that carries them out. Compaction moves terms under readers and
commits. Startup checks, sweeps of staging files and the deletion of a tenant
read first and act later.

**What makes each part correct.**

- Write path, sweeps, compaction: a committed reference always has its bytes;
  refcounts equal what they count; damage does not spread; what nobody uses is
  collected; requests end; no deadlock but those that are broken on purpose.
- Reader: what is read is the blob that was opened, whatever moves meanwhile, and
  a read of sound content does not fail.
- Scrubbing: damage that is found stays marked until a later check finds the
  content sound; everything is checked again in time.
- Multipart: the object is made of the parts that were named; staging files are
  referenced or swept, never swept while referenced.
- Quota: writes that each fit do not take a team over its quota together;
  counters and deltas add up to what is stored.
- Membership: a tenant has an owner; an invitation is used at most once; nothing
  is left of a deleted tenant.
- Credentials, sessions and keys: ended means refused; an instance that serves
  can open what is stored; a rotation loses no secret.
- Algorithms: listing returns each key once and in order; chunks and terms tile
  the content; a range is the bytes asked for.

## The plan

Done:

1. `XorbStore`, the write path against the collectors, with `ContentStore` as its
   abstract specification, `XorbStoreLiveness`, and proofs.
2. `Multipart`: uploads, parts and staging files against completion, abort, expiry,
   the staging sweep and the deletion of the namespace, and proofs.
3. `Quota`: commits and parts of the namespaces of a team, with `EnforceQuota`,
   the triggers' deltas and `FoldUsage`, and proofs.
4. `Teams`: teams, members, invitations, namespaces, S3 keys and their scopes, and
   the audit log, and proofs.
5. `Reader` and `Scrub`: reads and checks of content that moves, rots and is
   collected; proofs for `Scrub`.
6. `Keys`: the startup checks and the rotation of keys, and proofs. `Sessions`:
   sign-in and the end of sessions, and proofs.
7. Algorithms, as machines checked against definitions: `Listing`, with proofs,
   `Framing`, `Chunker`, `CommitPlan`, `StagedFile`.

Left, in this order:

8. To prove: `ServesTheRange` of `Reader` and `TermsSpellContent` of `CommitPlan`, by
   arguments on sums of sizes.
9. Liveness of `Teams` and `Scrub`: requests end, everything is checked again.
10. `promoteWhole` against a reader and the blob sweep, and the ETag backfill; the
    expiry of S3 keys; signatures of requests.

## Modules

| Module | What it is |
| --- | --- |
| `ContentStore` | What the store promises: keys point at content, content a key points at can be read, only unreferenced content is collected. |
| `XorbStore` | The write path, the blob, xorb and orphan sweeps, compaction, scrub results and damage, at the grain of SQL statements. |
| `XorbStoreInvariant` | The inductive invariant of `XorbStore`. |
| `XorbStoreProofs` | Theorems and their proofs: references and bytes, the refinement; the locks, and with them refcounts, damage and deadlocks. |
| `XorbStoreLiveness` | `XorbStore` with a bound on failing jobs, fairness, and liveness. |
| `Multipart` | Multipart uploads, their parts and staging files, with fairness and liveness. |
| `MultipartInvariant`, `MultipartProofs` | The inductive invariant of `Multipart`; theorems and their proofs. |
| `Quota` | The writes a team is charged for, its usage counters and deltas, and its quota. |
| `QuotaInvariant`, `QuotaProofs` | The inductive invariant of `Quota`; lemmas about sums over finite sets, theorems and their proofs. |
| `Teams` | Teams, members, invitations, namespaces, S3 keys and the audit log, a statement at a time. |
| `TeamsInvariant`, `TeamsProofs` | The inductive invariants of `Teams`; theorems about teams, their deadlocks and the audit log, and their proofs. |
| `Keys` | Instances that start, check their keys, reseal secrets and serve through rotations; its invariant. |
| `Sessions`, `SessionsProofs` | Sign-in through a provider, users' rows, sessions and every way to end them; its invariant, theorems and their proofs. |
| `Reader` | A range of a blob that is read while its chunks move, rot and are collected. |
| `Scrub`, `ScrubProofs` | Claims, checks and results of scrubs of a xorb or of a blob stored whole; its invariant, theorems and their proofs. |
| `StagedFile` | A staging file sealed in segments, harmed, and read back; its invariant. |
| `EncryptionProofs` | Theorems about `Keys` and `StagedFile` and their proofs. |
| `Chunker` | Content cut into chunks by a rolling hash. |
| `CommitPlan` | What one commit reuses, packs, writes, decoys and claims, in detail. |
| `Listing`, `ListingProofs` | Listings in pages, with a delimiter, while keys change; its invariant, theorems and their proofs. |
| `Framing` | Chunked bodies, sent and cut, and the checks of what arrived. |
| `MCXorbStore`, `MCCompaction`, `MCXorbStoreLiveness`, `MCMultipart`, `MCQuota` | Instances of one machine for TLC. |
| `MCContent`, `MCRequests` | Instances of several machines, one of which runs in each behaviour. |

**Modules that are checked together.** `MCContent` extends `Multipart` and
instantiates `StagedFile`, `Chunker`, `CommitPlan`, `Reader` and `Scrub` (twice: of a xorb
and of a whole blob); `MCRequests` extends `Teams` and instantiates `Listing`,
`Framing`, `Keys` and `Sessions`. Within each the machines share no state and no
step: what they exchange in the code is given to each as its inputs (the plan of
a commit sees any set of live xorbs, a reader any move that compaction may make).
So a behaviour runs one of them (`running`, chosen in the initial state), and the
variables of the others are `Off`; a product of their states would show nothing
more.

### XorbStore

| State | Code |
| --- | --- |
| `objects` | table `objects`, one namespace |
| `blobs`, `place` | tables `blobs` and `blob_terms`; a placement gives each chunk of a blob the xorb its term reads it from |
| `xorbs` | table `xorbs`: `refcount`, `key_id`, `damaged_at`, `released_at`; `xorb_chunks` is given by the xorb's name |
| `bytes` | the backend's objects under `xorbs/`: the key, and with it the layout, they were written with, and the chunks that rotted |
| `blobLock`, `xorbLock` | row locks, and the waits on uncommitted inserts |
| `com`, `col` | where each request and each background job is, with its local variables |

Every SQL statement that can wait, and every call to the backend, is a step of
its own. A transaction's writes are applied in its last step, which is
sound because it holds the locks on the rows they change. The step that begins a
transaction is merged with its first statement.

- A request is `StartPut`, then planning (`PlanPlacement`, `PlanChunks`), then one
  `WriteXorb` per new xorb in any order, then the transaction: `ClaimBlob`,
  `ClaimXorb` in hash order, `LockKey`, `Commit`. A stale plan is a `Retry`, up to
  `CommitAttempts`.
- `StartCopy` and `StartLink` claim a stored blob (`ClaimStored`) and go on as a
  commit does. `StartDelete` and `DeleteObject` are a delete.
- The blob sweep is `PickBlob`, `LockDetached` in hash order, `SweepBlob`. The xorb
  sweep is `PickXorb`, `DeleteXorbBytes`, `SweepXorb`: bytes go first, under the lock.
  The orphan sweep is `ClaimOrphan` and `ReclaimOrphan`, whose insert is always
  rolled back.
- Compaction is `ClaimCompaction`, `ReadUse`, `CopyLive`, then `MoveTerms`'s
  statements: `ReadMoved`, `LockMoved`, `LockMovedXorb`, `MoveTerms`; a move that
  cannot go ahead gives up and is marked again by `RequeueCompaction`.
- `FailCommit` and `FailJob` end a request or a job anywhere: a lost client, a
  failing backend or database, a refused quota, a killed process. `VictimCommit`
  is Postgres ending a deadlock, `LockTimeout` is `CompactLockTimeout`.
- `Rot` damages a stored chunk, and `Scrub` records what a check found.

What is abstracted: contents, chunks and keys are model values; a xorb is the set
of its chunks; lengths of runs and sizes of xorbs are choices (`PlanChunks` may
reuse any located chunks, `ReadUse` may or may not find a sound xorb worth
rewriting). Grace periods are left out, which only adds behaviours. Decoys,
written and deleted to hide timing, never get a row and are left out.

### Multipart

| State | Code |
| --- | --- |
| `uploads`, `parts` | tables `multipart_uploads` and `multipart_parts`: a staging key and an ETag for each part |
| `idle` | the uploads whose initiation and parts are all older than the expiry window |
| `files` | the backend's objects under `staging/` |
| `object` | what the object under the uploads' key was assembled from |
| `req`, `job` | where each request and each background loop is |
| `acked` | a history variable: the parts whose client heard that they were put as they are listed |

- `PutPart` is `StagePart`, then its statements `SelectPart` and `InsertPart`, then
  `CommitPart` and `Discard` of the file that was replaced. `RefusePart` is the
  foreign key of a new part whose upload is gone. `FailPart` rolls back and discards the new file; `LosePartAnswer` commits and discards it all the
  same, since the error of a commit does not say which it was.
- `CompleteMultipart` is `StartComplete` (the manifest, resolved), an `AssemblePart`
  for each part in order, or a `RefuseAssembly` at one that is not what its row
  says, `FinishAssembly`, `CommitObject`, `DiscardAssembled`, and
  `RemoveMultipart`, whose statements are `LockParts` and `RemoveMultipart`. An abort
  is the last two.
- The expiry sweep is `PickUploads`, `ReadKeys`, `SweepMultipart`, `DiscardSwept`. The
  staging sweep is `PickFile`, `CheckFile`, `DeleteFile` for each file.
- Locks are read off the steps their holders are at: part rows (`PartHolders`), the
  upload's row shared by a new part's foreign key (`Sharers`) and held by the
  expiry sweep (`Expirers`). `RequestWaitsOn` and `JobWaitsOn` say who waits for
  whom, and guard the steps that wait.

A file's content is the part's body, rotten, or assembled; a body stands for its
ETag. `CommitObject` is the end of a commit of `XorbStore`. The quota's refusal is
a `FailPart` or a `FailObject`.

Two assumptions are in guards. `Old`: the grace period of the staging sweep
outlasts the time from a file's last byte to the transaction that records it.
`Fresh`: staging keys are random UUIDs. Two behaviours of the code that the model
has and no property forbids: a part may be put again between the expiry sweep's
pick and its delete, and is dropped with the upload although that is active
again (`internal/db/multipart.go:187` says otherwise); and after a lost answer a part
is listed whose file is gone, so completion fails until it is put again.

### Quota

| State | Code |
| --- | --- |
| `open`, `deleting` | table `namespaces`, those of one team; the row that `DeleteNamespace` has locked |
| `objects` | table `objects`, as sizes |
| `part`, `completed` | the one part of the one upload of each namespace, as a size; whether that upload was completed already |
| `usage`, `deltas` | tables `namespace_usage` and `usage_deltas`, in bytes |
| `writer` | each request past its write: which write, and whether it holds the team's lock |
| `folder` | each fold: the deltas it has locked, and the namespaces it found for them |

- A write is `WriteObject` or `WritePart`, then `EnforceQuota`'s statements, `LockTeam`
  and the sum, which ends in `EnforceQuota` or `Refuse`, then the commit
  (`CommitObject`, `CommitPart`). Between the sum and the commit others may delete,
  fold and start, but not sum. `FailWrite` rolls back.
- The triggers are `Append`, in the step that commits the change: an insert, an
  update and a delete each append the difference, and an update of no net size
  none.
- A fold is one statement in two steps: what it locks and finds (`TakeDeltas`), and
  what it changes (`FoldUsage`), which waits for a deletion where it inserts a
  counter, and fails (`FailFold`) where the namespace is gone.
- A namespace is deleted in `LockNamespace`, which waits for inserts that share
  its row, and `DeleteNamespace`.

`CheckQuota`, the early check without a lock, refuses nothing that the later one
would let through but for what is deleted in between, and is left out. Counts of
objects go with their bytes and are left out. The number of deltas that wait to
be folded is bounded by `DeltaId`.

### Teams

"Tenant" in the code. A handler reads who its caller is in no transaction, and
changes something later in one whose last statement inserts an audit event.

| State | Code |
| --- | --- |
| `tenants`, `members`, `namespaces` | tables `tenants`, `tenant_members`, `namespaces` |
| `invitations`, `expired` | table `invitations`; which of them are past `expires_at`, kept when the row is purged |
| `keys`, `scopes` | table `s3_credentials`: the team, permissions and namespaces of each key |
| `audit` | table `audit_events`: for each subject, in the order of ids, what it became, and who has yet to commit that |
| `drawn` | ids that were taken from a sequence, or at random |
| `req` | where each request is, what it read, and the invitations it has locked |

- `Authorize` is `authorizeTenantAccess`; `Authenticate`, `Permits`, `ResolveForMember` and
  `ResolveForKey` are what an S3 request reads of its key and its namespace.
- Each change is its statements: `CreateTenant`, `CommitTenant`; `CheckEmpty`, `DeleteRow`,
  `Cascade`, `CommitDeletion` (the foreign keys' cascade deletes what belongs to the
  team, and waits for rows that are locked); `LockTenant`, `SetMemberRole` or
  `RemoveMember`, `CommitMember`; `PurgeInvitations`, `UpsertInvitation`,
  `CommitInvitation`; `AcceptInvitation`, `Join`, `CommitAnswer`, and so on.
- A step that inserts an event takes its id (`Record`); others see it at the commit
  (`Ends`), which may come in another order. Of what is committed about a subject only
  the newest event is kept, since only that is read.
- `Abandon` ends a request anywhere with nothing changed. `Waits` says who waits for
  whom, and guards the steps that wait.

Who acted, details of events, emails and names' formats are left out: an address is
the user who signs in with it.

### Keys

| State | Code |
| --- | --- |
| `rollout` | which of the operator's lists of keys is being rolled out |
| `instance` | each process: where its start is, its list, the secrets it has listed, what it is about to store |
| `recorded` | table `storage_keys`: name and fingerprint |
| `inUse` | the keys that some `xorbs.key_id` names |
| `secrets` | what each secret of `s3_credentials` is sealed under |

A start is `RecordKeys` and `CompareKeys` (`RecordStorageKeys`'s insert and select),
`CheckStored` (`StoredKeys`), `ListSecrets`, a `SealSecret` for each secret in the order of
ids, then `Serve`; any of them may refuse, and `Stop` is a crash or shutdown at any
time. An instance that serves seals a xorb or a new secret first and stores it later
(`WriteXorb`, `CommitXorb`; `Mint`, `StoreSecret`). `RollOut` goes to the next list once no
instance runs with the one before the present one, as the repository's README
prescribes. Under a `Mistakable` name an instance may be given another key.

The credential keys' material is checked nowhere in the code: two instances given
different ones under one name make secrets the other cannot open, so the model
gives every instance the same. And an instance with no keys that still serves when
keys are turned on elsewhere cannot read what they write, so `StoredIsReadable` is
about instances with keys.

### Sessions

| State | Code |
| --- | --- |
| `users`, `sessions` | the tables: an identity (issuer and subject) for each id; a token's hash and its user |
| `cookie`, `flow` | each browser's session cookie and flow cookie |
| `tabs` | sign-ins that are at the provider, with the state they carry |
| `request` | requests under way: between their look and their insert, or their authentication and their deletion |
| `ended` | a history variable: tokens whose sessions their user was told are ended |

`HandleStart`, `HandleCallback`, `FindUser`, `InsertUser` (whose conflict returns the row
that is there), `CreateSession`, `SignedIn` are a sign-in, and `LoginError` and `FlowLapses`
its ends; `Ask`, `Authenticate`, `Revoke` and `HandleLogout` end one session, the others or
all. `UserIds` bounds the rows: an identity with none waits for a free one. What the
model has and no property forbids: who signs in again leaves the row of
the session before it live (`internal/api/session.go:14` says one per browser), and so
does an answer that is lost, until it expires.

### Reader

| State | Code |
| --- | --- |
| `xorbs`, `terms` | the rows, bytes and damage of xorbs; the terms of the blob |
| `producer` | `produce`: its place, the page of terms it holds, the chunks of the xorb of a term, the run it gathers, lookups made again |
| `slots` | the fetches queued, in order, and where each is |
| `served`, `ended` | what the client has, and how the read ended |
| `lost` | a history variable: why the read may fail |

`Open`, `LookUp`, `XorbChunks` (which looks again, `MaxRereads` times, when a xorb is gone),
`GroupChunk` and `CloseQueue` are the producer; `FetchRun`, `MarkDamaged`, `LocateChunks` and
`SoundCopy` a fetch, which falls back on another copy of each chunk; `Serve`, `EndOfQueue`,
`Cancel` and `Close` the caller. `Compact`, `SweepBytes`, `SweepRow`, `Commit`, `Release`,
`CollectBlob` and `Rot` are what others do meanwhile.

### Scrub

| State | Code |
| --- | --- |
| `contents` | a xorb's or a blob's row (`verified_at`, `damaged_at`, whether it is live), and its bytes |
| `scrubber` | each claim that is worked on: what was claimed, the time it replaced, what was found |
| `evidence`, `forsaken`, `excused` | history variables: when each content was last written or found sound or not, claims that were lost, contents that were unsound or rewritten under a check |

`ClaimScrub`, `ReadRows`, `ReadBytes`, `ContentLive`, `RecordScrub` are a check; `RequeueScrub`
gives a claim back and `LoseClaim` is a crash. `Repair` is `promoteWhole`'s rewrite. Not
forbidden by a property, since the code allows them: a check that found content
sound clears damage that was found after it read; and content that is collected
and uploaded again under a check is recorded as damaged until the next.

### StagedFile, Chunker, CommitPlan

- `StagedFile`: `Write` (a turn of its loop), `Close` and `Crash` are `sealedWriter`, `sealed` its
  number `n` and `Buffered` its `buf`; `Open`, `ReadSegment`, `Discard` are `sealedReader`. `Lose`,
  `Swap` and `Damage` harm the file: any run of its bytes is lost, any two neighbouring runs
  change places, or a byte is changed. A nonce names a segment's number and whether it is the
  last.
- `Chunker`: `Write` and `Scan` are `chunker.Write` and its loop over what it was given,
  `Boundary` the rolling hash with the bytes it skips, `Finish` the last chunk. `FirstChunk`,
  a definition that hashes every byte and looks at all of them, is what
  `ChunksAreDefined` compares with.
- `CommitPlan`: `ReusableRuns`, `GroupForXorbs`, `TermsFrom` and `PlanOfNew` are the planner;
  `WriteChunk`, `SendLast`, `Sent`, `SendFails`, `Interrupt`, `CarriedOut` are `carryOut` with its
  uploads; `Claim` and `Retry` the transaction as far as xorbs go, and what a stale
  attempt leaves behind. Nobody else is there: that is `XorbStore`'s.

### Listing, Framing

- `Listing`: `Start` is a call, `FillPage`, `SkipGroup` and `TakeRows` the three ways the walk
  over a batch of rows ends, `NextPage` the client with its marker. The
  rows of a query are given by their places in key order (`Place`). `Put` and `Delete` come
  between any two queries. `stayed` and `seen` are histories.
- `Framing`: `Send`, `SendPart`, `SendAltered` are clients, `ReadChunkHeader`, `ReadData`,
  `EndChunk`, `ConsumeTrailers` the chunked reader with buffers of any size, `Check` and
  `Finish` the payload's length and checksums. A hash is what it is of.

## Runs

| Run | Instance | Shows |
| --- | --- | --- |
| `sweeps` | 2 requests (put, copy, delete), 1 collector, 2 contents of the same two chunks, 1 key, a xorb per chunk, 2 attempts, the second beside the other request or the collector (`RetriesMeetOne`) | no interleaving of requests, retries, failures and the three sweeps loses referenced bytes (`BytesBehindReferences`), drifts a refcount (`RefcountsExact`), or deadlocks unexpectedly (`DeadlocksExpected`) |
| `compaction` | 1 request (put, link), 2 collectors, nested contents, 1 attempt, in two scopes (`InScope`): two loops that sweep blobs and compact, where nothing is damaged nor will be; one loop at a time with every job, which compacts beside the request, where one chunk may rot or did | `LiveXorbsAreStored`, `RefcountsExact`, `DeadlocksExpected`, `DamageDoesNotSpread`, and the refinement `KeepsPromise` |
| `liveness` | 2 requests over one chunk, one of which deletes too, 1 collector that fails at most once | `RequestsEnd`, `GarbageIsCollected` |
| `content`, `multipart` | 2 clients, 1 loop, 1 upload of 2 parts, 3 staging files, 1 fault (a job that fails or a part that rots), within `InScope` | an acknowledged part is stored while it is listed (`AckedPartsStored`), objects hold only parts as they were put (`ObjectsAreIntact`), parts go with their upload (`PartsTypeOK`), and the one deadlock is removal against expiry (`DeadlocksExpected`) |
| `content`, `staging` | segments of 2 bytes, files of up to 5 | a file that was cut, swapped or damaged never reads as another (`StagedContentIsWhole`); and the inductive invariant (`PartsTypeOK`) |
| `content`, `chunking` | 2 bytes, hashes of 3 bits, chunks of 5 to 7 bytes, contents of up to 10 in writes of any length | chunks are those of the definition, whatever the writes (`ChunksAreDefined`) |
| `content`, `committing` | contents of up to 4 of two chunks and two of 5, every set of 3 live xorbs, with and without an orphaned one, xorbs of up to 3 chunks, 3 attempts | terms spell the content (`TermsSpellContent`), and a commit that succeeds is whole and one that ends leaves no decoy (`CommitsAreWhole`) |
| `content`, `reading` | a blob of 3 chunks in 2 xorbs, one of which compaction moves, a range that begins and ends inside a chunk, pages of one term, 2 fetches, 1 chunk that rots | what is served is the range (`ServesTheRange`), and a read fails only with a reason (`ReadsFailOnlyIfLost`) |
| `content`, `xorbs` and `wholes` | one content, 2 claims at once, 4 times | what is recorded as checked was (or its claim was lost), and damage is real (`ScrubsAreTruthful`) |
| `multipart_liveness` | 1 client, 1 loop, 1 part, 2 files, 1 fault | `RequestsEnd`, `StagingIsFreed` |
| `quota` | 2 requests, 2 folds, 2 namespaces of one key, sizes 1 and 2, a quota of 2, 2 deltas, within `InScope` | counters and deltas add up to what is stored (`UsageIsExact`), the team stays within its quota (`WithinQuota`), what fits is not refused (`RefusalsAreJust`), and nothing outlives its namespace (`TypeOK`) |
| `requests`, `teams` | 2 requests, 2 users, 1 team id, 1 namespace, 1 key with 3 scopes, within `InScope` | `TenantsHaveOwners`, `NothingOutlivesItsTeam`, the log replays to the tables (`AuditReplays`), members join by invitation (`MembersJoinByInvitation`), a deletion is recorded last (`DeletionIsRecordedLast`), and every set of requests that wait for each other has a team's deletion in it and an invitation or an acceptance (`DeadlocksExpected`); and the inductive invariant (`PartsTypeOK`) |
| `requests`, `listing` | 5 keys over 3 bytes, a prefix, a delimiter, pages of 1 and 2, batches of 2, 1 change while a client lists | each key that stays is listed once, in its place, but for the one of finding 3 (`ListsWhatStays`, `PartsTypeOK`) |
| `requests`, `framing` | contents of up to 3 bytes, chunks and buffers of 1 and 2, three framings, with and without signatures, lengths and checksums | what is accepted is what the request says of it, and whole bodies are not refused (`BodiesMeetTheirClaims`) |
| `requests`, `keys` | 2 instances, 5 lists (no keys, a first, both steps of its replacement, the replacement), a key that may be mistaken, 1 secret | `KeysOnRecord`, `StoredIsReadable`, and the inductive invariant (`PartsTypeOK`) |
| `requests`, `signing` | 2 browsers of one identity, 2 requests, 2 ids, 2 tokens, 2 sign-ins, within `SignsInScope` | an ended session admits nothing (`EndedStaysEnded`) |
| `damage` | 1 request (put, delete), 1 collector with every job, one chunk may rot | violates `NewBlobsAvoidDamage` (finding 1) |
| `layout` | 2 requests that seal under different keys | violates `RowsDescribeBytes` (finding 2) |
| `listing` | the listing of `requests` | violates `ListsEveryKey` (finding 3) |
| `framing` | the bodies of `requests` | violates `BodiesAreWhole` (finding 4) |
| `retries` | the commits of `content` | violates `RetriesWriteTheirOwn` (finding 5) |

**Why the bounds are enough.** Two contents over two shared chunks are the
smallest store in which a xorb has two users, a reused chunk and a dead one; two
requests and one collector, or the reverse, are the smallest in which each of
three transactions can wait for another; two xorbs are needed for an order of
locks to matter, and `XorbEach` gives every upload two. One key suffices for
overwriting, since contents differ, and two for nothing more: requests on
different keys meet only at blobs and xorbs, which two requests on one key
already contend for, and the proofs of `BytesBehindReferences` and `RefcountsExact` bound
neither keys nor requests. `MaxRot` bounds damage and `MaxFailures`
failing jobs; failing requests are not bounded. Requests, and collectors, are
symmetric in the safety runs; so are users in `requests`. In `multipart`, two
clients are enough for a part put twice at once, a put against a removal, and two
removals; two parts for a completion that names one of them, and for an assembly
cut off half way; three files for two listed parts and the assembly of them, or
a part put again.

**Scopes.** Some instances keep to a scope, a predicate on states: as a `CONSTRAINT`, no
state outside it is followed further; as a conjunct of an instance's `MCNext`, no step leaves it.

- `sweeps`: a request on its second attempt meets the other request or the
  collector, not both. On first attempts all three meet.
- `compaction`, where nothing is damaged nor will be: a request, a blob sweep and a
  compaction meet while all three hold or want locks, that is once the compaction moves
  terms and the request has written its xorbs; before that any two of them do. A link
  meets one loop, and two compactions meet no request. Where a chunk may rot or did: links
  take no part, a compaction meets a request, sweeps meet nobody (sweeps of xorbs and
  orphans meet two commits in `sweeps`), and a damaged xorb is followed while it is in use.
- `multipart`: a third file in use, a fault, and both clients and the loop busy exclude
  each other: all three meet over two files, and three files are used by two at a time.
- `quota`: up to three of the writes, folds and a namespace's deletion are under way at
  once, two where both deltas wait to be folded.
- `teams`: invitations expire while the team has no keys and no namespaces, since a purge
  meets neither; they are there together with both as long as they are live.
- `signing`: one request is idle while two tabs are at the provider.

The proofs are of the machines themselves, and know none of this.

Two requests are the smallest instance in which two owners remove each other, and
every lock of `Teams` is between two; that every property of it holds of more is
proved, circles of any number of waiting requests included. In `staging`, files of up to 5 bytes are of whole segments and of a
part of one more; in `chunking`, 10 bytes are a chunk that a cut or the limit ends,
and a rest, with writes that end before, in and after what is skipped. In
`committing`, the contents of 5 chunks hold a run to reuse between two new xorbs. In
`reading`, one page per term makes every term a lookup that can be stale, and two
fetches end in either order. One secret shows reseals against reseals, minting and
revocation; secrets do not interact, which the proof covers. Time in `Scrub` passes the
interval, so that a claim can lapse and be made again beside the first.

**Deadlock checking** is on in every passing run: the system as modelled can
always take another request. The machines of one commit, one content or one blob that
are through say so in a step of their own (`Done`, `Rest`).

**Fairness** (`liveness` and `multipart_liveness`). Requests and jobs are goroutines that run to
their end (`SF` on their steps, strong because a lock may be taken and given
back while they wait: Postgres grants a lock in the order it was asked for).
Postgres ends deadlocks (`WF` on `VictimCommit`). The collectors loop forever
and take candidates oldest first (`SF` on each candidate). Nothing is assumed
of clients: requests need not come, and may fail every time. A collector's job
may fail at any point, `MaxFailures` times; were every sweep to fail, nothing
would be collected. In `Multipart`, an upload that nobody touches is idle in the
end (`WF` on `Expire`), and the removal of an upload does not fail for ever: each
failed abort can end the sweep it deadlocks with, and an adversary could repeat
that without end. Neither the client nor the assembly needs to make progress for
staging files to be freed.

### Findings

1. *A new upload can take on damage.* `README.md:92` says "Dedup never reuses
   chunks of a damaged xorb, so new uploads do not take on its damage." A damaged
   xorb whose last blob was deleted keeps its row and bytes until the sweep. An
   upload whose new chunks pack into a xorb of the same name finds the bytes
   stored and leaves them, and `claimXorb` (`internal/db/xorb.go:234`) adds a
   reference to the row without reading `damaged_at`. The next scrub finds the
   damage again; the uploaded bytes, which were sound, are gone by then.
2. *A row can describe bytes it was not written with.*
   `internal/db/migrations/0012_xorb_keys.sql:7` says the commit or compaction that
   creates a xorb's row writes its bytes. During a key rotation, A writes a xorb;
   B, with the other key, finds it, discards it at its claim
   (`internal/db/xorb.go:258`), plans again and writes its own; A then claims: some
   bytes are present, so it inserts its row, key and offsets over B's bytes.
3. *A listing can miss a key.* `ListObjects` goes past a group by making its byte
   successor the marker (`internal/db/object.go:379`), and then selects keys strictly
   after it (line 345). The comment at lines 328-330 says that successor "is exactly
   the next key outside the group", but a key equal to it is in no page: with keys
   `a/b` and `a0` and the delimiter `/`, `a0` is not listed.
4. *A cut body can pass for a whole one.* Comments at `internal/s3/chunked.go:197` and
   `:228` say a body that ends before its last chunk is refused. If the stream ends
   right after a chunk's data, where a line should end, `io.EOF` is passed on with the
   data (lines 238-241), before the chunk's signature is checked, and reads as the
   clean end of the body. With a declared length or a checksum the body is refused all
   the same; without either it is accepted.
5. *A retry can find its own bytes.* `internal/db/xorb.go:259` says that bytes with no row
   are deleted "and a retry writes its own". An attempt that goes stale has written all
   its new xorbs, and its transaction takes their rows with it; the retry finds one,
   takes it for another's, deletes it and goes stale as well. A commit of two new
   xorbs, one of which is left over from a failed commit, uses up its three attempts
   with nobody else there. Content of two identical groups of chunks (a long run of
   zeros) goes the same way: the second group finds the xorb of the first written, and
   `AttachTerms` keeps what the second found (`internal/db/xorb.go:175`).

## Proofs

`XorbStoreProofs` proves, for any sets of contents, chunks, keys, requests and
collectors:

- `TypeCorrect`: `Spec => []TypeOK`;
- `InvariantHolds`: `Spec => []IInv`;
- `ReferencesHaveBytes`: `Spec => []BytesBehindReferences`;
- `LiveXorbsStored`: `Spec => []LiveXorbsAreStored`;
- `PromiseKept`: `KeepsPromise`, the refinement of `ContentStore`.

The assumptions are those of `XorbStore`, which TLC checks on every instance: the
set of contents is finite, packing covers the chunks it is given, requests and
collectors are distinct, hash orders are orders.

**The argument.** `BytesBehindReferences` is not inductive: whether a commit leaves
bytes behind its references depends on what it found when it claimed each xorb,
several steps before. `IInv` adds what each process knows while it holds its
locks. A commit past `ClaimBlob` has a plan that places all of its content, and
every xorb it holds has bytes; a sweep holds the lock of a candidate with no
references and no terms; a compaction that has claimed its target knows its
bytes are there. Between transactions, a blob row comes with terms for all its
content, and every term points at a row with bytes. That the facts of one
process survive the steps of another is one lemma per action: a step *respects*
`q` (`Respected`) if it leaves `q` its locks, and leaves alone the rows, bytes and
absent references that `q` relies on while it holds them. `CommitInv` and `JobInv`
of `q` follow from `Respected(q)`, so each action is proved once against itself and
once against any other process.

It proves further, from the same assumptions:

- `LocksInOrder`: `Spec => []LockInv`;
- `RefcountsStayExact`: `Spec => []RefcountsExact`;
- `DamageStaysPut`: `Spec => []DamageDoesNotSpread`;
- `DeadlocksStayExpected`: `Spec => []DeadlocksExpected`.

**The argument.** A refcount changes in the step that commits, by what the request
read when it claimed its rows, so `LockInv` says who holds what: a commit the blob it
claimed and the first of its xorbs, a delete the key and so the object it read
(`CommitLocks`), a blob sweep its candidate (`JobLocks`), and a key one request at a time
(`KeysHeldOnce`). With it each commit, sweep and move changes the set that is counted
by the one element that its refcount changes by; `CountInv` adds that those sets are
finite. A copy writes chunks that it checked, so the only step with a new unsound xorb
is `Rot`. In a circle of waits without a compaction, take, of the commits and sweeps that
lock xorbs one by one, the one that waits for the least in hash order: whoever waits for
it waits for a xorb it has, which is less.

`MultipartProofs` proves, for any sets of uploads, parts, files, requests and loops,
from `MultipartAssumption` alone:

- `MultipartTypeCorrect`: `Spec => []TypeOK`;
- `AckedPartsAreStored`: `Spec => []AckedPartsStored`;
- `AssembledObjectsIntact`: `Spec => []ObjectsAreIntact`;
- `DeadlocksAreExpected`: `Spec => []DeadlocksExpected`.

**The argument.** That no listed file of an acknowledged part is deleted depends on
what each deleter read some steps before it deletes. Its `IInv` says who may rely
on what: a staged file is its request's alone until a row names it
(`StagedFilesArePrivate`), no two rows name one file (`RowsNameOwnFiles`), a row has
one holder (`RowsHaveOneHolder`), who knows the file it will replace
(`ReplacedIsListed`), and what is to be discarded is no acknowledged part's
(`RequestTrash`, `JobTrash`). A removal reads files first and deletes the upload
later: in between, the files it read can be listed nowhere but under that upload.
A step of one process that deletes rows waits for their holders (`DropsSpare`), and
leaves nothing of the uploads it drops (`DropForgets`). Steps that disturb the
invariant alike are taken together (`StepCases`), and each conjunct has one lemma
that goes through them. For the deadlocks, `WaitInv` adds that a removal still lists what
it read, that of two removals of one upload one read nothing, and that no two sweeps
expire one upload: so removals do not wait for each other, nor sweeps.

`QuotaProofs` proves, for any finite sets of namespaces and keys, any sizes, requests,
folds and quota, from `QuotaAssumption`:

- `QuotaInvariantHolds` and `QuotaTypeCorrect`: `Spec => []IInv`, `Spec => []TypeOK`;
- `UsageStaysExact`: `Spec => []UsageIsExact`;
- `QuotaIsKept`: `Spec => []WithinQuota`;
- `RefusalsStayJust`: `Spec => RefusalsAreJust`.

**The argument.** A writer sums what is stored, and commits later: `PromisesHold` says
that its write still fits until then, since what grows needs the team's row, which one
writer holds (`OneHoldsTheTeam`), and the rest only shrinks. What a fold locks stays until
it ends, and is no other fold's (`FoldsKeepTheirDeltas`); a namespace whose deletion has
looked stays empty (`DeletedIsEmpty`). `NInv` says the same of sums of numbers, of which
`QuotaProofs` first shows what each step needs: that a sum over a set is that over two parts
of it, and changes by what one summand does. The community modules define a sum by
recursion over sets, and the lemmas that the prover can use are about sets and not
operators: so these proofs take a least subset for which a claim would fail, which is
there since strict inclusion of finite sets is well-founded.

`TeamsProofs` proves, for any sets of users, teams, names, keys, scopes and requests,
from `TeamsAssumption`:

- `TeamsInvariantHolds` and `TeamsTypeCorrect`: `Spec => []IInv`, `Spec => []TypeOK`;
- `TeamsKeepOwners`: `Spec => []TenantsHaveOwners`;
- `NothingOutlives`: `Spec => []NothingOutlivesItsTeam`;
- `JoinsByInvitation`: `Spec => MembersJoinByInvitation`;
- `DeadlocksOnlyOfDeletion`: `Spec => []DeadlocksExpected`.

And of the audit log, from the same assumption:

- `AuditInvariantHolds`: `Spec => [](IInv /\ AuditInv)`;
- `AuditStaysTrue`: `Spec => []AuditReplays`;
- `DeletionStaysLast`: `Spec => DeletionIsRecordedLast`.

**The argument.** A change commits a step after the statement that made sure of it, so
the invariant says what a request may rely on in between (`Grounded`): who is about to
demote or remove an owner knows another, who accepts knows that the invitation stands
and what it offers, who deletes a team knows that no namespace is left. That it stays
so follows from locks: no two requests hold what excludes each other (`Exclusive`), and
a team that is locked or referred to is there (`HeldTeamsExist`). Ids are drawn before
their teams exist (`TenantsAreDrawn`), so that no two requests create one team. There is
a lemma for each conjunct and each kind of step that can disturb it.

For the deadlocks, `PurgeInv` says which invitations a request has locked: those it
purged stay expired and its own, so of two purges of one team that wait one found none
(`PurgesExclude`), and invitations to a team wait for each other in no circle.

The events of a log are in the order of their ids, and commit in another. That what
commits last is nevertheless newest needs more than the tables: a request that has
inserted an event holds, by a lock or a unique index, what the event is about, until it
commits (`HeldInv` adds names and keys to what `Exclusive` says), so no two requests
have an event waiting on one subject (`OneWriter`). Hence the shape of a log
(`LogFits`): its newest committed event, and the one event of the one request that is
about to change its subject. `LogsAgree` says that what is committed is what the tables
say, of the subjects that are `Compared`: those of a team that is there, is about to be, or
whose id nobody has drawn, but for invitations that expired, which are purged without an
event. A commit then turns the waiting event into the newest, as it changes the
table. After a deletion nobody has anything to record, since whoever has holds or refers
to the team.

`EncryptionProofs` proves of `Keys`, for any number of instances, secrets, keys and steps:

- `KeysTypeCorrect`: `Spec => []TypeOK`;
- `NamesMeanOneKey`: `Spec => []KeysOnRecord`;
- `RotationsKeepReading`: `Spec => []StoredIsReadable`.

Each assumes `Rotation`: of two lists that can run at one time, each holds the key that
the other seals under. That is what the steps in the repository's README ("To rotate")
make sure of; TLC checks it of the instance's lists (`PartsTypeOK`).

**The argument.** Neither property survives by itself: an instance checks once, at its
start, and others write before and after. `RunsInStep` says whoever runs has the list
of one of two neighbouring steps, so what any of them writes from then on, every other
can open; `ComparedKeys` and `OpensContent` say what an instance knows past each check.
For secrets, an instance that reseals knows what it has listed each under unless the
row changed since, in which case it is under a key of a neighbouring list (`OpensSecrets`).
That a secret is minted under an id nobody has (`MintsAreNew`) keeps a stored row from
being taken for one.

Of `StagedFile`, for segments and contents of any size, from `StagedAssumption` (a segment
holds a byte at least):

- `StagedInvariantHolds`: `Spec => []IInv`;
- `StagedContentStaysWhole`: `Spec => []StagedContentIsWhole`.

**The argument.** What a segment opens as says nothing of the segments that are gone, or
that the one taken for the last is not. But a byte says its place in the file (`WasSealed`:
its segment's number and its place there), and two bytes at one place are the same
(`BytesAreUnique`). So a file whose bytes are all in place, and as many as were sealed, is the
one that was closed; any harm shows in its length or in a byte that is not in its place
(`HarmShows`). A reader has opened what is before it and found it in place
(`ReaderFollows`); the end it reaches is the end of a segment that was sealed as the last,
which only `Close` does, so nothing is missing after it (`OpenedIs`). The other way round, of a
file that is as it was closed the reader takes just the segments that were sealed
(`WholeOpens`).

`SessionsProofs` proves, for any sets of browsers, identities, requests, users' rows,
tokens and flows, from `NoneIsNobody` (the mark of a free row is nobody's identity):

- `SessionsInvariantHolds` and `SessionsTypeCorrect`: `Spec => []IInv`, `Spec => []TypeOK`;
- `EndedSessionsStayEnded`: `Spec => []EndedStaysEnded`.

**The argument.** A request ends sessions by the row of the user that its cookie names, and
what its user was told is about an identity. That these are the same needs that an
identity has one row (`OneRowEach`), though two sign-ins look for it, find none and
insert. `UsersAreTheirs` says that a sign-in that found or made a row, and a request that
was authenticated, has the row of its identity until it is done. Since tokens are new when they are made, none that was ended comes back
(`EndedAreGone`).

`ScrubProofs` proves, for any contents, claims, interval and clock, from `ScrubAssumption`:

- `ScrubInvariantHolds` and `ScrubTypeCorrect`: `Spec => []IInv`, `Spec => []TypeOK`;
- `ScrubsStayTruthful`: `Spec => []ScrubsAreTruthful`.

**The argument.** A claim writes the time at once, and what it wrote over is given back
when the check cannot be made. `ClaimsGiveBackDue` says that what each claim would give
back was due then, and so is due for good, since time only passes; `RowsInOrder` that no
row is verified in the future. `ChecksAccountedFor` is `VerifiedMeansChecked` for content
whatever its row, of the claims that are under way or lost. For damage: what a check has
found unsound or gone was unsound (`RotIsExcused`), or the row that the check is of went
and came back meanwhile (`ChecksAreExcused`), and `ContentLive` drops the rest.

`ListingProofs` proves, for any sets of keys, prefixes, delimiters and page sizes, and any
number of rows a query returns, from `ListingAssumption` (keys are made of numbers, a
query returns at least one row):

- `ListingInvariantHolds` and `ListingTypeCorrect`: `Spec => []IInv`, `Spec => []TypeOK`, which
  has the order of what is listed;
- `ListingListsWhatStays`: `Spec => []ListsWhatStays`.

**The argument.** A marker is where the walk is, between two keys or in a place where no
key is. `ResumesAfterLast` says that it is the last entry, or the successor of the group
that is the last entry, and `NothingMissed` that a key that stayed is found, or is such a
successor, or is past the marker. What a step needs is about keys: `Less` is a strict
total order (`LessThrough`, `LessNever`; words differ at a first place); the rows of a query
are the first of what it covers, in order (`RowsAre`, by counting); a key after one of a
group is in it, is its successor, or is past that (`JumpIsNext`), and the group of a key past
the successor is a later one (`GroupAfterGroup`).

Six of these properties are checked under `running`, as those of one machine of
`MCRequests` or `MCContent`; the theorems state them of the machine itself. The
assumptions and inductive invariants of `Sessions`, `Scrub`, `Listing` and `StagedFile` are checked in
`PartsTypeOK`, together with `Rotation` of `Keys`.

**Only model-checked.** `Chunker`, `CommitPlan`, `Reader` and `Framing`: they
take sequences apart and put them together by folds and recursion (the bytes of a range
are a flattened sequence of terms' chunks, a chunk's place a sum of sizes; `Framing` is
recursive; the gear hash of `Chunker` is a fold modulo a power of two). What these
compute follows by induction over data, whose theorems take an operator that no prover
here can instantiate. `ReadsFailOnlyIfLost` moreover holds of the run's bounds: a read gives
up when its blob is moved under it `MaxRereads` times and once more. Liveness (`RequestsEnd`,
`GarbageIsCollected`, `StagingIsFreed`), which rests on fairness and so on `ENABLED`, is out
of the prover's reach. Every other property of a passing run is proved: the safety
properties of `XorbStore` and `Multipart`, and all of `Quota`, `Teams`, `Keys`, `StagedFile`,
`Sessions`, `Scrub` and `Listing`.

## Not modelled

- Ciphers, compression, the bytes of a xorb, and hashes, which are taken to tell
  contents apart: pure functions with no state.
- HTTP, XML, the signatures of requests, routing, errors, rendering and configuration:
  no state, or read once at startup.
- The web client, whose upload worker queues requests whose effects the server decides.
- The provider clients of the backends. Postgres and the backend are modelled by what
  the code relies on: row locks, waits on uncommitted inserts, deadlock detection,
  atomic commits; a conditional write that is atomic, and deletes and writes that last.
- The ETag backfill, which fills one column of blobs that old versions stored, and
  the expiry of S3 keys, which is a comparison with the clock at each request.
- `promoteWhole`, but for its effect on a scrub.

Behaviours of the code that no property is about:

- `DeleteNamespace` goes by a name that was resolved before, and not by its team: an
  empty namespace of that name that someone else created meanwhile is deleted
  (`internal/db/namespace.go:127`).
- A completion that is retried, its first answer lost, assembles the same parts again
  and may commit them over an object put in between (`internal/cas/cas.go:511`).
- A fold takes deltas in batches, each a statement that locks counters in the order of
  namespaces (`internal/db/quota.go:171`).
- Those named above under `Multipart`, `Keys`, `Sessions` and `Scrub`.
